SPECIFICATION Spec
INVARIANT Mended
INVARIANT Reproduces
INVARIANT OwnListStands
INVARIANT LoopsReplay
INVARIANT PassIsNoLuck
CHECK_DEADLOCK FALSE
CONSTANTS
Cases = {1, 2, 3, 4}
Runs = 1
Rounds = 2
Answers <- MCAnswers
Stage <- MCStage
MaxEdits = 1
MaxCrashes = 1
CONSTANTS_ = {"zero", "one", "active_high", "active_low"}
Alphabet <- MCAlphabet
Simulates <- MCSimulates
Groups <- MCGroups
Train <- MCTrain
StepsOf <- MCStepsOf
LoopTrain <- MCLoopTrain
LoopLists <- MCLoopLists
Probes <- MCProbes
