SPECIFICATION Spec
CONSTANTS
    MaxQuestions = 3
    MaxMessages = 2
    MaxAnswers = 2
    MaxFaults = 1
INVARIANTS TypeOK OneOpenPerAsk HandedOnce
CHECK_DEADLOCK FALSE
