SPECIFICATION Spec
CONSTANTS
    MaxQuestions = 1
    MaxMessages = 2
    MaxAnswers = 1
    MaxFaults = 0
INVARIANTS NoStaleYes
CHECK_DEADLOCK FALSE
