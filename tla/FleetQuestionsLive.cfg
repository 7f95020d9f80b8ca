SPECIFICATION FairSpec
CONSTANTS
    MaxQuestions = 2
    MaxMessages = 2
    MaxAnswers = 1
    MaxFaults = 1
PROPERTIES KeptAnswerEnds
CHECK_DEADLOCK FALSE
