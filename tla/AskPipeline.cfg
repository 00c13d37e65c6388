SPECIFICATION FairSpec
CONSTANTS
    s1 = s1
    j1 = j1
    x = x
    Asks <- MCAsks
    Questions = {x}
    QuestionOf <- MCQuestionOf
    IsStreaming <- MCIsStreaming
    MaxCrashes = 1
CHECK_DEADLOCK FALSE
INVARIANTS
    CompletedOnce
    AnswerStoredOnce
    EndIsTold
PROPERTIES
    EveryAskEnds
