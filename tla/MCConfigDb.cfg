SPECIFICATION FairSpec
CONSTANTS
    Value <- TwoValues
    FirstTexts <- FewTexts
    MaxEdits = 1
    MaxFailures = 1
PROPERTIES DbFollows
CHECK_DEADLOCK FALSE
