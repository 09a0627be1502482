SPECIFICATION FairSpec
CONSTANTS
    Value <- TwoValues
    FirstTexts <- FewTexts
    MaxEdits = 2
    MaxFailures = 1
INVARIANTS Shards
PROPERTIES MainFollows
CHECK_DEADLOCK FALSE
