SPECIFICATION Spec
CONSTANTS
    Batches <- TwoPictures
    Lines <- SomeLines
    MaxLines = 2
    experimentBeginTime = 1406199600
    TimeZone = 3600
INVARIANTS TypeOK Grouped IdsUnique CandidateIdsUnique
CHECK_DEADLOCK FALSE
