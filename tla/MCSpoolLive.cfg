SPECIFICATION FairSpec
CONSTANTS
    ParserCount = 2
    FilesPerTar = 4
    TarFiles = 1
    OneTable = FALSE
    Csv <- FourCsv
    SecondOf <- FourSecondOf
    MinuteOf <- FourMinuteOf
    YearOf <- SameYear
    Kind <- FourKinds
    Descriptors = 9
    MaxDeliveries = 1
    Faults = {"sigint"}
    MaxFaults = 2
INVARIANTS TypeOK LocksHaveOwners NoRowRejected NothingLost
PROPERTIES StopsWhenInterrupted EventuallyImported
CHECK_DEADLOCK FALSE
