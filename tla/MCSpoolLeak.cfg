SPECIFICATION Spec
CONSTANTS
    ParserCount = 1
    FilesPerTar = 1
    TarFiles = 1
    OneTable = FALSE
    Csv <- ThreeCsv
    SecondOf <- ThreeSecondOf
    MinuteOf <- ThreeMinuteOf
    YearOf <- SameYear
    Kind <- ThreeRows
    Descriptors = 1
    MaxDeliveries = 1
    Faults = {"emfile"}
    MaxFaults = 0
INVARIANTS AllLinesRead
CHECK_DEADLOCK FALSE
