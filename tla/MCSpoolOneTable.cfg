SPECIFICATION Spec
CONSTANTS
    ParserCount = 2
    FilesPerTar = 4
    TarFiles = 1
    OneTable = TRUE
    Csv <- ThreeCsv
    SecondOf <- ThreeSecondOf
    MinuteOf <- ThreeMinuteOf
    YearOf <- SameYear
    Kind <- ThreeRows
    Descriptors = 9
    MaxDeliveries = 1
    Faults = {}
    MaxFaults = 0
INVARIANTS NoRowRejected
CHECK_DEADLOCK FALSE
