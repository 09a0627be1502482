SPECIFICATION Spec
CONSTANTS
    ParserCount = 2
    FilesPerTar = 4
    TarFiles = 1
    OneTable = TRUE
    Csv <- ThreeCsv
    SecondOf <- ThreeSecondOf
    MinuteOf <- ThreeMinuteOf
    YearOf <- SameYear
    Kind <- ThreeKinds
    Descriptors = 9
    MaxDeliveries = 1
    Faults = {"crash", "conn", "reply", "fs", "fopen"}
    MaxFaults = 2
INVARIANTS MutualExclusion
PROPERTIES HandsOver
CHECK_DEADLOCK FALSE
