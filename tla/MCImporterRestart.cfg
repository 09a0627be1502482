SPECIFICATION ImporterSpec
CONSTANTS
    Tar <- TwoTars
    Csv <- TwoFiles
    CsvOf <- OneFileEach
    Observer <- OneObserver
    ObserverOf <- SameObserver
    MaxRestarts = 1
    MaxNum = 1
    TarFiles = 1
    MaxLocalArchives = 2
    MaxLocalCsvFiles = 0
    Faults = {"sigint", "restart"}
    LocalFaults = {"sigint", "conn"}
    MaxFaults = 3
    ParserCount = 1
    FilesPerTar = 2
    OneTable = FALSE
    SecondOf <- Seconds
    MinuteOf <- SameMinute
    YearOf <- SameYear
    Kind <- OneRefused
    Descriptors = 9
    MaxDeliveries = 3
INVARIANTS ImportedOnce
PROPERTIES HandsOverEndToEnd
CHECK_DEADLOCK FALSE
