SPECIFICATION ImporterFairSpec
CONSTANTS
    Tar <- TwoTars
    Csv <- TwoFiles
    CsvOf <- OneFileEach
    Observer <- OneObserver
    ObserverOf <- SameObserver
    MaxRestarts = 0
    MaxNum = 2
    TarFiles = 1
    MaxLocalArchives = 1
    MaxLocalCsvFiles = 0
    Faults = {"sigint"}
    LocalFaults = {"sigint"}
    MaxFaults = 1
    ParserCount = 1
    FilesPerTar = 2
    OneTable = FALSE
    SecondOf <- Seconds
    MinuteOf <- SameMinute
    YearOf <- SameYear
    Kind <- AllRows
    Descriptors = 9
    MaxDeliveries = 3
PROPERTIES ProgramStops EventuallyInDatabase
CHECK_DEADLOCK FALSE
