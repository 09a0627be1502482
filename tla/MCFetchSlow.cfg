SPECIFICATION FairSpec
CONSTANTS
    Tar = {t, u}
    Csv = {t, u}
    CsvOf <- FileOfTar
    Observer <- OneObserver
    ObserverOf <- SameObserver
    MaxRestarts = 0
    MaxNum = 3
    TarFiles = 1
    MaxLocalArchives = 1
    Faults = {"sigint"}
    MaxFaults = 1
PROPERTIES UnzipStops
CHECK_DEADLOCK FALSE
