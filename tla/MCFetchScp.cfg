SPECIFICATION Spec
CONSTANTS
    Tar = {t, u}
    Csv = {t, u}
    CsvOf <- FileOfTar
    Observer <- OneObserver
    ObserverOf <- SameObserver
    MaxRestarts = 0
    MaxNum = 3
    TarFiles = 1
    MaxLocalArchives = 1
    Faults = {"scp"}
    MaxFaults = 1
INVARIANTS CompletedIsWhole
CHECK_DEADLOCK FALSE
