SPECIFICATION Spec
CONSTANTS
    Tar = {t, u}
    Csv = {t, u}
    CsvOf <- FileOfTar
    Observer <- OneObserver
    ObserverOf <- SameObserver
    MaxRestarts = 1
    MaxNum = 2
    TarFiles = 1
    MaxLocalArchives = 1
    Faults = {"sigint", "restart", "ssh", "reply", "remote", "scp", "tar", "mv", "fs", "opendir",
              "reaped"}
    MaxFaults = 2
SYMMETRY TarSymmetry
INVARIANTS TypeOK UnpackedOnce Backpressure
PROPERTIES HandsOver
CHECK_DEADLOCK FALSE
