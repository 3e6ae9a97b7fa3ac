SPECIFICATION Spec
CONSTANTS
    Fog = Fog
    Daemon = Daemon
    Boot = Boot
    Locker <- MCLocker
    Unlocked <- MCUnlocked
    Blank = Blank
    Torn = Torn
    Zero = Zero
    ZeroCrc <- MCZeroCrc
    MaxSaves = 3
    MaxRestarts = 2
    MaxErrors = 1
INVARIANTS
    CopiedFromBackup
CHECK_DEADLOCK FALSE
