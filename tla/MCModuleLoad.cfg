SPECIFICATION Spec
CONSTANTS
    None = None
    Modules = {m1}
    Deinit = {m1}
    QLen = 3
INVARIANTS
    TypeOK
    FreedStrings
PROPERTIES
    CrashSkipped
    SkipExplained
    DeinitOnce
