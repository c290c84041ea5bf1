SPECIFICATION Spec
CONSTANTS
    None = None
    Modules = {m1}
    Deinit = {m1}
    QLen = 3
CHECK_DEADLOCK FALSE
PROPERTY SkipOnlyAfterCrash
