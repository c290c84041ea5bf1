SPECIFICATION Spec
CONSTANTS
    None = None
    Events = {e1, e2, e3}
    Stops = {t1}
    MaxTries = 1
    BufFrames = 1
CHECK_DEADLOCK FALSE
PROPERTY ReEnabled
