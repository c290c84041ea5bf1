SPECIFICATION Spec
CONSTANTS
    None = None
    Tasks = {t1, t2, t3}
    Recorders = {r1, r2}
INVARIANTS
    TypeOK
    OneCopy
    CopiedWhenFinished
PROPERTIES
    Released
    ImplementsService
