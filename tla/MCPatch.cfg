SPECIFICATION Spec
CONSTANTS
    r1 = r1
    r2 = r2
    r3 = r3
    r4 = r4
    m1 = m1
    m2 = m2
    v0 = v0
    v1 = v1
    Rom = {r1, r2, r3, r4}
    Ram = {m1, m2}
    Val = {v0, v1}
    Slots = {s1}
    NoWord = NoWord
    NoAddr = NoAddr
    NoSlot = NoSlot
    OutOfRange = {r2}
    Unfakeable = {r4}
    MAX_PATCHES = 3
    MaxBatch = 2
    Index <- MCIndex
    Tag <- MCTag
    rom <- MCrom
    Requests <- MCRequests
INVARIANTS
    TypeOK
    RomPatchesInEffect
    RomOriginalsRecorded
    LockReleased
    NoDanglingHook
    NoLeakedHook
    RollbackCompleteButRamCode
    OthersKept
