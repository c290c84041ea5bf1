\* In MB, with shoot_malloc_autodetect's steps of 4 scaled to 2: it finds 2 + 2 - 1
\* of 4, and nothing when the other task holds a suite of 2.
SPECIFICATION Spec
CONSTANTS
    Tasks = {t1, t2}
    NoTask = NoTask
    Total = 4
    Chunk = 2
    Backup = 2
    Margin = 1
    MaxTested = 8
    PlainUsers = {t1}
    PlainSizes = {0, 2}
    ContigUsers = {t2}
    ContigSizes = {2}
    Infos = {i1, i2}
    Suites = {s1, s2, s3, s4, s5, s6}
    NoSuite = NoSuite
    COUNT = 3
    SrmLeast = 2
    Wanted = {0, 1}
    SrmUsers = {t1, t2}
INVARIANTS TypeOK SuitesAccounted AutodetectFits SrmBuffersSafe ShutterReleased
PROPERTY MemSemReleased
\* A task that frees a null pointer stops everything, and so does a crossed answer.
CHECK_DEADLOCK FALSE
