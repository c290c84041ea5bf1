\* Record arenas of one for two events, so that an event can be refused for want
\* of a record; node arenas of one, of which there are two; two callbacks, one
\* of which posts.
SPECIFICATION Spec
CONSTANTS
    loader = loader
    rec = rec
    NoTask = NoTask
    Tasks <- MCTasks
    Loader = loader
    Notifiers <- MCNotifiers
    ev1 = ev1
    ev2 = ev2
    NoEvent = NoEvent
    Events <- MCEvents
    c1 = c1
    c2 = c2
    Callbacks <- MCCallbacks
    Boxers <- MCBoxers
    Entries <- MCEntries
    Prios = {0, 1}
    NODE_POOL_SIZE = 1
    RECORD_POOL_SIZE = 1
    MaxNodeArenas = 2
    MaxRecordArenas = 1
    Msgs = {m1, m2}
    NoMsg = NoMsg
    Timeouts = {2}
    MaxPosts = 2
INVARIANTS TypeOK RegistrationsKept RunningIsRegistered BoxShowsMessage
PROPERTIES WalkEnds BoxGoesAway WaitingMessageShown
CHECK_DEADLOCK FALSE
