------------------------------- MODULE MlCbr --------------------------------
(***************************************************************************)
(* Named callbacks: src/ml-cbr.c.  The module loader registers and         *)
(* unregisters callbacks for events; any task may notify an event and runs *)
(* the event's callbacks in its own context, holding ml_cbr_lock.          *)
(* Registering and unregistering touch nothing outside the lock and are    *)
(* one step; a walk over the callbacks is one step per callback start and  *)
(* return.  The nodes linked from a record are a sequence: a node leaves a *)
(* list with next = NULL, so a reused node never drags in old ones.        *)
(***************************************************************************)
EXTENDS DryosTasks, Naturals, Sequences, FiniteSets, SequencesExt

CONSTANTS
    Events, NoEvent,     \* event names; a record not in use has no name
    Callbacks,
    Prios,
    NODE_POOL_SIZE,
    RECORD_POOL_SIZE,
    MaxNodeArenas,       \* bound: node arenas malloc can supply
    MaxRecordArenas      \* bound: record arenas malloc can supply

ASSUME CbrAssumption ==
    /\ NoEvent \notin Events /\ Prios \subseteq Nat
    /\ NODE_POOL_SIZE \in Nat \ {0} /\ RECORD_POOL_SIZE \in Nat \ {0}
    /\ MaxNodeArenas \in Nat \ {0} /\ MaxRecordArenas \in Nat \ {0}

VARIABLES
    ml_cbr_lock,     \* the task that holds it, or NoTask
    cbr_record_pool, \* all records, arena after arena: name and linked nodes
    arenas,          \* number of node arenas
    used,            \* number of nodes with a callback
    walk,            \* what each task runs in ml_notify_cbr
    regs             \* history: registrations not undone, by event and callback

cbrVars == <<ml_cbr_lock, cbr_record_pool, arenas, used, walk, regs>>

NoWalk == [rec |-> 0, pos |-> 0, busy |-> FALSE]

FreeRecords == [i \in 1..RECORD_POOL_SIZE |-> [name |-> NoEvent, first |-> <<>>]]

\* _ml_cbr_init
CbrInit ==
    /\ ml_cbr_lock = NoTask
    /\ cbr_record_pool = FreeRecords
    /\ arenas = 1 /\ used = 0
    /\ walk = [t \in Tasks |-> NoWalk]
    /\ regs = [r \in Events \X Callbacks |-> 0]

-----------------------------------------------------------------------------
\* The record named e, or 0.
find_record(e) ==
    SelectInSeq(cbr_record_pool, LAMBDA r : r.name = e)

\* Before the first node of lower priority, else at the end.
insert_cbr(s, c, p) ==
    LET lower == SelectInSeq(s, LAMBDA n : n.prio < p)
    IN  InsertAt(s, IF lower = 0 THEN Len(s) + 1 ELSE lower, [cbr |-> c, prio |-> p])

\* The pool of records once an event has its record: its own, a free one that
\* takes the name, or the first of a new arena, which stays without a name.
WithRecord(e) ==
    LET i == find_record(e)
        j == find_record(NoEvent)
    IN  IF i # 0 THEN [rec |-> i, pool |-> cbr_record_pool]
        ELSE IF j # 0
        THEN [rec |-> j, pool |-> [cbr_record_pool EXCEPT ![j] = [name |-> e, first |-> <<>>]]]
        ELSE [rec |-> Len(cbr_record_pool) + 1, pool |-> cbr_record_pool \o FreeRecords]

CanExpandRecords == Len(cbr_record_pool) < MaxRecordArenas * RECORD_POOL_SIZE

\* Mutant: one node too many fits.
ArenasForOff == IF used <= arenas * NODE_POOL_SIZE THEN arenas ELSE arenas + 1

\* The arenas after a node was found; a full pool grows by an arena.
ArenasFor == IF used < arenas * NODE_POOL_SIZE THEN arenas ELSE arenas + 1

\* ml_register_cbr returns 0.
ml_register_cbr(e, c, p) ==
    LET w == WithRecord(e)
    IN  /\ ml_cbr_lock = NoTask
        /\ Len(w.pool) = Len(cbr_record_pool) \/ CanExpandRecords
        /\ ArenasFor <= MaxNodeArenas
        /\ cbr_record_pool' = [w.pool EXCEPT ![w.rec].first = insert_cbr(@, c, p)]
        /\ arenas' = ArenasFor /\ used' = used + 1
        /\ regs' = [regs EXCEPT ![<<e, c>>] = @ + 1]
        /\ UNCHANGED <<ml_cbr_lock, walk>>

\* ml_register_cbr returns -1: no memory for a record, or none for a node,
\* which leaves the event with its (possibly empty) record.
ml_register_cbr_fails(e) ==
    LET w == WithRecord(e)
    IN  /\ ml_cbr_lock = NoTask
        /\ \/ /\ Len(w.pool) # Len(cbr_record_pool)
              /\ UNCHANGED cbr_record_pool
           \/ /\ Len(w.pool) = Len(cbr_record_pool) \/ CanExpandRecords
              /\ used = arenas * NODE_POOL_SIZE
              /\ cbr_record_pool' = w.pool
        /\ UNCHANGED <<ml_cbr_lock, arenas, used, walk, regs>>

\* Mutant: the walk goes on and takes out every node of the callback.
ml_unregister_cbr_all(e, c) ==
    LET i == find_record(e)
        s == cbr_record_pool[i].first
        rest == SelectSeq(s, LAMBDA n : n.cbr # c)
    IN  /\ ml_cbr_lock = NoTask /\ i # 0
        /\ cbr_record_pool' = [cbr_record_pool EXCEPT ![i].first = rest]
        /\ used' = used - (Len(s) - Len(rest))
        /\ regs' = [regs EXCEPT ![<<e, c>>] = IF @ = 0 THEN 0 ELSE @ - 1]
        /\ UNCHANGED <<ml_cbr_lock, arenas, walk>>

\* The walk stops at the first node it takes out, whose next is cleared.
ml_unregister_cbr(e, c) ==
    LET i == find_record(e)
        s == cbr_record_pool[i].first
        k == SelectInSeq(s, LAMBDA n : n.cbr = c)
    IN  /\ ml_cbr_lock = NoTask /\ i # 0
        /\ cbr_record_pool' =
               IF k = 0 THEN cbr_record_pool
               ELSE [cbr_record_pool EXCEPT ![i].first = RemoveAt(s, k)]
        /\ used' = IF k = 0 THEN used ELSE used - 1
        /\ regs' = [regs EXCEPT ![<<e, c>>] = IF @ = 0 THEN 0 ELSE @ - 1]
        /\ UNCHANGED <<ml_cbr_lock, arenas, walk>>

-----------------------------------------------------------------------------
(* ml_notify_cbr                                                           *)

\* Mutant: the lock only covers the search for the record.
ml_notify_cbr_unlocked(t, e) ==
    /\ ml_cbr_lock = NoTask /\ walk[t] = NoWalk /\ find_record(e) # 0
    /\ walk' = [walk EXCEPT ![t] = [rec |-> find_record(e), pos |-> 1, busy |-> FALSE]]
    /\ UNCHANGED <<ml_cbr_lock, cbr_record_pool, arenas, used, regs>>

ml_notify_cbr(t, e) ==
    /\ ml_cbr_lock = NoTask /\ walk[t] = NoWalk /\ find_record(e) # 0
    /\ ml_cbr_lock' = t
    /\ walk' = [walk EXCEPT ![t] = [rec |-> find_record(e), pos |-> 1, busy |-> FALSE]]
    /\ UNCHANGED <<cbr_record_pool, arenas, used, regs>>

\* The nodes task t walks.
Walked(t) == cbr_record_pool[walk[t].rec].first

CallCbr(t) ==
    /\ walk[t] # NoWalk /\ ~ walk[t].busy /\ walk[t].pos <= Len(Walked(t))
    /\ walk' = [walk EXCEPT ![t].busy = TRUE]
    /\ UNCHANGED <<ml_cbr_lock, cbr_record_pool, arenas, used, regs>>

\* The callback returns; ML_CBR_STOP ends the walk.
CbrReturns(t, stop) ==
    /\ walk[t].busy
    /\ walk' = [walk EXCEPT ![t] = IF stop THEN NoWalk
                                   ELSE [@ EXCEPT !.busy = FALSE, !.pos = walk[t].pos + 1]]
    /\ ml_cbr_lock' = IF stop THEN NoTask ELSE ml_cbr_lock
    /\ UNCHANGED <<cbr_record_pool, arenas, used, regs>>

WalkDone(t) ==
    /\ walk[t] # NoWalk /\ ~ walk[t].busy /\ walk[t].pos > Len(Walked(t))
    /\ walk' = [walk EXCEPT ![t] = NoWalk] /\ ml_cbr_lock' = NoTask
    /\ UNCHANGED <<cbr_record_pool, arenas, used, regs>>

-----------------------------------------------------------------------------
(* Properties                                                              *)

CbrTypeOK ==
    /\ ml_cbr_lock \in Tasks \cup {NoTask}
    /\ \A i \in DOMAIN cbr_record_pool :
          /\ cbr_record_pool[i].name \in Events \cup {NoEvent}
          /\ cbr_record_pool[i].first \in Seq([cbr : Callbacks, prio : Prios])
    /\ arenas \in 1..MaxNodeArenas /\ used \in 0..(arenas * NODE_POOL_SIZE)
    /\ walk \in [Tasks -> [rec : 0..Len(cbr_record_pool), pos : Nat, busy : BOOLEAN]]
    /\ regs \in [Events \X Callbacks -> Nat]

\* The nodes an event's callbacks are on; none without a record.
NodesOf(e) ==
    IF find_record(e) = 0 THEN <<>> ELSE cbr_record_pool[find_record(e)].first

Occurrences(e, c) == Cardinality({k \in DOMAIN NodesOf(e) : NodesOf(e)[k].cbr = c})

\* All nodes on the events' lists, each by its event and place.
Linked == UNION {{e} \X DOMAIN NodesOf(e) : e \in Events}

\* Registrations and unregistrations pair up: a callback is on its event's list
\* once for every registration that returned 0 and was not undone, "Higer
\* priorities CBRs will be called before lower priority ones" (ml-cbr.h), and
\* the nodes in use are exactly those on lists, so none leaks.  This holds up to
\* RECORD_POOL_SIZE different events; the record an expansion of the pool
\* provides gets no name and its callbacks are never found again.
RegistrationsKept ==
    Len(cbr_record_pool) = RECORD_POOL_SIZE =>
        /\ \A e \in Events, c \in Callbacks : Occurrences(e, c) = regs[<<e, c>>]
        /\ \A e \in Events : \A i, j \in DOMAIN NodesOf(e) :
              i < j => NodesOf(e)[i].prio >= NodesOf(e)[j].prio
        /\ used = Cardinality(Linked)

\* A callback that runs is registered: ml_unregister_cbr does not return while
\* a walk may still call what it removes, so the module loader can free the
\* callback's code afterwards.
RunningIsRegistered ==
    \A t \in Tasks : walk[t].busy =>
        /\ walk[t].pos <= Len(Walked(t))
        /\ cbr_record_pool[walk[t].rec].name # NoEvent =>
              regs[<<cbr_record_pool[walk[t].rec].name, Walked(t)[walk[t].pos].cbr>>] > 0
=============================================================================
