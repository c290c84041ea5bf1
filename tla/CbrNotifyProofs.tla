-------------------------- MODULE CbrNotifyProofs ---------------------------
(***************************************************************************)
(* The callback registry and the notification box, for any events,         *)
(* callbacks, priorities, sizes of the pools, tasks and messages: lists    *)
(* hold what was registered, what runs is registered, and the box shows    *)
(* the latest message.                                                     *)
(***************************************************************************)
EXTENDS CbrNotify, CbrListProofs

-----------------------------------------------------------------------------
(* The invariant of the registry                                           *)

UsedInv == arenas \in 1..MaxNodeArenas /\ used \in 0..(arenas * NODE_POOL_SIZE)

RegsInv == regs \in [Events \X Callbacks -> Nat]

CountInv == Counted(Lists(cbr_record_pool), regs, used, Len(cbr_record_pool))

\* A walk is under the lock and in a record; a callback that runs is on its list.
WalkInv ==
    /\ ml_cbr_lock \in Tasks \cup {NoTask}
    /\ walk \in [Tasks -> [rec : Nat, pos : Nat, busy : BOOLEAN]]
    /\ \A t \in Tasks : walk[t] # NoWalk =>
          /\ ml_cbr_lock = t /\ walk[t].rec \in DOMAIN cbr_record_pool /\ walk[t].pos >= 1
          /\ walk[t].busy => walk[t].pos \in DOMAIN Walked(t)

CbrInv == PoolInv /\ UsedInv /\ RegsInv /\ CountInv /\ WalkInv

\* Nobody walks while the lock is free.
LEMMA NoWalks ==
  ASSUME WalkInv, ml_cbr_lock = NoTask
  PROVE  \A t \in Tasks : walk[t] = NoWalk
  BY TasksAssumption, Zenon DEF WalkInv

\* So registering and unregistering disturb no walk.
LEMMA WalkStays ==
  ASSUME WalkInv, ml_cbr_lock = NoTask, UNCHANGED <<ml_cbr_lock, walk>>
  PROVE  WalkInv'
  <1>1. \A t \in Tasks : walk'[t] = NoWalk
    BY NoWalks, Zenon
  <1> QED
    BY <1>1, Zenon DEF WalkInv

\* A node is found in an arena, or in a new one.
LEMMA NodeFound ==
  ASSUME UsedInv, ArenasFor <= MaxNodeArenas, arenas' = ArenasFor, used' = used + 1
  PROVE  UsedInv' /\ used \in Nat
  <1>0. NODE_POOL_SIZE \in Nat \ {0} /\ MaxNodeArenas \in Nat
    BY CbrAssumption, Zenon
  <1>1. PICK n : n = arenas * NODE_POOL_SIZE
    OBVIOUS
  <1>2. arenas \in Nat /\ arenas >= 1 /\ n \in Nat /\ used \in 0..n
    BY <1>0, <1>1 DEF UsedInv
  <1>3. (arenas + 1) * NODE_POOL_SIZE = n + NODE_POOL_SIZE
    BY <1>0, <1>1, <1>2
  <1>4. CASE used < n
    <2>1. arenas' = arenas
      BY <1>1, <1>4, Zenon DEF ArenasFor
    <2>2. used + 1 \in 0..n /\ used \in Nat
      BY <1>2, <1>4
    <2> QED
      BY <1>1, <2>1, <2>2, Zenon DEF UsedInv
  <1>5. CASE ~ (used < n)
    <2>1. ArenasFor = arenas + 1
      BY <1>1, <1>5, Zenon DEF ArenasFor
    <2>2. used + 1 \in 0..(n + NODE_POOL_SIZE) /\ used \in Nat
      BY <1>0, <1>2, <1>5
    <2>3. arenas + 1 \in 1..MaxNodeArenas
      BY <1>0, <1>2, <2>1
    <2> QED
      BY <1>3, <2>1, <2>2, <2>3, Zenon DEF UsedInv
  <1> QED
    BY <1>4, <1>5, Zenon

\* ml_register_cbr puts the callback on the list of its event.
LEMMA RegisterKeeps ==
  ASSUME CbrInv, NEW e \in Events, NEW c \in Callbacks, NEW p \in Prios, ml_register_cbr(e, c, p)
  PROVE  CbrInv'
  <1>1. PICK w : w = WithRecord(e)
    OBVIOUS
  <1>2. /\ ml_cbr_lock = NoTask /\ UNCHANGED <<ml_cbr_lock, walk>>
        /\ cbr_record_pool' = [w.pool EXCEPT ![w.rec].first = insert_cbr(w.pool[w.rec].first, c, p)]
        /\ ArenasFor <= MaxNodeArenas /\ arenas' = ArenasFor /\ used' = used + 1
        /\ regs' = More(regs, e, c)
    BY <1>1, Zenon DEF ml_register_cbr, More
  <1>3. Provided(w, e)
    BY <1>1, WithRecordIs, Zenon DEF CbrInv
  <1>4. PICK k : k = w.rec
    OBVIOUS
  <1>5. PICK q : q = w.pool
    OBVIOUS
  <1>6. /\ q \in Seq(Record) /\ Distinct(q) /\ k \in DOMAIN q
        /\ Lists(q) = Lists(cbr_record_pool)
        /\ \/ Len(q) = Len(cbr_record_pool) /\ q[k].name = e
           \/ Len(q) > Len(cbr_record_pool) /\ q[k].name = NoEvent
    BY <1>3, <1>4, <1>5, Zenon DEF Provided
  <1>7. PICK s : s = q[k].first
    OBVIOUS
  <1>8. PICK r : r = insert_cbr(s, c, p)
    OBVIOUS
  <1>9. s \in Seq(Node)
    <2>1. q[k] \in Record
      BY <1>6
    <2> QED
      BY <1>7, <2>1, Zenon DEF Record
  <1>10. r \in Seq(Node)
    <2>1. PICK i \in 1..(Len(s) + 1) : insert_cbr(s, c, p) = InsertAt(s, i, [cbr |-> c, prio |-> p])
      BY <1>9, InsertIs, Zenon
    <2>2. [cbr |-> c, prio |-> p] \in Node
      BY DEF Node
    <2>3. InsertAt(s, i, [cbr |-> c, prio |-> p]) \in Seq(Node)
      BY <1>9, <2>2, Inserted
    <2> QED
      BY <1>8, <2>1, <2>3, Zenon
  <1>11. cbr_record_pool' = [q EXCEPT ![k].first = r]
    BY <1>2, <1>4, <1>5, <1>7, <1>8, Zenon
  <1>12. PICK P : P = cbr_record_pool'
    OBVIOUS
  <1>13. /\ P \in Seq(Record) /\ Distinct(P) /\ Len(P) = Len(q)
         /\ \A d \in Events : Lists(P)[d] = IF q[k].name = d THEN r ELSE Lists(q)[d]
    <2>1. P = PutList(q, k, r)
      BY <1>11, <1>12, Zenon DEF PutList
    <2>2. ListChanged(q, P, k, r)
      BY <1>6, <1>10, <2>1, ListPut, Zenon
    <2> QED
      BY <2>2, Zenon DEF ListChanged
  <1>14. PoolInv'
    <2>1. Len(P) >= RECORD_POOL_SIZE
      <3>1. /\ Len(cbr_record_pool) >= RECORD_POOL_SIZE /\ Len(cbr_record_pool) \in Nat
            /\ RECORD_POOL_SIZE \in Nat /\ Len(q) \in Nat
        BY <1>6, CbrAssumption DEF CbrInv, PoolInv
      <3> QED
        BY <1>6, <1>13, <3>1
    <2> QED
      BY <1>12, <1>13, <2>1, Zenon DEF PoolInv
  <1>15. UsedInv' /\ used \in Nat
    BY <1>2, NodeFound, Zenon DEF CbrInv
  <1>16. RegsInv'
    BY <1>2, RegsType, Zenon DEF CbrInv, RegsInv
  <1>17. WalkInv'
    BY <1>2, WalkStays, Zenon DEF CbrInv
  <1>18. PICK N : N = Lists(cbr_record_pool)
    OBVIOUS
  <1>19. Counted(N, regs, used, Len(cbr_record_pool)) /\ regs \in [Events \X Callbacks -> Nat]
    BY <1>18, Zenon DEF CbrInv, CountInv, RegsInv
  <1>20. Counted(Lists(P), More(regs, e, c), used + 1, Len(P))
    <2>1. CASE Len(q) = Len(cbr_record_pool) /\ q[k].name = e
      <3>1. N[e] = s
        <4>1. HasList(q, e)
          BY <1>6, ListIs, Zenon
        <4> QED
          BY <1>6, <1>7, <1>18, <2>1, <4>1, Zenon DEF HasList
      <3>2. Sorted(s)
        BY <1>19, <3>1, Zenon DEF Counted
      <3>3. Sorted(r) /\ \E i : OneMore(s, r, i) /\ r[i].cbr = c
        <4>1. /\ Sorted(insert_cbr(s, c, p))
              /\ \E i : OneMore(s, insert_cbr(s, c, p), i) /\ insert_cbr(s, c, p)[i].cbr = c
          BY <1>9, <3>2, InsertSorted
        <4> QED
          BY <1>8, <4>1, Zenon
      <3>4. PICK i : OneMore(s, r, i) /\ r[i].cbr = c
        BY <3>3, Zenon
      <3>5. PICK M : M = Lists(P)
        OBVIOUS
      <3>6. M[e] = r /\ \A d \in Events : d # e => M[d] = N[d]
        BY <1>6, <1>13, <1>18, <2>1, <3>5, Zenon
      <3>7. /\ OneMore(N[e], M[e], i) /\ M[e][i].cbr = c /\ M[e] \in Seq(Node) /\ Sorted(M[e])
        BY <1>10, <3>1, <3>3, <3>4, <3>6, Zenon
      <3>8. Counted(M, More(regs, e, c), used + 1, Len(cbr_record_pool))
        BY <1>15, <1>19, <3>6, <3>7, CountGrows
      <3> QED
        BY <1>13, <2>1, <3>5, <3>8, Zenon
    <2>2. CASE Len(q) > Len(cbr_record_pool) /\ q[k].name = NoEvent
      <3>1. \A d \in Events : Lists(P)[d] = Lists(q)[d]
        <4>1. NoEvent \notin Events
          BY CbrAssumption, Zenon
        <4> QED
          BY <1>13, <2>2, <4>1, Zenon
      <3>2. Lists(P) = N
        BY <1>6, <1>18, <3>1, ListsEqual, Zenon
      <3>3. Len(P) # RECORD_POOL_SIZE
        <4>1. /\ Len(cbr_record_pool) >= RECORD_POOL_SIZE /\ Len(cbr_record_pool) \in Nat
              /\ RECORD_POOL_SIZE \in Nat /\ Len(q) \in Nat
          BY <1>6, CbrAssumption DEF CbrInv, PoolInv
        <4> QED
          BY <1>13, <2>2, <4>1
      <3> QED
        BY <1>15, <1>19, <3>2, <3>3, CountLeaks, Zenon
    <2> QED
      BY <1>6, <2>1, <2>2, Zenon
  <1>21. CountInv'
    BY <1>2, <1>12, <1>20, Zenon DEF CountInv
  <1> QED
    BY <1>14, <1>15, <1>16, <1>17, <1>21, Zenon DEF CbrInv

\* ml_register_cbr fails: the event has its record or the pool has grown, no more.
LEMMA RegisterFailsKeeps ==
  ASSUME CbrInv, NEW e \in Events, ml_register_cbr_fails(e)
  PROVE  CbrInv'
  <1>1. PICK w : w = WithRecord(e)
    OBVIOUS
  <1>2. /\ ml_cbr_lock = NoTask /\ UNCHANGED <<ml_cbr_lock, walk, arenas, used, regs>>
        /\ cbr_record_pool' = cbr_record_pool \/ cbr_record_pool' = w.pool
    BY <1>1, Zenon DEF ml_register_cbr_fails
  <1>3. Provided(w, e)
    BY <1>1, WithRecordIs, Zenon DEF CbrInv
  <1>4. UsedInv' /\ RegsInv' /\ WalkInv'
    BY <1>2, WalkStays, Zenon DEF CbrInv, UsedInv, RegsInv
  <1>5. CASE cbr_record_pool' = cbr_record_pool
    BY <1>2, <1>4, <1>5, Zenon DEF CbrInv, PoolInv, CountInv
  <1>6. CASE cbr_record_pool' = w.pool
    <2>1. PICK q : q = w.pool
      OBVIOUS
    <2>2. /\ q \in Seq(Record) /\ Distinct(q) /\ Lists(q) = Lists(cbr_record_pool)
          /\ Len(q) = Len(cbr_record_pool) \/ Len(q) > Len(cbr_record_pool)
      BY <1>3, <2>1, Zenon DEF Provided
    <2>3. /\ Len(cbr_record_pool) >= RECORD_POOL_SIZE /\ Len(cbr_record_pool) \in Nat
          /\ RECORD_POOL_SIZE \in Nat /\ Len(q) \in Nat
      BY <2>2, CbrAssumption DEF CbrInv, PoolInv
    <2>4. /\ Len(q) >= RECORD_POOL_SIZE
          /\ Len(q) = RECORD_POOL_SIZE => Len(cbr_record_pool) = RECORD_POOL_SIZE
      BY <2>2, <2>3
    <2>5. Counted(Lists(q), regs, used, Len(q))
      BY <2>2, <2>4, Zenon DEF CbrInv, CountInv, Counted
    <2>6. CountInv' /\ PoolInv'
      BY <1>2, <1>6, <2>1, <2>2, <2>4, <2>5, Zenon DEF CountInv, PoolInv
    <2> QED
      BY <1>4, <2>6, Zenon DEF CbrInv
  <1> QED
    BY <1>2, <1>5, <1>6, Zenon

\* Where ml_unregister_cbr finds the callback, 0 if nowhere.
NodeAt(s, c) == SelectInSeq(s, LAMBDA n : n.cbr = c)

\* It finds a node of the callback if the list has one.
LEMMA NodeSought ==
  ASSUME NEW s \in Seq(Node), NEW c
  PROVE  \/ NodeAt(s, c) \in 1..Len(s) /\ NodeAt(s, c) # 0 /\ s[NodeAt(s, c)].cbr = c
         \/ NodeAt(s, c) = 0 /\ At(s, c) = {}
  <1> DEFINE I == {i \in 1..Len(s) : s[i].cbr = c}
  <1>1. NodeAt(s, c) = IF I # {} THEN Min(I) ELSE 0
    BY Zenon DEF NodeAt, SelectInSeq
  <1>2. I = At(s, c)
    BY DEF At
  <1>3. CASE I = {}
    BY <1>1, <1>2, <1>3, Zenon
  <1>4. CASE I # {}
    <2>1. I \subseteq Nat
      OBVIOUS
    <2>2. Min(I) \in I
      BY <1>4, <2>1, Least, Zenon
    <2>3. Min(I) # 0 /\ Min(I) \in 1..Len(s) /\ s[Min(I)].cbr = c
      BY <2>2
    <2> QED
      BY <1>1, <1>4, <2>3, Zenon
  <1> QED
    BY <1>3, <1>4, Zenon

\* ml_unregister_cbr takes out one node of the callback, if there is one.
LEMMA UnregisterKeeps ==
  ASSUME CbrInv, NEW e \in Events, NEW c \in Callbacks, ml_unregister_cbr(e, c)
  PROVE  CbrInv'
  <1>1. PICK i : i = RecordOf(cbr_record_pool, e)
    OBVIOUS
  <1>2. PICK s : s = cbr_record_pool[i].first
    OBVIOUS
  <1>3. PICK k : k = NodeAt(s, c)
    OBVIOUS
  <1>4. /\ ml_cbr_lock = NoTask /\ i # 0 /\ UNCHANGED <<ml_cbr_lock, walk, arenas>>
        /\ cbr_record_pool' = IF k = 0 THEN cbr_record_pool
                              ELSE PutList(cbr_record_pool, i, RemoveAt(s, k))
        /\ used' = IF k = 0 THEN used ELSE used - 1
        /\ regs' = Less(regs, e, c)
    BY <1>1, <1>2, <1>3, Zenon
    DEF ml_unregister_cbr, find_record, RecordOf, NodeAt, PutList, Less
  <1>5. /\ cbr_record_pool \in Seq(Record) /\ Distinct(cbr_record_pool)
        /\ Len(cbr_record_pool) >= RECORD_POOL_SIZE
        /\ regs \in [Events \X Callbacks -> Nat]
    BY Zenon DEF CbrInv, PoolInv, RegsInv
  <1>6. i \in DOMAIN cbr_record_pool /\ cbr_record_pool[i].name = e
    BY <1>1, <1>4, <1>5, RecordFound, Zenon
  <1>7. s \in Seq(Node)
    <2>1. cbr_record_pool[i] \in Record
      BY <1>5, <1>6
    <2> QED
      BY <1>2, <2>1, Zenon DEF Record
  <1>8. WalkInv'
    BY <1>4, WalkStays, Zenon DEF CbrInv
  <1>9. RegsInv'
    BY <1>4, <1>5, RegsType, Zenon DEF RegsInv
  <1>10. PICK N : N = Lists(cbr_record_pool)
    OBVIOUS
  <1>11. N[e] = s
    <2>1. HasList(cbr_record_pool, e)
      BY <1>5, ListIs, Zenon
    <2> QED
      BY <1>2, <1>6, <1>10, <2>1, Zenon DEF HasList
  <1>12. PICK n : n = Len(cbr_record_pool)
    OBVIOUS
  <1>13. Counted(N, regs, used, n)
    BY <1>10, <1>12, Zenon DEF CbrInv, CountInv
  <1>14. /\ used \in Nat /\ arenas \in 1..MaxNodeArenas /\ used \in 0..(arenas * NODE_POOL_SIZE)
         /\ arenas * NODE_POOL_SIZE \in Nat
    BY CbrAssumption DEF CbrInv, UsedInv
  <1>15. CASE k = 0
    <2>1. At(N[e], c) = {}
      BY <1>3, <1>7, <1>11, <1>15, NodeSought, Zenon
    <2>2. Counted(N, Less(regs, e, c), used, n)
      BY <1>5, <1>13, <1>14, <2>1, CountAbsent, Zenon
    <2>3. cbr_record_pool' = cbr_record_pool /\ used' = used
      BY <1>4, <1>15, Zenon
    <2>4. CountInv' /\ PoolInv' /\ UsedInv'
      BY <1>4, <1>5, <1>10, <1>12, <1>14, <2>2, <2>3, Zenon DEF CountInv, PoolInv, UsedInv
    <2> QED
      BY <1>8, <1>9, <2>4, Zenon DEF CbrInv
  <1>16. CASE k # 0
    <2>1. k \in 1..Len(s) /\ s[k].cbr = c
      BY <1>3, <1>7, <1>16, NodeSought, Zenon
    <2>2. PICK r : r = RemoveAt(s, k)
      OBVIOUS
    <2>3. r \in Seq(Node) /\ OneMore(r, s, k)
      <3>1. RemoveAt(s, k) \in Seq(Node) /\ OneMore(RemoveAt(s, k), s, k)
        BY <1>7, <2>1, Removed
      <3> QED
        BY <2>2, <3>1, Zenon
    <2>4. Sorted(r)
      <3>1. Sorted(s)
        BY <1>11, <1>13, Zenon DEF Counted
      <3> QED
        BY <2>3, <3>1, RemoveSorted, Zenon
    <2>5. PICK P : P = cbr_record_pool'
      OBVIOUS
    <2>6. P = PutList(cbr_record_pool, i, r) /\ used' = used - 1
      BY <1>4, <1>16, <2>2, <2>5, Zenon
    <2>7. ListChanged(cbr_record_pool, P, i, r)
      BY <1>5, <1>6, <2>3, <2>6, ListPut, Zenon
    <2>8. PICK M : M = Lists(P)
      OBVIOUS
    <2>9. /\ M[e] = r /\ \A d \in Events : d # e => M[d] = N[d]
          /\ P \in Seq(Record) /\ Distinct(P) /\ Len(P) = n
      BY <1>6, <1>10, <1>12, <2>7, <2>8, Zenon DEF ListChanged
    <2>10. OneMore(M[e], N[e], k) /\ N[e][k].cbr = c /\ M[e] \in Seq(Node) /\ Sorted(M[e])
      BY <1>11, <2>1, <2>3, <2>4, <2>9, Zenon
    <2>11. Counted(M, Less(regs, e, c), used - 1, n) /\ used >= 1
      <3>1. \A d \in Events : d # e => M[d] = N[d]
        BY <2>9, Zenon
      <3>2. used \in Nat /\ regs \in [Events \X Callbacks -> Nat]
        BY <1>5, <1>14, Zenon
      <3> QED
        BY <1>13, <2>10, <3>1, <3>2, CountShrinks, ZenonT(40)
    <2>12. used - 1 \in 0..(arenas * NODE_POOL_SIZE)
      BY <1>14, <2>11
    <2>13. CountInv'
      BY <1>4, <2>5, <2>6, <2>8, <2>9, <2>11, Zenon DEF CountInv
    <2>14. PoolInv' /\ UsedInv'
      BY <1>4, <1>5, <1>12, <1>14, <2>5, <2>6, <2>9, <2>12, Zenon DEF PoolInv, UsedInv
    <2> QED
      BY <1>8, <1>9, <2>13, <2>14, Zenon DEF CbrInv
  <1> QED
    BY <1>15, <1>16, Zenon

-----------------------------------------------------------------------------
(* Walks                                                                   *)

Walk == [rec : Nat, pos : Nat, busy : BOOLEAN]

\* What a step of task t makes of its walk is again under the lock.
WalkFits(w, t) ==
    w # NoWalk => /\ ml_cbr_lock' = t /\ w.rec \in DOMAIN cbr_record_pool /\ w.pos >= 1
                  /\ w.busy => w.pos \in DOMAIN cbr_record_pool[w.rec].first

\* Nobody else walks while t holds the lock or takes it.
LEMMA WalkSet ==
  ASSUME WalkInv, NEW t \in Tasks, NEW w \in Walk, ml_cbr_lock \in {t, NoTask},
         walk' = [walk EXCEPT ![t] = w], UNCHANGED cbr_record_pool,
         ml_cbr_lock' \in {t, NoTask}, WalkFits(w, t)
  PROVE  WalkInv'
  <1>1. walk \in [Tasks -> Walk]
    BY Zenon DEF WalkInv, Walk
  <1>2. \A u \in Tasks : u # t => walk[u] = NoWalk
    BY TasksAssumption, Zenon DEF WalkInv
  <1>3. walk' \in [Tasks -> Walk] /\ walk'[t] = w /\ \A u \in Tasks : u # t => walk'[u] = NoWalk
    BY <1>1, <1>2
  <1>4. ml_cbr_lock' \in Tasks \cup {NoTask}
    BY Zenon
  <1>5. \A u \in Tasks : walk'[u] # NoWalk =>
          /\ ml_cbr_lock' = u /\ walk'[u].rec \in DOMAIN cbr_record_pool' /\ walk'[u].pos >= 1
          /\ walk'[u].busy => walk'[u].pos \in DOMAIN cbr_record_pool'[walk'[u].rec].first
    BY <1>3, Zenon DEF WalkFits
  <1> QED
    BY <1>3, <1>4, <1>5, Zenon DEF WalkInv, Walked, Walk

\* The registry stays as it is while tasks walk.
LEMMA RegistryStays ==
  ASSUME CbrInv, UNCHANGED <<cbr_record_pool, arenas, used, regs>>, WalkInv'
  PROVE  CbrInv'
  BY Zenon DEF CbrInv, PoolInv, UsedInv, RegsInv, CountInv

\* A walk holds the lock and is in a record.
LEMMA InWalk ==
  ASSUME WalkInv, NEW t \in Tasks, walk[t] # NoWalk
  PROVE  /\ ml_cbr_lock = t /\ walk[t] \in Walk /\ walk[t].rec \in DOMAIN cbr_record_pool
         /\ walk[t].pos >= 1 /\ (walk[t].busy => walk[t].pos \in DOMAIN Walked(t))
  BY Zenon DEF WalkInv, Walk

\* A task that is not in ml_notify_cbr.
LEMMA NoWalkType == NoWalk \in Walk
  BY DEF NoWalk, Walk

\* ml_notify_cbr takes the lock and starts at the first node of the event's record.
LEMMA NotifyKeeps ==
  ASSUME CbrInv, NEW t \in Tasks, NEW e \in Events, ml_notify_cbr(t, e)
  PROVE  CbrInv'
  <1>1. PICK i : i = RecordOf(cbr_record_pool, e)
    OBVIOUS
  <1>2. PICK w : w = [rec |-> i, pos |-> 1, busy |-> FALSE]
    OBVIOUS
  <1>3. /\ ml_cbr_lock = NoTask /\ i # 0 /\ ml_cbr_lock' = t
        /\ walk' = [walk EXCEPT ![t] = w] /\ UNCHANGED <<cbr_record_pool, arenas, used, regs>>
    BY <1>1, <1>2, Zenon DEF ml_notify_cbr, find_record, RecordOf
  <1>4. i \in DOMAIN cbr_record_pool /\ cbr_record_pool \in Seq(Record)
    BY <1>1, <1>3, RecordFound, Zenon DEF CbrInv, PoolInv
  <1>5. w \in Walk /\ w.rec = i /\ ~ w.busy /\ w.pos >= 1
    BY <1>2, <1>4 DEF Walk
  <1>6. WalkFits(w, t)
    BY <1>3, <1>4, <1>5, Zenon DEF WalkFits
  <1>7. WalkInv'
    BY <1>3, <1>5, <1>6, WalkSet DEF CbrInv
  <1> QED
    BY <1>3, <1>7, RegistryStays, Zenon

\* A callback is called from a node of the list.
LEMMA CallKeeps ==
  ASSUME CbrInv, NEW t \in Tasks, CallCbr(t)
  PROVE  CbrInv'
  <1>1. WalkInv /\ cbr_record_pool \in Seq(Record)
    BY Zenon DEF CbrInv, PoolInv
  <1>2. /\ walk[t] # NoWalk /\ walk[t].pos <= Len(Walked(t)) /\ ~ walk[t].busy
        /\ walk' = [walk EXCEPT ![t].busy = TRUE]
        /\ UNCHANGED <<ml_cbr_lock, cbr_record_pool, arenas, used, regs>>
    BY Zenon DEF CallCbr
  <1>3. /\ ml_cbr_lock = t /\ walk[t] \in Walk /\ walk[t].rec \in DOMAIN cbr_record_pool
        /\ walk[t].pos >= 1
    BY <1>1, <1>2, InWalk, Zenon
  <1>4. PICK w : w = [walk[t] EXCEPT !.busy = TRUE]
    OBVIOUS
  <1>5. w \in Walk /\ w.rec = walk[t].rec /\ w.pos = walk[t].pos
    BY <1>3, <1>4 DEF Walk
  <1>6. walk' = [walk EXCEPT ![t] = w]
    BY <1>2, <1>4
  <1>7. Walked(t) \in Seq(Node)
    <2>1. cbr_record_pool[walk[t].rec] \in Record
      BY <1>1, <1>3
    <2> QED
      BY <2>1, Zenon DEF Record, Walked
  <1>8. walk[t].pos \in DOMAIN Walked(t)
    BY <1>2, <1>3, <1>7 DEF Walk
  <1>9. WalkFits(w, t)
    BY <1>2, <1>3, <1>5, <1>8, Zenon DEF WalkFits, Walked
  <1>10. WalkInv'
    BY <1>1, <1>2, <1>3, <1>5, <1>6, <1>9, WalkSet
  <1> QED
    BY <1>2, <1>10, RegistryStays, Zenon

\* A callback returns: the walk goes on with the next node or is over.
LEMMA ReturnKeeps ==
  ASSUME CbrInv, NEW t \in Tasks, NEW stop \in BOOLEAN, CbrReturns(t, stop)
  PROVE  CbrInv'
  <1>1. WalkInv
    BY Zenon DEF CbrInv
  <1>2. PICK w : w = IF stop THEN NoWalk ELSE [walk[t] EXCEPT !.busy = FALSE, !.pos = walk[t].pos + 1]
    OBVIOUS
  <1>3. /\ walk[t].busy /\ walk' = [walk EXCEPT ![t] = w]
        /\ ml_cbr_lock' = IF stop THEN NoTask ELSE ml_cbr_lock
        /\ UNCHANGED <<cbr_record_pool, arenas, used, regs>>
    BY <1>2, Zenon DEF CbrReturns
  <1>4. walk[t] # NoWalk
    BY <1>3 DEF NoWalk
  <1>5. /\ ml_cbr_lock = t /\ walk[t] \in Walk /\ walk[t].rec \in DOMAIN cbr_record_pool
        /\ walk[t].pos >= 1
    BY <1>1, <1>4, InWalk, Zenon
  <1>6. CASE stop
    <2>1. w = NoWalk /\ ml_cbr_lock' = NoTask
      BY <1>2, <1>3, <1>6, Zenon
    <2>2. w \in Walk /\ WalkFits(w, t)
      BY <2>1, NoWalkType, Zenon DEF WalkFits
    <2>3. WalkInv'
      BY <1>1, <1>3, <1>5, <2>1, <2>2, WalkSet
    <2> QED
      BY <1>3, <2>3, RegistryStays, Zenon
  <1>7. CASE ~ stop
    <2>1. ml_cbr_lock' = t /\ w = [walk[t] EXCEPT !.busy = FALSE, !.pos = walk[t].pos + 1]
      BY <1>2, <1>3, <1>5, <1>7, Zenon
    <2>2. w \in Walk /\ w.rec = walk[t].rec /\ w.pos >= 1 /\ ~ w.busy
      <3>1. walk[t].pos \in Nat /\ walk[t].pos + 1 \in Nat /\ walk[t].pos + 1 >= 1
        BY <1>5 DEF Walk
      <3>2. w.rec = walk[t].rec /\ w.pos = walk[t].pos + 1 /\ w.busy = FALSE
        BY <1>5, <2>1, Zenon DEF Walk
      <3>3. w \in Walk
        BY <1>5, <2>1, <3>1 DEF Walk
      <3> QED
        BY <3>1, <3>2, <3>3, Zenon
    <2>3. WalkFits(w, t)
      BY <1>5, <2>1, <2>2, Zenon DEF WalkFits
    <2>4. WalkInv'
      BY <1>1, <1>3, <1>5, <2>1, <2>2, <2>3, WalkSet
    <2> QED
      BY <1>3, <2>4, RegistryStays, Zenon
  <1> QED
    BY <1>6, <1>7, Zenon

\* The end of the list ends the walk and gives the lock back.
LEMMA WalkDoneKeeps ==
  ASSUME CbrInv, NEW t \in Tasks, WalkDone(t)
  PROVE  CbrInv'
  <1>1. /\ WalkInv /\ walk[t] # NoWalk /\ walk' = [walk EXCEPT ![t] = NoWalk]
        /\ ml_cbr_lock' = NoTask /\ UNCHANGED <<cbr_record_pool, arenas, used, regs>>
    BY Zenon DEF CbrInv, WalkDone
  <1>2. ml_cbr_lock = t
    BY <1>1, InWalk, Zenon
  <1>3. WalkFits(NoWalk, t)
    BY Zenon DEF WalkFits
  <1>4. WalkInv'
    BY <1>1, <1>2, <1>3, NoWalkType, WalkSet
  <1> QED
    BY <1>1, <1>4, RegistryStays, Zenon

-----------------------------------------------------------------------------
(* The start and what the invariant says                                   *)

\* _ml_cbr_init: every record is free, so every list is empty.
LEMMA CbrStarts ==
  ASSUME CbrInit
  PROVE  CbrInv
  <1> DEFINE p == FreeRecords
  <1>1. /\ cbr_record_pool = p /\ ml_cbr_lock = NoTask /\ arenas = 1 /\ used = 0
        /\ walk = [t \in Tasks |-> NoWalk] /\ regs = [r \in Events \X Callbacks |-> 0]
    BY Zenon DEF CbrInit
  <1>2. RECORD_POOL_SIZE \in Nat /\ NODE_POOL_SIZE \in Nat /\ MaxNodeArenas \in Nat \ {0}
    BY CbrAssumption, Zenon
  <1>3. [name |-> NoEvent, first |-> <<>>] \in Record
    BY DEF Record
  <1>4. /\ p \in Seq(Record) /\ Len(p) = RECORD_POOL_SIZE /\ DOMAIN p = 1..RECORD_POOL_SIZE
        /\ \A i \in DOMAIN p : p[i].name = NoEvent
    BY <1>2, <1>3 DEF FreeRecords
  <1> HIDE DEF p
  <1>5. Distinct(p)
    BY <1>4, Zenon DEF Distinct
  <1>6. PoolInv
    BY <1>1, <1>2, <1>4, <1>5 DEF PoolInv
  <1>7. UsedInv
    BY <1>1, <1>2 DEF UsedInv
  <1>8. RegsInv
    BY <1>1 DEF RegsInv
  <1>9. WalkInv
    <2>1. walk \in [Tasks -> Walk] /\ \A t \in Tasks : walk[t] = NoWalk
      BY <1>1, NoWalkType, Zenon
    <2> QED
      BY <1>1, <2>1, Zenon DEF WalkInv, Walk
  <1>10. PICK N : N = Lists(p)
    OBVIOUS
  <1>11. \A e \in Events : N[e] = <<>>
    <2>1. ASSUME NEW e \in Events PROVE N[e] = <<>>
      <3>1. HasList(p, e) /\ e # NoEvent
        BY <1>4, <1>5, ListIs, CbrAssumption, Zenon
      <3> QED
        BY <1>4, <1>10, <3>1, Zenon DEF HasList
    <2> QED
      BY <2>1, Zenon
  <1>12. <<>> \in Seq(Node) /\ DOMAIN <<>> = {}
    OBVIOUS
  <1>13. Places(N) = {}
    BY <1>11, <1>12, PlaceIs, Zenon
  <1>14. \A e \in Events, c \in Callbacks : At(N[e], c) = {} /\ regs[<<e, c>>] = 0
    BY <1>1, <1>11, <1>12, Zenon DEF At
  <1>15. IsFiniteSet({}) /\ Cardinality({}) = 0
    BY FS_EmptySet, Zenon
  <1>16. Cardinality(Places(N)) <= used /\ \A e \in Events, c \in Callbacks :
            Cardinality(At(N[e], c)) <= regs[<<e, c>>]
    <2>1. 0 <= 0
      OBVIOUS
    <2> QED
      BY <1>1, <1>13, <1>14, <1>15, <2>1, Zenon
  <1>17. \A e \in Events : N[e] \in Seq(Node) /\ Sorted(N[e])
    BY <1>11, <1>12, Zenon DEF Sorted
  <1>18. Counted(N, regs, used, Len(p))
    BY <1>1, <1>13, <1>14, <1>15, <1>16, <1>17, Zenon DEF Counted
  <1>19. CountInv
    BY <1>1, <1>10, <1>18, Zenon DEF CountInv
  <1> QED
    BY <1>6, <1>7, <1>8, <1>9, <1>19, Zenon DEF CbrInv

\* The registry's variables have their types.
LEMMA CbrTyped ==
  ASSUME CbrInv
  PROVE  CbrTypeOK
  <1>1. cbr_record_pool \in Seq(Record) /\ Len(cbr_record_pool) \in Nat
    BY DEF CbrInv, PoolInv
  <1>2. \A i \in DOMAIN cbr_record_pool :
          /\ cbr_record_pool[i].name \in Events \cup {NoEvent}
          /\ cbr_record_pool[i].first \in Seq([cbr : Callbacks, prio : Prios])
    <2>1. \A i \in DOMAIN cbr_record_pool : cbr_record_pool[i] \in Record
      BY <1>1
    <2> QED
      BY <2>1, Zenon DEF Record, Node
  <1>3. walk \in [Tasks -> [rec : 0..Len(cbr_record_pool), pos : Nat, busy : BOOLEAN]]
    <2>1. walk \in [Tasks -> Walk]
      BY Zenon DEF CbrInv, WalkInv, Walk
    <2>2. ASSUME NEW t \in Tasks
          PROVE  walk[t] \in [rec : 0..Len(cbr_record_pool), pos : Nat, busy : BOOLEAN]
      <3>1. CASE walk[t] = NoWalk
        BY <1>1, <3>1 DEF NoWalk
      <3>2. CASE walk[t] # NoWalk
        <4>1. walk[t].rec \in DOMAIN cbr_record_pool /\ walk[t] \in Walk
          BY <3>2, InWalk, Zenon DEF CbrInv
        <4>2. walk[t].rec \in 0..Len(cbr_record_pool)
          BY <1>1, <4>1
        <4> QED
          BY <4>1, <4>2, Zenon DEF Walk
      <3> QED
        BY <3>1, <3>2, Zenon
    <2> QED
      BY <2>1, <2>2, Zenon
  <1>4. /\ ml_cbr_lock \in Tasks \cup {NoTask} /\ arenas \in 1..MaxNodeArenas
        /\ used \in 0..(arenas * NODE_POOL_SIZE) /\ regs \in [Events \X Callbacks -> Nat]
    BY Zenon DEF CbrInv, WalkInv, UsedInv, RegsInv
  <1> QED
    BY <1>2, <1>3, <1>4, Zenon DEF CbrTypeOK

\* The lists match the registrations as long as every event finds its record.
LEMMA CbrListed ==
  ASSUME CbrInv
  PROVE  RegistrationsKept
  <1>1. PICK N : N = Lists(cbr_record_pool)
    OBVIOUS
  <1>2. \A e \in Events : NodesOf(e) = N[e]
    BY <1>1, Zenon DEF NodesOf, find_record, Lists, ListOf, RecordOf
  <1>3. Counted(N, regs, used, Len(cbr_record_pool))
    BY <1>1, Zenon DEF CbrInv, CountInv
  <1>4. Linked = Places(N)
    BY <1>2, Zenon DEF Linked, Places
  <1>5. \A e \in Events, c \in Callbacks : Occurrences(e, c) = Cardinality(At(N[e], c))
    BY <1>2, Zenon DEF Occurrences, At
  <1>6. ASSUME Len(cbr_record_pool) = RECORD_POOL_SIZE
        PROVE  /\ used = Cardinality(Linked)
               /\ \A e \in Events, c \in Callbacks : Occurrences(e, c) = regs[<<e, c>>]
    BY <1>3, <1>4, <1>5, <1>6, Zenon DEF Counted
  <1>7. \A e \in Events : \A i, j \in DOMAIN NodesOf(e) :
          i < j => NodesOf(e)[i].prio >= NodesOf(e)[j].prio
    BY <1>2, <1>3, Zenon DEF Counted, Sorted
  <1> QED
    BY <1>6, <1>7, Zenon DEF RegistrationsKept

\* A running callback is on the list of its event and so is registered.
LEMMA CbrRunning ==
  ASSUME CbrInv
  PROVE  RunningIsRegistered
  <1>1. cbr_record_pool \in Seq(Record) /\ Distinct(cbr_record_pool)
    BY Zenon DEF CbrInv, PoolInv
  <1>2. PICK N : N = Lists(cbr_record_pool)
    OBVIOUS
  <1>3. Counted(N, regs, used, Len(cbr_record_pool))
    BY <1>2, Zenon DEF CbrInv, CountInv
  <1>4. ASSUME NEW t \in Tasks, walk[t].busy
        PROVE  /\ walk[t].pos <= Len(Walked(t))
               /\ cbr_record_pool[walk[t].rec].name # NoEvent =>
                     regs[<<cbr_record_pool[walk[t].rec].name,
                            Walked(t)[walk[t].pos].cbr>>] > 0
    <2>1. walk[t] # NoWalk
      BY <1>4 DEF NoWalk
    <2>2. /\ walk[t].rec \in DOMAIN cbr_record_pool /\ walk[t].pos \in DOMAIN Walked(t)
      BY <1>4, <2>1, InWalk, Zenon DEF CbrInv
    <2>3. cbr_record_pool[walk[t].rec] \in Record
      BY <1>1, <2>2
    <2>4. PICK s : s = Walked(t)
      OBVIOUS
    <2>5. PICK k : k = walk[t].pos
      OBVIOUS
    <2>6. PICK e : e = cbr_record_pool[walk[t].rec].name
      OBVIOUS
    <2>7. s \in Seq(Node) /\ e \in Events \cup {NoEvent} /\ k \in DOMAIN s
      BY <2>2, <2>3, <2>4, <2>5, <2>6, Zenon DEF Record, Walked
    <2>8. /\ k \in 1..Len(s) /\ DOMAIN s = 1..Len(s) /\ Len(s) \in Nat /\ s[k].cbr \in Callbacks
          /\ k <= Len(s)
      <3>1. DOMAIN s = 1..Len(s) /\ Len(s) \in Nat /\ s[k] \in Node
        BY <2>7
      <3>2. k \in 1..Len(s) /\ k <= Len(s)
        BY <2>7, <3>1
      <3> QED
        BY <3>1, <3>2, Zenon DEF Node
    <2>9. ASSUME e # NoEvent PROVE regs[<<e, s[k].cbr>>] > 0
      <3>1. e \in Events
        BY <2>7, <2>9, Zenon
      <3>2. N[e] = s
        <4>1. HasList(cbr_record_pool, e)
          BY <1>1, <3>1, ListIs, Zenon
        <4> QED
          BY <1>2, <2>2, <2>4, <2>6, <4>1, Zenon DEF HasList, Walked
      <3>3. k \in At(s, s[k].cbr)
        BY <2>7, Zenon DEF At
      <3>4. /\ Cardinality(At(s, s[k].cbr)) \in Nat
            /\ Cardinality(At(s, s[k].cbr)) # 0
        BY <2>8, <3>3, AtFinite, Zenon
      <3>5. Cardinality(At(s, s[k].cbr)) <= regs[<<e, s[k].cbr>>]
        BY <1>3, <2>8, <3>1, <3>2, Zenon DEF Counted
      <3>6. regs[<<e, s[k].cbr>>] \in Nat
        BY <2>8, <3>1 DEF CbrInv, RegsInv
      <3> QED
        BY <3>4, <3>5, <3>6
    <2> QED
      BY <2>4, <2>5, <2>6, <2>8, <2>9, Zenon
  <1> QED
    BY <1>4, Zenon DEF RunningIsRegistered

-----------------------------------------------------------------------------
(* The notification box                                                    *)

\* A poster has changed the message and not yet asked for a redraw.
Unmarked == \E t \in Tasks : nb[t] \in {"arm", "mark"}

\* Posters exclude each other, and a box that is up has a message.
PostInv ==
    /\ \A t \in Tasks : nb[t] \notin {"out", "enter"} => notify_box_main_sem = t
    /\ \A t \in Tasks : nb[t] # "out" => arg[t] \in Calls
    /\ \A t \in Tasks : nb[t] \in {"extend", "arm", "mark", "give"} => notify_box_msg \in Msgs
    /\ notify_box_timeout # 0 => notify_box_msg \in Msgs

\* The screen will be wiped: the GUI task has been asked, or the camera shuts down.
WipePending == redraws # 0 \/ ml_shutdown_requested

\* Where the drawing task is, there is time left, or no text that stays.
DrawInv ==
    /\ npc \in {"reset", "clean", "print", "sleep", "store"} => notify_box_timeout > 0
    /\ npc = "store" => left > 0
    /\ npc \in {"wait", "reset", "clean"} => screen = {} \/ WipePending

\* The screen shows nothing but the message, unless a redraw is asked for or about
\* to be.  At the head of the loop an older text may be left when the time is up,
\* which nobody may then prolong: the loop ends.
ShowInv ==
    \/ notify_box_dirty
    \/ Unmarked
    \/ WipePending
    \/ /\ npc \in {"print", "sleep", "store"} => screen \subseteq {notify_box_msg}
       /\ npc = "loop" => \/ screen \subseteq {notify_box_msg}
                          \/ notify_box_timeout = 0 /\ \A t \in Tasks : nb[t] # "extend"

BoxInv == BoxTypeOK /\ PostInv /\ DrawInv /\ ShowInv

\* The box before the first message.
LEMMA BoxStarts ==
  ASSUME BoxInit
  PROVE  BoxInv
  <1>1. BoxTypeOK
    <2>1. 0 \in 0..MaxPosts /\ 0 \in Nat
      BY BoxAssumption
    <2>2. /\ nb \in [Tasks -> {"out", "enter", "compare", "extend", "arm", "mark", "give"}]
          /\ arg \in [Tasks -> Calls \cup {NoCall}] /\ screen \subseteq Msgs
      BY Zenon DEF BoxInit
    <2> QED
      BY <2>1, <2>2, Zenon DEF BoxInit, BoxTypeOK
  <1>2. PostInv
    BY Zenon DEF BoxInit, PostInv
  <1>3. DrawInv
    BY DEF BoxInit, DrawInv
  <1>4. ShowInv
    BY DEF BoxInit, ShowInv
  <1> QED
    BY <1>1, <1>2, <1>3, <1>4, Zenon DEF BoxInv

\* The drawing task takes up a message.
LEMMA WakeKeeps ==
  ASSUME BoxInv, Wake
  PROVE  BoxInv'
  <1> USE DEF Wake, TaskLoop, shared, posting, drawing
  <1>1. BoxTypeOK'
    BY DEF BoxInv, BoxTypeOK, PostInv, DrawInv
  <1>2. PostInv'
    BY DEF BoxInv, BoxTypeOK, PostInv, DrawInv
  <1>3. DrawInv'
    BY DEF BoxInv, BoxTypeOK, DrawInv, WipePending
  <1>4. ShowInv'
    BY DEF BoxInv, BoxTypeOK, DrawInv, ShowInv, Unmarked, WipePending
  <1> QED
    BY <1>1, <1>2, <1>3, <1>4, Zenon DEF BoxInv

\* It clears the requests of the last message, with nothing drawn.
LEMMA ResetKeeps ==
  ASSUME BoxInv, Reset
  PROVE  BoxInv'
  <1> USE DEF Reset, shared, posting, drawing
  <1>1. BoxTypeOK'
    BY DEF BoxInv, BoxTypeOK, PostInv, DrawInv
  <1>2. PostInv'
    BY DEF BoxInv, BoxTypeOK, PostInv, DrawInv
  <1>3. DrawInv'
    BY DEF BoxInv, BoxTypeOK, DrawInv, WipePending
  <1>4. ShowInv'
    BY DEF BoxInv, BoxTypeOK, DrawInv, ShowInv, Unmarked, WipePending
  <1> QED
    BY <1>1, <1>2, <1>3, <1>4, Zenon DEF BoxInv

\* It looks at the time and at the request to redraw.
LEMMA LoopKeeps ==
  ASSUME BoxInv, Loop
  PROVE  BoxInv'
  <1> USE DEF Loop, redraw, shared, posting, drawing
  <1>1. BoxTypeOK'
    BY DEF BoxInv, BoxTypeOK, PostInv, DrawInv
  <1>2. PostInv'
    BY DEF BoxInv, BoxTypeOK, PostInv, DrawInv
  <1>3. DrawInv'
    BY DEF BoxInv, BoxTypeOK, DrawInv, WipePending
  <1>4. ShowInv'
    BY DEF BoxInv, BoxTypeOK, DrawInv, ShowInv, Unmarked, WipePending
  <1> QED
    BY <1>1, <1>2, <1>3, <1>4, Zenon DEF BoxInv

\* The request is cleared once the screen is wiped.
LEMMA CleanKeeps ==
  ASSUME BoxInv, Clean
  PROVE  BoxInv'
  <1> USE DEF Clean, shared, posting, drawing
  <1>1. BoxTypeOK'
    BY DEF BoxInv, BoxTypeOK, PostInv, DrawInv
  <1>2. PostInv'
    BY DEF BoxInv, BoxTypeOK, PostInv, DrawInv
  <1>3. DrawInv'
    BY DEF BoxInv, BoxTypeOK, DrawInv, WipePending
  <1>4. ShowInv'
    BY DEF BoxInv, BoxTypeOK, DrawInv, ShowInv, Unmarked, WipePending
  <1> QED
    BY <1>1, <1>2, <1>3, <1>4, Zenon DEF BoxInv

\* It draws the message.
LEMMA DrawKeeps ==
  ASSUME BoxInv, Draw
  PROVE  BoxInv'
  <1> USE DEF Draw, shared, posting, drawing
  <1>1. BoxTypeOK'
    BY DEF BoxInv, BoxTypeOK, PostInv, DrawInv
  <1>2. PostInv'
    BY DEF BoxInv, BoxTypeOK, PostInv, DrawInv
  <1>3. DrawInv'
    BY DEF BoxInv, BoxTypeOK, DrawInv, WipePending
  <1>4. ShowInv'
    BY DEF BoxInv, BoxTypeOK, DrawInv, ShowInv, Unmarked, WipePending
  <1> QED
    BY <1>1, <1>2, <1>3, <1>4, Zenon DEF BoxInv

\* It reads the time that is left.
LEMMA SleepKeeps ==
  ASSUME BoxInv, Sleep
  PROVE  BoxInv'
  <1> USE DEF Sleep, shared, posting, drawing
  <1>1. BoxTypeOK'
    BY DEF BoxInv, BoxTypeOK, PostInv, DrawInv
  <1>2. PostInv'
    BY DEF BoxInv, BoxTypeOK, PostInv, DrawInv
  <1>3. DrawInv'
    BY DEF BoxInv, BoxTypeOK, DrawInv, WipePending
  <1>4. ShowInv'
    BY DEF BoxInv, BoxTypeOK, DrawInv, ShowInv, Unmarked, WipePending
  <1> QED
    BY <1>1, <1>2, <1>3, <1>4, Zenon DEF BoxInv

\* It writes the time back, perhaps over a poster's; the loop may have to end.
LEMMA StoreKeeps ==
  ASSUME BoxInv, Store
  PROVE  BoxInv'
  <1> USE DEF Store, shared, posting, drawing
  <1>1. BoxTypeOK'
    BY DEF BoxInv, BoxTypeOK, PostInv, DrawInv
  <1>2. PostInv'
    BY DEF BoxInv, BoxTypeOK, PostInv, DrawInv
  <1>3. DrawInv'
    BY DEF BoxInv, BoxTypeOK, DrawInv, WipePending
  <1>4. ShowInv'
    BY DEF BoxInv, BoxTypeOK, DrawInv, ShowInv, Unmarked, WipePending
  <1> QED
    BY <1>1, <1>2, <1>3, <1>4, Zenon DEF BoxInv

\* The loop has ended.
LEMMA EndKeeps ==
  ASSUME BoxInv, End
  PROVE  BoxInv'
  <1> USE DEF End, shared, posting, drawing
  <1>1. BoxTypeOK'
    BY DEF BoxInv, BoxTypeOK, PostInv, DrawInv
  <1>2. PostInv'
    BY DEF BoxInv, BoxTypeOK, PostInv, DrawInv
  <1>3. DrawInv'
    BY DEF BoxInv, BoxTypeOK, DrawInv, WipePending
  <1>4. ShowInv'
    BY DEF BoxInv, BoxTypeOK, DrawInv, ShowInv, Unmarked, WipePending
  <1> QED
    BY <1>1, <1>2, <1>3, <1>4, Zenon DEF BoxInv

\* The box is wiped from the screen.
LEMMA EraseKeeps ==
  ASSUME BoxInv, Erase
  PROVE  BoxInv'
  <1> USE DEF Erase, redraw, TaskLoop, shared, posting, drawing
  <1>1. BoxTypeOK'
    BY DEF BoxInv, BoxTypeOK, PostInv, DrawInv
  <1>2. PostInv'
    BY DEF BoxInv, BoxTypeOK, PostInv, DrawInv
  <1>3. DrawInv'
    BY DEF BoxInv, BoxTypeOK, DrawInv, WipePending
  <1>4. ShowInv'
    BY DEF BoxInv, BoxTypeOK, DrawInv, ShowInv, Unmarked, WipePending
  <1> QED
    BY <1>1, <1>2, <1>3, <1>4, Zenon DEF BoxInv

\* The GUI task wipes the screen.
LEMMA RedrawKeeps ==
  ASSUME BoxInv, Redraw
  PROVE  BoxInv'
  <1> USE DEF Redraw, shared, posting, drawing
  <1>1. BoxTypeOK'
    BY DEF BoxInv, BoxTypeOK
  <1>2. PostInv'
    BY DEF BoxInv, BoxTypeOK, PostInv
  <1>3. DrawInv'
    BY DEF BoxInv, BoxTypeOK, DrawInv, WipePending
  <1>4. ShowInv'
    BY DEF BoxInv, BoxTypeOK, DrawInv, ShowInv, Unmarked, WipePending
  <1> QED
    BY <1>1, <1>2, <1>3, <1>4, Zenon DEF BoxInv

\* A shutdown begins.
LEMMA ShutdownKeeps ==
  ASSUME BoxInv, Shutdown
  PROVE  BoxInv'
  <1> USE DEF Shutdown, shared, posting, drawing
  <1>1. BoxTypeOK'
    BY DEF BoxInv, BoxTypeOK
  <1>2. PostInv'
    BY DEF BoxInv, BoxTypeOK, PostInv
  <1>3. DrawInv'
    BY DEF BoxInv, BoxTypeOK, DrawInv, WipePending
  <1>4. ShowInv'
    BY DEF BoxInv, BoxTypeOK, DrawInv, ShowInv, Unmarked, WipePending
  <1> QED
    BY <1>1, <1>2, <1>3, <1>4, Zenon DEF BoxInv

\* The drawing task ends after a shutdown.
LEMMA LeaveKeeps ==
  ASSUME BoxInv, Leave
  PROVE  BoxInv'
  <1> USE DEF Leave, shared, posting, drawing
  <1>1. BoxTypeOK'
    BY DEF BoxInv, BoxTypeOK
  <1>2. PostInv'
    BY DEF BoxInv, BoxTypeOK, PostInv
  <1>3. DrawInv'
    BY DEF BoxInv, BoxTypeOK, DrawInv, WipePending
  <1>4. ShowInv'
    BY DEF BoxInv, BoxTypeOK, DrawInv, ShowInv, Unmarked, WipePending
  <1> QED
    BY <1>1, <1>2, <1>3, <1>4, Zenon DEF BoxInv

\* NotifyBoxHide only asks the loop to end.
LEMMA NotifyBoxHideKeeps ==
  ASSUME BoxInv, NotifyBoxHide
  PROVE  BoxInv'
  <1> USE DEF NotifyBoxHide, shared, posting, drawing
  <1>1. BoxTypeOK'
    BY DEF BoxInv, BoxTypeOK, PostInv, DrawInv
  <1>2. PostInv'
    BY DEF BoxInv, BoxTypeOK, PostInv, DrawInv
  <1>3. DrawInv'
    BY DEF BoxInv, BoxTypeOK, DrawInv, WipePending
  <1>4. ShowInv'
    BY DEF BoxInv, BoxTypeOK, DrawInv, ShowInv, Unmarked, WipePending
  <1> QED
    BY <1>1, <1>2, <1>3, <1>4, Zenon DEF BoxInv

\* What a post asks for.
LEMMA CallIs ==
  ASSUME NEW a \in Calls
  PROVE  a.ticks \in Nat /\ a.ticks > 0 /\ a.msg \in Msgs
  <1>1. a.ticks \in Timeouts /\ a.msg \in Msgs
    BY Zenon DEF Calls
  <1>2. a.ticks \in Nat \ {0, 1}
    BY <1>1, BoxAssumption, Zenon
  <1> QED
    BY <1>1, <1>2

\* Only the poster that holds notify_box_main_sem is past "enter".
LEMMA OnePoster ==
  ASSUME PostInv, NEW t \in Tasks, nb[t] \notin {"out", "enter"}
  PROVE  /\ notify_box_main_sem = t /\ arg[t] \in Calls
         /\ \A u \in Tasks : u # t => nb[u] \in {"out", "enter"}
  BY Zenon DEF PostInv

\* A task calls NotifyBox and waits.
LEMMA PostKeeps ==
  ASSUME BoxInv, NEW t \in Tasks, NEW a \in Calls, Post(t, a)
  PROVE  BoxInv'
  <1> USE DEF Post, shared, drawing
  <1>3. BoxTypeOK'
    BY BoxAssumption DEF BoxInv, BoxTypeOK
  <1>4. PostInv'
    BY DEF BoxInv, BoxTypeOK, PostInv
  <1>5. DrawInv'
    BY DEF BoxInv, BoxTypeOK, DrawInv, WipePending
  <1>6. ShowInv'
    BY DEF BoxInv, BoxTypeOK, DrawInv, ShowInv, Unmarked, WipePending
  <1> QED
    BY <1>3, <1>4, <1>5, <1>6, Zenon DEF BoxInv

\* It gets notify_box_main_sem.
LEMMA EnterKeeps ==
  ASSUME BoxInv, NEW t \in Tasks, Enter(t)
  PROVE  BoxInv'
  <1> USE DEF Enter, shared, drawing
  <1>3. BoxTypeOK'
    BY DEF BoxInv, BoxTypeOK
  <1>4. PostInv'
    BY TasksAssumption DEF BoxInv, BoxTypeOK, PostInv
  <1>5. DrawInv'
    BY DEF BoxInv, BoxTypeOK, DrawInv, WipePending
  <1>6. ShowInv'
    BY DEF BoxInv, BoxTypeOK, DrawInv, ShowInv, Unmarked, WipePending
  <1> QED
    BY <1>3, <1>4, <1>5, <1>6, Zenon DEF BoxInv

\* A new message is copied before a redraw is asked for.
LEMMA CompareKeeps ==
  ASSUME BoxInv, NEW t \in Tasks, Compare(t)
  PROVE  BoxInv'
  <1>1. /\ notify_box_main_sem = t /\ arg[t] \in Calls
        /\ \A u \in Tasks : u # t => nb[u] \in {"out", "enter"}
    BY OnePoster, Zenon DEF BoxInv, Compare
  <1>2. arg[t].ticks \in Nat /\ arg[t].ticks > 0 /\ arg[t].msg \in Msgs
    BY <1>1, CallIs, Zenon
  <1> USE DEF Compare, shared, drawing
  <1>3. BoxTypeOK'
    BY <1>1, <1>2 DEF BoxInv, BoxTypeOK
  <1>4. PostInv'
    BY <1>1, <1>2 DEF BoxInv, BoxTypeOK, PostInv
  <1>5. DrawInv'
    BY <1>1, <1>2 DEF BoxInv, BoxTypeOK, DrawInv, WipePending
  <1>6. ShowInv'
    BY <1>1, <1>2 DEF BoxInv, BoxTypeOK, DrawInv, ShowInv, Unmarked, WipePending
  <1> QED
    BY <1>3, <1>4, <1>5, <1>6, Zenon DEF BoxInv

\* The message on the screen gets more time.
LEMMA ExtendKeeps ==
  ASSUME BoxInv, NEW t \in Tasks, Extend(t)
  PROVE  BoxInv'
  <1>1. /\ notify_box_main_sem = t /\ arg[t] \in Calls
        /\ \A u \in Tasks : u # t => nb[u] \in {"out", "enter"}
    BY OnePoster, Zenon DEF BoxInv, Extend
  <1>2. arg[t].ticks \in Nat /\ arg[t].ticks > 0 /\ arg[t].msg \in Msgs
    BY <1>1, CallIs, Zenon
  <1> USE DEF Extend, shared, drawing
  <1>3. BoxTypeOK'
    BY <1>1, <1>2 DEF BoxInv, BoxTypeOK
  <1>4. PostInv'
    BY <1>1, <1>2 DEF BoxInv, BoxTypeOK, PostInv
  <1>5. DrawInv'
    BY <1>1, <1>2 DEF BoxInv, BoxTypeOK, DrawInv, WipePending
  <1>6. ShowInv'
    BY <1>1, <1>2 DEF BoxInv, BoxTypeOK, DrawInv, ShowInv, Unmarked, WipePending
  <1> QED
    BY <1>3, <1>4, <1>5, <1>6, Zenon DEF BoxInv

\* The time of a new message.
LEMMA ArmKeeps ==
  ASSUME BoxInv, NEW t \in Tasks, Arm(t)
  PROVE  BoxInv'
  <1>1. /\ notify_box_main_sem = t /\ arg[t] \in Calls
        /\ \A u \in Tasks : u # t => nb[u] \in {"out", "enter"}
    BY OnePoster, Zenon DEF BoxInv, Arm
  <1>2. arg[t].ticks \in Nat /\ arg[t].ticks > 0 /\ arg[t].msg \in Msgs
    BY <1>1, CallIs, Zenon
  <1> USE DEF Arm, shared, drawing
  <1>3. BoxTypeOK'
    BY <1>1, <1>2 DEF BoxInv, BoxTypeOK
  <1>4. PostInv'
    BY <1>1, <1>2 DEF BoxInv, BoxTypeOK, PostInv
  <1>5. DrawInv'
    BY <1>1, <1>2 DEF BoxInv, BoxTypeOK, DrawInv, WipePending
  <1>6. ShowInv'
    BY <1>1, <1>2 DEF BoxInv, BoxTypeOK, DrawInv, ShowInv, Unmarked, WipePending
  <1> QED
    BY <1>3, <1>4, <1>5, <1>6, Zenon DEF BoxInv

\* The redraw is asked for if the box is up.
LEMMA MarkKeeps ==
  ASSUME BoxInv, NEW t \in Tasks, Mark(t)
  PROVE  BoxInv'
  <1>1. /\ notify_box_main_sem = t /\ arg[t] \in Calls
        /\ \A u \in Tasks : u # t => nb[u] \in {"out", "enter"}
    BY OnePoster, Zenon DEF BoxInv, Mark
  <1>2. arg[t].ticks \in Nat /\ arg[t].ticks > 0 /\ arg[t].msg \in Msgs
    BY <1>1, CallIs, Zenon
  <1> USE DEF Mark, shared, drawing
  <1>3. BoxTypeOK'
    BY <1>1, <1>2 DEF BoxInv, BoxTypeOK
  <1>4. PostInv'
    BY <1>1, <1>2 DEF BoxInv, BoxTypeOK, PostInv
  <1>5. DrawInv'
    BY <1>1, <1>2 DEF BoxInv, BoxTypeOK, DrawInv, WipePending
  <1>6. ShowInv'
    <2>1. CASE notify_box_timeout # 0
      BY <2>1 DEF ShowInv
    <2>2. CASE notify_box_timeout = 0
      <3>1. npc \notin {"print", "sleep", "store"}
        BY <2>2 DEF BoxInv, DrawInv
      <3>2. \A u \in Tasks : nb'[u] # "extend"
        BY <1>1 DEF BoxInv, BoxTypeOK
      <3> QED
        BY <2>2, <3>1, <3>2, Zenon DEF ShowInv
    <2> QED
      BY <2>1, <2>2, Zenon
  <1> QED
    BY <1>3, <1>4, <1>5, <1>6, Zenon DEF BoxInv

\* The drawing task is woken.
LEMMA GivingKeeps ==
  ASSUME BoxInv, NEW t \in Tasks, Give(t)
  PROVE  BoxInv'
  <1>1. /\ notify_box_main_sem = t /\ arg[t] \in Calls
        /\ \A u \in Tasks : u # t => nb[u] \in {"out", "enter"}
    BY OnePoster, Zenon DEF BoxInv, Give
  <1>2. arg[t].ticks \in Nat /\ arg[t].ticks > 0 /\ arg[t].msg \in Msgs
    BY <1>1, CallIs, Zenon
  <1> USE DEF Give, shared, drawing
  <1>3. BoxTypeOK'
    BY <1>1, <1>2 DEF BoxInv, BoxTypeOK
  <1>4. PostInv'
    BY <1>1, <1>2 DEF BoxInv, BoxTypeOK, PostInv
  <1>5. DrawInv'
    BY <1>1, <1>2 DEF BoxInv, BoxTypeOK, DrawInv, WipePending
  <1>6. ShowInv'
    BY <1>1, <1>2 DEF BoxInv, BoxTypeOK, DrawInv, ShowInv, Unmarked, WipePending
  <1> QED
    BY <1>3, <1>4, <1>5, <1>6, Zenon DEF BoxInv

-----------------------------------------------------------------------------
(* The two together                                                        *)

Inv == CbrInv /\ BoxInv

\* A step that leaves the registry alone.
LEMMA CbrSame ==
  ASSUME CbrInv, UNCHANGED cbrVars
  PROVE  CbrInv'
  <1>1. UNCHANGED <<ml_cbr_lock, cbr_record_pool, arenas, used, walk, regs>>
    BY Zenon DEF cbrVars
  <1>2. WalkInv'
    BY <1>1, Zenon DEF CbrInv, WalkInv, Walked
  <1> QED
    BY <1>1, <1>2, RegistryStays, Zenon

\* A step that leaves the box alone.
LEMMA BoxSame ==
  ASSUME BoxInv, UNCHANGED boxVars
  PROVE  BoxInv'
  <1>1. UNCHANGED <<notify_box_show_sem, notify_box_timeout, notify_box_stop_request,
                    notify_box_dirty, notify_box_msg, screen, redraws, npc, left,
                    ml_shutdown_requested, notify_box_main_sem, nb, arg, posts>>
    BY Zenon DEF boxVars, shared, drawing, posting
  <1>2. BoxTypeOK'
    BY <1>1, Zenon DEF BoxInv, BoxTypeOK
  <1>3. PostInv' /\ DrawInv'
    BY <1>1, Zenon DEF BoxInv, PostInv, DrawInv, WipePending
  <1>4. ShowInv'
    BY <1>1, Zenon DEF BoxInv, ShowInv, Unmarked, WipePending
  <1> QED
    BY <1>2, <1>3, <1>4, Zenon DEF BoxInv

\* The module loader's steps.
LEMMA LoadKeeps ==
  ASSUME Inv, Load
  PROVE  Inv'
  <1>1. PICK n \in Entries : \/ ml_register_cbr(n.event, n.cbr, n.prio)
                             \/ ml_register_cbr_fails(n.event)
                             \/ ml_unregister_cbr(n.event, n.cbr)
    BY Zenon DEF Load
  <1>2. n.event \in Events /\ n.cbr \in Callbacks /\ n.prio \in Prios
    BY CbrNotifyAssumption, Zenon
  <1>3. CbrInv'
    BY <1>1, <1>2, RegisterKeeps, RegisterFailsKeeps, UnregisterKeeps, Zenon DEF Inv
  <1>4. BoxInv'
    BY BoxSame, Zenon DEF Inv, Load
  <1> QED
    BY <1>3, <1>4, Zenon DEF Inv

\* The steps of the drawing task and of the GUI task, NotifyBoxHide and a shutdown.
LEMMA BoxKeeps ==
  ASSUME Inv, Box \/ Gui \/ Hide \/ ShutDown
  PROVE  Inv'
  <1>1. CbrInv'
    BY CbrSame, Zenon DEF Inv, Box, Gui, Hide, ShutDown
  <1>2. BoxInv'
    <2>1. CASE Box
      BY <2>1, WakeKeeps, LeaveKeeps, ResetKeeps, LoopKeeps, CleanKeeps, DrawKeeps, SleepKeeps,
         StoreKeeps, EndKeeps, EraseKeeps, Zenon DEF Inv, Box, NotifyBox_task
    <2>2. CASE Gui \/ Hide \/ ShutDown
      BY <2>2, RedrawKeeps, NotifyBoxHideKeeps, ShutdownKeeps, Zenon DEF Inv, Gui, Hide, ShutDown
    <2> QED
      BY <2>1, <2>2, Zenon
  <1> QED
    BY <1>1, <1>2, Zenon DEF Inv

\* A task's steps in ml_notify_cbr and NotifyBox.
LEMMA TaskKeeps ==
  ASSUME Inv, NEW t \in Tasks, Notify(t) \/ PostAlone(t) \/ Continue(t)
  PROVE  Inv'
  <1>1. CASE Notify(t)
    BY <1>1, NotifyKeeps, BoxSame, Zenon DEF Inv, Notify
  <1>2. CASE PostAlone(t)
    BY <1>2, PostKeeps, CbrSame, Zenon DEF Inv, PostAlone
  <1>3. CASE Call(t)
    <2>1. CbrInv'
      BY <1>3, CallKeeps, Zenon DEF Inv, Call
    <2>2. BoxInv'
      BY <1>3, PostKeeps, BoxSame, Zenon DEF Inv, Call
    <2> QED
      BY <2>1, <2>2, Zenon DEF Inv
  <1>4. CASE Return(t)
    BY <1>4, ReturnKeeps, BoxSame, Zenon DEF Inv, Return
  <1>5. CASE Unlock(t)
    BY <1>5, WalkDoneKeeps, BoxSame, Zenon DEF Inv, Unlock
  <1>6. CASE InBox(t)
    <2>1. CbrInv'
      BY <1>6, CbrSame, Zenon DEF Inv, InBox
    <2>2. BoxInv'
      BY <1>6, EnterKeeps, CompareKeeps, ExtendKeeps, ArmKeeps, MarkKeeps, GivingKeeps, Zenon
      DEF Inv, InBox, Posting
    <2> QED
      BY <2>1, <2>2, Zenon DEF Inv
  <1> QED
    BY <1>1, <1>2, <1>3, <1>4, <1>5, <1>6, Zenon DEF Continue

\* The invariant is inductive, for any number of tasks, events, callbacks and posts.
LEMMA Invariance == Spec => []Inv
  <1>1. Init => Inv
    BY CbrStarts, BoxStarts, Zenon DEF Init, Inv
  <1>2. Inv /\ [Next]_vars => Inv'
    <2> SUFFICES ASSUME Inv, [Next]_vars PROVE Inv'
      OBVIOUS
    <2>1. CASE Next
      BY <2>1, LoadKeeps, BoxKeeps, TaskKeeps, CbrNotifyAssumption, Zenon DEF Next
    <2>2. CASE UNCHANGED vars
      BY <2>2, CbrSame, BoxSame, Zenon DEF Inv, vars
    <2> QED
      BY <2>1, <2>2, Zenon
  <1> QED
    BY <1>1, <1>2, PTL DEF Spec

\* TypeOK: the variables of the registry and of the box keep their types; no walk
\* leaves the pool of records and the nodes in use fit into the arenas.
THEOREM TypeCorrect == Spec => []TypeOK
  <1>1. Inv => TypeOK
    BY CbrTyped, Zenon DEF Inv, BoxInv, TypeOK
  <1> QED
    BY <1>1, Invariance, PTL

\* RegistrationsKept: as long as every event finds its record, callbacks are on
\* their lists as often as they are registered, in the order of their priorities,
\* and no node leaks, whatever is registered, refused, unregistered and notified.
THEOREM RegistrationsListed == Spec => []RegistrationsKept
  <1>1. Inv => RegistrationsKept
    BY CbrListed, Zenon DEF Inv
  <1> QED
    BY <1>1, Invariance, PTL

\* RunningIsRegistered: ml_cbr_lock keeps a callback registered while it runs, even
\* after the pool of records had to grow.
THEOREM RunningRegistered == Spec => []RunningIsRegistered
  <1>1. Inv => RunningIsRegistered
    BY CbrRunning, Zenon DEF Inv
  <1> QED
    BY <1>1, Invariance, PTL

\* BoxShowsMessage: no order of the poster's plain writes and the drawing task's, and
\* no delay of the GUI task, loses the request to wipe an older text.
THEOREM MessageShown == Spec => []BoxShowsMessage
  <1>1. Inv => BoxShowsMessage
    <2> SUFFICES ASSUME BoxInv, npc = "sleep", notify_box_main_sem = NoTask,
                        ~ notify_box_dirty, redraws = 0, ~ ml_shutdown_requested
                 PROVE  screen \subseteq {notify_box_msg}
      BY Zenon DEF Inv, BoxShowsMessage
    <2>1. ~ Unmarked
      BY TasksAssumption DEF BoxInv, PostInv, Unmarked
    <2>2. ~ WipePending
      BY Zenon DEF WipePending
    <2> QED
      BY <2>1, <2>2, Zenon DEF BoxInv, ShowInv
  <1> QED
    BY <1>1, Invariance, PTL
=============================================================================
