---------------------------- MODULE SuiteProofs -----------------------------
(***************************************************************************)
(* SRM buffers go back to Canon's code in order, once and under nobody;    *)
(* the shutter does not stay locked with nobody to unlock it; the suites   *)
(* of the shooting buffer are accounted for, and what autodetection finds  *)
(* can be had, for any tasks, any requests and any order of answers,       *)
(* timeouts and late callbacks.                                            *)
(***************************************************************************)
EXTENDS ExMemProofs, FiniteSetTheorems

-----------------------------------------------------------------------------
(* SRM buffers                                                             *)

\* The invariant of SRM memory is inductive.
LEMMA SrmInvStep == LockInv /\ Holder /\ SrmInv /\ [Next]_vars => SrmInv'
  <1>1. Cardinality({}) = 0
    BY FS_EmptySet, Zenon
  <1> QED
    BY <1>1, SrmStep, Zenon

\* What the invariants say in every state.
LEMMA SrmInvariant == Spec => [](LockInv /\ Holder /\ SrmInv)
  <1>1. Init => Holder
    BY Zenon DEF Init, ShootInit, Holder
  <1> QED
    BY <1>1, LockInit, LockStep, HolderStep, SrmInvInit, SrmInvStep, PTL DEF Spec

\* The shutter is locked while srm_alloc_internal takes buffers; between calls there
\* are buffers exactly if a task has one, and the shutter stays locked only with a
\* task whose free will unlock it or after the race that srm_alloc_internal detects,
\* for all tasks, numbers of buffers and pictures that begin at any time.
THEOREM ShutterUnlocked == Spec => []ShutterReleased
  <1>1. ASSUME LockInv, SrmInv PROVE ShutterReleased
    <2>1. call.pc = "srm_loop" => shutter_lock
      BY <1>1, Zenon DEF LockInv, Locked
    <2>2. mem_sem = NoTask => call.pc = "none"
      BY <1>1, NoCallPc, Zenon DEF LockInv, CallOK
    <2>3. (\E i \in 1..COUNT : srm_buffers[i].used) <=> \E t \in Tasks : srm_own[t] # {}
      <3>1. \A t \in Tasks : srm_own[t] \subseteq 1..COUNT
        BY <1>1, Zenon DEF SrmInv, SrmTypeOK
      <3> QED
        BY <1>1, <3>1, Zenon DEF SrmInv, PlaceInv
    <2>4. mem_sem = NoTask => (srm_allocated <=> \E t \in Tasks : srm_own[t] # {})
      BY <1>1, <2>2, <2>3, Zenon DEF SrmInv, AllocInv
    <2>5. mem_sem = NoTask /\ shutter_lock => raced \/ srm_allocated
      BY <1>1, <2>2, Zenon DEF LockInv, Locked
    <2> QED
      BY <2>1, <2>4, <2>5, Zenon DEF ShutterReleased
  <1> QED
    BY <1>1, SrmInvariant, PTL

\* exmem.c:405, "These buffers must be freed in the same order as allocated": for
\* any tasks and any number of buffers, they are; a buffer that a task uses is its
\* own and stays out of Canon's hands, but for the one kept as use-after-free; and
\* as long as srm_allocated is set there is a buffer whose free can reset it.
THEOREM SrmSafe == Spec => []SrmBuffersSafe
  <1>1. ASSUME SrmInv PROVE SrmBuffersSafe
    <2>1. ~ disorder
      BY <1>1, Zenon DEF SrmInv, OutInv
    <2>2. ASSUME NEW t \in Tasks, NEW b \in srm_own[t]
          PROVE  /\ \A u \in Tasks \ {t} : b \notin srm_own[u]
                 /\ \E i \in 1..COUNT :
                       /\ srm_buffers[i].buffer = b /\ srm_buffers[i].used
                       /\ srm_buffers[i].use_after_free \/ b \in DOMAIN srm_out
      <3>1. b \in 1..COUNT
        BY <1>1, Zenon DEF SrmInv, SrmTypeOK
      <3>2. srm_buffers[b].used /\ srm_buffers[b].buffer = b /\ Has(b)
        BY <1>1, <3>1, Zenon DEF SrmInv, PlaceInv, Has
      <3>3. Freed1st(b) \/ b \in DOMAIN srm_out
        BY <1>1, <3>1, <3>2, Zenon DEF SrmInv, OutInv
      <3>4. \A u \in Tasks \ {t} : b \notin srm_own[u]
        BY <1>1, <3>1, Zenon DEF SrmInv, PlaceInv
      <3> QED
        BY <3>1, <3>2, <3>3, <3>4, Zenon DEF Freed1st
    <2>3. srm_allocated => \E i \in 1..COUNT : srm_buffers[i].buffer # 0
      BY <1>1, Zenon DEF SrmInv, AllocInv, Last, Has
    <2> QED
      BY <2>1, <2>2, <2>3, Zenon DEF SrmBuffersSafe
  <1> QED
    BY <1>1, SrmInvariant, PTL

-----------------------------------------------------------------------------
(* Suites                                                                  *)

\* Where Places finds a suite.
LEMMA PlacesOf ==
  ASSUME NEW s
  PROVE  /\ \A g, x : Place(g, x, s) => <<g, x, s>> \in Places
         /\ \A k : Freeing(k, s) => <<"freeing", k, s>> \in Places
         /\ \A p \in Places : p[3] = s =>
                \/ \E g, x : Place(g, x, s) /\ p = <<g, x, s>>
                \/ \E k : Freeing(k, s) /\ p = <<"freeing", k, s>>
  <1> DEFINE A == UNION {{<<"own", t, m>> : m \in own[t]} : t \in Tasks}
             B == IF call = NoCall THEN {} ELSE {<<"backup", mem_sem, call.backup>>}
             C == IF call.pc \in {"free", "return"} THEN {<<"call", call.next, call.suite>>} ELSE {}
             D == {<<"info", i, suite_info[i].ret>> : i \in DOMAIN suite_info}
             E == IF granting = NoGrant THEN {}
                  ELSE {<<"callback", granting.info, granting.suite>>}
             F == {<<"freeing", k, queue[k].suite>> :
                       k \in {k \in DOMAIN queue : queue[k].kind = "free"}}
  <1>1. Places = A \cup B \cup C \cup D \cup E \cup F
    BY Zenon DEF Places
  <1>2. /\ \A x : OwnAt(x, s) => <<"own", x, s>> \in A
        /\ \A p \in A : p[3] = s => \E x : OwnAt(x, s) /\ p = <<"own", x, s>>
    BY DEF OwnAt
  <1>3. /\ \A x : BackupAt(x, s) => <<"backup", x, s>> \in B
        /\ \A p \in B : p[3] = s => \E x : BackupAt(x, s) /\ p = <<"backup", x, s>>
    BY DEF BackupAt
  <1>4. /\ \A x : CallAt(x, s) => <<"call", x, s>> \in C
        /\ \A p \in C : p[3] = s => \E x : CallAt(x, s) /\ p = <<"call", x, s>>
    BY DEF CallAt
  <1>5. /\ \A x : InfoAt(x, s) => <<"info", x, s>> \in D
        /\ \A p \in D : p[3] = s => \E x : InfoAt(x, s) /\ p = <<"info", x, s>>
    BY DEF InfoAt
  <1>6. /\ \A x : GrantAt(x, s) => <<"callback", x, s>> \in E
        /\ \A p \in E : p[3] = s => \E x : GrantAt(x, s) /\ p = <<"callback", x, s>>
    BY DEF GrantAt
  <1>7. /\ \A k : Freeing(k, s) => <<"freeing", k, s>> \in F
        /\ \A p \in F : p[3] = s => \E k : Freeing(k, s) /\ p = <<"freeing", k, s>>
    BY DEF Freeing
  <1> HIDE DEF A, B, C, D, E, F
  <1>8. ASSUME NEW g, NEW x, Place(g, x, s) PROVE <<g, x, s>> \in Places
    BY <1>1, <1>2, <1>3, <1>4, <1>5, <1>6, <1>8, Zenon DEF Place
  <1>9. ASSUME NEW k, Freeing(k, s) PROVE <<"freeing", k, s>> \in Places
    BY <1>1, <1>7, <1>9, Zenon
  <1>10. ASSUME NEW p \in Places, p[3] = s
         PROVE  \/ \E g, x : Place(g, x, s) /\ p = <<g, x, s>>
                \/ \E k : Freeing(k, s) /\ p = <<"freeing", k, s>>
    <2>1. CASE p \in A
      BY <1>2, <1>10, <2>1, Zenon DEF Place
    <2>2. CASE p \in B
      BY <1>3, <1>10, <2>2, Zenon DEF Place
    <2>3. CASE p \in C
      BY <1>4, <1>10, <2>3, Zenon DEF Place
    <2>4. CASE p \in D
      BY <1>5, <1>10, <2>4, Zenon DEF Place
    <2>5. CASE p \in E
      BY <1>6, <1>10, <2>5, Zenon DEF Place
    <2>6. CASE p \in F
      BY <1>7, <1>10, <2>6, Zenon
    <2> QED
      BY <1>1, <2>1, <2>2, <2>3, <2>4, <2>5, <2>6, Zenon
  <1> QED
    BY <1>8, <1>9, <1>10, Zenon

\* A suite that is accounted for is found once, or not at all.
LEMMA Counted ==
  ASSUME NEW s, Accounted(s)
  PROVE  Cardinality({p \in Places : p[3] = s}) = IF s \in DOMAIN suites THEN 1 ELSE 0
  <1> DEFINE S == {p \in Places : p[3] = s}
  <1>1. /\ \A g, x : Place(g, x, s) => <<g, x, s>> \in S
        /\ \A k : Freeing(k, s) => <<"freeing", k, s>> \in S
        /\ \A p \in S : \/ \E g, x : Place(g, x, s) /\ p = <<g, x, s>>
                        \/ \E k : Freeing(k, s) /\ p = <<"freeing", k, s>>
    BY PlacesOf
  <1> HIDE DEF S
  <1>2. CASE s \notin DOMAIN suites
    <2>1. S = {}
      BY <1>1, <1>2, Zenon DEF Accounted
    <2>2. Cardinality(S) = 0
      BY <2>1, FS_EmptySet, Zenon
    <2> QED
      BY <1>2, <2>2 DEF S
  <1>3. CASE s \in DOMAIN suites
    <2>1. \E q : S = {q}
      <3>1. ASSUME NEW g, NEW x, Place(g, x, s) PROVE S = {<<g, x, s>>}
        <4>1. \A p \in S : p = <<g, x, s>>
          BY <1>1, <3>1, Zenon DEF Accounted
        <4> QED
          BY <1>1, <3>1, <4>1
      <3>2. ASSUME NEW k, Freeing(k, s) PROVE S = {<<"freeing", k, s>>}
        <4>1. \A p \in S : p = <<"freeing", k, s>>
          BY <1>1, <3>2, Zenon DEF Accounted
        <4> QED
          BY <1>1, <3>2, <4>1, Zenon
      <3>3. (\E g, x : Place(g, x, s)) \/ (\E k : Freeing(k, s))
        BY <1>3, Zenon DEF Accounted
      <3> QED
        BY <3>1, <3>2, <3>3, Zenon
    <2>2. Cardinality(S) = 1
      BY <2>1, FS_Singleton, Zenon
    <2> QED
      BY <1>3, <2>2 DEF S
  <1> QED
    BY <1>2, <1>3, Zenon

\* exmem.c loses no suite, frees none twice and lets nobody keep a freed one, for
\* any tasks, sizes and numbers of suites and alloc_msg_t and whatever times out,
\* as long as no answer crosses the end of its wait.
THEOREM SuitesKept == Spec => []SuitesAccounted
  <1>1. ASSUME ShootInv PROVE SuitesAccounted
    <2>1. ~ crossed => \A s \in Suites : Accounted(s)
      BY <1>1, Zenon DEF ShootInv, PlacesInv
    <2> QED
      BY <2>1, Counted, Zenon DEF SuitesAccounted
  <1>2. Init => Holder
    BY Zenon DEF Init, ShootInit, Holder
  <1> QED
    BY <1>1, <1>2, LockInit, LockStep, HolderStep, ShootInvInit, ShootInvStep, PTL DEF Spec

-----------------------------------------------------------------------------
(* The memory of suites                                                    *)

\* The memory of the suites in S, MB by MB, if they have sizes f.
Mem(f, S) == UNION {{s} \X (1..f[s]) : s \in S}

\* Its size is known.
Measured(M, n) == IsFiniteSet(M) /\ Cardinality(M) = n /\ n \in Nat

\* The memory of one suite.
LEMMA MemOne ==
  ASSUME NEW s, NEW n \in Nat
  PROVE  Measured({s} \X (1..n), n)
  <1>1. IsFiniteSet({s}) /\ Cardinality({s}) = 1
    BY FS_Singleton, Zenon
  <1>2. IsFiniteSet(1..n) /\ Cardinality(1..n) = n
    <2>1. 1 \in Int /\ n \in Int
      OBVIOUS
    <2>2. IsFiniteSet(1..n) /\ Cardinality(1..n) = IF 1 > n THEN 0 ELSE n - 1 + 1
      BY <2>1, FS_Interval
    <2> QED
      BY <2>2
  <1>3. /\ IsFiniteSet({s} \X (1..n))
        /\ Cardinality({s} \X (1..n)) = Cardinality({s}) * Cardinality(1..n)
    BY <1>1, <1>2, FS_Product, Zenon
  <1>4. 1 * n = n
    OBVIOUS
  <1> QED
    BY <1>1, <1>2, <1>3, <1>4, Zenon DEF Measured

\* Suites whose sizes do not change keep their memory.
LEMMA MemSame ==
  ASSUME NEW f, NEW g, NEW S, \A s \in S : f[s] = g[s]
  PROVE  Mem(f, S) = Mem(g, S)
  BY DEF Mem

\* The memory of one more suite.
LEMMA MemAdd ==
  ASSUME NEW f, NEW S, NEW s, s \notin S, NEW n, Measured(Mem(f, S), n), f[s] \in Nat
  PROVE  Measured(Mem(f, S \cup {s}), n + f[s])
  <1> DEFINE A == Mem(f, S)
             B == {s} \X (1..f[s])
  <1>1. Mem(f, S \cup {s}) = A \cup B
    BY DEF Mem
  <1>2. A \cap B = {}
    BY DEF Mem
  <1>3. Measured(B, f[s])
    BY MemOne, Zenon
  <1> HIDE DEF A, B
  <1>4. IsFiniteSet(A) /\ Cardinality(A) = n /\ n \in Nat /\ IsFiniteSet(B) /\ Cardinality(B) = f[s]
    BY <1>3, Zenon DEF Measured, A
  <1>5. /\ IsFiniteSet(A \cup B)
        /\ Cardinality(A \cup B) = Cardinality(A) + Cardinality(B) - Cardinality(A \cap B)
    BY <1>4, FS_Union, Zenon
  <1>6. Cardinality(A \cap B) = 0
    BY <1>2, FS_EmptySet, Zenon
  <1>7. n + f[s] - 0 = n + f[s] /\ n + f[s] \in Nat
    BY <1>4
  <1> QED
    BY <1>1, <1>4, <1>5, <1>6, <1>7, Zenon DEF Measured

\* The memory of fewer suites.
LEMMA MemSub ==
  ASSUME NEW f, NEW S, NEW R \in SUBSET S, NEW n, Measured(Mem(f, S), n)
  PROVE  \E k \in Nat : Measured(Mem(f, R), k) /\ k <= n
  <1>1. Mem(f, R) \subseteq Mem(f, S)
    BY DEF Mem
  <1>2. IsFiniteSet(Mem(f, S)) /\ Cardinality(Mem(f, S)) = n
    BY Zenon DEF Measured
  <1>3. IsFiniteSet(Mem(f, R)) /\ Cardinality(Mem(f, R)) <= Cardinality(Mem(f, S))
    BY <1>1, <1>2, FS_Subset, Zenon
  <1>4. Cardinality(Mem(f, R)) \in Nat
    BY <1>3, FS_CardinalityType, Zenon
  <1> QED
    BY <1>2, <1>3, <1>4, Zenon DEF Measured

\* All that RscMgr has given out, and all that callers hold.
LEMMA CapIs ==
  /\ CapInv <=> IsFiniteSet(Mem(suites, DOMAIN suites))
                /\ Cardinality(Mem(suites, DOMAIN suites)) <= Total
  /\ Owned = Cardinality(Mem(suites, UNION {own[t] : t \in Tasks}))
  /\ Available = Total - Cardinality(Mem(suites, DOMAIN suites))
  BY Zenon DEF CapInv, Memory, Mem, Owned, Available

\* The same, measured.
LEMMA CapMeasured ==
  ASSUME CapInv
  PROVE  \E n \in Nat : Measured(Mem(suites, DOMAIN suites), n) /\ n <= Total
  <1>1. IsFiniteSet(Mem(suites, DOMAIN suites)) /\ Cardinality(Mem(suites, DOMAIN suites)) <= Total
    BY CapIs, Zenon
  <1>2. Cardinality(Mem(suites, DOMAIN suites)) \in Nat
    BY <1>1, FS_CardinalityType, Zenon
  <1> QED
    BY <1>1, <1>2, Zenon DEF Measured

\* Suites that callers hold, or the call, an answer or a callback, were given out.
LEMMA PlacedGiven ==
  ASSUME ShootInv, ~ crossed, NEW g, NEW x, NEW s \in Suites, Place(g, x, s)
  PROVE  /\ s \in DOMAIN suites /\ suites[s] \in Nat
         /\ \A h, y : Place(h, y, s) => h = g /\ y = x
         /\ \A k : ~ Freeing(k, s)
  <1>1. Accounted(s) /\ suites \in [DOMAIN suites -> Nat]
    BY Zenon DEF ShootInv, PlacesInv, ShootTypes
  <1>2. s \in DOMAIN suites
    BY <1>1, Zenon DEF Accounted
  <1>3. suites[s] \in Nat
    BY <1>1, <1>2, Zenon
  <1> QED
    BY <1>1, <1>2, <1>3, Zenon DEF Accounted

\* What callers hold.
Holdings == UNION {own[t] : t \in Tasks}

\* It was given out, once.
LEMMA HoldingsGiven ==
  ASSUME ShootInv, ~ crossed
  PROVE  /\ Holdings \subseteq DOMAIN suites /\ Holdings \subseteq Suites
         /\ \A g, x : \A s \in Holdings : Place(g, x, s) => g = "own"
  <1>1. own \in [Tasks -> SUBSET Suites]
    BY Zenon DEF ShootInv, ShootTypes
  <1>2. ASSUME NEW s \in Holdings PROVE s \in Suites /\ \E t : Place("own", t, s)
    <2>1. PICK t \in Tasks : s \in own[t]
      BY <1>2, Zenon DEF Holdings
    <2>2. s \in Suites
      BY <1>1, <2>1, Zenon
    <2> QED
      BY <2>1, <2>2, Zenon DEF Place, OwnAt
  <1>3. ASSUME NEW s \in Holdings PROVE s \in DOMAIN suites /\ \A g, x : Place(g, x, s) => g = "own"
    BY <1>2, PlacedGiven, Zenon
  <1> QED
    BY <1>2, <1>3, Zenon

\* What callers hold is a part of what there is.
LEMMA OwnedIs ==
  ASSUME ShootInv, ~ crossed, CapInv
  PROVE  Measured(Mem(suites, Holdings), Owned) /\ Owned \in Nat
  <1>1. Holdings \in SUBSET DOMAIN suites
    BY HoldingsGiven, Zenon
  <1>2. PICK n \in Nat : Measured(Mem(suites, DOMAIN suites), n)
    BY CapMeasured, Zenon
  <1>3. PICK k \in Nat : Measured(Mem(suites, Holdings), k)
    BY <1>1, <1>2, MemSub, Zenon
  <1>4. Owned = Cardinality(Mem(suites, Holdings))
    BY CapIs, Zenon DEF Holdings
  <1>5. Owned = k
    BY <1>3, <1>4, Zenon DEF Measured
  <1> QED
    BY <1>3, <1>5, Zenon

\* A test that works takes its memory besides the backup and all that callers hold.
LEMMA TestFits ==
  ASSUME ShootInv, ~ crossed, CapInv, SizesInv, AskedInv, call \in Calls, call.pc = "wait",
         call.next = "test", suite_info[call.info].ret # NoSuite
  PROVE  call.tested + BackupOf(call) + Owned <= Total
  <1>1. PICK m : m = suite_info[call.info].ret
    BY Zenon
  <1>2. PICK b : b = call.backup
    BY Zenon
  <1>3. call # NoCall /\ call.info \in DOMAIN suite_info
    <2>1. call # NoCall
      BY NoCallPc, Zenon
    <2> QED
      BY <2>1, Zenon DEF ShootInv, WaitInv
  <1>4. Sized(call) /\ Backed(call, suites) /\ Asked(call.info, call.size)
    BY Zenon DEF SizesInv, AskedInv
  <1>5. b # NoSuite /\ b \in Suites /\ suites[b] = BackupOf(call)
    <2>1. b \in NoneOr(Suites)
      BY <1>2, Sizes, Zenon
    <2> QED
      BY <1>2, <1>4, <2>1, Zenon DEF Sized, Backed, NoneOr
  <1>6. m # NoSuite /\ m \in Suites /\ suites[m] = call.tested
    <2>1. suite_info[call.info].ret \in NoneOr(Suites)
      <3>1. suite_info[call.info] \in [ret : NoneOr(Suites), timed_out : BOOLEAN]
        BY <1>3, Zenon DEF ShootInv, ShootTypes
      <3> QED
        BY <3>1
    <2>2. call.size = call.tested
      BY <1>4, Zenon DEF Sized, Asking
    <2> QED
      BY <1>1, <1>4, <2>1, <2>2, Zenon DEF Asked, NoneOr
  <1>7. Place("backup", mem_sem, b) /\ Place("info", call.info, m)
    BY <1>1, <1>2, <1>3, Zenon DEF Place, BackupAt, InfoAt
  <1>8. /\ b \in DOMAIN suites /\ suites[b] \in Nat /\ m \in DOMAIN suites /\ suites[m] \in Nat
        /\ m # b
    BY <1>5, <1>6, <1>7, PlacedGiven, Zenon
  <1>9. b \notin Holdings /\ m \notin Holdings \cup {b}
    BY <1>7, <1>8, HoldingsGiven, Zenon
  <1>10. Measured(Mem(suites, Holdings), Owned) /\ Owned \in Nat
    BY OwnedIs, Zenon
  <1>11. Measured(Mem(suites, Holdings \cup {b}), Owned + suites[b])
    BY <1>8, <1>9, <1>10, MemAdd, Zenon
  <1>12. Measured(Mem(suites, (Holdings \cup {b}) \cup {m}), (Owned + suites[b]) + suites[m])
    BY <1>8, <1>9, <1>11, MemAdd, Zenon
  <1>13. PICK n \in Nat : Measured(Mem(suites, DOMAIN suites), n) /\ n <= Total
    BY CapMeasured, Zenon
  <1>14. (Holdings \cup {b}) \cup {m} \in SUBSET DOMAIN suites
    BY <1>8, HoldingsGiven, Zenon
  <1>15. \E k \in Nat : /\ Measured(Mem(suites, (Holdings \cup {b}) \cup {m}), k) /\ k <= n
    BY <1>13, <1>14, MemSub, Zenon
  <1>16. (Owned + suites[b]) + suites[m] <= n
    BY <1>12, <1>15, Zenon DEF Measured
  <1>17. Total \in Nat
    BY ShootAssumption
  <1> QED
    BY <1>5, <1>6, <1>8, <1>10, <1>13, <1>16, <1>17

-----------------------------------------------------------------------------
(* What RscMgr and the callbacks do to sizes                               *)

\* No suite that is somewhere changes its size.
Settled == \A g, x : \A s \in Suites : Place(g, x, s) => suites'[s] = suites[s]

\* What callers hold stays as large.
LEMMA OwnedSame ==
  ASSUME ShootInv, ~ crossed, Settled, own' = own
  PROVE  Owned' = Owned
  <1>1. own \in [Tasks -> SUBSET Suites]
    BY Zenon DEF ShootInv, ShootTypes
  <1>2. ASSUME NEW s \in Holdings PROVE suites'[s] = suites[s]
    <2>1. PICK t \in Tasks : s \in own[t]
      BY <1>2, Zenon DEF Holdings
    <2>2. s \in Suites /\ Place("own", t, s)
      BY <1>1, <2>1, Zenon DEF Place, OwnAt
    <2> QED
      BY <2>2, Zenon DEF Settled
  <1>3. Mem(suites', Holdings) = Mem(suites, Holdings)
    BY <1>2, MemSame, Zenon
  <1>4. Owned = Cardinality(Mem(suites, Holdings))
    BY CapIs, Zenon DEF Holdings
  <1>5. Owned' = Cardinality(Mem(suites', Holdings))
    BY Zenon DEF Owned, Memory, Mem, Holdings
  <1> QED
    BY <1>3, <1>4, <1>5, Zenon

\* What a call knows of sizes stays true.
LEMMA SettledSizes ==
  ASSUME ShootInv, ~ crossed, SizesInv, Settled, own' = own, call' = call
  PROVE  SizesInv'
  <1> SUFFICES ASSUME call \in Calls PROVE SizesInv'
    BY Zenon DEF SizesInv
  <1>1. Sized(call) /\ Backed(call, suites) /\ Bounded(call, Owned)
    BY Zenon DEF SizesInv
  <1>2. Owned' = Owned
    BY OwnedSame, Zenon
  <1>3. Backed(call, suites')
    <2>1. CASE call.backup # NoSuite
      <3>1. call # NoCall /\ call.backup \in Suites
        <4>1. call.pc \in ShootPcs /\ call.backup \in NoneOr(Suites)
          BY Sizes, Zenon DEF Calls, ShootPcs
        <4>2. call # NoCall
          BY <4>1, NoCallPc DEF ShootPcs
        <4> QED
          BY <2>1, <4>1, <4>2, Zenon DEF NoneOr
      <3>2. Place("backup", mem_sem, call.backup)
        BY <3>1, Zenon DEF Place, BackupAt
      <3>3. suites'[call.backup] = suites[call.backup]
        BY <3>1, <3>2, Zenon DEF Settled
      <3> QED
        BY <1>1, <3>3, Zenon DEF Backed
    <2>2. CASE call.backup = NoSuite
      BY <2>2, Zenon DEF Backed
    <2> QED
      BY <2>1, <2>2, Zenon
  <1> QED
    BY <1>1, <1>2, <1>3, Zenon DEF SizesInv

\* RscMgr has a request at i for n.
WasAsked(i, n) ==
    (\E k : Queued(k, i) /\ queue[k].size = n) \/ (\E p : Waits(p, i) /\ p.size = n)

\* What the waiting call has asked for stays what it gets.
LEMMA SettledAsked ==
  ASSUME ShootInv, ~ crossed, AskedInv, Settled, call' = call,
         \A i, k : Queued(k, i)' => WasAsked(i, queue'[k].size),
         \A i, p : Waits(p, i)' => WasAsked(i, p.size),
         \A i : Granted(i)' => granting' = granting \/ WasAsked(i, suites'[granting'.suite]),
         call \in Calls /\ call.pc \in {"wait", "late"} =>
             suite_info'[call.info].ret = suite_info[call.info].ret
  PROVE  AskedInv'
  <1> SUFFICES ASSUME call \in Calls /\ call.pc \in {"wait", "late"}
               PROVE  Asked(call.info, call.size)'
    BY Zenon DEF AskedInv
  <1>1. Asked(call.info, call.size)
    BY Zenon DEF AskedInv
  <1>2. \A n : WasAsked(call.info, n) => n = call.size
    BY <1>1, Zenon DEF Asked, WasAsked
  <1>3. ASSUME Granted(call.info)' PROVE suites'[granting'.suite] = call.size
    <2>1. CASE granting' = granting
      <3>1. Granted(call.info)
        BY <1>3, <2>1, Zenon DEF Granted
      <3>2. granting # NoGrant
        BY <3>1, Zenon DEF Granted
      <3>3. granting.suite \in Suites /\ Place("callback", granting.info, granting.suite)
        <4>1. granting.suite \in Suites
          BY <3>2, Callback, Zenon
        <4> QED
          BY <3>2, <4>1, Zenon DEF Place, GrantAt
      <3>4. suites'[granting.suite] = suites[granting.suite]
        BY <3>3, Zenon DEF Settled
      <3> QED
        BY <1>1, <2>1, <3>1, <3>4, Zenon DEF Asked
    <2> QED
      BY <1>2, <1>3, <2>1, Zenon
  <1>4. ASSUME suite_info[call.info].ret # NoSuite
        PROVE  suites'[suite_info[call.info].ret] = call.size
    <2>1. call.info \in DOMAIN suite_info
      BY Zenon DEF ShootInv, WaitInv
    <2>2. suite_info[call.info].ret \in Suites
      <3>1. suite_info[call.info] \in [ret : NoneOr(Suites), timed_out : BOOLEAN]
        BY <2>1, Zenon DEF ShootInv, ShootTypes
      <3> QED
        BY <1>4, <3>1 DEF NoneOr
    <2>3. Place("info", call.info, suite_info[call.info].ret)
      BY <2>1, Zenon DEF Place, InfoAt
    <2>4. suites'[suite_info[call.info].ret] = suites[suite_info[call.info].ret]
      BY <2>2, <2>3, Zenon DEF Settled
    <2> QED
      BY <1>1, <1>4, <2>4, Zenon DEF Asked
  <1> QED
    BY <1>2, <1>3, <1>4, Zenon DEF Asked

\* RscMgr may have given out n MB after a step.
LEMMA CapNext ==
  ASSUME NEW n, Measured(Mem(suites', DOMAIN suites'), n), n <= Total
  PROVE  CapInv'
  BY Zenon DEF CapInv, Memory, Mem, Measured

\* A suite is given out only if there is memory for it, and is as large as was asked.
LEMMA GrantSizes ==
  ASSUME ShootInv, ~ crossed, CapInv, NEW r, Grant(r), r.size \in Nat
  PROVE  /\ CapInv' /\ Settled
         /\ \A i : Granted(i)' => i = r.info /\ suites'[granting'.suite] = r.size
         /\ UNCHANGED <<call, suite_info, own>>
  <1>1. ShootTypes /\ DOMAIN suites \subseteq Suites /\ suites \in [DOMAIN suites -> Nat]
    BY Zenon DEF ShootInv, ShootTypes
  <1>2. PICK m \in Suites \ DOMAIN suites :
           /\ suites' = Extended(suites, m, r.size)
           /\ granting' = [suite |-> m, info |-> r.info, late |-> suite_info[r.info].timed_out]
           /\ UNCHANGED <<mem_sem, call, alloc_sem, free_sem, suite_info, shoot_full_suite, own,
                          crossed>>
    BY <1>1, NewSuite, Zenon
  <1>3. /\ DOMAIN suites' = DOMAIN suites \cup {m} /\ suites'[m] = r.size
        /\ \A s \in DOMAIN suites : suites'[s] = suites[s]
    BY <1>2 DEF Extended
  <1>4. granting'.suite = m /\ granting'.info = r.info
    BY <1>2
  <1>5. Settled
    BY <1>3, PlacedGiven, Zenon DEF Settled
  <1>6. CapInv'
    <2>1. PICK n \in Nat : Measured(Mem(suites, DOMAIN suites), n) /\ n <= Total
      BY CapMeasured, Zenon
    <2>2. Mem(suites', DOMAIN suites) = Mem(suites, DOMAIN suites)
      BY <1>3, MemSame, Zenon
    <2>3. Measured(Mem(suites', DOMAIN suites), n)
      BY <2>1, <2>2, Zenon
    <2>4. m \notin DOMAIN suites /\ suites'[m] \in Nat
      BY <1>2, <1>3, Zenon
    <2>5. Measured(Mem(suites', DOMAIN suites'), n + suites'[m])
      BY <1>3, <2>3, <2>4, MemAdd, Zenon
    <2>6. n + suites'[m] <= Total
      <3>1. r.size <= Total - n
        BY <2>1, CapIs, Zenon DEF Grant, Fits, Measured
      <3>2. Total \in Nat
        BY ShootAssumption
      <3> QED
        BY <1>3, <3>1, <3>2
    <2> QED
      BY <2>5, <2>6, CapNext, Zenon
  <1> QED
    BY <1>2, <1>3, <1>4, <1>5, <1>6, Zenon DEF Granted

\* RscMgr serves the next request or puts it aside.
LEMMA GrantNewSizes ==
  ASSUME ShootInv, ~ crossed, SizeInv, GrantNew
  PROVE  SizeInv'
  <1> DEFINE r == Head(queue)
  <1>1. ShootTypes /\ CapInv /\ SizesInv /\ AskedInv
    BY Zenon DEF ShootInv, SizeInv
  <1>2. queue # <<>> /\ r.kind = "alloc" /\ queue' = Tail(queue) /\ queue \in Seq(Requests)
    BY <1>1, Zenon DEF GrantNew, ShootTypes
  <1>3. r = queue[1] /\ 1 \in DOMAIN queue /\ r \in Requests
    BY <1>2, Taken, Zenon
  <1>4. \A k \in DOMAIN queue' : k + 1 \in DOMAIN queue /\ queue'[k] = queue[k + 1]
    BY <1>2, TailAt, Zenon
  <1>5. r.size \in Nat
    BY <1>2, <1>3, AllocMessage, Zenon
  <1>6. \/ Grant(r) /\ waiting' = waiting
        \/ /\ waiting' = waiting \cup {r}
           /\ UNCHANGED <<mem_sem, call, alloc_sem, free_sem, suite_info, shoot_full_suite,
                          own, suites, granting, crossed>>
    BY Zenon DEF GrantNew
  <1>7. WasAsked(r.info, r.size)
    BY <1>2, <1>3, Zenon DEF WasAsked, Queued
  <1> HIDE DEF r
  <1>8. \A i, k : Queued(k, i)' => WasAsked(i, queue'[k].size)
    BY <1>4, Zenon DEF WasAsked, Queued
  <1>9. \A i, p : Waits(p, i) => WasAsked(i, p.size)
    BY Zenon DEF WasAsked
  <1>10. CASE Grant(r) /\ waiting' = waiting
    <2>1. /\ CapInv' /\ Settled
          /\ \A i : Granted(i)' => i = r.info /\ suites'[granting'.suite] = r.size
          /\ UNCHANGED <<call, suite_info, own>>
      BY <1>1, <1>5, <1>10, GrantSizes, Zenon
    <2>2. SizesInv'
      BY <1>1, <2>1, SettledSizes, Zenon
    <2>3. \A i, p : Waits(p, i)' => WasAsked(i, p.size)
      BY <1>9, <1>10, Zenon DEF Waits
    <2>4. \A i : Granted(i)' => WasAsked(i, suites'[granting'.suite])
      BY <1>7, <2>1, Zenon
    <2>5. AskedInv'
      BY <1>1, <1>8, <2>1, <2>3, <2>4, SettledAsked, Zenon
    <2> QED
      BY <2>1, <2>2, <2>5, Zenon DEF SizeInv
  <1>11. CASE /\ waiting' = waiting \cup {r}
              /\ UNCHANGED <<mem_sem, call, alloc_sem, free_sem, suite_info, shoot_full_suite,
                             own, suites, granting, crossed>>
    <2>1. CapInv' /\ Settled
      BY <1>1, <1>11, Zenon DEF CapInv, Memory, Settled
    <2>2. SizesInv'
      BY <1>1, <1>11, <2>1, SettledSizes, Zenon
    <2>3. \A i, p : Waits(p, i)' => WasAsked(i, p.size)
      BY <1>7, <1>9, <1>11, Zenon DEF Waits
    <2>4. AskedInv'
      BY <1>1, <1>8, <1>11, <2>1, <2>3, SettledAsked, Zenon
    <2> QED
      BY <2>1, <2>2, <2>4, Zenon DEF SizeInv
  <1> QED
    BY <1>6, <1>10, <1>11, Zenon

\* RscMgr serves a request it had put aside.
LEMMA GrantWaitingSizes ==
  ASSUME ShootInv, ~ crossed, SizeInv, GrantWaiting
  PROVE  SizeInv'
  <1>1. ShootTypes /\ CapInv /\ SizesInv /\ AskedInv
    BY Zenon DEF ShootInv, SizeInv
  <1>2. PICK r \in waiting : Grant(r) /\ waiting' = waiting \ {r} /\ queue' = queue
    BY Zenon DEF GrantWaiting
  <1>3. r.size \in Nat /\ WasAsked(r.info, r.size)
    <2>1. r \in [kind : {"alloc"}, size : Nat, info : Infos, contig : BOOLEAN]
      BY <1>1, Zenon DEF ShootTypes
    <2> QED
      BY <2>1, Zenon DEF WasAsked, Waits
  <1>4. /\ CapInv' /\ Settled
        /\ \A i : Granted(i)' => i = r.info /\ suites'[granting'.suite] = r.size
        /\ UNCHANGED <<call, suite_info, own>>
    BY <1>1, <1>2, <1>3, GrantSizes, Zenon
  <1>5. SizesInv'
    BY <1>1, <1>4, SettledSizes, Zenon
  <1>6. /\ \A i, k : Queued(k, i)' => WasAsked(i, queue'[k].size)
        /\ \A i, p : Waits(p, i)' => WasAsked(i, p.size)
        /\ \A i : Granted(i)' => WasAsked(i, suites'[granting'.suite])
    BY <1>2, <1>3, <1>4, Zenon DEF WasAsked, Queued, Waits
  <1>7. AskedInv'
    BY <1>1, <1>4, <1>6, SettledAsked, Zenon
  <1> QED
    BY <1>4, <1>5, <1>7, Zenon DEF SizeInv

\* The suites stay as they are.
LEMMA SuitesSame ==
  ASSUME CapInv, suites' = suites
  PROVE  CapInv' /\ Settled
  BY Zenon DEF CapInv, Memory, Settled

\* allocCBR, for a caller that has given up.
LEMMA LateCBRSizes ==
  ASSUME ShootInv, ~ crossed, SizeInv, LateCBR
  PROVE  SizeInv'
  <1>1. ShootTypes /\ WaitInv /\ CapInv /\ SizesInv /\ AskedInv
    BY Zenon DEF ShootInv, SizeInv
  <1>2. /\ granting.late
        /\ queue' = Append(queue, FreeRequest(granting.suite, "freeCBR_nowait"))
        /\ suite_info' = Restricted(suite_info, DOMAIN suite_info \ {granting.info})
        /\ granting' = NoGrant
        /\ UNCHANGED <<call, own, waiting, suites>>
    BY Zenon DEF LateCBR
  <1>3. granting # NoGrant
    BY <1>2, NoGrantLate, Zenon
  <1>4. granting.suite \in Suites /\ queue \in Seq(Requests)
    BY <1>1, <1>3, Callback, Zenon DEF ShootTypes
  <1>5. \A i, k : Queued(k, i)' => WasAsked(i, queue'[k].size)
    <2>1. PICK e : e = FreeRequest(granting.suite, "freeCBR_nowait")
      BY Zenon
    <2>2. e \in Requests
      BY <1>4, <2>1, FreeMessage, Zenon
    <2>3. \A i, k : Queued(k, i)' => Queued(k, i)
      BY <1>2, <1>4, SentFree, Zenon
    <2>4. \A k \in DOMAIN queue : queue'[k] = queue[k]
      <3>1. queue' = Append(queue, e)
        BY <1>2, <2>1, Zenon
      <3>2. \A k \in DOMAIN queue : Append(queue, e)[k] = queue[k]
        BY <1>4, <2>2, AppendAt
      <3> QED
        BY <3>1, <3>2, Zenon
    <2> QED
      BY <2>3, <2>4, Zenon DEF WasAsked, Queued
  <1>6. \A i, p : Waits(p, i)' => WasAsked(i, p.size)
    BY <1>2, Zenon DEF WasAsked, Waits
  <1>7. \A i : ~ Granted(i)'
    BY <1>2, Zenon DEF Granted
  <1>8. ASSUME call \in Calls, call.pc \in {"wait", "late"}
        PROVE  suite_info'[call.info].ret = suite_info[call.info].ret
    <2>1. call.info \in DOMAIN suite_info /\ call.info # granting.info
      BY <1>1, <1>2, <1>8, Zenon DEF WaitInv
    <2> QED
      BY <1>2, <2>1, Zenon DEF Restricted
  <1>9. CapInv' /\ Settled
    BY <1>1, <1>2, SuitesSame, Zenon
  <1>10. SizesInv'
    BY <1>1, <1>2, <1>9, SettledSizes, Zenon
  <1>11. AskedInv'
    BY <1>1, <1>2, <1>5, <1>6, <1>7, <1>8, <1>9, SettledAsked, Zenon
  <1> QED
    BY <1>9, <1>10, <1>11, Zenon DEF SizeInv

\* allocCBR, for a caller that waits.
LEMMA AllocCBRSizes ==
  ASSUME ShootInv, ~ crossed, SizeInv, AllocCBR
  PROVE  SizeInv'
  <1>1. ShootTypes /\ CapInv /\ SizesInv /\ AskedInv
    BY Zenon DEF ShootInv, SizeInv
  <1>2. /\ granting # NoGrant
        /\ suite_info' = [suite_info EXCEPT ![granting.info].ret = granting.suite]
        /\ granting' = NoGrant
        /\ crossed' = (call.pc # "wait" \/ call.info # granting.info)
        /\ UNCHANGED <<call, own, queue, waiting, suites>>
    BY Zenon DEF AllocCBR
  <1>3. CapInv' /\ Settled
    BY <1>1, <1>2, SuitesSame, Zenon
  <1>4. SizesInv'
    BY <1>1, <1>2, <1>3, SettledSizes, Zenon
  <1>5. ASSUME ~ crossed' PROVE AskedInv'
    <2>1. call.info = granting.info
      BY <1>2, <1>5
    <2>2. suite_info'[call.info].ret = granting.suite
      <3>1. /\ granting.info \in DOMAIN suite_info
            /\ suite_info[granting.info] \in [ret : NoneOr(Suites), timed_out : BOOLEAN]
        BY <1>1, <1>2, Callback, Zenon DEF ShootTypes
      <3> QED
        BY <1>2, <2>1, <3>1
    <2>3. ASSUME Asked(call.info, call.size) PROVE Asked(call.info, call.size)'
      <3>1. suites[granting.suite] = call.size
        BY <1>2, <2>1, <2>3, Zenon DEF Asked, Granted
      <3>2. \A i : /\ \A k : Queued(k, i)' => Queued(k, i)
                   /\ \A p : Waits(p, i)' => Waits(p, i)
                   /\ ~ Granted(i)'
        BY <1>2, Zenon DEF Queued, Waits, Granted
      <3> QED
        BY <1>2, <2>2, <2>3, <3>1, <3>2, Zenon DEF Asked
    <2> QED
      BY <1>1, <1>2, <2>3, Zenon DEF AskedInv
  <1> QED
    BY <1>3, <1>4, <1>5, Zenon DEF SizeInv

\* RscMgr frees a suite.
LEMMA ReleaseSizes ==
  ASSUME ShootInv, ~ crossed, SizeInv, Release
  PROVE  SizeInv'
  <1>1. ShootTypes /\ CapInv /\ SizesInv /\ AskedInv
    BY Zenon DEF ShootInv, SizeInv
  <1>2. PICK m : m = Head(queue).suite
    BY Zenon
  <1>3. /\ queue # <<>> /\ Head(queue).kind = "free" /\ queue' = Tail(queue)
        /\ suites' = Restricted(suites, DOMAIN suites \ {m})
        /\ UNCHANGED <<call, suite_info, own, waiting, granting>>
    BY <1>2, Zenon DEF Release
  <1>4. queue \in Seq(Requests)
    BY <1>1, Zenon DEF ShootTypes
  <1>5. Freeing(1, m)
    <2>1. Head(queue) = queue[1] /\ 1 \in DOMAIN queue
      BY <1>3, <1>4, TailAt, Zenon
    <2> QED
      BY <1>2, <1>3, <2>1, Zenon DEF Freeing
  <1>6. \A k \in DOMAIN queue' : k + 1 \in DOMAIN queue /\ queue'[k] = queue[k + 1]
    BY <1>3, <1>4, TailAt, Zenon
  <1>7. /\ DOMAIN suites' = DOMAIN suites \ {m}
        /\ \A s \in DOMAIN suites \ {m} : suites'[s] = suites[s]
    BY <1>3, Zenon DEF Restricted
  <1>8. Settled
    <2>1. ASSUME NEW g, NEW x, NEW s \in Suites, Place(g, x, s) PROVE suites'[s] = suites[s]
      <3>1. s \in DOMAIN suites /\ s # m
        <4>1. s \in DOMAIN suites /\ ~ Freeing(1, s)
          BY <2>1, PlacedGiven, Zenon
        <4> QED
          BY <1>5, <4>1, Zenon
      <3> QED
        BY <1>7, <3>1, Zenon
    <2> QED
      BY <2>1, Zenon DEF Settled
  <1>9. CapInv'
    <2>1. PICK n \in Nat : Measured(Mem(suites, DOMAIN suites), n) /\ n <= Total
      BY <1>1, CapMeasured, Zenon
    <2>2. DOMAIN suites \ {m} \in SUBSET DOMAIN suites
      BY Zenon
    <2>3. PICK k \in Nat : Measured(Mem(suites, DOMAIN suites \ {m}), k) /\ k <= n
      BY <2>1, <2>2, MemSub, Zenon
    <2>4. Mem(suites', DOMAIN suites \ {m}) = Mem(suites, DOMAIN suites \ {m})
      BY <1>7, MemSame, Zenon
    <2>5. Measured(Mem(suites', DOMAIN suites'), k)
      BY <1>7, <2>3, <2>4, Zenon
    <2>6. k <= Total
      <3>1. Total \in Nat
        BY ShootAssumption
      <3> QED
        BY <2>1, <2>3, <3>1
    <2> QED
      BY <2>5, <2>6, CapNext, Zenon
  <1>10. SizesInv'
    BY <1>1, <1>3, <1>8, SettledSizes, Zenon
  <1>11. /\ \A i, k : Queued(k, i)' => WasAsked(i, queue'[k].size)
         /\ \A i, p : Waits(p, i)' => WasAsked(i, p.size)
    BY <1>3, <1>6, Zenon DEF WasAsked, Queued, Waits
  <1>12. AskedInv'
    BY <1>1, <1>3, <1>8, <1>11, SettledAsked, Zenon
  <1> QED
    BY <1>9, <1>10, <1>12, Zenon DEF SizeInv

-----------------------------------------------------------------------------
(* What calls ask for                                                      *)

\* The request of the user, and what autodetection has found.
SameTerms(c, d) ==
    d.contig = c.contig /\ d.max_size = c.max_size /\ d.requested = c.requested

\* An allocation keeps the terms of the call.
LEMMA AllocateTerms ==
  ASSUME NEW c \in Calls, NEW n \in Nat, NEW x \in Nexts
  PROVE  /\ SameTerms(c, Allocate(c, n, x)) /\ Allocate(c, n, x).size = n
         /\ Allocate(c, n, x).tested = c.tested
  BY DEF SameTerms, Allocate, Calls

\* So does a free.
LEMMA FreeTerms ==
  ASSUME NEW c \in Calls, NEW s, NEW x
  PROVE  SameTerms(c, Free(c, s, x))
  BY DEF SameTerms, Free, Calls

\* So does the end of the call.
LEMMA ReturnTerms ==
  ASSUME NEW c \in Calls, NEW s
  PROVE  SameTerms(c, ReturnSuite(c, s))
  BY DEF SameTerms, ReturnSuite, Calls

\* So does a new backup, or a new size to test.
LEMMA UpdateTerms ==
  ASSUME NEW c \in Calls, NEW n, NEW s
  PROVE  /\ SameTerms(c, [c EXCEPT !.backup = s])
         /\ SameTerms(c, [c EXCEPT !.tested = n]) /\ [c EXCEPT !.tested = n].tested = n
  <1>1. SameTerms(c, [c EXCEPT !.backup = s])
    BY DEF SameTerms, Calls
  <1>2. SameTerms(c, [c EXCEPT !.tested = n]) /\ [c EXCEPT !.tested = n].tested = n
    BY DEF SameTerms, Calls
  <1> QED
    BY <1>1, <1>2, Zenon

\* A call that frees or returns asks for nothing.
LEMMA SizedAnyway ==
  ASSUME NEW d, d.pc \notin {"alloc", "wait", "late"}, d.next = "test" => d.backup # NoSuite
  PROVE  Sized(d)
  BY Zenon DEF Sized, Asking, Final

\* After the tests a call asks for no more than they found.
LEMMA DetectedSized ==
  ASSUME NEW c \in Calls, c.backup = NoSuite, c.next # "test"
  PROVE  Sized(Detected(c)) /\ SameTerms(c, Detected(c))
  <1>1. /\ c.max_size \in Nat /\ c.requested \in Nat /\ c.next \in Nexts /\ c.contig \in BOOLEAN
        /\ "full" \in Nexts /\ "user" \in Nexts /\ NoSuite \in NoneOr(Suites)
    BY Sizes, Zenon DEF Nexts, NoneOr
  <1>2. ASSUME NEW n \in Nat, n <= c.max_size, NEW x \in {"user", "full"},
               Detected(c) = Allocate(c, n, x)
        PROVE  Sized(Detected(c)) /\ SameTerms(c, Detected(c))
    <2>1. x \in Nexts
      BY Zenon DEF Nexts
    <2>2. /\ Detected(c).next = x /\ Detected(c).size = n /\ SameTerms(c, Detected(c))
      <3>1. Detected(c).next = x
        BY <1>2, <2>1, AllocateIs
      <3>2. Detected(c).size = n /\ SameTerms(c, Detected(c))
        BY <1>2, <2>1, AllocateTerms
      <3> QED
        BY <3>1, <3>2, Zenon
    <2> QED
      BY <1>2, <2>2, Zenon DEF Sized, SameTerms
  <1>3. ASSUME Detected(c) = ReturnSuite(c, NoSuite)
        PROVE  Sized(Detected(c)) /\ SameTerms(c, Detected(c))
    <2>1. /\ Detected(c).pc = "return" /\ Detected(c).next = c.next
          /\ SameTerms(c, Detected(c))
      <3>1. Detected(c).pc = "return" /\ Detected(c).next = c.next
        BY <1>1, <1>3, ReturnIs
      <3>2. SameTerms(c, Detected(c))
        BY <1>3, ReturnTerms
      <3> QED
        BY <3>1, <3>2, Zenon
    <2> QED
      BY <2>1, SizedAnyway, Zenon
  <1>4. \/ Detected(c) = Allocate(c, c.max_size, "full")
        \/ Detected(c) = ReturnSuite(c, NoSuite)
        \/ Detected(c) = Allocate(c, c.max_size, "user")
        \/ Detected(c) = Allocate(c, c.requested, "user") /\ ~ (c.requested > c.max_size)
    BY Zenon DEF Detected
  <1>5. c.max_size <= c.max_size /\ (~ (c.requested > c.max_size) => c.requested <= c.max_size)
    BY <1>1
  <1> QED
    BY <1>1, <1>2, <1>3, <1>4, <1>5, Zenon

\* The backup is freed when the tests are over.
LEMMA FreeBackupSized ==
  ASSUME NEW c \in Calls
  PROVE  Sized(FreeBackup(c)) /\ SameTerms(c, FreeBackup(c))
  <1>1. c.backup \in NoneOr(Suites) /\ NoSuite \in NoneOr(Suites) /\ "backup" \in Nexts
    BY Sizes, Zenon DEF NoneOr, Nexts
  <1> DEFINE d == [c EXCEPT !.backup = NoSuite]
  <1>2. d \in Calls /\ SameTerms(c, d)
    BY <1>1, CallUpdates, UpdateTerms, 0 \in Nat, Zenon
  <1>3. FreeBackup(c) = Free(d, c.backup, "backup")
    BY Zenon DEF FreeBackup
  <1> HIDE DEF d
  <1>4. SameTerms(d, FreeBackup(c))
    BY <1>2, <1>3, FreeTerms, Zenon
  <1>5. Sized(FreeBackup(c))
    BY FreeBackupIs, SizedAnyway, Zenon
  <1> QED
    BY <1>2, <1>4, <1>5, Zenon DEF SameTerms

\* A test asks for the size it tests.
LEMMA TestSized ==
  ASSUME NEW c \in Calls, c.backup # NoSuite, NEW n \in Nat
  PROVE  Sized(Test(c, n)) /\ SameTerms(c, Test(c, n))
  <1>1. CASE n < MaxTested
    <2> DEFINE e == [c EXCEPT !.tested = n]
               d == Allocate(e, n, "test")
    <2>1. /\ e \in Calls /\ e.backup = c.backup /\ "test" \in Nexts /\ SameTerms(c, e)
          /\ e.tested = n
      <3>1. NoSuite \in NoneOr(Suites) /\ "test" \in Nexts
        BY Zenon DEF NoneOr, Nexts
      <3> QED
        BY <3>1, CallUpdates, UpdateTerms, Zenon
    <2>2. Test(c, n) = d
      BY <1>1, Zenon DEF Test
    <2> HIDE DEF e
    <2>3. d.next = "test" /\ d.backup = c.backup /\ d.size = n /\ d.tested = n /\ SameTerms(e, d)
      <3>1. d.next = "test" /\ d.backup = c.backup
        BY <2>1, AllocateIs DEF d
      <3>2. d.size = n /\ d.tested = n /\ SameTerms(e, d)
        BY <2>1, AllocateTerms DEF d
      <3> QED
        BY <3>1, <3>2, Zenon
    <2> HIDE DEF d
    <2>4. Sized(d)
      BY <2>3, Zenon DEF Sized, Final
    <2> QED
      BY <2>1, <2>2, <2>3, <2>4, Zenon DEF SameTerms
  <1>2. CASE ~ (n < MaxTested)
    <2>1. Test(c, n) = FreeBackup(c)
      BY <1>2, Zenon DEF Test
    <2> QED
      BY <2>1, FreeBackupSized
  <1> QED
    BY <1>1, <1>2, Zenon

\* What is known of the sizes of c if the suites have sizes f and others own w.
Fair(c, f, w) == Sized(c) /\ Backed(c, f) /\ Bounded(c, w)

\* The backup of a call is kept, or freed.
LEMMA FairKept ==
  ASSUME NEW c, NEW d, NEW f, NEW w, Fair(c, f, w), SameTerms(c, d), Sized(d),
         d.backup \in {c.backup, NoSuite}
  PROVE  Fair(d, f, w)
  BY Zenon DEF Fair, Backed, Bounded, SameTerms, BackupOf

\* A test that worked: the suite, the backup and what others own were there together.
LEMMA TestedFair ==
  ASSUME NEW c \in Calls, NEW w \in Nat, c.tested + BackupOf(c) + w <= Total
  PROVE  /\ TestedSize(c) + w <= Total
         /\ c.contig => TestedSize(c) <= Chunk
  <1>1. c.tested \in Nat /\ c.contig \in BOOLEAN
    BY Zenon DEF Calls
  <1>2. Total \in Nat /\ Chunk \in Nat /\ Backup \in Nat /\ Margin \in Nat
    BY ShootAssumption
  <1>3. CASE c.contig
    BY <1>1, <1>2, <1>3 DEF BackupOf, TestedSize
  <1>4. CASE ~ c.contig
    BY <1>1, <1>2, <1>4 DEF BackupOf, TestedSize
  <1> QED
    BY <1>3, <1>4, Zenon

\* The next step of the call, after an allocation that gave s.
LEMMA AllocatedFair ==
  ASSUME NEW c, Good(c), Asking(c), NEW f, NEW w \in Nat, Fair(c, f, w),
         NEW s \in NoneOr(Suites), s # NoSuite => f[s] = c.size,
         s # NoSuite /\ c.next = "test" => c.tested + BackupOf(c) + w <= Total
  PROVE  Fair(Allocated(c, s), f, w)
  <1> DEFINE d == Allocated(c, s)
  <1>1. /\ c \in Calls /\ c.next \in Nexts /\ (c.next # "test" => c.backup = NoSuite)
        /\ c.next = "test" => c.backup # NoSuite
    BY Sizes, Zenon DEF Good, Fair, Sized
  <1>2. CASE c.next = "backup" /\ s = NoSuite
    <2>1. d = Detected(c) /\ c.backup = NoSuite
      BY <1>1, <1>2, Zenon DEF Allocated
    <2>2. Sized(d) /\ SameTerms(c, d) /\ d.backup = NoSuite
      <3>1. Detected(c).backup = NoSuite
        BY <1>1, <2>1, DetectedIs, Zenon
      <3>2. Sized(Detected(c)) /\ SameTerms(c, Detected(c))
        BY <1>1, <1>2, <2>1, DetectedSized, Zenon
      <3> QED
        BY <2>1, <3>1, <3>2, Zenon
    <2> QED
      BY <2>2, FairKept, Zenon
  <1>3. CASE c.next = "backup" /\ s # NoSuite
    <2> DEFINE e == [c EXCEPT !.backup = s]
    <2>1. d = Test(e, BackupOf(c)) /\ BackupOf(c) \in Nat
      BY <1>1, <1>3, Sizes, Zenon DEF Allocated
    <2>2. e \in Calls /\ e.backup = s /\ SameTerms(c, e)
      BY <1>1, CallUpdates, UpdateTerms, 0 \in Nat, Zenon
    <2> HIDE DEF e, d
    <2>3. Sized(d) /\ SameTerms(e, d)
      BY <1>3, <2>1, <2>2, TestSized, Zenon
    <2>4. d.backup \in {s, NoSuite}
      <3>1. \/ Test(e, BackupOf(c)).backup = e.backup
            \/ Test(e, BackupOf(c)).backup = NoSuite
        BY <2>1, <2>2, TestIs, Zenon
      <3> QED
        BY <2>1, <2>2, <3>1, Zenon
    <2>5. f[s] = BackupOf(c)
      BY <1>3, Zenon DEF Fair, Sized
    <2>6. BackupOf(d) = BackupOf(c) /\ d.max_size = c.max_size /\ d.contig = c.contig
      BY <2>2, <2>3, Zenon DEF SameTerms, BackupOf
    <2>7. Backed(d, f) /\ Bounded(d, w)
      BY <2>4, <2>5, <2>6, Zenon DEF Backed, Bounded, Fair
    <2> QED
      BY <2>3, <2>7, Zenon DEF Fair, d
  <1>4. CASE c.next = "test" /\ s = NoSuite
    <2>1. d = FreeBackup(c)
      BY <1>4, Zenon DEF Allocated
    <2>2. Sized(d) /\ SameTerms(c, d) /\ d.backup = NoSuite
      BY <1>1, <2>1, FreeBackupIs, FreeBackupSized, Zenon
    <2> QED
      BY <2>2, FairKept, Zenon
  <1>5. CASE c.next = "test" /\ s # NoSuite
    <2> DEFINE e == [c EXCEPT !.max_size = TestedSize(c)]
    <2>1. d = Free(e, s, "test") /\ "test" \in Nexts
      BY <1>5, Zenon DEF Allocated, Nexts
    <2>2. e \in Calls /\ e.backup = c.backup
      BY <1>1, CallUpdates, Sizes, Zenon
    <2>3. e.max_size = TestedSize(c) /\ e.contig = c.contig
      BY <1>1 DEF Calls
    <2> HIDE DEF e, d
    <2>4. d.pc = "free" /\ d.next = "test" /\ d.backup = c.backup
      BY <2>1, <2>2, FreeIs
    <2>5. SameTerms(e, d)
      BY <2>1, <2>2, FreeTerms
    <2>6. BackupOf(d) = BackupOf(c) /\ d.max_size = TestedSize(c) /\ d.contig = c.contig
      BY <2>3, <2>5, Zenon DEF SameTerms, BackupOf
    <2>7. TestedSize(c) + w <= Total /\ (c.contig => TestedSize(c) <= Chunk)
      BY <1>1, <1>5, TestedFair, Zenon
    <2>8. Backed(d, f) /\ Bounded(d, w)
      BY <2>4, <2>6, <2>7, Zenon DEF Backed, Bounded, Fair
    <2>9. Sized(d)
      BY <1>1, <1>5, <2>4, SizedAnyway, Zenon
    <2> QED
      BY <2>8, <2>9, Zenon DEF Fair, d
  <1>6. CASE c.next \in {"user", "full"}
    <2>1. d = ReturnSuite(c, s)
      BY <1>6, Zenon DEF Allocated
    <2>2. d.pc = "return" /\ d.next = c.next /\ d.backup = c.backup
      BY <1>1, <2>1, ReturnIs
    <2>3. SameTerms(c, d)
      BY <1>1, <2>1, ReturnTerms
    <2>4. Sized(d)
      BY <1>6, <2>2, SizedAnyway, Zenon
    <2> QED
      BY <2>2, <2>3, <2>4, FairKept, Zenon
  <1> QED
    BY <1>1, <1>2, <1>3, <1>4, <1>5, <1>6, Zenon DEF Nexts

\* The next step of the call, after a free.
LEMMA FreedFair ==
  ASSUME NEW c, Good(c), c.pc = "freewait", NEW f, NEW w, Fair(c, f, w)
  PROVE  Fair(Freed(c), f, w)
  <1> DEFINE d == Freed(c)
  <1>1. /\ c \in Calls /\ c.next \in {"user", "backup", "test"}
        /\ c.next # "test" => c.backup = NoSuite
        /\ c.next = "test" => c.backup # NoSuite
    BY Sizes, Zenon DEF Good, Nexts, Fair, Sized
  <1>2. CASE c.next = "test" /\ d = FreeBackup(c)
    <2>1. Sized(d) /\ SameTerms(c, d) /\ d.backup = NoSuite
      BY <1>1, <1>2, FreeBackupIs, FreeBackupSized, Zenon
    <2> QED
      BY <2>1, FairKept, Zenon
  <1>3. CASE c.next = "test" /\ d = Test(c, c.tested + BackupOf(c))
    <2>1. PICK n : n = c.tested + BackupOf(c)
      OBVIOUS
    <2>2. n \in Nat /\ d = Test(c, n)
      BY <1>1, <1>3, <2>1, Sizes, Zenon
    <2>3. Sized(Test(c, n)) /\ SameTerms(c, Test(c, n))
      BY <1>1, <1>3, <2>2, TestSized, Zenon
    <2>4. Test(c, n).backup \in {c.backup, NoSuite}
      BY <1>1, <2>2, TestIs, Zenon
    <2> QED
      BY <2>2, <2>3, <2>4, FairKept, Zenon
  <1>4. CASE c.next = "backup"
    <2>1. d = Detected(c) /\ c.backup = NoSuite
      BY <1>1, <1>4, Zenon DEF Freed
    <2>2. Sized(Detected(c)) /\ SameTerms(c, Detected(c))
      BY <1>1, <1>4, <2>1, DetectedSized, Zenon
    <2>3. Detected(c).backup = NoSuite
      BY <1>1, <2>1, DetectedIs, Zenon
    <2> QED
      BY <2>1, <2>2, <2>3, FairKept, Zenon
  <1>5. CASE c.next = "user"
    <2>1. d = ReturnSuite(c, NoSuite) /\ NoSuite \in NoneOr(Suites)
      BY <1>5, Zenon DEF Freed, NoneOr
    <2>2. d.pc = "return" /\ d.next = c.next /\ d.backup = c.backup
      BY <1>1, <2>1, ReturnIs
    <2>3. SameTerms(c, d)
      BY <1>1, <2>1, ReturnTerms
    <2>4. Sized(d)
      BY <1>5, <2>2, SizedAnyway, Zenon
    <2> QED
      BY <2>2, <2>3, <2>4, FairKept, Zenon
  <1>6. c.next = "test" => d = FreeBackup(c) \/ d = Test(c, c.tested + BackupOf(c))
    BY Zenon DEF Freed
  <1> QED
    BY <1>1, <1>2, <1>3, <1>4, <1>5, <1>6, Zenon

-----------------------------------------------------------------------------
(* What calls do to sizes                                                  *)

\* Nobody gets or gives back memory.
LEMMA OwnedStays ==
  ASSUME suites' = suites, own' = own
  PROVE  Owned' = Owned
  BY DEF Owned, Memory

\* A call that does not wait for an answer.
LEMMA CallSizes ==
  ASSUME CapInv, suites' = suites, own' = own, Fair(call', suites, Owned),
         call'.pc \notin {"wait", "late"}
  PROVE  SizeInv'
  <1>1. CapInv'
    BY SuitesSame, Zenon
  <1>2. Owned' = Owned
    BY OwnedStays, Zenon
  <1>3. SizesInv'
    BY <1>2, Zenon DEF SizesInv, Fair
  <1>4. AskedInv'
    BY Zenon DEF AskedInv
  <1> QED
    BY <1>1, <1>3, <1>4, Zenon DEF SizeInv

\* No call for shoot memory is in progress.
LEMMA NoCallSizes ==
  ASSUME CapInv, suites' = suites, call' \notin Calls
  PROVE  SizeInv'
  <1>1. CapInv'
    BY SuitesSame, Zenon
  <1> QED
    BY <1>1, Zenon DEF SizeInv, SizesInv, AskedInv

\* The step of a call that changes nothing it knows.
LEMMA StepTerms ==
  ASSUME NEW c \in Calls, NEW p
  PROVE  /\ SameTerms(c, [c EXCEPT !.pc = p])
         /\ [c EXCEPT !.pc = p].size = c.size /\ [c EXCEPT !.pc = p].tested = c.tested
  BY DEF SameTerms, Calls

\* The same for a new request.
LEMMA WaitTerms ==
  ASSUME NEW c \in Calls, NEW i, NEW d, d = [c EXCEPT !.pc = "wait", !.info = i]
  PROVE  SameTerms(c, d) /\ d.size = c.size /\ d.tested = c.tested
  BY DEF SameTerms, Calls

\* What is known of the call in progress.
LEMMA CallFair ==
  ASSUME SizeInv, ~ crossed, call \in Calls
  PROVE  CapInv /\ SizesInv /\ AskedInv /\ Fair(call, suites, Owned)
  BY Zenon DEF SizeInv, SizesInv, Fair

\* A call goes on waiting, or begins to.
LEMMA WaitSized ==
  ASSUME NEW c, NEW d, Sized(c), Asking(c), SameTerms(c, d), d.next = c.next,
         d.backup = c.backup, d.size = c.size, d.tested = c.tested, d.pc # "alloc"
  PROVE  Sized(d)
  <1>1. BackupOf(d) = BackupOf(c)
    BY Zenon DEF BackupOf, SameTerms
  <1>2. ~ Final(d)
    BY Zenon DEF Final
  <1> QED
    BY <1>1, <1>2, Zenon DEF Sized

\* An allocation is asked for.
LEMMA RequestSizes ==
  ASSUME ShootInv, ~ crossed, SizeInv, Request
  PROVE  SizeInv'
  <1>1. ShootTypes /\ CallInv /\ PendingInv /\ SpareInv
    BY Zenon DEF ShootInv
  <1>2. call.pc = "alloc"
    BY Zenon DEF Request
  <1>3. Good(call) /\ call \in Calls
    BY <1>1, <1>2, CallIs, Zenon DEF ShootPcs
  <1>4. PICK i \in Infos \ DOMAIN suite_info : i = CHOOSE x \in Infos \ DOMAIN suite_info : TRUE
    BY <1>1, <1>2, <1>3, Zenon DEF SpareInv, Spare
  <1> DEFINE b == call.contig /\ call.next = "user"
  <1>5. /\ suite_info' = Extended(suite_info, i, [ret |-> NoSuite, timed_out |-> FALSE])
        /\ call' = [call EXCEPT !.pc = "wait", !.info = i]
        /\ queue' = Append(queue, AllocRequest(call.size, i, b))
        /\ UNCHANGED <<own, waiting, suites, granting>>
    BY <1>4, Zenon DEF Request
  <1>6. b \in BOOLEAN
    BY <1>3, Sizes, Zenon
  <1> HIDE DEF b
  <1>7. PICK e \in Requests : e = AllocRequest(call.size, i, b)
    BY <1>3, <1>4, <1>6, RequestIs
  <1>8. call' \in Calls /\ call'.pc = "wait" /\ call'.info = i
    BY <1>3, <1>4, <1>5, WaitIs
  <1>9. call'.next = call.next /\ call'.backup = call.backup
    BY <1>3, <1>4, <1>5, WaitIs
  <1>10. SameTerms(call, call') /\ call'.size = call.size /\ call'.tested = call.tested
    BY <1>3, <1>5, WaitTerms, Zenon
  <1>11. CapInv /\ Fair(call, suites, Owned)
    BY <1>3, CallFair, Zenon
  <1>12. CapInv' /\ Owned' = Owned
    BY <1>5, <1>11, SuitesSame, OwnedStays, Zenon
  <1>13. SizesInv'
    <2>1. Asking(call) /\ Sized(call)
      BY <1>2, <1>11, Zenon DEF Asking, Fair
    <2>2. Sized(call')
      BY <1>8, <1>9, <1>10, <2>1, WaitSized, Zenon
    <2>3. Fair(call', suites, Owned)
      BY <1>9, <1>10, <1>11, <2>2, FairKept, Zenon
    <2> QED
      BY <1>5, <1>12, <2>3, Zenon DEF SizesInv, Fair
  <1>14. ~ Pending(i)
    BY <1>1, <1>4, Zenon DEF PendingInv
  <1>15. \A k : Queued(k, i)' => queue'[k].size = call.size
    <2>1. queue \in Seq(Requests) /\ queue' = Append(queue, e)
      BY <1>1, <1>5, <1>7, Zenon DEF ShootTypes
    <2>2. /\ DOMAIN queue' = DOMAIN queue \cup {Len(queue) + 1}
          /\ queue'[Len(queue) + 1] = e /\ \A k \in DOMAIN queue : queue'[k] = queue[k]
      BY <2>1, AppendAt
    <2>3. e.size = call.size
      BY <1>7 DEF AllocRequest
    <2>4. \A k \in DOMAIN queue : ~ Queued(k, i)'
      BY <1>14, <2>2, Zenon DEF Queued, Pending
    <2> QED
      BY <2>2, <2>3, <2>4, Zenon DEF Queued
  <1>16. (\A r : ~ Waits(r, i)') /\ ~ Granted(i)'
    BY <1>5, <1>14, Zenon DEF Pending, Waits, Granted
  <1>17. suite_info'[i].ret = NoSuite
    BY <1>1, <1>4, <1>5, InfoNew, Zenon
  <1>18. AskedInv'
    BY <1>8, <1>10, <1>15, <1>16, <1>17, Zenon DEF AskedInv, Asked
  <1> QED
    BY <1>12, <1>13, <1>18, Zenon DEF SizeInv

\* The answer came in time.
LEMMA TakeSizes ==
  ASSUME ShootInv, ~ crossed, SizeInv, Take
  PROVE  SizeInv'
  <1>1. ShootTypes /\ CallInv /\ WaitInv
    BY Zenon DEF ShootInv
  <1>2. call.pc = "wait"
    BY Zenon DEF Take
  <1>3. Good(call) /\ call \in Calls
    BY <1>1, <1>2, CallIs, Zenon DEF ShootPcs
  <1>4. PICK v : v = suite_info[call.info].ret
    BY Zenon
  <1>5. v \in NoneOr(Suites)
    <2>1. call.info \in DOMAIN suite_info
      BY <1>1, <1>2, <1>3, Zenon DEF WaitInv
    <2>2. suite_info[call.info] \in [ret : NoneOr(Suites), timed_out : BOOLEAN]
      BY <1>1, <2>1, Zenon DEF ShootTypes
    <2> QED
      BY <1>4, <2>2
  <1>6. call' = Allocated(call, v) /\ UNCHANGED <<own, suites>>
    BY <1>4, Zenon DEF Take, rscVars
  <1>7. CapInv /\ SizesInv /\ AskedInv /\ Fair(call, suites, Owned)
    BY <1>3, CallFair, Zenon
  <1>8. Owned \in Nat
    BY <1>7, OwnedIs, Zenon
  <1>9. v # NoSuite => suites[v] = call.size
    BY <1>2, <1>3, <1>4, <1>7, Zenon DEF AskedInv, Asked
  <1>10. v # NoSuite /\ call.next = "test" => call.tested + BackupOf(call) + Owned <= Total
    BY <1>2, <1>3, <1>4, <1>7, TestFits, Zenon
  <1>11. Asking(call)
    BY <1>2, Zenon DEF Asking
  <1>12. Fair(Allocated(call, v), suites, Owned)
    BY <1>3, <1>5, <1>7, <1>8, <1>9, <1>10, <1>11, AllocatedFair, Zenon
  <1>13. call'.pc \in {"alloc", "free", "return"}
    BY <1>3, <1>5, <1>6, AllocatedIs
  <1> QED
    BY <1>6, <1>7, <1>12, <1>13, CallSizes, Zenon

\* It did not, and the caller goes on without.
LEMMA GiveUpSizes ==
  ASSUME ShootInv, ~ crossed, SizeInv, GiveUp
  PROVE  SizeInv'
  <1>1. ShootTypes /\ CallInv
    BY Zenon DEF ShootInv
  <1>2. call.pc = "late" /\ NoSuite \in NoneOr(Suites)
    BY Zenon DEF GiveUp, NoneOr
  <1>3. Good(call) /\ call \in Calls
    BY <1>1, <1>2, CallIs, Zenon DEF ShootPcs
  <1>4. call' = Allocated(call, NoSuite) /\ UNCHANGED <<own, suites>>
    BY Zenon DEF GiveUp, rscVars
  <1>5. CapInv /\ Fair(call, suites, Owned)
    BY <1>3, CallFair, Zenon
  <1>6. Owned \in Nat
    BY <1>5, OwnedIs, Zenon
  <1>7. Asking(call)
    BY <1>2, Zenon DEF Asking
  <1>8. Fair(Allocated(call, NoSuite), suites, Owned)
    BY <1>2, <1>3, <1>5, <1>6, <1>7, AllocatedFair, Zenon
  <1>9. call'.pc \in {"alloc", "free", "return"}
    BY <1>2, <1>3, <1>4, AllocatedIs
  <1> QED
    BY <1>4, <1>5, <1>8, <1>9, CallSizes, Zenon

\* The wait ends without an answer.
LEMMA TimeoutSizes ==
  ASSUME ShootInv, ~ crossed, SizeInv, Timeout
  PROVE  SizeInv'
  <1>1. ShootTypes /\ CallInv
    BY Zenon DEF ShootInv
  <1>2. call.pc = "wait"
    BY Zenon DEF Timeout
  <1>3. Good(call) /\ call \in Calls
    BY <1>1, <1>2, CallIs, Zenon DEF ShootPcs
  <1>4. /\ call' = [call EXCEPT !.pc = "late"]
        /\ UNCHANGED <<own, suite_info, queue, waiting, suites, granting>>
    BY Zenon DEF Timeout, rscVars
  <1>5. /\ call'.pc = "late" /\ call'.info = call.info /\ call'.next = call.next
        /\ call'.backup = call.backup
    BY <1>3, <1>4, StepIs
  <1>6. SameTerms(call, call') /\ call'.size = call.size /\ call'.tested = call.tested
    BY <1>3, <1>4, StepTerms
  <1>7. CapInv /\ AskedInv /\ Fair(call, suites, Owned)
    BY <1>3, CallFair, Zenon
  <1>8. CapInv' /\ Owned' = Owned
    BY <1>4, <1>7, SuitesSame, OwnedStays, Zenon
  <1>9. SizesInv'
    <2>1. Asking(call) /\ Sized(call)
      BY <1>2, <1>7, Zenon DEF Asking, Fair
    <2>2. Sized(call')
      BY <1>5, <1>6, <2>1, WaitSized, Zenon
    <2>3. Fair(call', suites, Owned)
      BY <1>5, <1>6, <1>7, <2>2, FairKept, Zenon
    <2> QED
      BY <1>4, <1>8, <2>3, Zenon DEF SizesInv, Fair
  <1>10. AskedInv'
    <2>1. Asked(call.info, call.size)
      BY <1>2, <1>3, <1>7, Zenon DEF AskedInv
    <2>2. Asked(call.info, call.size)'
      <3>1. \A i : /\ \A k : Queued(k, i)' <=> Queued(k, i)
                   /\ \A r : Waits(r, i)' <=> Waits(r, i)
                   /\ Granted(i)' <=> Granted(i)
        BY <1>4, Zenon DEF Queued, Waits, Granted
      <3> QED
        BY <1>4, <1>5, <1>6, <2>1, <3>1, Zenon DEF Asked
    <2> QED
      BY <1>5, <1>6, <2>2, Zenon DEF AskedInv
  <1> QED
    BY <1>8, <1>9, <1>10, Zenon DEF SizeInv

\* A suite is given back.
LEMMA FreeSuiteSizes ==
  ASSUME ShootInv, ~ crossed, SizeInv, FreeSuite
  PROVE  SizeInv'
  <1>1. ShootTypes /\ CallInv
    BY Zenon DEF ShootInv
  <1>2. call.pc = "free"
    BY Zenon DEF FreeSuite
  <1>3. Good(call) /\ call \in Calls
    BY <1>1, <1>2, CallIs, Zenon DEF ShootPcs
  <1>4. call' = [call EXCEPT !.pc = "freewait"] /\ UNCHANGED <<own, suites>>
    BY Zenon DEF FreeSuite
  <1>5. call'.pc = "freewait" /\ call'.next = call.next /\ call'.backup = call.backup
    BY <1>3, <1>4, StepIs
  <1>6. SameTerms(call, call')
    BY <1>3, <1>4, StepTerms
  <1>7. CapInv /\ Fair(call, suites, Owned)
    BY <1>3, CallFair, Zenon
  <1>8. Sized(call')
    BY <1>5, <1>7, SizedAnyway, Zenon DEF Fair, Sized
  <1>9. Fair(call', suites, Owned)
    BY <1>5, <1>6, <1>7, <1>8, FairKept, Zenon
  <1> QED
    BY <1>4, <1>5, <1>7, <1>9, CallSizes, Zenon

\* freeCBR has told the caller.
LEMMA FreeWaitSizes ==
  ASSUME ShootInv, ~ crossed, SizeInv, FreeWait
  PROVE  SizeInv'
  <1>1. ShootTypes /\ CallInv
    BY Zenon DEF ShootInv
  <1>2. call.pc = "freewait"
    BY Zenon DEF FreeWait
  <1>3. Good(call) /\ call \in Calls
    BY <1>1, <1>2, CallIs, Zenon DEF ShootPcs
  <1>4. call' = Freed(call) /\ UNCHANGED <<own, suites>>
    BY Zenon DEF FreeWait, rscVars
  <1>5. CapInv /\ Fair(call, suites, Owned)
    BY <1>3, CallFair, Zenon
  <1>6. Fair(Freed(call), suites, Owned)
    BY <1>2, <1>3, <1>5, FreedFair, Zenon
  <1>7. call'.pc \in {"alloc", "free", "return"}
    BY <1>2, <1>3, <1>4, FreedIs
  <1> QED
    BY <1>4, <1>5, <1>6, <1>7, CallSizes, Zenon

\* The call returns.
LEMMA ReturnSizes ==
  ASSUME SizeInv, Return
  PROVE  SizeInv'
  <1>1. call' = NoCall /\ suites' = suites /\ CapInv
    BY Zenon DEF Return, rscVars, SizeInv
  <1>2. NoCall \notin Calls
    <2>1. \A c \in Calls : c.pc \in ShootPcs
      BY Zenon DEF Calls, ShootPcs
    <2> QED
      BY <2>1, NoCallPc DEF ShootPcs
  <1> QED
    BY <1>1, <1>2, NoCallSizes, Zenon

\* A call begins: it has found nothing yet, and has no backup.
LEMMA NewFair ==
  ASSUME NEW c \in Calls, NEW f, NEW w, c.max_size = 0, c.backup = NoSuite, c.next # "test",
         c.next = "backup" => c.size = BackupOf(c)
  PROVE  Fair(c, f, w)
  BY Zenon DEF Fair, Sized, Backed, Bounded

\* An allocation begins.
LEMMA MallocSizes ==
  ASSUME CapInv, NEW t, NEW c \in Calls, Begin(t, c), own' = own, c.pc = "alloc",
         c.max_size = 0, c.backup = NoSuite, c.next # "test",
         c.next = "backup" => c.size = BackupOf(c)
  PROVE  SizeInv'
  <1>1. call' = c /\ suites' = suites
    BY Zenon DEF Begin, rscVars
  <1>2. Fair(c, suites, Owned)
    BY NewFair, Zenon
  <1> QED
    BY <1>1, <1>2, CallSizes, Zenon

\* A free begins: callers hold less, but the call has found nothing.
LEMMA FreeSizes ==
  ASSUME ShootTypes, CapInv, NEW t \in Tasks, NEW m \in NoneOr(Suites), shoot_free_suite(t, m)
  PROVE  SizeInv'
  <1>1. call' = [NewCall EXCEPT !.pc = "free", !.suite = m] /\ suites' = suites
    BY Zenon DEF shoot_free_suite, Begin, rscVars
  <1>2. /\ call' \in Calls /\ call'.pc = "free" /\ call'.next = "user"
        /\ call'.backup = NoSuite
    BY <1>1, NewCallIs DEF Calls, NoneOr
  <1>3. call'.max_size = 0
    BY <1>1, NewCallIs DEF NewCall
  <1>4. CapInv'
    BY <1>1, SuitesSame, Zenon
  <1>5. SizesInv'
    <2>1. Fair(call', suites', Owned')
      BY <1>2, <1>3, NewFair, Zenon
    <2> QED
      BY <2>1, Zenon DEF SizesInv, Fair
  <1>6. AskedInv'
    BY <1>2, Zenon DEF AskedInv
  <1> QED
    BY <1>4, <1>5, <1>6, Zenon DEF SizeInv

\* A task calls for shoot memory.
LEMMA UseShootSizes ==
  ASSUME ShootInv, SizeInv, NEW t \in Tasks, UseShoot(t)
  PROVE  SizeInv'
  <1>0. ShootTypes /\ CapInv
    BY Zenon DEF ShootInv, SizeInv
  <1>1. ASSUME NEW n \in PlainSizes, shoot_malloc_suite(t, n) PROVE SizeInv'
    <2>1. n \in Nat /\ Backup \in Nat
      BY SizesAssumption, ShootAssumption
    <2>2. PICK c : c = IF n # 0 THEN [NewCall EXCEPT !.size = n]
                       ELSE [NewCall EXCEPT !.size = Backup, !.next = "backup"]
      BY Zenon
    <2>3. c \in Calls /\ c.pc = "alloc" /\ c.backup = NoSuite
      BY <2>1, <2>2, NewCallIs DEF Calls
    <2>4. c.max_size = 0 /\ c.next # "test" /\ (c.next = "backup" => c.size = BackupOf(c))
      BY <2>1, <2>2 DEF NewCall, BackupOf
    <2>5. Begin(t, c) /\ own' = own
      BY <1>1, <2>2, Zenon DEF shoot_malloc_suite
    <2> QED
      BY <1>0, <2>3, <2>4, <2>5, MallocSizes, Zenon
  <1>2. ASSUME NEW n \in ContigSizes, shoot_malloc_suite_contig(t, n) PROVE SizeInv'
    <2>1. n \in Nat
      BY SizesAssumption
    <2>2. PICK c : c = [NewCall EXCEPT !.contig = TRUE, !.requested = n, !.size = 1,
                                       !.next = IF n = 1 THEN "user" ELSE "backup"]
      BY Zenon
    <2>3. c \in Calls /\ c.pc = "alloc" /\ c.backup = NoSuite
      BY <2>1, <2>2, NewCallIs DEF Calls
    <2>4. c.max_size = 0 /\ c.next # "test" /\ (c.next = "backup" => c.size = BackupOf(c))
      BY <2>1, <2>2 DEF NewCall, BackupOf
    <2>5. Begin(t, c) /\ own' = own
      BY <1>2, <2>2, Zenon DEF shoot_malloc_suite_contig
    <2> QED
      BY <1>0, <2>3, <2>4, <2>5, MallocSizes, Zenon
  <1>3. ASSUME NEW m, shoot_free_suite(t, m), m \in own[t] \/ m = NoSuite PROVE SizeInv'
    <2>1. m \in NoneOr(Suites)
      BY <1>0, <1>3, Zenon DEF ShootTypes, NoneOr
    <2> QED
      BY <1>0, <1>3, <2>1, FreeSizes, Zenon
  <1> QED
    BY <1>1, <1>2, <1>3, Zenon DEF UseShoot

\* Nothing happens to shoot memory.
LEMMA SizesUnmoved ==
  ASSUME SizeInv, UNCHANGED shootVars
  PROVE  SizeInv'
  <1>1. UNCHANGED <<mem_sem, call, suite_info, own, queue, waiting, suites, granting, crossed>>
    BY Zenon DEF shootVars, rscVars
  <1>2. CapInv'
    BY <1>1, SuitesSame, Zenon DEF SizeInv
  <1>3. Owned' = Owned
    BY <1>1, OwnedStays, Zenon
  <1>4. SizesInv => SizesInv'
    BY <1>1, <1>3, Zenon DEF SizesInv
  <1>5. AskedInv => AskedInv'
    <2>1. \A i, n : Asked(i, n) => Asked(i, n)'
      BY <1>1, Zenon DEF Asked, Queued, Waits, Granted
    <2> QED
      BY <1>1, <2>1, Zenon DEF AskedInv
  <1> QED
    BY <1>1, <1>2, <1>4, <1>5, Zenon DEF SizeInv

-----------------------------------------------------------------------------
(* What autodetection finds can be had                                     *)

\* The initial state: nothing is given out.
LEMMA SizeInvInit == Init => SizeInv
  <1> SUFFICES ASSUME Init PROVE SizeInv
    BY Zenon
  <1>1. call = NoCall /\ suites = [s \in {} |-> 0]
    BY Zenon DEF Init, ShootInit
  <1>2. call \notin Calls
    BY <1>1, NoCallPc, Zenon DEF Calls
  <1>3. CapInv
    <2>1. DOMAIN suites = {}
      BY <1>1
    <2>2. Mem(suites, DOMAIN suites) = {}
      BY <2>1 DEF Mem
    <2>3. IsFiniteSet(Mem(suites, DOMAIN suites)) /\ Cardinality(Mem(suites, DOMAIN suites)) = 0
      BY <2>2, FS_EmptySet, Zenon
    <2>4. 0 <= Total
      BY ShootAssumption
    <2> QED
      BY <2>3, <2>4, CapIs, Zenon
  <1> QED
    BY <1>2, <1>3, Zenon DEF SizeInv, SizesInv, AskedInv

\* A call for SRM memory leaves the suites alone.
LEMMA SrmSizes ==
  ASSUME SizeInv, suites' = suites, call' = NoCall \/ \E p \in SrmPcs : call' = SrmCall(p)
  PROVE  SizeInv'
  <1>1. call'.pc \notin ShootPcs
    BY NoCallPc, SrmCallPc, Zenon DEF ShootPcs, SrmPcs
  <1>2. call' \notin Calls
    BY <1>1, Zenon DEF Calls, ShootPcs
  <1> QED
    BY <1>2, NoCallSizes, Zenon DEF SizeInv

\* Together with ShootInv, SizeInv is inductive.
LEMMA SizeInvStep == ShootInv /\ SizeInv /\ [Next]_vars => SizeInv'
  <1> SUFFICES ASSUME ShootInv, SizeInv, [Next]_vars PROVE SizeInv'
    BY Zenon
  <1>1. CASE UNCHANGED vars
    BY <1>1, SizesUnmoved, Zenon DEF vars
  <1>2. CASE ~ crossed /\ Manager
    BY <1>2, GrantNewSizes, GrantWaitingSizes, LateCBRSizes, AllocCBRSizes, ReleaseSizes, Zenon
       DEF Manager, RscMgr
  <1>3. CASE ~ crossed /\ Caller
    BY <1>3, RequestSizes, TakeSizes, TimeoutSizes, GiveUpSizes, FreeSuiteSizes, FreeWaitSizes,
       ReturnSizes, Zenon DEF Caller
  <1>4. CASE SrmCaller
    <2>1. CASE SrmGet
      BY <2>1, SizesUnmoved, Zenon DEF SrmGet
    <2>2. CASE SrmCheck \/ SrmTimeout \/ SrmGotAll \/ SrmPick
      <3>1. "srm_pick" \in SrmPcs /\ "srm_loop" \in SrmPcs
        BY Zenon DEF SrmPcs
      <3>2. suites' = suites
        BY <2>2, Zenon DEF SrmCheck, SrmTimeout, SrmGotAll, SrmPick, shootRest, rscVars
      <3>3. call' = NoCall \/ \E p \in SrmPcs : call' = SrmCall(p)
        BY <2>2, <3>1, Zenon DEF SrmCheck, SrmTimeout, SrmGotAll, SrmPick
      <3> QED
        BY <3>2, <3>3, SrmSizes, Zenon
    <2> QED
      BY <1>4, <2>1, <2>2, Zenon DEF SrmCaller
  <1>5. CASE JobState
    BY <1>5, SizesUnmoved, Zenon DEF JobState
  <1>6. ASSUME NEW t \in Tasks, UseShoot(t) PROVE SizeInv'
    BY <1>6, UseShootSizes, Zenon
  <1>7. ASSUME NEW t \in Tasks, UseSrm(t) PROVE SizeInv'
    <2>1. CASE srm_free_suite(t)
      <3>1. UNCHANGED shootVars
        BY <2>1, Zenon DEF srm_free_suite, shootRest, shootVars
      <3> QED
        BY <3>1, SizesUnmoved, Zenon
    <2>2. ASSUME NEW n, srm_malloc_suite(t, n) PROVE SizeInv'
      <3>1. "srm_pick" \in SrmPcs /\ "srm_sleep" \in SrmPcs
        BY Zenon DEF SrmPcs
      <3>2. suites' = suites
        BY <2>2, Zenon DEF srm_malloc_suite, shootRest, rscVars
      <3>3. \E p \in SrmPcs : call' = SrmCall(p)
        BY <2>2, <3>1, Zenon DEF srm_malloc_suite
      <3> QED
        BY <3>2, <3>3, SrmSizes, Zenon
    <2> QED
      BY <1>7, <2>1, <2>2, Zenon DEF UseSrm
  <1> QED
    BY <1>1, <1>2, <1>3, <1>4, <1>5, <1>6, <1>7, Zenon DEF Next, InCall

\* All that is shown of exmem.c holds in every reachable state.
LEMMA ExMemInvariance == Spec => [](LockInv /\ Holder /\ SrmInv /\ ShootInv /\ SizeInv)
  <1>1. Init => Holder
    BY Zenon DEF Init, ShootInit, Holder
  <1> QED
    BY <1>1, LockInit, LockStep, HolderStep, SrmInvInit, SrmInvStep, ShootInvInit, ShootInvStep,
       SizeInvInit, SizeInvStep, PTL DEF Spec

\* shoot_malloc_autodetect and its contiguous twin never ask for more than can be
\* had besides what others hold, nor for a larger chunk than there is, for any
\* tasks and any sizes and whatever times out, as long as no answer crosses the
\* end of its wait.
THEOREM DetectedFits == Spec => []AutodetectFits
  <1>1. ASSUME ShootInv, SizeInv PROVE AutodetectFits
    <2> SUFFICES ASSUME ~ crossed, call.pc = "alloc", call.next \in {"user", "full"},
                        call.max_size # 0
                 PROVE  call.size + Owned <= Total /\ (call.contig => call.size <= Chunk)
      BY Zenon DEF AutodetectFits
    <2>1. call \in Calls
      BY <1>1, CallIs, Zenon DEF ShootInv, ShootPcs
    <2>2. CapInv /\ Fair(call, suites, Owned)
      BY <1>1, <2>1, CallFair, Zenon
    <2>3. Final(call)
      BY Zenon DEF Final
    <2>4. /\ call.size <= call.max_size /\ call.max_size + Owned <= Total
          /\ call.contig => call.max_size <= Chunk
      BY <2>2, <2>3, Zenon DEF Fair, Sized, Bounded
    <2>5. call.size \in Nat /\ call.max_size \in Nat /\ Owned \in Nat
      BY <1>1, <2>1, <2>2, Sizes, OwnedIs, Zenon
    <2>6. Total \in Nat /\ Chunk \in Nat
      BY ShootAssumption
    <2> QED
      BY <2>4, <2>5, <2>6
  <1> QED
    BY <1>1, ExMemInvariance, PTL

\* exmem.c and RscMgr keep their types; in particular no more memory is given out
\* than there is, and mem_sem is taken exactly while a call is in progress.
THEOREM ExMemTyped == Spec => []TypeOK
  <1>1. ASSUME LockInv, Holder, SrmInv, ShootInv, SizeInv PROVE TypeOK
    <2>1. ShootTypes /\ CapInv /\ SrmTypeOK
      BY <1>1, Zenon DEF ShootInv, SizeInv, SrmInv
    <2>2. Available \in 0..Total
      <3>1. PICK n \in Nat : Measured(Mem(suites, DOMAIN suites), n) /\ n <= Total
        BY <2>1, CapMeasured, Zenon
      <3>2. Available = Total - n
        BY <3>1, CapIs, Zenon DEF Measured
      <3>3. Total \in Nat
        BY ShootAssumption
      <3> QED
        BY <3>1, <3>2, <3>3
    <2>3. mem_sem \in Tasks \cup {NoTask} /\ (call = NoCall <=> mem_sem = NoTask)
      BY <1>1, Zenon DEF Holder, LockInv, CallOK
    <2>4. \A i \in DOMAIN suite_info :
             suite_info[i] \in [ret : Suites \cup {NoSuite}, timed_out : BOOLEAN]
      BY <2>1, Zenon DEF ShootTypes, NoneOr
    <2>5. waiting \subseteq Requests
      BY <2>1, Zenon DEF ShootTypes, Requests
    <2>6. ShootTypeOK
      BY <2>1, <2>2, <2>3, <2>4, <2>5, Zenon DEF ShootTypeOK, ShootTypes, NoneOr
    <2> QED
      BY <2>1, <2>6, Zenon DEF TypeOK
  <1> QED
    BY <1>1, ExMemInvariance, PTL
=============================================================================
