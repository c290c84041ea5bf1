----------------------------- MODULE ExMemProofs ----------------------------
(***************************************************************************)
(* What the steps of a call do to SRM buffers and the shutter lock, then   *)
(* what those of RscMgr, of its callbacks and of a call do to the suites   *)
(* of the shooting buffer, for any number of tasks, suites and buffers.    *)
(***************************************************************************)
EXTENDS ExMemInvariant, TLAPS

\* What matters of a call for shoot memory.
ShootCall(c) ==
    /\ {"pc", "next"} \subseteq DOMAIN c
    /\ c.pc \in ShootPcs
    /\ c.next \in {"user", "backup", "test", "full"}
    /\ c.pc \in {"free", "freewait"} => c.next # "full"

\* Whether and by whom the shutter is locked.
Locked ==
    /\ call.pc \in {"srm_sleep", "srm_loop"} => shutter_lock
    /\ shutter_lock => srm_allocated \/ raced \/ call.pc \in {"srm_sleep", "srm_loop"}

\* Which call is in progress, if any.
CallOK ==
    /\ mem_sem = NoTask <=> call = NoCall
    /\ call = NoCall \/ ShootCall(call) \/ call.pc \in SrmPcs

\* The inductive invariant.
LockInv == CallOK /\ Locked

\* No call is no step of one.
LEMMA NoCallPc == NoCall.pc = "none"
  BY DEF NoCall

\* A call for SRM memory is at its step.
LEMMA SrmCallPc == \A p : SrmCall(p).pc = p
  BY DEF SrmCall

\* The initial state.
LEMMA LockInit == Init => LockInv
  BY NoCallPc, Zenon DEF Init, ShootInit, SrmInit, LockInv, CallOK, Locked

-----------------------------------------------------------------------------
(* Calls for shoot memory stay such calls                                  *)

\* What the helpers return.
LEMMA NextCall ==
  ASSUME NEW c, ShootCall(c), NEW n \in {"user", "backup", "test", "full"}, NEW x
  PROVE  /\ ShootCall(Allocate(c, x, n))
         /\ n # "full" => ShootCall(Free(c, x, n))
         /\ ShootCall(FreeBackup(c))
         /\ ShootCall(ReturnSuite(c, x))
         /\ ShootCall([c EXCEPT !.tested = x]) /\ ShootCall([c EXCEPT !.backup = x])
         /\ ShootCall([c EXCEPT !.max_size = x])
  BY DEF ShootCall, ShootPcs, Allocate, Free, FreeBackup, ReturnSuite

\* After an allocation that gave s, or nothing.
LEMMA AllocatedCall ==
  ASSUME NEW c, ShootCall(c), NEW s
  PROVE  ShootCall(Allocated(c, s))
  <1>1. \A d : ShootCall(d) => ShootCall(Detected(d))
    BY NextCall, Zenon DEF Detected
  <1>2. \A d, x : ShootCall(d) => ShootCall(Test(d, x))
    BY NextCall, Zenon DEF Test
  <1>3. CASE c.next = "backup"
    BY <1>1, <1>2, <1>3, NextCall, Zenon DEF Allocated
  <1>4. CASE c.next = "test"
    BY <1>4, NextCall, Zenon DEF Allocated
  <1>5. CASE c.next \in {"user", "full"}
    BY <1>5, NextCall, Zenon DEF Allocated
  <1> QED
    BY <1>3, <1>4, <1>5, Zenon DEF ShootCall

\* After a free.
LEMMA FreedCall ==
  ASSUME NEW c, ShootCall(c), c.pc = "freewait"
  PROVE  ShootCall(Freed(c))
  <1>1. \A d, x : ShootCall(d) => ShootCall(Test(d, x))
    BY NextCall, Zenon DEF Test
  <1>2. \A d : ShootCall(d) => ShootCall(Detected(d))
    BY NextCall, Zenon DEF Detected
  <1>3. c.next \in {"test", "backup", "user"}
    BY Zenon DEF ShootCall
  <1> QED
    BY <1>1, <1>2, <1>3, NextCall, Zenon DEF Freed

\* A task that calls for shoot memory finds no call in progress and starts one.
LEMMA BeginCall ==
  ASSUME NEW t \in Tasks, UseShoot(t)
  PROVE  mem_sem = NoTask /\ mem_sem' = t /\ ShootCall(call')
  <1>1. NewCall.pc = "alloc" /\ NewCall.next = "user"
        /\ {"pc", "next", "size", "contig", "requested", "suite"} \subseteq DOMAIN NewCall
    BY DEF NewCall
  <1>2. ASSUME NEW n, shoot_malloc_suite(t, n)
        PROVE  mem_sem = NoTask /\ mem_sem' = t /\ ShootCall(call')
    <2>1. ShootCall([NewCall EXCEPT !.size = n])
      BY <1>1 DEF ShootCall, ShootPcs
    <2>2. ShootCall([NewCall EXCEPT !.size = Backup, !.next = "backup"])
      BY <1>1 DEF ShootCall, ShootPcs
    <2> QED
      BY <1>2, <2>1, <2>2, Zenon DEF shoot_malloc_suite, Begin
  <1>3. ASSUME NEW n, shoot_free_suite(t, n)
        PROVE  mem_sem = NoTask /\ mem_sem' = t /\ ShootCall(call')
    <2>1. ShootCall([NewCall EXCEPT !.pc = "free", !.suite = n])
      BY <1>1 DEF ShootCall, ShootPcs
    <2> QED
      BY <1>3, <2>1, Zenon DEF shoot_free_suite, Begin
  <1>4. ASSUME NEW n, shoot_malloc_suite_contig(t, n)
        PROVE  mem_sem = NoTask /\ mem_sem' = t /\ ShootCall(call')
    <2> DEFINE c == [NewCall EXCEPT !.contig = TRUE, !.requested = n, !.size = 1,
                                    !.next = IF n = 1 THEN "user" ELSE "backup"]
    <2>1. ShootCall(c)
      BY <1>1 DEF ShootCall, ShootPcs
    <2> QED
      BY <1>4, <2>1, Zenon DEF Begin, shoot_malloc_suite_contig
  <1> QED
    BY <1>2, <1>3, <1>4, Zenon DEF UseShoot

\* A step of a call for shoot memory is one.
LEMMA CallerIs ==
  ASSUME CallOK, Caller
  PROVE  ShootCall(call) /\ call.pc \in ShootPcs /\ mem_sem # NoTask
  <1>1. call.pc \in ShootPcs
    BY Zenon DEF Caller, Request, Take, Timeout, GiveUp, FreeSuite, FreeWait, Return, ShootPcs
  <1> QED
    BY <1>1, NoCallPc, Zenon DEF CallOK, ShootPcs, SrmPcs

\* The call goes on, or returns and gives mem_sem back.
LEMMA CallerCall ==
  ASSUME CallOK, Caller
  PROVE  \/ mem_sem' = mem_sem /\ mem_sem # NoTask /\ ShootCall(call')
         \/ mem_sem' = NoTask /\ call' = NoCall
  <1>1. ShootCall(call) /\ mem_sem # NoTask
    BY CallerIs, Zenon
  <1>2. CASE Request
    BY <1>1, <1>2 DEF Request, ShootCall, ShootPcs
  <1>3. CASE Take \/ GiveUp
    <2>1. PICK s : call' = Allocated(call, s) /\ mem_sem' = mem_sem
      BY <1>3, Zenon DEF Take, GiveUp
    <2> QED
      BY <1>1, <2>1, AllocatedCall, Zenon
  <1>4. CASE Timeout
    BY <1>1, <1>4, Zenon DEF Timeout, ShootCall, ShootPcs
  <1>5. CASE FreeSuite
    BY <1>1, <1>5 DEF FreeSuite, ShootCall, ShootPcs
  <1>6. CASE FreeWait
    BY <1>1, <1>6, FreedCall, Zenon DEF FreeWait
  <1>7. CASE Return
    BY <1>7, Zenon DEF Return
  <1> QED
    BY <1>2, <1>3, <1>4, <1>5, <1>6, <1>7, Zenon DEF Caller

-----------------------------------------------------------------------------
(* The lock                                                                *)

\* Steps that concern shoot memory only.
LEMMA ShootStep ==
  ASSUME LockInv,
         UNCHANGED srmVars,
         \/ UNCHANGED <<mem_sem, call>>
         \/ call.pc \notin {"srm_sleep", "srm_loop"} /\ ShootCall(call') /\ mem_sem' # NoTask
         \/ call.pc \notin {"srm_sleep", "srm_loop"} /\ call' = NoCall /\ mem_sem' = NoTask
  PROVE  LockInv'
  <1>1. /\ shutter_lock' = shutter_lock /\ raced' = raced
        /\ srm_allocated' = srm_allocated
    BY Zenon DEF srmVars
  <1>2. CASE UNCHANGED <<mem_sem, call>>
    BY <1>1, <1>2, Zenon DEF LockInv, CallOK, Locked, ShootCall
  <1>3. CASE call.pc \notin {"srm_sleep", "srm_loop"} /\ ShootCall(call') /\ mem_sem' # NoTask
    <2>1. call'.pc \in ShootPcs
      BY <1>3, Zenon DEF ShootCall
    <2>2. call'.pc \notin {"srm_sleep", "srm_loop", "none"}
      BY <2>1, Zenon DEF ShootPcs
    <2>3. call' # NoCall
      BY <2>2, NoCallPc, Zenon
    <2> QED
      BY <1>1, <1>3, <2>2, <2>3, Zenon DEF LockInv, CallOK, Locked
  <1>4. CASE call.pc \notin {"srm_sleep", "srm_loop"} /\ call' = NoCall /\ mem_sem' = NoTask
    BY <1>1, <1>4, NoCallPc, Zenon DEF LockInv, CallOK, Locked
  <1> QED
    BY <1>2, <1>3, <1>4, Zenon

\* A task asks for SRM buffers: the shutter is locked unless there is nothing to
\* allocate.
LEMMA SrmMallocStep ==
  ASSUME LockInv, NEW t \in Tasks, NEW n, srm_malloc_suite(t, n)
  PROVE  LockInv'
  <1>1. call.pc = "none" /\ t # NoTask
    BY TasksAssumption, NoCallPc, Zenon DEF LockInv, CallOK, srm_malloc_suite
  <1>2. mem_sem' = t /\ srm_allocated' = srm_allocated /\ raced' = raced
    BY Zenon DEF srm_malloc_suite
  <1>3. \/ call' = SrmCall("srm_pick") /\ shutter_lock' = shutter_lock
        \/ call' = SrmCall("srm_sleep") /\ shutter_lock' = TRUE
    BY Zenon DEF srm_malloc_suite
  <1>4. call'.pc \in SrmPcs /\ call' # NoCall
    <2>1. call'.pc \in {"srm_pick", "srm_sleep"}
      BY <1>3, SrmCallPc, Zenon
    <2>2. call'.pc # "none"
      BY <2>1, Zenon
    <2> QED
      BY <2>1, <2>2, NoCallPc, Zenon DEF SrmPcs
  <1>5. CallOK'
    BY <1>1, <1>2, <1>4, Zenon DEF CallOK, SrmPcs
  <1>6. CASE call' = SrmCall("srm_pick") /\ shutter_lock' = shutter_lock
    <2>1. call'.pc = "srm_pick"
      BY <1>6, SrmCallPc, Zenon
    <2> QED
      BY <1>1, <1>2, <1>5, <1>6, <2>1, Zenon DEF LockInv, Locked
  <1>7. CASE call' = SrmCall("srm_sleep") /\ shutter_lock' = TRUE
    <2>1. call'.pc = "srm_sleep"
      BY <1>7, SrmCallPc, Zenon
    <2> QED
      BY <1>1, <1>2, <1>5, <1>7, <2>1, Zenon DEF LockInv, Locked
  <1> QED
    BY <1>3, <1>6, <1>7, Zenon

\* A task returns SRM buffers: if they go back to Canon's code the shutter is
\* unlocked.
LEMMA SrmFreeStep ==
  ASSUME LockInv, NEW t \in Tasks, srm_free_suite(t)
  PROVE  LockInv'
  <1>1. mem_sem' = mem_sem /\ call' = call /\ call = NoCall
    BY Zenon DEF LockInv, CallOK, srm_free_suite
  <1>2. call.pc = "none" /\ call'.pc = "none"
    BY <1>1, NoCallPc, Zenon
  <1>3. \/ srm_allocated' = srm_allocated /\ shutter_lock' = shutter_lock /\ raced' = raced
        \/ shutter_lock' = FALSE
    BY Zenon DEF srm_free_suite
  <1>4. CallOK'
    BY <1>1, Zenon DEF LockInv, CallOK, NoCall
  <1>5. Locked'
    <2>1. CASE srm_allocated' = srm_allocated /\ shutter_lock' = shutter_lock /\ raced' = raced
      BY <1>1, <1>2, <2>1, Zenon DEF LockInv, Locked
    <2>2. CASE shutter_lock' = FALSE
      BY <1>1, <1>2, <2>2, Zenon DEF LockInv, Locked
    <2> QED
      BY <1>3, <2>1, <2>2, Zenon
  <1> QED
    BY <1>4, <1>5, Zenon DEF LockInv

\* The allocation of SRM buffers, from the second check to its end.
LEMMA SrmCallerStep ==
  ASSUME LockInv, SrmCaller
  PROVE  LockInv'
  <1>0. call.pc \in SrmPcs
    BY Zenon DEF SrmPcs, SrmCaller, SrmCheck, SrmGet, SrmTimeout, SrmGotAll, SrmPick
  <1>1. call.pc \in SrmPcs /\ mem_sem # NoTask
    BY <1>0, NoCallPc, Zenon DEF LockInv, CallOK, SrmPcs
  <1>2. CASE SrmCheck
    <2>1. /\ call.pc = "srm_sleep" /\ UNCHANGED <<mem_sem, shutter_lock, srm_allocated>>
          /\ \/ call' = SrmCall("srm_pick") /\ raced' = TRUE
             \/ call' = SrmCall("srm_loop") /\ raced' = raced
      BY <1>2, Zenon DEF SrmCheck
    <2> QED
      BY <1>1, <2>1, SrmCallPc, NoCallPc, Zenon DEF LockInv, CallOK, Locked, SrmPcs
  <1>3. CASE SrmGet
    <2>1. UNCHANGED <<mem_sem, call, srm_allocated, shutter_lock, raced, job_state>>
      BY <1>3, Zenon DEF SrmGet, shootVars
    <2> QED
      BY <2>1, Zenon DEF LockInv, CallOK, Locked, ShootCall
  <1>4. CASE SrmTimeout
    <2>1. /\ mem_sem' = mem_sem /\ call' = SrmCall("srm_pick") /\ shutter_lock' = FALSE
      BY <1>4, Zenon DEF SrmTimeout
    <2> QED
      BY <1>1, <2>1, Zenon DEF LockInv, CallOK, Locked, SrmCall, SrmPcs, NoCall
  <1>5. CASE SrmGotAll
    <2>1. /\ mem_sem' = mem_sem /\ call' = SrmCall("srm_pick") /\ srm_allocated' = TRUE
      BY <1>5, Zenon DEF SrmGotAll
    <2> QED
      BY <1>1, <2>1, Zenon DEF LockInv, CallOK, Locked, SrmCall, SrmPcs, NoCall
  <1>6. CASE SrmPick
    <2>1. /\ call.pc = "srm_pick" /\ mem_sem' = NoTask /\ call' = NoCall
          /\ UNCHANGED <<srm_allocated, shutter_lock, raced, job_state>>
      BY <1>6, Zenon DEF SrmPick
    <2> QED
      BY <2>1, Zenon DEF LockInv, CallOK, Locked, NoCall
  <1> QED
    BY <1>2, <1>3, <1>4, <1>5, <1>6, Zenon DEF SrmCaller

\* A picture begins or ends.
LEMMA JobStateStep ==
  ASSUME LockInv, JobState
  PROVE  LockInv'
  <1>1. UNCHANGED <<mem_sem, call, srm_allocated, shutter_lock, raced>>
    BY Zenon DEF JobState, shootVars
  <1> QED
    BY <1>1, Zenon DEF LockInv, CallOK, Locked, ShootCall

\* RscMgr's task does not touch the call.
LEMMA ManagerCall ==
  ASSUME RscMgr
  PROVE  UNCHANGED <<mem_sem, call>>
  BY Zenon DEF RscMgr, GrantNew, GrantWaiting, Grant, LateCBR, AllocCBR, Release

\* The invariant is inductive.
LEMMA LockStep == LockInv /\ [Next]_vars => LockInv'
  <1> SUFFICES ASSUME LockInv, [Next]_vars PROVE LockInv'
    BY Zenon
  <1>1. CASE UNCHANGED vars
    BY <1>1, ShootStep, Zenon DEF vars, shootVars
  <1>2. CASE Manager
    BY <1>2, ManagerCall, ShootStep, Zenon DEF Manager
  <1>3. CASE Caller /\ UNCHANGED srmVars
    <2>1. call.pc \notin {"srm_sleep", "srm_loop"}
      BY <1>3, CallerIs, Zenon DEF LockInv, ShootPcs
    <2> QED
      BY <1>3, <2>1, CallerCall, ShootStep, Zenon DEF LockInv
  <1>4. ASSUME NEW t \in Tasks, UseShoot(t) PROVE LockInv'
    <2>1. mem_sem = NoTask /\ mem_sem' = t /\ ShootCall(call')
      BY <1>4, BeginCall, Zenon
    <2>2. mem_sem' # NoTask /\ call = NoCall /\ UNCHANGED srmVars
      BY <1>4, <2>1, TasksAssumption, Zenon DEF LockInv, CallOK, UseShoot
    <2>3. call.pc \notin {"srm_sleep", "srm_loop"}
      BY <2>2, Zenon DEF NoCall
    <2> QED
      BY <2>1, <2>2, <2>3, ShootStep, Zenon
  <1>5. ASSUME NEW t \in Tasks, UseSrm(t) PROVE LockInv'
    BY <1>5, SrmMallocStep, SrmFreeStep, Zenon DEF UseSrm
  <1> QED
    BY <1>1, <1>2, <1>3, <1>4, <1>5, SrmCallerStep, JobStateStep, Zenon DEF Next, InCall

-----------------------------------------------------------------------------
(* SRM buffers                                                             *)

Has(i) == srm_buffers[i].buffer # 0
Freed1st(i) == srm_buffers[i].use_after_free

\* Place i of srm_buffers is empty or has buffer i; a buffer is used exactly
\* if some task has it, and then one.
PlaceInv ==
    \A i \in 1..COUNT :
        /\ srm_buffers[i].buffer \in {0, i}
        /\ ~ Has(i) => ~ srm_buffers[i].used /\ ~ Freed1st(i)
        /\ srm_buffers[i].used <=> \E t \in Tasks : i \in srm_own[t]
        /\ \A t, u \in Tasks : i \in srm_own[t] /\ i \in srm_own[u] => t = u

\* Canon's code has given out the buffers that are in their places and were not
\* freed, from the first to the last.
OutInv ==
    /\ ~ disorder
    /\ DOMAIN srm_out = {i \in 1..COUNT : Has(i) /\ ~ Freed1st(i)}
    /\ \A b \in DOMAIN srm_out : srm_out[b] = {a \in DOMAIN srm_out : a < b}

\* Place m has a buffer and those behind it have none.
Last(m) == m \in 1..COUNT /\ Has(m) /\ \A i \in 1..COUNT : i > m => ~ Has(i)

\* When there are buffers, and used ones, and how many in the loop.
AllocInv ==
    /\ srm_allocated => \E m : Last(m)
    /\ srm_allocated /\ call.pc # "srm_pick" => \E i \in 1..COUNT : srm_buffers[i].used
    /\ call.pc \in {"srm_sleep", "srm_loop"} => ~ srm_allocated
    /\ ~ srm_allocated => \A i \in 1..COUNT : ~ srm_buffers[i].used /\ ~ Freed1st(i)
    /\ ~ srm_allocated /\ call.pc # "srm_loop" => \A i \in 1..COUNT : ~ Has(i)
    /\ call.pc = "srm_loop" => 
          next_buffer # 0 /\ \A i \in 1..COUNT : Has(i) <=> i < next_buffer

\* The inductive invariant.
SrmInv == SrmTypeOK /\ PlaceInv /\ OutInv /\ AllocInv

\* With buffer i in place i, a set of places is the set of their buffers.
LEMMA PlacesAreBuffers ==
  ASSUME PlaceInv, NEW I \in SUBSET (1..COUNT), \A i \in I : Has(i)
  PROVE  BuffersAt(I) = I
  <1>1. \A i \in I : srm_buffers[i].buffer = i
    BY Zenon DEF PlaceInv, Has
  <1> QED
    BY <1>1, Zenon DEF BuffersAt

\* Nothing but the call and job_state changes.
LEMMA QuietSrm ==
  ASSUME SrmInv, SrmTypeOK',
         UNCHANGED <<srm_allocated, srm_buffers, srm_own, srm_out, disorder>>,
         call'.pc = "srm_sleep" => ~ srm_allocated,
         call.pc \notin {"srm_loop", "srm_pick"}, call'.pc # "srm_loop"
  PROVE  SrmInv'
  <1>1. PlaceInv'
    BY Zenon DEF SrmInv, PlaceInv, Has, Freed1st
  <1>2. OutInv'
    BY Zenon DEF SrmInv, OutInv, Has, Freed1st
  <1>3. AllocInv'
    BY Zenon DEF SrmInv, AllocInv, Last, Has, Freed1st
  <1> QED
    BY <1>1, <1>2, <1>3, Zenon DEF SrmInv

\* The initial state.
LEMMA SrmInvInit == Init => SrmInv
  <1> SUFFICES ASSUME Init PROVE SrmInv
    BY Zenon
  <1>1. /\ srm_allocated = FALSE /\ srm_buffers = [i \in 1..COUNT |-> NoBuffer]
        /\ next_buffer = 0 /\ srm_wanted = 0
        /\ srm_own = [t \in Tasks |-> {}] /\ srm_out = [b \in {} |-> {}] /\ disorder = FALSE
        /\ shutter_lock = FALSE /\ raced = FALSE /\ job_state = FALSE /\ call.pc = "none"
    BY NoCallPc, Zenon DEF Init, ShootInit, SrmInit
  <1>2. \A i \in 1..COUNT : /\ srm_buffers[i].buffer = 0 /\ srm_buffers[i].used = FALSE
                            /\ srm_buffers[i].use_after_free = FALSE
    BY <1>1 DEF NoBuffer
  <1>3. SrmTypeOK
    <2>1. srm_buffers \in [1..COUNT -> [buffer : 0..COUNT, used : BOOLEAN,
                                        use_after_free : BOOLEAN]]
      BY <1>1, SrmAssumption DEF NoBuffer
    <2>2. next_buffer \in 0..(COUNT + 1) /\ srm_wanted \in Wanted \cup {0}
      BY <1>1, SrmAssumption
    <2>3. srm_out \in [DOMAIN srm_out -> SUBSET (1..COUNT)] /\ DOMAIN srm_out \subseteq 1..COUNT
      BY <1>1
    <2>4. srm_own \in [Tasks -> SUBSET (1..COUNT)]
      BY <1>1
    <2> QED
      BY <1>1, <2>1, <2>2, <2>3, <2>4, Zenon DEF SrmTypeOK
  <1>4. PlaceInv
    BY <1>1, <1>2, Zenon DEF PlaceInv, Has, Freed1st
  <1>5. OutInv
    BY <1>1, <1>2 DEF OutInv, Has, Freed1st
  <1>6. AllocInv
    BY <1>1, <1>2, Zenon DEF AllocInv, Last, Has, Freed1st
  <1> QED
    BY <1>3, <1>4, <1>5, <1>6, Zenon DEF SrmInv

\* A task asks for SRM buffers.
LEMMA SrmMallocKeeps ==
  ASSUME LockInv, SrmInv, NEW t \in Tasks, NEW n \in Wanted, srm_malloc_suite(t, n)
  PROVE  SrmInv'
  <1>1. call.pc \notin {"srm_loop", "srm_pick"}
    <2>1. call = NoCall
      BY Zenon DEF LockInv, CallOK, srm_malloc_suite
    <2> QED
      BY <2>1, NoCallPc, Zenon
  <1>2. /\ UNCHANGED <<srm_allocated, srm_buffers, next_buffer, srm_own, srm_out, disorder, raced,
                       job_state>>
        /\ srm_wanted' = n
    BY Zenon DEF srm_malloc_suite
  <1>3. \/ call' = SrmCall("srm_pick") /\ shutter_lock' = shutter_lock
        \/ call' = SrmCall("srm_sleep") /\ ~ srm_allocated /\ shutter_lock' = TRUE
    BY Zenon DEF srm_malloc_suite
  <1>4. SrmTypeOK'
    BY <1>2, <1>3, Zenon DEF SrmInv, SrmTypeOK
  <1>5. call'.pc # "srm_loop" /\ (call'.pc = "srm_sleep" => ~ srm_allocated)
    <2>1. call'.pc = "srm_pick" \/ (call'.pc = "srm_sleep" /\ ~ srm_allocated)
      BY <1>3, SrmCallPc, Zenon
    <2> QED
      BY <2>1
  <1> QED
    BY <1>1, <1>2, <1>4, <1>5, QuietSrm, Zenon

\* The second check: the loop starts with no buffers.
LEMMA SrmCheckKeeps ==
  ASSUME SrmInv, SrmCheck
  PROVE  SrmInv'
  <1>1. /\ call.pc = "srm_sleep" /\ UNCHANGED <<srm_allocated, srm_wanted, srm_own, srm_out, disorder,
                                              shutter_lock, job_state>>
    BY Zenon DEF SrmCheck
  <1>2. CASE srm_allocated \/ job_state
    <2>1. call' = SrmCall("srm_pick") /\ raced' = TRUE /\ UNCHANGED <<srm_buffers, next_buffer>>
      BY <1>2, Zenon DEF SrmCheck
    <2>2. SrmTypeOK'
      BY <1>1, <2>1, Zenon DEF SrmInv, SrmTypeOK
    <2>3. call'.pc = "srm_pick"
      BY <2>1, SrmCallPc, Zenon
    <2> QED
      BY <1>1, <2>1, <2>2, <2>3, QuietSrm, Zenon
  <1>3. CASE ~ (srm_allocated \/ job_state)
    <2>1. /\ call' = SrmCall("srm_loop") /\ next_buffer' = 1 /\ raced' = raced
          /\ srm_buffers' = [i \in 1..COUNT |-> NoBuffer]
      BY <1>3, Zenon DEF SrmCheck
    <2>2. \A i \in 1..COUNT : /\ srm_buffers'[i].buffer = 0 /\ ~ srm_buffers'[i].used
                              /\ ~ srm_buffers'[i].use_after_free
      BY <2>1 DEF NoBuffer
    <2>3. call'.pc = "srm_loop" /\ ~ srm_allocated
      BY <1>1, <2>1, SrmCallPc, Zenon DEF SrmInv, AllocInv
    <2>4. \A i \in 1..COUNT : ~ Has(i) /\ ~ srm_buffers[i].used /\ ~ Freed1st(i)
      BY <1>1, <2>3, Zenon DEF SrmInv, AllocInv
    <2>5. SrmTypeOK'
      <3>1. srm_buffers' \in [1..COUNT -> [buffer : 0..COUNT, used : BOOLEAN,
                                           use_after_free : BOOLEAN]]
        BY <2>1, SrmAssumption DEF NoBuffer
      <3>2. next_buffer' \in 0..(COUNT + 1)
        BY <2>1, SrmAssumption
      <3> QED
        BY <1>1, <2>1, <3>1, <3>2, Zenon DEF SrmInv, SrmTypeOK
    <2>6. PlaceInv'
      BY <1>1, <2>2, <2>4, Zenon DEF SrmInv, PlaceInv, Has, Freed1st
    <2>7. OutInv'
      BY <1>1, <2>2, <2>4, Zenon DEF SrmInv, OutInv, Has, Freed1st
    <2>8. AllocInv'
      <3>1. \A i \in 1..COUNT : ~ (i < 1)
        OBVIOUS
      <3> QED
        BY <1>1, <2>1, <2>2, <2>3, <3>1 DEF SrmInv, AllocInv, Last, Has, Freed1st
    <2> QED
      BY <2>5, <2>6, <2>7, <2>8, Zenon DEF SrmInv
  <1> QED
    BY <1>2, <1>3, Zenon

\* The first buffer that is not given out.
LEMMA NextFree ==
  ASSUME NEW n \in 1..COUNT, NEW out, out = {i \in 1..COUNT : i < n}
  PROVE  Min(1..COUNT \ out) = n
  <1>1. COUNT \in Nat
    BY SrmAssumption
  <1>2. \A x \in 1..COUNT \ out : n <= x
    BY <1>1
  <1>3. n \in 1..COUNT \ out
    BY <1>1
  <1>4. \A x \in 1..COUNT \ out : (\A y \in 1..COUNT \ out : x <= y) => x = n
    BY <1>1, <1>2, <1>3
  <1> QED
    BY <1>2, <1>3, <1>4, Zenon DEF Min

\* One more buffer in the loop: the next one, which is younger than the others.
LEMMA SrmGetKeeps ==
  ASSUME SrmInv, SrmGet
  PROVE  SrmInv'
  <1> DEFINE n == next_buffer
  <1>1. /\ call.pc = "srm_loop" /\ n <= COUNT /\ call' = call
        /\ UNCHANGED <<srm_allocated, srm_wanted, srm_own, disorder, shutter_lock, raced, job_state>>
    BY Zenon DEF SrmGet, shootVars
  <1>2. n \in 1..COUNT /\ COUNT \in Nat
    <2>1. n \in 0..(COUNT + 1) /\ n # 0
      BY <1>1, Zenon DEF SrmInv, SrmTypeOK, AllocInv
    <2> QED
      BY <1>1, <2>1, SrmAssumption
  <1>3. /\ ~ srm_allocated
        /\ \A i \in 1..COUNT : /\ ~ srm_buffers[i].used /\ ~ Freed1st(i)
                               /\ Has(i) <=> i < n
    BY <1>1, Zenon DEF SrmInv, AllocInv
  <1>4. DOMAIN srm_out = {i \in 1..COUNT : i < n}
    BY <1>3, Zenon DEF SrmInv, OutInv
  <1>5. Min(1..COUNT \ DOMAIN srm_out) = n
    BY <1>2, <1>4, NextFree, Zenon
  <1>6. /\ srm_buffers' = [srm_buffers EXCEPT ![n].buffer = n]
        /\ srm_out' = Extended(srm_out, n, DOMAIN srm_out)
        /\ next_buffer' = n + 1
    BY <1>5, Zenon DEF SrmGet
  <1>7. srm_buffers \in [1..COUNT -> [buffer : 0..COUNT, used : BOOLEAN, use_after_free : BOOLEAN]]
    BY Zenon DEF SrmInv, SrmTypeOK
  <1>8. \A i \in 1..COUNT : /\ srm_buffers'[i].used = srm_buffers[i].used
                            /\ srm_buffers'[i].use_after_free = srm_buffers[i].use_after_free
                            /\ srm_buffers'[i].buffer = IF i = n THEN n ELSE srm_buffers[i].buffer
    BY <1>2, <1>6, <1>7
  <1>9. \A i \in 1..COUNT : (srm_buffers'[i].buffer # 0) <=> i < n + 1
    <2>1. \A i \in 1..COUNT : i < n + 1 <=> (i = n \/ i < n)
      BY <1>2
    <2>2. n # 0
      BY <1>2
    <2> QED
      BY <1>3, <1>8, <2>1, <2>2, Zenon DEF Has
  <1>10. DOMAIN srm_out' = {i \in 1..COUNT : i < n + 1}
         /\ \A b \in DOMAIN srm_out' : srm_out'[b] = IF b = n THEN DOMAIN srm_out ELSE srm_out[b]
    <2>1. DOMAIN srm_out' = DOMAIN srm_out \cup {n}
      BY <1>6 DEF Extended
    <2>2. \A b \in DOMAIN srm_out' : srm_out'[b] = IF b = n THEN DOMAIN srm_out ELSE srm_out[b]
      BY <1>2, <1>4, <1>6 DEF Extended
    <2>3. DOMAIN srm_out' = {i \in 1..COUNT : i < n + 1}
      BY <1>2, <1>4, <2>1
    <2> QED
      BY <2>2, <2>3
  <1>11. SrmTypeOK'
    <2>1. srm_buffers' \in [1..COUNT -> [buffer : 0..COUNT, used : BOOLEAN,
                                         use_after_free : BOOLEAN]]
      BY <1>2, <1>6, <1>7
    <2>2. next_buffer' \in 0..(COUNT + 1)
      BY <1>2, <1>6
    <2>3. srm_out' \in [DOMAIN srm_out' -> SUBSET (1..COUNT)] /\ DOMAIN srm_out' \subseteq 1..COUNT
      <3>1. srm_out \in [DOMAIN srm_out -> SUBSET (1..COUNT)] /\ DOMAIN srm_out \subseteq 1..COUNT
        BY Zenon DEF SrmInv, SrmTypeOK
      <3> QED
        BY <1>2, <1>6, <3>1 DEF Extended
    <2> QED
      BY <1>1, <2>1, <2>2, <2>3, Zenon DEF SrmInv, SrmTypeOK
  <1>12. PlaceInv'
    <2>1. \A i \in 1..COUNT : srm_buffers[i].buffer \in {0, i} /\ srm_buffers'[i].buffer \in {0, i}
      BY <1>8, Zenon DEF SrmInv, PlaceInv
    <2>2. \A i \in 1..COUNT : ~ srm_buffers'[i].used /\ ~ srm_buffers'[i].use_after_free
      BY <1>3, <1>8, Zenon DEF Freed1st
    <2> QED
      BY <1>1, <1>3, <2>1, <2>2, Zenon DEF SrmInv, PlaceInv, Has, Freed1st
  <1>13. OutInv'
    <2>1. \A b \in DOMAIN srm_out : srm_out[b] = {a \in DOMAIN srm_out : a < b}
      BY Zenon DEF SrmInv, OutInv
    <2>2. \A b \in DOMAIN srm_out' : srm_out'[b] = {a \in DOMAIN srm_out' : a < b}
      BY <1>2, <1>4, <1>10, <2>1
    <2>3. DOMAIN srm_out' = {i \in 1..COUNT : srm_buffers'[i].buffer # 0
                                              /\ ~ srm_buffers'[i].use_after_free}
      BY <1>3, <1>8, <1>9, <1>10, Zenon DEF Freed1st
    <2> QED
      BY <1>1, <2>2, <2>3, Zenon DEF SrmInv, OutInv, Has, Freed1st
  <1>14. AllocInv'
    <2>1. n + 1 # 0
      BY <1>2
    <2> QED
      BY <1>1, <1>3, <1>6, <1>8, <1>9, <2>1, Zenon DEF AllocInv, Last, Has, Freed1st
  <1> QED
    BY <1>11, <1>12, <1>13, <1>14, Zenon DEF SrmInv

\* The loop ends with a timeout: the first buffer goes back to Canon's code, and
\* the second is kept.
LEMMA SrmTimeoutKeeps ==
  ASSUME SrmInv, SrmTimeout
  PROVE  SrmInv'
  <1>1. /\ call.pc = "srm_loop" /\ next_buffer \in (SrmLeast + 1)..COUNT
        /\ call' = SrmCall("srm_pick") /\ srm_allocated' = TRUE /\ next_buffer' = 0
        /\ shutter_lock' = FALSE /\ raced' = FALSE
        /\ UNCHANGED <<srm_wanted, srm_own, job_state>>
    BY Zenon DEF SrmTimeout
  <1>2. COUNT \in Nat /\ 1 \in 1..COUNT /\ 2 \in 1..COUNT /\ 1 < next_buffer /\ 2 < next_buffer
    BY <1>1, SrmAssumption
  <1>3. \A i \in 1..COUNT : /\ ~ srm_buffers[i].used /\ ~ Freed1st(i)
                            /\ Has(i) <=> i < next_buffer
    BY <1>1, Zenon DEF SrmInv, AllocInv
  <1>4. PICK first : /\ \/ first = [srm_buffers[1] EXCEPT !.use_after_free = TRUE]
                        \/ first = NoBuffer
                     /\ srm_buffers' = [srm_buffers EXCEPT ![1] = first]
    BY Zenon DEF SrmTimeout
  <1>5. srm_buffers \in [1..COUNT -> [buffer : 0..COUNT, used : BOOLEAN, use_after_free : BOOLEAN]]
    BY Zenon DEF SrmInv, SrmTypeOK
  <1>6. \A i \in 1..COUNT : srm_buffers'[i] = IF i = 1 THEN first ELSE srm_buffers[i]
    BY <1>2, <1>4, <1>5
  <1>7. srm_buffers[1].buffer = 1 /\ srm_buffers[1].used = FALSE /\ Has(2)
    BY <1>2, <1>3, <1>5, Zenon DEF SrmInv, PlaceInv, Has
  <1>8. /\ first \in [buffer : 0..COUNT, used : BOOLEAN, use_after_free : BOOLEAN]
        /\ first.buffer \in {0, 1} /\ first.used = FALSE
        /\ first.buffer # 0 <=> first.use_after_free
    <2>1. CASE first = [srm_buffers[1] EXCEPT !.use_after_free = TRUE]
      <3>1. srm_buffers[1] \in [buffer : 0..COUNT, used : BOOLEAN, use_after_free : BOOLEAN]
        BY <1>2, <1>5, Zenon
      <3>2. first \in [buffer : 0..COUNT, used : BOOLEAN, use_after_free : BOOLEAN]
        BY <2>1, <3>1
      <3>3. first.buffer = 1 /\ first.used = FALSE /\ first.use_after_free = TRUE
        BY <1>7, <2>1, <3>1
      <3>4. 1 # 0
        OBVIOUS
      <3> QED
        BY <3>2, <3>3, <3>4, Zenon
    <2>2. CASE first = NoBuffer
      BY <1>2, <2>2 DEF NoBuffer
    <2> QED
      BY <1>4, <2>1, <2>2, Zenon
  <1>9. BuffersAt({1}) = {1} /\ BuffersAt({}) = {}
    BY <1>7 DEF BuffersAt
  <1>10. /\ DOMAIN srm_out = {i \in 1..COUNT : Has(i)}
         /\ \A b \in DOMAIN srm_out : srm_out[b] = {a \in DOMAIN srm_out : a < b}
         /\ ~ disorder
    BY <1>3, Zenon DEF SrmInv, OutInv
  <1>11. 1 \in DOMAIN srm_out /\ srm_out[1] = {}
    <2>1. 1 \in DOMAIN srm_out
      BY <1>2, <1>3, <1>10, Zenon
    <2>2. \A a \in DOMAIN srm_out : ~ (a < 1)
      BY <1>2, <1>10
    <2> QED
      BY <1>10, <2>1, <2>2
  <1>12. /\ srm_out' = [b \in DOMAIN srm_out \ {1} |-> srm_out[b] \ {1}]
         /\ disorder' = FALSE
    <2>1. {j \in {1} : j < 1} = {}
      OBVIOUS
    <2> QED
      BY <1>7, <1>9, <1>10, <1>11, <2>1, Zenon DEF SrmTimeout, FreeToCanon
  <1>13. SrmTypeOK'
    <2>1. srm_buffers' \in [1..COUNT -> [buffer : 0..COUNT, used : BOOLEAN,
                                         use_after_free : BOOLEAN]]
      BY <1>2, <1>4, <1>5, <1>8
    <2>2. next_buffer' \in 0..(COUNT + 1)
      BY <1>1, <1>2
    <2>3. srm_out' \in [DOMAIN srm_out' -> SUBSET (1..COUNT)] /\ DOMAIN srm_out' \subseteq 1..COUNT
      <3>1. srm_out \in [DOMAIN srm_out -> SUBSET (1..COUNT)] /\ DOMAIN srm_out \subseteq 1..COUNT
        BY Zenon DEF SrmInv, SrmTypeOK
      <3> QED
        BY <1>12, <3>1
    <2> QED
      BY <1>1, <1>12, <2>1, <2>2, <2>3, Zenon DEF SrmInv, SrmTypeOK
  <1>14. PlaceInv'
    <2>1. \A i \in 1..COUNT : srm_buffers'[i].buffer \in {0, i} /\ ~ srm_buffers'[i].used
      BY <1>3, <1>6, <1>8, Zenon DEF SrmInv, PlaceInv
    <2>2. \A i \in 1..COUNT : srm_buffers'[i].buffer = 0 => ~ srm_buffers'[i].use_after_free
      BY <1>3, <1>6, <1>8, Zenon DEF Freed1st
    <2> QED
      BY <1>1, <1>3, <2>1, <2>2, Zenon DEF SrmInv, PlaceInv, Has, Freed1st
  <1>15. OutInv'
    <2>1. DOMAIN srm_out' = {i \in 1..COUNT : srm_buffers'[i].buffer # 0
                                              /\ ~ srm_buffers'[i].use_after_free}
      BY <1>3, <1>6, <1>8, <1>10, <1>12, Zenon DEF Has, Freed1st
    <2>2. \A b \in DOMAIN srm_out' : srm_out'[b] = {a \in DOMAIN srm_out' : a < b}
      BY <1>10, <1>12, Zenon
    <2> QED
      BY <1>12, <2>1, <2>2, Zenon DEF OutInv, Has, Freed1st
  <1>16. AllocInv'
    <2> DEFINE m == next_buffer - 1
    <2>1. /\ m \in 1..COUNT /\ m # 1 /\ m < next_buffer
          /\ \A i \in 1..COUNT : i > m => i # 1 /\ ~ (i < next_buffer)
      BY <1>1, <1>2, SrmAssumption
    <2> HIDE DEF m
    <2>2. srm_buffers'[m].buffer # 0 /\ \A i \in 1..COUNT : i > m => srm_buffers'[i].buffer = 0
      BY <1>3, <1>6, <2>1, Zenon DEF Has
    <2>3. call'.pc = "srm_pick"
      BY <1>1, SrmCallPc, Zenon
    <2> QED
      BY <1>1, <2>1, <2>2, <2>3, Zenon DEF AllocInv, Last, Has, Freed1st
  <1> QED
    BY <1>13, <1>14, <1>15, <1>16, Zenon DEF SrmInv

\* The loop ends with all buffers.
LEMMA SrmGotAllKeeps ==
  ASSUME SrmInv, SrmGotAll
  PROVE  SrmInv'
  <1>1. /\ call.pc = "srm_loop" /\ next_buffer > COUNT
        /\ call' = SrmCall("srm_pick") /\ srm_allocated' = TRUE /\ next_buffer' = 0
        /\ UNCHANGED <<srm_buffers, srm_wanted, srm_own, srm_out, disorder, shutter_lock,
                       raced, job_state>>
    BY Zenon DEF SrmGotAll
  <1>2. /\ COUNT \in 1..COUNT /\ COUNT < next_buffer /\ 0 \in 0..(COUNT + 1)
        /\ \A i \in 1..COUNT : ~ (i > COUNT)
    <2>1. next_buffer \in 0..(COUNT + 1)
      BY Zenon DEF SrmInv, SrmTypeOK
    <2> QED
      BY <1>1, <2>1, SrmAssumption
  <1>3. Has(COUNT)
    BY <1>1, <1>2, Zenon DEF SrmInv, AllocInv
  <1>4. call'.pc = "srm_pick"
    BY <1>1, SrmCallPc, Zenon
  <1>5. SrmTypeOK'
    BY <1>1, <1>2, Zenon DEF SrmInv, SrmTypeOK
  <1>6. PlaceInv'
    BY <1>1, Zenon DEF SrmInv, PlaceInv, Has, Freed1st
  <1>7. OutInv'
    BY <1>1, Zenon DEF SrmInv, OutInv, Has, Freed1st
  <1>8. AllocInv'
    BY <1>1, <1>2, <1>3, <1>4, Zenon DEF AllocInv, Last, Has, Freed1st
  <1> QED
    BY <1>5, <1>6, <1>7, <1>8, Zenon DEF SrmInv

\* Unused buffers are handed out.
LEMMA SrmPickKeeps ==
  ASSUME LockInv, SrmInv, SrmPick, mem_sem \in Tasks, Cardinality({}) = 0
  PROVE  SrmInv'
  <1> DEFINE picked == {i \in Unused : srm_wanted = 0
                            \/ Cardinality({j \in Unused : j > i}) < srm_wanted}
             me == mem_sem
  <1>1. /\ call.pc = "srm_pick" /\ call' = NoCall /\ srm_wanted' = 0
        /\ UNCHANGED <<srm_allocated, next_buffer, srm_out, disorder, shutter_lock, raced, job_state>>
        /\ srm_buffers' = [i \in 1..COUNT |->
               [srm_buffers[i] EXCEPT !.used = srm_buffers[i].used \/ i \in picked]]
        /\ srm_own' = [srm_own EXCEPT ![me] =
               srm_own[me] \cup {srm_buffers[i].buffer : i \in picked}]
    BY Zenon DEF SrmPick
  <1>2. picked \subseteq 1..COUNT /\ \A i \in picked : Has(i) /\ ~ srm_buffers[i].used
    BY Zenon DEF Unused, Has
  <1>last. srm_allocated /\ (\A i \in 1..COUNT : ~ srm_buffers[i].used) => \E i : i \in picked
    <2> SUFFICES ASSUME srm_allocated, \A i \in 1..COUNT : ~ srm_buffers[i].used
                 PROVE  \E i : i \in picked
      BY Zenon
    <2>1. PICK m : Last(m)
      BY Zenon DEF SrmInv, AllocInv
    <2>2. m \in Unused /\ {j \in Unused : j > m} = {}
      BY <2>1, Zenon DEF Last, Unused, Has
    <2>3. srm_wanted \in Nat
      <3>1. srm_wanted \in Wanted \cup {0}
        BY Zenon DEF SrmInv, SrmTypeOK
      <3> QED
        BY <3>1, SrmAssumption
    <2>4. srm_wanted = 0 \/ Cardinality({j \in Unused : j > m}) < srm_wanted
      BY <2>2, <2>3
    <2> QED
      BY <2>2, <2>4, Zenon
  <1> HIDE DEF picked
  <1>3. {srm_buffers[i].buffer : i \in picked} = picked
    <2>1. \A i \in picked : srm_buffers[i].buffer = i
      BY <1>2, Zenon DEF SrmInv, PlaceInv, Has
    <2> QED
      BY <2>1, Zenon
  <1>4. /\ srm_buffers \in [1..COUNT -> [buffer : 0..COUNT, used : BOOLEAN,
                                         use_after_free : BOOLEAN]]
        /\ srm_own \in [Tasks -> SUBSET (1..COUNT)]
    BY Zenon DEF SrmInv, SrmTypeOK
  <1>5. /\ srm_own' \in [Tasks -> SUBSET (1..COUNT)]
        /\ \A t \in Tasks : srm_own'[t] = IF t = me THEN srm_own[t] \cup picked ELSE srm_own[t]
    BY <1>1, <1>2, <1>3, <1>4
  <1>6. /\ srm_buffers' \in [1..COUNT -> [buffer : 0..COUNT, used : BOOLEAN,
                                          use_after_free : BOOLEAN]]
        /\ \A i \in 1..COUNT : /\ srm_buffers'[i].buffer = srm_buffers[i].buffer
                               /\ srm_buffers'[i].use_after_free = srm_buffers[i].use_after_free
                               /\ srm_buffers'[i].used = (srm_buffers[i].used \/ i \in picked)
    BY <1>1, <1>4
  <1>7. call'.pc = "none"
    BY <1>1, NoCallPc, Zenon
  <1>8. SrmTypeOK'
    BY <1>1, <1>5, <1>6, Zenon DEF SrmInv, SrmTypeOK
  <1>9. PlaceInv'
    <2>1. ASSUME NEW i \in 1..COUNT
          PROVE  /\ srm_buffers'[i].buffer \in {0, i}
                 /\ srm_buffers'[i].buffer = 0 =>
                        ~ srm_buffers'[i].used /\ ~ srm_buffers'[i].use_after_free
      BY <1>2, <1>6, Zenon DEF SrmInv, PlaceInv, Has, Freed1st
    <2>2. ASSUME NEW i \in 1..COUNT
          PROVE  srm_buffers'[i].used <=> \E t \in Tasks : i \in srm_own'[t]
      BY <1>5, <1>6, Zenon DEF SrmInv, PlaceInv
    <2>3. ASSUME NEW i \in 1..COUNT, NEW t \in Tasks, NEW u \in Tasks,
                 i \in srm_own'[t], i \in srm_own'[u]
          PROVE  t = u
      BY <1>2, <1>5, <2>3, Zenon DEF SrmInv, PlaceInv
    <2> QED
      BY <2>1, <2>2, <2>3, Zenon DEF PlaceInv, Has, Freed1st
  <1>10. OutInv'
    <2>1. {i \in 1..COUNT : srm_buffers'[i].buffer # 0 /\ ~ srm_buffers'[i].use_after_free}
          = {i \in 1..COUNT : srm_buffers[i].buffer # 0 /\ ~ srm_buffers[i].use_after_free}
      BY <1>6, Zenon
    <2> QED
      BY <1>1, <2>1, Zenon DEF SrmInv, OutInv, Has, Freed1st
  <1>used. srm_allocated => \E i \in 1..COUNT : srm_buffers'[i].used
    BY <1>2, <1>6, <1>last, Zenon
  <1>11. AllocInv'
    <2>1. \A i \in 1..COUNT : (Has(i)' <=> Has(i)) /\ (Freed1st(i)' <=> Freed1st(i))
      BY <1>6, Zenon DEF Has, Freed1st
    <2>2. srm_allocated => \E m : Last(m)'
      BY <2>1, Zenon DEF SrmInv, AllocInv, Last
    <2>3. ~ srm_allocated => \A i \in 1..COUNT : ~ Has(i) /\ ~ srm_buffers[i].used /\ ~ Freed1st(i)
      BY <1>1, Zenon DEF SrmInv, AllocInv
    <2>4. ~ srm_allocated => \A i \in 1..COUNT : ~ srm_buffers'[i].used
      BY <1>2, <1>6, <2>3, Zenon
    <2> QED
      BY <1>1, <1>7, <1>used, <2>1, <2>2, <2>3, <2>4, Zenon DEF AllocInv
  <1> QED
    BY <1>8, <1>9, <1>10, <1>11, Zenon DEF SrmInv

\* A task returns its buffers; the last to do so returns all to Canon's code, which
\* are exactly those that are out, in the order in which they came.
LEMMA SrmFreeKeeps ==
  ASSUME LockInv, SrmInv, NEW t \in Tasks, srm_free_suite(t)
  PROVE  SrmInv'
  <1> DEFINE left == [i \in 1..COUNT |->
                 [srm_buffers[i] EXCEPT !.used = srm_buffers[i].used
                                                 /\ srm_buffers[i].buffer \notin srm_own[t]]]
  <1>1. /\ call' = call /\ UNCHANGED <<next_buffer, srm_wanted, job_state>>
        /\ srm_own' = [srm_own EXCEPT ![t] = {}]
    BY Zenon DEF srm_free_suite
  <1>2. call.pc = "none" /\ call'.pc = "none"
    BY <1>1, NoCallPc, Zenon DEF LockInv, CallOK, srm_free_suite
  <1>3. /\ srm_buffers \in [1..COUNT -> [buffer : 0..COUNT, used : BOOLEAN,
                                         use_after_free : BOOLEAN]]
        /\ srm_own \in [Tasks -> SUBSET (1..COUNT)]
    BY Zenon DEF SrmInv, SrmTypeOK
  <1>4. /\ srm_own' \in [Tasks -> SUBSET (1..COUNT)]
        /\ \A u \in Tasks : srm_own'[u] = IF u = t THEN {} ELSE srm_own[u]
    BY <1>1, <1>3
  <1>5. /\ left \in [1..COUNT -> [buffer : 0..COUNT, used : BOOLEAN, use_after_free : BOOLEAN]]
        /\ \A i \in 1..COUNT : /\ left[i].buffer = srm_buffers[i].buffer
                               /\ left[i].use_after_free = srm_buffers[i].use_after_free
                               /\ left[i].used = (srm_buffers[i].used
                                                  /\ srm_buffers[i].buffer \notin srm_own[t])
    BY <1>3
  <1>6. ASSUME NEW i \in 1..COUNT
        PROVE  left[i].used <=> \E u \in Tasks : i \in srm_own'[u]
    <2>1. srm_buffers[i].used => srm_buffers[i].buffer = i
      BY Zenon DEF SrmInv, PlaceInv, Has
    <2>2. left[i].used <=> srm_buffers[i].used /\ i \notin srm_own[t]
      BY <1>5, <2>1, Zenon
    <2>3. srm_buffers[i].used <=> \E u \in Tasks : i \in srm_own[u]
      BY Zenon DEF SrmInv, PlaceInv
    <2>4. \A u \in Tasks : i \in srm_own[u] /\ i \in srm_own[t] => u = t
      BY Zenon DEF SrmInv, PlaceInv
    <2> HIDE DEF left
    <2> QED
      BY <1>4, <2>2, <2>3, <2>4, Zenon
  <1>7. CASE \E i \in 1..COUNT : left[i].used
    <2>1. /\ srm_buffers' = left
          /\ UNCHANGED <<srm_allocated, srm_out, disorder, shutter_lock, raced>>
      BY <1>7, Zenon DEF srm_free_suite
    <2>2. SrmTypeOK'
      BY <1>1, <1>4, <1>5, <2>1, Zenon DEF SrmInv, SrmTypeOK
    <2> HIDE DEF left
    <2>3. PlaceInv'
      <3>1. \A i \in 1..COUNT : \A v, u \in Tasks : i \in srm_own'[v] /\ i \in srm_own'[u] => v = u
        BY <1>4, Zenon DEF SrmInv, PlaceInv
      <3> QED
        BY <1>5, <1>6, <2>1, <3>1, Zenon DEF SrmInv, PlaceInv, Has, Freed1st
    <2>4. OutInv'
      BY <1>5, <2>1, Zenon DEF SrmInv, OutInv, Has, Freed1st
    <2>5. AllocInv'
      BY <1>2, <1>5, <1>7, <2>1, Zenon DEF SrmInv, AllocInv, Last, Has, Freed1st
    <2> QED
      BY <2>2, <2>3, <2>4, <2>5, Zenon DEF SrmInv
  <1>8. CASE ~ \E i \in 1..COUNT : left[i].used
    <2>1. /\ FreeToCanon(ToFree)
          /\ srm_buffers' = [i \in 1..COUNT |-> NoBuffer]
          /\ shutter_lock' = FALSE /\ raced' = FALSE /\ srm_allocated' = FALSE
      BY <1>8, Zenon DEF srm_free_suite
    <2> HIDE DEF left
    <2>2. /\ ToFree = DOMAIN srm_out /\ ToFree \subseteq 1..COUNT /\ \A i \in ToFree : Has(i)
          /\ \A b \in DOMAIN srm_out : srm_out[b] = {a \in DOMAIN srm_out : a < b}
          /\ ~ disorder
      BY Zenon DEF SrmInv, OutInv, ToFree, Has, Freed1st
    <2>3. BuffersAt(ToFree) = ToFree /\ \A i \in ToFree : srm_buffers[i].buffer = i
      BY <2>2, PlacesAreBuffers, Zenon DEF SrmInv, PlaceInv, Has
    <2>4. \A i \in ToFree : BuffersAt({j \in ToFree : j < i}) = {j \in ToFree : j < i}
      <3>1. ASSUME NEW i \in ToFree
            PROVE  BuffersAt({j \in ToFree : j < i}) = {j \in ToFree : j < i}
        <4>1. /\ {j \in ToFree : j < i} \in SUBSET (1..COUNT)
              /\ \A k \in {j \in ToFree : j < i} : Has(k)
          BY <2>2, Zenon
        <4> QED
          BY <4>1, PlacesAreBuffers, Zenon DEF SrmInv
      <3> QED
        BY <3>1, Zenon
    <2>5. disorder' = FALSE
      <3>1. \A i \in ToFree : /\ srm_buffers[i].buffer \in DOMAIN srm_out
                              /\ srm_out[srm_buffers[i].buffer]
                                    \subseteq BuffersAt({j \in ToFree : j < i})
        <4>1. ASSUME NEW i \in ToFree
              PROVE  /\ srm_buffers[i].buffer \in DOMAIN srm_out
                     /\ srm_out[srm_buffers[i].buffer] \subseteq BuffersAt({j \in ToFree : j < i})
          <5>1. srm_buffers[i].buffer = i /\ i \in DOMAIN srm_out
            BY <2>2, <2>3, Zenon
          <5>2. srm_out[i] = {a \in ToFree : a < i}
            BY <2>2, <5>1, Zenon
          <5> QED
            BY <2>4, <5>1, <5>2, Zenon
        <4> QED
          BY <4>1, Zenon
      <3> QED
        BY <2>1, <2>2, <3>1, Zenon DEF FreeToCanon
    <2>6. DOMAIN srm_out' = {} /\ srm_out' = [b \in {} |-> {}]
      <3>1. srm_out' = [b \in DOMAIN srm_out \ ToFree |-> srm_out[b] \ ToFree]
        BY <2>1, <2>3, Zenon DEF FreeToCanon
      <3>2. DOMAIN srm_out \ ToFree = {}
        BY <2>2, Zenon
      <3> QED
        BY <3>1, <3>2
    <2>7. \A i \in 1..COUNT : /\ srm_buffers'[i].buffer = 0 /\ ~ srm_buffers'[i].used
                              /\ ~ srm_buffers'[i].use_after_free
      BY <2>1 DEF NoBuffer
    <2>8. SrmTypeOK'
      <3>1. srm_buffers' \in [1..COUNT -> [buffer : 0..COUNT, used : BOOLEAN,
                                           use_after_free : BOOLEAN]]
        BY <2>1, SrmAssumption DEF NoBuffer
      <3>2. srm_out' \in [DOMAIN srm_out' -> SUBSET (1..COUNT)] /\ DOMAIN srm_out' \subseteq 1..COUNT
        BY <2>6
      <3> QED
        BY <1>1, <1>4, <2>1, <2>5, <3>1, <3>2, Zenon DEF SrmInv, SrmTypeOK
    <2>9. PlaceInv'
      <3>1. \A i \in 1..COUNT : \A u \in Tasks : i \notin srm_own'[u]
        BY <1>6, <1>8, Zenon
      <3> QED
        BY <2>7, <3>1, Zenon DEF PlaceInv, Has, Freed1st
    <2>10. OutInv'
      BY <2>5, <2>6, <2>7, Zenon DEF OutInv, Has, Freed1st
    <2>11. AllocInv'
      BY <1>2, <2>1, <2>7, Zenon DEF AllocInv, Last, Has, Freed1st
    <2> QED
      BY <2>8, <2>9, <2>10, <2>11, Zenon DEF SrmInv
  <1> QED
    BY <1>7, <1>8, Zenon

\* mem_sem is held by a task.
Holder == mem_sem \in Tasks \cup {NoTask}

\* Every step takes mem_sem for the task that calls, keeps it or gives it back.
LEMMA HolderStep == LockInv /\ Holder /\ [Next]_vars => Holder'
  <1> SUFFICES ASSUME LockInv, Holder, [Next]_vars PROVE Holder'
    BY Zenon
  <1>1. CASE UNCHANGED vars
    BY <1>1, Zenon DEF vars, shootVars, Holder
  <1>2. CASE Manager
    BY <1>2, ManagerCall, Zenon DEF Manager, Holder
  <1>3. CASE Caller
    BY <1>3, CallerCall, Zenon DEF Holder, LockInv
  <1>4. CASE SrmCaller
    BY <1>4, Zenon DEF SrmCaller, SrmCheck, SrmGet, SrmTimeout, SrmGotAll, SrmPick, shootVars, Holder
  <1>5. CASE JobState
    BY <1>5, Zenon DEF JobState, shootVars, Holder
  <1>6. ASSUME NEW t \in Tasks, UseShoot(t) PROVE Holder'
    BY <1>6, BeginCall, Zenon DEF Holder
  <1>7. ASSUME NEW t \in Tasks, UseSrm(t) PROVE Holder'
    BY <1>7, Zenon DEF UseSrm, srm_free_suite, srm_malloc_suite, Holder
  <1> QED
    BY <1>1, <1>2, <1>3, <1>4, <1>5, <1>6, <1>7, Zenon DEF Next, InCall

\* A step of shoot memory leaves SRM memory alone, and is none of a call for it.
LEMMA ShootKeeps ==
  ASSUME SrmInv, UNCHANGED srmVars,
         \/ call' = call
         \/ call.pc \notin SrmPcs /\ call'.pc \notin SrmPcs
  PROVE  SrmInv'
  <1>1. UNCHANGED <<srm_allocated, srm_buffers, next_buffer, srm_wanted, srm_own, srm_out, disorder,
                    shutter_lock, raced, job_state>>
    BY Zenon DEF srmVars
  <1>2. SrmTypeOK'
    BY <1>1, Zenon DEF SrmInv, SrmTypeOK
  <1>3. CASE call' = call
    <2>1. PlaceInv'
      BY <1>1, Zenon DEF SrmInv, PlaceInv, Has, Freed1st
    <2>2. OutInv'
      BY <1>1, Zenon DEF SrmInv, OutInv, Has, Freed1st
    <2>3. AllocInv'
      BY <1>1, <1>3, Zenon DEF SrmInv, AllocInv, Last, Has, Freed1st
    <2> QED
      BY <1>2, <2>1, <2>2, <2>3, Zenon DEF SrmInv
  <1>4. CASE call.pc \notin SrmPcs /\ call'.pc \notin SrmPcs
    <2>1. /\ call.pc \notin {"srm_loop", "srm_pick"}
          /\ call'.pc # "srm_loop" /\ call'.pc # "srm_sleep"
      BY <1>4, Zenon DEF SrmPcs
    <2> QED
      BY <1>1, <1>2, <2>1, QuietSrm, Zenon
  <1> QED
    BY <1>3, <1>4, Zenon

\* A call for shoot memory is none for SRM memory.
LEMMA ShootIsNotSrm == \A c : ShootCall(c) => c.pc \notin SrmPcs
  BY Zenon DEF ShootCall, ShootPcs, SrmPcs

\* The invariant is inductive, given that the empty set has no elements, which is
\* a theorem about finite sets (SrmInvStep).
LEMMA SrmStep ==
  ASSUME Cardinality({}) = 0, LockInv, Holder, SrmInv, [Next]_vars
  PROVE  SrmInv'
  <1>0. NoCall.pc \notin SrmPcs
    BY NoCallPc, Zenon DEF SrmPcs
  <1>1. CASE UNCHANGED vars
    BY <1>1, ShootKeeps, Zenon DEF vars, shootVars
  <1>2. CASE Manager
    BY <1>2, ManagerCall, ShootKeeps, Zenon DEF Manager
  <1>3. CASE Caller /\ UNCHANGED srmVars
    <2>1. ShootCall(call) /\ (ShootCall(call') \/ call' = NoCall)
      BY <1>3, CallerIs, CallerCall, Zenon DEF LockInv
    <2> QED
      BY <1>0, <1>3, <2>1, ShootIsNotSrm, ShootKeeps, Zenon
  <1>4. CASE SrmCaller
    <2>1. CASE SrmPick
      <3>1. call # NoCall
        BY <2>1, NoCallPc, Zenon DEF SrmPick
      <3>2. mem_sem \in Tasks
        BY <3>1, Zenon DEF LockInv, CallOK, Holder
      <3> QED
        BY <2>1, <3>2, SrmPickKeeps, Zenon
    <2> QED
      BY <1>4, <2>1, SrmCheckKeeps, SrmGetKeeps, SrmTimeoutKeeps, SrmGotAllKeeps, Zenon
         DEF SrmCaller
  <1>5. CASE JobState
    <2>1. /\ UNCHANGED <<srm_allocated, srm_buffers, next_buffer, srm_wanted, srm_own, srm_out,
                         disorder, shutter_lock, raced>>
          /\ call' = call /\ job_state' = ~ job_state
      BY <1>5, Zenon DEF JobState, shootVars
    <2>2. SrmTypeOK'
      BY <2>1, Zenon DEF SrmInv, SrmTypeOK
    <2>3. PlaceInv'
      BY <2>1, Zenon DEF SrmInv, PlaceInv, Has, Freed1st
    <2>4. OutInv'
      BY <2>1, Zenon DEF SrmInv, OutInv, Has, Freed1st
    <2>5. AllocInv'
      BY <2>1, Zenon DEF SrmInv, AllocInv, Last, Has, Freed1st
    <2> QED
      BY <2>2, <2>3, <2>4, <2>5, Zenon DEF SrmInv
  <1>6. ASSUME NEW t \in Tasks, UseShoot(t) PROVE SrmInv'
    <2>1. call = NoCall /\ ShootCall(call') /\ UNCHANGED srmVars
      BY <1>6, BeginCall, Zenon DEF LockInv, CallOK, UseShoot
    <2> QED
      BY <1>0, <2>1, ShootIsNotSrm, ShootKeeps, Zenon
  <1>7. ASSUME NEW t \in Tasks, UseSrm(t) PROVE SrmInv'
    BY <1>7, SrmMallocKeeps, SrmFreeKeeps, Zenon DEF UseSrm
  <1> QED
    BY <1>1, <1>2, <1>3, <1>4, <1>5, <1>6, <1>7, Zenon DEF Next, InCall

-----------------------------------------------------------------------------
(* The call in progress                                                    *)

Nexts == {"user", "backup", "test", "full"}

\* What the helpers of a call change.  A call asked to allocate n:
LEMMA AllocateIs ==
  ASSUME NEW c \in Calls, NEW n \in Nat, NEW x \in Nexts
  PROVE  /\ Allocate(c, n, x) \in Calls /\ Allocate(c, n, x).pc = "alloc"
         /\ Allocate(c, n, x).next = x /\ Allocate(c, n, x).backup = c.backup
  BY DEF Allocate, Calls, Nexts

\* A call asked to free s.
LEMMA FreeIs ==
  ASSUME NEW c \in Calls, NEW s \in NoneOr(Suites), NEW x \in Nexts
  PROVE  /\ Free(c, s, x) \in Calls /\ Free(c, s, x).pc = "free" /\ Free(c, s, x).next = x
         /\ Free(c, s, x).suite = s /\ Free(c, s, x).backup = c.backup
  BY DEF Free, Calls, Nexts, NoneOr

\* A call that is going to return s.
LEMMA ReturnIs ==
  ASSUME NEW c \in Calls, NEW s \in NoneOr(Suites)
  PROVE  /\ ReturnSuite(c, s) \in Calls /\ ReturnSuite(c, s).pc = "return"
         /\ ReturnSuite(c, s).next = c.next /\ ReturnSuite(c, s).suite = s
         /\ ReturnSuite(c, s).backup = c.backup
  BY DEF ReturnSuite, Calls, NoneOr

\* What the updates of its other fields change.
LEMMA CallUpdates ==
  ASSUME NEW c \in Calls, NEW n \in Nat, NEW s \in NoneOr(Suites)
  PROVE  /\ [c EXCEPT !.backup = s] \in Calls /\ [c EXCEPT !.backup = s].backup = s
         /\ [c EXCEPT !.backup = s].next = c.next
         /\ [c EXCEPT !.tested = n] \in Calls /\ [c EXCEPT !.tested = n].backup = c.backup
         /\ [c EXCEPT !.max_size = n] \in Calls /\ [c EXCEPT !.max_size = n].backup = c.backup
  <1>1. /\ [c EXCEPT !.backup = s] \in Calls /\ [c EXCEPT !.backup = s].backup = s
        /\ [c EXCEPT !.backup = s].next = c.next
    BY DEF Calls, NoneOr
  <1>2. [c EXCEPT !.tested = n] \in Calls /\ [c EXCEPT !.tested = n].backup = c.backup
    BY DEF Calls
  <1>3. [c EXCEPT !.max_size = n] \in Calls /\ [c EXCEPT !.max_size = n].backup = c.backup
    BY DEF Calls
  <1> QED
    BY <1>1, <1>2, <1>3, Zenon

\* The sizes autodetection computes.
LEMMA Sizes ==
  ASSUME NEW c \in Calls
  PROVE  /\ BackupOf(c) \in Nat /\ TestedSize(c) \in Nat /\ c.tested + BackupOf(c) \in Nat
         /\ c.size \in Nat /\ c.max_size \in Nat /\ c.requested \in Nat /\ c.contig \in BOOLEAN
         /\ c.backup \in NoneOr(Suites) /\ c.suite \in NoneOr(Suites) /\ c.info \in Infos
         /\ c.next \in Nexts
  <1>1. /\ c.size \in Nat /\ c.max_size \in Nat /\ c.requested \in Nat /\ c.contig \in BOOLEAN
        /\ c.backup \in NoneOr(Suites) /\ c.suite \in NoneOr(Suites) /\ c.info \in Infos
        /\ c.next \in Nexts /\ c.tested \in Nat
    BY Zenon DEF Calls, NoneOr, Nexts
  <1>2. BackupOf(c) \in Nat /\ TestedSize(c) \in Nat
    BY <1>1, ShootAssumption DEF BackupOf, TestedSize
  <1> QED
    BY <1>1, <1>2

\* Freeing the backup makes it the subject of the call.
LEMMA FreeBackupIs ==
  ASSUME NEW c \in Calls
  PROVE  /\ FreeBackup(c) \in Calls /\ FreeBackup(c).pc = "free" /\ FreeBackup(c).next = "backup"
         /\ FreeBackup(c).suite = c.backup /\ FreeBackup(c).backup = NoSuite
  <1>1. c.backup \in NoneOr(Suites) /\ NoSuite \in NoneOr(Suites) /\ "backup" \in Nexts
    BY Sizes, Zenon DEF NoneOr, Nexts
  <1> DEFINE d == [c EXCEPT !.backup = NoSuite]
  <1>2. d \in Calls /\ d.backup = NoSuite
    BY <1>1, CallUpdates, 0 \in Nat, Zenon
  <1>3. FreeBackup(c) = Free(d, c.backup, "backup")
    BY Zenon DEF FreeBackup
  <1> HIDE DEF d
  <1> QED
    BY <1>1, <1>2, <1>3, FreeIs

\* The suite the call is about, if any.
Subject(c) == IF c.pc \in {"free", "return"} THEN c.suite ELSE NoSuite

Good(c) ==
    /\ c \in Calls
    /\ c.next # "test" => c.backup = NoSuite
    /\ c.pc \in {"free", "freewait"} => c.next # "full"
    /\ c.pc = "return" => c.backup = NoSuite

\* After autodetection.
LEMMA DetectedIs ==
  ASSUME NEW c \in Calls, c.backup = NoSuite
  PROVE  /\ Good(Detected(c)) /\ Detected(c).backup = NoSuite /\ Subject(Detected(c)) = NoSuite
         /\ Final(Detected(c)) \/ Detected(c).pc = "return"
  <1>1. /\ c.max_size \in Nat /\ c.requested \in Nat /\ c.next \in Nexts
        /\ "full" \in Nexts /\ "user" \in Nexts /\ NoSuite \in NoneOr(Suites)
    BY Sizes, Zenon DEF Nexts, NoneOr
  <1>2. ASSUME NEW n \in Nat, NEW x \in {"user", "full"}, Detected(c) = Allocate(c, n, x)
        PROVE  /\ Good(Detected(c)) /\ Detected(c).backup = NoSuite
               /\ Subject(Detected(c)) = NoSuite
               /\ Final(Detected(c))
    <2>1. /\ Detected(c) \in Calls /\ Detected(c).pc = "alloc" /\ Detected(c).next = x
          /\ Detected(c).backup = NoSuite
      <3>1. x \in Nexts
        BY Zenon DEF Nexts
      <3> QED
        BY <1>2, <3>1, AllocateIs
    <2> QED
      BY <2>1, Zenon DEF Good, Subject, Final
  <1>3. ASSUME Detected(c) = ReturnSuite(c, NoSuite)
        PROVE  /\ Good(Detected(c)) /\ Detected(c).backup = NoSuite
               /\ Subject(Detected(c)) = NoSuite
               /\ Detected(c).pc = "return"
    <2>1. /\ Detected(c) \in Calls /\ Detected(c).pc = "return" /\ Detected(c).suite = NoSuite
          /\ Detected(c).backup = NoSuite
      BY <1>1, <1>3, ReturnIs
    <2> QED
      BY <2>1, Zenon DEF Good, Subject
  <1>4. \/ Detected(c) = Allocate(c, c.max_size, "full")
        \/ Detected(c) = ReturnSuite(c, NoSuite)
        \/ Detected(c) = Allocate(c, c.max_size, "user")
        \/ Detected(c) = Allocate(c, c.requested, "user")
    BY Zenon DEF Detected
  <1> QED
    BY <1>1, <1>2, <1>3, <1>4, Zenon

\* The next test, or the end of the tests.
LEMMA TestIs ==
  ASSUME NEW c \in Calls, NEW n \in Nat
  PROVE  LET d == Test(c, n) IN
         /\ Good(d)
         /\ \/ d.pc = "alloc" /\ d.next = "test" /\ d.backup = c.backup /\ Subject(d) = NoSuite
            \/ d.pc = "free" /\ d.next = "backup" /\ d.backup = NoSuite /\ Subject(d) = c.backup
  <1> DEFINE d == Test(c, n)
  <1>1. CASE n < MaxTested
    <2> DEFINE e == [c EXCEPT !.tested = n]
    <2>1. e \in Calls /\ e.backup = c.backup /\ NoSuite \in NoneOr(Suites) /\ "test" \in Nexts
      BY CallUpdates, Zenon DEF NoneOr, Nexts
    <2>2. d = Allocate(e, n, "test")
      BY <1>1, Zenon DEF Test
    <2> HIDE DEF e
    <2>3. d \in Calls /\ d.pc = "alloc" /\ d.next = "test" /\ d.backup = c.backup
      BY <2>1, <2>2, AllocateIs
    <2> HIDE DEF d
    <2>4. Good(d) /\ Subject(d) = NoSuite
      BY <2>3, Zenon DEF Good, Subject
    <2> QED
      BY <2>3, <2>4 DEF d
  <1>2. CASE ~ (n < MaxTested)
    <2>1. d = FreeBackup(c)
      BY <1>2, Zenon DEF Test
    <2>2. d \in Calls /\ d.pc = "free" /\ d.next = "backup" /\ d.suite = c.backup
          /\ d.backup = NoSuite
      BY <2>1, FreeBackupIs
    <2> HIDE DEF d
    <2>3. Good(d) /\ Subject(d) = c.backup
      BY <2>2, Zenon DEF Good, Subject
    <2> QED
      BY <2>2, <2>3 DEF d
  <1> QED
    BY <1>1, <1>2, Zenon

\* After an allocation that gave s, or nothing: the suite becomes the backup or
\* the subject of the call, and without one the backup does.
LEMMA AllocatedIs ==
  ASSUME NEW c, Good(c), NEW s \in NoneOr(Suites)
  PROVE  LET d == Allocated(c, s) IN
         /\ Good(d) /\ d.pc \in {"alloc", "free", "return"}
         /\ s = NoSuite =>
               /\ d.backup = NoSuite /\ Subject(d) = c.backup
               /\ d.pc = "return" \/ Final(d) \/ (d.pc = "free" /\ d.next = "backup")
         /\ s # NoSuite =>
               \/ d.backup = s /\ Subject(d) = NoSuite /\ c.backup = NoSuite
               \/ d.backup = c.backup /\ Subject(d) = s
         /\ c.next \in {"user", "full"} => d.pc = "return"
  <1> DEFINE d == Allocated(c, s)
             Claim == /\ Good(d) /\ d.pc \in {"alloc", "free", "return"}
                      /\ s = NoSuite =>
                            /\ d.backup = NoSuite /\ Subject(d) = c.backup
                            /\ d.pc = "return" \/ Final(d) \/ (d.pc = "free" /\ d.next = "backup")
                      /\ s # NoSuite =>
                            \/ d.backup = s /\ Subject(d) = NoSuite /\ c.backup = NoSuite
                            \/ d.backup = c.backup /\ Subject(d) = s
                      /\ c.next \in {"user", "full"} => d.pc = "return"
  <1>1. c \in Calls /\ c.next \in Nexts /\ (c.next # "test" => c.backup = NoSuite)
    BY Sizes, Zenon DEF Good
  <1>2. ASSUME c.next = "backup" /\ s = NoSuite PROVE Claim
    <2>1. d = Detected(c)
      BY <1>2, Zenon DEF Allocated
    <2>2. c.backup = NoSuite
      BY <1>1, <1>2, Zenon
    <2>3. /\ Good(d) /\ d.backup = NoSuite /\ Subject(d) = NoSuite
          /\ Final(d) \/ d.pc = "return"
      BY <1>1, <2>1, <2>2, DetectedIs
    <2> HIDE DEF d
    <2> QED
      BY <1>2, <2>2, <2>3, Zenon DEF Final
  <1>3. ASSUME c.next = "backup" /\ s # NoSuite PROVE Claim
    <2> DEFINE e == [c EXCEPT !.backup = s]
    <2>1. d = Test(e, BackupOf(c))
      BY <1>3, Zenon DEF Allocated
    <2>2. e \in Calls /\ e.backup = s /\ BackupOf(c) \in Nat /\ c.backup = NoSuite
      BY <1>1, <1>3, CallUpdates, Sizes, 0 \in Nat, Zenon
    <2> HIDE DEF e
    <2>3. /\ Good(d)
          /\ \/ d.pc = "alloc" /\ d.next = "test" /\ d.backup = s /\ Subject(d) = NoSuite
             \/ d.pc = "free" /\ d.next = "backup" /\ d.backup = NoSuite /\ Subject(d) = s
      BY <2>1, <2>2, TestIs
    <2> HIDE DEF d
    <2> QED
      BY <1>3, <2>2, <2>3, Zenon
  <1>4. ASSUME c.next = "test" /\ s = NoSuite PROVE Claim
    <2>1. d = FreeBackup(c)
      BY <1>4, Zenon DEF Allocated
    <2>2. d \in Calls /\ d.pc = "free" /\ d.next = "backup" /\ d.suite = c.backup
          /\ d.backup = NoSuite
      BY <1>1, <2>1, FreeBackupIs
    <2> HIDE DEF d
    <2>3. Good(d) /\ Subject(d) = c.backup
      BY <2>2, Zenon DEF Good, Subject
    <2> QED
      BY <1>4, <2>2, <2>3, Zenon
  <1>5. ASSUME c.next = "test" /\ s # NoSuite PROVE Claim
    <2> DEFINE e == [c EXCEPT !.max_size = TestedSize(c)]
    <2>1. d = Free(e, s, "test")
      BY <1>5, Zenon DEF Allocated
    <2>2. e \in Calls /\ e.backup = c.backup /\ "test" \in Nexts
      BY <1>1, CallUpdates, Sizes, Zenon DEF Nexts
    <2> HIDE DEF e
    <2>3. d \in Calls /\ d.pc = "free" /\ d.next = "test" /\ d.suite = s /\ d.backup = c.backup
      BY <2>1, <2>2, FreeIs
    <2> HIDE DEF d
    <2>4. Good(d) /\ Subject(d) = s
      BY <2>3, Zenon DEF Good, Subject
    <2> QED
      BY <1>5, <2>3, <2>4, Zenon
  <1>6. ASSUME c.next \in {"user", "full"} PROVE Claim
    <2>1. d = ReturnSuite(c, s)
      BY <1>6, Zenon DEF Allocated
    <2>2. /\ d \in Calls /\ d.pc = "return" /\ d.next = c.next /\ d.suite = s
          /\ d.backup = NoSuite /\ c.backup = NoSuite
      <3>1. c.backup = NoSuite
        BY <1>1, <1>6, Zenon
      <3> QED
        BY <1>1, <2>1, <3>1, ReturnIs
    <2> HIDE DEF d
    <2>3. Good(d) /\ Subject(d) = s
      BY <2>2, Zenon DEF Good, Subject
    <2> QED
      BY <1>6, <2>2, <2>3, Zenon
  <1>7. Claim
    <2> HIDE DEF Claim
    <2> QED
      BY <1>1, <1>2, <1>3, <1>4, <1>5, <1>6, Zenon DEF Nexts
  <1> QED
    BY <1>7, Zenon

\* After a free: the backup stays or becomes the subject of the call.
LEMMA FreedIs ==
  ASSUME NEW c, Good(c), c.pc = "freewait"
  PROVE  LET d == Freed(c) IN
         /\ Good(d) /\ d.pc \in {"alloc", "free", "return"}
         /\ \/ d.backup = c.backup /\ Subject(d) = NoSuite
            \/ d.backup = NoSuite /\ Subject(d) = c.backup
         /\ c.next = "user" => d.pc = "return"
         /\ c.next = "backup" => d.pc = "return" \/ Final(d)
  <1> DEFINE d == Freed(c)
             Claim == /\ Good(d) /\ d.pc \in {"alloc", "free", "return"}
                      /\ \/ d.backup = c.backup /\ Subject(d) = NoSuite
                         \/ d.backup = NoSuite /\ Subject(d) = c.backup
                      /\ c.next = "user" => d.pc = "return"
                      /\ c.next = "backup" => d.pc = "return" \/ Final(d)
  <1>1. /\ c \in Calls /\ c.next \in {"user", "backup", "test"}
        /\ c.next # "test" => c.backup = NoSuite
    BY Sizes, Zenon DEF Good, Nexts
  <1>2. ASSUME c.next = "test", d = FreeBackup(c) PROVE Claim
    <2>1. d \in Calls /\ d.pc = "free" /\ d.next = "backup" /\ d.suite = c.backup
          /\ d.backup = NoSuite
      BY <1>1, <1>2, FreeBackupIs
    <2> HIDE DEF d
    <2>2. Good(d) /\ Subject(d) = c.backup
      BY <2>1, Zenon DEF Good, Subject
    <2> QED
      BY <1>2, <2>1, <2>2, Zenon
  <1>3. ASSUME c.next = "test", d = Test(c, c.tested + BackupOf(c)) PROVE Claim
    <2>1. c.tested + BackupOf(c) \in Nat
      BY <1>1, Sizes, Zenon
    <2>2. /\ Good(d)
          /\ \/ d.pc = "alloc" /\ d.next = "test" /\ d.backup = c.backup /\ Subject(d) = NoSuite
             \/ d.pc = "free" /\ d.next = "backup" /\ d.backup = NoSuite /\ Subject(d) = c.backup
      BY <1>1, <1>3, <2>1, TestIs
    <2> HIDE DEF d
    <2> QED
      BY <1>3, <2>2, Zenon
  <1>4. ASSUME c.next = "backup" PROVE Claim
    <2>1. d = Detected(c) /\ c.backup = NoSuite
      BY <1>1, <1>4, Zenon DEF Freed
    <2>2. /\ Good(d) /\ d.backup = NoSuite /\ Subject(d) = NoSuite
          /\ Final(d) \/ d.pc = "return"
      BY <1>1, <2>1, DetectedIs
    <2> HIDE DEF d
    <2> QED
      BY <1>4, <2>1, <2>2, Zenon DEF Final
  <1>5. ASSUME c.next = "user" PROVE Claim
    <2>1. d = ReturnSuite(c, NoSuite) /\ NoSuite \in NoneOr(Suites) /\ c.backup = NoSuite
      BY <1>1, <1>5, Zenon DEF Freed, NoneOr
    <2>2. d \in Calls /\ d.pc = "return" /\ d.suite = NoSuite /\ d.backup = NoSuite
      BY <1>1, <2>1, ReturnIs
    <2> HIDE DEF d
    <2>3. Good(d) /\ Subject(d) = NoSuite
      BY <2>2, Zenon DEF Good, Subject
    <2> QED
      BY <1>5, <2>1, <2>2, <2>3, Zenon
  <1>6. Claim
    <2>1. c.next = "test" => d = FreeBackup(c) \/ d = Test(c, c.tested + BackupOf(c))
      BY Zenon DEF Freed
    <2> HIDE DEF Claim, d
    <2> QED
      BY <1>1, <1>2, <1>3, <1>4, <1>5, <2>1, Zenon
  <1> QED
    BY <1>6, Zenon

-----------------------------------------------------------------------------
(* The queue of RscMgr                                                     *)

\* Taking a message: the others move up.
LEMMA TailAt ==
  ASSUME NEW S, NEW q \in Seq(S), q # <<>>
  PROVE  /\ Head(q) = q[1] /\ 1 \in DOMAIN q /\ Tail(q) \in Seq(S) /\ q[1] \in S
         /\ \A k \in DOMAIN Tail(q) : k + 1 \in DOMAIN q /\ k + 1 # 1 /\ Tail(q)[k] = q[k + 1]
         /\ \A k \in DOMAIN q : k # 1 => k - 1 \in DOMAIN Tail(q) /\ Tail(q)[k - 1] = q[k]
         /\ \A k, l \in DOMAIN Tail(q) : k + 1 = l + 1 => k = l
  OBVIOUS

\* Sending a message.
LEMMA AppendAt ==
  ASSUME NEW S, NEW q \in Seq(S), NEW e \in S
  PROVE  /\ Append(q, e) \in Seq(S) /\ DOMAIN Append(q, e) = DOMAIN q \cup {Len(q) + 1}
         /\ Append(q, e)[Len(q) + 1] = e /\ Len(q) + 1 \notin DOMAIN q
         /\ \A k \in DOMAIN q : Append(q, e)[k] = q[k]
  OBVIOUS

\* What is pending and what is being freed once a message is taken.
LEMMA Taken ==
  ASSUME queue \in Seq(Requests), queue # <<>>, queue' = Tail(queue)
  PROVE  /\ \A i, k : Queued(k, i)' => Queued(k + 1, i) /\ k + 1 # 1
         /\ \A i, k : Queued(k, i) /\ k # 1 => Queued(k - 1, i)'
         /\ \A i, k, l : Queued(k, i)' /\ Queued(l, i)' /\ k + 1 = l + 1 => k = l
         /\ \A s, k : Freeing(k, s)' => Freeing(k + 1, s) /\ k + 1 # 1
         /\ \A s, k : Freeing(k, s) /\ k # 1 => Freeing(k - 1, s)'
         /\ \A s, k, l : Freeing(k, s)' /\ Freeing(l, s)' /\ k + 1 = l + 1 => k = l
         /\ Head(queue) = queue[1] /\ 1 \in DOMAIN queue /\ queue[1] \in Requests
         /\ queue' \in Seq(Requests)
  <1>1. /\ Head(queue) = queue[1] /\ 1 \in DOMAIN queue /\ queue[1] \in Requests
        /\ queue' \in Seq(Requests)
        /\ \A k \in DOMAIN queue' : k + 1 \in DOMAIN queue /\ k + 1 # 1 /\ queue'[k] = queue[k + 1]
        /\ \A k \in DOMAIN queue : k # 1 => k - 1 \in DOMAIN queue' /\ queue'[k - 1] = queue[k]
        /\ \A k, l \in DOMAIN queue' : k + 1 = l + 1 => k = l
    BY TailAt
  <1>2. /\ \A i, k : Queued(k, i)' => Queued(k + 1, i) /\ k + 1 # 1
        /\ \A i, k : Queued(k, i) /\ k # 1 => Queued(k - 1, i)'
        /\ \A i, k, l : Queued(k, i)' /\ Queued(l, i)' /\ k + 1 = l + 1 => k = l
    BY <1>1, Zenon DEF Queued
  <1>3. /\ \A s, k : Freeing(k, s)' => Freeing(k + 1, s) /\ k + 1 # 1
        /\ \A s, k : Freeing(k, s) /\ k # 1 => Freeing(k - 1, s)'
        /\ \A s, k, l : Freeing(k, s)' /\ Freeing(l, s)' /\ k + 1 = l + 1 => k = l
    BY <1>1, Zenon DEF Freeing
  <1> QED
    BY <1>1, <1>2, <1>3, Zenon

\* What is pending and what is being freed once message e is sent.
LEMMA Sent ==
  ASSUME queue \in Seq(Requests), NEW e \in Requests, queue' = Append(queue, e)
  PROVE  LET n == Len(queue) + 1 IN
         /\ \A i, k : Queued(k, i)' <=> Queued(k, i) \/ (k = n /\ e.kind = "alloc" /\ e.info = i)
         /\ \A s, k : Freeing(k, s)' <=> Freeing(k, s) \/ (k = n /\ e.kind = "free" /\ e.suite = s)
         /\ \A i : ~ Queued(n, i) /\ ~ Freeing(n, i)
         /\ queue' \in Seq(Requests)
  <1> DEFINE n == Len(queue) + 1
  <1>1. /\ queue' \in Seq(Requests) /\ DOMAIN queue' = DOMAIN queue \cup {n}
        /\ queue'[n] = e /\ n \notin DOMAIN queue
        /\ \A k \in DOMAIN queue : queue'[k] = queue[k]
    BY AppendAt
  <1> HIDE DEF n
  <1>2. \A i, k : Queued(k, i)' <=> Queued(k, i) \/ (k = n /\ e.kind = "alloc" /\ e.info = i)
    BY <1>1, Zenon DEF Queued
  <1>3. \A s, k : Freeing(k, s)' <=> Freeing(k, s) \/ (k = n /\ e.kind = "free" /\ e.suite = s)
    BY <1>1, Zenon DEF Freeing
  <1>4. \A i : ~ Queued(n, i) /\ ~ Freeing(n, i)
    BY <1>1, Zenon DEF Queued, Freeing
  <1> QED
    BY <1>1, <1>2, <1>3, <1>4 DEF n

-----------------------------------------------------------------------------
(* Suites that a step does not move                                        *)

\* A suite stays where it is.
LEMMA Stays ==
  ASSUME NEW s, Accounted(s), s \in DOMAIN suites' <=> s \in DOMAIN suites,
         \A g, x : Place(g, x, s)' <=> Place(g, x, s),
         (\E k : Freeing(k, s)') <=> \E k : Freeing(k, s),
         \A k, l : Freeing(k, s)' /\ Freeing(l, s)' => k = l
  PROVE  Accounted(s)'
  BY Zenon DEF Accounted

\* A suite is in one place and not on its way back, or the other way round.
InPlace(h, y, s) ==
    /\ \A g, x : Place(g, x, s) <=> g = h /\ x = y
    /\ \A k : ~ Freeing(k, s)
OnWayBack(n, s) ==
    /\ \A g, x : ~ Place(g, x, s)
    /\ \A k : Freeing(k, s) <=> k = n

\* A suite the step leaves in one place is accounted for after it.
LEMMA Arrives ==
  ASSUME NEW s, s \in DOMAIN suites', NEW h, NEW y, InPlace(h, y, s)'
  PROVE  Accounted(s)'
  <1>1. \E g, x : Place(g, x, s)'
    BY Zenon DEF InPlace
  <1>2. ASSUME NEW g, NEW x, NEW a, NEW b, Place(g, x, s)', Place(a, b, s)'
        PROVE  g = a /\ x = b
    <2>1. g = h /\ x = y
      BY <1>2, Zenon DEF InPlace
    <2>2. a = h /\ b = y
      BY <1>2, Zenon DEF InPlace
    <2> QED
      BY <2>1, <2>2, Zenon
  <1> QED
    BY <1>1, <1>2, Zenon DEF Accounted, InPlace

\* And so is one the step leaves on its way back.
LEMMA Departs ==
  ASSUME NEW s, s \in DOMAIN suites', NEW n, OnWayBack(n, s)'
  PROVE  Accounted(s)'
  <1>1. \E k : Freeing(k, s)'
    BY Zenon DEF OnWayBack
  <1>2. ASSUME NEW k, NEW l, Freeing(k, s)', Freeing(l, s)'
        PROVE  k = l
    <2>1. k = n
      BY <1>2, Zenon DEF OnWayBack
    <2>2. l = n
      BY <1>2, Zenon DEF OnWayBack
    <2> QED
      BY <2>1, <2>2, Zenon
  <1> QED
    BY <1>1, <1>2, Zenon DEF Accounted, OnWayBack

\* So does one in a place the step does not concern.
LEMMA SamePlaces ==
  ASSUME UNCHANGED <<own, mem_sem, call, suite_info, granting>>
  PROVE  \A g, x, s : Place(g, x, s)' <=> Place(g, x, s)
  <1>1. \A x, s : /\ OwnAt(x, s)' <=> OwnAt(x, s)
                  /\ BackupAt(x, s)' <=> BackupAt(x, s)
                  /\ CallAt(x, s)' <=> CallAt(x, s)
                  /\ InfoAt(x, s)' <=> InfoAt(x, s)
                  /\ GrantAt(x, s)' <=> GrantAt(x, s)
    BY Zenon DEF OwnAt, BackupAt, CallAt, InfoAt, GrantAt
  <1>2. ASSUME NEW g, NEW x, NEW s PROVE Place(g, x, s)' <=> Place(g, x, s)
    BY <1>1, Zenon DEF Place
  <1> QED
    BY <1>2, Zenon

\* The queue is the same, has one message fewer that is none to free s, or one more.
LEMMA QueueStays ==
  ASSUME NEW s, Accounted(s), queue \in Seq(Requests),
         \/ queue' = queue
         \/ queue # <<>> /\ queue' = Tail(queue) /\ ~ Freeing(1, s)
         \/ \E e \in Requests : queue' = Append(queue, e) /\ (e.kind = "free" => e.suite # s)
  PROVE  /\ (\E k : Freeing(k, s)') <=> \E k : Freeing(k, s)
         /\ \A k, l : Freeing(k, s)' /\ Freeing(l, s)' => k = l
  <1>0. \A k, l : Freeing(k, s) /\ Freeing(l, s) => k = l
    BY Zenon DEF Accounted
  <1>1. CASE queue' = queue
    BY <1>0, <1>1, Zenon DEF Freeing
  <1>2. CASE queue # <<>> /\ queue' = Tail(queue) /\ ~ Freeing(1, s)
    <2>1. /\ \A k : Freeing(k, s)' => Freeing(k + 1, s)
          /\ \A k : Freeing(k, s) /\ k # 1 => Freeing(k - 1, s)'
          /\ \A k, l : Freeing(k, s)' /\ Freeing(l, s)' /\ k + 1 = l + 1 => k = l
      BY <1>2, Taken, Zenon
    <2>2. ASSUME NEW k, Freeing(k, s)' PROVE \E l : Freeing(l, s)
      BY <2>1, <2>2, Zenon
    <2>3. ASSUME NEW k, Freeing(k, s) PROVE \E l : Freeing(l, s)'
      BY <1>2, <2>1, <2>3, Zenon
    <2>4. ASSUME NEW k, NEW l, Freeing(k, s)', Freeing(l, s)' PROVE k = l
      <3>1. Freeing(k + 1, s) /\ Freeing(l + 1, s)
        BY <2>1, <2>4, Zenon
      <3>2. k + 1 = l + 1
        BY <1>0, <3>1, Zenon
      <3> QED
        BY <2>1, <2>4, <3>2, Zenon
    <2> QED
      BY <2>2, <2>3, <2>4, Zenon
  <1>3. CASE \E e \in Requests : queue' = Append(queue, e) /\ (e.kind = "free" => e.suite # s)
    <2>1. PICK e \in Requests : queue' = Append(queue, e) /\ (e.kind = "free" => e.suite # s)
      BY <1>3, Zenon
    <2>2. \A k : Freeing(k, s)' <=> Freeing(k, s)
      BY <2>1, Sent
    <2> QED
      BY <1>0, <2>2, Zenon
  <1> QED
    BY <1>1, <1>2, <1>3, Zenon

-----------------------------------------------------------------------------
(* RscMgr gives out a suite                                                *)

\* The call and what it waits for stay as they are.
LEMMA SameCall ==
  ASSUME ShootInv, ~ crossed, UNCHANGED <<call, mem_sem, alloc_sem, suite_info>>,
         granting'.late => suite_info[granting'.info].timed_out,
         \A i : Pending(i)' => Pending(i)
  PROVE  WaitInv' /\ SpareInv' /\ CallInv'
  <1>1. WaitInv /\ SpareInv /\ CallInv
    BY Zenon DEF ShootInv
  <1>2. WaitInv'
    BY <1>1, Zenon DEF WaitInv
  <1>3. SpareInv'
    BY <1>1, Zenon DEF SpareInv, Spare
  <1>4. CallInv'
    BY <1>1, Zenon DEF CallInv
  <1> QED
    BY <1>2, <1>3, <1>4, Zenon

\* An alloc message has an alloc_msg_t.
LEMMA AllocMessage ==
  ASSUME NEW r \in Requests, r.kind = "alloc"
  PROVE  r.info \in Infos /\ r \in [kind : {"alloc"}, size : Nat, info : Infos, contig : BOOLEAN]
         /\ r.size \in Nat
  BY DEF Requests

\* The suite RscMgr takes is a new one.
LEMMA NewSuite ==
  ASSUME ShootTypes, NEW r, Grant(r)
  PROVE  \E s \in Suites \ DOMAIN suites :
             /\ suites' = Extended(suites, s, r.size)
             /\ granting' = [suite |-> s, info |-> r.info, late |-> suite_info[r.info].timed_out]
             /\ granting = NoGrant
             /\ UNCHANGED <<mem_sem, call, alloc_sem, free_sem, suite_info, shoot_full_suite, own,
                            crossed>>
  <1>1. DOMAIN suites \subseteq Suites /\ DOMAIN suites # Suites
    BY Zenon DEF ShootTypes, Grant
  <1>2. (CHOOSE x \in Suites \ DOMAIN suites : TRUE) \in Suites \ DOMAIN suites
    BY <1>1, Zenon
  <1> QED
    BY <1>2, Zenon DEF Grant

\* A suite is given to request r, which leaves the queue or is put aside no more.
LEMMA GrantKeeps ==
  ASSUME ShootInv, ~ crossed, NEW r, Grant(r), Pending(r.info), r.info \in Infos, r.size \in Nat,
         queue' \in Seq(Requests),
         waiting' \subseteq [kind : {"alloc"}, size : Nat, info : Infos, contig : BOOLEAN],
         \A i, k, l : Queued(k, i)' /\ Queued(l, i)' => k = l,
         \A i, k : Queued(k, i)' => i # r.info /\ \E l : Queued(l, i),
         \A i, p : Waits(p, i)' => i # r.info /\ Waits(p, i),
         \/ queue' = queue
         \/ queue # <<>> /\ queue' = Tail(queue) /\ \A s : ~ Freeing(1, s)
  PROVE  ShootInv'
  <1>1. ShootTypes /\ CallInv /\ PendingInv /\ WaitInv /\ SpareInv /\ PlacesInv
    BY Zenon DEF ShootInv
  <1>2. PICK m \in Suites \ DOMAIN suites :
           /\ suites' = Extended(suites, m, r.size)
           /\ granting' = [suite |-> m, info |-> r.info, late |-> suite_info[r.info].timed_out]
           /\ granting = NoGrant
           /\ UNCHANGED <<mem_sem, call, alloc_sem, free_sem, suite_info, shoot_full_suite, own,
                          crossed>>
    BY <1>1, NewSuite, Zenon
  <1>3. /\ r.info \in DOMAIN suite_info
        /\ suite_info[r.info] \in [ret : NoneOr(Suites), timed_out : BOOLEAN]
    BY <1>1, Zenon DEF PendingInv, ShootTypes
  <1>4. /\ granting'.suite = m /\ granting'.info = r.info
        /\ granting'.late = suite_info[r.info].timed_out
        /\ granting' \in [suite : Suites, info : Infos, late : BOOLEAN]
    BY <1>2, <1>3
  <1>5. granting' # NoGrant
    BY <1>2 DEF NoGrant
  <1>6. /\ DOMAIN suites' = DOMAIN suites \cup {m} /\ DOMAIN suites' \subseteq Suites
        /\ suites' \in [DOMAIN suites' -> Nat]
    <2>1. DOMAIN suites \subseteq Suites /\ suites \in [DOMAIN suites -> Nat]
      BY <1>1, Zenon DEF ShootTypes
    <2> QED
      BY <1>2, <2>1 DEF Extended
  <1>7. ShootTypes'
    BY <1>1, <1>2, <1>4, <1>6, Zenon DEF ShootTypes
  <1>8. \A i : Granted(i)' <=> i = r.info
    BY <1>4, <1>5, Zenon DEF Granted
  <1>9. \A i : Pending(i)' => Pending(i)
    BY <1>8, Zenon DEF Pending
  <1>10. PendingInv'
    <2>1. \A i : Pending(i)' => i \in DOMAIN suite_info' /\ suite_info'[i].ret = NoSuite
      BY <1>1, <1>2, <1>9, Zenon DEF PendingInv
    <2>2. \A i, p, q : Waits(p, i)' /\ Waits(q, i)' => p = q
      BY <1>1, Zenon DEF PendingInv
    <2>3. \A i, k : Queued(k, i)' => ~ Granted(i)' /\ \A p : ~ Waits(p, i)'
      BY <1>1, <1>8, Zenon DEF PendingInv
    <2>4. \A i, p : Waits(p, i)' => ~ Granted(i)'
      BY <1>8, Zenon
    <2> QED
      BY <2>1, <2>2, <2>3, <2>4, Zenon DEF PendingInv
  <1>11. WaitInv' /\ SpareInv' /\ CallInv'
    BY <1>2, <1>4, <1>9, SameCall, Zenon
  <1>12. \A x, s : /\ OwnAt(x, s)' <=> OwnAt(x, s)
                   /\ BackupAt(x, s)' <=> BackupAt(x, s)
                   /\ CallAt(x, s)' <=> CallAt(x, s)
                   /\ InfoAt(x, s)' <=> InfoAt(x, s)
                   /\ GrantAt(x, s)' <=> x = r.info /\ s = m
                   /\ ~ GrantAt(x, s)
    BY <1>2, <1>4, <1>5, Zenon DEF OwnAt, BackupAt, CallAt, InfoAt, GrantAt
  <1>13. ASSUME NEW s \in Suites, s # m PROVE Accounted(s)'
    <2>1. \A g, x : Place(g, x, s)' <=> Place(g, x, s)
      BY <1>12, <1>13, Zenon DEF Place
    <2>2. s \in DOMAIN suites' <=> s \in DOMAIN suites
      BY <1>6, <1>13, Zenon
    <2>3. Accounted(s) /\ queue \in Seq(Requests)
      BY <1>1, <1>13, Zenon DEF PlacesInv, ShootTypes
    <2>4. /\ (\E k : Freeing(k, s)') <=> \E k : Freeing(k, s)
          /\ \A k, l : Freeing(k, s)' /\ Freeing(l, s)' => k = l
      BY <2>3, QueueStays, Zenon
    <2> QED
      BY <2>1, <2>2, <2>3, <2>4, Stays, Zenon
  <1>14. Accounted(m)'
    <2>1. Accounted(m) /\ queue \in Seq(Requests)
      BY <1>1, Zenon DEF PlacesInv, ShootTypes
    <2>2. (\A g, x : ~ Place(g, x, m)) /\ \A k : ~ Freeing(k, m)
      BY <1>2, <2>1, Zenon DEF Accounted
    <2>3. \A k : ~ Freeing(k, m)'
      BY <2>1, <2>2, QueueStays, Zenon
    <2>4. \A g, x : Place(g, x, m)' <=> g = "callback" /\ x = r.info
      BY <1>12, <2>2, Zenon DEF Place
    <2>5. m \in DOMAIN suites' /\ InPlace("callback", r.info, m)'
      BY <1>6, <2>3, <2>4, Zenon DEF InPlace
    <2> QED
      BY <2>5, Arrives, Zenon
  <1>15. PlacesInv'
    BY <1>13, <1>14, Zenon DEF PlacesInv
  <1> QED
    BY <1>7, <1>10, <1>11, <1>15, Zenon DEF ShootInv

\* RscMgr serves the next request or puts it aside.
LEMMA GrantNewKeeps ==
  ASSUME ShootInv, ~ crossed, GrantNew
  PROVE  ShootInv'
  <1> DEFINE r == Head(queue)
  <1>1. ShootTypes /\ CallInv /\ PendingInv /\ WaitInv /\ SpareInv /\ PlacesInv
    BY Zenon DEF ShootInv
  <1>2. queue # <<>> /\ r.kind = "alloc" /\ queue' = Tail(queue) /\ queue \in Seq(Requests)
    BY <1>1, Zenon DEF GrantNew, ShootTypes
  <1>3. /\ \A i, k : Queued(k, i)' => Queued(k + 1, i) /\ k + 1 # 1
        /\ \A i, k, l : Queued(k, i)' /\ Queued(l, i)' /\ k + 1 = l + 1 => k = l
        /\ r = queue[1] /\ 1 \in DOMAIN queue /\ r \in Requests
        /\ queue' \in Seq(Requests)
    BY <1>2, Taken, Zenon
  <1>4. Queued(1, r.info) /\ Pending(r.info) /\ \A s : ~ Freeing(1, s)
    <2>1. queue[1].kind # "free"
      BY <1>2, <1>3, Zenon
    <2> QED
      BY <1>2, <1>3, <2>1, Zenon DEF Queued, Freeing, Pending
  <1>5. /\ r.info \in Infos /\ r.size \in Nat
        /\ r \in [kind : {"alloc"}, size : Nat, info : Infos, contig : BOOLEAN]
    BY <1>2, <1>3, AllocMessage, Zenon
  <1>6. \/ Grant(r) /\ waiting' = waiting
        \/ /\ waiting' = waiting \cup {r}
           /\ UNCHANGED <<mem_sem, call, alloc_sem, free_sem, suite_info, shoot_full_suite,
                          own, suites, granting, crossed>>
    BY Zenon DEF GrantNew
  <1> HIDE DEF r
  <1>7. ASSUME NEW i, NEW k, Queued(k, i)' PROVE i # r.info /\ \E l : Queued(l, i)
    <2>1. Queued(k + 1, i) /\ k + 1 # 1
      BY <1>3, <1>7, Zenon
    <2>2. i # r.info
      BY <1>1, <1>4, <2>1, Zenon DEF PendingInv
    <2> QED
      BY <2>1, <2>2, Zenon
  <1>8. ASSUME NEW i, NEW k, NEW l, Queued(k, i)', Queued(l, i)' PROVE k = l
    <2>1. Queued(k + 1, i) /\ Queued(l + 1, i)
      BY <1>3, <1>8, Zenon
    <2>2. k + 1 = l + 1
      BY <1>1, <2>1, Zenon DEF PendingInv
    <2> QED
      BY <1>3, <1>8, <2>2, Zenon
  <1>9. \A p : ~ Waits(p, r.info)
    BY <1>1, <1>4, Zenon DEF PendingInv
  <1>10. CASE Grant(r) /\ waiting' = waiting
    <2>1. \A i, p : Waits(p, i)' => i # r.info /\ Waits(p, i)
      BY <1>9, <1>10, Zenon DEF Waits
    <2>2. waiting' \subseteq [kind : {"alloc"}, size : Nat, info : Infos, contig : BOOLEAN]
      BY <1>1, <1>10, Zenon DEF ShootTypes
    <2> QED
      BY <1>2, <1>3, <1>4, <1>5, <1>7, <1>8, <1>10, <2>1, <2>2, GrantKeeps, Zenon
  <1>11. CASE /\ waiting' = waiting \cup {r}
              /\ UNCHANGED <<mem_sem, call, alloc_sem, free_sem, suite_info, shoot_full_suite,
                             own, suites, granting, crossed>>
    <2>1. ShootTypes'
      <3>1. waiting' \subseteq [kind : {"alloc"}, size : Nat, info : Infos, contig : BOOLEAN]
        BY <1>1, <1>5, <1>11, Zenon DEF ShootTypes
      <3> QED
        BY <1>1, <1>3, <1>11, <3>1, Zenon DEF ShootTypes
    <2>2. \A i, p : Waits(p, i)' <=> Waits(p, i) \/ (p = r /\ i = r.info)
      BY <1>11, Zenon DEF Waits
    <2>3. \A i : Granted(i)' <=> Granted(i)
      BY <1>11, Zenon DEF Granted
    <2>4. \A i : Pending(i)' => Pending(i)
      BY <1>4, <1>7, <2>2, <2>3, Zenon DEF Pending
    <2>5. PendingInv'
      <3>1. \A i : Pending(i)' => i \in DOMAIN suite_info' /\ suite_info'[i].ret = NoSuite
        BY <1>1, <1>11, <2>4, Zenon DEF PendingInv
      <3>2. \A i, p, q : Waits(p, i)' /\ Waits(q, i)' => p = q
        BY <1>1, <1>9, <2>2, Zenon DEF PendingInv
      <3>3. \A i, k : Queued(k, i)' => ~ Granted(i)' /\ \A p : ~ Waits(p, i)'
        BY <1>1, <1>7, <2>2, <2>3, Zenon DEF PendingInv
      <3>4. \A i, p : Waits(p, i)' => ~ Granted(i)'
        BY <1>1, <1>4, <2>2, <2>3, Zenon DEF PendingInv
      <3> QED
        BY <1>8, <3>1, <3>2, <3>3, <3>4, Zenon DEF PendingInv
    <2>6. WaitInv' /\ SpareInv' /\ CallInv'
      <3>1. granting'.late => suite_info[granting'.info].timed_out
        BY <1>1, <1>11, Zenon DEF WaitInv
      <3> QED
        BY <1>11, <2>4, <3>1, SameCall, Zenon
    <2>7. ASSUME NEW s \in Suites PROVE Accounted(s)'
      <3>1. Accounted(s) /\ queue \in Seq(Requests)
        BY <1>1, Zenon DEF PlacesInv, ShootTypes
      <3>2. /\ (\E k : Freeing(k, s)') <=> \E k : Freeing(k, s)
            /\ \A k, l : Freeing(k, s)' /\ Freeing(l, s)' => k = l
        BY <1>2, <1>4, <3>1, QueueStays, Zenon
      <3>3. \A g, x : Place(g, x, s)' <=> Place(g, x, s)
        BY <1>11, SamePlaces, Zenon
      <3> QED
        BY <1>11, <3>1, <3>2, <3>3, Stays, Zenon
    <2> QED
      BY <2>1, <2>5, <2>6, <2>7, Zenon DEF ShootInv, PlacesInv
  <1> QED
    BY <1>6, <1>10, <1>11, Zenon

\* RscMgr serves a request it had put aside.
LEMMA GrantWaitingKeeps ==
  ASSUME ShootInv, ~ crossed, GrantWaiting
  PROVE  ShootInv'
  <1>1. ShootTypes /\ PendingInv
    BY Zenon DEF ShootInv
  <1>2. PICK r \in waiting : Grant(r) /\ waiting' = waiting \ {r} /\ queue' = queue
    BY Zenon DEF GrantWaiting
  <1>3. /\ waiting \subseteq [kind : {"alloc"}, size : Nat, info : Infos, contig : BOOLEAN]
        /\ queue \in Seq(Requests)
    BY <1>1, Zenon DEF ShootTypes
  <1>4. r.info \in Infos /\ r.size \in Nat /\ Waits(r, r.info) /\ Pending(r.info)
    BY <1>2, <1>3, Zenon DEF Waits, Pending
  <1>5. \A i, k : Queued(k, i)' <=> Queued(k, i)
    BY <1>2, Zenon DEF Queued
  <1>6. \A i, k, l : Queued(k, i)' /\ Queued(l, i)' => k = l
    BY <1>1, <1>5, Zenon DEF PendingInv
  <1>7. \A i, k : Queued(k, i)' => i # r.info /\ \E l : Queued(l, i)
    BY <1>1, <1>4, <1>5, Zenon DEF PendingInv
  <1>8. \A i, p : Waits(p, i)' => Waits(p, i) /\ p # r
    BY <1>2, Zenon DEF Waits
  <1>9. \A i, p : Waits(p, i)' => i # r.info /\ Waits(p, i)
    BY <1>1, <1>4, <1>8, Zenon DEF PendingInv
  <1>10. waiting' \subseteq [kind : {"alloc"}, size : Nat, info : Infos, contig : BOOLEAN]
    BY <1>2, <1>3, Zenon
  <1>11. queue' \in Seq(Requests)
    BY <1>2, <1>3, Zenon
  <1> QED
    BY <1>2, <1>4, <1>6, <1>7, <1>9, <1>10, <1>11, GrantKeeps, Zenon

-----------------------------------------------------------------------------
(* The callbacks                                                           *)

\* A suite is only where it is.
LEMMA Sole ==
  ASSUME NEW s, Accounted(s), NEW h, NEW y, Place(h, y, s)
  PROVE  InPlace(h, y, s) /\ s \in DOMAIN suites
  <1>1. /\ \A g, x : Place(g, x, s) => g = h /\ x = y
        /\ \A k : ~ Freeing(k, s)
        /\ s \in DOMAIN suites
    BY Zenon DEF Accounted
  <1> QED
    BY <1>1, Zenon DEF InPlace

\* A suite on its way back is nowhere else.
LEMMA SoleWay ==
  ASSUME NEW s, Accounted(s), NEW n, Freeing(n, s)
  PROVE  OnWayBack(n, s) /\ s \in DOMAIN suites
  <1>1. /\ \A k : Freeing(k, s) => k = n
        /\ \A g, x : ~ Place(g, x, s)
        /\ s \in DOMAIN suites
    BY Zenon DEF Accounted
  <1> QED
    BY <1>1, Zenon DEF OnWayBack

\* A callback that runs has the only copy of its suite and an alloc_msg_t that is
\* in no other request.
LEMMA Callback ==
  ASSUME ShootInv, ~ crossed, granting # NoGrant
  PROVE  /\ granting.suite \in Suites /\ granting.info \in Infos /\ granting.late \in BOOLEAN
         /\ granting.info \in DOMAIN suite_info /\ suite_info[granting.info].ret = NoSuite
         /\ granting.suite \in DOMAIN suites
         /\ InPlace("callback", granting.info, granting.suite)
  <1>1. ShootTypes /\ PendingInv /\ PlacesInv
    BY Zenon DEF ShootInv
  <1>2. granting.suite \in Suites /\ granting.info \in Infos /\ granting.late \in BOOLEAN
    BY <1>1, Zenon DEF ShootTypes
  <1>3. granting.info \in DOMAIN suite_info /\ suite_info[granting.info].ret = NoSuite
    BY <1>1, Zenon DEF PendingInv, Pending, Granted
  <1>4. Place("callback", granting.info, granting.suite) /\ Accounted(granting.suite)
    BY <1>1, <1>2, Zenon DEF Place, GrantAt, PlacesInv
  <1> QED
    BY <1>2, <1>3, <1>4, Sole, Zenon

\* Its suite is in no other place.
LEMMA OnlyCallback ==
  ASSUME NEW i, NEW s, InPlace("callback", i, s)
  PROVE  \A x : ~ OwnAt(x, s) /\ ~ BackupAt(x, s) /\ ~ CallAt(x, s) /\ ~ InfoAt(x, s)
  <1>1. \A g, x : Place(g, x, s) => g = "callback"
    BY Zenon DEF InPlace
  <1>2. \A x : /\ ~ Place("own", x, s) /\ ~ Place("backup", x, s)
               /\ ~ Place("call", x, s) /\ ~ Place("info", x, s)
    BY <1>1, Zenon
  <1> QED
    BY <1>2, Zenon DEF Place

\* When it ends, its request is over and the others are as before.
LEMMA CallbackEnds ==
  ASSUME PendingInv, granting # NoGrant, granting' = NoGrant, waiting' = waiting,
         \A i, k : Queued(k, i)' <=> Queued(k, i),
         \A j \in DOMAIN suite_info : j # granting.info =>
             j \in DOMAIN suite_info' /\ suite_info'[j] = suite_info[j]
  PROVE  PendingInv' /\ \A j : Pending(j)' <=> Pending(j) /\ j # granting.info
  <1>1. \A j : ~ Granted(j)' /\ (Granted(j) <=> j = granting.info)
    BY Zenon DEF Granted
  <1>2. \A r, j : Waits(r, j)' <=> Waits(r, j)
    BY Zenon DEF Waits
  <1>3. ASSUME NEW j PROVE Pending(j)' <=> Pending(j) /\ j # granting.info
    <2>1. CASE j = granting.info
      <3>1. (\A k : ~ Queued(k, j)) /\ \A r : ~ Waits(r, j)
        BY <1>1, <2>1, Zenon DEF PendingInv
      <3> QED
        BY <1>1, <1>2, <2>1, <3>1, Zenon DEF Pending
    <2>2. CASE j # granting.info
      BY <1>1, <1>2, <2>2, Zenon DEF Pending
    <2> QED
      BY <2>1, <2>2, Zenon
  <1>4. \A j : Pending(j)' => j \in DOMAIN suite_info' /\ suite_info'[j].ret = NoSuite
    BY <1>3, Zenon DEF PendingInv
  <1>5. PendingInv'
    <2>1. \A i, k, l : Queued(k, i)' /\ Queued(l, i)' => k = l
      BY Zenon DEF PendingInv
    <2>2. \A i, r, q : Waits(r, i)' /\ Waits(q, i)' => r = q
      BY <1>2, Zenon DEF PendingInv
    <2>3. \A i, k : Queued(k, i)' => ~ Granted(i)' /\ \A r : ~ Waits(r, i)'
      BY <1>1, <1>2, Zenon DEF PendingInv
    <2> QED
      BY <1>1, <1>4, <2>1, <2>2, <2>3, Zenon DEF PendingInv
  <1> QED
    BY <1>3, <1>5, Zenon

\* What is said of the spare alloc_msg_t goes on if the call does and none is taken.
LEMMA SpareStays ==
  ASSUME SpareInv, call' = call, DOMAIN suite_info' \subseteq DOMAIN suite_info
  PROVE  SpareInv'
  <1>1. \A n : Spare(n) => Spare(n)'
    BY Zenon DEF Spare
  <1> QED
    BY <1>1, Zenon DEF SpareInv

\* The alloc_msg_t at i is freed.
LEMMA InfoFreed ==
  ASSUME ShootTypes, NEW i \in DOMAIN suite_info,
         suite_info' = Restricted(suite_info, DOMAIN suite_info \ {i})
  PROVE  /\ DOMAIN suite_info' = DOMAIN suite_info \ {i}
         /\ \A j \in DOMAIN suite_info : j # i =>
                j \in DOMAIN suite_info' /\ suite_info'[j] = suite_info[j]
         /\ DOMAIN suite_info' \subseteq Infos
         /\ suite_info' \in [DOMAIN suite_info' -> [ret : NoneOr(Suites), timed_out : BOOLEAN]]
         /\ \A x, s : InfoAt(x, s)' <=> InfoAt(x, s) /\ x # i
  <1>1. /\ DOMAIN suite_info \subseteq Infos
        /\ suite_info \in [DOMAIN suite_info -> [ret : NoneOr(Suites), timed_out : BOOLEAN]]
    BY Zenon DEF ShootTypes
  <1>2. /\ DOMAIN suite_info' = DOMAIN suite_info \ {i}
        /\ \A j \in DOMAIN suite_info : j # i =>
               j \in DOMAIN suite_info' /\ suite_info'[j] = suite_info[j]
    BY Zenon DEF Restricted
  <1>3. suite_info' \in [DOMAIN suite_info' -> [ret : NoneOr(Suites), timed_out : BOOLEAN]]
    BY <1>1, Zenon DEF Restricted
  <1>4. \A x, s : InfoAt(x, s)' <=> InfoAt(x, s) /\ x # i
    BY <1>2, Zenon DEF InfoAt
  <1> QED
    BY <1>1, <1>2, <1>3, <1>4, Zenon

\* No grant is not late.
LEMMA NoGrantLate == ~ NoGrant.late
  BY DEF NoGrant

\* A request to free a suite.
LEMMA FreeMessage ==
  ASSUME NEW s \in Suites, NEW b \in {"freeCBR", "freeCBR_nowait"}
  PROVE  /\ FreeRequest(s, b) \in Requests /\ FreeRequest(s, b).kind = "free"
         /\ FreeRequest(s, b).suite = s
  BY DEF FreeRequest, Requests

\* A free for suite m is sent: nothing else in the queue changes.
LEMMA SentFree ==
  ASSUME queue \in Seq(Requests), NEW m \in Suites, NEW b \in {"freeCBR", "freeCBR_nowait"},
         queue' = Append(queue, FreeRequest(m, b))
  PROVE  /\ queue' \in Seq(Requests)
         /\ \A i, k : Queued(k, i)' <=> Queued(k, i)
         /\ \A s, k : s # m => (Freeing(k, s)' <=> Freeing(k, s))
         /\ (\A k : ~ Freeing(k, m)) => \E n : \A k : Freeing(k, m)' <=> k = n
  <1> DEFINE e == FreeRequest(m, b)
             n == Len(queue) + 1
  <1>1. e \in Requests /\ e.kind = "free" /\ e.suite = m /\ e.kind # "alloc"
    BY FreeMessage
  <1> HIDE DEF e
  <1>2. /\ \A i, k : Queued(k, i)' <=> Queued(k, i) \/ (k = n /\ e.kind = "alloc" /\ e.info = i)
        /\ \A s, k : Freeing(k, s)' <=> Freeing(k, s) \/ (k = n /\ e.kind = "free" /\ e.suite = s)
        /\ queue' \in Seq(Requests)
    <2>1. queue' = Append(queue, e)
      BY DEF e
    <2> QED
      BY <1>1, <2>1, Sent
  <1> HIDE DEF n
  <1>3. \A i, k : Queued(k, i)' <=> Queued(k, i)
    BY <1>1, <1>2, Zenon
  <1>4. \A s, k : s # m => (Freeing(k, s)' <=> Freeing(k, s))
    BY <1>1, <1>2, Zenon
  <1>5. ASSUME \A k : ~ Freeing(k, m) PROVE \A k : Freeing(k, m)' <=> k = n
    BY <1>1, <1>2, <1>5
  <1> QED
    BY <1>2, <1>3, <1>4, <1>5, Zenon

\* allocCBR frees the suite of a caller that has given up.
LEMMA LateCBRKeeps ==
  ASSUME ShootInv, ~ crossed, LateCBR
  PROVE  ShootInv'
  <1>0. PICK m, i : m = granting.suite /\ i = granting.info
    BY Zenon
  <1>1. ShootTypes /\ CallInv /\ PendingInv /\ WaitInv /\ SpareInv /\ PlacesInv
    BY Zenon DEF ShootInv
  <1>2. granting # NoGrant /\ granting.late
    BY NoGrantLate, Zenon DEF LateCBR
  <1>3. /\ m \in Suites /\ i \in DOMAIN suite_info /\ suite_info[i].ret = NoSuite
        /\ m \in DOMAIN suites /\ InPlace("callback", i, m)
    BY <1>0, <1>2, Callback
  <1>4. /\ queue' = Append(queue, FreeRequest(m, "freeCBR_nowait"))
        /\ suite_info' = Restricted(suite_info, DOMAIN suite_info \ {i})
        /\ granting' = NoGrant
        /\ UNCHANGED <<mem_sem, call, alloc_sem, free_sem, shoot_full_suite, own,
                       waiting, suites, crossed>>
    BY <1>0, Zenon DEF LateCBR
  <1>5. queue \in Seq(Requests) /\ "freeCBR_nowait" \in {"freeCBR", "freeCBR_nowait"}
    BY <1>1, Zenon DEF ShootTypes
  <1>6. /\ queue' \in Seq(Requests)
        /\ \A j, k : Queued(k, j)' <=> Queued(k, j)
        /\ \A s, k : s # m => (Freeing(k, s)' <=> Freeing(k, s))
        /\ (\A k : ~ Freeing(k, m)) => \E n : \A k : Freeing(k, m)' <=> k = n
    BY <1>3, <1>4, <1>5, SentFree, Zenon
  <1>7. /\ DOMAIN suite_info' = DOMAIN suite_info \ {i}
        /\ \A j \in DOMAIN suite_info : j # i =>
               j \in DOMAIN suite_info' /\ suite_info'[j] = suite_info[j]
        /\ DOMAIN suite_info' \subseteq Infos
        /\ suite_info' \in [DOMAIN suite_info' -> [ret : NoneOr(Suites), timed_out : BOOLEAN]]
        /\ \A x, s : InfoAt(x, s)' <=> InfoAt(x, s) /\ x # i
    BY <1>1, <1>3, <1>4, InfoFreed, Zenon
  <1>8. ShootTypes'
    BY <1>1, <1>4, <1>6, <1>7, Zenon DEF ShootTypes
  <1>9. PendingInv' /\ \A j : Pending(j)' <=> Pending(j) /\ j # i
    BY <1>1, <1>2, <1>4, <1>6, <1>7, <1>0, CallbackEnds, Zenon
  <1>10. WaitInv'
    <2>1. suite_info[i].timed_out
      BY <1>0, <1>1, <1>2, Zenon DEF WaitInv
    <2>2. ~ granting'.late
      BY <1>4, NoGrantLate, Zenon
    <2>3. call' \in Calls /\ call'.pc \in {"wait", "late"} =>
             call'.info \in DOMAIN suite_info' /\ ~ suite_info'[call'.info].timed_out
      BY <1>1, <1>4, <1>7, <2>1, Zenon DEF WaitInv
    <2>4. alloc_sem' => call' \in Calls /\ call'.pc = "wait" /\ ~ Pending(call.info)'
      BY <1>1, <1>4, <1>9, Zenon DEF WaitInv
    <2> QED
      BY <2>2, <2>3, <2>4, Zenon DEF WaitInv
  <1>11. SpareInv' /\ CallInv'
    BY <1>1, <1>4, <1>7, SpareStays, Zenon DEF CallInv
  <1>12. \A x, s : /\ OwnAt(x, s)' <=> OwnAt(x, s)
                   /\ BackupAt(x, s)' <=> BackupAt(x, s)
                   /\ CallAt(x, s)' <=> CallAt(x, s)
                   /\ GrantAt(x, s) <=> x = i /\ s = m
                   /\ ~ GrantAt(x, s)'
    BY <1>0, <1>2, <1>4, Zenon DEF OwnAt, BackupAt, CallAt, GrantAt
  <1>13. \A x : \A s \in Suites : InfoAt(x, s)' <=> InfoAt(x, s)
    BY <1>3, <1>7, ShootAssumption, Zenon DEF InfoAt
  <1>14. ASSUME NEW s \in Suites, s # m PROVE Accounted(s)'
    <2>1. Accounted(s)
      BY <1>1, <1>14, Zenon DEF PlacesInv
    <2>2. ASSUME NEW g, NEW x PROVE Place(g, x, s)' <=> Place(g, x, s)
      BY <1>12, <1>13, <1>14, Zenon DEF Place
    <2>3. s \in DOMAIN suites' <=> s \in DOMAIN suites
      BY <1>4, Zenon
    <2>4. \A k : Freeing(k, s)' <=> Freeing(k, s)
      BY <1>6, <1>14, Zenon
    <2>5. \A k, l : Freeing(k, s)' /\ Freeing(l, s)' => k = l
      BY <2>1, <2>4, Zenon DEF Accounted
    <2> QED
      BY <2>1, <2>2, <2>3, <2>4, <2>5, Stays, Zenon
  <1>15. Accounted(m)'
    <2>1. PICK n : \A k : Freeing(k, m)' <=> k = n
      BY <1>3, <1>6, Zenon DEF InPlace
    <2>2. \A x : ~ OwnAt(x, m) /\ ~ BackupAt(x, m) /\ ~ CallAt(x, m) /\ ~ InfoAt(x, m)
      BY <1>3, OnlyCallback, Zenon
    <2>3. ASSUME NEW g, NEW x PROVE ~ Place(g, x, m)'
      BY <1>3, <1>12, <1>13, <2>2, Zenon DEF Place
    <2>4. OnWayBack(n, m)' /\ m \in DOMAIN suites'
      BY <1>3, <1>4, <2>1, <2>3, Zenon DEF OnWayBack
    <2> QED
      BY <2>4, Departs, Zenon
  <1>16. PlacesInv'
    BY <1>14, <1>15, Zenon DEF PlacesInv
  <1> QED
    BY <1>8, <1>9, <1>10, <1>11, <1>16, Zenon DEF ShootInv

\* The answer is stored in the alloc_msg_t at i.
LEMMA InfoAnswered ==
  ASSUME ShootTypes, NEW i \in DOMAIN suite_info, NEW m \in Suites,
         suite_info[i].ret = NoSuite,
         suite_info' = [suite_info EXCEPT ![i].ret = m]
  PROVE  /\ DOMAIN suite_info' = DOMAIN suite_info
         /\ suite_info' \in [DOMAIN suite_info' -> [ret : NoneOr(Suites), timed_out : BOOLEAN]]
         /\ \A j \in DOMAIN suite_info : j # i => suite_info'[j] = suite_info[j]
         /\ \A j \in DOMAIN suite_info : suite_info'[j].timed_out = suite_info[j].timed_out
         /\ \A x : \A s \in Suites : InfoAt(x, s)' <=> InfoAt(x, s) \/ (x = i /\ s = m)
  <1>1. suite_info \in [DOMAIN suite_info -> [ret : NoneOr(Suites), timed_out : BOOLEAN]]
    BY Zenon DEF ShootTypes
  <1>2. /\ DOMAIN suite_info' = DOMAIN suite_info
        /\ \A j \in DOMAIN suite_info : j # i => suite_info'[j] = suite_info[j]
        /\ suite_info'[i].timed_out = suite_info[i].timed_out /\ suite_info'[i].ret = m
    BY <1>1
  <1>3. suite_info' \in [DOMAIN suite_info' -> [ret : NoneOr(Suites), timed_out : BOOLEAN]]
    BY <1>1 DEF NoneOr
  <1>4. \A j \in DOMAIN suite_info : suite_info'[j].timed_out = suite_info[j].timed_out
    BY <1>2, Zenon
  <1>5. ASSUME NEW x, NEW s \in Suites
        PROVE  InfoAt(x, s)' <=> InfoAt(x, s) \/ (x = i /\ s = m)
    <2>1. CASE x = i
      BY <1>2, <2>1, ShootAssumption, Zenon DEF InfoAt
    <2>2. CASE x # i
      BY <1>2, <2>2, Zenon DEF InfoAt
    <2> QED
      BY <2>1, <2>2, Zenon
  <1> QED
    BY <1>2, <1>3, <1>4, <1>5, Zenon

\* allocCBR hands its suite to the caller that waits, or to nobody if the answer
\* crosses the end of the wait.
LEMMA AllocCBRKeeps ==
  ASSUME ShootInv, ~ crossed, AllocCBR
  PROVE  ShootInv'
  <1>0. PICK m, i : m = granting.suite /\ i = granting.info
    BY Zenon
  <1>1. ShootTypes /\ CallInv /\ PendingInv /\ WaitInv /\ SpareInv /\ PlacesInv
    BY Zenon DEF ShootInv
  <1>2. granting # NoGrant
    BY Zenon DEF AllocCBR
  <1>3. /\ m \in Suites /\ i \in DOMAIN suite_info /\ suite_info[i].ret = NoSuite
        /\ m \in DOMAIN suites /\ InPlace("callback", i, m)
    BY <1>0, <1>2, Callback
  <1>4. /\ suite_info' = [suite_info EXCEPT ![i].ret = m]
        /\ alloc_sem' = TRUE
        /\ granting' = NoGrant
        /\ crossed' = (call.pc # "wait" \/ call.info # i)
        /\ UNCHANGED <<mem_sem, call, free_sem, shoot_full_suite, own, queue, waiting, suites>>
    BY <1>0, Zenon DEF AllocCBR
  <1>5. /\ DOMAIN suite_info' = DOMAIN suite_info
        /\ suite_info' \in [DOMAIN suite_info' -> [ret : NoneOr(Suites), timed_out : BOOLEAN]]
        /\ \A j \in DOMAIN suite_info : j # i => suite_info'[j] = suite_info[j]
        /\ \A j \in DOMAIN suite_info : suite_info'[j].timed_out = suite_info[j].timed_out
        /\ \A x : \A s \in Suites : InfoAt(x, s)' <=> InfoAt(x, s) \/ (x = i /\ s = m)
    BY <1>1, <1>3, <1>4, InfoAnswered, Zenon
  <1>6. ShootTypes' /\ CallInv'
    <2>1. crossed' \in BOOLEAN /\ alloc_sem' \in BOOLEAN
      BY <1>4
    <2> QED
      BY <1>1, <1>4, <1>5, <2>1, Zenon DEF ShootTypes, CallInv
  <1>7. ASSUME ~ crossed' PROVE PendingInv' /\ WaitInv' /\ SpareInv' /\ PlacesInv'
    <2>1. call.pc = "wait" /\ call.info = i
      BY <1>4, <1>7
    <2>2. call \in Calls
      BY <1>1, <2>1, NoCallPc, Zenon DEF ShootTypes, SrmPcs
    <2>3. \A j, k : Queued(k, j)' <=> Queued(k, j)
      BY <1>4, Zenon DEF Queued
    <2>4. PendingInv' /\ \A j : Pending(j)' <=> Pending(j) /\ j # i
      BY <1>0, <1>1, <1>2, <1>4, <1>5, <2>3, CallbackEnds, Zenon
    <2>5. WaitInv'
      <3>1. ~ granting'.late
        BY <1>4, NoGrantLate, Zenon
      <3>2. call'.info \in DOMAIN suite_info' /\ ~ suite_info'[call'.info].timed_out
        BY <1>1, <1>4, <1>5, <2>1, <2>2, Zenon DEF WaitInv
      <3>3. call' \in Calls /\ call'.pc = "wait" /\ ~ Pending(call.info)'
        BY <1>4, <2>1, <2>2, <2>4, Zenon
      <3> QED
        BY <3>1, <3>2, <3>3, Zenon DEF WaitInv
    <2>6. SpareInv'
      BY <1>1, <1>4, <1>5, SpareStays, Zenon
    <2>7. \A x, s : /\ OwnAt(x, s)' <=> OwnAt(x, s)
                    /\ BackupAt(x, s)' <=> BackupAt(x, s)
                    /\ CallAt(x, s)' <=> CallAt(x, s)
                    /\ GrantAt(x, s) <=> x = i /\ s = m
                    /\ ~ GrantAt(x, s)'
      BY <1>0, <1>2, <1>4, Zenon DEF OwnAt, BackupAt, CallAt, GrantAt
    <2>8. \A k, s : Freeing(k, s)' <=> Freeing(k, s)
      BY <1>4, Zenon DEF Freeing
    <2>9. ASSUME NEW s \in Suites, s # m PROVE Accounted(s)'
      <3>1. Accounted(s)
        BY <1>1, <2>9, Zenon DEF PlacesInv
      <3>2. ASSUME NEW g, NEW x PROVE Place(g, x, s)' <=> Place(g, x, s)
        BY <1>5, <2>7, <2>9, Zenon DEF Place
      <3>3. \A k, l : Freeing(k, s)' /\ Freeing(l, s)' => k = l
        BY <2>8, <3>1, Zenon DEF Accounted
      <3> QED
        BY <1>4, <2>8, <3>1, <3>2, <3>3, Stays, Zenon
    <2>10. Accounted(m)'
      <3>1. \A x : ~ OwnAt(x, m) /\ ~ BackupAt(x, m) /\ ~ CallAt(x, m) /\ ~ InfoAt(x, m)
        BY <1>3, OnlyCallback, Zenon
      <3>2. ASSUME NEW g, NEW x PROVE Place(g, x, m)' <=> g = "info" /\ x = i
        BY <1>3, <1>5, <2>7, <3>1, Zenon DEF Place
      <3>3. InPlace("info", i, m)' /\ m \in DOMAIN suites'
        BY <1>3, <1>4, <2>8, <3>2, Zenon DEF InPlace
      <3> QED
        BY <3>3, Arrives, Zenon
    <2> QED
      BY <2>4, <2>5, <2>6, <2>9, <2>10, Zenon DEF PlacesInv
  <1> QED
    BY <1>6, <1>7, Zenon DEF ShootInv

\* A suite is freed.
LEMMA ReleaseKeeps ==
  ASSUME ShootInv, ~ crossed, Release
  PROVE  ShootInv'
  <1>1. ShootTypes /\ CallInv /\ PendingInv /\ WaitInv /\ SpareInv /\ PlacesInv
    BY Zenon DEF ShootInv
  <1>2. PICK m : m = Head(queue).suite
    BY Zenon
  <1>3. /\ queue # <<>> /\ Head(queue).kind = "free" /\ queue' = Tail(queue)
        /\ suites' = Restricted(suites, DOMAIN suites \ {m})
        /\ free_sem' = (free_sem \/ Head(queue).cbr = "freeCBR")
        /\ UNCHANGED <<mem_sem, call, alloc_sem, suite_info, shoot_full_suite, own,
                       waiting, granting, crossed>>
    BY <1>2, Zenon DEF Release
  <1>4. queue \in Seq(Requests)
    BY <1>1, Zenon DEF ShootTypes
  <1>5. /\ \A i, k : Queued(k, i)' => Queued(k + 1, i) /\ k + 1 # 1
        /\ \A i, k, l : Queued(k, i)' /\ Queued(l, i)' /\ k + 1 = l + 1 => k = l
        /\ \A s, k : Freeing(k, s)' => Freeing(k + 1, s) /\ k + 1 # 1
        /\ Head(queue) = queue[1] /\ 1 \in DOMAIN queue /\ queue[1] \in Requests
        /\ queue' \in Seq(Requests)
    BY <1>3, <1>4, Taken, Zenon
  <1>6. Freeing(1, m) /\ m \in Suites /\ \A s : Freeing(1, s) => s = m
    <2>1. queue[1].suite \in Suites
      <3>1. queue[1].kind = "free"
        BY <1>3, <1>5, Zenon
      <3> QED
        BY <1>5, <3>1 DEF Requests
    <2> QED
      BY <1>2, <1>3, <1>5, <2>1, Zenon DEF Freeing
  <1>7. /\ DOMAIN suites' = DOMAIN suites \ {m} /\ DOMAIN suites' \subseteq Suites
        /\ suites' \in [DOMAIN suites' -> Nat]
    <2>1. DOMAIN suites \subseteq Suites /\ suites \in [DOMAIN suites -> Nat]
      BY <1>1, Zenon DEF ShootTypes
    <2> QED
      BY <1>3, <2>1, Zenon DEF Restricted
  <1>8. ShootTypes'
    <2>1. free_sem' \in BOOLEAN
      BY <1>1, <1>3 DEF ShootTypes
    <2> QED
      BY <1>1, <1>3, <1>5, <1>7, <2>1, Zenon DEF ShootTypes
  <1>9. /\ \A i, p : Waits(p, i)' <=> Waits(p, i)
        /\ \A i : Granted(i)' <=> Granted(i)
    BY <1>3, Zenon DEF Waits, Granted
  <1>10. \A i : Pending(i)' => Pending(i)
    BY <1>5, <1>9, Zenon DEF Pending
  <1>11. PendingInv'
    <2>1. \A i : Pending(i)' => i \in DOMAIN suite_info' /\ suite_info'[i].ret = NoSuite
      BY <1>1, <1>3, <1>10, Zenon DEF PendingInv
    <2>2. ASSUME NEW i, NEW k, NEW l, Queued(k, i)', Queued(l, i)' PROVE k = l
      <3>1. Queued(k + 1, i) /\ Queued(l + 1, i)
        BY <1>5, <2>2, Zenon
      <3>2. k + 1 = l + 1
        BY <1>1, <3>1, Zenon DEF PendingInv
      <3> QED
        BY <1>5, <2>2, <3>2, Zenon
    <2>3. \A i, p, q : Waits(p, i)' /\ Waits(q, i)' => p = q
      BY <1>1, <1>9, Zenon DEF PendingInv
    <2>4. \A i, k : Queued(k, i)' => ~ Granted(i)' /\ \A p : ~ Waits(p, i)'
      BY <1>1, <1>5, <1>9, Zenon DEF PendingInv
    <2>5. \A i, p : Waits(p, i)' => ~ Granted(i)'
      BY <1>1, <1>9, Zenon DEF PendingInv
    <2> QED
      BY <2>1, <2>2, <2>3, <2>4, <2>5, Zenon DEF PendingInv
  <1>12. WaitInv' /\ SpareInv' /\ CallInv'
    <2>1. granting'.late => suite_info[granting'.info].timed_out
      BY <1>1, <1>3, Zenon DEF WaitInv
    <2> QED
      BY <1>3, <1>10, <2>1, SameCall, Zenon
  <1>13. \A g, x, s : Place(g, x, s)' <=> Place(g, x, s)
    BY <1>3, SamePlaces, Zenon
  <1>14. ASSUME NEW s \in Suites, s # m PROVE Accounted(s)'
    <2>1. Accounted(s) /\ ~ Freeing(1, s)
      BY <1>1, <1>6, <1>14, Zenon DEF PlacesInv
    <2>2. /\ (\E k : Freeing(k, s)') <=> \E k : Freeing(k, s)
          /\ \A k, l : Freeing(k, s)' /\ Freeing(l, s)' => k = l
      BY <1>3, <1>4, <2>1, QueueStays, Zenon
    <2>3. s \in DOMAIN suites' <=> s \in DOMAIN suites
      BY <1>7, <1>14, Zenon
    <2> QED
      BY <1>13, <2>1, <2>2, <2>3, Stays, Zenon
  <1>15. Accounted(m)'
    <2>1. OnWayBack(1, m)
      BY <1>1, <1>6, SoleWay, Zenon DEF PlacesInv
    <2>2. (\A g, x : ~ Place(g, x, m)) /\ \A k : Freeing(k, m) <=> k = 1
      BY <2>1, Zenon DEF OnWayBack
    <2>3. \A k : ~ Freeing(k, m)'
      BY <1>5, <2>2, Zenon
    <2>4. \A g, x : ~ Place(g, x, m)'
      BY <1>13, <2>2, Zenon
    <2>5. m \notin DOMAIN suites'
      BY <1>7, Zenon
    <2> QED
      BY <2>3, <2>4, <2>5, Zenon DEF Accounted
  <1>16. PlacesInv'
    BY <1>14, <1>15, Zenon DEF PlacesInv
  <1> QED
    BY <1>8, <1>11, <1>12, <1>16, Zenon DEF ShootInv

-----------------------------------------------------------------------------
(* The call in progress and its suites                                     *)

\* The call holds suite s.
Held(s) == call # NoCall /\ (s = call.backup \/ s = Subject(call))

\* A call for shoot memory, at one of its steps.
LEMMA CallIs ==
  ASSUME ShootTypes, CallInv, call.pc \in ShootPcs
  PROVE  Good(call) /\ call \in Calls /\ call # NoCall
  <1>1. call # NoCall /\ call.pc \notin SrmPcs
    BY NoCallPc, Zenon DEF ShootPcs, SrmPcs
  <1>2. call \in Calls
    BY <1>1, Zenon DEF ShootTypes
  <1> QED
    BY <1>1, <1>2, Zenon DEF Good, CallInv

\* A good call is one the invariant allows.
LEMMA GoodCall ==
  ASSUME Good(call')
  PROVE  /\ CallInv' /\ call' \in Calls /\ call' # NoCall
         /\ call' = NoCall \/ (call'.pc \in SrmPcs /\ call'.backup = NoSuite) \/ call' \in Calls
  <1>1. call' \in Calls /\ call'.pc \in ShootPcs
    BY Zenon DEF Good, Calls, ShootPcs
  <1>2. call' # NoCall
    BY <1>1, NoCallPc, Zenon DEF ShootPcs
  <1> QED
    BY <1>1, <1>2, Zenon DEF Good, CallInv

\* The suite of a call.
LEMMA SubjectAt ==
  ASSUME NEW s \in Suites
  PROVE  /\ s = Subject(call) <=> \E x : CallAt(x, s)
         /\ s = Subject(call) => \A x : CallAt(x, s) <=> x = call.next
  <1>1. s # NoSuite
    BY ShootAssumption, Zenon
  <1>2. s = Subject(call) <=> call.pc \in {"free", "return"} /\ s = call.suite
    BY <1>1, Zenon DEF Subject
  <1> QED
    BY <1>2, Zenon DEF CallAt

\* The same after a step.
LEMMA SubjectNext ==
  ASSUME NEW s \in Suites
  PROVE  /\ s = Subject(call') <=> \E x : CallAt(x, s)'
         /\ s = Subject(call') => \A x : CallAt(x, s)' <=> x = call'.next
  <1>1. s # NoSuite
    BY ShootAssumption, Zenon
  <1>2. s = Subject(call') <=> call'.pc \in {"free", "return"} /\ s = call'.suite
    BY <1>1, Zenon DEF Subject
  <1> QED
    BY <1>2, Zenon DEF CallAt

\* No call is about a suite.
LEMMA NoSubject == Subject(NoCall) = NoSuite
  BY NoCallPc, Zenon DEF Subject

\* A suite the call holds is in no other place, and once in the call.
LEMMA HeldIs ==
  ASSUME NEW s \in Suites, Accounted(s), Held(s)
  PROVE  /\ s \in DOMAIN suites
         /\ \A x : ~ OwnAt(x, s) /\ ~ InfoAt(x, s) /\ ~ GrantAt(x, s)
         /\ \A k : ~ Freeing(k, s)
         /\ ~ (s = call.backup /\ s = Subject(call))
  <1>1. PICK g, x : Place(g, x, s) /\ g \in {"backup", "call"}
    <2>1. CASE s = call.backup
      BY <2>1, Zenon DEF Held, Place, BackupAt
    <2>2. CASE s = Subject(call)
      BY <2>2, SubjectAt, Zenon DEF Place
    <2> QED
      BY <2>1, <2>2, Zenon DEF Held
  <1>2. InPlace(g, x, s) /\ s \in DOMAIN suites
    BY <1>1, Sole, Zenon
  <1>3. (\A h, y : Place(h, y, s) => h = g) /\ \A k : ~ Freeing(k, s)
    BY <1>2, Zenon DEF InPlace
  <1>4. \A y : ~ Place("own", y, s) /\ ~ Place("info", y, s) /\ ~ Place("callback", y, s)
    BY <1>1, <1>3, Zenon
  <1>5. \A y : ~ OwnAt(y, s) /\ ~ InfoAt(y, s) /\ ~ GrantAt(y, s)
    BY <1>4, Zenon DEF Place
  <1>6. ASSUME s = call.backup, s = Subject(call) PROVE FALSE
    <2>1. PICK y : CallAt(y, s)
      BY <1>6, SubjectAt, Zenon
    <2>2. Place("backup", mem_sem, s) /\ Place("call", y, s)
      BY <1>6, <2>1, Zenon DEF Held, Place, BackupAt
    <2>3. "backup" = g /\ "call" = g
      BY <1>3, <2>2, Zenon
    <2> QED
      BY <2>3
  <1> QED
    BY <1>2, <1>3, <1>5, <1>6, Zenon

\* A suite the call holds after the step, and nobody else, is accounted for.
LEMMA HeldNext ==
  ASSUME NEW s \in Suites, Held(s)', s \in DOMAIN suites',
         ~ (s = call'.backup /\ s = Subject(call')),
         \A x : ~ OwnAt(x, s)' /\ ~ InfoAt(x, s)' /\ ~ GrantAt(x, s)',
         \A k : ~ Freeing(k, s)'
  PROVE  Accounted(s)'
  <1>1. CASE s = call'.backup
    <2>1. (\A x : ~ CallAt(x, s)') /\ \A x : BackupAt(x, s)' <=> x = mem_sem'
      BY <1>1, SubjectNext, Zenon DEF BackupAt, Held
    <2>2. PICK y : y = mem_sem'
      BY Zenon
    <2>3. ASSUME NEW g, NEW x PROVE Place(g, x, s)' <=> g = "backup" /\ x = y
      BY <2>1, <2>2, Zenon DEF Place
    <2>4. InPlace("backup", y, s)'
      BY <2>3, Zenon DEF InPlace
    <2> QED
      BY <2>4, Arrives, Zenon
  <1>2. CASE s = Subject(call')
    <2>1. (\A x : ~ BackupAt(x, s)') /\ \A x : CallAt(x, s)' <=> x = call'.next
      BY <1>2, SubjectNext, Zenon DEF BackupAt
    <2>2. PICK y : y = call'.next
      BY Zenon
    <2>3. ASSUME NEW g, NEW x PROVE Place(g, x, s)' <=> g = "call" /\ x = y
      BY <2>1, <2>2, Zenon DEF Place
    <2>4. InPlace("call", y, s)'
      BY <2>3, Zenon DEF InPlace
    <2> QED
      BY <2>4, Arrives, Zenon
  <1> QED
    BY <1>1, <1>2, Zenon DEF Held

\* A suite the call has nothing to do with stays accounted for.
LEMMA NotHeld ==
  ASSUME NEW s \in Suites, Accounted(s), ~ Held(s), ~ Held(s)',
         s \in DOMAIN suites' <=> s \in DOMAIN suites,
         \A x : /\ OwnAt(x, s)' <=> OwnAt(x, s)
                /\ InfoAt(x, s)' <=> InfoAt(x, s)
                /\ GrantAt(x, s)' <=> GrantAt(x, s),
         (\E k : Freeing(k, s)') <=> \E k : Freeing(k, s),
         \A k, l : Freeing(k, s)' /\ Freeing(l, s)' => k = l
  PROVE  Accounted(s)'
  <1>1. s # NoSuite /\ s # Subject(call) /\ s # Subject(call')
    <2>1. s # NoSuite
      BY ShootAssumption, Zenon
    <2> QED
      BY <2>1, NoSubject, Zenon DEF Held
  <1>2. \A x : /\ ~ BackupAt(x, s) /\ ~ BackupAt(x, s)'
               /\ ~ CallAt(x, s) /\ ~ CallAt(x, s)'
    <2>1. \A x : ~ BackupAt(x, s) /\ ~ BackupAt(x, s)'
      BY Zenon DEF BackupAt, Held
    <2>2. \A x : ~ CallAt(x, s) /\ ~ CallAt(x, s)'
      BY <1>1, SubjectAt, SubjectNext, Zenon
    <2> QED
      BY <2>1, <2>2, Zenon
  <1>3. ASSUME NEW g, NEW x PROVE Place(g, x, s)' <=> Place(g, x, s)
    BY <1>2, Zenon DEF Place
  <1> QED
    BY <1>3, Stays, Zenon

\* The call goes on: it keeps the suites it holds and gets v, if any, from the
\* answer at i.
LEMMA CallTurn ==
  ASSUME PlacesInv, queue \in Seq(Requests), NEW i, NEW v,
         v \in Suites => InfoAt(i, v),
         \A s \in Suites : Held(s)' <=> Held(s) \/ s = v,
         \A s \in Suites : ~ (s = call'.backup /\ s = Subject(call')),
         \A s \in Suites : \A x : InfoAt(x, s)' <=> InfoAt(x, s) /\ s # v,
         own' = own, suites' = suites, granting' = granting,
         \/ queue' = queue
         \/ \E e \in Requests : queue' = Append(queue, e) /\ e.kind # "free"
  PROVE  PlacesInv'
  <1>1. SUFFICES ASSUME NEW s \in Suites PROVE Accounted(s)'
    BY Zenon DEF PlacesInv
  <1>2. Accounted(s)
    BY Zenon DEF PlacesInv
  <1>3. \A x : /\ OwnAt(x, s)' <=> OwnAt(x, s)
               /\ GrantAt(x, s)' <=> GrantAt(x, s)
    BY Zenon DEF OwnAt, GrantAt
  <1>4. /\ (\E k : Freeing(k, s)') <=> \E k : Freeing(k, s)
        /\ \A k, l : Freeing(k, s)' /\ Freeing(l, s)' => k = l
    BY <1>2, QueueStays, Zenon
  <1>5. CASE Held(s)
    <2>1. /\ s \in DOMAIN suites
          /\ \A x : ~ OwnAt(x, s) /\ ~ InfoAt(x, s) /\ ~ GrantAt(x, s)
          /\ \A k : ~ Freeing(k, s)
      BY <1>2, <1>5, HeldIs, Zenon
    <2>2. \A x : ~ OwnAt(x, s)' /\ ~ InfoAt(x, s)' /\ ~ GrantAt(x, s)'
      BY <1>3, <2>1, Zenon
    <2>3. \A k : ~ Freeing(k, s)'
      BY <1>4, <2>1, Zenon
    <2>4. Held(s)' /\ s \in DOMAIN suites' /\ ~ (s = call'.backup /\ s = Subject(call'))
      BY <1>5, <2>1, Zenon
    <2> QED
      BY <2>2, <2>3, <2>4, HeldNext, Zenon
  <1>6. CASE s = v
    <2>1. InPlace("info", i, s) /\ s \in DOMAIN suites
      <3>1. Place("info", i, s)
        BY <1>6, Zenon DEF Place
      <3> QED
        BY <1>2, <3>1, Sole, Zenon
    <2>2. (\A g, x : Place(g, x, s) => g = "info") /\ \A k : ~ Freeing(k, s)
      BY <2>1, Zenon DEF InPlace
    <2>3. \A x : ~ Place("own", x, s) /\ ~ Place("callback", x, s)
      BY <2>2, Zenon
    <2>4. \A x : ~ OwnAt(x, s)' /\ ~ InfoAt(x, s)' /\ ~ GrantAt(x, s)'
      BY <1>3, <1>6, <2>3, Zenon DEF Place
    <2>5. \A k : ~ Freeing(k, s)'
      BY <1>4, <2>2, Zenon
    <2>6. Held(s)' /\ s \in DOMAIN suites' /\ ~ (s = call'.backup /\ s = Subject(call'))
      BY <1>6, <2>1, Zenon
    <2> QED
      BY <2>4, <2>5, <2>6, HeldNext, Zenon
  <1>7. CASE ~ Held(s) /\ s # v
    <2>1. ~ Held(s)' /\ \A x : InfoAt(x, s)' <=> InfoAt(x, s)
      BY <1>7, Zenon
    <2> QED
      BY <1>2, <1>3, <1>4, <1>7, <2>1, NotHeld, Zenon
  <1> QED
    BY <1>5, <1>6, <1>7, Zenon

\* RscMgr has the same requests, with the same alloc_msg_t.
LEMMA SamePending ==
  ASSUME PendingInv, queue' = queue, waiting' = waiting, granting' = granting,
         \A j : Pending(j) => j \in DOMAIN suite_info' /\ suite_info'[j].ret = suite_info[j].ret
  PROVE  PendingInv' /\ \A j : Pending(j)' <=> Pending(j)
  <1>1. /\ \A i, k : Queued(k, i)' <=> Queued(k, i)
        /\ \A i, r : Waits(r, i)' <=> Waits(r, i)
        /\ \A i : Granted(i)' <=> Granted(i)
    BY Zenon DEF Queued, Waits, Granted
  <1>2. \A j : Pending(j)' <=> Pending(j)
    BY <1>1, Zenon DEF Pending
  <1>3. \A j : Pending(j)' => j \in DOMAIN suite_info' /\ suite_info'[j].ret = NoSuite
    BY <1>2, Zenon DEF PendingInv
  <1>4. PendingInv'
    <2>1. \A i, k, l : Queued(k, i)' /\ Queued(l, i)' => k = l
      BY <1>1, Zenon DEF PendingInv
    <2>2. \A i, r, q : Waits(r, i)' /\ Waits(q, i)' => r = q
      BY <1>1, Zenon DEF PendingInv
    <2>3. \A i, k : Queued(k, i)' => ~ Granted(i)' /\ \A r : ~ Waits(r, i)'
      BY <1>1, Zenon DEF PendingInv
    <2>4. \A i, r : Waits(r, i)' => ~ Granted(i)'
      BY <1>1, Zenon DEF PendingInv
    <2> QED
      BY <1>3, <2>1, <2>2, <2>3, <2>4, Zenon DEF PendingInv
  <1> QED
    BY <1>2, <1>4, Zenon

\* The message for the allocation a call makes.
LEMMA RequestIs ==
  ASSUME NEW c \in Calls, NEW i \in Infos, NEW b \in BOOLEAN
  PROVE  /\ AllocRequest(c.size, i, b) \in Requests
         /\ AllocRequest(c.size, i, b).kind = "alloc" /\ AllocRequest(c.size, i, b).info = i
  <1>1. c.size \in Nat
    BY Sizes, Zenon
  <1> QED
    BY <1>1 DEF AllocRequest, Requests

\* The call waits for the answer at i.
LEMMA WaitIs ==
  ASSUME NEW c \in Calls, NEW i \in Infos
  PROVE  /\ [c EXCEPT !.pc = "wait", !.info = i] \in Calls
         /\ [c EXCEPT !.pc = "wait", !.info = i].pc = "wait"
         /\ [c EXCEPT !.pc = "wait", !.info = i].info = i
         /\ [c EXCEPT !.pc = "wait", !.info = i].next = c.next
         /\ [c EXCEPT !.pc = "wait", !.info = i].backup = c.backup
  BY DEF Calls

\* A new alloc_msg_t.
LEMMA InfoNew ==
  ASSUME ShootTypes, NEW i \in Infos \ DOMAIN suite_info,
         suite_info' = Extended(suite_info, i, [ret |-> NoSuite, timed_out |-> FALSE])
  PROVE  /\ DOMAIN suite_info' = DOMAIN suite_info \cup {i}
         /\ DOMAIN suite_info' \subseteq Infos
         /\ suite_info' \in [DOMAIN suite_info' -> [ret : NoneOr(Suites), timed_out : BOOLEAN]]
         /\ \A j \in DOMAIN suite_info : suite_info'[j] = suite_info[j]
         /\ suite_info'[i].ret = NoSuite /\ ~ suite_info'[i].timed_out
         /\ \A s \in Suites : \A x : InfoAt(x, s)' <=> InfoAt(x, s)
  <1>1. /\ DOMAIN suite_info \subseteq Infos
        /\ suite_info \in [DOMAIN suite_info -> [ret : NoneOr(Suites), timed_out : BOOLEAN]]
    BY Zenon DEF ShootTypes
  <1>2. /\ DOMAIN suite_info' = DOMAIN suite_info \cup {i}
        /\ \A j \in DOMAIN suite_info : suite_info'[j] = suite_info[j]
        /\ suite_info'[i] = [ret |-> NoSuite, timed_out |-> FALSE]
    BY Zenon DEF Extended
  <1>3. suite_info'[i].ret = NoSuite /\ ~ suite_info'[i].timed_out
    BY <1>2
  <1>4. suite_info' \in [DOMAIN suite_info' -> [ret : NoneOr(Suites), timed_out : BOOLEAN]]
    BY <1>1 DEF Extended, NoneOr
  <1>5. \A s \in Suites : \A x : InfoAt(x, s)' <=> InfoAt(x, s)
    BY <1>2, <1>3, ShootAssumption, Zenon DEF InfoAt
  <1> QED
    BY <1>1, <1>2, <1>3, <1>4, <1>5, Zenon

\* An allocation is asked for.
LEMMA RequestKeeps ==
  ASSUME ShootInv, ~ crossed, Request
  PROVE  ShootInv'
  <1>1. ShootTypes /\ CallInv /\ PendingInv /\ WaitInv /\ SpareInv /\ PlacesInv
    BY Zenon DEF ShootInv
  <1>2. call.pc = "alloc"
    BY Zenon DEF Request
  <1>3. Good(call) /\ call \in Calls /\ call # NoCall
    BY <1>1, <1>2, CallIs, Zenon DEF ShootPcs
  <1>4. PICK i \in Infos \ DOMAIN suite_info : i = CHOOSE x \in Infos \ DOMAIN suite_info : TRUE
    BY <1>1, <1>2, <1>3, Zenon DEF SpareInv, Spare
  <1> DEFINE b == call.contig /\ call.next = "user"
  <1>5. /\ suite_info' = Extended(suite_info, i, [ret |-> NoSuite, timed_out |-> FALSE])
        /\ call' = [call EXCEPT !.pc = "wait", !.info = i]
        /\ queue' = Append(queue, AllocRequest(call.size, i, b))
        /\ UNCHANGED <<mem_sem, alloc_sem, free_sem, shoot_full_suite, own,
                       waiting, suites, granting, crossed>>
    BY <1>4, Zenon DEF Request
  <1>6. b \in BOOLEAN
    BY <1>3, Sizes, Zenon
  <1> HIDE DEF b
  <1>7. PICK e \in Requests : e = AllocRequest(call.size, i, b) /\ e.kind = "alloc" /\ e.info = i
    BY <1>3, <1>4, <1>6, RequestIs
  <1>8. /\ call' \in Calls /\ call'.pc = "wait" /\ call'.info = i /\ call'.next = call.next
        /\ call'.backup = call.backup
    BY <1>3, <1>4, <1>5, WaitIs
  <1>9. /\ DOMAIN suite_info' = DOMAIN suite_info \cup {i}
        /\ DOMAIN suite_info' \subseteq Infos
        /\ suite_info' \in [DOMAIN suite_info' -> [ret : NoneOr(Suites), timed_out : BOOLEAN]]
        /\ \A j \in DOMAIN suite_info : suite_info'[j] = suite_info[j]
        /\ suite_info'[i].ret = NoSuite /\ ~ suite_info'[i].timed_out
        /\ \A s \in Suites : \A x : InfoAt(x, s)' <=> InfoAt(x, s)
    BY <1>1, <1>4, <1>5, InfoNew, Zenon
  <1>10. Good(call') /\ Subject(call') = NoSuite /\ Subject(call) = NoSuite
    BY <1>2, <1>3, <1>8, Zenon DEF Good, Subject
  <1>11. CallInv' /\ call' # NoCall
    BY <1>10, GoodCall, Zenon
  <1>12. PICK n : /\ \A j, k : Queued(k, j)' <=> Queued(k, j) \/ (k = n /\ j = i)
                  /\ \A j : ~ Queued(n, j)
                  /\ queue' \in Seq(Requests)
    <2> DEFINE n == Len(queue) + 1
    <2>1. queue \in Seq(Requests) /\ queue' = Append(queue, e)
      BY <1>1, <1>5, <1>7, Zenon DEF ShootTypes
    <2>2. /\ \A j, k : Queued(k, j)' <=> Queued(k, j) \/ (k = n /\ e.kind = "alloc" /\ e.info = j)
          /\ \A j : ~ Queued(n, j) /\ ~ Freeing(n, j)
          /\ queue' \in Seq(Requests)
      BY <2>1, Sent
    <2> HIDE DEF n
    <2>3. \A j, k : Queued(k, j)' <=> Queued(k, j) \/ (k = n /\ j = i)
      BY <1>7, <2>2
    <2> QED
      BY <2>2, <2>3, Zenon
  <1>13. ShootTypes'
    BY <1>1, <1>5, <1>8, <1>9, <1>12, Zenon DEF ShootTypes
  <1>14. ~ Pending(i)
    BY <1>1, <1>4, Zenon DEF PendingInv
  <1>15. /\ \A j, r : Waits(r, j)' <=> Waits(r, j)
         /\ \A j : Granted(j)' <=> Granted(j)
    BY <1>5, Zenon DEF Waits, Granted
  <1>16. \A j : Pending(j)' <=> Pending(j) \/ j = i
    BY <1>12, <1>15, Zenon DEF Pending
  <1>17. PendingInv'
    <2>1. (\A k : ~ Queued(k, i)) /\ (\A r : ~ Waits(r, i)) /\ ~ Granted(i)
      BY <1>14, Zenon DEF Pending
    <2>2. \A j : Pending(j)' => j \in DOMAIN suite_info' /\ suite_info'[j].ret = NoSuite
      BY <1>1, <1>9, <1>16, Zenon DEF PendingInv
    <2>3. ASSUME NEW j, NEW k, NEW l, Queued(k, j)', Queued(l, j)' PROVE k = l
      <3>1. (Queued(k, j) \/ (k = n /\ j = i)) /\ (Queued(l, j) \/ (l = n /\ j = i))
        BY <1>12, <2>3
      <3> QED
        BY <1>1, <2>1, <3>1, Zenon DEF PendingInv
    <2>4. \A j, r, q : Waits(r, j)' /\ Waits(q, j)' => r = q
      BY <1>1, <1>15, Zenon DEF PendingInv
    <2>5. ASSUME NEW j, NEW k, Queued(k, j)' PROVE ~ Granted(j)' /\ \A r : ~ Waits(r, j)'
      <3>1. Queued(k, j) \/ (k = n /\ j = i)
        BY <1>12, <2>5
      <3>2. ~ Granted(j) /\ \A r : ~ Waits(r, j)
        BY <1>1, <2>1, <3>1, Zenon DEF PendingInv
      <3> QED
        BY <1>15, <3>2, Zenon
    <2>6. \A j, r : Waits(r, j)' => ~ Granted(j)'
      BY <1>1, <1>15, Zenon DEF PendingInv
    <2> QED
      BY <2>2, <2>3, <2>4, <2>5, <2>6, Zenon DEF PendingInv
  <1>18. WaitInv'
    <2>1. ~ alloc_sem'
      BY <1>1, <1>2, <1>5 DEF WaitInv
    <2>2. granting'.late => suite_info'[granting'.info].timed_out
      <3>1. granting.late => granting.info \in DOMAIN suite_info
        BY <1>1, NoGrantLate, Zenon DEF PendingInv, Pending, Granted
      <3> QED
        BY <1>1, <1>5, <1>9, <3>1, Zenon DEF WaitInv
    <2> QED
      BY <1>8, <1>9, <2>1, <2>2, Zenon DEF WaitInv
  <1>19. SpareInv'
    <2>1. call'.next \in {"backup", "test"} => Spare(2)
      BY <1>1, <1>2, <1>3, <1>8, Zenon DEF SpareInv
    <2>2. Spare(2) => Spare(1)'
      <3>1. Spare(2) => \E x, y \in Infos \ DOMAIN suite_info : x # y
        BY Zenon DEF Spare
      <3>2. Spare(2) => \E x \in Infos \ DOMAIN suite_info : x # i
        BY <3>1, Zenon
      <3>3. Spare(2) => \E x \in Infos : x \notin DOMAIN suite_info'
        BY <1>9, <3>2, Zenon
      <3> QED
        BY <3>3 DEF Spare
    <2> QED
      BY <1>8, <2>1, <2>2, Zenon DEF SpareInv
  <1>20. PlacesInv'
    <2>1. NoSuite \notin Suites
      BY ShootAssumption, Zenon
    <2>2. \A s \in Suites : Held(s)' <=> Held(s) \/ s = NoSuite
      BY <1>3, <1>8, <1>10, <1>11, <2>1, Zenon DEF Held
    <2>3. \A s \in Suites : ~ (s = call'.backup /\ s = Subject(call'))
      BY <1>10, <2>1, Zenon
    <2>4. \A s \in Suites : \A x : InfoAt(x, s)' <=> InfoAt(x, s) /\ s # NoSuite
      BY <1>9, <2>1, Zenon
    <2>5. queue \in Seq(Requests) /\ \E d \in Requests : queue' = Append(queue, d) /\ d.kind # "free"
      <3>1. e.kind # "free"
        BY <1>7
      <3> QED
        BY <1>1, <1>5, <1>7, <3>1, Zenon DEF ShootTypes
    <2> QED
      BY <1>1, <1>5, <2>1, <2>2, <2>3, <2>4, <2>5, CallTurn, Zenon
  <1> QED
    BY <1>11, <1>13, <1>17, <1>18, <1>19, <1>20, Zenon DEF ShootInv

\* The alloc_msg_t that a call finds after an allocation or a free.
LEMMA SpareNext ==
  ASSUME call'.pc \in {"alloc", "free", "return"},
         \/ call'.pc = "return"
         \/ Spare(1)' /\ (Final(call') \/ (call'.pc = "free" /\ call'.next = "backup"))
         \/ Spare(2)'
  PROVE  SpareInv'
  <1>1. Spare(2)' => Spare(1)'
    BY DEF Spare
  <1> QED
    BY <1>1, Zenon DEF SpareInv, Final

\* After an allocation or a free the call has nothing to wait for.
LEMMA TurnEnds ==
  ASSUME ShootInv, ~ crossed, Good(call'), call'.pc \in {"alloc", "free", "return"},
         alloc_sem' = FALSE, free_sem' \in BOOLEAN,
         UNCHANGED <<shoot_full_suite, own, rscVars, crossed>>,
         DOMAIN suite_info' \subseteq Infos,
         suite_info' \in [DOMAIN suite_info' -> [ret : NoneOr(Suites), timed_out : BOOLEAN]],
         \A j : Pending(j) => j \in DOMAIN suite_info' /\ suite_info'[j].ret = suite_info[j].ret,
         granting.late => suite_info'[granting.info].timed_out,
         SpareInv', PlacesInv'
  PROVE  ShootInv'
  <1>1. ShootTypes /\ PendingInv
    BY Zenon DEF ShootInv
  <1>2. CallInv' /\ call' \in Calls
    BY GoodCall, Zenon
  <1>3. queue' = queue /\ waiting' = waiting /\ suites' = suites /\ granting' = granting
    BY Zenon DEF rscVars
  <1>4. alloc_sem' \in BOOLEAN /\ ~ alloc_sem'
    OBVIOUS
  <1>5. ShootTypes'
    BY <1>1, <1>2, <1>3, <1>4, Zenon DEF ShootTypes
  <1>6. PendingInv'
    BY <1>1, <1>3, SamePending, Zenon
  <1>7. WaitInv'
    BY <1>3, <1>4, Zenon DEF WaitInv
  <1> QED
    BY <1>2, <1>5, <1>6, <1>7, Zenon DEF ShootInv

\* The answer came in time.
LEMMA TakeKeeps ==
  ASSUME ShootInv, ~ crossed, Take
  PROVE  ShootInv'
  <1>1. ShootTypes /\ CallInv /\ PendingInv /\ WaitInv /\ SpareInv /\ PlacesInv
    BY Zenon DEF ShootInv
  <1>2. call.pc = "wait" /\ alloc_sem
    BY Zenon DEF Take
  <1>3. Good(call) /\ call \in Calls /\ call # NoCall
    BY <1>1, <1>2, CallIs, Zenon DEF ShootPcs
  <1>4. PICK i, v : i = call.info /\ v = suite_info[i].ret
    BY Zenon
  <1>5. i \in DOMAIN suite_info /\ ~ suite_info[i].timed_out /\ ~ Pending(i)
    BY <1>1, <1>2, <1>3, <1>4, Zenon DEF WaitInv
  <1>6. v \in NoneOr(Suites) /\ DOMAIN suite_info \subseteq Infos /\ queue \in Seq(Requests)
    BY <1>1, <1>4, <1>5, Zenon DEF ShootTypes
  <1>7. /\ alloc_sem' = FALSE
        /\ suite_info' = Restricted(suite_info, DOMAIN suite_info \ {i})
        /\ call' = Allocated(call, v)
        /\ UNCHANGED <<mem_sem, free_sem, shoot_full_suite, own, rscVars, crossed>>
    BY <1>4, Zenon DEF Take
  <1>8. /\ Good(call') /\ call'.pc \in {"alloc", "free", "return"}
        /\ v = NoSuite => call'.backup = NoSuite /\ Subject(call') = call.backup
        /\ v # NoSuite =>
              \/ call'.backup = v /\ Subject(call') = NoSuite /\ call.backup = NoSuite
              \/ call'.backup = call.backup /\ Subject(call') = v
        /\ call.next \in {"user", "full"} => call'.pc = "return"
    BY <1>3, <1>6, <1>7, AllocatedIs
  <1>9. /\ DOMAIN suite_info' = DOMAIN suite_info \ {i}
        /\ \A j \in DOMAIN suite_info : j # i =>
               j \in DOMAIN suite_info' /\ suite_info'[j] = suite_info[j]
        /\ DOMAIN suite_info' \subseteq Infos
        /\ suite_info' \in [DOMAIN suite_info' -> [ret : NoneOr(Suites), timed_out : BOOLEAN]]
        /\ \A x, s : InfoAt(x, s)' <=> InfoAt(x, s) /\ x # i
    BY <1>1, <1>5, <1>7, InfoFreed, Zenon
  <1>10. \A j : Pending(j) => j \in DOMAIN suite_info' /\ suite_info'[j].ret = suite_info[j].ret
    BY <1>1, <1>5, <1>9, Zenon DEF PendingInv
  <1>11. granting.late => suite_info'[granting.info].timed_out
    <2>1. granting.late => granting.info \in DOMAIN suite_info
      BY <1>1, NoGrantLate, Zenon DEF PendingInv, Pending, Granted
    <2>2. granting.late => granting.info # i
      BY <1>1, <1>5, Zenon DEF WaitInv
    <2> QED
      BY <1>1, <1>9, <2>1, <2>2, Zenon DEF WaitInv
  <1>12. SpareInv'
    <2>1. CASE call.next \in {"user", "full"}
      BY <1>8, <2>1, SpareNext, Zenon
    <2>2. CASE call.next \in {"backup", "test"}
      <3>1. Spare(1)
        BY <1>1, <1>2, <1>3, <2>2, Zenon DEF SpareInv
      <3>2. PICK x \in Infos : x \notin DOMAIN suite_info
        BY <3>1, Zenon DEF Spare
      <3>3. x \notin DOMAIN suite_info' /\ i \notin DOMAIN suite_info' /\ i \in Infos /\ x # i
        BY <1>5, <1>6, <1>9, <3>2, Zenon
      <3>4. Spare(2)'
        BY <3>3, Zenon DEF Spare
      <3> QED
        BY <1>8, <3>4, SpareNext, Zenon
    <2> QED
      BY <1>3, <2>1, <2>2, Sizes, Zenon DEF Nexts
  <1>13. PlacesInv'
    <2>1. Subject(call) = NoSuite /\ NoSuite \notin Suites
      BY <1>2, ShootAssumption, Zenon DEF Subject
    <2>2. InfoAt(i, v)
      BY <1>4, <1>5, Zenon DEF InfoAt
    <2>3. v \in Suites => v # call.backup
      <3>1. ASSUME v \in Suites, v = call.backup PROVE FALSE
        <4>1. Held(v) /\ Accounted(v)
          BY <1>1, <1>3, <3>1, Zenon DEF Held, PlacesInv
        <4>2. ~ InfoAt(i, v)
          BY <3>1, <4>1, HeldIs, Zenon
        <4> QED
          BY <2>2, <4>2, Zenon
      <3> QED
        BY <3>1, Zenon
    <2>4. v = NoSuite \/ v \in Suites
      BY <1>6, Zenon DEF NoneOr
    <2>5. call' # NoCall
      BY <1>8, GoodCall, Zenon
    <2>6. ASSUME NEW s \in Suites PROVE Held(s)' <=> Held(s) \/ s = v
      <3>1. s # NoSuite
        BY <2>1, Zenon
      <3> QED
        BY <1>3, <1>8, <2>1, <2>5, <3>1, Zenon DEF Held
    <2>7. ASSUME NEW s \in Suites PROVE ~ (s = call'.backup /\ s = Subject(call'))
      <3>1. s # NoSuite
        BY <2>1, Zenon
      <3> QED
        BY <1>8, <2>3, <3>1, Zenon
    <2>8. ASSUME NEW s \in Suites, NEW x PROVE InfoAt(x, s)' <=> InfoAt(x, s) /\ s # v
      <3>1. ASSUME s = v, InfoAt(x, s) PROVE x = i
        <4>1. Place("info", i, s) /\ Place("info", x, s) /\ Accounted(s)
          BY <1>1, <2>2, <3>1, Zenon DEF Place, PlacesInv
        <4> QED
          BY <4>1, Zenon DEF Accounted
      <3>2. s # v /\ x = i => ~ InfoAt(x, s)
        BY <1>4, Zenon DEF InfoAt
      <3> QED
        BY <1>9, <3>1, <3>2, Zenon
    <2>9. queue' = queue /\ suites' = suites /\ granting' = granting /\ own' = own
      BY <1>7, Zenon DEF rscVars
    <2> QED
      BY <1>1, <1>6, <2>2, <2>6, <2>7, <2>8, <2>9, CallTurn, Zenon
  <1>14. free_sem' \in BOOLEAN
    BY <1>1, <1>7, Zenon DEF ShootTypes
  <1> QED
    BY <1>7, <1>8, <1>9, <1>10, <1>11, <1>12, <1>13, <1>14, TurnEnds, Zenon

\* A call moves on to step p of the same allocation or free.
LEMMA StepIs ==
  ASSUME NEW c \in Calls, NEW p \in {"late", "freewait"}
  PROVE  /\ [c EXCEPT !.pc = p] \in Calls /\ [c EXCEPT !.pc = p].pc = p
         /\ [c EXCEPT !.pc = p].info = c.info /\ [c EXCEPT !.pc = p].next = c.next
         /\ [c EXCEPT !.pc = p].backup = c.backup
  BY DEF Calls

\* A call that changes hands of nothing.
LEMMA SameHeld ==
  ASSUME ShootTypes, PlacesInv, \A s \in Suites : Held(s)' <=> Held(s),
         \A s \in Suites : ~ (s = call'.backup /\ s = Subject(call')),
         \A s \in Suites : \A x : InfoAt(x, s)' <=> InfoAt(x, s),
         UNCHANGED <<own, rscVars>>
  PROVE  PlacesInv'
  <1>1. NoSuite \notin Suites
    BY ShootAssumption, Zenon
  <1>2. \A s \in Suites : Held(s)' <=> Held(s) \/ s = NoSuite
    BY <1>1, Zenon
  <1>3. \A s \in Suites : \A x : InfoAt(x, s)' <=> InfoAt(x, s) /\ s # NoSuite
    BY <1>1, Zenon
  <1>4. queue' = queue /\ suites' = suites /\ granting' = granting /\ queue \in Seq(Requests)
    BY Zenon DEF rscVars, ShootTypes
  <1> QED
    BY <1>1, <1>2, <1>3, <1>4, CallTurn, Zenon

\* The wait for the answer ends without it.
LEMMA TimeoutKeeps ==
  ASSUME ShootInv, ~ crossed, Timeout
  PROVE  ShootInv'
  <1>1. ShootTypes /\ CallInv /\ PendingInv /\ WaitInv /\ SpareInv /\ PlacesInv
    BY Zenon DEF ShootInv
  <1>2. call.pc = "wait" /\ ~ alloc_sem
    BY Zenon DEF Timeout
  <1>3. Good(call) /\ call \in Calls /\ call # NoCall
    BY <1>1, <1>2, CallIs, Zenon DEF ShootPcs
  <1>4. /\ call' = [call EXCEPT !.pc = "late"]
        /\ UNCHANGED <<mem_sem, alloc_sem, free_sem, suite_info, shoot_full_suite, own,
                       rscVars, crossed>>
    BY Zenon DEF Timeout
  <1>5. queue' = queue /\ waiting' = waiting /\ suites' = suites /\ granting' = granting
    BY <1>4, Zenon DEF rscVars
  <1>6. /\ call' \in Calls /\ call'.pc = "late" /\ call'.info = call.info
        /\ call'.next = call.next /\ call'.backup = call.backup
    BY <1>3, <1>4, StepIs
  <1>7. Good(call') /\ Subject(call') = NoSuite /\ Subject(call) = NoSuite
    BY <1>2, <1>3, <1>6, Zenon DEF Good, Subject
  <1>8. CallInv' /\ call' # NoCall
    BY <1>7, GoodCall, Zenon
  <1>9. ShootTypes'
    BY <1>1, <1>4, <1>5, <1>6, Zenon DEF ShootTypes
  <1>10. PendingInv'
    <2>1. \A j : Pending(j) => j \in DOMAIN suite_info' /\ suite_info'[j].ret = suite_info[j].ret
      BY <1>1, <1>4, Zenon DEF PendingInv
    <2> QED
      BY <1>1, <1>5, <2>1, SamePending, Zenon
  <1>11. WaitInv'
    BY <1>1, <1>2, <1>3, <1>4, <1>5, <1>6, Zenon DEF WaitInv
  <1>12. SpareInv'
    <2>1. Spare(1)' <=> Spare(1)
      BY <1>4, Zenon DEF Spare
    <2> QED
      BY <1>1, <1>2, <1>3, <1>6, <2>1, Zenon DEF SpareInv
  <1>13. PlacesInv'
    <2>1. \A s \in Suites : Held(s)' <=> Held(s)
      BY <1>3, <1>6, <1>7, <1>8, Zenon DEF Held
    <2>2. \A s \in Suites : ~ (s = call'.backup /\ s = Subject(call'))
      BY <1>7, ShootAssumption, Zenon
    <2>3. \A s \in Suites : \A x : InfoAt(x, s)' <=> InfoAt(x, s)
      BY <1>4, Zenon DEF InfoAt
    <2> QED
      BY <1>1, <1>4, <2>1, <2>2, <2>3, SameHeld, Zenon
  <1> QED
    BY <1>8, <1>9, <1>10, <1>11, <1>12, <1>13, Zenon DEF ShootInv

\* The backup stays or becomes the subject of the call.
LEMMA BackupMoves ==
  ASSUME ShootTypes, PlacesInv, call # NoCall, call' # NoCall, Subject(call) = NoSuite,
         \/ call'.backup = call.backup /\ Subject(call') = NoSuite
         \/ call'.backup = NoSuite /\ Subject(call') = call.backup,
         \A s \in Suites : \A x : InfoAt(x, s)' <=> InfoAt(x, s),
         UNCHANGED <<own, rscVars>>
  PROVE  PlacesInv'
  <1>1. \A s \in Suites : Held(s)' <=> Held(s)
    BY ShootAssumption, Zenon DEF Held
  <1>2. \A s \in Suites : ~ (s = call'.backup /\ s = Subject(call'))
    BY ShootAssumption, Zenon
  <1> QED
    BY <1>1, <1>2, SameHeld, Zenon

\* The alloc_msg_t at i is left to the callback.
LEMMA InfoGivenUp ==
  ASSUME ShootTypes, NEW i \in DOMAIN suite_info,
         suite_info' = [suite_info EXCEPT ![i].timed_out = TRUE]
  PROVE  /\ DOMAIN suite_info' = DOMAIN suite_info
         /\ suite_info' \in [DOMAIN suite_info' -> [ret : NoneOr(Suites), timed_out : BOOLEAN]]
         /\ \A j \in DOMAIN suite_info : suite_info'[j].ret = suite_info[j].ret
         /\ \A j \in DOMAIN suite_info : suite_info[j].timed_out => suite_info'[j].timed_out
  <1>1. suite_info \in [DOMAIN suite_info -> [ret : NoneOr(Suites), timed_out : BOOLEAN]]
    BY Zenon DEF ShootTypes
  <1>2. /\ DOMAIN suite_info' = DOMAIN suite_info
        /\ \A j \in DOMAIN suite_info : j # i => suite_info'[j] = suite_info[j]
        /\ suite_info'[i].ret = suite_info[i].ret /\ suite_info'[i].timed_out = TRUE
    BY <1>1
  <1>3. suite_info' \in [DOMAIN suite_info' -> [ret : NoneOr(Suites), timed_out : BOOLEAN]]
    BY <1>1
  <1>4. \A j \in DOMAIN suite_info : suite_info'[j].ret = suite_info[j].ret
    BY <1>2, Zenon
  <1>5. \A j \in DOMAIN suite_info : suite_info[j].timed_out => suite_info'[j].timed_out
    BY <1>2, Zenon
  <1> QED
    BY <1>2, <1>3, <1>4, <1>5, Zenon

\* The caller gives up.
LEMMA GiveUpKeeps ==
  ASSUME ShootInv, ~ crossed, GiveUp
  PROVE  ShootInv'
  <1>1. ShootTypes /\ CallInv /\ PendingInv /\ WaitInv /\ SpareInv /\ PlacesInv
    BY Zenon DEF ShootInv
  <1>2. call.pc = "late" /\ NoSuite \in NoneOr(Suites)
    BY Zenon DEF GiveUp, NoneOr
  <1>3. Good(call) /\ call \in Calls /\ call # NoCall
    BY <1>1, <1>2, CallIs, Zenon DEF ShootPcs
  <1>4. PICK i : i = call.info
    BY Zenon
  <1>5. i \in DOMAIN suite_info /\ DOMAIN suite_info \subseteq Infos
    BY <1>1, <1>2, <1>3, <1>4, Zenon DEF WaitInv, ShootTypes
  <1>6. /\ suite_info' = [suite_info EXCEPT ![i].timed_out = TRUE]
        /\ call' = Allocated(call, NoSuite)
        /\ UNCHANGED <<mem_sem, alloc_sem, free_sem, shoot_full_suite, own, rscVars, crossed>>
    BY <1>4, Zenon DEF GiveUp
  <1>7. /\ Good(call') /\ call'.pc \in {"alloc", "free", "return"}
        /\ call'.backup = NoSuite /\ Subject(call') = call.backup
        /\ \/ call'.pc = "return" \/ Final(call')
           \/ call'.pc = "free" /\ call'.next = "backup"
        /\ call.next \in {"user", "full"} => call'.pc = "return"
    BY <1>2, <1>3, <1>6, AllocatedIs
  <1>8. /\ DOMAIN suite_info' = DOMAIN suite_info
        /\ suite_info' \in [DOMAIN suite_info' -> [ret : NoneOr(Suites), timed_out : BOOLEAN]]
        /\ \A j \in DOMAIN suite_info : suite_info'[j].ret = suite_info[j].ret
        /\ \A j \in DOMAIN suite_info : suite_info[j].timed_out => suite_info'[j].timed_out
    BY <1>1, <1>5, <1>6, InfoGivenUp, Zenon
  <1>9. \A j : Pending(j) => j \in DOMAIN suite_info' /\ suite_info'[j].ret = suite_info[j].ret
    BY <1>1, <1>8, Zenon DEF PendingInv
  <1>10. granting.late => suite_info'[granting.info].timed_out
    <2>1. granting.late => granting.info \in DOMAIN suite_info
      BY <1>1, NoGrantLate, Zenon DEF PendingInv, Pending, Granted
    <2> QED
      BY <1>1, <1>8, <2>1, Zenon DEF WaitInv
  <1>11. SpareInv'
    <2>1. CASE call.next \in {"user", "full"}
      BY <1>7, <2>1, SpareNext, Zenon
    <2>2. CASE call.next \in {"backup", "test"}
      <3>1. Spare(1)
        BY <1>1, <1>2, <1>3, <2>2, Zenon DEF SpareInv
      <3>2. Spare(1)'
        BY <1>8, <3>1, Zenon DEF Spare
      <3> QED
        BY <1>7, <3>2, SpareNext, Zenon
    <2> QED
      BY <1>3, <2>1, <2>2, Sizes, Zenon DEF Nexts
  <1>12. PlacesInv'
    <2>1. Subject(call) = NoSuite
      BY <1>2, Zenon DEF Subject
    <2>2. call' # NoCall
      BY <1>7, GoodCall, Zenon
    <2>3. \A s \in Suites : \A x : InfoAt(x, s)' <=> InfoAt(x, s)
      BY <1>8, Zenon DEF InfoAt
    <2> QED
      BY <1>1, <1>3, <1>6, <1>7, <2>1, <2>2, <2>3, BackupMoves, Zenon
  <1>13. alloc_sem' = FALSE /\ free_sem' \in BOOLEAN
    <2>1. ~ alloc_sem /\ alloc_sem \in BOOLEAN /\ free_sem \in BOOLEAN
      BY <1>1, <1>2, Zenon DEF WaitInv, ShootTypes
    <2> QED
      BY <1>6, <2>1
  <1>14. DOMAIN suite_info' \subseteq Infos
    BY <1>5, <1>8, Zenon
  <1> QED
    BY <1>6, <1>7, <1>8, <1>9, <1>10, <1>11, <1>12, <1>13, <1>14, TurnEnds, Zenon

\* A free is done.
LEMMA FreeWaitKeeps ==
  ASSUME ShootInv, ~ crossed, FreeWait
  PROVE  ShootInv'
  <1>1. ShootTypes /\ CallInv /\ PendingInv /\ WaitInv /\ SpareInv /\ PlacesInv
    BY Zenon DEF ShootInv
  <1>2. call.pc = "freewait"
    BY Zenon DEF FreeWait
  <1>3. Good(call) /\ call \in Calls /\ call # NoCall
    BY <1>1, <1>2, CallIs, Zenon DEF ShootPcs
  <1>4. /\ free_sem' = FALSE /\ call' = Freed(call)
        /\ UNCHANGED <<mem_sem, alloc_sem, suite_info, shoot_full_suite, own, rscVars, crossed>>
    BY Zenon DEF FreeWait
  <1>5. /\ Good(call') /\ call'.pc \in {"alloc", "free", "return"}
        /\ \/ call'.backup = call.backup /\ Subject(call') = NoSuite
           \/ call'.backup = NoSuite /\ Subject(call') = call.backup
        /\ call.next = "user" => call'.pc = "return"
        /\ call.next = "backup" => call'.pc = "return" \/ Final(call')
    BY <1>2, <1>3, <1>4, FreedIs
  <1>6. /\ DOMAIN suite_info' \subseteq Infos
        /\ suite_info' \in [DOMAIN suite_info' -> [ret : NoneOr(Suites), timed_out : BOOLEAN]]
    BY <1>1, <1>4, Zenon DEF ShootTypes
  <1>7. \A j : Pending(j) => j \in DOMAIN suite_info' /\ suite_info'[j].ret = suite_info[j].ret
    BY <1>1, <1>4, Zenon DEF PendingInv
  <1>8. granting.late => suite_info'[granting.info].timed_out
    BY <1>1, <1>4, Zenon DEF WaitInv
  <1>9. SpareInv'
    <2>1. \A n : Spare(n) => Spare(n)'
      BY <1>4, Zenon DEF Spare
    <2>2. CASE call.next = "user"
      BY <1>5, <2>2, SpareNext, Zenon
    <2>3. CASE call.next = "backup"
      <3>1. Spare(1)'
        BY <1>1, <1>2, <1>3, <2>1, <2>3, Zenon DEF SpareInv
      <3> QED
        BY <1>5, <2>3, <3>1, SpareNext, Zenon
    <2>4. CASE call.next = "test"
      <3>1. Spare(2)'
        BY <1>1, <1>2, <1>3, <2>1, <2>4, Zenon DEF SpareInv
      <3> QED
        BY <1>5, <3>1, SpareNext, Zenon
    <2>5. call.next \in Nexts /\ call.next # "full"
      BY <1>2, <1>3, Sizes, Zenon DEF Good
    <2> QED
      BY <2>2, <2>3, <2>4, <2>5, Zenon DEF Nexts
  <1>10. PlacesInv'
    <2>1. Subject(call) = NoSuite
      BY <1>2, Zenon DEF Subject
    <2>2. call' # NoCall
      BY <1>5, GoodCall, Zenon
    <2>3. \A s \in Suites : \A x : InfoAt(x, s)' <=> InfoAt(x, s)
      BY <1>4, Zenon DEF InfoAt
    <2> QED
      BY <1>1, <1>3, <1>4, <1>5, <2>1, <2>2, <2>3, BackupMoves, Zenon
  <1>11. alloc_sem' = FALSE /\ free_sem' \in BOOLEAN
    <2>1. ~ alloc_sem /\ alloc_sem \in BOOLEAN
      BY <1>1, <1>2, Zenon DEF WaitInv, ShootTypes
    <2> QED
      BY <1>4, <2>1
  <1> QED
    BY <1>4, <1>5, <1>6, <1>7, <1>8, <1>9, <1>10, <1>11, TurnEnds, Zenon

\* A free is asked for.
LEMMA FreeSuiteKeeps ==
  ASSUME ShootInv, ~ crossed, FreeSuite
  PROVE  ShootInv'
  <1>1. ShootTypes /\ CallInv /\ PendingInv /\ WaitInv /\ SpareInv /\ PlacesInv
    BY Zenon DEF ShootInv
  <1>2. call.pc = "free"
    BY Zenon DEF FreeSuite
  <1>3. Good(call) /\ call \in Calls /\ call # NoCall
    BY <1>1, <1>2, CallIs, Zenon DEF ShootPcs
  <1>4. PICK m : m = call.suite
    BY Zenon
  <1>5. m \in NoneOr(Suites) /\ Subject(call) = m
    BY <1>2, <1>3, <1>4, Sizes, Zenon DEF Subject
  <1>6. /\ queue' = IF m = NoSuite THEN queue ELSE Append(queue, FreeRequest(m, "freeCBR"))
        /\ shoot_full_suite' = IF m = shoot_full_suite THEN NoSuite ELSE shoot_full_suite
        /\ call' = [call EXCEPT !.pc = "freewait"]
        /\ UNCHANGED <<mem_sem, alloc_sem, free_sem, suite_info, own,
                       waiting, suites, granting, crossed>>
    BY <1>4, Zenon DEF FreeSuite
  <1>7. /\ call' \in Calls /\ call'.pc = "freewait" /\ call'.next = call.next
        /\ call'.backup = call.backup
    BY <1>3, <1>6, StepIs
  <1>8. Good(call') /\ Subject(call') = NoSuite
    BY <1>2, <1>3, <1>7, Zenon DEF Good, Subject
  <1>9. CallInv' /\ call' # NoCall
    BY <1>8, GoodCall, Zenon
  <1>10. /\ queue' \in Seq(Requests)
         /\ \A j, k : Queued(k, j)' <=> Queued(k, j)
         /\ \A s, k : s # m => (Freeing(k, s)' <=> Freeing(k, s))
         /\ m # NoSuite /\ (\A k : ~ Freeing(k, m)) => \E n : \A k : Freeing(k, m)' <=> k = n
    <2>1. queue \in Seq(Requests) /\ "freeCBR" \in {"freeCBR", "freeCBR_nowait"}
      BY <1>1, Zenon DEF ShootTypes
    <2>2. CASE m = NoSuite
      <3>1. queue' = queue
        BY <1>6, <2>2, Zenon
      <3> QED
        BY <2>1, <2>2, <3>1, Zenon DEF Queued, Freeing
    <2>3. CASE m # NoSuite
      <3>1. queue' = Append(queue, FreeRequest(m, "freeCBR")) /\ m \in Suites
        BY <1>5, <1>6, <2>3, Zenon DEF NoneOr
      <3> QED
        BY <2>1, <3>1, SentFree, Zenon
    <2> QED
      BY <2>2, <2>3, Zenon
  <1>11. ShootTypes'
    <2>1. shoot_full_suite' \in NoneOr(Suites)
      BY <1>1, <1>6, Zenon DEF ShootTypes, NoneOr
    <2> QED
      BY <1>1, <1>6, <1>7, <1>10, <2>1, Zenon DEF ShootTypes
  <1>12. /\ \A j, r : Waits(r, j)' <=> Waits(r, j)
         /\ \A j : Granted(j)' <=> Granted(j)
    BY <1>6, Zenon DEF Waits, Granted
  <1>13. \A j : Pending(j)' <=> Pending(j)
    BY <1>10, <1>12, Zenon DEF Pending
  <1>14. PendingInv'
    <2>1. \A i : Pending(i)' => i \in DOMAIN suite_info' /\ suite_info'[i].ret = NoSuite
      BY <1>1, <1>6, <1>13, Zenon DEF PendingInv
    <2>2. \A i, k, l : Queued(k, i)' /\ Queued(l, i)' => k = l
      BY <1>1, <1>10, Zenon DEF PendingInv
    <2>3. \A i, p, q : Waits(p, i)' /\ Waits(q, i)' => p = q
      BY <1>1, <1>12, Zenon DEF PendingInv
    <2>4. \A i, k : Queued(k, i)' => ~ Granted(i)' /\ \A p : ~ Waits(p, i)'
      BY <1>1, <1>10, <1>12, Zenon DEF PendingInv
    <2>5. \A i, p : Waits(p, i)' => ~ Granted(i)'
      BY <1>1, <1>12, Zenon DEF PendingInv
    <2> QED
      BY <2>1, <2>2, <2>3, <2>4, <2>5, Zenon DEF PendingInv
  <1>15. WaitInv'
    <2>1. ~ alloc_sem'
      BY <1>1, <1>2, <1>6 DEF WaitInv
    <2> QED
      BY <1>1, <1>6, <1>7, <2>1, Zenon DEF WaitInv
  <1>16. SpareInv'
    <2>1. \A n : Spare(n) => Spare(n)'
      BY <1>6, Zenon DEF Spare
    <2> QED
      BY <1>1, <1>2, <1>3, <1>7, <2>1, Zenon DEF SpareInv
  <1>17. \A s \in Suites : Held(s)' <=> s = call.backup
    BY <1>7, <1>8, <1>9, ShootAssumption, Zenon DEF Held
  <1>18. \A x, s : /\ OwnAt(x, s)' <=> OwnAt(x, s)
                   /\ InfoAt(x, s)' <=> InfoAt(x, s)
                   /\ GrantAt(x, s)' <=> GrantAt(x, s)
    BY <1>6, Zenon DEF OwnAt, InfoAt, GrantAt
  <1>19. ASSUME NEW s \in Suites PROVE Accounted(s)'
    <2>1. Accounted(s) /\ s # NoSuite
      BY <1>1, ShootAssumption, Zenon DEF PlacesInv
    <2>2. CASE s = m
      <3>1. Held(s)
        BY <1>3, <1>5, <2>2, Zenon DEF Held
      <3>2. /\ s \in DOMAIN suites
            /\ \A x : ~ OwnAt(x, s) /\ ~ InfoAt(x, s) /\ ~ GrantAt(x, s)
            /\ \A k : ~ Freeing(k, s)
            /\ ~ (s = call.backup /\ s = Subject(call))
        BY <2>1, <3>1, HeldIs, Zenon
      <3>3. PICK n : \A k : Freeing(k, s)' <=> k = n
        <4>1. m # NoSuite /\ \A k : ~ Freeing(k, m)
          BY <2>1, <2>2, <3>2, Zenon
        <4>2. \E n : \A k : Freeing(k, m)' <=> k = n
          BY <1>10, <4>1, Zenon
        <4> QED
          BY <2>2, <4>2
      <3>4. ~ Held(s)'
        BY <1>5, <1>17, <2>2, <3>2, Zenon
      <3>5. \A x : ~ BackupAt(x, s)' /\ ~ CallAt(x, s)'
        <4>1. s # Subject(call')
          BY <1>8, <2>1, Zenon
        <4> QED
          BY <3>4, <4>1, SubjectNext, Zenon DEF BackupAt, Held
      <3>6. ASSUME NEW g, NEW x PROVE ~ Place(g, x, s)'
        BY <1>18, <3>2, <3>5, Zenon DEF Place
      <3>7. OnWayBack(n, s)' /\ s \in DOMAIN suites'
        BY <1>6, <3>2, <3>3, <3>6, Zenon DEF OnWayBack
      <3> QED
        BY <3>7, Departs, Zenon
    <2>3. CASE s # m /\ s = call.backup
      <3>1. Held(s)
        BY <1>3, <2>3, Zenon DEF Held
      <3>2. /\ s \in DOMAIN suites
            /\ \A x : ~ OwnAt(x, s) /\ ~ InfoAt(x, s) /\ ~ GrantAt(x, s)
            /\ \A k : ~ Freeing(k, s)
        BY <2>1, <3>1, HeldIs, Zenon
      <3>3. /\ Held(s)' /\ s \in DOMAIN suites' /\ ~ (s = call'.backup /\ s = Subject(call'))
            /\ \A k : ~ Freeing(k, s)'
        BY <1>6, <1>8, <1>10, <1>17, <2>1, <2>3, <3>2, Zenon
      <3>4. \A x : ~ OwnAt(x, s)' /\ ~ InfoAt(x, s)' /\ ~ GrantAt(x, s)'
        BY <1>18, <3>2, Zenon
      <3> QED
        BY <3>3, <3>4, HeldNext, Zenon
    <2>4. CASE s # m /\ s # call.backup
      <3>1. ~ Held(s) /\ ~ Held(s)'
        BY <1>5, <1>17, <2>4, Zenon DEF Held
      <3>2. \A k : Freeing(k, s)' <=> Freeing(k, s)
        BY <1>10, <2>4, Zenon
      <3>3. \A k, l : Freeing(k, s)' /\ Freeing(l, s)' => k = l
        BY <2>1, <3>2, Zenon DEF Accounted
      <3>4. s \in DOMAIN suites' <=> s \in DOMAIN suites
        BY <1>6, Zenon
      <3> QED
        BY <1>18, <2>1, <3>1, <3>2, <3>3, <3>4, NotHeld, Zenon
    <2> QED
      BY <2>2, <2>3, <2>4, Zenon
  <1> QED
    BY <1>9, <1>11, <1>14, <1>15, <1>16, <1>19, Zenon DEF ShootInv, PlacesInv

-----------------------------------------------------------------------------
(* Calls begin and end                                                     *)

\* What the invariant says of RscMgr goes on while only calls begin and end.
LEMMA CallsOnly ==
  ASSUME ShootInv, ~ crossed, UNCHANGED <<alloc_sem, free_sem, suite_info, rscVars, crossed>>,
         shoot_full_suite' \in NoneOr(Suites), own' \in [Tasks -> SUBSET Suites],
         call' = NoCall \/ (call'.pc \in SrmPcs /\ call'.backup = NoSuite) \/ Good(call'),
         call'.pc \notin {"wait", "late"}, call.pc # "wait",
         call' \in Calls => \/ call'.pc = "return"
                            \/ call'.next = "user" /\ call'.pc = "free"
                            \/ call'.pc \in {"alloc", "free"} /\ Spare(2),
         PlacesInv'
  PROVE  ShootInv'
  <1>1. ShootTypes /\ PendingInv /\ WaitInv
    BY Zenon DEF ShootInv
  <1>2. CallInv' /\ (\/ call' = NoCall \/ (call'.pc \in SrmPcs /\ call'.backup = NoSuite)
                     \/ call' \in Calls)
    <2>1. CASE Good(call')
      BY <2>1, GoodCall, Zenon
    <2>2. CASE call' = NoCall \/ (call'.pc \in SrmPcs /\ call'.backup = NoSuite)
      <3>1. call'.pc \notin ShootPcs
        BY <2>2, NoCallPc, Zenon DEF ShootPcs, SrmPcs
      <3>2. call' \notin Calls
        BY <3>1, Zenon DEF Calls, ShootPcs
      <3> QED
        BY <2>2, <3>2, Zenon DEF CallInv
    <2> QED
      BY <2>1, <2>2, Zenon
  <1>3. queue' = queue /\ waiting' = waiting /\ suites' = suites /\ granting' = granting
    BY Zenon DEF rscVars
  <1>4. ShootTypes'
    BY <1>1, <1>2, <1>3, Zenon DEF ShootTypes
  <1>5. PendingInv'
    <2>1. \A j : Pending(j) => j \in DOMAIN suite_info' /\ suite_info'[j].ret = suite_info[j].ret
      BY <1>1, Zenon DEF PendingInv
    <2> QED
      BY <1>1, <1>3, <2>1, SamePending, Zenon
  <1>6. WaitInv'
    BY <1>1, <1>3, Zenon DEF WaitInv
  <1>7. SpareInv'
    <2>1. Spare(2) => Spare(2)' /\ Spare(1)'
      BY DEF Spare
    <2> QED
      BY <2>1, Zenon DEF SpareInv
  <1> QED
    BY <1>2, <1>4, <1>5, <1>6, <1>7, Zenon DEF ShootInv

\* A call that holds no suite begins, goes on or ends.
LEMMA NothingHeld ==
  ASSUME ShootInv, ~ crossed, UNCHANGED <<suite_info, own, rscVars>>,
         \A s \in Suites : ~ Held(s) /\ ~ Held(s)'
  PROVE  PlacesInv'
  <1>1. SUFFICES ASSUME NEW s \in Suites PROVE Accounted(s)'
    BY Zenon DEF PlacesInv
  <1>2. Accounted(s)
    BY Zenon DEF ShootInv, PlacesInv
  <1>3. queue' = queue /\ suites' = suites /\ granting' = granting
    BY Zenon DEF rscVars
  <1>4. \A x : /\ OwnAt(x, s)' <=> OwnAt(x, s)
               /\ InfoAt(x, s)' <=> InfoAt(x, s)
               /\ GrantAt(x, s)' <=> GrantAt(x, s)
    BY <1>3, Zenon DEF OwnAt, InfoAt, GrantAt
  <1>5. \A k : Freeing(k, s)' <=> Freeing(k, s)
    BY <1>3, Zenon DEF Freeing
  <1>6. \A k, l : Freeing(k, s)' /\ Freeing(l, s)' => k = l
    BY <1>2, <1>5, Zenon DEF Accounted
  <1>7. s \in DOMAIN suites' <=> s \in DOMAIN suites
    BY <1>3, Zenon
  <1> QED
    BY <1>2, <1>4, <1>5, <1>6, <1>7, NotHeld, Zenon

\* The call returns its suite.
LEMMA ReturnKeeps ==
  ASSUME ShootInv, ~ crossed, mem_sem \in Tasks, Return
  PROVE  ShootInv'
  <1>1. ShootTypes /\ CallInv /\ PendingInv /\ WaitInv /\ SpareInv /\ PlacesInv
    BY Zenon DEF ShootInv
  <1>2. call.pc = "return"
    BY Zenon DEF Return
  <1>3. Good(call) /\ call \in Calls /\ call # NoCall
    BY <1>1, <1>2, CallIs, Zenon DEF ShootPcs
  <1>4. PICK m, t : m = call.suite /\ t = mem_sem
    BY Zenon
  <1>5. m \in NoneOr(Suites) /\ Subject(call) = m /\ t \in Tasks
    BY <1>2, <1>3, <1>4, Sizes, Zenon DEF Subject
  <1>6. /\ own' = [own EXCEPT ![t] = @ \cup ({m} \ {NoSuite})]
        /\ shoot_full_suite' = IF call.next = "full" THEN m ELSE shoot_full_suite
        /\ call' = NoCall
        /\ UNCHANGED <<alloc_sem, free_sem, suite_info, rscVars, crossed>>
    BY <1>4, Zenon DEF Return
  <1>7. /\ own' \in [Tasks -> SUBSET Suites]
        /\ \A x : \A s \in Suites : OwnAt(x, s)' <=> OwnAt(x, s) \/ (x = t /\ s = m)
    <2>1. own \in [Tasks -> SUBSET Suites]
      BY <1>1, Zenon DEF ShootTypes
    <2>2. own' \in [Tasks -> SUBSET Suites]
      BY <1>5, <1>6, <2>1 DEF NoneOr
    <2>3. ASSUME NEW x, NEW s \in Suites PROVE OwnAt(x, s)' <=> OwnAt(x, s) \/ (x = t /\ s = m)
      <3>1. s # NoSuite
        BY ShootAssumption, Zenon
      <3>2. own'[t] = own[t] \cup ({m} \ {NoSuite}) /\ \A y \in Tasks : y # t => own'[y] = own[y]
        BY <1>5, <1>6, <2>1
      <3> QED
        BY <1>5, <3>1, <3>2, Zenon DEF OwnAt
    <2> QED
      BY <2>2, <2>3, Zenon
  <1>8. shoot_full_suite' \in NoneOr(Suites)
    BY <1>1, <1>5, <1>6, Zenon DEF ShootTypes
  <1>9. call'.pc = "none" /\ \A s \in Suites : ~ Held(s)'
    BY <1>6, NoCallPc, Zenon DEF Held
  <1>10. queue' = queue /\ suites' = suites /\ granting' = granting
    BY <1>6, Zenon DEF rscVars
  <1>11. /\ \A x, s : /\ InfoAt(x, s)' <=> InfoAt(x, s)
                      /\ GrantAt(x, s)' <=> GrantAt(x, s)
         /\ \A k, s : Freeing(k, s)' <=> Freeing(k, s)
    BY <1>6, <1>10, Zenon DEF InfoAt, GrantAt, Freeing
  <1>12. \A s \in Suites : Held(s) <=> s = m
    <2>1. call.backup = NoSuite
      BY <1>2, <1>3, Zenon DEF Good
    <2> QED
      BY <1>3, <1>5, <2>1, ShootAssumption, Zenon DEF Held
  <1>13. ASSUME NEW s \in Suites PROVE Accounted(s)'
    <2>1. Accounted(s)
      BY <1>1, Zenon DEF PlacesInv
    <2>2. CASE s = m
      <3>1. /\ s \in DOMAIN suites
            /\ \A x : ~ OwnAt(x, s) /\ ~ InfoAt(x, s) /\ ~ GrantAt(x, s)
            /\ \A k : ~ Freeing(k, s)
        BY <1>12, <2>1, <2>2, HeldIs, Zenon
      <3>2. \A x : ~ BackupAt(x, s)' /\ ~ CallAt(x, s)'
        BY <1>6, <1>9, Zenon DEF BackupAt, CallAt
      <3>3. \A x : OwnAt(x, s)' <=> x = t
        BY <1>7, <2>2, <3>1, Zenon
      <3>4. ASSUME NEW g, NEW x PROVE Place(g, x, s)' <=> g = "own" /\ x = t
        BY <1>11, <3>1, <3>2, <3>3, Zenon DEF Place
      <3>5. InPlace("own", t, s)' /\ s \in DOMAIN suites'
        BY <1>10, <1>11, <3>1, <3>4, Zenon DEF InPlace
      <3> QED
        BY <3>5, Arrives, Zenon
    <2>3. CASE s # m
      <3>1. ~ Held(s) /\ ~ Held(s)'
        BY <1>9, <1>12, <2>3, Zenon
      <3>2. \A x : OwnAt(x, s)' <=> OwnAt(x, s)
        BY <1>7, <2>3, Zenon
      <3>3. \A k, l : Freeing(k, s)' /\ Freeing(l, s)' => k = l
        BY <1>11, <2>1, Zenon DEF Accounted
      <3>4. s \in DOMAIN suites' <=> s \in DOMAIN suites
        BY <1>10, Zenon
      <3> QED
        BY <1>11, <2>1, <3>1, <3>2, <3>3, <3>4, NotHeld, Zenon
    <2> QED
      BY <2>2, <2>3, Zenon
  <1>14. PlacesInv'
    BY <1>13, Zenon DEF PlacesInv
  <1>15. call' \notin Calls
    BY <1>9, Zenon DEF Calls
  <1>16. call'.pc \notin {"wait", "late"} /\ call.pc # "wait"
    BY <1>2, <1>9
  <1> QED
    BY <1>6, <1>7, <1>8, <1>14, <1>15, <1>16, CallsOnly, Zenon

\* A call that begins.
LEMMA NewCallIs ==
  /\ NewCall \in Calls /\ NewCall.pc = "alloc" /\ NewCall.next = "user"
  /\ NewCall.backup = NoSuite
  <1>1. (CHOOSE i \in Infos : TRUE) \in Infos
    BY ShootAssumption, Zenon
  <1> QED
    BY <1>1 DEF NewCall, Calls

\* A task asks for a suite: the call holds nothing yet, and there is room for it.
LEMMA MallocKeeps ==
  ASSUME ShootInv, ~ crossed, call = NoCall, NEW t \in Tasks, Room(t), own' = own,
         NEW c, Begin(t, c), c \in Calls, c.pc = "alloc", c.backup = NoSuite
  PROVE  ShootInv'
  <1>1. /\ call' = c
        /\ UNCHANGED <<alloc_sem, free_sem, suite_info, shoot_full_suite, rscVars, crossed>>
    BY Zenon DEF Begin
  <1>2. Good(call') /\ call'.pc = "alloc" /\ call' # NoCall
    <2>1. Good(call')
      BY <1>1, Zenon DEF Good
    <2> QED
      BY <1>1, <2>1, GoodCall, Zenon
  <1>3. shoot_full_suite' \in NoneOr(Suites) /\ own' \in [Tasks -> SUBSET Suites]
    BY <1>1, Zenon DEF ShootInv, ShootTypes
  <1>4. PlacesInv'
    <2>1. Subject(call') = NoSuite /\ NoSuite \notin Suites
      BY <1>2, ShootAssumption, Zenon DEF Subject
    <2>2. \A s \in Suites : ~ Held(s) /\ ~ Held(s)'
      BY <1>1, <2>1, Zenon DEF Held
    <2> QED
      BY <1>1, <2>2, NothingHeld, Zenon
  <1>5. Spare(2)
    BY Zenon DEF Room, Spare
  <1>6. call'.pc \notin {"wait", "late"} /\ call.pc # "wait"
    BY <1>2, NoCallPc
  <1> QED
    BY <1>1, <1>2, <1>3, <1>4, <1>5, <1>6, CallsOnly, Zenon

\* A task frees a suite it has, or a null pointer.
LEMMA FreeBegins ==
  ASSUME ShootInv, ~ crossed, call = NoCall, NEW t \in Tasks, NEW m, shoot_free_suite(t, m),
         m \in own[t] \/ m = NoSuite
  PROVE  ShootInv'
  <1>1. ShootTypes /\ PlacesInv
    BY Zenon DEF ShootInv
  <1>2. own \in [Tasks -> SUBSET Suites] /\ m \in NoneOr(Suites) /\ NoSuite \notin Suites
    BY <1>1, ShootAssumption, Zenon DEF ShootTypes, NoneOr
  <1>3. /\ call' = [NewCall EXCEPT !.pc = "free", !.suite = m]
        /\ own' = [own EXCEPT ![t] = @ \ {m}]
        /\ UNCHANGED <<alloc_sem, free_sem, suite_info, shoot_full_suite, rscVars, crossed>>
    BY Zenon DEF shoot_free_suite, Begin
  <1>4. /\ call' \in Calls /\ call'.pc = "free" /\ call'.suite = m /\ call'.next = "user"
        /\ call'.backup = NoSuite
    BY <1>2, <1>3, NewCallIs DEF Calls, NoneOr
  <1>5. Good(call') /\ call' # NoCall /\ Subject(call') = m
    <2>1. Good(call') /\ Subject(call') = m
      BY <1>4, Zenon DEF Good, Subject
    <2> QED
      BY <2>1, GoodCall, Zenon
  <1>6. /\ own' \in [Tasks -> SUBSET Suites]
        /\ own'[t] = own[t] \ {m} /\ \A x \in Tasks : x # t => own'[x] = own[x]
    BY <1>2, <1>3
  <1>7. /\ \A s \in Suites : ~ Held(s) /\ (Held(s)' <=> s = m)
        /\ \A s \in Suites : ~ (s = call'.backup /\ s = Subject(call'))
    BY <1>2, <1>4, <1>5, Zenon DEF Held
  <1>8. queue' = queue /\ suites' = suites /\ granting' = granting
    BY <1>3, Zenon DEF rscVars
  <1>9. /\ \A x, s : /\ InfoAt(x, s)' <=> InfoAt(x, s)
                     /\ GrantAt(x, s)' <=> GrantAt(x, s)
        /\ \A k, s : Freeing(k, s)' <=> Freeing(k, s)
    BY <1>3, <1>8, Zenon DEF InfoAt, GrantAt, Freeing
  <1>10. ASSUME NEW s \in Suites PROVE Accounted(s)'
    <2>1. Accounted(s)
      BY <1>1, Zenon DEF PlacesInv
    <2>2. CASE s = m
      <3>1. OwnAt(t, s)
        BY <1>2, <2>2, Zenon DEF OwnAt
      <3>2. Place("own", t, s)
        BY <3>1, Zenon DEF Place
      <3>3. InPlace("own", t, s) /\ s \in DOMAIN suites
        BY <2>1, <3>2, Sole, Zenon
      <3>4. /\ \A g, x : Place(g, x, s) => g = "own" /\ x = t
            /\ \A k : ~ Freeing(k, s)
        BY <3>3, Zenon DEF InPlace
      <3>5. \A x : ~ Place("info", x, s) /\ ~ Place("callback", x, s) /\ (Place("own", x, s) => x = t)
        BY <3>4, Zenon
      <3>6. \A x : ~ InfoAt(x, s)' /\ ~ GrantAt(x, s)' /\ (OwnAt(x, s) => x = t)
        BY <1>9, <3>5, Zenon DEF Place
      <3>7. \A x : ~ OwnAt(x, s)'
        BY <1>6, <2>2, <3>6, Zenon DEF OwnAt
      <3>8. \A k : ~ Freeing(k, s)'
        BY <1>9, <3>4, Zenon
      <3>9. Held(s)' /\ s \in DOMAIN suites' /\ ~ (s = call'.backup /\ s = Subject(call'))
        BY <1>7, <1>8, <2>2, <3>3, Zenon
      <3> QED
        BY <3>6, <3>7, <3>8, <3>9, HeldNext, Zenon
    <2>3. CASE s # m
      <3>1. ~ Held(s) /\ ~ Held(s)'
        BY <1>7, <2>3, Zenon
      <3>2. \A x : OwnAt(x, s)' <=> OwnAt(x, s)
        BY <1>6, <2>3, Zenon DEF OwnAt
      <3>3. \A k, l : Freeing(k, s)' /\ Freeing(l, s)' => k = l
        BY <1>9, <2>1, Zenon DEF Accounted
      <3>4. s \in DOMAIN suites' <=> s \in DOMAIN suites
        BY <1>8, Zenon
      <3> QED
        BY <1>9, <2>1, <3>1, <3>2, <3>3, <3>4, NotHeld, Zenon
    <2> QED
      BY <2>2, <2>3, Zenon
  <1>11. PlacesInv'
    BY <1>10, Zenon DEF PlacesInv
  <1>12. shoot_full_suite' \in NoneOr(Suites)
    BY <1>1, <1>3, Zenon DEF ShootTypes
  <1>13. call'.pc \notin {"wait", "late"} /\ call.pc # "wait"
    BY <1>4, NoCallPc
  <1> QED
    BY <1>3, <1>4, <1>5, <1>6, <1>11, <1>12, <1>13, CallsOnly, Zenon

\* A task calls for shoot memory.
LEMMA UseShootKeeps ==
  ASSUME ShootInv, ~ crossed, call = NoCall, NEW t \in Tasks, UseShoot(t)
  PROVE  ShootInv'
  <1>1. ASSUME NEW n \in PlainSizes, shoot_malloc_suite(t, n) PROVE ShootInv'
    <2>1. n \in Nat /\ Backup \in Nat
      BY SizesAssumption, ShootAssumption
    <2>2. PICK c : c = IF n # 0 THEN [NewCall EXCEPT !.size = n]
                       ELSE [NewCall EXCEPT !.size = Backup, !.next = "backup"]
      BY Zenon
    <2>3. c \in Calls /\ c.pc = "alloc" /\ c.backup = NoSuite
      BY <2>1, <2>2, NewCallIs DEF Calls
    <2>4. Room(t) /\ Begin(t, c) /\ own' = own
      BY <1>1, <2>2, Zenon DEF shoot_malloc_suite
    <2> QED
      BY <2>3, <2>4, MallocKeeps, Zenon
  <1>2. ASSUME NEW n \in ContigSizes, shoot_malloc_suite_contig(t, n) PROVE ShootInv'
    <2>1. n \in Nat
      BY SizesAssumption
    <2>2. PICK c : c = [NewCall EXCEPT !.contig = TRUE, !.requested = n, !.size = 1,
                                       !.next = IF n = 1 THEN "user" ELSE "backup"]
      BY Zenon
    <2>3. c \in Calls /\ c.pc = "alloc" /\ c.backup = NoSuite
      BY <2>1, <2>2, NewCallIs DEF Calls
    <2>4. Room(t) /\ Begin(t, c) /\ own' = own
      BY <1>2, <2>2, Zenon DEF shoot_malloc_suite_contig
    <2> QED
      BY <2>3, <2>4, MallocKeeps, Zenon
  <1>3. ASSUME NEW m, shoot_free_suite(t, m), m \in own[t] \/ m = NoSuite PROVE ShootInv'
    BY <1>3, FreeBegins, Zenon
  <1> QED
    BY <1>1, <1>2, <1>3, Zenon DEF UseShoot

\* Nothing happens to shoot memory.
LEMMA Unmoved ==
  ASSUME ShootInv, UNCHANGED shootVars
  PROVE  ShootInv'
  <1>1. UNCHANGED <<mem_sem, call, alloc_sem, free_sem, suite_info, shoot_full_suite, own,
                    queue, waiting, suites, granting, crossed>>
    BY Zenon DEF shootVars, rscVars
  <1>2. ShootTypes' /\ CallInv'
    BY <1>1, Zenon DEF ShootInv, ShootTypes, CallInv
  <1>3. ASSUME ~ crossed PROVE PendingInv' /\ WaitInv' /\ SpareInv' /\ PlacesInv'
    <2>1. ShootTypes /\ PendingInv /\ WaitInv /\ SpareInv /\ PlacesInv
      BY <1>3, Zenon DEF ShootInv
    <2>2. PendingInv' /\ \A j : Pending(j)' <=> Pending(j)
      <3>1. \A j : Pending(j) => j \in DOMAIN suite_info' /\ suite_info'[j].ret = suite_info[j].ret
        BY <1>1, <2>1, Zenon DEF PendingInv
      <3> QED
        BY <1>1, <2>1, <3>1, SamePending, Zenon
    <2>3. WaitInv'
      BY <1>1, <2>1, <2>2, Zenon DEF WaitInv
    <2>4. SpareInv'
      BY <1>1, <2>1, SpareStays, Zenon
    <2>5. ASSUME NEW s \in Suites PROVE Accounted(s)'
      <3>1. Accounted(s)
        BY <2>1, Zenon DEF PlacesInv
      <3>2. \A g, x : Place(g, x, s)' <=> Place(g, x, s)
        BY <1>1, SamePlaces, Zenon
      <3>3. \A k : Freeing(k, s)' <=> Freeing(k, s)
        BY <1>1, Zenon DEF Freeing
      <3>4. \A k, l : Freeing(k, s)' /\ Freeing(l, s)' => k = l
        BY <3>1, <3>3, Zenon DEF Accounted
      <3> QED
        BY <1>1, <3>1, <3>2, <3>3, <3>4, Stays, Zenon
    <2> QED
      BY <2>2, <2>3, <2>4, <2>5, Zenon DEF PlacesInv
  <1> QED
    BY <1>1, <1>2, <1>3, Zenon DEF ShootInv

\* The calls for SRM memory hold no suite of the shooting buffer.
LEMMA SrmKeeps ==
  ASSUME ShootInv, ~ crossed, shootRest' = shootRest,
         call = NoCall \/ call.pc \in SrmPcs,
         call' = NoCall \/ \E p \in SrmPcs : call' = SrmCall(p)
  PROVE  ShootInv'
  <1>1. ShootTypes
    BY Zenon DEF ShootInv
  <1>2. UNCHANGED <<alloc_sem, free_sem, suite_info, shoot_full_suite, own, rscVars, crossed>>
    BY Zenon DEF shootRest
  <1>3. call = NoCall \/ (call.pc \in SrmPcs /\ call.backup = NoSuite)
    <2>1. call \in Calls => call.pc \in ShootPcs
      BY Zenon DEF Calls, ShootPcs
    <2>2. call.pc \in SrmPcs => call.pc \notin ShootPcs
      BY Zenon DEF ShootPcs, SrmPcs
    <2> QED
      BY <1>1, <2>1, <2>2, Zenon DEF ShootTypes
  <1>4. call' = NoCall \/ (call'.pc \in SrmPcs /\ call'.backup = NoSuite)
    <2>1. \A p : SrmCall(p).pc = p /\ SrmCall(p).backup = NoSuite
      BY DEF SrmCall
    <2> QED
      BY <2>1, Zenon
  <1>5. call.pc \notin ShootPcs /\ call'.pc \notin ShootPcs
    BY <1>3, <1>4, NoCallPc, Zenon DEF ShootPcs, SrmPcs
  <1>6. PlacesInv'
    <2>1. Subject(call) = NoSuite /\ Subject(call') = NoSuite /\ NoSuite \notin Suites
      BY <1>5, ShootAssumption, Zenon DEF Subject, ShootPcs
    <2>2. \A s \in Suites : ~ Held(s) /\ ~ Held(s)'
      BY <1>3, <1>4, <2>1, Zenon DEF Held
    <2> QED
      BY <1>2, <2>2, NothingHeld, Zenon
  <1>7. shoot_full_suite' \in NoneOr(Suites) /\ own' \in [Tasks -> SUBSET Suites]
    BY <1>1, <1>2, Zenon DEF ShootTypes
  <1>8. call' \notin Calls
    BY <1>5, Zenon DEF Calls, ShootPcs
  <1>9. call'.pc \notin {"wait", "late"} /\ call.pc # "wait"
    BY <1>5, Zenon DEF ShootPcs
  <1> QED
    BY <1>2, <1>4, <1>6, <1>7, <1>8, <1>9, CallsOnly, Zenon

-----------------------------------------------------------------------------
(* The invariant of the suites                                             *)

\* The initial state.
LEMMA ShootInvInit == Init => ShootInv
  <1> SUFFICES ASSUME Init PROVE ShootInv
    BY Zenon
  <1>1. /\ mem_sem = NoTask /\ call = NoCall
        /\ alloc_sem = FALSE /\ free_sem = FALSE
        /\ suite_info = [i \in {} |-> 0] /\ shoot_full_suite = NoSuite
        /\ own = [t \in Tasks |-> {}]
        /\ queue = <<>> /\ waiting = {} /\ suites = [s \in {} |-> 0] /\ granting = NoGrant
        /\ crossed = FALSE
    BY Zenon DEF Init, ShootInit
  <1>2. /\ DOMAIN suite_info = {} /\ DOMAIN suites = {} /\ DOMAIN queue = {}
        /\ queue \in Seq(Requests)
        /\ suite_info \in [DOMAIN suite_info -> [ret : NoneOr(Suites), timed_out : BOOLEAN]]
        /\ suites \in [DOMAIN suites -> Nat]
    BY <1>1
  <1>3. call \notin Calls /\ ~ granting.late /\ call.pc = "none"
    <2>1. call.pc = "none"
      BY <1>1, NoCallPc, Zenon
    <2>2. call \notin Calls
      BY <2>1, Zenon DEF Calls
    <2> QED
      BY <1>1, <2>1, <2>2, NoGrantLate, Zenon
  <1>4. ShootTypes
    <2>1. alloc_sem \in BOOLEAN /\ free_sem \in BOOLEAN /\ crossed \in BOOLEAN
      BY <1>1
    <2>2. own \in [Tasks -> SUBSET Suites] /\ shoot_full_suite \in NoneOr(Suites)
      BY <1>1, Zenon DEF NoneOr
    <2> QED
      BY <1>1, <1>2, <2>1, <2>2, Zenon DEF ShootTypes
  <1>5. CallInv /\ SpareInv
    BY <1>3, Zenon DEF CallInv, SpareInv
  <1>6. \A i : /\ \A k : ~ Queued(k, i) /\ ~ Freeing(k, i)
               /\ \A r : ~ Waits(r, i)
               /\ ~ Granted(i)
    BY <1>1, <1>2, Zenon DEF Queued, Waits, Granted, Freeing
  <1>7. PendingInv /\ WaitInv
    <2>1. PendingInv
      BY <1>6, Zenon DEF PendingInv, Pending
    <2> QED
      BY <1>1, <1>3, <2>1, Zenon DEF WaitInv
  <1>8. PlacesInv
    <2>1. \A x, s : /\ ~ OwnAt(x, s) /\ ~ BackupAt(x, s) /\ ~ CallAt(x, s)
                    /\ ~ InfoAt(x, s) /\ ~ GrantAt(x, s)
      BY <1>1, <1>2, <1>3, Zenon DEF OwnAt, BackupAt, CallAt, InfoAt, GrantAt
    <2>2. \A g, x, s : ~ Place(g, x, s)
      BY <2>1, Zenon DEF Place
    <2> QED
      BY <1>2, <1>6, <2>2, Zenon DEF PlacesInv, Accounted
  <1> QED
    BY <1>4, <1>5, <1>7, <1>8, Zenon DEF ShootInv

\* The invariant is inductive.
LEMMA ShootInvStep == LockInv /\ Holder /\ ShootInv /\ [Next]_vars => ShootInv'
  <1> SUFFICES ASSUME LockInv, Holder, ShootInv, [Next]_vars PROVE ShootInv'
    BY Zenon
  <1>0. mem_sem = NoTask <=> call = NoCall
    BY Zenon DEF LockInv, CallOK
  <1>1. CASE UNCHANGED vars
    BY <1>1, Unmoved, Zenon DEF vars
  <1>2. CASE ~ crossed /\ Manager
    BY <1>2, GrantNewKeeps, GrantWaitingKeeps, LateCBRKeeps, AllocCBRKeeps, ReleaseKeeps, Zenon
       DEF Manager, RscMgr
  <1>3. CASE ~ crossed /\ Caller
    <2>1. Return => mem_sem \in Tasks
      BY <1>3, CallerIs, Zenon DEF Holder, LockInv
    <2> QED
      BY <1>3, <2>1, RequestKeeps, TakeKeeps, TimeoutKeeps, GiveUpKeeps, FreeSuiteKeeps,
         FreeWaitKeeps, ReturnKeeps, Zenon DEF Caller
  <1>4. CASE ~ crossed /\ SrmCaller
    <2>1. CASE SrmGet
      BY <2>1, Unmoved, Zenon DEF SrmGet
    <2>2. CASE SrmCheck \/ SrmTimeout \/ SrmGotAll \/ SrmPick
      <3>1. "srm_pick" \in SrmPcs /\ "srm_loop" \in SrmPcs
        BY Zenon DEF SrmPcs
      <3>2. call.pc \in SrmPcs /\ shootRest' = shootRest
        BY <2>2, Zenon DEF SrmCheck, SrmTimeout, SrmGotAll, SrmPick, SrmPcs
      <3>3. call' = NoCall \/ \E p \in SrmPcs : call' = SrmCall(p)
        BY <2>2, <3>1, Zenon DEF SrmCheck, SrmTimeout, SrmGotAll, SrmPick
      <3> QED
        BY <1>4, <3>2, <3>3, SrmKeeps, Zenon
    <2> QED
      BY <1>4, <2>1, <2>2, Zenon DEF SrmCaller
  <1>5. CASE JobState
    BY <1>5, Unmoved, Zenon DEF JobState
  <1>6. ASSUME ~ crossed, NEW t \in Tasks, UseShoot(t) PROVE ShootInv'
    <2>1. call = NoCall
      BY <1>0, <1>6, BeginCall, Zenon
    <2> QED
      BY <1>6, <2>1, UseShootKeeps, Zenon
  <1>7. ASSUME ~ crossed, NEW t \in Tasks, UseSrm(t) PROVE ShootInv'
    <2>1. CASE srm_free_suite(t)
      <3>1. UNCHANGED shootVars
        BY <2>1, Zenon DEF srm_free_suite, shootRest, shootVars
      <3> QED
        BY <3>1, Unmoved, Zenon
    <2>2. ASSUME NEW n, srm_malloc_suite(t, n) PROVE ShootInv'
      <3>1. "srm_pick" \in SrmPcs /\ "srm_sleep" \in SrmPcs
        BY Zenon DEF SrmPcs
      <3>2. call = NoCall /\ shootRest' = shootRest
        BY <1>0, <2>2, Zenon DEF srm_malloc_suite
      <3>3. \E p \in SrmPcs : call' = SrmCall(p)
        BY <2>2, <3>1, Zenon DEF srm_malloc_suite
      <3> QED
        BY <1>7, <3>2, <3>3, SrmKeeps, Zenon
    <2> QED
      BY <1>7, <2>1, <2>2, Zenon DEF UseSrm
  <1> QED
    BY <1>1, <1>2, <1>3, <1>4, <1>5, <1>6, <1>7, Zenon DEF Next, InCall
=============================================================================
