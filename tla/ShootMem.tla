------------------------------ MODULE ShootMem ------------------------------
(***************************************************************************)
(* Memory of the shooting buffer: the first half of src/exmem.c.  A suite  *)
(* is asked for and given back by messages to Canon's resource manager     *)
(* (RscMgr), which answers through callbacks in its own task.  A request   *)
(* that finds no memory is not refused: it stays queued, its wait times    *)
(* out after 100 ms, and the callback frees the suite when it comes.       *)
(* Callers exclude each other by mem_sem, so one call is in progress at a  *)
(* time; it interleaves with RscMgr.  Sizes are in MB.                     *)
(***************************************************************************)
EXTENDS DryosTasks, Naturals, Sequences, FiniteSets, FiniteSetsExt

CONSTANTS
    Total,      \* memory RscMgr can give out
    Chunk,      \* its largest contiguous piece
    Backup,     \* backup_size of shoot_malloc_autodetect, and the step of its loop
    Margin,     \* what it leaves unallocated
    MaxTested,  \* the end of the loops
    Infos,      \* bound: addresses of alloc_msg_t
    Suites,     \* bound: handles of suites
    NoSuite     \* the null pointer

ASSUME ShootAssumption ==
    /\ {Total, Chunk, Backup, Margin, MaxTested} \subseteq Nat \ {0}
    /\ Margin <= Backup
    /\ NoSuite \notin Suites /\ Infos # {}

VARIABLES
    mem_sem,            \* the task that holds it, or NoTask
    call,               \* the call this task makes
    alloc_sem, free_sem,
    suite_info,         \* the alloc_msg_t in use, by address
    shoot_full_suite,
    own,                \* the suites each task has been given
    queue,              \* messages to RscMgr
    waiting,            \* allocations RscMgr has put aside until they fit
    suites,             \* sizes of the suites it has given out
    granting,           \* the grant whose callback is running, if any
    crossed             \* history: an answer crossed the end of its wait

rscVars == <<queue, waiting, suites, granting>>
shootVars == <<mem_sem, call, alloc_sem, free_sem, suite_info, shoot_full_suite, own,
               rscVars, crossed>>

\* pc, and next: what the result of the current allocation or free is for.
Calls ==
    [pc : {"alloc", "wait", "late", "free", "freewait", "return"},
     next : {"user", "backup", "test", "full"},
     size : Nat, contig : BOOLEAN, requested : Nat, tested : Nat, max_size : Nat,
     backup : Suites \cup {NoSuite}, suite : Suites \cup {NoSuite}, info : Infos]

NoCall == [pc |-> "none"]
NoGrant == [late |-> FALSE]

ShootInit ==
    /\ mem_sem = NoTask /\ call = NoCall
    /\ alloc_sem = FALSE /\ free_sem = FALSE
    /\ suite_info = [i \in {} |-> 0]
    /\ shoot_full_suite = NoSuite
    /\ own = [t \in Tasks |-> {}]
    /\ queue = <<>> /\ waiting = {} /\ suites = [s \in {} |-> 0] /\ granting = NoGrant
    /\ crossed = FALSE

-----------------------------------------------------------------------------
(* RscMgr (external) and the callbacks it runs                             *)

\* The memory of the suites in S, MB by MB.
Memory(S) == UNION {{s} \X (1..suites[s]) : s \in S}

Available == Total - Cardinality(Memory(DOMAIN suites))

Restricted(f, S) == [x \in S |-> f[x]]

Extended(f, x, v) == [y \in DOMAIN f \cup {x} |-> IF y = x THEN v ELSE f[y]]

AllocRequest(size, info, contig) ==
    [kind |-> "alloc", size |-> size, info |-> info, contig |-> contig]
FreeRequest(s, cbr) == [kind |-> "free", suite |-> s, cbr |-> cbr]

Fits(r) ==
    /\ r.size <= Available
    /\ r.contig => r.size <= Chunk

\* Request r gets a suite; allocCBR starts and looks whether the caller still
\* waits.  (Bound: there is a handle for the suite.)
Grant(r) ==
    /\ granting = NoGrant /\ Fits(r) /\ DOMAIN suites # Suites
    /\ LET s == CHOOSE x \in Suites \ DOMAIN suites : TRUE IN
          /\ suites' = Extended(suites, s, r.size)
          /\ granting' = [suite |-> s, info |-> r.info,
                          late |-> suite_info[r.info].timed_out]
    /\ UNCHANGED <<mem_sem, call, alloc_sem, free_sem, suite_info, shoot_full_suite, own,
                   crossed>>

\* A new request is served or put aside ...
GrantNew ==
    /\ queue # <<>> /\ Head(queue).kind = "alloc"
    /\ queue' = Tail(queue)
    /\ \/ Grant(Head(queue)) /\ UNCHANGED waiting
       \/ /\ ~ Fits(Head(queue)) /\ granting = NoGrant
          /\ waiting' = waiting \cup {Head(queue)}
          /\ UNCHANGED <<mem_sem, call, alloc_sem, free_sem, suite_info, shoot_full_suite,
                         own, suites, granting, crossed>>

\* ... until there is memory for it.
GrantWaiting ==
    \E r \in waiting : Grant(r) /\ waiting' = waiting \ {r} /\ UNCHANGED queue

\* Mutant: the suite is forgotten.
LateCBRLeaks ==
    /\ granting.late
    /\ suite_info' = Restricted(suite_info, DOMAIN suite_info \ {granting.info})
    /\ granting' = NoGrant
    /\ UNCHANGED <<mem_sem, call, alloc_sem, free_sem, shoot_full_suite, own,
                   queue, waiting, suites, crossed>>

\* allocCBR, for a caller that has given up: free the suite, without a wait.
LateCBR ==
    /\ granting.late
    /\ queue' = Append(queue, FreeRequest(granting.suite, "freeCBR_nowait"))
    /\ suite_info' = Restricted(suite_info, DOMAIN suite_info \ {granting.info})
    /\ granting' = NoGrant
    /\ UNCHANGED <<mem_sem, call, alloc_sem, free_sem, shoot_full_suite, own,
                   waiting, suites, crossed>>

\* allocCBR, for a caller that waits: hand over the suite.  The caller may have
\* given up since allocCBR looked.
AllocCBR ==
    /\ granting # NoGrant /\ ~ granting.late
    /\ suite_info' = [suite_info EXCEPT ![granting.info].ret = granting.suite]
    /\ alloc_sem' = TRUE
    /\ granting' = NoGrant
    /\ crossed' = (call.pc # "wait" \/ call.info # granting.info)
    /\ UNCHANGED <<mem_sem, call, free_sem, shoot_full_suite, own, queue, waiting, suites>>

\* A suite is freed; freeCBR tells the caller, freeCBR_nowait nobody.
Release ==
    /\ queue # <<>> /\ Head(queue).kind = "free" /\ granting = NoGrant
    /\ queue' = Tail(queue)
    /\ suites' = Restricted(suites, DOMAIN suites \ {Head(queue).suite})
    /\ free_sem' = (free_sem \/ Head(queue).cbr = "freeCBR")
    /\ UNCHANGED <<mem_sem, call, alloc_sem, suite_info, shoot_full_suite, own,
                   waiting, granting, crossed>>

RscMgr == GrantNew \/ GrantWaiting \/ LateCBR \/ AllocCBR \/ Release

-----------------------------------------------------------------------------
(* What a call does with a suite it got, or did not get, and after a free  *)

BackupOf(c) == IF c.contig THEN 1 ELSE Backup

\* shoot_malloc_suite_int(size), or the continuous request at the end of
\* _shoot_malloc_suite_contig.
Allocate(c, size, next) == [c EXCEPT !.pc = "alloc", !.size = size, !.next = next]

Free(c, s, next) == [c EXCEPT !.pc = "free", !.suite = s, !.next = next]

FreeBackup(c) == Free([c EXCEPT !.backup = NoSuite], c.backup, "backup")

ReturnSuite(c, s) == [c EXCEPT !.pc = "return", !.suite = s]

\* Autodetection is over.
Detected(c) ==
    IF ~ c.contig THEN Allocate(c, c.max_size, "full")
    ELSE IF c.requested > c.max_size THEN ReturnSuite(c, NoSuite)
    ELSE Allocate(c, IF c.requested = 0 THEN c.max_size ELSE c.requested, "user")

\* The next turn of the loop of shoot_malloc_autodetect(_contig), if any.
Test(c, size) ==
    IF size < MaxTested THEN Allocate([c EXCEPT !.tested = size], size, "test")
    ELSE FreeBackup(c)

\* Mutant: the margin is added.
TestedSizeOver(c) ==
    IF c.contig THEN IF c.tested < Chunk THEN c.tested ELSE Chunk
    ELSE c.tested + Backup + Margin

\* The size a test that worked stands for; for contiguous memory the size of
\* the largest chunk of the suite.
TestedSize(c) ==
    IF c.contig THEN IF c.tested < Chunk THEN c.tested ELSE Chunk
    ELSE c.tested + Backup - Margin

\* The allocation for c.next gave s.
Allocated(c, s) ==
    CASE c.next = "backup" /\ s = NoSuite -> Detected(c)
      [] c.next = "backup" /\ s # NoSuite -> Test([c EXCEPT !.backup = s], BackupOf(c))
      [] c.next = "test" /\ s = NoSuite -> FreeBackup(c)
      [] c.next = "test" /\ s # NoSuite ->
             Free([c EXCEPT !.max_size = TestedSize(c)], s, "test")
      [] c.next \in {"user", "full"} -> ReturnSuite(c, s)

\* The free for c.next is done.
Freed(c) ==
    CASE c.next = "test" ->
             IF c.requested # 0 /\ c.requested <= c.max_size
             THEN FreeBackup(c) ELSE Test(c, c.tested + BackupOf(c))
      [] c.next = "backup" -> Detected(c)
      [] c.next = "user" -> ReturnSuite(c, NoSuite)

-----------------------------------------------------------------------------
(* The caller                                                              *)

NewCall ==
    [pc |-> "alloc", next |-> "user", size |-> 0, contig |-> FALSE, requested |-> 0,
     tested |-> 0, max_size |-> 0, backup |-> NoSuite, suite |-> NoSuite,
     info |-> CHOOSE i \in Infos : TRUE]

\* Bounds: a task holds one suite at a time, and a call starts when there is
\* room for the two requests it can have queued at once.
Room(t) == own[t] = {} /\ \E i, j \in Infos \ DOMAIN suite_info : i # j

\* A task calls one of the functions below, through its wrapper in mem.c.
Begin(t, c) ==
    /\ mem_sem = NoTask
    /\ mem_sem' = t /\ call' = c
    /\ UNCHANGED <<alloc_sem, free_sem, suite_info, shoot_full_suite, rscVars, crossed>>

shoot_malloc_suite(t, size) ==
    /\ Room(t)
    /\ Begin(t, IF size # 0 THEN [NewCall EXCEPT !.size = size]
                ELSE [NewCall EXCEPT !.size = Backup, !.next = "backup"])
    /\ UNCHANGED own

shoot_malloc_suite_contig(t, size) ==
    /\ Room(t)
    /\ Begin(t, [NewCall EXCEPT !.contig = TRUE, !.requested = size, !.size = 1,
                                !.next = IF size = 1 THEN "user" ELSE "backup"])
    /\ UNCHANGED own

\* Also _shoot_free, for the suite noted in front of the memory.
shoot_free_suite(t, s) ==
    /\ Begin(t, [NewCall EXCEPT !.pc = "free", !.suite = s])
    /\ own' = [own EXCEPT ![t] = @ \ {s}]

\* The request goes to RscMgr with a new alloc_msg_t.
Request ==
    /\ call.pc = "alloc"
    /\ LET i == CHOOSE x \in Infos \ DOMAIN suite_info : TRUE IN
          /\ suite_info' = Extended(suite_info, i, [ret |-> NoSuite, timed_out |-> FALSE])
          /\ call' = [call EXCEPT !.pc = "wait", !.info = i]
          /\ queue' = Append(queue, AllocRequest(call.size, i,
                                                call.contig /\ call.next = "user"))
    /\ UNCHANGED <<mem_sem, alloc_sem, free_sem, shoot_full_suite, own,
                   waiting, suites, granting, crossed>>

\* alloc_sem comes in time; the alloc_msg_t is freed.
Take ==
    /\ call.pc = "wait" /\ alloc_sem
    /\ alloc_sem' = FALSE
    /\ suite_info' = Restricted(suite_info, DOMAIN suite_info \ {call.info})
    /\ call' = Allocated(call, suite_info[call.info].ret)
    /\ UNCHANGED <<mem_sem, free_sem, shoot_full_suite, own, rscVars, crossed>>

\* take_semaphore returns after 100 ms without it ...
Timeout ==
    /\ call.pc = "wait" /\ ~ alloc_sem
    /\ call' = [call EXCEPT !.pc = "late"]
    /\ UNCHANGED <<mem_sem, alloc_sem, free_sem, suite_info, shoot_full_suite, own,
                   rscVars, crossed>>

\* ... and the caller leaves the alloc_msg_t and the suite to allocCBR.
GiveUp ==
    /\ call.pc = "late"
    /\ suite_info' = [suite_info EXCEPT ![call.info].timed_out = TRUE]
    /\ call' = Allocated(call, NoSuite)
    /\ UNCHANGED <<mem_sem, alloc_sem, free_sem, shoot_full_suite, own, rscVars, crossed>>

\* Mutant: the free is asked for with the callback that tells nobody.
FreeSuiteNoWait ==
    /\ call.pc = "free"
    /\ queue' = IF call.suite = NoSuite THEN queue
                ELSE Append(queue, FreeRequest(call.suite, "freeCBR_nowait"))
    /\ shoot_full_suite' = IF call.suite = shoot_full_suite THEN NoSuite
                           ELSE shoot_full_suite
    /\ call' = [call EXCEPT !.pc = "freewait"]
    /\ UNCHANGED <<mem_sem, alloc_sem, free_sem, suite_info, own,
                   waiting, suites, granting, crossed>>

\* _shoot_free_suite: a null pointer is not passed on to RscMgr.
FreeSuite ==
    /\ call.pc = "free"
    /\ queue' = IF call.suite = NoSuite THEN queue
                ELSE Append(queue, FreeRequest(call.suite, "freeCBR"))
    /\ shoot_full_suite' = IF call.suite = shoot_full_suite THEN NoSuite
                           ELSE shoot_full_suite
    /\ call' = [call EXCEPT !.pc = "freewait"]
    /\ UNCHANGED <<mem_sem, alloc_sem, free_sem, suite_info, own,
                   waiting, suites, granting, crossed>>

FreeWait ==
    /\ call.pc = "freewait" /\ free_sem
    /\ free_sem' = FALSE
    /\ call' = Freed(call)
    /\ UNCHANGED <<mem_sem, alloc_sem, suite_info, shoot_full_suite, own, rscVars, crossed>>

\* Mutant: mem_sem is not given back.
ReturnLocked ==
    /\ call.pc = "return"
    /\ own' = [own EXCEPT ![mem_sem] = @ \cup ({call.suite} \ {NoSuite})]
    /\ shoot_full_suite' = IF call.next = "full" THEN call.suite ELSE shoot_full_suite
    /\ call' = NoCall
    /\ UNCHANGED <<mem_sem, alloc_sem, free_sem, suite_info, rscVars, crossed>>

\* The call returns its suite, if any, and mem_sem is given back.
Return ==
    /\ call.pc = "return"
    /\ own' = [own EXCEPT ![mem_sem] = @ \cup ({call.suite} \ {NoSuite})]
    /\ shoot_full_suite' = IF call.next = "full" THEN call.suite ELSE shoot_full_suite
    /\ call' = NoCall /\ mem_sem' = NoTask
    /\ UNCHANGED <<alloc_sem, free_sem, suite_info, rscVars, crossed>>

Caller == Request \/ Take \/ Timeout \/ GiveUp \/ FreeSuite \/ FreeWait \/ Return

-----------------------------------------------------------------------------
(* Properties                                                              *)

Requests ==
    [kind : {"alloc"}, size : Nat, info : Infos, contig : BOOLEAN]
    \cup [kind : {"free"}, suite : Suites, cbr : {"freeCBR", "freeCBR_nowait"}]

ShootTypeOK ==
    /\ mem_sem \in Tasks \cup {NoTask} /\ (call = NoCall <=> mem_sem = NoTask)
    /\ alloc_sem \in BOOLEAN /\ free_sem \in BOOLEAN
    /\ DOMAIN suite_info \subseteq Infos
    /\ \A i \in DOMAIN suite_info :
          suite_info[i] \in [ret : Suites \cup {NoSuite}, timed_out : BOOLEAN]
    /\ shoot_full_suite \in Suites \cup {NoSuite}
    /\ own \in [Tasks -> SUBSET Suites]
    /\ queue \in Seq(Requests) /\ waiting \subseteq Requests
    /\ DOMAIN suites \subseteq Suites /\ Available \in 0..Total
    /\ crossed \in BOOLEAN

\* Where suites are: with their owners, in the hands of the call in progress,
\* in an answer not read yet, in a running callback, on the way back.
Places ==
    (UNION {{<<"own", t, s>> : s \in own[t]} : t \in Tasks})
    \cup (IF call = NoCall THEN {} ELSE {<<"backup", mem_sem, call.backup>>})
    \cup (IF call.pc \in {"free", "return"} THEN {<<"call", call.next, call.suite>>} ELSE {})
    \cup {<<"info", i, suite_info[i].ret>> : i \in DOMAIN suite_info}
    \cup (IF granting = NoGrant THEN {} ELSE {<<"callback", granting.info, granting.suite>>})
    \cup {<<"freeing", k, queue[k].suite>> : k \in {k \in DOMAIN queue : queue[k].kind = "free"}}

\* allocCBR and the callers keep track of every suite, whatever times out and
\* whenever the late answer comes: a suite RscMgr has given out is in exactly
\* one place (none is lost, none is freed twice or used by two), and nobody
\* holds a suite that was freed.  The only exception is an answer that crosses
\* the end of its wait.
SuitesAccounted ==
    ~ crossed =>
        \A s \in Suites :
            Cardinality({p \in Places : p[3] = s}) = IF s \in DOMAIN suites THEN 1 ELSE 0

\* Memory that callers hold.
Owned == Cardinality(Memory(UNION {own[t] : t \in Tasks}))

\* "we now know for sure how much to allocate": what autodetection finds can be
\* had besides what other callers hold, although its own backup, its tests and
\* the queued test that failed are all still on their way back.
AutodetectFits ==
    ~ crossed /\ call.pc = "alloc" /\ call.next \in {"user", "full"} /\ call.max_size # 0 =>
        /\ call.size + Owned <= Total
        /\ call.contig => call.size <= Chunk

\* A task in _shoot_free_suite with a null pointer.
NullFree == call.pc = "freewait" /\ call.suite = NoSuite

\* mem_sem, which every allocation in the program needs, never stays taken:
\* whatever is late, waits end and frees are answered.  The only exceptions are
\* a null pointer passed to shoot_free_suite, which waits for a free that was
\* not asked for, and an answer that crosses the end of its wait.
MemSemReleased == mem_sem # NoTask ~> (mem_sem = NoTask \/ NullFree \/ crossed)
=============================================================================
