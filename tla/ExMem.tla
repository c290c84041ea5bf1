-------------------------------- MODULE ExMem -------------------------------
(***************************************************************************)
(* The memory that Magic Lantern borrows from Canon's code, src/exmem.c,   *)
(* used by several tasks: suites of the shooting buffer and SRM buffers,   *)
(* which interact through mem_sem and shoot_full_suite.                    *)
(***************************************************************************)
EXTENDS SrmMem

CONSTANTS
    PlainUsers, PlainSizes,     \* tasks that call shoot_malloc_suite, and sizes
    ContigUsers, ContigSizes,   \* tasks that call shoot_malloc_suite_contig, and sizes
    SrmUsers                    \* tasks that use SRM memory

ASSUME SizesAssumption == PlainSizes \subseteq Nat /\ ContigSizes \subseteq Nat

vars == <<shootVars, srmVars>>

Init == ShootInit /\ SrmInit

\* silent.c frees what shoot_malloc_suite_contig returned without a check.
UseShoot(t) ==
    /\ \/ t \in PlainUsers /\ \E n \in PlainSizes : shoot_malloc_suite(t, n)
       \/ t \in ContigUsers /\ \E n \in ContigSizes : shoot_malloc_suite_contig(t, n)
       \/ \E s \in own[t] : shoot_free_suite(t, s)
       \/ t \in ContigUsers /\ own[t] = {} /\ shoot_free_suite(t, NoSuite)
    /\ UNCHANGED srmVars

UseSrm(t) ==
    t \in SrmUsers /\ (srm_free_suite(t) \/ \E n \in Wanted : srm_malloc_suite(t, n))

\* What goes on by itself: RscMgr, and the call in progress.
Manager == RscMgr /\ UNCHANGED srmVars
InCall == (Caller /\ UNCHANGED srmVars) \/ SrmCaller

\* Once an answer has crossed the end of its wait, the next allocation takes
\* its token and frees an alloc_msg_t that RscMgr still uses; the model stops.
Next ==
    /\ ~ crossed
    /\ \/ Manager
       \/ InCall
       \/ JobState
       \/ \E t \in Tasks : UseShoot(t) \/ UseSrm(t)

\* RscMgr serves its queue, and a task goes on with its call; take_semaphore with
\* a timeout returns.
Fairness ==
    /\ WF_vars(~ crossed /\ Manager)
    /\ WF_vars(~ crossed /\ InCall)

Spec == Init /\ [][Next]_vars /\ Fairness

TypeOK == ShootTypeOK /\ SrmTypeOK
=============================================================================
