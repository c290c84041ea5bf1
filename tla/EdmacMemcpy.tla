---------------------------- MODULE EdmacMemcpy ----------------------------
(***************************************************************************)
(* src/edmac-memcpy.c: memory copies by a pair of EDMAC channels that all  *)
(* tasks share.  A task starts a copy, waits on a semaphore that the read  *)
(* channel's interrupt gives, at most a second, and cleans up.  The raw    *)
(* recorders start copies with callbacks of their own that clean up in the *)
(* interrupt.  A copy that takes too long is not stopped: its interrupt    *)
(* comes late and runs whatever callback is registered by then.            *)
(***************************************************************************)
EXTENDS Naturals, FiniteSets

CONSTANTS
    Tasks,      \* callers of edmac_memcpy, edmac_memset, edmac_copy_rectangle...
    Recorders,  \* callers of edmac_copy_rectangle_cbr_start
    None

ASSUME EdmacAssumption ==
    Tasks \cap Recorders = {} /\ None \notin Tasks \cup Recorders
    /\ IsFiniteSet(Tasks \cup Recorders)

Users == Tasks \cup Recorders

VARIABLES
    edmac_memcpy_sem,       \* TRUE: can be taken
    edmac_read_done_sem,    \* TRUE: can be taken
    cbr,        \* whose callback is registered with the channels
    pc,         \* where each user is
    running,    \* users with a copy in progress
    done,       \* users whose last copy has finished
    late        \* some wait has timed out

vars == <<edmac_memcpy_sem, edmac_read_done_sem, cbr, pc, running, done, late>>

Init ==
    /\ edmac_memcpy_sem = TRUE /\ edmac_read_done_sem = FALSE
    /\ cbr = None /\ pc = [u \in Users |-> "idle"]
    /\ running = {} /\ done = {} /\ late = FALSE

-----------------------------------------------------------------------------

\* Mutant: two tasks find the semaphore free.
TakeLoosely(u) ==
    /\ pc[u] = "idle"
    /\ edmac_memcpy_sem \/ cbr # None
    /\ edmac_memcpy_sem' = FALSE

Take(u) ==
    /\ pc[u] = "idle" /\ edmac_memcpy_sem
    /\ edmac_memcpy_sem' = FALSE

\* edmac_copy_rectangle_cbr_start: take the semaphore and register callbacks ...
Start(u) ==
    /\ Take(u)
    /\ cbr' = u /\ done' = done \ {u}
    /\ pc' = [pc EXCEPT ![u] = "set"]
    /\ UNCHANGED <<edmac_read_done_sem, running, late>>

\* ... then set up the channels and start them.
Program(u) ==
    /\ pc[u] = "set"
    /\ running' = running \cup {u}
    /\ pc' = [pc EXCEPT ![u] = "wait"]
    /\ UNCHANGED <<edmac_memcpy_sem, edmac_read_done_sem, cbr, done, late>>

\* edmac_memcpy_start, for a length the channels cannot do: the CPU has copied
\* the data, and a copy that is finished is simulated.
SmallCopy(t) ==
    /\ Take(t)
    /\ edmac_read_done_sem' = TRUE /\ done' = done \cup {t}
    /\ pc' = [pc EXCEPT ![t] = "wait"]
    /\ UNCHANGED <<cbr, running, late>>

\* Mutant: the recorder's callback leaves the channels to the next copy.
InterruptKeeps(u) ==
    /\ u \in running
    /\ running' = running \ {u} /\ done' = done \cup {u}
    /\ edmac_read_done_sem' = (edmac_read_done_sem \/ cbr \in Tasks)
    /\ pc' = IF cbr \in Recorders
             THEN [pc EXCEPT ![cbr] = IF @ = "wait" THEN "idle" ELSE @] ELSE pc
    /\ UNCHANGED <<edmac_memcpy_sem, cbr, late>>

\* Mutant: the copy is put down to whoever has a callback registered.
InterruptOfRegistered(u) ==
    /\ u \in running
    /\ running' = running \ {u} /\ done' = done \cup {cbr}
    /\ edmac_read_done_sem' = (edmac_read_done_sem \/ cbr \in Tasks)
    /\ IF cbr \in Recorders
       THEN /\ cbr' = None /\ edmac_memcpy_sem' = TRUE
            /\ pc' = [pc EXCEPT ![cbr] = IF @ = "wait" THEN "idle" ELSE @]
       ELSE UNCHANGED <<cbr, edmac_memcpy_sem, pc>>
    /\ UNCHANGED late

\* The copy of u is finished: edmac_read_complete_cbr, or a recorder's callback,
\* which calls edmac_copy_rectangle_adv_cleanup.  (In the late interrupt of
\* another copy the recorder may still be setting up the channels.)
Interrupt(u) ==
    /\ u \in running
    /\ running' = running \ {u} /\ done' = done \cup {u}
    /\ edmac_read_done_sem' = (edmac_read_done_sem \/ cbr \in Tasks)
    /\ IF cbr \in Recorders
       THEN /\ cbr' = None /\ edmac_memcpy_sem' = TRUE
            /\ pc' = [pc EXCEPT ![cbr] = IF @ = "wait" THEN "idle" ELSE @]
       ELSE UNCHANGED <<cbr, edmac_memcpy_sem, pc>>
    /\ UNCHANGED late

\* Mutant: the token is left for the next one.
FinishPeeks(t) ==
    /\ pc[t] = "wait" /\ edmac_read_done_sem
    /\ pc' = [pc EXCEPT ![t] = "cleanup"]
    /\ UNCHANGED <<edmac_memcpy_sem, edmac_read_done_sem, cbr, running, done, late>>

\* Mutant: the wait is skipped.
FinishAtOnce(t) ==
    /\ pc[t] = "wait"
    /\ pc' = [pc EXCEPT ![t] = "cleanup"]
    /\ UNCHANGED <<edmac_memcpy_sem, edmac_read_done_sem, cbr, running, done, late>>

\* edmac_copy_rectangle_adv_finish: the token is there ...
Finish(t) ==
    /\ pc[t] = "wait" /\ edmac_read_done_sem
    /\ edmac_read_done_sem' = FALSE
    /\ pc' = [pc EXCEPT ![t] = "cleanup"]
    /\ UNCHANGED <<edmac_memcpy_sem, cbr, running, done, late>>

\* ... or a second has passed.
Timeout(t) ==
    /\ pc[t] = "wait" /\ ~ edmac_read_done_sem
    /\ late' = TRUE
    /\ pc' = [pc EXCEPT ![t] = "cleanup"]
    /\ UNCHANGED <<edmac_memcpy_sem, edmac_read_done_sem, cbr, running, done>>

\* edmac_copy_rectangle_adv_cleanup.
Cleanup(t) ==
    /\ pc[t] = "cleanup"
    /\ cbr' = None /\ edmac_memcpy_sem' = TRUE
    /\ pc' = [pc EXCEPT ![t] = "idle"]
    /\ UNCHANGED <<edmac_read_done_sem, running, done, late>>

-----------------------------------------------------------------------------

Waiting(t) == Finish(t) \/ Timeout(t) \/ Cleanup(t)

Next ==
    \/ \E u \in Users : Start(u) \/ Program(u) \/ Interrupt(u)
    \/ \E t \in Tasks : SmallCopy(t) \/ Waiting(t)

\* A task that holds the channels goes on, and a recorder's copy ends.  Whether
\* and when anybody starts a copy is up to them.
Spec ==
    /\ Init /\ [][Next]_vars
    /\ \A u \in Users : WF_vars(Program(u))
    /\ \A t \in Tasks : WF_vars(Waiting(t))
    /\ \A r \in Recorders : WF_vars(Interrupt(r))

-----------------------------------------------------------------------------
(* Properties                                                              *)

\* Type correctness.
TypeOK ==
    /\ edmac_memcpy_sem \in BOOLEAN /\ edmac_read_done_sem \in BOOLEAN /\ late \in BOOLEAN
    /\ cbr \in Users \cup {None}
    /\ pc \in [Users -> {"idle", "set", "wait", "cleanup"}]
    /\ running \subseteq Users /\ done \subseteq Users

Holders == {u \in Users : pc[u] # "idle"}

\* "to allow only one memcpy running at a time": as long as no wait has timed
\* out the semaphore is held by the one user of the channels, whose callback is
\* the one registered, and no other copy is in progress.
OneCopy ==
    ~ late => /\ edmac_memcpy_sem <=> Holders = {}
              /\ \A u, v \in Holders : u = v
              /\ running \subseteq Holders
              /\ cbr # None => Holders = {cbr}

\* edmac_copy_rectangle_adv_finish: unless a wait has timed out, who gets past
\* it has its data, be it from the EDMAC or from the CPU, and the token it took
\* was its own.
CopiedWhenFinished == ~ late => \A t \in Tasks : pc[t] = "cleanup" => t \in done /\ ~ edmac_read_done_sem

\* Even when waits time out and interrupts come late, the channels do not stay
\* locked: the semaphore becomes free again.
Released == ~ edmac_memcpy_sem ~> edmac_memcpy_sem

\* What the callers see: whoever holds the channels is served, until a wait has
\* timed out.
ServedBy(where, timed_out) ==
    IF timed_out \/ \A u \in Users : where[u] = "idle" THEN None
    ELSE CHOOSE u \in Users : where[u] # "idle"

Service == INSTANCE CopyService WITH
    user <- ServedBy(pc, late),
    copied <- IF late THEN {} ELSE done,
    given_up <- late

\* The semaphores, callbacks and interrupts of edmac-memcpy.c implement the
\* service: users are served one after the other, each from beginning to end,
\* and none is let go without its data unless a wait times out.
ImplementsService == Service!Spec
=============================================================================
