------------------------- MODULE EdmacMemcpyProofs -------------------------
(***************************************************************************)
(* The copies of edmac-memcpy.c exclude each other, and a task that gets   *)
(* past the wait has its data, for any number of tasks and recorders, as   *)
(* long as no wait has timed out.                                          *)
(***************************************************************************)
EXTENDS EdmacMemcpy, TLAPS

\* Who uses the channels, and what the semaphores and the callback say of it.
InOrder ==
    /\ edmac_memcpy_sem <=> \A u \in Users : pc[u] = "idle"
    /\ \A u, v \in Users : pc[u] # "idle" /\ pc[v] # "idle" => u = v
    /\ cbr # None => pc[cbr] # "idle"
    /\ \A u \in Users : pc[u] = "set" => cbr = u /\ u \notin running
    /\ \A u \in running : pc[u] = "wait" /\ cbr = u
    /\ \A r \in Recorders : pc[r] = "wait" => r \in running
    /\ \A r \in Recorders : pc[r] # "cleanup"
    /\ \A t \in Tasks : pc[t] = "wait" /\ t \notin running => t \in done /\ edmac_read_done_sem
    /\ \A t \in Tasks : pc[t] = "cleanup" => t \in done /\ ~ edmac_read_done_sem
    /\ edmac_read_done_sem => \E t \in Tasks : pc[t] = "wait" /\ t \notin running

\* The inductive invariant.
IInv == TypeOK /\ (~ late => InOrder)

\* The initial state is in order.
LEMMA Initially == Init => IInv
  BY EdmacAssumption, Zenon DEF Init, IInv, InOrder, TypeOK, Users

\* Every operation and interrupt keeps the types.
LEMMA TypeStep == TypeOK /\ [Next]_vars => TypeOK'
  <1> SUFFICES ASSUME TypeOK, [Next]_vars PROVE TypeOK'
    BY Zenon
  <1> USE DEF TypeOK
  <1>1. ASSUME NEW u \in Users, Start(u) PROVE TypeOK'
    BY <1>1, Zenon DEF Start, Take
  <1>2. ASSUME NEW u \in Users, Program(u) PROVE TypeOK'
    BY <1>2, Zenon DEF Program
  <1>3. ASSUME NEW u \in Users, Interrupt(u) PROVE TypeOK'
    BY <1>3, Zenon DEF Interrupt
  <1>4. ASSUME NEW t \in Tasks, SmallCopy(t) PROVE TypeOK'
    BY <1>4, Zenon DEF SmallCopy, Take, Users
  <1>5. ASSUME NEW t \in Tasks, Waiting(t) PROVE TypeOK'
    BY <1>5, Zenon DEF Waiting, Finish, Timeout, Cleanup, Users
  <1>6. CASE UNCHANGED vars
    BY <1>6, Zenon DEF vars
  <1> QED
    BY <1>1, <1>2, <1>3, <1>4, <1>5, <1>6, Zenon DEF Next

\* Taking the semaphore and registering the callback.
LEMMA StartStep ==
  ASSUME TypeOK, InOrder, NEW u \in Users, Start(u)
  PROVE  InOrder'
  <1> USE EdmacAssumption DEF TypeOK, InOrder, Users, Start, Take
  <1>1. \A v \in Users : pc[v] = "idle"
    BY Zenon
  <1>2. pc' = [pc EXCEPT ![u] = "set"] /\ running = {} /\ ~ edmac_read_done_sem
    BY <1>1
  <1> QED
    BY <1>1, <1>2, Zenon

\* Starting the channels.
LEMMA ProgramStep ==
  ASSUME TypeOK, InOrder, NEW u \in Users, Program(u)
  PROVE  InOrder'
  BY EdmacAssumption DEF TypeOK, InOrder, Users, Program

\* The copy that the CPU has made.
LEMMA SmallCopyStep ==
  ASSUME TypeOK, InOrder, NEW t \in Tasks, SmallCopy(t)
  PROVE  InOrder'
  <1> USE EdmacAssumption DEF TypeOK, InOrder, Users, SmallCopy, Take
  <1>1. \A v \in Users : pc[v] = "idle"
    BY Zenon
  <1>2. pc' = [pc EXCEPT ![t] = "wait"] /\ running = {} /\ cbr = None
    BY <1>1, Zenon
  <1> QED
    BY <1>1, <1>2

\* The end of a copy: the callback is that of its owner.
LEMMA InterruptStep ==
  ASSUME TypeOK, InOrder, NEW u \in Users, Interrupt(u)
  PROVE  InOrder'
  <1> USE EdmacAssumption DEF TypeOK, InOrder, Users
  <1>1. u \in running /\ cbr = u /\ pc[u] = "wait"
    BY Zenon DEF Interrupt
  <1>2. \A v \in Users : v # u => pc[v] = "idle" /\ v \notin running
    BY <1>1, Zenon
  <1>3. CASE u \in Tasks
    <2>1. /\ running' = running \ {u} /\ done' = done \cup {u} /\ edmac_read_done_sem' = TRUE
          /\ UNCHANGED <<cbr, edmac_memcpy_sem, pc>>
      BY <1>1, <1>3, Zenon DEF Interrupt
    <2> QED
      BY <1>1, <1>2, <1>3, <2>1, Zenon
  <1>4. CASE u \in Recorders
    BY <1>1, <1>2, <1>4 DEF Interrupt
  <1> QED
    BY <1>3, <1>4, Zenon

\* The wait ends and the channels are given back.
LEMMA WaitingStep ==
  ASSUME TypeOK, InOrder, NEW t \in Tasks, Finish(t) \/ Cleanup(t)
  PROVE  InOrder'
  <1> USE EdmacAssumption DEF TypeOK, InOrder, Users
  <1>1. \A v \in Users : v # t => pc[v] = "idle" /\ v \notin running
    BY Zenon DEF Finish, Cleanup
  <1>2. CASE Finish(t)
    BY <1>1, <1>2 DEF Finish
  <1>3. CASE Cleanup(t)
    BY <1>1, <1>3, Zenon DEF Cleanup
  <1> QED
    BY <1>2, <1>3, Zenon

\* The invariant is inductive; a timeout ends what it claims.
LEMMA Inductive == IInv /\ [Next]_vars => IInv'
  <1> SUFFICES ASSUME TypeOK, ~ late => InOrder, [Next]_vars PROVE IInv'
    BY Zenon DEF IInv
  <1>1. TypeOK'
    BY TypeStep, Zenon
  <1>2. ASSUME ~ late' PROVE ~ late
    BY <1>2, Zenon DEF Next, Start, Take, Program, Interrupt, SmallCopy, Waiting, Finish, Timeout, Cleanup, vars
  <1>3. ASSUME ~ late' PROVE InOrder'
    <2>1. InOrder
      BY <1>2, <1>3, Zenon
    <2>2. CASE UNCHANGED vars
      BY <2>1, <2>2, Zenon DEF vars, InOrder
    <2>3. CASE Next
      <3>1. \A t \in Tasks : ~ Timeout(t)
        BY <1>3, Zenon DEF Timeout
      <3> QED
        BY <2>1, <2>3, <3>1, StartStep, ProgramStep, SmallCopyStep, InterruptStep, WaitingStep, Zenon
           DEF Next, Waiting
    <2> QED
      BY <2>2, <2>3, Zenon
  <1> QED
    BY <1>1, <1>3, Zenon DEF IInv

\* What is claimed of the copies follows from the invariant.
LEMMA Follows == IInv => TypeOK /\ OneCopy /\ CopiedWhenFinished
  BY DEF IInv, InOrder, TypeOK, OneCopy, CopiedWhenFinished, Holders, Users

\* The invariant holds throughout.
LEMMA Invariant == Spec => []IInv
  BY Initially, Inductive, PTL DEF Spec

\* Type correctness: in particular the callback that is registered is a user's.
THEOREM TypeCorrect == Spec => []TypeOK
  BY Invariant, Follows, PTL

\* edmac-memcpy.c, "to allow only one memcpy running at a time": one user holds
\* the channels, its callback is registered and only its copy is in progress.
THEOREM CopiesExclude == Spec => []OneCopy
  BY Invariant, Follows, PTL

\* edmac_copy_rectangle_adv_finish: who gets past the wait has its data.
THEOREM FinishedIsCopied == Spec => []CopiedWhenFinished
  BY Invariant, Follows, PTL

-----------------------------------------------------------------------------
(* The service of CopyService                                              *)

\* The only user that is not idle is the one that is served.
LEMMA Served ==
  ASSUME NEW where \in [Users -> {"idle", "set", "wait", "cleanup"}],
         \A u, v \in Users : where[u] # "idle" /\ where[v] # "idle" => u = v
  PROVE  /\ \A u \in Users : where[u] # "idle" => ServedBy(where, FALSE) = u
         /\ (\A u \in Users : where[u] = "idle") => ServedBy(where, FALSE) = None
         /\ ServedBy(where, TRUE) = None
  BY Zenon DEF ServedBy

\* At first nobody is served.
LEMMA ServiceInit == Init => Service!Init
  BY Zenon DEF Init, Service!Init, ServedBy

\* A step of the copies, in order before and after, is a step of the service or
\* none, and a timeout is its giving up.
LEMMA ServiceStep == IInv /\ IInv' /\ [Next]_vars => [Service!Next]_Service!vars
  <1> SUFFICES ASSUME IInv, IInv', [Next]_vars PROVE [Service!Next]_Service!vars
    BY Zenon
  <1> DEFINE user == ServedBy(pc, late)
             copied == IF late THEN {} ELSE done
  <1> USE DEF Service!Next, Service!vars
  <1>1. CASE late
    <2>1. late'
      BY <1>1, Zenon DEF Next, Start, Take, Program, Interrupt, SmallCopy, Waiting, Finish, Timeout,
                         Cleanup, vars
    <2>2. user = None /\ user' = None /\ copied = {} /\ copied' = {}
      BY <1>1, <2>1, Zenon DEF ServedBy
    <2>3. late' = late
      BY <1>1, <2>1, Zenon DEF IInv, TypeOK
    <2> QED
      BY <2>2, <2>3, Zenon
  <1>2. CASE ~ late
    <2>1. TypeOK /\ InOrder
      BY <1>2, Zenon DEF IInv
    <2>2. /\ \A u \in Users : pc[u] # "idle" => user = u
          /\ (\A u \in Users : pc[u] = "idle") => user = None
          /\ copied = done
      <3>1. /\ \A u \in Users : pc[u] # "idle" => ServedBy(pc, FALSE) = u
            /\ (\A u \in Users : pc[u] = "idle") => ServedBy(pc, FALSE) = None
        BY <2>1, Served, Zenon DEF TypeOK, InOrder
      <3>2. late = FALSE
        BY <1>2, <2>1, Zenon DEF TypeOK
      <3> QED
        BY <3>1, <3>2, Zenon
    <2>3. ASSUME ~ late'
          PROVE  /\ \A u \in Users : pc'[u] # "idle" => user' = u
                 /\ (\A u \in Users : pc'[u] = "idle") => user' = None
                 /\ copied' = done'
      <3>1. TypeOK' /\ InOrder'
        BY <2>3, Zenon DEF IInv
      <3>2. /\ \A u \in Users : pc'[u] # "idle" => ServedBy(pc', FALSE) = u
            /\ (\A u \in Users : pc'[u] = "idle") => ServedBy(pc', FALSE) = None
        BY <3>1, Served, Zenon DEF TypeOK, InOrder
      <3>3. late' = FALSE
        BY <2>3, <3>1, Zenon DEF TypeOK
      <3> QED
        BY <2>3, <3>2, <3>3, Zenon
    <2>4. ASSUME NEW u \in Users, Start(u) PROVE Service!Begin(u)
      <3>1. (\A v \in Users : pc[v] = "idle") /\ pc'[u] # "idle" /\ ~ late'
        BY <1>2, <2>1, <2>4, Zenon DEF Start, Take, TypeOK, InOrder
      <3> QED
        BY <1>2, <2>2, <2>3, <2>4, <3>1, Zenon DEF Start, Service!Begin
    <2>5. ASSUME NEW u \in Users, Program(u) PROVE UNCHANGED Service!vars
      <3>1. pc[u] # "idle" /\ pc'[u] # "idle" /\ ~ late'
        BY <1>2, <2>1, <2>5, Zenon DEF Program, TypeOK
      <3> QED
        BY <1>2, <2>2, <2>3, <2>5, <3>1, Zenon DEF Program
    <2>6. ASSUME NEW u \in Users, Interrupt(u) PROVE Service!Copy
      <3>1. /\ u \in running /\ pc[u] = "wait" /\ cbr = u /\ ~ late'
            /\ \A v \in Users : v # u => pc[v] = "idle"
        BY <1>2, <2>1, <2>6, Zenon DEF Interrupt, InOrder
      <3>2. pc' = pc \/ \A v \in Users : pc'[v] = "idle"
        BY <2>1, <2>6, <3>1, Zenon DEF Interrupt, TypeOK
      <3>3. user = u /\ user' \in {user, None}
        BY <2>2, <2>3, <3>1, <3>2, Zenon
      <3>4. user # None
        BY <3>3, EdmacAssumption, Zenon DEF Users
      <3> QED
        BY <1>2, <2>2, <2>3, <2>6, <3>1, <3>3, <3>4, Zenon DEF Interrupt, Service!Copy
    <2>7. ASSUME NEW t \in Tasks, SmallCopy(t) PROVE t \in Users /\ Service!Begin(t)
      <3>1. t \in Users /\ (\A v \in Users : pc[v] = "idle") /\ pc'[t] # "idle" /\ ~ late'
        BY <1>2, <2>1, <2>7, Zenon DEF SmallCopy, Take, TypeOK, InOrder, Users
      <3> QED
        BY <1>2, <2>2, <2>3, <2>7, <3>1, Zenon DEF SmallCopy, Service!Begin
    <2>8. ASSUME NEW t \in Tasks, Finish(t) PROVE UNCHANGED Service!vars
      <3>1. t \in Users /\ pc[t] # "idle" /\ pc'[t] # "idle" /\ ~ late'
        BY <1>2, <2>1, <2>8, Zenon DEF Finish, TypeOK, Users
      <3> QED
        BY <1>2, <2>2, <2>3, <2>8, <3>1, Zenon DEF Finish
    <2>9. ASSUME NEW t \in Tasks, Timeout(t) PROVE Service!GiveUp
      <3>1. t \in Users /\ user = t /\ late' = TRUE
        BY <2>2, <2>9, Zenon DEF Timeout, Users
      <3>2. user # None /\ user' = None /\ copied' = {}
        BY <3>1, EdmacAssumption, Zenon DEF ServedBy, Users
      <3> QED
        BY <3>1, <3>2, Zenon DEF Service!GiveUp
    <2>10. ASSUME NEW t \in Tasks, Cleanup(t) PROVE Service!End
      <3>1. /\ t \in Users /\ pc[t] = "cleanup" /\ t \in done /\ ~ late'
            /\ \A v \in Users : v # t => pc[v] = "idle"
        BY <1>2, <2>1, <2>10, Zenon DEF Cleanup, InOrder, Users
      <3>2. \A v \in Users : pc'[v] = "idle"
        BY <2>1, <2>10, <3>1, Zenon DEF Cleanup, TypeOK
      <3> QED
        BY <1>2, <2>2, <2>3, <2>10, <3>1, <3>2, Zenon DEF Cleanup, Service!End
    <2>11. CASE UNCHANGED vars
      <3>1. pc' = pc /\ done' = done /\ late' = late
        BY <2>11, Zenon DEF vars
      <3>2. user' = user /\ copied' = copied
        BY <1>2, <2>2, <2>3, <3>1, Zenon
      <3> QED
        BY <3>1, <3>2, Zenon
    <2> QED
      BY <2>4, <2>5, <2>6, <2>7, <2>8, <2>9, <2>10, <2>11, Zenon DEF Next, Waiting
  <1> QED
    BY <1>1, <1>2, Zenon

\* edmac-memcpy.c as a whole serves one user after the other and lets none go
\* without its data, unless a wait times out.
THEOREM ServiceImplemented == Spec => ImplementsService
  <1>1. Spec => []IInv
    BY Invariant
  <1> QED
    BY <1>1, ServiceInit, ServiceStep, PTL DEF Spec, ImplementsService, Service!Spec
=============================================================================
