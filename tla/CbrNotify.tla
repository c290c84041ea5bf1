----------------------------- MODULE CbrNotify ------------------------------
(***************************************************************************)
(* Named callbacks and the notification box together.  A callback runs     *)
(* under ml_cbr_lock in the task that notifies, and may call NotifyBox,    *)
(* which waits for notify_box_main_sem: one lock is held while waiting for *)
(* the other.  Tasks also post messages on their own.                      *)
(***************************************************************************)
EXTENDS MlCbr, NotifyBox

CONSTANTS
    Loader,     \* the task that loads and unloads modules
    Notifiers,  \* tasks that notify events (sound_recording_enabled)
    Boxers,     \* the callbacks that call NotifyBox
    Entries     \* the MODULE_NAMED_CBRs of the modules, with a priority each

ASSUME CbrNotifyAssumption ==
    /\ Loader \in Tasks /\ Notifiers \subseteq Tasks /\ Boxers \subseteq Callbacks
    /\ Entries \subseteq [event : Events, cbr : Callbacks, prio : Prios]

vars == <<cbrVars, boxVars>>

Init == CbrInit /\ BoxInit

\* The module loader: module.c registers and unregisters MODULE_NAMED_CBRs.
Load ==
    /\ nb[Loader] = "out" /\ walk[Loader] = NoWalk
    /\ \E n \in Entries :
          \/ ml_register_cbr(n.event, n.cbr, n.prio)
          \/ ml_register_cbr_fails(n.event)
          \/ ml_unregister_cbr(n.event, n.cbr)
    /\ UNCHANGED boxVars

Notify(t) ==
    /\ nb[t] = "out"
    /\ \E e \in Events : ml_notify_cbr(t, e)
    /\ UNCHANGED boxVars

\* A callback starts; it posts a message or does something local.
Call(t) ==
    /\ CallCbr(t)
    /\ \/ /\ Walked(t)[walk[t].pos].cbr \in Boxers
          /\ \E a \in Calls : Post(t, a)
       \/ UNCHANGED boxVars

Return(t) ==
    /\ nb[t] = "out"
    /\ \E stop \in BOOLEAN : CbrReturns(t, stop)
    /\ UNCHANGED boxVars

Unlock(t) == WalkDone(t) /\ UNCHANGED boxVars

\* A task posts a message on its own.
PostAlone(t) ==
    /\ walk[t] = NoWalk
    /\ \E a \in Calls : Post(t, a)
    /\ UNCHANGED cbrVars

Hide == NotifyBoxHide /\ UNCHANGED cbrVars
Box == NotifyBox_task /\ UNCHANGED cbrVars
Gui == Redraw /\ UNCHANGED cbrVars
ShutDown == Shutdown /\ UNCHANGED cbrVars
InBox(t) == Posting(t) /\ UNCHANGED cbrVars

\* What a task does once it has called ml_notify_cbr or NotifyBox.
Continue(t) == Call(t) \/ Return(t) \/ Unlock(t) \/ InBox(t)

Next ==
    \/ Load
    \/ Hide
    \/ Box
    \/ Gui
    \/ ShutDown
    \/ \E t \in Notifiers : Notify(t)
    \/ \E t \in Tasks : PostAlone(t) \/ Continue(t)

\* Every task goes on with what it has begun, and the GUI task serves its events;
\* nothing forces a task to begin.
Fairness == WF_vars(Box) /\ WF_vars(Gui) /\ \A t \in Tasks : WF_vars(Continue(t))

Spec == Init /\ [][Next]_vars /\ Fairness

-----------------------------------------------------------------------------
TypeOK == CbrTypeOK /\ BoxTypeOK

\* ml_cbr_lock never stays taken: a walk ends although its callbacks wait for
\* notify_box_main_sem, which other tasks take and give back meanwhile.
WalkEnds == ml_cbr_lock # NoTask ~> ml_cbr_lock = NoTask
=============================================================================
