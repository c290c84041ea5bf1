---------------------------- MODULE MCCbrNotify -----------------------------
(* An instance of CbrNotify for TLC.                                       *)
EXTENDS CbrNotify

CONSTANTS loader, rec, ev1, ev2, c1, c2

MCTasks == {loader, rec}
MCEvents == {ev1, ev2}
MCCallbacks == {c1, c2}
MCEntries == {[event |-> ev1, cbr |-> c1, prio |-> 0],
              [event |-> ev1, cbr |-> c2, prio |-> 1],
              [event |-> ev2, cbr |-> c2, prio |-> 0]}
MCNotifiers == {rec}
MCBoxers == {c1}
=============================================================================
