----------------------------- MODULE NotifyBox ------------------------------
(***************************************************************************)
(* The notification box: src/notify_box.c.  Any task may post a message;   *)
(* one task draws it for a while and asks the GUI task to erase it, which  *)
(* does so whenever it comes to it.  Posters exclude each other by         *)
(* notify_box_main_sem; poster and drawing task share plain variables, so  *)
(* every access that matters is a step of its own.  Time is counted in     *)
(* turns of the drawing loop (50 ms).                                      *)
(***************************************************************************)
EXTENDS DryosTasks, Naturals

CONSTANTS
    Msgs,       \* texts
    NoMsg,      \* the empty buffer at start-up
    Timeouts,   \* MAX(timeout, 100) / 50 of the posts
    MaxPosts    \* bound: calls of NotifyBox in a behaviour

ASSUME BoxAssumption ==
    /\ NoMsg \notin Msgs
    /\ Timeouts \subseteq Nat \ {0, 1} /\ MaxPosts \in Nat

VARIABLES
    notify_box_show_sem,     \* a message waits for the drawing task
    notify_box_main_sem,     \* the task inside NotifyBox, or NoTask
    notify_box_timeout,
    notify_box_stop_request,
    notify_box_dirty,
    notify_box_msg,
    screen,   \* the texts drawn since the GUI task last redrew
    redraws,  \* MLEV_REDRAW events in the queue of the GUI task
    ml_shutdown_requested,
    npc,      \* where NotifyBox_task is
    left,     \* the value `notify_box_timeout -= 50` has read
    nb,       \* where each task is in NotifyBox
    arg,      \* the arguments of its call, NoCall without one
    posts     \* number of calls so far

shared == <<notify_box_timeout, notify_box_stop_request, notify_box_dirty, notify_box_msg>>
drawing == <<screen, redraws, npc, left, ml_shutdown_requested>>
posting == <<notify_box_main_sem, nb, arg, posts>>
boxVars == <<notify_box_show_sem, shared, drawing, posting>>

Calls == [msg : Msgs, ticks : Timeouts]
NoCall == [msg |-> NoMsg, ticks |-> 0]

BoxInit ==
    /\ notify_box_show_sem = FALSE /\ notify_box_main_sem = NoTask
    /\ notify_box_timeout = 0 /\ notify_box_stop_request = FALSE
    /\ notify_box_dirty = FALSE /\ notify_box_msg = NoMsg
    /\ screen = {} /\ redraws = 0 /\ ml_shutdown_requested = FALSE /\ npc = "wait" /\ left = 0
    /\ nb = [t \in Tasks |-> "out"]
    /\ arg = [t \in Tasks |-> NoCall]
    /\ posts = 0

-----------------------------------------------------------------------------
(* The GUI task and shutdown                                               *)

\* MLEV_REDRAW is served: _redraw_do has Canon's dialog, or the menu, drawn over
\* whatever there is.  (It does nothing before ml_started, which is not modelled.)
Redraw ==
    /\ redraws > 0
    /\ redraws' = redraws - 1 /\ screen' = {}
    /\ UNCHANGED <<notify_box_show_sem, shared, npc, left, ml_shutdown_requested, posting>>

\* ml_shutdown, from the property task.
Shutdown ==
    /\ ~ ml_shutdown_requested
    /\ ml_shutdown_requested' = TRUE
    /\ UNCHANGED <<notify_box_show_sem, shared, screen, redraws, npc, left, posting>>

-----------------------------------------------------------------------------
(* NotifyBox_task                                                          *)

\* redraw() only posts an event; fake_simple_button drops it during a shutdown.
redraw == redraws' = IF ml_shutdown_requested THEN redraws ELSE redraws + 1

\* The head of TASK_LOOP.
TaskLoop == IF ml_shutdown_requested THEN "done" ELSE "wait"

\* take_semaphore succeeds (its 500 ms timeout only makes it look at TASK_LOOP).
Wake ==
    /\ npc = "wait" /\ notify_box_show_sem
    /\ notify_box_show_sem' = FALSE
    /\ npc' = IF notify_box_timeout = 0 THEN TaskLoop ELSE "reset"
    /\ UNCHANGED <<shared, screen, redraws, left, ml_shutdown_requested, posting>>

\* The wait times out after a shutdown was requested.
Leave ==
    /\ npc = "wait" /\ ~ notify_box_show_sem /\ ml_shutdown_requested
    /\ npc' = "done"
    /\ UNCHANGED <<notify_box_show_sem, shared, screen, redraws, left,
                   ml_shutdown_requested, posting>>

Reset ==
    /\ npc = "reset"
    /\ notify_box_stop_request' = FALSE /\ notify_box_dirty' = FALSE
    /\ npc' = "loop"
    /\ UNCHANGED <<notify_box_show_sem, notify_box_timeout, notify_box_msg, screen, redraws,
                   left, ml_shutdown_requested, posting>>

\* The head of the loop; an old message is to be wiped.
Loop ==
    /\ npc = "loop"
    /\ \/ /\ notify_box_timeout = 0
          /\ npc' = "end" /\ UNCHANGED redraws
       \/ /\ notify_box_timeout > 0 /\ notify_box_dirty
          /\ npc' = "clean" /\ redraw
       \/ /\ notify_box_timeout > 0 /\ ~ notify_box_dirty
          /\ npc' = "print" /\ UNCHANGED redraws
    /\ UNCHANGED <<notify_box_show_sem, shared, screen, left, ml_shutdown_requested, posting>>

\* Mutant: `continue` after the redraw.
CleanSkips ==
    /\ npc = "clean"
    /\ notify_box_dirty' = FALSE
    /\ npc' = "sleep"
    /\ UNCHANGED <<notify_box_show_sem, notify_box_timeout, notify_box_stop_request,
                   notify_box_msg, screen, redraws, left, ml_shutdown_requested, posting>>

Clean ==
    /\ npc = "clean"
    /\ notify_box_dirty' = FALSE
    /\ npc' = "print"
    /\ UNCHANGED <<notify_box_show_sem, notify_box_timeout, notify_box_stop_request,
                   notify_box_msg, screen, redraws, left, ml_shutdown_requested, posting>>

\* Mutant: the flag is cleared with the drawing, not before it.
PrintClean ==
    /\ npc = "print"
    /\ screen' = screen \cup {notify_box_msg}
    /\ notify_box_dirty' = FALSE
    /\ npc' = "sleep"
    /\ UNCHANGED <<notify_box_show_sem, notify_box_timeout, notify_box_stop_request,
                   notify_box_msg, redraws, left, ml_shutdown_requested, posting>>

Draw ==
    /\ npc = "print"
    /\ screen' = screen \cup {notify_box_msg}
    /\ npc' = "sleep"
    /\ UNCHANGED <<notify_box_show_sem, shared, redraws, left, ml_shutdown_requested, posting>>

\* After msleep(50): leave on request, else read the timeout ...
Sleep ==
    /\ npc = "sleep"
    /\ npc' = IF notify_box_stop_request THEN "end" ELSE "store"
    /\ left' = IF notify_box_stop_request THEN left ELSE notify_box_timeout
    /\ UNCHANGED <<notify_box_show_sem, shared, screen, redraws, ml_shutdown_requested, posting>>

\* Mutant: the time does not run.
StoreSame ==
    /\ npc = "store"
    /\ notify_box_timeout' = left /\ left' = 0
    /\ npc' = "loop"
    /\ UNCHANGED <<notify_box_show_sem, notify_box_stop_request, notify_box_dirty,
                   notify_box_msg, screen, redraws, ml_shutdown_requested, posting>>

\* ... and write it back, over what a poster may have written meanwhile.
Store ==
    /\ npc = "store"
    /\ notify_box_timeout' = left - 1 /\ left' = 0
    /\ npc' = "loop"
    /\ UNCHANGED <<notify_box_show_sem, notify_box_stop_request, notify_box_dirty,
                   notify_box_msg, screen, redraws, ml_shutdown_requested, posting>>

\* notify_box_timeout = 0 wipes out a message posted since the loop ended.
End ==
    /\ npc = "end"
    /\ notify_box_timeout' = 0
    /\ npc' = "erase"
    /\ UNCHANGED <<notify_box_show_sem, notify_box_stop_request, notify_box_dirty,
                   notify_box_msg, screen, redraws, left, ml_shutdown_requested, posting>>

Erase ==
    /\ npc = "erase"
    /\ redraw /\ npc' = TaskLoop
    /\ UNCHANGED <<notify_box_show_sem, shared, screen, left, ml_shutdown_requested, posting>>

NotifyBox_task ==
    Wake \/ Leave \/ Reset \/ Loop \/ Clean \/ Draw \/ Sleep \/ Store \/ End \/ Erase

-----------------------------------------------------------------------------
(* NotifyBox and NotifyBoxHide                                             *)

NotifyBoxHide ==
    /\ notify_box_stop_request' = TRUE
    /\ UNCHANGED <<notify_box_show_sem, notify_box_timeout, notify_box_dirty,
                   notify_box_msg, drawing, posting>>

\* A task calls NotifyBox and waits for notify_box_main_sem.
Post(t, a) ==
    /\ nb[t] = "out" /\ posts < MaxPosts
    /\ posts' = posts + 1
    /\ nb' = [nb EXCEPT ![t] = "enter"] /\ arg' = [arg EXCEPT ![t] = a]
    /\ UNCHANGED <<notify_box_show_sem, notify_box_main_sem, shared, drawing>>

Enter(t) ==
    /\ nb[t] = "enter" /\ notify_box_main_sem = NoTask
    /\ notify_box_main_sem' = t
    /\ nb' = [nb EXCEPT ![t] = "compare"]
    /\ UNCHANGED <<notify_box_show_sem, shared, drawing, arg, posts>>

\* The same message again needs only more time; a new one is copied.
Compare(t) ==
    /\ nb[t] = "compare"
    /\ IF notify_box_timeout # 0 /\ notify_box_msg = arg[t].msg
       THEN nb' = [nb EXCEPT ![t] = "extend"] /\ UNCHANGED notify_box_msg
       ELSE nb' = [nb EXCEPT ![t] = "arm"] /\ notify_box_msg' = arg[t].msg
    /\ UNCHANGED <<notify_box_show_sem, notify_box_timeout, notify_box_stop_request,
                   notify_box_dirty, drawing, notify_box_main_sem, arg, posts>>

Extend(t) ==
    /\ nb[t] = "extend"
    /\ notify_box_timeout' = arg[t].ticks
    /\ nb' = [nb EXCEPT ![t] = "out"]
    /\ arg' = [arg EXCEPT ![t] = NoCall] /\ notify_box_main_sem' = NoTask
    /\ UNCHANGED <<notify_box_show_sem, notify_box_stop_request, notify_box_dirty,
                   notify_box_msg, drawing, posts>>

Arm(t) ==
    /\ nb[t] = "arm"
    /\ notify_box_timeout' = arg[t].ticks
    /\ nb' = [nb EXCEPT ![t] = "mark"]
    /\ UNCHANGED <<notify_box_show_sem, notify_box_stop_request, notify_box_dirty,
                   notify_box_msg, drawing, notify_box_main_sem, arg, posts>>

\* The timeout is read again: the drawing task may have cleared it.
Mark(t) ==
    /\ nb[t] = "mark"
    /\ notify_box_dirty' = (notify_box_dirty \/ notify_box_timeout # 0)
    /\ nb' = [nb EXCEPT ![t] = "give"]
    /\ UNCHANGED <<notify_box_show_sem, notify_box_timeout, notify_box_stop_request,
                   notify_box_msg, drawing, notify_box_main_sem, arg, posts>>

\* Mutant: only the early exit gives the semaphore back.
GiveKeeps(t) ==
    /\ nb[t] = "give"
    /\ notify_box_show_sem' = TRUE
    /\ nb' = [nb EXCEPT ![t] = "out"]
    /\ arg' = [arg EXCEPT ![t] = NoCall]
    /\ UNCHANGED <<notify_box_main_sem, shared, drawing, posts>>

Give(t) ==
    /\ nb[t] = "give"
    /\ notify_box_show_sem' = TRUE
    /\ nb' = [nb EXCEPT ![t] = "out"]
    /\ arg' = [arg EXCEPT ![t] = NoCall] /\ notify_box_main_sem' = NoTask
    /\ UNCHANGED <<shared, drawing, posts>>

\* The call of t once it has been made.
Posting(t) == Enter(t) \/ Compare(t) \/ Extend(t) \/ Arm(t) \/ Mark(t) \/ Give(t)

-----------------------------------------------------------------------------
(* Properties                                                              *)

BoxTypeOK ==
    /\ notify_box_show_sem \in BOOLEAN /\ notify_box_main_sem \in Tasks \cup {NoTask}
    /\ notify_box_timeout \in Nat /\ notify_box_stop_request \in BOOLEAN
    /\ notify_box_dirty \in BOOLEAN /\ notify_box_msg \in Msgs \cup {NoMsg}
    /\ screen \subseteq Msgs /\ redraws \in Nat /\ ml_shutdown_requested \in BOOLEAN
    /\ left \in Nat /\ posts \in 0..MaxPosts
    /\ npc \in {"wait", "reset", "loop", "clean", "print", "sleep", "store", "end", "erase",
              "done"}
    /\ nb \in [Tasks -> {"out", "enter", "compare", "extend", "arm", "mark", "give"}]
    /\ arg \in [Tasks -> Calls \cup {NoCall}]

\* While the box is up and nobody is changing it, no older text stays under the
\* latest message: it has been wiped, or the drawing task is about to ask for it
\* (notify_box_dirty), or the GUI task has been asked.  No interleaving of the
\* poster's writes with the drawing loop, and no delay of the GUI task, loses the
\* request, until a shutdown drops them all.
BoxShowsMessage ==
    /\ npc = "sleep" /\ notify_box_main_sem = NoTask
    /\ ~ notify_box_dirty /\ redraws = 0 /\ ~ ml_shutdown_requested
    => screen \subseteq {notify_box_msg}

\* The box goes away again in the end, whatever was posted while it was up and
\* however late the GUI task erases it, unless the camera shuts down.
BoxGoesAway == <>[](screen = {} \/ ml_shutdown_requested)

\* A message handed over while the task waits is drawn, even if NotifyBoxHide
\* comes at once and the erasure of the one before it is still to come; only a
\* newer message can be drawn in its place.  (After the loop has ended, End can
\* wipe a message out unseen; and a shutdown may come first.)
WaitingMessageShown ==
    (npc = "wait" /\ notify_box_show_sem /\ notify_box_timeout # 0)
    ~> (notify_box_msg \in screen \/ ml_shutdown_requested)
=============================================================================
