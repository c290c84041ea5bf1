------------------------------- MODULE RawVid -------------------------------
(***************************************************************************)
(* The raw video recorder modules/raw_video/raw_vid.  The producer side    *)
(* (event_pusher.c) runs in Canon's LiveView task (vsync) and in the key   *)
(* handler, and spawns stop_com tasks; all post events to one queue.  The  *)
(* worker task (worker.c) is the only consumer: it places frames in one of *)
(* two crop buffers by EDMAC copies and spawns raw_write tasks that flush  *)
(* a full buffer to the card.  The tasks interleave freely; a step runs    *)
(* from one call that may block or yield to the next.                      *)
(***************************************************************************)
EXTENDS Naturals, Sequences, FiniteSets

CONSTANTS
    Events,     \* events[]: as many as the queue has places (RAW_VID_Q_LEN)
    Stops,      \* stop_com tasks that may exist at the same time
    MaxTries,   \* max_tries of send_stop_command
    BufFrames,  \* frames that fit in a crop buffer; one does, whatever its size
    None        \* no event, no frame, no buffer (NULL)

ASSUME RawVidAssumption ==
    /\ IsFiniteSet(Events) /\ None \notin Events \cup {1, 2}
    /\ MaxTries \in Nat /\ BufFrames \in Nat \ {0}

Bufs == {1, 2}    \* crop_bufs[0], [1] and capture_frames[0], [1]
Types == {"EMPTY", "PREPARING", "START", "STOP", "IMAGE", "NOSRC"}

VARIABLES
    type,           \* events[].type; NOSRC: IMAGE_DATA with a NULL src
    q,              \* the message queue: a sequence of events
    prevent,        \* prevent_recording
    count,          \* frame count of the session: 0, 1, or 2 for more
    caps,           \* which capture_frames are allocated
    frame,          \* the capture frame in use
    vpc, vev,       \* the vsync callback: where it is, the event it holds
    kpc, kev,       \* the key handler
    spc, sev, tries,\* the stop_com tasks
    rec,            \* recording_state
    wpc, wev,       \* the worker and the event it handles
    crop,           \* crop_buf
    bufs,           \* crop_bufs[] are allocated
    cur,            \* frames placed in each crop buffer
    flush,          \* flush_src
    fp,             \* raw_vid_fp is open
    lv,             \* raw_lv_request() minus raw_lv_release()
    edmac_sem,      \* TRUE when it can be taken
    dma,            \* EDMAC copies in progress, by crop buffer
    writers,        \* the raw_write task of each crop buffer
    orphans         \* crop buffers freed under a raw_write task

events   == <<type, q>>
vsync    == <<count, caps, frame, vpc, vev>>
key      == <<kpc, kev>>
stop     == <<spc, sev, tries>>
worker   == <<rec, wpc, wev, crop, bufs, flush, fp, lv>>
card     == <<cur, edmac_sem, dma, writers, orphans>>
vars     == <<events, prevent, vsync, key, stop, worker, card>>

-----------------------------------------------------------------------------
(* Events and the queue                                                    *)

\* Mutant: the slots are recycled by age, without a look at their type.
GetUsedEvent(e) ==
    /\ type[e] # "PREPARING"
    /\ type' = [type EXCEPT ![e] = "PREPARING"]

\* get_empty_event, under events_sem: any slot that is EMPTY.
get_empty_event(e) ==
    /\ type[e] = "EMPTY"
    /\ type' = [type EXCEPT ![e] = "PREPARING"]

NoEmptyEvent == \A e \in Events : type[e] # "EMPTY"

Room == Len(q) < Cardinality(Events)

\* Mutant: a post that does not wait for its acknowledgment is made twice.
PostTwice(e, t) ==
    /\ type' = [type EXCEPT ![e] = t]
    /\ q' = IF Room THEN q \o <<e, e>> ELSE q

post(e, t) ==
    /\ type' = [type EXCEPT ![e] = t]
    /\ q' = IF Room THEN Append(q, e) ELSE q

release_event == type' = [type EXCEPT ![wev] = "EMPTY"]

-----------------------------------------------------------------------------
(* send_stop_command, always run as a task of its own                      *)

SpawnStop ==
    \E s \in Stops :
        /\ spc[s] = "free"
        /\ spc' = [spc EXCEPT ![s] = "begin"]
        /\ UNCHANGED <<sev, tries>>

StopBegin(s) ==
    /\ spc[s] = "begin"
    /\ prevent' = TRUE
    /\ spc' = [spc EXCEPT ![s] = "get"]
    /\ UNCHANGED <<events, vsync, key, sev, tries, worker, card>>

\* The check after the loop looks at the number of tries only, so an event
\* obtained by the last try is dropped on the floor.
StopGet(s) ==
    /\ spc[s] = "get"
    /\ \E e \in Events :
          /\ get_empty_event(e)
          /\ IF tries[s] < MaxTries
             THEN spc' = [spc EXCEPT ![s] = "post"] /\ sev' = [sev EXCEPT ![s] = e]
             ELSE spc' = [spc EXCEPT ![s] = "free"] /\ UNCHANGED sev
    /\ tries' = [tries EXCEPT ![s] = 0]
    /\ UNCHANGED <<q, prevent, vsync, key, worker, card>>

StopRetry(s) ==
    /\ spc[s] = "get" /\ NoEmptyEvent
    /\ IF tries[s] < MaxTries
       THEN tries' = [tries EXCEPT ![s] = @ + 1] /\ UNCHANGED spc
       ELSE spc' = [spc EXCEPT ![s] = "free"] /\ tries' = [tries EXCEPT ![s] = 0]
    /\ UNCHANGED <<events, prevent, vsync, key, sev, worker, card>>

\* A full queue would be tried again, up to MaxTries times.
StopPost(s) ==
    /\ spc[s] = "post"
    /\ post(sev[s], "STOP")
    /\ IF Room \/ tries[s] = MaxTries
       THEN /\ spc' = [spc EXCEPT ![s] = "free"] /\ sev' = [sev EXCEPT ![s] = None]
            /\ tries' = [tries EXCEPT ![s] = 0]
       ELSE tries' = [tries EXCEPT ![s] = @ + 1] /\ UNCHANGED <<spc, sev>>
    /\ UNCHANGED <<prevent, vsync, key, worker, card>>

-----------------------------------------------------------------------------
(* raw_vid_keypress_cbr: the REC key                                       *)

KeyStop ==
    /\ kpc = "idle" /\ rec = "ACTIVE"
    /\ SpawnStop
    /\ UNCHANGED <<events, prevent, vsync, key, worker, card>>

\* The state is read here; the command is posted a step later.
KeyStart ==
    /\ kpc = "idle" /\ rec = "INACTIVE"
    /\ IF NoEmptyEvent
       THEN UNCHANGED <<events, key>>
       ELSE /\ \E e \in Events : get_empty_event(e) /\ kev' = e
            /\ kpc' = "post" /\ UNCHANGED q
    /\ UNCHANGED <<prevent, vsync, stop, worker, card>>

KeyPost ==
    /\ kpc = "post"
    /\ post(kev, "START")
    /\ kpc' = "idle" /\ kev' = None
    /\ UNCHANGED <<prevent, vsync, stop, worker, card>>

-----------------------------------------------------------------------------
(* raw_vid_vsync_cbr                                                       *)

\* Someone asked for a stop while the worker still records.
VsyncReset ==
    /\ vpc = "idle" /\ rec = "ACTIVE" /\ prevent
    /\ count' = 0 /\ caps' = {}
    /\ UNCHANGED <<events, prevent, frame, vpc, vev, key, stop, worker, card>>

VsyncFirst ==
    /\ vpc = "idle" /\ rec = "ACTIVE" /\ ~ prevent /\ count = 0
    /\ count' = 1
    /\ \/ /\ caps' = Bufs /\ frame' = 1 /\ vpc' = "get"
          /\ UNCHANGED stop
       \/ /\ caps' = {} /\ SpawnStop    \* one of the two mallocs failed
          /\ UNCHANGED <<frame, vpc>>
    /\ UNCHANGED <<events, prevent, vev, key, worker, card>>

VsyncNext ==
    /\ vpc = "idle" /\ rec = "ACTIVE" /\ ~ prevent /\ count > 0
    /\ count' = 2 /\ vpc' = "get"
    /\ UNCHANGED <<events, prevent, caps, frame, vev, key, stop, worker, card>>

VsyncGet ==
    /\ vpc = "get"
    /\ \E e \in Events : get_empty_event(e) /\ vev' = e
    /\ vpc' = "post"
    /\ UNCHANGED <<q, prevent, count, caps, frame, key, stop, worker, card>>

VsyncNoEvent ==
    /\ vpc = "get" /\ NoEmptyEvent
    /\ vpc' = "idle" /\ SpawnStop
    /\ UNCHANGED <<events, prevent, count, caps, frame, vev, key, worker, card>>

capture_frames(i) == IF i \in caps THEN i ELSE None

OtherFrame == IF frame = capture_frames(1) THEN capture_frames(2) ELSE capture_frames(1)

ImageType == IF frame = None THEN "NOSRC" ELSE "IMAGE"

\* The event of the first vsync of a session is filled in but not posted.
VsyncPost ==
    /\ vpc = "post"
    /\ IF count > 1
       THEN /\ post(vev, ImageType)
            /\ IF Room THEN UNCHANGED stop ELSE SpawnStop
       ELSE /\ type' = [type EXCEPT ![vev] = ImageType]
            /\ UNCHANGED <<q, stop>>
    /\ frame' = OtherFrame
    /\ vpc' = "idle" /\ vev' = None
    /\ UNCHANGED <<prevent, count, caps, key, worker, card>>

-----------------------------------------------------------------------------
(* The worker: one event at a time                                         *)

\* Mutant: the event is handled while it is still in the queue.
ReceivePeeks ==
    /\ wpc = "idle" /\ q # <<>>
    /\ wev' = Head(q) /\ q' = q
    /\ wpc' = "handle"
    /\ UNCHANGED <<type, prevent, vsync, key, stop, rec, crop, bufs, flush, fp, lv, card>>

Receive ==
    /\ wpc = "idle" /\ q # <<>>
    /\ wev' = Head(q) /\ q' = Tail(q)
    /\ wpc' = "handle"
    /\ UNCHANGED <<type, prevent, vsync, key, stop, rec, crop, bufs, flush, fp, lv, card>>

Handling(t) == wpc = "handle" /\ type[wev] = t

\* release_event, reached from every case of the switch.
EndEvent ==
    /\ release_event
    /\ wpc' = "idle" /\ wev' = None /\ flush' = None
    /\ UNCHANGED <<q, prevent, vsync, key, stop>>

OtherBuf == IF crop = 1 THEN 2 ELSE 1

\* Mutant: one frame too many before the swap.
FullLate == cur[crop] > BufFrames

Full == cur[crop] = BufFrames

\* The test that the frame does not fit any more.  Where crop_buf is NULL it is
\* made on what address 0 holds: see ImageLost.
NoRoom == crop # None => Full

\* No recording, nothing captured or no file; or crop_buf is NULL, and that is
\* noticed or what is read through it makes the frame too large.
ImageRejected ==
    /\ \/ Handling("NOSRC")
       \/ Handling("IMAGE") /\ (rec # "ACTIVE" \/ ~ fp \/ crop = None)
    /\ EndEvent
    /\ UNCHANGED <<rec, crop, bufs, fp, lv, card>>

\* The size test reads crop_buf->end and ->start before crop_buf is compared with
\* NULL, so that the compiler need not keep the comparison.  Reading may end in an
\* exception; or, if there seems to be room, the frame goes wherever address 0
\* says.  What the worker does then is not followed.
ImageLost ==
    /\ Handling("IMAGE")
    /\ rec = "ACTIVE" /\ fp /\ crop = None
    /\ wpc' = "lost"
    /\ UNCHANGED <<events, prevent, vsync, key, stop, rec, wev, crop, bufs, flush, fp, lv, card>>

\* Both buffers are full: no place until the next session.
ImageStuck ==
    /\ Handling("IMAGE")
    /\ rec = "ACTIVE" /\ fp
    /\ NoRoom /\ cur[OtherBuf] # 0
    /\ crop' = None
    /\ EndEvent
    /\ UNCHANGED <<rec, bufs, fp, lv, card>>

\* Mutant: swap without a look at what the other buffer holds.
PlaceBlindly ==
    /\ Handling("IMAGE")
    /\ rec = "ACTIVE" /\ fp
    /\ crop' = IF NoRoom THEN OtherBuf ELSE crop
    /\ flush' = IF NoRoom THEN crop ELSE None
    /\ cur' = [cur EXCEPT ![crop'] = IF NoRoom THEN 1 ELSE @ + 1]
    /\ wpc' = "copy"
    /\ UNCHANGED <<events, prevent, vsync, key, stop, rec, wev, bufs, fp, lv,
                   edmac_sem, dma, writers, orphans>>

\* Choose the place of the frame, swapping buffers if it does not fit.
ImagePlace ==
    /\ Handling("IMAGE")
    /\ rec = "ACTIVE" /\ fp
    /\ NoRoom => cur[OtherBuf] = 0
    /\ crop' = IF NoRoom THEN OtherBuf ELSE crop
    /\ flush' = IF NoRoom THEN crop ELSE None
    /\ cur' = [cur EXCEPT ![crop'] = @ + 1]
    /\ wpc' = "copy"
    /\ UNCHANGED <<events, prevent, vsync, key, stop, rec, wev, bufs, fp, lv,
                   edmac_sem, dma, writers, orphans>>

\* Mutant: the flush is started although the last copy is still running.
DropFlushes ==
    /\ wpc = "copy" /\ ~ edmac_sem
    /\ writers' = IF flush = None THEN writers ELSE [writers EXCEPT ![flush] = "new"]
    /\ EndEvent
    /\ UNCHANGED <<rec, crop, bufs, fp, lv, cur, edmac_sem, dma, orphans>>

\* The previous copy is still running: the frame is dropped, its place and the
\* pending flush are not taken back.
ImageDropped ==
    /\ wpc = "copy" /\ ~ edmac_sem
    /\ EndEvent
    /\ UNCHANGED <<rec, crop, bufs, fp, lv, card>>

\* Mutant: the copy is started whether or not the last one has ended.
CopyAnyway ==
    /\ wpc = "copy"
    /\ edmac_sem' = FALSE
    /\ writers' = IF flush = None THEN writers ELSE [writers EXCEPT ![flush] = "new"]
    /\ dma' = [dma EXCEPT ![crop] = @ + 1]
    /\ EndEvent
    /\ UNCHANGED <<rec, crop, bufs, fp, lv, cur, orphans>>

\* Start the flush of the full buffer, if any, and the copy.
ImageCopied ==
    /\ wpc = "copy" /\ edmac_sem
    /\ edmac_sem' = FALSE
    /\ writers' = IF flush = None THEN writers ELSE [writers EXCEPT ![flush] = "new"]
    /\ dma' = [dma EXCEPT ![crop] = @ + 1]
    /\ EndEvent
    /\ UNCHANGED <<rec, crop, bufs, fp, lv, cur, orphans>>

\* Already recording, no memory, or a start that failed half way before.
StartRefused ==
    /\ Handling("START")
    /\ EndEvent
    /\ UNCHANGED <<rec, crop, bufs, fp, lv, card>>

\* f: the file could be created.  Without a file name the worker stays
\* INACTIVE, but keeps the buffers and the raw LiveView request.
StartRecording(named, f) ==
    /\ Handling("START")
    /\ rec = "INACTIVE" /\ crop = None
    /\ bufs' = TRUE /\ cur' = [b \in Bufs |-> 0] /\ crop' = 1
    /\ lv' = lv + 1
    /\ fp' = (named /\ f)
    /\ rec' = IF named THEN "ACTIVE" ELSE rec
    /\ EndEvent
    /\ UNCHANGED <<edmac_sem, dma, writers, orphans>>

\* Mutant: a recording without a file may be taken for one that has ended.
IgnoredWithoutFile ==
    /\ Handling("STOP") /\ (rec # "ACTIVE" \/ ~ fp)
    /\ EndEvent
    /\ UNCHANGED <<rec, crop, bufs, fp, lv, card>>

StopIgnored ==
    /\ Handling("STOP") /\ rec # "ACTIVE"
    /\ EndEvent
    /\ UNCHANGED <<rec, crop, bufs, fp, lv, card>>

\* Mutant: a stop without a file has nothing to undo.
CloseFileOnly ==
    /\ Handling("STOP") /\ rec = "ACTIVE"
    /\ lv' = (IF fp THEN lv - 1 ELSE lv) /\ fp' = FALSE
    /\ wpc' = "free"
    /\ UNCHANGED <<events, prevent, vsync, key, stop, rec, wev, crop, bufs, flush, card>>

StopClose ==
    /\ Handling("STOP") /\ rec = "ACTIVE"
    /\ lv' = lv - 1 /\ fp' = FALSE
    /\ wpc' = "free"
    /\ UNCHANGED <<events, prevent, vsync, key, stop, rec, wev, crop, bufs, flush, card>>

\* The buffers go even if a raw_write task or a copy still uses them.
StopFree ==
    /\ wpc = "free"
    /\ crop' = None /\ bufs' = FALSE /\ cur' = [b \in Bufs |-> 0]
    /\ writers' = [b \in Bufs |-> IF writers[b] = "writing" THEN "none" ELSE writers[b]]
    /\ orphans' = orphans \cup {b \in Bufs : writers[b] = "writing"}
    /\ rec' = "INACTIVE"
    /\ EndEvent
    /\ UNCHANGED <<fp, lv, edmac_sem, dma>>

-----------------------------------------------------------------------------
(* edmac_cbr_w, and write_buf_to_disk in its own task                      *)

CopyDone(b) ==
    /\ dma[b] > 0
    /\ dma' = [dma EXCEPT ![b] = @ - 1] /\ edmac_sem' = TRUE
    /\ UNCHANGED <<events, prevent, vsync, key, stop, worker, cur, writers, orphans>>

WriteBegin(b) ==
    /\ writers[b] = "new"
    /\ writers' = [writers EXCEPT ![b] = IF bufs /\ fp THEN "writing" ELSE "none"]
    /\ UNCHANGED <<events, prevent, vsync, key, stop, worker, cur, edmac_sem, dma, orphans>>

\* Written: the buffer is good to use again.
WriteEnd(b) ==
    /\ \/ writers[b] = "writing" /\ writers' = [writers EXCEPT ![b] = "none"]
          /\ UNCHANGED orphans
       \/ b \in orphans /\ orphans' = orphans \ {b} /\ UNCHANGED writers
    /\ cur' = [cur EXCEPT ![b] = 0]
    /\ UNCHANGED <<events, prevent, vsync, key, stop, worker, edmac_sem, dma>>

-----------------------------------------------------------------------------

Init ==
    /\ type = [e \in Events |-> "EMPTY"] /\ q = <<>>
    /\ prevent = FALSE
    /\ count = 0 /\ caps = {} /\ frame = None /\ vpc = "idle" /\ vev = None
    /\ kpc = "idle" /\ kev = None
    /\ spc = [s \in Stops |-> "free"] /\ sev = [s \in Stops |-> None]
    /\ tries = [s \in Stops |-> 0]
    /\ rec = "INACTIVE" /\ wpc = "idle" /\ wev = None /\ crop = None
    /\ bufs = FALSE /\ flush = None /\ fp = FALSE /\ lv = 0
    /\ cur = [b \in Bufs |-> 0] /\ edmac_sem = TRUE /\ dma = [b \in Bufs |-> 0]
    /\ writers = [b \in Bufs |-> "none"] /\ orphans = {}

\* raw_write has priority WORKER_PRIO - 1, above the worker: on the one core it
\* gets to its FIO_WriteFile before the worker goes on.
Preempted == \E b \in Bufs : writers[b] = "new"

Worker ==
    /\ ~ Preempted
    /\ \/ Receive
       \/ ImageRejected \/ ImageLost \/ ImageStuck \/ ImagePlace \/ ImageDropped \/ ImageCopied
       \/ StartRefused \/ \E named, f \in BOOLEAN : StartRecording(named, f)
       \/ StopIgnored \/ StopClose \/ StopFree

StopTask(s) == StopBegin(s) \/ StopGet(s) \/ StopRetry(s) \/ StopPost(s)

Vsync == VsyncReset \/ VsyncFirst \/ VsyncNext \/ VsyncGet \/ VsyncNoEvent \/ VsyncPost

Next ==
    \/ KeyStop \/ KeyStart \/ KeyPost
    \/ Vsync
    \/ \E s \in Stops : StopTask(s)
    \/ Worker
    \/ \E b \in Bufs : CopyDone(b) \/ WriteBegin(b) \/ WriteEnd(b)

\* Tasks that are ready run; key presses, vsyncs and the end of a copy or of a
\* write to the card need not happen.
Spec ==
    /\ Init /\ [][Next]_vars
    /\ WF_vars(Worker \/ \E b \in Bufs : WriteBegin(b))
    /\ \A s \in Stops : WF_vars(StopTask(s))

-----------------------------------------------------------------------------
(* Properties                                                              *)

\* Type correctness.
TypeOK ==
    /\ type \in [Events -> Types]
    /\ q \in Seq(Events)
    /\ prevent \in BOOLEAN /\ rec \in {"INACTIVE", "ACTIVE"}
    /\ count \in 0..2 /\ caps \subseteq Bufs /\ frame \in Bufs \cup {None}
    /\ vpc \in {"idle", "get", "post"} /\ kpc \in {"idle", "post"}
    /\ {vev, kev, wev} \subseteq Events \cup {None}
    /\ spc \in [Stops -> {"free", "begin", "get", "post"}]
    /\ sev \in [Stops -> Events \cup {None}] /\ tries \in [Stops -> 0..MaxTries]
    /\ wpc \in {"idle", "handle", "copy", "free", "lost"}
    /\ crop \in Bufs \cup {None} /\ flush \in Bufs \cup {None}
    /\ bufs \in BOOLEAN /\ fp \in BOOLEAN /\ lv \in Nat
    /\ cur \in [Bufs -> 0..BufFrames]
    /\ edmac_sem \in BOOLEAN /\ dma \in [Bufs -> Nat]
    /\ writers \in [Bufs -> {"none", "new", "writing"}] /\ orphans \subseteq Bufs

\* How many tasks, or places of the queue, have their hands on an event.
InHand(e) ==
    Cardinality({n \in DOMAIN q : q[n] = e}) + Cardinality({s \in Stops : sev[s] = e})
    + Cardinality({p \in {<<"v", vev>>, <<"k", kev>>, <<"w", wev>>} : p[2] = e})

\* get_empty_event: an event that can be re-used is in nobody's hands, and one
\* in use is in one task's hands or at one place of the queue only, although
\* the worker releases it without taking events_sem.
OneOwner == \A e \in Events : InHand(e) <= (IF type[e] = "EMPTY" THEN 0 ELSE 1)

\* Who holds an event finds room for it in the queue: the retry loop around
\* msg_queue_post and the ignored result in the key handler never matter.
PostNeverFails ==
    vpc = "post" \/ kpc = "post" \/ (\E s \in Stops : spc[s] = "post") => Room

\* "Caller must never modify any part of an event after posting": what is in
\* the queue stays as it was posted until the worker has received it.
PostedFrozen ==
    [][\A n \in DOMAIN q : type'[q[n]] = type[q[n]]]_vars

\* edmac_sem "ensures we never attempt an edmac copy while the last is in
\* progress": there is never more than one, not even over the end of a session,
\* and the callback of the last one has given the semaphore back.
CopyExclusive == dma[1] + dma[2] = IF edmac_sem THEN 0 ELSE 1

\* A buffer that waits to be written or is being written to the card is not
\* the target of a copy ("we can safely flush").
FlushSafe == \A b \in Bufs : writers[b] # "none" => dma[b] = 0

\* While a raw_write task of the running session has a buffer, no frame is
\* placed in it and no second raw_write task is created for it.  A raw_write task
\* that a stop left behind resets the cur of its crop_bufs entry when it ends,
\* whoever uses it by then; it never shares it with another raw_write task, whose
\* buffer would then seem free.
PlacedInFreeBuffer ==
    /\ wpc = "copy" => /\ writers[crop] = "none"
                       /\ flush # None => writers[flush] = "none" /\ flush # crop
    /\ \A b \in orphans : writers[b] = "none" /\ flush # b

\* Each raw_lv_release has its raw_lv_request (raw.c asserts it), and LiveView
\* is not kept in raw mode by a recorder that holds no buffers.
LvPaired == lv = IF bufs /\ wpc # "free" THEN 1 ELSE 0

\* Once a stop command is queued the recording ends, unless the worker goes
\* astray with a NULL crop_buf first.
StopObeyed == (\E n \in DOMAIN q : type[q[n]] = "STOP") ~> rec = "INACTIVE" \/ wpc = "lost"

\* event_pusher.c, where vsync finds that a stop was requested: "Consumer will
\* re-enable recording when it is ready."
ReEnabled == (prevent /\ rec = "INACTIVE") ~> ~ prevent

\* worker.c: every event gets back to the pool ("or we will leak events and
\* starve the queue"): one in use is in somebody's hands.
NoLeakedEvent == \A e \in Events : type[e] # "EMPTY" => InHand(e) = 1
=============================================================================
