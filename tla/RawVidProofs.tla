---------------------------- MODULE RawVidProofs ----------------------------
(***************************************************************************)
(* Proofs about the raw video recorder, for any number of events and       *)
(* stop_com tasks, any number of tries and crop buffers of any size.       *)
(***************************************************************************)
EXTENDS RawVid, FiniteSetTheorems, TLAPS

Posted == {"START", "STOP", "IMAGE", "NOSRC"}

\* Where a producer is says whether it holds an event; its event is in
\* preparation and nobody else's.
HandInv ==
    /\ vpc = "post" <=> vev # None
    /\ kpc = "post" <=> kev # None
    /\ \A s \in Stops : spc[s] = "post" <=> sev[s] # None
    /\ vev # None => type[vev] = "PREPARING"
    /\ kev # None => type[kev] = "PREPARING"
    /\ \A s \in Stops : sev[s] # None => type[sev[s]] = "PREPARING"
    /\ vev # None => vev # kev /\ \A s \in Stops : sev[s] # vev
    /\ kev # None => \A s \in Stops : sev[s] # kev
    /\ \A s, t \in Stops : sev[s] = sev[t] /\ sev[s] # None => s = t

\* What is in the queue or at the worker was posted, and is there once.
QueueInv ==
    /\ wpc = "idle" <=> wev = None
    /\ wev # None => type[wev] \in Posted
    /\ \A n \in DOMAIN q : type[q[n]] \in Posted /\ q[n] # wev
    /\ \A m, n \in DOMAIN q : q[m] = q[n] => m = n

\* The type invariant, in two parts: tasks and events, buffers and the card.
EventTypes ==
    /\ type \in [Events -> Types] /\ q \in Seq(Events) /\ prevent \in BOOLEAN
    /\ count \in 0..2 /\ caps \subseteq Bufs /\ frame \in Bufs \cup {None}
    /\ vpc \in {"idle", "get", "post"} /\ kpc \in {"idle", "post"}
    /\ vev \in Events \cup {None} /\ kev \in Events \cup {None}
    /\ spc \in [Stops -> {"free", "begin", "get", "post"}]
    /\ sev \in [Stops -> Events \cup {None}] /\ tries \in [Stops -> 0..MaxTries]
    /\ wpc \in {"idle", "handle", "copy", "free", "lost"} /\ wev \in Events \cup {None}

BufTypes ==
    /\ rec \in {"INACTIVE", "ACTIVE"} /\ crop \in Bufs \cup {None}
    /\ flush \in Bufs \cup {None}
    /\ bufs \in BOOLEAN /\ fp \in BOOLEAN /\ lv \in Nat
    /\ cur \in [Bufs -> 0..BufFrames]
    /\ edmac_sem \in BOOLEAN /\ dma \in [Bufs -> Nat]
    /\ writers \in [Bufs -> {"none", "new", "writing"}] /\ orphans \subseteq Bufs

EventInv == EventTypes /\ QueueInv /\ HandInv

\* The two crop buffers: a session has them exactly while it holds its raw
\* LiveView request; a buffer is in the hands of the worker, of a copy or of a
\* raw_write task, and the last only while it counts as not empty.
BufInv ==
    /\ CopyExclusive /\ LvPaired
    /\ bufs <=> (rec = "ACTIVE" \/ crop # None)
    /\ wpc = "copy" => rec = "ACTIVE" /\ crop # None /\ type[wev] = "IMAGE"
    /\ wpc = "free" => rec = "ACTIVE" /\ type[wev] = "STOP"
    /\ wpc # "copy" => flush = None
    /\ flush # None => flush # crop /\ cur[flush] # 0 /\ writers[flush] = "none"
    /\ crop # None => writers[crop] = "none"
    /\ \A b \in Bufs : writers[b] # "none" => cur[b] # 0 /\ dma[b] = 0 /\ rec = "ACTIVE"

\* At most one frame is still to come after place n of the queue, or none at all.
OneLeft(n) ==
    /\ \A i, j \in DOMAIN q :
          i > n /\ j > n /\ type[q[i]] = "IMAGE" /\ type[q[j]] = "IMAGE" => i = j
    /\ \A i \in DOMAIN q : i > n /\ type[q[i]] = "IMAGE" => vpc = "idle"

NoneLeft == vpc = "idle" /\ \A i \in DOMAIN q : type[q[i]] # "IMAGE"

\* Once a stop was requested vsync captures no frame (prevent_recording is never
\* reset), so what is left behind a STOP command is at most the frame vsync was
\* working on.
SentInv ==
    /\ \A s \in Stops : spc[s] \in {"get", "post"} => prevent
    /\ \A n \in DOMAIN q : type[q[n]] = "STOP" => prevent /\ OneLeft(n)
    /\ wev # None /\ type[wev] = "STOP" => prevent /\ OneLeft(0)

\* A session after a stop therefore never fills a buffer and never starts a
\* raw_write task; without that, a raw_write task of the session before, when
\* it ends, would declare a buffer free that is being written.
OrphanInv ==
    orphans # {} =>
       /\ prevent /\ OneLeft(0)
       /\ flush = None /\ \A b \in Bufs : writers[b] = "none"
       /\ (\E b \in Bufs : cur[b] # 0) => NoneLeft
       /\ wev # None /\ type[wev] = "IMAGE" => NoneLeft
       /\ wpc = "handle" /\ type[wev] = "IMAGE" => \A b \in Bufs : cur[b] = 0

StopInv == SentInv /\ OrphanInv

\* The inductive invariant.
IInv == EventInv /\ BufTypes /\ BufInv /\ StopInv

-----------------------------------------------------------------------------
(* Facts about sequences and about the pool                                *)

\* Receiving removes the first event and moves up the others.
LEMMA TailFacts ==
  ASSUME NEW S, NEW s \in Seq(S), s # <<>>
  PROVE  /\ Head(s) = s[1] /\ Head(s) \in S /\ Tail(s) \in Seq(S)
         /\ 1 \in DOMAIN s
         /\ \A n \in DOMAIN Tail(s) : n + 1 \in DOMAIN s /\ Tail(s)[n] = s[n + 1]
  OBVIOUS

\* Posting adds one event at the end.
LEMMA AppendFacts ==
  ASSUME NEW S, NEW s \in Seq(S), NEW e \in S
  PROVE  /\ Append(s, e) \in Seq(S)
         /\ \A n \in DOMAIN s : n \in DOMAIN Append(s, e) /\ Append(s, e)[n] = s[n]
         /\ Append(s, e)[Len(s) + 1] = e
         /\ DOMAIN Append(s, e) = DOMAIN s \cup {Len(s) + 1}
         /\ Len(s) + 1 \notin DOMAIN s
         /\ \A n \in DOMAIN s : n < Len(s) + 1
  OBVIOUS

\* What posting an event does to the queue.
LEMMA QueueAppend ==
  ASSUME q \in Seq(Events), NEW e \in Events, q' = Append(q, e)
  PROVE  /\ DOMAIN q' = DOMAIN q \cup {Len(q) + 1} /\ q'[Len(q) + 1] = e
         /\ \A n \in DOMAIN q : q'[n] = q[n]
  BY AppendFacts, SMT

\* A queue that names no event twice, and not e, has room for e: this is why
\* the queue has as many places as there are events.
LEMMA RoomLeft ==
  ASSUME EventTypes, QueueInv, NEW e \in Events, type[e] = "PREPARING"
  PROVE  Room
<1>1. q \in Seq(Events) /\ Len(q) \in Nat /\ DOMAIN q = 1..Len(q)
  BY DEF EventTypes
<1>2. \A n \in DOMAIN q : q[n] \in Events \ {e}
  BY <1>1, SMT DEF QueueInv, Posted
<1>3. q \in [1..Len(q) -> Events \ {e}]
  BY <1>1, <1>2
<1>4. \A m, n \in 1..Len(q) : q[m] = q[n] => m = n
  BY <1>1, Zenon DEF QueueInv
<1>5. q \in Injection(1..Len(q), Events \ {e})
  BY <1>3, <1>4, Zenon DEF Injection, IsInjective
<1>6. /\ IsFiniteSet(Events \ {e})
      /\ Cardinality(Events \ {e}) = Cardinality(Events) - 1
      /\ Cardinality(Events) \in Nat
  BY RawVidAssumption, FS_RemoveElement, FS_CardinalityType
<1>7. Cardinality(1..Len(q)) <= Cardinality(Events \ {e})
  BY <1>5, <1>6, FS_Injection
<1>8. Cardinality(1..Len(q)) = Len(q)
  BY <1>1, FS_Interval
<1> QED
  BY <1>1, <1>6, <1>7, <1>8 DEF Room

\* The two parts are the type invariant.
LEMMA TypesSplit == TypeOK <=> EventTypes /\ BufTypes
  BY Zenon DEF TypeOK, EventTypes, BufTypes

\* get_empty_event finds an event that nobody has, and marks it.
LEMMA GetFacts ==
  ASSUME EventInv, NEW e \in Events, get_empty_event(e)
  PROVE  /\ type' \in [Events -> Types] /\ type'[e] = "PREPARING"
         /\ \A x \in Events : x # e => type'[x] = type[x]
         /\ e # None /\ e # vev /\ e # kev /\ e # wev
         /\ \A s \in Stops : sev[s] # e
         /\ \A n \in DOMAIN q : q[n] # e
<1>1. type[e] = "EMPTY" /\ type' = [type EXCEPT ![e] = "PREPARING"]
  BY Zenon DEF get_empty_event
<1>2. type \in [Events -> Types] /\ e # None
  BY RawVidAssumption, Zenon DEF EventInv, EventTypes
<1>3. /\ type' \in [Events -> Types] /\ type'[e] = "PREPARING"
      /\ \A x \in Events : x # e => type'[x] = type[x]
  BY <1>1, <1>2, SMT DEF Types
<1> QED
  BY <1>1, <1>2, <1>3, SMT DEF EventInv, HandInv, QueueInv, Posted

\* The queue and the worker do not notice.
LEMMA GetQueue ==
  ASSUME EventInv, NEW e \in Events, get_empty_event(e), UNCHANGED <<q, wpc, wev>>
  PROVE  QueueInv'
<1>1. \A n \in DOMAIN q : q[n] \in Events
  BY DEF EventInv, EventTypes
<1>2. wev \in Events \cup {None}
  BY Zenon DEF EventInv, EventTypes
<1>3. \A n \in DOMAIN q : type'[q[n]] = type[q[n]]
  BY <1>1, GetFacts, Zenon
<1>4. wev # None => type'[wev] = type[wev]
  BY <1>2, GetFacts, Zenon
<1> QED
  BY <1>3, <1>4, Zenon DEF EventInv, QueueInv

\* An event in preparation is neither in the queue nor at the worker.
LEMMA Preparing ==
  ASSUME EventInv, NEW e \in Events, type[e] = "PREPARING"
  PROVE  e # None /\ e # wev /\ \A n \in DOMAIN q : q[n] # e /\ q[n] \in Events
<1>1. q \in Seq(Events) /\ e # None
  BY RawVidAssumption, Zenon DEF EventInv, EventTypes
<1>2. \A n \in DOMAIN q : q[n] \in Events
  BY <1>1
<1> QED
  BY <1>1, <1>2, SMT DEF EventInv, QueueInv, Posted

\* Who has an event posts it at the end of the queue.
LEMMA PostFacts ==
  ASSUME EventInv, NEW e \in Events, type[e] = "PREPARING", NEW t \in Posted, post(e, t)
  PROVE  /\ Room /\ q' = Append(q, e) /\ q' \in Seq(Events)
         /\ type' \in [Events -> Types] /\ type'[e] = t
         /\ \A x \in Events : x # e => type'[x] = type[x]
         /\ e # None /\ e # wev
         /\ \A n \in DOMAIN q : q[n] # e /\ q[n] \in Events
<1>1. Room
  BY RoomLeft, Zenon DEF EventInv
<1>2. q' = Append(q, e) /\ type' = [type EXCEPT ![e] = t]
  BY <1>1, Zenon DEF post
<1>3. type \in [Events -> Types] /\ e # None /\ q \in Seq(Events)
  BY RawVidAssumption, Zenon DEF EventInv, EventTypes
<1>4. /\ type' \in [Events -> Types] /\ type'[e] = t
      /\ \A x \in Events : x # e => type'[x] = type[x]
  BY <1>2, <1>3, SMT DEF Types, Posted
<1>5. q' \in Seq(Events)
  BY <1>2, <1>3
<1> QED
  BY <1>1, <1>2, <1>3, <1>4, <1>5, Preparing, Zenon

\* It is there once.
LEMMA PostQueue ==
  ASSUME EventInv, NEW e \in Events, type[e] = "PREPARING", NEW t \in Posted, post(e, t),
         UNCHANGED <<wpc, wev>>
  PROVE  QueueInv'
<1> DEFINE z == Len(q) + 1
<1>1. /\ q' = Append(q, e) /\ type'[e] = t /\ e # wev
      /\ \A n \in DOMAIN q : q[n] # e /\ q[n] \in Events
      /\ \A x \in Events : x # e => type'[x] = type[x]
  BY PostFacts, Zenon
<1>2. /\ DOMAIN q' = DOMAIN q \cup {z} /\ q'[z] = e
      /\ \A n \in DOMAIN q : q'[n] = q[n]
  <2>1. q \in Seq(Events)
    BY Zenon DEF EventInv, EventTypes
  <2> QED
    BY <1>1, <2>1, AppendFacts, SMT
<1> HIDE DEF z
<1>3. wev \in Events \cup {None}
  BY Zenon DEF EventInv, EventTypes
<1>4. wev # None => type'[wev] = type[wev]
  BY <1>1, <1>3, Zenon
<1>5. \A n \in DOMAIN q' : type'[q'[n]] \in Posted /\ q'[n] # wev
  BY <1>1, <1>2, SMT DEF EventInv, QueueInv
<1>6. \A m, n \in DOMAIN q' : q'[m] = q'[n] => m = n
  BY <1>1, <1>2, SMT DEF EventInv, QueueInv
<1> QED
  BY <1>4, <1>5, <1>6, Zenon DEF EventInv, QueueInv

-----------------------------------------------------------------------------
(* The events, action by action                                            *)

USE DEF events, vsync, key, stop, worker, card

\* A step that touches no event and moves nobody to or from an event.
LEMMA Untouched ==
  ASSUME EventInv, EventTypes',
         UNCHANGED <<type, q, vev, kev, sev, wev>>,
         vpc' = "post" <=> vpc = "post", kpc' = kpc, wpc' = "idle" <=> wpc = "idle",
         \A s \in Stops : spc'[s] = "post" <=> spc[s] = "post"
  PROVE  EventInv'
<1>1. QueueInv'
  BY Zenon DEF EventInv, QueueInv
<1>2. HandInv'
  BY Zenon DEF EventInv, HandInv
<1> QED
  BY <1>1, <1>2, Zenon DEF EventInv

\* A stop_com task is created before it has an event.
LEMMA Spawned ==
  ASSUME EventTypes, SpawnStop
  PROVE  /\ spc' \in [Stops -> {"free", "begin", "get", "post"}]
         /\ \A s \in Stops : spc'[s] \in {"get", "post"} <=> spc[s] \in {"get", "post"}
         /\ \A s \in Stops : spc'[s] = "post" <=> spc[s] = "post"
         /\ UNCHANGED <<sev, tries>>
<1>1. PICK s \in Stops : /\ spc[s] = "free" /\ spc' = [spc EXCEPT ![s] = "begin"]
                         /\ UNCHANGED <<sev, tries>>
  BY Zenon DEF SpawnStop
<1> QED
  BY <1>1, SMT DEF EventTypes

\* The vsync callback.
LEMMA VsyncGetEvents == EventInv /\ VsyncGet => EventInv'
<1> SUFFICES ASSUME EventInv, VsyncGet PROVE EventInv'
  OBVIOUS
<1>1. PICK e \in Events : get_empty_event(e) /\ vev' = e
  BY Zenon DEF VsyncGet
<1>2. EventTypes'
  BY <1>1, GetFacts, SMT DEF VsyncGet, EventInv, EventTypes
<1>3. HandInv'
  BY <1>1, GetFacts, SMT DEF VsyncGet, EventInv, HandInv, EventTypes
<1>4. QueueInv'
  BY <1>1, GetQueue, Zenon DEF VsyncGet
<1> QED
  BY <1>2, <1>3, <1>4, Zenon DEF EventInv

\* It posts the event of the second and later vsyncs ...
LEMMA VsyncPostEvents == EventInv /\ VsyncPost /\ count > 1 => EventInv'
<1> SUFFICES ASSUME EventInv, VsyncPost, count > 1 PROVE EventInv'
  OBVIOUS
<1>1. /\ post(vev, ImageType) /\ vev \in Events /\ type[vev] = "PREPARING"
      /\ ImageType \in Posted
  BY SMT DEF VsyncPost, EventInv, HandInv, EventTypes, ImageType, Posted
<1>2. UNCHANGED stop
  BY <1>1, PostFacts, Zenon DEF VsyncPost
<1>3. EventTypes'
  BY <1>1, <1>2, PostFacts, SMT DEF VsyncPost, EventInv, EventTypes, OtherFrame, capture_frames
<1>4. HandInv'
  BY <1>1, <1>2, PostFacts, SMT DEF VsyncPost, EventInv, HandInv, EventTypes
<1>5. QueueInv'
  BY <1>1, PostQueue, Zenon DEF VsyncPost
<1> QED
  BY <1>3, <1>4, <1>5, Zenon DEF EventInv

\* ... and forgets that of the first, which then is nobody's.
LEMMA VsyncSkipEvents == EventInv /\ VsyncPost /\ ~ (count > 1) => EventInv'
<1> SUFFICES ASSUME EventInv, VsyncPost, ~ (count > 1) PROVE EventInv'
  OBVIOUS
<1>1. /\ type' = [type EXCEPT ![vev] = ImageType] /\ vev \in Events /\ type[vev] = "PREPARING"
      /\ ImageType \in Types /\ UNCHANGED <<q, stop>>
  BY SMT DEF VsyncPost, EventInv, HandInv, EventTypes, ImageType, Types
<1>2. type' \in [Events -> Types] /\ \A x \in Events : x # vev => type'[x] = type[x]
  BY <1>1, SMT DEF EventInv, EventTypes
<1>3. EventTypes'
  BY <1>1, <1>2, SMT DEF VsyncPost, EventInv, EventTypes, OtherFrame, capture_frames
<1>4. HandInv'
  BY <1>1, <1>2, SMT DEF VsyncPost, EventInv, HandInv, EventTypes
<1>5. vev # wev /\ \A n \in DOMAIN q : q[n] # vev /\ q[n] \in Events
  BY <1>1, Preparing, Zenon
<1>6. wev # None => type'[wev] = type[wev]
  BY <1>2, <1>5, Zenon DEF EventInv, EventTypes
<1>7. \A n \in DOMAIN q : type'[q[n]] = type[q[n]]
  BY <1>2, <1>5, Zenon
<1>8. QueueInv'
  BY <1>1, <1>6, <1>7, Zenon DEF VsyncPost, EventInv, QueueInv
<1> QED
  BY <1>3, <1>4, <1>8, Zenon DEF EventInv

\* Every step of the vsync callback keeps the events in order.
LEMMA VsyncEvents == EventInv /\ Vsync => EventInv'
<1> SUFFICES ASSUME EventInv, Vsync PROVE EventInv'
  OBVIOUS
<1>1. CASE VsyncReset
  <2>1. EventTypes'
    BY <1>1, SMT DEF VsyncReset, EventInv, EventTypes
  <2> QED
    BY <1>1, <2>1, Untouched, Zenon DEF VsyncReset
<1>2. CASE VsyncFirst
  <2>1. SpawnStop \/ UNCHANGED stop
    BY <1>2, Zenon DEF VsyncFirst
  <2>2. EventTypes' /\ \A s \in Stops : spc'[s] = "post" <=> spc[s] = "post"
    BY <1>2, <2>1, Spawned, SMT DEF VsyncFirst, EventInv, EventTypes, Bufs
  <2>3. UNCHANGED sev /\ (vpc' = "post" <=> vpc = "post")
    BY <1>2, <2>1, Spawned, SMT DEF VsyncFirst, EventInv
  <2> QED
    BY <1>2, <2>2, <2>3, Untouched, Zenon DEF VsyncFirst
<1>3. CASE VsyncNext
  <2>1. EventTypes' /\ (vpc' = "post" <=> vpc = "post")
    BY <1>3, SMT DEF VsyncNext, EventInv, EventTypes
  <2> QED
    BY <1>3, <2>1, Untouched, Zenon DEF VsyncNext
<1>4. CASE VsyncGet
  BY <1>4, VsyncGetEvents, Zenon
<1>5. CASE VsyncNoEvent
  <2>1. EventTypes' /\ \A s \in Stops : spc'[s] = "post" <=> spc[s] = "post"
    BY <1>5, Spawned, SMT DEF VsyncNoEvent, EventInv, EventTypes
  <2>2. UNCHANGED sev /\ (vpc' = "post" <=> vpc = "post")
    BY <1>5, Spawned, SMT DEF VsyncNoEvent, EventInv
  <2> QED
    BY <1>5, <2>1, <2>2, Untouched, Zenon DEF VsyncNoEvent
<1>6. CASE VsyncPost
  BY <1>6, VsyncPostEvents, VsyncSkipEvents, Zenon
<1> QED
  BY <1>1, <1>2, <1>3, <1>4, <1>5, <1>6, Zenon DEF Vsync

\* The REC key.
LEMMA KeyEvents == EventInv /\ (KeyStop \/ KeyStart \/ KeyPost) => EventInv'
<1> SUFFICES ASSUME EventInv, KeyStop \/ KeyStart \/ KeyPost PROVE EventInv'
  OBVIOUS
<1>1. CASE KeyStop
  <2>1. EventTypes' /\ (\A s \in Stops : spc'[s] = "post" <=> spc[s] = "post") /\ UNCHANGED sev
    BY <1>1, Spawned, SMT DEF KeyStop, EventInv, EventTypes
  <2> QED
    BY <1>1, <2>1, Untouched, Zenon DEF KeyStop
<1>2. CASE KeyStart /\ NoEmptyEvent
  <2>1. UNCHANGED <<events, key, prevent, vsync, stop, worker>>
    BY <1>2, Zenon DEF KeyStart
  <2>2. EventTypes'
    BY <2>1, Zenon DEF EventInv, EventTypes
  <2> QED
    BY <2>1, <2>2, Untouched, Zenon
<1>3. CASE KeyStart /\ ~ NoEmptyEvent
  <2>1. PICK e \in Events : get_empty_event(e) /\ kev' = e
    BY <1>3, Zenon DEF KeyStart
  <2>2. kpc' = "post" /\ kpc = "idle" /\ UNCHANGED <<q, prevent, vsync, stop, worker>>
    BY <1>3, Zenon DEF KeyStart
  <2>3. EventTypes'
    BY <2>1, <2>2, GetFacts, SMT DEF EventInv, EventTypes
  <2>4. HandInv'
    BY <2>1, <2>2, GetFacts, SMT DEF EventInv, HandInv, EventTypes
  <2>5. QueueInv'
    BY <2>1, <2>2, GetQueue, Zenon
  <2> QED
    BY <2>3, <2>4, <2>5, Zenon DEF EventInv
<1>4. CASE KeyPost
  <2>1. /\ post(kev, "START") /\ kev \in Events /\ type[kev] = "PREPARING" /\ "START" \in Posted
        /\ UNCHANGED <<prevent, vsync, stop, worker>>
    BY <1>4, SMT DEF KeyPost, EventInv, HandInv, EventTypes, Posted
  <2>2. EventTypes'
    BY <1>4, <2>1, PostFacts, SMT DEF KeyPost, EventInv, EventTypes
  <2>3. HandInv'
    BY <1>4, <2>1, PostFacts, SMT DEF KeyPost, EventInv, HandInv, EventTypes
  <2>4. QueueInv'
    BY <2>1, PostQueue, Zenon
  <2> QED
    BY <2>2, <2>3, <2>4, Zenon DEF EventInv
<1> QED
  BY <1>1, <1>2, <1>3, <1>4, Zenon

\* The stop_com tasks.
LEMMA StopEvents ==
  ASSUME EventInv, NEW s \in Stops, StopTask(s)
  PROVE  EventInv'
<1>1. CASE StopBegin(s)
  <2>1. EventTypes' /\ \A t \in Stops : spc'[t] = "post" <=> spc[t] = "post"
    BY <1>1, SMT DEF StopBegin, EventInv, EventTypes
  <2> QED
    BY <1>1, <2>1, Untouched, Zenon DEF StopBegin
<1>2. CASE StopGet(s)
  <2>1. PICK e \in Events :
           /\ get_empty_event(e)
           /\ IF tries[s] < MaxTries
              THEN spc' = [spc EXCEPT ![s] = "post"] /\ sev' = [sev EXCEPT ![s] = e]
              ELSE spc' = [spc EXCEPT ![s] = "free"] /\ UNCHANGED sev
    BY <1>2, Zenon DEF StopGet
  <2>2. /\ spc[s] = "get" /\ tries' = [tries EXCEPT ![s] = 0]
        /\ UNCHANGED <<q, prevent, vsync, key, worker>>
    BY <1>2, Zenon DEF StopGet
  <2>3. tries' \in [Stops -> 0..MaxTries]
    BY <2>2, RawVidAssumption, SMT DEF EventInv, EventTypes
  <2>4. QueueInv'
    BY <2>1, <2>2, GetQueue, Zenon
  <2>facts. /\ type' \in [Events -> Types] /\ type'[e] = "PREPARING" /\ e # None
            /\ \A x \in Events : x # e => type'[x] = type[x]
            /\ e # vev /\ e # kev /\ e # wev /\ \A t \in Stops : sev[t] # e
    BY <2>1, GetFacts, Zenon
  <2>old. EventTypes /\ HandInv
    BY Zenon DEF EventInv
  <2>5. CASE tries[s] < MaxTries
    <3>1. spc' = [spc EXCEPT ![s] = "post"] /\ sev' = [sev EXCEPT ![s] = e]
      BY <2>1, <2>5, Zenon
    <3>2. EventTypes'
      <4>1. /\ spc' \in [Stops -> {"free", "begin", "get", "post"}]
            /\ sev' \in [Stops -> Events \cup {None}]
        BY <2>old, <3>1, Zenon DEF EventTypes
      <4> QED
        BY <2>2, <2>3, <2>facts, <2>old, <4>1, Zenon DEF EventTypes, vsync, key, worker
    <3>3. HandInv'
      BY <2>2, <2>facts, <2>old, <3>1, SMT DEF HandInv, EventTypes, vsync, key, worker
    <3> QED
      BY <2>4, <3>2, <3>3, Zenon DEF EventInv
  <2>6. CASE ~ (tries[s] < MaxTries)
    <3>1. spc' = [spc EXCEPT ![s] = "free"] /\ UNCHANGED sev
      BY <2>1, <2>6, Zenon
    <3>2. EventTypes'
      <4>1. /\ spc' \in [Stops -> {"free", "begin", "get", "post"}]
            /\ sev' \in [Stops -> Events \cup {None}]
        BY <2>old, <3>1, Zenon DEF EventTypes
      <4> QED
        BY <2>2, <2>3, <2>facts, <2>old, <4>1, Zenon DEF EventTypes, vsync, key, worker
    <3>3. HandInv'
      BY <2>2, <2>facts, <2>old, <3>1, SMT DEF HandInv, EventTypes, vsync, key, worker
    <3> QED
      BY <2>4, <3>2, <3>3, Zenon DEF EventInv
  <2> QED
    BY <2>5, <2>6, Zenon
<1>3. CASE StopRetry(s)
  <2>1. tries' \in [Stops -> 0..MaxTries]
    <3>1. /\ tries \in [Stops -> 0..MaxTries]
          /\ \/ tries[s] < MaxTries /\ tries' = [tries EXCEPT ![s] = @ + 1]
             \/ tries' = [tries EXCEPT ![s] = 0]
      BY <1>3, Zenon DEF StopRetry, EventInv, EventTypes
    <3> QED
      BY <3>1, RawVidAssumption, SMT
  <2>2. spc' = spc \/ spc' = [spc EXCEPT ![s] = "free"]
    BY <1>3, Zenon DEF StopRetry
  <2>3. /\ spc[s] = "get"
        /\ UNCHANGED <<events, prevent, vsync, key, sev, worker>>
    BY <1>3, Zenon DEF StopRetry
  <2>4. /\ spc' \in [Stops -> {"free", "begin", "get", "post"}]
        /\ \A t \in Stops : spc'[t] = "post" <=> spc[t] = "post"
    <3>1. spc \in [Stops -> {"free", "begin", "get", "post"}] /\ spc[s] = "get"
      BY <2>3, Zenon DEF EventInv, EventTypes
    <3>2. CASE spc' = spc
      BY <3>1, <3>2, Zenon
    <3>3. CASE spc' = [spc EXCEPT ![s] = "free"]
      BY <3>1, <3>3, SMT
    <3> QED
      BY <2>2, <3>2, <3>3, Zenon
  <2>5. EventTypes'
    BY <2>1, <2>3, <2>4, Zenon DEF EventInv, EventTypes
  <2> QED
    BY <2>3, <2>4, <2>5, Untouched, Zenon
<1>4. CASE StopPost(s)
  <2>1. /\ post(sev[s], "STOP") /\ sev[s] \in Events /\ type[sev[s]] = "PREPARING"
        /\ "STOP" \in Posted /\ UNCHANGED <<prevent, vsync, key, worker>>
    BY <1>4, SMT DEF StopPost, EventInv, HandInv, EventTypes, Posted
  <2>2. /\ spc' = [spc EXCEPT ![s] = "free"] /\ sev' = [sev EXCEPT ![s] = None]
        /\ tries' = [tries EXCEPT ![s] = 0]
    BY <1>4, <2>1, PostFacts, Zenon DEF StopPost
  <2>3. EventTypes'
    BY <2>1, <2>2, PostFacts, RawVidAssumption, SMT DEF EventInv, EventTypes
  <2>4. HandInv'
    BY <2>1, <2>2, PostFacts, SMT DEF EventInv, HandInv, EventTypes
  <2>5. QueueInv'
    BY <2>1, PostQueue, Zenon
  <2> QED
    BY <2>3, <2>4, <2>5, Zenon DEF EventInv
<1> QED
  BY <1>1, <1>2, <1>3, <1>4, Zenon DEF StopTask

\* The worker takes the first event from the queue.
LEMMA ReceiveEvents == EventInv /\ Receive => EventInv'
<1> SUFFICES ASSUME EventInv, Receive PROVE EventInv'
  OBVIOUS
<1>1. /\ q \in Seq(Events) /\ q # <<>> /\ wev' = Head(q) /\ q' = Tail(q)
      /\ wpc' = "handle" /\ UNCHANGED <<type, prevent, vsync, key, stop>>
  BY Zenon DEF Receive, EventInv, EventTypes
<1>2. /\ wev' = q[1] /\ wev' \in Events /\ q' \in Seq(Events) /\ 1 \in DOMAIN q
      /\ \A n \in DOMAIN q' : n + 1 \in DOMAIN q /\ q'[n] = q[n + 1]
      /\ \A n \in DOMAIN q' : n \in Nat /\ n # 0
  BY <1>1, TailFacts, SMT
<1>3. EventTypes'
  BY <1>1, <1>2, Zenon DEF EventInv, EventTypes
<1>4. HandInv'
  BY <1>1, Zenon DEF EventInv, HandInv
<1>5. wev' # None /\ type'[wev'] \in Posted
  BY <1>1, <1>2, RawVidAssumption, Zenon DEF EventInv, QueueInv
<1>6. \A n \in DOMAIN q' : type'[q'[n]] \in Posted /\ q'[n] # wev'
  BY <1>1, <1>2, SMT DEF EventInv, QueueInv
<1>7. \A m, n \in DOMAIN q' : q'[m] = q'[n] => m = n
  BY <1>2, SMT DEF EventInv, QueueInv
<1>8. QueueInv'
  BY <1>1, <1>5, <1>6, <1>7, Zenon DEF QueueInv
<1> QED
  BY <1>3, <1>4, <1>8, Zenon DEF EventInv

\* It releases the event when it is done with it.
LEMMA ReleaseEvents == EventInv /\ wpc # "idle" /\ EndEvent => EventInv'
<1> SUFFICES ASSUME EventInv, wpc # "idle", EndEvent PROVE EventInv'
  OBVIOUS
<1>1. /\ wev \in Events /\ type[wev] \in Posted /\ type \in [Events -> Types]
      /\ type' = [type EXCEPT ![wev] = "EMPTY"]
      /\ wpc' = "idle" /\ wev' = None /\ UNCHANGED <<q, prevent, vsync, key, stop>>
  BY Zenon DEF EndEvent, release_event, EventInv, EventTypes, QueueInv
<1>2. type' \in [Events -> Types] /\ \A x \in Events : x # wev => type'[x] = type[x]
  BY <1>1, SMT DEF Types
<1>3. EventTypes'
  BY <1>1, <1>2, Zenon DEF EventInv, EventTypes
<1>4. /\ vev # wev /\ kev # wev /\ \A s \in Stops : sev[s] # wev
      /\ \A n \in DOMAIN q : q[n] # wev /\ q[n] \in Events
  <2>1. wev # None /\ type[wev] # "PREPARING"
    BY <1>1, RawVidAssumption, SMT DEF Posted
  <2>2. \A n \in DOMAIN q : q[n] \in Events
    BY DEF EventInv, EventTypes
  <2> QED
    BY <2>1, <2>2, Zenon DEF EventInv, HandInv, QueueInv
<1>5. HandInv'
  <2>1. /\ vev # None => type'[vev] = type[vev]
        /\ kev # None => type'[kev] = type[kev]
        /\ \A s \in Stops : sev[s] # None => type'[sev[s]] = type[sev[s]]
    BY <1>2, <1>4, SMT DEF EventInv, EventTypes
  <2> QED
    BY <1>1, <2>1, Zenon DEF EventInv, HandInv
<1>6. QueueInv'
  <2>1. \A n \in DOMAIN q : type'[q[n]] = type[q[n]] /\ q[n] # None
    BY <1>2, <1>4, RawVidAssumption, Zenon
  <2> QED
    BY <1>1, <2>1, Zenon DEF EventInv, QueueInv
<1> QED
  BY <1>3, <1>5, <1>6, Zenon DEF EventInv

\* The steps of the worker that end so.
LEMMA EndsEvent ==
  ASSUME \/ ImageRejected \/ ImageStuck \/ ImageDropped \/ ImageCopied \/ StartRefused
         \/ (\E named, f \in BOOLEAN : StartRecording(named, f)) \/ StopIgnored \/ StopFree
  PROVE  EndEvent /\ wpc # "idle"
  BY SMT DEF ImageRejected, ImageStuck, ImageDropped, ImageCopied, StartRefused,
             StartRecording, StopIgnored, StopFree, Handling

\* What the worker does: the other steps keep the event in its hands.
LEMMA WorkerEvents == EventInv /\ Worker => EventInv'
<1> SUFFICES ASSUME EventInv, Worker PROVE EventInv'
  OBVIOUS
<1>1. CASE Receive
  BY <1>1, ReceiveEvents, Zenon
<1>2. CASE ImageLost \/ ImagePlace \/ StopClose
  <2>1. /\ UNCHANGED <<type, q, vsync, key, stop, wev, prevent>>
        /\ wpc = "handle" /\ wpc' \in {"copy", "free", "lost"}
    BY <1>2, SMT DEF ImageLost, ImagePlace, StopClose, Handling
  <2>2. EventTypes'
    BY <2>1, SMT DEF EventInv, EventTypes
  <2>3. wpc' = "idle" <=> wpc = "idle"
    BY <2>1, SMT
  <2> QED
    BY <2>1, <2>2, <2>3, Untouched, Zenon
<1>3. CASE \/ ImageRejected \/ ImageStuck \/ ImageDropped \/ ImageCopied \/ StartRefused
           \/ (\E named, f \in BOOLEAN : StartRecording(named, f)) \/ StopIgnored \/ StopFree
  BY <1>3, EndsEvent, ReleaseEvents, Zenon
<1> QED
  BY <1>1, <1>2, <1>3, Zenon DEF Worker

\* Copies and writes to the card do not touch events.
LEMMA CardEvents ==
  EventInv /\ (\E b \in Bufs : CopyDone(b) \/ WriteBegin(b) \/ WriteEnd(b)) => EventInv'
<1> SUFFICES ASSUME EventInv, UNCHANGED <<events, prevent, vsync, key, stop, worker>>
             PROVE  EventInv'
  BY Zenon DEF CopyDone, WriteBegin, WriteEnd
<1>1. EventTypes'
  BY Zenon DEF EventInv, EventTypes
<1> QED
  BY <1>1, Untouched, Zenon

\* The initial state, and every step.
LEMMA EventInit == Init => EventInv
<1> SUFFICES ASSUME Init PROVE EventInv
  OBVIOUS
<1>1. EventTypes
  <2>1. type \in [Events -> Types] /\ q \in Seq(Events) /\ caps \subseteq Bufs
    BY SMT DEF Init, Types
  <2>2. tries \in [Stops -> 0..MaxTries] /\ count \in 0..2
    BY RawVidAssumption, SMT DEF Init
  <2> QED
    BY <2>1, <2>2, Zenon DEF Init, EventTypes
<1>2. DOMAIN q = {}
  BY DEF Init
<1>3. QueueInv
  BY <1>2, Zenon DEF Init, QueueInv
<1>4. HandInv
  BY SMT DEF Init, HandInv
<1> QED
  BY <1>1, <1>3, <1>4, Zenon DEF EventInv

\* Every step of every task keeps the events in order.
LEMMA EventStep == EventInv /\ [Next]_vars => EventInv'
<1>1. EventInv /\ UNCHANGED vars => EventInv'
  <2> SUFFICES ASSUME EventInv, UNCHANGED vars PROVE EventInv'
    OBVIOUS
  <2>1. EventTypes'
    BY Zenon DEF EventInv, EventTypes, vars
  <2> QED
    BY <2>1, Untouched, Zenon DEF vars
<1> QED
  BY <1>1, KeyEvents, VsyncEvents, StopEvents, WorkerEvents, CardEvents, Zenon DEF Next

\* Every step leaves alone what is in the queue, and what the worker goes on
\* to hold.
LEMMA FrozenStep ==
  ASSUME EventInv, Next
  PROVE  /\ \A n \in DOMAIN q : type'[q[n]] = type[q[n]]
         /\ wev # None /\ wev' = wev => type'[wev] = type[wev]
<1>1. \A n \in DOMAIN q : q[n] \in Events
  BY DEF EventInv, EventTypes
<1>2. wev \in Events \cup {None}
  BY Zenon DEF EventInv, EventTypes
<1>3. CASE type' = type
  BY <1>3, Zenon
<1>4. CASE \E e \in Events : get_empty_event(e)
  BY <1>1, <1>2, <1>4, GetFacts, Zenon
<1>5. CASE \E e \in Events, t \in Posted : type[e] = "PREPARING" /\ post(e, t)
  BY <1>1, <1>2, <1>5, PostFacts, Zenon
<1>6. CASE VsyncPost /\ ~ (count > 1)
  <2>1. /\ type' = [type EXCEPT ![vev] = ImageType]
        /\ vev \in Events /\ type[vev] = "PREPARING" /\ type \in [Events -> Types]
    BY <1>6, SMT DEF VsyncPost, EventInv, HandInv, EventTypes
  <2>2. \A x \in Events : x # vev => type'[x] = type[x]
    BY <2>1, SMT
  <2> QED
    BY <1>1, <1>2, <2>1, <2>2, Preparing, Zenon
<1>7. CASE EndEvent /\ wpc # "idle"
  <2>1. /\ type' = [type EXCEPT ![wev] = "EMPTY"] /\ type \in [Events -> Types]
        /\ wev' = None /\ wev # None /\ wev \in Events
    BY <1>7, Zenon DEF EndEvent, release_event, EventInv, EventTypes, QueueInv
  <2>2. \A x \in Events : x # wev => type'[x] = type[x]
    BY <2>1, SMT
  <2>3. \A n \in DOMAIN q : q[n] # wev
    BY Zenon DEF EventInv, QueueInv
  <2> QED
    BY <1>1, <2>1, <2>2, <2>3, Zenon
<1>8. CASE KeyStop \/ KeyStart \/ KeyPost
  <2>1. CASE KeyStop
    BY <1>3, <2>1, Zenon DEF KeyStop
  <2>2. CASE KeyStart
    BY <1>3, <1>4, <2>2, Zenon DEF KeyStart
  <2>3. CASE KeyPost
    <3>1. kev \in Events /\ type[kev] = "PREPARING" /\ "START" \in Posted
      BY <2>3, SMT DEF KeyPost, EventInv, EventTypes, HandInv, Posted
    <3> QED
      BY <1>5, <2>3, <3>1, Zenon DEF KeyPost
  <2> QED
    BY <1>8, <2>1, <2>2, <2>3, Zenon
<1>9. CASE Vsync
  <2>1. CASE VsyncPost /\ count > 1
    <3>1. vev \in Events /\ type[vev] = "PREPARING" /\ ImageType \in Posted
      BY <2>1, SMT DEF VsyncPost, EventInv, EventTypes, HandInv, ImageType, Posted
    <3> QED
      BY <1>5, <2>1, <3>1, Zenon DEF VsyncPost
  <2>2. CASE VsyncReset \/ VsyncFirst \/ VsyncNext \/ VsyncNoEvent
    BY <1>3, <2>2, Zenon DEF VsyncReset, VsyncFirst, VsyncNext, VsyncNoEvent
  <2>3. CASE VsyncGet
    BY <1>4, <2>3, Zenon DEF VsyncGet
  <2> QED
    BY <1>6, <1>9, <2>1, <2>2, <2>3, Zenon DEF Vsync
<1>10. CASE \E s \in Stops : StopTask(s)
  <2>1. PICK s \in Stops : StopTask(s)
    BY <1>10, Zenon
  <2>2. CASE StopBegin(s) \/ StopRetry(s)
    BY <1>3, <2>2, Zenon DEF StopBegin, StopRetry
  <2>3. CASE StopGet(s)
    BY <1>4, <2>3, Zenon DEF StopGet
  <2>4. CASE StopPost(s)
    <3>1. sev[s] \in Events /\ type[sev[s]] = "PREPARING" /\ "STOP" \in Posted
      BY <2>4, SMT DEF StopPost, EventInv, EventTypes, HandInv, Posted
    <3> QED
      BY <1>5, <2>4, <3>1, Zenon DEF StopPost
  <2> QED
    BY <2>1, <2>2, <2>3, <2>4, Zenon DEF StopTask
<1>11. CASE Worker
  <2>1. CASE Receive \/ ImageLost \/ ImagePlace \/ StopClose
    BY <1>3, <2>1, Zenon DEF Receive, ImageLost, ImagePlace, StopClose
  <2>2. CASE \/ ImageRejected \/ ImageStuck \/ ImageDropped \/ ImageCopied \/ StartRefused
             \/ (\E named, f \in BOOLEAN : StartRecording(named, f)) \/ StopIgnored \/ StopFree
    BY <1>7, <2>2, EndsEvent, Zenon
  <2> QED
    BY <1>11, <2>1, <2>2, Zenon DEF Worker
<1>12. CASE \E b \in Bufs : CopyDone(b) \/ WriteBegin(b) \/ WriteEnd(b)
  BY <1>3, <1>12, Zenon DEF CopyDone, WriteBegin, WriteEnd
<1> QED
  BY <1>8, <1>9, <1>10, <1>11, <1>12, Zenon DEF Next

-----------------------------------------------------------------------------
(* The crop buffers                                                        *)

\* The producers leave the worker and the card alone.
LEMMA ProducerFrame ==
  ASSUME KeyStop \/ KeyStart \/ KeyPost \/ Vsync \/ \E s \in Stops : StopTask(s)
  PROVE  UNCHANGED <<worker, card>>
  BY Zenon DEF KeyStop, KeyStart, KeyPost, Vsync, VsyncReset, VsyncFirst, VsyncNext, VsyncGet,
               VsyncNoEvent, VsyncPost, StopTask, StopBegin, StopGet, StopRetry, StopPost

\* Then the buffers stay as they are.
LEMMA BufFrame ==
  ASSUME EventInv, BufTypes, BufInv, UNCHANGED <<worker, card>>,
         wev # None => type'[wev] = type[wev]
  PROVE  BufTypes' /\ BufInv'
<1>1. BufTypes'
  BY Zenon DEF BufTypes
<1>2. wpc \in {"copy", "free"} => wev # None
  BY Zenon DEF EventInv, QueueInv
<1>3. CopyExclusive' /\ LvPaired'
  BY Zenon DEF BufInv, CopyExclusive, LvPaired
<1> QED
  BY <1>1, <1>2, <1>3, Zenon DEF BufInv

\* The worker chooses the place of a frame: after a swap the other buffer is
\* empty, so no raw_write task has it.
LEMMA ImagePlaceBuf == EventInv /\ BufTypes /\ BufInv /\ ImagePlace => BufTypes' /\ BufInv'
<1> SUFFICES ASSUME EventInv, BufTypes, BufInv, ImagePlace PROVE BufTypes' /\ BufInv'
  OBVIOUS
<1>1. /\ OtherBuf \in Bufs /\ OtherBuf # crop /\ OtherBuf # None
      /\ crop # None => crop \in Bufs /\ \A b \in Bufs : b = crop \/ b = OtherBuf
  BY RawVidAssumption, SMT DEF BufTypes, Bufs, OtherBuf
<1>2. /\ wpc = "handle" /\ wpc' = "copy" /\ type[wev] = "IMAGE" /\ rec = "ACTIVE" /\ flush = None
      /\ UNCHANGED <<type, rec, wev, bufs, fp, lv, edmac_sem, dma, writers, orphans>>
  BY SMT DEF ImagePlace, Handling, BufInv
<1>3. cur \in [Bufs -> 0..BufFrames] /\ BufFrames \in Nat /\ BufFrames # 0
  BY RawVidAssumption, SMT DEF BufTypes
<1>4. CopyExclusive' /\ LvPaired'
  BY <1>2, SMT DEF BufInv, CopyExclusive, LvPaired
<1>5. CASE crop # None /\ Full
  <2>1. /\ crop' = OtherBuf /\ flush' = crop /\ cur' = [cur EXCEPT ![OtherBuf] = @ + 1]
        /\ cur[OtherBuf] = 0 /\ cur[crop] = BufFrames
    BY <1>5, Zenon DEF ImagePlace, NoRoom, Full
  <2>2. /\ cur' \in [Bufs -> 0..BufFrames] /\ cur'[crop] = BufFrames /\ cur'[OtherBuf] = 1
    BY <1>1, <1>3, <1>5, <2>1, SMT
  <2>3. BufTypes'
    BY <1>1, <1>2, <1>5, <2>1, <2>2, Zenon DEF BufTypes
  <2>4. writers[OtherBuf] = "none" /\ writers[crop] = "none"
    BY <1>1, <1>5, <2>1, Zenon DEF BufInv
  <2>5. \A b \in Bufs : writers'[b] # "none" => cur'[b] # 0 /\ dma'[b] = 0 /\ rec' = "ACTIVE"
    BY <1>1, <1>2, <1>5, <2>4, Zenon
  <2>6. cur'[flush'] # 0
    BY <1>3, <2>1, <2>2, Zenon
  <2> QED
    BY <1>1, <1>2, <1>4, <2>1, <2>3, <2>4, <2>5, <2>6, SMT DEF BufInv
<1>6. CASE crop # None /\ ~ Full
  <2>1. crop' = crop /\ flush' = None /\ cur' = [cur EXCEPT ![crop] = @ + 1]
        /\ cur[crop] # BufFrames
    BY <1>6, Zenon DEF ImagePlace, NoRoom, Full
  <2>2. /\ cur' \in [Bufs -> 0..BufFrames] /\ cur'[crop] # 0 /\ cur'[OtherBuf] = cur[OtherBuf]
    BY <1>1, <1>3, <1>6, <2>1, SMT
  <2>3. BufTypes'
    BY <1>1, <1>2, <1>6, <2>1, <2>2, Zenon DEF BufTypes
  <2>4. \A b \in Bufs : writers'[b] # "none" => cur'[b] # 0 /\ dma'[b] = 0 /\ rec' = "ACTIVE"
    BY <1>1, <1>2, <1>6, <2>2, Zenon DEF BufInv
  <2>5. writers[crop] = "none" /\ bufs
    BY <1>1, <1>2, <1>6, Zenon DEF BufInv
  <2> QED
    BY <1>1, <1>2, <1>4, <1>6, <2>1, <2>3, <2>4, <2>5, SMT DEF BufInv
<1>7. CASE crop = None
  <2>1. /\ crop' = OtherBuf /\ flush' = None /\ cur' = [cur EXCEPT ![OtherBuf] = @ + 1]
        /\ cur[OtherBuf] = 0
    BY <1>7, Zenon DEF ImagePlace, NoRoom
  <2>2. /\ cur' \in [Bufs -> 0..BufFrames]
        /\ \A b \in Bufs : b # OtherBuf => cur'[b] = cur[b]
    BY <1>1, <1>3, <2>1, SMT
  <2>3. BufTypes'
    BY <1>1, <1>2, <2>1, <2>2, Zenon DEF BufTypes
  <2>4. writers[OtherBuf] = "none" /\ bufs
    BY <1>1, <1>2, <2>1, Zenon DEF BufInv
  <2>5. \A b \in Bufs : writers'[b] # "none" => cur'[b] # 0 /\ dma'[b] = 0 /\ rec' = "ACTIVE"
    BY <1>2, <2>2, <2>4, Zenon DEF BufInv
  <2> QED
    BY <1>1, <1>2, <1>4, <2>1, <2>3, <2>4, <2>5, SMT DEF BufInv
<1> QED
  BY <1>5, <1>6, <1>7, Zenon

\* It hands the full buffer to a raw_write task and starts the copy into the
\* other one.
LEMMA ImageCopiedBuf == EventInv /\ BufTypes /\ BufInv /\ ImageCopied => BufTypes' /\ BufInv'
<1> SUFFICES ASSUME EventInv, BufTypes, BufInv, ImageCopied PROVE BufTypes' /\ BufInv'
  OBVIOUS
<1>1. /\ wpc = "copy" /\ edmac_sem /\ edmac_sem' = FALSE /\ flush' = None
      /\ dma' = [dma EXCEPT ![crop] = @ + 1]
      /\ wpc' = "idle"
      /\ writers' = IF flush = None THEN writers ELSE [writers EXCEPT ![flush] = "new"]
      /\ UNCHANGED <<rec, crop, bufs, fp, lv, cur, orphans>>
  BY SMT DEF ImageCopied, EndEvent
<1>2. crop \in Bufs /\ crop # None /\ rec = "ACTIVE" /\ writers[crop] = "none"
  BY <1>1, Zenon DEF BufInv, BufTypes
<1>3. /\ writers' \in [Bufs -> {"none", "new", "writing"}]
      /\ \A b \in Bufs : b # flush => writers'[b] = writers[b]
  BY <1>1, SMT DEF BufTypes
<1>4. /\ dma \in [Bufs -> Nat] /\ 1 \in Bufs /\ 2 \in Bufs
      /\ \A b \in Bufs : b = 1 \/ b = 2
  BY SMT DEF BufTypes, Bufs
<1>5. dma[1] = 0 /\ dma[2] = 0
  BY <1>1, <1>4, SMT DEF BufInv, CopyExclusive
<1>6. /\ dma' \in [Bufs -> Nat] /\ dma'[1] + dma'[2] = 1
      /\ \A b \in Bufs : b # crop => dma'[b] = 0
  BY <1>1, <1>2, <1>4, <1>5, SMT
<1>7. BufTypes'
  BY <1>1, <1>2, <1>3, <1>6, Zenon DEF BufTypes
<1>8. writers'[crop] = "none"
  BY <1>1, <1>2, <1>3, Zenon DEF BufInv
<1>9. \A b \in Bufs : writers'[b] # "none" => cur'[b] # 0 /\ dma'[b] = 0 /\ rec' = "ACTIVE"
  BY <1>1, <1>2, <1>3, <1>6, <1>8, Zenon DEF BufInv
<1>10. CopyExclusive'
  BY <1>1, <1>6, Zenon DEF CopyExclusive
<1>11. LvPaired'
  BY <1>1, <1>2, SMT DEF BufInv, LvPaired
<1> QED
  BY <1>1, <1>7, <1>8, <1>9, <1>10, <1>11, SMT DEF BufInv

\* The end of an event that left the buffers alone.
LEMMA EndBuf ==
  ASSUME EventInv, BufTypes, BufInv, wpc # "free", wpc' \notin {"copy", "free"}, flush' = None,
         UNCHANGED <<rec, crop, bufs, fp, lv, card>>
  PROVE  BufTypes' /\ BufInv'
<1>1. BufTypes'
  BY Zenon DEF BufTypes
<1>2. CopyExclusive' /\ LvPaired'
  BY Zenon DEF BufInv, CopyExclusive, LvPaired
<1> QED
  BY <1>1, <1>2, Zenon DEF BufInv

\* It gives up on frames when both buffers are full.
LEMMA ImageStuckBuf == EventInv /\ BufTypes /\ BufInv /\ ImageStuck => BufTypes' /\ BufInv'
<1> SUFFICES ASSUME EventInv, BufTypes, BufInv, ImageStuck PROVE BufTypes' /\ BufInv'
  OBVIOUS
<1>1. /\ wpc = "handle" /\ rec = "ACTIVE" /\ crop' = None /\ flush' = None /\ wpc' = "idle"
      /\ UNCHANGED <<rec, bufs, fp, lv, card>>
  BY Zenon DEF ImageStuck, Handling, EndEvent
<1>2. BufTypes'
  BY <1>1, Zenon DEF BufTypes
<1>3. CopyExclusive' /\ LvPaired'
  BY <1>1, SMT DEF BufInv, CopyExclusive, LvPaired
<1> QED
  BY <1>1, <1>2, <1>3, SMT DEF BufInv

\* It starts a recording: the buffers of the last one are gone.
LEMMA StartBuf ==
  ASSUME EventInv, BufTypes, BufInv, NEW named \in BOOLEAN, NEW f \in BOOLEAN,
         StartRecording(named, f)
  PROVE  BufTypes' /\ BufInv'
<1>1. /\ wpc = "handle" /\ rec = "INACTIVE" /\ crop = None /\ bufs' = TRUE
      /\ cur' = [b \in Bufs |-> 0] /\ crop' = 1 /\ lv' = lv + 1 /\ fp' = (named /\ f)
      /\ rec' = (IF named THEN "ACTIVE" ELSE rec) /\ flush' = None /\ wpc' = "idle"
      /\ UNCHANGED <<edmac_sem, dma, writers, orphans>>
  BY Zenon DEF StartRecording, Handling, EndEvent
<1>2. cur' \in [Bufs -> 0..BufFrames] /\ crop' \in Bufs /\ crop' # None /\ fp' \in BOOLEAN
      /\ lv' \in Nat /\ rec' \in {"INACTIVE", "ACTIVE"}
  BY <1>1, RawVidAssumption, SMT DEF BufTypes, Bufs
<1>3. BufTypes'
  BY <1>1, <1>2, Zenon DEF BufTypes
<1>4. \A b \in Bufs : writers'[b] = "none"
  BY <1>1, SMT DEF BufInv
<1>5. CopyExclusive' /\ LvPaired'
  BY <1>1, SMT DEF BufInv, CopyExclusive, LvPaired
<1> QED
  BY <1>1, <1>2, <1>3, <1>4, <1>5, SMT DEF BufInv

\* It stops: the raw LiveView request is given back first ...
LEMMA StopCloseBuf == EventInv /\ BufTypes /\ BufInv /\ StopClose => BufTypes' /\ BufInv'
<1> SUFFICES ASSUME EventInv, BufTypes, BufInv, StopClose PROVE BufTypes' /\ BufInv'
  OBVIOUS
<1>1. /\ wpc = "handle" /\ type[wev] = "STOP" /\ rec = "ACTIVE" /\ lv' = lv - 1 /\ fp' = FALSE
      /\ wpc' = "free" /\ UNCHANGED <<type, rec, wev, crop, bufs, flush, card>>
  BY Zenon DEF StopClose, Handling
<1>2. lv = 1 /\ lv' \in Nat
  BY <1>1, SMT DEF BufInv, LvPaired
<1>3. BufTypes'
  BY <1>1, <1>2, Zenon DEF BufTypes
<1>4. CopyExclusive' /\ LvPaired'
  BY <1>1, <1>2, SMT DEF BufInv, CopyExclusive, LvPaired
<1> QED
  BY <1>1, <1>3, <1>4, SMT DEF BufInv

\* ... and then the buffers are freed.
LEMMA StopFreeBuf ==
  EventInv /\ BufTypes /\ BufInv /\ ~ Preempted /\ StopFree => BufTypes' /\ BufInv'
<1> SUFFICES ASSUME EventInv, BufTypes, BufInv, ~ Preempted, StopFree PROVE BufTypes' /\ BufInv'
  OBVIOUS
<1>1. /\ wpc = "free" /\ crop' = None /\ bufs' = FALSE /\ cur' = [b \in Bufs |-> 0]
      /\ writers' = [b \in Bufs |-> IF writers[b] = "writing" THEN "none" ELSE writers[b]]
      /\ orphans' = orphans \cup {b \in Bufs : writers[b] = "writing"}
      /\ rec' = "INACTIVE" /\ flush' = None /\ wpc' = "idle"
      /\ UNCHANGED <<fp, lv, edmac_sem, dma>>
  BY Zenon DEF StopFree, EndEvent
<1>2. \A b \in Bufs : writers'[b] = "none"
  BY <1>1, SMT DEF Preempted, BufTypes
<1>3. BufTypes'
  <2>1. writers' \in [Bufs -> {"none", "new", "writing"}] /\ orphans' \subseteq Bufs
    BY <1>1, SMT DEF BufTypes
  <2>2. cur' \in [Bufs -> 0..BufFrames]
    BY <1>1, RawVidAssumption, SMT
  <2> QED
    BY <1>1, <2>1, <2>2, Zenon DEF BufTypes
<1>4. CopyExclusive' /\ LvPaired'
  BY <1>1, SMT DEF BufInv, CopyExclusive, LvPaired
<1> QED
  BY <1>1, <1>2, <1>3, <1>4, SMT DEF BufInv

\* The end of a copy, and the raw_write tasks.
LEMMA CardBuf ==
  ASSUME EventInv, BufTypes, BufInv, StopInv,
         \E b \in Bufs : CopyDone(b) \/ WriteBegin(b) \/ WriteEnd(b)
  PROVE  BufTypes' /\ BufInv'
<1>1. UNCHANGED <<type, worker>>
  BY Zenon DEF CopyDone, WriteBegin, WriteEnd
<1>orph. orphans # {} => flush = None /\ \A b \in Bufs : writers[b] = "none"
  BY Zenon DEF StopInv, OrphanInv
<1>2. ASSUME NEW b \in Bufs, CopyDone(b) PROVE BufTypes' /\ BufInv'
  <2>1. /\ dma[b] > 0 /\ dma' = [dma EXCEPT ![b] = @ - 1] /\ edmac_sem' = TRUE
        /\ UNCHANGED <<cur, writers, orphans>>
    BY <1>2, Zenon DEF CopyDone
  <2>2. dma \in [Bufs -> Nat] /\ (b = 1 \/ b = 2) /\ 1 \in Bufs /\ 2 \in Bufs
    BY SMT DEF BufTypes, Bufs
  <2>3. dma[1] + dma[2] = 1
    BY <2>1, <2>2, SMT DEF BufInv, CopyExclusive
  <2>4. /\ dma' \in [Bufs -> Nat] /\ dma'[1] + dma'[2] = 0
        /\ \A c \in Bufs : dma[c] = 0 => dma'[c] = 0
    BY <2>1, <2>2, <2>3, SMT
  <2>5. BufTypes'
    BY <1>1, <2>1, <2>4, Zenon DEF BufTypes
  <2>6. CopyExclusive'
    BY <2>1, <2>4, Zenon DEF CopyExclusive
  <2>7. LvPaired'
    BY <1>1, Zenon DEF BufInv, LvPaired
  <2> QED
    BY <1>1, <2>1, <2>4, <2>5, <2>6, <2>7, Zenon DEF BufInv
<1>3. ASSUME NEW b \in Bufs, WriteBegin(b) PROVE BufTypes' /\ BufInv'
  <2>1. /\ writers[b] = "new"
        /\ writers' = [writers EXCEPT ![b] = IF bufs /\ fp THEN "writing" ELSE "none"]
        /\ UNCHANGED <<cur, edmac_sem, dma, orphans>>
    BY <1>3, Zenon DEF WriteBegin
  <2>2. /\ writers' \in [Bufs -> {"none", "new", "writing"}]
        /\ \A c \in Bufs : writers'[c] # "none" => writers[c] # "none"
    BY <2>1, SMT DEF BufTypes
  <2>3. BufTypes'
    BY <1>1, <2>1, <2>2, Zenon DEF BufTypes
  <2>4. CopyExclusive' /\ LvPaired'
    BY <1>1, <2>1, Zenon DEF BufInv, CopyExclusive, LvPaired
  <2>5. /\ crop \in Bufs \cup {None} /\ flush \in Bufs \cup {None}
    BY Zenon DEF BufTypes
  <2> QED
    BY <1>1, <2>1, <2>2, <2>3, <2>4, <2>5, Zenon DEF BufInv
<1>4. ASSUME NEW b \in Bufs, WriteEnd(b) PROVE BufTypes' /\ BufInv'
  <2>1. /\ cur' = [cur EXCEPT ![b] = 0] /\ UNCHANGED <<edmac_sem, dma>>
    BY <1>4, Zenon DEF WriteEnd
  <2>2. \/ writers[b] = "writing" /\ writers' = [writers EXCEPT ![b] = "none"] /\ UNCHANGED orphans
        \/ b \in orphans /\ orphans' = orphans \ {b} /\ UNCHANGED writers
    BY <1>4, Zenon DEF WriteEnd
  <2>3. /\ writers' \in [Bufs -> {"none", "new", "writing"}] /\ orphans' \subseteq Bufs
        /\ \A c \in Bufs : writers'[c] # "none" => writers[c] # "none"
        /\ \A c \in Bufs : writers[c] = "none" => writers'[c] = "none"
    BY <2>2, SMT DEF BufTypes
  <2>4. writers'[b] = "none"
    BY <1>orph, <2>2, SMT DEF BufTypes
  <2>5. /\ cur' \in [Bufs -> 0..BufFrames] /\ \A c \in Bufs : c # b => cur'[c] = cur[c]
    BY <2>1, RawVidAssumption, SMT DEF BufTypes
  <2>6. BufTypes'
    BY <1>1, <2>1, <2>3, <2>5, Zenon DEF BufTypes
  <2>7. CopyExclusive' /\ LvPaired'
    BY <1>1, <2>1, Zenon DEF BufInv, CopyExclusive, LvPaired
  <2>8. flush # None => flush # b
    BY <1>orph, <2>2, SMT DEF BufInv
  <2>9. /\ crop \in Bufs \cup {None} /\ flush \in Bufs \cup {None}
    BY Zenon DEF BufTypes
  <2>10. \A c \in Bufs : writers'[c] # "none" => cur'[c] # 0 /\ dma'[c] = 0 /\ rec' = "ACTIVE"
    BY <1>1, <2>1, <2>3, <2>4, <2>5, Zenon DEF BufInv
  <2>11. flush' # None => flush' # crop' /\ cur'[flush'] # 0 /\ writers'[flush'] = "none"
    BY <1>1, <2>3, <2>5, <2>8, <2>9, Zenon DEF BufInv
  <2>12. crop' # None => writers'[crop'] = "none"
    BY <1>1, <2>3, <2>9, Zenon DEF BufInv
  <2> QED
    BY <1>1, <2>6, <2>7, <2>10, <2>11, <2>12, Zenon DEF BufInv
<1> QED
  BY <1>2, <1>3, <1>4, Zenon

\* The worker.
LEMMA WorkerBuf == EventInv /\ BufTypes /\ BufInv /\ Worker => BufTypes' /\ BufInv'
<1> SUFFICES ASSUME EventInv, BufTypes, BufInv, Worker PROVE BufTypes' /\ BufInv'
  OBVIOUS
<1>1. CASE Receive
  <2>1. /\ wpc = "idle" /\ wpc' = "handle" /\ UNCHANGED <<rec, crop, bufs, flush, fp, lv, card>>
    BY <1>1, Zenon DEF Receive
  <2>2. wpc # "free" /\ wpc' \notin {"copy", "free"} /\ flush' = None
    BY <2>1, SMT DEF BufInv
  <2> QED
    BY <2>1, <2>2, EndBuf, Zenon
<1>2. CASE ImageRejected \/ ImageDropped \/ StartRefused \/ StopIgnored
  <2>1. /\ wpc # "free" /\ wpc' = "idle" /\ flush' = None
        /\ UNCHANGED <<rec, crop, bufs, fp, lv, card>>
    BY <1>2, SMT DEF ImageRejected, ImageDropped, StartRefused, StopIgnored, Handling, EndEvent
  <2>2. wpc' \notin {"copy", "free"}
    BY <2>1, SMT
  <2> QED
    BY <2>1, <2>2, EndBuf, Zenon
<1>3. CASE \E named, f \in BOOLEAN : StartRecording(named, f)
  BY <1>3, StartBuf, Zenon
<1>4. ~ Preempted
  BY Zenon DEF Worker
<1>5. CASE ImageLost
  <2>1. /\ wpc = "handle" /\ wpc' = "lost" /\ UNCHANGED <<rec, crop, bufs, flush, fp, lv, card>>
    BY <1>5, Zenon DEF ImageLost, Handling
  <2>2. wpc # "free" /\ wpc' \notin {"copy", "free"} /\ flush' = None
    BY <2>1, SMT DEF BufInv
  <2> QED
    BY <2>1, <2>2, EndBuf, Zenon
<1> QED
  BY <1>1, <1>2, <1>3, <1>4, <1>5, ImageStuckBuf, ImagePlaceBuf, ImageCopiedBuf, StopCloseBuf,
     StopFreeBuf, Zenon DEF Worker

\* Every step keeps the buffers in order.
LEMMA BufStep == IInv /\ Next => BufTypes' /\ BufInv'
<1> SUFFICES ASSUME IInv, Next PROVE BufTypes' /\ BufInv'
  OBVIOUS
<1>1. EventInv /\ BufTypes /\ BufInv /\ StopInv
  BY Zenon DEF IInv
<1>2. CASE KeyStop \/ KeyStart \/ KeyPost \/ Vsync \/ \E s \in Stops : StopTask(s)
  <2>1. UNCHANGED <<worker, card>>
    BY <1>2, ProducerFrame, Zenon
  <2>2. wev # None => type'[wev] = type[wev]
    BY <1>1, <2>1, FrozenStep, Zenon
  <2> QED
    BY <1>1, <2>1, <2>2, BufFrame, Zenon
<1> QED
  BY <1>1, <1>2, WorkerBuf, CardBuf, Zenon DEF Next

-----------------------------------------------------------------------------
(* What is left after a stop                                               *)

\* Nothing is posted, and vsync does not begin a frame.
LEMMA LeftKept ==
  ASSUME q' = q, \A n \in DOMAIN q : type'[q[n]] = type[q[n]], vpc = "idle" => vpc' = "idle"
  PROVE  /\ \A n : OneLeft(n) => OneLeft(n)'
         /\ NoneLeft => NoneLeft'
  BY Zenon DEF OneLeft, NoneLeft

\* Something else than a frame is posted.
LEMMA LeftPosted ==
  ASSUME EventTypes, NEW e \in Events, q' = Append(q, e), type'[e] # "IMAGE", vpc' = vpc,
         \A n \in DOMAIN q : type'[q[n]] = type[q[n]]
  PROVE  /\ \A n : OneLeft(n) => OneLeft(n)'
         /\ NoneLeft => NoneLeft'
         /\ \A n : n = Len(q) + 1 => OneLeft(n)'
<1> DEFINE z == Len(q) + 1
<1>1. /\ DOMAIN q' = DOMAIN q \cup {z} /\ q'[z] = e
      /\ \A n \in DOMAIN q : q'[n] = q[n] /\ ~ (n > z)
      /\ ~ (z > z)
  <2>1. q \in Seq(Events)
    BY Zenon DEF EventTypes
  <2>2. DOMAIN q' = DOMAIN q \cup {z} /\ q'[z] = e /\ \A n \in DOMAIN q : q'[n] = q[n]
    BY <2>1, QueueAppend, Zenon
  <2>3. (\A n \in DOMAIN q : ~ (n > z)) /\ ~ (z > z)
    BY <2>1, SMT
  <2> QED
    BY <2>2, <2>3, Zenon
<1> HIDE DEF z
<1>2. \A i \in DOMAIN q' : type'[q'[i]] = "IMAGE" => i \in DOMAIN q /\ type[q[i]] = "IMAGE"
  BY <1>1, Zenon
<1>3. \A i \in DOMAIN q' : ~ (i > z)
  BY <1>1, Zenon
<1>4. \A n : n = z => OneLeft(n)'
  BY <1>3, Zenon DEF OneLeft
<1>5. \A n : OneLeft(n) => OneLeft(n)'
  BY <1>2, Zenon DEF OneLeft
<1>6. NoneLeft => NoneLeft'
  BY <1>2, Zenon DEF NoneLeft
<1> QED
  BY <1>4, <1>5, <1>6, Zenon DEF z

\* The frame vsync was working on is posted.
LEMMA LeftFrame ==
  ASSUME EventTypes, NEW e \in Events, q' = Append(q, e), vpc # "idle", vpc' = "idle",
         \A n \in DOMAIN q : type'[q[n]] = type[q[n]]
  PROVE  \A n : OneLeft(n) => OneLeft(n)'
<1> DEFINE z == Len(q) + 1
<1>1. /\ DOMAIN q' = DOMAIN q \cup {z} /\ \A n \in DOMAIN q : q'[n] = q[n]
  BY QueueAppend, Zenon DEF EventTypes
<1> HIDE DEF z
<1> SUFFICES ASSUME NEW n, OneLeft(n) PROVE OneLeft(n)'
  OBVIOUS
<1>2. \A i \in DOMAIN q' : i > n /\ type'[q'[i]] = "IMAGE" => i = z
  BY <1>1, SMT DEF OneLeft
<1> QED
  BY <1>2, Zenon DEF OneLeft

\* The worker receives.
LEMMA LeftReceived ==
  ASSUME EventTypes, q # <<>>, q' = Tail(q), UNCHANGED <<type, vpc>>
  PROVE  /\ \A n \in Nat : OneLeft(n + 1) => OneLeft(n)'
         /\ OneLeft(0) => OneLeft(0)'
         /\ NoneLeft => NoneLeft'
         /\ OneLeft(0) /\ type[q[1]] = "IMAGE" => NoneLeft'
         /\ NoneLeft => type[q[1]] # "IMAGE"
<1>1. /\ 1 \in DOMAIN q
      /\ \A n \in DOMAIN q' : n + 1 \in DOMAIN q /\ q'[n] = q[n + 1] /\ n \in Nat /\ n > 0
  BY TailFacts, SMT DEF EventTypes
<1>2. \A n \in Nat : OneLeft(n + 1) => OneLeft(n)'
  BY <1>1, SMT DEF OneLeft
<1>3. OneLeft(0) => OneLeft(0)'
  BY <1>1, SMT DEF OneLeft
<1>4. NoneLeft => NoneLeft'
  BY <1>1, SMT DEF NoneLeft
<1>5. OneLeft(0) /\ type[q[1]] = "IMAGE" => NoneLeft'
  BY <1>1, SMT DEF OneLeft, NoneLeft
<1> QED
  BY <1>1, <1>2, <1>3, <1>4, <1>5, Zenon DEF NoneLeft

\* Nothing is posted, the worker and the card do nothing, vsync begins no frame,
\* and a stop_com task that sets out to send its command has set prevent_recording.
LEMMA QuietStop ==
  ASSUME IInv, Next, q' = q, UNCHANGED <<worker, card>>, vpc = "idle" => vpc' = "idle",
         prevent => prevent', \A s \in Stops : spc'[s] \in {"get", "post"} => prevent'
  PROVE  StopInv'
<1>1. \A n \in DOMAIN q : type'[q[n]] = type[q[n]]
  BY FrozenStep, Zenon DEF IInv
<1>2. wev # None => type'[wev] = type[wev]
  BY FrozenStep, Zenon DEF IInv
<1>3. (\A n : OneLeft(n) => OneLeft(n)') /\ (NoneLeft => NoneLeft')
  BY <1>1, LeftKept, Zenon
<1>4. SentInv'
  BY <1>1, <1>2, <1>3, Zenon DEF IInv, StopInv, SentInv
<1>5. OrphanInv'
  <2>1. wpc = "handle" => wev # None
    BY SMT DEF IInv, EventInv, QueueInv
  <2> QED
    BY <1>2, <1>3, <2>1, Zenon DEF IInv, StopInv, OrphanInv
<1> QED
  BY <1>4, <1>5, Zenon DEF StopInv

\* While prevent_recording is not set there is nothing to show.
LEMMA BeforeStop ==
  ASSUME IInv, ~ prevent, UNCHANGED <<type, q, prevent, stop, worker, card>>
  PROVE  StopInv'
<1>1. SentInv'
  BY Zenon DEF IInv, StopInv, SentInv
<1>2. OrphanInv'
  BY Zenon DEF IInv, StopInv, OrphanInv
<1> QED
  BY <1>1, <1>2, Zenon DEF StopInv

\* A START or STOP command is posted.
LEMMA PostStop ==
  ASSUME IInv, Next, NEW e \in Events, type[e] = "PREPARING", NEW t \in {"START", "STOP"},
         post(e, t), t = "STOP" => prevent, UNCHANGED <<prevent, vsync, worker, card>>,
         \A s \in Stops : spc'[s] \in {"get", "post"} => spc[s] \in {"get", "post"}
  PROVE  StopInv'
<1>1. EventInv /\ EventTypes /\ t \in Posted /\ t # "IMAGE"
  BY SMT DEF IInv, EventInv, Posted
<1>2. q' = Append(q, e) /\ type'[e] = t
  BY <1>1, PostFacts, Zenon
<1>3. \A n \in DOMAIN q : type'[q[n]] = type[q[n]]
  BY <1>1, FrozenStep, Zenon
<1>4. wev # None => type'[wev] = type[wev]
  BY <1>1, FrozenStep, Zenon
<1>5. /\ \A n : OneLeft(n) => OneLeft(n)'
      /\ NoneLeft => NoneLeft'
      /\ \A n : n = Len(q) + 1 => OneLeft(n)'
  BY <1>1, <1>2, <1>3, LeftPosted, Zenon
<1>6. /\ DOMAIN q' = DOMAIN q \cup {Len(q) + 1} /\ q'[Len(q) + 1] = e
      /\ \A n \in DOMAIN q : q'[n] = q[n]
  BY <1>1, <1>2, QueueAppend, Zenon DEF EventTypes
<1>7. \A n \in DOMAIN q' : type'[q'[n]] = "STOP" => prevent' /\ OneLeft(n)'
  <2> SUFFICES ASSUME NEW n \in DOMAIN q', type'[q'[n]] = "STOP" PROVE prevent' /\ OneLeft(n)'
    OBVIOUS
  <2>1. CASE n \in DOMAIN q
    BY <1>3, <1>5, <1>6, <2>1, Zenon DEF IInv, StopInv, SentInv
  <2>2. CASE n = Len(q) + 1
    BY <1>2, <1>5, <1>6, <2>2, Zenon
  <2> QED
    BY <1>6, <2>1, <2>2, Zenon
<1>8. SentInv'
  BY <1>4, <1>5, <1>7, Zenon DEF IInv, StopInv, SentInv
<1>9. OrphanInv'
  <2>1. wpc = "handle" => wev # None
    BY <1>1, SMT DEF EventInv, QueueInv
  <2> QED
    BY <1>4, <1>5, <2>1, Zenon DEF IInv, StopInv, OrphanInv
<1> QED
  BY <1>8, <1>9, Zenon DEF StopInv

\* vsync posts its frame.
LEMMA FrameStop == IInv /\ Next /\ VsyncPost /\ count > 1 => StopInv'
<1> SUFFICES ASSUME IInv, Next, VsyncPost, count > 1 PROVE StopInv'
  OBVIOUS
<1>1. EventInv /\ EventTypes /\ vpc = "post" /\ vpc # "idle" /\ vpc' = "idle"
  BY SMT DEF IInv, EventInv, VsyncPost
<1>2. /\ post(vev, ImageType) /\ vev \in Events /\ type[vev] = "PREPARING"
      /\ ImageType \in Posted /\ ImageType # "STOP"
  <2>1. post(vev, ImageType)
    BY Zenon DEF VsyncPost
  <2>2. vev \in Events /\ type[vev] = "PREPARING"
    BY <1>1, SMT DEF EventInv, HandInv, EventTypes
  <2>3. ImageType \in Posted /\ ImageType # "STOP"
    BY SMT DEF ImageType, Posted
  <2> QED
    BY <2>1, <2>2, <2>3, Zenon
<1>3. Room /\ q' = Append(q, vev) /\ type'[vev] = ImageType
  BY <1>1, <1>2, PostFacts, Zenon
<1>4. UNCHANGED <<prevent, stop, worker, card>>
  BY <1>3, Zenon DEF VsyncPost
<1>5. \A n \in DOMAIN q : type'[q[n]] = type[q[n]]
  BY <1>1, FrozenStep, Zenon
<1>6. wev # None => type'[wev] = type[wev]
  BY <1>1, <1>4, FrozenStep, Zenon
<1>7. \A n : OneLeft(n) => OneLeft(n)'
  BY <1>1, <1>2, <1>3, <1>5, LeftFrame, Zenon
<1>8. /\ DOMAIN q' = DOMAIN q \cup {Len(q) + 1} /\ q'[Len(q) + 1] = vev
      /\ \A n \in DOMAIN q : q'[n] = q[n]
  BY <1>1, <1>2, <1>3, QueueAppend, Zenon DEF EventTypes
<1>9. \A n \in DOMAIN q' : type'[q'[n]] = "STOP" => prevent' /\ OneLeft(n)'
  <2> SUFFICES ASSUME NEW n \in DOMAIN q', type'[q'[n]] = "STOP" PROVE prevent' /\ OneLeft(n)'
    OBVIOUS
  <2>1. n \in DOMAIN q
    BY <1>2, <1>3, <1>8, Zenon
  <2> QED
    BY <1>4, <1>5, <1>7, <1>8, <2>1, Zenon DEF IInv, StopInv, SentInv
<1>10. SentInv'
  BY <1>4, <1>6, <1>7, <1>9, Zenon DEF IInv, StopInv, SentInv
<1>11. ~ NoneLeft
  BY <1>1, Zenon DEF NoneLeft
<1>12. OrphanInv'
  <2>1. wpc = "handle" => wev # None
    BY <1>1, SMT DEF EventInv, QueueInv
  <2> QED
    BY <1>4, <1>6, <1>7, <1>11, <2>1, Zenon DEF IInv, StopInv, OrphanInv
<1> QED
  BY <1>10, <1>12, Zenon DEF StopInv

\* The vsync callback.
LEMMA VsyncStop == IInv /\ Next /\ Vsync => StopInv'
<1> SUFFICES ASSUME IInv, Next, Vsync PROVE StopInv'
  OBVIOUS
<1>1. EventTypes /\ \A s \in Stops : spc[s] \in {"get", "post"} => prevent
  BY Zenon DEF IInv, EventInv, StopInv, SentInv
<1>2. UNCHANGED <<worker, card, prevent>>
  <2>1. UNCHANGED <<worker, card>>
    BY ProducerFrame, Zenon
  <2> QED
    BY <2>1, Zenon DEF Vsync, VsyncReset, VsyncFirst, VsyncNext, VsyncGet, VsyncNoEvent, VsyncPost
<1>3. CASE VsyncReset
  <2>1. UNCHANGED <<q, vpc, stop>>
    BY <1>3, Zenon DEF VsyncReset
  <2> QED
    BY <1>1, <1>2, <2>1, QuietStop, Zenon
<1>4. CASE VsyncFirst /\ UNCHANGED stop
  BY <1>2, <1>4, BeforeStop, Zenon DEF VsyncFirst
<1>5. CASE VsyncFirst /\ ~ UNCHANGED stop
  <2>1. SpawnStop /\ UNCHANGED <<q, vpc>>
    BY <1>5, Zenon DEF VsyncFirst
  <2>2. \A s \in Stops : spc'[s] \in {"get", "post"} => prevent'
    BY <1>1, <1>2, <2>1, Spawned, Zenon
  <2> QED
    BY <1>2, <2>1, <2>2, QuietStop, Zenon
<1>6. CASE VsyncNext
  BY <1>2, <1>6, BeforeStop, Zenon DEF VsyncNext
<1>7. CASE VsyncGet
  <2>1. q' = q /\ vpc # "idle" /\ UNCHANGED stop
    BY <1>7, SMT DEF VsyncGet
  <2> QED
    BY <1>1, <1>2, <2>1, QuietStop, Zenon
<1>8. CASE VsyncNoEvent
  <2>1. SpawnStop /\ q' = q /\ vpc' = "idle"
    BY <1>8, Zenon DEF VsyncNoEvent
  <2>2. \A s \in Stops : spc'[s] \in {"get", "post"} => prevent'
    BY <1>1, <1>2, <2>1, Spawned, Zenon
  <2> QED
    BY <1>2, <2>1, <2>2, QuietStop, Zenon
<1>9. CASE VsyncPost /\ ~ (count > 1)
  <2>1. q' = q /\ vpc' = "idle" /\ UNCHANGED stop
    BY <1>9, Zenon DEF VsyncPost
  <2> QED
    BY <1>1, <1>2, <2>1, QuietStop, Zenon
<1>10. CASE VsyncPost /\ count > 1
  BY <1>10, FrameStop, Zenon
<1> QED
  BY <1>3, <1>4, <1>5, <1>6, <1>7, <1>8, <1>9, <1>10, Zenon DEF Vsync

\* The REC key.
LEMMA KeyPressStop == IInv /\ Next /\ (KeyStop \/ KeyStart \/ KeyPost) => StopInv'
<1> SUFFICES ASSUME IInv, Next, KeyStop \/ KeyStart \/ KeyPost PROVE StopInv'
  OBVIOUS
<1>1. EventTypes /\ \A s \in Stops : spc[s] \in {"get", "post"} => prevent
  BY Zenon DEF IInv, EventInv, StopInv, SentInv
<1>2. UNCHANGED <<worker, card, prevent, vsync>>
  BY Zenon DEF KeyStop, KeyStart, KeyPost
<1>3. CASE KeyStop
  <2>1. SpawnStop /\ q' = q
    BY <1>3, Zenon DEF KeyStop
  <2>2. \A s \in Stops : spc'[s] \in {"get", "post"} => prevent'
    BY <1>1, <1>2, <2>1, Spawned, Zenon
  <2> QED
    BY <1>2, <2>1, <2>2, QuietStop, Zenon
<1>4. CASE KeyStart
  <2>1. UNCHANGED <<q, stop>>
    BY <1>4, Zenon DEF KeyStart
  <2> QED
    BY <1>1, <1>2, <2>1, QuietStop, Zenon
<1>5. CASE KeyPost
  <2>1. /\ post(kev, "START") /\ kev \in Events /\ type[kev] = "PREPARING" /\ UNCHANGED stop
    BY <1>5, SMT DEF KeyPost, IInv, EventInv, HandInv, EventTypes
  <2>2. "START" \in {"START", "STOP"} /\ "START" # "STOP"
    BY SMT
  <2> QED
    BY <1>2, <2>1, <2>2, PostStop, Zenon
<1> QED
  BY <1>3, <1>4, <1>5, Zenon

\* The stop_com tasks.
LEMMA StopTaskStop ==
  ASSUME IInv, Next, NEW s \in Stops, StopTask(s)
  PROVE  StopInv'
<1>1. /\ spc \in [Stops -> {"free", "begin", "get", "post"}]
      /\ \A t \in Stops : spc[t] \in {"get", "post"} => prevent
  BY Zenon DEF IInv, EventInv, EventTypes, StopInv, SentInv
<1>2. UNCHANGED <<worker, card, vsync>>
  BY Zenon DEF StopTask, StopBegin, StopGet, StopRetry, StopPost
<1>3. CASE StopBegin(s)
  <2>1. prevent' /\ q' = q
    BY <1>3, Zenon DEF StopBegin
  <2> QED
    BY <1>2, <2>1, QuietStop, Zenon
<1>4. CASE StopGet(s) \/ StopRetry(s)
  <2>1. q' = q /\ prevent' = prevent /\ spc[s] = "get" /\ prevent
    BY <1>1, <1>4, Zenon DEF StopGet, StopRetry
  <2> QED
    BY <1>2, <2>1, QuietStop, Zenon
<1>5. CASE StopPost(s)
  <2>1. /\ post(sev[s], "STOP") /\ sev[s] \in Events /\ type[sev[s]] = "PREPARING"
        /\ prevent' = prevent /\ spc[s] = "post"
    BY <1>5, SMT DEF StopPost, IInv, EventInv, HandInv, EventTypes
  <2>2. spc' = spc \/ spc' = [spc EXCEPT ![s] = "free"]
    BY <1>5, Zenon DEF StopPost
  <2>3. \A t \in Stops : spc'[t] \in {"get", "post"} => spc[t] \in {"get", "post"}
    BY <1>1, <2>2, SMT
  <2>4. prevent /\ "STOP" \in {"START", "STOP"}
    BY <1>1, <2>1, Zenon
  <2> QED
    BY <1>2, <2>1, <2>3, <2>4, PostStop, Zenon
<1> QED
  BY <1>3, <1>4, <1>5, Zenon DEF StopTask

\* The worker receives an event.
LEMMA ReceiveStop == IInv /\ Receive => StopInv'
<1> SUFFICES ASSUME IInv, Receive PROVE StopInv'
  OBVIOUS
<1>1. /\ EventTypes /\ q # <<>> /\ q' = Tail(q) /\ wev' = Head(q)
      /\ UNCHANGED <<type, prevent, vsync, stop, flush, card>>
  BY Zenon DEF Receive, IInv, EventInv
<1>2. /\ wev' = q[1] /\ 1 \in DOMAIN q /\ 1 = 0 + 1 /\ 0 \in Nat
      /\ \A n \in DOMAIN q' : n \in Nat /\ n + 1 \in DOMAIN q /\ q'[n] = q[n + 1]
  BY <1>1, TailFacts, SMT DEF EventTypes
<1>3. /\ \A n \in Nat : OneLeft(n + 1) => OneLeft(n)'
      /\ OneLeft(0) => OneLeft(0)'
      /\ NoneLeft => NoneLeft'
      /\ OneLeft(0) /\ type[q[1]] = "IMAGE" => NoneLeft'
      /\ NoneLeft => type[q[1]] # "IMAGE"
  BY <1>1, LeftReceived, Zenon
<1>4. SentInv'
  <2>1. \A n \in DOMAIN q' : type'[q'[n]] = "STOP" => prevent' /\ OneLeft(n)'
    BY <1>1, <1>2, <1>3, Zenon DEF IInv, StopInv, SentInv
  <2>2. type[q[1]] = "STOP" => prevent /\ OneLeft(0 + 1)
    BY <1>2, Zenon DEF IInv, StopInv, SentInv
  <2>3. type'[wev'] = "STOP" => prevent' /\ OneLeft(0)'
    BY <1>1, <1>2, <1>3, <2>2, Zenon
  <2> QED
    BY <1>1, <2>1, <2>3, Zenon DEF IInv, StopInv, SentInv
<1>5. OrphanInv'
  <2> SUFFICES ASSUME orphans' # {}
               PROVE  /\ prevent' /\ OneLeft(0)'
                      /\ flush' = None /\ \A b \in Bufs : writers'[b] = "none"
                      /\ (\E b \in Bufs : cur'[b] # 0) => NoneLeft'
                      /\ type'[wev'] = "IMAGE" => NoneLeft' /\ \A b \in Bufs : cur'[b] = 0
    BY Zenon DEF OrphanInv
  <2>1. /\ prevent /\ OneLeft(0)
        /\ flush = None /\ \A b \in Bufs : writers[b] = "none"
        /\ (\E b \in Bufs : cur[b] # 0) => NoneLeft
    BY <1>1, Zenon DEF IInv, StopInv, OrphanInv
  <2> QED
    BY <1>1, <1>2, <1>3, <2>1, Zenon
<1> QED
  BY <1>4, <1>5, Zenon DEF StopInv

\* The worker is done with an event.
LEMMA ReleaseStop ==
  ASSUME IInv, Next, EndEvent
  PROVE  SentInv' /\ (\A n : OneLeft(n) => OneLeft(n)') /\ (NoneLeft => NoneLeft')
<1>1. q' = q /\ wev' = None /\ UNCHANGED <<prevent, vsync, stop>>
  BY Zenon DEF EndEvent
<1>2. \A n \in DOMAIN q : type'[q[n]] = type[q[n]]
  BY FrozenStep, Zenon DEF IInv
<1>3. (\A n : OneLeft(n) => OneLeft(n)') /\ (NoneLeft => NoneLeft')
  BY <1>1, <1>2, LeftKept, Zenon
<1> QED
  BY <1>1, <1>2, <1>3, Zenon DEF IInv, StopInv, SentInv

\* It made no raw_write task an orphan, and placed no frame.
LEMMA EndStop ==
  ASSUME IInv, Next, EndEvent, orphans' = orphans,
         orphans # {} => \A b \in Bufs : writers'[b] = "none",
         (\E b \in Bufs : cur'[b] # 0) => (\E b \in Bufs : cur[b] # 0)
  PROVE  StopInv'
<1>1. wpc' # "handle" /\ wev' = None /\ flush' = None /\ prevent' = prevent
  BY Zenon DEF EndEvent
<1>2. SentInv' /\ (\A n : OneLeft(n) => OneLeft(n)') /\ (NoneLeft => NoneLeft')
  BY ReleaseStop, Zenon
<1>3. OrphanInv'
  BY <1>1, <1>2, Zenon DEF IInv, StopInv, OrphanInv
<1> QED
  BY <1>2, <1>3, Zenon DEF StopInv

\* The worker frees the buffers: a raw_write task that is writing is orphaned,
\* and one that has not begun cannot be there.
LEMMA StopFreeStop == IInv /\ Next /\ StopFree /\ ~ Preempted => StopInv'
<1> SUFFICES ASSUME IInv, Next, StopFree, ~ Preempted PROVE StopInv'
  OBVIOUS
<1>1. /\ EndEvent /\ wpc = "free" /\ cur' = [b \in Bufs |-> 0]
      /\ writers' = [b \in Bufs |-> IF writers[b] = "writing" THEN "none" ELSE writers[b]]
  BY Zenon DEF StopFree
<1>2. /\ wpc' # "handle" /\ wev' = None /\ flush' = None /\ prevent' = prevent
  BY <1>1, Zenon DEF EndEvent
<1>3. \A b \in Bufs : writers'[b] = "none" /\ cur'[b] = 0
  BY <1>1, SMT DEF IInv, BufTypes, Preempted
<1>4. type[wev] = "STOP" /\ wev # None
  BY <1>1, SMT DEF IInv, BufInv, EventInv, QueueInv
<1>5. prevent /\ OneLeft(0)
  BY <1>4, Zenon DEF IInv, StopInv, SentInv
<1>6. SentInv' /\ (\A n : OneLeft(n) => OneLeft(n)')
  BY <1>1, ReleaseStop, Zenon
<1>7. OrphanInv'
  BY <1>2, <1>3, <1>5, <1>6, Zenon DEF OrphanInv
<1> QED
  BY <1>6, <1>7, Zenon DEF StopInv

\* The worker places a frame: with an orphan about, it is the only one.
LEMMA PlaceStop == IInv /\ ImagePlace => StopInv'
<1> SUFFICES ASSUME IInv, ImagePlace PROVE StopInv'
  OBVIOUS
<1>1. /\ wpc = "handle" /\ type[wev] = "IMAGE"
      /\ flush' = IF NoRoom THEN crop ELSE None
      /\ wpc' = "copy" /\ UNCHANGED <<events, prevent, vsync, key, stop, wev, writers, orphans>>
  BY Zenon DEF ImagePlace, Handling
<1>2. (\A n : OneLeft(n) => OneLeft(n)') /\ (NoneLeft => NoneLeft')
  BY <1>1, LeftKept, Zenon
<1>3. SentInv'
  BY <1>1, <1>2, Zenon DEF IInv, StopInv, SentInv
<1>4. OrphanInv'
  <2> SUFFICES ASSUME orphans # {} PROVE OrphanInv'
    BY <1>1, Zenon DEF OrphanInv
  <2>1. wev # None /\ wpc' # "handle" /\ crop \in Bufs \cup {None}
    BY <1>1, SMT DEF IInv, EventInv, QueueInv, BufTypes
  <2>2. /\ prevent /\ OneLeft(0) /\ NoneLeft /\ \A b \in Bufs : writers[b] = "none"
        /\ \A b \in Bufs : cur[b] = 0
    BY <1>1, <2>1, Zenon DEF IInv, StopInv, OrphanInv
  <2>3. crop # None => ~ Full
    BY <2>1, <2>2, RawVidAssumption, SMT DEF Full
  <2>4. flush' = None
    BY <1>1, <2>3, Zenon DEF NoRoom
  <2> QED
    BY <1>1, <1>2, <2>1, <2>2, <2>4, Zenon DEF OrphanInv
<1> QED
  BY <1>3, <1>4, Zenon DEF StopInv

\* Every step of the worker keeps what is left after a stop to one frame.
LEMMA WorkerStop == IInv /\ Next /\ Worker => StopInv'
<1> SUFFICES ASSUME IInv, Next, Worker PROVE StopInv'
  OBVIOUS
<1>0. ~ Preempted
  BY Zenon DEF Worker
<1>1. orphans # {} => flush = None /\ \A b \in Bufs : writers[b] = "none"
  BY Zenon DEF IInv, StopInv, OrphanInv
<1>2. CASE ImageRejected \/ ImageStuck \/ ImageDropped \/ StartRefused \/ StopIgnored
  <2>1. EndEvent /\ UNCHANGED card
    BY <1>2, Zenon DEF ImageRejected, ImageStuck, ImageDropped, StartRefused, StopIgnored
  <2> QED
    BY <1>1, <2>1, EndStop, Zenon
<1>3. CASE ImageCopied
  <2>1. /\ EndEvent /\ UNCHANGED <<cur, orphans>>
        /\ writers' = IF flush = None THEN writers ELSE [writers EXCEPT ![flush] = "new"]
    BY <1>3, Zenon DEF ImageCopied
  <2>2. orphans # {} => \A b \in Bufs : writers'[b] = "none"
    BY <1>1, <2>1, Zenon
  <2> QED
    BY <2>1, <2>2, EndStop, Zenon
<1>4. CASE \E named, f \in BOOLEAN : StartRecording(named, f)
  <2>1. EndEvent /\ UNCHANGED <<writers, orphans>> /\ cur' = [b \in Bufs |-> 0]
    BY <1>4, Zenon DEF StartRecording
  <2>2. ~ \E b \in Bufs : cur'[b] # 0
    BY <2>1, Zenon
  <2> QED
    BY <1>1, <2>1, <2>2, EndStop, Zenon
<1>5. CASE ImageLost \/ StopClose
  <2>1. /\ UNCHANGED <<events, prevent, vsync, stop, wev, flush, card>>
        /\ wpc' # "handle"
    BY <1>5, SMT DEF ImageLost, StopClose
  <2>2. (\A n : OneLeft(n) => OneLeft(n)') /\ (NoneLeft => NoneLeft')
    BY <2>1, LeftKept, Zenon
  <2>3. SentInv'
    BY <2>1, <2>2, Zenon DEF IInv, StopInv, SentInv
  <2>4. OrphanInv'
    BY <2>1, <2>2, Zenon DEF IInv, StopInv, OrphanInv
  <2> QED
    BY <2>3, <2>4, Zenon DEF StopInv
<1> QED
  BY <1>0, <1>2, <1>3, <1>4, <1>5, ReceiveStop, PlaceStop, StopFreeStop, Zenon DEF Worker

\* The card and the copy.
LEMMA CardStop ==
  ASSUME IInv, \E b \in Bufs : CopyDone(b) \/ WriteBegin(b) \/ WriteEnd(b)
  PROVE  StopInv'
<1>1. UNCHANGED <<events, prevent, vsync, stop, worker>>
  BY Zenon DEF CopyDone, WriteBegin, WriteEnd
<1>2. (\A n : OneLeft(n) => OneLeft(n)') /\ (NoneLeft => NoneLeft')
  BY <1>1, LeftKept, Zenon
<1>3. SentInv'
  BY <1>1, <1>2, Zenon DEF IInv, StopInv, SentInv
<1>4. OrphanInv'
  <2>1. ASSUME NEW b \in Bufs, CopyDone(b) PROVE OrphanInv'
    <3>1. UNCHANGED <<cur, writers, orphans>>
      BY <2>1, Zenon DEF CopyDone
    <3> QED
      BY <1>1, <1>2, <3>1, Zenon DEF IInv, StopInv, OrphanInv
  <2>2. ASSUME NEW b \in Bufs, WriteBegin(b) PROVE OrphanInv'
    <3>1. orphans' = orphans /\ writers[b] # "none"
      BY <2>2, SMT DEF WriteBegin
    <3> QED
      BY <3>1, Zenon DEF IInv, StopInv, OrphanInv
  <2>3. ASSUME NEW b \in Bufs, WriteEnd(b) PROVE OrphanInv'
    <3>1. CASE writers[b] = "writing" /\ UNCHANGED orphans
      <4>1. writers[b] # "none"
        BY <3>1, SMT
      <4> QED
        BY <3>1, <4>1, Zenon DEF IInv, StopInv, OrphanInv
    <3>2. CASE b \in orphans /\ UNCHANGED writers
      <4>1. \A x \in Bufs : cur'[x] # 0 => cur[x] # 0
        BY <2>3, SMT DEF WriteEnd, IInv, BufTypes
      <4>2. orphans # {}
        BY <3>2, Zenon
      <4> QED
        BY <1>1, <1>2, <3>2, <4>1, <4>2, Zenon DEF IInv, StopInv, OrphanInv
    <3> QED
      BY <2>3, <3>1, <3>2, Zenon DEF WriteEnd
  <2> QED
    BY <2>1, <2>2, <2>3, Zenon
<1> QED
  BY <1>3, <1>4, Zenon DEF StopInv

-----------------------------------------------------------------------------
(* The invariant                                                           *)

\* The invariant holds at first: no event is in use, no buffer allocated.
LEMMA InvInit == Init => IInv
<1> SUFFICES ASSUME Init PROVE IInv
  OBVIOUS
<1>1. EventInv
  BY EventInit, Zenon
<1>2. BufTypes
  <2>1. /\ cur \in [Bufs -> 0..BufFrames] /\ lv \in Nat
        /\ writers \in [Bufs -> {"none", "new", "writing"}] /\ orphans \subseteq Bufs
        /\ dma \in [Bufs -> Nat]
    BY RawVidAssumption, SMT DEF Init
  <2> QED
    BY <2>1, Zenon DEF Init, BufTypes
<1>3. BufInv
  <2>1. CopyExclusive
    BY SMT DEF Init, CopyExclusive, Bufs
  <2> QED
    BY <2>1, SMT DEF Init, BufInv, LvPaired, Bufs
<1>4. q = <<>> /\ wev = None /\ orphans = {} /\ \A s \in Stops : spc[s] = "free"
  BY Zenon DEF Init
<1>5. DOMAIN q = {} /\ \A s \in Stops : spc[s] \notin {"get", "post"}
  BY <1>4, SMT
<1>6. StopInv
  BY <1>4, <1>5, Zenon DEF StopInv, SentInv, OrphanInv
<1> QED
  BY <1>1, <1>2, <1>3, <1>6, Zenon DEF IInv

\* Every step of every task keeps the invariant.
LEMMA InvStep == IInv /\ [Next]_vars => IInv'
<1> SUFFICES ASSUME IInv, [Next]_vars PROVE IInv'
  OBVIOUS
<1>1. EventInv'
  BY EventStep, Zenon DEF IInv
<1>2. CASE Next
  <2>1. BufTypes' /\ BufInv'
    BY <1>2, BufStep, Zenon
  <2>2. StopInv'
    BY <1>2, VsyncStop, KeyPressStop, StopTaskStop, WorkerStop, CardStop, Zenon DEF Next
  <2> QED
    BY <1>1, <2>1, <2>2, Zenon DEF IInv
<1>3. CASE UNCHANGED vars
  <2>1. UNCHANGED <<events, prevent, vsync, key, stop, worker, card>>
    BY <1>3, Zenon DEF vars
  <2>2. BufTypes'
    BY <2>1, Zenon DEF IInv, BufTypes
  <2>3. BufInv'
    BY <2>1, Zenon DEF IInv, BufInv, CopyExclusive, LvPaired
  <2>4. SentInv' /\ OrphanInv'
    BY <2>1, Zenon DEF IInv, StopInv, SentInv, OrphanInv, OneLeft, NoneLeft
  <2> QED
    BY <1>1, <2>2, <2>3, <2>4, Zenon DEF IInv, StopInv
<1> QED
  BY <1>2, <1>3, Zenon

\* The inductive invariant of the recorder: one owner per event, one user per
\* crop buffer, and at most one frame after a stop was requested.
THEOREM Invariant == Spec => []IInv
  BY InvInit, InvStep, PTL DEF Spec

\* Type correctness of the recorder.
THEOREM TypeCorrect == Spec => []TypeOK
<1>1. IInv => TypeOK
  BY TypesSplit, Zenon DEF IInv, EventInv
<1> QED
  BY <1>1, Invariant, PTL

\* An event in the pool is nobody's.
LEMMA NobodysEvent ==
  ASSUME EventInv, NEW e \in Events, type[e] = "EMPTY"
  PROVE  InHand(e) = 0
<1> DEFINE A == {n \in DOMAIN q : q[n] = e}
           B == {s \in Stops : sev[s] = e}
           C == {p \in {<<"v", vev>>, <<"k", kev>>, <<"w", wev>>} : p[2] = e}
<1>1. /\ e # None /\ type[e] # "PREPARING" /\ type[e] \notin Posted
  BY RawVidAssumption, SMT DEF Posted
<1>2. e # vev /\ e # kev /\ e # wev /\ \A s \in Stops : sev[s] # e
  BY <1>1, Zenon DEF EventInv, HandInv, QueueInv
<1>3. A = {}
  BY <1>1, Zenon DEF EventInv, QueueInv
<1>4. B = {}
  BY <1>2, Zenon
<1>5. C = {}
  BY <1>2, SMT
<1>6. Cardinality(A) = 0 /\ Cardinality(B) = 0 /\ Cardinality(C) = 0
  BY <1>3, <1>4, <1>5, FS_EmptySet, Zenon
<1>7. InHand(e) = Cardinality(A) + Cardinality(B) + Cardinality(C)
  BY Zenon DEF InHand
<1> HIDE DEF A, B, C
<1> QED
  BY <1>6, <1>7, SMT

\* An event in use is in one pair of hands at most.
LEMMA OnesEvent ==
  ASSUME EventInv, NEW e \in Events
  PROVE  InHand(e) <= 1
<1> DEFINE A == {n \in DOMAIN q : q[n] = e}
           B == {s \in Stops : sev[s] = e}
           C == {p \in {<<"v", vev>>, <<"k", kev>>, <<"w", wev>>} : p[2] = e}
<1>sum. InHand(e) = Cardinality(A) + Cardinality(B) + Cardinality(C)
  BY Zenon DEF InHand
<1>none. e # None /\ \A t \in Posted : t # "PREPARING"
  BY RawVidAssumption, SMT DEF Posted
<1>1. CASE \E n \in DOMAIN q : q[n] = e
  <2>1. PICK n \in DOMAIN q : q[n] = e
    BY <1>1, Zenon
  <2>2. A = {n}
    BY <2>1, Zenon DEF EventInv, QueueInv
  <2>3. type[e] # "PREPARING" /\ e # wev
    BY <1>none, <2>1, Zenon DEF EventInv, QueueInv
  <2>4. e # vev /\ e # kev /\ B = {}
    BY <1>none, <2>3, Zenon DEF EventInv, HandInv
  <2>5. C = {}
    BY <2>3, <2>4, SMT
  <2>6. Cardinality(A) = 1 /\ Cardinality(B) = 0 /\ Cardinality(C) = 0
    BY <2>2, <2>4, <2>5, FS_EmptySet, FS_Singleton, Zenon
  <2> HIDE DEF A, B, C
  <2> QED
    BY <1>sum, <2>6, SMT
<1>2. CASE A = {} /\ \E s \in Stops : sev[s] = e
  <2>1. PICK s \in Stops : sev[s] = e
    BY <1>2, Zenon
  <2>2. B = {s}
    BY <1>none, <2>1, Zenon DEF EventInv, HandInv
  <2>3. e # vev /\ e # kev /\ e # wev
    BY <1>none, <2>1, Zenon DEF EventInv, HandInv, QueueInv
  <2>4. C = {}
    BY <2>3, SMT
  <2>5. Cardinality(A) = 0 /\ Cardinality(B) = 1 /\ Cardinality(C) = 0
    BY <1>2, <2>2, <2>4, FS_EmptySet, FS_Singleton, Zenon
  <2> HIDE DEF A, B, C
  <2> QED
    BY <1>sum, <2>5, SMT
<1>3. CASE A = {} /\ B = {}
  <2>1. /\ vev = e => kev # e /\ wev # e
        /\ kev = e => wev # e
    BY <1>none, Zenon DEF EventInv, HandInv, QueueInv
  <2>2. C = {} \/ C = {<<"v", vev>>} \/ C = {<<"k", kev>>} \/ C = {<<"w", wev>>}
    <3>1. CASE vev = e
      BY <2>1, <3>1, SMT
    <3>2. CASE kev = e
      BY <2>1, <3>2, SMT
    <3>3. CASE wev = e
      BY <2>1, <3>3, SMT
    <3>4. CASE vev # e /\ kev # e /\ wev # e
      BY <3>4, SMT
    <3> QED
      BY <3>1, <3>2, <3>3, <3>4, Zenon
  <2>3. Cardinality(C) = 0 \/ Cardinality(C) = 1
    BY <2>2, FS_EmptySet, FS_Singleton, Zenon
  <2>4. Cardinality(A) = 0 /\ Cardinality(B) = 0
    BY <1>3, FS_EmptySet, Zenon
  <2> HIDE DEF A, B, C
  <2> QED
    BY <1>sum, <2>3, <2>4, SMT
<1> QED
  BY <1>1, <1>2, <1>3, Zenon

\* get_empty_event never hands out an event that somebody has, and no event is
\* in two pairs of hands: the unlocked release by the worker is harmless.
THEOREM EventsOwned == Spec => []OneOwner
<1>1. IInv => OneOwner
  BY NobodysEvent, OnesEvent, SMT DEF IInv, OneOwner
<1> QED
  BY <1>1, Invariant, PTL

\* Who holds an event finds room for it, by the pigeonhole argument of RoomLeft:
\* for every number of events, msg_queue_post never fails.
THEOREM PostsSucceed == Spec => []PostNeverFails
<1>1. IInv => PostNeverFails
  <2> SUFFICES ASSUME IInv, vpc = "post" \/ kpc = "post" \/ (\E s \in Stops : spc[s] = "post")
               PROVE  Room
    BY Zenon DEF PostNeverFails
  <2>1. PICK e \in Events : type[e] = "PREPARING"
    BY SMT DEF IInv, EventInv, HandInv, EventTypes
  <2> QED
    BY <2>1, RoomLeft, Zenon DEF IInv, EventInv
<1> QED
  BY <1>1, Invariant, PTL

\* What is in the queue stays as it was posted until the worker received it.
THEOREM EventsFrozen == Spec => PostedFrozen
<1>1. IInv /\ [Next]_vars => [\A n \in DOMAIN q : type'[q[n]] = type[q[n]]]_vars
  BY FrozenStep, Zenon DEF IInv
<1> QED
  BY <1>1, Invariant, PTL DEF Spec, PostedFrozen

\* worker never starts an EDMAC copy while one is in progress, not even one of an
\* earlier session, and edmac_sem is free exactly when there is none.
THEOREM CopiesExclusive == Spec => []CopyExclusive
<1>1. IInv => CopyExclusive
  BY Zenon DEF IInv, BufInv
<1> QED
  BY <1>1, Invariant, PTL

\* A buffer on its way to the card is not the target of a copy.
THEOREM FlushesSafe == Spec => []FlushSafe
<1>1. IInv => FlushSafe
  BY Zenon DEF IInv, BufInv, FlushSafe
<1> QED
  BY <1>1, Invariant, PTL

\* A frame is placed in a buffer that no raw_write task of the session has, a
\* buffer is never given to two of them, and one that an earlier session left
\* behind shares its buffer with none.
THEOREM FramesPlaced == Spec => []PlacedInFreeBuffer
<1>1. IInv => PlacedInFreeBuffer
  <2> SUFFICES ASSUME IInv PROVE PlacedInFreeBuffer
    OBVIOUS
  <2>1. wpc = "copy" => /\ writers[crop] = "none"
                        /\ flush # None => writers[flush] = "none" /\ flush # crop
    BY Zenon DEF IInv, BufInv
  <2>2. orphans \subseteq Bufs /\ \A b \in Bufs : b # None
    BY RawVidAssumption, Zenon DEF IInv, BufTypes, Bufs
  <2>3. \A b \in orphans : writers[b] = "none" /\ flush # b
    BY <2>2, Zenon DEF IInv, StopInv, OrphanInv
  <2> QED
    BY <2>1, <2>3, Zenon DEF PlacedInFreeBuffer
<1> QED
  BY <1>1, Invariant, PTL

\* The raw LiveView request is held exactly while the crop buffers are.
THEOREM LvRequestsPaired == Spec => []LvPaired
<1>1. IInv => LvPaired
  BY Zenon DEF IInv, BufInv
<1> QED
  BY <1>1, Invariant, PTL
=============================================================================
