------------------------------- MODULE SrmMem -------------------------------
(***************************************************************************)
(* SRM memory: the second half of src/exmem.c.  The large buffers that     *)
(* Canon's code uses for raw pictures are taken all at once on the first   *)
(* request and given back all at once when none is used any more.  The     *)
(* shutter is locked meanwhile, but nothing here assumes that this keeps   *)
(* pictures from being taken: one may already be on its way, and others    *)
(* change icu_uilock too.  Calls are made under mem_sem, like those of     *)
(* ShootMem.                                                               *)
(***************************************************************************)
EXTENDS ShootMem

CONSTANTS
    COUNT,      \* length of srm_buffers
    SrmLeast,   \* Canon's code has at least this many buffers
    Wanted      \* numbers of buffers callers ask for; 0 asks for all

\* With a single buffer srm_alloc_internal frees the only one it got and is left
\* with srm_allocated set and nothing a later free could undo.
ASSUME SrmAssumption ==
    COUNT \in Nat /\ SrmLeast \in 2..COUNT /\ Wanted \subseteq Nat

VARIABLES
    srm_allocated,
    srm_buffers,    \* the buffer, whether it is used and whether it is use-after-free
    next_buffer,    \* i of the loop in srm_alloc_internal
    srm_wanted,     \* num_requested_buffers of the call in progress
    srm_own,        \* the buffers each task has been given
    srm_out,        \* Canon's view: for each buffer given out, the older ones given out
    disorder,       \* history: a buffer was freed twice or before an older one
    shutter_lock,   \* UILOCK_SHUTTER, as srm_shutter_lock and srm_shutter_unlock set it
    raced,          \* history: the second check left the lock behind
    job_state       \* lens_info.job_state is not 0: a picture is being taken

srmVars == <<srm_allocated, srm_buffers, next_buffer, srm_wanted, srm_own, srm_out, disorder,
             shutter_lock, raced, job_state>>

shootRest == <<alloc_sem, free_sem, suite_info, shoot_full_suite, own, rscVars, crossed>>

NoBuffer == [buffer |-> 0, used |-> FALSE, use_after_free |-> FALSE]

SrmInit ==
    /\ srm_allocated = FALSE /\ srm_buffers = [i \in 1..COUNT |-> NoBuffer]
    /\ next_buffer = 0 /\ srm_wanted = 0
    /\ srm_own = [t \in Tasks |-> {}]
    /\ srm_out = [b \in {} |-> {}] /\ disorder = FALSE
    /\ shutter_lock = FALSE /\ raced = FALSE /\ job_state = FALSE

-----------------------------------------------------------------------------
(* Pictures                                                                *)

\* The handler of PROP_LAST_JOB_STATE: a picture begins or ends, at any time.
JobState ==
    /\ job_state' = ~ job_state
    /\ UNCHANGED <<shootVars, srm_allocated, srm_buffers, next_buffer, srm_wanted, srm_own,
                   srm_out, disorder, shutter_lock, raced>>

-----------------------------------------------------------------------------
(* srm_alloc_internal                                                      *)

SrmCall(pc) == [pc |-> pc, backup |-> NoSuite]

BuffersAt(I) == {srm_buffers[i].buffer : i \in I}

\* SRM_FreeMemoryResourceFor1stJob for the buffers at the indices I, the lowest first.
FreeToCanon(I) ==
    /\ srm_out' = [b \in DOMAIN srm_out \ BuffersAt(I) |-> srm_out[b] \ BuffersAt(I)]
    /\ disorder' = (disorder \/ \E i \in I :
           \/ srm_buffers[i].buffer \notin DOMAIN srm_out
           \/ ~ srm_out[srm_buffers[i].buffer] \subseteq BuffersAt({j \in I : j < i}))

\* _srm_malloc_suite or _srm_malloc is called.  If the buffers are there, or a
\* picture is being taken, there is nothing to allocate; else lock the shutter.
\* (Bound: a task has one suite of SRM buffers at a time.)
srm_malloc_suite(t, n) ==
    /\ mem_sem = NoTask /\ srm_own[t] = {}
    /\ mem_sem' = t /\ srm_wanted' = n
    /\ IF srm_allocated \/ job_state
       THEN call' = SrmCall("srm_pick") /\ UNCHANGED shutter_lock
       ELSE call' = SrmCall("srm_sleep") /\ shutter_lock' = TRUE
    /\ UNCHANGED <<shootRest, srm_allocated, srm_buffers, next_buffer, srm_own, srm_out, disorder,
                   raced, job_state>>

\* After msleep(50).  The second check returns without unlocking the shutter.
SrmCheck ==
    /\ call.pc = "srm_sleep"
    /\ IF srm_allocated \/ job_state
       THEN /\ call' = SrmCall("srm_pick") /\ raced' = TRUE
            /\ UNCHANGED <<srm_buffers, next_buffer>>
       ELSE /\ call' = SrmCall("srm_loop") /\ next_buffer' = 1
            /\ srm_buffers' = [i \in 1..COUNT |-> NoBuffer]
            /\ UNCHANGED raced
    /\ UNCHANGED <<mem_sem, shootRest, srm_allocated, srm_wanted, srm_own, srm_out, disorder,
                   shutter_lock, job_state>>

\* Canon's code has a buffer and srm_malloc_cbr stores it.
SrmGet ==
    /\ call.pc = "srm_loop" /\ next_buffer <= COUNT
    /\ LET b == Min(1..COUNT \ DOMAIN srm_out) IN
          /\ srm_buffers' = [srm_buffers EXCEPT ![next_buffer].buffer = b]
          /\ srm_out' = Extended(srm_out, b, DOMAIN srm_out)
    /\ next_buffer' = next_buffer + 1
    /\ UNCHANGED <<shootVars, srm_allocated, srm_wanted, srm_own, disorder, shutter_lock,
                   raced, job_state>>

\* The wait times out, because all memory is taken.  Canon's code has locked the
\* shutter itself; the first buffer is freed, and kept as use-after-free if all
\* shoot memory is ours.
SrmTimeout ==
    /\ call.pc = "srm_loop" /\ next_buffer \in (SrmLeast + 1)..COUNT
    /\ shutter_lock' = FALSE /\ raced' = FALSE
    /\ FreeToCanon({1})
    /\ srm_buffers' = [srm_buffers EXCEPT ![1] =
           IF shoot_full_suite # NoSuite THEN [@ EXCEPT !.use_after_free = TRUE] ELSE NoBuffer]
    /\ srm_allocated' = TRUE /\ next_buffer' = 0
    /\ call' = SrmCall("srm_pick")
    /\ UNCHANGED <<mem_sem, shootRest, srm_wanted, srm_own, job_state>>

SrmGotAll ==
    /\ call.pc = "srm_loop" /\ next_buffer > COUNT
    /\ srm_allocated' = TRUE /\ next_buffer' = 0
    /\ call' = SrmCall("srm_pick")
    /\ UNCHANGED <<mem_sem, shootRest, srm_buffers, srm_wanted, srm_own, srm_out, disorder,
                   shutter_lock, raced, job_state>>

-----------------------------------------------------------------------------
(* Handing out and taking back                                             *)

Unused == {i \in 1..COUNT : srm_buffers[i].buffer # 0 /\ ~ srm_buffers[i].used}

\* Up to srm_wanted unused buffers, the last ones first, and the call returns.
SrmPick ==
    /\ call.pc = "srm_pick"
    /\ LET picked == {i \in Unused : srm_wanted = 0
                          \/ Cardinality({j \in Unused : j > i}) < srm_wanted} IN
          /\ srm_buffers' = [i \in 1..COUNT |->
                [srm_buffers[i] EXCEPT !.used = @ \/ i \in picked]]
          /\ srm_own' = [srm_own EXCEPT ![mem_sem] =
                @ \cup {srm_buffers[i].buffer : i \in picked}]
    /\ call' = NoCall /\ mem_sem' = NoTask /\ srm_wanted' = 0
    /\ UNCHANGED <<shootRest, srm_allocated, next_buffer, srm_out, disorder, shutter_lock,
                   raced, job_state>>

\* Mutant: also the one that was already freed.
ToFreeAll == {i \in 1..COUNT : srm_buffers[i].buffer # 0}

\* Where the buffers are that srm_free_internal returns to Canon's code.
ToFree ==
    {i \in 1..COUNT : srm_buffers[i].buffer # 0 /\ ~ srm_buffers[i].use_after_free}

\* Mutant: srm_free_internal leaves the shutter locked.
srm_free_suite_locked(t) ==
    /\ mem_sem = NoTask /\ srm_own[t] # {}
    /\ srm_own' = [srm_own EXCEPT ![t] = {}]
    /\ LET left == [i \in 1..COUNT |->
               [srm_buffers[i] EXCEPT !.used = @ /\ srm_buffers[i].buffer \notin srm_own[t]]]
       IN  IF \E i \in 1..COUNT : left[i].used
           THEN srm_buffers' = left /\ UNCHANGED <<srm_allocated, srm_out, disorder>>
           ELSE /\ FreeToCanon(ToFree)
                /\ srm_buffers' = [i \in 1..COUNT |-> NoBuffer] /\ srm_allocated' = FALSE
    /\ UNCHANGED <<mem_sem, call, shootRest, next_buffer, srm_wanted, shutter_lock, raced, job_state>>

\* _srm_free_suite or _srm_free, with srm_free_internal.
srm_free_suite(t) ==
    /\ mem_sem = NoTask /\ srm_own[t] # {}
    /\ srm_own' = [srm_own EXCEPT ![t] = {}]
    /\ LET left == [i \in 1..COUNT |->
               [srm_buffers[i] EXCEPT !.used = @ /\ srm_buffers[i].buffer \notin srm_own[t]]]
       IN  IF \E i \in 1..COUNT : left[i].used
           THEN /\ srm_buffers' = left
                /\ UNCHANGED <<srm_allocated, srm_out, disorder, shutter_lock, raced>>
           ELSE /\ FreeToCanon(ToFree)
                /\ srm_buffers' = [i \in 1..COUNT |-> NoBuffer]
                /\ shutter_lock' = FALSE /\ raced' = FALSE /\ srm_allocated' = FALSE
    /\ UNCHANGED <<mem_sem, call, shootRest, next_buffer, srm_wanted, job_state>>

SrmCaller == SrmCheck \/ SrmGet \/ SrmTimeout \/ SrmGotAll \/ SrmPick

-----------------------------------------------------------------------------
(* Properties                                                              *)

SrmTypeOK ==
    /\ srm_allocated \in BOOLEAN /\ next_buffer \in 0..(COUNT + 1)
    /\ srm_buffers \in [1..COUNT -> [buffer : 0..COUNT, used : BOOLEAN,
                                     use_after_free : BOOLEAN]]
    /\ srm_wanted \in Wanted \cup {0} /\ srm_own \in [Tasks -> SUBSET (1..COUNT)]
    /\ srm_out \in [DOMAIN srm_out -> SUBSET (1..COUNT)] /\ DOMAIN srm_out \subseteq 1..COUNT
    /\ disorder \in BOOLEAN
    /\ shutter_lock \in BOOLEAN /\ raced \in BOOLEAN /\ job_state \in BOOLEAN

\* A buffer a task uses is its own and is not returned to Canon's code under it
\* (but for the one kept as use-after-free); buffers go back in the order they
\* came ("These buffers must be freed in the same order as allocated"); and as
\* long as srm_allocated is set there is a buffer whose free can reset it.
SrmBuffersSafe ==
    /\ ~ disorder
    /\ \A t \in Tasks : \A b \in srm_own[t] :
          /\ \A u \in Tasks \ {t} : b \notin srm_own[u]
          /\ \E i \in 1..COUNT :
                /\ srm_buffers[i].buffer = b /\ srm_buffers[i].used
                /\ srm_buffers[i].use_after_free \/ b \in DOMAIN srm_out
    /\ srm_allocated => \E i \in 1..COUNT : srm_buffers[i].buffer # 0

\* The shutter is locked while buffers are being taken ("we still need the lock
\* active while allocating"); between calls there are buffers exactly if some
\* task has one, so that a call that found a picture in progress at either check
\* has handed out none; and so a shutter that stays locked has a task whose free
\* will unlock it, unless the second check of srm_alloc_internal left it so.
ShutterReleased ==
    /\ call.pc = "srm_loop" => shutter_lock
    /\ mem_sem = NoTask => (srm_allocated <=> \E t \in Tasks : srm_own[t] # {})
    /\ mem_sem = NoTask /\ shutter_lock => raced \/ \E t \in Tasks : srm_own[t] # {}
=============================================================================
