-------------------------- MODULE ModuleLoadProofs --------------------------
(***************************************************************************)
(* Proofs about the module loader, for any set of modules, with or without *)
(* deinit routines, and any length of the message queue.                   *)
(***************************************************************************)
EXTENDS ModuleLoad, TLAPS

\* The type invariant, in parts: the card and the settings, the module list,
\* the help strings, the shutdown and the history.
CardTypes ==
    lock \in BOOLEAN /\ en \subseteq Modules /\ saved \in Settings /\ live \in Settings

ListTypes ==
    /\ tpc \in {"check", "create", "list", "scan", "link", "register", "init", "loop"}
    /\ todo \subseteq Modules /\ initing \in Modules \cup {None} /\ inits \subseteq Modules
    /\ listed \in BOOLEAN
    /\ valid \in [Modules -> BOOLEAN] /\ enabled \in [Modules -> BOOLEAN]
    /\ error \in [Modules -> BOOLEAN]

HelpTypes ==
    /\ strings \in [Modules -> Kinds] /\ loading \in Modules \cup {None}
    /\ mq \in Seq({"load", "unload"} \X Modules) /\ Len(mq) <= QLen
    /\ freed \subseteq Kinds

ShutTypes ==
    /\ power \in {"on", "off"}
    /\ spc \in {"none", "save", "unload", "call", "clear", "done"}
    /\ abort \in {"no", "first", "second"} /\ left \subseteq Modules
    /\ unloading \in Modules \cup {None} /\ deinits \subseteq Modules
    /\ cancelled \in BOOLEAN /\ refused \in BOOLEAN
    /\ untidy \in {"no", "kept", "yes"} /\ ended \in {"clean", "crash", "faulty"}

\* Modules are about to run or have run, now or before the crash; the lock file
\* must be there.
Covered ==
    \/ ended = "faulty"
    \/ ~ refused /\ (inits # {} \/ tpc \in {"scan", "link", "register", "init"})

\* The lock file and the settings.  The lock file survives a crash until
\* module_task looks at it; a clean shutdown leaves it behind only if autoload is
\* disabled for the next session as well.
LockInv ==
    /\ Running /\ Covered => lock
    /\ spc = "done" /\ untidy = "no" =>
          live = saved /\ tpc \notin {"check", "create"} /\ (lock => saved.disabled)
    /\ ended = "clean" /\ tpc = "check" /\ untidy = "no" /\ lock
          => saved.disabled /\ live.disabled

\* A request k for module m is queued; one is queued behind another.
Queued(k, m) == \E i \in DOMAIN mq : mq[i] = <<k, m>>
Behind(k, l, m) == \E i, j \in DOMAIN mq : i < j /\ mq[i] = <<k, m>> /\ mq[j] = <<l, m>>

\* The requests of the menu are queued while the strings are as they ask for.
\* So the requests to free the strings of a module come behind those to load
\* them, or the other way round, and while it has the default strings there
\* are none to free them.
HelpInv ==
    /\ mq # <<>> \/ loading # None => tpc = "loop"
    /\ \A m \in Modules :
       /\ loading = m => strings[m] = "default"
       /\ strings[m] \in {"elf", "linked"} => ~ Behind("unload", "load", m)
       /\ strings[m] = "none" => ~ Behind("load", "unload", m)
       /\ strings[m] = "default" => ~ Queued("unload", m)

\* A module with linked strings is valid until a shutdown unloads it.
LinkInv ==
    \A m \in Modules :
       /\ strings[m] = "linked" => tpc \in {"init", "loop"} /\ (valid[m] \/ deinits # {})
       /\ strings[m] = "linked" /\ Queued("unload", m) => deinits # {}

\* A module that was deinitialised is marked at once, and does not become valid
\* again.
UnloadInv ==
    /\ \A m \in deinits : /\ tpc \in {"init", "loop"}
                          /\ valid[m] => spc = "clear" /\ unloading = m
    /\ spc \in {"call", "clear"} => unloading \in Modules /\ tpc \in {"init", "loop"}
    /\ spc = "call" => unloading \notin deinits
    /\ spc = "clear" => unloading \in deinits

\* The inductive invariant.
IInv == TypeOK /\ LockInv /\ HelpInv /\ LinkInv /\ UnloadInv /\ FreedStrings

USE DEF card, init, list, help, shut, unload, past

-----------------------------------------------------------------------------
(* Facts about sequences                                                   *)

\* Serving a request removes the first one and moves up the others.
LEMMA TailFacts ==
  ASSUME NEW S, NEW s \in Seq(S), s # <<>>
  PROVE  /\ Head(s) = s[1] /\ Tail(s) \in Seq(S) /\ Len(Tail(s)) = Len(s) - 1
         /\ Len(s) \in Nat /\ DOMAIN s = 1..Len(s) /\ 1 \in DOMAIN s
         /\ \A n \in DOMAIN Tail(s) : /\ n \in Nat /\ n > 0
                                      /\ n + 1 \in DOMAIN s /\ Tail(s)[n] = s[n + 1]
  OBVIOUS

\* Posting adds one at the end.
LEMMA AppendFacts ==
  ASSUME NEW S, NEW s \in Seq(S), NEW e \in S
  PROVE  /\ Append(s, e) \in Seq(S) /\ Len(Append(s, e)) = Len(s) + 1
         /\ Len(s) \in Nat /\ DOMAIN s = 1..Len(s)
         /\ DOMAIN Append(s, e) = DOMAIN s \cup {Len(s) + 1}
         /\ Append(s, e)[Len(s) + 1] = e
         /\ \A n \in DOMAIN s : Append(s, e)[n] = s[n] /\ n < Len(s) + 1
  OBVIOUS

-----------------------------------------------------------------------------
(* The lock file                                                           *)

\* Steps that leave the lock file and the settings alone.
LEMMA LockKept ==
  ASSUME LockInv, UNCHANGED <<lock, saved, live, untidy, ended, cancelled, refused, inits>>,
         spc' = spc \/ spc' \notin {"none", "done"},
         tpc' = tpc \/ tpc' = "loop" \/ tpc \in {"scan", "link", "register"},
         tpc' \in {"check", "create"} => tpc' = tpc
  PROVE  LockInv'
<1>1. /\ spc' = spc \/ (spc' # "none" /\ spc' # "done")
      /\ tpc' = "loop" => tpc' \notin {"scan", "link", "register", "init"}
      /\ tpc \in {"scan", "link", "register"} => tpc \in {"scan", "link", "register", "init"}
  BY SMT
<1>2. Running' => Running
  BY <1>1, Zenon DEF Running
<1>3. Covered' => Covered
  BY <1>1, Zenon DEF Covered
<1>4. spc' = "done" /\ untidy = "no" =>
        live = saved /\ tpc' \notin {"check", "create"} /\ (lock => saved.disabled)
  BY <1>1, Zenon DEF LockInv
<1>5. ended = "clean" /\ tpc' = "check" /\ untidy = "no" /\ lock
        => saved.disabled /\ live.disabled
  BY Zenon DEF LockInv
<1> QED
  BY <1>2, <1>3, <1>4, <1>5, Zenon DEF LockInv

\* Power on and off.
LEMMA LockPower == TypeOK /\ LockInv /\ (Boot \/ Crash \/ PowerOff) => LockInv'
<1> SUFFICES ASSUME TypeOK, LockInv, Boot \/ Crash \/ PowerOff PROVE LockInv'
  OBVIOUS
<1>1. CASE Boot
  <2>1. UNCHANGED <<card, shut, past, tpc, inits>> /\ live' = saved
    BY <1>1, Zenon DEF Boot
  <2>2. (Running' => Running) /\ (Covered' => Covered)
    BY <2>1, Zenon DEF Running, Covered
  <2> QED
    BY <2>1, <2>2, Zenon DEF LockInv
<1>2. CASE Crash
  <2>1. /\ UNCHANGED card /\ tpc' = "check" /\ spc' = "none" /\ inits' = {}
        /\ ended' = IF Running /\ (ended = "faulty" \/ (inits # {} /\ ~ refused))
                    THEN "faulty" ELSE "crash"
    BY <1>2, Zenon DEF Crash, ClearMemory
  <2>2. /\ spc' # "done" /\ ended' # "clean"
        /\ ended' = "faulty" => Running /\ (ended = "faulty" \/ (inits # {} /\ ~ refused))
        /\ tpc' \notin {"scan", "link", "register", "init"}
    BY <2>1, SMT
  <2>3. Covered' => Running /\ Covered
    BY <2>1, <2>2, Zenon DEF Covered
  <2> QED
    BY <2>1, <2>2, <2>3, Zenon DEF LockInv
<1>3. CASE PowerOff
  <2>1. /\ UNCHANGED <<card, untidy>> /\ tpc' = "check" /\ spc' = "none" /\ inits' = {}
        /\ ended' = "clean" /\ live' = saved /\ spc = "done"
    BY <1>3, Zenon DEF PowerOff, ClearMemory
  <2>2. /\ spc' # "done" /\ ended' # "faulty"
        /\ tpc' \notin {"scan", "link", "register", "init"}
    BY <2>1, SMT
  <2>3. ~ Covered'
    BY <2>1, <2>2, Zenon DEF Covered
  <2> QED
    BY <2>1, <2>2, <2>3, Zenon DEF LockInv
<1> QED
  BY <1>1, <1>2, <1>3, Zenon

\* module_task: it goes on from the check with the lock file or makes it.
LEMMA LockLoad == TypeOK /\ LockInv /\ LoadTask => LockInv'
<1> SUFFICES ASSUME TypeOK, LockInv, LoadTask PROVE LockInv'
  OBVIOUS
<1>1. CASE CheckLockfile
  <2>1. /\ tpc = "check" /\ UNCHANGED <<card, live, shut, past, inits>>
        /\ tpc' \in {"list", "loop", "create"}
    BY <1>1, SMT DEF CheckLockfile, Task
  <2>2. tpc' # "check" /\ tpc' \notin {"scan", "link", "register", "init"}
    BY <2>1, SMT
  <2>3. ~ (spc = "done" /\ untidy = "no")
    BY <2>1, Zenon DEF LockInv
  <2>4. (Running' => Running) /\ (Covered' => Covered)
    BY <2>1, <2>2, Zenon DEF Running, Covered
  <2> QED
    BY <2>1, <2>2, <2>3, <2>4, Zenon DEF LockInv
<1>2. CASE CreateLock
  <2>1. /\ tpc = "create" /\ tpc' = "scan" /\ UNCHANGED <<saved, live, shut, untidy, ended>>
        /\ \E ok \in BOOLEAN : lock' = (lock \/ ok)
        /\ refused' = ~ lock'
    BY <1>2, Zenon DEF CreateLock, Task
  <2>2. (lock => lock') /\ (~ refused' => lock')
    BY <2>1, Zenon
  <2>3. tpc' # "check"
    BY <2>1, SMT
  <2>4. ~ (spc = "done" /\ untidy = "no")
    BY <2>1, Zenon DEF LockInv
  <2>5. (Running' => Running) /\ (Covered' => Covered \/ lock')
    BY <2>1, <2>2, Zenon DEF Running, Covered
  <2> QED
    BY <2>1, <2>2, <2>3, <2>4, <2>5, Zenon DEF LockInv
<1>3. CASE Scan
  <2>1. /\ UNCHANGED <<card, live, shut, past, inits>>
        /\ tpc' = "loop" \/ (tpc = "scan" /\ tpc' = "link")
    BY <1>3, SMT DEF Scan, Task
  <2>2. /\ tpc' \notin {"check", "create"}
        /\ tpc' = "loop" \/ tpc \in {"scan", "link", "register"}
    BY <2>1, SMT
  <2> QED
    BY <2>1, <2>2, LockKept, Zenon
<1>4. ASSUME NEW bad \in SUBSET Modules, NEW ok \in BOOLEAN, Link(bad, ok) PROVE LockInv'
  <2>1. /\ UNCHANGED <<card, live, shut, past, inits>>
        /\ tpc = "link" /\ tpc' \in {"loop", "register"}
    BY <1>4, Zenon DEF Link, Task
  <2>2. tpc \in {"scan", "link", "register"} /\ tpc' \notin {"check", "create"}
    BY <2>1, SMT
  <2> QED
    BY <2>1, <2>2, LockKept, Zenon
<1>5. ASSUME NEW insane \in SUBSET Modules, Register(insane) PROVE LockInv'
  <2>1. UNCHANGED <<card, live, shut, past, inits>> /\ tpc = "register" /\ tpc' = "init"
    BY <1>5, Zenon DEF Register, Task
  <2>2. tpc \in {"scan", "link", "register"} /\ tpc' \notin {"check", "create"}
    BY <2>1, SMT
  <2> QED
    BY <2>1, <2>2, LockKept, Zenon
<1>6. ASSUME NEW m \in Modules, InitModule(m) PROVE LockInv'
  <2>1. UNCHANGED <<card, live, shut, past>> /\ tpc = "init" /\ tpc' = tpc
    BY <1>6, Zenon DEF InitModule, Task
  <2>2. tpc' # "check" /\ tpc \in {"scan", "link", "register", "init"}
    BY <2>1, SMT
  <2>3. (Running' => Running) /\ (Covered' => Covered)
    BY <2>1, <2>2, Zenon DEF Running, Covered
  <2> QED
    BY <2>1, <2>2, <2>3, Zenon DEF LockInv
<1>7. CASE \/ \E m \in Modules : LoadStrings(m) \/ UnloadStrings(m)
           \/ \E ok \in BOOLEAN : InitReturns(ok) \/ StringsLoaded(ok)
           \/ Loaded
  <2>1. UNCHANGED <<card, live, shut, past, inits>> /\ (tpc' = tpc \/ tpc' = "loop")
    BY <1>7, Zenon DEF LoadStrings, UnloadStrings, StringsLoaded, InitReturns, Loaded
  <2>2. tpc' = "loop" => tpc' \notin {"check", "create"}
    BY SMT
  <2> QED
    BY <2>1, <2>2, LockKept, Zenon
<1> QED
  BY <1>1, <1>2, <1>3, <1>4, <1>5, <1>6, <1>7, Zenon DEF LoadTask

\* The user: the settings change only in a session that is past the check, and
\* before the shutdown.
LEMMA LockMenu == TypeOK /\ LockInv /\ Menu => LockInv'
<1> SUFFICES ASSUME TypeOK, LockInv, Menu PROVE LockInv'
  OBVIOUS
<1>1. CASE \E m \in Modules : MenuSelected(m) \/ MenuIdle(m) \/ ToggleModule(m)
  <2>1. UNCHANGED <<lock, saved, live, shut, past, tpc, inits>>
    BY <1>1, Zenon DEF MenuSelected, MenuIdle, ToggleModule
  <2> QED
    BY <2>1, LockKept, Zenon
<1>2. CASE ToggleSetting \/ SaveConfig
  <2>1. spc = "none" /\ tpc # "check" /\ UNCHANGED <<lock, shut, past, tpc, inits>>
    BY <1>2, Zenon DEF ToggleSetting, SaveConfig, MenuUsed
  <2>2. spc # "done"
    BY <2>1, SMT
  <2>3. (Running' => Running) /\ (Covered' => Covered)
    BY <2>1, Zenon DEF Running, Covered
  <2> QED
    BY <2>1, <2>2, <2>3, Zenon DEF LockInv
<1> QED
  BY <1>1, <1>2, Zenon DEF Menu

\* Shutdown.
LEMMA LockShutdown == TypeOK /\ LockInv /\ Shutdown => LockInv'
<1> SUFFICES ASSUME TypeOK, LockInv, Shutdown PROVE LockInv'
  OBVIOUS
<1>1. CASE \/ ShutdownRequest \/ AbortRequest \/ DeinitModule \/ DeinitReturns
           \/ \E m \in Modules : UnloadModule(m)
  <2>1. /\ UNCHANGED <<card, live, past, cancelled, tpc, inits>>
        /\ spc' = spc \/ spc' \in {"save", "unload", "call", "clear"}
    BY <1>1, Zenon DEF ShutdownRequest, AbortRequest, UnloadModule, DeinitModule, DeinitReturns
  <2>2. spc' = spc \/ spc' \notin {"none", "done"}
    BY <2>1, SMT
  <2> QED
    BY <2>1, <2>2, LockKept, Zenon
<1>2. CASE ShutdownSave
  <2>1. /\ UNCHANGED <<lock, live, past, cancelled, tpc>> /\ spc' = "unload"
        /\ saved' = saved \/ saved' = live
    BY <1>2, SMT DEF ShutdownSave
  <2>2. spc' # "none" /\ spc' # "done"
    BY <2>1, SMT
  <2>3. ~ Running'
    BY <2>2, Zenon DEF Running
  <2> QED
    BY <2>1, <2>2, <2>3, Zenon DEF LockInv
<1>3. CASE RemoveLock
  <2>1. /\ UNCHANGED <<saved, live, tpc, ended>> /\ (spc' = "done" \/ spc' = "unload")
        /\ untidy' = CASE live # saved \/ tpc \in {"check", "create"} -> "yes"
                       [] live = saved /\ tpc \notin {"check", "create"} /\ lock' /\ ~ live.disabled -> "kept"
                       [] OTHER -> "no"
    BY <1>3, Zenon DEF RemoveLock, ShutdownReturns
  <2>2. spc' # "none"
    BY <2>1, SMT
  <2>3. untidy' = "no" => /\ live = saved /\ tpc \notin {"check", "create"} /\ tpc # "check"
                          /\ lock' => live.disabled
    <3>1. "yes" # "no" /\ "kept" # "no"
      BY SMT
    <3>2. CASE live # saved \/ tpc \in {"check", "create"}
      <4>1. untidy' = "yes"
        BY <2>1, <3>2, SMT
      <4> QED
        BY <3>1, <4>1, Zenon
    <3>3. CASE live = saved /\ tpc \notin {"check", "create"} /\ lock' /\ ~ live.disabled
      <4>1. untidy' = "kept"
        BY <2>1, <3>3, SMT
      <4> QED
        BY <3>1, <4>1, Zenon
    <3> QED
      BY <3>2, <3>3, Zenon
  <2>4. ~ Running'
    BY <2>2, Zenon DEF Running
  <2> QED
    BY <2>1, <2>3, <2>4, Zenon DEF LockInv
<1>4. CASE Cancel
  <2>1. UNCHANGED <<card, live, past, tpc>> /\ spc' = "none" /\ cancelled' = TRUE
    BY <1>4, Zenon DEF Cancel
  <2>2. spc' # "done" /\ ~ Running'
    BY <2>1, SMT DEF Running
  <2> QED
    BY <2>1, <2>2, Zenon DEF LockInv
<1> QED
  BY <1>1, <1>2, <1>3, <1>4, Zenon DEF Shutdown

\* The lock file and the settings keep in step, whoever acts.
LEMMA LockStep == TypeOK /\ LockInv /\ [Next]_vars => LockInv'
<1>1. LockInv /\ UNCHANGED vars => LockInv'
  <2> SUFFICES ASSUME LockInv, UNCHANGED vars PROVE LockInv'
    OBVIOUS
  <2>1. UNCHANGED <<card, live, past, shut, tpc, inits>>
    BY Zenon DEF vars
  <2> QED
    BY <2>1, LockKept, Zenon
<1> QED
  BY <1>1, LockPower, LockLoad, LockMenu, LockShutdown, Zenon DEF Next

-----------------------------------------------------------------------------
(* Types                                                                   *)

\* The parts make up the type invariant.
LEMMA TypesSplit == TypeOK <=> CardTypes /\ ListTypes /\ HelpTypes /\ ShutTypes
<1>1. TypeOK => CardTypes /\ ListTypes /\ HelpTypes /\ ShutTypes
  <2> SUFFICES ASSUME TypeOK PROVE CardTypes /\ ListTypes /\ HelpTypes /\ ShutTypes
    OBVIOUS
  <2>1. CardTypes /\ ListTypes /\ HelpTypes
    BY Zenon DEF TypeOK, CardTypes, ListTypes, HelpTypes
  <2>2. ShutTypes
    BY Zenon DEF TypeOK, ShutTypes
  <2> QED
    BY <2>1, <2>2, Zenon
<1>2. CardTypes /\ ListTypes /\ HelpTypes /\ ShutTypes => TypeOK
  <2> SUFFICES ASSUME CardTypes, ListTypes, HelpTypes, ShutTypes PROVE TypeOK
    OBVIOUS
  <2>1. {valid, enabled, error} \subseteq [Modules -> BOOLEAN]
    BY Zenon DEF ListTypes
  <2>2. {cancelled, refused} \subseteq BOOLEAN
    BY Zenon DEF ShutTypes
  <2>3. {inits, deinits, left} \subseteq SUBSET Modules
    BY Zenon DEF ListTypes, ShutTypes
  <2>4. {initing, unloading} \subseteq Modules \cup {None}
    BY Zenon DEF ListTypes, ShutTypes
  <2> QED
    BY <2>1, <2>2, <2>3, <2>4, Zenon DEF TypeOK, CardTypes, ListTypes, HelpTypes, ShutTypes
<1> QED
  BY <1>1, <1>2, Zenon

\* The card and the settings.
LEMMA CardTypesStep == TypeOK /\ Next => CardTypes'
<1> SUFFICES ASSUME TypeOK, Next PROVE CardTypes'
  OBVIOUS
<1>0. CardTypes
  BY TypesSplit, Zenon
<1>1. CASE UNCHANGED card /\ (live' = live \/ live' = saved)
  BY <1>0, <1>1, Zenon DEF CardTypes
<1>2. CASE UNCHANGED <<lock, en>> /\ live' = live /\ (saved' = saved \/ saved' = live)
  BY <1>0, <1>2, Zenon DEF CardTypes
<1>3. CASE UNCHANGED <<en, saved, live>> /\ lock' \in BOOLEAN
  BY <1>0, <1>3, Zenon DEF CardTypes
<1>4. CASE Boot \/ Crash \/ PowerOff
  BY <1>1, <1>4, Zenon DEF Boot, Crash, PowerOff
<1>5. CASE LoadTask
  <2>1. CASE CreateLock
    BY <1>3, <2>1, SMT DEF CreateLock
  <2> QED
    BY <1>1, <1>5, <2>1, Zenon DEF LoadTask, CheckLockfile, Scan, Link, Register, InitModule,
       InitReturns, Loaded, LoadStrings, UnloadStrings, StringsLoaded
<1>6. CASE Menu
  <2>1. ASSUME NEW m \in Modules, ToggleModule(m) PROVE CardTypes'
    BY <1>0, <2>1, SMT DEF ToggleModule, CardTypes
  <2>2. CASE ToggleSetting
    <3>1. /\ UNCHANGED card
          /\ live' = [live EXCEPT !.disabled = ~ @] \/ live' = [live EXCEPT !.ignore = ~ @]
      BY <2>2, Zenon DEF ToggleSetting
    <3>2. live \in [disabled : BOOLEAN, ignore : BOOLEAN]
      BY <1>0, Zenon DEF CardTypes, Settings
    <3>3. live' \in Settings
      <4>1. ASSUME NEW b \in BOOLEAN
            PROVE  /\ [live EXCEPT !.disabled = b] \in Settings
                   /\ [live EXCEPT !.ignore = b] \in Settings
        BY <3>2, SMT DEF Settings
      <4>2. (~ live.disabled) \in BOOLEAN /\ (~ live.ignore) \in BOOLEAN
        BY Zenon
      <4> QED
        BY <3>1, <4>1, <4>2, Zenon
    <3> QED
      BY <1>0, <3>1, <3>3, Zenon DEF CardTypes
  <2>3. CASE SaveConfig
    BY <1>2, <2>3, Zenon DEF SaveConfig
  <2> QED
    BY <1>1, <1>6, <2>1, <2>2, <2>3, Zenon DEF Menu, MenuSelected, MenuIdle
<1>7. CASE Shutdown
  <2>1. CASE ShutdownSave
    BY <1>2, <2>1, SMT DEF ShutdownSave
  <2>2. CASE RemoveLock
    <3>1. UNCHANGED <<en, saved, live>> /\ (lock' = lock \/ lock' = FALSE)
      BY <2>2, Zenon DEF RemoveLock, ShutdownReturns
    <3> QED
      BY <1>0, <1>3, <3>1, Zenon DEF CardTypes
  <2> QED
    BY <1>1, <1>7, <2>1, <2>2, Zenon DEF Shutdown, ShutdownRequest, AbortRequest,
       UnloadModule, DeinitModule, DeinitReturns, Cancel
<1> QED
  BY <1>4, <1>5, <1>6, <1>7, Zenon DEF Next

\* The module list.
LEMMA ListTypesStep == TypeOK /\ UnloadInv /\ Next => ListTypes'
<1> SUFFICES ASSUME TypeOK, UnloadInv, Next PROVE ListTypes'
  OBVIOUS
<1>0. ListTypes
  BY TypesSplit, Zenon
<1>1. CASE UNCHANGED <<tpc, init, list>>
  BY <1>0, <1>1, Zenon DEF ListTypes
<1>2. CASE Crash \/ PowerOff
  <2>1. ClearMemory
    BY <1>2, Zenon DEF Crash, PowerOff
  <2> QED
    BY <2>1, Zenon DEF ClearMemory, ListTypes
<1>3. CASE CheckLockfile \/ CreateLock
  <2>1. UNCHANGED <<init, list>> /\ tpc' \in {"list", "loop", "create", "scan"}
    BY <1>3, SMT DEF CheckLockfile, CreateLock
  <2> QED
    BY <1>0, <2>1, Zenon DEF ListTypes
<1>4. CASE Scan
  <2>1. /\ UNCHANGED <<init, valid, error>> /\ tpc' \in {"loop", "link"}
        /\ UNCHANGED list \/ (listed' = TRUE /\ enabled' = [m \in Modules |-> m \in en])
    BY <1>4, Zenon DEF Scan
  <2>2. CASE UNCHANGED list
    BY <1>0, <2>1, <2>2, Zenon DEF ListTypes
  <2>3. CASE listed' = TRUE /\ enabled' = [m \in Modules |-> m \in en]
    <3>1. enabled' \in [Modules -> BOOLEAN]
      BY <2>3, SMT
    <3> QED
      BY <1>0, <2>1, <2>3, <3>1, Zenon DEF ListTypes
  <2> QED
    BY <2>1, <2>2, <2>3, Zenon
<1>5. ASSUME NEW bad \in SUBSET Modules, NEW ok \in BOOLEAN, Link(bad, ok) PROVE ListTypes'
  <2>1. /\ UNCHANGED <<init, listed, enabled>> /\ valid' = enabled
        /\ error' = [m \in Modules |-> enabled[m] /\ (m \in bad \/ ~ ok)]
        /\ tpc' \in {"loop", "register"}
    BY <1>5, Zenon DEF Link
  <2>2. error' \in [Modules -> BOOLEAN]
    BY <2>1, Zenon
  <2> QED
    BY <1>0, <2>1, <2>2, Zenon DEF ListTypes
<1>6. ASSUME NEW insane \in SUBSET Modules, Register(insane) PROVE ListTypes'
  <2>1. /\ UNCHANGED <<initing, inits, listed, valid, enabled>> /\ tpc' = "init"
        /\ todo' = Modules
        /\ error' = [m \in Modules |-> error[m] \/ (Good(m) /\ m \in insane)]
    BY <1>6, Zenon DEF Register
  <2>2. error' \in [Modules -> BOOLEAN]
    BY <2>1, Zenon
  <2> QED
    BY <1>0, <2>1, <2>2, Zenon DEF ListTypes
<1>7. CASE (\E m \in Modules : InitModule(m)) \/ (\E ok \in BOOLEAN : InitReturns(ok)) \/ Loaded
  <2>1. ASSUME NEW m \in Modules, InitModule(m) PROVE ListTypes'
    <3>1. /\ UNCHANGED <<tpc, list>>
          /\ \/ initing' = m /\ inits' = inits \cup {m} /\ UNCHANGED todo
             \/ todo' = todo \ {m} /\ UNCHANGED <<initing, inits>>
      BY <2>1, Zenon DEF InitModule
    <3>2. todo' \subseteq Modules /\ initing' \in Modules \cup {None} /\ inits' \subseteq Modules
      BY <1>0, <3>1, Zenon DEF ListTypes
    <3> QED
      BY <1>0, <3>1, <3>2, Zenon DEF ListTypes
  <2>2. ASSUME NEW ok \in BOOLEAN, InitReturns(ok) PROVE ListTypes'
    <3>1. /\ UNCHANGED <<tpc, inits, listed, valid, enabled>>
          /\ todo' = todo \ {initing} /\ initing' = None /\ initing # None
          /\ error' = [error EXCEPT ![initing] = @ \/ ~ ok]
      BY <2>2, Zenon DEF InitReturns
    <3>2. error' \in [Modules -> BOOLEAN]
      BY <1>0, <3>1, SMT DEF ListTypes
    <3>3. todo' \subseteq Modules
      BY <1>0, <3>1, Zenon DEF ListTypes
    <3> QED
      BY <1>0, <3>1, <3>2, <3>3, Zenon DEF ListTypes
  <2>3. CASE Loaded
    <3>1. UNCHANGED <<init, list>> /\ tpc' = "loop"
      BY <2>3, Zenon DEF Loaded
    <3> QED
      BY <1>0, <3>1, Zenon DEF ListTypes
  <2> QED
    BY <1>7, <2>1, <2>2, <2>3, Zenon
<1>8. ASSUME NEW m \in Modules, ToggleModule(m) PROVE ListTypes'
  <2>1. UNCHANGED <<tpc, init, listed, valid, error>> /\ enabled' = [enabled EXCEPT ![m] = ~ @]
    BY <1>8, Zenon DEF ToggleModule
  <2>2. enabled' \in [Modules -> BOOLEAN]
    BY <1>0, <2>1, SMT DEF ListTypes
  <2> QED
    BY <1>0, <2>1, <2>2, Zenon DEF ListTypes
<1>9. CASE DeinitReturns
  <2>1. /\ UNCHANGED <<tpc, init, listed, enabled, error>>
        /\ valid' = [valid EXCEPT ![unloading] = FALSE] /\ spc = "clear"
    BY <1>9, Zenon DEF DeinitReturns
  <2>2. unloading \in Modules
    BY <2>1, Zenon DEF UnloadInv
  <2>3. valid' \in [Modules -> BOOLEAN]
    BY <1>0, <2>1, <2>2, SMT DEF ListTypes
  <2> QED
    BY <1>0, <2>1, <2>3, Zenon DEF ListTypes
<1>10. CASE LoadTask
  BY <1>1, <1>3, <1>4, <1>5, <1>6, <1>7, <1>10, Zenon DEF LoadTask, LoadStrings,
     UnloadStrings, StringsLoaded
<1>11. CASE Menu
  BY <1>1, <1>8, <1>11, Zenon DEF Menu, MenuSelected, MenuIdle, ToggleSetting, SaveConfig
<1>12. CASE Shutdown
  BY <1>1, <1>9, <1>12, Zenon DEF Shutdown, ShutdownRequest, AbortRequest, ShutdownSave,
     UnloadModule, DeinitModule, RemoveLock, ShutdownReturns, Cancel
<1> QED
  BY <1>1, <1>2, <1>10, <1>11, <1>12, Zenon DEF Next, Boot

\* module_mq never holds more requests than it has places for.
LEMMA PostTypes ==
  ASSUME HelpTypes, NEW msg \in {"load", "unload"} \X Modules, Post(msg)
  PROVE  mq' \in Seq({"load", "unload"} \X Modules) /\ Len(mq') <= QLen
<1>1. mq \in Seq({"load", "unload"} \X Modules) /\ Len(mq) <= QLen
  BY Zenon DEF HelpTypes
<1>2. CASE Len(mq) < QLen /\ mq' = Append(mq, msg)
  <2>1. /\ mq' \in Seq({"load", "unload"} \X Modules)
        /\ Len(mq') = Len(mq) + 1 /\ Len(mq) \in Nat
    BY <1>1, <1>2, AppendFacts, SMT
  <2> QED
    BY <1>2, <2>1, ModuleLoadAssumption, SMT
<1>3. CASE mq' = mq
  BY <1>1, <1>3, Zenon
<1> QED
  BY <1>2, <1>3, Zenon DEF Post

\* Serving a request leaves the others in it.
LEMMA MessageTypes ==
  ASSUME HelpTypes, mq # <<>>, mq' = Tail(mq)
  PROVE  mq' \in Seq({"load", "unload"} \X Modules) /\ Len(mq') <= QLen
<1>1. mq \in Seq({"load", "unload"} \X Modules) /\ Len(mq) <= QLen
  BY Zenon DEF HelpTypes
<1>2. /\ mq' \in Seq({"load", "unload"} \X Modules)
      /\ Len(mq') = Len(mq) - 1 /\ Len(mq) \in Nat
  BY <1>1, TailFacts, Zenon
<1> QED
  BY <1>1, <1>2, ModuleLoadAssumption, SMT

\* The help strings.
LEMMA HelpTypesStep == TypeOK /\ Next => HelpTypes'
<1> SUFFICES ASSUME TypeOK, Next PROVE HelpTypes'
  OBVIOUS
<1>0. HelpTypes /\ {"none", "default", "elf", "linked"} = Kinds
  BY TypesSplit, Zenon DEF Kinds
<1>1. CASE UNCHANGED help
  BY <1>0, <1>1, Zenon DEF HelpTypes
<1>2. CASE Crash \/ PowerOff
  <2>1. /\ strings' = [m \in Modules |-> "none"]
        /\ mq' = <<>> /\ loading' = None /\ freed' = {}
    BY <1>2, Zenon DEF Crash, PowerOff, ClearMemory
  <2>2. mq' \in Seq({"load", "unload"} \X Modules) /\ Len(mq') <= QLen
    BY <2>1, ModuleLoadAssumption, SMT
  <2> QED
    BY <1>0, <2>1, <2>2, Zenon DEF HelpTypes
<1>3. ASSUME NEW insane \in SUBSET Modules, Register(insane) PROVE HelpTypes'
  <2>1. /\ UNCHANGED <<mq, loading, freed>>
        /\ strings' = [m \in Modules |-> IF Good(m) THEN "linked" ELSE strings[m]]
    BY <1>3, Zenon DEF Register
  <2>2. strings' \in [Modules -> Kinds]
    BY <1>0, <2>1, SMT DEF HelpTypes
  <2> QED
    BY <1>0, <2>1, <2>2, Zenon DEF HelpTypes
<1>4. ASSUME NEW m \in Modules, LoadStrings(m) PROVE HelpTypes'
  <2>1. /\ mq # <<>> /\ mq' = Tail(mq) /\ UNCHANGED freed
        /\ \/ strings' = [strings EXCEPT ![m] = "default"] /\ loading' = m
           \/ UNCHANGED <<strings, loading>>
    BY <1>4, Zenon DEF LoadStrings, Message
  <2>2. strings' \in [Modules -> Kinds]
    BY <1>0, <2>1, SMT DEF HelpTypes
  <2>3. loading' \in Modules \cup {None}
    BY <1>0, <2>1, Zenon DEF HelpTypes
  <2> QED
    BY <1>0, <2>1, <2>2, <2>3, MessageTypes, Zenon DEF HelpTypes
<1>5. ASSUME NEW ok \in BOOLEAN, StringsLoaded(ok) PROVE HelpTypes'
  <2>1. /\ loading \in Modules /\ UNCHANGED <<mq, freed>> /\ loading' = None
        /\ strings' = IF ok THEN [strings EXCEPT ![loading] = "elf"] ELSE strings
    BY <1>0, <1>5, Zenon DEF StringsLoaded, HelpTypes
  <2>2. strings' \in [Modules -> Kinds]
    BY <1>0, <2>1, SMT DEF HelpTypes
  <2> QED
    BY <1>0, <2>1, <2>2, Zenon DEF HelpTypes
<1>6. ASSUME NEW m \in Modules, UnloadStrings(m) PROVE HelpTypes'
  <2>1. /\ mq # <<>> /\ mq' = Tail(mq) /\ UNCHANGED loading
        /\ strings' = [strings EXCEPT ![m] = "none"]
        /\ freed' = freed \cup ({strings[m]} \ {"none"})
    BY <1>6, Zenon DEF UnloadStrings, Message
  <2>2. strings' \in [Modules -> Kinds] /\ strings[m] \in Kinds
    BY <1>0, <2>1, SMT DEF HelpTypes
  <2> QED
    BY <1>0, <2>1, <2>2, MessageTypes, Zenon DEF HelpTypes
<1>7. ASSUME NEW m \in Modules, MenuSelected(m) \/ MenuIdle(m) PROVE HelpTypes'
  <2>1. UNCHANGED <<strings, loading, freed>> /\ (Post(<<"load", m>>) \/ Post(<<"unload", m>>))
    BY <1>7, Zenon DEF MenuSelected, MenuIdle
  <2>2. /\ <<"load", m>> \in {"load", "unload"} \X Modules
        /\ <<"unload", m>> \in {"load", "unload"} \X Modules
    BY SMT
  <2> QED
    BY <1>0, <2>1, <2>2, PostTypes, Zenon DEF HelpTypes
<1>8. CASE LoadTask
  BY <1>1, <1>3, <1>4, <1>5, <1>6, <1>8, Zenon DEF LoadTask, CheckLockfile, CreateLock, Scan,
     Link, InitModule, InitReturns, Loaded
<1>9. CASE Menu
  BY <1>1, <1>7, <1>9, Zenon DEF Menu, ToggleModule, ToggleSetting, SaveConfig
<1>10. CASE Shutdown
  BY <1>1, <1>10, Zenon DEF Shutdown, ShutdownRequest, AbortRequest, ShutdownSave,
     UnloadModule, DeinitModule, DeinitReturns, RemoveLock, ShutdownReturns, Cancel
<1> QED
  BY <1>1, <1>2, <1>8, <1>9, <1>10, Zenon DEF Next, Boot

\* The shutdown and the history.
LEMMA ShutTypesStep == TypeOK /\ UnloadInv /\ Next => ShutTypes'
<1> SUFFICES ASSUME TypeOK, UnloadInv, Next PROVE ShutTypes'
  OBVIOUS
<1>0. ShutTypes
  BY TypesSplit, Zenon
<1>1. CASE UNCHANGED <<power, shut, past>>
  BY <1>0, <1>1, Zenon DEF ShutTypes
<1>2. CASE Boot
  BY <1>0, <1>2, Zenon DEF Boot, ShutTypes
<1>3. CASE Crash \/ PowerOff
  <2>1. /\ ClearMemory /\ power' = "off" /\ UNCHANGED untidy
        /\ ended' \in {"clean", "crash", "faulty"}
    BY <1>3, SMT DEF Crash, PowerOff
  <2> QED
    BY <1>0, <2>1, Zenon DEF ClearMemory, ShutTypes
<1>4. CASE CreateLock
  <2>1. UNCHANGED <<power, shut, untidy, ended>> /\ refused' = ~ lock'
    BY <1>4, Zenon DEF CreateLock
  <2>2. refused' \in BOOLEAN
    BY <2>1, Zenon
  <2> QED
    BY <1>0, <2>1, <2>2, Zenon DEF ShutTypes
<1>5. CASE LoadTask
  BY <1>1, <1>4, <1>5, Zenon DEF LoadTask, CheckLockfile, Scan, Link, Register, InitModule,
     InitReturns, Loaded, LoadStrings, UnloadStrings, StringsLoaded
<1>6. CASE Menu
  BY <1>1, <1>6, Zenon DEF Menu, MenuSelected, MenuIdle, ToggleModule, ToggleSetting, SaveConfig
<1>7. CASE ShutdownRequest \/ AbortRequest \/ ShutdownSave \/ Cancel
  <2>1. /\ UNCHANGED <<power, unloading, deinits, past>>
        /\ spc' \in {"save", "unload", "none"}
        /\ abort' = abort \/ abort' = "first"
        /\ left' = left \/ left' = Modules
        /\ cancelled' = cancelled \/ cancelled' = TRUE
    BY <1>7, Zenon DEF ShutdownRequest, AbortRequest, ShutdownSave, Cancel
  <2>2. abort' \in {"no", "first", "second"} /\ left' \subseteq Modules /\ cancelled' \in BOOLEAN
    BY <1>0, <2>1, Zenon DEF ShutTypes
  <2> QED
    BY <1>0, <2>1, <2>2, Zenon DEF ShutTypes
<1>8. ASSUME NEW m \in Modules, UnloadModule(m) PROVE ShutTypes'
  <2>1. /\ UNCHANGED <<power, abort, deinits, cancelled, past>>
        /\ \/ spc' = "call" /\ unloading' = m /\ UNCHANGED left
           \/ left' = left \ {m} /\ UNCHANGED <<spc, unloading>>
    BY <1>8, Zenon DEF UnloadModule
  <2>2. left' \subseteq Modules /\ unloading' \in Modules \cup {None}
    BY <1>0, <2>1, Zenon DEF ShutTypes
  <2> QED
    BY <1>0, <2>1, <2>2, Zenon DEF ShutTypes
<1>9. CASE DeinitModule
  <2>1. /\ UNCHANGED <<power, abort, unload, cancelled, past>> /\ spc = "call"
        /\ spc' = "clear" /\ deinits' = deinits \cup {unloading}
    BY <1>9, Zenon DEF DeinitModule
  <2>2. unloading \in Modules
    BY <2>1, Zenon DEF UnloadInv
  <2>3. deinits' \subseteq Modules
    BY <1>0, <2>1, <2>2, Zenon DEF ShutTypes
  <2> QED
    BY <1>0, <2>1, <2>3, Zenon DEF ShutTypes
<1>10. CASE DeinitReturns
  <2>1. /\ UNCHANGED <<power, abort, deinits, cancelled, past>> /\ spc' = "unload"
        /\ left' = left \ {unloading} /\ unloading' = None
    BY <1>10, Zenon DEF DeinitReturns
  <2>2. left' \subseteq Modules
    BY <1>0, <2>1, Zenon DEF ShutTypes
  <2> QED
    BY <1>0, <2>1, <2>2, Zenon DEF ShutTypes
<1>11. CASE RemoveLock
  <2>1. /\ UNCHANGED <<power, unloading, deinits, cancelled, refused, ended>>
        /\ \/ spc' = "unload" /\ left' = Modules /\ abort' = "second"
           \/ spc' = "done" /\ UNCHANGED <<left, abort>>
    BY <1>11, Zenon DEF RemoveLock, ShutdownReturns
  <2>2. untidy' \in {"no", "kept", "yes"}
    BY <1>11, SMT DEF RemoveLock, ShutdownReturns
  <2>3. left' \subseteq Modules /\ abort' \in {"no", "first", "second"}
    BY <1>0, <2>1, Zenon DEF ShutTypes
  <2> QED
    BY <1>0, <2>1, <2>2, <2>3, Zenon DEF ShutTypes
<1> QED
  BY <1>1, <1>2, <1>3, <1>5, <1>6, <1>7, <1>8, <1>9, <1>10, <1>11, Zenon DEF Next, Shutdown

\* Every step keeps the types.
LEMMA TypesStep == TypeOK /\ UnloadInv /\ [Next]_vars => TypeOK'
<1> SUFFICES ASSUME TypeOK, UnloadInv, [Next]_vars PROVE TypeOK'
  OBVIOUS
<1>1. CASE Next
  <2>1. CardTypes' /\ ListTypes' /\ HelpTypes' /\ ShutTypes'
    BY <1>1, CardTypesStep, ListTypesStep, HelpTypesStep, ShutTypesStep, Zenon
  <2> QED
    BY <2>1, TypesSplit, PTL
<1>2. CASE UNCHANGED vars
  <2>1. UNCHANGED <<card, power, live, tpc, init, list, help, shut, past>>
    BY <1>2, Zenon DEF vars
  <2>2. CardTypes /\ ListTypes /\ HelpTypes /\ ShutTypes
    BY TypesSplit, Zenon
  <2>3. CardTypes' /\ ListTypes' /\ HelpTypes'
    BY <2>1, <2>2, Zenon DEF CardTypes, ListTypes, HelpTypes
  <2>4. ShutTypes'
    BY <2>1, <2>2, Zenon DEF ShutTypes
  <2> QED
    BY <2>3, <2>4, TypesSplit, PTL
<1> QED
  BY <1>1, <1>2, Zenon

-----------------------------------------------------------------------------
(* The queue of the menu's requests                                        *)

\* Nothing is behind a request that is not queued, and an empty queue has none.
LEMMA QueueFacts ==
  /\ \A k, l, m : Behind(k, l, m) => Queued(k, m) /\ Queued(l, m)
  /\ mq = <<>> => \A k, m : ~ Queued(k, m)
<1>1. \A k, l, m : Behind(k, l, m) => Queued(k, m) /\ Queued(l, m)
  BY Zenon DEF Behind, Queued
<1>2. mq = <<>> => DOMAIN mq = {}
  BY SMT
<1> QED
  BY <1>1, <1>2, Zenon DEF Queued

\* A queue that is left alone.
LEMMA QueueKept ==
  ASSUME mq' = mq
  PROVE  /\ \A k, m : Queued(k, m)' => Queued(k, m)
         /\ \A k, l, m : Behind(k, l, m)' => Behind(k, l, m)
  BY Zenon DEF Queued, Behind

\* A request that is posted is behind those that are queued.
LEMMA QueuePosted ==
  ASSUME HelpTypes, NEW x \in {"load", "unload"}, NEW n \in Modules, Post(<<x, n>>)
  PROVE  /\ \A k, m : Queued(k, m)' => Queued(k, m) \/ (k = x /\ m = n)
         /\ \A k, l, m : Behind(k, l, m)' => Behind(k, l, m) \/ (l = x /\ m = n)
<1>1. CASE mq' = mq
  BY <1>1, QueueKept, Zenon
<1>2. CASE mq' = Append(mq, <<x, n>>)
  <2> DEFINE z == Len(mq) + 1
  <2>1. <<x, n>> \in {"load", "unload"} \X Modules
    BY SMT
  <2>2. /\ DOMAIN mq' = DOMAIN mq \cup {z} /\ mq'[z] = <<x, n>>
        /\ \A i \in DOMAIN mq : mq'[i] = mq[i] /\ ~ (z < i)
        /\ ~ (z < z)
    BY <1>2, <2>1, AppendFacts, SMT DEF HelpTypes
  <2> HIDE DEF z
  <2>3. \A k, m : mq'[z] = <<k, m>> => k = x /\ m = n
    BY <2>2, SMT
  <2>4. \A k, m : Queued(k, m)' => Queued(k, m) \/ (k = x /\ m = n)
    BY <2>2, <2>3, Zenon DEF Queued
  <2>5. ASSUME NEW k, NEW l, NEW m, Behind(k, l, m)', ~ (l = x /\ m = n)
        PROVE  Behind(k, l, m)
    <3>1. PICK i, j \in DOMAIN mq' : i < j /\ mq'[i] = <<k, m>> /\ mq'[j] = <<l, m>>
      BY <2>5, Zenon DEF Behind
    <3>2. j \in DOMAIN mq
      BY <2>2, <2>3, <2>5, <3>1, Zenon
    <3>3. i \in DOMAIN mq
      BY <2>2, <3>1, <3>2, Zenon
    <3> QED
      BY <2>2, <3>1, <3>2, <3>3, Zenon DEF Behind
  <2> QED
    BY <2>4, <2>5, Zenon
<1> QED
  BY <1>1, <1>2, Zenon DEF Post

\* What is queued when the first request is served was behind it.
LEMMA QueueServed ==
  ASSUME HelpTypes, mq # <<>>, mq' = Tail(mq)
  PROVE  /\ \A k, m : Queued(k, m)' => Queued(k, m)
         /\ \A k, l, m : Behind(k, l, m)' => Behind(k, l, m)
         /\ \A k, l, m : Head(mq) = <<k, m>> /\ Queued(l, m)' => Behind(k, l, m)
         /\ \A k, m : Head(mq) = <<k, m>> => Queued(k, m)
<1>1. /\ Head(mq) = mq[1] /\ 1 \in DOMAIN mq
      /\ \A i \in DOMAIN mq' : i + 1 \in DOMAIN mq /\ mq'[i] = mq[i + 1] /\ 1 < i + 1
      /\ \A i, j \in DOMAIN mq' : i < j => i + 1 < j + 1
  BY TailFacts, SMT DEF HelpTypes
<1>2. \A k, m : Queued(k, m)' => Queued(k, m)
  BY <1>1, Zenon DEF Queued
<1>3. ASSUME NEW k, NEW l, NEW m, Behind(k, l, m)' PROVE Behind(k, l, m)
  <2>1. PICK i, j \in DOMAIN mq' : i < j /\ mq'[i] = <<k, m>> /\ mq'[j] = <<l, m>>
    BY <1>3, Zenon DEF Behind
  <2>2. /\ i + 1 \in DOMAIN mq /\ j + 1 \in DOMAIN mq /\ i + 1 < j + 1
        /\ mq[i + 1] = <<k, m>> /\ mq[j + 1] = <<l, m>>
    BY <1>1, <2>1, Zenon
  <2> QED
    BY <2>2, Zenon DEF Behind
<1>4. \A k, l, m : Head(mq) = <<k, m>> /\ Queued(l, m)' => Behind(k, l, m)
  BY <1>1, Zenon DEF Queued, Behind
<1>5. \A k, m : Head(mq) = <<k, m>> => Queued(k, m)
  BY <1>1, Zenon DEF Queued
<1> QED
  BY <1>2, <1>3, <1>4, <1>5, Zenon

-----------------------------------------------------------------------------
(* The help strings                                                        *)

\* Strings and requests are left alone.
LEMMA HelpKept ==
  ASSUME HelpInv, UNCHANGED <<strings, mq, loading>>, tpc = "loop" => tpc' = "loop"
  PROVE  HelpInv'
  BY QueueKept, Zenon DEF HelpInv

\* The requests and the reading of a file end with the session.
LEMMA HelpCleared == ClearMemory => HelpInv' /\ LinkInv' /\ UnloadInv' /\ FreedStrings'
<1> SUFFICES ASSUME ClearMemory PROVE HelpInv' /\ LinkInv' /\ UnloadInv' /\ FreedStrings'
  OBVIOUS
<1>1. /\ mq' = <<>> /\ loading' = None /\ freed' = {} /\ deinits' = {} /\ spc' = "none"
      /\ \A m \in Modules : strings'[m] = "none"
  BY Zenon DEF ClearMemory
<1>2. /\ \A m \in Modules : strings'[m] \notin {"elf", "linked"} /\ strings'[m] # "default"
      /\ \A m \in Modules : strings'[m] # "linked"
      /\ DOMAIN mq' = {}
  BY <1>1, SMT
<1>3. \A k, l, m : ~ Behind(k, l, m)'
  BY <1>2, Zenon DEF Behind
<1>4. HelpInv'
  BY <1>1, <1>2, <1>3, ModuleLoadAssumption, Zenon DEF HelpInv
<1>5. LinkInv'
  BY <1>1, <1>2, Zenon DEF LinkInv
<1>6. FreedStrings'
  BY <1>1, Zenon DEF FreedStrings
<1>7. UnloadInv'
  <2>1. spc' \notin {"call", "clear"} /\ spc' # "call" /\ spc' # "clear"
    BY <1>1, SMT
  <2> QED
    BY <1>1, <2>1, Zenon DEF UnloadInv
<1> QED
  BY <1>4, <1>5, <1>6, <1>7, Zenon

\* A module is linked before there are requests.
LEMMA HelpRegister ==
  ASSUME HelpInv, NEW insane \in SUBSET Modules, Register(insane)
  PROVE  HelpInv'
<1>1. tpc # "loop" /\ UNCHANGED <<mq, loading>>
      /\ strings' = [m \in Modules |-> IF Good(m) THEN "linked" ELSE strings[m]]
  BY SMT DEF Register, Task
<1>2. mq = <<>> /\ loading = None
  BY <1>1, Zenon DEF HelpInv
<1>3. \A k, l, m : ~ Queued(k, m)' /\ ~ Behind(k, l, m)'
  BY <1>1, <1>2, QueueFacts, QueueKept, Zenon
<1> QED
  BY <1>1, <1>2, <1>3, ModuleLoadAssumption, Zenon DEF HelpInv

\* The default strings are put in when no request to free is left.
LEMMA HelpLoad ==
  ASSUME TypeOK, HelpInv, NEW m \in Modules, LoadStrings(m)
  PROVE  HelpInv'
<1>1. /\ HelpTypes /\ tpc = "loop" /\ tpc' = tpc /\ loading = None
      /\ mq # <<>> /\ Head(mq) = <<"load", m>> /\ mq' = Tail(mq)
      /\ IF strings[m] = "none"
         THEN strings' = [strings EXCEPT ![m] = "default"] /\ loading' = m
         ELSE UNCHANGED <<strings, loading>>
  BY TypesSplit, Zenon DEF LoadStrings, Message, Task
<1>2. /\ \A k, n : Queued(k, n)' => Queued(k, n)
      /\ \A k, l, n : Behind(k, l, n)' => Behind(k, l, n)
      /\ \A l : Queued(l, m)' => Behind("load", l, m)
  BY <1>1, QueueServed, Zenon
<1>3. CASE strings[m] = "none"
  <2>1. /\ strings'[m] = "default" /\ loading' = m
        /\ \A n \in Modules : n # m => strings'[n] = strings[n]
        /\ strings'[m] # "none" /\ strings'[m] \notin {"elf", "linked"}
    BY <1>1, <1>3, SMT DEF HelpTypes
  <2>2. ~ Queued("unload", m)'
    BY <1>2, <1>3, Zenon DEF HelpInv
  <2> QED
    BY <1>1, <1>2, <2>1, <2>2, Zenon DEF HelpInv
<1>4. CASE strings[m] # "none"
  BY <1>1, <1>2, <1>4, Zenon DEF HelpInv
<1> QED
  BY <1>3, <1>4, Zenon

\* The strings from the file take the place of the default ones.
LEMMA HelpLoaded ==
  ASSUME TypeOK, HelpInv, NEW ok \in BOOLEAN, StringsLoaded(ok)
  PROVE  HelpInv'
<1>1. /\ HelpTypes /\ loading \in Modules /\ loading' = None /\ UNCHANGED <<mq, tpc>>
      /\ strings' = IF ok THEN [strings EXCEPT ![loading] = "elf"] ELSE strings
  BY TypesSplit, Zenon DEF StringsLoaded, HelpTypes
<1>2. tpc = "loop" /\ ~ Queued("unload", loading)
  BY <1>1, ModuleLoadAssumption, Zenon DEF HelpInv
<1>3. /\ \A k, n : Queued(k, n)' => Queued(k, n)
      /\ \A k, l, n : Behind(k, l, n)' => Behind(k, l, n)
  BY <1>1, QueueKept, Zenon
<1>4. CASE ok
  <2>1. /\ strings'[loading] = "elf" /\ strings'[loading] # "none"
        /\ strings'[loading] # "default"
        /\ \A n \in Modules : n # loading => strings'[n] = strings[n]
    BY <1>1, <1>4, SMT DEF HelpTypes
  <2>2. \A n : n = loading => ~ Behind("unload", "load", n)'
    BY <1>2, <1>3, QueueFacts, Zenon
  <2> QED
    BY <1>1, <1>2, <1>3, <2>1, <2>2, ModuleLoadAssumption, Zenon DEF HelpInv
<1>5. CASE ~ ok
  <2>1. strings' = strings
    BY <1>1, <1>5, Zenon
  <2> QED
    BY <1>1, <1>2, <1>3, <2>1, ModuleLoadAssumption, Zenon DEF HelpInv
<1> QED
  BY <1>4, <1>5, Zenon

\* A request to free the strings finds such strings as a file or a linked
\* module has, or none at all ...
LEMMA UnloadFinds ==
  ASSUME TypeOK, HelpInv, NEW m \in Modules, UnloadStrings(m)
  PROVE  strings[m] \in {"elf", "linked", "none"} /\ Queued("unload", m)
<1>1. HelpTypes /\ mq # <<>> /\ Head(mq) = <<"unload", m>> /\ mq' = Tail(mq)
  BY TypesSplit, Zenon DEF UnloadStrings, Message
<1>2. Queued("unload", m)
  BY <1>1, QueueServed, Zenon
<1>3. strings[m] # "default"
  BY <1>2, Zenon DEF HelpInv
<1> QED
  BY <1>1, <1>2, <1>3, SMT DEF HelpTypes, Kinds

\* ... and leaves no request to load before one to free.
LEMMA HelpUnload ==
  ASSUME TypeOK, HelpInv, NEW m \in Modules, UnloadStrings(m)
  PROVE  HelpInv'
<1>1. /\ HelpTypes /\ tpc = "loop" /\ tpc' = tpc /\ loading = None /\ loading' = None
      /\ mq # <<>> /\ Head(mq) = <<"unload", m>> /\ mq' = Tail(mq)
      /\ strings' = [strings EXCEPT ![m] = "none"]
  BY TypesSplit, Zenon DEF UnloadStrings, Message, Task
<1>2. /\ \A k, n : Queued(k, n)' => Queued(k, n)
      /\ \A k, l, n : Behind(k, l, n)' => Behind(k, l, n)
      /\ \A l : Queued(l, m)' => Behind("unload", l, m)
  BY <1>1, QueueServed, Zenon
<1>3. /\ strings'[m] = "none" /\ strings'[m] \notin {"elf", "linked"}
      /\ strings'[m] # "default"
      /\ \A n \in Modules : n # m => strings'[n] = strings[n]
  BY <1>1, SMT DEF HelpTypes
<1>4. ~ Behind("load", "unload", m)'
  <2>1. CASE strings[m] = "none"
    BY <1>2, <2>1, Zenon DEF HelpInv
  <2>2. CASE strings[m] \in {"elf", "linked"}
    <3>1. ~ Queued("load", m)'
      BY <1>2, <2>2, Zenon DEF HelpInv
    <3> QED
      BY <3>1, Zenon DEF Behind, Queued
  <2> QED
    BY <2>1, <2>2, UnloadFinds, Zenon
<1> QED
  BY <1>1, <1>2, <1>3, <1>4, ModuleLoadAssumption, Zenon DEF HelpInv

\* The menu asks for strings where there are none, and to free them where there
\* are some that are not the default.
LEMMA HelpMenu ==
  ASSUME TypeOK, HelpInv, NEW m \in Modules, MenuSelected(m) \/ MenuIdle(m)
  PROVE  HelpInv'
<1>1. HelpTypes /\ tpc = "loop" /\ tpc' = tpc /\ UNCHANGED <<strings, loading>>
  BY TypesSplit, Zenon DEF MenuSelected, MenuIdle, Shown, Task
<1>2. /\ "load" \in {"load", "unload"} /\ "unload" \in {"load", "unload"}
      /\ "load" # "unload"
  BY SMT
<1>3. CASE MenuSelected(m)
  <2>1. strings[m] = "none" /\ Post(<<"load", m>>)
    BY <1>3, Zenon DEF MenuSelected
  <2>2. /\ \A k, n : Queued(k, n)' => Queued(k, n) \/ (k = "load" /\ n = m)
        /\ \A k, l, n : Behind(k, l, n)' => Behind(k, l, n) \/ (l = "load" /\ n = m)
    BY <1>1, <1>2, <2>1, QueuePosted, Zenon
  <2>3. strings[m] \notin {"elf", "linked"}
    BY <2>1, SMT
  <2> QED
    BY <1>1, <1>2, <2>1, <2>2, <2>3, Zenon DEF HelpInv
<1>4. CASE MenuIdle(m)
  <2>1. strings[m] # "none" /\ strings[m] # "default" /\ Post(<<"unload", m>>)
    BY <1>4, Zenon DEF MenuIdle
  <2>2. /\ \A k, n : Queued(k, n)' => Queued(k, n) \/ (k = "unload" /\ n = m)
        /\ \A k, l, n : Behind(k, l, n)' => Behind(k, l, n) \/ (l = "unload" /\ n = m)
    BY <1>1, <1>2, <2>1, QueuePosted, Zenon
  <2> QED
    BY <1>1, <1>2, <2>1, <2>2, Zenon DEF HelpInv
<1> QED
  BY <1>3, <1>4, Zenon

\* The requests and the strings keep in step, whoever acts.
LEMMA HelpStep == IInv /\ Next => HelpInv'
<1> SUFFICES ASSUME IInv, Next PROVE HelpInv'
  OBVIOUS
<1>0. TypeOK /\ HelpInv
  BY Zenon DEF IInv
<1>1. CASE Boot \/ Shutdown
  <2>1. UNCHANGED <<help, tpc>>
    BY <1>1, Zenon DEF Boot, Shutdown, ShutdownRequest, AbortRequest, ShutdownSave,
       UnloadModule, DeinitModule, DeinitReturns, RemoveLock, ShutdownReturns, Cancel
  <2> QED
    BY <1>0, <2>1, HelpKept, Zenon
<1>2. CASE Crash \/ PowerOff
  BY <1>2, HelpCleared, Zenon DEF Crash, PowerOff
<1>3. CASE \/ CheckLockfile \/ CreateLock \/ Scan
           \/ \E bad \in SUBSET Modules, ok \in BOOLEAN : Link(bad, ok)
           \/ \E m \in Modules : InitModule(m)
           \/ \E ok \in BOOLEAN : InitReturns(ok)
           \/ Loaded
  <2>1. UNCHANGED help /\ (tpc # "loop" \/ tpc' = tpc)
    BY <1>3, SMT DEF CheckLockfile, CreateLock, Scan, Link, InitModule, InitReturns, Loaded, Task
  <2> QED
    BY <1>0, <2>1, HelpKept, Zenon
<1>4. CASE (\E m \in Modules : ToggleModule(m)) \/ ToggleSetting \/ SaveConfig
  <2>1. UNCHANGED <<help, tpc>>
    BY <1>4, Zenon DEF ToggleModule, ToggleSetting, SaveConfig
  <2> QED
    BY <1>0, <2>1, HelpKept, Zenon
<1>5. CASE LoadTask
  BY <1>0, <1>3, <1>5, HelpRegister, HelpLoad, HelpLoaded, HelpUnload, Zenon DEF LoadTask
<1>6. CASE Menu
  BY <1>0, <1>4, <1>6, HelpMenu, Zenon DEF Menu
<1> QED
  BY <1>1, <1>2, <1>5, <1>6, Zenon DEF Next

-----------------------------------------------------------------------------
(* Linked modules                                                          *)

\* No module is linked, made valid or unloaded.
LEMMA LinkKept ==
  ASSUME LinkInv, UNCHANGED <<valid, deinits>>,
         tpc \in {"init", "loop"} => tpc' \in {"init", "loop"},
         \A m \in Modules : strings'[m] = "linked" => strings[m] = "linked",
         \A m \in Modules : strings[m] = "linked" /\ Queued("unload", m)'
                              => Queued("unload", m) \/ ~ valid[m]
  PROVE  LinkInv'
  BY Zenon DEF LinkInv

\* Where module_task is decides which modules can be linked or unloaded.
LEMMA LinkEarly ==
  ASSUME LinkInv, UnloadInv, tpc \notin {"init", "loop"}
  PROVE  /\ deinits = {} /\ spc \notin {"call", "clear"}
         /\ \A m \in Modules : strings[m] # "linked"
  BY Zenon DEF LinkInv, UnloadInv

\* module_task.
LEMMA LinkLoad == IInv /\ LoadTask => LinkInv'
<1> SUFFICES ASSUME IInv, LoadTask PROVE LinkInv'
  OBVIOUS
<1>0. TypeOK /\ HelpTypes /\ HelpInv /\ LinkInv /\ UnloadInv
  BY TypesSplit, Zenon DEF IInv
<1>1. CASE CheckLockfile \/ CreateLock \/ Scan
  <2>1. tpc \notin {"init", "loop"} /\ UNCHANGED <<valid, deinits, strings, mq>>
    BY <1>1, SMT DEF CheckLockfile, CreateLock, Scan, Task
  <2> QED
    BY <1>0, <2>1, QueueKept, LinkKept, Zenon
<1>2. ASSUME NEW bad \in SUBSET Modules, NEW ok \in BOOLEAN, Link(bad, ok) PROVE LinkInv'
  <2>1. tpc \notin {"init", "loop"} /\ UNCHANGED <<deinits, strings>>
    BY <1>2, SMT DEF Link, Task
  <2> QED
    BY <1>0, <2>1, LinkEarly, Zenon DEF LinkInv
<1>3. ASSUME NEW insane \in SUBSET Modules, Register(insane) PROVE LinkInv'
  <2>1. /\ tpc \notin {"init", "loop"} /\ tpc # "loop" /\ UNCHANGED <<deinits, valid, mq>>
        /\ tpc' \in {"init", "loop"}
        /\ strings' = [m \in Modules |-> IF Good(m) THEN "linked" ELSE strings[m]]
    BY <1>3, SMT DEF Register, Task
  <2>2. \A m \in Modules : strings'[m] = "linked" => valid'[m]
    BY <1>0, <2>1, LinkEarly, Zenon DEF Good
  <2>3. mq = <<>>
    BY <1>0, <2>1, Zenon DEF HelpInv
  <2>4. \A m : ~ Queued("unload", m)'
    BY <2>1, <2>3, QueueFacts, QueueKept, Zenon
  <2> QED
    BY <1>0, <2>1, <2>2, <2>4, LinkEarly, Zenon DEF LinkInv
<1>4. CASE (\E m \in Modules : InitModule(m)) \/ (\E ok \in BOOLEAN : InitReturns(ok)) \/ Loaded
  <2>1. (tpc' = tpc \/ tpc' \in {"init", "loop"}) /\ UNCHANGED <<valid, deinits, strings, mq>>
    BY <1>4, Zenon DEF InitModule, InitReturns, Loaded
  <2> QED
    BY <1>0, <2>1, QueueKept, LinkKept, Zenon
<1>5. ASSUME NEW m \in Modules, LoadStrings(m) \/ UnloadStrings(m) PROVE LinkInv'
  <2>1. /\ mq # <<>> /\ mq' = Tail(mq) /\ UNCHANGED <<valid, deinits, tpc>>
        /\ \/ strings' = [strings EXCEPT ![m] = "default"] \/ UNCHANGED strings
           \/ strings' = [strings EXCEPT ![m] = "none"]
    BY <1>5, Zenon DEF LoadStrings, UnloadStrings, Message
  <2>2. \A n \in Modules : strings'[n] = "linked" => strings[n] = "linked"
    BY <1>0, <2>1, SMT DEF HelpTypes
  <2> QED
    BY <1>0, <2>1, <2>2, QueueServed, LinkKept, Zenon
<1>6. ASSUME NEW ok \in BOOLEAN, StringsLoaded(ok) PROVE LinkInv'
  <2>1. /\ UNCHANGED <<mq, valid, deinits, tpc>>
        /\ strings' = [strings EXCEPT ![loading] = "elf"] \/ UNCHANGED strings
    BY <1>6, Zenon DEF StringsLoaded
  <2>2. \A n \in Modules : strings'[n] = "linked" => strings[n] = "linked"
    BY <1>0, <2>1, SMT DEF HelpTypes
  <2> QED
    BY <1>0, <2>1, <2>2, QueueKept, LinkKept, Zenon
<1> QED
  BY <1>1, <1>2, <1>3, <1>4, <1>5, <1>6, Zenon DEF LoadTask

\* The menu asks to free linked strings only of a module that was unloaded.
LEMMA LinkMenu == IInv /\ Menu => LinkInv'
<1> SUFFICES ASSUME IInv, Menu PROVE LinkInv'
  OBVIOUS
<1>0. TypeOK /\ HelpTypes /\ LinkInv
  BY TypesSplit, Zenon DEF IInv
<1>1. UNCHANGED <<valid, deinits, tpc, strings>>
  BY Zenon DEF Menu, MenuSelected, MenuIdle, ToggleModule, ToggleSetting, SaveConfig
<1>2. "load" \in {"load", "unload"} /\ "unload" \in {"load", "unload"} /\ "load" # "unload"
  BY SMT
<1>3. ASSUME NEW m \in Modules, MenuSelected(m) \/ MenuIdle(m) PROVE LinkInv'
  <2>1. ~ valid[m] /\ (Post(<<"load", m>>) \/ Post(<<"unload", m>>))
    BY <1>3, Zenon DEF MenuSelected, MenuIdle, Shown
  <2>2. \A n \in Modules : Queued("unload", n)' => Queued("unload", n) \/ ~ valid[n]
    BY <1>0, <1>2, <2>1, QueuePosted, Zenon
  <2> QED
    BY <1>0, <1>1, <2>2, LinkKept, Zenon
<1>4. CASE (\E m \in Modules : ToggleModule(m)) \/ ToggleSetting \/ SaveConfig
  <2>1. mq' = mq
    BY <1>4, Zenon DEF ToggleModule, ToggleSetting, SaveConfig
  <2> QED
    BY <1>0, <1>1, <2>1, QueueKept, LinkKept, Zenon
<1> QED
  BY <1>3, <1>4, Zenon DEF Menu

\* The shutdown unloads linked modules, which then are not valid.
LEMMA LinkShutdown == IInv /\ Shutdown => LinkInv'
<1> SUFFICES ASSUME IInv, Shutdown PROVE LinkInv'
  OBVIOUS
<1>0. LinkInv /\ UnloadInv /\ ListTypes
  BY TypesSplit, Zenon DEF IInv
<1>1. UNCHANGED <<tpc, help>>
  BY Zenon DEF Shutdown, ShutdownRequest, AbortRequest, ShutdownSave, UnloadModule, DeinitModule,
     DeinitReturns, RemoveLock, ShutdownReturns, Cancel
<1>2. \A m \in Modules : Queued("unload", m)' => Queued("unload", m)
  BY <1>1, QueueKept, Zenon
<1>3. CASE DeinitModule
  <2>1. deinits' # {} /\ UNCHANGED valid
    BY <1>3, Zenon DEF DeinitModule
  <2> QED
    BY <1>0, <1>1, <2>1, Zenon DEF LinkInv
<1>4. CASE DeinitReturns
  <2>1. deinits # {} /\ UNCHANGED deinits
    BY <1>0, <1>4, Zenon DEF DeinitReturns, UnloadInv
  <2> QED
    BY <1>0, <1>1, <2>1, Zenon DEF LinkInv
<1>5. CASE \/ ShutdownRequest \/ AbortRequest \/ ShutdownSave \/ RemoveLock \/ Cancel
           \/ \E m \in Modules : UnloadModule(m)
  <2>1. UNCHANGED <<valid, deinits>>
    BY <1>5, Zenon DEF ShutdownRequest, AbortRequest, ShutdownSave, UnloadModule, RemoveLock,
       ShutdownReturns, Cancel
  <2> QED
    BY <1>0, <1>1, <1>2, <2>1, LinkKept, Zenon
<1> QED
  BY <1>3, <1>4, <1>5, Zenon DEF Shutdown

\* Whoever acts, a module with linked strings was linked and not unloaded, or
\* there was a shutdown.
LEMMA LinkStep == IInv /\ Next => LinkInv'
<1>1. IInv /\ Boot => LinkInv'
  <2> SUFFICES ASSUME IInv, Boot PROVE LinkInv'
    OBVIOUS
  <2>1. LinkInv /\ UNCHANGED <<valid, deinits, tpc, strings, mq>>
    BY Zenon DEF IInv, Boot
  <2> QED
    BY <2>1, QueueKept, LinkKept, Zenon
<1>2. Crash \/ PowerOff => LinkInv'
  BY HelpCleared, Zenon DEF Crash, PowerOff
<1> QED
  BY <1>1, <1>2, LinkLoad, LinkMenu, LinkShutdown, Zenon DEF Next

\* No module is deinitialised or made valid.
LEMMA UnloadKept ==
  ASSUME UnloadInv, UNCHANGED <<valid, deinits, unloading>>,
         tpc \in {"init", "loop"} => tpc' \in {"init", "loop"},
         spc' = spc \/ {spc, spc'} \cap {"call", "clear"} = {}
  PROVE  UnloadInv'
<1>1. CASE spc' = spc
  BY <1>1, Zenon DEF UnloadInv
<1>2. CASE {spc, spc'} \cap {"call", "clear"} = {}
  <2>1. /\ spc # "clear" /\ spc' # "call" /\ spc' # "clear"
        /\ spc' \notin {"call", "clear"}
    BY <1>2, Zenon
  <2> QED
    BY <2>1, Zenon DEF UnloadInv
<1> QED
  BY <1>1, <1>2, Zenon

\* module_task makes modules valid before any is deinitialised.
LEMMA UnloadLoad == IInv /\ LoadTask => UnloadInv'
<1> SUFFICES ASSUME IInv, LoadTask PROVE UnloadInv'
  OBVIOUS
<1>0. LinkInv /\ UnloadInv
  BY Zenon DEF IInv
<1>1. UNCHANGED <<deinits, spc, unloading>>
  BY Zenon DEF LoadTask, CheckLockfile, CreateLock, Scan, Link, Register, InitModule, InitReturns,
     Loaded, LoadStrings, UnloadStrings, StringsLoaded
<1>2. CASE \/ CheckLockfile \/ CreateLock \/ Scan
           \/ \E bad \in SUBSET Modules, ok \in BOOLEAN : Link(bad, ok)
           \/ \E insane \in SUBSET Modules : Register(insane)
  <2>1. tpc \notin {"init", "loop"}
    BY <1>2, SMT DEF CheckLockfile, CreateLock, Scan, Link, Register, Task
  <2>2. deinits = {} /\ spc \notin {"call", "clear"} /\ spc # "call" /\ spc # "clear"
    BY <1>0, <2>1, LinkEarly, Zenon
  <2> QED
    BY <1>1, <2>2, Zenon DEF UnloadInv
<1>3. CASE \/ \E m \in Modules : InitModule(m) \/ LoadStrings(m) \/ UnloadStrings(m)
           \/ \E ok \in BOOLEAN : InitReturns(ok) \/ StringsLoaded(ok)
           \/ Loaded
  <2>1. UNCHANGED valid /\ (tpc' = tpc \/ tpc' = "loop")
    BY <1>3, Zenon DEF InitModule, InitReturns, Loaded, LoadStrings, UnloadStrings, StringsLoaded
  <2> QED
    BY <1>0, <1>1, <2>1, UnloadKept, Zenon
<1> QED
  BY <1>2, <1>3, Zenon DEF LoadTask

\* _module_unload_all calls deinit of a valid module only, and marks it after that.
LEMMA UnloadShutdown == IInv /\ Shutdown => UnloadInv'
<1> SUFFICES ASSUME IInv, Shutdown PROVE UnloadInv'
  OBVIOUS
<1>0. LinkInv /\ UnloadInv /\ ListTypes
  BY TypesSplit, Zenon DEF IInv
<1>1. tpc' = tpc
  BY Zenon DEF Shutdown, ShutdownRequest, AbortRequest, ShutdownSave, UnloadModule, DeinitModule,
     DeinitReturns, RemoveLock, ShutdownReturns, Cancel
<1>2. CASE ShutdownRequest \/ AbortRequest \/ ShutdownSave \/ RemoveLock \/ Cancel
  <2>1. /\ UNCHANGED <<valid, deinits, unloading>>
        /\ spc \in {"none", "save", "unload", "done"} /\ spc' \in {"none", "save", "unload", "done"}
    BY <1>2, Zenon DEF ShutdownRequest, AbortRequest, ShutdownSave, RemoveLock, ShutdownReturns,
       Cancel
  <2>2. {spc, spc'} \cap {"call", "clear"} = {}
    BY <2>1, SMT
  <2> QED
    BY <1>0, <1>1, <2>1, <2>2, UnloadKept, Zenon
<1>3. ASSUME NEW m \in Modules, UnloadModule(m) PROVE UnloadInv'
  <2>1. UNCHANGED <<valid, deinits>> /\ spc = "unload"
    BY <1>3, Zenon DEF UnloadModule
  <2>2. CASE Good(m) /\ strings[m] = "linked" /\ spc' = "call" /\ unloading' = m
    <3>1. spc # "clear" /\ spc' # "clear"
      BY <2>1, <2>2, SMT
    <3>2. tpc \in {"init", "loop"}
      BY <1>0, <2>2, Zenon DEF LinkInv
    <3>3. \A n \in deinits : tpc \in {"init", "loop"} /\ ~ valid[n]
      BY <1>0, <3>1, Zenon DEF UnloadInv
    <3>4. m \notin deinits
      BY <2>2, <3>3, Zenon DEF Good
    <3> QED
      BY <1>1, <2>1, <2>2, <3>1, <3>2, <3>3, <3>4, Zenon DEF UnloadInv
  <2>3. CASE UNCHANGED <<spc, unloading>>
    BY <1>0, <1>1, <2>1, <2>3, UnloadKept, Zenon
  <2> QED
    BY <1>3, <2>2, <2>3, Zenon DEF UnloadModule
<1>4. CASE DeinitModule
  <2>1. /\ UNCHANGED <<valid, unloading>> /\ spc = "call" /\ spc' = "clear"
        /\ deinits' = deinits \cup {unloading}
    BY <1>4, Zenon DEF DeinitModule
  <2>2. spc # "clear" /\ spc' # "call"
    BY <2>1, SMT
  <2>3. unloading \in Modules /\ tpc \in {"init", "loop"}
    BY <1>0, <2>1, Zenon DEF UnloadInv
  <2>4. \A n \in deinits : ~ valid[n]
    BY <1>0, <2>2, Zenon DEF UnloadInv
  <2>5. unloading \in deinits' /\ \A n \in deinits' : n \in deinits \/ n = unloading
    BY <2>1, Zenon
  <2> QED
    BY <1>1, <2>1, <2>2, <2>3, <2>4, <2>5, Zenon DEF UnloadInv
<1>5. CASE DeinitReturns
  <2>1. /\ UNCHANGED deinits /\ spc = "clear" /\ spc' = "unload"
        /\ valid' = [valid EXCEPT ![unloading] = FALSE]
    BY <1>5, Zenon DEF DeinitReturns
  <2>2. spc' # "clear" /\ spc' # "call" /\ spc' \notin {"call", "clear"}
    BY <2>1, SMT
  <2>3. \A n \in deinits : tpc \in {"init", "loop"} /\ (valid[n] => unloading = n)
    BY <1>0, Zenon DEF UnloadInv
  <2>4. /\ unloading \in Modules /\ ~ valid'[unloading]
        /\ \A n \in Modules : valid'[n] => valid[n]
    BY <1>0, <2>1, SMT DEF UnloadInv, ListTypes
  <2>5. deinits \subseteq Modules
    BY TypesSplit, Zenon DEF IInv, ShutTypes
  <2>6. \A n \in deinits : ~ valid'[n]
    BY <2>3, <2>4, <2>5, Zenon
  <2> QED
    BY <1>1, <2>1, <2>2, <2>3, <2>6, Zenon DEF UnloadInv
<1> QED
  BY <1>2, <1>3, <1>4, <1>5, Zenon DEF Shutdown

\* Whoever acts, a deinitialised module is marked at once and stays so.
LEMMA UnloadStep == IInv /\ Next => UnloadInv'
<1>1. IInv /\ (Boot \/ Menu) => UnloadInv'
  <2> SUFFICES ASSUME IInv, Boot \/ Menu PROVE UnloadInv'
    OBVIOUS
  <2>1. UnloadInv /\ UNCHANGED <<valid, deinits, tpc, spc, unloading>>
    BY Zenon DEF IInv, Boot, Menu, MenuSelected, MenuIdle, ToggleModule, ToggleSetting, SaveConfig
  <2> QED
    BY <2>1, UnloadKept, Zenon
<1>2. Crash \/ PowerOff => UnloadInv'
  BY HelpCleared, Zenon DEF Crash, PowerOff
<1> QED
  BY <1>1, <1>2, UnloadLoad, UnloadShutdown, Zenon DEF Next

-----------------------------------------------------------------------------
(* What is freed                                                           *)

\* Nothing is freed; a shutdown may unload modules.
LEMMA FreedKept ==
  ASSUME FreedStrings, freed' = freed, deinits \subseteq deinits'
  PROVE  FreedStrings'
<1>1. CASE deinits # {}
  <2>1. deinits' # {}
    BY <1>1, Zenon
  <2> QED
    BY <1>1, <2>1, Zenon DEF FreedStrings
<1>2. CASE deinits = {}
  BY <1>2, Zenon DEF FreedStrings
<1> QED
  BY <1>1, <1>2, Zenon

\* _module_unload_strings.
LEMMA FreedUnload ==
  ASSUME IInv, NEW m \in Modules, UnloadStrings(m)
  PROVE  FreedStrings'
<1>1. freed' = freed \cup ({strings[m]} \ {"none"}) /\ UNCHANGED deinits
  BY Zenon DEF UnloadStrings
<1>2. strings[m] \in {"elf", "linked", "none"} /\ Queued("unload", m)
  BY UnloadFinds, Zenon DEF IInv
<1>3. strings[m] = "linked" => deinits # {}
  BY <1>2, Zenon DEF IInv, LinkInv
<1>4. freed \subseteq (IF deinits # {} THEN {"elf", "linked"} ELSE {"elf"})
  BY Zenon DEF IInv, FreedStrings
<1>5. CASE deinits = {}
  <2>1. freed \subseteq {"elf"} /\ strings[m] \in {"elf", "none"}
    BY <1>2, <1>3, <1>4, <1>5, Zenon
  <2>2. freed' \subseteq {"elf"}
    BY <1>1, <2>1, Zenon
  <2> QED
    BY <1>1, <1>5, <2>2, Zenon DEF FreedStrings
<1>6. CASE deinits # {}
  <2>1. freed \subseteq {"elf", "linked"}
    BY <1>4, <1>6, Zenon
  <2>2. freed' \subseteq {"elf", "linked"}
    BY <1>1, <1>2, <2>1, Zenon
  <2> QED
    BY <1>1, <1>6, <2>2, Zenon DEF FreedStrings
<1> QED
  BY <1>5, <1>6, Zenon

\* Every step frees only what may be freed.
LEMMA FreedStep == IInv /\ Next => FreedStrings'
<1> SUFFICES ASSUME IInv, Next PROVE FreedStrings'
  OBVIOUS
<1>0. FreedStrings
  BY Zenon DEF IInv
<1>1. CASE UNCHANGED <<freed, deinits>>
  BY <1>0, <1>1, FreedKept, Zenon
<1>2. CASE Crash \/ PowerOff
  BY <1>2, HelpCleared, Zenon DEF Crash, PowerOff
<1>3. CASE DeinitModule
  <2>1. freed' = freed /\ deinits' = deinits \cup {unloading}
    BY <1>3, Zenon DEF DeinitModule
  <2>2. deinits \subseteq deinits'
    BY <2>1, Zenon
  <2> QED
    BY <1>0, <2>1, <2>2, FreedKept, Zenon
<1>4. CASE LoadTask
  BY <1>1, <1>4, FreedUnload, Zenon DEF LoadTask, CheckLockfile, CreateLock, Scan, Link,
     Register, InitModule, InitReturns, Loaded, LoadStrings, StringsLoaded
<1>5. CASE Menu
  BY <1>1, <1>5, Zenon DEF Menu, MenuSelected, MenuIdle, ToggleModule, ToggleSetting, SaveConfig
<1>6. CASE Shutdown
  BY <1>1, <1>3, <1>6, Zenon DEF Shutdown, ShutdownRequest, AbortRequest, ShutdownSave,
     UnloadModule, DeinitReturns, RemoveLock, ShutdownReturns, Cancel
<1> QED
  BY <1>1, <1>2, <1>4, <1>5, <1>6, Zenon DEF Next, Boot

-----------------------------------------------------------------------------
(* The invariant                                                           *)

\* The camera is off for the first time: there is no lock file.
LEMMA InvInit == Init => IInv
<1> SUFFICES ASSUME Init PROVE IInv
  OBVIOUS
<1>1. /\ lock = FALSE /\ inits = {} /\ spc = "none" /\ ended = "clean" /\ tpc = "check"
      /\ mq = <<>> /\ loading = None /\ freed = {} /\ deinits = {}
      /\ \A m \in Modules : strings[m] = "none"
  BY Zenon DEF Init
<1>2. CardTypes
  <2>1. saved \in Settings
    BY SMT DEF Init, Settings
  <2> QED
    BY <2>1, Zenon DEF Init, CardTypes
<1>3. ListTypes
  BY Zenon DEF Init, ListTypes
<1>4. HelpTypes
  <2>1. mq \in Seq({"load", "unload"} \X Modules) /\ Len(mq) <= QLen
    BY <1>1, ModuleLoadAssumption, SMT
  <2>2. strings \in [Modules -> Kinds]
    BY Zenon DEF Init, Kinds
  <2> QED
    BY <1>1, <2>1, <2>2, Zenon DEF HelpTypes
<1>5. ShutTypes
  BY Zenon DEF Init, ShutTypes
<1>6. LockInv
  <2>1. ended # "faulty" /\ spc # "done" /\ tpc \notin {"scan", "link", "register", "init"}
    BY <1>1, SMT
  <2> QED
    BY <1>1, <2>1, Zenon DEF LockInv, Covered
<1>7. HelpInv /\ LinkInv /\ UnloadInv
  <2>1. \A k, l, m : ~ Queued(k, m) /\ ~ Behind(k, l, m)
    BY <1>1, QueueFacts, Zenon
  <2>2. \A m \in Modules : /\ strings[m] \notin {"elf", "linked"} /\ strings[m] # "linked"
                           /\ strings[m] # "default"
    BY <1>1, Zenon
  <2>3. \A m \in Modules : loading # m
    BY <1>1, ModuleLoadAssumption, Zenon
  <2>4. HelpInv
    BY <1>1, <2>1, <2>2, <2>3, Zenon DEF HelpInv
  <2>5. LinkInv
    BY <1>1, <2>2, Zenon DEF LinkInv
  <2>6. UnloadInv
    BY <1>1, Zenon DEF UnloadInv
  <2> QED
    BY <2>4, <2>5, <2>6, Zenon
<1>8. FreedStrings
  BY <1>1, Zenon DEF FreedStrings
<1> QED
  BY <1>2, <1>3, <1>4, <1>5, <1>6, <1>7, <1>8, TypesSplit, Zenon DEF IInv

\* Every step keeps the invariant.
LEMMA InvStep == IInv /\ [Next]_vars => IInv'
<1> SUFFICES ASSUME IInv, [Next]_vars PROVE IInv'
  OBVIOUS
<1>1. TypeOK' /\ LockInv'
  BY TypesStep, LockStep, Zenon DEF IInv
<1>2. CASE Next
  BY <1>1, <1>2, HelpStep, LinkStep, UnloadStep, FreedStep, Zenon DEF IInv
<1>3. CASE UNCHANGED vars
  <2>1. UNCHANGED <<tpc, help, valid, deinits, spc, unloading>>
    BY <1>3, Zenon DEF vars
  <2>2. HelpInv'
    BY <2>1, HelpKept, Zenon DEF IInv
  <2>3. LinkInv'
    BY <2>1, LinkKept, QueueKept, Zenon DEF IInv
  <2>4. FreedStrings'
    BY <2>1, FreedKept, Zenon DEF IInv
  <2>5. UnloadInv'
    BY <2>1, UnloadKept, Zenon DEF IInv
  <2> QED
    BY <1>1, <2>2, <2>3, <2>4, <2>5, Zenon DEF IInv
<1> QED
  BY <1>2, <1>3, Zenon

\* The inductive invariant of the loader, over any number of power cycles.
THEOREM Invariant == Spec => []IInv
  BY InvInit, InvStep, PTL DEF Spec

-----------------------------------------------------------------------------
(* The properties                                                          *)

\* Type correctness of the loader; in particular module_mq does not overflow.
THEOREM TypeCorrect == Spec => []TypeOK
<1>1. IInv => TypeOK
  BY Zenon DEF IInv
<1> QED
  BY <1>1, Invariant, PTL

\* Help strings are freed only if they were read from an ELF file, or belong to
\* a module that a shutdown has unloaded; never the static default.
THEOREM OnlyOwnStringsFreed == Spec => []FreedStrings
<1>1. IInv => FreedStrings
  BY Zenon DEF IInv
<1> QED
  BY <1>1, Invariant, PTL

\* Only the check of module_task leaves the place where the lock file is looked
\* at, and what it finds there decides where it goes.
LEMMA Checked ==
  ASSUME TypeOK, Next, tpc = "check", tpc' # "check"
  PROVE  /\ tpc' \in {"create", "scan"} => ~ lock \/ live.ignore
         /\ tpc' = "loop" => lock /\ ~ live.disabled
<1>1. CheckLockfile
  <2>1. ~ (Boot \/ Crash \/ PowerOff \/ Menu \/ Shutdown)
    BY Zenon DEF Boot, Crash, PowerOff, ClearMemory, Menu, MenuSelected, MenuIdle, ToggleModule,
       ToggleSetting, SaveConfig, Shutdown, ShutdownRequest, AbortRequest, ShutdownSave,
       UnloadModule, DeinitModule, DeinitReturns, RemoveLock, ShutdownReturns, Cancel
  <2>2. LoadTask
    BY <2>1, Zenon DEF Next
  <2>3. ~ (CreateLock \/ Scan \/ Loaded)
    BY Zenon DEF CreateLock, Scan, Loaded, Task
  <2>4. ~ \E bad \in SUBSET Modules, ok \in BOOLEAN : Link(bad, ok)
    BY Zenon DEF Link, Task
  <2>5. ~ \E insane \in SUBSET Modules : Register(insane)
    BY Zenon DEF Register, Task
  <2>6. ~ \E m \in Modules : InitModule(m) \/ LoadStrings(m) \/ UnloadStrings(m)
    BY Zenon DEF InitModule, LoadStrings, UnloadStrings
  <2>7. ~ \E ok \in BOOLEAN : InitReturns(ok) \/ StringsLoaded(ok)
    BY Zenon DEF InitReturns, StringsLoaded
  <2> QED
    BY <2>2, <2>3, <2>4, <2>5, <2>6, <2>7, Zenon DEF LoadTask
<1>2. tpc' = CASE live.disabled -> "list"
               [] ~ live.disabled /\ lock /\ ~ live.ignore -> "loop"
               [] OTHER -> "create"
  BY <1>1, Zenon DEF CheckLockfile
<1>3. CASE live.disabled
  BY <1>2, <1>3, SMT
<1>4. CASE ~ live.disabled /\ lock /\ ~ live.ignore
  BY <1>2, <1>4, SMT
<1>5. CASE ~ live.disabled /\ ~ (lock /\ ~ live.ignore)
  <2>1. tpc' = "create"
    BY <1>2, <1>5, SMT
  <2> QED
    BY <1>5, <2>1, Zenon
<1> QED
  BY <1>3, <1>4, <1>5, Zenon

\* Once a module's init has been called, a crash keeps the modules from being
\* loaded until the next clean shutdown, unless the user asks for it or the card
\* refused the lock file.
THEOREM CrashesSkipped == Spec => CrashSkipped
<1>1. IInv /\ [Next]_vars =>
        [tpc = "check" /\ tpc' \in {"create", "scan"} /\ Running
             => ended # "faulty" \/ live.ignore]_vars
  <2> SUFFICES ASSUME IInv, Next, tpc = "check", tpc' \in {"create", "scan"}, Running
               PROVE  ended # "faulty" \/ live.ignore
    BY Zenon
  <2>1. tpc' # "check"
    BY SMT
  <2>2. ~ lock \/ live.ignore
    BY <2>1, Checked, Zenon DEF IInv
  <2>3. ended = "faulty" => lock
    BY Zenon DEF IInv, LockInv, Covered
  <2> QED
    BY <2>2, <2>3, Zenon
<1> QED
  BY <1>1, Invariant, PTL DEF Spec, CrashSkipped

\* After a clean shutdown that saved the settings, came after module_task had made
\* the lock file and could remove it, module loading is not skipped.
THEOREM SkipsExplained == Spec => SkipExplained
<1>1. IInv /\ [Next]_vars =>
        [tpc = "check" /\ tpc' = "loop" => ended # "clean" \/ untidy # "no"]_vars
  <2> SUFFICES ASSUME IInv, Next, tpc = "check", tpc' = "loop"
               PROVE  ended # "clean" \/ untidy # "no"
    BY Zenon
  <2>1. lock /\ ~ live.disabled
    BY Checked, Zenon DEF IInv
  <2> QED
    BY <2>1, Zenon DEF IInv, LockInv
<1> QED
  BY <1>1, Invariant, PTL DEF Spec, SkipExplained

\* Over repeated calls of module_shutdown and whatever module_task does
\* meanwhile, a module's deinit routine is called at most once in a session.
THEOREM NoSecondDeinit == Spec => DeinitOnce
<1>1. IInv /\ [Next]_vars => [spc = "call" /\ spc' = "clear" => unloading \notin deinits]_vars
  BY Zenon DEF IInv, UnloadInv
<1> QED
  BY <1>1, Invariant, PTL DEF Spec, DeinitOnce
=============================================================================
