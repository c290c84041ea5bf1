----------------------------- MODULE ModuleLoad -----------------------------
(***************************************************************************)
(* The module loader, src/module.c, over power cycles of the camera.       *)
(* module_task decides from the lock file LOADING.LCK and the settings     *)
(* whether to load the modules, links and initialises them, and then       *)
(* serves requests of the menu for the help strings of modules that are    *)
(* not loaded.  Meanwhile the user works in the menu, and the property     *)
(* task handles shutdown requests (tasks.c).  The camera may lose power or *)
(* crash at any point; what survives is on the card.                       *)
(***************************************************************************)
EXTENDS Naturals, Sequences, FiniteSets

CONSTANTS
    Modules,    \* the module files on the card
    Deinit,     \* those with a deinit routine
    QLen,       \* length of module_mq
    None

ASSUME ModuleLoadAssumption ==
    Deinit \subseteq Modules /\ QLen \in Nat \ {0} /\ None \notin Modules

Settings == [disabled : BOOLEAN, ignore : BOOLEAN]  \* module_autoload_disabled,
                                                    \* module_ignore_crashes
VARIABLES
    \* On the card
    lock,       \* LOADING.LCK exists
    en,         \* modules with an .en file
    saved,      \* the settings in magic.cfg
    \* In memory
    power,      \* "on" or "off"
    live,       \* the settings in use
    tpc,        \* where module_task is
    todo,       \* modules the init loop has not come to
    initing,    \* module that it has found in order and whose init is running
    listed,     \* module_list[] is filled in
    valid, enabled, error,      \* fields of module_list[]
    strings,    \* .strings: NULL, the static default, from the ELF file, or linked
    mq,         \* module_mq
    loading,    \* module whose ELF file is being read for strings
    spc, abort, \* where the shutdown handler is; its calls for PROP_ABORT
    left,       \* modules _module_unload_all has not dealt with
    unloading,  \* module whose deinit it calls
    \* History
    inits,      \* modules whose init was called since power on
    deinits,    \* modules that were deinitialised since power on
    freed,      \* the kinds of strings that were freed since power on
    cancelled,  \* a shutdown was cancelled since power on
    refused,    \* the card refused to take the lock file since power on
    untidy,     \* the last shutdown left settings unsaved or came before module_task had
                \* made the lock file ("yes"), or could not remove it ("kept")
    ended       \* how the last session ended: clean, crash, or faulty: a crash after
                \* modules have run and before the next clean shutdown

card    == <<lock, en, saved>>
list    == <<listed, valid, enabled, error>>
help    == <<strings, mq, loading, freed>>
unload  == <<left, unloading>>
shut    == <<spc, abort, unload, deinits, cancelled>>
past    == <<refused, untidy, ended>>
init    == <<todo, initing, inits>>
vars    == <<card, power, live, tpc, init, list, help, shut, past>>

Kinds == {"none", "default", "elf", "linked"}

\* A module that was loaded and is in order.
Good(m) == valid[m] /\ enabled[m] /\ ~ error[m]

-----------------------------------------------------------------------------
(* Power                                                                   *)

Init ==
    /\ lock = FALSE /\ en \in SUBSET Modules
    /\ saved = [disabled |-> FALSE, ignore |-> FALSE] /\ live = saved
    /\ power = "off" /\ ended = "clean" /\ untidy = "no"
    /\ tpc = "check" /\ todo = {} /\ initing = None /\ inits = {} /\ listed = FALSE
    /\ valid = [m \in Modules |-> FALSE] /\ enabled = [m \in Modules |-> FALSE]
    /\ error = [m \in Modules |-> FALSE] /\ strings = [m \in Modules |-> "none"]
    /\ mq = <<>> /\ loading = None /\ freed = {}
    /\ spc = "none" /\ abort = "no" /\ left = {} /\ unloading = None
    /\ deinits = {} /\ cancelled = FALSE /\ refused = FALSE

\* What a session leaves in memory is gone.
ClearMemory ==
    /\ tpc' = "check" /\ todo' = {} /\ initing' = None /\ inits' = {} /\ listed' = FALSE
    /\ valid' = [m \in Modules |-> FALSE] /\ enabled' = [m \in Modules |-> FALSE]
    /\ error' = [m \in Modules |-> FALSE] /\ strings' = [m \in Modules |-> "none"]
    /\ mq' = <<>> /\ loading' = None /\ freed' = {}
    /\ spc' = "none" /\ abort' = "no" /\ left' = {} /\ unloading' = None
    /\ deinits' = {} /\ cancelled' = FALSE /\ refused' = FALSE

Boot ==
    /\ power = "off"
    /\ power' = "on" /\ live' = saved
    /\ UNCHANGED <<card, tpc, init, list, help, shut, past>>

\* No shutdown has begun in this session.
Running == spc = "none" /\ ~ cancelled

\* A crash, or the battery taken out without a word.
Crash ==
    /\ power = "on"
    /\ power' = "off" /\ live' = saved
    /\ ended' = IF Running /\ (ended = "faulty" \/ (inits # {} /\ ~ refused))
                THEN "faulty" ELSE "crash"
    /\ ClearMemory
    /\ UNCHANGED <<card, untidy>>

PowerOff ==
    /\ power = "on" /\ spc = "done"
    /\ power' = "off" /\ live' = saved
    /\ ended' = "clean"
    /\ ClearMemory
    /\ UNCHANGED <<card, untidy>>

-----------------------------------------------------------------------------
(* module_load_task                                                        *)

Task(pc) == power = "on" /\ tpc = pc

CheckLockfile ==
    /\ Task("check")
    /\ tpc' = CASE live.disabled -> "list"
                [] ~ live.disabled /\ lock /\ ~ live.ignore -> "loop"
                [] OTHER -> "create"
    /\ UNCHANGED <<card, power, live, init, list, help, shut, past>>

\* Mutant: the file is not closed before the modules are loaded.
CreateOpen ==
    /\ Task("create")
    /\ \E ok \in BOOLEAN : refused' = (~ lock /\ ~ ok)
    /\ tpc' = "scan"
    /\ UNCHANGED <<card, power, live, init, list, help, shut, untidy, ended>>

\* The result of FIO_CreateFile decides nothing.
CreateLock ==
    /\ Task("create")
    /\ \E ok \in BOOLEAN : lock' = (lock \/ ok) /\ refused' = ~ lock'
    /\ tpc' = "scan"
    /\ UNCHANGED <<en, saved, power, live, init, list, help, shut, untidy, ended>>

\* _module_load_all: the symbol file or the directory may be missing.
Scan ==
    /\ Task("scan") \/ Task("list")
    /\ \/ tpc' = "loop" /\ UNCHANGED list
       \/ /\ tpc' = IF tpc = "list" THEN "loop" ELSE "link"
          /\ listed' = TRUE /\ enabled' = [m \in Modules |-> m \in en]
          /\ UNCHANGED <<valid, error>>
    /\ UNCHANGED <<card, power, live, init, help, shut, past>>

\* bad: files that cannot be read.
Link(bad, ok) ==
    /\ Task("link")
    /\ valid' = enabled
    /\ error' = [m \in Modules |-> enabled[m] /\ (m \in bad \/ ~ ok)]
    /\ tpc' = IF ok THEN "register" ELSE "loop"
    /\ UNCHANGED <<card, power, live, init, listed, enabled, help, shut, past>>

\* insane: modules without the info structure, or with one of another version.
Register(insane) ==
    /\ Task("register")
    /\ strings' = [m \in Modules |-> IF Good(m) THEN "linked" ELSE strings[m]]
    /\ error' = [m \in Modules |-> error[m] \/ (Good(m) /\ m \in insane)]
    /\ tpc' = "init" /\ todo' = Modules
    /\ UNCHANGED <<card, power, live, initing, inits, listed, valid, enabled, mq, loading, freed,
                   shut, past>>

\* One turn of the init loop: the entry is tested ...
InitModule(m) ==
    /\ Task("init") /\ initing = None /\ m \in todo
    /\ IF Good(m)
       THEN initing' = m /\ inits' = inits \cup {m} /\ UNCHANGED todo
       ELSE todo' = todo \ {m} /\ UNCHANGED <<initing, inits>>
    /\ UNCHANGED <<card, power, live, tpc, list, help, shut, past>>

\* ... and init called, without a lock; it may fail.
InitReturns(ok) ==
    /\ power = "on" /\ initing # None
    /\ error' = [error EXCEPT ![initing] = @ \/ ~ ok]
    /\ todo' = todo \ {initing} /\ initing' = None
    /\ UNCHANGED <<card, power, live, tpc, listed, valid, enabled, help, shut, inits, past>>

Loaded ==
    /\ Task("init") /\ todo = {}
    /\ tpc' = "loop"
    /\ UNCHANGED <<card, power, live, init, list, help, shut, past>>

-----------------------------------------------------------------------------
(* The strings of modules that are not loaded                              *)

\* Mutant: the queue has no limit.
PostAlways(msg) == Len(mq) <= QLen /\ mq' = Append(mq, msg)

Post(msg) == mq' = IF Len(mq) < QLen THEN Append(mq, msg) ELSE mq

Shown(m) == Task("loop") /\ listed /\ ~ valid[m]

\* module_menu_update_entry for the selected entry ...
MenuSelected(m) ==
    /\ Shown(m) /\ strings[m] = "none"
    /\ Post(<<"load", m>>)
    /\ UNCHANGED <<card, power, live, tpc, init, list, strings, loading, freed, shut, past>>

\* Mutant: whatever strings there are, are cleaned up.
MenuIdleAny(m) ==
    /\ Shown(m) /\ strings[m] # "none"
    /\ Post(<<"unload", m>>)
    /\ UNCHANGED <<card, power, live, tpc, init, list, strings, loading, freed, shut, past>>

\* ... and for one that has not been selected for a while.
MenuIdle(m) ==
    /\ Shown(m) /\ strings[m] \notin {"none", "default"}
    /\ Post(<<"unload", m>>)
    /\ UNCHANGED <<card, power, live, tpc, init, list, strings, loading, freed, shut, past>>

\* The loop of module_task; that TASK_LOOP ends with ml_shutdown is left out.
Message(kind, m) ==
    /\ Task("loop") /\ loading = None
    /\ mq # <<>> /\ Head(mq) = <<kind, m>>
    /\ mq' = Tail(mq)

\* The default is used while the file is read ...
LoadStrings(m) ==
    /\ Message("load", m)
    /\ IF strings[m] = "none"
       THEN strings' = [strings EXCEPT ![m] = "default"] /\ loading' = m
       ELSE UNCHANGED <<strings, loading>>
    /\ UNCHANGED <<card, power, live, tpc, init, list, freed, shut, past>>

\* ... and after that, if it holds no usable strings.
StringsLoaded(ok) ==
    /\ power = "on" /\ loading # None
    /\ strings' = IF ok THEN [strings EXCEPT ![loading] = "elf"] ELSE strings
    /\ loading' = None
    /\ UNCHANGED <<card, power, live, tpc, init, list, mq, freed, shut, past>>

UnloadStrings(m) ==
    /\ Message("unload", m)
    /\ strings' = [strings EXCEPT ![m] = "none"]
    /\ freed' = freed \cup ({strings[m]} \ {"none"})
    /\ UNCHANGED <<card, power, live, tpc, init, list, loading, shut, past>>

-----------------------------------------------------------------------------
(* The user in the menu                                                    *)

\* Nobody is so fast as to open the menu before module_task has looked at the
\* lock file, or to use it in the moment a shutdown takes.
MenuUsed == power = "on" /\ spc = "none" /\ tpc # "check"

ToggleModule(m) ==
    /\ MenuUsed /\ listed /\ tpc = "loop"
    /\ enabled' = [enabled EXCEPT ![m] = ~ @]
    /\ en' = IF enabled[m] THEN en \ {m} ELSE en \cup {m}
    /\ UNCHANGED <<lock, saved, power, live, tpc, init, listed, valid, error, help, shut, past>>

ToggleSetting ==
    /\ MenuUsed
    /\ \/ live' = [live EXCEPT !.disabled = ~ @]
       \/ live' = [live EXCEPT !.ignore = ~ @]
    /\ UNCHANGED <<card, power, tpc, init, list, help, shut, past>>

\* config_save, when the menu is closed or on request.
SaveConfig ==
    /\ MenuUsed
    /\ saved' = live
    /\ UNCHANGED <<lock, en, power, live, tpc, init, list, help, shut, past>>

-----------------------------------------------------------------------------
(* Shutdown, in the property task                                          *)

ShutdownRequest ==
    /\ power = "on" /\ spc = "none"
    /\ spc' = "save"
    /\ UNCHANGED <<card, power, live, tpc, init, list, help, abort, unload, deinits, cancelled, past>>

\* PROP_ABORT, the battery door: module_shutdown only, but twice.
AbortRequest ==
    /\ power = "on" /\ (spc = "none" \/ (spc = "done" /\ abort = "no"))
    /\ spc' = "unload" /\ left' = Modules /\ abort' = "first"
    /\ UNCHANGED <<card, power, live, tpc, init, list, help, unloading, deinits, cancelled, past>>

\* config_save_at_shutdown: not without autosave, and only once after power on.
ShutdownSave ==
    /\ power = "on" /\ spc = "save"
    /\ saved' \in {saved, live}
    /\ spc' = "unload" /\ left' = Modules
    /\ UNCHANGED <<lock, en, power, live, tpc, init, list, help, abort, unloading, deinits,
                   cancelled, past>>

\* One turn of _module_unload_all: the entry is tested (.info is set with .strings) ...
UnloadModule(m) ==
    /\ power = "on" /\ spc = "unload" /\ m \in left
    /\ IF m \in Deinit /\ Good(m) /\ strings[m] = "linked"
       THEN spc' = "call" /\ unloading' = m /\ UNCHANGED left
       ELSE left' = left \ {m} /\ UNCHANGED <<spc, unloading>>
    /\ UNCHANGED <<card, power, live, tpc, init, list, help, abort, deinits, cancelled, past>>

\* ... deinit called, without a lock ...
DeinitModule ==
    /\ power = "on" /\ spc = "call"
    /\ deinits' = deinits \cup {unloading}
    /\ spc' = "clear"
    /\ UNCHANGED <<card, power, live, tpc, init, list, help, abort, unload, cancelled, past>>

\* Mutant: modules stay valid after deinit.
DeinitReturnsOnly ==
    /\ power = "on" /\ spc = "clear"
    /\ left' = left \ {unloading} /\ unloading' = None
    /\ spc' = "unload"
    /\ UNCHANGED <<card, power, live, tpc, init, list, help, abort, deinits, cancelled, past>>

\* ... and the entry marked.
DeinitReturns ==
    /\ power = "on" /\ spc = "clear"
    /\ valid' = [valid EXCEPT ![unloading] = FALSE]
    /\ left' = left \ {unloading} /\ unloading' = None
    /\ spc' = "unload"
    /\ UNCHANGED <<card, power, live, tpc, init, listed, enabled, error, help, abort, deinits,
                   cancelled, past>>

\* The end of a call of module_shutdown; PROP_ABORT makes a second one.
ShutdownReturns ==
    /\ untidy' = CASE live # saved \/ tpc \in {"check", "create"} -> "yes"
                   [] live = saved /\ tpc \notin {"check", "create"} /\ lock' /\ ~ live.disabled -> "kept"
                   [] OTHER -> "no"
    /\ IF abort = "first"
       THEN spc' = "unload" /\ left' = Modules /\ abort' = "second"
       ELSE spc' = "done" /\ UNCHANGED <<left, abort>>
    /\ UNCHANGED <<en, saved, power, live, tpc, init, list, help, unloading, deinits, cancelled,
                   refused, ended>>

\* Mutant: the lock file is removed only if there was a module to unload.
RemoveIfUnloaded ==
    /\ power = "on" /\ spc = "unload" /\ left = {}
    /\ IF live.disabled \/ deinits = {} THEN UNCHANGED lock ELSE lock' = FALSE
    /\ untidy' = IF live # saved \/ tpc \in {"check", "create"} THEN "yes" ELSE "no"
    /\ spc' = "done"
    /\ UNCHANGED <<en, saved, power, live, tpc, init, list, help, abort, unload, deinits, cancelled,
                   refused, ended>>

\* The result of FIO_RemoveFile is not looked at.
RemoveLock ==
    /\ power = "on" /\ spc = "unload" /\ left = {}
    /\ IF live.disabled THEN UNCHANGED lock ELSE lock' \in {FALSE, lock}
    /\ ShutdownReturns

\* The firmware may cancel a shutdown it has requested; nothing handles this.
Cancel ==
    /\ power = "on" /\ spc = "done" /\ abort = "no"
    /\ spc' = "none" /\ cancelled' = TRUE
    /\ UNCHANGED <<card, power, live, tpc, init, list, help, abort, unload, deinits, past>>

-----------------------------------------------------------------------------

LoadTask ==
    \/ CheckLockfile \/ CreateLock \/ Scan
    \/ \E bad \in SUBSET Modules, ok \in BOOLEAN : Link(bad, ok)
    \/ \E insane \in SUBSET Modules : Register(insane)
    \/ \E m \in Modules : InitModule(m) \/ LoadStrings(m) \/ UnloadStrings(m)
    \/ \E ok \in BOOLEAN : InitReturns(ok) \/ StringsLoaded(ok)
    \/ Loaded

Menu ==
    \/ \E m \in Modules : MenuSelected(m) \/ MenuIdle(m) \/ ToggleModule(m)
    \/ ToggleSetting \/ SaveConfig

Shutdown ==
    \/ ShutdownRequest \/ AbortRequest \/ ShutdownSave
    \/ \E m \in Modules : UnloadModule(m)
    \/ DeinitModule \/ DeinitReturns \/ RemoveLock \/ Cancel

Next == Boot \/ Crash \/ PowerOff \/ LoadTask \/ Menu \/ Shutdown

Spec == Init /\ [][Next]_vars

-----------------------------------------------------------------------------
(* Properties                                                              *)

\* Type correctness.
TypeOK ==
    /\ lock \in BOOLEAN /\ en \subseteq Modules /\ saved \in Settings /\ live \in Settings
    /\ power \in {"on", "off"} /\ listed \in BOOLEAN /\ todo \subseteq Modules
    /\ tpc \in {"check", "create", "list", "scan", "link", "register", "init", "loop"}
    /\ {valid, enabled, error} \subseteq [Modules -> BOOLEAN]
    /\ strings \in [Modules -> Kinds] /\ loading \in Modules \cup {None}
    /\ mq \in Seq({"load", "unload"} \X Modules) /\ Len(mq) <= QLen
    /\ spc \in {"none", "save", "unload", "call", "clear", "done"}
    /\ abort \in {"no", "first", "second"}
    /\ {cancelled, refused} \subseteq BOOLEAN /\ untidy \in {"no", "kept", "yes"}
    /\ {inits, deinits, left} \subseteq SUBSET Modules /\ freed \subseteq Kinds
    /\ {initing, unloading} \subseteq Modules \cup {None}
    /\ ended \in {"clean", "crash", "faulty"}

\* "To save from faulty modules, autoload gets disabled": once a module's init has
\* been called, a crash at whatever time keeps the modules from being loaded until
\* the next clean shutdown: the lock file was on the card before and is there
\* still.  Excepted are a card that refuses the lock file, a user who asks to load
\* the modules nevertheless, and crashes after a shutdown has begun.
CrashSkipped ==
    [][tpc = "check" /\ tpc' \in {"create", "scan"} /\ Running
           => ended # "faulty" \/ live.ignore]_vars

\* The other way round, after a clean shutdown the modules are loaded again: they
\* are skipped only after a crash, or if the shutdown left settings unsaved,
\* overtook module_task or could not remove the lock file.
SkipExplained == [][tpc = "check" /\ tpc' = "loop" => ended # "clean" \/ untidy # "no"]_vars

\* The help strings that module_task frees were read from an ELF file; never the
\* static default, whatever the order in which the menu's requests are served,
\* and those of a linked module only after a shutdown has unloaded it.
FreedStrings == freed \subseteq (IF deinits # {} THEN {"elf", "linked"} ELSE {"elf"})

\* A module is deinitialised at most once in a session, although module_shutdown
\* runs again for a shutdown after a cancelled one, for PROP_ABORT after a shutdown
\* and twice for PROP_ABORT, and whatever module_task is doing meanwhile.
DeinitOnce == [][spc = "call" /\ spc' = "clear" => unloading \notin deinits]_vars

\* module_load_task: "it seems the camera didnt shut down cleanly, skip module
\* loading this time": it is skipped only then, or if the card kept the lock file.
SkipOnlyAfterCrash ==
    [][tpc = "check" /\ tpc' = "loop" => ended # "clean" \/ untidy = "kept"]_vars

\* toggle_module_enabled: "Won't take effect until next restart": whatever the
\* menu says about the next restart, _module_unload_all does not pass over a
\* module that was initialised and has a deinit routine.
DeinitAtShutdown ==
    [][power' = "on" => \A m \in left \ left' :
           m \in inits \cap Deinit /\ m # initing /\ ~ error[m] => m \in deinits]_vars
=============================================================================
