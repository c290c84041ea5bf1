------------------------------- MODULE Patch -------------------------------
(***************************************************************************)
(* The memory-patching library of the DIGIC 4/5 cameras (the 70D is one):  *)
(* src/patch.c, src/patch_cache.c and the cache lockdown of                *)
(* src/cache_hacks.c.                                                      *)
(*                                                                         *)
(* RAM words are patched by writing them; ROM words are patched by locking *)
(* one segment of the instruction and data caches and nailing a changed    *)
(* copy of the word's line into it.  Every public call runs with           *)
(* interrupts disabled (cli/sei) on a single core, so calls do not         *)
(* interleave; a call is a sequence of steps here (pc) because it walks    *)
(* the caller's batch and, after each flush, the list of patches.          *)
(***************************************************************************)
EXTENDS Naturals, Sequences

CONSTANTS
    Rom,        \* ROM words (IS_ROM_PTR)
    Ram,        \* RAM words
    Index,      \* [Rom -> cache index of the word's line]
    Tag,        \* [Rom -> cache tag of the word's line]
    Val,        \* contents of a memory word
    NoWord,     \* a word the locked cache does not hold
    rom,        \* [Rom -> Val], what the ROM chip holds
    Slots,      \* function_hooks[]; a slot also stands for the jump to it
    NoAddr,     \* .addr == 0 in a free hook slot
    NoSlot,     \* no hook in the current call
    OutOfRange, \* addresses a 24-bit branch cannot connect to the hooks
    Unfakeable, \* ROM words on which lockdown has no effect (wrong geometry)
    MAX_PATCHES,
    Requests,   \* struct patch values callers pass
    MaxBatch    \* longest array passed to apply_patches

Addr == Rom \cup Ram
Word == Val \cup Slots
Caches == {"I", "D"}
Request == [addr : Addr, insn : BOOLEAN, old : Word, new : Word, size : {4, 8}]
Entry == [addr : Addr, insn : BOOLEAN, old : Word, new : Word]
Errors == {"OK", "UNKNOWN_ERROR", "ALREADY_PATCHED", "TOO_MANY_PATCHES",
           "OLD_VALUE_MISMATCH", "CACHE_COLLISION", "CACHE_ERROR",
           "OVERWRITTEN"}

ASSUME PatchAssumption ==
    /\ Rom \cap Ram = {} /\ Val \cap Slots = {}
    /\ NoWord \notin Word /\ NoAddr \notin Addr /\ NoSlot \notin Slots
    /\ rom \in [Rom -> Val]
    /\ Requests \subseteq {r \in Request : r.old \in Val /\ r.new \in Val}
    /\ MAX_PATCHES \in Nat /\ MaxBatch \in Nat

VARIABLES
    patches,  \* patches_global[0 .. num_patches-1]
    locked,   \* cache_locked()
    cached,   \* [Caches -> [Rom -> word in the locked segment, or NoWord]]
    ram,      \* [Ram -> Word]
    stale,    \* <<address, word>>: what the I-cache may still hold of rewritten RAM code
    hooks,    \* function_hooks[].addr
    pc,       \* where the call in progress is; "idle" when there is none
    batch,    \* the patches argument of apply_patches
    c,        \* the loop counter over batch
    uncached, \* batch positions whose addr apply_patch made UNCACHEABLE
    err,      \* err of the call
    slot,     \* the hook slot of patch_hook_function
    ri,       \* the loop counter of reapply_cache_patches
    rerr,     \* its err
    cont,     \* where reapply_cache_patches returns to
    owned,    \* history: the addresses patched when the call began
    named,    \* history: the addresses the call was given
    fault     \* history: a ROM patch did not take since the lock was last reviewed

mem  == <<patches, locked, cached, ram, stale, hooks>>
args == <<batch, uncached, slot, owned, named>>
vars == <<mem, args, pc, c, err, ri, rerr, cont, fault>>

-----------------------------------------------------------------------------
(* Cache lockdown (cache_hacks.c) and reading through it.                  *)

NoLines == [t \in Caches |-> [a \in Rom |-> NoWord]]

SameLine(a, b) == Index[a] = Index[b] /\ Tag[a] = Tag[b]

\* A load from ROM: a line in the locked data cache hides the chip.
DataRead(k, a) == IF k["D"][a] # NoWord THEN k["D"][a] ELSE rom[a]

\* Mutant: no look at what the index already holds.
AlwaysPatchable(k, t, a) == TRUE

\* FALSE when the line's place is taken by a line with another tag.
cache_is_patchable(k, t, a) ==
    ~ \E b \in Rom : Index[b] = Index[a] /\ Tag[b] # Tag[a] /\ k[t][b] # NoWord

\* The whole line is copied by loads and replaces what its index held.
cache_fetch_line(k, t, a) ==
    [k EXCEPT ![t] = [b \in Rom |->
        IF SameLine(a, b) THEN DataRead(k, b)
        ELSE IF Index[b] = Index[a] THEN NoWord
        ELSE k[t][b]]]

cache_fake(k, t, a, v) ==
    IF a \in Unfakeable THEN k
    ELSE LET f == IF k[t][a] # NoWord THEN k ELSE cache_fetch_line(k, t, a)
         IN  [f EXCEPT ![t] = [f[t] EXCEPT ![a] = v]]

\* ROM code is read from the locked I-cache if its line is there; RAM code
\* is read through the uncached alias, past any stale cached copy.
read_value(k, a, insn) ==
    IF a \in Ram THEN ram[a]
    ELSE IF insn /\ k["I"][a] # NoWord THEN k["I"][a]
    ELSE DataRead(k, a)

CacheType(p) == IF p.insn THEN "I" ELSE "D"

is_patch_still_applied(p) == read_value(cached, p.addr, p.insn) = p.new

RomPatched == \E k \in DOMAIN patches : patches[k].addr \in Rom

\* Flush the I-cache and, if the cache was locked, lock it again from scratch
\* and walk the list to nail the ROM patches back; then go on at next.
sync_locked_caches(next) ==
    /\ stale' = {}
    /\ IF locked
       THEN cached' = NoLines /\ pc' = "reapply" /\ cont' = next
       ELSE UNCHANGED <<cached, cont>> /\ pc' = next
    /\ ri' = 1 /\ rerr' = "OK"
    /\ UNCHANGED locked

\* One turn of the loop of reapply_cache_patches: no collision check here.
Reapply ==
    /\ pc = "reapply" /\ ri <= Len(patches)
    /\ LET p == patches[ri]
           k == cache_fake(cached, CacheType(p), p.addr, p.new)
       IN  IF p.addr \in Rom /\ read_value(cached, p.addr, p.insn) # p.new
           THEN /\ cached' = k
                /\ rerr' = IF read_value(k, p.addr, p.insn) # p.new
                           THEN "CACHE_ERROR" ELSE rerr
           ELSE UNCHANGED <<cached, rerr>>
    /\ ri' = ri + 1
    /\ UNCHANGED <<patches, locked, ram, stale, hooks, args, pc, c, err, cont, fault>>

ReapplyDone ==
    /\ pc = "reapply" /\ ri > Len(patches)
    /\ pc' = cont
    /\ UNCHANGED <<mem, args, c, err, ri, rerr, cont, fault>>

-----------------------------------------------------------------------------
(* apply_patches                                                           *)

Patched == {patches[k].addr : k \in DOMAIN patches}

AddrsOf(b) == {b[k].addr : k \in DOMAIN b}

BeginCall(b, s, names) ==
    /\ batch' = b /\ slot' = s /\ c' = 1 /\ uncached' = {} /\ err' = "OK"
    /\ owned' = Patched /\ named' = names

Batches == UNION {[1..n -> Requests] : n \in 1..MaxBatch}

ApplyPatches(b) ==
    /\ pc = "idle"
    /\ pc' = "apply"
    /\ BeginCall(b, NoSlot, AddrsOf(b))
    /\ UNCHANGED <<mem, ri, rerr, cont, fault>>

\* Mutants: the table is never full; the old value is not compared.
CheckErrorNoLimit(p) ==
    IF p.size # 4 THEN "UNKNOWN_ERROR"
    ELSE IF p.addr \in Patched THEN "ALREADY_PATCHED"
    ELSE IF read_value(cached, p.addr, p.insn) # p.old THEN "OLD_VALUE_MISMATCH"
    ELSE "OK"
CheckErrorAnyOld(p) ==
    IF p.size # 4 THEN "UNKNOWN_ERROR"
    ELSE IF p.addr \in Patched THEN "ALREADY_PATCHED"
    ELSE IF Len(patches) >= MAX_PATCHES THEN "TOO_MANY_PATCHES"
    ELSE "OK"

\* The checks before anything is changed, in the order of the code.
CheckError(p) ==
    IF p.size # 4 THEN "UNKNOWN_ERROR"
    ELSE IF p.addr \in Patched THEN "ALREADY_PATCHED"
    ELSE IF Len(patches) >= MAX_PATCHES THEN "TOO_MANY_PATCHES"
    ELSE IF read_value(cached, p.addr, p.insn) # p.old THEN "OLD_VALUE_MISMATCH"
    ELSE "OK"

\* old is the value read, which CheckError has found to be p.old.
EntryOf(p) == [addr |-> p.addr, insn |-> p.insn, old |-> p.old, new |-> p.new]

\* Mutant: the rollback starts at the second item.
FailLate(e) == err' = e /\ pc' = "rollback" /\ c' = 2

Fail(e) == err' = e /\ pc' = "rollback" /\ c' = 1

ApplyRefused ==
    /\ pc = "apply" /\ c <= Len(batch)
    /\ CheckError(batch[c]) # "OK"
    /\ Fail(CheckError(batch[c]))
    /\ UNCHANGED <<mem, args, ri, rerr, cont, fault>>

\* A ROM word: lock the cache (which flushes it) if it is not, look for a
\* collision, nail the word, read it back.
ApplyRom ==
    /\ pc = "apply" /\ c <= Len(batch)
    /\ CheckError(batch[c]) = "OK" /\ batch[c].addr \in Rom
    /\ LET p == batch[c]
           k == IF locked THEN cached ELSE NoLines
           f == cache_fake(k, CacheType(p), p.addr, p.new)
       IN  /\ locked' = TRUE
           /\ stale' = IF locked THEN stale ELSE {}
           /\ \/ /\ ~ cache_is_patchable(k, CacheType(p), p.addr)
                 /\ cached' = k
                 /\ Fail("CACHE_COLLISION")
                 /\ UNCHANGED <<patches, fault>>
              \/ /\ cache_is_patchable(k, CacheType(p), p.addr)
                 /\ read_value(f, p.addr, p.insn) # p.new
                 /\ cached' = f
                 /\ Fail("CACHE_ERROR")
                 /\ fault' = TRUE
                 /\ UNCHANGED patches
              \/ /\ cache_is_patchable(k, CacheType(p), p.addr)
                 /\ read_value(f, p.addr, p.insn) = p.new
                 /\ cached' = f
                 /\ patches' = Append(patches, EntryOf(p))
                 /\ c' = c + 1
                 /\ err' = "OK"
                 /\ UNCHANGED <<pc, fault>>
    /\ UNCHANGED <<ram, hooks, args, ri, rerr, cont>>

\* A RAM word is written.  For code the caller's addr becomes the uncached
\* alias, and the I-cache is flushed before the patch is counted.
ApplyRam ==
    /\ pc = "apply" /\ c <= Len(batch)
    /\ CheckError(batch[c]) = "OK" /\ batch[c].addr \in Ram
    /\ LET p == batch[c]
       IN  /\ ram' = [ram EXCEPT ![p.addr] = p.new]
           /\ \/ /\ p.insn
                 /\ uncached' = uncached \cup {c}
                 /\ sync_locked_caches("push")
                 /\ UNCHANGED <<patches, c>>
              \/ /\ ~ p.insn
                 /\ patches' = Append(patches, EntryOf(p))
                 /\ c' = c + 1
                 /\ UNCHANGED <<locked, cached, stale, uncached, pc, ri, rerr, cont>>
    /\ err' = "OK"
    /\ UNCHANGED <<hooks, batch, slot, owned, named, fault>>

\* num_patches++ after the flush, whatever the flush returned.
Push ==
    /\ pc = "push"
    /\ patches' = Append(patches, EntryOf(batch[c]))
    /\ err' = rerr
    /\ c' = c + 1
    /\ pc' = "apply"
    /\ UNCHANGED <<locked, cached, ram, stale, hooks, args, ri, rerr, cont, fault>>

\* The loop ran off the end; an error left by the last flush still rolls back.
ApplyEnd ==
    /\ pc = "apply" /\ c > Len(batch)
    /\ pc' = IF err = "OK" THEN "finish" ELSE "rollback"
    /\ c' = 1
    /\ UNCHANGED <<mem, args, err, ri, rerr, cont, fault>>

-----------------------------------------------------------------------------
(* unpatch_memory, called by users and by the rollback of apply_patches.   *)

\* Mutant: off by one, the next item goes.
ShiftNext(s, i) == [k \in 1..(Len(s) - 1) |-> IF k <= i THEN s[k] ELSE s[k + 1]]

\* Removing item i shifts the items after it.
Shift(s, i) == [k \in 1..(Len(s) - 1) |-> IF k < i THEN s[k] ELSE s[k + 1]]

\* p still points to item i after the shift: it reads the next item's flag,
\* or the removed item's own when that was the last one.
FlagAfterShift(i) == IF i < Len(patches) THEN patches[i + 1].insn ELSE patches[i].insn

\* The patch at position i is known to be applied: undo it.
Undo(i) ==
    LET p == patches[i] IN
    /\ patches' = Shift(patches, i)
    /\ hooks' = [s \in Slots |-> IF hooks[s] = p.addr THEN NoAddr ELSE hooks[s]]
    /\ \/ /\ p.addr \in Rom
          /\ locked' = TRUE /\ cached' = NoLines /\ stale' = {}
          /\ pc' = "reapply" /\ ri' = 1 /\ rerr' = "OK" /\ cont' = "check"
          /\ UNCHANGED ram
       \/ /\ p.addr \in Ram
          /\ ram' = [ram EXCEPT ![p.addr] = p.old]
          /\ \/ FlagAfterShift(i) /\ sync_locked_caches("check")
             \/ /\ ~ FlagAfterShift(i)
                /\ stale' = IF p.insn THEN stale \cup {<<p.addr, p.new>>} ELSE stale
                /\ pc' = "check" /\ rerr' = "OK"
                /\ UNCHANGED <<locked, cached, ri, cont>>

\* Mutant: the lock is never reviewed.
CheckLockKeep ==
    /\ pc = "check"
    /\ fault' = FALSE
    /\ IF batch = <<>>
       THEN pc' = "finish" /\ err' = rerr /\ UNCHANGED c
       ELSE pc' = "rollback" /\ c' = c + 1 /\ UNCHANGED err
    /\ UNCHANGED <<patches, locked, cached, ram, stale, hooks, args, ri, rerr, cont>>

\* check_cache_lock_still_needed, the last thing unpatch_memory does.
CheckLock ==
    /\ pc = "check"
    /\ locked' = (locked /\ RomPatched)
    /\ cached' = IF locked /\ ~ RomPatched THEN NoLines ELSE cached
    /\ stale' = IF locked /\ ~ RomPatched THEN {} ELSE stale
    /\ fault' = FALSE
    /\ IF batch = <<>>
       THEN pc' = "finish" /\ err' = rerr /\ UNCHANGED c
       ELSE pc' = "rollback" /\ c' = c + 1 /\ UNCHANGED err
    /\ UNCHANGED <<patches, ram, hooks, args, ri, rerr, cont>>

UnpatchMemory(a) ==
    /\ pc = "idle"
    /\ BeginCall(<<>>, NoSlot, {a})
    /\ \E i \in DOMAIN patches :
          /\ patches[i].addr = a
          /\ is_patch_still_applied(patches[i])
          /\ Undo(i)
    /\ UNCHANGED fault

\* Overwritten by Canon code: the patch stays on the list.
UnpatchOverwritten(a) ==
    /\ pc = "idle"
    /\ \E i \in DOMAIN patches :
          patches[i].addr = a /\ ~ is_patch_still_applied(patches[i])
    /\ pc' = "finish" /\ err' = "OVERWRITTEN"
    /\ batch' = <<>> /\ slot' = NoSlot /\ c' = 1 /\ uncached' = {}
    /\ owned' = Patched /\ named' = {a}
    /\ UNCHANGED <<mem, ri, rerr, cont, fault>>

\* The rollback looks for the addresses now in the caller's array: one that
\* apply_patch made uncacheable is not on the list.
RollbackUndo ==
    /\ pc = "rollback" /\ c <= Len(batch)
    /\ c \notin uncached
    /\ \E i \in DOMAIN patches :
          /\ patches[i].addr = batch[c].addr
          /\ is_patch_still_applied(patches[i])
          /\ Undo(i)
    /\ UNCHANGED <<args, c, err, fault>>

RollbackSkip ==
    /\ pc = "rollback" /\ c <= Len(batch)
    /\ \/ c \in uncached
       \/ \A i \in DOMAIN patches :
             patches[i].addr = batch[c].addr => ~ is_patch_still_applied(patches[i])
    /\ c' = c + 1
    /\ UNCHANGED <<mem, args, pc, err, ri, rerr, cont, fault>>

RollbackEnd ==
    /\ pc = "rollback" /\ c > Len(batch)
    /\ pc' = "finish"
    /\ UNCHANGED <<mem, args, c, err, ri, rerr, cont, fault>>

-----------------------------------------------------------------------------
(* patch_hook_function, sync_caches and the rest of the camera.            *)

\* Mutant: the caches are not synced.
PatchHookUnsynced(r, s) ==
    /\ pc = "idle"
    /\ hooks[s] = NoAddr /\ r.addr \notin OutOfRange
    /\ hooks' = [hooks EXCEPT ![s] = r.addr]
    /\ pc' = "apply"
    /\ BeginCall(<<[r EXCEPT !.insn = TRUE, !.new = s, !.size = 4]>>, s, {r.addr})
    /\ UNCHANGED <<patches, locked, cached, ram, stale, ri, rerr, cont, fault>>

\* Fill a free slot with hook code, sync the caches, then patch one word
\* with a jump to the slot.
PatchHookFunction(r, s) ==
    /\ pc = "idle"
    /\ hooks[s] = NoAddr /\ r.addr \notin OutOfRange
    /\ hooks' = [hooks EXCEPT ![s] = r.addr]
    /\ sync_locked_caches("apply")
    /\ BeginCall(<<[r EXCEPT !.insn = TRUE, !.new = s, !.size = 4]>>, s, {r.addr})
    /\ UNCHANGED <<patches, ram, fault>>

HookRefused(r) ==
    /\ pc = "idle"
    /\ \/ /\ \A s \in Slots : hooks[s] # NoAddr
          /\ err' = "TOO_MANY_PATCHES"
       \/ /\ \E s \in Slots : hooks[s] = NoAddr
          /\ r.addr \in OutOfRange
          /\ err' = "UNKNOWN_ERROR"
    /\ pc' = "finish"
    /\ batch' = <<>> /\ slot' = NoSlot /\ c' = 1 /\ uncached' = {}
    /\ owned' = Patched /\ named' = {r.addr}
    /\ UNCHANGED <<mem, ri, rerr, cont, fault>>

EndCall ==
    /\ pc = "finish" /\ pc' = "idle"
    /\ batch' = <<>> /\ slot' = NoSlot /\ c' = 1 /\ uncached' = {} /\ err' = "OK"
    /\ ri' = 1 /\ rerr' = "OK" /\ cont' = "finish" /\ owned' = {} /\ named' = {}
    /\ UNCHANGED <<patches, locked, cached, ram, stale, fault>>

\* Mutant: the hook is not wiped when its patch failed.
FinishKeep == EndCall /\ UNCHANGED hooks

\* Interrupts come back on; a hook whose patch failed is wiped first.
Finish ==
    /\ EndCall
    /\ hooks' = IF slot # NoSlot /\ err # "OK"
                THEN [hooks EXCEPT ![slot] = NoAddr] ELSE hooks

SyncCaches ==
    /\ pc = "idle"
    /\ sync_locked_caches("finish")
    /\ BeginCall(<<>>, NoSlot, {})
    /\ UNCHANGED <<patches, ram, hooks, fault>>

\* Canon firmware writes a RAM word, patched or not.
CanonWrite(a, v) ==
    /\ pc = "idle"
    /\ ram' = [ram EXCEPT ![a] = v]
    /\ UNCHANGED <<patches, locked, cached, stale, hooks, args, pc, c, err,
                   ri, rerr, cont, fault>>

Init ==
    /\ patches = <<>> /\ locked = FALSE /\ cached = NoLines
    /\ ram \in [Ram -> Val] /\ stale = {}
    /\ hooks = [s \in Slots |-> NoAddr]
    /\ pc = "idle" /\ batch = <<>> /\ c = 1 /\ uncached = {} /\ err = "OK"
    /\ slot = NoSlot /\ ri = 1 /\ rerr = "OK" /\ cont = "finish"
    /\ owned = {} /\ named = {} /\ fault = FALSE

Next ==
    \/ \E b \in Batches : ApplyPatches(b)
    \/ ApplyRefused \/ ApplyRom \/ ApplyRam \/ Push \/ ApplyEnd
    \/ \E a \in Addr : UnpatchMemory(a) \/ UnpatchOverwritten(a)
    \/ RollbackUndo \/ RollbackSkip \/ RollbackEnd
    \/ Reapply \/ ReapplyDone \/ CheckLock
    \/ \E r \in Requests : HookRefused(r) \/ \E s \in Slots : PatchHookFunction(r, s)
    \/ Finish \/ SyncCaches
    \/ \E a \in Ram, v \in Val : CanonWrite(a, v)

Spec == Init /\ [][Next]_vars

-----------------------------------------------------------------------------
(* Properties                                                              *)

PCs == {"idle", "apply", "push", "reapply", "check", "rollback", "finish"}

\* Type correctness: every variable keeps the shape the C declarations give it,
\* and patches_global[] never holds more than MAX_PATCHES entries.
TypeOK ==
    /\ patches \in Seq(Entry) /\ Len(patches) <= MAX_PATCHES
    /\ locked \in BOOLEAN /\ fault \in BOOLEAN
    /\ cached \in [Caches -> [Rom -> Word \cup {NoWord}]]
    /\ ram \in [Ram -> Word]
    /\ stale \subseteq Ram \X Word
    /\ hooks \in [Slots -> Addr \cup {NoAddr}]
    /\ pc \in PCs /\ cont \in PCs
    /\ batch \in Seq(Request)
    /\ c \in Nat \ {0} /\ ri \in Nat \ {0}
    /\ uncached \subseteq Nat
    /\ err \in Errors /\ rerr \in Errors
    /\ slot \in Slots \cup {NoSlot}
    /\ owned \subseteq Addr /\ named \subseteq Addr

\* Every ROM patch on the list is what the CPU sees at its address, whatever
\* was patched, undone, flushed or rolled back since (while the list is being
\* re-applied after a flush: every patch already walked).  It holds although
\* reapply_cache_patch, unlike apply_patch, never looks for a collision.
RomPatchesInEffect ==
    \A k \in DOMAIN patches :
        /\ patches[k].addr \in Rom
        /\ pc = "reapply" => k < ri
        => locked /\ is_patch_still_applied(patches[k])

\* Undoing a ROM patch can only bring back what the ROM chip holds: no entry
\* has recorded another patch's value as the original one.
RomOriginalsRecorded ==
    \A k \in DOMAIN patches :
        patches[k].addr \in Rom => patches[k].old = rom[patches[k].addr]

\* "only lock down cache when there's some ROM address to patch, and unlock it
\* when it's no longer needed" (patch.h): between calls the cache is locked
\* only if a ROM patch is on the list, or one was refused by the hardware.
LockReleased == pc = "idle" /\ locked => RomPatched \/ fault

\* No word the CPU can execute, in RAM, nailed in the locked I-cache or left in
\* the I-cache from before RAM code was rewritten, jumps into a hook slot that is
\* for another address.  A slot that was wiped is jumped to only from what
\* unpatch_memory left unflushed (CodeFlushed), and patch_hook_function flushes
\* that before it gives the slot to another function.
NoDanglingHook ==
    /\ \A a \in Ram : ram[a] \in Slots => hooks[ram[a]] = a
    /\ \A a \in Rom : cached["I"][a] \in Slots => hooks[cached["I"][a]] = a
    /\ \A w \in stale : w[2] \in Slots => hooks[w[2]] \in {w[1], NoAddr}

\* A hook slot in use between calls belongs to a patch on the list, so
\* unpatch_memory can still free it.
NoLeakedHook ==
    pc = "idle" => \A s \in Slots : hooks[s] # NoAddr => hooks[s] \in Patched

\* When apply_patches reports an error, whatever this call added to the list
\* has been taken off again, except patches of RAM code.
RollbackCompleteButRamCode ==
    pc = "finish" /\ err # "OK" =>
        \A k \in DOMAIN patches :
            patches[k].addr \in owned \/ (patches[k].addr \in Ram /\ patches[k].insn)

\* A call takes off the list only patches at addresses it was given, whatever
\* its outcome: the one of unpatch_memory, those in the array of apply_patches.
\* (A batch refused because an address is already patched names that address
\* too, and its rollback removes the earlier patch.)
OthersKept == pc = "finish" => owned \ Patched \subseteq named

\* patch.c: "either apply all patches or none.  If any error is returned, no
\* patches have been applied."
AllOrNone == pc = "finish" /\ err # "OK" => Patched \subseteq owned

\* patch_cache.c, when a RAM instruction is written by patching or unpatching:
\* "will flush the instruction cache later".
CodeFlushed == pc = "idle" => stale = {}

=============================================================================
