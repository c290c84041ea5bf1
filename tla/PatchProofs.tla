---------------------------- MODULE PatchProofs -----------------------------
(***************************************************************************)
(* Type correctness of Patch, what it keeps of ROM patches and of the      *)
(* locked cache, and what whole calls keep: hooks and the jumps to them,   *)
(* and what apply_patches undoes when it fails.  For any set of ROM and    *)
(* RAM words, any placement of the words in cache lines, any request and   *)
(* any number of patches.                                                  *)
(***************************************************************************)
EXTENDS PatchInvariant

\* Shifting the items after position i down by one removes exactly item i.
LEMMA ShiftLemma ==
    ASSUME NEW S, NEW s \in Seq(S), NEW i \in 1..Len(s)
    PROVE  /\ Shift(s, i) \in Seq(S)
           /\ Len(Shift(s, i)) = Len(s) - 1
           /\ \A k \in 1..(Len(s) - 1) :
                 Shift(s, i)[k] = IF k < i THEN s[k] ELSE s[k + 1]
<1>1. Len(s) \in Nat /\ Len(s) - 1 \in Nat
  OBVIOUS
<1>2. \A k \in 1..(Len(s) - 1) : (IF k < i THEN s[k] ELSE s[k + 1]) \in S
  BY <1>1
<1>3. Shift(s, i) \in [1..(Len(s) - 1) -> S]
  BY <1>2, Zenon DEF Shift
<1>4. Shift(s, i) \in Seq(S) /\ Len(Shift(s, i)) = Len(s) - 1
  BY <1>1, <1>3
<1> QED
  BY <1>4, Zenon DEF Shift

\* Appending an entry keeps the list a list of entries and the others in place.
LEMMA AppendLemma ==
    ASSUME NEW S, NEW s \in Seq(S), NEW e \in S
    PROVE  /\ Append(s, e) \in Seq(S)
           /\ Len(Append(s, e)) = Len(s) + 1
           /\ DOMAIN Append(s, e) = 1..(Len(s) + 1)
           /\ \A k \in 1..Len(s) : Append(s, e)[k] = s[k]
           /\ Append(s, e)[Len(s) + 1] = e
  OBVIOUS

\* Reading through the data cache yields a word.
LEMMA DataReadType ==
    ASSUME NEW k \in CacheT, NEW a \in Rom
    PROVE  DataRead(k, a) \in Word
  BY PatchAssumption, Zenon DEF DataRead, CacheT, Caches, Word

\* The empty locked cache.
LEMMA NoLinesLemma ==
    /\ NoLines \in CacheT /\ LinesOf(NoLines)
    /\ \A t \in Caches, a \in Rom : NoLines[t][a] = NoWord
  BY Zenon DEF NoLines, CacheT, LinesOf

\* A caller's array is a sequence of requests.
LEMMA BatchType ==
    ASSUME NEW b \in Batches
    PROVE  b \in Seq(Request) /\ \A k \in DOMAIN b : b[k] \in Requests
<1>1. PICK n \in 1..MaxBatch : b \in [1..n -> Requests]
  BY Zenon DEF Batches
<1>2. n \in Nat /\ Requests \subseteq Request
  BY PatchAssumption
<1> QED
  BY <1>1, <1>2

\* Nailing a word yields a cache.
LEMMA FakeType ==
    ASSUME NEW k \in CacheT, NEW t \in Caches, NEW a \in Rom, NEW v \in Word
    PROVE  cache_fake(k, t, a, v) \in CacheT
<1>1. cache_fetch_line(k, t, a) \in CacheT
  BY DataReadType, Zenon DEF cache_fetch_line, CacheT
<1> QED
  BY <1>1, Zenon DEF cache_fake, CacheT

\* The entries of the list and their addresses.
LEMMA PatchedType ==
    ASSUME TypeOK
    PROVE  /\ \A k \in DOMAIN patches : patches[k] \in Entry /\ patches[k].addr \in Addr
           /\ Patched \subseteq Addr
<1>1. \A k \in DOMAIN patches : patches[k] \in Entry
  BY DEF TypeOK
<1>2. \A k \in DOMAIN patches : patches[k].addr \in Addr
  BY <1>1, Zenon DEF Entry
<1> QED
  BY <1>1, <1>2, Zenon DEF Patched

\* What is recorded of a request is an entry.
LEMMA EntryType ==
    ASSUME NEW p \in Request
    PROVE  EntryOf(p) \in Entry
  BY Zenon DEF EntryOf, Entry, Request

\* Undoing a patch keeps the types, and leaves the list shorter.
LEMMA UndoType ==
    ASSUME TypeOK, NEW i \in DOMAIN patches, Undo(i),
           batch' \in Seq(Request), c' \in Nat \ {0}, uncached' \subseteq Nat,
           slot' \in Slots \cup {NoSlot}, owned' \subseteq Addr, named' \subseteq Addr,
           err' \in Errors, fault' \in BOOLEAN
    PROVE  TypeOK' /\ pc' \in {"reapply", "check"} /\ cont' \in {"check", cont}
           /\ (pc' = "reapply" => cont' = "check")
<1> USE PatchAssumption
<1> DEFINE p == patches[i]
<1>1. patches \in Seq(Entry) /\ i \in 1..Len(patches) /\ p \in Entry
  BY DEF TypeOK
<1>2. patches' \in Seq(Entry) /\ Len(patches') <= MAX_PATCHES
  BY <1>1, ShiftLemma DEF Undo, TypeOK
<1>3. hooks' \in [Slots -> Addr \cup {NoAddr}]
  BY Zenon DEF Undo, TypeOK
<1>4. CASE p.addr \in Rom
  <2>1. p.addr \notin Ram
    BY <1>4, Zenon
  <2>2. /\ locked' = TRUE /\ cached' = NoLines /\ pc' = "reapply" /\ ri' = 1
        /\ rerr' = "OK" /\ cont' = "check" /\ stale' = {} /\ UNCHANGED ram
    BY <2>1, Zenon DEF Undo
  <2> QED
    BY <1>2, <1>3, <2>2, NoLinesLemma DEF TypeOK, PCs, Errors, CacheT
<1>5. CASE p.addr \in Ram
  <2>1. ram' = [ram EXCEPT ![p.addr] = p.old] /\ ram' \in [Ram -> Word]
    BY <1>1, <1>5, Zenon DEF Undo, TypeOK, Entry
  <2>2. CASE FlagAfterShift(i) /\ sync_locked_caches("check")
    BY <1>2, <1>3, <2>1, <2>2, NoLinesLemma DEF Undo, TypeOK, PCs, Errors, CacheT, sync_locked_caches
  <2>3. CASE ~ FlagAfterShift(i)
    <3>1. <<p.addr, p.new>> \in Ram \X Word
      BY <1>1, <1>5 DEF Entry
    <3>2. stale' \subseteq Ram \X Word
      BY <1>5, <2>3, <3>1, Zenon DEF Undo, TypeOK, sync_locked_caches
    <3> QED
      BY <1>1, <1>2, <1>3, <1>5, <2>1, <2>3, <3>2, Zenon DEF Undo, TypeOK, PCs, Errors
  <2> QED
    BY <1>5, <2>2, <2>3, Zenon DEF Undo
<1> QED
  BY <1>1, <1>4, <1>5, Zenon DEF Entry, Addr

\* An error reported by the checks is one of the error codes.
LEMMA CheckErrorType ==
    ASSUME NEW p
    PROVE  /\ CheckError(p) \in Errors
           /\ CheckError(p) = "OK" => /\ p.addr \notin Patched
                                      /\ ~ (Len(patches) >= MAX_PATCHES)
                                      /\ read_value(cached, p.addr, p.insn) = p.old
  BY Zenon DEF CheckError, Errors

(* One lemma per action: it keeps TypeInv.                                 *)

\* apply_patches begins: the call it starts is one of the calls.
LEMMA ApplyPatchesType ==
    ASSUME TypeInv, NEW b \in Batches, ApplyPatches(b)
    PROVE  TypeInv'
<1> USE PatchAssumption
<1>T. TypeOK /\ PushInv
  BY Zenon DEF TypeInv
<1>1. Patched \subseteq Addr
  BY <1>T, PatchedType, Zenon
<1>2. b \in Seq(Request) /\ \A k \in DOMAIN b : b[k].addr \in Addr
  <2>1. b \in Seq(Request)
    BY BatchType, Zenon
  <2>2. \A k \in DOMAIN b : b[k] \in Request
    BY <2>1
  <2> QED
    BY <2>1, <2>2, Zenon DEF Request
<1>3. AddrsOf(b) \subseteq Addr
  BY <1>2, Zenon DEF AddrsOf
<1> QED
  BY <1>T, <1>1, <1>2, <1>3 DEF ApplyPatches, BeginCall, mem, TypeInv, TypeOK, PushInv, PCs, Errors

\* apply_patches refuses the patch it is at and turns to the rollback.
LEMMA ApplyRefusedType ==
    ASSUME TypeInv, ApplyRefused
    PROVE  TypeInv'
<1>0. TypeOK /\ PushInv
  BY Zenon DEF TypeInv
<1> QED
  BY PatchAssumption, <1>0, CheckErrorType DEF ApplyRefused, Fail, mem, args, TypeInv, TypeOK, PushInv, PCs

\* A ROM patch goes into the list and its word into the cache.
LEMMA ApplyRomType ==
    ASSUME TypeInv, ApplyRom
    PROVE  TypeInv'
<1> USE PatchAssumption
<1>T. TypeOK /\ PushInv
  BY Zenon DEF TypeInv
<1> DEFINE p == batch[c]
           k == IF locked THEN cached ELSE NoLines
           f == cache_fake(k, CacheType(p), p.addr, p.new)
<1>0. /\ p \in Request /\ p.addr \in Rom /\ CheckError(p) = "OK" /\ pc = "apply"
  BY <1>T DEF ApplyRom, TypeOK
<1>1. EntryOf(p) \in Entry /\ Len(patches) + 1 <= MAX_PATCHES
  BY <1>T, <1>0, CheckErrorType, EntryType DEF TypeOK
<1>2. k \in CacheT /\ f \in CacheT
  BY <1>T, <1>0, FakeType, NoLinesLemma, Zenon DEF TypeOK, CacheT, CacheType, Caches, Request
<1>3. cached' \in CacheT /\ locked' = TRUE
  BY <1>2, Zenon DEF ApplyRom
<1>3a. patches' = patches \/ patches' = Append(patches, EntryOf(p))
  BY Zenon DEF ApplyRom
<1>4. /\ patches' \in Seq(Entry) /\ Len(patches') <= MAX_PATCHES
  <2>1. patches \in Seq(Entry) /\ Len(patches) <= MAX_PATCHES
    BY <1>T, Zenon DEF TypeOK
  <2>2. /\ Append(patches, EntryOf(p)) \in Seq(Entry)
        /\ Len(Append(patches, EntryOf(p))) = Len(patches) + 1
    BY <1>1, <2>1, AppendLemma, Zenon
  <2> QED
    BY <1>1, <1>3a, <2>1, <2>2, Zenon
<1>4a. /\ pc' = "rollback" \/ pc' = pc
       /\ c' = 1 \/ c' = c + 1
       /\ fault' = TRUE \/ fault' = fault
       /\ err' \in {"OK", "CACHE_COLLISION", "CACHE_ERROR"}
  BY Zenon DEF ApplyRom, Fail
<1>5. pc' \in {"apply", "rollback"} /\ c' \in Nat \ {0} /\ err' \in Errors
  BY <1>T, <1>0, <1>4a DEF Errors, TypeOK
<1>5a. fault' \in BOOLEAN
  BY <1>T, <1>4a, Zenon DEF TypeOK
<1>6. UNCHANGED <<ram, hooks, args, ri, rerr, cont>> /\ stale' \in {stale, {}}
  BY Zenon DEF ApplyRom
<1> HIDE DEF p, k, f
<1> QED
  BY <1>T, <1>3, <1>4, <1>5, <1>5a, <1>6, Zenon DEF args, CacheT, TypeInv, TypeOK, PushInv, PCs

\* A RAM patch goes into the list and its word into memory.
LEMMA ApplyRamType ==
    ASSUME TypeInv, ApplyRam
    PROVE  TypeInv'
<1> USE PatchAssumption
<1>T. TypeOK /\ PushInv
  BY DEF TypeInv
<1> DEFINE p == batch[c]
<1>1. /\ p \in Request /\ p.addr \in Ram /\ p.addr \notin Patched /\ c \in DOMAIN batch
      /\ EntryOf(p) \in Entry /\ Len(patches) < MAX_PATCHES /\ Len(patches) + 1 <= MAX_PATCHES
  <2>1. p \in Request /\ p.addr \in Ram /\ CheckError(p) = "OK" /\ c \in DOMAIN batch
    BY <1>T DEF ApplyRam, TypeOK
  <2> QED
    BY <1>T, <2>1, CheckErrorType, EntryType DEF TypeOK
<1>2. /\ ram' \in [Ram -> Word] /\ err' = "OK"
      /\ UNCHANGED <<hooks, batch, slot, owned, named, fault>>
  BY <1>T, <1>1, Zenon DEF ApplyRam, TypeOK, Request
<1>3. CASE p.insn
  <2>1. /\ uncached' = uncached \cup {c} /\ UNCHANGED <<patches, c>>
        /\ sync_locked_caches("push")
    BY <1>3, Zenon DEF ApplyRam
  <2>2. Patched' = Patched
    BY <2>1, Zenon DEF Patched
  <2> QED
    BY <1>T, <1>1, <1>2, <2>1, <2>2, NoLinesLemma
    DEF sync_locked_caches, CacheT, TypeInv, TypeOK, PushInv, PCs, Errors
<1>4. CASE ~ p.insn
  <2>1. /\ patches' = Append(patches, EntryOf(p)) /\ c' = c + 1
        /\ UNCHANGED <<locked, cached, stale, uncached, pc, ri, rerr, cont>>
    BY <1>4, Zenon DEF ApplyRam
  <2>2. /\ patches' \in Seq(Entry) /\ Len(patches') <= MAX_PATCHES
    BY <1>T, <1>1, <2>1, AppendLemma DEF TypeOK
  <2>3. pc = "apply"
    BY Zenon DEF ApplyRam
  <2> QED
    BY <1>T, <1>2, <2>1, <2>2, <2>3 DEF TypeInv, TypeOK, PushInv, Errors
<1> QED
  BY <1>3, <1>4, Zenon

\* The entry of a RAM instruction is stored once the caches are flushed; it still fits.
LEMMA PushType ==
    ASSUME TypeInv, Push
    PROVE  TypeInv'
<1> USE PatchAssumption
<1>T. TypeOK /\ PushInv
  BY DEF TypeInv
<1>1. /\ c \in DOMAIN batch /\ Len(patches) < MAX_PATCHES /\ EntryOf(batch[c]) \in Entry
  <2>1. c \in DOMAIN batch /\ Len(patches) < MAX_PATCHES /\ batch[c] \in Request
    BY <1>T DEF Push, PushInv, TypeOK
  <2> QED
    BY <2>1, EntryType, Zenon
<1>2. patches' \in Seq(Entry) /\ Len(patches') <= MAX_PATCHES
  BY <1>T, <1>1, AppendLemma DEF Push, TypeOK
<1> QED
  BY <1>T, <1>2 DEF Push, args, TypeInv, TypeOK, PushInv, PCs

\* apply_patches has applied the last patch.
LEMMA ApplyEndType ==
    ASSUME TypeInv, ApplyEnd
    PROVE  TypeInv'
<1>0. TypeOK /\ PushInv
  BY DEF TypeInv
<1> QED
  BY PatchAssumption, <1>0 DEF ApplyEnd, mem, args, TypeInv, TypeOK, PushInv, PCs

\* unpatch_memory removes the entry of its address and restores the word.
LEMMA UnpatchMemoryType ==
    ASSUME TypeInv, NEW a \in Addr, UnpatchMemory(a)
    PROVE  TypeInv'
<1> USE PatchAssumption
<1>T. TypeOK /\ PushInv
  BY Zenon DEF TypeInv
<1>1. PICK i \in DOMAIN patches : Undo(i)
  BY Zenon DEF UnpatchMemory
<1>2. Patched \subseteq Addr
  BY <1>T, PatchedType, Zenon
<1>3. UNCHANGED fault /\ BeginCall(<<>>, NoSlot, {a})
  BY SMTT(30) DEF UnpatchMemory
<1> QED
  BY <1>T, <1>1, <1>2, <1>3, UndoType DEF BeginCall, TypeInv, TypeOK, PushInv, Errors

\* unpatch_memory finds that somebody else has written to the address.
LEMMA UnpatchOverwrittenType ==
    ASSUME TypeInv, NEW a \in Addr, UnpatchOverwritten(a)
    PROVE  TypeInv'
<1> USE PatchAssumption
<1>T. TypeOK /\ PushInv
  BY DEF TypeInv
<1>1. Patched \subseteq Addr
  BY <1>T, PatchedType, Zenon
<1> QED
  BY <1>T, <1>1 DEF UnpatchOverwritten, mem, TypeInv, TypeOK, PushInv, PCs, Errors

\* The rollback of apply_patches removes a patch it had applied.
LEMMA RollbackUndoType ==
    ASSUME TypeInv, RollbackUndo
    PROVE  TypeInv'
<1> USE PatchAssumption
<1>T. TypeOK /\ PushInv
  BY DEF TypeInv
<1>1. PICK i \in DOMAIN patches : Undo(i)
  BY Zenon DEF RollbackUndo
<1> QED
  BY <1>T, <1>1, UndoType, Zenon DEF RollbackUndo, args, TypeInv, TypeOK, PushInv

\* The rollback passes over a patch that was never applied.
LEMMA RollbackSkipType ==
    ASSUME TypeInv, RollbackSkip
    PROVE  TypeInv'
<1>0. TypeOK /\ PushInv
  BY DEF TypeInv
<1> QED
  BY PatchAssumption, <1>0 DEF RollbackSkip, mem, args, TypeInv, TypeOK, PushInv

\* The rollback has reached the first patch of the call.
LEMMA RollbackEndType ==
    ASSUME TypeInv, RollbackEnd
    PROVE  TypeInv'
<1>0. TypeOK /\ PushInv
  BY DEF TypeInv
<1> QED
  BY PatchAssumption, <1>0, Zenon DEF RollbackEnd, mem, args, TypeInv, TypeOK, PushInv, PCs

\* reapply_cache_patches puts the next patch back into the cache.
LEMMA ReapplyType ==
    ASSUME TypeInv, Reapply
    PROVE  TypeInv'
<1> USE PatchAssumption
<1>T. TypeOK /\ PushInv
  BY DEF TypeInv
<1> DEFINE p == patches[ri]
           k == cache_fake(cached, CacheType(p), p.addr, p.new)
<1>1. p \in Entry
  BY <1>T DEF Reapply, TypeOK
<1>2. p.addr \in Rom => k \in CacheT
  BY <1>T, <1>1, FakeType, Zenon DEF TypeOK, CacheT, CacheType, Caches, Entry
<1>3. cached' \in CacheT /\ rerr' \in Errors
  BY <1>T, <1>2, Zenon DEF Reapply, TypeOK, CacheT, Errors
<1>4. /\ ri' = ri + 1
      /\ UNCHANGED <<patches, locked, ram, stale, hooks, args, pc, c, err, cont, fault>>
  BY Zenon DEF Reapply
<1>5. Patched' = Patched
  BY <1>4, Zenon DEF Patched
<1> HIDE DEF p, k
<1> QED
  BY <1>T, <1>3, <1>4, <1>5 DEF args, CacheT, TypeInv, TypeOK, PushInv

\* reapply_cache_patches has put back every patch.
LEMMA ReapplyDoneType ==
    ASSUME TypeInv, ReapplyDone
    PROVE  TypeInv'
<1> USE PatchAssumption
<1>T. TypeOK /\ PushInv
  BY DEF TypeInv
<1>1. Patched' = Patched
  BY SMTT(30) DEF ReapplyDone, mem, Patched
<1> QED
  BY <1>T, <1>1, Zenon DEF ReapplyDone, mem, args, TypeInv, TypeOK, PushInv

\* check_cache_lock_still_needed unlocks the cache or leaves it.
LEMMA CheckLockType ==
    ASSUME TypeInv, CheckLock
    PROVE  TypeInv'
<1> USE PatchAssumption
<1>T. TypeOK /\ PushInv
  BY DEF TypeInv
<1>1. cached' \in CacheT /\ locked' \in BOOLEAN
  BY <1>T, NoLinesLemma, Zenon DEF CheckLock, TypeOK, CacheT, RomPatched
<1>2. /\ fault' \in BOOLEAN /\ UNCHANGED <<patches, ram, hooks, args, ri, rerr, cont>>
      /\ stale' \in {stale, {}}
  BY Zenon DEF CheckLock
<1>3. pc' \in {"finish", "rollback"} /\ err' \in {err, rerr} /\ c' \in {c, c + 1}
  BY Zenon DEF CheckLock
<1> QED
  BY <1>T, <1>1, <1>2, <1>3 DEF args, CacheT, TypeInv, TypeOK, PushInv, PCs

\* patch_hook_function refuses before it has taken anything.
LEMMA HookRefusedType ==
    ASSUME TypeInv, NEW r \in Requests, HookRefused(r)
    PROVE  TypeInv'
<1> USE PatchAssumption
<1>T. TypeOK /\ PushInv
  BY Zenon DEF TypeInv
<1>1. Patched \subseteq Addr
  BY <1>T, PatchedType, Zenon
<1>2. r.addr \in Addr
  BY Zenon DEF Request
<1> QED
  BY <1>T, <1>1, <1>2 DEF HookRefused, mem, TypeInv, TypeOK, PushInv, PCs, Errors

\* patch_hook_function takes a hook slot and goes on as apply_patches.
LEMMA PatchHookFunctionType ==
    ASSUME TypeInv, NEW r \in Requests, NEW s \in Slots, PatchHookFunction(r, s)
    PROVE  TypeInv'
<1> USE PatchAssumption
<1>T. TypeOK /\ PushInv
  BY Zenon DEF TypeInv
<1>1. Patched \subseteq Addr
  BY <1>T, PatchedType, Zenon
<1>2. [r EXCEPT !.insn = TRUE, !.new = s, !.size = 4] \in Request /\ r.addr \in Addr
  BY Zenon DEF Request, Word
<1>3. <<[r EXCEPT !.insn = TRUE, !.new = s, !.size = 4]>> \in Seq(Request)
  BY <1>2
<1>4. hooks' \in [Slots -> Addr \cup {NoAddr}]
  BY <1>T, <1>2, Zenon DEF PatchHookFunction, TypeOK
<1>5. /\ sync_locked_caches("apply") /\ UNCHANGED <<patches, ram, fault>>
      /\ BeginCall(<<[r EXCEPT !.insn = TRUE, !.new = s, !.size = 4]>>, s, {r.addr})
  BY Zenon DEF PatchHookFunction
<1> QED
  BY <1>T, <1>1, <1>2, <1>3, <1>4, <1>5, NoLinesLemma
  DEF sync_locked_caches, BeginCall, CacheT, TypeInv, TypeOK, PushInv, PCs, Errors

\* A call that changed something returns.
LEMMA FinishType ==
    ASSUME TypeInv, Finish
    PROVE  TypeInv'
<1>0. TypeOK /\ PushInv
  BY DEF TypeInv
<1> QED
  BY PatchAssumption, <1>0 DEF Finish, EndCall, TypeInv, TypeOK, PushInv, PCs, Errors

\* sync_caches flushes and the patches are to be put back.
LEMMA SyncCachesType ==
    ASSUME TypeInv, SyncCaches
    PROVE  TypeInv'
<1> USE PatchAssumption
<1>T. TypeOK /\ PushInv
  BY DEF TypeInv
<1>1. Patched \subseteq Addr
  BY <1>T, PatchedType, Zenon
<1> QED
  BY <1>T, <1>1, NoLinesLemma
  DEF SyncCaches, sync_locked_caches, BeginCall, CacheT, TypeInv, TypeOK, PushInv, PCs, Errors

\* Canon's code writes to RAM and touches nothing of the patch manager.
LEMMA CanonWriteType ==
    ASSUME TypeInv, NEW a \in Ram, NEW v \in Val, CanonWrite(a, v)
    PROVE  TypeInv'
<1> USE PatchAssumption
<1>T. TypeOK /\ PushInv
  BY Zenon DEF TypeInv
<1>1. ram' \in [Ram -> Word]
  BY <1>T, Zenon DEF CanonWrite, TypeOK, Word
<1> QED
  BY <1>T, <1>1, Zenon DEF CanonWrite, args, TypeInv, TypeOK, PushInv

\* Nothing changes.
LEMMA StutterType ==
    ASSUME TypeInv, UNCHANGED vars
    PROVE  TypeInv'
<1> USE PatchAssumption
<1>T. TypeOK /\ PushInv
  BY Zenon DEF TypeInv
<1>1. Patched' = Patched
  BY Zenon DEF vars, mem, Patched
<1> QED
  BY <1>T, <1>1, Zenon DEF vars, mem, args, TypeInv, TypeOK, PushInv

\* Every step keeps TypeInv.
LEMMA TypeStep == TypeInv /\ [Next]_vars => TypeInv'
  BY ApplyPatchesType, ApplyRefusedType, ApplyRomType, ApplyRamType,
     PushType, ApplyEndType, UnpatchMemoryType, UnpatchOverwrittenType,
     RollbackUndoType, RollbackSkipType, RollbackEndType, ReapplyType,
     ReapplyDoneType, CheckLockType, HookRefusedType,
     PatchHookFunctionType, FinishType, SyncCachesType, CanonWriteType,
     StutterType, Zenon
  DEF Next

\* TypeInv holds before the first call.
LEMMA TypeInit == Init => TypeInv
<1> SUFFICES ASSUME Init PROVE TypeInv
  BY Zenon
<1>1. ram \in [Ram -> Word]
  BY Zenon DEF Init, Word
<1>2. hooks \in [Slots -> Addr \cup {NoAddr}] /\ patches \in Seq(Entry) /\ Len(patches) = 0
  BY DEF Init
<1>3. locked \in BOOLEAN /\ fault \in BOOLEAN
  BY Zenon DEF Init
<1>4. cached \in [Caches -> [Rom -> Word \cup {NoWord}]]
  BY NoLinesLemma, Zenon DEF Init, CacheT
<1> QED
  BY <1>1, <1>2, <1>3, <1>4, PatchAssumption
  DEF Init, TypeInv, TypeOK, PushInv, PCs, Errors

\* The library's tables keep their types, and patches_global[] is never
\* overrun, for every MAX_PATCHES and every sequence of calls.
THEOREM TypeCorrect == Spec => []TypeOK
<1>1. TypeInv => TypeOK
  BY Zenon DEF TypeInv
<1> QED
  BY TypeInit, TypeStep, <1>1, PTL DEF Spec

-----------------------------------------------------------------------------
(* The locked cache.                                                       *)

\* What nailing a word changes: the word itself, and in its cache only words
\* of the same index; a word of a line that stays keeps its value.
LEMMA FakeLemma ==
    ASSUME NEW k \in CacheT, NEW t \in Caches, NEW a \in Rom, NEW v \in Word,
           LinesOf(k), a \notin Unfakeable
    PROVE  LET f == cache_fake(k, t, a, v) IN
           /\ f \in CacheT /\ f[t][a] = v
           /\ \A u \in Caches : u # t => f[u] = k[u]
           /\ \A b \in Rom \ {a} : f[t][b] \in {NoWord, k[t][b], DataRead(k, b)}
           /\ \A b \in Rom \ {a} :
                 k[t][b] # NoWord /\ (Index[b] = Index[a] => Tag[b] = Tag[a])
                 => f[t][b] = k[t][b]
           /\ LinesOf(f)
<1> DEFINE g == IF k[t][a] # NoWord THEN k ELSE cache_fetch_line(k, t, a)
           f == [g EXCEPT ![t] = [g[t] EXCEPT ![a] = v]]
<1>1. cache_fake(k, t, a, v) = f
  BY Zenon DEF cache_fake
<1>2. g \in CacheT
  <2>1. cache_fetch_line(k, t, a) \in CacheT
    BY DataReadType, Zenon DEF cache_fetch_line, CacheT
  <2> QED
    BY <2>1, Zenon
<1>3. f \in CacheT /\ f[t][a] = v /\ \A b \in Rom \ {a} : f[t][b] = g[t][b]
  BY <1>2, Zenon DEF CacheT
<1>4. \A u \in Caches : u # t => f[u] = k[u]
  BY <1>2, Zenon DEF CacheT, cache_fetch_line
<1>5. CASE k[t][a] # NoWord
  <2>1. g = k
    BY <1>5, Zenon
  <2>2. \A u \in Caches, b \in Rom : f[u][b] # NoWord <=> k[u][b] # NoWord
    BY <1>3, <1>4, <1>5, <2>1, PatchAssumption, Zenon DEF CacheT
  <2>3. LinesOf(f)
    BY <2>2 DEF LinesOf
  <2> HIDE DEF f, g
  <2> QED
    BY <1>1, <1>3, <1>4, <2>1, <2>3, Zenon
<1>6. CASE k[t][a] = NoWord
  <2>1. \A b \in Rom : g[t][b] = IF SameLine(a, b) THEN DataRead(k, b)
                                 ELSE IF Index[b] = Index[a] THEN NoWord ELSE k[t][b]
    BY <1>6, Zenon DEF cache_fetch_line, CacheT
  <2> HIDE DEF f, g
  <2>2. \A b \in Rom : SameLine(a, b) => k[t][b] = NoWord
    BY <1>6, Zenon DEF LinesOf, SameLine
  <2>3. \A b \in Rom : DataRead(k, b) # NoWord
    BY DataReadType, PatchAssumption, Zenon
  <2>4. \A b \in Rom : Index[b] = Index[a] => (f[t][b] # NoWord <=> Tag[b] = Tag[a])
    BY <1>3, <2>1, <2>3, PatchAssumption, Zenon DEF SameLine
  <2>5. \A b \in Rom : Index[b] # Index[a] => f[t][b] = k[t][b]
    BY <1>3, <2>1, Zenon DEF SameLine
  <2>6. LinesOf(f)
    BY <1>4, <2>4, <2>5 DEF LinesOf
  <2>7. \A b \in Rom \ {a} :
           k[t][b] # NoWord /\ (Index[b] = Index[a] => Tag[b] = Tag[a])
           => f[t][b] = k[t][b]
    BY <2>2, <2>5, Zenon DEF SameLine
  <2>8. \A b \in Rom \ {a} : f[t][b] \in {NoWord, k[t][b], DataRead(k, b)}
    BY <1>3, <2>1, Zenon
  <2> QED
    BY <1>1, <1>3, <1>4, <2>6, <2>7, <2>8, Zenon
<1> QED
  BY <1>5, <1>6, Zenon

-----------------------------------------------------------------------------
(* The invariant of the list and of the locked cache.                      *)

\* Removing a patch keeps the invariant of the list.
LEMMA ListShift ==
    ASSUME NEW s \in Seq(Entry), NEW i \in 1..Len(s), ListInv(s)
    PROVE  ListInv(Shift(s, i))
<1> DEFINE r == Shift(s, i)
           m(k) == IF k < i THEN k ELSE k + 1
<1>1. DOMAIN r = 1..(Len(s) - 1) /\ DOMAIN s = 1..Len(s) /\ Len(s) \in Nat
  BY DEF Shift
<1>2. \A k \in DOMAIN r : r[k] = s[m(k)] /\ m(k) \in DOMAIN s
  BY <1>1 DEF Shift
<1>3. \A j, k \in DOMAIN r : m(j) = m(k) => j = k
  BY <1>1
<1> HIDE DEF r, m
<1> QED
  BY <1>1, <1>2, <1>3 DEF ListInv, r

\* Removing a patch of RAM keeps the account of the cached ROM words.
LEMMA CacheShift ==
    ASSUME NEW s \in Seq(Entry), NEW i \in 1..Len(s), NEW k, s[i].addr \in Ram,
           ContentsOf(s, k), NailedOf(s, k, Len(s) + 1)
    PROVE  /\ ContentsOf(Shift(s, i), k)
           /\ NailedOf(Shift(s, i), k, Len(Shift(s, i)) + 1)
<1> DEFINE r == Shift(s, i)
           m(n) == IF n < i THEN n ELSE n + 1
<1>1. DOMAIN r = 1..(Len(s) - 1) /\ DOMAIN s = 1..Len(s) /\ Len(s) \in Nat
  BY DEF Shift
<1>2. \A n \in DOMAIN r : r[n] = s[m(n)] /\ m(n) \in DOMAIN s
  BY <1>1 DEF Shift
<1>3. \A j \in DOMAIN s : s[j].addr \in Rom => \E n \in DOMAIN r : r[n] = s[j]
  <2> SUFFICES ASSUME NEW j \in DOMAIN s, s[j].addr \in Rom
               PROVE  \E n \in DOMAIN r : r[n] = s[j]
    BY Zenon
  <2>1. j # i
    BY PatchAssumption, Zenon
  <2>2. CASE j < i
    BY <1>1, <1>2, <2>2
  <2>3. CASE j > i
    <3>1. j - 1 \in DOMAIN r /\ m(j - 1) = j
      BY <1>1, <2>3
    <3> QED
      BY <1>2, <3>1, Zenon
  <2> QED
    BY <1>1, <2>1, <2>2, <2>3
<1>4. ContentsOf(r, k)
  <2> HIDE DEF r, m
  <2> QED
    BY <1>3 DEF ContentsOf
<1>5. NailedOf(r, k, Len(r) + 1)
  <2>1. \A n \in DOMAIN r : m(n) < Len(s) + 1
    BY <1>1
  <2> HIDE DEF r, m
  <2> QED
    BY <1>2, <2>1, Zenon DEF NailedOf
<1> QED
  BY <1>4, <1>5, Zenon

\* Appending a patch keeps the invariant of the list when apply_patches has
\* checked its address, its old value and its place in the cache.
LEMMA ListAppend ==
    ASSUME NEW s \in Seq(Entry), NEW e \in Entry, ListInv(s),
           \A j \in DOMAIN s : s[j].addr # e.addr,
           e.addr \in Rom => e.old = rom[e.addr],
           Real(e) => /\ e.addr \notin Unfakeable
                      /\ \A j \in DOMAIN s :
                            /\ Real(s[j]) /\ s[j].insn = e.insn
                            /\ Index[s[j].addr] = Index[e.addr]
                            => Tag[s[j].addr] = Tag[e.addr]
    PROVE  ListInv(Append(s, e))
<1> DEFINE r == Append(s, e)
<1>1. /\ Len(s) \in Nat /\ DOMAIN s = 1..Len(s) /\ DOMAIN r = 1..(Len(s) + 1)
      /\ \A j \in DOMAIN s : r[j] = s[j]
      /\ r[Len(s) + 1] = e
  BY AppendLemma
<1>2. DOMAIN r = DOMAIN s \cup {Len(s) + 1}
  BY <1>1
<1> HIDE DEF r
<1> QED
  BY <1>1, <1>2 DEF ListInv, r

\* The account of the cached words survives the append of a patch, which is
\* not itself nailed yet.
LEMMA CacheAppend ==
    ASSUME NEW s \in Seq(Entry), NEW e \in Entry, NEW k,
           ContentsOf(s, k), NailedOf(s, k, Len(s) + 1)
    PROVE  /\ ContentsOf(Append(s, e), k)
           /\ NailedOf(Append(s, e), k, Len(s) + 1)
           /\ ~ Real(e) => NailedOf(Append(s, e), k, Len(Append(s, e)) + 1)
<1> DEFINE r == Append(s, e)
<1>1. /\ Len(s) \in Nat /\ DOMAIN s = 1..Len(s) /\ DOMAIN r = 1..(Len(s) + 1)
      /\ Len(r) = Len(s) + 1
      /\ \A j \in DOMAIN s : r[j] = s[j]
      /\ r[Len(s) + 1] = e
  BY AppendLemma
<1>2. DOMAIN r = DOMAIN s \cup {Len(s) + 1}
  BY <1>1
<1>3. \A j \in DOMAIN s : j < Len(s) + 1
  BY <1>1
<1>4. \A j \in DOMAIN r : j < Len(s) + 1 => j \in DOMAIN s
  BY <1>1
<1> HIDE DEF r
<1>5. ContentsOf(r, k)
  BY <1>1, <1>2 DEF ContentsOf
<1>6. NailedOf(r, k, Len(s) + 1)
  BY <1>1, <1>3, <1>4, Zenon DEF NailedOf
<1>7. ~ Real(e) => NailedOf(r, k, Len(r) + 1)
  BY <1>1, <1>2, <1>3, Zenon DEF NailedOf
<1> QED
  BY <1>5, <1>6, <1>7, Zenon DEF r

\* Nailing patch n of the list, once the patches before it are nailed and none
\* of them competes with it for a line.
LEMMA NailLemma ==
    ASSUME NEW s \in Seq(Entry), NEW n \in DOMAIN s, NEW k \in CacheT,
           s[n].addr \in Rom, s[n].addr \notin Unfakeable,
           LinesOf(k), ContentsOf(s, k), NailedOf(s, k, n),
           \A j \in DOMAIN s : s[j].addr = s[n].addr => j = n,
           \A j \in DOMAIN s :
              /\ j < n /\ Real(s[j]) /\ s[j].insn = s[n].insn
              /\ Index[s[j].addr] = Index[s[n].addr]
              => Tag[s[j].addr] = Tag[s[n].addr]
    PROVE  LET f == cache_fake(k, CacheType(s[n]), s[n].addr, s[n].new) IN
           LinesOf(f) /\ ContentsOf(s, f) /\ NailedOf(s, f, n + 1)
<1> DEFINE p == s[n]
           t == CacheType(p)
           a == p.addr
           f == cache_fake(k, t, a, p.new)
<1>1. /\ p \in Entry /\ p.new \in Word /\ t \in Caches /\ p.insn \in BOOLEAN
      /\ n \in Nat /\ \A j \in DOMAIN s : j \in Nat /\ s[j] \in Entry
  <2>1. n \in Nat /\ \A j \in DOMAIN s : j \in Nat /\ s[j] \in Entry
    OBVIOUS
  <2>2. p \in Entry
    BY <2>1, Zenon
  <2>3. p.new \in Word /\ p.insn \in BOOLEAN
    BY <2>2, Zenon DEF Entry
  <2> QED
    BY <2>1, <2>2, <2>3, Zenon DEF CacheType, Caches
<1>2. /\ f \in CacheT /\ f[t][a] = p.new
      /\ \A u \in Caches : u # t => f[u] = k[u]
      /\ \A b \in Rom \ {a} : f[t][b] \in {NoWord, k[t][b], DataRead(k, b)}
      /\ \A b \in Rom \ {a} :
            k[t][b] # NoWord /\ (Index[b] = Index[a] => Tag[b] = Tag[a])
            => f[t][b] = k[t][b]
      /\ LinesOf(f)
  BY <1>1, FakeLemma, Zenon
<1> HIDE DEF f
<1>3. ContentsOf(s, f)
  <2>1. CASE p.insn
    <3>1. t = "I" /\ f["D"] = k["D"]
      BY <1>2, <2>1, Zenon DEF CacheType, Caches
    <3> QED
      BY <1>2, <3>1 DEF ContentsOf, DataRead
  <2>2. CASE ~ p.insn
    <3>1. t = "D" /\ f["I"] = k["I"]
      BY <1>2, <2>2, Zenon DEF CacheType, Caches
    <3> QED
      BY <1>2, <2>2, <3>1 DEF ContentsOf, DataRead
  <2> QED
    BY <2>1, <2>2, Zenon
<1>4. NailedOf(s, f, n + 1)
  <2> SUFFICES ASSUME NEW j \in DOMAIN s, Real(s[j]), j < n + 1
               PROVE  f[CacheType(s[j])][s[j].addr] = s[j].new
    BY Zenon DEF NailedOf
  <2>1. CASE j = n
    BY <1>2, <2>1, Zenon
  <2>2. CASE j < n
    <3>1. k[CacheType(s[j])][s[j].addr] = s[j].new /\ s[j].addr \in Rom \ {a}
      BY <1>1, <2>2 DEF NailedOf, Real
    <3>2. s[j].new # NoWord /\ s[j].insn \in BOOLEAN /\ CacheType(s[j]) \in Caches
      BY <1>1, PatchAssumption, Zenon DEF Entry, CacheType, Caches
    <3>3. CASE CacheType(s[j]) # t
      BY <1>2, <3>1, <3>2, <3>3, Zenon
    <3>4. CASE CacheType(s[j]) = t
      <4>1. s[j].insn = p.insn
        BY <1>1, <3>2, <3>4, Zenon DEF CacheType
      <4>2. Index[s[j].addr] = Index[a] => Tag[s[j].addr] = Tag[a]
        BY <2>2, <4>1, Zenon
      <4> QED
        BY <1>2, <3>1, <3>2, <3>4, <4>2, Zenon
    <3> QED
      BY <3>3, <3>4, Zenon
  <2> QED
    BY <1>1, <2>1, <2>2
<1> QED
  BY <1>2, <1>3, <1>4, Zenon DEF f

\* A ROM patch that changes nothing is always in effect; one that changes
\* something is in effect only through its own line.
LEMMA ReadPatch ==
    ASSUME TypeOK, ListInv(patches), ContentsOf(patches, cached),
           NEW j \in DOMAIN patches, patches[j].addr \in Rom
    PROVE  LET p == patches[j] IN
           /\ ~ Real(p) => is_patch_still_applied(p)
           /\ Real(p) => (is_patch_still_applied(p) <=> cached[CacheType(p)][p.addr] = p.new)
<1> DEFINE p == patches[j]
<1>1. p.new \in Word /\ p.new # NoWord /\ p.insn \in BOOLEAN /\ p.addr \notin Ram
  <2>1. p \in Entry
    BY DEF TypeOK
  <2>2. p.new \in Word /\ p.insn \in BOOLEAN
    BY <2>1, Zenon DEF Entry
  <2> QED
    BY <2>2, PatchAssumption, Zenon
<1>2. \A i \in DOMAIN patches : patches[i].addr = p.addr => i = j
  BY Zenon DEF ListInv
<1>3. cached["D"][p.addr] \in {NoWord, rom[p.addr]} \/ (~ p.insn /\ cached["D"][p.addr] = p.new)
  BY <1>2 DEF ContentsOf
<1>4. cached["I"][p.addr] \in {NoWord, rom[p.addr], p.new}
  BY <1>2 DEF ContentsOf
<1> QED
  BY <1>1, <1>3, <1>4 DEF is_patch_still_applied, read_value, DataRead, Real, CacheType

\* Before a ROM word is patched, reads of it give what the chip holds.
LEMMA ReadUnpatched ==
    ASSUME ContentsOf(patches, cached), NEW a \in Rom, a \notin Patched, NEW n \in BOOLEAN
    PROVE  read_value(cached, a, n) = rom[a]
<1>1. \A i \in DOMAIN patches : patches[i].addr # a
  BY Zenon DEF Patched
<1>2. cached["D"][a] \in {NoWord, rom[a]} /\ cached["I"][a] \in {NoWord, rom[a]}
  BY <1>1, Zenon DEF ContentsOf
<1> QED
  BY <1>2, PatchAssumption, Zenon DEF read_value, DataRead

\* Steps that touch neither the list nor the caches.
LEMMA QuietStep ==
    ASSUME TypeOK, Core, UNCHANGED <<patches, locked, cached, fault>>,
           pc \notin {"reapply", "check"}, pc' # "reapply"
    PROVE  Core'
<1>1. RomPatched' = RomPatched /\ Walked' = Walked
  BY Zenon DEF RomPatched, Walked
<1> QED
  BY <1>1, Zenon DEF Core, CacheInv, LockInv

\* A flush of the I-cache, which empties a locked cache and starts the walk.
LEMMA SyncStep ==
    ASSUME TypeOK, Core, NEW next, sync_locked_caches(next), next # "reapply",
           UNCHANGED <<patches, fault>>, pc \notin {"reapply", "check"}
    PROVE  Core'
<1>1. RomPatched' = RomPatched /\ ListInv(patches)'
  BY DEF RomPatched, Core, ListInv
<1>2. CASE locked
  <2>1. locked' /\ cached' = NoLines /\ pc' = "reapply" /\ ri' = 1
    BY <1>2, Zenon DEF sync_locked_caches
  <2>2. \A j \in DOMAIN patches : ~ (j < 1)
    BY DEF TypeOK
  <2>3. CacheInv'
    BY <2>1, <2>2, NoLinesLemma, Zenon DEF CacheInv, Walked, ContentsOf, NailedOf, Caches
  <2>4. LockInv'
    BY <1>1, <1>2, <2>1, Zenon DEF Core, LockInv
  <2> QED
    BY <1>1, <2>3, <2>4, Zenon DEF Core
<1>3. CASE ~ locked
  <2>1. UNCHANGED <<cached, locked>> /\ pc' # "reapply"
    BY <1>3, Zenon DEF sync_locked_caches
  <2> QED
    BY <2>1, QuietStep, Zenon
<1> QED
  BY <1>2, <1>3, Zenon

\* One turn of the walk nails the next patch back.
LEMMA ReapplyStep ==
    ASSUME TypeOK, Core, Reapply
    PROVE  Core'
<1> DEFINE p == patches[ri]
           t == CacheType(p)
           k == cache_fake(cached, t, p.addr, p.new)
<1>1. /\ pc = "reapply" /\ ri \in DOMAIN patches /\ ri \in Nat
      /\ UNCHANGED <<patches, locked, pc, cont, fault>> /\ ri' = ri + 1
      /\ patches \in Seq(Entry) /\ cached \in CacheT
  BY DEF Reapply, TypeOK, CacheT
<1>2. /\ ListInv(patches) /\ LinesOf(cached) /\ ContentsOf(patches, cached)
      /\ NailedOf(patches, cached, ri)
  BY <1>1, Zenon DEF Core, CacheInv, Walked
<1>3. locked /\ RomPatched' = RomPatched
  BY <1>1, Zenon DEF Core, LockInv, RomPatched
<1>4. LockInv'
  BY <1>1, <1>3, Zenon DEF Core, LockInv
<1>5. ASSUME p.addr \in Rom, read_value(cached, p.addr, p.insn) # p.new, cached' = k
      PROVE  CacheInv'
  <2>1. Real(p)
    BY <1>1, <1>2, <1>5, ReadPatch, Zenon DEF is_patch_still_applied
  <2>2. /\ p.addr \notin Unfakeable
        /\ \A j \in DOMAIN patches : patches[j].addr = p.addr => j = ri
        /\ \A j \in DOMAIN patches :
              /\ j < ri /\ Real(patches[j]) /\ patches[j].insn = p.insn
              /\ Index[patches[j].addr] = Index[p.addr]
              => Tag[patches[j].addr] = Tag[p.addr]
    BY <1>1, <1>2, <2>1, Zenon DEF ListInv
  <2>3. LinesOf(k) /\ ContentsOf(patches, k) /\ NailedOf(patches, k, ri + 1)
    BY <1>1, <1>2, <1>5, <2>2, NailLemma, Zenon
  <2> HIDE DEF k
  <2> QED
    BY <1>1, <1>5, <2>3, Zenon DEF CacheInv, Walked
<1>6. ASSUME ~ (p.addr \in Rom /\ read_value(cached, p.addr, p.insn) # p.new),
             UNCHANGED cached
      PROVE  CacheInv'
  <2>1. Real(p) => cached[CacheType(p)][p.addr] = p.new
    BY <1>1, <1>2, <1>6, ReadPatch, Zenon DEF is_patch_still_applied, Real
  <2>2. \A j \in DOMAIN patches : j < ri + 1 => j < ri \/ j = ri
    BY <1>1
  <2>3. NailedOf(patches, cached, ri + 1)
    BY <1>2, <2>1, <2>2, Zenon DEF NailedOf
  <2> QED
    BY <1>1, <1>2, <1>6, <2>3, Zenon DEF CacheInv, Walked
<1>7. CacheInv'
  <2> HIDE DEF k, p
  <2> QED
    BY <1>5, <1>6, Zenon DEF Reapply, k, p
<1>8. ListInv(patches)'
  BY <1>1, <1>2, Zenon
<1> QED
  BY <1>4, <1>7, <1>8, Zenon DEF Core

\* The end of the walk: every patch has been looked at.
LEMMA ReapplyDoneStep ==
    ASSUME TypeOK, PushInv, Core, ReapplyDone
    PROVE  Core'
<1>1. /\ pc = "reapply" /\ ri > Len(patches) /\ pc' = cont /\ pc' # "reapply"
      /\ UNCHANGED <<patches, locked, cached, fault, cont>>
  BY Zenon DEF ReapplyDone, mem, PushInv
<1>2. patches \in Seq(Entry) /\ ri \in Nat
  BY Zenon DEF TypeOK
<1>3. \A j \in DOMAIN patches : j < ri
  BY <1>1, <1>2
<1>4. NailedOf(patches, cached, Len(patches) + 1)
  BY <1>1, <1>3, Zenon DEF Core, CacheInv, Walked, NailedOf
<1>5. CacheInv'
  BY <1>1, <1>4, Zenon DEF Core, CacheInv, Walked
<1>6. RomPatched' = RomPatched
  BY <1>1, Zenon DEF RomPatched
<1>7. LockInv'
  BY <1>1, <1>6, Zenon DEF Core, LockInv
<1> QED
  BY <1>1, <1>5, <1>7, Zenon DEF Core

\* The last act of unpatch_memory: unlock when no ROM patch is left.
LEMMA CheckLockStep ==
    ASSUME TypeOK, Core, CheckLock
    PROVE  Core'
<1>1. /\ pc = "check" /\ pc' \in {"finish", "rollback"} /\ patches' = patches
      /\ locked' = (locked /\ RomPatched)
      /\ cached' = IF locked /\ ~ RomPatched THEN NoLines ELSE cached
  BY Zenon DEF CheckLock
<1>2. RomPatched' = RomPatched
  BY <1>1, Zenon DEF RomPatched
<1>3. /\ LinesOf(cached) /\ ContentsOf(patches, cached)
      /\ NailedOf(patches, cached, Len(patches) + 1)
  BY <1>1, Zenon DEF Core, CacheInv, Walked
<1>4. Walked' = Len(patches) + 1
  BY <1>1, Zenon DEF Walked
<1>5. CASE locked /\ ~ RomPatched
  <2>1. cached' = NoLines
    BY <1>1, <1>5, Zenon
  <2>2. \A j \in DOMAIN patches : ~ Real(patches[j])
    BY <1>5, Zenon DEF RomPatched, Real
  <2>3. CacheInv'
    BY <1>1, <2>1, <2>2, NoLinesLemma, Zenon DEF CacheInv, ContentsOf, NailedOf, Caches
  <2>4. LockInv'
    BY <1>1, <1>2, <1>5, <2>1, Zenon DEF LockInv
  <2> QED
    BY <1>1, <2>3, <2>4, Zenon DEF Core
<1>6. CASE ~ (locked /\ ~ RomPatched)
  <2>1. cached' = cached
    BY <1>1, <1>6, Zenon
  <2>2. CacheInv'
    BY <1>1, <1>3, <1>4, <2>1, Zenon DEF CacheInv
  <2>3. LockInv'
    BY <1>1, <1>2, <1>6, <2>1, Zenon DEF Core, LockInv
  <2> QED
    BY <1>1, <2>2, <2>3 DEF Core
<1> QED
  BY <1>5, <1>6, Zenon

-----------------------------------------------------------------------------
(* ROM patches.                                                            *)

\* Undoing a patch: a ROM patch by locking from scratch and walking what is
\* left of the list, a RAM patch by writing the old value.
LEMMA UndoStep ==
    ASSUME TypeOK, Core, NEW i \in DOMAIN patches, Undo(i), UNCHANGED fault,
           pc \notin {"reapply", "check"}
    PROVE  Core'
<1> DEFINE p == patches[i]
<1>1. /\ patches \in Seq(Entry) /\ i \in 1..Len(patches) /\ p.addr \in Addr
      /\ patches' = Shift(patches, i)
  <2>1. patches \in Seq(Entry) /\ i \in 1..Len(patches) /\ p \in Entry
    BY DEF TypeOK
  <2> QED
    BY <2>1, Zenon DEF Undo, Entry
<1>2. ListInv(patches)'
  BY <1>1, ListShift, Zenon DEF Core
<1>3. RomPatched' => RomPatched
  <2>1. \A k \in DOMAIN patches' : \E j \in DOMAIN patches : patches'[k] = patches[j]
    BY <1>1 DEF Shift
  <2> QED
    BY <2>1, Zenon DEF RomPatched
<1>4. ASSUME cached' = NoLines, locked' = TRUE, pc' = "reapply", ri' = 1, cont' = "check"
      PROVE  Core'
  <2>1. patches' \in Seq(Entry)
    BY <1>1, ShiftLemma, Zenon
  <2>2. \A j \in DOMAIN patches' : ~ (j < 1)
    BY <2>1
  <2>3. CacheInv'
    BY <1>4, <2>2, NoLinesLemma, Zenon DEF CacheInv, Walked, ContentsOf, NailedOf, Caches
  <2>4. LockInv'
    BY <1>4, Zenon DEF LockInv
  <2> QED
    BY <1>2, <2>3, <2>4, Zenon DEF Core
<1>5. ASSUME UNCHANGED <<cached, locked>>, pc' = "check", p.addr \in Ram
      PROVE  Core'
  <2>1. /\ LinesOf(cached) /\ ContentsOf(patches, cached)
        /\ NailedOf(patches, cached, Len(patches) + 1)
    BY Zenon DEF Core, CacheInv, Walked
  <2>2. ContentsOf(patches', cached) /\ NailedOf(patches', cached, Len(patches') + 1)
    BY <1>1, <1>5, <2>1, CacheShift, Zenon
  <2>3. CacheInv'
    BY <1>5, <2>1, <2>2, Zenon DEF CacheInv, Walked, LinesOf
  <2>4. LockInv'
    BY <1>3, <1>5, Zenon DEF Core, LockInv
  <2> QED
    BY <1>2, <2>3, <2>4 DEF Core
<1>6. CASE p.addr \in Rom
  <2>1. p.addr \notin Ram
    BY <1>6, PatchAssumption, Zenon
  <2> QED
    BY <1>4, <2>1, Zenon DEF Undo
<1>7. CASE p.addr \in Ram
  <2>1. p.addr \notin Rom
    BY <1>7, PatchAssumption, Zenon
  <2>2. \/ sync_locked_caches("check")
        \/ UNCHANGED <<cached, locked>> /\ pc' = "check"
    BY <2>1, Zenon DEF Undo
  <2>3. CASE sync_locked_caches("check")
    <3>1. locked => /\ cached' = NoLines /\ locked' = locked /\ pc' = "reapply"
                    /\ ri' = 1 /\ cont' = "check"
      BY <2>3, Zenon DEF sync_locked_caches
    <3>2. ~ locked => UNCHANGED <<cached, locked>> /\ pc' = "check"
      BY <2>3, Zenon DEF sync_locked_caches
    <3>3. locked \in BOOLEAN
      BY Zenon DEF TypeOK
    <3> QED
      BY <1>4, <1>5, <1>7, <3>1, <3>2, <3>3, Zenon
  <2> QED
    BY <1>5, <1>7, <2>2, <2>3, Zenon
<1> QED
  BY <1>1, <1>6, <1>7, Zenon DEF Addr

\* A patch of RAM is appended.
LEMMA AppendRamStep ==
    ASSUME TypeOK, Core, NEW e \in Entry, e.addr \in Ram, e.addr \notin Patched,
           patches' = Append(patches, e), UNCHANGED <<locked, cached, fault>>,
           pc \notin {"reapply", "check"}, pc' # "reapply"
    PROVE  Core'
<1>1. patches \in Seq(Entry) /\ e.addr \notin Rom /\ ~ Real(e)
  BY PatchAssumption, Zenon DEF TypeOK, Real
<1>2. \A j \in DOMAIN patches : patches[j].addr # e.addr
  BY Zenon DEF Patched
<1>3. ListInv(patches)'
  BY <1>1, <1>2, ListAppend, Zenon DEF Core
<1>4. /\ LinesOf(cached) /\ ContentsOf(patches, cached)
      /\ NailedOf(patches, cached, Len(patches) + 1)
  BY Zenon DEF Core, CacheInv, Walked
<1>5. ContentsOf(patches', cached) /\ NailedOf(patches', cached, Len(patches') + 1)
  BY <1>1, <1>4, CacheAppend, Zenon
<1>6. CacheInv'
  BY <1>4, <1>5, Zenon DEF CacheInv, Walked, LinesOf
<1>7. RomPatched' = RomPatched
  <2>1. /\ DOMAIN patches' = DOMAIN patches \cup {Len(patches) + 1}
        /\ \A j \in DOMAIN patches : patches'[j] = patches[j]
        /\ patches'[Len(patches) + 1] = e
    BY <1>1, AppendLemma
  <2> QED
    BY <1>1, <2>1, Zenon DEF RomPatched
<1> QED
  BY <1>3, <1>6, <1>7, Zenon DEF Core, LockInv

\* A patch of ROM is refused, fails, or is nailed and appended.
LEMMA ApplyRomStep ==
    ASSUME TypeOK, Core, ApplyRom
    PROVE  Core'
<1> DEFINE p == batch[c]
           t == CacheType(p)
           e == EntryOf(p)
           f == cache_fake(cached, t, p.addr, p.new)
<1>1. /\ p \in Request /\ p.addr \in Rom /\ CheckError(p) = "OK" /\ pc = "apply"
      /\ locked' = TRUE
  BY DEF ApplyRom, TypeOK
<1>2. cached \in CacheT /\ patches \in Seq(Entry)
  BY Zenon DEF TypeOK, CacheT
<1>3. (IF locked THEN cached ELSE NoLines) = cached
  BY Zenon DEF Core, LockInv
<1>4. /\ p.new \in Word /\ p.new # NoWord /\ p.insn \in BOOLEAN /\ t \in Caches
      /\ p.addr \notin Ram
  <2>1. p.new \in Word /\ p.insn \in BOOLEAN
    BY <1>1, Zenon DEF Request
  <2> QED
    BY <1>1, <2>1, PatchAssumption, Zenon DEF CacheType, Caches
<1>5. /\ LinesOf(cached) /\ ContentsOf(patches, cached) /\ ListInv(patches)
      /\ NailedOf(patches, cached, Len(patches) + 1)
  BY <1>1, Zenon DEF Core, CacheInv, Walked
<1>6. p.addr \notin Patched /\ read_value(cached, p.addr, p.insn) = p.old
  BY <1>1, CheckErrorType, Zenon
<1>7. p.old = rom[p.addr]
  BY <1>1, <1>4, <1>5, <1>6, ReadUnpatched, Zenon
<1>8. p.addr \notin Unfakeable => read_value(f, p.addr, p.insn) = p.new
  <2>1. p.addr \notin Unfakeable => f[t][p.addr] = p.new
    <3>1. cached \in CacheT /\ t \in Caches /\ p.addr \in Rom /\ p.new \in Word /\ LinesOf(cached)
      BY <1>1, <1>2, <1>4, <1>5, Zenon
    <3> HIDE DEF p, t
    <3> QED
      BY <3>1, FakeLemma
  <2> HIDE DEF f
  <2> QED
    BY <1>4, <2>1, Zenon DEF read_value, DataRead, CacheType
<1>9. p.addr \in Unfakeable => f = cached
  BY Zenon DEF cache_fake
<1>10. ASSUME ~ cache_is_patchable(cached, t, p.addr), cached' = cached,
              UNCHANGED <<patches, fault>>, pc' = "rollback"
       PROVE  Core'
  <2>1. cached # NoLines
    BY <1>4, <1>10, NoLinesLemma, Zenon DEF cache_is_patchable
  <2>2. locked
    BY <2>1, Zenon DEF Core, LockInv
  <2>3. locked' = locked
    BY <1>1, <2>2, Zenon DEF TypeOK
  <2> QED
    BY <1>1, <1>10, <2>3, QuietStep, Zenon
<1>11. ASSUME read_value(f, p.addr, p.insn) # p.new, cached' = f, pc' = "rollback",
              fault' = TRUE, UNCHANGED patches
       PROVE  Core'
  <2>1. cached' = cached
    BY <1>8, <1>9, <1>11, Zenon
  <2>2. RomPatched' = RomPatched /\ ListInv(patches')
    BY <1>5, <1>11, Zenon DEF RomPatched
  <2>3. CacheInv'
    BY <1>5, <1>11, <2>1, Zenon DEF CacheInv, Walked
  <2>4. LockInv'
    BY <1>1, <1>11, Zenon DEF LockInv
  <2> QED
    BY <2>2, <2>3, <2>4, Zenon DEF Core
<1>12. ASSUME cache_is_patchable(cached, t, p.addr), cached' = f,
              read_value(f, p.addr, p.insn) = p.new,
              patches' = Append(patches, e), UNCHANGED <<pc, fault>>
       PROVE  Core'
  <2>1. e \in Entry /\ e.addr = p.addr /\ e.old = p.old /\ e.new = p.new /\ e.insn = p.insn
    BY <1>1, EntryType, Zenon DEF EntryOf
  <2>2. \A j \in DOMAIN patches :
           /\ Real(patches[j]) /\ patches[j].insn = p.insn
           /\ Index[patches[j].addr] = Index[p.addr]
           => Tag[patches[j].addr] = Tag[p.addr]
    <3> SUFFICES ASSUME NEW j \in DOMAIN patches, Real(patches[j]),
                        patches[j].insn = p.insn,
                        Index[patches[j].addr] = Index[p.addr]
                 PROVE  Tag[patches[j].addr] = Tag[p.addr]
      BY Zenon
    <3>1. j < Len(patches) + 1 /\ patches[j] \in Entry
      BY <1>2
    <3>2. cached[t][patches[j].addr] = patches[j].new
      BY <1>5, <3>1, Zenon DEF NailedOf, CacheType
    <3>3. patches[j].new # NoWord /\ patches[j].addr \in Rom
      BY <3>1, PatchAssumption, Zenon DEF Entry, Real
    <3> QED
      BY <1>12, <3>2, <3>3, Zenon DEF cache_is_patchable
  <2>3. \A j \in DOMAIN patches : patches[j].addr # e.addr
    BY <1>6, <2>1, Zenon DEF Patched
  <2>4. p.addr \in Unfakeable => ~ Real(e)
    <3>1. ASSUME p.addr \in Unfakeable PROVE p.new = p.old
      BY <1>6, <1>9, <1>12, <3>1, Zenon
    <3> QED
      BY <1>7, <2>1, <3>1, Zenon DEF Real
  <2> DEFINE s == patches'
             n == Len(patches) + 1
  <2>5. ListInv(s)
    BY <1>2, <1>5, <1>7, <1>12, <2>1, <2>2, <2>3, <2>4, ListAppend, Zenon DEF Real
  <2>6. /\ s \in Seq(Entry) /\ Len(s) = n /\ n \in DOMAIN s /\ s[n] = e
        /\ DOMAIN s = DOMAIN patches \cup {n}
        /\ \A j \in DOMAIN patches : s[j] = patches[j]
    BY <1>2, <1>12, <2>1, AppendLemma
  <2>7. /\ ContentsOf(s, cached) /\ NailedOf(s, cached, n)
        /\ ~ Real(e) => NailedOf(s, cached, n + 1)
    BY <1>2, <1>5, <1>12, <2>1, <2>6, CacheAppend, Zenon
  <2>8. Walked' = n + 1
    BY <1>1, <1>12, <2>6, Zenon DEF Walked
  <2>9. ASSUME p.addr \in Unfakeable PROVE CacheInv'
    BY <1>5, <1>9, <1>12, <2>4, <2>7, <2>8, <2>9, Zenon DEF CacheInv
  <2>10. ASSUME p.addr \notin Unfakeable PROVE CacheInv'
    <3>1. \A j \in DOMAIN s : s[j].addr = s[n].addr => j = n
      BY <2>5, <2>6, Zenon DEF ListInv
    <3>2. \A j \in DOMAIN s :
             /\ j < n /\ Real(s[j]) /\ s[j].insn = s[n].insn
             /\ Index[s[j].addr] = Index[s[n].addr]
             => Tag[s[j].addr] = Tag[s[n].addr]
      BY <2>1, <2>2, <2>6
    <3>3. f = cache_fake(cached, CacheType(s[n]), s[n].addr, s[n].new)
      BY <2>1, <2>6, Zenon DEF CacheType
    <3> HIDE DEF f, s, n, e
    <3>4. LinesOf(f) /\ ContentsOf(s, f) /\ NailedOf(s, f, n + 1)
      BY <1>1, <1>2, <1>5, <2>1, <2>6, <2>7, <2>10, <3>1, <3>2, <3>3, NailLemma, Zenon
    <3> QED
      BY <1>12, <2>8, <3>4, Zenon DEF CacheInv, s
  <2>11. LockInv'
    <3>1. RomPatched'
      BY <1>1, <2>1, <2>6, Zenon DEF RomPatched
    <3> QED
      BY <1>1, <3>1, Zenon DEF LockInv
  <2>12. CacheInv'
    BY <2>9, <2>10, Zenon
  <2> QED
    BY <2>5, <2>11, <2>12, Zenon DEF Core
<1> HIDE DEF f, e, t
<1> QED
  BY <1>3, <1>10, <1>11, <1>12, Zenon DEF ApplyRom, Fail, f, e, t

-----------------------------------------------------------------------------
(* The safety theorems.                                                    *)

\* IInv holds before the first call.
LEMMA Initially == Init => IInv
<1> SUFFICES ASSUME Init PROVE IInv
  BY Zenon
<1>1. patches = <<>> /\ cached = NoLines /\ locked = FALSE /\ pc = "idle"
  BY Zenon DEF Init
<1>2. DOMAIN patches = {}
  BY <1>1
<1>3. ListInv(patches)
  BY <1>2, Zenon DEF ListInv
<1>4. CacheInv
  BY <1>1, <1>2, NoLinesLemma, Zenon DEF CacheInv, ContentsOf, NailedOf, Caches
<1>5. LockInv
  BY <1>1, <1>2, Zenon DEF LockInv, RomPatched
<1> QED
  BY <1>3, <1>4, <1>5, TypeInit, Zenon DEF IInv, Core

\* Every step keeps IInv.
LEMMA Inductive == IInv /\ [Next]_vars => IInv'
<1> SUFFICES ASSUME IInv, [Next]_vars
             PROVE  Core'
  BY TypeStep, Zenon DEF IInv
<1>0. TypeOK /\ PushInv /\ Core
  BY Zenon DEF IInv, TypeInv
<1>1. ASSUME NEW b \in Batches, ApplyPatches(b)
      PROVE  Core'
  BY <1>0, <1>1, QuietStep, Zenon DEF ApplyPatches, mem
<1>2. CASE ApplyRefused
  BY <1>0, <1>2, QuietStep, Zenon DEF ApplyRefused, Fail, mem
<1>3. CASE ApplyRom
  BY <1>0, <1>3, ApplyRomStep, Zenon
<1>4. CASE ApplyRam
  <2> DEFINE p == batch[c]
  <2>1. /\ p \in Request /\ p.addr \in Ram /\ CheckError(p) = "OK" /\ pc = "apply"
        /\ UNCHANGED fault
    BY <1>0, <1>4 DEF ApplyRam, TypeOK
  <2>2. CASE p.insn
    BY <1>0, <1>4, <2>1, <2>2, SyncStep, Zenon DEF ApplyRam
  <2>3. CASE ~ p.insn
    <3>1. EntryOf(p) \in Entry /\ EntryOf(p).addr = p.addr /\ p.addr \notin Patched
      BY <2>1, EntryType, CheckErrorType, Zenon DEF EntryOf
    <3>2. patches' = Append(patches, EntryOf(p)) /\ UNCHANGED <<locked, cached, pc>>
      BY <1>4, <2>3, Zenon DEF ApplyRam
    <3> QED
      BY <1>0, <2>1, <3>1, <3>2, AppendRamStep, Zenon
  <2> QED
    BY <2>2, <2>3, Zenon
<1>5. CASE Push
  <2> DEFINE p == batch[c]
  <2>1. p \in Request /\ p.addr \in Ram /\ p.addr \notin Patched
    BY <1>0, <1>5 DEF Push, PushInv, TypeOK
  <2>2. EntryOf(p) \in Entry /\ EntryOf(p).addr = p.addr
    BY <2>1, EntryType, Zenon DEF EntryOf
  <2>3. /\ patches' = Append(patches, EntryOf(p)) /\ UNCHANGED <<locked, cached, fault>>
        /\ pc = "push" /\ pc' = "apply"
    BY <1>5, Zenon DEF Push
  <2> QED
    BY <1>0, <2>1, <2>2, <2>3, AppendRamStep, Zenon
<1>6. CASE ApplyEnd
  BY <1>0, <1>6, QuietStep, Zenon DEF ApplyEnd, mem
<1>7. ASSUME NEW a \in Addr, UnpatchMemory(a)
      PROVE  Core'
  BY <1>0, <1>7, UndoStep, Zenon DEF UnpatchMemory
<1>8. ASSUME NEW a \in Addr, UnpatchOverwritten(a)
      PROVE  Core'
  BY <1>0, <1>8, QuietStep, Zenon DEF UnpatchOverwritten, mem
<1>9. CASE RollbackUndo
  BY <1>0, <1>9, UndoStep, Zenon DEF RollbackUndo
<1>10. CASE RollbackSkip
  BY <1>0, <1>10, QuietStep, Zenon DEF RollbackSkip, mem
<1>11. CASE RollbackEnd
  BY <1>0, <1>11, QuietStep, Zenon DEF RollbackEnd, mem
<1>12. CASE Reapply
  BY <1>0, <1>12, ReapplyStep
<1>13. CASE ReapplyDone
  BY <1>0, <1>13, ReapplyDoneStep, Zenon
<1>14. CASE CheckLock
  BY <1>0, <1>14, CheckLockStep
<1>15. ASSUME NEW r \in Requests, HookRefused(r)
       PROVE  Core'
  BY <1>0, <1>15, QuietStep, Zenon DEF HookRefused, mem
<1>16. ASSUME NEW r \in Requests, NEW s \in Slots, PatchHookFunction(r, s)
       PROVE  Core'
  BY <1>0, <1>16, SyncStep, Zenon DEF PatchHookFunction
<1>17. CASE Finish
  BY <1>0, <1>17, QuietStep, Zenon DEF Finish, EndCall
<1>18. CASE SyncCaches
  BY <1>0, <1>18, SyncStep, Zenon DEF SyncCaches
<1>19. ASSUME NEW a \in Ram, NEW v \in Val, CanonWrite(a, v)
       PROVE  Core'
  BY <1>0, <1>19, QuietStep, Zenon DEF CanonWrite
<1>20. CASE UNCHANGED vars
  <2>1. RomPatched' = RomPatched /\ Walked' = Walked
    BY <1>20, Zenon DEF vars, mem, RomPatched, Walked
  <2> QED
    BY <1>0, <1>20, <2>1, Zenon DEF vars, mem, Core, CacheInv, LockInv
<1> QED
  BY <1>1, <1>2, <1>3, <1>4, <1>5, <1>6, <1>7, <1>8, <1>9, <1>10, <1>11, <1>12,
     <1>13, <1>14, <1>15, <1>16, <1>17, <1>18, <1>19, <1>20 DEF Next

\* In every state of the inductive invariant the patches walked are in effect.
LEMMA InEffect == IInv => RomPatchesInEffect
<1> SUFFICES ASSUME IInv, NEW k \in DOMAIN patches, patches[k].addr \in Rom,
                    pc = "reapply" => k < ri
             PROVE  locked /\ is_patch_still_applied(patches[k])
  BY Zenon DEF RomPatchesInEffect
<1>1. TypeOK /\ Core
  BY Zenon DEF IInv, TypeInv
<1>2. locked
  BY <1>1, Zenon DEF Core, LockInv, RomPatched
<1>3. k < Walked
  BY <1>1 DEF TypeOK, Walked
<1>4. Real(patches[k]) => cached[CacheType(patches[k])][patches[k].addr] = patches[k].new
  BY <1>1, <1>3, Zenon DEF Core, CacheInv, NailedOf
<1> QED
  BY <1>1, <1>2, <1>4, ReadPatch, Zenon DEF Core, CacheInv

\* Every ROM patch on the list is what the CPU sees, for any placement of the
\* words in cache lines: the collision check of apply_patch is enough to make
\* the unchecked walk of reapply_cache_patches safe.
THEOREM PatchesStayInEffect == Spec => []RomPatchesInEffect
  BY Initially, Inductive, InEffect, PTL DEF Spec

\* What unpatch_memory would write back for a ROM word is what the chip holds.
THEOREM OriginalsRecorded == Spec => []RomOriginalsRecorded
<1>1. IInv => RomOriginalsRecorded
  BY Zenon DEF IInv, Core, ListInv, RomOriginalsRecorded
<1> QED
  BY Initially, Inductive, <1>1, PTL DEF Spec

\* Between calls the cache is locked only while a ROM patch needs it, or after
\* the hardware refused one.
THEOREM CacheUnlocked == Spec => []LockReleased
<1>1. IInv => LockReleased
  BY Zenon DEF IInv, Core, LockInv, LockReleased
<1> QED
  BY Initially, Inductive, <1>1, PTL DEF Spec

-----------------------------------------------------------------------------
(* What the steps of a call do to the list, to memory and to the slots.    *)

\* An undone patch leaves the list, its RAM word gets the old value back, and
\* the slots for its address become free.
LEMMA UndoFacts ==
    ASSUME TypeOK, ListInv(patches), NEW i \in DOMAIN patches, Undo(i)
    PROVE  LET a == patches[i].addr IN
           /\ \A k \in DOMAIN patches' : \E j \in DOMAIN patches :
                 patches'[k] = patches[j] /\ patches[j].addr # a
           /\ Patched' = Patched \ {a}
           /\ \A s \in Slots : hooks'[s] = IF hooks[s] = a THEN NoAddr ELSE hooks[s]
           /\ \A m \in Ram : ram'[m] = IF m = a THEN patches[i].old ELSE ram[m]
           /\ rerr' = "OK" /\ At("check")'
           /\ pc' # "finish" /\ pc' # "rollback" /\ pc' # "idle"
           /\ pc' # "reapply" => pc' = "check"
           /\ pc' = "reapply" => cont' = "check"
<1> DEFINE p == patches[i]
           r == Shift(patches, i)
           m(k) == IF k < i THEN k ELSE k + 1
<1>1. patches \in Seq(Entry) /\ i \in 1..Len(patches) /\ p.addr \in Addr
  <2>1. patches \in Seq(Entry) /\ i \in 1..Len(patches) /\ p \in Entry
    BY DEF TypeOK
  <2> QED
    BY <2>1, Zenon DEF Entry
<1>2. DOMAIN r = 1..(Len(patches) - 1) /\ DOMAIN patches = 1..Len(patches) /\ Len(patches) \in Nat
  BY <1>1 DEF Shift
<1>3. \A k \in DOMAIN r : r[k] = patches[m(k)] /\ m(k) \in DOMAIN patches /\ m(k) # i
  BY <1>1, <1>2 DEF Shift
<1>4. \A j \in DOMAIN patches : j # i => \E k \in DOMAIN r : m(k) = j
  <2> SUFFICES ASSUME NEW j \in DOMAIN patches, j # i
               PROVE  \E k \in DOMAIN r : m(k) = j
    BY Zenon
  <2>1. CASE j < i
    BY <1>1, <1>2, <2>1
  <2>2. CASE j > i
    <3>1. j - 1 \in DOMAIN r /\ m(j - 1) = j
      BY <1>1, <1>2, <2>2
    <3> QED
      BY <3>1, Zenon
  <2> QED
    BY <1>1, <1>2, <2>1, <2>2
<1>5. patches' = r
  BY Zenon DEF Undo
<1> HIDE DEF r, m
<1>6. \A j \in DOMAIN patches : patches[j].addr = p.addr => j = i
  BY Zenon DEF ListInv
<1>7. \A k \in DOMAIN patches' : \E j \in DOMAIN patches :
         patches'[k] = patches[j] /\ patches[j].addr # p.addr
  BY <1>3, <1>5, <1>6, Zenon
<1>8. Patched' = Patched \ {p.addr}
  <2>1. \A x : x \in Patched' => x \in Patched \ {p.addr}
    BY <1>7, Zenon DEF Patched
  <2>2. \A x : x \in Patched \ {p.addr} => x \in Patched'
    <3> SUFFICES ASSUME NEW j \in DOMAIN patches, patches[j].addr # p.addr
                 PROVE  patches[j].addr \in Patched'
      BY Zenon DEF Patched
    <3>1. PICK k \in DOMAIN r : m(k) = j
      BY <1>4, Zenon
    <3> QED
      BY <1>3, <1>5, <3>1, Zenon DEF Patched
  <2> QED
    BY <2>1, <2>2, Zenon
<1>9. \A s \in Slots : hooks'[s] = IF hooks[s] = p.addr THEN NoAddr ELSE hooks[s]
  BY Zenon DEF Undo
<1>10. CASE p.addr \in Rom
  <2>1. p.addr \notin Ram
    BY <1>10, PatchAssumption, Zenon
  <2>2. UNCHANGED ram /\ rerr' = "OK" /\ pc' = "reapply" /\ cont' = "check"
    BY <2>1, Zenon DEF Undo
  <2>3. \A x \in Ram : ram'[x] = IF x = p.addr THEN p.old ELSE ram[x]
    BY <2>1, <2>2, Zenon
  <2> QED
    BY <1>7, <1>8, <1>9, <2>2, <2>3, Zenon DEF At
<1>11. CASE p.addr \in Ram
  <2>1. p.addr \notin Rom
    BY <1>11, PatchAssumption, Zenon
  <2>2. ram' = [ram EXCEPT ![p.addr] = p.old] /\ ram \in [Ram -> Word]
    BY <2>1, Zenon DEF Undo, TypeOK
  <2>3. \A x \in Ram : ram'[x] = IF x = p.addr THEN p.old ELSE ram[x]
    BY <2>2, Zenon
  <2>4. rerr' = "OK" /\ (pc' = "check" \/ (pc' = "reapply" /\ cont' = "check"))
    BY <2>1, Zenon DEF Undo, sync_locked_caches
  <2> QED
    BY <1>7, <1>8, <1>9, <2>3, <2>4, Zenon DEF At
<1> QED
  BY <1>1, <1>10, <1>11, Zenon DEF Addr

\* An appended patch is on the list, and the others stay.
LEMMA AppendFacts ==
    ASSUME TypeOK, NEW e \in Entry, patches' = Append(patches, e)
    PROVE  /\ \A k \in DOMAIN patches' :
                 (k \in DOMAIN patches /\ patches'[k] = patches[k]) \/ patches'[k] = e
           /\ Patched' = Patched \cup {e.addr}
<1>1. /\ DOMAIN patches' = DOMAIN patches \cup {Len(patches) + 1}
      /\ \A j \in DOMAIN patches : patches'[j] = patches[j]
      /\ patches'[Len(patches) + 1] = e
  BY AppendLemma DEF TypeOK
<1>2. Patched' = Patched \cup {e.addr}
  <2>1. \A x : x \in Patched' => x \in Patched \cup {e.addr}
    BY <1>1, Zenon DEF Patched
  <2>2. \A x \in Patched \cup {e.addr} : \E k \in DOMAIN patches' : x = patches'[k].addr
    BY <1>1, Zenon DEF Patched
  <2> QED
    BY <2>1, <2>2, Zenon DEF Patched
<1> QED
  BY <1>1, <1>2, Zenon

\* A flush leads to where it was told to, by way of the walk or at once.
LEMMA SyncFacts ==
    ASSUME NEW next, sync_locked_caches(next)
    PROVE  rerr' = "OK" /\ (pc' = next \/ (pc' = "reapply" /\ cont' = next))
  BY Zenon DEF sync_locked_caches

\* The walk never meets a word that does not take: what apply_patches accepted
\* once can be nailed again.
LEMMA WalkSucceeds ==
    ASSUME TypeOK, Core, Reapply
    PROVE  rerr' = rerr
<1> DEFINE p == patches[ri]
           t == CacheType(p)
           k == cache_fake(cached, t, p.addr, p.new)
<1>1. pc = "reapply" /\ ri \in DOMAIN patches /\ p \in Entry /\ cached \in CacheT
  BY DEF Reapply, TypeOK, CacheT
<1>2. ListInv(patches) /\ LinesOf(cached) /\ ContentsOf(patches, cached)
  BY Zenon DEF Core, CacheInv
<1>3. ASSUME p.addr \in Rom, read_value(cached, p.addr, p.insn) # p.new
      PROVE  read_value(k, p.addr, p.insn) = p.new
  <2>1. Real(p)
    BY <1>1, <1>2, <1>3, ReadPatch, Zenon DEF is_patch_still_applied
  <2>2. p.addr \notin Unfakeable
    BY <1>1, <1>2, <2>1, Zenon DEF ListInv
  <2>3. /\ p.new \in Word /\ p.new # NoWord /\ p.insn \in BOOLEAN /\ t \in Caches
        /\ p.addr \notin Ram
    <3>1. p.new \in Word /\ p.insn \in BOOLEAN
      BY <1>1, Zenon DEF Entry
    <3> QED
      BY <1>3, <3>1, PatchAssumption, Zenon DEF CacheType, Caches
  <2>4. k[t][p.addr] = p.new
    BY <1>1, <1>2, <1>3, <2>2, <2>3, FakeLemma
  <2> HIDE DEF k
  <2> QED
    BY <2>3, <2>4, Zenon DEF read_value, DataRead, CacheType
<1> HIDE DEF k, p
<1> QED
  BY <1>3, Zenon DEF Reapply, k, p, t

-----------------------------------------------------------------------------
(* Every step keeps HookInv.                                               *)

\* Steps that touch neither the list, memory, the slots nor the arguments.
LEMMA QuietHook ==
    ASSUME HookInv, UNCHANGED <<patches, ram, hooks, batch, slot>>
    PROVE  /\ WordInv' /\ BatchInv' /\ LeakInv'
           /\ SlotUnused => SlotUnused'
           /\ Patched' = Patched
<1>1. Patched' = Patched
  BY Zenon DEF Patched
<1>2. WordInv'
  BY Zenon DEF HookInv, WordInv
<1>3. BatchInv'
  BY Zenon DEF HookInv, BatchInv
<1>4. LeakInv'
  BY <1>1, Zenon DEF HookInv, LeakInv
<1>5. SlotUnused => SlotUnused'
  BY Zenon DEF SlotUnused
<1> QED
  BY <1>1, <1>2, <1>3, <1>4, <1>5, Zenon

\* The loop over the array of patch_hook_function has one turn.
LEMMA OneTurn ==
    ASSUME TypeOK, BatchInv, slot # NoSlot
    PROVE  /\ c <= Len(batch) => c = 1
           /\ c \in DOMAIN batch => c = 1
           /\ c > Len(batch) => c > 1
           /\ batch # <<>>
<1>1. Len(batch) = 1 /\ batch \in Seq(Request) /\ c \in Nat \ {0}
  BY DEF BatchInv, TypeOK
<1> QED
  BY <1>1

\* A patch is refused: the slot of this call is not used yet.
LEMMA FailHook ==
    ASSUME TypeOK, HookInv, pc = "apply", c <= Len(batch), NEW e, e # "OK", Fail(e),
           UNCHANGED <<patches, ram, hooks, batch, slot, rerr>>
    PROVE  HookInv'
<1>1. pc' = "rollback" /\ err' = e
  BY Zenon DEF Fail
<1>2. ErrInv'
  BY <1>1, Zenon DEF HookInv, ErrInv, At
<1>3. SlotInv'
  <2> SUFFICES ASSUME slot # NoSlot PROVE SlotUnused'
    BY <1>1, Zenon DEF SlotInv, At
  <2>1. c = 1
    BY OneTurn, Zenon DEF HookInv
  <2>2. SlotUnused
    BY <2>1, Zenon DEF HookInv, SlotInv, At
  <2> QED
    BY <2>2, QuietHook, Zenon
<1> QED
  BY <1>2, <1>3, QuietHook, Zenon DEF HookInv

\* A jump that is written or recorded is the one to the slot of this call.
LEMMA NewWord ==
    ASSUME TypeOK, HookInv, At("apply") \/ At("push"), c \in DOMAIN batch
    PROVE  /\ batch[c].old \in Val
           /\ batch[c].new \in Slots => /\ batch[c].new = slot /\ slot # NoSlot
                                        /\ hooks[slot] = batch[c].addr
<1>1. batch[c].old \in Val /\ (batch[c].new \in Slots => batch[c].new = slot)
  BY Zenon DEF HookInv, BatchInv
<1>2. ASSUME batch[c].new \in Slots
      PROVE  slot # NoSlot /\ hooks[slot] = batch[c].addr
  <2>1. slot # NoSlot
    BY <1>1, <1>2, PatchAssumption, Zenon
  <2>2. c = 1
    BY <2>1, OneTurn, Zenon DEF HookInv
  <2> QED
    BY <2>1, <2>2, Zenon DEF HookInv, SlotInv
<1> QED
  BY <1>1, <1>2, Zenon

\* Writing the new value into RAM keeps the jumps in order.
LEMMA WriteHook ==
    ASSUME TypeOK, HookInv, At("apply") \/ At("push"), c \in DOMAIN batch,
           UNCHANGED hooks,
           UNCHANGED ram \/ ram' = [ram EXCEPT ![batch[c].addr] = batch[c].new]
    PROVE  \A a \in Ram : ram'[a] \in Slots => hooks'[ram'[a]] = a
<1> SUFFICES ASSUME NEW a \in Ram, ram'[a] \in Slots
             PROVE  hooks[ram'[a]] = a
  BY Zenon
<1>1. ram \in [Ram -> Word]
  BY Zenon DEF TypeOK
<1>2. CASE ram'[a] = ram[a]
  BY <1>2, Zenon DEF HookInv, WordInv
<1>3. CASE a = batch[c].addr /\ ram'[a] = batch[c].new
  BY <1>3, NewWord, Zenon
<1> QED
  BY <1>1, <1>2, <1>3, Zenon

\* A patch is applied and counted.
LEMMA AppendHook ==
    ASSUME TypeOK, HookInv, pc \in {"apply", "push"}, c \in DOMAIN batch,
           patches' = Append(patches, EntryOf(batch[c])), c' = c + 1, err' = "OK",
           pc' = "apply", UNCHANGED <<hooks, batch, slot, rerr>>,
           UNCHANGED ram \/ ram' = [ram EXCEPT ![batch[c].addr] = batch[c].new]
    PROVE  HookInv'
<1> DEFINE e == EntryOf(batch[c])
<1>0. /\ At("apply") \/ At("push")
      /\ batch[c] \in Request
  <2>1. batch[c] \in Request
    BY DEF TypeOK
  <2> QED
    BY <2>1, Zenon DEF At
<1>1. e \in Entry /\ e.addr = batch[c].addr /\ e.old = batch[c].old /\ e.new = batch[c].new
  BY <1>0, EntryType, Zenon DEF EntryOf
<1> HIDE DEF e
<1>2. /\ \A k \in DOMAIN patches' :
            (k \in DOMAIN patches /\ patches'[k] = patches[k]) \/ patches'[k] = e
      /\ Patched' = Patched \cup {e.addr}
  BY <1>1, AppendFacts, Zenon DEF e
<1>3. ErrInv'
  BY Zenon DEF HookInv, ErrInv, At
<1>4. WordInv'
  <2>1. \A k \in DOMAIN patches' :
           /\ patches'[k].old \in Val
           /\ patches'[k].new \in Slots => hooks'[patches'[k].new] = patches'[k].addr
    <3> SUFFICES ASSUME NEW k \in DOMAIN patches'
                 PROVE  /\ patches'[k].old \in Val
                        /\ patches'[k].new \in Slots => hooks[patches'[k].new] = patches'[k].addr
      BY Zenon
    <3>1. CASE k \in DOMAIN patches /\ patches'[k] = patches[k]
      BY <3>1, Zenon DEF HookInv, WordInv
    <3>2. CASE patches'[k] = e
      BY <1>0, <1>1, <3>2, NewWord, Zenon
    <3> QED
      BY <1>2, <3>1, <3>2, Zenon
  <2> QED
    BY <1>0, <2>1, WriteHook, Zenon DEF WordInv
<1>5. BatchInv'
  BY Zenon DEF HookInv, BatchInv
<1>6. LeakInv'
  BY <1>2, Zenon DEF HookInv, LeakInv
<1>7. SlotInv'
  <2> SUFFICES ASSUME slot # NoSlot
               PROVE  hooks[slot] = batch[1].addr /\ c' # 1 /\ batch[1].addr \in Patched'
    BY Zenon DEF SlotInv, At
  <2>1. c = 1
    BY OneTurn, Zenon DEF HookInv
  <2>2. hooks[slot] = batch[1].addr
    BY <1>0, Zenon DEF HookInv, SlotInv
  <2>3. c' # 1
    BY <2>1
  <2> QED
    BY <1>1, <1>2, <2>1, <2>2, <2>3, Zenon
<1> QED
  BY <1>3, <1>4, <1>5, <1>6, <1>7, Zenon DEF HookInv

\* RAM code is written and the I-cache flushed, before the patch is counted.
LEMMA FlushHook ==
    ASSUME TypeOK, HookInv, pc = "apply", c \in DOMAIN batch, err' = "OK",
           sync_locked_caches("push"), UNCHANGED <<patches, hooks, batch, slot, c>>,
           ram' = [ram EXCEPT ![batch[c].addr] = batch[c].new]
    PROVE  HookInv'
<1>1. rerr' = "OK" /\ (pc' = "push" \/ (pc' = "reapply" /\ cont' = "push"))
  BY SyncFacts, Zenon
<1>2. ErrInv'
  BY <1>1, Zenon DEF ErrInv, At
<1>3. At("apply")
  BY Zenon DEF At
<1>4. WordInv'
  BY <1>3, WriteHook, Zenon DEF HookInv, WordInv
<1>5. BatchInv'
  BY Zenon DEF HookInv, BatchInv
<1>6. LeakInv'
  BY Zenon DEF HookInv, LeakInv, Patched
<1>7. SlotInv'
  BY <1>1, <1>3, Zenon DEF HookInv, SlotInv, At
<1> QED
  BY <1>2, <1>4, <1>5, <1>6, <1>7, Zenon DEF HookInv

\* The loop of apply_patches is over.
LEMMA ApplyEndHook ==
    ASSUME TypeOK, HookInv, ApplyEnd
    PROVE  HookInv'
<1>1. /\ pc = "apply" /\ c > Len(batch) /\ pc' = (IF err = "OK" THEN "finish" ELSE "rollback")
      /\ UNCHANGED <<patches, ram, hooks, batch, slot, rerr, err>>
  BY Zenon DEF ApplyEnd, mem, args
<1>2. ErrInv'
  BY <1>1, Zenon DEF HookInv, ErrInv, At
<1>3. SlotInv'
  <2> SUFFICES ASSUME slot # NoSlot
               PROVE  /\ err # "OK" => SlotUnused'
                      /\ err = "OK" => hooks[slot] \in Patched'
    BY <1>1, Zenon DEF SlotInv, At
  <2>1. c > 1
    BY <1>1, OneTurn, Zenon DEF HookInv
  <2>2. hooks[slot] = batch[1].addr /\ batch[1].addr \in Patched
    BY <1>1, <2>1, Zenon DEF HookInv, SlotInv, At
  <2>3. err # "OK" => SlotUnused
    BY Zenon DEF HookInv, SlotInv
  <2> QED
    BY <1>1, <2>2, <2>3, QuietHook, Zenon
<1> QED
  BY <1>1, <1>2, <1>3, QuietHook, Zenon DEF HookInv

\* What undoing a patch keeps of the hooks.
LEMMA UndoHook ==
    ASSUME TypeOK, ListInv(patches), HookInv, NEW i \in DOMAIN patches, Undo(i),
           UNCHANGED slot
    PROVE  WordInv' /\ LeakInv' /\ (SlotUnused /\ slot \in Slots => SlotUnused')
<1> DEFINE a == patches[i].addr
<1>1. /\ \A k \in DOMAIN patches' : \E j \in DOMAIN patches :
            patches'[k] = patches[j] /\ patches[j].addr # a
      /\ Patched' = Patched \ {a}
      /\ \A s \in Slots : hooks'[s] = IF hooks[s] = a THEN NoAddr ELSE hooks[s]
      /\ \A m \in Ram : ram'[m] = IF m = a THEN patches[i].old ELSE ram[m]
  BY UndoFacts, Zenon
<1>2. patches[i].old \in Val /\ patches[i].old \notin Slots
  BY PatchAssumption, Zenon DEF HookInv, WordInv
<1> HIDE DEF a
<1>3. \A k \in DOMAIN patches' :
         /\ patches'[k].old \in Val
         /\ patches'[k].new \in Slots => hooks'[patches'[k].new] = patches'[k].addr
  <2> SUFFICES ASSUME NEW k \in DOMAIN patches'
               PROVE  /\ patches'[k].old \in Val
                      /\ patches'[k].new \in Slots => hooks'[patches'[k].new] = patches'[k].addr
    BY Zenon
  <2>1. PICK j \in DOMAIN patches : patches'[k] = patches[j] /\ patches[j].addr # a
    BY <1>1, Zenon
  <2>2. /\ patches[j].old \in Val
        /\ patches[j].new \in Slots => hooks[patches[j].new] = patches[j].addr
    BY Zenon DEF HookInv, WordInv
  <2> QED
    BY <1>1, <2>1, <2>2, Zenon
<1>4. \A m \in Ram : ram'[m] \in Slots => hooks'[ram'[m]] = m
  <2> SUFFICES ASSUME NEW m \in Ram, ram'[m] \in Slots
               PROVE  hooks'[ram'[m]] = m
    BY Zenon
  <2>1. m # a /\ ram'[m] = ram[m]
    BY <1>1, <1>2, Zenon
  <2>2. hooks[ram[m]] = m
    BY <2>1, Zenon DEF HookInv, WordInv
  <2> QED
    BY <1>1, <2>1, <2>2, Zenon
<1>5. WordInv'
  BY <1>3, <1>4, Zenon DEF WordInv
<1>6. LeakInv'
  <2> SUFFICES ASSUME NEW s \in Slots, hooks'[s] # NoAddr, s # slot
               PROVE  hooks'[s] \in Patched'
    BY Zenon DEF LeakInv
  <2>1. hooks'[s] = hooks[s] /\ hooks[s] # a
    BY <1>1, Zenon
  <2>2. hooks[s] \in Patched
    BY <2>1, Zenon DEF HookInv, LeakInv
  <2> QED
    BY <1>1, <2>1, <2>2, Zenon
<1>7. SlotUnused /\ slot \in Slots => SlotUnused'
  BY <1>1, <1>2, Zenon DEF SlotUnused
<1> QED
  BY <1>5, <1>6, <1>7, Zenon

\* The rollback undoes a patch.
LEMMA RollbackUndoHook ==
    ASSUME TypeOK, ListInv(patches), HookInv, RollbackUndo
    PROVE  HookInv'
<1>1. PICK i \in DOMAIN patches : Undo(i)
  BY Zenon DEF RollbackUndo
<1>2. pc = "rollback" /\ UNCHANGED <<batch, slot, c, err>>
  BY Zenon DEF RollbackUndo, args
<1>3. /\ rerr' = "OK" /\ pc' # "finish" /\ pc' # "rollback" /\ pc' # "idle"
      /\ pc' # "reapply" => pc' = "check"
      /\ pc' = "reapply" => cont' = "check"
  BY <1>1, UndoFacts, Zenon
<1>4. err # "OK"
  BY <1>2, Zenon DEF HookInv, ErrInv
<1>5. ErrInv'
  BY <1>2, <1>3, <1>4, Zenon DEF ErrInv
<1>6. WordInv' /\ LeakInv' /\ (SlotUnused /\ slot \in Slots => SlotUnused')
  BY <1>1, <1>2, UndoHook, Zenon
<1>7. BatchInv'
  BY <1>2, Zenon DEF HookInv, BatchInv
<1>8. SlotInv'
  <2> SUFFICES ASSUME slot # NoSlot PROVE SlotUnused'
    BY <1>2, <1>3, Zenon DEF SlotInv, At
  <2>1. SlotUnused /\ slot \in Slots
    BY <1>4, Zenon DEF HookInv, SlotInv, TypeOK
  <2> QED
    BY <1>6, <2>1, Zenon
<1> QED
  BY <1>5, <1>6, <1>7, <1>8, Zenon DEF HookInv

\* The rollback goes on or ends, and unpatch_memory returns to it.
LEMMA RollbackHook ==
    ASSUME TypeOK, HookInv, RollbackSkip \/ RollbackEnd \/ CheckLock
    PROVE  HookInv'
<1>1. /\ pc \in {"rollback", "check"}
      /\ pc = "rollback" => pc' \in {"rollback", "finish"} /\ err' = err
      /\ pc = "check" /\ batch # <<>> => pc' = "rollback" /\ err' = err
      /\ pc = "check" /\ batch = <<>> => pc' = "finish"
      /\ UNCHANGED <<patches, ram, hooks, batch, slot, rerr>>
  BY Zenon DEF RollbackSkip, RollbackEnd, CheckLock, mem, args
<1>2. batch # <<>> \/ pc = "rollback" => err # "OK"
  BY <1>1, Zenon DEF HookInv, ErrInv, At
<1>3. slot # NoSlot => batch # <<>>
  BY OneTurn, Zenon DEF HookInv
<1>4. ErrInv'
  BY <1>1, <1>2, Zenon DEF HookInv, ErrInv, At
<1>5. SlotInv'
  BY <1>1, <1>2, <1>3, QuietHook, Zenon DEF HookInv, SlotInv, At
<1> QED
  BY <1>1, <1>4, <1>5, QuietHook, Zenon DEF HookInv

\* The walk over the list and its end.
LEMMA WalkHook ==
    ASSUME TypeOK, PushInv, Core, HookInv, Reapply \/ ReapplyDone
    PROVE  HookInv'
<1>1. /\ pc = "reapply" /\ pc' \in {"reapply", cont}
      /\ UNCHANGED <<patches, ram, hooks, batch, slot, c, err, cont>>
  BY Zenon DEF Reapply, ReapplyDone, mem, args
<1>2. rerr' = rerr
  BY WalkSucceeds, Zenon DEF ReapplyDone
<1>3. cont \in {"push", "apply", "check", "finish"}
  BY Zenon DEF PushInv
<1>4. ErrInv'
  BY <1>1, <1>2, <1>3, Zenon DEF HookInv, ErrInv, At
<1>5. SlotInv'
  <2> SUFFICES ASSUME slot # NoSlot PROVE SlotInv'
    BY <1>1, Zenon DEF SlotInv
  <2>1. /\ At("apply")' => At("apply")
        /\ At("push")' => At("push")
        /\ pc' # "finish"
    BY <1>1, <1>3, Zenon DEF At, HookInv, ErrInv
  <2>2. pc' = "apply" => c = 1
    BY <1>1, <1>3, Zenon DEF HookInv, ErrInv
  <2>3. pc' = "apply" => ~ (c > 1)
    BY <2>2
  <2> QED
    BY <1>1, <2>1, <2>3, QuietHook, Zenon DEF HookInv, SlotInv
<1> QED
  BY <1>1, <1>4, <1>5, QuietHook, Zenon DEF HookInv

\* The call ends; a hook whose patch failed is wiped, and nothing jumps to it.
LEMMA FinishHook ==
    ASSUME TypeOK, HookInv, Finish
    PROVE  HookInv'
<1>1. /\ pc = "finish" /\ pc' = "idle" /\ batch' = <<>> /\ slot' = NoSlot /\ rerr' = "OK"
      /\ UNCHANGED <<patches, ram>>
      /\ hooks' = IF slot # NoSlot /\ err # "OK" THEN [hooks EXCEPT ![slot] = NoAddr] ELSE hooks
  BY Zenon DEF Finish, EndCall
<1>2. hooks \in [Slots -> Addr \cup {NoAddr}] /\ slot \in Slots \cup {NoSlot}
  BY Zenon DEF TypeOK
<1>3. \A s \in Slots :
         \/ hooks'[s] = hooks[s]
         \/ s = slot /\ err # "OK" /\ slot # NoSlot /\ hooks'[s] = NoAddr
  BY <1>1, <1>2, Zenon
<1>4. ErrInv' /\ SlotInv'
  BY <1>1, Zenon DEF ErrInv, SlotInv, At
<1>5. BatchInv'
  <2>1. DOMAIN batch' = {}
    BY <1>1
  <2> QED
    BY <1>1, <2>1, Zenon DEF BatchInv
<1>6. slot # NoSlot /\ err # "OK" => SlotUnused
  BY Zenon DEF HookInv, SlotInv
<1>7. WordInv'
  BY <1>1, <1>3, <1>6, Zenon DEF HookInv, WordInv, SlotUnused
<1>8. LeakInv'
  <2> SUFFICES ASSUME NEW s \in Slots, hooks'[s] # NoAddr
               PROVE  hooks'[s] \in Patched
    BY <1>1, Zenon DEF LeakInv, Patched
  <2>1. CASE s # slot
    BY <1>3, <2>1, Zenon DEF HookInv, LeakInv
  <2>2. CASE s = slot
    <3>1. slot # NoSlot
      BY <2>2, PatchAssumption, Zenon
    <3>2. err = "OK" /\ hooks'[s] = hooks[s]
      BY <1>1, <1>2, <2>2, <3>1, Zenon
    <3> QED
      BY <1>1, <2>2, <3>1, <3>2, Zenon DEF HookInv, SlotInv
  <2> QED
    BY <2>1, <2>2, Zenon
<1> QED
  BY <1>4, <1>5, <1>7, <1>8, Zenon DEF HookInv

\* A call that has no hook begins: an array of plain values, or none.
LEMMA BeginHook ==
    ASSUME HookInv, pc = "idle", slot' = NoSlot, rerr' = "OK", pc' # "rollback",
           \A k \in DOMAIN batch' : batch'[k].old \in Val /\ batch'[k].new \in Val,
           pc' = "reapply" => cont' # "apply",
           batch' # <<>> => pc' = "apply"
    PROVE  ErrInv' /\ BatchInv' /\ SlotInv' /\ slot' = slot
<1>1. ErrInv'
  BY Zenon DEF ErrInv, At
<1>2. BatchInv'
  BY PatchAssumption, Zenon DEF BatchInv
<1>3. SlotInv' /\ slot = NoSlot
  BY Zenon DEF SlotInv, HookInv, ErrInv
<1> QED
  BY <1>1, <1>2, <1>3, Zenon

\* Calls without a hook, up to the first change they make.
LEMMA CallHook ==
    ASSUME HookInv, PushInv,
           \/ \E b \in Batches : ApplyPatches(b)
           \/ \E a \in Addr : UnpatchOverwritten(a)
           \/ \E r \in Requests : HookRefused(r)
           \/ SyncCaches
    PROVE  HookInv'
<1> DEFINE Begun ==
             /\ pc = "idle" /\ slot' = NoSlot /\ UNCHANGED <<patches, ram, hooks>>
             /\ batch' = <<>> \/ (batch' \in Batches /\ pc' = "apply")
             /\ rerr' \in {rerr, "OK"} /\ pc' # "rollback"
             /\ pc' = "reapply" => cont' = "finish"
<1>1. Begun
  <2>1. ASSUME NEW b \in Batches, ApplyPatches(b)
        PROVE  Begun
    BY <2>1, Zenon DEF ApplyPatches, BeginCall, mem
  <2>2. ASSUME NEW a \in Addr, UnpatchOverwritten(a)
        PROVE  Begun
    BY <2>2, Zenon DEF UnpatchOverwritten, mem
  <2>3. ASSUME NEW r \in Requests, HookRefused(r)
        PROVE  Begun
    BY <2>3, Zenon DEF HookRefused, mem
  <2>4. ASSUME SyncCaches
        PROVE  Begun
    <3>1. rerr' = "OK" /\ (pc' = "finish" \/ (pc' = "reapply" /\ cont' = "finish"))
      BY <2>4, SyncFacts, Zenon DEF SyncCaches
    <3> QED
      BY <2>4, <3>1, Zenon DEF SyncCaches, BeginCall
  <2> QED
    BY <2>1, <2>2, <2>3, <2>4, Zenon
<1>2. \A k \in DOMAIN batch' : batch'[k].old \in Val /\ batch'[k].new \in Val
  <2>1. batch' = <<>> => DOMAIN batch' = {}
    OBVIOUS
  <2>2. batch' \in Batches => \A k \in DOMAIN batch' : batch'[k] \in Requests
    BY BatchType, Zenon
  <2> QED
    BY <1>1, <2>1, <2>2, PatchAssumption, Zenon
<1>3. ErrInv' /\ BatchInv' /\ SlotInv' /\ slot' = slot
  BY <1>1, <1>2, BeginHook, Zenon DEF HookInv, ErrInv
<1>4. WordInv'
  BY <1>1, Zenon DEF HookInv, WordInv
<1>5. LeakInv'
  BY <1>1, <1>3, Zenon DEF HookInv, LeakInv, Patched
<1> QED
  BY <1>3, <1>4, <1>5, Zenon DEF HookInv

\* unpatch_memory undoes a patch.
LEMMA UnpatchHook ==
    ASSUME TypeOK, ListInv(patches), HookInv, NEW a \in Addr, UnpatchMemory(a)
    PROVE  HookInv'
<1>1. PICK i \in DOMAIN patches : Undo(i)
  BY Zenon DEF UnpatchMemory
<1>2. pc = "idle" /\ batch' = <<>> /\ slot' = NoSlot
  BY Zenon DEF UnpatchMemory, BeginCall
<1>3. /\ rerr' = "OK" /\ pc' # "rollback"
      /\ pc' = "reapply" => cont' = "check"
  BY <1>1, UndoFacts, Zenon
<1>4. \A k \in DOMAIN batch' : batch'[k].old \in Val /\ batch'[k].new \in Val
  BY <1>2
<1>5. ErrInv' /\ BatchInv' /\ SlotInv' /\ slot' = slot
  BY <1>2, <1>3, <1>4, BeginHook, Zenon
<1>6. WordInv' /\ LeakInv'
  BY <1>1, <1>5, UndoHook, Zenon
<1> QED
  BY <1>5, <1>6, Zenon DEF HookInv

\* patch_hook_function fills a free slot, to which nothing jumps yet.
LEMMA FillHook ==
    ASSUME TypeOK, HookInv, NEW r \in Requests, NEW s \in Slots, PatchHookFunction(r, s)
    PROVE  HookInv'
<1> DEFINE q == [r EXCEPT !.insn = TRUE, !.new = s, !.size = 4]
<1>1. /\ pc = "idle" /\ hooks[s] = NoAddr /\ hooks' = [hooks EXCEPT ![s] = r.addr]
      /\ batch' = <<q>> /\ slot' = s /\ c' = 1 /\ err' = "OK"
      /\ UNCHANGED <<patches, ram>>
  BY Zenon DEF PatchHookFunction, BeginCall
<1>2. rerr' = "OK" /\ (pc' = "apply" \/ (pc' = "reapply" /\ cont' = "apply"))
  BY SyncFacts, Zenon DEF PatchHookFunction
<1>3. /\ hooks \in [Slots -> Addr \cup {NoAddr}] /\ r.addr \in Addr
      /\ r \in Request /\ r.old \in Val
  <2>1. r \in Request /\ r.old \in Val
    BY PatchAssumption, Zenon
  <2> QED
    BY <2>1, Zenon DEF TypeOK, Request
<1>4. q.addr = r.addr /\ q.old = r.old /\ q.new = s
  BY <1>3, Zenon DEF Request
<1> HIDE DEF q
<1>5. hooks'[s] = r.addr /\ \A t \in Slots : t # s => hooks'[t] = hooks[t]
  BY <1>1, <1>3, Zenon
<1>6. DOMAIN batch' = {1} /\ batch'[1] = q /\ Len(batch') = 1
  BY <1>1
<1>7. ErrInv'
  BY <1>1, <1>2, Zenon DEF ErrInv, At
<1>8. BatchInv'
  BY <1>1, <1>3, <1>4, <1>6, Zenon DEF BatchInv
<1>9. SlotUnused'
  <2>1. \A k \in DOMAIN patches : patches[k].addr \in Addr
    BY PatchedType, Zenon
  <2>2. \A k \in DOMAIN patches : patches[k].new # s
    BY <1>1, <2>1, PatchAssumption, Zenon DEF HookInv, WordInv
  <2>3. \A a \in Ram : ram[a] # s
    BY <1>1, PatchAssumption, Zenon DEF HookInv, WordInv, Addr
  <2> QED
    BY <1>1, <2>2, <2>3, Zenon DEF SlotUnused
<1>10. WordInv'
  BY <1>1, <1>5, <1>9, Zenon DEF HookInv, WordInv, SlotUnused
<1>11. SlotInv'
  <2>1. ~ (c' > 1)
    BY <1>1
  <2> QED
    BY <1>1, <1>2, <1>4, <1>5, <1>6, <1>9, <2>1, Zenon DEF SlotInv
<1>12. LeakInv'
  <2>1. slot = NoSlot
    BY <1>1, Zenon DEF HookInv, ErrInv
  <2> QED
    BY <1>1, <1>5, <2>1, PatchAssumption, Zenon DEF HookInv, LeakInv, Patched
<1> QED
  BY <1>7, <1>8, <1>10, <1>11, <1>12, Zenon DEF HookInv

\* Canon's code writes plain values.
LEMMA CanonHook ==
    ASSUME TypeOK, HookInv, NEW a \in Ram, NEW v \in Val, CanonWrite(a, v)
    PROVE  HookInv'
<1>1. /\ pc = "idle" /\ ram' = [ram EXCEPT ![a] = v]
      /\ UNCHANGED <<patches, hooks, batch, slot, pc, c, err, rerr, cont>>
  BY Zenon DEF CanonWrite, args
<1>2. ram \in [Ram -> Word] /\ slot = NoSlot
  BY <1>1, Zenon DEF TypeOK, HookInv, ErrInv
<1>3. \A m \in Ram : ram'[m] = ram[m] \/ ram'[m] \notin Slots
  BY <1>1, <1>2, PatchAssumption, Zenon
<1>4. WordInv'
  BY <1>1, <1>3, Zenon DEF HookInv, WordInv
<1>5. ErrInv' /\ BatchInv'
  BY <1>1, Zenon DEF HookInv, ErrInv, BatchInv, At
<1>6. SlotInv' /\ LeakInv'
  BY <1>1, <1>2, Zenon DEF HookInv, SlotInv, LeakInv, Patched
<1> QED
  BY <1>4, <1>5, <1>6, Zenon DEF HookInv

\* HookInv holds before the first call.
LEMMA HookInit == Init => HookInv
<1> SUFFICES ASSUME Init PROVE HookInv
  BY Zenon
<1>1. /\ patches = <<>> /\ batch = <<>> /\ slot = NoSlot /\ pc = "idle" /\ rerr = "OK"
      /\ ram \in [Ram -> Val] /\ hooks = [s \in Slots |-> NoAddr]
  BY Zenon DEF Init
<1>2. DOMAIN patches = {} /\ DOMAIN batch = {}
  BY <1>1
<1>3. ErrInv /\ SlotInv /\ BatchInv
  BY <1>1, <1>2, Zenon DEF ErrInv, SlotInv, BatchInv, At
<1>4. WordInv /\ LeakInv
  BY <1>1, <1>2, PatchAssumption, Zenon DEF WordInv, LeakInv
<1> QED
  BY <1>3, <1>4, Zenon DEF HookInv

\* The place the loop of apply_patches is at.
LEMMA LoopPlace ==
    ASSUME TypeOK, c <= Len(batch)
    PROVE  c \in DOMAIN batch
  BY DEF TypeOK

\* Every step keeps HookInv.
LEMMA HookStep ==
    ASSUME IInv, HookInv, [Next]_vars
    PROVE  HookInv'
<1>0. TypeOK /\ PushInv /\ Core /\ ListInv(patches)
  BY Zenon DEF IInv, TypeInv, Core
<1>1. ASSUME NEW b \in Batches, ApplyPatches(b)
      PROVE  HookInv'
  BY <1>0, <1>1, CallHook, Zenon
<1>2. CASE ApplyRefused
  BY <1>0, <1>2, FailHook, Zenon DEF ApplyRefused, mem, args
<1>3. CASE ApplyRom
  <2>1. /\ pc = "apply" /\ c <= Len(batch)
        /\ UNCHANGED <<ram, hooks, batch, slot, rerr>>
    BY <1>3, Zenon DEF ApplyRom, args
  <2>2. \/ \E e \in {"CACHE_COLLISION", "CACHE_ERROR"} : Fail(e) /\ UNCHANGED patches
        \/ /\ patches' = Append(patches, EntryOf(batch[c]))
           /\ c' = c + 1 /\ err' = "OK" /\ UNCHANGED pc
    BY <1>3, Zenon DEF ApplyRom
  <2> QED
    BY <1>0, <2>1, <2>2, LoopPlace, FailHook, AppendHook, Zenon
<1>4. CASE ApplyRam
  <2> DEFINE p == batch[c]
  <2>1. /\ pc = "apply" /\ c \in DOMAIN batch /\ ram' = [ram EXCEPT ![p.addr] = p.new]
        /\ err' = "OK" /\ UNCHANGED <<hooks, batch, slot>>
    BY <1>0, <1>4, LoopPlace, Zenon DEF ApplyRam
  <2>2. CASE p.insn
    BY <1>0, <1>4, <2>1, <2>2, FlushHook, Zenon DEF ApplyRam
  <2>3. CASE ~ p.insn
    <3>1. patches' = Append(patches, EntryOf(p)) /\ c' = c + 1 /\ UNCHANGED <<pc, rerr>>
      BY <1>4, <2>3, Zenon DEF ApplyRam
    <3> QED
      BY <1>0, <2>1, <3>1, AppendHook, Zenon
  <2> QED
    BY <2>2, <2>3, Zenon
<1>5. CASE Push
  <2>1. /\ pc = "push" /\ c \in DOMAIN batch
        /\ patches' = Append(patches, EntryOf(batch[c])) /\ err' = rerr /\ c' = c + 1
        /\ pc' = "apply" /\ UNCHANGED <<ram, hooks, batch, slot, rerr>>
    BY <1>0, <1>5, Zenon DEF Push, PushInv, args
  <2>2. rerr = "OK"
    BY Zenon DEF HookInv, ErrInv
  <2> QED
    BY <1>0, <2>1, <2>2, AppendHook, Zenon
<1>6. CASE ApplyEnd
  BY <1>0, <1>6, ApplyEndHook, Zenon
<1>7. ASSUME NEW a \in Addr, UnpatchMemory(a)
      PROVE  HookInv'
  BY <1>0, <1>7, UnpatchHook, Zenon
<1>8. ASSUME NEW a \in Addr, UnpatchOverwritten(a)
      PROVE  HookInv'
  BY <1>0, <1>8, CallHook, Zenon
<1>9. CASE RollbackUndo
  BY <1>0, <1>9, RollbackUndoHook, Zenon
<1>10. CASE RollbackSkip \/ RollbackEnd \/ CheckLock
  BY <1>0, <1>10, RollbackHook, Zenon
<1>11. CASE Reapply \/ ReapplyDone
  BY <1>0, <1>11, WalkHook, Zenon
<1>12. ASSUME NEW r \in Requests, HookRefused(r)
       PROVE  HookInv'
  BY <1>0, <1>12, CallHook, Zenon
<1>13. ASSUME NEW r \in Requests, NEW s \in Slots, PatchHookFunction(r, s)
       PROVE  HookInv'
  BY <1>0, <1>13, FillHook, Zenon
<1>14. CASE Finish
  BY <1>0, <1>14, FinishHook, Zenon
<1>15. CASE SyncCaches
  BY <1>0, <1>15, CallHook, Zenon
<1>16. ASSUME NEW a \in Ram, NEW v \in Val, CanonWrite(a, v)
       PROVE  HookInv'
  BY <1>0, <1>16, CanonHook, Zenon
<1>17. CASE UNCHANGED vars
  <2>1. UNCHANGED <<patches, ram, hooks, batch, slot, pc, c, err, rerr, cont>>
    BY <1>17, Zenon DEF vars, mem, args
  <2>2. ErrInv'
    BY <2>1, Zenon DEF HookInv, ErrInv, At
  <2>3. SlotInv'
    BY <2>1, QuietHook, Zenon DEF HookInv, SlotInv, At
  <2> QED
    BY <2>1, <2>2, <2>3, QuietHook, Zenon DEF HookInv
<1> QED
  BY <1>1, <1>2, <1>3, <1>4, <1>5, <1>6, <1>7, <1>8, <1>9, <1>10, <1>11, <1>12,
     <1>13, <1>14, <1>15, <1>16, <1>17, Zenon DEF Next

-----------------------------------------------------------------------------
(* Every step keeps RollInv.                                               *)

\* Nothing this call added is on the list.
LEMMA NothingAdded ==
    ASSUME Patched' \subseteq owned'
    PROVE  AddedInv'
  BY Zenon DEF AddedInv, Patched

\* A patch was refused, or the loop has ended: the rollback starts over.
LEMMA FailRoll ==
    ASSUME TypeOK, RollInv, pc = "apply", pc' = "rollback", c' = 1,
           UNCHANGED <<patches, ram, owned, batch, uncached>>
    PROVE  RollInv'
<1>1. LoopInv'
  BY Zenon DEF LoopInv, At
<1>2. \A i \in DOMAIN batch : i >= 1
  BY DEF TypeOK
<1>3. ASSUME NEW p, ToUndo(p)
      PROVE  \E i \in DOMAIN batch' :
                /\ batch'[i].addr = p.addr /\ i \notin uncached' /\ i >= c'
  BY <1>2, <1>3, Zenon DEF ToUndo
<1>4. AddedInv'
  <2> SUFFICES ASSUME NEW k \in DOMAIN patches, patches[k].addr \notin owned
               PROVE  /\ patches[k].addr \in Ram => ram[patches[k].addr] = patches[k].new
                      /\ \/ patches[k].addr \in Ram /\ patches[k].insn
                         \/ \E i \in DOMAIN batch' :
                               /\ batch'[i].addr = patches[k].addr
                               /\ i \notin uncached' /\ i >= c'
    BY Zenon DEF AddedInv, ToUndo, At
  <2> QED
    BY <1>3, Zenon DEF RollInv, AddedInv
<1> QED
  BY <1>1, <1>4, Zenon DEF RollInv

\* Writing an unpatched RAM word leaves the patched ones alone.
LEMMA WriteRoll ==
    ASSUME TypeOK, NEW a, NEW v, a \notin Patched,
           UNCHANGED ram \/ ram' = [ram EXCEPT ![a] = v]
    PROVE  \A k \in DOMAIN patches :
              patches[k].addr \in Ram => ram'[patches[k].addr] = ram[patches[k].addr]
<1>1. ram \in [Ram -> Word]
  BY Zenon DEF TypeOK
<1>2. \A k \in DOMAIN patches : patches[k].addr # a
  BY Zenon DEF Patched
<1> QED
  BY <1>1, <1>2, Zenon

\* A patch is applied and counted.
LEMMA AppendRoll ==
    ASSUME TypeOK, RollInv, pc \in {"apply", "push"}, c \in DOMAIN batch,
           batch[c].addr \notin Patched,
           patches' = Append(patches, EntryOf(batch[c])), c' = c + 1, pc' = "apply",
           UNCHANGED <<batch, owned, uncached>>,
           UNCHANGED ram \/ ram' = [ram EXCEPT ![batch[c].addr] = batch[c].new],
           batch[c].addr \in Ram => ram'[batch[c].addr] = batch[c].new,
           pc = "push" => batch[c].addr \in Ram
    PROVE  RollInv'
<1> DEFINE e == EntryOf(batch[c])
<1>1. /\ e \in Entry /\ e.addr = batch[c].addr /\ e.new = batch[c].new
      /\ e.insn = batch[c].insn
  <2>1. batch[c] \in Request
    BY DEF TypeOK
  <2> QED
    BY <2>1, EntryType, Zenon DEF EntryOf
<1> HIDE DEF e
<1>2. \A k \in DOMAIN patches' :
         (k \in DOMAIN patches /\ patches'[k] = patches[k]) \/ patches'[k] = e
  BY <1>1, AppendFacts, Zenon DEF e
<1>3. /\ pc = "apply" => \A i \in uncached : i < c
      /\ pc = "push" => batch[c].insn /\ \A i \in uncached : i <= c
  BY Zenon DEF RollInv, LoopInv, At
<1>4. \A i \in uncached : i < c'
  <2>1. \A i \in uncached : i <= c
    BY <1>3 DEF TypeOK
  <2> QED
    BY <2>1 DEF TypeOK
<1>5. LoopInv'
  BY <1>4, Zenon DEF LoopInv, At
<1>6. pc = "apply" => c \notin uncached
  BY <1>3 DEF TypeOK
<1>7. \A p : ToUndo(p) => \E i \in DOMAIN batch : batch[i].addr = p.addr /\ i \notin uncached
  BY Zenon DEF ToUndo
<1>8. AddedInv'
  <2> SUFFICES ASSUME NEW k \in DOMAIN patches', patches'[k].addr \notin owned
               PROVE  /\ patches'[k].addr \in Ram => ram'[patches'[k].addr] = patches'[k].new
                      /\ \/ patches'[k].addr \in Ram /\ patches'[k].insn
                         \/ \E i \in DOMAIN batch :
                               batch[i].addr = patches'[k].addr /\ i \notin uncached
    BY Zenon DEF AddedInv, ToUndo, At
  <2>1. CASE k \in DOMAIN patches /\ patches'[k] = patches[k]
    <3>1. /\ patches[k].addr \in Ram => ram[patches[k].addr] = patches[k].new
          /\ (patches[k].addr \in Ram /\ patches[k].insn) \/ ToUndo(patches[k])
      BY <2>1, Zenon DEF RollInv, AddedInv
    <3>2. patches[k].addr \in Ram => ram'[patches[k].addr] = ram[patches[k].addr]
      BY <2>1, WriteRoll, Zenon
    <3> QED
      BY <1>7, <2>1, <3>1, <3>2, Zenon
  <2>2. CASE patches'[k] = e
    BY <1>1, <1>3, <1>6, <2>2, Zenon
  <2> QED
    BY <1>2, <2>1, <2>2, Zenon
<1> QED
  BY <1>5, <1>8, Zenon DEF RollInv

\* RAM code is written and its position in the array no longer names it.
LEMMA FlushRoll ==
    ASSUME TypeOK, RollInv, pc = "apply", c \in DOMAIN batch, batch[c].insn,
           batch[c].addr \in Ram, batch[c].addr \notin Patched,
           ram' = [ram EXCEPT ![batch[c].addr] = batch[c].new],
           uncached' = uncached \cup {c}, sync_locked_caches("push"),
           UNCHANGED <<patches, batch, owned, c>>
    PROVE  RollInv'
<1>1. pc' = "push" \/ (pc' = "reapply" /\ cont' = "push")
  BY SyncFacts, Zenon
<1>2. \A i \in uncached : i < c
  BY Zenon DEF RollInv, LoopInv, At
<1>3. \A i \in uncached' : i <= c
  <2>1. c \in Nat /\ uncached \subseteq Nat
    BY Zenon DEF TypeOK
  <2> QED
    BY <1>2, <2>1
<1>4. ram'[batch[c].addr] = batch[c].new
  BY Zenon DEF TypeOK
<1>5. LoopInv'
  BY <1>1, <1>3, <1>4, Zenon DEF LoopInv, At
<1>6. AddedInv'
  <2> SUFFICES ASSUME NEW k \in DOMAIN patches, patches[k].addr \notin owned
               PROVE  /\ patches[k].addr \in Ram => ram'[patches[k].addr] = patches[k].new
                      /\ \/ patches[k].addr \in Ram /\ patches[k].insn
                         \/ \E i \in DOMAIN batch :
                               batch[i].addr = patches[k].addr /\ i \notin uncached'
    BY <1>1, Zenon DEF AddedInv, ToUndo, At
  <2>1. /\ patches[k].addr \in Ram => ram[patches[k].addr] = patches[k].new
        /\ \/ patches[k].addr \in Ram /\ patches[k].insn
           \/ \E i \in DOMAIN batch : batch[i].addr = patches[k].addr /\ i \notin uncached
    BY Zenon DEF RollInv, AddedInv, ToUndo
  <2>2. patches[k].addr \in Ram => ram'[patches[k].addr] = ram[patches[k].addr]
    BY WriteRoll, Zenon
  <2>3. patches[k].addr # batch[c].addr
    BY Zenon DEF Patched
  <2> QED
    BY <2>1, <2>2, <2>3, Zenon
<1> QED
  BY <1>5, <1>6, Zenon DEF RollInv

\* The rollback undoes the patch of its position; those of later positions
\* remain to be undone.
LEMMA RollbackUndoRoll ==
    ASSUME TypeOK, ListInv(patches), RollInv, RollbackUndo
    PROVE  RollInv'
<1>1. PICK i \in DOMAIN patches : Undo(i) /\ patches[i].addr = batch[c].addr
  BY Zenon DEF RollbackUndo
<1> DEFINE a == patches[i].addr
<1>2. pc = "rollback" /\ UNCHANGED <<batch, owned, uncached, c>>
  BY Zenon DEF RollbackUndo, args
<1>3. /\ \A k \in DOMAIN patches' : \E j \in DOMAIN patches :
            patches'[k] = patches[j] /\ patches[j].addr # a
      /\ \A m \in Ram : ram'[m] = IF m = a THEN patches[i].old ELSE ram[m]
      /\ At("check")' /\ pc' # "finish" /\ pc' # "rollback"
      /\ pc' # "reapply" => pc' = "check"
      /\ pc' = "reapply" => cont' = "check"
  BY <1>1, UndoFacts, Zenon
<1>4. LoopInv'
  BY <1>3, Zenon DEF LoopInv, At
<1> HIDE DEF a
<1>5. AddedInv'
  <2> SUFFICES ASSUME NEW k \in DOMAIN patches', patches'[k].addr \notin owned
               PROVE  /\ patches'[k].addr \in Ram => ram'[patches'[k].addr] = patches'[k].new
                      /\ \/ patches'[k].addr \in Ram /\ patches'[k].insn
                         \/ \E n \in DOMAIN batch :
                               /\ batch[n].addr = patches'[k].addr
                               /\ n \notin uncached /\ n > c
    BY <1>2, <1>3, Zenon DEF AddedInv, ToUndo
  <2>1. PICK j \in DOMAIN patches : patches'[k] = patches[j] /\ patches[j].addr # a
    BY <1>3, Zenon
  <2>2. /\ patches[j].addr \in Ram => ram[patches[j].addr] = patches[j].new
        /\ (patches[j].addr \in Ram /\ patches[j].insn) \/ ToUndo(patches[j])
    BY <1>2, <2>1, Zenon DEF RollInv, AddedInv
  <2>3. patches[j].addr \in Ram => ram'[patches[j].addr] = patches[j].new
    BY <1>3, <2>1, <2>2, Zenon
  <2>4. ASSUME ToUndo(patches[j])
        PROVE  \E n \in DOMAIN batch :
                  batch[n].addr = patches[j].addr /\ n \notin uncached /\ n > c
    <3>1. PICK n \in DOMAIN batch :
             batch[n].addr = patches[j].addr /\ n \notin uncached /\ n >= c
      BY <1>2, <2>4, Zenon DEF ToUndo
    <3>2. n # c
      BY <1>1, <2>1, <3>1, Zenon DEF a
    <3>3. n > c
      BY <3>1, <3>2 DEF TypeOK
    <3> QED
      BY <3>1, <3>3, Zenon
  <2> QED
    BY <2>1, <2>2, <2>3, <2>4, Zenon
<1> QED
  BY <1>4, <1>5, Zenon DEF RollInv

\* A patch that the rollback passes over was not added by this call, or is one
\* of RAM code: what the call added is still in effect.
LEMMA RollbackSkipRoll ==
    ASSUME TypeOK, RollInv, RollbackSkip, RomPatchesInEffect
    PROVE  RollInv'
<1>1. /\ pc = "rollback" /\ c' = c + 1
      /\ UNCHANGED <<patches, ram, batch, owned, uncached, pc, err>>
  BY Zenon DEF RollbackSkip, mem, args
<1>2. \/ c \in uncached
      \/ \A i \in DOMAIN patches :
            patches[i].addr = batch[c].addr => ~ is_patch_still_applied(patches[i])
  BY Zenon DEF RollbackSkip
<1>3. LoopInv'
  BY <1>1, Zenon DEF LoopInv, At
<1>4. AddedInv'
  <2> SUFFICES ASSUME NEW k \in DOMAIN patches, patches[k].addr \notin owned,
                      ~ (patches[k].addr \in Ram /\ patches[k].insn)
               PROVE  /\ patches[k].addr \in Ram => ram[patches[k].addr] = patches[k].new
                      /\ \E n \in DOMAIN batch :
                            /\ batch[n].addr = patches[k].addr
                            /\ n \notin uncached /\ n >= c'
    <3>1. ASSUME NEW k \in DOMAIN patches, patches[k].addr \notin owned
          PROVE  patches[k].addr \in Ram => ram[patches[k].addr] = patches[k].new
      BY <1>1, <3>1, Zenon DEF RollInv, AddedInv
    <3> QED
      BY <1>1, <3>1, Zenon DEF AddedInv, ToUndo, At
  <2>1. patches[k].addr \in Ram => ram[patches[k].addr] = patches[k].new
    BY <1>1, Zenon DEF RollInv, AddedInv
  <2>2. ToUndo(patches[k])
    BY <1>1, Zenon DEF RollInv, AddedInv
  <2>3. PICK n \in DOMAIN batch :
           batch[n].addr = patches[k].addr /\ n \notin uncached /\ n >= c
    BY <1>1, <2>2, Zenon DEF ToUndo
  <2>4. is_patch_still_applied(patches[k])
    <3>1. CASE patches[k].addr \in Ram
      BY <2>1, <3>1, Zenon DEF is_patch_still_applied, read_value
    <3>2. CASE patches[k].addr \in Rom
      BY <1>1, <3>2, Zenon DEF RomPatchesInEffect
    <3> QED
      BY <3>1, <3>2, PatchedType, Zenon DEF Addr
  <2>5. n # c
    BY <1>2, <2>3, <2>4, Zenon
  <2>6. n >= c'
    BY <1>1, <2>3, <2>5 DEF TypeOK
  <2> QED
    BY <2>1, <2>3, <2>6, Zenon
<1> QED
  BY <1>3, <1>4, Zenon DEF RollInv

\* The end of the rollback, and of unpatch_memory: no position is left.
LEMMA RollbackEndRoll ==
    ASSUME TypeOK, RollInv, RollbackEnd \/ (CheckLock /\ batch = <<>>)
    PROVE  RollInv'
<1>1. /\ pc \in {"rollback", "check"} /\ pc' = "finish"
      /\ pc = "rollback" => c > Len(batch)
      /\ pc = "check" => batch = <<>>
      /\ UNCHANGED <<patches, ram, owned>>
  BY Zenon DEF RollbackEnd, CheckLock, mem, args
<1>2. LoopInv'
  BY <1>1, Zenon DEF LoopInv, At
<1>3. \A n \in DOMAIN batch : pc = "rollback" /\ ~ (n >= c)
  BY <1>1 DEF TypeOK
<1>4. \A p : ~ ToUndo(p)
  BY <1>1, <1>3, Zenon DEF ToUndo
<1>5. AddedInv'
  BY <1>1, <1>4, Zenon DEF RollInv, AddedInv
<1> QED
  BY <1>2, <1>5, Zenon DEF RollInv

\* unpatch_memory returns to the rollback, which goes on at the next position.
LEMMA CheckLockRoll ==
    ASSUME TypeOK, RollInv, CheckLock, batch # <<>>
    PROVE  RollInv'
<1>1. /\ pc = "check" /\ pc' = "rollback" /\ c' = c + 1
      /\ UNCHANGED <<patches, ram, owned, batch, uncached>>
  BY Zenon DEF CheckLock, args
<1>2. LoopInv'
  BY <1>1, Zenon DEF LoopInv, At
<1>3. \A n \in DOMAIN batch : n > c => n >= c'
  BY <1>1 DEF TypeOK
<1>4. \A p : ToUndo(p) => \E n \in DOMAIN batch :
         batch[n].addr = p.addr /\ n \notin uncached /\ n >= c'
  BY <1>1, <1>3, Zenon DEF ToUndo, At
<1>5. AddedInv'
  <2> SUFFICES ASSUME NEW k \in DOMAIN patches, patches[k].addr \notin owned
               PROVE  /\ patches[k].addr \in Ram => ram[patches[k].addr] = patches[k].new
                      /\ \/ patches[k].addr \in Ram /\ patches[k].insn
                         \/ \E n \in DOMAIN batch :
                               /\ batch[n].addr = patches[k].addr
                               /\ n \notin uncached /\ n >= c'
    BY <1>1, Zenon DEF AddedInv, ToUndo, At
  <2> QED
    BY <1>1, <1>4, Zenon DEF RollInv, AddedInv
<1> QED
  BY <1>2, <1>5, Zenon DEF RollInv

\* The walk over the list and its end.
LEMMA WalkRoll ==
    ASSUME TypeOK, PushInv, RollInv, Reapply \/ ReapplyDone
    PROVE  RollInv'
<1>1. /\ pc = "reapply" /\ pc' \in {"reapply", cont}
      /\ UNCHANGED <<patches, ram, batch, owned, uncached, c, err, cont>>
  BY Zenon DEF Reapply, ReapplyDone, mem, args
<1>2. cont \in {"push", "apply", "check", "finish"}
  BY Zenon DEF PushInv
<1>3. /\ At("apply")' => At("apply")
      /\ At("push")' => At("push")
      /\ At("check")' => At("check")
  BY <1>1, <1>2, Zenon DEF At
<1>4. LoopInv'
  BY <1>1, <1>3, Zenon DEF RollInv, LoopInv
<1>5. pc' = "finish" => batch = <<>>
  BY <1>1, <1>2, Zenon DEF RollInv, LoopInv
<1>6. pc' = "finish" => \A p : ~ ToUndo(p)
  <2>1. batch = <<>> => DOMAIN batch = {}
    OBVIOUS
  <2> QED
    BY <1>5, <2>1, Zenon DEF ToUndo
<1>7. \A k \in DOMAIN patches : ToUndo(patches[k]) => ToUndo(patches[k])'
  BY <1>1, <1>2, <1>3, Zenon DEF ToUndo
<1>8. AddedInv'
  BY <1>1, <1>6, <1>7, Zenon DEF RollInv, AddedInv
<1> QED
  BY <1>4, <1>8, Zenon DEF RollInv

\* The loop of apply_patches is over without an error.
LEMMA ApplyEndRoll ==
    ASSUME TypeOK, RollInv, ApplyEnd
    PROVE  RollInv'
<1>1. /\ pc = "apply" /\ pc' = (IF err = "OK" THEN "finish" ELSE "rollback") /\ c' = 1
      /\ UNCHANGED <<patches, ram, owned, batch, uncached, err>>
  BY Zenon DEF ApplyEnd, mem, args
<1>2. CASE err = "OK"
  <2>1. LoopInv'
    BY <1>1, <1>2, Zenon DEF LoopInv, At
  <2>2. AddedInv'
    BY <1>1, <1>2, Zenon DEF RollInv, AddedInv
  <2> QED
    BY <2>1, <2>2, Zenon DEF RollInv
<1>3. CASE err # "OK"
  BY <1>1, <1>3, FailRoll, Zenon
<1> QED
  BY <1>2, <1>3, Zenon

\* A call begins, and has added nothing.
LEMMA CallRoll ==
    ASSUME TypeOK, ListInv(patches),
           \/ \E b \in Batches : ApplyPatches(b)
           \/ \E a \in Addr : UnpatchMemory(a) \/ UnpatchOverwritten(a)
           \/ \E r \in Requests : HookRefused(r) \/ \E s \in Slots : PatchHookFunction(r, s)
           \/ SyncCaches
    PROVE  RollInv'
<1> DEFINE Begun == /\ owned' = Patched /\ Patched' \subseteq Patched /\ uncached' = {}
                    /\ ~ At("push")'
                    /\ pc' = "reapply" /\ cont' = "finish" => batch' = <<>>
<1>1. ASSUME NEW b \in Batches, ApplyPatches(b)
      PROVE  Begun
  BY <1>1, Zenon DEF ApplyPatches, BeginCall, mem, Patched, At
<1>2. ASSUME NEW a \in Addr, UnpatchMemory(a)
      PROVE  Begun
  <2>1. PICK i \in DOMAIN patches : Undo(i)
    BY <1>2, Zenon DEF UnpatchMemory
  <2>2. owned' = Patched /\ uncached' = {}
    BY <1>2, Zenon DEF UnpatchMemory, BeginCall
  <2>3. /\ Patched' = Patched \ {patches[i].addr}
        /\ pc' # "reapply" => pc' = "check"
        /\ pc' = "reapply" => cont' = "check"
    BY <2>1, UndoFacts, Zenon
  <2> QED
    BY <2>2, <2>3, Zenon DEF At
<1>3. ASSUME NEW a \in Addr, UnpatchOverwritten(a)
      PROVE  Begun
  BY <1>3, Zenon DEF UnpatchOverwritten, mem, Patched, At
<1>4. ASSUME NEW r \in Requests, HookRefused(r)
      PROVE  Begun
  BY <1>4, Zenon DEF HookRefused, mem, Patched, At
<1>5. ASSUME NEW r \in Requests, NEW s \in Slots, PatchHookFunction(r, s)
      PROVE  Begun
  <2>1. pc' = "apply" \/ (pc' = "reapply" /\ cont' = "apply")
    BY <1>5, SyncFacts, Zenon DEF PatchHookFunction
  <2> QED
    BY <1>5, <2>1, Zenon DEF PatchHookFunction, BeginCall, Patched, At
<1>6. ASSUME SyncCaches
      PROVE  Begun
  <2>1. pc' = "finish" \/ (pc' = "reapply" /\ cont' = "finish")
    BY <1>6, SyncFacts, Zenon DEF SyncCaches
  <2> QED
    BY <1>6, <2>1, Zenon DEF SyncCaches, BeginCall, Patched, At
<1>7. Begun
  BY <1>1, <1>2, <1>3, <1>4, <1>5, <1>6, Zenon
<1>8. LoopInv'
  BY <1>7, Zenon DEF LoopInv
<1>9. AddedInv'
  BY <1>7, NothingAdded, Zenon
<1> QED
  BY <1>8, <1>9, Zenon DEF RollInv

\* Every step keeps RollInv.
LEMMA RollStep ==
    ASSUME IInv, RollInv, [Next]_vars
    PROVE  RollInv'
<1>0. TypeOK /\ PushInv /\ Core /\ ListInv(patches)
  BY Zenon DEF IInv, TypeInv, Core
<1>1. ASSUME NEW b \in Batches, ApplyPatches(b)
      PROVE  RollInv'
  BY <1>0, <1>1, CallRoll, Zenon
<1>2. CASE ApplyRefused
  BY <1>0, <1>2, FailRoll, Zenon DEF ApplyRefused, Fail, mem, args
<1>3. CASE ApplyRom
  <2> DEFINE p == batch[c]
  <2>1. /\ pc = "apply" /\ c \in DOMAIN batch /\ p.addr \in Rom /\ CheckError(p) = "OK"
        /\ UNCHANGED <<ram, batch, owned, uncached>>
    BY <1>0, <1>3, LoopPlace, Zenon DEF ApplyRom, args
  <2>2. \/ pc' = "rollback" /\ c' = 1 /\ UNCHANGED patches
        \/ patches' = Append(patches, EntryOf(p)) /\ c' = c + 1 /\ UNCHANGED pc
    BY <1>3, Zenon DEF ApplyRom, Fail
  <2>3. p.addr \notin Patched /\ p.addr \notin Ram
    BY <2>1, CheckErrorType, PatchAssumption, Zenon
  <2> QED
    BY <1>0, <2>1, <2>2, <2>3, FailRoll, AppendRoll, Zenon
<1>4. CASE ApplyRam
  <2> DEFINE p == batch[c]
  <2>1. /\ pc = "apply" /\ c \in DOMAIN batch /\ p.addr \in Ram /\ CheckError(p) = "OK"
        /\ ram' = [ram EXCEPT ![p.addr] = p.new] /\ UNCHANGED <<batch, owned>>
    BY <1>0, <1>4, LoopPlace, Zenon DEF ApplyRam
  <2>2. p.addr \notin Patched
    BY <2>1, CheckErrorType, Zenon
  <2>3. CASE p.insn
    BY <1>0, <1>4, <2>1, <2>2, <2>3, FlushRoll, Zenon DEF ApplyRam
  <2>4. CASE ~ p.insn
    <3>1. patches' = Append(patches, EntryOf(p)) /\ c' = c + 1 /\ UNCHANGED <<pc, uncached>>
      BY <1>4, <2>4, Zenon DEF ApplyRam
    <3>2. ram'[p.addr] = p.new
      BY <1>0, <2>1, Zenon DEF TypeOK
    <3> QED
      BY <1>0, <2>1, <2>2, <3>1, <3>2, AppendRoll, Zenon
  <2> QED
    BY <2>3, <2>4, Zenon
<1>5. CASE Push
  <2>1. /\ pc = "push" /\ c \in DOMAIN batch
        /\ batch[c].addr \in Ram /\ batch[c].addr \notin Patched
        /\ patches' = Append(patches, EntryOf(batch[c])) /\ c' = c + 1
        /\ pc' = "apply" /\ UNCHANGED <<ram, batch, owned, uncached>>
    BY <1>0, <1>5, Zenon DEF Push, PushInv, args
  <2>2. ram'[batch[c].addr] = batch[c].new
    BY <2>1, Zenon DEF RollInv, LoopInv, At
  <2> QED
    BY <1>0, <2>1, <2>2, AppendRoll, Zenon
<1>6. CASE ApplyEnd
  BY <1>0, <1>6, ApplyEndRoll, Zenon
<1>7. ASSUME NEW a \in Addr, UnpatchMemory(a) \/ UnpatchOverwritten(a)
      PROVE  RollInv'
  BY <1>0, <1>7, CallRoll, Zenon
<1>8. CASE RollbackUndo
  BY <1>0, <1>8, RollbackUndoRoll, Zenon
<1>9. CASE RollbackSkip
  BY <1>0, <1>9, InEffect, RollbackSkipRoll, Zenon
<1>10. CASE RollbackEnd
  BY <1>0, <1>10, RollbackEndRoll, Zenon
<1>11. CASE CheckLock
  BY <1>0, <1>11, RollbackEndRoll, CheckLockRoll, Zenon
<1>12. CASE Reapply \/ ReapplyDone
  BY <1>0, <1>12, WalkRoll, Zenon
<1>13. ASSUME NEW r \in Requests, HookRefused(r) \/ \E s \in Slots : PatchHookFunction(r, s)
       PROVE  RollInv'
  BY <1>0, <1>13, CallRoll, Zenon
<1>14. CASE SyncCaches
  BY <1>0, <1>14, CallRoll, Zenon
<1>15. ASSUME pc' = "idle"
       PROVE  RollInv'
  BY <1>15, Zenon DEF RollInv, LoopInv, AddedInv, At
<1>16. ASSUME NEW a \in Ram, NEW v \in Val, CanonWrite(a, v)
       PROVE  pc' = "idle"
  BY <1>16, Zenon DEF CanonWrite
<1>17. CASE Finish
  BY <1>15, <1>17, Zenon DEF Finish, EndCall
<1>18. CASE UNCHANGED vars
  <2>1. UNCHANGED <<patches, ram, batch, owned, uncached, pc, c, err, cont>>
    BY <1>18, Zenon DEF vars, mem, args
  <2>2. LoopInv'
    BY <2>1, Zenon DEF RollInv, LoopInv, At
  <2>3. AddedInv'
    BY <2>1, Zenon DEF RollInv, AddedInv, ToUndo, At
  <2> QED
    BY <2>2, <2>3, Zenon DEF RollInv
<1> QED
  BY <1>1, <1>2, <1>3, <1>4, <1>5, <1>6, <1>7, <1>8, <1>9, <1>10, <1>11, <1>12,
     <1>13, <1>14, <1>15, <1>16, <1>17, <1>18, Zenon DEF Next

-----------------------------------------------------------------------------
(* Every step keeps NamedInv.                                              *)

\* Every step keeps NamedInv.
LEMMA NamedStep ==
    ASSUME IInv, NamedInv, [Next]_vars
    PROVE  NamedInv'
<1>0. TypeOK /\ PushInv /\ ListInv(patches)
  BY Zenon DEF IInv, TypeInv, Core
<1>1. ASSUME owned' = Patched, patches' = patches, AddrsOf(batch)' \subseteq named'
      PROVE  NamedInv'
  <2>1. owned' \ Patched' = {}
    BY <1>1, Zenon DEF Patched
  <2> QED
    BY <1>1, <2>1, Zenon DEF NamedInv
<1>2. ASSUME UNCHANGED <<patches, owned, batch, named>>, pc # "idle"
      PROVE  NamedInv'
  <2>1. Patched' = Patched /\ AddrsOf(batch)' = AddrsOf(batch)
    BY <1>2, Zenon DEF Patched, AddrsOf
  <2> QED
    BY <1>2, <2>1, Zenon DEF NamedInv
<1>3. ASSUME c \in DOMAIN batch, patches' = Append(patches, EntryOf(batch[c])),
             UNCHANGED <<owned, batch, named>>, pc # "idle"
      PROVE  NamedInv'
  <2>1. batch[c] \in Request /\ AddrsOf(batch)' = AddrsOf(batch)
    BY <1>0, <1>3 DEF TypeOK, AddrsOf
  <2>2. Patched \subseteq Patched'
    BY <1>0, <1>3, <2>1, EntryType, AppendFacts, Zenon
  <2> QED
    BY <1>3, <2>1, <2>2, Zenon DEF NamedInv
<1>4. ASSUME NEW a \in Addr, UnpatchMemory(a)
      PROVE  NamedInv'
  <2>1. PICK i \in DOMAIN patches : Undo(i) /\ patches[i].addr = a
    BY <1>4, Zenon DEF UnpatchMemory
  <2>2. owned' = Patched /\ batch' = <<>> /\ named' = {a}
    BY <1>4, Zenon DEF UnpatchMemory, BeginCall
  <2>3. Patched' = Patched \ {a}
    BY <1>0, <2>1, UndoFacts, Zenon
  <2>4. AddrsOf(batch)' = {}
    BY <2>2 DEF AddrsOf
  <2> QED
    BY <2>2, <2>3, <2>4, Zenon DEF NamedInv
<1>5. CASE RollbackUndo
  <2>1. PICK i \in DOMAIN patches : Undo(i) /\ patches[i].addr = batch[c].addr
    BY <1>5, Zenon DEF RollbackUndo
  <2>2. c \in DOMAIN batch /\ pc = "rollback" /\ UNCHANGED <<owned, batch, named>>
    BY <1>0, <1>5, LoopPlace, Zenon DEF RollbackUndo, args
  <2>3. Patched' = Patched \ {batch[c].addr}
    BY <1>0, <2>1, UndoFacts, Zenon
  <2>4. AddrsOf(batch)' = AddrsOf(batch) /\ batch[c].addr \in AddrsOf(batch)
    BY <2>2, Zenon DEF AddrsOf
  <2> QED
    BY <2>2, <2>3, <2>4, Zenon DEF NamedInv
<1>6. CASE ApplyRom
  <2>1. /\ pc = "apply" /\ c \in DOMAIN batch /\ UNCHANGED <<batch, owned, named>>
        /\ UNCHANGED patches \/ patches' = Append(patches, EntryOf(batch[c]))
    BY <1>0, <1>6, LoopPlace, Zenon DEF ApplyRom, args
  <2> QED
    BY <1>2, <1>3, <2>1, Zenon
<1>7. CASE ApplyRam
  <2>1. /\ pc = "apply" /\ c \in DOMAIN batch /\ UNCHANGED <<batch, owned, named>>
        /\ UNCHANGED patches \/ patches' = Append(patches, EntryOf(batch[c]))
    BY <1>0, <1>7, LoopPlace, Zenon DEF ApplyRam
  <2> QED
    BY <1>2, <1>3, <2>1, Zenon
<1>8. CASE Push
  <2>1. /\ pc = "push" /\ c \in DOMAIN batch /\ UNCHANGED <<batch, owned, named>>
        /\ patches' = Append(patches, EntryOf(batch[c]))
    BY <1>0, <1>8, Zenon DEF Push, PushInv, args
  <2> QED
    BY <1>3, <2>1, Zenon
<1>9. ASSUME NEW b \in Batches, ApplyPatches(b)
      PROVE  NamedInv'
  <2>1. owned' = Patched /\ patches' = patches /\ batch' = b /\ named' = AddrsOf(b)
    BY <1>9, Zenon DEF ApplyPatches, BeginCall, mem
  <2> QED
    BY <1>1, <2>1, Zenon DEF AddrsOf
<1>10. ASSUME owned' = Patched, patches' = patches, batch' = <<>>
       PROVE  NamedInv'
  <2>1. AddrsOf(batch)' = {}
    BY <1>10 DEF AddrsOf
  <2> QED
    BY <1>1, <1>10, <2>1, Zenon
<1>11. ASSUME NEW a, UnpatchOverwritten(a) \/ HookRefused(a)
       PROVE  NamedInv'
  BY <1>10, <1>11, Zenon DEF UnpatchOverwritten, HookRefused, mem
<1>12. ASSUME NEW r \in Requests, NEW s \in Slots, PatchHookFunction(r, s)
       PROVE  NamedInv'
  <2> DEFINE h == [r EXCEPT !.insn = TRUE, !.new = s, !.size = 4]
  <2>1. owned' = Patched /\ patches' = patches /\ batch' = <<h>> /\ named' = {r.addr}
    BY <1>12, Zenon DEF PatchHookFunction, BeginCall
  <2>2. r \in Request
    BY PatchAssumption, Zenon
  <2>3. h.addr = r.addr
    BY <2>2 DEF Request
  <2>4. AddrsOf(batch)' = {r.addr}
    <3> HIDE DEF h
    <3>1. DOMAIN <<h>> = {1} /\ <<h>>[1] = h
      OBVIOUS
    <3> QED
      BY <2>1, <2>3, <3>1, Zenon DEF AddrsOf
  <2> QED
    BY <1>1, <2>1, <2>4, Zenon
<1>13. CASE SyncCaches
  BY <1>10, <1>13, Zenon DEF SyncCaches, BeginCall
<1>14. CASE ApplyRefused \/ ApplyEnd \/ RollbackSkip \/ RollbackEnd
  BY <1>2, <1>14, Zenon DEF ApplyRefused, ApplyEnd, RollbackSkip, RollbackEnd, mem, args
<1>15. CASE Reapply \/ ReapplyDone \/ CheckLock
  BY <1>2, <1>15, Zenon DEF Reapply, ReapplyDone, CheckLock, mem, args
<1>16. ASSUME pc' = "idle"
       PROVE  NamedInv'
  BY <1>16, Zenon DEF NamedInv
<1>17. CASE Finish
  BY <1>16, <1>17, Zenon DEF Finish, EndCall
<1>18. ASSUME NEW a \in Ram, NEW v \in Val, CanonWrite(a, v)
       PROVE  pc' = "idle"
  BY <1>18, Zenon DEF CanonWrite
<1>19. CASE UNCHANGED vars
  BY <1>2, <1>16, <1>19, Zenon DEF vars, mem, args
<1> QED
  BY <1>4, <1>5, <1>6, <1>7, <1>8, <1>9, <1>10, <1>11, <1>12, <1>13, <1>14, <1>15,
     <1>16, <1>17, <1>18, <1>19, Zenon DEF Next

-----------------------------------------------------------------------------
(* Every step keeps StaleInv.                                              *)

\* A step that leaves no more in the I-cache and fills no slot keeps StaleInv.
LEMMA NoNewStale ==
    ASSUME StaleInv, TypeOK, stale' \subseteq stale,
           \A s \in Slots : hooks[s] = NoAddr => hooks'[s] = NoAddr
    PROVE  StaleInv'
  BY Zenon DEF StaleInv

\* Undoing the patch of a jump frees its slot, so a jump left in the I-cache is
\* to a free one.
LEMMA UndoStale ==
    ASSUME IInv, HookInv, StaleInv, NEW i \in DOMAIN patches, Undo(i)
    PROVE  StaleInv'
<1> DEFINE p == patches[i]
<1>1. TypeOK /\ ListInv(patches) /\ WordInv
  BY Zenon DEF IInv, TypeInv, Core, HookInv
<1>2. \A s \in Slots : hooks'[s] = IF hooks[s] = p.addr THEN NoAddr ELSE hooks[s]
  BY <1>1, UndoFacts, Zenon
<1>3. p.new \in Slots => hooks'[p.new] = NoAddr
  BY <1>1, <1>2, Zenon DEF WordInv
<1>4. stale' \in {{}, stale, stale \cup {<<p.addr, p.new>>}}
  BY Zenon DEF Undo, sync_locked_caches
<1>5. \A w \in stale' : w \in stale \/ w[2] = p.new
  BY <1>4
<1> QED
  BY <1>2, <1>3, <1>5, Zenon DEF StaleInv

\* Every step keeps StaleInv: patch_hook_function, the only one to fill a slot,
\* flushes the I-cache.
LEMMA StaleStep ==
    ASSUME IInv, HookInv, StaleInv, [Next]_vars
    PROVE  StaleInv'
<1>0. TypeOK
  BY Zenon DEF IInv, TypeInv
<1>1. ASSUME UNCHANGED hooks, stale' \subseteq stale
      PROVE  StaleInv'
  BY <1>0, <1>1, NoNewStale, Zenon
<1>2. ASSUME stale' = {}
      PROVE  StaleInv'
  BY <1>2, Zenon DEF StaleInv
<1>3. CASE ApplyRefused \/ ApplyEnd \/ RollbackSkip \/ RollbackEnd \/ Reapply \/ ReapplyDone \/ Push
  BY <1>1, <1>3, Zenon
  DEF ApplyRefused, ApplyEnd, RollbackSkip, RollbackEnd, Reapply, ReapplyDone, Push, mem
<1>4. CASE ApplyRom \/ CheckLock
  BY <1>1, <1>4, Zenon DEF ApplyRom, CheckLock
<1>5. CASE ApplyRam
  BY <1>1, <1>5, Zenon DEF ApplyRam, sync_locked_caches
<1>6. ASSUME NEW a, UnpatchMemory(a) \/ RollbackUndo
      PROVE  StaleInv'
  <2>1. PICK i \in DOMAIN patches : Undo(i)
    BY <1>6, Zenon DEF UnpatchMemory, RollbackUndo
  <2> QED
    BY <2>1, UndoStale, Zenon
<1>7. ASSUME NEW a, UnpatchOverwritten(a) \/ HookRefused(a) \/ ApplyPatches(a)
      PROVE  StaleInv'
  BY <1>1, <1>7, Zenon DEF UnpatchOverwritten, HookRefused, ApplyPatches, mem
<1>8. ASSUME NEW r, NEW s, PatchHookFunction(r, s) \/ SyncCaches
      PROVE  StaleInv'
  BY <1>2, <1>8, Zenon DEF PatchHookFunction, SyncCaches, sync_locked_caches
<1>9. CASE Finish
  <2>1. \A s \in Slots : hooks[s] = NoAddr => hooks'[s] = NoAddr
    BY <1>0, <1>9, Zenon DEF Finish, TypeOK
  <2> QED
    BY <1>0, <1>9, <2>1, NoNewStale, Zenon DEF Finish, EndCall
<1>10. ASSUME NEW a, NEW v, CanonWrite(a, v)
       PROVE  StaleInv'
  BY <1>1, <1>10, Zenon DEF CanonWrite
<1>11. CASE UNCHANGED vars
  BY <1>1, <1>11, Zenon DEF vars, mem
<1> QED
  BY <1>3, <1>4, <1>5, <1>6, <1>7, <1>8, <1>9, <1>10, <1>11, Zenon DEF Next

-----------------------------------------------------------------------------
(* The theorems.                                                           *)

\* What a call keeps holds before the first one.
LEMMA CallInit == Init => HookInv /\ RollInv /\ NamedInv /\ StaleInv
<1> SUFFICES ASSUME Init PROVE HookInv /\ RollInv /\ NamedInv /\ StaleInv
  BY Zenon
<1>1. pc = "idle" /\ stale = {}
  BY Zenon DEF Init
<1> QED
  BY <1>1, HookInit, Zenon DEF RollInv, LoopInv, AddedInv, NamedInv, StaleInv, At

\* Hooks, rollback and the patches of others, in every reachable state.
LEMMA CallInvariant == Spec => [](IInv /\ HookInv /\ RollInv /\ NamedInv /\ StaleInv)
<1>1. IInv /\ HookInv /\ RollInv /\ NamedInv /\ StaleInv /\ [Next]_vars
         => (IInv /\ HookInv /\ RollInv /\ NamedInv /\ StaleInv)'
  BY Inductive, HookStep, RollStep, NamedStep, StaleStep, Zenon
<1> QED
  BY Initially, CallInit, <1>1, PTL DEF Spec

\* No word the CPU can execute, in RAM, in the locked cache or left over in the
\* I-cache, jumps to a slot given to another address, for any number of slots and
\* any sequence of calls: a failed patch_hook_function wipes a slot to which
\* nothing jumps; undoing a patch removes the jump from memory in the step that
\* frees its slot; and a jump that stays in the I-cache then is flushed before
\* the slot is filled again.
THEOREM HooksInPlace == Spec => []NoDanglingHook
<1>1. IInv /\ HookInv /\ StaleInv => NoDanglingHook
  <2> SUFFICES ASSUME IInv, HookInv, StaleInv, NEW a \in Rom, cached["I"][a] \in Slots
               PROVE  hooks[cached["I"][a]] = a
    BY Zenon DEF NoDanglingHook, HookInv, WordInv, StaleInv
  <2>1. cached["I"][a] \notin {NoWord, rom[a]}
    BY PatchAssumption, Zenon DEF Word
  <2>2. PICK j \in DOMAIN patches : patches[j].addr = a /\ cached["I"][a] = patches[j].new
    BY <2>1, Zenon DEF IInv, Core, CacheInv, ContentsOf
  <2> QED
    BY <2>2, Zenon DEF HookInv, WordInv
<1> QED
  BY CallInvariant, <1>1, PTL

\* Between calls every hook slot in use belongs to a patch on the list, through
\* which unpatch_memory can free it.
THEOREM HooksOwned == Spec => []NoLeakedHook
<1>1. HookInv => NoLeakedHook
  BY PatchAssumption, Zenon DEF HookInv, ErrInv, LeakInv, NoLeakedHook
<1> QED
  BY CallInvariant, <1>1, PTL

\* A failed apply_patches leaves nothing of its own on the list but patches of
\* RAM code: whatever else it added is still in effect when the rollback comes
\* to it, and so is found and undone.
THEOREM FailuresRolledBack == Spec => []RollbackCompleteButRamCode
<1>1. RollInv => RollbackCompleteButRamCode
  BY Zenon DEF RollInv, AddedInv, RollbackCompleteButRamCode
<1> QED
  BY CallInvariant, <1>1, PTL

\* A call takes off the list only patches at addresses it was given: the rollback
\* undoes what is at an address of the array, unpatch_memory what is at its own.
THEOREM OthersSpared == Spec => []OthersKept
<1>1. NamedInv => OthersKept
  BY Zenon DEF NamedInv, OthersKept
<1> QED
  BY CallInvariant, <1>1, PTL

\* Nailing the patches back after a flush never fails: the error code that
\* reapply_cache_patches hands to its callers is always that of success.
THEOREM FlushSucceeds == Spec => [](rerr = "OK")
<1>1. HookInv => rerr = "OK"
  BY Zenon DEF HookInv, ErrInv
<1> QED
  BY CallInvariant, <1>1, PTL
=============================================================================
