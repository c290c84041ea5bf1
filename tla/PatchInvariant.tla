--------------------------- MODULE PatchInvariant ---------------------------
(***************************************************************************)
(* The inductive invariants of Patch.                                      *)
(***************************************************************************)
EXTENDS Patch, TLAPS

\* A patch that changes what the CPU sees; one whose new value is what the
\* ROM holds need not be in the cache at all.
Real(p) == p.addr \in Rom /\ p.new # rom[p.addr]

\* The list names no address twice and records what the ROM held; lockdown
\* works on the words that real patches change, and real patches of one cache
\* never compete for a line.
ListInv(s) ==
    /\ \A j, k \in DOMAIN s : s[j].addr = s[k].addr => j = k
    /\ \A k \in DOMAIN s : s[k].addr \in Rom => s[k].old = rom[s[k].addr]
    /\ \A k \in DOMAIN s : Real(s[k]) => s[k].addr \notin Unfakeable
    /\ \A j, k \in DOMAIN s :
          /\ Real(s[j]) /\ Real(s[k]) /\ s[j].insn = s[k].insn
          /\ Index[s[j].addr] = Index[s[k].addr]
          => Tag[s[j].addr] = Tag[s[k].addr]

\* The locked cache holds whole lines, one per index.
LinesOf(k) ==
    \A t \in Caches : \A a, b \in Rom :
        k[t][a] # NoWord /\ Index[a] = Index[b] =>
            (k[t][b] # NoWord <=> Tag[a] = Tag[b])

\* A cached word is the ROM's, or the new value of a patch at that address:
\* for the data cache, of a data patch.
ContentsOf(s, k) ==
    /\ \A a \in Rom :
          \/ k["D"][a] \in {NoWord, rom[a]}
          \/ \E j \in DOMAIN s : s[j].addr = a /\ ~ s[j].insn /\ k["D"][a] = s[j].new
    /\ \A a \in Rom :
          \/ k["I"][a] \in {NoWord, rom[a]}
          \/ \E j \in DOMAIN s : s[j].addr = a /\ k["I"][a] = s[j].new

\* The real patches before position n are nailed into their cache.
NailedOf(s, k, n) ==
    \A j \in DOMAIN s :
        Real(s[j]) /\ j < n => k[CacheType(s[j])][s[j].addr] = s[j].new

\* While re-applying, only the patches already walked are known to be nailed.
Walked == IF pc = "reapply" THEN ri ELSE Len(patches) + 1

CacheInv == /\ LinesOf(cached) /\ ContentsOf(patches, cached)
            /\ NailedOf(patches, cached, Walked)

LockInv ==
    /\ ~ locked => cached = NoLines
    /\ RomPatched \/ pc = "reapply" => locked
    /\ locked => \/ RomPatched \/ fault
                 \/ pc = "check" \/ (pc = "reapply" /\ cont = "check")

Core == ListInv(patches) /\ CacheInv /\ LockInv

\* What the push after an I-cache flush relies on.
PushInv ==
    /\ pc = "push" \/ (pc = "reapply" /\ cont = "push") =>
          /\ c \in DOMAIN batch /\ batch[c].addr \in Ram
          /\ batch[c].addr \notin Patched
          /\ Len(patches) < MAX_PATCHES
    /\ cont \in {"push", "apply", "check", "finish"}

TypeInv == TypeOK /\ PushInv

\* The inductive invariant.
IInv == TypeInv /\ Core

CacheT == [Caches -> [Rom -> Word \cup {NoWord}]]

-----------------------------------------------------------------------------
(* What a call in progress keeps, for the properties of hooks and rollback. *)

\* Where a call is, whether or not it is walking the list after a flush.
At(next) == pc = next \/ (pc = "reapply" /\ cont = next)

\* Re-applying never fails, an error is known from the moment it is met until
\* the call ends, and calls without a hook have no slot.
ErrInv ==
    /\ rerr = "OK"
    /\ pc = "rollback" \/ (At("check") /\ batch # <<>>) => err # "OK"
    /\ pc = "idle" \/ (pc = "reapply" /\ cont = "finish") => slot = NoSlot
    /\ pc = "reapply" /\ cont = "apply" => c = 1

\* A jump to a hook, recorded or in memory, is at the address the hook is for.
WordInv ==
    /\ \A k \in DOMAIN patches :
          /\ patches[k].old \in Val
          /\ patches[k].new \in Slots => hooks[patches[k].new] = patches[k].addr
    /\ \A a \in Ram : ram[a] \in Slots => hooks[ram[a]] = a

\* Only patch_hook_function asks for a jump: one, to the slot it has filled.
BatchInv ==
    /\ \A k \in DOMAIN batch : /\ batch[k].old \in Val
                               /\ batch[k].new \in Slots => batch[k].new = slot
    /\ slot # NoSlot => Len(batch) = 1 /\ batch[1].new = slot

\* Nothing jumps to the slot of this call.
SlotUnused == /\ \A k \in DOMAIN patches : patches[k].new # slot
              /\ \A a \in Ram : ram[a] # slot

\* The slot is filled until its patch fails, and unused until it is applied.
SlotInv ==
    slot # NoSlot =>
        /\ At("apply") \/ At("push") => hooks[slot] = batch[1].addr
        /\ (At("apply") /\ c = 1) \/ err # "OK" => SlotUnused
        /\ pc = "apply" /\ c > 1 => batch[1].addr \in Patched
        /\ pc = "finish" /\ err = "OK" => hooks[slot] \in Patched

\* Every other slot in use belongs to a patch on the list.
LeakInv == \A s \in Slots : hooks[s] # NoAddr /\ s # slot => hooks[s] \in Patched

HookInv == ErrInv /\ WordInv /\ BatchInv /\ SlotInv /\ LeakInv

\* Positions whose address was rewritten are behind the loop of apply_patches,
\* and a RAM instruction is in memory before its patch is counted.
LoopInv ==
    /\ At("apply") => \A i \in uncached : i < c
    /\ At("push") => /\ \A i \in uncached : i <= c
                     /\ batch[c].insn /\ ram[batch[c].addr] = batch[c].new
    /\ pc = "reapply" /\ cont = "finish" => batch = <<>>

\* A patch this call has added is in effect, and the rollback will still come
\* to its position in the array, unless it is one of RAM code.
ToUndo(p) ==
    \E i \in DOMAIN batch :
        /\ batch[i].addr = p.addr /\ i \notin uncached
        /\ pc = "rollback" => i >= c
        /\ At("check") => i > c

AddedInv ==
    \A k \in DOMAIN patches : LET p == patches[k] IN
        pc # "idle" /\ p.addr \notin owned =>
            /\ p.addr \in Ram => ram[p.addr] = p.new
            /\ \/ p.addr \in Ram /\ p.insn
               \/ IF pc = "finish" THEN err = "OK" ELSE ToUndo(p)

RollInv == LoopInv /\ AddedInv

\* Only named addresses have left the list since the call began.
NamedInv ==
    pc # "idle" => AddrsOf(batch) \subseteq named /\ owned \ Patched \subseteq named

\* A jump left in the I-cache is to a slot that is still free.
StaleInv == \A w \in stale : w[2] \in Slots => hooks[w[2]] = NoAddr
=============================================================================
