-------------------------- MODULE ExMemInvariant ----------------------------
(***************************************************************************)
(* What holds in every reachable state of ExMem and explains why the       *)
(* suites of the shooting buffer are accounted for.                        *)
(***************************************************************************)
EXTENDS ExMem

\* The steps of the calls.
ShootPcs == {"alloc", "wait", "late", "free", "freewait", "return"}
SrmPcs == {"srm_sleep", "srm_loop", "srm_pick"}

NoneOr(S) == S \cup {NoSuite}

\* The types, without the amount of memory.
ShootTypes ==
    /\ alloc_sem \in BOOLEAN /\ free_sem \in BOOLEAN /\ crossed \in BOOLEAN
    /\ DOMAIN suite_info \subseteq Infos
    /\ suite_info \in [DOMAIN suite_info -> [ret : NoneOr(Suites), timed_out : BOOLEAN]]
    /\ shoot_full_suite \in NoneOr(Suites) /\ own \in [Tasks -> SUBSET Suites]
    /\ queue \in Seq(Requests)
    /\ waiting \subseteq [kind : {"alloc"}, size : Nat, info : Infos, contig : BOOLEAN]
    /\ DOMAIN suites \subseteq Suites /\ suites \in [DOMAIN suites -> Nat]
    /\ granting = NoGrant \/ granting \in [suite : Suites, info : Infos, late : BOOLEAN]
    /\ call = NoCall \/ (call.pc \in SrmPcs /\ call.backup = NoSuite) \/ call \in Calls

\* A call for shoot memory: only while it tests sizes does it hold a backup, and
\* none when it returns; it never frees what it allocates for the caller.
CallInv ==
    call \in Calls =>
        /\ call.next # "test" => call.backup = NoSuite
        /\ call.pc \in {"free", "freewait"} => call.next # "full"
        /\ call.pc = "return" => call.backup = NoSuite

\* RscMgr has a request with the alloc_msg_t at i: queued, put aside or in its callback.
Queued(k, i) == k \in DOMAIN queue /\ queue[k].kind = "alloc" /\ queue[k].info = i
Waits(r, i) == r \in waiting /\ r.info = i
Granted(i) == granting # NoGrant /\ granting.info = i
Pending(i) == (\E k : Queued(k, i)) \/ (\E r : Waits(r, i)) \/ Granted(i)

\* RscMgr has each alloc_msg_t once, and unanswered.
PendingInv ==
    /\ \A i : Pending(i) => i \in DOMAIN suite_info /\ suite_info[i].ret = NoSuite
    /\ \A i, k, l : Queued(k, i) /\ Queued(l, i) => k = l
    /\ \A i, r, q : Waits(r, i) /\ Waits(q, i) => r = q
    /\ \A i, k : Queued(k, i) => ~ Granted(i) /\ \A r : ~ Waits(r, i)
    /\ \A i, r : Waits(r, i) => ~ Granted(i)

\* The alloc_msg_t of the call that waits is there and not given up, that of a
\* late callback is; a token in alloc_sem is the answer to the call that waits.
WaitInv ==
    /\ call \in Calls /\ call.pc \in {"wait", "late"} =>
          call.info \in DOMAIN suite_info /\ ~ suite_info[call.info].timed_out
    /\ granting.late => suite_info[granting.info].timed_out
    /\ alloc_sem => call \in Calls /\ call.pc = "wait" /\ ~ Pending(call.info)

\* There is an alloc_msg_t for each request the call still makes: while it looks
\* for a size, one for this request and one for the final allocation.
Spare(n) == \E i, j \in Infos \ DOMAIN suite_info : n = 2 => i # j

SpareInv ==
    call \in Calls =>
        /\ call.pc = "alloc" => Spare(1)
        /\ call.pc \in {"wait", "late"} /\ call.next \in {"backup", "test"} => Spare(1)
        /\ call.pc \in {"free", "freewait"} /\ call.next = "backup" => Spare(1)
        /\ call.pc = "alloc" /\ call.next \in {"backup", "test"} => Spare(2)
        /\ call.pc \in {"free", "freewait"} /\ call.next = "test" => Spare(2)

\* Suite s is with task x, the backup or the subject of the call (of task x, for
\* x), in the answer at x, in the callback for x; or it is in the queue, to be
\* freed.
OwnAt(x, s) == x \in Tasks /\ s \in own[x]
BackupAt(x, s) == x = mem_sem /\ call # NoCall /\ s = call.backup
CallAt(x, s) == call.pc \in {"free", "return"} /\ x = call.next /\ s = call.suite
InfoAt(x, s) == x \in DOMAIN suite_info /\ s = suite_info[x].ret
GrantAt(x, s) == granting # NoGrant /\ x = granting.info /\ s = granting.suite

Place(g, x, s) ==
    \/ g = "own" /\ OwnAt(x, s)
    \/ g = "backup" /\ BackupAt(x, s)
    \/ g = "call" /\ CallAt(x, s)
    \/ g = "info" /\ InfoAt(x, s)
    \/ g = "callback" /\ GrantAt(x, s)

Freeing(k, s) == k \in DOMAIN queue /\ queue[k].kind = "free" /\ queue[k].suite = s

\* A suite that was given out is in one place, and no other is in any.
Accounted(s) ==
    /\ s \in DOMAIN suites <=> (\E g, x : Place(g, x, s)) \/ (\E k : Freeing(k, s))
    /\ \A g, x, h, y : Place(g, x, s) /\ Place(h, y, s) => g = h /\ x = y
    /\ \A g, x, k : ~ (Place(g, x, s) /\ Freeing(k, s))
    /\ \A k, l : Freeing(k, s) /\ Freeing(l, s) => k = l

PlacesInv == \A s \in Suites : Accounted(s)

\* The inductive invariant.
ShootInv ==
    /\ ShootTypes /\ CallInv
    /\ ~ crossed => PendingInv /\ WaitInv /\ SpareInv /\ PlacesInv

-----------------------------------------------------------------------------
(* Sizes                                                                   *)

\* The call is about to make its final allocation.
Final(c) == c.pc = "alloc" /\ c.next \in {"user", "full"}

Asking(c) == c.pc \in {"alloc", "wait", "late"}

\* What call c asks for: the backup, the size it tests with a backup in hand, or
\* finally no more than it has found.
Sized(c) ==
    /\ c.next = "test" => c.backup # NoSuite
    /\ Asking(c) /\ c.next = "backup" => c.size = BackupOf(c)
    /\ Asking(c) /\ c.next = "test" => c.size = c.tested
    /\ Final(c) /\ c.max_size # 0 => c.size <= c.max_size

\* The size of the backup, and a bound for what c has found if others own w.
Backed(c, f) == c.backup # NoSuite => f[c.backup] = BackupOf(c)

Bounded(c, w) ==
    c.max_size # 0 => c.max_size + w <= Total /\ (c.contig => c.max_size <= Chunk)

SizesInv == call \in Calls => Sized(call) /\ Backed(call, suites) /\ Bounded(call, Owned)

\* The request at i is for n, and what was granted has this size.
Asked(i, n) ==
    /\ \A k : Queued(k, i) => queue[k].size = n
    /\ \A r : Waits(r, i) => r.size = n
    /\ Granted(i) => suites[granting.suite] = n
    /\ suite_info[i].ret # NoSuite => suites[suite_info[i].ret] = n

AskedInv == call \in Calls /\ call.pc \in {"wait", "late"} => Asked(call.info, call.size)

\* RscMgr gives out no more than there is.
CapInv ==
    IsFiniteSet(Memory(DOMAIN suites)) /\ Cardinality(Memory(DOMAIN suites)) <= Total

\* Inductive together with ShootInv.
SizeInv == CapInv /\ (~ crossed => SizesInv /\ AskedInv)
=============================================================================
