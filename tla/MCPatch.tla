------------------------------ MODULE MCPatch ------------------------------
(* Instance of Patch: r1 and r2 share a cache line, r3 needs the same place, *)
(* r4 is a word on which lockdown fails; m1 holds RAM code, m2 RAM data.     *)
EXTENDS Patch

CONSTANTS r1, r2, r3, r4, m1, m2, v0, v1

MCIndex == [a \in Rom |-> IF a = r4 THEN 1 ELSE 0]
MCTag == [a \in Rom |-> IF a = r3 THEN 1 ELSE 0]
MCrom == [a \in Rom |-> v0]
Req(a, i) == [addr |-> a, insn |-> i, old |-> v0, new |-> v1, size |-> 4]
MCRequests ==
    {Req(r1, TRUE), Req(r2, FALSE), Req(r3, TRUE), Req(r4, TRUE),
     Req(m1, TRUE), Req(m2, FALSE), [Req(r1, TRUE) EXCEPT !.size = 8],
     [Req(r2, TRUE) EXCEPT !.old = v1, !.new = v0]}
=============================================================================
