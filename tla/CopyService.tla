----------------------------- MODULE CopyService ----------------------------
(***************************************************************************)
(* What edmac-memcpy.c promises its callers: a service that makes one copy *)
(* at a time and does not let go of a user before the user's data is in    *)
(* place, until it gives up on a copy.  After that it promises nothing.    *)
(***************************************************************************)
CONSTANTS
    Users,
    None

VARIABLES
    user,       \* who is served, or None
    copied,     \* users whose last copy has been made
    given_up

vars == <<user, copied, given_up>>

Init == user = None /\ copied = {} /\ given_up = FALSE

\* A copy begins; a small one is made at once.
Begin(u) ==
    /\ user = None /\ ~ given_up
    /\ user' = u /\ copied' \in {copied \ {u}, copied \cup {u}}
    /\ UNCHANGED given_up

\* The copy is made; if nobody waits for it, that is also the end of it.
Copy ==
    /\ user # None
    /\ copied' = copied \cup {user} /\ user' \in {user, None}
    /\ UNCHANGED given_up

\* The user leaves with the data.
End ==
    /\ user \in copied
    /\ user' = None
    /\ UNCHANGED <<copied, given_up>>

GiveUp ==
    /\ user # None
    /\ user' = None /\ copied' = {} /\ given_up' = TRUE

Next == Copy \/ End \/ GiveUp \/ \E u \in Users : Begin(u)

Spec == Init /\ [][Next]_vars
=============================================================================
