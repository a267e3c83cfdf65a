------------------------------ MODULE AllReduce -----------------------------
(***************************************************************************)
(* What one message of a channel promises to its callers, without frames,  *)
(* credits, slots or retries: every packet is reduced once, the reduced    *)
(* value and no other is what a requester gets, a requester is closed only *)
(* when it has the whole message, and the responder returns only when all  *)
(* requesters are closed.  Any of this may also never happen.              *)
(***************************************************************************)
CONSTANTS Requesters, Offsets, Reduced(_), None

VARIABLES result, got, closed, returned

vars == <<result, got, closed, returned>>

Init ==
    /\ result = [o \in Offsets |-> None]
    /\ got = [r \in Requesters |-> [o \in Offsets |-> None]]
    /\ closed = {}
    /\ returned = FALSE

Reduce(o) ==
    /\ result[o] = None
    /\ result' = [result EXCEPT ![o] = Reduced(o)]
    /\ UNCHANGED <<got, closed, returned>>

Deliver(r, o) ==
    /\ result[o] # None /\ r \notin closed
    /\ got' = [got EXCEPT ![r][o] = result[o]]
    /\ UNCHANGED <<result, closed, returned>>

Close(r) ==
    /\ \A o \in Offsets : got[r][o] # None
    /\ closed' = closed \cup {r}
    /\ UNCHANGED <<result, got, returned>>

Return ==
    /\ closed = Requesters
    /\ returned' = TRUE
    /\ UNCHANGED <<result, got, closed>>

Next ==
    \/ \E o \in Offsets : Reduce(o)
    \/ \E r \in Requesters, o \in Offsets : Deliver(r, o)
    \/ \E r \in Requesters : Close(r)
    \/ Return

Spec == Init /\ [][Next]_vars
=============================================================================
