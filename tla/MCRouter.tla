------------------------------ MODULE MCRouter ------------------------------
(***************************************************************************)
(* RouterOpen for TLC: a two-level tree and a choice of traffic in which   *)
(* every reason of slot_accept to refuse a request occurs.                 *)
(***************************************************************************)
EXTENDS RouterOpen

CONSTANTS r1, r2, r3, R1, R2

\* R2 aggregates r1 and r2 below the root R1; r3 is alone below the root.
PathTree == [r \in Requesters |-> IF r = r3 THEN <<R1>> ELSE <<R1, R2>>]

Credits == {Response(R1, 0, o, NoOffset, Zero, FALSE, <<>>) : o \in Offsets}

\* Requests of r1 and r2 at the leaf with the right plan, with a slot index
\* that may be stale; r1 may also send a header-only one.
AtLeaf ==
    {Request(R2, r, 0, o, <<0, 0>>, <<3, 2>>, FALSE, 0, TRUE, Fragment(r, o)) :
        r \in {r1, r2}, o \in Offsets}
    \cup {Request(R2, r1, 0, 0, <<0, 0>>, <<3, 2>>, FALSE, 0, FALSE, Zero)}

\* At the root: the single requester, a partial aggregate of two, one that
\* overflows, a fan-in of zero, of one and of two, and an unused index.
AtRoot ==
    {Request(R1, r3, 0, 0, <<0>>, <<n>>, FALSE, 0, TRUE, Fragment(r3, 0)) : n \in {0, 1, 3}}
    \cup {Request(R1, r3, 0, 0, <<SlotCount>>, <<3>>, FALSE, 0, TRUE, Fragment(r3, 0))}
    \cup {Request(R1, r1, 0, 0, <<0>>, <<3>>, TRUE, c, TRUE,
                  Plus(Fragment(r1, 0), Fragment(r2, 0))) : c \in {2, 4}}

Traffic == Credits \cup AtLeaf \cup AtRoot
=============================================================================
