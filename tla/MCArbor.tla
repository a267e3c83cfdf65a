------------------------------ MODULE MCArbor -------------------------------
(***************************************************************************)
(* Instances of Arbor for TLC: the trees and frame-type sets the           *)
(* configurations choose from.                                             *)
(***************************************************************************)
EXTENDS ArborInvariant, TLC

CONSTANTS r1, r2, r3, R1, R2

\* One router, the root, above two requesters, or above one.
PathStar == [r \in Requesters |-> <<R1>>]

\* Two levels: R1 is the root, R2 aggregates r1 and r2 below it, r3 hangs off
\* the root, so the fan-in plan of r1 is <<3, 2>> and that of r3 is <<3>>.
PathTree ==
    [r \in Requesters |-> IF r = r3 THEN <<R1>> ELSE <<R1, R2>>]

\* Everything but requests may be repeated; a repeated credit, repair
\* trigger, repair request, REGISTER or END is also what the retries send.
DupAllButRequests ==
    {"REGISTER", "REGISTER_ACK", "RESPONSE", "REPAIR_REQUEST", "AGG_MISS", "END", "END_ACK"}

\* Requesters are interchangeable under one router.
Symmetry == Permutations(Requesters)
SymmetryTree == Permutations(Requesters \ {r3})
=============================================================================
