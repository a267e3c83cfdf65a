----------------------------- MODULE RouterOpen -----------------------------
(***************************************************************************)
(* The LEVEL routers of a channel alone, against any traffic: credits come *)
(* down and requests come up in any order, number and combination, with    *)
(* stale slot indices, wrong fan-ins, partial aggregates and shapes that   *)
(* do not match.  What a slot promises must not depend on hosts behaving.  *)
(***************************************************************************)
EXTENDS RouterSound

CONSTANTS
    EnvFrames,    \* the frames the environment may send
    MaxInFlight   \* frames in flight at most

openVars == <<net, routerVars>>

ASSUME EnvAssumption == MaxInFlight \in Nat /\ \A f \in EnvFrames : FrameOK(f)

-----------------------------------------------------------------------------
Inject ==
    /\ Cardinality(net) < MaxInFlight
    /\ \E f \in EnvFrames : net' = net \cup {f}
    /\ UNCHANGED routerVars

\* A frame reaches a host, or is lost.
Leave ==
    /\ \E f \in net : net' = net \ {f}
    /\ UNCHANGED routerVars

OpenInit == net = {} /\ RouterInit
OpenNext == Inject \/ Leave \/ RouterStep
OpenSpec == OpenInit /\ [][OpenNext]_openVars

-----------------------------------------------------------------------------
\* What a step may do to a slot: nothing, bind it afresh when it is closed or
\* belongs to another packet, or add to it while it is open.
SlotStep(R, i) ==
    LET old == g_slots[R][i]
        new == g_slots'[R][i]
    IN \/ new = old
       \/ new = SlotFor(new.owner) /\ (old.forwarded \/ new.owner # old.owner)
       \/ /\ ~old.forwarded /\ new.owner = old.owner
          /\ new.agg_count > old.agg_count
          /\ \A x \in Fragments : new.accum[x] >= old.accum[x]

\* A closed slot does not change until a credit rebinds it, and an open one
\* loses what it has counted only to a credit of another packet.
SlotHistory == [][\A R \in Routers, i \in SlotIds : SlotStep(R, i)]_openVars
=============================================================================
