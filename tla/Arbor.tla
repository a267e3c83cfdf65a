-------------------------------- MODULE Arbor -------------------------------
(***************************************************************************)
(* One channel end to end: the responder, its requesters, the LEVEL        *)
(* routers between them and the network.  Every component is its own       *)
(* process or thread; they share nothing but the frames in flight.         *)
(***************************************************************************)
EXTENDS Router, Responder, Requester

CONSTANTS
    MaxLoss,   \* frames the network may discard
    MaxDup,    \* frames the network may deliver twice
    DupTypes,  \* the types of those
    Patient    \* TRUE: a deadline passes only when nothing else can happen

ASSUME ArborAssumption == MaxLoss \in Nat /\ MaxDup \in Nat /\ Patient \in BOOLEAN

VARIABLES
    lost,      \* frames discarded so far
    doubled    \* frames duplicated so far

faultVars == <<lost, doubled>>

hostVars == <<responderVars, requesterVars>>
vars     == <<net, routerVars, responderVars, requesterVars, faultVars>>

Init ==
    /\ net = {}
    /\ lost = 0 /\ doubled = 0
    /\ RouterInit
    /\ ResponderInit
    /\ RequesterInit

-----------------------------------------------------------------------------
(* The network.  A frame that is never taken is a lost one, so discarding  *)
(* matters only where progress is assumed.                                 *)

Lose ==
    /\ lost < MaxLoss
    /\ \E f \in net : net' = net \ {f}
    /\ lost' = lost + 1
    /\ UNCHANGED <<routerVars, hostVars, doubled>>

Duplicate ==
    /\ doubled < MaxDup
    /\ \E f \in net :
         /\ f.type \in DupTypes /\ ~f.copy
         /\ net' = net \cup {[f EXCEPT !.copy = TRUE]}
    /\ doubled' = doubled + 1
    /\ UNCHANGED <<routerVars, hostVars, lost>>

\* Frames nobody will take: AGG_MISS, which the receive thread parks on the
\* queue the responder does not read, and frames of a finished call.
Parked(f) ==
    \/ f.type = "AGG_MISS"
    \/ f.dst = Responder /\ responding # "run"
    \/ /\ f.dst \in Requesters /\ requesting[f.dst] # "run"
       /\ ~(f.type = "END" /\ f.dst \in tombstone /\ f.epoch = Epoch)

\* Nothing is on its way and no host has work left.
Quiet ==
    /\ \A f \in net : Parked(f)
    /\ responding = "run" =>
         /\ pending = <<>>
         /\ meta.register_ack_pending \cap meta.registered_ready = {}
         /\ \A s \in Subchannels : ~CanIssue(s)
         /\ ~(AllDone(entries) /\ meta.end_ack_mask = Requesters)
    /\ \A r \in Requesters : requesting[r] = "run" =>
         credit_q[r] = {} /\ ~ReadyToFinish(r)

DeadlinePasses == Patient => Quiet

\* Beacons go out at one pace: no requester is a beacon ahead of another that
\* still registers.
BeaconTurn(r) ==
    Patient => \A q \in Requesters :
        requesting[q] = "run" /\ Unconfirmed(q) # {} /\ Unconfirmed(r) # {} =>
            register_attempts[r][NextBeacon(r)] <= register_attempts[q][NextBeacon(q)]

-----------------------------------------------------------------------------
RouterNext    == RouterStep /\ UNCHANGED <<hostVars, faultVars>>
ResponderNext ==
    /\ ResponderWork \/ (DeadlinePasses /\ ResponderTimer)
    /\ UNCHANGED <<routerVars, requesterVars, faultVars>>
RequesterNext(r) ==
    /\ RequesterWork(r) \/ (DeadlinePasses /\ BeaconTurn(r) /\ RequesterTimer(r))
    /\ UNCHANGED <<routerVars, responderVars, faultVars>>

Next ==
    \/ RouterNext
    \/ ResponderNext
    \/ \E r \in Requesters : RequesterNext(r)
    \/ Lose
    \/ Duplicate

\* The forwarding loops and both call loops poll without ever blocking, so
\* each component that can step eventually does.
Fairness ==
    /\ WF_vars(RouterNext)
    /\ WF_vars(ResponderNext)
    /\ \A r \in Requesters : WF_vars(RequesterNext(r))

Spec     == Init /\ [][Next]_vars

\* The same behaviours from the point where every requester is registered on
\* every subchannel and confirmed, with one beacon each and nothing in flight.
InitRegistered ==
    /\ net = {}
    /\ lost = 0 /\ doubled = 0
    /\ RouterInit
    /\ meta = [FreshMeta EXCEPT
                 !.epoch = Epoch, !.sequence_reserved = TRUE,
                 !.registered_bitmap = [s \in Subchannels |-> Requesters],
                 !.registered_ready = Subchannels]
    /\ entries = [o \in Offsets |-> FreshEntry]
    /\ pending = <<>>
    /\ ending = [sent |-> FALSE, retries |-> 0]
    /\ responding = "run"
    /\ register_acked = [r \in Requesters |-> Subchannels]
    /\ register_attempts = [r \in Requesters |-> [s \in Subchannels |-> 1]]
    /\ register_next = [r \in Requesters |-> 0]
    /\ stored = [r \in Requesters |-> [o \in Offsets |-> NoResult]]
    /\ offset_ring = [r \in Requesters |-> [o \in Offsets |-> "idle"]]
    /\ credit_q = [r \in Requesters |-> {}]
    /\ end_ack_subs = [r \in Requesters |-> {}]
    /\ tombstone = {}
    /\ requesting = [r \in Requesters |-> "run"]

RegisteredSpec == InitRegistered /\ [][Next]_vars
FairSpec == Spec /\ Fairness

-----------------------------------------------------------------------------
(* Properties.                                                             *)

\* The state stays within the C types and tables that hold it: frames and
\* their stacks, slot and entry indices, retry counters, call outcomes.
TypeOK ==
    /\ net \subseteq Frame
    /\ g_slots \in [Routers -> [SlotIds -> Slot]]
    /\ g_router_alloc_ptr \in [Routers -> SlotIds]
    /\ ResponderTypeOK
    /\ RequesterTypeOK
    /\ lost \in 0 .. MaxLoss /\ doubled \in 0 .. MaxDup

\* A committed result holds the fragment of every host exactly once, whatever
\* mix of aggregated, repaired, late and repeated requests led to it
\* (responder.c commit_entry_response, the repair_mode switch).
ExactResult ==
    \A o \in Offsets : entries[o].committed => entries[o].result = Exact(o)

\* A requester that has acknowledged END holds the exact result of every
\* packet: the responder never releases a message someone still waits for.
AckedMeansComplete ==
    \A r \in meta.end_ack_mask \cup tombstone :
        \A o \in Offsets : stored[r][o] = Exact(o)

\* A requester returns success only after every requester has answered every
\* packet: END waits for the whole message, not only for its results.
OkMeansAllDone ==
    \A r \in Requesters : requesting[r] = "ok" =>
        \A o \in Offsets : entries[o].done

\* A result that a credit carried is not sent again once that credit is done
\* (it is left out of the END replays): by then every requester must have it.
CarriedIsDelivered ==
    \A o \in Offsets :
        LET b == entries[o].bound_payload
        IN entries[o].done /\ b # NoOffset => \A r \in Requesters : stored[r][b] # NoResult

\* No credit leaves before every requester has asked for the subchannel it
\* leaves on ("the registration gate").
RegistrationGate ==
    \A o \in Offsets : entries[o].credit_sent =>
        \A r \in Requesters : register_attempts[r][entries[o].sub] > 0

\* A slot counts requesters, not their identities.  The same requester can be
\* summed twice only for a packet that has already switched to repair, whose
\* aggregate the responder will refuse.
DoubleCountOnlyInRepair ==
    \A R \in Routers, i \in SlotIds :
        LET slot == g_slots[R][i]
        IN (\E x \in Fragments : slot.accum[x] > 1) => entries[slot.owner[2]].repair_mode

\* One message as its callers see it.
ResultOf(o) == IF entries[o].committed THEN entries[o].result ELSE NoResult
Abstract ==
    INSTANCE AllReduce WITH
        Reduced <- Exact, None <- NoResult, result <- [o \in Offsets |-> ResultOf(o)],
        got <- stored, closed <- tombstone, returned <- responding = "ok"

\* The protocol implements the abstract all-reduce.
ImplementsAllReduce == Abstract!Spec

\* Both sides of the call return success.
AllOk == responding = "ok" /\ \A r \in Requesters : requesting[r] = "ok"
Termination == <>AllOk
=============================================================================
