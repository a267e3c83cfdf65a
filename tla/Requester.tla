----------------------------- MODULE Requester ------------------------------
(***************************************************************************)
(* The requesters of a channel: each makes one call of request or          *)
(* request_push (protocol/requester.c, request_mode).  A call beacons      *)
(* REGISTER, answers every credit with its fragment, stores the results    *)
(* that come back and acknowledges END; afterwards the receive thread of   *)
(* its host answers END from the tombstone.                                *)
(***************************************************************************)
EXTENDS ArborNet

CONSTANT RegisterMaxAttempts    \* REGISTER_MAX_ATTEMPTS

ASSUME RequesterAssumption == RegisterMaxAttempts \in Nat \ {0}

VARIABLES
    register_acked,     \* [r]: subchannels confirmed by the responder
    register_attempts,  \* [r][s]: REGISTER frames sent
    register_next,      \* [r]: next_credit_subchannel, where the scan starts
    stored,             \* [r][o]: the payload in the result buffer, or NoResult
    offset_ring,        \* [r][o]: "idle", "pending" or "sent"
    credit_q,           \* [r]: credits accepted and not answered yet
    end_ack_subs,       \* [r]: subchannels whose END waits for an END_ACK
    tombstone,          \* requesters whose host has the END tombstone
    requesting          \* [r]: "run", then "ok" or "failed"

requesterVars == <<register_acked, register_attempts, register_next, stored, offset_ring,
                   credit_q, end_ack_subs, tombstone, requesting>>

NoResult == <<>>
Credit   == [off : Offsets, sub : Subchannels, repair : BOOLEAN, locs : Seq(Nat)]

RequesterTypeOK ==
    /\ register_acked \in [Requesters -> SUBSET Subchannels]
    /\ register_attempts \in [Requesters -> [Subchannels -> 0 .. RegisterMaxAttempts]]
    /\ register_next \in [Requesters -> Subchannels]
    /\ stored \in [Requesters -> [Offsets -> Payloads \cup {NoResult}]]
    /\ offset_ring \in [Requesters -> [Offsets -> {"idle", "pending", "sent"}]]
    /\ credit_q \in [Requesters -> SUBSET Credit]
    /\ end_ack_subs \in [Requesters -> SUBSET Subchannels]
    /\ tombstone \subseteq Requesters
    /\ requesting \in [Requesters -> {"run", "ok", "failed"}]

RequesterInit ==
    /\ register_acked = [r \in Requesters |-> {}]
    /\ register_attempts = [r \in Requesters |-> [s \in Subchannels |-> 0]]
    /\ register_next = [r \in Requesters |-> 0]
    /\ stored = [r \in Requesters |-> [o \in Offsets |-> NoResult]]
    /\ offset_ring = [r \in Requesters |-> [o \in Offsets |-> "idle"]]
    /\ credit_q = [r \in Requesters |-> {}]
    /\ end_ack_subs = [r \in Requesters |-> {}]
    /\ tombstone = {}
    /\ requesting = [r \in Requesters |-> "run"]

Completed(r) == {o \in Offsets : stored[r][o] # NoResult}

-----------------------------------------------------------------------------
(* Frames a requester receives.                                            *)

RxRegisterAck(r, f) ==
    /\ Arrives(f, r, "REGISTER_ACK")
    /\ register_acked' = [register_acked EXCEPT ![r] = @ \cup {f.sub}]
    /\ net' = Taken(f)
    /\ UNCHANGED <<register_attempts, register_next, stored, offset_ring, credit_q, end_ack_subs, tombstone>>

\* Mutant: the offset ring is not consulted.
CreditIgnoredNoRing(r, f, done) ==
    f.credit = NoOffset \/ (Pull /\ f.credit \in done)

\* The credit part of a response is ignored for a packet whose result is
\* here (pull), and, unless it is a repair, when the offset was answered or
\* waits to be answered.  done is Completed with the payload part applied.
CreditIgnored(r, f, done) ==
    \/ f.credit = NoOffset
    \/ Pull /\ f.credit \in done
    \/ ~f.repair /\ offset_ring[r][f.credit] # "idle"

\* The payload part comes first: it is stored again even when the offset was
\* complete.  Then the credit part; a repair puts the offset back to idle.
RxResponse(r, f) ==
    LET done    == Completed(r) \cup ({f.payload} \ {NoOffset})
        ignored == CreditIgnored(r, f, done)
    IN /\ Arrives(f, r, "RESPONSE")
       /\ register_acked' = [register_acked EXCEPT ![r] = @ \cup {f.sub}]
       /\ stored' = IF f.payload = NoOffset THEN stored
                    ELSE [stored EXCEPT ![r][f.payload] = f.data]
       /\ IF ignored
          THEN UNCHANGED <<offset_ring, credit_q>>
          ELSE /\ offset_ring' = [offset_ring EXCEPT ![r][f.credit] =
                                    IF f.repair THEN "idle" ELSE "pending"]
               /\ credit_q' = [credit_q EXCEPT ![r] = @ \cup
                    {[off |-> f.credit, sub |-> f.sub, repair |-> f.repair,
                      locs |-> IF f.repair THEN <<>> ELSE f.locs]}]
       /\ net' = Taken(f)
       /\ UNCHANGED <<register_attempts, register_next, end_ack_subs, tombstone>>

RxEnd(r, f) ==
    /\ Arrives(f, r, "END")
    /\ end_ack_subs' = IF f.epoch = Epoch
                       THEN [end_ack_subs EXCEPT ![r] = @ \cup {f.sub}]
                       ELSE end_ack_subs
    /\ net' = Taken(f)
    /\ UNCHANGED <<register_acked, register_attempts, register_next, stored, offset_ring, credit_q, tombstone>>

\* host_ack_tombstoned_end, on the receive thread, once the call is over.
AckTombstonedEnd(r, f) ==
    /\ Arrives(f, r, "END")
    /\ r \in tombstone /\ f.epoch = Epoch
    /\ net' = Taken(f) \cup {EndAck(r, f.sub, f.epoch)}
    /\ UNCHANGED requesterVars

-----------------------------------------------------------------------------
(* Frames a requester sends.                                               *)

Unconfirmed(r) == Subchannels \ register_acked[r]

\* The first unconfirmed subchannel from register_next on, wrapping around.
NextBeacon(r) ==
    LET Distance(s) == (s - register_next[r]) % Cardinality(Subchannels)
    IN CHOOSE s \in Unconfirmed(r) : \A t \in Unconfirmed(r) : Distance(s) <= Distance(t)

Exhausted(r, s) == register_attempts[r][s] = RegisterMaxAttempts

SendRegister(r) ==
    LET s == NextBeacon(r)
    IN /\ Unconfirmed(r) # {}
       /\ ~Exhausted(r, s)
       /\ register_attempts' = [register_attempts EXCEPT ![r][s] = @ + 1]
       /\ register_next' =
            [register_next EXCEPT ![r] = (s + 1) % Cardinality(Subchannels)]
       /\ net' = net \cup {Register(r, s)}
       /\ UNCHANGED <<register_acked, stored, offset_ring, credit_q, end_ack_subs, tombstone>>

\* send_request_frame: a repair goes to the responder with no stack; a
\* normal request goes up the slots its credit came down, and is not sent
\* when the depth is not the configured one.  A push request has no payload.
RequestFrames(r, c) ==
    LET data == IF Pull THEN Fragment(r, c.off) ELSE Zero
    IN IF c.repair THEN {RepairRequest(r, c.sub, c.off, data)}
       ELSE IF Len(c.locs) # Len(Path[r]) THEN {}
       ELSE {Request(Leaf(r), r, c.sub, c.off, c.locs, FaninPlan(r), FALSE, 0, Pull, data)}

\* What the dequeue loop leaves: every queued credit answered.
Answered(r) == UNION {RequestFrames(r, c) : c \in credit_q[r]}
RingAnswered(r) ==
    [offset_ring EXCEPT ![r] = [o \in Offsets |->
        IF \E c \in credit_q[r] : c.off = o /\ ~c.repair THEN "sent" ELSE @[o]]]

SendRequests(r) ==
    /\ credit_q[r] # {}
    /\ net' = net \cup Answered(r)
    /\ offset_ring' = RingAnswered(r)
    /\ credit_q' = [credit_q EXCEPT ![r] = {}]
    /\ UNCHANGED <<register_acked, register_attempts, register_next, stored, end_ack_subs, tombstone>>

-----------------------------------------------------------------------------
(* The end of the call.                                                    *)

\* Mutant: END is acknowledged before the message is complete.
ReadyOnEnd(r) == end_ack_subs[r] # {}

ReadyToFinish(r) == Completed(r) = Offsets /\ end_ack_subs[r] # {}
EndAcks(r)       == {EndAck(r, s, Epoch) : s \in end_ack_subs[r]}

\* Every packet complete and END seen: acknowledge, leave the tombstone and
\* return.  The loop looks for exhausted beacons earlier in the same pass, so
\* with one left over it can only get here in the pass that sent the last
\* beacon; the model allows it in any later pass too.
Finish(r) ==
    /\ credit_q[r] = {}
    /\ ReadyToFinish(r)
    /\ net' = net \cup EndAcks(r)
    /\ end_ack_subs' = [end_ack_subs EXCEPT ![r] = {}]
    /\ tombstone' = tombstone \cup {r}
    /\ requesting' = [requesting EXCEPT ![r] = "ok"]
    /\ UNCHANGED <<register_acked, register_attempts, register_next, stored, offset_ring, credit_q>>

\* The beacon that the pass which gives up may still send: the scan goes on
\* behind an exhausted subchannel.
LastBeacons(r) ==
    {t \in Unconfirmed(r) : Exhausted(r, NextBeacon(r)) /\ ~Exhausted(r, t)}

\* The scan meets an unconfirmed subchannel that used up its beacons: at once
\* while the pacing gap holds every beacon back, otherwise when it comes before
\* the one that beacons.  The loop body still runs to its end: it answers the
\* queued credits and may complete the END handshake, before the call
\* returns -1.
FailRegister(r) ==
    /\ \E s \in Unconfirmed(r) : Exhausted(r, s)
    /\ \E beacons \in {{}} \cup {{s} : s \in LastBeacons(r)} :
         /\ net' = net \cup {Register(r, s) : s \in beacons} \cup Answered(r)
                       \cup (IF ReadyToFinish(r) THEN EndAcks(r) ELSE {})
         /\ register_attempts' = [register_attempts EXCEPT ![r] =
              [s \in Subchannels |-> IF s \in beacons THEN @[s] + 1 ELSE @[s]]]
         /\ register_next' = [register_next EXCEPT ![r] =
              IF beacons = {} THEN @
              ELSE ((CHOOSE s \in beacons : TRUE) + 1) % Cardinality(Subchannels)]
    /\ offset_ring' = RingAnswered(r)
    /\ credit_q' = [credit_q EXCEPT ![r] = {}]
    /\ IF ReadyToFinish(r)
       THEN /\ tombstone' = tombstone \cup {r}
            /\ end_ack_subs' = [end_ack_subs EXCEPT ![r] = {}]
       ELSE UNCHANGED <<tombstone, end_ack_subs>>
    /\ requesting' = [requesting EXCEPT ![r] = "failed"]
    /\ UNCHANGED <<register_acked, stored>>

-----------------------------------------------------------------------------
RequesterWork(r) ==
    \/ /\ requesting[r] = "run"
       /\ \/ /\ \/ \E f \in net : RxRegisterAck(r, f) \/ RxResponse(r, f) \/ RxEnd(r, f)
                \/ SendRequests(r)
             /\ UNCHANGED requesting
          \/ Finish(r)
    \/ /\ requesting[r] # "run"
       /\ \E f \in net : AckTombstonedEnd(r, f)

RequesterTimer(r) ==
    /\ requesting[r] = "run"
    /\ \/ /\ SendRegister(r)
          /\ UNCHANGED requesting
       \/ FailRegister(r)
=============================================================================
