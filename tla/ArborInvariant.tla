--------------------------- MODULE ArborInvariant ---------------------------
(***************************************************************************)
(* The inductive invariant of a channel.  RouterInv is about the routers;  *)
(* the parts below relate what is in flight, in the slots and at the two   *)
(* sides of the channel.  The central one: while a packet has not switched *)
(* to repair, a requester's fragment of it is in at most one place, so the *)
(* count of a frame or slot, which has no identities, is the number of     *)
(* requesters summed in it, and a count of all requesters is all of them.  *)
(***************************************************************************)
EXTENDS Arbor, RouterSound

\* What a requester answers a credit with.
OwnData(r, o) == IF Pull THEN Fragment(r, o) ELSE Zero

\* The packet has not switched to repair.
Unrepaired(o) == ~entries[o].repair_mode

Givers(data, o) == {r \in Requesters : data[<<r, o>>] = 1}

\* A sum of n contributions holds each fragment at most once, of packet o and
\* of requesters that have answered its credit.
Once(data, o, n) ==
    /\ \A x \in Fragments : data[x] = 0 \/ data[x] = 1
    /\ \A x \in Fragments : data[x] = 1 => x[1] \in Requesters /\ x[2] = o
    /\ \A r \in Givers(data, o) : offset_ring[r][o] = "sent"
    /\ Pull => n = Cardinality(Givers(data, o))

\* Two sums have no fragment in common.
Apart(a, b) == \A x \in Fragments : a[x] = 0 \/ b[x] = 0

OpenFor(slot, o) == slot.owner # NoOwner /\ slot.owner[2] = o /\ ~slot.forwarded

-----------------------------------------------------------------------------
(* Contributions.                                                          *)

FramesOnce ==
    \A f \in net : f.type = "REQUEST" /\ Unrepaired(f.off) =>
        Once(f.data, f.off, Contribution(f))

SlotsOnce ==
    \A R \in Routers, i \in SlotIds :
        LET slot == g_slots[R][i]
        IN slot.owner # NoOwner /\ Unrepaired(slot.owner[2]) =>
               Once(slot.accum, slot.owner[2], slot.agg_count)

FramesApart ==
    \A f, g \in net :
        f.type = "REQUEST" /\ g.type = "REQUEST" /\ f # g /\ f.off = g.off
            /\ Unrepaired(f.off)
        => Apart(f.data, g.data)

FramesApartFromSlots ==
    \A f \in net, R \in Routers, i \in SlotIds :
        f.type = "REQUEST" /\ OpenFor(g_slots[R][i], f.off) /\ Unrepaired(f.off)
        => Apart(f.data, g_slots[R][i].accum)

SlotsApart ==
    \A R, Q \in Routers, i, j \in SlotIds, o \in Offsets :
        /\ <<R, i>> # <<Q, j>> /\ Unrepaired(o)
        /\ OpenFor(g_slots[R][i], o) /\ OpenFor(g_slots[Q][j], o)
        => Apart(g_slots[R][i].accum, g_slots[Q][j].accum)

\* An accepted credit of such a packet is the only one, and not answered.
CreditsPending ==
    \A r \in Requesters : \A c \in credit_q[r] :
        Unrepaired(c.off) =>
            /\ ~c.repair /\ offset_ring[r][c.off] = "pending"
            /\ \A d \in credit_q[r] : d.off = c.off => d = c

\* A repair trigger is in flight only for a packet in repair.
RepairMarked ==
    \A f \in net : f.type = "RESPONSE" /\ f.repair /\ f.credit # NoOffset =>
        entries[f.credit].repair_mode

\* What is in flight and in the slots.
SumsInv == FramesOnce /\ SlotsOnce /\ FramesApart /\ FramesApartFromSlots /\ SlotsApart

ContributionInv == SumsInv /\ CreditsPending /\ RepairMarked

-----------------------------------------------------------------------------
(* Results.                                                                *)

\* What no router has merged is what its requester sent.
Unmerged ==
    \A f \in net :
        (f.type = "REQUEST" /\ ~f.aggregated) \/ f.type = "REPAIR_REQUEST" =>
            f.data = OwnData(f.src, f.off)

\* The repair sum of an entry is that of the requesters in its bitmap.
Summed(e, o) ==
    e.repair_accum = [x \in Fragments |->
        IF Pull /\ x[2] = o /\ x[1] \in e.repair_bitmap THEN 1 ELSE 0]

RepairSum == \A o \in Offsets : Summed(entries[o], o)

ResponsesExact ==
    \A f \in net : f.type = "RESPONSE" /\ f.payload # NoOffset =>
        entries[f.payload].committed /\ f.data = Exact(f.payload)

StoredExact ==
    \A r \in Requesters, o \in Offsets : stored[r][o] # NoResult =>
        entries[o].committed /\ stored[r][o] = Exact(o)

\* Results wait for a credit, or travel on one, only once they are fixed.
QueuedCommitted ==
    /\ \A i \in DOMAIN pending : entries[pending[i]].committed
    /\ \A o \in Offsets : entries[o].bound_payload # NoOffset =>
           entries[entries[o].bound_payload].committed

ResultInv ==
    Unmerged /\ RepairSum /\ ExactResult /\ ResponsesExact /\ StoredExact /\ QueuedCommitted

-----------------------------------------------------------------------------
(* The END handshake.                                                      *)

\* END_ACK comes only from requesters that have every result and are over.
AcksFromClosed ==
    /\ \A f \in net : f.type = "END_ACK" => f.src \in tombstone
    /\ meta.end_ack_mask \subseteq tombstone
    /\ \A r \in tombstone : requesting[r] # "run" /\ \A o \in Offsets : stored[r][o] # NoResult

\* END is anywhere only after every packet is done.
EndMeansDone ==
    /\ ending.sent => AllDone(entries)
    /\ \A f \in net : f.type = "END" => ending.sent
    /\ \A r \in Requesters : end_ack_subs[r] # {} \/ requesting[r] = "ok" => ending.sent

-----------------------------------------------------------------------------
(* Registration.                                                           *)

Asked(r, s) == register_attempts[r][s] > 0

GateInv ==
    /\ \A f \in net : f.type = "REGISTER" => Asked(f.src, f.sub)
    /\ \A s \in Subchannels : \A r \in meta.registered_bitmap[s] : Asked(r, s)
    /\ \A s \in meta.registered_ready : meta.registered_bitmap[s] = Requesters
    /\ \A o \in Offsets : entries[o].credit_sent => entries[o].sub \in Subchannels
    /\ RegistrationGate

-----------------------------------------------------------------------------
(* Credits.                                                                *)

Credited(o) == entries[o].credit_sent

\* Nothing about a packet is anywhere before its credit was sent.
CreditFirst ==
    /\ \A f \in net : f.type \in {"REQUEST", "REPAIR_REQUEST"} => Credited(f.off)
    /\ \A f \in net : f.type = "RESPONSE" /\ f.credit # NoOffset => Credited(f.credit)
    /\ \A r \in Requesters : \A c \in credit_q[r] : Credited(c.off)
    /\ \A R \in Routers, i \in SlotIds : g_slots[R][i].owner # NoOwner =>
          Credited(g_slots[R][i].owner[2])
    /\ \A o \in Offsets : entries[o].committed => Credited(o)
    /\ \A i \in DOMAIN pending : Credited(pending[i])

-----------------------------------------------------------------------------
(* Carried results.  A credit says how many answered it, never who; a push *)
(* answer has no payload either.  So the requesters that a frame or an     *)
(* open slot counts are not in the state: they are said to exist.          *)

\* Credits leave in the order of their packets, each of them once.
CreditsOnce ==
    /\ \A o \in Offsets : Credited(o) => o < meta.next_credit_offset
    /\ meta.sequence_reserved => meta.epoch = Epoch
    /\ meta.epoch # Epoch => \A o \in Offsets : ~Credited(o)
    /\ \A r \in Requesters, o \in Offsets : offset_ring[r][o] # "idle" => Credited(o)
    /\ \A o \in Offsets : entries[o].done \/ entries[o].repair_bitmap # {} => Credited(o)

\* W may be the n requesters counted somewhere for packet o.
Counts(W, o, n) ==
    Cardinality(W) = n /\ \A r \in W : offset_ring[r][o] = "sent"

\* In the frames and in the open slots of a packet that has not switched to
\* repair every requester counts once at most.
Counted(inNet, inSlots) ==
    /\ \A f \in net : f.type = "REQUEST" /\ Unrepaired(f.off) =>
          Counts(inNet[f], f.off, Contribution(f))
    /\ \A R \in Routers, i \in SlotIds, o \in Offsets :
          OpenFor(g_slots[R][i], o) /\ Unrepaired(o) =>
              Counts(inSlots[R][i], o, g_slots[R][i].agg_count)
    /\ \A f, g \in net :
          f.type = "REQUEST" /\ g.type = "REQUEST" /\ f # g /\ f.off = g.off
              /\ Unrepaired(f.off)
          => inNet[f] \cap inNet[g] = {}
    /\ \A f \in net, R \in Routers, i \in SlotIds :
          f.type = "REQUEST" /\ OpenFor(g_slots[R][i], f.off) /\ Unrepaired(f.off)
          => inNet[f] \cap inSlots[R][i] = {}
    /\ \A R, Q \in Routers, i, j \in SlotIds, o \in Offsets :
          /\ <<R, i>> # <<Q, j>> /\ Unrepaired(o)
          /\ OpenFor(g_slots[R][i], o) /\ OpenFor(g_slots[Q][j], o)
          => inSlots[R][i] \cap inSlots[Q][j] = {}

CountedInv ==
    \E inNet \in [net -> SUBSET Requesters],
       inSlots \in [Routers -> [SlotIds -> SUBSET Requesters]] : Counted(inNet, inSlots)

\* r has the result that the credit of packet o carries, if it carries one.
Delivered(r, o) ==
    LET b == entries[o].bound_payload IN b # NoOffset => stored[r][b] # NoResult

\* Who has taken, queued or answered a credit has what it carries, and the
\* repair trigger repeats it.
CarriedInv ==
    /\ \A f \in net : f.type = "RESPONSE" /\ f.credit # NoOffset =>
          f.payload = entries[f.credit].bound_payload
    /\ \A r \in Requesters : \A c \in credit_q[r] : Delivered(r, c.off)
    /\ \A r \in Requesters, o \in Offsets : offset_ring[r][o] # "idle" => Delivered(r, o)
    /\ \A f \in net :
          (f.type = "REQUEST" /\ ~f.aggregated) \/ f.type = "REPAIR_REQUEST" =>
              Delivered(f.src, f.off)
    /\ \A o \in Offsets : \A r \in entries[o].repair_bitmap : Delivered(r, o)
    /\ CarriedIsDelivered

-----------------------------------------------------------------------------
\* What holds however often the network repeats frames.
BasicInv == TypeOK /\ RouterInv /\ CreditFirst /\ EndMeansDone /\ GateInv

\* What needs the network not to repeat requests.
ExactInv == ContributionInv /\ ResultInv /\ AcksFromClosed

\* The same, for what credits carry.
DeliveryInv == CreditsOnce /\ CountedInv /\ CarriedInv
=============================================================================
