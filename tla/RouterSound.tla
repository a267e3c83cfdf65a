---------------------------- MODULE RouterSound -----------------------------
(***************************************************************************)
(* What the LEVEL routers of a channel keep true of their slots and of the *)
(* frames in flight, alone (RouterOpen) and inside a channel (Arbor).      *)
(***************************************************************************)
EXTENDS Router

\* A router is at the same level on every path it is on.
ASSUME TreeAssumption ==
    \A r, q \in Requesters : \A i \in DOMAIN Path[r], j \in DOMAIN Path[q] :
        Path[r][i] = Path[q][j] => i = j

-----------------------------------------------------------------------------
(* Well-formed frames.                                                     *)

\* A normal credit; repairs and plain results bypass the slots.
CreditFrame == {f \in ResponseFrame : f.credit # NoOffset /\ ~f.repair}

\* A payload made of fragments of offset o only.
PureFor(data, o) == \A x \in Fragments : data[x] > 0 => x[2] = o

\* A credit has been through the routers above its next hop; when that is a
\* requester, through its whole path.
CreditDepth(f) ==
    /\ f.dst \in Routers =>
         \A r \in Below(f.dst) :
            Len(f.locs) + 1 \in DOMAIN Path[r] /\ Path[r][Len(f.locs) + 1] = f.dst
    /\ f.dst \in Requesters => Len(f.locs) = Len(Path[f.dst])

\* A request has a slot and a fan-in for every router that is left.
RequestDepth(f) ==
    /\ Len(f.fanins) = Len(f.locs)
    /\ Len(f.locs) <= Len(Path[f.src])
    /\ f.dst \in Routers => Len(f.locs) > 0

\* The frames no slot sees: control frames, repairs and plain results.
BypassFrame ==
    {f \in Frame : f.type \notin {"REQUEST", "RESPONSE"}}
    \cup {f \in ResponseFrame : f.dst \in Requesters /\ (f.repair \/ f.credit = NoOffset)}

FrameOK(f) ==
    \/ f \in CreditFrame /\ CreditDepth(f)
    \/ f \in RequestFrame /\ RequestDepth(f) /\ PureFor(f.data, f.off)
    \/ f \in BypassFrame

-----------------------------------------------------------------------------
(* Properties.                                                             *)

\* The slot table and the ring pointer stay within their C types.
OpenTypeOK ==
    /\ g_slots \in [Routers -> [SlotIds -> Slot]]
    /\ g_router_alloc_ptr \in [Routers -> SlotIds]

\* A slot never counts past its fan-in, is closed exactly when it reached it,
\* and an open one that counted nothing is clean (slot_accept, slot_reset).
CountSound(slot) ==
    /\ slot.agg_count <= slot.fanin
    /\ slot.forwarded <=> slot.agg_count = slot.fanin /\ slot.fanin # 0
    /\ slot.agg_count = 0 => slot.accum = Zero

\* The sum in a slot holds fragments of the packet that owns the slot and
\* of no other, however often the slot was rebound; the master frame that
\* will carry it away names that packet.
ContentSound(slot) ==
    slot.agg_count > 0 =>
        /\ slot.owner = <<slot.master.sub, slot.master.off>>
        /\ slot.master \in RequestFrame /\ RequestDepth(slot.master)
        /\ Len(slot.master.locs) > 0
        /\ PureFor(slot.accum, slot.master.off)

SlotSound ==
    \A R \in Routers, i \in SlotIds :
        CountSound(g_slots[R][i]) /\ ContentSound(g_slots[R][i])

\* A credit, however often it is repeated, has at most one open slot in a
\* router, so its requests cannot be split between two sums
\* (find_slot_for_credit before the ring pointer).
OneOpenSlot ==
    \A R \in Routers, i, j \in SlotIds :
        /\ g_slots[R][i].owner = g_slots[R][j].owner /\ g_slots[R][i].owner # NoOwner
        /\ ~g_slots[R][i].forwarded /\ ~g_slots[R][j].forwarded
        => i = j

\* Every frame the routers emit is well formed: a request stack and its fan-in
\* plan are popped together, no request mixes packets, and a credit reaches a
\* requester with one slot for every router of its path, so the depth check
\* of send_request_frame never refuses it.
NetSound == \A f \in net : FrameOK(f)

\* All of them together are inductive under the steps of the routers.
RouterInv == OpenTypeOK /\ SlotSound /\ OneOpenSlot /\ NetSound
=============================================================================
