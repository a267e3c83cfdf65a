------------------------------- MODULE Router -------------------------------
(***************************************************************************)
(* The in-network aggregator: the slot table of a LEVEL router and the two *)
(* frames that touch it (protocol/router.c, INC).  A credit on its way     *)
(* down binds a slot and pushes the slot's index; the requests it causes   *)
(* come back up with the index, are summed in the slot and leave as one    *)
(* master frame.  A router is one thread, so each action is one frame.     *)
(***************************************************************************)
EXTENDS ArborNet

CONSTANT SlotCount      \* AGTR_ARRAY_SIZE

ASSUME SlotCountAssumption == SlotCount \in Nat \ {0}

VARIABLES
    g_slots,            \* g_slots[R][i], the router_slot_t table of router R
    g_router_alloc_ptr  \* the ring pointer of router R

routerVars == <<g_slots, g_router_alloc_ptr>>

SlotIds == 0 .. SlotCount - 1
NoOwner == <<>>

\* A slot bound to a credit, as slot_reset_for_credit leaves it: no
\* contribution counted and the accumulator g_agtr[i] cleared.
SlotFor(owner) ==
    [owner |-> owner, forwarded |-> FALSE, fanin |-> 0, agg_count |-> 0,
     master |-> <<>>, accum |-> Zero]

Slot ==
    [owner : {NoOwner} \cup (Subchannels \X Offsets), forwarded : BOOLEAN, fanin : Nat,
     agg_count : Nat, master : {<<>>} \cup RequestFrame, accum : Payloads]

RouterInit ==
    /\ g_slots = [R \in Routers |-> [i \in SlotIds |-> SlotFor(NoOwner)]]
    /\ g_router_alloc_ptr = [R \in Routers |-> 0]

-----------------------------------------------------------------------------
(* Credits.                                                                *)

\* Mutant: a repeated credit always takes a new slot.
SlotsForCreditNever(R, owner) == {}

\* find_slot_for_credit: the live slots already bound to this credit.
SlotsForCredit(R, owner) ==
    {i \in SlotIds : g_slots[R][i].owner = owner /\ ~g_slots[R][i].forwarded}

\* Mutant: the ring pointer does not wrap.
NextPtrNoWrap(p) == p + 1

NextPtr(p) == (p + 1) % SlotCount

\* router_multicast_response on a normal credit: reuse the live slot of the
\* same credit as it is, or overwrite the slot under the ring pointer
\* whatever it holds; then one copy per child with the index pushed.
BindCredit(R, f) ==
    LET owner == <<f.sub, f.credit>>
        live  == SlotsForCredit(R, owner)
        i     == IF live # {} THEN CHOOSE j \in live : \A k \in live : j <= k
                 ELSE g_router_alloc_ptr[R]
    IN /\ Arrives(f, R, "RESPONSE")
       /\ IF live # {}
          THEN UNCHANGED routerVars
          ELSE /\ g_slots' = [g_slots EXCEPT ![R][i] = SlotFor(owner)]
               /\ g_router_alloc_ptr' =
                    [g_router_alloc_ptr EXCEPT ![R] = NextPtr(@)]
       /\ net' = Taken(f) \cup
                 {[f EXCEPT !.dst = h, !.locs = Append(@, i)] :
                    h \in NextHops(R, Len(f.locs) + 1)}

-----------------------------------------------------------------------------
(* Requests.  The top of the stack names the slot and the fan-in here.     *)

AggLoc(f)       == f.locs[Len(f.locs)]
LevelFanin(f)   == f.fanins[Len(f.locs)]
Contribution(f) == IF f.aggregated THEN f.count ELSE 1

\* The hop above: an unconsumed stack continues up the tree, an empty one
\* (agg_depth 0) goes to the responder.
HopAbove(f) ==
    IF Len(f.locs) = 1 THEN Responder ELSE Path[f.src][Len(f.locs) - 1]

\* Mutant: the fan-in plan is not popped with the slot stack.
PoppedLocsOnly(f) == [f EXCEPT !.dst = HopAbove(f), !.locs = SubSeq(@, 1, Len(@) - 1)]

\* request_pop_one_level on f, on its way to the hop above.
Popped(f) ==
    [f EXCEPT !.dst = HopAbove(f), !.locs = SubSeq(@, 1, Len(@) - 1),
              !.fanins = SubSeq(@, 1, Len(f.locs) - 1)]

\* Mutant: the owner of the slot is not compared with the request.
SlotAcceptsAnyOwner(slot, f) ==
    /\ ~slot.forwarded
    /\ LevelFanin(f) # 0
    /\ Contribution(f) \in 1 .. LevelFanin(f)
    /\ slot.agg_count # 0 =>
         /\ slot.fanin = LevelFanin(f)
         /\ slot.master.shape = f.shape
         /\ Contribution(f) <= slot.fanin - slot.agg_count

\* slot_accept: whether the slot takes the contribution of f.
SlotAccepts(slot, f) ==
    /\ slot.owner = <<f.sub, f.off>>
    /\ ~slot.forwarded
    /\ LevelFanin(f) # 0
    /\ Contribution(f) \in 1 .. LevelFanin(f)
    /\ slot.agg_count # 0 =>
         /\ slot.fanin = LevelFanin(f)
         /\ slot.master.shape = f.shape
         /\ Contribution(f) <= slot.fanin - slot.agg_count

\* Mutants: a contribution replaces the sum; the master's own payload is
\* left out of it.
SlotWithLatest(slot, f) ==
    [slot EXCEPT !.fanin = LevelFanin(f), !.agg_count = @ + Contribution(f),
                 !.master = IF slot.agg_count = 0 THEN f ELSE @, !.accum = f.data]
SlotWithoutMaster(slot, f) ==
    [slot EXCEPT !.fanin = LevelFanin(f), !.agg_count = @ + Contribution(f),
                 !.master = IF slot.agg_count = 0 THEN f ELSE @,
                 !.accum = IF slot.agg_count = 0 THEN @ ELSE Plus(@, f.data)]

\* The slot with f counted and summed; the first contribution becomes the
\* master frame.
SlotWith(slot, f) ==
    [slot EXCEPT
       !.fanin     = LevelFanin(f),
       !.agg_count = @ + Contribution(f),
       !.master    = IF slot.agg_count = 0 THEN f ELSE @,
       !.accum     = Plus(@, f.data)]

\* master_finalize_header: the stored master with the sum and its count.
MasterOf(slot) ==
    [Popped(slot.master) EXCEPT
       !.aggregated = TRUE, !.count = slot.agg_count, !.data = slot.accum]

\* A router below which there is one requester only forwards.
PassThrough(R, f) ==
    /\ Arrives(f, R, "REQUEST")
    /\ AggLoc(f) \in SlotIds
    /\ LevelFanin(f) = 1
    /\ net' = Taken(f) \cup {Popped(f)}
    /\ UNCHANGED routerVars

\* A request that does not fit its slot is turned into a header-only AGG_MISS.
Miss(R, f) ==
    /\ Arrives(f, R, "REQUEST")
    /\ AggLoc(f) \in SlotIds =>
         LevelFanin(f) # 1 /\ ~SlotAccepts(g_slots[R][AggLoc(f)], f)
    /\ net' = Taken(f) \cup {AggMiss(f.src, f.sub, f.off)}
    /\ UNCHANGED routerVars

\* A contribution is summed; the one that completes the fan-in sends the
\* master up and closes the slot.
Aggregate(R, f) ==
    /\ Arrives(f, R, "REQUEST")
    /\ AggLoc(f) \in SlotIds
    /\ LevelFanin(f) # 1
    /\ SlotAccepts(g_slots[R][AggLoc(f)], f)
    /\ LET slot == SlotWith(g_slots[R][AggLoc(f)], f)
           full == slot.agg_count = slot.fanin
       IN /\ g_slots' = [g_slots EXCEPT ![R][AggLoc(f)] =
                            [slot EXCEPT !.forwarded = full]]
          /\ net' = Taken(f) \cup (IF full THEN {MasterOf(slot)} ELSE {})
    /\ UNCHANGED g_router_alloc_ptr

RouterStep ==
    \E R \in Routers, f \in net :
        \/ BindCredit(R, f)
        \/ PassThrough(R, f)
        \/ Miss(R, f)
        \/ Aggregate(R, f)
=============================================================================
