---------------------------- MODULE RouterProofs ----------------------------
(***************************************************************************)
(* Proofs about RouterOpen for every tree, every number of slots and all   *)
(* traffic.  RouterInv is the inductive invariant.                         *)
(***************************************************************************)
EXTENDS RouterOpen, RouterLemmas

-----------------------------------------------------------------------------
\* RouterInv is inductive.
LEMMA Inductive ==
    /\ OpenInit => RouterInv
    /\ RouterInv /\ [OpenNext]_openVars => RouterInv'
<1>1. OpenInit => RouterInv
  <2> SUFFICES ASSUME OpenInit PROVE RouterInv
    OBVIOUS
  <2>1. /\ SlotFor(NoOwner) \in Slot
        /\ CountSound(SlotFor(NoOwner)) /\ ContentSound(SlotFor(NoOwner))
    BY FreshSlotSound
  <2>2. SlotFor(NoOwner).owner = NoOwner
    BY DEF SlotFor
  <2>3. 0 \in SlotIds
    BY SlotCountAssumption DEF SlotIds
  <2>4. \A R \in Routers, i \in SlotIds : g_slots[R][i] = SlotFor(NoOwner)
    BY DEF OpenInit, RouterInit
  <2>5. OpenTypeOK
    BY <2>1, <2>3 DEF OpenInit, RouterInit, OpenTypeOK
  <2>6. SlotSound
    BY <2>1, <2>4 DEF SlotSound
  <2>7. OneOpenSlot
    BY <2>2, <2>4 DEF OneOpenSlot
  <2>8. NetSound
    BY DEF OpenInit, NetSound
  <2> QED BY <2>5, <2>6, <2>7, <2>8 DEF RouterInv
<1>2. RouterInv /\ [OpenNext]_openVars => RouterInv'
  <2> SUFFICES ASSUME RouterInv, [OpenNext]_openVars PROVE RouterInv'
    OBVIOUS
  <2>1. CASE Inject
    <3>1. (\A g \in net' : g \in net \/ FrameOK(g)) /\ UNCHANGED routerVars
      BY <2>1, EnvAssumption DEF Inject
    <3> QED BY <3>1, NetOnlyStep
  <2>2. CASE Leave
    <3>1. (\A g \in net' : g \in net) /\ UNCHANGED routerVars
      BY <2>2 DEF Leave
    <3> QED BY <3>1, NetOnlyStep
  <2>3. CASE RouterStep
    BY <2>3, BindStep, PassThroughStep, MissStep, AggregateStep DEF RouterStep
  <2>4. CASE UNCHANGED openVars
    <3>1. (\A g \in net' : g \in net) /\ UNCHANGED routerVars
      BY <2>4 DEF openVars
    <3> QED BY <3>1, NetOnlyStep
  <2> QED BY <2>1, <2>2, <2>3, <2>4 DEF OpenNext
<1> QED BY <1>1, <1>2

-----------------------------------------------------------------------------
(* The theorems.                                                           *)

\* RouterInv holds of every reachable state.
LEMMA Invariance == OpenSpec => []RouterInv
<1>1. OpenInit => RouterInv
  BY Inductive
<1>2. RouterInv /\ [OpenNext]_openVars => RouterInv'
  BY Inductive
<1> QED BY <1>1, <1>2, PTL DEF OpenSpec

\* The slot table and the ring pointer keep their types for any traffic.
THEOREM OpenTypeCorrect == OpenSpec => []OpenTypeOK
BY Invariance, PTL DEF RouterInv

\* No slot over-counts, closes early or mixes two packets, in any tree, for
\* any number of slots and any traffic (slot_accept, slot_reset_for_credit).
THEOREM SlotsStaySound == OpenSpec => []SlotSound
BY Invariance, PTL DEF RouterInv

\* A repeated credit never opens a second slot (find_slot_for_credit).
THEOREM CreditHasOneSlot == OpenSpec => []OneOpenSlot
BY Invariance, PTL DEF RouterInv

\* Whatever the routers emit is well formed, through every level of the tree.
THEOREM FramesStayWellFormed == OpenSpec => []NetSound
BY Invariance, PTL DEF RouterInv

\* A rebound slot held another packet or was closed, because the open slot
\* of a repeated credit is found and reused.
LEMMA BindHistory ==
    ASSUME RouterInv, NEW R \in Routers, NEW f \in net, BindCredit(R, f),
           NEW Q \in Routers, NEW i \in SlotIds
    PROVE  SlotStep(Q, i)
<1> DEFINE owner == <<f.sub, f.credit>>
           p     == g_router_alloc_ptr[R]
<1>1. CASE SlotsForCredit(R, owner) # {}
  BY <1>1 DEF BindCredit, routerVars, SlotStep
<1>2. CASE SlotsForCredit(R, owner) = {}
  <2>1. p \in SlotIds /\ g_slots \in [Routers -> [SlotIds -> Slot]]
    BY DEF RouterInv, OpenTypeOK
  <2>2. g_slots' = [g_slots EXCEPT ![R][p] = SlotFor(owner)]
    BY <1>2 DEF BindCredit
  <2>3. \A j \in SlotIds : g_slots[R][j].forwarded \/ owner # g_slots[R][j].owner
    BY <1>2 DEF SlotsForCredit
  <2>4. SlotFor(owner).owner = owner
    BY DEF SlotFor
  <2> HIDE DEF owner, p
  <2>5. CASE Q = R /\ i = p
    <3>1. g_slots'[Q][i] = SlotFor(owner)
      BY <2>1, <2>2, <2>5
    <3> QED BY <2>3, <2>4, <2>5, <3>1 DEF SlotStep
  <2>6. CASE ~(Q = R /\ i = p)
    <3>1. g_slots'[Q][i] = g_slots[Q][i]
      BY <2>1, <2>2, <2>6
    <3> QED BY <3>1 DEF SlotStep
  <2> QED BY <2>5, <2>6
<1> QED BY <1>1, <1>2

\* A contribution only adds to the slot it names.
LEMMA AggregateHistory ==
    ASSUME RouterInv, NEW R \in Routers, NEW f \in net, Aggregate(R, f),
           NEW Q \in Routers, NEW i \in SlotIds
    PROVE  SlotStep(Q, i)
<1> DEFINE k    == AggLoc(f)
           old  == g_slots[R][k]
           with == SlotWith(old, f)
           next == [with EXCEPT !.forwarded = with.agg_count = with.fanin]
<1>1. f \in RequestFrame /\ RequestDepth(f) /\ PureFor(f.data, f.off) /\ Len(f.locs) > 0
  BY ArrivingRequest DEF Aggregate
<1>2. /\ k \in SlotIds /\ old \in Slot /\ CountSound(old) /\ ContentSound(old)
      /\ SlotAccepts(old, f) /\ g_slots \in [Routers -> [SlotIds -> Slot]]
  BY DEF Aggregate, RouterInv, OpenTypeOK, SlotSound
<1>3. g_slots' = [g_slots EXCEPT ![R][k] = next]
  BY DEF Aggregate
<1>4. /\ next.owner = old.owner /\ next.agg_count > old.agg_count
      /\ \A x \in Fragments : next.accum[x] >= old.accum[x]
  <2>1. next = Filled(old, f)
    BY DEF Filled
  <2> HIDE DEF old, next
  <2> QED BY <1>1, <1>2, <2>1, AcceptSound
<1>5. ~old.forwarded
  BY <1>2 DEF SlotAccepts
<1> HIDE DEF k, with, next
<1>6. CASE Q = R /\ i = k
  <2>1. g_slots'[Q][i] = next
    BY <1>2, <1>3, <1>6
  <2> QED BY <1>4, <1>5, <1>6, <2>1 DEF SlotStep
<1>7. CASE ~(Q = R /\ i = k)
  <2>1. g_slots'[Q][i] = g_slots[Q][i]
    BY <1>2, <1>3, <1>7
  <2> QED BY <2>1 DEF SlotStep
<1> QED BY <1>6, <1>7

\* What a slot has summed is lost only to a credit of another packet, and a
\* closed slot is never added to, for any traffic.
THEOREM SlotsKeepHistory == OpenSpec => SlotHistory
<1>1. ASSUME RouterInv, [OpenNext]_openVars
      PROVE  \A R \in Routers, i \in SlotIds : SlotStep(R, i)
  <2> SUFFICES ASSUME NEW Q \in Routers, NEW i \in SlotIds PROVE SlotStep(Q, i)
    OBVIOUS
  <2>1. CASE UNCHANGED g_slots
    BY <2>1 DEF SlotStep
  <2>2. CASE RouterStep
    <3>1. PICK R \in Routers, f \in net :
            BindCredit(R, f) \/ PassThrough(R, f) \/ Miss(R, f) \/ Aggregate(R, f)
      BY <2>2 DEF RouterStep
    <3>2. CASE BindCredit(R, f)
      BY <1>1, <3>2, BindHistory
    <3>3. CASE Aggregate(R, f)
      BY <1>1, <3>3, AggregateHistory
    <3>4. CASE PassThrough(R, f) \/ Miss(R, f)
      BY <2>1, <3>4 DEF PassThrough, Miss, routerVars
    <3> QED BY <3>1, <3>2, <3>3, <3>4
  <2> QED BY <1>1, <2>1, <2>2 DEF OpenNext, Inject, Leave, openVars, routerVars
<1>2. RouterInv /\ [OpenNext]_openVars => [\A R \in Routers, i \in SlotIds : SlotStep(R, i)]_openVars
  BY <1>1
<1> QED BY <1>2, Invariance, PTL DEF OpenSpec, SlotHistory
=============================================================================
