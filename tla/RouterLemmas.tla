---------------------------- MODULE RouterLemmas ----------------------------
(***************************************************************************)
(* Facts about the routers for every tree and every number of slots: what  *)
(* the operators on payloads, frames and slots preserve, and that every    *)
(* step of a router preserves RouterInv.  The parts of RouterInv need each *)
(* other: a slot stays sound only because requests are well formed, and    *)
(* requests stay well formed only because the masters that leave a sound   *)
(* slot are.                                                               *)
(***************************************************************************)
EXTENDS RouterSound, TLAPS, SequenceTheorems

-----------------------------------------------------------------------------
(* Payloads.                                                               *)

\* The cleared accumulator is a payload that belongs to any packet.
LEMMA ZeroPayload ==
    /\ Zero \in Payloads
    /\ \A o : PureFor(Zero, o)
BY DEF Zero, Payloads, PureFor

\* Summing two payloads of one packet gives a payload of that packet, at
\* least as large in every fragment.
LEMMA PlusPayload ==
    ASSUME NEW a \in Payloads, NEW b \in Payloads
    PROVE  /\ Plus(a, b) \in Payloads
           /\ \A x \in Fragments : Plus(a, b)[x] >= a[x]
           /\ \A o : PureFor(a, o) /\ PureFor(b, o) => PureFor(Plus(a, b), o)
BY DEF Plus, Payloads, PureFor

-----------------------------------------------------------------------------
(* Slots.                                                                  *)

\* What popping leaves of a stack.
LEMMA PrefixOfSeq ==
    ASSUME NEW S, NEW s \in Seq(S), NEW n \in Nat, n <= Len(s)
    PROVE  SubSeq(s, 1, n) \in Seq(S) /\ Len(SubSeq(s, 1, n)) = n
<1>1. Len(s) \in Nat
  BY LenProperties
<1>2. \A i \in 1 .. n : s[i] \in S
  BY <1>1, ElementOfSeq
<1>3. /\ SubSeq(s, 1, n) \in Seq(S)
      /\ Len(SubSeq(s, 1, n)) = IF 1 <= n THEN n - 1 + 1 ELSE 0
  BY <1>2, SubSeqProperties
<1> QED BY <1>3

\* A freshly bound slot is sound.
LEMMA FreshSlotSound ==
    ASSUME NEW owner \in {NoOwner} \cup (Subchannels \X Offsets)
    PROVE  /\ SlotFor(owner) \in Slot
           /\ CountSound(SlotFor(owner))
           /\ ContentSound(SlotFor(owner))
BY ZeroPayload DEF SlotFor, Slot, CountSound, ContentSound

\* request_pop_one_level keeps a request well formed and its packet.
LEMMA PoppedSound ==
    ASSUME NEW f \in RequestFrame, RequestDepth(f), Len(f.locs) > 0
    PROVE  /\ Popped(f) \in RequestFrame
           /\ RequestDepth(Popped(f))
           /\ Popped(f).off = f.off /\ Popped(f).sub = f.sub
           /\ Popped(f).data = f.data
<1> DEFINE n == Len(f.locs)
<1>1. /\ f.locs \in Seq(Nat) /\ f.fanins \in Seq(Nat) /\ f.src \in Requesters
      /\ n \in Nat /\ n > 0 /\ Len(f.fanins) = n
  BY DEF RequestFrame, RequestDepth
<1>2. Path[f.src] \in Seq(Routers) /\ n <= Len(Path[f.src])
  BY <1>1, ArborNetAssumption DEF RequestDepth
<1>2a. Len(Path[f.src]) \in Nat
  BY <1>2, LenProperties
<1> HIDE DEF n
<1>3. HopAbove(f) \in Routers \cup {Responder}
  <2>1. CASE n = 1
    BY <2>1 DEF HopAbove, n
  <2>2. CASE n # 1
    <3>1. n - 1 \in 1 .. Len(Path[f.src])
      BY <1>1, <1>2, <1>2a, <2>2
    <3>2. Path[f.src][n - 1] \in Routers
      BY <1>2, <3>1, ElementOfSeq
    <3> QED BY <2>2, <3>2 DEF HopAbove, n
  <2> QED BY <2>1, <2>2
<1>4. HopAbove(f) \in Routers => n > 1
  <2>1. Responder \notin Routers
    BY ArborNetAssumption DEF Hosts
  <2>2. n = 1 => HopAbove(f) = Responder
    BY DEF HopAbove, n
  <2>3. n # 1 => n > 1
    BY <1>1
  <2> QED BY <2>1, <2>2, <2>3
<1>5. /\ SubSeq(f.locs, 1, n - 1) \in Seq(Nat) /\ Len(SubSeq(f.locs, 1, n - 1)) = n - 1
      /\ SubSeq(f.fanins, 1, n - 1) \in Seq(Nat) /\ Len(SubSeq(f.fanins, 1, n - 1)) = n - 1
  <2>1. n - 1 \in Nat /\ n - 1 <= Len(f.locs) /\ n - 1 <= Len(f.fanins)
    BY <1>1 DEF n
  <2> QED BY <1>1, <2>1, PrefixOfSeq
<1>6. Popped(f) = [f EXCEPT !.dst = HopAbove(f), !.locs = SubSeq(f.locs, 1, n - 1),
                            !.fanins = SubSeq(f.fanins, 1, n - 1)]
  BY <1>1 DEF Popped, RequestFrame, n
<1>7. Popped(f) \in RequestFrame
  BY <1>3, <1>5, <1>6 DEF RequestFrame
<1>8. /\ Popped(f).dst = HopAbove(f) /\ Popped(f).src = f.src
      /\ Popped(f).locs = SubSeq(f.locs, 1, n - 1)
      /\ Popped(f).fanins = SubSeq(f.fanins, 1, n - 1)
      /\ Popped(f).off = f.off /\ Popped(f).sub = f.sub /\ Popped(f).data = f.data
  BY <1>6 DEF RequestFrame
<1>9. RequestDepth(Popped(f))
  BY <1>1, <1>2, <1>4, <1>5, <1>8 DEF RequestDepth
<1> QED BY <1>7, <1>8, <1>9

\* What Aggregate makes of a slot.
Filled(slot, f) ==
    [SlotWith(slot, f) EXCEPT !.forwarded = SlotWith(slot, f).agg_count = SlotWith(slot, f).fanin]

\* A slot that accepts f is filled to one that is still of its type and
\* sound, with more counted and nothing lost.
LEMMA AcceptSound ==
    ASSUME NEW slot \in Slot, CountSound(slot), ContentSound(slot),
           NEW f \in RequestFrame, RequestDepth(f), Len(f.locs) > 0,
           PureFor(f.data, f.off), SlotAccepts(slot, f),
           NEW next, next = Filled(slot, f)
    PROVE  /\ next \in Slot
           /\ CountSound(next)
           /\ ContentSound(next)
           /\ next.owner = slot.owner
           /\ next.agg_count > slot.agg_count
           /\ next.fanin = SlotWith(slot, f).fanin
           /\ next.agg_count = SlotWith(slot, f).agg_count
           /\ next.master = SlotWith(slot, f).master
           /\ next.accum = SlotWith(slot, f).accum
           /\ \A x \in Fragments : next.accum[x] >= slot.accum[x]
<1> DEFINE c == Contribution(f)
           v == LevelFanin(f)
           m == IF slot.agg_count = 0 THEN f ELSE slot.master
           a == Plus(slot.accum, f.data)
<1>1. /\ slot.agg_count \in Nat /\ slot.fanin \in Nat /\ slot.accum \in Payloads
      /\ slot.master \in {<<>>} \cup RequestFrame
      /\ slot.owner \in {NoOwner} \cup (Subchannels \X Offsets)
      /\ slot.forwarded \in BOOLEAN
  BY DEF Slot
<1>2. f.data \in Payloads /\ f.fanins \in Seq(Nat) /\ f.locs \in Seq(Nat)
  BY DEF RequestFrame
<1>3. v \in Nat
  <2>1. Len(f.locs) \in 1 .. Len(f.fanins)
    BY <1>2, LenProperties DEF RequestDepth
  <2> QED BY <1>2, <2>1, ElementOfSeq DEF LevelFanin
<1>4. /\ slot.owner = <<f.sub, f.off>> /\ ~slot.forwarded /\ v # 0 /\ c \in 1 .. v
      /\ slot.agg_count # 0 => slot.fanin = v /\ c <= slot.fanin - slot.agg_count
  BY DEF SlotAccepts
<1>5. c \in Nat /\ c > 0 /\ slot.agg_count + c \in Nat /\ slot.agg_count + c <= v
  BY <1>1, <1>3, <1>4
<1>6. a \in Payloads /\ \A x \in Fragments : a[x] >= slot.accum[x]
  BY <1>1, <1>2, PlusPayload
<1>7. SlotWith(slot, f) =
        [slot EXCEPT !.fanin = v, !.agg_count = slot.agg_count + c, !.master = m, !.accum = a]
  BY <1>1 DEF SlotWith, Slot
<1> HIDE DEF c, v, m, a
<1>8. /\ SlotWith(slot, f).agg_count = slot.agg_count + c /\ SlotWith(slot, f).fanin = v
      /\ SlotWith(slot, f).master = m /\ SlotWith(slot, f).accum = a
  BY <1>7 DEF Slot
<1>9. /\ next.owner = slot.owner /\ next.fanin = v /\ next.agg_count = slot.agg_count + c
      /\ next.master = m /\ next.accum = a
      /\ next.forwarded = (slot.agg_count + c = v)
  BY <1>7, <1>8 DEF Filled, Slot
<1>10. m \in RequestFrame
  BY <1>1, <1>5 DEF m, ContentSound
<1>11. next \in Slot
  <2>1. (slot.agg_count + c = v) \in BOOLEAN
    OBVIOUS
  <2>2. next = [slot EXCEPT !.fanin = v, !.agg_count = slot.agg_count + c, !.master = m,
                            !.accum = a, !.forwarded = (slot.agg_count + c = v)]
    BY <1>7, <1>8 DEF Filled, Slot
  <2> QED BY <1>1, <1>3, <1>5, <1>6, <1>10, <2>1, <2>2 DEF Slot
<1>12. CountSound(next)
  <2>1. next.agg_count <= next.fanin /\ next.agg_count # 0 /\ next.fanin # 0
    BY <1>1, <1>3, <1>4, <1>5, <1>9
  <2>2. next.forwarded <=> next.agg_count = next.fanin
    <3>1. next.forwarded = (next.agg_count = next.fanin)
      BY <1>9
    <3> QED BY <3>1, Zenon
  <2> QED BY <2>1, <2>2 DEF CountSound
<1>13. ContentSound(next)
  <2>1. /\ slot.owner = <<m.sub, m.off>> /\ RequestDepth(m) /\ Len(m.locs) > 0
        /\ m.off = f.off
    <3>1. CASE slot.agg_count = 0
      BY <1>4, <3>1 DEF m
    <3>2. CASE slot.agg_count # 0
      BY <1>1, <1>4, <3>2 DEF m, ContentSound
    <3> QED BY <3>1, <3>2
  <2>2. PureFor(slot.accum, f.off)
    <3>1. CASE slot.agg_count = 0
      BY <3>1, ZeroPayload DEF CountSound
    <3>2. CASE slot.agg_count # 0
      BY <1>1, <1>4, <3>2 DEF ContentSound
    <3> QED BY <3>1, <3>2
  <2>3. PureFor(a, f.off)
    BY <1>1, <1>2, <2>2, PlusPayload DEF a
  <2> QED BY <1>9, <1>10, <2>1, <2>3 DEF ContentSound
<1> QED BY <1>1, <1>5, <1>6, <1>8, <1>9, <1>11, <1>12, <1>13

\* The master that leaves a sound slot is a well-formed request of the packet
\* that owns it.
LEMMA MasterSound ==
    ASSUME NEW slot \in Slot, ContentSound(slot), slot.agg_count > 0
    PROVE  /\ MasterOf(slot) \in RequestFrame
           /\ RequestDepth(MasterOf(slot))
           /\ PureFor(MasterOf(slot).data, MasterOf(slot).off)
<1> DEFINE p == Popped(slot.master)
<1>1. /\ slot.master \in RequestFrame /\ RequestDepth(slot.master)
      /\ Len(slot.master.locs) > 0 /\ PureFor(slot.accum, slot.master.off)
  BY DEF ContentSound
<1>2. p \in RequestFrame /\ RequestDepth(p) /\ p.off = slot.master.off
  BY <1>1, PoppedSound
<1>3. MasterOf(slot) = [p EXCEPT !.aggregated = TRUE, !.count = slot.agg_count,
                                 !.data = slot.accum]
  BY DEF MasterOf
<1>4. slot.agg_count \in Nat /\ slot.accum \in Payloads
  BY DEF Slot
<1> HIDE DEF p
<1>5. /\ MasterOf(slot).dst = p.dst /\ MasterOf(slot).src = p.src
      /\ MasterOf(slot).locs = p.locs /\ MasterOf(slot).fanins = p.fanins
      /\ MasterOf(slot).off = p.off /\ MasterOf(slot).data = slot.accum
  BY <1>2, <1>3 DEF RequestFrame
<1> QED BY <1>1, <1>2, <1>3, <1>4, <1>5 DEF RequestFrame, RequestDepth

-----------------------------------------------------------------------------
(* Frames.                                                                 *)

\* No router stops a frame that bypasses the slots.
LEMMA BypassKind ==
    ASSUME NEW f \in BypassFrame
    PROVE  /\ f \in Frame
           /\ f.type # "REQUEST"
           /\ f.type = "RESPONSE" => f \in ResponseFrame /\ f.dst \in Requesters
           /\ f.type = "RESPONSE" => f.dst \notin Routers
           /\ f.type = "RESPONSE" => f.repair \/ f.credit = NoOffset
<1>1. CASE f \in Frame /\ f.type \notin {"REQUEST", "RESPONSE"}
  BY <1>1
<1>2. CASE f \in ResponseFrame /\ f.dst \in Requesters /\ (f.repair \/ f.credit = NoOffset)
  <2>1. f \in Frame
    BY <1>2 DEF Frame
  <2>2. f.type = "RESPONSE"
    BY <1>2 DEF ResponseFrame
  <2> QED BY <1>2, <2>1, <2>2, ArborNetAssumption DEF Hosts
<1> QED BY <1>1, <1>2 DEF BypassFrame

\* A request in flight is well formed.
LEMMA RequestKind ==
    ASSUME NEW f, FrameOK(f), f.type = "REQUEST"
    PROVE  f \in RequestFrame /\ RequestDepth(f) /\ PureFor(f.data, f.off)
<1>1. f \notin CreditFrame
  BY DEF CreditFrame, ResponseFrame
<1> QED BY <1>1, BypassKind DEF FrameOK

\* A response in flight that a router stops is a normal credit.
LEMMA CreditKind ==
    ASSUME NEW f, FrameOK(f), f.type = "RESPONSE", f.dst \in Routers
    PROVE  f \in CreditFrame /\ CreditDepth(f)
<1>1. f \notin RequestFrame
  BY DEF RequestFrame
<1> QED BY <1>1, BypassKind DEF FrameOK

-----------------------------------------------------------------------------
(* The inductive step.                                                     *)

\* Binding a credit: the slot under the pointer starts afresh, and every copy
\* that leaves is one router further down its tree.
LEMMA BindStep ==
    ASSUME RouterInv, NEW R \in Routers, NEW f \in net, BindCredit(R, f)
    PROVE  RouterInv'
<1> DEFINE owner == <<f.sub, f.credit>>
           live  == SlotsForCredit(R, owner)
           i     == IF live # {} THEN CHOOSE j \in live : \A k \in live : j <= k
                    ELSE g_router_alloc_ptr[R]
           d     == Len(f.locs) + 1
<1>1. f \in CreditFrame /\ CreditDepth(f) /\ f.dst = R
  BY CreditKind DEF RouterInv, NetSound, BindCredit, Arrives
<1>2. owner \in Subchannels \X Offsets /\ f.locs \in Seq(Nat)
  BY <1>1 DEF CreditFrame, ResponseFrame, OffsetOpt
<1>3. g_router_alloc_ptr[R] \in SlotIds
  BY DEF RouterInv, OpenTypeOK
<1>4. OpenTypeOK' /\ SlotSound' /\ OneOpenSlot'
  <2>1. CASE live # {}
    <3>1. UNCHANGED routerVars
      BY <2>1 DEF BindCredit
    <3> QED BY <3>1 DEF RouterInv, routerVars, OpenTypeOK, SlotSound, OneOpenSlot
  <2>2. CASE live = {}
    <3>1. /\ g_slots' = [g_slots EXCEPT ![R][g_router_alloc_ptr[R]] = SlotFor(owner)]
          /\ g_router_alloc_ptr' =
               [g_router_alloc_ptr EXCEPT ![R] = (g_router_alloc_ptr[R] + 1) % SlotCount]
      BY <2>2 DEF BindCredit, NextPtr, RouterInv, OpenTypeOK
    <3>2. (g_router_alloc_ptr[R] + 1) % SlotCount \in SlotIds
      BY <1>3, SlotCountAssumption DEF SlotIds
    <3>3. SlotFor(owner) \in Slot /\ CountSound(SlotFor(owner)) /\ ContentSound(SlotFor(owner))
      BY <1>2, FreshSlotSound
    <3>6. \A j \in SlotIds : ~(g_slots[R][j].owner = owner /\ ~g_slots[R][j].forwarded)
      BY <2>2 DEF SlotsForCredit
    <3>7. SlotFor(owner).owner = owner
      BY DEF SlotFor
    <3> HIDE DEF owner
    <3>4. OpenTypeOK'
      BY <1>3, <3>1, <3>2, <3>3 DEF RouterInv, OpenTypeOK
    <3>5. SlotSound'
      BY <1>3, <3>1, <3>3 DEF RouterInv, OpenTypeOK, SlotSound
    <3>8. OneOpenSlot'
      BY <1>3, <3>1, <3>6, <3>7 DEF RouterInv, OpenTypeOK, OneOpenSlot
    <3> QED BY <3>4, <3>5, <3>8
  <2> QED BY <2>1, <2>2
<1>5. i \in Nat
  <2>1. CASE live # {}
    <3>1. live \subseteq Nat
      BY SlotCountAssumption DEF SlotsForCredit, SlotIds
    <3>2. \A j, k \in live : j = k
      <4>1. owner # NoOwner
        BY DEF NoOwner
      <4>2. \A j \in live : /\ j \in SlotIds /\ g_slots[R][j].owner = owner
                            /\ ~g_slots[R][j].forwarded
        BY DEF SlotsForCredit
      <4> HIDE DEF live, owner
      <4> QED BY <4>1, <4>2 DEF RouterInv, OneOpenSlot
    <3>3. \E j \in live : \A k \in live : j <= k
      BY <2>1, <3>1, <3>2
    <3> QED BY <2>1, <3>1, <3>3
  <2>2. CASE live = {}
    BY <1>3, <2>2, SlotCountAssumption DEF SlotIds
  <2> QED BY <2>1, <2>2
<1>6. net' = (net \ {f}) \cup {[f EXCEPT !.dst = h, !.locs = Append(f.locs, i)] : h \in NextHops(R, d)}
  BY <1>1 DEF BindCredit, Taken, CreditFrame, ResponseFrame
<1>7. ASSUME NEW h \in NextHops(R, d)
      PROVE  FrameOK([f EXCEPT !.dst = h, !.locs = Append(f.locs, i)])
  <2> DEFINE g == [f EXCEPT !.dst = h, !.locs = Append(f.locs, i)]
  <2>1. PICK r \in Below(R) : h = IF Len(Path[r]) = d THEN r ELSE Path[r][d + 1]
    BY <1>7 DEF NextHops
  <2>2. /\ r \in Requesters /\ Path[r] \in Seq(Routers) /\ Len(Path[r]) \in Nat
        /\ DOMAIN Path[r] = 1 .. Len(Path[r])
    BY <2>1, ArborNetAssumption, LenProperties DEF Below
  <2>3. d \in DOMAIN Path[r] /\ Path[r][d] = R /\ d \in Nat
    BY <1>1, <1>2, <2>1, LenProperties DEF CreditDepth
  <2>4. Append(f.locs, i) \in Seq(Nat) /\ Len(Append(f.locs, i)) = d
    BY <1>2, <1>5, AppendProperties
  <2> HIDE DEF i, d
  <2>5. CASE Len(Path[r]) = d
    <3>1. h = r /\ h \in Requesters /\ h \notin Routers
      BY <2>1, <2>2, <2>5, ArborNetAssumption DEF Hosts
    <3>2. g \in CreditFrame /\ g.dst = h /\ g.locs = Append(f.locs, i)
      BY <1>1, <2>4, <3>1 DEF CreditFrame, ResponseFrame, OffsetOpt
    <3>3. CreditDepth(g)
      BY <2>4, <2>5, <3>1, <3>2 DEF CreditDepth
    <3> QED BY <3>2, <3>3 DEF FrameOK
  <2>6. CASE Len(Path[r]) # d
    <3>1. d + 1 \in DOMAIN Path[r]
      BY <2>2, <2>3, <2>6
    <3>2. h = Path[r][d + 1] /\ h \in Routers
      BY <2>1, <2>2, <2>6, <3>1, ElementOfSeq
    <3>3. h \notin Requesters
      BY <3>2, ArborNetAssumption DEF Hosts
    <3>4. g \in CreditFrame /\ g.dst = h /\ g.locs = Append(f.locs, i)
      BY <1>1, <2>4, <3>2 DEF CreditFrame, ResponseFrame, OffsetOpt
    <3>5. ASSUME NEW q \in Below(h)
          PROVE  d + 1 \in DOMAIN Path[q] /\ Path[q][d + 1] = h
      <4>1. PICK j \in DOMAIN Path[q] : q \in Requesters /\ Path[q][j] = h
        BY DEF Below
      <4> QED BY <2>2, <3>1, <3>2, <4>1, TreeAssumption
    <3>6. CreditDepth(g)
      BY <2>4, <3>3, <3>4, <3>5 DEF CreditDepth
    <3> QED BY <3>4, <3>6 DEF FrameOK
  <2> QED BY <2>5, <2>6
<1>8. NetSound'
  <2> SUFFICES ASSUME NEW g \in net' PROVE FrameOK(g)
    BY DEF NetSound
  <2>1. CASE g \in net
    BY <2>1 DEF RouterInv, NetSound
  <2>2. CASE g \notin net
    <3>1. PICK h \in NextHops(R, d) : g = [f EXCEPT !.dst = h, !.locs = Append(f.locs, i)]
      BY <1>6, <2>2
    <3> QED BY <1>7, <3>1
  <2> QED BY <2>1, <2>2
<1> QED BY <1>4, <1>8 DEF RouterInv

\* What an arriving request is known to be.
LEMMA ArrivingRequest ==
    ASSUME RouterInv, NEW R \in Routers, NEW f \in net, Arrives(f, R, "REQUEST")
    PROVE  /\ f \in RequestFrame /\ RequestDepth(f) /\ PureFor(f.data, f.off)
           /\ Len(f.locs) > 0
<1>1. f \in RequestFrame /\ RequestDepth(f) /\ PureFor(f.data, f.off)
  BY RequestKind DEF RouterInv, NetSound, Arrives
<1> QED BY <1>1 DEF RequestDepth, Arrives

\* A step that adds only well-formed frames and leaves the tables alone.
LEMMA NetOnlyStep ==
    ASSUME RouterInv, UNCHANGED routerVars, \A g \in net' : g \in net \/ FrameOK(g)
    PROVE  RouterInv'
<1>1. OpenTypeOK' /\ SlotSound' /\ OneOpenSlot'
  BY DEF RouterInv, routerVars, OpenTypeOK, SlotSound, OneOpenSlot
<1>2. NetSound'
  BY DEF RouterInv, NetSound
<1> QED BY <1>1, <1>2 DEF RouterInv

LEMMA PassThroughStep ==
    ASSUME RouterInv, NEW R \in Routers, NEW f \in net, PassThrough(R, f)
    PROVE  RouterInv'
<1>1. f \in RequestFrame /\ RequestDepth(f) /\ PureFor(f.data, f.off) /\ Len(f.locs) > 0
  BY ArrivingRequest DEF PassThrough
<1>2. FrameOK(Popped(f))
  BY <1>1, PoppedSound DEF FrameOK
<1>3. (\A g \in net' : g \in net \/ FrameOK(g)) /\ UNCHANGED routerVars
  BY <1>2 DEF PassThrough, Taken
<1> QED BY <1>3, NetOnlyStep

LEMMA MissStep ==
    ASSUME RouterInv, NEW R \in Routers, NEW f \in net, Miss(R, f)
    PROVE  RouterInv'
<1>1. f \in RequestFrame
  BY ArrivingRequest DEF Miss
<1>2. AggMiss(f.src, f.sub, f.off) \in MissFrame
  BY <1>1 DEF AggMiss, MissFrame, RequestFrame
<1>3. AggMiss(f.src, f.sub, f.off) \in BypassFrame
  <2>1. AggMiss(f.src, f.sub, f.off) \in Frame
    BY <1>2 DEF Frame
  <2>2. AggMiss(f.src, f.sub, f.off).type = "AGG_MISS"
    BY DEF AggMiss
  <2> QED BY <2>1, <2>2 DEF BypassFrame
<1>4. (\A g \in net' : g \in net \/ FrameOK(g)) /\ UNCHANGED routerVars
  BY <1>3 DEF Miss, Taken, FrameOK
<1> QED BY <1>4, NetOnlyStep

\* The contribution lands in its slot; the owner stays and a slot only closes.
LEMMA AggregateStep ==
    ASSUME RouterInv, NEW R \in Routers, NEW f \in net, Aggregate(R, f)
    PROVE  RouterInv'
<1> DEFINE k    == AggLoc(f)
           old  == g_slots[R][k]
           with == SlotWith(old, f)
           next == [with EXCEPT !.forwarded = with.agg_count = with.fanin]
<1>1. f \in RequestFrame /\ RequestDepth(f) /\ PureFor(f.data, f.off) /\ Len(f.locs) > 0
  BY ArrivingRequest DEF Aggregate
<1>2. k \in SlotIds /\ old \in Slot /\ CountSound(old) /\ ContentSound(old) /\ SlotAccepts(old, f)
  BY DEF Aggregate, RouterInv, OpenTypeOK, SlotSound
<1>3. /\ g_slots' = [g_slots EXCEPT ![R][k] = next]
      /\ net' = (net \ {f}) \cup (IF with.agg_count = with.fanin THEN {MasterOf(with)} ELSE {})
      /\ g_router_alloc_ptr' = g_router_alloc_ptr
  BY DEF Aggregate, Taken
<1>4. /\ next \in Slot /\ CountSound(next) /\ ContentSound(next) /\ next.owner = old.owner
      /\ next.agg_count > old.agg_count
      /\ next.master = with.master /\ next.accum = with.accum
      /\ next.agg_count = with.agg_count
  <2>1. next = Filled(old, f)
    BY DEF Filled
  <2> HIDE DEF old, next
  <2> QED BY <1>1, <1>2, <2>1, AcceptSound DEF with
<1>5. ~old.forwarded
  BY <1>2 DEF SlotAccepts
<1>6. FrameOK(MasterOf(with))
  <2>1. next.agg_count > 0
    BY <1>2, <1>4 DEF Slot
  <2>2. FrameOK(MasterOf(next))
    BY <1>4, <2>1, MasterSound DEF FrameOK
  <2>3. MasterOf(next) = MasterOf(with)
    BY <1>4 DEF MasterOf
  <2> QED BY <2>2, <2>3
<1> HIDE DEF k, old, with, next
<1>7. OpenTypeOK'
  BY <1>2, <1>3, <1>4 DEF RouterInv, OpenTypeOK
<1>8. SlotSound'
  BY <1>2, <1>3, <1>4 DEF RouterInv, OpenTypeOK, SlotSound
<1>9. OneOpenSlot'
  BY <1>2, <1>3, <1>4, <1>5 DEF RouterInv, OpenTypeOK, OneOpenSlot, old
<1>10. NetSound'
  BY <1>3, <1>6 DEF RouterInv, NetSound
<1> QED BY <1>7, <1>8, <1>9, <1>10 DEF RouterInv
=============================================================================
