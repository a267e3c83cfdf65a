---------------------------- MODULE QueuesProofs ----------------------------
(***************************************************************************)
(* Proofs about HostQueues for every number of requesters, subchannels,    *)
(* message ids and messages, and queues of any capacity.                   *)
(***************************************************************************)
EXTENDS HostQueues, FiniteSetTheorems, SequenceTheorems,
        WellFoundedInduction, TLAPS

\* Requester r has left the message of epoch e.
Left(r, e) ==
    \/ e < EpochOf(requesting[r].n)
    \/ e = EpochOf(requesting[r].n) /\ ~requesting[r].run

\* What a requester may have sent: it registers for messages it has begun
\* and acknowledges END of those it has left.
Uplink ==
    {f \in Frame :
       /\ f.type = "REGISTER" =>
             f.host \in Requesters /\ f.epoch <= EpochOf(requesting[f.host].n)
       /\ f.type = "END_ACK" =>
             /\ f.host \in Requesters
             /\ f.epoch >= FirstEpoch /\ Left(f.host, f.epoch)}

RespondCalls ==
    [n : 1 .. Calls, run : BOOLEAN, ready : SUBSET Subchannels, done : BOOLEAN,
     end_ack_mask : SUBSET Hosts]
RequestCalls ==
    [n : 1 .. Calls, run : BOOLEAN, confirmed : SUBSET Subchannels, complete : BOOLEAN,
     end_subs : SUBSET Subchannels]
Slots ==
    [epoch : Nat, registered : [Subchannels -> SUBSET Hosts], end_ack_mask : SUBSET Hosts]

\* The shape of the calls and the slots, and of what is on its way.
ShapeInv ==
    /\ up \in [Requesters -> [Subchannels -> Seq(Uplink)]]
    /\ down \in [Requesters -> Seq(Frame)]
    /\ rxq \in Seq(Uplink) /\ Len(rxq) <= RxCap
    /\ sendq \in Seq(Frame) /\ Len(sendq) <= SendCap
    /\ responding \in RespondCalls
    /\ meta \in [MessageIds -> Slots]
    /\ requesting \in [Requesters -> RequestCalls]
    /\ tombstone \in [Requesters -> [MessageIds -> Nat \cup {NoEpoch}]]

\* A tombstone stands for a message its requester has left.
TombstoneInv ==
    \A r \in Requesters, i \in MessageIds :
        tombstone[r][i] # NoEpoch =>
            tombstone[r][i] >= FirstEpoch /\ Left(r, tombstone[r][i])

\* Whoever is registered in the slot of the call has begun its message.
GateInv ==
    /\ \A r \in Requesters, s \in Subchannels :
          r \in meta[Id].registered[s] => requesting[r].n >= responding.n
    /\ responding.ready # {} => \A r \in Requesters : requesting[r].n >= responding.n

\* Until its first registration the slot of the call has no epoch.
SlotInv == meta[Id].epoch \in {0, EpochOf(responding.n)}

\* Whoever is in one of the two masks of the call has left its message, in a
\* channel without a message of epoch 0, the epoch of a slot without any.
EndInv ==
    FirstEpoch > 0 =>
        /\ \A r \in Requesters :
              r \in meta[Id].end_ack_mask \cup responding.end_ack_mask => Over(r, responding.n)
        /\ ~responding.run => responding.end_ack_mask = Requesters

QueuesInv == ShapeInv /\ TombstoneInv /\ GateInv /\ SlotInv /\ EndInv

-----------------------------------------------------------------------------
(* Sequences, message ids and the send queue.                              *)

LEMMA FirstIsThere ==
  ASSUME NEW places, places \subseteq Nat, places # {}
  PROVE  First(places) \in places
<1>1. PICK d \in places : \A e \in places : <<e, d>> \notin OpToRel(<, Nat)
  BY WFMin, NatLessThanWellFounded, Zenon
<1>2. \A x, y \in Nat : x < y => <<x, y>> \in OpToRel(<, Nat)
  <2>1. OpToRel(<, Nat) = {p \in Nat \X Nat : p[1] < p[2]}
    BY Zenon DEF OpToRel
  <2>2. \A x, y \in Nat : x < y => <<x, y>> \in {p \in Nat \X Nat : p[1] < p[2]}
    OBVIOUS
  <2> QED BY <2>1, <2>2, Zenon
<1>3. \A e \in places : ~(e < d)
  BY <1>1, <1>2, Zenon
<1>4. \A e \in places : d <= e
  BY <1>3
<1> QED BY <1>4, Zenon DEF First

LEMMA RemovedSeq ==
  ASSUME NEW S, NEW q \in Seq(S), NEW k \in 1 .. Len(q)
  PROVE  RemoveAt(q, k) \in Seq(S) /\ Len(RemoveAt(q, k)) = Len(q) - 1
<1>1. Len(q) \in Nat /\ \A i \in 1 .. Len(q) : q[i] \in S
  BY LenProperties, ElementOfSeq
<1>2. /\ SubSeq(q, 1, k - 1) \in Seq(S)
      /\ Len(SubSeq(q, 1, k - 1)) = k - 1
  <2>1. \A i \in 1 .. k - 1 : q[i] \in S
    BY <1>1
  <2>2. k - 1 \in Int /\ (IF 1 <= k - 1 THEN (k - 1) - 1 + 1 ELSE 0) = k - 1
    BY <1>1
  <2> QED BY <2>1, <2>2, SubSeqProperties
<1>3. /\ SubSeq(q, k + 1, Len(q)) \in Seq(S)
      /\ Len(SubSeq(q, k + 1, Len(q))) = Len(q) - k
  <2>1. \A i \in k + 1 .. Len(q) : q[i] \in S
    BY <1>1
  <2>2. /\ k + 1 \in Int /\ Len(q) \in Int
        /\ (IF k + 1 <= Len(q) THEN Len(q) - (k + 1) + 1 ELSE 0) = Len(q) - k
    BY <1>1
  <2> QED BY <2>1, <2>2, SubSeqProperties
<1> DEFINE before == SubSeq(q, 1, k - 1)
           after  == SubSeq(q, k + 1, Len(q))
<1>4. before \o after \in Seq(S) /\ Len(before \o after) = Len(before) + Len(after)
  <2> HIDE DEF before, after
  <2> QED BY <1>2, <1>3, ConcatProperties DEF before, after
<1>5. RemoveAt(q, k) = before \o after
  BY DEF RemoveAt
<1>6. Len(before) = k - 1 /\ Len(after) = Len(q) - k
  BY <1>2, <1>3
<1> HIDE DEF before, after
<1>7. PICK m \in Nat : m = Len(q)
  BY <1>1
<1>8. (k - 1) + (m - k) = m - 1
  BY <1>7
<1>9. Len(before \o after) = (k - 1) + (m - k)
  BY <1>4, <1>6, <1>7, Zenon
<1> QED BY <1>4, <1>5, <1>7, <1>8, <1>9, Zenon

LEMMA ListedSet ==
  ASSUME NEW S, IsFiniteSet(S)
  PROVE  SetToSeq(S) \in Seq(S)
<1>1. /\ Cardinality(S) \in Nat
      /\ ExistsBijection(1 .. Cardinality(S), S)
  BY FS_CardinalityType
<1>2. PICK f : f \in Bijection(1 .. Cardinality(S), S)
  BY <1>1, Zenon DEF ExistsBijection
<1>3. f \in [1 .. Cardinality(S) -> S] /\ IsInjective(f)
  BY <1>2 DEF Bijection, Injection, Surjection, IsInjective
<1>4. SetToSeq(S) \in [1 .. Cardinality(S) -> S]
  BY <1>3, Zenon DEF SetToSeq
<1> QED BY <1>1, <1>4

LEMMA Numbers ==
  ASSUME NEW n \in 1 .. Calls
  PROVE  IdOf(n) \in MessageIds /\ EpochOf(n) \in Nat /\ EpochOf(n) >= FirstEpoch
<1>1. PICK x \in Nat : x = n - 1
  <2>1. n - 1 \in Nat
    BY HostQueuesAssumption
  <2> QED BY <2>1, Zenon
<1>2. x % Ids \in 0 .. Ids - 1
  BY HostQueuesAssumption
<1>3. IdOf(n) \in MessageIds
  BY <1>1, <1>2 DEF IdOf, MessageIds
<1>4. EpochOf(n) \in Nat /\ EpochOf(n) >= FirstEpoch
  BY HostQueuesAssumption DEF EpochOf
<1> QED BY <1>3, <1>4

LEMMA FramesOfListed ==
  ASSUME NEW subs, subs \subseteq Subchannels, NEW frames,
         frames \in [DOMAIN SetToSeq(subs) -> Frame]
  PROVE  frames \in Seq(Frame)
<1>1. SetToSeq(subs) \in Seq(subs)
  BY HostQueuesAssumption, FS_Subset, ListedSet
<1>2. DOMAIN SetToSeq(subs) = 1 .. Len(SetToSeq(subs)) /\ Len(SetToSeq(subs)) \in Nat
  BY <1>1, LenProperties
<1> QED BY <1>2

LEMMA EndFramesType ==
  ASSUME ShapeInv
  PROVE  Id \in MessageIds /\ EndFrames \in Seq(Frame)
<1> DEFINE registered == {s \in Subchannels : meta[Id].registered[s] # {}}
           subs == SetToSeq(registered)
<1>1. Id \in MessageIds /\ EpochOf(responding.n) \in Nat
  BY Numbers DEF ShapeInv, RespondCalls, Id
<1>2. \A k \in DOMAIN subs : subs[k] \in Subchannels
  <2>1. registered \subseteq Subchannels
    OBVIOUS
  <2> HIDE DEF registered
  <2>2. subs \in Seq(registered)
    BY <2>1, HostQueuesAssumption, FS_Subset, ListedSet
  <2> QED BY <2>1, <2>2, LenProperties, ElementOfSeq
<1> DEFINE frames == [k \in DOMAIN subs |->
                        Control("END", subs[k], IF subs[k] \in responding.ready
                                                THEN EpochOf(responding.n) ELSE 0)]
<1>3. registered \subseteq Subchannels
  OBVIOUS
<1>4. EndFrames = frames
  BY DEF EndFrames
<1> HIDE DEF registered
<1>5. \A k \in DOMAIN subs : frames[k] \in Frame
  BY <1>1, <1>2 DEF Control, Frame, Hosts
<1>6. frames \in [DOMAIN subs -> Frame]
  BY <1>5
<1> HIDE DEF frames
<1> QED BY <1>1, <1>3, <1>4, <1>6, FramesOfListed

LEMMA EnqueuedType ==
  ASSUME NEW q \in Seq(Frame), NEW frames \in Seq(Frame)
  PROVE  Enqueued(q, frames) \in Seq(Frame) /\ Len(Enqueued(q, frames)) <= SendCap
<1> DEFINE all == q \o frames
           n   == IF Len(all) < SendCap THEN Len(all) ELSE SendCap
<1>1. all \in Seq(Frame) /\ Len(all) \in Nat /\ \A i \in 1 .. Len(all) : all[i] \in Frame
  BY ConcatProperties, LenProperties, ElementOfSeq
<1>2. n \in Nat /\ n <= Len(all) /\ n <= SendCap
  BY <1>1, HostQueuesAssumption
<1> HIDE DEF all
<1>3. \A i \in 1 .. n : all[i] \in Frame
  BY <1>1, <1>2
<1> HIDE DEF n
<1>4. SubSeq(all, 1, n) \in Seq(Frame) /\ Len(SubSeq(all, 1, n)) = n
  <2>1. (IF 1 <= n THEN n - 1 + 1 ELSE 0) = n
    BY <1>2
  <2> QED BY <1>2, <1>3, <2>1, SubSeqProperties
<1>5. Enqueued(q, frames) = SubSeq(all, 1, n)
  BY DEF Enqueued, all, n
<1> QED BY <1>2, <1>4, <1>5

-----------------------------------------------------------------------------
(* The calls of a requester only go on.                                    *)

Onward ==
    \A r \in Requesters :
        \/ requesting'[r].n > requesting[r].n
        \/ requesting'[r].n = requesting[r].n /\ (requesting'[r].run => requesting[r].run)

LEMMA Lasting ==
  ASSUME ShapeInv, requesting' \in [Requesters -> RequestCalls], Onward
  PROVE  /\ \A r \in Requesters, e \in Nat : Left(r, e) => Left(r, e)'
         /\ \A r \in Requesters, n \in Nat : Over(r, n) => Over(r, n)'
         /\ \A r \in Requesters : requesting'[r].n >= requesting[r].n
         /\ Uplink \subseteq Uplink'
<1>1. ASSUME NEW r \in Requesters
      PROVE  /\ requesting[r].n \in Nat /\ requesting'[r].n \in Nat
             /\ requesting[r].run \in BOOLEAN /\ requesting'[r].run \in BOOLEAN
             /\ requesting'[r].n >= requesting[r].n
  <2>1. requesting[r] \in RequestCalls /\ requesting'[r] \in RequestCalls
    BY DEF ShapeInv
  <2>2. Calls \in Nat
    BY HostQueuesAssumption
  <2>3. /\ requesting[r].n \in Nat /\ requesting'[r].n \in Nat
        /\ requesting[r].run \in BOOLEAN /\ requesting'[r].run \in BOOLEAN
    BY <2>1, <2>2 DEF RequestCalls
  <2> QED BY <2>3 DEF Onward
<1>2. ASSUME NEW r \in Requesters, NEW e \in Nat, Left(r, e) PROVE Left(r, e)'
  BY <1>1, <1>2, HostQueuesAssumption DEF Left, EpochOf, Onward
<1>3. ASSUME NEW r \in Requesters, NEW n \in Nat, Over(r, n) PROVE Over(r, n)'
  BY <1>1, <1>3 DEF Over, Onward
<1>4. ASSUME NEW f \in Uplink PROVE f \in Uplink'
  <2>1. f \in Frame /\ f.epoch \in Nat
    BY DEF Uplink, Frame
  <2>2. f.type = "REGISTER" =>
          f.host \in Requesters /\ f.epoch <= EpochOf(requesting'[f.host].n)
    BY <1>1, <2>1, HostQueuesAssumption DEF Uplink, EpochOf
  <2>3. f.type = "END_ACK" =>
          /\ f.host \in Requesters
          /\ f.epoch >= FirstEpoch /\ Left(f.host, f.epoch)'
    BY <1>2, <2>1 DEF Uplink
  <2> QED BY <2>1, <2>2, <2>3 DEF Uplink
<1> QED BY <1>1, <1>2, <1>3, <1>4

LEMMA TombstonesStay ==
  ASSUME QueuesInv, requesting' \in [Requesters -> RequestCalls], Onward, tombstone' = tombstone
  PROVE  TombstoneInv'
<1>1. \A r \in Requesters, i \in MessageIds : tombstone[r][i] # NoEpoch => tombstone[r][i] \in Nat
  BY DEF QueuesInv, ShapeInv
<1> QED BY <1>1, Lasting DEF QueuesInv, TombstoneInv

\* The responder does nothing.
LEMMA ResponderStays ==
  ASSUME QueuesInv, requesting' \in [Requesters -> RequestCalls], Onward,
         responding' = responding, meta' = meta
  PROVE  GateInv' /\ SlotInv' /\ EndInv'
<1>1. responding.n \in Nat /\ responding.n \in 1 .. Calls
  BY HostQueuesAssumption DEF QueuesInv, ShapeInv, RespondCalls
<1>2. Id' = Id
  BY DEF Id
<1>3. \A r \in Requesters : /\ requesting[r].n \in Nat /\ requesting'[r].n \in Nat
                            /\ requesting'[r].n >= requesting[r].n
                            /\ Over(r, responding.n) => Over(r, responding.n)'
  <2>1. requesting \in [Requesters -> RequestCalls]
    BY DEF QueuesInv, ShapeInv
  <2>2. \A r \in Requesters : requesting[r].n \in Nat /\ requesting'[r].n \in Nat
    BY <2>1, HostQueuesAssumption DEF RequestCalls
  <2>3. \A r \in Requesters : requesting'[r].n >= requesting[r].n
    BY Lasting DEF QueuesInv
  <2>4. \A r \in Requesters : Over(r, responding.n) => Over(r, responding.n)'
    BY <1>1, Lasting DEF QueuesInv
  <2> QED BY <2>2, <2>3, <2>4
<1>4. GateInv'
  BY <1>1, <1>2, <1>3 DEF QueuesInv, GateInv
<1>5. SlotInv'
  BY <1>2 DEF QueuesInv, SlotInv
<1>6. EndInv'
  BY <1>2, <1>3 DEF QueuesInv, EndInv, Over
<1> QED BY <1>4, <1>5, <1>6

-----------------------------------------------------------------------------
(* The receive threads and the responder.                                  *)

LEMMA TypesUsed ==
  ASSUME ShapeInv
  PROVE  /\ responding.n \in 1 .. Calls /\ responding.n \in Nat
         /\ Id \in MessageIds /\ meta[Id] \in Slots
         /\ EpochOf(responding.n) \in Nat /\ EpochOf(responding.n) >= FirstEpoch
         /\ \A r \in Requesters : requesting[r] \in RequestCalls
<1>1. responding.n \in 1 .. Calls /\ responding.n \in Nat
  BY HostQueuesAssumption DEF ShapeInv, RespondCalls
<1>2. Id \in MessageIds /\ EpochOf(responding.n) \in Nat /\ EpochOf(responding.n) >= FirstEpoch
  BY <1>1, Numbers DEF Id
<1> QED BY <1>1, <1>2 DEF ShapeInv

\* The requesters do nothing.
LEMMA RequestersStay ==
  ASSUME QueuesInv, requesting' = requesting, tombstone' = tombstone
  PROVE  /\ requesting' \in [Requesters -> RequestCalls] /\ Onward
         /\ Uplink' = Uplink
         /\ TombstoneInv'
         /\ \A r \in Requesters, n \in Nat : Over(r, n)' <=> Over(r, n)
<1>1. requesting' \in [Requesters -> RequestCalls] /\ Onward
  BY DEF QueuesInv, ShapeInv, Onward
<1>2. Uplink' = Uplink
  BY DEF Uplink, Left
<1>3. TombstoneInv'
  BY <1>1, TombstonesStay
<1>4. \A r \in Requesters, n \in Nat : Over(r, n)' <=> Over(r, n)
  BY DEF Over
<1> QED BY <1>1, <1>2, <1>3, <1>4

LEMMA ReceiveStep ==
  ASSUME QueuesInv, NEW r \in Requesters, NEW s \in Subchannels, Receive(r, s)
  PROVE  QueuesInv'
<1>1. ShapeInv /\ requesting' = requesting /\ tombstone' = tombstone
      /\ responding' = responding /\ meta' = meta /\ down' = down /\ sendq' = sendq
  BY DEF Receive, QueuesInv
<1>2. Head(up[r][s]) \in Uplink /\ Tail(up[r][s]) \in Seq(Uplink)
  <2>1. up[r][s] \in Seq(Uplink) /\ up[r][s] # <<>>
    BY <1>1 DEF ShapeInv, Receive
  <2> QED BY <2>1, HeadTailProperties
<1>3. up' \in [Requesters -> [Subchannels -> Seq(Uplink)]]
  BY <1>1, <1>2 DEF ShapeInv, Receive
<1>4. rxq' \in Seq(Uplink) /\ Len(rxq') <= RxCap
  <2> DEFINE f == Head(up[r][s])
  <2>1. rxq' = Queued(rxq, f) /\ rxq \in Seq(Uplink) /\ Len(rxq) <= RxCap /\ f \in Uplink
    BY <1>1, <1>2 DEF Receive, ShapeInv
  <2> HIDE DEF f
  <2>2. Append(rxq, f) \in Seq(Uplink) /\ Len(Append(rxq, f)) = Len(rxq) + 1 /\ Len(rxq) \in Nat
    BY <2>1, AppendProperties, LenProperties
  <2>3. RxCap \in Nat
    BY HostQueuesAssumption
  <2> QED BY <2>1, <2>2, <2>3 DEF Queued
<1>5. ShapeInv'
  BY <1>1, <1>3, <1>4, RequestersStay DEF ShapeInv
<1> QED BY <1>1, <1>5, RequestersStay, ResponderStays DEF QueuesInv

LEMMA Popped ==
  ASSUME QueuesInv, NEW f, PopMatching(Id, f)
  PROVE  f \in Uplink /\ rxq' \in Seq(Uplink) /\ Len(rxq') <= RxCap
<1>1. rxq \in Seq(Uplink) /\ Len(rxq) <= RxCap /\ RxCap \in Nat
  BY HostQueuesAssumption DEF QueuesInv, ShapeInv
<1>2. Len(rxq) \in Nat /\ DOMAIN rxq = 1 .. Len(rxq)
  BY <1>1, LenProperties
<1>3. Oldest(Id) \in 1 .. Len(rxq)
  <2>1. OfMessage(Id) \subseteq 1 .. Len(rxq) /\ OfMessage(Id) # {}
    BY <1>2 DEF OfMessage, PopMatching
  <2>2. First(OfMessage(Id)) \in OfMessage(Id)
    BY <1>2, <2>1, FirstIsThere
  <2> QED BY <2>1, <2>2 DEF Oldest
<1>4. f = rxq[Oldest(Id)] /\ rxq' = RemoveAt(rxq, Oldest(Id))
  BY DEF PopMatching
<1>5. f \in Uplink
  BY <1>1, <1>3, <1>4, ElementOfSeq
<1>6. rxq' \in Seq(Uplink) /\ Len(rxq') = Len(rxq) - 1
  BY <1>1, <1>3, <1>4, RemovedSeq
<1> QED BY <1>1, <1>2, <1>5, <1>6

LEMMA RxStaleStep ==
  ASSUME QueuesInv, NEW f, RxStale(f)
  PROVE  QueuesInv'
<1>1. ShapeInv /\ requesting' = requesting /\ tombstone' = tombstone /\ up' = up
      /\ responding' = responding /\ meta' = meta /\ down' = down /\ sendq' = sendq
  BY DEF RxStale, QueuesInv
<1>2. rxq' \in Seq(Uplink) /\ Len(rxq') <= RxCap
  BY Popped DEF RxStale
<1>3. ShapeInv'
  BY <1>1, <1>2, RequestersStay DEF ShapeInv
<1> QED BY <1>1, <1>3, RequestersStay, ResponderStays DEF QueuesInv

\* A beacon that is taken is of a requester that has begun the message.
LEMMA RxRegisterStep ==
  ASSUME QueuesInv, NEW f, RxRegister(f)
  PROVE  QueuesInv'
<1> DEFINE slot  == Upserted(meta[Id])
           who   == slot.registered[f.sub] \cup {f.host}
           ready == IF who = Requesters THEN responding.ready \cup {f.sub} ELSE responding.ready
           acks  == IF who = Requesters THEN ready ELSE {}
           acked == SetToSeq(acks)
           frames == [k \in DOMAIN acked |->
                        Control("REGISTER_ACK", acked[k], EpochOf(responding.n))]
<1>1. /\ ShapeInv /\ PopMatching(Id, f) /\ RegisterApplies(f)
      /\ meta' = [meta EXCEPT ![Id] = [slot EXCEPT !.registered = [@ EXCEPT ![f.sub] = who]]]
      /\ responding' = [responding EXCEPT !.ready = ready]
      /\ sendq' = Enqueued(sendq, frames)
      /\ UNCHANGED <<up, down, requesting, tombstone>>
  BY DEF RxRegister, QueuesInv
<1>2. /\ rxq' \in Seq(Uplink) /\ Len(rxq') <= RxCap
      /\ f.host \in Requesters /\ f.sub \in Subchannels /\ f.epoch = EpochOf(responding.n)
      /\ f.epoch <= EpochOf(requesting[f.host].n)
  <2>1. f \in Uplink /\ f.type = "REGISTER" /\ f.epoch = EpochOf(responding.n)
    BY <1>1, Popped DEF RegisterApplies
  <2> QED BY <1>1, <2>1, Popped DEF Uplink, Frame
<1>3. f.host \in Hosts /\ requesting[f.host].n >= responding.n
  <2>1. PICK c : c = requesting[f.host] /\ c \in RequestCalls
    BY <1>1, <1>2, TypesUsed
  <2>2. c.n \in Nat
    BY <2>1, HostQueuesAssumption DEF RequestCalls
  <2>3. FirstEpoch \in Nat /\ responding.n \in Nat
    BY <1>1, TypesUsed, HostQueuesAssumption
  <2>4. FirstEpoch + responding.n - 1 <= FirstEpoch + c.n - 1
    BY <1>2, <2>1 DEF EpochOf
  <2>5. c.n >= responding.n
    BY <2>2, <2>3, <2>4
  <2> QED BY <1>2, <2>1, <2>5 DEF Hosts
<1>4. slot \in Slots /\ slot.epoch = EpochOf(responding.n)
      /\ slot.end_ack_mask \subseteq meta[Id].end_ack_mask
      /\ \A s \in Subchannels : slot.registered[s] \subseteq meta[Id].registered[s]
  BY <1>1, TypesUsed DEF Upserted, FreshSlot, Slots
<1>5. who \subseteq Hosts /\ ready \subseteq Subchannels /\ acks \subseteq Subchannels
  BY <1>1, <1>2, <1>3, <1>4 DEF Slots, ShapeInv, RespondCalls
<1>6. meta'[Id] = [epoch |-> slot.epoch, registered |-> [slot.registered EXCEPT ![f.sub] = who],
                   end_ack_mask |-> slot.end_ack_mask]
  <2>1. meta'[Id] = [slot EXCEPT !.registered = [@ EXCEPT ![f.sub] = who]]
    BY <1>1, TypesUsed DEF ShapeInv
  <2> QED BY <1>4, <2>1 DEF Slots
<1>7. meta' \in [MessageIds -> Slots]
  <2> HIDE DEF slot, who
  <2>a. slot.registered \in [Subchannels -> SUBSET Hosts] /\ slot.epoch \in Nat
        /\ slot.end_ack_mask \in SUBSET Hosts
    BY <1>4 DEF Slots
  <2>b. [slot.registered EXCEPT ![f.sub] = who] \in [Subchannels -> SUBSET Hosts]
    BY <1>5, <2>a
  <2>1. meta'[Id] \in Slots
    BY <1>6, <2>a, <2>b DEF Slots
  <2> QED BY <1>1, <2>1, TypesUsed DEF ShapeInv
<1>8. responding' \in RespondCalls /\ responding'.n = responding.n /\ responding'.ready = ready
      /\ responding'.end_ack_mask = responding.end_ack_mask /\ responding'.run = responding.run
  BY <1>1, <1>5 DEF ShapeInv, RespondCalls
<1>9. Id' = Id
  BY <1>8 DEF Id
<1>10. sendq' \in Seq(Frame) /\ Len(sendq') <= SendCap
  <2> HIDE DEF acks
  <2>1. \A k \in DOMAIN acked : acked[k] \in Subchannels
    <3>1. acked \in Seq(acks)
      BY <1>5, HostQueuesAssumption, FS_Subset, ListedSet
    <3> QED BY <1>5, <3>1, LenProperties, ElementOfSeq
  <2>2. frames \in [DOMAIN acked -> Frame]
    BY <1>1, <2>1, TypesUsed DEF Control, Frame, Hosts
  <2> HIDE DEF frames
  <2>3. frames \in Seq(Frame)
    BY <1>5, <2>2, FramesOfListed
  <2> QED BY <1>1, <2>3, EnqueuedType DEF ShapeInv
<1>11. ShapeInv'
  BY <1>1, <1>2, <1>7, <1>8, <1>10, RequestersStay DEF ShapeInv
<1>12. GateInv'
  <2>1. ASSUME NEW r \in Requesters, NEW s \in Subchannels, r \in meta'[Id].registered[s]
        PROVE  requesting[r].n >= responding.n
    <3>1. meta'[Id].registered[s] = IF s = f.sub THEN who ELSE slot.registered[s]
      BY <1>4, <1>6 DEF Slots
    <3>2. r = f.host \/ r \in meta[Id].registered[s]
      BY <1>2, <1>4, <2>1, <3>1
    <3> QED BY <1>3, <3>2 DEF QueuesInv, GateInv
  <2>2. ASSUME ready # {}, NEW r \in Requesters PROVE requesting[r].n >= responding.n
    <3>1. CASE who = Requesters
      <4>1. r = f.host \/ r \in meta[Id].registered[f.sub]
        BY <1>2, <1>4, <3>1
      <4> QED BY <1>2, <1>3, <4>1 DEF QueuesInv, GateInv
    <3>2. CASE who # Requesters
      BY <2>2, <3>2 DEF QueuesInv, GateInv
    <3> QED BY <3>1, <3>2
  <2> QED BY <1>1, <1>8, <1>9, <2>1, <2>2 DEF GateInv
<1>13. SlotInv'
  <2>1. meta'[Id].epoch = EpochOf(responding.n)
    BY <1>4, <1>6
  <2> QED BY <1>8, <1>9, <2>1 DEF SlotInv
<1>14. EndInv'
  <2>1. meta'[Id].end_ack_mask \subseteq meta[Id].end_ack_mask
    BY <1>4, <1>6
  <2>2. \A r \in Requesters : Over(r, responding.n)' <=> Over(r, responding.n)
    BY <1>1, <1>8 DEF Over
  <2> QED BY <1>8, <1>9, <2>1, <2>2 DEF QueuesInv, EndInv
<1> QED BY <1>1, <1>11, <1>12, <1>13, <1>14, RequestersStay DEF QueuesInv

\* An END_ACK that is taken is of a requester that has left the message: the
\* epoch it repeats is not the one of a slot without registration.
LEMMA RxEndAckStep ==
  ASSUME QueuesInv, responding.run, NEW f, RxEndAck(f)
  PROVE  QueuesInv'
<1> DEFINE mask == meta[Id].end_ack_mask \cup {f.host}
<1>1. /\ ShapeInv /\ PopMatching(Id, f) /\ EndAckApplies(f)
      /\ meta' = [meta EXCEPT ![Id] = [meta[Id] EXCEPT !.end_ack_mask = mask]]
      /\ responding' = [responding EXCEPT !.end_ack_mask = mask]
      /\ UNCHANGED <<up, down, sendq, requesting, tombstone>>
  BY DEF RxEndAck, QueuesInv
<1>2. /\ rxq' \in Seq(Uplink) /\ Len(rxq') <= RxCap
      /\ f.host \in Requesters /\ f.epoch = meta[Id].epoch
      /\ f.epoch >= FirstEpoch /\ Left(f.host, f.epoch)
  <2>1. f \in Uplink /\ f.type = "END_ACK" /\ f.epoch = meta[Id].epoch
    BY <1>1, Popped DEF EndAckApplies
  <2> QED BY <1>1, <2>1, Popped DEF Uplink, Frame
<1>3. mask \subseteq Hosts
  BY <1>1, <1>2, TypesUsed DEF Slots, Hosts
<1>4. meta'[Id] = [meta[Id] EXCEPT !.end_ack_mask = mask]
  BY <1>1, TypesUsed DEF ShapeInv
<1>5. /\ meta'[Id].epoch = meta[Id].epoch /\ meta'[Id].registered = meta[Id].registered
      /\ meta'[Id].end_ack_mask = mask /\ meta'[Id] \in Slots
  BY <1>1, <1>3, <1>4, TypesUsed DEF Slots
<1>6. meta' \in [MessageIds -> Slots]
  BY <1>1, <1>4, <1>5, TypesUsed DEF ShapeInv
<1>7. /\ responding' \in RespondCalls /\ responding'.n = responding.n
      /\ responding'.ready = responding.ready /\ responding'.end_ack_mask = mask
      /\ responding'.run = responding.run
  BY <1>1, <1>3 DEF ShapeInv, RespondCalls
<1>8. Id' = Id
  BY <1>7 DEF Id
<1>9. ShapeInv'
  BY <1>1, <1>2, <1>6, <1>7, RequestersStay DEF ShapeInv
<1>10. GateInv'
  BY <1>1, <1>5, <1>7, <1>8 DEF QueuesInv, GateInv
<1>11. SlotInv'
  BY <1>5, <1>7, <1>8 DEF QueuesInv, SlotInv
<1>12. EndInv'
  <2> SUFFICES ASSUME FirstEpoch > 0
               PROVE  /\ \A r \in Requesters : r \in mask => Over(r, responding.n)
                      /\ responding.run
    BY <1>1, <1>5, <1>7, <1>8 DEF EndInv, Over
  <2>1. Over(f.host, responding.n)
    <3>1. Left(f.host, EpochOf(responding.n))
      BY <1>2, HostQueuesAssumption DEF QueuesInv, SlotInv
    <3>2. requesting[f.host].n \in Nat
      BY <1>1, <1>2, TypesUsed, HostQueuesAssumption DEF RequestCalls
    <3> QED BY <1>1, <3>1, <3>2, TypesUsed, HostQueuesAssumption DEF Left, Over, EpochOf
  <2>2. \A r \in Requesters : r \in mask => Over(r, responding.n)
    BY <2>1 DEF QueuesInv, EndInv
  <2>3. responding.run
    OBVIOUS
  <2> QED BY <2>2, <2>3
<1> QED BY <1>1, <1>9, <1>10, <1>11, <1>12, RequestersStay DEF QueuesInv

LEMMA FlushStep ==
  ASSUME QueuesInv, FlushSendQueue
  PROVE  QueuesInv'
<1>1. ShapeInv /\ down' = Flushed /\ sendq' = <<>>
      /\ UNCHANGED <<up, rxq, responding, meta, requesting, tombstone>>
  BY DEF FlushSendQueue, QueuesInv
<1>2. down' \in [Requesters -> Seq(Frame)]
  BY <1>1, ConcatProperties DEF Flushed, ShapeInv
<1>3. ShapeInv'
  BY <1>1, <1>2, RequestersStay, HostQueuesAssumption DEF ShapeInv
<1> QED BY <1>1, <1>3, RequestersStay, ResponderStays DEF QueuesInv

\* END is queued anew.
LEMMA EndRetryStep ==
  ASSUME QueuesInv, EndRetry
  PROVE  QueuesInv'
<1>1. ShapeInv /\ sendq' = Enqueued(sendq, EndFrames)
      /\ UNCHANGED <<up, down, rxq, responding, meta, requesting, tombstone>>
  BY DEF EndRetry, QueuesInv
<1>2. sendq' \in Seq(Frame) /\ Len(sendq') <= SendCap
  BY <1>1, EndFramesType, EnqueuedType DEF ShapeInv
<1>3. ShapeInv'
  BY <1>1, <1>2, RequestersStay DEF ShapeInv
<1> QED BY <1>1, <1>3, RequestersStay, ResponderStays DEF QueuesInv

LEMMA TransferStep ==
  ASSUME QueuesInv, Transfer
  PROVE  QueuesInv'
<1>1. ShapeInv /\ responding' = [responding EXCEPT !.done = TRUE]
      /\ requesting' = [r \in Requesters |-> [requesting[r] EXCEPT !.complete = TRUE]]
      /\ sendq' = Enqueued(sendq, EndFrames)
      /\ UNCHANGED <<up, down, rxq, meta, tombstone>>
  BY DEF Transfer, QueuesInv
<1>2. ASSUME NEW r \in Requesters
      PROVE  /\ requesting'[r] \in RequestCalls
             /\ requesting'[r].n = requesting[r].n /\ requesting'[r].run = requesting[r].run
  <2>1. requesting'[r] = [requesting[r] EXCEPT !.complete = TRUE]
    BY <1>1
  <2> QED BY <1>1, <2>1, TypesUsed DEF RequestCalls
<1>3. requesting' \in [Requesters -> RequestCalls] /\ Onward
  BY <1>1, <1>2 DEF Onward
<1>4. Uplink' = Uplink
  BY <1>2 DEF Uplink, Left
<1>5. /\ responding' \in RespondCalls /\ responding'.n = responding.n
      /\ responding'.ready = responding.ready /\ responding'.run = responding.run
      /\ responding'.end_ack_mask = responding.end_ack_mask
  BY <1>1 DEF ShapeInv, RespondCalls
<1>6. Id' = Id
  BY <1>5 DEF Id
<1>7. sendq' \in Seq(Frame) /\ Len(sendq') <= SendCap
  BY <1>1, EndFramesType, EnqueuedType DEF ShapeInv
<1>8. ShapeInv'
  BY <1>1, <1>3, <1>4, <1>5, <1>7 DEF ShapeInv
<1>9. GateInv'
  BY <1>1, <1>2, <1>5, <1>6 DEF QueuesInv, GateInv
<1>10. SlotInv'
  BY <1>1, <1>5, <1>6 DEF QueuesInv, SlotInv
<1>11. EndInv'
  BY <1>1, <1>2, <1>5, <1>6 DEF QueuesInv, EndInv, Over
<1> QED BY <1>1, <1>3, <1>8, <1>9, <1>10, <1>11, TombstonesStay DEF QueuesInv

LEMMA ReturnStep ==
  ASSUME QueuesInv, Return
  PROVE  QueuesInv'
<1>1. ShapeInv /\ down' = Flushed /\ sendq' = <<>>
      /\ responding.end_ack_mask = Requesters
      /\ responding' = [responding EXCEPT !.run = FALSE]
      /\ UNCHANGED <<up, rxq, meta, requesting, tombstone>>
  BY DEF Return, QueuesInv
<1>2. down' \in [Requesters -> Seq(Frame)]
  BY <1>1, ConcatProperties DEF Flushed, ShapeInv
<1>3. /\ responding' \in RespondCalls /\ responding'.n = responding.n
      /\ responding'.ready = responding.ready
      /\ responding'.end_ack_mask = responding.end_ack_mask
  BY <1>1 DEF ShapeInv, RespondCalls
<1>4. Id' = Id
  BY <1>3 DEF Id
<1>5. ShapeInv'
  BY <1>1, <1>2, <1>3, RequestersStay, HostQueuesAssumption DEF ShapeInv
<1>6. GateInv'
  BY <1>1, <1>3, <1>4 DEF QueuesInv, GateInv
<1>7. SlotInv'
  BY <1>1, <1>3, <1>4 DEF QueuesInv, SlotInv
<1>8. EndInv'
  BY <1>1, <1>3, <1>4 DEF QueuesInv, EndInv, Over
<1> QED BY <1>1, <1>5, <1>6, <1>7, <1>8, RequestersStay DEF QueuesInv

\* The next call starts with empty masks in its slot and of its own.
LEMMA NextCallStep ==
  ASSUME QueuesInv, Respond
  PROVE  QueuesInv'
<1> DEFINE next == responding.n + 1
<1>1. ShapeInv /\ next \in 1 .. Calls
      /\ responding' = RespondCall(next)
      /\ meta' = [meta EXCEPT ![IdOf(next)] = FreshSlot]
      /\ UNCHANGED <<up, down, rxq, sendq, requesting, tombstone>>
  <2>1. ShapeInv /\ responding.n \in 1 .. Calls /\ responding.n < Calls /\ Calls \in Nat
    BY TypesUsed, HostQueuesAssumption DEF Respond, QueuesInv
  <2>2. responding.n + 1 \in 1 .. Calls
    BY <2>1
  <2> QED BY <2>1, <2>2 DEF Respond
<1> HIDE DEF next
<1>2. IdOf(next) \in MessageIds
  BY <1>1, Numbers
<1>3. FreshSlot \in Slots
  BY DEF FreshSlot, Slots
<1>4. meta' \in [MessageIds -> Slots] /\ meta'[IdOf(next)] = FreshSlot
  BY <1>1, <1>2, <1>3 DEF ShapeInv
<1>5. /\ responding' \in RespondCalls /\ responding'.n = next /\ responding'.run = TRUE
      /\ responding'.ready = {} /\ responding'.end_ack_mask = {}
  BY <1>1 DEF RespondCall, RespondCalls
<1>6. Id' = IdOf(next)
  BY <1>5 DEF Id
<1>7. ShapeInv'
  BY <1>1, <1>4, <1>5, RequestersStay DEF ShapeInv
<1>8. GateInv'
  BY <1>4, <1>5, <1>6 DEF GateInv, FreshSlot
<1>9. SlotInv'
  BY <1>4, <1>6 DEF SlotInv, FreshSlot
<1>10. EndInv'
  BY <1>4, <1>5, <1>6 DEF EndInv, FreshSlot
<1> QED BY <1>1, <1>7, <1>8, <1>9, <1>10, RequestersStay DEF QueuesInv

-----------------------------------------------------------------------------
(* The requesters.                                                         *)

LEMMA RegistrationType ==
  ASSUME ShapeInv, NEW r \in Requesters, NEW s \in Subchannels
  PROVE  /\ Registration(r, s) \in Uplink
         /\ Registration(r, s) \in Frame
         /\ Registration(r, s).epoch = EpochOf(requesting[r].n)
         /\ requesting[r].n \in 1 .. Calls
         /\ EpochOf(requesting[r].n) \in Nat /\ EpochOf(requesting[r].n) >= FirstEpoch
         /\ IdOf(requesting[r].n) \in MessageIds
<1>1. requesting[r].n \in 1 .. Calls
  BY TypesUsed DEF RequestCalls
<1>2. EpochOf(requesting[r].n) \in Nat /\ EpochOf(requesting[r].n) >= FirstEpoch
      /\ IdOf(requesting[r].n) \in MessageIds
  BY <1>1, Numbers
<1>3. /\ Registration(r, s) \in Frame
      /\ Registration(r, s).type = "REGISTER" /\ Registration(r, s).host = r
      /\ Registration(r, s).epoch = EpochOf(requesting[r].n)
  BY <1>2 DEF Registration, Frame, Hosts
<1>4. Registration(r, s) \in Uplink
  BY <1>2, <1>3 DEF Uplink
<1> QED BY <1>1, <1>2, <1>3, <1>4

LEMMA BeaconStep ==
  ASSUME QueuesInv, NEW r \in Requesters, NEW s \in Subchannels, Beacon(r, s)
  PROVE  QueuesInv'
<1>1. ShapeInv /\ up' = [up EXCEPT ![r][s] = <<Registration(r, s)>>]
      /\ UNCHANGED <<down, rxq, sendq, responding, meta, requesting, tombstone>>
  BY DEF Beacon, QueuesInv
<1>2. <<Registration(r, s)>> \in Seq(Uplink)
  BY <1>1, RegistrationType
<1>3. up' \in [Requesters -> [Subchannels -> Seq(Uplink)]]
  BY <1>1, <1>2 DEF ShapeInv
<1>4. ShapeInv'
  BY <1>1, <1>3, RequestersStay DEF ShapeInv
<1> QED BY <1>1, <1>4, RequestersStay, ResponderStays DEF QueuesInv

\* Frames that were sent stay frames of the requester's messages.
LEMMA UplinksLast ==
  ASSUME ShapeInv, requesting' \in [Requesters -> RequestCalls], Onward
  PROVE  /\ rxq \in Seq(Uplink')
         /\ \A q \in [Requesters -> [Subchannels -> Seq(Uplink)]] :
               q \in [Requesters -> [Subchannels -> Seq(Uplink')]]
<1>1. Uplink \subseteq Uplink'
  BY Lasting
<1>2. ASSUME NEW q \in Seq(Uplink) PROVE q \in Seq(Uplink')
  BY <1>1, SeqMonotonic, Zenon
<1> QED BY <1>2 DEF ShapeInv

\* An END that finds its tombstone is of a message the requester has left.
LEMMA RxControlStep ==
  ASSUME QueuesInv, NEW r \in Requesters, NEW s \in Subchannels, RxControl(r, s)
  PROVE  QueuesInv'
<1> DEFINE k    == First(Arriving(r, s))
           f    == down[r][k]
           call == requesting[r]
           mine == call.run /\ f.epoch = EpochOf(call.n)
           confirmed == IF f.type = "REGISTER_ACK" /\ mine THEN call.confirmed \cup {s}
                        ELSE call.confirmed
           end_subs  == IF f.type = "END" /\ mine THEN call.end_subs \cup {s} ELSE call.end_subs
<1>1. /\ ShapeInv /\ Arriving(r, s) # {}
      /\ requesting' = [requesting EXCEPT ![r] =
                          [call EXCEPT !.confirmed = confirmed, !.end_subs = end_subs]]
      /\ up' = IF Tombstoned(r, f) THEN [up EXCEPT ![r][s] = Append(up[r][s], EndAck(r, f))] ELSE up
      /\ down' = [down EXCEPT ![r] = RemoveAt(down[r], k)]
      /\ UNCHANGED <<rxq, sendq, responding, meta, tombstone>>
  BY DEF RxControl, QueuesInv
<1>2. k \in 1 .. Len(down[r]) /\ down[r] \in Seq(Frame)
  <2>1. down[r] \in Seq(Frame)
    BY <1>1 DEF ShapeInv
  <2>2. Len(down[r]) \in Nat /\ DOMAIN down[r] = 1 .. Len(down[r])
    BY <2>1, LenProperties
  <2>3. Arriving(r, s) \subseteq 1 .. Len(down[r]) /\ Arriving(r, s) \subseteq Nat
    BY <2>2 DEF Arriving
  <2>4. First(Arriving(r, s)) \in Arriving(r, s)
    BY <1>1, <2>3, FirstIsThere
  <2> QED BY <2>1, <2>3, <2>4
<1>3. f \in Frame /\ RemoveAt(down[r], k) \in Seq(Frame)
  BY <1>2, ElementOfSeq, RemovedSeq
<1> HIDE DEF k, f
<1>4. call \in RequestCalls
  BY <1>1, TypesUsed
<1>5. /\ [call EXCEPT !.confirmed = confirmed, !.end_subs = end_subs] \in RequestCalls
      /\ [call EXCEPT !.confirmed = confirmed, !.end_subs = end_subs].n = call.n
      /\ [call EXCEPT !.confirmed = confirmed, !.end_subs = end_subs].run = call.run
  BY <1>4 DEF RequestCalls
<1>6. requesting' \in [Requesters -> RequestCalls] /\ Onward
      /\ \A q \in Requesters :
            requesting'[q].n = requesting[q].n /\ requesting'[q].run = requesting[q].run
  BY <1>1, <1>5 DEF ShapeInv, Onward
<1>7. Uplink' = Uplink
  BY <1>6 DEF Uplink, Left
<1>8. down' \in [Requesters -> Seq(Frame)]
  BY <1>1, <1>3 DEF ShapeInv
<1>9. up' \in [Requesters -> [Subchannels -> Seq(Uplink)]]
  <2>1. ASSUME Tombstoned(r, f) PROVE EndAck(r, f) \in Uplink
    <3>1. f.id \in MessageIds /\ f.epoch \in Nat /\ tombstone[r][f.id] = f.epoch
      BY <1>3, <2>1 DEF Frame, Tombstoned
    <3>2. f.epoch # NoEpoch
      BY <3>1 DEF NoEpoch
    <3>3. f.epoch >= FirstEpoch /\ Left(r, f.epoch)
      BY <3>1, <3>2 DEF QueuesInv, TombstoneInv
    <3>4. EndAck(r, f) \in Frame /\ EndAck(r, f).type = "END_ACK" /\ EndAck(r, f).host = r
          /\ EndAck(r, f).epoch = f.epoch
      BY <1>3 DEF EndAck, Frame, Hosts
    <3> QED BY <3>3, <3>4 DEF Uplink
  <2>2. up[r][s] \in Seq(Uplink)
    BY <1>1 DEF ShapeInv
  <2>3. ASSUME Tombstoned(r, f) PROVE Append(up[r][s], EndAck(r, f)) \in Seq(Uplink)
    BY <2>1, <2>2, <2>3, AppendProperties
  <2> QED BY <1>1, <2>3 DEF ShapeInv
<1>10. ShapeInv'
  BY <1>1, <1>6, <1>7, <1>8, <1>9 DEF ShapeInv
<1> QED BY <1>1, <1>6, <1>10, TombstonesStay, ResponderStays DEF QueuesInv

LEMMA NextRequestStep ==
  ASSUME QueuesInv, NEW r \in Requesters, Request(r)
  PROVE  QueuesInv'
<1> DEFINE n == requesting[r].n + 1
<1>1. /\ ShapeInv /\ n \in 1 .. Calls /\ n > requesting[r].n
      /\ requesting' = [requesting EXCEPT ![r] = RequestCall(n)]
      /\ UNCHANGED <<up, down, rxq, sendq, responding, meta, tombstone>>
  <2>1. ShapeInv /\ requesting[r].n \in 1 .. Calls /\ Calls \in Nat /\ n <= Calls
    BY TypesUsed, HostQueuesAssumption DEF Request, QueuesInv, RequestCalls
  <2> QED BY <2>1 DEF Request
<1> HIDE DEF n
<1>2. RequestCall(n) \in RequestCalls /\ RequestCall(n).n = n
  BY <1>1 DEF RequestCall, RequestCalls
<1>3. requesting' \in [Requesters -> RequestCalls] /\ Onward
  BY <1>1, <1>2 DEF ShapeInv, Onward
<1>4. ShapeInv'
  BY <1>1, <1>3, UplinksLast DEF ShapeInv
<1> QED BY <1>1, <1>3, <1>4, TombstonesStay, ResponderStays DEF QueuesInv

\* The call leaves its message with the acknowledgement and the tombstone.
LEMMA FinishStep ==
  ASSUME QueuesInv, NEW r \in Requesters, Finish(r)
  PROVE  QueuesInv'
<1> DEFINE n == requesting[r].n
           ack(s) == [Registration(r, s) EXCEPT !.type = "END_ACK"]
           sent == [s \in Subchannels |->
                      IF s \in requesting[r].end_subs THEN Append(up[r][s], ack(s)) ELSE up[r][s]]
<1>1. /\ ShapeInv
      /\ up' = [up EXCEPT ![r] = sent]
      /\ tombstone' = [tombstone EXCEPT ![r][IdOf(n)] = EpochOf(n)]
      /\ requesting' = [requesting EXCEPT ![r] = [requesting[r] EXCEPT !.run = FALSE]]
      /\ UNCHANGED <<down, rxq, sendq, responding, meta>>
  BY DEF Finish, QueuesInv
<1>2. /\ [requesting[r] EXCEPT !.run = FALSE] \in RequestCalls
      /\ [requesting[r] EXCEPT !.run = FALSE].n = n
      /\ [requesting[r] EXCEPT !.run = FALSE].run = FALSE
  BY <1>1, TypesUsed DEF RequestCalls
<1>3. requesting' \in [Requesters -> RequestCalls] /\ Onward
      /\ requesting'[r].n = n /\ ~requesting'[r].run
  BY <1>1, <1>2 DEF ShapeInv, Onward
<1>e. PICK e \in Nat : e = EpochOf(n)
  BY <1>1, Numbers, TypesUsed DEF RequestCalls
<1>4. e >= FirstEpoch /\ IdOf(n) \in MessageIds /\ Left(r, e)'
  <2>1. e >= FirstEpoch /\ IdOf(n) \in MessageIds
    BY <1>1, <1>e, Numbers, TypesUsed DEF RequestCalls
  <2>2. e = EpochOf(requesting'[r].n)
    BY <1>3, <1>e
  <2> QED BY <1>3, <2>1, <2>2 DEF Left
<1>5. ASSUME NEW s \in Subchannels PROVE ack(s) \in Uplink'
  <2>1. ack(s) \in Frame /\ ack(s).type = "END_ACK" /\ ack(s).host = r /\ ack(s).epoch = e
    BY <1>1, <1>e, RegistrationType DEF Frame, Registration
  <2>2. PICK f \in Frame : f = ack(s)
    BY <2>1
  <2>3. f \in Uplink'
    BY <1>4, <2>1, <2>2 DEF Uplink
  <2> QED BY <2>2, <2>3
<1>6. up \in [Requesters -> [Subchannels -> Seq(Uplink')]] /\ rxq' \in Seq(Uplink')
  BY <1>1, <1>3, UplinksLast DEF ShapeInv
<1>7. sent \in [Subchannels -> Seq(Uplink')]
  <2> HIDE DEF ack
  <2>1. \A s \in Subchannels : up[r][s] \in Seq(Uplink')
    BY <1>6
  <2>2. \A s \in Subchannels : Append(up[r][s], ack(s)) \in Seq(Uplink')
    BY <1>5, <2>1, AppendProperties
  <2> QED BY <2>1, <2>2
<1>8. up' \in [Requesters -> [Subchannels -> Seq(Uplink')]]
  <2> HIDE DEF sent
  <2> QED BY <1>1, <1>6, <1>7
<1>9. tombstone' \in [Requesters -> [MessageIds -> Nat \cup {NoEpoch}]]
  BY <1>1, <1>e, <1>4 DEF ShapeInv
<1>10. ShapeInv'
  BY <1>1, <1>3, <1>6, <1>8, <1>9 DEF ShapeInv
<1>11. TombstoneInv'
  <2> SUFFICES ASSUME NEW q \in Requesters, NEW i \in MessageIds,
                      NEW d \in Nat, d = tombstone'[q][i]
               PROVE  d >= FirstEpoch /\ Left(q, d)'
    BY <1>9 DEF TombstoneInv, Left
  <2>1. CASE q = r /\ i = IdOf(n)
    <3>1. tombstone'[q][i] = e
      BY <1>1, <1>e, <2>1 DEF ShapeInv
    <3> QED BY <1>4, <2>1, <3>1
  <2>2. CASE ~(q = r /\ i = IdOf(n))
    <3>1. tombstone[q][i] = d
      BY <1>1, <2>2 DEF ShapeInv
    <3>2. d >= FirstEpoch /\ Left(q, d)
      BY <3>1 DEF QueuesInv, TombstoneInv, NoEpoch
    <3>3. Left(q, d)'
      BY <1>1, <1>3, <3>2, Lasting
    <3> QED BY <3>2, <3>3
  <2> QED BY <2>1, <2>2
<1> QED BY <1>1, <1>3, <1>10, <1>11, ResponderStays DEF QueuesInv

-----------------------------------------------------------------------------
(* The invariant.                                                          *)

LEMMA QueuesInit == Init => QueuesInv
<1> SUFFICES ASSUME Init PROVE QueuesInv
  OBVIOUS
<1>1. 1 \in 1 .. Calls
  BY HostQueuesAssumption
<1>2. IdOf(1) \in MessageIds
  BY <1>1, Numbers
<1>3. FreshSlot \in Slots /\ RespondCall(1) \in RespondCalls /\ RequestCall(1) \in RequestCalls
  BY <1>1 DEF FreshSlot, Slots, RespondCall, RespondCalls, RequestCall, RequestCalls
<1>4. ShapeInv
  <2>1. <<>> \in Seq(Uplink) /\ <<>> \in Seq(Frame) /\ Len(<<>>) = 0
    BY EmptySeq
  <2> QED BY <1>3, <2>1, HostQueuesAssumption DEF Init, ShapeInv
<1>5. Id = IdOf(1) /\ meta[Id] = FreshSlot
  BY <1>2 DEF Init, Id, RespondCall
<1>6. TombstoneInv
  BY DEF Init, TombstoneInv
<1>7. /\ responding.n = 1 /\ responding.run = TRUE
      /\ responding.ready = {} /\ responding.end_ack_mask = {}
  BY DEF Init, RespondCall
<1>8. /\ meta[Id].epoch = 0 /\ meta[Id].end_ack_mask = {}
      /\ \A s \in Subchannels : meta[Id].registered[s] = {}
  BY <1>5 DEF FreshSlot
<1>9. GateInv /\ SlotInv /\ EndInv
  BY <1>7, <1>8, Zenon DEF GateInv, SlotInv, EndInv
<1> QED BY <1>4, <1>6, <1>9 DEF QueuesInv

LEMMA QueuesInductive == QueuesInv /\ [Next]_vars => QueuesInv'
<1> SUFFICES ASSUME QueuesInv, [Next]_vars PROVE QueuesInv'
  OBVIOUS
<1>1. CASE RespondStep
  BY <1>1, RxRegisterStep, RxEndAckStep, RxStaleStep, FlushStep, TransferStep, EndRetryStep,
     ReturnStep, NextCallStep DEF RespondStep, Pop
<1>2. ASSUME NEW r \in Requesters, RequestStep(r) PROVE QueuesInv'
  BY <1>2, BeaconStep, RxControlStep, FinishStep, NextRequestStep DEF RequestStep
<1>3. ASSUME NEW r \in Requesters, NEW s \in Subchannels, Receive(r, s) PROVE QueuesInv'
  BY <1>3, ReceiveStep
<1>4. CASE UNCHANGED vars
  <2>1. ShapeInv /\ UNCHANGED <<up, down, rxq, sendq, responding, meta, requesting, tombstone>>
    BY <1>4 DEF vars, QueuesInv
  <2>2. ShapeInv'
    BY <2>1, RequestersStay DEF ShapeInv
  <2> QED BY <2>1, <2>2, RequestersStay, ResponderStays DEF QueuesInv
<1> QED BY <1>1, <1>2, <1>3, <1>4 DEF Next

LEMMA QueuesInvariance == Spec => []QueuesInv
BY QueuesInit, QueuesInductive, PTL DEF Spec

\* Neither queue outgrows its ring and only control frames of the channel are
\* in them, whatever is lost at a full queue and however stale the frames are.
THEOREM QueuesTypeCorrect == Spec => []QueuesTypeOK
<1>1. QueuesInv => QueuesTypeOK
  <2> SUFFICES ASSUME QueuesInv PROVE QueuesTypeOK
    OBVIOUS
  <2>1. Len(rxq) <= RxCap /\ Len(sendq) <= SendCap
        /\ tombstone \in [Requesters -> [MessageIds -> Nat \cup {NoEpoch}]]
    BY DEF QueuesInv, ShapeInv
  <2>2. Frames \subseteq Frame
    <3>1. rxq \in Seq(Uplink) /\ Uplink \subseteq Frame
      BY DEF QueuesInv, ShapeInv, Uplink
    <3> QED BY <3>1, LenProperties, ElementOfSeq DEF Frames
  <2>3. responding.n \in 1 .. Calls /\ responding.ready \subseteq Subchannels
    BY DEF QueuesInv, ShapeInv, RespondCalls
  <2>4. \A r \in Requesters : requesting[r].n \in 1 .. Calls
    BY DEF QueuesInv, ShapeInv, RequestCalls
  <2> QED BY <2>1, <2>2, <2>3, <2>4 DEF QueuesTypeOK
<1> QED BY <1>1, QueuesInvariance, PTL

\* A gate opens only for requesters that have begun this very message: stale
\* beacons of the id's earlier users are told apart by their epochs
\* (upsert_response_message and the filter of respond_mode).
THEOREM GateNeedsPresence == Spec => []GateMeansPresent
<1>1. QueuesInv => GateMeansPresent
  BY DEF QueuesInv, GateInv, GateMeansPresent
<1> QED BY <1>1, QueuesInvariance, PTL

\* Where no message has epoch 0, the call of respond returns only after every
\* requester has acknowledged END of this very message and left it, although
\* acknowledgements of earlier users of the id may still be in the queue.
THEOREM ReturnNeedsEnd ==
  ASSUME FirstEpoch > 0
  PROVE  Spec => []ReturnMeansEnded
<1>1. QueuesInv => ReturnMeansEnded
  BY DEF QueuesInv, EndInv, ReturnMeansEnded
<1> QED BY <1>1, QueuesInvariance, PTL
=============================================================================
