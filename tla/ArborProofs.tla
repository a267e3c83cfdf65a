---------------------------- MODULE ArborProofs -----------------------------
(***************************************************************************)
(* Proofs about Arbor for every tree and every number of requesters and    *)
(* packets.  First what holds whatever the network does: type correctness, *)
(* the registration gate and the order of completion and END, by BasicInv; *)
(* ArborLemmas has what each step does.  Then the results of a channel     *)
(* whose network does not repeat requests: what is committed is exact,     *)
(* what is acknowledged is complete, and the channel implements AllReduce. *)
(* The count of a frame or slot has no identities; it can be trusted only  *)
(* because, until a packet switches to repair, a requester's fragment of   *)
(* it is in one place at a time.  Last what credits carry, where the count *)
(* alone has to stand for requesters, and the registered start.            *)
(***************************************************************************)
EXTENDS ArborLemmas

-----------------------------------------------------------------------------
(* The inductive invariant.                                                *)

\* Routers with fresh slots and nothing in flight.
LEMMA EmptyRouters ==
    ASSUME RouterInit, net = {}
    PROVE  RouterInv
<1>1. /\ SlotFor(NoOwner) \in Slot
      /\ CountSound(SlotFor(NoOwner)) /\ ContentSound(SlotFor(NoOwner))
  BY FreshSlotSound
<1>2. SlotFor(NoOwner).owner = NoOwner
  BY DEF SlotFor
<1>3. 0 \in SlotIds
  BY SlotCountAssumption DEF SlotIds
<1>4. \A R \in Routers, i \in SlotIds : g_slots[R][i] = SlotFor(NoOwner)
  BY DEF RouterInit
<1>5. OpenTypeOK
  BY <1>1, <1>3 DEF RouterInit, OpenTypeOK
<1> QED BY <1>1, <1>2, <1>4, <1>5 DEF RouterInv, SlotSound, OneOpenSlot, NetSound

LEMMA InitBasic ==
    Init => BasicInv
<1> SUFFICES ASSUME Init PROVE BasicInv
  OBVIOUS
<1>1. Cardinality(Subchannels) \in Nat \ {0} /\ 0 \in Subchannels
  <2>1. Cardinality(Subchannels) \in Nat \ {0}
    BY ArborNetAssumption, FS_CardinalityType, FS_EmptySet
  <2> QED BY <2>1, ArborNetAssumption
<1>2. Zero \in Payloads /\ NoOffset \in OffsetOpt /\ P \in Nat
  BY ZeroPayload, ArborNetAssumption DEF OffsetOpt
<1>3. FreshMeta \in Meta
  BY ArborNetAssumption DEF FreshMeta, Meta
<1>4. /\ FreshEntry \in Entry /\ FreshEntry.credit_sent = FALSE
      /\ FreshEntry.committed = FALSE
  BY <1>2, ResponderAssumption DEF FreshEntry, Entry
<1>5. ResponderTypeOK
  <2>1. entries \in [Offsets -> Entry]
    BY <1>4 DEF Init, ResponderInit
  <2>2. ending \in [sent : BOOLEAN, retries : 0 .. EndMaxRetries] /\ ~ending.sent
    BY ResponderAssumption DEF Init, ResponderInit
  <2>3. pending \in Seq(Offsets)
    BY EmptySeq DEF Init, ResponderInit
  <2> QED BY <1>3, <2>1, <2>2, <2>3 DEF Init, ResponderInit, ResponderTypeOK
<1>6. RequesterTypeOK
  BY <1>1, RequesterAssumption DEF Init, RequesterInit, RequesterTypeOK, NoResult
<1>7. RouterInv
  BY EmptyRouters DEF Init
<1>8. \A R \in Routers, i \in SlotIds : g_slots[R][i].owner = NoOwner
  BY DEF Init, RouterInit, SlotFor
<1>9. TypeOK
  BY <1>5, <1>6, <1>7, ArborAssumption DEF Init, TypeOK, RouterInv, OpenTypeOK
<1>10. \A o \in Offsets : entries[o] = FreshEntry
  BY DEF Init, ResponderInit
<1>11. CreditFirst
  BY <1>4, <1>8, <1>10, EmptySeq DEF Init, ResponderInit, RequesterInit, CreditFirst
<1>12. EndMeansDone
  BY DEF Init, ResponderInit, RequesterInit, EndMeansDone
<1>13. GateInv
  BY <1>4, <1>10 DEF Init, ResponderInit, GateInv, RegistrationGate, FreshMeta
<1> QED BY <1>7, <1>9, <1>11, <1>12, <1>13 DEF BasicInv

\* Types follow from their parts.
LEMMA TypeFromParts ==
    ASSUME TypeOK, RouterInv', ResponderTypeOK', RequesterTypeOK',
           lost' \in 0 .. MaxLoss, doubled' \in 0 .. MaxDup
    PROVE  TypeOK'
<1>1. \A f \in net' : f \in Frame
  BY FrameOKIsFrame DEF RouterInv, NetSound, FrameOK, CreditDepth, RequestDepth
<1> QED BY <1>1 DEF TypeOK, RouterInv, OpenTypeOK

LEMMA ResponderKeeps ==
    ASSUME BasicInv, ResponderNext
    PROVE  BasicInv'
<1>1. ResponderPart' /\ ResponderSends
  BY ResponderPartStep
<1>2. UNCHANGED <<routerVars, requesterVars, faultVars>>
  BY DEF ResponderNext
<1>3. RouterInv'
  BY <1>1, <1>2, NetOnlyStep DEF BasicInv, ResponderSends
<1>4. TypeOK'
  BY <1>1, <1>2, <1>3, TypeFromParts
     DEF BasicInv, TypeOK, ResponderPart, RequesterTypeOK, requesterVars, faultVars
<1>5. CreditFirst'
  <2>1. \A R \in Routers, i \in SlotIds : g_slots[R][i].owner # NoOwner =>
          g_slots[R][i].owner[2] \in Offsets
    BY DEF BasicInv, RouterInv, OpenTypeOK, Slot
  <2>2. \A q \in Requesters : \A c \in credit_q[q] : c.off \in Offsets
    BY RequesterFacts DEF Credit
  <2>3. \A g \in net : /\ g.type \in {"REQUEST", "REPAIR_REQUEST"} => g.off \in Offsets
                       /\ g.type = "RESPONSE" /\ g.credit # NoOffset => g.credit \in Offsets
    <3>1. \A g \in net : g \in Frame
      BY DEF BasicInv, TypeOK
    <3> QED BY <3>1 DEF Frame, ResponseFrame, RequestFrame, MissFrame, OffsetOpt
  <2>4. CreditFirst
    BY DEF BasicInv
  <2>5. \A o \in Offsets : Credited(o) => Credited(o)'
    BY <1>1 DEF ResponderSends
  <2>6. \A g \in net' : g.type \in {"REQUEST", "REPAIR_REQUEST"} => Credited(g.off)'
    BY <1>1, <2>3, <2>4, <2>5 DEF ResponderSends, CreditFirst
  <2>7. \A g \in net' : g.type = "RESPONSE" /\ g.credit # NoOffset => Credited(g.credit)'
    BY <1>1, <2>3, <2>4, <2>5 DEF ResponderSends, CreditFirst
  <2>8. \A q \in Requesters : \A c \in credit_q'[q] : Credited(c.off)'
    BY <1>2, <2>2, <2>4, <2>5 DEF CreditFirst, requesterVars
  <2>9. \A R \in Routers, i \in SlotIds : g_slots'[R][i].owner # NoOwner =>
          Credited(g_slots[R][i].owner[2])'
    BY <1>2, <2>1, <2>4, <2>5 DEF CreditFirst, routerVars, Credited
  <2> QED BY <1>1, <2>6, <2>7, <2>8, <2>9 DEF CreditFirst, ResponderPart
<1>6. EndMeansDone'
  BY <1>1, <1>2 DEF BasicInv, EndMeansDone, ResponderPart, ResponderSends, requesterVars
<1>7. GateInv'
  <2>1. \A r, s : Asked(r, s)' <=> Asked(r, s)
    BY <1>2 DEF Asked, requesterVars
  <2>2. \A g \in net' : g.type = "REGISTER" => Asked(g.src, g.sub)'
    BY <1>1, <2>1 DEF BasicInv, GateInv, ResponderSends
  <2> QED BY <1>1, <2>2 DEF GateInv, RegistrationGate, ResponderPart, Credited, Asked
<1> QED BY <1>3, <1>4, <1>5, <1>6, <1>7 DEF BasicInv

LEMMA RequesterKeeps ==
    ASSUME BasicInv, NEW r \in Requesters, RequesterNext(r)
    PROVE  BasicInv'
<1>1. RequesterStep
  BY RequesterPartStep
<1>2. UNCHANGED <<routerVars, responderVars, faultVars>>
  BY DEF RequesterNext
<1>3. RouterInv'
  BY <1>1, <1>2, NetOnlyStep DEF BasicInv, RequesterStep
<1>4. TypeOK'
  BY <1>1, <1>2, <1>3, TypeFromParts
     DEF BasicInv, TypeOK, RequesterStep, ResponderTypeOK, responderVars, faultVars
<1>5. CreditFirst'
  BY <1>1, <1>2 DEF BasicInv, CreditFirst, RequesterStep, routerVars, responderVars, Credited
<1>6. EndMeansDone'
  BY <1>1, <1>2 DEF BasicInv, EndMeansDone, RequesterStep, responderVars, AllDone
<1>7. GateInv'
  <2>1. GateInv /\ meta \in Meta
    BY DEF BasicInv, TypeOK, ResponderTypeOK
  <2>2. \A q \in Requesters, s \in Subchannels : Asked(q, s) => Asked(q, s)'
    BY <1>1 DEF RequesterStep
  <2>3. \A g \in net : g.type = "REGISTER" => g.src \in Requesters /\ g.sub \in Subchannels
    <3>1. \A g \in net : g \in Frame
      BY DEF BasicInv, TypeOK
    <3> QED BY <3>1 DEF Frame, ResponseFrame, RequestFrame, MissFrame
  <2>4. \A g \in net' : g.type = "REGISTER" => Asked(g.src, g.sub)'
    BY <1>1, <2>1, <2>2, <2>3 DEF GateInv, RequesterStep
  <2>5. \A s \in Subchannels : \A q \in meta'.registered_bitmap[s] : Asked(q, s)'
    BY <1>2, <2>1, <2>2 DEF GateInv, responderVars, Meta
  <2>6. RegistrationGate'
    BY <1>2, <2>1, <2>2 DEF GateInv, RegistrationGate, responderVars, Asked
  <2> QED BY <1>2, <2>1, <2>4, <2>5, <2>6 DEF GateInv, responderVars
<1> QED BY <1>3, <1>4, <1>5, <1>6, <1>7 DEF BasicInv

\* A step that leaves the hosts alone.
LEMMA HostsAlone ==
    ASSUME BasicInv, RouterInv', UNCHANGED hostVars,
           lost' \in 0 .. MaxLoss, doubled' \in 0 .. MaxDup,
           \A g \in net' :
              /\ g.type \in {"REQUEST", "REPAIR_REQUEST"} => Credited(g.off)
              /\ g.type = "RESPONSE" /\ g.credit # NoOffset => Credited(g.credit)
              /\ g.type = "END" => ending.sent
              /\ g.type = "REGISTER" => Asked(g.src, g.sub),
           \A R \in Routers, i \in SlotIds : g_slots'[R][i].owner # NoOwner =>
              Credited(g_slots'[R][i].owner[2])
    PROVE  BasicInv'
<1>1. UNCHANGED <<meta, entries, pending, ending, responding>>
  BY DEF hostVars, responderVars
<1>2. UNCHANGED <<register_acked, register_attempts, register_next, stored, offset_ring,
                  credit_q, end_ack_subs, tombstone, requesting>>
  BY DEF hostVars, requesterVars
<1>3. TypeOK'
  BY <1>1, <1>2, TypeFromParts DEF BasicInv, TypeOK, ResponderTypeOK, RequesterTypeOK
<1>4. CreditFirst'
  BY <1>1, <1>2 DEF BasicInv, CreditFirst, Credited
<1>5. EndMeansDone'
  BY <1>1, <1>2 DEF BasicInv, EndMeansDone, AllDone
<1>6. GateInv'
  BY <1>1, <1>2 DEF BasicInv, GateInv, RegistrationGate, Asked
<1> QED BY <1>3, <1>4, <1>5, <1>6 DEF BasicInv

\* BasicInv is inductive.
LEMMA BasicInductive ==
    BasicInv /\ [Next]_vars => BasicInv'
<1> SUFFICES ASSUME BasicInv, [Next]_vars PROVE BasicInv'
  OBVIOUS
<1>1. lost \in 0 .. MaxLoss /\ doubled \in 0 .. MaxDup /\ MaxLoss \in Nat /\ MaxDup \in Nat
  BY ArborAssumption DEF BasicInv, TypeOK
<1>2. \A g \in net :
        /\ g.type \in {"REQUEST", "REPAIR_REQUEST"} => Credited(g.off)
        /\ g.type = "RESPONSE" /\ g.credit # NoOffset => Credited(g.credit)
        /\ g.type = "END" => ending.sent
        /\ g.type = "REGISTER" => Asked(g.src, g.sub)
  BY DEF BasicInv, CreditFirst, EndMeansDone, GateInv
<1>3. \A R \in Routers, i \in SlotIds : g_slots[R][i].owner # NoOwner =>
          Credited(g_slots[R][i].owner[2])
  BY DEF BasicInv, CreditFirst
<1>4. CASE RouterNext
  <2>1. RouterInv' /\ RouterSends /\ UNCHANGED <<hostVars, faultVars>>
    BY <1>4, RouterPartStep DEF RouterNext
  <2>2. lost' \in 0 .. MaxLoss /\ doubled' \in 0 .. MaxDup
    BY <1>1, <2>1 DEF faultVars
  <2> QED BY <1>2, <2>1, <2>2, HostsAlone DEF RouterSends
<1>5. CASE ResponderNext
  BY <1>5, ResponderKeeps
<1>6. CASE \E r \in Requesters : RequesterNext(r)
  BY <1>6, RequesterKeeps
<1>7. CASE Lose
  <2>1. /\ UNCHANGED <<routerVars, hostVars>> /\ \A g \in net' : g \in net
        /\ lost' \in 0 .. MaxLoss /\ doubled' \in 0 .. MaxDup
    BY <1>1, <1>7 DEF Lose
  <2>2. RouterInv'
    BY <2>1, NetOnlyStep DEF BasicInv
  <2> QED BY <1>2, <1>3, <2>1, <2>2, HostsAlone DEF routerVars
<1>8. CASE Duplicate
  <2>1. PICK f \in net : net' = net \cup {[f EXCEPT !.copy = TRUE]}
    BY <1>8 DEF Duplicate
  <2>2. /\ UNCHANGED <<routerVars, hostVars>>
        /\ lost' \in 0 .. MaxLoss /\ doubled' \in 0 .. MaxDup
    BY <1>1, <1>8 DEF Duplicate
  <2> DEFINE g == [f EXCEPT !.copy = TRUE]
  <2>3. FrameOK(f)
    BY DEF BasicInv, RouterInv, NetSound
  <2>4. /\ FrameOK(g) /\ g.type = f.type
        /\ f.type = "REGISTER" => g.src = f.src /\ g.sub = f.sub
        /\ f.type \in {"REQUEST", "REPAIR_REQUEST"} => g.off = f.off
        /\ f.type = "RESPONSE" => g.credit = f.credit
    BY <2>3, CopyOK
  <2> HIDE DEF g
  <2>5. net' = net \cup {g}
    BY <2>1 DEF g
  <2>6. RouterInv'
    BY <2>2, <2>4, <2>5, NetOnlyStep DEF BasicInv
  <2> QED BY <1>2, <1>3, <2>2, <2>4, <2>5, <2>6, HostsAlone DEF routerVars
<1>9. CASE UNCHANGED vars
  <2>1. /\ UNCHANGED <<routerVars, hostVars>> /\ net' = net
        /\ lost' \in 0 .. MaxLoss /\ doubled' \in 0 .. MaxDup
    BY <1>1, <1>9 DEF vars, faultVars, hostVars
  <2>2. RouterInv'
    BY <2>1, NetOnlyStep DEF BasicInv
  <2> QED BY <1>2, <1>3, <2>1, <2>2, HostsAlone DEF routerVars
<1> QED BY <1>4, <1>5, <1>6, <1>7, <1>8, <1>9 DEF Next

\* BasicInv holds of every reachable state.
LEMMA BasicInvariance == Spec => []BasicInv
<1>1. Init => BasicInv
  BY InitBasic
<1>2. BasicInv /\ [Next]_vars => BasicInv'
  BY BasicInductive
<1> QED BY <1>1, <1>2, PTL DEF Spec

-----------------------------------------------------------------------------
(* The theorems.                                                           *)

\* Every frame, slot, table entry and counter of a channel stays within its
\* type, for any tree, any traffic and any number of repeated frames.
THEOREM ChannelTypeCorrect == Spec => []TypeOK
BY BasicInvariance, PTL DEF BasicInv

\* No credit leaves before every requester asked for its subchannel, however
\* REGISTER frames are repeated, delayed or interleaved (try_open_gate).
THEOREM GateHolds == Spec => []RegistrationGate
<1>1. BasicInv => RegistrationGate
  BY DEF BasicInv, GateInv
<1> QED BY <1>1, BasicInvariance, PTL

\* No requester returns success before every packet was answered: END is sent
\* only after the last of them, and nothing else ends a call (send_end_all).
THEOREM SuccessMeansAllDone == Spec => []OkMeansAllDone
<1>1. BasicInv => OkMeansAllDone
  BY DEF BasicInv, EndMeansDone, OkMeansAllDone, AllDone
<1> QED BY <1>1, BasicInvariance, PTL

\* In a channel too, slots never over-count or mix packets, repeated credits
\* find their slot, and every frame is well formed.
THEOREM ChannelRoutersSound == Spec => []RouterInv
BY BasicInvariance, PTL DEF BasicInv

-----------------------------------------------------------------------------
(* Sums.                                                                   *)

\* Givers are among the requesters.
LEMMA GiversFinite ==
    ASSUME NEW data, NEW o
    PROVE  /\ Givers(data, o) \in SUBSET Requesters
           /\ IsFiniteSet(Givers(data, o)) /\ Cardinality(Givers(data, o)) \in Nat
<1>1. Givers(data, o) \in SUBSET Requesters
  BY DEF Givers
<1> QED BY <1>1, FS_Subset, FS_CardinalityType, ArborNetAssumption

\* A fragment has a place in every payload.
LEMMA FragmentOf ==
    ASSUME NEW r \in Requesters, NEW o \in Offsets
    PROVE  <<r, o>> \in Fragments
BY DEF Fragments, Hosts

\* The cleared accumulator holds nothing.
LEMMA ZeroOnce ==
    ASSUME NEW o \in Offsets
    PROVE  /\ Once(Zero, o, 0)
           /\ \A a \in Payloads : Apart(Zero, a) /\ Apart(a, Zero)
<1>1. Givers(Zero, o) = {}
  BY FragmentOf DEF Givers, Zero
<1>2. Cardinality(Givers(Zero, o)) = 0
  BY <1>1, FS_EmptySet
<1>3. \A x \in Fragments : Zero[x] = 0
  BY DEF Zero
<1> QED BY <1>1, <1>2, <1>3 DEF Once, Apart

\* Being apart does not depend on the order.
LEMMA ApartSymmetric ==
    ASSUME NEW a, NEW b, Apart(a, b)
    PROVE  Apart(b, a)
BY DEF Apart

\* What is apart from two sums is apart from their sum.
LEMMA ApartPlus ==
    ASSUME NEW a \in Payloads, NEW b \in Payloads, NEW c \in Payloads, Apart(a, c), Apart(b, c)
    PROVE  Apart(Plus(a, b), c)
BY DEF Apart, Plus, Payloads

\* The sum of two sums that are apart: their counts add up.
LEMMA PlusOnce ==
    ASSUME NEW a \in Payloads, NEW b \in Payloads, NEW o \in Offsets, NEW n, NEW m,
           Once(a, o, n), Once(b, o, m), Apart(a, b)
    PROVE  Once(Plus(a, b), o, n + m)
<1> DEFINE A == Givers(a, o)
           B == Givers(b, o)
           c == Plus(a, b)
<1>1. \A x \in Fragments : c[x] = a[x] + b[x]
  BY DEF Plus
<1>2. \A x \in Fragments : (a[x] = 0 \/ a[x] = 1) /\ (b[x] = 0 \/ b[x] = 1) /\ (a[x] = 0 \/ b[x] = 0)
  BY DEF Once, Apart
<1> HIDE DEF c
<1>3. \A x \in Fragments : (c[x] = 0 \/ c[x] = 1) /\ (c[x] = 1 <=> a[x] = 1 \/ b[x] = 1)
  BY <1>1, <1>2
<1>4. Givers(c, o) = A \cup B /\ A \cap B = {}
  BY <1>2, <1>3, FragmentOf DEF Givers
<1>5. Cardinality(Givers(c, o)) = Cardinality(A) + Cardinality(B)
  <2>1. Cardinality(A \cup B) = Cardinality(A) + Cardinality(B) - Cardinality(A \cap B)
    BY GiversFinite, FS_Union
  <2>2. Cardinality(A \cap B) = 0
    BY <1>4, FS_EmptySet
  <2>3. Cardinality(A) \in Nat /\ Cardinality(B) \in Nat
    BY GiversFinite
  <2> QED BY <1>4, <2>1, <2>2, <2>3
<1>6. \A x \in Fragments : c[x] = 1 => x[1] \in Requesters /\ x[2] = o
  BY <1>3 DEF Once
<1>7. \A r \in Givers(c, o) : offset_ring[r][o] = "sent"
  BY <1>4 DEF Once
<1>8. Pull => n + m = Cardinality(Givers(c, o))
  BY <1>5 DEF Once
<1> QED BY <1>3, <1>6, <1>7, <1>8 DEF Once, c

\* A requester's own answer holds its fragment and no other.
LEMMA OwnGiver ==
    ASSUME NEW r \in Requesters, NEW o \in Offsets, NEW d, d = OwnData(r, o)
    PROVE  /\ \A x \in Fragments : d[x] = 0 \/ d[x] = 1
           /\ \A x \in Fragments : d[x] = 1 => x[1] = r /\ x[2] = o
           /\ \A q \in Givers(d, o) : q = r
           /\ Pull => 1 = Cardinality(Givers(d, o))
<1>1. CASE Pull
  <2>1. \A x \in Fragments : d[x] = IF x = <<r, o>> THEN 1 ELSE 0
    BY <1>1 DEF OwnData, Fragment
  <2>2. Givers(d, o) = {r}
    BY <2>1, FragmentOf DEF Givers
  <2>3. Cardinality(Givers(d, o)) = 1
    BY <2>2, FS_Singleton
  <2> QED BY <2>1, <2>2, <2>3
<1>2. CASE ~Pull
  <2>1. d = Zero
    BY <1>2 DEF OwnData
  <2>2. \A x \in Fragments : d[x] = 0
    BY <2>1 DEF Zero
  <2>3. Givers(d, o) = {}
    BY <2>2, FragmentOf DEF Givers
  <2> QED BY <1>2, <2>2, <2>3
<1> QED BY <1>1, <1>2

\* A count of all requesters is all of them: with the responder's own
\* fragment the sum is exact.
LEMMA FullOnce ==
    ASSUME Pull, NEW a \in Payloads, NEW o \in Offsets, Once(a, o, Cardinality(Requesters))
    PROVE  Plus(Fragment(Responder, o), a) = Exact(o)
<1>1. Givers(a, o) = Requesters
  BY GiversFinite, FS_Subset, ArborNetAssumption DEF Once
<1>2. ASSUME NEW x \in Fragments
      PROVE  Fragment(Responder, o)[x] + a[x] = IF x[2] = o THEN 1 ELSE 0
  <2>1. PICK h \in Hosts, p \in Offsets : x = <<h, p>>
    BY DEF Fragments
  <2>2. a[x] = 0 \/ a[x] = 1
    BY DEF Once
  <2>3. CASE p # o
    <3>1. a[x] # 1
      BY <2>1, <2>3 DEF Once
    <3>2. Fragment(Responder, o)[x] = 0
      BY <2>1, <2>3 DEF Fragment
    <3> QED BY <2>1, <2>2, <2>3, <3>1, <3>2
  <2>4. CASE p = o /\ h = Responder
    <3>1. a[x] # 1
      BY <2>1, <2>4, ArborNetAssumption DEF Once
    <3>2. Fragment(Responder, o)[x] = 1
      BY <2>1, <2>4 DEF Fragment
    <3> QED BY <2>1, <2>2, <2>4, <3>1, <3>2
  <2>5. CASE p = o /\ h # Responder
    <3>1. h \in Requesters
      BY <2>5 DEF Hosts
    <3>2. a[x] = 1
      BY <1>1, <2>1, <2>5, <3>1 DEF Givers
    <3>3. Fragment(Responder, o)[x] = 0
      BY <2>1, <2>5 DEF Fragment
    <3> QED BY <2>1, <2>5, <3>2, <3>3
  <2> QED BY <2>3, <2>4, <2>5
<1>3. Exact(o) = [x \in Fragments |-> IF x[2] = o THEN 1 ELSE 0]
  BY DEF Exact
<1> QED BY <1>2, <1>3 DEF Plus

\* A sum stays what it is while its givers' answers count as sent.
LEMMA OnceKept ==
    ASSUME NEW data, NEW o \in Offsets, NEW n, Once(data, o, n),
           \A r \in Requesters : offset_ring[r][o] = "sent" => offset_ring'[r][o] = "sent"
    PROVE  Once(data, o, n)'
BY DEF Once, Givers

-----------------------------------------------------------------------------
(* Contributions.                                                          *)

\* What is known of the requests in flight and of the slots.
LEMMA SumTypes ==
    ASSUME BasicInv
    PROVE  /\ \A f \in net : f.type = "REQUEST" =>
                 f \in RequestFrame /\ f.off \in Offsets /\ f.data \in Payloads
           /\ \A R \in Routers, i \in SlotIds :
                 /\ g_slots[R][i] \in Slot /\ g_slots[R][i].accum \in Payloads
                 /\ g_slots[R][i].owner # NoOwner => g_slots[R][i].owner[2] \in Offsets
                 /\ CountSound(g_slots[R][i]) /\ ContentSound(g_slots[R][i])
<1>1. \A f \in net : FrameOK(f)
  BY DEF BasicInv, RouterInv, NetSound
<1>2. \A f \in net : f.type = "REQUEST" => f \in RequestFrame
  BY <1>1, RequestKind
<1>3. g_slots \in [Routers -> [SlotIds -> Slot]]
  BY DEF BasicInv, TypeOK
<1>4. \A slot \in Slot : slot.accum \in Payloads /\ (slot.owner # NoOwner => slot.owner[2] \in Offsets)
  BY DEF Slot
<1> QED BY <1>2, <1>3, <1>4 DEF RequestFrame, BasicInv, RouterInv, SlotSound

\* A step that sends no request and only clears slots: repair is for good, and
\* answers stay answered until then.
LEMMA SumsKept ==
    ASSUME BasicInv, SumsInv,
           \A f \in net' : f.type = "REQUEST" => f \in net,
           \A R \in Routers, i \in SlotIds :
              \/ g_slots'[R][i] = g_slots[R][i]
              \/ /\ g_slots'[R][i].accum = Zero /\ g_slots'[R][i].agg_count = 0
                 /\ g_slots'[R][i].owner # NoOwner => g_slots'[R][i].owner[2] \in Offsets,
           \A o \in Offsets : Unrepaired(o)' => Unrepaired(o),
           \A r \in Requesters, o \in Offsets :
              Unrepaired(o)' /\ offset_ring[r][o] = "sent" => offset_ring'[r][o] = "sent"
    PROVE  SumsInv'
<1>1. FramesOnce'
  <2> SUFFICES ASSUME NEW f \in net', f.type = "REQUEST", Unrepaired(f.off)'
               PROVE  Once(f.data, f.off, Contribution(f))'
    BY DEF FramesOnce
  <2>1. f \in net /\ f.off \in Offsets /\ Once(f.data, f.off, Contribution(f))
    BY SumTypes DEF SumsInv, FramesOnce
  <2> QED BY <2>1, OnceKept
<1>2. SlotsOnce'
  <2> SUFFICES ASSUME NEW R \in Routers, NEW i \in SlotIds, NEW o, NEW a, NEW n,
                      g_slots'[R][i].owner # NoOwner, o = g_slots'[R][i].owner[2],
                      a = g_slots'[R][i].accum, n = g_slots'[R][i].agg_count, Unrepaired(o)'
               PROVE  Once(a, o, n)'
    BY DEF SlotsOnce
  <2>1. CASE g_slots'[R][i] = g_slots[R][i]
    <3>1. o \in Offsets
      BY <2>1, SumTypes
    <3>2. Once(a, o, n)
      BY <2>1, <3>1 DEF SumsInv, SlotsOnce
    <3> QED BY <3>1, <3>2, OnceKept
  <2>2. CASE a = Zero /\ n = 0 /\ o \in Offsets
    <3>1. Once(a, o, n)
      BY <2>2, ZeroOnce
    <3> QED BY <2>2, <3>1, OnceKept
  <2> QED BY <2>1, <2>2
<1>3. FramesApart'
  BY SumTypes DEF SumsInv, FramesApart
<1>4. FramesApartFromSlots'
  <2> SUFFICES ASSUME NEW f \in net', NEW R \in Routers, NEW i \in SlotIds,
                      f.type = "REQUEST", OpenFor(g_slots'[R][i], f.off), Unrepaired(f.off)'
               PROVE  Apart(f.data, g_slots'[R][i].accum)
    BY DEF FramesApartFromSlots
  <2>1. f \in net /\ f.off \in Offsets /\ f.data \in Payloads
    BY SumTypes
  <2> QED BY <2>1, ZeroOnce DEF SumsInv, FramesApartFromSlots
<1>5. SlotsApart'
  <2> SUFFICES ASSUME NEW R \in Routers, NEW Q \in Routers, NEW i \in SlotIds, NEW j \in SlotIds,
                      NEW o \in Offsets, <<R, i>> # <<Q, j>>, Unrepaired(o)',
                      OpenFor(g_slots'[R][i], o), OpenFor(g_slots'[Q][j], o)
               PROVE  Apart(g_slots'[R][i].accum, g_slots'[Q][j].accum)
    BY DEF SlotsApart
  <2>1. g_slots[R][i].accum \in Payloads /\ g_slots[Q][j].accum \in Payloads /\ Zero \in Payloads
    BY SumTypes, ZeroPayload
  <2>2. CASE g_slots'[R][i] = g_slots[R][i] /\ g_slots'[Q][j] = g_slots[Q][j]
    BY <2>2 DEF SumsInv, SlotsApart
  <2>3. CASE g_slots'[R][i].accum = Zero \/ g_slots'[Q][j].accum = Zero
    BY <2>1, <2>3, ZeroOnce
  <2> QED BY <2>2, <2>3
<1> QED BY <1>1, <1>2, <1>3, <1>4, <1>5 DEF SumsInv

\* Nothing but requests or slots concerns the sums: the hosts keep still.
LEMMA BindSums ==
    ASSUME BasicInv, SumsInv, UNCHANGED <<entries, offset_ring>>,
           NEW R \in Routers, NEW f \in net, BindCredit(R, f)
    PROVE  SumsInv'
<1> DEFINE owner == <<f.sub, f.credit>>
<1>1. f \in CreditFrame /\ f.type = "RESPONSE"
  BY CreditKind DEF BasicInv, RouterInv, NetSound, BindCredit, Arrives, CreditFrame
<1>2. ASSUME NEW g \in net', g.type = "REQUEST" PROVE g \in net
  <2>1. CASE g \notin net
    <3>1. PICK h, i : g = [f EXCEPT !.dst = h, !.locs = Append(@, i)]
      BY <2>1 DEF BindCredit, Taken
    <3> QED BY <1>1, <1>2, <3>1 DEF CreditFrame, ResponseFrame
  <2> QED BY <2>1
<1>3. g_slots \in [Routers -> [SlotIds -> Slot]] /\ g_router_alloc_ptr[R] \in SlotIds
  BY DEF BasicInv, RouterInv, OpenTypeOK
<1>4. \/ g_slots' = g_slots
      \/ g_slots' = [g_slots EXCEPT ![R][g_router_alloc_ptr[R]] = SlotFor(owner)]
  BY DEF BindCredit, routerVars
<1>5. /\ SlotFor(owner).accum = Zero /\ SlotFor(owner).agg_count = 0
      /\ SlotFor(owner).owner[2] \in Offsets
  BY <1>1 DEF SlotFor, CreditFrame, ResponseFrame, OffsetOpt
<1> HIDE DEF owner
<1>6. \A Q \in Routers, i \in SlotIds :
        g_slots'[Q][i] = g_slots[Q][i] \/ g_slots'[Q][i] = SlotFor(owner)
  BY <1>3, <1>4
<1> QED BY <1>2, <1>5, <1>6, SumsKept DEF Unrepaired

\* Popping a level changes neither the packet nor the payload nor the count.
LEMMA PassSums ==
    ASSUME BasicInv, SumsInv, UNCHANGED <<entries, offset_ring>>,
           NEW R \in Routers, NEW f \in net, PassThrough(R, f)
    PROVE  SumsInv'
<1> DEFINE g == Popped(f)
<1>1. f \in RequestFrame /\ RequestDepth(f) /\ Len(f.locs) > 0 /\ f.type = "REQUEST"
  BY ArrivingRequest DEF BasicInv, PassThrough, Arrives
<1>2. g \in RequestFrame /\ g.off = f.off /\ g.data = f.data
  BY <1>1, PoppedSound
<1>3. Contribution(g) = Contribution(f)
  BY <1>1 DEF Contribution, Popped, RequestFrame
<1>4. net' = (net \ {f}) \cup {g} /\ UNCHANGED g_slots
  BY DEF PassThrough, Taken, routerVars
<1> HIDE DEF g
<1>5. FramesOnce'
  BY <1>1, <1>2, <1>3, <1>4 DEF SumsInv, FramesOnce, Unrepaired, Once
<1>6. SlotsOnce' /\ SlotsApart'
  BY <1>4 DEF SumsInv, SlotsOnce, SlotsApart, Unrepaired, Once
<1>7. FramesApart'
  <2> SUFFICES ASSUME NEW h \in net', NEW k \in net', h.type = "REQUEST", k.type = "REQUEST",
                      h # k, h.off = k.off, Unrepaired(h.off)
               PROVE  Apart(h.data, k.data)
    BY DEF FramesApart, Unrepaired
  <2>1. CASE h # g /\ k # g
    BY <1>4, <2>1 DEF SumsInv, FramesApart
  <2>2. CASE h = g
    <3>1. k \in net /\ k # f /\ Apart(f.data, k.data)
      BY <1>1, <1>2, <1>4, <2>2 DEF SumsInv, FramesApart
    <3> QED BY <1>2, <2>2, <3>1
  <2>3. CASE k = g
    <3>1. h \in net /\ h # f /\ Apart(h.data, f.data)
      BY <1>1, <1>2, <1>4, <2>3 DEF SumsInv, FramesApart
    <3> QED BY <1>2, <2>3, <3>1
  <2> QED BY <2>1, <2>2, <2>3
<1>8. FramesApartFromSlots'
  BY <1>1, <1>2, <1>4 DEF SumsInv, FramesApartFromSlots, Unrepaired
<1> QED BY <1>5, <1>6, <1>7, <1>8 DEF SumsInv

\* A contribution moves from the frame to the slot, and with the last one on
\* to the master.
LEMMA AggregateSums ==
    ASSUME BasicInv, SumsInv, UNCHANGED <<entries, offset_ring>>,
           NEW R \in Routers, NEW f \in net, Aggregate(R, f)
    PROVE  SumsInv'
<1> DEFINE k    == AggLoc(f)
           o    == f.off
           old  == g_slots[R][k]
           with == SlotWith(old, f)
           next == [with EXCEPT !.forwarded = with.agg_count = with.fanin]
           m    == MasterOf(with)
           sum  == Plus(old.accum, f.data)
<1>1. /\ f \in RequestFrame /\ RequestDepth(f) /\ PureFor(f.data, f.off) /\ Len(f.locs) > 0
      /\ f.type = "REQUEST" /\ o \in Offsets /\ f.data \in Payloads
  BY ArrivingRequest, SumTypes DEF BasicInv, Aggregate, Arrives
<1>2. /\ k \in SlotIds /\ old \in Slot /\ CountSound(old) /\ ContentSound(old)
      /\ SlotAccepts(old, f) /\ g_slots \in [Routers -> [SlotIds -> Slot]]
      /\ old.accum \in Payloads
  BY SumTypes DEF Aggregate, BasicInv, TypeOK
<1>3. /\ g_slots' = [g_slots EXCEPT ![R][k] = next]
      /\ net' = (net \ {f}) \cup (IF with.agg_count = with.fanin THEN {m} ELSE {})
  BY DEF Aggregate, Taken
<1>4. /\ next \in Slot /\ ContentSound(next) /\ next.owner = old.owner
      /\ next.agg_count > old.agg_count /\ next.agg_count = with.agg_count
      /\ next.fanin = with.fanin /\ next.master = with.master /\ next.accum = with.accum
  <2>1. next = Filled(old, f)
    BY DEF Filled
  <2> HIDE DEF old, next
  <2> QED BY <1>1, <1>2, <2>1, AcceptSound DEF with
<1>5. old.owner = <<f.sub, o>> /\ ~old.forwarded /\ old.owner # NoOwner /\ old.owner[2] = o
  BY <1>2 DEF SlotAccepts, NoOwner
<1>6. with.accum = sum /\ with.agg_count = old.agg_count + Contribution(f)
  BY <1>2 DEF SlotWith, Slot
<1>7. next.forwarded <=> with.agg_count = with.fanin
  <2>1. next.forwarded = (with.agg_count = with.fanin)
    BY <1>2 DEF SlotWith, Slot
  <2> QED BY <2>1, Zenon
<1>8. /\ m \in RequestFrame /\ m.type = "REQUEST" /\ m.off = o /\ m.data = sum
      /\ m.aggregated /\ Contribution(m) = with.agg_count
  <2>1. next.agg_count > 0
    BY <1>2, <1>4 DEF Slot
  <2>2. /\ next.master \in RequestFrame /\ RequestDepth(next.master)
        /\ Len(next.master.locs) > 0 /\ next.owner = <<next.master.sub, next.master.off>>
    BY <1>4, <2>1 DEF ContentSound
  <2>3. with.master.off = o /\ with.master \in RequestFrame
        /\ RequestDepth(with.master) /\ Len(with.master.locs) > 0
    BY <1>4, <1>5, <2>2
  <2>4. Popped(with.master) \in RequestFrame /\ Popped(with.master).off = o
    BY <2>3, PoppedSound
  <2>5. with.agg_count \in Nat /\ with.accum \in Payloads
    BY <1>4 DEF Slot
  <2>6. m = [Popped(with.master) EXCEPT !.aggregated = TRUE, !.count = with.agg_count,
                                        !.data = with.accum]
    BY DEF MasterOf
  <2> HIDE DEF m, with
  <2>7. /\ m \in RequestFrame /\ m.type = "REQUEST" /\ m.off = o /\ m.data = with.accum
        /\ m.aggregated /\ m.count = with.agg_count
    BY <2>4, <2>5, <2>6 DEF RequestFrame
  <2> QED BY <1>6, <2>7 DEF Contribution
<1>9. sum \in Payloads
  BY <1>1, <1>2, PlusPayload
<1> HIDE DEF k, with, next, m, sum
<1>10. /\ g_slots'[R][k] = next
       /\ \A Q \in Routers, i \in SlotIds : <<Q, i>> # <<R, k>> => g_slots'[Q][i] = g_slots[Q][i]
  BY <1>2, <1>3
<1>11. OpenFor(old, o)
  BY <1>5 DEF OpenFor
<1>12. Unrepaired(o) => Once(sum, o, with.agg_count)
  <2> SUFFICES ASSUME Unrepaired(o) PROVE Once(sum, o, with.agg_count)
    OBVIOUS
  <2>1. Once(f.data, o, Contribution(f))
    BY <1>1 DEF SumsInv, FramesOnce
  <2>2. Once(old.accum, o, old.agg_count)
    BY <1>2, <1>5 DEF SumsInv, SlotsOnce
  <2>3. Apart(old.accum, f.data)
    BY <1>1, <1>2, <1>11, ApartSymmetric DEF SumsInv, FramesApartFromSlots
  <2> HIDE DEF old, o
  <2> QED BY <1>1, <1>2, <1>6, <2>1, <2>2, <2>3, PlusOnce DEF sum
\* Whatever was apart from the frame and from the slot is apart from the sum.
<1>13. ASSUME NEW h \in net, h # f, h.type = "REQUEST", h.off = o, Unrepaired(o)
       PROVE  Apart(sum, h.data) /\ Apart(h.data, sum)
  <2>1. h.data \in Payloads
    BY <1>13, SumTypes
  <2>2. Apart(f.data, h.data)
    BY <1>1, <1>13 DEF SumsInv, FramesApart
  <2>3. Apart(old.accum, h.data)
    BY <1>2, <1>11, <1>13, ApartSymmetric DEF SumsInv, FramesApartFromSlots
  <2> HIDE DEF old
  <2> QED BY <1>1, <1>2, <2>1, <2>2, <2>3, ApartPlus, ApartSymmetric DEF sum
<1>14. ASSUME NEW Q \in Routers, NEW i \in SlotIds, <<Q, i>> # <<R, k>>,
              OpenFor(g_slots[Q][i], o), Unrepaired(o)
       PROVE  Apart(sum, g_slots[Q][i].accum) /\ Apart(g_slots[Q][i].accum, sum)
  <2>1. g_slots[Q][i].accum \in Payloads
    BY SumTypes
  <2>2. Apart(f.data, g_slots[Q][i].accum)
    BY <1>1, <1>14 DEF SumsInv, FramesApartFromSlots
  <2>3. Apart(old.accum, g_slots[Q][i].accum)
    BY <1>1, <1>2, <1>11, <1>14 DEF SumsInv, SlotsApart
  <2> HIDE DEF old
  <2> QED BY <1>1, <1>2, <2>1, <2>2, <2>3, ApartPlus, ApartSymmetric DEF sum
<1>15. \A g \in net' : (g \in net /\ g # f) \/ (g = m /\ next.forwarded)
  BY <1>3, <1>7
<1>16. next.owner = old.owner /\ next.accum = sum /\ next.agg_count = with.agg_count
  BY <1>4, <1>6
<1> HIDE DEF o, old
<1>17. FramesOnce'
  <2> SUFFICES ASSUME NEW g \in net', g.type = "REQUEST", Unrepaired(g.off)
               PROVE  Once(g.data, g.off, Contribution(g))
    BY DEF FramesOnce, Unrepaired, Once
  <2>1. CASE g \in net /\ g # f
    BY <2>1 DEF SumsInv, FramesOnce
  <2>2. CASE g = m
    BY <1>8, <1>12, <2>2
  <2> QED BY <1>15, <2>1, <2>2
<1>18. SlotsOnce'
  <2> SUFFICES ASSUME NEW Q \in Routers, NEW i \in SlotIds,
                      g_slots'[Q][i].owner # NoOwner, Unrepaired(g_slots'[Q][i].owner[2])
               PROVE  Once(g_slots'[Q][i].accum, g_slots'[Q][i].owner[2], g_slots'[Q][i].agg_count)
    BY DEF SlotsOnce, Unrepaired, Once
  <2>1. CASE <<Q, i>> # <<R, k>>
    BY <1>10, <2>1 DEF SumsInv, SlotsOnce
  <2>2. CASE <<Q, i>> = <<R, k>>
    <3>1. g_slots'[Q][i] = next
      BY <1>10, <2>2
    <3> QED BY <1>5, <1>12, <1>16, <3>1
  <2> QED BY <2>1, <2>2
<1>19. FramesApart'
  <2> SUFFICES ASSUME NEW g \in net', NEW h \in net', g.type = "REQUEST", h.type = "REQUEST",
                      g # h, g.off = h.off, Unrepaired(g.off)
               PROVE  Apart(g.data, h.data)
    BY DEF FramesApart, Unrepaired
  <2>1. CASE g \in net /\ g # f /\ h \in net /\ h # f
    BY <2>1 DEF SumsInv, FramesApart
  <2>2. CASE g = m /\ h \in net /\ h # f
    BY <1>8, <1>13, <2>2
  <2>3. CASE h = m /\ g \in net /\ g # f
    BY <1>8, <1>13, <2>3
  <2> QED BY <1>15, <2>1, <2>2, <2>3
<1>20. FramesApartFromSlots'
  <2> SUFFICES ASSUME NEW g \in net', NEW Q \in Routers, NEW i \in SlotIds, g.type = "REQUEST",
                      OpenFor(g_slots'[Q][i], g.off), Unrepaired(g.off)
               PROVE  Apart(g.data, g_slots'[Q][i].accum)
    BY DEF FramesApartFromSlots, Unrepaired
  <2>1. CASE <<Q, i>> # <<R, k>>
    <3>1. g_slots'[Q][i] = g_slots[Q][i]
      BY <1>10, <2>1
    <3>2. CASE g \in net
      BY <3>1, <3>2 DEF SumsInv, FramesApartFromSlots
    <3>3. CASE g = m
      BY <1>8, <1>14, <2>1, <3>1, <3>3
    <3> QED BY <1>15, <3>2, <3>3
  <2>2. CASE <<Q, i>> = <<R, k>>
    <3>1. g_slots'[Q][i] = next
      BY <1>10, <2>2
    <3>2. g.off = o /\ ~next.forwarded
      BY <1>5, <1>16, <3>1 DEF OpenFor
    <3>3. g \in net /\ g # f
      BY <1>15, <3>2
    <3> QED BY <1>13, <1>16, <3>1, <3>2, <3>3
  <2> QED BY <2>1, <2>2
<1>21. SlotsApart'
  <2> SUFFICES ASSUME NEW Q \in Routers, NEW S \in Routers, NEW i \in SlotIds, NEW j \in SlotIds,
                      NEW p \in Offsets, <<Q, i>> # <<S, j>>, Unrepaired(p),
                      OpenFor(g_slots'[Q][i], p), OpenFor(g_slots'[S][j], p)
               PROVE  Apart(g_slots'[Q][i].accum, g_slots'[S][j].accum)
    BY DEF SlotsApart, Unrepaired
  <2>1. CASE <<Q, i>> # <<R, k>> /\ <<S, j>> # <<R, k>>
    BY <1>10, <2>1 DEF SumsInv, SlotsApart
  <2>2. CASE <<Q, i>> = <<R, k>>
    <3>1. g_slots'[Q][i] = next /\ g_slots'[S][j] = g_slots[S][j] /\ <<S, j>> # <<R, k>>
      BY <1>10, <2>2
    <3>2. p = o
      BY <1>5, <1>16, <3>1 DEF OpenFor
    <3> QED BY <1>14, <1>16, <3>1, <3>2
  <2>3. CASE <<S, j>> = <<R, k>>
    <3>1. g_slots'[S][j] = next /\ g_slots'[Q][i] = g_slots[Q][i] /\ <<Q, i>> # <<R, k>>
      BY <1>10, <2>3
    <3>2. p = o
      BY <1>5, <1>16, <3>1 DEF OpenFor
    <3> QED BY <1>14, <1>16, <3>1, <3>2
  <2> QED BY <2>1, <2>2, <2>3
<1> QED BY <1>17, <1>18, <1>19, <1>20, <1>21 DEF SumsInv

\* Every step of a router.
LEMMA RouterSums ==
    ASSUME BasicInv, SumsInv, RouterStep, UNCHANGED <<entries, offset_ring>>
    PROVE  SumsInv'
<1>1. PICK R \in Routers, f \in net :
        BindCredit(R, f) \/ PassThrough(R, f) \/ Miss(R, f) \/ Aggregate(R, f)
  BY DEF RouterStep
<1>2. CASE Miss(R, f)
  <2>1. UNCHANGED g_slots /\ \A g \in net' : g.type = "REQUEST" => g \in net
    BY <1>2 DEF Miss, routerVars, Taken, AggMiss
  <2> QED BY <2>1, SumsKept DEF Unrepaired
<1> QED BY <1>1, <1>2, BindSums, PassSums, AggregateSums

-----------------------------------------------------------------------------
(* The requesters.                                                         *)

\* What a step of a requester establishes: the sums stay sound, results are
\* stored exact, a tombstone is left only with the message complete, and what
\* is sent is the requester's own.
RequesterExact ==
    /\ SumsInv' /\ CreditsPending' /\ StoredExact'
    /\ tombstone \subseteq tombstone'
    /\ \A q \in tombstone' : requesting'[q] # "run" /\ \A o \in Offsets : stored'[q][o] # NoResult
    /\ \A g \in net' :
          \/ g \in net
          \/ g.type = "REGISTER"
          \/ g.type = "END_ACK" /\ g.src \in tombstone'
          \/ g.type \in {"REQUEST", "REPAIR_REQUEST"} /\ g.data = OwnData(g.src, g.off)

\* What a requester knows before a step.
LEMMA ExactFacts ==
    ASSUME ExactInv
    PROVE  /\ SumsInv /\ CreditsPending /\ RepairMarked /\ StoredExact
           /\ \A q \in tombstone : requesting[q] # "run" /\ \A o \in Offsets : stored[q][o] # NoResult
BY DEF ExactInv, ContributionInv, ResultInv, AcksFromClosed

\* A step that sends and accepts nothing.
LEMMA RequesterQuiet ==
    ASSUME BasicInv, ExactInv, NEW r \in Requesters,
           UNCHANGED <<g_slots, entries, stored, offset_ring, credit_q, tombstone, requesting>>,
           \A g \in net' : \/ g \in net
                           \/ g.type = "REGISTER"
                           \/ g.type = "END_ACK" /\ g.src \in tombstone'
    PROVE  RequesterExact
<1>1. SumsInv'
  BY ExactFacts, SumsKept DEF Unrepaired
<1>2. CreditsPending' /\ StoredExact'
  BY ExactFacts DEF CreditsPending, StoredExact, Unrepaired
<1> QED BY <1>1, <1>2, ExactFacts DEF RequesterExact

LEMMA RxResponseExact ==
    ASSUME BasicInv, ExactInv, NEW r \in Requesters, NEW f \in net, RxResponse(r, f),
           requesting[r] = "run", UNCHANGED <<g_slots, entries, requesting>>
    PROVE  RequesterExact
<1> DEFINE done    == Completed(r) \cup ({f.payload} \ {NoOffset})
           ignored == CreditIgnored(r, f, done)
           c       == [off |-> f.credit, sub |-> f.sub, repair |-> f.repair,
                       locs |-> IF f.repair THEN <<>> ELSE f.locs]
<1>1. f \in ResponseFrame /\ f.type = "RESPONSE"
  BY ResponseKind DEF BasicInv, RouterInv, NetSound, RxResponse, Arrives
<1>2. /\ stored \in [Requesters -> [Offsets -> Payloads \cup {NoResult}]]
      /\ offset_ring \in [Requesters -> [Offsets -> {"idle", "pending", "sent"}]]
      /\ credit_q \in [Requesters -> SUBSET Credit]
  BY RequesterFacts DEF RequesterTypeOK
<1>3. /\ stored' = IF f.payload = NoOffset THEN stored
                   ELSE [stored EXCEPT ![r][f.payload] = f.data]
      /\ net' = net \ {f} /\ UNCHANGED tombstone
  BY DEF RxResponse, Taken
<1>4. StoredExact'
  <2>1. CASE f.payload = NoOffset
    BY <1>3, <2>1, ExactFacts DEF StoredExact
  <2>2. CASE f.payload # NoOffset
    <3>1. entries[f.payload].committed /\ f.data = Exact(f.payload)
      BY <1>1, <2>2 DEF ExactInv, ResultInv, ResponsesExact
    <3>2. \A q \in Requesters, o \in Offsets :
            \/ stored'[q][o] = stored[q][o]
            \/ o = f.payload /\ stored'[q][o] = f.data
      BY <1>2, <1>3, <2>2
    <3> QED BY <3>1, <3>2, ExactFacts DEF StoredExact
  <2> QED BY <2>1, <2>2
<1>5. \A q \in tombstone' : requesting'[q] # "run" /\ \A o \in Offsets : stored'[q][o] # NoResult
  <2> SUFFICES ASSUME NEW q \in tombstone
               PROVE  requesting[q] # "run" /\ \A o \in Offsets : stored'[q][o] # NoResult
    BY <1>3
  <2>1. requesting[q] # "run" /\ (\A o \in Offsets : stored[q][o] # NoResult) /\ q # r
    BY ExactFacts
  <2>2. q \in Requesters
    BY RequesterFacts DEF RequesterTypeOK
  <2>3. stored'[q] = stored[q]
    BY <1>2, <1>3, <2>1, <2>2
  <2> QED BY <2>1, <2>3
<1>6. SumsInv' /\ CreditsPending'
  <2>1. CASE ignored
    <3>1. UNCHANGED <<offset_ring, credit_q>>
      BY <2>1 DEF RxResponse
    <3>2. SumsInv'
      BY <1>3, <3>1, ExactFacts, SumsKept DEF Unrepaired
    <3> QED BY <3>1, <3>2, ExactFacts DEF CreditsPending, Unrepaired
  <2>2. CASE ~ignored
    <3>1. /\ f.credit # NoOffset /\ f.credit \in Offsets
          /\ ~f.repair => offset_ring[r][f.credit] = "idle"
      BY <1>1, <2>2 DEF CreditIgnored, ResponseFrame, OffsetOpt
    <3>2. f.repair => ~Unrepaired(f.credit)
      BY <1>1, <3>1, ExactFacts DEF RepairMarked, Unrepaired
    <3>3. /\ offset_ring' = [offset_ring EXCEPT ![r][f.credit] =
                               IF f.repair THEN "idle" ELSE "pending"]
          /\ credit_q' = [credit_q EXCEPT ![r] = credit_q[r] \cup {c}]
      BY <2>2 DEF RxResponse
    <3>4. c.off = f.credit /\ c.repair = f.repair
      OBVIOUS
    <3> HIDE DEF c
    <3>5. /\ offset_ring'[r][f.credit] = IF f.repair THEN "idle" ELSE "pending"
          /\ \A q \in Requesters, o \in Offsets :
                offset_ring'[q][o] = offset_ring[q][o] \/ (q = r /\ o = f.credit)
      BY <1>2, <3>1, <3>3
    <3>6. /\ credit_q'[r] = credit_q[r] \cup {c}
          /\ \A q \in Requesters : q # r => credit_q'[q] = credit_q[q]
      BY <1>2, <3>3
    <3>7. \A q \in Requesters, o \in Offsets :
            Unrepaired(o) /\ offset_ring[q][o] = "sent" => offset_ring'[q][o] = "sent"
      BY <3>1, <3>2, <3>5
    <3>8. SumsInv'
      BY <1>3, <3>7, ExactFacts, SumsKept DEF Unrepaired
    <3>9. CreditsPending'
      <4> SUFFICES ASSUME NEW q \in Requesters, NEW d \in credit_q'[q], Unrepaired(d.off)
                   PROVE  /\ ~d.repair /\ offset_ring'[q][d.off] = "pending"
                          /\ \A e \in credit_q'[q] : e.off = d.off => e = d
        BY DEF CreditsPending, Unrepaired
      <4>1. CASE q # r
        <5>1. credit_q'[q] = credit_q[q] /\ d \in credit_q[q] /\ d.off \in Offsets
          BY <3>6, <4>1, RequesterFacts DEF Credit
        <5> QED BY <3>5, <4>1, <5>1, ExactFacts DEF CreditsPending
      <4>2. CASE q = r /\ d.off = f.credit
        <5>1. ~f.repair /\ offset_ring[r][f.credit] = "idle"
          BY <3>1, <3>2, <4>2
        <5>2. \A e \in credit_q[r] : e.off # f.credit
          BY <4>2, <5>1, ExactFacts DEF CreditsPending
        <5>3. d = c /\ \A e \in credit_q'[r] : e.off = f.credit => e = c
          BY <3>6, <4>2, <5>2
        <5> QED BY <3>4, <3>5, <4>2, <5>1, <5>3
      <4>3. CASE q = r /\ d.off # f.credit
        <5>1. d \in credit_q[r] /\ d.off \in Offsets
          BY <3>4, <3>6, <4>3, RequesterFacts DEF Credit
        <5>2. /\ ~d.repair /\ offset_ring[r][d.off] = "pending"
              /\ \A e \in credit_q[r] : e.off = d.off => e = d
          BY <5>1, ExactFacts DEF CreditsPending
        <5>3. \A e \in credit_q'[r] : e.off = d.off => e \in credit_q[r]
          BY <3>4, <3>6, <4>3
        <5> QED BY <3>5, <4>3, <5>1, <5>2, <5>3
      <4> QED BY <4>1, <4>2, <4>3
    <3> QED BY <3>8, <3>9
  <2> QED BY <2>1, <2>2
<1> QED BY <1>3, <1>4, <1>5, <1>6 DEF RequesterExact

\* An answer to a packet that has not switched to repair is the only one of its
\* requester, and the first.
LEMMA AnswerFacts ==
    ASSUME BasicInv, ExactInv, NEW r \in Requesters, offset_ring' = RingAnswered(r)
    PROVE  /\ \A q \in Requesters, o \in Offsets :
                 offset_ring'[q][o] = IF q = r /\ \E c \in credit_q[r] : c.off = o /\ ~c.repair
                                      THEN "sent" ELSE offset_ring[q][o]
           /\ \A q \in Requesters, o \in Offsets :
                 offset_ring[q][o] = "sent" => offset_ring'[q][o] = "sent"
           /\ \A g \in Answered(r) :
                 /\ g.type \in {"REQUEST", "REPAIR_REQUEST"}
                 /\ g.data = OwnData(r, g.off) /\ g.src = r
                 /\ \E c \in credit_q[r] : c.off = g.off
           /\ \A g \in Answered(r) : g.type = "REQUEST" /\ Unrepaired(g.off) =>
                 /\ g.off \in Offsets /\ Contribution(g) = 1
                 /\ offset_ring[r][g.off] # "sent" /\ offset_ring'[r][g.off] = "sent"
                 /\ \A h \in Answered(r) : h.type = "REQUEST" /\ h.off = g.off => h = g
<1>1. /\ offset_ring \in [Requesters -> [Offsets -> {"idle", "pending", "sent"}]]
      /\ credit_q \in [Requesters -> SUBSET Credit]
  BY RequesterFacts DEF RequesterTypeOK
<1>2. \A q \in Requesters, o \in Offsets :
        offset_ring'[q][o] = IF q = r /\ \E c \in credit_q[r] : c.off = o /\ ~c.repair
                             THEN "sent" ELSE offset_ring[q][o]
  <2> DEFINE ring == [o \in Offsets |->
                       IF \E c \in credit_q[r] : c.off = o /\ ~c.repair THEN "sent"
                       ELSE offset_ring[r][o]]
  <2>1. offset_ring' = [offset_ring EXCEPT ![r] = ring]
    BY <1>1 DEF RingAnswered
  <2>2. \A o \in Offsets : ring[o] = IF \E c \in credit_q[r] : c.off = o /\ ~c.repair THEN "sent"
                                     ELSE offset_ring[r][o]
    OBVIOUS
  <2> HIDE DEF ring
  <2>3. offset_ring'[r] = ring /\ \A q \in Requesters : q # r => offset_ring'[q] = offset_ring[q]
    BY <1>1, <2>1
  <2> QED BY <2>2, <2>3
<1>3. ASSUME NEW g \in Answered(r)
      PROVE  \E c \in credit_q[r] :
               /\ g \in RequestFrames(r, c) /\ c \in Credit /\ g.src = r
               /\ g.off = c.off /\ g.data = OwnData(r, c.off)
               /\ c.repair => g.type = "REPAIR_REQUEST"
               /\ ~c.repair => g.type = "REQUEST" /\ ~g.aggregated
  <2>1. PICK c \in credit_q[r] : g \in RequestFrames(r, c)
    BY DEF Answered
  <2>2. c \in Credit
    BY <1>1
  <2> QED BY <2>1, <2>2, AnswerFrames
<1>4. ASSUME NEW g \in Answered(r), g.type = "REQUEST", Unrepaired(g.off)
      PROVE  /\ g.off \in Offsets /\ Contribution(g) = 1
             /\ offset_ring[r][g.off] # "sent" /\ offset_ring'[r][g.off] = "sent"
             /\ \A h \in Answered(r) : h.type = "REQUEST" /\ h.off = g.off => h = g
  <2>1. PICK c \in credit_q[r] :
          /\ g \in RequestFrames(r, c) /\ c \in Credit /\ ~c.repair
          /\ g.off = c.off /\ ~g.aggregated
    BY <1>3, <1>4
  <2>2. offset_ring[r][c.off] = "pending" /\ \A d \in credit_q[r] : d.off = c.off => d = c
    BY <1>4, <2>1, ExactFacts DEF CreditsPending
  <2>3. c.off \in Offsets
    BY <2>1 DEF Credit
  <2>4. offset_ring'[r][c.off] = "sent"
    BY <1>2, <2>1, <2>3
  <2>5. \A h \in Answered(r) : h.off = g.off => h \in RequestFrames(r, c)
    BY <1>3, <2>1, <2>2
  <2>6. \A h, k \in RequestFrames(r, c) : h = k
    BY DEF RequestFrames
  <2> QED BY <2>1, <2>2, <2>3, <2>4, <2>5, <2>6 DEF Contribution
<1>5. \A g \in Answered(r) :
        /\ g.type \in {"REQUEST", "REPAIR_REQUEST"} /\ g.data = OwnData(r, g.off) /\ g.src = r
        /\ \E c \in credit_q[r] : c.off = g.off
  BY <1>3
<1> QED BY <1>2, <1>4, <1>5

\* The answers of a requester are new sums of one contribution each, apart
\* from all others: while its credit waits, its fragment is nowhere else.
LEMMA AnswerSums ==
    ASSUME BasicInv, ExactInv, NEW r \in Requesters, UNCHANGED <<g_slots, entries>>,
           offset_ring' = RingAnswered(r),
           \A g \in net' : g.type = "REQUEST" => g \in net \/ g \in Answered(r)
    PROVE  SumsInv'
<1>1. /\ \A q \in Requesters, o \in Offsets :
            offset_ring[q][o] = "sent" => offset_ring'[q][o] = "sent"
      /\ \A g \in Answered(r) : g.type = "REQUEST" /\ Unrepaired(g.off) =>
            /\ g.off \in Offsets /\ g.data = OwnData(r, g.off) /\ Contribution(g) = 1
            /\ offset_ring[r][g.off] # "sent" /\ offset_ring'[r][g.off] = "sent"
            /\ \A h \in Answered(r) : h.type = "REQUEST" /\ h.off = g.off => h = g
  BY AnswerFacts
<1>2. ASSUME NEW o \in Offsets, NEW data, NEW n, Once(data, o, n) PROVE Once(data, o, n)'
  <2>1. \A q \in Requesters : offset_ring[q][o] = "sent" => offset_ring'[q][o] = "sent"
    BY <1>1
  <2> QED BY <1>2, <2>1, OnceKept
<1>3. ASSUME NEW o \in Offsets, offset_ring[r][o] # "sent", NEW data, NEW n, Once(data, o, n)
      PROVE  Apart(OwnData(r, o), data) /\ Apart(data, OwnData(r, o))
  <2>1. \A x \in Fragments : x # <<r, o>> => OwnData(r, o)[x] = 0
    BY DEF OwnData, Fragment, Zero
  <2>2. data[<<r, o>>] = 0
    <3>1. <<r, o>> \in Fragments
      BY FragmentOf
    <3>2. data[<<r, o>>] # 1
      BY <1>3 DEF Once, Givers
    <3> QED BY <1>3, <3>1, <3>2 DEF Once
  <2> QED BY <2>1, <2>2 DEF Apart
<1>4. FramesOnce'
  <2> SUFFICES ASSUME NEW g \in net', g.type = "REQUEST", Unrepaired(g.off)
               PROVE  Once(g.data, g.off, Contribution(g))'
    BY DEF FramesOnce, Unrepaired
  <2>1. CASE g \in net
    <3>1. g.off \in Offsets /\ Once(g.data, g.off, Contribution(g))
      BY <2>1, SumTypes, ExactFacts DEF SumsInv, FramesOnce
    <3> QED BY <1>2, <3>1
  <2>2. CASE g \in Answered(r)
    <3>1. PICK o, d :
            /\ o \in Offsets /\ o = g.off /\ d = g.data /\ d = OwnData(r, o)
            /\ Contribution(g) = 1 /\ offset_ring'[r][o] = "sent"
      BY <1>1, <2>2
    <3>2. /\ \A x \in Fragments : d[x] = 0 \/ d[x] = 1
          /\ \A x \in Fragments : d[x] = 1 => x[1] = r /\ x[2] = o
          /\ \A q \in Givers(d, o) : q = r
          /\ Pull => 1 = Cardinality(Givers(d, o))
      BY <3>1, OwnGiver
    <3>3. Once(d, o, 1)'
      BY <3>1, <3>2 DEF Once, Givers
    <3> QED BY <3>1, <3>3
  <2> QED BY <2>1, <2>2
<1>5. SlotsOnce'
  <2> SUFFICES ASSUME NEW R \in Routers, NEW i \in SlotIds, NEW o, NEW a, NEW n,
                      g_slots[R][i].owner # NoOwner, o = g_slots[R][i].owner[2],
                      a = g_slots[R][i].accum, n = g_slots[R][i].agg_count, Unrepaired(o)
               PROVE  Once(a, o, n)'
    BY DEF SlotsOnce, Unrepaired
  <2>1. o \in Offsets
    BY SumTypes
  <2>2. Once(a, o, n)
    BY <2>1, ExactFacts DEF SumsInv, SlotsOnce
  <2> QED BY <1>2, <2>1, <2>2
<1>6. FramesApart'
  <2> SUFFICES ASSUME NEW g \in net', NEW h \in net', g.type = "REQUEST", h.type = "REQUEST",
                      g # h, g.off = h.off, Unrepaired(g.off)
               PROVE  Apart(g.data, h.data)
    BY DEF FramesApart, Unrepaired
  <2>1. CASE g \in net /\ h \in net
    BY <2>1, ExactFacts DEF SumsInv, FramesApart
  <2>2. CASE g \in Answered(r) /\ h \in Answered(r)
    BY <1>1, <2>2
  <2>3. CASE g \in Answered(r) /\ h \in net
    <3>1. Once(h.data, h.off, Contribution(h))
      BY <2>3, ExactFacts DEF SumsInv, FramesOnce
    <3>2. g.off \in Offsets /\ g.data = OwnData(r, g.off) /\ offset_ring[r][g.off] # "sent"
      BY <1>1, <2>3
    <3> QED BY <1>3, <3>1, <3>2
  <2>4. CASE g \in net /\ h \in Answered(r)
    <3>1. Once(g.data, g.off, Contribution(g))
      BY <2>4, ExactFacts DEF SumsInv, FramesOnce
    <3>2. h.off \in Offsets /\ h.data = OwnData(r, h.off) /\ offset_ring[r][h.off] # "sent"
      BY <1>1, <2>4
    <3> QED BY <1>3, <3>1, <3>2
  <2> QED BY <2>1, <2>2, <2>3, <2>4
<1>7. FramesApartFromSlots'
  <2> SUFFICES ASSUME NEW g \in net', NEW R \in Routers, NEW i \in SlotIds, g.type = "REQUEST",
                      OpenFor(g_slots[R][i], g.off), Unrepaired(g.off)
               PROVE  Apart(g.data, g_slots[R][i].accum)
    BY DEF FramesApartFromSlots, Unrepaired
  <2>1. CASE g \in net
    BY <2>1, ExactFacts DEF SumsInv, FramesApartFromSlots
  <2>2. CASE g \in Answered(r)
    <3>1. Once(g_slots[R][i].accum, g.off, g_slots[R][i].agg_count)
      BY ExactFacts DEF SumsInv, SlotsOnce, OpenFor
    <3>2. g.off \in Offsets /\ g.data = OwnData(r, g.off) /\ offset_ring[r][g.off] # "sent"
      BY <1>1, <2>2
    <3> QED BY <1>3, <3>1, <3>2
  <2> QED BY <2>1, <2>2
<1>8. SlotsApart'
  BY ExactFacts DEF SumsInv, SlotsApart, Unrepaired
<1> QED BY <1>4, <1>5, <1>6, <1>7, <1>8 DEF SumsInv

\* What the answers add to a step of their requester.
LEMMA AnswerExact ==
    ASSUME BasicInv, ExactInv, NEW r \in Requesters, UNCHANGED <<g_slots, entries, stored>>,
           offset_ring' = RingAnswered(r), credit_q' = [credit_q EXCEPT ![r] = {}],
           tombstone \subseteq tombstone',
           \A q \in tombstone' : requesting'[q] # "run" /\ \A o \in Offsets : stored[q][o] # NoResult,
           \A g \in net' : \/ g \in net \/ g \in Answered(r)
                           \/ g.type = "REGISTER"
                           \/ g.type = "END_ACK" /\ g.src \in tombstone'
    PROVE  RequesterExact
<1>1. SumsInv'
  BY AnswerSums
<1>2. CreditsPending'
  <2>1. /\ offset_ring \in [Requesters -> [Offsets -> {"idle", "pending", "sent"}]]
        /\ credit_q \in [Requesters -> SUBSET Credit]
    BY RequesterFacts DEF RequesterTypeOK
  <2>2. \A q \in Requesters : q # r => credit_q'[q] = credit_q[q] /\ offset_ring'[q] = offset_ring[q]
    BY <2>1 DEF RingAnswered
  <2>3. credit_q'[r] = {}
    BY <2>1
  <2> QED BY <2>2, <2>3, ExactFacts DEF CreditsPending, Unrepaired
<1>3. \A g \in Answered(r) : /\ g.type \in {"REQUEST", "REPAIR_REQUEST"}
                             /\ g.data = OwnData(g.src, g.off)
  <2> SUFFICES ASSUME NEW g \in Answered(r)
               PROVE  /\ g.type \in {"REQUEST", "REPAIR_REQUEST"}
                      /\ g.data = OwnData(g.src, g.off)
    OBVIOUS
  <2>1. PICK c \in credit_q[r] : g \in RequestFrames(r, c)
    BY DEF Answered
  <2>2. c \in Credit
    BY RequesterFacts
  <2> QED BY <2>1, <2>2, AnswerFrames
<1>4. StoredExact'
  BY ExactFacts DEF StoredExact
<1> QED BY <1>1, <1>2, <1>3, <1>4 DEF RequesterExact

\* The END_ACKs of a requester that leaves its tombstone.
LEMMA EndAckSrc ==
    ASSUME NEW r \in Requesters, NEW g \in EndAcks(r)
    PROVE  g.type = "END_ACK" /\ g.src = r
BY DEF EndAcks, EndAck

LEMMA FinishExact ==
    ASSUME BasicInv, ExactInv, NEW r \in Requesters, Finish(r), UNCHANGED <<g_slots, entries>>
    PROVE  RequesterExact
<1>1. /\ net' = net \cup EndAcks(r) /\ tombstone' = tombstone \cup {r}
      /\ requesting' = [requesting EXCEPT ![r] = "ok"]
      /\ UNCHANGED <<stored, offset_ring, credit_q>>
  BY DEF Finish
<1>2. \A o \in Offsets : stored[r][o] # NoResult
  BY DEF Finish, ReadyToFinish, Completed
<1>3. requesting \in [Requesters -> {"run", "ok", "failed"}] /\ tombstone \subseteq Requesters
  BY RequesterFacts DEF RequesterTypeOK
<1>4. \A q \in tombstone' : requesting'[q] # "run" /\ \A o \in Offsets : stored'[q][o] # NoResult
  BY <1>1, <1>2, <1>3, ExactFacts
<1>5. SumsInv'
  <2>1. \A g \in net' : g.type = "REQUEST" => g \in net
    BY <1>1, EndAckSrc
  <2> QED BY <1>1, <2>1, ExactFacts, SumsKept DEF Unrepaired
<1>6. CreditsPending' /\ StoredExact'
  BY <1>1, ExactFacts DEF CreditsPending, StoredExact, Unrepaired
<1> QED BY <1>1, <1>4, <1>5, <1>6, EndAckSrc DEF RequesterExact

LEMMA FailRegisterExact ==
    ASSUME BasicInv, ExactInv, NEW r \in Requesters, FailRegister(r), UNCHANGED <<g_slots, entries>>
    PROVE  RequesterExact
<1>1. PICK beacons :
        net' = net \cup {Register(r, s) : s \in beacons} \cup Answered(r)
                   \cup (IF ReadyToFinish(r) THEN EndAcks(r) ELSE {})
  BY DEF FailRegister
<1>2. /\ offset_ring' = RingAnswered(r) /\ credit_q' = [credit_q EXCEPT ![r] = {}]
      /\ tombstone' = IF ReadyToFinish(r) THEN tombstone \cup {r} ELSE tombstone
      /\ requesting' = [requesting EXCEPT ![r] = "failed"] /\ UNCHANGED stored
  BY DEF FailRegister
<1>3. ReadyToFinish(r) => \A o \in Offsets : stored[r][o] # NoResult
  BY DEF ReadyToFinish, Completed
<1>4. requesting \in [Requesters -> {"run", "ok", "failed"}] /\ tombstone \subseteq Requesters
  BY RequesterFacts DEF RequesterTypeOK
<1>5. \A q \in tombstone' : requesting'[q] # "run" /\ \A o \in Offsets : stored[q][o] # NoResult
  BY <1>2, <1>3, <1>4, ExactFacts
<1>6. ASSUME NEW g \in net'
      PROVE  \/ g \in net \/ g \in Answered(r)
             \/ g.type = "REGISTER"
             \/ g.type = "END_ACK" /\ g.src \in tombstone'
  <2>1. \A s \in beacons : Register(r, s).type = "REGISTER"
    BY DEF Register
  <2> QED BY <1>1, <1>2, <2>1, EndAckSrc
<1>7. tombstone \subseteq tombstone'
  BY <1>2
<1> QED BY <1>2, <1>5, <1>6, <1>7, AnswerExact

\* Every step of a requester.
LEMMA RequesterExactStep ==
    ASSUME BasicInv, ExactInv, NEW r \in Requesters, RequesterNext(r)
    PROVE  RequesterExact
<1>1. UNCHANGED <<g_slots, entries>>
  BY DEF RequesterNext, routerVars, responderVars
<1>2. CASE requesting[r] = "run" /\ UNCHANGED requesting /\ \E f \in net : RxResponse(r, f)
  BY <1>1, <1>2, RxResponseExact
<1>3. CASE UNCHANGED requesting /\ \E f \in net : RxRegisterAck(r, f) \/ RxEnd(r, f)
  <2>1. UNCHANGED <<stored, offset_ring, credit_q, tombstone>> /\ \A g \in net' : g \in net
    BY <1>3 DEF RxRegisterAck, RxEnd, Taken
  <2> QED BY <1>1, <1>3, <2>1, RequesterQuiet
<1>4. CASE SendRegister(r) /\ UNCHANGED requesting
  <2>1. /\ UNCHANGED <<stored, offset_ring, credit_q, tombstone>>
        /\ \A g \in net' : g \in net \/ g.type = "REGISTER"
    BY <1>4 DEF SendRegister, Register
  <2> QED BY <1>1, <1>4, <2>1, RequesterQuiet
<1>5. CASE \E f \in net : AckTombstonedEnd(r, f)
  <2>1. /\ UNCHANGED requesterVars /\ r \in tombstone
        /\ \A g \in net' : g \in net \/ (g.type = "END_ACK" /\ g.src = r)
    BY <1>5 DEF AckTombstonedEnd, Taken, EndAck
  <2> QED BY <1>1, <2>1, RequesterQuiet DEF requesterVars
<1>6. CASE SendRequests(r) /\ UNCHANGED requesting
  <2>1. /\ net' = net \cup Answered(r) /\ offset_ring' = RingAnswered(r)
        /\ credit_q' = [credit_q EXCEPT ![r] = {}] /\ UNCHANGED <<stored, tombstone>>
    BY <1>6 DEF SendRequests
  <2> QED BY <1>1, <1>6, <2>1, ExactFacts, AnswerExact
<1>7. CASE Finish(r)
  BY <1>1, <1>7, FinishExact
<1>8. CASE FailRegister(r)
  BY <1>1, <1>8, FailRegisterExact
<1> QED BY <1>2, <1>3, <1>4, <1>5, <1>6, <1>7, <1>8
        DEF RequesterNext, RequesterWork, RequesterTimer

-----------------------------------------------------------------------------
(* The responder.                                                          *)

\* A new frame of the responder carries no result that is not fixed, and asks
\* for a repair only of a packet in repair.
SentExact(g) ==
    \/ g.type \in {"REGISTER_ACK", "END"}
    \/ /\ g.type = "RESPONSE"
       /\ g.payload # NoOffset => entries'[g.payload].committed /\ g.data = Exact(g.payload)
       /\ g.repair /\ g.credit # NoOffset => entries'[g.credit].repair_mode

\* What a step of the responder establishes: what it commits is exact, and
\* commitment and repair are for good.
ResponderExact ==
    /\ SumsInv' /\ RepairSum' /\ ExactResult' /\ QueuedCommitted'
    /\ \A o \in Offsets : /\ entries[o].committed => entries'[o].committed
                          /\ entries[o].repair_mode => entries'[o].repair_mode
    /\ \E o \in Offsets : \A x \in Offsets : x # o =>
          entries'[x].committed = entries[x].committed
    /\ meta'.end_ack_mask \subseteq tombstone
    /\ \A g \in net' : g \in net \/ SentExact(g)

\* The responder's fragment and those of all requesters are the exact result.
LEMMA AllSummed ==
    ASSUME NEW o \in Offsets, NEW a \in Payloads,
           \A x \in Fragments : a[x] = IF Pull /\ x[2] = o /\ x[1] \in Requesters THEN 1 ELSE 0
    PROVE  Plus(Fragment(Responder, o), a) = Exact(o)
<1>1. ASSUME NEW x \in Fragments
      PROVE  Fragment(Responder, o)[x] + a[x]
               = IF x[2] = o /\ (Pull \/ x[1] = Responder) THEN 1 ELSE 0
  <2>1. PICK h \in Hosts, p \in Offsets : x = <<h, p>>
    BY DEF Fragments
  <2>2. Fragment(Responder, o)[x] = IF h = Responder /\ p = o THEN 1 ELSE 0
    BY <2>1 DEF Fragment
  <2>3. a[x] = IF Pull /\ p = o /\ h \in Requesters THEN 1 ELSE 0
    BY <2>1
  <2>4. h \in Requesters <=> h # Responder
    BY ArborNetAssumption DEF Hosts
  <2> QED BY <2>1, <2>2, <2>3, <2>4
<1> QED BY <1>1 DEF Plus, Exact

\* A push result is the responder's fragment alone.
LEMMA PushExact ==
    ASSUME ~Pull, NEW o \in Offsets
    PROVE  Fragment(Responder, o) = Exact(o)
<1>1. \A x \in Fragments : x = <<Responder, o>> <=> x[2] = o /\ x[1] = Responder
  BY DEF Fragments
<1> QED BY <1>1 DEF Fragment, Exact

\* The sum of a repaired entry with one more requester.
LEMMA RepairedBySum ==
    ASSUME NEW o \in Offsets, NEW e \in Entry, Summed(e, o),
           NEW f, f.src \in Requesters, f.data = OwnData(f.src, o)
    PROVE  Summed(RepairedBy(e, f), o)
<1>1. CASE f.src \in e.repair_bitmap
  BY <1>1 DEF RepairedBy
<1>2. CASE f.src \notin e.repair_bitmap
  <2> DEFINE a == Plus(e.repair_accum, f.data)
             b == e.repair_bitmap \cup {f.src}
  <2>1. RepairedBy(e, f) = [e EXCEPT !.repair_bitmap = b, !.repair_accum = a]
    BY <1>2 DEF RepairedBy, Entry
  <2>2. \A x \in Fragments : e.repair_accum[x] + f.data[x] =
          IF Pull /\ x[2] = o /\ x[1] \in b THEN 1 ELSE 0
    <3> SUFFICES ASSUME NEW x \in Fragments
                 PROVE  e.repair_accum[x] + f.data[x] =
                          IF Pull /\ x[2] = o /\ x[1] \in b THEN 1 ELSE 0
      OBVIOUS
    <3>1. PICK h \in Hosts, p \in Offsets : x = <<h, p>>
      BY DEF Fragments
    <3>2. e.repair_accum[x] = IF Pull /\ p = o /\ h \in e.repair_bitmap THEN 1 ELSE 0
      BY <3>1 DEF Summed
    <3>3. f.data[x] = IF Pull /\ p = o /\ h = f.src THEN 1 ELSE 0
      BY <3>1 DEF OwnData, Fragment, Zero
    <3> QED BY <1>2, <3>1, <3>2, <3>3
  <2>3. a = [x \in Fragments |-> IF Pull /\ x[2] = o /\ x[1] \in b THEN 1 ELSE 0]
    BY <2>2 DEF Plus
  <2> HIDE DEF a, b
  <2>4. RepairedBy(e, f).repair_bitmap = b /\ RepairedBy(e, f).repair_accum = a
    BY <2>1 DEF Entry
  <2> QED BY <2>3, <2>4 DEF Summed
<1> QED BY <1>1, <1>2

\* What the responder knows before a step.
LEMMA ResultFacts ==
    ASSUME BasicInv, ExactInv
    PROVE  /\ SumsInv /\ RepairSum /\ ExactResult /\ QueuedCommitted
           /\ meta.end_ack_mask \subseteq tombstone
           /\ entries \in [Offsets -> Entry] /\ pending \in Seq(Offsets) /\ meta \in Meta
           /\ \A i \in DOMAIN pending : pending[i] \in Offsets
<1>1. pending \in Seq(Offsets)
  BY DEF BasicInv, TypeOK, ResponderTypeOK
<1>2. \A i \in DOMAIN pending : pending[i] \in Offsets
  BY <1>1, LenProperties, ElementOfSeq
<1> QED BY <1>1, <1>2 DEF ExactInv, ContributionInv, ResultInv, AcksFromClosed,
                          BasicInv, TypeOK, ResponderTypeOK

\* END is no result.
LEMMA EndExact ==
    ASSUME NEW g \in EndFrames
    PROVE  SentExact(g)
BY DEF EndFrames, ToAll, End, SentExact

\* The result of a committed packet.
LEMMA ResultFrameExact ==
    ASSUME ExactResult', NEW o \in Offsets, entries'[o].committed, entries'[o].result = entries[o].result,
           NEW rep, NEW g \in ResultFrames(o, rep)
    PROVE  SentExact(g)
<1>1. PICK r \in Requesters :
        g = [type |-> "RESPONSE", dst |-> r, sub |-> entries[o].sub, credit |-> NoOffset,
             payload |-> o, data |-> entries[o].result, repair |-> rep, locs |-> <<>>,
             copy |-> FALSE]
  BY DEF ResultFrames, ToAll, Response
<1>2. /\ g.type = "RESPONSE" /\ g.payload = o /\ g.credit = NoOffset
      /\ g.data = entries[o].result
  BY <1>1
<1>3. entries[o].result = Exact(o)
  BY DEF ExactResult
<1> QED BY <1>2, <1>3 DEF SentExact

\* A step that leaves the entries alone.
LEMMA EntriesKept ==
    ASSUME BasicInv, ExactInv, UNCHANGED <<entries, g_slots, offset_ring>>,
           \A i \in DOMAIN pending' : \E j \in DOMAIN pending : pending'[i] = pending[j],
           meta'.end_ack_mask \subseteq tombstone,
           \A g \in net' : g \in net \/ SentExact(g)
    PROVE  ResponderExact
<1>1. SumsInv'
  <2>1. \A g \in net' : g.type = "REQUEST" => g \in net
    BY DEF SentExact
  <2> QED BY <2>1, ResultFacts, SumsKept DEF Unrepaired
<1>2. RepairSum' /\ ExactResult' /\ QueuedCommitted'
  BY ResultFacts DEF RepairSum, ExactResult, QueuedCommitted, Summed
<1>3. 0 \in Offsets
  BY ArborNetAssumption DEF Offsets
<1> QED BY <1>1, <1>2, <1>3 DEF ResponderExact

\* A step that changes the entry of one packet, and binds it to no other.
LEMMA OneEntry ==
    ASSUME BasicInv, ExactInv, NEW o \in Offsets, NEW e, entries' = [entries EXCEPT ![o] = e],
           Summed(e, o), e.committed => e.result = Exact(o),
           entries[o].committed => e.committed,
           entries[o].repair_mode => e.repair_mode,
           \/ e.bound_payload = entries[o].bound_payload
           \/ e.bound_payload = o /\ e.committed,
           \A i \in DOMAIN pending' :
              \/ \E j \in DOMAIN pending : pending'[i] = pending[j]
              \/ pending'[i] = o /\ e.committed,
           UNCHANGED <<g_slots, offset_ring>>, meta'.end_ack_mask \subseteq tombstone,
           \A g \in net' : g \in net \/ SentExact(g)
    PROVE  ResponderExact
<1>1. entries'[o] = e /\ \A x \in Offsets : x # o => entries'[x] = entries[x]
  BY ResultFacts
<1>2. \A x \in Offsets : /\ entries[x].committed => entries'[x].committed
                         /\ entries[x].repair_mode => entries'[x].repair_mode
  BY <1>1
<1>3. SumsInv'
  <2>1. \A g \in net' : g.type = "REQUEST" => g \in net
    BY DEF SentExact
  <2>2. \A x \in Offsets : Unrepaired(x)' => Unrepaired(x)
    BY <1>2 DEF Unrepaired
  <2> QED BY <2>1, <2>2, ResultFacts, SumsKept
<1>4. RepairSum'
  BY <1>1, ResultFacts DEF RepairSum, Summed
<1>5. ExactResult'
  BY <1>1, ResultFacts DEF ExactResult
<1>6. QueuedCommitted'
  <2>1. \A i \in DOMAIN pending' : entries'[pending'[i]].committed
    BY <1>1, <1>2, ResultFacts DEF QueuedCommitted
  <2>2. ASSUME NEW x \in Offsets, entries'[x].bound_payload # NoOffset
        PROVE  entries'[entries'[x].bound_payload].committed
    <3>1. CASE entries'[x].bound_payload = entries[x].bound_payload
      <4>1. entries[x].bound_payload \in Offsets
        BY <2>2, <3>1, ResultFacts DEF Entry, OffsetOpt
      <4>2. entries[entries[x].bound_payload].committed
        BY <2>2, <3>1, ResultFacts DEF QueuedCommitted
      <4> QED BY <1>2, <3>1, <4>1, <4>2
    <3>2. CASE x = o /\ e.bound_payload = o /\ e.committed
      BY <1>1, <3>2
    <3> QED BY <1>1, <3>1, <3>2
  <2> QED BY <2>1, <2>2 DEF QueuedCommitted
<1> QED BY <1>1, <1>2, <1>3, <1>4, <1>5, <1>6, ResultFacts DEF ResponderExact

\* commit_entry_response on an exact sum.
LEMMA CommitExact ==
    ASSUME BasicInv, ExactInv, NEW o \in Offsets, NEW e \in Entry, NEW sum \in Payloads,
           NEW frames \in SUBSET net, Summed(e, o),
           Plus(Fragment(Responder, o), sum) = Exact(o),
           e.repair_mode = entries[o].repair_mode, e.bound_payload = entries[o].bound_payload,
           Commit(o, e, sum, frames), UNCHANGED <<g_slots, offset_ring, meta>>
    PROVE  ResponderExact
<1> DEFINE n == [e EXCEPT !.committed = TRUE, !.done = TRUE,
                          !.result = Plus(Fragment(Responder, o), sum)]
<1>1. /\ entries' = [entries EXCEPT ![o] = n] /\ pending' = Append(pending, o)
      /\ net' \subseteq frames \cup EndFrames
  BY DEF Commit, EndTail
<1>2. /\ n.committed /\ n.result = Exact(o) /\ n.repair_mode = e.repair_mode
      /\ n.bound_payload = e.bound_payload /\ n.repair_accum = e.repair_accum
      /\ n.repair_bitmap = e.repair_bitmap
  BY DEF Entry
<1> HIDE DEF n
<1>3. Summed(n, o)
  BY <1>2 DEF Summed
<1>4. \A i \in DOMAIN pending' :
        (\E j \in DOMAIN pending : pending'[i] = pending[j]) \/ pending'[i] = o
  BY <1>1, ResultFacts, AppendProperties, LenProperties
<1>5. \A g \in net' : g \in net \/ SentExact(g)
  BY <1>1, EndExact
<1> QED BY <1>1, <1>2, <1>3, <1>4, <1>5, ResultFacts, OneEntry

LEMMA RxRegisterExact ==
    ASSUME BasicInv, ExactInv, NEW f \in net, RxRegister(f), UNCHANGED <<g_slots, offset_ring>>
    PROVE  ResponderExact
<1>1. UNCHANGED <<entries, pending>> /\ net' = net \ {f}
  BY DEF RxRegister, Taken
<1>2. meta'.end_ack_mask \in {{}, meta.end_ack_mask}
  <2>1. meta \in Meta
    BY ResultFacts
  <2>2. FreshMeta.end_ack_mask = {}
    BY DEF FreshMeta
  <2>3. Upserted.end_ack_mask \in {{}, meta.end_ack_mask}
    BY <2>1 DEF Upserted, FreshMeta, Meta
  <2> DEFINE m == [Upserted EXCEPT !.registered_bitmap[f.sub] = @ \cup {f.src}]
  <2>4. m.end_ack_mask = Upserted.end_ack_mask
    BY <2>1 DEF Upserted, FreshMeta, Meta
  <2>5. meta' = m \/ \E R, A : meta' = [m EXCEPT !.registered_ready = R, !.register_ack_pending = A]
    BY DEF RxRegister
  <2>6. meta'.end_ack_mask = m.end_ack_mask
    <3>1. \A R, A : [m EXCEPT !.registered_ready = R, !.register_ack_pending = A].end_ack_mask
                      = m.end_ack_mask
      BY <2>1 DEF Upserted, FreshMeta, Meta
    <3> HIDE DEF m
    <3> QED BY <2>5, <3>1
  <2> QED BY <2>3, <2>4, <2>6
<1>3. \A g \in net' : g \in net
  BY <1>1
<1> QED BY <1>1, <1>2, <1>3, ResultFacts, EntriesKept

LEMMA FlushRegisterAcksExact ==
    ASSUME BasicInv, ExactInv, FlushRegisterAcks, UNCHANGED <<g_slots, offset_ring>>
    PROVE  ResponderExact
<1>1. UNCHANGED <<entries, pending>>
  BY DEF FlushRegisterAcks
<1>2. meta'.end_ack_mask = meta.end_ack_mask
  BY ResultFacts DEF FlushRegisterAcks, Meta
<1>3. \A g \in net' : g \in net \/ SentExact(g)
  BY DEF FlushRegisterAcks, RegisterAck, SentExact
<1> QED BY <1>1, <1>2, <1>3, ResultFacts, EntriesKept

LEMMA FlushPendingExact ==
    ASSUME BasicInv, ExactInv, FlushPending, UNCHANGED <<g_slots, offset_ring>>
    PROVE  ResponderExact
<1>1. UNCHANGED <<entries, meta>> /\ pending' = <<>>
  BY DEF FlushPending
<1>2. \A i \in DOMAIN pending' : \E j \in DOMAIN pending : pending'[i] = pending[j]
  BY <1>1, EmptySeq
<1>3. ExactResult'
  BY <1>1, ResultFacts DEF ExactResult
<1>4. ASSUME NEW g \in net', g \notin net PROVE SentExact(g)
  <2>1. PICK i \in DOMAIN pending : g \in ResultFrames(pending[i], FALSE)
    BY <1>4 DEF FlushPending
  <2>2. pending[i] \in Offsets /\ entries[pending[i]].committed
    BY <2>1, ResultFacts DEF QueuedCommitted
  <2> QED BY <1>1, <1>3, <2>1, <2>2, ResultFrameExact
<1> QED BY <1>1, <1>2, <1>4, ResultFacts, EntriesKept

LEMMA EndRetryExact ==
    ASSUME BasicInv, ExactInv, EndRetry, UNCHANGED <<g_slots, offset_ring>>
    PROVE  ResponderExact
<1>1. UNCHANGED <<entries, meta, pending>>
  BY DEF EndRetry
<1>2. ExactResult'
  BY <1>1, ResultFacts DEF ExactResult
<1>3. ASSUME NEW g \in net', g \notin net PROVE SentExact(g)
  <2>1. CASE g \in EndFrames
    BY <2>1, EndExact
  <2>2. CASE g \notin EndFrames
    <3>1. PICK o \in Offsets : entries[o].committed /\ g \in ResultFrames(o, TRUE)
      BY <1>3, <2>2 DEF EndRetry
    <3> QED BY <1>1, <1>2, <3>1, ResultFrameExact
  <2> QED BY <2>1, <2>2
<1> QED BY <1>1, <1>3, ResultFacts, EntriesKept

\* An END_ACK comes from a requester that is closed.
LEMMA RxEndAckExact ==
    ASSUME BasicInv, ExactInv, NEW f \in net, RxEndAck(f), UNCHANGED <<g_slots, offset_ring>>
    PROVE  ResponderExact
<1> DEFINE mask == meta.end_ack_mask \cup {f.src}
<1>1. UNCHANGED <<entries, pending>> /\ \A g \in net' : g \in net
  BY DEF RxEndAck, Taken
<1>2. f.src \in tombstone
  BY DEF RxEndAck, Arrives, ExactInv, AcksFromClosed
<1>3. /\ meta \in Meta
      /\ \/ meta' = meta
         \/ meta' = [meta EXCEPT !.end_ack_mask = mask]
         \/ meta' = [meta EXCEPT !.end_ack_mask = mask, !.sequence_reserved = FALSE,
                                 !.reuse_ready = TRUE]
  BY ResultFacts DEF RxEndAck
<1> HIDE DEF mask
<1>4. meta'.end_ack_mask \in {meta.end_ack_mask, mask}
  BY <1>3 DEF Meta
<1>5. meta'.end_ack_mask \subseteq tombstone
  BY <1>2, <1>4, ResultFacts DEF mask
<1> QED BY <1>1, <1>5, EntriesKept

\* Who is the only requester.
LEMMA LoneRequester ==
    ASSUME ~(N > 1), NEW r \in Requesters
    PROVE  Requesters = {r}
<1>1. Cardinality({r}) = 1 /\ {r} \in SUBSET Requesters
  BY FS_Singleton
<1>2. Cardinality(Requesters) \in Nat /\ Cardinality({r}) <= Cardinality(Requesters)
  BY <1>1, ArborNetAssumption, FS_CardinalityType, FS_Subset
<1>3. Cardinality({r}) = Cardinality(Requesters)
  BY <1>1, <1>2 DEF N
<1> QED BY <1>1, <1>3, ArborNetAssumption, FS_Subset

\* An aggregate that counts every requester holds every one once; so does the
\* request of the only requester.
LEMMA RxRequestExact ==
    ASSUME BasicInv, ExactInv, NEW f \in net, RxRequest(f), UNCHANGED <<g_slots, offset_ring>>
    PROVE  ResponderExact
<1>1. f \in RequestFrame /\ f.type = "REQUEST" /\ f.off \in Offsets /\ f.data \in Payloads
  BY SumTypes DEF RxRequest, Arrives
<1> DEFINE o == f.off
           e == entries[o]
<1>2. UNCHANGED meta /\ Taken(f) \in SUBSET net
  BY DEF RxRequest, Taken
<1>3. e \in Entry /\ Summed(e, o) /\ (e.committed => e.result = Exact(o))
  BY <1>1, ResultFacts DEF RepairSum, ExactResult
<1>4. CASE net' = Taken(f) /\ UNCHANGED <<entries, pending, ending>>
  BY <1>2, <1>4, ResultFacts, EntriesKept
<1>5. CASE /\ entries' = [entries EXCEPT ![o].done = TRUE]
           /\ EndTail(entries', Taken(f))
           /\ UNCHANGED pending
  <2> DEFINE n == [e EXCEPT !.done = TRUE]
  <2>1. /\ n.committed = e.committed /\ n.result = e.result /\ n.repair_mode = e.repair_mode
        /\ n.bound_payload = e.bound_payload /\ n.repair_accum = e.repair_accum
        /\ n.repair_bitmap = e.repair_bitmap
    BY <1>3 DEF Entry
  <2>2. entries' = [entries EXCEPT ![o] = n]
    BY <1>5
  <2>3. \A g \in net' : g \in net \/ SentExact(g)
    BY <1>2, <1>5, EndExact DEF EndTail
  <2> HIDE DEF n
  <2>4. Summed(n, o)
    BY <1>3, <2>1 DEF Summed
  <2> QED BY <1>1, <1>2, <1>3, <1>5, <2>1, <2>2, <2>3, <2>4, ResultFacts, OneEntry
<1>6. CASE /\ net' = Taken(f) \cup ResultFrames(o, TRUE) /\ e.committed
           /\ UNCHANGED <<entries, pending, ending>>
  <2>1. ExactResult'
    BY <1>6, ResultFacts DEF ExactResult
  <2>2. \A g \in net' : g \in net \/ SentExact(g)
    BY <1>1, <1>2, <1>6, <2>1, ResultFrameExact
  <2> QED BY <1>2, <1>6, <2>2, ResultFacts, EntriesKept
<1>7. CASE ~RequestDropped(f) /\ Pull /\ Commit(o, e, f.data, Taken(f))
  <2>1. Plus(Fragment(Responder, o), f.data) = Exact(o)
    <3>1. CASE f.aggregated
      <4>1. Contribution(f) = Cardinality(Requesters) /\ Unrepaired(o)
        BY <1>7, <3>1 DEF RequestDropped, Contribution, N, Unrepaired
      <4>2. Once(f.data, o, Contribution(f))
        BY <1>1, <4>1, ResultFacts DEF SumsInv, FramesOnce
      <4> QED BY <1>1, <1>7, <4>1, <4>2, FullOnce
    <3>2. CASE ~f.aggregated
      <4>1. f.src \in Requesters /\ Requesters = {f.src}
        BY <1>1, <1>7, <3>2, LoneRequester DEF RequestDropped, RequestFrame
      <4>2. f.data = OwnData(f.src, o)
        BY <1>1, <3>2 DEF ExactInv, ResultInv, Unmerged
      <4>3. \A x \in Fragments : f.data[x] = IF Pull /\ x[2] = o /\ x[1] \in Requesters THEN 1 ELSE 0
        <5> SUFFICES ASSUME NEW x \in Fragments
                     PROVE  f.data[x] = IF Pull /\ x[2] = o /\ x[1] \in Requesters THEN 1 ELSE 0
          OBVIOUS
        <5>1. PICK h \in Hosts, p \in Offsets : x = <<h, p>>
          BY DEF Fragments
        <5>2. f.data[x] = IF h = f.src /\ p = o THEN 1 ELSE 0
          BY <1>7, <4>2, <5>1 DEF OwnData, Fragment
        <5>3. h \in Requesters <=> h = f.src
          BY <4>1
        <5> QED BY <1>7, <5>1, <5>2, <5>3
      <4> QED BY <1>1, <4>3, AllSummed
    <3> QED BY <3>1, <3>2
  <2> QED BY <1>1, <1>2, <1>3, <1>7, <2>1, CommitExact
<1> QED BY <1>4, <1>5, <1>6, <1>7 DEF RxRequest

\* The repair sum of all requesters is exact, whatever was repeated.
LEMMA RxRepairExact ==
    ASSUME BasicInv, ExactInv, NEW f \in net, RxRepair(f), UNCHANGED <<g_slots, offset_ring>>
    PROVE  ResponderExact
<1> DEFINE o    == f.off
           e    == entries[o]
           r    == RepairedBy(e, f)
           full == r.repair_bitmap = Requesters
<1>1. f \in Frame /\ f.type = "REPAIR_REQUEST"
  BY FrameOKIsFrame DEF BasicInv, RouterInv, NetSound, RxRepair, Arrives
<1>2. o \in Offsets /\ f.data \in Payloads /\ f.src \in Requesters
  BY <1>1 DEF Frame, ResponseFrame, RequestFrame, MissFrame
<1>3. f.data = OwnData(f.src, o)
  BY <1>1 DEF ExactInv, ResultInv, Unmerged
<1>4. e \in Entry /\ Summed(e, o) /\ (e.committed => e.result = Exact(o))
  BY <1>2, ResultFacts DEF RepairSum, ExactResult
<1>5. r \in Entry /\ Summed(r, o) /\ r.repair_accum \in Payloads
  BY <1>2, <1>3, <1>4, RepairedByType, RepairedBySum
<1>6. /\ r.committed = e.committed /\ r.result = e.result /\ r.repair_mode = e.repair_mode
      /\ r.bound_payload = e.bound_payload
  BY <1>4 DEF RepairedBy, Entry
<1>7. UNCHANGED meta /\ Taken(f) \in SUBSET net
  BY DEF RxRepair, Taken
<1>8. CASE full /\ Commit(o, r, r.repair_accum, Taken(f))
  <2>1. Plus(Fragment(Responder, o), r.repair_accum) = Exact(o)
    <3>1. \A x \in Fragments : r.repair_accum[x] =
            IF Pull /\ x[2] = o /\ x[1] \in Requesters THEN 1 ELSE 0
      BY <1>5, <1>8 DEF Summed
    <3> HIDE DEF r
    <3> QED BY <1>2, <1>5, <3>1, AllSummed
  <2> HIDE DEF r
  <2> QED BY <1>2, <1>5, <1>6, <1>7, <1>8, <2>1, CommitExact
<1>9. CASE /\ \/ entries' = [entries EXCEPT ![o] = [r EXCEPT !.done = r.done \/ full]]
              \/ entries' = entries
           /\ net' = Taken(f)
           /\ UNCHANGED <<pending, ending>>
  <2>1. CASE entries' = entries
    BY <1>7, <1>9, <2>1, ResultFacts, EntriesKept
  <2>2. CASE entries' = [entries EXCEPT ![o] = [r EXCEPT !.done = r.done \/ full]]
    <3> DEFINE n == [r EXCEPT !.done = r.done \/ full]
    <3>1. /\ n.committed = e.committed /\ n.result = e.result /\ n.repair_mode = e.repair_mode
          /\ n.bound_payload = e.bound_payload /\ n.repair_accum = r.repair_accum
          /\ n.repair_bitmap = r.repair_bitmap
      BY <1>5, <1>6 DEF Entry
    <3>2. entries' = [entries EXCEPT ![o] = n]
      BY <2>2
    <3> HIDE DEF n, r
    <3>3. Summed(n, o)
      BY <1>5, <3>1 DEF Summed
    <3>4. \A g \in net' : g \in net
      BY <1>7, <1>9
    <3> QED BY <1>2, <1>4, <1>7, <1>9, <3>1, <3>2, <3>3, <3>4, ResultFacts, OneEntry
  <2> QED BY <1>9, <2>1, <2>2
<1>10. [r EXCEPT !.done = @ \/ full] = [r EXCEPT !.done = r.done \/ full]
  BY <1>5 DEF Entry
<1> QED BY <1>8, <1>9, <1>10 DEF RxRepair

\* Entering repair mode, with or without the trigger.
LEMMA TimeoutRepairExact ==
    ASSUME BasicInv, ExactInv, NEW o \in Offsets, TimeoutRepair(o),
           UNCHANGED <<g_slots, offset_ring>>
    PROVE  ResponderExact
<1>1. PICK n : /\ entries' = [entries EXCEPT ![o] = n]
               /\ n \in {[entries[o] EXCEPT !.repair_mode = TRUE,
                                            !.retry_count = entries[o].retry_count + 1],
                         [entries[o] EXCEPT !.repair_mode = TRUE]}
  BY ResultFacts DEF TimeoutRepair, Entry
<1>2. entries[o] \in Entry
  BY ResultFacts
<1>3. /\ n.committed = entries[o].committed /\ n.result = entries[o].result /\ n.repair_mode
      /\ n.bound_payload = entries[o].bound_payload /\ n.repair_accum = entries[o].repair_accum
      /\ n.repair_bitmap = entries[o].repair_bitmap
  BY <1>1, <1>2 DEF Entry
<1>4. Summed(n, o)
  BY <1>3, ResultFacts DEF RepairSum, Summed
<1>5. entries'[o] = n /\ \A x \in Offsets : x # o => entries'[x] = entries[x]
  BY <1>1, ResultFacts
<1>6. ASSUME NEW g \in net', g \notin net PROVE SentExact(g)
  <2> DEFINE b    == entries[o].bound_payload
             data == IF b = NoOffset THEN Zero ELSE entries[b].result
  <2>1. g \in TriggerFrames(o)
    BY <1>6 DEF TimeoutRepair
  <2>2. PICK q \in Requesters :
          g = [type |-> "RESPONSE", dst |-> q, sub |-> entries[o].sub, credit |-> o,
               payload |-> b, data |-> data, repair |-> TRUE, locs |-> <<>>, copy |-> FALSE]
    BY <2>1 DEF TriggerFrames, ToAll, Response
  <2>3. b # NoOffset =>
          /\ b \in Offsets /\ entries[b].committed /\ data = Exact(b) /\ entries'[b].committed
    BY <1>2, <1>3, <1>5, ResultFacts DEF QueuedCommitted, ExactResult, Entry, OffsetOpt
  <2> HIDE DEF b, data
  <2>4. g.type = "RESPONSE" /\ g.payload = b /\ g.data = data /\ g.credit = o
    BY <2>2
  <2> QED BY <1>3, <1>5, <2>3, <2>4 DEF SentExact
<1>7. UNCHANGED <<meta, pending>>
  BY DEF TimeoutRepair
<1> QED BY <1>1, <1>2, <1>3, <1>4, <1>6, <1>7, ResultFacts, OneEntry DEF ExactResult

\* A credit carries a result only when it is fixed.
LEMMA CreditFrameExact ==
    ASSUME NEW s, NEW o, NEW b, NEW data, NEW g \in CreditFrames(s, o, b, data),
           b # NoOffset => entries'[b].committed /\ data = Exact(b)
    PROVE  SentExact(g)
<1>1. PICK R \in Roots :
        g = [type |-> "RESPONSE", dst |-> R, sub |-> s, credit |-> o, payload |-> b,
             data |-> data, repair |-> FALSE, locs |-> <<>>, copy |-> FALSE]
  BY DEF CreditFrames, Response
<1>2. g.type = "RESPONSE" /\ g.payload = b /\ g.data = data /\ ~g.repair
  BY <1>1
<1> QED BY <1>2 DEF SentExact

LEMMA IssuePushCreditExact ==
    ASSUME BasicInv, ExactInv, ~Pull, NEW o \in Offsets, NEW s, NEW e \in Entry,
           IssuePushCredit(s, o, e), Summed(e, o), e.repair_mode = entries[o].repair_mode,
           UNCHANGED <<g_slots, offset_ring>>, meta'.end_ack_mask \subseteq tombstone
    PROVE  ResponderExact
<1> DEFINE res == Fragment(Responder, o)
           n   == [e EXCEPT !.committed = TRUE, !.result = res,
                            !.bound_payload = o, !.bound_by = o]
<1>1. /\ entries' = [entries EXCEPT ![o] = n]
      /\ net' = net \cup CreditFrames(s, o, o, res)
      /\ UNCHANGED pending
  BY DEF IssuePushCredit
<1>2. res = Exact(o)
  BY PushExact
<1> HIDE DEF res
<1>3. /\ n.committed /\ n.result = res /\ n.repair_mode = e.repair_mode /\ n.bound_payload = o
      /\ n.repair_accum = e.repair_accum /\ n.repair_bitmap = e.repair_bitmap
  BY DEF Entry
<1> HIDE DEF n
<1>4. Summed(n, o)
  BY <1>3 DEF Summed
<1>5. entries'[o] = n
  BY <1>1, ResultFacts
<1>6. \A g \in net' : g \in net \/ SentExact(g)
  BY <1>1, <1>2, <1>3, <1>5, CreditFrameExact
<1> QED BY <1>1, <1>2, <1>3, <1>4, <1>6, OneEntry

LEMMA IssuePullCreditExact ==
    ASSUME BasicInv, ExactInv, NEW o \in Offsets, NEW s, NEW e \in Entry,
           IssuePullCredit(s, o, e), Summed(e, o), e.repair_mode = entries[o].repair_mode,
           e.committed = entries[o].committed, e.result = entries[o].result,
           UNCHANGED <<g_slots, offset_ring>>, meta'.end_ack_mask \subseteq tombstone
    PROVE  ResponderExact
<1> DEFINE carried == pending # <<>> /\ entries[Head(pending)].bound_by = NoOffset
           b       == IF carried THEN Head(pending) ELSE NoOffset
           bound   == [e EXCEPT !.bound_payload = b]
           data    == IF carried THEN entries[b].result ELSE Zero
<1>1. /\ pending' = IF pending = <<>> THEN <<>> ELSE Tail(pending)
      /\ entries' = [x \in Offsets |->
                      IF x = o THEN bound
                      ELSE IF x = b THEN [entries[x] EXCEPT !.bound_by = o]
                      ELSE entries[x]]
      /\ net' = net \cup CreditFrames(s, o, b, data)
  BY DEF IssuePullCredit
<1>2. b # NoOffset => b \in Offsets /\ entries[b].committed /\ data = Exact(b)
  <2>1. carried => /\ Head(pending) = pending[1] /\ 1 \in DOMAIN pending
    BY ResultFacts, HeadTailProperties, LenProperties, EmptySeq
  <2>2. carried => entries[Head(pending)].committed /\ Head(pending) \in Offsets
    BY <2>1, ResultFacts DEF QueuedCommitted
  <2> QED BY <2>2, ResultFacts DEF ExactResult
<1>3. \A i \in DOMAIN pending' : \E j \in DOMAIN pending : pending'[i] = pending[j]
  <2>1. CASE pending = <<>>
    BY <1>1, <2>1, EmptySeq
  <2>2. CASE pending # <<>>
    <3>1. /\ pending' \in Seq(Offsets) /\ Len(pending') = Len(pending) - 1
          /\ \A i \in 1 .. Len(pending') : pending'[i] = pending[i + 1]
      BY <1>1, <2>2, ResultFacts, HeadTailProperties
    <3>2. /\ DOMAIN pending = 1 .. Len(pending) /\ DOMAIN pending' = 1 .. Len(pending')
          /\ Len(pending) \in Nat
      BY <3>1, ResultFacts, LenProperties
    <3>3. \A i \in DOMAIN pending' : i + 1 \in DOMAIN pending
      BY <3>1, <3>2
    <3> QED BY <3>1, <3>2, <3>3
  <2> QED BY <2>1, <2>2
<1> HIDE DEF b, data
<1>4. /\ bound.committed = e.committed /\ bound.result = e.result
      /\ bound.repair_mode = e.repair_mode /\ bound.bound_payload = b
      /\ bound.repair_accum = e.repair_accum /\ bound.repair_bitmap = e.repair_bitmap
  BY DEF Entry
<1> HIDE DEF bound
<1>5. \A x \in Offsets : x # o =>
        /\ entries'[x].committed = entries[x].committed /\ entries'[x].result = entries[x].result
        /\ entries'[x].repair_mode = entries[x].repair_mode
        /\ entries'[x].bound_payload = entries[x].bound_payload
        /\ entries'[x].repair_accum = entries[x].repair_accum
        /\ entries'[x].repair_bitmap = entries[x].repair_bitmap
  <2> SUFFICES ASSUME NEW x \in Offsets, x # o
               PROVE  /\ entries'[x].committed = entries[x].committed
                      /\ entries'[x].result = entries[x].result
                      /\ entries'[x].repair_mode = entries[x].repair_mode
                      /\ entries'[x].bound_payload = entries[x].bound_payload
                      /\ entries'[x].repair_accum = entries[x].repair_accum
                      /\ entries'[x].repair_bitmap = entries[x].repair_bitmap
    OBVIOUS
  <2>1. entries[x] \in Entry
    BY ResultFacts
  <2>2. entries'[x] = entries[x] \/ entries'[x] = [entries[x] EXCEPT !.bound_by = o]
    BY <1>1
  <2> QED BY <2>1, <2>2 DEF Entry
<1>6. entries'[o] = bound
  BY <1>1
<1>7. \A x \in Offsets :
        /\ entries'[x].committed = entries[x].committed /\ entries'[x].result = entries[x].result
        /\ entries'[x].repair_mode = entries[x].repair_mode
        /\ Summed(entries'[x], x)
        /\ entries'[x].bound_payload = entries[x].bound_payload \/ entries'[x].bound_payload = b
  BY <1>4, <1>5, <1>6, ResultFacts DEF RepairSum, Summed
<1>8. \A g \in net' : g \in net \/ SentExact(g)
  <2>1. b # NoOffset => entries'[b].committed /\ data = Exact(b)
    BY <1>2, <1>7
  <2>2. \A g \in CreditFrames(s, o, b, data) : SentExact(g)
    BY <2>1, CreditFrameExact, Zenon
  <2> QED BY <1>1, <2>2
<1>9. SumsInv'
  <2>1. \A g \in net' : g.type = "REQUEST" => g \in net
    BY <1>8 DEF SentExact
  <2> QED BY <1>7, <2>1, ResultFacts, SumsKept DEF Unrepaired
<1>10. RepairSum' /\ ExactResult'
  BY <1>7, ResultFacts DEF RepairSum, ExactResult, Summed
<1>11. QueuedCommitted'
  <2>1. \A i \in DOMAIN pending' : entries'[pending'[i]].committed
    BY <1>3, <1>7, ResultFacts DEF QueuedCommitted
  <2>2. ASSUME NEW x \in Offsets, entries'[x].bound_payload # NoOffset
        PROVE  entries'[entries'[x].bound_payload].committed
    <3>1. CASE entries'[x].bound_payload = entries[x].bound_payload
      <4>1. entries[x].bound_payload \in Offsets
        BY <2>2, <3>1, ResultFacts DEF Entry, OffsetOpt
      <4>2. entries[entries[x].bound_payload].committed
        BY <2>2, <3>1, ResultFacts DEF QueuedCommitted
      <4> QED BY <1>7, <3>1, <4>1, <4>2
    <3>2. CASE entries'[x].bound_payload = b
      BY <1>2, <1>7, <2>2, <3>2
    <3> QED BY <1>7, <3>1, <3>2
  <2> QED BY <2>1, <2>2 DEF QueuedCommitted
<1> QED BY <1>7, <1>8, <1>9, <1>10, <1>11 DEF ResponderExact

LEMMA IssueCreditExact ==
    ASSUME BasicInv, ExactInv, NEW s \in Subchannels, IssueCredit(s),
           UNCHANGED <<g_slots, offset_ring>>
    PROVE  ResponderExact
<1> DEFINE o == meta.next_credit_offset
           e == [entries[o] EXCEPT !.credit_sent = TRUE, !.sub = s]
<1>1. /\ meta \in Meta /\ entries \in [Offsets -> Entry]
      /\ CanIssue(s) /\ meta' = [meta EXCEPT !.next_credit_offset = meta.next_credit_offset + 1]
  BY ResultFacts DEF IssueCredit, Meta
<1>2. o \in Offsets
  BY <1>1, ArborNetAssumption DEF Meta, CanIssue, Offsets
<1>3. entries[o] \in Entry
  BY <1>1, <1>2
<1>4. /\ e \in Entry /\ e.committed = entries[o].committed /\ e.result = entries[o].result
      /\ e.repair_mode = entries[o].repair_mode
      /\ e.repair_accum = entries[o].repair_accum /\ e.repair_bitmap = entries[o].repair_bitmap
  BY <1>3 DEF Entry
<1>5. meta'.end_ack_mask \subseteq tombstone
  <2>1. meta'.end_ack_mask = meta.end_ack_mask
    BY <1>1 DEF Meta
  <2> QED BY <2>1, ResultFacts
<1>6. CASE Pull /\ IssuePullCredit(s, o, e)
  <2> HIDE DEF e
  <2>1. Summed(e, o)
    BY <1>2, <1>4, ResultFacts DEF RepairSum, Summed
  <2> QED BY <1>2, <1>4, <1>5, <1>6, <2>1, IssuePullCreditExact
<1>7. CASE ~Pull /\ IssuePushCredit(s, o, e)
  <2> HIDE DEF e
  <2>1. Summed(e, o)
    BY <1>2, <1>4, ResultFacts DEF RepairSum, Summed
  <2> QED BY <1>2, <1>4, <1>5, <1>7, <2>1, IssuePushCreditExact
<1> QED BY <1>6, <1>7 DEF IssueCredit

\* Every step of the responder.
LEMMA ResponderExactStep ==
    ASSUME BasicInv, ExactInv, ResponderNext
    PROVE  ResponderExact
<1>1. UNCHANGED <<g_slots, offset_ring>>
  BY DEF ResponderNext, routerVars, requesterVars
<1>2. CASE UNCHANGED responding
  <2>1. \/ \E f \in net : RxRegister(f) \/ RxRequest(f) \/ RxRepair(f) \/ RxEndAck(f)
        \/ \E s \in Subchannels : IssueCredit(s)
        \/ FlushPending \/ FlushRegisterAcks
        \/ (\E o \in Offsets : TimeoutRepair(o)) \/ EndRetry
        \/ UNCHANGED <<net, meta, entries, pending, ending>>
    BY <1>2 DEF ResponderNext, ResponderWork, ResponderTimer, ResponderReturn, ResponderFail
  <2>2. CASE UNCHANGED <<net, meta, entries, pending, ending>>
    BY <1>1, <2>2, ResultFacts, EntriesKept
  <2> QED BY <1>1, <2>1, <2>2, RxRegisterExact, RxRequestExact, RxRepairExact, RxEndAckExact,
             IssueCreditExact, FlushPendingExact, FlushRegisterAcksExact, TimeoutRepairExact,
             EndRetryExact
<1>3. CASE ResponderReturn \/ ResponderFail
  <2>1. UNCHANGED <<net, meta, entries, pending, ending>>
    BY <1>3 DEF ResponderReturn, ResponderFail
  <2> QED BY <1>1, <2>1, ResultFacts, EntriesKept
<1> QED BY <1>2, <1>3 DEF ResponderNext, ResponderWork, ResponderTimer

-----------------------------------------------------------------------------
(* The routers and the network.                                            *)

\* A frame says what another one says.
Repeats(g, f) ==
    /\ g.type = f.type
    /\ f.type \in {"REQUEST", "REPAIR_REQUEST"} =>
         g.src = f.src /\ g.off = f.off /\ g.data = f.data
    /\ f.type = "REQUEST" => g.aggregated = f.aggregated
    /\ f.type = "RESPONSE" => /\ g.credit = f.credit /\ g.payload = f.payload
                              /\ g.repair = f.repair /\ g.data = f.data
    /\ f.type = "END_ACK" => g.src = f.src

\* What is in flight after a step that leaves the hosts alone: nothing new
\* but notices and merged requests.
NothingNew ==
    \A g \in net' :
        \/ g.type = "AGG_MISS"
        \/ g.type = "REQUEST" /\ g.aggregated
        \/ \E f \in net : Repeats(g, f)

LEMMA SameRepeats ==
    ASSUME NEW f
    PROVE  Repeats(f, f)
BY DEF Repeats

LEMMA BindSays ==
    ASSUME BasicInv, NEW R \in Routers, NEW f \in net, BindCredit(R, f)
    PROVE  NothingNew
<1>1. f \in ResponseFrame /\ f.type = "RESPONSE"
  BY ResponseKind DEF BasicInv, RouterInv, NetSound, BindCredit, Arrives
<1>2. ASSUME NEW g \in net', g \notin net PROVE Repeats(g, f)
  <2>1. PICK h, i : g = [f EXCEPT !.dst = h, !.locs = Append(@, i)]
    BY <1>2 DEF BindCredit, Taken
  <2>2. /\ g.type = "RESPONSE" /\ g.credit = f.credit /\ g.payload = f.payload
        /\ g.repair = f.repair /\ g.data = f.data
    BY <1>1, <2>1 DEF ResponseFrame
  <2> QED BY <1>1, <2>2 DEF Repeats
<1> QED BY <1>2, SameRepeats DEF NothingNew

LEMMA PassSays ==
    ASSUME BasicInv, NEW R \in Routers, NEW f \in net, PassThrough(R, f)
    PROVE  NothingNew
<1>1. f \in RequestFrame /\ f.type = "REQUEST"
  BY ArrivingRequest DEF BasicInv, PassThrough, Arrives
<1>2. Popped(f) = [f EXCEPT !.dst = HopAbove(f), !.locs = SubSeq(f.locs, 1, Len(f.locs) - 1),
                            !.fanins = SubSeq(f.fanins, 1, Len(f.locs) - 1)]
  BY <1>1 DEF Popped, RequestFrame
<1>3. /\ Popped(f).type = "REQUEST" /\ Popped(f).src = f.src /\ Popped(f).off = f.off
      /\ Popped(f).data = f.data /\ Popped(f).aggregated = f.aggregated
  BY <1>1, <1>2 DEF RequestFrame
<1>4. Repeats(Popped(f), f)
  BY <1>1, <1>3 DEF Repeats
<1>5. \A g \in net' : g \in net \/ g = Popped(f)
  BY DEF PassThrough, Taken
<1> QED BY <1>4, <1>5, SameRepeats DEF NothingNew

LEMMA AggregateSays ==
    ASSUME BasicInv, NEW R \in Routers, NEW f \in net, Aggregate(R, f)
    PROVE  NothingNew
<1> DEFINE old  == g_slots[R][AggLoc(f)]
           with == SlotWith(old, f)
           m    == MasterOf(with)
<1>1. /\ f \in RequestFrame /\ RequestDepth(f) /\ PureFor(f.data, f.off) /\ Len(f.locs) > 0
  BY ArrivingRequest, SumTypes DEF BasicInv, Aggregate
<1>2. /\ AggLoc(f) \in SlotIds /\ old \in Slot /\ CountSound(old) /\ ContentSound(old)
      /\ SlotAccepts(old, f)
  BY SumTypes DEF Aggregate, BasicInv, TypeOK
<1>3. with.master \in RequestFrame /\ RequestDepth(with.master) /\ Len(with.master.locs) > 0
  <2>1. with.master = IF old.agg_count = 0 THEN f ELSE old.master
    BY <1>2 DEF SlotWith, Slot
  <2>2. old.agg_count \in Nat
    BY <1>2 DEF Slot
  <2>3. old.agg_count # 0 =>
          /\ old.master \in RequestFrame /\ RequestDepth(old.master) /\ Len(old.master.locs) > 0
    BY <1>2, <2>2 DEF ContentSound
  <2> HIDE DEF old, with
  <2> QED BY <1>1, <2>1, <2>3
<1>4. Popped(with.master) \in RequestFrame
  BY <1>3, PoppedSound
<1>5. m = [Popped(with.master) EXCEPT !.aggregated = TRUE, !.count = with.agg_count,
                                      !.data = with.accum]
  BY DEF MasterOf
<1>6. \A g \in net' : g \in net \/ g = m
  BY DEF Aggregate, Taken
<1> HIDE DEF m, with, old
<1>7. m.type = "REQUEST" /\ m.aggregated
  BY <1>4, <1>5 DEF RequestFrame
<1> QED BY <1>6, <1>7, SameRepeats DEF NothingNew

LEMMA RouterSays ==
    ASSUME BasicInv, RouterStep
    PROVE  NothingNew
<1>1. PICK R \in Routers, f \in net :
        BindCredit(R, f) \/ PassThrough(R, f) \/ Miss(R, f) \/ Aggregate(R, f)
  BY DEF RouterStep
<1>2. CASE Miss(R, f)
  <2>1. \A g \in net' : g \in net \/ g.type = "AGG_MISS"
    BY <1>2 DEF Miss, Taken, AggMiss
  <2> QED BY <2>1, SameRepeats DEF NothingNew
<1> QED BY <1>1, <1>2, BindSays, PassSays, AggregateSays

\* A step that leaves the hosts alone.
LEMMA ExactHostsAlone ==
    ASSUME BasicInv, ExactInv, UNCHANGED hostVars, SumsInv', NothingNew
    PROVE  ExactInv'
<1>1. UNCHANGED <<entries, pending, meta, stored, offset_ring, credit_q, tombstone, requesting>>
  BY DEF hostVars, responderVars, requesterVars
<1>2. CreditsPending'
  BY <1>1 DEF ExactInv, ContributionInv, CreditsPending, Unrepaired
<1>3. RepairMarked' /\ ResponsesExact'
  BY <1>1 DEF ExactInv, ContributionInv, ResultInv, RepairMarked, ResponsesExact, NothingNew,
              Repeats
<1>4. Unmerged'
  BY DEF ExactInv, ResultInv, Unmerged, NothingNew, Repeats
<1>5. RepairSum' /\ ExactResult' /\ StoredExact' /\ QueuedCommitted'
  BY <1>1 DEF ExactInv, ResultInv, RepairSum, ExactResult, StoredExact, QueuedCommitted, Summed
<1>6. AcksFromClosed'
  BY <1>1 DEF ExactInv, AcksFromClosed, NothingNew, Repeats
<1> QED BY <1>2, <1>3, <1>4, <1>5, <1>6 DEF ExactInv, ContributionInv, ResultInv

-----------------------------------------------------------------------------
(* The inductive invariant.                                                *)

\* With no frame in flight and no packet credited nothing is summed.
LEMMA NothingSummed ==
    ASSUME net = {}, \A R \in Routers, i \in SlotIds : g_slots[R][i].owner = NoOwner,
           \A o \in Offsets : entries[o] = FreshEntry, pending = <<>>, meta.end_ack_mask = {},
           stored = [r \in Requesters |-> [o \in Offsets |-> NoResult]],
           credit_q = [r \in Requesters |-> {}], tombstone = {}
    PROVE  ExactInv
<1>1. SumsInv /\ RepairMarked /\ Unmerged /\ ResponsesExact
  BY DEF SumsInv, FramesOnce, SlotsOnce, FramesApart, FramesApartFromSlots, SlotsApart,
         OpenFor, RepairMarked, Unmerged, ResponsesExact
<1>2. CreditsPending /\ StoredExact /\ AcksFromClosed
  BY DEF CreditsPending, StoredExact, AcksFromClosed
<1>3. RepairSum
  <2>1. FreshEntry.repair_bitmap = {} /\ FreshEntry.repair_accum = Zero
    BY DEF FreshEntry
  <2>2. \A o \in Offsets : Summed(FreshEntry, o)
    BY <2>1 DEF Summed, Zero
  <2> QED BY <2>2 DEF RepairSum
<1>4. ExactResult /\ QueuedCommitted
  <2>1. ~FreshEntry.committed /\ FreshEntry.bound_payload = NoOffset
    BY DEF FreshEntry
  <2> QED BY <2>1, EmptySeq DEF ExactResult, QueuedCommitted
<1> QED BY <1>1, <1>2, <1>3, <1>4 DEF ExactInv, ContributionInv, ResultInv

LEMMA InitExact ==
    Init => ExactInv
<1> SUFFICES ASSUME Init PROVE ExactInv
  OBVIOUS
<1>1. net = {} /\ \A R \in Routers, i \in SlotIds : g_slots[R][i].owner = NoOwner
  BY DEF Init, RouterInit, SlotFor
<1>2. \A o \in Offsets : entries[o] = FreshEntry
  BY DEF Init, ResponderInit
<1>3. meta.end_ack_mask = {}
  BY DEF Init, ResponderInit, FreshMeta
<1> QED BY <1>1, <1>2, <1>3, NothingSummed DEF Init, ResponderInit, RequesterInit

LEMMA ResponderKeepsExact ==
    ASSUME BasicInv, ExactInv, ResponderNext
    PROVE  ExactInv'
<1>1. ResponderExact
  BY ResponderExactStep
<1>2. UNCHANGED <<stored, offset_ring, credit_q, tombstone, requesting>>
  BY DEF ResponderNext, requesterVars
<1>3. \A q \in Requesters : \A c \in credit_q[q] : c.off \in Offsets
  BY RequesterFacts DEF Credit
<1>4. \A g \in net : g.type = "RESPONSE" =>
        /\ g.credit # NoOffset => g.credit \in Offsets
        /\ g.payload # NoOffset => g.payload \in Offsets
  BY ResponseKind DEF BasicInv, RouterInv, NetSound, ResponseFrame, OffsetOpt
<1>5. CreditsPending'
  BY <1>1, <1>2, <1>3, ExactFacts DEF ResponderExact, CreditsPending, Unrepaired
<1>6. RepairMarked'
  BY <1>1, <1>4, ExactFacts DEF ResponderExact, SentExact, RepairMarked
<1>7. ResponsesExact'
  BY <1>1, <1>4 DEF ResponderExact, SentExact, ExactInv, ResultInv, ResponsesExact
<1>8. StoredExact'
  BY <1>1, <1>2, ExactFacts DEF ResponderExact, StoredExact
<1>9. Unmerged'
  BY <1>1 DEF ResponderExact, SentExact, ExactInv, ResultInv, Unmerged
<1>10. AcksFromClosed'
  BY <1>1, <1>2 DEF ResponderExact, SentExact, ExactInv, AcksFromClosed
<1> QED BY <1>1, <1>5, <1>6, <1>7, <1>8, <1>9, <1>10
        DEF ResponderExact, ExactInv, ContributionInv, ResultInv

LEMMA RequesterKeepsExact ==
    ASSUME BasicInv, ExactInv, NEW r \in Requesters, RequesterNext(r)
    PROVE  ExactInv'
<1>1. RequesterExact
  BY RequesterExactStep
<1>2. UNCHANGED <<entries, pending, meta>>
  BY DEF RequesterNext, responderVars
<1>3. RepairMarked' /\ ResponsesExact'
  BY <1>1, <1>2 DEF RequesterExact, ExactInv, ContributionInv, ResultInv, RepairMarked,
                    ResponsesExact
<1>4. Unmerged'
  BY <1>1 DEF RequesterExact, ExactInv, ResultInv, Unmerged
<1>5. RepairSum' /\ ExactResult' /\ QueuedCommitted'
  BY <1>2 DEF ExactInv, ResultInv, RepairSum, ExactResult, QueuedCommitted, Summed
<1>6. AcksFromClosed'
  BY <1>1, <1>2 DEF RequesterExact, ExactInv, AcksFromClosed
<1> QED BY <1>1, <1>3, <1>4, <1>5, <1>6 DEF RequesterExact, ExactInv, ContributionInv, ResultInv

\* ExactInv is inductive where requests are not repeated by the network.
LEMMA ExactInductive ==
    ASSUME "REQUEST" \notin DupTypes
    PROVE  BasicInv /\ ExactInv /\ [Next]_vars => ExactInv'
<1> SUFFICES ASSUME BasicInv, ExactInv, [Next]_vars PROVE ExactInv'
  OBVIOUS
<1>1. CASE RouterNext
  <2>1. RouterStep /\ UNCHANGED hostVars /\ UNCHANGED <<entries, offset_ring>>
    BY <1>1 DEF RouterNext, hostVars, responderVars, requesterVars
  <2> QED BY <2>1, ExactFacts, RouterSums, RouterSays, ExactHostsAlone
<1>2. CASE ResponderNext
  BY <1>2, ResponderKeepsExact
<1>3. CASE \E r \in Requesters : RequesterNext(r)
  BY <1>3, RequesterKeepsExact
<1>4. CASE Lose \/ UNCHANGED vars
  <2>1. UNCHANGED hostVars /\ UNCHANGED <<g_slots, entries, offset_ring>> /\ \A g \in net' : g \in net
    BY <1>4 DEF Lose, vars, hostVars, routerVars, responderVars, requesterVars
  <2>2. SumsInv'
    BY <2>1, ExactFacts, SumsKept DEF Unrepaired
  <2> QED BY <2>1, <2>2, SameRepeats, ExactHostsAlone DEF NothingNew
<1>5. CASE Duplicate
  <2>1. PICK f \in net : f.type \in DupTypes /\ net' = net \cup {[f EXCEPT !.copy = TRUE]}
    BY <1>5 DEF Duplicate
  <2>2. UNCHANGED hostVars /\ UNCHANGED <<g_slots, entries, offset_ring>>
    BY <1>5 DEF Duplicate, hostVars, routerVars, responderVars, requesterVars
  <2> DEFINE g == [f EXCEPT !.copy = TRUE]
  <2>3. FrameOK(f)
    BY DEF BasicInv, RouterInv, NetSound
  <2>4. Repeats(g, f) /\ g.type = f.type
    BY <2>1, <2>3, CopyOK DEF Repeats
  <2> HIDE DEF g
  <2>5. net' = net \cup {g} /\ g.type # "REQUEST"
    BY <2>1, <2>4 DEF g
  <2>6. SumsInv'
    BY <2>2, <2>5, ExactFacts, SumsKept DEF Unrepaired
  <2>7. NothingNew
    BY <2>4, <2>5, SameRepeats DEF NothingNew
  <2> QED BY <2>2, <2>6, <2>7, ExactHostsAlone
<1> QED BY <1>1, <1>2, <1>3, <1>4, <1>5 DEF Next

LEMMA ExactInvariance ==
    ASSUME "REQUEST" \notin DupTypes
    PROVE  Spec => [](BasicInv /\ ExactInv)
<1>1. Init => BasicInv /\ ExactInv
  BY InitBasic, InitExact
<1>2. BasicInv /\ ExactInv /\ [Next]_vars => (BasicInv /\ ExactInv)'
  BY BasicInductive, ExactInductive
<1> QED BY <1>1, <1>2, PTL DEF Spec

-----------------------------------------------------------------------------
(* The channel implements AllReduce.                                       *)

\* A result is something.
LEMMA ExactIsResult ==
    ASSUME NEW o \in Offsets
    PROVE  Exact(o) # NoResult
<1>1. DOMAIN Exact(o) = Fragments
  BY DEF Exact
<1>2. <<Responder, o>> \in Fragments
  BY DEF Fragments, Hosts
<1>3. DOMAIN NoResult = {}
  BY EmptySeq DEF NoResult
<1> QED BY <1>1, <1>2, <1>3

\* The result of a packet is the exact one or none.
LEMMA ResultIs ==
    ASSUME ExactResult, NEW o \in Offsets
    PROVE  ResultOf(o) = IF entries[o].committed THEN Exact(o) ELSE NoResult
BY DEF ExactResult, ResultOf

AbstractStep == Abstract!Next \/ UNCHANGED <<[o \in Offsets |-> ResultOf(o)], stored, tombstone,
                                             responding = "ok">>

\* A step of the responder fixes at most one result, or returns.
LEMMA ResponderReduces ==
    ASSUME BasicInv, ExactInv, ResponderNext
    PROVE  AbstractStep
<1>1. UNCHANGED <<stored, tombstone>>
  BY DEF ResponderNext, requesterVars
<1>2. CASE UNCHANGED responding
  <2>1. PICK o \in Offsets : \A x \in Offsets : x # o => entries'[x].committed = entries[x].committed
    BY ResponderExactStep DEF ResponderExact
  <2>2. /\ ExactResult /\ ExactResult' /\ (entries[o].committed => entries'[o].committed)
    BY ResponderExactStep, ResultFacts DEF ResponderExact
  <2>3. \A x \in Offsets : x # o => ResultOf(x)' = ResultOf(x)
    BY <2>1, <2>2, ResultIs DEF ExactResult, ResultOf
  <2>4. CASE entries[o].committed \/ ~entries'[o].committed
    <3>1. ResultOf(o)' = ResultOf(o)
      BY <2>2, <2>4 DEF ExactResult, ResultOf
    <3>2. [x \in Offsets |-> ResultOf(x)]' = [x \in Offsets |-> ResultOf(x)]
      BY <2>3, <3>1
    <3> QED BY <1>1, <1>2, <3>2 DEF AbstractStep
  <2>5. CASE ~entries[o].committed /\ entries'[o].committed
    <3>1. ResultOf(o) = NoResult /\ ResultOf(o)' = Exact(o)
      BY <2>2, <2>5 DEF ExactResult, ResultOf
    <3>2. [x \in Offsets |-> ResultOf(x)]' =
            [[x \in Offsets |-> ResultOf(x)] EXCEPT ![o] = Exact(o)]
      BY <2>3, <3>1
    <3>3. Abstract!Reduce(o)
      BY <1>1, <1>2, <3>1, <3>2 DEF Abstract!Reduce
    <3> QED BY <3>3 DEF AbstractStep, Abstract!Next
  <2> QED BY <2>4, <2>5
<1>3. CASE ResponderReturn \/ ResponderFail
  <2>1. UNCHANGED entries
    BY <1>3 DEF ResponderReturn, ResponderFail
  <2>2. [x \in Offsets |-> ResultOf(x)]' = [x \in Offsets |-> ResultOf(x)]
    BY <2>1 DEF ResultOf
  <2>3. CASE ResponderReturn
    <3>1. meta.end_ack_mask = Requesters /\ responding' = "ok"
      BY <2>3 DEF ResponderReturn
    <3>2. tombstone = Requesters
      BY <3>1, ResultFacts DEF BasicInv, TypeOK, RequesterTypeOK
    <3>3. Abstract!Return
      BY <1>1, <2>2, <3>1, <3>2 DEF Abstract!Return
    <3> QED BY <3>3 DEF AbstractStep, Abstract!Next
  <2>4. CASE ResponderFail
    <3>1. responding # "ok" /\ responding' # "ok"
      BY <2>4 DEF ResponderNext, ResponderWork, ResponderTimer, ResponderFail
    <3>2. (responding = "ok")' = (responding = "ok")
      BY <3>1
    <3> QED BY <1>1, <2>2, <3>2 DEF AbstractStep
  <2> QED BY <1>3, <2>3, <2>4
<1> QED BY <1>2, <1>3 DEF ResponderNext, ResponderWork, ResponderTimer

\* A step of a requester stores a fixed result, closes it, or is internal.
LEMMA RequesterReduces ==
    ASSUME BasicInv, ExactInv, NEW r \in Requesters, RequesterNext(r)
    PROVE  AbstractStep
<1>1. UNCHANGED <<entries, responding>>
  BY DEF RequesterNext, responderVars
<1>2. [x \in Offsets |-> ResultOf(x)]' = [x \in Offsets |-> ResultOf(x)]
  BY <1>1 DEF ResultOf
<1>3. CASE UNCHANGED <<stored, tombstone>>
  BY <1>1, <1>2, <1>3 DEF AbstractStep
<1>4. ASSUME NEW f \in net, RxResponse(r, f), requesting[r] = "run"
      PROVE  AbstractStep
  <2>1. f \in ResponseFrame /\ f.type = "RESPONSE" /\ UNCHANGED tombstone
    BY <1>4, ResponseKind DEF BasicInv, RouterInv, NetSound, RxResponse, Arrives
  <2>2. CASE f.payload = NoOffset
    <3>1. UNCHANGED stored
      BY <1>4, <2>2 DEF RxResponse
    <3> QED BY <1>3, <2>1, <3>1
  <2>3. CASE f.payload # NoOffset
    <3> DEFINE o == f.payload
    <3>1. o \in Offsets /\ stored' = [stored EXCEPT ![r][o] = f.data]
      BY <1>4, <2>1, <2>3 DEF RxResponse, ResponseFrame, OffsetOpt
    <3>2. entries[o].committed /\ f.data = Exact(o)
      BY <2>1, <2>3 DEF ExactInv, ResultInv, ResponsesExact
    <3>3. ResultOf(o) = Exact(o) /\ Exact(o) # NoResult
      BY <3>1, <3>2, ResultFacts, ExactIsResult DEF ExactResult, ResultOf
    <3>4. r \notin tombstone
      BY <1>4, ExactFacts
    <3> HIDE DEF o
    <3>5. [x \in Offsets |-> ResultOf(x)][o] = ResultOf(o)
      BY <3>1
    <3>6. Abstract!Deliver(r, o)
      BY <1>1, <1>2, <2>1, <3>1, <3>2, <3>3, <3>4, <3>5 DEF Abstract!Deliver
    <3> QED BY <3>1, <3>6 DEF AbstractStep, Abstract!Next
  <2> QED BY <2>2, <2>3
<1>5. CASE ReadyToFinish(r) /\ tombstone' = tombstone \cup {r} /\ UNCHANGED stored
  <2>1. \A o \in Offsets : stored[r][o] # NoResult
    BY <1>5 DEF ReadyToFinish, Completed
  <2>2. Abstract!Close(r)
    BY <1>1, <1>2, <1>5, <2>1 DEF Abstract!Close
  <2> QED BY <2>2 DEF AbstractStep, Abstract!Next
<1>6. CASE Finish(r)
  BY <1>5, <1>6 DEF Finish
<1>7. CASE FailRegister(r)
  BY <1>3, <1>5, <1>7 DEF FailRegister
<1>8. CASE \/ \E f \in net : RxRegisterAck(r, f) \/ RxEnd(r, f) \/ AckTombstonedEnd(r, f)
           \/ SendRequests(r) \/ SendRegister(r)
  BY <1>3, <1>8 DEF RxRegisterAck, RxEnd, AckTombstonedEnd, SendRequests, SendRegister, requesterVars
<1> QED BY <1>4, <1>6, <1>7, <1>8 DEF RequesterNext, RequesterWork, RequesterTimer

\* Every step of the channel is one of AllReduce or leaves it as it is.
LEMMA StepReduces ==
    ASSUME BasicInv, ExactInv, [Next]_vars
    PROVE  AbstractStep
<1>1. CASE UNCHANGED hostVars
  BY <1>1 DEF hostVars, responderVars, requesterVars, AbstractStep, ResultOf
<1>2. CASE ResponderNext
  BY <1>2, ResponderReduces
<1>3. CASE \E r \in Requesters : RequesterNext(r)
  BY <1>3, RequesterReduces
<1>4. CASE RouterNext \/ Lose \/ Duplicate \/ UNCHANGED vars
  <2>1. UNCHANGED hostVars
    BY <1>4 DEF RouterNext, Lose, Duplicate, vars, hostVars
  <2> QED BY <1>1, <2>1
<1> QED BY <1>2, <1>3, <1>4 DEF Next

LEMMA InitReduces ==
    Init => Abstract!Init
<1> SUFFICES ASSUME Init PROVE Abstract!Init
  OBVIOUS
<1>1. \A o \in Offsets : ResultOf(o) = NoResult
  BY DEF Init, ResponderInit, FreshEntry, ResultOf
<1>2. [o \in Offsets |-> ResultOf(o)] = [o \in Offsets |-> NoResult]
  BY <1>1
<1>3. (responding = "ok") = FALSE
  BY DEF Init, ResponderInit
<1> QED BY <1>2, <1>3 DEF Init, RequesterInit, Abstract!Init

-----------------------------------------------------------------------------
(* The theorems.                                                           *)

\* Whatever mix of aggregated, repaired, late and repeated frames led to it, a
\* committed result holds the fragment of every host exactly once
\* (commit_entry_response, the repair_mode switch).
THEOREM ResultsExact ==
    ASSUME "REQUEST" \notin DupTypes
    PROVE  Spec => []ExactResult
<1>1. ExactInv => ExactResult
  BY DEF ExactInv, ResultInv
<1> QED BY <1>1, ExactInvariance, PTL

\* What the invariant says of acknowledgements.
LEMMA ExactMeansComplete ==
    BasicInv /\ ExactInv => AckedMeansComplete
<1>1. BasicInv => tombstone \subseteq Requesters
  BY DEF BasicInv, TypeOK, RequesterTypeOK
<1> QED BY <1>1 DEF ExactInv, ResultInv, StoredExact, AcksFromClosed, AckedMeansComplete

\* No requester that has acknowledged END, or whose acknowledgement the
\* responder has counted, waits for a result or holds a wrong one.
THEOREM AckedComplete ==
    ASSUME "REQUEST" \notin DupTypes
    PROVE  Spec => []AckedMeansComplete
<1>1. BasicInv /\ ExactInv => AckedMeansComplete
  BY ExactMeansComplete
<1> QED BY <1>1, ExactInvariance, PTL

\* What the invariant says of slots that hold a fragment twice.
LEMMA ExactMeansRepair ==
    BasicInv /\ ExactInv => DoubleCountOnlyInRepair
<1> SUFFICES ASSUME BasicInv, ExactInv, NEW R \in Routers, NEW i \in SlotIds,
                    NEW x \in Fragments, g_slots[R][i].accum[x] > 1
             PROVE  entries[g_slots[R][i].owner[2]].repair_mode
  BY DEF DoubleCountOnlyInRepair
<1> DEFINE slot == g_slots[R][i]
<1>1. slot \in Slot /\ CountSound(slot) /\ ContentSound(slot)
  BY SumTypes
<1>2. slot.owner # NoOwner
  <2>1. CASE slot.agg_count = 0
    BY <1>1, <2>1 DEF CountSound, Zero
  <2>2. CASE slot.agg_count # 0
    <3>1. slot.owner = <<slot.master.sub, slot.master.off>>
      BY <1>1, <2>2 DEF ContentSound, Slot
    <3> QED BY <3>1 DEF NoOwner
  <2> QED BY <2>1, <2>2
<1>3. CASE Unrepaired(slot.owner[2])
  <2>1. Once(slot.accum, slot.owner[2], slot.agg_count)
    BY <1>2, <1>3, ExactFacts DEF SumsInv, SlotsOnce
  <2>2. slot.accum[x] = 0 \/ slot.accum[x] = 1
    BY <2>1 DEF Once
  <2> QED BY <2>2
<1> QED BY <1>3 DEF Unrepaired

\* A fragment is summed twice in a slot only for a packet that has switched to
\* repair: counting requesters without their identities is enough before.
THEOREM DoubleCountNeedsRepair ==
    ASSUME "REQUEST" \notin DupTypes
    PROVE  Spec => []DoubleCountOnlyInRepair
<1>1. BasicInv /\ ExactInv => DoubleCountOnlyInRepair
  BY ExactMeansRepair
<1> QED BY <1>1, ExactInvariance, PTL

\* The channel implements AllReduce: each packet is reduced once, to the exact
\* result; that result and no other is what a requester stores; a requester is
\* closed only when complete; the responder returns only with all closed.
THEOREM ChannelImplementsAllReduce ==
    ASSUME "REQUEST" \notin DupTypes
    PROVE  Spec => ImplementsAllReduce
<1>1. Init => Abstract!Init
  BY InitReduces
<1>2. BasicInv /\ ExactInv /\ [Next]_vars => [Abstract!Next]_(Abstract!vars)
  BY StepReduces DEF AbstractStep, Abstract!vars
<1> QED BY <1>1, <1>2, ExactInvariance, PTL DEF Spec, ImplementsAllReduce, Abstract!Spec

-----------------------------------------------------------------------------
(* Counting.                                                               *)

\* A set of requesters goes on counting while their answers stand.
LEMMA CountsKept ==
    ASSUME NEW W \in SUBSET Requesters, NEW o, NEW n, Counts(W, o, n),
           \A r \in Requesters : offset_ring[r][o] = "sent" => offset_ring'[r][o] = "sent"
    PROVE  Counts(W, o, n)'
BY DEF Counts

\* Nobody counts in an empty slot.
LEMMA NobodyCounts ==
    ASSUME NEW o
    PROVE  Counts({}, o, 0)
BY FS_EmptySet DEF Counts

\* Two sets that are apart count together.
LEMMA UnionCounts ==
    ASSUME NEW A \in SUBSET Requesters, NEW B \in SUBSET Requesters, A \cap B = {},
           NEW o, NEW n, NEW m, Counts(A, o, n), Counts(B, o, m)
    PROVE  Counts(A \cup B, o, n + m)
<1>1. IsFiniteSet(A) /\ IsFiniteSet(B)
  BY FS_Subset, ArborNetAssumption
<1>2. Cardinality(A \cup B) = Cardinality(A) + Cardinality(B) - Cardinality(A \cap B)
  BY <1>1, FS_Union
<1>3. /\ Cardinality(A \cap B) = 0
      /\ Cardinality(A) \in Nat /\ Cardinality(B) \in Nat
  BY <1>1, FS_EmptySet, FS_CardinalityType
<1> QED BY <1>2, <1>3 DEF Counts

\* The offsets of the requests in flight and of the slots.
LEMMA CountTypes ==
    ASSUME BasicInv
    PROVE  /\ \A f \in net : f.type = "REQUEST" => f.off \in Offsets
           /\ \A R \in Routers, i \in SlotIds : \A o :
                 OpenFor(g_slots[R][i], o) => o \in Offsets
BY SumTypes DEF OpenFor

\* A step that sends no request and only clears slots.
LEMMA CountedKept ==
    ASSUME BasicInv, CountedInv,
           \A f \in net' : f.type = "REQUEST" => f \in net,
           \A R \in Routers, i \in SlotIds :
              g_slots'[R][i] = g_slots[R][i] \/ g_slots'[R][i].agg_count = 0,
           \A o \in Offsets : Unrepaired(o)' => Unrepaired(o),
           \A r \in Requesters, o \in Offsets :
              Unrepaired(o)' /\ offset_ring[r][o] = "sent" => offset_ring'[r][o] = "sent"
    PROVE  CountedInv'
<1>1. PICK W \in [net -> SUBSET Requesters],
           V \in [Routers -> [SlotIds -> SUBSET Requesters]] : Counted(W, V)
  BY DEF CountedInv
<1>2. PICK X : X = [f \in net' |-> IF f \in net THEN W[f] ELSE {}]
  OBVIOUS
<1>3. PICK Y : Y = [R \in Routers |-> [i \in SlotIds |->
                      IF g_slots'[R][i] = g_slots[R][i] THEN V[R][i] ELSE {}]]
  OBVIOUS
<1>4. /\ X \in [net' -> SUBSET Requesters]
      /\ \A f \in net' : f \in net => X[f] = W[f]
  BY <1>1, <1>2
<1>5. /\ Y \in [Routers -> [SlotIds -> SUBSET Requesters]]
      /\ \A R \in Routers, i \in SlotIds :
            Y[R][i] = IF g_slots'[R][i] = g_slots[R][i] THEN V[R][i] ELSE {}
  BY <1>1, <1>3
<1>6. ASSUME NEW f \in net', f.type = "REQUEST", Unrepaired(f.off)'
      PROVE  Counts(X[f], f.off, Contribution(f))'
  <2>1. f \in net /\ f.off \in Offsets /\ Unrepaired(f.off)
    BY <1>6, CountTypes
  <2>2. Counts(W[f], f.off, Contribution(f)) /\ W[f] \in SUBSET Requesters /\ X[f] = W[f]
    BY <1>1, <1>4, <1>6, <2>1 DEF Counted
  <2>3. \A r \in Requesters : offset_ring[r][f.off] = "sent" => offset_ring'[r][f.off] = "sent"
    BY <1>6, <2>1
  <2> QED BY <2>2, <2>3, CountsKept
<1>7. ASSUME NEW R \in Routers, NEW i \in SlotIds, NEW o \in Offsets,
             OpenFor(g_slots'[R][i], o), Unrepaired(o)'
      PROVE  Counts(Y[R][i], o, g_slots[R][i].agg_count)'
  <2>1. PICK n : n = g_slots'[R][i].agg_count
    OBVIOUS
  <2>2. Y[R][i] \in SUBSET Requesters
    BY <1>5
  <2>3. Counts(Y[R][i], o, n)
    <3>1. CASE g_slots'[R][i] = g_slots[R][i]
      BY <1>1, <1>5, <1>7, <2>1, <3>1 DEF Counted
    <3>2. CASE g_slots'[R][i] # g_slots[R][i]
      BY <1>5, <2>1, <3>2, NobodyCounts
    <3> QED BY <3>1, <3>2
  <2>4. Counts(Y[R][i], o, n)'
    BY <1>7, <2>2, <2>3, CountsKept
  <2> QED BY <2>1, <2>4
<1>8. Counted(X, Y)'
  <2>1. \A f, g \in net' :
          f.type = "REQUEST" /\ g.type = "REQUEST" /\ f # g /\ f.off = g.off /\ Unrepaired(f.off)'
          => X[f] \cap X[g] = {}
    BY <1>1, <1>4, CountTypes DEF Counted
  <2>2. \A f \in net', R \in Routers, i \in SlotIds :
          f.type = "REQUEST" /\ OpenFor(g_slots'[R][i], f.off) /\ Unrepaired(f.off)'
          => X[f] \cap Y[R][i] = {}
    <3> SUFFICES ASSUME NEW f \in net', NEW R \in Routers, NEW i \in SlotIds, f.type = "REQUEST",
                        OpenFor(g_slots'[R][i], f.off), Unrepaired(f.off)', Y[R][i] # {}
                 PROVE  X[f] \cap Y[R][i] = {}
      OBVIOUS
    <3>1. f \in net /\ Unrepaired(f.off) /\ X[f] = W[f]
      BY <1>4, CountTypes
    <3>2. Y[R][i] = V[R][i] /\ OpenFor(g_slots[R][i], f.off)
      BY <1>5
    <3> QED BY <1>1, <3>1, <3>2 DEF Counted
  <2>3. \A R, Q \in Routers, i, j \in SlotIds, o \in Offsets :
          /\ <<R, i>> # <<Q, j>> /\ Unrepaired(o)'
          /\ OpenFor(g_slots'[R][i], o) /\ OpenFor(g_slots'[Q][j], o)
          => Y[R][i] \cap Y[Q][j] = {}
    BY <1>1, <1>5 DEF Counted
  <2> QED BY <1>6, <1>7, <2>1, <2>2, <2>3 DEF Counted, OpenFor
<1> QED BY <1>4, <1>5, <1>8 DEF CountedInv

\* A level popped changes neither the packet nor the count of a request.
LEMMA PassCounted ==
    ASSUME BasicInv, CountedInv, UNCHANGED <<entries, offset_ring>>,
           NEW R \in Routers, NEW f \in net, PassThrough(R, f)
    PROVE  CountedInv'
<1>1. f \in RequestFrame /\ RequestDepth(f) /\ Len(f.locs) > 0 /\ f.type = "REQUEST"
  BY ArrivingRequest DEF BasicInv, PassThrough, Arrives
<1>2. PICK g : g = Popped(f)
  OBVIOUS
<1>3. g.type = "REQUEST" /\ g.off = f.off /\ Contribution(g) = Contribution(f)
  <2>1. Popped(f) \in RequestFrame /\ Popped(f).off = f.off
    BY <1>1, PoppedSound
  <2>2. Contribution(Popped(f)) = Contribution(f)
    BY <1>1 DEF Contribution, Popped, RequestFrame
  <2> QED BY <1>2, <2>1, <2>2 DEF RequestFrame
<1>4. net' = (net \ {f}) \cup {g} /\ UNCHANGED g_slots
  BY <1>2 DEF PassThrough, Taken, routerVars
<1>5. PICK W \in [net -> SUBSET Requesters],
           V \in [Routers -> [SlotIds -> SUBSET Requesters]] : Counted(W, V)
  BY DEF CountedInv
<1>6. PICK X : X = [h \in net' |-> IF h = g THEN W[f] ELSE W[h]]
  OBVIOUS
<1>7. X \in [net' -> SUBSET Requesters]
  BY <1>4, <1>5, <1>6
<1>8. \A h \in net' : (h = g /\ X[h] = W[f]) \/ (h \in net /\ h # f /\ h # g /\ X[h] = W[h])
  BY <1>4, <1>6
<1>9. \A h \in net' : h.type = "REQUEST" /\ Unrepaired(h.off) =>
        Counts(X[h], h.off, Contribution(h))
  BY <1>1, <1>3, <1>5, <1>8 DEF Counted
<1>10. \A h, k \in net' :
         h.type = "REQUEST" /\ k.type = "REQUEST" /\ h # k /\ h.off = k.off /\ Unrepaired(h.off)
         => X[h] \cap X[k] = {}
  BY <1>1, <1>3, <1>5, <1>8 DEF Counted
<1>11. \A h \in net', Q \in Routers, i \in SlotIds :
         h.type = "REQUEST" /\ OpenFor(g_slots[Q][i], h.off) /\ Unrepaired(h.off)
         => X[h] \cap V[Q][i] = {}
  BY <1>1, <1>3, <1>5, <1>8 DEF Counted
<1>12. Counted(X, V)'
  BY <1>4, <1>5, <1>9, <1>10, <1>11 DEF Counted, Unrepaired, Counts
<1> QED BY <1>5, <1>7, <1>12 DEF CountedInv

\* A credit sends no request and at most clears a slot.
LEMMA BindClears ==
    ASSUME BasicInv, NEW R \in Routers, NEW f \in net, BindCredit(R, f)
    PROVE  /\ \A g \in net' : g.type = "REQUEST" => g \in net
           /\ \A Q \in Routers, i \in SlotIds :
                 g_slots'[Q][i] = g_slots[Q][i] \/ g_slots'[Q][i].agg_count = 0
<1> DEFINE owner == <<f.sub, f.credit>>
<1>1. f \in CreditFrame /\ f.type = "RESPONSE"
  BY CreditKind DEF BasicInv, RouterInv, NetSound, BindCredit, Arrives, CreditFrame
<1>2. ASSUME NEW g \in net', g.type = "REQUEST" PROVE g \in net
  <2>1. CASE g \notin net
    <3>1. PICK h, i : g = [f EXCEPT !.dst = h, !.locs = Append(@, i)]
      BY <2>1 DEF BindCredit, Taken
    <3> QED BY <1>1, <1>2, <3>1 DEF CreditFrame, ResponseFrame
  <2> QED BY <2>1
<1>3. g_slots \in [Routers -> [SlotIds -> Slot]] /\ g_router_alloc_ptr[R] \in SlotIds
  BY DEF BasicInv, RouterInv, OpenTypeOK
<1>4. \/ g_slots' = g_slots
      \/ g_slots' = [g_slots EXCEPT ![R][g_router_alloc_ptr[R]] = SlotFor(owner)]
  BY DEF BindCredit, routerVars
<1>5. SlotFor(owner).agg_count = 0
  BY DEF SlotFor
<1> HIDE DEF owner
<1> QED BY <1>2, <1>3, <1>4, <1>5

\* The requesters of a frame move to the slot, and with the last one on to the
\* master.
LEMMA AggregateCounted ==
    ASSUME BasicInv, CountedInv, UNCHANGED <<entries, offset_ring>>,
           NEW R \in Routers, NEW f \in net, Aggregate(R, f)
    PROVE  CountedInv'
<1> DEFINE old  == g_slots[R][AggLoc(f)]
           with == SlotWith(old, f)
<1>1. PICK k, o, next, m :
        /\ k = AggLoc(f) /\ o = f.off /\ m = MasterOf(with)
        /\ next = [with EXCEPT !.forwarded = with.agg_count = with.fanin]
  OBVIOUS
<1>2. /\ f \in RequestFrame /\ RequestDepth(f) /\ PureFor(f.data, f.off) /\ Len(f.locs) > 0
      /\ f.type = "REQUEST" /\ o \in Offsets /\ f.data \in Payloads
  BY <1>1, ArrivingRequest, SumTypes DEF BasicInv, Aggregate, Arrives
<1>3. /\ k \in SlotIds /\ old \in Slot /\ CountSound(old) /\ ContentSound(old)
      /\ SlotAccepts(old, f) /\ g_slots \in [Routers -> [SlotIds -> Slot]]
  BY <1>1, SumTypes DEF Aggregate, BasicInv, TypeOK
<1>4. /\ g_slots' = [g_slots EXCEPT ![R][k] = next]
      /\ net' = (net \ {f}) \cup (IF with.agg_count = with.fanin THEN {m} ELSE {})
  BY <1>1 DEF Aggregate, Taken
<1>5. /\ next \in Slot /\ ContentSound(next) /\ next.owner = old.owner
      /\ next.agg_count > old.agg_count /\ next.agg_count = with.agg_count
      /\ next.master = with.master
  <2>1. next = Filled(old, f)
    BY <1>1 DEF Filled
  <2> HIDE DEF old
  <2> QED BY <1>2, <1>3, <2>1, AcceptSound DEF with
<1>6. old.owner = <<f.sub, o>> /\ ~old.forwarded /\ OpenFor(old, o)
  BY <1>1, <1>3 DEF SlotAccepts, NoOwner, OpenFor
<1>7. next.agg_count = old.agg_count + Contribution(f)
  BY <1>3, <1>5 DEF SlotWith, Slot
<1>8. next.forwarded <=> with.agg_count = with.fanin
  <2>1. next.forwarded = (with.agg_count = with.fanin)
    BY <1>1, <1>3 DEF SlotWith, Slot
  <2> QED BY <2>1, Zenon
<1>9. m.type = "REQUEST" /\ m.off = o /\ Contribution(m) = next.agg_count
  <2>1. next.agg_count > 0
    BY <1>3, <1>5 DEF Slot
  <2>2. /\ next.master \in RequestFrame /\ RequestDepth(next.master)
        /\ Len(next.master.locs) > 0 /\ next.owner = <<next.master.sub, next.master.off>>
    BY <1>5, <2>1 DEF ContentSound
  <2>3. /\ next.master.off = o /\ Popped(next.master) \in RequestFrame
        /\ Popped(next.master).off = o
    BY <1>5, <1>6, <2>2, PoppedSound
  <2>4. m = [Popped(next.master) EXCEPT !.aggregated = TRUE, !.count = next.agg_count,
                                        !.data = with.accum]
    BY <1>1, <1>5 DEF MasterOf
  <2> HIDE DEF with
  <2> QED BY <2>3, <2>4 DEF RequestFrame, Contribution
<1>10. PICK W \in [net -> SUBSET Requesters],
            V \in [Routers -> [SlotIds -> SUBSET Requesters]] : Counted(W, V)
  BY DEF CountedInv
<1>11. PICK all : all = V[R][k] \cup W[f]
  OBVIOUS
<1>12. all \in SUBSET Requesters /\ V[R][k] \in SUBSET Requesters /\ W[f] \in SUBSET Requesters
  BY <1>3, <1>10, <1>11
<1>13. Unrepaired(o) => Counts(all, o, next.agg_count)
  <2> SUFFICES ASSUME Unrepaired(o) PROVE Counts(all, o, next.agg_count)
    OBVIOUS
  <2>1. Counts(V[R][k], o, old.agg_count) /\ Counts(W[f], o, Contribution(f))
    BY <1>1, <1>2, <1>3, <1>6, <1>10 DEF Counted
  <2>2. V[R][k] \cap W[f] = {}
    BY <1>1, <1>2, <1>3, <1>6, <1>10 DEF Counted
  <2> QED BY <1>7, <1>11, <1>12, <2>1, <2>2, UnionCounts
<1> HIDE DEF with
<1>14. PICK X : X = [h \in net' |-> IF h = m /\ next.forwarded THEN all ELSE W[h]]
  OBVIOUS
<1>15. PICK Y : Y = [V EXCEPT ![R] = [V[R] EXCEPT ![k] = all]]
  OBVIOUS
<1>16. /\ \A h \in net' : \/ h = m /\ next.forwarded /\ X[h] = all
                          \/ h \in net /\ h # f /\ X[h] = W[h]
       /\ X \in [net' -> SUBSET Requesters]
  BY <1>4, <1>8, <1>10, <1>12, <1>14
<1>17. /\ Y \in [Routers -> [SlotIds -> SUBSET Requesters]] /\ Y[R][k] = all
       /\ \A Q \in Routers, i \in SlotIds : <<Q, i>> # <<R, k>> => Y[Q][i] = V[Q][i]
  BY <1>3, <1>10, <1>12, <1>15
<1>18. /\ g_slots'[R][k] = next
       /\ \A Q \in Routers, i \in SlotIds : <<Q, i>> # <<R, k>> => g_slots'[Q][i] = g_slots[Q][i]
  BY <1>3, <1>4
<1>19. \A p \in Offsets : OpenFor(next, p) => p = o /\ ~next.forwarded
  BY <1>5, <1>6 DEF OpenFor
<1> HIDE DEF old
\* Whatever was apart from the frame and from the slot is apart from both.
<1>20. ASSUME Unrepaired(o)
       PROVE  /\ \A h \in net : h # f /\ h.type = "REQUEST" /\ h.off = o => all \cap W[h] = {}
              /\ \A Q \in Routers, i \in SlotIds : <<Q, i>> # <<R, k>> /\ OpenFor(g_slots[Q][i], o)
                   => all \cap V[Q][i] = {}
  <2>1. \A h \in net : h # f /\ h.type = "REQUEST" /\ h.off = o =>
          W[f] \cap W[h] = {} /\ V[R][k] \cap W[h] = {}
    BY <1>1, <1>2, <1>3, <1>6, <1>10, <1>20 DEF Counted, old
  <2>2. \A Q \in Routers, i \in SlotIds : <<Q, i>> # <<R, k>> /\ OpenFor(g_slots[Q][i], o) =>
          W[f] \cap V[Q][i] = {} /\ V[R][k] \cap V[Q][i] = {}
    BY <1>1, <1>2, <1>3, <1>6, <1>10, <1>20 DEF Counted, old
  <2> QED BY <1>11, <2>1, <2>2
<1>21. \A h \in net' : h.type = "REQUEST" /\ Unrepaired(h.off) => Counts(X[h], h.off, Contribution(h))
  BY <1>9, <1>10, <1>13, <1>16 DEF Counted
<1>22. \A Q \in Routers, i \in SlotIds, p \in Offsets :
         OpenFor(g_slots'[Q][i], p) /\ Unrepaired(p) => Counts(Y[Q][i], p, g_slots'[Q][i].agg_count)
  <2> SUFFICES ASSUME NEW Q \in Routers, NEW i \in SlotIds, NEW p \in Offsets,
                      OpenFor(g_slots'[Q][i], p), Unrepaired(p)
               PROVE  Counts(Y[Q][i], p, g_slots'[Q][i].agg_count)
    OBVIOUS
  <2>1. CASE <<Q, i>> # <<R, k>>
    BY <1>10, <1>17, <1>18, <2>1 DEF Counted
  <2>2. CASE <<Q, i>> = <<R, k>>
    BY <1>13, <1>17, <1>18, <1>19, <2>2
  <2> QED BY <2>1, <2>2
<1>23. \A h, j \in net' :
         h.type = "REQUEST" /\ j.type = "REQUEST" /\ h # j /\ h.off = j.off /\ Unrepaired(h.off)
         => X[h] \cap X[j] = {}
  BY <1>9, <1>10, <1>16, <1>20 DEF Counted
<1>24. \A h \in net', Q \in Routers, i \in SlotIds :
         h.type = "REQUEST" /\ OpenFor(g_slots'[Q][i], h.off) /\ Unrepaired(h.off)
         => X[h] \cap Y[Q][i] = {}
  <2> SUFFICES ASSUME NEW h \in net', NEW Q \in Routers, NEW i \in SlotIds, h.type = "REQUEST",
                      OpenFor(g_slots'[Q][i], h.off), Unrepaired(h.off)
               PROVE  X[h] \cap Y[Q][i] = {}
    OBVIOUS
  <2>1. CASE <<Q, i>> # <<R, k>>
    BY <1>9, <1>10, <1>16, <1>17, <1>18, <1>20, <2>1 DEF Counted
  <2>2. CASE <<Q, i>> = <<R, k>>
    <3>1. g_slots'[Q][i] = next /\ Y[Q][i] = all
      BY <1>17, <1>18, <2>2
    <3>2. h.off = o /\ ~next.forwarded
      BY <1>5, <1>6, <3>1 DEF OpenFor
    <3> QED BY <1>16, <1>20, <3>1, <3>2
  <2> QED BY <2>1, <2>2
<1>25. \A Q, S \in Routers, i, j \in SlotIds, p \in Offsets :
         /\ <<Q, i>> # <<S, j>> /\ Unrepaired(p)
         /\ OpenFor(g_slots'[Q][i], p) /\ OpenFor(g_slots'[S][j], p)
         => Y[Q][i] \cap Y[S][j] = {}
  <2> SUFFICES ASSUME NEW Q \in Routers, NEW S \in Routers, NEW i \in SlotIds, NEW j \in SlotIds,
                      NEW p \in Offsets, <<Q, i>> # <<S, j>>, Unrepaired(p),
                      OpenFor(g_slots'[Q][i], p), OpenFor(g_slots'[S][j], p)
               PROVE  Y[Q][i] \cap Y[S][j] = {}
    OBVIOUS
  <2>1. CASE <<Q, i>> # <<R, k>> /\ <<S, j>> # <<R, k>>
    BY <1>10, <1>17, <1>18, <2>1 DEF Counted
  <2>2. CASE <<Q, i>> = <<R, k>>
    <3>1. Y[Q][i] = all /\ Y[S][j] = V[S][j] /\ g_slots'[S][j] = g_slots[S][j] /\ p = o
      BY <1>17, <1>18, <1>19, <2>2
    <3> QED BY <1>20, <2>2, <3>1
  <2>3. CASE <<S, j>> = <<R, k>>
    <3>1. Y[S][j] = all /\ Y[Q][i] = V[Q][i] /\ g_slots'[Q][i] = g_slots[Q][i] /\ p = o
      BY <1>17, <1>18, <1>19, <2>3
    <3> QED BY <1>20, <2>3, <3>1
  <2> QED BY <2>1, <2>2, <2>3
<1>26. Counted(X, Y)'
  BY <1>21, <1>22, <1>23, <1>24, <1>25 DEF Counted, Unrepaired, Counts
<1> QED BY <1>16, <1>17, <1>26 DEF CountedInv

\* Every step of a router.
LEMMA RouterCounted ==
    ASSUME BasicInv, CountedInv, RouterStep, UNCHANGED <<entries, offset_ring>>
    PROVE  CountedInv'
<1>1. PICK R \in Routers, f \in net :
        BindCredit(R, f) \/ PassThrough(R, f) \/ Miss(R, f) \/ Aggregate(R, f)
  BY DEF RouterStep
<1>2. CASE BindCredit(R, f)
  <2>1. /\ \A g \in net' : g.type = "REQUEST" => g \in net
        /\ \A Q \in Routers, i \in SlotIds :
              g_slots'[Q][i] = g_slots[Q][i] \/ g_slots'[Q][i].agg_count = 0
    BY <1>2, BindClears
  <2> QED BY <2>1, CountedKept DEF Unrepaired
<1>3. CASE Miss(R, f)
  <2>1. UNCHANGED g_slots /\ \A g \in net' : g.type = "REQUEST" => g \in net
    BY <1>3 DEF Miss, routerVars, Taken, AggMiss
  <2> QED BY <2>1, CountedKept DEF Unrepaired
<1> QED BY <1>1, <1>2, <1>3, PassCounted, AggregateCounted

\* The answers of a requester count it alone: while its credit waits, it
\* counts nowhere else.
LEMMA AnswerCounted ==
    ASSUME BasicInv, ExactInv, CountedInv, NEW r \in Requesters, UNCHANGED <<g_slots, entries>>,
           offset_ring' = RingAnswered(r),
           \A g \in net' : g.type = "REQUEST" => g \in net \/ g \in Answered(r)
    PROVE  CountedInv'
<1>1. /\ \A q \in Requesters, o \in Offsets :
            offset_ring[q][o] = "sent" => offset_ring'[q][o] = "sent"
      /\ \A g \in Answered(r) : g.type = "REQUEST" /\ Unrepaired(g.off) =>
            /\ g.off \in Offsets /\ Contribution(g) = 1
            /\ offset_ring[r][g.off] # "sent" /\ offset_ring'[r][g.off] = "sent"
            /\ \A h \in Answered(r) : h.type = "REQUEST" /\ h.off = g.off => h = g
  BY AnswerFacts
<1>2. PICK W \in [net -> SUBSET Requesters],
           V \in [Routers -> [SlotIds -> SUBSET Requesters]] : Counted(W, V)
  BY DEF CountedInv
<1>3. PICK X : X = [g \in net' |-> IF g \in Answered(r) THEN {r}
                                   ELSE IF g \in net THEN W[g] ELSE {}]
  OBVIOUS
<1>4. /\ X \in [net' -> SUBSET Requesters]
      /\ \A g \in net' : g.type = "REQUEST" =>
            \/ g \in Answered(r) /\ X[g] = {r}
            \/ g \in net /\ g \notin Answered(r) /\ X[g] = W[g]
  BY <1>2, <1>3
<1>5. ASSUME NEW o \in Offsets, offset_ring[r][o] # "sent", NEW U, NEW n, Counts(U, o, n)
      PROVE  {r} \cap U = {} /\ U \cap {r} = {}
  BY <1>5 DEF Counts
<1>6. ASSUME NEW U \in SUBSET Requesters, NEW o \in Offsets, NEW n, Counts(U, o, n)
      PROVE  Counts(U, o, n)'
  BY <1>1, <1>6, CountsKept
<1>7. ASSUME NEW g \in net', g.type = "REQUEST", Unrepaired(g.off)
      PROVE  Counts(X[g], g.off, Contribution(g))'
  <2>1. CASE g \in Answered(r) /\ X[g] = {r}
    <3>1. Contribution(g) = 1 /\ offset_ring'[r][g.off] = "sent"
      BY <1>1, <1>7, <2>1
    <3> QED BY <2>1, <3>1, FS_Singleton DEF Counts
  <2>2. CASE g \in net /\ X[g] = W[g]
    <3>1. Counts(W[g], g.off, Contribution(g)) /\ g.off \in Offsets
      BY <1>2, <1>7, <2>2, CountTypes DEF Counted
    <3>2. X[g] \in SUBSET Requesters
      BY <1>4
    <3> QED BY <1>6, <2>2, <3>1, <3>2
  <2> QED BY <1>4, <1>7, <2>1, <2>2
<1>8. ASSUME NEW R \in Routers, NEW i \in SlotIds, NEW o \in Offsets,
             OpenFor(g_slots[R][i], o), Unrepaired(o)
      PROVE  Counts(V[R][i], o, g_slots[R][i].agg_count)'
  <2>1. PICK n : n = g_slots[R][i].agg_count
    OBVIOUS
  <2>2. Counts(V[R][i], o, n) /\ V[R][i] \in SUBSET Requesters
    BY <1>2, <1>8, <2>1 DEF Counted
  <2>3. Counts(V[R][i], o, n)'
    BY <1>6, <2>2
  <2> QED BY <2>1, <2>3
<1>9. ASSUME NEW g \in net', NEW h \in net', g.type = "REQUEST", h.type = "REQUEST",
             g # h, g.off = h.off, Unrepaired(g.off)
      PROVE  X[g] \cap X[h] = {}
  <2>1. CASE g \in net /\ X[g] = W[g] /\ h \in net /\ X[h] = W[h]
    BY <1>2, <1>9, <2>1 DEF Counted
  <2>2. CASE g \in Answered(r) /\ h \in Answered(r)
    BY <1>1, <1>9, <2>2
  <2>3. CASE g \in Answered(r) /\ X[g] = {r} /\ h \in net /\ X[h] = W[h]
    <3>1. Counts(W[h], g.off, Contribution(h))
      BY <1>2, <1>9, <2>3 DEF Counted
    <3> QED BY <1>1, <1>5, <1>9, <2>3, <3>1
  <2>4. CASE h \in Answered(r) /\ X[h] = {r} /\ g \in net /\ X[g] = W[g]
    <3>1. Counts(W[g], h.off, Contribution(g))
      BY <1>2, <1>9, <2>4 DEF Counted
    <3> QED BY <1>1, <1>5, <1>9, <2>4, <3>1
  <2> QED BY <1>4, <1>9, <2>1, <2>2, <2>3, <2>4
<1>10. ASSUME NEW g \in net', NEW R \in Routers, NEW i \in SlotIds, g.type = "REQUEST",
              OpenFor(g_slots[R][i], g.off), Unrepaired(g.off)
       PROVE  X[g] \cap V[R][i] = {}
  <2>1. CASE g \in net /\ X[g] = W[g]
    BY <1>2, <1>10, <2>1 DEF Counted
  <2>2. CASE g \in Answered(r) /\ X[g] = {r}
    <3>1. g.off \in Offsets /\ offset_ring[r][g.off] # "sent"
      BY <1>1, <1>10, <2>2
    <3>2. Counts(V[R][i], g.off, g_slots[R][i].agg_count)
      BY <1>2, <1>10, <3>1 DEF Counted
    <3> QED BY <1>5, <2>2, <3>1, <3>2
  <2> QED BY <1>4, <1>10, <2>1, <2>2
<1>11. Counted(X, V)'
  <2>1. \A R, Q \in Routers, i, j \in SlotIds, o \in Offsets :
          /\ <<R, i>> # <<Q, j>> /\ Unrepaired(o)
          /\ OpenFor(g_slots[R][i], o) /\ OpenFor(g_slots[Q][j], o)
          => V[R][i] \cap V[Q][j] = {}
    BY <1>2 DEF Counted
  <2> QED BY <1>7, <1>8, <1>9, <1>10, <2>1 DEF Counted, Unrepaired
<1> QED BY <1>2, <1>4, <1>11 DEF CountedInv

-----------------------------------------------------------------------------
(* What credits carry.                                                     *)

\* What a step of a requester adds: it has what the credits carry that it
\* accepts and answers, and it keeps every result.
RequesterCarries ==
    /\ CountedInv'
    /\ \A q \in Requesters, b \in Offsets : stored[q][b] # NoResult => stored'[q][b] # NoResult
    /\ \A q \in Requesters : \A c \in credit_q'[q] : c \in credit_q[q] \/ Delivered(q, c.off)'
    /\ \A q \in Requesters, o \in Offsets :
          \/ offset_ring'[q][o] = offset_ring[q][o]
          \/ offset_ring'[q][o] # "idle" => Credited(o) /\ Delivered(q, o)'
    /\ \A g \in net' :
          \/ g \in net
          \/ g.type \in {"REGISTER", "END_ACK"}
          \/ /\ g.type \in {"REQUEST", "REPAIR_REQUEST"}
             /\ g.src \in Requesters /\ g.off \in Offsets /\ Delivered(g.src, g.off)

\* The results that credits carry are results of packets.
LEMMA BoundTypes ==
    ASSUME BasicInv
    PROVE  /\ \A o \in Offsets : entries[o] \in Entry
           /\ \A o \in Offsets : entries[o].bound_payload # NoOffset =>
                 entries[o].bound_payload \in Offsets
           /\ \A o \in Offsets : entries[o].repair_bitmap \subseteq Requesters
           /\ \A q \in Requesters : \A c \in credit_q[q] : c.off \in Offsets
           /\ \A f \in net : f.type \in {"REQUEST", "REPAIR_REQUEST"} =>
                 f.src \in Requesters /\ f.off \in Offsets
           /\ \A f \in net : f.type = "RESPONSE" /\ f.credit # NoOffset => f.credit \in Offsets
           /\ meta \in Meta /\ meta.next_credit_offset \in Nat
<1>1. \A o \in Offsets : entries[o] \in Entry
  BY DEF BasicInv, TypeOK, ResponderTypeOK
<1>2. \A o \in Offsets : /\ entries[o].bound_payload # NoOffset => entries[o].bound_payload \in Offsets
                         /\ entries[o].repair_bitmap \subseteq Requesters
  BY <1>1 DEF Entry, OffsetOpt
<1>3. \A q \in Requesters : \A c \in credit_q[q] : c.off \in Offsets
  BY RequesterFacts DEF Credit
<1>4. \A f \in net : f \in Frame
  BY DEF BasicInv, TypeOK
<1>5. \A f \in net : f.type \in {"REQUEST", "REPAIR_REQUEST"} => f.src \in Requesters /\ f.off \in Offsets
  BY <1>4 DEF Frame, ResponseFrame, RequestFrame, MissFrame
<1>6. \A f \in net : f.type = "RESPONSE" /\ f.credit # NoOffset => f.credit \in Offsets
  BY <1>4 DEF Frame, ResponseFrame, RequestFrame, MissFrame, OffsetOpt
<1>7. meta \in Meta /\ meta.next_credit_offset \in Nat
  BY ArborNetAssumption DEF BasicInv, TypeOK, ResponderTypeOK, Meta
<1> QED BY <1>1, <1>2, <1>3, <1>5, <1>6, <1>7

LEMMA RequesterKeepsDelivery ==
    ASSUME BasicInv, DeliveryInv, UNCHANGED responderVars, RequesterCarries
    PROVE  DeliveryInv'
<1>1. UNCHANGED <<meta, entries>>
  BY DEF responderVars
<1>2. \A q \in Requesters, o \in Offsets : Delivered(q, o) => Delivered(q, o)'
  BY <1>1, BoundTypes DEF RequesterCarries, Delivered
<1>3. CreditsOnce'
  BY <1>1 DEF DeliveryInv, CreditsOnce, RequesterCarries, Credited
<1>4. \A f \in net' : f.type = "RESPONSE" /\ f.credit # NoOffset =>
        f.payload = entries'[f.credit].bound_payload
  BY <1>1 DEF DeliveryInv, CarriedInv, RequesterCarries
<1>5. \A q \in Requesters : \A c \in credit_q'[q] : Delivered(q, c.off)'
  BY <1>2, BoundTypes DEF DeliveryInv, CarriedInv, RequesterCarries
<1>6. \A q \in Requesters, o \in Offsets : offset_ring'[q][o] # "idle" => Delivered(q, o)'
  BY <1>2 DEF DeliveryInv, CarriedInv, RequesterCarries
<1>7. \A f \in net' : (f.type = "REQUEST" /\ ~f.aggregated) \/ f.type = "REPAIR_REQUEST" =>
        Delivered(f.src, f.off)'
  <2> SUFFICES ASSUME NEW f \in net',
                      (f.type = "REQUEST" /\ ~f.aggregated) \/ f.type = "REPAIR_REQUEST"
               PROVE  Delivered(f.src, f.off)'
    OBVIOUS
  <2>1. f.src \in Requesters /\ f.off \in Offsets /\ Delivered(f.src, f.off)
    BY BoundTypes DEF DeliveryInv, CarriedInv, RequesterCarries
  <2> QED BY <1>2, <2>1
<1>8. \A o \in Offsets : \A q \in entries'[o].repair_bitmap : Delivered(q, o)'
  BY <1>1, <1>2, BoundTypes DEF DeliveryInv, CarriedInv
<1>9. CarriedIsDelivered'
  BY <1>1, <1>2 DEF DeliveryInv, CarriedInv, CarriedIsDelivered, Delivered
<1>10. CarriedInv'
  BY <1>4, <1>5, <1>6, <1>7, <1>8, <1>9 DEF CarriedInv
<1> QED BY <1>3, <1>10 DEF DeliveryInv, RequesterCarries

\* A step of a requester that accepts and answers nothing.
LEMMA CarriesQuiet ==
    ASSUME BasicInv, DeliveryInv,
           UNCHANGED <<g_slots, entries, stored, offset_ring, credit_q>>,
           \A g \in net' : g \in net \/ g.type \in {"REGISTER", "END_ACK"}
    PROVE  RequesterCarries
<1>1. CountedInv'
  BY CountedKept DEF DeliveryInv, Unrepaired
<1> QED BY <1>1 DEF RequesterCarries

LEMMA RxResponseCarries ==
    ASSUME BasicInv, ExactInv, DeliveryInv, NEW r \in Requesters, NEW f \in net,
           RxResponse(r, f), UNCHANGED <<g_slots, entries>>
    PROVE  RequesterCarries
<1> DEFINE done    == Completed(r) \cup ({f.payload} \ {NoOffset})
           ignored == CreditIgnored(r, f, done)
<1>1. f \in ResponseFrame /\ f.type = "RESPONSE"
  BY ResponseKind DEF BasicInv, RouterInv, NetSound, RxResponse, Arrives
<1>2. /\ stored \in [Requesters -> [Offsets -> Payloads \cup {NoResult}]]
      /\ offset_ring \in [Requesters -> [Offsets -> {"idle", "pending", "sent"}]]
      /\ credit_q \in [Requesters -> SUBSET Credit]
  BY RequesterFacts DEF RequesterTypeOK
<1>3. /\ stored' = IF f.payload = NoOffset THEN stored
                   ELSE [stored EXCEPT ![r][f.payload] = f.data]
      /\ net' = net \ {f}
  BY DEF RxResponse, Taken
<1>4. f.payload # NoOffset => f.payload \in Offsets /\ f.data # NoResult
  <2>1. f.payload # NoOffset => f.payload \in Offsets /\ f.data = Exact(f.payload)
    BY <1>1 DEF ExactInv, ResultInv, ResponsesExact, ResponseFrame, OffsetOpt
  <2> QED BY <2>1, ExactIsResult
<1>5. /\ \A q \in Requesters, b \in Offsets : stored[q][b] # NoResult => stored'[q][b] # NoResult
      /\ f.payload # NoOffset => stored'[r][f.payload] # NoResult
  BY <1>2, <1>3, <1>4
<1>6. CASE ignored
  <2>1. UNCHANGED <<offset_ring, credit_q>>
    BY <1>6 DEF RxResponse
  <2>2. CountedInv'
    BY <1>3, <2>1, CountedKept DEF DeliveryInv, Unrepaired
  <2> QED BY <1>3, <1>5, <2>1, <2>2 DEF RequesterCarries
<1>7. CASE ~ignored
  <2>1. /\ f.credit # NoOffset /\ f.credit \in Offsets
        /\ ~f.repair => offset_ring[r][f.credit] = "idle"
    BY <1>1, <1>7 DEF CreditIgnored, ResponseFrame, OffsetOpt
  <2>2. f.repair => ~Unrepaired(f.credit)
    BY <1>1, <2>1, ExactFacts DEF RepairMarked, Unrepaired
  <2>3. PICK c : /\ c.off = f.credit
                 /\ offset_ring' = [offset_ring EXCEPT ![r][f.credit] =
                                      IF f.repair THEN "idle" ELSE "pending"]
                 /\ credit_q' = [credit_q EXCEPT ![r] = credit_q[r] \cup {c}]
    BY <1>7 DEF RxResponse
  <2>4. /\ offset_ring'[r][f.credit] = IF f.repair THEN "idle" ELSE "pending"
        /\ \A q \in Requesters, o \in Offsets :
              offset_ring'[q][o] = offset_ring[q][o] \/ (q = r /\ o = f.credit)
        /\ \A q \in Requesters : \A d \in credit_q'[q] : d \in credit_q[q] \/ (q = r /\ d = c)
    BY <1>2, <2>1, <2>3
  <2>5. CountedInv'
    <3>1. \A q \in Requesters, o \in Offsets :
            Unrepaired(o) /\ offset_ring[q][o] = "sent" => offset_ring'[q][o] = "sent"
      BY <2>1, <2>2, <2>4
    <3> QED BY <1>3, <3>1, CountedKept DEF DeliveryInv, Unrepaired
  <2>6. Credited(f.credit) /\ f.payload = entries[f.credit].bound_payload
    BY <1>1, <2>1 DEF BasicInv, CreditFirst, DeliveryInv, CarriedInv
  <2>7. Delivered(r, f.credit)'
    BY <1>5, <2>6 DEF Delivered
  <2> QED BY <1>3, <1>5, <2>3, <2>4, <2>5, <2>6, <2>7 DEF RequesterCarries
<1> QED BY <1>6, <1>7

\* A step of a requester that answers its credits.
LEMMA AnswerCarries ==
    ASSUME BasicInv, ExactInv, DeliveryInv, NEW r \in Requesters,
           UNCHANGED <<g_slots, entries, stored>>,
           offset_ring' = RingAnswered(r), credit_q' = [credit_q EXCEPT ![r] = {}],
           \A g \in net' : g \in net \/ g \in Answered(r) \/ g.type \in {"REGISTER", "END_ACK"}
    PROVE  RequesterCarries
<1>1. CountedInv'
  <2>1. \A g \in net' : g.type = "REQUEST" => g \in net \/ g \in Answered(r)
    OBVIOUS
  <2> QED BY <2>1, AnswerCounted DEF DeliveryInv
<1>2. \A c \in credit_q[r] : Credited(c.off) /\ Delivered(r, c.off)
  BY RequesterFacts DEF DeliveryInv, CarriedInv
<1>3. \A q \in Requesters, o \in Offsets : Delivered(q, o)' <=> Delivered(q, o)
  BY DEF Delivered
<1>4. \A q \in Requesters : credit_q'[q] \subseteq credit_q[q]
  BY RequesterFacts DEF RequesterTypeOK
<1>5. \A q \in Requesters, o \in Offsets :
        \/ offset_ring'[q][o] = offset_ring[q][o]
        \/ offset_ring'[q][o] # "idle" => Credited(o) /\ Delivered(q, o)'
  BY <1>2, <1>3, AnswerFacts
<1>6. \A g \in Answered(r) : /\ g.type \in {"REQUEST", "REPAIR_REQUEST"}
                             /\ g.src \in Requesters /\ g.off \in Offsets
                             /\ Delivered(g.src, g.off)
  BY <1>2, BoundTypes, AnswerFacts
<1> QED BY <1>1, <1>4, <1>5, <1>6 DEF RequesterCarries

\* Every step of a requester.
LEMMA RequesterDelivers ==
    ASSUME BasicInv, ExactInv, DeliveryInv, NEW r \in Requesters, RequesterNext(r)
    PROVE  DeliveryInv'
<1>1. UNCHANGED <<g_slots, entries>> /\ UNCHANGED responderVars
  BY DEF RequesterNext, routerVars, responderVars
<1>2. CASE \E f \in net : RxResponse(r, f)
  BY <1>1, <1>2, RxResponseCarries, RequesterKeepsDelivery
<1>3. CASE \E f \in net : RxRegisterAck(r, f) \/ RxEnd(r, f) \/ AckTombstonedEnd(r, f)
  <2>1. /\ UNCHANGED <<stored, offset_ring, credit_q>>
        /\ \A g \in net' : g \in net \/ g.type \in {"REGISTER", "END_ACK"}
    BY <1>3 DEF RxRegisterAck, RxEnd, AckTombstonedEnd, Taken, EndAck, requesterVars
  <2> QED BY <1>1, <2>1, CarriesQuiet, RequesterKeepsDelivery
<1>4. CASE SendRegister(r)
  <2>1. /\ UNCHANGED <<stored, offset_ring, credit_q>>
        /\ \A g \in net' : g \in net \/ g.type \in {"REGISTER", "END_ACK"}
    BY <1>4 DEF SendRegister, Register
  <2> QED BY <1>1, <2>1, CarriesQuiet, RequesterKeepsDelivery
<1>5. CASE SendRequests(r)
  <2>1. /\ net' = net \cup Answered(r) /\ offset_ring' = RingAnswered(r)
        /\ credit_q' = [credit_q EXCEPT ![r] = {}] /\ UNCHANGED stored
    BY <1>5 DEF SendRequests
  <2> QED BY <1>1, <2>1, AnswerCarries, RequesterKeepsDelivery
<1>6. CASE Finish(r)
  <2>1. net' = net \cup EndAcks(r) /\ UNCHANGED <<stored, offset_ring, credit_q>>
    BY <1>6 DEF Finish
  <2> QED BY <1>1, <2>1, EndAckSrc, CarriesQuiet, RequesterKeepsDelivery
<1>7. CASE FailRegister(r)
  <2>1. PICK beacons :
          net' = net \cup {Register(r, s) : s \in beacons} \cup Answered(r)
                     \cup (IF ReadyToFinish(r) THEN EndAcks(r) ELSE {})
    BY <1>7 DEF FailRegister
  <2>2. /\ offset_ring' = RingAnswered(r) /\ credit_q' = [credit_q EXCEPT ![r] = {}]
        /\ UNCHANGED stored
    BY <1>7 DEF FailRegister
  <2>3. \A s \in beacons : Register(r, s).type = "REGISTER"
    BY DEF Register
  <2>4. \A g \in net' : g \in net \/ g \in Answered(r) \/ g.type \in {"REGISTER", "END_ACK"}
    BY <2>1, <2>3, EndAckSrc
  <2> QED BY <1>1, <2>2, <2>4, AnswerCarries, RequesterKeepsDelivery
<1> QED BY <1>2, <1>3, <1>4, <1>5, <1>6, <1>7 DEF RequesterNext, RequesterWork, RequesterTimer

\* A step that leaves the hosts alone.
LEMMA DeliveryHostsAlone ==
    ASSUME BasicInv, DeliveryInv, UNCHANGED hostVars, CountedInv', NothingNew
    PROVE  DeliveryInv'
<1>1. UNCHANGED <<meta, entries, stored, offset_ring, credit_q>>
  BY DEF hostVars, responderVars, requesterVars
<1>2. CreditsOnce'
  BY <1>1 DEF DeliveryInv, CreditsOnce, Credited
<1>3. \A f \in net' : f.type = "RESPONSE" /\ f.credit # NoOffset =>
        f.payload = entries'[f.credit].bound_payload
  BY <1>1 DEF DeliveryInv, CarriedInv, NothingNew, Repeats
<1>4. \A f \in net' : (f.type = "REQUEST" /\ ~f.aggregated) \/ f.type = "REPAIR_REQUEST" =>
        Delivered(f.src, f.off)'
  BY <1>1 DEF DeliveryInv, CarriedInv, NothingNew, Repeats, Delivered
<1>5. CarriedInv'
  BY <1>1, <1>3, <1>4 DEF DeliveryInv, CarriedInv, CarriedIsDelivered, Delivered
<1> QED BY <1>2, <1>5 DEF DeliveryInv

-----------------------------------------------------------------------------
(* The responder.                                                          *)

\* The part of CreditsOnce that the responder alone keeps.
CreditsInOrder ==
    /\ \A o \in Offsets : Credited(o) => o < meta.next_credit_offset
    /\ meta.sequence_reserved => meta.epoch = Epoch
    /\ meta.epoch # Epoch => \A o \in Offsets : ~Credited(o)

\* What a step may do to the entry of a packet: what its credit carries is
\* fixed with the credit, and it is repaired and done only by requesters that
\* have what it carries.
EntryCarries(o) ==
    \/ /\ entries'[o].bound_payload = entries[o].bound_payload
       /\ \A q \in entries'[o].repair_bitmap : q \in entries[o].repair_bitmap \/ Delivered(q, o)
       /\ entries'[o].done => entries[o].done \/ \A q \in Requesters : Delivered(q, o)
       /\ entries'[o].done \/ entries'[o].repair_bitmap # {} => Credited(o)
    \/ ~Credited(o) /\ ~entries'[o].done /\ entries'[o].repair_bitmap = {}

\* A frame of the responder carries what its credit is bound to.
SentCarries(g) ==
    g.type = "RESPONSE" /\ g.credit # NoOffset => g.payload = entries'[g.credit].bound_payload

ResponderCarries ==
    /\ CreditsInOrder'
    /\ \A o \in Offsets : EntryCarries(o)
    /\ \A g \in net' : g \in net \/ SentCarries(g)

LEMMA ResponderKeepsDelivery ==
    ASSUME BasicInv, ExactInv, DeliveryInv, ResponderNext, ResponderCarries
    PROVE  DeliveryInv'
<1>1. ResponderSends /\ ResponderExact
  BY ResponderPartStep, ResponderExactStep
<1>2. UNCHANGED <<g_slots, stored, offset_ring, credit_q>>
  BY DEF ResponderNext, routerVars, requesterVars
<1>3. \A g \in net' : g.type \in {"REQUEST", "REPAIR_REQUEST"} => g \in net
  BY <1>1 DEF ResponderSends
<1>4. CountedInv'
  <2>1. \A o \in Offsets : Unrepaired(o)' => Unrepaired(o)
    BY <1>1 DEF ResponderExact, Unrepaired
  <2> QED BY <1>2, <1>3, <2>1, CountedKept DEF DeliveryInv
<1>5. \A o \in Offsets : Credited(o) => Credited(o)'
  BY <1>1 DEF ResponderSends
\* What is known of a credited packet is still known.
<1>6. \A o \in Offsets : Credited(o) => entries'[o].bound_payload = entries[o].bound_payload
  BY DEF ResponderCarries, EntryCarries
<1>7. \A q \in Requesters, o \in Offsets : Credited(o) /\ Delivered(q, o) => Delivered(q, o)'
  BY <1>2, <1>6 DEF Delivered
<1>8. CreditsOnce'
  <2>1. \A q \in Requesters, o \in Offsets : offset_ring'[q][o] # "idle" => Credited(o)'
    BY <1>2, <1>5 DEF DeliveryInv, CreditsOnce
  <2>2. \A o \in Offsets : entries'[o].done \/ entries'[o].repair_bitmap # {} => Credited(o)'
    BY <1>5 DEF ResponderCarries, EntryCarries
  <2> QED BY <2>1, <2>2 DEF ResponderCarries, CreditsInOrder, CreditsOnce
<1>9. \A g \in net' : g.type = "RESPONSE" /\ g.credit # NoOffset =>
        g.payload = entries'[g.credit].bound_payload
  <2> SUFFICES ASSUME NEW g \in net, g.type = "RESPONSE", g.credit # NoOffset
               PROVE  g.payload = entries'[g.credit].bound_payload
    BY DEF ResponderCarries, SentCarries
  <2>1. g.credit \in Offsets /\ Credited(g.credit)
    BY BoundTypes DEF BasicInv, CreditFirst
  <2>2. g.payload = entries[g.credit].bound_payload
    BY DEF DeliveryInv, CarriedInv
  <2> QED BY <1>6, <2>1, <2>2
<1>10. \A q \in Requesters : \A c \in credit_q'[q] : Delivered(q, c.off)'
  BY <1>2, <1>7, BoundTypes DEF DeliveryInv, CarriedInv, BasicInv, CreditFirst
<1>11. \A q \in Requesters, o \in Offsets : offset_ring'[q][o] # "idle" => Delivered(q, o)'
  BY <1>2, <1>7 DEF DeliveryInv, CarriedInv, CreditsOnce
<1>12. \A g \in net' : (g.type = "REQUEST" /\ ~g.aggregated) \/ g.type = "REPAIR_REQUEST" =>
         Delivered(g.src, g.off)'
  BY <1>3, <1>7, BoundTypes DEF DeliveryInv, CarriedInv, BasicInv, CreditFirst
<1>13. ASSUME NEW o \in Offsets
       PROVE  /\ \A q \in entries'[o].repair_bitmap : q \in Requesters => Delivered(q, o)'
              /\ entries'[o].done => \A q \in Requesters : Delivered(q, o)'
  <2>1. /\ \A q \in entries[o].repair_bitmap : Delivered(q, o)
        /\ entries[o].done => \A q \in Requesters : Delivered(q, o)
    BY DEF DeliveryInv, CarriedInv, CarriedIsDelivered, Delivered
  <2> QED BY <1>7, <2>1 DEF ResponderCarries, EntryCarries
<1>14. \A o \in Offsets : entries'[o].repair_bitmap \subseteq Requesters
  <2>1. \A o \in Offsets : entries'[o] \in Entry
    BY ResponderKeeps DEF BasicInv, TypeOK, ResponderTypeOK
  <2> QED BY <2>1 DEF Entry
<1>15. CarriedIsDelivered'
  BY <1>13 DEF CarriedIsDelivered, Delivered
<1>16. CarriedInv'
  BY <1>9, <1>10, <1>11, <1>12, <1>13, <1>14, <1>15 DEF CarriedInv
<1> QED BY <1>4, <1>8, <1>16 DEF DeliveryInv

\* The order of the credits does not change with anything but a credit or a
\* registration.
LEMMA OrderKept ==
    ASSUME DeliveryInv, \A o \in Offsets : entries'[o].credit_sent = entries[o].credit_sent,
           meta'.epoch = meta.epoch, meta'.next_credit_offset = meta.next_credit_offset,
           meta'.sequence_reserved => meta.sequence_reserved
    PROVE  CreditsInOrder'
BY DEF DeliveryInv, CreditsOnce, CreditsInOrder, Credited

\* An entry that does not change.
LEMMA EntryStays ==
    ASSUME DeliveryInv, NEW o \in Offsets,
           entries'[o].bound_payload = entries[o].bound_payload,
           entries'[o].repair_bitmap = entries[o].repair_bitmap,
           entries'[o].done = entries[o].done
    PROVE  EntryCarries(o)
BY DEF DeliveryInv, CreditsOnce, EntryCarries

\* Results that no credit carries, END and REGISTER_ACK.
LEMMA BareSent ==
    ASSUME NEW g,
           \/ g \in EndFrames
           \/ \E o, rep : g \in ResultFrames(o, rep)
           \/ \E r, s : g = RegisterAck(r, s)
    PROVE  SentCarries(g)
BY DEF EndFrames, ResultFrames, ToAll, End, Response, RegisterAck, SentCarries

\* Taking REGISTER restarts a message of another epoch, which has no credits.
LEMMA RxRegisterCarries ==
    ASSUME BasicInv, DeliveryInv, NEW f \in net, RxRegister(f)
    PROVE  ResponderCarries
<1>1. UNCHANGED entries /\ net' \subseteq net
  BY DEF RxRegister, Taken
<1>2. meta \in Meta /\ meta.next_credit_offset \in Nat
  BY BoundTypes
<1>3. /\ Upserted.epoch = Epoch
      /\ meta.epoch = Epoch => Upserted.next_credit_offset = meta.next_credit_offset
  BY <1>2 DEF Upserted, FreshMeta, Meta
<1> DEFINE m == [Upserted EXCEPT !.registered_bitmap[f.sub] = @ \cup {f.src}]
<1>4. m.epoch = Upserted.epoch /\ m.next_credit_offset = Upserted.next_credit_offset
  BY <1>2 DEF Upserted, FreshMeta, Meta
<1>5. meta' = m \/ \E R, A : meta' = [m EXCEPT !.registered_ready = R, !.register_ack_pending = A]
  BY DEF RxRegister
<1>6. meta'.epoch = m.epoch
  <2>1. \A R, A : [m EXCEPT !.registered_ready = R, !.register_ack_pending = A].epoch = m.epoch
    BY <1>2 DEF Upserted, FreshMeta, Meta
  <2> HIDE DEF m
  <2> QED BY <1>5, <2>1
<1>7. meta'.next_credit_offset = m.next_credit_offset
  <2>1. \A R, A : [m EXCEPT !.registered_ready = R, !.register_ack_pending = A].next_credit_offset
                    = m.next_credit_offset
    BY <1>2 DEF Upserted, FreshMeta, Meta
  <2> HIDE DEF m
  <2> QED BY <1>5, <2>1
<1> HIDE DEF m
<1>8. CreditsInOrder'
  <2>1. meta'.epoch = Epoch
    BY <1>3, <1>4, <1>6
  <2>2. \A o \in Offsets : Credited(o)' => Credited(o)
    BY <1>1 DEF Credited
  <2>3. ASSUME NEW o \in Offsets, Credited(o) PROVE o < meta'.next_credit_offset
    <3>1. o < meta.next_credit_offset /\ meta.epoch = Epoch
      BY <2>3 DEF DeliveryInv, CreditsOnce
    <3>2. meta'.next_credit_offset = meta.next_credit_offset
      BY <1>3, <1>4, <1>7, <3>1
    <3> QED BY <3>1, <3>2
  <2> QED BY <2>1, <2>2, <2>3 DEF CreditsInOrder
<1>9. \A o \in Offsets : EntryCarries(o)
  BY <1>1, EntryStays
<1> QED BY <1>1, <1>8, <1>9 DEF ResponderCarries

\* A step that leaves the entries alone and sends no credit.
LEMMA BareCarries ==
    ASSUME DeliveryInv, UNCHANGED entries,
           meta'.epoch = meta.epoch, meta'.next_credit_offset = meta.next_credit_offset,
           meta'.sequence_reserved => meta.sequence_reserved,
           \A g \in net' : g \in net \/ SentCarries(g)
    PROVE  ResponderCarries
BY OrderKept, EntryStays DEF ResponderCarries

LEMMA FlushRegisterAcksCarries ==
    ASSUME BasicInv, DeliveryInv, FlushRegisterAcks
    PROVE  ResponderCarries
<1>1. UNCHANGED entries
  BY DEF FlushRegisterAcks
<1>2. /\ meta'.epoch = meta.epoch /\ meta'.next_credit_offset = meta.next_credit_offset
      /\ meta'.sequence_reserved = meta.sequence_reserved
  BY BoundTypes DEF FlushRegisterAcks, Meta
<1>3. \A g \in net' : g \in net \/ SentCarries(g)
  BY BareSent DEF FlushRegisterAcks
<1> QED BY <1>1, <1>2, <1>3, BareCarries

LEMMA FlushPendingCarries ==
    ASSUME BasicInv, DeliveryInv, FlushPending
    PROVE  ResponderCarries
<1>1. \A g \in net' : g \in net \/ \E o : g \in ResultFrames(o, FALSE)
  BY DEF FlushPending
<1> QED BY <1>1, BareSent, BareCarries DEF FlushPending

LEMMA EndRetryCarries ==
    ASSUME BasicInv, DeliveryInv, EndRetry
    PROVE  ResponderCarries
<1>1. \A g \in net' : g \in net \/ g \in EndFrames \/ \E o : g \in ResultFrames(o, TRUE)
  BY DEF EndRetry
<1> QED BY <1>1, BareSent, BareCarries DEF EndRetry

LEMMA RxEndAckCarries ==
    ASSUME BasicInv, DeliveryInv, NEW f \in net, RxEndAck(f)
    PROVE  ResponderCarries
<1> DEFINE mask == meta.end_ack_mask \cup {f.src}
<1>1. UNCHANGED entries /\ net' \subseteq net
  BY DEF RxEndAck, Taken
<1>2. /\ meta \in Meta
      /\ \/ meta' = meta
         \/ meta' = [meta EXCEPT !.end_ack_mask = mask]
         \/ meta' = [meta EXCEPT !.end_ack_mask = mask, !.sequence_reserved = FALSE,
                                 !.reuse_ready = TRUE]
  BY BoundTypes DEF RxEndAck
<1> HIDE DEF mask
<1>3. /\ meta'.epoch = meta.epoch /\ meta'.next_credit_offset = meta.next_credit_offset
      /\ meta'.sequence_reserved => meta.sequence_reserved
  BY <1>2 DEF Meta
<1> QED BY <1>1, <1>3, BareCarries

\* One entry changes; all credits stay as they are.
LEMMA OneEntryCarries ==
    ASSUME BasicInv, DeliveryInv, NEW o \in Offsets, NEW e, entries' = [entries EXCEPT ![o] = e],
           e.credit_sent = entries[o].credit_sent, e.bound_payload = entries[o].bound_payload,
           \A q \in e.repair_bitmap : q \in entries[o].repair_bitmap \/ Delivered(q, o),
           e.done => entries[o].done \/ \A q \in Requesters : Delivered(q, o),
           e.done \/ e.repair_bitmap # {} => Credited(o),
           UNCHANGED meta,
           \A g \in net' : g \in net \/ SentCarries(g)
    PROVE  ResponderCarries
<1>1. entries'[o] = e /\ \A x \in Offsets : x # o => entries'[x] = entries[x]
  BY DEF BasicInv, TypeOK, ResponderTypeOK
<1>2. CreditsInOrder'
  BY <1>1, OrderKept
<1>3. EntryCarries(o)
  BY <1>1 DEF EntryCarries
<1>4. \A x \in Offsets : x # o => EntryCarries(x)
  BY <1>1, EntryStays
<1> QED BY <1>2, <1>3, <1>4 DEF ResponderCarries

\* An aggregate that counts as many as there are requesters counts them all,
\* and each has what the credit carried.
LEMMA AggregateDelivers ==
    ASSUME BasicInv, DeliveryInv, NEW f \in net, f.type = "REQUEST", f.aggregated, f.count = N,
           Unrepaired(f.off)
    PROVE  \A q \in Requesters : Delivered(q, f.off)
<1>1. PICK W \in [net -> SUBSET Requesters],
           V \in [Routers -> [SlotIds -> SUBSET Requesters]] : Counted(W, V)
  BY DEF DeliveryInv, CountedInv
<1>2. Counts(W[f], f.off, N) /\ W[f] \in SUBSET Requesters
  BY <1>1 DEF Counted, Contribution
<1>3. W[f] = Requesters
  BY <1>2, ArborNetAssumption, FS_Subset DEF Counts, N
<1>4. \A q \in Requesters : offset_ring[q][f.off] # "idle"
  BY <1>2, <1>3 DEF Counts
<1> QED BY <1>4, CountTypes DEF DeliveryInv, CarriedInv

\* commit_entry_response on an entry whose credit everyone has had.
LEMMA CommitCarries ==
    ASSUME BasicInv, DeliveryInv, NEW o \in Offsets, NEW e \in Entry, NEW sum,
           NEW frames \in SUBSET net, Commit(o, e, sum, frames), UNCHANGED meta, Credited(o),
           e.credit_sent = entries[o].credit_sent, e.bound_payload = entries[o].bound_payload,
           \A q \in e.repair_bitmap : q \in entries[o].repair_bitmap \/ Delivered(q, o),
           \A q \in Requesters : Delivered(q, o)
    PROVE  ResponderCarries
<1> DEFINE n == [e EXCEPT !.committed = TRUE, !.done = TRUE,
                          !.result = Plus(Fragment(Responder, o), sum)]
<1>1. entries' = [entries EXCEPT ![o] = n] /\ net' \subseteq frames \cup EndFrames
  BY DEF Commit, EndTail
<1>2. /\ n.credit_sent = e.credit_sent /\ n.bound_payload = e.bound_payload
      /\ n.repair_bitmap = e.repair_bitmap
  BY DEF Entry
<1> HIDE DEF n
<1>3. \A g \in net' : g \in net \/ SentCarries(g)
  BY <1>1, BareSent
<1> QED BY <1>1, <1>2, <1>3, OneEntryCarries

LEMMA RxRequestCarries ==
    ASSUME BasicInv, DeliveryInv, NEW f \in net, RxRequest(f)
    PROVE  ResponderCarries
<1>1. f.type = "REQUEST" /\ f.off \in Offsets /\ f.src \in Requesters /\ Credited(f.off)
  BY BoundTypes DEF RxRequest, Arrives, BasicInv, CreditFirst
<1> DEFINE o == f.off
           e == entries[o]
<1>2. UNCHANGED meta /\ Taken(f) \in SUBSET net /\ e \in Entry
  BY <1>1, BoundTypes DEF RxRequest, Taken
<1>3. ~RequestDropped(f) /\ f.aggregated => \A q \in Requesters : Delivered(q, o)
  BY <1>1, AggregateDelivers DEF RequestDropped, Unrepaired
<1>4. CASE net' = Taken(f) /\ UNCHANGED <<entries, pending, ending>>
  BY <1>2, <1>4, BareCarries
<1>5. CASE /\ ~RequestDropped(f) /\ f.aggregated
           /\ entries' = [entries EXCEPT ![o].done = TRUE]
           /\ EndTail(entries', Taken(f))
  <2> DEFINE n == [e EXCEPT !.done = TRUE]
  <2>1. /\ n.credit_sent = e.credit_sent /\ n.bound_payload = e.bound_payload
        /\ n.repair_bitmap = e.repair_bitmap
    BY <1>2 DEF Entry
  <2>2. entries' = [entries EXCEPT ![o] = n]
    BY <1>5
  <2> HIDE DEF n
  <2>3. \A g \in net' : g \in net \/ SentCarries(g)
    BY <1>2, <1>5, BareSent DEF EndTail
  <2> QED BY <1>1, <1>2, <1>3, <1>5, <2>1, <2>2, <2>3, OneEntryCarries
<1>6. CASE /\ net' = Taken(f) \cup ResultFrames(o, TRUE)
           /\ UNCHANGED <<entries, pending, ending>>
  <2>1. \A g \in net' : g \in net \/ SentCarries(g)
    BY <1>2, <1>6, BareSent
  <2> QED BY <1>2, <1>6, <2>1, BareCarries
<1>7. CASE ~RequestDropped(f) /\ Commit(o, e, f.data, Taken(f))
  <2>1. \A q \in Requesters : Delivered(q, o)
    <3>1. CASE ~f.aggregated
      <4>1. Delivered(f.src, o)
        BY <1>1, <3>1 DEF DeliveryInv, CarriedInv
      <4>2. Requesters = {f.src}
        BY <1>1, <1>7, <3>1, LoneRequester DEF RequestDropped
      <4> QED BY <4>1, <4>2
    <3> QED BY <1>3, <1>7, <3>1
  <2> QED BY <1>1, <1>2, <1>7, <2>1, CommitCarries
<1> QED BY <1>4, <1>5, <1>6, <1>7 DEF RxRequest

\* Who asks for a repair has had the credit or its trigger.
LEMMA RxRepairCarries ==
    ASSUME BasicInv, DeliveryInv, NEW f \in net, RxRepair(f)
    PROVE  ResponderCarries
<1> DEFINE o    == f.off
           e    == entries[o]
           r    == RepairedBy(e, f)
           full == r.repair_bitmap = Requesters
<1>1. /\ f.type = "REPAIR_REQUEST" /\ o \in Offsets /\ f.src \in Requesters /\ Credited(o)
      /\ Delivered(f.src, o)
  BY BoundTypes DEF RxRepair, Arrives, BasicInv, CreditFirst, DeliveryInv, CarriedInv
<1>2. f.data \in Payloads
  <2>1. f \in Frame
    BY DEF BasicInv, TypeOK
  <2> QED BY <1>1, <2>1 DEF Frame, ResponseFrame, RequestFrame, MissFrame
<1>3. e \in Entry /\ r \in Entry
  BY <1>1, <1>2, BoundTypes, RepairedByType
<1>4. /\ r.credit_sent = e.credit_sent /\ r.bound_payload = e.bound_payload /\ r.done = e.done
      /\ \A q \in r.repair_bitmap : q \in e.repair_bitmap \/ q = f.src
  BY <1>3 DEF RepairedBy, Entry
<1>5. \A q \in r.repair_bitmap : Delivered(q, o)
  BY <1>1, <1>4 DEF DeliveryInv, CarriedInv
<1>6. UNCHANGED meta /\ Taken(f) \in SUBSET net
  BY DEF RxRepair, Taken
<1>7. CASE full /\ Commit(o, r, r.repair_accum, Taken(f))
  <2>1. \A q \in Requesters : Delivered(q, o)
    BY <1>5, <1>7
  <2> HIDE DEF r
  <2> QED BY <1>1, <1>3, <1>4, <1>5, <1>6, <1>7, <2>1, CommitCarries
<1>8. CASE entries' = [entries EXCEPT ![o] = [r EXCEPT !.done = r.done \/ full]] /\ net' = Taken(f)
  <2> DEFINE n == [r EXCEPT !.done = r.done \/ full]
  <2>1. /\ n.credit_sent = e.credit_sent /\ n.bound_payload = e.bound_payload
        /\ n.repair_bitmap = r.repair_bitmap /\ n.done = (e.done \/ full)
    BY <1>3, <1>4 DEF Entry
  <2>2. entries' = [entries EXCEPT ![o] = n]
    BY <1>8
  <2>3. full => \A q \in Requesters : Delivered(q, o)
    BY <1>5
  <2> HIDE DEF n, r, full
  <2>4. n.done => entries[o].done \/ \A q \in Requesters : Delivered(q, o)
    BY <2>1, <2>3
  <2>5. \A q \in n.repair_bitmap : q \in entries[o].repair_bitmap \/ Delivered(q, o)
    BY <1>5, <2>1
  <2> QED BY <1>1, <1>6, <1>8, <2>1, <2>2, <2>4, <2>5, OneEntryCarries
<1>9. CASE UNCHANGED entries /\ net' = Taken(f)
  BY <1>6, <1>9, BareCarries
<1>10. [r EXCEPT !.done = @ \/ full] = [r EXCEPT !.done = r.done \/ full]
  BY <1>3 DEF Entry
<1> QED BY <1>7, <1>8, <1>9, <1>10 DEF RxRepair

\* The trigger repeats what the credit carried.
LEMMA TimeoutRepairCarries ==
    ASSUME BasicInv, DeliveryInv, NEW o \in Offsets, TimeoutRepair(o)
    PROVE  ResponderCarries
<1>1. entries[o] \in Entry /\ Credited(o) /\ UNCHANGED meta
  BY BoundTypes DEF TimeoutRepair, Credited
<1>2. PICK n : /\ entries' = [entries EXCEPT ![o] = n]
               /\ n \in {[entries[o] EXCEPT !.repair_mode = TRUE,
                                            !.retry_count = entries[o].retry_count + 1],
                         [entries[o] EXCEPT !.repair_mode = TRUE]}
  BY <1>1 DEF TimeoutRepair, Entry, BasicInv, TypeOK, ResponderTypeOK
<1>3. /\ n.credit_sent = entries[o].credit_sent /\ n.bound_payload = entries[o].bound_payload
      /\ n.repair_bitmap = entries[o].repair_bitmap /\ n.done = entries[o].done
  BY <1>1, <1>2 DEF Entry
<1>4. entries'[o] = n
  BY <1>2 DEF BasicInv, TypeOK, ResponderTypeOK
<1>5. ASSUME NEW g \in net', g \notin net PROVE SentCarries(g)
  <2> DEFINE b    == entries[o].bound_payload
             data == IF b = NoOffset THEN Zero ELSE entries[b].result
  <2>1. PICK q \in Requesters :
          g = [type |-> "RESPONSE", dst |-> q, sub |-> entries[o].sub, credit |-> o,
               payload |-> b, data |-> data, repair |-> TRUE, locs |-> <<>>, copy |-> FALSE]
    BY <1>5 DEF TimeoutRepair, TriggerFrames, ToAll, Response
  <2> HIDE DEF b, data
  <2>2. g.payload = b /\ g.credit = o
    BY <2>1
  <2> QED BY <1>3, <1>4, <2>2 DEF SentCarries, b
<1> QED BY <1>1, <1>2, <1>3, <1>5, OneEntryCarries

\* A credit is bound as it leaves, and its entry is new.
LEMMA IssueCreditCarries ==
    ASSUME BasicInv, DeliveryInv, NEW s \in Subchannels, IssueCredit(s)
    PROVE  ResponderCarries
<1> DEFINE o == meta.next_credit_offset
           e == [entries[o] EXCEPT !.credit_sent = TRUE, !.sub = s]
<1>1. /\ meta \in Meta /\ entries \in [Offsets -> Entry] /\ CanIssue(s)
      /\ meta' = [meta EXCEPT !.next_credit_offset = meta.next_credit_offset + 1]
  BY DEF IssueCredit, Meta, BasicInv, TypeOK, ResponderTypeOK
<1>2. o \in Offsets
  BY <1>1, ArborNetAssumption DEF Meta, CanIssue, Offsets
<1>3. /\ meta'.epoch = meta.epoch /\ meta'.next_credit_offset = o + 1
      /\ meta'.sequence_reserved = meta.sequence_reserved
  BY <1>1 DEF Meta
<1>4. ~Credited(o) /\ ~entries[o].done /\ entries[o].repair_bitmap = {} /\ meta.epoch = Epoch
  <2>1. ~Credited(o)
    BY <1>2, BoundTypes DEF DeliveryInv, CreditsOnce
  <2> QED BY <1>1, <1>2, <2>1 DEF DeliveryInv, CreditsOnce, CanIssue
<1>5. /\ entries[o] \in Entry /\ e \in Entry
      /\ e.done = entries[o].done /\ e.repair_bitmap = entries[o].repair_bitmap
  <2>1. entries[o] \in Entry
    BY <1>1, <1>2
  <2> HIDE DEF o
  <2> QED BY <2>1 DEF Entry
\* What both kinds of credit establish.
<1>6. ASSUME NEW b, NEW data, net' = net \cup CreditFrames(s, o, b, data),
             entries'[o].bound_payload = b, entries'[o].done = e.done,
             entries'[o].repair_bitmap = e.repair_bitmap,
             \A x \in Offsets : x # o =>
                /\ entries'[x].credit_sent = entries[x].credit_sent
                /\ entries'[x].bound_payload = entries[x].bound_payload
                /\ entries'[x].done = entries[x].done
                /\ entries'[x].repair_bitmap = entries[x].repair_bitmap
      PROVE  ResponderCarries
  <2>1. CreditsInOrder'
    <3>1. \A x \in Offsets : Credited(x)' => x = o \/ Credited(x)
      BY <1>6 DEF Credited
    <3>2. \A x \in Offsets : x = o \/ Credited(x) => x < o + 1
      BY <1>2, BoundTypes DEF DeliveryInv, CreditsOnce, Offsets
    <3> QED BY <1>3, <1>4, <3>1, <3>2 DEF CreditsInOrder
  <2>2. \A x \in Offsets : EntryCarries(x)
    <3>1. EntryCarries(o)
      BY <1>4, <1>5, <1>6 DEF EntryCarries
    <3>2. \A x \in Offsets : x # o => EntryCarries(x)
      BY <1>6, EntryStays
    <3> QED BY <3>1, <3>2
  <2>3. ASSUME NEW g \in CreditFrames(s, o, b, data) PROVE SentCarries(g)
    <3>1. PICK R \in Roots :
            g = [type |-> "RESPONSE", dst |-> R, sub |-> s, credit |-> o, payload |-> b,
                 data |-> data, repair |-> FALSE, locs |-> <<>>, copy |-> FALSE]
      BY DEF CreditFrames, Response
    <3>2. g.payload = b /\ g.credit = o
      BY <3>1
    <3> QED BY <1>6, <3>2 DEF SentCarries
  <2> QED BY <1>6, <2>1, <2>2, <2>3 DEF ResponderCarries
<1>7. CASE Pull
  <2> DEFINE carried == pending # <<>> /\ entries[Head(pending)].bound_by = NoOffset
             b       == IF carried THEN Head(pending) ELSE NoOffset
             bound   == [e EXCEPT !.bound_payload = b]
             data    == IF carried THEN entries[b].result ELSE Zero
  <2>1. /\ entries' = [x \in Offsets |->
                        IF x = o THEN bound
                        ELSE IF x = b THEN [entries[x] EXCEPT !.bound_by = o]
                        ELSE entries[x]]
        /\ net' = net \cup CreditFrames(s, o, b, data)
    BY <1>7 DEF IssueCredit, IssuePullCredit
  <2> HIDE DEF b, data
  <2>2. bound.bound_payload = b /\ bound.done = e.done /\ bound.repair_bitmap = e.repair_bitmap
    BY <1>5 DEF Entry
  <2> HIDE DEF bound, e
  <2>3. entries'[o] = bound
    BY <1>2, <2>1
  <2> HIDE DEF o
  <2>4. ASSUME NEW x \in Offsets, x # o
        PROVE  /\ entries'[x].credit_sent = entries[x].credit_sent
               /\ entries'[x].bound_payload = entries[x].bound_payload
               /\ entries'[x].done = entries[x].done
               /\ entries'[x].repair_bitmap = entries[x].repair_bitmap
    <3>1. entries[x] \in Entry
      BY <1>1
    <3>2. entries'[x] = entries[x] \/ entries'[x] = [entries[x] EXCEPT !.bound_by = o]
      BY <2>1, <2>4
    <3> QED BY <3>1, <3>2 DEF Entry
  <2> QED BY <1>6, <2>1, <2>2, <2>3, <2>4
<1>8. CASE ~Pull
  <2> DEFINE res == Fragment(Responder, o)
             n   == [e EXCEPT !.committed = TRUE, !.result = res,
                              !.bound_payload = o, !.bound_by = o]
  <2>1. /\ entries' = [entries EXCEPT ![o] = n]
        /\ net' = net \cup CreditFrames(s, o, o, res)
    BY <1>8 DEF IssueCredit, IssuePushCredit
  <2> HIDE DEF res
  <2>2. n.bound_payload = o /\ n.done = e.done /\ n.repair_bitmap = e.repair_bitmap
    BY <1>5 DEF Entry
  <2> HIDE DEF n, e
  <2>3. entries'[o] = n /\ \A x \in Offsets : x # o => entries'[x] = entries[x]
    BY <1>1, <1>2, <2>1
  <2> QED BY <1>6, <2>1, <2>2, <2>3
<1> QED BY <1>7, <1>8

\* Every step of the responder.
LEMMA ResponderDelivers ==
    ASSUME BasicInv, ExactInv, DeliveryInv, ResponderNext
    PROVE  DeliveryInv'
<1>1. CASE UNCHANGED responding
  <2>1. \/ \E f \in net : RxRegister(f) \/ RxRequest(f) \/ RxRepair(f) \/ RxEndAck(f)
        \/ \E s \in Subchannels : IssueCredit(s)
        \/ FlushPending \/ FlushRegisterAcks
        \/ (\E o \in Offsets : TimeoutRepair(o)) \/ EndRetry
        \/ UNCHANGED <<net, meta, entries, pending, ending>>
    BY <1>1 DEF ResponderNext, ResponderWork, ResponderTimer, ResponderReturn, ResponderFail
  <2>2. CASE UNCHANGED <<net, meta, entries, pending, ending>>
    BY <2>2, BareCarries, ResponderKeepsDelivery
  <2>3. CASE ~UNCHANGED <<net, meta, entries, pending, ending>>
    <3>1. ResponderCarries
      BY <2>1, <2>3, RxRegisterCarries, RxRequestCarries, RxRepairCarries, RxEndAckCarries,
         IssueCreditCarries, FlushPendingCarries, FlushRegisterAcksCarries,
         TimeoutRepairCarries, EndRetryCarries
    <3> QED BY <3>1, ResponderKeepsDelivery
  <2> QED BY <2>2, <2>3
<1>2. CASE ResponderReturn \/ ResponderFail
  <2>1. UNCHANGED <<net, meta, entries>>
    BY <1>2 DEF ResponderReturn, ResponderFail
  <2> QED BY <2>1, BareCarries, ResponderKeepsDelivery
<1> QED BY <1>1, <1>2 DEF ResponderNext, ResponderWork, ResponderTimer

-----------------------------------------------------------------------------
(* The inductive invariant.                                                *)

\* With no frame in flight and no packet credited nothing is counted.
LEMMA NothingCarried ==
    ASSUME net = {}, \A R \in Routers, i \in SlotIds : g_slots[R][i].owner = NoOwner,
           \A o \in Offsets : entries[o] = FreshEntry, meta.sequence_reserved => meta.epoch = Epoch,
           offset_ring = [r \in Requesters |-> [o \in Offsets |-> "idle"]],
           credit_q = [r \in Requesters |-> {}]
    PROVE  DeliveryInv
<1>1. /\ FreshEntry.credit_sent = FALSE /\ FreshEntry.done = FALSE
      /\ FreshEntry.repair_bitmap = {} /\ FreshEntry.bound_payload = NoOffset
  BY DEF FreshEntry
<1>2. CreditsOnce /\ CarriedInv
  BY <1>1 DEF CreditsOnce, CarriedInv, CarriedIsDelivered, Credited, Delivered
<1>3. CountedInv
  <2>1. PICK W : W = [f \in net |-> {}]
    OBVIOUS
  <2>2. PICK V : V = [R \in Routers |-> [i \in SlotIds |-> {}]]
    OBVIOUS
  <2>3. W \in [net -> SUBSET Requesters] /\ V \in [Routers -> [SlotIds -> SUBSET Requesters]]
    BY <2>1, <2>2
  <2>4. Counted(W, V)
    BY DEF Counted, OpenFor
  <2> QED BY <2>3, <2>4 DEF CountedInv
<1> QED BY <1>2, <1>3 DEF DeliveryInv

LEMMA InitDelivery ==
    Init => DeliveryInv
<1> SUFFICES ASSUME Init PROVE DeliveryInv
  OBVIOUS
<1>1. net = {} /\ \A R \in Routers, i \in SlotIds : g_slots[R][i].owner = NoOwner
  BY DEF Init, RouterInit, SlotFor
<1>2. (\A o \in Offsets : entries[o] = FreshEntry) /\ ~meta.sequence_reserved
  BY DEF Init, ResponderInit, FreshMeta
<1>3. /\ offset_ring = [r \in Requesters |-> [o \in Offsets |-> "idle"]]
      /\ credit_q = [r \in Requesters |-> {}]
  BY DEF Init, RequesterInit
<1> QED BY <1>1, <1>2, <1>3, NothingCarried

LEMMA DeliveryInductive ==
    ASSUME "REQUEST" \notin DupTypes
    PROVE  BasicInv /\ ExactInv /\ DeliveryInv /\ [Next]_vars => DeliveryInv'
<1> SUFFICES ASSUME BasicInv, ExactInv, DeliveryInv, [Next]_vars PROVE DeliveryInv'
  OBVIOUS
<1>1. CASE RouterNext
  <2>1. RouterStep /\ UNCHANGED hostVars /\ UNCHANGED <<entries, offset_ring>>
    BY <1>1 DEF RouterNext, hostVars, responderVars, requesterVars
  <2> QED BY <2>1, RouterCounted, RouterSays, DeliveryHostsAlone DEF DeliveryInv
<1>2. CASE ResponderNext
  BY <1>2, ResponderDelivers
<1>3. CASE \E r \in Requesters : RequesterNext(r)
  BY <1>3, RequesterDelivers
<1>4. CASE Lose \/ UNCHANGED vars
  <2>1. UNCHANGED hostVars /\ UNCHANGED <<g_slots, entries, offset_ring>> /\ \A g \in net' : g \in net
    BY <1>4 DEF Lose, vars, hostVars, routerVars, responderVars, requesterVars
  <2>2. CountedInv'
    BY <2>1, CountedKept DEF DeliveryInv, Unrepaired
  <2> QED BY <2>1, <2>2, SameRepeats, DeliveryHostsAlone DEF NothingNew
<1>5. CASE Duplicate
  <2>1. PICK f \in net : f.type \in DupTypes /\ net' = net \cup {[f EXCEPT !.copy = TRUE]}
    BY <1>5 DEF Duplicate
  <2>2. UNCHANGED hostVars /\ UNCHANGED <<g_slots, entries, offset_ring>>
    BY <1>5 DEF Duplicate, hostVars, routerVars, responderVars, requesterVars
  <2> DEFINE g == [f EXCEPT !.copy = TRUE]
  <2>3. FrameOK(f)
    BY DEF BasicInv, RouterInv, NetSound
  <2>4. Repeats(g, f) /\ g.type = f.type
    BY <2>1, <2>3, CopyOK DEF Repeats
  <2> HIDE DEF g
  <2>5. net' = net \cup {g} /\ g.type # "REQUEST"
    BY <2>1, <2>4 DEF g
  <2>6. CountedInv'
    <3>1. \A h \in net' : h.type = "REQUEST" => h \in net
      BY <2>5
    <3> QED BY <2>2, <3>1, CountedKept DEF DeliveryInv, Unrepaired
  <2>7. NothingNew
    BY <2>4, <2>5, SameRepeats DEF NothingNew
  <2> QED BY <2>2, <2>6, <2>7, DeliveryHostsAlone
<1> QED BY <1>1, <1>2, <1>3, <1>4, <1>5 DEF Next

LEMMA DeliveryInvariance ==
    ASSUME "REQUEST" \notin DupTypes
    PROVE  Spec => [](BasicInv /\ ExactInv /\ DeliveryInv)
<1>1. Init => BasicInv /\ ExactInv /\ DeliveryInv
  BY InitBasic, InitExact, InitDelivery
<1>2. BasicInv /\ ExactInv /\ DeliveryInv /\ [Next]_vars => (BasicInv /\ ExactInv /\ DeliveryInv)'
  BY BasicInductive, ExactInductive, DeliveryInductive
<1> QED BY <1>1, <1>2, PTL DEF Spec

-----------------------------------------------------------------------------
(* A channel that starts registered.                                       *)

LEMMA RegisteredBasic ==
    InitRegistered => BasicInv
<1> SUFFICES ASSUME InitRegistered PROVE BasicInv
  OBVIOUS
<1>1. Cardinality(Subchannels) \in Nat \ {0} /\ 0 \in Subchannels
  <2>1. Cardinality(Subchannels) \in Nat \ {0}
    BY ArborNetAssumption, FS_CardinalityType, FS_EmptySet
  <2> QED BY <2>1, ArborNetAssumption
<1>2. Zero \in Payloads /\ NoOffset \in OffsetOpt /\ P \in Nat
  BY ZeroPayload, ArborNetAssumption DEF OffsetOpt
<1>3. /\ meta \in Meta /\ meta.registered_bitmap = [s \in Subchannels |-> Requesters]
      /\ meta.registered_ready = Subchannels
  <2>1. meta = [FreshMeta EXCEPT !.epoch = Epoch, !.sequence_reserved = TRUE,
                                 !.registered_bitmap = [s \in Subchannels |-> Requesters],
                                 !.registered_ready = Subchannels]
    BY DEF InitRegistered
  <2>2. PICK all : all = [s \in Subchannels |-> Requesters]
    OBVIOUS
  <2>3. all \in [Subchannels -> SUBSET Requesters]
    BY <2>2
  <2>4. FreshMeta \in Meta
    BY ArborNetAssumption DEF FreshMeta, Meta
  <2>5. meta = [FreshMeta EXCEPT !.epoch = Epoch, !.sequence_reserved = TRUE,
                                 !.registered_bitmap = all, !.registered_ready = Subchannels]
    BY <2>1, <2>2
  <2>6. meta \in Meta /\ meta.registered_bitmap = all /\ meta.registered_ready = Subchannels
    BY <2>3, <2>4, <2>5, ArborNetAssumption DEF Meta
  <2> QED BY <2>2, <2>6
<1>4. /\ FreshEntry \in Entry /\ FreshEntry.credit_sent = FALSE
      /\ FreshEntry.committed = FALSE
  BY <1>2, ResponderAssumption DEF FreshEntry, Entry
<1>5. ResponderTypeOK
  <2>1. entries \in [Offsets -> Entry]
    BY <1>4 DEF InitRegistered
  <2>2. ending \in [sent : BOOLEAN, retries : 0 .. EndMaxRetries] /\ ~ending.sent
    BY ResponderAssumption DEF InitRegistered
  <2>3. pending \in Seq(Offsets)
    BY EmptySeq DEF InitRegistered
  <2> QED BY <1>3, <2>1, <2>2, <2>3 DEF InitRegistered, ResponderTypeOK
<1>6. RequesterTypeOK
  BY <1>1, RequesterAssumption DEF InitRegistered, RequesterTypeOK, NoResult
<1>7. RouterInv
  BY EmptyRouters DEF InitRegistered
<1>8. \A R \in Routers, i \in SlotIds : g_slots[R][i].owner = NoOwner
  BY DEF InitRegistered, RouterInit, SlotFor
<1>9. TypeOK
  BY <1>5, <1>6, <1>7, ArborAssumption DEF InitRegistered, TypeOK, RouterInv, OpenTypeOK
<1>10. \A o \in Offsets : entries[o] = FreshEntry
  BY DEF InitRegistered
<1>11. CreditFirst
  BY <1>4, <1>8, <1>10, EmptySeq DEF InitRegistered, CreditFirst
<1>12. EndMeansDone
  BY DEF InitRegistered, EndMeansDone
<1>13. GateInv
  BY <1>3, <1>4, <1>10 DEF InitRegistered, GateInv, RegistrationGate, Asked
<1> QED BY <1>7, <1>9, <1>11, <1>12, <1>13 DEF BasicInv

LEMMA RegisteredExact ==
    InitRegistered => ExactInv
<1> SUFFICES ASSUME InitRegistered PROVE ExactInv
  OBVIOUS
<1>1. net = {} /\ \A R \in Routers, i \in SlotIds : g_slots[R][i].owner = NoOwner
  BY DEF InitRegistered, RouterInit, SlotFor
<1>2. \A o \in Offsets : entries[o] = FreshEntry
  BY DEF InitRegistered
<1>3. meta.end_ack_mask = {}
  BY DEF InitRegistered, FreshMeta
<1> QED BY <1>1, <1>2, <1>3, NothingSummed DEF InitRegistered

LEMMA RegisteredDelivery ==
    InitRegistered => DeliveryInv
<1> SUFFICES ASSUME InitRegistered PROVE DeliveryInv
  OBVIOUS
<1>1. net = {} /\ \A R \in Routers, i \in SlotIds : g_slots[R][i].owner = NoOwner
  BY DEF InitRegistered, RouterInit, SlotFor
<1>2. (\A o \in Offsets : entries[o] = FreshEntry) /\ meta.epoch = Epoch
  BY DEF InitRegistered, FreshMeta
<1>3. /\ offset_ring = [r \in Requesters |-> [o \in Offsets |-> "idle"]]
      /\ credit_q = [r \in Requesters |-> {}]
  BY DEF InitRegistered
<1> QED BY <1>1, <1>2, <1>3, NothingCarried

-----------------------------------------------------------------------------
(* The theorems.                                                           *)

\* A result that a credit carried is in the hands of every requester once that
\* credit is done, so the END replays may leave it out (send_end_all and the
\* replays before it); the count of an aggregate says it for all of them.
THEOREM CarriedAreDelivered ==
    ASSUME "REQUEST" \notin DupTypes
    PROVE  Spec => []CarriedIsDelivered
<1>1. DeliveryInv => CarriedIsDelivered
  BY DEF DeliveryInv, CarriedInv
<1> QED BY <1>1, DeliveryInvariance, PTL

\* The runs that begin with every requester registered check the same
\* protocol: all that is proved of Spec without regard to repeated requests
\* holds of RegisteredSpec too.
THEOREM RegisteredSafe ==
    RegisteredSpec => [](TypeOK /\ RegistrationGate /\ OkMeansAllDone /\ RouterInv)
<1>1. InitRegistered => BasicInv
  BY RegisteredBasic
<1>2. BasicInv /\ [Next]_vars => BasicInv'
  BY BasicInductive
<1>3. BasicInv => TypeOK /\ RegistrationGate /\ OkMeansAllDone /\ RouterInv
  BY DEF BasicInv, GateInv, EndMeansDone, OkMeansAllDone, AllDone
<1> QED BY <1>1, <1>2, <1>3, PTL DEF RegisteredSpec

\* And so does what is proved of Spec for a network that does not repeat
\* requests.
THEOREM RegisteredResults ==
    ASSUME "REQUEST" \notin DupTypes
    PROVE  RegisteredSpec => [](/\ ExactResult /\ AckedMeansComplete
                                /\ DoubleCountOnlyInRepair /\ CarriedIsDelivered)
<1>1. InitRegistered => BasicInv /\ ExactInv /\ DeliveryInv
  BY RegisteredBasic, RegisteredExact, RegisteredDelivery
<1>2. BasicInv /\ ExactInv /\ DeliveryInv /\ [Next]_vars => (BasicInv /\ ExactInv /\ DeliveryInv)'
  BY BasicInductive, ExactInductive, DeliveryInductive
<1>3. BasicInv /\ ExactInv /\ DeliveryInv =>
        /\ ExactResult /\ AckedMeansComplete /\ DoubleCountOnlyInRepair /\ CarriedIsDelivered
  BY ExactMeansComplete, ExactMeansRepair DEF ExactInv, ResultInv, DeliveryInv, CarriedInv
<1> QED BY <1>1, <1>2, <1>3, PTL DEF RegisteredSpec
=============================================================================
