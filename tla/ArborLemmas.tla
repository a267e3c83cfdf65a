------------------------------ MODULE ArborLemmas -----------------------------
(***************************************************************************)
(* What each step of a channel does under BasicInv, for every tree, every  *)
(* number of requesters and packets and any traffic: the types it keeps,   *)
(* and that whatever it sends is well formed and due.                      *)
(***************************************************************************)
EXTENDS ArborInvariant, RouterLemmas, FiniteSetTheorems, WellFoundedInduction

-----------------------------------------------------------------------------
(* Frames of the hosts.                                                    *)

\* A well-formed frame is a frame.
LEMMA FrameOKIsFrame ==
    ASSUME NEW f, FrameOK(f)
    PROVE  f \in Frame
<1>1. f \in CreditFrame => f \in Frame
  BY DEF CreditFrame, Frame
<1>2. f \in RequestFrame => f \in Frame
  BY DEF Frame
<1> QED BY <1>1, <1>2, BypassKind DEF FrameOK

\* The control frames a host sends bypass the slots.
LEMMA ControlFrames ==
    ASSUME NEW r \in Requesters, NEW s \in Subchannels, NEW e \in Nat
    PROVE  /\ FrameOK(Register(r, s)) /\ Register(r, s).type = "REGISTER"
           /\ FrameOK(RegisterAck(r, s)) /\ RegisterAck(r, s).type = "REGISTER_ACK"
           /\ FrameOK(End(r, s, e)) /\ End(r, s, e).type = "END"
           /\ FrameOK(EndAck(r, s, e)) /\ EndAck(r, s, e).type = "END_ACK"
<1>1. FrameOK(Register(r, s)) /\ Register(r, s).type = "REGISTER"
  BY DEF FrameOK, BypassFrame, Frame, Register
<1>2. FrameOK(RegisterAck(r, s)) /\ RegisterAck(r, s).type = "REGISTER_ACK"
  BY DEF FrameOK, BypassFrame, Frame, RegisterAck
<1>3. FrameOK(End(r, s, e)) /\ End(r, s, e).type = "END"
  BY DEF FrameOK, BypassFrame, Frame, End
<1>4. FrameOK(EndAck(r, s, e)) /\ EndAck(r, s, e).type = "END_ACK"
  BY DEF FrameOK, BypassFrame, Frame, EndAck
<1> QED BY <1>1, <1>2, <1>3, <1>4

\* A payload of one fragment belongs to its packet.
LEMMA FragmentPayload ==
    ASSUME NEW h \in Hosts, NEW o \in Offsets
    PROVE  /\ Fragment(h, o) \in Payloads
           /\ PureFor(Fragment(h, o), o)
           /\ OwnData(h, o) \in Payloads
           /\ PureFor(OwnData(h, o), o)
<1>1. Fragment(h, o) \in Payloads /\ PureFor(Fragment(h, o), o)
  BY DEF Fragment, Payloads, PureFor, Fragments
<1> QED BY <1>1, ZeroPayload DEF OwnData

\* Results, replays and repair triggers go straight to a requester.
LEMMA DirectResponse ==
    ASSUME NEW r \in Requesters, NEW s \in Subchannels, NEW c \in OffsetOpt,
           NEW o \in OffsetOpt, NEW data \in Payloads, NEW rep \in BOOLEAN,
           rep \/ c = NoOffset, NEW f, f = Response(r, s, c, o, data, rep, <<>>)
    PROVE  FrameOK(f) /\ f.type = "RESPONSE" /\ f.credit = c
<1>1. f \in ResponseFrame
  BY EmptySeq DEF ResponseFrame, Response
<1>2. f.dst = r /\ f.repair = rep /\ f.credit = c /\ f.type = "RESPONSE"
  BY DEF Response
<1>3. f \in BypassFrame
  BY <1>1, <1>2 DEF BypassFrame
<1> QED BY <1>2, <1>3 DEF FrameOK

\* A credit starts at a root of the tree, with an empty stack.
LEMMA RootCredit ==
    ASSUME NEW f \in ResponseFrame, f.dst \in Roots, f.repair = FALSE,
           f.credit \in Offsets, f.locs = <<>>
    PROVE  FrameOK(f)
<1> DEFINE R == f.dst
<1>1. PICK q \in Requesters : R = Path[q][1]
  BY DEF Roots
<1>2. /\ Path[q] \in Seq(Routers) /\ Len(Path[q]) \in Nat /\ Len(Path[q]) > 0
      /\ DOMAIN Path[q] = 1 .. Len(Path[q])
  BY ArborNetAssumption, LenProperties
<1>3. 1 \in DOMAIN Path[q] /\ R \in Routers
  BY <1>1, <1>2, ElementOfSeq
<1>4. R \notin Requesters
  BY <1>3, ArborNetAssumption DEF Hosts
<1>5. f \in CreditFrame
  BY DEF CreditFrame, Offsets, NoOffset
<1>6. ASSUME NEW r \in Below(R)
      PROVE  1 \in DOMAIN Path[r] /\ Path[r][1] = R
  <2>1. PICK i \in DOMAIN Path[r] : r \in Requesters /\ Path[r][i] = R
    BY DEF Below
  <2>2. i = 1
    BY <1>1, <1>3, <2>1, TreeAssumption
  <2> QED BY <2>1, <2>2
<1>7. Len(f.locs) + 1 = 1
  BY EmptySeq
<1> QED BY <1>4, <1>5, <1>6, <1>7 DEF CreditDepth, FrameOK

\* The fan-in plan of a requester has a number for every router of its path.
LEMMA FaninPlanType ==
    ASSUME NEW r \in Requesters
    PROVE  /\ FaninPlan(r) \in Seq(Nat)
           /\ Len(FaninPlan(r)) = Len(Path[r])
<1>1. /\ Path[r] \in Seq(Routers) /\ Len(Path[r]) \in Nat
      /\ DOMAIN Path[r] = 1 .. Len(Path[r])
  BY ArborNetAssumption, LenProperties
<1>2. ASSUME NEW R PROVE Cardinality(Below(R)) \in Nat
  <2>1. Below(R) \in SUBSET Requesters
    BY DEF Below
  <2> QED BY <2>1, FS_Subset, FS_CardinalityType, ArborNetAssumption
<1>3. FaninPlan(r) \in [1 .. Len(Path[r]) -> Nat]
  BY <1>1, <1>2 DEF FaninPlan
<1>4. FaninPlan(r) \in Seq(Nat)
  BY <1>1, <1>3, SeqDef
<1>5. /\ Len(FaninPlan(r)) \in Nat
      /\ DOMAIN FaninPlan(r) = 1 .. Len(FaninPlan(r))
      /\ DOMAIN FaninPlan(r) = 1 .. Len(Path[r])
  BY <1>3, <1>4, LenProperties
<1> QED BY <1>1, <1>4, <1>5

\* What a requester answers a credit with: a repair request without a stack,
\* or a well-formed request at its leaf, each with its own fragment.
LEMMA AnswerFrames ==
    ASSUME NEW r \in Requesters, NEW c \in Credit, NEW g \in RequestFrames(r, c)
    PROVE  /\ FrameOK(g)
           /\ c.repair => g.type = "REPAIR_REQUEST"
           /\ ~c.repair => g.type = "REQUEST"
           /\ g.src = r /\ g.off = c.off /\ g.data = OwnData(r, c.off)
           /\ ~c.repair => ~g.aggregated
<1> DEFINE d == OwnData(r, c.off)
<1>1. c.off \in Offsets /\ c.sub \in Subchannels /\ c.repair \in BOOLEAN /\ c.locs \in Seq(Nat)
  BY DEF Credit
<1>2. d \in Payloads /\ PureFor(d, c.off)
  BY <1>1, FragmentPayload DEF Hosts
<1>3. CASE c.repair
  <2>1. g = RepairRequest(r, c.sub, c.off, d)
    BY <1>3 DEF RequestFrames, OwnData
  <2> HIDE DEF d
  <2>2. g \in Frame /\ g.type = "REPAIR_REQUEST"
    BY <1>1, <1>2, <2>1 DEF RepairRequest, Frame
  <2>3. g.src = r /\ g.off = c.off /\ g.data = d
    BY <2>1 DEF RepairRequest
  <2>4. g \in BypassFrame
    BY <2>2 DEF BypassFrame
  <2> QED BY <1>3, <2>2, <2>3, <2>4 DEF FrameOK, d
<1>4. CASE ~c.repair
  <2>1. /\ Len(c.locs) = Len(Path[r])
        /\ g = Request(Leaf(r), r, c.sub, c.off, c.locs, FaninPlan(r), FALSE, 0, Pull, d)
    BY <1>4 DEF RequestFrames, OwnData
  <2>2. Path[r] \in Seq(Routers) /\ Len(Path[r]) \in Nat /\ Len(Path[r]) > 0
    BY ArborNetAssumption, LenProperties
  <2>3. Leaf(r) \in Routers
    <3>1. Len(Path[r]) \in 1 .. Len(Path[r])
      BY <2>2
    <3> QED BY <2>2, <3>1, ElementOfSeq DEF Leaf
  <2>4. FaninPlan(r) \in Seq(Nat) /\ Len(FaninPlan(r)) = Len(Path[r])
    BY FaninPlanType
  <2>5. Pull \in BOOLEAN
    BY ArborNetAssumption
  <2> HIDE DEF d
  <2>6. g \in RequestFrame
    BY <1>1, <1>2, <2>1, <2>3, <2>4, <2>5 DEF Request, RequestFrame
  <2>7. /\ g.type = "REQUEST" /\ g.src = r /\ g.off = c.off /\ g.data = d
        /\ g.locs = c.locs /\ g.fanins = FaninPlan(r) /\ g.aggregated = FALSE
    BY <2>1 DEF Request
  <2>8. RequestDepth(g)
    <3>1. Len(g.locs) = Len(Path[r]) /\ Len(g.fanins) = Len(Path[r])
      BY <2>1, <2>4, <2>7
    <3> QED BY <2>2, <2>7, <3>1 DEF RequestDepth
  <2> QED BY <1>2, <1>4, <2>6, <2>7, <2>8 DEF FrameOK, d
<1> QED BY <1>3, <1>4

-----------------------------------------------------------------------------
(* The responder.                                                          *)

\* What the steps of the responder keep of its own state.
ResponderPart ==
    /\ ResponderTypeOK
    /\ ending.sent => AllDone(entries)
    /\ \A s \in Subchannels : \A r \in meta.registered_bitmap[s] : Asked(r, s)
    /\ \A s \in meta.registered_ready : meta.registered_bitmap[s] = Requesters
    /\ \A o \in Offsets : Credited(o) =>
          entries[o].sub \in Subchannels /\ \A r \in Requesters : Asked(r, entries[o].sub)
    /\ \A o \in Offsets : entries[o].committed => Credited(o)
    /\ \A i \in DOMAIN pending : Credited(pending[i])

\* What they may send: END only once it is due, and a credit or a trigger
\* only for a packet that is credited.
ResponderSends ==
    /\ ending.sent => ending'.sent
    /\ \A o \in Offsets : Credited(o) => Credited(o)'
    /\ \A g \in net' : \/ g \in net
                      \/ /\ FrameOK(g) /\ g.type \in {"REGISTER_ACK", "RESPONSE", "END"}
                         /\ g.type = "END" => ending'.sent
                         /\ g.type = "RESPONSE" /\ g.credit # NoOffset => Credited(g.credit)'

LEMMA PartOfInv == BasicInv => ResponderPart
BY DEF BasicInv, TypeOK, EndMeansDone, GateInv, CreditFirst, RegistrationGate,
       ResponderPart, Asked, Credited

LEMMA EndFramesOK ==
    ASSUME BasicInv, NEW g \in EndFrames
    PROVE  FrameOK(g) /\ g.type = "END"
<1>1. PICK s \in Subchannels, r \in Requesters :
        g = End(r, s, IF s \in meta.registered_ready THEN Epoch ELSE 0)
  BY DEF EndFrames, ToAll
<1>2. (IF s \in meta.registered_ready THEN Epoch ELSE 0) \in Nat
  BY ArborNetAssumption
<1> QED BY <1>1, <1>2, ControlFrames

\* A packet that has had a credit has a subchannel; its result goes out there.
LEMMA ResultFramesOK ==
    ASSUME BasicInv, NEW o \in Offsets, entries[o].sub \in Subchannels,
           NEW rep \in BOOLEAN, NEW g \in ResultFrames(o, rep)
    PROVE  FrameOK(g) /\ g.type = "RESPONSE" /\ g.credit = NoOffset
<1>1. PICK r \in Requesters :
        g = Response(r, entries[o].sub, NoOffset, o, entries[o].result, rep, <<>>)
  BY DEF ResultFrames, ToAll
<1>2. entries[o].result \in Payloads /\ o \in OffsetOpt /\ NoOffset \in OffsetOpt
  BY DEF BasicInv, TypeOK, ResponderTypeOK, Entry, OffsetOpt
<1> QED BY <1>1, <1>2, DirectResponse

\* The tail of the request handlers.
LEMMA EndTailOK ==
    ASSUME BasicInv, NEW es, NEW frames \in SUBSET net, EndTail(es, frames),
           ending.sent => AllDone(es), \A o \in Offsets : Credited(o) => Credited(o)'
    PROVE  /\ ResponderSends
           /\ ending' \in [sent : BOOLEAN, retries : 0 .. EndMaxRetries]
           /\ ending'.sent => AllDone(es)
<1> DEFINE now == ~ending.sent /\ AllDone(es)
<1>1. ending \in [sent : BOOLEAN, retries : 0 .. EndMaxRetries]
  BY DEF BasicInv, TypeOK, ResponderTypeOK
<1>2. /\ ending' = [ending EXCEPT !.sent = ending.sent \/ now]
      /\ net' = frames \cup (IF now THEN EndFrames ELSE {})
  BY <1>1 DEF EndTail
<1>3. now \in BOOLEAN
  OBVIOUS
<1> HIDE DEF now
<1>4. /\ ending' \in [sent : BOOLEAN, retries : 0 .. EndMaxRetries]
      /\ ending'.sent <=> (ending.sent \/ now)
  BY <1>1, <1>2, <1>3
<1>5. ending'.sent => AllDone(es)
  BY <1>4 DEF now
<1>6. ResponderSends
  BY <1>2, <1>4, EndFramesOK DEF ResponderSends
<1> QED BY <1>4, <1>5, <1>6

LEMMA RxRegisterPart ==
    ASSUME BasicInv, NEW f \in net, RxRegister(f), UNCHANGED <<requesterVars, responding>>
    PROVE  ResponderPart' /\ ResponderSends
<1> DEFINE m    == [Upserted EXCEPT !.registered_bitmap[f.sub] = @ \cup {f.src}]
           full == {s \in Subchannels : m.registered_bitmap[s] = Requesters}
<1>1. f \in Frame /\ f.type = "REGISTER"
  BY FrameOKIsFrame DEF BasicInv, RouterInv, NetSound, RxRegister, Arrives
<1>2. f.src \in Requesters /\ f.sub \in Subchannels
  BY <1>1 DEF Frame, ResponseFrame, RequestFrame, MissFrame
<1>3. meta \in Meta /\ FreshMeta \in Meta
  BY ArborNetAssumption DEF BasicInv, TypeOK, ResponderTypeOK, Meta, FreshMeta
<1>4. Upserted \in Meta
  BY <1>3, ArborNetAssumption DEF Upserted, Meta
<1>5. /\ Upserted.registered_bitmap \in [Subchannels -> SUBSET Requesters]
      /\ \A s \in Subchannels : \A r \in Upserted.registered_bitmap[s] : Asked(r, s)
      /\ \A s \in Upserted.registered_ready : Upserted.registered_bitmap[s] = Requesters
  <2>1. Upserted.registered_bitmap =
          (IF meta.epoch # Epoch THEN FreshMeta ELSE meta).registered_bitmap
    BY <1>3 DEF Upserted, Meta
  <2>2. Upserted.registered_ready =
          (IF meta.epoch # Epoch THEN FreshMeta ELSE meta).registered_ready
    BY <1>3 DEF Upserted, Meta
  <2>3. FreshMeta.registered_bitmap = [s \in Subchannels |-> {}] /\ FreshMeta.registered_ready = {}
    BY DEF FreshMeta
  <2> QED BY <1>3, <2>1, <2>2, <2>3, PartOfInv DEF ResponderPart, Meta
<1>6. Asked(f.src, f.sub)
  BY <1>1 DEF BasicInv, GateInv
<1>7. /\ m \in Meta
      /\ m.registered_bitmap = [Upserted.registered_bitmap EXCEPT ![f.sub] = @ \cup {f.src}]
      /\ m.registered_ready = Upserted.registered_ready
      /\ m.register_ack_pending = Upserted.register_ack_pending
  BY <1>2, <1>4, <1>5 DEF Meta
<1>8. meta' = IF f.sub \in full
              THEN [m EXCEPT !.registered_ready = m.registered_ready \cup {f.sub},
                             !.register_ack_pending = m.register_ack_pending \cup full]
              ELSE m
  BY <1>7 DEF RxRegister, Meta
<1>9. full \in SUBSET Subchannels /\ \A s \in full : m.registered_bitmap[s] = Requesters
  OBVIOUS
<1>10. /\ \A s \in Subchannels : \A r \in m.registered_bitmap[s] : Asked(r, s)
       /\ \A s \in m.registered_ready : m.registered_bitmap[s] = Requesters
  <2>1. \A s \in Subchannels : m.registered_bitmap[s] =
          IF s = f.sub THEN Upserted.registered_bitmap[s] \cup {f.src} ELSE Upserted.registered_bitmap[s]
    BY <1>5, <1>7
  <2>2. m.registered_ready \subseteq Subchannels
    BY <1>7 DEF Meta
  <2> QED BY <1>2, <1>5, <1>6, <1>7, <2>1, <2>2
<1> HIDE DEF m, full
<1>11. /\ meta' \in Meta
       /\ meta'.registered_bitmap = m.registered_bitmap
       /\ meta'.registered_ready \subseteq m.registered_ready \cup full
  BY <1>2, <1>7, <1>8, <1>9 DEF Meta
<1>12. UNCHANGED <<entries, pending, ending, responding, register_attempts>> /\ net' = net \ {f}
  BY DEF RxRegister, requesterVars, Taken
<1>13. \A r, s : Asked(r, s)' <=> Asked(r, s)
  BY <1>12 DEF Asked
<1> QED BY <1>9, <1>10, <1>11, <1>12, <1>13, PartOfInv
        DEF ResponderPart, ResponderSends, ResponderTypeOK, AllDone, Credited

LEMMA FlushRegisterAcksPart ==
    ASSUME BasicInv, FlushRegisterAcks, UNCHANGED <<requesterVars, responding>>
    PROVE  ResponderPart' /\ ResponderSends
<1> DEFINE subs == meta.register_ack_pending \cap meta.registered_ready
<1>1. meta \in Meta
  BY DEF BasicInv, TypeOK, ResponderTypeOK
<1>2. subs \subseteq Subchannels
  BY <1>1 DEF Meta
<1>3. /\ net' = net \cup {RegisterAck(r, s) : r \in Requesters, s \in subs}
      /\ meta' = [meta EXCEPT !.register_ack_pending = meta.register_ack_pending \ subs]
      /\ UNCHANGED <<entries, pending, ending, responding, register_attempts>>
  BY <1>1 DEF FlushRegisterAcks, requesterVars, Meta
<1> HIDE DEF subs
<1>4. /\ meta' \in Meta
      /\ meta'.registered_bitmap = meta.registered_bitmap
      /\ meta'.registered_ready = meta.registered_ready
  BY <1>1, <1>3 DEF Meta
<1>5. \A r, s : Asked(r, s)' <=> Asked(r, s)
  BY <1>3 DEF Asked
<1>6. ResponderPart'
  BY <1>3, <1>4, <1>5, PartOfInv DEF ResponderPart, ResponderTypeOK, AllDone, Credited
<1>7. ASSUME NEW g \in net' PROVE g \in net \/ (FrameOK(g) /\ g.type = "REGISTER_ACK")
  <2>1. CASE g \notin net
    <3>1. PICK r \in Requesters, s \in subs : g = RegisterAck(r, s)
      BY <1>3, <2>1
    <3> QED BY <1>2, <3>1, ControlFrames
  <2> QED BY <2>1
<1>8. ResponderSends
  BY <1>3, <1>7 DEF ResponderSends, Credited
<1> QED BY <1>6, <1>8

\* A step that moves neither the gate nor the credits.
LEMMA PartKept ==
    ASSUME BasicInv, UNCHANGED <<meta, responding, requesterVars>>,
           entries' \in [Offsets -> Entry],
           \A o \in Offsets :
              /\ entries'[o].sub = entries[o].sub
              /\ entries'[o].credit_sent = entries[o].credit_sent
              /\ entries'[o].committed => Credited(o),
           pending' \in Seq(Offsets),
           \A i \in DOMAIN pending' : Credited(pending'[i]),
           ending' \in [sent : BOOLEAN, retries : 0 .. EndMaxRetries],
           ending'.sent => AllDone(entries')
    PROVE  ResponderPart' /\ \A o \in Offsets : Credited(o) => Credited(o)'
<1>1. \A r, s : Asked(r, s)' <=> Asked(r, s)
  BY DEF Asked, requesterVars
<1>2. \A o \in Offsets : Credited(o)' <=> Credited(o)
  BY DEF Credited
<1>3. \A i \in DOMAIN pending' : pending'[i] \in Offsets
  BY LenProperties, ElementOfSeq
<1>4. ResponderPart
  BY PartOfInv
<1>5. ResponderTypeOK'
  BY <1>4 DEF ResponderPart, ResponderTypeOK
<1>6. (\A i \in DOMAIN pending : Credited(pending[i]))'
  BY <1>2, <1>3 DEF Credited
<1>7. (\A o \in Offsets : entries[o].committed => Credited(o))'
  BY <1>2 DEF Credited
<1>8. (\A o \in Offsets : Credited(o) =>
         entries[o].sub \in Subchannels /\ \A r \in Requesters : Asked(r, entries[o].sub))'
  BY <1>1, <1>2, <1>4 DEF ResponderPart, Credited
<1>9. ResponderPart'
  BY <1>1, <1>4, <1>5, <1>6, <1>7, <1>8 DEF ResponderPart, AllDone
<1> QED BY <1>2, <1>9

\* commit_entry_response on a packet that has had its credit.
LEMMA CommitPart ==
    ASSUME BasicInv, NEW o \in Offsets, NEW e \in Entry, NEW sum \in Payloads,
           NEW frames \in SUBSET net, Credited(o),
           e.sub = entries[o].sub, e.credit_sent = entries[o].credit_sent,
           Commit(o, e, sum, frames), UNCHANGED <<meta, responding, requesterVars>>
    PROVE  ResponderPart' /\ ResponderSends
<1> DEFINE res == Plus(Fragment(Responder, o), sum)
           n   == [e EXCEPT !.committed = TRUE, !.done = TRUE, !.result = res]
           es  == [entries EXCEPT ![o] = n]
<1>1. entries' = es /\ pending' = Append(pending, o) /\ EndTail(es, frames)
  BY DEF Commit
<1>2. /\ entries \in [Offsets -> Entry] /\ pending \in Seq(Offsets)
      /\ ending.sent => AllDone(entries)
  BY PartOfInv DEF ResponderPart, ResponderTypeOK
<1>3. res \in Payloads
  BY FragmentPayload, PlusPayload DEF Hosts
<1> HIDE DEF res
<1>4. n \in Entry /\ n.sub = entries[o].sub /\ n.credit_sent = entries[o].credit_sent /\ n.done
  BY <1>3 DEF Entry
<1> HIDE DEF n
<1>5. /\ es \in [Offsets -> Entry]
      /\ es[o] = n /\ \A x \in Offsets : x # o => es[x] = entries[x]
  BY <1>2, <1>4
<1> HIDE DEF es
<1>6. ending.sent => AllDone(es)
  BY <1>2, <1>4, <1>5 DEF AllDone
<1>7. \A x \in Offsets :
        /\ es[x].sub = entries[x].sub
        /\ es[x].credit_sent = entries[x].credit_sent
        /\ es[x].committed => Credited(x)
  BY <1>4, <1>5, PartOfInv DEF ResponderPart
<1>8. /\ pending' \in Seq(Offsets)
      /\ \A i \in DOMAIN pending' : Credited(pending'[i])
  BY <1>1, <1>2, AppendProperties, LenProperties, PartOfInv DEF ResponderPart
<1>9. \A x \in Offsets : Credited(x) => Credited(x)'
  BY <1>1, <1>7 DEF Credited
<1>10. /\ ResponderSends
       /\ ending' \in [sent : BOOLEAN, retries : 0 .. EndMaxRetries]
       /\ ending'.sent => AllDone(es)
  BY <1>1, <1>6, <1>9, EndTailOK
<1>11. entries' \in [Offsets -> Entry] /\ (ending'.sent => AllDone(entries'))
  BY <1>1, <1>5, <1>10
<1>12. ResponderPart'
  BY <1>1, <1>7, <1>8, <1>10, <1>11, PartKept
<1> QED BY <1>10, <1>12

LEMMA RxRequestPart ==
    ASSUME BasicInv, NEW f \in net, RxRequest(f), UNCHANGED <<requesterVars, responding>>
    PROVE  ResponderPart' /\ ResponderSends
<1> DEFINE o == f.off
           e == entries[o]
<1>1. f \in RequestFrame /\ f.type = "REQUEST" /\ Credited(o)
  BY RequestKind DEF BasicInv, RouterInv, NetSound, CreditFirst, RxRequest, Arrives
<1>2. o \in Offsets /\ f.data \in Payloads
  BY <1>1 DEF RequestFrame
<1>3. entries \in [Offsets -> Entry] /\ (ending.sent => AllDone(entries))
  BY PartOfInv DEF ResponderPart, ResponderTypeOK
<1>4. e \in Entry
  BY <1>2, <1>3
<1>5. entries[o].sub \in Subchannels
  BY <1>1, <1>2, PartOfInv DEF ResponderPart
<1>6. Taken(f) \in SUBSET net /\ UNCHANGED meta
  BY DEF Taken, RxRequest
<1>7. CASE net' = Taken(f) /\ UNCHANGED <<entries, pending, ending>>
  <2>1. ResponderSends
    BY <1>6, <1>7 DEF ResponderSends, Credited
  <2>2. ResponderPart'
    BY <1>6, <1>7, PartOfInv, PartKept DEF ResponderPart, ResponderTypeOK
  <2> QED BY <2>1, <2>2
<1>8. CASE /\ entries' = [entries EXCEPT ![o].done = TRUE]
           /\ EndTail(entries', Taken(f)) /\ UNCHANGED pending
  <2>1. /\ entries' \in [Offsets -> Entry]
        /\ \A x \in Offsets : /\ entries'[x].sub = entries[x].sub
                              /\ entries'[x].credit_sent = entries[x].credit_sent
                              /\ entries'[x].committed = entries[x].committed
                              /\ entries[x].done => entries'[x].done
    <3>1. PICK n : n = [entries[o] EXCEPT !.done = TRUE] /\ entries' = [entries EXCEPT ![o] = n]
      BY <1>8
    <3>2. /\ n \in Entry /\ n.done /\ n.sub = entries[o].sub
          /\ n.credit_sent = entries[o].credit_sent /\ n.committed = entries[o].committed
      BY <1>4, <3>1 DEF Entry
    <3>3. /\ entries' \in [Offsets -> Entry] /\ entries'[o] = n
          /\ \A x \in Offsets : x # o => entries'[x] = entries[x]
      BY <1>2, <1>3, <3>1, <3>2
    <3> HIDE DEF o
    <3> QED BY <3>2, <3>3
  <2>2. ending.sent => AllDone(entries')
    BY <1>3, <2>1 DEF AllDone
  <2>3. \A x \in Offsets : Credited(x) => Credited(x)'
    BY <2>1 DEF Credited
  <2>4. /\ ResponderSends
        /\ ending' \in [sent : BOOLEAN, retries : 0 .. EndMaxRetries]
        /\ ending'.sent => AllDone(entries')
    BY <1>6, <1>8, <2>2, <2>3, EndTailOK
  <2>5. ResponderPart'
    BY <1>6, <1>8, <2>1, <2>4, PartOfInv, PartKept DEF ResponderPart, ResponderTypeOK
  <2> QED BY <2>4, <2>5
<1>9. CASE /\ net' = Taken(f) \cup ResultFrames(o, TRUE)
           /\ UNCHANGED <<entries, pending, ending>>
  <2>1. \A g \in ResultFrames(o, TRUE) : FrameOK(g) /\ g.type = "RESPONSE" /\ g.credit = NoOffset
    BY <1>2, <1>5, ResultFramesOK
  <2>2. ResponderSends
    BY <1>6, <1>9, <2>1 DEF ResponderSends, Credited
  <2>3. ResponderPart'
    BY <1>6, <1>9, PartOfInv, PartKept DEF ResponderPart, ResponderTypeOK
  <2> QED BY <2>2, <2>3
<1>10. CASE Commit(o, e, f.data, Taken(f))
  BY <1>1, <1>2, <1>4, <1>6, <1>10, CommitPart
<1> QED BY <1>7, <1>8, <1>9, <1>10 DEF RxRequest

\* What a repair request does to its entry.
LEMMA RepairedByType ==
    ASSUME NEW e \in Entry, NEW f, f.src \in Requesters, f.data \in Payloads
    PROVE  /\ RepairedBy(e, f) \in Entry
           /\ RepairedBy(e, f).sub = e.sub
           /\ RepairedBy(e, f).credit_sent = e.credit_sent
           /\ RepairedBy(e, f).committed = e.committed
           /\ RepairedBy(e, f).done = e.done
           /\ RepairedBy(e, f).repair_accum \in Payloads
<1>1. CASE f.src \in e.repair_bitmap
  BY <1>1 DEF RepairedBy, Entry
<1>2. CASE f.src \notin e.repair_bitmap
  <2>1. e.repair_accum \in Payloads /\ e.repair_bitmap \in SUBSET Requesters
    BY DEF Entry
  <2>2. Plus(e.repair_accum, f.data) \in Payloads
    BY <2>1, PlusPayload
  <2>3. RepairedBy(e, f) = [e EXCEPT !.repair_bitmap = e.repair_bitmap \cup {f.src},
                                     !.repair_accum = Plus(e.repair_accum, f.data)]
    BY <1>2 DEF RepairedBy, Entry
  <2>4. e.repair_bitmap \cup {f.src} \in SUBSET Requesters
    BY <2>1
  <2> DEFINE a == Plus(e.repair_accum, f.data)
             b == e.repair_bitmap \cup {f.src}
  <2>5. RepairedBy(e, f) = [e EXCEPT !.repair_bitmap = b, !.repair_accum = a]
    BY <2>3
  <2>6. a \in Payloads /\ b \in SUBSET Requesters
    BY <2>2, <2>4
  <2> HIDE DEF a, b
  <2> QED BY <2>5, <2>6 DEF Entry
<1> QED BY <1>1, <1>2

LEMMA RxRepairPart ==
    ASSUME BasicInv, NEW f \in net, RxRepair(f), UNCHANGED <<requesterVars, responding>>
    PROVE  ResponderPart' /\ ResponderSends
<1> DEFINE o    == f.off
           e    == entries[o]
           r    == RepairedBy(e, f)
           full == r.repair_bitmap = Requesters
<1>1. f \in Frame /\ f.type = "REPAIR_REQUEST" /\ Credited(o)
  BY FrameOKIsFrame DEF BasicInv, RouterInv, NetSound, CreditFirst, RxRepair, Arrives
<1>2. o \in Offsets /\ f.data \in Payloads /\ f.src \in Requesters
  BY <1>1 DEF Frame, ResponseFrame, RequestFrame, MissFrame
<1>3. entries \in [Offsets -> Entry] /\ (ending.sent => AllDone(entries))
  BY PartOfInv DEF ResponderPart, ResponderTypeOK
<1>4. e \in Entry
  BY <1>2, <1>3
<1>5. /\ r \in Entry /\ r.sub = e.sub /\ r.credit_sent = e.credit_sent
      /\ r.committed = e.committed /\ r.done = e.done /\ r.repair_accum \in Payloads
  BY <1>2, <1>4, RepairedByType
<1>6. Taken(f) \in SUBSET net /\ UNCHANGED meta
  BY DEF Taken, RxRepair
<1>7. CASE Commit(o, r, r.repair_accum, Taken(f))
  BY <1>1, <1>2, <1>5, <1>6, <1>7, CommitPart
<1>8. CASE /\ entries' = IF meta.sequence_reserved
                          THEN [entries EXCEPT ![o] = [r EXCEPT !.done = r.done \/ full]]
                          ELSE entries
           /\ net' = Taken(f)
           /\ UNCHANGED <<pending, ending>>
  <2>1. full \in BOOLEAN
    OBVIOUS
  <2> HIDE DEF full, r
  <2>2. /\ entries' \in [Offsets -> Entry]
        /\ \A x \in Offsets : /\ entries'[x].sub = entries[x].sub
                              /\ entries'[x].credit_sent = entries[x].credit_sent
                              /\ entries'[x].committed = entries[x].committed
                              /\ entries[x].done => entries'[x].done
    <3> DEFINE n == [r EXCEPT !.done = r.done \/ full]
    <3>1. /\ n \in Entry /\ n.sub = e.sub /\ n.credit_sent = e.credit_sent
          /\ n.committed = e.committed /\ (e.done => n.done)
      BY <1>5, <2>1 DEF Entry
    <3>2. entries' = entries \/ entries' = [entries EXCEPT ![o] = n]
      BY <1>8
    <3> HIDE DEF n
    <3> QED BY <1>2, <1>3, <3>1, <3>2
  <2>3. ending.sent => AllDone(entries')
    BY <1>3, <2>2 DEF AllDone
  <2>4. ResponderPart' /\ \A x \in Offsets : Credited(x) => Credited(x)'
    BY <1>6, <1>8, <2>2, <2>3, PartOfInv, PartKept DEF ResponderPart, ResponderTypeOK
  <2>5. ResponderSends
    BY <1>6, <1>8, <2>4 DEF ResponderSends
  <2> QED BY <2>4, <2>5
<1>9. r = [r EXCEPT !.done = r.done] /\ [r EXCEPT !.done = @ \/ full] = [r EXCEPT !.done = r.done \/ full]
  BY <1>5 DEF Entry
<1> QED BY <1>7, <1>8, <1>9 DEF RxRepair

LEMMA RxEndAckPart ==
    ASSUME BasicInv, NEW f \in net, RxEndAck(f), UNCHANGED <<requesterVars, responding>>
    PROVE  ResponderPart' /\ ResponderSends
<1> DEFINE mask == meta.end_ack_mask \cup {f.src}
<1>1. f \in Frame /\ f.type = "END_ACK"
  BY FrameOKIsFrame DEF BasicInv, RouterInv, NetSound, RxEndAck, Arrives
<1>2. f.src \in Requesters
  BY <1>1 DEF Frame, ResponseFrame, RequestFrame, MissFrame
<1>3. meta \in Meta
  BY PartOfInv DEF ResponderPart, ResponderTypeOK
<1>4. mask \in SUBSET Requesters
  BY <1>2, <1>3 DEF Meta
<1>5. /\ meta' = IF f.epoch # meta.epoch THEN meta
                 ELSE IF mask = Requesters
                 THEN [meta EXCEPT !.end_ack_mask = mask,
                                   !.sequence_reserved = FALSE, !.reuse_ready = TRUE]
                 ELSE [meta EXCEPT !.end_ack_mask = mask]
      /\ net' = net \ {f}
      /\ UNCHANGED <<entries, pending, ending, responding, register_attempts>>
  BY DEF RxEndAck, Taken, requesterVars
<1> HIDE DEF mask
<1>6. /\ meta' \in Meta
      /\ meta'.registered_bitmap = meta.registered_bitmap
      /\ meta'.registered_ready = meta.registered_ready
  BY <1>3, <1>4, <1>5 DEF Meta
<1>7. \A r, s : Asked(r, s)' <=> Asked(r, s)
  BY <1>5 DEF Asked
<1>8. ResponderPart'
  BY <1>5, <1>6, <1>7, PartOfInv DEF ResponderPart, ResponderTypeOK, AllDone, Credited
<1>9. ResponderSends
  BY <1>5 DEF ResponderSends, Credited
<1> QED BY <1>8, <1>9

\* The credits of one packet: a frame for every root of the tree.
LEMMA CreditFramesOK ==
    ASSUME NEW s \in Subchannels, NEW o \in Offsets, NEW b \in OffsetOpt,
           NEW data \in Payloads, NEW g \in CreditFrames(s, o, b, data)
    PROVE  FrameOK(g) /\ g.type = "RESPONSE" /\ g.credit = o
<1>1. PICK R \in Roots :
        g = [type |-> "RESPONSE", dst |-> R, sub |-> s, credit |-> o, payload |-> b,
             data |-> data, repair |-> FALSE, locs |-> <<>>, copy |-> FALSE]
  BY DEF CreditFrames, Response
<1>2. R \in Routers
  <2>1. PICK q \in Requesters : R = Path[q][1]
    BY DEF Roots
  <2>2. /\ Path[q] \in Seq(Routers) /\ 1 \in 1 .. Len(Path[q])
    BY ArborNetAssumption, LenProperties
  <2> QED BY <2>1, <2>2, ElementOfSeq
<1>3. g \in ResponseFrame
  BY <1>1, <1>2, EmptySeq DEF ResponseFrame, OffsetOpt
<1> QED BY <1>1, <1>3, RootCredit

\* maybe_issue_credits on packet o for subchannel s, whatever the credit
\* carries: the entry of o is opened, the others keep sub and credit.
LEMMA CreditPart ==
    ASSUME BasicInv, NEW s \in Subchannels, NEW o \in Offsets, NEW b \in OffsetOpt,
           NEW data \in Payloads,
           CanIssue(s), o = meta.next_credit_offset,
           meta' = [meta EXCEPT !.next_credit_offset = @ + 1],
           entries' \in [Offsets -> Entry],
           \A x \in Offsets : /\ entries'[x].done = entries[x].done
                              /\ x # o => /\ entries'[x].sub = entries[x].sub
                                          /\ entries'[x].credit_sent = entries[x].credit_sent
                                          /\ entries'[x].committed = entries[x].committed,
           entries'[o].credit_sent, entries'[o].sub = s,
           pending' \in Seq(Offsets),
           \A i \in DOMAIN pending' : Credited(pending'[i]),
           net' = net \cup CreditFrames(s, o, b, data),
           UNCHANGED <<ending, responding, requesterVars>>
    PROVE  ResponderPart' /\ ResponderSends
<1>1. ResponderPart /\ meta \in Meta
  BY PartOfInv DEF ResponderPart, ResponderTypeOK
<1>2. /\ meta' \in Meta
      /\ meta'.registered_bitmap = meta.registered_bitmap
      /\ meta'.registered_ready = meta.registered_ready
  <2>1. meta.next_credit_offset \in 0 .. P /\ meta.next_credit_offset < P /\ P \in Nat
    BY <1>1, ArborNetAssumption DEF Meta, CanIssue
  <2>2. meta' = [meta EXCEPT !.next_credit_offset = meta.next_credit_offset + 1]
    BY <1>1 DEF Meta
  <2>3. meta.next_credit_offset + 1 \in 0 .. P
    BY <2>1
  <2> QED BY <1>1, <2>2, <2>3 DEF Meta
<1>3. \A r, t : Asked(r, t)' <=> Asked(r, t)
  BY DEF Asked, requesterVars
<1>4. \A r \in Requesters : Asked(r, s)
  <2>1. s \in meta.registered_ready
    BY DEF CanIssue
  <2> QED BY <1>1, <2>1 DEF ResponderPart
<1>5. \A x \in Offsets : Credited(x)' <=> (Credited(x) \/ x = o)
  BY DEF Credited
<1>6. \A i \in DOMAIN pending' : pending'[i] \in Offsets
  BY LenProperties, ElementOfSeq
<1>7. ResponderTypeOK'
  BY <1>1, <1>2 DEF ResponderPart, ResponderTypeOK
<1>8. (ending.sent => AllDone(entries))'
  BY <1>1 DEF ResponderPart, AllDone
<1>9. (\A x \in Offsets : Credited(x) =>
         entries[x].sub \in Subchannels /\ \A r \in Requesters : Asked(r, entries[x].sub))'
  <2> SUFFICES ASSUME NEW x \in Offsets, Credited(x)'
               PROVE  /\ entries'[x].sub \in Subchannels
                      /\ \A r \in Requesters : Asked(r, entries[x].sub)'
    OBVIOUS
  <2>1. CASE x = o
    BY <1>3, <1>4, <2>1
  <2>2. CASE x # o
    BY <1>1, <1>3, <1>5, <2>2 DEF ResponderPart
  <2> QED BY <2>1, <2>2
<1>10. (\A x \in Offsets : entries[x].committed => Credited(x))'
  BY <1>1, <1>5 DEF ResponderPart
<1>11. (\A i \in DOMAIN pending : Credited(pending[i]))'
  BY <1>5, <1>6
<1>12. ResponderPart'
  BY <1>1, <1>2, <1>3, <1>7, <1>8, <1>9, <1>10, <1>11 DEF ResponderPart
<1>13. ResponderSends
  BY <1>5, CreditFramesOK DEF ResponderSends
<1> QED BY <1>12, <1>13

LEMMA IssueCreditPart ==
    ASSUME BasicInv, NEW s \in Subchannels, IssueCredit(s),
           UNCHANGED <<requesterVars, responding>>
    PROVE  ResponderPart' /\ ResponderSends
<1> DEFINE o == meta.next_credit_offset
           e == [entries[o] EXCEPT !.credit_sent = TRUE, !.sub = s]
<1>1. /\ ResponderPart /\ meta \in Meta /\ pending \in Seq(Offsets)
      /\ entries \in [Offsets -> Entry]
  BY PartOfInv DEF ResponderPart, ResponderTypeOK
<1>2. CanIssue(s) /\ meta' = [meta EXCEPT !.next_credit_offset = @ + 1] /\ UNCHANGED ending
  BY DEF IssueCredit
<1>3. o \in Offsets
  BY <1>1, <1>2, ArborNetAssumption DEF Meta, CanIssue, Offsets
<1>4. e \in Entry /\ e.credit_sent /\ e.sub = s /\ e.done = entries[o].done
  <2>1. entries[o] \in Entry
    BY <1>1, <1>3
  <2> HIDE DEF o
  <2> QED BY <2>1 DEF Entry
<1>5. CASE Pull
  <2> DEFINE carried == pending # <<>> /\ entries[Head(pending)].bound_by = NoOffset
             b       == IF carried THEN Head(pending) ELSE NoOffset
             bound   == [e EXCEPT !.bound_payload = b]
             data    == IF carried THEN entries[b].result ELSE Zero
  <2>1. /\ pending' = IF pending = <<>> THEN <<>> ELSE Tail(pending)
        /\ entries' = [x \in Offsets |->
                        IF x = o THEN bound
                        ELSE IF x = b THEN [entries[x] EXCEPT !.bound_by = o]
                        ELSE entries[x]]
        /\ net' = net \cup CreditFrames(s, o, b, data)
    BY <1>5 DEF IssueCredit, IssuePullCredit
  <2>2. carried => Head(pending) \in Offsets
    BY <1>1, HeadTailProperties
  <2>3. b \in OffsetOpt
    BY <2>2 DEF OffsetOpt
  <2>4. data \in Payloads
    BY <1>1, <2>2, ZeroPayload DEF Entry
  <2>5. /\ pending' \in Seq(Offsets)
        /\ \A i \in DOMAIN pending' : Credited(pending'[i])
    <3>1. CASE pending = <<>>
      BY <2>1, <3>1, EmptySeq
    <3>2. CASE pending # <<>>
      <4>1. pending' = Tail(pending)
        BY <2>1, <3>2
      <4>2. /\ pending' \in Seq(Offsets) /\ Len(pending') = Len(pending) - 1
            /\ \A i \in 1 .. Len(pending') : pending'[i] = pending[i + 1]
        BY <1>1, <3>2, <4>1, HeadTailProperties
      <4>3. /\ DOMAIN pending = 1 .. Len(pending) /\ DOMAIN pending' = 1 .. Len(pending')
            /\ Len(pending) \in Nat
        BY <1>1, <4>2, LenProperties
      <4>4. \A i \in DOMAIN pending' : i + 1 \in DOMAIN pending
        BY <4>2, <4>3
      <4> QED BY <1>1, <4>2, <4>3, <4>4 DEF ResponderPart
    <3> QED BY <3>1, <3>2
  <2> HIDE DEF b, data
  <2>6. bound \in Entry /\ bound.credit_sent /\ bound.sub = s /\ bound.done = entries[o].done
    BY <1>4, <2>3 DEF Entry
  <2> HIDE DEF bound, o
  <2>7. \A x \in Offsets : x # o =>
          /\ entries'[x] \in Entry
          /\ entries'[x].sub = entries[x].sub
          /\ entries'[x].credit_sent = entries[x].credit_sent
          /\ entries'[x].committed = entries[x].committed
          /\ entries'[x].done = entries[x].done
    <3> SUFFICES ASSUME NEW x \in Offsets, x # o
                 PROVE  /\ entries'[x] \in Entry
                        /\ entries'[x].sub = entries[x].sub
                        /\ entries'[x].credit_sent = entries[x].credit_sent
                        /\ entries'[x].committed = entries[x].committed
                        /\ entries'[x].done = entries[x].done
      OBVIOUS
    <3>1. entries[x] \in Entry /\ o \in OffsetOpt
      BY <1>1, <1>3 DEF OffsetOpt
    <3>2. entries'[x] = entries[x] \/ entries'[x] = [entries[x] EXCEPT !.bound_by = o]
      BY <2>1
    <3> QED BY <3>1, <3>2 DEF Entry
  <2>8. entries'[o] = bound
    BY <1>3, <2>1
  <2>9. entries' \in [Offsets -> Entry]
    <3>1. \A x \in Offsets : entries'[x] \in Entry
      BY <2>6, <2>7, <2>8
    <3>2. entries' = [x \in Offsets |-> entries'[x]]
      BY <2>1
    <3> QED BY <3>1, <3>2
  <2>10. \A x \in Offsets : entries'[x].done = entries[x].done
    BY <2>6, <2>7, <2>8
  <2>11. entries'[o].credit_sent /\ entries'[o].sub = s
    BY <2>6, <2>8
  <2>12. o = meta.next_credit_offset
    BY DEF o
  <2> QED BY <1>2, <1>3, <2>1, <2>3, <2>4, <2>5, <2>7, <2>9, <2>10, <2>11, <2>12, CreditPart
<1>6. CASE ~Pull
  <2> DEFINE res == Fragment(Responder, o)
             n   == [e EXCEPT !.committed = TRUE, !.result = res,
                              !.bound_payload = o, !.bound_by = o]
  <2>1. /\ entries' = [entries EXCEPT ![o] = n]
        /\ net' = net \cup CreditFrames(s, o, o, res)
        /\ UNCHANGED pending
    BY <1>6 DEF IssueCredit, IssuePushCredit
  <2>2. res \in Payloads /\ o \in OffsetOpt
    BY <1>3, FragmentPayload DEF Hosts, OffsetOpt
  <2> HIDE DEF res
  <2>3. n \in Entry /\ n.credit_sent /\ n.sub = s /\ n.done = entries[o].done
    BY <1>4, <2>2 DEF Entry
  <2> HIDE DEF n, o
  <2>4. /\ entries' \in [Offsets -> Entry] /\ entries'[o] = n
        /\ \A x \in Offsets : x # o => entries'[x] = entries[x]
    BY <1>1, <1>3, <2>1, <2>3
  <2>5. \A x \in Offsets : entries'[x].done = entries[x].done
    BY <2>3, <2>4
  <2>6. entries'[o].credit_sent /\ entries'[o].sub = s
    BY <2>3, <2>4
  <2>7. o = meta.next_credit_offset
    BY DEF o
  <2>8. pending' \in Seq(Offsets) /\ \A i \in DOMAIN pending' : Credited(pending'[i])
    BY <1>1, <2>1 DEF ResponderPart
  <2> QED BY <1>2, <1>3, <2>1, <2>2, <2>4, <2>5, <2>6, <2>7, <2>8, CreditPart
<1> QED BY <1>5, <1>6

LEMMA FlushPendingPart ==
    ASSUME BasicInv, FlushPending, UNCHANGED <<requesterVars, responding>>
    PROVE  ResponderPart' /\ ResponderSends
<1> DEFINE free == {j \in DOMAIN pending : entries[pending[j]].bound_by = NoOffset}
<1>1. /\ net' = net \cup UNION {ResultFrames(pending[i], FALSE) : i \in free}
      /\ pending' = <<>> /\ UNCHANGED <<meta, entries, ending>>
  BY DEF FlushPending
<1>2. ResponderPart /\ pending \in Seq(Offsets)
  BY PartOfInv DEF ResponderPart, ResponderTypeOK
<1>3. pending' \in Seq(Offsets) /\ \A i \in DOMAIN pending' : Credited(pending'[i])
  BY <1>1, EmptySeq
<1>4. ResponderPart' /\ \A o \in Offsets : Credited(o) => Credited(o)'
  BY <1>1, <1>2, <1>3, PartKept DEF ResponderPart, ResponderTypeOK
<1>5. ASSUME NEW g \in net', g \notin net
      PROVE  FrameOK(g) /\ g.type = "RESPONSE" /\ g.credit = NoOffset
  <2>1. PICK i \in free : g \in ResultFrames(pending[i], FALSE)
    BY <1>1, <1>5
  <2>2. pending[i] \in Offsets
    BY <1>2, <2>1, LenProperties, ElementOfSeq
  <2>3. entries[pending[i]].sub \in Subchannels
    BY <1>2, <2>1, <2>2 DEF ResponderPart
  <2> QED BY <2>1, <2>2, <2>3, ResultFramesOK
<1>6. ResponderSends
  BY <1>1, <1>4, <1>5 DEF ResponderSends
<1> QED BY <1>4, <1>6

LEMMA TriggerFramesOK ==
    ASSUME BasicInv, NEW o \in Offsets, Credited(o), NEW g \in TriggerFrames(o)
    PROVE  FrameOK(g) /\ g.type = "RESPONSE" /\ g.credit = o
<1> DEFINE b    == entries[o].bound_payload
           data == IF b = NoOffset THEN Zero ELSE entries[b].result
<1>1. PICK r \in Requesters :
        g = [type |-> "RESPONSE", dst |-> r, sub |-> entries[o].sub, credit |-> o,
             payload |-> b, data |-> data, repair |-> TRUE, locs |-> <<>>, copy |-> FALSE]
  BY DEF TriggerFrames, ToAll, Response
<1>2. entries \in [Offsets -> Entry] /\ entries[o].sub \in Subchannels
  BY PartOfInv DEF ResponderPart, ResponderTypeOK
<1>3. b \in OffsetOpt
  BY <1>2 DEF Entry
<1>4. data \in Payloads
  BY <1>2, <1>3, ZeroPayload DEF Entry, OffsetOpt
<1>5. o \in OffsetOpt
  BY DEF OffsetOpt
<1> HIDE DEF b, data
<1>6. g \in ResponseFrame
  BY <1>1, <1>2, <1>3, <1>4, <1>5, EmptySeq DEF ResponseFrame
<1>7. g \in BypassFrame
  BY <1>1, <1>6 DEF BypassFrame
<1> QED BY <1>1, <1>7 DEF FrameOK

LEMMA TimeoutRepairPart ==
    ASSUME BasicInv, NEW o \in Offsets, TimeoutRepair(o),
           UNCHANGED <<requesterVars, responding>>
    PROVE  ResponderPart' /\ ResponderSends
<1>1. /\ ResponderPart /\ entries \in [Offsets -> Entry] /\ pending \in Seq(Offsets)
      /\ ending \in [sent : BOOLEAN, retries : 0 .. EndMaxRetries]
  BY PartOfInv DEF ResponderPart, ResponderTypeOK
<1>2. Credited(o) /\ UNCHANGED <<meta, pending, ending>>
  BY DEF TimeoutRepair, Credited
<1>3. entries[o].retry_count + 1 \in 0 .. RepairMaxRetries
  BY <1>1, ResponderAssumption DEF TimeoutRepair, RetryLeft, Entry
<1>4. PICK n : /\ entries' = [entries EXCEPT ![o] = n]
               /\ n \in {[entries[o] EXCEPT !.repair_mode = TRUE,
                                            !.retry_count = entries[o].retry_count + 1],
                         [entries[o] EXCEPT !.repair_mode = TRUE]}
  BY <1>1 DEF TimeoutRepair, Entry
<1>5. /\ n \in Entry /\ n.sub = entries[o].sub /\ n.credit_sent = entries[o].credit_sent
      /\ n.committed = entries[o].committed /\ n.done = entries[o].done
  <2>1. PICK e : e = entries[o] /\ e \in Entry
    BY <1>1
  <2>2. CASE n = [e EXCEPT !.repair_mode = TRUE, !.retry_count = e.retry_count + 1]
    <3>1. e.retry_count + 1 \in 0 .. RepairMaxRetries
      BY <1>3, <2>1
    <3>2. n \in Entry
      BY <2>1, <2>2, <3>1 DEF Entry
    <3>3. n.sub = e.sub /\ n.credit_sent = e.credit_sent /\ n.committed = e.committed
          /\ n.done = e.done
      BY <2>1, <2>2 DEF Entry
    <3> QED BY <2>1, <3>2, <3>3
  <2>3. CASE n = [e EXCEPT !.repair_mode = TRUE]
    <3>1. n \in Entry
      BY <2>1, <2>3 DEF Entry
    <3>2. n.sub = e.sub /\ n.credit_sent = e.credit_sent /\ n.committed = e.committed
          /\ n.done = e.done
      BY <2>1, <2>3 DEF Entry
    <3> QED BY <2>1, <3>1, <3>2
  <2> QED BY <1>4, <2>1, <2>2, <2>3
<1>6. /\ entries' \in [Offsets -> Entry] /\ entries'[o] = n
      /\ \A x \in Offsets : x # o => entries'[x] = entries[x]
  BY <1>1, <1>4, <1>5
<1>7. \A x \in Offsets : /\ entries'[x].sub = entries[x].sub
                         /\ entries'[x].credit_sent = entries[x].credit_sent
                         /\ entries'[x].committed = entries[x].committed
                         /\ entries'[x].done = entries[x].done
  BY <1>5, <1>6
<1>8. ending'.sent => AllDone(entries')
  BY <1>1, <1>2, <1>7 DEF ResponderPart, AllDone
<1>9. ResponderPart' /\ \A x \in Offsets : Credited(x) => Credited(x)'
  BY <1>1, <1>2, <1>6, <1>7, <1>8, PartKept DEF ResponderPart
<1>10. ASSUME NEW g \in net', g \notin net PROVE g \in TriggerFrames(o)
  BY <1>10 DEF TimeoutRepair
<1>11. ResponderSends
  BY <1>2, <1>9, <1>10, TriggerFramesOK DEF ResponderSends
<1> QED BY <1>9, <1>11

LEMMA EndRetryPart ==
    ASSUME BasicInv, EndRetry, UNCHANGED <<requesterVars, responding>>
    PROVE  ResponderPart' /\ ResponderSends
<1> DEFINE bare == {x \in Offsets : entries[x].committed /\ entries[x].bound_by = NoOffset}
<1>1. /\ ResponderPart /\ entries \in [Offsets -> Entry] /\ pending \in Seq(Offsets)
      /\ ending \in [sent : BOOLEAN, retries : 0 .. EndMaxRetries]
  BY PartOfInv DEF ResponderPart, ResponderTypeOK
<1>2. /\ ending.sent /\ ending.retries < EndMaxRetries
      /\ ending' = [ending EXCEPT !.retries = ending.retries + 1]
      /\ net' = net \cup EndFrames \cup UNION {ResultFrames(o, TRUE) : o \in bare}
      /\ UNCHANGED <<meta, entries, pending>>
  BY <1>1 DEF EndRetry
<1>3. ending' \in [sent : BOOLEAN, retries : 0 .. EndMaxRetries] /\ ending'.sent = ending.sent
  <2>1. ending.retries + 1 \in 0 .. EndMaxRetries
    BY <1>1, <1>2, ResponderAssumption
  <2> QED BY <1>1, <1>2, <2>1
<1>4. ResponderPart' /\ \A x \in Offsets : Credited(x) => Credited(x)'
  BY <1>1, <1>2, <1>3, PartKept DEF ResponderPart
<1>5. ASSUME NEW g \in net', g \notin net, g \notin EndFrames
      PROVE  FrameOK(g) /\ g.type = "RESPONSE" /\ g.credit = NoOffset
  <2>1. PICK o \in bare : g \in ResultFrames(o, TRUE)
    BY <1>2, <1>5
  <2>2. entries[o].sub \in Subchannels
    BY <1>1, <2>1 DEF ResponderPart
  <2> QED BY <2>1, <2>2, ResultFramesOK
<1>6. ResponderSends
  BY <1>2, <1>3, <1>4, <1>5, EndFramesOK DEF ResponderSends
<1> QED BY <1>4, <1>6

\* Every step of the responder.
LEMMA ResponderPartStep ==
    ASSUME BasicInv, ResponderNext
    PROVE  ResponderPart' /\ ResponderSends
<1>1. UNCHANGED requesterVars
  BY DEF ResponderNext
<1>2. CASE UNCHANGED responding
  <2>1. \/ \E f \in net : RxRegister(f) \/ RxRequest(f) \/ RxRepair(f) \/ RxEndAck(f)
        \/ \E s \in Subchannels : IssueCredit(s)
        \/ FlushPending \/ FlushRegisterAcks
        \/ (\E o \in Offsets : TimeoutRepair(o)) \/ EndRetry
    BY <1>2 DEF ResponderNext, ResponderWork, ResponderTimer, ResponderReturn, ResponderFail
  <2> QED BY <1>1, <1>2, <2>1, RxRegisterPart, RxRequestPart, RxRepairPart, RxEndAckPart,
             IssueCreditPart, FlushPendingPart, FlushRegisterAcksPart, TimeoutRepairPart,
             EndRetryPart
<1>3. CASE ResponderReturn \/ ResponderFail
  <2>1. UNCHANGED <<net, meta, entries, pending, ending>> /\ responding' \in {"ok", "failed"}
    BY <1>3 DEF ResponderReturn, ResponderFail
  <2>2. \A r, s : Asked(r, s)' <=> Asked(r, s)
    BY <1>1 DEF Asked, requesterVars
  <2>3. ResponderPart'
    BY <2>1, <2>2, PartOfInv DEF ResponderPart, ResponderTypeOK, AllDone, Credited
  <2>4. ResponderSends
    BY <2>1 DEF ResponderSends, Credited
  <2> QED BY <2>3, <2>4
<1> QED BY <1>2, <1>3 DEF ResponderNext, ResponderWork, ResponderTimer

-----------------------------------------------------------------------------
(* The requesters.                                                         *)

\* What a step of a requester establishes: its state keeps its types, credits
\* and END are accepted only where they are due, beacons only add up, and
\* whatever is sent is well formed and about a credited packet.
RequesterStep ==
    /\ RequesterTypeOK'
    /\ \A q \in Requesters : \A c \in credit_q'[q] : Credited(c.off)
    /\ \A q \in Requesters : end_ack_subs'[q] # {} \/ requesting'[q] = "ok" => ending.sent
    /\ \A q \in Requesters, s \in Subchannels : Asked(q, s) => Asked(q, s)'
    /\ \A g \in net' :
          \/ g \in net
          \/ /\ FrameOK(g)
             /\ g.type \in {"REGISTER", "REQUEST", "REPAIR_REQUEST", "END_ACK"}
             /\ g.type = "REGISTER" => Asked(g.src, g.sub)'
             /\ g.type \in {"REQUEST", "REPAIR_REQUEST"} => Credited(g.off)

\* A response in flight has the fields of one.
LEMMA ResponseKind ==
    ASSUME NEW f, FrameOK(f), f.type = "RESPONSE"
    PROVE  f \in ResponseFrame
<1>1. f \notin RequestFrame
  BY DEF RequestFrame
<1> QED BY <1>1, BypassKind DEF FrameOK, CreditFrame

\* What a requester knows before a step.
LEMMA RequesterFacts ==
    ASSUME BasicInv
    PROVE  /\ RequesterTypeOK
           /\ \A q \in Requesters : \A c \in credit_q[q] : c \in Credit /\ Credited(c.off)
           /\ \A q \in Requesters : end_ack_subs[q] # {} \/ requesting[q] = "ok" => ending.sent
BY DEF BasicInv, TypeOK, CreditFirst, EndMeansDone, RequesterTypeOK

LEMMA RxRegisterAckPart ==
    ASSUME BasicInv, NEW r \in Requesters, NEW f \in net, RxRegisterAck(r, f),
           UNCHANGED requesting
    PROVE  RequesterStep
<1>1. FrameOK(f) /\ f.type = "REGISTER_ACK"
  BY DEF BasicInv, RouterInv, NetSound, RxRegisterAck, Arrives
<1>2. f.sub \in Subchannels
  BY <1>1, FrameOKIsFrame DEF Frame, ResponseFrame, RequestFrame, MissFrame
<1>3. register_acked \in [Requesters -> SUBSET Subchannels]
  BY RequesterFacts DEF RequesterTypeOK
<1>4. /\ register_acked' = [register_acked EXCEPT ![r] = register_acked[r] \cup {f.sub}]
      /\ net' = net \ {f}
      /\ UNCHANGED <<register_attempts, register_next, stored, offset_ring, credit_q,
                     end_ack_subs, tombstone, requesting>>
  BY DEF RxRegisterAck, Taken
<1>5. RequesterTypeOK'
  BY <1>2, <1>3, <1>4, RequesterFacts DEF RequesterTypeOK
<1> QED BY <1>4, <1>5, RequesterFacts DEF RequesterStep, Asked

LEMMA RxResponsePart ==
    ASSUME BasicInv, NEW r \in Requesters, NEW f \in net, RxResponse(r, f),
           UNCHANGED requesting
    PROVE  RequesterStep
<1> DEFINE done    == Completed(r) \cup ({f.payload} \ {NoOffset})
           ignored == CreditIgnored(r, f, done)
           c       == [off |-> f.credit, sub |-> f.sub, repair |-> f.repair,
                       locs |-> IF f.repair THEN <<>> ELSE f.locs]
<1>1. FrameOK(f) /\ f.type = "RESPONSE"
  BY DEF BasicInv, RouterInv, NetSound, RxResponse, Arrives
<1>2. f \in ResponseFrame
  BY <1>1, ResponseKind
<1>3. /\ register_acked \in [Requesters -> SUBSET Subchannels]
      /\ stored \in [Requesters -> [Offsets -> Payloads \cup {NoResult}]]
      /\ offset_ring \in [Requesters -> [Offsets -> {"idle", "pending", "sent"}]]
      /\ credit_q \in [Requesters -> SUBSET Credit]
  BY RequesterFacts DEF RequesterTypeOK
<1>4. /\ register_acked' = [register_acked EXCEPT ![r] = register_acked[r] \cup {f.sub}]
      /\ stored' = IF f.payload = NoOffset THEN stored
                   ELSE [stored EXCEPT ![r][f.payload] = f.data]
      /\ net' = net \ {f}
      /\ UNCHANGED <<register_attempts, register_next, end_ack_subs, tombstone, requesting>>
  BY DEF RxResponse, Taken
<1>5. /\ register_acked' \in [Requesters -> SUBSET Subchannels]
      /\ stored' \in [Requesters -> [Offsets -> Payloads \cup {NoResult}]]
  BY <1>2, <1>3, <1>4 DEF ResponseFrame, OffsetOpt
<1>6. /\ offset_ring' \in [Requesters -> [Offsets -> {"idle", "pending", "sent"}]]
      /\ credit_q' \in [Requesters -> SUBSET Credit]
      /\ \A q \in Requesters : \A d \in credit_q'[q] : Credited(d.off)
  <2>1. CASE ignored
    <3>1. UNCHANGED <<offset_ring, credit_q>>
      BY <2>1 DEF RxResponse
    <3> QED BY <1>3, <3>1, RequesterFacts
  <2>2. CASE ~ignored
    <3>1. f.credit \in Offsets /\ f.credit # NoOffset
      BY <1>2, <2>2 DEF CreditIgnored, ResponseFrame, OffsetOpt
    <3>2. (IF f.repair THEN <<>> ELSE f.locs) \in Seq(Nat)
      BY <1>2, EmptySeq DEF ResponseFrame
    <3>3. c \in Credit /\ c.off = f.credit
      BY <1>2, <3>1, <3>2 DEF Credit, ResponseFrame
    <3>4. Credited(c.off)
      BY <1>1, <3>1, <3>3 DEF BasicInv, CreditFirst
    <3>5. /\ offset_ring' = [offset_ring EXCEPT ![r][f.credit] =
                               IF f.repair THEN "idle" ELSE "pending"]
          /\ credit_q' = [credit_q EXCEPT ![r] = credit_q[r] \cup {c}]
      BY <2>2 DEF RxResponse
    <3> HIDE DEF c
    <3>6. offset_ring' \in [Requesters -> [Offsets -> {"idle", "pending", "sent"}]]
      BY <1>3, <3>5
    <3>7. /\ credit_q' \in [Requesters -> SUBSET Credit]
          /\ \A q \in Requesters : credit_q'[q] \subseteq credit_q[q] \cup {c}
      BY <1>3, <3>3, <3>5
    <3> QED BY <3>4, <3>6, <3>7, RequesterFacts
  <2> QED BY <2>1, <2>2
<1>7. RequesterTypeOK'
  BY <1>4, <1>5, <1>6, RequesterFacts DEF RequesterTypeOK
<1> QED BY <1>4, <1>6, <1>7, RequesterFacts DEF RequesterStep, Asked

LEMMA RxEndPart ==
    ASSUME BasicInv, NEW r \in Requesters, NEW f \in net, RxEnd(r, f),
           UNCHANGED requesting
    PROVE  RequesterStep
<1>1. FrameOK(f) /\ f.type = "END"
  BY DEF BasicInv, RouterInv, NetSound, RxEnd, Arrives
<1>2. f.sub \in Subchannels
  BY <1>1, FrameOKIsFrame DEF Frame, ResponseFrame, RequestFrame, MissFrame
<1>3. ending.sent
  BY <1>1 DEF BasicInv, EndMeansDone
<1>4. end_ack_subs \in [Requesters -> SUBSET Subchannels]
  BY RequesterFacts DEF RequesterTypeOK
<1>5. /\ end_ack_subs' = IF f.epoch = Epoch
                         THEN [end_ack_subs EXCEPT ![r] = end_ack_subs[r] \cup {f.sub}]
                         ELSE end_ack_subs
      /\ net' = net \ {f}
      /\ UNCHANGED <<register_acked, register_attempts, register_next, stored, offset_ring,
                     credit_q, tombstone, requesting>>
  BY DEF RxEnd, Taken
<1>6. RequesterTypeOK'
  BY <1>2, <1>4, <1>5, RequesterFacts DEF RequesterTypeOK
<1> QED BY <1>3, <1>5, <1>6, RequesterFacts DEF RequesterStep, Asked

LEMMA AckTombstonedEndPart ==
    ASSUME BasicInv, NEW r \in Requesters, NEW f \in net, AckTombstonedEnd(r, f)
    PROVE  RequesterStep
<1>1. FrameOK(f) /\ f.type = "END"
  BY DEF BasicInv, RouterInv, NetSound, AckTombstonedEnd, Arrives
<1>2. f.sub \in Subchannels /\ f.epoch \in Nat
  BY <1>1, FrameOKIsFrame DEF Frame, ResponseFrame, RequestFrame, MissFrame
<1>3. FrameOK(EndAck(r, f.sub, f.epoch)) /\ EndAck(r, f.sub, f.epoch).type = "END_ACK"
  BY <1>2, ControlFrames
<1>4. net' = (net \ {f}) \cup {EndAck(r, f.sub, f.epoch)} /\ UNCHANGED requesterVars
  BY DEF AckTombstonedEnd, Taken
<1>5. RequesterTypeOK'
  BY <1>4, RequesterFacts DEF RequesterTypeOK, requesterVars
<1> QED BY <1>3, <1>4, <1>5, RequesterFacts DEF RequesterStep, Asked, requesterVars

\* The next beacon is one of the unconfirmed subchannels.
LEMMA NextBeaconType ==
    ASSUME NEW r \in Requesters, Unconfirmed(r) # {}, RequesterTypeOK
    PROVE  NextBeacon(r) \in Unconfirmed(r) /\ NextBeacon(r) \in Subchannels
<1> DEFINE n           == Cardinality(Subchannels)
           Distance(s) == (s - register_next[r]) % n
           D           == {Distance(s) : s \in Unconfirmed(r)}
<1>1. n \in Nat \ {0}
  BY ArborNetAssumption, FS_CardinalityType, FS_EmptySet
<1>2. register_next[r] \in Int /\ Unconfirmed(r) \subseteq Int /\ Unconfirmed(r) \subseteq Subchannels
  <2>1. Subchannels \subseteq Int
    BY <1>1, ArborNetAssumption
  <2> QED BY <2>1 DEF RequesterTypeOK, Unconfirmed
<1>3. D \subseteq Nat /\ D # {}
  BY <1>1, <1>2
<1>4. PICK d \in D : \A e \in D : <<e, d>> \notin OpToRel(<, Nat)
  BY <1>3, WFMin, NatLessThanWellFounded, Zenon
<1>5. \A e \in D : d <= e
  <2>1. \A x, y \in Nat : x < y => <<x, y>> \in OpToRel(<, Nat)
    <3>1. OpToRel(<, Nat) = {p \in Nat \X Nat : p[1] < p[2]}
      BY Zenon DEF OpToRel
    <3>2. \A x, y \in Nat : x < y => <<x, y>> \in {p \in Nat \X Nat : p[1] < p[2]}
      OBVIOUS
    <3> QED BY <3>1, <3>2, Zenon
  <2> HIDE DEF D
  <2>2. \A e \in D : ~(e < d)
    BY <1>3, <1>4, <2>1, Zenon
  <2> QED BY <1>3, <2>2
<1>6. PICK s \in Unconfirmed(r) : d = Distance(s)
  BY <1>4
<1>7. \A t \in Unconfirmed(r) : Distance(s) <= Distance(t)
  BY <1>5, <1>6
<1>8. NextBeacon(r) = CHOOSE t \in Unconfirmed(r) : \A u \in Unconfirmed(r) : Distance(t) <= Distance(u)
  BY DEF NextBeacon
<1> HIDE DEF Distance
<1>9. NextBeacon(r) \in Unconfirmed(r)
  BY <1>6, <1>7, <1>8
<1> QED BY <1>2, <1>9

\* The scan moves on to a subchannel.
LEMMA ScanType ==
    ASSUME NEW s \in Subchannels
    PROVE  (s + 1) % Cardinality(Subchannels) \in Subchannels
<1>1. Cardinality(Subchannels) \in Nat \ {0}
  BY ArborNetAssumption, FS_CardinalityType, FS_EmptySet
<1> QED BY <1>1, ArborNetAssumption

LEMMA SendRegisterPart ==
    ASSUME BasicInv, NEW r \in Requesters, SendRegister(r), UNCHANGED requesting
    PROVE  RequesterStep
<1>1. /\ RequesterTypeOK
      /\ register_attempts \in [Requesters -> [Subchannels -> 0 .. RegisterMaxAttempts]]
      /\ register_next \in [Requesters -> Subchannels]
  BY RequesterFacts DEF RequesterTypeOK
<1>2. PICK s \in Subchannels : s = NextBeacon(r)
  BY <1>1, NextBeaconType DEF SendRegister
<1>3. /\ register_attempts[r][s] # RegisterMaxAttempts
      /\ register_attempts' = [register_attempts EXCEPT ![r][s] = register_attempts[r][s] + 1]
      /\ register_next' = [register_next EXCEPT ![r] = (s + 1) % Cardinality(Subchannels)]
      /\ net' = net \cup {Register(r, s)}
      /\ UNCHANGED <<register_acked, stored, offset_ring, credit_q, end_ack_subs, tombstone>>
  BY <1>2 DEF SendRegister, Exhausted
<1>4. register_attempts[r][s] + 1 \in 0 .. RegisterMaxAttempts
  <2>1. register_attempts[r][s] \in 0 .. RegisterMaxAttempts
    BY <1>1, <1>2
  <2> QED BY <1>3, <2>1, RequesterAssumption
<1>5. /\ register_attempts' \in [Requesters -> [Subchannels -> 0 .. RegisterMaxAttempts]]
      /\ register_attempts'[r][s] = register_attempts[r][s] + 1
      /\ \A q \in Requesters, t \in Subchannels :
            register_attempts'[q][t] = register_attempts[q][t] \/ (q = r /\ t = s)
  BY <1>1, <1>2, <1>3, <1>4
<1>6. register_next' \in [Requesters -> Subchannels]
  BY <1>1, <1>2, <1>3, ScanType
<1>7. RequesterTypeOK'
  BY <1>1, <1>3, <1>5, <1>6 DEF RequesterTypeOK
<1>8. Asked(r, s)'
  <2>1. register_attempts[r][s] \in 0 .. RegisterMaxAttempts
    BY <1>1, <1>2
  <2>2. register_attempts[r][s] + 1 > 0
    BY <2>1, RequesterAssumption
  <2> QED BY <1>5, <2>2 DEF Asked
<1>9. \A q \in Requesters, t \in Subchannels : Asked(q, t) => Asked(q, t)'
  <2> SUFFICES ASSUME NEW q \in Requesters, NEW t \in Subchannels, Asked(q, t)
               PROVE  Asked(q, t)'
    OBVIOUS
  <2>1. CASE q = r /\ t = s
    BY <1>8, <2>1
  <2>2. CASE ~(q = r /\ t = s)
    BY <1>5, <2>2 DEF Asked
  <2> QED BY <2>1, <2>2
<1>10. /\ FrameOK(Register(r, s)) /\ Register(r, s).type = "REGISTER"
       /\ Register(r, s).src = r /\ Register(r, s).sub = s
  <2>1. FrameOK(Register(r, s)) /\ Register(r, s).type = "REGISTER"
    BY <1>2, ControlFrames, ArborNetAssumption
  <2> QED BY <2>1 DEF Register
<1> QED BY <1>3, <1>7, <1>8, <1>9, <1>10, RequesterFacts DEF RequesterStep

\* Answers are well formed and about credited packets.
LEMMA AnsweredOK ==
    ASSUME BasicInv, NEW r \in Requesters, NEW g \in Answered(r)
    PROVE  FrameOK(g) /\ g.type \in {"REQUEST", "REPAIR_REQUEST"} /\ Credited(g.off)
<1>1. PICK c \in credit_q[r] : g \in RequestFrames(r, c)
  BY DEF Answered
<1>2. c \in Credit /\ Credited(c.off)
  BY RequesterFacts
<1>3. /\ FrameOK(g) /\ g.off = c.off
      /\ c.repair => g.type = "REPAIR_REQUEST"
      /\ ~c.repair => g.type = "REQUEST"
  BY <1>1, <1>2, AnswerFrames
<1> QED BY <1>2, <1>3

LEMMA RingAnsweredType ==
    ASSUME RequesterTypeOK, NEW r \in Requesters
    PROVE  RingAnswered(r) \in [Requesters -> [Offsets -> {"idle", "pending", "sent"}]]
<1>1. offset_ring \in [Requesters -> [Offsets -> {"idle", "pending", "sent"}]]
  BY DEF RequesterTypeOK
<1> DEFINE ring == [o \in Offsets |->
                     IF \E c \in credit_q[r] : c.off = o /\ ~c.repair THEN "sent"
                     ELSE offset_ring[r][o]]
<1>2. ring \in [Offsets -> {"idle", "pending", "sent"}]
  BY <1>1
<1>3. RingAnswered(r) = [offset_ring EXCEPT ![r] = ring]
  BY <1>1 DEF RingAnswered
<1> HIDE DEF ring
<1> QED BY <1>1, <1>2, <1>3

LEMMA SendRequestsPart ==
    ASSUME BasicInv, NEW r \in Requesters, SendRequests(r), UNCHANGED requesting
    PROVE  RequesterStep
<1>1. RequesterTypeOK /\ credit_q \in [Requesters -> SUBSET Credit]
  BY RequesterFacts DEF RequesterTypeOK
<1>2. /\ net' = net \cup Answered(r)
      /\ offset_ring' = RingAnswered(r)
      /\ credit_q' = [credit_q EXCEPT ![r] = {}]
      /\ UNCHANGED <<register_acked, register_attempts, register_next, stored, end_ack_subs,
                     tombstone, requesting>>
  BY DEF SendRequests
<1>3. /\ credit_q' \in [Requesters -> SUBSET Credit]
      /\ \A q \in Requesters : credit_q'[q] \subseteq credit_q[q]
  BY <1>1, <1>2
<1>4. RequesterTypeOK'
  BY <1>1, <1>2, <1>3, RingAnsweredType DEF RequesterTypeOK
<1> QED BY <1>2, <1>3, <1>4, RequesterFacts, AnsweredOK DEF RequesterStep, Asked

LEMMA EndAcksOK ==
    ASSUME BasicInv, NEW r \in Requesters, NEW g \in EndAcks(r)
    PROVE  FrameOK(g) /\ g.type = "END_ACK"
<1>1. PICK s \in end_ack_subs[r] : g = EndAck(r, s, Epoch)
  BY DEF EndAcks
<1>2. s \in Subchannels /\ Epoch \in Nat
  BY RequesterFacts, ArborNetAssumption DEF RequesterTypeOK
<1> QED BY <1>1, <1>2, ControlFrames

LEMMA FinishPart ==
    ASSUME BasicInv, NEW r \in Requesters, Finish(r)
    PROVE  RequesterStep
<1>1. /\ RequesterTypeOK /\ end_ack_subs \in [Requesters -> SUBSET Subchannels]
      /\ requesting \in [Requesters -> {"run", "ok", "failed"}] /\ tombstone \subseteq Requesters
  BY RequesterFacts DEF RequesterTypeOK
<1>2. ending.sent
  BY RequesterFacts DEF Finish, ReadyToFinish
<1>3. /\ net' = net \cup EndAcks(r)
      /\ end_ack_subs' = [end_ack_subs EXCEPT ![r] = {}]
      /\ tombstone' = tombstone \cup {r}
      /\ requesting' = [requesting EXCEPT ![r] = "ok"]
      /\ UNCHANGED <<register_acked, register_attempts, register_next, stored, offset_ring, credit_q>>
  BY DEF Finish
<1>4. RequesterTypeOK'
  BY <1>1, <1>3 DEF RequesterTypeOK
<1> QED BY <1>2, <1>3, <1>4, RequesterFacts, EndAcksOK DEF RequesterStep, Asked

LEMMA FailRegisterPart ==
    ASSUME BasicInv, NEW r \in Requesters, FailRegister(r)
    PROVE  RequesterStep
<1>1. /\ RequesterTypeOK /\ end_ack_subs \in [Requesters -> SUBSET Subchannels]
      /\ requesting \in [Requesters -> {"run", "ok", "failed"}] /\ tombstone \subseteq Requesters
      /\ register_attempts \in [Requesters -> [Subchannels -> 0 .. RegisterMaxAttempts]]
      /\ register_next \in [Requesters -> Subchannels]
      /\ credit_q \in [Requesters -> SUBSET Credit]
  BY RequesterFacts DEF RequesterTypeOK
<1>2. PICK beacons \in {{}} \cup {{s} : s \in LastBeacons(r)} :
         /\ net' = net \cup {Register(r, s) : s \in beacons} \cup Answered(r)
                       \cup (IF ReadyToFinish(r) THEN EndAcks(r) ELSE {})
         /\ register_attempts' = [register_attempts EXCEPT ![r] =
              [s \in Subchannels |-> IF s \in beacons THEN register_attempts[r][s] + 1
                                     ELSE register_attempts[r][s]]]
         /\ register_next' = [register_next EXCEPT ![r] =
              IF beacons = {} THEN register_next[r]
              ELSE ((CHOOSE s \in beacons : TRUE) + 1) % Cardinality(Subchannels)]
  BY <1>1 DEF FailRegister
<1>3. \A s \in beacons : s \in Subchannels /\ register_attempts[r][s] # RegisterMaxAttempts
  BY DEF LastBeacons, Unconfirmed, Exhausted
<1>4. /\ register_attempts' \in [Requesters -> [Subchannels -> 0 .. RegisterMaxAttempts]]
      /\ \A q \in Requesters, s \in Subchannels : Asked(q, s) => Asked(q, s)'
      /\ \A s \in beacons : Asked(r, s)'
  <2> DEFINE tries == [s \in Subchannels |-> IF s \in beacons THEN register_attempts[r][s] + 1
                                             ELSE register_attempts[r][s]]
  <2>1. register_attempts' = [register_attempts EXCEPT ![r] = tries]
    BY <1>2
  <2>2. /\ tries \in [Subchannels -> 0 .. RegisterMaxAttempts]
        /\ \A s \in Subchannels : tries[s] >= register_attempts[r][s]
        /\ \A s \in beacons : tries[s] > 0
    <3>1. \A s \in Subchannels : register_attempts[r][s] \in 0 .. RegisterMaxAttempts
      BY <1>1
    <3>2. \A s \in Subchannels :
            /\ tries[s] \in 0 .. RegisterMaxAttempts
            /\ tries[s] >= register_attempts[r][s]
            /\ s \in beacons => tries[s] > 0
      BY <1>3, <3>1, RequesterAssumption
    <3>3. tries \in [Subchannels -> 0 .. RegisterMaxAttempts]
      BY <3>2
    <3> QED BY <1>3, <3>2, <3>3
  <2> HIDE DEF tries
  <2>3. /\ register_attempts' \in [Requesters -> [Subchannels -> 0 .. RegisterMaxAttempts]]
        /\ register_attempts'[r] = tries
        /\ \A q \in Requesters : q # r => register_attempts'[q] = register_attempts[q]
    BY <1>1, <2>1, <2>2
  <2>4. \A q \in Requesters, s \in Subchannels :
          /\ register_attempts[q][s] \in Nat /\ register_attempts'[q][s] \in Nat
          /\ register_attempts'[q][s] >= register_attempts[q][s]
    <3> TAKE q \in Requesters, s \in Subchannels
    <3>1. register_attempts[q][s] \in Nat /\ register_attempts'[q][s] \in Nat
      BY <1>1, <2>3, RequesterAssumption
    <3>2. register_attempts'[q][s] >= register_attempts[q][s]
      <4>1. CASE q = r
        BY <2>2, <2>3, <4>1
      <4>2. CASE q # r
        BY <2>3, <3>1, <4>2
      <4> QED BY <4>1, <4>2
    <3> QED BY <3>1, <3>2
  <2> QED BY <2>2, <2>3, <2>4 DEF Asked
<1>5. register_next' \in [Requesters -> Subchannels]
  <2>1. CASE beacons = {}
    BY <1>1, <1>2, <2>1
  <2>2. CASE beacons # {}
    <3>1. (CHOOSE s \in beacons : TRUE) \in beacons
      BY <2>2
    <3>2. ((CHOOSE s \in beacons : TRUE) + 1) % Cardinality(Subchannels) \in Subchannels
      BY <1>3, <3>1, ScanType
    <3> QED BY <1>1, <1>2, <2>2, <3>2
  <2> QED BY <2>1, <2>2
<1>6. /\ offset_ring' = RingAnswered(r)
      /\ credit_q' = [credit_q EXCEPT ![r] = {}]
      /\ requesting' = [requesting EXCEPT ![r] = "failed"]
      /\ UNCHANGED <<register_acked, stored>>
      /\ tombstone' \in {tombstone, tombstone \cup {r}}
      /\ end_ack_subs' \in {end_ack_subs, [end_ack_subs EXCEPT ![r] = {}]}
  BY DEF FailRegister
<1>7. /\ credit_q' \in [Requesters -> SUBSET Credit]
      /\ \A q \in Requesters : credit_q'[q] \subseteq credit_q[q]
      /\ end_ack_subs' \in [Requesters -> SUBSET Subchannels]
      /\ \A q \in Requesters : end_ack_subs'[q] \subseteq end_ack_subs[q]
      /\ requesting' \in [Requesters -> {"run", "ok", "failed"}]
      /\ \A q \in Requesters : requesting'[q] = "ok" => requesting[q] = "ok"
  BY <1>1, <1>6
<1>8. RequesterTypeOK'
  BY <1>1, <1>4, <1>5, <1>6, <1>7, RingAnsweredType DEF RequesterTypeOK
<1>9. ASSUME NEW s \in beacons
      PROVE  /\ FrameOK(Register(r, s)) /\ Register(r, s).type = "REGISTER"
             /\ Asked(Register(r, s).src, Register(r, s).sub)'
  <2>1. FrameOK(Register(r, s)) /\ Register(r, s).type = "REGISTER"
    BY <1>3, ControlFrames, ArborNetAssumption
  <2>2. Register(r, s).src = r /\ Register(r, s).sub = s
    BY DEF Register
  <2> QED BY <1>4, <2>1, <2>2
<1>10. ASSUME NEW g \in net', g \notin net
       PROVE  \/ \E s \in beacons : g = Register(r, s)
              \/ g \in Answered(r)
              \/ g \in EndAcks(r)
  BY <1>2, <1>10
<1>11. \A q \in Requesters : end_ack_subs'[q] # {} \/ requesting'[q] = "ok" => ending.sent
  BY <1>7, RequesterFacts
<1>12. \A q \in Requesters : \A c \in credit_q'[q] : Credited(c.off)
  BY <1>7, RequesterFacts
<1> QED BY <1>4, <1>8, <1>9, <1>10, <1>11, <1>12, AnsweredOK, EndAcksOK DEF RequesterStep

\* Every step of a requester.
LEMMA RequesterPartStep ==
    ASSUME BasicInv, NEW r \in Requesters, RequesterNext(r)
    PROVE  RequesterStep
<1>1. CASE /\ \/ \E f \in net : RxRegisterAck(r, f) \/ RxResponse(r, f) \/ RxEnd(r, f)
              \/ SendRequests(r) \/ SendRegister(r)
           /\ UNCHANGED requesting
  BY <1>1, RxRegisterAckPart, RxResponsePart, RxEndPart, SendRequestsPart, SendRegisterPart
<1>2. CASE Finish(r) \/ FailRegister(r) \/ \E f \in net : AckTombstonedEnd(r, f)
  BY <1>2, FinishPart, FailRegisterPart, AckTombstonedEndPart
<1> QED BY <1>1, <1>2 DEF RequesterNext, RequesterWork, RequesterTimer

-----------------------------------------------------------------------------
(* The routers and the network.                                            *)

\* What routers emit is about credited packets, and so is every slot's owner.
RouterSends ==
    /\ \A g \in net' :
          \/ g \in net
          \/ /\ g.type \in {"REQUEST", "RESPONSE", "AGG_MISS"}
             /\ g.type = "REQUEST" => Credited(g.off)
             /\ g.type = "RESPONSE" /\ g.credit # NoOffset => Credited(g.credit)
    /\ \A R \in Routers, i \in SlotIds : g_slots'[R][i].owner # NoOwner =>
          Credited(g_slots'[R][i].owner[2])

LEMMA BindSends ==
    ASSUME BasicInv, NEW R \in Routers, NEW f \in net, BindCredit(R, f)
    PROVE  RouterSends
<1> DEFINE owner == <<f.sub, f.credit>>
<1>1. RouterInv /\ CreditFirst
  BY DEF BasicInv
<1>2. f \in CreditFrame /\ f.type = "RESPONSE" /\ f.credit # NoOffset /\ Credited(f.credit)
  BY <1>1, CreditKind DEF RouterInv, NetSound, BindCredit, Arrives, CreditFrame, CreditFirst
<1>3. ASSUME NEW g \in net', g \notin net
      PROVE  g.type = "RESPONSE" /\ g.credit = f.credit
  <2>1. PICK h, i : g = [f EXCEPT !.dst = h, !.locs = Append(@, i)]
    BY <1>3 DEF BindCredit, Taken
  <2> QED BY <1>2, <2>1 DEF CreditFrame, ResponseFrame
<1>4. g_slots \in [Routers -> [SlotIds -> Slot]] /\ g_router_alloc_ptr[R] \in SlotIds
  BY <1>1 DEF RouterInv, OpenTypeOK
<1>5. \/ g_slots' = g_slots
      \/ g_slots' = [g_slots EXCEPT ![R][g_router_alloc_ptr[R]] = SlotFor(owner)]
  BY DEF BindCredit, routerVars
<1>6. SlotFor(owner).owner = owner /\ owner[2] = f.credit
  BY DEF SlotFor
<1> HIDE DEF owner
<1>7. \A Q \in Routers, i \in SlotIds :
        g_slots'[Q][i] = g_slots[Q][i] \/ g_slots'[Q][i] = SlotFor(owner)
  BY <1>4, <1>5
<1>8. \A Q \in Routers, i \in SlotIds : g_slots'[Q][i].owner # NoOwner =>
          Credited(g_slots'[Q][i].owner[2])
  BY <1>1, <1>2, <1>6, <1>7 DEF CreditFirst
<1> QED BY <1>2, <1>3, <1>8 DEF RouterSends

LEMMA AggregateSends ==
    ASSUME BasicInv, NEW R \in Routers, NEW f \in net, Aggregate(R, f)
    PROVE  RouterSends
<1> DEFINE k    == AggLoc(f)
           old  == g_slots[R][k]
           with == SlotWith(old, f)
           next == [with EXCEPT !.forwarded = with.agg_count = with.fanin]
<1>1. RouterInv /\ CreditFirst
  BY DEF BasicInv
<1>2. f \in RequestFrame /\ RequestDepth(f) /\ PureFor(f.data, f.off) /\ Len(f.locs) > 0
  BY <1>1, ArrivingRequest DEF Aggregate
<1>3. f.type = "REQUEST" /\ Credited(f.off)
  BY <1>1 DEF Aggregate, Arrives, CreditFirst
<1>4. /\ k \in SlotIds /\ old \in Slot /\ CountSound(old) /\ ContentSound(old)
      /\ SlotAccepts(old, f) /\ g_slots \in [Routers -> [SlotIds -> Slot]]
  BY <1>1 DEF Aggregate, RouterInv, OpenTypeOK, SlotSound
<1>5. /\ g_slots' = [g_slots EXCEPT ![R][k] = next]
      /\ net' = (net \ {f}) \cup (IF with.agg_count = with.fanin THEN {MasterOf(with)} ELSE {})
  BY DEF Aggregate, Taken
<1>6. /\ next \in Slot /\ ContentSound(next) /\ next.owner = old.owner
      /\ next.agg_count > old.agg_count /\ next.master = with.master
  <2>1. next = Filled(old, f)
    BY DEF Filled
  <2> HIDE DEF old, next
  <2> QED BY <1>2, <1>4, <2>1, AcceptSound DEF with
<1>7. old.owner = <<f.sub, f.off>>
  BY <1>4 DEF SlotAccepts
<1>8. MasterOf(with).type = "REQUEST" /\ MasterOf(with).off = f.off
  <2>1. next.agg_count > 0
    BY <1>4, <1>6 DEF Slot
  <2>2. /\ next.master \in RequestFrame /\ RequestDepth(next.master)
        /\ Len(next.master.locs) > 0 /\ next.owner = <<next.master.sub, next.master.off>>
    BY <1>6, <2>1 DEF ContentSound
  <2>3. with.master.off = f.off /\ with.master \in RequestFrame
        /\ RequestDepth(with.master) /\ Len(with.master.locs) > 0
    BY <1>6, <1>7, <2>2
  <2>4. Popped(with.master) \in RequestFrame /\ Popped(with.master).off = f.off
    BY <2>3, PoppedSound
  <2> QED BY <2>4 DEF MasterOf, RequestFrame
<1> HIDE DEF k, with, next
<1>9. \A Q \in Routers, i \in SlotIds : g_slots'[Q][i].owner = g_slots[Q][i].owner
  BY <1>4, <1>5, <1>6 DEF old
<1> QED BY <1>1, <1>3, <1>5, <1>8, <1>9 DEF RouterSends, CreditFirst

LEMMA RouterPartStep ==
    ASSUME BasicInv, RouterStep
    PROVE  RouterInv' /\ RouterSends
<1>1. RouterInv /\ CreditFirst
  BY DEF BasicInv
<1>2. PICK R \in Routers, f \in net :
        BindCredit(R, f) \/ PassThrough(R, f) \/ Miss(R, f) \/ Aggregate(R, f)
  BY DEF RouterStep
<1>3. CASE BindCredit(R, f)
  BY <1>1, <1>3, BindStep, BindSends
<1>4. CASE PassThrough(R, f)
  <2>1. f \in RequestFrame /\ RequestDepth(f) /\ Len(f.locs) > 0
    BY <1>1, <1>4, ArrivingRequest DEF PassThrough
  <2>2. f.type = "REQUEST" /\ Credited(f.off)
    BY <1>1, <1>4 DEF PassThrough, Arrives, CreditFirst
  <2>3. Popped(f).type = "REQUEST" /\ Popped(f).off = f.off
    BY <2>1, PoppedSound DEF RequestFrame
  <2>4. RouterSends
    BY <1>1, <1>4, <2>2, <2>3 DEF PassThrough, Taken, routerVars, RouterSends, CreditFirst
  <2> QED BY <1>1, <1>4, <2>4, PassThroughStep
<1>5. CASE Miss(R, f)
  <2>1. AggMiss(f.src, f.sub, f.off).type = "AGG_MISS"
    BY DEF AggMiss
  <2>2. RouterSends
    BY <1>1, <1>5, <2>1 DEF Miss, Taken, routerVars, RouterSends, CreditFirst
  <2> QED BY <1>1, <1>5, <2>2, MissStep
<1>6. CASE Aggregate(R, f)
  BY <1>1, <1>6, AggregateStep, AggregateSends
<1> QED BY <1>2, <1>3, <1>4, <1>5, <1>6

\* The second copy of a frame is as well formed as the first, and says the
\* same.
LEMMA CopyOK ==
    ASSUME NEW f, FrameOK(f), NEW g, g = [f EXCEPT !.copy = TRUE]
    PROVE  /\ FrameOK(g) /\ g.type = f.type
           /\ f.type \in {"REGISTER", "END_ACK"} => g.src = f.src /\ g.sub = f.sub
           /\ f.type \in {"REQUEST", "REPAIR_REQUEST"} =>
                g.src = f.src /\ g.off = f.off /\ g.data = f.data
           /\ f.type = "RESPONSE" =>
                /\ g.credit = f.credit /\ g.payload = f.payload
                /\ g.repair = f.repair /\ g.data = f.data
<1>1. CASE f \in ResponseFrame
  <2>1. g \in ResponseFrame /\ g.type = "RESPONSE" /\ f.type = "RESPONSE"
    BY <1>1 DEF ResponseFrame
  <2>2. /\ g.dst = f.dst /\ g.locs = f.locs /\ g.credit = f.credit
        /\ g.payload = f.payload /\ g.data = f.data /\ g.repair = f.repair
    BY <1>1 DEF ResponseFrame
  <2>3. g \in Frame /\ f \notin RequestFrame
    BY <2>1 DEF Frame, RequestFrame
  <2>4. CASE f \in CreditFrame /\ CreditDepth(f)
    BY <2>1, <2>2, <2>4 DEF FrameOK, CreditFrame, CreditDepth
  <2>5. CASE f \in BypassFrame
    BY <2>1, <2>2, <2>3, <2>5 DEF FrameOK, BypassFrame
  <2> QED BY <2>1, <2>2, <2>3, <2>4, <2>5 DEF FrameOK
<1>2. CASE f \in RequestFrame
  <2>1. g \in RequestFrame /\ g.type = "REQUEST" /\ f.type = "REQUEST"
    BY <1>2 DEF RequestFrame
  <2>2. /\ g.dst = f.dst /\ g.src = f.src /\ g.off = f.off /\ g.data = f.data
        /\ g.locs = f.locs /\ g.fanins = f.fanins
    BY <1>2 DEF RequestFrame
  <2>3. RequestDepth(f) /\ PureFor(f.data, f.off)
    BY <2>1, RequestKind
  <2> QED BY <2>1, <2>2, <2>3 DEF FrameOK, RequestDepth
<1>3. CASE f \notin ResponseFrame /\ f \notin RequestFrame
  <2>1. f \in Frame /\ f.type \notin {"REQUEST", "RESPONSE"}
    BY <1>3 DEF FrameOK, BypassFrame, CreditFrame
  <2>2. CASE f \in [type : {"REGISTER"}, src : Requesters, dst : {Responder},
                    sub : Subchannels, copy : BOOLEAN]
    BY <2>2 DEF FrameOK, BypassFrame, Frame
  <2>3. CASE f \in [type : {"REGISTER_ACK"}, dst : Requesters, sub : Subchannels, copy : BOOLEAN]
    BY <2>3 DEF FrameOK, BypassFrame, Frame
  <2>4. CASE f \in [type : {"REPAIR_REQUEST"}, src : Requesters, dst : {Responder},
                    sub : Subchannels, off : Offsets, data : Payloads, copy : BOOLEAN]
    BY <2>4 DEF FrameOK, BypassFrame, Frame
  <2>5. CASE f \in [type : {"END"}, dst : Requesters, sub : Subchannels, epoch : Nat,
                    copy : BOOLEAN]
    BY <2>5 DEF FrameOK, BypassFrame, Frame
  <2>6. CASE f \in [type : {"END_ACK"}, src : Requesters, dst : {Responder},
                    sub : Subchannels, epoch : Nat, copy : BOOLEAN]
    BY <2>6 DEF FrameOK, BypassFrame, Frame
  <2>7. CASE f \in MissFrame
    BY <2>7 DEF FrameOK, BypassFrame, Frame, MissFrame
  <2> QED BY <1>3, <2>1, <2>2, <2>3, <2>4, <2>5, <2>6, <2>7 DEF Frame
<1> QED BY <1>1, <1>2, <1>3

=============================================================================
