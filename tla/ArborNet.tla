------------------------------ MODULE ArborNet ------------------------------
(***************************************************************************)
(* What the parts of one Arbor channel share: the hosts, the aggregation   *)
(* tree, the payload algebra and the frames in flight.                     *)
(*                                                                         *)
(* One channel carries one message: P packets, all-reduced between the     *)
(* responder of the channel and its requesters.  Message ids and the 24    *)
(* bit sequence space are therefore left out of the frames here.           *)
(***************************************************************************)
EXTENDS Integers, Sequences, FiniteSets

CONSTANTS
    Requesters,   \* the hosts of neighbor_mask_of(channel)
    Responder,    \* the host whose rank is the channel id
    Routers,      \* the routers whose tree role is LEVEL
    Path,         \* Path[r]: the LEVEL routers from the root down to r
    Subchannels,  \* 0 .. SUBCHANNEL_COUNT-1
    P,            \* total_packets of the message
    Pull,         \* TRUE: request/respond, FALSE: request_push/respond_push
    Epoch         \* first sequence number of the message

VARIABLE net      \* the frames in flight

Offsets   == 0 .. P - 1
NoOffset  == -1
Hosts     == Requesters \cup {Responder}

ASSUME ArborNetAssumption ==
    /\ IsFiniteSet(Requesters) /\ Requesters # {}
    /\ Responder \notin Requesters
    /\ Routers \cap Hosts = {}
    /\ IsFiniteSet(Subchannels) /\ Subchannels # {}
    /\ Subchannels = 0 .. Cardinality(Subchannels) - 1
    /\ P \in Nat \ {0}
    /\ Pull \in BOOLEAN
    /\ Epoch \in Nat
    /\ Path \in [Requesters -> Seq(Routers)]
    /\ \A r \in Requesters : Len(Path[r]) > 0

-----------------------------------------------------------------------------
(* Payloads.  A packet's payload is the vector sum of the fragments that   *)
(* went into it; it is modelled by how often each host's fragment of each  *)
(* offset was added, so a lost, doubled or misplaced fragment shows.       *)

Fragments   == Hosts \X Offsets
Zero        == [x \in Fragments |-> 0]
Fragment(h, o) == [x \in Fragments |-> IF x = <<h, o>> THEN 1 ELSE 0]
Plus(a, b)  == [x \in Fragments |-> a[x] + b[x]]

\* What offset o must hold in the end: every contributing host exactly once.
Exact(o) ==
    [x \in Fragments |->
        IF x[2] = o /\ (Pull \/ x[1] = Responder) THEN 1 ELSE 0]

-----------------------------------------------------------------------------
(* The aggregation tree of the channel.                                    *)

Below(R)        == {r \in Requesters : \E i \in DOMAIN Path[r] : Path[r][i] = R}
Leaf(r)         == Path[r][Len(Path[r])]
FaninPlan(r)    == [i \in DOMAIN Path[r] |-> Cardinality(Below(Path[r][i]))]
Roots           == {Path[r][1] : r \in Requesters}

\* The next aggregation hop below a router that is the d-th of its paths.
NextHops(R, d) ==
    {IF Len(Path[r]) = d THEN r ELSE Path[r][d + 1] : r \in Below(R)}

-----------------------------------------------------------------------------
(* Frames.  dst is where the frame arrives next: normal credits and normal *)
(* requests stop at every LEVEL router; every other frame is forwarded     *)
(* untouched and is modelled as going straight to its host, multicasts as  *)
(* one copy per requester.  A frame and its duplicate differ in copy only. *)

Register(r, s) ==
    [type |-> "REGISTER", src |-> r, dst |-> Responder, sub |-> s, copy |-> FALSE]
RegisterAck(r, s) ==
    [type |-> "REGISTER_ACK", dst |-> r, sub |-> s, copy |-> FALSE]

\* credit and payload are offsets or NoOffset; locs is the agg_loc stack.
Response(d, s, c, o, data, rep, locs) ==
    [type |-> "RESPONSE", dst |-> d, sub |-> s, credit |-> c, payload |-> o,
     data |-> data, repair |-> rep, locs |-> locs, copy |-> FALSE]

\* count is offset_b, the contributions merged into an aggregated request.
Request(d, r, s, o, locs, fanins, agg, count, shape, data) ==
    [type |-> "REQUEST", dst |-> d, src |-> r, sub |-> s, off |-> o, locs |-> locs,
     fanins |-> fanins, aggregated |-> agg, count |-> count, shape |-> shape,
     data |-> data, copy |-> FALSE]

RepairRequest(r, s, o, data) ==
    [type |-> "REPAIR_REQUEST", src |-> r, dst |-> Responder, sub |-> s, off |-> o,
     data |-> data, copy |-> FALSE]
AggMiss(r, s, o) ==
    [type |-> "AGG_MISS", src |-> r, dst |-> Responder, sub |-> s, off |-> o,
     copy |-> FALSE]
End(r, s, e) ==
    [type |-> "END", dst |-> r, sub |-> s, epoch |-> e, copy |-> FALSE]
EndAck(r, s, e) ==
    [type |-> "END_ACK", src |-> r, dst |-> Responder, sub |-> s, epoch |-> e, copy |-> FALSE]

\* All of them.
Payloads  == [Fragments -> Nat]
OffsetOpt == Offsets \cup {NoOffset}

ResponseFrame ==
    [type : {"RESPONSE"}, dst : Requesters \cup Routers, sub : Subchannels,
     credit : OffsetOpt, payload : OffsetOpt, data : Payloads, repair : BOOLEAN,
     locs : Seq(Nat), copy : BOOLEAN]
RequestFrame ==
    [type : {"REQUEST"}, dst : Routers \cup {Responder}, src : Requesters,
     sub : Subchannels, off : Offsets, locs : Seq(Nat), fanins : Seq(Nat),
     aggregated : BOOLEAN, count : Nat, shape : BOOLEAN, data : Payloads,
     copy : BOOLEAN]
MissFrame ==
    [type : {"AGG_MISS"}, src : Requesters, dst : {Responder}, sub : Subchannels,
     off : Offsets, copy : BOOLEAN]
Frame ==
    ResponseFrame \cup RequestFrame \cup MissFrame
    \cup [type : {"REGISTER"}, src : Requesters, dst : {Responder}, sub : Subchannels,
          copy : BOOLEAN]
    \cup [type : {"REGISTER_ACK"}, dst : Requesters, sub : Subchannels, copy : BOOLEAN]
    \cup [type : {"REPAIR_REQUEST"}, src : Requesters, dst : {Responder}, sub : Subchannels,
          off : Offsets, data : Payloads, copy : BOOLEAN]
    \cup [type : {"END"}, dst : Requesters, sub : Subchannels, epoch : Nat, copy : BOOLEAN]
    \cup [type : {"END_ACK"}, src : Requesters, dst : {Responder}, sub : Subchannels,
          epoch : Nat, copy : BOOLEAN]

\* A frame of one of these types waits at node d.
Arrives(f, d, type) == f.dst = d /\ f.type = type

\* The frames left in flight once f has been taken.  Loss is a frame that is
\* never taken, reordering is taking a younger frame first.
Taken(f) == net \ {f}

=============================================================================
