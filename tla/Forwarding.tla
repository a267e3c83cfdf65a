----------------------------- MODULE Forwarding -----------------------------
(***************************************************************************)
(* Which way a frame goes.  Every router process keeps a receive ring per  *)
(* port, takes frames from them in turn (dev_pop) and sends each on by its *)
(* type and by the port it came in on, following the tables of Fabric.     *)
(* Arbor takes the outcome of this for granted: that a responder's frame   *)
(* reaches each requester once, that a requester's frame reaches the       *)
(* responder, and that a request meets the routers its credit met.         *)
(*                                                                         *)
(* The hosts are an environment: each exchange starts with frames to send, *)
(* and a host answers what it hears.  Slots are reduced to what decides    *)
(* the way of a request, its count; Router has the whole slot.             *)
(***************************************************************************)
EXTENDS Fabric, FiniteSets, Bags

CONSTANTS
    Topologies,   \* name -> [file, links, access, above, reach]: tree.cfg, setup.sh,
                  \* the routers of role LEVEL between the root and each router,
                  \* and the hosts to reach from each port a multicast passes
    Workloads,    \* which exchanges take place at once, in which topology
    RingSize      \* DEV_RING_SIZE; a ring holds one frame less

ASSUME ForwardingAssumption == RingSize \in Nat /\ RingSize > 1

Exchange == [kind : {"REGISTER", "REGISTER_ACK", "DATA", "END"}, channel : Channels]

\* Every router some file has lines of.
AllRouters == UNION {DOMAIN Topologies[t].file.routers : t \in DOMAIN Topologies}

-----------------------------------------------------------------------------
(* What the files and the cables have to be like for frames to find their  *)
(* way.  The loader checks none of it; star and tree are like this.        *)

PortsIn(fab, R)     == Range(fab.routers[R].devs)
NodeIn(fab, R, c)   == fab.routers[R].tree[c]
Within(fab, R, c)   == c \in DOMAIN fab.routers[R].tree

\* The levels a credit has bound when it leaves R downwards, root first.
LevelsBelow(fab, above, R, c) ==
    IF NodeIn(fab, R, c).role = "RELAY" THEN above[R] ELSE Append(above[R], R)

\* A port is a device of one router.
PortsApart(fab) ==
    \A R, Q \in DOMAIN fab.routers : PortsIn(fab, R) \cap PortsIn(fab, Q) # {} => R = Q

\* What R sends up comes in at a router that has R's levels above it bound,
\* on another port than its own from the root; or R is at the top and it
\* comes in on that port of a router at the top.
MirroredUp(fab, top, R, c) ==
    \A Q \in DOMAIN fab.routers : \A q \in PortsIn(fab, Q) :
        top.links[NodeIn(fab, R, c).up] = <<"port", q>> =>
            /\ Within(fab, Q, c)
            /\ IF q = NodeIn(fab, Q, c).down THEN top.above[R] = <<>> /\ top.above[Q] = <<>>
               ELSE top.above[R] = LevelsBelow(fab, top.above, Q, c)

\* What R multicasts comes in at routers below R on their port from the
\* root, and at requesters that send to R, not on its port from the root.
MirroredDown(fab, top, R, c) ==
    \A p \in Range(McastOf(fab.routers[R], c)) :
        /\ \A Q \in DOMAIN fab.routers : \A q \in PortsIn(fab, Q) :
             top.links[p] = <<"port", q>> /\ Within(fab, Q, c) =>
                 /\ q = NodeIn(fab, Q, c).down
                 /\ top.above[Q] = LevelsBelow(fab, top.above, R, c)
        /\ \A h \in RequestersOf(c[1]) :
             top.links[p] = <<"host", h>> =>
                 /\ top.access[<<h, c[2]>>] \in PortsIn(fab, R)
                 /\ top.access[<<h, c[2]>>] # NodeIn(fab, R, c).down

\* Only at the top does a responder send in on the port from the root.
MirroredAtTop(fab, top, R, c) ==
    NodeIn(fab, R, c).down = top.access[c] => top.above[R] = <<>>

\* The ports on which R passes on a multicast of c that came in on p, and
\* the hosts it reaches on one of them.
McastFrom(fab, R, c, p) ==
    CASE ~Within(fab, R, c)                                -> {}
      [] Within(fab, R, c) /\ p # NodeIn(fab, R, c).down   -> {NodeIn(fab, R, c).up}
      [] Within(fab, R, c) /\ p = NodeIn(fab, R, c).down   -> Range(McastOf(fab.routers[R], c))

Behind(top, q, c) ==
    {h \in Ranks :
        \/ top.links[q] = <<"host", h>>
        \/ \E x \in DOMAIN top.reach :
             x[2] = c /\ top.links[q] = <<"port", x[1]>> /\ h \in top.reach[x]}

\* top.reach tells for the ports a multicast passes which hosts it is to
\* reach from there.  Each is behind one port out of the router; only the
\* responder hears an echo, on the port that its frame came in on.
Spreads(fab, top, R, c, p) ==
    LET out == McastFrom(fab, R, c, p)
        turned(q) == Within(fab, R, c) /\ p = NodeIn(fab, R, c).down /\ q = p
    IN /\ top.reach[<<p, c>>] = UNION {Behind(top, q, c) : q \in out}
       /\ \A q, z \in out : q # z => Behind(top, q, c) \cap Behind(top, z, c) = {}
       /\ \A q \in out :
            /\ \/ \E x \in DOMAIN top.reach : x[2] = c /\ top.links[q] = <<"port", x[1]>>
               \/ /\ p = NodeIn(fab, R, c).down
                  /\ \E h \in Ranks : top.links[q] = <<"host", h>>
            /\ turned(q) <=> top.links[q] = <<"host", c[1]>>

\* What the responder of c sends comes in where it reaches all requesters.
StartsAbove(top, c) ==
    /\ <<top.access[c], c>> \in DOMAIN top.reach
    /\ top.reach[<<top.access[c], c>>] \ {c[1]} = RequestersOf(c[1])

\* Routers with a route for c pass on a frame to one another or to the
\* responder, whether they send it to the root or by its destination.
Routed(fab, R, c) == c \in DOMAIN fab.routers[R].route

LeadsOn(fab, top, R, c) ==
    Routed(fab, R, c) =>
        \A q \in {fab.routers[R].route[c]} \cup
                 (IF Within(fab, R, c) THEN {NodeIn(fab, R, c).up} ELSE {}) :
            \/ top.links[q] = <<"host", c[1]>>
            \/ \E Q \in DOMAIN fab.routers : \E p \in PortsIn(fab, Q) :
                 top.links[q] = <<"port", p>> /\ Routed(fab, Q, c)

\* Requesters are at such routers.
StartsRouted(fab, top, c) ==
    \A r \in RequestersOf(c[1]) : \E R \in DOMAIN fab.routers :
        top.access[<<r, c[2]>>] \in PortsIn(fab, R) /\ Routed(fab, R, c)

\* The requesters that a credit of c reaches from R, where it binds a slot.
Levels(fab, c) == {R \in DOMAIN fab.routers : Within(fab, R, c) /\ NodeIn(fab, R, c).role # "RELAY"}

Under(fab, top, R, c) ==
    LET x == <<NodeIn(fab, R, c).down, c>>
    IN IF x \in DOMAIN top.reach THEN top.reach[x] \ {c[1]} ELSE {}

\* The levels are nested.
Nested(fab, top, R, c) ==
    /\ \A Q \in Levels(fab, c) :
         \/ Under(fab, top, Q, c) \subseteq Under(fab, top, R, c)
         \/ Under(fab, top, Q, c) \cap Under(fab, top, R, c) = {}
         \/ Q \in Range(top.above[R])
    /\ \A i \in DOMAIN top.above[R] :
         top.above[R][i] \in Levels(fab, c) /\ Len(top.above[top.above[R][i]]) = i - 1
    /\ top.above[R] = <<>> => Under(fab, top, R, c) = RequestersOf(c[1])

\* The fan-in that requesters state for R is the number of those under it.
PlannedFor(fab, top, R, c) ==
    \A r \in Under(fab, top, R, c) :
        fab.plans[<<r, c>>][Len(top.above[R]) + 1] = Cardinality(Under(fab, top, R, c))

\* A credit leaves R for a requester with a stack as deep as the plan, on
\* which are all the levels that have the requester under them; and a
\* request leaves R for the responder only with all levels unwound.
Delivers(fab, top, R, c) ==
    LET stack == LevelsBelow(fab, top.above, R, c)
    IN /\ \A q \in McastFrom(fab, R, c, NodeIn(fab, R, c).down) : \A r \in RequestersOf(c[1]) :
            top.links[q] = <<"host", r>> =>
                /\ Len(fab.plans[<<r, c>>]) = Len(stack) /\ stack # <<>>
                /\ \A Q \in Levels(fab, c) : r \in Under(fab, top, Q, c) => Q \in Range(stack)
       /\ top.links[NodeIn(fab, R, c).up] = <<"host", c[1]>> => top.above[R] = <<>>

WellMade(top) ==
    LET fab == Load(top.file)
    IN /\ IsFile(top.file)
       /\ fab.ok =>
            /\ PortsApart(fab)
            /\ top.above \in [DOMAIN fab.routers -> Seq(DOMAIN fab.routers)]
            /\ \A R \in DOMAIN fab.routers : \A c \in DOMAIN fab.routers[R].tree :
                 /\ MirroredUp(fab, top, R, c)
                 /\ MirroredDown(fab, top, R, c)
                 /\ MirroredAtTop(fab, top, R, c)
                 /\ Delivers(fab, top, R, c)
            /\ DOMAIN top.reach \subseteq (UNION {PortsIn(fab, R) : R \in DOMAIN fab.routers}) \X Channels
            /\ \A c \in Channels :
                 /\ StartsAbove(top, c) /\ StartsRouted(fab, top, c)
                 /\ \A R \in DOMAIN fab.routers :
                      /\ LeadsOn(fab, top, R, c)
                      /\ \A p \in PortsIn(fab, R) :
                           <<p, c>> \in DOMAIN top.reach => Spreads(fab, top, R, c, p)
                 /\ \A R \in Levels(fab, c) : Nested(fab, top, R, c) /\ PlannedFor(fab, top, R, c)

ASSUME TopologiesAssumption == \A t \in DOMAIN Topologies : WellMade(Topologies[t])
ASSUME WorkloadsAssumption ==
    \A w \in Workloads : w.topo \in DOMAIN Topologies /\ w.exchanges \subseteq Exchange

VARIABLES
    work,       \* the workload of this behaviour
    fabric,     \* the tables every process has loaded
    cabling,    \* what is at the other end of each port, and of each host
    todo,       \* frames the hosts have still to send
    rings,      \* rx_buf of each router port
    g_dev_rr,   \* of each router: the device dev_pop looks at first
    slots,      \* of each router and channel: the slot of the current credit
    heard,      \* bag of the frames hosts have received
    dropped,    \* whether a full ring has dropped a frame
    skipped     \* history: frames taken elsewhere while a port had one

site == <<work, fabric, cabling>>
vars == <<site, todo, rings, g_dev_rr, slots, heard, dropped, skipped>>

Config(R)   == fabric.routers[R]
RouterNames == DOMAIN fabric.routers
PortsOf(R)  == Range(Config(R).devs)
Ports       == DOMAIN rings
LinkOf(p)   == cabling.links[p]
PlanFor(r, c) == fabric.plans[<<r, c>>]

-----------------------------------------------------------------------------
(* Frames.                                                                 *)

FromResponder == {"REGISTER_ACK", "RESPONSE", "END"}

\* stack names the routers that pushed a slot; from, which is not on the
\* wire, the requesters whose contribution the frame carries.
Frame(type, src, dst, sub) ==
    [type |-> type, src |-> src, dst |-> dst, sub |-> sub,
     stack |-> <<>>, fanins |-> <<>>, count |-> 1, from |-> {src}]

ChannelOf(f) == <<IF f.type \in FromResponder THEN f.src ELSE f.dst, f.sub>>

\* What the hosts send unasked.
FirstFrames(e) ==
    LET h == e.channel[1]
        s == e.channel[2]
    IN CASE e.kind = "REGISTER"     -> {Frame("REGISTER", r, h, s) : r \in RequestersOf(h)}
         [] e.kind = "REGISTER_ACK" -> {Frame("REGISTER_ACK", h, h, s)}
         [] e.kind = "DATA"         -> {Frame("RESPONSE", h, h, s)}
         [] e.kind = "END"          -> {Frame("END", h, h, s)}

\* A host's answer.  A credit whose stack is not as deep as the plan is not
\* answered.
Replies(h, f) ==
    LET responder == ChannelOf(f)[1]
        plan      == PlanFor(h, ChannelOf(f))
    IN IF h = responder THEN {}
       ELSE CASE f.type = "END" -> {Frame("END_ACK", h, responder, f.sub)}
              [] f.type = "RESPONSE" /\ Len(plan) = Len(f.stack) ->
                   {[Frame("REQUEST", h, responder, f.sub)
                       EXCEPT !.stack = f.stack, !.fanins = plan]}
              [] OTHER -> {}

-----------------------------------------------------------------------------
(* Ports.                                                                  *)

TreeAt(R, c)  == Config(R).tree[c]
InTree(R, c)  == c \in DOMAIN Config(R).tree
IsLevel(R, c) == InTree(R, c) /\ TreeAt(R, c).role # "RELAY"

\* Mutant: a frame is from the parent when it came in on the port that
\* leads there.
FromParentUp(R, c, p) == InTree(R, c) /\ p = TreeAt(R, c).up

\* router_ingress_from_parent.
FromParent(R, c, p) == InTree(R, c) /\ p = TreeAt(R, c).down

\* Mutant: on the way down a frame for one host is sent to all of them.
BypassPortsAll(R, p, c) ==
    IF InTree(R, c) /\ ~FromParent(R, c, p) THEN <<TreeAt(R, c).up>>
    ELSE McastOf(Config(R), c)

\* router_forward_bypass_tree: up to the root first, then by destination.
BypassPorts(R, p, c) ==
    CASE InTree(R, c) /\ ~FromParent(R, c, p) -> <<TreeAt(R, c).up>>
      [] ~(InTree(R, c) /\ ~FromParent(R, c, p)) /\ c \in DOMAIN Config(R).route ->
           <<Config(R).route[c]>>
      [] OTHER -> <<>>

\* router_multicast_control and router_multicast_response: up to the root,
\* then down every multicast port.
McastPorts(R, p, c) ==
    CASE InTree(R, c) /\ ~FromParent(R, c, p) -> <<TreeAt(R, c).up>>
      [] FromParent(R, c, p)                  -> McastOf(Config(R), c)
      [] OTHER                                -> <<>>

\* router_forward_request_tree: while levels remain, up.  From the parent's
\* side it falls through to the bypass rule, which is the same for depth 0.
RequestPorts(R, p, f) == BypassPorts(R, p, ChannelOf(f))

-----------------------------------------------------------------------------
(* Receive rings.                                                          *)

\* Mutant: dev_pop always starts at the first device.
FirstDeviceZero(R) == 0

FirstDevice(R) == g_dev_rr[R]

\* dev_pop: the devices in turn, and the one it takes a frame from.
DeviceAt(R, attempt) == (FirstDevice(R) + attempt) % Len(Config(R).devs)
PortAt(R, attempt)   == Config(R).devs[DeviceAt(R, attempt) + 1]
NonEmpty(R) == {a \in 0 .. Len(Config(R).devs) - 1 : rings[PortAt(R, a)] # <<>>}
Attempt(R)  == CHOOSE a \in NonEmpty(R) : \A b \in NonEmpty(R) : a <= b

\* How many of the copies that leave on ports get to end: inject_on_port
\* sends nothing on a port that is not among the devices.
Copies(devices, ports, end) ==
    Cardinality({i \in DOMAIN ports : LinkOf(ports[i]) = end /\ ports[i] \in devices})

\* Mutant: a full ring is not noticed.
QueuedAlways(ring, f, copies) == ring \o [i \in 1 .. copies |-> f]

\* dev_capture_thread: a full ring drops what comes last.
Queued(ring, f, copies) ==
    LET room == RingSize - 1 - Len(ring)
    IN ring \o [i \in 1 .. (IF copies < room THEN copies ELSE room) |-> f]

\* Router R sends f on those of ports that are among devices; the other end
\* has the copy at once.  kept is what is in the rings apart from them.
Inject(kept, devices, ports, f) ==
    LET ToRing(q) == Copies(devices, ports, <<"port", q>>)
        ToHost(h) == Copies(devices, ports, <<"host", h>>)
        hearers   == {h \in Ranks : ToHost(h) > 0}
    IN /\ rings' = [q \in Ports |-> Queued(kept[q], f, ToRing(q))]
       /\ dropped' = (dropped \/ \E q \in Ports : Len(kept[q]) + ToRing(q) >= RingSize)
       /\ heard' = heard (+) [x \in [at : hearers, frame : {f}] |-> ToHost(x.at)]
       /\ todo' = todo \cup UNION {Replies(h, f) : h \in hearers}

-----------------------------------------------------------------------------

NoSlot == [bound |-> FALSE, fanin |-> 0, count |-> 0, from |-> {}, forwarded |-> FALSE]

Init ==
    /\ work \in Workloads
    /\ fabric = Load(Topologies[work.topo].file)
    /\ fabric.ok
    /\ cabling = [links |-> Topologies[work.topo].links, access |-> Topologies[work.topo].access]
    /\ todo = UNION {FirstFrames(e) : e \in work.exchanges}
    /\ rings = [p \in UNION {PortsOf(R) : R \in RouterNames} |-> <<>>]
    /\ g_dev_rr = [R \in RouterNames |-> 0]
    /\ slots = [R \in RouterNames |-> [c \in {e.channel : e \in work.exchanges} |-> NoSlot]]
    /\ heard = EmptyBag
    /\ dropped = FALSE
    /\ skipped = [p \in Ports |-> 0]

\* A host sends a frame on its interface of the subchannel; the frame is in
\* the ring of the router port at the other end.
Send(f) ==
    LET p == cabling.access[<<f.src, f.sub>>]
    IN /\ f \in todo
       /\ todo' = todo \ {f}
       /\ rings' = [rings EXCEPT ![p] = Queued(rings[p], f, 1)]
       /\ dropped' = (dropped \/ Len(rings[p]) + 1 >= RingSize)
       /\ UNCHANGED <<site, g_dev_rr, slots, heard, skipped>>

\* Router R takes the frame at the head of port p, sends f on ports, and goes
\* on to the device after p.
Pass(R, p, devices, ports, f) ==
    /\ NonEmpty(R) # {} /\ p = PortAt(R, Attempt(R))
    /\ g_dev_rr' = [g_dev_rr EXCEPT ![R] = (DeviceAt(R, Attempt(R)) + 1) % Len(Config(R).devs)]
    /\ skipped' = [q \in Ports |->
                     IF q \notin PortsOf(R) THEN skipped[q]
                     ELSE IF q = p \/ rings[q] = <<>> THEN 0 ELSE skipped[q] + 1]
    /\ Inject([rings EXCEPT ![p] = Tail(rings[p])], devices, ports, f)
    /\ UNCHANGED site

First(p) == rings[p][1]
Waits(p, types) == rings[p] # <<>> /\ First(p).type \in types

\* REGISTER_ACK and END; the port a frame came in on gets no copy.
MulticastControl(R, p) ==
    LET f == First(p)
    IN /\ Waits(p, {"REGISTER_ACK", "END"})
       /\ Pass(R, p, IF FromParent(R, ChannelOf(f), p) THEN PortsOf(R) \ {p} ELSE PortsOf(R),
               McastPorts(R, p, ChannelOf(f)), f)
       /\ UNCHANGED slots

\* A credit.  On its way down a LEVEL router binds a slot for it, unless that
\* has been taken over by the time the requests come (work.lost), and pushes
\* it.
MulticastResponse(R, p) ==
    LET f    == First(p)
        c    == ChannelOf(f)
        push == IsLevel(R, c) /\ FromParent(R, c, p)
    IN /\ Waits(p, {"RESPONSE"})
       /\ slots' = IF push THEN [slots EXCEPT ![R][c] = [NoSlot EXCEPT !.bound = R \notin work.lost]]
                   ELSE slots
       /\ Pass(R, p, PortsOf(R), McastPorts(R, p, c),
               IF push THEN [f EXCEPT !.stack = Append(f.stack, R)] ELSE f)

Aggregates(R, f) == f.stack # <<>> /\ IsLevel(R, ChannelOf(f))

\* Requesters' control frames, AGG_MISS, and requests with no level left or
\* at a RELAY router.
Bypass(R, p) ==
    LET f == First(p)
    IN /\ Waits(p, {"REGISTER", "END_ACK", "AGG_MISS", "REQUEST"})
       /\ f.type = "REQUEST" => ~Aggregates(R, f)
       /\ Pass(R, p, PortsOf(R), BypassPorts(R, p, ChannelOf(f)), f)
       /\ UNCHANGED slots

\* Mutant: the root's level is consumed first.
PoppedRootFirst(f) == [f EXCEPT !.stack = Tail(@), !.fanins = Tail(@)]

\* Mutant: the fan-in that stays is that of the level just consumed.
PoppedOtherFanin(f) == [f EXCEPT !.stack = Front(f.stack), !.fanins = Tail(f.fanins)]

\* request_pop_one_level.
PoppedLevel(f) ==
    [f EXCEPT !.stack = Front(f.stack), !.fanins = Front(f.fanins)]

\* slot_accept.
Accepts(slot, fanin, f) ==
    /\ slot.bound /\ ~slot.forwarded
    /\ f.count <= fanin - slot.count
    /\ slot.count # 0 => slot.fanin = fanin

\* A request with a level left: a fan-in of one passes it on, a slot that
\* does not take it makes it an AGG_MISS, and the contribution that
\* completes a slot sends the sum on.
Request(R, p) ==
    LET f     == First(p)
        c     == ChannelOf(f)
        fanin == f.fanins[Len(f.stack)]
        slot  == slots[R][c]
        next  == [slot EXCEPT !.fanin = fanin, !.count = @ + f.count, !.from = @ \cup f.from]
        On(g) == Pass(R, p, PortsOf(R), RequestPorts(R, p, f), g)
    IN /\ Waits(p, {"REQUEST"}) /\ Aggregates(R, f)
       /\ \/ /\ fanin = 1
             /\ On(PoppedLevel(f))
             /\ UNCHANGED slots
          \/ /\ fanin # 1 /\ ~Accepts(slot, fanin, f)
             /\ On([f EXCEPT !.type = "AGG_MISS", !.stack = <<>>, !.fanins = <<>>])
             /\ UNCHANGED slots
          \/ /\ fanin # 1 /\ Accepts(slot, fanin, f)
             /\ slots' = [slots EXCEPT ![R][c] = [next EXCEPT !.forwarded = next.count = fanin]]
             /\ IF next.count = fanin
                THEN On([PoppedLevel(f) EXCEPT !.count = next.count, !.from = next.from])
                ELSE Pass(R, p, PortsOf(R), <<>>, f)

\* One iteration of INC that finds a frame.
INC(R) ==
    \E p \in PortsOf(R) :
        \/ MulticastControl(R, p)
        \/ MulticastResponse(R, p)
        \/ Bypass(R, p)
        \/ Request(R, p)

SendSome == \E f \in todo : Send(f)

Next == SendSome \/ \E R \in RouterNames : INC(R)

\* A host sends what it has to send, and the loop of a router never blocks.
Spec ==
    /\ Init /\ [][Next]_vars
    /\ WF_vars(SendSome)
    /\ \A R \in AllRouters : WF_vars(R \in RouterNames /\ INC(R))

-----------------------------------------------------------------------------
(* Properties.                                                             *)

Settled == todo = {} /\ \A p \in Ports : rings[p] = <<>>

\* Type correctness of the rings, the counters and what hosts have heard.
ForwardingTypeOK ==
    /\ work \in Workloads
    /\ IsABag(heard)
    /\ \A p \in Ports : Len(rings[p]) \in 0 .. RingSize - 1 /\ skipped[p] \in Nat
    /\ \A R \in RouterNames : g_dev_rr[R] \in 0 .. Len(Config(R).devs) - 1

Hears(h, type, c) == {x \in BagToSet(heard) : x.at = h /\ x.frame.type = type /\ ChannelOf(x.frame) = c}
MulticastsOf(e) ==
    CASE e.kind = "REGISTER"     -> {}
      [] e.kind = "REGISTER_ACK" -> {"REGISTER_ACK"}
      [] e.kind = "DATA"         -> {"RESPONSE"}
      [] e.kind = "END"          -> {"END"}

\* A frame a responder sends once (REGISTER_ACK, RESPONSE, END) reaches no
\* host twice and only requesters of its channel (a RESPONSE may echo to the
\* responder), and once nothing is under way it has reached all of them.
MulticastOnce ==
    \A e \in work.exchanges : \A type \in MulticastsOf(e) :
        /\ \A h \in Ranks : \A x, y \in Hears(h, type, e.channel) : x = y /\ heard[x] = 1
        /\ type # "RESPONSE" => Hears(e.channel[1], type, e.channel) = {}
        /\ Settled /\ ~dropped =>
             \A r \in RequestersOf(e.channel[1]) : Hears(r, type, e.channel) # {}

UnicastsOf(e) ==
    CASE e.kind = "REGISTER" -> {"REGISTER"}
      [] e.kind = "END"      -> {"END_ACK"}
      [] OTHER               -> {}

\* A frame for the responder is heard by no other host, and once nothing is
\* under way the responder has one REGISTER or END_ACK of each requester.
UnicastArrives ==
    /\ \A x \in BagToSet(heard) :
         x.frame.type \notin FromResponder => x.at = x.frame.dst /\ heard[x] = 1
    /\ Settled /\ ~dropped =>
         \A e \in work.exchanges : \A type \in UnicastsOf(e) :
            {x.frame.src : x \in Hears(e.channel[1], type, e.channel)} = RequestersOf(e.channel[1])

\* A request unwinds its stack at the very routers whose slots its credit
\* pushed, deepest first: the ports up mirror the ports down.
UnwindsWherePushed ==
    \A R \in RouterNames : \A p \in PortsOf(R) : \A i \in DOMAIN rings[p] :
        LET f == rings[p][i]
        IN f.type = "REQUEST" /\ Aggregates(R, f) => f.stack[Len(f.stack)] = R

\* The fan-in plans of the files fit the trees of the files: no slot counts
\* a requester twice, and one request with every requester's contribution
\* reaches the responder, or, where a slot was taken over, an AGG_MISS does
\* and the responder learns of it.
AggregateOrMiss ==
    /\ \A R \in RouterNames : \A c \in DOMAIN slots[R] :
         slots[R][c].count = Cardinality(slots[R][c].from)
    /\ Settled /\ ~dropped =>
         \A e \in work.exchanges : e.kind = "DATA" =>
            LET sums   == Hears(e.channel[1], "REQUEST", e.channel)
                misses == Hears(e.channel[1], "AGG_MISS", e.channel)
                whole(x) == /\ x.frame.from = RequestersOf(e.channel[1])
                            /\ x.frame.count = Cardinality(x.frame.from)
            IN IF misses = {} THEN Cardinality(sums) = 1 /\ \A x \in sums : whole(x)
               ELSE work.lost # {} /\ sums = {}

\* A port with a frame waiting is passed over at most once by each other
\* port of its router before dev_pop serves it.
PortsServedInTurn ==
    \A R \in RouterNames : \A p \in PortsOf(R) : skipped[p] < Len(Config(R).devs)

\* Nothing circulates: every exchange comes to an end.
ExchangesEnd == <>[]Settled
=============================================================================
