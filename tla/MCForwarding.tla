---------------------------- MODULE MCForwarding ----------------------------
(***************************************************************************)
(* The shipped star and tree topologies (topology/star, topology/tree):    *)
(* the lines of tree.cfg and the links of setup.sh.                        *)
(***************************************************************************)
EXTENDS Forwarding, TLC

Concat(seqs) == FoldLeft(LAMBDA a, b : a \o b, <<>>, seqs)

Devs(ports) == [i \in DOMAIN ports |-> [kind |-> "dev", port |-> ports[i]]]
Route(c, port) == <<[kind |-> "route", rank |-> c[1], sub |-> c[2], port |-> port]>>
Mcast(c, ports) ==
    [i \in DOMAIN ports |-> [kind |-> "mcast", rank |-> c[1], sub |-> c[2], port |-> ports[i]]]
Tree(c, role, ports) ==
    <<[kind |-> "tree", rank |-> c[1], sub |-> c[2], role |-> role, ports |-> ports]>>
Req(r, c, depth, fanins) ==
    [requester |-> r, rank |-> c[1], sub |-> c[2], depth |-> depth, fanins |-> fanins]

ChannelSeq == [i \in 1 .. RankCount * SubCount |-> <<(i - 1) \div SubCount, (i - 1) % SubCount>>]
PerChannel(Lines(_)) == Concat([i \in DOMAIN ChannelSeq |-> Lines(ChannelSeq[i])])
Plans(Line(_, _)) ==
    PerChannel(LAMBDA c : [i \in 1 .. RankCount - 1 |-> Line(SetToSeq(RequestersOf(c[1]))[i], c)])

-----------------------------------------------------------------------------
(* star: a router per subchannel, a port per host.                         *)

StarPorts == << <<"r1-h1s0", "r1-h2s0", "r1-h3s0", "r1-h4s0">>,
                <<"r2-h1s1", "r2-h2s1", "r2-h3s1", "r2-h4s1">> >>
StarRouter == <<"router1", "router2">>
StarPort(c) == StarPorts[c[2] + 1][c[1] + 1]

\* A router of the star has no lines about the other's subchannel.
OfSub(s, lines) == SelectSeq(lines, LAMBDA line : line.sub = s)

StarLines(s) ==
    Devs(StarPorts[s + 1])
    \o OfSub(s, PerChannel(LAMBDA c : Route(c, StarPort(c))))
    \o OfSub(s, PerChannel(LAMBDA c : Mcast(c, StarPorts[s + 1])))
    \o OfSub(s, PerChannel(LAMBDA c : Tree(c, "LEVEL", <<StarPort(c), StarPort(c)>>)))

StarFile ==
    [routers |-> StarRouter[1] :> StarLines(0) @@ StarRouter[2] :> StarLines(1),
     reqs    |-> Plans(LAMBDA r, c : Req(r, c, 1, <<3>>))]

Star ==
    [file   |-> StarFile,
     links  |-> [p \in Range(StarPorts[1]) \cup Range(StarPorts[2]) |->
                   <<"host", (CHOOSE c \in Channels : StarPort(c) = p)[1]>>],
     access |-> [c \in Channels |-> StarPort(c)],
     above  |-> [R \in Range(StarRouter) |-> <<>>],
     reach  |-> [x \in {<<StarPort(c), c>> : c \in Channels} |-> Ranks]]

-----------------------------------------------------------------------------
(* tree: two leaves of two hosts, router-a above them, a relay as the root.*)

Leaves == <<"router-a0", "router-a1">>
LeafOf(rank) == (rank \div 2) + 1
LeafUp   == <<"ra0-up", "ra1-up">>
LeafDown == <<"ra0-down", "ra1-down">>
MidUp    == <<"ra-a0-up", "ra-a1-up">>
MidDown  == <<"ra-a0-down", "ra-a1-down">>
LeafPorts == << <<"ra0-h1s0", "ra0-h2s0", "ra1-h3s0", "ra1-h4s0">>,
                <<"ra0-h1s1", "ra0-h2s1", "ra1-h3s1", "ra1-h4s1">> >>
LeafPort(c) == LeafPorts[c[2] + 1][c[1] + 1]
HostsAt(l)  == <<2 * (l - 1), 2 * (l - 1) + 1>>

LeafLines(l) ==
    Devs([i \in 1 .. 4 |-> LeafPort(<<HostsAt(l)[(i + 1) \div 2], (i + 1) % 2>>)]
                      \o <<LeafUp[l], LeafDown[l]>>)
    \o PerChannel(LAMBDA c : Route(c, IF LeafOf(c[1]) = l THEN LeafPort(c) ELSE LeafDown[l]))
    \o PerChannel(LAMBDA c :
         Mcast(c,
               [i \in 1 .. Len(SelectSeq(HostsAt(l), LAMBDA h : h # c[1])) |->
                  LeafPort(<<SelectSeq(HostsAt(l), LAMBDA h : h # c[1])[i], c[2]>>)]))
    \o PerChannel(LAMBDA c : Tree(c, "LEVEL", <<LeafDown[l], LeafUp[l]>>))

MidLines ==
    Devs(<<"ra-a0-up", "ra-a0-down", "ra-a1-up", "ra-a1-down", "ra-u", "ra-d">>)
    \o PerChannel(LAMBDA c : Route(c, MidDown[LeafOf(c[1])]))
    \o PerChannel(LAMBDA c : Mcast(c, MidDown))
    \o PerChannel(LAMBDA c : Tree(c, "LEVEL", <<"ra-u", "ra-d">>))

RootLines ==
    Devs(<<"rr-up", "rr-down">>)
    \o PerChannel(LAMBDA c : Route(c, "rr-down"))
    \o PerChannel(LAMBDA c : Mcast(c, <<"rr-down">>))
    \o PerChannel(LAMBDA c : Tree(c, "RELAY", <<"rr-down", "rr-up">>))

TreeFile ==
    [routers |-> "router-root" :> RootLines @@ "router-a" :> MidLines
                 @@ Leaves[1] :> LeafLines(1) @@ Leaves[2] :> LeafLines(2),
     reqs    |-> Plans(LAMBDA r, c : Req(r, c, 2, <<3, IF LeafOf(r) = LeafOf(c[1]) THEN 1 ELSE 2, 0>>))]

Cables == {<<LeafUp[l], MidDown[l]>> : l \in 1 .. 2} \cup {<<MidUp[l], LeafDown[l]>> : l \in 1 .. 2}
          \cup {<<"ra-u", "rr-up">>, <<"rr-down", "ra-d">>}
CableEnds == UNION {{w[1], w[2]} : w \in Cables}

\* A multicast comes in at a leaf, goes up to router-a and the root, and then
\* down to router-a and both leaves.
PortsPassed(c) == {LeafPort(c), MidUp[LeafOf(c[1])], "rr-up", "ra-d"} \cup Range(LeafUp)

TwoLevels ==
    [file   |-> TreeFile,
     links  |-> [p \in CableEnds |->
                   <<"port", CHOOSE q \in CableEnds : <<p, q>> \in Cables \/ <<q, p>> \in Cables>>]
                @@ [p \in Range(LeafPorts[1]) \cup Range(LeafPorts[2]) |->
                   <<"host", (CHOOSE c \in Channels : LeafPort(c) = p)[1]>>],
     access |-> [c \in Channels |-> LeafPort(c)],
     above  |-> [R \in Range(Leaves) \cup {"router-a", "router-root"} |->
                   IF R \in Range(Leaves) THEN <<"router-a">> ELSE <<>>],
     reach  |-> [x \in UNION {PortsPassed(c) \X {c} : c \in Channels} |->
                   RequestersOf(x[2][1]) \cap
                       IF x[1] \in Range(LeafUp) THEN Range(HostsAt(CHOOSE l \in 1 .. 2 : LeafUp[l] = x[1]))
                       ELSE Ranks]]

\* A file that repeats a multicast line, which add_mcast ignores, and one
\* without the last plan, which is refused.
Repeated == [Star EXCEPT !.file.routers["router1"] = @ \o Mcast(<<0, 0>>, <<"r1-h2s0">>)]
Refused  == [Star EXCEPT !.file.reqs = Front(@)]

Shipped == [star |-> Star, tree |-> TwoLevels, repeated |-> Repeated, refused |-> Refused]

-----------------------------------------------------------------------------
Work(topo, exchanges, lost) == [topo |-> topo, exchanges |-> exchanges, lost |-> lost]

\* Every exchange by itself, and data with a slot taken over.
Alone ==
    {Work(t, {e}, {}) : t \in DOMAIN Shipped, e \in Exchange}
    \cup {Work("star", {e}, {StarRouter[e.channel[2] + 1]}) : e \in {x \in Exchange : x.kind = "DATA"}}
    \cup {Work("tree", {e}, {R}) : e \in {x \in Exchange : x.kind = "DATA"},
                                   R \in {"router-a", "router-a0", "router-a1"}}

\* Two channels at once through the same routers.
Together ==
    {Work("star", {[kind |-> k, channel |-> <<0, 0>>], [kind |-> j, channel |-> <<1, 0>>]}, {}) :
        k \in {"DATA", "END"}, j \in {"REGISTER", "DATA"}}

AllWork == Alone \cup Together
=============================================================================
