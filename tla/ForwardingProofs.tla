------------------------- MODULE ForwardingProofs --------------------------
(***************************************************************************)
(* Proofs about Fabric and Forwarding for every file, every cabling and    *)
(* every size of the receive rings: what a load leaves in the tables, that *)
(* the rings keep their bounds and are served in turn, and that requests   *)
(* unwind where their credit bound its slots.                              *)
(***************************************************************************)
EXTENDS Forwarding, FiniteSetTheorems, SequenceTheorems,
        WellFoundedInduction, TLAPS

-----------------------------------------------------------------------------
(* The tables a load leaves.                                               *)

Injective(seq) == \A i, j \in DOMAIN seq : seq[i] = seq[j] => i = j

\* What every router's tables satisfy, with port names in S: a port is
\* listed once, and every port of a table is a device.
RouterSound(cfg, S) ==
    /\ DOMAIN cfg = {"devs", "route", "tree", "mcast"}
    /\ cfg.devs \in Seq(S) /\ Injective(cfg.devs)
    /\ \A c \in DOMAIN cfg.route : cfg.route[c] \in Range(cfg.devs)
    /\ \A c \in DOMAIN cfg.tree : {cfg.tree[c].up, cfg.tree[c].down} \subseteq Range(cfg.devs)
    /\ \A c \in DOMAIN cfg.mcast :
         /\ cfg.mcast[c] \in Seq(S) /\ Injective(cfg.mcast[c])
         /\ Range(cfg.mcast[c]) \subseteq Range(cfg.devs)

\* The ports the lines name.
PortsNamed(lines) ==
    UNION {{lines[i].port, lines[i].ports[1], lines[i].ports[Len(lines[i].ports)]} :
             i \in DOMAIN lines}

LEMMA LeastOf ==
    ASSUME NEW D, D \subseteq Nat, D # {}
    PROVE  \E d \in D : \A e \in D : d <= e
<1>1. PICK d \in D : \A e \in D : <<e, d>> \notin OpToRel(<, Nat)
  BY WFMin, NatLessThanWellFounded, Zenon
<1>2. \A x, y \in Nat : x < y => <<x, y>> \in OpToRel(<, Nat)
  <2>1. OpToRel(<, Nat) = {p \in Nat \X Nat : p[1] < p[2]}
    BY Zenon DEF OpToRel
  <2>2. \A x, y \in Nat : x < y => <<x, y>> \in {p \in Nat \X Nat : p[1] < p[2]}
    OBVIOUS
  <2> QED BY <2>1, <2>2, Zenon
<1>3. \A e \in D : ~(e < d)
  BY <1>1, <1>2, Zenon
<1> QED BY <1>3

\* A device is added at most once, and none is lost.
LEMMA AddDevKeeps ==
    ASSUME NEW S, NEW cfg, RouterSound(cfg, S), NEW port \in S
    PROVE  /\ RouterSound(AddDev(cfg, port), S)
           /\ port \in Range(AddDev(cfg, port).devs)
           /\ AddDev(cfg, port).devs # <<>>
           /\ Range(cfg.devs) \subseteq Range(AddDev(cfg, port).devs)
           /\ AddDev(cfg, port).route = cfg.route
           /\ AddDev(cfg, port).tree = cfg.tree
           /\ AddDev(cfg, port).mcast = cfg.mcast
<1> DEFINE devs == cfg.devs
           more == IF Contains(devs, port) THEN devs ELSE Append(devs, port)
           new  == AddDev(cfg, port)
<1>1. devs \in Seq(S) /\ DOMAIN devs = 1 .. Len(devs) /\ Len(devs) \in Nat /\ Injective(devs)
  BY LenProperties DEF RouterSound
<1>2. /\ more \in Seq(S) /\ Injective(more) /\ more # <<>>
      /\ port \in Range(more) /\ Range(devs) \subseteq Range(more)
  <2>1. CASE Contains(devs, port)
    BY <1>1, <2>1 DEF Contains, Range
  <2>2. CASE ~Contains(devs, port)
    <3> DEFINE longer == Append(devs, port)
    <3>1. /\ longer \in Seq(S) /\ Len(longer) = Len(devs) + 1
          /\ \A i \in 1 .. Len(devs) : longer[i] = devs[i]
          /\ longer[Len(devs) + 1] = port
          /\ DOMAIN longer = 1 .. Len(devs) + 1 /\ longer # <<>>
      BY <1>1, AppendProperties, LenProperties
    <3>2. Injective(longer)
      BY <1>1, <2>2, <3>1 DEF Injective, Contains
    <3>3. port \in Range(longer) /\ Range(devs) \subseteq Range(longer)
      BY <1>1, <3>1 DEF Range
    <3>4. more = longer
      BY <2>2
    <3> QED BY <3>1, <3>2, <3>3, <3>4
  <2> QED BY <2>1, <2>2
<1>3. new = [cfg EXCEPT !.devs = more]
  BY DEF AddDev
<1> HIDE DEF more, new
<1>4. /\ DOMAIN new = {"devs", "route", "tree", "mcast"} /\ new.devs = more
      /\ new.route = cfg.route /\ new.tree = cfg.tree /\ new.mcast = cfg.mcast
  BY <1>3 DEF RouterSound
<1>5. RouterSound(new, S)
  BY <1>2, <1>4 DEF RouterSound
<1> QED BY <1>2, <1>4, <1>5 DEF new

LEMMA SetRouteKeeps ==
    ASSUME NEW S, NEW cfg, RouterSound(cfg, S), NEW port \in S, NEW channel
    PROVE  /\ RouterSound(SetRoute(cfg, channel, port), S)
           /\ SetRoute(cfg, channel, port).devs # <<>>
<1> DEFINE added  == AddDev(cfg, port)
           routes == Put(cfg.route, channel, port)
           new    == SetRoute(cfg, channel, port)
<1>1. AddDev([cfg EXCEPT !.route = routes], port) = [added EXCEPT !.route = routes]
  BY DEF AddDev, RouterSound
<1>2. RouterSound(added, S) /\ port \in Range(added.devs) /\ added.devs # <<>> /\ added.route = cfg.route
  BY AddDevKeeps
<1>3. new = [added EXCEPT !.route = routes]
  BY <1>1 DEF SetRoute
<1> HIDE DEF added
<1>4. \A c \in DOMAIN routes : routes[c] \in Range(added.devs)
  <2>1. \A c \in DOMAIN cfg.route : cfg.route[c] \in Range(added.devs)
    BY <1>2 DEF RouterSound
  <2> QED BY <1>2, <2>1 DEF Put
<1> HIDE DEF routes
<1>5. /\ DOMAIN new = {"devs", "route", "tree", "mcast"} /\ new.devs = added.devs
      /\ new.route = routes /\ new.tree = added.tree /\ new.mcast = added.mcast
  BY <1>2, <1>3 DEF RouterSound
<1> HIDE DEF new
<1> QED BY <1>2, <1>4, <1>5 DEF RouterSound, new

LEMMA SetTreeKeeps ==
    ASSUME NEW S, NEW cfg, RouterSound(cfg, S), NEW up \in S, NEW down \in S, NEW channel, NEW role
    PROVE  /\ RouterSound(SetTree(cfg, channel, role, up, down), S)
           /\ SetTree(cfg, channel, role, up, down).devs # <<>>
<1> DEFINE added == AddDev(AddDev(cfg, up), down)
           node  == [role |-> role, up |-> up, down |-> down]
           trees == Put(cfg.tree, channel, node)
           new   == SetTree(cfg, channel, role, up, down)
<1>1. AddDev(AddDev([cfg EXCEPT !.tree = trees], up), down) = [added EXCEPT !.tree = trees]
  BY DEF AddDev, RouterSound
<1>2. /\ RouterSound(added, S) /\ {up, down} \subseteq Range(added.devs)
      /\ added.devs # <<>> /\ added.tree = cfg.tree
  <2>1. PICK first : first = AddDev(cfg, up)
    OBVIOUS
  <2>2. RouterSound(first, S) /\ up \in Range(first.devs) /\ first.tree = cfg.tree
    BY <2>1, AddDevKeeps
  <2>3. PICK second : second = AddDev(first, down)
    OBVIOUS
  <2>4. /\ RouterSound(second, S) /\ down \in Range(second.devs) /\ second.tree = cfg.tree
        /\ second.devs # <<>> /\ Range(first.devs) \subseteq Range(second.devs)
    <3> HIDE DEF added, trees, new, node
    <3>1. RouterSound(first, S)
      BY <2>2
    <3>2. /\ RouterSound(AddDev(first, down), S) /\ down \in Range(AddDev(first, down).devs)
          /\ AddDev(first, down).tree = first.tree /\ AddDev(first, down).devs # <<>>
          /\ Range(first.devs) \subseteq Range(AddDev(first, down).devs)
      <4>1. RouterSound(AddDev(first, down), S)
        BY <3>1, AddDevKeeps
      <4>2. down \in Range(AddDev(first, down).devs)
        BY <3>1, AddDevKeeps
      <4>3. AddDev(first, down).tree = first.tree
        BY <3>1, AddDevKeeps
      <4>4. AddDev(first, down).devs # <<>>
        BY <3>1, AddDevKeeps
      <4>5. Range(first.devs) \subseteq Range(AddDev(first, down).devs)
        BY <3>1, AddDevKeeps
      <4> QED BY <4>1, <4>2, <4>3, <4>4, <4>5
    <3> QED BY <2>2, <2>3, <3>2
  <2>5. added = second
    BY <2>1, <2>3
  <2> HIDE DEF added
  <2> QED BY <2>2, <2>4, <2>5
<1>3. new = [added EXCEPT !.tree = trees]
  BY <1>1 DEF SetTree
<1> HIDE DEF added
<1>4. \A c \in DOMAIN trees : {trees[c].up, trees[c].down} \subseteq Range(added.devs)
  <2>1. \A c \in DOMAIN cfg.tree : {cfg.tree[c].up, cfg.tree[c].down} \subseteq Range(added.devs)
    BY <1>2 DEF RouterSound
  <2>2. node.up = up /\ node.down = down
    OBVIOUS
  <2> HIDE DEF node
  <2> QED BY <1>2, <2>1, <2>2 DEF Put
<1> HIDE DEF trees
<1>5. /\ DOMAIN new = {"devs", "route", "tree", "mcast"} /\ new.devs = added.devs
      /\ new.tree = trees /\ new.route = added.route /\ new.mcast = added.mcast
  BY <1>2, <1>3 DEF RouterSound
<1> HIDE DEF new
<1> QED BY <1>2, <1>4, <1>5 DEF RouterSound, new

LEMMA AddMcastKeeps ==
    ASSUME NEW S, NEW cfg, RouterSound(cfg, S), NEW port \in S, NEW channel
    PROVE  /\ RouterSound(AddMcast(cfg, channel, port), S)
           /\ AddMcast(cfg, channel, port).devs # <<>>
<1> DEFINE old == McastOf(cfg, channel)
<1>1. old \in Seq(S) /\ Injective(old) /\ Range(old) \subseteq Range(cfg.devs)
  <2>1. <<>> \in Seq(S) /\ DOMAIN <<>> = {}
    BY EmptySeq
  <2>2. Injective(<<>>) /\ Range(<<>>) \subseteq Range(cfg.devs)
    BY <2>1 DEF Injective, Range
  <2>3. CASE channel \in DOMAIN cfg.mcast
    BY <2>3 DEF McastOf, RouterSound
  <2>4. CASE channel \notin DOMAIN cfg.mcast
    BY <2>1, <2>2, <2>4 DEF McastOf
  <2> QED BY <2>3, <2>4
<1>2. DOMAIN old = 1 .. Len(old) /\ Len(old) \in Nat
  BY <1>1, LenProperties
<1>3. CASE Contains(old, port)
  <2>1. AddMcast(cfg, channel, port) = cfg
    BY <1>3 DEF AddMcast
  <2>2. port \in Range(cfg.devs)
    BY <1>1, <1>2, <1>3 DEF Contains, Range
  <2>3. cfg.devs # <<>>
    BY <2>2 DEF Range
  <2> QED BY <2>1, <2>3
<1>4. CASE ~Contains(old, port)
  <2> DEFINE added  == AddDev(cfg, port)
             ports  == Append(old, port)
             mcasts == Put(cfg.mcast, channel, ports)
             new    == AddMcast(cfg, channel, port)
  <2>1. AddDev([cfg EXCEPT !.mcast = mcasts], port) = [added EXCEPT !.mcast = mcasts]
    BY DEF AddDev, RouterSound
  <2>2. /\ RouterSound(added, S) /\ port \in Range(added.devs)
        /\ added.devs # <<>> /\ added.mcast = cfg.mcast
        /\ Range(cfg.devs) \subseteq Range(added.devs)
    BY AddDevKeeps
  <2>3. new = [added EXCEPT !.mcast = mcasts]
    BY <1>4, <2>1 DEF AddMcast
  <2>4. /\ ports \in Seq(S) /\ Len(ports) = Len(old) + 1
        /\ \A i \in 1 .. Len(old) : ports[i] = old[i]
        /\ ports[Len(old) + 1] = port
        /\ DOMAIN ports = 1 .. Len(old) + 1
    BY <1>1, <1>2, AppendProperties, LenProperties
  <2>5. Injective(ports)
    BY <1>1, <1>2, <1>4, <2>4 DEF Injective, Contains
  <2>6. Range(ports) \subseteq Range(added.devs)
    <3>1. Range(ports) \subseteq Range(old) \cup {port}
      BY <1>2, <2>4 DEF Range
    <3> QED BY <1>1, <2>2, <3>1
  <2>7. \A c \in DOMAIN mcasts :
          /\ mcasts[c] \in Seq(S) /\ Injective(mcasts[c])
          /\ Range(mcasts[c]) \subseteq Range(added.devs)
    <3> HIDE DEF ports, added
    <3>1. \A c \in DOMAIN cfg.mcast :
            /\ cfg.mcast[c] \in Seq(S) /\ Injective(cfg.mcast[c])
            /\ Range(cfg.mcast[c]) \subseteq Range(added.devs)
      BY <2>2 DEF RouterSound
    <3> QED BY <2>2, <2>4, <2>5, <2>6, <3>1 DEF Put
  <2> HIDE DEF added, mcasts
  <2>8. /\ DOMAIN new = {"devs", "route", "tree", "mcast"} /\ new.devs = added.devs
        /\ new.mcast = mcasts /\ new.route = added.route /\ new.tree = added.tree
    BY <2>2, <2>3 DEF RouterSound
  <2> HIDE DEF new
  <2> QED BY <2>2, <2>7, <2>8 DEF RouterSound, new
<1> QED BY <1>3, <1>4

LEMMA EmptyIsSound ==
    ASSUME NEW S
    PROVE  RouterSound(EmptyRouter, S)
<1>1. <<>> \in Seq(S) /\ DOMAIN <<>> = {}
  BY EmptySeq
<1> QED BY <1>1 DEF RouterSound, EmptyRouter, Injective
LEMMA RouterLineKeeps ==
    ASSUME NEW S, NEW cfg, RouterSound(cfg, S), NEW line,
           line.kind \in {"dev", "route", "mcast", "tree"},
           {line.port, line.ports[1], line.ports[Len(line.ports)]} \subseteq S
    PROVE  RouterSound(RouterLine(cfg, line), S) /\ RouterLine(cfg, line).devs # <<>>
<1>1. CASE line.kind = "dev"
  BY <1>1, AddDevKeeps DEF RouterLine
<1>2. CASE line.kind = "route"
  BY <1>2, SetRouteKeeps DEF RouterLine
<1>3. CASE line.kind = "mcast"
  BY <1>3, AddMcastKeeps DEF RouterLine
<1>4. CASE line.kind = "tree"
  BY <1>4, SetTreeKeeps DEF RouterLine
<1> QED BY <1>1, <1>2, <1>3, <1>4

\* A set of numbers of lines has a last one.
LEMMA LastOf ==
    ASSUME NEW n \in Nat, NEW s \in SUBSET (1 .. n), s # {}
    PROVE  Max(s) \in s /\ \A y \in s : y <= Max(s)
<1> DEFINE D == {n - x : x \in s}
<1>1. PICK d \in D : \A e \in D : d <= e
  <2>1. \A x \in s : n - x \in Nat
    OBVIOUS
  <2>2. D \subseteq Nat /\ D # {}
    BY <2>1
  <2> HIDE DEF D
  <2> QED BY <2>2, LeastOf
<1>2. PICK x \in s : d = n - x
  BY <1>1
<1>3. \A y \in s : x >= y
  <2>1. \A y \in s : d <= n - y
    BY <1>1
  <2> QED BY <1>2, <2>1
<1>4. Max(s) = CHOOSE z \in s : \A y \in s : z >= y
  BY DEF Max
<1>5. Max(s) \in s /\ \A y \in s : Max(s) >= y
  BY <1>3, <1>4, Zenon
<1> QED BY <1>5

\* What a function that follows the lines of a router is.
Follows(t, lines, numbers) ==
    t = [s \in SUBSET numbers |->
           IF s = {} THEN EmptyRouter ELSE RouterLine(t[s \ {Max(s)}], lines[Max(s)])]

LEMMA FollowsExists ==
    ASSUME NEW lines
    PROVE  \A n \in Nat : \E t : Follows(t, lines, 1 .. n)
<1> DEFINE Stuck == {n \in Nat : ~\E t : Follows(t, lines, 1 .. n)}
<1> SUFFICES ASSUME Stuck # {} PROVE FALSE
  OBVIOUS
<1>1. PICK n \in Stuck : \A m \in Stuck : n <= m
  <2>1. Stuck \subseteq Nat
    OBVIOUS
  <2> HIDE DEF Stuck
  <2> QED BY <2>1, LeastOf
<1>2. n \in Nat /\ ~\E t : Follows(t, lines, 1 .. n)
  OBVIOUS
<1>3. CASE n = 0
  <2> DEFINE t == [s \in SUBSET (1 .. 0) |-> EmptyRouter]
  <2>1. \A s \in SUBSET (1 .. 0) : s = {}
    OBVIOUS
  <2>2. Follows(t, lines, 1 .. 0)
    BY <2>1 DEF Follows
  <2> QED BY <1>2, <1>3, <2>2
<1>4. CASE n # 0
  <2>1. n - 1 \in Nat /\ n - 1 \notin Stuck
    <3> HIDE DEF Stuck
    <3> QED BY <1>1, <1>2, <1>4
  <2>2. PICK t : Follows(t, lines, 1 .. n - 1)
    BY <2>1
  <2> DEFINE Before(s) == RouterLine(t[s \ {Max(s)}], lines[Max(s)])
             u == [s \in SUBSET (1 .. n) |-> IF s = {} THEN EmptyRouter ELSE Before(s)]
  <2>3. \A s \in SUBSET (1 .. n - 1) : t[s] = IF s = {} THEN EmptyRouter ELSE Before(s)
    BY <2>2 DEF Follows
  <2>4. \A s \in SUBSET (1 .. n - 1) : u[s] = t[s]
    <3>1. \A s \in SUBSET (1 .. n - 1) : s \in SUBSET (1 .. n)
      BY <1>2
    <3> HIDE DEF Before
    <3> QED BY <2>3, <3>1
  <2>5. ASSUME NEW s \in SUBSET (1 .. n), s # {}
        PROVE  u[s] = RouterLine(u[s \ {Max(s)}], lines[Max(s)])
    <3>1. s \ {Max(s)} \in SUBSET (1 .. n - 1)
      <4>1. Max(s) \in s /\ \A y \in s : y <= Max(s)
        BY <1>2, <2>5, LastOf
      <4>2. PICK m \in s : m = Max(s)
        BY <4>1
      <4>3. \A y \in s \ {m} : y \in 1 .. n - 1
        BY <1>2, <4>1, <4>2
      <4> QED BY <4>2, <4>3
    <3>2. u[s] = Before(s)
      BY <2>5
    <3>3. u[s \ {Max(s)}] = t[s \ {Max(s)}]
      BY <2>4, <3>1
    <3> HIDE DEF u
    <3> QED BY <3>2, <3>3
  <2>6. u[{}] = EmptyRouter
    OBVIOUS
  <2>7. u = [s \in SUBSET (1 .. n) |-> u[s]]
    OBVIOUS
  <2> HIDE DEF u
  <2>8. Follows(u, lines, 1 .. n)
    BY <2>5, <2>6, <2>7 DEF Follows
  <2> QED BY <1>2, <2>8
<1> QED BY <1>3, <1>4

\* A load applies the lines of a router one after the other.
LEMMA LoadFollowsLines ==
    ASSUME NEW lines, NEW n \in Nat, DOMAIN lines = 1 .. n
    PROVE  \E tables :
             /\ tables[0] = EmptyRouter
             /\ \A i \in 1 .. n : tables[i] = RouterLine(tables[i - 1], lines[i])
             /\ FoldLeft(RouterLine, EmptyRouter, lines) = tables[n]
<1> DEFINE t      == CHOOSE x : Follows(x, lines, 1 .. n)
           tables == [i \in 0 .. n |-> t[1 .. i]]
<1>1. Follows(t, lines, 1 .. n)
  BY FollowsExists, Zenon
<1>2. FoldLeft(RouterLine, EmptyRouter, lines) = t[1 .. n]
  BY DEF FoldLeft, MapThenFoldSet, Follows
<1> HIDE DEF t
<1>3. \A s \in SUBSET (1 .. n) :
        t[s] = IF s = {} THEN EmptyRouter ELSE RouterLine(t[s \ {Max(s)}], lines[Max(s)])
  BY <1>1 DEF Follows
<1>4. tables[0] = EmptyRouter
  <2>1. 1 .. 0 = {} /\ 0 \in 0 .. n
    OBVIOUS
  <2> QED BY <1>3, <2>1
<1>5. ASSUME NEW i \in 1 .. n
      PROVE  tables[i] = RouterLine(tables[i - 1], lines[i])
  <2>1. 1 .. i \in SUBSET (1 .. n) /\ i \in 1 .. i /\ 1 .. i # {}
    OBVIOUS
  <2>2. PICK m : m = Max(1 .. i)
    OBVIOUS
  <2>3. m \in 1 .. i /\ \A y \in 1 .. i : y <= m
    BY <2>1, <2>2, LastOf
  <2>4. m = i
    BY <2>1, <2>3
  <2>5. (1 .. i) \ {i} = 1 .. i - 1
    OBVIOUS
  <2>6. t[1 .. i] = RouterLine(t[1 .. i - 1], lines[i])
    BY <1>3, <2>1, <2>2, <2>4, <2>5
  <2>7. tables[i] = t[1 .. i] /\ tables[i - 1] = t[1 .. i - 1]
    OBVIOUS
  <2> QED BY <2>6, <2>7
<1>6. tables[n] = t[1 .. n]
  OBVIOUS
<1> HIDE DEF tables
<1> QED BY <1>2, <1>4, <1>5, <1>6

\* Whatever the lines of a router, in the tables a load leaves a port is
\* listed once, and every port a frame may be sent out on is one of the
\* devices: inject_on_port never fails to find it.
LEMMA RouterLinesAreSound ==
    ASSUME NEW lines, lines \in Seq(Range(lines)),
           \A i \in DOMAIN lines : lines[i].kind \in {"dev", "route", "mcast", "tree"}
    PROVE  LET cfg == FoldLeft(RouterLine, EmptyRouter, lines)
           IN RouterSound(cfg, PortsNamed(lines)) /\ (lines # <<>> => cfg.devs # <<>>)
<1> DEFINE S == PortsNamed(lines)
<1>1. Len(lines) \in Nat /\ DOMAIN lines = 1 .. Len(lines)
  BY LenProperties
<1>2. PICK tables :
        /\ tables[0] = EmptyRouter
        /\ \A n \in 1 .. Len(lines) : tables[n] = RouterLine(tables[n - 1], lines[n])
        /\ FoldLeft(RouterLine, EmptyRouter, lines) = tables[Len(lines)]
  BY <1>1, LoadFollowsLines
<1>3. \A i \in DOMAIN lines :
        {lines[i].port, lines[i].ports[1], lines[i].ports[Len(lines[i].ports)]} \subseteq S
  BY DEF PortsNamed
<1> HIDE DEF S
<1> DEFINE Bad == {n \in 0 .. Len(lines) : ~RouterSound(tables[n], S)}
<1>4. ASSUME NEW n \in 1 .. Len(lines), RouterSound(tables[n - 1], S)
      PROVE  RouterSound(tables[n], S) /\ tables[n].devs # <<>>
  <2>1. n \in DOMAIN lines
    BY <1>1
  <2>2. tables[n] = RouterLine(tables[n - 1], lines[n])
    BY <1>2
  <2>3. /\ RouterSound(RouterLine(tables[n - 1], lines[n]), S)
        /\ RouterLine(tables[n - 1], lines[n]).devs # <<>>
    BY <1>3, <1>4, <2>1, RouterLineKeeps
  <2> QED BY <2>2, <2>3
<1>5. Bad = {}
  <2> SUFFICES ASSUME Bad # {} PROVE FALSE
    OBVIOUS
  <2>1. PICK n \in Bad : \A m \in Bad : n <= m
    <3>1. Bad \subseteq Nat
      BY <1>1
    <3> HIDE DEF Bad
    <3> QED BY <3>1, LeastOf
  <2>2. n \in 0 .. Len(lines) /\ ~RouterSound(tables[n], S)
    OBVIOUS
  <2>3. n # 0
    BY <1>2, <2>2, EmptyIsSound
  <2>4. n - 1 \in 0 .. Len(lines) /\ RouterSound(tables[n - 1], S) /\ n \in 1 .. Len(lines)
    BY <1>1, <2>1, <2>2, <2>3
  <2> QED BY <1>4, <2>2, <2>4
<1>6. PICK cfg : cfg = tables[Len(lines)]
  OBVIOUS
<1>7. RouterSound(cfg, S)
  BY <1>1, <1>5, <1>6
<1>8. lines # <<>> => cfg.devs # <<>>
  <2> SUFFICES ASSUME lines # <<>> PROVE cfg.devs # <<>>
    OBVIOUS
  <2>1. Len(lines) \in 1 .. Len(lines) /\ Len(lines) - 1 \in 0 .. Len(lines)
    BY <1>1, EmptySeq
  <2>2. RouterSound(tables[Len(lines) - 1], S)
    BY <1>5, <2>1
  <2> QED BY <1>4, <1>6, <2>1, <2>2
<1> QED BY <1>2, <1>6, <1>7, <1>8 DEF S

\* What a load leaves: sound tables of every router, and for every requester
\* of every channel a plan, a sequence of fan-ins.
TablesSound(fab) ==
    /\ \A R \in DOMAIN fab.routers :
         (\E S : RouterSound(fab.routers[R], S)) /\ fab.routers[R].devs # <<>>
    /\ \A c \in Channels : \A r \in RequestersOf(c[1]) :
         <<r, c>> \in DOMAIN fab.plans /\ fab.plans[<<r, c>>] \in Seq(Nat)

THEOREM LoadedTablesAreSound ==
    ASSUME NEW file, IsFile(file), Load(file).ok
    PROVE  TablesSound(Load(file))
<1> DEFINE reqs  == file.reqs
           plans == PlansOf(reqs)
<1>1. ASSUME NEW R \in DOMAIN Load(file).routers
      PROVE  /\ \E S : RouterSound(Load(file).routers[R], S)
             /\ Load(file).routers[R].devs # <<>>
  <2> DEFINE lines == file.routers[R]
  <2>1. R \in DOMAIN file.routers /\ Load(file).routers[R] = FoldLeft(RouterLine, EmptyRouter, lines)
    BY DEF Load
  <2>2. /\ lines \in Seq(Range(lines)) /\ lines # <<>>
        /\ \A i \in DOMAIN lines : lines[i].kind \in {"dev", "route", "mcast", "tree"}
    BY <2>1 DEF IsFile
  <2>3. /\ RouterSound(FoldLeft(RouterLine, EmptyRouter, lines), PortsNamed(lines))
        /\ FoldLeft(RouterLine, EmptyRouter, lines).devs # <<>>
    <3> HIDE DEF lines
    <3> QED BY <2>2, RouterLinesAreSound
  <2> QED BY <2>1, <2>3
<1>2. Load(file).plans = plans /\ Validated(plans)
  BY DEF Load
<1>3. ASSUME NEW x \in DOMAIN plans
      PROVE  plans[x] \in Seq(Nat)
  <2> DEFINE these == {i \in DOMAIN reqs : PlanKey(reqs[i]) = x}
             line  == reqs[Max(these)]
  <2>1. /\ reqs \in Seq(Range(reqs)) /\ DOMAIN reqs = 1 .. Len(reqs) /\ Len(reqs) \in Nat
    BY LenProperties DEF IsFile
  <2>2. these # {} /\ plans[x] = PlanOf(line)
    BY DEF PlansOf
  <2>3. Max(these) \in DOMAIN reqs
    <3>1. these \in SUBSET (1 .. Len(reqs)) /\ these \subseteq DOMAIN reqs
      BY <2>1
    <3> HIDE DEF these, reqs
    <3> QED BY <2>1, <2>2, <3>1, LastOf
  <2>4. line.depth \in Nat /\ line.fanins \in Seq(Nat) /\ PlanFits(line)
    <3> HIDE DEF these
    <3> QED BY <2>3 DEF IsFile, Load
  <2> HIDE DEF line
  <2>5. Len(line.fanins) \in Nat
    BY <2>4, LenProperties
  <2>6. \A i \in 1 .. line.depth : line.fanins[i] \in Nat
    BY <2>4, <2>5, ElementOfSeq DEF PlanFits
  <2>7. PlanOf(line) \in Seq(Nat)
    BY <2>4, <2>6, SubSeqProperties DEF PlanOf
  <2> QED BY <2>2, <2>7
<1> HIDE DEF plans
<1> QED BY <1>1, <1>2, <1>3 DEF TablesSound, Validated
-----------------------------------------------------------------------------
(* The inductive invariants.                                               *)

Top         == Topologies[work.topo]
Above(R)    == Top.above[R]
Below(R, c) == LevelsBelow(fabric, Top.above, R, c)
Chans       == {e.channel : e \in work.exchanges}

\* The tables are those of the workload's files.
SiteInv ==
    /\ work \in Workloads
    /\ fabric = Load(Top.file) /\ fabric.ok
    /\ cabling = [links |-> Top.links, access |-> Top.access]

FrameTypes ==
    {"REGISTER", "REGISTER_ACK", "RESPONSE", "REQUEST", "AGG_MISS", "END", "END_ACK"}
FrameRecords ==
    [type : FrameTypes, src : Ranks, dst : Ranks, sub : Subs, stack : Seq(RouterNames),
     fanins : Seq(Nat), count : Nat, from : SUBSET Ranks]
Frames ==
    {f \in FrameRecords :
        /\ ChannelOf(f) \in Chans
        /\ f.type = "REQUEST" => Len(f.fanins) = Len(f.stack)}

\* The stack of a credit that waits at port p of R: empty on its way up, and
\* on its way down what the routers above R have pushed.
CreditStackFits(R, p, f) ==
    InTree(R, ChannelOf(f)) =>
        f.stack = IF FromParent(R, ChannelOf(f), p) THEN Above(R) ELSE <<>>

\* The stack of a request there: whole levels from R to the root, or nothing.
RequestStackFits(R, p, f) ==
    \/ f.stack = <<>>
    \/ /\ InTree(R, ChannelOf(f)) /\ ~FromParent(R, ChannelOf(f), p)
       /\ f.stack = Below(R, ChannelOf(f))

MayWaitAt(R, p) ==
    {f \in Frames :
        /\ f.type = "RESPONSE" => CreditStackFits(R, p, f)
        /\ f.type = "REQUEST" => RequestStackFits(R, p, f)}

AccessOf(f) == cabling.access[<<f.src, f.sub>>]

\* What a host may have to send.
MayBeSent ==
    {f \in Frames :
        /\ f.type = "RESPONSE" => f.stack = <<>> /\ f.src = f.dst
        /\ f.type = "REQUEST" =>
             \/ f.stack = <<>>
             \/ \E R \in RouterNames : AccessOf(f) \in PortsOf(R) /\ RequestStackFits(R, AccessOf(f), f)}

RingsInv ==
    /\ DOMAIN rings = UNION {PortsOf(R) : R \in RouterNames}
    /\ \A R \in RouterNames : \A p \in PortsOf(R) :
         rings[p] \in Seq(MayWaitAt(R, p)) /\ Len(rings[p]) < RingSize
    /\ todo \subseteq MayBeSent

SlotRecords ==
    [bound : BOOLEAN, fanin : Nat, count : Nat, from : SUBSET Ranks, forwarded : BOOLEAN]
SlotsInv == slots \in [RouterNames -> [Chans -> SlotRecords]]

\* Of n devices, how many dev_pop looks at before device k when it starts at g.
Before(g, k, n) == IF k >= g THEN k - g ELSE (k - g) + n

Turns(R, k) == Before(g_dev_rr[R], k, Len(Config(R).devs))

\* A port that waits has been passed over only by those that were before it
\* in turn.
TurnInv ==
    /\ DOMAIN g_dev_rr = RouterNames
    /\ \A R \in RouterNames :
         /\ g_dev_rr[R] \in 0 .. Len(Config(R).devs) - 1
         /\ \A k \in 0 .. Len(Config(R).devs) - 1 :
              LET p == Config(R).devs[k + 1]
              IN /\ skipped[p] \in Nat
                 /\ IF rings[p] = <<>> THEN skipped[p] = 0
                    ELSE skipped[p] + Turns(R, k) < Len(Config(R).devs)

ForwardingInv == SiteInv /\ RingsInv /\ SlotsInv /\ IsABag(heard) /\ TurnInv

-----------------------------------------------------------------------------
(* The tables and the cables of a behaviour.                               *)

LEMMA SiteFacts ==
    ASSUME SiteInv
    PROVE  /\ TablesSound(fabric) /\ PortsApart(fabric)
           /\ Top.above \in [RouterNames -> Seq(RouterNames)]
           /\ \A R \in RouterNames : \A c \in DOMAIN Config(R).tree :
                /\ MirroredUp(fabric, Top, R, c)
                /\ MirroredDown(fabric, Top, R, c)
                /\ MirroredAtTop(fabric, Top, R, c)
           /\ work.exchanges \subseteq Exchange
<1>1. work.topo \in DOMAIN Topologies /\ work.exchanges \subseteq Exchange
  BY WorkloadsAssumption DEF SiteInv
<1>2. WellMade(Top)
  BY <1>1, TopologiesAssumption DEF Top
<1>3. IsFile(Top.file) /\ fabric = Load(Top.file) /\ fabric.ok
  BY <1>2 DEF SiteInv, WellMade
<1>4. TablesSound(fabric)
  BY <1>3, LoadedTablesAreSound
<1>5. /\ PortsApart(fabric)
      /\ Top.above \in [DOMAIN fabric.routers -> Seq(DOMAIN fabric.routers)]
      /\ \A R \in DOMAIN fabric.routers : \A c \in DOMAIN fabric.routers[R].tree :
           /\ MirroredUp(fabric, Top, R, c)
           /\ MirroredDown(fabric, Top, R, c)
           /\ MirroredAtTop(fabric, Top, R, c)
  BY <1>2, <1>3 DEF WellMade
<1> QED BY <1>1, <1>4, <1>5 DEF RouterNames, Config

LEMMA DeviceFacts ==
    ASSUME SiteInv, NEW R \in RouterNames
    PROVE  /\ Len(Config(R).devs) \in Nat \ {0}
           /\ DOMAIN Config(R).devs = 1 .. Len(Config(R).devs)
           /\ Injective(Config(R).devs)
           /\ \A k \in 0 .. Len(Config(R).devs) - 1 : Config(R).devs[k + 1] \in PortsOf(R)
           /\ \A p \in PortsOf(R) : \E k \in 0 .. Len(Config(R).devs) - 1 : p = Config(R).devs[k + 1]
<1> DEFINE devs == Config(R).devs
<1>1. (\E S : RouterSound(Config(R), S)) /\ devs # <<>>
  BY SiteFacts DEF TablesSound, RouterNames, Config
<1>2. PICK S : devs \in Seq(S) /\ Injective(devs) /\ devs # <<>>
  BY <1>1 DEF RouterSound
<1>3. Len(devs) \in Nat /\ DOMAIN devs = 1 .. Len(devs) /\ Len(devs) # 0
  BY <1>2, LenProperties, EmptySeq
<1>4. PortsOf(R) = {devs[i] : i \in 1 .. Len(devs)}
  BY <1>3 DEF PortsOf, Range
<1> HIDE DEF devs
<1>5. \A k \in 0 .. Len(devs) - 1 : k + 1 \in 1 .. Len(devs)
  BY <1>3
<1>6. ASSUME NEW p \in PortsOf(R)
      PROVE  \E k \in 0 .. Len(devs) - 1 : p = devs[k + 1]
  <2>1. PICK i \in 1 .. Len(devs) : p = devs[i]
    BY <1>4
  <2>2. i - 1 \in 0 .. Len(devs) - 1 /\ (i - 1) + 1 = i
    BY <1>3
  <2> QED BY <2>1, <2>2
<1>7. \A k \in 0 .. Len(devs) - 1 : devs[k + 1] \in PortsOf(R)
  BY <1>4, <1>5
<1> QED BY <1>2, <1>3, <1>6, <1>7 DEF devs

LEMMA OneRouterPerPort ==
    ASSUME SiteInv, NEW R \in RouterNames, NEW Q \in RouterNames, NEW p \in PortsOf(R), p \in PortsOf(Q)
    PROVE  R = Q
<1>1. PortsApart(fabric)
  BY SiteFacts
<1> QED BY <1>1 DEF PortsApart, PortsIn, PortsOf, RouterNames, Config

-----------------------------------------------------------------------------
(* Frames and where they may go.                                           *)

\* A frame on its way to the other ends of ports does not break what holds
\* of the frames that wait there.
Goes(ports, g) ==
    \A i \in DOMAIN ports :
        /\ \A Q \in RouterNames : \A q \in PortsOf(Q) :
             LinkOf(ports[i]) = <<"port", q>> => g \in MayWaitAt(Q, q)
        /\ \A h \in Ranks : LinkOf(ports[i]) = <<"host", h>> => Replies(h, g) \subseteq MayBeSent

LEMMA FrameIsOne ==
    ASSUME SiteInv, NEW type \in FrameTypes, NEW src \in Ranks, NEW dst \in Ranks, NEW sub \in Subs,
           ChannelOf(Frame(type, src, dst, sub)) \in Chans
    PROVE  Frame(type, src, dst, sub) \in Frames
<1> DEFINE f == Frame(type, src, dst, sub)
<1>1. <<>> \in Seq(RouterNames) /\ <<>> \in Seq(Nat)
  BY EmptySeq
<1>2. f \in FrameRecords
  BY <1>1 DEF Frame, FrameRecords
<1>3. f.fanins = f.stack
  BY DEF Frame
<1> QED BY <1>2, <1>3 DEF Frames

LEMMA ChannelFacts ==
    ASSUME SiteInv, NEW f \in Frames
    PROVE  /\ ChannelOf(f) \in Channels /\ ChannelOf(f) \in Chans
           /\ ChannelOf(f)[1] \in Ranks /\ ChannelOf(f)[2] = f.sub
<1>1. f.src \in Ranks /\ f.dst \in Ranks /\ f.sub \in Subs /\ ChannelOf(f) \in Chans
  BY DEF Frames, FrameRecords
<1>2. ChannelOf(f) \in {<<f.src, f.sub>>, <<f.dst, f.sub>>}
  BY DEF ChannelOf
<1> QED BY <1>1, <1>2 DEF Channels

\* Everything but credits and requests may go anywhere.
LEMMA ControlGoes ==
    ASSUME SiteInv, NEW ports, NEW g \in Frames, g.type \notin {"RESPONSE", "REQUEST"}
    PROVE  Goes(ports, g)
<1>1. \A Q, q : g \in MayWaitAt(Q, q)
  BY DEF MayWaitAt
<1>2. ASSUME NEW h \in Ranks
      PROVE  Replies(h, g) \subseteq MayBeSent
  <2> DEFINE responder == ChannelOf(g)[1]
             reply     == Frame("END_ACK", h, responder, g.sub)
  <2>1. responder \in Ranks /\ ChannelOf(g) \in Chans /\ g.sub \in Subs
    BY ChannelFacts DEF Frames, FrameRecords
  <2>2. CASE g.type = "END" /\ h # responder
    <3>1. Replies(h, g) = {reply}
      BY <2>2 DEF Replies
    <3>2. ChannelOf(reply) = ChannelOf(g)
      BY <2>2 DEF ChannelOf, Frame, FromResponder
    <3>3. reply \in Frames /\ reply.type = "END_ACK"
      <4>1. "END_ACK" \in FrameTypes
        BY DEF FrameTypes
      <4>2. ChannelOf(reply) \in Chans
        BY <2>1, <3>2
      <4>3. reply.type = "END_ACK"
        BY DEF Frame
      <4> QED BY <2>1, <4>1, <4>2, <4>3, FrameIsOne
    <3>4. reply \in MayBeSent
      BY <3>3 DEF MayBeSent
    <3> QED BY <3>1, <3>4
  <2>3. CASE ~(g.type = "END" /\ h # responder)
    BY <2>3 DEF Replies
  <2> QED BY <2>2, <2>3
<1> QED BY <1>1, <1>2 DEF Goes

\* A requester answers a credit that has come up its channel's routers, and
\* what it sends may have to unwind.
LEMMA ReplyToCredit ==
    ASSUME SiteInv, NEW g \in Frames, g.type = "RESPONSE", NEW h \in Ranks, NEW r \in Replies(h, g)
    PROVE  /\ r \in Frames /\ r.type = "REQUEST" /\ r.stack = g.stack
           /\ ChannelOf(r) = ChannelOf(g) /\ r.src = h /\ r.sub = g.sub
           /\ h \in RequestersOf(ChannelOf(g)[1])
<1> DEFINE c    == ChannelOf(g)
           plan == PlanFor(h, c)
           bare == Frame("REQUEST", h, c[1], g.sub)
<1>1. c \in Channels /\ c \in Chans /\ c[1] \in Ranks /\ c[2] = g.sub /\ g.sub \in Subs
  BY ChannelFacts DEF Frames, FrameRecords
<1>2. /\ h # c[1] /\ Len(plan) = Len(g.stack)
      /\ r = [bare EXCEPT !.stack = g.stack, !.fanins = plan]
  BY DEF Replies
<1>3. h \in RequestersOf(c[1])
  BY <1>2 DEF RequestersOf
<1>4. plan \in Seq(Nat)
  <2>1. TablesSound(fabric)
    BY SiteFacts
  <2> QED BY <1>1, <1>3, <2>1 DEF TablesSound, PlanFor
<1>5. g.stack \in Seq(RouterNames)
  BY DEF Frames, FrameRecords
<1>6. ChannelOf(bare) = c
  <2>1. ChannelOf(bare) = <<c[1], g.sub>>
    BY DEF ChannelOf, Frame, FromResponder
  <2>2. c = <<c[1], c[2]>>
    BY <1>1 DEF Channels
  <2> QED BY <1>1, <2>1, <2>2
<1>7. bare \in Frames /\ bare.type = "REQUEST" /\ bare.src = h /\ bare.sub = g.sub
  <2>1. "REQUEST" \in FrameTypes
    BY DEF FrameTypes
  <2>2. bare.type = "REQUEST" /\ bare.src = h /\ bare.sub = g.sub
    BY DEF Frame
  <2>3. ChannelOf(bare) \in Chans
    BY <1>1, <1>6
  <2> HIDE DEF c
  <2> QED BY <1>1, <2>1, <2>2, <2>3, FrameIsOne
<1> HIDE DEF plan, bare, c
<1>8. /\ r \in FrameRecords /\ r.type = "REQUEST" /\ r.stack = g.stack /\ r.fanins = plan
      /\ r.src = h /\ r.sub = g.sub /\ r.dst = bare.dst
  BY <1>2, <1>4, <1>5, <1>7 DEF Frames, FrameRecords
<1>9. ChannelOf(r) = c
  BY <1>6, <1>7, <1>8 DEF ChannelOf
<1> QED BY <1>1, <1>2, <1>3, <1>8, <1>9 DEF Frames, c

LEMMA PlainReplies ==
    ASSUME SiteInv, NEW g \in Frames, g.type = "REQUEST" \/ (g.type = "RESPONSE" /\ g.stack = <<>>),
           NEW h \in Ranks
    PROVE  Replies(h, g) \subseteq MayBeSent
<1>1. CASE g.type = "REQUEST"
  BY <1>1 DEF Replies
<1>2. CASE g.type = "RESPONSE" /\ g.stack = <<>>
  <2>1. \A r \in Replies(h, g) : r \in Frames /\ r.type = "REQUEST" /\ r.stack = <<>>
    BY <1>2, ReplyToCredit
  <2> QED BY <2>1 DEF MayBeSent
<1> QED BY <1>1, <1>2

\* Up: a credit that no router has pushed anything on, and a request with the
\* levels above R, or none, left to unwind.
LEMMA UpGoes ==
    ASSUME SiteInv, NEW R \in RouterNames, NEW g \in Frames, InTree(R, ChannelOf(g)),
           \/ g.type = "RESPONSE" /\ g.stack = <<>>
           \/ g.type = "REQUEST" /\ g.stack \in {<<>>, Above(R)}
    PROVE  Goes(<<TreeAt(R, ChannelOf(g)).up>>, g)
<1> DEFINE c  == ChannelOf(g)
           up == TreeAt(R, c).up
<1>1. ASSUME NEW Q \in RouterNames, NEW q \in PortsOf(Q), LinkOf(up) = <<"port", q>>
      PROVE  g \in MayWaitAt(Q, q)
  <2>1. /\ InTree(Q, c)
        /\ IF FromParent(Q, c, q) THEN Above(R) = <<>> /\ Above(Q) = <<>>
           ELSE Above(R) = Below(Q, c)
    <3>1. MirroredUp(fabric, Top, R, c)
      BY SiteFacts DEF InTree
    <3>2. Top.links[up] = <<"port", q>>
      BY <1>1 DEF SiteInv, LinkOf
    <3>3. /\ Within(fabric, Q, c)
          /\ IF q = NodeIn(fabric, Q, c).down THEN Top.above[R] = <<>> /\ Top.above[Q] = <<>>
             ELSE Top.above[R] = LevelsBelow(fabric, Top.above, Q, c)
      BY <3>1, <3>2 DEF MirroredUp, RouterNames, PortsOf, PortsIn, Config, NodeIn, TreeAt
    <3> QED BY <3>3 DEF Within, InTree, FromParent, TreeAt, NodeIn, Config, Above, Below
  <2>2. CASE g.type = "RESPONSE" /\ g.stack = <<>>
    BY <2>1, <2>2 DEF MayWaitAt, CreditStackFits
  <2>3. CASE g.type = "REQUEST" /\ g.stack \in {<<>>, Above(R)}
    BY <2>1, <2>3 DEF MayWaitAt, RequestStackFits
  <2> QED BY <2>2, <2>3
<1>2. \A h \in Ranks : Replies(h, g) \subseteq MayBeSent
  BY PlainReplies
<1>3. <<up>>[1] = up /\ DOMAIN <<up>> = {1}
  OBVIOUS
<1> HIDE DEF up
<1> QED BY <1>1, <1>2, <1>3 DEF Goes, up

\* Down: a credit that has everything pushed that R and the routers above it
\* push.
LEMMA DownGoes ==
    ASSUME SiteInv, NEW R \in RouterNames, NEW g \in Frames, InTree(R, ChannelOf(g)),
           g.type = "RESPONSE", g.stack = Below(R, ChannelOf(g))
    PROVE  Goes(McastOf(Config(R), ChannelOf(g)), g)
<1> DEFINE c     == ChannelOf(g)
           ports == McastOf(Config(R), c)
<1>1. MirroredDown(fabric, Top, R, c)
  BY SiteFacts DEF InTree
<1>2. ASSUME NEW i \in DOMAIN ports, NEW Q \in RouterNames, NEW q \in PortsOf(Q),
             LinkOf(ports[i]) = <<"port", q>>
      PROVE  g \in MayWaitAt(Q, q)
  <2>1. InTree(Q, c) => FromParent(Q, c, q) /\ Above(Q) = Below(R, c)
    <3>1. ports[i] \in Range(McastOf(fabric.routers[R], c))
      BY DEF Range, Config
    <3>2. Top.links[ports[i]] = <<"port", q>>
      BY <1>2 DEF SiteInv, LinkOf
    <3> HIDE DEF ports, c
    <3>3. Within(fabric, Q, c) =>
            q = NodeIn(fabric, Q, c).down /\ Top.above[Q] = LevelsBelow(fabric, Top.above, R, c)
      BY <1>1, <3>1, <3>2 DEF MirroredDown, RouterNames, PortsOf, PortsIn, Config
    <3> QED BY <3>3 DEF Within, InTree, FromParent, TreeAt, NodeIn, Config, Above, Below
  <2> QED BY <2>1 DEF MayWaitAt, CreditStackFits
<1>3. ASSUME NEW i \in DOMAIN ports, NEW h \in Ranks, LinkOf(ports[i]) = <<"host", h>>,
             NEW r \in Replies(h, g)
      PROVE  r \in MayBeSent
  <2>1. /\ r \in Frames /\ r.type = "REQUEST" /\ r.stack = g.stack
        /\ ChannelOf(r) = c /\ r.src = h /\ r.sub = g.sub /\ h \in RequestersOf(c[1])
    BY ReplyToCredit
  <2>2. c[2] = g.sub
    BY ChannelFacts
  <2>3. AccessOf(r) \in PortsOf(R) /\ ~FromParent(R, c, AccessOf(r))
    <3>1. ports[i] \in Range(McastOf(fabric.routers[R], c))
      BY DEF Range, Config
    <3>2. Top.links[ports[i]] = <<"host", h>>
      BY <1>3 DEF SiteInv, LinkOf
    <3>3. AccessOf(r) = Top.access[<<h, c[2]>>]
      BY <2>1, <2>2 DEF AccessOf, SiteInv
    <3> HIDE DEF ports, c
    <3>4. /\ Top.access[<<h, c[2]>>] \in PortsIn(fabric, R)
          /\ Top.access[<<h, c[2]>>] # NodeIn(fabric, R, c).down
      BY <1>1, <2>1, <3>1, <3>2 DEF MirroredDown
    <3> QED BY <3>3, <3>4 DEF PortsOf, PortsIn, Config, FromParent, TreeAt, NodeIn
  <2>4. RequestStackFits(R, AccessOf(r), r)
    BY <2>1, <2>3 DEF RequestStackFits
  <2> QED BY <2>1, <2>3, <2>4 DEF MayBeSent
<1> HIDE DEF ports
<1> QED BY <1>2, <1>3 DEF Goes, ports

\* What a host sends comes in at its router as what may wait there.
LEMMA SentMayWait ==
    ASSUME SiteInv, NEW f \in MayBeSent, NEW R \in RouterNames, AccessOf(f) \in PortsOf(R)
    PROVE  f \in MayWaitAt(R, AccessOf(f))
<1> DEFINE p == AccessOf(f)
           c == ChannelOf(f)
<1>1. f \in Frames
  BY DEF MayBeSent
<1>2. ASSUME f.type = "RESPONSE", InTree(R, c), FromParent(R, c, p)
      PROVE  Above(R) = <<>>
  <2>1. MirroredAtTop(fabric, Top, R, c)
    BY <1>2, SiteFacts DEF InTree
  <2>2. p = Top.access[c]
    BY <1>2 DEF AccessOf, SiteInv, ChannelOf, FromResponder
  <2> QED BY <1>2, <2>1, <2>2 DEF MirroredAtTop, FromParent, TreeAt, NodeIn, Config, Above
<1>3. f.type = "RESPONSE" => CreditStackFits(R, p, f)
  BY <1>2 DEF MayBeSent, CreditStackFits
<1>4. f.type = "REQUEST" => RequestStackFits(R, p, f)
  <2> SUFFICES ASSUME f.type = "REQUEST", f.stack # <<>> PROVE RequestStackFits(R, p, f)
    BY DEF RequestStackFits
  <2>1. PICK Q \in RouterNames : p \in PortsOf(Q) /\ RequestStackFits(Q, p, f)
    BY DEF MayBeSent
  <2>2. Q = R
    BY <2>1, OneRouterPerPort
  <2> QED BY <2>1, <2>2
<1> QED BY <1>1, <1>3, <1>4 DEF MayWaitAt

-----------------------------------------------------------------------------
(* What a router sends out.                                                *)

\* A ring takes copies up to its bound.
LEMMA QueuedKeeps ==
    ASSUME NEW M, NEW ring \in Seq(M), Len(ring) < RingSize, NEW f, NEW copies \in Nat,
           copies = 0 \/ f \in M
    PROVE  /\ Queued(ring, f, copies) \in Seq(M) /\ Len(Queued(ring, f, copies)) < RingSize
           /\ Queued(ring, f, copies) = <<>> => ring = <<>>
<1> DEFINE room == RingSize - 1 - Len(ring)
           k    == IF copies < room THEN copies ELSE room
           more == [i \in 1 .. k |-> f]
<1>1. Len(ring) \in Nat /\ RingSize \in Nat
  BY LenProperties, ForwardingAssumption
<1>2. k \in Nat /\ Len(ring) + k < RingSize /\ (copies = 0 => k = 0)
  BY <1>1
<1> HIDE DEF k
<1>3. more \in Seq(M) /\ Len(more) = k
  BY <1>2
<1> HIDE DEF more
<1>4. ring \o more \in Seq(M) /\ Len(ring \o more) = Len(ring) + k
  BY <1>3, ConcatProperties
<1>5. ring \o more = <<>> => ring = <<>>
  <2> SUFFICES ASSUME ring \o more = <<>> PROVE ring = <<>>
    OBVIOUS
  <2>1. Len(ring \o more) = 0
    BY EmptySeq
  <2>2. Len(ring) = 0
    BY <1>1, <1>2, <1>4, <2>1
  <2> QED BY <2>2, EmptySeq, LenProperties
<1>6. Queued(ring, f, copies) = ring \o more
  BY DEF Queued, k, more
<1> QED BY <1>1, <1>2, <1>4, <1>5, <1>6

LEMMA CopiesAreCounted ==
    ASSUME NEW devices, NEW ports, NEW n \in Nat, DOMAIN ports = 1 .. n, NEW end
    PROVE  /\ Copies(devices, ports, end) \in Nat
           /\ Copies(devices, ports, end) = 0 \/ \E i \in DOMAIN ports : LinkOf(ports[i]) = end
<1> DEFINE these == {i \in DOMAIN ports : LinkOf(ports[i]) = end /\ ports[i] \in devices}
<1>1. IsFiniteSet(these)
  <2>1. IsFiniteSet(1 .. n)
    BY FS_Interval
  <2> QED BY <2>1, FS_Subset
<1>2. Cardinality(these) \in Nat
  BY <1>1, FS_CardinalityType
<1>3. these = {} => Cardinality(these) = 0
  BY FS_EmptySet
<1> QED BY <1>2, <1>3 DEF Copies

\* The tables and the cables stay, and so does what is said of them.
LEMMA SameSite ==
    ASSUME UNCHANGED site
    PROVE  /\ SiteInv <=> SiteInv'
           /\ RouterNames' = RouterNames
           /\ \A R : Config(R)' = Config(R) /\ PortsOf(R)' = PortsOf(R)
           /\ \A R, p : MayWaitAt(R, p)' = MayWaitAt(R, p)
           /\ MayBeSent' = MayBeSent
           /\ Chans' = Chans
<1>1. work' = work /\ fabric' = fabric /\ cabling' = cabling
  BY DEF site
<1>2. SiteInv <=> SiteInv'
  BY <1>1 DEF SiteInv, Top
<1>3. /\ RouterNames' = RouterNames
      /\ \A R : Config(R)' = Config(R) /\ PortsOf(R)' = PortsOf(R)
      /\ Chans' = Chans
  BY <1>1 DEF RouterNames, Config, PortsOf, Chans
<1>4. Frames' = Frames
  BY <1>1, <1>3 DEF Frames, FrameRecords
<1>5. \A R, p, f : /\ CreditStackFits(R, p, f)' <=> CreditStackFits(R, p, f)
                   /\ RequestStackFits(R, p, f)' <=> RequestStackFits(R, p, f)
  BY <1>1 DEF CreditStackFits, RequestStackFits, InTree, FromParent, TreeAt, Config, Above, Below, Top
<1>6. \A R, p : MayWaitAt(R, p)' = MayWaitAt(R, p)
  BY <1>4, <1>5 DEF MayWaitAt
<1>7. \A f : AccessOf(f)' = AccessOf(f)
  BY <1>1 DEF AccessOf
<1>8. MayBeSent' = MayBeSent
  BY <1>3, <1>4, <1>5, <1>7 DEF MayBeSent
<1> QED BY <1>2, <1>3, <1>6, <1>8

LEMMA HeardKeeps ==
    ASSUME IsABag(heard), NEW more, IsABag(more)
    PROVE  IsABag(heard (+) more)
BY DEF IsABag, (+)

\* The copies of a frame that may go out on ports break neither the rings nor
\* what hosts send and have heard.
LEMMA InjectKeeps ==
    ASSUME SiteInv, UNCHANGED site, IsABag(heard), todo \subseteq MayBeSent,
           DOMAIN rings = UNION {PortsOf(R) : R \in RouterNames},
           NEW kept,
           \A R \in RouterNames : \A p \in PortsOf(R) :
             kept[p] \in Seq(MayWaitAt(R, p)) /\ Len(kept[p]) < RingSize,
           NEW devices, NEW ports, NEW n \in Nat, DOMAIN ports = 1 .. n, NEW g, Goes(ports, g),
           Inject(kept, devices, ports, g)
    PROVE  /\ RingsInv' /\ IsABag(heard)'
           /\ \A p \in Ports : rings'[p] = <<>> => kept[p] = <<>>
<1> DEFINE ToRing(q) == Copies(devices, ports, <<"port", q>>)
           ToHost(h) == Copies(devices, ports, <<"host", h>>)
           hearers   == {h \in Ranks : ToHost(h) > 0}
<1>1. /\ rings' = [q \in Ports |-> Queued(kept[q], g, ToRing(q))]
      /\ heard' = heard (+) [x \in [at : hearers, frame : {g}] |-> ToHost(x.at)]
      /\ todo' = todo \cup UNION {Replies(h, g) : h \in hearers}
  BY DEF Inject
<1>2. \A q : ToRing(q) \in Nat /\ (ToRing(q) = 0 \/ \E i \in DOMAIN ports : LinkOf(ports[i]) = <<"port", q>>)
  BY CopiesAreCounted
<1>3. \A h : ToHost(h) \in Nat /\ (ToHost(h) = 0 \/ \E i \in DOMAIN ports : LinkOf(ports[i]) = <<"host", h>>)
  BY CopiesAreCounted
<1> HIDE DEF ToRing, ToHost
<1>4. ASSUME NEW R \in RouterNames, NEW p \in PortsOf(R)
      PROVE  /\ rings'[p] \in Seq(MayWaitAt(R, p)) /\ Len(rings'[p]) < RingSize
             /\ rings'[p] = <<>> => kept[p] = <<>>
  <2>1. p \in Ports
    BY DEF Ports
  <2>2. rings'[p] = Queued(kept[p], g, ToRing(p))
    BY <1>1, <2>1
  <2>3. ToRing(p) = 0 \/ g \in MayWaitAt(R, p)
    BY <1>2 DEF Goes
  <2>4. ToRing(p) \in Nat /\ kept[p] \in Seq(MayWaitAt(R, p)) /\ Len(kept[p]) < RingSize
    BY <1>2
  <2>5. /\ Queued(kept[p], g, ToRing(p)) \in Seq(MayWaitAt(R, p))
        /\ Len(Queued(kept[p], g, ToRing(p))) < RingSize
        /\ Queued(kept[p], g, ToRing(p)) = <<>> => kept[p] = <<>>
    BY <2>3, <2>4, QueuedKeeps
  <2> QED BY <2>2, <2>5
<1>5. DOMAIN rings' = UNION {PortsOf(R) : R \in RouterNames}
  BY <1>1 DEF Ports
<1>6. todo' \subseteq MayBeSent
  <2>1. \A h \in hearers : Replies(h, g) \subseteq MayBeSent
    BY <1>3 DEF Goes
  <2> QED BY <1>1, <2>1
<1>7. RingsInv'
  BY <1>4, <1>5, <1>6, SameSite DEF RingsInv
<1>8. IsABag(heard)'
  <2> DEFINE more == [x \in [at : hearers, frame : {g}] |-> ToHost(x.at)]
  <2>1. \A x \in [at : hearers, frame : {g}] : ToHost(x.at) \in Nat /\ ToHost(x.at) > 0
    BY <1>3
  <2>2. IsABag(more)
    BY <2>1 DEF IsABag
  <2>3. IsABag(heard (+) more)
    BY <2>2, HeardKeeps
  <2> QED BY <1>1, <2>3 DEF IsABag
<1>9. \A p \in Ports : rings'[p] = <<>> => kept[p] = <<>>
  BY <1>4 DEF Ports
<1> QED BY <1>7, <1>8, <1>9

-----------------------------------------------------------------------------
(* Taking turns.                                                           *)

LEMMA Around ==
    ASSUME NEW m \in Nat \ {0}
    PROVE  /\ \A x \in 0 .. m - 1 : x % m = x
           /\ \A x \in m .. 2 * m - 1 : x % m = x - m
           /\ \A x \in Nat : x % m \in 0 .. m - 1
OBVIOUS

\* The device dev_pop starts at once it has taken from the one after a others.
After(g, a, n) == (((g + a) % n) + 1) % n

\* Where device k is in turn before and after that.
StaysInTurn(g, a, k, n) ==
    /\ Before(g, k, n) \in 0 .. n - 1 /\ (g + Before(g, k, n)) % n = k
    /\ After(g, a, n) \in 0 .. n - 1 /\ Before(After(g, a, n), k, n) \in 0 .. n - 1
    /\ a < Before(g, k, n) => Before(After(g, a, n), k, n) = Before(g, k, n) - (a + 1)

LEMMA NextInTurn ==
    ASSUME NEW n \in Nat \ {0}, NEW g \in 0 .. n - 1, NEW a \in 0 .. n - 1, NEW k \in 0 .. n - 1
    PROVE  StaysInTurn(g, a, k, n)
<1> DEFINE b     == Before(g, k, n)
           after == After(g, a, n)
<1>1. b \in 0 .. n - 1 /\ (g + b = k \/ g + b = k + n)
  BY DEF Before
<1> HIDE DEF b, after
<1>2. (g + b) % n = k
  <2>1. CASE g + b = k
    BY <1>1, <2>1, Around
  <2>2. CASE g + b = k + n
    <3>1. g + b \in n .. 2 * n - 1
      BY <2>2
    <3>2. (g + b) % n = (g + b) - n
      BY <3>1, Around
    <3> QED BY <1>1, <2>2, <3>2
  <2> QED BY <1>1, <2>1, <2>2
<1>3. PICK at : at = (g + a) % n
  OBVIOUS
<1>4. at \in 0 .. n - 1 /\ (at = g + a \/ at = (g + a) - n)
  <2>1. g + a \in 0 .. n - 1 \/ g + a \in n .. 2 * n - 1
    OBVIOUS
  <2>2. CASE g + a \in 0 .. n - 1
    BY <1>3, <2>2, Around
  <2>3. CASE g + a \in n .. 2 * n - 1
    <3>1. (g + a) % n = (g + a) - n
      BY <2>3, Around
    <3> QED BY <1>3, <2>3, <3>1
  <2> QED BY <2>1, <2>2, <2>3
<1>5. after = IF at + 1 < n THEN at + 1 ELSE 0
  <2>1. at + 1 \in 0 .. n - 1 \/ at + 1 = n
    BY <1>4
  <2>2. after = (at + 1) % n
    BY <1>3 DEF after, After
  <2>3. CASE at + 1 \in 0 .. n - 1
    BY <2>2, <2>3, Around
  <2>4. CASE at + 1 = n
    <3>1. n \in n .. 2 * n - 1
      OBVIOUS
    <3>2. n % n = n - n
      BY <3>1, Around
    <3> QED BY <2>2, <2>4, <3>2
  <2> QED BY <2>1, <2>3, <2>4
<1>6. after \in 0 .. n - 1
  BY <1>4, <1>5
<1>7. Before(after, k, n) \in 0 .. n - 1
  BY <1>6 DEF Before
<1>8. ASSUME a < b
      PROVE  Before(after, k, n) = b - (a + 1)
  <2>1. b = IF k >= g THEN k - g ELSE (k - g) + n
    BY DEF b, Before
  <2> QED BY <1>1, <1>4, <1>5, <1>8, <2>1 DEF Before
<1> QED BY <1>1, <1>2, <1>6, <1>7, <1>8 DEF b, after, StaysInTurn

\* dev_pop takes from a device with a frame, and no other one is before it.
LEMMA AttemptFacts ==
    ASSUME SiteInv, TurnInv, NEW R \in RouterNames, NonEmpty(R) # {}
    PROVE  /\ Attempt(R) \in 0 .. Len(Config(R).devs) - 1
           /\ \A b \in NonEmpty(R) : Attempt(R) <= b
           /\ PortAt(R, Attempt(R)) \in PortsOf(R) /\ rings[PortAt(R, Attempt(R))] # <<>>
<1>1. NonEmpty(R) \subseteq 0 .. Len(Config(R).devs) - 1 /\ Len(Config(R).devs) \in Nat \ {0}
  BY DeviceFacts DEF NonEmpty
<1>2. NonEmpty(R) \subseteq Nat
  BY <1>1
<1>3. PICK d \in NonEmpty(R) : \A e \in NonEmpty(R) : d <= e
  BY <1>2, LeastOf
<1>4. Attempt(R) \in NonEmpty(R) /\ \A b \in NonEmpty(R) : Attempt(R) <= b
  BY <1>3, Zenon DEF Attempt
<1>5. PICK a \in 0 .. Len(Config(R).devs) - 1 : a = Attempt(R)
  BY <1>1, <1>4
<1>6. rings[PortAt(R, a)] # <<>>
  BY <1>4, <1>5 DEF NonEmpty
<1>7. PortAt(R, a) \in PortsOf(R)
  <2>1. g_dev_rr[R] \in 0 .. Len(Config(R).devs) - 1
    BY DEF TurnInv
  <2>2. g_dev_rr[R] + a \in Nat
    BY <1>1, <2>1
  <2>3. DeviceAt(R, a) \in 0 .. Len(Config(R).devs) - 1
    BY <1>1, <2>2, Around DEF DeviceAt, FirstDevice
  <2> QED BY <2>3, DeviceFacts DEF PortAt
<1> QED BY <1>4, <1>5, <1>6, <1>7

\* Whatever a router takes and sends on, the other devices stay in turn.
LEMMA TurnKeeps ==
    ASSUME SiteInv, TurnInv, UNCHANGED site,
           DOMAIN rings = UNION {PortsOf(Q) : Q \in RouterNames},
           NEW R \in RouterNames, NonEmpty(R) # {},
           NEW p, p = PortAt(R, Attempt(R)),
           g_dev_rr' = [g_dev_rr EXCEPT ![R] = (DeviceAt(R, Attempt(R)) + 1) % Len(Config(R).devs)],
           skipped' = [q \in Ports |->
                         IF q \notin PortsOf(R) THEN skipped[q]
                         ELSE IF q = p \/ rings[q] = <<>> THEN 0 ELSE skipped[q] + 1],
           \A q \in Ports : q # p /\ rings'[q] = <<>> => rings[q] = <<>>
    PROVE  TurnInv'
<1> SUFFICES ASSUME NEW Q \in RouterNames
             PROVE  /\ DOMAIN g_dev_rr' = RouterNames
                    /\ g_dev_rr'[Q] \in 0 .. Len(Config(Q).devs) - 1
                    /\ \A k \in 0 .. Len(Config(Q).devs) - 1 :
                         LET q == Config(Q).devs[k + 1]
                         IN /\ skipped'[q] \in Nat
                            /\ IF rings'[q] = <<>> THEN skipped'[q] = 0
                               ELSE skipped'[q] + Before(g_dev_rr'[Q], k, Len(Config(Q).devs))
                                      < Len(Config(Q).devs)
  BY SameSite DEF TurnInv, Turns
<1> DEFINE n == Len(Config(Q).devs)
<1>1. n \in Nat \ {0} /\ g_dev_rr[Q] \in 0 .. n - 1
  BY DeviceFacts DEF TurnInv
<1>0. DOMAIN g_dev_rr' = RouterNames
  BY DEF TurnInv
<1>2. \A k \in 0 .. n - 1 : Config(Q).devs[k + 1] \in PortsOf(Q) /\ Config(Q).devs[k + 1] \in Ports
  BY DeviceFacts DEF Ports
<1>3. ASSUME NEW k \in 0 .. n - 1
      PROVE  LET q == Config(Q).devs[k + 1]
             IN /\ skipped[q] \in Nat
                /\ IF rings[q] = <<>> THEN skipped[q] = 0 ELSE skipped[q] + Turns(Q, k) < n
  BY DEF TurnInv
<1>4. p \in PortsOf(R)
  BY AttemptFacts
<1>5. CASE Q # R
  <2>1. g_dev_rr'[Q] = g_dev_rr[Q]
    BY <1>5 DEF TurnInv
  <2>2. ASSUME NEW k \in 0 .. n - 1
        PROVE  LET q == Config(Q).devs[k + 1]
               IN q \in Ports /\ q # p /\ skipped'[q] = skipped[q]
    BY <1>2, <1>4, <1>5, OneRouterPerPort
  <2>3. ASSUME NEW k \in 0 .. n - 1
        PROVE  LET q == Config(Q).devs[k + 1]
               IN /\ skipped'[q] \in Nat
                  /\ IF rings'[q] = <<>> THEN skipped'[q] = 0 ELSE skipped'[q] + Turns(Q, k) < n
    <3> DEFINE q == Config(Q).devs[k + 1]
    <3>1. /\ q \in Ports /\ q # p /\ skipped'[q] = skipped[q] /\ skipped[q] \in Nat
          /\ IF rings[q] = <<>> THEN skipped[q] = 0 ELSE skipped[q] + Turns(Q, k) < n
      BY <1>3, <2>2
    <3>2. rings'[q] = <<>> => rings[q] = <<>>
      BY <3>1
    <3>3. Turns(Q, k) < n
      BY <1>1 DEF Turns, Before
    <3> HIDE DEF q, n
    <3>4. skipped'[q] \in Nat
      BY <3>1
    <3>5. rings'[q] = <<>> => skipped'[q] = 0
      BY <3>1, <3>2
    <3>6. skipped[q] + Turns(Q, k) < n
      <4>1. n \in Nat /\ Turns(Q, k) \in Int
        BY <1>1 DEF Turns, Before, n
      <4> QED BY <3>1, <3>3, <4>1
    <3> QED BY <3>1, <3>4, <3>5, <3>6 DEF q
  <2> QED BY <1>0, <1>1, <2>1, <2>3 DEF Turns
<1>6. CASE Q = R
  <2> DEFINE a == Attempt(R)
  <2>1. a \in 0 .. n - 1 /\ \A b \in NonEmpty(R) : a <= b
    BY <1>6, AttemptFacts
  <2>2. g_dev_rr'[R] = (((g_dev_rr[R] + a) % n) + 1) % n
    BY <1>6 DEF DeviceAt, FirstDevice, TurnInv
  <2>3. PICK after : after = After(g_dev_rr[R], a, n)
    OBVIOUS
  <2>4. ASSUME NEW k \in 0 .. n - 1
        PROVE  LET q == Config(R).devs[k + 1]
               IN /\ skipped'[q] \in Nat
                  /\ IF rings'[q] = <<>> THEN skipped'[q] = 0
                     ELSE skipped'[q] + Before(after, k, n) < n
    <3> DEFINE q == Config(R).devs[k + 1]
               b == Turns(R, k)
    <3>1. /\ q \in PortsOf(R) /\ q \in Ports /\ skipped[q] \in Nat
          /\ IF rings[q] = <<>> THEN skipped[q] = 0 ELSE skipped[q] + b < n
      BY <1>2, <1>3, <1>6
    <3>2. skipped'[q] = IF q = p \/ rings[q] = <<>> THEN 0 ELSE skipped[q] + 1
      BY <3>1
    <3>3. /\ b \in 0 .. n - 1 /\ (g_dev_rr[R] + b) % n = k
          /\ a < b => Before(after, k, n) = b - (a + 1)
          /\ Before(after, k, n) \in 0 .. n - 1
      <4>1. b = Before(g_dev_rr[R], k, n)
        BY <1>6 DEF Turns
      <4>2. PICK m \in Nat \ {0} : m = n
        BY <1>1
      <4>3. PICK g \in 0 .. m - 1, i \in 0 .. m - 1 : g = g_dev_rr[R] /\ i = a
        BY <1>1, <1>6, <2>1, <4>2
      <4>4. after = After(g, i, m) /\ k \in 0 .. m - 1
        BY <2>3, <4>2, <4>3
      <4>5. StaysInTurn(g, i, k, m)
        BY <4>4, NextInTurn
      <4> QED BY <4>1, <4>2, <4>3, <4>4, <4>5 DEF StaysInTurn
    <3>4. CASE q = p \/ rings[q] = <<>>
      <4>1. skipped'[q] = 0
        BY <3>2, <3>4
      <4> HIDE DEF q, b, n, a
      <4>2. 0 + Before(after, k, n) < n
        <5>1. n \in Nat
          BY <1>1 DEF n
        <5> QED BY <3>3, <5>1
      <4> QED BY <4>1, <4>2, <3>3 DEF q
    <3>5. CASE ~(q = p \/ rings[q] = <<>>)
      <4>1. skipped'[q] = skipped[q] + 1 /\ skipped[q] + b < n /\ rings'[q] # <<>>
        BY <3>1, <3>2, <3>5
      <4>2. PortAt(R, b) = q
        BY <1>6, <3>3 DEF PortAt, DeviceAt, FirstDevice
      <4>3. b \in NonEmpty(R)
        BY <1>6, <3>3, <3>5, <4>2 DEF NonEmpty
      <4>4. a <= b /\ a # b
        BY <2>1, <3>5, <4>2, <4>3
      <4>5. PICK i \in 0 .. n - 1, j \in 0 .. n - 1, s \in Nat : i = a /\ j = b /\ s = skipped[q]
        BY <2>1, <3>1, <3>3
      <4> HIDE DEF q, b, n, a
      <4>6. n \in Nat
        BY <1>1 DEF n
      <4>7. Before(after, k, n) = j - (i + 1)
        BY <3>3, <4>4, <4>5
      <4>8. (s + 1) + (j - (i + 1)) < n
        BY <4>1, <4>4, <4>5, <4>6
      <4>9. skipped'[q] = s + 1 /\ s + 1 \in Nat
        BY <4>1, <4>5
      <4> QED BY <4>1, <4>7, <4>8, <4>9 DEF q
    <3> QED BY <3>4, <3>5
  <2>5. after \in 0 .. n - 1
    <3>1. PICK m \in Nat \ {0} : m = n
      BY <1>1
    <3>2. PICK g \in 0 .. m - 1, i \in 0 .. m - 1 : g = g_dev_rr[R] /\ i = a
      BY <1>1, <1>6, <2>1, <3>1
    <3>3. StaysInTurn(g, i, 0, m)
      <4>1. 0 \in 0 .. m - 1
        OBVIOUS
      <4> QED BY <4>1, NextInTurn
    <3> QED BY <2>3, <3>1, <3>2, <3>3 DEF StaysInTurn
  <2>6. g_dev_rr'[R] = after
    BY <2>2, <2>3 DEF After
  <2> QED BY <1>0, <1>6, <2>4, <2>5, <2>6
<1> QED BY <1>5, <1>6

-----------------------------------------------------------------------------
(* The actions.                                                            *)

LEMMA PassKeeps ==
    ASSUME SiteInv, RingsInv, IsABag(heard), TurnInv, NEW R \in RouterNames,
           NEW p, NEW devices, NEW ports, NEW n \in Nat, DOMAIN ports = 1 .. n,
           NEW g, Goes(ports, g), Pass(R, p, devices, ports, g)
    PROVE  UNCHANGED site /\ SiteInv' /\ RingsInv' /\ IsABag(heard)' /\ TurnInv'
<1> DEFINE kept == [rings EXCEPT ![p] = Tail(rings[p])]
<1>1. /\ UNCHANGED site /\ NonEmpty(R) # {} /\ p = PortAt(R, Attempt(R))
      /\ g_dev_rr' = [g_dev_rr EXCEPT ![R] = (DeviceAt(R, Attempt(R)) + 1) % Len(Config(R).devs)]
      /\ skipped' = [q \in Ports |->
                       IF q \notin PortsOf(R) THEN skipped[q]
                       ELSE IF q = p \/ rings[q] = <<>> THEN 0 ELSE skipped[q] + 1]
      /\ Inject(kept, devices, ports, g)
  BY DEF Pass
<1>2. rings[p] # <<>> /\ p \in PortsOf(R)
  BY <1>1, AttemptFacts
<1>3. DOMAIN rings = UNION {PortsOf(Q) : Q \in RouterNames} /\ todo \subseteq MayBeSent
  BY DEF RingsInv
<1>4. ASSUME NEW Q \in RouterNames, NEW q \in PortsOf(Q)
      PROVE  /\ kept[q] \in Seq(MayWaitAt(Q, q)) /\ Len(kept[q]) < RingSize
             /\ q # p => kept[q] = rings[q]
  <2>1. rings[q] \in Seq(MayWaitAt(Q, q)) /\ Len(rings[q]) < RingSize /\ q \in DOMAIN rings
    BY <1>3 DEF RingsInv
  <2>2. CASE q # p
    BY <2>1, <2>2
  <2>3. CASE q = p
    <3>1. kept[q] = Tail(rings[q]) /\ rings[q] # <<>>
      BY <1>2, <2>1, <2>3
    <3>2. /\ Tail(rings[q]) \in Seq(MayWaitAt(Q, q))
          /\ Len(Tail(rings[q])) = Len(rings[q]) - 1 /\ Len(rings[q]) \in Nat
      BY <2>1, <3>1, HeadTailProperties, LenProperties
    <3>3. Len(Tail(rings[q])) < RingSize
      BY <2>1, <3>2, ForwardingAssumption
    <3> QED BY <2>3, <3>1, <3>2, <3>3
  <2> QED BY <2>2, <2>3
<1> HIDE DEF kept
<1>5. RingsInv' /\ IsABag(heard)' /\ \A q \in Ports : rings'[q] = <<>> => kept[q] = <<>>
  BY <1>1, <1>3, <1>4, InjectKeeps
<1>6. \A q \in Ports : q # p /\ rings'[q] = <<>> => rings[q] = <<>>
  BY <1>3, <1>4, <1>5 DEF Ports
<1>7. TurnInv'
  BY <1>1, <1>3, <1>6, TurnKeeps
<1> QED BY <1>1, <1>5, <1>7, SameSite

\* The frame a router takes.
LEMMA FirstMayWait ==
    ASSUME SiteInv, RingsInv, NEW R \in RouterNames, NEW p \in PortsOf(R), rings[p] # <<>>
    PROVE  First(p) \in MayWaitAt(R, p) /\ First(p) \in Frames
<1>1. rings[p] \in Seq(MayWaitAt(R, p))
  BY DEF RingsInv
<1>2. Len(rings[p]) \in Nat /\ Len(rings[p]) # 0
  BY <1>1, LenProperties, EmptySeq
<1>3. 1 \in 1 .. Len(rings[p])
  BY <1>2
<1>4. First(p) \in MayWaitAt(R, p)
  BY <1>1, <1>3, ElementOfSeq DEF First
<1> QED BY <1>4 DEF MayWaitAt

\* What a table gives is a sequence of ports.
LEMMA PortsAreSeqs ==
    ASSUME SiteInv, NEW R \in RouterNames, NEW p, NEW c
    PROVE  /\ \E n \in Nat : DOMAIN BypassPorts(R, p, c) = 1 .. n
           /\ \E n \in Nat : DOMAIN McastPorts(R, p, c) = 1 .. n
<1>1. PICK S : RouterSound(Config(R), S)
  BY SiteFacts DEF TablesSound, RouterNames, Config
<1>2. DOMAIN <<>> = 1 .. 0 /\ \A x : DOMAIN <<x>> = 1 .. 1
  OBVIOUS
<1>3. \E n \in Nat : DOMAIN McastOf(Config(R), c) = 1 .. n
  <2>1. CASE c \in DOMAIN Config(R).mcast
    <3>1. Config(R).mcast[c] \in Seq(S)
      BY <1>1, <2>1 DEF RouterSound
    <3> QED BY <2>1, <3>1, LenProperties DEF McastOf
  <2>2. CASE c \notin DOMAIN Config(R).mcast
    BY <1>2, <2>2 DEF McastOf
  <2> QED BY <2>1, <2>2
<1>4. \E n \in Nat : DOMAIN BypassPorts(R, p, c) = 1 .. n
  <2>1. \/ \E x : BypassPorts(R, p, c) = <<x>>
        \/ BypassPorts(R, p, c) = <<>>
    BY DEF BypassPorts
  <2> QED BY <1>2, <2>1
<1>5. \E n \in Nat : DOMAIN McastPorts(R, p, c) = 1 .. n
  <2>1. \/ \E x : McastPorts(R, p, c) = <<x>>
        \/ McastPorts(R, p, c) \in {<<>>, McastOf(Config(R), c)}
    BY DEF McastPorts
  <2> QED BY <1>2, <1>3, <2>1
<1> QED BY <1>4, <1>5

\* What every action of a router comes down to.
LEMMA PassSuffices ==
    ASSUME ForwardingInv, NEW R \in RouterNames, NEW p, NEW devices, NEW ports,
           \E n \in Nat : DOMAIN ports = 1 .. n, NEW g, Goes(ports, g),
           Pass(R, p, devices, ports, g), slots' \in [RouterNames -> [Chans -> SlotRecords]]
    PROVE  ForwardingInv'
<1>1. UNCHANGED site /\ SiteInv' /\ RingsInv' /\ IsABag(heard)' /\ TurnInv'
  BY PassKeeps DEF ForwardingInv
<1>2. SlotsInv'
  BY <1>1, SameSite DEF SlotsInv, SlotRecords
<1> QED BY <1>1, <1>2 DEF ForwardingInv

LEMMA MulticastControlKeeps ==
    ASSUME ForwardingInv, NEW R \in RouterNames, NEW p \in PortsOf(R), MulticastControl(R, p)
    PROVE  ForwardingInv'
<1> DEFINE f       == First(p)
           c       == ChannelOf(f)
           devices == IF FromParent(R, c, p) THEN PortsOf(R) \ {p} ELSE PortsOf(R)
<1>1. /\ rings[p] # <<>> /\ f.type \in {"REGISTER_ACK", "END"}
      /\ Pass(R, p, devices, McastPorts(R, p, c), f) /\ slots' = slots
  BY DEF MulticastControl, Waits
<1>2. f \in Frames
  BY <1>1, FirstMayWait DEF ForwardingInv
<1>3. Goes(McastPorts(R, p, c), f)
  BY <1>1, <1>2, ControlGoes DEF ForwardingInv
<1>4. \E n \in Nat : DOMAIN McastPorts(R, p, c) = 1 .. n
  BY PortsAreSeqs DEF ForwardingInv
<1>5. slots' \in [RouterNames -> [Chans -> SlotRecords]]
  BY <1>1 DEF ForwardingInv, SlotsInv
<1> HIDE DEF f, c, devices
<1> QED BY <1>1, <1>3, <1>4, <1>5, PassSuffices

LEMMA MulticastResponseKeeps ==
    ASSUME ForwardingInv, NEW R \in RouterNames, NEW p \in PortsOf(R), MulticastResponse(R, p)
    PROVE  ForwardingInv'
<1> DEFINE f    == First(p)
           c    == ChannelOf(f)
           push == IsLevel(R, c) /\ FromParent(R, c, p)
           g    == IF push THEN [f EXCEPT !.stack = Append(f.stack, R)] ELSE f
<1>1. /\ rings[p] # <<>> /\ f.type = "RESPONSE"
      /\ slots' = IF push THEN [slots EXCEPT ![R][c] = [NoSlot EXCEPT !.bound = R \notin work.lost]]
                  ELSE slots
      /\ Pass(R, p, PortsOf(R), McastPorts(R, p, c), g)
  BY DEF MulticastResponse, Waits
<1>2. f \in Frames /\ CreditStackFits(R, p, f)
  BY <1>1, FirstMayWait DEF ForwardingInv, MayWaitAt
<1>3. c \in Chans
  BY <1>2, ChannelFacts DEF ForwardingInv
<1>4. slots' \in [RouterNames -> [Chans -> SlotRecords]]
  <2>1. [NoSlot EXCEPT !.bound = R \notin work.lost] \in SlotRecords
    BY DEF NoSlot, SlotRecords
  <2> HIDE DEF c, push, f
  <2> QED BY <1>1, <1>3, <2>1 DEF ForwardingInv, SlotsInv
<1>5. /\ g \in Frames /\ g.type = "RESPONSE" /\ ChannelOf(g) = c
      /\ g.stack = IF push THEN Append(f.stack, R) ELSE f.stack
  <2>1. f \in FrameRecords /\ f.stack \in Seq(RouterNames)
    BY <1>2 DEF Frames, FrameRecords
  <2>2. Append(f.stack, R) \in Seq(RouterNames)
    BY <2>1, AppendProperties
  <2>3. CASE push
    <3>1. g = [f EXCEPT !.stack = Append(f.stack, R)]
      BY <2>3
    <3> HIDE DEF g, push
    <3>2. /\ g \in FrameRecords /\ g.stack = Append(f.stack, R)
          /\ g.type = f.type /\ g.src = f.src /\ g.dst = f.dst /\ g.sub = f.sub
      BY <2>1, <2>2, <3>1 DEF FrameRecords
    <3>3. ChannelOf(g) = c
      BY <3>2 DEF ChannelOf
    <3> QED BY <1>1, <1>3, <2>3, <3>2, <3>3 DEF Frames
  <2>4. CASE ~push
    BY <1>1, <1>2, <2>4
  <2> QED BY <2>3, <2>4
<1>6. Goes(McastPorts(R, p, c), g)
  <2> HIDE DEF g
  <2>1. CASE ~InTree(R, c)
    <3>1. McastPorts(R, p, c) = <<>>
      BY <2>1 DEF McastPorts, FromParent
    <3> QED BY <3>1 DEF Goes
  <2>2. CASE InTree(R, c) /\ ~FromParent(R, c, p)
    <3>1. McastPorts(R, p, c) = <<TreeAt(R, c).up>>
      BY <2>2 DEF McastPorts
    <3>2. g.stack = <<>>
      BY <1>2, <1>5, <2>2 DEF CreditStackFits
    <3> QED BY <1>5, <2>2, <3>1, <3>2, UpGoes DEF ForwardingInv
  <2>3. CASE InTree(R, c) /\ FromParent(R, c, p)
    <3>1. McastPorts(R, p, c) = McastOf(Config(R), c)
      BY <2>3 DEF McastPorts
    <3>2. g.stack = Below(R, c)
      BY <1>2, <1>5, <2>3
      DEF CreditStackFits, IsLevel, Below, Above, LevelsBelow, NodeIn, TreeAt, Config
    <3> QED BY <1>5, <2>3, <3>1, <3>2, DownGoes DEF ForwardingInv
  <2> QED BY <2>1, <2>2, <2>3
<1>7. \E n \in Nat : DOMAIN McastPorts(R, p, c) = 1 .. n
  BY PortsAreSeqs DEF ForwardingInv
<1> HIDE DEF g, f, c
<1> QED BY <1>1, <1>4, <1>6, <1>7, PassSuffices

\* A request, once R has taken from it what it takes, goes on up to what
\* remains of its stack.
LEMMA RequestGoes ==
    ASSUME SiteInv, NEW R \in RouterNames, NEW p, NEW f \in Frames, RequestStackFits(R, p, f),
           NEW g \in Frames, g.type = "REQUEST", ChannelOf(g) = ChannelOf(f),
           \/ g.stack = <<>>
           \/ f.stack # <<>> /\ g.stack = Above(R)
    PROVE  Goes(BypassPorts(R, p, ChannelOf(f)), g)
<1> DEFINE c == ChannelOf(f)
<1>1. CASE InTree(R, c) /\ ~FromParent(R, c, p)
  <2>1. BypassPorts(R, p, c) = <<TreeAt(R, c).up>>
    BY <1>1 DEF BypassPorts
  <2> QED BY <1>1, <2>1, UpGoes
<1>2. CASE ~(InTree(R, c) /\ ~FromParent(R, c, p))
  <2>1. g.stack = <<>>
    BY <1>2 DEF RequestStackFits
  <2>2. \A Q \in RouterNames : \A q \in PortsOf(Q) : g \in MayWaitAt(Q, q)
    BY <2>1 DEF MayWaitAt, RequestStackFits
  <2>3. \A h \in Ranks : Replies(h, g) \subseteq MayBeSent
    BY PlainReplies
  <2> QED BY <2>2, <2>3 DEF Goes
<1> QED BY <1>1, <1>2

LEMMA BypassKeeps ==
    ASSUME ForwardingInv, NEW R \in RouterNames, NEW p \in PortsOf(R), Bypass(R, p)
    PROVE  ForwardingInv'
<1> DEFINE f == First(p)
           c == ChannelOf(f)
<1>1. /\ rings[p] # <<>> /\ f.type \in {"REGISTER", "END_ACK", "AGG_MISS", "REQUEST"}
      /\ f.type = "REQUEST" => ~Aggregates(R, f)
      /\ Pass(R, p, PortsOf(R), BypassPorts(R, p, c), f) /\ slots' = slots
  BY DEF Bypass, Waits
<1>2. f \in Frames /\ (f.type = "REQUEST" => RequestStackFits(R, p, f))
  BY <1>1, FirstMayWait DEF ForwardingInv, MayWaitAt
<1>3. Goes(BypassPorts(R, p, c), f)
  <2>1. CASE f.type = "REQUEST"
    <3>1. f.stack = <<>> \/ f.stack = Above(R)
      BY <1>1, <1>2, <2>1
      DEF RequestStackFits, Aggregates, IsLevel, Below, Above, LevelsBelow, NodeIn, TreeAt, Config
    <3> QED BY <1>2, <2>1, <3>1, RequestGoes DEF ForwardingInv
  <2>2. CASE f.type # "REQUEST"
    BY <1>1, <1>2, <2>2, ControlGoes DEF ForwardingInv
  <2> QED BY <2>1, <2>2
<1>4. \E n \in Nat : DOMAIN BypassPorts(R, p, c) = 1 .. n
  BY PortsAreSeqs DEF ForwardingInv
<1>5. slots' \in [RouterNames -> [Chans -> SlotRecords]]
  BY <1>1 DEF ForwardingInv, SlotsInv
<1> HIDE DEF f, c
<1> QED BY <1>1, <1>3, <1>4, <1>5, PassSuffices

\* request_pop_one_level takes off the level of R itself.
LEMMA PopTakesOwnLevel ==
    ASSUME SiteInv, NEW R \in RouterNames, NEW p, NEW f \in Frames, f.type = "REQUEST",
           RequestStackFits(R, p, f), Aggregates(R, f)
    PROVE  /\ Len(f.stack) \in Nat \ {0} /\ f.stack[Len(f.stack)] = R
           /\ f.fanins[Len(f.stack)] \in Nat
           /\ PoppedLevel(f) \in Frames /\ PoppedLevel(f).stack = Above(R)
           /\ PoppedLevel(f).type = "REQUEST" /\ ChannelOf(PoppedLevel(f)) = ChannelOf(f)
<1> DEFINE above == Above(R)
           g     == PoppedLevel(f)
<1>1. /\ f \in FrameRecords /\ f.fanins \in Seq(Nat) /\ f.stack \in Seq(RouterNames)
      /\ Len(f.fanins) = Len(f.stack) /\ ChannelOf(f) \in Chans
  BY DEF Frames, FrameRecords
<1>2. above \in Seq(RouterNames)
  BY SiteFacts DEF Above
<1>3. f.stack = Append(above, R)
  BY DEF RequestStackFits, Aggregates, IsLevel, Below, Above, LevelsBelow, NodeIn, TreeAt, Config
<1> HIDE DEF above
<1>4. /\ Len(above) \in Nat /\ DOMAIN above = 1 .. Len(above)
      /\ Len(f.stack) = Len(above) + 1 /\ f.stack[Len(above) + 1] = R
      /\ \A i \in 1 .. Len(above) : f.stack[i] = above[i]
  BY <1>2, <1>3, AppendProperties, LenProperties
<1>5. Front(f.stack) = above
  BY <1>2, <1>3, <1>4 DEF Front
<1>6. Front(f.fanins) \in Seq(Nat) /\ Len(Front(f.fanins)) = Len(above)
  BY <1>1, <1>4 DEF Front
<1>7. f.fanins[Len(f.stack)] \in Nat
  BY <1>1, <1>4, ElementOfSeq
<1>8. g = [f EXCEPT !.stack = above, !.fanins = Front(f.fanins)]
  BY <1>5 DEF PoppedLevel
<1> HIDE DEF g
<1>9. /\ g \in FrameRecords /\ g.stack = above /\ g.fanins = Front(f.fanins)
      /\ g.type = f.type /\ g.src = f.src /\ g.dst = f.dst /\ g.sub = f.sub
  BY <1>1, <1>2, <1>6, <1>8 DEF FrameRecords
<1>10. ChannelOf(g) = ChannelOf(f)
  BY <1>9 DEF ChannelOf
<1>11. g \in Frames
  BY <1>1, <1>6, <1>9, <1>10 DEF Frames
<1> QED BY <1>4, <1>7, <1>9, <1>10, <1>11 DEF g, above

LEMMA RequestKeeps ==
    ASSUME ForwardingInv, NEW R \in RouterNames, NEW p \in PortsOf(R), Request(R, p)
    PROVE  ForwardingInv'
<1> DEFINE f     == First(p)
           c     == ChannelOf(f)
           fanin == f.fanins[Len(f.stack)]
           slot  == slots[R][c]
           next  == [slot EXCEPT !.fanin = fanin, !.count = @ + f.count, !.from = @ \cup f.from]
           miss  == [f EXCEPT !.type = "AGG_MISS", !.stack = <<>>, !.fanins = <<>>]
           sum   == [PoppedLevel(f) EXCEPT !.count = next.count, !.from = next.from]
           ports == RequestPorts(R, p, f)
           On(g) == Pass(R, p, PortsOf(R), ports, g)
<1>1. /\ rings[p] # <<>> /\ f.type = "REQUEST" /\ Aggregates(R, f)
      /\ \/ On(PoppedLevel(f)) /\ slots' = slots
         \/ On(miss) /\ slots' = slots
         \/ /\ slots' = [slots EXCEPT ![R][c] = [next EXCEPT !.forwarded = next.count = fanin]]
            /\ On(sum) \/ Pass(R, p, PortsOf(R), <<>>, f)
  BY DEF Request, Waits
<1>2. f \in Frames /\ RequestStackFits(R, p, f)
  BY <1>1, FirstMayWait DEF ForwardingInv, MayWaitAt
<1>3. /\ fanin \in Nat /\ PoppedLevel(f) \in Frames /\ PoppedLevel(f).stack = Above(R)
      /\ PoppedLevel(f).type = "REQUEST" /\ ChannelOf(PoppedLevel(f)) = c /\ f.stack # <<>>
  BY <1>1, <1>2, PopTakesOwnLevel DEF ForwardingInv, Aggregates
<1>4. /\ c \in Chans /\ slot \in SlotRecords /\ f.count \in Nat /\ f.from \subseteq Ranks
      /\ f \in FrameRecords
  BY <1>2, ChannelFacts DEF ForwardingInv, SlotsInv, Frames, FrameRecords
<1>5. next \in SlotRecords /\ next.count \in Nat /\ next.from \subseteq Ranks
  <2>1. PICK old \in SlotRecords, i \in Nat, k \in Nat, s \in SUBSET Ranks :
          old = slot /\ i = fanin /\ k = f.count /\ s = f.from
    BY <1>3, <1>4
  <2>2. next = [old EXCEPT !.fanin = i, !.count = old.count + k, !.from = old.from \cup s]
    BY <2>1
  <2>3. old.count + k \in Nat /\ old.from \cup s \in SUBSET Ranks
    BY DEF SlotRecords
  <2> HIDE DEF next
  <2> QED BY <2>2, <2>3 DEF SlotRecords
<1>6. miss \in Frames /\ miss.type = "AGG_MISS"
  <2>1. <<>> \in Seq(RouterNames) /\ <<>> \in Seq(Nat)
    BY EmptySeq
  <2>2. miss \in FrameRecords /\ miss.type = "AGG_MISS" /\ ChannelOf(miss) = <<f.dst, f.sub>>
    <3> HIDE DEF f
    <3> QED BY <1>4, <2>1 DEF FrameRecords, FrameTypes, ChannelOf, FromResponder
  <2>3. ChannelOf(miss) = c
    BY <1>1, <2>2 DEF ChannelOf, FromResponder
  <2> HIDE DEF miss, c
  <2> QED BY <1>4, <2>2, <2>3 DEF Frames
<1>7. /\ sum \in Frames /\ sum.type = "REQUEST" /\ ChannelOf(sum) = c /\ sum.stack = Above(R)
  <2>1. PICK popped \in Frames : popped = PoppedLevel(f)
    BY <1>3
  <2>2. PICK k \in Nat, s \in SUBSET Ranks : k = next.count /\ s = next.from
    BY <1>5
  <2>3. sum = [popped EXCEPT !.count = k, !.from = s]
    BY <2>1, <2>2
  <2> HIDE DEF sum
  <2>4. /\ sum \in FrameRecords /\ sum.stack = popped.stack /\ sum.fanins = popped.fanins
        /\ sum.type = popped.type /\ sum.src = popped.src /\ sum.dst = popped.dst
        /\ sum.sub = popped.sub
    BY <2>3 DEF Frames, FrameRecords
  <2>5. ChannelOf(sum) = ChannelOf(popped)
    BY <2>4 DEF ChannelOf
  <2> QED BY <1>3, <2>1, <2>4, <2>5 DEF Frames
<1>8. slots' \in [RouterNames -> [Chans -> SlotRecords]]
  <2>1. PICK new : new = [next EXCEPT !.forwarded = next.count = fanin]
    OBVIOUS
  <2>2. new \in SlotRecords
    <3>1. (next.count = fanin) \in BOOLEAN
      OBVIOUS
    <3> HIDE DEF next, fanin
    <3> QED BY <1>5, <2>1, <3>1 DEF SlotRecords
  <2>3. slots \in [RouterNames -> [Chans -> SlotRecords]]
    BY DEF ForwardingInv, SlotsInv
  <2>4. slots' = slots \/ slots' = [slots EXCEPT ![R][c] = new]
    BY <1>1, <2>1
  <2> HIDE DEF c
  <2> QED BY <1>4, <2>2, <2>3, <2>4
<1>9. /\ Goes(ports, PoppedLevel(f)) /\ Goes(ports, miss) /\ Goes(ports, sum) /\ Goes(<<>>, f)
      /\ \E n \in Nat : DOMAIN ports = 1 .. n
  <2>1. ports = BypassPorts(R, p, c)
    BY DEF RequestPorts
  <2> HIDE DEF ports, miss, sum, c
  <2>2. Goes(ports, PoppedLevel(f))
    BY <1>2, <1>3, <2>1, RequestGoes DEF ForwardingInv, c
  <2>3. Goes(ports, sum)
    BY <1>2, <1>3, <1>7, <2>1, RequestGoes DEF ForwardingInv, c
  <2>4. Goes(ports, miss)
    BY <1>6, ControlGoes DEF ForwardingInv
  <2>5. Goes(<<>>, f)
    BY DEF Goes
  <2>6. \E n \in Nat : DOMAIN ports = 1 .. n
    BY <2>1, PortsAreSeqs DEF ForwardingInv
  <2> QED BY <2>2, <2>3, <2>4, <2>5, <2>6
<1>10. DOMAIN <<>> = 1 .. 0
  OBVIOUS
<1> HIDE DEF f, c, fanin, slot, next, miss, sum, ports
<1>11. CASE On(PoppedLevel(f))
  BY <1>8, <1>9, <1>11, PassSuffices
<1>12. CASE On(miss)
  BY <1>8, <1>9, <1>12, PassSuffices
<1>13. CASE On(sum)
  BY <1>8, <1>9, <1>13, PassSuffices
<1>14. CASE Pass(R, p, PortsOf(R), <<>>, f)
  BY <1>8, <1>9, <1>10, <1>14, PassSuffices
<1> QED BY <1>1, <1>11, <1>12, <1>13, <1>14

LEMMA SendKeeps ==
    ASSUME ForwardingInv, NEW f \in todo, Send(f)
    PROVE  ForwardingInv'
<1> DEFINE p == AccessOf(f)
<1>1. /\ todo' = todo \ {f} /\ UNCHANGED <<site, g_dev_rr, slots, heard, skipped>>
      /\ rings' = [rings EXCEPT ![p] = Queued(rings[p], f, 1)]
  BY DEF Send, AccessOf
<1>2. f \in MayBeSent /\ todo' \subseteq MayBeSent
  BY <1>1 DEF ForwardingInv, RingsInv
<1>3. DOMAIN rings' = UNION {PortsOf(R) : R \in RouterNames}
  BY <1>1 DEF ForwardingInv, RingsInv
<1>4. ASSUME NEW R \in RouterNames, NEW q \in PortsOf(R)
      PROVE  /\ rings'[q] \in Seq(MayWaitAt(R, q)) /\ Len(rings'[q]) < RingSize
             /\ rings'[q] = <<>> => rings[q] = <<>>
  <2>1. rings[q] \in Seq(MayWaitAt(R, q)) /\ Len(rings[q]) < RingSize /\ q \in DOMAIN rings
    BY DEF ForwardingInv, RingsInv
  <2>2. CASE q # p
    BY <1>1, <2>1, <2>2
  <2>3. CASE q = p
    <3>1. f \in MayWaitAt(R, q)
      BY <1>2, <2>3, SentMayWait DEF ForwardingInv
    <3>2. rings'[q] = Queued(rings[q], f, 1)
      BY <1>1, <2>1, <2>3
    <3>3. 1 \in Nat
      OBVIOUS
    <3>4. /\ Queued(rings[q], f, 1) \in Seq(MayWaitAt(R, q))
          /\ Len(Queued(rings[q], f, 1)) < RingSize
          /\ Queued(rings[q], f, 1) = <<>> => rings[q] = <<>>
      BY <2>1, <3>1, <3>3, QueuedKeeps
    <3> QED BY <3>2, <3>4
  <2> QED BY <2>2, <2>3
<1>5. SiteInv' /\ RingsInv' /\ SlotsInv' /\ IsABag(heard)'
  <2>1. SiteInv' /\ RingsInv'
    BY <1>1, <1>2, <1>3, <1>4, SameSite DEF ForwardingInv, RingsInv
  <2>2. SlotsInv'
    BY <1>1, SameSite DEF ForwardingInv, SlotsInv, SlotRecords
  <2>3. IsABag(heard)'
    BY <1>1 DEF ForwardingInv, IsABag
  <2> QED BY <2>1, <2>2, <2>3
<1>6. TurnInv'
  <2>1. DOMAIN g_dev_rr = RouterNames /\ g_dev_rr' = g_dev_rr /\ skipped' = skipped
    BY <1>1 DEF ForwardingInv, TurnInv
  <2>2. ASSUME NEW R \in RouterNames, NEW k \in 0 .. Len(Config(R).devs) - 1
        PROVE  LET q == Config(R).devs[k + 1]
               IN /\ skipped[q] \in Nat
                  /\ IF rings'[q] = <<>> THEN skipped[q] = 0
                     ELSE skipped[q] + Turns(R, k) < Len(Config(R).devs)
    <3> DEFINE q == Config(R).devs[k + 1]
               n == Len(Config(R).devs)
    <3>1. q \in PortsOf(R) /\ n \in Nat \ {0}
      BY DeviceFacts DEF ForwardingInv
    <3>2. /\ skipped[q] \in Nat
          /\ IF rings[q] = <<>> THEN skipped[q] = 0 ELSE skipped[q] + Turns(R, k) < n
          /\ g_dev_rr[R] \in 0 .. n - 1
      BY DEF ForwardingInv, TurnInv
    <3>3. Turns(R, k) \in 0 .. n - 1
      BY <3>1, <3>2 DEF Turns, Before
    <3>4. rings'[q] = <<>> => rings[q] = <<>>
      BY <1>4, <3>1
    <3> HIDE DEF q, n
    <3>5. skipped[q] + Turns(R, k) < n
      <4>1. n \in Nat
        BY <3>1 DEF n
      <4> QED BY <3>2, <3>3, <4>1
    <3> QED BY <3>2, <3>4, <3>5 DEF q, n
  <2> QED BY <1>1, <2>1, <2>2, SameSite DEF ForwardingInv, TurnInv, Turns
<1> QED BY <1>5, <1>6 DEF ForwardingInv

LEMMA FirstMayBeSent ==
    ASSUME SiteInv, NEW e \in work.exchanges
    PROVE  FirstFrames(e) \subseteq MayBeSent
<1> DEFINE h == e.channel[1]
           s == e.channel[2]
<1>1. /\ e.kind \in {"REGISTER", "REGISTER_ACK", "DATA", "END"} /\ e.channel \in Chans
      /\ h \in Ranks /\ s \in Subs /\ e.channel = <<h, s>>
  BY SiteFacts DEF Exchange, Chans, Channels
<1> HIDE DEF h, s
<1>2. ASSUME NEW type \in FrameTypes, NEW src \in Ranks, type \in FromResponder => src = h
      PROVE  /\ Frame(type, src, h, s) \in Frames
             /\ Frame(type, src, h, s).type = type /\ Frame(type, src, h, s).stack = <<>>
             /\ Frame(type, src, h, s).src = src /\ Frame(type, src, h, s).dst = h
  <2>1. ChannelOf(Frame(type, src, h, s)) = <<h, s>>
    BY <1>2 DEF ChannelOf, Frame
  <2>2. ChannelOf(Frame(type, src, h, s)) \in Chans
    BY <1>1, <2>1
  <2>3. Frame(type, src, h, s) \in Frames
    BY <1>1, <2>2, FrameIsOne
  <2> QED BY <2>3 DEF Frame
<1>3. \A type \in FrameTypes : \A src \in Ranks :
        (type \in FromResponder => src = h) /\ type # "REQUEST" => Frame(type, src, h, s) \in MayBeSent
  BY <1>2 DEF MayBeSent, FromResponder
<1>4. {"REGISTER", "REGISTER_ACK", "RESPONSE", "END"} \subseteq FrameTypes
  BY DEF FrameTypes
<1>5. RequestersOf(h) \subseteq Ranks
  BY DEF RequestersOf
<1>6. CASE e.kind = "REGISTER"
  <2>1. FirstFrames(e) = {Frame("REGISTER", r, h, s) : r \in RequestersOf(h)}
    BY <1>6 DEF FirstFrames, h, s
  <2> QED BY <1>3, <1>4, <1>5, <2>1 DEF FromResponder
<1>7. CASE e.kind = "REGISTER_ACK"
  <2>1. FirstFrames(e) = {Frame("REGISTER_ACK", h, h, s)}
    BY <1>7 DEF FirstFrames, h, s
  <2> QED BY <1>1, <1>3, <1>4, <2>1
<1>8. CASE e.kind = "DATA"
  <2>1. FirstFrames(e) = {Frame("RESPONSE", h, h, s)}
    BY <1>8 DEF FirstFrames, h, s
  <2> QED BY <1>1, <1>3, <1>4, <2>1
<1>9. CASE e.kind = "END"
  <2>1. FirstFrames(e) = {Frame("END", h, h, s)}
    BY <1>9 DEF FirstFrames, h, s
  <2> QED BY <1>1, <1>3, <1>4, <2>1
<1> QED BY <1>1, <1>6, <1>7, <1>8, <1>9

LEMMA ForwardingInvInit == Init => ForwardingInv
<1> SUFFICES ASSUME Init PROVE ForwardingInv
  OBVIOUS
<1>1. SiteInv
  BY DEF Init, SiteInv, Top
<1>2. RingsInv
  <2>1. \A R \in RouterNames : \A p \in PortsOf(R) : rings[p] = <<>>
    BY DEF Init
  <2>2. 0 < RingSize /\ Len(<<>>) = 0 /\ \A M : <<>> \in Seq(M)
    BY ForwardingAssumption, EmptySeq
  <2>3. todo \subseteq MayBeSent
    BY <1>1, FirstMayBeSent DEF Init
  <2>4. DOMAIN rings = UNION {PortsOf(R) : R \in RouterNames}
    BY DEF Init
  <2> QED BY <2>1, <2>2, <2>3, <2>4 DEF RingsInv
<1>3. SlotsInv
  <2>1. NoSlot \in SlotRecords
    BY DEF NoSlot, SlotRecords
  <2> QED BY <2>1 DEF Init, SlotsInv, Chans
<1>4. IsABag(heard)
  <2>1. heard = EmptyBag
    BY DEF Init
  <2> QED BY <2>1 DEF EmptyBag, SetToBag, IsABag
<1>5. TurnInv
  <2>1. \A R \in RouterNames : g_dev_rr[R] = 0
    BY DEF Init
  <2>2. \A R \in RouterNames : \A k \in 0 .. Len(Config(R).devs) - 1 :
          LET p == Config(R).devs[k + 1] IN rings[p] = <<>> /\ skipped[p] = 0
    <3>1. \A p \in Ports : rings[p] = <<>> /\ skipped[p] = 0
      BY DEF Init, Ports
    <3> QED BY <1>1, <1>2, <3>1, DeviceFacts DEF RingsInv, Ports
  <2>3. \A R \in RouterNames : 0 \in 0 .. Len(Config(R).devs) - 1
    BY <1>1, DeviceFacts
  <2>4. DOMAIN g_dev_rr = RouterNames
    BY DEF Init
  <2> QED BY <2>1, <2>2, <2>3, <2>4 DEF TurnInv
<1> QED BY <1>1, <1>2, <1>3, <1>4, <1>5 DEF ForwardingInv

LEMMA ForwardingInvNext == ForwardingInv /\ [Next]_vars => ForwardingInv'
<1> SUFFICES ASSUME ForwardingInv, [Next]_vars PROVE ForwardingInv'
  OBVIOUS
<1>1. CASE SendSome
  BY <1>1, SendKeeps DEF SendSome
<1>2. ASSUME NEW R \in RouterNames, INC(R)
      PROVE  ForwardingInv'
  <2>1. PICK p \in PortsOf(R) :
          \/ MulticastControl(R, p) \/ MulticastResponse(R, p)
          \/ Bypass(R, p) \/ Request(R, p)
    BY <1>2 DEF INC
  <2>2. CASE MulticastControl(R, p)
    BY <2>2, MulticastControlKeeps
  <2>3. CASE MulticastResponse(R, p)
    BY <2>3, MulticastResponseKeeps
  <2>4. CASE Bypass(R, p)
    BY <2>4, BypassKeeps
  <2>5. CASE Request(R, p)
    BY <2>5, RequestKeeps
  <2> QED BY <2>1, <2>2, <2>3, <2>4, <2>5
<1>3. CASE UNCHANGED vars
  <2>1. UNCHANGED <<site, todo, rings, g_dev_rr, slots, heard, skipped>>
    BY <1>3 DEF vars
  <2>2. SiteInv' /\ RingsInv'
    BY <2>1, SameSite DEF ForwardingInv, RingsInv
  <2>3. SlotsInv' /\ IsABag(heard)'
    BY <2>1, SameSite DEF ForwardingInv, SlotsInv, SlotRecords, IsABag
  <2>4. TurnInv'
    BY <2>1, SameSite DEF ForwardingInv, TurnInv, Turns
  <2> QED BY <2>2, <2>3, <2>4 DEF ForwardingInv
<1> QED BY <1>1, <1>2, <1>3 DEF Next

LEMMA ForwardingInvHolds == Spec => []ForwardingInv
BY ForwardingInvInit, ForwardingInvNext, PTL DEF Spec

-----------------------------------------------------------------------------
(* For whom a frame is under way.                                          *)

Reach(p, c) == IF <<p, c>> \in DOMAIN Top.reach THEN Top.reach[<<p, c>>] ELSE {}

\* A request that finds its slot taken over goes on as an AGG_MISS.
Class(f) == IF f.type \in {"REQUEST", "AGG_MISS"} THEN "ANSWER" ELSE f.type
Classes  == {"REGISTER", "REGISTER_ACK", "RESPONSE", "END", "END_ACK", "ANSWER"}

\* The hosts a frame stands for where a multicast reaches hosts: those that
\* are to hear it, or those it comes from.
Stands(f, hosts) ==
    CASE f.type = "RESPONSE"                -> hosts
      [] f.type \in {"REGISTER_ACK", "END"} -> hosts \ {f.src}
      [] f.type \in {"REQUEST", "AGG_MISS"} -> f.from
      [] f.type \in {"REGISTER", "END_ACK"} -> {f.src}

StandsFor(f, hosts, k, c, h) == Class(f) = k /\ ChannelOf(f) = c /\ h \in Stands(f, hosts)

InTodo(k, c, h) == {f \in todo : StandsFor(f, Reach(AccessOf(f), c), k, c, h)}
InRings(k, c, h) ==
    {z \in Ports \X (1 .. RingSize) :
        z[2] \in DOMAIN rings[z[1]] /\ StandsFor(rings[z[1]][z[2]], Reach(z[1], c), k, c, h)}
InHeard(k, c, h) == {x \in BagToSet(heard) : StandsFor(x.frame, {x.at}, k, c, h)}
InSlots(k, c, h) ==
    {R \in RouterNames : k = "ANSWER" /\ ~slots[R][c].forwarded /\ h \in slots[R][c].from}

\* At most one frame or slot has a part of an exchange.
NoneOf(t, g, b, s) == t = {} /\ g = {} /\ b = {} /\ s = {}
OneOf(t, g, b, s) ==
    \/ NoneOf(t, g, b, s)
    \/ g = {} /\ b = {} /\ s = {} /\ \E f : t = {f}
    \/ t = {} /\ b = {} /\ s = {} /\ \E z : g = {z}
    \/ t = {} /\ g = {} /\ s = {} /\ \E x : b = {x} /\ heard[x] = 1
    \/ t = {} /\ g = {} /\ b = {} /\ \E R : s = {R}

Single(k, c, h) == OneOf(InTodo(k, c, h), InRings(k, c, h), InHeard(k, c, h), InSlots(k, c, h))
Held(k, c, h)   == ~NoneOf(InTodo(k, c, h), InRings(k, c, h), InHeard(k, c, h), InSlots(k, c, h))
HasHeard(k, c, h) == InHeard(k, c, h) # {}

SingleInv == \A k \in Classes : \A c \in Chans : \A h \in Ranks : Single(k, c, h)

\* A host answers only what it has heard.
BornInv ==
    \A c \in Chans : \A h \in Ranks :
        /\ Held("END_ACK", c, h) => HasHeard("END", c, h)
        /\ Held("ANSWER", c, h) => HasHeard("RESPONSE", c, h)
        /\ \A R \in RouterNames : h \in slots[R][c].from => HasHeard("RESPONSE", c, h)

\* Unless a ring was full, nothing gets lost.
KeptInv ==
    ~dropped =>
        /\ \A e \in work.exchanges : \A r \in RequestersOf(e.channel[1]) :
             /\ e.kind = "REGISTER" => Held("REGISTER", e.channel, r)
             /\ \A type \in MulticastsOf(e) : Held(type, e.channel, r)
        /\ \A c \in Chans : \A r \in RequestersOf(c[1]) :
             HasHeard("END", c, r) => Held("END_ACK", c, r)

\* Nor does a contribution.
AnswersKept ==
    ~dropped => \A c \in Chans : \A r \in RequestersOf(c[1]) :
                  HasHeard("RESPONSE", c, r) => Held("ANSWER", c, r)

\* Where frames are, and whose.
OfRequester(f) == f.src \in RequestersOf(f.dst) /\ f.from # {}
Sane(f) == f.type \notin FromResponder => OfRequester(f)

OnWay(R, p, f) ==
    LET c == ChannelOf(f)
    IN /\ Sane(f)
       /\ IF f.type \in FromResponder THEN <<p, c>> \in DOMAIN Top.reach ELSE Routed(fabric, R, c)

WaysInv ==
    /\ \A f \in todo : Sane(f)
    /\ \A R \in RouterNames : \A p \in PortsOf(R) : \A i \in DOMAIN rings[p] : OnWay(R, p, rings[p][i])
    /\ \A x \in BagToSet(heard) :
         /\ x.at \in Ranks /\ x.frame \in Frames /\ Sane(x.frame)
         /\ x.frame.type \in FromResponder \ {"RESPONSE"} => x.at # x.frame.src
         /\ x.frame.type \notin FromResponder => x.at = x.frame.dst

-----------------------------------------------------------------------------
U(R, c) == Under(fabric, Top, R, c)
LevelsOf(c) == Levels(fabric, c)

SlotFits(R, c) ==
    LET slot == slots[R][c]
    IN /\ slot.count = Cardinality(slot.from)
       /\ R \in LevelsOf(c) => slot.from \subseteq U(R, c)
       /\ R \notin LevelsOf(c) => slot.from = {}
       /\ slot.forwarded => slot.from = U(R, c)
       /\ ~slot.forwarded /\ slot.from # {} =>
            /\ slot.fanin = Cardinality(U(R, c)) /\ slot.from # U(R, c)
            /\ \A Q \in LevelsOf(c) :
                 \/ U(Q, c) \subseteq slot.from \/ U(Q, c) \cap slot.from = {}
                 \/ Q = R \/ Q \in Range(Above(R))

\* The slots a stack names are bound, and everyone who is to come back by it
\* is under them and not yet there.
Binds(c, stack, hosts) ==
    \A i \in DOMAIN stack :
        /\ stack[i] \in LevelsOf(c) /\ hosts \subseteq U(stack[i], c)
        /\ Len(Above(stack[i])) = i - 1
        /\ slots[stack[i]][c].bound = (stack[i] \notin work.lost)

RequestFits(f) ==
    LET c == ChannelOf(f)
    IN /\ f.from # {} /\ f.from \subseteq RequestersOf(c[1])
       /\ f.type = "AGG_MISS" => work.lost # {}
       /\ f.type = "REQUEST" =>
            /\ f.count = Cardinality(f.from)
            /\ f.stack = <<>> => f.from = RequestersOf(c[1])
            /\ Binds(c, f.stack, f.from)
            /\ \A i \in DOMAIN f.stack :
                 /\ f.from \cap slots[f.stack[i]][c].from = {}
                 /\ f.fanins[i] = Cardinality(U(f.stack[i], c))
            /\ \A Q \in LevelsOf(c) :
                 \/ U(Q, c) \subseteq f.from \/ U(Q, c) \cap f.from = {}
                 \/ Q \in Range(f.stack)

FitsAt(p, f) ==
    /\ f.type = "RESPONSE" => Binds(ChannelOf(f), f.stack, Reach(p, ChannelOf(f)) \ {f.src})
    /\ Class(f) = "ANSWER" => RequestFits(f)
HeardFits(f) == Class(f) = "ANSWER" => RequestFits(f) /\ (f.type = "REQUEST" => f.stack = <<>>)

DataInv ==
    /\ \A R \in RouterNames : \A c \in Chans : SlotFits(R, c)
    /\ \A f \in todo : Class(f) = "ANSWER" => RequestFits(f)
    /\ \A x \in BagToSet(heard) : HeardFits(x.frame)
    /\ \A p \in Ports : \A i \in DOMAIN rings[p] : FitsAt(p, rings[p][i])
-----------------------------------------------------------------------------
(* The ways there are.                                                     *)

LEMMA WayFacts ==
    ASSUME SiteInv
    PROVE  /\ \A x \in DOMAIN Top.reach : x = <<x[1], x[2]>> /\ \E R \in RouterNames : x[1] \in PortsOf(R)
           /\ \A c \in Channels :
                /\ StartsAbove(Top, c) /\ StartsRouted(fabric, Top, c)
                /\ \A R \in RouterNames :
                     /\ LeadsOn(fabric, Top, R, c)
                     /\ \A p \in PortsOf(R) :
                          <<p, c>> \in DOMAIN Top.reach => Spreads(fabric, Top, R, c, p)
                /\ \A R \in LevelsOf(c) : Nested(fabric, Top, R, c) /\ PlannedFor(fabric, Top, R, c)
           /\ \A R \in RouterNames : \A c \in DOMAIN Config(R).tree : Delivers(fabric, Top, R, c)
<1>1. WellMade(Top)
  BY WorkloadsAssumption, TopologiesAssumption DEF SiteInv, Top
<1>2. fabric = Load(Top.file) /\ fabric.ok
  BY DEF SiteInv
<1>3. DOMAIN Top.reach \subseteq (UNION {PortsIn(fabric, R) : R \in DOMAIN fabric.routers}) \X Channels
  BY <1>1, <1>2 DEF WellMade
<1>4. \A x \in DOMAIN Top.reach : x = <<x[1], x[2]>> /\ \E R \in DOMAIN fabric.routers : x[1] \in PortsIn(fabric, R)
  <2> DEFINE all == UNION {PortsIn(fabric, R) : R \in DOMAIN fabric.routers}
  <2>1. DOMAIN Top.reach \subseteq all \X Channels
    BY <1>3
  <2> HIDE DEF all
  <2>2. \A x \in DOMAIN Top.reach : x = <<x[1], x[2]>> /\ x[1] \in all
    BY <2>1
  <2> QED BY <2>2 DEF all
<1>5. \A c \in Channels :
        /\ StartsAbove(Top, c) /\ StartsRouted(fabric, Top, c)
        /\ \A R \in DOMAIN fabric.routers :
             /\ LeadsOn(fabric, Top, R, c)
             /\ \A p \in PortsIn(fabric, R) :
                  <<p, c>> \in DOMAIN Top.reach => Spreads(fabric, Top, R, c, p)
        /\ \A R \in Levels(fabric, c) : Nested(fabric, Top, R, c) /\ PlannedFor(fabric, Top, R, c)
  BY <1>1, <1>2 DEF WellMade
<1>6. \A R \in DOMAIN fabric.routers : \A c \in DOMAIN fabric.routers[R].tree :
        Delivers(fabric, Top, R, c)
  BY <1>1, <1>2 DEF WellMade
<1> QED BY <1>4, <1>5, <1>6 DEF RouterNames, PortsOf, PortsIn, Config, LevelsOf

\* The ports a multicast goes out on are different devices of the router.
LEMMA McastPortsFacts ==
    ASSUME SiteInv, NEW R \in RouterNames, NEW p, NEW c
    PROVE  /\ Range(McastPorts(R, p, c)) = McastFrom(fabric, R, c, p)
           /\ Injective(McastPorts(R, p, c))
           /\ Range(McastPorts(R, p, c)) \subseteq PortsOf(R)
<1>1. PICK S : RouterSound(Config(R), S)
  BY SiteFacts DEF TablesSound, RouterNames, Config
<1>2. \A x : Range(<<x>>) = {x} /\ Injective(<<x>>)
  BY DEF Range, Injective
<1>3. Range(<<>>) = {} /\ Injective(<<>>)
  BY DEF Range, Injective
<1>4. CASE ~InTree(R, c)
  <2>1. McastPorts(R, p, c) = <<>> /\ McastFrom(fabric, R, c, p) = {}
    BY <1>4 DEF McastPorts, McastFrom, FromParent, InTree, Within, Config
  <2> QED BY <1>3, <2>1
<1>5. CASE InTree(R, c) /\ ~FromParent(R, c, p)
  <2>1. /\ McastPorts(R, p, c) = <<TreeAt(R, c).up>>
        /\ McastFrom(fabric, R, c, p) = {TreeAt(R, c).up}
    BY <1>5 DEF McastPorts, McastFrom, FromParent, InTree, Within, Config, TreeAt, NodeIn
  <2>2. TreeAt(R, c).up \in PortsOf(R)
    BY <1>1, <1>5 DEF RouterSound, InTree, TreeAt, PortsOf
  <2> QED BY <1>2, <2>1, <2>2
<1>6. CASE InTree(R, c) /\ FromParent(R, c, p)
  <2>1. /\ McastPorts(R, p, c) = McastOf(Config(R), c)
        /\ McastFrom(fabric, R, c, p) = Range(McastOf(Config(R), c))
    BY <1>6 DEF McastPorts, McastFrom, FromParent, InTree, Within, Config, TreeAt, NodeIn
  <2>2. CASE c \in DOMAIN Config(R).mcast
    <3>1. /\ McastOf(Config(R), c) = Config(R).mcast[c]
          /\ Injective(Config(R).mcast[c]) /\ Range(Config(R).mcast[c]) \subseteq PortsOf(R)
      BY <1>1, <2>2 DEF RouterSound, McastOf, PortsOf
    <3> QED BY <2>1, <3>1
  <2>3. CASE c \notin DOMAIN Config(R).mcast
    BY <1>3, <2>1, <2>3 DEF McastOf
  <2> QED BY <2>2, <2>3
<1> QED BY <1>4, <1>5, <1>6

\* The copy of g that leaves on ports[i] stands for h at its other end.
CopyFor(devices, ports, g, c, i, h) ==
    /\ i \in DOMAIN ports /\ ports[i] \in devices
    /\ \/ \E q \in Ports : LinkOf(ports[i]) = <<"port", q>> /\ h \in Stands(g, Reach(q, c))
       \/ \E b \in Ranks : LinkOf(ports[i]) = <<"host", b>> /\ h \in Stands(g, {b})

\* One copy stands for h, or none.
Copied(devices, ports, g, c, h) == \E i \in DOMAIN ports : CopyFor(devices, ports, g, c, i, h)
CopiedOnce(devices, ports, g, c, h) ==
    \A i, j \in DOMAIN ports :
        CopyFor(devices, ports, g, c, i, h) /\ CopyFor(devices, ports, g, c, j, h) => i = j

\* Where copies come in.
Arrive(devices, ports, g) ==
    \A i \in DOMAIN ports : ports[i] \in devices =>
        /\ \A Q \in RouterNames : \A q \in PortsOf(Q) :
             LinkOf(ports[i]) = <<"port", q>> => OnWay(Q, q, g)
        /\ \A b \in Ranks : LinkOf(ports[i]) = <<"host", b>> =>
             /\ g.type \in FromResponder \ {"RESPONSE"} => b # g.src
             /\ g.type \notin FromResponder => b = g.dst

LEMMA MulticastChannel ==
    ASSUME NEW g \in Frames, g.type \in FromResponder
    PROVE  /\ ChannelOf(g) = <<g.src, g.sub>> /\ ChannelOf(g)[1] = g.src
           /\ ChannelOf(g) \in Chans
           /\ \A hosts : Stands(g, hosts) = IF g.type = "RESPONSE" THEN hosts ELSE hosts \ {g.src}
<1>1. ChannelOf(g) = <<g.src, g.sub>>
  BY DEF ChannelOf
<1>2. \A hosts : Stands(g, hosts) = IF g.type = "RESPONSE" THEN hosts ELSE hosts \ {g.src}
  BY DEF Stands, FromResponder
<1> QED BY <1>1, <1>2 DEF Frames

\* A multicast is passed on to everyone it is to reach once, and to no one
\* else.
LEMMA SpreadCopies ==
    ASSUME SiteInv, DOMAIN rings = UNION {PortsOf(R) : R \in RouterNames},
           NEW R \in RouterNames, NEW p \in PortsOf(R),
           NEW g \in Frames, g.type \in FromResponder, NEW c, c = ChannelOf(g), c \in Channels,
           <<p, c>> \in DOMAIN Top.reach,
           NEW devices, devices = IF g.type # "RESPONSE" /\ FromParent(R, c, p)
                                  THEN PortsOf(R) \ {p} ELSE PortsOf(R),
           NEW ports, ports = McastPorts(R, p, c)
    PROVE  /\ \A h \in Ranks : Copied(devices, ports, g, c, h) <=> h \in Stands(g, Reach(p, c))
           /\ \A h \in Ranks : CopiedOnce(devices, ports, g, c, h)
           /\ Arrive(devices, ports, g)
<1> DEFINE out == McastFrom(fabric, R, c, p)
           turned(q) == InTree(R, c) /\ FromParent(R, c, p) /\ q = p
           behind(q) == Behind(Top, q, c)
<1>1. /\ c[1] = g.src
      /\ \A hosts : Stands(g, hosts) = IF g.type = "RESPONSE" THEN hosts ELSE hosts \ {c[1]}
  BY MulticastChannel
<1>2. /\ Top.reach[<<p, c>>] = UNION {behind(q) : q \in out}
      /\ \A q, z \in out : q # z => behind(q) \cap behind(z) = {}
      /\ \A q \in out :
           /\ \/ \E x \in DOMAIN Top.reach : x[2] = c /\ LinkOf(q) = <<"port", x[1]>>
              \/ \E h \in Ranks : LinkOf(q) = <<"host", h>>
           /\ turned(q) <=> LinkOf(q) = <<"host", c[1]>>
  <2>1. Spreads(fabric, Top, R, c, p)
    BY WayFacts
  <2>2. \A q : LinkOf(q) = Top.links[q]
    BY DEF LinkOf, SiteInv
  <2>3. \A q : turned(q) <=> (Within(fabric, R, c) /\ p = NodeIn(fabric, R, c).down /\ q = p)
    BY DEF InTree, FromParent, TreeAt, Within, NodeIn, Config
  <2> QED BY <2>1, <2>2, <2>3 DEF Spreads
<1>3. /\ Range(ports) = out /\ Injective(ports) /\ out \subseteq PortsOf(R)
  BY McastPortsFacts
<1>4. \A i \in DOMAIN ports : ports[i] \in out
  BY <1>3 DEF Range
<1>5. \A q \in out : behind(q) \subseteq Ranks
  BY DEF Behind
<1>6. \A x \in DOMAIN Top.reach : x = <<x[1], x[2]>> /\ x[1] \in Ports
  <2>1. \A Q \in RouterNames : \A q \in PortsOf(Q) : q \in Ports
    BY DEF Ports
  <2>2. \A x \in DOMAIN Top.reach : x = <<x[1], x[2]>> /\ \E Q \in RouterNames : x[1] \in PortsOf(Q)
    BY WayFacts
  <2> QED BY <2>1, <2>2
<1>7. ASSUME NEW q \in out, NEW h \in Ranks
      PROVE  h \in behind(q) <=>
               \/ LinkOf(q) = <<"host", h>>
               \/ \E z \in Ports : LinkOf(q) = <<"port", z>> /\ h \in Reach(z, c)
  <2>1. LinkOf(q) = Top.links[q]
    BY DEF LinkOf, SiteInv
  <2>2. \A z : h \in Reach(z, c) <=> <<z, c>> \in DOMAIN Top.reach /\ h \in Top.reach[<<z, c>>]
    BY DEF Reach
  <2>3. (\E x \in DOMAIN Top.reach : x[2] = c /\ LinkOf(q) = <<"port", x[1]>> /\ h \in Top.reach[x])
          <=> \E z \in Ports : LinkOf(q) = <<"port", z>> /\ h \in Reach(z, c)
    BY <1>6, <2>2
  <2> QED BY <2>1, <2>3 DEF Behind
<1> HIDE DEF out, behind
<1>8. ASSUME NEW i \in DOMAIN ports, NEW h \in Ranks
      PROVE  CopyFor(devices, ports, g, c, i, h) <=>
               ports[i] \in devices /\ h \in behind(ports[i]) /\ (g.type = "RESPONSE" \/ h # c[1])
  <2>1. \A hosts : h \in Stands(g, hosts) <=> h \in hosts /\ (g.type = "RESPONSE" \/ h # c[1])
    BY <1>1
  <2>2. ports[i] \in out
    BY <1>4
  <2>3. \A b : h \in {b} <=> b = h
    OBVIOUS
  <2> QED BY <1>7, <2>1, <2>2, <2>3 DEF CopyFor
<1>9. \A i \in DOMAIN ports : ports[i] \in devices <=> ~(g.type # "RESPONSE" /\ turned(ports[i]))
  BY <1>3, <1>4 DEF FromParent
<1>10. ASSUME NEW h \in Ranks
       PROVE  Copied(devices, ports, g, c, h) <=> h \in Stands(g, Reach(p, c))
  <2>1. h \in Reach(p, c) <=> \E q \in out : h \in behind(q)
    BY <1>2 DEF Reach
  <2>2. h \in Stands(g, Reach(p, c)) <=> h \in Reach(p, c) /\ (g.type = "RESPONSE" \/ h # c[1])
    BY <1>1
  <2>3. (\E q \in out : h \in behind(q)) <=> \E i \in DOMAIN ports : h \in behind(ports[i])
    BY <1>3, <1>4 DEF Range
  <2>4. ASSUME NEW i \in DOMAIN ports, h \in behind(ports[i]), g.type # "RESPONSE", h # c[1]
        PROVE  ~turned(ports[i])
    <3>1. turned(ports[i]) => LinkOf(ports[i]) = <<"host", c[1]>>
      BY <1>2, <1>4
    <3>2. LinkOf(ports[i]) # <<"host", c[1]>>
      BY <1>4, <1>7, <2>4
    <3> QED BY <3>1, <3>2
  <2> QED BY <1>8, <1>9, <2>1, <2>2, <2>3, <2>4 DEF Copied
<1>11. ASSUME NEW h \in Ranks
       PROVE  CopiedOnce(devices, ports, g, c, h)
  <2> SUFFICES ASSUME NEW i \in DOMAIN ports, NEW j \in DOMAIN ports,
                      h \in behind(ports[i]), h \in behind(ports[j])
               PROVE  i = j
    BY <1>8 DEF CopiedOnce
  <2>1. ports[i] = ports[j]
    BY <1>2, <1>4
  <2> QED BY <1>3, <2>1 DEF Injective
<1>12. Arrive(devices, ports, g)
  <2> SUFFICES ASSUME NEW i \in DOMAIN ports, ports[i] \in devices
               PROVE  /\ \A Q \in RouterNames : \A q \in PortsOf(Q) :
                           LinkOf(ports[i]) = <<"port", q>> => OnWay(Q, q, g)
                      /\ \A b \in Ranks : LinkOf(ports[i]) = <<"host", b>> /\ g.type # "RESPONSE" => b # g.src
    BY DEF Arrive
  <2>1. ASSUME NEW Q \in RouterNames, NEW q \in PortsOf(Q), LinkOf(ports[i]) = <<"port", q>>
        PROVE  <<q, c>> \in DOMAIN Top.reach
    <3>1. ~\E h \in Ranks : LinkOf(ports[i]) = <<"host", h>>
      BY <2>1
    <3>2. PICK x \in DOMAIN Top.reach : x[2] = c /\ LinkOf(ports[i]) = <<"port", x[1]>>
      BY <1>2, <1>4, <3>1
    <3>3. x[1] = q
      BY <2>1, <3>2
    <3> QED BY <1>6, <3>2, <3>3
  <2>2. ASSUME NEW b \in Ranks, LinkOf(ports[i]) = <<"host", b>>, g.type # "RESPONSE", b = g.src
        PROVE  FALSE
    BY <1>1, <1>2, <1>4, <1>9, <2>2
  <2> QED BY <2>1, <2>2 DEF OnWay, Sane
<1> QED BY <1>10, <1>11, <1>12

\* What goes to the responder leaves on one port, towards it.
LEMMA LeadCopies ==
    ASSUME SiteInv, DOMAIN rings = UNION {PortsOf(R) : R \in RouterNames},
           NEW R \in RouterNames, NEW p \in PortsOf(R),
           NEW g \in Frames, g.type \notin FromResponder, NEW c, c = ChannelOf(g), c \in Channels,
           Routed(fabric, R, c), Sane(g),
           NEW ports, ports = BypassPorts(R, p, c)
    PROVE  /\ \A h \in Ranks : Copied(PortsOf(R), ports, g, c, h) <=> h \in Stands(g, {})
           /\ \A h \in Ranks : CopiedOnce(PortsOf(R), ports, g, c, h)
           /\ Arrive(PortsOf(R), ports, g)
           /\ \A i \in DOMAIN ports : (ports[i] = TreeAt(R, c).up /\ InTree(R, c)) \/ ports[i] = Config(R).route[c]
<1>1. /\ c = <<g.dst, g.sub>> /\ c[1] = g.dst /\ g.dst \in Ranks
      /\ \A hosts : Stands(g, hosts) = Stands(g, {})
  BY DEF ChannelOf, Frames, FrameRecords, FrameTypes, FromResponder, Stands
<1>2. PICK q : /\ ports = <<q>>
               /\ (q = TreeAt(R, c).up /\ InTree(R, c)) \/ q = Config(R).route[c]
  BY DEF BypassPorts, Routed, Config
<1>3. q \in PortsOf(R)
  <2>1. PICK S : RouterSound(Config(R), S)
    BY SiteFacts DEF TablesSound, RouterNames, Config
  <2> QED BY <1>2, <2>1 DEF RouterSound, Routed, Config, PortsOf, TreeAt, InTree
<1>4. \/ LinkOf(q) = <<"host", c[1]>>
      \/ \E Q \in RouterNames : \E z \in PortsOf(Q) : LinkOf(q) = <<"port", z>> /\ Routed(fabric, Q, c)
  <2>1. LeadsOn(fabric, Top, R, c)
    BY WayFacts
  <2>2. q \in {fabric.routers[R].route[c]} \cup
               (IF Within(fabric, R, c) THEN {NodeIn(fabric, R, c).up} ELSE {})
    BY <1>2 DEF Within, InTree, TreeAt, NodeIn, Config
  <2>3. LinkOf(q) = Top.links[q]
    BY DEF LinkOf, SiteInv
  <2> QED BY <2>1, <2>2, <2>3 DEF LeadsOn, RouterNames, PortsOf, PortsIn, Config
<1>5. DOMAIN ports = {1} /\ ports[1] = q
  BY <1>2
<1>6. ASSUME NEW h \in Ranks
      PROVE  CopyFor(PortsOf(R), ports, g, c, 1, h) <=> h \in Stands(g, {})
  <2>1. \A z : Stands(g, Reach(z, c)) = Stands(g, {}) /\ Stands(g, {z}) = Stands(g, {})
    BY <1>1
  <2>2. \/ \E b \in Ranks : LinkOf(q) = <<"host", b>>
        \/ \E z \in Ports : LinkOf(q) = <<"port", z>>
    BY <1>1, <1>4 DEF Ports
  <2> QED BY <1>3, <1>5, <2>1, <2>2 DEF CopyFor
<1>7. Arrive(PortsOf(R), ports, g)
  <2>1. ASSUME NEW Q \in RouterNames, NEW z \in PortsOf(Q), LinkOf(q) = <<"port", z>>
        PROVE  OnWay(Q, z, g)
    <3>1. PICK T \in RouterNames : z \in PortsOf(T) /\ Routed(fabric, T, c)
      BY <1>4, <2>1
    <3>2. T = Q
      BY <3>1, OneRouterPerPort
    <3> QED BY <3>1, <3>2 DEF OnWay
  <2>2. \A b \in Ranks : LinkOf(q) = <<"host", b>> => b = g.dst
    BY <1>1, <1>4
  <2> QED BY <1>5, <2>1, <2>2 DEF Arrive
<1> QED BY <1>2, <1>5, <1>6, <1>7 DEF Copied, CopiedOnce

-----------------------------------------------------------------------------
(* What a step of a router does to the frames that are under way.          *)

LEMMA CopiesFacts ==
    ASSUME NEW devices, NEW ports, NEW n \in Nat, DOMAIN ports = 1 .. n, NEW end
    PROVE  /\ Copies(devices, ports, end) \in Nat
           /\ Copies(devices, ports, end) > 0 <=>
                \E i \in DOMAIN ports : LinkOf(ports[i]) = end /\ ports[i] \in devices
           /\ Copies(devices, ports, end) > 1 =>
                \E i, j \in DOMAIN ports :
                    /\ i # j /\ LinkOf(ports[i]) = end /\ ports[i] \in devices
                    /\ LinkOf(ports[j]) = end /\ ports[j] \in devices
<1> DEFINE these == {i \in DOMAIN ports : LinkOf(ports[i]) = end /\ ports[i] \in devices}
<1>1. IsFiniteSet(these)
  <2>1. IsFiniteSet(1 .. n)
    BY FS_Interval
  <2> QED BY <2>1, FS_Subset
<1>2. Copies(devices, ports, end) = Cardinality(these)
  BY DEF Copies
<1>3. \A i : i \in these <=> i \in DOMAIN ports /\ LinkOf(ports[i]) = end /\ ports[i] \in devices
  OBVIOUS
<1> HIDE DEF these
<1>4. Cardinality(these) \in Nat /\ (Cardinality(these) = 0 <=> these = {})
  BY <1>1, FS_CardinalityType, FS_EmptySet
<1>5. Cardinality(these) > 1 => \E i, j \in these : i # j
  <2> SUFFICES ASSUME \A i, j \in these : i = j, these # {} PROVE Cardinality(these) = 1
    BY <1>4
  <2>1. PICK i : i \in these
    OBVIOUS
  <2>2. these = {i}
    BY <2>1
  <2> QED BY <2>2, FS_Singleton
<1> QED BY <1>2, <1>3, <1>4, <1>5

LEMMA QueuedFacts ==
    ASSUME NEW M, NEW ring \in Seq(M), Len(ring) < RingSize, NEW f, NEW copies \in Nat,
           NEW new, new = Queued(ring, f, copies)
    PROVE  /\ Len(ring) \in Nat /\ DOMAIN ring = 1 .. Len(ring)
           /\ Len(new) \in Nat /\ DOMAIN new = 1 .. Len(new) /\ Len(new) < RingSize
           /\ Len(ring) <= Len(new) /\ Len(new) <= Len(ring) + copies
           /\ \A j \in 1 .. Len(ring) : new[j] = ring[j]
           /\ \A j \in Len(ring) + 1 .. Len(new) : new[j] = f
           /\ Len(ring) + copies < RingSize => Len(new) = Len(ring) + copies
<1> DEFINE room == RingSize - 1 - Len(ring)
           k    == IF copies < room THEN copies ELSE room
           more == [i \in 1 .. k |-> f]
<1>1. Len(ring) \in Nat /\ RingSize \in Nat /\ DOMAIN ring = 1 .. Len(ring)
  BY LenProperties, ForwardingAssumption
<1>2. /\ k \in Nat /\ Len(ring) + k < RingSize /\ k <= copies
      /\ Len(ring) + copies < RingSize => k = copies
  BY <1>1
<1> HIDE DEF k
<1>3. more \in Seq(M \cup {f}) /\ Len(more) = k /\ \A i \in 1 .. k : more[i] = f
  BY <1>2
<1> HIDE DEF more
<1>4. ring \in Seq(M \cup {f})
  BY <1>1
<1>5. /\ ring \o more \in Seq(M \cup {f}) /\ Len(ring \o more) = Len(ring) + k
      /\ \A j \in 1 .. Len(ring) : (ring \o more)[j] = ring[j]
      /\ \A j \in Len(ring) + 1 .. Len(ring) + k : (ring \o more)[j] = more[j - Len(ring)]
  <2>1. /\ ring \o more \in Seq(M \cup {f}) /\ Len(ring \o more) = Len(ring) + Len(more)
        /\ \A j \in 1 .. Len(ring) + Len(more) :
             (ring \o more)[j] = IF j <= Len(ring) THEN ring[j] ELSE more[j - Len(ring)]
    BY <1>3, <1>4, ConcatProperties
  <2>2. \A j \in 1 .. Len(ring) : j \in 1 .. Len(ring) + k /\ j <= Len(ring)
    BY <1>1, <1>2
  <2>3. \A j \in Len(ring) + 1 .. Len(ring) + k : j \in 1 .. Len(ring) + k /\ ~(j <= Len(ring))
    BY <1>1, <1>2
  <2> QED BY <1>3, <2>1, <2>2, <2>3
<1>6. new = ring \o more
  BY DEF Queued, k, more
<1>7. DOMAIN new = 1 .. Len(new) /\ Len(new) = Len(ring) + k
  BY <1>5, <1>6, LenProperties
<1>8. \A j \in Len(ring) + 1 .. Len(new) : new[j] = f
  <2> TAKE j \in Len(ring) + 1 .. Len(new)
  <2>1. j - Len(ring) \in 1 .. k /\ j \in Len(ring) + 1 .. Len(ring) + k
    BY <1>1, <1>2, <1>7
  <2> QED BY <1>3, <1>5, <1>6, <2>1
<1> QED BY <1>1, <1>2, <1>5, <1>6, <1>7, <1>8

\* What is in a ring once the first frame at p is taken.
KeptRing(p, q) == IF q = p THEN Tail(rings[p]) ELSE rings[q]

LEMMA KeptFacts ==
    ASSUME ForwardingInv, NEW p \in Ports, rings[p] # <<>>, NEW q \in Ports
    PROVE  /\ \E M : KeptRing(p, q) \in Seq(M)
           /\ Len(KeptRing(p, q)) \in Nat /\ Len(KeptRing(p, q)) < RingSize
           /\ Len(rings[q]) \in Nat /\ DOMAIN rings[q] = 1 .. Len(rings[q]) /\ Len(rings[q]) < RingSize
           /\ Len(rings[q]) = Len(KeptRing(p, q)) + (IF q = p THEN 1 ELSE 0)
           /\ \A j \in 1 .. Len(KeptRing(p, q)) :
                KeptRing(p, q)[j] = rings[q][IF q = p THEN j + 1 ELSE j]
<1>1. PICK M : rings[q] \in Seq(M) /\ Len(rings[q]) < RingSize
  BY DEF ForwardingInv, RingsInv, Ports
<1>2. Len(rings[q]) \in Nat /\ DOMAIN rings[q] = 1 .. Len(rings[q])
  BY <1>1, LenProperties
<1>3. CASE q = p
  <2>1. /\ Tail(rings[q]) \in Seq(M) /\ Len(Tail(rings[q])) = Len(rings[q]) - 1
        /\ \A j \in 1 .. Len(Tail(rings[q])) : Tail(rings[q])[j] = rings[q][j + 1]
    BY <1>1, <1>3, HeadTailProperties
  <2>2. Len(Tail(rings[q])) \in Nat
    BY <2>1, LenProperties
  <2>3. KeptRing(p, q) = Tail(rings[q])
    BY <1>3 DEF KeptRing
  <2>4. Len(Tail(rings[q])) < RingSize
    BY <1>1, <1>2, <2>1, ForwardingAssumption
  <2> QED BY <1>1, <1>2, <1>3, <2>1, <2>2, <2>3, <2>4
<1>4. CASE q # p
  <2>1. KeptRing(p, q) = rings[q]
    BY <1>4 DEF KeptRing
  <2> QED BY <1>1, <1>2, <1>4, <2>1
<1> QED BY <1>3, <1>4

Grows(q, old, copies, g) ==
    /\ Len(rings'[q]) \in Nat /\ DOMAIN rings'[q] = 1 .. Len(rings'[q])
    /\ Len(rings'[q]) < RingSize
    /\ Len(old) <= Len(rings'[q]) /\ Len(rings'[q]) <= Len(old) + copies
    /\ \A j \in 1 .. Len(old) : rings'[q][j] = old[j]
    /\ \A j \in Len(old) + 1 .. Len(rings'[q]) : rings'[q][j] = g
    /\ ~dropped' => Len(rings'[q]) = Len(old) + copies

LEMMA PassRings ==
    ASSUME ForwardingInv, NEW R \in RouterNames, NEW p, NEW devices, NEW ports,
           NEW n \in Nat, DOMAIN ports = 1 .. n, NEW g, Pass(R, p, devices, ports, g)
    PROVE  /\ UNCHANGED site /\ Ports' = Ports /\ p \in Ports /\ p \in PortsOf(R) /\ rings[p] # <<>>
           /\ dropped => dropped'
           /\ \A q \in Ports : Grows(q, KeptRing(p, q), Copies(devices, ports, <<"port", q>>), g)
<1> DEFINE kept == [rings EXCEPT ![p] = Tail(rings[p])]
           ToRing(q) == Copies(devices, ports, <<"port", q>>)
<1>1. /\ UNCHANGED site /\ NonEmpty(R) # {} /\ p = PortAt(R, Attempt(R))
      /\ Inject(kept, devices, ports, g)
  BY DEF Pass
<1>2. /\ rings' = [q \in Ports |-> Queued(kept[q], g, ToRing(q))]
      /\ dropped' = (dropped \/ \E q \in Ports : Len(kept[q]) + ToRing(q) >= RingSize)
  BY <1>1 DEF Inject
<1>3. rings[p] # <<>> /\ p \in PortsOf(R)
  BY <1>1, AttemptFacts DEF ForwardingInv
<1>4. p \in Ports
  BY <1>3 DEF Ports, ForwardingInv, RingsInv
<1>5. ASSUME NEW q \in Ports PROVE kept[q] = KeptRing(p, q)
  BY <1>4 DEF KeptRing, Ports
<1>6. \A q : ToRing(q) \in Nat
  BY CopiesFacts
<1> HIDE DEF kept, ToRing
<1>7. ASSUME NEW q \in Ports
      PROVE  LET old == KeptRing(p, q)
             IN /\ Len(rings'[q]) \in Nat /\ DOMAIN rings'[q] = 1 .. Len(rings'[q])
                /\ Len(rings'[q]) < RingSize
                /\ Len(old) <= Len(rings'[q]) /\ Len(rings'[q]) <= Len(old) + ToRing(q)
                /\ \A j \in 1 .. Len(old) : rings'[q][j] = old[j]
                /\ \A j \in Len(old) + 1 .. Len(rings'[q]) : rings'[q][j] = g
                /\ ~dropped' => Len(rings'[q]) = Len(old) + ToRing(q)
  <2>1. rings'[q] = Queued(KeptRing(p, q), g, ToRing(q))
    BY <1>2, <1>5
  <2>2. Len(KeptRing(p, q)) \in Nat /\ Len(KeptRing(p, q)) < RingSize
    BY <1>3, <1>4, KeptFacts
  <2>3. ~dropped' => Len(KeptRing(p, q)) + ToRing(q) < RingSize
    <3>1. ~dropped' => ~(Len(kept[q]) + ToRing(q) >= RingSize)
      BY <1>2
    <3>2. ToRing(q) \in Nat /\ RingSize \in Nat /\ kept[q] = KeptRing(p, q)
      BY <1>5, <1>6, ForwardingAssumption
    <3> QED BY <2>2, <3>1, <3>2
  <2>4. PICK M : KeptRing(p, q) \in Seq(M)
    BY <1>3, <1>4, KeptFacts
  <2> QED BY <1>6, <2>1, <2>2, <2>3, <2>4, QueuedFacts
<1>8. Ports' = Ports
  BY <1>2 DEF Ports
<1> QED BY <1>1, <1>2, <1>3, <1>4, <1>7, <1>8 DEF ToRing, Grows
-----------------------------------------------------------------------------
(* Where a frame in a ring is once the first one at p is taken.            *)

Shift(p, z) == <<z[1], IF z[1] = p THEN z[2] - 1 ELSE z[2]>>
Spots == {z \in Ports \X (1 .. RingSize) : z[2] \in DOMAIN rings[z[1]]}

\* A place that a copy has taken.
Fresh(p, z) == z[2] > Len(KeptRing(p, z[1]))

Leaves(devices, ports, i, end) == i \in DOMAIN ports /\ ports[i] \in devices /\ LinkOf(ports[i]) = end

Moved(p, devices, ports, g) ==
    /\ <<p, 1>> \in Spots
    /\ \A y \in Spots : y # <<p, 1>> =>
         /\ Shift(p, y) \in Spots' /\ ~Fresh(p, Shift(p, y))
         /\ rings'[y[1]][Shift(p, y)[2]] = rings[y[1]][y[2]]
    /\ \A z \in Spots' :
         \/ \E y \in Spots : /\ y # <<p, 1>> /\ z = Shift(p, y)
                             /\ rings'[z[1]][z[2]] = rings[y[1]][y[2]]
         \/ /\ Fresh(p, z) /\ rings'[z[1]][z[2]] = g
            /\ \E i \in DOMAIN ports : Leaves(devices, ports, i, <<"port", z[1]>>)
    /\ \A z, y \in Spots' :
         Fresh(p, z) /\ Fresh(p, y) /\ z[1] = y[1] /\ z # y =>
             \E i, j \in DOMAIN ports :
                 /\ i # j /\ Leaves(devices, ports, i, <<"port", z[1]>>)
                 /\ Leaves(devices, ports, j, <<"port", z[1]>>)
    /\ ~dropped' =>
         \A i \in DOMAIN ports : \A q \in Ports :
             Leaves(devices, ports, i, <<"port", q>>) =>
                 \E z \in Spots' : z[1] = q /\ Fresh(p, z)

LEMMA Positions ==
    ASSUME ForwardingInv, NEW R \in RouterNames, NEW p, NEW devices, NEW ports,
           NEW n \in Nat, DOMAIN ports = 1 .. n, NEW g, Pass(R, p, devices, ports, g)
    PROVE  Moved(p, devices, ports, g)
<1> DEFINE len(q) == Len(KeptRing(p, q))
           copies(q) == Copies(devices, ports, <<"port", q>>)
<1>1. UNCHANGED site /\ Ports' = Ports /\ p \in Ports /\ rings[p] # <<>>
  BY PassRings
<1>2. ASSUME NEW q \in Ports
      PROVE  /\ Len(rings'[q]) \in Nat /\ DOMAIN rings'[q] = 1 .. Len(rings'[q])
             /\ Len(rings'[q]) < RingSize
             /\ len(q) <= Len(rings'[q]) /\ Len(rings'[q]) <= len(q) + copies(q)
             /\ \A j \in 1 .. len(q) : rings'[q][j] = KeptRing(p, q)[j]
             /\ \A j \in len(q) + 1 .. Len(rings'[q]) : rings'[q][j] = g
             /\ ~dropped' => Len(rings'[q]) = len(q) + copies(q)
  <2>1. Grows(q, KeptRing(p, q), Copies(devices, ports, <<"port", q>>), g)
    BY PassRings
  <2> QED BY <2>1 DEF Grows
<1>3. ASSUME NEW q \in Ports
      PROVE  /\ len(q) \in Nat /\ len(q) < RingSize
             /\ Len(rings[q]) \in Nat /\ DOMAIN rings[q] = 1 .. Len(rings[q]) /\ Len(rings[q]) < RingSize
             /\ Len(rings[q]) = len(q) + (IF q = p THEN 1 ELSE 0)
             /\ \A j \in 1 .. len(q) : KeptRing(p, q)[j] = rings[q][IF q = p THEN j + 1 ELSE j]
  BY <1>1, KeptFacts
<1>4. ASSUME NEW q \in Ports
      PROVE  /\ copies(q) \in Nat
             /\ copies(q) > 0 <=> \E i \in DOMAIN ports : Leaves(devices, ports, i, <<"port", q>>)
             /\ copies(q) > 1 => \E i, j \in DOMAIN ports :
                                    /\ i # j /\ Leaves(devices, ports, i, <<"port", q>>)
                                    /\ Leaves(devices, ports, j, <<"port", q>>)
  <2> DEFINE end == <<"port", q>>
  <2>1. /\ Copies(devices, ports, end) \in Nat
        /\ Copies(devices, ports, end) > 0 <=>
             \E i \in DOMAIN ports : LinkOf(ports[i]) = end /\ ports[i] \in devices
        /\ Copies(devices, ports, end) > 1 =>
             \E i, j \in DOMAIN ports :
                 /\ i # j /\ LinkOf(ports[i]) = end /\ ports[i] \in devices
                 /\ LinkOf(ports[j]) = end /\ ports[j] \in devices
    <3> HIDE DEF end
    <3> QED BY CopiesFacts
  <2> HIDE DEF end
  <2>2. \A i : Leaves(devices, ports, i, end) <=>
                 i \in DOMAIN ports /\ LinkOf(ports[i]) = end /\ ports[i] \in devices
    BY DEF Leaves
  <2> QED BY <2>1, <2>2 DEF end
<1>5. RingSize \in Nat /\ RingSize > 1
  BY ForwardingAssumption
<1>6. /\ \A q \in Ports : \A i : <<q, i>> \in Spots <=> i \in 1 .. Len(rings[q])
      /\ \A q \in Ports : \A i : <<q, i>> \in Spots' <=> i \in 1 .. Len(rings'[q])
      /\ \A z \in Spots : z = <<z[1], z[2]>> /\ z[1] \in Ports
      /\ \A z \in Spots' : z = <<z[1], z[2]>> /\ z[1] \in Ports
  <2>1. ASSUME NEW q \in Ports, NEW i \in 1 .. Len(rings[q])
        PROVE  i \in 1 .. RingSize
    BY <1>3, <1>5
  <2>2. ASSUME NEW q \in Ports, NEW i \in 1 .. Len(rings'[q])
        PROVE  i \in 1 .. RingSize
    <3>1. Len(rings'[q]) \in Nat /\ Len(rings'[q]) < RingSize
      BY <1>2
    <3> QED BY <1>5, <3>1
  <2> QED BY <1>1, <1>2, <1>3, <2>1, <2>2 DEF Spots
<1> HIDE DEF copies, len
<1>7. <<p, 1>> \in Spots
  <2>1. Len(rings[p]) = len(p) + 1 /\ len(p) \in Nat
    BY <1>1, <1>3
  <2> QED BY <1>1, <1>6, <2>1
<1>8. ASSUME NEW y \in Spots, y # <<p, 1>>
      PROVE  /\ Shift(p, y) \in Spots' /\ ~Fresh(p, Shift(p, y))
             /\ rings'[y[1]][Shift(p, y)[2]] = rings[y[1]][y[2]]
  <2>1. PICK q \in Ports : \E i0 \in 1 .. Len(rings[q]) : y = <<q, i0>> /\ (q = p => i0 # 1)
    BY <1>6, <1>8
  <2>0. PICK i \in 1 .. Len(rings[q]) : y = <<q, i>> /\ (q = p => i # 1)
    BY <2>1
  <2>2. PICK j : j = (IF q = p THEN i - 1 ELSE i)
    OBVIOUS
  <2>3. j \in 1 .. len(q) /\ (IF q = p THEN j + 1 ELSE j) = i
    BY <1>3, <2>0, <2>2
  <2>4. j \in 1 .. Len(rings'[q]) /\ ~(j > len(q))
    BY <1>2, <1>3, <2>3
  <2>5. rings'[q][j] = rings[q][i]
    BY <1>2, <1>3, <2>3
  <2>6. Shift(p, y) = <<q, j>>
    BY <2>0, <2>2 DEF Shift
  <2> QED BY <1>6, <2>0, <2>4, <2>5, <2>6 DEF Fresh, len
<1>9. ASSUME NEW q \in Ports, NEW j \in 1 .. Len(rings'[q])
      PROVE  \/ \E y \in Spots : /\ y # <<p, 1>> /\ <<q, j>> = Shift(p, y)
                                 /\ rings'[q][j] = rings[y[1]][y[2]]
             \/ /\ j > len(q) /\ rings'[q][j] = g /\ copies(q) > 0
  <2>1. CASE j <= len(q)
    <3>1. PICK i : i = (IF q = p THEN j + 1 ELSE j)
      OBVIOUS
    <3>2. j \in 1 .. len(q)
      BY <1>2, <1>3, <2>1
    <3>3. i \in 1 .. Len(rings[q]) /\ rings'[q][j] = rings[q][i] /\ (q = p => i # 1)
      BY <1>2, <1>3, <3>1, <3>2
    <3>4. <<q, i>> \in Spots /\ <<q, i>> # <<p, 1>>
      BY <1>6, <3>3
    <3>5. Shift(p, <<q, i>>) = <<q, j>>
      BY <3>1 DEF Shift
    <3> QED BY <3>3, <3>4, <3>5
  <2>2. CASE ~(j <= len(q))
    <3>1. j \in len(q) + 1 .. Len(rings'[q]) /\ j > len(q)
      BY <1>2, <1>3, <2>2
    <3>2. copies(q) > 0
      <4>1. /\ Len(rings'[q]) \in Nat /\ len(q) \in Nat /\ copies(q) \in Nat
            /\ Len(rings'[q]) <= len(q) + copies(q)
        BY <1>2, <1>3, <1>4
      <4> QED BY <3>1, <4>1
    <3> QED BY <1>2, <3>1, <3>2
  <2> QED BY <2>1, <2>2
<1>10. ASSUME NEW z \in Spots'
       PROVE  \/ \E y \in Spots : /\ y # <<p, 1>> /\ z = Shift(p, y)
                                  /\ rings'[z[1]][z[2]] = rings[y[1]][y[2]]
              \/ /\ Fresh(p, z) /\ rings'[z[1]][z[2]] = g
                 /\ \E i \in DOMAIN ports : Leaves(devices, ports, i, <<"port", z[1]>>)
  <2>1. PICK q \in Ports : \E j0 \in 1 .. Len(rings'[q]) : z = <<q, j0>>
    BY <1>6
  <2>2. PICK j \in 1 .. Len(rings'[q]) : z = <<q, j>>
    BY <2>1
  <2> QED BY <1>4, <1>9, <2>2 DEF Fresh, len
<1>11. ASSUME NEW z \in Spots', NEW y \in Spots', Fresh(p, z), Fresh(p, y), z[1] = y[1], z # y
       PROVE  copies(z[1]) > 1
  <2>0. PICK q \in Ports : z[1] = q /\ y[1] = q
    BY <1>6, <1>11
  <2>1. PICK j \in 1 .. Len(rings'[q]), i \in 1 .. Len(rings'[q]) : z = <<q, j>> /\ y = <<q, i>>
    BY <1>6, <2>0
  <2>2. i # j /\ i > len(q) /\ j > len(q)
    BY <1>11, <2>1 DEF Fresh, len
  <2>3. /\ Len(rings'[q]) \in Nat /\ len(q) \in Nat /\ copies(q) \in Nat
        /\ Len(rings'[q]) <= len(q) + copies(q)
    BY <1>2, <1>3, <1>4
  <2>4. copies(q) > 1
    BY <2>1, <2>2, <2>3
  <2> QED BY <2>0, <2>4
<1>12. ASSUME ~dropped', NEW i \in DOMAIN ports, NEW q \in Ports, Leaves(devices, ports, i, <<"port", q>>)
       PROVE  \E z \in Spots' : z[1] = q /\ Fresh(p, z)
  <2>1. copies(q) > 0
    BY <1>4, <1>12
  <2>2. Len(rings'[q]) \in 1 .. Len(rings'[q]) /\ Len(rings'[q]) > len(q)
    BY <1>2, <1>3, <1>4, <1>12, <2>1
  <2>3. <<q, Len(rings'[q])>> \in Spots'
    BY <1>6, <2>2
  <2> QED BY <2>2, <2>3 DEF Fresh, len
<1> QED BY <1>4, <1>6, <1>7, <1>8, <1>10, <1>11, <1>12 DEF Moved

\* What hosts have heard once the copies are sent.
Hear(devices, ports, g) ==
    /\ \A x \in BagToSet(heard)' :
         \/ x \in BagToSet(heard)
         \/ \E b \in Ranks : \E i \in DOMAIN ports :
              x = [at |-> b, frame |-> g] /\ Leaves(devices, ports, i, <<"host", b>>)
    /\ \A x \in BagToSet(heard) :
         /\ x \in BagToSet(heard)'
         /\ x.frame # g \/ ~(\E i \in DOMAIN ports : Leaves(devices, ports, i, <<"host", x.at>>))
              => heard'[x] = heard[x]
    /\ \A b \in Ranks : \A i \in DOMAIN ports : Leaves(devices, ports, i, <<"host", b>>) =>
         LET x == [at |-> b, frame |-> g]
         IN /\ x \in BagToSet(heard)'
            /\ \/ x \in BagToSet(heard) \/ heard'[x] = 1
               \/ \E j, k \in DOMAIN ports :
                     /\ j # k /\ Leaves(devices, ports, j, <<"host", b>>)
                     /\ Leaves(devices, ports, k, <<"host", b>>)

LEMMA PassHeard ==
    ASSUME ForwardingInv, NEW R \in RouterNames, NEW p, NEW devices, NEW ports,
           NEW n \in Nat, DOMAIN ports = 1 .. n, NEW g, Pass(R, p, devices, ports, g)
    PROVE  Hear(devices, ports, g)
<1> DEFINE ToHost(h) == Copies(devices, ports, <<"host", h>>)
           hearers   == {h \in Ranks : ToHost(h) > 0}
           new       == [at : hearers, frame : {g}]
           more      == [x \in new |-> ToHost(x.at)]
<1>1. heard' = heard (+) more
  BY DEF Pass, Inject
<1>2. \A x : x \in new <=> \E b \in hearers : x = [at |-> b, frame |-> g]
  <2> HIDE DEF hearers
  <2>1. ASSUME NEW x \in new PROVE \E b \in hearers : x = [at |-> b, frame |-> g]
    <3>1. x.at \in hearers /\ x = [at |-> x.at, frame |-> g]
      OBVIOUS
    <3> QED BY <3>1
  <2>2. \A b \in hearers : [at |-> b, frame |-> g] \in new
    OBVIOUS
  <2> HIDE DEF new
  <2> QED BY <2>1, <2>2
<1>3. ASSUME NEW b
      PROVE  /\ ToHost(b) \in Nat
             /\ ToHost(b) > 0 <=> \E i \in DOMAIN ports : Leaves(devices, ports, i, <<"host", b>>)
             /\ ToHost(b) > 1 => \E j, k \in DOMAIN ports :
                                    /\ j # k /\ Leaves(devices, ports, j, <<"host", b>>)
                                    /\ Leaves(devices, ports, k, <<"host", b>>)
  BY CopiesFacts DEF Leaves
<1>4. /\ BagToSet(heard)' = BagToSet(heard) \cup new
      /\ \A x \in BagToSet(heard) : x \notin new => heard'[x] = heard[x]
      /\ \A x \in new : x \notin BagToSet(heard) => heard'[x] = ToHost(x.at)
  <2>1. IsABag(heard) /\ \A x \in DOMAIN heard : heard[x] \in Nat
    BY DEF ForwardingInv, IsABag
  <2>2. heard' = [x \in DOMAIN heard \cup new |->
                    (IF x \in DOMAIN heard THEN heard[x] ELSE 0) + (IF x \in new THEN more[x] ELSE 0)]
    BY <1>1 DEF (+)
  <2>3. \A x \in new : more[x] = ToHost(x.at) /\ ToHost(x.at) \in Nat
    BY <1>3
  <2> HIDE DEF new, more, ToHost
  <2>4. \A x \in DOMAIN heard : x \notin new => heard'[x] = heard[x] + 0
    BY <2>2
  <2>5. \A x \in new : x \notin DOMAIN heard => heard'[x] = 0 + ToHost(x.at)
    BY <2>2, <2>3
  <2> QED BY <2>1, <2>2, <2>3, <2>4, <2>5 DEF BagToSet
<1> HIDE DEF ToHost, new
<1>5. \A x : x \in new <=> \E b \in Ranks : /\ x = [at |-> b, frame |-> g]
                                            /\ \E i \in DOMAIN ports : Leaves(devices, ports, i, <<"host", b>>)
  BY <1>2, <1>3
<1>6. ASSUME NEW b \in Ranks, NEW i \in DOMAIN ports, Leaves(devices, ports, i, <<"host", b>>)
      PROVE  LET x == [at |-> b, frame |-> g]
             IN /\ x \in BagToSet(heard)'
                /\ \/ x \in BagToSet(heard) \/ heard'[x] = 1
                   \/ \E j, k \in DOMAIN ports :
                         /\ j # k /\ Leaves(devices, ports, j, <<"host", b>>)
                         /\ Leaves(devices, ports, k, <<"host", b>>)
  <2> DEFINE x == [at |-> b, frame |-> g]
  <2>1. x \in new /\ x.at = b
    BY <1>5, <1>6
  <2>2. ToHost(b) \in Nat /\ ToHost(b) > 0
    BY <1>3, <1>6
  <2>3. ToHost(b) = 1 \/ ToHost(b) > 1
    BY <2>2
  <2>4. x \notin BagToSet(heard) => heard'[x] = ToHost(b)
    BY <1>4, <2>1
  <2>5. x \in BagToSet(heard)'
    BY <1>4, <2>1
  <2> HIDE DEF x
  <2> QED BY <1>3, <2>3, <2>4, <2>5 DEF x
<1>7. \A x \in BagToSet(heard) :
        x.frame # g \/ ~(\E i \in DOMAIN ports : Leaves(devices, ports, i, <<"host", x.at>>)) => x \notin new
  <2> SUFFICES ASSUME NEW x \in new
               PROVE  x.frame = g /\ \E i \in DOMAIN ports : Leaves(devices, ports, i, <<"host", x.at>>)
    OBVIOUS
  <2>1. PICK b \in Ranks : /\ x = [at |-> b, frame |-> g]
                           /\ \E i \in DOMAIN ports : Leaves(devices, ports, i, <<"host", b>>)
    BY <1>5
  <2>2. x.at = b /\ x.frame = g
    BY <2>1
  <2> QED BY <2>1, <2>2
<1> QED BY <1>4, <1>5, <1>6, <1>7 DEF Hear
-----------------------------------------------------------------------------
(* What that does to what frames stand for.                                *)

LEMMA SameWays ==
    ASSUME UNCHANGED site
    PROVE  /\ Top' = Top /\ work' = work /\ fabric' = fabric /\ cabling' = cabling
           /\ \A q, c : Reach(q, c)' = Reach(q, c)
           /\ \A f : AccessOf(f)' = AccessOf(f)
           /\ \A q : LinkOf(q)' = LinkOf(q)
           /\ \A c : LevelsOf(c)' = LevelsOf(c)
           /\ \A R, c : U(R, c)' = U(R, c) /\ Routed(fabric, R, c)' = Routed(fabric, R, c)
           /\ \A R : Above(R)' = Above(R)
           /\ \A R, p, f : OnWay(R, p, f)' = OnWay(R, p, f)
<1>1. work' = work /\ fabric' = fabric /\ cabling' = cabling
  BY DEF site
<1>2. Top' = Top
  BY <1>1 DEF Top
<1> QED BY <1>1, <1>2 DEF Reach, AccessOf, LinkOf, LevelsOf, U, Above, OnWay, Routed, Under, Levels, Within, NodeIn

\* Spots that hold h, and those after.
LEMMA SpotsThatHold ==
    /\ \A k, c, h, z : z \in InRings(k, c, h) <=>
         z \in Spots /\ StandsFor(rings[z[1]][z[2]], Reach(z[1], c), k, c, h)
    /\ \A k, c, h, x : x \in InHeard(k, c, h) <=>
         x \in BagToSet(heard) /\ StandsFor(x.frame, {x.at}, k, c, h)
    /\ UNCHANGED site => \A k, c, h, z : z \in InRings(k, c, h)' <=>
         z \in Spots' /\ StandsFor(rings'[z[1]][z[2]], Reach(z[1], c), k, c, h)
    /\ \A k, c, h, x : x \in InHeard(k, c, h)' <=>
         x \in BagToSet(heard)' /\ StandsFor(x.frame, {x.at}, k, c, h)
<1>1. \A k, c, h, z : z \in InRings(k, c, h) <=>
         z \in Spots /\ StandsFor(rings[z[1]][z[2]], Reach(z[1], c), k, c, h)
  BY DEF InRings, Spots
<1>2. ASSUME UNCHANGED site
      PROVE  \A k, c, h, z : z \in InRings(k, c, h)' <=>
               z \in Spots' /\ StandsFor(rings'[z[1]][z[2]], Reach(z[1], c), k, c, h)
  <2>1. \A q, c : Reach(q, c)' = Reach(q, c)
    BY <1>2, SameWays
  <2> QED BY <2>1 DEF InRings, Spots, StandsFor
<1>3. \A k, c, h, x : x \in InHeard(k, c, h)' <=>
         x \in BagToSet(heard)' /\ StandsFor(x.frame, {x.at}, k, c, h)
  BY DEF InHeard
<1> QED BY <1>1, <1>2, <1>3 DEF InHeard

\* A copy stands for h where it comes in.
LEMMA CopyStands ==
    ASSUME NEW devices, NEW ports, NEW g, NEW k, k = Class(g), NEW c, c = ChannelOf(g), NEW h
    PROVE  /\ \A i \in DOMAIN ports : \A q \in Ports :
                Leaves(devices, ports, i, <<"port", q>>) /\ StandsFor(g, Reach(q, c), k, c, h) =>
                    CopyFor(devices, ports, g, c, i, h)
           /\ \A i \in DOMAIN ports : \A b \in Ranks :
                Leaves(devices, ports, i, <<"host", b>>) /\ StandsFor(g, {b}, k, c, h) =>
                    CopyFor(devices, ports, g, c, i, h)
           /\ \A i \in DOMAIN ports : CopyFor(devices, ports, g, c, i, h) =>
                \/ \E q \in Ports : Leaves(devices, ports, i, <<"port", q>>) /\ StandsFor(g, Reach(q, c), k, c, h)
                \/ \E b \in Ranks : Leaves(devices, ports, i, <<"host", b>>) /\ StandsFor(g, {b}, k, c, h)
BY DEF CopyFor, Leaves, StandsFor

\* Those for whom neither the frame taken nor its copies stand keep theirs.
LEMMA PassAside ==
    ASSUME ForwardingInv, WaysInv, NEW R \in RouterNames, NEW p, NEW devices, NEW ports,
           NEW n \in Nat, DOMAIN ports = 1 .. n, NEW g, Pass(R, p, devices, ports, g),
           NEW k, NEW c, NEW h,
           <<p, 1>> \notin InRings(k, c, h),
           ~(Class(g) = k /\ ChannelOf(g) = c /\ Copied(devices, ports, g, c, h))
    PROVE  /\ \A z \in InRings(k, c, h)' : \E y \in InRings(k, c, h) : z = Shift(p, y)
           /\ \A y \in InRings(k, c, h) : Shift(p, y) \in InRings(k, c, h)'
           /\ InHeard(k, c, h)' = InHeard(k, c, h)
           /\ \A x \in InHeard(k, c, h) : heard'[x] = heard[x]
<1>1. UNCHANGED site
  BY PassRings
<1>0. Moved(p, devices, ports, g) /\ Hear(devices, ports, g)
  BY Positions, PassHeard
<1>2. /\ \A i \in DOMAIN ports : \A q \in Ports :
           Leaves(devices, ports, i, <<"port", q>>) => ~StandsFor(g, Reach(q, c), k, c, h)
      /\ \A i \in DOMAIN ports : \A b \in Ranks :
           Leaves(devices, ports, i, <<"host", b>>) => ~StandsFor(g, {b}, k, c, h)
  <2>1. CASE Class(g) = k /\ ChannelOf(g) = c
    BY <2>1, CopyStands DEF Copied
  <2>2. CASE ~(Class(g) = k /\ ChannelOf(g) = c)
    BY <2>2 DEF StandsFor
  <2> QED BY <2>1, <2>2
<1>3. ASSUME NEW z \in InRings(k, c, h)'
      PROVE  \E y \in InRings(k, c, h) : z = Shift(p, y)
  <2>1. z \in Spots' /\ StandsFor(rings'[z[1]][z[2]], Reach(z[1], c), k, c, h)
    BY <1>1, SpotsThatHold
  <2>2. z[1] \in Ports
    BY <2>1, PassRings DEF Spots
  <2>3. CASE \E i \in DOMAIN ports : Leaves(devices, ports, i, <<"port", z[1]>>) /\ rings'[z[1]][z[2]] = g
    BY <1>2, <2>1, <2>2, <2>3
  <2>4. CASE \E y \in Spots : z = Shift(p, y) /\ rings'[z[1]][z[2]] = rings[y[1]][y[2]]
    <3>1. PICK y \in Spots : z = Shift(p, y) /\ rings'[z[1]][z[2]] = rings[y[1]][y[2]]
      BY <2>4
    <3>2. z[1] = y[1]
      BY <3>1 DEF Shift
    <3>3. y \in InRings(k, c, h)
      BY <2>1, <3>1, <3>2, SpotsThatHold
    <3> QED BY <3>1, <3>3
  <2> QED BY <2>1, <2>3, <2>4, <1>0 DEF Moved
<1>4. ASSUME NEW y \in InRings(k, c, h)
      PROVE  Shift(p, y) \in InRings(k, c, h)'
  <2>1. y \in Spots /\ y # <<p, 1>> /\ StandsFor(rings[y[1]][y[2]], Reach(y[1], c), k, c, h)
    BY SpotsThatHold
  <2>2. Shift(p, y) \in Spots' /\ rings'[y[1]][Shift(p, y)[2]] = rings[y[1]][y[2]]
    BY <1>0, <2>1 DEF Moved
  <2>3. Shift(p, y)[1] = y[1]
    BY DEF Shift
  <2> QED BY <1>1, <2>1, <2>2, <2>3, SpotsThatHold
<1>5. ASSUME NEW x
      PROVE  /\ x \in InHeard(k, c, h)' <=> x \in InHeard(k, c, h)
             /\ x \in InHeard(k, c, h) => heard'[x] = heard[x]
  <2>1. ASSUME x \in InHeard(k, c, h)', x \notin BagToSet(heard) PROVE FALSE
    <3>1. x \in BagToSet(heard)' /\ StandsFor(x.frame, {x.at}, k, c, h)
      BY <2>1, SpotsThatHold
    <3>2. PICK b \in Ranks : \E i \in DOMAIN ports :
            x = [at |-> b, frame |-> g] /\ Leaves(devices, ports, i, <<"host", b>>)
      BY <1>0, <2>1, <3>1 DEF Hear
    <3> QED BY <1>2, <3>1, <3>2
  <2>2. ASSUME x \in InHeard(k, c, h), x.at \in Ranks
        PROVE  x \in InHeard(k, c, h)' /\ heard'[x] = heard[x]
    <3>1. x \in BagToSet(heard) /\ StandsFor(x.frame, {x.at}, k, c, h)
      BY <2>2, SpotsThatHold
    <3>2. x.frame # g \/ ~(\E i \in DOMAIN ports : Leaves(devices, ports, i, <<"host", x.at>>))
      BY <1>2, <2>2, <3>1
    <3> QED BY <1>0, <3>1, <3>2, SpotsThatHold DEF Hear
  <2>3. x \in InHeard(k, c, h) => x.at \in Ranks
    BY SpotsThatHold DEF WaysInv
  <2> QED BY <2>1, <2>2, <2>3, SpotsThatHold
<1> QED BY <1>3, <1>4, <1>5

\* The one for whom the frame taken stands, or nothing yet, is left with what
\* the copies stand for.
LEMMA PassOver ==
    ASSUME ForwardingInv, WaysInv, NEW R \in RouterNames, NEW p, NEW devices, NEW ports,
           NEW n \in Nat, DOMAIN ports = 1 .. n, NEW g, Pass(R, p, devices, ports, g),
           NEW k, k = Class(g), NEW c, c = ChannelOf(g), NEW h,
           InRings(k, c, h) \subseteq {<<p, 1>>}, InHeard(k, c, h) = {},
           CopiedOnce(devices, ports, g, c, h)
    PROVE  /\ OneOf({}, InRings(k, c, h), InHeard(k, c, h), {})'
           /\ ~Copied(devices, ports, g, c, h) => InRings(k, c, h)' = {} /\ InHeard(k, c, h)' = {}
           /\ Copied(devices, ports, g, c, h) /\ ~dropped' =>
                InRings(k, c, h)' # {} \/ InHeard(k, c, h)' # {}
<1>0. UNCHANGED site /\ Ports' = Ports
  BY PassRings
<1>1. Moved(p, devices, ports, g) /\ Hear(devices, ports, g)
  BY Positions, PassHeard
<1>2. \A z \in InRings(k, c, h)' :
        /\ z \in Spots' /\ Fresh(p, z)
        /\ \E i \in DOMAIN ports : Leaves(devices, ports, i, <<"port", z[1]>>)
        /\ \A i \in DOMAIN ports : Leaves(devices, ports, i, <<"port", z[1]>>) =>
             CopyFor(devices, ports, g, c, i, h)
  <2> SUFFICES ASSUME NEW z \in InRings(k, c, h)'
               PROVE  /\ z \in Spots' /\ Fresh(p, z)
                      /\ \E i \in DOMAIN ports : Leaves(devices, ports, i, <<"port", z[1]>>)
                      /\ \A i \in DOMAIN ports : Leaves(devices, ports, i, <<"port", z[1]>>) =>
                           CopyFor(devices, ports, g, c, i, h)
    OBVIOUS
  <2>1. z \in Spots' /\ StandsFor(rings'[z[1]][z[2]], Reach(z[1], c), k, c, h)
    BY <1>0, SpotsThatHold
  <2>2. z[1] \in Ports
    BY <1>0, <2>1 DEF Spots
  <2>3. ASSUME NEW y \in Spots, y # <<p, 1>>, z = Shift(p, y), rings'[z[1]][z[2]] = rings[y[1]][y[2]]
        PROVE  FALSE
    <3>1. z[1] = y[1]
      BY <2>3 DEF Shift
    <3>2. y \in InRings(k, c, h)
      BY <2>1, <2>3, <3>1, SpotsThatHold
    <3> QED BY <2>3, <3>2
  <2>4. /\ Fresh(p, z) /\ rings'[z[1]][z[2]] = g
        /\ \E i \in DOMAIN ports : Leaves(devices, ports, i, <<"port", z[1]>>)
    BY <1>1, <2>1, <2>3 DEF Moved
  <2> QED BY <2>1, <2>2, <2>4, CopyStands
<1>3. ASSUME NEW x \in InHeard(k, c, h)'
      PROVE  /\ x = [at |-> x.at, frame |-> g] /\ x.at \in Ranks /\ heard'[x] = 1
             /\ \E i \in DOMAIN ports : Leaves(devices, ports, i, <<"host", x.at>>)
             /\ \A i \in DOMAIN ports : Leaves(devices, ports, i, <<"host", x.at>>) =>
                  CopyFor(devices, ports, g, c, i, h)
  <2>1. /\ x \in BagToSet(heard)' /\ StandsFor(x.frame, {x.at}, k, c, h)
        /\ x \notin BagToSet(heard)
    BY SpotsThatHold
  <2>2. PICK b \in Ranks : \E i \in DOMAIN ports :
          x = [at |-> b, frame |-> g] /\ Leaves(devices, ports, i, <<"host", b>>)
    BY <1>1, <2>1 DEF Hear
  <2>3. PICK i \in DOMAIN ports : x = [at |-> b, frame |-> g] /\ Leaves(devices, ports, i, <<"host", b>>)
    BY <2>2
  <2>4. x.at = b /\ x.frame = g
    BY <2>3
  <2>5. \A j \in DOMAIN ports : Leaves(devices, ports, j, <<"host", b>>) => CopyFor(devices, ports, g, c, j, h)
    BY <2>1, <2>4, CopyStands
  <2>6. ~\E j, l \in DOMAIN ports :
            j # l /\ Leaves(devices, ports, j, <<"host", b>>) /\ Leaves(devices, ports, l, <<"host", b>>)
    BY <2>5 DEF CopiedOnce
  <2>7. heard'[x] = 1
    BY <1>1, <2>1, <2>3, <2>6 DEF Hear
  <2> QED BY <2>3, <2>4, <2>5, <2>7
<1>4. ASSUME NEW z \in InRings(k, c, h)', NEW y \in InRings(k, c, h)'
      PROVE  z = y
  <2>1. PICK i \in DOMAIN ports : Leaves(devices, ports, i, <<"port", z[1]>>) /\ CopyFor(devices, ports, g, c, i, h)
    BY <1>2
  <2>2. PICK j \in DOMAIN ports : Leaves(devices, ports, j, <<"port", y[1]>>) /\ CopyFor(devices, ports, g, c, j, h)
    BY <1>2
  <2>3. z[1] = y[1]
    BY <2>1, <2>2 DEF CopiedOnce, Leaves
  <2>4. ASSUME z # y PROVE FALSE
    <3>1. PICK l \in DOMAIN ports, m \in DOMAIN ports :
            /\ l # m /\ Leaves(devices, ports, l, <<"port", z[1]>>)
            /\ Leaves(devices, ports, m, <<"port", z[1]>>)
      BY <1>1, <1>2, <2>3, <2>4 DEF Moved
    <3>2. CopyFor(devices, ports, g, c, l, h) /\ CopyFor(devices, ports, g, c, m, h)
      BY <1>2, <3>1
    <3> QED BY <3>1, <3>2 DEF CopiedOnce
  <2> QED BY <2>4
<1>5. ASSUME NEW x \in InHeard(k, c, h)', NEW y \in InHeard(k, c, h)'
      PROVE  x = y
  <2>1. PICK i \in DOMAIN ports : Leaves(devices, ports, i, <<"host", x.at>>) /\ CopyFor(devices, ports, g, c, i, h)
    BY <1>3
  <2>2. PICK j \in DOMAIN ports : Leaves(devices, ports, j, <<"host", y.at>>) /\ CopyFor(devices, ports, g, c, j, h)
    BY <1>3
  <2>3. x.at = y.at
    BY <2>1, <2>2 DEF CopiedOnce, Leaves
  <2>4. x = [at |-> x.at, frame |-> g] /\ y = [at |-> y.at, frame |-> g]
    BY <1>3
  <2> QED BY <2>3, <2>4
<1>6. ASSUME NEW z \in InRings(k, c, h)', NEW x \in InHeard(k, c, h)'
      PROVE  FALSE
  <2>1. PICK i \in DOMAIN ports : Leaves(devices, ports, i, <<"port", z[1]>>) /\ CopyFor(devices, ports, g, c, i, h)
    BY <1>2
  <2>2. PICK j \in DOMAIN ports : Leaves(devices, ports, j, <<"host", x.at>>) /\ CopyFor(devices, ports, g, c, j, h)
    BY <1>3
  <2> QED BY <2>1, <2>2 DEF CopiedOnce, Leaves
<1>7. OneOf({}, InRings(k, c, h), InHeard(k, c, h), {})'
  <2>1. CASE InRings(k, c, h)' # {}
    <3>1. PICK z : z \in InRings(k, c, h)'
      BY <2>1
    <3>2. InRings(k, c, h)' = {z} /\ InHeard(k, c, h)' = {}
      BY <1>4, <1>6, <3>1
    <3> QED BY <3>2 DEF OneOf
  <2>2. CASE InHeard(k, c, h)' # {}
    <3>1. PICK x : x \in InHeard(k, c, h)'
      BY <2>2
    <3>2. InRings(k, c, h)' = {} /\ InHeard(k, c, h)' = {x} /\ heard'[x] = 1
      BY <1>3, <1>5, <1>6, <3>1
    <3> QED BY <3>2 DEF OneOf
  <2> QED BY <2>1, <2>2 DEF OneOf, NoneOf
<1>8. ~Copied(devices, ports, g, c, h) => InRings(k, c, h)' = {} /\ InHeard(k, c, h)' = {}
  BY <1>2, <1>3 DEF Copied
<1>9. ASSUME Copied(devices, ports, g, c, h), ~dropped'
      PROVE  InRings(k, c, h)' # {} \/ InHeard(k, c, h)' # {}
  <2>1. PICK i \in DOMAIN ports : CopyFor(devices, ports, g, c, i, h)
    BY <1>9 DEF Copied
  <2>2. CASE \E q \in Ports : Leaves(devices, ports, i, <<"port", q>>) /\ StandsFor(g, Reach(q, c), k, c, h)
    <3>1. PICK q \in Ports : Leaves(devices, ports, i, <<"port", q>>) /\ StandsFor(g, Reach(q, c), k, c, h)
      BY <2>2
    <3>2. PICK z \in Spots' : z[1] = q /\ Fresh(p, z)
      BY <1>1, <1>9, <3>1 DEF Moved
    <3>3. rings'[z[1]][z[2]] = g
      <4>1. \A y \in Spots : y # <<p, 1>> => ~Fresh(p, Shift(p, y))
        BY <1>1 DEF Moved
      <4>2. \/ \E y \in Spots : y # <<p, 1>> /\ z = Shift(p, y)
            \/ rings'[z[1]][z[2]] = g
        BY <1>1, <3>2 DEF Moved
      <4> QED BY <3>2, <4>1, <4>2
    <3>4. z \in InRings(k, c, h)'
      BY <1>0, <3>1, <3>2, <3>3, SpotsThatHold
    <3> QED BY <3>4
  <2>3. CASE \E b \in Ranks : Leaves(devices, ports, i, <<"host", b>>) /\ StandsFor(g, {b}, k, c, h)
    <3>1. PICK b \in Ranks : Leaves(devices, ports, i, <<"host", b>>) /\ StandsFor(g, {b}, k, c, h)
      BY <2>3
    <3>2. PICK x : x = [at |-> b, frame |-> g]
      OBVIOUS
    <3>3. x.at = b /\ x.frame = g
      BY <3>2
    <3>4. x \in BagToSet(heard)'
      BY <1>1, <3>1, <3>2 DEF Hear
    <3>5. x \in InHeard(k, c, h)'
      BY <3>1, <3>3, <3>4, SpotsThatHold
    <3> QED BY <3>5
  <2> QED BY <2>1, <2>2, <2>3, CopyStands
<1> QED BY <1>7, <1>8, <1>9
-----------------------------------------------------------------------------
(* What hosts answer.                                                      *)

\* The class of the answer to a frame of class k.
AnswerTo(k) == IF k = "END" THEN "END_ACK" ELSE "ANSWER"

LEMMA ReplyFacts ==
    ASSUME SiteInv, NEW g \in Frames, NEW b \in Ranks, NEW f \in Replies(b, g)
    PROVE  /\ g.type \in {"END", "RESPONSE"} /\ Class(f) = AnswerTo(g.type)
           /\ f.type = IF g.type = "END" THEN "END_ACK" ELSE "REQUEST"
           /\ ChannelOf(f) = ChannelOf(g) /\ b \in RequestersOf(ChannelOf(g)[1])
           /\ f.src = b /\ f.dst = ChannelOf(g)[1] /\ f.from = {b} /\ Sane(f)
           /\ f.type = "REQUEST" =>
                f.stack = g.stack /\ f.fanins = PlanFor(b, ChannelOf(g)) /\ f.count = 1
           /\ \A hosts : Stands(f, hosts) = {b}
           /\ Replies(b, g) = {f}
<1> DEFINE c == ChannelOf(g)
           ack  == Frame("END_ACK", b, c[1], g.sub)
           bare == Frame("REQUEST", b, c[1], g.sub)
           sent == [bare EXCEPT !.stack = g.stack, !.fanins = PlanFor(b, c)]
<1>1. c \in Channels /\ c[2] = g.sub
  BY ChannelFacts
<1>2. b # c[1]
  BY DEF Replies
<1>3. b \in RequestersOf(c[1])
  BY <1>2 DEF RequestersOf
<1>4. /\ ack.type = "END_ACK" /\ ack.src = b /\ ack.dst = c[1] /\ ack.sub = g.sub /\ ack.from = {b}
      /\ sent.type = "REQUEST" /\ sent.src = b /\ sent.dst = c[1] /\ sent.sub = g.sub
      /\ sent.from = {b} /\ sent.stack = g.stack /\ sent.fanins = PlanFor(b, c) /\ sent.count = 1
  BY DEF Frame
<1>5. \/ g.type = "END" /\ Replies(b, g) = {ack}
      \/ g.type = "RESPONSE" /\ Replies(b, g) = {sent}
  BY <1>2 DEF Replies
<1> HIDE DEF c, ack, sent
<1>6. c = <<c[1], c[2]>>
  BY <1>1 DEF Channels
<1>7. ASSUME NEW x, x.type \in {"END_ACK", "REQUEST"}, x.src = b, x.dst = c[1], x.sub = g.sub, x.from = {b}
      PROVE  ChannelOf(x) = c /\ Sane(x) /\ \A hosts : Stands(x, hosts) = {b}
  <2>1. ChannelOf(x) = <<c[1], c[2]>>
    BY <1>1, <1>7 DEF ChannelOf, FromResponder
  <2> QED BY <1>3, <1>6, <1>7, <2>1 DEF Sane, OfRequester, Stands
<1>8. CASE g.type = "END" /\ Replies(b, g) = {ack}
  <2>1. f = ack
    BY <1>8
  <2>2. f.type = "END_ACK" /\ f.src = b /\ f.dst = c[1] /\ f.sub = g.sub /\ f.from = {b}
    BY <1>4, <2>1
  <2>3. ChannelOf(f) = c /\ Sane(f) /\ \A hosts : Stands(f, hosts) = {b}
    BY <1>7, <2>2
  <2> QED BY <1>3, <1>8, <2>1, <2>2, <2>3 DEF Class, AnswerTo, c
<1>9. CASE g.type = "RESPONSE" /\ Replies(b, g) = {sent}
  <2>1. f = sent
    BY <1>9
  <2>2. /\ f.type = "REQUEST" /\ f.src = b /\ f.dst = c[1] /\ f.sub = g.sub /\ f.from = {b}
        /\ f.stack = g.stack /\ f.fanins = PlanFor(b, c) /\ f.count = 1
    BY <1>4, <2>1
  <2>3. ChannelOf(f) = c /\ Sane(f) /\ \A hosts : Stands(f, hosts) = {b}
    BY <1>7, <2>2
  <2> QED BY <1>3, <1>9, <2>1, <2>2, <2>3 DEF Class, AnswerTo, c
<1> QED BY <1>5, <1>8, <1>9

\* Host h has a copy of g to answer.
Called(devices, ports, h) == \E i \in DOMAIN ports : Leaves(devices, ports, i, <<"host", h>>)

Replied(devices, ports, g) ==
    /\ \A f : f \in todo' <=>
         \/ f \in todo
         \/ \E b \in Ranks : Called(devices, ports, b) /\ f \in Replies(b, g)
    /\ \A k, c, h : \A f : f \in InTodo(k, c, h)' <=>
         \/ f \in InTodo(k, c, h)
         \/ /\ h \in Ranks /\ Called(devices, ports, h) /\ f \in Replies(h, g)
            /\ k = AnswerTo(g.type) /\ c = ChannelOf(g)

LEMMA PassTodo ==
    ASSUME ForwardingInv, NEW R \in RouterNames, NEW p, NEW devices, NEW ports,
           NEW n \in Nat, DOMAIN ports = 1 .. n, NEW g \in Frames, Pass(R, p, devices, ports, g)
    PROVE  Replied(devices, ports, g)
<1> DEFINE hearers == {h \in Ranks : Copies(devices, ports, <<"host", h>>) > 0}
<1>1. UNCHANGED site
  BY PassRings
<1>2. todo' = todo \cup UNION {Replies(b, g) : b \in hearers}
  BY DEF Pass, Inject
<1>3. \A b : b \in hearers <=> b \in Ranks /\ Called(devices, ports, b)
  <2>1. ASSUME NEW b
        PROVE  Copies(devices, ports, <<"host", b>>) > 0 <=> Called(devices, ports, b)
    <3> DEFINE end == <<"host", b>>
    <3>1. Copies(devices, ports, end) > 0 <=>
             \E i \in DOMAIN ports : LinkOf(ports[i]) = end /\ ports[i] \in devices
      <4> HIDE DEF end
      <4> QED BY CopiesFacts
    <3> HIDE DEF end
    <3> QED BY <3>1 DEF Called, Leaves, end
  <2> QED BY <2>1
<1> HIDE DEF hearers
<1>4. \A f : f \in todo' <=>
        \/ f \in todo
        \/ \E b \in Ranks : Called(devices, ports, b) /\ f \in Replies(b, g)
  BY <1>2, <1>3
<1>5. \A k, c, h, f : f \in InTodo(k, c, h)' <=> f \in todo' /\ StandsFor(f, Reach(AccessOf(f), c), k, c, h)
  BY <1>1, SameWays DEF InTodo
<1>6. ASSUME NEW b \in Ranks, NEW f \in Replies(b, g), NEW hosts, NEW k, NEW c, NEW h
      PROVE  StandsFor(f, hosts, k, c, h) <=> k = AnswerTo(g.type) /\ c = ChannelOf(g) /\ h = b
  BY ReplyFacts DEF StandsFor, ForwardingInv
<1>7. ASSUME NEW k, NEW c, NEW h, NEW f
      PROVE  f \in InTodo(k, c, h)' <=>
               \/ f \in InTodo(k, c, h)
               \/ /\ h \in Ranks /\ Called(devices, ports, h) /\ f \in Replies(h, g)
                  /\ k = AnswerTo(g.type) /\ c = ChannelOf(g)
  <2>1. f \in InTodo(k, c, h) <=> f \in todo /\ StandsFor(f, Reach(AccessOf(f), c), k, c, h)
    BY DEF InTodo
  <2>2. (\E b \in Ranks : Called(devices, ports, b) /\ f \in Replies(b, g)) /\ StandsFor(f, Reach(AccessOf(f), c), k, c, h)
          <=> /\ h \in Ranks /\ Called(devices, ports, h) /\ f \in Replies(h, g)
              /\ k = AnswerTo(g.type) /\ c = ChannelOf(g)
    BY <1>6
  <2> QED BY <1>4, <1>5, <2>1, <2>2
<1> QED BY <1>4, <1>7 DEF Replied
-----------------------------------------------------------------------------
(* Every part of an exchange stays in one place.                           *)

\* A step that sends copies of g neither takes nor makes a part of h, or it
\* passes the part on.
Aside(p, devices, ports, g, k, c, h) ==
    /\ <<p, 1>> \notin InRings(k, c, h)
    /\ ~(Class(g) = k /\ ChannelOf(g) = c /\ Copied(devices, ports, g, c, h))
    /\ InSlots(k, c, h)' \subseteq InSlots(k, c, h)
Over(p, devices, ports, g, k, c, h) ==
    /\ Class(g) = k /\ ChannelOf(g) = c /\ CopiedOnce(devices, ports, g, c, h)
    /\ <<p, 1>> \in InRings(k, c, h) \/ InSlots(k, c, h) # {}
    /\ \/ InSlots(k, c, h)' = {}
       \/ ~Copied(devices, ports, g, c, h) /\ \E Q : InSlots(k, c, h)' = {Q}

LEMMA PassOne ==
    ASSUME ForwardingInv, WaysInv, NEW R \in RouterNames, NEW p, NEW devices, NEW ports,
           NEW n \in Nat, DOMAIN ports = 1 .. n, NEW g, Pass(R, p, devices, ports, g),
           NEW k, NEW c, NEW h, Single(k, c, h), NEW t, t = InTodo(k, c, h),
           Aside(p, devices, ports, g, k, c, h) \/ Over(p, devices, ports, g, k, c, h)
    PROVE  /\ OneOf(t, InRings(k, c, h), InHeard(k, c, h), InSlots(k, c, h))'
           /\ ~NoneOf(t, InRings(k, c, h), InHeard(k, c, h), InSlots(k, c, h))' => Held(k, c, h)
           /\ HasHeard(k, c, h) => HasHeard(k, c, h)'
           /\ /\ Held(k, c, h) /\ ~dropped'
              /\ \/ Aside(p, devices, ports, g, k, c, h) /\ InSlots(k, c, h)' = InSlots(k, c, h)
                 \/ /\ Over(p, devices, ports, g, k, c, h)
                    /\ Copied(devices, ports, g, c, h) \/ InSlots(k, c, h)' # {}
              => ~NoneOf(t, InRings(k, c, h), InHeard(k, c, h), InSlots(k, c, h))'
<1> DEFINE rs == InRings(k, c, h)
           hs == InHeard(k, c, h)
           ss == InSlots(k, c, h)
<1>1. OneOf(t, rs, hs, ss) /\ (Held(k, c, h) <=> ~NoneOf(t, rs, hs, ss))
  BY DEF Single, Held
<1>2. (HasHeard(k, c, h) <=> hs # {}) /\ (HasHeard(k, c, h)' <=> hs' # {})
  BY DEF HasHeard
<1>3. ASSUME Aside(p, devices, ports, g, k, c, h)
      PROVE  /\ OneOf(t, rs, hs, ss)' /\ (~NoneOf(t, rs, hs, ss)' => ~NoneOf(t, rs, hs, ss))
             /\ hs' = hs /\ (ss' = ss /\ ~NoneOf(t, rs, hs, ss) => ~NoneOf(t, rs, hs, ss)')
  <2>1. /\ \A z \in rs' : \E y \in rs : z = Shift(p, y)
        /\ \A y \in rs : Shift(p, y) \in rs'
        /\ hs' = hs /\ \A x \in hs : heard'[x] = heard[x]
    BY <1>3, PassAside DEF Aside
  <2>2. ss' \subseteq ss
    BY <1>3 DEF Aside
  <2> HIDE DEF rs, hs, ss
  <2>3. rs' = {} <=> rs = {}
    BY <2>1
  <2>4. \A z : rs = {z} => rs' = {Shift(p, z)}
    BY <2>1
  <2>5. OneOf(t, rs, hs, ss)'
    <3>1. CASE rs = {} /\ hs = {}
      <4>1. rs' = {} /\ hs' = {}
        BY <2>1, <2>3, <3>1
      <4>2. \/ t = {} /\ ss = {}
            \/ ss = {} /\ \E f : t = {f}
            \/ t = {} /\ \E Q : ss = {Q}
        BY <1>1, <3>1 DEF OneOf, NoneOf
      <4>3. ss' = {} \/ ss' = ss
        BY <2>2, <4>2
      <4> QED BY <4>1, <4>2, <4>3 DEF OneOf, NoneOf
    <3>2. CASE rs # {}
      <4>1. t = {} /\ hs = {} /\ ss = {} /\ \E z : rs = {z}
        BY <1>1, <3>2 DEF OneOf, NoneOf
      <4>2. hs' = {} /\ ss' = {} /\ \E z : rs' = {z}
        BY <2>1, <2>2, <2>4, <4>1
      <4> QED BY <4>1, <4>2 DEF OneOf
    <3>3. CASE hs # {}
      <4>1. t = {} /\ rs = {} /\ ss = {} /\ \E x : hs = {x} /\ heard[x] = 1
        BY <1>1, <3>3 DEF OneOf, NoneOf
      <4>2. rs' = {} /\ ss' = {} /\ \E x : hs' = {x} /\ heard'[x] = 1
        BY <2>1, <2>2, <2>3, <4>1
      <4> QED BY <4>1, <4>2 DEF OneOf
    <3> QED BY <3>1, <3>2, <3>3
  <2> QED BY <2>1, <2>2, <2>3, <2>5 DEF NoneOf
<1>4. ASSUME Over(p, devices, ports, g, k, c, h)
      PROVE  /\ OneOf(t, rs, hs, ss)' /\ ~NoneOf(t, rs, hs, ss) /\ hs = {}
             /\ ~dropped' /\ (Copied(devices, ports, g, c, h) \/ ss' # {}) => ~NoneOf(t, rs, hs, ss)'
  <2>1. /\ k = Class(g) /\ c = ChannelOf(g) /\ CopiedOnce(devices, ports, g, c, h)
        /\ <<p, 1>> \in rs \/ ss # {}
        /\ ss' = {} \/ (~Copied(devices, ports, g, c, h) /\ \E Q : ss' = {Q})
    BY <1>4 DEF Over
  <2> HIDE DEF rs, hs, ss
  <2>2. t = {} /\ hs = {} /\ rs \subseteq {<<p, 1>>}
    BY <1>1, <2>1 DEF OneOf, NoneOf
  <2>3. /\ OneOf({}, rs, hs, {})'
        /\ ~Copied(devices, ports, g, c, h) => rs' = {} /\ hs' = {}
        /\ Copied(devices, ports, g, c, h) /\ ~dropped' => rs' # {} \/ hs' # {}
    BY <2>1, <2>2, PassOver DEF rs, hs
  <2>4. OneOf(t, rs, hs, ss)'
    <3>1. CASE ss' = {}
      BY <2>2, <2>3, <3>1
    <3>2. CASE ss' # {}
      BY <2>1, <2>2, <2>3, <3>2 DEF OneOf
    <3> QED BY <3>1, <3>2
  <2> QED BY <2>1, <2>2, <2>3, <2>4 DEF NoneOf
<1> HIDE DEF rs, hs, ss
<1>5. OneOf(t, rs, hs, ss)'
  BY <1>3, <1>4
<1>6. ~NoneOf(t, rs, hs, ss)' => Held(k, c, h)
  BY <1>1, <1>3, <1>4
<1>7. HasHeard(k, c, h) => HasHeard(k, c, h)'
  BY <1>2, <1>3, <1>4
<1>8. /\ Held(k, c, h) /\ ~dropped'
      /\ \/ Aside(p, devices, ports, g, k, c, h) /\ ss' = ss
         \/ /\ Over(p, devices, ports, g, k, c, h)
            /\ Copied(devices, ports, g, c, h) \/ ss' # {}
      => ~NoneOf(t, rs, hs, ss)'
  BY <1>1, <1>3, <1>4
<1> QED BY <1>5, <1>6, <1>7, <1>8 DEF rs, hs, ss

Parts(p, devices, ports, g) ==
    \A k \in Classes : \A c \in Chans : \A h \in Ranks :
        Aside(p, devices, ports, g, k, c, h) \/ Over(p, devices, ports, g, k, c, h)

\* A host answers what it has not answered before.
LEMMA Births ==
    ASSUME ForwardingInv, WaysInv, SingleInv, BornInv, NEW R \in RouterNames, NEW p,
           NEW devices, NEW ports, NEW n \in Nat, DOMAIN ports = 1 .. n, NEW g \in Frames,
           Pass(R, p, devices, ports, g), Parts(p, devices, ports, g),
           NEW h \in Ranks, Called(devices, ports, h), Replies(h, g) # {}, NEW c, c = ChannelOf(g)
    PROVE  /\ c \in Chans /\ g.type \in {"END", "RESPONSE"} /\ h \in RequestersOf(c[1])
           /\ HasHeard(g.type, c, h)' /\ ~Held(AnswerTo(g.type), c, h)
<1>1. PICK f : f \in Replies(h, g)
  OBVIOUS
<1>2. /\ g.type \in {"END", "RESPONSE"} /\ h \in RequestersOf(c[1]) /\ c \in Chans
  BY <1>1, ReplyFacts, ChannelFacts DEF ForwardingInv
<1>3. Class(g) = g.type /\ g.type \in Classes /\ g.type # "ANSWER" /\ g.type \in FromResponder
  BY <1>2 DEF Class, Classes, FromResponder
<1>4. h \in Stands(g, {h})
  BY <1>2, <1>3, MulticastChannel DEF RequestersOf
<1>5. StandsFor(g, {h}, g.type, c, h)
  BY <1>3, <1>4 DEF StandsFor
<1>6. PICK i \in DOMAIN ports : Leaves(devices, ports, i, <<"host", h>>)
  BY DEF Called
<1>7. CopyFor(devices, ports, g, c, i, h)
  BY <1>3, <1>5, <1>6, CopyStands
<1>8. Over(p, devices, ports, g, g.type, c, h)
  BY <1>2, <1>3, <1>7 DEF Parts, Aside, Copied
<1>9. <<p, 1>> \in InRings(g.type, c, h)
  BY <1>3, <1>8 DEF Over, InSlots
<1>10. InHeard(g.type, c, h) = {}
  <2>1. Single(g.type, c, h)
    BY <1>2, <1>3 DEF SingleInv
  <2> QED BY <1>9, <2>1 DEF Single, OneOf, NoneOf
<1>11. ~Held(AnswerTo(g.type), c, h)
  BY <1>2, <1>10 DEF BornInv, HasHeard, AnswerTo
<1>12. HasHeard(g.type, c, h)'
  <2> DEFINE x == [at |-> h, frame |-> g]
  <2>1. x \in BagToSet(heard)'
    BY <1>6, PassHeard DEF Hear
  <2>2. x.at = h /\ x.frame = g
    OBVIOUS
  <2> HIDE DEF x
  <2>3. x \in InHeard(g.type, c, h)'
    BY <1>5, <2>1, <2>2, SpotsThatHold
  <2> QED BY <2>3 DEF HasHeard
<1> QED BY <1>2, <1>11, <1>12

LEMMA PassSingle ==
    ASSUME ForwardingInv, WaysInv, SingleInv, BornInv, NEW R \in RouterNames, NEW p,
           NEW devices, NEW ports, NEW n \in Nat, DOMAIN ports = 1 .. n, NEW g \in Frames,
           Pass(R, p, devices, ports, g), Parts(p, devices, ports, g)
    PROVE  SingleInv'
<1>1. Chans' = Chans
  BY PassRings, SameSite
<1> SUFFICES ASSUME NEW k \in Classes, NEW c \in Chans, NEW h \in Ranks
             PROVE  Single(k, c, h)'
  BY <1>1 DEF SingleInv
<1>0. Replied(devices, ports, g)
  BY PassTodo
<1>2. PICK t : t = InTodo(k, c, h)
  OBVIOUS
<1>3. Single(k, c, h) /\ (Aside(p, devices, ports, g, k, c, h) \/ Over(p, devices, ports, g, k, c, h))
  BY DEF SingleInv, Parts
<1>4. /\ OneOf(t, InRings(k, c, h), InHeard(k, c, h), InSlots(k, c, h))'
      /\ ~NoneOf(t, InRings(k, c, h), InHeard(k, c, h), InSlots(k, c, h))' => Held(k, c, h)
  BY <1>2, <1>3, PassOne
<1>5. CASE InTodo(k, c, h)' = t
  BY <1>4, <1>5 DEF Single
<1>6. CASE InTodo(k, c, h)' # t
  <2>1. PICK f : /\ Called(devices, ports, h) /\ f \in Replies(h, g)
                 /\ k = AnswerTo(g.type) /\ c = ChannelOf(g)
    <3>1. PICK f : ~(f \in InTodo(k, c, h)' <=> f \in t)
      BY <1>6
    <3> QED BY <1>0, <1>2, <3>1 DEF Replied
  <2>2. ~Held(k, c, h)
    BY <2>1, Births
  <2>3. NoneOf(t, InRings(k, c, h), InHeard(k, c, h), InSlots(k, c, h))'
    BY <1>4, <2>2
  <2>4. t = {}
    BY <2>3 DEF NoneOf
  <2>5. Replies(h, g) = {f}
    BY <2>1, ReplyFacts DEF ForwardingInv
  <2>6. InTodo(k, c, h)' = {f}
    BY <1>0, <1>2, <2>1, <2>4, <2>5 DEF Replied
  <2> QED BY <2>3, <2>6 DEF Single, OneOf, NoneOf
<1> QED BY <1>5, <1>6

\* What h has by its answer to k it has heard k for.
LEMMA PassBorn ==
    ASSUME ForwardingInv, WaysInv, SingleInv, BornInv, NEW R \in RouterNames, NEW p,
           NEW devices, NEW ports, NEW n \in Nat, DOMAIN ports = 1 .. n, NEW g \in Frames,
           Pass(R, p, devices, ports, g), Parts(p, devices, ports, g),
           \A Q \in RouterNames : \A c \in Chans : \A h \in Ranks :
             h \in slots'[Q][c].from => h \in slots[Q][c].from \/ Held("ANSWER", c, h)
    PROVE  BornInv'
<1>1. Chans' = Chans /\ RouterNames' = RouterNames
  BY PassRings, SameSite
<1>0. Replied(devices, ports, g)
  BY PassTodo
<1>2. ASSUME NEW k \in Classes, NEW c \in Chans, NEW h \in Ranks, HasHeard(k, c, h)
      PROVE  HasHeard(k, c, h)'
  BY <1>2, PassOne DEF SingleInv, Parts
<1>3. ASSUME NEW k \in {"END", "RESPONSE"}, NEW c \in Chans, NEW h \in Ranks,
             Held(AnswerTo(k), c, h)'
      PROVE  HasHeard(k, c, h)'
  <2> DEFINE a == AnswerTo(k)
  <2>0. a \in Classes /\ k \in Classes
    BY DEF AnswerTo, Classes
  <2>1. PICK t : t = InTodo(a, c, h)
    OBVIOUS
  <2>2. CASE InTodo(a, c, h)' = t
    <3>1. ~NoneOf(t, InRings(a, c, h), InHeard(a, c, h), InSlots(a, c, h))'
      BY <1>3, <2>2 DEF Held
    <3>2. Held(a, c, h)
      BY <2>0, <2>1, <3>1, PassOne DEF SingleInv, Parts
    <3>3. HasHeard(k, c, h)
      BY <3>2 DEF BornInv, AnswerTo
    <3> QED BY <1>2, <2>0, <3>3
  <2>3. CASE InTodo(a, c, h)' # t
    <3>1. PICK f : /\ Called(devices, ports, h) /\ f \in Replies(h, g)
                   /\ a = AnswerTo(g.type) /\ c = ChannelOf(g)
      <4>1. PICK f : ~(f \in InTodo(a, c, h)' <=> f \in t)
        BY <2>3
      <4> QED BY <1>0, <2>1, <4>1 DEF Replied
    <3>2. g.type \in {"END", "RESPONSE"} /\ HasHeard(g.type, c, h)'
      BY <3>1, Births
    <3>3. g.type = k
      BY <3>1, <3>2 DEF AnswerTo
    <3> QED BY <3>2, <3>3
  <2> QED BY <2>2, <2>3
<1>4. ASSUME NEW c \in Chans, NEW h \in Ranks, NEW Q \in RouterNames, h \in slots'[Q][c].from
      PROVE  HasHeard("RESPONSE", c, h)'
  <2>1. HasHeard("RESPONSE", c, h)
    BY <1>4 DEF BornInv
  <2>2. "RESPONSE" \in Classes
    BY DEF Classes
  <2> QED BY <1>2, <2>1, <2>2
<1>5. ASSUME NEW c \in Chans, NEW h \in Ranks
      PROVE  /\ Held("END_ACK", c, h)' => HasHeard("END", c, h)'
             /\ Held("ANSWER", c, h)' => HasHeard("RESPONSE", c, h)'
  <2>1. AnswerTo("END") = "END_ACK" /\ AnswerTo("RESPONSE") = "ANSWER"
    BY DEF AnswerTo
  <2>2. CASE Held("END_ACK", c, h)'
    <3>1. HasHeard("END", c, h)'
      BY <1>3, <2>1, <2>2, Zenon
    <3>2. Held("ANSWER", c, h)' => HasHeard("RESPONSE", c, h)'
      BY <1>3, <2>1, Zenon
    <3> QED BY <3>1, <3>2
  <2>3. CASE ~Held("END_ACK", c, h)'
    BY <1>3, <2>1, <2>3, Zenon
  <2> QED BY <2>2, <2>3
<1> QED BY <1>1, <1>4, <1>5 DEF BornInv

LEMMA PassWays ==
    ASSUME ForwardingInv, WaysInv, NEW R \in RouterNames, NEW p,
           NEW devices, NEW ports, NEW n \in Nat, DOMAIN ports = 1 .. n, NEW g \in Frames, Sane(g),
           Pass(R, p, devices, ports, g), Arrive(devices, ports, g)
    PROVE  WaysInv'
<1>1. /\ UNCHANGED site /\ RouterNames' = RouterNames /\ \A Q : PortsOf(Q)' = PortsOf(Q)
      /\ Ports' = Ports
  BY PassRings, SameSite
<1>2. \A Q, q, f : OnWay(Q, q, f)' = OnWay(Q, q, f)
  BY <1>1, SameWays
<1>3. Frames' = Frames
  BY <1>1 DEF Frames, FrameRecords, Chans, RouterNames, site
<1>4. ASSUME NEW f \in todo' PROVE Sane(f)
  <2>1. Replied(devices, ports, g)
    BY PassTodo
  <2>2. CASE f \in todo
    BY <2>2 DEF WaysInv
  <2>3. CASE f \notin todo
    <3>1. PICK b \in Ranks : f \in Replies(b, g)
      BY <2>1, <2>3 DEF Replied
    <3> QED BY <3>1, ReplyFacts DEF ForwardingInv
  <2> QED BY <2>2, <2>3
<1>5. ASSUME NEW Q \in RouterNames, NEW q \in PortsOf(Q), NEW i \in DOMAIN rings'[q]
      PROVE  OnWay(Q, q, rings'[q][i])
  <2>1. q \in Ports
    BY DEF ForwardingInv, RingsInv, Ports
  <2>2. <<q, i>> \in Spots'
    <3>1. DOMAIN rings'[q] = 1 .. Len(rings'[q]) /\ Len(rings'[q]) < RingSize /\ Len(rings'[q]) \in Nat
      BY <2>1, PassRings DEF Grows
    <3>2. i \in 1 .. RingSize
      BY <3>1, ForwardingAssumption
    <3> QED BY <1>1, <2>1, <3>2 DEF Spots
  <2>3. Moved(p, devices, ports, g)
    BY Positions
  <2>4. CASE \E y \in Spots : <<q, i>> = Shift(p, y) /\ rings'[q][i] = rings[y[1]][y[2]]
    <3>1. PICK y \in Spots : <<q, i>> = Shift(p, y) /\ rings'[q][i] = rings[y[1]][y[2]]
      BY <2>4
    <3>2. y[1] = q /\ y[2] \in DOMAIN rings[q]
      BY <3>1 DEF Shift, Spots
    <3> QED BY <3>1, <3>2 DEF WaysInv
  <2>5. CASE rings'[q][i] = g /\ \E j \in DOMAIN ports : Leaves(devices, ports, j, <<"port", q>>)
    BY <2>5 DEF Arrive, Leaves
  <2> QED BY <2>2, <2>3, <2>4, <2>5 DEF Moved
<1>6. ASSUME NEW x \in BagToSet(heard)'
      PROVE  /\ x.at \in Ranks /\ x.frame \in Frames /\ Sane(x.frame)
             /\ x.frame.type \in FromResponder \ {"RESPONSE"} => x.at # x.frame.src
             /\ x.frame.type \notin FromResponder => x.at = x.frame.dst
  <2>1. CASE x \in BagToSet(heard)
    BY <2>1 DEF WaysInv
  <2>2. CASE x \notin BagToSet(heard)
    <3>1. PICK b \in Ranks : \E i \in DOMAIN ports :
            x = [at |-> b, frame |-> g] /\ Leaves(devices, ports, i, <<"host", b>>)
      <4>1. Hear(devices, ports, g)
        BY PassHeard
      <4> QED BY <2>2, <4>1 DEF Hear
    <3>2. PICK i \in DOMAIN ports : x = [at |-> b, frame |-> g] /\ Leaves(devices, ports, i, <<"host", b>>)
      BY <3>1
    <3>3. x.at = b /\ x.frame = g
      BY <3>2
    <3> QED BY <3>2, <3>3 DEF Arrive, Leaves
  <2> QED BY <2>1, <2>2
<1> QED BY <1>1, <1>2, <1>3, <1>4, <1>5, <1>6 DEF WaysInv

\* Nothing of h gets lost in a step that drops nothing.
Passed(p, devices, ports, g, k, c, h) ==
    \/ Aside(p, devices, ports, g, k, c, h) /\ InSlots(k, c, h)' = InSlots(k, c, h)
    \/ /\ Over(p, devices, ports, g, k, c, h)
       /\ Copied(devices, ports, g, c, h) \/ InSlots(k, c, h)' # {}

LEMMA PassHeld ==
    ASSUME ForwardingInv, WaysInv, SingleInv, NEW R \in RouterNames, NEW p,
           NEW devices, NEW ports, NEW n \in Nat, DOMAIN ports = 1 .. n, NEW g \in Frames,
           Pass(R, p, devices, ports, g),
           NEW k \in Classes, NEW c \in Chans, NEW h \in Ranks,
           Passed(p, devices, ports, g, k, c, h), Held(k, c, h), ~dropped'
    PROVE  Held(k, c, h)'
<1>1. PICK t : t = InTodo(k, c, h)
  OBVIOUS
<1>2. Single(k, c, h) /\ (Aside(p, devices, ports, g, k, c, h) \/ Over(p, devices, ports, g, k, c, h))
  BY DEF SingleInv, Passed
<1>3. ~NoneOf(t, InRings(k, c, h), InHeard(k, c, h), InSlots(k, c, h))'
  BY <1>1, <1>2, PassOne DEF Passed
<1>4. Replied(devices, ports, g)
  BY PassTodo
<1>5. InTodo(k, c, h)' = {} => t = {}
  BY <1>1, <1>4 DEF Replied
<1> QED BY <1>3, <1>5 DEF Held, NoneOf

\* Who hears what is to be answered has an answer to send.
LEMMA PassAnswered ==
    ASSUME ForwardingInv, WaysInv, SingleInv, NEW R \in RouterNames, NEW p,
           NEW devices, NEW ports, NEW n \in Nat, DOMAIN ports = 1 .. n, NEW g \in Frames,
           Pass(R, p, devices, ports, g),
           NEW k \in {"END", "RESPONSE"}, NEW c \in Chans, NEW h \in RequestersOf(c[1]),
           Passed(p, devices, ports, g, AnswerTo(k), c, h), ~dropped',
           g.type = k /\ c = ChannelOf(g) /\ Called(devices, ports, h) => Replies(h, g) # {},
           HasHeard(k, c, h) => Held(AnswerTo(k), c, h),
           HasHeard(k, c, h)'
    PROVE  Held(AnswerTo(k), c, h)'
<1>0. h \in Ranks /\ AnswerTo(k) \in Classes /\ h # c[1]
  BY DEF RequestersOf, AnswerTo, Classes
<1>1. CASE HasHeard(k, c, h)
  BY <1>0, <1>1, PassHeld
<1>2. CASE ~HasHeard(k, c, h)
  <2>1. PICK x \in InHeard(k, c, h)' : TRUE
    BY DEF HasHeard
  <2>2. x \in BagToSet(heard)' /\ StandsFor(x.frame, {x.at}, k, c, h) /\ x \notin BagToSet(heard)
    BY <1>2, <2>1, SpotsThatHold DEF HasHeard
  <2>3. Hear(devices, ports, g) /\ Replied(devices, ports, g)
    BY PassHeard, PassTodo
  <2>4. PICK b \in Ranks : \E i \in DOMAIN ports :
          x = [at |-> b, frame |-> g] /\ Leaves(devices, ports, i, <<"host", b>>)
    BY <2>2, <2>3 DEF Hear
  <2>5. x.at = b /\ x.frame = g /\ Called(devices, ports, b)
    BY <2>4 DEF Called
  <2>6. Class(g) = k /\ ChannelOf(g) = c /\ h \in Stands(g, {b})
    BY <2>2, <2>5 DEF StandsFor
  <2>7. g.type = k
    BY <2>6 DEF Class
  <2>8. h = b
    BY <2>6, <2>7 DEF Stands
  <2>9. PICK f : f \in Replies(h, g)
    BY <2>5, <2>6, <2>7, <2>8
  <2>10. f \in InTodo(AnswerTo(k), c, h)'
    BY <1>0, <2>3, <2>5, <2>6, <2>7, <2>8, <2>9 DEF Replied
  <2> QED BY <2>10 DEF Held, NoneOf
<1> QED BY <1>1, <1>2

LEMMA PassKept ==
    ASSUME ForwardingInv, WaysInv, SingleInv, KeptInv, NEW R \in RouterNames, NEW p,
           NEW devices, NEW ports, NEW n \in Nat, DOMAIN ports = 1 .. n, NEW g \in Frames,
           Pass(R, p, devices, ports, g),
           \A k \in Classes \ {"ANSWER"} : \A c \in Chans : \A h \in Ranks :
             Passed(p, devices, ports, g, k, c, h)
    PROVE  KeptInv'
<1> SUFFICES ASSUME ~dropped' PROVE KeptInv'
  BY DEF KeptInv
<1>1. UNCHANGED site /\ Chans' = Chans /\ ~dropped
  BY PassRings, SameSite
<1>2. ASSUME NEW k \in Classes \ {"ANSWER"}, NEW c \in Chans, NEW h \in RequestersOf(c[1]), Held(k, c, h)
      PROVE  Held(k, c, h)'
  BY <1>2, PassHeld DEF RequestersOf
<1>3. ASSUME NEW e \in work.exchanges, NEW r \in RequestersOf(e.channel[1])
      PROVE  /\ e.kind = "REGISTER" => Held("REGISTER", e.channel, r)'
             /\ \A type \in MulticastsOf(e) : Held(type, e.channel, r)'
  <2>1. e.channel \in Chans
    BY DEF Chans
  <2>2. /\ e.kind = "REGISTER" => Held("REGISTER", e.channel, r)
        /\ \A type \in MulticastsOf(e) : Held(type, e.channel, r)
    BY <1>1 DEF KeptInv
  <2>3. MulticastsOf(e) \cup {"REGISTER"} \subseteq Classes \ {"ANSWER"}
    BY SiteFacts DEF MulticastsOf, Classes, Exchange, ForwardingInv
  <2> QED BY <1>2, <2>1, <2>2, <2>3
<1>4. ASSUME NEW c \in Chans, NEW r \in RequestersOf(c[1]), HasHeard("END", c, r)'
      PROVE  Held("END_ACK", c, r)'
  <2>1. AnswerTo("END") = "END_ACK" /\ "END_ACK" \in Classes \ {"ANSWER"} /\ r \in Ranks
    BY DEF AnswerTo, Classes, RequestersOf
  <2>2. Passed(p, devices, ports, g, AnswerTo("END"), c, r)
    BY <2>1
  <2>3. HasHeard("END", c, r) => Held(AnswerTo("END"), c, r)
    BY <1>1, <2>1 DEF KeptInv
  <2>4. g.type = "END" /\ c = ChannelOf(g) => Replies(r, g) # {}
    BY DEF Replies, RequestersOf
  <2>5. Held(AnswerTo("END"), c, r)'
    BY <1>4, <2>2, <2>3, <2>4, PassAnswered
  <2> QED BY <2>1, <2>5
<1>5. work' = work
  BY <1>1 DEF site
<1> QED BY <1>1, <1>3, <1>4, <1>5 DEF KeptInv

\* What an answer needs in a step: its part goes on, and a credit that a
\* requester hears it answers.
AnswersPass(p, devices, ports, g) ==
    /\ \A c \in Chans : \A h \in Ranks : Passed(p, devices, ports, g, "ANSWER", c, h)
    /\ g.type = "RESPONSE" =>
         \A h \in RequestersOf(ChannelOf(g)[1]) : Called(devices, ports, h) => Replies(h, g) # {}

LEMMA PassAnswersKept ==
    ASSUME ForwardingInv, WaysInv, SingleInv, AnswersKept, NEW R \in RouterNames, NEW p,
           NEW devices, NEW ports, NEW n \in Nat, DOMAIN ports = 1 .. n, NEW g \in Frames,
           Pass(R, p, devices, ports, g), AnswersPass(p, devices, ports, g)
    PROVE  AnswersKept'
<1> SUFFICES ASSUME ~dropped' PROVE AnswersKept'
  BY DEF AnswersKept
<1>1. UNCHANGED site /\ Chans' = Chans /\ ~dropped
  BY PassRings, SameSite
<1>2. AnswerTo("RESPONSE") = "ANSWER"
  BY DEF AnswerTo
<1>3. ASSUME NEW c \in Chans, NEW r \in RequestersOf(c[1]), HasHeard("RESPONSE", c, r)'
      PROVE  Held("ANSWER", c, r)'
  <2>1. r \in Ranks
    BY DEF RequestersOf
  <2>2. Passed(p, devices, ports, g, AnswerTo("RESPONSE"), c, r)
    BY <1>2, <2>1 DEF AnswersPass
  <2>3. HasHeard("RESPONSE", c, r) => Held(AnswerTo("RESPONSE"), c, r)
    BY <1>1, <1>2 DEF AnswersKept
  <2>4. g.type = "RESPONSE" /\ c = ChannelOf(g) /\ Called(devices, ports, r) => Replies(r, g) # {}
    BY DEF AnswersPass
  <2>5. Held(AnswerTo("RESPONSE"), c, r)'
    BY <1>3, <2>2, <2>3, <2>4, PassAnswered
  <2> QED BY <1>2, <2>5
<1> QED BY <1>1, <1>3 DEF AnswersKept
-----------------------------------------------------------------------------
(* The actions, as to what frames stand for.                               *)

TokenInv == WaysInv /\ SingleInv /\ BornInv /\ KeptInv

LEMMA PassTokens ==
    ASSUME ForwardingInv, TokenInv, NEW R \in RouterNames, NEW p,
           NEW devices, NEW ports, NEW n \in Nat, DOMAIN ports = 1 .. n, NEW g \in Frames, Sane(g),
           Pass(R, p, devices, ports, g), Arrive(devices, ports, g), Parts(p, devices, ports, g),
           \A Q \in RouterNames : \A c \in Chans : \A h \in Ranks :
             h \in slots'[Q][c].from => h \in slots[Q][c].from \/ Held("ANSWER", c, h),
           \A k \in Classes \ {"ANSWER"} : \A c \in Chans : \A h \in Ranks :
             Passed(p, devices, ports, g, k, c, h)
    PROVE  TokenInv' /\ (AnswersKept /\ AnswersPass(p, devices, ports, g) => AnswersKept')
<1>1. WaysInv /\ SingleInv /\ BornInv /\ KeptInv
  BY DEF TokenInv
<1>2. WaysInv'
  BY <1>1, PassWays
<1>3. SingleInv'
  BY <1>1, PassSingle
<1>4. BornInv'
  BY <1>1, PassBorn
<1>5. KeptInv'
  BY <1>1, PassKept
<1>6. AnswersKept /\ AnswersPass(p, devices, ports, g) => AnswersKept'
  BY <1>1, PassAnswersKept
<1> QED BY <1>2, <1>3, <1>4, <1>5, <1>6 DEF TokenInv

\* The frame a router takes is the only part of those for whom it stands.
LEMMA Popped ==
    ASSUME ForwardingInv, TokenInv, NEW R \in RouterNames, NEW p \in PortsOf(R), rings[p] # <<>>,
           NEW f, f = First(p), NEW c, c = ChannelOf(f)
    PROVE  /\ f \in Frames /\ OnWay(R, p, f) /\ Sane(f) /\ c \in Chans /\ c \in Channels
           /\ f.type = "RESPONSE" => CreditStackFits(R, p, f)
           /\ f.type = "REQUEST" => RequestStackFits(R, p, f)
           /\ Class(f) \in Classes
           /\ \A k, d, h : <<p, 1>> \in InRings(k, d, h) <=>
                k = Class(f) /\ d = c /\ h \in Stands(f, Reach(p, c))
           /\ \A h \in Ranks : h \in Stands(f, Reach(p, c)) =>
                InSlots(Class(f), c, h) = {} /\ Held(Class(f), c, h)
<1>1. f \in Frames /\ f \in MayWaitAt(R, p)
  BY FirstMayWait DEF ForwardingInv
<1>2. c \in Chans /\ c \in Channels
  BY <1>1, ChannelFacts DEF ForwardingInv
<1>3. f.type \in FrameTypes
  BY <1>1 DEF Frames, FrameRecords
<1>4. Class(f) \in Classes
  BY <1>3 DEF FrameTypes, Class, Classes
<1>5. <<p, 1>> \in Spots /\ 1 \in DOMAIN rings[p]
  <2>1. rings[p] \in Seq(MayWaitAt(R, p)) /\ Len(rings[p]) < RingSize /\ p \in Ports
    BY DEF ForwardingInv, RingsInv, Ports
  <2>2. Len(rings[p]) \in Nat /\ DOMAIN rings[p] = 1 .. Len(rings[p]) /\ Len(rings[p]) # 0
    BY <2>1, LenProperties, EmptySeq
  <2>3. 1 \in DOMAIN rings[p] /\ 1 \in 1 .. RingSize
    BY <2>2, ForwardingAssumption
  <2> QED BY <2>1, <2>3 DEF Spots
<1>6. OnWay(R, p, f)
  BY <1>5 DEF TokenInv, WaysInv, First
<1>7. \A k, d, h : <<p, 1>> \in InRings(k, d, h) <=>
        k = Class(f) /\ d = c /\ h \in Stands(f, Reach(p, c))
  <2>1. \A k, d, h : <<p, 1>> \in InRings(k, d, h) <=> StandsFor(f, Reach(p, d), k, d, h)
    BY <1>5, SpotsThatHold DEF First
  <2> QED BY <2>1 DEF StandsFor
<1>8. ASSUME NEW h \in Ranks, h \in Stands(f, Reach(p, c))
      PROVE  InSlots(Class(f), c, h) = {} /\ Held(Class(f), c, h)
  <2>1. <<p, 1>> \in InRings(Class(f), c, h)
    BY <1>7, <1>8
  <2>2. Single(Class(f), c, h)
    BY <1>2, <1>4 DEF TokenInv, SingleInv
  <2> QED BY <2>1, <2>2 DEF Single, OneOf, NoneOf, Held
<1> QED BY <1>1, <1>2, <1>4, <1>6, <1>7, <1>8 DEF MayWaitAt, OnWay

\* A frame that goes on as it was, for the same hosts.
LEMMA PartsGoOn ==
    ASSUME ForwardingInv, TokenInv, NEW R \in RouterNames, NEW p \in PortsOf(R), rings[p] # <<>>,
           NEW devices, NEW ports, NEW g, Class(g) = Class(First(p)), ChannelOf(g) = ChannelOf(First(p)),
           \A h \in Ranks :
             /\ Copied(devices, ports, g, ChannelOf(g), h) <=> h \in Stands(First(p), Reach(p, ChannelOf(g)))
             /\ CopiedOnce(devices, ports, g, ChannelOf(g), h),
           NEW k \in Classes, NEW c \in Chans, NEW h \in Ranks, InSlots(k, c, h)' \subseteq InSlots(k, c, h)
    PROVE  /\ Aside(p, devices, ports, g, k, c, h) \/ Over(p, devices, ports, g, k, c, h)
           /\ InSlots(k, c, h)' = InSlots(k, c, h) => Passed(p, devices, ports, g, k, c, h)
<1> DEFINE f == First(p)
<1>1. <<p, 1>> \in InRings(k, c, h) <=> k = Class(f) /\ c = ChannelOf(f) /\ h \in Stands(f, Reach(p, ChannelOf(f)))
  BY Popped
<1>2. CASE k = Class(f) /\ c = ChannelOf(f) /\ h \in Stands(f, Reach(p, ChannelOf(f)))
  <2>1. InSlots(k, c, h) = {}
    BY <1>1, <1>2 DEF TokenInv, SingleInv, Single, OneOf, NoneOf
  <2>2. Over(p, devices, ports, g, k, c, h) /\ Copied(devices, ports, g, c, h)
    BY <1>1, <1>2, <2>1 DEF Over
  <2> QED BY <2>2 DEF Passed
<1>3. CASE ~(k = Class(f) /\ c = ChannelOf(f) /\ h \in Stands(f, Reach(p, ChannelOf(f))))
  <2>1. Aside(p, devices, ports, g, k, c, h)
    BY <1>1, <1>3 DEF Aside
  <2> QED BY <2>1 DEF Passed
<1> QED BY <1>2, <1>3

LEMMA SlotsStay ==
    ASSUME slots' = slots, UNCHANGED site
    PROVE  \A k, c, h : InSlots(k, c, h)' = InSlots(k, c, h)
BY SameSite DEF InSlots

LEMMA MulticastControlPasses ==
    ASSUME ForwardingInv, TokenInv, NEW R \in RouterNames, NEW p \in PortsOf(R), MulticastControl(R, p)
    PROVE  TokenInv' /\ (AnswersKept => AnswersKept')
<1> DEFINE f       == First(p)
           c       == ChannelOf(f)
           devices == IF FromParent(R, c, p) THEN PortsOf(R) \ {p} ELSE PortsOf(R)
           ports   == McastPorts(R, p, c)
<1>1. /\ rings[p] # <<>> /\ f.type \in {"REGISTER_ACK", "END"}
      /\ Pass(R, p, devices, ports, f) /\ slots' = slots
  BY DEF MulticastControl, Waits
<1>2. /\ f \in Frames /\ OnWay(R, p, f) /\ Sane(f) /\ c \in Chans /\ c \in Channels
  BY <1>1, Popped
<1>3. PICK n \in Nat : DOMAIN ports = 1 .. n
  BY PortsAreSeqs DEF ForwardingInv
<1>4. f.type \in FromResponder /\ f.type # "RESPONSE" /\ <<p, c>> \in DOMAIN Top.reach
  BY <1>1, <1>2 DEF FromResponder, OnWay
<1> HIDE DEF f, c, devices, ports
<1>5. /\ \A h \in Ranks : Copied(devices, ports, f, c, h) <=> h \in Stands(f, Reach(p, c))
      /\ \A h \in Ranks : CopiedOnce(devices, ports, f, c, h)
      /\ Arrive(devices, ports, f)
  <2>1. devices = IF f.type # "RESPONSE" /\ FromParent(R, c, p) THEN PortsOf(R) \ {p} ELSE PortsOf(R)
    BY <1>4 DEF devices
  <2> QED BY <1>2, <1>4, <2>1, SpreadCopies DEF ForwardingInv, RingsInv, c, ports
<1>6. UNCHANGED site
  BY <1>1, <1>3, PassRings
<1>7. ASSUME NEW k \in Classes, NEW d \in Chans, NEW h \in Ranks
      PROVE  /\ Aside(p, devices, ports, f, k, d, h) \/ Over(p, devices, ports, f, k, d, h)
             /\ Passed(p, devices, ports, f, k, d, h)
  <2>1. InSlots(k, d, h)' = InSlots(k, d, h)
    BY <1>1, <1>6, SlotsStay
  <2> QED BY <1>1, <1>5, <2>1, PartsGoOn DEF f, c
<1>8. AnswersPass(p, devices, ports, f)
  BY <1>4, <1>7 DEF AnswersPass, Classes
<1> QED BY <1>1, <1>2, <1>3, <1>5, <1>7, <1>8, PassTokens DEF Parts

\* What a change of one slot means for the parts that slots have.
Reslotted(R, c, new) ==
    /\ \A Q \in RouterNames : \A d \in Chans : ~(Q = R /\ d = c) => slots'[Q][d] = slots[Q][d]
    /\ slots'[R][c] = new
    /\ \A k, h : \A d \in Chans : \A Q :
         Q \in InSlots(k, d, h)' <=>
           IF Q = R /\ d = c THEN k = "ANSWER" /\ ~new.forwarded /\ h \in new.from
           ELSE Q \in InSlots(k, d, h)

LEMMA SlotChanges ==
    ASSUME SlotsInv, UNCHANGED site, NEW R \in RouterNames, NEW c \in Chans, NEW new,
           slots' = [slots EXCEPT ![R][c] = new]
    PROVE  Reslotted(R, c, new)
<1>1. slots \in [RouterNames -> [Chans -> SlotRecords]] /\ RouterNames' = RouterNames
  BY SameSite DEF SlotsInv
<1>2. /\ \A Q \in RouterNames : \A d \in Chans : ~(Q = R /\ d = c) => slots'[Q][d] = slots[Q][d]
      /\ slots'[R][c] = new
  BY <1>1
<1>3. ASSUME NEW k, NEW h, NEW d \in Chans, NEW Q
      PROVE  Q \in InSlots(k, d, h)' <=>
               IF Q = R /\ d = c THEN k = "ANSWER" /\ ~new.forwarded /\ h \in new.from
               ELSE Q \in InSlots(k, d, h)
  BY <1>1, <1>2 DEF InSlots
<1> QED BY <1>2, <1>3 DEF Reslotted

\* What a router makes of a credit: the same, with its level on top or not.
LEMMA CreditSent ==
    ASSUME ForwardingInv, NEW R \in RouterNames, NEW f \in Frames, f.type = "RESPONSE",
           NEW push \in BOOLEAN,
           NEW g, g = IF push THEN [f EXCEPT !.stack = Append(f.stack, R)] ELSE f
    PROVE  /\ g \in Frames /\ g.type = "RESPONSE" /\ ChannelOf(g) = ChannelOf(f)
           /\ g.src = f.src /\ g.stack = IF push THEN Append(f.stack, R) ELSE f.stack
<1>1. f \in FrameRecords /\ f.stack \in Seq(RouterNames) /\ ChannelOf(f) \in Chans
  BY DEF Frames, FrameRecords
<1>2. Append(f.stack, R) \in Seq(RouterNames)
  BY <1>1, AppendProperties
<1>3. CASE push
  <2>1. g = [f EXCEPT !.stack = Append(f.stack, R)]
    BY <1>3
  <2>2. /\ g \in FrameRecords /\ g.stack = Append(f.stack, R)
        /\ g.type = f.type /\ g.src = f.src /\ g.dst = f.dst /\ g.sub = f.sub
    BY <1>1, <1>2, <2>1 DEF FrameRecords
  <2>3. ChannelOf(g) = ChannelOf(f)
    BY <2>2 DEF ChannelOf
  <2> QED BY <1>1, <1>3, <2>2, <2>3 DEF Frames
<1> QED BY <1>3

\* A router takes the credit f from port p and passes it on as g, with
\* itself pushed where it is a level of the tree below which p is.
Relays(R, p, f, c, push, g) ==
    /\ rings[p] # <<>> /\ f = First(p) /\ f.type = "RESPONSE" /\ c = ChannelOf(f)
    /\ push \in BOOLEAN /\ (push <=> IsLevel(R, c) /\ FromParent(R, c, p))
    /\ g = (IF push THEN [f EXCEPT !.stack = Append(f.stack, R)] ELSE f)

\* A credit that a requester hears has bound the slots of its plan, and the
\* requester answers it.
LEMMA CreditAnswered ==
    ASSUME ForwardingInv, TokenInv, NEW R \in RouterNames, NEW p \in PortsOf(R),
           NEW f, NEW c, NEW push, NEW g, Relays(R, p, f, c, push, g),
           NEW h \in RequestersOf(c[1]), Called(PortsOf(R), McastPorts(R, p, c), h)
    PROVE  /\ FromParent(R, c, p) /\ g.stack = Below(R, c) /\ g.stack # <<>>
           /\ \A Q \in LevelsOf(c) : h \in U(Q, c) => Q \in Range(g.stack)
           /\ h \in Reach(p, c) /\ Replies(h, g) # {}
<1>0. /\ rings[p] # <<>> /\ f = First(p) /\ f.type = "RESPONSE" /\ c = ChannelOf(f)
      /\ push \in BOOLEAN /\ (push <=> IsLevel(R, c) /\ FromParent(R, c, p))
      /\ g = (IF push THEN [f EXCEPT !.stack = Append(f.stack, R)] ELSE f)
  BY DEF Relays
<1> USE <1>0
<1>1. /\ f \in Frames /\ OnWay(R, p, f) /\ c \in Chans /\ c \in Channels
      /\ CreditStackFits(R, p, f) /\ <<p, c>> \in DOMAIN Top.reach
  <2>1. f \in Frames /\ OnWay(R, p, f) /\ c \in Chans /\ c \in Channels /\ CreditStackFits(R, p, f)
    BY Popped
  <2> QED BY <2>1 DEF OnWay, FromResponder
<1>2. g \in Frames /\ g.type = "RESPONSE" /\ ChannelOf(g) = c
      /\ g.stack = IF push THEN Append(f.stack, R) ELSE f.stack
  <2>1. /\ g \in Frames /\ g.type = "RESPONSE" /\ ChannelOf(g) = ChannelOf(f)
        /\ g.stack = IF push THEN Append(f.stack, R) ELSE f.stack
    <3>1. f \in Frames /\ push \in BOOLEAN /\ f.type = "RESPONSE"
      BY <1>1
    <3> HIDE DEF First
    <3> QED BY ONLY ForwardingInv, <3>1, CreditSent,
                    g = (IF push THEN [f EXCEPT !.stack = Append(f.stack, R)] ELSE f), R \in RouterNames
  <2> QED BY <2>1
<1>3. Spreads(fabric, Top, R, c, p)
  BY <1>1, WayFacts DEF ForwardingInv
<1>4. h \in Ranks /\ h # c[1]
  BY DEF RequestersOf
<1>5. PICK i \in DOMAIN McastPorts(R, p, c) : Leaves(PortsOf(R), McastPorts(R, p, c), i, <<"host", h>>)
  BY DEF Called
<1>6. PICK q : q = McastPorts(R, p, c)[i]
  OBVIOUS
<1>7. q \in McastFrom(fabric, R, c, p) /\ Top.links[q] = <<"host", h>>
  <2>1. Range(McastPorts(R, p, c)) = McastFrom(fabric, R, c, p)
    BY McastPortsFacts DEF ForwardingInv
  <2> QED BY <1>5, <1>6, <2>1 DEF Range, Leaves, LinkOf, ForwardingInv, SiteInv
<1>8. p = NodeIn(fabric, R, c).down /\ h \in Top.reach[<<p, c>>]
  <2>1. /\ Top.reach[<<p, c>>] = UNION {Behind(Top, z, c) : z \in McastFrom(fabric, R, c, p)}
        /\ \/ \E x \in DOMAIN Top.reach : x[2] = c /\ Top.links[q] = <<"port", x[1]>>
           \/ p = NodeIn(fabric, R, c).down
    BY <1>3, <1>7 DEF Spreads
  <2>2. ~\E x : Top.links[q] = <<"port", x>>
    BY <1>7
  <2>3. h \in Behind(Top, q, c)
    BY <1>4, <1>7 DEF Behind
  <2> QED BY <1>7, <2>1, <2>2, <2>3
<1>9. Within(fabric, R, c)
  BY <1>7 DEF McastFrom
<1>10. FromParent(R, c, p) /\ InTree(R, c)
  BY <1>8, <1>9 DEF FromParent, InTree, TreeAt, Within, NodeIn, Config
<1>11. g.stack = Below(R, c)
  BY <1>1, <1>2, <1>10 DEF CreditStackFits, Below, LevelsBelow, IsLevel, Above, NodeIn, TreeAt, Config
<1>12. /\ Len(fabric.plans[<<h, c>>]) = Len(g.stack) /\ g.stack # <<>>
       /\ \A Q \in LevelsOf(c) : h \in U(Q, c) => Q \in Range(g.stack)
  <2>1. Delivers(fabric, Top, R, c)
    BY <1>9, WayFacts DEF Within, Config, ForwardingInv
  <2>2. q \in McastFrom(fabric, R, c, NodeIn(fabric, R, c).down)
    BY <1>7, <1>8
  <2> QED BY <1>7, <1>11, <2>1, <2>2 DEF Delivers, Below, LevelsOf, U
<1>13. Replies(h, g) # {}
  BY <1>2, <1>4, <1>12 DEF Replies, PlanFor
<1> QED BY <1>1, <1>8, <1>10, <1>11, <1>12, <1>13 DEF Reach

\* The slot that a credit binds anew has no part of an answer to it.
LEMMA BoundIsIdle ==
    ASSUME ForwardingInv, TokenInv, DataInv, NEW R \in RouterNames, NEW p \in PortsOf(R), rings[p] # <<>>,
           NEW f, f = First(p), f.type = "RESPONSE", NEW c, c = ChannelOf(f),
           IsLevel(R, c), FromParent(R, c, p)
    PROVE  slots[R][c].from = {}
<1>1. /\ c \in Chans /\ c \in Channels /\ <<p, c>> \in DOMAIN Top.reach
      /\ \A h \in Ranks : h \in Reach(p, c) => <<p, 1>> \in InRings("RESPONSE", c, h)
  <2>1. OnWay(R, p, f) /\ c \in Chans /\ c \in Channels
    BY Popped
  <2>2. \A k, d, h : <<p, 1>> \in InRings(k, d, h) <=> k = Class(f) /\ d = c /\ h \in Stands(f, Reach(p, c))
    BY Popped
  <2>3. Class(f) = "RESPONSE" /\ \A hosts : Stands(f, hosts) = hosts
    BY DEF Class, Stands
  <2> QED BY <2>1, <2>2, <2>3 DEF OnWay, FromResponder
<1>2. R \in LevelsOf(c) /\ U(R, c) \subseteq Reach(p, c)
  BY <1>1 DEF IsLevel, InTree, FromParent, TreeAt, LevelsOf, Levels, Within, NodeIn, Config, RouterNames,
     U, Under, Reach
<1>3. SlotFits(R, c) /\ slots[R][c] \in SlotRecords
  BY <1>1 DEF DataInv, ForwardingInv, SlotsInv
<1>4. slots[R][c].from \subseteq U(R, c) /\ slots[R][c].from \subseteq Ranks
  BY <1>2, <1>3 DEF SlotFits, SlotRecords
<1>5. ASSUME NEW h \in slots[R][c].from PROVE FALSE
  <2>1. h \in Ranks /\ h \in Reach(p, c)
    BY <1>2, <1>4, <1>5
  <2>2. HasHeard("RESPONSE", c, h)
    BY <1>1, <1>5, <2>1 DEF TokenInv, BornInv
  <2>3. <<p, 1>> \in InRings("RESPONSE", c, h)
    BY <1>1, <2>1
  <2>4. Single("RESPONSE", c, h)
    BY <1>1, <2>1 DEF TokenInv, SingleInv, Classes
  <2> QED BY <2>2, <2>3, <2>4 DEF Single, OneOf, NoneOf, HasHeard
<1> QED BY <1>5

LEMMA MulticastResponsePasses ==
    ASSUME ForwardingInv, TokenInv, NEW R \in RouterNames, NEW p \in PortsOf(R), MulticastResponse(R, p)
    PROVE  TokenInv' /\ (AnswersKept /\ DataInv => AnswersKept')
<1> DEFINE f     == First(p)
           c     == ChannelOf(f)
           push  == IsLevel(R, c) /\ FromParent(R, c, p)
           g     == IF push THEN [f EXCEPT !.stack = Append(f.stack, R)] ELSE f
           ports == McastPorts(R, p, c)
<1>1. /\ rings[p] # <<>> /\ f.type = "RESPONSE"
      /\ slots' = IF push THEN [slots EXCEPT ![R][c] = [NoSlot EXCEPT !.bound = R \notin work.lost]]
                  ELSE slots
      /\ Pass(R, p, PortsOf(R), ports, g)
  BY DEF MulticastResponse, Waits
<1>2. /\ f \in Frames /\ OnWay(R, p, f) /\ c \in Chans /\ c \in Channels
  BY <1>1, Popped
<1>3. PICK n \in Nat : DOMAIN ports = 1 .. n
  BY PortsAreSeqs DEF ForwardingInv
<1>4. g \in Frames /\ g.type = "RESPONSE" /\ ChannelOf(g) = c
  <2>1. PICK b \in BOOLEAN : b = push
    BY DEF IsLevel, InTree, FromParent
  <2>2. g = IF b THEN [f EXCEPT !.stack = Append(f.stack, R)] ELSE f
    BY <2>1
  <2> HIDE DEF g, f
  <2> QED BY <1>1, <1>2, <2>2, CreditSent
<1>5. /\ "RESPONSE" \in FromResponder /\ <<p, c>> \in DOMAIN Top.reach
      /\ Class(g) = "RESPONSE" /\ Class(f) = "RESPONSE" /\ Sane(g)
      /\ \A hosts : Stands(g, hosts) = hosts /\ Stands(f, hosts) = hosts
  BY <1>1, <1>2, <1>4 DEF FromResponder, OnWay, Class, Sane, Stands
<1>6. UNCHANGED site /\ Chans' = Chans /\ RouterNames' = RouterNames
  BY <1>1, <1>3, PassRings, SameSite
<1>7. \A Q \in RouterNames : \A d \in Chans :
        slots'[Q][d] = slots[Q][d] \/ slots'[Q][d].from = {}
  <2>1. [NoSlot EXCEPT !.bound = R \notin work.lost].from = {}
    BY DEF NoSlot
  <2>2. PICK s : s = [NoSlot EXCEPT !.bound = R \notin work.lost]
    OBVIOUS
  <2>3. slots' = slots \/ slots' = [slots EXCEPT ![R][c] = s]
    BY <1>1, <2>2
  <2>4. PICK e : e = c
    OBVIOUS
  <2>5. slots' = slots \/ slots' = [slots EXCEPT ![R][e] = s]
    BY <2>3, <2>4
  <2>6. s.from = {} /\ slots \in [RouterNames -> [Chans -> SlotRecords]]
    BY <2>1, <2>2 DEF ForwardingInv, SlotsInv
  <2>7. ASSUME NEW Q \in RouterNames, NEW d \in Chans
        PROVE  slots'[Q][d] = slots[Q][d] \/ slots'[Q][d] = s
    BY <2>5, <2>6
  <2> QED BY <2>6, <2>7
<1> HIDE DEF f, c, push, g, ports
<1>8. /\ \A h \in Ranks : Copied(PortsOf(R), ports, g, c, h) <=> h \in Stands(g, Reach(p, c))
      /\ \A h \in Ranks : CopiedOnce(PortsOf(R), ports, g, c, h)
      /\ Arrive(PortsOf(R), ports, g)
  BY <1>2, <1>4, <1>5, SpreadCopies DEF ForwardingInv, RingsInv, ports
<1>9. ASSUME NEW k \in Classes, NEW d \in Chans, NEW h \in Ranks
      PROVE  /\ Aside(p, PortsOf(R), ports, g, k, d, h) \/ Over(p, PortsOf(R), ports, g, k, d, h)
             /\ k # "ANSWER" => Passed(p, PortsOf(R), ports, g, k, d, h)
  <2>1. InSlots(k, d, h)' \subseteq InSlots(k, d, h)
    BY <1>6, <1>7 DEF InSlots
  <2>2. k # "ANSWER" => InSlots(k, d, h)' = InSlots(k, d, h)
    BY DEF InSlots
  <2>3. Class(g) = Class(f) /\ ChannelOf(g) = ChannelOf(f) /\ ChannelOf(g) = c
    BY <1>4, <1>5 DEF c
  <2>4. \A x \in Ranks : Copied(PortsOf(R), ports, g, c, x) <=> x \in Stands(f, Reach(p, c))
    BY <1>5, <1>8
  <2> QED BY <1>1, <1>8, <2>1, <2>2, <2>3, <2>4, PartsGoOn DEF f
<1>10. \A Q \in RouterNames : \A d \in Chans : \A h \in Ranks :
         h \in slots'[Q][d].from => h \in slots[Q][d].from
  BY <1>7
<1>11. ASSUME DataInv PROVE AnswersPass(p, PortsOf(R), ports, g)
  <2>1. PICK b \in BOOLEAN : b = push
    BY DEF IsLevel, InTree, FromParent, push
  <2>2. ASSUME NEW h \in RequestersOf(c[1]), Called(PortsOf(R), ports, h)
        PROVE  Replies(h, g) # {}
    <3>1. g = IF b THEN [f EXCEPT !.stack = Append(f.stack, R)] ELSE f
      BY <2>1 DEF g
    <3>2. b = (IsLevel(R, c) /\ FromParent(R, c, p))
      BY <2>1 DEF push
    <3>3. /\ rings[p] # <<>> /\ f = First(p) /\ f.type = "RESPONSE" /\ c = ChannelOf(f)
      BY <1>1 DEF f, c
    <3>4. Relays(R, p, f, c, b, g)
      BY <3>1, <3>2, <3>3 DEF Relays
    <3> QED BY <2>2, <3>4, CreditAnswered DEF ports
  <2>3. push => slots[R][c].from = {}
    BY <1>1, <1>11, BoundIsIdle DEF push, f, c
  <2>4. ASSUME NEW Q \in RouterNames, NEW d \in Chans
        PROVE  slots'[Q][d].from = slots[Q][d].from /\ (slots'[Q][d] = slots[Q][d] \/ slots[Q][d].from = {})
    <3>1. CASE push
      <4>1. PICK new : new = [NoSlot EXCEPT !.bound = R \notin work.lost]
        OBVIOUS
      <4>2. new.from = {} /\ slots' = [slots EXCEPT ![R][c] = new]
        BY <1>1, <3>1, <4>1 DEF NoSlot
      <4>3. Reslotted(R, c, new)
        BY <1>2, <1>6, <4>2, SlotChanges DEF ForwardingInv
      <4>4. CASE Q = R /\ d = c
        BY <2>3, <3>1, <4>2, <4>3, <4>4 DEF Reslotted
      <4>5. CASE ~(Q = R /\ d = c)
        BY <4>3, <4>5 DEF Reslotted
      <4> QED BY <4>4, <4>5
    <3>2. CASE ~push
      BY <1>1, <3>2
    <3> QED BY <3>1, <3>2
  <2>5. ASSUME NEW d \in Chans, NEW h \in Ranks
        PROVE  Passed(p, PortsOf(R), ports, g, "ANSWER", d, h)
    <3>1. InSlots("ANSWER", d, h)' = InSlots("ANSWER", d, h)
      BY <1>6, <2>4 DEF InSlots
    <3>2. "ANSWER" \in Classes
      BY DEF Classes
    <3>3. /\ Class(g) = Class(f) /\ ChannelOf(g) = ChannelOf(f) /\ ChannelOf(g) = c
          /\ \A x \in Ranks : Copied(PortsOf(R), ports, g, c, x) <=> x \in Stands(f, Reach(p, c))
      BY <1>4, <1>5, <1>8 DEF c
    <3> QED BY <1>1, <1>8, <3>1, <3>2, <3>3, PartsGoOn DEF f
  <2> QED BY <1>4, <2>2, <2>5 DEF AnswersPass
<1> QED BY <1>1, <1>3, <1>4, <1>5, <1>8, <1>9, <1>10, <1>11, PassTokens DEF Parts

Missed(f) == [f EXCEPT !.type = "AGG_MISS", !.stack = <<>>, !.fanins = <<>>]
Summed(f, k, s) == [PoppedLevel(f) EXCEPT !.count = k, !.from = s]
SameEnds(g, f) == g.src = f.src /\ g.dst = f.dst /\ g.sub = f.sub

\* What a router makes of a request with a level left.
LEMMA RequestSent ==
    ASSUME ForwardingInv, NEW R \in RouterNames, NEW p, NEW f \in Frames, f.type = "REQUEST",
           RequestStackFits(R, p, f), Aggregates(R, f), NEW k \in Nat, NEW s \in SUBSET Ranks
    PROVE  /\ /\ PoppedLevel(f) \in Frames /\ PoppedLevel(f).type = "REQUEST"
              /\ ChannelOf(PoppedLevel(f)) = ChannelOf(f) /\ SameEnds(PoppedLevel(f), f)
              /\ PoppedLevel(f).from = f.from /\ PoppedLevel(f).count = f.count
              /\ PoppedLevel(f).stack = Above(R) /\ PoppedLevel(f).fanins = Front(f.fanins)
           /\ /\ Missed(f) \in Frames /\ Missed(f).type = "AGG_MISS"
              /\ ChannelOf(Missed(f)) = ChannelOf(f) /\ SameEnds(Missed(f), f)
              /\ Missed(f).from = f.from
           /\ /\ Summed(f, k, s) \in Frames /\ Summed(f, k, s).type = "REQUEST"
              /\ ChannelOf(Summed(f, k, s)) = ChannelOf(f) /\ SameEnds(Summed(f, k, s), f)
              /\ Summed(f, k, s).from = s /\ Summed(f, k, s).count = k
              /\ Summed(f, k, s).stack = Above(R) /\ Summed(f, k, s).fanins = Front(f.fanins)
<1>1. /\ PoppedLevel(f) \in Frames /\ PoppedLevel(f).stack = Above(R)
      /\ PoppedLevel(f).type = "REQUEST" /\ ChannelOf(PoppedLevel(f)) = ChannelOf(f)
  BY PopTakesOwnLevel DEF ForwardingInv
<1>2. f \in FrameRecords /\ ChannelOf(f) \in Chans /\ ChannelOf(f) = <<f.dst, f.sub>>
  BY DEF Frames, ChannelOf, FromResponder
<1>3. /\ SameEnds(PoppedLevel(f), f) /\ PoppedLevel(f).from = f.from
      /\ PoppedLevel(f).count = f.count /\ PoppedLevel(f).fanins = Front(f.fanins)
  <2>1. PoppedLevel(f) = [f EXCEPT !.stack = Front(f.stack), !.fanins = Front(f.fanins)]
    BY DEF PoppedLevel
  <2> QED BY <1>2, <2>1 DEF FrameRecords, SameEnds
<1>4. /\ Missed(f) \in Frames /\ Missed(f).type = "AGG_MISS"
      /\ ChannelOf(Missed(f)) = ChannelOf(f) /\ SameEnds(Missed(f), f) /\ Missed(f).from = f.from
  <2>1. <<>> \in Seq(RouterNames) /\ <<>> \in Seq(Nat)
    BY EmptySeq
  <2>2. /\ Missed(f) \in FrameRecords /\ Missed(f).type = "AGG_MISS"
        /\ SameEnds(Missed(f), f) /\ Missed(f).from = f.from
    BY <1>2, <2>1 DEF Missed, FrameRecords, FrameTypes, SameEnds
  <2>3. ChannelOf(Missed(f)) = <<f.dst, f.sub>>
    BY <2>2 DEF ChannelOf, FromResponder, SameEnds
  <2> QED BY <1>2, <2>2, <2>3 DEF Frames
<1>5. PICK popped \in Frames : popped = PoppedLevel(f)
  BY <1>1
<1>6. PICK g : g = Summed(f, k, s)
  OBVIOUS
<1>7. g = [popped EXCEPT !.count = k, !.from = s]
  BY <1>5, <1>6 DEF Summed
<1>8. /\ g \in FrameRecords /\ g.stack = popped.stack /\ g.fanins = popped.fanins
      /\ g.type = popped.type /\ SameEnds(g, popped) /\ g.count = k /\ g.from = s
  BY <1>7 DEF Frames, FrameRecords, SameEnds
<1>9. ChannelOf(g) = ChannelOf(popped)
  BY <1>8 DEF ChannelOf, SameEnds
<1>10. g \in Frames
  BY <1>8, <1>9 DEF Frames
<1>11. /\ g.type = "REQUEST" /\ ChannelOf(g) = ChannelOf(f) /\ SameEnds(g, f)
       /\ g.from = s /\ g.count = k /\ g.stack = Above(R) /\ g.fanins = Front(f.fanins)
  BY <1>1, <1>3, <1>5, <1>8, <1>9 DEF SameEnds
<1> QED BY <1>1, <1>3, <1>4, <1>6, <1>10, <1>11

\* What may become of it, and of the slot.
Joined(slot, f, fanin) == [slot EXCEPT !.fanin = fanin, !.count = @ + f.count, !.from = @ \cup f.from]

LEMMA RequestCases ==
    ASSUME ForwardingInv, NEW R \in RouterNames, NEW p \in PortsOf(R), Request(R, p),
           NEW f, f = First(p), NEW c, c = ChannelOf(f), NEW slot, slot = slots[R][c],
           NEW fanin, fanin = f.fanins[Len(f.stack)], NEW ports, ports = BypassPorts(R, p, c),
           NEW next, next = Joined(slot, f, fanin)
    PROVE  /\ rings[p] # <<>> /\ f.type = "REQUEST" /\ Aggregates(R, f) /\ f \in Frames
           /\ RequestStackFits(R, p, f) /\ c \in Chans /\ slot \in SlotRecords /\ fanin \in Nat
           /\ next \in SlotRecords /\ next.count = slot.count + f.count /\ next.fanin = fanin
           /\ next.from = slot.from \cup f.from /\ next.bound = slot.bound
           /\ \/ fanin = 1 /\ Pass(R, p, PortsOf(R), ports, PoppedLevel(f)) /\ slots' = slots
              \/ /\ fanin # 1 /\ ~Accepts(slot, fanin, f)
                 /\ Pass(R, p, PortsOf(R), ports, Missed(f)) /\ slots' = slots
              \/ /\ fanin # 1 /\ Accepts(slot, fanin, f) /\ next.count = fanin
                 /\ slots' = [slots EXCEPT ![R][c] = [next EXCEPT !.forwarded = TRUE]]
                 /\ Pass(R, p, PortsOf(R), ports, Summed(f, next.count, next.from))
              \/ /\ fanin # 1 /\ Accepts(slot, fanin, f) /\ next.count # fanin
                 /\ slots' = [slots EXCEPT ![R][c] = [next EXCEPT !.forwarded = FALSE]]
                 /\ Pass(R, p, PortsOf(R), <<>>, f)
<1>1. rings[p] # <<>> /\ f.type = "REQUEST" /\ Aggregates(R, f)
  BY DEF Request, Waits
<1>2. f \in Frames /\ RequestStackFits(R, p, f)
  BY <1>1, FirstMayWait DEF ForwardingInv, MayWaitAt
<1>3. fanin \in Nat
  BY <1>1, <1>2, PopTakesOwnLevel DEF ForwardingInv
<1>4. /\ c \in Chans /\ slot \in SlotRecords /\ f.count \in Nat /\ f.from \subseteq Ranks
  BY <1>2, ChannelFacts DEF ForwardingInv, SlotsInv, Frames, FrameRecords
<1>5. /\ next \in SlotRecords /\ next.count = slot.count + f.count /\ next.fanin = fanin
      /\ next.from = slot.from \cup f.from /\ next.bound = slot.bound
  <2>0. slot.count \in Nat /\ slot.from \subseteq Ranks
    BY <1>4 DEF SlotRecords
  <2>1. PICK k \in Nat : k = slot.count + f.count
    BY <1>4, <2>0
  <2>4. PICK s \in SUBSET Ranks : s = slot.from \cup f.from
    BY <1>4, <2>0
  <2>2. next = [slot EXCEPT !.fanin = fanin, !.count = k, !.from = s]
    BY <2>1, <2>4 DEF Joined
  <2> QED BY <1>3, <1>4, <2>1, <2>2, <2>4 DEF SlotRecords
<1>6. \/ fanin = 1 /\ Pass(R, p, PortsOf(R), ports, PoppedLevel(f)) /\ slots' = slots
      \/ /\ fanin # 1 /\ ~Accepts(slot, fanin, f)
         /\ Pass(R, p, PortsOf(R), ports, Missed(f)) /\ slots' = slots
      \/ /\ fanin # 1 /\ Accepts(slot, fanin, f)
         /\ slots' = [slots EXCEPT ![R][c] = [next EXCEPT !.forwarded = next.count = fanin]]
         /\ IF next.count = fanin
            THEN Pass(R, p, PortsOf(R), ports, Summed(f, next.count, next.from))
            ELSE Pass(R, p, PortsOf(R), <<>>, f)
  BY DEF Request, RequestPorts, Missed, Summed, Joined
<1>7. /\ next.count = fanin => (next.count = fanin) = TRUE
      /\ next.count # fanin => (next.count = fanin) = FALSE
  OBVIOUS
<1> QED BY <1>1, <1>2, <1>3, <1>4, <1>5, <1>6, <1>7

\* What goes to the responder goes on as it was, or with less on its stack.
LEMMA GoesOnPasses ==
    ASSUME ForwardingInv, TokenInv, NEW R \in RouterNames, NEW p \in PortsOf(R), rings[p] # <<>>,
           NEW f, f = First(p), NEW c, c = ChannelOf(f), f.type \notin FromResponder,
           NEW g \in Frames, g.type \notin FromResponder, Class(g) = Class(f), ChannelOf(g) = c,
           Sane(g), \A hosts : Stands(g, hosts) = Stands(f, {}),
           NEW ports, ports = BypassPorts(R, p, c),
           Pass(R, p, PortsOf(R), ports, g), slots' = slots
    PROVE  TokenInv' /\ (AnswersKept => AnswersKept')
<1>1. /\ f \in Frames /\ OnWay(R, p, f) /\ c \in Chans /\ c \in Channels
  BY Popped
<1>2. PICK n \in Nat : DOMAIN ports = 1 .. n
  BY PortsAreSeqs DEF ForwardingInv
<1>3. Routed(fabric, R, c) /\ \A hosts : Stands(f, hosts) = Stands(f, {})
  BY <1>1 DEF OnWay, Stands, FromResponder, FrameTypes, Frames, FrameRecords
<1>4. /\ \A h \in Ranks : Copied(PortsOf(R), ports, g, c, h) <=> h \in Stands(g, {})
      /\ \A h \in Ranks : CopiedOnce(PortsOf(R), ports, g, c, h)
      /\ Arrive(PortsOf(R), ports, g)
  BY <1>1, <1>3, LeadCopies DEF ForwardingInv, RingsInv
<1>5. UNCHANGED site
  BY <1>2, PassRings
<1>6. ASSUME NEW k \in Classes, NEW d \in Chans, NEW h \in Ranks
      PROVE  /\ Aside(p, PortsOf(R), ports, g, k, d, h) \/ Over(p, PortsOf(R), ports, g, k, d, h)
             /\ Passed(p, PortsOf(R), ports, g, k, d, h)
  <2>1. InSlots(k, d, h)' = InSlots(k, d, h)
    BY <1>5, SlotsStay
  <2>2. \A x \in Ranks : Copied(PortsOf(R), ports, g, c, x) <=> x \in Stands(f, Reach(p, c))
    BY <1>3, <1>4
  <2> QED BY <1>4, <2>1, <2>2, PartsGoOn
<1>7. AnswersPass(p, PortsOf(R), ports, g)
  BY <1>6 DEF AnswersPass, Classes, FromResponder
<1> QED BY <1>2, <1>4, <1>6, <1>7, PassTokens DEF Parts

LEMMA BypassPasses ==
    ASSUME ForwardingInv, TokenInv, NEW R \in RouterNames, NEW p \in PortsOf(R), Bypass(R, p)
    PROVE  TokenInv' /\ (AnswersKept => AnswersKept')
<1>1. PICK f : f = First(p)
  OBVIOUS
<1>2. PICK c : c = ChannelOf(f)
  OBVIOUS
<1>3. /\ rings[p] # <<>> /\ f.type \in {"REGISTER", "END_ACK", "AGG_MISS", "REQUEST"}
      /\ Pass(R, p, PortsOf(R), BypassPorts(R, p, c), f) /\ slots' = slots
  BY <1>1, <1>2 DEF Bypass, Waits
<1>4. f \in Frames /\ Sane(f)
  BY <1>1, <1>3, Popped
<1>5. f.type \notin FromResponder /\ \A hosts : Stands(f, hosts) = Stands(f, {})
  BY <1>3 DEF FromResponder, Stands
<1> QED BY <1>1, <1>2, <1>3, <1>4, <1>5, GoesOnPasses

\* The contribution that completes a slot sends what the slot has with it.
LEMMA SumParts ==
    ASSUME ForwardingInv, TokenInv, NEW R \in RouterNames, NEW p \in PortsOf(R), rings[p] # <<>>,
           NEW f, f = First(p), f.type = "REQUEST", NEW c, c = ChannelOf(f),
           NEW g, Class(g) = "ANSWER", ChannelOf(g) = c, NEW ports,
           NEW slot, slot = slots[R][c], ~slot.forwarded, g.from = slot.from \cup f.from,
           \A h \in Ranks : Copied(PortsOf(R), ports, g, c, h) <=> h \in g.from,
           \A h \in Ranks : CopiedOnce(PortsOf(R), ports, g, c, h),
           NEW new, new.forwarded, new.from = g.from, Reslotted(R, c, new),
           NEW k \in Classes, NEW d \in Chans, NEW h \in Ranks
    PROVE  /\ Aside(p, PortsOf(R), ports, g, k, d, h) \/ Over(p, PortsOf(R), ports, g, k, d, h)
           /\ Passed(p, PortsOf(R), ports, g, k, d, h)
<1>1. /\ c \in Chans
      /\ <<p, 1>> \in InRings(k, d, h) <=> k = "ANSWER" /\ d = c /\ h \in f.from
  <2>1. Class(f) = "ANSWER" /\ \A hosts : Stands(f, hosts) = f.from
    BY DEF Class, Stands
  <2> QED BY <2>1, Popped
<1>2. \A Q : Q \in InSlots(k, d, h)' <=> Q \in InSlots(k, d, h) /\ ~(Q = R /\ d = c)
  BY DEF Reslotted, InSlots
<1>3. R \in InSlots(k, c, h) <=> k = "ANSWER" /\ h \in slot.from
  BY DEF InSlots
<1>4. Single(k, d, h)
  BY DEF TokenInv, SingleInv
<1>5. CASE k = "ANSWER" /\ d = c /\ h \in g.from
  <2>1. <<p, 1>> \in InRings(k, d, h) \/ R \in InSlots(k, d, h)
    BY <1>1, <1>3, <1>5
  <2>2. InSlots(k, d, h)' = {}
    <3>1. ASSUME NEW Q \in InSlots(k, d, h)' PROVE FALSE
      <4>1. Q \in InSlots(k, d, h) /\ Q # R
        BY <1>2, <1>5, <3>1
      <4>2. InRings(k, d, h) = {} /\ R \notin InSlots(k, d, h)
        BY <1>4, <4>1 DEF Single, OneOf, NoneOf
      <4> QED BY <2>1, <4>2
    <3> QED BY <3>1
  <2>3. Over(p, PortsOf(R), ports, g, k, d, h) /\ Copied(PortsOf(R), ports, g, d, h)
    BY <1>5, <2>1, <2>2 DEF Over
  <2> QED BY <2>3 DEF Passed
<1>6. CASE ~(k = "ANSWER" /\ d = c /\ h \in g.from)
  <2>1. <<p, 1>> \notin InRings(k, d, h)
    BY <1>1, <1>6
  <2>2. InSlots(k, d, h)' = InSlots(k, d, h)
    <3>1. d = c => R \notin InSlots(k, d, h)
      BY <1>3, <1>6
    <3> QED BY <1>2, <3>1
  <2>3. Aside(p, PortsOf(R), ports, g, k, d, h)
    BY <1>6, <2>1, <2>2 DEF Aside
  <2> QED BY <2>2, <2>3 DEF Passed
<1> QED BY <1>5, <1>6

\* Any other stays in the slot.
LEMMA JoinParts ==
    ASSUME ForwardingInv, TokenInv, NEW R \in RouterNames, NEW p \in PortsOf(R), rings[p] # <<>>,
           NEW f, f = First(p), f.type = "REQUEST", NEW c, c = ChannelOf(f),
           NEW slot, slot = slots[R][c], ~slot.forwarded,
           NEW new, ~new.forwarded, new.from = slot.from \cup f.from, Reslotted(R, c, new),
           NEW k \in Classes, NEW d \in Chans, NEW h \in Ranks
    PROVE  /\ Aside(p, PortsOf(R), <<>>, f, k, d, h) \/ Over(p, PortsOf(R), <<>>, f, k, d, h)
           /\ Passed(p, PortsOf(R), <<>>, f, k, d, h)
<1>1. /\ c \in Chans /\ Class(f) = "ANSWER"
      /\ <<p, 1>> \in InRings(k, d, h) <=> k = "ANSWER" /\ d = c /\ h \in f.from
  <2>1. Class(f) = "ANSWER" /\ \A hosts : Stands(f, hosts) = f.from
    BY DEF Class, Stands
  <2> QED BY <2>1, Popped
<1>2. \A Q : Q \in InSlots(k, d, h)' <=>
               IF Q = R /\ d = c THEN k = "ANSWER" /\ h \in slot.from \cup f.from
               ELSE Q \in InSlots(k, d, h)
  BY DEF Reslotted
<1>3. R \in InSlots(k, c, h) <=> k = "ANSWER" /\ h \in slot.from
  BY DEF InSlots
<1>4. Single(k, d, h)
  BY DEF TokenInv, SingleInv
<1>5. ~Copied(PortsOf(R), <<>>, f, c, h) /\ CopiedOnce(PortsOf(R), <<>>, f, c, h)
  BY DEF Copied, CopiedOnce
<1>6. CASE k = "ANSWER" /\ d = c /\ h \in f.from
  <2>1. <<p, 1>> \in InRings(k, d, h)
    BY <1>1, <1>6
  <2>2. InSlots(k, d, h) = {}
    BY <1>4, <2>1 DEF Single, OneOf, NoneOf
  <2>3. InSlots(k, d, h)' = {R}
    BY <1>2, <1>6, <2>2
  <2>4. Over(p, PortsOf(R), <<>>, f, k, d, h)
    BY <1>1, <1>5, <1>6, <2>1, <2>3 DEF Over
  <2> QED BY <2>3, <2>4 DEF Passed
<1>7. CASE ~(k = "ANSWER" /\ d = c /\ h \in f.from)
  <2>1. <<p, 1>> \notin InRings(k, d, h)
    BY <1>1, <1>7
  <2>2. InSlots(k, d, h)' = InSlots(k, d, h)
    <3>1. d = c => (R \in InSlots(k, d, h)' <=> R \in InSlots(k, d, h))
      BY <1>2, <1>3, <1>7
    <3> QED BY <1>2, <3>1
  <2>3. Aside(p, PortsOf(R), <<>>, f, k, d, h)
    BY <1>5, <2>1, <2>2 DEF Aside, Copied
  <2> QED BY <2>2, <2>3 DEF Passed
<1> QED BY <1>6, <1>7

\* What joins a slot the slot has, or its sender has another part.
LEMMA FromSlots ==
    ASSUME ForwardingInv, TokenInv, NEW R \in RouterNames, NEW p \in PortsOf(R), rings[p] # <<>>,
           NEW f, f = First(p), f.type = "REQUEST", NEW c, c = ChannelOf(f),
           NEW new, new.from = slots[R][c].from \cup f.from, Reslotted(R, c, new)
    PROVE  \A Q \in RouterNames : \A d \in Chans : \A h \in Ranks :
             h \in slots'[Q][d].from => h \in slots[Q][d].from \/ Held("ANSWER", d, h)
<1>1. Class(f) = "ANSWER" /\ \A hosts : Stands(f, hosts) = f.from
  BY DEF Class, Stands
<1>2. c \in Chans /\ \A h \in Ranks : h \in f.from => Held("ANSWER", c, h)
  <2>1. /\ c \in Chans
        /\ \A h \in Ranks : h \in Stands(f, Reach(p, c)) => Held(Class(f), c, h)
    BY Popped
  <2> QED BY <1>1, <2>1
<1> SUFFICES ASSUME NEW Q \in RouterNames, NEW d \in Chans, NEW h \in Ranks, h \in slots'[Q][d].from
             PROVE  h \in slots[Q][d].from \/ Held("ANSWER", d, h)
  OBVIOUS
<1>3. CASE Q = R /\ d = c
  BY <1>2, <1>3 DEF Reslotted
<1>4. CASE ~(Q = R /\ d = c)
  BY <1>4 DEF Reslotted
<1> QED BY <1>3, <1>4

LEMMA RequestPasses ==
    ASSUME ForwardingInv, TokenInv, NEW R \in RouterNames, NEW p \in PortsOf(R), Request(R, p)
    PROVE  TokenInv' /\ (AnswersKept => AnswersKept')
<1>1. PICK f : f = First(p)
  OBVIOUS
<1>2. PICK c : c = ChannelOf(f)
  OBVIOUS
<1>3. PICK slot : slot = slots[R][c]
  OBVIOUS
<1>4. PICK fanin : fanin = f.fanins[Len(f.stack)]
  OBVIOUS
<1>5. PICK ports : ports = BypassPorts(R, p, c)
  OBVIOUS
<1>6. PICK next : next = Joined(slot, f, fanin)
  OBVIOUS
<1>7. /\ rings[p] # <<>> /\ f.type = "REQUEST" /\ Aggregates(R, f) /\ f \in Frames
      /\ RequestStackFits(R, p, f) /\ c \in Chans /\ slot \in SlotRecords /\ fanin \in Nat
      /\ next \in SlotRecords /\ next.count = slot.count + f.count /\ next.fanin = fanin
      /\ next.from = slot.from \cup f.from /\ next.bound = slot.bound
  BY <1>1, <1>2, <1>3, <1>4, <1>5, <1>6, RequestCases
<1>8. \/ fanin = 1 /\ Pass(R, p, PortsOf(R), ports, PoppedLevel(f)) /\ slots' = slots
      \/ /\ fanin # 1 /\ ~Accepts(slot, fanin, f)
         /\ Pass(R, p, PortsOf(R), ports, Missed(f)) /\ slots' = slots
      \/ /\ fanin # 1 /\ Accepts(slot, fanin, f) /\ next.count = fanin
         /\ slots' = [slots EXCEPT ![R][c] = [next EXCEPT !.forwarded = TRUE]]
         /\ Pass(R, p, PortsOf(R), ports, Summed(f, next.count, next.from))
      \/ /\ fanin # 1 /\ Accepts(slot, fanin, f) /\ next.count # fanin
         /\ slots' = [slots EXCEPT ![R][c] = [next EXCEPT !.forwarded = FALSE]]
         /\ Pass(R, p, PortsOf(R), <<>>, f)
  BY <1>1, <1>2, <1>3, <1>4, <1>5, <1>6, RequestCases
<1>9. /\ Sane(f) /\ f.type \notin FromResponder /\ c \in Channels /\ Routed(fabric, R, c)
      /\ f.src \in RequestersOf(f.dst) /\ f.from # {}
      /\ Class(f) = "ANSWER" /\ \A hosts : Stands(f, hosts) = f.from
  <2>1. f.type \notin FromResponder
    BY <1>7 DEF FromResponder
  <2>2. OnWay(R, p, f) /\ c \in Channels
    BY <1>1, <1>2, <1>7, Popped
  <2> QED BY <1>2, <1>7, <2>1, <2>2 DEF OnWay, Sane, OfRequester, Class, Stands
<1>10. next.count \in Nat /\ next.from \in SUBSET Ranks
  BY <1>7 DEF SlotRecords
<1>11. ASSUME NEW g, g \in {PoppedLevel(f), Missed(f)}, Pass(R, p, PortsOf(R), ports, g), slots' = slots
       PROVE  TokenInv' /\ (AnswersKept => AnswersKept')
  <2>1. /\ g \in Frames /\ g.type \in {"REQUEST", "AGG_MISS"} /\ ChannelOf(g) = c
        /\ SameEnds(g, f) /\ g.from = f.from
    BY <1>2, <1>7, <1>11, <1>10, RequestSent
  <2>2. /\ g.type \notin FromResponder /\ Class(g) = "ANSWER"
        /\ \A hosts : Stands(g, hosts) = f.from
    BY <2>1 DEF FromResponder, Class, Stands
  <2>3. Sane(g)
    BY <1>9, <2>1 DEF Sane, OfRequester, SameEnds
  <2> QED BY <1>1, <1>2, <1>5, <1>7, <1>9, <1>11, <2>1, <2>2, <2>3, GoesOnPasses
<1>12. ASSUME NEW b \in BOOLEAN, NEW new, new = [next EXCEPT !.forwarded = b],
              slots' = [slots EXCEPT ![R][c] = new], UNCHANGED site
       PROVE  new.forwarded = b /\ new.from = slot.from \cup f.from /\ Reslotted(R, c, new)
  <2>1. new.forwarded = b /\ new.from = next.from
    BY <1>7, <1>12 DEF SlotRecords
  <2>2. Reslotted(R, c, new)
    BY <1>7, <1>12, SlotChanges DEF ForwardingInv
  <2> QED BY <1>7, <2>1, <2>2
<1>13. Accepts(slot, fanin, f) => ~slot.forwarded
  BY DEF Accepts
<1>14. ASSUME slots' = [slots EXCEPT ![R][c] = [next EXCEPT !.forwarded = TRUE]], ~slot.forwarded,
              NEW g, g = Summed(f, next.count, next.from), Pass(R, p, PortsOf(R), ports, g)
       PROVE  TokenInv' /\ (AnswersKept => AnswersKept')
  <2>1. /\ g \in Frames /\ g.type = "REQUEST" /\ ChannelOf(g) = c /\ SameEnds(g, f)
        /\ g.from = slot.from \cup f.from
    BY <1>2, <1>7, <1>10, <1>14, RequestSent
  <2>2. /\ g.type \notin FromResponder /\ Class(g) = "ANSWER" /\ \A hosts : Stands(g, hosts) = g.from
    BY <2>1 DEF FromResponder, Class, Stands
  <2>3. Sane(g)
    BY <1>9, <2>1 DEF Sane, OfRequester, SameEnds
  <2>4. PICK n \in Nat : DOMAIN ports = 1 .. n
    BY <1>5, PortsAreSeqs DEF ForwardingInv
  <2>5. UNCHANGED site
    BY <1>14, <2>4, PassRings
  <2>6. PICK new : new = [next EXCEPT !.forwarded = TRUE]
    OBVIOUS
  <2>7. new.forwarded /\ new.from = slot.from \cup f.from /\ Reslotted(R, c, new)
    BY <1>12, <1>14, <2>5, <2>6
  <2>8. /\ \A h \in Ranks : Copied(PortsOf(R), ports, g, c, h) <=> h \in g.from
        /\ \A h \in Ranks : CopiedOnce(PortsOf(R), ports, g, c, h)
        /\ Arrive(PortsOf(R), ports, g)
    BY <1>5, <1>9, <2>1, <2>2, <2>3, LeadCopies DEF ForwardingInv, RingsInv
  <2>9. ASSUME NEW k \in Classes, NEW d \in Chans, NEW h \in Ranks
        PROVE  /\ Aside(p, PortsOf(R), ports, g, k, d, h) \/ Over(p, PortsOf(R), ports, g, k, d, h)
               /\ Passed(p, PortsOf(R), ports, g, k, d, h)
    BY <1>1, <1>2, <1>3, <1>7, <1>14, <2>1, <2>2, <2>7, <2>8, SumParts
  <2>10. \A Q \in RouterNames : \A d \in Chans : \A h \in Ranks :
           h \in slots'[Q][d].from => h \in slots[Q][d].from \/ Held("ANSWER", d, h)
    BY <1>1, <1>2, <1>3, <1>7, <2>7, FromSlots
  <2>11. AnswersPass(p, PortsOf(R), ports, g)
    BY <2>1, <2>9 DEF AnswersPass, Classes
  <2> QED BY <1>14, <2>1, <2>3, <2>4, <2>8, <2>9, <2>10, <2>11, PassTokens DEF Parts
<1>15. ASSUME slots' = [slots EXCEPT ![R][c] = [next EXCEPT !.forwarded = FALSE]], ~slot.forwarded,
              Pass(R, p, PortsOf(R), <<>>, f)
       PROVE  TokenInv' /\ (AnswersKept => AnswersKept')
  <2>4. DOMAIN <<>> = 1 .. 0 /\ 0 \in Nat
    OBVIOUS
  <2>5. UNCHANGED site
    BY <1>15, <2>4, PassRings
  <2>6. PICK new : new = [next EXCEPT !.forwarded = FALSE]
    OBVIOUS
  <2>7. ~new.forwarded /\ new.from = slot.from \cup f.from /\ Reslotted(R, c, new)
    BY <1>12, <1>15, <2>5, <2>6
  <2>8. Arrive(PortsOf(R), <<>>, f)
    BY DEF Arrive
  <2>9. ASSUME NEW k \in Classes, NEW d \in Chans, NEW h \in Ranks
        PROVE  /\ Aside(p, PortsOf(R), <<>>, f, k, d, h) \/ Over(p, PortsOf(R), <<>>, f, k, d, h)
               /\ Passed(p, PortsOf(R), <<>>, f, k, d, h)
    BY <1>1, <1>2, <1>3, <1>7, <1>15, <2>7, JoinParts
  <2>10. \A Q \in RouterNames : \A d \in Chans : \A h \in Ranks :
           h \in slots'[Q][d].from => h \in slots[Q][d].from \/ Held("ANSWER", d, h)
    BY <1>1, <1>2, <1>3, <1>7, <2>7, FromSlots
  <2>11. AnswersPass(p, PortsOf(R), <<>>, f)
    BY <1>7, <2>9 DEF AnswersPass, Classes
  <2> QED BY <1>7, <1>9, <1>15, <2>4, <2>8, <2>9, <2>10, <2>11, PassTokens DEF Parts
<1> QED BY <1>8, <1>11, <1>13, <1>14, <1>15

\* A host sends where what it sends finds its way.
LEMMA StartsOnWay ==
    ASSUME ForwardingInv, TokenInv, NEW f \in todo, NEW p, p = AccessOf(f)
    PROVE  f \in Frames /\ p \in Ports /\ \A R \in RouterNames : p \in PortsOf(R) => OnWay(R, p, f)
<1>1. f \in Frames /\ Sane(f) /\ f.src \in Ranks /\ f.dst \in Ranks
  BY DEF ForwardingInv, RingsInv, MayBeSent, TokenInv, WaysInv, Frames, FrameRecords
<1>2. ChannelOf(f) \in Channels
  BY <1>1, ChannelFacts DEF ForwardingInv
<1>3. p = Top.access[<<f.src, f.sub>>]
  BY DEF AccessOf, ForwardingInv, SiteInv
<1>4. CASE f.type \in FromResponder
  <2>1. ChannelOf(f) = <<f.src, f.sub>>
    BY <1>4 DEF ChannelOf
  <2>2. <<p, ChannelOf(f)>> \in DOMAIN Top.reach
    BY <1>2, <1>3, <2>1, WayFacts DEF StartsAbove, ForwardingInv
  <2>3. \E R \in RouterNames : p \in PortsOf(R)
    <3>1. \A x \in DOMAIN Top.reach : \E R \in RouterNames : x[1] \in PortsOf(R)
      BY WayFacts DEF ForwardingInv
    <3>2. PICK x \in DOMAIN Top.reach : x = <<p, ChannelOf(f)>>
      BY <2>2
    <3>3. x[1] = p
      BY <3>2
    <3> QED BY <3>1, <3>3
  <2>4. p \in Ports
    BY <2>3 DEF ForwardingInv, RingsInv, Ports
  <2> QED BY <1>1, <1>4, <2>2, <2>4 DEF OnWay
<1>5. CASE f.type \notin FromResponder
  <2>1. ChannelOf(f) = <<f.dst, f.sub>> /\ f.src \in RequestersOf(f.dst)
    BY <1>1, <1>5 DEF ChannelOf, Sane, OfRequester
  <2>2. PICK c \in Channels : c = ChannelOf(f) /\ c[1] = f.dst /\ c[2] = f.sub
    BY <1>2, <2>1
  <2>3. StartsRouted(fabric, Top, c)
    BY WayFacts DEF ForwardingInv
  <2>4. PICK R \in RouterNames : p \in PortsOf(R) /\ Routed(fabric, R, c)
    BY <1>3, <2>1, <2>2, <2>3 DEF StartsRouted, RouterNames, PortsOf, PortsIn, Config
  <2>5. p \in Ports
    BY <2>4 DEF ForwardingInv, RingsInv, Ports
  <2>6. \A Q \in RouterNames : p \in PortsOf(Q) => Q = R
    BY <2>4, OneRouterPerPort DEF ForwardingInv
  <2> QED BY <1>1, <1>5, <2>2, <2>4, <2>5, <2>6 DEF OnWay
<1> QED BY <1>4, <1>5

\* A frame sent comes last in its ring, or nowhere.
Joins(p, f, w) ==
    /\ w \notin Spots /\ w[1] = p
    /\ \A z \in Spots : z \in Spots' /\ rings'[z[1]][z[2]] = rings[z[1]][z[2]]
    /\ \A z \in Spots' : z \in Spots \/ z = w
    /\ w \in Spots' => rings'[w[1]][w[2]] = f
    /\ ~dropped' => w \in Spots' /\ ~dropped

LEMMA SendJoins ==
    ASSUME ForwardingInv, NEW f \in todo, Send(f), NEW p \in Ports, p = AccessOf(f)
    PROVE  Joins(p, f, <<p, Len(rings[p]) + 1>>)
<1> DEFINE w == <<p, Len(rings[p]) + 1>>
<1>1. /\ rings' = [rings EXCEPT ![p] = Queued(rings[p], f, 1)]
      /\ dropped' = (dropped \/ Len(rings[p]) + 1 >= RingSize)
  BY DEF Send, AccessOf
<1>2. Ports' = Ports /\ p \in DOMAIN rings
  BY <1>1 DEF Ports
<1>3. RingSize \in Nat /\ RingSize > 1 /\ 1 \in Nat
  BY ForwardingAssumption
<1>4. ASSUME NEW q \in Ports
      PROVE  \E M : rings[q] \in Seq(M) /\ Len(rings[q]) < RingSize
  BY DEF ForwardingInv, RingsInv, Ports
<1>5. ASSUME NEW q \in Ports
      PROVE  Len(rings[q]) \in Nat /\ DOMAIN rings[q] = 1 .. Len(rings[q]) /\ Len(rings[q]) < RingSize
  BY <1>4, LenProperties
<1>6. /\ Len(rings'[p]) \in Nat /\ DOMAIN rings'[p] = 1 .. Len(rings'[p]) /\ Len(rings'[p]) < RingSize
      /\ Len(rings[p]) <= Len(rings'[p]) /\ Len(rings'[p]) <= Len(rings[p]) + 1
      /\ \A j \in 1 .. Len(rings[p]) : rings'[p][j] = rings[p][j]
      /\ \A j \in Len(rings[p]) + 1 .. Len(rings'[p]) : rings'[p][j] = f
      /\ Len(rings[p]) + 1 < RingSize => Len(rings'[p]) = Len(rings[p]) + 1
  <2>1. PICK new : new = Queued(rings[p], f, 1)
    OBVIOUS
  <2>2. rings'[p] = new
    BY <1>1, <1>2, <2>1
  <2>3. PICK M : rings[p] \in Seq(M) /\ Len(rings[p]) < RingSize
    BY <1>4
  <2> QED BY <1>3, <2>1, <2>2, <2>3, QueuedFacts
<1>7. \A q \in Ports : q # p => rings'[q] = rings[q]
  BY <1>1 DEF Ports
<1>8. /\ \A z \in Spots : z = <<z[1], z[2]>> /\ z[1] \in Ports /\ z[2] \in 1 .. Len(rings[z[1]])
      /\ \A q \in Ports : \A i \in 1 .. Len(rings[q]) : <<q, i>> \in Spots
      /\ \A z \in Spots' : z = <<z[1], z[2]>> /\ z[1] \in Ports /\ z[2] \in DOMAIN rings'[z[1]]
      /\ \A q \in Ports : \A i \in 1 .. Len(rings'[p]) : q = p => <<q, i>> \in Spots'
  <2>1. \A q \in Ports : \A i \in 1 .. Len(rings[q]) : i \in 1 .. RingSize
    BY <1>3, <1>5
  <2>2. \A i \in 1 .. Len(rings'[p]) : i \in 1 .. RingSize
    BY <1>3, <1>6
  <2> QED BY <1>2, <1>5, <1>6, <2>1, <2>2 DEF Spots
<1>9. w = <<w[1], w[2]>> /\ w[1] = p /\ w[2] = Len(rings[p]) + 1
  OBVIOUS
<1> HIDE DEF w
<1>10. w \notin Spots
  BY <1>5, <1>8, <1>9
<1>11. ASSUME NEW z \in Spots
       PROVE  z \in Spots' /\ rings'[z[1]][z[2]] = rings[z[1]][z[2]]
  <2>1. CASE z[1] = p
    <3>1. z[2] \in 1 .. Len(rings[p]) /\ z = <<p, z[2]>> /\ z[2] \in 1 .. Len(rings'[p])
      BY <1>5, <1>6, <1>8, <2>1
    <3> QED BY <1>6, <1>8, <2>1, <3>1
  <2>2. CASE z[1] # p
    <3>1. rings'[z[1]] = rings[z[1]]
      BY <1>7, <1>8, <2>2
    <3> QED BY <1>2, <3>1 DEF Spots
  <2> QED BY <2>1, <2>2
<1>12. ASSUME NEW z \in Spots', z \notin Spots
       PROVE  z = w
  <2>1. z[1] = p
    <3>1. ASSUME z[1] # p PROVE FALSE
      <4>1. rings'[z[1]] = rings[z[1]]
        BY <1>7, <1>8, <3>1
      <4> QED BY <1>2, <1>12, <4>1 DEF Spots
    <3> QED BY <3>1
  <2>2. z[2] \in 1 .. Len(rings'[p]) /\ z[2] \notin 1 .. Len(rings[p]) /\ z = <<p, z[2]>>
    BY <1>6, <1>8, <1>12, <2>1
  <2>3. z[2] = Len(rings[p]) + 1
    BY <1>5, <1>6, <2>2
  <2> QED BY <1>9, <2>2, <2>3
<1>13. w \in Spots' => rings'[w[1]][w[2]] = f
  <2>1. w \in Spots' => w[2] \in Len(rings[p]) + 1 .. Len(rings'[p])
    BY <1>5, <1>6, <1>8, <1>9
  <2> QED BY <1>6, <1>9, <2>1
<1>14. ASSUME ~dropped' PROVE w \in Spots' /\ ~dropped
  <2>0. ~dropped /\ ~(Len(rings[p]) + 1 >= RingSize)
    BY <1>1, <1>14, Zenon
  <2>1. Len(rings[p]) + 1 < RingSize
    BY <1>3, <1>5, <2>0
  <2>2. Len(rings[p]) + 1 \in 1 .. Len(rings'[p])
    BY <1>5, <1>6, <2>1
  <2>3. w \in Spots'
    BY <1>8, <1>9, <2>2
  <2> QED BY <2>0, <2>3
<1>15. Joins(p, f, w)
  BY <1>9, <1>10, <1>11, <1>12, <1>13, <1>14 DEF Joins
<1> QED BY <1>15 DEF w

\* What is sent stands in the ring for those it stood for at its host.
LEMMA SendOne ==
    ASSUME ForwardingInv, TokenInv, NEW f \in todo, Send(f), NEW k \in Classes, NEW c \in Chans, NEW h \in Ranks
    PROVE  /\ Single(k, c, h)' /\ (Held(k, c, h)' => Held(k, c, h))
           /\ (HasHeard(k, c, h)' <=> HasHeard(k, c, h))
           /\ ~dropped' /\ Held(k, c, h) => Held(k, c, h)'
<1> DEFINE p == AccessOf(f)
           w == <<p, Len(rings[p]) + 1>>
<1>1. /\ todo' = todo \ {f} /\ heard' = heard /\ slots' = slots /\ UNCHANGED site
      /\ f \in Frames /\ p \in Ports
  BY StartsOnWay DEF Send
<1>2. Joins(p, f, w)
  BY <1>1, SendJoins
<1> HIDE DEF w, p
<1>3. /\ InSlots(k, c, h)' = InSlots(k, c, h) /\ InHeard(k, c, h)' = InHeard(k, c, h)
  <2>1. InSlots(k, c, h)' = InSlots(k, c, h)
    BY <1>1, SlotsStay
  <2> QED BY <1>1, <2>1 DEF InHeard
<1>4. /\ \A x : x \in InTodo(k, c, h) <=> x \in todo /\ StandsFor(x, Reach(AccessOf(x), c), k, c, h)
      /\ \A x : x \in InTodo(k, c, h)' <=>
           x \in todo' /\ StandsFor(x, Reach(AccessOf(x), c), k, c, h)
  <2>1. \A q, d : Reach(q, d)' = Reach(q, d)
    BY <1>1, SameWays
  <2>2. \A x : AccessOf(x)' = AccessOf(x)
    BY <1>1, SameWays
  <2>3. ASSUME NEW x
        PROVE  StandsFor(x, Reach(AccessOf(x), c), k, c, h)' <=> StandsFor(x, Reach(AccessOf(x), c), k, c, h)
    <3>1. Reach(AccessOf(x), c)' = Reach(AccessOf(x), c)
      BY <2>1, <2>2
    <3> QED BY <3>1 DEF StandsFor
  <2> QED BY <2>3 DEF InTodo
<1>5. /\ \A z : z \in InRings(k, c, h) <=>
           z \in Spots /\ StandsFor(rings[z[1]][z[2]], Reach(z[1], c), k, c, h)
      /\ \A z : z \in InRings(k, c, h)' <=>
           z \in Spots' /\ StandsFor(rings'[z[1]][z[2]], Reach(z[1], c), k, c, h)
  BY <1>1, SpotsThatHold
<1>6. \A z : z \in InRings(k, c, h)' <=>
         \/ z \in InRings(k, c, h)
         \/ z = w /\ w \in Spots' /\ StandsFor(f, Reach(p, c), k, c, h)
  BY <1>2, <1>5 DEF Joins
<1>7. w \notin InRings(k, c, h)
  BY <1>2, <1>5 DEF Joins
<1>8. Single(k, c, h)
  BY DEF TokenInv, SingleInv
<1>9. CASE StandsFor(f, Reach(p, c), k, c, h)
  <2>1. f \in InTodo(k, c, h)
    BY <1>4, <1>9 DEF p
  <2>2. InTodo(k, c, h) = {f} /\ InRings(k, c, h) = {} /\ InHeard(k, c, h) = {} /\ InSlots(k, c, h) = {}
    BY <1>8, <2>1 DEF Single, OneOf, NoneOf
  <2>3. InTodo(k, c, h)' = {}
    BY <1>1, <1>4, <2>2
  <2>4. InRings(k, c, h)' = {w} \/ InRings(k, c, h)' = {}
    BY <1>6, <2>2
  <2>5. ~dropped' => InRings(k, c, h)' # {}
    BY <1>2, <1>6, <1>9 DEF Joins
  <2>6. Single(k, c, h)'
    BY <1>3, <2>2, <2>3, <2>4 DEF Single, OneOf, NoneOf
  <2> QED BY <1>3, <2>1, <2>2, <2>5, <2>6 DEF Held, HasHeard, NoneOf
<1>10. CASE ~StandsFor(f, Reach(p, c), k, c, h)
  <2>1. InTodo(k, c, h)' = InTodo(k, c, h)
    BY <1>1, <1>4, <1>10 DEF p
  <2>2. InRings(k, c, h)' = InRings(k, c, h)
    BY <1>6, <1>10
  <2> QED BY <1>1, <1>3, <1>8, <2>1, <2>2 DEF Single, OneOf, Held, HasHeard, NoneOf
<1> QED BY <1>9, <1>10

LEMMA SendPasses ==
    ASSUME ForwardingInv, TokenInv, NEW f \in todo, Send(f)
    PROVE  TokenInv' /\ (AnswersKept => AnswersKept')
<1>1. /\ todo' = todo \ {f} /\ heard' = heard /\ slots' = slots /\ UNCHANGED site
      /\ f \in Frames /\ AccessOf(f) \in Ports
  BY StartsOnWay DEF Send
<1>2. Joins(AccessOf(f), f, <<AccessOf(f), Len(rings[AccessOf(f)]) + 1>>)
  BY <1>1, SendJoins
<1>3. /\ Chans' = Chans /\ RouterNames' = RouterNames /\ \A R : PortsOf(R)' = PortsOf(R)
      /\ work' = work /\ \A R, q, g : OnWay(R, q, g)' = OnWay(R, q, g)
  BY <1>1, SameSite, SameWays
<1>4. "END_ACK" \in Classes /\ "ANSWER" \in Classes /\ "RESPONSE" \in Classes /\ "END" \in Classes
  BY DEF Classes
<1>5. WaysInv'
  <2>1. Frames' = Frames
    BY <1>1, <1>3 DEF Frames, FrameRecords
  <2>2. WaysInv
    BY DEF TokenInv
  <2>3. ASSUME NEW R \in RouterNames, NEW q \in PortsOf(R), NEW i \in DOMAIN rings'[q]
        PROVE  OnWay(R, q, rings'[q][i])
    <3>1. q \in Ports /\ ForwardingInv'
      BY SendKeeps DEF ForwardingInv, RingsInv, Ports
    <3>2. PICK M : rings'[q] \in Seq(M) /\ Len(rings'[q]) < RingSize
      BY <1>3, <3>1 DEF ForwardingInv, RingsInv
    <3>3. Len(rings'[q]) \in Nat /\ DOMAIN rings'[q] = 1 .. Len(rings'[q])
      BY <3>2, LenProperties
    <3>4. i \in 1 .. RingSize
      BY <3>2, <3>3, ForwardingAssumption
    <3>5. PICK z : z = <<q, i>>
      OBVIOUS
    <3>6. Ports' = Ports
      BY DEF Send, Ports
    <3>7. z \in Spots' /\ z[1] = q /\ z[2] = i
      BY <3>1, <3>4, <3>5, <3>6 DEF Spots
    <3>8. CASE z \in Spots
      <4>1. rings'[q][i] = rings[q][i] /\ i \in DOMAIN rings[q]
        BY <1>2, <3>7, <3>8 DEF Joins, Spots
      <4> QED BY <2>2, <4>1 DEF WaysInv
    <3>9. CASE z \notin Spots
      <4>1. q = AccessOf(f) /\ rings'[q][i] = f
        BY <1>2, <3>7, <3>9 DEF Joins
      <4> QED BY <4>1, StartsOnWay
    <3> QED BY <3>8, <3>9
  <2> QED BY <1>1, <1>3, <2>1, <2>2, <2>3 DEF WaysInv
<1>6. SingleInv'
  BY <1>3, SendOne DEF SingleInv
<1>7. BornInv'
  <2>1. BornInv
    BY DEF TokenInv
  <2>2. ASSUME NEW c \in Chans, NEW h \in Ranks
        PROVE  /\ Held("END_ACK", c, h)' => HasHeard("END", c, h)'
               /\ Held("ANSWER", c, h)' => HasHeard("RESPONSE", c, h)'
               /\ \A R \in RouterNames : h \in slots[R][c].from => HasHeard("RESPONSE", c, h)'
    <3>1. Held("END_ACK", c, h)' => HasHeard("END", c, h)'
      BY <1>4, <2>1, SendOne DEF BornInv
    <3>2. Held("ANSWER", c, h)' => HasHeard("RESPONSE", c, h)'
      BY <1>4, <2>1, SendOne DEF BornInv
    <3>3. HasHeard("RESPONSE", c, h) => HasHeard("RESPONSE", c, h)'
      BY <1>4, SendOne
    <3> QED BY <2>1, <3>1, <3>2, <3>3 DEF BornInv
  <2> QED BY <1>1, <1>3, <2>2 DEF BornInv
<1>8. ASSUME ~dropped' PROVE KeptInv'
  <2>1. KeptInv /\ ~dropped
    BY <1>2, <1>8 DEF TokenInv, Joins
  <2>2. ASSUME NEW k \in Classes, NEW c \in Chans, NEW h \in RequestersOf(c[1]), Held(k, c, h)
        PROVE  Held(k, c, h)'
    BY <1>8, <2>2, SendOne DEF RequestersOf
  <2>3. ASSUME NEW e \in work.exchanges, NEW r \in RequestersOf(e.channel[1])
        PROVE  /\ e.kind = "REGISTER" => Held("REGISTER", e.channel, r)'
               /\ \A type \in MulticastsOf(e) : Held(type, e.channel, r)'
    <3>1. e.channel \in Chans
      BY DEF Chans
    <3>2. /\ e.kind = "REGISTER" => Held("REGISTER", e.channel, r)
          /\ \A type \in MulticastsOf(e) : Held(type, e.channel, r)
      BY <2>1 DEF KeptInv
    <3>3. MulticastsOf(e) \cup {"REGISTER"} \subseteq Classes
      BY SiteFacts DEF MulticastsOf, Classes, Exchange, ForwardingInv
    <3> QED BY <2>2, <3>1, <3>2, <3>3
  <2>4. ASSUME NEW c \in Chans, NEW r \in RequestersOf(c[1]), HasHeard("END", c, r)'
        PROVE  Held("END_ACK", c, r)'
    <3>1. HasHeard("END", c, r)
      BY <1>4, <2>4, SendOne DEF RequestersOf
    <3> QED BY <1>4, <2>1, <2>2, <3>1 DEF KeptInv
  <2> QED BY <1>3, <2>1, <2>3, <2>4 DEF KeptInv
<1>9. KeptInv'
  BY <1>8 DEF KeptInv
<1>10. ASSUME AnswersKept, ~dropped' PROVE AnswersKept'
  <2>1. AnswersKept /\ ~dropped
    BY <1>2, <1>10 DEF Joins
  <2>2. ASSUME NEW c \in Chans, NEW r \in RequestersOf(c[1]), HasHeard("RESPONSE", c, r)'
        PROVE  Held("ANSWER", c, r)'
    <3>1. r \in Ranks
      BY DEF RequestersOf
    <3>2. HasHeard("RESPONSE", c, r)
      BY <1>4, <2>2, <3>1, SendOne
    <3>3. Held("ANSWER", c, r)
      BY <2>1, <3>2 DEF AnswersKept
    <3> QED BY <1>4, <1>10, <3>1, <3>3, SendOne
  <2> QED BY <1>3, <2>2 DEF AnswersKept
<1>11. AnswersKept => AnswersKept'
  <2>1. dropped' => AnswersKept'
    BY DEF AnswersKept
  <2> QED BY <1>10, <2>1
<1> QED BY <1>5, <1>6, <1>7, <1>9, <1>11 DEF TokenInv

\* What a host sends unasked, told by its class and by whom it stands for.
LEMMA FirstFrameFacts ==
    ASSUME SiteInv, NEW e \in work.exchanges, NEW f \in FirstFrames(e)
    PROVE  /\ e.channel \in Channels /\ e.channel \in Chans /\ ChannelOf(f) = e.channel
           /\ f.type \in {"REGISTER", "REGISTER_ACK", "RESPONSE", "END"}
           /\ f = Frame(f.type, f.src, e.channel[1], e.channel[2])
           /\ f.src = IF f.type = "REGISTER" THEN f.src ELSE e.channel[1]
           /\ Sane(f)
<1> DEFINE h == e.channel[1]
           s == e.channel[2]
<1>1. /\ e.kind \in {"REGISTER", "REGISTER_ACK", "DATA", "END"} /\ e.channel \in Chans
      /\ e.channel \in Channels /\ e.channel = <<h, s>>
  BY SiteFacts DEF Exchange, Chans, Channels
<1> HIDE DEF h, s
<1>2. PICK type \in {"REGISTER", "REGISTER_ACK", "RESPONSE", "END"}, src \in Ranks :
        /\ f = Frame(type, src, h, s)
        /\ type = "REGISTER" => src \in RequestersOf(h)
        /\ type # "REGISTER" => src = h
  <2>0. h \in Ranks /\ RequestersOf(h) \subseteq Ranks
    BY <1>1 DEF Channels, RequestersOf, h
  <2>1. CASE e.kind = "REGISTER"
    <3>1. PICK r \in RequestersOf(h) : f = Frame("REGISTER", r, h, s)
      BY <2>1 DEF FirstFrames, h, s
    <3> QED BY <2>0, <3>1
  <2>2. CASE e.kind # "REGISTER"
    <3>1. \E type \in {"REGISTER_ACK", "RESPONSE", "END"} : f = Frame(type, h, h, s)
      BY <1>1, <2>2 DEF FirstFrames, h, s
    <3> QED BY <2>0, <3>1
  <2> QED BY <2>1, <2>2
<1>3. f.type = type /\ f.src = src /\ f.dst = h /\ f.sub = s /\ f.from = {src}
  BY <1>2 DEF Frame
<1>4. ChannelOf(f) = e.channel
  BY <1>1, <1>2, <1>3 DEF ChannelOf, FromResponder
<1>5. Sane(f)
  BY <1>2, <1>3 DEF Sane, OfRequester, FromResponder
<1> QED BY <1>1, <1>2, <1>3, <1>4, <1>5 DEF h, s

\* What is to be kept is there to begin with.
LEMMA FirstFramesStand ==
    ASSUME SiteInv, NEW e \in work.exchanges, NEW r \in RequestersOf(e.channel[1])
    PROVE  /\ e.kind = "REGISTER" =>
                \E f \in FirstFrames(e) : StandsFor(f, Reach(AccessOf(f), e.channel), "REGISTER", e.channel, r)
           /\ \A type \in MulticastsOf(e) :
                \E f \in FirstFrames(e) : StandsFor(f, Reach(AccessOf(f), e.channel), type, e.channel, r)
<1> DEFINE c == e.channel
           h == e.channel[1]
           s == e.channel[2]
<1>1. /\ e.kind \in {"REGISTER", "REGISTER_ACK", "DATA", "END"} /\ c \in Channels /\ c = <<h, s>>
  BY SiteFacts DEF Exchange, Channels
<1>2. CASE e.kind = "REGISTER"
  <2>1. PICK f : f = Frame("REGISTER", r, h, s)
    OBVIOUS
  <2>2. f \in FirstFrames(e) /\ f.type = "REGISTER" /\ f.src = r /\ f.dst = h /\ f.sub = s
    BY <1>2, <2>1 DEF FirstFrames, Frame
  <2>3. ChannelOf(f) = c /\ Class(f) = "REGISTER" /\ \A hosts : Stands(f, hosts) = {r}
    BY <1>1, <2>2 DEF ChannelOf, FromResponder, Class, Stands
  <2>4. MulticastsOf(e) = {}
    BY <1>2 DEF MulticastsOf
  <2> QED BY <2>2, <2>3, <2>4 DEF StandsFor
<1>3. CASE e.kind # "REGISTER"
  <2>1. PICK type \in {"REGISTER_ACK", "RESPONSE", "END"} :
          MulticastsOf(e) = {type} /\ FirstFrames(e) = {Frame(type, h, h, s)}
    BY <1>1, <1>3 DEF MulticastsOf, FirstFrames
  <2>2. PICK f : f = Frame(type, h, h, s)
    OBVIOUS
  <2>3. f.type = type /\ f.src = h /\ f.dst = h /\ f.sub = s
    BY <2>2 DEF Frame
  <2>4. ChannelOf(f) = c /\ Class(f) = type
    BY <1>1, <2>1, <2>3 DEF ChannelOf, FromResponder, Class
  <2>5. r \in Reach(AccessOf(f), c) /\ r # h
    <3>1. StartsAbove(Top, c)
      BY <1>1, WayFacts
    <3>2. AccessOf(f) = Top.access[c]
      BY <1>1, <2>3 DEF AccessOf, SiteInv
    <3> QED BY <3>1, <3>2 DEF StartsAbove, Reach, RequestersOf
  <2>6. r \in Stands(f, Reach(AccessOf(f), c))
    BY <2>1, <2>3, <2>5 DEF Stands
  <2> QED BY <1>3, <2>1, <2>2, <2>4, <2>6 DEF StandsFor
<1> QED BY <1>2, <1>3

LEMMA TokenInvInit == Init => TokenInv /\ AnswersKept
<1> SUFFICES ASSUME Init PROVE TokenInv /\ AnswersKept
  OBVIOUS
<1>1. SiteInv /\ ForwardingInv
  BY ForwardingInvInit DEF ForwardingInv
<1>2. /\ todo = UNION {FirstFrames(e) : e \in work.exchanges}
      /\ \A q \in Ports : rings[q] = <<>>
      /\ BagToSet(heard) = {}
      /\ \A R \in RouterNames : \A c \in Chans : slots[R][c].from = {}
  <2>1. BagToSet(EmptyBag) = {}
    BY DEF BagToSet, EmptyBag, SetToBag
  <2>2. \A q \in Ports : rings[q] = <<>>
    BY DEF Init, Ports
  <2>3. NoSlot.from = {}
    BY DEF NoSlot
  <2> QED BY <2>1, <2>2, <2>3 DEF Init, Chans
<1>3. \A k, c, h : InRings(k, c, h) = {} /\ InHeard(k, c, h) = {}
  <2>1. \A q \in Ports : DOMAIN rings[q] = {}
    BY <1>2
  <2> QED BY <1>2, <2>1 DEF InRings, InHeard
<1>4. \A k, h : \A c \in Chans : InSlots(k, c, h) = {}
  BY <1>2 DEF InSlots
<1>5. ASSUME NEW k, NEW c, NEW h, NEW f \in InTodo(k, c, h)
      PROVE  /\ k \in {"REGISTER", "REGISTER_ACK", "RESPONSE", "END"}
             /\ f = Frame(k, IF k = "REGISTER" THEN h ELSE c[1], c[1], c[2])
  <2>1. f \in todo /\ Class(f) = k /\ ChannelOf(f) = c /\ h \in Stands(f, Reach(AccessOf(f), c))
    BY DEF InTodo, StandsFor
  <2>2. PICK e \in work.exchanges : f \in FirstFrames(e)
    BY <1>2, <2>1
  <2>3. /\ ChannelOf(f) = e.channel /\ f.type \in {"REGISTER", "REGISTER_ACK", "RESPONSE", "END"}
        /\ f = Frame(f.type, f.src, e.channel[1], e.channel[2])
        /\ f.type # "REGISTER" => f.src = e.channel[1]
    BY <1>1, <2>2, FirstFrameFacts
  <2>4. f.type = k
    BY <2>1, <2>3 DEF Class
  <2>5. k = "REGISTER" => f.src = h
    BY <2>1, <2>4 DEF Stands
  <2> QED BY <2>1, <2>3, <2>4, <2>5
<1>6. ASSUME NEW k, NEW c, NEW h
      PROVE  InTodo(k, c, h) = {} \/ \E f : InTodo(k, c, h) = {f}
  <2>1. PICK g : g = Frame(k, IF k = "REGISTER" THEN h ELSE c[1], c[1], c[2])
    OBVIOUS
  <2>2. InTodo(k, c, h) \subseteq {g}
    BY <1>5, <2>1
  <2>3. InTodo(k, c, h) = {} \/ InTodo(k, c, h) = {g}
    BY <2>2
  <2> QED BY <2>3
<1>7. WaysInv
  <2>1. \A f \in todo : Sane(f)
    BY <1>1, <1>2, FirstFrameFacts
  <2>2. \A R \in RouterNames : \A p \in PortsOf(R) : DOMAIN rings[p] = {}
    BY <1>1, <1>2 DEF ForwardingInv, RingsInv, Ports
  <2> QED BY <1>2, <2>1, <2>2 DEF WaysInv
<1>8. SingleInv
  BY <1>3, <1>4, <1>6 DEF SingleInv, Single, OneOf, NoneOf
<1>9. BornInv
  <2>1. \A k \in {"END_ACK", "ANSWER"} : \A c \in Chans : \A h : ~Held(k, c, h)
    BY <1>3, <1>4, <1>5 DEF Held, NoneOf
  <2> QED BY <1>2, <2>1 DEF BornInv
<1>10. KeptInv
  <2>1. ASSUME NEW e \in work.exchanges, NEW r \in RequestersOf(e.channel[1])
        PROVE  /\ e.kind = "REGISTER" => Held("REGISTER", e.channel, r)
               /\ \A type \in MulticastsOf(e) : Held(type, e.channel, r)
    <3>1. \A f \in FirstFrames(e) : \A k : StandsFor(f, Reach(AccessOf(f), e.channel), k, e.channel, r) =>
            f \in InTodo(k, e.channel, r)
      BY <1>2 DEF InTodo
    <3>2. \A k : InTodo(k, e.channel, r) # {} => Held(k, e.channel, r)
      BY DEF Held, NoneOf
    <3> QED BY <1>1, <3>1, <3>2, FirstFramesStand
  <2>2. \A c, r : ~HasHeard("END", c, r)
    BY <1>3 DEF HasHeard
  <2> QED BY <2>1, <2>2 DEF KeptInv
<1>11. AnswersKept
  <2>1. \A c, r : ~HasHeard("RESPONSE", c, r)
    BY <1>3 DEF HasHeard
  <2> QED BY <2>1 DEF AnswersKept
<1> QED BY <1>7, <1>8, <1>9, <1>10, <1>11 DEF TokenInv

LEMMA TokenInvNext ==
    ForwardingInv /\ TokenInv /\ [Next]_vars =>
        TokenInv' /\ (AnswersKept /\ DataInv => AnswersKept')
<1> SUFFICES ASSUME ForwardingInv, TokenInv, [Next]_vars
             PROVE  TokenInv' /\ (AnswersKept /\ DataInv => AnswersKept')
  OBVIOUS
<1>1. CASE SendSome
  BY <1>1, SendPasses DEF SendSome
<1>2. ASSUME NEW R \in RouterNames, INC(R)
      PROVE  TokenInv' /\ (AnswersKept /\ DataInv => AnswersKept')
  <2>1. PICK p \in PortsOf(R) :
          \/ MulticastControl(R, p) \/ MulticastResponse(R, p)
          \/ Bypass(R, p) \/ Request(R, p)
    BY <1>2 DEF INC
  <2>2. CASE MulticastControl(R, p)
    BY <2>2, MulticastControlPasses
  <2>3. CASE MulticastResponse(R, p)
    BY <2>3, MulticastResponsePasses
  <2>4. CASE Bypass(R, p)
    BY <2>4, BypassPasses
  <2>5. CASE Request(R, p)
    BY <2>5, RequestPasses
  <2> QED BY <2>1, <2>2, <2>3, <2>4, <2>5
<1>3. CASE UNCHANGED vars
  <2>1. UNCHANGED <<work, fabric, cabling, todo, rings, slots, heard, dropped>>
    BY <1>3 DEF vars, site
  <2>2. UNCHANGED site
    BY <1>3 DEF vars
  <2>3. /\ Top' = Top /\ Chans' = Chans /\ RouterNames' = RouterNames /\ Ports' = Ports
        /\ \A R : PortsOf(R)' = PortsOf(R)
        /\ \A R, q, f : OnWay(R, q, f)' = OnWay(R, q, f)
        /\ \A q, c : Reach(q, c)' = Reach(q, c)
        /\ \A f : AccessOf(f)' = AccessOf(f)
    BY <2>1, <2>2, SameSite, SameWays DEF Ports
  <2>4. /\ \A k, c, h : InHeard(k, c, h)' = InHeard(k, c, h) /\ InSlots(k, c, h)' = InSlots(k, c, h)
        /\ \A k, c, h : InRings(k, c, h)' = InRings(k, c, h) /\ InTodo(k, c, h)' = InTodo(k, c, h)
    BY <2>1, <2>3 DEF InHeard, InSlots, InRings, InTodo, StandsFor
  <2>5. \A k, c, h : /\ Single(k, c, h)' = Single(k, c, h)
                     /\ Held(k, c, h)' = Held(k, c, h) /\ HasHeard(k, c, h)' = HasHeard(k, c, h)
    <3> TAKE k, c, h
    <3>1. /\ InTodo(k, c, h)' = InTodo(k, c, h) /\ InRings(k, c, h)' = InRings(k, c, h)
          /\ InHeard(k, c, h)' = InHeard(k, c, h) /\ InSlots(k, c, h)' = InSlots(k, c, h)
      BY <2>4
    <3>2. heard' = heard
      BY <2>1
    <3>3. Held(k, c, h)' = Held(k, c, h) /\ HasHeard(k, c, h)' = HasHeard(k, c, h)
      BY <3>1 DEF Held, HasHeard, NoneOf
    <3>4. Single(k, c, h)' = Single(k, c, h)
      BY <3>1, <3>2 DEF Single, OneOf, NoneOf
    <3> QED BY <3>3, <3>4
  <2>6. Frames' = Frames
    BY <2>1, <2>3 DEF Frames, FrameRecords
  <2>7. WaysInv'
    BY <2>1, <2>3, <2>6 DEF TokenInv, WaysInv
  <2>8. SingleInv' /\ BornInv' /\ KeptInv'
    BY <2>1, <2>3, <2>5 DEF TokenInv, SingleInv, BornInv, KeptInv
  <2>9. AnswersKept => AnswersKept'
    BY <2>1, <2>3, <2>5 DEF AnswersKept
  <2> QED BY <2>7, <2>8, <2>9 DEF TokenInv
<1> QED BY <1>1, <1>2, <1>3 DEF Next

LEMMA TokenInvHolds == Spec => [](ForwardingInv /\ TokenInv)
<1>1. Init => ForwardingInv /\ TokenInv
  BY ForwardingInvInit, TokenInvInit
<1>2. ForwardingInv /\ TokenInv /\ [Next]_vars => (ForwardingInv /\ TokenInv)'
  BY ForwardingInvNext, TokenInvNext
<1> QED BY <1>1, <1>2, PTL DEF Spec
-----------------------------------------------------------------------------
(* The levels, and what is summed where.                                   *)

\* A level that has a requester of another under it contains it or is above
\* it.
LEMMA LevelFacts ==
    ASSUME SiteInv, NEW c \in Channels, NEW R \in LevelsOf(c)
    PROVE  /\ R \in RouterNames /\ Within(fabric, R, c)
           /\ U(R, c) \subseteq RequestersOf(c[1]) /\ IsFiniteSet(U(R, c))
           /\ Len(Above(R)) \in Nat /\ DOMAIN Above(R) = 1 .. Len(Above(R))
           /\ \A i \in DOMAIN Above(R) : Above(R)[i] \in LevelsOf(c) /\ Len(Above(Above(R)[i])) = i - 1
           /\ Above(R) = <<>> => U(R, c) = RequestersOf(c[1])
           /\ \A Q \in LevelsOf(c) :
                /\ U(Q, c) \subseteq U(R, c) \/ U(Q, c) \cap U(R, c) = {} \/ Q \in Range(Above(R))
                /\ Q \in Range(Above(R)) => Len(Above(Q)) < Len(Above(R))
           /\ \A r \in U(R, c) : PlanFor(r, c)[Len(Above(R)) + 1] = Cardinality(U(R, c))
<1>1. R \in RouterNames /\ Within(fabric, R, c)
  BY DEF LevelsOf, Levels, RouterNames
<1>2. PICK x : x = <<NodeIn(fabric, R, c).down, c>>
  OBVIOUS
<1>3. U(R, c) = IF x \in DOMAIN Top.reach THEN Top.reach[x] \ {c[1]} ELSE {}
  BY <1>2 DEF U, Under
<1>4. U(R, c) \subseteq RequestersOf(c[1])
  <2>1. CASE x \in DOMAIN Top.reach
    <3>1. PICK p : p = NodeIn(fabric, R, c).down
      OBVIOUS
    <3>2. p \in PortsOf(R)
      <4>1. PICK S : RouterSound(Config(R), S)
        BY <1>1, SiteFacts DEF TablesSound, RouterNames, Config
      <4>2. c \in DOMAIN Config(R).tree /\ p = Config(R).tree[c].down
        BY <1>1, <3>1 DEF Within, NodeIn, Config
      <4> QED BY <4>1, <4>2 DEF RouterSound, PortsOf
    <3>3. Spreads(fabric, Top, R, c, p)
      BY <1>1, <1>2, <2>1, <3>1, <3>2, WayFacts
    <3>4. Top.reach[x] = UNION {Behind(Top, q, c) : q \in McastFrom(fabric, R, c, p)}
      BY <1>2, <3>1, <3>3 DEF Spreads
    <3>5. \A q : Behind(Top, q, c) \subseteq Ranks
      BY DEF Behind
    <3> QED BY <1>3, <3>4, <3>5 DEF RequestersOf
  <2>2. CASE x \notin DOMAIN Top.reach
    BY <1>3, <2>2
  <2> QED BY <2>1, <2>2
<1>5. IsFiniteSet(U(R, c))
  <2>1. IsFiniteSet(Ranks)
    BY FS_Interval, FabricAssumption DEF Ranks
  <2>2. U(R, c) \subseteq Ranks
    BY <1>4 DEF RequestersOf
  <2> QED BY <2>1, <2>2, FS_Subset
<1>6. Above(R) \in Seq(RouterNames)
  BY <1>1, SiteFacts DEF Above
<1>7. Len(Above(R)) \in Nat /\ DOMAIN Above(R) = 1 .. Len(Above(R))
  BY <1>6, LenProperties
<1>8. Nested(fabric, Top, R, c) /\ PlannedFor(fabric, Top, R, c)
  BY WayFacts
<1>9. /\ \A i \in DOMAIN Above(R) : Above(R)[i] \in LevelsOf(c) /\ Len(Above(Above(R)[i])) = i - 1
      /\ Above(R) = <<>> => U(R, c) = RequestersOf(c[1])
      /\ \A Q \in LevelsOf(c) :
           U(Q, c) \subseteq U(R, c) \/ U(Q, c) \cap U(R, c) = {} \/ Q \in Range(Above(R))
  BY <1>8 DEF Nested, Above, U, LevelsOf
<1>10. ASSUME NEW Q \in LevelsOf(c), Q \in Range(Above(R))
       PROVE  Len(Above(Q)) < Len(Above(R))
  <2>1. PICK i \in DOMAIN Above(R) : Q = Above(R)[i]
    BY <1>10 DEF Range
  <2>2. Len(Above(Q)) = i - 1
    BY <1>9, <2>1
  <2> QED BY <1>7, <2>1, <2>2
<1>11. \A r \in U(R, c) : PlanFor(r, c)[Len(Above(R)) + 1] = Cardinality(U(R, c))
  BY <1>8 DEF PlannedFor, PlanFor, Above, U
<1> QED BY <1>1, <1>4, <1>5, <1>7, <1>9, <1>10, <1>11

\* What changes in the slots leaves a frame as it was that is not concerned.
BoundsStay ==
    \A c \in Chans : \A Q \in RouterNames :
        slots[Q][c].bound = (Q \notin work.lost) => slots'[Q][c].bound = (Q \notin work.lost)

ApartStays(f) ==
    f.type = "REQUEST" => \A i \in DOMAIN f.stack :
        f.from \cap slots[f.stack[i]][ChannelOf(f)].from = {} =>
            f.from \cap slots'[f.stack[i]][ChannelOf(f)].from = {}

LEMMA BindsStays ==
    ASSUME UNCHANGED site, BoundsStay, NEW c \in Chans, NEW stack, NEW hosts, Binds(c, stack, hosts)
    PROVE  Binds(c, stack, hosts)'
<1>1. /\ work' = work /\ \A d : LevelsOf(d)' = LevelsOf(d)
      /\ \A R, d : U(R, d)' = U(R, d)
      /\ \A R : Above(R)' = Above(R)
  BY SameWays
<1>2. \A R \in LevelsOf(c) : R \in RouterNames
  BY DEF LevelsOf, Levels, RouterNames
<1>3. ASSUME NEW i \in DOMAIN stack
      PROVE  /\ stack[i] \in LevelsOf(c)' /\ hosts \subseteq U(stack[i], c)'
             /\ Len(Above(stack[i])') = i - 1
             /\ slots'[stack[i]][c].bound = (stack[i] \notin work'.lost)
  BY <1>1, <1>2 DEF Binds, BoundsStay
<1> QED BY <1>3 DEF Binds

LEMMA RequestFitsStays ==
    ASSUME UNCHANGED site, BoundsStay, NEW f, ChannelOf(f) \in Chans, ApartStays(f), RequestFits(f)
    PROVE  RequestFits(f)'
<1> DEFINE c == ChannelOf(f)
<1>1. /\ work' = work /\ \A d : LevelsOf(d)' = LevelsOf(d)
      /\ \A R, d : U(R, d)' = U(R, d)
  BY SameWays
<1>2. f.type = "REQUEST" => Binds(c, f.stack, f.from)'
  <2>1. f.type = "REQUEST" => Binds(c, f.stack, f.from)
    BY DEF RequestFits
  <2> QED BY <2>1, BindsStays
<1>3. f.type = "REQUEST" => \A i \in DOMAIN f.stack :
        f.from \cap slots'[f.stack[i]][c].from = {}
  BY DEF RequestFits, ApartStays
<1>4. c' = c
  BY DEF ChannelOf
<1> HIDE DEF c
<1>5. /\ f.from # {} /\ f.from \subseteq RequestersOf(c[1])
      /\ f.type = "AGG_MISS" => work'.lost # {}
      /\ f.type = "REQUEST" =>
           /\ f.count = Cardinality(f.from)
           /\ f.stack = <<>> => f.from = RequestersOf(c[1])
           /\ \A i \in DOMAIN f.stack : f.fanins[i] = Cardinality(U(f.stack[i], c)')
           /\ \A Q \in LevelsOf(c)' :
                \/ U(Q, c)' \subseteq f.from \/ U(Q, c)' \cap f.from = {}
                \/ Q \in Range(f.stack)
  BY <1>1 DEF RequestFits, c
<1> QED BY <1>2, <1>3, <1>4, <1>5 DEF RequestFits, c

\* What is under way beside the first frame at p.
Others(p) == todo \cup {rings[z[1]][z[2]] : z \in Spots \ {<<p, 1>>}}

LEMMA PassData ==
    ASSUME ForwardingInv, TokenInv, DataInv, NEW R \in RouterNames, NEW p,
           NEW devices, NEW ports, NEW n \in Nat, DOMAIN ports = 1 .. n, NEW g \in Frames,
           Pass(R, p, devices, ports, g),
           \A Q \in RouterNames : \A c \in Chans : SlotFits(Q, c)',
           BoundsStay, \A f \in Others(p) : ApartStays(f),
           \A i \in DOMAIN ports : \A q \in Ports :
             Leaves(devices, ports, i, <<"port", q>>) => FitsAt(q, g)',
           \A i \in DOMAIN ports : \A b \in Ranks :
             Leaves(devices, ports, i, <<"host", b>>) =>
               HeardFits(g)' /\ \A f \in Replies(b, g) : Class(f) = "ANSWER" => RequestFits(f)'
    PROVE  DataInv'
<1>1. UNCHANGED site /\ Chans' = Chans /\ RouterNames' = RouterNames /\ Ports' = Ports
  BY PassRings, SameSite
<1>2. Moved(p, devices, ports, g) /\ Hear(devices, ports, g)
  BY Positions, PassHeard
<1>3. \A f : Class(f)' = Class(f) /\ ChannelOf(f)' = ChannelOf(f)
  BY DEF Class, ChannelOf
<1>4. ASSUME NEW f \in todo', Class(f) = "ANSWER"
      PROVE  RequestFits(f)'
  <2>1. CASE f \in todo
    <3>1. ApartStays(f) /\ RequestFits(f)
      BY <1>4, <2>1 DEF Others, DataInv
    <3>2. ChannelOf(f) \in Chans
      BY <2>1 DEF ForwardingInv, RingsInv, MayBeSent, Frames
    <3> QED BY <1>1, <3>1, <3>2, RequestFitsStays
  <2>2. CASE f \notin todo
    <3>1. Inject([rings EXCEPT ![p] = Tail(rings[p])], devices, ports, g)
      BY DEF Pass
    <3>2. PICK b \in Ranks : Copies(devices, ports, <<"host", b>>) > 0 /\ f \in Replies(b, g)
      BY <2>2, <3>1 DEF Inject
    <3>3. PICK i \in DOMAIN ports : Leaves(devices, ports, i, <<"host", b>>)
      BY <3>2, CopiesFacts DEF Leaves
    <3> QED BY <1>4, <3>2, <3>3
  <2> QED BY <2>1, <2>2
<1>5. ASSUME NEW x \in BagToSet(heard)'
      PROVE  HeardFits(x.frame)'
  <2>1. CASE x \in BagToSet(heard)
    <3>1. HeardFits(x.frame) /\ x.frame \in Frames
      BY <2>1 DEF DataInv, TokenInv, WaysInv
    <3>2. PICK f \in Frames : f = x.frame
      BY <3>1
    <3>3. CASE Class(f) = "ANSWER"
      <4>1. RequestFits(f) /\ (f.type = "REQUEST" => f.stack = <<>>) /\ ChannelOf(f) \in Chans
        BY <3>1, <3>2, <3>3 DEF HeardFits, Frames
      <4>2. ApartStays(f)
        BY <4>1 DEF ApartStays
      <4>3. RequestFits(f)'
        BY <1>1, <4>1, <4>2, RequestFitsStays
      <4>4. HeardFits(f)'
        BY <1>3, <4>1, <4>3 DEF HeardFits
      <4> QED BY <3>2, <4>4
    <3> QED BY <1>3, <3>2, <3>3 DEF HeardFits
  <2>2. CASE x \notin BagToSet(heard)
    <3>1. PICK b \in Ranks : \E i \in DOMAIN ports :
            x = [at |-> b, frame |-> g] /\ Leaves(devices, ports, i, <<"host", b>>)
      BY <1>2, <2>2 DEF Hear
    <3>2. x.frame = g
      BY <3>1
    <3> QED BY <3>1, <3>2
  <2> QED BY <2>1, <2>2
<1>6. ASSUME NEW q \in Ports, NEW i \in DOMAIN rings'[q]
      PROVE  FitsAt(q, rings[q][i])'
  <2>1. PICK z : z = <<q, i>>
    OBVIOUS
  <2>2. z \in Spots' /\ z[1] = q /\ z[2] = i
    <3>1. DOMAIN rings'[q] = 1 .. Len(rings'[q]) /\ Len(rings'[q]) \in Nat /\ Len(rings'[q]) < RingSize
      BY PassRings DEF Grows
    <3>2. i \in 1 .. RingSize
      BY <3>1, ForwardingAssumption
    <3> QED BY <1>1, <2>1, <3>2 DEF Spots
  <2>3. CASE \E y \in Spots : /\ y # <<p, 1>> /\ z = Shift(p, y)
                             /\ rings'[z[1]][z[2]] = rings[y[1]][y[2]]
    <3>1. PICK y \in Spots : /\ y # <<p, 1>> /\ z = Shift(p, y)
                             /\ rings'[z[1]][z[2]] = rings[y[1]][y[2]]
      BY <2>3
    <3>2. z[1] = y[1] /\ y[1] \in Ports /\ y[2] \in DOMAIN rings[y[1]]
      BY <3>1 DEF Shift, Spots
    <3>3. PICK f : f = rings[y[1]][y[2]]
      OBVIOUS
    <3>4. FitsAt(q, f) /\ f \in Others(p)
      BY <2>2, <3>1, <3>2, <3>3 DEF DataInv, Others
    <3>5. f \in Frames /\ ChannelOf(f) \in Chans
      <4>1. PICK Q \in RouterNames : y[1] \in PortsOf(Q)
        BY <3>2 DEF ForwardingInv, RingsInv, Ports
      <4>2. rings[y[1]] \in Seq(MayWaitAt(Q, y[1]))
        BY <4>1 DEF ForwardingInv, RingsInv
      <4>3. f \in MayWaitAt(Q, y[1])
        BY <3>2, <3>3, <4>2, ElementOfSeq
      <4> QED BY <4>3 DEF MayWaitAt, Frames
    <3>6. f.type = "RESPONSE" => Binds(ChannelOf(f), f.stack, Reach(q, ChannelOf(f)) \ {f.src})'
      <4>1. Reach(q, ChannelOf(f))' = Reach(q, ChannelOf(f))
        BY <1>1, <1>3, SameWays
      <4>2. PICK hosts : hosts = Reach(q, ChannelOf(f)) \ {f.src}
        OBVIOUS
      <4>3. PICK c \in Chans : c = ChannelOf(f)
        BY <3>5
      <4>4. f.type = "RESPONSE" => Binds(c, f.stack, hosts)
        BY <3>4, <4>2, <4>3 DEF FitsAt
      <4>5. f.type = "RESPONSE" => Binds(c, f.stack, hosts)'
        BY <1>1, <4>4, BindsStays
      <4>6. hosts = Reach(q, c)' \ {f.src}
        BY <4>1, <4>2, <4>3
      <4> QED BY <1>3, <4>3, <4>5, <4>6 DEF Binds
    <3>7. Class(f) = "ANSWER" => RequestFits(f)'
      BY <1>1, <3>4, <3>5, RequestFitsStays DEF FitsAt
    <3>8. FitsAt(q, f)'
      BY <1>3, <3>6, <3>7 DEF FitsAt
    <3> QED BY <2>2, <3>1, <3>3, <3>8
  <2>4. CASE /\ Fresh(p, z) /\ rings'[z[1]][z[2]] = g
             /\ \E j \in DOMAIN ports : Leaves(devices, ports, j, <<"port", z[1]>>)
    <3>1. FitsAt(q, g)'
      BY <2>2, <2>4
    <3> QED BY <2>2, <2>4, <3>1
  <2> QED BY <1>2, <2>2, <2>3, <2>4 DEF Moved
<1>7. \A f \in todo' : Class(f)' = "ANSWER" => RequestFits(f)'
  BY <1>3, <1>4
<1> QED BY <1>1, <1>5, <1>6, <1>7 DEF DataInv

LEMMA SlotFitsStays ==
    ASSUME UNCHANGED site, NEW R \in RouterNames, NEW c \in Chans,
           slots'[R][c] = slots[R][c], SlotFits(R, c)
    PROVE  SlotFits(R, c)'
<1>1. /\ \A d : LevelsOf(d)' = LevelsOf(d)
      /\ \A Q, d : U(Q, d)' = U(Q, d)
      /\ \A Q : Above(Q)' = Above(Q)
  BY SameWays
<1> QED BY <1>1 DEF SlotFits

LEMMA SameSlotsFit ==
    ASSUME UNCHANGED site, slots' = slots, DataInv
    PROVE  /\ \A R \in RouterNames : \A c \in Chans : SlotFits(R, c)'
           /\ BoundsStay /\ \A f : ApartStays(f)
<1>1. \A R \in RouterNames : \A c \in Chans : SlotFits(R, c)'
  BY SlotFitsStays DEF DataInv
<1>2. BoundsStay /\ \A f : ApartStays(f)
  BY DEF BoundsStay, ApartStays
<1> QED BY <1>1, <1>2

LEMMA FirstFits ==
    ASSUME ForwardingInv, DataInv, NEW R \in RouterNames, NEW p \in PortsOf(R), rings[p] # <<>>
    PROVE  FitsAt(p, First(p))
<1>1. rings[p] \in Seq(MayWaitAt(R, p)) /\ p \in Ports
  BY DEF ForwardingInv, RingsInv, Ports
<1>2. 1 \in DOMAIN rings[p]
  BY <1>1, LenProperties, EmptySeq
<1> QED BY <1>1, <1>2 DEF DataInv, First

\* What the responder hears has no level left.
LEMMA UpData ==
    ASSUME ForwardingInv, TokenInv, DataInv, NEW R \in RouterNames, NEW p \in PortsOf(R), rings[p] # <<>>,
           NEW f, f = First(p), NEW c, c = ChannelOf(f), f.type \notin FromResponder,
           NEW g \in Frames, g.type \notin FromResponder, ChannelOf(g) = c, Sane(g),
           NEW ports, ports = BypassPorts(R, p, c), Pass(R, p, PortsOf(R), ports, g),
           \A Q \in RouterNames : \A d \in Chans : SlotFits(Q, d)',
           BoundsStay, \A x \in Others(p) : ApartStays(x),
           Class(g) = "ANSWER" => RequestFits(g)',
           g.type = "REQUEST" /\ g.stack # <<>> =>
             InTree(R, c) /\ ~FromParent(R, c, p) /\ g.stack = Above(R)
    PROVE  DataInv'
<1>1. /\ OnWay(R, p, f) /\ c \in Chans /\ c \in Channels
  BY Popped
<1>2. PICK n \in Nat : DOMAIN ports = 1 .. n
  BY PortsAreSeqs DEF ForwardingInv
<1>3. Arrive(PortsOf(R), ports, g)
  BY <1>1, LeadCopies DEF ForwardingInv, RingsInv, OnWay
<1>4. g.type # "RESPONSE" /\ g.type # "END" /\ c = <<g.dst, g.sub>>
  BY DEF FromResponder, ChannelOf
<1>5. (Class(g) = "ANSWER")' <=> Class(g) = "ANSWER"
  BY DEF Class
<1>6. \A q : FitsAt(q, g)'
  BY <1>4, <1>5 DEF FitsAt
<1>7. \A b : Replies(b, g) = {}
  BY <1>4 DEF Replies
<1>8. ASSUME NEW i \in DOMAIN ports, NEW b \in Ranks, Leaves(PortsOf(R), ports, i, <<"host", b>>)
      PROVE  HeardFits(g)'
  <2>1. b = c[1]
    BY <1>3, <1>4, <1>8 DEF Arrive, Leaves
  <2>2. ASSUME g.type = "REQUEST", g.stack # <<>> PROVE FALSE
    <3>1. InTree(R, c) /\ ~FromParent(R, c, p) /\ g.stack = Above(R)
      BY <2>2
    <3>2. ports = <<TreeAt(R, c).up>>
      BY <3>1 DEF BypassPorts
    <3>3. ports[i] = TreeAt(R, c).up
      BY <3>2
    <3>4. Top.links[NodeIn(fabric, R, c).up] = <<"host", c[1]>>
      BY <1>8, <2>1, <3>3 DEF Leaves, LinkOf, ForwardingInv, SiteInv, NodeIn, TreeAt, Config
    <3>5. Delivers(fabric, Top, R, c)
      BY <3>1, WayFacts DEF InTree, ForwardingInv
    <3> QED BY <2>2, <3>1, <3>4, <3>5 DEF Delivers, Above
  <2> QED BY <1>5, <2>2 DEF HeardFits
<1> QED BY <1>2, <1>6, <1>7, <1>8, PassData

LEMMA BypassData ==
    ASSUME ForwardingInv, TokenInv, DataInv, NEW R \in RouterNames, NEW p \in PortsOf(R), Bypass(R, p)
    PROVE  DataInv'
<1>1. PICK f : f = First(p)
  OBVIOUS
<1>2. PICK c : c = ChannelOf(f)
  OBVIOUS
<1>3. /\ rings[p] # <<>> /\ f.type \in {"REGISTER", "END_ACK", "AGG_MISS", "REQUEST"}
      /\ Pass(R, p, PortsOf(R), BypassPorts(R, p, c), f) /\ slots' = slots
      /\ f.type = "REQUEST" => ~Aggregates(R, f)
  BY <1>1, <1>2 DEF Bypass, Waits
<1>4. f \in Frames /\ Sane(f) /\ c \in Chans /\ (f.type = "REQUEST" => RequestStackFits(R, p, f))
  BY <1>1, <1>2, <1>3, Popped
<1>5. f.type \notin FromResponder
  BY <1>3 DEF FromResponder
<1>6. PICK n \in Nat : DOMAIN BypassPorts(R, p, c) = 1 .. n
  BY PortsAreSeqs DEF ForwardingInv
<1>7. UNCHANGED site
  BY <1>3, <1>6, PassRings
<1>8. /\ \A Q \in RouterNames : \A d \in Chans : SlotFits(Q, d)'
      /\ BoundsStay /\ \A x : ApartStays(x)
  BY <1>3, <1>7, SameSlotsFit
<1>9. FitsAt(p, f)
  BY <1>1, <1>3, FirstFits
<1>10. Class(f) = "ANSWER" => RequestFits(f)'
  BY <1>2, <1>4, <1>7, <1>8, <1>9, RequestFitsStays DEF FitsAt
<1>11. f.type = "REQUEST" /\ f.stack # <<>> =>
         InTree(R, c) /\ ~FromParent(R, c, p) /\ f.stack = Above(R)
  <2> SUFFICES ASSUME f.type = "REQUEST", f.stack # <<>>
               PROVE  InTree(R, c) /\ ~FromParent(R, c, p) /\ f.stack = Above(R)
    OBVIOUS
  <2>1. InTree(R, c) /\ ~FromParent(R, c, p) /\ f.stack = Below(R, c)
    BY <1>2, <1>4 DEF RequestStackFits
  <2>2. ~IsLevel(R, c)
    BY <1>2, <1>3 DEF Aggregates
  <2> QED BY <2>1, <2>2 DEF Below, LevelsBelow, IsLevel, NodeIn, TreeAt, Config, Above
<1> QED BY <1>1, <1>2, <1>3, <1>4, <1>5, <1>8, <1>10, <1>11, UpData

LEMMA MulticastControlData ==
    ASSUME ForwardingInv, TokenInv, DataInv, NEW R \in RouterNames, NEW p \in PortsOf(R), MulticastControl(R, p)
    PROVE  DataInv'
<1>1. PICK f : f = First(p)
  OBVIOUS
<1>2. PICK c : c = ChannelOf(f)
  OBVIOUS
<1>3. PICK devices : devices = IF FromParent(R, c, p) THEN PortsOf(R) \ {p} ELSE PortsOf(R)
  OBVIOUS
<1>4. /\ rings[p] # <<>> /\ f.type \in {"REGISTER_ACK", "END"}
      /\ Pass(R, p, devices, McastPorts(R, p, c), f) /\ slots' = slots
  BY <1>1, <1>2, <1>3 DEF MulticastControl, Waits
<1>5. f \in Frames
  BY <1>1, <1>4, Popped
<1>6. PICK n \in Nat : DOMAIN McastPorts(R, p, c) = 1 .. n
  BY PortsAreSeqs DEF ForwardingInv
<1>7. UNCHANGED site
  BY <1>4, <1>6, PassRings
<1>8. /\ \A Q \in RouterNames : \A d \in Chans : SlotFits(Q, d)'
      /\ BoundsStay /\ \A x : ApartStays(x)
  BY <1>4, <1>7, SameSlotsFit
<1>9. Class(f)' # "ANSWER" /\ f.type # "RESPONSE"
  BY <1>4 DEF Class
<1>10. HeardFits(f)' /\ \A q : FitsAt(q, f)'
  BY <1>9 DEF HeardFits, FitsAt
<1>11. \A b : \A x \in Replies(b, f) : Class(x) # "ANSWER"
  <2>1. \A b : \A x \in Replies(b, f) : x = Frame("END_ACK", b, ChannelOf(f)[1], f.sub)
    BY <1>4 DEF Replies
  <2>2. \A b, d, s : Frame("END_ACK", b, d, s).type = "END_ACK"
    BY DEF Frame
  <2> QED BY <2>1, <2>2 DEF Class
<1> QED BY <1>4, <1>5, <1>6, <1>8, <1>10, <1>11, PassData

LEMMA SendData ==
    ASSUME ForwardingInv, TokenInv, DataInv, NEW f \in todo, Send(f)
    PROVE  DataInv'
<1>1. PICK p : p = AccessOf(f)
  OBVIOUS
<1>2. /\ todo' = todo \ {f} /\ heard' = heard /\ slots' = slots /\ UNCHANGED site
      /\ f \in Frames /\ p \in Ports
  BY <1>1, StartsOnWay DEF Send
<1>3. PICK w : w = <<p, Len(rings[p]) + 1>>
  OBVIOUS
<1>4. Joins(p, f, w)
  BY <1>1, <1>2, <1>3, SendJoins
<1>5. /\ Chans' = Chans /\ RouterNames' = RouterNames /\ \A R : PortsOf(R)' = PortsOf(R)
      /\ \A q, c : Reach(q, c)' = Reach(q, c)
  BY <1>2, SameSite, SameWays
<1>6. /\ \A Q \in RouterNames : \A d \in Chans : SlotFits(Q, d)'
      /\ BoundsStay /\ \A x : ApartStays(x)
  BY <1>2, SameSlotsFit
<1>7. \A x : /\ Class(x)' = Class(x) /\ ChannelOf(x)' = ChannelOf(x)
             /\ x \in Frames => ChannelOf(x) \in Chans
  BY DEF Class, ChannelOf, Frames
<1>8. \A x \in Frames : RequestFits(x) => RequestFits(x)'
  BY <1>2, <1>6, <1>7, RequestFitsStays
<1>9. ASSUME NEW q, NEW x \in Frames, FitsAt(q, x)
      PROVE  FitsAt(q, x)'
  <2>1. x.type = "RESPONSE" => Binds(ChannelOf(x), x.stack, Reach(q, ChannelOf(x)) \ {x.src})'
    <3>1. PICK hosts : hosts = Reach(q, ChannelOf(x)) \ {x.src}
      OBVIOUS
    <3>2. PICK c \in Chans : c = ChannelOf(x)
      BY <1>7
    <3>3. x.type = "RESPONSE" => Binds(c, x.stack, hosts)
      BY <1>9, <3>1, <3>2 DEF FitsAt
    <3>4. x.type = "RESPONSE" => Binds(c, x.stack, hosts)'
      BY <1>2, <1>6, <3>3, BindsStays
    <3>5. hosts = Reach(q, c)' \ {x.src}
      BY <1>5, <3>1, <3>2
    <3> QED BY <1>7, <3>2, <3>4, <3>5 DEF Binds
  <2>2. Class(x) = "ANSWER" => RequestFits(x)'
    BY <1>8, <1>9 DEF FitsAt
  <2> QED BY <1>7, <2>1, <2>2 DEF FitsAt
<1>10. FitsAt(p, f)
  <2>1. Class(f) = "ANSWER" => RequestFits(f)
    BY DEF DataInv
  <2>2. f.type = "RESPONSE" => f.stack = <<>>
    BY DEF ForwardingInv, RingsInv, MayBeSent
  <2>3. f.type = "RESPONSE" => Binds(ChannelOf(f), f.stack, Reach(p, ChannelOf(f)) \ {f.src})
    <3>1. DOMAIN <<>> = {}
      OBVIOUS
    <3> QED BY <2>2, <3>1 DEF Binds
  <2> QED BY <2>1, <2>3 DEF FitsAt
<1>11. \A x \in todo' : Class(x)' = "ANSWER" => RequestFits(x)'
  BY <1>2, <1>7, <1>8 DEF DataInv, ForwardingInv, RingsInv, MayBeSent
<1>12. ASSUME NEW x \in BagToSet(heard)'
       PROVE  HeardFits(x.frame)'
  <2>1. x \in BagToSet(heard)
    BY <1>2
  <2>2. PICK g \in Frames : g = x.frame /\ HeardFits(g)
    BY <2>1 DEF DataInv, TokenInv, WaysInv
  <2>3. HeardFits(g)'
    BY <1>7, <1>8, <2>2 DEF HeardFits
  <2> QED BY <2>2, <2>3 DEF HeardFits
<1>13. ASSUME NEW q \in Ports', NEW i \in DOMAIN rings'[q]
       PROVE  FitsAt(q, rings[q][i])'
  <2>1. PICK z : z = <<q, i>>
    OBVIOUS
  <2>2. Ports' = Ports
    BY DEF Send, Ports
  <2>3. z \in Spots' /\ z[1] = q /\ z[2] = i
    <3>1. PICK R \in RouterNames : q \in PortsOf(R)
      BY <2>2 DEF ForwardingInv, RingsInv, Ports
    <3>2. ForwardingInv'
      BY SendKeeps
    <3>3. PICK M : rings'[q] \in Seq(M) /\ Len(rings'[q]) < RingSize
      BY <1>5, <3>1, <3>2 DEF ForwardingInv, RingsInv
    <3>4. Len(rings'[q]) \in Nat /\ DOMAIN rings'[q] = 1 .. Len(rings'[q])
      BY <3>3, LenProperties
    <3>5. i \in 1 .. RingSize
      BY <3>3, <3>4, ForwardingAssumption
    <3> QED BY <2>1, <3>5 DEF Spots
  <2>4. CASE z \in Spots
    <3>1. rings'[q][i] = rings[q][i] /\ i \in DOMAIN rings[q]
      BY <1>4, <2>3, <2>4 DEF Joins, Spots
    <3>2. PICK x : x = rings[q][i]
      OBVIOUS
    <3>3. FitsAt(q, x)
      BY <2>2, <3>1, <3>2 DEF DataInv
    <3>4. x \in Frames
      <4>1. PICK Q \in RouterNames : q \in PortsOf(Q)
        BY <2>2 DEF ForwardingInv, RingsInv, Ports
      <4>2. rings[q] \in Seq(MayWaitAt(Q, q))
        BY <4>1 DEF ForwardingInv, RingsInv
      <4>3. x \in MayWaitAt(Q, q)
        BY <3>1, <3>2, <4>2, ElementOfSeq
      <4> QED BY <4>3 DEF MayWaitAt
    <3>5. FitsAt(q, x)'
      BY <1>9, <3>3, <3>4
    <3> QED BY <3>1, <3>2, <3>5
  <2>5. CASE z \notin Spots
    <3>1. q = p /\ rings'[q][i] = f
      BY <1>4, <2>3, <2>5 DEF Joins
    <3>2. FitsAt(p, f)'
      BY <1>2, <1>9, <1>10
    <3> QED BY <3>1, <3>2
  <2> QED BY <2>4, <2>5
<1> QED BY <1>5, <1>6, <1>11, <1>12, <1>13 DEF DataInv

LEMMA OthersAreFrames ==
    ASSUME ForwardingInv, NEW p, NEW f \in Others(p)
    PROVE  f \in Frames /\ ChannelOf(f) \in Chans /\ \A i \in DOMAIN f.stack : f.stack[i] \in RouterNames
<1>1. f \in Frames
  <2>1. CASE f \in todo
    BY <2>1 DEF ForwardingInv, RingsInv, MayBeSent
  <2>2. CASE f \notin todo
    <3>1. PICK z \in Spots : f = rings[z[1]][z[2]]
      BY <2>2 DEF Others
    <3>2. z[1] \in Ports /\ z[2] \in DOMAIN rings[z[1]]
      BY <3>1 DEF Spots
    <3>3. PICK Q \in RouterNames : z[1] \in PortsOf(Q)
      BY <3>2 DEF ForwardingInv, RingsInv, Ports
    <3>4. rings[z[1]] \in Seq(MayWaitAt(Q, z[1]))
      BY <3>3 DEF ForwardingInv, RingsInv
    <3>5. f \in MayWaitAt(Q, z[1])
      BY <3>1, <3>2, <3>4, ElementOfSeq
    <3> QED BY <3>5 DEF MayWaitAt
  <2> QED BY <2>1, <2>2
<1>2. f.stack \in Seq(RouterNames) /\ ChannelOf(f) \in Chans
  BY <1>1 DEF Frames, FrameRecords
<1> QED BY <1>1, <1>2, ElementOfSeq

\* A credit leaves a router with all slots on its stack bound.
LEMMA CreditBinds ==
    ASSUME ForwardingInv, TokenInv, DataInv, NEW R \in RouterNames, NEW p \in PortsOf(R),
           NEW f, NEW c, NEW push, NEW g, Relays(R, p, f, c, push, g),
           UNCHANGED site, BoundsStay, push => slots'[R][c].bound = (R \notin work.lost)
    PROVE  Binds(c, g.stack, Reach(p, c) \ {c[1]})'
<1>0. /\ rings[p] # <<>> /\ f = First(p) /\ f.type = "RESPONSE" /\ c = ChannelOf(f)
      /\ push \in BOOLEAN /\ (push <=> IsLevel(R, c) /\ FromParent(R, c, p))
      /\ g = (IF push THEN [f EXCEPT !.stack = Append(f.stack, R)] ELSE f)
  BY DEF Relays
<1> USE <1>0
<1>1. PICK hosts : hosts = Reach(p, c) \ {c[1]}
  OBVIOUS
<1>2. /\ f \in Frames /\ c \in Chans /\ c \in Channels /\ CreditStackFits(R, p, f)
      /\ f.stack \in Seq(RouterNames) /\ f.src = c[1]
  <2>1. f \in Frames /\ c \in Chans /\ c \in Channels /\ CreditStackFits(R, p, f)
    BY Popped
  <2> QED BY <2>1 DEF Frames, FrameRecords, ChannelOf, FromResponder
<1>3. Binds(c, f.stack, hosts)
  <2>1. FitsAt(p, f)
    BY FirstFits
  <2> QED BY <1>1, <1>2, <2>1 DEF FitsAt
<1>4. Binds(c, f.stack, hosts)'
  BY <1>2, <1>3, BindsStays
<1>5. hosts = Reach(p, c)' \ {c[1]}
  BY <1>1, SameWays
<1>6. /\ work' = work /\ \A d : LevelsOf(d)' = LevelsOf(d)
      /\ \A Q, d : U(Q, d)' = U(Q, d)
      /\ \A Q : Above(Q)' = Above(Q)
  BY SameWays
<1>7. Binds(c, g.stack, hosts)'
  <2>1. CASE ~push
    <3>1. g.stack = f.stack
      BY <2>1
    <3> QED BY <1>4, <3>1
  <2>2. CASE push
    <3>1. g.stack = Append(f.stack, R) /\ IsLevel(R, c) /\ FromParent(R, c, p)
      BY <1>2, <2>2 DEF Frames, FrameRecords
    <3>2. f.stack = Above(R)
      BY <1>2, <3>1 DEF CreditStackFits, IsLevel
    <3>3. R \in LevelsOf(c)
      BY <3>1 DEF IsLevel, InTree, TreeAt, LevelsOf, Levels, Within, NodeIn, Config, RouterNames
    <3>4. hosts \subseteq U(R, c)
      BY <1>1, <3>1 DEF FromParent, TreeAt, NodeIn, Config, U, Under, Reach
    <3>5. /\ Len(f.stack) \in Nat /\ DOMAIN f.stack = 1 .. Len(f.stack)
          /\ DOMAIN g.stack = 1 .. Len(f.stack) + 1
          /\ \A i \in 1 .. Len(f.stack) : g.stack[i] = f.stack[i]
          /\ g.stack[Len(f.stack) + 1] = R
      BY <1>2, <3>1, AppendProperties, LenProperties
    <3>6. ASSUME NEW i \in DOMAIN g.stack
          PROVE  /\ g.stack[i] \in LevelsOf(c)' /\ hosts \subseteq U(g.stack[i], c)'
                 /\ Len(Above(g.stack[i])') = i - 1
                 /\ slots'[g.stack[i]][c].bound = (g.stack[i] \notin work'.lost)
      <4>1. CASE i \in DOMAIN f.stack
        BY <1>4, <3>5, <4>1 DEF Binds
      <4>2. CASE i \notin DOMAIN f.stack
        <5>1. i = Len(f.stack) + 1 /\ g.stack[i] = R /\ i - 1 = Len(f.stack)
          BY <3>5, <4>2
        <5> QED BY <1>6, <2>2, <3>2, <3>3, <3>4, <5>1
      <4> QED BY <4>1, <4>2
    <3> QED BY <3>6 DEF Binds
  <2> QED BY <2>1, <2>2
<1> QED BY <1>5, <1>7 DEF Binds

\* Whom a credit is on its way to has contributed nothing yet.
LEMMA NoneYet ==
    ASSUME ForwardingInv, TokenInv, NEW R \in RouterNames, NEW p \in PortsOf(R), rings[p] # <<>>,
           NEW f, f = First(p), f.type = "RESPONSE", NEW c, c = ChannelOf(f),
           NEW h \in Ranks, h \in Reach(p, c), NEW Q \in RouterNames
    PROVE  h \notin slots[Q][c].from
<1>1. /\ c \in Chans /\ <<p, 1>> \in InRings("RESPONSE", c, h)
  <2>1. Class(f) = "RESPONSE" /\ \A hosts : Stands(f, hosts) = hosts
    BY DEF Class, Stands
  <2> QED BY <2>1, Popped
<1>2. Single("RESPONSE", c, h)
  BY <1>1 DEF TokenInv, SingleInv, Classes
<1>3. ~HasHeard("RESPONSE", c, h)
  BY <1>1, <1>2 DEF Single, OneOf, NoneOf, HasHeard
<1> QED BY <1>1, <1>3 DEF TokenInv, BornInv

\* The answer to it fits the plan.
LEMMA CreditReply ==
    ASSUME ForwardingInv, TokenInv, DataInv, NEW R \in RouterNames, NEW p \in PortsOf(R),
           NEW f, NEW c, NEW push, NEW g, Relays(R, p, f, c, push, g),
           UNCHANGED site, BoundsStay, push => slots'[R][c].bound = (R \notin work.lost),
           \A Q \in RouterNames : slots'[Q][c].from \subseteq slots[Q][c].from,
           NEW h \in Ranks, Called(PortsOf(R), McastPorts(R, p, c), h), NEW x \in Replies(h, g)
    PROVE  RequestFits(x)'
<1>0. /\ rings[p] # <<>> /\ f = First(p) /\ f.type = "RESPONSE" /\ c = ChannelOf(f)
      /\ push \in BOOLEAN /\ (push <=> IsLevel(R, c) /\ FromParent(R, c, p))
      /\ g = (IF push THEN [f EXCEPT !.stack = Append(f.stack, R)] ELSE f)
  BY DEF Relays
<1> USE <1>0
<1>1. f \in Frames /\ c \in Chans /\ c \in Channels
  BY Popped
<1>2. g \in Frames /\ g.type = "RESPONSE" /\ ChannelOf(g) = c
  <2>1. /\ g \in Frames /\ g.type = "RESPONSE" /\ ChannelOf(g) = ChannelOf(f)
    BY <1>1, CreditSent
  <2> QED BY <2>1
<1>3. /\ h \in RequestersOf(c[1]) /\ x.type = "REQUEST" /\ x.from = {h} /\ x.count = 1
      /\ x.stack = g.stack /\ x.fanins = PlanFor(h, c) /\ ChannelOf(x) = c
  <2>1. SiteInv /\ h \in Ranks /\ x \in Replies(h, g)
    BY DEF ForwardingInv
  <2> QED BY ONLY <1>2, <2>1, ReplyFacts
<1>4. /\ g.stack # <<>> /\ h \in Reach(p, c) /\ h # c[1]
      /\ \A Q \in LevelsOf(c) : h \in U(Q, c) => Q \in Range(g.stack)
  <2>1. h \in RequestersOf(c[1])
    BY <1>3
  <2>2. /\ g.stack # <<>> /\ h \in Reach(p, c)
        /\ \A Q \in LevelsOf(c) : h \in U(Q, c) => Q \in Range(g.stack)
    <3>1. ForwardingInv /\ TokenInv /\ R \in RouterNames /\ p \in PortsOf(R)
          /\ Called(PortsOf(R), McastPorts(R, p, c), h) /\ Relays(R, p, f, c, push, g)
      OBVIOUS
    <3> QED BY ONLY <2>1, <3>1, CreditAnswered
  <2> QED BY <2>1, <2>2 DEF RequestersOf
<1>5. Binds(c, g.stack, Reach(p, c) \ {c[1]})'
  BY CreditBinds
<1>6. /\ work' = work /\ \A d : LevelsOf(d)' = LevelsOf(d)
      /\ \A Q, d : U(Q, d)' = U(Q, d)
      /\ \A Q : Above(Q)' = Above(Q)
      /\ Reach(p, c)' = Reach(p, c)
  BY SameWays
<1>7. ASSUME NEW i \in DOMAIN g.stack
      PROVE  /\ g.stack[i] \in LevelsOf(c) /\ h \in U(g.stack[i], c) /\ Len(Above(g.stack[i])) = i - 1
             /\ slots'[g.stack[i]][c].bound = (g.stack[i] \notin work.lost)
  BY <1>4, <1>5, <1>6 DEF Binds
<1>8. ASSUME NEW i \in DOMAIN g.stack
      PROVE  /\ h \notin slots'[g.stack[i]][c].from
             /\ x.fanins[i] = Cardinality(U(g.stack[i], c))
  <2>1. PICK Q \in LevelsOf(c) : Q = g.stack[i]
    BY <1>7
  <2>2. Q \in RouterNames /\ Len(Above(Q)) \in Nat
    BY <1>1, LevelFacts DEF ForwardingInv
  <2>3. h \notin slots'[Q][c].from
    BY <1>4, <2>2, NoneYet
  <2>4. Len(Above(Q)) + 1 = i
    <3>1. i \in Nat
      <4>1. g.stack \in Seq(RouterNames)
        BY <1>2 DEF Frames, FrameRecords
      <4> QED BY <4>1, LenProperties
    <3> QED BY <1>7, <2>1, <2>2, <3>1
  <2>5. PlanFor(h, c)[Len(Above(Q)) + 1] = Cardinality(U(Q, c))
    BY <1>1, <1>7, <2>1, LevelFacts DEF ForwardingInv
  <2> QED BY <1>3, <2>1, <2>3, <2>4, <2>5
<1>9. Binds(c, x.stack, x.from)'
  <2>1. \A i \in DOMAIN g.stack : {h} \subseteq U(g.stack[i], c)
    BY <1>7
  <2> QED BY <1>3, <1>6, <1>7, <2>1 DEF Binds
<1>10. Cardinality({h}) = 1
  BY FS_Singleton
<1>11. ChannelOf(x)' = c
  BY <1>3 DEF ChannelOf
<1>12. \A Q \in LevelsOf(c) :
         U(Q, c) \subseteq {h} \/ U(Q, c) \cap {h} = {} \/ Q \in Range(x.stack)
  BY <1>3, <1>4
<1>13. \A i \in DOMAIN x.stack :
         x.from \cap slots'[x.stack[i]][c].from = {} /\ x.fanins[i] = Cardinality(U(x.stack[i], c))
  BY <1>3, <1>8
<1>14. x.from # {} /\ x.from \subseteq RequestersOf(c[1]) /\ x.stack # <<>> /\ x.count = Cardinality(x.from)
  BY <1>3, <1>4, <1>10
<1> QED BY <1>3, <1>6, <1>9, <1>11, <1>12, <1>13, <1>14 DEF RequestFits

\* The slots once a credit has bound one anew.
LEMMA Rebound ==
    ASSUME ForwardingInv, DataInv, UNCHANGED site, NEW R \in RouterNames, NEW c \in Chans,
           slots' = [slots EXCEPT ![R][c] = [NoSlot EXCEPT !.bound = R \notin work.lost]]
    PROVE  /\ \A Q \in RouterNames : \A d \in Chans : SlotFits(Q, d)'
           /\ BoundsStay /\ slots'[R][c].bound = (R \notin work.lost)
           /\ \A Q \in RouterNames : \A d \in Chans : slots'[Q][d].from \subseteq slots[Q][d].from
<1>1. PICK b \in BOOLEAN : b = (R \notin work.lost)
  OBVIOUS
<1>2. PICK new : new = [NoSlot EXCEPT !.bound = b]
  OBVIOUS
<1>3. new.bound = b /\ ~new.forwarded /\ new.count = 0 /\ new.from = {}
  BY <1>2 DEF NoSlot
<1>4. slots' = [slots EXCEPT ![R][c] = new]
  BY <1>1, <1>2
<1>5. Reslotted(R, c, new)
  BY <1>4, SlotChanges DEF ForwardingInv
<1>6. SlotFits(R, c)'
  <2>1. slots'[R][c] = new
    BY <1>5 DEF Reslotted
  <2>2. Cardinality({}) = 0
    BY FS_EmptySet
  <2>3. /\ slots'[R][c].count = Cardinality(slots'[R][c].from)
        /\ slots'[R][c].from = {} /\ ~slots'[R][c].forwarded
    BY <1>3, <2>1, <2>2
  <2> QED BY <2>3 DEF SlotFits
<1>7. ASSUME NEW Q \in RouterNames, NEW d \in Chans
      PROVE  /\ SlotFits(Q, d)' /\ slots'[Q][d].from \subseteq slots[Q][d].from
             /\ slots[Q][d].bound = (Q \notin work.lost) => slots'[Q][d].bound = (Q \notin work.lost)
  <2>1. CASE Q = R /\ d = c
    BY <1>1, <1>3, <1>5, <1>6, <2>1 DEF Reslotted
  <2>2. CASE ~(Q = R /\ d = c)
    <3>1. slots'[Q][d] = slots[Q][d]
      BY <1>5, <2>2 DEF Reslotted
    <3>2. SlotFits(Q, d)'
      BY <3>1, SlotFitsStays DEF DataInv
    <3> QED BY <3>1, <3>2
  <2> QED BY <2>1, <2>2
<1>8. slots'[R][c].bound = (R \notin work.lost)
  BY <1>1, <1>3, <1>5 DEF Reslotted
<1> QED BY <1>7, <1>8 DEF BoundsStay

\* A copy of a credit is on its way to some of those the credit was for.
LEMMA CopyReaches ==
    ASSUME ForwardingInv, NEW R \in RouterNames, NEW p \in PortsOf(R),
           NEW c \in Channels, <<p, c>> \in DOMAIN Top.reach,
           NEW i \in DOMAIN McastPorts(R, p, c), NEW q, LinkOf(McastPorts(R, p, c)[i]) = <<"port", q>>
    PROVE  Reach(q, c) \subseteq Reach(p, c)
<1> SUFFICES ASSUME NEW h \in Reach(q, c) PROVE h \in Reach(p, c)
  OBVIOUS
<1>1. <<q, c>> \in DOMAIN Top.reach /\ h \in Top.reach[<<q, c>>]
  BY DEF Reach
<1>2. h \in Ranks
  <2>1. PICK x : x = <<q, c>>
    OBVIOUS
  <2>2. PICK Q \in RouterNames : x[1] \in PortsOf(Q)
    BY <1>1, <2>1, WayFacts DEF ForwardingInv
  <2>3. Spreads(fabric, Top, Q, c, q)
    BY <1>1, <2>1, <2>2, WayFacts DEF ForwardingInv
  <2>4. Top.reach[<<q, c>>] = UNION {Behind(Top, z, c) : z \in McastFrom(fabric, Q, c, q)}
    BY <2>3 DEF Spreads
  <2>5. \A z : Behind(Top, z, c) \subseteq Ranks
    BY DEF Behind
  <2> QED BY <1>1, <2>4, <2>5
<1>3. PICK z : z = McastPorts(R, p, c)[i]
  OBVIOUS
<1>4. z \in McastFrom(fabric, R, c, p)
  BY <1>3, McastPortsFacts DEF Range, ForwardingInv
<1>5. Top.links[z] = <<"port", q>>
  BY <1>3 DEF LinkOf, ForwardingInv, SiteInv
<1>6. h \in Behind(Top, z, c)
  <2>1. PICK x \in DOMAIN Top.reach : x = <<q, c>>
    BY <1>1
  <2>2. x[1] = q /\ x[2] = c
    BY <2>1
  <2> QED BY <1>1, <1>2, <1>5, <2>1, <2>2 DEF Behind
<1>7. Top.reach[<<p, c>>] = UNION {Behind(Top, y, c) : y \in McastFrom(fabric, R, c, p)}
  <2>1. Spreads(fabric, Top, R, c, p)
    BY WayFacts DEF ForwardingInv
  <2> QED BY <2>1 DEF Spreads
<1> QED BY <1>4, <1>6, <1>7 DEF Reach

LEMMA MulticastResponseData ==
    ASSUME ForwardingInv, TokenInv, DataInv, NEW R \in RouterNames, NEW p \in PortsOf(R), MulticastResponse(R, p)
    PROVE  DataInv'
<1>1. PICK f : f = First(p)
  OBVIOUS
<1>2. PICK c : c = ChannelOf(f)
  OBVIOUS
<1>3. PICK push \in BOOLEAN : push <=> IsLevel(R, c) /\ FromParent(R, c, p)
  OBVIOUS
<1>4. PICK ports : ports = McastPorts(R, p, c)
  OBVIOUS
<1>5. PICK g : g = IF push THEN [f EXCEPT !.stack = Append(f.stack, R)] ELSE f
  OBVIOUS
<1>6. /\ rings[p] # <<>> /\ f.type = "RESPONSE"
      /\ slots' = IF push THEN [slots EXCEPT ![R][c] = [NoSlot EXCEPT !.bound = R \notin work.lost]]
                  ELSE slots
      /\ Pass(R, p, PortsOf(R), ports, g)
  <2>1. /\ rings[p] # <<>> /\ f.type = "RESPONSE"
        /\ slots' = IF IsLevel(R, c) /\ FromParent(R, c, p)
                    THEN [slots EXCEPT ![R][c] = [NoSlot EXCEPT !.bound = R \notin work.lost]]
                    ELSE slots
        /\ Pass(R, p, PortsOf(R), ports,
                IF IsLevel(R, c) /\ FromParent(R, c, p) THEN [f EXCEPT !.stack = Append(f.stack, R)] ELSE f)
    BY <1>1, <1>2, <1>4 DEF MulticastResponse, Waits
  <2>2. CASE push
    BY <1>3, <1>5, <2>1, <2>2
  <2>3. CASE ~push
    BY <1>3, <1>5, <2>1, <2>3
  <2> QED BY <2>2, <2>3
<1>7. /\ f \in Frames /\ OnWay(R, p, f) /\ c \in Chans /\ c \in Channels
  BY <1>1, <1>2, <1>6, Popped
<1>8. PICK n \in Nat : DOMAIN ports = 1 .. n
  BY <1>4, PortsAreSeqs DEF ForwardingInv
<1>9. UNCHANGED site
  BY <1>6, <1>8, PassRings
<1>10. g \in Frames /\ g.type = "RESPONSE" /\ ChannelOf(g) = c /\ g.src = c[1] /\ <<p, c>> \in DOMAIN Top.reach
  <2>1. /\ g \in Frames /\ g.type = "RESPONSE" /\ ChannelOf(g) = ChannelOf(f)
    BY ONLY ForwardingInv, R \in RouterNames, push \in BOOLEAN, <1>5, <1>6, <1>7, CreditSent
  <2>2. <<p, c>> \in DOMAIN Top.reach
    BY <1>2, <1>6, <1>7 DEF OnWay, FromResponder
  <2> QED BY <1>2, <2>1, <2>2 DEF ChannelOf, FromResponder
<1>11. /\ \A Q \in RouterNames : \A d \in Chans : SlotFits(Q, d)'
       /\ BoundsStay /\ (push => slots'[R][c].bound = (R \notin work.lost))
       /\ \A Q \in RouterNames : \A d \in Chans : slots'[Q][d].from \subseteq slots[Q][d].from
  <2>1. CASE push
    <3>1. slots' = [slots EXCEPT ![R][c] = [NoSlot EXCEPT !.bound = R \notin work.lost]]
      BY <1>6, <2>1
    <3> QED BY ONLY ForwardingInv, DataInv, R \in RouterNames, <1>7, <1>9, <3>1, Rebound
  <2>2. CASE ~push
    <3>1. slots' = slots
      BY <1>6, <2>2
    <3>2. /\ \A Q \in RouterNames : \A d \in Chans : SlotFits(Q, d)'
          /\ BoundsStay
      BY <1>9, <3>1, SameSlotsFit
    <3> QED BY <2>2, <3>1, <3>2
  <2> QED BY <2>1, <2>2
<1>12. ASSUME NEW x \in Others(p) PROVE ApartStays(x)
  <2>1. ChannelOf(x) \in Chans /\ \A i \in DOMAIN x.stack : x.stack[i] \in RouterNames
    BY OthersAreFrames
  <2> QED BY <1>11, <2>1 DEF ApartStays
<1>13. ASSUME NEW i \in DOMAIN ports, NEW q \in Ports, Leaves(PortsOf(R), ports, i, <<"port", q>>)
       PROVE  FitsAt(q, g)'
  <2>1. Reach(q, c) \subseteq Reach(p, c)
    BY <1>4, <1>7, <1>10, <1>13, CopyReaches DEF Leaves
  <2>2. Binds(c, g.stack, Reach(p, c) \ {c[1]})'
    <3>1. ForwardingInv /\ TokenInv /\ DataInv /\ R \in RouterNames /\ p \in PortsOf(R)
          /\ Relays(R, p, f, c, push, g)
      BY <1>1, <1>2, <1>3, <1>5, <1>6 DEF Relays
    <3>2. UNCHANGED site /\ BoundsStay /\ (push => slots'[R][c].bound = (R \notin work.lost))
      BY <1>9, <1>11
    <3> QED BY ONLY <3>1, <3>2, CreditBinds
  <2>3. (ChannelOf(g) = c)' /\ (g.src = c[1])' /\ Class(g)' # "ANSWER"
    BY <1>10 DEF ChannelOf, Class
  <2>4. Reach(q, c)' = Reach(q, c) /\ Reach(p, c)' = Reach(p, c)
    BY <1>9, SameWays
  <2>5. Binds(c, g.stack, Reach(q, c) \ {c[1]})'
    BY <2>1, <2>2, <2>4 DEF Binds
  <2> QED BY <2>3, <2>5 DEF FitsAt
<1>14. ASSUME NEW i \in DOMAIN ports, NEW b \in Ranks, Leaves(PortsOf(R), ports, i, <<"host", b>>)
       PROVE  HeardFits(g)' /\ \A x \in Replies(b, g) : Class(x) = "ANSWER" => RequestFits(x)'
  <2>1. Class(g)' # "ANSWER"
    BY <1>10 DEF Class
  <2>2. Called(PortsOf(R), McastPorts(R, p, c), b)
    BY <1>4, <1>14 DEF Called
  <2>3. \A Q \in RouterNames : slots'[Q][c].from \subseteq slots[Q][c].from
    BY <1>7, <1>11
  <2>4. ASSUME NEW x \in Replies(b, g) PROVE RequestFits(x)'
    <3>1. ForwardingInv /\ TokenInv /\ DataInv /\ R \in RouterNames /\ p \in PortsOf(R)
          /\ Relays(R, p, f, c, push, g)
      BY <1>1, <1>2, <1>3, <1>5, <1>6 DEF Relays
    <3>2. UNCHANGED site /\ BoundsStay /\ (push => slots'[R][c].bound = (R \notin work.lost))
      BY <1>9, <1>11
    <3>3. b \in Ranks /\ x \in Replies(b, g)
      OBVIOUS
    <3> QED BY ONLY <2>2, <2>3, <3>1, <3>2, <3>3, CreditReply
  <2> QED BY <2>1, <2>4 DEF HeardFits
<1> QED BY <1>6, <1>8, <1>10, <1>11, <1>12, <1>13, <1>14, PassData

\* A request with a level left, at the router of that level.
AtLevel(R, c, f) ==
    /\ R \in LevelsOf(c) /\ f \in Frames /\ f.type = "REQUEST" /\ ChannelOf(f) = c
    /\ c \in Chans /\ c \in Channels
    /\ Len(f.stack) = Len(Above(R)) + 1 /\ DOMAIN f.stack = 1 .. Len(Above(R)) + 1
    /\ f.stack[Len(f.stack)] = R /\ \A i \in DOMAIN Above(R) : f.stack[i] = Above(R)[i]
    /\ RequestFits(f) /\ Binds(c, f.stack, f.from)
    /\ f.fanins[Len(f.stack)] = Cardinality(U(R, c))
    /\ Cardinality(U(R, c)) \in Nat /\ IsFiniteSet(U(R, c))
    /\ f.from \subseteq U(R, c) /\ f.from # {} /\ f.from \cap slots[R][c].from = {}
    /\ f.count = Cardinality(f.from) /\ f.count \in Nat
    /\ slots[R][c].bound = (R \notin work.lost)
    /\ \A Q \in LevelsOf(c) :
         \/ U(Q, c) \subseteq f.from \/ U(Q, c) \cap f.from = {} \/ Q = R \/ Q \in Range(Above(R))
    /\ SlotFits(R, c) /\ slots[R][c].from \subseteq U(R, c) /\ slots[R][c].count = Cardinality(slots[R][c].from)

LEMMA RequestHere ==
    ASSUME ForwardingInv, TokenInv, DataInv, NEW R \in RouterNames, NEW p \in PortsOf(R), rings[p] # <<>>,
           NEW f, f = First(p), f.type = "REQUEST", NEW c, c = ChannelOf(f), Aggregates(R, f)
    PROVE  AtLevel(R, c, f) /\ InTree(R, c) /\ ~FromParent(R, c, p)
<1>1. f \in Frames /\ c \in Chans /\ c \in Channels /\ RequestStackFits(R, p, f)
  BY Popped
<1>2. f.stack # <<>> /\ IsLevel(R, c)
  BY DEF Aggregates
<1>3. InTree(R, c) /\ ~FromParent(R, c, p) /\ f.stack = Below(R, c)
  BY <1>1, <1>2 DEF RequestStackFits
<1>4. f.stack = Append(Above(R), R)
  BY <1>2, <1>3 DEF Below, LevelsBelow, IsLevel, NodeIn, TreeAt, Config, Above
<1>5. R \in LevelsOf(c)
  BY <1>2 DEF IsLevel, InTree, TreeAt, LevelsOf, Levels, Within, NodeIn, Config, RouterNames
<1>6. Above(R) \in Seq(RouterNames)
  BY SiteFacts DEF Above, ForwardingInv
<1>7. /\ Len(f.stack) = Len(Above(R)) + 1 /\ f.stack[Len(f.stack)] = R
      /\ DOMAIN f.stack = 1 .. Len(Above(R)) + 1 /\ Len(Above(R)) \in Nat
      /\ \A i \in DOMAIN Above(R) : f.stack[i] = Above(R)[i]
  BY <1>4, <1>6, AppendProperties, LenProperties
<1>8. RequestFits(f) /\ Class(f) = "ANSWER"
  <2>1. FitsAt(p, f)
    BY FirstFits
  <2> QED BY <2>1 DEF FitsAt, Class
<1>9. Len(f.stack) \in DOMAIN f.stack
  BY <1>7
<1>10. /\ Binds(c, f.stack, f.from) /\ f.from # {} /\ f.count = Cardinality(f.from)
       /\ f.from \cap slots[R][c].from = {} /\ f.fanins[Len(f.stack)] = Cardinality(U(R, c))
       /\ \A Q \in LevelsOf(c) :
            U(Q, c) \subseteq f.from \/ U(Q, c) \cap f.from = {} \/ Q \in Range(f.stack)
  BY <1>7, <1>8, <1>9 DEF RequestFits
<1>11. f.from \subseteq U(R, c) /\ slots[R][c].bound = (R \notin work.lost)
  BY <1>7, <1>9, <1>10 DEF Binds
<1>12. \A Q \in Range(f.stack) : Q = R \/ Q \in Range(Above(R))
  <2> TAKE Q \in Range(f.stack)
  <2>1. PICK i \in DOMAIN f.stack : Q = f.stack[i]
    BY DEF Range
  <2>2. DOMAIN Above(R) = 1 .. Len(Above(R))
    BY <1>6, LenProperties
  <2>3. CASE i \in DOMAIN Above(R)
    BY <1>7, <2>1, <2>3 DEF Range
  <2>4. CASE i \notin DOMAIN Above(R)
    <3>1. i = Len(f.stack)
      BY <1>7, <2>2, <2>4
    <3> QED BY <1>7, <2>1, <3>1
  <2> QED BY <2>3, <2>4
<1>13. IsFiniteSet(U(R, c)) /\ Cardinality(U(R, c)) \in Nat
  BY <1>1, <1>5, LevelFacts, FS_CardinalityType DEF ForwardingInv
<1>14. /\ SlotFits(R, c) /\ slots[R][c].from \subseteq U(R, c)
       /\ slots[R][c].count = Cardinality(slots[R][c].from)
  BY <1>1, <1>5 DEF DataInv, SlotFits
<1>15. f.count \in Nat
  BY <1>1 DEF Frames, FrameRecords
<1> QED BY <1>1, <1>3, <1>5, <1>7, <1>8, <1>10, <1>11, <1>12, <1>13, <1>14, <1>15 DEF AtLevel

\* What leaves R for all requesters under it fits the levels above.
LEMMA WholeLevelFits ==
    ASSUME ForwardingInv, DataInv, UNCHANGED site, BoundsStay, NEW R \in RouterNames, NEW c, NEW f, AtLevel(R, c, f),
           NEW g \in Frames, g.type = "REQUEST", ChannelOf(g) = c, g.stack = Above(R),
           g.fanins = Front(f.fanins), g.from = U(R, c), g.count = Cardinality(U(R, c)),
           \A Q \in RouterNames : Q # R => slots'[Q][c] = slots[Q][c]
    PROVE  RequestFits(g)'
<1> DEFINE above == Above(R)
<1>1. /\ c \in Chans /\ c \in Channels /\ R \in LevelsOf(c) /\ f \in Frames
      /\ f.from # {} /\ f.from \subseteq U(R, c)
  BY DEF AtLevel
<1>2. /\ U(R, c) \subseteq RequestersOf(c[1])
      /\ Len(above) \in Nat /\ DOMAIN above = 1 .. Len(above)
      /\ \A i \in DOMAIN above : above[i] \in LevelsOf(c) /\ Len(Above(above[i])) = i - 1
      /\ above = <<>> => U(R, c) = RequestersOf(c[1])
      /\ \A Q \in LevelsOf(c) :
           U(Q, c) \subseteq U(R, c) \/ U(Q, c) \cap U(R, c) = {} \/ Q \in Range(above)
  BY <1>1, LevelFacts DEF ForwardingInv
<1>3. ASSUME NEW i \in DOMAIN above
      PROVE  /\ above[i] \in LevelsOf(c) /\ above[i] \in RouterNames /\ above[i] # R
             /\ Len(Above(above[i])) = i - 1
             /\ R \notin Range(Above(above[i]))
  <2>1. PICK Q \in LevelsOf(c) : Q = above[i] /\ Len(Above(Q)) = i - 1
    BY <1>2
  <2>2. Q \in RouterNames
    BY <2>1 DEF LevelsOf, Levels, RouterNames
  <2>3. R \in Range(Above(Q)) => Len(Above(R)) < Len(Above(Q))
    BY <1>1, <2>1, LevelFacts DEF ForwardingInv
  <2>4. Len(Above(Q)) < Len(Above(R))
    BY <1>2, <2>1
  <2>5. Q # R
    BY <1>2, <2>4
  <2> QED BY <1>2, <2>1, <2>2, <2>3, <2>4, <2>5
<1>4. ASSUME NEW i \in DOMAIN above
      PROVE  /\ U(R, c) \subseteq U(above[i], c) /\ slots[above[i]][c].bound = (above[i] \notin work.lost)
             /\ f.from \cap slots[above[i]][c].from = {} /\ f.from \subseteq U(above[i], c)
             /\ f.fanins[i] = Cardinality(U(above[i], c))
  <2>1. i \in DOMAIN f.stack /\ f.stack[i] = above[i]
    BY <1>2 DEF AtLevel
  <2>2. /\ f.from \subseteq U(above[i], c) /\ slots[above[i]][c].bound = (above[i] \notin work.lost)
        /\ f.from \cap slots[above[i]][c].from = {} /\ f.fanins[i] = Cardinality(U(above[i], c))
    BY <2>1 DEF AtLevel, Binds, RequestFits
  <2>3. PICK Q \in LevelsOf(c) : Q = above[i] /\ R \notin Range(Above(Q))
    BY <1>3
  <2>4. U(R, c) \subseteq U(Q, c) \/ U(R, c) \cap U(Q, c) = {}
    BY <1>1, <2>3, LevelFacts DEF ForwardingInv
  <2>5. U(R, c) \cap U(Q, c) # {}
    BY <1>1, <2>2, <2>3
  <2> QED BY <2>2, <2>3, <2>4, <2>5
<1>5. ASSUME NEW i \in DOMAIN above
      PROVE  U(R, c) \cap slots[above[i]][c].from = {}
  <2>1. PICK Q \in LevelsOf(c) : /\ Q = above[i] /\ Q # R /\ R \notin Range(Above(Q)) /\ Q \in RouterNames
    BY <1>3
  <2>2. SlotFits(Q, c)
    BY <1>1, <2>1 DEF DataInv
  <2>3. f.from \cap slots[Q][c].from = {} /\ f.from \subseteq U(Q, c)
    BY <1>4, <2>1
  <2>4. ~slots[Q][c].forwarded
    BY <1>1, <2>2, <2>3 DEF SlotFits
  <2>5. \/ slots[Q][c].from = {}
        \/ U(R, c) \subseteq slots[Q][c].from \/ U(R, c) \cap slots[Q][c].from = {}
    BY <1>1, <2>1, <2>2, <2>4 DEF SlotFits
  <2> QED BY <1>1, <2>1, <2>3, <2>5
<1>6. ASSUME NEW i \in DOMAIN above
      PROVE  g.fanins[i] = Cardinality(U(above[i], c))
  <2>1. f.fanins \in Seq(Nat) /\ Len(f.fanins) = Len(above) + 1
    BY DEF AtLevel, Frames, FrameRecords
  <2>2. Front(f.fanins)[i] = f.fanins[i]
    BY <1>2, <2>1 DEF Front
  <2> QED BY <1>4, <2>2
<1>7. /\ work' = work /\ \A d : LevelsOf(d)' = LevelsOf(d)
      /\ \A Q, d : U(Q, d)' = U(Q, d)
      /\ \A Q : Above(Q)' = Above(Q)
  BY SameWays
<1>8. Binds(c, g.stack, g.from)
  BY <1>3, <1>4 DEF Binds
<1>9. Binds(c, g.stack, g.from)'
  BY <1>1, <1>8, BindsStays
<1>10. ChannelOf(g)' = c
  BY DEF ChannelOf
<1>11. \A i \in DOMAIN g.stack :
         /\ g.from \cap slots'[g.stack[i]][c].from = {}
         /\ g.fanins[i] = Cardinality(U(g.stack[i], c))
  BY <1>3, <1>5, <1>6
<1>12. g.from # {} /\ g.from \subseteq RequestersOf(c[1])
  BY <1>1, <1>2
<1>13. /\ g.count = Cardinality(g.from) /\ (g.stack = <<>> => g.from = RequestersOf(c[1]))
       /\ \A Q \in LevelsOf(c) :
            U(Q, c) \subseteq g.from \/ U(Q, c) \cap g.from = {} \/ Q \in Range(g.stack)
  BY <1>2
<1> QED BY <1>7, <1>9, <1>10, <1>11, <1>12, <1>13 DEF RequestFits

\* Nothing else under way has a contribution of those whose request R takes.
LEMMA OthersApart ==
    ASSUME ForwardingInv, TokenInv, NEW R \in RouterNames, NEW p \in PortsOf(R), rings[p] # <<>>,
           NEW f, f = First(p), f.type = "REQUEST", NEW c, c = ChannelOf(f),
           NEW x \in Others(p), x.type = "REQUEST", ChannelOf(x) = c
    PROVE  x.from \cap f.from = {}
<1> SUFFICES ASSUME NEW h, h \in x.from, h \in f.from PROVE FALSE
  OBVIOUS
<1>1. f \in Frames /\ c \in Chans
  BY Popped
<1>2. h \in Ranks
  BY <1>1 DEF Frames, FrameRecords
<1>3. Class(f) = "ANSWER" /\ Class(x) = "ANSWER" /\ \A hosts : Stands(f, hosts) = f.from /\ Stands(x, hosts) = x.from
  BY DEF Class, Stands
<1>4. <<p, 1>> \in InRings("ANSWER", c, h)
  <2>1. \A k, d, b : <<p, 1>> \in InRings(k, d, b) <=> k = Class(f) /\ d = c /\ b \in Stands(f, Reach(p, c))
    BY Popped
  <2> QED BY <1>3, <2>1
<1>5. Single("ANSWER", c, h)
  BY <1>1, <1>2 DEF TokenInv, SingleInv, Classes
<1>6. InTodo("ANSWER", c, h) = {} /\ InRings("ANSWER", c, h) = {<<p, 1>>}
  BY <1>4, <1>5 DEF Single, OneOf, NoneOf
<1>7. CASE x \in todo
  <2>1. x \in InTodo("ANSWER", c, h)
    BY <1>3, <1>7 DEF InTodo, StandsFor
  <2> QED BY <1>6, <2>1
<1>8. CASE x \notin todo
  <2>1. PICK z \in Spots \ {<<p, 1>>} : x = rings[z[1]][z[2]]
    BY <1>8 DEF Others
  <2>2. StandsFor(rings[z[1]][z[2]], Reach(z[1], c), "ANSWER", c, h)
    BY <1>3, <2>1 DEF StandsFor
  <2>3. z \in InRings("ANSWER", c, h)
    BY <2>1, <2>2 DEF InRings, Spots
  <2> QED BY <1>6, <2>1, <2>3
<1> QED BY <1>7, <1>8

\* What a slot has with a request that joins it.
LEMMA JoinFacts ==
    ASSUME NEW R, NEW c, NEW f, AtLevel(R, c, f), NEW both, both = slots[R][c].from \cup f.from
    PROVE  /\ both \subseteq U(R, c) /\ both # {}
           /\ Cardinality(both) = slots[R][c].count + f.count
           /\ Cardinality(both) <= Cardinality(U(R, c))
           /\ Cardinality(both) = Cardinality(U(R, c)) <=> both = U(R, c)
<1> DEFINE old == slots[R][c].from
<1>1. /\ IsFiniteSet(U(R, c)) /\ old \subseteq U(R, c) /\ f.from \subseteq U(R, c) /\ f.from # {}
      /\ f.from \cap old = {} /\ slots[R][c].count = Cardinality(old) /\ f.count = Cardinality(f.from)
  BY DEF AtLevel
<1> HIDE DEF old
<1>2. IsFiniteSet(old) /\ IsFiniteSet(f.from) /\ IsFiniteSet(both)
  <2>1. both \subseteq U(R, c)
    BY <1>1 DEF old
  <2> QED BY <1>1, <2>1, FS_Subset
<1>3. Cardinality(both) = Cardinality(old) + Cardinality(f.from)
  <2>1. Cardinality(old \cup f.from) = Cardinality(old) + Cardinality(f.from) - Cardinality(old \cap f.from)
    BY <1>2, FS_Union
  <2>2. old \cap f.from = {} /\ Cardinality({}) = 0
    BY <1>1, FS_EmptySet
  <2>3. Cardinality(old) \in Nat /\ Cardinality(f.from) \in Nat
    BY <1>2, FS_CardinalityType
  <2>4. both = old \cup f.from
    BY DEF old
  <2>5. Cardinality(old \cap f.from) = 0 /\ Cardinality(both) = Cardinality(old \cup f.from)
    BY <2>2, <2>4
  <2> QED BY <2>1, <2>3, <2>5
<1>4. both \subseteq U(R, c) /\ both # {}
  BY <1>1 DEF old
<1>5. /\ Cardinality(both) <= Cardinality(U(R, c))
      /\ Cardinality(U(R, c)) = Cardinality(both) => U(R, c) = both
  BY <1>1, <1>4, FS_Subset
<1> QED BY <1>1, <1>3, <1>4, <1>5

\* A slot that has not been taken over takes the request.
LEMMA TakenOver ==
    ASSUME ForwardingInv, NEW R \in RouterNames, NEW c, NEW f, AtLevel(R, c, f),
           ~Accepts(slots[R][c], Cardinality(U(R, c)), f)
    PROVE  work.lost # {}
<1> SUFFICES ASSUME R \notin work.lost PROVE FALSE
  OBVIOUS
<1>1. PICK slot : slot = slots[R][c]
  OBVIOUS
<1>2. PICK both : both = slot.from \cup f.from
  OBVIOUS
<1>3. /\ slot.bound /\ SlotFits(R, c) /\ f.from \subseteq U(R, c) /\ f.from # {} /\ f.from \cap slot.from = {}
      /\ f.count \in Nat /\ slot.count = Cardinality(slot.from) /\ Cardinality(U(R, c)) \in Nat
  <2>1. slot.bound = (R \notin work.lost)
    BY <1>1 DEF AtLevel
  <2>2. slot.bound
    BY <2>1
  <2> QED BY <1>1, <2>2 DEF AtLevel
<1>4. ~slot.forwarded
  BY <1>1, <1>3 DEF SlotFits
<1>5. slot.count \in Nat /\ slot.from \subseteq Ranks
  BY <1>1 DEF ForwardingInv, SlotsInv, SlotRecords, AtLevel
<1>6. slot.count + f.count <= Cardinality(U(R, c))
  BY <1>1, <1>2, JoinFacts
<1>7. f.count <= Cardinality(U(R, c)) - slot.count
  BY <1>3, <1>5, <1>6
<1>8. slot.count # 0 => slot.fanin = Cardinality(U(R, c))
  <2>1. Cardinality({}) = 0
    BY FS_EmptySet
  <2>2. slot.count # 0 => slot.from # {}
    BY <1>3, <2>1
  <2> QED BY <1>1, <1>3, <1>4, <2>2 DEF SlotFits
<1> QED BY <1>1, <1>3, <1>4, <1>7, <1>8 DEF Accepts

\* A request f at the head of port p joins R's slot of channel c, and what the
\* slots and the other frames keep of it.
JoinsSlot(R, p, c, f, new) ==
    /\ rings[p] # <<>> /\ f = First(p) /\ AtLevel(R, c, f) /\ UNCHANGED site
    /\ slots' = [slots EXCEPT ![R][c] = new] /\ ~slots[R][c].forwarded
    /\ new.bound = slots[R][c].bound /\ new.fanin = Cardinality(U(R, c))
    /\ new.count = slots[R][c].count + f.count /\ new.from = slots[R][c].from \cup f.from
    /\ new.forwarded <=> new.count = Cardinality(U(R, c))
SlotsStillFit(R, p, c) ==
    /\ \A Q \in RouterNames : \A d \in Chans : SlotFits(Q, d)'
    /\ BoundsStay /\ \A x \in Others(p) : ApartStays(x)
    /\ \A Q \in RouterNames : Q # R => slots'[Q][c] = slots[Q][c]

LEMMA JoinedSlots ==
    ASSUME ForwardingInv, TokenInv, DataInv, NEW R \in RouterNames, NEW p \in PortsOf(R),
           NEW c, NEW f, NEW new, JoinsSlot(R, p, c, f, new)
    PROVE  SlotsStillFit(R, p, c)
<1>0. /\ rings[p] # <<>> /\ f = First(p) /\ AtLevel(R, c, f) /\ UNCHANGED site
      /\ slots' = [slots EXCEPT ![R][c] = new] /\ ~slots[R][c].forwarded
      /\ new.bound = slots[R][c].bound /\ new.fanin = Cardinality(U(R, c))
      /\ new.count = slots[R][c].count + f.count /\ new.from = slots[R][c].from \cup f.from
      /\ new.forwarded <=> new.count = Cardinality(U(R, c))
  BY DEF JoinsSlot
<1>1. /\ c \in Chans /\ R \in LevelsOf(c) /\ f.type = "REQUEST" /\ ChannelOf(f) = c /\ SlotFits(R, c)
      /\ \A Q \in LevelsOf(c) :
           \/ U(Q, c) \subseteq f.from \/ U(Q, c) \cap f.from = {} \/ Q = R \/ Q \in Range(Above(R))
  BY <1>0 DEF AtLevel
<1>2. Reslotted(R, c, new)
  BY <1>0, <1>1, SlotChanges DEF ForwardingInv
<1>3. /\ slots'[R][c] = new
      /\ \A Q \in RouterNames : \A d \in Chans : ~(Q = R /\ d = c) => slots'[Q][d] = slots[Q][d]
  BY <1>2 DEF Reslotted
<1>4. /\ new.from \subseteq U(R, c) /\ new.from # {} /\ new.count = Cardinality(new.from)
      /\ new.forwarded <=> new.from = U(R, c)
  <2>1. PICK both : both = slots[R][c].from \cup f.from
    OBVIOUS
  <2>2. /\ both \subseteq U(R, c) /\ both # {}
        /\ Cardinality(both) = slots[R][c].count + f.count
        /\ Cardinality(both) = Cardinality(U(R, c)) <=> both = U(R, c)
    BY <1>0, <2>1, JoinFacts
  <2>3. new.from = both /\ new.count = Cardinality(both)
    BY <1>0, <2>1, <2>2
  <2>4. new.forwarded <=> new.count = Cardinality(U(R, c))
    BY <1>0
  <2> QED BY <2>2, <2>3, <2>4
<1>5. /\ \A d : LevelsOf(d)' = LevelsOf(d)
      /\ \A Q, d : U(Q, d)' = U(Q, d)
      /\ \A Q : Above(Q)' = Above(Q)
  BY <1>0, SameWays
<1>6. ASSUME NEW Q \in LevelsOf(c)
      PROVE  \/ U(Q, c) \subseteq new.from \/ U(Q, c) \cap new.from = {}
             \/ Q = R \/ Q \in Range(Above(R))
  <2>1. \/ slots[R][c].from = {}
        \/ U(Q, c) \subseteq slots[R][c].from \/ U(Q, c) \cap slots[R][c].from = {}
        \/ Q = R \/ Q \in Range(Above(R))
    BY <1>0, <1>1 DEF SlotFits
  <2> QED BY <1>0, <1>1, <2>1
<1>7. SlotFits(R, c)'
  <2>1. /\ new.count = Cardinality(new.from)
        /\ R \in LevelsOf(c) => new.from \subseteq U(R, c)
        /\ R \notin LevelsOf(c) => new.from = {}
        /\ new.forwarded => new.from = U(R, c)
        /\ ~new.forwarded /\ new.from # {} =>
             /\ new.fanin = Cardinality(U(R, c)) /\ new.from # U(R, c)
             /\ \A Q \in LevelsOf(c) :
                  \/ U(Q, c) \subseteq new.from \/ U(Q, c) \cap new.from = {}
                  \/ Q = R \/ Q \in Range(Above(R))
    BY <1>0, <1>1, <1>4, <1>6
  <2> QED BY <1>3, <1>5, <2>1 DEF SlotFits
<1>8. ASSUME NEW Q \in RouterNames, NEW d \in Chans
      PROVE  SlotFits(Q, d)' /\ slots'[Q][d].bound = slots[Q][d].bound
  <2>1. CASE Q = R /\ d = c
    BY <1>0, <1>3, <1>7, <2>1
  <2>2. CASE ~(Q = R /\ d = c)
    <3>1. slots'[Q][d] = slots[Q][d]
      BY <1>3, <2>2
    <3>2. SlotFits(Q, d)'
      BY <1>0, <3>1, SlotFitsStays DEF DataInv
    <3> QED BY <3>1, <3>2
  <2> QED BY <2>1, <2>2
<1>9. ASSUME NEW x \in Others(p) PROVE ApartStays(x)
  <2>1. ChannelOf(x) \in Chans /\ \A i \in DOMAIN x.stack : x.stack[i] \in RouterNames
    BY <1>0, OthersAreFrames
  <2> SUFFICES ASSUME x.type = "REQUEST", NEW i \in DOMAIN x.stack,
                      x.from \cap slots[x.stack[i]][ChannelOf(x)].from = {}
               PROVE  x.from \cap slots'[x.stack[i]][ChannelOf(x)].from = {}
    BY DEF ApartStays
  <2>2. CASE x.stack[i] = R /\ ChannelOf(x) = c
    <3>1. x.from \cap f.from = {}
      BY <1>0, <1>1, <2>2, OthersApart
    <3> QED BY <1>0, <1>3, <2>2, <3>1
  <2>3. CASE ~(x.stack[i] = R /\ ChannelOf(x) = c)
    BY <1>3, <2>1, <2>3
  <2> QED BY <2>2, <2>3
<1>10. \A Q \in RouterNames : Q # R => slots'[Q][c] = slots[Q][c]
  BY <1>1, <1>3
<1>11. BoundsStay
  BY <1>8 DEF BoundsStay
<1> QED BY <1>8, <1>9, <1>10, <1>11 DEF SlotsStillFit

LEMMA RequestData ==
    ASSUME ForwardingInv, TokenInv, DataInv, NEW R \in RouterNames, NEW p \in PortsOf(R), Request(R, p)
    PROVE  DataInv'
<1>1. PICK f : f = First(p)
  OBVIOUS
<1>2. PICK c : c = ChannelOf(f)
  OBVIOUS
<1>3. PICK slot : slot = slots[R][c]
  OBVIOUS
<1>4. PICK fanin : fanin = f.fanins[Len(f.stack)]
  OBVIOUS
<1>5. PICK ports : ports = BypassPorts(R, p, c)
  OBVIOUS
<1>6. PICK next : next = Joined(slot, f, fanin)
  OBVIOUS
<1>7. /\ rings[p] # <<>> /\ f.type = "REQUEST" /\ Aggregates(R, f) /\ f \in Frames
      /\ RequestStackFits(R, p, f) /\ c \in Chans /\ slot \in SlotRecords /\ fanin \in Nat
      /\ next \in SlotRecords /\ next.count = slot.count + f.count /\ next.fanin = fanin
      /\ next.from = slot.from \cup f.from /\ next.bound = slot.bound
  BY <1>1, <1>2, <1>3, <1>4, <1>5, <1>6, RequestCases
<1>8. \/ fanin = 1 /\ Pass(R, p, PortsOf(R), ports, PoppedLevel(f)) /\ slots' = slots
      \/ /\ fanin # 1 /\ ~Accepts(slot, fanin, f)
         /\ Pass(R, p, PortsOf(R), ports, Missed(f)) /\ slots' = slots
      \/ /\ fanin # 1 /\ Accepts(slot, fanin, f) /\ next.count = fanin
         /\ slots' = [slots EXCEPT ![R][c] = [next EXCEPT !.forwarded = TRUE]]
         /\ Pass(R, p, PortsOf(R), ports, Summed(f, next.count, next.from))
      \/ /\ fanin # 1 /\ Accepts(slot, fanin, f) /\ next.count # fanin
         /\ slots' = [slots EXCEPT ![R][c] = [next EXCEPT !.forwarded = FALSE]]
         /\ Pass(R, p, PortsOf(R), <<>>, f)
  BY <1>1, <1>2, <1>3, <1>4, <1>5, <1>6, RequestCases
<1>9. AtLevel(R, c, f) /\ InTree(R, c) /\ ~FromParent(R, c, p)
  BY <1>1, <1>2, <1>7, RequestHere
<1>10. /\ fanin = Cardinality(U(R, c)) /\ IsFiniteSet(U(R, c)) /\ f.from \subseteq U(R, c) /\ f.from # {}
       /\ f.count = Cardinality(f.from)
  BY <1>4, <1>9 DEF AtLevel
<1>11. next.count \in Nat /\ next.from \in SUBSET Ranks /\ f.type \notin FromResponder /\ Sane(f) /\ f.from # {}
  <2>1. f.type \notin FromResponder
    BY <1>7 DEF FromResponder
  <2>2. Sane(f)
    BY <1>1, <1>7, Popped
  <2> QED BY <1>7, <1>10, <2>1, <2>2 DEF SlotRecords
<1>12. PICK n \in Nat : DOMAIN ports = 1 .. n
  BY <1>5, PortsAreSeqs DEF ForwardingInv
<1>13. ASSUME NEW g \in Frames, g.type \in {"REQUEST", "AGG_MISS"}, ChannelOf(g) = c, SameEnds(g, f), g.from # {},
              g.type = "REQUEST" => g.stack = Above(R), Pass(R, p, PortsOf(R), ports, g),
              \A Q \in RouterNames : \A d \in Chans : SlotFits(Q, d)',
              BoundsStay, \A x \in Others(p) : ApartStays(x), RequestFits(g)'
       PROVE  DataInv'
  <2>1. g.type \notin FromResponder
    BY <1>13 DEF FromResponder
  <2>2. Sane(g)
    BY <1>11, <1>13 DEF Sane, OfRequester, SameEnds
  <2> QED BY <1>1, <1>2, <1>5, <1>7, <1>9, <1>11, <1>13, <2>1, <2>2, UpData
<1>14. ASSUME NEW g, Pass(R, p, PortsOf(R), ports, g) PROVE UNCHANGED site
  BY <1>12, <1>14, PassRings
<1>15. ASSUME fanin = 1, Pass(R, p, PortsOf(R), ports, PoppedLevel(f)), slots' = slots
       PROVE  DataInv'
  <2>1. UNCHANGED site
    BY <1>14, <1>15
  <2>2. /\ \A Q \in RouterNames : \A d \in Chans : SlotFits(Q, d)'
        /\ BoundsStay /\ \A x : ApartStays(x)
    BY <1>15, <2>1, SameSlotsFit
  <2>3. PICK g : g = PoppedLevel(f)
    OBVIOUS
  <2>4. /\ g \in Frames /\ g.type = "REQUEST" /\ ChannelOf(g) = c /\ SameEnds(g, f)
        /\ g.from = f.from /\ g.count = f.count /\ g.stack = Above(R) /\ g.fanins = Front(f.fanins)
    <3>1. PICK s : s = Summed(f, next.count, next.from)
      OBVIOUS
    <3> QED BY <1>2, <1>7, <1>11, <2>3, <3>1, RequestSent
  <2>5. f.from = U(R, c)
    <3>1. PICK h : U(R, c) = {h}
      BY <1>10, <1>15, FS_Singleton
    <3> QED BY <1>10, <3>1
  <2>6. g.from = U(R, c) /\ g.count = Cardinality(U(R, c))
    BY <1>10, <2>4, <2>5
  <2>7. RequestFits(g)'
    BY <1>9, <1>15, <2>1, <2>2, <2>4, <2>6, WholeLevelFits
  <2> QED BY <1>10, <1>13, <1>15, <2>2, <2>3, <2>4, <2>7
<1>16. ASSUME ~Accepts(slot, fanin, f), Pass(R, p, PortsOf(R), ports, Missed(f)), slots' = slots
       PROVE  DataInv'
  <2>1. UNCHANGED site
    BY <1>14, <1>16
  <2>2. /\ \A Q \in RouterNames : \A d \in Chans : SlotFits(Q, d)'
        /\ BoundsStay /\ \A x : ApartStays(x)
    BY <1>16, <2>1, SameSlotsFit
  <2>3. PICK g : g = Missed(f)
    OBVIOUS
  <2>4. /\ g \in Frames /\ g.type = "AGG_MISS" /\ ChannelOf(g) = c /\ SameEnds(g, f)
        /\ g.from = f.from
    <3>1. PICK s : s = Summed(f, next.count, next.from)
      OBVIOUS
    <3> QED BY <1>2, <1>7, <1>11, <2>3, <3>1, RequestSent
  <2>5. work.lost # {}
    BY <1>3, <1>9, <1>10, <1>16, TakenOver
  <2>6. f.from \subseteq RequestersOf(c[1])
    BY <1>2, <1>9 DEF AtLevel, RequestFits
  <2>7. ChannelOf(g)' = c /\ work' = work
    BY <2>1, <2>4 DEF ChannelOf, site
  <2>8. RequestFits(g)'
    BY <1>10, <2>4, <2>5, <2>6, <2>7 DEF RequestFits
  <2> QED BY <1>10, <1>13, <1>16, <2>2, <2>3, <2>4, <2>8
<1>17. ASSUME NEW b \in BOOLEAN, b = (next.count = fanin), Accepts(slot, fanin, f), UNCHANGED site,
              slots' = [slots EXCEPT ![R][c] = [next EXCEPT !.forwarded = b]]
       PROVE  /\ \A Q \in RouterNames : \A d \in Chans : SlotFits(Q, d)'
              /\ BoundsStay /\ \A x \in Others(p) : ApartStays(x)
              /\ \A Q \in RouterNames : Q # R => slots'[Q][c] = slots[Q][c]
  <2>1. PICK new : new = [next EXCEPT !.forwarded = b]
    OBVIOUS
  <2>2. /\ new.bound = slot.bound /\ new.fanin = fanin /\ new.count = next.count
        /\ new.from = next.from /\ new.forwarded = b
    BY <1>7, <2>1 DEF SlotRecords
  <2>3. ~slot.forwarded
    BY <1>17 DEF Accepts
  <2>4. slots' = [slots EXCEPT ![R][c] = new]
    BY <1>17, <2>1
  <2>5. new.forwarded = (new.count = Cardinality(U(R, c)))
    BY <1>10, <1>17, <2>2
  <2>6. /\ new.bound = slots[R][c].bound /\ new.fanin = Cardinality(U(R, c))
        /\ new.count = slots[R][c].count + f.count /\ new.from = slots[R][c].from \cup f.from
        /\ ~slots[R][c].forwarded
    BY <1>3, <1>7, <1>10, <2>2, <2>3
  <2>7. rings[p] # <<>> /\ UNCHANGED site
    BY <1>7, <1>17
  <2>8. ForwardingInv /\ TokenInv /\ DataInv /\ R \in RouterNames /\ p \in PortsOf(R) /\ f = First(p)
    BY <1>1
  <2>9. AtLevel(R, c, f)
    BY <1>9
  <2>10. JoinsSlot(R, p, c, f, new)
    BY <2>4, <2>5, <2>6, <2>7, <2>8, <2>9 DEF JoinsSlot
  <2>11. SlotsStillFit(R, p, c)
    BY <2>10, JoinedSlots
  <2> QED BY <2>11 DEF SlotsStillFit
<1>18. ASSUME Accepts(slot, fanin, f), next.count = fanin,
              slots' = [slots EXCEPT ![R][c] = [next EXCEPT !.forwarded = TRUE]],
              Pass(R, p, PortsOf(R), ports, Summed(f, next.count, next.from))
       PROVE  DataInv'
  <2>1. UNCHANGED site
    BY <1>14, <1>18
  <2>2. /\ \A Q \in RouterNames : \A d \in Chans : SlotFits(Q, d)'
        /\ BoundsStay /\ \A x \in Others(p) : ApartStays(x)
        /\ \A Q \in RouterNames : Q # R => slots'[Q][c] = slots[Q][c]
    BY <1>17, <1>18, <2>1
  <2>3. PICK g : g = Summed(f, next.count, next.from)
    OBVIOUS
  <2>4. /\ g \in Frames /\ g.type = "REQUEST" /\ ChannelOf(g) = c /\ SameEnds(g, f)
        /\ g.from = next.from /\ g.count = next.count /\ g.stack = Above(R) /\ g.fanins = Front(f.fanins)
    BY <1>2, <1>7, <1>11, <2>3, RequestSent
  <2>5. g.from = U(R, c) /\ g.count = Cardinality(U(R, c)) /\ g.from # {}
    <3>1. PICK both : both = slots[R][c].from \cup f.from
      OBVIOUS
    <3>2. /\ Cardinality(both) = slots[R][c].count + f.count /\ both # {}
          /\ Cardinality(both) = Cardinality(U(R, c)) <=> both = U(R, c)
      BY <1>9, <3>1, JoinFacts
    <3>3. both = next.from /\ Cardinality(both) = next.count
      BY <1>3, <1>7, <3>1, <3>2
    <3> QED BY <1>10, <1>18, <2>4, <3>2, <3>3
  <2>6. RequestFits(g)'
    BY <1>9, <2>1, <2>2, <2>4, <2>5, WholeLevelFits
  <2> QED BY <1>13, <1>18, <2>2, <2>3, <2>4, <2>5, <2>6
<1>19. ASSUME Accepts(slot, fanin, f), next.count # fanin,
              slots' = [slots EXCEPT ![R][c] = [next EXCEPT !.forwarded = FALSE]],
              Pass(R, p, PortsOf(R), <<>>, f)
       PROVE  DataInv'
  <2>1. PICK none : none = <<>> /\ DOMAIN none = 1 .. 0
    OBVIOUS
  <2>2. Pass(R, p, PortsOf(R), none, f) /\ 0 \in Nat /\ DOMAIN none = {}
    BY <1>19, <2>1
  <2>3. UNCHANGED site
    BY <2>1, <2>2, PassRings
  <2>4. (next.count = fanin) = FALSE
    BY <1>19
  <2>5. /\ \A Q \in RouterNames : \A d \in Chans : SlotFits(Q, d)'
        /\ BoundsStay /\ \A x \in Others(p) : ApartStays(x)
    BY <1>17, <1>19, <2>3, <2>4
  <2> QED BY <1>7, <2>1, <2>2, <2>5, PassData
<1> QED BY <1>8, <1>15, <1>16, <1>18, <1>19

\* At first the slots are empty, and no answer is about.
LEMMA DataInvInit == Init => DataInv
<1> SUFFICES ASSUME Init PROVE DataInv
  OBVIOUS
<1>1. SiteInv
  BY ForwardingInvInit DEF ForwardingInv
<1>2. /\ todo = UNION {FirstFrames(e) : e \in work.exchanges}
      /\ \A q \in Ports : rings[q] = <<>>
      /\ BagToSet(heard) = {}
      /\ \A R \in RouterNames : \A c \in Chans : slots[R][c] = NoSlot
  <2>1. BagToSet(EmptyBag) = {}
    BY DEF BagToSet, EmptyBag, SetToBag
  <2>2. \A q \in Ports : rings[q] = <<>>
    BY DEF Init, Ports
  <2> QED BY <2>1, <2>2 DEF Init, Chans
<1>3. \A R \in RouterNames : \A c \in Chans : SlotFits(R, c)
  <2> TAKE R \in RouterNames
  <2> TAKE c \in Chans
  <2>1. /\ slots[R][c].count = 0 /\ slots[R][c].from = {} /\ slots[R][c].forwarded = FALSE
    BY <1>2 DEF NoSlot
  <2>2. Cardinality({}) = 0
    BY FS_EmptySet
  <2> QED BY <2>1, <2>2 DEF SlotFits
<1>4. \A f \in todo : Class(f) # "ANSWER"
  <2> TAKE f \in todo
  <2>1. PICK e \in work.exchanges : f \in FirstFrames(e)
    BY <1>2
  <2>2. f.type \in {"REGISTER", "REGISTER_ACK", "RESPONSE", "END"}
    BY <1>1, <2>1, FirstFrameFacts
  <2> QED BY <2>2 DEF Class
<1>5. \A q \in Ports : DOMAIN rings[q] = {}
  BY <1>2
<1> QED BY <1>2, <1>3, <1>4, <1>5 DEF DataInv

LEMMA DataInvNext == ForwardingInv /\ TokenInv /\ DataInv /\ [Next]_vars => DataInv'
<1> SUFFICES ASSUME ForwardingInv, TokenInv, DataInv, [Next]_vars PROVE DataInv'
  OBVIOUS
<1>1. CASE SendSome
  BY <1>1, SendData DEF SendSome
<1>2. ASSUME NEW R \in RouterNames, INC(R) PROVE DataInv'
  <2>1. PICK p \in PortsOf(R) :
          \/ MulticastControl(R, p) \/ MulticastResponse(R, p)
          \/ Bypass(R, p) \/ Request(R, p)
    BY <1>2 DEF INC
  <2>2. CASE MulticastControl(R, p)
    BY <2>2, MulticastControlData
  <2>3. CASE MulticastResponse(R, p)
    BY <2>3, MulticastResponseData
  <2>4. CASE Bypass(R, p)
    BY <2>4, BypassData
  <2>5. CASE Request(R, p)
    BY <2>5, RequestData
  <2> QED BY <2>1, <2>2, <2>3, <2>4, <2>5
<1>3. CASE UNCHANGED vars
  <2>1. UNCHANGED <<work, fabric, cabling, todo, rings, slots, heard>> /\ UNCHANGED site
    BY <1>3 DEF vars, site
  <2>2. /\ Chans' = Chans /\ RouterNames' = RouterNames /\ Ports' = Ports
        /\ \A q, c : Reach(q, c)' = Reach(q, c)
        /\ \A c : LevelsOf(c)' = LevelsOf(c)
        /\ \A R, c : U(R, c)' = U(R, c)
        /\ \A R : Above(R)' = Above(R)
    BY <2>1, SameSite, SameWays DEF Ports
  <2>3. \A R, c : SlotFits(R, c)' = SlotFits(R, c)
    <3> TAKE R, c
    <3>1. slots'[R][c] = slots[R][c]
      BY <2>1
    <3> QED BY <2>2, <3>1 DEF SlotFits
  <2>4. \A c, stack, hosts : Binds(c, stack, hosts)' = Binds(c, stack, hosts)
    BY <2>1, <2>2 DEF Binds
  <2>5. \A f : ChannelOf(f)' = ChannelOf(f)
    BY DEF ChannelOf
  <2>6. \A f : RequestFits(f)' = RequestFits(f)
    BY <2>1, <2>2, <2>4, <2>5 DEF RequestFits
  <2>7. \A p, f : FitsAt(p, f)' = FitsAt(p, f)
    BY <2>2, <2>4, <2>5, <2>6 DEF FitsAt
  <2>8. \A f : HeardFits(f)' = HeardFits(f)
    BY <2>6 DEF HeardFits
  <2> QED BY <2>1, <2>2, <2>3, <2>6, <2>7, <2>8 DEF DataInv
<1> QED BY <1>1, <1>2, <1>3 DEF Next

\* The slots, the frames that join them and what is to come back through them
\* agree in every reachable state, and a requester that has heard a credit
\* is in one of them until the responder has its answer.
LEMMA DataInvHolds == Spec => [](ForwardingInv /\ TokenInv /\ DataInv /\ AnswersKept)
<1>1. Init => ForwardingInv /\ TokenInv /\ DataInv /\ AnswersKept
  BY ForwardingInvInit, TokenInvInit, DataInvInit
<1>2. ForwardingInv /\ TokenInv /\ DataInv /\ AnswersKept /\ [Next]_vars =>
        (ForwardingInv /\ TokenInv /\ DataInv /\ AnswersKept)'
  BY ForwardingInvNext, TokenInvNext, DataInvNext
<1> QED BY <1>1, <1>2, PTL DEF Spec
-----------------------------------------------------------------------------
(* What follows.                                                           *)

\* Type correctness, in particular that no ring ever holds more than
\* DEV_RING_SIZE - 1 frames and that dev_pop looks only at devices there are.
THEOREM ForwardingTypeCorrect == Spec => []ForwardingTypeOK
<1>1. ForwardingInv => ForwardingTypeOK
  <2> SUFFICES ASSUME ForwardingInv PROVE ForwardingTypeOK
    OBVIOUS
  <2>1. ASSUME NEW p \in Ports
        PROVE  Len(rings[p]) \in 0 .. RingSize - 1 /\ skipped[p] \in Nat
    <3>1. PICK R \in RouterNames : p \in PortsOf(R)
      BY DEF Ports, ForwardingInv, RingsInv
    <3>2. PICK k \in 0 .. Len(Config(R).devs) - 1 : p = Config(R).devs[k + 1]
      BY <3>1, DeviceFacts DEF ForwardingInv
    <3>3. skipped[p] \in Nat
      BY <3>2 DEF ForwardingInv, TurnInv
    <3>4. rings[p] \in Seq(MayWaitAt(R, p)) /\ Len(rings[p]) < RingSize
      BY <3>1 DEF ForwardingInv, RingsInv
    <3>5. Len(rings[p]) \in Nat
      BY <3>4, LenProperties
    <3> QED BY <3>3, <3>4, <3>5, ForwardingAssumption
  <2> QED BY <2>1 DEF ForwardingInv, SiteInv, TurnInv, ForwardingTypeOK
<1> QED BY <1>1, ForwardingInvHolds, PTL

\* dev_pop never starves a port: while a frame waits there, each other port
\* of the router is served at most once.
THEOREM TurnsAreServed == Spec => []PortsServedInTurn
<1>1. ForwardingInv => PortsServedInTurn
  <2> SUFFICES ASSUME ForwardingInv, NEW R \in RouterNames, NEW p \in PortsOf(R)
               PROVE  skipped[p] < Len(Config(R).devs)
    BY DEF PortsServedInTurn
  <2>1. Len(Config(R).devs) \in Nat \ {0}
    BY DeviceFacts DEF ForwardingInv
  <2>2. PICK k \in 0 .. Len(Config(R).devs) - 1 : p = Config(R).devs[k + 1]
    BY DeviceFacts DEF ForwardingInv
  <2>3. /\ skipped[p] \in Nat /\ g_dev_rr[R] \in 0 .. Len(Config(R).devs) - 1
        /\ IF rings[p] = <<>> THEN skipped[p] = 0
           ELSE skipped[p] + Turns(R, k) < Len(Config(R).devs)
    BY <2>2 DEF ForwardingInv, TurnInv
  <2>4. Turns(R, k) \in Nat
    BY <2>1, <2>3 DEF Turns, Before
  <2> QED BY <2>1, <2>3, <2>4
<1> QED BY <1>1, ForwardingInvHolds, PTL

\* A request that has levels to unwind is at the router whose slot its credit
\* pushed last, in every topology whose cables mirror its trees.
THEOREM RequestsUnwind == Spec => []UnwindsWherePushed
<1>1. ForwardingInv => UnwindsWherePushed
  <2> SUFFICES ASSUME ForwardingInv, NEW R \in RouterNames, NEW p \in PortsOf(R),
                      NEW i \in DOMAIN rings[p], rings[p][i].type = "REQUEST",
                      Aggregates(R, rings[p][i])
               PROVE  rings[p][i].stack[Len(rings[p][i].stack)] = R
    BY DEF UnwindsWherePushed
  <2>1. rings[p] \in Seq(MayWaitAt(R, p))
    BY DEF ForwardingInv, RingsInv
  <2>2. i \in 1 .. Len(rings[p])
    BY <2>1, LenProperties
  <2>3. rings[p][i] \in MayWaitAt(R, p)
    BY <2>1, <2>2, ElementOfSeq
  <2>4. rings[p][i] \in Frames /\ RequestStackFits(R, p, rings[p][i])
    BY <2>3 DEF MayWaitAt
  <2> QED BY <2>4, PopTakesOwnLevel DEF ForwardingInv
<1> QED BY <1>1, ForwardingInvHolds, PTL

\* Once nothing is under way, what is kept has been heard.
LEMMA SettledIsHeard ==
    ASSUME Settled, NEW k, NEW c, NEW h, k # "ANSWER", Held(k, c, h)
    PROVE  HasHeard(k, c, h)
<1>1. InTodo(k, c, h) = {}
  BY DEF Settled, InTodo
<1>2. InRings(k, c, h) = {}
  <2>1. \A q \in Ports : DOMAIN rings[q] = {}
    BY DEF Settled
  <2> QED BY <2>1 DEF InRings
<1>3. InSlots(k, c, h) = {}
  BY DEF InSlots
<1> QED BY <1>1, <1>2, <1>3 DEF Held, HasHeard, NoneOf

\* A host hears of a part once.
LEMMA HeardOnce ==
    ASSUME TokenInv, NEW k \in Classes, NEW c \in Chans, NEW h \in Ranks,
           NEW x \in InHeard(k, c, h), NEW y \in InHeard(k, c, h)
    PROVE  x = y /\ heard[x] = 1
<1>1. OneOf(InTodo(k, c, h), InRings(k, c, h), InHeard(k, c, h), InSlots(k, c, h))
  BY DEF TokenInv, SingleInv, Single
<1>2. PICK z : InHeard(k, c, h) = {z} /\ heard[z] = 1
  BY <1>1 DEF OneOf, NoneOf
<1> QED BY <1>2

\* What a responder multicasts every requester hears once, and nobody twice,
\* in every topology whose files and cables spread it.
THEOREM MulticastsReachOnce == Spec => []MulticastOnce
<1>1. ForwardingInv /\ TokenInv => MulticastOnce
  <2> SUFFICES ASSUME ForwardingInv, TokenInv, NEW e \in work.exchanges, NEW type \in MulticastsOf(e)
               PROVE  /\ \A h \in Ranks : \A x, y \in Hears(h, type, e.channel) : x = y /\ heard[x] = 1
                      /\ type # "RESPONSE" => Hears(e.channel[1], type, e.channel) = {}
                      /\ Settled /\ ~dropped =>
                           \A r \in RequestersOf(e.channel[1]) : Hears(r, type, e.channel) # {}
    BY DEF MulticastOnce
  <2> DEFINE c == e.channel
  <2>1. /\ type \in {"REGISTER_ACK", "RESPONSE", "END"} /\ type \in Classes /\ type # "ANSWER"
        /\ type \in FromResponder /\ c \in Chans
    BY SiteFacts DEF MulticastsOf, Classes, FromResponder, Chans, Exchange, ForwardingInv
  <2>2. ASSUME NEW h, NEW x \in Hears(h, type, c)
        PROVE  /\ x \in InHeard(type, c, h) /\ x.frame.src = c[1]
               /\ type # "RESPONSE" => h # x.frame.src
    <3>1. x \in BagToSet(heard) /\ x.at = h /\ x.frame.type = type /\ ChannelOf(x.frame) = c
      BY DEF Hears
    <3>2. /\ x.frame \in Frames
          /\ x.frame.type \in FromResponder \ {"RESPONSE"} => x.at # x.frame.src
      BY <3>1 DEF TokenInv, WaysInv
    <3>3. Class(x.frame) = type /\ x.frame.src = c[1]
      BY <2>1, <3>1 DEF Class, ChannelOf
    <3>4. h \in Stands(x.frame, {x.at})
      BY <2>1, <3>1, <3>2 DEF Stands
    <3> QED BY <2>1, <3>1, <3>2, <3>3, <3>4 DEF InHeard, StandsFor
  <2>3. ASSUME NEW h \in Ranks, NEW x \in Hears(h, type, c), NEW y \in Hears(h, type, c)
        PROVE  x = y /\ heard[x] = 1
    BY <2>1, <2>2, HeardOnce
  <2>4. ASSUME Settled, ~dropped, NEW r \in RequestersOf(c[1])
        PROVE  Hears(r, type, c) # {}
    <3>1. Held(type, c, r)
      BY <2>4 DEF TokenInv, KeptInv
    <3>2. PICK x : x \in InHeard(type, c, r)
      BY <2>1, <2>4, <3>1, SettledIsHeard DEF HasHeard
    <3>3. /\ x \in BagToSet(heard) /\ Class(x.frame) = type /\ ChannelOf(x.frame) = c
          /\ r \in Stands(x.frame, {x.at})
      BY <3>2 DEF InHeard, StandsFor
    <3>4. x.frame.type = type
      BY <2>1, <3>3 DEF Class
    <3>5. x.at = r
      BY <2>1, <3>3, <3>4 DEF Stands
    <3> QED BY <3>3, <3>4, <3>5 DEF Hears
  <2>5. type # "RESPONSE" => Hears(c[1], type, c) = {}
    BY <2>2
  <2> QED BY <2>3, <2>4, <2>5
<1> QED BY <1>1, TokenInvHolds, PTL

\* What requesters send to the responder the responder alone hears, once, in
\* every topology whose files and cables lead there.
THEOREM UnicastsReachResponder == Spec => []UnicastArrives
<1>1. ForwardingInv /\ TokenInv => UnicastArrives
  <2> SUFFICES ASSUME ForwardingInv, TokenInv PROVE UnicastArrives
    OBVIOUS
  <2>1. ASSUME NEW x \in BagToSet(heard), x.frame.type \notin FromResponder
        PROVE  x.at = x.frame.dst /\ heard[x] = 1
    <3>1. x.frame \in Frames /\ Sane(x.frame) /\ x.at = x.frame.dst
      BY <2>1 DEF TokenInv, WaysInv
    <3>2. /\ x.frame.type \in FrameTypes /\ x.frame.src \in Ranks /\ x.frame.from \subseteq Ranks
          /\ ChannelOf(x.frame) \in Chans /\ x.frame.from # {}
      BY <2>1, <3>1 DEF Frames, FrameRecords, Sane, OfRequester
    <3>3. Class(x.frame) \in Classes /\ \E h \in Ranks : h \in Stands(x.frame, {x.at})
      BY <2>1, <3>2 DEF FrameTypes, Class, Classes, Stands, FromResponder
    <3>4. PICK h \in Ranks : x \in InHeard(Class(x.frame), ChannelOf(x.frame), h)
      BY <3>3 DEF InHeard, StandsFor
    <3> QED BY <3>1, <3>2, <3>3, <3>4, HeardOnce
  <2>2. ASSUME Settled, ~dropped, NEW e \in work.exchanges, NEW type \in UnicastsOf(e)
        PROVE  {x.frame.src : x \in Hears(e.channel[1], type, e.channel)} = RequestersOf(e.channel[1])
    <3> DEFINE c == e.channel
    <3>1. /\ type \in {"REGISTER", "END_ACK"} /\ type \notin FromResponder /\ c \in Chans
          /\ type = "REGISTER" => e.kind = "REGISTER"
          /\ type = "END_ACK" => "END" \in MulticastsOf(e)
      BY SiteFacts DEF UnicastsOf, MulticastsOf, FromResponder, Chans, Exchange, ForwardingInv
    <3>2. ASSUME NEW x \in BagToSet(heard), x.frame.type = type, ChannelOf(x.frame) = c
          PROVE  x.frame.src \in RequestersOf(c[1]) /\ x.at = c[1]
      <4>1. Sane(x.frame) /\ x.at = x.frame.dst
        BY <3>1, <3>2 DEF TokenInv, WaysInv
      <4>2. c[1] = x.frame.dst
        BY <3>1, <3>2 DEF ChannelOf
      <4> QED BY <3>1, <3>2, <4>1, <4>2 DEF Sane, OfRequester
    <3>3. ASSUME NEW r \in RequestersOf(c[1])
          PROVE  \E x \in Hears(c[1], type, c) : x.frame.src = r
      <4>1. Held(type, c, r)
        <5>1. KeptInv
          BY DEF TokenInv
        <5>2. CASE type = "REGISTER"
          BY <2>2, <3>1, <5>1, <5>2 DEF KeptInv
        <5>3. CASE type = "END_ACK"
          <6>1. Held("END", c, r)
            BY <2>2, <3>1, <5>1, <5>3 DEF KeptInv
          <6>2. HasHeard("END", c, r)
            BY <2>2, <6>1, SettledIsHeard
          <6> QED BY <2>2, <3>1, <5>1, <5>3, <6>2 DEF KeptInv
        <5> QED BY <3>1, <5>2, <5>3
      <4>2. PICK x : x \in InHeard(type, c, r)
        BY <2>2, <3>1, <4>1, SettledIsHeard DEF HasHeard
      <4>3. /\ x \in BagToSet(heard) /\ Class(x.frame) = type /\ ChannelOf(x.frame) = c
            /\ r \in Stands(x.frame, {x.at})
        BY <4>2 DEF InHeard, StandsFor
      <4>4. x.frame.type = type
        BY <3>1, <4>3 DEF Class
      <4>5. x.frame.src = r
        BY <3>1, <4>3, <4>4 DEF Stands
      <4> QED BY <3>2, <4>3, <4>4, <4>5 DEF Hears
    <3> QED BY <3>2, <3>3 DEF Hears
  <2> QED BY <2>1, <2>2 DEF UnicastArrives
<1> QED BY <1>1, TokenInvHolds, PTL

\* What a slot holds when nothing is under way is all that is under its
\* router: of the slots that still hold something, the one with the fewest
\* below would lack a requester that another one has, and that one would be
\* neither below nor above it.
LEMMA NoSlotWaits ==
    ASSUME ForwardingInv, TokenInv, DataInv, NEW c \in Chans,
           \A r \in RequestersOf(c[1]) : InSlots("ANSWER", c, r) # {}
    PROVE  RequestersOf(c[1]) = {}
<1> DEFINE L == {R \in LevelsOf(c) : ~slots[R][c].forwarded /\ slots[R][c].from # {}}
           Sizes == {Cardinality(U(R, c)) : R \in L}
<1>1. SiteInv /\ c \in Channels
  BY SiteFacts DEF ForwardingInv, Chans, Exchange
<1>2. ASSUME NEW R \in RouterNames, ~slots[R][c].forwarded, slots[R][c].from # {}
      PROVE  R \in L
  <2>1. SlotFits(R, c)
    BY DEF DataInv
  <2> QED BY <1>2, <2>1 DEF SlotFits
<1>3. ASSUME NEW R \in L
      PROVE  /\ R \in RouterNames /\ SlotFits(R, c) /\ ~slots[R][c].forwarded
             /\ slots[R][c].from # {} /\ slots[R][c].from \subseteq U(R, c) /\ slots[R][c].from # U(R, c)
             /\ U(R, c) \subseteq RequestersOf(c[1]) /\ IsFiniteSet(U(R, c)) /\ Cardinality(U(R, c)) \in Nat
  <2>1. /\ R \in RouterNames /\ U(R, c) \subseteq RequestersOf(c[1]) /\ IsFiniteSet(U(R, c))
    BY <1>1, LevelFacts
  <2>2. SlotFits(R, c)
    BY <2>1 DEF DataInv
  <2>3. Cardinality(U(R, c)) \in Nat
    BY <2>1, FS_CardinalityType
  <2> QED BY <2>1, <2>2, <2>3 DEF SlotFits
<1>4. ASSUME NEW r \in RequestersOf(c[1])
      PROVE  \E Q \in L : r \in slots[Q][c].from
  <2>1. PICK Q : Q \in InSlots("ANSWER", c, r)
    BY <1>4
  <2>2. Q \in RouterNames /\ ~slots[Q][c].forwarded /\ r \in slots[Q][c].from
    BY <2>1 DEF InSlots
  <2> QED BY <1>2, <2>2
<1>5. ASSUME NEW r \in Ranks, NEW R \in RouterNames, NEW Q \in RouterNames,
             ~slots[R][c].forwarded, ~slots[Q][c].forwarded, r \in slots[R][c].from, r \in slots[Q][c].from
      PROVE  R = Q
  <2>1. R \in InSlots("ANSWER", c, r) /\ Q \in InSlots("ANSWER", c, r)
    BY <1>5 DEF InSlots
  <2>2. Single("ANSWER", c, r)
    BY DEF TokenInv, SingleInv, Classes
  <2> QED BY <2>1, <2>2 DEF Single, OneOf, NoneOf
<1> HIDE DEF L
<1>6. CASE L = {}
  BY <1>4, <1>6
<1>7. CASE L # {}
  <2>1. PICK R \in L : \A Q \in L : Cardinality(U(R, c)) <= Cardinality(U(Q, c))
    <3>1. Sizes \subseteq Nat /\ Sizes # {}
      BY <1>3, <1>7
    <3>2. PICK d \in Sizes : \A e \in Sizes : d <= e
      BY <3>1, LeastOf
    <3> QED BY <3>2
  <2>2. PICK r : r \in U(R, c) /\ r \notin slots[R][c].from
    BY <1>3
  <2>3. r \in RequestersOf(c[1]) /\ r \in Ranks
    BY <1>3, <2>2 DEF RequestersOf
  <2>4. PICK Q \in L : r \in slots[Q][c].from
    BY <1>4, <2>3
  <2>5. r \in U(Q, c) /\ Q # R
    BY <1>3, <2>2, <2>4
  <2>6. R \in LevelsOf(c) /\ Q \in LevelsOf(c)
    BY DEF L
  <2>7. CASE Q \in Range(Above(R))
    <3>1. R \notin Range(Above(Q))
      <4>1. Len(Above(Q)) < Len(Above(R)) /\ Len(Above(Q)) \in Nat /\ Len(Above(R)) \in Nat
        BY <1>1, <2>6, <2>7, LevelFacts
      <4>2. R \in Range(Above(Q)) => Len(Above(R)) < Len(Above(Q))
        BY <1>1, <2>6, LevelFacts
      <4> QED BY <4>1, <4>2
    <3>2. U(R, c) \subseteq slots[Q][c].from \/ U(R, c) \cap slots[Q][c].from = {}
      BY <1>3, <2>5, <2>6, <3>1 DEF SlotFits
    <3>3. U(R, c) \subseteq slots[Q][c].from
      BY <2>2, <2>4, <3>2
    <3>4. PICK h : h \in slots[R][c].from
      BY <1>3
    <3>5. h \in slots[Q][c].from /\ h \in Ranks
      BY <1>3, <3>3, <3>4 DEF RequestersOf
    <3> QED BY <1>3, <1>5, <2>5, <3>4, <3>5
  <2>8. CASE Q \notin Range(Above(R))
    <3>1. U(Q, c) \subseteq U(R, c)
      <4>1. \/ U(Q, c) \subseteq U(R, c) \/ U(Q, c) \cap U(R, c) = {} \/ Q \in Range(Above(R))
        BY <1>1, <2>6, LevelFacts
      <4> QED BY <2>2, <2>5, <2>8, <4>1
    <3>2. U(Q, c) \cap slots[R][c].from = {}
      <4>1. \/ U(Q, c) \subseteq slots[R][c].from \/ U(Q, c) \cap slots[R][c].from = {}
            \/ Q = R \/ Q \in Range(Above(R))
        BY <1>3, <2>6 DEF SlotFits
      <4> QED BY <2>2, <2>5, <2>8, <4>1
    <3>3. U(Q, c) # U(R, c)
      BY <1>3, <3>2
    <3>4. Cardinality(U(Q, c)) < Cardinality(U(R, c))
      BY <1>3, <3>1, <3>3, FS_Subset
    <3> QED BY <1>3, <2>1, <3>4
  <2> QED BY <2>7, <2>8
<1> QED BY <1>6, <1>7

\* The slots add every requester once, and when nothing is under way the
\* responder has one request with all of them or, where a slot was taken
\* over, an AGG_MISS and no request: in every topology of more than one rank
\* whose files and cables make the levels nested and plan their fan-in.
THEOREM AnswersAggregate ==
    ASSUME RankCount > 1
    PROVE  Spec => []AggregateOrMiss
<1>1. ForwardingInv /\ TokenInv /\ DataInv /\ AnswersKept => AggregateOrMiss
  <2> SUFFICES ASSUME ForwardingInv, TokenInv, DataInv, AnswersKept PROVE AggregateOrMiss
    OBVIOUS
  <2>1. ASSUME NEW R \in RouterNames, NEW c \in DOMAIN slots[R]
        PROVE  slots[R][c].count = Cardinality(slots[R][c].from)
    <3>1. c \in Chans
      BY DEF ForwardingInv, SlotsInv
    <3> QED BY <3>1 DEF DataInv, SlotFits
  <2>2. ASSUME Settled, ~dropped, NEW e \in work.exchanges, e.kind = "DATA"
        PROVE  LET sums   == Hears(e.channel[1], "REQUEST", e.channel)
                   misses == Hears(e.channel[1], "AGG_MISS", e.channel)
                   whole(x) == /\ x.frame.from = RequestersOf(e.channel[1])
                               /\ x.frame.count = Cardinality(x.frame.from)
               IN IF misses = {} THEN Cardinality(sums) = 1 /\ \A x \in sums : whole(x)
                  ELSE work.lost # {} /\ sums = {}
    <3>1. PICK c : c = e.channel
      OBVIOUS
    <3>2. c \in Chans /\ c \in Channels /\ c[1] \in Ranks /\ RequestersOf(c[1]) # {}
      <4>1. c \in Chans /\ c \in Channels
        BY <3>1, SiteFacts DEF Chans, Exchange, ForwardingInv
      <4>2. c[1] \in Ranks
        BY <4>1 DEF Channels
      <4>3. 0 \in Ranks /\ 1 \in Ranks
        BY FabricAssumption DEF Ranks
      <4> QED BY <4>1, <4>2, <4>3 DEF RequestersOf
    <3>3. PICK sums : sums = Hears(c[1], "REQUEST", c)
      OBVIOUS
    <3>4. PICK misses : misses = Hears(c[1], "AGG_MISS", c)
      OBVIOUS
    <3>5. ASSUME NEW x \in sums \cup misses
          PROVE  /\ x.frame.from # {} /\ x.frame.from \subseteq RequestersOf(c[1])
                 /\ \A r \in x.frame.from : x \in InHeard("ANSWER", c, r)
                 /\ x \in misses => work.lost # {} /\ x.frame.type = "AGG_MISS"
                 /\ x \in sums =>
                      /\ x.frame.type = "REQUEST" /\ x.frame.from = RequestersOf(c[1])
                      /\ x.frame.count = Cardinality(x.frame.from)
      <4>1. /\ x \in BagToSet(heard) /\ ChannelOf(x.frame) = c
            /\ x.frame.type \in {"REQUEST", "AGG_MISS"}
            /\ x \in misses => x.frame.type = "AGG_MISS"
            /\ x \in sums => x.frame.type = "REQUEST"
        BY <3>3, <3>4, <3>5 DEF Hears
      <4>2. Class(x.frame) = "ANSWER" /\ Stands(x.frame, {x.at}) = x.frame.from
        BY <4>1 DEF Class, Stands
      <4>3. RequestFits(x.frame) /\ (x.frame.type = "REQUEST" => x.frame.stack = <<>>)
        BY <4>1, <4>2 DEF DataInv, HeardFits
      <4>4. \A r \in x.frame.from : x \in InHeard("ANSWER", c, r)
        BY <4>1, <4>2 DEF InHeard, StandsFor
      <4> QED BY <4>1, <4>3, <4>4 DEF RequestFits
    <3>6. ASSUME NEW x \in sums, NEW y \in sums \cup misses
          PROVE  x = y
      <4>1. PICK r : r \in y.frame.from
        BY <3>5
      <4>2. r \in RequestersOf(c[1]) /\ r \in Ranks
        BY <3>5, <4>1 DEF RequestersOf
      <4>3. x \in InHeard("ANSWER", c, r) /\ y \in InHeard("ANSWER", c, r)
        BY <3>5, <4>1, <4>2
      <4> QED BY <3>2, <4>2, <4>3, HeardOnce DEF Classes
    <3>7. sums \cup misses # {}
      <4> SUFFICES ASSUME sums = {}, misses = {} PROVE FALSE
        OBVIOUS
      <4>1. ASSUME NEW r \in RequestersOf(c[1])
            PROVE  InSlots("ANSWER", c, r) # {}
        <5>1. Held("RESPONSE", c, r)
          BY <2>2, <3>1, <4>1 DEF TokenInv, KeptInv, MulticastsOf
        <5>2. HasHeard("RESPONSE", c, r)
          BY <2>2, <5>1, SettledIsHeard
        <5>3. Held("ANSWER", c, r)
          BY <2>2, <3>2, <4>1, <5>2 DEF AnswersKept
        <5>4. InTodo("ANSWER", c, r) = {} /\ InRings("ANSWER", c, r) = {}
          <6>1. todo = {} /\ \A q \in Ports : DOMAIN rings[q] = {}
            BY <2>2 DEF Settled
          <6> QED BY <6>1 DEF InTodo, InRings
        <5>5. InHeard("ANSWER", c, r) = {}
          <6> SUFFICES ASSUME NEW x \in InHeard("ANSWER", c, r) PROVE FALSE
            OBVIOUS
          <6>1. x \in BagToSet(heard) /\ Class(x.frame) = "ANSWER" /\ ChannelOf(x.frame) = c
            BY DEF InHeard, StandsFor
          <6>2. x.frame \in Frames /\ (x.frame.type \notin FromResponder => x.at = x.frame.dst)
            BY <6>1 DEF TokenInv, WaysInv
          <6>3. x.frame.type \in {"REQUEST", "AGG_MISS"}
            <7>1. x.frame.type \in FrameTypes
              BY <6>2 DEF Frames, FrameRecords
            <7> QED BY <6>1, <7>1 DEF Class, FrameTypes
          <6>4. x.at = c[1]
            BY <6>1, <6>2, <6>3 DEF ChannelOf, FromResponder
          <6> QED BY <3>3, <3>4, <6>1, <6>3, <6>4 DEF Hears
        <5> QED BY <5>3, <5>4, <5>5 DEF Held, NoneOf
      <4> QED BY <3>2, <4>1, NoSlotWaits
    <3>8. CASE misses = {}
      <4>1. PICK x : x \in sums
        BY <3>7, <3>8
      <4>2. sums = {x}
        BY <3>6, <4>1
      <4>3. Cardinality(sums) = 1
        BY <4>2, FS_Singleton
      <4> QED BY <3>1, <3>3, <3>4, <3>5, <3>8, <4>3
    <3>9. CASE misses # {}
      <4>1. PICK m : m \in misses
        BY <3>9
      <4>2. sums = {}
        BY <3>5, <3>6, <4>1
      <4>3. work.lost # {}
        BY <3>5, <4>1
      <4> QED BY <3>1, <3>3, <3>4, <3>9, <4>2, <4>3
    <3> QED BY <3>8, <3>9
  <2> QED BY <2>1, <2>2 DEF AggregateOrMiss
<1> QED BY <1>1, DataInvHolds, PTL
=============================================================================
