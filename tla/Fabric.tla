------------------------------- MODULE Fabric -------------------------------
(***************************************************************************)
(* The tables every process reads from ranks.cfg, graph.cfg and tree.cfg   *)
(* when it starts (config/arbor_fabric.c): for each router its devices and *)
(* the route, tree and multicast ports of every channel, and for each      *)
(* requester its fan-in plan.  A channel is a responder's rank and a       *)
(* subchannel.  A line is a record; a file is taken apart into the lines    *)
(* of each router, which touch no other's tables, and the req lines.       *)
(***************************************************************************)
EXTENDS Integers, Sequences, SequencesExt, FiniteSetsExt

CONSTANTS
    RankCount,       \* lines of ranks.cfg
    SubCount,        \* SUBCHANNEL_COUNT
    MaxStackDepth    \* ARBOR_MAX_STACK_DEPTH

ASSUME FabricAssumption == {RankCount, SubCount, MaxStackDepth} \subseteq Nat \ {0}

Ranks    == 0 .. RankCount - 1
Subs     == 0 .. SubCount - 1
Channels == Ranks \X Subs

\* neighbor_mask_of: the shipped graph.cfg files, like the default mask when
\* there is none, make every other rank a requester of a channel.
RequestersOf(responder) == Ranks \ {responder}

\* A table with an entry for key, in place of one it had.
Put(table, key, val) ==
    IF key \in DOMAIN table THEN [table EXCEPT ![key] = val]
    ELSE [x \in {key} \cup DOMAIN table |-> IF x = key THEN val ELSE table[x]]

\* A new entry of g_router_configs; every table of it is indexed by channel.
EmptyRouter == [devs |-> <<>>, route |-> <<>>, tree |-> <<>>, mcast |-> <<>>]

AddDev(cfg, port) ==
    [cfg EXCEPT !.devs = IF Contains(cfg.devs, port) THEN cfg.devs ELSE Append(cfg.devs, port)]

SetRoute(cfg, channel, port) ==
    AddDev([cfg EXCEPT !.route = Put(cfg.route, channel, port)], port)

\* set_tree: up is the port towards the root, down the one on which frames
\* from the root come in.
SetTree(cfg, channel, role, up, down) ==
    AddDev(AddDev([cfg EXCEPT !.tree =
                     Put(cfg.tree, channel, [role |-> role, up |-> up, down |-> down])], up), down)

McastOf(cfg, channel) == IF channel \in DOMAIN cfg.mcast THEN cfg.mcast[channel] ELSE <<>>

\* Mutant: a port listed twice is kept twice.
AddMcastTwice(cfg, channel, port) ==
    AddDev([cfg EXCEPT !.mcast = Put(cfg.mcast, channel, Append(McastOf(cfg, channel), port))], port)

AddMcast(cfg, channel, port) ==
    IF Contains(McastOf(cfg, channel), port) THEN cfg
    ELSE AddDev([cfg EXCEPT !.mcast =
                   Put(cfg.mcast, channel, Append(McastOf(cfg, channel), port))], port)

-----------------------------------------------------------------------------
(* Lines.                                                                  *)

LineChannel(line) == <<line.rank, line.sub>>

\* What a dev, route, mcast or tree line does to its router; a tree line
\* without a second port uses the first for both directions.
RouterLine(cfg, line) ==
    CASE line.kind = "dev"   -> AddDev(cfg, line.port)
      [] line.kind = "route" -> SetRoute(cfg, LineChannel(line), line.port)
      [] line.kind = "mcast" -> AddMcast(cfg, LineChannel(line), line.port)
      [] line.kind = "tree"  ->
           SetTree(cfg, LineChannel(line), line.role, line.ports[1],
                   line.ports[Len(line.ports)])

\* The fan-ins a req line names, root first; numbers past the depth are
\* ignored.
PlanOf(line) == SubSeq(line.fanins, 1, line.depth)

\* A req line names as many fan-ins as its depth, and no more than fit.
PlanFits(line) == line.depth <= MaxStackDepth /\ line.depth <= Len(line.fanins)
PlanKey(line)  == <<line.requester, LineChannel(line)>>

\* g_requester_plans after the req lines, of which the last one counts.
PlansOf(reqs) ==
    [x \in {PlanKey(reqs[i]) : i \in DOMAIN reqs} |->
        PlanOf(reqs[Max({i \in DOMAIN reqs : PlanKey(reqs[i]) = x})])]

\* validate_loaded_state: every requester of every channel has a plan.
Validated(plans) ==
    \A c \in Channels : \A r \in RequestersOf(c[1]) : <<r, c>> \in DOMAIN plans

\* ArborFabricLoadFromFiles.
Load(file) ==
    LET plans == PlansOf(file.reqs)
    IN [routers |-> [R \in DOMAIN file.routers |->
                       FoldLeft(RouterLine, EmptyRouter, file.routers[R])],
        plans   |-> plans,
        ok      |-> (\A i \in DOMAIN file.reqs : PlanFits(file.reqs[i])) /\ Validated(plans)]

\* What the lines of a file look like that fits the tables (ROUTER_MAX_PORTS,
\* ROUTER_MAX_COUNT).
IsFile(file) ==
    /\ \A R \in DOMAIN file.routers :
         LET lines == file.routers[R]
         IN /\ lines \in Seq(Range(lines)) /\ lines # <<>>
            /\ \A i \in DOMAIN lines : lines[i].kind \in {"dev", "route", "mcast", "tree"}
    /\ file.reqs \in Seq(Range(file.reqs))
    /\ \A i \in DOMAIN file.reqs :
         file.reqs[i].depth \in Nat /\ file.reqs[i].fanins \in Seq(Nat)
=============================================================================
