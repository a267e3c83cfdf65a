# Arbor: a verification project

Arbor all-reduces messages between hosts with the help of aggregating routers.
One *channel* belongs to one responder; its neighbours are the requesters. This
directory holds TLA+ models of the protocol in `protocol/`, the TLC
configurations that check them and TLAPS proofs about the routers, the channel, the
pacing, the message tables, the queues and the forwarding. Only what the code in `protocol/`,
`config/` and `runtime/` does is modelled, each module from the functions
`PROJECT.json` maps it to.

## 1. The system

| part | source | state | operations |
|---|---|---|---|
| responder | `responder.c` | per call: `credit_entry_t[64]`, pending-response queue, END state; per message: `protocol_message_t` | `respond`, `respond_push`: one polling loop, one handler per frame type, two timers |
| requester | `requester.c` | per call: confirmed subchannels, offset ring, credit queue, result buffer | `request`, `request_push`: one polling loop |
| pacing | `responder.c` | per call: gaps, windows and deadlines of subchannels and channel, token bucket, outstanding count | rounds of credits, timeouts, samples |
| router | `router.c` | `g_slots[64]`, `g_agtr[64]`, `g_router_alloc_ptr`; a receive ring per port, `g_dev_rr` | `INC`: one thread, one frame at a time; a capture thread per port |
| host | `host.c` | message tables, END tombstones, receive queues | a receive thread per interface, allocation helpers |
| configuration | `arbor_fabric.c` | routers' devices, routes, trees, multicast lists, requesters' fan-in plans | load and validate at start |
| wire, runtime, workload | `wire/`, `runtime/`, `allreduce_workload.c` | none that the protocol changes | packing, start-up |

How a message runs. Requesters beacon REGISTER on every subchannel; when all of
them are in, the responder answers REGISTER_ACK and starts to send *credits*
(RESPONSE frames that ask for one packet). A credit goes down the tree; every
LEVEL router binds an aggregation slot to it and pushes the slot's index on the
frame. The requests it causes climb back, are summed slot by slot and reach the
responder as one master frame with a contribution count. The responder adds its
own fragment, commits the result and lets a later credit carry it (or sends it
alone). A packet that times out switches to *repair*: a trigger asks everybody
for a direct REPAIR_REQUEST, counted per requester. When all packets are done
the END / END_ACK handshake closes the message. In *push* mode the credit already
carries the result and the requests are empty acknowledgements.

The parts share nothing but frames. What is hard: the network loses, reorders
and duplicates them; a late aggregate races the repair of the same packet; slots
count without identities and are overwritten in ring order; a result travels on
the credit of another packet; END can overtake results; both ends retry on
timers with budgets; a requester that has returned must still answer END; frames
outlive their messages in queues that are searched by an id which is used again;
the way of a frame depends on tables that two files must agree on.
`PROJECT.json` lists these hazards at their lines with the properties aimed at
them.

## 2. Modules

* `ArborNet` - hosts, tree, payload algebra, frames. A payload is the count of
  every host's fragment of every offset, so a lost, doubled or misplaced fragment
  is visible. `net` is the set of frames in flight. Frames that routers forward
  untouched go straight to their host.
* `Router` - `g_slots` and `g_router_alloc_ptr`; actions `BindCredit`
  (`router_multicast_response` on a normal credit), `PassThrough`, `Miss`,
  `Aggregate` (the three ways `INC` treats a request).
* `Responder` - one call of `respond_mode`: `meta` is the `protocol_message_t`,
  `entries` the credit table, `pending` the pending-response queue. One action per
  handler or loop step: `RxRegister`, `FlushRegisterAcks`, `IssueCredit`,
  `FlushPending`, `RxRequest`, `RxRepair`, `RxEndAck`, `TimeoutRepair`, `EndRetry`,
  `ResponderReturn`, `ResponderFail`.
* `Requester` - one call of `request_mode` per requester: `RxRegisterAck`,
  `RxResponse`, `RxEnd`, `SendRegister`, `SendRequests`, `Finish`, `FailRegister`,
  and `AckTombstonedEnd` on the receive thread afterwards.
* `Arbor` - the channel: the three components, `Lose` and `Duplicate`, and the
  properties. `AllReduce` - what one message promises to its callers.
* `MessageTables` - many messages of one channel: the tables, cursors and
  tombstones of `host.c` at one requester and at the responder. Actions
  `ScanRequests`, `Acquire`, `AcquireFails` (`acquire_request_message`, in the two
  steps that its missing lock leaves), `FinishRequest`, `FailRequest`, `RollBack`
  (the end of `request_mode`), `TakeId`, `TakeEpoch`, `NoEntries` (the critical
  sections of `respond_mode`), `RegisterMessage`, `FinishRespond`, `FailRespond`.
  What `Arbor` models in detail, the inside of a message, is here the order in
  which its two calls register, acknowledge END and return.
* `HostQueues` - the responder's receive and send queue under many messages:
  `Receive` (`host_rx_thread`), `RxRegister`, `RxEndAck`, `RxStale` (what
  `conn_pop_matching` hands to the loop), `FlushSendQueue`, `EndRetry`, `Return`,
  `Respond`; on the other side `Request`, `Beacon`, `RxControl` (with the tombstone
  answer of the receive thread), `Finish`. The packets of a message are one step,
  `Transfer`.
* `Pacing` - one call of `respond_mode` with a clock: `Issue`
  (`issue_ready_credits_round`), `TryEnterRepair` and `Fail` for each entry that
  timed out, `RxAggregate`, `RxRepair`, `RxRegister`, and `Tick`, after which the
  loop passes once. What `Arbor` chooses freely is computed here.
* `Fabric` - what a line of `tree.cfg` does to the tables, and the validation.
  `Forwarding` extends it: `Send` of a host and, per router, `MulticastControl`,
  `MulticastResponse`, `Bypass`, `Request`, each the whole of an `INC` iteration
  from `dev_pop` to `inject_on_port`. It justifies what `ArborNet` takes for
  granted: `NextHops`, `FaninPlan`, and that untouched frames reach their host. A
  file is a sequence of lines per router, as a line touches the tables of one router
  only, and the sequence of `req` lines. What frames need of files and cables, and
  the loader does not check, is stated in `WellMade` and assumed of the topologies
  (`TopologiesAssumption`); TLC evaluates it for the shipped ones. Its data is in
  the files but for `above`, which names the LEVEL routers over each router, and
  `reach`, the hosts a multicast is to reach from each port it passes.
* `RouterSound` - what the LEVEL routers keep true of slots and frames.
  `RouterOpen` - the routers alone against any traffic. `RouterLemmas`,
  `RouterProofs` - the proofs about them.
* `ArborInvariant` - the inductive invariant of the channel, in three parts.
  `ArborLemmas`, `ArborProofs` - the proofs about the channel: first those that hold
  however the network repeats frames, then those about sums and results and the
  refinement, then those about what credits carry and about the registered start.
  `PacingProofs`, `TablesProofs`, `QueuesProofs`, `ForwardingProofs` - the proofs about
  `Pacing`, `MessageTables`, `HostQueues`, and `Fabric` and `Forwarding`.
* `MCArbor`, `MCRouter`, `MCMessageTables`, `MCForwarding` - instances for TLC. The
  last holds the lines of `topology/star` and `topology/tree` and the links of
  their `setup.sh`.

The definitions whose comment says *Mutant* are not part of the models: each is a
plausible mistake in the definition below it, and the run that checks the property
it threatens fails when the definition is replaced by it.

Decisions worth knowing:

* `issue_ready_credits_round` runs after almost every handler but only sends when
  its clocks allow, and it is called again in every pass; it is therefore an
  action of its own. The clocks (gap, pacing, RTO) are nondeterministic choices.
  Short of repair tokens, `try_enter_repair` switches the entry to repair without
  a trigger; that outcome is the second disjunct of `TimeoutRepair`.
* The requester drains its credit queue in every pass, so the queue is a set and
  `SendRequests` empties it. Its capacity (4096) and the offset ring's 64 cells
  are not reached: a call has at most 64 entries.
* In `Arbor` the responder's send queue is a direct send; `HostQueues` has it with
  its capacity.
* AGG_MISS is delivered to the queue of the requester side (`host.c:467`), which
  `respond_mode` does not read; such frames stay in `net`. All runs therefore show
  what the protocol does without the AGG_MISS shortcut.
* Raw normal requests are not duplicated by `Duplicate`: `slot_accept` has no way
  to tell, and the sum would be wrong by design. Everything else may be doubled,
  and retries and repairs resend on their own.
* In `MessageTables` the END exchange is one step of the responder: END is repeated
  until the tombstone answers. The lookup hint is thread-local and survives calls,
  so the lookup properties quantify over every hint. With `Overlap` FALSE the
  allocations of two calls of one side do not run at the same time; their messages
  do. `pipelined` says how the application spaces its calls.
* In `HostQueues` nothing is lost on a link and frames of one subchannel stay in
  order, as on the test bed; the two subchannels race. Retries are not counted:
  what the code gives up after 64 attempts never succeeds in the model. What is on
  its way to a requester is one sequence, from which the thread of a subchannel takes
  its oldest frame, so that each link keeps its order and none waits for another. The head
  and tail of both rings are dropped because every removal closes the gap.
  `FirstEpoch > 0` is a channel whose earlier messages left nothing in the queue.
* In `Pacing` a unit of time is what passes between two loop passes in which
  something is due; which of the entries that timed out is tried first, and
  whether its trigger repeats a packet, is left open. Header bytes are neglected
  next to payloads. The order in which a round serves the subchannels is `turn`,
  which a round determines (`IssueRound`). Both callers of `commit_entry_response` forbid the sample, so
  `ApplyRateSample` is translated but never applied.
* In `Forwarding` the hosts answer what they hear as the protocol does, a slot is
  its count and contributors, and a link is instantaneous: the ring at its other
  end is the only buffer. `work.lost` names routers whose slot was taken over
  before the requests came.
* `FailRegister` is the pass that sends the last beacon of a subchannel: it may
  still send other beacons and answer an END. `Finish` may happen in a later pass,
  which the code would turn into a failure; the model allows more.

## 3. What the runs check

Unless said otherwise: two requesters, one router with one slot, one packet, one
subchannel, one repair and one END retry, and a network that delivers in any
order or never (a frame that is never taken is a lost one). Calls end, so
deadlock is not an error in the channel runs. Requesters under one router are
symmetric; the liveness runs use no symmetry.

| run | instance | properties |
|---|---|---|
| `subchannels` | two subchannels, epoch 5, no retries | `RegistrationGate` |
| `duplicates` | from the registered state, one duplicated frame | `ExactResult`, `DoubleCountOnlyInRepair` |
| `push` | from the registered state, push, two packets, two slots | `CarriedIsDelivered`, `OkMeansAllDone` |
| `tree` | whole call, pull, three requesters, two router levels, plan <<3,2>> and <<3>> | `TypeOK`, `AckedMeansComplete`, `ExactResult`, `ImplementsAllReduce` |
| `liveness` | two packets, one slot, two losses, budgets above the losses | `Termination` |
| `router` | `RouterOpen`: two levels, two slots, two packets, twelve kinds of frames, two in flight | `OpenTypeOK`, `SlotSound`, `OneOpenSlot`, `NetSound`, `SlotHistory` |
| `tables` | `MessageTables`: four messages of 1-3 packets, three ids, seven sequence numbers, two calls at a time, in a pipeline and in any order | `TablesTypeOK`, `NoStolenResponses`, `RequestsResolve`, `NoSlotLeaks`, `TombstoneKept`, `Paired`, `ResponsesResolve`, `OkMeansAnswered` |
| `queues` | `HostQueues`: one requester, two subchannels, four messages, three ids, receive queue of five, send queue of three | `QueuesTypeOK`, `ReturnMeansEnded`, `GateMeansPresent`, `EveryCallSucceeds` |
| `pacing` | `Pacing`: two subchannels, three packets, window 1, gap 2, RTO 4, a burst of two triggers, thirteen units of time | `PacingTypeOK`, `OutstandingExact`, `WindowRespected`, `CreditsSpaced`, `RepairWithinBudget`, `RepairServed` |
| `forwarding` | `Forwarding`: star and tree of four hosts and two subchannels, every exchange of every channel alone, some in pairs, lost slots, rings of two frames | `ForwardingTypeOK`, `MulticastOnce`, `UnicastArrives`, `UnwindsWherePushed`, `AggregateOrMiss`, `PortsServedInTurn`, `ExchangesEnd` |
| `push_hang` | push, one packet, one loss | `Termination` is violated |
| `lockout` | as `queues`, receive queue of two | `EveryCallSucceeds` is violated |

Bounds. Two requesters are the fewest for which aggregation, the bitmap and the
gate mean anything; one slot makes two packets of a window compete for it; two
packets are the fewest in which a result travels on another packet's credit; one
retry lets every timer fire early, late and twice. The *registered* start is the
state in which everybody is confirmed on every subchannel and nothing is in
flight, a reachable state; it saves the interleavings of the beacons in runs that
are not about them. The runs from it ask about packets, not about the gate.

In `tables` ids and sequence numbers wrap within the bounded number of calls. A
space that small makes ranges of one id recur sooner than 2^24 would, so the
lengths are chosen such that the epochs of two successive users of an id differ,
as they do in the code, where an id is used again after some 256 messages of at
most 64 packets. Pairing is stated for a pipeline: call c waits for the return of
call c - 2.

In `queues` every id is used before one is used again, each message can leave two
frames behind (an END_ACK and a repeated REGISTER of the slower subchannel), and
the queue of five is the smallest in which the frames of the two other ids leave
room for one of the current message; it does overflow. A send queue of three loses
an END behind the acknowledgements of repeated beacons, which only the END retry
brings back. In `pacing` three packets
on two subchannels are the fewest for which rounds, windows and the order of
repairs differ, and in thirteen units a packet can time out once more often than
it has retries. In `forwarding` rings of two
frames overflow when two channels meet in the star and do not when a channel is
alone. The files and links are the shipped ones, so nothing is scaled down but
the traffic; a repeated multicast line and a file without its last plan are added.

Fairness. `liveness` assumes weak fairness of the router, the responder and every
requester: their loops poll and never block (`usleep(200)` when idle). `Patient`
adds the timing the constants are chosen for: a deadline passes only when nothing
is in flight and no host has work (RTO 50 ms against a round trip of
microseconds), and the beacons of the requesters keep pace. With it and with more
retries than losses (64 in the code) a pull call ends in success on both sides.
`liveness` has as many entries as packets (`EntryCap = P`), the limit the code
has at `AGTR_ARRAY_SIZE`. `queues` assumes weak fairness of both loops and of each
receive thread, and deadlines longer than a round trip (`Quiet`); `forwarding`
weak fairness of every router's loop and of the hosts' sends.

Findings. `push_hang`: in push mode a packet that completes through repair skips
the code that sends END (`responder.c:1563-1578`), so a message whose last packet
was repaired never ends, on either side. `lockout`: END is acknowledged on every
subchannel, but one END_ACK of each requester ends the call; the other stays in the
receive queue until its id is used again, 256 messages later, and the queue holds
255 frames. It fills up before, and then every call on the channel fails.

Noticed while modelling, without a run of their own:

* The epoch of a message slot is 0 until its first REGISTER. An END_ACK that a
  message of epoch 0 left behind is accepted for the next user of its id, its bit
  stays in the local `end_ack_mask` (`responder.c:1357`) when the slot is started
  afresh, and `respond` returns before that requester has ended. `HostQueues` with
  `FirstEpoch = 0`, `Ids = 2`, `Calls = 3`, `RxCap = 3` violates `ReturnMeansEnded`.
* A repeated REGISTER that is overtaken by the END_ACKs takes the reclaimed message
  back (`responder.c:1373`, `host.c:364`), and `respond` returns success with the
  slot reserved for good. It takes a network that reorders.
* The requester frees an id on sending END_ACK, the responder on receiving it, and
  both skip taken ids; when ids wrap around to a message in between, the two sides
  number all later messages differently, against the comment at
  `responder.c:1153`. `Paired` without its condition `pipelined` shows it. The
  bundled workload runs one message per channel and does not meet it.
* README.md, 5.5 says that the first complete bitmap of the normal path is a
  sample of the congestion control. Both calls of `commit_entry_response` pass
  `allow_sample = 0` (`responder.c:1532`, `1609`): gap and window never change.
* A message of more packets than `AGTR_ARRAY_SIZE` never ends (`responder.c:640`):
  `liveness` with `EntryCap = 1` violates `Termination`.

With `Overlap` TRUE (two calls of one side allocate at the same time)
`NoStolenResponses` fails, because `acquire_request_message` has no lock and two
concurrent `request` calls can get one slot, against the comment at
`requester.c:307`; and `Paired` fails, because `respond_mode` takes id and epoch in
two critical sections.

## 4. What is proved

For every value of the constants that the assumptions allow: any number of
requesters, routers, slots, packets and subchannels, any tree.

**Routers** (`RouterProofs`, about `RouterOpen`, any set of well-formed frames that
the environment may inject). `OpenTypeCorrect`, `SlotsStaySound`,
`CreditHasOneSlot`, `FramesStayWellFormed` are the invariants of the `router` run,
`SlotsKeepHistory` its action property. Assumptions: `ArborNetAssumption` and
`SlotCountAssumption` on the constants, `TreeAssumption` (a router is at one level,
which the tree configuration guarantees) and `EnvAssumption` (injected frames are
well formed: stack and plan have one length, a payload belongs to the offset it
names). Nothing is assumed about counts, fan-ins, slot indices or shapes of
injected requests. The four invariants are inductive together (`RouterInv`) and
none of them alone: a slot stays pure because arriving requests are, requests are
pure because masters leave pure slots, a credit finds one slot because open slots
are unique. `PoppedSound`, `AcceptSound` and `MasterSound` carry the operators;
there is one lemma per action.

**Channel** (`ArborProofs`, about `Arbor`). No traffic is
assumed here: what the routers met in `RouterOpen` is what these hosts send
(`ChannelRoutersSound`). The invariant has three parts.

* `BasicInv` holds whatever the network repeats. From it: `ChannelTypeCorrect`
  (`TypeOK`), `GateHolds` (`RegistrationGate`), `SuccessMeansAllDone`
  (`OkMeansAllDone`). It needs `GateInv` (a bit in the bitmap is a requester that has
  asked), `EndMeansDone` (END, wherever it is, came after the last packet was done)
  and `CreditFirst` (nothing exists of a packet before its credit).
* `ExactInv` needs a network that repeats no raw request (`"REQUEST" \notin
  DupTypes`, true of every run: `slot_accept` has no identities, so a repeated
  request is a doubled sum by design). From it: `ResultsExact` (`ExactResult`),
  `AckedComplete` (`AckedMeansComplete`), `DoubleCountNeedsRepair`
  (`DoubleCountOnlyInRepair`) and the refinement of `AllReduce`, step by step
  (`ChannelImplementsAllReduce`).
* `DeliveryInv`, under the same hypothesis, follows what credits carry:
  `CarriedAreDelivered` (`CarriedIsDelivered`).

`RegisteredSafe` and `RegisteredResults` say the same of `RegisteredSpec`: the state
in which some runs start satisfies all three parts.

`ExactResult` is far from inductive. The aggregate that reaches the responder is
accepted for its *count*, so the count has to be the number of different requesters
in the sum, everywhere (`FramesOnce`, `SlotsOnce`), and stays so only when two sums
that may meet have no fragment in common (`FramesApart`, `FramesApartFromSlots`,
`SlotsApart`). New fragments enter through answered credits, so a requester that
still holds a credit has not answered that packet before (`CreditsPending`). All of
this stops being true when a packet switches to repair, as a trigger makes everybody
answer again; therefore every part is about `Unrepaired` packets only, `RepairMarked`
says that nobody is asked twice before the switch, and the code's refusal of
aggregates of entries in repair is what the proof uses at `RxRequest`. Repair itself
is exact because it counts identities (`RepairSum`). Results are then followed from
the responder through credits, the pending queue and the credits of other packets to
the requesters' buffers (`ResponsesExact`, `QueuedCommitted`, `StoredExact`), and from
there through END_ACK to the two returns (`AcksFromClosed`), which is all the
refinement needs.

`CarriedIsDelivered` needs one thing more. A packet is done when its aggregate counts
every requester, and then a requester that had missed the credit would never get the
result the credit carried; so the count has to name requesters. In a pull message it
does, by the fragments in the sum. In a push message the answers have no payload, and
nothing in the state says who is counted. `CountedInv` therefore says that there *is*
an assignment of sets of requesters to the frames and open slots (`Counted`): as many
as the count, all of whom have answered, and apart wherever two may meet. Each step
that moves or merges counts is shown to move the assignment along (`PassCounted`,
`AggregateCounted`, `AnswerCounted`), for both modes at once. `CarriedInv` adds that
who has taken, queued or answered a credit has what it carries, that a repair trigger
carries the same (the mutant of the property leaves that out), and `CreditsOnce` that
a credit is bound once: offsets are credited in order, also when a late REGISTER
starts the message again.

All three parts were checked by TLC as invariants before they were proved, the first
two on the instances of `push` and `tree`, the third also on those of `duplicates` and
`subchannels`.

**Pacing** (`PacingProofs`, about `Pacing`). All six invariants of the run:
`PacingTypeCorrect`, `OutstandingIsExact`, `WindowIsRespected`, `CreditsAreSpaced`,
`RepairIsBudgeted`, `RepairIsServed`. `PacingInv` adds that credits are given in the
order of offsets and that a pass scans only overdue packets (`CreditsInv`), that an
unanswered pull credit is accounted for and gap and window never change
(`WindowInv`), and that the channel's deadline is a gap behind every credit
(`SpacingInv`). `RepairServed`, a bounded wait, is proved as a safety property by an
amortised count (`ServedInv`): every pass tries every overdue packet, so one that
still waits met a bucket with less than a trigger in it; everything refilled since it
was due was therefore spent, on one trigger for each packet that overtook it. A packet
overtakes only once per timeout, as its own clock starts anew with the trigger. Hence
less than a trigger's worth per packet has been refilled, which bounds the wait.

The attempt to prove it corrected an assumption: with a burst of a single trigger the
property fails for constants at which one unit's refill overflows the bucket, because
what overflows is lost. `BudgetAssumption` therefore asks for a burst of a trigger and
a unit's refill (1 MiB in the code, against 625 bytes per microsecond and triggers of a
few KiB times the requesters), and for a timeout that refills a trigger for each
packet of a message (31 MB in 50 ms, against 64 packets).

**Message tables** (`TablesProofs`, about `MessageTables`, for tables and sequence
spaces of any size and messages of any length). The theorems come in layers, each
with the weakest hypothesis it needs.

* Unconditional, also when the allocations of a side overlap: `TablesTypeCorrect`,
  `SlotsAreReturned` (`NoSlotLeaks`) and `TombstonesAreKept` (`TombstoneKept`).
  `TablesInv` adds that a slot of the responder has one user, who finds it as it
  left it, and that a slot which cannot be taken has one.
* When allocations of a side do not overlap (`~Overlap`): `ResponsesAreNotStolen`
  (`NoStolenResponses`) and `RequestsAreFound` (`RequestsResolve`). `LookupInv` says
  that a scanned id stays free, that every holder has a slot of its own, and that the
  ranges of two holders have no number in common; the lookup then finds the owner
  from every hint. The unlocked scan of `acquire_request_message` is what the
  hypothesis excludes.
* For a pipeline no deeper than the table (`Depth <= MaxMessages`; the code's table
  has 256 slots): `SidesArePaired` (`Paired`). Neither side tells the other its id or
  epoch; each follows its own cursor. The proof shows that the id and the epoch of the
  n-th call of either side are determined by those of the call before it
  (`RequestOrder`, `ResponseOrder`): the slot under the cursor is always free, since
  its last user is `MaxMessages` calls behind, so no scan ever skips one. Two chains
  with one beginning are equal: a least call at which they differ cannot exist. (Well-
  foundedness of the naturals takes the place of induction, which the provers lack.)
* If moreover every message has at most `T` packets and `Depth * T` fits the sequence
  space (`Roomy(Depth, T)`; in the code `Depth` times 64 packets against 2^24):
  `ResponsesAreFound` (`ResponsesResolve`). The responder never compares ranges, so
  this rests on the chain: calls that are open at the same time are less than `Depth`
  apart, and `SpreadHolds` bounds the distance of their epochs from both sides.

`OkMeansAnswered` is not true for all constants: after a whole turn of the sequence
space and of the ids a tombstone meets a message with the same id and epoch, and would
answer its END. Two theorems say when that cannot be.

* `OkIsAnswered`, for a channel that has carried fewer packets than there are sequence
  numbers (`Brief`; in the code 2^24), in any order, with any overlap and failures.
  `RangesInv` says that the ranges given to calls stay apart and behind the cursor,
  which goes back only over a range that nobody keeps; `TombstonesInv`, that a
  tombstone is that of an answered call. A tombstone that answers a call has its epoch,
  so it is its own.
* `OkIsAnsweredInTurn`, for a pipeline that carries any number of packets. No respond
  call fails, and a turn of the table fits the sequence space
  (`Roomy(MaxMessages + 1, T)`; in the code 257 times 64 packets against 2^24). A call
  takes an id only after those that had it have returned (`IdsInTurn`), and a tombstone
  is that of the last answered call with its id (`LastTombstones`). The one that meets
  a call was thus left less than a turn of the table ago, and by `SpreadHolds` its
  epoch is a different one unless it is the call's own.

What neither covers is a channel used past 2^24 packets in another order, or in which
respond calls have failed; the code does nothing to exclude the confusion there. TLC
had found no error in either invariant, on instances in which the numbers come round,
before the proofs were begun.

**Queues** (`QueuesProofs`, about `HostQueues`, any number of requesters, subchannels,
ids and messages, rings of any capacity). `QueuesTypeCorrect`, `GateNeedsPresence`
(`GateMeansPresent`) and, where no message has epoch 0 (`FirstEpoch > 0`),
`ReturnNeedsEnd` (`ReturnMeansEnded`). `QueuesInv` says what a frame in flight or in
the receive queue tells of its sender: a beacon, that the message of its epoch has
begun there; an END_ACK, that it is over (`Uplink`). Frames keep that meaning because
the calls of a requester only go on (`Lasting`), and the filters compare epochs, so
what earlier users of an id left behind is recognised. The exception is the epoch of a
slot before its first registration, 0, which the END_ACK of a message with epoch 0
matches; without the hypothesis TLC finds the early return with `FirstEpoch` 0 (the
hazard at `responder.c:1352`).

**Forwarding** (`ForwardingProofs`, about `Fabric` and `Forwarding`, for any number of
routers, ports, levels and ranks, rings of any size and any exchanges).
`LoadedTablesAreSound` is about the loader alone: for every file it accepts, every
port of a route, tree or multicast entry is a device of the router, so that
`inject_on_port` never drops a frame for want of one; no port is listed twice, so no
multicast sends twice on a port; every requester has a plan. It holds of files that
fit the tables (`IsFile`); the code ignores what exceeds `ROUTER_MAX_PORTS`. The loader
is a fold over the lines, so the proof first unfolds it into the sequence of tables
after each line (`LoadFollowsLines`) and then takes a first line that breaks what is
claimed. From `ForwardingInv`, which holds of every behaviour: `ForwardingTypeCorrect`,
`TurnsAreServed` (`PortsServedInTurn`) and `RequestsUnwind` (`UnwindsWherePushed`).

* `TurnInv` adds to the count of a waiting port the number of devices that are before
  it in turn; the sum stays below the number of devices, since a port is passed over
  only by one that was before it and then is not any more (`NextInTurn`).
* `RingsInv` says of every frame in a ring what the port it waits at tells about its
  stack: a credit has pushed the routers above, a request has still to unwind this
  router and those above, or nothing. `UpGoes` and `DownGoes` carry it over a cable.
  It rests on `WellMade`, that the cables mirror the trees: what a router sends up
  comes in at a router below which it is, by another port than the one from the root,
  or, at the top, turns round. A cabling error of the kind `tree.cfg` and `setup.sh`
  could have between them falsifies the assumption, not the theorem.
* `TokenInv` proves what becomes of frames: `MulticastsReachOnce` (`MulticastOnce`) and
  `UnicastsReachResponder` (`UnicastArrives`), with any number of exchanges under way
  at once, aggregation and lost slots included. A frame stands for hosts (`Stands`): a
  multicast, for those that are to be reached from the port it waits at; a frame of a
  requester, for the requesters whose answer it is or, as an aggregate, whose
  contributions it has. `SingleInv`: at any time, every part of an exchange, that is a
  kind of frame and a host, is held by at most one frame in `todo`, a ring or `heard`,
  or by one slot. `BornInv`: a host answers only what it has heard. `KeptInv`: while no
  ring was full, no part gets lost, but for contributions. `WaysInv`: frames wait where
  the tables have a way for them. A step takes the first frame of a ring and adds
  copies; `PassOver` and `PassAside` follow every other frame to its new place, and
  `SpreadCopies` and `LeadCopies` say that the copies share out what the frame stood
  for. The rest of `WellMade` is about that: what a router multicasts from a port on
  the hosts of that port are behind, each behind one port out (`Spreads`); responders
  send in where all requesters are reached (`StartsAbove`); routers with a route for a
  channel pass on to one another or to the responder (`LeadsOn`), and requesters are at
  such routers (`StartsRouted`).
* `DataInv` proves what is summed: `AnswersAggregate` (`AggregateOrMiss`, for more than
  one rank: a lone rank has no requester to hear from). `SlotFits`: a slot counts the
  contributions it has, all of requesters below its router; of each level below it has
  all or nothing; and it is complete only when it has all of its own level, which is
  when it is forwarded. `RequestFits`: a request has all or nothing of each level,
  except of those on its stack, whose slots are bound for it and have none of its
  contributions, and the fan-ins it carries are the sizes of those levels; with an
  empty stack it has everyone; an AGG_MISS is there only if a slot was taken over. With
  `TokenInv`, a contribution is never in two places, so that counts add up
  (`JoinFacts`, `WholeLevelFits`); and `AnswersKept` says that no contribution gets
  lost while no ring was full. At the end none waits in a slot (`NoSlotWaits`): of the
  slots that still have something, the one with the fewest requesters below lacks one
  of them, who is in another slot; the levels being nested, that one is above the
  first, and then has all or nothing of it, or below, and then has fewer.
  What `WellMade` adds for this: levels are nested and the topmost has all requesters
  below it (`Nested`), the plan of a requester states for each level above it how many
  requesters are below (`PlannedFor`), is as deep as the stack of the credits the
  requester hears, and the routers on it are all it is below (`Delivers`). A fan-in of
  `tree.cfg` that miscounts a subtree falsifies `PlannedFor`.
* The loader checks nothing of `WellMade`; TLC evaluates it for the shipped files on
  every run of `forwarding`.

Attempting these proofs corrected the model in one place: two alternatives of
`McastPorts` were true at once for a router without a tree for the channel, and TLC
had been choosing the one the code takes.

Every invariant and action property that a run checks is proved; only model-checked
is the liveness (`Termination`, `EveryCallSucceeds`, `ExchangesEnd`), which with
fairness is beyond the prover, and the instances that show a disagreement of code and
comment.

## 5. What is not modelled

* MAX and MIN (the payload algebra is the sum), data types, the propagation of ECN
  marks, RTT averages, statistics and logging.
* `wire/`: bit packing and checksums of the header; frames are records. The
  arithmetic of sequence numbers is in `MessageTables`.
* Tokenising of the configuration files, addresses and ports
  (`app_config.c`, `load_ranks`), `seed_tree_specs` and
  `infer_tree_summary_from_routers`, whose results nothing in `protocol/` reads,
  and `arbor_plan_request_fanin_stack`, which has no caller.
* `router_flood_except`: no host sends to an address without a rank that is
  forwarded by destination. The eight-host `topology/tree3`, which has the shape
  of `tree` with one level more and does not fit the time of a run.
* File handling and threads of the workload (`allreduce_workload.c`, `main.c`), and
  the simulator under `reference/`, which is not built.

## 6. Plan

1. A common abstraction of `Router` and the slots of `Forwarding`, so that the
   router proofs carry over to the shipped files.
2. The conditions of `WellMade` from a description of trees alone, so that the files a
   generator writes for such a tree are known to satisfy them.
