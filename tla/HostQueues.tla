----------------------------- MODULE HostQueues -----------------------------
(***************************************************************************)
(* The queues of the responder under many messages of one channel: the     *)
(* receive queue, filled by its receive threads and emptied by message,    *)
(* and the send queue.  Registration and the END handshake are modelled    *)
(* frame by frame on every subchannel; the packets in between (module      *)
(* Arbor) are one step, Transfer.  Nothing is lost or reordered on a link: *)
(* each subchannel is an interface of its own with a receive thread of its *)
(* own, and only the two race each other.                                  *)
(*                                                                         *)
(* conn_pop_matching and flush_send_queue close the gaps they leave, and   *)
(* nothing else removes a frame, so the tail index of both rings stays     *)
(* where it starts: a ring of N cells is a sequence of at most N - 1.      *)
(***************************************************************************)
EXTENDS Integers, Sequences, FiniteSets, SequencesExt

CONSTANTS
    Requesters,      \* requesters of the channel
    Responder,       \* its responder
    Subchannels,     \* SUBCHANNEL_COUNT interfaces
    Ids,             \* MAX_ACTIVE_MESSAGES message ids, taken in turn
    FirstEpoch,      \* sequence number of the first message
    Calls,           \* bound: messages of the channel
    RxCap,           \* RXQ_SIZE - 1
    SendCap          \* RESPONDER_SENDQ_SIZE - 1

ASSUME HostQueuesAssumption ==
    /\ Responder \notin Requesters
    /\ IsFiniteSet(Subchannels)
    /\ {Ids, Calls, RxCap, SendCap} \subseteq Nat \ {0}
    /\ FirstEpoch \in Nat

Hosts == Requesters \cup {Responder}
MessageIds == 0 .. Ids - 1
NoEpoch == -1

\* The n-th message of the channel, one packet long.
IdOf(n) == (n - 1) % Ids
EpochOf(n) == FirstEpoch + n - 1

VARIABLES
    up,          \* frames on their way from a requester on a subchannel
    down,        \* frames on their way to a requester, of every subchannel
    rxq,         \* receive queue of the responder for this channel
    sendq,       \* g_responder_sendq
    responding,  \* the respond call: number, whether it runs, its locals
    meta,        \* message slot of each id at the responder
    requesting,  \* the request call of each requester
    tombstone    \* request_end_tombstone of each requester and id

vars == <<up, down, rxq, sendq, responding, meta, requesting, tombstone>>

Frame ==
    [type : {"REGISTER", "REGISTER_ACK", "END", "END_ACK"}, host : Hosts,
     sub : Subchannels, id : MessageIds, epoch : Nat]

FreshSlot == [epoch |-> 0, registered |-> [s \in Subchannels |-> {}], end_ack_mask |-> {}]

RespondCall(n) ==
    [n |-> n, run |-> TRUE, ready |-> {}, done |-> FALSE, end_ack_mask |-> {}]
RequestCall(n) ==
    [n |-> n, run |-> TRUE, confirmed |-> {}, complete |-> FALSE, end_subs |-> {}]

Init ==
    /\ up = [r \in Requesters |-> [s \in Subchannels |-> <<>>]]
    /\ down = [r \in Requesters |-> <<>>]
    /\ rxq = <<>>
    /\ sendq = <<>>
    /\ responding = RespondCall(1)
    /\ meta = [i \in MessageIds |-> FreshSlot]
    /\ requesting = [r \in Requesters |-> RequestCall(1)]
    /\ tombstone = [r \in Requesters |-> [i \in MessageIds |-> NoEpoch]]

-----------------------------------------------------------------------------
(* The receive threads.                                                    *)

\* Mutant: the limit of the ring is not tested.
QueuedAlways(q, f) == Append(q, f)

\* A frame that finds the queue full is lost.
Queued(q, f) == IF Len(q) < RxCap THEN Append(q, f) ELSE q

Receive(r, s) ==
    /\ up[r][s] # <<>>
    /\ rxq' = Queued(rxq, Head(up[r][s]))
    /\ up' = [up EXCEPT ![r][s] = Tail(up[r][s])]
    /\ UNCHANGED <<down, sendq, responding, meta, requesting, tombstone>>

-----------------------------------------------------------------------------
(* Popping by message.                                                     *)

OfMessage(i) == {k \in DOMAIN rxq : rxq[k].id = i}
First(places) == CHOOSE k \in places : \A j \in places : k <= j
Oldest(i) == First(OfMessage(i))

\* Mutant: only the frame at the head of the queue is looked at.
PopMatchingHead(i, f) ==
    /\ OfMessage(i) # {}
    /\ Oldest(i) = 1
    /\ f = rxq[1]
    /\ rxq' = Tail(rxq)

\* conn_pop_matching: f is the oldest frame of message i.
PopMatching(i, f) ==
    /\ OfMessage(i) # {}
    /\ f = rxq[Oldest(i)]
    /\ rxq' = RemoveAt(rxq, Oldest(i))

Frames == {rxq[k] : k \in DOMAIN rxq}

-----------------------------------------------------------------------------
(* The responder.                                                          *)

Id == IdOf(responding.n)

\* enqueue_send_frame for each frame; what does not fit is lost, and no
\* caller looks at the result.
Enqueued(q, frames) ==
    LET all == q \o frames
    IN SubSeq(all, 1, IF Len(all) < SendCap THEN Len(all) ELSE SendCap)

\* A multicast control frame is one entry of the queue.
Control(type, s, epoch) ==
    [type |-> type, host |-> Responder, sub |-> s, id |-> Id, epoch |-> epoch]

\* flush_send_queue: every frame is due as soon as it is queued.
Flushed == [r \in Requesters |-> down[r] \o sendq]

FlushSendQueue ==
    /\ responding.run
    /\ sendq # <<>>
    /\ down' = Flushed
    /\ sendq' = <<>>
    /\ UNCHANGED <<up, rxq, responding, meta, requesting, tombstone>>

\* Mutant: a registration of an earlier user of the id is taken.
RegisterAppliesAny(f) == f.type = "REGISTER"

RegisterApplies(f) == f.type = "REGISTER" /\ f.epoch = EpochOf(responding.n)

\* upsert_response_message: another epoch than the slot's starts it afresh.
Upserted(slot) ==
    IF slot.epoch = EpochOf(responding.n) THEN slot
    ELSE [FreshSlot EXCEPT !.epoch = EpochOf(responding.n)]

\* A beacon that completes the bitmap of its subchannel, or repeats one,
\* has every complete subchannel acknowledged.
RxRegister(f) ==
    LET slot  == Upserted(meta[Id])
        who   == slot.registered[f.sub] \cup {f.host}
        ready == IF who = Requesters THEN responding.ready \cup {f.sub} ELSE responding.ready
        acked == SetToSeq(IF who = Requesters THEN ready ELSE {})
    IN /\ PopMatching(Id, f)
       /\ RegisterApplies(f)
       /\ meta' = [meta EXCEPT ![Id] = [slot EXCEPT !.registered = [@ EXCEPT ![f.sub] = who]]]
       /\ responding' = [responding EXCEPT !.ready = ready]
       /\ sendq' = Enqueued(sendq, [k \in DOMAIN acked |->
                               Control("REGISTER_ACK", acked[k], EpochOf(responding.n))])
       /\ UNCHANGED <<up, down, requesting, tombstone>>

\* Mutant: the acknowledgement of another message with this id counts.
EndAckAppliesAny(f) == f.type = "END_ACK"

EndAckApplies(f) == f.type = "END_ACK" /\ f.epoch = meta[Id].epoch

\* The slot's mask is copied to the local that the loop waits for.
RxEndAck(f) ==
    LET mask == meta[Id].end_ack_mask \cup {f.host}
    IN /\ PopMatching(Id, f)
       /\ EndAckApplies(f)
       /\ meta' = [meta EXCEPT ![Id] = [meta[Id] EXCEPT !.end_ack_mask = mask]]
       /\ responding' = [responding EXCEPT !.end_ack_mask = mask]
       /\ UNCHANGED <<up, down, sendq, requesting, tombstone>>

\* Frames of an earlier user of the id are popped and dropped.
RxStale(f) ==
    /\ PopMatching(Id, f)
    /\ ~RegisterApplies(f) /\ ~EndAckApplies(f)
    /\ UNCHANGED <<up, down, sendq, responding, meta, requesting, tombstone>>

\* send_end_all: END on every subchannel somebody registered on, with the
\* epoch where the gate is open.
EndFrames ==
    LET subs == SetToSeq({s \in Subchannels : meta[Id].registered[s] # {}})
    IN [k \in DOMAIN subs |->
          Control("END", subs[k], IF subs[k] \in responding.ready
                                  THEN EpochOf(responding.n) ELSE 0)]

\* All packets of the message are exchanged.
Transfer ==
    /\ responding.run /\ responding.ready # {} /\ ~responding.done
    /\ \A r \in Requesters : requesting[r].run /\ requesting[r].n = responding.n
    /\ responding' = [responding EXCEPT !.done = TRUE]
    /\ requesting' = [r \in Requesters |-> [requesting[r] EXCEPT !.complete = TRUE]]
    /\ sendq' = Enqueued(sendq, EndFrames)
    /\ UNCHANGED <<up, down, rxq, meta, tombstone>>

\* Nothing is on its way: the deadlines are longer than a round trip.
Quiet ==
    /\ sendq = <<>>
    /\ \A r \in Requesters : down[r] = <<>> /\ \A s \in Subchannels : up[r][s] = <<>>
    /\ responding.run => OfMessage(Id) = {}
    /\ \A r \in Requesters :
         ~(requesting[r].run /\ requesting[r].complete /\ requesting[r].end_subs # {})

EndRetry ==
    /\ responding.run /\ responding.done
    /\ responding.end_ack_mask # Requesters
    /\ Quiet
    /\ sendq' = Enqueued(sendq, EndFrames)
    /\ UNCHANGED <<up, down, rxq, responding, meta, requesting, tombstone>>

\* The loop ends when it has popped what there was; the call flushes the
\* send queue and returns.
Return ==
    /\ responding.run /\ responding.done
    /\ responding.end_ack_mask = Requesters
    /\ OfMessage(Id) = {}
    /\ down' = Flushed
    /\ sendq' = <<>>
    /\ responding' = [responding EXCEPT !.run = FALSE]
    /\ UNCHANGED <<up, rxq, meta, requesting, tombstone>>

\* The next call takes the next id and clears its slot.
Respond ==
    /\ ~responding.run /\ responding.n < Calls
    /\ responding' = RespondCall(responding.n + 1)
    /\ meta' = [meta EXCEPT ![IdOf(responding.n + 1)] = FreshSlot]
    /\ UNCHANGED <<up, down, rxq, sendq, requesting, tombstone>>

-----------------------------------------------------------------------------
(* The requesters.                                                         *)

Registration(r, s) ==
    [type |-> "REGISTER", host |-> r, sub |-> s,
     id |-> IdOf(requesting[r].n), epoch |-> EpochOf(requesting[r].n)]

\* The frames that the receive thread of subchannel s has yet to see.
Arriving(r, s) == {k \in DOMAIN down[r] : down[r][k].sub = s}

\* The next call takes the next id and epoch.
Request(r) ==
    LET n == requesting[r].n + 1
    IN /\ ~requesting[r].run /\ n <= Calls
       /\ requesting' = [requesting EXCEPT ![r] = RequestCall(n)]
       /\ UNCHANGED <<up, down, rxq, sendq, responding, meta, tombstone>>

\* The first beacon of a call on a subchannel, and one that is repeated
\* because neither it nor its answer is under way; attempts are not counted.
Beacon(r, s) ==
    /\ requesting[r].run /\ s \notin requesting[r].confirmed
    /\ \A g \in Frames : g.sub = s => g.epoch # EpochOf(requesting[r].n)
    /\ up[r][s] = <<>> /\ Arriving(r, s) = {} /\ sendq = <<>>
    /\ up' = [up EXCEPT ![r][s] = <<Registration(r, s)>>]
    /\ UNCHANGED <<down, rxq, sendq, responding, meta, requesting, tombstone>>

EndAck(r, f) == [f EXCEPT !.type = "END_ACK", !.host = r]

Tombstoned(r, f) == f.type = "END" /\ tombstone[r][f.id] = f.epoch

\* END of a message that is over is answered by the receive thread.  For the
\* epoch of the call REGISTER_ACK confirms a subchannel and END asks for an
\* acknowledgement.  Any other frame is one of a message that is over.
RxControl(r, s) ==
    LET k    == First(Arriving(r, s))
        f    == down[r][k]
        call == requesting[r]
        mine == call.run /\ f.epoch = EpochOf(call.n)
    IN /\ Arriving(r, s) # {}
       /\ requesting' = [requesting EXCEPT ![r] = [call EXCEPT
            !.confirmed = IF f.type = "REGISTER_ACK" /\ mine THEN @ \cup {s} ELSE @,
            !.end_subs  = IF f.type = "END" /\ mine THEN @ \cup {s} ELSE @]]
       /\ up' = IF Tombstoned(r, f)
                THEN [up EXCEPT ![r][s] = Append(up[r][s], EndAck(r, f))] ELSE up
       /\ down' = [down EXCEPT ![r] = RemoveAt(down[r], k)]
       /\ UNCHANGED <<rxq, sendq, responding, meta, tombstone>>

\* With every result in place END is acknowledged where it was seen and the
\* call returns; the tombstone answers what comes later.
Finish(r) ==
    LET n == requesting[r].n
        ack(s) == [Registration(r, s) EXCEPT !.type = "END_ACK"]
    IN /\ requesting[r].run /\ requesting[r].complete
       /\ requesting[r].end_subs # {}
       /\ up' = [up EXCEPT ![r] = [s \in Subchannels |->
                   IF s \in requesting[r].end_subs THEN Append(up[r][s], ack(s)) ELSE up[r][s]]]
       /\ tombstone' = [tombstone EXCEPT ![r][IdOf(n)] = EpochOf(n)]
       /\ requesting' = [requesting EXCEPT ![r] = [requesting[r] EXCEPT !.run = FALSE]]
       /\ UNCHANGED <<down, rxq, sendq, responding, meta>>

-----------------------------------------------------------------------------
Pop == \E f \in Frames :
         responding.run /\ (RxRegister(f) \/ RxEndAck(f) \/ RxStale(f))

\* The steps of the respond and request loops and of the receive threads.
RespondStep == Pop \/ FlushSendQueue \/ Transfer \/ EndRetry \/ Return \/ Respond
RequestStep(r) ==
    \/ \E s \in Subchannels : Beacon(r, s)
    \/ \E s \in Subchannels : RxControl(r, s)
    \/ Finish(r) \/ Request(r)
Next ==
    \/ RespondStep
    \/ \E r \in Requesters : RequestStep(r)
    \/ \E r \in Requesters, s \in Subchannels : Receive(r, s)

Spec == Init /\ [][Next]_vars

\* Loops poll and never block, and each receive thread runs on its own.
FairSpec ==
    /\ Spec
    /\ WF_vars(RespondStep)
    /\ \A r \in Requesters : WF_vars(RequestStep(r))
    /\ \A r \in Requesters, s \in Subchannels : WF_vars(Receive(r, s))

-----------------------------------------------------------------------------
\* Type correctness: neither queue grows past its capacity, and only control
\* frames of the channel's messages are in them.
QueuesTypeOK ==
    /\ Len(rxq) <= RxCap /\ Frames \subseteq Frame
    /\ Len(sendq) <= SendCap
    /\ responding.n \in 1 .. Calls /\ responding.ready \subseteq Subchannels
    /\ \A r \in Requesters : requesting[r].n \in 1 .. Calls
    /\ tombstone \in [Requesters -> [MessageIds -> Nat \cup {NoEpoch}]]

\* Has requester r acknowledged END of message n and returned?
Over(r, n) == requesting[r].n > n \/ (requesting[r].n = n /\ ~requesting[r].run)

\* README.md, step 8 of the pull flow: respond returns only after every
\* requester has acknowledged END of this very message, whatever frames of
\* earlier users of the id are still in its queue.
ReturnMeansEnded ==
    ~responding.run => \A r \in Requesters : Over(r, responding.n)

\* The gate of a subchannel opens only when every requester has begun this
\* very message: a beacon that an earlier user of the id left in the receive
\* queue does not stand in for one that is still to come.
GateMeansPresent ==
    responding.ready # {} => \A r \in Requesters : requesting[r].n >= responding.n

\* Every call on both sides returns with success, however many frames of
\* finished messages the receive queue has collected.
EveryCallSucceeds ==
    <>(/\ responding.n = Calls /\ ~responding.run
       /\ \A r \in Requesters : Over(r, Calls))
=============================================================================
