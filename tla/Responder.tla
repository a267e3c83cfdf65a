----------------------------- MODULE Responder ------------------------------
(***************************************************************************)
(* The responder of a channel: one call of respond / respond_push          *)
(* (protocol/responder.c, respond_mode).  It opens the registration gate,  *)
(* paces credits, commits one result per packet, repairs what timed out    *)
(* and closes the message with the END handshake.  The call is one thread; *)
(* every action is one popped frame or one pass of a step of its loop.     *)
(***************************************************************************)
EXTENDS ArborNet

CONSTANTS
    CreditWindow,      \* FIXED_STARTUP_WINDOW
    EntryCap,          \* AGTR_ARRAY_SIZE, entries of one call
    RepairMaxRetries,  \* REPAIR_MAX_RETRIES
    EndMaxRetries      \* END_MAX_RETRIES

ASSUME ResponderAssumption ==
    /\ CreditWindow \in Nat \ {0}
    /\ EntryCap \in Nat \ {0}
    /\ RepairMaxRetries \in Nat
    /\ EndMaxRetries \in Nat

VARIABLES
    meta,       \* the protocol_message_t of the message at the responder
    entries,    \* entries[o]: the credit_entry_t of offset o
    pending,    \* pending_response_offsets, head first
    ending,     \* end_sent and end_retries
    responding  \* "run" while respond_mode loops, then "ok" or "failed"

responderVars == <<meta, entries, pending, ending, responding>>

FreshMeta ==
    [epoch |-> 0, sequence_reserved |-> FALSE, reuse_ready |-> FALSE,
     registered_bitmap |-> [s \in Subchannels |-> {}],
     registered_ready |-> {}, register_ack_pending |-> {},
     next_credit_offset |-> 0, end_ack_mask |-> {}]

FreshEntry ==
    [sub |-> NoOffset, credit_sent |-> FALSE, committed |-> FALSE, done |-> FALSE,
     repair_mode |-> FALSE, retry_count |-> 0, repair_bitmap |-> {},
     repair_accum |-> Zero, result |-> Zero,
     bound_payload |-> NoOffset, bound_by |-> NoOffset]

Meta ==
    [epoch : Nat, sequence_reserved : BOOLEAN, reuse_ready : BOOLEAN,
     registered_bitmap : [Subchannels -> SUBSET Requesters],
     registered_ready : SUBSET Subchannels, register_ack_pending : SUBSET Subchannels,
     next_credit_offset : 0 .. P, end_ack_mask : SUBSET Requesters]

Entry ==
    [sub : Subchannels \cup {NoOffset}, credit_sent : BOOLEAN, committed : BOOLEAN,
     done : BOOLEAN, repair_mode : BOOLEAN, retry_count : 0 .. RepairMaxRetries,
     repair_bitmap : SUBSET Requesters, repair_accum : Payloads, result : Payloads,
     bound_payload : OffsetOpt, bound_by : OffsetOpt]

ResponderTypeOK ==
    /\ meta \in Meta
    /\ entries \in [Offsets -> Entry]
    /\ pending \in Seq(Offsets)
    /\ ending \in [sent : BOOLEAN, retries : 0 .. EndMaxRetries]
    /\ responding \in {"run", "ok", "failed"}

ResponderInit ==
    /\ meta = FreshMeta
    /\ entries = [o \in Offsets |-> FreshEntry]
    /\ pending = <<>>
    /\ ending = [sent |-> FALSE, retries |-> 0]
    /\ responding = "run"

-----------------------------------------------------------------------------
(* Frames the responder sends.                                             *)

ToAll(frame(_)) == {frame(r) : r \in Requesters}

\* The committed result of o without a credit; rep marks a replay.
ResultFrames(o, rep) ==
    ToAll(LAMBDA r : Response(r, entries[o].sub, NoOffset, o, entries[o].result, rep, <<>>))

\* Mutant: the repair trigger does not repeat the carried payload.
TriggerFramesBare(o) ==
    ToAll(LAMBDA r : Response(r, entries[o].sub, o, NoOffset, Zero, TRUE, <<>>))

\* send_repair_trigger: asks every requester for o again and repeats the
\* payload that o's credit carried.
TriggerFrames(o) ==
    LET b == entries[o].bound_payload
    IN ToAll(LAMBDA r : Response(r, entries[o].sub, o, b,
                                 IF b = NoOffset THEN Zero ELSE entries[b].result,
                                 TRUE, <<>>))

\* send_end_all: END on every subchannel some requester registered on; the
\* epoch is known only where the registration gate is open.
EndFrames ==
    UNION {ToAll(LAMBDA r : End(r, s, IF s \in meta.registered_ready THEN Epoch ELSE 0)) :
             s \in {q \in Subchannels : meta.registered_bitmap[q] # {}}}

-----------------------------------------------------------------------------
(* Completion.                                                             *)

\* Mutant: a packet counts as finished when its result is.
AllCommitted(es) == \A o \in Offsets : es[o].committed

AllDone(es) == \A o \in Offsets : es[o].done

\* The tail of the request handlers: the completion that finishes the
\* message sends END once.
EndTail(es, frames) ==
    LET now == ~ending.sent /\ AllDone(es)
    IN /\ ending' = [ending EXCEPT !.sent = @ \/ now]
       /\ net' = frames \cup (IF now THEN EndFrames ELSE {})

\* commit_entry_response: the result is fixed, queued for a later credit to
\* carry, and the entry is done.
Commit(o, e, sum, frames) ==
    LET es == [entries EXCEPT ![o] =
                 [e EXCEPT !.committed = TRUE, !.done = TRUE,
                           !.result = Plus(Fragment(Responder, o), sum)]]
    IN /\ entries' = es
       /\ pending' = Append(pending, o)
       /\ EndTail(es, frames)

-----------------------------------------------------------------------------
(* Registration.                                                           *)

\* upsert_response_message.
Upserted ==
    [(IF meta.epoch # Epoch THEN FreshMeta ELSE meta) EXCEPT
        !.epoch = Epoch, !.sequence_reserved = TRUE, !.reuse_ready = FALSE]

RxRegister(f) ==
    LET m     == [Upserted EXCEPT !.registered_bitmap[f.sub] = @ \cup {f.src}]
        full  == {s \in Subchannels : m.registered_bitmap[s] = Requesters}
    IN /\ Arrives(f, Responder, "REGISTER")
       /\ meta' = IF f.sub \in full
                  THEN [m EXCEPT !.registered_ready = @ \cup {f.sub},
                                 !.register_ack_pending = @ \cup full]
                  ELSE m
       /\ net' = Taken(f)
       /\ UNCHANGED <<entries, pending, ending>>

FlushRegisterAcks ==
    LET subs == meta.register_ack_pending \cap meta.registered_ready
    IN /\ subs # {}
       /\ net' = net \cup {RegisterAck(r, s) : r \in Requesters, s \in subs}
       /\ meta' = [meta EXCEPT !.register_ack_pending = @ \ subs]
       /\ UNCHANGED <<entries, pending, ending>>

-----------------------------------------------------------------------------
(* Credits.                                                                *)

Inflight(s) ==
    {o \in Offsets : entries[o].credit_sent /\ entries[o].sub = s /\ ~entries[o].committed}

\* Mutant: credits leave on a subchannel whose gate is closed.
CanIssueUngated(s) ==
    /\ meta.sequence_reserved /\ ~meta.reuse_ready
    /\ Cardinality(Inflight(s)) < CreditWindow
    /\ meta.next_credit_offset < P
    /\ meta.next_credit_offset < EntryCap

\* issue_ready_credits_round gets through to maybe_issue_credits for s.
CanIssue(s) ==
    /\ meta.sequence_reserved /\ ~meta.reuse_ready
    /\ s \in meta.registered_ready
    /\ Cardinality(Inflight(s)) < CreditWindow
    /\ meta.next_credit_offset < P
    /\ meta.next_credit_offset < EntryCap

CreditFrames(s, o, payload, data) ==
    {Response(R, s, o, payload, data, FALSE, <<>>) : R \in Roots}

\* A pull credit carries the oldest result no other credit carries yet; a
\* pending result that is bound already is dropped from the queue.
IssuePullCredit(s, o, e) ==
    LET carried == pending # <<>> /\ entries[Head(pending)].bound_by = NoOffset
        b       == IF carried THEN Head(pending) ELSE NoOffset
        bound   == [e EXCEPT !.bound_payload = b]
    IN /\ pending' = IF pending = <<>> THEN <<>> ELSE Tail(pending)
       /\ entries' = [x \in Offsets |->
                        IF x = o THEN bound
                        ELSE IF x = b THEN [entries[x] EXCEPT !.bound_by = o]
                        ELSE entries[x]]
       /\ net' = net \cup CreditFrames(s, o, b, IF carried THEN entries[b].result ELSE Zero)

\* A push credit commits its own result and carries it.
IssuePushCredit(s, o, e) ==
    LET result == Fragment(Responder, o)
    IN /\ entries' = [entries EXCEPT ![o] =
                        [e EXCEPT !.committed = TRUE, !.result = result,
                                  !.bound_payload = o, !.bound_by = o]]
       /\ net' = net \cup CreditFrames(s, o, o, result)
       /\ UNCHANGED pending

IssueCredit(s) ==
    LET o == meta.next_credit_offset
        e == [entries[o] EXCEPT !.credit_sent = TRUE, !.sub = s]
    IN /\ CanIssue(s)
       /\ meta' = [meta EXCEPT !.next_credit_offset = @ + 1]
       /\ IF Pull THEN IssuePullCredit(s, o, e) ELSE IssuePushCredit(s, o, e)
       /\ UNCHANGED ending

\* flush_pending_responses: results no credit carries go out by themselves.
FlushPending ==
    /\ pending # <<>>
    /\ net' = net \cup UNION {ResultFrames(pending[i], FALSE) :
                 i \in {j \in DOMAIN pending : entries[pending[j]].bound_by = NoOffset}}
    /\ pending' = <<>>
    /\ UNCHANGED <<meta, entries, ending>>

-----------------------------------------------------------------------------
(* Requests.                                                               *)

N == Cardinality(Requesters)

\* The early returns of the request handler: no live message, a frame that
\* is not the aggregate of all requesters, or a late aggregate of an entry
\* that has switched to repair.
RequestDropped(f) ==
    \/ ~meta.sequence_reserved
    \/ N > 1 /\ ~f.aggregated
    \/ f.aggregated /\ f.count # N
    \/ f.aggregated /\ entries[f.off].repair_mode

RxRequest(f) ==
    LET o == f.off
        e == entries[o]
    IN /\ Arrives(f, Responder, "REQUEST")
       /\ \/ /\ RequestDropped(f)
             /\ net' = Taken(f)
             /\ UNCHANGED <<entries, pending, ending>>
          \/ \* an aggregated push acknowledgement completes the credit
             /\ ~RequestDropped(f) /\ ~Pull /\ f.aggregated
             /\ entries' = [entries EXCEPT ![o].done = TRUE]
             /\ EndTail(entries', Taken(f))
             /\ UNCHANGED pending
          \/ \* a duplicate of a committed packet is answered with a replay
             /\ ~RequestDropped(f) /\ (Pull \/ ~f.aggregated) /\ e.committed
             /\ net' = Taken(f) \cup ResultFrames(o, TRUE)
             /\ UNCHANGED <<entries, pending, ending>>
          \/ /\ ~RequestDropped(f) /\ Pull /\ ~e.committed
             /\ Commit(o, e, f.data, Taken(f))
       /\ UNCHANGED meta

\* Mutant: a repeated repair request is added again.
RepairedByAnew(e, f) ==
    [e EXCEPT !.repair_bitmap = @ \cup {f.src}, !.repair_accum = Plus(@, f.data)]

\* A repair request counts each requester once.
RepairedBy(e, f) ==
    IF f.src \in e.repair_bitmap THEN e
    ELSE [e EXCEPT !.repair_bitmap = @ \cup {f.src}, !.repair_accum = Plus(@, f.data)]

\* The one that completes the
\* bitmap commits the sum, or, when the entry had committed itself (push),
\* only completes it: that path leaves the loop body before the END tail.
RxRepair(f) ==
    LET o     == f.off
        e     == entries[o]
        r     == RepairedBy(e, f)
        full  == r.repair_bitmap = Requesters
    IN /\ Arrives(f, Responder, "REPAIR_REQUEST")
       /\ IF meta.sequence_reserved /\ full /\ ~e.committed
          THEN Commit(o, r, r.repair_accum, Taken(f))
          ELSE /\ entries' = IF meta.sequence_reserved
                             THEN [entries EXCEPT ![o] = [r EXCEPT !.done = @ \/ full]]
                             ELSE entries
               /\ net' = Taken(f)
               /\ UNCHANGED <<pending, ending>>
       /\ UNCHANGED meta

-----------------------------------------------------------------------------
(* Timeouts.                                                               *)

\* Mutant: one retry too many.
RetryLeftOneMore(o) == entries[o].retry_count <= RepairMaxRetries

RetryLeft(o) == entries[o].retry_count < RepairMaxRetries

\* maybe_timeout_repair on an entry past its RTO.  Entering repair mode
\* comes before the token check: short of tokens, no trigger leaves and the
\* retry is not counted.
TimeoutRepair(o) ==
    /\ entries[o].credit_sent /\ ~entries[o].done
    /\ RetryLeft(o)
    /\ \/ /\ entries' = [entries EXCEPT ![o].repair_mode = TRUE,
                                        ![o].retry_count = @ + 1]
          /\ net' = net \cup TriggerFrames(o)
       \/ /\ entries' = [entries EXCEPT ![o].repair_mode = TRUE]
          /\ UNCHANGED net
    /\ UNCHANGED <<meta, pending, ending>>

RepairExhausted(o) ==
    /\ entries[o].credit_sent /\ ~entries[o].done
    /\ ~RetryLeft(o)

\* Mutant: END is repeated without the results no credit carried.
EndRetryBare ==
    /\ ending.sent /\ meta.end_ack_mask # Requesters
    /\ ending.retries < EndMaxRetries
    /\ ending' = [ending EXCEPT !.retries = @ + 1]
    /\ net' = net \cup EndFrames
    /\ UNCHANGED <<meta, entries, pending>>

\* An END timeout replays the results no credit carried, then repeats END.
EndRetry ==
    /\ ending.sent /\ meta.end_ack_mask # Requesters
    /\ ending.retries < EndMaxRetries
    /\ ending' = [ending EXCEPT !.retries = @ + 1]
    /\ net' = net \cup EndFrames \cup
              UNION {ResultFrames(o, TRUE) :
                o \in {x \in Offsets : entries[x].committed /\ entries[x].bound_by = NoOffset}}
    /\ UNCHANGED <<meta, entries, pending>>

EndExhausted ==
    ending.sent /\ meta.end_ack_mask # Requesters /\ ending.retries = EndMaxRetries

\* respond_mode gives up (-1); the message slot stays as it is.
ResponderFail ==
    /\ EndExhausted \/ \E o \in Offsets : RepairExhausted(o)
    /\ responding' = "failed"
    /\ UNCHANGED <<net, meta, entries, pending, ending>>

-----------------------------------------------------------------------------
(* The END handshake and the end of the call.                              *)

RxEndAck(f) ==
    LET mask == meta.end_ack_mask \cup {f.src}
    IN /\ Arrives(f, Responder, "END_ACK")
       /\ meta' = IF f.epoch # meta.epoch THEN meta
                  ELSE IF mask = Requesters
                  THEN [meta EXCEPT !.end_ack_mask = mask,
                                    !.sequence_reserved = FALSE, !.reuse_ready = TRUE]
                  ELSE [meta EXCEPT !.end_ack_mask = mask]
       /\ net' = Taken(f)
       /\ UNCHANGED <<entries, pending, ending>>

\* Mutant: the call returns without waiting for the acknowledgements of END.
ResponderReturnEarly ==
    /\ AllDone(entries) /\ ending.sent
    /\ responding' = "ok"
    /\ UNCHANGED <<net, meta, entries, pending, ending>>

ResponderReturn ==
    /\ AllDone(entries) /\ meta.end_ack_mask = Requesters
    /\ responding' = "ok"
    /\ UNCHANGED <<net, meta, entries, pending, ending>>

-----------------------------------------------------------------------------
\* What the loop does on a frame or on its own state, and what it does only
\* when a deadline passes.
ResponderWork ==
    /\ responding = "run"
    /\ \/ /\ \/ \E f \in net : RxRegister(f) \/ RxRequest(f) \/ RxRepair(f) \/ RxEndAck(f)
             \/ \E s \in Subchannels : IssueCredit(s)
             \/ FlushPending
             \/ FlushRegisterAcks
          /\ UNCHANGED responding
       \/ ResponderReturn

ResponderTimer ==
    /\ responding = "run"
    /\ \/ /\ (\E o \in Offsets : TimeoutRepair(o)) \/ EndRetry
          /\ UNCHANGED responding
       \/ ResponderFail
=============================================================================
