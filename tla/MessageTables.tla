--------------------------- MODULE MessageTables ----------------------------
(***************************************************************************)
(* Successive and concurrent messages of one channel: how the host of a    *)
(* requester and the host of the responder give every call its message id  *)
(* and its range of sequence numbers, recognise frames by them and take    *)
(* them back (protocol/host.c, the ends of request_mode and respond_mode). *)
(* Call c of a side is its c-th; both c-th calls are one message of the    *)
(* application and have total[c] packets.  What happens inside a message   *)
(* is the subject of Arbor.                                                *)
(***************************************************************************)
EXTENDS Integers, FiniteSets

CONSTANTS
    MaxMessages,  \* MAX_ACTIVE_MESSAGES, the size of both tables
    SeqSpace,     \* ARBOR_SEQUENCE_MASK + 1
    MaxCalls,     \* calls of each side in a behaviour
    Totals,       \* sequences of MaxCalls packet counts the application uses
    Depth,        \* calls a side keeps going at the same time
    Orders,       \* the values of pipelined that are checked
    Overlap       \* TRUE: the allocations of two calls of a side may overlap

ASSUME TablesAssumption ==
    /\ MaxMessages \in Nat \ {0}
    /\ SeqSpace \in Nat \ {0}
    /\ MaxCalls \in Nat
    /\ Totals \subseteq [1 .. MaxCalls -> Nat \ {0}]
    /\ Depth \in Nat \ {0}
    /\ Orders \subseteq BOOLEAN
    /\ Overlap \in BOOLEAN

VARIABLES
    pipelined,      \* whether call c waits for the return of call c - Depth, or
                    \* for the return of any, the application's choice
    total,          \* [c]: the packets of the c-th message
    requests,       \* [id]: request_messages
    request_next,   \* request_next_message_id and request_next_sequence
    requesting,     \* [c]: where the call is; its message id and epoch
    tombstones,     \* [id]: the epoch of the last acknowledged END, or NoEpoch
    responses,      \* [id]: response_messages
    response_next,  \* response_next_message_id and response_next_sequence
    responding,     \* [c]: as requesting
    answered        \* respond calls whose END the requester acknowledged
                    \* on its own completion (a history: no action reads it)

appVars      == <<pipelined, total>>
requestVars  == <<requests, request_next, requesting>>
responseVars == <<responses, response_next, responding>>
vars == <<appVars, requestVars, tombstones, responseVars, answered>>

Ids     == 0 .. MaxMessages - 1
Seqs    == 0 .. SeqSpace - 1
Calls   == 1 .. MaxCalls
NoEpoch == -1

RequestCall  == [at : {"idle", "scanned", "run", "nobuf", "released", "ok", "failed"},
                 id : Ids, epoch : Seqs \cup {NoEpoch}]
ResponseCall == [at : {"idle", "id", "run", "registered", "ok", "failed"},
                 id : Ids, epoch : Seqs \cup {NoEpoch}]
RequestMessage  == [in_use : BOOLEAN, sequence_reserved : BOOLEAN,
                    start_sequence : Seqs, total_packets : Nat]
ResponseMessage == [in_use : BOOLEAN, sequence_reserved : BOOLEAN, reuse_ready : BOOLEAN,
                    start_sequence : Seqs, total_packets : Nat]
Cursor == [id : Ids, seq : Seqs]

\* Every table, cursor and call has the shape of its C structure.
TablesTypeOK ==
    /\ pipelined \in Orders
    /\ total \in Totals
    /\ requests \in [Ids -> RequestMessage]
    /\ responses \in [Ids -> ResponseMessage]
    /\ request_next \in Cursor /\ response_next \in Cursor
    /\ requesting \in [Calls -> RequestCall]
    /\ responding \in [Calls -> ResponseCall]
    /\ tombstones \in [Ids -> Seqs \cup {NoEpoch}]
    /\ answered \subseteq Calls

FreshRequest  == [in_use |-> FALSE, sequence_reserved |-> FALSE,
                  start_sequence |-> 0, total_packets |-> 0]
FreshResponse == [in_use |-> FALSE, sequence_reserved |-> FALSE, reuse_ready |-> FALSE,
                  start_sequence |-> 0, total_packets |-> 0]

Init ==
    /\ pipelined \in Orders
    /\ total \in Totals
    /\ requests = [id \in Ids |-> FreshRequest]
    /\ responses = [id \in Ids |-> FreshResponse]
    /\ request_next = [id |-> 0, seq |-> 0]
    /\ response_next = [id |-> 0, seq |-> 0]
    /\ requesting = [c \in Calls |-> [at |-> "idle", id |-> 0, epoch |-> NoEpoch]]
    /\ responding = [c \in Calls |-> [at |-> "idle", id |-> 0, epoch |-> NoEpoch]]
    /\ tombstones = [id \in Ids |-> NoEpoch]
    /\ answered = {}

-----------------------------------------------------------------------------
(* Sequence numbers (wire/arbor_wire.h) and the lookup by sequence number. *)

SeqAdd(base, delta) == (base + delta) % SeqSpace
SeqDistance(a, b)   == (a - b) % SeqSpace
SeqContains(start, length, s) == SeqDistance(s, start) < length
HalfSpace == (SeqSpace - 1) \div 2

RangesOverlap(s, n, t, m) == SeqContains(s, n, t) \/ SeqContains(t, m, s)

Holds(msg, s) ==
    /\ msg.in_use /\ msg.sequence_reserved
    /\ SeqContains(msg.start_sequence, msg.total_packets, s)

NoMessage == [id |-> -1, off |-> 0]

\* find_message_for_sequence: the thread's hint, the id after it, then the
\* lowest id.  The hint is left over from any earlier lookup of the thread.
FindMessage(table, hint, s) ==
    LET after == (hint + 1) % MaxMessages
        Hit(id) == [id |-> id, off |-> SeqDistance(s, table[id].start_sequence)]
    IN CASE Holds(table[hint], s)  -> Hit(hint)
         [] ~Holds(table[hint], s) /\ Holds(table[after], s) -> Hit(after)
         [] ~Holds(table[hint], s) /\ ~Holds(table[after], s) ->
              IF \A id \in Ids : ~Holds(table[id], s) THEN NoMessage
              ELSE Hit(CHOOSE id \in Ids : /\ Holds(table[id], s)
                                           /\ \A j \in 0 .. id - 1 : ~Holds(table[j], s))

\* The scans of both sides: the first candidate from the cursor on.
FirstFrom(start, free) ==
    CHOOSE id \in free : \A j \in free :
        (id - start) % MaxMessages <= (j - start) % MaxMessages

-----------------------------------------------------------------------------
(* The application: the calls of a side start in order, Depth at a time.   *)

Returned(call) == call.at \in {"ok", "failed", "nobuf"}

MayStart(calls, c) ==
    /\ calls[c].at = "idle"
    /\ \A b \in 1 .. c - 1 : calls[b].at # "idle"
    /\ IF pipelined
       THEN c > Depth => Returned(calls[c - Depth])
       ELSE Cardinality({b \in Calls : calls[b].at # "idle" /\ ~Returned(calls[b])}) < Depth

-----------------------------------------------------------------------------
(* The requester: acquire_request_message, without any lock.               *)

\* Mutant: the scan takes the slot at the cursor as it finds it.
FreeRequestsAny == Ids

FreeRequests == {id \in Ids : ~requests[id].in_use /\ ~requests[id].sequence_reserved}

\* The scan finds a slot (and call c has not written to it yet), or the call
\* returns -1.
ScanRequests(c) ==
    /\ MayStart(requesting, c)
    /\ Overlap \/ \A b \in Calls : requesting[b].at # "scanned"
    /\ requesting' = [requesting EXCEPT ![c] =
          IF FreeRequests = {} THEN [requesting[c] EXCEPT !.at = "failed"]
          ELSE [requesting[c] EXCEPT !.at = "scanned",
                                     !.id = FirstFrom(request_next.id, FreeRequests)]]
    /\ UNCHANGED <<appVars, requests, request_next, tombstones, responseVars, answered>>

\* Mutant: no check of the new range against the live ones.
ReservableUnchecked(id, n) == n <= HalfSpace

\* reserve_protocol_sequence: every other live message must be young enough
\* and clear of the new range.
Reservable(id, n) ==
    /\ n <= HalfSpace
    /\ \A j \in Ids \ {id} :
         LET live == requests[j]
         IN live.in_use /\ live.sequence_reserved =>
              /\ SeqDistance(request_next.seq, live.start_sequence) < HalfSpace
              /\ ~RangesOverlap(request_next.seq, n, live.start_sequence, live.total_packets)

Reserved(n) == [in_use |-> TRUE, sequence_reserved |-> TRUE,
                start_sequence |-> request_next.seq, total_packets |-> n]

\* Mutant: the tombstone is part of the message and is cleared with it.
AcquireClears(c) ==
    LET id == requesting[c].id
    IN /\ requesting[c].at = "scanned"
       /\ Reservable(id, total[c])
       /\ requests' = [requests EXCEPT ![id] = Reserved(total[c])]
       /\ request_next' = [id  |-> (id + 1) % MaxMessages,
                           seq |-> SeqAdd(request_next.seq, total[c])]
       /\ \E at \in {"run", "nobuf"} : requesting' =
            [requesting EXCEPT ![c] = [at |-> at, id |-> id, epoch |-> request_next.seq]]
       /\ tombstones' = [tombstones EXCEPT ![id] = NoEpoch]
       /\ UNCHANGED <<appVars, responseVars, answered>>

\* The rest of acquire_request_message, successful.  When one of the buffers
\* was not to be had, request_mode returns -1 right after it ("nobuf") and
\* keeps the message.
Acquire(c) ==
    LET id == requesting[c].id
    IN /\ requesting[c].at = "scanned"
       /\ Reservable(id, total[c])
       /\ requests' = [requests EXCEPT ![id] = Reserved(total[c])]
       /\ request_next' = [id  |-> (id + 1) % MaxMessages,
                           seq |-> SeqAdd(request_next.seq, total[c])]
       /\ \E at \in {"run", "nobuf"} : requesting' =
            [requesting EXCEPT ![c] = [at |-> at, id |-> id, epoch |-> request_next.seq]]
       /\ UNCHANGED <<appVars, tombstones, responseVars, answered>>

\* No range: the slot is wiped and request returns -1.
AcquireFails(c) ==
    /\ requesting[c].at = "scanned"
    /\ ~Reservable(requesting[c].id, total[c])
    /\ requests' = [requests EXCEPT ![requesting[c].id] = FreshRequest]
    /\ requesting' = [requesting EXCEPT ![c].at = "failed"]
    /\ UNCHANGED <<appVars, request_next, tombstones, responseVars, answered>>

-----------------------------------------------------------------------------
(* The end of a request: release_request_message, the tombstone of END and *)
(* rollback_protocol_sequence.                                             *)

\* Mutant: the release keeps the sequence range reserved.
ReleasedInPart(msg) == [msg EXCEPT !.in_use = FALSE]

\* start_sequence and total_packets stay in the slot.
Released(msg) == [msg EXCEPT !.in_use = FALSE, !.sequence_reserved = FALSE]

\* msg->epoch, read from the slot.
EpochOf(c) == requests[requesting[c].id].start_sequence

\* The END that call c of the requester acknowledges: one of a respond call
\* on its id and epoch that registered and is done with its packets.
Ended(c) == {d \in Calls : /\ responding[d].at = "registered"
                           /\ responding[d].id = requesting[c].id
                           /\ responding[d].epoch = EpochOf(c)}

AcknowledgeEnd(c) ==
    /\ Ended(c) # {}
    /\ tombstones' = [tombstones EXCEPT ![requesting[c].id] = EpochOf(c)]
    /\ answered' = answered \cup Ended(c)

FinishRequest(c) ==
    /\ requesting[c].at = "run"
    /\ AcknowledgeEnd(c)
    /\ requests' = [requests EXCEPT ![requesting[c].id] = Released(requests[requesting[c].id])]
    /\ requesting' = [requesting EXCEPT ![c].at = "ok"]
    /\ UNCHANGED <<appVars, request_next, responseVars>>

\* A fatal register failure or protocol violation; the last pass of the loop
\* may still acknowledge END.  The slot is given back first, then the range.
FailRequest(c) ==
    /\ requesting[c].at = "run"
    /\ AcknowledgeEnd(c) \/ UNCHANGED <<tombstones, answered>>
    /\ requests' = [requests EXCEPT ![requesting[c].id] = Released(requests[requesting[c].id])]
    /\ requesting' = [requesting EXCEPT ![c].at = "released"]
    /\ UNCHANGED <<appVars, request_next, responseVars>>

\* The range goes back only when it is the last one given out.  Its start is
\* read from the slot, which may belong to another call by now.
RollBack(c) ==
    LET start == EpochOf(c)
    IN /\ requesting[c].at = "released"
       /\ request_next' = IF request_next.seq = SeqAdd(start, total[c])
                          THEN [request_next EXCEPT !.seq = start] ELSE request_next
       /\ requesting' = [requesting EXCEPT ![c].at = "failed"]
       /\ UNCHANGED <<appVars, requests, tombstones, responseVars, answered>>

-----------------------------------------------------------------------------
(* The responder: respond_mode before and after its loop.                  *)

FreeResponses == {id \in Ids : ~responses[id].in_use \/ responses[id].reuse_ready}

\* Mutants: the cursor stays, so an id is taken again at once; it does not
\* wrap with its uint8_t.
ResponseCursorStays(id)  == response_next.id
ResponseCursorNoWrap(id) == id + 1

ResponseCursor(id) == (id + 1) % MaxMessages

\* The first critical section of responder_lock: the message id.
TakeId(c) ==
    LET id == FirstFrom(response_next.id, FreeResponses)
    IN /\ MayStart(responding, c)
       /\ Overlap \/ \A b \in Calls : responding[b].at # "id"
       /\ IF FreeResponses = {}
          THEN /\ responding' = [responding EXCEPT ![c].at = "failed"]
               /\ UNCHANGED <<responses, response_next>>
          ELSE /\ responding' = [responding EXCEPT ![c] =
                                   [responding[c] EXCEPT !.at = "id", !.id = id]]
               /\ responses' = [responses EXCEPT ![id] = [FreshResponse EXCEPT !.in_use = TRUE]]
               /\ response_next' = [response_next EXCEPT !.id = ResponseCursor(id)]
       /\ UNCHANGED <<appVars, requestVars, tombstones, answered>>

\* The second critical section: the epoch.
TakeEpoch(c) ==
    /\ responding[c].at = "id"
    /\ responding' = [responding EXCEPT ![c] =
                        [responding[c] EXCEPT !.at = "run", !.epoch = response_next.seq]]
    /\ response_next' = [response_next EXCEPT !.seq = SeqAdd(response_next.seq, total[c])]
    /\ UNCHANGED <<appVars, requestVars, tombstones, responses, answered>>

\* calloc of the entries fails: the slot is wiped, the range goes back when
\* it is the last one, and respond returns -1.
NoEntries(c) ==
    LET call == responding[c]
    IN /\ call.at = "run"
       /\ responses' =
            IF responses[call.id].in_use /\ ~responses[call.id].sequence_reserved
            THEN [responses EXCEPT ![call.id] = FreshResponse] ELSE responses
       /\ response_next' = IF response_next.seq = SeqAdd(call.epoch, total[c])
                           THEN [response_next EXCEPT !.seq = call.epoch] ELSE response_next
       /\ responding' = [responding EXCEPT ![c].at = "failed"]
       /\ UNCHANGED <<appVars, requestVars, tombstones, answered>>

\* A REGISTER that a request with this id sent, maybe long ago; one of
\* another epoch is dropped.
RegisterMessage(c) ==
    LET call == responding[c]
    IN /\ call.at = "run"
       /\ \E b \in Calls : /\ requesting[b].at # "nobuf"
                           /\ requesting[b].id = call.id
                           /\ requesting[b].epoch = call.epoch
       /\ responses' = [responses EXCEPT ![call.id] =
             [in_use |-> TRUE, sequence_reserved |-> TRUE, reuse_ready |-> FALSE,
              start_sequence |-> call.epoch, total_packets |-> total[c]]]
       /\ responding' = [responding EXCEPT ![c].at = "registered"]
       /\ UNCHANGED <<appVars, requestVars, tombstones, response_next, answered>>

\* Mutants: any tombstone of the id answers END; the acknowledged message
\* keeps its range.
TombstoneAnswersAny(call)    == tombstones[call.id] # NoEpoch
AcknowledgedInPart(msg)      == [msg EXCEPT !.reuse_ready = TRUE]

\* host_ack_tombstoned_end: whatever the requester's call is doing.
TombstoneAnswers(call) == tombstones[call.id] = call.epoch
Acknowledged(msg)      == [msg EXCEPT !.sequence_reserved = FALSE, !.reuse_ready = TRUE]

\* END, repeated until the requester's host answers it, and the return.
FinishRespond(c) ==
    /\ responding[c].at = "registered"
    /\ TombstoneAnswers(responding[c])
    /\ responses' = [responses EXCEPT ![responding[c].id] =
                        Acknowledged(responses[responding[c].id])]
    /\ responding' = [responding EXCEPT ![c].at = "ok"]
    /\ UNCHANGED <<appVars, requestVars, tombstones, response_next, answered>>

\* The retries of a repair or of END are used up: -1, the slot as it is.
FailRespond(c) ==
    /\ responding[c].at = "registered"
    /\ responding' = [responding EXCEPT ![c].at = "failed"]
    /\ UNCHANGED <<appVars, requestVars, tombstones, responses, response_next, answered>>

-----------------------------------------------------------------------------
Next ==
    \E c \in Calls :
        \/ ScanRequests(c) \/ Acquire(c) \/ AcquireFails(c)
        \/ FinishRequest(c) \/ FailRequest(c) \/ RollBack(c)
        \/ TakeId(c) \/ TakeEpoch(c) \/ NoEntries(c)
        \/ RegisterMessage(c) \/ FinishRespond(c) \/ FailRespond(c)

Spec == Init /\ [][Next]_vars

-----------------------------------------------------------------------------
(* Properties.                                                             *)

Running(c)      == requesting[c].at = "run"
HoldsMessage(c) == requesting[c].at \in {"run", "nobuf"}
NobodyFailed ==
    \A c \in Calls : /\ requesting[c].at \notin {"nobuf", "released", "failed"}
                     /\ responding[c].at # "failed"

\* conn_pop_matching hands a frame to the call with its message id, so two
\* request calls in progress on one channel never have the same id
\* (requester.c, the comment on the receive loop).
NoStolenResponses ==
    \A b, c \in Calls : b # c /\ Running(b) /\ Running(c) => requesting[b].id # requesting[c].id

\* find_request_message_for_sequence, whatever hint the thread has kept,
\* resolves every sequence number of a request in progress (or of one that
\* kept its message for want of memory) to the slot and the offset of that
\* request, and every other one to nothing: across wrap of ids and sequence
\* numbers, slots reused, failed and rolled back calls.
RequestsResolve ==
    \A hint \in Ids, s \in Seqs :
        LET owners == {c \in Calls : /\ HoldsMessage(c)
                                   /\ SeqContains(requesting[c].epoch, total[c], s)}
            found  == FindMessage(requests, hint, s)
        IN IF owners = {} THEN found = NoMessage
           ELSE \A c \in owners :
                  found = [id |-> requesting[c].id, off |-> SeqDistance(s, requesting[c].epoch)]

\* A slot of the requester is taken only for a call in progress, or for one
\* that found no memory: every way out of the loop of request_mode gives the
\* slot back (requester.c, release_request_message).
NoSlotLeaks ==
    \A id \in Ids : requests[id].in_use \/ requests[id].sequence_reserved =>
        \E c \in Calls : HoldsMessage(c) /\ requesting[c].id = id

\* With calls in a pipeline, and until a respond call fails, a request of a
\* registered message finds that message in the responder's table, although
\* nothing there compares a new range with the old ones (responder.c, the
\* lookup that drops a request of another message).
ResponsesResolve ==
    pipelined /\ (\A d \in Calls : responding[d].at # "failed") =>
        \A d \in Calls : responding[d].at = "registered" =>
            \A hint \in Ids, o \in 0 .. total[d] - 1 :
                FindMessage(responses, hint, SeqAdd(responding[d].epoch, o))
                    = [id |-> responding[d].id, off |-> o]

BothTaken(c) == requesting[c].epoch # NoEpoch /\ responding[c].epoch # NoEpoch

\* With calls in a pipeline, and until one fails, the c-th request and the
\* c-th respond of a channel have the same message id and epoch, although
\* each side reuses slots by a rule of its own (responder.c, the comment on
\* the allocation): REGISTER of the one is not dropped by the other.
Paired ==
    pipelined /\ NobodyFailed =>
        \A c \in Calls : BothTaken(c) =>
            /\ requesting[c].id = responding[c].id
            /\ requesting[c].epoch = responding[c].epoch

\* A respond call that still waits for the acknowledgement of an END the
\* requester has acknowledged finds the tombstone in place, even when the
\* requester has reused the id: no retry of END goes unanswered
\* (host.c, record_request_end_tombstone).
TombstoneKept ==
    \A d \in answered : responding[d].at = "registered" => TombstoneAnswers(responding[d])

\* respond returns success only after the requester has completed that very
\* message: the tombstone of an earlier message with the same id does not
\* answer for it (host.c, host_ack_tombstoned_end).
OkMeansAnswered ==
    \A d \in Calls : responding[d].at = "ok" => d \in answered
=============================================================================
