---------------------------- MODULE TablesProofs ----------------------------
(***************************************************************************)
(* Proofs about MessageTables for every size of the tables and of the      *)
(* sequence space, any number of calls of any length and any pipeline.     *)
(***************************************************************************)
EXTENDS MessageTables, FiniteSetTheorems, WellFoundedInduction, TLAPS

-----------------------------------------------------------------------------
(* Both tables.                                                            *)

\* The responder holds a slot from the choice of the id to the acknowledgement.
Using(d) == responding[d].at \in {"id", "run", "registered"}

\* A call has an epoch from its second critical section on.
EpochsTaken ==
    /\ \A d \in Calls : responding[d].at \in {"run", "registered", "ok"} => responding[d].epoch \in Seqs
    /\ \A c \in Calls : HoldsMessage(c) => requesting[c].epoch \in Seqs

\* A slot of the responder has one user, which sees it as it left it.
SlotsOfUsers ==
    /\ \A b, d \in Calls : Using(b) /\ Using(d) /\ responding[b].id = responding[d].id => b = d
    /\ \A d \in Calls : Using(d) =>
          LET msg == responses[responding[d].id]
          IN msg.in_use /\ ~msg.reuse_ready
    /\ \A d \in Calls : responding[d].at = "registered" =>
          responses[responding[d].id] =
             [in_use |-> TRUE, sequence_reserved |-> TRUE, reuse_ready |-> FALSE,
              start_sequence |-> responding[d].epoch, total_packets |-> total[d]]

\* A slot that cannot be taken has a user, or one that failed.
UsersOfSlots ==
    \A id \in Ids :
        /\ responses[id].in_use /\ ~responses[id].reuse_ready =>
              \E d \in Calls : (Using(d) \/ responding[d].at = "failed") /\ responding[d].id = id
        /\ responses[id].in_use /\ responses[id].sequence_reserved =>
              \E d \in Calls : responding[d].at \in {"registered", "failed"} /\ responding[d].id = id

AnsweredRegistered ==
    \A d \in answered : responding[d].at \in {"registered", "ok", "failed"}

TablesInv ==
    /\ TablesTypeOK /\ EpochsTaken /\ NoSlotLeaks
    /\ SlotsOfUsers /\ UsersOfSlots
    /\ AnsweredRegistered /\ TombstoneKept

-----------------------------------------------------------------------------
(* The requester's table, when allocations do not overlap.                 *)

Scanned(c) == requesting[c].at = "scanned"

ScansAlone ==
    /\ \A b, c \in Calls : Scanned(b) /\ Scanned(c) => b = c
    /\ \A c \in Calls : Scanned(c) => requesting[c].id \in FreeRequests

\* Every holder has a slot of its own with its range in it, and the ranges
\* have no number in common.
HoldersApart ==
    /\ \A c \in Calls : HoldsMessage(c) =>
          requests[requesting[c].id] =
             [in_use |-> TRUE, sequence_reserved |-> TRUE,
              start_sequence |-> requesting[c].epoch, total_packets |-> total[c]]
    /\ \A b, c \in Calls : b # c /\ HoldsMessage(b) /\ HoldsMessage(c) =>
          /\ requesting[b].id # requesting[c].id
          /\ ~RangesOverlap(requesting[b].epoch, total[b], requesting[c].epoch, total[c])

LookupInv == ScansAlone /\ HoldersApart

-----------------------------------------------------------------------------
(* The order of the calls of a side in a pipeline.                         *)

\* The id and the epoch that follow those of the call before.
IdAfter(calls, c)    == IF c = 1 THEN 0 ELSE (calls[c - 1].id + 1) % MaxMessages
EpochAfter(calls, c) == IF c = 1 THEN 0 ELSE SeqAdd(calls[c - 1].epoch, total[c - 1])

\* S is the first calls of a side, and nothing is skipped in it.
Prefix(S) == \A c \in S : 1 .. c \subseteq S
NextOf(S) == {c \in Calls \ S : 1 .. c - 1 \subseteq S}

IdChain(calls, S, cursor) ==
    /\ \A c \in S : calls[c].id = IdAfter(calls, c)
    /\ \A b, c \in S : b < c /\ c - b < MaxMessages =>
          calls[c].id = (calls[b].id + (c - b)) % MaxMessages
    /\ \A c \in NextOf(S) : cursor.id = IdAfter(calls, c)

EpochChain(calls, S, cursor) ==
    /\ \A c \in S : calls[c].epoch = EpochAfter(calls, c)
    /\ \A c \in NextOf(S) : cursor.seq = EpochAfter(calls, c)

\* A call of a pipeline has started after the return of the one Depth before.
Spaced(calls) ==
    pipelined => \A c \in Calls : calls[c].at # "idle" /\ c > Depth => Returned(calls[c - Depth])

StartedCalls(calls) == {c \in Calls : calls[c].at # "idle"}
Acquired == {c \in Calls : requesting[c].at \in {"run", "ok"}}
Timed    == {d \in Calls : responding[d].at \notin {"idle", "id"}}

RequestersFine  == \A c \in Calls : requesting[c].at \notin {"nobuf", "released", "failed"}
RespondersFine  == \A d \in Calls : responding[d].at # "failed"

RequestOrder ==
    /\ Spaced(requesting) /\ Prefix(StartedCalls(requesting))
    /\ \A c \in Calls : Scanned(c) => \A b \in Calls : b > c => requesting[b].at = "idle"
    /\ \A c \in Calls : requesting[c].at \in {"idle", "scanned"} => requesting[c].epoch = NoEpoch
    /\ pipelined /\ RequestersFine =>
         /\ IdChain(requesting, Acquired, request_next)
         /\ EpochChain(requesting, Acquired, request_next)
         /\ \A c \in Calls : Scanned(c) => requesting[c].id = request_next.id

ResponseOrder ==
    /\ Spaced(responding) /\ Prefix(StartedCalls(responding))
    /\ \A d \in Calls : responding[d].at = "id" =>
          \A b \in Calls : b > d => responding[b].at = "idle"
    /\ \A d \in Calls : responding[d].at \in {"idle", "id"} => responding[d].epoch = NoEpoch
    /\ pipelined /\ RespondersFine =>
         /\ IdChain(responding, StartedCalls(responding), response_next)
         /\ EpochChain(responding, Timed, response_next)

\* Of two calls less than W calls apart, the range of the earlier ends before
\* that of the later begins, and begins less than T numbers a call before it.
Spread(W, T) ==
    pipelined /\ RespondersFine =>
      \A b, d \in Timed : b < d /\ d - b < W =>
        LET ahead == SeqDistance(responding[d].epoch, responding[b].epoch)
        IN total[b] <= ahead /\ ahead <= (d - b) * T

-----------------------------------------------------------------------------
(* Arithmetic modulo the sizes of the table and of the sequence space.     *)

LEMMA Modulo ==
  ASSUME NEW m \in Nat \ {0}
  PROVE  /\ \A x \in Int : x % m \in 0 .. m - 1
         /\ \A x \in 0 .. m - 1 : x % m = x
         /\ \A x \in m .. 2 * m - 1 : x % m = x - m
         /\ \A x \in -m .. -1 : x % m = x + m
OBVIOUS

LEMMA Sizes ==
  /\ MaxMessages \in Nat \ {0} /\ SeqSpace \in Nat \ {0} /\ MaxCalls \in Nat
  /\ Depth \in Nat \ {0}
  /\ \A n \in Totals : \A c \in Calls : n[c] \in Nat \ {0}
BY TablesAssumption DEF Calls

LEMMA SeqModulo ==
  /\ \A x \in Int : x % SeqSpace \in 0 .. SeqSpace - 1
  /\ \A x \in 0 .. SeqSpace - 1 : x % SeqSpace = x
  /\ \A x \in SeqSpace .. 2 * SeqSpace - 1 : x % SeqSpace = x - SeqSpace
  /\ \A x \in -SeqSpace .. -1 : x % SeqSpace = x + SeqSpace
BY Sizes, Modulo

LEMMA IdModulo ==
  /\ \A x \in Int : x % MaxMessages \in 0 .. MaxMessages - 1
  /\ \A x \in 0 .. MaxMessages - 1 : x % MaxMessages = x
  /\ \A x \in MaxMessages .. 2 * MaxMessages - 1 : x % MaxMessages = x - MaxMessages
  /\ \A x \in -MaxMessages .. -1 : x % MaxMessages = x + MaxMessages
BY Sizes, Modulo

LEMMA AddType ==
  /\ \A s \in Seqs, n \in Nat : SeqAdd(s, n) \in Seqs
  /\ \A s, t \in Seqs : SeqDistance(s, t) \in Seqs
  /\ \A i \in Ids : (i + 1) % MaxMessages \in Ids
  /\ 0 \in Ids /\ 0 \in Seqs
BY Sizes, Modulo DEF SeqAdd, SeqDistance, Seqs, Ids

\* A range holds its first number, and two numbers at different distances in
\* one range are different.
LEMMA RangesMeet ==
  ASSUME NEW s \in Seqs, NEW n \in Nat, NEW t \in Seqs, NEW k \in Nat, NEW x \in Seqs,
         SeqContains(s, n, x), SeqContains(t, k, x)
  PROVE  RangesOverlap(s, n, t, k)
BY Sizes, Modulo DEF SeqContains, RangesOverlap, SeqDistance, Seqs

LEMMA RangeOffsets ==
  ASSUME NEW s \in Seqs, NEW o \in Nat, o < SeqSpace
  PROVE  SeqAdd(s, o) \in Seqs /\ SeqDistance(SeqAdd(s, o), s) = o
<1>1. s \in Nat /\ s < SeqSpace /\ SeqSpace \in Nat \ {0}
  BY Sizes DEF Seqs
<1>2. PICK x \in Nat : x = s + o
  BY <1>1
<1>3. PICK y \in Int : y = x % SeqSpace
  <2>1. x % SeqSpace \in Int
    BY <1>1, <1>2, SeqModulo
  <2> QED BY <2>1, Zenon
<1>4. PICK z \in Int : z = y - s
  <2>1. y - s \in Int
    BY <1>1, <1>3
  <2> QED BY <2>1, Zenon
<1>5. y = IF x < SeqSpace THEN x ELSE x - SeqSpace
  <2>1. CASE x < SeqSpace
    <3>1. x \in 0 .. SeqSpace - 1
      BY <1>1, <1>2, <2>1
    <3>2. x % SeqSpace = x
      BY <3>1, SeqModulo, Zenon
    <3> QED BY <1>3, <2>1, <3>2
  <2>2. CASE ~(x < SeqSpace)
    <3>1. x \in SeqSpace .. 2 * SeqSpace - 1
      BY <1>1, <1>2, <2>2
    <3>2. x % SeqSpace = x - SeqSpace
      BY <3>1, SeqModulo, Zenon
    <3> QED BY <1>3, <2>2, <3>2
  <2> QED BY <2>1, <2>2
<1>6. z % SeqSpace = o
  <2>1. CASE x < SeqSpace
    <3>1. z = o /\ z \in 0 .. SeqSpace - 1
      BY <1>1, <1>2, <1>4, <1>5, <2>1
    <3> QED BY <3>1, SeqModulo, Zenon
  <2>2. CASE ~(x < SeqSpace)
    <3>1. z \in -SeqSpace .. -1 /\ z + SeqSpace = o
      BY <1>1, <1>2, <1>4, <1>5, <2>2
    <3>2. z % SeqSpace = z + SeqSpace
      BY <3>1, SeqModulo, Zenon
    <3> QED BY <3>1, <3>2
  <2> QED BY <2>1, <2>2
<1>7. SeqAdd(s, o) = y /\ SeqDistance(y, s) = z % SeqSpace
  BY <1>2, <1>3, <1>4 DEF SeqAdd, SeqDistance
<1>8. y \in Seqs
  BY <1>1, <1>2, <1>5 DEF Seqs
<1> QED BY <1>6, <1>7, <1>8

\* Two ranges of which each begins behind the end of the other have no number
\* in common.
LEMMA RangesApart ==
  ASSUME NEW s \in Seqs, NEW n \in Nat, NEW t \in Seqs, NEW k \in Nat, NEW x \in Seqs,
         n <= SeqDistance(t, s), SeqDistance(t, s) + k <= SeqSpace,
         SeqContains(s, n, x), SeqContains(t, k, x)
  PROVE  FALSE
<1>1. s \in Nat /\ t \in Nat /\ x \in Nat /\ s < SeqSpace /\ t < SeqSpace /\ x < SeqSpace
      /\ SeqSpace \in Nat \ {0}
  BY Sizes DEF Seqs
<1>2. ASSUME NEW u \in Seqs, NEW v \in Seqs
      PROVE  SeqDistance(u, v) = IF u >= v THEN u - v ELSE (u - v) + SeqSpace
  <2>1. CASE u >= v
    <3>1. PICK z \in 0 .. SeqSpace - 1 : z = u - v
      BY <2>1, Sizes DEF Seqs
    <3> QED BY <2>1, <3>1, SeqModulo DEF SeqDistance
  <2>2. CASE ~(u >= v)
    <3>1. PICK z \in -SeqSpace .. -1 : z = u - v
      BY <2>2, Sizes DEF Seqs
    <3> QED BY <2>2, <3>1, SeqModulo, Sizes DEF SeqDistance
  <2> QED BY <2>1, <2>2
<1>0. /\ (IF t >= s THEN t - s ELSE (t - s) + SeqSpace) \in Int
      /\ (IF x >= s THEN x - s ELSE (x - s) + SeqSpace) \in Int
      /\ (IF x >= t THEN x - t ELSE (x - t) + SeqSpace) \in Int
  BY <1>1
<1>a. PICK a \in Int : a = (IF t >= s THEN t - s ELSE (t - s) + SeqSpace)
  BY <1>0, Zenon
<1>b. PICK b \in Int : b = (IF x >= s THEN x - s ELSE (x - s) + SeqSpace)
  BY <1>0, Zenon
<1>c. PICK c \in Int : c = (IF x >= t THEN x - t ELSE (x - t) + SeqSpace)
  BY <1>0, Zenon
<1>3. /\ a = (IF t >= s THEN t - s ELSE (t - s) + SeqSpace)
      /\ b = (IF x >= s THEN x - s ELSE (x - s) + SeqSpace)
      /\ c = (IF x >= t THEN x - t ELSE (x - t) + SeqSpace)
  BY <1>a, <1>b, <1>c
<1>4. n <= a /\ a + k <= SeqSpace /\ b < n /\ c < k
  BY <1>2, <1>3 DEF SeqContains
<1> QED BY <1>1, <1>3, <1>4

-----------------------------------------------------------------------------
(* Scans and lookups.                                                      *)

LEMMA LeastOf ==
  ASSUME NEW D, D \subseteq Nat, D # {}
  PROVE  \E d \in D : \A e \in D : d <= e
<1>1. PICK d \in D : \A e \in D : <<e, d>> \notin OpToRel(<, Nat)
  BY WFMin, NatLessThanWellFounded, Zenon
<1>2. \A x, y \in Nat : x < y => <<x, y>> \in OpToRel(<, Nat)
  <2>1. OpToRel(<, Nat) = {p \in Nat \X Nat : p[1] < p[2]}
    BY Zenon DEF OpToRel
  <2>2. \A x, y \in Nat : x < y => <<x, y>> \in {p \in Nat \X Nat : p[1] < p[2]}
    OBVIOUS
  <2> QED BY <2>1, <2>2, Zenon
<1>3. \A e \in D : ~(e < d)
  BY <1>1, <1>2, Zenon
<1> QED BY <1>3

LEMMA FirstIsFree ==
  ASSUME NEW start \in Ids, NEW free \in SUBSET Ids, free # {}
  PROVE  /\ FirstFrom(start, free) \in free
         /\ start \in free => FirstFrom(start, free) = start
<1> DEFINE Distance(j) == (j - start) % MaxMessages
           D           == {Distance(j) : j \in free}
<1>1. \A j \in Ids : Distance(j) \in Nat /\ (Distance(j) = 0 <=> j = start)
  BY Sizes, Modulo DEF Ids
<1>2. PICK d \in D : \A e \in D : d <= e
  <2>1. D \subseteq Nat /\ D # {}
    BY <1>1
  <2> HIDE DEF D
  <2> QED BY <2>1, LeastOf
<1>3. PICK id \in free : d = Distance(id)
  BY <1>2
<1>4. \A j \in free : Distance(id) <= Distance(j)
  BY <1>2, <1>3
<1>5. FirstFrom(start, free)
        = CHOOSE i \in free : \A j \in free : Distance(i) <= Distance(j)
  BY DEF FirstFrom
<1> HIDE DEF Distance
<1>6. /\ FirstFrom(start, free) \in free
      /\ \A j \in free : Distance(FirstFrom(start, free)) <= Distance(j)
  BY <1>4, <1>5, Zenon
<1>7. ASSUME start \in free PROVE FirstFrom(start, free) = start
  <2>1. Distance(FirstFrom(start, free)) <= Distance(start)
    BY <1>6, <1>7
  <2> QED BY <2>1, <1>1, <1>6
<1> QED BY <1>6, <1>7

\* When one message holds a number, every lookup of it finds that message.
LEMMA Found ==
  ASSUME NEW table, NEW hint \in Ids, NEW s, NEW id \in Ids,
         Holds(table[id], s), \A j \in Ids : Holds(table[j], s) => j = id
  PROVE  FindMessage(table, hint, s) = [id |-> id, off |-> SeqDistance(s, table[id].start_sequence)]
<1> DEFINE after  == (hint + 1) % MaxMessages
           Hit(i) == [id |-> i, off |-> SeqDistance(s, table[i].start_sequence)]
           first  == CHOOSE i \in Ids : /\ Holds(table[i], s)
                                        /\ \A j \in 0 .. i - 1 : ~Holds(table[j], s)
<1>1. after \in Ids
  BY AddType
<1>2. first = id
  <2>1. \A j \in 0 .. id - 1 : j \in Ids /\ j # id
    BY Sizes DEF Ids
  <2>2. \A j \in 0 .. id - 1 : ~Holds(table[j], s)
    BY <2>1
  <2>3. \A i \in Ids : Holds(table[i], s) <=> i = id
    BY Zenon
  <2> QED BY <2>2, <2>3, Zenon
<1>3. FindMessage(table, hint, s) =
        CASE Holds(table[hint], s)  -> Hit(hint)
          [] ~Holds(table[hint], s) /\ Holds(table[after], s) -> Hit(after)
          [] ~Holds(table[hint], s) /\ ~Holds(table[after], s) ->
               IF \A i \in Ids : ~Holds(table[i], s) THEN NoMessage ELSE Hit(first)
  BY Zenon DEF FindMessage
<1> HIDE DEF after, Hit, first
<1>4. FindMessage(table, hint, s) = Hit(id)
  BY <1>1, <1>2, <1>3
<1> QED BY <1>4 DEF Hit

LEMMA NotFound ==
  ASSUME NEW table, NEW hint \in Ids, NEW s, \A j \in Ids : ~Holds(table[j], s)
  PROVE  FindMessage(table, hint, s) = NoMessage
<1>1. (hint + 1) % MaxMessages \in Ids
  BY AddType
<1> QED BY <1>1 DEF FindMessage

-----------------------------------------------------------------------------
(* TablesInv, whatever the allocations do to each other.                   *)

LEMMA FreshTypes ==
  /\ FreshRequest \in RequestMessage /\ FreshResponse \in ResponseMessage
  /\ ~FreshRequest.in_use /\ ~FreshRequest.sequence_reserved
  /\ ~FreshResponse.in_use /\ ~FreshResponse.sequence_reserved
BY AddType DEF FreshRequest, FreshResponse, RequestMessage, ResponseMessage

LEMMA TablesInit == Init => TablesInv
<1> SUFFICES ASSUME Init PROVE TablesInv
  OBVIOUS
<1>1. TablesTypeOK
  BY AddType, FreshTypes DEF Init, TablesTypeOK, RequestCall, ResponseCall, Cursor, NoEpoch
<1>2. EpochsTaken /\ NoSlotLeaks
  BY FreshTypes DEF Init, EpochsTaken, NoSlotLeaks, HoldsMessage
<1>3. SlotsOfUsers /\ UsersOfSlots
  BY FreshTypes DEF Init, SlotsOfUsers, UsersOfSlots, Using
<1>4. AnsweredRegistered /\ TombstoneKept
  BY DEF Init, AnsweredRegistered, TombstoneKept
<1> QED BY <1>1, <1>2, <1>3, <1>4 DEF TablesInv

\* A step of the requester that answers no END leaves the responder's part alone.
LEMMA ResponderQuiet ==
  ASSUME TablesInv, UNCHANGED <<total, responses, responding, tombstones, answered>>
  PROVE  /\ SlotsOfUsers' /\ UsersOfSlots' /\ AnsweredRegistered' /\ TombstoneKept'
         /\ \A d \in Calls : responding'[d].at \in {"run", "registered", "ok"}
                               => responding'[d].epoch \in Seqs
<1> USE DEF TablesInv
<1>1. SlotsOfUsers' /\ UsersOfSlots'
  BY DEF SlotsOfUsers, UsersOfSlots, Using
<1>2. AnsweredRegistered' /\ TombstoneKept'
  BY DEF AnsweredRegistered, TombstoneKept, TombstoneAnswers
<1>3. \A d \in Calls : responding'[d].at \in {"run", "registered", "ok"}
                               => responding'[d].epoch \in Seqs
  BY DEF EpochsTaken
<1> QED BY <1>1, <1>2, <1>3

LEMMA ScanStep ==
  ASSUME TablesInv, NEW c \in Calls, ScanRequests(c)
  PROVE  TablesInv'
<1> USE DEF ScanRequests, appVars, responseVars
<1> DEFINE call == IF FreeRequests = {} THEN [requesting[c] EXCEPT !.at = "failed"]
                   ELSE [requesting[c] EXCEPT !.at = "scanned",
                                              !.id = FirstFrom(request_next.id, FreeRequests)]
<1>0. requesting' = [requesting EXCEPT ![c] = call]
  OBVIOUS
<1>a. call.at \in {"failed", "scanned"} /\ call \in RequestCall
  <2>1. requesting[c] \in RequestCall /\ request_next.id \in Ids
    BY DEF TablesInv, TablesTypeOK, Cursor
  <2>2. FreeRequests # {} => FirstFrom(request_next.id, FreeRequests) \in Ids
    BY <2>1, FirstIsFree DEF FreeRequests
  <2> QED BY <2>1, <2>2 DEF RequestCall
<1> HIDE DEF call
<1>1. TablesTypeOK'
  BY <1>0, <1>a DEF TablesInv, TablesTypeOK
<1>2. requesting[c].at = "idle" /\ requesting'[c] = call
      /\ \A b \in Calls : b # c => requesting'[b] = requesting[b]
  BY <1>0 DEF TablesInv, TablesTypeOK, MayStart
<1>3. \A b \in Calls : HoldsMessage(b)' <=> HoldsMessage(b)
  BY <1>a, <1>2 DEF HoldsMessage
<1>4. NoSlotLeaks' /\ \A b \in Calls : HoldsMessage(b)' => requesting'[b].epoch \in Seqs
  BY <1>2, <1>3 DEF TablesInv, NoSlotLeaks, EpochsTaken, HoldsMessage
<1> QED BY <1>1, <1>4, ResponderQuiet DEF TablesInv, EpochsTaken

LEMMA AcquireStep ==
  ASSUME TablesInv, NEW c \in Calls, Acquire(c)
  PROVE  TablesInv'
<1> USE DEF Acquire, appVars, responseVars
<1> DEFINE id == requesting[c].id
<1>1. /\ id \in Ids /\ request_next.seq \in Seqs /\ request_next \in Cursor
      /\ total[c] \in Nat \ {0} /\ requesting[c] \in RequestCall
  BY Sizes DEF TablesInv, TablesTypeOK, Cursor, RequestCall
<1>2. requests' = [requests EXCEPT ![id] = Reserved(total[c])]
  OBVIOUS
<1>3. Reserved(total[c]) \in RequestMessage
  BY <1>1 DEF Reserved, RequestMessage
<1>4. PICK call \in RequestCall :
        /\ requesting' = [requesting EXCEPT ![c] = call]
        /\ call.at \in {"run", "nobuf"} /\ call.id = id /\ call.epoch = request_next.seq
  <2>1. PICK at \in {"run", "nobuf"} : requesting' =
          [requesting EXCEPT ![c] = [at |-> at, id |-> id, epoch |-> request_next.seq]]
    OBVIOUS
  <2>2. [at |-> at, id |-> id, epoch |-> request_next.seq] \in RequestCall
    BY <1>1, <2>1 DEF RequestCall
  <2> WITNESS [at |-> at, id |-> id, epoch |-> request_next.seq] \in RequestCall
  <2> QED BY <2>1
<1>5. request_next' \in Cursor
  BY <1>1, AddType DEF Cursor
<1> HIDE DEF id
<1>6. TablesTypeOK'
  BY <1>1, <1>2, <1>3, <1>4, <1>5 DEF TablesInv, TablesTypeOK
<1>7. requesting'[c] = call /\ \A b \in Calls : b # c => requesting'[b] = requesting[b]
  BY <1>4 DEF TablesInv, TablesTypeOK
<1>8. HoldsMessage(c)' /\ requesting'[c].id = id
      /\ \A b \in Calls : HoldsMessage(b) => b # c
  BY <1>4, <1>7 DEF HoldsMessage
<1>9. NoSlotLeaks'
  BY <1>2, <1>7, <1>8 DEF TablesInv, TablesTypeOK, NoSlotLeaks, HoldsMessage
<1>10. \A b \in Calls : HoldsMessage(b)' => requesting'[b].epoch \in Seqs
  BY <1>1, <1>4, <1>7 DEF TablesInv, EpochsTaken, HoldsMessage
<1> QED BY <1>6, <1>9, <1>10, ResponderQuiet DEF TablesInv, EpochsTaken

LEMMA AcquireFailsStep ==
  ASSUME TablesInv, NEW c \in Calls, AcquireFails(c)
  PROVE  TablesInv'
<1> USE DEF AcquireFails, appVars, responseVars
<1>1. TablesTypeOK'
  BY FreshTypes DEF TablesInv, TablesTypeOK, RequestCall
<1>2. /\ requesting[c].at = "scanned" /\ requesting'[c].at = "failed"
      /\ \A b \in Calls : b # c => requesting'[b] = requesting[b]
  BY DEF TablesInv, TablesTypeOK
<1>3. \A b \in Calls : HoldsMessage(b)' <=> HoldsMessage(b)
  BY <1>2 DEF HoldsMessage
<1>4. NoSlotLeaks'
  <2> SUFFICES ASSUME NEW id \in Ids, (requests[id].in_use \/ requests[id].sequence_reserved)'
               PROVE  \E b \in Calls : (HoldsMessage(b) /\ requesting[b].id = id)'
    BY DEF NoSlotLeaks
  <2>1. id # requesting[c].id /\ requests'[id] = requests[id]
    BY FreshTypes DEF TablesInv, TablesTypeOK
  <2> QED BY <1>2, <1>3, <2>1 DEF TablesInv, NoSlotLeaks, HoldsMessage
<1>5. \A b \in Calls : HoldsMessage(b)' => requesting'[b].epoch \in Seqs
  BY <1>2, <1>3 DEF TablesInv, EpochsTaken, HoldsMessage
<1> QED BY <1>1, <1>4, <1>5, ResponderQuiet DEF TablesInv, EpochsTaken

\* A requester's acknowledgement of END answers the one respond call that has
\* the id, and leaves a tombstone for it.
LEMMA EndAnswered ==
  ASSUME TablesInv, NEW c \in Calls,
         AcknowledgeEnd(c) \/ UNCHANGED <<tombstones, answered>>,
         UNCHANGED <<total, responses, responding>>
  PROVE  /\ answered' \in SUBSET Calls /\ tombstones' \in [Ids -> Seqs \cup {NoEpoch}]
         /\ SlotsOfUsers' /\ UsersOfSlots' /\ AnsweredRegistered' /\ TombstoneKept'
         /\ \A d \in Calls : responding'[d].at \in {"run", "registered", "ok"}
                               => responding'[d].epoch \in Seqs
<1>1. CASE UNCHANGED <<tombstones, answered>>
  BY <1>1, ResponderQuiet DEF TablesInv, TablesTypeOK
<1>2. CASE AcknowledgeEnd(c)
  <2>1. SlotsOfUsers' /\ UsersOfSlots'
    BY DEF TablesInv, SlotsOfUsers, UsersOfSlots, Using
  <2>2. \A d \in Calls : responding'[d].at \in {"run", "registered", "ok"}
                               => responding'[d].epoch \in Seqs
    BY DEF TablesInv, EpochsTaken
  <2>3. requesting[c].id \in Ids /\ EpochOf(c) \in Seqs /\ Ended(c) \subseteq Calls
    BY DEF TablesInv, TablesTypeOK, RequestCall, EpochOf, RequestMessage, Ended
  <2>4. answered' \in SUBSET Calls /\ tombstones' \in [Ids -> Seqs \cup {NoEpoch}]
    BY <1>2, <2>3 DEF TablesInv, TablesTypeOK, AcknowledgeEnd
  <2>5. AnsweredRegistered'
    BY <1>2 DEF TablesInv, AnsweredRegistered, AcknowledgeEnd, Ended
  <2>6. PICK e \in Ended(c) : TRUE
    BY <1>2 DEF AcknowledgeEnd
  <2>7. \A d \in Calls : responding[d].at = "registered" /\ responding[d].id = requesting[c].id
                           => responding[d].epoch = EpochOf(c)
    BY <2>6 DEF TablesInv, SlotsOfUsers, Using, Ended
  <2>8. TombstoneKept'
    <3> SUFFICES ASSUME NEW d \in answered', responding[d].at = "registered"
                 PROVE  tombstones'[responding[d].id] = responding[d].epoch
      BY DEF TombstoneKept, TombstoneAnswers
    <3>1. d \in Calls /\ responding[d].id \in Ids
      BY <2>4 DEF TablesInv, TablesTypeOK, ResponseCall
    <3>2. CASE responding[d].id = requesting[c].id
      BY <1>2, <2>3, <2>7, <3>1, <3>2 DEF AcknowledgeEnd, TablesInv, TablesTypeOK
    <3>3. CASE responding[d].id # requesting[c].id
      <4>1. d \in answered
        BY <1>2, <3>3 DEF AcknowledgeEnd, Ended
      <4> QED BY <1>2, <3>1, <3>3, <4>1
              DEF AcknowledgeEnd, TablesInv, TablesTypeOK, TombstoneKept, TombstoneAnswers
    <3> QED BY <3>2, <3>3
  <2> QED BY <2>1, <2>2, <2>4, <2>5, <2>8
<1> QED BY <1>1, <1>2

LEMMA ReleaseStep ==
  ASSUME TablesInv, NEW c \in Calls, FinishRequest(c) \/ FailRequest(c)
  PROVE  TablesInv'
<1> DEFINE id == requesting[c].id
<1> USE DEF FinishRequest, FailRequest, appVars, responseVars
<1>1. /\ answered' \in SUBSET Calls /\ tombstones' \in [Ids -> Seqs \cup {NoEpoch}]
      /\ SlotsOfUsers' /\ UsersOfSlots' /\ AnsweredRegistered' /\ TombstoneKept'
      /\ \A d \in Calls : responding'[d].at \in {"run", "registered", "ok"}
                               => responding'[d].epoch \in Seqs
  BY EndAnswered
<1>2. PICK at \in {"ok", "released"} : requesting' = [requesting EXCEPT ![c].at = at]
  OBVIOUS
<1>3. requests' = [requests EXCEPT ![id] = Released(requests[id])]
  OBVIOUS
<1>4. id \in Ids /\ Released(requests[id]) \in RequestMessage
      /\ ~Released(requests[id]).in_use /\ ~Released(requests[id]).sequence_reserved
  <2>1. id \in Ids /\ requests[id] \in RequestMessage
    BY DEF TablesInv, TablesTypeOK, RequestCall
  <2>2. \A msg \in RequestMessage :
          Released(msg) \in RequestMessage /\ ~Released(msg).in_use /\ ~Released(msg).sequence_reserved
    BY DEF RequestMessage, Released
  <2> QED BY <2>1, <2>2
<1>5. UNCHANGED <<pipelined, total, request_next, responses, responding, response_next>>
  OBVIOUS
<1>6. TablesTypeOK'
  BY <1>1, <1>2, <1>3, <1>4, <1>5 DEF TablesInv, TablesTypeOK, RequestCall
<1>7. requesting'[c].at = at /\ \A b \in Calls : b # c => requesting'[b] = requesting[b]
  BY <1>2 DEF TablesInv, TablesTypeOK
<1>8. NoSlotLeaks'
  <2> SUFFICES ASSUME NEW i \in Ids, (requests[i].in_use \/ requests[i].sequence_reserved)'
               PROVE  \E b \in Calls : (HoldsMessage(b) /\ requesting[b].id = i)'
    BY DEF NoSlotLeaks
  <2>1. i # id /\ requests'[i] = requests[i]
    BY <1>3, <1>4 DEF TablesInv, TablesTypeOK
  <2> QED BY <1>7, <2>1 DEF TablesInv, NoSlotLeaks, HoldsMessage
<1>9. \A b \in Calls : HoldsMessage(b)' => requesting'[b].epoch \in Seqs
  BY <1>7 DEF TablesInv, EpochsTaken, HoldsMessage
<1> QED BY <1>1, <1>6, <1>8, <1>9 DEF TablesInv, EpochsTaken

LEMMA RollBackStep ==
  ASSUME TablesInv, NEW c \in Calls, RollBack(c)
  PROVE  TablesInv'
<1> USE DEF RollBack, appVars, responseVars
<1>1. EpochOf(c) \in Seqs
  BY DEF TablesInv, TablesTypeOK, RequestCall, EpochOf, RequestMessage
<1>2. request_next' \in Cursor
  BY <1>1 DEF TablesInv, TablesTypeOK, Cursor
<1>3. TablesTypeOK'
  BY <1>2 DEF TablesInv, TablesTypeOK, RequestCall
<1>4. /\ requesting[c].at = "released" /\ requesting'[c].at = "failed"
      /\ \A b \in Calls : b # c => requesting'[b] = requesting[b]
  BY DEF TablesInv, TablesTypeOK
<1>5. NoSlotLeaks' /\ \A b \in Calls : HoldsMessage(b)' => requesting'[b].epoch \in Seqs
  BY <1>4 DEF TablesInv, NoSlotLeaks, EpochsTaken, HoldsMessage
<1> QED BY <1>3, <1>5, ResponderQuiet DEF TablesInv, EpochsTaken

\* A step of the responder leaves the requester's part alone.
LEMMA RequesterQuiet ==
  ASSUME TablesInv, UNCHANGED <<requests, requesting>>
  PROVE  /\ NoSlotLeaks'
         /\ \A c \in Calls : HoldsMessage(c)' => requesting'[c].epoch \in Seqs
BY DEF TablesInv, NoSlotLeaks, EpochsTaken, HoldsMessage

LEMMA TakeIdStep ==
  ASSUME TablesInv, NEW c \in Calls, TakeId(c)
  PROVE  TablesInv'
<1> USE DEF appVars, requestVars
<1>1. responding[c].at = "idle" /\ UNCHANGED <<pipelined, total, requests, request_next, requesting, tombstones, answered>>
  BY DEF TakeId, MayStart
<1>2. CASE FreeResponses = {}
  <2>1. /\ responding' = [responding EXCEPT ![c].at = "failed"]
        /\ UNCHANGED <<responses, response_next>>
    BY <1>2 DEF TakeId
  <2>2. TablesTypeOK'
    BY <1>1, <2>1 DEF TablesInv, TablesTypeOK, ResponseCall
  <2>3. responding'[c].at = "failed" /\ \A b \in Calls : b # c => responding'[b] = responding[b]
    BY <2>1 DEF TablesInv, TablesTypeOK
  <2>4. \A b \in Calls : Using(b) => b # c
    BY <1>1 DEF Using
  <2>5. SlotsOfUsers'
    BY <1>1, <2>1, <2>3, <2>4 DEF TablesInv, SlotsOfUsers, Using
  <2>6. UsersOfSlots'
    BY <1>1, <2>1, <2>3, <2>4 DEF TablesInv, UsersOfSlots, Using
  <2>7. AnsweredRegistered' /\ TombstoneKept'
    BY <1>1, <2>3 DEF TablesInv, AnsweredRegistered, TombstoneKept, TombstoneAnswers, TablesTypeOK
  <2>8. EpochsTaken'
    BY <1>1, <2>3, RequesterQuiet DEF TablesInv, EpochsTaken
  <2> QED BY <1>1, <2>2, <2>5, <2>6, <2>7, <2>8, RequesterQuiet DEF TablesInv
<1>3. CASE FreeResponses # {}
  <2> DEFINE id   == FirstFrom(response_next.id, FreeResponses)
             call == [responding[c] EXCEPT !.at = "id", !.id = id]
             msg  == [FreshResponse EXCEPT !.in_use = TRUE]
  <2>1. /\ responding' = [responding EXCEPT ![c] = call]
        /\ responses' = [responses EXCEPT ![id] = msg]
        /\ response_next' = [response_next EXCEPT !.id = ResponseCursor(id)]
    BY <1>3 DEF TakeId
  <2>2. id \in FreeResponses /\ id \in Ids
    BY <1>3, FirstIsFree DEF FreeResponses, TablesInv, TablesTypeOK, Cursor
  <2>3. call \in ResponseCall /\ call.at = "id" /\ call.id = id
    BY <2>2 DEF TablesInv, TablesTypeOK, ResponseCall
  <2>4. msg \in ResponseMessage /\ msg.in_use /\ ~msg.reuse_ready /\ ~msg.sequence_reserved
    BY FreshTypes DEF ResponseMessage, FreshResponse
  <2>5. response_next' \in Cursor
    BY <2>1, <2>2, AddType DEF TablesInv, TablesTypeOK, Cursor, ResponseCursor
  <2> HIDE DEF id, call, msg
  <2>6. TablesTypeOK'
    BY <1>1, <2>1, <2>2, <2>3, <2>4, <2>5 DEF TablesInv, TablesTypeOK
  <2>7. /\ responding'[c] = call /\ \A b \in Calls : b # c => responding'[b] = responding[b]
        /\ responses'[id] = msg /\ \A i \in Ids : i # id => responses'[i] = responses[i]
    BY <2>1, <2>2 DEF TablesInv, TablesTypeOK
  <2>8. \A b \in Calls : Using(b) => b # c /\ responding[b].id # id
    BY <1>1, <2>2 DEF TablesInv, SlotsOfUsers, Using, FreeResponses
  <2>9. SlotsOfUsers'
    <3>1. \A b \in Calls : b # c => (Using(b)' <=> Using(b))
      BY <2>7 DEF Using
    <3>2. Using(c)' /\ responding'[c].id = id /\ responding'[c].at = "id"
      BY <2>3, <2>7 DEF Using
    <3>3. \A b \in Calls : b # c /\ Using(b) =>
            responding'[b] = responding[b] /\ responses'[responding[b].id] = responses[responding[b].id]
      BY <2>7, <2>8 DEF TablesInv, TablesTypeOK, ResponseCall
    <3>4. \A b \in Calls : responding[b].at = "registered" => Using(b)
      BY DEF Using
    <3> QED BY <1>1, <2>4, <2>7, <2>8, <3>1, <3>2, <3>3, <3>4 DEF TablesInv, SlotsOfUsers
  <2>10. UsersOfSlots'
    <3>1. \A b \in Calls : Using(b) \/ responding[b].at = "failed" => b # c
      BY <1>1 DEF Using
    <3>2. Using(c)' /\ responding'[c].id = id
      BY <2>3, <2>7 DEF Using
    <3> QED BY <2>4, <2>7, <3>1, <3>2 DEF TablesInv, UsersOfSlots, Using
  <2>11. AnsweredRegistered' /\ TombstoneKept'
    BY <1>1, <2>3, <2>7 DEF TablesInv, AnsweredRegistered, TombstoneKept, TombstoneAnswers, TablesTypeOK
  <2>12. EpochsTaken'
    BY <1>1, <2>3, <2>7, RequesterQuiet DEF TablesInv, EpochsTaken
  <2> QED BY <1>1, <2>6, <2>9, <2>10, <2>11, <2>12, RequesterQuiet DEF TablesInv
<1> QED BY <1>2, <1>3

LEMMA TakeEpochStep ==
  ASSUME TablesInv, NEW c \in Calls, TakeEpoch(c)
  PROVE  TablesInv'
<1> DEFINE call == [responding[c] EXCEPT !.at = "run", !.epoch = response_next.seq]
<1>1. /\ responding' = [responding EXCEPT ![c] = call] /\ responding[c].at = "id"
      /\ UNCHANGED <<pipelined, total, requests, request_next, requesting, tombstones, answered, responses>>
  BY DEF TakeEpoch, appVars, requestVars
<1>2. call \in ResponseCall /\ call.at = "run" /\ call.id = responding[c].id /\ call.epoch \in Seqs
  BY DEF TablesInv, TablesTypeOK, ResponseCall, Cursor
<1>3. response_next' \in Cursor
  BY Sizes, AddType DEF TakeEpoch, TablesInv, TablesTypeOK, Cursor
<1> HIDE DEF call
<1>4. TablesTypeOK'
  BY <1>1, <1>2, <1>3 DEF TablesInv, TablesTypeOK
<1>5. responding'[c] = call /\ \A b \in Calls : b # c => responding'[b] = responding[b]
  BY <1>1 DEF TablesInv, TablesTypeOK
<1>6. \A b \in Calls : (Using(b)' <=> Using(b)) /\ responding'[b].id = responding[b].id
  BY <1>1, <1>2, <1>5 DEF Using
<1>7. \A b \in Calls : responding'[b].at \in {"registered", "failed", "ok"} \/ responding[b].at \in {"registered", "failed", "ok"} => b # c
  BY <1>1, <1>2, <1>5
<1>8. SlotsOfUsers' /\ UsersOfSlots'
  BY <1>1, <1>5, <1>6, <1>7 DEF TablesInv, SlotsOfUsers, UsersOfSlots
<1>9. AnsweredRegistered' /\ TombstoneKept'
  BY <1>1, <1>5, <1>7 DEF TablesInv, TablesTypeOK, AnsweredRegistered, TombstoneKept, TombstoneAnswers
<1>10. EpochsTaken'
  BY <1>1, <1>2, <1>5, RequesterQuiet DEF TablesInv, EpochsTaken
<1> QED BY <1>1, <1>4, <1>8, <1>9, <1>10, RequesterQuiet DEF TablesInv

LEMMA NoEntriesStep ==
  ASSUME TablesInv, NEW c \in Calls, NoEntries(c)
  PROVE  TablesInv'
<1> DEFINE id == responding[c].id
<1>1. /\ responding' = [responding EXCEPT ![c].at = "failed"] /\ responding[c].at = "run"
      /\ UNCHANGED <<pipelined, total, requests, request_next, requesting, tombstones, answered>>
  BY DEF NoEntries, appVars, requestVars
<1>2. responses' = [responses EXCEPT ![id] = FreshResponse] \/ responses' = responses
  BY DEF NoEntries
<1>3. response_next' \in Cursor
  BY <1>1 DEF NoEntries, TablesInv, EpochsTaken, TablesTypeOK, Cursor
<1>4. id \in Ids /\ Using(c)
  BY <1>1 DEF TablesInv, TablesTypeOK, ResponseCall, Using
<1> HIDE DEF id
<1>5. TablesTypeOK'
  BY <1>1, <1>2, <1>3, <1>4, FreshTypes DEF TablesInv, TablesTypeOK, ResponseCall
<1>6. /\ responding'[c].at = "failed" /\ responding'[c].id = responding[c].id
      /\ \A b \in Calls : b # c => responding'[b] = responding[b]
  BY <1>1 DEF TablesInv, TablesTypeOK
<1>7. /\ \A i \in Ids : i # id => responses'[i] = responses[i]
      /\ responses'[id] = FreshResponse \/ responses'[id] = responses[id]
  BY <1>2, <1>4 DEF TablesInv, TablesTypeOK
<1>8. \A b \in Calls : Using(b)' <=> Using(b) /\ b # c
  BY <1>6 DEF Using
<1>9. \A b \in Calls : Using(b)' => responding[b].id # id /\ responding[b].id \in Ids
  BY <1>4, <1>8 DEF TablesInv, SlotsOfUsers, id, TablesTypeOK, ResponseCall
<1>10. SlotsOfUsers'
  <2>1. \A b \in Calls : responding[b].at = "registered" => Using(b) /\ b # c
    BY <1>1 DEF Using
  <2>2. \A b \in Calls : responding'[b].at = "registered" => Using(b)'
    BY DEF Using
  <2> QED BY <1>1, <1>6, <1>7, <1>8, <1>9, <2>1, <2>2 DEF TablesInv, SlotsOfUsers
<1>11. UsersOfSlots'
  <2>1. \A b \in Calls : Using(b) \/ responding[b].at = "failed" =>
          (Using(b)' \/ responding'[b].at = "failed") /\ responding'[b].id = responding[b].id
    BY <1>6, <1>8
  <2>2. \A b \in Calls : responding[b].at \in {"registered", "failed"} =>
          responding'[b].at \in {"registered", "failed"} /\ responding'[b].id = responding[b].id
    BY <1>6
  <2>3. \A i \in Ids : responses'[i] = responses[i] \/ ~responses'[i].in_use
    BY <1>7, FreshTypes
  <2> QED BY <2>1, <2>2, <2>3 DEF TablesInv, UsersOfSlots
<1>12. AnsweredRegistered' /\ TombstoneKept'
  BY <1>1, <1>6 DEF TablesInv, TablesTypeOK, AnsweredRegistered, TombstoneKept, TombstoneAnswers
<1>13. EpochsTaken'
  BY <1>1, <1>6, RequesterQuiet DEF TablesInv, EpochsTaken
<1> QED BY <1>1, <1>5, <1>10, <1>11, <1>12, <1>13, RequesterQuiet DEF TablesInv

LEMMA RegisterStep ==
  ASSUME TablesInv, NEW c \in Calls, RegisterMessage(c)
  PROVE  TablesInv'
<1> DEFINE id  == responding[c].id
           msg == [in_use |-> TRUE, sequence_reserved |-> TRUE, reuse_ready |-> FALSE,
                   start_sequence |-> responding[c].epoch, total_packets |-> total[c]]
<1>1. /\ responding' = [responding EXCEPT ![c].at = "registered"] /\ responding[c].at = "run"
      /\ responses' = [responses EXCEPT ![id] = msg]
      /\ UNCHANGED <<pipelined, total, requests, request_next, requesting, tombstones, answered, response_next>>
  BY DEF RegisterMessage, appVars, requestVars
<1>2. msg \in ResponseMessage
  BY <1>1, Sizes DEF TablesInv, EpochsTaken, TablesTypeOK, ResponseMessage
<1>3. id \in Ids /\ Using(c)
  BY <1>1 DEF TablesInv, TablesTypeOK, ResponseCall, Using
<1>4. msg.in_use /\ ~msg.reuse_ready
  OBVIOUS
<1>5. msg = [in_use |-> TRUE, sequence_reserved |-> TRUE, reuse_ready |-> FALSE,
             start_sequence |-> responding[c].epoch, total_packets |-> total[c]]
  OBVIOUS
<1> HIDE DEF id, msg
<1>6. TablesTypeOK'
  BY <1>1, <1>2, <1>3 DEF TablesInv, TablesTypeOK, ResponseCall
<1>7. /\ responding'[c].at = "registered" /\ responding'[c].id = responding[c].id
      /\ responding'[c].epoch = responding[c].epoch
      /\ \A b \in Calls : b # c => responding'[b] = responding[b]
  BY <1>1 DEF TablesInv, TablesTypeOK, ResponseCall
<1>8. responses'[id] = msg /\ \A i \in Ids : i # id => responses'[i] = responses[i]
  BY <1>1, <1>3 DEF TablesInv, TablesTypeOK
<1>9. \A b \in Calls : (Using(b)' <=> Using(b)) /\ responding'[b].id = responding[b].id
  BY <1>3, <1>7 DEF Using
<1>10. \A b \in Calls : Using(b) /\ b # c => responding[b].id # id /\ responding[b].id \in Ids
  BY <1>3 DEF TablesInv, SlotsOfUsers, id, TablesTypeOK, ResponseCall
<1>11. SlotsOfUsers'
  <2>1. \A b \in Calls : responding[b].at = "registered" => Using(b)
    BY DEF Using
  <2>2. responding'[c].id = id
    BY <1>7 DEF id
  <2>3. \A b \in Calls : Using(b)' => responses'[responding'[b].id].in_use /\ ~responses'[responding'[b].id].reuse_ready
    BY <1>4, <1>7, <1>8, <1>9, <1>10, <2>2 DEF TablesInv, SlotsOfUsers
  <2>4. \A b \in Calls : responding'[b].at = "registered" =>
          responses'[responding'[b].id] =
             [in_use |-> TRUE, sequence_reserved |-> TRUE, reuse_ready |-> FALSE,
              start_sequence |-> responding'[b].epoch, total_packets |-> total'[b]]
    <3> TAKE b \in Calls
    <3> HAVE responding'[b].at = "registered"
    <3>1. CASE b = c
      BY <1>1, <1>5, <1>7, <1>8, <2>2, <3>1
    <3>2. CASE b # c
      BY <1>1, <1>7, <1>8, <1>10, <2>1, <3>2 DEF TablesInv, SlotsOfUsers
    <3> QED BY <3>1, <3>2
  <2>5. \A b, d \in Calls : Using(b)' /\ Using(d)' /\ responding'[b].id = responding'[d].id => b = d
    BY <1>9 DEF TablesInv, SlotsOfUsers
  <2> QED BY <2>3, <2>4, <2>5 DEF SlotsOfUsers
<1>12. UsersOfSlots'
  <2>1. \A b \in Calls : Using(b) \/ responding[b].at = "failed" =>
          (Using(b)' \/ responding'[b].at = "failed") /\ responding'[b].id = responding[b].id
    BY <1>1, <1>7, <1>9
  <2>2. \A b \in Calls : responding[b].at \in {"registered", "failed"} =>
          responding'[b].at \in {"registered", "failed"} /\ responding'[b].id = responding[b].id
    BY <1>7
  <2>3. \A i \in Ids : responses'[i] = responses[i] \/ (i = id /\ responding'[c].id = i)
    BY <1>7, <1>8 DEF id
  <2>4. Using(c)' /\ responding'[c].at \in {"registered", "failed"}
    BY <1>3, <1>7, <1>9
  <2> QED BY <2>1, <2>2, <2>3, <2>4 DEF TablesInv, UsersOfSlots
<1>13. AnsweredRegistered' /\ TombstoneKept'
  <2>1. c \notin answered
    BY <1>1 DEF TablesInv, AnsweredRegistered
  <2> QED BY <1>1, <1>7, <2>1 DEF TablesInv, TablesTypeOK, AnsweredRegistered, TombstoneKept, TombstoneAnswers
<1>14. EpochsTaken'
  BY <1>1, <1>7, RequesterQuiet DEF TablesInv, EpochsTaken
<1> QED BY <1>1, <1>6, <1>11, <1>12, <1>13, <1>14, RequesterQuiet DEF TablesInv

LEMMA ReturnStep ==
  ASSUME TablesInv, NEW c \in Calls, FinishRespond(c) \/ FailRespond(c)
  PROVE  TablesInv'
<1> DEFINE id == responding[c].id
<1>1. PICK at \in {"ok", "failed"} :
        /\ responding' = [responding EXCEPT ![c].at = at]
        /\ \/ at = "ok" /\ responses' = [responses EXCEPT ![id] = Acknowledged(responses[id])]
           \/ at = "failed" /\ responses' = responses
  BY DEF FinishRespond, FailRespond
<1>2. /\ responding[c].at = "registered"
      /\ UNCHANGED <<pipelined, total, requests, request_next, requesting, tombstones, answered, response_next>>
  BY DEF FinishRespond, FailRespond, appVars, requestVars
<1>3. id \in Ids /\ Using(c) /\ responses[id] \in ResponseMessage
  BY <1>2 DEF TablesInv, TablesTypeOK, ResponseCall, Using
<1>4. \A msg \in ResponseMessage :
        Acknowledged(msg) \in ResponseMessage /\ Acknowledged(msg).reuse_ready
          /\ ~Acknowledged(msg).sequence_reserved
  BY DEF Acknowledged, ResponseMessage
<1> HIDE DEF id
<1>5. TablesTypeOK'
  BY <1>1, <1>2, <1>3, <1>4 DEF TablesInv, TablesTypeOK, ResponseCall
<1>6. /\ responding'[c].at = at /\ responding'[c].id = responding[c].id
      /\ \A b \in Calls : b # c => responding'[b] = responding[b]
  BY <1>1 DEF TablesInv, TablesTypeOK, ResponseCall
<1>7. /\ \A i \in Ids : i # id => responses'[i] = responses[i]
      /\ at = "ok" => responses'[id].reuse_ready /\ ~responses'[id].sequence_reserved
      /\ at = "failed" => responses'[id] = responses[id]
  BY <1>1, <1>3, <1>4 DEF TablesInv, TablesTypeOK
<1>8. \A b \in Calls : Using(b)' <=> Using(b) /\ b # c
  BY <1>1, <1>6 DEF Using
<1>9. \A b \in Calls : Using(b)' => responding[b].id # id /\ responding[b].id \in Ids
  BY <1>3, <1>8 DEF TablesInv, SlotsOfUsers, id, TablesTypeOK, ResponseCall
<1>10. SlotsOfUsers'
  <2>1. \A b \in Calls : responding'[b].at = "registered" => Using(b)'
    BY DEF Using
  <2> QED BY <1>2, <1>6, <1>7, <1>8, <1>9, <2>1 DEF TablesInv, SlotsOfUsers
<1>11. UsersOfSlots'
  <2>1. \A b \in Calls : (Using(b) \/ responding[b].at = "failed") /\ responding[b].id # id =>
          (Using(b)' \/ responding'[b].at = "failed") /\ responding'[b].id = responding[b].id
    BY <1>6, <1>8 DEF id
  <2>2. \A b \in Calls : responding[b].at \in {"registered", "failed"} /\ responding[b].id # id =>
          responding'[b].at \in {"registered", "failed"} /\ responding'[b].id = responding[b].id
    BY <1>6 DEF id
  <2>3. responding'[c].id = id /\ (at = "failed" => responding'[c].at = "failed")
    BY <1>6 DEF id
  <2>4. \A i \in Ids : i = id =>
          /\ responses'[i].in_use /\ ~responses'[i].reuse_ready => at = "failed"
          /\ responses'[i].in_use /\ responses'[i].sequence_reserved => at = "failed"
    BY <1>1, <1>7
  <2> QED BY <1>7, <2>1, <2>2, <2>3, <2>4 DEF TablesInv, UsersOfSlots
<1>12. AnsweredRegistered' /\ TombstoneKept'
  BY <1>1, <1>2, <1>6 DEF TablesInv, TablesTypeOK, AnsweredRegistered, TombstoneKept, TombstoneAnswers
<1>13. EpochsTaken'
  BY <1>1, <1>2, <1>6, RequesterQuiet DEF TablesInv, EpochsTaken
<1> QED BY <1>2, <1>5, <1>10, <1>11, <1>12, <1>13, RequesterQuiet DEF TablesInv

LEMMA TablesInductive == TablesInv /\ [Next]_vars => TablesInv'
<1> SUFFICES ASSUME TablesInv, [Next]_vars PROVE TablesInv'
  OBVIOUS
<1>1. CASE Next
  BY <1>1, ScanStep, AcquireStep, AcquireFailsStep, ReleaseStep, RollBackStep, TakeIdStep,
     TakeEpochStep, NoEntriesStep, RegisterStep, ReturnStep DEF Next
<1>2. CASE UNCHANGED vars
  <2>1. UNCHANGED <<pipelined, total, requests, request_next, requesting, tombstones,
                    responses, response_next, responding, answered>>
    BY <1>2 DEF vars, appVars, requestVars, responseVars
  <2>2. TablesTypeOK'
    BY <2>1 DEF TablesInv, TablesTypeOK
  <2> QED BY <2>1, <2>2, ResponderQuiet, RequesterQuiet DEF TablesInv, EpochsTaken
<1> QED BY <1>1, <1>2

LEMMA TablesInvariance == Spec => []TablesInv
BY TablesInit, TablesInductive, PTL DEF Spec

\* Every table, cursor and call keeps the shape of its C structure, however
\* the calls of a side interleave (protocol_message_t, host.c).
THEOREM TablesTypeCorrect == Spec => []TablesTypeOK
BY TablesInvariance, PTL DEF TablesInv

\* Every way out of request_mode gives the slot back, those through a failed
\* reservation and a rollback included (release_request_message).
THEOREM SlotsAreReturned == Spec => []NoSlotLeaks
BY TablesInvariance, PTL DEF TablesInv

\* The tombstone of an acknowledged END stays until the responder has its
\* answer: nobody else can end a message with that id before
\* (record_request_end_tombstone, host_ack_tombstoned_end).
THEOREM TombstonesAreKept == Spec => []TombstoneKept
BY TablesInvariance, PTL DEF TablesInv

-----------------------------------------------------------------------------
(* LookupInv, when the allocations of a side do not overlap.               *)

LEMMA OverlapSymmetric ==
  ASSUME NEW s, NEW n, NEW t, NEW k, ~RangesOverlap(s, n, t, k)
  PROVE  ~RangesOverlap(t, k, s, n)
BY DEF RangesOverlap

LEMMA HolderSlot ==
  ASSUME TablesInv, LookupInv, NEW c \in Calls, HoldsMessage(c)
  PROVE  /\ requesting[c].id \in Ids /\ requesting[c].epoch \in Seqs /\ total[c] \in Nat \ {0}
         /\ requests[requesting[c].id].in_use /\ requests[requesting[c].id].sequence_reserved
         /\ requests[requesting[c].id].start_sequence = requesting[c].epoch
         /\ requests[requesting[c].id].total_packets = total[c]
<1>1. requests[requesting[c].id] = [in_use |-> TRUE, sequence_reserved |-> TRUE,
         start_sequence |-> requesting[c].epoch, total_packets |-> total[c]]
  BY DEF LookupInv, HoldersApart
<1>2. requesting[c].id \in Ids /\ requesting[c].epoch \in Seqs /\ total[c] \in Nat \ {0}
  BY Sizes DEF TablesInv, TablesTypeOK, RequestCall, EpochsTaken
<1> QED BY <1>1, <1>2

LEMMA LookupInit == Init => LookupInv
BY DEF Init, LookupInv, ScansAlone, HoldersApart, Scanned, HoldsMessage

\* What a call does when it neither scans nor takes a message: it changes its
\* own slot, if any, and holds nothing afterwards.
LEMMA LeavingLookup ==
  ASSUME TablesInv, LookupInv, NEW c \in Calls, total' = total,
         Scanned(c) \/ HoldsMessage(c) \/ requests' = requests,
         \A id \in Ids : id # requesting[c].id => requests'[id] = requests[id],
         ~Scanned(c)', ~HoldsMessage(c)',
         \A b \in Calls : b # c => requesting'[b] = requesting[b]
  PROVE  LookupInv'
<1>1. \A b \in Calls : Scanned(b)' \/ HoldsMessage(b)' =>
        /\ b # c /\ requesting'[b] = requesting[b] /\ requesting[b].id \in Ids
        /\ Scanned(b)' => Scanned(b)
        /\ HoldsMessage(b)' => HoldsMessage(b)
  BY DEF Scanned, HoldsMessage, TablesInv, TablesTypeOK, RequestCall
<1>2. \A b \in Calls : HoldsMessage(b)' => requests'[requesting[b].id] = requests[requesting[b].id]
  <2> SUFFICES ASSUME NEW b \in Calls, HoldsMessage(b)', requests' # requests
               PROVE  requesting[b].id # requesting[c].id
    BY <1>1
  <2>1. HoldsMessage(b) /\ b # c
    BY <1>1
  <2>2. CASE HoldsMessage(c)
    BY <2>1, <2>2 DEF LookupInv, HoldersApart
  <2>3. CASE Scanned(c)
    BY <2>1, <2>3, HolderSlot DEF LookupInv, ScansAlone, FreeRequests
  <2> QED BY <2>2, <2>3
<1>3. \A b \in Calls : Scanned(b)' => requests'[requesting[b].id] = requests[requesting[b].id]
  <2> SUFFICES ASSUME NEW b \in Calls, Scanned(b)', requests' # requests
               PROVE  requesting[b].id # requesting[c].id
    BY <1>1
  <2>1. Scanned(b) /\ b # c
    BY <1>1
  <2>2. HoldsMessage(c)
    BY <2>1 DEF LookupInv, ScansAlone
  <2> QED BY <2>1, <2>2, HolderSlot DEF LookupInv, ScansAlone, FreeRequests
<1>4. ScansAlone'
  BY <1>1, <1>3 DEF LookupInv, ScansAlone, FreeRequests
<1>5. HoldersApart'
  BY <1>1, <1>2 DEF LookupInv, HoldersApart
<1> QED BY <1>4, <1>5 DEF LookupInv

LEMMA ScanLookup ==
  ASSUME ~Overlap, TablesInv, LookupInv, NEW c \in Calls, ScanRequests(c)
  PROVE  LookupInv'
<1>1. /\ requesting[c].at = "idle" /\ requests' = requests /\ total' = total
      /\ \A b \in Calls : ~Scanned(b)
  BY DEF ScanRequests, MayStart, appVars, Scanned
<1>2. \A b \in Calls : b # c => requesting'[b] = requesting[b]
  BY DEF ScanRequests, TablesInv, TablesTypeOK
<1>3. CASE FreeRequests = {}
  <2>1. requesting'[c].at = "failed"
    BY <1>3 DEF ScanRequests, TablesInv, TablesTypeOK, RequestCall
  <2> QED BY <1>1, <1>2, <2>1, LeavingLookup DEF Scanned, HoldsMessage
<1>4. CASE FreeRequests # {}
  <2>1. FirstFrom(request_next.id, FreeRequests) \in FreeRequests
    BY <1>4, FirstIsFree DEF FreeRequests, TablesInv, TablesTypeOK, Cursor
  <2>2. requesting'[c].at = "scanned" /\ requesting'[c].id \in FreeRequests
    BY <1>4, <2>1 DEF ScanRequests, TablesInv, TablesTypeOK, RequestCall
  <2>3. ScansAlone'
    BY <1>1, <1>2, <2>2 DEF ScansAlone, Scanned, FreeRequests
  <2>4. HoldersApart'
    BY <1>1, <1>2, <2>2 DEF LookupInv, HoldersApart, HoldsMessage
  <2> QED BY <2>3, <2>4 DEF LookupInv
<1> QED BY <1>3, <1>4

LEMMA AcquireLookup ==
  ASSUME TablesInv, LookupInv, NEW c \in Calls, Acquire(c)
  PROVE  LookupInv'
<1> DEFINE id == requesting[c].id
<1>1. /\ Scanned(c) /\ id \in Ids /\ id \in FreeRequests /\ total' = total
      /\ request_next.seq \in Seqs
  BY DEF Acquire, appVars, Scanned, LookupInv, ScansAlone, TablesInv, TablesTypeOK, RequestCall, Cursor
<1>2. /\ requesting'[c].at \in {"run", "nobuf"} /\ requesting'[c].id = id
      /\ requesting'[c].epoch = request_next.seq
      /\ \A b \in Calls : b # c => requesting'[b] = requesting[b]
  BY DEF Acquire, TablesInv, TablesTypeOK
<1>3. /\ requests'[id] = Reserved(total[c])
      /\ \A i \in Ids : i # id => requests'[i] = requests[i]
  BY <1>1 DEF Acquire, TablesInv, TablesTypeOK
<1>4. \A b \in Calls : HoldsMessage(b) => b # c /\ requesting[b].id # id /\ requesting[b].id \in Ids
  BY <1>1, HolderSlot DEF FreeRequests, Scanned, HoldsMessage
<1>5. \A b \in Calls : HoldsMessage(b)' /\ b # c => HoldsMessage(b)
  BY <1>2 DEF HoldsMessage
<1>6. \A b \in Calls : HoldsMessage(b) =>
        ~RangesOverlap(request_next.seq, total[c], requesting[b].epoch, total[b])
  <2> SUFFICES ASSUME NEW b \in Calls, HoldsMessage(b)
               PROVE ~RangesOverlap(request_next.seq, total[c], requesting[b].epoch, total[b])
    OBVIOUS
  <2>1. requesting[b].id \in Ids \ {id}
    BY <1>4
  <2>2. /\ requests[requesting[b].id].in_use /\ requests[requesting[b].id].sequence_reserved
        /\ requests[requesting[b].id].start_sequence = requesting[b].epoch
        /\ requests[requesting[b].id].total_packets = total[b]
    BY HolderSlot
  <2>3. Reservable(id, total[c])
    BY DEF Acquire
  <2> QED BY <2>1, <2>2, <2>3 DEF Reservable
<1>7. ScansAlone'
  <2>1. \A b \in Calls : ~Scanned(b)'
    BY <1>1, <1>2 DEF LookupInv, ScansAlone, Scanned
  <2> QED BY <2>1 DEF ScansAlone
<1>8. HoldersApart'
  <2>1. \A b \in Calls : HoldsMessage(b)' =>
          requests'[requesting'[b].id] =
             [in_use |-> TRUE, sequence_reserved |-> TRUE,
              start_sequence |-> requesting'[b].epoch, total_packets |-> total[b]]
    <3> SUFFICES ASSUME NEW b \in Calls, HoldsMessage(b)'
                 PROVE requests'[requesting'[b].id] =
                         [in_use |-> TRUE, sequence_reserved |-> TRUE,
                          start_sequence |-> requesting'[b].epoch, total_packets |-> total[b]]
      OBVIOUS
    <3>1. CASE b = c
      BY <1>2, <1>3, <3>1 DEF Reserved
    <3>2. CASE b # c
      BY <1>2, <1>3, <1>4, <1>5, <3>2 DEF LookupInv, HoldersApart
    <3> QED BY <3>1, <3>2
  <2>2. ASSUME NEW b \in Calls, NEW d \in Calls, b # d, HoldsMessage(b)', HoldsMessage(d)'
        PROVE  /\ requesting'[b].id # requesting'[d].id
               /\ ~RangesOverlap(requesting'[b].epoch, total[b], requesting'[d].epoch, total[d])
    <3>1. CASE b = c
      BY <1>2, <1>4, <1>5, <1>6, <2>2, <3>1
    <3>2. CASE d = c
      <4>1. ~RangesOverlap(request_next.seq, total[c], requesting[b].epoch, total[b])
        BY <1>5, <1>6, <2>2, <3>2
      <4> QED BY <1>2, <1>4, <1>5, <2>2, <3>2, <4>1, OverlapSymmetric
    <3>3. CASE b # c /\ d # c
      BY <1>2, <1>5, <2>2, <3>3 DEF LookupInv, HoldersApart
    <3> QED BY <3>1, <3>2, <3>3
  <2> QED BY <1>1, <2>1, <2>2 DEF HoldersApart
<1> QED BY <1>7, <1>8 DEF LookupInv

LEMMA LookupInductive ==
  ASSUME ~Overlap, TablesInv, LookupInv, [Next]_vars
  PROVE  LookupInv'
<1>1. ASSUME NEW c \in Calls, AcquireFails(c) \/ FinishRequest(c) \/ FailRequest(c) \/ RollBack(c)
      PROVE  LookupInv'
  <2>1. PICK at \in {"ok", "released", "failed"} : requesting' = [requesting EXCEPT ![c].at = at]
    BY <1>1 DEF AcquireFails, FinishRequest, FailRequest, RollBack
  <2>2. requesting'[c].at = at /\ \A b \in Calls : b # c => requesting'[b] = requesting[b]
    BY <2>1 DEF TablesInv, TablesTypeOK, RequestCall
  <2>3. total' = total
    BY <1>1 DEF AcquireFails, FinishRequest, FailRequest, RollBack, appVars
  <2>4. Scanned(c) \/ HoldsMessage(c) \/ requests' = requests
    BY <1>1 DEF AcquireFails, FinishRequest, FailRequest, RollBack, Scanned, HoldsMessage
  <2>5. \A id \in Ids : id # requesting[c].id => requests'[id] = requests[id]
    BY <1>1 DEF AcquireFails, FinishRequest, FailRequest, RollBack, TablesInv, TablesTypeOK
  <2> QED BY <2>2, <2>3, <2>4, <2>5, LeavingLookup DEF Scanned, HoldsMessage
<1>2. ASSUME UNCHANGED <<total, requests, requesting>>
      PROVE  LookupInv'
  BY <1>2 DEF LookupInv, ScansAlone, HoldersApart, Scanned, HoldsMessage, FreeRequests
<1>3. ASSUME NEW c \in Calls, TakeId(c) \/ TakeEpoch(c) \/ NoEntries(c) \/ RegisterMessage(c)
                                \/ FinishRespond(c) \/ FailRespond(c)
      PROVE  UNCHANGED <<total, requests, requesting>>
  BY <1>3 DEF TakeId, TakeEpoch, NoEntries, RegisterMessage, FinishRespond, FailRespond,
              appVars, requestVars
<1>4. UNCHANGED vars => UNCHANGED <<total, requests, requesting>>
  BY DEF vars, appVars, requestVars
<1> QED BY <1>1, <1>2, <1>3, <1>4, ScanLookup, AcquireLookup DEF Next

LEMMA LookupInvariance ==
  ASSUME ~Overlap
  PROVE  Spec => [](TablesInv /\ LookupInv)
<1>1. TablesInv /\ LookupInv /\ [Next]_vars => (TablesInv /\ LookupInv)'
  BY TablesInductive, LookupInductive
<1> QED BY <1>1, TablesInit, LookupInit, PTL DEF Spec

LEMMA Resolves == TablesInv /\ LookupInv => RequestsResolve
<1> SUFFICES ASSUME TablesInv, LookupInv, NEW hint \in Ids, NEW s \in Seqs
             PROVE  LET owners == {c \in Calls : /\ HoldsMessage(c)
                                   /\ SeqContains(requesting[c].epoch, total[c], s)}
                        found  == FindMessage(requests, hint, s)
                    IN IF owners = {} THEN found = NoMessage
                       ELSE \A c \in owners :
                         found = [id |-> requesting[c].id, off |-> SeqDistance(s, requesting[c].epoch)]
  BY Zenon DEF RequestsResolve
<1> DEFINE owners == {c \in Calls : /\ HoldsMessage(c)
                                   /\ SeqContains(requesting[c].epoch, total[c], s)}
           found  == FindMessage(requests, hint, s)
<1>1. \A id \in Ids : Holds(requests[id], s) => \E c \in owners : requesting[c].id = id
  <2> SUFFICES ASSUME NEW id \in Ids, Holds(requests[id], s)
               PROVE  \E c \in owners : requesting[c].id = id
    OBVIOUS
  <2>1. PICK c \in Calls : HoldsMessage(c) /\ requesting[c].id = id
    BY DEF TablesInv, NoSlotLeaks, Holds
  <2> QED BY <2>1, HolderSlot DEF Holds
<1>2. ASSUME NEW c \in owners
      PROVE  /\ c \in Calls /\ HoldsMessage(c)
             /\ requesting[c].id \in Ids /\ Holds(requests[requesting[c].id], s)
             /\ requests[requesting[c].id].start_sequence = requesting[c].epoch
             /\ SeqContains(requesting[c].epoch, total[c], s)
  BY HolderSlot DEF Holds
<1> HIDE DEF owners, found
<1>3. \A b, c \in owners : b = c
  <2> SUFFICES ASSUME NEW b \in owners, NEW c \in owners, b # c PROVE FALSE
    OBVIOUS
  <2>1. /\ requesting[b].epoch \in Seqs /\ total[b] \in Nat
        /\ requesting[c].epoch \in Seqs /\ total[c] \in Nat
    BY <1>2, HolderSlot
  <2>2. RangesOverlap(requesting[b].epoch, total[b], requesting[c].epoch, total[c])
    BY <1>2, <2>1, RangesMeet
  <2> QED BY <1>2, <2>2 DEF LookupInv, HoldersApart
<1>4. ASSUME owners = {} PROVE found = NoMessage
  BY <1>1, <1>4, NotFound DEF found
<1>5. ASSUME NEW c \in owners
      PROVE  found = [id |-> requesting[c].id, off |-> SeqDistance(s, requesting[c].epoch)]
  <2>1. \A j \in Ids : Holds(requests[j], s) => j = requesting[c].id
    BY <1>1, <1>3
  <2> QED BY <1>2, <1>5, <2>1, Found DEF found
<1> QED BY <1>4, <1>5 DEF owners, found

\* No two request calls in progress have one message id, so neither takes the
\* frames of the other from the receive queue (conn_pop_matching).
THEOREM ResponsesAreNotStolen ==
  ASSUME ~Overlap
  PROVE  Spec => []NoStolenResponses
<1>1. TablesInv /\ LookupInv => NoStolenResponses
  BY DEF LookupInv, HoldersApart, NoStolenResponses, Running, HoldsMessage
<1> QED BY <1>1, LookupInvariance, PTL

\* Every sequence number leads to the request that owns it, whatever the
\* lookup's hint, and every other one to nothing
\* (find_request_message_for_sequence).
THEOREM RequestsAreFound ==
  ASSUME ~Overlap
  PROVE  Spec => []RequestsResolve
BY Resolves, LookupInvariance, PTL

-----------------------------------------------------------------------------
(* Pipelines.                                                              *)

LEMMA PrefixNext ==
  ASSUME NEW S \in SUBSET Calls, Prefix(S), NEW c \in NextOf(S)
  PROVE  /\ c \in Calls /\ c \notin S /\ S = 1 .. c - 1
         /\ Prefix(S \cup {c}) /\ \A d \in NextOf(S \cup {c}) : d = c + 1
<1>1. c \in Calls /\ c \notin S /\ 1 .. c - 1 \subseteq S /\ c \in Nat /\ c >= 1
  BY Sizes DEF NextOf, Calls
<1>2. \A b \in S : b \in Nat /\ b < c
  BY <1>1, Sizes DEF Prefix, Calls
<1>3. S = 1 .. c - 1
  <2>1. \A b \in S : b \in 1 .. c - 1
    BY <1>1, <1>2, Sizes DEF Calls
  <2> QED BY <1>1, <2>1
<1>4. Prefix(S \cup {c})
  BY <1>1, <1>3, Sizes DEF Prefix, Calls
<1>5. \A d \in NextOf(S \cup {c}) : d = c + 1
  <2> TAKE d \in NextOf(S \cup {c})
  <2>1. d \in Nat /\ d >= 1 /\ d \notin S /\ d # c /\ 1 .. d - 1 \subseteq S \cup {c}
    BY Sizes DEF NextOf, Calls
  <2>2. ~(d > c + 1)
    BY <1>1, <1>3, <2>1
  <2> QED BY <1>1, <1>3, <2>1, <2>2
<1> QED BY <1>1, <1>3, <1>4, <1>5

LEMMA PredecessorIn ==
  ASSUME NEW S \in SUBSET Calls, Prefix(S)
  PROVE  \A c \in S \cup NextOf(S) : c # 1 => c - 1 \in S
<1> TAKE c \in S \cup NextOf(S)
<1> HAVE c # 1
<1>1. c \in Nat /\ c >= 2
  BY Sizes DEF NextOf, Calls
<1>2. c - 1 \in 1 .. c - 1 /\ c - 1 \in 1 .. c
  BY <1>1
<1>3. 1 .. c \subseteq S \/ 1 .. c - 1 \subseteq S
  BY DEF Prefix, NextOf
<1> QED BY <1>2, <1>3

\* The cursor is ahead of a call by the calls from it to the next one, so no
\* call within a table's length of the next one has its id.
LEMMA CursorAhead ==
  ASSUME NEW calls, NEW S \in SUBSET Calls, NEW cursor, Prefix(S), IdChain(calls, S, cursor),
         \A b \in S : calls[b].id \in Ids,
         NEW c \in NextOf(S), NEW b \in S, c - b < MaxMessages
  PROVE  /\ b < c /\ cursor.id = (calls[b].id + (c - b)) % MaxMessages
         /\ cursor.id # calls[b].id
<1>1. b \in 1 .. c - 1 /\ c \in Nat /\ S = 1 .. c - 1
  <2>1. c \in Calls /\ S = 1 .. c - 1
    BY PrefixNext, Zenon
  <2> QED BY <2>1, Sizes DEF Calls
<1>2. c - 1 \in S /\ c # 1
  BY <1>1
<1>3. cursor.id = (calls[c - 1].id + 1) % MaxMessages
  BY <1>1, <1>2 DEF IdChain, IdAfter
<1>4. b # c - 1 => calls[c - 1].id = (calls[b].id + (c - 1 - b)) % MaxMessages
  BY <1>1, <1>2, Sizes DEF IdChain
<1>5. PICK x \in Ids, y \in Ids, k \in 1 .. MaxMessages - 1 :
        x = calls[b].id /\ y = calls[c - 1].id /\ k = c - b
  BY <1>1, <1>2, Sizes
<1>6. cursor.id = (y + 1) % MaxMessages /\ y = (x + (k - 1)) % MaxMessages
  <2>1. CASE b = c - 1
    <3>1. y = x /\ k = 1
      BY <1>1, <1>5, <2>1
    <3> QED BY <1>3, <1>5, <3>1, IdModulo, Sizes DEF Ids
  <2>2. CASE b # c - 1
    <3>1. c - 1 - b = k - 1
      BY <1>1, <1>5
    <3> QED BY <1>3, <1>4, <1>5, <2>2, <3>1
  <2> QED BY <2>1, <2>2
<1>7. (y + 1) % MaxMessages = (x + k) % MaxMessages /\ (x + k) % MaxMessages # x
  <2>1. x \in Nat /\ k \in Nat /\ y \in Nat /\ MaxMessages \in Nat \ {0} /\ x < MaxMessages
        /\ y < MaxMessages /\ k >= 1 /\ k < MaxMessages
    BY <1>5, Sizes DEF Ids
  <2>2. y = IF x + (k - 1) < MaxMessages THEN x + (k - 1) ELSE x + (k - 1) - MaxMessages
    <3>1. CASE x + (k - 1) < MaxMessages
      <4>1. x + (k - 1) \in 0 .. MaxMessages - 1
        BY <2>1, <3>1
      <4>2. (x + (k - 1)) % MaxMessages = x + (k - 1)
        BY <4>1, IdModulo, Zenon
      <4> QED BY <1>6, <3>1, <4>2, Zenon
    <3>2. CASE ~(x + (k - 1) < MaxMessages)
      <4>1. PICK z \in MaxMessages .. 2 * MaxMessages - 1 : z = x + (k - 1)
        BY <2>1, <3>2
      <4>2. z % MaxMessages = z - MaxMessages
        BY <4>1, IdModulo, Zenon
      <4>3. y = z - MaxMessages
        BY <1>6, <4>1, <4>2, Zenon
      <4> QED BY <2>1, <3>2, <4>1, <4>3
    <3> QED BY <3>1, <3>2
  <2>3. CASE x + k < MaxMessages
    <3>1. y + 1 = x + k /\ x + k \in 0 .. MaxMessages - 1
      BY <2>1, <2>2, <2>3
    <3>2. (x + k) % MaxMessages = x + k
      BY <3>1, IdModulo
    <3> QED BY <2>1, <3>1, <3>2
  <2>4. CASE x + k = MaxMessages
    <3>1. y + 1 = x + k /\ x + k \in MaxMessages .. 2 * MaxMessages - 1
      BY <2>1, <2>2, <2>4
    <3>2. (x + k) % MaxMessages = 0
      BY <2>1, <2>4, <3>1, IdModulo
    <3> QED BY <2>1, <2>4, <3>1, <3>2
  <2>5. CASE x + k > MaxMessages
    <3>1. y + 1 = x + k - MaxMessages /\ y + 1 \in 0 .. MaxMessages - 1
          /\ x + k \in MaxMessages .. 2 * MaxMessages - 1
      BY <2>1, <2>2, <2>5
    <3>2. (x + k) % MaxMessages = x + k - MaxMessages
      <4>1. PICK z \in MaxMessages .. 2 * MaxMessages - 1 : z = x + k
        BY <3>1, Zenon
      <4>2. z % MaxMessages = z - MaxMessages
        BY <4>1, IdModulo, Zenon
      <4> QED BY <2>1, <4>1, <4>2
    <3>3. (y + 1) % MaxMessages = y + 1
      BY <3>1, IdModulo, Zenon
    <3> QED BY <2>1, <3>1, <3>2, <3>3
  <2> QED BY <2>1, <2>3, <2>4, <2>5
<1> QED BY <1>1, <1>5, <1>6, <1>7

LEMMA IdChainGrows ==
  ASSUME NEW calls, NEW later, NEW S \in SUBSET Calls, NEW cursor, NEW next,
         Prefix(S), IdChain(calls, S, cursor), NEW c \in NextOf(S),
         \A b \in S : calls[b].id \in Ids /\ later[b].id = calls[b].id,
         later[c].id = cursor.id, next.id = (cursor.id + 1) % MaxMessages
  PROVE  IdChain(later, S \cup {c}, next)
<1>0. c \in Calls /\ S = 1 .. c - 1 /\ \A d \in NextOf(S \cup {c}) : d = c + 1
  BY PrefixNext, Zenon
<1>1. S = 1 .. c - 1 /\ c \in Nat /\ c >= 1
  BY <1>0, Sizes DEF Calls
<1>2. \A b \in S : IdAfter(later, b) = IdAfter(calls, b)
  BY <1>1 DEF IdAfter
<1>3. IdAfter(later, c) = IdAfter(calls, c)
  BY <1>1 DEF IdAfter
<1>4. \A b \in S \cup {c} : later[b].id = IdAfter(later, b)
  BY <1>2, <1>3 DEF IdChain
<1>5. \A a, b \in S \cup {c} : a < b /\ b - a < MaxMessages =>
        later[b].id = (later[a].id + (b - a)) % MaxMessages
  <2> TAKE a, b \in S \cup {c}
  <2> HAVE a < b /\ b - a < MaxMessages
  <2>1. a \in S
    BY <1>1
  <2>2. CASE b = c
    BY <2>1, <2>2, CursorAhead
  <2>3. CASE b \in S
    BY <2>1, <2>3 DEF IdChain
  <2> QED BY <2>2, <2>3
<1>6. \A d \in NextOf(S \cup {c}) : next.id = IdAfter(later, d)
  <2> TAKE d \in NextOf(S \cup {c})
  <2>1. d = c + 1
    BY <1>0, Zenon
  <2>2. d # 1 /\ d - 1 = c
    BY <1>1, <2>1
  <2> QED BY <2>2 DEF IdAfter
<1> QED BY <1>4, <1>5, <1>6 DEF IdChain

LEMMA IdChainKept ==
  ASSUME NEW calls, NEW later, NEW S \in SUBSET Calls, NEW cursor, NEW next,
         Prefix(S), IdChain(calls, S, cursor),
         \A b \in S : later[b].id = calls[b].id, next.id = cursor.id
  PROVE  IdChain(later, S, next)
<1>1. \A c \in S \cup NextOf(S) : c # 1 => c - 1 \in S
  BY PredecessorIn
<1>2. \A c \in S \cup NextOf(S) : IdAfter(later, c) = IdAfter(calls, c)
  BY <1>1 DEF IdAfter
<1> QED BY <1>2 DEF IdChain

LEMMA EpochChainGrows ==
  ASSUME NEW calls, NEW later, NEW S \in SUBSET Calls, NEW cursor, NEW next,
         Prefix(S), EpochChain(calls, S, cursor), NEW c \in NextOf(S), total' = total,
         \A b \in S : later[b].epoch = calls[b].epoch,
         later[c].epoch = cursor.seq, next.seq = SeqAdd(cursor.seq, total[c])
  PROVE  EpochChain(later, S \cup {c}, next)
<1>0. c \in Calls /\ S = 1 .. c - 1 /\ \A d \in NextOf(S \cup {c}) : d = c + 1
  BY PrefixNext, Zenon
<1>1. S = 1 .. c - 1 /\ c \in Nat /\ c >= 1
  BY <1>0, Sizes DEF Calls
<1>2. \A b \in S \cup {c} : EpochAfter(later, b) = EpochAfter(calls, b)
  BY <1>1 DEF EpochAfter
<1>3. \A b \in S \cup {c} : later[b].epoch = EpochAfter(later, b)
  BY <1>2 DEF EpochChain
<1>4. \A d \in NextOf(S \cup {c}) : next.seq = EpochAfter(later, d)
  <2> TAKE d \in NextOf(S \cup {c})
  <2>1. d = c + 1
    BY <1>0, Zenon
  <2>2. d # 1 /\ d - 1 = c
    BY <1>1, <2>1
  <2> QED BY <2>2 DEF EpochAfter
<1> QED BY <1>3, <1>4 DEF EpochChain

LEMMA EpochChainKept ==
  ASSUME NEW calls, NEW later, NEW S \in SUBSET Calls, NEW cursor, NEW next,
         Prefix(S), EpochChain(calls, S, cursor),
         \A b \in S : later[b].epoch = calls[b].epoch, next.seq = cursor.seq
  PROVE  EpochChain(later, S, next)
<1>1. \A c \in S \cup NextOf(S) : c # 1 => c - 1 \in S
  BY PredecessorIn
<1>2. \A c \in S \cup NextOf(S) : EpochAfter(later, c) = EpochAfter(calls, c)
  BY <1>1 DEF EpochAfter
<1> QED BY <1>2 DEF EpochChain

\* A call starts less than Depth calls after one that has not returned.
LEMMA Window ==
  ASSUME NEW calls, pipelined, Spaced(calls), NEW c \in Calls, MayStart(calls, c),
         NEW b \in Calls, b < c, ~Returned(calls[b])
  PROVE  c - b < Depth
<1> SUFFICES ASSUME c - b >= Depth PROVE FALSE
  BY Sizes DEF Calls
<1>1. c \in Nat /\ b \in Nat /\ b >= 1 /\ Depth \in Nat \ {0} /\ c <= MaxCalls /\ MaxCalls \in Nat
  BY Sizes DEF Calls
<1>2. CASE c - b = Depth
  <2>1. c > Depth /\ c - Depth = b
    BY <1>1, <1>2
  <2> QED BY <2>1 DEF MayStart
<1>3. CASE c - b > Depth
  <2>1. PICK e \in 1 .. c - 1 : e = b + Depth
    BY <1>1, <1>3
  <2>2. e \in Calls /\ e > Depth /\ e - Depth = b /\ calls[e].at # "idle"
    BY <1>1, <2>1 DEF MayStart, Calls
  <2> QED BY <2>2 DEF Spaced
<1> QED BY <1>1, <1>2, <1>3

LEMMA OrderInit == Init => RequestOrder /\ ResponseOrder
<1> SUFFICES ASSUME Init PROVE RequestOrder /\ ResponseOrder
  OBVIOUS
<1>1. Acquired = {} /\ Timed = {} /\ StartedCalls(requesting) = {} /\ StartedCalls(responding) = {}
  BY DEF Init, Acquired, Timed, StartedCalls
<1>2. Prefix({}) /\ \A c \in NextOf({}) : c = 1
  BY Sizes DEF Prefix, NextOf, Calls
<1>3. /\ IdChain(requesting, {}, request_next) /\ EpochChain(requesting, {}, request_next)
      /\ IdChain(responding, {}, response_next) /\ EpochChain(responding, {}, response_next)
  BY <1>2 DEF Init, IdChain, EpochChain, IdAfter, EpochAfter
<1>4. Spaced(requesting) /\ Spaced(responding)
  BY DEF Init, Spaced
<1>5. \A c \in Calls : requesting[c].at = "idle" /\ responding[c].at = "idle"
                       /\ requesting[c].epoch = NoEpoch /\ responding[c].epoch = NoEpoch
  BY DEF Init
<1> QED BY <1>1, <1>2, <1>3, <1>4, <1>5 DEF RequestOrder, ResponseOrder, Scanned

\* A call that starts keeps the order of starts and the distance to the returns.
LEMMA StartOrder ==
  ASSUME NEW calls, NEW later, NEW c \in Calls, MayStart(calls, c), later[c].at # "idle",
         \A b \in Calls : b # c => later[b] = calls[b],
         Spaced(calls), Prefix(StartedCalls(calls))
  PROVE  /\ Spaced(later) /\ Prefix(StartedCalls(later))
         /\ \A b \in Calls : b > c => later[b].at = "idle"
         /\ c \in NextOf(StartedCalls(calls)) /\ StartedCalls(later) = StartedCalls(calls) \cup {c}
<1> DEFINE S == StartedCalls(calls)
<1>1. S \in SUBSET Calls /\ c \notin S /\ StartedCalls(later) = S \cup {c}
  BY DEF StartedCalls, MayStart
<1>2. c \in NextOf(S)
  BY <1>1, Sizes DEF MayStart, StartedCalls, NextOf, Calls
<1> HIDE DEF S
<1>3. Prefix(StartedCalls(later)) /\ S = 1 .. c - 1
  <2>1. Prefix(S)
    BY DEF S
  <2>2. Prefix(S \cup {c}) /\ S = 1 .. c - 1
    BY <1>1, <1>2, <2>1, PrefixNext
  <2> QED BY <1>1, <2>2
<1>4. \A b \in Calls : b > c => later[b].at = "idle"
  <2> TAKE b \in Calls
  <2> HAVE b > c
  <2>1. b # c /\ b \notin S
    BY <1>3, Sizes DEF Calls
  <2> QED BY <2>1 DEF S, StartedCalls
<1>5. Spaced(later)
  <2> SUFFICES ASSUME pipelined, NEW b \in Calls, later[b].at # "idle", b > Depth
               PROVE  Returned(later[b - Depth])
    BY DEF Spaced
  <2>1. b - Depth \in Calls /\ b - Depth < b
    BY Sizes DEF Calls
  <2>2. Returned(calls[b - Depth])
    BY DEF Spaced, MayStart
  <2>3. calls[c].at = "idle" /\ ~Returned(calls[c])
    BY DEF MayStart, Returned
  <2> QED BY <2>1, <2>2, <2>3
<1> QED BY <1>1, <1>2, <1>3, <1>4, <1>5 DEF S

\* A step that starts no call keeps both, when returns are for good.
LEMMA StartsKept ==
  ASSUME NEW calls, NEW later, Spaced(calls), Prefix(StartedCalls(calls)),
         \A b \in Calls : /\ calls[b].at = "idle" <=> later[b].at = "idle"
                          /\ Returned(calls[b]) => Returned(later[b])
  PROVE  /\ Spaced(later) /\ Prefix(StartedCalls(later))
         /\ StartedCalls(later) = StartedCalls(calls)
<1>1. StartedCalls(later) = StartedCalls(calls)
  BY DEF StartedCalls
<1>2. \A b \in Calls : b > Depth => b - Depth \in Calls
  BY Sizes DEF Calls
<1> QED BY <1>1, <1>2 DEF Spaced

\* In a pipeline without failures the slot at the cursor is free: whoever had
\* its id before has returned.
LEMMA CursorFree ==
  ASSUME Depth <= MaxMessages, TablesInv, RequestOrder, pipelined, RequestersFine,
         NEW c \in Calls, MayStart(requesting, c), \A b \in Calls : ~Scanned(b)
  PROVE  request_next.id \in FreeRequests
<1>1. c \in NextOf(Acquired) /\ Prefix(Acquired) /\ Acquired \subseteq Calls
  <2>1. Acquired = StartedCalls(requesting)
    <3>1. \A b \in Calls : requesting[b].at \in {"idle", "scanned", "run", "ok"}
      BY DEF RequestersFine, TablesInv, TablesTypeOK, RequestCall
    <3> QED BY <3>1 DEF Acquired, StartedCalls, Scanned
  <2>2. c \in NextOf(StartedCalls(requesting))
    BY Sizes DEF NextOf, StartedCalls, MayStart, Calls
  <2> QED BY <2>1, <2>2 DEF RequestOrder, StartedCalls
<1>2. IdChain(requesting, Acquired, request_next)
  BY DEF RequestOrder
<1>3. \A b \in Acquired : requesting[b].id \in Ids
  BY <1>1 DEF TablesInv, TablesTypeOK, RequestCall
<1>4. request_next.id \in Ids
  BY DEF TablesInv, TablesTypeOK, Cursor
<1>5. ASSUME NEW b \in Calls, HoldsMessage(b) PROVE requesting[b].id # request_next.id
  <2>1. requesting[b].at = "run" /\ b \in Acquired /\ ~Returned(requesting[b])
    BY <1>5 DEF HoldsMessage, RequestersFine, Acquired, Returned
  <2>2. b < c
    <3>1. Acquired = 1 .. c - 1
      BY <1>1, PrefixNext
    <3> QED BY <2>1, <3>1, Sizes DEF Calls
  <2>3. c - b < Depth
    BY <2>1, <2>2, Window DEF RequestOrder
  <2>4. c - b < MaxMessages
    BY <2>3, Sizes DEF Calls
  <2> QED BY <1>1, <1>2, <1>3, <2>1, <2>4, CursorAhead
<1> QED BY <1>4, <1>5 DEF FreeRequests, TablesInv, NoSlotLeaks

LEMMA ScanOrder ==
  ASSUME ~Overlap, Depth <= MaxMessages, TablesInv, RequestOrder,
         NEW c \in Calls, ScanRequests(c)
  PROVE  RequestOrder'
<1>1. /\ MayStart(requesting, c) /\ requesting[c].at = "idle" /\ \A b \in Calls : ~Scanned(b)
      /\ UNCHANGED <<pipelined, total, request_next>>
  BY DEF ScanRequests, MayStart, appVars, Scanned
<1>2. /\ \A b \in Calls : b # c => requesting'[b] = requesting[b]
      /\ requesting'[c].epoch = requesting[c].epoch
      /\ \/ FreeRequests = {} /\ requesting'[c].at = "failed"
         \/ /\ FreeRequests # {} /\ requesting'[c].at = "scanned"
            /\ requesting'[c].id = FirstFrom(request_next.id, FreeRequests)
  BY DEF ScanRequests, TablesInv, TablesTypeOK, RequestCall
<1>3. /\ Spaced(requesting') /\ Prefix(StartedCalls(requesting'))
      /\ \A b \in Calls : b > c => requesting'[b].at = "idle"
  BY <1>1, <1>2, StartOrder DEF RequestOrder
<1>4. \A b \in Calls : requesting'[b].at = "scanned" => b = c
  BY <1>1, <1>2 DEF Scanned
<1>5. \A b \in Calls : requesting'[b].at \in {"idle", "scanned"} => requesting'[b].epoch = NoEpoch
  BY <1>1, <1>2 DEF RequestOrder
<1>6. ASSUME pipelined, RequestersFine'
      PROVE  /\ IdChain(requesting', Acquired', request_next)
             /\ EpochChain(requesting', Acquired', request_next)
             /\ requesting'[c].id = request_next.id
  <2>1. RequestersFine /\ requesting'[c].at = "scanned"
        /\ requesting'[c].id = FirstFrom(request_next.id, FreeRequests)
    BY <1>1, <1>2, <1>6 DEF RequestersFine
  <2>2. request_next.id \in FreeRequests
    BY <1>1, <1>6, <2>1, CursorFree
  <2>3. request_next.id \in Ids /\ FreeRequests \in SUBSET Ids
    BY DEF FreeRequests, TablesInv, TablesTypeOK, Cursor
  <2>4. requesting'[c].id = request_next.id
    BY <2>1, <2>2, <2>3, FirstIsFree
  <2>5. Acquired' = Acquired /\ c \notin Acquired
    BY <1>1, <1>2, <2>1 DEF Acquired
  <2>6. Prefix(Acquired) /\ Acquired \in SUBSET Calls
    <3>1. Acquired = StartedCalls(requesting)
      <4>1. \A b \in Calls : requesting[b].at \in {"idle", "scanned", "run", "ok"}
        BY <2>1 DEF RequestersFine, TablesInv, TablesTypeOK, RequestCall
      <4> QED BY <1>1, <4>1 DEF Acquired, StartedCalls, Scanned
    <3> QED BY <3>1 DEF RequestOrder, StartedCalls
  <2>7. IdChain(requesting, Acquired, request_next) /\ EpochChain(requesting, Acquired, request_next)
    BY <1>6, <2>1 DEF RequestOrder
  <2>8. \A b \in Acquired : requesting'[b] = requesting[b]
    BY <1>2, <2>5, <2>6
  <2>9. IdChain(requesting', Acquired, request_next)
    BY <2>6, <2>7, <2>8, IdChainKept
  <2>10. EpochChain(requesting', Acquired, request_next)
    BY <2>6, <2>7, <2>8, EpochChainKept
  <2> QED BY <2>4, <2>5, <2>9, <2>10
<1> QED BY <1>1, <1>3, <1>4, <1>5, <1>6
        DEF RequestOrder, Spaced, Scanned, IdChain, EpochChain, IdAfter, EpochAfter

LEMMA AcquiredPrefix ==
  ASSUME TablesInv, RequestOrder, RequestersFine
  PROVE  /\ Prefix(Acquired) /\ Acquired \in SUBSET Calls
         /\ \A b \in Acquired : requesting[b].id \in Ids
         /\ \A c \in Calls : Scanned(c) => c \in NextOf(Acquired)
<1>1. \A b \in Calls : requesting[b].at \in {"idle", "scanned", "run", "ok"}
  BY DEF RequestersFine, TablesInv, TablesTypeOK, RequestCall
<1>2. ASSUME NEW c \in Calls, requesting[c].at # "idle", NEW b \in 1 .. c, b # c
      PROVE  b \in Acquired
  <2>1. b \in Calls /\ c > b
    BY <1>2, Sizes DEF Calls
  <2>2. requesting[b].at # "idle"
    BY <1>2 DEF RequestOrder, Prefix, StartedCalls
  <2>3. ~Scanned(b)
    BY <1>2, <2>1 DEF RequestOrder
  <2> QED BY <1>1, <2>1, <2>2, <2>3 DEF Acquired, Scanned
<1>3. Prefix(Acquired)
  BY <1>2 DEF Prefix, Acquired
<1>4. \A c \in Calls : Scanned(c) => c \in NextOf(Acquired)
  <2> SUFFICES ASSUME NEW c \in Calls, Scanned(c) PROVE c \in NextOf(Acquired)
    OBVIOUS
  <2>1. c \notin Acquired /\ requesting[c].at # "idle"
    BY DEF Scanned, Acquired
  <2>2. \A b \in 1 .. c - 1 : b \in 1 .. c /\ b # c
    BY Sizes DEF Calls
  <2> QED BY <1>2, <2>1, <2>2 DEF NextOf
<1>5. \A b \in Acquired : requesting[b].id \in Ids
  BY DEF Acquired, TablesInv, TablesTypeOK, RequestCall
<1> QED BY <1>3, <1>4, <1>5 DEF Acquired

LEMMA AcquireOrder ==
  ASSUME TablesInv, LookupInv, RequestOrder, NEW c \in Calls, Acquire(c)
  PROVE  RequestOrder'
<1>1. /\ Scanned(c) /\ UNCHANGED <<pipelined, total>>
      /\ requesting'[c].at \in {"run", "nobuf"} /\ requesting'[c].id = requesting[c].id
      /\ requesting'[c].epoch = request_next.seq
      /\ \A b \in Calls : b # c => requesting'[b] = requesting[b]
      /\ request_next'.id = (requesting[c].id + 1) % MaxMessages
      /\ request_next'.seq = SeqAdd(request_next.seq, total[c])
  BY DEF Acquire, Scanned, appVars, TablesInv, TablesTypeOK
<1>2. /\ Spaced(requesting') /\ Prefix(StartedCalls(requesting'))
  <2>1. \A b \in Calls : /\ requesting[b].at = "idle" <=> requesting'[b].at = "idle"
                         /\ Returned(requesting[b]) => Returned(requesting'[b])
    BY <1>1 DEF Scanned, Returned
  <2> QED BY <2>1, StartsKept DEF RequestOrder
<1>3. \A b \in Calls : ~Scanned(b)'
  BY <1>1 DEF Scanned, LookupInv, ScansAlone
<1>4. \A b \in Calls : requesting'[b].at \in {"idle", "scanned"} => requesting'[b].epoch = NoEpoch
  BY <1>1 DEF RequestOrder
<1>5. ASSUME pipelined, RequestersFine'
      PROVE  /\ IdChain(requesting', Acquired', request_next')
             /\ EpochChain(requesting', Acquired', request_next')
  <2>1. RequestersFine
    BY <1>1, <1>5 DEF RequestersFine, Scanned
  <2>2. /\ Prefix(Acquired) /\ Acquired \in SUBSET Calls /\ c \in NextOf(Acquired)
        /\ \A b \in Acquired : requesting[b].id \in Ids
    BY <1>1, <2>1, AcquiredPrefix
  <2>3. Acquired' = Acquired \cup {c} /\ c \notin Acquired
    BY <1>1, <1>5 DEF Acquired, Scanned, RequestersFine
  <2>4. /\ IdChain(requesting, Acquired, request_next)
        /\ EpochChain(requesting, Acquired, request_next)
        /\ requesting[c].id = request_next.id
    BY <1>1, <1>5, <2>1 DEF RequestOrder
  <2>5. \A b \in Acquired : requesting'[b] = requesting[b]
    BY <1>1, <2>2, <2>3
  <2>6. IdChain(requesting', Acquired \cup {c}, request_next')
    BY <1>1, <2>2, <2>4, <2>5, IdChainGrows
  <2>7. EpochChain(requesting', Acquired \cup {c}, request_next')
    BY <1>1, <2>2, <2>4, <2>5, EpochChainGrows
  <2> QED BY <2>3, <2>6, <2>7
<1> QED BY <1>1, <1>2, <1>3, <1>4, <1>5
        DEF RequestOrder, Spaced, Scanned, IdChain, EpochChain, IdAfter, EpochAfter

LEMMA OtherRequestOrder ==
  ASSUME TablesInv, RequestOrder, NEW c \in Calls,
         AcquireFails(c) \/ FinishRequest(c) \/ FailRequest(c) \/ RollBack(c)
  PROVE  RequestOrder'
<1>1. PICK at \in {"ok", "released", "failed"} :
        /\ requesting' = [requesting EXCEPT ![c].at = at]
        /\ requesting[c].at \in {"scanned", "run", "released"}
        /\ at = "ok" => requesting[c].at = "run" /\ request_next' = request_next
  BY DEF AcquireFails, FinishRequest, FailRequest, RollBack
<1>2. UNCHANGED <<pipelined, total>>
  BY DEF AcquireFails, FinishRequest, FailRequest, RollBack, appVars
<1>3. /\ requesting'[c].at = at /\ requesting'[c].id = requesting[c].id
      /\ requesting'[c].epoch = requesting[c].epoch
      /\ \A b \in Calls : b # c => requesting'[b] = requesting[b]
  BY <1>1 DEF TablesInv, TablesTypeOK, RequestCall
<1>4. /\ Spaced(requesting') /\ Prefix(StartedCalls(requesting'))
  <2>1. \A b \in Calls : /\ requesting[b].at = "idle" <=> requesting'[b].at = "idle"
                         /\ Returned(requesting[b]) => Returned(requesting'[b])
    BY <1>1, <1>3 DEF Returned
  <2> QED BY <2>1, StartsKept DEF RequestOrder
<1>5. /\ \A b \in Calls : Scanned(b)' => Scanned(b) /\ requesting'[b] = requesting[b]
      /\ \A b \in Calls : requesting'[b].at = "idle" <=> requesting[b].at = "idle"
      /\ \A b \in Calls : requesting'[b].at \in {"idle", "scanned"} => requesting'[b].epoch = NoEpoch
  BY <1>1, <1>3 DEF Scanned, RequestOrder
<1>6. ASSUME pipelined, RequestersFine'
      PROVE  /\ IdChain(requesting', Acquired', request_next')
             /\ EpochChain(requesting', Acquired', request_next')
             /\ \A b \in Calls : Scanned(b)' => requesting'[b].id = request_next'.id
  <2>1. RequestersFine /\ at = "ok" /\ request_next' = request_next
    BY <1>1, <1>3, <1>6 DEF RequestersFine
  <2>2. /\ Prefix(Acquired) /\ Acquired \in SUBSET Calls
    BY <2>1, AcquiredPrefix
  <2>3. Acquired' = Acquired
    BY <1>1, <1>3, <2>1 DEF Acquired
  <2>4. /\ IdChain(requesting, Acquired, request_next)
        /\ EpochChain(requesting, Acquired, request_next)
        /\ \A b \in Calls : Scanned(b) => requesting[b].id = request_next.id
    BY <1>6, <2>1 DEF RequestOrder
  <2>5. \A b \in Acquired : requesting'[b].id = requesting[b].id /\ requesting'[b].epoch = requesting[b].epoch
    BY <1>3, <2>2
  <2>6. IdChain(requesting', Acquired, request_next')
    BY <2>1, <2>2, <2>4, <2>5, IdChainKept
  <2>7. EpochChain(requesting', Acquired, request_next')
    BY <2>1, <2>2, <2>4, <2>5, EpochChainKept
  <2> QED BY <1>5, <2>1, <2>3, <2>4, <2>6, <2>7
<1>7. Spaced(requesting)' /\ Prefix(StartedCalls(requesting))'
  BY <1>2, <1>4 DEF Spaced
<1>8. \A b \in Calls : Scanned(b)' => \A d \in Calls : d > b => requesting'[d].at = "idle"
  BY <1>5 DEF RequestOrder
<1> QED BY <1>2, <1>5, <1>6, <1>7, <1>8
        DEF RequestOrder, IdChain, EpochChain, IdAfter, EpochAfter

LEMMA ResponseCursorFree ==
  ASSUME Depth <= MaxMessages, TablesInv, ResponseOrder, pipelined, RespondersFine,
         NEW c \in Calls, MayStart(responding, c)
  PROVE  /\ response_next.id \in FreeResponses
         /\ c \in NextOf(StartedCalls(responding))
<1> DEFINE S == StartedCalls(responding)
<1>1. c \in NextOf(S) /\ Prefix(S) /\ S \in SUBSET Calls
  BY Sizes DEF NextOf, StartedCalls, MayStart, Calls, ResponseOrder
<1>2. IdChain(responding, S, response_next)
  BY DEF ResponseOrder
<1>3. \A b \in S : responding[b].id \in Ids
  BY DEF StartedCalls, TablesInv, TablesTypeOK, ResponseCall
<1>4. response_next.id \in Ids
  BY DEF TablesInv, TablesTypeOK, Cursor
<1>5. ASSUME NEW b \in Calls, Using(b) PROVE responding[b].id # response_next.id
  <2>1. b \in S /\ ~Returned(responding[b])
    BY <1>5 DEF Using, StartedCalls, Returned
  <2> HIDE DEF S
  <2>2. b < c
    <3>1. S = 1 .. c - 1
      BY <1>1, PrefixNext
    <3> QED BY <2>1, <3>1, Sizes DEF Calls
  <2>3. c - b < Depth
    BY <2>1, <2>2, Window DEF ResponseOrder
  <2>4. c - b < MaxMessages
    BY <2>3, Sizes DEF Calls
  <2> QED BY <1>1, <1>2, <1>3, <2>1, <2>4, CursorAhead
<1>6. response_next.id \in FreeResponses
  <2>1. \A d \in Calls : responding[d].at # "failed"
    BY DEF RespondersFine
  <2> QED BY <1>4, <1>5, <2>1 DEF FreeResponses, TablesInv, UsersOfSlots
<1> QED BY <1>1, <1>6

LEMMA TakeIdOrder ==
  ASSUME ~Overlap, Depth <= MaxMessages, TablesInv, ResponseOrder,
         NEW c \in Calls, TakeId(c)
  PROVE  ResponseOrder'
<1> DEFINE S == StartedCalls(responding)
<1>1. /\ MayStart(responding, c) /\ responding[c].at = "idle"
      /\ \A b \in Calls : responding[b].at # "id"
      /\ UNCHANGED <<pipelined, total>>
  BY DEF TakeId, MayStart, appVars
<1>2. /\ \A b \in Calls : b # c => responding'[b] = responding[b]
      /\ responding'[c].epoch = responding[c].epoch
      /\ \/ FreeResponses = {} /\ responding'[c].at = "failed"
         \/ /\ FreeResponses # {} /\ responding'[c].at = "id"
            /\ responding'[c].id = FirstFrom(response_next.id, FreeResponses)
            /\ response_next'.id = (FirstFrom(response_next.id, FreeResponses) + 1) % MaxMessages
            /\ response_next'.seq = response_next.seq
  <2>1. /\ responding \in [Calls -> ResponseCall] /\ responding[c] \in ResponseCall
        /\ response_next \in Cursor
    BY DEF TablesInv, TablesTypeOK
  <2>2. CASE FreeResponses = {}
    <3>1. responding' = [responding EXCEPT ![c].at = "failed"]
      BY <2>2 DEF TakeId
    <3> QED BY <2>1, <2>2, <3>1 DEF ResponseCall
  <2>3. CASE FreeResponses # {}
    <3>1. /\ responding' = [responding EXCEPT ![c] = [responding[c] EXCEPT !.at = "id",
                               !.id = FirstFrom(response_next.id, FreeResponses)]]
          /\ response_next' = [response_next EXCEPT
                 !.id = ResponseCursor(FirstFrom(response_next.id, FreeResponses))]
      BY <2>3 DEF TakeId
    <3>2. /\ \A b \in Calls : b # c => responding'[b] = responding[b]
          /\ responding'[c] = [responding[c] EXCEPT !.at = "id",
                               !.id = FirstFrom(response_next.id, FreeResponses)]
      BY <2>1, <3>1
    <3>3. /\ response_next'.id = ResponseCursor(FirstFrom(response_next.id, FreeResponses))
          /\ response_next'.seq = response_next.seq
      BY <2>1, <3>1 DEF Cursor
    <3>4. /\ responding'[c].at = "id" /\ responding'[c].epoch = responding[c].epoch
          /\ responding'[c].id = FirstFrom(response_next.id, FreeResponses)
      BY <2>1, <3>2 DEF ResponseCall
    <3> QED BY <2>3, <3>2, <3>3, <3>4 DEF ResponseCursor
  <2> QED BY <2>2, <2>3
<1>3. /\ Spaced(responding') /\ Prefix(StartedCalls(responding'))
      /\ \A b \in Calls : b > c => responding'[b].at = "idle"
      /\ StartedCalls(responding') = S \cup {c}
  <2>1. MayStart(responding, c) /\ responding'[c].at # "idle"
    BY <1>1, <1>2
  <2>2. \A b \in Calls : b # c => responding'[b] = responding[b]
    BY <1>2
  <2>3. Spaced(responding) /\ Prefix(StartedCalls(responding))
    BY DEF ResponseOrder
  <2> QED BY <2>1, <2>2, <2>3, StartOrder DEF S
<1>4. /\ \A b \in Calls : responding'[b].at = "id" => b = c
      /\ \A b \in Calls : responding'[b].at \in {"idle", "id"} => responding'[b].epoch = NoEpoch
  BY <1>1, <1>2 DEF ResponseOrder
<1>5. ASSUME pipelined, RespondersFine'
      PROVE  /\ IdChain(responding', StartedCalls(responding'), response_next')
             /\ EpochChain(responding', Timed', response_next')
  <2>1. /\ RespondersFine /\ responding'[c].at = "id"
        /\ responding'[c].id = FirstFrom(response_next.id, FreeResponses)
        /\ response_next'.id = (FirstFrom(response_next.id, FreeResponses) + 1) % MaxMessages
        /\ response_next'.seq = response_next.seq
    BY <1>1, <1>2, <1>5 DEF RespondersFine
  <2>2. response_next.id \in FreeResponses /\ c \in NextOf(S)
    BY <1>1, <1>5, <2>1, ResponseCursorFree
  <2>3. response_next.id \in Ids /\ FreeResponses \in SUBSET Ids
    BY DEF FreeResponses, TablesInv, TablesTypeOK, Cursor
  <2>4. FirstFrom(response_next.id, FreeResponses) = response_next.id
    BY <2>2, <2>3, FirstIsFree
  <2>5. /\ IdChain(responding, S, response_next) /\ EpochChain(responding, Timed, response_next)
        /\ Prefix(S) /\ S \in SUBSET Calls
    BY <1>5, <2>1 DEF ResponseOrder, StartedCalls
  <2>6. \A b \in S : responding[b].id \in Ids /\ responding'[b] = responding[b]
    BY <1>1, <1>2 DEF StartedCalls, TablesInv, TablesTypeOK, ResponseCall
  <2>7. Timed = S /\ Timed' = S
    BY <1>1, <1>2, <2>1 DEF Timed, StartedCalls
  <2> HIDE DEF S
  <2>8. IdChain(responding', S \cup {c}, response_next')
    BY <2>1, <2>2, <2>4, <2>5, <2>6, IdChainGrows
  <2>9. EpochChain(responding', S, response_next')
    BY <2>1, <2>5, <2>6, <2>7, EpochChainKept
  <2> QED BY <1>3, <2>7, <2>8, <2>9
<1>6. Spaced(responding)' /\ Prefix(StartedCalls(responding))'
  BY <1>1, <1>3 DEF Spaced
<1>7. \A d \in Calls : responding'[d].at = "id" => \A b \in Calls : b > d => responding'[b].at = "idle"
  BY <1>3, <1>4
<1> QED BY <1>1, <1>4, <1>5, <1>6, <1>7
        DEF ResponseOrder, IdChain, EpochChain, IdAfter, EpochAfter

LEMMA TimedPrefix ==
  ASSUME ResponseOrder
  PROVE  /\ Prefix(Timed) /\ Timed \in SUBSET Calls
         /\ \A c \in Calls : responding[c].at = "id" => c \in NextOf(Timed)
<1>1. ASSUME NEW c \in Calls, responding[c].at # "idle", NEW b \in 1 .. c, b # c
      PROVE  b \in Timed
  <2>1. b \in Calls /\ c > b
    BY <1>1, Sizes DEF Calls
  <2>2. responding[b].at # "idle"
    BY <1>1 DEF ResponseOrder, Prefix, StartedCalls
  <2>3. responding[b].at # "id"
    BY <1>1, <2>1 DEF ResponseOrder
  <2> QED BY <2>1, <2>2, <2>3 DEF Timed
<1>2. Prefix(Timed)
  BY <1>1 DEF Prefix, Timed
<1>3. \A c \in Calls : responding[c].at = "id" => c \in NextOf(Timed)
  <2> SUFFICES ASSUME NEW c \in Calls, responding[c].at = "id" PROVE c \in NextOf(Timed)
    OBVIOUS
  <2>1. c \notin Timed /\ responding[c].at # "idle"
    BY DEF Timed
  <2>2. \A b \in 1 .. c - 1 : b \in 1 .. c /\ b # c
    BY Sizes DEF Calls
  <2> QED BY <1>1, <2>1, <2>2 DEF NextOf
<1> QED BY <1>2, <1>3 DEF Timed

LEMMA OtherResponseOrder ==
  ASSUME TablesInv, ResponseOrder, NEW c \in Calls,
         TakeEpoch(c) \/ NoEntries(c) \/ RegisterMessage(c) \/ FinishRespond(c) \/ FailRespond(c)
  PROVE  ResponseOrder'
<1> DEFINE S == StartedCalls(responding)
<1>0. /\ responding \in [Calls -> ResponseCall] /\ responding[c] \in ResponseCall
      /\ response_next \in Cursor /\ UNCHANGED <<pipelined, total>>
  BY DEF TakeEpoch, NoEntries, RegisterMessage, FinishRespond, FailRespond, appVars,
         TablesInv, TablesTypeOK
<1>a. ASSUME TakeEpoch(c)
      PROVE
        /\ responding[c].at \in {"id", "run", "registered"}
        /\ responding'[c].at \in {"run", "registered", "ok", "failed"}
        /\ responding'[c].id = responding[c].id
        /\ \A b \in Calls : b # c => responding'[b] = responding[b]
        /\ responding'[c].at = "failed" \/ response_next'.id = response_next.id
        /\ responding[c].at = "id" /\ responding'[c].epoch = response_next.seq
        /\ response_next'.seq = SeqAdd(response_next.seq, total[c])
  <2> DEFINE call == [responding[c] EXCEPT !.at = "run", !.epoch = response_next.seq]
  <2>1. /\ responding[c].at = "id" /\ responding' = [responding EXCEPT ![c] = call]
        /\ response_next' = [response_next EXCEPT !.seq = SeqAdd(response_next.seq, total[c])]
    BY <1>a DEF TakeEpoch
  <2>2. call.at = "run" /\ call.id = responding[c].id /\ call.epoch = response_next.seq
    BY <1>0 DEF ResponseCall
  <2> HIDE DEF call
  <2>3. responding'[c] = call /\ \A b \in Calls : b # c => responding'[b] = responding[b]
    BY <1>0, <2>1
  <2>4. response_next'.id = response_next.id
        /\ response_next'.seq = SeqAdd(response_next.seq, total[c])
    BY <1>0, <2>1 DEF Cursor
  <2> QED BY <2>1, <2>2, <2>3, <2>4
<1>b. ASSUME NoEntries(c) \/ RegisterMessage(c) \/ FinishRespond(c) \/ FailRespond(c)
      PROVE
        /\ responding[c].at \in {"id", "run", "registered"}
        /\ responding'[c].at \in {"run", "registered", "ok", "failed"}
        /\ responding'[c].id = responding[c].id
        /\ \A b \in Calls : b # c => responding'[b] = responding[b]
        /\ responding'[c].at = "failed" \/ response_next'.id = response_next.id
        /\ responding[c].at # "id" /\ responding'[c].epoch = responding[c].epoch
        /\ responding'[c].at = "failed" \/ response_next'.seq = response_next.seq
  <2>1. /\ responding[c].at \in {"run", "registered"}
        /\ \E at \in {"registered", "ok", "failed"} : responding' = [responding EXCEPT ![c].at = at]
        /\ responding' = [responding EXCEPT ![c].at = "failed"] \/ response_next' = response_next
    BY <1>b DEF NoEntries, RegisterMessage, FinishRespond, FailRespond
  <2>2. PICK at \in {"registered", "ok", "failed"} : responding' = [responding EXCEPT ![c].at = at]
    BY <2>1
  <2>3. /\ responding'[c].at = at /\ responding'[c].id = responding[c].id
        /\ responding'[c].epoch = responding[c].epoch
        /\ \A b \in Calls : b # c => responding'[b] = responding[b]
    BY <1>0, <2>2 DEF ResponseCall
  <2>4. at = "failed" \/ response_next' = response_next
    <3>1. ASSUME responding' = [responding EXCEPT ![c].at = "failed"] PROVE at = "failed"
      BY <1>0, <2>3, <3>1 DEF ResponseCall
    <3> QED BY <2>1, <3>1
  <2> QED BY <2>1, <2>3, <2>4
<1>1. /\ responding[c].at \in {"id", "run", "registered"} /\ UNCHANGED <<pipelined, total>>
      /\ responding'[c].at \in {"run", "registered", "ok", "failed"}
      /\ responding'[c].id = responding[c].id
      /\ \A b \in Calls : b # c => responding'[b] = responding[b]
      /\ responding'[c].at = "failed" \/ response_next'.id = response_next.id
  BY <1>0, <1>a, <1>b
<1>2. \/ /\ responding[c].at = "id" /\ responding'[c].epoch = response_next.seq
         /\ response_next'.seq = SeqAdd(response_next.seq, total[c])
      \/ /\ responding[c].at # "id" /\ responding'[c].epoch = responding[c].epoch
         /\ responding'[c].at = "failed" \/ response_next'.seq = response_next.seq
  BY <1>a, <1>b
<1>3. /\ Spaced(responding') /\ Prefix(StartedCalls(responding')) /\ StartedCalls(responding') = S
  <2>1. \A b \in Calls : /\ responding[b].at = "idle" <=> responding'[b].at = "idle"
                         /\ Returned(responding[b]) => Returned(responding'[b])
    BY <1>1 DEF Returned
  <2> QED BY <2>1, StartsKept DEF ResponseOrder
<1>4. /\ \A d \in Calls : responding'[d].at = "id" => responding[d].at = "id"
      /\ \A d \in Calls : responding'[d].at = "idle" <=> responding[d].at = "idle"
      /\ \A d \in Calls : responding'[d].at \in {"idle", "id"} => responding'[d].epoch = NoEpoch
  BY <1>1 DEF ResponseOrder
<1>5. ASSUME pipelined, RespondersFine'
      PROVE  /\ IdChain(responding', StartedCalls(responding'), response_next')
             /\ EpochChain(responding', Timed', response_next')
  <2>1. RespondersFine /\ responding'[c].at # "failed" /\ response_next'.id = response_next.id
    BY <1>1, <1>5 DEF RespondersFine
  <2>2. /\ IdChain(responding, S, response_next) /\ EpochChain(responding, Timed, response_next)
        /\ Prefix(S) /\ S \in SUBSET Calls
    BY <1>5, <2>1 DEF ResponseOrder, StartedCalls
  <2>3. \A b \in S : responding'[b].id = responding[b].id
    BY <1>1, <2>2
  <2>4. IdChain(responding', S, response_next')
    BY <2>1, <2>2, <2>3, IdChainKept
  <2>5. Prefix(Timed) /\ Timed \in SUBSET Calls
    BY TimedPrefix
  <2>6. CASE responding[c].at = "id"
    <3>1. Timed' = Timed \cup {c} /\ c \notin Timed
      BY <1>1, <2>6 DEF Timed
    <3>2. \A b \in Timed : responding'[b].epoch = responding[b].epoch
      BY <1>1, <2>5, <3>1
    <3>3. c \in NextOf(Timed)
      BY <2>6, TimedPrefix
    <3>4. EpochChain(responding', Timed \cup {c}, response_next')
      BY <1>1, <1>2, <2>2, <2>5, <2>6, <3>2, <3>3, EpochChainGrows
    <3> QED BY <1>3, <2>4, <3>1, <3>4
  <2>7. CASE responding[c].at # "id"
    <3>1. Timed' = Timed
      BY <1>1, <2>7 DEF Timed
    <3>2. \A b \in Timed : responding'[b].epoch = responding[b].epoch
      BY <1>1, <1>2, <2>5, <2>7
    <3>3. EpochChain(responding', Timed, response_next')
      BY <1>2, <2>1, <2>2, <2>5, <2>7, <3>2, EpochChainKept
    <3> QED BY <1>3, <2>4, <3>1, <3>3
  <2> QED BY <2>6, <2>7
<1>6. Spaced(responding)' /\ Prefix(StartedCalls(responding))'
  BY <1>1, <1>3 DEF Spaced
<1>7. \A d \in Calls : responding'[d].at = "id" => \A b \in Calls : b > d => responding'[b].at = "idle"
  BY <1>4 DEF ResponseOrder
<1> QED BY <1>1, <1>4, <1>5, <1>6, <1>7
        DEF ResponseOrder, IdChain, EpochChain, IdAfter, EpochAfter

OrderInv == TablesInv /\ LookupInv /\ RequestOrder /\ ResponseOrder

LEMMA OrderInductive ==
  ASSUME ~Overlap, Depth <= MaxMessages, OrderInv, [Next]_vars
  PROVE  OrderInv'
<1>1. ASSUME UNCHANGED <<pipelined, total, requesting, request_next>> PROVE RequestOrder'
  BY <1>1 DEF OrderInv, RequestOrder, Spaced, StartedCalls, Scanned, RequestersFine, Acquired,
              IdChain, EpochChain, IdAfter, EpochAfter
<1>2. ASSUME UNCHANGED <<pipelined, total, responding, response_next>> PROVE ResponseOrder'
  BY <1>2 DEF OrderInv, ResponseOrder, Spaced, StartedCalls, RespondersFine, Timed,
              IdChain, EpochChain, IdAfter, EpochAfter
<1>3. ASSUME NEW c \in Calls,
             ScanRequests(c) \/ Acquire(c) \/ AcquireFails(c) \/ FinishRequest(c)
               \/ FailRequest(c) \/ RollBack(c)
      PROVE  RequestOrder' /\ ResponseOrder'
  <2>1. UNCHANGED <<pipelined, total, responding, response_next>>
    BY <1>3 DEF ScanRequests, Acquire, AcquireFails, FinishRequest, FailRequest, RollBack,
                appVars, responseVars
  <2> QED BY <1>2, <1>3, <2>1, ScanOrder, AcquireOrder, OtherRequestOrder DEF OrderInv
<1>4. ASSUME NEW c \in Calls,
             TakeId(c) \/ TakeEpoch(c) \/ NoEntries(c) \/ RegisterMessage(c)
               \/ FinishRespond(c) \/ FailRespond(c)
      PROVE  RequestOrder' /\ ResponseOrder'
  <2>1. UNCHANGED <<pipelined, total, requesting, request_next>>
    BY <1>4 DEF TakeId, TakeEpoch, NoEntries, RegisterMessage, FinishRespond, FailRespond,
                appVars, requestVars
  <2> QED BY <1>1, <1>4, <2>1, TakeIdOrder, OtherResponseOrder DEF OrderInv
<1>5. ASSUME UNCHANGED vars PROVE RequestOrder' /\ ResponseOrder'
  BY <1>1, <1>2, <1>5 DEF vars, appVars, requestVars, responseVars
<1>6. RequestOrder' /\ ResponseOrder'
  BY <1>3, <1>4, <1>5 DEF Next
<1> QED BY <1>6, TablesInductive, LookupInductive DEF OrderInv

LEMMA OrderInvariance ==
  ASSUME ~Overlap, Depth <= MaxMessages
  PROVE  Spec => []OrderInv
<1>1. Init => OrderInv
  BY TablesInit, LookupInit, OrderInit DEF OrderInv
<1>2. OrderInv /\ [Next]_vars => OrderInv'
  BY OrderInductive
<1> QED BY <1>1, <1>2, PTL DEF Spec

LEMMA PairsMatch == OrderInv => Paired
<1> SUFFICES ASSUME OrderInv, pipelined, NobodyFailed
             PROVE  \A c \in Calls : BothTaken(c) =>
                      /\ requesting[c].id = responding[c].id
                      /\ requesting[c].epoch = responding[c].epoch
  BY DEF Paired
<1> DEFINE Match(c) == requesting[c].id = responding[c].id
                       /\ requesting[c].epoch = responding[c].epoch
           S   == Acquired \cap Timed
           Bad == {c \in S : ~Match(c)}
<1>1. RequestersFine /\ RespondersFine
  BY DEF NobodyFailed, RequestersFine, RespondersFine
<1>2. \A c \in Calls : BothTaken(c) => c \in S
  <2>1. \A c \in Calls : requesting[c].at \in {"idle", "scanned", "run", "ok"}
    BY <1>1 DEF RequestersFine, OrderInv, TablesInv, TablesTypeOK, RequestCall
  <2> QED BY <2>1 DEF BothTaken, Acquired, Timed, OrderInv, RequestOrder, ResponseOrder
<1>3. /\ Prefix(Acquired) /\ Prefix(Timed)
      /\ IdChain(requesting, Acquired, request_next)
      /\ EpochChain(requesting, Acquired, request_next)
      /\ IdChain(responding, StartedCalls(responding), response_next)
      /\ EpochChain(responding, Timed, response_next)
  BY <1>1, AcquiredPrefix, TimedPrefix DEF OrderInv, RequestOrder, ResponseOrder
<1>4. \A c \in S : /\ c \in Nat /\ c >= 1 /\ (c # 1 => c - 1 \in S)
                   /\ c \in StartedCalls(responding)
  <2> TAKE c \in S
  <2>1. c \in Nat /\ c >= 1 /\ c \in StartedCalls(responding)
    BY Sizes DEF Acquired, Timed, StartedCalls, Calls
  <2>2. c # 1 => c - 1 \in 1 .. c
    BY <2>1
  <2> QED BY <1>3, <2>1, <2>2 DEF Prefix
<1>5. ASSUME NEW c \in S, c # 1 => Match(c - 1) PROVE Match(c)
  <2>1. /\ requesting[c].id = IdAfter(requesting, c) /\ responding[c].id = IdAfter(responding, c)
        /\ requesting[c].epoch = EpochAfter(requesting, c)
        /\ responding[c].epoch = EpochAfter(responding, c)
    BY <1>3, <1>4 DEF IdChain, EpochChain
  <2> QED BY <1>5, <2>1 DEF IdAfter, EpochAfter
<1>6. Bad = {}
  <2> SUFFICES ASSUME Bad # {} PROVE FALSE
    OBVIOUS
  <2>1. Bad \subseteq Nat
    BY <1>4
  <2>2. PICK c \in Bad : \A d \in Bad : c <= d
    <3> HIDE DEF Bad
    <3> QED BY <2>1, LeastOf
  <2>3. c # 1 => c - 1 \in S /\ c - 1 \notin Bad
    BY <1>4, <2>1, <2>2
  <2> QED BY <1>5, <2>2, <2>3
<1> QED BY <1>2, <1>6

\* In a pipeline no longer than the table, and until a call fails, the two
\* sides agree on the id and the epoch of every message without ever
\* exchanging them (respond_mode, acquire_request_message).
THEOREM SidesArePaired ==
  ASSUME ~Overlap, Depth <= MaxMessages
  PROVE  Spec => []Paired
BY PairsMatch, OrderInvariance, PTL

\* The sequence numbers of W messages fit the sequence space.
Roomy(W, T) == /\ \A n \in Totals : \A c \in Calls : n[c] <= T
               /\ W * T <= SeqSpace

LEMMA CallsTimes ==
  ASSUME NEW T \in Nat
  PROVE  /\ \A x \in Nat : x * T \in Nat /\ (x + 1) * T = x * T + T
         /\ \A x, y \in Nat : x <= y => x * T <= y * T
<1>1. \A x \in Nat : x * T \in Nat /\ (x + 1) * T = x * T + T
  OBVIOUS
<1>2. ASSUME NEW x \in Nat, NEW y \in Nat, x <= y PROVE x * T <= y * T
  <2>1. PICK z \in Nat : y = x + z
    <3>1. y - x \in Nat /\ y = x + (y - x)
      BY <1>2
    <3> QED BY <3>1, Zenon
  <2>2. y * T = x * T + z * T
    BY <2>1
  <2>3. x * T \in Nat /\ z * T \in Nat /\ y * T \in Nat
    BY <1>1
  <2> QED BY <2>2, <2>3
<1> QED BY <1>1, <1>2

LEMMA NextDistance ==
  ASSUME NEW e \in Seqs, NEW s \in Seqs, NEW n \in Nat, SeqDistance(s, e) + n < SeqSpace
  PROVE  SeqDistance(SeqAdd(s, n), e) = SeqDistance(s, e) + n
<1>1. PICK k \in Seqs : k = SeqDistance(s, e)
  BY AddType
<1>2. e \in Nat /\ s \in Nat /\ k \in Nat /\ e < SeqSpace /\ s < SeqSpace /\ SeqSpace \in Nat \ {0}
      /\ k + n < SeqSpace
  BY <1>1, Sizes DEF Seqs
<1>3. s = IF e + k < SeqSpace THEN e + k ELSE (e + k) - SeqSpace
  <2>1. CASE s >= e
    <3>1. PICK z \in 0 .. SeqSpace - 1 : z = s - e
      BY <1>2, <2>1
    <3>2. k = z
      BY <1>1, <3>1, SeqModulo DEF SeqDistance
    <3> QED BY <1>2, <3>1, <3>2
  <2>2. CASE s < e
    <3>1. PICK z \in -SeqSpace .. -1 : z = s - e
      BY <1>2, <2>2
    <3>2. k = z + SeqSpace
      BY <1>1, <3>1, SeqModulo DEF SeqDistance
    <3> QED BY <1>2, <3>1, <3>2
  <2> QED BY <1>2, <2>1, <2>2
<1>4. PICK m \in Nat : m = k + n
  BY <1>2
<1>5. SeqAdd(e, m) \in Seqs /\ SeqDistance(SeqAdd(e, m), e) = m
  BY <1>2, <1>4, RangeOffsets
<1>6. SeqAdd(s, n) = SeqAdd(e, m)
  <2>1. PICK x \in Nat, y \in Nat : x = s + n /\ y = e + m
    BY <1>2, <1>4
  <2>2. x = y \/ y = x + SeqSpace
    BY <1>2, <1>3, <1>4, <2>1
  <2>3. x \in 0 .. 2 * SeqSpace - 1 /\ y \in 0 .. 2 * SeqSpace - 1
    BY <1>2, <1>4, <2>1
  <2>4. x % SeqSpace = y % SeqSpace
    <3>1. CASE x = y
      BY <3>1
    <3>2. CASE y = x + SeqSpace
      <4>1. x \in 0 .. SeqSpace - 1 /\ y \in SeqSpace .. 2 * SeqSpace - 1
        BY <1>2, <2>3, <3>2
      <4>2. x % SeqSpace = x /\ y % SeqSpace = y - SeqSpace
        BY <4>1, SeqModulo
      <4> QED BY <1>2, <2>1, <3>2, <4>2
    <3> QED BY <2>2, <3>1, <3>2
  <2> QED BY <2>1, <2>4 DEF SeqAdd
<1> QED BY <1>1, <1>4, <1>5, <1>6

LEMMA SpreadHolds ==
  ASSUME OrderInv, NEW W \in Nat, NEW T \in Nat, Roomy(W, T), pipelined, RespondersFine
  PROVE  Spread(W, T)
<1> DEFINE Ahead(b, d) == SeqDistance(responding[d].epoch, responding[b].epoch)
           Good(b, d)  == total[b] <= Ahead(b, d) /\ Ahead(b, d) <= (d - b) * T
           Bad == {k \in 1 .. W - 1 : \E b, d \in Timed : d - b = k /\ ~Good(b, d)}
<1>1. /\ Prefix(Timed) /\ Timed \in SUBSET Calls
      /\ EpochChain(responding, Timed, response_next)
  BY TimedPrefix DEF OrderInv, ResponseOrder
<1>2. \A d \in Timed : d \in Nat /\ d >= 1 /\ responding[d].epoch \in Seqs
  <2>1. \A d \in Timed : responding[d].at \in {"run", "registered", "ok"}
    BY DEF Timed, RespondersFine, OrderInv, TablesInv, TablesTypeOK, ResponseCall
  <2>2. \A d \in Calls : d \in Nat /\ d >= 1
    BY Sizes DEF Calls
  <2>3. \A d \in Timed : responding[d].epoch \in Seqs
    BY <1>1, <2>1 DEF OrderInv, TablesInv, EpochsTaken
  <2> QED BY <1>1, <2>2, <2>3
<1>3. \A c \in Calls : total[c] \in Nat /\ total[c] >= 1 /\ total[c] <= T
  BY Sizes DEF Roomy, OrderInv, TablesInv, TablesTypeOK
<1>4. \A k \in 1 .. W - 1 : k * T \in Nat /\ k * T + T <= SeqSpace
  <2> TAKE k \in 1 .. W - 1
  <2>1. k \in Nat /\ k + 1 \in Nat /\ k + 1 <= W /\ W \in Nat
    BY Sizes
  <2>2. k * T \in Nat /\ (k + 1) * T = k * T + T /\ (k + 1) * T <= W * T
    BY <2>1, CallsTimes
  <2>3. W * T <= SeqSpace /\ W * T \in Nat
    BY <2>1, CallsTimes DEF Roomy
  <2> QED BY <2>2, <2>3, Sizes
<1>5. ASSUME NEW k \in 1 .. W - 1, NEW b \in Timed, NEW d \in Timed, d - b = k,
             k > 1 => Good(b, d - 1)
      PROVE  Good(b, d)
  <2>1. d \in Nat /\ d >= 2 /\ b \in Nat /\ k \in Nat
    BY <1>2, <1>5
  <2>2. d - 1 \in Timed /\ d - 1 \in Calls
    <3>1. d - 1 \in 1 .. d
      BY <2>1
    <3> QED BY <1>1, <3>1 DEF Prefix
  <2>3. responding[d].epoch = SeqAdd(responding[d - 1].epoch, total[d - 1])
    BY <1>1, <2>1 DEF EpochChain, EpochAfter
  <2>4. PICK n \in Nat : n = total[d - 1] /\ n >= 1 /\ n <= T
    BY <1>3, <2>2
  <2>5. PICK p \in Nat : p = k * T /\ p + T <= SeqSpace
    BY <1>4
  <2>6. CASE k = 1
    <3>1. b = d - 1 /\ p = T
      BY <1>5, <2>1, <2>5, <2>6
    <3>2. SeqDistance(SeqAdd(responding[b].epoch, n), responding[b].epoch) = n
      <4>1. n < SeqSpace
        BY <2>4, <2>5, <3>1, Sizes
      <4> QED BY <1>2, <4>1, RangeOffsets
    <3>3. Ahead(b, d) = n /\ total[b] = n
      BY <2>3, <2>4, <3>1, <3>2
    <3> QED BY <1>5, <2>4, <2>5, <3>1, <3>3
  <2>7. CASE k > 1
    <3>1. PICK a \in Seqs : a = Ahead(b, d - 1)
      BY <1>2, <2>2, AddType
    <3>2. PICK q \in Nat : q = (d - 1 - b) * T /\ p = q + T
      <4>1. k - 1 \in Nat /\ d - 1 - b = k - 1
        BY <1>5, <2>1, <2>7
      <4>2. (k - 1) * T \in Nat /\ ((k - 1) + 1) * T = (k - 1) * T + T
        BY <4>1, CallsTimes
      <4>3. (k - 1) + 1 = k
        BY <2>1
      <4> QED BY <2>5, <4>1, <4>2, <4>3
    <3>3. total[b] <= a /\ a <= q
      BY <1>5, <2>7, <3>1, <3>2
    <3>4. a + n < SeqSpace /\ a \in Nat
      BY <2>4, <2>5, <3>1, <3>2, <3>3, Sizes DEF Seqs
    <3>5. Ahead(b, d) = a + n
      <4>1. PICK e \in Seqs, s \in Seqs :
              e = responding[b].epoch /\ s = responding[d - 1].epoch
        BY <1>2, <2>2
      <4>2. SeqDistance(s, e) = a
        BY <3>1, <4>1
      <4>3. SeqDistance(SeqAdd(s, n), e) = a + n
        BY <2>4, <3>4, <4>2, NextDistance
      <4> QED BY <2>3, <2>4, <4>1, <4>3
    <3>6. total[b] \in Nat
      BY <1>1, <1>3
    <3>7. (d - b) * T = q + T
      BY <1>5, <2>5, <3>2
    <3> QED BY <2>4, <3>2, <3>3, <3>4, <3>5, <3>6, <3>7
  <2> QED BY <2>1, <2>6, <2>7
<1>6. Bad = {}
  <2> SUFFICES ASSUME Bad # {} PROVE FALSE
    OBVIOUS
  <2>1. Bad \subseteq Nat
    OBVIOUS
  <2>2. PICK k \in Bad : \A i \in Bad : k <= i
    <3> HIDE DEF Bad
    <3> QED BY <2>1, LeastOf
  <2>3. k \in 1 .. W - 1 /\ \E b, d \in Timed : d - b = k /\ ~Good(b, d)
    OBVIOUS
  <2>4. PICK b \in Timed, d \in Timed : d - b = k /\ ~Good(b, d)
    BY <2>3
  <2>5. k > 1 => Good(b, d - 1)
    <3> SUFFICES ASSUME k > 1, ~Good(b, d - 1) PROVE FALSE
      OBVIOUS
    <3>1. d \in Nat /\ b \in Nat /\ b >= 1 /\ k \in Nat
      BY <1>2, <2>3
    <3>2. d - 1 \in Timed
      <4>1. d - 1 \in 1 .. d
        BY <2>4, <3>1
      <4> QED BY <1>1, <4>1 DEF Prefix
    <3>3. k - 1 \in 1 .. W - 1 /\ (d - 1) - b = k - 1 /\ k - 1 < k
      BY <2>3, <2>4, <3>1, Sizes
    <3> HIDE DEF Good
    <3>4. k - 1 \in Bad
      BY <2>4, <3>2, <3>3
    <3>5. k <= k - 1
      BY <2>2, <3>4
    <3> QED BY <3>1, <3>5
  <2> QED BY <1>5, <2>3, <2>4, <2>5
<1>7. ASSUME NEW b \in Timed, NEW d \in Timed, b < d, d - b < W PROVE Good(b, d)
  <2>1. d - b \in 1 .. W - 1
    BY <1>2, <1>7, Sizes
  <2> HIDE DEF Good
  <2> QED BY <1>6, <2>1
<1> QED BY <1>7 DEF Spread

LEMMA ResponsesMatch ==
  ASSUME OrderInv, NEW T \in Nat, Roomy(Depth, T)
  PROVE  ResponsesResolve
<1> SUFFICES ASSUME pipelined, RespondersFine, NEW d \in Calls, responding[d].at = "registered",
                    NEW hint \in Ids, NEW o \in 0 .. total[d] - 1
             PROVE  FindMessage(responses, hint, SeqAdd(responding[d].epoch, o))
                      = [id |-> responding[d].id, off |-> o]
  BY DEF ResponsesResolve, RespondersFine
<1> DEFINE s == SeqAdd(responding[d].epoch, o)
<1>1. Spread(Depth, T)
  BY SpreadHolds, Sizes
<1>2. ASSUME NEW b \in Calls, responding[b].at = "registered"
      PROVE  /\ b \in Nat /\ b \in Timed /\ responding[b].id \in Ids /\ responding[b].epoch \in Seqs
             /\ total[b] \in Nat /\ total[b] <= T /\ ~Returned(responding[b])
             /\ responses[responding[b].id].in_use /\ responses[responding[b].id].sequence_reserved
             /\ responses[responding[b].id].start_sequence = responding[b].epoch
             /\ responses[responding[b].id].total_packets = total[b]
  <2>1. responses[responding[b].id] =
             [in_use |-> TRUE, sequence_reserved |-> TRUE, reuse_ready |-> FALSE,
              start_sequence |-> responding[b].epoch, total_packets |-> total[b]]
    BY <1>2 DEF OrderInv, TablesInv, SlotsOfUsers
  <2>2. responding[b].id \in Ids /\ responding[b].epoch \in Seqs
    BY <1>2 DEF OrderInv, TablesInv, TablesTypeOK, ResponseCall, EpochsTaken
  <2>3. total[b] \in Nat /\ total[b] <= T
    BY Sizes DEF Roomy, OrderInv, TablesInv, TablesTypeOK
  <2>4. b \in Nat /\ b \in Timed /\ ~Returned(responding[b])
    BY <1>2, Sizes DEF Timed, Returned, Calls
  <2> QED BY <2>1, <2>2, <2>3, <2>4
<1>3. \A id \in Ids : responses[id].in_use /\ responses[id].sequence_reserved =>
        \E b \in Calls : responding[b].at = "registered" /\ responding[b].id = id
  BY DEF OrderInv, TablesInv, UsersOfSlots, RespondersFine
<1>4. ASSUME NEW a \in Calls, NEW b \in Calls, a < b,
             responding[a].at = "registered", responding[b].at = "registered"
      PROVE  /\ total[a] <= SeqDistance(responding[b].epoch, responding[a].epoch)
             /\ SeqDistance(responding[b].epoch, responding[a].epoch) + total[b] <= SeqSpace
  <2>1. b - a < Depth
    <3> SUFFICES ASSUME b - a >= Depth PROVE FALSE
      BY <1>2, <1>4, Sizes
    <3>1. PICK c \in Calls : c = a + Depth
      BY <1>2, <1>4, Sizes DEF Calls
    <3>2. c \in 1 .. b /\ c > Depth /\ c - Depth = a
      BY <1>2, <1>4, <3>1, Sizes DEF Calls
    <3>3. responding[c].at # "idle"
      BY <1>4, <3>2 DEF OrderInv, ResponseOrder, Prefix, StartedCalls
    <3>4. Returned(responding[a])
      BY <3>2, <3>3 DEF OrderInv, ResponseOrder, Spaced
    <3> QED BY <1>2, <1>4, <3>4
  <2>2. PICK k \in Nat : k = b - a /\ k + 1 <= Depth
    BY <1>2, <1>4, <2>1, Sizes
  <2>3. PICK x \in Seqs : x = SeqDistance(responding[b].epoch, responding[a].epoch)
    BY <1>2, <1>4, AddType
  <2>4. total[a] <= x /\ x <= k * T
    BY <1>1, <1>2, <1>4, <2>1, <2>2, <2>3 DEF Spread
  <2>5. k * T \in Nat /\ k * T + T <= SeqSpace
    <3>0. k + 1 \in Nat /\ Depth \in Nat /\ T \in Nat
      BY <2>2, Sizes
    <3>1. k * T \in Nat /\ (k + 1) * T = k * T + T /\ (k + 1) * T <= Depth * T
      BY <2>2, <3>0, CallsTimes
    <3>2. Depth * T \in Nat /\ Depth * T <= SeqSpace
      BY CallsTimes, Sizes DEF Roomy
    <3> QED BY <3>1, <3>2, Sizes
  <2>6. total[b] \in Nat /\ total[b] <= T
    BY <1>2, <1>4
  <2> QED BY <2>3, <2>4, <2>5, <2>6, Sizes DEF Seqs
<1>5. s \in Seqs /\ SeqDistance(s, responding[d].epoch) = o /\ SeqContains(responding[d].epoch, total[d], s)
  <2>1. o \in Nat /\ o < total[d]
    BY <1>2
  <2>2. o < SeqSpace
    <3>1. T <= SeqSpace
      <4>0. 1 \in Nat /\ Depth \in Nat /\ 1 <= Depth
        BY Sizes
      <4>a. 1 * T = T
        OBVIOUS
      <4>1. 1 * T \in Nat /\ 1 * T <= Depth * T /\ 1 * T = T
        BY <4>0, <4>a, CallsTimes
      <4>2. Depth * T \in Nat /\ Depth * T <= SeqSpace
        BY CallsTimes, Sizes DEF Roomy
      <4> QED BY <4>1, <4>2, Sizes
    <3> QED BY <1>2, <2>1, <3>1, Sizes
  <2>3. SeqAdd(responding[d].epoch, o) \in Seqs
        /\ SeqDistance(SeqAdd(responding[d].epoch, o), responding[d].epoch) = o
    BY <1>2, <2>1, <2>2, RangeOffsets
  <2> QED BY <2>1, <2>3 DEF SeqContains
<1>6. Holds(responses[responding[d].id], s)
  BY <1>2, <1>5 DEF Holds
<1>7. ASSUME NEW j \in Ids, Holds(responses[j], s) PROVE j = responding[d].id
  <2>1. PICK b \in Calls : responding[b].at = "registered" /\ responding[b].id = j
    BY <1>3, <1>7 DEF Holds
  <2>2. SeqContains(responding[b].epoch, total[b], s)
    BY <1>2, <1>7, <2>1 DEF Holds
  <2>3. ~(b < d)
    <3> SUFFICES ASSUME b < d PROVE FALSE
      OBVIOUS
    <3> QED BY <1>2, <1>4, <1>5, <2>1, <2>2, RangesApart
  <2>4. ~(d < b)
    <3> SUFFICES ASSUME d < b PROVE FALSE
      OBVIOUS
    <3> QED BY <1>2, <1>4, <1>5, <2>1, <2>2, RangesApart
  <2>5. b = d
    BY <1>2, <2>1, <2>3, <2>4
  <2> QED BY <2>1, <2>5
<1> HIDE DEF s
<1>8. FindMessage(responses, hint, s)
        = [id |-> responding[d].id, off |-> SeqDistance(s, responses[responding[d].id].start_sequence)]
  BY <1>2, <1>6, <1>7, Found
<1> QED BY <1>2, <1>5, <1>8 DEF s

\* In a pipeline whose messages fit the sequence space, and until a respond
\* call fails, every request of a registered message finds it, although the
\* responder never compares ranges (find_response_message_for_sequence).
THEOREM ResponsesAreFound ==
  ASSUME ~Overlap, Depth <= MaxMessages, NEW T \in Nat, Roomy(Depth, T)
  PROVE  Spec => []ResponsesResolve
BY ResponsesMatch, OrderInvariance, PTL

-----------------------------------------------------------------------------
(* A channel that carries fewer packets than there are sequence numbers.   *)

\* The numbers never begin anew.
Brief(T) == /\ \A n \in Totals : \A c \in Calls : n[c] <= T
            /\ MaxCalls * T < SeqSpace

Dated == {d \in Calls : responding[d].epoch # NoEpoch}

\* The range of a call is never given out again, unless its entries could not
\* be had.
KeepsRange(d) == responding[d].at \in {"run", "registered", "ok"} \/ d \in answered

RangesInv(T) ==
    /\ \A d \in Calls : responding[d].at \in {"idle", "id"} => responding[d].epoch = NoEpoch
    /\ response_next.seq <= Cardinality(Dated) * T
    /\ \A d \in Calls : KeepsRange(d) =>
          responding[d].epoch \in Seqs /\ responding[d].epoch + total[d] <= response_next.seq
    /\ \A b, d \in Calls : b # d /\ KeepsRange(b) /\ KeepsRange(d) =>
          \/ responding[b].epoch + total[b] <= responding[d].epoch
          \/ responding[d].epoch + total[d] <= responding[b].epoch

\* A tombstone is that of an answered call.
TombstonesInv ==
    \A id \in Ids : tombstones[id] # NoEpoch =>
        \E d \in answered : responding[d].epoch = tombstones[id]

BriefInv(T) == TablesInv /\ RangesInv(T) /\ TombstonesInv /\ OkMeansAnswered

LEMMA BriefInit ==
  ASSUME Init, NEW T \in Nat
  PROVE  RangesInv(T) /\ TombstonesInv /\ OkMeansAnswered
<1>1. Dated = {} /\ response_next.seq = 0 /\ answered = {}
  BY DEF Init, Dated
<1>2. response_next.seq <= Cardinality(Dated) * T
  BY <1>1, FS_EmptySet
<1>3. \A d \in Calls : ~KeepsRange(d) /\ responding[d].at = "idle" /\ responding[d].epoch = NoEpoch
  BY <1>1 DEF Init, KeepsRange
<1>4. \A id \in Ids : tombstones[id] = NoEpoch
  BY DEF Init
<1> QED BY <1>1, <1>2, <1>3, <1>4 DEF RangesInv, TombstonesInv, OkMeansAnswered

LEMMA CallsFinite == IsFiniteSet(Calls) /\ Cardinality(Calls) = MaxCalls
<1>1. 1 <= MaxCalls \/ MaxCalls = 0
  BY Sizes
<1>2. CASE MaxCalls = 0
  <2>1. Calls = {}
    BY <1>2 DEF Calls
  <2> QED BY <1>2, <2>1, FS_EmptySet
<1>3. CASE 1 <= MaxCalls
  <2>1. IsFiniteSet(1 .. MaxCalls) /\ Cardinality(1 .. MaxCalls) = MaxCalls - 1 + 1
    BY <1>3, Sizes, FS_Interval
  <2> QED BY <2>1, Sizes DEF Calls
<1> QED BY <1>1, <1>2, <1>3

LEMMA BriefFrame ==
  ASSUME TablesInv
  PROVE  /\ response_next \in Cursor /\ responding \in [Calls -> ResponseCall]
         /\ answered \subseteq Calls
         /\ \A d \in answered : responding[d].at \in {"registered", "ok", "failed"}
BY DEF TablesInv, TablesTypeOK, AnsweredRegistered

LEMMA BriefTypes ==
  ASSUME TablesInv, NEW T \in Nat, Brief(T)
  PROVE  /\ \A c \in Calls : total[c] \in Nat /\ total[c] >= 1 /\ total[c] <= T
         /\ response_next \in Cursor /\ response_next.seq \in Nat
         /\ responding \in [Calls -> ResponseCall] /\ answered \subseteq Calls
         /\ \A d \in answered : responding[d].at \in {"registered", "ok", "failed"}
         /\ \A d \in Calls : responding[d].epoch \in Seqs \cup {NoEpoch}
         /\ \A s \in Seqs : s \in Nat /\ s # NoEpoch /\ s < SeqSpace
         /\ Cardinality(Dated) \in Nat /\ Cardinality(Dated) <= MaxCalls
         /\ Dated \subseteq Calls /\ IsFiniteSet(Dated)
         /\ MaxCalls \in Nat /\ MaxCalls * T \in Nat /\ MaxCalls * T < SeqSpace
         /\ Cardinality(Dated) * T <= MaxCalls * T /\ Cardinality(Dated) * T \in Nat
<1>1. \A c \in Calls : total[c] \in Nat /\ total[c] >= 1 /\ total[c] <= T
  BY Sizes DEF Brief, TablesInv, TablesTypeOK
<1>2. /\ response_next \in Cursor /\ responding \in [Calls -> ResponseCall]
      /\ answered \subseteq Calls
      /\ \A d \in answered : responding[d].at \in {"registered", "ok", "failed"}
  BY DEF TablesInv, TablesTypeOK, AnsweredRegistered
<1>3. \A s \in Seqs : s \in Nat /\ s # NoEpoch /\ s < SeqSpace
  BY Sizes DEF Seqs, NoEpoch
<1>4. response_next.seq \in Nat /\ \A d \in Calls : responding[d].epoch \in Seqs \cup {NoEpoch}
  BY <1>2, <1>3 DEF Cursor, ResponseCall
<1>5. /\ Cardinality(Dated) \in Nat /\ Cardinality(Dated) <= MaxCalls
      /\ Dated \subseteq Calls /\ IsFiniteSet(Dated)
  <2>1. IsFiniteSet(Calls) /\ Cardinality(Calls) = MaxCalls
    BY CallsFinite
  <2>2. Dated \subseteq Calls
    BY DEF Dated
  <2> QED BY <2>1, <2>2, FS_Subset, FS_CardinalityType
<1>6. /\ MaxCalls \in Nat /\ MaxCalls * T \in Nat /\ Cardinality(Dated) * T \in Nat
      /\ Cardinality(Dated) * T <= MaxCalls * T
  BY <1>5, Sizes, CallsTimes
<1> QED BY <1>1, <1>2, <1>3, <1>4, <1>5, <1>6 DEF Brief

\* A new range is behind all others.
LEMMA TakeEpochRanges ==
  ASSUME NEW T \in Nat, Brief(T), BriefInv(T), NEW c \in Calls, TakeEpoch(c)
  PROVE  RangesInv(T)'
<1>1. TablesInv /\ RangesInv(T)
  BY DEF BriefInv
<1>2. /\ responding[c].at = "id" /\ responding[c].epoch = NoEpoch /\ c \notin Dated /\ c \notin answered
      /\ UNCHANGED <<total, answered>>
  BY <1>1, BriefTypes DEF TakeEpoch, RangesInv, Dated, appVars
<1>3. /\ responding'[c].at = "run" /\ responding'[c].epoch = response_next.seq
      /\ \A d \in Calls : d # c => responding'[d] = responding[d]
      /\ response_next'.seq = SeqAdd(response_next.seq, total[c])
  BY <1>1, BriefTypes DEF TakeEpoch, ResponseCall, Cursor
<1>4. response_next.seq \in Seqs /\ response_next.seq \in Nat
  BY <1>1, BriefTypes DEF Cursor
<1>5. /\ Dated' = Dated \cup {c} /\ Cardinality(Dated') = Cardinality(Dated) + 1
      /\ Cardinality(Dated) + 1 <= MaxCalls
  <2>1. Dated' = Dated \cup {c}
    BY <1>1, <1>3, <1>4, BriefTypes DEF Dated
  <2>2. Cardinality(Dated') = Cardinality(Dated) + 1
    BY <1>1, <1>2, <2>1, BriefTypes, FS_AddElement
  <2>3. Cardinality(Dated') <= MaxCalls
    <3>1. Dated' \subseteq Calls
      BY <1>1, <2>1, BriefTypes
    <3>2. IsFiniteSet(Calls) /\ Cardinality(Calls) = MaxCalls
      BY CallsFinite
    <3> QED BY <3>1, <3>2, FS_Subset
  <2> QED BY <2>1, <2>2, <2>3
<1>6. /\ response_next.seq + total[c] <= Cardinality(Dated') * T
      /\ response_next'.seq = response_next.seq + total[c]
  <2>1. PICK n \in Nat, m \in Nat :
          /\ n = Cardinality(Dated) * T /\ m = Cardinality(Dated') * T
          /\ m = n + T /\ m <= MaxCalls * T
    <3>1. PICK k \in Nat : k = Cardinality(Dated) /\ k + 1 = Cardinality(Dated') /\ k + 1 <= MaxCalls
      BY <1>1, <1>5, BriefTypes
    <3>2. k + 1 \in Nat /\ MaxCalls \in Nat
      BY <3>1, Sizes
    <3>3. /\ k * T \in Nat /\ (k + 1) * T \in Nat /\ (k + 1) * T = k * T + T
          /\ (k + 1) * T <= MaxCalls * T
      BY <3>1, <3>2, CallsTimes, Zenon
    <3> QED BY <3>1, <3>3
  <2>2. response_next.seq <= n
    BY <1>1, <2>1 DEF RangesInv
  <2>3. PICK x \in 0 .. SeqSpace - 1 : x = response_next.seq + total[c] /\ x <= m
    BY <1>1, <1>4, <2>1, <2>2, BriefTypes, Sizes
  <2>4. x % SeqSpace = x
    BY SeqModulo, Zenon
  <2> QED BY <1>3, <2>1, <2>3, <2>4 DEF SeqAdd
<1>7. \A d \in Calls : KeepsRange(d)' => d = c \/ KeepsRange(d)
  BY <1>2, <1>3 DEF KeepsRange
<1>8. \A d \in Calls : KeepsRange(d) => responding[d].epoch + total[d] <= response_next.seq
                                        /\ responding[d].epoch \in Seqs /\ d # c
  BY <1>1, <1>2 DEF RangesInv, KeepsRange
<1>9. \A d \in Calls : KeepsRange(d)' =>
          responding'[d].epoch \in Seqs /\ responding'[d].epoch + total[d] <= response_next'.seq
  <2> SUFFICES ASSUME NEW d \in Calls, KeepsRange(d)'
               PROVE  responding'[d].epoch \in Seqs /\ responding'[d].epoch + total[d] <= response_next'.seq
    OBVIOUS
  <2>1. CASE d = c
    BY <1>3, <1>4, <1>6, <2>1, <1>1, BriefTypes
  <2>2. CASE d # c
    <3>1. responding'[d] = responding[d] /\ KeepsRange(d)
      BY <1>3, <1>7, <2>2
    <3>2. responding[d].epoch \in Nat /\ total[d] \in Nat /\ total[c] \in Nat
      BY <1>1, <1>8, <3>1, BriefTypes
    <3> QED BY <1>4, <1>6, <1>8, <3>1, <3>2
  <2> QED BY <2>1, <2>2
<1>10. ASSUME NEW b \in Calls, NEW d \in Calls, b # d, KeepsRange(b)', KeepsRange(d)'
       PROVE  \/ responding'[b].epoch + total[b] <= responding'[d].epoch
              \/ responding'[d].epoch + total[d] <= responding'[b].epoch
  BY <1>1, <1>3, <1>7, <1>8, <1>10 DEF RangesInv
<1>11. \A d \in Calls : responding'[d].at \in {"idle", "id"} => responding'[d].epoch = NoEpoch
  BY <1>1, <1>3 DEF RangesInv
<1> QED BY <1>2, <1>6, <1>9, <1>10, <1>11 DEF RangesInv

\* The last range goes back, and it overlaps none that is kept.
LEMMA NoEntriesRanges ==
  ASSUME NEW T \in Nat, Brief(T), BriefInv(T), NEW c \in Calls, NoEntries(c)
  PROVE  RangesInv(T)'
<1>1. TablesInv /\ RangesInv(T)
  BY DEF BriefInv
<1>2. /\ responding[c].at = "run" /\ c \notin answered /\ KeepsRange(c)
      /\ UNCHANGED <<total, answered>>
  BY <1>1, BriefTypes DEF NoEntries, KeepsRange, appVars
<1>3. /\ responding'[c].at = "failed"
      /\ \A d \in Calls : responding'[d].epoch = responding[d].epoch
      /\ \A d \in Calls : d # c => responding'[d] = responding[d]
  BY <1>1, BriefTypes DEF NoEntries, ResponseCall
<1>4. PICK e \in Nat, n \in Nat : e = responding[c].epoch /\ n = total[c] /\ n >= 1
                                  /\ e + n <= response_next.seq
  BY <1>1, <1>2, BriefTypes DEF RangesInv
<1>5. /\ response_next.seq \in Nat /\ response_next.seq < SeqSpace
      /\ response_next.seq <= Cardinality(Dated) * T
  BY <1>1, BriefTypes DEF Cursor, RangesInv
<1>6. SeqAdd(e, n) = e + n
  <2>1. PICK x \in 0 .. SeqSpace - 1 : x = e + n
    BY <1>4, <1>5, Sizes
  <2>2. x % SeqSpace = x
    BY SeqModulo, Zenon
  <2> QED BY <2>1, <2>2 DEF SeqAdd
<1>7. \/ response_next'.seq = response_next.seq
      \/ response_next.seq = e + n /\ response_next'.seq = e
  <2>1. response_next' = IF response_next.seq = SeqAdd(e, n)
                         THEN [response_next EXCEPT !.seq = e] ELSE response_next
    BY <1>4 DEF NoEntries
  <2>2. response_next \in Cursor
    BY <1>1, BriefTypes
  <2> QED BY <1>6, <2>1, <2>2 DEF Cursor
<1>8. \A d \in Calls : KeepsRange(d)' => KeepsRange(d) /\ d # c
  BY <1>2, <1>3 DEF KeepsRange
<1>9. Dated' = Dated /\ response_next'.seq <= Cardinality(Dated) * T
  <2>1. Dated' = Dated
    BY <1>3 DEF Dated
  <2>2. Cardinality(Dated) * T \in Nat
    BY <1>1, BriefTypes
  <2> QED BY <1>4, <1>5, <1>7, <2>1, <2>2
<1>10. ASSUME NEW d \in Calls, KeepsRange(d)'
       PROVE  responding'[d].epoch \in Seqs /\ responding'[d].epoch + total[d] <= response_next'.seq
  <2>1. KeepsRange(d) /\ d # c /\ responding'[d].epoch = responding[d].epoch
    BY <1>3, <1>8, <1>10
  <2>2. PICK x \in Nat, m \in Nat : x = responding[d].epoch /\ m = total[d] /\ m >= 1
                                    /\ x + m <= response_next.seq
    BY <1>1, <2>1, BriefTypes DEF RangesInv
  <2>3. e + n <= x \/ x + m <= e
    BY <1>1, <1>2, <1>4, <2>1, <2>2 DEF RangesInv
  <2>4. responding[d].epoch \in Seqs
    BY <1>1, <2>1 DEF RangesInv
  <2> QED BY <1>4, <1>5, <1>7, <2>1, <2>2, <2>3, <2>4
<1>11. ASSUME NEW b \in Calls, NEW d \in Calls, b # d, KeepsRange(b)', KeepsRange(d)'
       PROVE  \/ responding'[b].epoch + total[b] <= responding'[d].epoch
              \/ responding'[d].epoch + total[d] <= responding'[b].epoch
  BY <1>1, <1>3, <1>8, <1>11 DEF RangesInv
<1>12. \A d \in Calls : responding'[d].at \in {"idle", "id"} => responding'[d].epoch = NoEpoch
  BY <1>1, <1>3 DEF RangesInv
<1> QED BY <1>2, <1>9, <1>10, <1>11, <1>12 DEF RangesInv

\* No other step gives a range or takes one back.
LEMMA RangesKept ==
  ASSUME NEW T \in Nat, RangesInv(T), total' = total, response_next'.seq = response_next.seq,
         \A d \in Calls : responding'[d].epoch = responding[d].epoch,
         \A d \in Calls : responding'[d].at \in {"idle", "id"} => responding[d].at \in {"idle", "id"},
         \A d \in Calls : KeepsRange(d)' => KeepsRange(d)
  PROVE  RangesInv(T)'
<1>1. Dated' = Dated
  BY DEF Dated
<1> QED BY <1>1 DEF RangesInv

\* An acknowledged END leaves its tombstone.
LEMMA AcknowledgeTombstones ==
  ASSUME TablesInv, TombstonesInv, OkMeansAnswered, NEW c \in Calls,
         AcknowledgeEnd(c) \/ UNCHANGED <<tombstones, answered>>, UNCHANGED responding
  PROVE  /\ TombstonesInv' /\ OkMeansAnswered'
         /\ \A d \in Calls : KeepsRange(d)' => KeepsRange(d)
<1>1. CASE UNCHANGED <<tombstones, answered>>
  BY <1>1 DEF TombstonesInv, OkMeansAnswered, KeepsRange
<1>2. CASE AcknowledgeEnd(c)
  <2>1. /\ answered' = answered \cup Ended(c) /\ Ended(c) # {}
        /\ tombstones' = [tombstones EXCEPT ![requesting[c].id] = EpochOf(c)]
        /\ tombstones \in [Ids -> Seqs \cup {NoEpoch}]
        /\ \A d \in Ended(c) : responding[d].epoch = EpochOf(c) /\ responding[d].at = "registered"
    BY <1>2 DEF AcknowledgeEnd, Ended, TablesInv, TablesTypeOK
  <2>2. TombstonesInv'
    BY <2>1 DEF TombstonesInv
  <2> QED BY <2>1, <2>2 DEF OkMeansAnswered, KeepsRange
<1> QED BY <1>1, <1>2

\* The call whose END a tombstone answers is the one that left it: no other
\* range begins at its epoch.
LEMMA FinishRespondBrief ==
  ASSUME NEW T \in Nat, Brief(T), BriefInv(T), NEW c \in Calls, FinishRespond(c)
  PROVE  OkMeansAnswered'
<1>1. TablesInv /\ RangesInv(T) /\ TombstonesInv /\ OkMeansAnswered
  BY DEF BriefInv
<1>2. /\ responding[c].at = "registered" /\ tombstones[responding[c].id] = responding[c].epoch
      /\ answered' = answered /\ \A d \in Calls : d # c => responding'[d] = responding[d]
  BY <1>1, BriefTypes DEF FinishRespond, TombstoneAnswers
<1>3. KeepsRange(c) /\ responding[c].epoch \in Seqs /\ responding[c].id \in Ids
  BY <1>1, <1>2, BriefTypes DEF KeepsRange, RangesInv, ResponseCall
<1>4. PICK d \in answered : responding[d].epoch = responding[c].epoch
  BY <1>1, <1>2, <1>3, BriefTypes DEF TombstonesInv
<1>5. d = c
  <2> SUFFICES ASSUME d # c PROVE FALSE
    OBVIOUS
  <2>1. d \in Calls /\ KeepsRange(d)
    BY <1>1, BriefTypes DEF KeepsRange
  <2>2. PICK e \in Nat, n \in Nat, m \in Nat :
          /\ e = responding[c].epoch /\ e = responding[d].epoch
          /\ n = total[c] /\ n >= 1 /\ m = total[d] /\ m >= 1
    BY <1>1, <1>3, <1>4, <2>1, BriefTypes
  <2>3. e + n <= e \/ e + m <= e
    BY <1>1, <1>3, <2>1, <2>2 DEF RangesInv
  <2> QED BY <2>2, <2>3
<1> QED BY <1>1, <1>2, <1>4, <1>5 DEF OkMeansAnswered

LEMMA BriefInductive ==
  ASSUME NEW T \in Nat, Brief(T), BriefInv(T), [Next]_vars
  PROVE  BriefInv(T)'
<1>1. TablesInv /\ RangesInv(T) /\ TombstonesInv /\ OkMeansAnswered
  BY DEF BriefInv
<1> DEFINE Goal == RangesInv(T)' /\ TombstonesInv' /\ OkMeansAnswered'
<1>2. ASSUME UNCHANGED <<total, response_next, responding>>, NEW c \in Calls,
             AcknowledgeEnd(c) \/ UNCHANGED <<tombstones, answered>>
      PROVE  Goal
  <2>1. /\ TombstonesInv' /\ OkMeansAnswered'
        /\ \A d \in Calls : KeepsRange(d)' => KeepsRange(d)
    BY <1>1, <1>2, AcknowledgeTombstones
  <2> QED BY <1>1, <1>2, <2>1, RangesKept
<1>3. ASSUME NEW c \in Calls,
             ScanRequests(c) \/ Acquire(c) \/ AcquireFails(c) \/ FinishRequest(c)
               \/ FailRequest(c) \/ RollBack(c)
      PROVE  Goal
  <2>1. UNCHANGED <<total, response_next, responding>>
    BY <1>3 DEF ScanRequests, Acquire, AcquireFails, FinishRequest, FailRequest, RollBack,
                appVars, responseVars
  <2>2. AcknowledgeEnd(c) \/ UNCHANGED <<tombstones, answered>>
    BY <1>3 DEF ScanRequests, Acquire, AcquireFails, FinishRequest, FailRequest, RollBack
  <2> QED BY <1>2, <2>1, <2>2
\* A step of the responder other than the return: who is answered stays.
<1>4. ASSUME NEW c \in Calls, UNCHANGED <<total, tombstones, answered>>,
             \A d \in Calls : responding'[d].at = "ok" => responding[d].at = "ok",
             \A d \in answered : responding'[d].epoch = responding[d].epoch
      PROVE  TombstonesInv' /\ OkMeansAnswered'
  BY <1>1, <1>4 DEF TombstonesInv, OkMeansAnswered
<1>5. ASSUME NEW c \in Calls, TakeId(c) PROVE Goal
  <2>1. /\ UNCHANGED <<total, tombstones, answered>> /\ response_next'.seq = response_next.seq
        /\ responding[c].at = "idle" /\ responding'[c].at \in {"id", "failed"}
        /\ responding'[c].epoch = responding[c].epoch
        /\ \A d \in Calls : d # c => responding'[d] = responding[d]
    <3>1. /\ UNCHANGED <<total, tombstones, answered>> /\ responding[c].at = "idle"
          /\ response_next \in Cursor /\ responding \in [Calls -> ResponseCall]
      BY <1>1, <1>5, BriefFrame DEF TakeId, MayStart, appVars
    <3>2. CASE FreeResponses = {}
      <4>1. responding' = [responding EXCEPT ![c].at = "failed"] /\ response_next' = response_next
        BY <1>5, <3>2 DEF TakeId
      <4> QED BY <3>1, <4>1 DEF ResponseCall
    <3>3. CASE FreeResponses # {}
      <4>1. PICK id : /\ responding' = [responding EXCEPT ![c] =
                                          [responding[c] EXCEPT !.at = "id", !.id = id]]
                      /\ response_next' = [response_next EXCEPT !.id = ResponseCursor(id)]
        BY <1>5, <3>3 DEF TakeId
      <4> QED BY <3>1, <4>1 DEF ResponseCall, Cursor
    <3> QED BY <3>1, <3>2, <3>3
  <2>2. c \notin answered
    BY <1>1, <2>1 DEF TablesInv, AnsweredRegistered
  <2>3. \A d \in Calls : KeepsRange(d)' => KeepsRange(d)
    BY <2>1, <2>2 DEF KeepsRange
  <2>4. RangesInv(T)'
    BY <1>1, <2>1, <2>3, RangesKept
  <2> QED BY <1>4, <2>1, <2>4, <1>1, BriefFrame
<1>6. ASSUME NEW c \in Calls, TakeEpoch(c) PROVE Goal
  <2>1. /\ UNCHANGED <<total, tombstones, answered>> /\ c \notin answered
        /\ responding'[c].at = "run"
        /\ \A d \in Calls : d # c => responding'[d] = responding[d]
    BY <1>1, <1>6, BriefFrame DEF TakeEpoch, appVars, ResponseCall
  <2> QED BY <1>4, <1>6, <2>1, TakeEpochRanges, <1>1, BriefFrame
<1>7. ASSUME NEW c \in Calls, NoEntries(c) PROVE Goal
  <2>1. /\ UNCHANGED <<total, tombstones, answered>>
        /\ responding'[c].at = "failed" /\ responding'[c].epoch = responding[c].epoch
        /\ \A d \in Calls : d # c => responding'[d] = responding[d]
    BY <1>1, <1>7, BriefFrame DEF NoEntries, appVars, ResponseCall
  <2> QED BY <1>4, <1>7, <2>1, NoEntriesRanges, <1>1, BriefFrame
<1>8. ASSUME NEW c \in Calls, RegisterMessage(c) \/ FailRespond(c) PROVE Goal
  <2>1. /\ UNCHANGED <<total, tombstones, answered, response_next>>
        /\ responding[c].at \in {"run", "registered"}
        /\ responding'[c].at \in {"registered", "failed"}
        /\ responding'[c].epoch = responding[c].epoch
        /\ \A d \in Calls : d # c => responding'[d] = responding[d]
    BY <1>1, <1>8, BriefFrame DEF RegisterMessage, FailRespond, appVars, ResponseCall
  <2>2. \A d \in Calls : KeepsRange(d)' => KeepsRange(d)
    BY <2>1 DEF KeepsRange
  <2>3. RangesInv(T)'
    BY <1>1, <2>1, <2>2, RangesKept
  <2> QED BY <1>4, <2>1, <2>3, <1>1, BriefFrame
<1>9. ASSUME NEW c \in Calls, FinishRespond(c) PROVE Goal
  <2>1. /\ UNCHANGED <<total, tombstones, answered, response_next>>
        /\ responding[c].at = "registered" /\ responding'[c].at = "ok"
        /\ responding'[c].epoch = responding[c].epoch
        /\ \A d \in Calls : d # c => responding'[d] = responding[d]
    BY <1>1, <1>9, BriefFrame DEF FinishRespond, appVars, ResponseCall
  <2>2. \A d \in Calls : KeepsRange(d)' => KeepsRange(d)
    BY <2>1 DEF KeepsRange
  <2>3. RangesInv(T)'
    BY <1>1, <2>1, <2>2, RangesKept
  <2>4. TombstonesInv'
    BY <1>1, <2>1, BriefFrame DEF TombstonesInv
  <2> QED BY <1>9, <2>3, <2>4, FinishRespondBrief
<1>10. ASSUME UNCHANGED vars PROVE Goal
  <2>1. UNCHANGED <<total, response_next, responding, tombstones, answered>>
    BY <1>10 DEF vars, appVars, responseVars
  <2> QED BY <1>1, <2>1, RangesKept DEF TombstonesInv, OkMeansAnswered, KeepsRange
<1> HIDE DEF Goal
<1>11. Goal
  BY <1>3, <1>5, <1>6, <1>7, <1>8, <1>9, <1>10 DEF Next
<1> QED BY <1>1, <1>11, TablesInductive DEF Goal, BriefInv

\* Until a channel has carried as many packets as there are sequence numbers,
\* respond returns success only when the requester has completed that very
\* message: however many calls fail or overlap, and whatever slots and ids they
\* reuse, no tombstone of another message answers its END
\* (host.c, host_ack_tombstoned_end).
THEOREM OkIsAnswered ==
  ASSUME NEW T \in Nat, Brief(T)
  PROVE  Spec => []OkMeansAnswered
<1>1. Init => BriefInv(T)
  BY TablesInit, BriefInit DEF BriefInv
<1>2. BriefInv(T) /\ [Next]_vars => BriefInv(T)'
  BY BriefInductive
<1>3. BriefInv(T) => OkMeansAnswered
  BY DEF BriefInv
<1> QED BY <1>1, <1>2, <1>3, PTL DEF Spec

-----------------------------------------------------------------------------
(* A pipeline of any length.                                               *)

\* A call takes an id only after the calls that had it have returned.
IdsInTurn ==
    \A b, d \in StartedCalls(responding) :
        b < d /\ responding[b].id = responding[d].id => responding[b].at = "ok"

\* The tombstone of an id is that of its last answered call.
LastTombstones ==
    \A id \in Ids : tombstones[id] # NoEpoch =>
        \E d \in answered :
            /\ responding[d].id = id /\ responding[d].epoch = tombstones[id]
            /\ \A b \in answered : responding[b].id = id => b <= d

TurnInv == pipelined /\ RespondersFine => IdsInTurn /\ LastTombstones /\ OkMeansAnswered

LEMMA TurnFrame ==
  ASSUME TablesInv
  PROVE  /\ responding \in [Calls -> ResponseCall] /\ answered \subseteq Calls
         /\ answered \subseteq StartedCalls(responding)
         /\ \A d \in answered : responding[d].at \in {"registered", "ok", "failed"}
         /\ \A d \in Calls : d \in Nat /\ d >= 1
         /\ StartedCalls(responding) \subseteq Calls
BY Sizes DEF TablesInv, TablesTypeOK, AnsweredRegistered, StartedCalls, Calls

LEMMA TurnInit == Init => TurnInv
<1> SUFFICES ASSUME Init PROVE TurnInv
  OBVIOUS
<1>1. StartedCalls(responding) = {} /\ \A d \in Calls : responding[d].at = "idle"
  BY DEF Init, StartedCalls
<1>2. \A id \in Ids : tombstones[id] = NoEpoch
  BY DEF Init
<1> QED BY <1>1, <1>2 DEF TurnInv, IdsInTurn, LastTombstones, OkMeansAnswered

\* A slot that can be taken has no user left.
LEMMA TakeIdTurn ==
  ASSUME TablesInv, ResponseOrder, TurnInv, NEW c \in Calls, TakeId(c)
  PROVE  TurnInv'
<1> SUFFICES ASSUME pipelined, RespondersFine'
             PROVE  IdsInTurn' /\ LastTombstones' /\ OkMeansAnswered'
  BY DEF TurnInv, TakeId, appVars
<1> DEFINE id == FirstFrom(response_next.id, FreeResponses)
<1>1. /\ responding[c].at = "idle" /\ UNCHANGED <<tombstones, answered>>
      /\ \A b \in 1 .. c - 1 : responding[b].at # "idle"
  BY DEF TakeId, MayStart
<1>2. responding \in [Calls -> ResponseCall]
  BY TurnFrame
<1>3. FreeResponses # {}
  <2> SUFFICES ASSUME FreeResponses = {} PROVE FALSE
    OBVIOUS
  <2>1. responding' = [responding EXCEPT ![c].at = "failed"]
    BY DEF TakeId
  <2>2. responding'[c].at = "failed"
    BY <1>2, <2>1 DEF ResponseCall
  <2> QED BY <2>2 DEF RespondersFine
<1>4. responding' = [responding EXCEPT ![c] = [responding[c] EXCEPT !.at = "id", !.id = id]]
  BY <1>3 DEF TakeId
<1>5. id \in FreeResponses
  <2>1. response_next.id \in Ids /\ FreeResponses \subseteq Ids
    BY DEF FreeResponses, TablesInv, TablesTypeOK, Cursor
  <2> QED BY <1>3, <2>1, FirstIsFree
<1> HIDE DEF id
<1>6. /\ responding'[c].at = "id" /\ responding'[c].id = id
      /\ \A d \in Calls : d # c => responding'[d] = responding[d]
  BY <1>2, <1>4 DEF ResponseCall
<1>7. RespondersFine
  BY <1>1, <1>6 DEF RespondersFine
<1>8. IdsInTurn /\ LastTombstones /\ OkMeansAnswered
  BY <1>7 DEF TurnInv
<1>9. c \notin answered
  BY <1>1, TurnFrame
<1>10. \A b \in Calls : b > c => responding[b].at = "idle"
  <2> TAKE b \in Calls
  <2> HAVE b > c
  <2>1. c \in 1 .. b
    BY TurnFrame
  <2> QED BY <1>1, <2>1 DEF ResponseOrder, Prefix, StartedCalls
<1>11. IdsInTurn'
  <2> SUFFICES ASSUME NEW b \in Calls, NEW d \in Calls, b < d,
                      responding'[b].at # "idle", responding'[d].at # "idle",
                      responding'[b].id = responding'[d].id
               PROVE  responding'[b].at = "ok"
    BY DEF IdsInTurn, StartedCalls
  <2>1. CASE d = c
    <3>1. b # c /\ responding[b].id = id /\ responding[b].at # "idle"
      BY <1>6, <2>1, TurnFrame
    <3>2. ~Using(b)
      BY <1>5, <3>1 DEF TablesInv, SlotsOfUsers, FreeResponses
    <3>3. responding[b].at = "ok"
      BY <1>2, <1>7, <3>1, <3>2 DEF Using, ResponseCall, RespondersFine
    <3> QED BY <1>6, <3>1, <3>3
  <2>2. CASE b = c
    <3>1. responding[d].at = "idle" /\ d # c
      BY <1>10, <2>2, TurnFrame
    <3> QED BY <1>6, <3>1
  <2>3. CASE b # c /\ d # c
    BY <1>6, <1>8, <2>3 DEF IdsInTurn, StartedCalls
  <2> QED BY <2>1, <2>2, <2>3
<1>12. \A d \in answered : responding'[d] = responding[d]
  BY <1>6, <1>9, TurnFrame
<1>13. LastTombstones'
  BY <1>1, <1>8, <1>12 DEF LastTombstones
<1>14. OkMeansAnswered'
  BY <1>1, <1>6, <1>8 DEF OkMeansAnswered
<1> QED BY <1>11, <1>13, <1>14

\* Steps after that keep the ids; a call that has returned stays so.
LEMMA IdsKept ==
  ASSUME IdsInTurn,
         \A d \in Calls : responding'[d].id = responding[d].id,
         \A d \in Calls : responding'[d].at # "idle" => responding[d].at # "idle",
         \A d \in Calls : responding[d].at = "ok" => responding'[d].at = "ok"
  PROVE  IdsInTurn'
BY DEF IdsInTurn, StartedCalls

\* The call that is answered has its id last of all that were.
LEMMA AcknowledgeLast ==
  ASSUME TablesInv, IdsInTurn, LastTombstones, NEW c \in Calls,
         AcknowledgeEnd(c) \/ UNCHANGED <<tombstones, answered>>, UNCHANGED responding
  PROVE  LastTombstones'
<1>1. CASE UNCHANGED <<tombstones, answered>>
  BY <1>1 DEF LastTombstones
<1>2. CASE AcknowledgeEnd(c)
  <2>1. /\ answered' = answered \cup Ended(c)
        /\ tombstones' = [tombstones EXCEPT ![requesting[c].id] = EpochOf(c)]
        /\ tombstones \in [Ids -> Seqs \cup {NoEpoch}]
        /\ \A d \in Ended(c) : /\ d \in Calls /\ responding[d].at = "registered"
                               /\ responding[d].id = requesting[c].id
                               /\ responding[d].epoch = EpochOf(c)
    BY <1>2 DEF AcknowledgeEnd, Ended, TablesInv, TablesTypeOK
  <2>2. PICK e \in Ended(c) : TRUE
    BY <1>2 DEF AcknowledgeEnd
  <2>3. \A d \in Ended(c) : d = e
    BY <2>1, <2>2 DEF TablesInv, SlotsOfUsers, Using
  <2>4. ASSUME NEW b \in answered', responding[b].id = requesting[c].id PROVE b <= e
    <3>1. CASE b \in Ended(c)
      BY <2>1, <2>2, <2>3, <3>1, TurnFrame
    <3>2. CASE b \in answered
      <4>1. ~(b > e)
        BY <2>1, <2>2, <2>4, <3>2, TurnFrame DEF IdsInTurn, StartedCalls
      <4>2. b \in Nat /\ e \in Nat
        BY <2>1, <2>2, <3>2, TurnFrame
      <4> QED BY <4>1, <4>2
    <3> QED BY <2>1, <2>4, <3>1, <3>2
  <2>5. ASSUME NEW id \in Ids, tombstones'[id] # NoEpoch
        PROVE  \E d \in answered' :
                  /\ responding[d].id = id /\ responding[d].epoch = tombstones'[id]
                  /\ \A b \in answered' : responding[b].id = id => b <= d
    <3>1. CASE id = requesting[c].id
      <4>1. /\ e \in answered' /\ responding[e].id = id /\ tombstones'[id] = responding[e].epoch
            /\ \A b \in answered' : responding[b].id = id => b <= e
        BY <2>1, <2>2, <2>4, <3>1
      <4> QED BY <4>1
    <3>2. CASE id # requesting[c].id
      <4>1. tombstones'[id] = tombstones[id]
        BY <2>1, <3>2
      <4>2. PICK d \in answered : /\ responding[d].id = id /\ responding[d].epoch = tombstones[id]
                                  /\ \A b \in answered : responding[b].id = id => b <= d
        BY <2>5, <4>1 DEF LastTombstones
      <4>3. \A b \in answered' : responding[b].id = id => b <= d
        BY <2>1, <3>2, <4>2
      <4> QED BY <2>1, <4>1, <4>2, <4>3
    <3> QED BY <3>1, <3>2
  <2> QED BY <2>5 DEF LastTombstones
<1> QED BY <1>1, <1>2

\* The call before that had the id, MaxMessages calls earlier.
LEMMA IdComesBack ==
  ASSUME OrderInv, pipelined, RespondersFine,
         NEW b \in StartedCalls(responding), NEW d \in StartedCalls(responding),
         b < d, responding[b].id = responding[d].id
  PROVE  /\ d - MaxMessages \in StartedCalls(responding) /\ b <= d - MaxMessages
         /\ responding[d - MaxMessages].id = responding[d].id
<1> DEFINE S == StartedCalls(responding)
<1>1. /\ IdChain(responding, S, response_next) /\ Prefix(S) /\ S \subseteq Calls
      /\ MaxMessages \in Nat \ {0} /\ \A a \in S : a \in Nat /\ a >= 1 /\ responding[a].id \in Ids
  BY Sizes, TurnFrame DEF OrderInv, ResponseOrder, ResponseCall, TablesInv, Calls
<1> HIDE DEF S
<1>2. b \in S /\ d \in S /\ b \in Nat /\ d \in Nat /\ b >= 1
  BY <1>1 DEF S
<1>3. d - b >= MaxMessages
  <2> SUFFICES ASSUME d - b < MaxMessages PROVE FALSE
    BY <1>1, <1>2
  <2>1. PICK x \in Ids, k \in 1 .. MaxMessages - 1 : x = responding[b].id /\ k = d - b
    BY <1>1, <1>2
  <2>2. x = (x + k) % MaxMessages
    BY <1>1, <1>2, <2>1 DEF IdChain
  <2>3. x \in Nat /\ x < MaxMessages
    BY <1>1 DEF Ids
  <2>4. PICK y \in 1 .. 2 * MaxMessages - 1 : y = x + k
    BY <1>1, <2>1, <2>3
  <2>5. CASE y < MaxMessages
    <3>1. y \in 0 .. MaxMessages - 1
      BY <1>1, <2>5
    <3>2. y % MaxMessages = y
      BY <3>1, IdModulo, Zenon
    <3> QED BY <2>1, <2>2, <2>3, <2>4, <3>2
  <2>6. CASE ~(y < MaxMessages)
    <3>1. y \in MaxMessages .. 2 * MaxMessages - 1
      BY <1>1, <2>6
    <3>2. y % MaxMessages = y - MaxMessages
      BY <3>1, IdModulo, Zenon
    <3> QED BY <1>1, <2>1, <2>2, <2>3, <2>4, <3>2
  <2> QED BY <2>5, <2>6
<1>4. PICK m \in S : m = d - MaxMessages /\ m >= b
  <2>1. d - MaxMessages \in 1 .. d
    BY <1>1, <1>2, <1>3
  <2> QED BY <1>1, <1>2, <1>3, <2>1 DEF Prefix
<1>5. d - 1 \in S /\ responding[d].id = (responding[d - 1].id + 1) % MaxMessages
  <2>1. d - 1 \in 1 .. d /\ d # 1
    BY <1>1, <1>2, <1>4
  <2> QED BY <1>1, <1>2, <2>1 DEF Prefix, IdChain, IdAfter
<1>6. PICK x \in Ids, y \in Ids : x = responding[m].id /\ y = responding[d - 1].id
  BY <1>1, <1>4, <1>5
<1>7. y = (x + (MaxMessages - 1)) % MaxMessages
  <2>1. CASE MaxMessages = 1
    <3>1. x = 0 /\ y = 0 /\ x + (MaxMessages - 1) = 0 /\ 0 \in 0 .. MaxMessages - 1
      BY <2>1 DEF Ids
    <3>2. 0 % MaxMessages = 0
      BY <3>1, IdModulo
    <3> QED BY <3>1, <3>2
  <2>2. CASE MaxMessages # 1
    <3>1. m < d - 1 /\ (d - 1) - m = MaxMessages - 1
      BY <1>1, <1>2, <1>4, <2>2
    <3>2. d - 1 \in S /\ m < d - 1 /\ (d - 1) - m < MaxMessages
      BY <1>1, <1>5, <3>1
    <3>3. responding[d - 1].id = (responding[m].id + ((d - 1) - m)) % MaxMessages
      BY <1>1, <1>4, <3>2 DEF IdChain
    <3> QED BY <1>6, <3>1, <3>3
  <2> QED BY <2>1, <2>2
<1>8. (y + 1) % MaxMessages = x
  <2>1. x \in Nat /\ x < MaxMessages
    BY <1>1 DEF Ids
  <2>2. CASE x = 0
    <3>1. PICK z \in 0 .. MaxMessages - 1 : z = x + (MaxMessages - 1)
      BY <1>1, <2>2
    <3>2. y = z
      BY <1>7, <3>1, IdModulo, Zenon
    <3>3. PICK w \in MaxMessages .. 2 * MaxMessages - 1 : w = y + 1 /\ w - MaxMessages = 0
      BY <1>1, <2>2, <3>1, <3>2
    <3>4. w % MaxMessages = w - MaxMessages
      BY <3>3, IdModulo, Zenon
    <3> QED BY <2>2, <3>3, <3>4
  <2>3. CASE x # 0
    <3>1. PICK z \in MaxMessages .. 2 * MaxMessages - 1 : z = x + (MaxMessages - 1)
      BY <1>1, <2>1, <2>3
    <3>2. y = z - MaxMessages
      BY <1>7, <3>1, IdModulo, Zenon
    <3>3. PICK w \in 0 .. MaxMessages - 1 : w = y + 1 /\ w = x
      BY <1>1, <2>1, <2>3, <3>1, <3>2
    <3>4. w % MaxMessages = w
      BY <3>3, IdModulo, Zenon
    <3> QED BY <3>3, <3>4
  <2> QED BY <2>2, <2>3
<1> QED BY <1>2, <1>4, <1>5, <1>6, <1>8 DEF S

\* The tombstone that answers a call is the one it left: the call that had the
\* id before has an epoch of its own.
LEMMA FinishRespondTurn ==
  ASSUME OrderInv, NEW T \in Nat, Roomy(MaxMessages + 1, T), TurnInv,
         pipelined, RespondersFine, NEW c \in Calls, FinishRespond(c)
  PROVE  c \in answered
<1>1. IdsInTurn /\ LastTombstones /\ OkMeansAnswered /\ TablesInv
  BY DEF TurnInv, OrderInv
<1>2. /\ responding[c].at = "registered" /\ responding[c].id \in Ids /\ responding[c].epoch \in Seqs
      /\ tombstones[responding[c].id] = responding[c].epoch
  BY <1>1, TurnFrame DEF FinishRespond, TombstoneAnswers, ResponseCall, TablesInv, EpochsTaken
<1>3. responding[c].epoch # NoEpoch
  BY <1>2, Sizes DEF Seqs, NoEpoch
<1>4. PICK d \in answered :
        /\ responding[d].id = responding[c].id /\ responding[d].epoch = responding[c].epoch
        /\ \A b \in answered : responding[b].id = responding[c].id => b <= d
  BY <1>1, <1>2, <1>3 DEF LastTombstones
<1>5. /\ c \in StartedCalls(responding) /\ d \in StartedCalls(responding)
      /\ c \in Nat /\ d \in Nat /\ d \in Calls /\ c >= 1
  BY <1>1, <1>2, TurnFrame DEF StartedCalls
<1> SUFFICES ASSUME d # c PROVE FALSE
  BY <1>4
<1>6. d < c
  <2>1. ~(c < d)
    BY <1>1, <1>2, <1>4, <1>5 DEF IdsInTurn
  <2> QED BY <1>5, <2>1
<1>7. PICK m \in StartedCalls(responding) :
        m = c - MaxMessages /\ d <= m /\ responding[m].id = responding[c].id
  BY <1>4, <1>5, <1>6, IdComesBack
<1>8. MaxMessages \in Nat \ {0} /\ m \in Nat /\ m < c /\ m \in Calls
  BY <1>1, <1>5, <1>7, Sizes, TurnFrame
<1>9. m = d
  <2>1. responding[m].at = "ok"
    BY <1>1, <1>5, <1>7, <1>8 DEF IdsInTurn
  <2>2. m \in answered
    BY <1>1, <1>8, <2>1 DEF OkMeansAnswered
  <2> QED BY <1>4, <1>5, <1>7, <1>8, <2>2
<1>10. Spread(MaxMessages + 1, T)
  <2>1. MaxMessages + 1 \in Nat
    BY <1>8
  <2> QED BY <2>1, SpreadHolds
<1>11. c \in Timed /\ d \in Timed
  BY <1>1, <1>2, <1>5, TurnFrame DEF Timed
<1>12. total[d] <= SeqDistance(responding[c].epoch, responding[d].epoch)
  <2>1. d < c /\ c - d < MaxMessages + 1
    BY <1>5, <1>6, <1>7, <1>8, <1>9
  <2> QED BY <1>10, <1>11, <2>1 DEF Spread
<1>13. SeqDistance(responding[c].epoch, responding[d].epoch) = 0
  <2>1. PICK e \in Seqs : e = responding[c].epoch
    BY <1>2
  <2>2. e - e = 0 /\ 0 \in 0 .. SeqSpace - 1
    BY <2>1, Sizes DEF Seqs
  <2>3. 0 % SeqSpace = 0
    BY <2>2, SeqModulo
  <2> QED BY <1>4, <2>1, <2>2, <2>3 DEF SeqDistance
<1>14. total[d] >= 1
  BY <1>1, <1>5, Sizes DEF TablesInv, TablesTypeOK
<1>15. total[d] \in Nat
  BY <1>1, <1>5, Sizes DEF TablesInv, TablesTypeOK
<1> QED BY <1>12, <1>13, <1>14, <1>15

LEMMA TurnInductive ==
  ASSUME ~Overlap, NEW T \in Nat, Roomy(MaxMessages + 1, T), OrderInv, TurnInv, [Next]_vars
  PROVE  TurnInv'
<1>1. TablesInv /\ ResponseOrder
  BY DEF OrderInv
\* The responder waits.
<1>2. ASSUME UNCHANGED <<pipelined, responding>>, NEW c \in Calls,
             AcknowledgeEnd(c) \/ UNCHANGED <<tombstones, answered>>
      PROVE  TurnInv'
  <2> SUFFICES ASSUME pipelined, RespondersFine
               PROVE  IdsInTurn' /\ LastTombstones' /\ OkMeansAnswered'
    BY <1>2 DEF TurnInv, RespondersFine
  <2>1. IdsInTurn /\ LastTombstones /\ OkMeansAnswered
    BY DEF TurnInv
  <2>2. IdsInTurn' /\ LastTombstones'
    BY <1>1, <1>2, <2>1, IdsKept, AcknowledgeLast
  <2>3. OkMeansAnswered'
    BY <1>2, <2>1 DEF OkMeansAnswered, AcknowledgeEnd
  <2> QED BY <2>2, <2>3
<1>3. ASSUME NEW c \in Calls,
             ScanRequests(c) \/ Acquire(c) \/ AcquireFails(c) \/ FinishRequest(c)
               \/ FailRequest(c) \/ RollBack(c)
      PROVE  TurnInv'
  <2>1. UNCHANGED <<pipelined, responding>>
    BY <1>3 DEF ScanRequests, Acquire, AcquireFails, FinishRequest, FailRequest, RollBack,
                appVars, responseVars
  <2>2. AcknowledgeEnd(c) \/ UNCHANGED <<tombstones, answered>>
    BY <1>3 DEF ScanRequests, Acquire, AcquireFails, FinishRequest, FailRequest, RollBack
  <2> QED BY <1>2, <2>1, <2>2
\* A step of a call of the responder that has its id.
<1>4. ASSUME NEW c \in Calls, responding[c].at \in {"id", "run", "registered"},
             UNCHANGED <<pipelined, tombstones, answered>>,
             responding'[c].id = responding[c].id, responding'[c].at # "idle",
             \A d \in Calls : d # c => responding'[d] = responding[d],
             c \in answered => responding'[c].epoch = responding[c].epoch,
             responding'[c].at = "ok" /\ pipelined /\ RespondersFine => c \in answered
      PROVE  TurnInv'
  <2> SUFFICES ASSUME pipelined, RespondersFine'
               PROVE  IdsInTurn' /\ LastTombstones' /\ OkMeansAnswered'
    BY <1>4 DEF TurnInv
  <2>1. RespondersFine
    BY <1>4 DEF RespondersFine
  <2>2. IdsInTurn /\ LastTombstones /\ OkMeansAnswered
    BY <2>1 DEF TurnInv
  <2>3. IdsInTurn'
    BY <1>4, <2>2, IdsKept
  <2>4. \A d \in answered : responding'[d].id = responding[d].id
                            /\ responding'[d].epoch = responding[d].epoch
    BY <1>1, <1>4, TurnFrame
  <2>5. LastTombstones'
    BY <1>4, <2>2, <2>4 DEF LastTombstones
  <2>6. OkMeansAnswered'
    BY <1>4, <2>1, <2>2 DEF OkMeansAnswered
  <2> QED BY <2>3, <2>5, <2>6
<1>5. ASSUME NEW c \in Calls, TakeEpoch(c) PROVE TurnInv'
  <2>1. /\ responding[c].at = "id" /\ UNCHANGED <<pipelined, tombstones, answered>>
        /\ responding'[c].id = responding[c].id /\ responding'[c].at = "run"
        /\ \A d \in Calls : d # c => responding'[d] = responding[d]
    BY <1>1, <1>5, TurnFrame DEF TakeEpoch, appVars, ResponseCall
  <2>2. c \notin answered
    BY <1>1, <2>1, TurnFrame
  <2> QED BY <1>4, <2>1, <2>2
<1>6. ASSUME NEW c \in Calls, NoEntries(c) \/ RegisterMessage(c) \/ FailRespond(c)
      PROVE  TurnInv'
  <2>1. /\ responding[c].at \in {"run", "registered"}
        /\ UNCHANGED <<pipelined, tombstones, answered>>
        /\ responding'[c].id = responding[c].id /\ responding'[c].epoch = responding[c].epoch
        /\ responding'[c].at \in {"registered", "failed"}
        /\ \A d \in Calls : d # c => responding'[d] = responding[d]
    BY <1>1, <1>6, TurnFrame DEF NoEntries, RegisterMessage, FailRespond, appVars, ResponseCall
  <2> QED BY <1>4, <2>1
<1>7. ASSUME NEW c \in Calls, FinishRespond(c) PROVE TurnInv'
  <2>1. /\ responding[c].at = "registered" /\ UNCHANGED <<pipelined, tombstones, answered>>
        /\ responding'[c].id = responding[c].id /\ responding'[c].epoch = responding[c].epoch
        /\ responding'[c].at = "ok"
        /\ \A d \in Calls : d # c => responding'[d] = responding[d]
    BY <1>1, <1>7, TurnFrame DEF FinishRespond, appVars, ResponseCall
  <2>2. pipelined /\ RespondersFine => c \in answered
    BY <1>7, FinishRespondTurn
  <2> QED BY <1>4, <2>1, <2>2
<1>8. ASSUME UNCHANGED vars PROVE TurnInv'
  BY <1>8 DEF vars, appVars, responseVars, TurnInv, RespondersFine, IdsInTurn, StartedCalls,
              LastTombstones, OkMeansAnswered
<1> QED BY <1>1, <1>3, <1>5, <1>6, <1>7, <1>8, TakeIdTurn DEF Next

\* However many packets a pipeline carries, as long as no respond call fails,
\* respond returns success only when the requester has completed that very
\* message: a tombstone lives until its id comes back, and by then fewer
\* sequence numbers have gone by than there are
\* (host.c, host_ack_tombstoned_end).
THEOREM OkIsAnsweredInTurn ==
  ASSUME ~Overlap, Depth <= MaxMessages, NEW T \in Nat, Roomy(MaxMessages + 1, T)
  PROVE  Spec => [](pipelined /\ RespondersFine => OkMeansAnswered)
<1>1. Init => TurnInv
  BY TurnInit
<1>2. OrderInv /\ TurnInv /\ [Next]_vars => TurnInv'
  BY TurnInductive
<1>3. TurnInv => (pipelined /\ RespondersFine => OkMeansAnswered)
  BY DEF TurnInv
<1> QED BY <1>1, <1>2, <1>3, OrderInvariance, PTL DEF Spec
=============================================================================
