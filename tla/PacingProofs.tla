---------------------------- MODULE PacingProofs ----------------------------
(***************************************************************************)
(* Proofs about Pacing for every number of packets and subchannels and     *)
(* every setting of the clocks, windows and budgets that Pacing allows.    *)
(* PacingInv is the inductive invariant.                                   *)
(***************************************************************************)
EXTENDS Pacing, FiniteSetTheorems, TLAPS

Entry ==
    [sub : Subs, sent_at : Nat, inflight_accounted : BOOLEAN, sample_eligible : BOOLEAN,
     sample_recorded : BOOLEAN, completion_kind : {"NONE", "DIRECT", "REPAIR", "NORMAL"},
     ce_seen : BOOLEAN, repair_mode : BOOLEAN, retry_count : 0 .. MaxRetries,
     committed : BOOLEAN, done : BOOLEAN]

\* The parts of the state that PacingTypeOK leaves out.
PacingTypes ==
    /\ PacingTypeOK
    /\ pull \in BOOLEAN
    /\ entries \in [Offsets -> Entry]
    /\ rate \in [Subs -> [gap : Nat, window : Nat]]
    /\ next_credit_at \in [Subs -> Nat] /\ next_channel_credit_at \in Nat
    /\ issued_at \in [Offsets -> Nat] /\ spent \in Nat

\* Credits are given in the order of the offsets; what has no credit is
\* untouched, and what a pass scans is unanswered and overdue.
CreditsInv ==
    /\ \A o \in Offsets :
         /\ o < next_credit_offset <=> issued_at[o] # Unset
         /\ o < next_credit_offset <=> entries[o].sent_at # Unset
         /\ entries[o].sent_at <= now
         /\ o >= next_credit_offset => /\ ~entries[o].done /\ ~entries[o].inflight_accounted
                                       /\ entries[o].retry_count = 0
         /\ entries[o].done => entries[o].committed
    /\ \A o \in scan : /\ o < next_credit_offset /\ ~entries[o].done
                       /\ entries[o].sent_at + Rto <= now
    /\ phase \in {"issue", "rx"} => scan = {}

\* Gap and window never change; an unanswered pull credit is accounted for.
WindowInv ==
    /\ rate = [s \in Subs |-> [gap |-> Gap, window |-> StartWindow]]
    /\ \A o \in Offsets :
         pull /\ o < next_credit_offset /\ ~entries[o].committed => entries[o].inflight_accounted
    /\ \A s \in Subs : Cardinality(Inflight(entries, s)) <= StartWindow

\* The channel's deadline is a gap after every credit.
SpacingInv ==
    /\ CreditsSpaced
    /\ \A o \in Offsets :
         o < next_credit_offset => issued_at[o] + Gap <= next_channel_credit_at

Deadline(o) == entries[o].sent_at + Rto
Overdue(o)  == o < next_credit_offset /\ ~entries[o].done /\ Deadline(o) <= now

\* Packets sent or repaired since o was due.
Overtaking(o) == {p \in Offsets \ {o} : entries[p].sent_at > Deadline(o)}

\* A packet is overdue for at most one timeout.  Every pass tries it, and it
\* is still overdue because the tokens did not cover a trigger; what has been
\* refilled since it was due was spent on one trigger for each packet that
\* overtook it.
ServedInv ==
    phase # "failed" =>
      \A o \in Offsets : Overdue(o) =>
        /\ now <= Deadline(o) + Rto
        /\ \/ Deadline(o) = now
           \/ refill_at = now
           \/ refill_at = now - 1 /\ tokens < DearestTrigger
        /\ o \notin scan => refill_at = now /\ tokens < DearestTrigger
        /\ Deadline(o) <= refill_at =>
             Rate * (refill_at - Deadline(o))
               <= tokens + DearestTrigger * Cardinality(Overtaking(o))

PacingInv ==
    /\ PacingTypes /\ CreditsInv /\ OutstandingExact /\ WindowInv /\ SpacingInv
    /\ RepairWithinBudget /\ ServedInv

-----------------------------------------------------------------------------
(* Constants and cardinalities.                                            *)

LEMMA ProductType == \A x, y \in Nat : x * y \in Nat /\ (x > 0 /\ y > 0 => x * y > 0)
OBVIOUS

LEMMA ProductInt == \A x, y \in Int : x * y \in Int
OBVIOUS

LEMMA SumMonotone ==
  \A t \in Nat : \A z, x, y \in Int : z <= t + x /\ x <= y => z <= t + y
OBVIOUS

LEMMA ProductMonotone ==
  ASSUME NEW a \in Nat, NEW x \in Nat, NEW y \in Nat, x <= y
  PROVE  a * x <= a * y
<1>1. a * (y - x) >= 0
  <2>1. y - x \in Nat
    OBVIOUS
  <2> QED BY <2>1, ProductType
<1>2. a * (y - x) = a * y - a * x
  OBVIOUS
<1> QED BY <1>1, <1>2

LEMMA Constants ==
  /\ SubCount \in Nat /\ SubCount > 0 /\ P \in Nat /\ P > 0 /\ Gap \in Nat /\ Gap > 0
  /\ StartWindow \in Nat /\ StartWindow > 0 /\ MaxRetries \in Nat /\ MaxRetries > 0
  /\ Rate \in Nat /\ Rate > 0 /\ MaxTime \in Nat /\ MaxTime > 0
  /\ MaxGap \in Nat /\ MaxWindow \in Nat /\ Rto \in Nat /\ Burst \in Nat
  /\ Gap <= MaxGap /\ StartWindow <= MaxWindow
  /\ Packet \in Nat /\ Packet > 0 /\ RequesterCount \in Nat /\ RequesterCount > 0
BY PacingAssumption

LEMMA Budget ==
  /\ DearestTrigger \in Nat /\ DearestTrigger > 0
  /\ \A replay \in BOOLEAN :
       TriggerBytes(replay) \in Nat /\ TriggerBytes(replay) <= DearestTrigger
  /\ Rto > 0
<1>1. RequesterCount * Packet \in Nat /\ RequesterCount * Packet > 0
  BY Constants, ProductType
<1>2. DearestTrigger \in Nat /\ DearestTrigger > 0
  BY <1>1, Constants DEF TriggerBytes, DearestTrigger
<1>3. \A replay \in BOOLEAN :
        TriggerBytes(replay) \in Nat /\ TriggerBytes(replay) <= DearestTrigger
  BY <1>1, Constants DEF TriggerBytes, DearestTrigger
<1>4. P * DearestTrigger \in Nat /\ P * DearestTrigger > 0
  BY <1>2, Constants, ProductType
<1>5. \A x, y \in Nat : x > 0 /\ x * y > 0 => y > 0
  OBVIOUS
<1>6. Rate * Rto > 0
  <2>1. P * DearestTrigger <= Rate * Rto
    BY BudgetAssumption, Zenon
  <2>2. Rate * Rto \in Nat
    BY Constants, ProductType
  <2>3. \A x, y \in Nat : x > 0 /\ x <= y => y > 0
    OBVIOUS
  <2> QED BY <1>4, <2>1, <2>2, <2>3, Zenon
<1>7. Rto > 0
  BY <1>5, <1>6, Constants
<1> QED BY <1>2, <1>3, <1>7, Constants

LEMMA FiniteParts ==
  /\ IsFiniteSet(Offsets) /\ Cardinality(Offsets) = P
  /\ \A S \in SUBSET Offsets :
       IsFiniteSet(S) /\ Cardinality(S) \in Nat /\ Cardinality(S) <= P
  /\ \A S \in SUBSET Subs : IsFiniteSet(S) /\ Cardinality(S) \in Nat
<1>1. IsFiniteSet(Offsets) /\ Cardinality(Offsets) = P
  BY Constants, FS_Interval DEF Offsets
<1>2. IsFiniteSet(Subs)
  BY Constants, FS_Interval DEF Subs
<1>3. \A S \in SUBSET Offsets :
        IsFiniteSet(S) /\ Cardinality(S) \in Nat /\ Cardinality(S) <= P
  BY <1>1, FS_Subset, FS_CardinalityType
<1>4. \A S \in SUBSET Subs : IsFiniteSet(S) /\ Cardinality(S) \in Nat
  BY <1>2, FS_Subset, FS_CardinalityType
<1> QED BY <1>1, <1>3, <1>4

LEMMA CardinalityMonotone ==
  ASSUME NEW T \in SUBSET Offsets, NEW S \in SUBSET T
  PROVE  Cardinality(S) <= Cardinality(T)
BY FiniteParts, FS_Subset

\* A set of offsets that grows by at most one element.
LEMMA AtMostOneMore ==
  ASSUME NEW S \in SUBSET Offsets, NEW T \in SUBSET Offsets, NEW o \in Offsets,
         T \subseteq S \cup {o}
  PROVE  Cardinality(T) <= Cardinality(S) + 1
<1>1. Cardinality(S \cup {o}) <= Cardinality(S) + 1
  BY FiniteParts, FS_AddElement
<1>2. S \cup {o} \in SUBSET Offsets
  OBVIOUS
<1>3. Cardinality(T) <= Cardinality(S \cup {o})
  BY <1>2, CardinalityMonotone
<1> QED BY <1>1, <1>2, <1>3, FiniteParts

LEMMA DisjointUnion ==
  ASSUME NEW S \in SUBSET Offsets, NEW T \in SUBSET Offsets, S \cap T = {}
  PROVE  Cardinality(S \cup T) = Cardinality(S) + Cardinality(T)
<1>1. Cardinality(S \cap T) = 0
  BY FS_EmptySet
<1> QED BY <1>1, FiniteParts, FS_Union

LEMMA CreditedSet ==
  ASSUME PacingTypes, CreditsInv
  PROVE  Credited = {o \in Offsets : o < next_credit_offset}
BY DEF Credited, CreditsInv

-----------------------------------------------------------------------------
(* Rounds.                                                                 *)

\* The entries es with n outstanding credits are those of this state after
\* some answers.
AfterAnswers(es, n) ==
    /\ es \in [Offsets -> Entry]
    /\ \A o \in Offsets :
         /\ es[o].sent_at = entries[o].sent_at /\ es[o].sub = entries[o].sub
         /\ es[o].retry_count = entries[o].retry_count
         /\ entries[o].done => es[o].done
         /\ es[o].done => es[o].committed
         /\ o >= next_credit_offset => ~es[o].done
         /\ es[o].inflight_accounted => entries[o].inflight_accounted
         /\ pull /\ o < next_credit_offset /\ ~es[o].committed => es[o].inflight_accounted
    /\ n = Cardinality({o \in Credited : ~es[o].done})

LEMMA NowAnswered ==
  ASSUME PacingInv
  PROVE  AfterAnswers(entries, outstanding)
BY DEF PacingInv, PacingTypes, CreditsInv, OutstandingExact, WindowInv, AfterAnswers, Credited

LEMMA ReservedFacts ==
  ASSUME NEW e \in Entry, NEW s \in Subs, now \in Nat, pull \in BOOLEAN
  PROVE  /\ Reserved(e, s) \in Entry
         /\ Reserved(e, s).sub = s /\ Reserved(e, s).sent_at = now
         /\ Reserved(e, s).retry_count = 0 /\ (Reserved(e, s).done <=> e.done)
         /\ pull => /\ Reserved(e, s).inflight_accounted
                    /\ (Reserved(e, s).committed <=> e.committed)
         /\ ~pull => /\ ~Reserved(e, s).inflight_accounted
                     /\ Reserved(e, s).committed
<1>1. 0 \in 0 .. MaxRetries
  BY Constants
<1>2. CASE pull
  BY <1>1, <1>2 DEF Reserved, Entry
<1>3. CASE ~pull
  BY <1>1, <1>3 DEF Reserved, NotSampled, Entry
<1> QED BY <1>2, <1>3

\* What a round does: it gives the next offsets to distinct subchannels that
\* may have a credit.
LEMMA RoundFacts ==
  ASSUME PacingInv, NEW es, NEW n, AfterAnswers(es, n), IssueRound(es, n)
  PROVE  \E count \in Nat : \E turn \in [1 .. count -> Subs] :
           /\ next_credit_offset + count <= P
           /\ next_credit_offset' = next_credit_offset + count
           /\ outstanding' = n + count
           /\ \A i \in 1 .. count : ChannelOpen /\ MayIssue(es, turn[i])
           /\ \A i, j \in 1 .. count : i # j => turn[i] # turn[j]
           /\ entries' = [o \in Offsets |->
                IF o >= next_credit_offset /\ o < next_credit_offset + count
                THEN Reserved(es[o], turn[o - next_credit_offset + 1]) ELSE es[o]]
           /\ issued_at' = [o \in Offsets |->
                IF o >= next_credit_offset /\ o < next_credit_offset + count
                THEN now ELSE issued_at[o]]
           /\ next_credit_at' \in [Subs -> Nat]
           /\ next_channel_credit_at' =
                IF count > 0 THEN now + Gap ELSE next_channel_credit_at
           /\ sub_rr' \in Subs
<1>1. PICK turn \in [1 .. Given(es) -> Open(es)] :
        /\ \A i \in 1 .. Given(es) : Cardinality(Before(es, turn[i])) = i - 1
        /\ entries' = [o \in Offsets |->
             IF o \in next_credit_offset .. next_credit_offset + Given(es) - 1
             THEN Reserved(es[o], turn[o - next_credit_offset + 1]) ELSE es[o]]
        /\ outstanding' = n + Given(es)
        /\ next_credit_offset' = next_credit_offset + Given(es)
        /\ issued_at' = [o \in Offsets |->
             IF o \in next_credit_offset .. next_credit_offset + Given(es) - 1
             THEN now ELSE issued_at[o]]
        /\ next_credit_at' = [s \in Subs |->
             IF \E i \in 1 .. Given(es) : turn[i] = s
             THEN now + Clamp(rate[s].gap, Gap, MaxGap) ELSE next_credit_at[s]]
        /\ IF Given(es) > 0
           THEN /\ next_channel_credit_at' = now + Gap
                /\ sub_rr' = (turn[Given(es)] + 1) % SubCount
           ELSE UNCHANGED <<next_channel_credit_at, sub_rr>>
  BY DEF IssueRound
<1>2. /\ next_credit_offset \in 0 .. P /\ now \in Nat /\ sub_rr \in Subs
      /\ next_credit_at \in [Subs -> Nat]
      /\ \A s \in Subs : rate[s].gap = Gap
  BY DEF PacingInv, PacingTypes, PacingTypeOK, WindowInv
<1>3. Given(es) \in Nat /\ next_credit_offset + Given(es) <= P
  <2>1. Cardinality(Open(es)) \in Nat
    BY FiniteParts DEF Open
  <2> QED BY <2>1, <1>2, Constants DEF Given, Least
<1>4. Open(es) \subseteq Subs /\ \A s \in Open(es) : ChannelOpen /\ MayIssue(es, s)
  BY DEF Open
<1>5. turn \in [1 .. Given(es) -> Subs]
  BY <1>4
<1>6. \A i, j \in 1 .. Given(es) : i # j => turn[i] # turn[j]
  BY <1>1, <1>3
<1>7. \A o \in Offsets :
        o \in next_credit_offset .. next_credit_offset + Given(es) - 1
          <=> o >= next_credit_offset /\ o < next_credit_offset + Given(es)
  BY <1>2, <1>3, Constants DEF Offsets
<1>8. next_credit_at' \in [Subs -> Nat]
  <2>1. \A s \in Subs : Clamp(rate[s].gap, Gap, MaxGap) = Gap
    BY <1>2, Constants DEF Clamp
  <2> QED BY <2>1, <1>1, <1>2, Constants
<1>9. sub_rr' \in Subs
  <2>1. CASE Given(es) > 0
    <3>1. turn[Given(es)] \in Subs
      BY <2>1, <1>3, <1>5
    <3>2. \A m \in Nat : m % SubCount \in 0 .. SubCount - 1
      BY Constants
    <3> QED BY <2>1, <3>1, <3>2, <1>1, Constants DEF Subs
  <2>2. CASE ~(Given(es) > 0)
    BY <2>2, <1>1, <1>2
  <2> QED BY <2>1, <2>2
<1>10. entries' = [o \in Offsets |->
          IF o >= next_credit_offset /\ o < next_credit_offset + Given(es)
          THEN Reserved(es[o], turn[o - next_credit_offset + 1]) ELSE es[o]]
  BY <1>1, <1>7
<1>11. issued_at' = [o \in Offsets |->
          IF o >= next_credit_offset /\ o < next_credit_offset + Given(es)
          THEN now ELSE issued_at[o]]
  BY <1>1, <1>7
<1>12. \A i \in 1 .. Given(es) : ChannelOpen /\ MayIssue(es, turn[i])
  BY <1>4
<1>13. /\ next_credit_offset' = next_credit_offset + Given(es)
       /\ outstanding' = n + Given(es)
       /\ next_channel_credit_at' =
            IF Given(es) > 0 THEN now + Gap ELSE next_channel_credit_at
  BY <1>1
<1> HIDE DEF Given, Open, MayIssue, ChannelOpen, Reserved, IssueRound
<1> USE <1>3, <1>5
<1> WITNESS Given(es) \in Nat
<1> WITNESS turn \in [1 .. Given(es) -> Subs]
<1> QED BY <1>3, <1>6, <1>8, <1>9, <1>10, <1>11, <1>12, <1>13

\* A round after answers preserves the invariant.
LEMMA RoundStep ==
  ASSUME PacingInv, NEW es, NEW n, AfterAnswers(es, n), IssueRound(es, n),
         UNCHANGED <<now, pull, rate, budget>>, scan' = {}, scan = {}, phase # "failed",
         phase' \in {"issue", "rx"}, ready' \subseteq Subs
  PROVE  PacingInv'
<1>1. PICK count \in Nat : \E turn \in [1 .. count -> Subs] :
           /\ next_credit_offset + count <= P
           /\ next_credit_offset' = next_credit_offset + count
           /\ outstanding' = n + count
           /\ \A i \in 1 .. count : ChannelOpen /\ MayIssue(es, turn[i])
           /\ \A i, j \in 1 .. count : i # j => turn[i] # turn[j]
           /\ entries' = [o \in Offsets |->
                IF o >= next_credit_offset /\ o < next_credit_offset + count
                THEN Reserved(es[o], turn[o - next_credit_offset + 1]) ELSE es[o]]
           /\ issued_at' = [o \in Offsets |->
                IF o >= next_credit_offset /\ o < next_credit_offset + count
                THEN now ELSE issued_at[o]]
           /\ next_credit_at' \in [Subs -> Nat]
           /\ next_channel_credit_at' =
                IF count > 0 THEN now + Gap ELSE next_channel_credit_at
           /\ sub_rr' \in Subs
  BY RoundFacts
<1>2. PICK turn \in [1 .. count -> Subs] :
           /\ next_credit_offset + count <= P
           /\ next_credit_offset' = next_credit_offset + count
           /\ outstanding' = n + count
           /\ \A i \in 1 .. count : ChannelOpen /\ MayIssue(es, turn[i])
           /\ \A i, j \in 1 .. count : i # j => turn[i] # turn[j]
           /\ entries' = [o \in Offsets |->
                IF o >= next_credit_offset /\ o < next_credit_offset + count
                THEN Reserved(es[o], turn[o - next_credit_offset + 1]) ELSE es[o]]
           /\ issued_at' = [o \in Offsets |->
                IF o >= next_credit_offset /\ o < next_credit_offset + count
                THEN now ELSE issued_at[o]]
           /\ next_credit_at' \in [Subs -> Nat]
           /\ next_channel_credit_at' =
                IF count > 0 THEN now + Gap ELSE next_channel_credit_at
           /\ sub_rr' \in Subs
  BY <1>1
<1> DEFINE Given1(o) == o >= next_credit_offset /\ o < next_credit_offset + count
           Kept(o)  == o < next_credit_offset
<1>3. /\ next_credit_offset \in 0 .. P /\ now \in Nat /\ now > 0 /\ pull \in BOOLEAN
      /\ issued_at \in [Offsets -> Nat] /\ next_channel_credit_at \in Nat
      /\ entries \in [Offsets -> Entry] /\ es \in [Offsets -> Entry]
      /\ Offsets \subseteq Nat /\ next_credit_offset' \in 0 .. P
      /\ \A o \in Offsets : o < P
  <2>1. /\ next_credit_offset \in 0 .. P /\ now \in Nat /\ now > 0 /\ pull \in BOOLEAN
        /\ issued_at \in [Offsets -> Nat] /\ next_channel_credit_at \in Nat
        /\ entries \in [Offsets -> Entry]
    BY DEF PacingInv, PacingTypes, PacingTypeOK
  <2>2. es \in [Offsets -> Entry]
    BY DEF AfterAnswers
  <2>3. Offsets \subseteq Nat /\ \A o \in Offsets : o < P
    BY Constants DEF Offsets
  <2>4. next_credit_offset' = next_credit_offset + count /\ next_credit_offset + count <= P
    BY <1>2
  <2> QED BY <2>1, <2>2, <2>3, <2>4, Constants
<1>4. \A o \in Offsets : Given1(o) => o - next_credit_offset + 1 \in 1 .. count
  BY <1>3
<1>5. ASSUME NEW o \in Offsets, Given1(o)
      PROVE  /\ entries'[o] \in Entry /\ entries'[o].sub = turn[o - next_credit_offset + 1]
             /\ entries'[o].sent_at = now /\ entries'[o].retry_count = 0
             /\ (entries'[o].done <=> es[o].done)
             /\ pull => entries'[o].inflight_accounted
             /\ pull => (entries'[o].committed <=> es[o].committed)
             /\ ~pull => entries'[o].committed
             /\ issued_at'[o] = now
  <2>1. entries'[o] = Reserved(es[o], turn[o - next_credit_offset + 1])
    BY <1>2, <1>5
  <2>2. turn[o - next_credit_offset + 1] \in Subs
    BY <1>2, <1>4, <1>5
  <2>3. es[o] \in Entry
    BY <1>3
  <2>4. issued_at'[o] = now
    BY <1>2, <1>5
  <2> HIDE DEF Given1
  <2> QED BY <2>1, <2>2, <2>3, <2>4, <1>3, ReservedFacts
<1>6. ASSUME NEW o \in Offsets, ~Given1(o)
      PROVE  entries'[o] = es[o] /\ issued_at'[o] = issued_at[o]
  BY <1>2, <1>6
<1>7. \A o \in Offsets : Kept(o) => ~Given1(o)
  BY <1>3
<1>8. \A o \in Offsets : o < next_credit_offset' <=> Kept(o) \/ Given1(o)
  BY <1>2, <1>3
<1>9. \A o \in Offsets :
        /\ Kept(o) <=> issued_at[o] # Unset
        /\ Kept(o) <=> entries[o].sent_at # Unset
        /\ entries[o].sent_at <= now
        /\ ~Kept(o) => /\ ~entries[o].done /\ ~entries[o].inflight_accounted
                       /\ entries[o].retry_count = 0
  BY <1>3 DEF PacingInv, CreditsInv
<1>10. \A o \in Offsets :
         /\ es[o].sent_at = entries[o].sent_at /\ es[o].sub = entries[o].sub
         /\ es[o].retry_count = entries[o].retry_count
         /\ entries[o].done => es[o].done
         /\ es[o].done => es[o].committed
         /\ ~Kept(o) => ~es[o].done
         /\ es[o].inflight_accounted => entries[o].inflight_accounted
         /\ pull /\ Kept(o) /\ ~es[o].committed => es[o].inflight_accounted
  BY <1>3 DEF AfterAnswers
<1> HIDE DEF Given1, Kept
<1>11. CreditsInv'
  <2>1. ASSUME NEW o \in Offsets
        PROVE  (/\ o < next_credit_offset <=> issued_at[o] # Unset
                /\ o < next_credit_offset <=> entries[o].sent_at # Unset
                /\ entries[o].sent_at <= now
                /\ o >= next_credit_offset => /\ ~entries[o].done /\ ~entries[o].inflight_accounted
                                              /\ entries[o].retry_count = 0
                /\ entries[o].done => entries[o].committed)'
    <3>1. CASE Given1(o)
      <4>1. ~Kept(o)
        BY <3>1, <1>7
      <4> QED BY <3>1, <4>1, <1>3, <1>5, <1>8, <1>10 DEF Unset
    <3>2. CASE ~Given1(o)
      <4>1. o >= next_credit_offset' <=> ~(o < next_credit_offset')
        BY <1>3
      <4> QED BY <3>2, <4>1, <1>3, <1>6, <1>8, <1>9, <1>10 DEF Unset
    <3> QED BY <3>1, <3>2
  <2> QED BY <2>1 DEF CreditsInv
<1>12. Credited = {o \in Offsets : Kept(o)} /\ Credited' = {o \in Offsets : Kept(o) \/ Given1(o)}
  BY <1>8, <1>9, <1>11 DEF Credited, CreditsInv
<1>13. OutstandingExact'
  <2> DEFINE S == {o \in Credited : ~es[o].done}
             T == next_credit_offset .. next_credit_offset + count - 1
             U == {o \in Credited : ~entries[o].done}'
  <2>1. T = {o \in Offsets : Given1(o)}
    <3>1. next_credit_offset + count <= P
      BY <1>2
    <3> QED BY <3>1, <1>3, Constants DEF Given1, Offsets
  <2>2. U = S \cup T
    BY <2>1, <1>5, <1>6, <1>7, <1>10, <1>12
  <2>3. S \cap T = {}
    BY <2>1, <1>7, <1>12
  <2>4. S \subseteq Offsets /\ T \subseteq Offsets
    BY <2>1, <1>12
  <2>5. Cardinality(T) = count
    BY <1>3, FS_Interval
  <2>6. n = Cardinality(S)
    BY DEF AfterAnswers
  <2>7. outstanding' = n + count
    BY <1>2
  <2>8. Cardinality(U) = Cardinality(S) + Cardinality(T)
    <3> HIDE DEF S, T, U
    <3> QED BY <2>2, <2>3, <2>4, DisjointUnion
  <2> QED BY <2>5, <2>6, <2>7, <2>8 DEF OutstandingExact
<1>14. PacingTypes'
  <2>1. outstanding' \in 0 .. P
    <3>1. {o \in Credited : ~entries[o].done}' \subseteq Offsets
      BY <1>12
    <3> QED BY <3>1, <1>13, FiniteParts DEF OutstandingExact
  <2>2. entries' \in [Offsets -> Entry]
    <3>1. \A o \in Offsets : entries'[o] \in Entry
      BY <1>3, <1>5, <1>6
    <3> QED BY <3>1, <1>2
  <2>3. \A o \in Offsets : entries'[o].retry_count \in 0 .. MaxRetries
    BY <2>2 DEF Entry
  <2>4. issued_at' \in [Offsets -> Nat]
    <3>1. \A o \in Offsets : issued_at'[o] \in Nat
      BY <1>3, <1>5, <1>6
    <3> QED BY <3>1, <1>2
  <2>5. next_channel_credit_at' \in Nat
    BY <1>2, <1>3, Constants
  <2> QED BY <2>1, <2>2, <2>3, <2>4, <2>5, <1>2, <1>3
          DEF PacingInv, PacingTypes, PacingTypeOK, budget
<1>15. WindowInv'
  <2>1. \A o \in Offsets : (pull /\ o < next_credit_offset /\ ~entries[o].committed)'
          => entries'[o].inflight_accounted
    <3> SUFFICES ASSUME NEW o \in Offsets, pull, Kept(o) \/ Given1(o), ~entries'[o].committed
                 PROVE  entries'[o].inflight_accounted
      BY <1>8
    <3> QED BY <1>5, <1>6, <1>7, <1>10
  <2>2. ASSUME NEW s \in Subs
        PROVE  Cardinality(Inflight(entries', s)) <= StartWindow
    <3>1. Inflight(entries', s) \in SUBSET Offsets /\ Inflight(es, s) \in SUBSET Offsets
          /\ Inflight(entries, s) \in SUBSET Offsets
      BY DEF Inflight
    <3>2. Inflight(es, s) \subseteq Inflight(entries, s)
      BY <1>10 DEF Inflight
    <3>3. CASE \E i \in 1 .. count : turn[i] = s
      <4>1. PICK i \in 1 .. count : turn[i] = s
        BY <3>3
      <4>2. Cardinality(Inflight(es, s)) < StartWindow
        <5>1. MayIssue(es, s)
          BY <1>2, <4>1
        <5>2. rate[s].window = StartWindow
          BY DEF PacingInv, WindowInv
        <5> QED BY <5>1, <5>2 DEF MayIssue
      <4>3. next_credit_offset + i - 1 \in Offsets
        <5>1. next_credit_offset + count <= P
          BY <1>2
        <5> QED BY <5>1, <1>3, Constants DEF Offsets
      <4>4. ASSUME NEW o \in Offsets, entries'[o].inflight_accounted, entries'[o].sub = s,
                   o # next_credit_offset + i - 1
            PROVE  es[o].inflight_accounted /\ es[o].sub = s
        <5>1. ~Given1(o)
          <6> SUFFICES ASSUME Given1(o) PROVE FALSE
            OBVIOUS
          <6>1. o - next_credit_offset + 1 \in 1 .. count /\ o - next_credit_offset + 1 # i
            BY <1>3, <1>4, <4>4
          <6>2. turn[o - next_credit_offset + 1] = s
            BY <1>5, <4>4
          <6>3. turn[o - next_credit_offset + 1] # turn[i]
            BY <1>2, <6>1
          <6> QED BY <6>2, <6>3, <4>1
        <5> QED BY <5>1, <1>6, <4>4
      <4>5. Inflight(entries', s) \subseteq Inflight(es, s) \cup {next_credit_offset + i - 1}
        BY <4>4 DEF Inflight
      <4>6. Cardinality(Inflight(entries', s)) <= Cardinality(Inflight(es, s)) + 1
        BY <3>1, <4>3, <4>5, AtMostOneMore
      <4>7. Cardinality(Inflight(entries', s)) \in Nat /\ Cardinality(Inflight(es, s)) \in Nat
        BY <3>1, FiniteParts
      <4> QED BY <4>2, <4>6, <4>7, Constants
    <3>4. CASE ~ \E i \in 1 .. count : turn[i] = s
      <4>1. ASSUME NEW o \in Offsets, entries'[o].inflight_accounted, entries'[o].sub = s
            PROVE  entries[o].inflight_accounted /\ entries[o].sub = s
        <5>1. ~Given1(o)
          BY <1>4, <1>5, <3>4, <4>1
        <5> QED BY <5>1, <1>6, <1>10, <4>1
      <4>2. Inflight(entries', s) \subseteq Inflight(entries, s)
        BY <4>1 DEF Inflight
      <4>3. Cardinality(Inflight(entries', s)) <= Cardinality(Inflight(entries, s))
        BY <3>1, <4>2, CardinalityMonotone
      <4>4. Cardinality(Inflight(entries, s)) <= StartWindow
        BY DEF PacingInv, WindowInv
      <4> QED BY <3>1, <4>3, <4>4, FiniteParts, Constants
    <3> QED BY <3>3, <3>4
  <2>3. rate' = [s \in Subs |-> [gap |-> Gap, window |-> StartWindow]]
    BY DEF PacingInv, WindowInv
  <2>4. \A s \in Subs : Inflight(entries, s)' = Inflight(entries', s)
    BY DEF Inflight
  <2> QED BY <2>1, <2>2, <2>3, <2>4 DEF WindowInv
<1>16. SpacingInv'
  <2>1. ASSUME NEW o \in Offsets, Kept(o)
        PROVE  issued_at[o] + Gap <= next_channel_credit_at
    BY <2>1 DEF PacingInv, SpacingInv, Kept
  <2>2. ASSUME count > 0, NEW o \in Offsets, Kept(o)
        PROVE  issued_at[o] + Gap <= now
    <3>1. 1 \in 1 .. count
      BY <2>2
    <3>2. ChannelOpen
      BY <3>1, <1>2
    <3>3. issued_at[o] \in Nat
      BY <1>3
    <3>4. next_channel_credit_at # Unset
      BY <2>1, <2>2, <3>3, <1>3, Constants DEF Unset
    <3> QED BY <2>1, <2>2, <3>2, <3>3, <3>4, <1>3, Constants DEF ChannelOpen
  <2>3. CASE count = 0
    <3>1. \A o \in Offsets : ~Given1(o)
      BY <2>3, <1>3 DEF Given1
    <3>2. next_channel_credit_at' = next_channel_credit_at
      BY <2>3, <1>2
    <3>3. Credited' = Credited
      BY <3>1, <1>12
    <3>4. \A o \in Offsets : issued_at'[o] = issued_at[o] /\ entries'[o].sub = entries[o].sub
      BY <3>1, <1>6, <1>10
    <3>5. CreditsSpaced'
      <4>1. \A o \in Credited : o \in Offsets
        BY <1>12
      <4>2. CreditsSpaced
        BY DEF PacingInv, SpacingInv
      <4> QED BY <3>3, <3>4, <4>1, <4>2 DEF CreditsSpaced
    <3>6. next_credit_offset' = next_credit_offset
      BY <2>3, <1>2, <1>3
    <3> QED BY <2>1, <3>2, <3>4, <3>5, <3>6 DEF SpacingInv, Kept
  <2>4. CASE count > 0
    <3>1. next_channel_credit_at' = now + Gap
      BY <2>4, <1>2
    <3>2. \A o \in Offsets : (o < next_credit_offset)' => issued_at'[o] + Gap <= now + Gap
      <4> SUFFICES ASSUME NEW o \in Offsets, Kept(o) \/ Given1(o)
                   PROVE  issued_at'[o] + Gap <= now + Gap
        BY <1>8
      <4>1. CASE Given1(o)
        BY <4>1, <1>3, <1>5, Constants
      <4>2. CASE Kept(o)
        <5>1. issued_at'[o] = issued_at[o] /\ issued_at[o] \in Nat
          BY <4>2, <1>3, <1>6, <1>7
        <5>2. issued_at[o] + Gap <= now
          BY <2>2, <2>4, <4>2
        <5> QED BY <5>1, <5>2, <1>3, Constants
      <4> QED BY <4>1, <4>2
    <3>3. ASSUME NEW o \in Credited', NEW q \in Credited', o < q
          PROVE  (\/ issued_at[q] >= issued_at[o] + Gap
                  \/ issued_at[q] = issued_at[o] /\ entries[o].sub # entries[q].sub)'
      <4>1. o \in Offsets /\ q \in Offsets /\ (Kept(o) \/ Given1(o)) /\ (Kept(q) \/ Given1(q))
        BY <1>12
      <4>2. CASE Kept(q)
        <5>1. Kept(o)
          BY <3>3, <4>1, <4>2, <1>3 DEF Kept
        <5>2. o \in Credited /\ q \in Credited
          BY <4>1, <4>2, <5>1, <1>12
        <5>3. /\ issued_at'[o] = issued_at[o] /\ issued_at'[q] = issued_at[q]
              /\ entries'[o].sub = entries[o].sub /\ entries'[q].sub = entries[q].sub
          BY <4>1, <4>2, <5>1, <1>6, <1>7, <1>10
        <5> QED BY <5>2, <5>3, <3>3 DEF PacingInv, SpacingInv, CreditsSpaced
      <4>3. CASE Given1(q) /\ Kept(o)
        <5>1. issued_at'[q] = now /\ issued_at'[o] = issued_at[o]
          BY <4>1, <4>3, <1>5, <1>6, <1>7
        <5>2. issued_at[o] + Gap <= now
          BY <2>2, <2>4, <4>1, <4>3
        <5>3. issued_at[o] \in Nat
          BY <4>1, <1>3
        <5> QED BY <5>1, <5>2, <5>3, <1>3, Constants
      <4>4. CASE Given1(q) /\ Given1(o)
        <5>1. issued_at'[q] = now /\ issued_at'[o] = now
          BY <4>1, <4>4, <1>5
        <5>2. /\ o - next_credit_offset + 1 \in 1 .. count
              /\ q - next_credit_offset + 1 \in 1 .. count
              /\ o - next_credit_offset + 1 # q - next_credit_offset + 1
          BY <3>3, <4>1, <4>4, <1>3, <1>4
        <5>3. turn[o - next_credit_offset + 1] # turn[q - next_credit_offset + 1]
          BY <5>2, <1>2
        <5>4. /\ entries'[o].sub = turn[o - next_credit_offset + 1]
              /\ entries'[q].sub = turn[q - next_credit_offset + 1]
          BY <4>1, <4>4, <1>5
        <5> QED BY <5>1, <5>3, <5>4
      <4> QED BY <4>1, <4>2, <4>3, <4>4
    <3>4. CreditsSpaced'
      BY <3>3 DEF CreditsSpaced
    <3> QED BY <3>1, <3>2, <3>4 DEF SpacingInv
  <2> QED BY <2>3, <2>4, <1>1
<1>17. RepairWithinBudget'
  BY DEF PacingInv, RepairWithinBudget, budget
<1>18. ServedInv'
  <2> SUFFICES ASSUME NEW o \in Offsets, Overdue(o)'
      PROVE  (/\ now <= Deadline(o) + Rto
              /\ \/ Deadline(o) = now
                 \/ refill_at = now
                 \/ refill_at = now - 1 /\ tokens < DearestTrigger
              /\ o \notin scan => refill_at = now /\ tokens < DearestTrigger
              /\ Deadline(o) <= refill_at =>
                   Rate * (refill_at - Deadline(o))
                     <= tokens + DearestTrigger * Cardinality(Overtaking(o)))'
    BY DEF ServedInv
  <2>1. ~Given1(o)
    <3> SUFFICES ASSUME Given1(o) PROVE FALSE
      OBVIOUS
    <3>1. entries'[o].sent_at = now
      BY <1>5
    <3> QED BY <3>1, <1>3, Budget, Constants DEF Overdue, Deadline
  <2>2. Deadline(o)' = Deadline(o)
    BY <2>1, <1>6, <1>10 DEF Deadline
  <2>3. Overdue(o)
    <3>1. Kept(o)
      BY <2>1, <1>8 DEF Overdue
    <3>2. ~entries[o].done
      BY <2>1, <1>6, <1>10 DEF Overdue
    <3> QED BY <3>1, <3>2, <2>2 DEF Overdue, Kept
  <2>4. Overtaking(o) \subseteq Overtaking(o)'
    <3> SUFFICES ASSUME NEW p \in Offsets, entries[p].sent_at > Deadline(o)
                 PROVE  entries'[p].sent_at > Deadline(o)
      BY <2>2 DEF Overtaking
    <3>1. entries[p].sent_at <= now /\ entries[p].sent_at \in Nat /\ Deadline(o) \in Nat
      <4>1. entries[p] \in Entry /\ entries[o] \in Entry
        BY <1>3
      <4> QED BY <4>1, <1>9, Constants DEF Entry, Deadline
    <3>2. CASE Given1(p)
      BY <3>1, <3>2, <1>3, <1>5
    <3>3. CASE ~Given1(p)
      BY <3>3, <1>6, <1>10
    <3> QED BY <3>2, <3>3
  <2>5. /\ Overtaking(o)' \in SUBSET Offsets
        /\ Cardinality(Overtaking(o)) \in Nat /\ Cardinality(Overtaking(o)') \in Nat
        /\ Cardinality(Overtaking(o)) <= Cardinality(Overtaking(o)')
    <3>1. Overtaking(o)' \in SUBSET Offsets
      BY DEF Overtaking
    <3> QED BY <3>1, <2>4, FiniteParts, CardinalityMonotone
  <2>6. DearestTrigger * Cardinality(Overtaking(o))
          <= DearestTrigger * Cardinality(Overtaking(o)')
    BY <2>5, Budget, ProductMonotone
  <2>7. /\ now <= Deadline(o) + Rto
        /\ \/ Deadline(o) = now
           \/ refill_at = now
           \/ refill_at = now - 1 /\ tokens < DearestTrigger
        /\ o \notin scan => refill_at = now /\ tokens < DearestTrigger
        /\ Deadline(o) <= refill_at =>
             Rate * (refill_at - Deadline(o))
               <= tokens + DearestTrigger * Cardinality(Overtaking(o))
    BY <2>3 DEF PacingInv, ServedInv
  <2>8. (/\ now <= Deadline(o) + Rto
         /\ \/ Deadline(o) = now
            \/ refill_at = now
            \/ refill_at = now - 1 /\ tokens < DearestTrigger
         /\ o \notin scan => refill_at = now /\ tokens < DearestTrigger)'
    BY <2>2, <2>7 DEF budget
  <2>9. ASSUME (Deadline(o) <= refill_at)'
        PROVE  (Rate * (refill_at - Deadline(o))
                  <= tokens + DearestTrigger * Cardinality(Overtaking(o)))'
    <3>1. /\ Deadline(o) <= refill_at
          /\ Rate * (refill_at - Deadline(o))
               <= tokens + DearestTrigger * Cardinality(Overtaking(o))
      BY <2>2, <2>7, <2>9 DEF budget
    <3>2. /\ Deadline(o) \in Nat /\ refill_at \in Nat /\ tokens \in Nat
          /\ refill_at - Deadline(o) \in Int
      <4>1. entries[o] \in Entry
        BY <1>3
      <4>2. refill_at \in 1 .. now /\ tokens \in 0 .. Burst
        BY DEF PacingInv, PacingTypes, PacingTypeOK
      <4>3. Deadline(o) \in Nat
        BY <4>1, Constants DEF Entry, Deadline
      <4> QED BY <4>2, <4>3, <1>3, Constants
    <3>3. /\ Rate * (refill_at - Deadline(o)) \in Int
          /\ DearestTrigger * Cardinality(Overtaking(o)) \in Int
          /\ DearestTrigger * Cardinality(Overtaking(o)') \in Int
      <4>1. \A x \in Nat : x \in Int
        OBVIOUS
      <4>2. Rate \in Int /\ DearestTrigger \in Int
        BY <4>1, Budget, Constants, Zenon
      <4>3. Cardinality(Overtaking(o)) \in Int /\ Cardinality(Overtaking(o)') \in Int
        BY <4>1, <2>5, Zenon
      <4> QED BY <3>2, <4>2, <4>3, ProductInt, Zenon
    <3>4. Rate * (refill_at - Deadline(o))
            <= tokens + DearestTrigger * Cardinality(Overtaking(o)')
      BY <2>6, <3>1, <3>2, <3>3, SumMonotone, Zenon
    <3> QED BY <2>2, <3>4 DEF budget
  <2> QED BY <2>8, <2>9
<1> QED BY <1>11, <1>13, <1>14, <1>15, <1>16, <1>17, <1>18 DEF PacingInv

-----------------------------------------------------------------------------
(* Answers.                                                                *)

\* The entry of a packet with a credit after an answer.
LEMMA OneAnswer ==
  ASSUME PacingInv, NEW o \in Offsets, o < next_credit_offset, NEW x \in Entry, NEW n,
         x.sent_at = entries[o].sent_at, x.sub = entries[o].sub,
         x.retry_count = entries[o].retry_count,
         entries[o].done => x.done, x.done => x.committed,
         x.inflight_accounted => entries[o].inflight_accounted,
         pull /\ ~x.committed => x.inflight_accounted,
         n = IF x.done /\ ~entries[o].done THEN LessOne(outstanding) ELSE outstanding
  PROVE  AfterAnswers([entries EXCEPT ![o] = x], n)
<1> DEFINE es == [entries EXCEPT ![o] = x]
           S == {q \in Credited : ~entries[q].done}
           T == {q \in Credited : ~es[q].done}
<1>1. entries \in [Offsets -> Entry] /\ next_credit_offset \in Nat
  BY DEF PacingInv, PacingTypes, PacingTypeOK
<1>2. es \in [Offsets -> Entry] /\ es[o] = x /\ \A q \in Offsets : q # o => es[q] = entries[q]
  BY <1>1
<1>3. AfterAnswers(entries, outstanding)
  BY NowAnswered
<1>4. Offsets \subseteq Nat
  BY DEF Offsets
<1> HIDE DEF es
<1>5. \A q \in Offsets :
         /\ es[q].sent_at = entries[q].sent_at /\ es[q].sub = entries[q].sub
         /\ es[q].retry_count = entries[q].retry_count
         /\ entries[q].done => es[q].done
         /\ es[q].done => es[q].committed
         /\ q >= next_credit_offset => ~es[q].done
         /\ es[q].inflight_accounted => entries[q].inflight_accounted
         /\ pull /\ q < next_credit_offset /\ ~es[q].committed => es[q].inflight_accounted
  <2> TAKE q \in Offsets
  <2>1. CASE q = o
    <3>1. ~(q >= next_credit_offset)
      BY <2>1, <1>1, <1>4
    <3> QED BY <2>1, <3>1, <1>2
  <2>2. CASE q # o
    BY <2>2, <1>2, <1>3 DEF AfterAnswers
  <2> QED BY <2>1, <2>2
<1>6. Credited \subseteq Offsets /\ o \in Credited
  BY CreditedSet DEF PacingInv
<1>7. outstanding = Cardinality(S) /\ S \in SUBSET Offsets
  BY <1>6 DEF PacingInv, OutstandingExact
<1>8. n = Cardinality(T)
  <2>1. CASE x.done /\ ~entries[o].done
    <3>1. T = S \ {o} /\ o \in S
      BY <2>1, <1>2, <1>6
    <3>2. Cardinality(T) = Cardinality(S) - 1 /\ Cardinality(S) \in Nat /\ Cardinality(T) \in Nat
      <4> HIDE DEF S, T
      <4>1. IsFiniteSet(S) /\ Cardinality(S) \in Nat /\ T \in SUBSET Offsets
        BY <3>1, <1>7, FiniteParts
      <4> QED BY <3>1, <4>1, FS_RemoveElement, FiniteParts
    <3>3. n = LessOne(outstanding)
      BY <2>1
    <3> QED BY <3>2, <3>3, <1>7 DEF LessOne
  <2>2. CASE ~(x.done /\ ~entries[o].done)
    <3>1. T = S
      BY <2>2, <1>2, <1>6
    <3> QED BY <2>2, <3>1, <1>7
  <2> QED BY <2>1, <2>2
<1>9. AfterAnswers(es, n)
  BY <1>2, <1>5, <1>8 DEF AfterAnswers
<1> QED BY <1>9 DEF es

\* Answers without a round preserve the invariant.
LEMMA KeepStep ==
  ASSUME PacingInv, NEW es, NEW n, AfterAnswers(es, n), phase = "rx",
         entries' = es, outstanding' = n,
         UNCHANGED <<now, scan, phase, pull, ready, rate, credits, budget>>
  PROVE  PacingInv'
<1>1. /\ es \in [Offsets -> Entry] /\ n = Cardinality({o \in Credited : ~es[o].done})
      /\ \A o \in Offsets :
         /\ es[o].sent_at = entries[o].sent_at /\ es[o].sub = entries[o].sub
         /\ es[o].retry_count = entries[o].retry_count
         /\ entries[o].done => es[o].done
         /\ es[o].done => es[o].committed
         /\ o >= next_credit_offset => ~es[o].done
         /\ es[o].inflight_accounted => entries[o].inflight_accounted
         /\ pull /\ o < next_credit_offset /\ ~es[o].committed => es[o].inflight_accounted
  BY DEF AfterAnswers
<1>2. scan = {}
  BY DEF PacingInv, CreditsInv
<1>3. CreditsInv'
  BY <1>1, <1>2 DEF PacingInv, CreditsInv, credits
<1>4. Credited' = Credited /\ Credited \subseteq Offsets
  BY DEF Credited, credits
<1>5. OutstandingExact'
  BY <1>1, <1>4 DEF OutstandingExact
<1>6. PacingTypes'
  <2>1. outstanding' \in 0 .. P
    <3>1. {o \in Credited : ~es[o].done} \in SUBSET Offsets
      BY <1>4
    <3> QED BY <3>1, <1>1, FiniteParts, Constants
  <2>2. \A o \in Offsets : es[o].retry_count \in 0 .. MaxRetries
    BY <1>1 DEF Entry
  <2> QED BY <1>1, <2>1, <2>2 DEF PacingInv, PacingTypes, PacingTypeOK, credits, budget
<1>7. WindowInv'
  <2>1. ASSUME NEW s \in Subs
        PROVE  Cardinality(Inflight(es, s)) <= StartWindow
    <3>1. Inflight(es, s) \subseteq Inflight(entries, s) /\ Inflight(entries, s) \in SUBSET Offsets
      BY <1>1 DEF Inflight
    <3>2. Cardinality(Inflight(entries, s)) <= StartWindow
      BY DEF PacingInv, WindowInv
    <3>3. /\ Cardinality(Inflight(es, s)) <= Cardinality(Inflight(entries, s))
          /\ Cardinality(Inflight(es, s)) \in Nat /\ Cardinality(Inflight(entries, s)) \in Nat
      BY <3>1, FiniteParts, CardinalityMonotone
    <3> QED BY <3>2, <3>3, Constants
  <2>2. \A s \in Subs : Inflight(entries, s)' = Inflight(es, s)
    BY DEF Inflight
  <2> QED BY <1>1, <2>1, <2>2 DEF PacingInv, WindowInv, credits
<1>8. SpacingInv'
  <2>1. \A o \in Credited : entries'[o].sub = entries[o].sub
    BY <1>1, <1>4
  <2>2. CreditsSpaced'
    BY <2>1, <1>4 DEF PacingInv, SpacingInv, CreditsSpaced, credits
  <2> QED BY <2>2 DEF PacingInv, SpacingInv, credits
<1>9. RepairWithinBudget'
  BY DEF PacingInv, RepairWithinBudget, budget
<1>10. ServedInv'
  <2>1. \A o \in Offsets : Deadline(o)' = Deadline(o)
    BY <1>1 DEF Deadline
  <2>2. \A o \in Offsets : Overdue(o)' => Overdue(o)
    BY <1>1, <2>1 DEF Overdue, credits
  <2>3. \A o \in Offsets : Overtaking(o)' = Overtaking(o)
    BY <1>1, <2>1 DEF Overtaking
  <2> QED BY <2>1, <2>2, <2>3 DEF PacingInv, ServedInv, budget
<1> QED BY <1>3, <1>5, <1>6, <1>7, <1>8, <1>9, <1>10 DEF PacingInv

LEMMA MarkedFacts ==
  ASSUME NEW e \in Entry, NEW ce \in BOOLEAN
  PROVE  /\ Marked(e, ce) \in Entry
         /\ Marked(e, ce).sent_at = e.sent_at /\ Marked(e, ce).sub = e.sub
         /\ Marked(e, ce).retry_count = e.retry_count
         /\ Marked(e, ce).done = e.done /\ Marked(e, ce).committed = e.committed
         /\ Marked(e, ce).inflight_accounted = e.inflight_accounted
BY DEF Marked, Entry

\* A frame for a packet that is committed already.
LEMMA DoneStep ==
  ASSUME PacingInv, NEW o \in Offsets, NEW ce \in BOOLEAN, o < next_credit_offset,
         phase = "rx", Marked(entries[o], ce).committed, Done(o, Marked(entries[o], ce)),
         UNCHANGED <<now, scan, phase, pull, ready, budget>>
  PROVE  PacingInv'
<1>1. PICK e \in Entry : e = Marked(entries[o], ce)
  BY MarkedFacts DEF PacingInv, PacingTypes
<1>2. /\ e.sent_at = entries[o].sent_at /\ e.sub = entries[o].sub
      /\ e.retry_count = entries[o].retry_count
      /\ e.done = entries[o].done /\ e.committed = entries[o].committed
      /\ e.inflight_accounted = entries[o].inflight_accounted
  BY <1>1, MarkedFacts DEF PacingInv, PacingTypes
<1>3. PICK x \in Entry : x = [e EXCEPT !.done = TRUE]
  BY DEF Entry
<1>4. /\ x.sent_at = e.sent_at /\ x.sub = e.sub /\ x.retry_count = e.retry_count
      /\ x.done /\ x.committed = e.committed /\ x.inflight_accounted = e.inflight_accounted
  BY <1>3 DEF Entry
<1>5. /\ entries' = [entries EXCEPT ![o] = x]
      /\ outstanding' = IF x.done /\ ~entries[o].done THEN LessOne(outstanding) ELSE outstanding
      /\ UNCHANGED <<rate, credits>>
  BY <1>1, <1>2, <1>3, <1>4 DEF Done, MarkDone
<1>6. AfterAnswers([entries EXCEPT ![o] = x], outstanding')
  <2>1. pull /\ ~x.committed => x.inflight_accounted
    BY <1>1, <1>4
  <2>2. x.done => x.committed
    BY <1>1, <1>4
  <2> QED BY <1>2, <1>4, <1>5, <2>1, <2>2, OneAnswer
<1> QED BY <1>5, <1>6, KeepStep

\* A frame that completes the packet.
LEMMA CommitStep ==
  ASSUME PacingInv, NEW o \in Offsets, NEW ce \in BOOLEAN, o < next_credit_offset,
         NEW kind \in {"DIRECT", "REPAIR"},
         phase = "rx", ~Marked(entries[o], ce).committed,
         Commit(o, Marked(entries[o], ce), kind),
         UNCHANGED <<now, scan, phase, pull, ready, budget>>
  PROVE  PacingInv'
<1>1. PICK e \in Entry : e = Marked(entries[o], ce)
  BY MarkedFacts DEF PacingInv, PacingTypes
<1>2. /\ e.sent_at = entries[o].sent_at /\ e.sub = entries[o].sub
      /\ e.retry_count = entries[o].retry_count
      /\ e.done = entries[o].done /\ e.committed = entries[o].committed
      /\ e.inflight_accounted = entries[o].inflight_accounted
  BY <1>1, MarkedFacts DEF PacingInv, PacingTypes
<1>3. PICK x \in Entry : x = [NotSampled(e, kind) EXCEPT !.committed = TRUE, !.done = TRUE]
  BY DEF Entry, NotSampled
<1>4. /\ x.sent_at = e.sent_at /\ x.sub = e.sub /\ x.retry_count = e.retry_count
      /\ x.done /\ x.committed /\ ~x.inflight_accounted
  BY <1>3 DEF Entry, NotSampled
<1>5. /\ rate' = rate
      /\ IssueRound([entries EXCEPT ![o] = x], LessOne(outstanding))
  BY <1>1, <1>3 DEF Commit, AllowSample
<1>6. ~entries[o].done
  BY <1>1, <1>2 DEF PacingInv, CreditsInv
<1>7. AfterAnswers([entries EXCEPT ![o] = x], LessOne(outstanding))
  BY <1>2, <1>4, <1>6, OneAnswer
<1>8. /\ scan = {} /\ phase' \in {"issue", "rx"} /\ phase # "failed" /\ ready' \subseteq Subs
      /\ UNCHANGED <<now, pull, rate, budget>> /\ scan' = {}
  BY <1>5 DEF PacingInv, CreditsInv, PacingTypes, PacingTypeOK
<1> HIDE DEF IssueRound
<1> QED BY <1>5, <1>7, <1>8, RoundStep

LEMMA AggregateStep ==
  ASSUME PacingInv, NEW o \in Offsets, NEW ce \in BOOLEAN, RxAggregate(o, ce)
  PROVE  PacingInv'
<1>1. o < next_credit_offset /\ phase = "rx"
  BY DEF RxAggregate, PacingInv, CreditsInv
<1>2. UNCHANGED <<now, scan, phase, pull, ready, budget>>
  BY DEF RxAggregate
<1>3. PICK e \in Entry : e = Marked(entries[o], ce)
  BY MarkedFacts DEF PacingInv, PacingTypes
<1>4. CASE e.repair_mode \/ (pull /\ e.committed)
  <2>1. entries' = [entries EXCEPT ![o] = e] /\ UNCHANGED <<outstanding, rate, credits>>
    BY <1>3, <1>4 DEF RxAggregate
  <2>2. /\ e.sent_at = entries[o].sent_at /\ e.sub = entries[o].sub
        /\ e.retry_count = entries[o].retry_count
        /\ e.done = entries[o].done /\ e.committed = entries[o].committed
        /\ e.inflight_accounted = entries[o].inflight_accounted
    BY <1>3, MarkedFacts DEF PacingInv, PacingTypes
  <2>3. /\ e.done => e.committed
        /\ pull /\ ~e.committed => e.inflight_accounted
    BY <1>1, <2>2 DEF PacingInv, CreditsInv, WindowInv
  <2>4. AfterAnswers([entries EXCEPT ![o] = e], outstanding)
    BY <1>1, <2>2, <2>3, OneAnswer
  <2> QED BY <1>1, <1>2, <2>1, <2>4, KeepStep
<1>5. CASE ~(e.repair_mode \/ (pull /\ e.committed)) /\ e.committed
  <2>1. Done(o, Marked(entries[o], ce))
    BY <1>3, <1>5 DEF RxAggregate
  <2> QED BY <1>1, <1>2, <1>3, <1>5, <2>1, DoneStep
<1>6. CASE ~(e.repair_mode \/ (pull /\ e.committed)) /\ ~e.committed
  <2>1. Commit(o, Marked(entries[o], ce), "DIRECT")
    BY <1>3, <1>6 DEF RxAggregate
  <2> QED BY <1>1, <1>2, <1>3, <1>6, <2>1, CommitStep
<1> QED BY <1>4, <1>5, <1>6

LEMMA RepairStep ==
  ASSUME PacingInv, NEW o \in Offsets, NEW ce \in BOOLEAN, RxRepair(o, ce)
  PROVE  PacingInv'
<1>1. o < next_credit_offset /\ phase = "rx"
  <2>1. entries[o].retry_count > 0
    BY DEF RxRepair
  <2>2. o \in Nat /\ next_credit_offset \in Nat
    BY DEF PacingInv, PacingTypes, PacingTypeOK, Offsets
  <2>3. o >= next_credit_offset => entries[o].retry_count = 0
    BY DEF PacingInv, CreditsInv
  <2> QED BY <2>1, <2>2, <2>3 DEF RxRepair
<1>2. UNCHANGED <<now, scan, phase, pull, ready, budget>>
  BY DEF RxRepair
<1>3. CASE Marked(entries[o], ce).committed
  <2>1. Done(o, Marked(entries[o], ce))
    BY <1>3 DEF RxRepair
  <2> QED BY <1>1, <1>2, <1>3, <2>1, DoneStep
<1>4. CASE ~Marked(entries[o], ce).committed
  <2>1. Commit(o, Marked(entries[o], ce), "REPAIR")
    BY <1>4 DEF RxRepair
  <2> QED BY <1>1, <1>2, <1>4, <2>1, CommitStep
<1> QED BY <1>3, <1>4

\* A round in the loop and one after a registration.
LEMMA PlainRoundStep ==
  ASSUME PacingInv, IssueRound(entries, outstanding),
         UNCHANGED <<now, scan, pull, rate, budget>>, phase \in {"issue", "rx"},
         phase' = "rx", ready' \subseteq Subs
  PROVE  PacingInv'
<1>1. AfterAnswers(entries, outstanding)
  BY NowAnswered
<1>2. scan = {} /\ scan' = {}
  BY DEF PacingInv, CreditsInv
<1> HIDE DEF IssueRound
<1> QED BY <1>1, <1>2, RoundStep


-----------------------------------------------------------------------------
(* Repairs.                                                                *)

LEMMA RefillFacts ==
  ASSUME PacingInv
  PROVE  /\ Rate * (now - refill_at) \in Nat
         /\ Refilled.at = now
         /\ Refilled.tokens \in 0 .. Burst
         /\ Refilled.tokens <= tokens + Rate * (now - refill_at)
         /\ tokens + Rate * (now - refill_at) <= Burst =>
              Refilled.tokens = tokens + Rate * (now - refill_at)
<1>1. now \in Nat /\ refill_at \in 1 .. now /\ tokens \in 0 .. Burst /\ now - refill_at \in Nat
  BY DEF PacingInv, PacingTypes, PacingTypeOK
<1>2. PICK k \in Nat : k = Rate * (now - refill_at)
  BY <1>1, ProductType, Constants
<1>3. Refilled.at = now /\ Refilled.tokens = Least(Burst, tokens + k)
  BY <1>2 DEF Refilled
<1> QED BY <1>1, <1>2, <1>3, Constants DEF Least

\* The refill of two spans of time is that of both together.
LEMMA ProductSplit ==
  \A a, x, y, z \in Int : a * (x - y) + a * (y - z) = a * (x - z)
OBVIOUS

LEMMA ProductNegative == \A a \in Nat, x \in Int : a > 0 /\ x < 0 => a * x < 0
OBVIOUS

LEMMA ProductNext == \A a, x \in Nat : a * (x + 1) = a * x + a
OBVIOUS

\* What an attempt at a repair does.
LEMMA AttemptFacts ==
  ASSUME PacingInv, NEW o \in Offsets, NEW replay \in BOOLEAN, TryEnterRepair(o, replay)
  PROVE  \E cost \in Nat, x \in Entry :
           /\ cost <= DearestTrigger
           /\ tokens' \in 0 .. Burst /\ spent' \in Nat
           /\ spent' + tokens' = spent + Refilled.tokens
           /\ entries' = [entries EXCEPT ![o] = x]
           /\ x.sub = entries[o].sub /\ x.inflight_accounted = entries[o].inflight_accounted
           /\ x.committed = entries[o].committed /\ x.done = entries[o].done
           /\ \/ /\ tokens' = Refilled.tokens - cost /\ Refilled.tokens >= cost
                 /\ x.sent_at = now
              \/ /\ tokens' = Refilled.tokens /\ Refilled.tokens < cost
                 /\ x.sent_at = entries[o].sent_at
<1>1. PICK cost \in Nat : cost = TriggerBytes(replay)
  BY Budget
<1>2. cost <= DearestTrigger
  BY <1>1, Budget
<1>3. entries \in [Offsets -> Entry] /\ now \in Nat /\ spent \in Nat /\ Refilled.tokens \in 0 .. Burst
  BY RefillFacts DEF PacingInv, PacingTypes, PacingTypeOK
<1>4. entries[o] \in Entry /\ entries[o].retry_count \in Nat /\ entries[o].retry_count < MaxRetries
  BY <1>3 DEF TryEnterRepair, Entry
<1>5. CASE Refilled.tokens >= cost
  <2>1. PICK x \in Entry : x = [entries[o] EXCEPT !.repair_mode = TRUE,
                                  !.retry_count = entries[o].retry_count + 1, !.sent_at = now]
    <3>1. entries[o].retry_count + 1 \in 0 .. MaxRetries
      BY <1>4, Constants
    <3> QED BY <3>1, <1>3, <1>4 DEF Entry
  <2>2. /\ x.sub = entries[o].sub /\ x.inflight_accounted = entries[o].inflight_accounted
        /\ x.committed = entries[o].committed /\ x.done = entries[o].done /\ x.sent_at = now
    BY <1>4, <2>1 DEF Entry
  <2>3. tokens' = Refilled.tokens - cost /\ spent' = spent + cost
    BY <1>1, <1>5 DEF TryEnterRepair
  <2>4. entries' = [entries EXCEPT ![o] = x]
    BY <1>1, <1>5, <2>1 DEF TryEnterRepair
  <2>5. tokens' \in 0 .. Burst /\ spent' \in Nat /\ spent' + tokens' = spent + Refilled.tokens
    BY <2>3, <1>3, <1>5, Constants
  <2> QED BY <1>2, <1>5, <2>2, <2>3, <2>4, <2>5
<1>6. CASE Refilled.tokens < cost
  <2>1. PICK x \in Entry : x = [entries[o] EXCEPT !.repair_mode = TRUE,
                                  !.retry_count = entries[o].retry_count,
                                  !.sent_at = entries[o].sent_at]
    BY <1>3, <1>4 DEF Entry
  <2>2. /\ x.sub = entries[o].sub /\ x.inflight_accounted = entries[o].inflight_accounted
        /\ x.committed = entries[o].committed /\ x.done = entries[o].done
        /\ x.sent_at = entries[o].sent_at
    BY <1>4, <2>1 DEF Entry
  <2>3. ~(Refilled.tokens >= cost)
    BY <1>3, <1>6
  <2>4. tokens' = Refilled.tokens - 0 /\ spent' = spent + 0
    BY <1>1, <2>3 DEF TryEnterRepair
  <2>5. entries' = [entries EXCEPT ![o] = x]
    BY <1>1, <2>1, <2>3 DEF TryEnterRepair
  <2>6. tokens' = Refilled.tokens /\ tokens' \in 0 .. Burst /\ spent' \in Nat
        /\ spent' + tokens' = spent + Refilled.tokens
    BY <2>4, <1>3, Constants
  <2> QED BY <1>2, <1>6, <2>2, <2>5, <2>6
<1>7. Refilled.tokens >= cost \/ Refilled.tokens < cost
  BY <1>3
<1> QED BY <1>5, <1>6, <1>7

\* A packet that overtakes an overdue one has not overtaken it before: it
\* would have had to time out in between.
LEMMA OvertakesOnce ==
  ASSUME PacingInv, NEW o \in Offsets, NEW p \in Offsets, Overdue(o), phase # "failed",
         entries[p].sent_at + Rto <= now
  PROVE  entries[p].sent_at <= Deadline(o)
<1>1. now <= Deadline(o) + Rto
  BY DEF PacingInv, ServedInv
<1>2. entries[p].sent_at \in Nat /\ Deadline(o) \in Nat /\ now \in Nat
  BY Constants DEF PacingInv, PacingTypes, PacingTypeOK, Entry, Deadline
<1> QED BY <1>1, <1>2, Constants

\* What has been refilled since o was due, up to now.
LEMMA RefilledSince ==
  ASSUME PacingInv, NEW o \in Offsets, Overdue(o), phase # "failed"
  PROVE  /\ Cardinality(Overtaking(o)) \in Nat
         /\ \E r, s \in Nat :
              /\ r = Rate * (now - Deadline(o))
              /\ s = DearestTrigger * Cardinality(Overtaking(o))
              /\ r <= Refilled.tokens + s
         /\ refill_at = now => Refilled.tokens = tokens
<1>1. /\ now \in Nat /\ refill_at \in 1 .. now /\ tokens \in 0 .. Burst /\ Deadline(o) \in Nat
      /\ Deadline(o) <= now /\ Refilled.tokens \in 0 .. Burst
  BY RefillFacts, Constants
     DEF PacingInv, PacingTypes, PacingTypeOK, Entry, Deadline, Overdue
<1>2. Overtaking(o) \in SUBSET Offsets
  BY DEF Overtaking
<1>3. Cardinality(Overtaking(o)) \in Nat
  BY <1>2, FiniteParts
<1>4. PICK s \in Nat : s = DearestTrigger * Cardinality(Overtaking(o))
  BY <1>3, Budget, ProductType
<1>5. now - Deadline(o) \in Nat
  BY <1>1
<1>6. PICK r \in Nat : r = Rate * (now - Deadline(o))
  BY <1>5, Constants, ProductType
<1>7. PICK k \in Nat : k = Rate * (now - refill_at)
  BY RefillFacts
<1>8. \A x \in Int : x = 0 => Rate * x = 0
  BY Constants
<1>9. ASSUME refill_at = now PROVE Refilled.tokens = tokens
  <2>1. k = 0
    BY <1>1, <1>7, <1>8, <1>9
  <2>2. tokens + k <= Burst => Refilled.tokens = tokens + k
    BY <1>7, RefillFacts
  <2> QED BY <2>1, <2>2, <1>1, Constants
<1>10. Deadline(o) <= refill_at => Rate * (refill_at - Deadline(o)) <= tokens + s
  BY <1>4 DEF PacingInv, ServedInv
<1>11. r <= Refilled.tokens + s
  <2>1. CASE Deadline(o) = now
    <3>1. r = 0
      BY <2>1, <1>1, <1>6, <1>8
    <3> QED BY <3>1, <1>1, Constants
  <2>2. CASE refill_at = now
    BY <2>2, <1>1, <1>6, <1>9, <1>10
  <2>3. CASE /\ refill_at = now - 1 /\ tokens < DearestTrigger
             /\ Deadline(o) # now
    <3>1. k = Rate
      <4>1. now - refill_at = 1
        BY <2>3, <1>1
      <4>2. Rate * 1 = Rate
        BY Constants
      <4> QED BY <4>1, <4>2, <1>7
    <3>2. Rate + DearestTrigger <= Burst
      BY BudgetAssumption
    <3>3. Refilled.tokens = tokens + k
      <4>1. tokens + k <= Burst
        BY <2>3, <3>1, <3>2, <1>1, Budget, Constants
      <4> QED BY <4>1, <1>7, RefillFacts
    <3>4. Deadline(o) <= refill_at /\ refill_at - Deadline(o) \in Nat
      BY <2>3, <1>1
    <3>5. PICK q \in Nat : q = Rate * (refill_at - Deadline(o))
      BY <3>4, Constants, ProductType
    <3>6. q <= tokens + s
      BY <3>4, <3>5, <1>10
    <3>7. k + q = r
      BY <3>5, <1>1, <1>6, <1>7, Constants, ProductSplit
    <3> QED BY <3>3, <3>6, <3>7, <1>1, Constants
  <2>4. \/ Deadline(o) = now
        \/ refill_at = now
        \/ refill_at = now - 1 /\ tokens < DearestTrigger
    BY DEF PacingInv, ServedInv
  <2> QED BY <2>1, <2>2, <2>3, <2>4
<1> QED BY <1>3, <1>4, <1>6, <1>9, <1>11

\* Short of tokens, a packet is overdue for less time than refills a trigger
\* for every packet.
LEMMA WaitBounded ==
  ASSUME PacingInv, NEW o \in Offsets, Overdue(o), phase # "failed",
         refill_at = now, tokens < DearestTrigger
  PROVE  Rate * (now - Deadline(o)) < P * DearestTrigger
<1>1. /\ Cardinality(Overtaking(o)) \in Nat
      /\ \E r, s \in Nat :
              /\ r = Rate * (now - Deadline(o))
              /\ s = DearestTrigger * Cardinality(Overtaking(o))
              /\ r <= Refilled.tokens + s
      /\ Refilled.tokens = tokens
  BY RefilledSince
<1>2. PICK r, s \in Nat : /\ r = Rate * (now - Deadline(o))
                          /\ s = DearestTrigger * Cardinality(Overtaking(o))
                          /\ r <= tokens + s
  BY <1>1
<1>3. Cardinality(Overtaking(o)) + 1 <= P
  <2>1. /\ Overtaking(o) \in SUBSET Offsets /\ Overtaking(o) \cup {o} \in SUBSET Offsets
        /\ o \notin Overtaking(o)
    BY DEF Overtaking
  <2>2. Cardinality(Overtaking(o) \cup {o}) = Cardinality(Overtaking(o)) + 1
    BY <2>1, FiniteParts, FS_AddElement
  <2> QED BY <2>1, <2>2, FiniteParts
<1>4. DearestTrigger * (Cardinality(Overtaking(o)) + 1) = s + DearestTrigger
  BY <1>1, <1>2, Budget, ProductNext
<1>5. PICK b \in Nat : b = DearestTrigger * P
  BY Budget, Constants, ProductType
<1>6. s + DearestTrigger <= b
  BY <1>1, <1>3, <1>4, <1>5, Budget, Constants, ProductMonotone
<1>7. tokens \in Nat
  BY Constants DEF PacingInv, PacingTypes, PacingTypeOK
<1>8. r < b
  BY <1>2, <1>5, <1>6, <1>7, Budget
<1>9. b = P * DearestTrigger
  BY <1>5, Budget, Constants
<1> QED BY <1>2, <1>8, <1>9

LEMMA AttemptStep ==
  ASSUME PacingInv, NEW p \in Offsets, NEW replay \in BOOLEAN, TryEnterRepair(p, replay)
  PROVE  PacingInv'
<1>1. PICK cost \in Nat, x \in Entry :
           /\ cost <= DearestTrigger
           /\ tokens' \in 0 .. Burst /\ spent' \in Nat
           /\ spent' + tokens' = spent + Refilled.tokens
           /\ entries' = [entries EXCEPT ![p] = x]
           /\ x.sub = entries[p].sub /\ x.inflight_accounted = entries[p].inflight_accounted
           /\ x.committed = entries[p].committed /\ x.done = entries[p].done
           /\ \/ /\ tokens' = Refilled.tokens - cost /\ Refilled.tokens >= cost
                 /\ x.sent_at = now
              \/ /\ tokens' = Refilled.tokens /\ Refilled.tokens < cost
                 /\ x.sent_at = entries[p].sent_at
  BY AttemptFacts
<1>2. /\ phase = "scan" /\ p \in scan /\ scan' = scan \ {p} /\ refill_at' = now
      /\ UNCHANGED <<now, phase, pull, ready, outstanding, rate, credits>>
  BY RefillFacts DEF TryEnterRepair
<1>3. /\ entries \in [Offsets -> Entry] /\ now \in Nat /\ now > 0 /\ Offsets \subseteq Nat
      /\ next_credit_offset \in 0 .. P /\ refill_at \in 1 .. now /\ tokens \in 0 .. Burst
      /\ spent \in Nat /\ Refilled.tokens \in 0 .. Burst
  BY RefillFacts DEF PacingInv, PacingTypes, PacingTypeOK, Offsets
<1>4. /\ p < next_credit_offset /\ ~entries[p].done /\ entries[p].sent_at + Rto <= now
      /\ entries[p].sent_at # Unset
  BY <1>2 DEF PacingInv, CreditsInv
<1>5. /\ entries' \in [Offsets -> Entry] /\ entries'[p] = x
      /\ \A o \in Offsets : o # p => entries'[o] = entries[o]
  BY <1>1, <1>3
<1>6. \A o \in Offsets :
        /\ entries'[o].sub = entries[o].sub
        /\ entries'[o].inflight_accounted = entries[o].inflight_accounted
        /\ entries'[o].committed = entries[o].committed /\ entries'[o].done = entries[o].done
  BY <1>1, <1>5
<1>7. x.sent_at = now \/ x.sent_at = entries[p].sent_at
  BY <1>1
<1>8. CreditsInv'
  <2>1. ASSUME NEW o \in Offsets
        PROVE  (/\ o < next_credit_offset <=> issued_at[o] # Unset
                /\ o < next_credit_offset <=> entries[o].sent_at # Unset
                /\ entries[o].sent_at <= now
                /\ o >= next_credit_offset => /\ ~entries[o].done /\ ~entries[o].inflight_accounted
                                              /\ entries[o].retry_count = 0
                /\ entries[o].done => entries[o].committed)'
    <3>1. CASE o = p
      <4>1. ~(o >= next_credit_offset)
        BY <3>1, <1>3, <1>4
      <4>2. x.sent_at # Unset /\ x.sent_at <= now
        BY <1>3, <1>4, <1>7 DEF PacingInv, CreditsInv, Unset
      <4> QED BY <3>1, <4>1, <4>2, <1>2, <1>4, <1>5, <1>6 DEF PacingInv, CreditsInv, credits
    <3>2. CASE o # p
      BY <3>2, <1>2, <1>5 DEF PacingInv, CreditsInv, credits
    <3> QED BY <3>1, <3>2
  <2>2. \A o \in scan' : o \in scan /\ o # p /\ o \in Offsets
    BY <1>2 DEF PacingInv, PacingTypes, PacingTypeOK
  <2>3. \A o \in scan' : (/\ o < next_credit_offset /\ ~entries[o].done
                          /\ entries[o].sent_at + Rto <= now)'
    BY <2>2, <1>2, <1>5 DEF PacingInv, CreditsInv, credits
  <2> QED BY <2>1, <2>3, <1>2 DEF CreditsInv
<1>9. Credited' = Credited /\ Credited \subseteq Offsets
  BY <1>2 DEF Credited, credits
<1>10. OutstandingExact'
  <2>1. {o \in Credited : ~entries[o].done}' = {o \in Credited : ~entries[o].done}
    BY <1>6, <1>9
  <2> QED BY <2>1, <1>2 DEF PacingInv, OutstandingExact
<1>11. PacingTypes'
  <2>1. \A o \in Offsets : entries'[o].retry_count \in 0 .. MaxRetries
    BY <1>5 DEF Entry
  <2>2. scan' \subseteq Offsets /\ refill_at' \in 1 .. now'
    BY <1>2, <1>3 DEF PacingInv, PacingTypes, PacingTypeOK
  <2> QED BY <2>1, <2>2, <1>1, <1>2, <1>5
          DEF PacingInv, PacingTypes, PacingTypeOK, credits
<1>12. WindowInv'
  <2>1. \A s \in Subs : Inflight(entries, s)' = Inflight(entries, s)
    BY <1>6 DEF Inflight
  <2> QED BY <2>1, <1>2, <1>6 DEF PacingInv, WindowInv, credits
<1>13. SpacingInv'
  <2>1. CreditsSpaced'
    BY <1>2, <1>6, <1>9 DEF PacingInv, SpacingInv, CreditsSpaced, credits
  <2> QED BY <2>1, <1>2 DEF PacingInv, SpacingInv, credits
<1>14. RepairWithinBudget'
  <2>1. PICK k \in Nat : k = Rate * (now - refill_at)
    BY RefillFacts
  <2>2. Refilled.tokens <= tokens + k
    BY <2>1, RefillFacts
  <2>3. refill_at - 1 \in Nat /\ now - 1 \in Nat
    BY <1>3
  <2>4. PICK b \in Nat : b = Rate * (refill_at - 1)
    BY <2>3, Constants, ProductType
  <2>5. PICK c \in Nat : c = Rate * (now - 1)
    BY <2>3, Constants, ProductType
  <2>6. k + b = c
    BY <2>1, <2>4, <2>5, <1>3, Constants, ProductSplit
  <2>7. spent + tokens <= Burst + b
    BY <2>4 DEF PacingInv, RepairWithinBudget
  <2>8. spent' + tokens' <= Burst + c
    <3>1. spent' + tokens' = spent + Refilled.tokens
      BY <1>1
    <3> QED BY <3>1, <2>2, <2>6, <2>7, <1>3, Constants
  <2> QED BY <2>5, <2>8, <1>2 DEF RepairWithinBudget
<1>15. ServedInv'
  <2> SUFFICES ASSUME NEW o \in Offsets, Overdue(o)'
      PROVE  (/\ now <= Deadline(o) + Rto
              /\ \/ Deadline(o) = now
                 \/ refill_at = now
                 \/ refill_at = now - 1 /\ tokens < DearestTrigger
              /\ o \notin scan => refill_at = now /\ tokens < DearestTrigger
              /\ Deadline(o) <= refill_at =>
                   Rate * (refill_at - Deadline(o))
                     <= tokens + DearestTrigger * Cardinality(Overtaking(o)))'
    BY DEF ServedInv
  <2>1. ~(o = p /\ x.sent_at = now)
    <3> SUFFICES ASSUME o = p, x.sent_at = now PROVE FALSE
      OBVIOUS
    <3>1. Deadline(o)' = now + Rto /\ now' = now
      BY <1>2, <1>5 DEF Deadline
    <3> QED BY <3>1, <1>3, Budget, Constants DEF Overdue
  <2>2. entries'[o].sent_at = entries[o].sent_at
    BY <2>1, <1>5, <1>7
  <2>3. Deadline(o)' = Deadline(o)
    BY <2>2 DEF Deadline
  <2>4. Overdue(o) /\ phase # "failed"
    BY <2>3, <1>2, <1>6 DEF Overdue, credits
  <2>5. /\ now <= Deadline(o) + Rto
        /\ o \notin scan => refill_at = now /\ tokens < DearestTrigger
    BY <2>4 DEF PacingInv, ServedInv
  <2>6. /\ Cardinality(Overtaking(o)) \in Nat
        /\ \E r, s \in Nat :
              /\ r = Rate * (now - Deadline(o))
              /\ s = DearestTrigger * Cardinality(Overtaking(o))
              /\ r <= Refilled.tokens + s
        /\ refill_at = now => Refilled.tokens = tokens
    BY <2>4, RefilledSince
  <2>7. PICK r, s \in Nat :
          /\ r = Rate * (now - Deadline(o))
          /\ s = DearestTrigger * Cardinality(Overtaking(o))
          /\ r <= Refilled.tokens + s
    BY <2>6
  <2>8. tokens' \in Nat /\ tokens' <= Refilled.tokens
    BY <1>1, <1>3, Constants
  <2>9. (o \notin scan)' => tokens' < DearestTrigger
    <3>1. CASE o = p
      BY <3>1, <2>1, <1>1, <1>3, Budget
    <3>2. CASE o # p
      BY <3>2, <2>5, <2>6, <2>8, <1>2, <1>3, Budget
    <3> QED BY <3>1, <3>2
  <2>10. Deadline(o) \in Nat /\ Deadline(o) <= now
    BY <2>4, <1>3, Constants DEF Overdue, Deadline, Entry
  <2>11. \E s1 \in Nat : /\ s1 = DearestTrigger * Cardinality(Overtaking(o)')
                         /\ r <= tokens' + s1
    <3>1. CASE x.sent_at # now
      <4>1. x.sent_at = entries[p].sent_at
        BY <3>1, <1>7
      <4>2. \A q \in Offsets : entries'[q].sent_at = entries[q].sent_at
        BY <4>1, <1>5
      <4>3. Overtaking(o)' = Overtaking(o)
        BY <4>2, <2>3 DEF Overtaking
      <4>4. tokens' = Refilled.tokens
        BY <3>1, <1>1
      <4> QED BY <4>3, <4>4, <2>7
    <3>2. CASE x.sent_at = now
      <4>1. o # p
        BY <3>2, <2>1
      <4>2. CASE Deadline(o) = now
        <5>1. \A y \in Int : y = 0 => Rate * y = 0
          BY Constants
        <5>2. now - Deadline(o) = 0
          BY <4>2, <1>3
        <5>3. r = 0
          BY <5>1, <5>2, <2>7
        <5>4. Overtaking(o)' \in SUBSET Offsets
          BY DEF Overtaking
        <5>5. Cardinality(Overtaking(o)') \in Nat
          BY <5>4, FiniteParts
        <5>6. PICK s1 \in Nat : s1 = DearestTrigger * Cardinality(Overtaking(o)')
          BY <5>5, Budget, ProductType
        <5>7. r <= tokens' + s1
          BY <5>3, <5>6, <2>8
        <5> QED BY <5>6, <5>7
      <4>3. CASE Deadline(o) # now
        <5>1. entries[p].sent_at <= Deadline(o)
          BY <2>4, <1>4, OvertakesOnce
        <5>2. entries[p].sent_at \in Nat
          BY <1>3 DEF Entry
        <5>3. p \notin Overtaking(o)
          BY <5>1, <5>2, <2>10 DEF Overtaking
        <5>4. Overtaking(o)' = Overtaking(o) \cup {p}
          <6>1. now > Deadline(o)
            BY <4>3, <2>10, <1>3
          <6>2. \A q \in Offsets : (q # o /\ entries'[q].sent_at > Deadline(o))
                                     <=> (q \in Overtaking(o) \/ q = p)
            BY <6>1, <4>1, <3>2, <1>5 DEF Overtaking
          <6>3. Overtaking(o)' = {q \in Offsets : q # o /\ entries'[q].sent_at > Deadline(o)}
            BY <2>3 DEF Overtaking
          <6>4. Overtaking(o) \subseteq Offsets
            BY DEF Overtaking
          <6> QED BY <6>2, <6>3, <6>4
        <5>5. Overtaking(o) \in SUBSET Offsets
          BY DEF Overtaking
        <5>6. Cardinality(Overtaking(o)') = Cardinality(Overtaking(o)) + 1
          BY <5>3, <5>4, <5>5, FiniteParts, FS_AddElement
        <5>7. PICK t \in Nat : t = DearestTrigger
          BY Budget
        <5>8. t * (Cardinality(Overtaking(o)) + 1) = s + t
          BY <5>7, <2>6, <2>7, ProductNext
        <5>9. r <= tokens' + (s + t)
          <6>1. tokens' = Refilled.tokens - cost \/ tokens' = Refilled.tokens
            BY <1>1
          <6>2. cost <= t
            BY <5>7, <1>1
          <6> QED BY <6>1, <6>2, <2>7, <1>3, Constants
        <5> QED BY <5>6, <5>7, <5>8, <5>9
      <4> QED BY <4>2, <4>3
    <3> QED BY <3>1, <3>2
  <2>12. (Rate * (refill_at - Deadline(o))
            <= tokens + DearestTrigger * Cardinality(Overtaking(o)))'
    BY <2>3, <2>7, <2>11, <1>2
  <2> QED BY <2>3, <2>5, <2>9, <2>12, <1>2
<1> QED BY <1>8, <1>10, <1>11, <1>12, <1>13, <1>14, <1>15 DEF PacingInv

-----------------------------------------------------------------------------
(* The other steps and the theorems.                                       *)

LEMMA TickStep ==
  ASSUME PacingInv, Tick
  PROVE  PacingInv'
<1>1. /\ phase = "rx" /\ now < MaxTime /\ now' = now + 1 /\ scan' = Due(entries, now + 1)
      /\ phase' = "scan"
      /\ UNCHANGED <<pull, ready, entries, outstanding, rate, credits, budget>>
  BY DEF Tick
<1>2. /\ entries \in [Offsets -> Entry] /\ now \in Nat /\ now > 0 /\ refill_at \in 1 .. now
      /\ tokens \in 0 .. Burst /\ next_credit_offset \in Nat /\ Offsets \subseteq Nat
  BY DEF PacingInv, PacingTypes, PacingTypeOK, Offsets
<1>3. \A o \in Offsets : entries[o].sent_at \in Nat
  BY <1>2 DEF Entry
<1>4. scan' = {o \in Offsets : /\ o < next_credit_offset /\ ~entries[o].done
                               /\ entries[o].sent_at + Rto <= now + 1}
  <2>1. \A o \in Offsets : o < next_credit_offset <=> entries[o].sent_at # Unset
    BY DEF PacingInv, CreditsInv
  <2>2. ASSUME NEW o \in Offsets
        PROVE  (now + 1) - entries[o].sent_at >= Rto <=> entries[o].sent_at + Rto <= now + 1
    <3>1. PICK t \in Nat : t = entries[o].sent_at
      BY <1>3
    <3>2. (now + 1) - t >= Rto <=> t + Rto <= now + 1
      BY <1>2, Constants
    <3> QED BY <3>1, <3>2
  <2> QED BY <1>1, <2>1, <2>2 DEF Due
<1>5. scan = {}
  BY <1>1 DEF PacingInv, CreditsInv
<1>6. CreditsInv'
  <2>1. \A o \in Offsets : entries[o].sent_at <= now'
    BY <1>1, <1>2, <1>3 DEF PacingInv, CreditsInv
  <2>2. \A o \in Offsets :
          (/\ o < next_credit_offset <=> issued_at[o] # Unset
           /\ o < next_credit_offset <=> entries[o].sent_at # Unset
           /\ o >= next_credit_offset => /\ ~entries[o].done /\ ~entries[o].inflight_accounted
                                         /\ entries[o].retry_count = 0
           /\ entries[o].done => entries[o].committed)'
    BY <1>1 DEF PacingInv, CreditsInv, credits
  <2>3. \A o \in scan' : (o < next_credit_offset /\ ~entries[o].done
                          /\ entries[o].sent_at + Rto <= now)'
    BY <1>1, <1>4 DEF credits
  <2> QED BY <1>1, <2>1, <2>2, <2>3 DEF CreditsInv
<1>7. OutstandingExact'
  <2>1. Credited' = Credited
    BY <1>1 DEF Credited, credits
  <2> QED BY <1>1, <2>1 DEF PacingInv, OutstandingExact
<1>8. PacingTypes'
  <2>1. now' \in 1 .. MaxTime /\ refill_at' \in 1 .. now'
    BY <1>1, <1>2, Constants DEF budget
  <2>2. scan' \subseteq Offsets
    BY <1>4
  <2> QED BY <1>1, <2>1, <2>2 DEF PacingInv, PacingTypes, PacingTypeOK, credits, budget
<1>9. WindowInv'
  <2>1. \A s \in Subs : Inflight(entries, s)' = Inflight(entries, s)
    BY <1>1 DEF Inflight
  <2> QED BY <1>1, <2>1 DEF PacingInv, WindowInv, credits
<1>10. SpacingInv'
  <2>1. CreditsSpaced'
    BY <1>1 DEF PacingInv, SpacingInv, CreditsSpaced, Credited, credits
  <2> QED BY <1>1, <2>1 DEF PacingInv, SpacingInv, credits
<1>11. RepairWithinBudget'
  BY <1>1 DEF PacingInv, RepairWithinBudget, budget
<1>12. ServedInv'
  <2> SUFFICES ASSUME NEW o \in Offsets, Overdue(o)'
      PROVE  (/\ now <= Deadline(o) + Rto
              /\ \/ Deadline(o) = now
                 \/ refill_at = now
                 \/ refill_at = now - 1 /\ tokens < DearestTrigger
              /\ o \notin scan => refill_at = now /\ tokens < DearestTrigger
              /\ Deadline(o) <= refill_at =>
                   Rate * (refill_at - Deadline(o))
                     <= tokens + DearestTrigger * Cardinality(Overtaking(o)))'
    BY DEF ServedInv
  <2>1. Deadline(o)' = Deadline(o) /\ Overtaking(o)' = Overtaking(o) /\ Deadline(o) \in Nat
    BY <1>1, <1>3, Constants DEF Deadline, Overtaking
  <2>2. o < next_credit_offset /\ ~entries[o].done /\ Deadline(o) <= now + 1
    BY <1>1, <2>1 DEF Overdue, credits
  <2>3. o \in scan'
    BY <1>4, <2>2 DEF Deadline
  <2>4. CASE Deadline(o) = now + 1
    <3>1. ~(Deadline(o) <= refill_at)
      BY <2>4, <1>2
    <3>2. now' <= Deadline(o) + Rto
      BY <2>4, <1>1, <1>2, Constants
    <3> QED BY <2>1, <2>3, <2>4, <3>1, <3>2, <1>1 DEF budget
  <2>5. CASE Deadline(o) # now + 1
    <3>1. Overdue(o)
      BY <2>1, <2>2, <2>5, <1>2 DEF Overdue
    <3>2. refill_at = now /\ tokens < DearestTrigger
      BY <3>1, <1>1, <1>5 DEF PacingInv, ServedInv
    <3>3. Rate * (now - Deadline(o)) < P * DearestTrigger
      BY <3>1, <3>2, <1>1, WaitBounded
    <3>4. now - Deadline(o) \in Nat
      BY <2>1, <3>1, <1>2 DEF Overdue
    <3>5. now - Deadline(o) < Rto
      <4>1. PICK r \in Nat : r = Rate * (now - Deadline(o))
        BY <3>4, Constants, ProductType
      <4>2. PICK m \in Nat : m = Rate * Rto
        BY Constants, ProductType
      <4>3. PICK b \in Nat : b = P * DearestTrigger
        BY Budget, Constants, ProductType
      <4>4. b <= m
        BY <4>2, <4>3, BudgetAssumption
      <4>5. Rto <= now - Deadline(o) => m <= r
        BY <3>4, <4>1, <4>2, Constants, ProductMonotone
      <4> QED BY <3>3, <3>4, <4>1, <4>3, <4>4, <4>5, Constants
    <3>6. now' <= Deadline(o) + Rto
      BY <3>5, <2>1, <1>1, <1>2, Constants
    <3>7. refill_at' = now' - 1 /\ tokens' < DearestTrigger
      BY <3>2, <1>1, <1>2 DEF budget
    <3>8. Deadline(o) <= refill_at =>
             Rate * (refill_at - Deadline(o))
               <= tokens + DearestTrigger * Cardinality(Overtaking(o))
      BY <3>1, <1>1 DEF PacingInv, ServedInv
    <3> QED BY <2>1, <2>3, <3>6, <3>7, <3>8, <1>1 DEF budget
  <2> QED BY <2>4, <2>5
<1> QED BY <1>6, <1>7, <1>8, <1>9, <1>10, <1>11, <1>12 DEF PacingInv

LEMMA InitStep ==
  ASSUME Init
  PROVE  PacingInv
<1>1. /\ now = 1 /\ phase = "issue" /\ scan = {} /\ pull \in BOOLEAN /\ ready = {}
      /\ entries = [o \in Offsets |-> FreshEntry]
      /\ next_credit_offset = 0 /\ outstanding = 0 /\ sub_rr = 0
      /\ next_credit_at = [s \in Subs |-> Unset] /\ next_channel_credit_at = Unset
      /\ rate = [s \in Subs |-> [gap |-> Gap, window |-> StartWindow]]
      /\ tokens = Burst /\ refill_at = now
      /\ issued_at = [o \in Offsets |-> Unset]
      /\ spent = 0
  BY DEF Init
<1>2. /\ FreshEntry \in Entry /\ FreshEntry.sent_at = 0 /\ ~FreshEntry.done
      /\ ~FreshEntry.inflight_accounted /\ FreshEntry.retry_count = 0
  <2>1. 0 \in Subs /\ 0 \in 0 .. MaxRetries
    BY Constants DEF Subs
  <2> QED BY <2>1 DEF FreshEntry, Entry, Unset
<1>3. \A o \in Offsets : o \in Nat /\ entries[o] = FreshEntry /\ issued_at[o] = 0
  BY <1>1 DEF Offsets, Unset
<1>4. \A o \in Offsets : ~(o < next_credit_offset)
  BY <1>1, <1>3
<1>5. Credited = {}
  BY <1>3 DEF Credited, Unset
<1>6. PacingTypes
  <2>1. 0 \in Subs /\ 0 \in 0 .. P
    BY Constants DEF Subs
  <2>2. \A s \in Subs : rate[s].gap = Gap /\ rate[s].window = StartWindow
    BY <1>1
  <2>3. Gap \in Gap .. MaxGap /\ StartWindow \in 1 .. MaxWindow
    BY Constants
  <2>4. now \in 1 .. MaxTime /\ tokens \in 0 .. Burst /\ refill_at \in 1 .. now
    BY <1>1, Constants
  <2>5. \A o \in Offsets : entries[o].retry_count \in 0 .. MaxRetries
    BY <1>2, <1>3, Constants
  <2>6. PacingTypeOK
    BY <1>1, <2>1, <2>2, <2>3, <2>4, <2>5 DEF PacingTypeOK
  <2>7. rate \in [Subs -> [gap : Nat, window : Nat]]
    BY <1>1, Constants
  <2> QED BY <1>1, <1>2, <2>6, <2>7 DEF PacingTypes, Unset
<1>7. CreditsInv
  BY <1>1, <1>2, <1>3, <1>4 DEF CreditsInv, Unset
<1>8. OutstandingExact
  <2>1. {o \in Credited : ~entries[o].done} = {}
    BY <1>5
  <2> QED BY <2>1, <1>1, FS_EmptySet DEF OutstandingExact
<1>9. WindowInv
  <2>1. \A s \in Subs : Inflight(entries, s) = {}
    BY <1>2, <1>3 DEF Inflight
  <2>2. \A s \in Subs : Cardinality(Inflight(entries, s)) <= StartWindow
    BY <2>1, FS_EmptySet, Constants
  <2> QED BY <1>1, <1>4, <2>2 DEF WindowInv
<1>10. SpacingInv
  BY <1>4, <1>5 DEF SpacingInv, CreditsSpaced
<1>11. RepairWithinBudget
  <2>1. \A y \in Int : y = 0 => Rate * y = 0
    BY Constants
  <2>2. Rate * (refill_at - 1) = 0
    BY <2>1, <1>1
  <2> QED BY <2>2, <1>1, Constants DEF RepairWithinBudget
<1>12. ServedInv
  BY <1>4 DEF ServedInv, Overdue
<1> QED BY <1>6, <1>7, <1>8, <1>9, <1>10, <1>11, <1>12 DEF PacingInv

\* Between the loop's phases nothing but the phase changes; a scan that has
\* failed is the last step.
LEMMA PhaseStep ==
  ASSUME PacingInv, phase' \in {"issue", "failed"}, phase' = "issue" => scan = {},
         phase = "scan",
         UNCHANGED <<now, scan, pull, ready, entries, outstanding, rate, credits, budget>>
  PROVE  PacingInv'
<1>1. PacingTypes'
  BY DEF PacingInv, PacingTypes, PacingTypeOK, credits, budget
<1>2. CreditsInv'
  BY DEF PacingInv, CreditsInv, credits
<1>3. OutstandingExact' /\ RepairWithinBudget' /\ WindowInv' /\ SpacingInv'
  BY DEF PacingInv, OutstandingExact, RepairWithinBudget, WindowInv, SpacingInv, CreditsSpaced,
         Credited, Inflight, credits, budget
<1>4. ServedInv'
  <2>1. \A o \in Offsets : /\ Deadline(o)' = Deadline(o) /\ Overtaking(o)' = Overtaking(o)
                           /\ Overdue(o)' <=> Overdue(o)
    BY DEF Deadline, Overtaking, Overdue, credits
  <2> QED BY <2>1 DEF PacingInv, ServedInv, budget
<1> QED BY <1>1, <1>2, <1>3, <1>4 DEF PacingInv

LEMMA StutterStep ==
  ASSUME PacingInv, UNCHANGED vars
  PROVE  PacingInv'
<1>1. /\ UNCHANGED <<now, scan, phase, pull, ready, entries, outstanding, rate>>
      /\ UNCHANGED <<next_credit_offset, next_credit_at, next_channel_credit_at, sub_rr, issued_at>>
      /\ UNCHANGED <<tokens, refill_at, spent>>
  BY DEF vars, credits, budget
<1>2. PacingTypes' /\ CreditsInv'
  BY <1>1 DEF PacingInv, PacingTypes, PacingTypeOK, CreditsInv
<1>3. OutstandingExact' /\ RepairWithinBudget' /\ WindowInv' /\ SpacingInv'
  BY <1>1 DEF PacingInv, OutstandingExact, RepairWithinBudget, WindowInv, SpacingInv,
              CreditsSpaced, Credited, Inflight
<1>4. ServedInv'
  <2>1. \A o \in Offsets : /\ Deadline(o)' = Deadline(o) /\ Overtaking(o)' = Overtaking(o)
                           /\ Overdue(o)' <=> Overdue(o)
    BY <1>1 DEF Deadline, Overtaking, Overdue
  <2> QED BY <1>1, <2>1 DEF PacingInv, ServedInv
<1> QED BY <1>2, <1>3, <1>4 DEF PacingInv

LEMMA Inductive == PacingInv /\ [Next]_vars => PacingInv'
<1> SUFFICES ASSUME PacingInv, [Next]_vars PROVE PacingInv'
  OBVIOUS
<1> HIDE DEF IssueRound
<1>1. CASE Issue
  BY <1>1, PlainRoundStep DEF Issue, PacingInv, PacingTypes, PacingTypeOK
<1>2. CASE ScanDone
  BY <1>2, PhaseStep DEF ScanDone
<1>3. CASE Tick
  BY <1>3, TickStep
<1>4. ASSUME NEW o \in Offsets, NEW replay \in BOOLEAN, TryEnterRepair(o, replay)
      PROVE  PacingInv'
  BY <1>4, AttemptStep
<1>5. ASSUME NEW o \in Offsets, Fail(o) PROVE PacingInv'
  BY <1>5, PhaseStep DEF Fail
<1>6. ASSUME NEW o \in Offsets, NEW ce \in BOOLEAN, RxAggregate(o, ce) \/ RxRepair(o, ce)
      PROVE  PacingInv'
  BY <1>6, AggregateStep, RepairStep
<1>7. ASSUME NEW s \in Subs, RxRegister(s) PROVE PacingInv'
  <2>1. ready' \subseteq Subs
    BY <1>7 DEF RxRegister, PacingInv, PacingTypes, PacingTypeOK
  <2> QED BY <1>7, <2>1, PlainRoundStep DEF RxRegister
<1>8. CASE UNCHANGED vars
  BY <1>8, StutterStep
<1> QED BY <1>1, <1>2, <1>3, <1>4, <1>5, <1>6, <1>7, <1>8 DEF Next

LEMMA Invariance == Spec => []PacingInv
<1>1. Init => PacingInv
  BY InitStep
<1> QED BY <1>1, Inductive, PTL DEF Spec

\* The counters, the budget and the rate stay in range (issue_ready_credits_round,
\* refill_repair_tokens, try_enter_repair).
THEOREM PacingTypeCorrect == Spec => []PacingTypeOK
<1>1. PacingInv => PacingTypeOK
  BY DEF PacingInv, PacingTypes
<1> QED BY <1>1, Invariance, PTL

\* The count of outstanding credits is exact, however often a packet is
\* answered and repaired (mark_entry_done).
THEOREM OutstandingIsExact == Spec => []OutstandingExact
<1>1. PacingInv => OutstandingExact
  BY DEF PacingInv
<1> QED BY <1>1, Invariance, PTL

\* No subchannel has more unanswered pull credits than its window
\* (subchannel_can_send).
THEOREM WindowIsRespected == Spec => []WindowRespected
<1>1. ASSUME PacingInv PROVE WindowRespected
  <2> SUFFICES ASSUME pull, NEW s \in Subs
               PROVE  Cardinality({o \in Credited : entries[o].sub = s /\ ~entries[o].committed})
                        <= rate[s].window
    BY DEF WindowRespected
  <2> DEFINE S == {o \in Credited : entries[o].sub = s /\ ~entries[o].committed}
  <2>1. Inflight(entries, s) \in SUBSET Offsets
    BY DEF Inflight
  <2>2. Credited = {o \in Offsets : o < next_credit_offset}
    BY <1>1, CreditedSet DEF PacingInv
  <2>3. S \subseteq Inflight(entries, s)
    BY <1>1, <2>2 DEF PacingInv, WindowInv, Inflight
  <2>4. rate[s].window = StartWindow /\ Cardinality(Inflight(entries, s)) <= StartWindow
    BY <1>1 DEF PacingInv, WindowInv
  <2>5. S \in SUBSET Offsets
    BY <2>1, <2>3
  <2> HIDE DEF S
  <2>6. /\ Cardinality(S) <= Cardinality(Inflight(entries, s))
        /\ Cardinality(S) \in Nat /\ Cardinality(Inflight(entries, s)) \in Nat
    BY <2>1, <2>3, <2>5, FiniteParts, CardinalityMonotone
  <2>7. Cardinality(S) <= rate[s].window
    BY <2>4, <2>6, Constants
  <2> QED BY <2>7 DEF S
<1> QED BY <1>1, Invariance, PTL

\* Credits of the channel are a gap apart, or of one round on different
\* subchannels (issue_ready_credits_round).
THEOREM CreditsAreSpaced == Spec => []CreditsSpaced
<1>1. PacingInv => CreditsSpaced
  BY DEF PacingInv, SpacingInv
<1> QED BY <1>1, Invariance, PTL

\* Repair traffic stays within a burst and a rate (refill_repair_tokens,
\* try_enter_repair).
THEOREM RepairIsBudgeted == Spec => []RepairWithinBudget
<1>1. PacingInv => RepairWithinBudget
  BY DEF PacingInv
<1> QED BY <1>1, Invariance, PTL

\* No packet is starved by the repairs of others: a bound on the time from its
\* timeout to its next trigger (try_enter_repair).
THEOREM RepairIsServed == Spec => []RepairServed
<1>1. ASSUME PacingInv PROVE RepairServed
  <2> SUFFICES ASSUME phase = "rx", NEW o \in Credited, ~entries[o].done
               PROVE  (now - entries[o].sent_at - Rto) * Rate < P * DearestTrigger
    BY DEF RepairServed
  <2>1. o \in Offsets /\ o < next_credit_offset
    BY <1>1, CreditedSet DEF PacingInv
  <2>2. /\ entries[o].sent_at \in Nat /\ now \in Nat
        /\ now - entries[o].sent_at - Rto \in Int
    BY <1>1, <2>1, Constants DEF PacingInv, PacingTypes, PacingTypeOK, Entry
  <2>3. PICK d \in Int : d = now - entries[o].sent_at - Rto
    BY <2>2
  <2>4. d = now - Deadline(o)
    BY <2>2, <2>3, Constants DEF Deadline
  <2>5. d * Rate = Rate * d
    BY <2>3, Constants
  <2>6. P * DearestTrigger > 0 /\ P * DearestTrigger \in Nat
    BY Budget, Constants, ProductType
  <2>7. CASE Overdue(o)
    <3>1. scan = {}
      BY <1>1 DEF PacingInv, CreditsInv
    <3>2. refill_at = now /\ tokens < DearestTrigger
      BY <1>1, <2>1, <2>7, <3>1 DEF PacingInv, ServedInv
    <3>3. Rate * (now - Deadline(o)) < P * DearestTrigger
      BY <1>1, <2>1, <2>7, <3>2, WaitBounded
    <3> QED BY <2>3, <2>4, <2>5, <3>3
  <2>8. CASE ~Overdue(o)
    <3>1. d < 0
      BY <2>1, <2>2, <2>3, <2>8, Constants DEF Overdue, Deadline
    <3>2. Rate * d < 0
      BY <3>1, <2>3, Constants, ProductNegative
    <3>3. \A x \in Int : \A y \in Nat : x < 0 /\ y > 0 => x < y
      OBVIOUS
    <3>4. Rate * d \in Int
      BY <2>3, Constants
    <3> QED BY <2>3, <2>5, <2>6, <3>2, <3>3, <3>4
  <2> QED BY <2>7, <2>8
<1> QED BY <1>1, Invariance, PTL
=============================================================================
