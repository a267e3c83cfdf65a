------------------------------- MODULE Pacing -------------------------------
(***************************************************************************)
(* When the responder sends: the clocks, windows and budgets of one call   *)
(* of respond_mode.  Arbor lets credits and repairs leave whenever the     *)
(* protocol allows; here time passes, a loop pass happens in every unit of *)
(* it, and frames arrive in between.  What a frame carries does not        *)
(* matter, only that it completes a packet.                                *)
(***************************************************************************)
EXTENDS Integers, FiniteSets

CONSTANTS
    SubCount,        \* SUBCHANNEL_COUNT
    P,               \* packets of the message
    Gap, MaxGap,     \* fixed_credit_gap_us, CC_MAX_GAP_US
    StartWindow,     \* FIXED_STARTUP_WINDOW
    MaxWindow,       \* CC_MAX_WINDOW
    Rto,             \* RTO_US
    MaxRetries,      \* REPAIR_MAX_RETRIES
    Burst, Rate,     \* REPAIR_BURST_BYTES, REPAIR_BUDGET_BPS per unit of time
    Packet,          \* bytes of a packet; a header is negligible
    RequesterCount,  \* expected_requester_count
    MaxTime          \* bound: the clock stops here

ASSUME PacingAssumption ==
    /\ {SubCount, P, Gap, StartWindow, MaxRetries, Rate, Packet, RequesterCount, MaxTime}
         \subseteq Nat \ {0}
    /\ {MaxGap, MaxWindow, Rto, Burst} \subseteq Nat
    /\ Gap <= MaxGap /\ StartWindow <= MaxWindow

\* A trigger asks for a packet of every requester and may repeat one.
TriggerBytes(replay) == RequesterCount * Packet + (IF replay THEN Packet ELSE 0)
DearestTrigger == TriggerBytes(TRUE)

\* The burst covers a trigger on top of a unit's refill, and one timeout's
\* worth of refill covers a trigger for every packet.
ASSUME BudgetAssumption ==
    /\ Rate + DearestTrigger <= Burst
    /\ P * DearestTrigger <= Rate * Rto

Subs == 0 .. SubCount - 1
Offsets == 0 .. P - 1
Unset == 0
Least(a, b) == IF a < b THEN a ELSE b

VARIABLES
    now,           \* now_us
    scan,          \* entries this pass has still to check for a timeout, or
    phase,         \* "scan", "issue", "rx": what the loop is doing
    pull,          \* the kind of the message
    ready,         \* registered_ready_mask
    entries,       \* credit_entry_t of each offset
    next_credit_offset, outstanding,
    next_credit_at, next_channel_credit_at, sub_rr,
    rate,          \* credit_gap_us and credit_window of each subchannel
    tokens, refill_at,
    issued_at,     \* history: when the credit of an offset left
    spent          \* history: bytes of repair traffic asked for

credits == <<next_credit_offset, next_credit_at, next_channel_credit_at, sub_rr, issued_at>>
budget == <<tokens, refill_at, spent>>
vars == <<now, scan, phase, pull, ready, entries, outstanding, rate, credits, budget>>

FreshEntry ==
    [sub |-> 0, sent_at |-> Unset, inflight_accounted |-> FALSE, sample_eligible |-> FALSE,
     sample_recorded |-> FALSE, completion_kind |-> "NONE", ce_seen |-> FALSE,
     repair_mode |-> FALSE, retry_count |-> 0, committed |-> FALSE, done |-> FALSE]

Init ==
    /\ now = 1 /\ phase = "issue" /\ scan = {}
    /\ pull \in BOOLEAN
    /\ ready = {}
    /\ entries = [o \in Offsets |-> FreshEntry]
    /\ next_credit_offset = 0 /\ outstanding = 0 /\ sub_rr = 0
    /\ next_credit_at = [s \in Subs |-> Unset] /\ next_channel_credit_at = Unset
    /\ rate = [s \in Subs |-> [gap |-> Gap, window |-> StartWindow]]
    /\ tokens = Burst /\ refill_at = now
    /\ issued_at = [o \in Offsets |-> Unset]
    /\ spent = 0

-----------------------------------------------------------------------------
(* The rate controller.                                                    *)

Clamp(x, low, high) == IF x < low THEN low ELSE IF x > high THEN high ELSE x

\* apply_rate_sample: a mark halves the window and doubles the gap, a clean
\* sample opens the window by one and halves the gap's excess.
ApplyRateSample(r, ce) ==
    IF ce
    THEN [window |-> Clamp((r.window + 1) \div 2, 1, MaxWindow),
          gap    |-> Clamp(2 * r.gap, Gap, MaxGap)]
    ELSE LET dec == IF (r.gap - Gap) \div 2 = 0 THEN 1 ELSE (r.gap - Gap) \div 2
         IN [window |-> IF r.window < MaxWindow THEN r.window + 1 ELSE r.window,
             gap    |-> IF r.gap > Gap THEN Clamp(r.gap - dec, Gap, MaxGap) ELSE Gap]

-----------------------------------------------------------------------------
(* Credits.                                                                *)

Inflight(es, s) == {o \in Offsets : es[o].inflight_accounted /\ es[o].sub = s}

\* note_non_sample_completion.
NotSampled(e, kind) ==
    [e EXCEPT !.completion_kind = IF @ = "NONE" THEN kind ELSE @,
              !.sample_eligible = FALSE, !.inflight_accounted = FALSE]

\* reserve_credit and note_credit_sent; a push credit commits at once and is
\* not counted against the window.
Reserved(e, s) ==
    LET r == [e EXCEPT !.sub = s, !.sent_at = now, !.ce_seen = FALSE, !.retry_count = 0,
                       !.inflight_accounted = TRUE, !.sample_eligible = TRUE,
                       !.sample_recorded = FALSE, !.completion_kind = "NONE"]
    IN IF pull THEN r ELSE NotSampled([r EXCEPT !.committed = TRUE], "DIRECT")

\* Mutant: the window is not looked at.
MayIssueUnbounded(es, s) ==
    /\ s \in ready
    /\ next_credit_at[s] = Unset \/ now >= next_credit_at[s]

\* Subchannel s may have a credit now.
MayIssue(es, s) ==
    /\ s \in ready
    /\ Cardinality(Inflight(es, s)) < rate[s].window
    /\ next_credit_at[s] = Unset \/ now >= next_credit_at[s]

\* Mutant: only the deadlines of the subchannels count.
ChannelOpenAlways == TRUE

\* The channel's own deadline, looked at once a round.
ChannelOpen == next_channel_credit_at = Unset \/ now >= next_channel_credit_at

\* The subchannels a round can serve: each at most once, as its deadline then
\* lies ahead.
Open(es) == {s \in Subs : ChannelOpen /\ MayIssue(es, s)}

\* Those before s in round-robin order.
Before(es, s) == {q \in Open(es) : (q - sub_rr) % SubCount < (s - sub_rr) % SubCount}

\* Credits of a round: while packets last.
Given(es) == Least(Cardinality(Open(es)), P - next_credit_offset)

\* issue_ready_credits_round, after the entries have become es and n credits
\* are outstanding: the i-th credit goes to turn[i].
IssueRound(es, n) ==
    \E turn \in [1 .. Given(es) -> Open(es)] :
      LET count == Given(es)
          sub(o) == turn[o - next_credit_offset + 1]
          given  == next_credit_offset .. next_credit_offset + count - 1
      IN /\ \A i \in 1 .. count : Cardinality(Before(es, turn[i])) = i - 1
         /\ entries' = [o \in Offsets |->
              IF o \in given THEN Reserved(es[o], sub(o)) ELSE es[o]]
         /\ outstanding' = n + count
         /\ next_credit_offset' = next_credit_offset + count
         /\ issued_at' = [o \in Offsets |-> IF o \in given THEN now ELSE issued_at[o]]
         /\ next_credit_at' = [s \in Subs |->
              IF \E i \in 1 .. count : turn[i] = s
              THEN now + Clamp(rate[s].gap, Gap, MaxGap) ELSE next_credit_at[s]]
         /\ IF count > 0
            THEN /\ next_channel_credit_at' = now + Gap
                 /\ sub_rr' = (turn[count] + 1) % SubCount
            ELSE UNCHANGED <<next_channel_credit_at, sub_rr>>

\* The call has a message from the first registration on.
Issue ==
    /\ phase = "issue"
    /\ phase' = "rx"
    /\ IssueRound(entries, outstanding)
    /\ UNCHANGED <<now, scan, pull, ready, rate, budget>>

-----------------------------------------------------------------------------
(* Timeouts and the repair budget.                                         *)

\* Mutants: the refill time is not moved; the burst does not cap the refill;
\* the refill is lost.
RefilledForever == [tokens |-> Least(Burst, tokens + Rate * (now - refill_at)), at |-> refill_at]
RefilledUncapped == [tokens |-> tokens + Rate * (now - refill_at), at |-> now]
RefilledNever == [tokens |-> tokens, at |-> now]

\* refill_repair_tokens.
Refilled == [tokens |-> Least(Burst, tokens + Rate * (now - refill_at)), at |-> now]

Due(es, t) ==
    {o \in Offsets : es[o].sent_at # Unset /\ t - es[o].sent_at >= Rto /\ ~es[o].done}

\* try_enter_repair: the entry switches to repair whether or not the budget
\* covers the trigger; without it, the next pass tries again.
TryEnterRepair(o, replay) ==
    LET cost == TriggerBytes(replay)
        paid == Refilled.tokens >= cost
    IN /\ phase = "scan" /\ o \in scan
       /\ entries[o].retry_count < MaxRetries
       /\ scan' = scan \ {o}
       /\ refill_at' = Refilled.at
       /\ tokens' = Refilled.tokens - (IF paid THEN cost ELSE 0)
       /\ spent' = spent + (IF paid THEN cost ELSE 0)
       /\ entries' = [entries EXCEPT
            ![o].repair_mode = TRUE,
            ![o].retry_count = IF paid THEN @ + 1 ELSE @,
            ![o].sent_at = IF paid THEN now ELSE @]
       /\ UNCHANGED <<now, phase, pull, ready, outstanding, rate, credits>>

ScanDone ==
    /\ phase = "scan" /\ scan = {}
    /\ phase' = "issue"
    /\ UNCHANGED <<now, scan, pull, ready, entries, outstanding, rate, credits, budget>>

\* Out of retries the call fails.
Fail(o) ==
    /\ phase = "scan" /\ o \in scan
    /\ entries[o].retry_count >= MaxRetries
    /\ phase' = "failed"
    /\ UNCHANGED <<now, scan, pull, ready, entries, outstanding, rate, credits, budget>>

-----------------------------------------------------------------------------
(* Arriving frames.                                                        *)

\* Mutant: a packet that is done is counted off again.
MarkDoneAgain(e) == e.committed

\* mark_entry_done takes effect.
MarkDone(e) == e.committed /\ ~e.done

\* The counter stops at zero.
LessOne(n) == IF n > 0 THEN n - 1 ELSE n

Marked(e, ce) == [e EXCEPT !.ce_seen = @ \/ ce]

\* The last argument of commit_entry_response: both of its callers pass 0,
\* so the rate controller never has a sample.
AllowSample == FALSE

\* commit_entry_response, mark_entry_done and the round that follows.
Commit(o, e, kind) ==
    LET sample == AllowSample /\ e.sample_eligible /\ ~e.sample_recorded
        c == IF ~AllowSample THEN NotSampled(e, kind)
             ELSE IF sample
             THEN [e EXCEPT !.sample_recorded = TRUE, !.sample_eligible = FALSE,
                            !.completion_kind = "NORMAL", !.inflight_accounted = FALSE]
             ELSE e
    IN /\ rate' = IF sample THEN [rate EXCEPT ![e.sub] = ApplyRateSample(@, e.ce_seen)] ELSE rate
       /\ IssueRound([entries EXCEPT ![o] = [c EXCEPT !.committed = TRUE, !.done = TRUE]],
                     LessOne(outstanding))

\* A frame finishes the packet of a committed entry (push), or repeats what
\* was finished before.
Done(o, e) ==
    /\ entries' = [entries EXCEPT ![o] = [e EXCEPT !.done = TRUE]]
    /\ outstanding' = IF MarkDone(e) THEN LessOne(outstanding) ELSE outstanding
    /\ UNCHANGED <<rate, credits>>

\* The aggregate of all requesters.  In repair it is too late.
RxAggregate(o, ce) ==
    LET e == Marked(entries[o], ce)
    IN /\ phase = "rx" /\ entries[o].sent_at # Unset
       /\ IF e.repair_mode \/ (pull /\ e.committed)
          THEN /\ entries' = [entries EXCEPT ![o] = e]
               /\ UNCHANGED <<outstanding, rate, credits>>
          ELSE IF e.committed THEN Done(o, e) ELSE Commit(o, e, "DIRECT")
       /\ UNCHANGED <<now, scan, phase, pull, ready, budget>>

\* The repair request that completes the bitmap; somebody was asked for it.
RxRepair(o, ce) ==
    LET e == Marked(entries[o], ce)
    IN /\ phase = "rx" /\ entries[o].retry_count > 0
       /\ IF e.committed THEN Done(o, e) ELSE Commit(o, e, "REPAIR")
       /\ UNCHANGED <<now, scan, phase, pull, ready, budget>>

\* The last REGISTER of a subchannel opens its gate.
RxRegister(s) ==
    /\ phase = "rx" /\ s \notin ready
    /\ ready' = ready \cup {s}
    /\ IssueRound(entries, outstanding)
    /\ UNCHANGED <<now, scan, phase, pull, rate, budget>>

\* The next unit of time and the next pass of the loop.
Tick ==
    /\ phase = "rx" /\ now < MaxTime
    /\ now' = now + 1
    /\ scan' = Due(entries, now + 1)
    /\ phase' = "scan"
    /\ UNCHANGED <<pull, ready, entries, outstanding, rate, credits, budget>>

Next ==
    \/ Issue \/ ScanDone \/ Tick
    \/ \E o \in Offsets, replay \in BOOLEAN : TryEnterRepair(o, replay)
    \/ \E o \in Offsets : Fail(o)
    \/ \E o \in Offsets, ce \in BOOLEAN : RxAggregate(o, ce) \/ RxRepair(o, ce)
    \/ \E s \in Subs : RxRegister(s)

Spec == Init /\ [][Next]_vars

-----------------------------------------------------------------------------
\* Type correctness; the counters, the budget and the rate stay in range.
PacingTypeOK ==
    /\ now \in 1 .. MaxTime /\ scan \subseteq Offsets
    /\ phase \in {"scan", "issue", "rx", "failed"}
    /\ ready \subseteq Subs /\ sub_rr \in Subs
    /\ next_credit_offset \in 0 .. P /\ outstanding \in 0 .. P
    /\ \A o \in Offsets : entries[o].retry_count \in 0 .. MaxRetries
    /\ \A s \in Subs : rate[s].gap \in Gap .. MaxGap /\ rate[s].window \in 1 .. MaxWindow
    /\ tokens \in 0 .. Burst /\ refill_at \in 1 .. now

Credited == {o \in Offsets : issued_at[o] # Unset}

\* The counter of outstanding credits, which ref_inflight samples, is the
\* number of packets that have a credit and are not done, although
\* acknowledgements and repairs of one packet may come repeatedly.
OutstandingExact ==
    outstanding = Cardinality({o \in Credited : ~entries[o].done})

\* A subchannel never has more unanswered pull credits than its window, in
\* repair or not; push credits are bounded by pacing alone.
WindowRespected ==
    pull => \A s \in Subs :
              Cardinality({o \in Credited : entries[o].sub = s /\ ~entries[o].committed})
                <= rate[s].window

\* Two credits of the channel are a gap apart, or of one round and then on
\* different subchannels, whenever the gates open and whatever triggers the
\* round.
CreditsSpaced ==
    \A o, q \in Credited :
      o < q => \/ issued_at[q] >= issued_at[o] + Gap
               \/ issued_at[q] = issued_at[o] /\ entries[o].sub # entries[q].sub

\* README.md, 5.4: repair has a budget of its own, a burst and a rate.
RepairWithinBudget == spent + tokens <= Burst + Rate * (refill_at - 1)

\* A packet that timed out is not starved by the repairs of others: its next
\* trigger leaves within the time in which the budget pays for one of each.
RepairServed ==
    phase = "rx" =>
      \A o \in Credited :
        \/ entries[o].done
        \/ (now - entries[o].sent_at - Rto) * Rate < P * DearestTrigger
=============================================================================
