---------------------------- MODULE Notifications ----------------------------
(***************************************************************************)
(* Autonomous notifications: ProactiveLoop.process_event                   *)
(* (autonomy/proactive_loop.py) in several processes, the tables           *)
(* notification_decisions, notifications, outbox_messages and              *)
(* autonomy_acks, OutboxDispatcher with LocalInboxDeliveryAdapter          *)
(* (autonomy/dispatcher.py, delivery.py), and the user at the Inbox page   *)
(* of the Console.                                                         *)
(*                                                                         *)
(* SQLite lets one connection write at a time and rolls back what is not   *)
(* committed: txn is the open write transaction.  Each action ends at a    *)
(* statement of that transaction, at a commit, or at a call that leaves    *)
(* the process.  A delivered message is a notification row of its own, so  *)
(* the gate's quotas see it a second time.                                 *)
(***************************************************************************)
EXTENDS Naturals, Sequences, FiniteSets

(***************************************************************************)
(* NotificationGate.evaluate (autonomy/gate.py) as functions of what the   *)
(* gate reads: the event, the number of notifications sent in the hour, in *)
(* the day and in the last 24 hours, and what the model and the policy     *)
(* answer.  Costs are doubled so that they are integers.                   *)
(*                                                                         *)
(* Nothing under src/ writes notifications.feedback, which the gate reads  *)
(* (the feedback of users goes to feedback_entries), so the feedback term  *)
(* of the cost is zero.                                                    *)
(***************************************************************************)

CONSTANTS
    DailyMax,       \* max_daily_notifications of the workspace
    HourlyMax,      \* hourly_quota
    JudgeDailyMax   \* judge_daily_max

ASSUME QuotaAssumption ==
    DailyMax \in Nat /\ HourlyMax \in Nat /\ JudgeDailyMax \in Nat \ {0}

Priorities == {"low", "normal", "high", "urgent"}
Actions == {"push", "skip", "defer", "require_approval"}

PriorityCost == [low |-> 6, normal |-> 4, high |-> 1, urgent |-> 0]
QuotaCost == 6
CostLimit == 10

\* urgent_bypass_quota holds unless the caller configures otherwise.
QuotaHit(priority, inHour, inDay) ==
    /\ priority # "urgent"
    /\ inDay >= DailyMax \/ inHour >= HourlyMax

Verdict(action, reason) == [action |-> action, reason |-> reason]

OverQuota(priority) ==
    IF PriorityCost[priority] + QuotaCost < CostLimit
    THEN Verdict("defer", "quota_deferred")
    ELSE Verdict("push", "quota_exceeded_high_priority")

\* What is settled before the policy is asked; "ask" when nothing is.
Eligibility(priority, expired, quiet, duplicate, quota) ==
    CASE expired -> Verdict("skip", "expired")
      [] ~expired /\ quiet /\ priority # "urgent" -> Verdict("skip", "quiet_hours")
      [] ~expired /\ ~(quiet /\ priority # "urgent") /\ duplicate ->
            Verdict("skip", "dedup")
      [] ~expired /\ ~(quiet /\ priority # "urgent") /\ ~duplicate /\ quota ->
            OverQuota(priority)
      [] OTHER -> Verdict("ask", "")

\* balance = 1 - sent / JudgeDailyMax is below 0.1.
BalanceVeto(sent) == 10 * sent > 9 * JudgeDailyMax

\* worth: the score of the model's three answers reaches the threshold; a
\* fresh event that no model rates reaches it whenever it is not vetoed.
Judged(policy, sent, worth) ==
    CASE policy = "require_approval" ->
            Verdict("require_approval", "requires_approval")
      [] policy = "deny" -> Verdict("skip", "governance_denied")
      [] policy = "allow" /\ BalanceVeto(sent) -> Verdict("skip", "balance_veto")
      [] policy = "allow" /\ ~BalanceVeto(sent) /\ ~worth ->
            Verdict("skip", "below_threshold")
      [] policy = "allow" /\ ~BalanceVeto(sent) /\ worth -> Verdict("push", "allowed")

--------------------------------------------------------------------------------
CONSTANTS
    Procs,          \* processes that emit events
    None,           \* no process, no message
    Events,         \* events; one with a token is delivered again until acked
    Topic,          \* Topic[e]: build_dedup_key()
    Priority,       \* Priority[e]
    Tokened,        \* events with an ack_token
    HoursPerDay,    \* bound on the day (24)
    DedupHours,     \* dedup_window_minutes, in hours
    MaxRetries,     \* MAX_RETRIES
    MaxHour,        \* bound: the clock stops here
    EmitBound,      \* bound: deliveries of one event by its source
    CrashBound,     \* bound: crashes of processes and of the dispatcher
    DispatchBound,  \* bound: messages that are delivered or clicked on
    UserBound       \* bound: clicks on retry and dismiss

Topics == {Topic[e] : e \in Events}
Hours == 0..MaxHour

ASSUME EventAssumption ==
    /\ Priority \in [Events -> Priorities]
    /\ Tokened \subseteq Events
    /\ None \notin Procs \cup Topics
    /\ IsFiniteSet(Procs)

ASSUME DeliveryAssumption ==
    /\ DedupHours \in Nat \ {0} /\ MaxRetries \in Nat \ {0}
    /\ MaxHour \in Nat /\ HoursPerDay \in Nat \ {0}

VARIABLES
    hour,       \* the clock
    decisions,  \* notification_decisions: decisions[e][a], rows for e with action a
    notes,      \* notifications: a sequence of rows, the hour it was sent in and the topic
    outbox,     \* outbox_messages: a sequence of rows
    acks,       \* autonomy_acks: acks[e]
    txn,        \* the open write transaction: its owner and its rows
    pc,         \* pc[p]: where process p is in process_event
    work,       \* work[p]: its event and the decision so far
    emits,      \* emits[e]: how often e was handed to process_event
    told,       \* told[e]: what the source of e was told
    taken,      \* the messages the dispatcher selected, with their attempts
    flight,     \* the message it is delivering, the attempt and the result
    calls,      \* history: adapter calls for each message
    arrived,    \* history: successful ones
    retried,    \* history: clicks on retry for each message
    clicks,     \* history: the user's clicks so far
    crashes     \* history: crashes so far

procVars == <<pc, work, emits, told>>
tables == <<decisions, notes, outbox, acks>>
history == <<calls, arrived, retried, clicks, crashes>>
vars == <<hour, tables, txn, procVars, taken, flight, history>>

NoTopic == None     \* LocalInboxDeliveryAdapter passes no dedup_key
Idle == [event |-> None, action |-> "", reason |-> ""]
NoTxn == [owner |-> None, decs |-> {}, notes |-> <<>>]
NoFlight == [msg |-> 0, attempt |-> 0, result |-> ""]
Messages == DOMAIN outbox
Dispatched == {m \in Messages : m <= DispatchBound}

Init ==
    /\ hour = 0
    /\ decisions = [e \in Events |-> [x \in Actions |-> 0]]
    /\ notes = <<>>
    /\ outbox = <<>>
    /\ acks = [e \in Events |-> "none"]
    /\ txn = NoTxn
    /\ pc = [p \in Procs |-> "idle"]
    /\ work = [p \in Procs |-> Idle]
    /\ emits = [e \in Events |-> 0]
    /\ told = [e \in Events |-> "none"]
    /\ taken = {}
    /\ flight = NoFlight
    /\ calls = <<>>
    /\ arrived = <<>>
    /\ retried = <<>>
    /\ clicks = 0
    /\ crashes = 0

-----------------------------------------------------------------------------
(* What the gate counts.                                                   *)

AllTopics == Topics \cup {NoTopic}
NotesOf(hours, topics) ==
    {i \in DOMAIN notes : notes[i].hour \in hours /\ notes[i].topic \in topics}
Rows(hours, topics) == Cardinality(NotesOf(hours, topics))
InHour == Rows({hour}, AllTopics)
InDay == Rows({h \in 0..hour : h \div HoursPerDay = hour \div HoursPerDay}, AllTopics)
InLast24 == Rows({h \in 0..hour : hour - h < HoursPerDay}, AllTopics)
Duplicate(e) == Rows({h \in 0..hour : hour - h < DedupHours}, {Topic[e]}) > 0

-----------------------------------------------------------------------------
(* process_event.                                                          *)

Goto(p, label) == pc' = [pc EXCEPT ![p] = label]
Decided(e, v) == [event |-> e, action |-> v.action, reason |-> v.reason]

\* A row keeps the time it was written at, which is not the time of its commit.
Note(topic) == [hour |-> hour, topic |-> topic]

\* The commits of the envelope: its rows appear in the tables at once.
Recorded(ds) == [e \in Events |-> [x \in Actions |->
    decisions[e][x] + (IF [event |-> e, action |-> x] \in ds THEN 1 ELSE 0)]]
CommitRows ==
    /\ decisions' = Recorded(txn.decs)
    /\ notes' = notes \o txn.notes

\* An event without a token comes once; one with a token comes again as long
\* as its source has not been told.
Offered(e) ==
    /\ emits[e] < (IF e \in Tokened THEN EmitBound ELSE 1)
    /\ told[e] = "none"
    /\ \A p \in Procs : work[p].event # e

\* gate.evaluate up to the call of the policy.
Evaluate(p, e) ==
    /\ pc[p] = "idle"
    /\ Offered(e)
    /\ emits' = [emits EXCEPT ![e] = @ + 1]
    /\ \E expired \in (IF e \in Tokened THEN BOOLEAN ELSE {FALSE}), quiet \in BOOLEAN :
        LET v == Eligibility(Priority[e], expired, quiet, Duplicate(e),
                             QuotaHit(Priority[e], InHour, InDay))
        IN  /\ work' = [work EXCEPT ![p] = Decided(e, v)]
            /\ Goto(p, IF v.action = "ask" THEN "weigh" ELSE "save")
    /\ UNCHANGED <<hour, tables, txn, told, taken, flight, history>>

\* The policy and the judge; both may call a model, and the notifications of
\* the last 24 hours are counted after that.  No built-in rule matches the
\* operation "send", so the policy's answer is the model's, or a denial.
Weigh(p) ==
    /\ pc[p] = "weigh"
    /\ \E policy \in {"allow", "deny", "require_approval"}, worth \in BOOLEAN :
        LET v == Judged(policy, InLast24, worth) IN
        work' = [work EXCEPT ![p] = Decided(work[p].event, v)]
    /\ Goto(p, "save")
    /\ UNCHANGED <<hour, tables, txn, emits, told, taken, flight, history>>

DecisionOf(p) == [event |-> work[p].event, action |-> work[p].action]

\* Mutant of SaveDecision: save_decision commits for itself.
SaveDecisionCommits(p) ==
    /\ pc[p] = "save"
    /\ txn = NoTxn
    /\ decisions' = Recorded({DecisionOf(p)})
    /\ txn' = [NoTxn EXCEPT !.owner = p]
    /\ Goto(p, IF work[p].action = "push" THEN "note" ELSE "close")
    /\ UNCHANGED <<hour, notes, outbox, acks, work, emits, told, taken, flight,
                   history>>

SaveDecision(p) ==
    /\ pc[p] = "save"
    /\ txn = NoTxn
    /\ txn' = [owner |-> p, decs |-> {DecisionOf(p)}, notes |-> <<>>]
    /\ Goto(p, IF work[p].action = "push" THEN "note" ELSE "close")
    /\ UNCHANGED <<hour, tables, work, emits, told, taken, flight, history>>

RecordNotification(p) ==
    /\ pc[p] = "note"
    /\ txn' = [txn EXCEPT !.notes = <<Note(Topic[work[p].event])>>]
    /\ Goto(p, "enqueue")
    /\ UNCHANGED <<hour, tables, work, emits, told, taken, flight, history>>

MessageRow(e, status, attempts, due) ==
    [event |-> e, status |-> status, attempts |-> attempts, due |-> due]

NewMessage(e) == MessageRow(e, "pending", 0, TRUE)

\* OutboxRepository.create commits, and with it the two rows before it.
Enqueue(p) ==
    /\ pc[p] = "enqueue"
    /\ CommitRows
    /\ txn' = NoTxn
    /\ outbox' = Append(outbox, NewMessage(work[p].event))
    /\ calls' = Append(calls, 0)
    /\ arrived' = Append(arrived, 0)
    /\ retried' = Append(retried, 0)
    /\ Goto(p, "close")
    /\ UNCHANGED <<hour, acks, work, emits, told, taken, flight, clicks,
                   crashes>>

\* The ack row, and the end of the with block.
CloseEnvelope(p) ==
    LET e == work[p].event
        tokened == e \in Tokened
        tells == tokened /\ work[p].action \in {"push", "skip"}
    IN
    /\ pc[p] = "close"
    /\ txn.owner \in {p, None}
    /\ CommitRows
    /\ txn' = NoTxn
    /\ acks' = IF tokened THEN [acks EXCEPT ![e] = "pending"] ELSE acks
    /\ Goto(p, IF tells THEN "tell" ELSE "idle")
    /\ work' = IF tells THEN work ELSE [work EXCEPT ![p] = Idle]
    /\ UNCHANGED <<hour, outbox, emits, told, taken, flight, history>>

AckStatus(w) ==
    CASE w.action = "push" -> "queued"
      [] w.action = "skip" /\ w.reason = "expired" -> "expired"
      [] w.action = "skip" /\ w.reason # "expired" -> "skipped"

\* ack_sink.acknowledge; a sink that raises may have taken the call or not.
TellSource(p) ==
    LET e == work[p].event IN
    /\ pc[p] = "tell"
    /\ \/ /\ told' = [told EXCEPT ![e] = AckStatus(work[p])]
          /\ \E label \in {"acknowledged", "failed"} : Goto(p, label)
       \/ /\ Goto(p, "failed")
          /\ UNCHANGED told
    /\ UNCHANGED <<hour, tables, txn, work, emits, taken, flight, history>>

\* Mutant of PersistAck: the row says acknowledged whatever the sink did.
PersistAckBlindly(p) ==
    /\ pc[p] \in {"acknowledged", "failed"}
    /\ txn = NoTxn
    /\ acks' = [acks EXCEPT ![work[p].event] = "acknowledged"]
    /\ Goto(p, "idle")
    /\ work' = [work EXCEPT ![p] = Idle]
    /\ UNCHANGED <<hour, decisions, notes, outbox, txn, emits, told, taken,
                   flight, history>>

PersistAck(p) ==
    /\ pc[p] \in {"acknowledged", "failed"}
    /\ txn = NoTxn
    /\ acks' = [acks EXCEPT ![work[p].event] = pc[p]]
    /\ Goto(p, "idle")
    /\ work' = [work EXCEPT ![p] = Idle]
    /\ UNCHANGED <<hour, decisions, notes, outbox, txn, emits, told, taken,
                   flight, history>>

\* The process dies, or a statement raises and the with block rolls back.
Die(p) ==
    /\ pc[p] # "idle"
    /\ crashes < CrashBound
    /\ crashes' = crashes + 1
    /\ txn' = IF txn.owner = p THEN NoTxn ELSE txn
    /\ Goto(p, "idle")
    /\ work' = [work EXCEPT ![p] = Idle]
    /\ UNCHANGED <<hour, tables, emits, told, taken, flight, calls, arrived,
                   retried, clicks>>

Process(p) ==
    \/ \E e \in Events : Evaluate(p, e)
    \/ Weigh(p) \/ SaveDecision(p) \/ RecordNotification(p) \/ Enqueue(p)
    \/ CloseEnvelope(p) \/ TellSource(p) \/ PersistAck(p)

-----------------------------------------------------------------------------
(* OutboxDispatcher.process_batch and the Inbox page.                      *)

SetMessage(m, status, attempts, due) ==
    outbox' = [outbox EXCEPT ![m] = MessageRow(outbox[m].event, status, attempts, due)]

\* Mutant of Waiting: a message that was being delivered is selected again.
WaitingOrDelivering(row) ==
    row.status \in {"pending", "retrying", "delivering"} /\ row.due

Waiting(row) == row.status \in {"pending", "retrying"} /\ row.due

SelectBatch ==
    LET batch == {[msg |-> m, attempts |-> outbox[m].attempts] :
                    m \in {n \in Dispatched : Waiting(outbox[n])}}
    IN
    /\ taken = {} /\ flight = NoFlight
    /\ batch # {}
    /\ taken' = batch
    /\ UNCHANGED <<hour, tables, txn, procVars, flight, history>>

\* The row's status is not compared with what the SELECT saw.
MarkDelivering ==
    /\ flight = NoFlight /\ txn = NoTxn
    /\ \E t \in taken :
        /\ taken' = taken \ {t}
        /\ flight' = [msg |-> t.msg, attempt |-> t.attempts + 1, result |-> ""]
        /\ SetMessage(t.msg, "delivering", t.attempts + 1, outbox[t.msg].due)
    /\ UNCHANGED <<hour, decisions, notes, acks, txn, procVars, history>>

\* The policy denies, the adapter writes the notification, or it fails.
Deliver ==
    LET m == flight.msg IN
    /\ flight # NoFlight /\ flight.result = ""
    /\ \/ /\ flight' = [flight EXCEPT !.result = "skipped"]
          /\ UNCHANGED <<notes, calls, arrived>>
       \/ /\ txn = NoTxn
          /\ flight' = [flight EXCEPT !.result = "sent"]
          /\ notes' = Append(notes, Note(NoTopic))
          /\ calls' = [calls EXCEPT ![m] = @ + 1]
          /\ arrived' = [arrived EXCEPT ![m] = @ + 1]
       \/ /\ flight' = [flight EXCEPT !.result = "failed"]
          /\ calls' = [calls EXCEPT ![m] = @ + 1]
          /\ UNCHANGED <<notes, arrived>>
    /\ UNCHANGED <<hour, decisions, outbox, acks, txn, procVars, taken, retried,
                   clicks, crashes>>

NextStatus ==
    CASE flight.result # "failed" -> flight.result
      [] flight.result = "failed" /\ flight.attempt >= MaxRetries -> "dead_letter"
      [] flight.result = "failed" /\ flight.attempt < MaxRetries -> "retrying"

SettleMessage ==
    /\ flight.result # "" /\ txn = NoTxn
    /\ SetMessage(flight.msg, NextStatus, flight.attempt,
                  NextStatus # "retrying" /\ outbox[flight.msg].due)
    /\ flight' = NoFlight
    /\ UNCHANGED <<hour, decisions, notes, acks, txn, procVars, taken, history>>

\* next_retry_at comes.
BackoffEnds(m) ==
    /\ outbox[m].status = "retrying" /\ ~outbox[m].due
    /\ SetMessage(m, "retrying", outbox[m].attempts, TRUE)
    /\ UNCHANGED <<hour, decisions, notes, acks, txn, procVars, taken, flight, history>>

DispatcherDies ==
    /\ taken # {} \/ flight # NoFlight
    /\ crashes < CrashBound
    /\ crashes' = crashes + 1
    /\ taken' = {}
    /\ flight' = NoFlight
    /\ UNCHANGED <<hour, tables, txn, procVars, calls, arrived, retried,
                   clicks>>

Dismiss(m) ==
    /\ txn = NoTxn
    /\ clicks < UserBound
    /\ clicks' = clicks + 1
    /\ SetMessage(m, "skipped", outbox[m].attempts, outbox[m].due)
    /\ UNCHANGED <<hour, decisions, notes, acks, txn, procVars, taken, flight,
                   calls, arrived, retried, crashes>>

Retry(m) ==
    /\ txn = NoTxn
    /\ clicks < UserBound
    /\ clicks' = clicks + 1
    /\ retried' = [retried EXCEPT ![m] = @ + 1]
    /\ SetMessage(m, "pending", 0, TRUE)
    /\ UNCHANGED <<hour, decisions, notes, acks, txn, procVars, taken, flight,
                   calls, arrived, crashes>>

Dispatcher == SelectBatch \/ MarkDelivering \/ Deliver \/ SettleMessage

Tick ==
    /\ hour < MaxHour
    /\ hour' = hour + 1
    /\ UNCHANGED <<tables, txn, procVars, taken, flight, history>>

Next ==
    \/ \E p \in Procs : Process(p) \/ Die(p)
    \/ Dispatcher \/ DispatcherDies
    \/ \E m \in Dispatched : BackoffEnds(m) \/ Dismiss(m) \/ Retry(m)
    \/ Tick

Spec == Init /\ [][Next]_vars

-----------------------------------------------------------------------------
(* Properties.                                                             *)

Statuses == {"pending", "delivering", "retrying", "sent", "skipped", "dead_letter"}

Reasons == {"", "expired", "quiet_hours", "dedup", "quota_deferred",
            "quota_exceeded_high_priority", "requires_approval", "governance_denied",
            "balance_veto", "below_threshold", "allowed"}
Places == {"idle", "weigh", "save", "note", "enqueue", "close", "tell", "acknowledged", "failed"}

NoteRow == [hour : Hours, topic : AllTopics]
Work == [event : Events \cup {None}, action : Actions \cup {"", "ask"}, reason : Reasons]
Transaction == [owner : Procs \cup {None},
                decs : SUBSET [event : Events, action : Actions], notes : Seq(NoteRow)]
Message == [event : Events, status : Statuses, attempts : 0..MaxRetries, due : BOOLEAN]
Results == {"", "skipped", "sent", "failed"}

(* Every variable has its type, and each message its counts.               *)
TypeOK ==
    /\ hour \in Hours
    /\ decisions \in [Events -> [Actions -> Nat]]
    /\ notes \in Seq(NoteRow) /\ outbox \in Seq(Message)
    /\ acks \in [Events -> {"none", "pending", "acknowledged", "failed"}]
    /\ txn \in Transaction
    /\ pc \in [Procs -> Places] /\ work \in [Procs -> Work]
    /\ emits \in [Events -> Nat]
    /\ told \in [Events -> {"none", "queued", "skipped", "expired"}]
    /\ taken \subseteq [msg : Messages, attempts : 0..MaxRetries]
    /\ flight \in [msg : Messages \cup {0}, attempt : 0..MaxRetries, result : Results]
    /\ {calls, arrived, retried} \subseteq [Messages -> Nat]
    /\ clicks \in Nat /\ crashes \in Nat

(* "Decision, notification and outbox are committed in one transaction"    *)
(* (docs/27, line 31): whatever process dies or statement fails, the       *)
(* tables hold as many messages and as many notifications for an event as  *)
(* decisions to push it.                                                   *)
EnvelopeWhole ==
    /\ \A e \in Events : decisions[e]["push"] =
            Cardinality({m \in Messages : outbox[m].event = e})
    /\ \A t \in Topics : Rows(Hours, {t}) =
            Cardinality({m \in Messages : Topic[outbox[m].event] = t})

(* A source is never told more than the tables hold: before it hears that  *)
(* its event is queued the message is in the outbox, before it hears that  *)
(* it is skipped the decision is recorded, and the ack row claims an       *)
(* acknowledgement only when the source heard of the event.                *)
SourceToldTruth ==
    \A e \in Tokened :
        /\ told[e] = "queued" => \E m \in Messages : outbox[m].event = e
        /\ told[e] \in {"skipped", "expired"} =>
             decisions[e]["skip"] > 0
        /\ acks[e] = "acknowledged" => told[e] # "none"
        /\ told[e] # "none" => acks[e] # "none"

(* The gate looks for duplicates before it decides and the row comes later,*)
(* so processes that decide at the same time repeat a topic within its     *)
(* window, and an event that comes again because its source was not told   *)
(* does not add to it: one notification for each process at the most.  A   *)
(* message reaches the user once, and once more for each click on retry:   *)
(* not again after a crash of the dispatcher, and not for a dismissal that *)
(* comes while it is delivered.  No round makes more adapter calls than    *)
(* MAX_RETRIES, though a retry may be clicked in the middle of one.        *)
CopiesBounded ==
    /\ \A h \in Hours : \A t \in Topics : Rows({h}, {t}) <= Cardinality(Procs)
    /\ \A m \in Messages :
           /\ arrived[m] <= 1 + retried[m]
           /\ calls[m] <= MaxRetries * (1 + retried[m]) + retried[m]
================================================================================
