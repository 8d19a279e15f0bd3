---------------------------- MODULE AutonomyProofs ----------------------------
(***************************************************************************)
(* The two parts of the program that act unasked: the notifications of the *)
(* proactive loop, and the maintenance ticks of the drift runtime.         *)
(*                                                                         *)
(* The notifications, for every set of processes and events, every quota   *)
(* and every number of retries.                                            *)
(*                                                                         *)
(* The open transaction ties the process that holds it to the rows it will *)
(* commit, so that a commit brings a decision, a notification and a        *)
(* message together (EnvelopeWhole).  Rows and processes that may still    *)
(* add one are counted together (Shared), and what the dispatcher will do  *)
(* with a message is bounded by whichever copy of its attempts it goes on  *)
(* with: the row, the batch or the message in its hand (CallsOK).          *)
(***************************************************************************)
EXTENDS Notifications, DriftTick, RunRepositoryProofs, FiniteSetTheorems, SequenceTheorems, TLAPS

-----------------------------------------------------------------------------
(* The processes that may still add a row of hour h on topic t: what they  *)
(* record gets the time it is recorded at.                                 *)
Sharers(h, t) ==
    {p \in Procs :
        /\ pc[p] \in {"weigh", "save", "note", "enqueue"}
        /\ pc[p] = "save" => work[p].action = "push"
        /\ Topic[work[p].event] = t
        /\ IF pc[p] = "enqueue" THEN txn.notes[1].hour = h ELSE h = hour}

Queued(e) == \E m \in Messages : outbox[m].event = e

(* What a process relies on, at each place it can be.                      *)
ProcOK(p) ==
    LET e == work[p].event
        action == work[p].action
    IN
    /\ pc[p] # "idle" => e \in Events
    /\ pc[p] \notin {"idle", "weigh"} => action \in Actions
    /\ pc[p] \in {"note", "enqueue"} => action = "push" /\ txn.owner = p
    /\ pc[p] = "close" => /\ txn.owner = p <=> action # "push"
                          /\ action = "push" => Queued(e)
    /\ pc[p] \in {"tell", "acknowledged", "failed"} => e \in Tokened /\ acks[e] # "none"
    /\ pc[p] = "tell" => /\ action \in {"push", "skip"}
                         /\ action = "push" => Queued(e)
                         /\ action = "skip" => decisions[e]["skip"] > 0
    /\ pc[p] = "acknowledged" => told[e] # "none"

(* The open transaction is its owner's envelope, as far as it has come.    *)
TxnOK ==
    LET p == txn.owner IN
    /\ p = None => txn = NoTxn
    /\ p # None =>
         /\ pc[p] \in {"note", "enqueue", "close"}
         /\ txn.decs = {DecisionOf(p)}
         /\ pc[p] # "enqueue" => txn.notes = <<>>
         /\ pc[p] = "enqueue" =>
              \E h \in 0..hour : txn.notes = <<[hour |-> h, topic |-> Topic[work[p].event]]>>

NotesPast == \A i \in DOMAIN notes : notes[i].hour <= hour

(* Rows on a topic, and those that may come, share the processes.          *)
Shared ==
    \A h \in Hours : \A t \in Topics :
        Rows({h}, {t}) + Cardinality(Sharers(h, t)) <= Cardinality(Procs)

(* The dispatcher has a message in its batch or in its hand, never both.   *)
BatchOK ==
    /\ flight.msg = 0 => flight = NoFlight
    /\ \A t \in taken : t.msg # flight.msg /\ t.attempts < MaxRetries
    /\ \A t, u \in taken : t.msg = u.msg => t = u

\* The dispatcher is about to make a call for the message.
InHand(m) == flight.msg = m /\ flight.result = ""

\* The calls that the clicks on retry allow.
Granted(m) == retried[m] * (MaxRetries + 1)

\* With n attempts counted, the calls are accounted for, the next one too.
Covered(m, n) ==
    /\ calls[m] <= Granted(m) + n
    /\ InHand(m) => calls[m] < Granted(m) + n

(* The calls of a message are covered by its attempts, whichever copy of   *)
(* them the dispatcher goes on with.                                       *)
CallsOK(m) ==
    /\ outbox[m].status \in {"pending", "retrying"} => outbox[m].attempts < MaxRetries
    /\ Covered(m, outbox[m].attempts)
    /\ flight.msg = m => Covered(m, flight.attempt)
    /\ \A t \in taken : t.msg = m => Covered(m, t.attempts)

(* A message that can still be delivered has a click for every arrival.    *)
ArrivalsOK(m) ==
    /\ arrived[m] <= 1 + retried[m]
    /\ outbox[m].status \in {"pending", "retrying"} =>
          arrived[m] <= retried[m] /\ (InHand(m) => arrived[m] < retried[m])
    /\ flight.msg = m /\ flight.result \in {"", "failed"} => arrived[m] <= retried[m]
    /\ \A t \in taken : t.msg = m => arrived[m] <= retried[m]

(* The inductive invariant.                                                *)
IInv ==
    /\ TypeOK
    /\ \A p \in Procs : ProcOK(p)
    /\ TxnOK
    /\ NotesPast
    /\ EnvelopeWhole
    /\ SourceToldTruth
    /\ Shared
    /\ BatchOK
    /\ \A m \in Messages : CallsOK(m) /\ ArrivalsOK(m)

-----------------------------------------------------------------------------
(* Sequences and counts.                                                   *)

LEMMA OutboxRows ==
    ASSUME outbox \in Seq(Message)
    PROVE  /\ Len(outbox) \in Nat /\ Messages = 1..Len(outbox)
           /\ \A m \in Messages : outbox[m] \in Message
<1> HIDE DEF Message
<1> QED BY LenProperties DEF Messages

LEMMA NoteRows ==
    ASSUME notes \in Seq(NoteRow)
    PROVE  /\ Len(notes) \in Nat /\ DOMAIN notes = 1..Len(notes)
           /\ \A i \in DOMAIN notes : notes[i] \in NoteRow
<1> HIDE DEF NoteRow
<1> QED BY LenProperties

(* One more row.                                                           *)
LEMMA AppendFacts ==
    ASSUME NEW S, NEW s \in Seq(S), NEW x \in S
    PROVE  /\ Append(s, x) \in Seq(S) /\ Len(Append(s, x)) = Len(s) + 1
           /\ DOMAIN Append(s, x) = DOMAIN s \cup {Len(s) + 1} /\ Len(s) + 1 \notin DOMAIN s
           /\ \A i \in DOMAIN s : Append(s, x)[i] = s[i]
           /\ Append(s, x)[Len(s) + 1] = x
           /\ s \o <<x>> = Append(s, x)
OBVIOUS

(* Counts are kept one for each message.                                   *)
LEMMA CountAppended ==
    ASSUME NEW n \in Nat, NEW f \in [1..n -> Nat]
    PROVE  /\ Append(f, 0) \in [1..(n + 1) -> Nat]
           /\ \A i \in 1..n : Append(f, 0)[i] = f[i]
           /\ Append(f, 0)[n + 1] = 0
<1>1. f \in Seq(Nat) /\ Len(f) = n
  OBVIOUS
<1>2. Append(f, 0) \in Seq(Nat) /\ Len(Append(f, 0)) = n + 1 /\ DOMAIN f = 1..n
  BY <1>1, AppendFacts
<1>3. Append(f, 0) \in [1..(n + 1) -> Nat]
  BY <1>2, LenProperties
<1> QED BY <1>1, <1>2, <1>3, AppendFacts

LEMMA Counted == \A n \in Nat : IsFiniteSet(1..n)
<1>1. 1 \in Int /\ \A n \in Nat : n \in Int
  OBVIOUS
<1> QED BY <1>1, FS_Interval

LEMMA NotesFinite ==
    ASSUME notes \in Seq(NoteRow), NEW H, NEW T
    PROVE  IsFiniteSet(NotesOf(H, T)) /\ Rows(H, T) \in Nat
<1>1. NotesOf(H, T) \subseteq 1..Len(notes) /\ Len(notes) \in Nat
  BY NoteRows DEF NotesOf
<1>2. IsFiniteSet(NotesOf(H, T))
  BY <1>1, Counted, FS_Subset
<1> QED BY <1>2, FS_CardinalityType DEF Rows

(* The messages of an event, and those on a topic.                         *)
MessagesOf(e) == {m \in Messages : outbox[m].event = e}
MessagesOn(t) == {m \in Messages : Topic[outbox[m].event] = t}

LEMMA MessagesFinite ==
    ASSUME outbox \in Seq(Message), NEW x
    PROVE  IsFiniteSet(MessagesOf(x)) /\ IsFiniteSet(MessagesOn(x))
<1>1. MessagesOf(x) \subseteq 1..Len(outbox) /\ MessagesOn(x) \subseteq 1..Len(outbox)
      /\ Len(outbox) \in Nat
  BY OutboxRows DEF MessagesOf, MessagesOn
<1> QED BY <1>1, Counted, FS_Subset

-----------------------------------------------------------------------------
(* Verdicts.                                                               *)

(* Whoever may still be sent is no duplicate.                              *)
LEMMA EligibilityFacts ==
    ASSUME NEW priority \in Priorities, NEW expired \in BOOLEAN, NEW quiet \in BOOLEAN,
           NEW duplicate \in BOOLEAN, NEW quota \in BOOLEAN, NEW v,
           v = Eligibility(priority, expired, quiet, duplicate, quota)
    PROVE  /\ v.action \in Actions \cup {"ask"} /\ v.reason \in Reasons
           /\ v.action \in {"ask", "push"} => ~duplicate
<1>1. CASE expired
  BY <1>1 DEF Eligibility, Verdict, Actions, Reasons
<1>2. CASE ~expired /\ quiet /\ priority # "urgent"
  BY <1>2 DEF Eligibility, Verdict, Actions, Reasons
<1>3. CASE ~expired /\ ~(quiet /\ priority # "urgent") /\ duplicate
  BY <1>3 DEF Eligibility, Verdict, Actions, Reasons
<1>4. CASE ~expired /\ ~(quiet /\ priority # "urgent") /\ ~duplicate /\ quota
  <2>1. v = OverQuota(priority)
    BY <1>4 DEF Eligibility
  <2>2. v.action \in {"defer", "push"}
        /\ v.reason \in {"quota_deferred", "quota_exceeded_high_priority"}
    BY <2>1 DEF OverQuota, Verdict
  <2> QED BY <1>4, <2>2 DEF Actions, Reasons
<1>5. CASE ~expired /\ ~(quiet /\ priority # "urgent") /\ ~duplicate /\ ~quota
  BY <1>5 DEF Eligibility, Verdict, Reasons
<1> QED BY <1>1, <1>2, <1>3, <1>4, <1>5

LEMMA JudgedFacts ==
    ASSUME NEW policy \in {"allow", "deny", "require_approval"}, NEW sent,
           NEW worth \in BOOLEAN, NEW v, v = Judged(policy, sent, worth)
    PROVE  v.action \in Actions /\ v.reason \in Reasons
<1>0. BalanceVeto(sent) \in BOOLEAN
  BY DEF BalanceVeto
<1> HIDE DEF BalanceVeto
<1>1. CASE policy \in {"deny", "require_approval"}
  BY <1>1 DEF Judged, Verdict, Actions, Reasons
<1>2. CASE policy = "allow" /\ BalanceVeto(sent)
  BY <1>2 DEF Judged, Verdict, Actions, Reasons
<1>3. CASE policy = "allow" /\ ~BalanceVeto(sent)
  BY <1>3 DEF Judged, Verdict, Actions, Reasons
<1> QED BY <1>1, <1>2, <1>3

-----------------------------------------------------------------------------
(* Types.                                                                  *)

LEMMA TypedMove ==
    ASSUME TypeOK, NEW p \in Procs, NEW label \in Places, NEW w \in Work
    PROVE  /\ [pc EXCEPT ![p] = label] \in [Procs -> Places]
           /\ [work EXCEPT ![p] = w] \in [Procs -> Work]
<1> HIDE DEF Places, Work
<1> QED BY DEF TypeOK

LEMMA LiteralsTyped ==
    /\ Idle \in Work /\ NoTxn \in Transaction /\ <<>> \in Seq(NoteRow)
    /\ Places = {"idle", "weigh", "save", "note", "enqueue", "close", "tell",
                 "acknowledged", "failed"}
<1>1. <<>> \in Seq(NoteRow)
  <2> HIDE DEF NoteRow
  <2> QED OBVIOUS
<1>2. Idle \in Work
  BY DEF Idle, Work, Reasons
<1>3. NoTxn \in Transaction
  <2> HIDE DEF NoteRow
  <2> QED BY <1>1 DEF NoTxn, Transaction
<1> QED BY <1>1, <1>2, <1>3 DEF Places

LEMMA DecidedTyped ==
    ASSUME NEW e \in Events, NEW v, v.action \in Actions \cup {"ask"}, v.reason \in Reasons
    PROVE  Decided(e, v) \in Work
BY DEF Decided, Work

LEMMA RecordedTyped ==
    ASSUME TypeOK, NEW ds
    PROVE  /\ Recorded(ds) \in [Events -> [Actions -> Nat]]
           /\ \A e \in Events, x \in Actions : Recorded(ds)[e][x] =
                IF [event |-> e, action |-> x] \in ds THEN decisions[e][x] + 1 ELSE decisions[e][x]
           /\ \A e \in Events : decisions[e]["skip"] > 0 => Recorded(ds)[e]["skip"] > 0
<1>1. \A e \in Events, x \in Actions : decisions[e][x] \in Nat
  BY DEF TypeOK
<1>2. /\ Recorded(ds) \in [Events -> [Actions -> Nat]]
      /\ \A e \in Events, x \in Actions : Recorded(ds)[e][x] =
           IF [event |-> e, action |-> x] \in ds THEN decisions[e][x] + 1 ELSE decisions[e][x]
  BY <1>1 DEF Recorded
<1>3. ASSUME NEW n \in Nat, NEW k, n > 0, k = n \/ k = n + 1 PROVE k > 0
  BY <1>3
<1>4. "skip" \in Actions
  BY DEF Actions
<1>5. \A e \in Events : \/ Recorded(ds)[e]["skip"] = decisions[e]["skip"]
                        \/ Recorded(ds)[e]["skip"] = decisions[e]["skip"] + 1
  BY <1>2, <1>4
<1> QED BY <1>1, <1>2, <1>3, <1>4, <1>5

\* What an open transaction holds when its envelope is committed.
LEMMA EnvelopeFacts ==
    ASSUME IInv, NEW p \in Procs
    PROVE  /\ pc[p] = "enqueue" =>
                /\ work[p].event \in Events /\ Topic[work[p].event] \in Topics
                /\ txn.owner = p /\ txn.decs = {[event |-> work[p].event, action |-> "push"]}
                /\ \E h \in Hours : /\ h <= hour
                       /\ txn.notes = <<[hour |-> h, topic |-> Topic[work[p].event]]>>
                       /\ notes \o txn.notes =
                             Append(notes, [hour |-> h, topic |-> Topic[work[p].event]])
           /\ pc[p] = "close" /\ txn.owner \in {p, None} =>
                /\ notes \o txn.notes = notes
                /\ txn.decs = IF work[p].action = "push" THEN {}
                              ELSE {[event |-> work[p].event, action |-> work[p].action]}
<1>0. TypeOK /\ ProcOK(p) /\ TxnOK /\ p # None
  BY EventAssumption DEF IInv
<1>1. ASSUME pc[p] = "enqueue"
      PROVE  /\ work[p].event \in Events /\ Topic[work[p].event] \in Topics
             /\ txn.owner = p /\ txn.decs = {[event |-> work[p].event, action |-> "push"]}
             /\ \E h \in Hours : /\ h <= hour
                    /\ txn.notes = <<[hour |-> h, topic |-> Topic[work[p].event]]>>
                    /\ notes \o txn.notes =
                          Append(notes, [hour |-> h, topic |-> Topic[work[p].event]])
  <2>1. work[p].event \in Events /\ work[p].action = "push" /\ txn.owner = p
    BY <1>0, <1>1 DEF ProcOK
  <2>2. txn.decs = {[event |-> work[p].event, action |-> "push"]}
    BY <1>0, <2>1 DEF TxnOK, DecisionOf
  <2>3. PICK h \in 0..hour : txn.notes = <<[hour |-> h, topic |-> Topic[work[p].event]]>>
    BY <1>0, <1>1, <2>1 DEF TxnOK
  <2>4. h \in Hours /\ h <= hour /\ Topic[work[p].event] \in Topics
    BY <1>0, <2>1, DeliveryAssumption DEF TypeOK, Hours, Topics
  <2>5. [hour |-> h, topic |-> Topic[work[p].event]] \in NoteRow /\ notes \in Seq(NoteRow)
    BY <1>0, <2>4 DEF NoteRow, AllTopics, TypeOK
  <2>6. notes \o txn.notes = Append(notes, [hour |-> h, topic |-> Topic[work[p].event]])
    BY <2>3, <2>5, AppendFacts
  <2> QED BY <2>1, <2>2, <2>3, <2>4, <2>6
<1>2. ASSUME pc[p] = "close", txn.owner \in {p, None}
      PROVE  /\ notes \o txn.notes = notes
             /\ txn.decs = IF work[p].action = "push" THEN {}
                           ELSE {[event |-> work[p].event, action |-> work[p].action]}
  <2>1. txn.notes = <<>>
    BY <1>0, <1>2 DEF TxnOK, NoTxn
  <2>2. notes \o <<>> = notes
    <3> HIDE DEF NoteRow
    <3> QED BY <1>0, ConcatEmptySeq DEF TypeOK
  <2>3. txn.decs = IF work[p].action = "push" THEN {}
                   ELSE {[event |-> work[p].event, action |-> work[p].action]}
    <3>1. CASE work[p].action = "push"
      BY <1>0, <1>2, <3>1 DEF TxnOK, ProcOK, NoTxn
    <3>2. CASE work[p].action # "push"
      <4>1. txn.owner = p
        BY <1>0, <1>2, <3>2 DEF ProcOK
      <4> QED BY <1>0, <3>2, <4>1 DEF TxnOK, DecisionOf
    <3> QED BY <3>1, <3>2
  <2> QED BY <2>1, <2>2, <2>3
<1> QED BY <1>1, <1>2

LEMMA EnqueueTypes ==
    ASSUME IInv, NEW p \in Procs, Enqueue(p)
    PROVE  TypeOK'
<1>0. TypeOK /\ pc[p] = "enqueue"
  BY DEF IInv, Enqueue
<1>1. pc' \in [Procs -> Places] /\ work' \in [Procs -> Work]
  BY <1>0, LiteralsTyped, TypedMove DEF Enqueue, Goto, TypeOK
<1>2. decisions' \in [Events -> [Actions -> Nat]]
  BY <1>0, RecordedTyped DEF Enqueue, CommitRows
<1>3. notes' \in Seq(NoteRow)
  <2>1. PICK h \in Hours : notes' = Append(notes, [hour |-> h, topic |-> Topic[work[p].event]])
                           /\ Topic[work[p].event] \in Topics
    BY <1>0, EnvelopeFacts DEF Enqueue, CommitRows
  <2>2. [hour |-> h, topic |-> Topic[work[p].event]] \in NoteRow /\ notes \in Seq(NoteRow)
    BY <1>0, <2>1 DEF NoteRow, AllTopics, TypeOK
  <2> HIDE DEF NoteRow
  <2> QED BY <2>1, <2>2, AppendFacts
<1>4. NewMessage(work[p].event) \in Message
  <2>1. work[p].event \in Events
    BY <1>0, EnvelopeFacts
  <2> QED BY <2>1, DeliveryAssumption DEF NewMessage, MessageRow, Message, Statuses
<1>5. /\ outbox \in Seq(Message) /\ outbox' \in Seq(Message)
      /\ Messages' = 1..(Len(outbox) + 1) /\ Messages = 1..Len(outbox) /\ Len(outbox) \in Nat
  <2>1. outbox \in Seq(Message) /\ outbox' = Append(outbox, NewMessage(work[p].event))
    BY <1>0 DEF Enqueue, TypeOK
  <2> HIDE DEF Message, NewMessage
  <2>2. outbox' \in Seq(Message) /\ Len(outbox') = Len(outbox) + 1
    BY <1>4, <2>1, AppendFacts
  <2> QED BY <2>1, <2>2, LenProperties DEF Messages
<1>6. {calls', arrived', retried'} \subseteq [Messages' -> Nat]
  <2>1. ASSUME NEW f \in [Messages -> Nat] PROVE Append(f, 0) \in [Messages' -> Nat]
    BY <1>5, CountAppended
  <2>2. {calls, arrived, retried} \subseteq [Messages -> Nat]
    BY <1>0 DEF TypeOK
  <2> QED BY <2>1, <2>2 DEF Enqueue
<1>7. txn' \in Transaction
  BY LiteralsTyped DEF Enqueue
<1>8. taken' \subseteq [msg : Messages', attempts : 0..MaxRetries]
  BY <1>0, <1>5 DEF Enqueue, TypeOK
<1>9. flight' \in [msg : Messages' \cup {0}, attempt : 0..MaxRetries, result : Results]
  BY <1>0, <1>5 DEF Enqueue, TypeOK
<1> QED BY <1>0, <1>1, <1>2, <1>3, <1>5, <1>6, <1>7, <1>8, <1>9 DEF Enqueue, TypeOK

LEMMA CloseTypes ==
    ASSUME IInv, NEW p \in Procs, CloseEnvelope(p)
    PROVE  TypeOK'
<1>0. TypeOK /\ pc[p] = "close" /\ txn.owner \in {p, None}
  BY DEF IInv, CloseEnvelope
<1>1. pc' \in [Procs -> Places] /\ work' \in [Procs -> Work]
  <2>1. work \in [Procs -> Work]
    BY <1>0 DEF TypeOK
  <2> QED BY <1>0, <2>1, LiteralsTyped, TypedMove DEF CloseEnvelope, Goto
<1>2. decisions' \in [Events -> [Actions -> Nat]]
  BY <1>0, RecordedTyped DEF CloseEnvelope, CommitRows
<1>3. notes' = notes
  BY <1>0, EnvelopeFacts DEF CloseEnvelope, CommitRows
<1>4. acks' \in [Events -> {"none", "pending", "acknowledged", "failed"}]
  BY <1>0 DEF CloseEnvelope, TypeOK
<1>5. txn' \in Transaction
  BY LiteralsTyped DEF CloseEnvelope
<1> QED BY <1>0, <1>1, <1>2, <1>3, <1>4, <1>5 DEF CloseEnvelope, TypeOK, history, Messages

LEMMA ProcessTypes ==
    ASSUME IInv, NEW p \in Procs, Process(p) \/ Die(p)
    PROVE  TypeOK'
<1>0. TypeOK /\ work[p] \in Work /\ pc \in [Procs -> Places] /\ work \in [Procs -> Work]
  <2> HIDE DEF Work
  <2> QED BY DEF IInv, TypeOK
<1>P. {"idle", "weigh", "save", "note", "enqueue", "close", "tell", "acknowledged", "failed"}
        = Places
  BY LiteralsTyped
<1>I. Idle \in Work /\ NoTxn \in Transaction
  BY LiteralsTyped
<1>1. ASSUME NEW e \in Events, Evaluate(p, e) PROVE TypeOK'
  <2>1. PICK expired \in BOOLEAN, quiet \in BOOLEAN :
          LET v == Eligibility(Priority[e], expired, quiet, Duplicate(e),
                               QuotaHit(Priority[e], InHour, InDay))
          IN  /\ work' = [work EXCEPT ![p] = Decided(e, v)]
              /\ Goto(p, IF v.action = "ask" THEN "weigh" ELSE "save")
    BY <1>1 DEF Evaluate
  <2> DEFINE v == Eligibility(Priority[e], expired, quiet, Duplicate(e),
                              QuotaHit(Priority[e], InHour, InDay))
  <2>2. Duplicate(e) \in BOOLEAN /\ QuotaHit(Priority[e], InHour, InDay) \in BOOLEAN
        /\ Priority[e] \in Priorities
    BY EventAssumption DEF Duplicate, QuotaHit
  <2>3. v.action \in Actions \cup {"ask"} /\ v.reason \in Reasons
    BY <2>2, EligibilityFacts
  <2>4. work' = [work EXCEPT ![p] = Decided(e, v)]
        /\ (pc' = [pc EXCEPT ![p] = "weigh"] \/ pc' = [pc EXCEPT ![p] = "save"])
    BY <2>1 DEF Goto
  <2> HIDE DEF v
  <2>5. pc' \in [Procs -> Places] /\ work' \in [Procs -> Work]
    BY <1>0, <1>P, <2>3, <2>4, DecidedTyped, TypedMove
  <2>6. emits' \in [Events -> Nat]
    BY <1>0, <1>1 DEF Evaluate, TypeOK
  <2>7. UNCHANGED <<hour, tables, txn, told, taken, flight, history>>
    BY <1>1 DEF Evaluate
  <2> QED BY <1>0, <2>5, <2>6, <2>7 DEF TypeOK, tables, history, Messages
<1>2. CASE Weigh(p)
  <2>1. PICK policy \in {"allow", "deny", "require_approval"}, worth \in BOOLEAN :
          work' = [work EXCEPT ![p] = Decided(work[p].event, Judged(policy, InLast24, worth))]
    BY <1>2 DEF Weigh
  <2> DEFINE v == Judged(policy, InLast24, worth)
  <2>2. v.action \in Actions /\ v.reason \in Reasons
    BY JudgedFacts
  <2>3. work' = [work EXCEPT ![p] = Decided(work[p].event, v)]
    BY <2>1
  <2> HIDE DEF v
  <2>4. work[p].event \in Events
    BY <1>2 DEF Weigh, IInv, ProcOK
  <2>5. pc' \in [Procs -> Places] /\ work' \in [Procs -> Work]
    BY <1>0, <1>P, <1>2, <2>2, <2>3, <2>4, DecidedTyped, TypedMove DEF Weigh, Goto
  <2> QED BY <1>0, <1>2, <2>5 DEF Weigh, TypeOK, tables, history, Messages
<1>3. CASE SaveDecision(p)
  <2>1. pc' \in [Procs -> Places]
    BY <1>0, <1>I, <1>P, <1>3, TypedMove DEF SaveDecision, Goto
  <2>2. work[p].event \in Events /\ work[p].action \in Actions
    BY <1>3 DEF SaveDecision, IInv, ProcOK
  <2>3. txn' \in Transaction
    BY <1>3, <2>2, LiteralsTyped DEF SaveDecision, Transaction, DecisionOf
  <2> QED BY <1>0, <1>3, <2>1, <2>3 DEF SaveDecision, TypeOK, tables, history, Messages
<1>4. CASE RecordNotification(p)
  <2>1. pc' \in [Procs -> Places]
    BY <1>0, <1>I, <1>P, <1>4, TypedMove DEF RecordNotification, Goto
  <2>2. work[p].event \in Events
    BY <1>4 DEF RecordNotification, IInv, ProcOK
  <2>3. Note(Topic[work[p].event]) \in NoteRow
    BY <1>0, <2>2 DEF Note, NoteRow, TypeOK, AllTopics, Topics
  <2>4. <<Note(Topic[work[p].event])>> \in Seq(NoteRow)
    <3> DEFINE n == Note(Topic[work[p].event])
    <3> HIDE DEF n, NoteRow
    <3> QED BY <2>3 DEF n
  <2>5. txn \in Transaction
    BY <1>0 DEF TypeOK
  <2>6. txn' = [txn EXCEPT !.notes = <<Note(Topic[work[p].event])>>]
    BY <1>4 DEF RecordNotification
  <2>7. txn' \in Transaction
    <3> DEFINE n == <<Note(Topic[work[p].event])>>
    <3> HIDE DEF n, NoteRow
    <3> QED BY <2>4, <2>5, <2>6 DEF n, Transaction
  <2> QED BY <1>0, <1>4, <2>1, <2>7 DEF RecordNotification, TypeOK, tables, history, Messages
<1>7. CASE TellSource(p)
  <2>1. pc' \in [Procs -> Places]
    BY <1>0, <1>I, <1>P, <1>7, TypedMove DEF TellSource, Goto
  <2>2. work[p].event \in Events /\ work[p].action \in {"push", "skip"}
    BY <1>7, EventAssumption DEF TellSource, IInv, ProcOK
  <2>3. AckStatus(work[p]) \in {"queued", "skipped", "expired"}
    BY <2>2 DEF AckStatus
  <2>4. told' \in [Events -> {"none", "queued", "skipped", "expired"}]
    BY <1>0, <1>7, <2>2, <2>3 DEF TellSource, TypeOK
  <2> QED BY <1>0, <1>7, <2>1, <2>4 DEF TellSource, TypeOK, tables, history, Messages
<1>8. CASE PersistAck(p)
  <2>1. pc' \in [Procs -> Places] /\ work' \in [Procs -> Work]
    BY <1>0, <1>I, <1>P, <1>8, TypedMove DEF PersistAck, Goto
  <2>2. acks' \in [Events -> {"none", "pending", "acknowledged", "failed"}]
    BY <1>0, <1>8 DEF PersistAck, TypeOK
  <2> QED BY <1>0, <1>8, <2>1, <2>2 DEF PersistAck, TypeOK, history, Messages
<1>9. CASE Die(p)
  <2>1. pc' \in [Procs -> Places] /\ work' \in [Procs -> Work]
    BY <1>0, <1>I, <1>P, <1>9, TypedMove DEF Die, Goto
  <2>2. txn' \in Transaction
    BY <1>0, <1>I, <1>9 DEF Die, TypeOK
  <2>3. crashes' \in Nat
    BY <1>0, <1>9 DEF Die, TypeOK
  <2> QED BY <1>0, <1>9, <2>1, <2>2, <2>3 DEF Die, TypeOK, tables, Messages
<1>5. CASE Enqueue(p)
  BY <1>5, EnqueueTypes
<1>6. CASE CloseEnvelope(p)
  BY <1>6, CloseTypes
<1> QED BY <1>1, <1>2, <1>3, <1>4, <1>5, <1>6, <1>7, <1>8, <1>9 DEF Process

-----------------------------------------------------------------------------
(* What the dispatcher and the user do to a message.                       *)

LEMMA RowTyped ==
    ASSUME NEW e \in Events, NEW status \in Statuses, NEW attempts \in 0..MaxRetries,
           NEW due \in BOOLEAN, NEW row, row = MessageRow(e, status, attempts, due)
    PROVE  /\ row \in Message
           /\ row.event = e /\ row.status = status /\ row.attempts = attempts /\ row.due = due
BY DEF MessageRow, Message

LEMMA SetMessageFacts ==
    ASSUME TypeOK, NEW m \in Messages, NEW status \in Statuses, NEW attempts \in 0..MaxRetries,
           NEW due \in BOOLEAN, SetMessage(m, status, attempts, due)
    PROVE  /\ outbox' \in Seq(Message) /\ Messages' = Messages
           /\ \A n \in Messages : outbox'[n].event = outbox[n].event
           /\ \A n \in Messages \ {m} : outbox'[n] = outbox[n]
           /\ outbox'[m].status = status /\ outbox'[m].attempts = attempts
<1> DEFINE row == MessageRow(outbox[m].event, status, attempts, due)
<1>1. /\ outbox \in Seq(Message) /\ m \in 1..Len(outbox) /\ Messages = 1..Len(outbox)
      /\ outbox[m] \in Message
  BY OutboxRows DEF TypeOK
<1>2. outbox[m].event \in Events
  BY <1>1 DEF Message
<1>3. /\ row \in Message /\ row.event = outbox[m].event
      /\ row.status = status /\ row.attempts = attempts
  BY <1>2, RowTyped
<1>4. outbox' = [outbox EXCEPT ![m] = row]
  BY DEF SetMessage
<1> HIDE DEF Message, row
<1>5. /\ outbox' \in Seq(Message) /\ Len(outbox') = Len(outbox)
      /\ \A n \in 1..Len(outbox) : outbox'[n] = IF n = m THEN row ELSE outbox[n]
  BY <1>1, <1>3, <1>4, ExceptSeq
<1> QED BY <1>1, <1>3, <1>5, LenProperties DEF Messages

DispatchStep ==
    \/ Dispatcher \/ DispatcherDies
    \/ \E m \in Dispatched : BackoffEnds(m) \/ Dismiss(m) \/ Retry(m)

(* The message that a step sets, and what it leaves there.                 *)
LEMMA MarkFacts ==
    ASSUME IInv, MarkDelivering
    PROVE  \E t \in taken :
               /\ t.msg \in Messages /\ t.attempts \in 0..MaxRetries /\ t.attempts < MaxRetries
               /\ t.attempts + 1 \in 0..MaxRetries /\ t.attempts \in Nat
               /\ taken' = taken \ {t}
               /\ flight' = [msg |-> t.msg, attempt |-> t.attempts + 1, result |-> ""]
               /\ outbox[t.msg].due \in BOOLEAN
               /\ SetMessage(t.msg, "delivering", t.attempts + 1, outbox[t.msg].due)
<1>1. PICK t \in taken :
        /\ taken' = taken \ {t}
        /\ flight' = [msg |-> t.msg, attempt |-> t.attempts + 1, result |-> ""]
        /\ SetMessage(t.msg, "delivering", t.attempts + 1, outbox[t.msg].due)
  BY DEF MarkDelivering
<1>2. TypeOK /\ BatchOK
  BY DEF IInv
<1>3. t.msg \in Messages /\ t.attempts \in 0..MaxRetries /\ t.attempts < MaxRetries
  BY <1>2 DEF TypeOK, BatchOK
<1>4. outbox[t.msg] \in Message
  BY <1>2, <1>3, OutboxRows DEF TypeOK
<1>5. /\ t.attempts + 1 \in 0..MaxRetries /\ t.attempts \in Nat
      /\ outbox[t.msg].due \in BOOLEAN
  BY <1>3, <1>4, DeliveryAssumption DEF Message
<1> QED BY <1>1, <1>3, <1>5

LEMMA SettleFacts ==
    ASSUME IInv, SettleMessage
    PROVE  /\ flight.msg \in Messages /\ flight.result \in Results \ {""}
           /\ flight.attempt \in 0..MaxRetries
           /\ \/ flight.result = "failed" /\ NextStatus = "retrying" /\ flight.attempt < MaxRetries
              \/ NextStatus \in {"dead_letter", "skipped", "sent"}
           /\ \E due \in BOOLEAN : SetMessage(flight.msg, NextStatus, flight.attempt, due)
<1>1. TypeOK /\ BatchOK /\ flight.result # ""
  BY DEF IInv, SettleMessage
<1>2. /\ flight.msg \in Messages \cup {0} /\ flight.attempt \in 0..MaxRetries
      /\ flight.result \in Results
  BY <1>1 DEF TypeOK
<1>3. flight.msg # 0
  <2> SUFFICES ASSUME flight = NoFlight PROVE FALSE
    BY <1>1 DEF BatchOK
  <2> QED BY <1>1 DEF NoFlight
<1>4. \/ flight.result = "failed" /\ NextStatus = "retrying" /\ flight.attempt < MaxRetries
      \/ NextStatus \in {"dead_letter", "skipped", "sent"}
  <2>1. CASE flight.result # "failed"
    BY <1>1, <1>2, <2>1 DEF NextStatus, Results
  <2>2. CASE flight.result = "failed" /\ flight.attempt >= MaxRetries
    BY <2>2 DEF NextStatus
  <2>3. CASE flight.result = "failed" /\ flight.attempt < MaxRetries
    BY <2>3 DEF NextStatus
  <2> QED BY <1>2, <2>1, <2>2, <2>3, DeliveryAssumption
<1>5. \E due \in BOOLEAN : SetMessage(flight.msg, NextStatus, flight.attempt, due)
  <2>1. outbox[flight.msg] \in Message
    BY <1>1, <1>2, <1>3, OutboxRows DEF TypeOK
  <2>2. (NextStatus # "retrying" /\ outbox[flight.msg].due) \in BOOLEAN
    OBVIOUS
  <2> QED BY <2>2 DEF SettleMessage
<1> QED BY <1>1, <1>2, <1>3, <1>4, <1>5

(* The end of a backoff, a dismissal and a click on retry.                 *)
LEMMA ClickFacts ==
    ASSUME TypeOK, NEW m \in Dispatched
    PROVE  /\ m \in Messages /\ outbox[m].attempts \in 0..MaxRetries /\ outbox[m].due \in BOOLEAN
           /\ 0 \in 0..MaxRetries /\ {"retrying", "skipped", "pending"} \subseteq Statuses
           /\ TRUE \in BOOLEAN
<1>1. m \in Messages /\ outbox[m] \in Message
  BY OutboxRows DEF TypeOK, Dispatched
<1> QED BY <1>1, DeliveryAssumption DEF Message, Statuses

(* The dispatcher and the user leave the processes alone, and every        *)
(* message keeps its event.                                                *)
LEMMA DispatchFrame ==
    ASSUME IInv, DispatchStep
    PROVE  /\ UNCHANGED <<hour, decisions, acks, txn, procVars>>
           /\ outbox' \in Seq(Message) /\ Messages' = Messages
           /\ \A n \in Messages : outbox'[n].event = outbox[n].event
           /\ notes' = notes \/ notes' = Append(notes, Note(NoTopic))
<1>0. TypeOK /\ outbox \in Seq(Message)
  BY DEF IInv, TypeOK
<1>S. {"retrying", "skipped", "pending", "delivering", "dead_letter", "sent"} \subseteq Statuses
  BY DEF Statuses
<1>1. ASSUME UNCHANGED outbox
      PROVE  /\ outbox' \in Seq(Message) /\ Messages' = Messages
             /\ \A n \in Messages : outbox'[n].event = outbox[n].event
  BY <1>0, <1>1 DEF Messages
<1>2. ASSUME NEW m \in Messages, NEW status \in Statuses, NEW attempts \in 0..MaxRetries,
             NEW due \in BOOLEAN, SetMessage(m, status, attempts, due)
      PROVE  /\ outbox' \in Seq(Message) /\ Messages' = Messages
             /\ \A n \in Messages : outbox'[n].event = outbox[n].event
  BY <1>0, <1>2, SetMessageFacts
<1>3. CASE SelectBatch
  BY <1>1, <1>3 DEF SelectBatch, tables
<1>4. CASE MarkDelivering
  <2>1. PICK t \in taken :
          /\ t.msg \in Messages /\ t.attempts + 1 \in 0..MaxRetries /\ outbox[t.msg].due \in BOOLEAN
          /\ SetMessage(t.msg, "delivering", t.attempts + 1, outbox[t.msg].due)
    BY <1>4, MarkFacts
  <2>2. /\ outbox' \in Seq(Message) /\ Messages' = Messages
        /\ \A n \in Messages : outbox'[n].event = outbox[n].event
    BY <1>2, <1>S, <2>1
  <2>3. UNCHANGED <<hour, decisions, acks, txn, procVars, notes>>
    BY <1>4 DEF MarkDelivering
  <2> QED BY <2>2, <2>3
<1>5. CASE Deliver
  BY <1>1, <1>5 DEF Deliver
<1>6. CASE SettleMessage
  BY <1>2, <1>6, <1>S, SettleFacts DEF SettleMessage
<1>7. CASE DispatcherDies
  BY <1>1, <1>7 DEF DispatcherDies, tables
<1>8. ASSUME NEW m \in Dispatched, BackoffEnds(m)
      PROVE  /\ UNCHANGED <<hour, decisions, acks, txn, procVars, notes>>
             /\ outbox' \in Seq(Message) /\ Messages' = Messages
             /\ \A n \in Messages : outbox'[n].event = outbox[n].event
  BY <1>0, <1>2, <1>8, ClickFacts DEF BackoffEnds
<1>9. ASSUME NEW m \in Dispatched, Dismiss(m)
      PROVE  /\ UNCHANGED <<hour, decisions, acks, txn, procVars, notes>>
             /\ outbox' \in Seq(Message) /\ Messages' = Messages
             /\ \A n \in Messages : outbox'[n].event = outbox[n].event
  BY <1>0, <1>2, <1>9, ClickFacts DEF Dismiss
<1>10. ASSUME NEW m \in Dispatched, Retry(m)
       PROVE  /\ UNCHANGED <<hour, decisions, acks, txn, procVars, notes>>
              /\ outbox' \in Seq(Message) /\ Messages' = Messages
              /\ \A n \in Messages : outbox'[n].event = outbox[n].event
  BY <1>0, <1>2, <1>10, ClickFacts DEF Retry
<1>11. CASE \E m \in Dispatched : BackoffEnds(m) \/ Dismiss(m) \/ Retry(m)
  BY <1>8, <1>9, <1>10, <1>11
<1> QED BY <1>3, <1>4, <1>5, <1>6, <1>7, <1>11 DEF DispatchStep, Dispatcher

LEMMA FlightTyped ==
    /\ NoFlight \in [msg : Messages \cup {0}, attempt : 0..MaxRetries, result : Results]
    /\ \A m \in Messages \cup {0}, n \in 0..MaxRetries :
          [msg |-> m, attempt |-> n, result |-> ""]
              \in [msg : Messages \cup {0}, attempt : 0..MaxRetries, result : Results]
<1> DEFINE M == Messages \cup {0}
           A == 0..MaxRetries
<1>1. 0 \in M /\ 0 \in A /\ "" \in Results
  BY DeliveryAssumption DEF Results
<1> HIDE DEF M, A
<1>2. NoFlight \in [msg : M, attempt : A, result : Results]
  BY <1>1 DEF NoFlight
<1>3. \A m \in M, n \in A :
         [msg |-> m, attempt |-> n, result |-> ""] \in [msg : M, attempt : A, result : Results]
  BY <1>1
<1> QED BY <1>2, <1>3 DEF M, A

LEMMA DispatchTypes ==
    ASSUME IInv, DispatchStep
    PROVE  TypeOK'
<1>0. TypeOK
  BY DEF IInv
<1>1. /\ UNCHANGED <<hour, decisions, acks, txn, procVars>>
      /\ outbox' \in Seq(Message) /\ Messages' = Messages
  BY DispatchFrame
<1>2. notes' \in Seq(NoteRow)
  <2>1. Note(NoTopic) \in NoteRow /\ notes \in Seq(NoteRow)
    BY <1>0 DEF Note, NoteRow, TypeOK, AllTopics
  <2> HIDE DEF NoteRow
  <2> QED BY <2>1, DispatchFrame, AppendFacts
<1>3. ASSUME UNCHANGED <<calls, arrived, retried, clicks, crashes>>,
             taken' \subseteq [msg : Messages, attempts : 0..MaxRetries],
             flight' \in [msg : Messages \cup {0}, attempt : 0..MaxRetries, result : Results]
      PROVE  TypeOK'
  BY <1>0, <1>1, <1>2, <1>3 DEF TypeOK, procVars
<1>4. ASSUME UNCHANGED <<taken, flight>>, {calls', arrived', retried'} \subseteq [Messages -> Nat],
             clicks' \in Nat, crashes' \in Nat
      PROVE  TypeOK'
  BY <1>0, <1>1, <1>2, <1>4 DEF TypeOK, procVars
<1>5. CASE SelectBatch
  <2>1. \A n \in Messages : outbox[n].attempts \in 0..MaxRetries
    BY <1>0, OutboxRows DEF TypeOK, Message
  <2>2. taken' \subseteq [msg : Messages, attempts : 0..MaxRetries]
    BY <1>5, <2>1 DEF SelectBatch, Dispatched
  <2> QED BY <1>0, <1>3, <1>5, <2>2 DEF SelectBatch, history, TypeOK
<1>6. CASE MarkDelivering
  <2>1. taken' \subseteq [msg : Messages, attempts : 0..MaxRetries]
    BY <1>0, <1>6, MarkFacts DEF TypeOK
  <2>2. flight' \in [msg : Messages \cup {0}, attempt : 0..MaxRetries, result : Results]
    <3>1. PICK t \in taken : t.msg \in Messages \cup {0} /\ t.attempts + 1 \in 0..MaxRetries
                 /\ flight' = [msg |-> t.msg, attempt |-> t.attempts + 1, result |-> ""]
      BY <1>6, MarkFacts
    <3> QED BY <3>1, FlightTyped
  <2> QED BY <1>3, <1>6, <2>1, <2>2 DEF MarkDelivering, history
<1>7. CASE Deliver
  <2>1. flight' \in [msg : Messages \cup {0}, attempt : 0..MaxRetries, result : Results]
    <3>1. {"skipped", "sent", "failed"} \subseteq Results
      BY DEF Results
    <3>2. \E r \in Results : flight' = [flight EXCEPT !.result = r]
      BY <1>7, <3>1 DEF Deliver
    <3> QED BY <1>0, <3>2 DEF TypeOK
  <2>2. {calls', arrived', retried'} \subseteq [Messages -> Nat]
    <3> DEFINE m == flight.msg
    <3>1. m \in Messages
      BY <1>0, <1>7 DEF Deliver, IInv, BatchOK, TypeOK
    <3>2. calls \in [Messages -> Nat] /\ arrived \in [Messages -> Nat] /\ retried \in [Messages -> Nat]
      BY <1>0 DEF TypeOK
    <3>3. /\ calls' = calls \/ calls' = [calls EXCEPT ![m] = @ + 1]
          /\ arrived' = arrived \/ arrived' = [arrived EXCEPT ![m] = @ + 1]
          /\ retried' = retried
      BY <1>7 DEF Deliver
    <3> HIDE DEF m
    <3>4. calls' \in [Messages -> Nat]
      BY <3>1, <3>2, <3>3
    <3>5. arrived' \in [Messages -> Nat]
      BY <3>1, <3>2, <3>3
    <3> QED BY <3>2, <3>3, <3>4, <3>5
  <2>3. UNCHANGED <<taken, clicks, crashes>>
    BY <1>7 DEF Deliver
  <2> QED BY <1>0, <1>1, <1>2, <2>1, <2>2, <2>3 DEF TypeOK, procVars
<1>8. CASE SettleMessage
  <2>1. flight' \in [msg : Messages \cup {0}, attempt : 0..MaxRetries, result : Results]
    BY <1>8, FlightTyped DEF SettleMessage
  <2> QED BY <1>0, <1>3, <1>8, <2>1 DEF SettleMessage, history, TypeOK
<1>9. CASE DispatcherDies
  <2>1. flight' \in [msg : Messages \cup {0}, attempt : 0..MaxRetries, result : Results]
        /\ taken' \subseteq [msg : Messages, attempts : 0..MaxRetries]
    BY <1>9, FlightTyped DEF DispatcherDies
  <2>2. crashes' \in Nat /\ UNCHANGED <<calls, arrived, retried, clicks>>
    BY <1>0, <1>9 DEF DispatcherDies, TypeOK
  <2> QED BY <1>0, <1>1, <1>2, <2>1, <2>2 DEF TypeOK, procVars
<1>10. ASSUME NEW m \in Dispatched, BackoffEnds(m) \/ Dismiss(m) \/ Retry(m)
       PROVE  TypeOK'
  <2>1. UNCHANGED <<taken, flight>> /\ crashes' = crashes
    BY <1>10 DEF BackoffEnds, Dismiss, Retry, history
  <2>2. clicks' \in Nat
    <3>1. clicks \in Nat /\ (clicks' = clicks \/ clicks' = clicks + 1)
      BY <1>0, <1>10 DEF BackoffEnds, Dismiss, Retry, history, TypeOK
    <3> QED BY <3>1
  <2>3. calls' = calls /\ arrived' = arrived
        /\ (retried' = retried \/ retried' = [retried EXCEPT ![m] = @ + 1])
    BY <1>10 DEF BackoffEnds, Dismiss, Retry, history
  <2>4. {calls', arrived', retried'} \subseteq [Messages -> Nat]
    <3>1. calls \in [Messages -> Nat] /\ arrived \in [Messages -> Nat] /\ retried \in [Messages -> Nat]
      BY <1>0 DEF TypeOK
    <3>2. m \in Messages
      BY <1>0, ClickFacts
    <3>3. retried' \in [Messages -> Nat]
      BY <2>3, <3>1, <3>2
    <3> QED BY <2>3, <3>1, <3>3
  <2> QED BY <1>0, <1>4, <2>1, <2>2, <2>4 DEF TypeOK
<1> QED BY <1>5, <1>6, <1>7, <1>8, <1>9, <1>10 DEF DispatchStep, Dispatcher
-----------------------------------------------------------------------------
(* Deliveries.                                                             *)

LEMMA GrantedFacts ==
    ASSUME NEW r \in Nat, NEW b \in Nat
    PROVE  r * b \in Nat /\ (r + 1) * b = r * b + b
BY SMTT(30)

(* The counts of one message in one state.                                 *)
LEMMA CountFacts ==
    ASSUME TypeOK, NEW m \in Messages
    PROVE  /\ calls[m] \in Nat /\ arrived[m] \in Nat /\ retried[m] \in Nat
           /\ Granted(m) \in Nat
           /\ outbox[m].attempts \in 0..MaxRetries /\ outbox[m].status \in Statuses
           /\ flight.attempt \in 0..MaxRetries /\ flight.result \in Results
           /\ \A t \in taken : t.attempts \in 0..MaxRetries /\ t.msg \in Messages
<1>1. calls[m] \in Nat /\ arrived[m] \in Nat /\ retried[m] \in Nat
  BY DEF TypeOK
<1>2. Granted(m) \in Nat
  BY <1>1, GrantedFacts, DeliveryAssumption DEF Granted
<1>3. outbox[m] \in Message
  BY OutboxRows DEF TypeOK
<1> QED BY <1>1, <1>2, <1>3 DEF TypeOK, Message

(* One step of the dispatcher, seen from one message: nothing that was     *)
(* counted is lost.                                                        *)
Delivered == BatchOK /\ \A m \in Messages : CallsOK(m) /\ ArrivalsOK(m)

LEMMA SelectDelivers ==
    ASSUME IInv, SelectBatch
    PROVE  Delivered'
<1>0. TypeOK /\ BatchOK /\ \A m \in Messages : CallsOK(m) /\ ArrivalsOK(m)
  BY DEF IInv
<1>1. /\ flight = NoFlight /\ flight' = flight
      /\ taken' = {[msg |-> m, attempts |-> outbox[m].attempts] :
                       m \in {n \in Dispatched : Waiting(outbox[n])}}
      /\ UNCHANGED <<outbox, calls, arrived, retried>>
  BY DEF SelectBatch, tables, history
<1>2. \A t \in taken' : /\ t.msg \in Messages /\ Waiting(outbox[t.msg])
                        /\ t = [msg |-> t.msg, attempts |-> outbox[t.msg].attempts]
                        /\ t.attempts = outbox[t.msg].attempts
  BY <1>1 DEF Dispatched
<1>3. BatchOK'
  <2>1. \A m \in Messages : m # 0
    BY <1>0, OutboxRows DEF TypeOK
  <2>2. \A t, u \in taken' : t.msg = u.msg => t = u
    BY <1>2
  <2>3. \A t \in taken' : t.msg # flight.msg
    BY <1>1, <1>2, <2>1 DEF NoFlight
  <2>4. \A t \in taken' : t.attempts < MaxRetries
    BY <1>0, <1>2 DEF Waiting, CallsOK
  <2> QED BY <1>1, <2>2, <2>3, <2>4 DEF BatchOK
<1>4. ASSUME NEW m \in Messages PROVE CallsOK(m)' /\ ArrivalsOK(m)'
  <2>0. ~InHand(m)' /\ Granted(m)' = Granted(m) /\ calls'[m] = calls[m]
    <3>1. m # 0
      BY <1>0, OutboxRows DEF TypeOK
    <3> QED BY <1>0, <1>1, <3>1 DEF InHand, NoFlight, Granted
  <2>1. CallsOK(m) /\ ArrivalsOK(m)
    BY <1>0
  <2>2. \A t \in taken' : t.msg = m => /\ t.attempts = outbox[m].attempts
                                       /\ outbox[m].status \in {"pending", "retrying"}
    BY <1>2 DEF Waiting
  <2>3. calls[m] \in Nat /\ arrived[m] \in Nat /\ retried[m] \in Nat
    BY <1>0, CountFacts
  <2>5. flight'.msg # m /\ outbox'[m] = outbox[m] /\ arrived'[m] = arrived[m] /\ retried'[m] = retried[m]
    <3>1. m # 0
      BY <1>0, OutboxRows DEF TypeOK
    <3> QED BY <1>1, <3>1 DEF NoFlight
  <2>4. CallsOK(m)'
    <3>1. Covered(m, outbox[m].attempts)'
      BY <1>1, <2>0, <2>1, <2>5 DEF CallsOK, Covered
    <3> QED BY <1>1, <2>1, <2>2, <2>5, <3>1 DEF CallsOK, Covered
  <2>6. outbox[m].status \in {"pending", "retrying"} => arrived[m] <= retried[m]
    BY <2>1 DEF ArrivalsOK
  <2>7. ArrivalsOK(m)'
    BY <2>0, <2>1, <2>2, <2>5, <2>6 DEF ArrivalsOK
  <2> QED BY <2>4, <2>7
<1> QED BY <1>1, <1>3, <1>4 DEF Delivered, Messages

LEMMA MarkDelivers ==
    ASSUME IInv, MarkDelivering
    PROVE  Delivered'
<1>0. TypeOK /\ BatchOK /\ \A m \in Messages : CallsOK(m) /\ ArrivalsOK(m)
  BY DEF IInv
<1>1. PICK t \in taken :
        /\ t.msg \in Messages /\ t.attempts \in 0..MaxRetries /\ t.attempts < MaxRetries
        /\ t.attempts + 1 \in 0..MaxRetries /\ t.attempts \in Nat
        /\ taken' = taken \ {t}
        /\ flight' = [msg |-> t.msg, attempt |-> t.attempts + 1, result |-> ""]
        /\ outbox[t.msg].due \in BOOLEAN
        /\ SetMessage(t.msg, "delivering", t.attempts + 1, outbox[t.msg].due)
  BY MarkFacts
<1>2. flight = NoFlight /\ UNCHANGED <<calls, arrived, retried>>
  BY DEF MarkDelivering, history
<1>3. /\ Messages' = Messages /\ \A n \in Messages \ {t.msg} : outbox'[n] = outbox[n]
      /\ outbox'[t.msg].status = "delivering" /\ outbox'[t.msg].attempts = t.attempts + 1
  <2>1. "delivering" \in Statuses
    BY DEF Statuses
  <2> DEFINE m == t.msg
             a == t.attempts + 1
             d == outbox[t.msg].due
  <2>2. m \in Messages /\ a \in 0..MaxRetries /\ d \in BOOLEAN /\ SetMessage(m, "delivering", a, d)
    BY <1>1
  <2> HIDE DEF m, a, d
  <2>3. /\ Messages' = Messages /\ \A n \in Messages \ {m} : outbox'[n] = outbox[n]
        /\ outbox'[m].status = "delivering" /\ outbox'[m].attempts = a
    BY <1>0, <2>1, <2>2, SetMessageFacts
  <2> QED BY <2>3 DEF m, a
<1>4. \A m \in Messages : m # 0
  BY <1>0, OutboxRows DEF TypeOK
<1>5. BatchOK'
  BY <1>0, <1>1, <1>4 DEF BatchOK
<1>6. ASSUME NEW m \in Messages PROVE CallsOK(m)' /\ ArrivalsOK(m)'
  <2>0. CallsOK(m) /\ ArrivalsOK(m) /\ Granted(m)' = Granted(m) /\ Granted(m) \in Nat
        /\ calls[m] \in Nat /\ arrived[m] \in Nat /\ retried[m] \in Nat
    BY <1>0, <1>2, CountFacts DEF Granted
  <2>1. ~InHand(m)
    BY <1>2, <1>4 DEF InHand, NoFlight
  <2>2. CASE m = t.msg
    <3>1. calls[m] <= Granted(m) + t.attempts /\ arrived[m] <= retried[m]
      BY <1>1, <2>0, <2>2 DEF CallsOK, Covered, ArrivalsOK
    <3>2. \A u \in taken' : u.msg # m
      BY <1>0, <1>1, <2>2 DEF BatchOK
    <3>3. flight'.msg = m /\ flight'.attempt = t.attempts + 1 /\ flight'.result = ""
      BY <1>1, <2>2
    <3>4. CallsOK(m)'
      <4>1. /\ outbox'[m].status = "delivering" /\ outbox'[m].attempts = t.attempts + 1
            /\ calls'[m] = calls[m] /\ t.attempts \in Nat
        <5>1. t.attempts \in Nat
          BY <1>1
        <5> QED BY <1>2, <1>3, <2>2, <5>1
      <4>2. Covered(m, t.attempts + 1)'
        <5> DEFINE c == calls[m]
                   g == Granted(m)
                   n == t.attempts
        <5>1. c \in Nat /\ g \in Nat /\ n \in Nat /\ c <= g + n
          BY <2>0, <3>1, <4>1
        <5> HIDE DEF c, g, n
        <5>2. c <= g + (n + 1) /\ c < g + (n + 1)
          BY <5>1
        <5> QED BY <2>0, <4>1, <5>2 DEF Covered, c, g, n
      <4> QED BY <3>2, <3>3, <4>1, <4>2 DEF CallsOK, Covered
    <3>5. ArrivalsOK(m)'
      <4>1. arrived[m] <= 1 + retried[m]
        BY <2>0 DEF ArrivalsOK
      <4> QED BY <1>2, <1>3, <2>2, <3>1, <3>2, <3>3, <4>1 DEF ArrivalsOK
    <3> QED BY <3>4, <3>5
  <2>3. CASE m # t.msg
    <3>1. ~InHand(m)' /\ flight'.msg # m /\ outbox'[m] = outbox[m]
      BY <1>1, <1>3, <2>3 DEF InHand
    <3>2. \A u \in taken' : u \in taken
      BY <1>1
    <3>3. \A n : Covered(m, n) => Covered(m, n)'
      BY <1>2, <2>0, <3>1 DEF Covered
    <3>4. CallsOK(m)'
      BY <2>0, <3>1, <3>2, <3>3 DEF CallsOK
    <3>5. ArrivalsOK(m)'
      BY <1>2, <2>0, <3>1, <3>2 DEF ArrivalsOK
    <3> QED BY <3>4, <3>5
  <2> QED BY <2>2, <2>3
<1> QED BY <1>3, <1>5, <1>6 DEF Delivered

LEMMA DeliverDelivers ==
    ASSUME IInv, Deliver
    PROVE  Delivered'
<1>0. TypeOK /\ BatchOK /\ \A m \in Messages : CallsOK(m) /\ ArrivalsOK(m)
  BY DEF IInv
<1> DEFINE f == flight.msg
<1>1. f \in Messages /\ flight.result = "" /\ f # 0
  BY <1>0 DEF Deliver, BatchOK, TypeOK
<1>2. /\ UNCHANGED <<outbox, taken, retried>>
      /\ flight'.msg = f /\ flight'.attempt = flight.attempt
      /\ \/ flight'.result = "skipped" /\ UNCHANGED <<calls, arrived>>
         \/ /\ flight'.result = "sent" /\ calls' = [calls EXCEPT ![f] = @ + 1]
            /\ arrived' = [arrived EXCEPT ![f] = @ + 1]
         \/ /\ flight'.result = "failed" /\ calls' = [calls EXCEPT ![f] = @ + 1]
            /\ UNCHANGED arrived
  <2>1. flight \in [msg : Messages \cup {0}, attempt : 0..MaxRetries, result : Results]
    BY <1>0 DEF TypeOK
  <2> QED BY <2>1 DEF Deliver
<1>3. BatchOK'
  BY <1>0, <1>1, <1>2 DEF BatchOK
<1>4. ASSUME NEW m \in Messages PROVE CallsOK(m)' /\ ArrivalsOK(m)'
  <2>0. /\ CallsOK(m) /\ ArrivalsOK(m) /\ Granted(m)' = Granted(m) /\ ~InHand(m)'
        /\ calls \in [Messages -> Nat] /\ arrived \in [Messages -> Nat]
    BY <1>0, <1>2 DEF Granted, TypeOK, InHand
  <2>1. CASE m = f
    <3>1. InHand(m) /\ \A t \in taken : t.msg # m
      BY <1>0, <1>1, <1>2, <2>1 DEF InHand, BatchOK
    <3>2. /\ calls'[m] = calls[m] \/ calls'[m] = calls[m] + 1
          /\ \/ arrived'[m] = arrived[m]
             \/ flight'.result = "sent" /\ arrived'[m] = arrived[m] + 1
          /\ flight'.result # ""
      BY <1>2, <2>0, <2>1
    <3>3. ASSUME NEW n \in 0..MaxRetries, Covered(m, n) PROVE Covered(m, n)'
      <4> DEFINE c == calls[m]
                 b == Granted(m) + n
      <4>1. c \in Nat /\ b \in Nat /\ c < b
        BY <1>0, <3>1, <3>3, CountFacts, DeliveryAssumption DEF Covered
      <4> HIDE DEF c, b
      <4>2. c <= b /\ c + 1 <= b
        BY <4>1
      <4>3. calls'[m] <= b
        BY <3>2, <4>2 DEF c
      <4> QED BY <2>0, <4>3 DEF Covered, b
    <3>4. CallsOK(m)'
      <4>1. outbox[m].attempts \in 0..MaxRetries /\ flight.attempt \in 0..MaxRetries
        BY <1>0, CountFacts
      <4>2. Covered(m, outbox[m].attempts)' /\ Covered(m, flight.attempt)'
        <5>1. Covered(m, outbox[m].attempts) /\ Covered(m, flight.attempt)
          BY <2>0, <2>1 DEF CallsOK
        <5>2. outbox' = outbox /\ flight'.attempt = flight.attempt
          BY <1>2
        <5> QED BY <3>3, <4>1, <5>1, <5>2 DEF Covered
      <4> QED BY <1>2, <2>0, <3>1, <4>2 DEF CallsOK
    <3>5. ArrivalsOK(m)'
      <4> DEFINE a == arrived[m]
                 r == retried[m]
      <4>1. /\ a \in Nat /\ r \in Nat /\ a <= r
            /\ outbox[m].status \in {"pending", "retrying"} => a < r
        BY <1>0, <1>1, <2>0, <2>1, <3>1, CountFacts DEF ArrivalsOK
      <4>2. a + 1 <= 1 + r /\ a <= 1 + r /\ (a < r => a + 1 <= r)
        BY <4>1
      <4> HIDE DEF a, r
      <4>3. /\ arrived'[m] <= 1 + r
            /\ flight'.result \in {"", "failed"} => arrived'[m] <= r
            /\ outbox[m].status \in {"pending", "retrying"} => arrived'[m] <= r
        BY <3>2, <4>1, <4>2 DEF a
      <4> QED BY <1>2, <2>0, <3>1, <4>3 DEF ArrivalsOK, r
    <3> QED BY <3>4, <3>5
  <2>2. CASE m # f
    <3>1. calls'[m] = calls[m] /\ arrived'[m] = arrived[m] /\ flight'.msg # m /\ ~InHand(m)
      BY <1>2, <2>0, <2>2 DEF InHand
    <3>2. \A n : Covered(m, n) => Covered(m, n)'
      BY <2>0, <3>1 DEF Covered
    <3>3. CallsOK(m)'
      BY <1>2, <2>0, <3>1, <3>2 DEF CallsOK
    <3>4. ArrivalsOK(m)'
      BY <1>2, <2>0, <3>1 DEF ArrivalsOK
    <3> QED BY <3>3, <3>4
  <2> QED BY <2>1, <2>2
<1> QED BY <1>2, <1>3, <1>4 DEF Delivered, Messages

LEMMA SettleDelivers ==
    ASSUME IInv, SettleMessage
    PROVE  Delivered'
<1>0. TypeOK /\ BatchOK /\ \A m \in Messages : CallsOK(m) /\ ArrivalsOK(m)
  BY DEF IInv
<1> DEFINE f == flight.msg
<1>1. /\ f \in Messages /\ flight.attempt \in 0..MaxRetries /\ flight.result \in Results \ {""}
      /\ \/ flight.result = "failed" /\ NextStatus = "retrying" /\ flight.attempt < MaxRetries
         \/ NextStatus \in {"dead_letter", "skipped", "sent"}
  BY SettleFacts
<1>2. flight' = NoFlight /\ UNCHANGED <<taken, calls, arrived, retried>>
  BY DEF SettleMessage, history
<1>3. /\ Messages' = Messages /\ \A n \in Messages \ {f} : outbox'[n] = outbox[n]
      /\ outbox'[f].status = NextStatus /\ outbox'[f].attempts = flight.attempt
  <2>1. NextStatus \in Statuses
    BY <1>1 DEF Statuses
  <2>2. PICK due \in BOOLEAN : SetMessage(f, NextStatus, flight.attempt, due)
    BY SettleFacts
  <2> DEFINE s == NextStatus
             a == flight.attempt
  <2>3. s \in Statuses /\ a \in 0..MaxRetries /\ SetMessage(f, s, a, due) /\ f \in Messages
    BY <1>1, <2>1, <2>2
  <2> HIDE DEF s, a, f
  <2>4. /\ Messages' = Messages /\ \A n \in Messages \ {f} : outbox'[n] = outbox[n]
        /\ outbox'[f].status = s /\ outbox'[f].attempts = a
    BY <1>0, <2>3, SetMessageFacts
  <2> QED BY <2>4 DEF s, a
<1>4. \A m \in Messages : m # 0
  BY <1>0, OutboxRows DEF TypeOK
<1>5. BatchOK'
  <2>1. \A t \in taken : t.msg # 0
    BY <1>0, <1>4 DEF TypeOK
  <2> QED BY <1>0, <1>2, <2>1 DEF BatchOK, NoFlight
<1>6. ASSUME NEW m \in Messages PROVE CallsOK(m)' /\ ArrivalsOK(m)'
  <2>0. /\ CallsOK(m) /\ ArrivalsOK(m) /\ Granted(m)' = Granted(m) /\ ~InHand(m) /\ ~InHand(m)'
        /\ calls'[m] = calls[m] /\ flight'.msg # m
    BY <1>0, <1>1, <1>2, <1>4 DEF Granted, InHand, NoFlight
  <2>1. \A n : Covered(m, n) => Covered(m, n)'
    BY <2>0 DEF Covered
  <2>2. CASE m = f
    <3>1. \A t \in taken' : t.msg # m
      BY <1>0, <1>2, <2>2 DEF BatchOK
    <3>2. Covered(m, flight.attempt)
      BY <2>0, <2>2 DEF CallsOK
    <3>3. calls'[m] <= Granted(m)' + flight.attempt
      BY <2>0, <3>2 DEF Covered
    <3>4. /\ outbox'[m].status = NextStatus /\ outbox'[m].attempts = flight.attempt
      BY <1>3, <2>2
    <3>5. CallsOK(m)'
      <4>1. Covered(m, outbox[m].attempts)'
        BY <2>0, <3>3, <3>4 DEF Covered
      <4>2. outbox'[m].status \in {"pending", "retrying"} => outbox'[m].attempts < MaxRetries
        BY <1>1, <3>4
      <4> QED BY <2>0, <3>1, <4>1, <4>2 DEF CallsOK
    <3>6. ArrivalsOK(m)'
      <4>1. arrived[m] <= 1 + retried[m] /\ (flight.result = "failed" => arrived[m] <= retried[m])
        BY <2>0, <2>2 DEF ArrivalsOK
      <4>2. outbox'[m].status \in {"pending", "retrying"} => arrived[m] <= retried[m]
        BY <1>1, <3>4, <4>1
      <4> QED BY <1>2, <2>0, <3>1, <4>1, <4>2 DEF ArrivalsOK
    <3> QED BY <3>5, <3>6
  <2>3. CASE m # f
    <3>1. outbox'[m] = outbox[m]
      BY <1>3, <2>3
    <3>2. CallsOK(m)'
      <4>1. Covered(m, outbox[m].attempts)'
        BY <2>0, <2>1, <3>1 DEF CallsOK, Covered
      <4> QED BY <1>2, <2>0, <2>1, <3>1, <4>1 DEF CallsOK
    <3>3. ArrivalsOK(m)'
      BY <1>2, <2>0, <3>1 DEF ArrivalsOK
    <3> QED BY <3>2, <3>3
  <2> QED BY <2>2, <2>3
<1> QED BY <1>3, <1>5, <1>6 DEF Delivered

LEMMA DeathDelivers ==
    ASSUME IInv, DispatcherDies
    PROVE  Delivered'
<1>0. TypeOK /\ BatchOK /\ \A m \in Messages : CallsOK(m) /\ ArrivalsOK(m)
  BY DEF IInv
<1>1. flight' = NoFlight /\ taken' = {} /\ UNCHANGED <<outbox, calls, arrived, retried>>
  BY DEF DispatcherDies, tables
<1>2. \A m \in Messages : m # 0
  BY <1>0, OutboxRows DEF TypeOK
<1>3. BatchOK'
  BY <1>1 DEF BatchOK
<1>4. ASSUME NEW m \in Messages PROVE CallsOK(m)' /\ ArrivalsOK(m)'
  <2>1. /\ CallsOK(m) /\ ArrivalsOK(m) /\ Granted(m)' = Granted(m) /\ ~InHand(m)'
        /\ flight'.msg # m /\ calls' = calls
    BY <1>0, <1>1, <1>2 DEF Granted, InHand, NoFlight
  <2>2. Covered(m, outbox[m].attempts)'
    BY <1>1, <2>1 DEF CallsOK, Covered
  <2>3. CallsOK(m)'
    BY <1>1, <2>1, <2>2 DEF CallsOK
  <2>4. ArrivalsOK(m)'
    BY <1>1, <2>1 DEF ArrivalsOK
  <2> QED BY <2>3, <2>4
<1> QED BY <1>1, <1>3, <1>4 DEF Delivered, Messages

(* A click sets one row, and on retry it grants another round of calls and *)
(* another arrival.                                                        *)
LEMMA ClickDelivers ==
    ASSUME IInv, NEW f \in Dispatched, BackoffEnds(f) \/ Dismiss(f) \/ Retry(f)
    PROVE  Delivered'
<1>0. TypeOK /\ BatchOK /\ \A m \in Messages : CallsOK(m) /\ ArrivalsOK(m)
  BY DEF IInv
<1>1. UNCHANGED <<taken, flight, calls, arrived>>
  BY DEF BackoffEnds, Dismiss, Retry, history
<1>2. /\ f \in Messages /\ outbox[f].attempts \in 0..MaxRetries /\ outbox[f].due \in BOOLEAN
      /\ 0 \in 0..MaxRetries /\ {"retrying", "skipped", "pending"} \subseteq Statuses
  BY <1>0, ClickFacts
<1>3. /\ Messages' = Messages /\ \A n \in Messages \ {f} : outbox'[n] = outbox[n]
      /\ \/ /\ outbox'[f].status \in {outbox[f].status, "skipped"}
            /\ outbox'[f].attempts = outbox[f].attempts /\ UNCHANGED retried
         \/ /\ outbox'[f].status = "pending" /\ outbox'[f].attempts = 0
            /\ retried' = [retried EXCEPT ![f] = @ + 1]
  <2>1. CASE BackoffEnds(f)
    BY <1>0, <1>2, <2>1, SetMessageFacts DEF BackoffEnds, history
  <2>2. CASE Dismiss(f)
    BY <1>0, <1>2, <2>2, SetMessageFacts DEF Dismiss
  <2>3. CASE Retry(f)
    BY <1>0, <1>2, <2>3, SetMessageFacts DEF Retry
  <2> QED BY <2>1, <2>2, <2>3
<1>4. BatchOK'
  BY <1>0, <1>1 DEF BatchOK
<1>5. ASSUME NEW m \in Messages PROVE CallsOK(m)' /\ ArrivalsOK(m)'
  <2>0. /\ CallsOK(m) /\ ArrivalsOK(m) /\ (InHand(m)' <=> InHand(m))
        /\ calls'[m] = calls[m] /\ calls[m] \in Nat /\ arrived[m] \in Nat /\ retried[m] \in Nat
        /\ Granted(m) \in Nat /\ retried \in [Messages -> Nat]
    BY <1>0, <1>1, CountFacts DEF InHand, TypeOK
  <2>1. CASE outbox'[m].status \in {outbox[m].status, "skipped"}
             /\ outbox'[m].attempts = outbox[m].attempts /\ retried'[m] = retried[m]
    <3>1. Granted(m)' = Granted(m)
      BY <2>1 DEF Granted
    <3>2. \A n : Covered(m, n) => Covered(m, n)'
      BY <2>0, <3>1 DEF Covered
    <3>3. CallsOK(m)'
      <4>1. Covered(m, outbox[m].attempts)'
        BY <2>0, <2>1, <3>1 DEF CallsOK, Covered
      <4> QED BY <1>1, <2>0, <2>1, <3>2, <4>1 DEF CallsOK
    <3>4. ArrivalsOK(m)'
      BY <1>1, <2>0, <2>1 DEF ArrivalsOK
    <3> QED BY <3>3, <3>4
  <2>2. CASE outbox'[m].status = "pending" /\ outbox'[m].attempts = 0
             /\ retried'[m] = retried[m] + 1
    <3> DEFINE g == Granted(m)
               c == calls[m]
    <3>1. Granted(m)' = g + (MaxRetries + 1) /\ g \in Nat /\ c \in Nat /\ MaxRetries \in Nat \ {0}
      <4>1. retried[m] \in Nat /\ MaxRetries + 1 \in Nat /\ MaxRetries \in Nat \ {0}
        BY <2>0, DeliveryAssumption
      <4>2. (retried[m] + 1) * (MaxRetries + 1) = retried[m] * (MaxRetries + 1) + (MaxRetries + 1)
        BY <4>1, GrantedFacts
      <4> QED BY <2>0, <2>2, <4>1, <4>2 DEF Granted
    <3>2. \A n \in 0..MaxRetries : c <= g + n => c < g + (MaxRetries + 1)
      <4> HIDE DEF g, c
      <4> QED BY <3>1
    <3>3. c < g + (MaxRetries + 1)
      BY <1>0, <2>0, <3>2, CountFacts DEF CallsOK, Covered
    <3>4. \A n \in 0..MaxRetries : Covered(m, n)'
      <4> HIDE DEF g, c
      <4>1. \A n \in 0..MaxRetries : c <= g + (MaxRetries + 1) + n /\ c < g + (MaxRetries + 1) + n
        BY <3>1, <3>3
      <4> QED BY <2>0, <3>1, <4>1 DEF Covered, c
    <3>5. CallsOK(m)'
      <4>1. /\ 0 < MaxRetries /\ flight.attempt \in 0..MaxRetries
            /\ \A t \in taken : t.attempts \in 0..MaxRetries
        BY <1>0, DeliveryAssumption, CountFacts
      <4>2. Covered(m, outbox[m].attempts)'
        BY <1>2, <2>2, <3>4 DEF Covered
      <4>3. Covered(m, flight.attempt)'
        BY <1>1, <3>4, <4>1 DEF Covered
      <4> QED BY <1>1, <2>2, <3>4, <4>1, <4>2, <4>3 DEF CallsOK
    <3>6. ArrivalsOK(m)'
      <4> DEFINE a == arrived[m]
                 r == retried[m]
      <4>1. a \in Nat /\ r \in Nat /\ a <= 1 + r
        BY <2>0 DEF ArrivalsOK
      <4>2. a <= 1 + (r + 1) /\ a <= r + 1
        BY <4>1
      <4>3. InHand(m) => a <= r
        BY <2>0 DEF ArrivalsOK, InHand
      <4>4. a <= r => a < r + 1
        BY <4>1
      <4> HIDE DEF a, r
      <4> QED BY <1>1, <2>0, <2>2, <4>2, <4>3, <4>4 DEF ArrivalsOK, a, r
    <3> QED BY <3>5, <3>6
  <2>3. CASE m # f
    BY <1>3, <2>0, <2>1, <2>3
  <2>4. CASE m = f
    BY <1>3, <2>0, <2>1, <2>2, <2>4
  <2> QED BY <2>3, <2>4
<1> QED BY <1>3, <1>4, <1>5 DEF Delivered

LEMMA DispatchDelivers ==
    ASSUME IInv, DispatchStep
    PROVE  Delivered'
BY SelectDelivers, MarkDelivers, DeliverDelivers, SettleDelivers, DeathDelivers, ClickDelivers
   DEF DispatchStep, Dispatcher

-----------------------------------------------------------------------------
(* A process's step leaves the other processes where they are, touches no  *)
(* transaction but its own, and takes nothing back that was in the tables. *)
LEMMA ProcessFrame ==
    ASSUME IInv, NEW p \in Procs, Process(p) \/ Die(p)
    PROVE  /\ hour' = hour
           /\ \A q \in Procs \ {p} : pc'[q] = pc[q] /\ work'[q] = work[q]
           /\ txn' = txn \/ (txn.owner \in {p, None} /\ txn'.owner \in {p, None})
           /\ \A e \in Events :
                 /\ Queued(e) => Queued(e)'
                 /\ acks[e] # "none" => acks'[e] # "none"
                 /\ told[e] # "none" => told'[e] # "none"
                 /\ decisions[e]["skip"] > 0 => decisions'[e]["skip"] > 0
<1>0. TypeOK /\ pc \in [Procs -> Places] /\ work \in [Procs -> Work] /\ ProcOK(p) /\ TxnOK
  BY DEF IInv, TypeOK
<1>1. ASSUME UNCHANGED <<outbox, decisions>>, acks' = acks, told' = told
      PROVE  \A e \in Events :
                 /\ Queued(e) => Queued(e)'
                 /\ acks[e] # "none" => acks'[e] # "none"
                 /\ told[e] # "none" => told'[e] # "none"
                 /\ decisions[e]["skip"] > 0 => decisions'[e]["skip"] > 0
  BY <1>1 DEF Queued, Messages
<1>2. NoTxn.owner = None
  BY DEF NoTxn
<1>3. ASSUME NEW rows, decisions' = Recorded(rows)
      PROVE  \A e \in Events : decisions[e]["skip"] > 0 => decisions'[e]["skip"] > 0
  BY <1>0, <1>3, RecordedTyped
<1>4. CASE \E e \in Events : Evaluate(p, e)
  BY <1>0, <1>1, <1>4 DEF Evaluate, tables, Goto
<1>5. CASE Weigh(p)
  BY <1>0, <1>1, <1>5 DEF Weigh, tables, Goto
<1>6. CASE SaveDecision(p)
  BY <1>0, <1>1, <1>2, <1>6 DEF SaveDecision, tables, Goto
<1>7. CASE RecordNotification(p)
  <2>1. txn.owner = p /\ txn'.owner = p
    BY <1>0, <1>7 DEF RecordNotification, ProcOK, TypeOK, Transaction
  <2> QED BY <1>0, <1>1, <1>7, <2>1 DEF RecordNotification, tables, Goto
<1>8. CASE Enqueue(p)
  <2>1. txn.owner = p /\ txn'.owner = None
    BY <1>0, <1>2, <1>8 DEF Enqueue, ProcOK
  <2>2. \A e \in Events : Queued(e) => Queued(e)'
    <3>1. NewMessage(work[p].event) \in Message /\ outbox \in Seq(Message)
          /\ outbox' = Append(outbox, NewMessage(work[p].event))
      <4>1. work[p].event \in Events
        BY <1>0, <1>8 DEF Enqueue, ProcOK
      <4> QED BY <1>0, <1>8, <4>1, DeliveryAssumption
              DEF NewMessage, MessageRow, Message, Statuses, Enqueue, TypeOK
    <3> HIDE DEF Message, NewMessage
    <3>2. \A m \in Messages : m \in Messages' /\ outbox'[m] = outbox[m]
      BY <3>1, AppendFacts DEF Messages
    <3> QED BY <3>2 DEF Queued
  <2> QED BY <1>0, <1>3, <1>8, <2>1, <2>2 DEF Enqueue, CommitRows, Goto
<1>9. CASE CloseEnvelope(p)
  <2>1. txn.owner \in {p, None} /\ txn'.owner = None
    BY <1>2, <1>9 DEF CloseEnvelope
  <2>2. \A e \in Events : acks[e] # "none" => acks'[e] # "none"
    BY <1>0, <1>9 DEF CloseEnvelope, TypeOK
  <2>3. \A e \in Events : Queued(e) => Queued(e)'
    BY <1>9 DEF CloseEnvelope, Queued, Messages
  <2>4. \A q \in Procs \ {p} : pc'[q] = pc[q] /\ work'[q] = work[q]
    BY <1>0, <1>9 DEF CloseEnvelope, Goto
  <2> QED BY <1>3, <1>9, <2>1, <2>2, <2>3, <2>4 DEF CloseEnvelope, CommitRows
<1>10. CASE TellSource(p)
  <2>1. \A q \in Procs \ {p} : pc'[q] = pc[q] /\ work'[q] = work[q]
    BY <1>0, <1>10 DEF TellSource, Goto
  <2>2. \A e \in Events : told[e] # "none" => told'[e] # "none"
    <3>1. work[p].action \in {"push", "skip"}
      BY <1>0, <1>10 DEF TellSource, ProcOK
    <3>2. AckStatus(work[p]) # "none"
      BY <3>1 DEF AckStatus
    <3> QED BY <1>0, <1>10, <3>2 DEF TellSource, TypeOK
  <2>3. \A e \in Events : Queued(e) => Queued(e)'
    BY <1>10 DEF TellSource, Queued, Messages, tables
  <2> QED BY <1>10, <2>1, <2>2, <2>3 DEF TellSource, tables
<1>11. CASE PersistAck(p)
  <2>1. \A e \in Events : acks[e] # "none" => acks'[e] # "none"
    BY <1>0, <1>11 DEF PersistAck, TypeOK
  <2>2. \A e \in Events : Queued(e) => Queued(e)'
    BY <1>11 DEF PersistAck, Queued, Messages
  <2> QED BY <1>0, <1>11, <2>1, <2>2 DEF PersistAck, Goto
<1>12. CASE Die(p)
  <2>1. txn' = txn \/ (txn.owner = p /\ txn'.owner = None)
    BY <1>2, <1>12 DEF Die
  <2> QED BY <1>0, <1>1, <1>12, <2>1 DEF Die, tables, Goto
<1> QED BY <1>4, <1>5, <1>6, <1>7, <1>8, <1>9, <1>10, <1>11, <1>12 DEF Process

\* What the processes rely on is kept: facts about one state are put together
\* in Handled.
Handled == (\A p \in Procs : ProcOK(p)) /\ TxnOK /\ NotesPast

LEMMA OthersHandled ==
    ASSUME IInv, NEW p \in Procs, Process(p) \/ Die(p), NEW q \in Procs \ {p}
    PROVE  ProcOK(q)'
<1> DEFINE e == work[q].event
<1>1. ProcOK(q) /\ TxnOK /\ pc'[q] = pc[q] /\ work'[q] = work[q] /\ q # None
  BY ProcessFrame, EventAssumption DEF IInv
<1>2. pc[q] # "idle" =>
        /\ e \in Events
        /\ Queued(e) => Queued(e)'
        /\ acks[e] # "none" => acks'[e] # "none"
        /\ told[e] # "none" => told'[e] # "none"
        /\ decisions[e]["skip"] > 0 => decisions'[e]["skip"] > 0
  BY <1>1, ProcessFrame DEF ProcOK
<1>3. txn'.owner = q <=> txn.owner = q
  BY <1>1, ProcessFrame
<1>4. Queued(work[q].event)' <=> \E m \in Messages' : outbox'[m].event = e
  BY <1>1 DEF Queued
<1>5. Queued(e) => Queued(work[q].event)' \/ pc[q] = "idle"
  BY <1>1, <1>2, <1>4 DEF Queued
<1> QED BY <1>1, <1>2, <1>3, <1>5 DEF ProcOK

\* The transaction of another process stays as it is.
LEMMA OthersTxn ==
    ASSUME IInv, NEW p \in Procs, Process(p) \/ Die(p), txn' = txn, txn.owner # p
    PROVE  TxnOK'
<1>1. TypeOK /\ TxnOK /\ hour' = hour
  BY ProcessFrame DEF IInv
<1>2. txn.owner \in Procs \cup {None}
  BY <1>1 DEF TypeOK, Transaction
<1>3. txn.owner # None => pc'[txn.owner] = pc[txn.owner] /\ work'[txn.owner] = work[txn.owner]
  BY <1>2, ProcessFrame
<1> QED BY <1>1, <1>3 DEF TxnOK, DecisionOf

LEMMA EnqueueHandled ==
    ASSUME IInv, NEW p \in Procs, Enqueue(p)
    PROVE  ProcOK(p)' /\ TxnOK' /\ NotesPast'
<1> DEFINE e == work[p].event
<1>0. TypeOK /\ ProcOK(p) /\ NotesPast /\ p # None /\ pc \in [Procs -> Places]
  BY EventAssumption DEF IInv, TypeOK
<1>1. e \in Events /\ work[p].action = "push" /\ "push" \in Actions
  BY <1>0 DEF Enqueue, ProcOK, Actions
<1>2. txn'.owner = None /\ pc'[p] = "close" /\ work' = work /\ hour' = hour
  BY <1>0 DEF Enqueue, NoTxn, Goto
<1>3. Queued(work[p].event)'
  <2>1. NewMessage(e) \in Message /\ outbox \in Seq(Message)
        /\ outbox' = Append(outbox, NewMessage(e)) /\ NewMessage(e).event = e
    BY <1>0, <1>1, DeliveryAssumption
       DEF NewMessage, MessageRow, Message, Statuses, Enqueue, TypeOK
  <2> HIDE DEF Message, NewMessage
  <2>2. Len(outbox) + 1 \in Messages' /\ outbox'[Len(outbox) + 1] = NewMessage(e)
    BY <2>1, AppendFacts DEF Messages
  <2>3. outbox'[Len(outbox) + 1].event = e
    BY <2>1, <2>2
  <2> QED BY <1>2, <2>2, <2>3 DEF Queued
<1>4. ProcOK(p)'
  BY <1>0, <1>1, <1>2, <1>3 DEF ProcOK
<1>5. TxnOK'
  BY DEF Enqueue, TxnOK, NoTxn
<1>6. NotesPast'
  <2>1. PICK h \in Hours : h <= hour /\ notes' = Append(notes, [hour |-> h, topic |-> Topic[e]])
                           /\ Topic[e] \in Topics
    BY EnvelopeFacts DEF Enqueue, CommitRows
  <2> DEFINE n == [hour |-> h, topic |-> Topic[e]]
  <2>2. n \in NoteRow /\ notes \in Seq(NoteRow) /\ n.hour <= hour /\ notes' = Append(notes, n)
    BY <1>0, <2>1 DEF NoteRow, AllTopics, TypeOK
  <2> HIDE DEF NoteRow, n
  <2>3. \A i \in DOMAIN notes' : \/ i \in DOMAIN notes /\ notes'[i] = notes[i]
                                 \/ notes'[i] = n
    BY <2>2, AppendFacts
  <2> QED BY <1>0, <1>2, <2>2, <2>3 DEF NotesPast
<1> QED BY <1>4, <1>5, <1>6

LEMMA CloseHandled ==
    ASSUME IInv, NEW p \in Procs, CloseEnvelope(p)
    PROVE  ProcOK(p)' /\ TxnOK' /\ NotesPast'
<1> DEFINE e == work[p].event
           tells == e \in Tokened /\ work[p].action \in {"push", "skip"}
<1>0. TypeOK /\ ProcOK(p) /\ NotesPast /\ p # None /\ pc[p] = "close"
      /\ pc \in [Procs -> Places] /\ work \in [Procs -> Work] /\ txn.owner \in {p, None}
  BY EventAssumption DEF IInv, TypeOK, CloseEnvelope
<1>1. e \in Events /\ work[p].action \in Actions /\ "skip" \in Actions
  BY <1>0 DEF ProcOK, Actions
<1>2. UNCHANGED <<outbox, hour>> /\ notes' = notes
  BY <1>0, EnvelopeFacts DEF CloseEnvelope, CommitRows
<1>3. ASSUME tells PROVE ProcOK(p)'
  <2>1. pc'[p] = "tell" /\ work' = work /\ acks'[e] = "pending"
    BY <1>0, <1>1, <1>3 DEF CloseEnvelope, Goto, TypeOK
  <2>2. work[p].action = "push" => Queued(work[p].event)'
    BY <1>0, <1>2, <2>1 DEF ProcOK, Queued, Messages
  <2>3. work[p].action = "skip" => decisions'[e]["skip"] > 0
    <3> SUFFICES ASSUME work[p].action = "skip" PROVE decisions'[e]["skip"] > 0
      OBVIOUS
    <3>1. txn.decs = {[event |-> e, action |-> "skip"]}
      BY <1>0, EnvelopeFacts
    <3>2. decisions' = Recorded(txn.decs)
      BY DEF CloseEnvelope, CommitRows
    <3>3. [event |-> e, action |-> "skip"] \in txn.decs
      BY <3>1
    <3>4. Recorded(txn.decs)[e]["skip"] = decisions[e]["skip"] + 1
      BY <1>0, <1>1, <3>3, RecordedTyped
    <3>5. decisions[e]["skip"] \in Nat
      BY <1>0, <1>1 DEF TypeOK
    <3> QED BY <3>2, <3>4, <3>5
  <2>4. work'[p] = work[p] /\ "tell" \notin {"idle", "weigh", "note", "enqueue", "close"}
    BY <2>1
  <2> HIDE DEF tells, e
  <2> QED BY <1>1, <1>3, <2>1, <2>2, <2>3, <2>4 DEF ProcOK, tells, e
<1>4. ASSUME ~tells PROVE ProcOK(p)'
  <2>1. pc'[p] = "idle"
    BY <1>0, <1>4 DEF CloseEnvelope, Goto
  <2> QED BY <2>1 DEF ProcOK
<1>5. ProcOK(p)'
  BY <1>3, <1>4
<1>6. TxnOK'
  BY DEF CloseEnvelope, TxnOK, NoTxn
<1>7. NotesPast'
  BY <1>0, <1>2 DEF NotesPast
<1> QED BY <1>5, <1>6, <1>7

LEMMA ProcessHandled ==
    ASSUME IInv, NEW p \in Procs, Process(p) \/ Die(p)
    PROVE  Handled'
<1> SUFFICES ProcOK(p)' /\ TxnOK' /\ NotesPast'
  BY OthersHandled DEF Handled
<1>0. TypeOK /\ pc \in [Procs -> Places] /\ work \in [Procs -> Work] /\ ProcOK(p) /\ TxnOK
      /\ NotesPast /\ p # None /\ hour' = hour
  BY ProcessFrame, EventAssumption DEF IInv, TypeOK
<1>1. (notes' = notes => NotesPast') /\ NoTxn.owner = None /\ (txn' = NoTxn => TxnOK')
  BY <1>0 DEF NotesPast, TxnOK, NoTxn
<1>2. pc'[p] = "idle" => ProcOK(p)'
  BY DEF ProcOK
<1>3. ASSUME NEW e \in Events, Evaluate(p, e) PROVE ProcOK(p)' /\ TxnOK' /\ NotesPast'
  <2>1. PICK expired \in BOOLEAN, quiet \in BOOLEAN :
          LET v == Eligibility(Priority[e], expired, quiet, Duplicate(e),
                               QuotaHit(Priority[e], InHour, InDay))
          IN  /\ work' = [work EXCEPT ![p] = Decided(e, v)]
              /\ Goto(p, IF v.action = "ask" THEN "weigh" ELSE "save")
    BY <1>3 DEF Evaluate
  <2> DEFINE v == Eligibility(Priority[e], expired, quiet, Duplicate(e),
                              QuotaHit(Priority[e], InHour, InDay))
  <2>2. Duplicate(e) \in BOOLEAN /\ QuotaHit(Priority[e], InHour, InDay) \in BOOLEAN
        /\ Priority[e] \in Priorities
    BY EventAssumption DEF Duplicate, QuotaHit
  <2>3. v.action \in Actions \cup {"ask"}
    BY <2>2, EligibilityFacts
  <2>4. work' = [work EXCEPT ![p] = Decided(e, v)]
        /\ pc' = [pc EXCEPT ![p] = IF v.action = "ask" THEN "weigh" ELSE "save"]
    BY <2>1 DEF Goto
  <2> HIDE DEF v
  <2>5. pc'[p] \in {"weigh", "save"} /\ (pc'[p] = "save" => v.action \in Actions)
        /\ work'[p].event = e /\ work'[p].action = v.action
    BY <1>0, <2>3, <2>4 DEF Decided
  <2>6. ProcOK(p)'
    BY <2>5 DEF ProcOK
  <2>7. txn' = txn /\ notes' = notes /\ pc[p] = "idle"
    BY <1>3 DEF Evaluate, tables
  <2>8. txn.owner # p
    BY <1>0, <2>7 DEF TxnOK
  <2> QED BY <1>1, <1>3, <2>6, <2>7, <2>8, OthersTxn DEF Process
<1>4. CASE Weigh(p)
  <2>1. PICK policy \in {"allow", "deny", "require_approval"}, worth \in BOOLEAN :
          work' = [work EXCEPT ![p] = Decided(work[p].event, Judged(policy, InLast24, worth))]
    BY <1>4 DEF Weigh
  <2> DEFINE v == Judged(policy, InLast24, worth)
  <2>2. v.action \in Actions
    BY JudgedFacts
  <2>3. work' = [work EXCEPT ![p] = Decided(work[p].event, v)]
    BY <2>1
  <2> HIDE DEF v
  <2>4. work[p].event \in Events /\ pc'[p] = "save" /\ pc[p] = "weigh"
    BY <1>0, <1>4 DEF Weigh, ProcOK, Goto
  <2>5. work'[p].event = work[p].event /\ work'[p].action = v.action
    BY <1>0, <2>3 DEF Decided
  <2>6. ProcOK(p)'
    BY <2>2, <2>4, <2>5 DEF ProcOK
  <2>7. txn' = txn /\ notes' = notes /\ txn.owner # p
    BY <1>0, <1>4, <2>4 DEF Weigh, tables, TxnOK
  <2> QED BY <1>1, <1>4, <2>6, <2>7, OthersTxn DEF Process
<1>5. CASE SaveDecision(p)
  <2>1. work[p].event \in Events /\ work[p].action \in Actions
    BY <1>0, <1>5 DEF SaveDecision, ProcOK
  <2>2. /\ pc'[p] = IF work[p].action = "push" THEN "note" ELSE "close"
        /\ work' = work /\ txn' = [owner |-> p, decs |-> {DecisionOf(p)}, notes |-> <<>>]
        /\ notes' = notes
    BY <1>0, <1>5 DEF SaveDecision, Goto, tables
  <2>3. ProcOK(p)'
    BY <2>1, <2>2 DEF ProcOK
  <2>4. TxnOK'
    BY <1>0, <2>2 DEF TxnOK, DecisionOf
  <2> QED BY <1>1, <2>2, <2>3, <2>4
<1>6. CASE RecordNotification(p)
  <2>1. /\ work[p].event \in Events /\ work[p].action = "push" /\ txn.owner = p /\ "push" \in Actions
        /\ pc[p] = "note"
    BY <1>0, <1>6 DEF RecordNotification, ProcOK, Actions
  <2>2. txn \in Transaction
    BY <1>0 DEF TypeOK
  <2>3. /\ pc'[p] = "enqueue" /\ work' = work /\ notes' = notes
        /\ txn' = [txn EXCEPT !.notes = <<Note(Topic[work[p].event])>>]
    BY <1>0, <1>6 DEF RecordNotification, Goto, tables
  <2>4. txn'.owner = p /\ txn'.decs = txn.decs /\ txn'.notes = <<Note(Topic[work[p].event])>>
    BY <2>1, <2>2, <2>3 DEF Transaction
  <2>5. ProcOK(p)'
    BY <2>1, <2>3, <2>4 DEF ProcOK
  <2>6. TxnOK'
    <3>1. txn.decs = {DecisionOf(p)}
      BY <1>0, <2>1 DEF TxnOK
    <3>2. hour \in 0..hour
      BY <1>0, DeliveryAssumption DEF TypeOK, Hours
    <3>3. \E h \in 0..hour' : txn'.notes = <<[hour |-> h, topic |-> Topic[work'[p].event]]>>
      BY <1>0, <2>3, <2>4, <3>2 DEF Note
    <3> QED BY <1>0, <2>3, <2>4, <3>1, <3>3 DEF TxnOK, DecisionOf
  <2> QED BY <1>1, <2>3, <2>5, <2>6
<1>7. CASE TellSource(p)
  <2> DEFINE e == work[p].event
  <2>1. e \in Tokened /\ e \in Events /\ acks[e] # "none" /\ work[p].action \in {"push", "skip"}
        /\ work[p].action \in Actions /\ pc[p] = "tell"
    BY <1>0, <1>7, EventAssumption DEF TellSource, ProcOK, Actions
  <2>2. pc'[p] \in {"acknowledged", "failed"} /\ work' = work /\ acks' = acks /\ notes' = notes
        /\ txn' = txn
    BY <1>0, <1>7 DEF TellSource, Goto, tables
  <2>3. pc'[p] = "acknowledged" => told'[e] # "none"
    <3> SUFFICES ASSUME pc'[p] = "acknowledged" PROVE told'[e] # "none"
      OBVIOUS
    <3>1. told' = [told EXCEPT ![e] = AckStatus(work[p])]
      BY <1>0, <1>7 DEF TellSource, Goto
    <3>2. AckStatus(work[p]) # "none"
      BY <2>1 DEF AckStatus
    <3> QED BY <1>0, <2>1, <3>1, <3>2 DEF TypeOK
  <2>4. ProcOK(p)'
    BY <2>1, <2>2, <2>3 DEF ProcOK
  <2>5. txn.owner # p
    BY <1>0, <2>1 DEF TxnOK
  <2> QED BY <1>1, <1>7, <2>2, <2>4, <2>5, OthersTxn DEF Process
<1>8. CASE PersistAck(p)
  <2>1. pc'[p] = "idle" /\ notes' = notes /\ txn' = txn /\ pc[p] \in {"acknowledged", "failed"}
    BY <1>0, <1>8 DEF PersistAck, Goto
  <2>2. txn.owner # p
    BY <1>0, <2>1 DEF TxnOK
  <2> QED BY <1>1, <1>2, <1>8, <2>1, <2>2, OthersTxn DEF Process
<1>9. CASE Die(p)
  <2>1. pc'[p] = "idle" /\ notes' = notes
    BY <1>0, <1>9 DEF Die, Goto, tables
  <2>2. txn' = NoTxn \/ (txn' = txn /\ txn.owner # p)
    BY <1>9 DEF Die
  <2> QED BY <1>1, <1>2, <1>9, <2>1, <2>2, OthersTxn
<1>10. CASE Enqueue(p)
  BY <1>10, EnqueueHandled
<1>11. CASE CloseEnvelope(p)
  BY <1>11, CloseHandled
<1> QED BY <1>3, <1>4, <1>5, <1>6, <1>7, <1>8, <1>9, <1>10, <1>11 DEF Process

-----------------------------------------------------------------------------
(* The envelope.                                                           *)

\* A row more is counted where it belongs.
LEMMA RowsGrow ==
    ASSUME notes \in Seq(NoteRow), NEW n \in NoteRow, notes' = Append(notes, n), NEW H, NEW T
    PROVE  Rows(H, T)' = IF n.hour \in H /\ n.topic \in T THEN Rows(H, T) + 1 ELSE Rows(H, T)
<1> DEFINE k == Len(notes) + 1
           old == NotesOf(H, T)
<1>1. /\ DOMAIN notes' = DOMAIN notes \cup {k} /\ k \notin DOMAIN notes
      /\ \A i \in DOMAIN notes : notes'[i] = notes[i]
      /\ notes'[k] = n
  <2> HIDE DEF NoteRow
  <2> QED BY AppendFacts
<1>2. IsFiniteSet(old) /\ k \notin old
  BY <1>1, NotesFinite DEF NotesOf
<1>3. CASE n.hour \in H /\ n.topic \in T
  <2>1. NotesOf(H, T)' = old \cup {k}
    <3> HIDE DEF k
    <3> QED BY <1>1, <1>3 DEF NotesOf
  <2> HIDE DEF old, k
  <2>2. Cardinality(old \cup {k}) = Cardinality(old) + 1
    BY <1>2, FS_AddElement
  <2> QED BY <1>3, <2>1, <2>2 DEF Rows, old
<1>4. CASE ~(n.hour \in H /\ n.topic \in T)
  <2>1. NotesOf(H, T)' = old
    <3> HIDE DEF k
    <3> QED BY <1>1, <1>4 DEF NotesOf
  <2> QED BY <1>4, <2>1 DEF Rows
<1> QED BY <1>3, <1>4

LEMMA MessagesGrow ==
    ASSUME outbox \in Seq(Message), NEW row \in Message, outbox' = Append(outbox, row), NEW x
    PROVE  /\ Cardinality(MessagesOf(x))' =
                IF row.event = x THEN Cardinality(MessagesOf(x)) + 1 ELSE Cardinality(MessagesOf(x))
           /\ Cardinality(MessagesOn(x))' =
                IF Topic[row.event] = x THEN Cardinality(MessagesOn(x)) + 1
                ELSE Cardinality(MessagesOn(x))
<1> DEFINE k == Len(outbox) + 1
           of == MessagesOf(x)
           on == MessagesOn(x)
<1>1. /\ Messages' = Messages \cup {k} /\ k \notin Messages
      /\ \A i \in Messages : outbox'[i] = outbox[i]
      /\ outbox'[k] = row
  <2> HIDE DEF Message
  <2> QED BY AppendFacts DEF Messages
<1>2. IsFiniteSet(of) /\ IsFiniteSet(on) /\ k \notin of /\ k \notin on
  BY <1>1, MessagesFinite DEF MessagesOf, MessagesOn
<1>3. Cardinality(of \cup {k}) = Cardinality(of) + 1 /\ Cardinality(on \cup {k}) = Cardinality(on) + 1
  <2> HIDE DEF of, on, k
  <2> QED BY <1>2, FS_AddElement
<1>4. MessagesOf(x)' = IF row.event = x THEN of \cup {k} ELSE of
  <2> HIDE DEF k
  <2> QED BY <1>1 DEF MessagesOf
<1>5. MessagesOn(x)' = IF Topic[row.event] = x THEN on \cup {k} ELSE on
  <2> HIDE DEF k
  <2> QED BY <1>1 DEF MessagesOn
<1> HIDE DEF k
<1> QED BY <1>3, <1>4, <1>5

EnvelopeParts ==
    /\ \A e \in Events : decisions[e]["push"] = Cardinality(MessagesOf(e))
    /\ \A t \in Topics : Rows(Hours, {t}) = Cardinality(MessagesOn(t))

LEMMA EnvelopeSplit == EnvelopeWhole <=> EnvelopeParts
BY DEF EnvelopeWhole, EnvelopeParts, MessagesOf, MessagesOn

\* A commit brings the three rows together.
LEMMA EnqueueWhole ==
    ASSUME IInv, NEW p \in Procs, Enqueue(p)
    PROVE  EnvelopeWhole'
<1> DEFINE e == work[p].event
           row == NewMessage(e)
<1>0. TypeOK /\ pc[p] = "enqueue" /\ EnvelopeParts /\ "push" \in Actions
  BY EnvelopeSplit DEF IInv, Enqueue, Actions
<1>1. /\ e \in Events /\ Topic[e] \in Topics
      /\ txn.decs = {[event |-> e, action |-> "push"]}
  BY <1>0, EnvelopeFacts
<1>2. PICK h \in Hours : notes' = Append(notes, [hour |-> h, topic |-> Topic[e]])
  BY <1>0, EnvelopeFacts DEF Enqueue, CommitRows
<1> DEFINE n == [hour |-> h, topic |-> Topic[e]]
<1>3. n \in NoteRow /\ notes \in Seq(NoteRow) /\ n.hour = h /\ n.topic = Topic[e]
      /\ notes' = Append(notes, n)
  BY <1>0, <1>1, <1>2 DEF NoteRow, AllTopics, TypeOK
<1>4. row \in Message /\ outbox \in Seq(Message) /\ outbox' = Append(outbox, row) /\ row.event = e
  BY <1>0, <1>1, DeliveryAssumption
     DEF NewMessage, MessageRow, Message, Statuses, Enqueue, TypeOK
<1>5. decisions' = Recorded(txn.decs)
  BY DEF Enqueue, CommitRows
<1> HIDE DEF n, row, e, Message, NoteRow
<1>6. ASSUME NEW x \in Events PROVE decisions'[x]["push"] = Cardinality(MessagesOf(x))'
  <2>1. Recorded(txn.decs)[x]["push"] = IF [event |-> x, action |-> "push"] \in txn.decs
                                        THEN decisions[x]["push"] + 1 ELSE decisions[x]["push"]
    BY <1>0, RecordedTyped
  <2>2. [event |-> x, action |-> "push"] \in txn.decs <=> x = e
    BY <1>1
  <2>3. Cardinality(MessagesOf(x))' =
          IF e = x THEN Cardinality(MessagesOf(x)) + 1 ELSE Cardinality(MessagesOf(x))
    BY <1>4, MessagesGrow
  <2>4. decisions[x]["push"] = Cardinality(MessagesOf(x))
    BY <1>0 DEF EnvelopeParts
  <2> QED BY <1>5, <2>1, <2>2, <2>3, <2>4
<1>7. ASSUME NEW t \in Topics PROVE Rows(Hours, {t})' = Cardinality(MessagesOn(t))'
  <2>1. Rows(Hours, {t})' = IF Topic[e] = t THEN Rows(Hours, {t}) + 1 ELSE Rows(Hours, {t})
    <3>1. Rows(Hours, {t})' = IF n.hour \in Hours /\ n.topic \in {t} THEN Rows(Hours, {t}) + 1
                              ELSE Rows(Hours, {t})
      BY <1>3, RowsGrow
    <3> QED BY <1>2, <1>3, <3>1
  <2>2. Cardinality(MessagesOn(t))' =
          IF Topic[e] = t THEN Cardinality(MessagesOn(t)) + 1 ELSE Cardinality(MessagesOn(t))
    BY <1>4, MessagesGrow
  <2>3. Rows(Hours, {t}) = Cardinality(MessagesOn(t))
    BY <1>0 DEF EnvelopeParts
  <2> QED BY <2>1, <2>2, <2>3
<1>8. EnvelopeParts'
  BY <1>6, <1>7 DEF EnvelopeParts
<1> QED BY <1>8, EnvelopeSplit, PTL

\* A decision that is not to push touches neither count.
LEMMA OtherWhole ==
    ASSUME IInv, outbox' = outbox,
           \A e \in Events : decisions'[e]["push"] = decisions[e]["push"],
           notes' = notes
    PROVE  EnvelopeWhole'
<1>1. EnvelopeParts
  BY EnvelopeSplit DEF IInv
<1>2. \A x : MessagesOf(x)' = MessagesOf(x) /\ MessagesOn(x)' = MessagesOn(x)
             /\ Rows(Hours, {x})' = Rows(Hours, {x})
  BY DEF MessagesOf, MessagesOn, Messages, Rows, NotesOf
<1>3. EnvelopeParts'
  BY <1>1, <1>2 DEF EnvelopeParts
<1> QED BY <1>3, EnvelopeSplit, PTL

LEMMA ProcessWhole ==
    ASSUME IInv, NEW p \in Procs, Process(p) \/ Die(p)
    PROVE  EnvelopeWhole'
<1>0. TypeOK /\ "push" \in Actions
  BY DEF IInv, Actions
<1>1. UNCHANGED tables => EnvelopeWhole'
  BY OtherWhole DEF tables
<1>2. CASE CloseEnvelope(p)
  <2>1. outbox' = outbox /\ notes' = notes
        /\ pc[p] = "close" /\ txn.owner \in {p, None} /\ decisions' = Recorded(txn.decs)
    BY <1>2, EnvelopeFacts DEF CloseEnvelope, CommitRows
  <2>2. \A x \in Events : [event |-> x, action |-> "push"] \notin txn.decs
    <3>1. txn.decs = IF work[p].action = "push" THEN {}
                     ELSE {[event |-> work[p].event, action |-> work[p].action]}
      BY <2>1, EnvelopeFacts
    <3> QED BY <3>1
  <2>3. ASSUME NEW x \in Events PROVE decisions'[x]["push"] = decisions[x]["push"]
    <3>1. Recorded(txn.decs)[x]["push"] = IF [event |-> x, action |-> "push"] \in txn.decs
                                          THEN decisions[x]["push"] + 1 ELSE decisions[x]["push"]
      BY <1>0, RecordedTyped
    <3> QED BY <2>1, <2>2, <3>1
  <2> QED BY <2>1, <2>3, OtherWhole
<1>3. CASE Enqueue(p)
  BY <1>3, EnqueueWhole
<1>4. CASE PersistAck(p)
  BY <1>4, OtherWhole DEF PersistAck
<1>5. CASE (\E e \in Events : Evaluate(p, e)) \/ Weigh(p) \/ SaveDecision(p)
           \/ RecordNotification(p) \/ TellSource(p) \/ Die(p)
  BY <1>1, <1>5 DEF Evaluate, Weigh, SaveDecision, RecordNotification, TellSource, Die
<1> QED BY <1>2, <1>3, <1>4, <1>5 DEF Process

LEMMA DispatchWhole ==
    ASSUME IInv, DispatchStep
    PROVE  EnvelopeWhole'
<1>0. TypeOK /\ EnvelopeParts /\ NoTopic \notin Topics
  BY EnvelopeSplit, EventAssumption DEF IInv, NoTopic
<1>1. /\ decisions' = decisions /\ Messages' = Messages
      /\ \A n \in Messages : outbox'[n].event = outbox[n].event
      /\ notes' = notes \/ notes' = Append(notes, Note(NoTopic))
  BY DispatchFrame
<1>2. \A x : MessagesOf(x)' = MessagesOf(x) /\ MessagesOn(x)' = MessagesOn(x)
  BY <1>1 DEF MessagesOf, MessagesOn
<1>3. ASSUME NEW t \in Topics PROVE Rows(Hours, {t})' = Rows(Hours, {t})
  <2>1. CASE notes' = notes
    BY <2>1 DEF Rows, NotesOf
  <2>2. CASE notes' = Append(notes, Note(NoTopic))
    <3> DEFINE n == Note(NoTopic)
    <3>1. n \in NoteRow /\ notes \in Seq(NoteRow) /\ n.topic = NoTopic
      BY <1>0 DEF Note, NoteRow, TypeOK, AllTopics
    <3>2. notes' = Append(notes, n) /\ n.topic \notin {t}
      BY <1>0, <2>2, <3>1
    <3> HIDE DEF n, NoteRow
    <3> QED BY <3>1, <3>2, RowsGrow
  <2> QED BY <1>1, <2>1, <2>2
<1>4. EnvelopeParts'
  BY <1>0, <1>1, <1>2, <1>3 DEF EnvelopeParts
<1> QED BY <1>4, EnvelopeSplit, PTL

-----------------------------------------------------------------------------
(* What sources are told.                                                  *)

LEMMA ProcessTells ==
    ASSUME IInv, NEW p \in Procs, Process(p) \/ Die(p)
    PROVE  SourceToldTruth'
<1>0. TypeOK /\ SourceToldTruth /\ ProcOK(p) /\ Tokened \subseteq Events
  BY EventAssumption DEF IInv
<1>1. \A e \in Events :
         /\ Queued(e) => Queued(e)'
         /\ acks[e] # "none" => acks'[e] # "none"
         /\ told[e] # "none" => told'[e] # "none"
         /\ decisions[e]["skip"] > 0 => decisions'[e]["skip"] > 0
  BY ProcessFrame
<1> SUFFICES ASSUME NEW e \in Tokened
             PROVE  /\ told'[e] = "queued" => Queued(e)'
                    /\ told'[e] \in {"skipped", "expired"} => decisions'[e]["skip"] > 0
                    /\ acks'[e] = "acknowledged" => told'[e] # "none"
                    /\ told'[e] # "none" => acks'[e] # "none"
  BY DEF SourceToldTruth, Queued
<1>2. /\ told[e] = "queued" => Queued(e)
      /\ told[e] \in {"skipped", "expired"} => decisions[e]["skip"] > 0
      /\ acks[e] = "acknowledged" => told[e] # "none"
      /\ told[e] # "none" => acks[e] # "none"
      /\ e \in Events
  BY <1>0 DEF SourceToldTruth, Queued
<1>3. CASE TellSource(p)
  <2>1. acks' = acks
    BY <1>3 DEF TellSource, tables
  <2>2. CASE told' = told
    BY <1>1, <1>2, <2>1, <2>2
  <2>3. CASE told' = [told EXCEPT ![work[p].event] = AckStatus(work[p])]
    <3> DEFINE w == work[p]
    <3>1. /\ w.event \in Tokened /\ acks[w.event] # "none"
          /\ w.action \in {"push", "skip"}
          /\ w.action = "push" => Queued(w.event)
          /\ w.action = "skip" => decisions[w.event]["skip"] > 0
      BY <1>0, <1>3 DEF TellSource, ProcOK
    <3>2. /\ AckStatus(w) = "queued" => w.action = "push"
          /\ AckStatus(w) \in {"skipped", "expired"} => w.action = "skip"
      BY <3>1 DEF AckStatus
    <3>3. told'[e] = IF e = w.event THEN AckStatus(w) ELSE told[e]
      BY <1>0, <1>2, <2>3 DEF TypeOK
    <3> HIDE DEF w
    <3>4. CASE e = w.event
      BY <1>1, <1>2, <2>1, <3>1, <3>2, <3>3, <3>4
    <3>5. CASE e # w.event
      BY <1>1, <1>2, <2>1, <3>3, <3>5
    <3> QED BY <3>4, <3>5
  <2> QED BY <1>3, <2>2, <2>3 DEF TellSource
<1>4. ASSUME told' = told, acks'[e] = "acknowledged" => acks[e] = "acknowledged" \/ told[e] # "none"
      PROVE  /\ told'[e] = "queued" => Queued(e)'
             /\ told'[e] \in {"skipped", "expired"} => decisions'[e]["skip"] > 0
             /\ acks'[e] = "acknowledged" => told'[e] # "none"
             /\ told'[e] # "none" => acks'[e] # "none"
  BY <1>1, <1>2, <1>4
<1>5. CASE PersistAck(p)
  <2>1. acks'[e] = "acknowledged" => acks[e] = "acknowledged" \/ told[e] # "none"
    <3>1. pc[p] = "acknowledged" => told[work[p].event] # "none"
      BY <1>0 DEF ProcOK
    <3> QED BY <1>0, <1>2, <1>5, <3>1 DEF PersistAck, TypeOK
  <2> QED BY <1>4, <1>5, <2>1 DEF PersistAck
<1>6. CASE CloseEnvelope(p)
  <2>1. acks'[e] = "acknowledged" => acks[e] = "acknowledged"
    BY <1>0, <1>2, <1>6 DEF CloseEnvelope, TypeOK
  <2> QED BY <1>4, <1>6, <2>1 DEF CloseEnvelope
<1>7. CASE (\E x \in Events : Evaluate(p, x)) \/ Weigh(p) \/ SaveDecision(p)
           \/ RecordNotification(p) \/ Enqueue(p) \/ Die(p)
  <2>1. told' = told /\ acks' = acks
    BY <1>7 DEF Evaluate, Weigh, SaveDecision, RecordNotification, Enqueue, Die, tables
  <2> QED BY <1>4, <2>1
<1> QED BY <1>3, <1>5, <1>6, <1>7 DEF Process

LEMMA DispatchTells ==
    ASSUME IInv, DispatchStep
    PROVE  SourceToldTruth' /\ Handled'
<1>0. SourceToldTruth /\ (\A p \in Procs : ProcOK(p)) /\ TxnOK /\ NotesPast /\ TypeOK
  BY DEF IInv
<1>1. /\ UNCHANGED <<hour, decisions, acks, txn, pc, work, told>> /\ Messages' = Messages
      /\ \A n \in Messages : outbox'[n].event = outbox[n].event
      /\ notes' = notes \/ notes' = Append(notes, Note(NoTopic))
  BY DispatchFrame DEF procVars
<1>2. \A e : Queued(e)' <=> Queued(e)
  BY <1>1 DEF Queued
<1>3. SourceToldTruth'
  BY <1>0, <1>1 DEF SourceToldTruth
<1>4. ASSUME NEW p \in Procs PROVE ProcOK(p)'
  <2>1. ProcOK(p) /\ (Queued(work[p].event)' <=> Queued(work[p].event))
    BY <1>0, <1>1 DEF Queued
  <2> QED BY <1>1, <2>1 DEF ProcOK
<1>5. TxnOK'
  BY <1>0, <1>1 DEF TxnOK, DecisionOf
<1>6. NotesPast'
  <2>1. CASE notes' = notes
    BY <1>0, <1>1, <2>1 DEF NotesPast
  <2>2. CASE notes' = Append(notes, Note(NoTopic))
    <3> DEFINE n == Note(NoTopic)
    <3>1. n \in NoteRow /\ notes \in Seq(NoteRow) /\ n.hour = hour /\ notes' = Append(notes, n)
          /\ hour <= hour
      BY <1>0, <2>2, DeliveryAssumption DEF Note, NoteRow, TypeOK, AllTopics, Hours
    <3> HIDE DEF n, NoteRow
    <3>2. \A i \in DOMAIN notes' : \/ i \in DOMAIN notes /\ notes'[i] = notes[i]
                                   \/ notes'[i] = n
      BY <3>1, AppendFacts
    <3> QED BY <1>0, <1>1, <3>1, <3>2 DEF NotesPast
  <2> QED BY <1>1, <2>1, <2>2
<1> QED BY <1>3, <1>4, <1>5, <1>6 DEF Handled

-----------------------------------------------------------------------------
(* Copies: rows on a topic and processes on the way to one.                *)

LEMMA SharersFinite ==
    ASSUME NEW h, NEW t
    PROVE  /\ IsFiniteSet(Sharers(h, t)) /\ Cardinality(Sharers(h, t)) \in Nat
           /\ Cardinality(Sharers(h, t)) <= Cardinality(Procs) /\ Cardinality(Procs) \in Nat
<1>1. Sharers(h, t) \subseteq Procs
  BY DEF Sharers
<1> QED BY <1>1, EventAssumption, FS_Subset, FS_CardinalityType

\* Fewer on the way and no new row.
LEMMA SharedShrinks ==
    ASSUME IInv,
           \A h \in Hours, t \in Topics : Rows({h}, {t})' = Rows({h}, {t}),
           \A h \in Hours, t \in Topics : Sharers(h, t)' \subseteq Sharers(h, t)
    PROVE  Shared'
<1> SUFFICES ASSUME NEW h \in Hours, NEW t \in Topics
             PROVE  Rows({h}, {t})' + Cardinality(Sharers(h, t))' <= Cardinality(Procs)
  BY DEF Shared
<1> DEFINE r == Rows({h}, {t})
           s == Cardinality(Sharers(h, t))
           k == Cardinality(Sharers(h, t)')
           n == Cardinality(Procs)
<1>1. r \in Nat
  BY NotesFinite DEF IInv, TypeOK
<1>2. s \in Nat /\ n \in Nat /\ IsFiniteSet(Sharers(h, t))
  BY SharersFinite
<1>3. k \in Nat /\ k <= s
  <2>1. IsFiniteSet(Sharers(h, t)') /\ Cardinality(Sharers(h, t)') <= Cardinality(Sharers(h, t))
    BY <1>2, FS_Subset
  <2> QED BY <2>1, FS_CardinalityType
<1>4. r + s <= n
  BY DEF IInv, Shared
<1>5. r' = r
  OBVIOUS
<1> HIDE DEF r, s, k, n
<1>6. r + k <= n
  BY <1>1, <1>2, <1>3, <1>4
<1> QED BY <1>5, <1>6 DEF r, k, n

(* A process that may still send an event found no row on its topic in     *)
(* this hour, so it is one of the processes that share none.               *)
LEMMA EvaluateShares ==
    ASSUME IInv, NEW p \in Procs, NEW e \in Events, Evaluate(p, e)
    PROVE  Shared'
<1>0. TypeOK /\ NotesPast /\ notes \in Seq(NoteRow) /\ hour \in Nat
      /\ pc \in [Procs -> Places] /\ work \in [Procs -> Work]
  <2>1. TypeOK /\ NotesPast
    BY DEF IInv
  <2>2. hour \in Nat
    BY <2>1, DeliveryAssumption DEF TypeOK, Hours
  <2>3. notes \in Seq(NoteRow) /\ pc \in [Procs -> Places] /\ work \in [Procs -> Work]
    <3> HIDE DEF NoteRow, Places, Work
    <3> QED BY <2>1 DEF TypeOK
  <2> QED BY <2>1, <2>2, <2>3
<1>1. UNCHANGED <<hour, notes, txn>>
  BY DEF Evaluate, tables
<1>2. \A h \in Hours, t \in Topics : Rows({h}, {t})' = Rows({h}, {t})
  BY <1>1 DEF Rows, NotesOf
<1>3. PICK expired \in BOOLEAN, quiet \in BOOLEAN :
        LET v == Eligibility(Priority[e], expired, quiet, Duplicate(e),
                             QuotaHit(Priority[e], InHour, InDay))
        IN  /\ work' = [work EXCEPT ![p] = Decided(e, v)]
            /\ Goto(p, IF v.action = "ask" THEN "weigh" ELSE "save")
  BY DEF Evaluate
<1> DEFINE v == Eligibility(Priority[e], expired, quiet, Duplicate(e),
                            QuotaHit(Priority[e], InHour, InDay))
<1>4. Duplicate(e) \in BOOLEAN /\ QuotaHit(Priority[e], InHour, InDay) \in BOOLEAN
      /\ Priority[e] \in Priorities
  BY EventAssumption DEF Duplicate, QuotaHit
<1>5. v.action \in {"ask", "push"} => ~Duplicate(e)
  BY <1>4, EligibilityFacts
<1>6. work' = [work EXCEPT ![p] = Decided(e, v)]
      /\ pc' = [pc EXCEPT ![p] = IF v.action = "ask" THEN "weigh" ELSE "save"]
  BY <1>3 DEF Goto
<1>7. pc'[p] \in {"weigh", "save"} /\ (pc'[p] = "weigh" <=> v.action = "ask")
      /\ work'[p].event = e /\ work'[p].action = v.action
  <2> HIDE DEF v
  <2> QED BY <1>0, <1>6 DEF Decided
<1>8. \A q \in Procs \ {p} : pc'[q] = pc[q] /\ work'[q] = work[q]
  BY ProcessFrame DEF Process
<1> HIDE DEF v
<1>9. ASSUME NEW h \in Hours, NEW t \in Topics
      PROVE  \/ Sharers(h, t)' \subseteq Sharers(h, t)
             \/ h = hour /\ t = Topic[e] /\ ~Duplicate(e)
  <2>1. Sharers(h, t)' \ {p} \subseteq Sharers(h, t)
    BY <1>1, <1>8 DEF Sharers
  <2>2. p \in Sharers(h, t)' => h = hour /\ t = Topic[e] /\ v.action \in {"ask", "push"}
    BY <1>1, <1>7 DEF Sharers
  <2> QED BY <1>5, <2>1, <2>2
<1>10. ~Duplicate(e) => Rows({hour}, {Topic[e]}) = 0
  <2> SUFFICES ASSUME ~Duplicate(e) PROVE Rows({hour}, {Topic[e]}) = 0
    OBVIOUS
  <2> DEFINE H == {h \in 0..hour : hour - h < DedupHours}
  <2>1. hour \in H
    BY <1>0, DeliveryAssumption
  <2>2. {hour} \subseteq H
    BY <2>1
  <2> HIDE DEF H
  <2>3. NotesOf({hour}, {Topic[e]}) \subseteq NotesOf(H, {Topic[e]})
    BY <2>2 DEF NotesOf
  <2>4. IsFiniteSet(NotesOf(H, {Topic[e]})) /\ Rows(H, {Topic[e]}) \in Nat
    BY <1>0, NotesFinite
  <2>5. ~(Rows(H, {Topic[e]}) > 0)
    BY DEF Duplicate, H
  <2>6. Cardinality(NotesOf(H, {Topic[e]})) = 0
    BY <2>4, <2>5 DEF Rows
  <2>7. NotesOf(H, {Topic[e]}) = {}
    BY <2>4, <2>6, FS_EmptySet
  <2>8. NotesOf({hour}, {Topic[e]}) = {}
    BY <2>3, <2>7
  <2> QED BY <2>8, FS_EmptySet DEF Rows
<1> SUFFICES ASSUME NEW h \in Hours, NEW t \in Topics
             PROVE  Rows({h}, {t})' + Cardinality(Sharers(h, t))' <= Cardinality(Procs)
  BY DEF Shared
<1>11. CASE Sharers(h, t)' \subseteq Sharers(h, t)
  <2> DEFINE r == Rows({h}, {t})
             s == Cardinality(Sharers(h, t))
             k == Cardinality(Sharers(h, t)')
             n == Cardinality(Procs)
  <2>1. r \in Nat /\ s \in Nat /\ n \in Nat /\ IsFiniteSet(Sharers(h, t)) /\ r + s <= n
    BY <1>0, NotesFinite, SharersFinite DEF IInv, Shared
  <2>2. k \in Nat /\ k <= s
    <3>1. IsFiniteSet(Sharers(h, t)') /\ Cardinality(Sharers(h, t)') <= Cardinality(Sharers(h, t))
      BY <1>11, <2>1, FS_Subset
    <3> QED BY <3>1, FS_CardinalityType
  <2>3. r' = r
    BY <1>2
  <2> HIDE DEF r, s, k, n
  <2>4. r + k <= n
    BY <2>1, <2>2
  <2> QED BY <2>3, <2>4 DEF r, k, n
<1>12. CASE h = hour /\ t = Topic[e] /\ ~Duplicate(e)
  <2>1. Rows({h}, {t})' = 0
    BY <1>2, <1>10, <1>12
  <2>2. Sharers(h, t)' \subseteq Procs
    BY DEF Sharers
  <2>3. Cardinality(Sharers(h, t)') \in Nat /\ Cardinality(Sharers(h, t)') <= Cardinality(Procs)
        /\ Cardinality(Procs) \in Nat
    BY <2>2, EventAssumption, FS_Subset, FS_CardinalityType
  <2> QED BY <2>1, <2>3
<1> QED BY <1>9, <1>11, <1>12

\* A message in the tables is one row more, and its process is done.
LEMMA EnqueueShares ==
    ASSUME IInv, NEW p \in Procs, Enqueue(p)
    PROVE  Shared'
<1> DEFINE e == work[p].event
<1>0. TypeOK /\ pc[p] = "enqueue" /\ work' = work /\ hour' = hour
      /\ pc'[p] = "close" /\ \A q \in Procs \ {p} : pc'[q] = pc[q]
  BY DEF IInv, Enqueue, Goto, TypeOK
<1>1. PICK g \in Hours : /\ txn.notes = <<[hour |-> g, topic |-> Topic[e]]>>
                         /\ notes' = Append(notes, [hour |-> g, topic |-> Topic[e]])
  BY <1>0, EnvelopeFacts DEF Enqueue, CommitRows
<1>2. Topic[e] \in Topics /\ txn.owner = p /\ txn.notes[1].hour = g
  <2>1. Topic[e] \in Topics /\ txn.owner = p
    BY <1>0, EnvelopeFacts
  <2>2. txn.notes[1] = [hour |-> g, topic |-> Topic[e]]
    BY <1>1
  <2> QED BY <2>1, <2>2
<1> DEFINE n == [hour |-> g, topic |-> Topic[e]]
<1>3. n \in NoteRow /\ notes \in Seq(NoteRow) /\ n.hour = g /\ n.topic = Topic[e]
      /\ notes' = Append(notes, n)
  BY <1>0, <1>1, <1>2 DEF NoteRow, AllTopics, TypeOK
<1>4. \A q \in Procs : pc[q] = "enqueue" => q = p
  BY <1>2 DEF IInv, ProcOK
<1>5. \A h, t : Sharers(h, t)' = Sharers(h, t) \ {p}
  BY <1>0, <1>4 DEF Sharers
<1>6. \A h, t : p \in Sharers(h, t) <=> h = g /\ t = Topic[e]
  BY <1>0, <1>2 DEF Sharers
<1> HIDE DEF n, NoteRow
<1> SUFFICES ASSUME NEW h \in Hours, NEW t \in Topics
             PROVE  Rows({h}, {t})' + Cardinality(Sharers(h, t))' <= Cardinality(Procs)
  BY DEF Shared
<1> DEFINE r == Rows({h}, {t})
           S == Sharers(h, t)
           m == Cardinality(Procs)
<1>7. r \in Nat /\ Cardinality(S) \in Nat /\ IsFiniteSet(S) /\ m \in Nat
      /\ r + Cardinality(S) <= m
  BY <1>0, <1>3, NotesFinite, SharersFinite DEF IInv, Shared
<1>8. r' = IF g \in {h} /\ Topic[e] \in {t} THEN r + 1 ELSE r
  BY <1>3, RowsGrow
<1>9. S' = S \ {p}
  BY <1>5
<1>10. CASE p \in S
  <2>1. r' = r + 1
    BY <1>6, <1>8, <1>10
  <2>2. Cardinality(S') = Cardinality(S) - 1
    <3> HIDE DEF S
    <3> QED BY <1>7, <1>9, <1>10, FS_RemoveElement
  <2> HIDE DEF r, S, m
  <2>3. (r + 1) + (Cardinality(S) - 1) <= m
    BY <1>7
  <2>4. r' + Cardinality(S') <= m
    BY <2>1, <2>2, <2>3
  <2> QED BY <2>4 DEF r, S, m
<1>11. CASE p \notin S
  <2>1. r' = r /\ S' = S
    BY <1>6, <1>8, <1>9, <1>11
  <2>2. r' + Cardinality(S') <= m
    <3> HIDE DEF r, S, m
    <3> QED BY <1>7, <2>1
  <2> QED BY <2>2
<1> QED BY <1>10, <1>11

LEMMA ProcessShares ==
    ASSUME IInv, NEW p \in Procs, Process(p) \/ Die(p)
    PROVE  Shared'
<1>0. TypeOK /\ ProcOK(p) /\ TxnOK /\ pc \in [Procs -> Places] /\ work \in [Procs -> Work]
      /\ hour' = hour
  BY ProcessFrame DEF IInv, TypeOK
<1>1. \A q \in Procs \ {p} : pc'[q] = pc[q] /\ work'[q] = work[q]
  BY ProcessFrame
<1>2. \A q \in Procs \ {p} : pc[q] = "enqueue" => txn' = txn
  <2> SUFFICES ASSUME NEW q \in Procs \ {p}, pc[q] = "enqueue" PROVE txn' = txn
    OBVIOUS
  <2>1. txn.owner = q /\ q # None
    BY EventAssumption DEF IInv, ProcOK
  <2> QED BY <2>1, ProcessFrame
<1>3. ASSUME notes' = notes, \A h \in Hours, t \in Topics : p \in Sharers(h, t)' => p \in Sharers(h, t)
      PROVE  Shared'
  <2>1. \A h \in Hours, t \in Topics : Rows({h}, {t})' = Rows({h}, {t})
    BY <1>3 DEF Rows, NotesOf
  <2>2. ASSUME NEW h \in Hours, NEW t \in Topics, NEW q \in Sharers(h, t)' PROVE q \in Sharers(h, t)
    <3>1. CASE q = p
      BY <1>3, <2>2, <3>1
    <3>2. CASE q # p
      BY <1>0, <1>1, <1>2, <2>2, <3>2 DEF Sharers
    <3> QED BY <3>1, <3>2
  <2> QED BY <2>1, <2>2, SharedShrinks
<1>4. pc'[p] \notin {"weigh", "save", "note", "enqueue"} => \A h, t : p \notin Sharers(h, t)'
  BY DEF Sharers
<1>5. CASE \E e \in Events : Evaluate(p, e)
  BY <1>5, EvaluateShares
<1>6. CASE Enqueue(p)
  BY <1>6, EnqueueShares
<1>7. CASE Weigh(p)
  <2>1. pc[p] = "weigh" /\ pc'[p] = "save" /\ notes' = notes
    BY <1>0, <1>7 DEF Weigh, Goto, tables
  <2>2. work'[p].event = work[p].event
    BY <1>0, <1>7 DEF Weigh, Decided
  <2> QED BY <1>0, <1>3, <2>1, <2>2 DEF Sharers
<1>8. CASE SaveDecision(p)
  <2>1. /\ pc[p] = "save" /\ notes' = notes /\ work' = work
        /\ pc'[p] = IF work[p].action = "push" THEN "note" ELSE "close"
    BY <1>0, <1>8 DEF SaveDecision, Goto, tables
  <2> QED BY <1>0, <1>3, <2>1 DEF Sharers
<1>9. CASE RecordNotification(p)
  <2>1. pc[p] = "note" /\ pc'[p] = "enqueue" /\ notes' = notes /\ work' = work
    BY <1>0, <1>9 DEF RecordNotification, Goto, tables
  <2>2. txn'.notes[1].hour = hour
    <3>1. txn \in Transaction /\ txn' = [txn EXCEPT !.notes = <<Note(Topic[work[p].event])>>]
      BY <1>0, <1>9 DEF RecordNotification, TypeOK
    <3>2. txn'.notes = <<Note(Topic[work[p].event])>>
      BY <3>1 DEF Transaction
    <3> QED BY <3>2 DEF Note
  <2> QED BY <1>0, <1>3, <2>1, <2>2 DEF Sharers
<1>10. CASE CloseEnvelope(p)
  <2>1. pc'[p] \in {"tell", "idle"}
    BY <1>0, <1>10 DEF CloseEnvelope, Goto
  <2>2. notes' = notes
    BY <1>10, EnvelopeFacts DEF CloseEnvelope, CommitRows
  <2> QED BY <1>3, <1>4, <2>1, <2>2
<1>11. CASE TellSource(p)
  <2>1. pc'[p] \in {"acknowledged", "failed"} /\ notes' = notes
    BY <1>0, <1>11 DEF TellSource, Goto, tables
  <2> QED BY <1>3, <1>4, <2>1
<1>12. CASE PersistAck(p)
  <2>1. pc'[p] = "idle" /\ notes' = notes
    BY <1>0, <1>12 DEF PersistAck, Goto
  <2> QED BY <1>3, <1>4, <2>1
<1>13. CASE Die(p)
  <2>1. pc'[p] = "idle" /\ notes' = notes
    BY <1>0, <1>13 DEF Die, Goto, tables
  <2> QED BY <1>3, <1>4, <2>1
<1> QED BY <1>5, <1>6, <1>7, <1>8, <1>9, <1>10, <1>11, <1>12, <1>13 DEF Process

LEMMA DispatchShares ==
    ASSUME IInv, DispatchStep
    PROVE  Shared'
<1>0. TypeOK /\ NoTopic \notin Topics
  BY EventAssumption DEF IInv, NoTopic
<1>1. /\ UNCHANGED <<hour, txn, pc, work>>
      /\ notes' = notes \/ notes' = Append(notes, Note(NoTopic))
  BY DispatchFrame DEF procVars
<1>2. ASSUME NEW h \in Hours, NEW t \in Topics PROVE Rows({h}, {t})' = Rows({h}, {t})
  <2>1. CASE notes' = notes
    BY <2>1 DEF Rows, NotesOf
  <2>2. CASE notes' = Append(notes, Note(NoTopic))
    <3> DEFINE n == Note(NoTopic)
    <3>1. n \in NoteRow /\ notes \in Seq(NoteRow) /\ n.topic = NoTopic
      BY <1>0 DEF Note, NoteRow, TypeOK, AllTopics
    <3>2. notes' = Append(notes, n) /\ n.topic \notin {t}
      BY <1>0, <2>2, <3>1
    <3> HIDE DEF n, NoteRow
    <3> QED BY <3>1, <3>2, RowsGrow
  <2> QED BY <1>1, <2>1, <2>2
<1>3. \A h \in Hours, t \in Topics : Sharers(h, t)' \subseteq Sharers(h, t)
  BY <1>1 DEF Sharers
<1> QED BY <1>2, <1>3, SharedShrinks

-----------------------------------------------------------------------------
(* The clock.  No row has the hour that begins.                            *)
LEMMA TickInvariant ==
    ASSUME IInv, Tick
    PROVE  IInv'
<1>0. /\ TypeOK /\ (\A p \in Procs : ProcOK(p)) /\ TxnOK /\ NotesPast
      /\ EnvelopeWhole /\ SourceToldTruth /\ Shared /\ BatchOK
      /\ \A m \in Messages : CallsOK(m) /\ ArrivalsOK(m)
  BY DEF IInv
<1>1. UNCHANGED <<decisions, notes, outbox, acks, txn, pc, work, emits, told, taken, flight,
                  calls, arrived, retried, clicks, crashes>>
  BY DEF Tick, tables, procVars, history
<1>2. hour \in Nat /\ hour < MaxHour /\ hour' = hour + 1 /\ hour' \in Hours /\ MaxHour \in Nat
  BY <1>0, DeliveryAssumption DEF Tick, TypeOK, Hours
<1>3. TypeOK'
  BY <1>0, <1>1, <1>2 DEF TypeOK, Messages
<1>4. \A p \in Procs : ProcOK(p)'
  BY <1>0, <1>1 DEF ProcOK, Queued, Messages
<1>5. TxnOK'
  <2>1. 0..hour \subseteq 0..hour'
    BY <1>2
  <2> QED BY <1>0, <1>1, <2>1 DEF TxnOK, DecisionOf
<1>6. NotesPast'
  <2>1. \A i \in DOMAIN notes : notes[i].hour \in Nat /\ notes[i].hour <= hour
    <3>1. \A i \in DOMAIN notes : notes[i] \in NoteRow
      BY <1>0, NoteRows DEF TypeOK
    <3> QED BY <1>0, <1>2, <3>1 DEF NoteRow, NotesPast, Hours
  <2> QED BY <1>1, <1>2, <2>1 DEF NotesPast
<1>7. EnvelopeWhole' /\ SourceToldTruth'
  <2>1. EnvelopeWhole'
    BY <1>0, <1>1 DEF EnvelopeWhole, Messages, Rows, NotesOf
  <2>2. SourceToldTruth'
    BY <1>0, <1>1 DEF SourceToldTruth, Messages
  <2> QED BY <2>1, <2>2
<1>8. Shared'
  <2> SUFFICES ASSUME NEW h \in Hours, NEW t \in Topics
               PROVE  Rows({h}, {t})' + Cardinality(Sharers(h, t))' <= Cardinality(Procs)
    BY DEF Shared
  <2> DEFINE r == Rows({h}, {t})
             s == Cardinality(Sharers(h, t))
             k == Cardinality(Sharers(h, t)')
             n == Cardinality(Procs)
  <2>0. r' = r
    BY <1>1 DEF Rows, NotesOf
  <2>1. r' = r /\ r \in Nat /\ s \in Nat /\ n \in Nat /\ IsFiniteSet(Sharers(h, t)) /\ r + s <= n
    BY <1>0, <2>0, NotesFinite, SharersFinite DEF TypeOK, Shared
  <2>2. Sharers(h, t)' \subseteq Procs
    BY DEF Sharers
  <2>3. k \in Nat /\ k <= n
    BY <2>2, EventAssumption, FS_Subset, FS_CardinalityType
  <2>4. CASE h = hour'
    <3>1. NotesOf({h}, {t}) = {}
      BY <1>0, <1>2, <2>4 DEF NotesOf, NotesPast
    <3>2. r = 0
      BY <3>1, FS_EmptySet DEF Rows
    <3> HIDE DEF r, k, n
    <3>3. r' + k <= n
      BY <2>1, <2>3, <3>2
    <3> QED BY <3>3 DEF r, k, n
  <2>5. CASE h # hour'
    <3>1. Sharers(h, t)' \subseteq Sharers(h, t)
      BY <1>1, <2>5 DEF Sharers
    <3>2. k <= s
      BY <2>1, <3>1, FS_Subset
    <3> HIDE DEF r, s, k, n
    <3>3. r' + k <= n
      BY <2>1, <2>3, <3>2
    <3> QED BY <3>3 DEF r, k, n
  <2> QED BY <2>4, <2>5
<1>9. BatchOK'
  BY <1>0, <1>1 DEF BatchOK
<1>10. \A m \in Messages' : CallsOK(m)' /\ ArrivalsOK(m)'
  BY <1>0, <1>1 DEF CallsOK, ArrivalsOK, Covered, Granted, InHand, Messages
<1> QED BY <1>3, <1>4, <1>5, <1>6, <1>7, <1>8, <1>9, <1>10 DEF IInv

-----------------------------------------------------------------------------
(* A message that is new has made no call.                                 *)
LEMMA ProcessDelivers ==
    ASSUME IInv, NEW p \in Procs, Process(p) \/ Die(p)
    PROVE  Delivered'
<1>0. TypeOK /\ BatchOK /\ \A m \in Messages : CallsOK(m) /\ ArrivalsOK(m)
  BY DEF IInv
<1>1. UNCHANGED <<taken, flight>>
  BY DEF Process, Evaluate, Weigh, SaveDecision, RecordNotification, Enqueue, CloseEnvelope,
         TellSource, PersistAck, Die
<1>2. BatchOK'
  BY <1>0, <1>1 DEF BatchOK
<1>3. ASSUME UNCHANGED <<outbox, calls, arrived, retried>> PROVE Delivered'
  BY <1>0, <1>1, <1>2, <1>3 DEF Delivered, CallsOK, ArrivalsOK, Covered, Granted, InHand, Messages
<1>4. CASE Enqueue(p)
  <2> DEFINE row == NewMessage(work[p].event)
  <2>0. PICK k : k = Len(outbox) + 1
    OBVIOUS
  <2>1. /\ row \in Message /\ outbox \in Seq(Message) /\ outbox' = Append(outbox, row)
        /\ row.status = "pending" /\ row.attempts = 0
    <3>1. work[p].event \in Events
      BY <1>4 DEF IInv, ProcOK, Enqueue
    <3> QED BY <1>0, <1>4, <3>1, DeliveryAssumption
            DEF NewMessage, MessageRow, Message, Statuses, Enqueue, TypeOK
  <2> HIDE DEF row
  <2>2. /\ Messages' = Messages \cup {k} /\ k \notin Messages
        /\ \A i \in Messages : outbox'[i] = outbox[i]
        /\ outbox'[k] = row
    <3> HIDE DEF Message
    <3> QED BY <2>0, <2>1, AppendFacts DEF Messages
  <2>3. Messages = 1..Len(outbox) /\ Len(outbox) \in Nat
    BY <2>1, OutboxRows
  <2>4. \A f \in {calls, arrived, retried} :
           Append(f, 0)[k] = 0 /\ \A i \in Messages : Append(f, 0)[i] = f[i]
    <3> SUFFICES ASSUME NEW f \in {calls, arrived, retried}
                 PROVE  Append(f, 0)[k] = 0 /\ \A i \in Messages : Append(f, 0)[i] = f[i]
      OBVIOUS
    <3>1. f \in [Messages -> Nat]
      BY <1>0 DEF TypeOK
    <3> QED BY <2>0, <2>3, <3>1, CountAppended
  <2>5. calls' = Append(calls, 0) /\ arrived' = Append(arrived, 0) /\ retried' = Append(retried, 0)
    BY <1>4 DEF Enqueue
  <2>6. \A i \in Messages : calls'[i] = calls[i] /\ arrived'[i] = arrived[i] /\ retried'[i] = retried[i]
    BY <2>4, <2>5
  <2>7. calls'[k] = 0 /\ arrived'[k] = 0 /\ retried'[k] = 0
    BY <2>4, <2>5
  <2>8. flight.msg # k /\ \A t \in taken : t.msg # k
    <3>1. flight.msg \in Messages \cup {0} /\ k # 0
      BY <1>0, <2>0, <2>3 DEF TypeOK
    <3>2. \A t \in taken : t.msg \in Messages
      BY <1>0 DEF TypeOK
    <3> QED BY <2>2, <3>1, <3>2
  <2>9. ASSUME NEW m \in Messages PROVE CallsOK(m)' /\ ArrivalsOK(m)'
    BY <1>0, <1>1, <2>2, <2>6, <2>9 DEF CallsOK, ArrivalsOK, Covered, Granted, InHand
  <2>10. CallsOK(k)' /\ ArrivalsOK(k)'
    <3>1. Granted(k)' = 0 /\ ~InHand(k)' /\ flight'.msg # k /\ \A t \in taken' : t.msg # k
      <4>1. 0 * (MaxRetries + 1) = 0
        BY DeliveryAssumption
      <4> QED BY <1>1, <2>7, <2>8, <4>1 DEF Granted, InHand
    <3>2. outbox'[k].status = "pending" /\ outbox'[k].attempts = 0 /\ 0 < MaxRetries
      BY <2>1, <2>2, DeliveryAssumption
    <3>3. Covered(k, outbox[k].attempts)'
      BY <2>7, <3>1, <3>2 DEF Covered
    <3>4. CallsOK(k)'
      BY <3>1, <3>2, <3>3 DEF CallsOK
    <3>5. ArrivalsOK(k)'
      BY <2>7, <3>1, <3>2 DEF ArrivalsOK
    <3> QED BY <3>4, <3>5
  <2> QED BY <1>2, <2>2, <2>9, <2>10 DEF Delivered
<1>5. CASE ~Enqueue(p)
  <2>1. UNCHANGED <<outbox, calls, arrived, retried>>
    BY <1>5 DEF Process, Evaluate, Weigh, SaveDecision, RecordNotification, CloseEnvelope,
                TellSource, PersistAck, Die, tables, history
  <2> QED BY <1>3, <2>1
<1> QED BY <1>4, <1>5

-----------------------------------------------------------------------------
(* The theorems.                                                           *)

LEMMA InitInvariant == Init => IInv
<1> SUFFICES ASSUME Init PROVE IInv
  OBVIOUS
<1>0. /\ Messages = {} /\ outbox = <<>> /\ notes = <<>> /\ DOMAIN notes = {}
      /\ 0 \in Hours /\ 0 \in Nat /\ 0 \in 0..MaxRetries
  BY DeliveryAssumption DEF Init, Messages, Hours
<1>1. TypeOK
  <2>1. work \in [Procs -> Work] /\ txn \in Transaction /\ notes \in Seq(NoteRow)
        /\ pc \in [Procs -> Places]
    BY LiteralsTyped DEF Init
  <2>2. outbox \in Seq(Message)
    <3> HIDE DEF Message
    <3> QED BY <1>0
  <2>3. {calls, arrived, retried} \subseteq [Messages -> Nat]
    <3>1. calls = <<>> /\ arrived = <<>> /\ retried = <<>> /\ DOMAIN <<>> = {}
      BY DEF Init
    <3>2. <<>> \in [{} -> Nat]
      OBVIOUS
    <3> QED BY <1>0, <3>1, <3>2
  <2>4. flight \in [msg : Messages \cup {0}, attempt : 0..MaxRetries, result : Results]
    BY FlightTyped DEF Init
  <2>5. /\ decisions \in [Events -> [Actions -> Nat]] /\ emits \in [Events -> Nat]
        /\ acks \in [Events -> {"none", "pending", "acknowledged", "failed"}]
        /\ told \in [Events -> {"none", "queued", "skipped", "expired"}]
    BY DEF Init
  <2> QED BY <1>0, <2>1, <2>2, <2>3, <2>4, <2>5 DEF TypeOK, Init
<1>2. \A p \in Procs : ProcOK(p)
  BY DEF Init, ProcOK
<1>3. TxnOK /\ NotesPast
  BY <1>0 DEF Init, TxnOK, NoTxn, NotesPast
<1>4. \A H, T : Rows(H, T) = 0
  <2>1. \A H, T : NotesOf(H, T) = {}
    BY <1>0 DEF NotesOf
  <2> QED BY <2>1, FS_EmptySet DEF Rows
<1>5. EnvelopeParts
  <2>1. \A x : Cardinality(MessagesOf(x)) = 0 /\ Cardinality(MessagesOn(x)) = 0
    <3>1. \A x : MessagesOf(x) = {} /\ MessagesOn(x) = {}
      BY <1>0 DEF MessagesOf, MessagesOn
    <3> QED BY <3>1, FS_EmptySet
  <2>2. \A e \in Events : decisions[e]["push"] = 0
    BY DEF Init, Actions
  <2> QED BY <1>4, <2>1, <2>2 DEF EnvelopeParts
<1>6. SourceToldTruth
  <2>1. \A e \in Tokened : told[e] = "none" /\ acks[e] = "none"
    BY EventAssumption DEF Init
  <2> QED BY <2>1 DEF SourceToldTruth
<1>7. Shared
  <2> SUFFICES ASSUME NEW h \in Hours, NEW t \in Topics
               PROVE  Rows({h}, {t}) + Cardinality(Sharers(h, t)) <= Cardinality(Procs)
    BY DEF Shared
  <2>1. Rows({h}, {t}) = 0 /\ Cardinality(Sharers(h, t)) \in Nat
        /\ Cardinality(Sharers(h, t)) <= Cardinality(Procs) /\ Cardinality(Procs) \in Nat
    BY <1>4, SharersFinite
  <2> QED BY <2>1
<1>8. BatchOK /\ \A m \in Messages : CallsOK(m) /\ ArrivalsOK(m)
  BY <1>0 DEF Init, BatchOK
<1> QED BY <1>1, <1>2, <1>3, <1>5, <1>6, <1>7, <1>8, EnvelopeSplit DEF IInv

LEMMA StepInvariant == IInv /\ [Next]_vars => IInv'
<1> SUFFICES ASSUME IInv, [Next]_vars PROVE IInv'
  OBVIOUS
<1>1. ASSUME TypeOK', Handled', EnvelopeWhole', SourceToldTruth', Shared', Delivered'
      PROVE  IInv'
  BY <1>1 DEF IInv, Handled, Delivered
<1>2. ASSUME NEW p \in Procs, Process(p) \/ Die(p) PROVE IInv'
  BY <1>1, <1>2, ProcessTypes, ProcessHandled, ProcessWhole, ProcessTells, ProcessShares,
     ProcessDelivers
<1>3. CASE DispatchStep
  BY <1>1, <1>3, DispatchTypes, DispatchTells, DispatchWhole, DispatchShares, DispatchDelivers
<1>4. CASE Tick
  BY <1>4, TickInvariant
<1>5. CASE UNCHANGED vars
  <2>1. UNCHANGED <<hour, decisions, notes, outbox, acks, txn, pc, work, emits, told, taken, flight,
                    calls, arrived, retried, clicks, crashes>>
    BY <1>5 DEF vars, tables, procVars, history
  <2> USE <2>1
  <2>2. TypeOK' = TypeOK
    BY DEF TypeOK, Messages
  <2>3. \A p \in Procs : ProcOK(p)' <=> ProcOK(p)
    BY DEF ProcOK, Queued, Messages
  <2>4. (TxnOK' <=> TxnOK) /\ (NotesPast' <=> NotesPast)
    BY DEF TxnOK, DecisionOf, NotesPast
  <2>5. (EnvelopeWhole' <=> EnvelopeWhole) /\ (SourceToldTruth' <=> SourceToldTruth)
    BY DEF EnvelopeWhole, SourceToldTruth, Messages, Rows, NotesOf
  <2>6. (Shared' <=> Shared)
    BY DEF Shared, Sharers, Rows, NotesOf
  <2>7. (BatchOK' <=> BatchOK) /\ Messages' = Messages
    BY DEF BatchOK, Messages
  <2>8. \A m : (CallsOK(m)' <=> CallsOK(m)) /\ (ArrivalsOK(m)' <=> ArrivalsOK(m))
    BY DEF CallsOK, ArrivalsOK, Covered, Granted, InHand
  <2> QED BY <2>2, <2>3, <2>4, <2>5, <2>6, <2>7, <2>8 DEF IInv
<1> QED BY <1>2, <1>3, <1>4, <1>5 DEF Next, DispatchStep

(* The invariant holds in every reachable state, and with it the types.    *)
THEOREM NotificationsInvariance == Spec => []IInv
BY InitInvariant, StepInvariant, PTL DEF Spec

THEOREM TypeCorrect == Spec => []TypeOK
<1>1. IInv => TypeOK
  BY DEF IInv
<1> QED BY <1>1, NotificationsInvariance, PTL

(* Decision, notification and outbox row are committed together, whichever *)
(* process dies between two statements and whatever the dispatcher does.   *)
THEOREM EnvelopeIsWhole == Spec => []EnvelopeWhole
<1>1. IInv => EnvelopeWhole
  BY DEF IInv
<1> QED BY <1>1, NotificationsInvariance, PTL

(* A source is told no more than the tables hold, though a sink that       *)
(* raises may have taken the call.                                         *)
THEOREM SourcesAreTold == Spec => []SourceToldTruth
<1>1. IInv => SourceToldTruth
  BY DEF IInv
<1> QED BY <1>1, NotificationsInvariance, PTL

\* A round ends after MaxRetries attempts; a click in its middle grants one call more.
LEMMA CallBound ==
    ASSUME NEW b \in Nat, NEW r \in Nat, NEW n \in 0..b, NEW c \in Nat, c <= r * (b + 1) + n
    PROVE  c <= b * (1 + r) + r
<1>1. r * (b + 1) \in Nat /\ b * (1 + r) \in Nat /\ r * (b + 1) + b = b * (1 + r) + r
  BY SMTT(30)
<1> DEFINE x == r * (b + 1)
           y == b * (1 + r)
<1>2. x \in Nat /\ y \in Nat /\ x + b = y + r /\ c <= x + n
  BY <1>1
<1> HIDE DEF x, y
<1>3. c <= y + r
  BY <1>2
<1> QED BY <1>3 DEF y

(* However many clicks come while a message is delivered and wherever the  *)
(* dispatcher dies, arrivals and calls are bounded by the clicks on retry, *)
(* and rows of an hour on a topic by the number of processes.              *)
THEOREM CopiesAreBounded == Spec => []CopiesBounded
<1>1. IInv => CopiesBounded
  <2> SUFFICES ASSUME IInv PROVE CopiesBounded
    OBVIOUS
  <2>0. TypeOK
    BY DEF IInv
  <2>1. ASSUME NEW h \in Hours, NEW t \in Topics PROVE Rows({h}, {t}) <= Cardinality(Procs)
    <3> DEFINE r == Rows({h}, {t})
               s == Cardinality(Sharers(h, t))
               n == Cardinality(Procs)
    <3>1. r \in Nat /\ s \in Nat /\ n \in Nat /\ r + s <= n
      BY <2>0, NotesFinite, SharersFinite DEF TypeOK, IInv, Shared
    <3> HIDE DEF r, s, n
    <3>2. r <= n
      BY <3>1
    <3> QED BY <3>2 DEF r, n
  <2>2. ASSUME NEW m \in Messages
        PROVE  arrived[m] <= 1 + retried[m] /\ calls[m] <= MaxRetries * (1 + retried[m]) + retried[m]
    <3>1. CallsOK(m) /\ ArrivalsOK(m)
      BY DEF IInv
    <3>2. /\ calls[m] \in Nat /\ retried[m] \in Nat /\ outbox[m].attempts \in 0..MaxRetries
          /\ MaxRetries \in Nat
      BY <2>0, CountFacts, DeliveryAssumption
    <3>3. calls[m] <= retried[m] * (MaxRetries + 1) + outbox[m].attempts
      BY <3>1 DEF CallsOK, Covered, Granted
    <3>4. calls[m] <= MaxRetries * (1 + retried[m]) + retried[m]
      BY <3>2, <3>3, CallBound
    <3> QED BY <3>1, <3>4 DEF ArrivalsOK
  <2> QED BY <2>1, <2>2 DEF CopiesBounded
<1> QED BY <1>1, NotificationsInvariance, PTL

-----------------------------------------------------------------------------
(***************************************************************************)
(* The ticks, for every set of processes, list of skills and budget.       *)
(*                                                                         *)
(* What the budget bounds is the count in drift_state, not the runs: so    *)
(* each run that succeeded is accounted for as counted, as about to be     *)
(* counted by the tick that finished it, or as lost with an incident; and  *)
(* ticks that read the count before it was full are themselves counted,    *)
(* because none starts once it is (Accounts).                              *)
(***************************************************************************)
TickStages == {"off", "abandon", "idle", "list", "create", "claim", "invoke", "persist",
               "finish", "count"}

\* The run of a tick, if it has one.
AtMostOne == {run \in SUBSET Runs : \A q, r \in run : q = r}

\* A tick for some skill.
Ticks(skill) ==
    [at : TickStages, run : AtMostOne, skill : {skill}, outcome : {"none", "completed", "failed"},
     rows : SUBSET Runs, back : SUBSET Runs]
IsTick(t) == \E skill : t \in Ticks(skill)

TickOK(t, record) ==
    /\ IsTick(t)
    /\ t.at \in {"persist", "finish", "count"} => t.outcome # "none"
    /\ t.at = "finish" => \A r \in t.run : t.outcome \in record[r]

Among(S) == {w \in Workers : tick[w].at \in S}

UnderWay == {"list", "create", "claim", "invoke", "persist", "finish", "count"}
Beginning == {"list", "create", "claim"}

TickTypes ==
    /\ runs = [r \in Runs |-> runs[r]] /\ \A r \in Runs : WellFormed(runs[r])
    /\ said \in [Runs -> SUBSET {"completed", "failed"}]
    /\ runs_today \in Nat /\ begun \in Nat /\ incidents \in Nat /\ paused \in BOOLEAN
    /\ tick = [w \in Workers |-> tick[w]] /\ \A w \in Workers : TickOK(tick[w], said)

\* A success is counted, about to be counted or was lost with an incident; what
\* is under way at and beyond the budget; who may still begin a run when paused.
Accounts ==
    /\ Cardinality(Succeeded) <= runs_today + Cardinality(Among({"count"})) + incidents
    /\ runs_today >= daily_budget =>
          runs_today + Cardinality(Among(UnderWay)) <= daily_budget + Cardinality(Workers) - 1
    /\ paused => begun + Cardinality(Among(Beginning)) <= Cardinality(Workers)

TickInv == TickTypes /\ Accounts /\ OutcomeRecorded

LEMMA AmongFacts ==
    /\ Cardinality(Workers) \in Nat /\ Cardinality(Workers) >= 1
    /\ \A X \in SUBSET Workers :
          IsFiniteSet(X) /\ Cardinality(X) \in Nat /\ Cardinality(X) <= Cardinality(Workers)
    /\ \A S : Among(S) \in SUBSET Workers /\ Among(S)' \in SUBSET Workers
<1>1. IsFiniteSet(Workers) /\ Workers # {}
  BY TickAssumption
<1>2. Cardinality(Workers) \in Nat /\ Cardinality(Workers) # 0
  BY <1>1, FS_CardinalityType, FS_EmptySet
<1>3. ASSUME NEW X \in SUBSET Workers
      PROVE  IsFiniteSet(X) /\ Cardinality(X) \in Nat /\ Cardinality(X) <= Cardinality(Workers)
  <2>1. IsFiniteSet(X) /\ Cardinality(X) <= Cardinality(Workers)
    BY <1>1, FS_Subset
  <2> QED BY <2>1, FS_CardinalityType
<1>4. \A S : Among(S) \in SUBSET Workers /\ Among(S)' \in SUBSET Workers
  BY DEF Among
<1> QED BY <1>2, <1>3, <1>4

One(P) == IF P THEN 1 ELSE 0

LEMMA TickGoes ==
    ASSUME TickInv, NEW w \in Workers, NEW t, Go(w, t)
    PROVE  /\ tick' = [x \in Workers |-> tick'[x]] /\ tick'[w] = t
           /\ \A x \in Workers \ {w} : tick'[x] = tick[x]
BY DEF TickInv, TickTypes, Go

\* The stages of the other ticks stay.
LEMMA AmongMoves ==
    ASSUME TickInv, NEW w \in Workers, NEW t, Go(w, t), NEW S
    PROVE  Cardinality(Among(S))' + One(tick[w].at \in S) = Cardinality(Among(S)) + One(t.at \in S)
<1> DEFINE others == {x \in Workers \ {w} : tick[x].at \in S}
<1>1. tick'[w] = t /\ \A x \in Workers \ {w} : tick'[x] = tick[x]
  BY TickGoes
<1>2. w \notin others /\ IsFiniteSet(others)
  <2>1. others \subseteq Among(S)
    BY DEF Among
  <2> QED BY <2>1, AmongFacts, FS_Subset
<1>3. Cardinality(others \cup {w}) = Cardinality(others) + 1 /\ Cardinality(others) \in Nat
  BY <1>2, FS_AddElement, FS_CardinalityType
<1>4. Among(S) = IF tick[w].at \in S THEN others \cup {w} ELSE others
  BY DEF Among
<1>5. Among(S)' = IF t.at \in S THEN others \cup {w} ELSE others
  BY <1>1 DEF Among
<1> HIDE DEF others
<1> QED BY <1>3, <1>4, <1>5 DEF One

LEMMA SucceededFacts ==
    /\ Cardinality(Succeeded) \in Nat /\ Cardinality(Succeeded)' \in Nat
    /\ Succeeded' \subseteq Succeeded => Cardinality(Succeeded)' <= Cardinality(Succeeded)
    /\ \A r : Succeeded' \subseteq Succeeded \cup {r} =>
                 Cardinality(Succeeded)' <= Cardinality(Succeeded) + 1
<1>1. IsFiniteSet(Runs)
  BY TickAssumption, FS_Interval DEF Runs
<1>2. Succeeded \subseteq Runs /\ Succeeded' \subseteq Runs
  BY DEF Succeeded, RowsIn
<1>3. IsFiniteSet(Succeeded) /\ IsFiniteSet(Succeeded')
  BY <1>1, <1>2, FS_Subset
<1>4. Cardinality(Succeeded) \in Nat /\ Cardinality(Succeeded') \in Nat
  BY <1>3, FS_CardinalityType
<1>5. Succeeded' \subseteq Succeeded => Cardinality(Succeeded') <= Cardinality(Succeeded)
  BY <1>3, FS_Subset
<1>6. ASSUME NEW r, Succeeded' \subseteq Succeeded \cup {r}
      PROVE  Cardinality(Succeeded') <= Cardinality(Succeeded) + 1
  <2>1. IsFiniteSet(Succeeded \cup {r}) /\ Cardinality(Succeeded \cup {r}) <= Cardinality(Succeeded) + 1
    <3>1. Cardinality(Succeeded \cup {r}) = IF r \in Succeeded THEN Cardinality(Succeeded) ELSE Cardinality(Succeeded) + 1
      BY <1>3, FS_AddElement
    <3> QED BY <1>3, <1>4, <3>1, FS_AddElement
  <2>2. Cardinality(Succeeded') <= Cardinality(Succeeded \cup {r})
    BY <1>6, <2>1, FS_Subset
  <2>3. Cardinality(Succeeded \cup {r}) \in Nat
    BY <2>1, FS_CardinalityType
  <2> QED BY <1>4, <2>1, <2>2, <2>3
<1> QED BY <1>4, <1>5, <1>6

\* What a step makes of the table of runs: it stays one, and what has ended by a
\* tick has been in drift_runs.
TableKept ==
    /\ runs' = [r \in Runs |-> runs'[r]] /\ \A r \in Runs : WellFormed(runs'[r])
    /\ said' \in [Runs -> SUBSET {"completed", "failed"}] /\ \A r \in Runs : said[r] \subseteq said'[r]
    /\ OutcomeRecorded'

LEMMA TickHolds ==
    ASSUME TickInv, NEW w \in Workers
    PROVE  /\ tick[w].run \in SUBSET Runs /\ tick[w].rows \in SUBSET Runs
           /\ tick[w].back \in SUBSET Runs /\ tick[w].at \in TickStages
           /\ tick[w].outcome \in {"none", "completed", "failed"}
<1> HIDE DEF Runs, TickStages
<1> QED BY DEF TickInv, TickTypes, TickOK, IsTick, Ticks, AtMostOne

\* A step of one tick.
LEMMA TickKeeps ==
    ASSUME TickInv, NEW w \in Workers, NEW t, Go(w, t), TableKept, TickOK(t, said'),
           runs_today' \in Nat, begun' \in Nat, incidents' \in Nat, paused' = paused,
           Cardinality(Succeeded)' + runs_today + One(tick[w].at = "count") + incidents
               <= Cardinality(Succeeded) + runs_today' + One(t.at = "count") + incidents',
           \/ runs_today' = runs_today
              /\ (t.at \in UnderWay => tick[w].at \in UnderWay \/ runs_today < daily_budget)
           \/ runs_today' = runs_today + 1 /\ tick[w].at \in UnderWay /\ t.at \notin UnderWay,
           paused => begun' + One(t.at \in Beginning) <= begun + One(tick[w].at \in Beginning)
    PROVE  TickInv'
<1>1. TickTypes'
  <2>1. ASSUME NEW x \in Workers PROVE TickOK(tick[x], said)'
    <3>1. CASE x = w
      BY <3>1, TickGoes
    <3>2. CASE x # w
      <4>1. tick'[x] = tick[x] /\ TickOK(tick[x], said)
        BY <3>2, TickGoes DEF TickInv, TickTypes
      <4>2. \A r \in tick[x].run : said[r] \subseteq said'[r]
        BY TickHolds DEF TableKept
      <4> QED BY <4>1, <4>2 DEF TickOK
    <3> QED BY <3>1, <3>2
  <2>2. paused' \in BOOLEAN
    BY DEF TickInv, TickTypes
  <2> QED BY <2>1, <2>2, TickGoes DEF TickTypes, TableKept
<1> DEFINE n(S) == Cardinality(Among(S))
           m(S) == Cardinality(Among(S))'
<1>2. \A S : m(S) + One(tick[w].at \in S) = n(S) + One(t.at \in S)
  BY AmongMoves
<1>3. \A S : n(S) \in Nat /\ m(S) \in Nat /\ n(S) <= Cardinality(Workers) /\ m(S) <= Cardinality(Workers)
  BY AmongFacts
<1>4. /\ runs_today \in Nat /\ begun \in Nat /\ incidents \in Nat /\ daily_budget \in Nat
      /\ Cardinality(Workers) \in Nat /\ Cardinality(Workers) >= 1
  BY AmongFacts, TickAssumption DEF TickInv, TickTypes
<1> HIDE DEF n, m
<1>5. Cardinality(Succeeded)' <= runs_today' + m({"count"}) + incidents'
  <2>1. Cardinality(Succeeded) <= runs_today + n({"count"}) + incidents
    BY DEF TickInv, Accounts, n
  <2>2. m({"count"}) + One(tick[w].at = "count") = n({"count"}) + One(t.at = "count")
    <3>1. m({"count"}) + One(tick[w].at \in {"count"}) = n({"count"}) + One(t.at \in {"count"})
      BY <1>2
    <3> QED BY <3>1 DEF One
  <2>3. One(tick[w].at = "count") \in Nat /\ One(t.at = "count") \in Nat
    BY DEF One
  <2> QED BY <1>3, <1>4, <2>1, <2>2, <2>3, SucceededFacts
<1>6. runs_today' >= daily_budget =>
         runs_today' + m(UnderWay) <= daily_budget + Cardinality(Workers) - 1
  <2>1. runs_today >= daily_budget =>
           runs_today + n(UnderWay) <= daily_budget + Cardinality(Workers) - 1
    BY DEF TickInv, Accounts, n
  <2>2. m(UnderWay) + One(tick[w].at \in UnderWay) = n(UnderWay) + One(t.at \in UnderWay)
    BY <1>2
  <2>3. CASE /\ runs_today' = runs_today
             /\ t.at \in UnderWay => tick[w].at \in UnderWay \/ runs_today < daily_budget
    BY <1>3, <1>4, <2>1, <2>2, <2>3 DEF One
  <2>4. CASE runs_today' = runs_today + 1 /\ tick[w].at \in UnderWay /\ t.at \notin UnderWay
    BY <1>3, <1>4, <2>1, <2>2, <2>4 DEF One
  <2> QED BY <2>3, <2>4
<1>7. paused' => begun' + m(Beginning) <= Cardinality(Workers)
  <2>1. paused => begun + n(Beginning) <= Cardinality(Workers)
    BY DEF TickInv, Accounts, n
  <2>2. m(Beginning) + One(tick[w].at \in Beginning) = n(Beginning) + One(t.at \in Beginning)
    BY <1>2
  <2>3. One(tick[w].at \in Beginning) \in Nat /\ One(t.at \in Beginning) \in Nat
    BY DEF One
  <2> QED BY <1>3, <1>4, <2>1, <2>2, <2>3
<1> QED BY <1>1, <1>5, <1>6, <1>7 DEF TickInv, Accounts, TableKept, m

\* A step of a tick that counts nothing.
LEMMA QuietKeeps ==
    ASSUME TickInv, NEW w \in Workers, NEW t, Go(w, t), TableKept, TickOK(t, said'),
           Succeeded' \subseteq Succeeded, UNCHANGED <<runs_today, begun, paused>>,
           incidents' \in {incidents, incidents + 1},
           t.at # "count", tick[w].at = "count" => incidents' = incidents + 1,
           t.at \in UnderWay => tick[w].at \in UnderWay \/ runs_today < daily_budget,
           paused => (t.at \in Beginning => tick[w].at \in Beginning)
    PROVE  TickInv'
<1>1. runs_today \in Nat /\ begun \in Nat /\ incidents \in Nat
  BY DEF TickInv, TickTypes
<1>2. Cardinality(Succeeded) \in Nat /\ Cardinality(Succeeded)' \in Nat
      /\ Cardinality(Succeeded)' <= Cardinality(Succeeded)
  BY SucceededFacts
<1>3. Cardinality(Succeeded)' + runs_today + One(tick[w].at = "count") + incidents
          <= Cardinality(Succeeded) + runs_today' + One(t.at = "count") + incidents'
  BY <1>1, <1>2 DEF One
<1>4. paused => begun' + One(t.at \in Beginning) <= begun + One(tick[w].at \in Beginning)
  BY <1>1 DEF One
<1> QED BY <1>1, <1>3, <1>4, TickKeeps

LEMMA SameTable ==
    ASSUME TickInv, UNCHANGED runs, said' = said
    PROVE  TableKept /\ Succeeded' = Succeeded
BY DEF TickInv, TickTypes, TableKept, OutcomeRecorded, Succeeded, RowsIn

LEMMA RowChanges ==
    ASSUME TickInv, NEW r \in Runs, NEW row, WellFormed(row), runs' = [runs EXCEPT ![r] = row],
           UNCHANGED said,
           row.status = "succeeded" => "completed" \in said[r],
           row.status = "failed" => "failed" \in said[r]
    PROVE  /\ TableKept /\ Succeeded' \subseteq Succeeded \cup {r}
           /\ row.status # "succeeded" => Succeeded' \subseteq Succeeded
<1>1. /\ runs' = [q \in Runs |-> runs'[q]] /\ runs'[r] = row
      /\ \A q \in Runs \ {r} : runs'[q] = runs[q]
  BY DEF TickInv, TickTypes
<1>2. \A q \in Runs : WellFormed(runs'[q])
  BY <1>1 DEF TickInv, TickTypes
<1>3. OutcomeRecorded'
  BY <1>1 DEF TickInv, OutcomeRecorded
<1>4. /\ Succeeded' \subseteq Succeeded \cup {r}
      /\ row.status # "succeeded" => Succeeded' \subseteq Succeeded
  BY <1>1 DEF Succeeded, RowsIn
<1> QED BY <1>1, <1>2, <1>3, <1>4 DEF TableKept, TickInv, TickTypes

\* The tick as it is, and what only moves it on.
LEMMA TickFacts ==
    ASSUME TickInv, NEW w \in Workers
    PROVE  TickOK(tick[w], said) /\ IsTick(tick[w])
BY DEF TickInv, TickTypes, TickOK

\* What changes of a tick.
LEMMA AtFacts ==
    ASSUME NEW t, IsTick(t), NEW at \in TickStages
    PROVE  LET next == [t EXCEPT !.at = at] IN
           IsTick(next) /\ next.at = at /\ next.run = t.run /\ next.outcome = t.outcome
<1>1. PICK skill : t \in Ticks(skill)
  BY DEF IsTick
<1> HIDE DEF TickStages, Runs
<1>2. [t EXCEPT !.at = at] \in Ticks(skill)
  BY <1>1 DEF Ticks
<1> QED BY <1>1, <1>2 DEF IsTick, Ticks

LEMMA RowsFacts ==
    ASSUME NEW t, IsTick(t), NEW rows \in SUBSET Runs, NEW back \in SUBSET Runs
    PROVE  /\ LET next == [t EXCEPT !.rows = rows, !.back = back] IN
              IsTick(next) /\ next.at = t.at
           /\ LET next == [t EXCEPT !.rows = rows] IN
              IsTick(next) /\ next.at = t.at
           /\ LET next == [t EXCEPT !.back = back] IN
              IsTick(next) /\ next.at = t.at
<1>1. PICK skill : t \in Ticks(skill)
  BY DEF IsTick
<1> HIDE DEF TickStages, Runs
<1>2. /\ [t EXCEPT !.rows = rows, !.back = back] \in Ticks(skill)
      /\ [t EXCEPT !.rows = rows, !.back = back].at = t.at
  BY <1>1 DEF Ticks
<1>3. [t EXCEPT !.rows = rows] \in Ticks(skill) /\ [t EXCEPT !.rows = rows].at = t.at
  BY <1>1 DEF Ticks
<1>4. [t EXCEPT !.back = back] \in Ticks(skill) /\ [t EXCEPT !.back = back].at = t.at
  BY <1>1 DEF Ticks
<1> QED BY <1>2, <1>3, <1>4 DEF IsTick

LEMMA SkillFacts ==
    ASSUME NEW t, IsTick(t), NEW at \in TickStages, NEW run \in AtMostOne, NEW skill
    PROVE  IsTick([t EXCEPT !.run = run, !.skill = skill, !.at = at])
<1>1. PICK one : t \in Ticks(one)
  BY DEF IsTick
<1> HIDE DEF TickStages, Runs
<1>2. [t EXCEPT !.run = run, !.skill = skill, !.at = at] \in Ticks(skill)
  BY <1>1 DEF Ticks
<1> QED BY <1>2 DEF IsTick

LEMMA RunFacts ==
    ASSUME NEW t, IsTick(t), NEW at \in TickStages, NEW run \in AtMostOne
    PROVE  LET next == [t EXCEPT !.run = run, !.at = at] IN
           IsTick(next) /\ next.at = at
<1>1. PICK one : t \in Ticks(one)
  BY DEF IsTick
<1> HIDE DEF TickStages, Runs
<1>2. [t EXCEPT !.run = run, !.at = at] \in Ticks(one) /\ [t EXCEPT !.run = run, !.at = at].at = at
  BY <1>1 DEF Ticks
<1> QED BY <1>2 DEF IsTick

LEMMA OutcomeFacts ==
    ASSUME NEW t, IsTick(t), NEW outcome \in {"completed", "failed"}
    PROVE  LET next == [t EXCEPT !.at = "persist", !.outcome = outcome] IN
           IsTick(next) /\ next.at = "persist" /\ next.outcome = outcome /\ next.run = t.run
<1>1. PICK skill : t \in Ticks(skill)
  BY DEF IsTick
<1>2. "persist" \in TickStages
  BY DEF TickStages
<1> HIDE DEF TickStages, Runs
<1>3. [t EXCEPT !.at = "persist", !.outcome = outcome] \in Ticks(skill)
  BY <1>1, <1>2 DEF Ticks
<1> QED BY <1>1, <1>3 DEF IsTick, Ticks

LEMMA RestFacts ==
    /\ TickOK(Off, said') /\ IsTick(Off) /\ Off.at = "off"
    /\ TickOK(Resting, said') /\ Resting.at = "idle"
    /\ TickOK([Resting EXCEPT !.at = "list"], said') /\ [Resting EXCEPT !.at = "list"].at = "list"
<1>1. Off \in Ticks("") /\ Off.at = "off"
  BY DEF Off, Ticks, AtMostOne, TickStages
<1>2. Resting \in Ticks("") /\ Resting.at = "idle"
  BY DEF Off, Resting, Ticks, AtMostOne, TickStages
<1>3. "list" \in TickStages /\ IsTick(Off) /\ IsTick(Resting)
  BY <1>1, <1>2 DEF TickStages, IsTick
<1>4. IsTick([Resting EXCEPT !.at = "list"]) /\ [Resting EXCEPT !.at = "list"].at = "list"
  BY <1>3, AtFacts
<1> QED BY <1>1, <1>2, <1>3, <1>4 DEF TickOK

LEMMA StartKeeps ==
    ASSUME TickInv, NEW w \in Workers, Start(w)
    PROVE  TickInv'
<1> DEFINE t == [Off EXCEPT !.at = "abandon", !.rows = {r \in Runs : LeaseOver(runs[r])}]
<1>1. /\ Go(w, t) /\ tick[w].at = "off"
      /\ UNCHANGED <<runs, said, runs_today, begun, paused, incidents>>
  BY DEF Start, At
<1>2. TickOK(t, said') /\ t.at = "abandon"
  <2>1. t \in Ticks("") /\ t.at = "abandon"
    BY DEF Off, Ticks, AtMostOne, TickStages
  <2> QED BY <2>1 DEF TickOK, IsTick
<1> HIDE DEF t
<1> QED BY <1>1, <1>2, SameTable, QuietKeeps DEF UnderWay, Beginning

LEMMA RestKeeps ==
    ASSUME TickInv, NEW w \in Workers, Started(w) \/ ReadState(w) \/ TickCrash(w)
    PROVE  TickInv'
<1>1. CASE Started(w)
  <2>1. /\ Go(w, Resting) /\ tick[w].at = "abandon"
        /\ UNCHANGED <<runs, said, runs_today, begun, paused, incidents>>
    BY <1>1 DEF Started, At
  <2> QED BY <2>1, RestFacts, SameTable, QuietKeeps DEF UnderWay, Beginning
<1>2. CASE ReadState(w)
  <2>1. /\ Go(w, [Resting EXCEPT !.at = "list"]) /\ tick[w].at = "idle"
        /\ ~paused /\ runs_today < daily_budget
        /\ UNCHANGED <<runs, said, runs_today, begun, paused, incidents>>
    BY <1>2 DEF ReadState, At, MayTick
  <2> QED BY <2>1, RestFacts, SameTable, QuietKeeps DEF UnderWay, Beginning
<1>3. CASE TickCrash(w)
  <2>1. /\ Go(w, Off) /\ incidents' = incidents + 1
        /\ UNCHANGED <<runs, said, runs_today, begun, paused>>
    BY <1>3 DEF TickCrash, Incident
  <2> QED BY <2>1, RestFacts, SameTable, QuietKeeps DEF UnderWay, Beginning
<1> QED BY <1>1, <1>2, <1>3

LEMMA RecoverKeeps ==
    ASSUME TickInv, NEW w \in Workers, Recover(w)
    PROVE  TickInv'
<1>1. /\ tick[w].at = "abandon"
      /\ UNCHANGED <<said, runs_today, begun, paused, incidents>>
  BY DEF Recover, At
<1>2. PICK r \in tick[w].rows :
         IF Abandonable(runs[r])
         THEN /\ runs' = [runs EXCEPT ![r] = Abandoned(@)]
              /\ Go(w, [tick[w] EXCEPT !.rows = @ \ {r}, !.back = @ \cup {r}])
         ELSE Go(w, [tick[w] EXCEPT !.rows = @ \ {r}]) /\ UNCHANGED runs
  BY DEF Recover
<1>3. r \in Runs /\ WellFormed(runs[r])
  <2> HIDE DEF Runs, TickStages
  <2> QED BY TickFacts DEF IsTick, Ticks, TickInv, TickTypes
<1>4. CASE Abandonable(runs[r])
  <2> DEFINE t == [tick[w] EXCEPT !.rows = @ \ {r}, !.back = @ \cup {r}]
             row == Abandoned(runs[r])
  <2>1. Go(w, t) /\ runs' = [runs EXCEPT ![r] = row]
    BY <1>2, <1>4
  <2>2. TickOK(t, said') /\ t.at = "abandon"
    <3>1. tick[w].rows \ {r} \in SUBSET Runs /\ tick[w].back \cup {r} \in SUBSET Runs
      BY <1>3, TickHolds
    <3> QED BY <1>1, <3>1, TickFacts, RowsFacts DEF TickOK
  <2>3. WellFormed(row) /\ row.status = "abandoned"
    BY <1>3, LeavingFacts DEF Status, TERMINAL_STATUSES
  <2> HIDE DEF t, row
  <2>4. TableKept /\ Succeeded' \subseteq Succeeded
    BY <1>1, <1>3, <2>1, <2>3, RowChanges
  <2> QED BY <1>1, <2>1, <2>2, <2>4, QuietKeeps DEF UnderWay, Beginning
<1>5. CASE ~ Abandonable(runs[r])
  <2> DEFINE t == [tick[w] EXCEPT !.rows = @ \ {r}]
  <2>1. Go(w, t) /\ UNCHANGED runs
    BY <1>2, <1>5
  <2>2. TickOK(t, said') /\ t.at = "abandon"
    <3>1. tick[w].rows \ {r} \in SUBSET Runs
      BY TickHolds
    <3> QED BY <1>1, <3>1, TickFacts, RowsFacts DEF TickOK
  <2> HIDE DEF t
  <2> QED BY <1>1, <2>1, <2>2, SameTable, QuietKeeps DEF UnderWay, Beginning
<1> QED BY <1>4, <1>5

LEMMA RetryRecoveredKeeps ==
    ASSUME TickInv, NEW w \in Workers, RetryRecovered(w)
    PROVE  TickInv'
<1>1. /\ tick[w].at = "abandon"
      /\ UNCHANGED <<said, runs_today, begun, paused, incidents>>
  BY DEF RetryRecovered, At
<1>2. PICK r \in tick[w].back :
         /\ runs' = [runs EXCEPT ![r] = IF Retriable(@) THEN Retried(@) ELSE @]
         /\ Go(w, [tick[w] EXCEPT !.back = @ \ {r}])
  BY DEF RetryRecovered
<1> DEFINE t == [tick[w] EXCEPT !.back = @ \ {r}]
           row == IF Retriable(runs[r]) THEN Retried(runs[r]) ELSE runs[r]
<1>3. r \in Runs /\ WellFormed(runs[r])
  <2> HIDE DEF Runs, TickStages
  <2> QED BY TickFacts DEF IsTick, Ticks, TickInv, TickTypes
<1>4. TickOK(t, said') /\ t.at = "abandon"
  <2>1. tick[w].back \ {r} \in SUBSET Runs
    BY TickHolds
  <2> QED BY <1>1, <2>1, TickFacts, RowsFacts DEF TickOK
<1>5. Go(w, t) /\ runs' = [runs EXCEPT ![r] = row]
  BY <1>2
<1>6. /\ WellFormed(row)
      /\ row.status = "succeeded" => "completed" \in said[r] /\ r \in Succeeded
      /\ row.status = "failed" => "failed" \in said[r]
  BY <1>3, RetriedFacts DEF TickInv, OutcomeRecorded, Succeeded, RowsIn
<1> HIDE DEF t, row
<1>7. TableKept /\ Succeeded' \subseteq Succeeded
  BY <1>1, <1>3, <1>5, <1>6, RowChanges
<1> QED BY <1>1, <1>4, <1>5, <1>7, QuietKeeps DEF UnderWay, Beginning

LEMMA ListPendingKeeps ==
    ASSUME TickInv, NEW w \in Workers, ListPending(w)
    PROVE  TickInv'
<1>1. /\ tick[w].at = "list"
      /\ UNCHANGED <<runs, said, runs_today, begun, paused, incidents>>
  BY DEF ListPending, At
<1>2. \E skill : Go(w, [tick[w] EXCEPT !.run = Newest, !.skill = skill,
                            !.at = IF Newest = {} THEN "create" ELSE "claim"])
  BY DEF ListPending
<1>3. Newest \in AtMostOne /\ {"create", "claim"} \subseteq TickStages
  <2>1. Newest \in SUBSET Runs /\ {"create", "claim"} \subseteq TickStages
    BY DEF Newest, RowsIn, TickStages
  <2>2. ASSUME NEW q \in Newest, NEW r \in Newest PROVE q = r
    <3>1. q \in Nat /\ r \in Nat /\ q <= r /\ r <= q
      BY <2>1 DEF Newest, Runs
    <3> QED BY <3>1
  <2> QED BY <2>1, <2>2 DEF AtMostOne
<1>4. PICK run \in AtMostOne, at \in {"create", "claim"} :
         \E skill : Go(w, [tick[w] EXCEPT !.run = run, !.skill = skill, !.at = at])
  BY <1>2, <1>3
<1>5. PICK skill : Go(w, [tick[w] EXCEPT !.run = run, !.skill = skill, !.at = at])
  BY <1>4
<1> DEFINE t == [tick[w] EXCEPT !.run = run, !.skill = skill, !.at = at]
<1>6. Go(w, t)
  BY <1>5
<1>7. TickOK(t, said') /\ t.at = at
  <2>1. IsTick(tick[w]) /\ run \in AtMostOne /\ at \in TickStages
    BY <1>3, <1>4, TickFacts
  <2>2. IsTick(t)
    BY <2>1, SkillFacts
  <2>3. t.at = at
    <3> HIDE DEF TickStages, Runs
    <3> QED BY <2>1 DEF IsTick, Ticks
  <2> HIDE DEF t
  <2> QED BY <1>4, <2>2, <2>3 DEF TickOK
<1> HIDE DEF t
<1> QED BY <1>1, <1>4, <1>6, <1>7, SameTable, QuietKeeps DEF UnderWay, Beginning

LEMMA CreateKeeps ==
    ASSUME TickInv, NEW w \in Workers, Create(w)
    PROVE  TickInv'
<1>1. /\ tick[w].at = "create"
      /\ UNCHANGED <<said, runs_today, begun, paused, incidents>>
  BY DEF Create, At
<1>2. PICK r \in Runs :
         /\ runs' = [runs EXCEPT ![r] = PendingRow(3)]
         /\ Go(w, [tick[w] EXCEPT !.run = {r}, !.at = "claim"])
  BY DEF Create
<1> DEFINE t == [tick[w] EXCEPT !.run = {r}, !.at = "claim"]
<1>3. Go(w, t)
  BY <1>2
<1>4. TickOK(t, said') /\ t.at = "claim"
  <2>1. "claim" \in TickStages /\ {r} \in AtMostOne
    BY DEF TickStages, AtMostOne
  <2>2. IsTick(t) /\ t.at = "claim"
    BY <2>1, TickFacts, RunFacts
  <2> HIDE DEF t
  <2> QED BY <2>2 DEF TickOK
<1>5. WellFormed(PendingRow(3)) /\ PendingRow(3).status = "pending"
  BY PendingFacts
<1> HIDE DEF t
<1>6. TableKept /\ Succeeded' \subseteq Succeeded
  BY <1>1, <1>2, <1>5, RowChanges
<1> QED BY <1>1, <1>3, <1>4, <1>6, QuietKeeps DEF UnderWay, Beginning

LEMMA ClaimKeeps ==
    ASSUME TickInv, NEW w \in Workers, Claim(w)
    PROVE  TickInv'
<1>1. /\ tick[w].at = "claim"
      /\ UNCHANGED <<said, runs_today, paused, incidents>>
  BY DEF Claim, At
<1>2. PICK r \in tick[w].run :
         IF Claimable(runs[r])
         THEN /\ runs' = [runs EXCEPT ![r] = Claimed(@, w)]
              /\ begun' = begun + 1
              /\ Go(w, [tick[w] EXCEPT !.at = "invoke"])
         ELSE Go(w, Resting) /\ UNCHANGED <<runs, begun>>
  BY DEF Claim
<1>3. r \in Runs /\ WellFormed(runs[r])
  BY TickHolds DEF TickInv, TickTypes
<1>4. CASE Claimable(runs[r])
  <2> DEFINE t == [tick[w] EXCEPT !.at = "invoke"]
             row == Claimed(runs[r], w)
  <2>1. Go(w, t) /\ runs' = [runs EXCEPT ![r] = row] /\ begun' = begun + 1
    BY <1>2, <1>4
  <2>2. TickOK(t, said') /\ t.at = "invoke"
    <3>1. "invoke" \in TickStages
      BY DEF TickStages
    <3> QED BY <3>1, TickFacts, AtFacts DEF TickOK
  <2>3. WellFormed(row) /\ row.status = "running"
    BY <1>3, ClaimedFacts
  <2> HIDE DEF t, row
  <2>4. TableKept /\ Succeeded' \subseteq Succeeded
    BY <1>1, <1>3, <2>1, <2>3, RowChanges
  <2>5. runs_today \in Nat /\ begun \in Nat /\ incidents \in Nat
    BY DEF TickInv, TickTypes
  <2>6. Cardinality(Succeeded) \in Nat /\ Cardinality(Succeeded)' \in Nat
        /\ Cardinality(Succeeded)' <= Cardinality(Succeeded)
    BY <2>4, SucceededFacts
  <2>7. Cardinality(Succeeded)' + runs_today + One(tick[w].at = "count") + incidents
            <= Cardinality(Succeeded) + runs_today' + One(t.at = "count") + incidents'
    BY <1>1, <2>2, <2>5, <2>6 DEF One
  <2>8. begun' + One(t.at \in Beginning) <= begun + One(tick[w].at \in Beginning)
    BY <1>1, <2>1, <2>2, <2>5 DEF One, Beginning
  <2> QED BY <1>1, <2>1, <2>2, <2>4, <2>5, <2>7, <2>8, TickKeeps DEF UnderWay
<1>5. CASE ~ Claimable(runs[r])
  <2>1. Go(w, Resting) /\ UNCHANGED <<runs, begun>>
    BY <1>2, <1>5
  <2> QED BY <1>1, <2>1, RestFacts, SameTable, QuietKeeps DEF UnderWay, Beginning
<1> QED BY <1>4, <1>5

LEMMA InvokeKeeps ==
    ASSUME TickInv, NEW w \in Workers, Invoke(w)
    PROVE  TickInv'
<1>1. /\ tick[w].at = "invoke"
      /\ UNCHANGED <<runs, said, runs_today, begun, paused, incidents>>
  BY DEF Invoke, At
<1>2. PICK outcome \in {"completed", "failed"} :
         Go(w, [tick[w] EXCEPT !.at = "persist", !.outcome = outcome])
  BY DEF Invoke
<1> DEFINE t == [tick[w] EXCEPT !.at = "persist", !.outcome = outcome]
<1>3. Go(w, t)
  BY <1>2
<1>4. TickOK(t, said') /\ t.at = "persist"
  <2>1. IsTick(t) /\ t.at = "persist" /\ t.outcome = outcome
    BY <1>2, TickFacts, OutcomeFacts
  <2> HIDE DEF t
  <2> QED BY <1>2, <2>1 DEF TickOK
<1> HIDE DEF t
<1> QED BY <1>1, <1>3, <1>4, SameTable, QuietKeeps DEF UnderWay, Beginning

LEMMA PersistRunKeeps ==
    ASSUME TickInv, NEW w \in Workers, PersistRun(w)
    PROVE  TickInv'
<1> DEFINE t == [tick[w] EXCEPT !.at = "finish"]
           outcome == tick[w].outcome
<1>1. /\ tick[w].at = "persist" /\ Go(w, t)
      /\ UNCHANGED <<runs, runs_today, begun, paused, incidents>>
  BY DEF PersistRun, At
<1>2. outcome \in {"completed", "failed"}
  BY <1>1, TickFacts, TickHolds DEF TickOK
<1>3. PICK r \in tick[w].run : said' = [said EXCEPT ![r] = @ \cup {outcome}]
  BY DEF PersistRun
<1>4. r \in Runs /\ tick[w].run \in SUBSET Runs
  BY <1>3, TickHolds
<1>5. /\ said' \in [Runs -> SUBSET {"completed", "failed"}]
      /\ said'[r] = said[r] \cup {outcome} /\ \A q \in Runs : said[q] \subseteq said'[q]
  <2>1. said \in [Runs -> SUBSET {"completed", "failed"}]
    BY DEF TickInv, TickTypes
  <2> HIDE DEF outcome, Runs
  <2> QED BY <1>2, <1>3, <1>4, <2>1
<1>6. TableKept /\ Succeeded' = Succeeded
  BY <1>1, <1>5 DEF TickInv, TickTypes, TableKept, OutcomeRecorded, Succeeded, RowsIn
<1>7. TickOK(t, said') /\ t.at = "finish"
  <2>1. "finish" \in TickStages /\ IsTick(tick[w])
    BY TickFacts DEF TickStages
  <2>2. IsTick(t) /\ t.at = "finish" /\ t.run = tick[w].run /\ t.outcome = outcome
    BY <2>1, AtFacts
  <2>3. \A q \in tick[w].run : outcome \in said'[q]
    <3>1. \A q \in tick[w].run : q = r
      <4> HIDE DEF Runs, TickStages
      <4> QED BY <2>1, <1>3 DEF IsTick, Ticks, AtMostOne
    <3> QED BY <3>1, <1>3, <1>5
  <2> HIDE DEF t, outcome
  <2> QED BY <1>2, <2>2, <2>3 DEF TickOK
<1> HIDE DEF t
<1> QED BY <1>1, <1>6, <1>7, QuietKeeps DEF UnderWay, Beginning

\* The end of a run, and what becomes of its tick.
LEMMA FinishKeeps ==
    ASSUME TickInv, NEW w \in Workers, Finish(w)
    PROVE  TickInv'
<1> DEFINE outcome == tick[w].outcome
           t == IF outcome = "completed" THEN [tick[w] EXCEPT !.at = "count"] ELSE Resting
<1>1. /\ tick[w].at = "finish" /\ Go(w, t)
      /\ UNCHANGED <<said, runs_today, begun, paused, incidents>>
  BY DEF Finish, At
<1>2. outcome \in {"completed", "failed"}
  BY <1>1, TickFacts, TickHolds DEF TickOK
<1>3. PICK r \in tick[w].run :
         runs' = [runs EXCEPT ![r] = IF Finishable(@) THEN Finished(@, FinalStatus(outcome)) ELSE @]
  BY DEF Finish
<1>4. r \in Runs /\ WellFormed(runs[r]) /\ outcome \in said[r]
  BY <1>1, <1>3, TickHolds, TickFacts DEF TickInv, TickTypes, TickOK
<1>5. /\ TickOK(t, said') /\ t.at \in {"count", "idle"}
      /\ t.at = "count" <=> outcome = "completed"
  <2>1. CASE outcome = "completed"
    <3>1. "count" \in TickStages /\ IsTick(tick[w])
      BY TickFacts DEF TickStages
    <3>2. IsTick(t) /\ t.at = "count" /\ t.outcome = outcome
      BY <2>1, <3>1, AtFacts
    <3> HIDE DEF t, outcome
    <3> QED BY <1>2, <2>1, <3>2 DEF TickOK
  <2>2. CASE outcome # "completed"
    <3>1. t = Resting
      BY <2>2
    <3> HIDE DEF t, outcome
    <3> QED BY <2>2, <3>1, RestFacts
  <2> QED BY <2>1, <2>2
<1> DEFINE row == IF Finishable(runs[r]) THEN Finished(runs[r], FinalStatus(outcome)) ELSE runs[r]
<1>6. runs' = [runs EXCEPT ![r] = row]
  BY <1>3
<1>7. /\ WellFormed(row)
      /\ row.status = "succeeded" => "completed" \in said[r] /\ (outcome = "completed" \/ r \in Succeeded)
      /\ row.status = "failed" => "failed" \in said[r]
  <2>1. CASE Finishable(runs[r])
    <3>1. FinalStatus(outcome) \in Status \ {"running", "absent"}
          /\ FinalStatus(outcome) = IF outcome = "completed" THEN "succeeded" ELSE "failed"
      BY DEF FinalStatus, Status, TERMINAL_STATUSES
    <3>2. WellFormed(row) /\ row.status = FinalStatus(outcome)
      BY <1>4, <2>1, <3>1, LeavingFacts
    <3> HIDE DEF row, outcome
    <3> QED BY <1>2, <1>4, <3>1, <3>2
  <2>2. CASE ~ Finishable(runs[r])
    BY <1>4, <2>2 DEF TickInv, OutcomeRecorded, Succeeded, RowsIn
  <2> QED BY <2>1, <2>2
<1> HIDE DEF t, row, outcome
<1>8. TableKept /\ Succeeded' \subseteq Succeeded \cup {r}
      /\ (row.status # "succeeded" => Succeeded' \subseteq Succeeded)
  BY <1>1, <1>4, <1>6, <1>7, RowChanges
<1>9. /\ runs_today \in Nat /\ begun \in Nat /\ incidents \in Nat
      /\ Cardinality(Succeeded) \in Nat /\ Cardinality(Succeeded)' \in Nat
  BY SucceededFacts DEF TickInv, TickTypes
<1>10. CASE outcome = "completed"
  <2>1. Cardinality(Succeeded)' <= Cardinality(Succeeded) + 1
    BY <1>8, SucceededFacts
  <2>2. Cardinality(Succeeded)' + runs_today + One(tick[w].at = "count") + incidents
            <= Cardinality(Succeeded) + runs_today' + One(t.at = "count") + incidents'
    BY <1>1, <1>5, <1>9, <1>10, <2>1 DEF One
  <2>3. begun' + One(t.at \in Beginning) <= begun + One(tick[w].at \in Beginning)
    BY <1>1, <1>5, <1>9 DEF One, Beginning
  <2> QED BY <1>1, <1>5, <1>8, <1>9, <2>2, <2>3, TickKeeps DEF UnderWay
<1>11. CASE outcome # "completed"
  <2>1. Succeeded' \subseteq Succeeded
    BY <1>7, <1>8, <1>11
  <2> QED BY <1>1, <1>5, <1>8, <1>11, <2>1, QuietKeeps DEF UnderWay, Beginning
<1> QED BY <1>10, <1>11

LEMMA IncrementRunsTodayKeeps ==
    ASSUME TickInv, NEW w \in Workers, IncrementRunsToday(w)
    PROVE  TickInv'
<1>1. /\ tick[w].at = "count" /\ Go(w, Resting) /\ runs_today' = runs_today + 1
      /\ UNCHANGED <<runs, said, begun, paused, incidents>>
  BY DEF IncrementRunsToday, At
<1>2. TableKept /\ Succeeded' = Succeeded
  BY <1>1, SameTable
<1>3. /\ runs_today \in Nat /\ begun \in Nat /\ incidents \in Nat
      /\ Cardinality(Succeeded) \in Nat
  BY SucceededFacts DEF TickInv, TickTypes
<1>4. Cardinality(Succeeded)' + runs_today + One(tick[w].at = "count") + incidents
          <= Cardinality(Succeeded) + runs_today' + One(Resting.at = "count") + incidents'
  BY <1>1, <1>2, <1>3, RestFacts DEF One
<1>5. begun' + One(Resting.at \in Beginning) <= begun + One(tick[w].at \in Beginning)
  BY <1>1, <1>3, RestFacts DEF One, Beginning
<1>6. TickOK(Resting, said') /\ Resting.at = "idle"
  BY RestFacts
<1>7. tick[w].at \in UnderWay /\ Resting.at \notin UnderWay
  BY <1>1, <1>6 DEF UnderWay
<1> QED BY <1>1, <1>2, <1>3, <1>4, <1>5, <1>6, <1>7, TickKeeps

LEMMA WriteRaisesKeeps ==
    ASSUME TickInv, NEW w \in Workers, WriteRaises(w)
    PROVE  TickInv'
<1>1. /\ tick[w].at \in {"create", "claim", "persist", "finish", "count"}
      /\ incidents' = incidents + 1
      /\ Go(w, IF tick[w].outcome = "completed" THEN FailurePath(w) ELSE Resting)
      /\ UNCHANGED <<runs, said, runs_today, begun, paused>>
  BY DEF WriteRaises, Incident
<1>2. TickOK(FailurePath(w), said') /\ FailurePath(w).at = "persist"
  <2>1. IsTick(FailurePath(w)) /\ FailurePath(w).at = "persist" /\ FailurePath(w).outcome = "failed"
    BY TickFacts, OutcomeFacts DEF FailurePath
  <2> QED BY <2>1 DEF TickOK
<1>3. CASE tick[w].outcome = "completed"
  <2>1. Go(w, FailurePath(w))
    BY <1>1, <1>3
  <2> QED BY <1>1, <1>2, <2>1, SameTable, QuietKeeps DEF UnderWay, Beginning
<1>4. CASE tick[w].outcome # "completed"
  <2>1. Go(w, Resting)
    BY <1>1, <1>4
  <2> QED BY <1>1, <2>1, RestFacts, SameTable, QuietKeeps DEF UnderWay, Beginning
<1> QED BY <1>3, <1>4

\* A step that no tick takes.
LEMMA TicksStay ==
    ASSUME TickInv, UNCHANGED <<tick, said, runs_today>>, TableKept, Succeeded' \subseteq Succeeded,
           incidents' \in {incidents, incidents + 1}, begun' \in Nat, paused' \in BOOLEAN,
           paused' => begun' + Cardinality(Among(Beginning)) <= Cardinality(Workers)
    PROVE  TickInv'
<1>1. TickTypes'
  BY DEF TickInv, TickTypes, TableKept
<1>2. \A S : Among(S)' = Among(S)
  BY DEF Among
<1>3. /\ runs_today \in Nat /\ incidents \in Nat /\ Cardinality(Among({"count"})) \in Nat
      /\ Cardinality(Succeeded)' \in Nat /\ Cardinality(Succeeded) \in Nat
      /\ Cardinality(Succeeded)' <= Cardinality(Succeeded)
  BY SucceededFacts, AmongFacts DEF TickInv, TickTypes
<1>4. Cardinality(Succeeded)' <= runs_today' + Cardinality(Among({"count"}))' + incidents'
  <2>1. Cardinality(Succeeded) <= runs_today + Cardinality(Among({"count"})) + incidents
    BY DEF TickInv, Accounts
  <2>2. Cardinality(Among({"count"}))' = Cardinality(Among({"count"}))
    BY <1>2
  <2> QED BY <1>3, <2>1, <2>2
<1>5. runs_today' >= daily_budget =>
         runs_today' + Cardinality(Among(UnderWay))' <= daily_budget + Cardinality(Workers) - 1
  <2>1. Cardinality(Among(UnderWay))' = Cardinality(Among(UnderWay))
    BY <1>2
  <2> QED BY <2>1 DEF TickInv, Accounts
<1>6. paused' => begun' + Cardinality(Among(Beginning))' <= Cardinality(Workers)
  <2>1. Cardinality(Among(Beginning))' = Cardinality(Among(Beginning))
    BY <1>2
  <2> QED BY <2>1
<1> QED BY <1>1, <1>4, <1>5, <1>6 DEF TickInv, Accounts, TableKept

LEMMA UserKeeps ==
    ASSUME TickInv, UserStep
    PROVE  TickInv'
<1>1. runs_today \in Nat /\ begun \in Nat /\ incidents \in Nat /\ paused \in BOOLEAN
  BY DEF TickInv, TickTypes
<1>2. Cardinality(Among(Beginning)) \in Nat /\ Cardinality(Among(Beginning)) <= Cardinality(Workers)
  BY AmongFacts
<1>3. paused => begun + Cardinality(Among(Beginning)) <= Cardinality(Workers)
  BY DEF TickInv, Accounts
<1>4. CASE Pause
  <2>1. /\ paused' = TRUE /\ begun' = IF paused THEN begun ELSE 0
        /\ UNCHANGED <<runs, said, tick, runs_today, incidents>>
    BY <1>4 DEF Pause
  <2>2. TableKept /\ Succeeded' = Succeeded
    BY <2>1, SameTable
  <2>3. begun' \in Nat /\ begun' + Cardinality(Among(Beginning)) <= Cardinality(Workers)
    BY <1>1, <1>2, <1>3, <2>1
  <2> QED BY <2>1, <2>2, <2>3, TicksStay
<1>5. CASE Resume
  <2>1. /\ paused' = FALSE
        /\ UNCHANGED <<runs, said, tick, runs_today, begun, incidents>>
    BY <1>5 DEF Resume
  <2> QED BY <1>1, <2>1, SameTable, TicksStay
<1>6. ASSUME NEW r \in Runs, CancelOrRetry(r) PROVE TickInv'
  <2>1. /\ \/ runs' = [runs EXCEPT ![r] = Cancelled(@)]
           \/ runs' = [runs EXCEPT ![r] = Retried(@)]
        /\ UNCHANGED <<paused, said, tick, runs_today, begun, incidents>>
    BY <1>6 DEF CancelOrRetry
  <2>2. PICK row \in {Cancelled(runs[r]), Retried(runs[r])} : runs' = [runs EXCEPT ![r] = row]
    BY <2>1
  <2>3. WellFormed(row) /\ row.status \in {"cancelled", "pending"}
    <3>1. WellFormed(runs[r]) /\ "cancelled" \in Status \ {"running", "absent"}
      BY DEF TickInv, TickTypes, Status, TERMINAL_STATUSES
    <3> QED BY <2>2, <3>1, LeavingFacts, RetriedFacts
  <2>4. TableKept /\ Succeeded' \subseteq Succeeded
    BY <2>1, <2>2, <2>3, RowChanges
  <2> QED BY <1>1, <1>3, <2>1, <2>4, TicksStay
<1> QED BY <1>4, <1>5, <1>6 DEF UserStep

LEMMA OthersKeep ==
    ASSUME TickInv, ElsewhereFails \/ UNCHANGED tickVars \/ \E r \in Runs : ExpireLease(r)
    PROVE  TickInv'
<1>1. begun \in Nat /\ incidents \in Nat /\ paused \in BOOLEAN
  BY DEF TickInv, TickTypes
<1>2. paused => begun + Cardinality(Among(Beginning)) <= Cardinality(Workers)
  BY DEF TickInv, Accounts
<1>3. CASE ElsewhereFails \/ UNCHANGED tickVars
  <2>1. /\ incidents' \in {incidents, incidents + 1}
        /\ UNCHANGED <<runs, said, tick, runs_today, begun, paused>>
    BY <1>3 DEF ElsewhereFails, Incident, tickVars
  <2> QED BY <1>1, <1>2, <2>1, SameTable, TicksStay
<1>4. ASSUME NEW r \in Runs, ExpireLease(r) PROVE TickInv'
  <2> DEFINE row == [runs[r] EXCEPT !.lease = "expired"]
  <2>1. /\ runs[r].status = "running" /\ runs' = [runs EXCEPT ![r] = row]
        /\ UNCHANGED <<paused, said, tick, runs_today, begun, incidents>>
    BY <1>4 DEF ExpireLease
  <2>2. WellFormed(row) /\ row.status = "running"
    <3>1. WellFormed(runs[r]) /\ "expired" \in Lease \ {"none"}
      BY DEF TickInv, TickTypes, Lease
    <3> QED BY <2>1, <3>1, LeaseFacts
  <2> HIDE DEF row
  <2>3. TableKept /\ Succeeded' \subseteq Succeeded
    BY <2>1, <2>2, RowChanges
  <2> QED BY <1>1, <1>2, <2>1, <2>3, TicksStay
<1> QED BY <1>3, <1>4

LEMMA TickInitially ==
    ASSUME TickInit
    PROVE  TickInv
<1>1. Succeeded = {}
  BY AbsentFacts DEF TickInit, Succeeded, RowsIn
<1>2. Among(UnderWay) = {} /\ Among(Beginning) = {} /\ Among({"count"}) = {}
  <2>1. \A w \in Workers : tick[w].at = "off"
    BY DEF TickInit, Off
  <2> QED BY <2>1 DEF Among, UnderWay, Beginning
<1>3. Cardinality({}) = 0 /\ Cardinality(Workers) \in Nat /\ Cardinality(Workers) >= 1
      /\ daily_budget \in Nat
  BY AmongFacts, FS_EmptySet, TickAssumption
<1>4. Accounts
  <2>1. runs_today = 0 /\ incidents = 0 /\ begun = 0 /\ paused = FALSE
    BY DEF TickInit
  <2>2. /\ Cardinality(Succeeded) = 0 /\ Cardinality(Among({"count"})) = 0
        /\ Cardinality(Among(UnderWay)) = 0
    BY <1>1, <1>2, <1>3
  <2> QED BY <1>3, <2>1, <2>2 DEF Accounts
<1>5. OutcomeRecorded
  BY AbsentFacts DEF OutcomeRecorded, TickInit
<1>6. TickTypes
  <2>1. \A r \in Runs : WellFormed(runs[r])
    BY AbsentFacts DEF TickInit
  <2>2. \A w \in Workers : TickOK(tick[w], said)
    <3>1. Off \in Ticks("") /\ Off.at = "off"
      BY DEF Off, Ticks, AtMostOne, TickStages
    <3>2. \A w \in Workers : tick[w] = Off
      BY DEF TickInit
    <3> QED BY <3>1, <3>2 DEF TickOK, IsTick
  <2>3. /\ runs = [r \in Runs |-> runs[r]] /\ tick = [w \in Workers |-> tick[w]]
        /\ said \in [Runs -> SUBSET {"completed", "failed"}]
    BY DEF TickInit
  <2> QED BY <2>1, <2>2, <2>3 DEF TickTypes, TickInit
<1> QED BY <1>4, <1>5, <1>6 DEF TickInv

(* The inductive invariant of the tick runtimes: the table of runs keeps   *)
(* its form, each tick holds at most one run and has told drift_runs what  *)
(* it is about to finish it with, and successes, the day's count and what  *)
(* is under way add up, whatever the user calls and whatever raises.       *)
THEOREM DriftInvariance == TickSpec => []TickInv
<1>1. TickInit => TickInv
  BY TickInitially
<1>2. ASSUME TickInv, [TickNext]_tickVars PROVE TickInv'
  <2>1. ASSUME NEW w \in Workers, TickStep(w) PROVE TickInv'
    BY <1>2, <2>1, RecoverKeeps, RetryRecoveredKeeps, RestKeeps, ListPendingKeeps, CreateKeeps,
       ClaimKeeps, InvokeKeeps, PersistRunKeeps, FinishKeeps, IncrementRunsTodayKeeps,
       WriteRaisesKeeps DEF TickStep
  <2>2. ASSUME NEW w \in Workers, Start(w) \/ Started(w) \/ TickCrash(w) PROVE TickInv'
    BY <1>2, <2>2, StartKeeps, RestKeeps
  <2> QED BY <1>2, <2>1, <2>2, UserKeeps, OthersKeep DEF TickNext
<1> QED BY <1>1, <1>2, PTL DEF TickSpec

(* DriftRuntime._tick and its writes: no more runs succeed in a day than    *)
(* the budget, the other runtimes and the incidents account for, a pause   *)
(* lets each runtime begin at most the run it was about to take, and what  *)
(* drift_runs was told of a run includes the outcome it ended with.        *)
THEOREM TicksAreAccounted == TickSpec => []TicksAccounted
<1>1. ASSUME TickInv PROVE TicksAccounted
  <2>1. /\ runs_today \in Nat /\ begun \in Nat /\ incidents \in Nat /\ daily_budget \in Nat
        /\ Cardinality(Succeeded) \in Nat
        /\ Cardinality(Workers) \in Nat /\ Cardinality(Workers) >= 1
    BY <1>1, SucceededFacts, AmongFacts, TickAssumption DEF TickInv, TickTypes
  <2>2. /\ Cardinality(Among({"count"})) \in Nat /\ Cardinality(Among(UnderWay)) \in Nat
        /\ Cardinality(Among(Beginning)) \in Nat
        /\ Cardinality(Among({"count"})) <= Cardinality(Among(UnderWay))
        /\ Cardinality(Among({"count"})) <= Cardinality(Workers)
    <3>1. Among({"count"}) \subseteq Among(UnderWay) /\ IsFiniteSet(Among(UnderWay))
      BY AmongFacts DEF Among, UnderWay
    <3> QED BY <3>1, AmongFacts, FS_Subset
  <2>3. BudgetHeld
    BY <1>1, <2>1, <2>2 DEF TickInv, Accounts, BudgetHeld
  <2>4. PauseHeld
    BY <1>1, <2>1, <2>2 DEF TickInv, Accounts, PauseHeld
  <2> QED BY <1>1, <2>3, <2>4 DEF TickInv, TicksAccounted
<1> QED BY <1>1, DriftInvariance, PTL
===============================================================================
