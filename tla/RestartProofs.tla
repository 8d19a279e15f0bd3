---------------------------- MODULE RestartProofs ----------------------------
(***************************************************************************)
(* The safety of the two stores a dead process is carried on from, for any *)
(* workers, runs and messages, and any number of deaths and errors.        *)
(*                                                                         *)
(* The run table.  Two kinds of steps move it.  A start (claim, resume)    *)
(* gives one run the next attempt number and a worker's name; every other  *)
(* step is quiet: it moves rows without touching an attempt number, and    *)
(* leaves a row running only if it was, under the same name.  The lemmas   *)
(* QuietStep and StartStep prove the invariant for the two kinds; what     *)
(* remains for each action is to say of which kind it is.                  *)
(*                                                                         *)
(* The memory queue and the table are tied by a few facts about each       *)
(* message: what a task at each stage finds in its row, that an entry of   *)
(* the queue is a pending row without a task, that the memory is empty     *)
(* while the process is down or recovering, and that recovery has selected *)
(* every pending row.  Of the library it takes that an enumeration of a    *)
(* finite set without repetition misses none of its elements.              *)
(***************************************************************************)
EXTENDS Restart, RunRepositoryProofs, FiniteSetTheorems

RowsOK == \A r \in Runs : WellFormed(runs[r])

(* The inductive invariant.                                                *)
IInv == TypeOK /\ RowsOK /\ AttemptsFence /\ AttemptBudget

Quiet(old, new) ==
    /\ WellFormed(new)
    /\ new.attempts = old.attempts
    /\ new.maxAttempts >= old.maxAttempts
    /\ new.status = "running" =>
         old.status = "running" /\ new.claimedBy = old.claimedBy

QuietRuns ==
    /\ runs' \in [Runs -> Row]
    /\ \A r \in Runs : Quiet(runs[r], runs'[r])

(* A row that is not touched has moved quietly.                            *)
LEMMA QuietRefl ==
    ASSUME NEW row, WellFormed(row)
    PROVE  Quiet(row, row)
BY DEF Quiet, WellFormed, Row

(* A well-formed row is typed and its two counters are numbers.            *)
LEMMA WellFormedTyped ==
    ASSUME NEW row, WellFormed(row)
    PROVE  row \in Row /\ row.attempts \in Nat /\ row.maxAttempts \in Nat
BY DEF WellFormed, Row

(* A step that sets one row quietly is quiet.                              *)
LEMMA QuietSet ==
    ASSUME TypeOK, RowsOK, NEW r \in Runs, NEW row,
           SetRow(r, row), Quiet(runs[r], row)
    PROVE  QuietRuns
<1>1. runs' = [runs EXCEPT ![r] = row] /\ runs \in [Runs -> Row]
  BY DEF SetRow, TypeOK
<1>2. row \in Row
  BY WellFormedTyped DEF Quiet
<1>3. runs' \in [Runs -> Row]
  BY <1>1, <1>2
<1>4. ASSUME NEW q \in Runs PROVE Quiet(runs[q], runs'[q])
  <2>1. CASE q = r
    BY <2>1, <1>1
  <2>2. CASE q # r
    BY <2>2, <1>1, QuietRefl DEF RowsOK
  <2> QED BY <2>1, <2>2
<1> QED BY <1>3, <1>4 DEF QuietRuns

(* A step that leaves the table alone is quiet.                            *)
LEMMA QuietSame ==
    ASSUME TypeOK, RowsOK, runs' = runs
    PROVE  QuietRuns
<1>1. runs' \in [Runs -> Row]
  BY DEF TypeOK
<1>2. ASSUME NEW q \in Runs PROVE Quiet(runs[q], runs'[q])
  BY QuietRefl DEF RowsOK
<1> QED BY <1>1, <1>2 DEF QuietRuns

(* Quiet steps preserve the invariant, whoever drops its run meanwhile.    *)
LEMMA QuietStep ==
    ASSUME IInv, QuietRuns, resumes' = resumes, attempt' = attempt,
           doing' \in [Workers -> Runs \cup {NoRun}],
           \A w \in Workers : doing'[w] \in {doing[w], NoRun}
    PROVE  RowsOK' /\ AttemptsFence' /\ AttemptBudget'
<1> USE DEF IInv
<1>1. RowsOK'
  BY DEF RowsOK, QuietRuns, Quiet
<1>2. ASSUME NEW w \in Workers, doing'[w] # NoRun
      PROVE  LET r == doing'[w] IN
             /\ attempt'[w] <= runs'[r].attempts
             /\ (attempt'[w] = runs'[r].attempts /\ runs'[r].status = "running")
                   => runs'[r].claimedBy = w
             /\ \A v \in Workers \ {w} : doing'[v] = r => attempt'[v] # attempt'[w]
  <2>1. doing'[w] = doing[w] /\ doing[w] # NoRun /\ doing[w] \in Runs
    BY <1>2 DEF TypeOK
  <2>2. Quiet(runs[doing[w]], runs'[doing[w]])
    BY <2>1 DEF QuietRuns
  <2>3. /\ attempt[w] <= runs[doing[w]].attempts
        /\ (attempt[w] = runs[doing[w]].attempts
              /\ runs[doing[w]].status = "running")
             => runs[doing[w]].claimedBy = w
        /\ \A v \in Workers \ {w} : doing[v] = doing[w] => attempt[v] # attempt[w]
    BY <2>1 DEF AttemptsFence
  <2>4. \A v \in Workers \ {w} : doing'[v] = doing'[w] => doing[v] = doing[w]
    BY <2>1, <1>2
  <2> QED
    BY <2>1, <2>2, <2>3, <2>4 DEF Quiet
<1>3. AttemptsFence'
  BY <1>2 DEF AttemptsFence
<1>4. ASSUME NEW r \in Runs
      PROVE  runs'[r].attempts <= runs'[r].maxAttempts + resumes'[r]
  <2>1. Quiet(runs[r], runs'[r]) /\ WellFormed(runs[r])
    BY DEF QuietRuns, RowsOK
  <2>2. runs'[r].maxAttempts \in Nat /\ runs[r].maxAttempts \in Nat
        /\ runs[r].attempts \in Nat /\ resumes[r] \in Nat
    BY <2>1, WellFormedTyped DEF Quiet, TypeOK
  <2> QED
    BY <2>1, <2>2 DEF Quiet, AttemptBudget
<1>5. AttemptBudget'
  BY <1>4 DEF AttemptBudget
<1> QED BY <1>1, <1>3, <1>5

(* A start preserves the invariant: the new attempt number is above every  *)
(* number handed out for the run, so the fence moves up with it.           *)
LEMMA StartStep ==
    ASSUME IInv, NEW w \in Workers, NEW r \in Runs, NEW row, NEW event,
           Start(w, r, row, event), WellFormed(row),
           row.claimedBy = w, row.attempts = runs[r].attempts + 1,
           resumes' \in [Runs -> Nat],
           \A q \in Runs \ {r} : resumes'[q] = resumes[q],
           row.attempts <= row.maxAttempts + resumes'[r]
    PROVE  RowsOK' /\ AttemptsFence' /\ AttemptBudget'
<1> USE DEF IInv
<1>1. /\ runs' = [runs EXCEPT ![r] = row]
      /\ doing' = [doing EXCEPT ![w] = r]
      /\ attempt' = [attempt EXCEPT ![w] = row.attempts]
  BY DEF Start, SetRow
<1>2. /\ runs \in [Runs -> Row] /\ doing \in [Workers -> Runs \cup {NoRun}]
      /\ attempt \in [Workers -> Nat] /\ resumes \in [Runs -> Nat]
  BY DEF TypeOK
<1>3. runs'[r] = row /\ \A q \in Runs \ {r} : runs'[q] = runs[q]
  BY <1>1, <1>2
<1>4. row.attempts \in Nat /\ runs[r].attempts \in Nat
  BY WellFormedTyped DEF RowsOK
<1>5. RowsOK'
  BY <1>3 DEF RowsOK
<1>6. /\ doing'[w] = r /\ attempt'[w] = row.attempts
      /\ \A v \in Workers \ {w} : doing'[v] = doing[v] /\ attempt'[v] = attempt[v]
  BY <1>1, <1>2
<1>7. \A v \in Workers : doing[v] = r => attempt[v] < row.attempts
  <2> SUFFICES ASSUME NEW v \in Workers, doing[v] = r
               PROVE  attempt[v] < row.attempts
    OBVIOUS
  <2>1. attempt[v] <= runs[r].attempts /\ attempt[v] \in Nat
    BY <1>2, NoRunAssumption DEF AttemptsFence
  <2> QED
    BY <2>1, <1>4
<1>8. ASSUME NEW v \in Workers, doing'[v] # NoRun
      PROVE  LET q == doing'[v] IN
             /\ attempt'[v] <= runs'[q].attempts
             /\ (attempt'[v] = runs'[q].attempts /\ runs'[q].status = "running")
                   => runs'[q].claimedBy = v
             /\ \A u \in Workers \ {v} : doing'[u] = q => attempt'[u] # attempt'[v]
  <2>1. CASE v = w
    <3>1. \A u \in Workers \ {v} : doing'[u] = r => attempt'[u] # attempt'[v]
      BY <2>1, <1>6, <1>7, <1>4, <1>2
    <3> QED
      BY <2>1, <3>1, <1>6, <1>3, <1>4
  <2>2. CASE v # w
    <3>1. doing'[v] = doing[v] /\ attempt'[v] = attempt[v] /\ doing[v] \in Runs
      BY <2>2, <1>6, <1>2, <1>8
    <3>2. /\ attempt[v] <= runs[doing[v]].attempts
          /\ (attempt[v] = runs[doing[v]].attempts
                /\ runs[doing[v]].status = "running")
               => runs[doing[v]].claimedBy = v
          /\ \A u \in Workers \ {v} : doing[u] = doing[v] => attempt[u] # attempt[v]
      BY <3>1, <1>8 DEF AttemptsFence
    <3>3. CASE doing[v] = r
      <4>1. attempt[v] < row.attempts /\ attempt[v] \in Nat
        BY <3>3, <1>7, <1>2
      <4>2. \A u \in Workers \ {v} : doing'[u] = r => attempt'[u] # attempt[v]
        <5> SUFFICES ASSUME NEW u \in Workers \ {v}, doing'[u] = r
                     PROVE  attempt'[u] # attempt[v]
          OBVIOUS
        <5>1. CASE u = w
          BY <5>1, <1>6, <4>1, <1>4
        <5>2. CASE u # w
          BY <5>2, <1>6, <3>2, <3>3
        <5> QED BY <5>1, <5>2
      <4> QED
        BY <3>1, <3>3, <4>1, <4>2, <1>3, <1>4
    <3>4. CASE doing[v] # r
      <4>1. runs'[doing[v]] = runs[doing[v]]
        BY <3>1, <3>4, <1>3
      <4>2. \A u \in Workers \ {v} :
              doing'[u] = doing[v] => doing[u] = doing[v] /\ attempt'[u] = attempt[u]
        BY <3>4, <1>6
      <4> QED
        BY <3>1, <3>2, <4>1, <4>2
    <3> QED BY <3>3, <3>4
  <2> QED BY <2>1, <2>2
<1>9. AttemptsFence'
  BY <1>8 DEF AttemptsFence
<1>10. AttemptBudget'
  BY <1>3 DEF AttemptBudget
<1> QED BY <1>5, <1>9, <1>10

-----------------------------------------------------------------------------
(* The rows the quiet actions write.                                       *)

(* pause, finish, cancel, retry and the sweep write a quiet row, each under *)
(* its WHERE clause.                                                       *)
LEMMA QuietRows ==
    ASSUME NEW row, WellFormed(row)
    PROVE  /\ Pausable(row) => Quiet(row, Paused(row))
           /\ \A st \in TERMINAL_STATUSES :
                Finishable(row) => Quiet(row, Finished(row, st))
           /\ Cancellable(row) => Quiet(row, Cancelled(row))
           /\ Retriable(row) => Quiet(row, Retried(row))
           /\ Abandonable(row) => Quiet(row, Abandoned(row))
<1>1. ASSUME NEW st \in Status \ {"running", "absent"}
      PROVE  Quiet(row, [row EXCEPT !.status = st, !.lease = "none"])
  <2> DEFINE new == [row EXCEPT !.status = st, !.lease = "none"]
  <2>1. /\ WellFormed(new) /\ new.status # "running"
        /\ new.attempts = row.attempts /\ new.maxAttempts = row.maxAttempts
    BY <1>1, ReleasedFacts
  <2>2. row.maxAttempts \in Nat
    BY WellFormedTyped
  <2>3. Quiet(row, new)
    <3> HIDE DEF new
    <3> QED
      BY <2>1, <2>2 DEF Quiet
  <2> QED
    BY <2>3
<1>2. /\ "waiting_approval" \in Status \ {"running", "absent"}
      /\ TERMINAL_STATUSES \subseteq Status \ {"running", "absent"}
      /\ "cancelled" \in Status \ {"running", "absent"}
      /\ "abandoned" \in Status \ {"running", "absent"}
  BY DEF Status, TERMINAL_STATUSES
<1>3. Quiet(row, Paused(row))
  BY <1>1, <1>2 DEF Paused
<1>4. \A st \in TERMINAL_STATUSES : Quiet(row, Finished(row, st))
  BY <1>1, <1>2 DEF Finished
<1>5. Quiet(row, Cancelled(row))
  BY <1>1, <1>2 DEF Cancelled
<1>6. Quiet(row, Abandoned(row))
  BY <1>1, <1>2 DEF Abandoned
<1>7. Quiet(row, Retried(row))
  BY RetriedFacts DEF Quiet
<1> QED BY <1>3, <1>4, <1>5, <1>6, <1>7

(* Renewal and expiry move the lease of a running row.                     *)
LEMMA QuietLease ==
    ASSUME NEW row, WellFormed(row), row.status = "running",
           NEW l \in {"live", "expired"}
    PROVE  Quiet(row, [row EXCEPT !.lease = l])
BY LeaseFacts, WellFormedTyped DEF Quiet, Lease

(* create: the row was absent and had no attempt.                          *)
LEMMA QuietCreate ==
    ASSUME NEW row, WellFormed(row), row.status = "absent",
           NEW max \in Nat \ {0}
    PROVE  Quiet(row, PendingRow(max))
BY PendingFacts, WellFormedTyped DEF Quiet, WellFormed

-----------------------------------------------------------------------------
(* One lemma per action: it preserves the types and is of its kind.        *)

(* The empty table and idle workers satisfy the invariant.                 *)
LEMMA InitIInv == Init => IInv
<1> SUFFICES ASSUME Init PROVE IInv
  OBVIOUS
<1>1. \A r \in Runs : runs[r] = AbsentRow
  BY DEF Init
<1>2. RowsOK
  BY <1>1, AbsentFacts DEF RowsOK
<1>3. TypeOK
  BY AbsentFacts, WellFormedTyped DEF Init, TypeOK
<1>4. AttemptsFence
  BY DEF Init, AttemptsFence
<1>5. AttemptBudget
  BY <1>1, AbsentFacts DEF Init, AttemptBudget
<1> QED BY <1>2, <1>3, <1>4, <1>5 DEF IInv

(* create touches a row that was absent: the table stays well formed, fenced *)
(* and within the budget.                                                  *)
LEMMA CreateStep ==
    ASSUME IInv, NEW a \in Actors, NEW r \in Runs, Create(a, r)
    PROVE  TypeOK' /\ QuietRuns
<1> USE DEF IInv
<1>1. PICK max \in MaxAttemptsOf : SetRow(r, PendingRow(max))
  BY DEF Create
<1>2. Quiet(runs[r], PendingRow(max))
  BY QuietCreate, BoundAssumption DEF Create, RowsOK
<1>3. QuietRuns
  BY <1>1, <1>2, QuietSet
<1>4. owed' \in [Actors -> SUBSET (Runs \X Events)]
  BY DEF Create, Owe, TypeOK, Events
<1> QED BY <1>3, <1>4 DEF Create, TypeOK, QuietRuns

(* A start leaves every variable well typed.                               *)
LEMMA StartTyped ==
    ASSUME IInv, NEW w \in Workers, NEW r \in Runs, NEW row, WellFormed(row),
           NEW event \in Events, Start(w, r, row, event)
    PROVE  /\ runs' \in [Runs -> Row]
           /\ owed' \in [Actors -> SUBSET (Runs \X Events)]
           /\ doing' \in [Workers -> Runs \cup {NoRun}]
           /\ attempt' \in [Workers -> Nat]
<1>1. row \in Row /\ row.attempts \in Nat
  BY WellFormedTyped
<1> QED
  BY <1>1 DEF IInv, Start, SetRow, Owe, TypeOK, Actors

(* claim preserves the invariant: its WHERE clause leaves an attempt to spend. *)
LEMMA ClaimStep ==
    ASSUME IInv, NEW w \in Workers, NEW r \in Runs, Claim(w, r)
    PROVE  TypeOK' /\ RowsOK' /\ AttemptsFence' /\ AttemptBudget'
<1> DEFINE row == Claimed(runs[r], w)
<1>1. WellFormed(runs[r]) /\ TypeOK
  BY DEF IInv, RowsOK
<1>2. /\ WellFormed(row) /\ row.claimedBy = w
      /\ row.attempts = runs[r].attempts + 1
      /\ row.maxAttempts = runs[r].maxAttempts
  BY <1>1, ClaimedFacts
<1>3. Start(w, r, row, "claimed") /\ resumes' = resumes /\ Claimable(runs[r])
  BY DEF Claim
<1>4. row.attempts <= row.maxAttempts + resumes'[r]
  BY <1>1, <1>2, <1>3, WellFormedTyped DEF Claimable, TypeOK
<1> HIDE DEF row
<1>5. RowsOK' /\ AttemptsFence' /\ AttemptBudget'
  BY <1>1, <1>2, <1>3, <1>4, StartStep DEF TypeOK
<1>6. TypeOK'
  BY <1>1, <1>2, <1>3, StartTyped DEF TypeOK, Start, Events
<1> QED BY <1>5, <1>6

(* resume_waiting preserves the invariant: the attempt it adds is charged to *)
(* the resumption.                                                         *)
LEMMA ResumeStep ==
    ASSUME IInv, NEW w \in Workers, NEW r \in Runs, ResumeWaiting(w, r)
    PROVE  TypeOK' /\ RowsOK' /\ AttemptsFence' /\ AttemptBudget'
<1> DEFINE row == Resumed(runs[r], w)
<1>1. WellFormed(runs[r]) /\ TypeOK
  BY DEF IInv, RowsOK
<1>2. /\ WellFormed(row) /\ row.claimedBy = w
      /\ row.attempts = runs[r].attempts + 1
      /\ row.maxAttempts = runs[r].maxAttempts
  BY <1>1, ResumedFacts
<1>3. /\ Start(w, r, row, "resumed")
      /\ resumes' = [resumes EXCEPT ![r] = resumes[r] + 1]
  BY DEF ResumeWaiting
<1>4. /\ resumes' \in [Runs -> Nat] /\ resumes'[r] = resumes[r] + 1
      /\ \A q \in Runs \ {r} : resumes'[q] = resumes[q]
  BY <1>1, <1>3 DEF TypeOK
<1>5. row.attempts <= row.maxAttempts + resumes'[r]
  <2>1. runs[r].attempts <= runs[r].maxAttempts + resumes[r]
    BY DEF IInv, AttemptBudget
  <2>2. /\ runs[r].attempts \in Nat /\ runs[r].maxAttempts \in Nat
        /\ resumes[r] \in Nat
    BY <1>1, WellFormedTyped DEF TypeOK
  <2> HIDE DEF row
  <2> QED BY <1>2, <1>4, <2>1, <2>2
<1> HIDE DEF row
<1>6. RowsOK' /\ AttemptsFence' /\ AttemptBudget'
  BY <1>2, <1>3, <1>4, <1>5, StartStep
<1>7. TypeOK'
  BY <1>1, <1>2, <1>3, <1>4, StartTyped DEF TypeOK, Start, Events
<1> QED BY <1>6, <1>7

(* What a step that is not a start keeps, beside the table.                *)
Harmless ==
    /\ TypeOK'
    /\ QuietRuns
    /\ resumes' = resumes
    /\ attempt' = attempt
    /\ \A w \in Workers : doing'[w] \in {doing[w], NoRun}

(* A typed quiet step that hands out no attempt preserves the invariant.   *)
LEMMA HarmlessStep ==
    ASSUME IInv, Harmless
    PROVE  IInv'
<1>1. RowsOK' /\ AttemptsFence' /\ AttemptBudget'
  BY QuietStep DEF Harmless, TypeOK
<1> QED BY <1>1 DEF Harmless, IInv

(* heartbeat renews the lease of a running row and nothing else.           *)
LEMMA HeartbeatStep ==
    ASSUME IInv, NEW w \in Workers, Heartbeat(w)
    PROVE  Harmless
<1> DEFINE r == doing[w]
<1>1. r \in Runs /\ WellFormed(runs[r]) /\ runs[r].status = "running"
  BY DEF Heartbeat, Beatable, IInv, TypeOK, RowsOK
<1>2. SetRow(r, [runs[r] EXCEPT !.lease = "live"])
  BY DEF Heartbeat, Beaten
<1>3. Quiet(runs[r], [runs[r] EXCEPT !.lease = "live"])
  BY <1>1, QuietLease
<1>4. QuietRuns
  BY <1>1, <1>2, <1>3, QuietSet DEF IInv
<1> QED
  BY <1>4 DEF Heartbeat, IInv, TypeOK, QuietRuns, Harmless

(* The passing of time expires the lease of a running row and nothing else. *)
LEMMA ExpiryStep ==
    ASSUME IInv, NEW r \in Runs, LeaseExpires(r)
    PROVE  Harmless
<1>1. WellFormed(runs[r]) /\ runs[r].status = "running"
  BY DEF LeaseExpires, IInv, RowsOK, WellFormed
<1>2. SetRow(r, [runs[r] EXCEPT !.lease = "expired"])
  BY DEF LeaseExpires
<1>3. Quiet(runs[r], [runs[r] EXCEPT !.lease = "expired"])
  BY <1>1, QuietLease
<1>4. QuietRuns
  BY <1>2, <1>3, QuietSet DEF IInv
<1> QED
  BY <1>4 DEF LeaseExpires, IInv, TypeOK, QuietRuns, Harmless

(* A worker that leaves its run writes a quiet row or none.                *)
LEMMA LeaveStep ==
    ASSUME IInv, NEW w \in Workers, NEW applies \in BOOLEAN, NEW row,
           NEW event \in Events, Leave(w, applies, row, event),
           doing[w] \in Runs /\ applies => Quiet(runs[doing[w]], row)
    PROVE  Harmless
<1>1. doing[w] \in Runs
  BY DEF Leave, IInv, TypeOK
<1>2. QuietRuns
  <2>1. CASE applies /\ SetRow(doing[w], row)
    BY <1>1, <2>1, QuietSet DEF IInv
  <2>2. CASE runs' = runs
    BY <2>2, QuietSame DEF IInv
  <2> QED BY <2>1, <2>2 DEF Leave
<1>3. owed' \in [Actors -> SUBSET (Runs \X Events)]
  BY <1>1 DEF Leave, Owe, IInv, TypeOK, Actors
<1>4. /\ doing' \in [Workers -> Runs \cup {NoRun}]
      /\ \A v \in Workers : doing'[v] \in {doing[v], NoRun}
  BY DEF Leave, IInv, TypeOK
<1> QED
  BY <1>2, <1>3, <1>4 DEF Leave, IInv, TypeOK, QuietRuns, Harmless

(* pause_for_approval is harmless, also when a zombie sends it.            *)
LEMMA PauseStep ==
    ASSUME IInv, NEW w \in Workers, PauseForApproval(w)
    PROVE  Harmless
<1>1. Leave(w, Pausable(runs[doing[w]]), Paused(runs[doing[w]]),
            "waiting_approval")
  BY DEF PauseForApproval
<1>2. doing[w] \in Runs /\ Pausable(runs[doing[w]])
        => Quiet(runs[doing[w]], Paused(runs[doing[w]]))
  BY QuietRows DEF IInv, RowsOK
<1>3. Pausable(runs[doing[w]]) \in BOOLEAN
  BY DEF Pausable
<1> QED
  BY <1>1, <1>2, <1>3, LeaveStep DEF Events

(* finish is harmless, also when a zombie sends it.                        *)
LEMMA FinishStep ==
    ASSUME IInv, NEW w \in Workers, NEW st \in Outcomes, Finish(w, st)
    PROVE  Harmless
<1>1. Leave(w, Finishable(runs[doing[w]]), Finished(runs[doing[w]], st),
            "finished")
  BY DEF Finish
<1>2. doing[w] \in Runs /\ Finishable(runs[doing[w]])
        => Quiet(runs[doing[w]], Finished(runs[doing[w]], st))
  BY QuietRows DEF IInv, RowsOK, Outcomes
<1>3. Finishable(runs[doing[w]]) \in BOOLEAN
  BY DEF Finishable
<1> QED
  BY <1>1, <1>2, <1>3, LeaveStep DEF Events

(* cancel and retry from the Console are harmless.                         *)
LEMMA ConsoleRowStep ==
    ASSUME IInv, NEW r \in Runs, Cancel(r) \/ Retry(r)
    PROVE  Harmless
<1>1. QuietRuns
  BY QuietRows, QuietSet DEF IInv, RowsOK, Cancel, Retry
<1>2. owed' \in [Actors -> SUBSET (Runs \X Events)]
  BY DEF Cancel, Retry, Owe, IInv, TypeOK, Actors, Events
<1> QED
  BY <1>1, <1>2 DEF Cancel, Retry, IInv, TypeOK, QuietRuns, Harmless

(* The SELECT of abandon_expired only reads the table.                     *)
LEMMA SelectStep ==
    ASSUME IInv, NEW w \in Workers, SelectExpired(w)
    PROVE  Harmless
<1>1. QuietRuns
  BY QuietSame DEF IInv, SelectExpired
<1> QED
  BY <1>1 DEF SelectExpired, IInv, TypeOK, QuietRuns, Harmless

(* Only rows that are still running are given up, however old the          *)
(* selection is.                                                           *)
LEMMA AbandonStep ==
    ASSUME IInv, NEW w \in Workers, AbandonSelected(w)
    PROVE  Harmless
<1>1. ASSUME NEW r \in Runs PROVE Quiet(runs[r], runs'[r])
  <2>1. WellFormed(runs[r])
    BY DEF IInv, RowsOK
  <2>2. \/ Abandonable(runs[r]) /\ runs'[r] = Abandoned(runs[r])
        \/ runs'[r] = runs[r]
    BY DEF AbandonSelected
  <2> QED BY <2>1, <2>2, QuietRows, QuietRefl
<1>2. runs' \in [Runs -> Row]
  <2>1. \A r \in Runs : runs'[r] \in Row
    BY <1>1, WellFormedTyped DEF Quiet
  <2> QED BY <2>1 DEF AbandonSelected
<1>3. QuietRuns
  BY <1>1, <1>2 DEF QuietRuns
<1>4. owed' \in [Actors -> SUBSET (Runs \X Events)]
  <2>1. expired[w] \X {"lease_expired"} \in SUBSET (Runs \X Events)
    BY DEF IInv, TypeOK, Events
  <2> QED BY <2>1 DEF AbandonSelected, IInv, TypeOK, Actors
<1>5. /\ expired' \in [Workers -> SUBSET Runs]
      /\ recovered' \in [Workers -> SUBSET Runs]
  BY DEF AbandonSelected, IInv, TypeOK
<1> QED
  BY <1>2, <1>3, <1>4, <1>5 DEF AbandonSelected, IInv, TypeOK, Harmless

(* Drift's retry of a recovered run is harmless, however stale its list.   *)
LEMMA RetryRecoveredStep ==
    ASSUME IInv, NEW w \in Workers, NEW r \in Runs, RetryRecovered(w, r)
    PROVE  Harmless
<1>1. QuietRuns
  <2>1. CASE Retriable(runs[r]) /\ SetRow(r, Retried(runs[r]))
    BY <2>1, QuietRows, QuietSet DEF IInv, RowsOK
  <2>2. CASE runs' = runs
    BY <2>2, QuietSame DEF IInv
  <2> QED BY <2>1, <2>2 DEF RetryRecovered
<1>2. owed' \in [Actors -> SUBSET (Runs \X Events)]
  BY DEF RetryRecovered, Owe, IInv, TypeOK, Actors, Events
<1>3. recovered' \in [Workers -> SUBSET Runs]
  BY DEF RetryRecovered, IInv, TypeOK
<1> QED
  BY <1>1, <1>2, <1>3 DEF RetryRecovered, IInv, TypeOK, QuietRuns, Harmless

(* append_event writes the log and leaves the table alone.                 *)
LEMMA AppendStep ==
    ASSUME IInv, NEW a \in Actors, AppendEvent(a)
    PROVE  Harmless
<1>1. QuietRuns
  BY QuietSame DEF IInv, AppendEvent
<1>2. PICK e \in owed[a] :
        /\ owed' = [owed EXCEPT ![a] = @ \ {e}]
        /\ logged' = IF e[2] \in Starts
                     THEN [logged EXCEPT ![e[1]] = @ + 1] ELSE logged
  BY DEF AppendEvent
<1>3. e \in Runs \X Events
  BY <1>2 DEF IInv, TypeOK
<1>4. logged' \in [Runs -> Nat]
  BY <1>2, <1>3 DEF IInv, TypeOK
<1>5. owed' \in [Actors -> SUBSET (Runs \X Events)]
  BY <1>2 DEF IInv, TypeOK
<1> QED
  BY <1>1, <1>4, <1>5 DEF AppendEvent, IInv, TypeOK, QuietRuns, Harmless

(* A crash loses what the worker had in memory and leaves the table alone. *)
LEMMA CrashStep ==
    ASSUME IInv, NEW w \in Workers, Crash(w)
    PROVE  Harmless
<1>1. QuietRuns
  BY QuietSame DEF IInv, Crash
<1> QED
  BY <1>1 DEF Crash, IInv, TypeOK, QuietRuns, Harmless, Actors

(* Every step preserves the invariant: one case per action.                *)
LEMMA NextIInv == IInv /\ [Next]_vars => IInv'
<1> SUFFICES ASSUME IInv, [Next]_vars PROVE IInv'
  OBVIOUS
<1>1. ASSUME NEW a \in Actors, NEW r \in Runs, Create(a, r) PROVE IInv'
  BY <1>1, CreateStep, HarmlessStep DEF Create, Harmless
<1>2. ASSUME NEW w \in Workers, WorkerStep(w) PROVE IInv'
  <2>1. ASSUME NEW r \in Runs, Create(w, r) PROVE IInv'
    BY <2>1, <1>1 DEF Actors
  <2>2. ASSUME NEW r \in Runs, Claim(w, r) \/ ResumeWaiting(w, r) PROVE IInv'
    BY <2>2, ClaimStep, ResumeStep DEF IInv
  <2>3. ASSUME NEW r \in Runs, RetryRecovered(w, r) PROVE IInv'
    BY <2>3, RetryRecoveredStep, HarmlessStep
  <2>4. ASSUME NEW st \in Outcomes, Finish(w, st) PROVE IInv'
    BY <2>4, FinishStep, HarmlessStep
  <2>5. ASSUME \/ Heartbeat(w) \/ PauseForApproval(w) \/ SelectExpired(w)
               \/ AbandonSelected(w) \/ Crash(w)
        PROVE  IInv'
    BY <2>5, HeartbeatStep, PauseStep, SelectStep, AbandonStep, CrashStep,
       HarmlessStep
  <2> QED
    BY <1>2, <2>1, <2>2, <2>3, <2>4, <2>5 DEF WorkerStep
<1>3. ASSUME ConsoleStep PROVE IInv'
  BY <1>1, <1>3, ConsoleRowStep, HarmlessStep DEF ConsoleStep, Actors
<1>4. ASSUME NEW a \in Actors, AppendEvent(a) PROVE IInv'
  BY <1>4, AppendStep, HarmlessStep
<1>5. ASSUME NEW r \in Runs, LeaseExpires(r) PROVE IInv'
  BY <1>5, ExpiryStep, HarmlessStep
<1>6. ASSUME UNCHANGED vars PROVE IInv'
  BY <1>6, QuietSame, HarmlessStep DEF vars, IInv, TypeOK, Harmless
<1> QED
  BY <1>2, <1>3, <1>4, <1>5, <1>6 DEF Next

-----------------------------------------------------------------------------
(* The theorems.                                                           *)

(* The inductive invariant holds in every reachable state.                 *)
THEOREM Invariance == Spec => []IInv
BY InitIInv, NextIInv, PTL DEF Spec

(* Types: the table, the log and what the workers hold stay well typed.    *)
THEOREM TypeCorrect == Spec => []TypeOK
<1>1. IInv => TypeOK
  BY DEF IInv
<1> QED BY <1>1, Invariance, PTL

(* A run has a lease exactly while it is running, under a worker's name,   *)
(* so no running run is invisible to abandon_expired.                      *)
THEOREM LeaseCorrect == Spec => []LeaseIffRunning
<1>1. IInv => LeaseIffRunning
  BY DEF IInv, RowsOK, WellFormed, LeaseIffRunning
<1> QED BY <1>1, Invariance, PTL

(* Attempt numbers tell the current executor of a run from its zombies.    *)
THEOREM FenceCorrect == Spec => []AttemptsFence
<1>1. IInv => AttemptsFence
  BY DEF IInv
<1> QED BY <1>1, Invariance, PTL

(* Attempts exceed max_attempts only by the resumptions after approvals.   *)
THEOREM BudgetCorrect == Spec => []AttemptBudget
<1>1. IInv => AttemptBudget
  BY DEF IInv
<1> QED BY <1>1, Invariance, PTL

-----------------------------------------------------------------------------
(* How a step moves one row: the case split behind the last two theorems.  *)
RowMoves(old, new) ==
    \/ new = old
    \/ old.status = "absent" /\ new.status = "pending" /\ new.attempts = 0
    \/ /\ old.status \in {"pending", "abandoned", "waiting_approval"}
       /\ new.status = "running" /\ new.attempts = old.attempts + 1
    \/ /\ old.status = "running" /\ new.attempts = old.attempts
       /\ new.status \in {"running", "waiting_approval"}
    \/ /\ old.status \in {"running", "pending", "abandoned", "waiting_approval"}
       /\ new.status \in Outcomes /\ new.attempts = old.attempts
    \/ /\ Retriable(old) /\ Claimable(new)
       /\ new.status = "pending" /\ new.attempts = old.attempts

(* A step either moves one row, or gives up some running rows.             *)
OneRowMoves ==
    \E r \in Runs : /\ runs' = [runs EXCEPT ![r] = runs'[r]]
                    /\ RowMoves(runs[r], runs'[r])

SomeGivenUp ==
    \E S \in SUBSET Runs :
        /\ \A r \in S : /\ runs[r].status = "running"
                         /\ runs'[r].status = "abandoned"
                         /\ runs'[r].attempts = runs[r].attempts
        /\ \A r \in Runs \ S : runs'[r] = runs[r]

(* An UPDATE of one row moves that row only.                               *)
LEMMA SetMoves ==
    ASSUME TypeOK, NEW r \in Runs, NEW row, SetRow(r, row),
           RowMoves(runs[r], row)
    PROVE  OneRowMoves
<1>1. runs' = [runs EXCEPT ![r] = row] /\ runs'[r] = row
  BY DEF SetRow, TypeOK
<1> QED BY <1>1 DEF OneRowMoves

(* Each UPDATE of the repository, under its WHERE clause, is one of the moves. *)
LEMMA RowMovesOf ==
    ASSUME NEW row, WellFormed(row)
    PROVE  /\ \A max \in Nat : row.status = "absent" => RowMoves(row, PendingRow(max))
           /\ \A w \in Workers : Claimable(row) => RowMoves(row, Claimed(row, w))
           /\ \A w \in Workers : Resumable(row) => RowMoves(row, Resumed(row, w))
           /\ \A l \in {"live", "expired"} :
                row.status = "running" => RowMoves(row, [row EXCEPT !.lease = l])
           /\ Pausable(row) => RowMoves(row, Paused(row))
           /\ \A st \in Outcomes :
                Finishable(row) => RowMoves(row, Finished(row, st))
           /\ Cancellable(row) => RowMoves(row, Cancelled(row))
           /\ Retriable(row) => RowMoves(row, Retried(row))
<1>1. ASSUME NEW max \in Nat, row.status = "absent"
      PROVE  RowMoves(row, PendingRow(max))
  BY <1>1, PendingFacts DEF RowMoves
<1>2. ASSUME NEW w \in Workers, Claimable(row)
      PROVE  RowMoves(row, Claimed(row, w))
  BY <1>2, ClaimedFacts DEF RowMoves, Claimable
<1>3. ASSUME NEW w \in Workers, Resumable(row)
      PROVE  RowMoves(row, Resumed(row, w))
  BY <1>3, ResumedFacts DEF RowMoves, Resumable
<1>4. ASSUME NEW l \in {"live", "expired"}, row.status = "running"
      PROVE  RowMoves(row, [row EXCEPT !.lease = l])
  <2>1. l \in Lease \ {"none"}
    BY DEF Lease
  <2> QED BY <1>4, <2>1, LeaseFacts DEF RowMoves
<1>5. ASSUME NEW st \in Status \ {"running", "absent"}
      PROVE  LET new == [row EXCEPT !.status = st, !.lease = "none"] IN
             new.status = st /\ new.attempts = row.attempts
  BY <1>5, ReleasedFacts
<1>6. /\ "waiting_approval" \in Status \ {"running", "absent"}
      /\ Outcomes \subseteq Status \ {"running", "absent"}
      /\ "cancelled" \in Outcomes
  BY DEF Outcomes, Status, TERMINAL_STATUSES
<1>7. Pausable(row) => RowMoves(row, Paused(row))
  BY <1>5, <1>6 DEF RowMoves, Pausable, Paused
<1>8. ASSUME NEW st \in Outcomes, Finishable(row)
      PROVE  RowMoves(row, Finished(row, st))
  BY <1>5, <1>6, <1>8 DEF RowMoves, Finishable, Finished
<1>9. Cancellable(row) => RowMoves(row, Cancelled(row))
  BY <1>5, <1>6 DEF RowMoves, Cancellable, Cancelled, WellFormed, Row, Status,
                    TERMINAL_STATUSES
<1>10. Retriable(row) => RowMoves(row, Retried(row))
  BY RetriedFacts DEF RowMoves
<1> QED
  BY <1>1, <1>2, <1>3, <1>4, <1>7, <1>8, <1>9, <1>10

(* Every step of the store leaves the table, moves one row, or is a sweep that *)
(* gives up running rows.                                                  *)
LEMMA NextMoves ==
    ASSUME IInv, [Next]_vars
    PROVE  runs' = runs \/ OneRowMoves \/ SomeGivenUp
<1>1. ASSUME NEW a \in Actors, NEW r \in Runs, Create(a, r) PROVE OneRowMoves
  <2>1. PICK max \in MaxAttemptsOf : SetRow(r, PendingRow(max))
    BY <1>1 DEF Create
  <2>2. RowMoves(runs[r], PendingRow(max))
    BY <1>1, RowMovesOf, BoundAssumption DEF Create, IInv, RowsOK
  <2> QED BY <2>1, <2>2, SetMoves DEF IInv
<1>2. ASSUME NEW w \in Workers, NEW r \in Runs, Claim(w, r)
      PROVE  OneRowMoves
  <2>1. SetRow(r, Claimed(runs[r], w)) /\ Claimable(runs[r])
    BY <1>2 DEF Claim, Start
  <2> QED BY <2>1, RowMovesOf, SetMoves DEF IInv, RowsOK
<1>3. ASSUME NEW w \in Workers, NEW r \in Runs, ResumeWaiting(w, r)
      PROVE  OneRowMoves
  <2>1. SetRow(r, Resumed(runs[r], w)) /\ Resumable(runs[r])
    BY <1>3 DEF ResumeWaiting, Start
  <2> QED BY <2>1, RowMovesOf, SetMoves DEF IInv, RowsOK
<1>4. ASSUME NEW w \in Workers, NEW r \in Runs, RetryRecovered(w, r)
      PROVE  runs' = runs \/ OneRowMoves
  BY <1>4, RowMovesOf, SetMoves DEF RetryRecovered, IInv, RowsOK
<1>5. ASSUME NEW w \in Workers, Heartbeat(w) PROVE OneRowMoves
  <2>1. /\ doing[w] \in Runs /\ runs[doing[w]].status = "running"
        /\ SetRow(doing[w], [runs[doing[w]] EXCEPT !.lease = "live"])
    BY <1>5 DEF Heartbeat, Beatable, Beaten, IInv, TypeOK
  <2> QED BY <2>1, RowMovesOf, SetMoves DEF IInv, RowsOK
<1>6. ASSUME NEW r \in Runs, LeaseExpires(r) PROVE OneRowMoves
  <2>1. /\ runs[r].status = "running"
        /\ SetRow(r, [runs[r] EXCEPT !.lease = "expired"])
    BY <1>6 DEF LeaseExpires, IInv, RowsOK, WellFormed
  <2> QED BY <2>1, RowMovesOf, SetMoves DEF IInv, RowsOK
<1>7. ASSUME NEW w \in Workers, PauseForApproval(w)
      PROVE  runs' = runs \/ OneRowMoves
  <2>1. doing[w] \in Runs
    BY <1>7 DEF PauseForApproval, Leave, IInv, TypeOK
  <2>2. \/ runs' = runs
        \/ Pausable(runs[doing[w]]) /\ SetRow(doing[w], Paused(runs[doing[w]]))
    BY <1>7 DEF PauseForApproval, Leave
  <2> QED BY <2>1, <2>2, RowMovesOf, SetMoves DEF IInv, RowsOK
<1>8. ASSUME NEW w \in Workers, NEW st \in Outcomes, Finish(w, st)
      PROVE  runs' = runs \/ OneRowMoves
  <2>1. doing[w] \in Runs
    BY <1>8 DEF Finish, Leave, IInv, TypeOK
  <2>2. \/ runs' = runs
        \/ /\ Finishable(runs[doing[w]])
           /\ SetRow(doing[w], Finished(runs[doing[w]], st))
    BY <1>8 DEF Finish, Leave
  <2> QED BY <2>1, <2>2, RowMovesOf, SetMoves DEF IInv, RowsOK
<1>9. ASSUME NEW r \in Runs, Cancel(r) \/ Retry(r) PROVE OneRowMoves
  BY <1>9, RowMovesOf, SetMoves DEF Cancel, Retry, IInv, RowsOK
<1>10. ASSUME NEW w \in Workers, AbandonSelected(w) PROVE SomeGivenUp
  <2> DEFINE S == {r \in expired[w] : Abandonable(runs[r])}
  <2>1. /\ S \in SUBSET Runs
        /\ \A r \in S : runs[r].status = "running"
    BY DEF IInv, TypeOK, Abandonable
  <2>2. /\ \A r \in S : runs'[r] = Abandoned(runs[r])
        /\ \A r \in Runs \ S : runs'[r] = runs[r]
    BY <1>10, <2>1 DEF AbandonSelected
  <2>3. ASSUME NEW r \in S
        PROVE  /\ runs'[r].status = "abandoned"
               /\ runs'[r].attempts = runs[r].attempts
    <3>1. WellFormed(runs[r]) /\ "abandoned" \in Status \ {"running", "absent"}
      BY <2>1, <2>3 DEF IInv, RowsOK, Status, TERMINAL_STATUSES
    <3>2. /\ Abandoned(runs[r]).status = "abandoned"
          /\ Abandoned(runs[r]).attempts = runs[r].attempts
      BY <3>1, ReleasedFacts DEF Abandoned
    <3> QED BY <3>2, <2>2
  <2> QED BY <2>1, <2>2, <2>3 DEF SomeGivenUp
<1>11. ASSUME NEW w \in Workers, SelectExpired(w) \/ Crash(w) PROVE runs' = runs
  BY <1>11 DEF SelectExpired, Crash
<1>12. ASSUME NEW a \in Actors, AppendEvent(a) PROVE runs' = runs
  BY <1>12 DEF AppendEvent
<1>13. CASE UNCHANGED vars
  BY <1>13 DEF vars
<1>14. ASSUME NEW w \in Workers, WorkerStep(w)
       PROVE  runs' = runs \/ OneRowMoves \/ SomeGivenUp
  BY <1>14, <1>1, <1>2, <1>3, <1>4, <1>5, <1>7, <1>8, <1>10, <1>11
     DEF WorkerStep, Actors
<1> QED
  BY <1>1, <1>6, <1>9, <1>12, <1>13, <1>14 DEF Next, ConsoleStep, Actors

(* A succeeded run is never touched again, and a failed or cancelled one   *)
(* only by being made claimable, whatever zombie or sweep comes late.      *)
THEOREM OutcomesStand == Spec => OutcomeStands
<1> DEFINE Stands ==
      \A r \in Runs :
        /\ runs[r].status = "succeeded" => runs'[r] = runs[r]
        /\ (runs[r].status \in {"failed", "cancelled"} /\ runs'[r] # runs[r])
             => Claimable(runs'[r])
<1>1. IInv /\ [Next]_vars => [Stands]_runs
  <2> SUFFICES ASSUME IInv, [Next]_vars, NEW r \in Runs,
                      runs[r].status \in {"succeeded", "failed", "cancelled"},
                      runs'[r] # runs[r]
               PROVE  runs[r].status # "succeeded" /\ Claimable(runs'[r])
    OBVIOUS
  <2>1. CASE OneRowMoves
    <3>1. PICK q \in Runs : /\ runs' = [runs EXCEPT ![q] = runs'[q]]
                            /\ RowMoves(runs[q], runs'[q])
      BY <2>1 DEF OneRowMoves
    <3>2. q = r
      BY <3>1 DEF IInv, TypeOK
    <3> QED BY <3>1, <3>2 DEF RowMoves, Retriable
  <2>2. CASE SomeGivenUp
    BY <2>2 DEF SomeGivenUp
  <2> QED BY <2>1, <2>2, NextMoves
<1> QED BY <1>1, Invariance, PTL DEF Spec, OutcomeStands

(* The store implements the abstract life cycle: every step of it is one   *)
(* of RunLifecycle's or changes neither a status nor a grant count.        *)
THEOREM Refinement == Spec => ImplementsLifecycle
<1>1. Init => Lifecycle!Init
  BY AbsentFacts DEF Init, Lifecycle!Init
<1>2. IInv /\ [Next]_vars => [Lifecycle!Next]_(Lifecycle!lifecycleVars)
  <2> SUFFICES ASSUME IInv, [Next]_vars
               PROVE  [Lifecycle!Next]_(Lifecycle!lifecycleVars)
    OBVIOUS
  <2> USE DEF Lifecycle!lifecycleVars, Lifecycle!Next
  <2>1. CASE runs' = runs
    BY <2>1
  <2>2. CASE SomeGivenUp
    <3>1. PICK S \in SUBSET Runs :
            /\ \A r \in S : /\ runs[r].status = "running"
                             /\ runs'[r].status = "abandoned"
                             /\ runs'[r].attempts = runs[r].attempts
            /\ \A r \in Runs \ S : runs'[r] = runs[r]
      BY <2>2 DEF SomeGivenUp
    <3>2. Lifecycle!GiveUp(S)
      BY <3>1 DEF Lifecycle!GiveUp
    <3> QED BY <3>2
  <2>3. CASE OneRowMoves
    <3>1. PICK r \in Runs : /\ runs' = [runs EXCEPT ![r] = runs'[r]]
                            /\ RowMoves(runs[r], runs'[r])
      BY <2>3 DEF OneRowMoves
    <3>2. \A q \in Runs \ {r} : runs'[q] = runs[q]
      BY <3>1 DEF IInv, TypeOK
    <3>3. runs[r].status = "absent" => runs[r].attempts = 0
      BY DEF IInv, RowsOK, WellFormed
    <3> DEFINE old == runs[r]
               new == runs'[r]
    <3>4. CASE new.status = old.status /\ new.attempts = old.attempts
      BY <3>2, <3>4
    <3>5. CASE old.status = "absent" /\ new.status = "pending" /\ new.attempts = 0
      <4>1. Lifecycle!Submit(r)
        BY <3>2, <3>3, <3>5 DEF Lifecycle!Submit, Lifecycle!Move
      <4> QED BY <4>1
    <3>6. CASE /\ old.status \in {"pending", "abandoned", "waiting_approval"}
               /\ new.status = "running" /\ new.attempts = old.attempts + 1
      <4>1. Lifecycle!Grant(r)
        BY <3>2, <3>6 DEF Lifecycle!Grant
      <4> QED BY <4>1
    <3>7. CASE /\ old.status = "running" /\ new.attempts = old.attempts
               /\ new.status = "waiting_approval"
      <4>1. Lifecycle!Suspend(r)
        BY <3>2, <3>7 DEF Lifecycle!Suspend, Lifecycle!Move
      <4> QED BY <4>1
    <3>8. CASE /\ old.status \in {"running", "pending", "abandoned",
                                  "waiting_approval"}
               /\ new.status \in Outcomes /\ new.attempts = old.attempts
      <4>1. new.status \in {"succeeded", "failed", "cancelled"}
        BY <3>8 DEF Outcomes, TERMINAL_STATUSES
      <4>2. Lifecycle!Settle(r, new.status)
        BY <3>2, <3>8 DEF Lifecycle!Settle, Lifecycle!Move
      <4> QED BY <4>1, <4>2
    <3>9. CASE /\ Retriable(old) /\ new.status = "pending"
               /\ new.attempts = old.attempts
      <4>1. Lifecycle!Requeue(r)
        BY <3>2, <3>9 DEF Retriable, Lifecycle!Requeue, Lifecycle!Move
      <4> QED BY <4>1
    <3> QED
      BY <3>1, <3>4, <3>5, <3>6, <3>7, <3>8, <3>9 DEF RowMoves
  <2> QED BY <2>1, <2>2, <2>3, NextMoves
<1> QED
  BY <1>1, <1>2, Invariance, PTL DEF Spec, ImplementsLifecycle, Lifecycle!Spec

-----------------------------------------------------------------------------
(* The log against the attempts.  Each start owes one event and no other   *)
(* call is made before it is written, so the actors that owe a start count *)
(* the starts that are not yet told.  A sweep writes over what its worker  *)
(* owes, and must not find a start there.                                  *)

Plain(a) == \A e \in owed[a] : e[2] \notin Starts

OneStartEach == \A a \in Actors : \A e \in owed[a] : e[2] \in Starts => owed[a] = {e}

SweepOwesNoStart == \A w \in Workers : expired[w] # {} => Plain(w)

LogIInv ==
    /\ IInv
    /\ OneStartEach
    /\ SweepOwesNoStart
    /\ \A r \in Runs : IsFiniteSet(OwedStarts(r))
    /\ LogFollowsStarts

LEMMA InitLogIInv == Init => LogIInv
<1> SUFFICES ASSUME Init PROVE LogIInv
  OBVIOUS
<1>1. \A a \in Actors : owed[a] = {}
  BY DEF Init
<1>2. \A r \in Runs : OwedStarts(r) = {}
  BY <1>1 DEF OwedStarts
<1>3. OneStartEach /\ SweepOwesNoStart
  BY <1>1 DEF OneStartEach, SweepOwesNoStart, Plain, Init, Actors
<1>4. LogFollowsStarts
  BY <1>2, AbsentFacts, FS_EmptySet DEF Init, LogFollowsStarts
<1> QED BY <1>2, <1>3, <1>4, InitIInv, FS_EmptySet DEF LogIInv

\* Nobody comes to owe a start, and nobody who did owes it no more.
NoStartMoves ==
    \A a \in Actors : owed'[a] = owed[a] \/ (Plain(a) /\ Plain(a)')

\* The sweep is begun by workers that owe no start.
SweepsBegunClean ==
    \A w \in Workers : expired'[w] # {} => expired[w] # {} \/ Plain(w)'

LEMMA OwedSame ==
    ASSUME NoStartMoves, NEW r
    PROVE  OwedStarts(r)' = OwedStarts(r)
BY DEF NoStartMoves, Plain, OwedStarts

(* Steps that neither start a run nor write an event, crash apart.         *)
LEMMA LogQuietStep ==
    ASSUME LogIInv, IInv', QuietRuns, NoStartMoves, SweepsBegunClean,
           UNCHANGED <<logged, crashes>>
    PROVE  LogIInv'
<1>1. OneStartEach'
  BY DEF LogIInv, OneStartEach, NoStartMoves, Plain
<1>2. SweepOwesNoStart'
  BY DEF LogIInv, SweepOwesNoStart, SweepsBegunClean, NoStartMoves, Plain, Actors
<1>3. \A r \in Runs : OwedStarts(r)' = OwedStarts(r) /\ runs'[r].attempts = runs[r].attempts
  BY OwedSame DEF QuietRuns, Quiet
<1>4. \A r \in Runs : IsFiniteSet(OwedStarts(r)')
  BY <1>3 DEF LogIInv
<1>5. LogFollowsStarts'
  BY <1>3 DEF LogIInv, LogFollowsStarts
<1> QED BY <1>1, <1>2, <1>4, <1>5 DEF LogIInv

\* The numbers that the log's arithmetic is about.
LEMMA LogNumbers ==
    ASSUME LogIInv, NEW r \in Runs
    PROVE  /\ logged[r] \in Nat /\ crashes \in Nat /\ runs[r].attempts \in Nat
           /\ IsFiniteSet(OwedStarts(r)) /\ Cardinality(OwedStarts(r)) \in Nat
           /\ logged[r] + Cardinality(OwedStarts(r)) <= runs[r].attempts
           /\ runs[r].attempts <= logged[r] + Cardinality(OwedStarts(r)) + crashes
<1>1. logged[r] \in Nat /\ crashes \in Nat /\ runs[r].attempts \in Nat
  BY WellFormedTyped DEF LogIInv, IInv, TypeOK, RowsOK
<1>2. IsFiniteSet(OwedStarts(r)) /\ Cardinality(OwedStarts(r)) \in Nat
  BY FS_CardinalityType DEF LogIInv
<1> QED BY <1>1, <1>2 DEF LogIInv, LogFollowsStarts

(* A start: one attempt more, and one more start owed, of the same run.    *)
LEMMA LogStartStep ==
    ASSUME LogIInv, IInv', NEW w \in Workers, NEW r \in Runs, NEW row,
           NEW event \in Starts, Start(w, r, row, event),
           row.attempts = runs[r].attempts + 1
    PROVE  LogIInv'
<1>1. /\ runs' = [runs EXCEPT ![r] = row] /\ owed' = [owed EXCEPT ![w] = {<<r, event>>}]
      /\ UNCHANGED <<logged, crashes, expired>> /\ owed[w] = {} /\ expired[w] = {}
      /\ w \in Actors
  BY DEF Start, SetRow, Owe, Free, Ready, Actors
<1>2. owed'[w] = {<<r, event>>} /\ \A a \in Actors \ {w} : owed'[a] = owed[a]
  BY <1>1 DEF LogIInv, IInv, TypeOK
<1>3. OneStartEach'
  BY <1>2 DEF LogIInv, OneStartEach
<1>4. SweepOwesNoStart'
  BY <1>1, <1>2 DEF LogIInv, SweepOwesNoStart, Plain, Actors
<1>5. OwedStarts(r)' = OwedStarts(r) \cup {w} /\ w \notin OwedStarts(r)
  <2>1. \E e \in owed'[w] : e[1] = r /\ e[2] \in Starts
    BY <1>2
  <2>2. \A a \in Actors \ {w} : a \in OwedStarts(r)' <=> a \in OwedStarts(r)
    BY <1>2 DEF OwedStarts
  <2> QED BY <1>1, <2>1, <2>2 DEF OwedStarts
<1>6. \A q \in Runs \ {r} : OwedStarts(q)' = OwedStarts(q)
  BY <1>1, <1>2 DEF OwedStarts
<1>7. /\ runs'[r].attempts = runs[r].attempts + 1
      /\ \A q \in Runs \ {r} : runs'[q] = runs[q]
  BY <1>1 DEF LogIInv, IInv, TypeOK
<1>8. IsFiniteSet(OwedStarts(r)')
      /\ Cardinality(OwedStarts(r)') = Cardinality(OwedStarts(r)) + 1
  BY <1>5, LogNumbers, FS_AddElement
<1>9. ASSUME NEW q \in Runs
      PROVE  /\ IsFiniteSet(OwedStarts(q)')
             /\ logged'[q] + Cardinality(OwedStarts(q)') <= runs'[q].attempts
             /\ runs'[q].attempts <= logged'[q] + Cardinality(OwedStarts(q)') + crashes'
  <2>1. CASE q = r
    BY <1>1, <1>7, <1>8, <2>1, LogNumbers
  <2>2. CASE q # r
    BY <1>1, <1>6, <1>7, <2>2, LogNumbers
  <2> QED BY <2>1, <2>2
<1> QED BY <1>3, <1>4, <1>9 DEF LogIInv, LogFollowsStarts

(* append_event: a start that is owed becomes one that is told.            *)
LEMMA LogAppendStep ==
    ASSUME LogIInv, IInv', NEW a \in Actors, AppendEvent(a)
    PROVE  LogIInv'
<1>1. PICK e \in owed[a] :
        /\ owed' = [owed EXCEPT ![a] = @ \ {e}]
        /\ logged' = IF e[2] \in Starts
                     THEN [logged EXCEPT ![e[1]] = @ + 1] ELSE logged
        /\ UNCHANGED <<runs, expired, crashes>>
  BY DEF AppendEvent
<1>2. /\ owed'[a] = owed[a] \ {e} /\ \A b \in Actors \ {a} : owed'[b] = owed[b]
      /\ e \in Runs \X Events
  BY <1>1 DEF LogIInv, IInv, TypeOK
<1>3. OneStartEach'
  BY <1>2 DEF LogIInv, OneStartEach
<1>4. SweepOwesNoStart'
  BY <1>1, <1>2 DEF LogIInv, SweepOwesNoStart, Plain, Actors
<1>5. CASE e[2] \notin Starts
  <2>1. \A r \in Runs : OwedStarts(r)' = OwedStarts(r)
    BY <1>2, <1>5 DEF OwedStarts
  <2> QED BY <1>1, <1>3, <1>4, <1>5, <2>1 DEF LogIInv, LogFollowsStarts
<1>6. CASE e[2] \in Starts
  <2> DEFINE r == e[1]
  <2>1. r \in Runs /\ owed[a] = {e} /\ owed'[a] = {}
    BY <1>2, <1>6 DEF LogIInv, OneStartEach
  <2>2. OwedStarts(r)' = OwedStarts(r) \ {a} /\ a \in OwedStarts(r)
    BY <1>2, <1>6, <2>1 DEF OwedStarts
  <2>3. \A q \in Runs \ {r} : OwedStarts(q)' = OwedStarts(q)
    BY <1>2, <2>1 DEF OwedStarts
  <2>4. logged'[r] = logged[r] + 1 /\ \A q \in Runs \ {r} : logged'[q] = logged[q]
    BY <1>1, <1>6, <2>1 DEF LogIInv, IInv, TypeOK
  <2>5. IsFiniteSet(OwedStarts(r)')
        /\ Cardinality(OwedStarts(r)') = Cardinality(OwedStarts(r)) - 1
    BY <2>1, <2>2, LogNumbers, FS_RemoveElement
  <2>6. ASSUME NEW q \in Runs
        PROVE  /\ IsFiniteSet(OwedStarts(q)')
               /\ logged'[q] + Cardinality(OwedStarts(q)') <= runs'[q].attempts
               /\ runs'[q].attempts <= logged'[q] + Cardinality(OwedStarts(q)') + crashes'
    <3>1. CASE q = r
      BY <1>1, <2>4, <2>5, <3>1, LogNumbers
    <3>2. CASE q # r
      BY <1>1, <2>3, <2>4, <3>2, LogNumbers
    <3> QED BY <3>1, <3>2
  <2> QED BY <1>3, <1>4, <2>6 DEF LogIInv, LogFollowsStarts
<1> QED BY <1>5, <1>6

(* A crash loses at most one start of a run, and is counted.               *)
LEMMA LogCrashStep ==
    ASSUME LogIInv, IInv', NEW w \in Workers, Crash(w)
    PROVE  LogIInv'
<1>1. /\ owed' = [owed EXCEPT ![w] = {}] /\ crashes' = crashes + 1
      /\ expired' = [expired EXCEPT ![w] = {}] /\ UNCHANGED <<runs, logged>>
      /\ w \in Actors
  BY DEF Crash, Actors
<1>2. owed'[w] = {} /\ \A a \in Actors \ {w} : owed'[a] = owed[a]
  BY <1>1 DEF LogIInv, IInv, TypeOK
<1>3. OneStartEach'
  BY <1>2 DEF LogIInv, OneStartEach
<1>4. SweepOwesNoStart'
  BY <1>1, <1>2 DEF LogIInv, IInv, TypeOK, SweepOwesNoStart, Plain, Actors
<1>5. ASSUME NEW q \in Runs
      PROVE  /\ IsFiniteSet(OwedStarts(q)')
             /\ logged'[q] + Cardinality(OwedStarts(q)') <= runs'[q].attempts
             /\ runs'[q].attempts <= logged'[q] + Cardinality(OwedStarts(q)') + crashes'
  <2>1. OwedStarts(q)' = OwedStarts(q) \ {w}
    BY <1>2 DEF OwedStarts
  <2>2. /\ IsFiniteSet(OwedStarts(q)')
        /\ \/ Cardinality(OwedStarts(q)') = Cardinality(OwedStarts(q))
           \/ Cardinality(OwedStarts(q)') = Cardinality(OwedStarts(q)) - 1
    BY <2>1, LogNumbers, FS_RemoveElement
  <2> QED BY <1>1, <2>2, LogNumbers
<1> QED BY <1>3, <1>4, <1>5 DEF LogIInv, LogFollowsStarts

\* An actor that was ready and owes an event that is no start.
LEMMA OwePlain ==
    ASSUME TypeOK, NEW a \in Actors, Ready(a), NEW r, NEW event,
           event \notin Starts, Owe(a, r, event)
    PROVE  NoStartMoves
BY DEF TypeOK, Ready, Owe, NoStartMoves, Plain

LEMMA OwedAlone ==
    ASSUME owed' = owed
    PROVE  NoStartMoves
BY DEF NoStartMoves

LEMMA SweepsAlone ==
    ASSUME expired' = expired
    PROVE  SweepsBegunClean
BY DEF SweepsBegunClean

(* Every step preserves the log's invariant: one case per kind of step.    *)
LEMMA NextLogIInv == LogIInv /\ [Next]_vars => LogIInv'
<1> SUFFICES ASSUME LogIInv, [Next]_vars PROVE LogIInv'
  OBVIOUS
<1>0. IInv /\ IInv' /\ TypeOK
  BY NextIInv DEF LogIInv, IInv
<1>1. ASSUME NEW a \in Actors, NEW r \in Runs, Create(a, r) PROVE LogIInv'
  <2>1. NoStartMoves
    BY <1>0, <1>1, OwePlain DEF Create, Starts
  <2>2. UNCHANGED <<logged, crashes, expired>>
    BY <1>1 DEF Create
  <2> QED BY <1>0, <1>1, <2>1, <2>2, CreateStep, SweepsAlone, LogQuietStep
<1>2. ASSUME NEW w \in Workers, NEW r \in Runs, Claim(w, r) PROVE LogIInv'
  <2>1. Claimed(runs[r], w).attempts = runs[r].attempts + 1
    BY <1>0, ClaimedFacts DEF IInv, RowsOK
  <2> QED BY <1>0, <1>2, <2>1, LogStartStep DEF Claim, Starts
<1>3. ASSUME NEW w \in Workers, NEW r \in Runs, ResumeWaiting(w, r) PROVE LogIInv'
  <2>1. Resumed(runs[r], w).attempts = runs[r].attempts + 1
    BY <1>0, ResumedFacts DEF IInv, RowsOK
  <2> QED BY <1>0, <1>3, <2>1, LogStartStep DEF ResumeWaiting, Starts
<1>4. ASSUME NEW w \in Workers, NEW r \in Runs, RetryRecovered(w, r) PROVE LogIInv'
  <2>1. NoStartMoves
    BY <1>0, <1>4, OwePlain, OwedAlone DEF RetryRecovered, Starts, Actors
  <2>2. UNCHANGED <<logged, crashes, expired>>
    BY <1>4 DEF RetryRecovered
  <2> QED BY <1>0, <1>4, <2>1, <2>2, RetryRecoveredStep, SweepsAlone, LogQuietStep
             DEF Harmless
<1>5. ASSUME NEW w \in Workers, Heartbeat(w) PROVE LogIInv'
  <2>1. UNCHANGED <<owed, logged, crashes, expired>>
    BY <1>5 DEF Heartbeat
  <2> QED BY <1>0, <1>5, <2>1, HeartbeatStep, OwedAlone, SweepsAlone, LogQuietStep
             DEF Harmless
<1>6. ASSUME NEW w \in Workers, NEW applies, NEW row, NEW event,
             Leave(w, applies, row, event), event \notin Starts, QuietRuns
      PROVE  LogIInv'
  <2>1. NoStartMoves
    BY <1>0, <1>6, OwePlain, OwedAlone DEF Leave, Actors
  <2>2. UNCHANGED <<logged, crashes, expired>>
    BY <1>6 DEF Leave
  <2> QED BY <1>0, <1>6, <2>1, <2>2, SweepsAlone, LogQuietStep
<1>7. ASSUME NEW w \in Workers, PauseForApproval(w) PROVE LogIInv'
  BY <1>0, <1>6, <1>7, PauseStep DEF PauseForApproval, Harmless, Starts
<1>8. ASSUME NEW w \in Workers, NEW st \in Outcomes, Finish(w, st) PROVE LogIInv'
  BY <1>0, <1>6, <1>8, FinishStep DEF Finish, Harmless, Starts
<1>9. ASSUME NEW w \in Workers, SelectExpired(w) PROVE LogIInv'
  <2>1. UNCHANGED <<owed, logged, crashes>> /\ owed[w] = {}
        /\ \A v \in Workers \ {w} : expired'[v] = expired[v]
    BY <1>0, <1>9 DEF SelectExpired, Free, Ready, TypeOK
  <2>2. SweepsBegunClean
    BY <2>1 DEF SweepsBegunClean, Plain
  <2> QED BY <1>0, <1>9, <2>1, <2>2, SelectStep, OwedAlone, LogQuietStep DEF Harmless
<1>10. ASSUME NEW w \in Workers, AbandonSelected(w) PROVE LogIInv'
  <2>1. /\ owed'[w] = expired[w] \X {"lease_expired"}
        /\ \A a \in Actors \ {w} : owed'[a] = owed[a]
        /\ Plain(w) /\ UNCHANGED <<logged, crashes>>
    BY <1>0, <1>10 DEF AbandonSelected, TypeOK, Actors, LogIInv, SweepOwesNoStart
  <2>2. NoStartMoves
    BY <2>1 DEF NoStartMoves, Plain, Starts
  <2>3. SweepsBegunClean
    BY <1>0, <1>10 DEF AbandonSelected, TypeOK, SweepsBegunClean
  <2> QED BY <1>0, <1>10, <2>1, <2>2, <2>3, AbandonStep, LogQuietStep DEF Harmless
<1>11. ASSUME NEW w \in Workers, WorkerStep(w) PROVE LogIInv'
  BY <1>0, <1>1, <1>2, <1>3, <1>4, <1>5, <1>7, <1>8, <1>9, <1>10, <1>11, LogCrashStep
     DEF WorkerStep, Actors
<1>12. ASSUME NEW r \in Runs, Cancel(r) \/ Retry(r) PROVE LogIInv'
  <2>1. NoStartMoves
    BY <1>0, <1>12, OwePlain DEF Cancel, Retry, Starts, Actors
  <2>2. UNCHANGED <<logged, crashes, expired>>
    BY <1>12 DEF Cancel, Retry
  <2> QED BY <1>0, <1>12, <2>1, <2>2, ConsoleRowStep, SweepsAlone, LogQuietStep
             DEF Harmless
<1>13. ASSUME ConsoleStep PROVE LogIInv'
  BY <1>1, <1>12, <1>13 DEF ConsoleStep, Actors
<1>14. ASSUME NEW a \in Actors, AppendEvent(a) PROVE LogIInv'
  BY <1>0, <1>14, LogAppendStep
<1>15. ASSUME NEW r \in Runs, LeaseExpires(r) PROVE LogIInv'
  <2>1. UNCHANGED <<owed, logged, crashes, expired>>
    BY <1>15 DEF LeaseExpires
  <2> QED BY <1>0, <1>15, <2>1, ExpiryStep, OwedAlone, SweepsAlone, LogQuietStep
             DEF Harmless
<1>16. CASE UNCHANGED vars
  BY <1>0, <1>16, QuietSame, OwedAlone, SweepsAlone, LogQuietStep DEF vars, IInv
<1> QED BY <1>11, <1>13, <1>14, <1>15, <1>16 DEF Next

(* With any number of workers and crashes, the log tells of no start that  *)
(* did not happen, and misses at most one for each crash.                  *)
THEOREM LogCorrect == Spec => []LogFollowsStarts
<1>1. LogIInv => LogFollowsStarts
  BY DEF LogIInv
<1> QED BY <1>1, InitLogIInv, NextLogIInv, PTL DEF Spec

-----------------------------------------------------------------------------
(* The inbound messages, and both stores together.                         *)

Published == {m \in Messages : rows[m].status # "absent"}

\* Entries of the queue are pending, are there once, and have no task.
QueueFits ==
    /\ \A i \in DOMAIN queue : /\ rows[queue[i]].status = "pending"
                               /\ task[queue[i]] = "none"
    /\ \A i, j \in DOMAIN queue : queue[i] = queue[j] => i = j

\* The status that the row of a task at a stage has.
TaskFits(m) ==
    /\ task[m] = "created" => rows[m].status = "pending"
    /\ task[m] \in {"running", "returned", "raised"} => rows[m].status = "processing"
    /\ task[m] = "resolve" => rows[m].status = "done"
    /\ task[m] = "reject" => rows[m].status = "failed"

\* Nothing is in memory until recovery has ended.
MemoryFits ==
    /\ process # "up" => queue = <<>> /\ \A m \in Messages : task[m] = "none"
    /\ process # "recovering" => found = {}
    /\ process = "recovering" => \A m \in Messages :
          /\ rows[m].status = "pending" => m \in found
          /\ m \in found => rows[m].status \in {"pending", "processing"}

InQueue(m) == \E i \in DOMAIN queue : queue[i] = m

NoneForgotten ==
    \A m \in Messages :
        (process = "up" /\ rows[m].status = "pending" /\ faults = 0)
            => InQueue(m) \/ task[m] # "none"

AnswersFit ==
    \A m \in Messages :
        /\ caller[m] = "answered" => rows[m].status = "done" /\ task[m] = "none"
        /\ caller[m] = "refused" => rows[m].status = "failed" /\ task[m] = "none"

(* The inductive invariant.                                                *)
QueueIInv ==
    /\ QueueTypeOK
    /\ IsFiniteSet(Published)
    /\ QueueFits
    /\ \A m \in Messages : TaskFits(m)
    /\ MemoryFits
    /\ NoneForgotten
    /\ AnswersFit

LEMMA InitQueueIInv == QueueInit => QueueIInv
<1> SUFFICES ASSUME QueueInit PROVE QueueIInv
  OBVIOUS
<1>1. /\ \A m \in Messages : rows[m] = Absent /\ task[m] = "none" /\ caller[m] = "none"
      /\ process = "down" /\ found = {} /\ queue = <<>>
  BY DEF QueueInit
<1>2. QueueTypeOK
  BY QueueBounds DEF QueueInit, QueueTypeOK, Absent
<1>3. Published = {}
  BY <1>1 DEF Published, Absent
<1>4. QueueFits /\ \A m \in Messages : TaskFits(m)
  BY <1>1 DEF QueueFits, TaskFits
<1>5. MemoryFits /\ NoneForgotten /\ AnswersFit
  BY <1>1 DEF MemoryFits, NoneForgotten, AnswersFit
<1> QED BY <1>2, <1>3, <1>4, <1>5, FS_EmptySet DEF QueueIInv

(* A queue holds messages, at numbered places.                             *)
LEMMA QueueFacts ==
    ASSUME QueueTypeOK
    PROVE  /\ Len(queue) \in Nat /\ DOMAIN queue = 1..Len(queue)
           /\ \A i \in DOMAIN queue : queue[i] \in Messages
BY DEF QueueTypeOK

-----------------------------------------------------------------------------
(* Steps that touch the row and the task of one message.                   *)

Row0 == [status : {"absent", "pending", "processing", "done", "failed"},
         stale : BOOLEAN, tries : Nat]

(* The status of one row and the stage of its task move, and with the      *)
(* queue nothing happens: what is left to show.                            *)
LEMMA MessageStep ==
    ASSUME QueueIInv, QueueTypeOK', NEW m \in Messages,
           UNCHANGED <<process, found, queue>>, faults' >= faults,
           \A n \in Messages \ {m} : rows'[n].status = rows[n].status
                                     /\ task'[n] = task[n] /\ caller'[n] = caller[n],
           rows[m].status # "absent", process = "up",
           task[m] # "none", TaskFits(m)',
           task'[m] = "none" => rows'[m].status # "pending" \/ faults' > 0,
           caller'[m] = "answered" => rows'[m].status = "done" /\ task'[m] = "none",
           caller'[m] = "refused" => rows'[m].status = "failed" /\ task'[m] = "none"
    PROVE  QueueIInv'
<1> USE DEF QueueIInv
<1>1. Published' \subseteq Published
  BY DEF Published
<1>2. IsFiniteSet(Published')
  BY <1>1, FS_Subset
<1>3. \A i \in DOMAIN queue : queue[i] \in Messages \ {m}
  BY QueueFacts DEF QueueFits
<1>4. QueueFits'
  BY <1>3 DEF QueueFits
<1>5. \A n \in Messages : TaskFits(n)'
  BY DEF TaskFits
<1>6. MemoryFits'
  BY DEF MemoryFits
<1>7. NoneForgotten'
  <2> SUFFICES ASSUME NEW n \in Messages, rows'[n].status = "pending", faults' = 0
               PROVE  InQueue(n)' \/ task'[n] # "none"
    BY DEF NoneForgotten
  <2>1. CASE n = m
    BY <2>1
  <2>2. CASE n # m
    <3>1. faults = 0
      BY DEF QueueTypeOK
    <3> QED BY <2>2, <3>1 DEF NoneForgotten, InQueue
  <2> QED BY <2>1, <2>2
<1>8. AnswersFit'
  BY DEF AnswersFit
<1> QED BY <1>2, <1>4, <1>5, <1>6, <1>7, <1>8

(* The process is up while it has tasks.                                   *)
LEMMA TaskMeansUp ==
    ASSUME QueueIInv, NEW m \in Messages, task[m] # "none"
    PROVE  process = "up"
BY DEF QueueIInv, MemoryFits

LEMMA BeginStep ==
    ASSUME QueueIInv, NEW m \in Messages, BeginTask(m)
    PROVE  QueueIInv'
<1> USE DEF QueueIInv
<1>1. /\ task[m] = "created" /\ task' = [task EXCEPT ![m] = "running"]
      /\ UNCHANGED <<process, found, queue, caller, deaths, faults>>
      /\ rows' = [rows EXCEPT ![m] = [status |-> "processing", stale |-> FALSE,
                                      tries |-> rows[m].tries + 1]]
  BY DEF BeginTask, TaskAt, Move, QueueTypeOK
<1>2. rows[m].tries + 1 \in Nat /\ rows \in [Messages -> Row0]
  BY DEF QueueTypeOK, Row0
<1>3. rows' \in [Messages -> Row0] /\ rows'[m].status = "processing"
      /\ \A n \in Messages \ {m} : rows'[n] = rows[n]
  BY <1>1, <1>2 DEF Row0
<1>4. QueueTypeOK'
  BY <1>1, <1>3 DEF QueueTypeOK, Row0
<1>5. task'[m] = "running" /\ \A n \in Messages \ {m} : task'[n] = task[n]
  BY <1>1 DEF QueueTypeOK
<1>6. rows[m].status = "pending"
  BY <1>1 DEF TaskFits
<1>7. caller'[m] \notin {"answered", "refused"}
  BY <1>1, <1>6 DEF AnswersFit
<1>8. TaskFits(m)' /\ faults' >= faults
  BY <1>1, <1>3, <1>5, QueueBounds DEF TaskFits, QueueTypeOK
<1> QED BY <1>1, <1>3, <1>4, <1>5, <1>6, <1>7, <1>8, TaskMeansUp, MessageStep

(* The stages of a task that mark the row, and the two that do not.        *)
LEMMA StageStep ==
    ASSUME QueueIInv, NEW m \in Messages,
           TaskFails(m) \/ Return(m) \/ MarkDone(m) \/ MarkFailed(m)
    PROVE  QueueIInv'
<1> USE DEF QueueIInv
<1>1. PICK st \in {"pending", "processing", "done", "failed"} :
        /\ \/ rows' = [rows EXCEPT ![m].status = st]
           \/ rows' = rows /\ st = rows[m].status
        /\ UNCHANGED <<process, found, queue, caller, deaths>>
        /\ rows[m].status \in {"pending", "processing"}
        /\ task[m] \in {"created", "running", "returned", "raised"}
        /\ \/ /\ task' = [task EXCEPT ![m] = "none"] /\ st = "pending"
              /\ faults' = faults + 1 /\ faults < FaultBound
           \/ /\ \E s \in {"returned", "raised"} : task' = [task EXCEPT ![m] = s]
              /\ st = "processing" /\ UNCHANGED faults
           \/ task' = [task EXCEPT ![m] = "resolve"] /\ st = "done" /\ UNCHANGED faults
           \/ task' = [task EXCEPT ![m] = "reject"] /\ st = "failed" /\ UNCHANGED faults
  <2>1. CASE TaskFails(m)
    BY <2>1 DEF TaskFails, TaskAt, Move, TaskFits
  <2>2. CASE Return(m)
    BY <2>2 DEF Return, TaskAt, Move, TaskFits
  <2>3. CASE MarkDone(m)
    BY <2>3 DEF MarkDone, TaskAt, Move, Mark, TaskFits
  <2>4. CASE MarkFailed(m)
    BY <2>4 DEF MarkFailed, TaskAt, Move, Mark, TaskFits
  <2> QED BY <2>1, <2>2, <2>3, <2>4
<1>2. rows' \in [Messages -> Row0] /\ rows'[m].status = st
      /\ \A n \in Messages \ {m} : rows'[n] = rows[n]
  <2>1. rows \in [Messages -> Row0]
    BY DEF QueueTypeOK, Row0
  <2>2. CASE rows' = [rows EXCEPT ![m].status = st]
    <3>1. [rows[m] EXCEPT !.status = st] \in Row0
      BY <2>1 DEF Row0
    <3> QED BY <2>1, <2>2, <3>1 DEF Row0
  <2>3. CASE rows' = rows /\ st = rows[m].status
    BY <2>1, <2>3
  <2> QED BY <1>1, <2>2, <2>3
<1>3. /\ task' \in [Messages -> {"none", "created", "running", "returned",
                                "raised", "resolve", "reject"}]
      /\ \A n \in Messages \ {m} : task'[n] = task[n]
  BY <1>1 DEF QueueTypeOK
<1>4. \/ task'[m] = "none" /\ faults' = faults + 1 /\ faults < FaultBound /\ st = "pending"
      \/ task'[m] \in {"returned", "raised"} /\ st = "processing" /\ faults' = faults
      \/ task'[m] = "resolve" /\ st = "done" /\ faults' = faults
      \/ task'[m] = "reject" /\ st = "failed" /\ faults' = faults
  BY <1>1 DEF QueueTypeOK
<1>5. /\ faults \in 0..FaultBound /\ FaultBound \in Nat /\ faults' \in 0..FaultBound
      /\ faults' >= faults /\ (task'[m] = "none" => faults' > 0)
  BY <1>4, QueueBounds DEF QueueTypeOK
<1>6. QueueTypeOK'
  BY <1>1, <1>2, <1>3, <1>5 DEF QueueTypeOK, Row0
<1>7. caller'[m] \notin {"answered", "refused"}
  BY <1>1 DEF AnswersFit
<1>8. TaskFits(m)'
  BY <1>2, <1>4 DEF TaskFits
<1> QED BY <1>1, <1>2, <1>3, <1>4, <1>5, <1>6, <1>7, <1>8, TaskMeansUp, MessageStep

LEMMA AnswerStep ==
    ASSUME QueueIInv, NEW m \in Messages, Answer(m)
    PROVE  QueueIInv'
<1> USE DEF QueueIInv
<1>1. /\ task[m] \in {"resolve", "reject"} /\ task' = [task EXCEPT ![m] = "none"]
      /\ UNCHANGED <<rows, process, found, queue, deaths, faults>>
      /\ \/ caller' = caller
         \/ task[m] = "resolve" /\ caller' = [caller EXCEPT ![m] = "answered"]
         \/ task[m] = "reject" /\ caller' = [caller EXCEPT ![m] = "refused"]
  BY DEF Answer, Move, TaskAt
<1>2. QueueTypeOK'
  BY <1>1 DEF QueueTypeOK
<1>3. task'[m] = "none" /\ \A n \in Messages \ {m} : task'[n] = task[n] /\ caller'[n] = caller[n]
  BY <1>1 DEF QueueTypeOK
<1>4. \/ caller'[m] = caller[m] /\ rows[m].status \in {"done", "failed"}
      \/ caller'[m] = "answered" /\ rows[m].status = "done"
      \/ caller'[m] = "refused" /\ rows[m].status = "failed"
  BY <1>1 DEF QueueTypeOK, TaskFits
<1>5. caller[m] \notin {"answered", "refused"}
  BY <1>1 DEF AnswersFit
<1>6. TaskFits(m)' /\ faults' >= faults
  BY <1>1, <1>3, QueueBounds DEF TaskFits, QueueTypeOK
<1> QED BY <1>1, <1>2, <1>3, <1>4, <1>5, <1>6, TaskMeansUp, MessageStep

-----------------------------------------------------------------------------
(* Steps of the queue, of the clock and of callers.                        *)

LEMMA PublishStep ==
    ASSUME QueueIInv, NEW m \in Messages, Publish(m)
    PROVE  QueueIInv'
<1> USE DEF QueueIInv
<1>1. /\ process = "up" /\ rows[m].status = "absent" /\ queue' = Append(queue, m)
      /\ rows' = [rows EXCEPT ![m].status = "pending"]
      /\ caller' = [caller EXCEPT ![m] = "waiting"]
      /\ UNCHANGED <<process, found, task, deaths, faults>>
  BY DEF Publish, Mark
<1>2. rows' \in [Messages -> Row0] /\ rows'[m].status = "pending"
      /\ \A n \in Messages \ {m} : rows'[n] = rows[n]
  BY <1>1 DEF QueueTypeOK, Row0
<1>3. QueueTypeOK'
  BY <1>1, <1>2 DEF QueueTypeOK, Row0
<1>4. Published' \subseteq Published \cup {m}
  BY <1>2 DEF Published
<1>5. IsFiniteSet(Published')
  BY <1>4, FS_AddElement, FS_Subset
<1>6. task[m] = "none" /\ \A i \in DOMAIN queue : queue[i] # m /\ queue[i] \in Messages
  BY <1>1, QueueFacts DEF QueueFits, TaskFits, QueueTypeOK
<1>7. /\ DOMAIN queue' = 1..(Len(queue) + 1) /\ DOMAIN queue = 1..Len(queue)
      /\ Len(queue) \in Nat /\ queue'[Len(queue) + 1] = m
      /\ \A i \in DOMAIN queue : queue'[i] = queue[i]
  BY <1>1 DEF QueueTypeOK
<1>8. \A i \in DOMAIN queue' : i \in DOMAIN queue \/ i = Len(queue) + 1
  BY <1>7
<1>9. QueueFits'
  BY <1>1, <1>2, <1>6, <1>7, <1>8 DEF QueueFits
<1>10. \A n \in Messages : TaskFits(n)'
  BY <1>1, <1>2, <1>6 DEF TaskFits
<1>11. MemoryFits'
  BY <1>1 DEF MemoryFits
<1>12. NoneForgotten'
  <2> SUFFICES ASSUME NEW n \in Messages, rows'[n].status = "pending", faults' = 0
               PROVE  InQueue(n)' \/ task'[n] # "none"
    BY DEF NoneForgotten
  <2>1. CASE n = m
    BY <1>7, <2>1 DEF InQueue
  <2>2. CASE n # m
    <3>1. InQueue(n) \/ task[n] # "none"
      BY <1>1, <1>2, <2>2 DEF NoneForgotten
    <3>2. InQueue(n) => InQueue(n)'
      BY <1>7 DEF InQueue
    <3> QED BY <1>1, <3>1, <3>2
  <2> QED BY <2>1, <2>2
<1>13. AnswersFit'
  BY <1>1, <1>2 DEF AnswersFit, QueueTypeOK
<1> QED BY <1>3, <1>5, <1>9, <1>10, <1>11, <1>12, <1>13

LEMMA ConsumeStep ==
    ASSUME QueueIInv, Consume
    PROVE  QueueIInv'
<1> USE DEF QueueIInv
<1> DEFINE m == queue[1]
<1>1. /\ process = "up" /\ queue # <<>> /\ queue' = Tail(queue)
      /\ task' = [task EXCEPT ![m] = "created"]
      /\ UNCHANGED <<rows, process, found, caller, deaths, faults>>
  BY DEF Consume, Move
<1>2. /\ Len(queue) \in Nat /\ DOMAIN queue = 1..Len(queue) /\ 1 \in DOMAIN queue
      /\ m \in Messages /\ queue' \in Seq(Messages)
      /\ DOMAIN queue' = 1..(Len(queue) - 1)
      /\ \A i \in DOMAIN queue' : queue'[i] = queue[i + 1]
  BY <1>1 DEF QueueTypeOK
<1>3. task' \in [Messages -> {"none", "created", "running", "returned",
                             "raised", "resolve", "reject"}]
      /\ task'[m] = "created" /\ \A n \in Messages \ {m} : task'[n] = task[n]
  BY <1>1, <1>2 DEF QueueTypeOK
<1>4. QueueTypeOK'
  BY <1>1, <1>2, <1>3 DEF QueueTypeOK
<1>5. \A i \in DOMAIN queue' : i + 1 \in DOMAIN queue /\ queue'[i] \in Messages \ {m}
  <2> SUFFICES ASSUME NEW i \in DOMAIN queue'
               PROVE  i + 1 \in DOMAIN queue /\ queue'[i] \in Messages \ {m}
    OBVIOUS
  <2>1. i + 1 \in DOMAIN queue /\ i + 1 # 1 /\ queue'[i] = queue[i + 1]
    BY <1>2
  <2> QED BY <1>2, <2>1, QueueFacts DEF QueueFits
<1>6. QueueFits'
  <2>1. \A i \in DOMAIN queue' : rows'[queue'[i]].status = "pending" /\ task'[queue'[i]] = "none"
    BY <1>1, <1>2, <1>3, <1>5 DEF QueueFits
  <2>2. ASSUME NEW i \in DOMAIN queue', NEW j \in DOMAIN queue', queue'[i] = queue'[j]
        PROVE  i = j
    <3>1. i + 1 = j + 1
      BY <1>2, <1>5, <2>2 DEF QueueFits
    <3> QED BY <1>2, <3>1
  <2> QED BY <2>1, <2>2 DEF QueueFits
<1>7. \A n \in Messages : TaskFits(n)'
  BY <1>1, <1>2, <1>3 DEF TaskFits, QueueFits
<1>8. MemoryFits'
  BY <1>1 DEF MemoryFits
<1>9. NoneForgotten'
  <2> SUFFICES ASSUME NEW n \in Messages, rows'[n].status = "pending", faults' = 0, n # m
               PROVE  InQueue(n)' \/ task'[n] # "none"
    BY <1>3 DEF NoneForgotten
  <2>1. InQueue(n) \/ task[n] # "none"
    BY <1>1 DEF NoneForgotten
  <2>2. ASSUME InQueue(n) PROVE InQueue(n)'
    <3>1. PICK i \in DOMAIN queue : queue[i] = n
      BY <2>2 DEF InQueue
    <3>2. i # 1 /\ i - 1 \in DOMAIN queue' /\ queue'[i - 1] = queue[(i - 1) + 1]
      BY <1>2, <3>1
    <3>3. (i - 1) + 1 = i
      BY <1>2
    <3> QED BY <3>1, <3>2, <3>3 DEF InQueue
  <2> QED BY <1>3, <2>1, <2>2
<1>10. AnswersFit'
  BY <1>1, <1>2, <1>3 DEF AnswersFit, QueueFits
<1>11. Published' = Published
  BY <1>1 DEF Published
<1> QED BY <1>4, <1>6, <1>7, <1>8, <1>9, <1>10, <1>11

(* The clock and a caller that gives up move nothing that matters here.    *)
LEMMA AsideStep ==
    ASSUME QueueIInv, NEW m \in Messages, Ages(m) \/ TimeOut(m)
    PROVE  QueueIInv'
<1> USE DEF QueueIInv
<1>1. UNCHANGED <<process, found, queue, task, deaths, faults>>
  BY DEF Ages, TimeOut
<1>2. \A n \in Messages : /\ rows'[n].status = rows[n].status
                          /\ caller'[n] = caller[n] \/ caller'[n] = "timed_out"
  BY DEF Ages, TimeOut, QueueTypeOK
<1>3. QueueTypeOK'
  <2>1. CASE Ages(m)
    BY <2>1 DEF Ages, QueueTypeOK
  <2>2. CASE TimeOut(m)
    BY <2>2 DEF TimeOut, QueueTypeOK
  <2> QED BY <2>1, <2>2
<1>4. Published' = Published
  BY <1>2 DEF Published
<1>5. QueueFits'
  BY <1>1, <1>2, QueueFacts DEF QueueFits
<1>6. \A n \in Messages : TaskFits(n)'
  BY <1>1, <1>2 DEF TaskFits
<1>7. MemoryFits' /\ NoneForgotten' /\ AnswersFit'
  BY <1>1, <1>2 DEF MemoryFits, NoneForgotten, InQueue, AnswersFit
<1> QED BY <1>3, <1>4, <1>5, <1>6, <1>7

-----------------------------------------------------------------------------
(* Death and recovery.                                                     *)

LEMMA DieStep ==
    ASSUME QueueIInv, Die
    PROVE  QueueIInv'
<1> USE DEF QueueIInv
<1>1. /\ deaths' = deaths + 1 /\ deaths < DeathBound /\ process' = "down"
      /\ found' = {} /\ queue' = <<>> /\ task' = [m \in Messages |-> "none"]
      /\ caller' = [m \in Messages |-> IF caller[m] = "waiting"
                                       THEN "disconnected" ELSE caller[m]]
      /\ UNCHANGED <<rows, faults>>
  BY DEF Die
<1>2. QueueTypeOK'
  <2>1. deaths' \in 0..DeathBound
    BY <1>1, QueueBounds DEF QueueTypeOK
  <2> QED BY <1>1, <2>1 DEF QueueTypeOK
<1>3. Published' = Published
  BY <1>1 DEF Published
<1>4. QueueFits' /\ \A m \in Messages : TaskFits(m)'
  BY <1>1 DEF QueueFits, TaskFits
<1>5. MemoryFits' /\ NoneForgotten'
  BY <1>1 DEF MemoryFits, NoneForgotten
<1>6. AnswersFit'
  BY <1>1 DEF AnswersFit
<1> QED BY <1>2, <1>3, <1>4, <1>5, <1>6

LEMMA SelectStepQ ==
    ASSUME QueueIInv, SelectRecoverable
    PROVE  QueueIInv'
<1> USE DEF QueueIInv
<1>1. /\ process = "down" /\ process' = "recovering"
      /\ found' = {m \in Messages : Recoverable(m)}
      /\ UNCHANGED <<rows, queue, task, caller, deaths, faults>>
  BY DEF SelectRecoverable
<1>2. QueueTypeOK'
  BY <1>1 DEF QueueTypeOK
<1>3. Published' = Published
  BY <1>1 DEF Published
<1>4. QueueFits' /\ \A m \in Messages : TaskFits(m)'
  BY <1>1 DEF QueueFits, TaskFits
<1>5. MemoryFits' /\ NoneForgotten' /\ AnswersFit'
  BY <1>1 DEF MemoryFits, NoneForgotten, AnswersFit, Recoverable
<1> QED BY <1>2, <1>3, <1>4, <1>5

LEMMA ResetStep ==
    ASSUME QueueIInv, NEW m \in Messages, ResetRow(m)
    PROVE  QueueIInv'
<1> USE DEF QueueIInv
<1>1. /\ process = "recovering" /\ m \in found /\ rows[m].status = "processing"
      /\ UNCHANGED <<process, found, queue, task, caller, deaths, faults>>
      /\ rows' = [rows EXCEPT ![m].status = "pending", ![m].stale = FALSE]
  BY DEF ResetRow
<1>2. rows' \in [Messages -> Row0] /\ rows'[m].status = "pending"
      /\ \A n \in Messages \ {m} : rows'[n] = rows[n]
  BY <1>1 DEF QueueTypeOK, Row0
<1>3. QueueTypeOK'
  BY <1>1, <1>2 DEF QueueTypeOK, Row0
<1>4. Published' \subseteq Published
  BY <1>1, <1>2 DEF Published
<1>5. IsFiniteSet(Published')
  BY <1>4, FS_Subset
<1>6. queue = <<>> /\ \A n \in Messages : task[n] = "none"
  BY <1>1 DEF MemoryFits
<1>7. QueueFits' /\ \A n \in Messages : TaskFits(n)'
  BY <1>1, <1>6 DEF QueueFits, TaskFits
<1>8. MemoryFits'
  BY <1>1, <1>2, <1>6 DEF MemoryFits
<1>9. NoneForgotten' /\ AnswersFit'
  BY <1>1, <1>2 DEF NoneForgotten, AnswersFit
<1> QED BY <1>3, <1>5, <1>7, <1>8, <1>9

(* An enumeration of a finite set: a sequence without repetition in which  *)
(* each element of the set occurs.                                         *)
LEMMA EnumerationFacts ==
    ASSUME NEW S, IsFiniteSet(S), NEW q \in SetToSeqs(S)
    PROVE  /\ q \in Seq(S)
           /\ \A i, j \in DOMAIN q : q[i] = q[j] => i = j
           /\ \A x \in S : \E i \in DOMAIN q : q[i] = x
<1> DEFINE n == Cardinality(S)
<1>1. n \in Nat /\ q \in [1..n -> S]
      /\ \A i, j \in 1..n : i # j => q[i] # q[j]
  BY FS_CardinalityType DEF SetToSeqs
<1>2. DOMAIN q = 1..n /\ q \in Seq(S)
  BY <1>1
<1>3. q \in Injection(1..n, S)
  BY <1>1 DEF Injection, IsInjective
<1>4. Cardinality(1..n) = n
  BY <1>1, FS_Interval
<1>5. q \in Surjection(1..n, S)
  BY <1>3, <1>4, FS_Injection
<1> QED BY <1>1, <1>2, <1>5 DEF Surjection

LEMMA EnqueueStep ==
    ASSUME QueueIInv, EnqueueRecovered
    PROVE  QueueIInv'
<1> USE DEF QueueIInv
<1>1. /\ process = "recovering" /\ process' = "up" /\ found' = {}
      /\ \A m \in found : rows[m].status # "processing"
      /\ UNCHANGED <<rows, task, caller, deaths, faults>>
  BY DEF EnqueueRecovered
<1>2. PICK q \in SetToSeqs(found) : queue' = queue \o q
  BY DEF EnqueueRecovered
<1>3. queue = <<>> /\ \A m \in Messages : task[m] = "none"
  BY <1>1 DEF MemoryFits
<1>4. found \subseteq Published /\ \A m \in found : rows[m].status = "pending"
  BY <1>1 DEF MemoryFits, Published, QueueTypeOK
<1>5. /\ q \in Seq(found)
      /\ \A i, j \in DOMAIN q : q[i] = q[j] => i = j
      /\ \A x \in found : \E i \in DOMAIN q : q[i] = x
  BY <1>4, FS_Subset, EnumerationFacts
<1>6. q \in Seq(Messages) /\ queue' = q
  <2>1. found \subseteq Messages
    BY DEF QueueTypeOK
  <2>2. q \in Seq(Messages)
    BY <1>5, <2>1
  <2> QED BY <1>2, <1>3, <2>2
<1>7. QueueTypeOK'
  BY <1>1, <1>6 DEF QueueTypeOK
<1>8. QueueFits'
  <2>1. \A i \in DOMAIN q : q[i] \in found
    BY <1>5
  <2> QED BY <1>1, <1>3, <1>4, <1>5, <1>6, <2>1 DEF QueueFits, QueueTypeOK
<1>9. NoneForgotten'
  BY <1>1, <1>5, <1>6 DEF NoneForgotten, MemoryFits, InQueue
<1>10. Published' = Published
  BY <1>1 DEF Published
<1>11. \A m \in Messages : TaskFits(m)'
  BY <1>1 DEF TaskFits
<1>12. MemoryFits' /\ AnswersFit'
  BY <1>1 DEF MemoryFits, AnswersFit
<1> QED BY <1>7, <1>8, <1>9, <1>10, <1>11, <1>12

-----------------------------------------------------------------------------
(* The theorems.                                                           *)

(* Every step of the queue preserves its inductive invariant.              *)
LEMMA NextQueueIInv == QueueIInv /\ [QueueStep]_queueVars => QueueIInv'
<1> SUFFICES ASSUME QueueIInv, [QueueStep]_queueVars PROVE QueueIInv'
  OBVIOUS
<1>1. CASE LoopStep
  BY <1>1, SelectStepQ, ResetStep, EnqueueStep, ConsumeStep DEF LoopStep
<1>2. ASSUME NEW m \in Messages,
             TaskStep(m) \/ TaskFails(m) \/ Publish(m) \/ TimeOut(m) \/ Ages(m)
      PROVE  QueueIInv'
  BY <1>2, BeginStep, StageStep, AnswerStep, PublishStep, AsideStep DEF TaskStep
<1>3. CASE UNCHANGED queueVars
  BY <1>3 DEF queueVars, QueueIInv, QueueTypeOK, Published, QueueFits, TaskFits,
              MemoryFits, NoneForgotten, InQueue, AnswersFit
<1> QED BY <1>1, <1>2, <1>3, DieStep DEF QueueStep

(* Both invariants hold in every behaviour, whichever store it is about.   *)
THEOREM RestartInvariance == RestartSpec => [](LogIInv /\ QueueIInv)
<1>1. RestartInit => LogIInv /\ QueueIInv
  BY InitLogIInv, InitQueueIInv DEF RestartInit
<1>2. LogIInv /\ QueueIInv /\ [RestartNext]_restartVars => (LogIInv /\ QueueIInv)'
  <2> SUFFICES ASSUME LogIInv, QueueIInv, [RestartNext]_restartVars
               PROVE  LogIInv' /\ QueueIInv'
    OBVIOUS
  <2>1. [Next]_vars /\ [QueueStep]_queueVars
    BY DEF RestartNext, OfRuns, OfMessages, restartVars
  <2> QED BY <2>1, NextLogIInv, NextQueueIInv
<1> QED BY <1>1, <1>2, PTL DEF RestartSpec

(* For any messages, deaths and errors of the database: memory holds a     *)
(* message once at most, the queue holds pending rows only, and a pending  *)
(* row is in memory while the process is up, unless an error dropped it.   *)
THEOREM MemoryIsMirrored == RestartSpec => []MemoryMirrorsTable
<1>1. QueueIInv => MemoryMirrorsTable
  <2> SUFFICES ASSUME QueueIInv, NEW m \in Messages
               PROVE  /\ \A i, j \in Holders(m) : i = j
                      /\ (process = "up" /\ rows[m].status = "pending" /\ faults = 0)
                            => Holders(m) # {}
                      /\ m \in Range(queue) => rows[m].status = "pending"
    BY DEF MemoryMirrorsTable
  <2> USE DEF QueueIInv
  <2>1. \A i, j \in Holders(m) : i = j
    <3>1. CASE task[m] = "none"
      BY <3>1 DEF Holders, QueueFits
    <3>2. CASE task[m] # "none"
      BY <3>2 DEF Holders, QueueFits
    <3> QED BY <3>1, <3>2
  <2>2. InQueue(m) \/ task[m] # "none" => Holders(m) # {}
    BY DEF InQueue, Holders
  <2>3. m \in Range(queue) => rows[m].status = "pending"
    BY DEF Range, QueueFits
  <2> QED BY <2>1, <2>2, <2>3 DEF NoneForgotten
<1> QED BY <1>1, RestartInvariance, PTL

(* What a caller was told stands on record, and its turn begins no more.   *)
THEOREM AnswersStand == RestartSpec => []AnswerIsDurable
<1>1. QueueIInv => AnswerIsDurable
  <2> SUFFICES ASSUME QueueIInv, NEW m \in Messages
               PROVE  /\ caller[m] = "answered" => rows[m].status = "done"
                      /\ caller[m] = "refused" => rows[m].status = "failed"
                      /\ caller[m] \in {"answered", "refused"} => Holders(m) = {}
    BY DEF AnswerIsDurable
  <2> USE DEF QueueIInv
  <2>1. caller[m] \in {"answered", "refused"} => task[m] = "none" /\ rows[m].status # "pending"
    BY DEF AnswersFit
  <2>2. rows[m].status # "pending" /\ task[m] = "none" => Holders(m) = {}
    BY DEF Holders, QueueFits
  <2> QED BY <2>1, <2>2 DEF AnswersFit
<1> QED BY <1>1, RestartInvariance, PTL

(* The same specification keeps the budget and the log of the run table.   *)
THEOREM RestartKeepsRuns == RestartSpec => [](AttemptBudget /\ LogFollowsStarts)
<1>1. LogIInv => AttemptBudget /\ LogFollowsStarts
  BY DEF LogIInv, IInv
<1> QED BY <1>1, RestartInvariance, PTL
=============================================================================
