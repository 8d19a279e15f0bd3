---------------------------- MODULE JobsProofs ----------------------------
(***************************************************************************)
(* The safety of the two executors of durable runs, the scheduler for any  *)
(* jobs, engines, clock and number of incidents, and SkillRunner for every *)
(* manifest and every set of runners.                                      *)
(*                                                                         *)
(* What bounds the effects of a firing is the count of the attempts in its *)
(* run, and an engine is between its claim and its call for one attempt    *)
(* only: the engines inside a firing, with the effects it has had, never   *)
(* exceed the attempts.  Of each engine the invariant says what the row it *)
(* took tells of its firing at each label.                                 *)
(*                                                                         *)
(* The tables of a skill run only grow: approval records and log rows are  *)
(* never taken away, a decision is never changed, a step that ended well   *)
(* has done so for ever.  So what a runner relies on stays true under the  *)
(* steps of the others (lemma TablesKept), and each action is looked at    *)
(* for the runner that takes it alone.                                     *)
(***************************************************************************)
EXTENDS Scheduler, SkillRuns, RunRepositoryProofs, FiniteSetTheorems

MaxOf(k) == Def[k[1]].maxRetries + 1

\* The run of a firing: attempts within what its job allows.
RowOK(k) ==
    /\ WellFormed(runs[k])
    /\ runs[k].attempts <= MaxOf(k)
    /\ runs[k].status # "absent" => runs[k].maxAttempts = MaxOf(k)

\* A row that an engine has selected: a job that was due within the clock.
ViewOK(v) == v.id \in Jobs /\ v.next \in Time \cup {Never}

HadEffect(k) == Def[k[1]].dryRun \/ effects[k] > 0

InFiring == {"claim", "decide", "execute", "count", "settle"} \cup DOMAIN Outcome

\* What an engine has got, at each place it can be.
EngineOK(e) ==
    /\ pc[e] = "open" => ViewOK(work[e])
    /\ pc[e] \in InFiring => Key(e) \in Fires /\ runs[Key(e)].status # "absent"
    /\ pc[e] = "count" => effects[Key(e)] > 0
    /\ (pc[e] \in {"settle", "close_ok"} /\ work[e].ok) => HadEffect(Key(e))
    /\ pc[e] = "close_ok" => work[e].ok

\* The engines that were granted an attempt of k and have not used it yet.
Inside(k) == {e \in Engines : pc[e] \in {"decide", "execute"} /\ Key(e) = k}

Charged(k) ==
    /\ IsFiniteSet(Inside(k))
    /\ effects[k] + Cardinality(Inside(k)) <= runs[k].attempts
    /\ runs[k].status = "succeeded" => HadEffect(k)

(* The inductive invariant.                                                *)
IInv ==
    /\ TypeOK
    /\ \A k \in Fires : RowOK(k) /\ Charged(k)
    /\ \A e \in Engines : EngineOK(e) /\ \A v \in selected[e] : ViewOK(v)

-----------------------------------------------------------------------------

LEMMA TimeIsNumbers == MaxTime \in Nat /\ Time = 0..MaxTime /\ 0 \in Time
BY SchedulerBounds DEF Time

LEMMA DefTyped ==
    ASSUME NEW j \in Jobs
    PROVE  /\ Def[j] \in JobDef /\ Def[j].maxRetries \in Nat
           /\ Def[j].interval \in BOOLEAN /\ Def[j].dryRun \in BOOLEAN
           /\ Def[j].runAt \in Time \cup {Never}
BY DefAssumption DEF JobDef

\* A power of two is a number: it counts the subsets of a finite set.
LEMMA PowerIsNumber ==
    ASSUME NEW n \in Nat
    PROVE  2^n \in Nat
<1>1. IsFiniteSet(1..n) /\ Cardinality(1..n) = n
  BY FS_Interval
<1>2. Cardinality(SUBSET (1..n)) = 2^n /\ IsFiniteSet(SUBSET (1..n))
  BY <1>1, FS_SUBSET
<1> QED BY <1>2, FS_CardinalityType

LEMMA FireTyped ==
    ASSUME NEW k \in Fires
    PROVE  k[1] \in Jobs /\ k[2] \in Time /\ MaxOf(k) \in Nat
BY DefTyped DEF Fires, MaxOf

LEMMA InitIInv == Init => IInv
<1> SUFFICES ASSUME Init PROVE IInv
  OBVIOUS
<1>1. TypeOK
  BY TimeIsNumbers, AbsentFacts DEF Init, TypeOK, JobStatus, Labels, Views, NoWork, WellFormed
<1>2. \A k \in Fires : RowOK(k)
  BY AbsentFacts, FireTyped DEF Init, RowOK
<1>3. ASSUME NEW k \in Fires PROVE Charged(k)
  <2>1. Inside(k) = {}
    BY DEF Init, Inside
  <2> QED BY <2>1, AbsentFacts, FS_EmptySet DEF Init, Charged
<1>4. \A e \in Engines : EngineOK(e) /\ \A v \in selected[e] : ViewOK(v)
  BY DEF Init, EngineOK, InFiring, Outcome
<1> QED BY <1>1, <1>2, <1>3, <1>4 DEF IInv

-----------------------------------------------------------------------------
(* Frames.                                                                 *)

\* Only engine e has moved.
Alone(e) ==
    \A d \in Engines \ {e} :
        pc'[d] = pc[d] /\ work'[d] = work[d] /\ selected'[d] = selected[d]

\* No run goes away and no effect is taken back.
Onward ==
    \A k \in Fires : /\ runs[k].status # "absent" => runs'[k].status # "absent"
                     /\ effects'[k] >= effects[k]

LEMMA NumbersOfFiring ==
    ASSUME IInv, NEW k \in Fires
    PROVE  /\ effects[k] \in Nat /\ runs[k].attempts \in Nat
           /\ IsFiniteSet(Inside(k)) /\ Cardinality(Inside(k)) \in Nat
           /\ effects[k] + Cardinality(Inside(k)) <= runs[k].attempts
<1>1. effects[k] \in Nat /\ runs[k].attempts \in Nat
  BY DEF IInv, TypeOK, Row
<1>2. IsFiniteSet(Inside(k)) /\ effects[k] + Cardinality(Inside(k)) <= runs[k].attempts
  BY DEF IInv, Charged
<1> QED BY <1>1, <1>2, FS_CardinalityType

(* An engine that does not move keeps what it has.                         *)
LEMMA OthersKeep ==
    ASSUME IInv, TypeOK', Onward, NEW d \in Engines, pc'[d] = pc[d], work'[d] = work[d]
    PROVE  EngineOK(d)'
<1>1. EngineOK(d) /\ Key(d)' = Key(d)
  BY DEF IInv, Key
<1>2. pc[d] \in InFiring => Key(d) \in Fires
  BY <1>1 DEF EngineOK
<1>3. Key(d) \in Fires /\ effects[Key(d)] > 0 => effects'[Key(d)] > 0
  BY DEF Onward, IInv, TypeOK
<1>4. {"count", "settle", "close_ok"} \subseteq InFiring
  BY DEF InFiring, Outcome
<1> QED BY <1>1, <1>2, <1>3, <1>4 DEF EngineOK, Onward, ViewOK, HadEffect

LEMMA EngineMoves ==
    ASSUME IInv, TypeOK', NEW e \in Engines, Alone(e), Onward,
           \A k \in Fires : RowOK(k)' /\ Charged(k)',
           EngineOK(e)', \A v \in selected'[e] : ViewOK(v)
    PROVE  IInv'
<1>1. \A d \in Engines : EngineOK(d)'
  BY OthersKeep DEF Alone
<1>2. \A d \in Engines : \A v \in selected'[d] : ViewOK(v)
  BY DEF Alone, IInv
<1> QED BY <1>1, <1>2 DEF IInv, ViewOK

(* Nothing is charged when no engine enters the firing and none acts.      *)
LEMMA NothingCharged ==
    ASSUME IInv, NEW e \in Engines, Alone(e), effects' = effects,
           pc'[e] \in {"decide", "execute"} =>
               pc[e] \in {"decide", "execute"} /\ Key(e)' = Key(e),
           NEW k \in Fires, runs'[k].attempts = runs[k].attempts,
           runs'[k].status = "succeeded" => runs[k].status = "succeeded" \/ HadEffect(k)
    PROVE  Charged(k)'
<1>1. Inside(k)' \subseteq Inside(k)
  BY DEF Inside, Alone, Key
<1>2. IsFiniteSet(Inside(k)') /\ Cardinality(Inside(k)') <= Cardinality(Inside(k))
  BY <1>1, NumbersOfFiring, FS_Subset
<1>3. Cardinality(Inside(k)') \in Nat
  BY <1>2, FS_CardinalityType
<1>4. effects'[k] + Cardinality(Inside(k)') <= runs'[k].attempts
  BY <1>2, <1>3, NumbersOfFiring
<1> QED BY <1>2, <1>4 DEF Charged, IInv, HadEffect

\* The runs stay as they are: nothing to show of the rows.
LEMMA RowsStay ==
    ASSUME IInv, runs' = runs, effects' = effects
    PROVE  Onward /\ \A k \in Fires : RowOK(k)'
BY DEF IInv, RowOK, Onward, TypeOK

(* An engine moves, and touches neither a run nor an effect.               *)
LEMMA QuietStep ==
    ASSUME IInv, TypeOK', NEW e \in Engines, Alone(e), UNCHANGED <<runs, effects>>,
           pc'[e] \in {"decide", "execute"} =>
               pc[e] \in {"decide", "execute"} /\ Key(e)' = Key(e),
           EngineOK(e)', \A v \in selected'[e] : ViewOK(v)
    PROVE  IInv'
<1>1. \A k \in Fires : Charged(k)'
  BY NothingCharged
<1> QED BY <1>1, RowsStay, EngineMoves

(* The table of jobs moves, or the clock, or nothing.                      *)
LEMMA AsideStep ==
    ASSUME IInv, TypeOK', UNCHANGED <<runs, pc, work, selected, effects>>
    PROVE  IInv'
<1>1. Onward
  BY RowsStay
<1>2. \A k \in Fires : RowOK(k)' /\ Charged(k)'
  BY DEF IInv, RowOK, Charged, Inside, Key, HadEffect
<1>3. \A d \in Engines : EngineOK(d)'
  BY <1>1, OthersKeep
<1> QED BY <1>2, <1>3 DEF IInv, ViewOK

-----------------------------------------------------------------------------
(* The owner, the clock, the leases.                                       *)

JobRow == [status : JobStatus, enabled : BOOLEAN, next : Nat \cup {Never},
           retries : Nat]

\* A job is given another row, or another status.
LEMMA JobSet ==
    ASSUME TypeOK, NEW j \in Jobs, NEW row \in JobRow
    PROVE  /\ [jobs EXCEPT ![j] = row] \in [Jobs -> JobRow]
           /\ jobs[j] \in JobRow
           /\ \A st \in JobStatus : [jobs EXCEPT ![j].status = st] \in [Jobs -> JobRow]
<1>1. jobs \in [Jobs -> JobRow]
  BY DEF TypeOK, JobRow
<1>2. \A st \in JobStatus : [jobs[j] EXCEPT !.status = st] \in JobRow
  BY <1>1 DEF JobRow
<1> QED BY <1>1, <1>2

LEMMA OwnerStep ==
    ASSUME IInv, NEW j \in Jobs, Schedule(j) \/ Cancel(j) \/ ResetJob(j)
    PROVE  IInv'
<1> USE DEF IInv
<1>1. UNCHANGED <<now, runs, engineVars, effects, crashes>> /\ resets' \in Nat
  BY DEF Schedule, Cancel, ResetJob, TypeOK
<1>2. \E row \in JobRow : jobs' = [jobs EXCEPT ![j] = row]
  <2>1. jobs[j] \in JobRow
    BY DEF TypeOK, JobRow
  <2>2. CASE Schedule(j)
    <3>1. [status |-> "pending", enabled |-> TRUE, retries |-> 0,
           next |-> IF Def[j].runAt = Never THEN now ELSE Def[j].runAt] \in JobRow
      BY DefTyped, TimeIsNumbers DEF TypeOK, JobStatus, JobRow
    <3> QED BY <2>2, <3>1 DEF Schedule, SetJob
  <2>3. CASE Cancel(j)
    <3>1. [jobs[j] EXCEPT !.status = "cancelled", !.enabled = FALSE] \in JobRow
      BY <2>1 DEF JobStatus, JobRow
    <3> QED BY <2>3, <3>1 DEF Cancel, SetJob
  <2>4. CASE ResetJob(j)
    <3>1. [jobs[j] EXCEPT !.status = "pending", !.retries = 0] \in JobRow
      BY <2>1 DEF JobStatus, JobRow
    <3> QED BY <2>4, <3>1 DEF ResetJob, SetJob
  <2> QED BY <2>2, <2>3, <2>4
<1>3. jobs' \in [Jobs -> JobRow]
  BY <1>2, JobSet
<1>4. TypeOK'
  BY <1>1, <1>3 DEF TypeOK, engineVars, JobRow
<1> QED BY <1>1, <1>4, AsideStep DEF engineVars

LEMMA TickStep ==
    ASSUME IInv, Tick
    PROVE  IInv'
<1>1. TypeOK'
  BY TimeIsNumbers DEF IInv, TypeOK, Tick, engineVars
<1> QED BY <1>1, AsideStep DEF Tick, engineVars

(* A row that is changed in place, with the same attempts.                 *)
LEMMA LeaseStep ==
    ASSUME IInv, NEW k \in Fires, LeaseExpires(k)
    PROVE  IInv'
<1> USE DEF IInv
<1> DEFINE row == [runs[k] EXCEPT !.lease = "expired"]
<1>1. /\ runs' = [runs EXCEPT ![k] = row] /\ runs[k].lease = "live"
      /\ UNCHANGED <<now, jobs, engineVars, effects, crashes, resets>>
  BY DEF LeaseExpires
<1>2. WellFormed(runs[k]) /\ runs[k].status = "running"
  BY <1>1 DEF RowOK, WellFormed
<1>3. /\ WellFormed(row) /\ row.status = runs[k].status
      /\ row.attempts = runs[k].attempts /\ row.maxAttempts = runs[k].maxAttempts
  BY <1>2, LeaseFacts DEF Lease
<1> HIDE DEF row
<1>4. runs'[k] = row /\ \A q \in Fires \ {k} : runs'[q] = runs[q]
  BY <1>1 DEF TypeOK
<1>5. runs' \in [Fires -> Row]
  BY <1>1, <1>3 DEF TypeOK, WellFormed
<1>6. TypeOK'
  BY <1>1, <1>5 DEF TypeOK, engineVars
<1>7. \A q \in Fires : RowOK(q)'
  BY <1>3, <1>4 DEF RowOK, MaxOf
<1>8. \A q \in Fires : Charged(q)'
  <2>1. \A q \in Fires : Inside(q)' = Inside(q)
    BY <1>1 DEF Inside, Key, engineVars
  <2> QED BY <1>1, <1>2, <1>3, <1>4, <2>1 DEF Charged, HadEffect
<1>9. Onward
  BY <1>1, <1>2, <1>3, <1>4 DEF Onward, TypeOK
<1>10. \A d \in Engines : EngineOK(d)'
  BY <1>1, <1>6, <1>9, OthersKeep DEF engineVars
<1> QED BY <1>1, <1>6, <1>7, <1>8, <1>10 DEF engineVars, ViewOK

-----------------------------------------------------------------------------
(* The tick: recovery, selection, the claim of a job.                      *)

LEMMA RecoverStep ==
    ASSUME IInv, NEW e \in Engines, RecoverRuns(e)
    PROVE  IInv'
<1> USE DEF IInv
<1> DEFINE over == {k \in Fires : LeaseOver(runs[k])}
<1>0. over \subseteq Fires /\ \A k \in over : runs[k].status = "running"
  BY DEF LeaseOver
<1>1. /\ runs' = [k \in Fires |-> IF k \in over THEN Abandoned(runs[k]) ELSE runs[k]]
      /\ lapsed' = [lapsed EXCEPT ![e] = {k[1] : k \in over}]
      /\ pc' = [pc EXCEPT ![e] = IF over = {} THEN "select" ELSE "requeue"]
      /\ UNCHANGED <<now, jobs, selected, since, work, effects, crashes, resets>>
  BY DEF RecoverRuns, Goto
<1> HIDE DEF over
<1>2. \A k \in Fires :
        /\ WellFormed(runs'[k]) /\ runs'[k].attempts = runs[k].attempts
        /\ runs'[k] = runs[k] \/ /\ runs[k].status = "running"
                                 /\ runs'[k].status = "abandoned"
                                 /\ runs'[k].maxAttempts = runs[k].maxAttempts
  <2> SUFFICES ASSUME NEW k \in Fires
               PROVE  /\ WellFormed(runs'[k]) /\ runs'[k].attempts = runs[k].attempts
                      /\ runs'[k] = runs[k] \/ /\ runs[k].status = "running"
                                               /\ runs'[k].status = "abandoned"
                                               /\ runs'[k].maxAttempts = runs[k].maxAttempts
    OBVIOUS
  <2>1. WellFormed(runs[k])
    BY DEF RowOK
  <2>2. /\ WellFormed(Abandoned(runs[k])) /\ Abandoned(runs[k]).status = "abandoned"
        /\ Abandoned(runs[k]).attempts = runs[k].attempts
        /\ Abandoned(runs[k]).maxAttempts = runs[k].maxAttempts
    BY <2>1, ReleasedFacts DEF Abandoned, Status, TERMINAL_STATUSES
  <2> QED BY <1>0, <1>1, <2>1, <2>2
<1>3. runs' \in [Fires -> Row]
  BY <1>1, <1>2 DEF WellFormed
<1>4. lapsed' \in [Engines -> SUBSET Jobs]
  BY <1>0, <1>1, FireTyped DEF TypeOK
<1>5. pc' \in [Engines -> Labels] /\ pc'[e] \in {"select", "requeue"} /\ Alone(e)
  BY <1>1 DEF TypeOK, Labels, Alone
<1>6. TypeOK'
  BY <1>1, <1>3, <1>4, <1>5 DEF TypeOK
<1>7. \A k \in Fires : RowOK(k)'
  BY <1>2 DEF RowOK, MaxOf
<1>8. \A k \in Fires : Charged(k)'
  BY <1>1, <1>2, <1>5, NothingCharged
<1>9. Onward
  BY <1>1, <1>2 DEF Onward, TypeOK
<1>10. EngineOK(e)' /\ \A v \in selected'[e] : ViewOK(v)
  BY <1>1, <1>5 DEF EngineOK, InFiring, Outcome
<1> QED BY <1>5, <1>6, <1>7, <1>8, <1>9, <1>10, EngineMoves

\* Labels at which an engine has no firing in its hands.
Outside == {"idle", "requeue", "select", "take"}

LEMMA OutsideOK ==
    ASSUME NEW e \in Engines, pc'[e] \in Outside
    PROVE  EngineOK(e)' /\ pc'[e] \notin {"decide", "execute"}
BY DEF Outside, EngineOK, InFiring, Outcome

LEMMA RequeueStep ==
    ASSUME IInv, NEW e \in Engines, RequeueJobs(e)
    PROVE  IInv'
<1> USE DEF IInv
<1>1. /\ jobs' = [j \in Jobs |-> IF j \in lapsed[e] /\ jobs[j].status = "running"
                                THEN [jobs[j] EXCEPT !.status = "pending"] ELSE jobs[j]]
      /\ lapsed' = [lapsed EXCEPT ![e] = {}] /\ pc' = [pc EXCEPT ![e] = "select"]
      /\ UNCHANGED <<now, runs, selected, since, work, effects, crashes, resets>>
  BY DEF RequeueJobs, Goto
<1>2. jobs' \in [Jobs -> JobRow]
  <2>1. \A j \in Jobs : jobs[j] \in JobRow
    BY DEF TypeOK, JobRow
  <2>2. \A j \in Jobs : [jobs[j] EXCEPT !.status = "pending"] \in JobRow
    BY <2>1 DEF JobRow, JobStatus
  <2> QED BY <1>1, <2>1, <2>2
<1>3. pc' \in [Engines -> Labels] /\ pc'[e] = "select" /\ Alone(e)
  BY <1>1 DEF TypeOK, Labels, Alone
<1>4. lapsed' \in [Engines -> SUBSET Jobs]
  BY <1>1 DEF TypeOK
<1>5. TypeOK'
  BY <1>1, <1>2, <1>3, <1>4 DEF TypeOK, JobRow
<1>6. EngineOK(e)' /\ pc'[e] \notin {"decide", "execute"}
  BY <1>3, OutsideOK DEF Outside
<1> QED BY <1>1, <1>3, <1>5, <1>6, QuietStep

LEMMA SelectStep ==
    ASSUME IInv, NEW e \in Engines, SelectDue(e)
    PROVE  IInv'
<1> USE DEF IInv
<1> DEFINE due == {j \in Jobs : Selectable(j, now)}
<1>1. /\ selected' = [selected EXCEPT ![e] = {View(j) : j \in due}]
      /\ since' = [since EXCEPT ![e] = IF due = {} THEN 0 ELSE now]
      /\ pc' = [pc EXCEPT ![e] = IF due = {} THEN "idle" ELSE "take"]
      /\ UNCHANGED <<now, jobs, runs, lapsed, work, effects, crashes, resets>>
  BY DEF SelectDue, Goto
<1>2. \A j \in due : View(j) \in Views /\ ViewOK(View(j))
  <2> SUFFICES ASSUME NEW j \in due PROVE View(j) \in Views /\ ViewOK(View(j))
    OBVIOUS
  <2>1. jobs[j].next \in Nat \cup {Never} /\ jobs[j].retries \in Nat
    BY DEF TypeOK
  <2>2. jobs[j].next \in Time \cup {Never}
    BY <2>1, TimeIsNumbers DEF Selectable, Due, TypeOK
  <2> QED BY <2>1, <2>2, TimeIsNumbers DEF View, Views, ViewOK
<1> HIDE DEF due
<1>3. selected'[e] = {View(j) : j \in due} /\ selected' \in [Engines -> SUBSET Views]
  BY <1>1, <1>2 DEF TypeOK
<1>4. pc' \in [Engines -> Labels] /\ pc'[e] \in {"idle", "take"} /\ Alone(e)
  BY <1>1 DEF TypeOK, Labels, Alone
<1>5. since' \in [Engines -> Time]
  BY <1>1, TimeIsNumbers DEF TypeOK
<1>6. TypeOK'
  BY <1>1, <1>3, <1>4, <1>5 DEF TypeOK
<1>7. EngineOK(e)' /\ pc'[e] \notin {"decide", "execute"}
  BY <1>4, OutsideOK DEF Outside
<1>8. \A v \in selected'[e] : ViewOK(v)
  BY <1>2, <1>3
<1> QED BY <1>1, <1>4, <1>6, <1>7, <1>8, QuietStep

(* An engine that is done with its row.                                    *)
LEMMA ProceedFacts ==
    ASSUME TypeOK, NEW e \in Engines, Proceed(e)
    PROVE  /\ work' \in [Engines -> Views] /\ since' \in [Engines -> Time]
           /\ pc' \in [Engines -> Labels] /\ pc'[e] \in Outside
           /\ work'[e] = NoWork
           /\ \A d \in Engines \ {e} : pc'[d] = pc[d] /\ work'[d] = work[d]
<1>1. NoWork \in Views
  BY TimeIsNumbers DEF NoWork, Views
<1>2. work' \in [Engines -> Views] /\ since' \in [Engines -> Time]
  BY <1>1, TimeIsNumbers DEF Proceed, TypeOK
<1>3. pc' \in [Engines -> Labels] /\ pc'[e] \in Outside
  BY DEF Proceed, Goto, TypeOK, Labels, Outside
<1> QED BY <1>2, <1>3 DEF Proceed, Goto, TypeOK

LEMMA ClaimJobStep ==
    ASSUME IInv, NEW e \in Engines, ClaimJob(e)
    PROVE  IInv'
<1> USE DEF IInv
<1>1. PICK v \in selected[e] :
        /\ selected' = [selected EXCEPT ![e] = @ \ {v}]
        /\ \/ /\ SetStatus(v.id, "running") /\ work' = [work EXCEPT ![e] = v]
              /\ Goto(e, "open") /\ UNCHANGED since
           \/ Proceed(e) /\ UNCHANGED jobs
        /\ UNCHANGED <<now, runs, lapsed, effects, crashes, resets>>
  BY DEF ClaimJob, First
<1>2. v \in Views /\ ViewOK(v) /\ v.id \in Jobs
  BY DEF TypeOK, ViewOK
<1>3. selected' \in [Engines -> SUBSET Views] /\ selected'[e] \subseteq selected[e]
      /\ \A d \in Engines \ {e} : selected'[d] = selected[d]
  BY <1>1 DEF TypeOK
<1>4. CASE /\ SetStatus(v.id, "running") /\ work' = [work EXCEPT ![e] = v]
           /\ Goto(e, "open") /\ UNCHANGED since
  <2>1. jobs' \in [Jobs -> JobRow]
    BY <1>2, <1>4, JobSet DEF SetStatus, JobStatus, TypeOK, JobRow
  <2>2. /\ pc' \in [Engines -> Labels] /\ pc'[e] = "open" /\ work' \in [Engines -> Views]
        /\ work'[e] = v /\ Alone(e)
    BY <1>2, <1>3, <1>4 DEF Goto, TypeOK, Labels, Alone
  <2>3. TypeOK'
    BY <1>1, <1>3, <1>4, <2>1, <2>2 DEF TypeOK, JobRow
  <2>4. EngineOK(e)'
    BY <1>2, <2>2 DEF EngineOK, InFiring, Outcome, ViewOK
  <2> QED BY <1>1, <1>3, <2>2, <2>3, <2>4, QuietStep
<1>5. CASE Proceed(e) /\ UNCHANGED jobs
  <2>1. TypeOK' /\ Alone(e)
    BY <1>1, <1>3, <1>5, ProceedFacts DEF TypeOK, Alone
  <2>2. EngineOK(e)' /\ pc'[e] \notin {"decide", "execute"}
    BY <1>5, ProceedFacts, OutsideOK
  <2> QED BY <1>1, <1>3, <2>1, <2>2, QuietStep
<1> QED BY <1>1, <1>4, <1>5

-----------------------------------------------------------------------------
(* The firing.                                                             *)

\* The run of the firing that e has: one row is given, the others stay.
LEMMA OneRun ==
    ASSUME IInv, NEW k \in Fires, NEW row, WellFormed(row),
           runs' = [runs EXCEPT ![k] = row],
           row.attempts <= MaxOf(k), row.maxAttempts = MaxOf(k), row.status # "absent",
           effects' = effects
    PROVE  /\ runs' \in [Fires -> Row] /\ runs'[k] = row
           /\ \A q \in Fires \ {k} : runs'[q] = runs[q]
           /\ \A q \in Fires : RowOK(q)'
           /\ Onward
<1>1. /\ runs'[k] = row /\ \A q \in Fires \ {k} : runs'[q] = runs[q]
      /\ runs' \in [Fires -> Row]
  BY DEF IInv, TypeOK, WellFormed
<1>2. \A q \in Fires : RowOK(q)'
  BY <1>1 DEF IInv, RowOK, MaxOf
<1>3. Onward
  BY <1>1 DEF Onward, IInv, TypeOK
<1> QED BY <1>1, <1>2, <1>3

LEMMA OpenStep ==
    ASSUME IInv, NEW e \in Engines, OpenRun(e)
    PROVE  IInv'
<1> USE DEF IInv
<1> DEFINE t == FireTime(work[e])
           k == <<work[e].id, t>>
           max == Def[work[e].id].maxRetries + 1
<1>1. /\ pc[e] = "open" /\ work' = [work EXCEPT ![e].fire = t, ![e].began = now]
      /\ runs' = IF runs[k].status = "absent"
                  THEN [runs EXCEPT ![k] = PendingRow(max)] ELSE runs
      /\ pc' = [pc EXCEPT ![e] = "claim"]
      /\ UNCHANGED <<now, jobs, lapsed, selected, since, effects, crashes, resets>>
  BY DEF OpenRun, Goto
<1>2. work[e].id \in Jobs /\ work[e].next \in Time \cup {Never}
  BY <1>1 DEF EngineOK, ViewOK
<1>3. t \in Time
  BY <1>2, DefTyped DEF FireTime, TypeOK
<1>4. k \in Fires /\ max \in Nat /\ MaxOf(k) = max /\ k[1] = work[e].id
  BY <1>2, <1>3, DefTyped DEF Fires, MaxOf
<1> HIDE DEF t, max
<1>5. /\ work' \in [Engines -> Views] /\ work'[e].id = work[e].id /\ work'[e].fire = t
      /\ \A d \in Engines \ {e} : work'[d] = work[d]
  <2>1. work[e] \in Views /\ now \in Time /\ work \in [Engines -> Views]
    BY DEF TypeOK
  <2>2. [work[e] EXCEPT !.fire = t, !.began = now] \in Views
    BY <1>3, <2>1 DEF Views
  <2>3. work' = [work EXCEPT ![e] = [work[e] EXCEPT !.fire = t, !.began = now]]
    BY <1>1, <2>1
  <2> QED BY <2>1, <2>2, <2>3 DEF Views
<1>6. pc' \in [Engines -> Labels] /\ pc'[e] = "claim" /\ Alone(e)
  BY <1>1, <1>5 DEF TypeOK, Labels, Alone
<1>7. Key(e)' = k
  BY <1>5 DEF Key
<1> HIDE DEF k
<1>8. /\ runs' \in [Fires -> Row] /\ Onward /\ runs'[k].status # "absent"
      /\ \A q \in Fires : /\ RowOK(q)' /\ runs'[q].attempts = runs[q].attempts
                          /\ runs'[q].status = "succeeded" => runs[q].status = "succeeded"
  <2>1. CASE runs[k].status = "absent"
    <3>1. /\ WellFormed(PendingRow(max)) /\ PendingRow(max).status = "pending"
          /\ PendingRow(max).attempts = 0 /\ PendingRow(max).maxAttempts = max
      BY <1>4, PendingFacts
    <3>2. runs[k].attempts = 0
      BY <1>4, <2>1 DEF RowOK, WellFormed
    <3>3. runs' = [runs EXCEPT ![k] = PendingRow(max)] /\ 0 <= MaxOf(k)
      BY <1>1, <1>4, <2>1
    <3> HIDE DEF IInv
    <3> QED BY <1>1, <1>4, <3>1, <3>2, <3>3, OneRun
  <2>2. CASE runs[k].status # "absent"
    BY <1>1, <2>2, RowsStay DEF TypeOK
  <2> QED BY <2>1, <2>2
<1>9. TypeOK'
  BY <1>1, <1>5, <1>6, <1>8 DEF TypeOK
<1>10. ASSUME NEW q \in Fires PROVE Charged(q)'
  <2> HIDE DEF IInv
  <2>1. pc'[e] \notin {"decide", "execute"}
    BY <1>6
  <2> QED BY <1>1, <1>6, <1>8, <2>1, NothingCharged
<1>11. EngineOK(e)' /\ \A v \in selected'[e] : ViewOK(v)
  BY <1>1, <1>4, <1>6, <1>7, <1>8 DEF EngineOK, Outcome
<1> HIDE DEF IInv
<1> QED BY <1>6, <1>8, <1>9, <1>10, <1>11, EngineMoves

LEMMA ClaimRunStep ==
    ASSUME IInv, NEW e \in Engines, ClaimRun(e)
    PROVE  IInv'
<1> USE DEF IInv
<1> DEFINE k == Key(e)
           row == Claimed(runs[k], e)
<1>1. /\ pc[e] = "claim" /\ Claimable(runs[k]) /\ pc' = [pc EXCEPT ![e] = "decide"]
      /\ UNCHANGED <<now, jobs, lapsed, selected, since, work, effects, crashes, resets>>
  BY DEF ClaimRun, Goto
<1>2. k \in Fires /\ runs[k].status # "absent" /\ WellFormed(runs[k])
  BY <1>1 DEF EngineOK, InFiring, RowOK
<1>3. runs' = [runs EXCEPT ![k] = row]
  BY <1>2 DEF ClaimRun, TypeOK
<1>4. /\ WellFormed(row) /\ row.status = "running" /\ row.attempts = runs[k].attempts + 1
      /\ row.maxAttempts = runs[k].maxAttempts
  <2> HIDE DEF k
  <2> QED BY <1>2, ClaimedFacts DEF Engines
<1> HIDE DEF row
<1>5. row.maxAttempts = MaxOf(k) /\ row.attempts <= MaxOf(k)
  BY <1>1, <1>2, <1>4 DEF RowOK, Claimable, WellFormed, Row
<1>6. /\ runs' \in [Fires -> Row] /\ Onward /\ runs'[k] = row
      /\ \A q \in Fires \ {k} : runs'[q] = runs[q]
      /\ \A q \in Fires : RowOK(q)'
  <2> HIDE DEF IInv
  <2> QED BY <1>1, <1>2, <1>3, <1>4, <1>5, OneRun
<1>7. pc' \in [Engines -> Labels] /\ pc'[e] = "decide" /\ Alone(e) /\ Key(e)' = k
  BY <1>1 DEF TypeOK, Labels, Alone, Key
<1>8. TypeOK'
  BY <1>1, <1>6, <1>7 DEF TypeOK
<1> HIDE DEF k
<1>9. e \notin Inside(k)
      /\ \A q \in Fires : Inside(q)' = IF q = k THEN Inside(q) \cup {e} ELSE Inside(q)
  BY <1>1, <1>7 DEF Inside, Alone, Key, k
<1>10. ASSUME NEW q \in Fires PROVE Charged(q)'
  <2>1. CASE q = k
    <3>1. Inside(q)' = Inside(q) \cup {e} /\ e \notin Inside(q)
      BY <1>9, <2>1
    <3>2. IsFiniteSet(Inside(q)') /\ Cardinality(Inside(q)') = Cardinality(Inside(q)) + 1
      BY <3>1, NumbersOfFiring, FS_AddElement
    <3>3. effects'[q] + Cardinality(Inside(q)') <= runs'[q].attempts
      BY <1>1, <1>4, <1>6, <2>1, <3>2, NumbersOfFiring
    <3> HIDE DEF IInv
    <3> QED BY <1>4, <1>6, <2>1, <3>2, <3>3 DEF Charged
  <2>2. CASE q # k
    <3>1. Charged(q) /\ Inside(q)' = Inside(q) /\ runs'[q] = runs[q]
      BY <1>6, <1>9, <2>2
    <3> HIDE DEF IInv
    <3> QED BY <1>1, <3>1 DEF Charged, HadEffect
  <2> QED BY <2>1, <2>2
<1>11. EngineOK(e)' /\ \A v \in selected'[e] : ViewOK(v)
  BY <1>1, <1>2, <1>4, <1>6, <1>7 DEF EngineOK, Outcome
<1> QED BY <1>6, <1>7, <1>8, <1>10, <1>11, EngineMoves

(* The steps that write the job and leave the runs alone.                  *)
LEMMA JobStep ==
    ASSUME IInv, NEW e \in Engines,
           ClaimRefused(e) \/ Skip(e) \/ Allow(e) \/ CountTry(e) \/ SettleJob(e)
    PROVE  IInv'
<1> USE DEF IInv
<1>1. /\ pc[e] \in InFiring /\ Key(e) \in Fires /\ runs[Key(e)].status # "absent"
      /\ UNCHANGED <<now, runs, lapsed, selected, effects, crashes, resets>>
  BY DEF ClaimRefused, Skip, Allow, CountTry, SettleJob, InFiring, EngineOK
<1>2. /\ work[e].id \in Jobs /\ work[e] \in Views /\ work[e].began \in Nat
      /\ work[e].retries \in Nat
  BY <1>1, TimeIsNumbers DEF Key, Fires, TypeOK, Views
<1>3. jobs' \in [Jobs -> JobRow]
  <2>0. jobs \in [Jobs -> JobRow] /\ jobs[work[e].id] \in JobRow
    BY <1>2 DEF TypeOK, JobRow
  <2>1. CASE ClaimRefused(e)
    <3> HIDE DEF IInv
    <3>1. jobs' = jobs \/ jobs' = [jobs EXCEPT ![work[e].id].status = "failed"]
      BY <2>1, Zenon DEF ClaimRefused
    <3>2. TypeOK /\ "failed" \in JobStatus
      BY DEF IInv, JobStatus
    <3>3. [jobs EXCEPT ![work[e].id].status = "failed"] \in [Jobs -> JobRow]
      BY <1>2, <2>0, <3>2, JobSet
    <3> QED BY <2>0, <3>1, <3>3
  <2>2. CASE Skip(e) \/ Allow(e)
    <3> HIDE DEF IInv
    <3>1. \/ jobs' = [jobs EXCEPT ![work[e].id].status = "skipped"]
          \/ jobs' = [jobs EXCEPT ![work[e].id].status = "running"]
      BY <2>2 DEF Skip, Allow, SetStatus
    <3>2. TypeOK /\ {"skipped", "running"} \subseteq JobStatus
      BY DEF IInv, JobStatus
    <3> QED BY <1>2, <2>0, <3>1, <3>2, JobSet
  <2>3. CASE CountTry(e)
    <3>1. [jobs[work[e].id] EXCEPT !.retries = @ + 1] \in JobRow
      BY <2>0 DEF JobRow
    <3> QED BY <1>2, <2>0, <2>3, <3>1, JobSet DEF CountTry
  <2>4. CASE SettleJob(e)
    <3>1. 2^work[e].retries \in Nat
      BY <1>2, PowerIsNumber
    <3>2. Settled(e) \in JobRow
      <4> DEFINE p == 2^work[e].retries
      <4>1. p \in Nat
        BY <3>1
      <4>2. \A nxt \in Nat \cup {Never}, st \in JobStatus, n \in Nat :
               /\ [jobs[work[e].id] EXCEPT !.status = st, !.next = nxt] \in JobRow
               /\ [jobs[work[e].id] EXCEPT !.status = st, !.next = nxt, !.retries = n]
                     \in JobRow
        BY <2>0 DEF JobRow
      <4>3. /\ work[e].began + p \in Nat /\ work[e].retries + 1 \in Nat
            /\ work[e].began + 1 \in Nat /\ {"failed", "completed"} \subseteq JobStatus
        <5> HIDE DEF p
        <5> QED BY <1>2, <4>1 DEF JobStatus
      <4>4. work[e].ok \in BOOLEAN
        BY <1>2 DEF Views
      <4> HIDE DEF p
      <4> QED BY <4>2, <4>3, <4>4 DEF Settled, p
    <3> QED BY <1>2, <2>4, <3>2, JobSet DEF SettleJob, SetJob
  <2> QED BY <2>1, <2>2, <2>3, <2>4
<1>4. CASE ClaimRefused(e)
  <2>1. Proceed(e) /\ UNCHANGED selected
    BY <1>4 DEF ClaimRefused
  <2>2. TypeOK' /\ Alone(e)
    BY <1>1, <1>3, <2>1, ProceedFacts DEF TypeOK, Alone, JobRow
  <2>3. EngineOK(e)' /\ pc'[e] \notin {"decide", "execute"}
    BY <2>1, ProceedFacts, OutsideOK
  <2> QED BY <1>1, <2>1, <2>2, <2>3, QuietStep
<1>5. CASE Allow(e)
  <2> DEFINE dry == Def[work[e].id].dryRun
  <2>1. /\ pc' = [pc EXCEPT ![e] = IF dry THEN "settle" ELSE "execute"]
        /\ work' = [work EXCEPT ![e].ok = dry] /\ UNCHANGED since /\ pc[e] = "decide"
    BY <1>5 DEF Allow, Goto
  <2>2. dry \in BOOLEAN
    BY <1>2, DefTyped
  <2>3. /\ work' \in [Engines -> Views] /\ Key(e)' = Key(e) /\ work'[e].ok = dry
        /\ \A d \in Engines \ {e} : work'[d] = work[d]
    <3>1. work \in [Engines -> Views]
      BY DEF TypeOK
    <3>2. [work[e] EXCEPT !.ok = dry] \in Views
      BY <1>2, <2>2 DEF Views
    <3>3. /\ work' = [work EXCEPT ![e] = [work[e] EXCEPT !.ok = dry]]
          /\ work'[e].id = work[e].id /\ work'[e].fire = work[e].fire /\ work'[e].ok = dry
      BY <2>1, <3>1 DEF Views
    <3> QED BY <3>1, <3>2, <3>3 DEF Key
  <2>4. pc' \in [Engines -> Labels] /\ Alone(e) /\ (pc'[e] = IF dry THEN "settle" ELSE "execute")
    BY <1>1, <2>1, <2>3 DEF TypeOK, Labels, Alone
  <2>5. TypeOK'
    BY <1>1, <1>3, <2>1, <2>3, <2>4 DEF TypeOK, JobRow
  <2>6. EngineOK(e)'
    <3>1. dry => HadEffect(Key(e))
      BY DEF HadEffect, Key
    <3> QED BY <1>1, <2>3, <2>4, <3>1 DEF EngineOK, Outcome, HadEffect
  <2> QED BY <1>1, <2>1, <2>3, <2>4, <2>5, <2>6, QuietStep
<1>6. CASE Skip(e)
  <2>1. /\ \E label \in {"close_quiet", "close_denied"} : pc' = [pc EXCEPT ![e] = label]
        /\ UNCHANGED <<work, since>>
    BY <1>6 DEF Skip, Goto
  <2>2. /\ pc' \in [Engines -> Labels] /\ pc'[e] \in {"close_quiet", "close_denied"}
        /\ Alone(e) /\ Key(e)' = Key(e)
    BY <1>1, <2>1 DEF TypeOK, Labels, Outcome, Alone, Key
  <2>3. TypeOK'
    BY <1>1, <1>3, <2>1, <2>2 DEF TypeOK, JobRow
  <2>4. EngineOK(e)'
    BY <1>1, <2>2 DEF EngineOK
  <2> QED BY <1>1, <2>2, <2>3, <2>4, QuietStep
<1>7. CASE CountTry(e)
  <2>1. pc' = [pc EXCEPT ![e] = "settle"] /\ UNCHANGED <<work, since>> /\ pc[e] = "count"
    BY <1>7 DEF CountTry, Goto
  <2>2. /\ pc' \in [Engines -> Labels] /\ pc'[e] = "settle"
        /\ Alone(e) /\ Key(e)' = Key(e)
    BY <1>1, <2>1 DEF TypeOK, Labels, Alone, Key
  <2>3. TypeOK'
    BY <1>1, <1>3, <2>1, <2>2 DEF TypeOK, JobRow
  <2>4. EngineOK(e)'
    BY <1>1, <2>1, <2>2 DEF EngineOK, HadEffect
  <2> QED BY <1>1, <2>2, <2>3, <2>4, QuietStep
<1>8. CASE SettleJob(e)
  <2>1. /\ pc' = [pc EXCEPT ![e] = IF work[e].ok THEN "close_ok" ELSE "close_failed"]
        /\ UNCHANGED <<work, since>> /\ pc[e] = "settle"
    BY <1>8 DEF SettleJob, Goto
  <2>2. /\ pc' \in [Engines -> Labels] /\ pc'[e] \in {"close_ok", "close_failed"}
        /\ pc'[e] = "close_ok" => work[e].ok
        /\ Alone(e) /\ Key(e)' = Key(e)
    BY <1>1, <2>1 DEF TypeOK, Labels, Outcome, Alone, Key
  <2>3. TypeOK'
    BY <1>1, <1>3, <2>1, <2>2 DEF TypeOK, JobRow
  <2>4. EngineOK(e)'
    BY <1>1, <2>1, <2>2 DEF EngineOK, HadEffect
  <2> QED BY <1>1, <2>2, <2>3, <2>4, QuietStep
<1> QED BY <1>4, <1>5, <1>6, <1>7, <1>8

LEMMA ExecuteStep ==
    ASSUME IInv, NEW e \in Engines, Execute(e)
    PROVE  IInv'
<1> USE DEF IInv
<1> DEFINE k == Key(e)
<1>1. /\ pc[e] = "execute" /\ pc' = [pc EXCEPT ![e] = "count"]
      /\ effects' = [effects EXCEPT ![k] = @ + 1]
      /\ \E good \in BOOLEAN : work' = [work EXCEPT ![e].ok = good]
      /\ UNCHANGED <<now, jobs, runs, lapsed, selected, since, crashes, resets>>
  BY DEF Execute, Goto
<1>2. k \in Fires /\ runs[k].status # "absent"
  BY <1>1 DEF EngineOK, InFiring
<1>3. /\ work' \in [Engines -> Views] /\ Key(e)' = k
      /\ \A d \in Engines \ {e} : work'[d] = work[d]
  <2>1. PICK good \in BOOLEAN : work' = [work EXCEPT ![e].ok = good]
    BY <1>1
  <2>2. work \in [Engines -> Views]
    BY DEF TypeOK
  <2>3. [work[e] EXCEPT !.ok = good] \in Views
    BY <2>2 DEF Views
  <2>4. work'[e].id = work[e].id /\ work'[e].fire = work[e].fire
    BY <2>1, <2>2 DEF Views
  <2> QED BY <2>1, <2>2, <2>3, <2>4 DEF Key
<1>4. pc' \in [Engines -> Labels] /\ pc'[e] = "count" /\ Alone(e)
  BY <1>1, <1>3 DEF TypeOK, Labels, Alone
<1>5. /\ effects' \in [Fires -> Nat] /\ effects'[k] = effects[k] + 1
      /\ \A q \in Fires \ {k} : effects'[q] = effects[q]
  BY <1>1, <1>2 DEF TypeOK
<1>6. TypeOK'
  BY <1>1, <1>3, <1>4, <1>5 DEF TypeOK
<1>7. e \in Inside(k)
      /\ \A q \in Fires : Inside(q)' = IF q = k THEN Inside(q) \ {e} ELSE Inside(q)
  BY <1>1, <1>3, <1>4 DEF Inside, Alone, Key
<1> HIDE DEF k
<1>8. ASSUME NEW q \in Fires PROVE Charged(q)'
  <2>1. CASE q = k
    <3>1. Inside(q)' = Inside(q) \ {e} /\ e \in Inside(q)
      BY <1>7, <2>1
    <3>2. IsFiniteSet(Inside(q)') /\ Cardinality(Inside(q)') = Cardinality(Inside(q)) - 1
      BY <3>1, NumbersOfFiring, FS_RemoveElement
    <3>3. effects'[q] + Cardinality(Inside(q)') <= runs'[q].attempts
      BY <1>1, <1>5, <2>1, <3>2, NumbersOfFiring
    <3>4. effects'[q] > 0
      BY <1>5, <2>1, NumbersOfFiring
    <3> HIDE DEF IInv
    <3> QED BY <3>2, <3>3, <3>4 DEF Charged, HadEffect
  <2>2. CASE q # k
    <3>1. Charged(q) /\ Inside(q)' = Inside(q) /\ effects'[q] = effects[q]
      BY <1>5, <1>7, <2>2
    <3> HIDE DEF IInv
    <3> QED BY <1>1, <3>1 DEF Charged, HadEffect
  <2> QED BY <2>1, <2>2
<1>9. Onward
  <2> SUFFICES ASSUME NEW q \in Fires PROVE effects'[q] >= effects[q]
    BY <1>1 DEF Onward
  <2> QED BY <1>5 DEF TypeOK
<1>10. EngineOK(e)'
  BY <1>1, <1>2, <1>3, <1>4, <1>5, NumbersOfFiring DEF EngineOK, Outcome
<1>11. \A q \in Fires : RowOK(q)'
  BY <1>1 DEF RowOK
<1> QED BY <1>1, <1>4, <1>6, <1>8, <1>9, <1>10, <1>11, EngineMoves

LEMMA FinishStep ==
    ASSUME IInv, NEW e \in Engines, FinishRun(e)
    PROVE  IInv'
<1> USE DEF IInv
<1> DEFINE k == Key(e)
           st == Outcome[pc[e]]
           row == Finished(runs[k], st)
<1>1. /\ pc[e] \in DOMAIN Outcome /\ Proceed(e)
      /\ UNCHANGED <<now, jobs, lapsed, effects, selected, crashes, resets>>
  BY DEF FinishRun
<1>2. k \in Fires /\ WellFormed(runs[k]) /\ runs[k].status # "absent"
  BY <1>1 DEF EngineOK, InFiring, RowOK
<1>3. st \in {"cancelled", "failed", "succeeded"} /\ (st = "succeeded" => pc[e] = "close_ok")
  BY <1>1 DEF Outcome
<1>4. st \in Status \ {"running", "absent"}
  BY <1>3 DEF Status, TERMINAL_STATUSES
<1>5. /\ WellFormed(row) /\ row.status = st /\ row.attempts = runs[k].attempts
      /\ row.maxAttempts = runs[k].maxAttempts
  <2> HIDE DEF st
  <2> QED BY <1>2, <1>4, ReleasedFacts DEF Finished
<1>6. runs' = runs \/ runs' = [runs EXCEPT ![k] = row]
  BY <1>1, <1>2 DEF FinishRun, TypeOK
<1>7. st = "succeeded" => HadEffect(k)
  BY <1>3 DEF EngineOK
<1> HIDE DEF st, row, k
<1>8. /\ runs' \in [Fires -> Row] /\ Onward
      /\ \A q \in Fires : /\ RowOK(q)' /\ runs'[q].attempts = runs[q].attempts
                          /\ runs'[q].status = "succeeded" =>
                                runs[q].status = "succeeded" \/ HadEffect(q)
  <2>1. CASE runs' = runs
    BY <1>1, <2>1, RowsStay DEF TypeOK
  <2>2. CASE runs' = [runs EXCEPT ![k] = row]
    <3>1. row.status # "absent" /\ row.maxAttempts = MaxOf(k) /\ row.attempts <= MaxOf(k)
      BY <1>2, <1>3, <1>5 DEF RowOK
    <3>2. /\ runs' \in [Fires -> Row] /\ Onward /\ runs'[k] = row
          /\ \A q \in Fires \ {k} : runs'[q] = runs[q]
          /\ \A q \in Fires : RowOK(q)'
      <4> HIDE DEF IInv
      <4> QED BY <1>1, <1>2, <1>5, <2>2, <3>1, OneRun
    <3> QED BY <1>5, <1>7, <3>2
  <2> QED BY <1>6, <2>1, <2>2
<1>9. TypeOK' /\ Alone(e)
  BY <1>1, <1>8, ProceedFacts DEF TypeOK, Alone
<1>10. EngineOK(e)' /\ pc'[e] \notin {"decide", "execute"}
  BY <1>1, ProceedFacts, OutsideOK
<1>11. ASSUME NEW q \in Fires PROVE Charged(q)'
  <2> HIDE DEF IInv
  <2> QED BY <1>1, <1>8, <1>9, <1>10, NothingCharged
<1>12. \A v \in selected'[e] : ViewOK(v)
  BY <1>1
<1> HIDE DEF IInv
<1> QED BY <1>8, <1>9, <1>10, <1>11, <1>12, EngineMoves

LEMMA CrashStep ==
    ASSUME IInv, NEW e \in Engines, Crash(e)
    PROVE  IInv'
<1> USE DEF IInv
<1>1. /\ crashes' = crashes + 1 /\ pc' = [pc EXCEPT ![e] = "idle"]
      /\ lapsed' = [lapsed EXCEPT ![e] = {}] /\ selected' = [selected EXCEPT ![e] = {}]
      /\ work' = [work EXCEPT ![e] = NoWork] /\ since' = [since EXCEPT ![e] = 0]
      /\ UNCHANGED <<now, jobs, runs, effects, resets>>
  BY DEF Crash
<1>2. NoWork \in Views
  BY TimeIsNumbers DEF NoWork, Views
<1>3. TypeOK'
  BY <1>1, <1>2, TimeIsNumbers DEF TypeOK, Labels
<1>4. Alone(e) /\ pc'[e] = "idle" /\ selected'[e] = {}
  BY <1>1 DEF TypeOK, Alone
<1>5. EngineOK(e)' /\ pc'[e] \notin {"decide", "execute"}
  BY <1>4, OutsideOK DEF Outside
<1> QED BY <1>1, <1>3, <1>4, <1>5, QuietStep

-----------------------------------------------------------------------------
(* The theorems.                                                           *)

(* Every step preserves the inductive invariant.                           *)
LEMMA NextIInv == IInv /\ [Next]_vars => IInv'
<1> SUFFICES ASSUME IInv, [Next]_vars PROVE IInv'
  OBVIOUS
<1>1. ASSUME NEW e \in Engines, EngineStep(e) PROVE IInv'
  BY <1>1, RecoverStep, RequeueStep, SelectStep, ClaimJobStep, OpenStep, ClaimRunStep,
     JobStep, ExecuteStep, FinishStep DEF EngineStep
<1>2. CASE UNCHANGED vars
  BY <1>2, AsideStep DEF IInv, TypeOK, vars, engineVars
<1> QED BY <1>1, <1>2, OwnerStep, CrashStep, LeaseStep, TickStep DEF Next


(* In every behaviour the invariant holds.                                 *)
THEOREM SchedulerInvariance == Spec => []IInv
BY InitIInv, NextIInv, PTL DEF Spec

(* Every variable of the scheduler has its type.                           *)
THEOREM SchedulerTypes == Spec => []TypeOK
<1>1. IInv => TypeOK
  BY DEF IInv
<1> QED BY <1>1, SchedulerInvariance, PTL

(* A firing has no more effects than attempts, and no more attempts than   *)
(* its job allows, with any number of engines in it, stale selections,     *)
(* slow executions and crashes (_execute_job, runs.claim).                 *)
THEOREM EffectsAreCharged == Spec => []EffectsCharged
<1>1. ASSUME IInv PROVE EffectsCharged
  <2> SUFFICES ASSUME NEW k \in Fires
               PROVE  LET inside == {e \in Engines : Executing(e, k) /\
                                                     pc[e] \in {"decide", "execute"}}
                      IN  /\ effects[k] + Cardinality(inside) <= runs[k].attempts
                          /\ runs[k].attempts <= Def[k[1]].maxRetries + 1
                          /\ runs[k].status = "succeeded" => Def[k[1]].dryRun \/ effects[k] > 0
    BY DEF EffectsCharged
  <2>1. {e \in Engines : Executing(e, k) /\ pc[e] \in {"decide", "execute"}} = Inside(k)
    BY DEF Executing, Inside
  <2>2. RowOK(k) /\ Charged(k)
    BY <1>1 DEF IInv
  <2> QED BY <2>1, <2>2 DEF RowOK, Charged, MaxOf, HadEffect
<1> QED BY <1>1, SchedulerInvariance, PTL

-----------------------------------------------------------------------------
(* A running job is attended: an engine marks a job running at a label     *)
(* from which it goes on to the job's own outcome, and it leaves those     *)
(* labels only by a statement that takes the status away again.            *)

AtWork(e, j) ==
    /\ work[e].id = j
    /\ pc[e] \in {"open", "claim", "decide", "execute", "count", "settle"}

Attended ==
    crashes = 0 => \A j \in Jobs : jobs[j].status = "running" =>
        \E e \in Engines : AtWork(e, j)

(* Initially no job is there.                                              *)
LEMMA InitAttended == Init => Attended
BY DEF Init, Attended

(* What an engine does to the jobs, and what of it the others see.         *)
LEMMA EngineAttends ==
    ASSUME IInv, Attended, NEW e \in Engines, EngineStep(e)
    PROVE  Attended'
<1> SUFFICES ASSUME crashes' = 0, NEW j \in Jobs, jobs'[j].status = "running"
             PROVE  \E d \in Engines : AtWork(d, j)'
  BY DEF Attended
<1>1. crashes = 0 /\ jobs \in [Jobs -> JobRow] /\ pc \in [Engines -> Labels]
      /\ work \in [Engines -> Views] /\ jobs[j] \in JobRow
  BY DEF EngineStep, RecoverRuns, RequeueJobs, SelectDue, ClaimJob, OpenRun, ClaimRun,
         ClaimRefused, Skip, Allow, Execute, CountTry, SettleJob, FinishRun, IInv, TypeOK,
         JobRow
<1>2. jobs[j].status = "running" => \E d \in Engines : AtWork(d, j)
  BY <1>1 DEF Attended
<1>3. CASE \E d \in Engines \ {e} : AtWork(d, j)
  <2>1. PICK d \in Engines \ {e} : AtWork(d, j)
    BY <1>3
  <2>2. pc'[d] = pc[d] /\ work'[d] = work[d]
    BY <1>1 DEF EngineStep, RecoverRuns, RequeueJobs, SelectDue, ClaimJob, OpenRun, ClaimRun,
           ClaimRefused, Skip, Allow, Execute, CountTry, SettleJob, FinishRun, Proceed, Goto
  <2> QED BY <2>1, <2>2 DEF AtWork
<1>4. CASE jobs[j].status = "running" => AtWork(e, j)
  <2>1. CASE RecoverRuns(e) \/ SelectDue(e) \/ FinishRun(e)
    BY <1>4, <2>1 DEF RecoverRuns, SelectDue, FinishRun, AtWork, Outcome
  <2>2. CASE RequeueJobs(e)
    <3>1. jobs[j].status = "running" /\ pc[e] = "requeue"
      BY <1>1, <2>2 DEF RequeueJobs, JobRow
    <3> QED BY <1>4, <3>1 DEF AtWork
  <2>3. CASE ClaimJob(e)
    <3>1. pc[e] = "take" /\ jobs[j].status # "running"
      BY <1>4, <2>3 DEF ClaimJob, AtWork
    <3>2. PICK v \in Views :
            \/ SetStatus(v.id, "running") /\ work' = [work EXCEPT ![e] = v] /\ Goto(e, "open")
            \/ UNCHANGED jobs
      BY <2>3 DEF ClaimJob, First, IInv, TypeOK
    <3>3. v.id = j /\ work' = [work EXCEPT ![e] = v] /\ pc' = [pc EXCEPT ![e] = "open"]
      BY <1>1, <3>1, <3>2 DEF SetStatus, Goto
    <3>4. work'[e] = v /\ pc'[e] = "open"
      BY <1>1, <3>3
    <3> QED BY <3>3, <3>4 DEF AtWork
  <2>4. CASE OpenRun(e) \/ ClaimRun(e) \/ Execute(e)
    <3>1. UNCHANGED jobs
      BY <2>4 DEF OpenRun, ClaimRun, Execute
    <3>2. AtWork(e, j)
      BY <1>4, <3>1
    <3>3. pc'[e] \in {"claim", "decide", "count"}
      BY <1>1, <2>4 DEF OpenRun, ClaimRun, Execute, Goto
    <3>4. work'[e].id = work[e].id
      BY <1>1, <2>4 DEF OpenRun, ClaimRun, Execute, Views
    <3> QED BY <3>2, <3>3, <3>4 DEF AtWork
  <2>5. CASE ClaimRefused(e) \/ Skip(e) \/ SettleJob(e)
    <3>1. work[e].id = j => jobs'[j].status # "running"
      <4>1. CASE ClaimRefused(e)
        BY <1>1, <4>1 DEF ClaimRefused, JobRow
      <4>2. CASE Skip(e)
        BY <1>1, <4>2 DEF Skip, SetStatus, JobRow
      <4>3. CASE SettleJob(e)
        <5>1. work[e].ok \in BOOLEAN
          BY <1>1 DEF Views
        <5>2. work[e].id = j => Settled(e).status \in {"failed", "completed"}
          BY <1>1, <5>1 DEF Settled, JobRow
        <5>3. work[e].id = j => jobs'[j] = Settled(e)
          BY <1>1, <4>3 DEF SettleJob, SetJob
        <5> QED BY <5>2, <5>3
      <4> QED BY <2>5, <4>1, <4>2, <4>3
    <3>2. work[e].id # j => jobs'[j] = jobs[j]
      BY <1>1, <2>5 DEF ClaimRefused, Skip, SetStatus, SettleJob, SetJob
    <3> QED BY <1>4, <3>1, <3>2 DEF AtWork
  <2>6. CASE Allow(e)
    <3>1. work[e].id # j => jobs'[j] = jobs[j]
      BY <1>1, <2>6 DEF Allow, SetStatus
    <3>2. work[e].id = j
      BY <1>4, <3>1 DEF AtWork
    <3>3. pc'[e] \in {"settle", "execute"} /\ work'[e].id = work[e].id
      BY <1>1, <2>6 DEF Allow, Goto, Views
    <3> QED BY <3>2, <3>3 DEF AtWork
  <2>7. CASE CountTry(e)
    <3>1. jobs[j].status = "running"
      BY <1>1, <2>7 DEF CountTry, JobRow
    <3>2. pc'[e] = "settle" /\ work' = work
      BY <1>1, <2>7 DEF CountTry, Goto
    <3> QED BY <1>4, <3>1, <3>2 DEF AtWork
  <2> QED BY <2>1, <2>2, <2>3, <2>4, <2>5, <2>6, <2>7 DEF EngineStep
<1> QED BY <1>2, <1>3, <1>4

(* The job's owner marks no job running.                                   *)
LEMMA OwnerAttends ==
    ASSUME IInv, Attended, NEW i \in Jobs, Schedule(i) \/ Cancel(i) \/ ResetJob(i)
    PROVE  Attended'
<1>1. jobs \in [Jobs -> JobRow] /\ jobs[i] \in JobRow
  BY DEF IInv, TypeOK, JobRow
<1>2. jobs'[i].status \in {"pending", "cancelled"}
  <2>1. CASE Schedule(i)
    BY <1>1, <2>1 DEF Schedule, SetJob
  <2>2. CASE Cancel(i)
    BY <1>1, <2>2 DEF Cancel, SetJob, JobRow
  <2>3. CASE ResetJob(i)
    BY <1>1, <2>3 DEF ResetJob, SetJob, JobRow
  <2> QED BY <2>1, <2>2, <2>3
<1>3. \A j \in Jobs \ {i} : jobs'[j] = jobs[j]
  BY <1>1 DEF Schedule, Cancel, ResetJob, SetJob
<1>4. UNCHANGED <<pc, work, crashes>>
  BY DEF Schedule, Cancel, ResetJob, engineVars
<1> QED BY <1>2, <1>3, <1>4 DEF Attended, AtWork

(* While no engine has died, a running job is in the hands of an engine    *)
(* (_claim_job, _execute_job).                                             *)
THEOREM RunningJobsAttended == Spec => []RunningIsAttended
<1>1. ASSUME IInv, Attended, [Next]_vars PROVE Attended'
  <2>1. ASSUME UNCHANGED <<jobs, pc, work, crashes>> PROVE Attended'
    BY <1>1, <2>1 DEF Attended, AtWork
  <2>2. ASSUME NEW e \in Engines, Crash(e) PROVE Attended'
    <3>1. crashes' # 0
      BY <1>1, <2>2 DEF Crash, IInv, TypeOK
    <3> QED BY <3>1 DEF Attended
  <2>3. ASSUME NEW k \in Fires, LeaseExpires(k) PROVE Attended'
    BY <2>1, <2>3 DEF LeaseExpires, engineVars
  <2>4. CASE Tick
    BY <2>1, <2>4 DEF Tick, engineVars
  <2>5. CASE UNCHANGED vars
    BY <2>1, <2>5 DEF vars, engineVars
  <2> QED BY <1>1, <2>2, <2>3, <2>4, <2>5, EngineAttends, OwnerAttends DEF Next
<1>2. Attended => RunningIsAttended
  BY DEF Attended, AtWork, RunningIsAttended
<1> QED BY <1>1, <1>2, InitAttended, SchedulerInvariance, PTL DEF Spec

(* A job that is disabled stays so, and no engine takes it: cancel is      *)
(* final, whatever an engine that had the job writes over its status.      *)
THEOREM CancelIsFinal == Spec => CancelHolds
<1> DEFINE Holds(j) ==
      (jobs[j].status # "absent" /\ ~jobs[j].enabled) =>
          /\ ~jobs'[j].enabled
          /\ \A e \in Engines : work'[e].id = j => work[e].id = j
<1>1. ASSUME IInv, [Next]_vars, NEW j \in Jobs PROVE Holds(j)
  <2> SUFFICES ASSUME jobs[j].status # "absent", ~jobs[j].enabled
               PROVE  /\ ~jobs'[j].enabled
                      /\ \A e \in Engines : work'[e].id = j => work[e].id = j
    OBVIOUS
  <2>1. /\ jobs \in [Jobs -> JobRow] /\ jobs[j] \in JobRow
        /\ work \in [Engines -> Views] /\ pc \in [Engines -> Labels]
    BY <1>1 DEF IInv, TypeOK, JobRow
  <2>2. ASSUME UNCHANGED <<jobs, work>>
        PROVE  ~jobs'[j].enabled /\ \A e \in Engines : work'[e].id = j => work[e].id = j
    BY <2>2
  <2>3. CASE \E i \in Jobs : Schedule(i) \/ Cancel(i) \/ ResetJob(i)
    <3>1. PICK i \in Jobs : Schedule(i) \/ Cancel(i) \/ ResetJob(i)
      BY <2>3
    <3>2. UNCHANGED work
      BY <3>1 DEF Schedule, Cancel, ResetJob, engineVars
    <3>3. ~jobs'[j].enabled
      <4>1. CASE j = i
        <5>1. CASE Cancel(i)
          <6>1. jobs' = [jobs EXCEPT ![j] = [jobs[j] EXCEPT !.status = "cancelled", !.enabled = FALSE]]
            BY <4>1, <5>1 DEF Cancel, SetJob
          <6> QED BY <2>1, <6>1 DEF JobRow
        <5>2. CASE ResetJob(i)
          <6>1. jobs' = [jobs EXCEPT ![j] = [jobs[j] EXCEPT !.status = "pending", !.retries = 0]]
            BY <4>1, <5>2 DEF ResetJob, SetJob
          <6> QED BY <2>1, <6>1 DEF JobRow
        <5> QED BY <3>1, <4>1, <5>1, <5>2 DEF Schedule
      <4>2. CASE j # i
        <5>1. \E row : jobs' = [jobs EXCEPT ![i] = row]
          BY <3>1 DEF Schedule, Cancel, ResetJob, SetJob
        <5> QED BY <2>1, <4>2, <5>1
      <4> QED BY <4>1, <4>2
    <3> QED BY <3>2, <3>3
  <2>4. ASSUME NEW e \in Engines, EngineStep(e)
        PROVE  ~jobs'[j].enabled /\ \A d \in Engines : work'[d].id = j => work[d].id = j
    <3>1. ~jobs'[j].enabled
      <4>1. CASE RequeueJobs(e)
        BY <2>1, <4>1 DEF RequeueJobs, JobRow
      <4>2. CASE SettleJob(e)
        <5>1. work[e].ok \in BOOLEAN
          BY <2>1 DEF Views
        <5>2. work[e].id = j => Settled(e).enabled = jobs[j].enabled
          BY <2>1, <5>1 DEF Settled, JobRow
        <5> QED BY <2>1, <4>2, <5>2 DEF SettleJob, SetJob
      <4>3. CASE CountTry(e) \/ ClaimRefused(e)
        <5>1. CASE CountTry(e)
          BY <2>1, <5>1 DEF CountTry, JobRow
        <5>2. CASE ClaimRefused(e)
          <6>1. jobs' = jobs \/ jobs' = [jobs EXCEPT ![work[e].id].status = "failed"]
            BY <5>2 DEF ClaimRefused
          <6> QED BY <2>1, <6>1 DEF JobRow
        <5> QED BY <4>3, <5>1, <5>2
      <4>4. CASE Skip(e) \/ Allow(e) \/ ClaimJob(e)
        <5>1. \/ jobs' = jobs
              \/ \E i, st : jobs' = [jobs EXCEPT ![i].status = st]
          BY <4>4 DEF Skip, Allow, ClaimJob, SetStatus
        <5> QED BY <2>1, <5>1 DEF JobRow
      <4>5. CASE RecoverRuns(e) \/ SelectDue(e) \/ OpenRun(e) \/ ClaimRun(e) \/ Execute(e)
                 \/ FinishRun(e)
        BY <4>5 DEF RecoverRuns, SelectDue, OpenRun, ClaimRun, Execute, FinishRun
      <4> QED BY <2>4, <4>1, <4>2, <4>3, <4>4, <4>5 DEF EngineStep
    <3>2. \A d \in Engines \ {e} : work'[d] = work[d]
      BY <2>1, <2>4 DEF EngineStep, RecoverRuns, RequeueJobs, SelectDue, ClaimJob, OpenRun,
             ClaimRun, ClaimRefused, Skip, Allow, Execute, CountTry, SettleJob, FinishRun,
             Proceed
    <3>3. work'[e].id = j => work[e].id = j
      <4>1. CASE ClaimJob(e)
        <5>1. PICK v \in selected[e] :
                \/ Selectable(v.id, since[e]) /\ work' = [work EXCEPT ![e] = v]
                \/ work' = [work EXCEPT ![e] = NoWork]
          BY <4>1 DEF ClaimJob, First, Proceed
        <5>2. ~Selectable(j, since[e])
          BY DEF Selectable
        <5> QED BY <2>1, <5>1, <5>2, NeverAssumption DEF NoWork
      <4>2. CASE ClaimRefused(e) \/ FinishRun(e)
        BY <2>1, <4>2, NeverAssumption DEF ClaimRefused, FinishRun, Proceed, NoWork
      <4>3. CASE OpenRun(e) \/ Allow(e) \/ Execute(e)
        BY <2>1, <4>3 DEF OpenRun, Allow, Execute, Views
      <4>4. CASE RecoverRuns(e) \/ RequeueJobs(e) \/ SelectDue(e) \/ ClaimRun(e) \/ Skip(e)
                 \/ CountTry(e) \/ SettleJob(e)
        BY <4>4 DEF RecoverRuns, RequeueJobs, SelectDue, ClaimRun, Skip, CountTry, SettleJob
      <4> QED BY <2>4, <4>1, <4>2, <4>3, <4>4 DEF EngineStep
    <3> QED BY <3>1, <3>2, <3>3
  <2>5. ASSUME NEW e \in Engines, Crash(e)
        PROVE  ~jobs'[j].enabled /\ \A d \in Engines : work'[d].id = j => work[d].id = j
    BY <2>1, <2>5, NeverAssumption DEF Crash, NoWork
  <2>6. CASE (\E k \in Fires : LeaseExpires(k)) \/ Tick \/ UNCHANGED vars
    BY <2>2, <2>6 DEF LeaseExpires, Tick, vars, engineVars
  <2> QED BY <1>1, <2>3, <2>4, <2>5, <2>6 DEF Next
<1>2. IInv /\ [Next]_vars => [\A j \in Jobs : Holds(j)]_vars
  BY <1>1
<1> QED BY <1>2, SchedulerInvariance, PTL DEF Spec, CancelHolds

-----------------------------------------------------------------------------
(* Skill runs.                                                             *)

(* What the history says of a step when it counts as ended well.           *)
Earned(i) ==
    \/ Manifest[i].onError = "skip"
    \/ Manifest[i].kind = "work" /\ done[i] > 0
    \/ i \in Gates /\ \E a \in DOMAIN approvals : approvals[a].step = i

EarnedBefore(n) == \A i \in Steps : i < n => Earned(i)

NotBehindGate(n) == \A g \in Steps : FirstGate(g) => n <= g

(* A log row was written at an approval step, with everything before it    *)
(* earned, by a runner that was not yet behind the first of them.          *)
LogOK(l) ==
    /\ approvals[logs[l].approval].step = logs[l].step
    /\ logs[l].step \in Gates
    /\ EarnedBefore(logs[l].step)
    /\ NotBehindGate(logs[l].step)

Held(w) == cause[w] \in DOMAIN logs /\ Approved(logs[cause[w]].approval)

(* What runner w relies on, at each place it can be.                       *)
RunnerOK(w) ==
    /\ place[w] \in {"idle", "claim", "preflight"} => cause[w] = 0
    /\ place[w] = "resume" => Held(w)
    /\ place[w] = "steps" =>
         /\ at[w] >= 1 /\ EarnedBefore(at[w])
         /\ cause[w] = 0 => NotBehindGate(at[w])
         /\ cause[w] # 0 => Held(w)
    /\ place[w] = "persist" =>
         /\ at[w] \in Gates /\ EarnedBefore(at[w]) /\ NotBehindGate(at[w])
         /\ asked[w] \in DOMAIN approvals /\ approvals[asked[w]].step = at[w]
    /\ place[w] = "pause" => logs # <<>>
    /\ (place[w] = "finish" /\ status[w] = "completed") => \A i \in Steps : Earned(i)

ExecutedBehindGate ==
    \A g \in Steps : FirstGate(g) =>
        \A i \in Steps : i > g /\ executed[i] > 0 => ApprovalsOf(g) # {}

(* The inductive invariant.                                                *)
SkillIInv ==
    /\ SkillTypeOK
    /\ WellFormed(run)
    /\ \A l \in DOMAIN logs : LogOK(l)
    /\ \A w \in Workers : RunnerOK(w)
    /\ ExecutedBehindGate
    /\ WaitingCanResume
    /\ SuccessIsEarned

-----------------------------------------------------------------------------
(* The tables only grow.                                                   *)

Grows ==
    /\ DOMAIN approvals \subseteq DOMAIN approvals'
    /\ \A a \in DOMAIN approvals :
         /\ approvals'[a].step = approvals[a].step
         /\ Approved(a) => Approved(a)'
    /\ DOMAIN logs \subseteq DOMAIN logs'
    /\ \A l \in DOMAIN logs : logs'[l] = logs[l]
    /\ \A i \in Steps : done[i] > 0 => done'[i] > 0

LEMMA StepsAreNumbers ==
    /\ Len(Manifest) \in Nat /\ Steps = 1..Len(Manifest)
    /\ \A i \in Steps : Manifest[i] \in Step
BY ManifestAssumption DEF Steps

\* A step that is earned stays earned, and so does everything before it.
LEMMA EarnedStays ==
    ASSUME Grows, NEW i \in Steps, Earned(i)
    PROVE  Earned(i)'
BY DEF Grows, Earned

LEMMA LogTyped ==
    ASSUME SkillTypeOK, NEW l \in DOMAIN logs
    PROVE  logs[l].step \in Steps /\ logs[l].approval \in DOMAIN approvals
<1> DEFINE T == [step : Steps, approval : DOMAIN approvals]
<1>1. logs \in Seq(T)
  BY DEF SkillTypeOK
<1>2. logs[l] \in T
  <2> HIDE DEF T
  <2> QED BY <1>1
<1> QED BY <1>2

LEMMA ApprovalTyped ==
    ASSUME SkillTypeOK, NEW a \in DOMAIN approvals
    PROVE  approvals[a] \in [step : Steps, decision : Decisions \cup {"pending"}]
<1> DEFINE T == [step : Steps, decision : Decisions \cup {"pending"}]
<1>1. approvals \in Seq(T)
  BY DEF SkillTypeOK
<1> HIDE DEF T
<1>2. approvals[a] \in T
  BY <1>1
<1> QED BY <1>2 DEF T

LEMMA LogStays ==
    ASSUME SkillTypeOK, Grows, NEW l \in DOMAIN logs, LogOK(l)
    PROVE  LogOK(l)'
<1>1. logs[l].approval \in DOMAIN approvals /\ logs[l].step \in Steps
  BY LogTyped
<1>2. logs'[l] = logs[l] /\ approvals'[logs[l].approval].step = approvals[logs[l].approval].step
  BY <1>1 DEF Grows
<1>3. \A i \in Steps : Earned(i) => Earned(i)'
  BY EarnedStays
<1> QED BY <1>2, <1>3 DEF LogOK, EarnedBefore, NotBehindGate

LEMMA LogRemains ==
    ASSUME SkillTypeOK, Grows, logs # <<>>
    PROVE  logs' # <<>>
<1> DEFINE T == [step : Steps, approval : DOMAIN approvals]
<1>1. logs \in Seq(T)
  BY DEF SkillTypeOK
<1> HIDE DEF T
<1>2. 1 \in DOMAIN logs
  BY <1>1
<1>3. 1 \in DOMAIN logs'
  BY <1>2 DEF Grows
<1> QED BY <1>3

\* A runner that does not move keeps what it relies on.
LEMMA TablesKept ==
    ASSUME SkillTypeOK, Grows, NEW w \in Workers, RunnerOK(w),
           place'[w] = place[w], at'[w] = at[w], cause'[w] = cause[w],
           asked'[w] = asked[w], status'[w] = status[w]
    PROVE  RunnerOK(w)'
<1>1. \A i \in Steps : Earned(i) => Earned(i)'
  BY EarnedStays
<1>2. EarnedBefore(at[w]) => EarnedBefore(at[w])'
  BY <1>1 DEF EarnedBefore
<1>3. Held(w) => Held(w)'
  <2>1. SUFFICES ASSUME Held(w) PROVE Held(w)'
    OBVIOUS
  <2>2. logs[cause[w]].approval \in DOMAIN approvals
    BY <2>1, LogTyped DEF Held
  <2> QED BY <2>1, <2>2 DEF Held, Grows, Approved
<1>4. logs # <<>> => logs' # <<>>
  BY LogRemains
<1>5. NotBehindGate(at[w]) => NotBehindGate(at[w])'
  BY DEF NotBehindGate
<1>6. asked[w] \in DOMAIN approvals =>
        asked[w] \in DOMAIN approvals' /\ approvals'[asked[w]].step = approvals[asked[w]].step
  BY DEF Grows
<1> QED BY <1>1, <1>2, <1>3, <1>4, <1>5, <1>6 DEF RunnerOK

LEMMA SteadyGrows ==
    ASSUME UNCHANGED <<approvals, logs, done>>
    PROVE  Grows
BY DEF Grows, Approved

LEMMA ApprovalStays ==
    ASSUME SkillTypeOK, SkillTypeOK', Grows, NEW g \in Steps, ApprovalsOf(g) # {}
    PROVE  ApprovalsOf(g)' # {}
<1>1. PICK a \in DOMAIN approvals : approvals[a] = [step |-> g, decision |-> "approved"]
  BY DEF ApprovalsOf
<1>2. a \in DOMAIN approvals' /\ approvals'[a].step = g /\ approvals'[a].decision = "approved"
  BY <1>1 DEF Grows, Approved
<1>3. approvals'[a] \in [step : Steps, decision : Decisions \cup {"pending"}]
  <2> DEFINE T == [step : Steps, decision : Decisions \cup {"pending"}]
  <2>1. approvals' \in Seq(T)
    BY DEF SkillTypeOK
  <2> HIDE DEF T
  <2>2. approvals'[a] \in T
    BY <2>1, <1>2
  <2> QED BY <2>2 DEF T
<1>4. approvals'[a] = [step |-> g, decision |-> "approved"]
  BY <1>2, <1>3
<1> QED BY <1>2, <1>4 DEF ApprovalsOf

LEMMA InitSkill == SkillInit => SkillIInv
<1> SUFFICES ASSUME SkillInit PROVE SkillIInv
  OBVIOUS
<1>1. SkillTypeOK
  BY AbsentFacts, StepsAreNumbers DEF SkillInit, SkillTypeOK, WellFormed
<1>2. WellFormed(run)
  BY AbsentFacts DEF SkillInit
<1>3. \A l \in DOMAIN logs : LogOK(l)
  BY DEF SkillInit
<1>4. \A w \in Workers : RunnerOK(w)
  BY DEF SkillInit, RunnerOK
<1>5. ExecutedBehindGate
  BY DEF SkillInit, ExecutedBehindGate
<1>6. WaitingCanResume /\ SuccessIsEarned
  BY AbsentFacts DEF SkillInit, WaitingCanResume, SuccessIsEarned
<1> QED BY <1>1, <1>2, <1>3, <1>4, <1>5, <1>6 DEF SkillIInv

\* Only runner w has moved.
RunnerAlone(w) ==
    \A v \in Workers \ {w} :
        /\ place'[v] = place[v] /\ at'[v] = at[v] /\ cause'[v] = cause[v]
        /\ asked'[v] = asked[v] /\ status'[v] = status[v]

\* An execution behind the first gate is covered by an approval of it.
ExecutesCovered ==
    \A i \in Steps : executed'[i] > 0 =>
        \/ executed[i] > 0
        \/ \A g \in Steps : FirstGate(g) /\ i > g => ApprovalsOf(g) # {}

(* What is left to show of a step of runner w.                             *)
LEMMA RunnerMoves ==
    ASSUME SkillIInv, SkillTypeOK', Grows, NEW w \in Workers, RunnerAlone(w), RunnerOK(w)',
           \A l \in DOMAIN logs' \ DOMAIN logs : LogOK(l)',
           ExecutesCovered, WellFormed(run'),
           run'.status = "waiting_approval" => run.status = "waiting_approval" \/ logs # <<>>,
           run'.status = "succeeded" =>
               run.status = "succeeded" \/ \A i \in Steps : Earned(i)
    PROVE  SkillIInv'
<1> USE DEF SkillIInv
<1>1. \A l \in DOMAIN logs' : LogOK(l)'
  BY LogStays
<1>2. \A v \in Workers : RunnerOK(v)'
  BY TablesKept DEF RunnerAlone
<1>3. ExecutedBehindGate'
  BY ApprovalStays DEF ExecutedBehindGate, FirstGate, ExecutesCovered
<1>4. WaitingCanResume'
  BY LogRemains DEF WaitingCanResume
<1>5. SuccessIsEarned'
  BY EarnedStays DEF SuccessIsEarned, Earned
<1> QED BY <1>1, <1>2, <1>3, <1>4, <1>5

\* The same of a step that adds nothing to the logs and executes nothing.
LEMMA PlainStep ==
    ASSUME SkillIInv, SkillTypeOK', Grows, NEW w \in Workers, RunnerAlone(w), RunnerOK(w)',
           UNCHANGED <<logs, executed>>, WellFormed(run'),
           run'.status = "waiting_approval" => run.status = "waiting_approval" \/ logs # <<>>,
           run'.status = "succeeded" =>
               run.status = "succeeded" \/ \A i \in Steps : Earned(i)
    PROVE  SkillIInv'
<1>1. ExecutesCovered /\ DOMAIN logs' \ DOMAIN logs = {}
  BY DEF ExecutesCovered
<1> QED BY <1>1, RunnerMoves

-----------------------------------------------------------------------------
(* The actions that add nothing to the logs and execute nothing.           *)

\* A runner that has left relies on nothing.
LEMMA LeftOK ==
    ASSUME SkillTypeOK, NEW w \in Workers, Leave(w)
    PROVE  RunnerOK(w)' /\ RunnerAlone(w)
BY DEF SkillTypeOK, Leave, Enter, Report, RunnerOK, RunnerAlone

LEMMA LeftTyped ==
    ASSUME SkillTypeOK, NEW w \in Workers, Leave(w), run' \in Row,
           UNCHANGED <<approvals, logs, executed, done>>,
           resumes' \in Nat, deaths' \in Nat
    PROVE  SkillTypeOK'
<1>1. place' \in [Workers -> {"idle", "claim", "preflight", "steps", "persist",
                           "pause", "resume", "finish"}]
  BY DEF SkillTypeOK, Leave, Enter
<1>2. at' \in [Workers -> 0..(Len(Manifest) + 1)]
  BY StepsAreNumbers DEF SkillTypeOK, Leave
<1>3. cause' \in [Workers -> DOMAIN logs \cup {0}] /\ asked' \in [Workers -> DOMAIN approvals \cup {0}]
  BY DEF SkillTypeOK, Leave
<1>4. status' \in [Workers -> {"running", "completed", "failed", "rolled_back", "rejected"}]
  BY DEF SkillTypeOK, Leave, Report
<1> QED BY <1>1, <1>2, <1>3, <1>4 DEF SkillTypeOK

LEMMA CreateStep ==
    ASSUME SkillIInv, NEW w \in Workers, CreateRun(w)
    PROVE  SkillIInv'
<1> USE DEF SkillIInv
<1>1. WellFormed(run') /\ run'.status = "pending" /\ run' \in Row
  BY PendingFacts, SkillBounds DEF CreateRun, WellFormed
<1>2. SkillTypeOK'
  BY <1>1 DEF SkillTypeOK, CreateRun, Enter, history
<1>3. Grows
  BY SteadyGrows DEF CreateRun, history
<1>4. RunnerOK(w)' /\ RunnerAlone(w)
  BY DEF CreateRun, RunnerOK, RunnerAlone, Enter, SkillTypeOK
<1>5. UNCHANGED <<logs, executed>>
  BY DEF CreateRun, history
<1> QED BY <1>1, <1>2, <1>3, <1>4, <1>5, PlainStep

LEMMA RetryStep ==
    ASSUME SkillIInv, NEW w \in Workers, RetryRun(w)
    PROVE  SkillIInv'
<1> USE DEF SkillIInv
<1>1. WellFormed(run') /\ run'.status = "pending" /\ run' \in Row
  BY RetriedFacts DEF RetryRun, WellFormed
<1>2. SkillTypeOK'
  BY <1>1 DEF SkillTypeOK, RetryRun, Enter, history
<1>3. Grows
  BY SteadyGrows DEF RetryRun, history
<1>4. RunnerOK(w)' /\ RunnerAlone(w)
  BY DEF RetryRun, RunnerOK, RunnerAlone, Enter, SkillTypeOK
<1>5. UNCHANGED <<logs, executed>>
  BY DEF RetryRun, history
<1> QED BY <1>1, <1>2, <1>3, <1>4, <1>5, PlainStep

LEMMA ClaimStep ==
    ASSUME SkillIInv, NEW w \in Workers, ClaimSkill(w)
    PROVE  SkillIInv'
<1> USE DEF SkillIInv
<1>1. WellFormed(run') /\ run' \in Row /\ (run' = run \/ run'.status = "running")
  BY ClaimedFacts DEF ClaimSkill, WellFormed
<1>2. SkillTypeOK'
  <2>1. CASE Leave(w) /\ run' = run
    BY <2>1, <1>1, LeftTyped DEF SkillTypeOK, ClaimSkill, history
  <2>2. CASE Enter(w, "preflight") /\ UNCHANGED <<at, cause, asked, status>>
    BY <2>2, <1>1 DEF SkillTypeOK, ClaimSkill, Enter, history
  <2> QED BY <2>1, <2>2 DEF ClaimSkill
<1>3. Grows
  BY SteadyGrows DEF ClaimSkill, history
<1>4. RunnerOK(w)' /\ RunnerAlone(w)
  BY LeftOK DEF ClaimSkill, RunnerOK, RunnerAlone, Enter, SkillTypeOK
<1>5. UNCHANGED <<logs, executed>>
  BY DEF ClaimSkill, history
<1> QED BY <1>1, <1>2, <1>3, <1>4, <1>5, PlainStep

\* The runner moves and touches no table.
LEMMA MoveStep ==
    ASSUME SkillIInv, SkillTypeOK', NEW w \in Workers, RunnerAlone(w), RunnerOK(w)',
           UNCHANGED <<tables, executed, done>>
    PROVE  SkillIInv'
<1>1. Grows /\ UNCHANGED <<logs, executed>> /\ run' = run
  BY SteadyGrows DEF tables
<1> QED BY <1>1, PlainStep DEF SkillIInv

LEMMA PreflightStep ==
    ASSUME SkillIInv, NEW w \in Workers, PreflightFails(w) \/ PreflightPasses(w)
    PROVE  SkillIInv'
<1> USE DEF SkillIInv
<1>1. SkillTypeOK'
  <2>1. CASE PreflightFails(w)
    BY <2>1 DEF SkillTypeOK, PreflightFails, Enter, Report, tables, history
  <2>2. CASE PreflightPasses(w)
    <3>1. at' \in [Workers -> 0..(Len(Manifest) + 1)]
      BY <2>2, StepsAreNumbers DEF SkillTypeOK, PreflightPasses
    <3> QED BY <2>2, <3>1 DEF SkillTypeOK, PreflightPasses, Enter, tables, history
  <2> QED BY <2>1, <2>2
<1>2. RunnerAlone(w)
  BY DEF SkillTypeOK, PreflightFails, PreflightPasses, Enter, Report, RunnerAlone
<1>3. RunnerOK(w)'
  <2>1. CASE PreflightFails(w)
    BY <2>1 DEF SkillTypeOK, PreflightFails, Enter, Report, RunnerOK
  <2>2. CASE PreflightPasses(w)
    <3>1. place'[w] = "steps" /\ at'[w] = 1 /\ cause'[w] = 0
      BY <2>2 DEF SkillTypeOK, PreflightPasses, Enter, RunnerOK
    <3>2. EarnedBefore(at[w])' /\ NotBehindGate(at[w])'
      BY <3>1, StepsAreNumbers DEF EarnedBefore, NotBehindGate
    <3> QED BY <3>1, <3>2 DEF RunnerOK
  <2> QED BY <2>1, <2>2
<1>4. UNCHANGED <<tables, executed, done>>
  BY DEF PreflightFails, PreflightPasses, history
<1> QED BY <1>1, <1>2, <1>3, <1>4, MoveStep

LEMMA EndStep ==
    ASSUME SkillIInv, NEW w \in Workers, BudgetExhausted(w) \/ StepsEnd(w)
    PROVE  SkillIInv'
<1> USE DEF SkillIInv
<1>1. SkillTypeOK'
  BY DEF SkillTypeOK, BudgetExhausted, StepsEnd, Enter, Report, tables, history
<1>2. RunnerAlone(w)
  BY DEF SkillTypeOK, BudgetExhausted, StepsEnd, Enter, Report, RunnerAlone
<1>3. RunnerOK(w)'
  <2>1. place'[w] = "finish" /\ at'[w] = at[w]
    BY DEF SkillTypeOK, BudgetExhausted, StepsEnd, Enter
  <2>2. CASE BudgetExhausted(w)
    BY <2>1, <2>2 DEF SkillTypeOK, BudgetExhausted, Report, RunnerOK
  <2>3. CASE StepsEnd(w)
    <3>1. at[w] \in 0..(Len(Manifest) + 1) /\ at[w] >= 1 /\ at[w] \notin Steps
      BY <2>3 DEF SkillTypeOK, StepsEnd, RunnerOK
    <3>2. EarnedBefore(at[w])
      BY <2>3 DEF StepsEnd, RunnerOK
    <3>3. \A i \in Steps : Earned(i)
      BY <3>1, <3>2, StepsAreNumbers DEF EarnedBefore
    <3>4. Grows
      BY <2>3, SteadyGrows DEF StepsEnd, tables, history
    <3> QED BY <2>1, <3>3, <3>4, EarnedStays DEF RunnerOK
  <2> QED BY <2>2, <2>3
<1>4. UNCHANGED <<tables, executed, done>>
  BY DEF BudgetExhausted, StepsEnd, history
<1> QED BY <1>1, <1>2, <1>3, <1>4, MoveStep

LEMMA PauseStep ==
    ASSUME SkillIInv, NEW w \in Workers, Pause(w)
    PROVE  SkillIInv'
<1> USE DEF SkillIInv
<1>1. WellFormed(run') /\ run' \in Row /\ (run' = run \/ run'.status = "waiting_approval")
  <2>1. WellFormed(Paused(run)) /\ Paused(run).status = "waiting_approval"
    BY LeavingFacts DEF Status, TERMINAL_STATUSES
  <2>2. run' = run \/ run' = Paused(run)
    BY DEF Pause
  <2> QED BY <2>1, <2>2 DEF WellFormed
<1>2. SkillTypeOK'
  BY <1>1, LeftTyped DEF SkillTypeOK, Pause, history
<1>3. Grows
  BY SteadyGrows DEF Pause, history
<1>4. RunnerOK(w)' /\ RunnerAlone(w)
  BY LeftOK DEF Pause
<1>5. UNCHANGED <<logs, executed>> /\ logs # <<>>
  BY DEF Pause, history, RunnerOK
<1> QED BY <1>1, <1>2, <1>3, <1>4, <1>5, PlainStep

LEMMA EndedStep ==
    ASSUME SkillIInv, NEW w \in Workers, FinishSkill(w)
    PROVE  SkillIInv'
<1> USE DEF SkillIInv
<1>1. SkillOutcome(status[w]) \in {"succeeded", "cancelled", "failed"}
      /\ (SkillOutcome(status[w]) = "succeeded" => status[w] = "completed")
  BY DEF SkillOutcome
<1>2. /\ WellFormed(run') /\ run' \in Row
      /\ run' = run \/ run'.status = SkillOutcome(status[w])
  <2> DEFINE st == SkillOutcome(status[w])
  <2>1. st \in Status \ {"running", "absent"}
    BY <1>1 DEF Status, TERMINAL_STATUSES
  <2>2. WellFormed(Finished(run, st)) /\ Finished(run, st).status = st
    BY <2>1, LeavingFacts
  <2>3. run' = run \/ run' = Finished(run, st)
    BY DEF FinishSkill
  <2> QED BY <2>2, <2>3 DEF WellFormed
<1>3. SkillTypeOK'
  BY <1>2, LeftTyped DEF SkillTypeOK, FinishSkill, history
<1>4. Grows
  BY SteadyGrows DEF FinishSkill, history
<1>5. RunnerOK(w)' /\ RunnerAlone(w)
  BY LeftOK DEF FinishSkill
<1>6. UNCHANGED <<logs, executed>>
  BY DEF FinishSkill, history
<1>7. status[w] = "completed" => \A i \in Steps : Earned(i)
  BY DEF FinishSkill, RunnerOK
<1> QED BY <1>1, <1>2, <1>3, <1>4, <1>5, <1>6, <1>7, PlainStep

LEMMA DeathStep ==
    ASSUME SkillIInv, NEW w \in Workers, RunnerDies(w)
    PROVE  SkillIInv'
<1> USE DEF SkillIInv
<1>1. UNCHANGED <<tables, executed, done>> /\ run' \in Row
  BY DEF RunnerDies, tables, SkillTypeOK
<1>2. SkillTypeOK'
  BY <1>1, LeftTyped DEF SkillTypeOK, RunnerDies, tables
<1>3. RunnerOK(w)' /\ RunnerAlone(w)
  BY LeftOK DEF RunnerDies
<1> QED BY <1>1, <1>2, <1>3, MoveStep

LEMMA ResumeStep ==
    ASSUME SkillIInv, NEW w \in Workers, NEW l \in DOMAIN logs, Resume(w, l)
    PROVE  SkillIInv'
<1> USE DEF SkillIInv
<1>1. SkillTypeOK'
  BY DEF SkillTypeOK, Resume, Enter, Report, tables, history
<1>2. RunnerAlone(w)
  BY DEF SkillTypeOK, Resume, Enter, Report, RunnerAlone
<1>3. cause'[w] = l /\ UNCHANGED <<approvals, logs>>
  BY DEF Resume, SkillTypeOK, tables
<1>4. RunnerOK(w)'
  <2>1. CASE Approved(logs[l].approval) /\ Enter(w, "resume")
    BY <1>3, <2>1 DEF SkillTypeOK, Enter, RunnerOK, Held, Approved
  <2>2. CASE Report(w, "rejected") /\ Enter(w, "finish")
    BY <1>3, <2>2 DEF SkillTypeOK, Enter, Report, RunnerOK
  <2> QED BY <2>1, <2>2 DEF Resume
<1>5. UNCHANGED <<tables, executed, done>>
  BY DEF Resume, history
<1> QED BY <1>1, <1>2, <1>4, <1>5, MoveStep

-----------------------------------------------------------------------------
(* The steps.                                                              *)

(* A runner that holds an approval holds one of the first gate.            *)
LEMMA HeldIsOfGate ==
    ASSUME SkillIInv, NEW w \in Workers, Held(w), NEW g \in Steps, FirstGate(g)
    PROVE  logs[cause[w]].approval \in ApprovalsOf(g)
<1> DEFINE l == cause[w]
           a == logs[l].approval
<1>1. l \in DOMAIN logs /\ LogOK(l) /\ Approved(a)
  BY DEF SkillIInv, Held
<1>2. logs[l].step \in Steps /\ a \in DOMAIN approvals
  BY <1>1, LogTyped DEF SkillIInv
<1>3. logs[l].step <= g /\ g <= logs[l].step
  BY <1>1 DEF LogOK, NotBehindGate, FirstGate
<1>4. approvals[a].step = g
  BY <1>1, <1>2, <1>3, StepsAreNumbers DEF LogOK
<1>5. approvals[a] = [step |-> g, decision |-> "approved"]
  BY <1>1, <1>2, <1>4, ApprovalTyped DEF SkillIInv, Approved
<1> QED BY <1>2, <1>5 DEF ApprovalsOf

\* The step that w was at is earned after this action.
EarnedNow(w) == \A i \in Steps : i = at[w] => Earned(i)'

\* Going on to the next step, behind a step that is earned now.
LEMMA AdvanceOK ==
    ASSUME SkillIInv, Grows, NEW w \in Workers, place[w] = "steps", at[w] \in Steps,
           NextStep(w), EarnedNow(w), at'[w] = at[w] + 1,
           cause[w] = 0 => ~FirstGate(at[w])
    PROVE  RunnerOK(w)'
<1> USE DEF SkillIInv
<1>1. place'[w] = "steps" /\ cause'[w] = cause[w] /\ at[w] >= 1
  BY DEF NextStep, RunnerOK
<1>2. EarnedBefore(at[w])'
  <2>1. SUFFICES ASSUME NEW i \in Steps, i < at[w] + 1 PROVE Earned(i)'
    BY DEF EarnedBefore
  <2>2. i < at[w] \/ i = at[w]
    BY <2>1, StepsAreNumbers
  <2>3. i < at[w] => Earned(i)
    BY DEF RunnerOK, EarnedBefore
  <2>4. i = at[w] => Earned(i)'
    BY DEF EarnedNow
  <2> QED BY <2>2, <2>3, <2>4, EarnedStays
<1>3. cause[w] = 0 => NotBehindGate(at[w])'
  <2>1. SUFFICES ASSUME cause[w] = 0, NEW g \in Steps, FirstGate(g)
                 PROVE  at[w] + 1 <= g
    BY DEF NotBehindGate, FirstGate
  <2>2. at[w] <= g /\ at[w] # g
    BY <2>1 DEF RunnerOK, NotBehindGate
  <2> QED BY <2>2, StepsAreNumbers
<1>4. cause[w] # 0 => Held(w)'
  <2>1. SUFFICES ASSUME cause[w] # 0 PROVE Held(w)'
    OBVIOUS
  <2>2. Held(w)
    BY <2>1 DEF RunnerOK
  <2>3. logs[cause[w]].approval \in DOMAIN approvals
    BY <2>2, LogTyped DEF Held
  <2> QED BY <1>1, <2>2, <2>3 DEF Held, Grows, Approved
<1> QED BY <1>1, <1>2, <1>3, <1>4, StepsAreNumbers DEF RunnerOK

\* NextStep and Fail keep the types of what the runner holds.
LEMMA NextTyped ==
    ASSUME SkillTypeOK, NEW w \in Workers, NextStep(w), at[w] \in Steps
    PROVE  /\ at' \in [Workers -> 0..(Len(Manifest) + 1)] /\ at'[w] = at[w] + 1
           /\ UNCHANGED <<place, cause, asked, status>> /\ RunnerAlone(w)
BY StepsAreNumbers DEF SkillTypeOK, NextStep, RunnerAlone

LEMMA FailTyped ==
    ASSUME SkillTypeOK, NEW w \in Workers, Fail(w), at[w] \in Steps
    PROVE  /\ at' \in [Workers -> 0..(Len(Manifest) + 1)]
           /\ place' \in [Workers -> {"idle", "claim", "preflight", "steps",
                                   "persist", "pause", "resume", "finish"}]
           /\ status' \in [Workers -> {"running", "completed", "failed",
                                       "rolled_back", "rejected"}]
           /\ UNCHANGED <<cause, asked>> /\ RunnerAlone(w)
           /\ \/ NextStep(w) /\ Manifest[at[w]].onError = "skip"
              \/ place'[w] = "finish" /\ status'[w] # "completed"
<1>1. CASE NextStep(w) /\ Manifest[at[w]].onError = "skip"
  BY <1>1, NextTyped DEF SkillTypeOK
<1>2. CASE /\ Report(w, IF Manifest[at[w]].onError = "stop" THEN "failed" ELSE "rolled_back")
           /\ Enter(w, "finish") /\ UNCHANGED <<at, cause, asked>>
  BY <1>2 DEF SkillTypeOK, Report, Enter, RunnerAlone
<1> QED BY <1>1, <1>2 DEF Fail

LEMMA WorkStep ==
    ASSUME SkillIInv, NEW w \in Workers, DoWork(w)
    PROVE  SkillIInv'
<1> USE DEF SkillIInv
<1>1. /\ place[w] = "steps" /\ at[w] \in Steps /\ Manifest[at[w]].kind = "work"
      /\ UNCHANGED <<run, approvals, logs, resumes, deaths>>
      /\ executed' = [executed EXCEPT ![at[w]] = @ + 1]
  BY DEF DoWork, AtStep, tables
<1>2. /\ done' \in [Steps -> Nat] /\ executed' \in [Steps -> Nat]
      /\ \A i \in Steps : done[i] > 0 => done'[i] > 0
      /\ \A i \in Steps \ {at[w]} : executed'[i] = executed[i]
  <2>1. done' = done \/ done' = [done EXCEPT ![at[w]] = @ + 1]
    BY DEF DoWork
  <2>2. done \in [Steps -> Nat] /\ executed \in [Steps -> Nat]
    BY DEF SkillTypeOK
  <2>3. executed' \in [Steps -> Nat] /\ \A i \in Steps \ {at[w]} : executed'[i] = executed[i]
    BY <1>1, <2>2
  <2>4. done' \in [Steps -> Nat]
    BY <1>1, <2>1, <2>2
  <2>5. \A i \in Steps : done[i] > 0 => done'[i] > 0
    <3> SUFFICES ASSUME NEW i \in Steps, done[i] > 0 PROVE done'[i] > 0
      OBVIOUS
    <3>1. done[i] \in Nat /\ (done'[i] = done[i] \/ done'[i] = done[i] + 1)
      BY <1>1, <2>1, <2>2
    <3> QED BY <3>1
  <2> QED BY <2>3, <2>4, <2>5
<1>3. Grows
  BY <1>1, <1>2 DEF Grows, Approved
<1>4. ~FirstGate(at[w])
  BY <1>1 DEF FirstGate, Gates
<1>5. RunnerOK(w)' /\ RunnerAlone(w) /\ SkillTypeOK'
  <2>1. CASE NextStep(w) /\ done' = [done EXCEPT ![at[w]] = @ + 1]
    <3>1. done'[at[w]] > 0 /\ at'[w] = at[w] + 1
      BY <1>1, <2>1, NextTyped DEF SkillTypeOK
    <3>2. EarnedNow(w)
      BY <1>1, <3>1 DEF EarnedNow, Earned
    <3> QED BY <1>1, <1>2, <1>3, <1>4, <2>1, <3>2, AdvanceOK, NextTyped DEF SkillTypeOK
  <2>2. CASE Fail(w) /\ UNCHANGED done
    <3>1. CASE NextStep(w) /\ Manifest[at[w]].onError = "skip"
      <4>1. EarnedNow(w)
        BY <3>1 DEF EarnedNow, Earned
      <4> QED BY <1>1, <1>2, <1>3, <1>4, <2>2, <3>1, <4>1, AdvanceOK, NextTyped DEF SkillTypeOK
    <3>2. CASE place'[w] = "finish" /\ status'[w] # "completed"
      <4>1. RunnerOK(w)'
        BY <3>2 DEF RunnerOK
      <4> QED BY <1>1, <1>2, <2>2, <4>1, FailTyped DEF SkillTypeOK
    <3> QED BY <1>1, <2>2, <3>1, <3>2, FailTyped
  <2> QED BY <2>1, <2>2 DEF DoWork
<1>6. ExecutesCovered
  <2>1. SUFFICES ASSUME NEW g \in Steps, FirstGate(g), at[w] > g PROVE ApprovalsOf(g) # {}
    BY <1>2 DEF ExecutesCovered
  <2>2. cause[w] # 0
    BY <1>1, <2>1, StepsAreNumbers DEF RunnerOK, NotBehindGate
  <2> QED BY <1>1, <2>1, <2>2, HeldIsOfGate DEF RunnerOK
<1> QED BY <1>1, <1>3, <1>5, <1>6, RunnerMoves

\* A record is made: the others are as they were.
LEMMA RecordMade ==
    ASSUME SkillTypeOK, NEW i \in Steps, UNCHANGED <<logs, done>>,
           approvals' = Append(approvals, [step |-> i, decision |-> "pending"])
    PROVE  /\ approvals' \in Seq([step : Steps, decision : Decisions \cup {"pending"}])
           /\ Len(approvals') \in DOMAIN approvals'
           /\ approvals'[Len(approvals')].step = i
           /\ Grows
<1> DEFINE T == [step : Steps, decision : Decisions \cup {"pending"}]
           e == [step |-> i, decision |-> "pending"]
<1>1. approvals \in Seq(T) /\ e \in T
  BY DEF SkillTypeOK
<1>2. approvals' = Append(approvals, e) /\ e.step = i
  OBVIOUS
<1> HIDE DEF T, e
<1>3. /\ approvals' \in Seq(T) /\ Len(approvals') \in DOMAIN approvals'
      /\ approvals'[Len(approvals')] = e
      /\ DOMAIN approvals \subseteq DOMAIN approvals'
      /\ \A a \in DOMAIN approvals : approvals'[a] = approvals[a]
  BY <1>1, <1>2
<1>4. Grows
  BY <1>3 DEF Grows, Approved
<1> QED BY <1>2, <1>3, <1>4 DEF T

\* What points to a log row or a record points to it still.
LEMMA PointersStay ==
    ASSUME SkillTypeOK, Grows
    PROVE  /\ cause \in [Workers -> DOMAIN logs' \cup {0}]
           /\ asked \in [Workers -> DOMAIN approvals' \cup {0}]
BY DEF SkillTypeOK, Grows

LEMMA LogsTypedStill ==
    ASSUME SkillTypeOK, Grows, logs' = logs
    PROVE  logs' \in Seq([step : Steps, approval : DOMAIN approvals'])
<1> DEFINE S == [step : Steps, approval : DOMAIN approvals]
           T == [step : Steps, approval : DOMAIN approvals']
<1>1. logs \in Seq(S) /\ S \subseteq T
  BY DEF SkillTypeOK, Grows
<1> HIDE DEF S, T
<1>2. logs' \in Seq(T)
  BY <1>1
<1> QED BY <1>2 DEF T

LEMMA AskStep ==
    ASSUME SkillIInv, NEW w \in Workers, AskApproval(w)
    PROVE  SkillIInv'
<1> USE DEF SkillIInv
<1>1. /\ place[w] = "steps" /\ at[w] \in Steps /\ at[w] \in Gates
      /\ UNCHANGED <<run, logs, executed, done, resumes, deaths>>
      /\ approvals' = Append(approvals, [step |-> at[w], decision |-> "pending"])
  BY DEF AskApproval, AtStep, history, Gates
<1>2. /\ Grows /\ Len(approvals') \in DOMAIN approvals'
      /\ approvals'[Len(approvals')].step = at[w]
  BY <1>1, RecordMade
<1>3. RunnerOK(w)' /\ RunnerAlone(w) /\ SkillTypeOK'
  <2>1. /\ run' \in Row /\ logs' \in Seq([step : Steps, approval : DOMAIN approvals'])
        /\ approvals' \in Seq([step : Steps, decision : Decisions \cup {"pending"}])
        /\ cause \in [Workers -> DOMAIN logs' \cup {0}]
        /\ asked \in [Workers -> DOMAIN approvals' \cup {0}]
        /\ executed' \in [Steps -> Nat] /\ done' \in [Steps -> Nat]
        /\ resumes' \in Nat /\ deaths' \in Nat
    BY <1>1, <1>2, RecordMade, PointersStay, LogsTypedStill DEF SkillTypeOK
  <2>2. CASE cause[w] # 0 /\ NextStep(w)
    <3>1. EarnedNow(w)
      BY <1>1, <1>2 DEF EarnedNow, Earned
    <3> QED BY <1>1, <1>2, <2>1, <2>2, <3>1, AdvanceOK, NextTyped DEF SkillTypeOK
  <2>3. CASE /\ cause[w] = 0 /\ asked' = [asked EXCEPT ![w] = Len(approvals')]
             /\ Enter(w, "persist") /\ UNCHANGED <<at, cause, status>>
    <3>1. place'[w] = "persist" /\ asked'[w] = Len(approvals') /\ RunnerAlone(w)
      BY <2>3 DEF SkillTypeOK, Enter, RunnerAlone
    <3>2. EarnedBefore(at[w])'
      BY <1>1, <1>2, <2>3, EarnedStays DEF RunnerOK, EarnedBefore
    <3>3. NotBehindGate(at[w])'
      BY <1>1, <2>3 DEF RunnerOK, NotBehindGate
    <3>4. RunnerOK(w)'
      BY <1>1, <1>2, <2>3, <3>1, <3>2, <3>3 DEF RunnerOK
    <3>5. place' \in [Workers -> {"idle", "claim", "preflight", "steps", "persist",
                               "pause", "resume", "finish"}]
      BY <2>3 DEF SkillTypeOK, Enter
    <3>6. asked' \in [Workers -> DOMAIN approvals' \cup {0}]
      BY <1>2, <2>1, <2>3
    <3> QED BY <1>1, <2>1, <2>3, <3>1, <3>4, <3>5, <3>6 DEF SkillTypeOK
  <2> QED BY <2>2, <2>3 DEF AskApproval
<1> QED BY <1>1, <1>2, <1>3, PlainStep

LEMMA AskFailsStep ==
    ASSUME SkillIInv, NEW w \in Workers, AskFails(w)
    PROVE  SkillIInv'
<1> USE DEF SkillIInv
<1>1. /\ place[w] = "steps" /\ at[w] \in Steps /\ Fail(w)
      /\ UNCHANGED <<run, logs, executed, done, resumes, deaths>>
  BY DEF AskFails, AtStep, history
<1>2. /\ Grows
      /\ approvals' \in Seq([step : Steps, decision : Decisions \cup {"pending"}])
  <2>1. CASE UNCHANGED approvals
    BY <1>1, <2>1, SteadyGrows DEF SkillTypeOK
  <2>2. CASE approvals' = Append(approvals, [step |-> at[w], decision |-> "pending"])
    BY <1>1, <2>2, RecordMade
  <2> QED BY <2>1, <2>2 DEF AskFails
<1>3. SkillTypeOK' /\ RunnerAlone(w)
  <2>1. cause' = cause /\ asked' = asked /\ RunnerAlone(w)
    BY <1>1, FailTyped
  <2>2. /\ at' \in [Workers -> 0..(Len(Manifest) + 1)]
        /\ place' \in [Workers -> {"idle", "claim", "preflight", "steps",
                                "persist", "pause", "resume", "finish"}]
        /\ status' \in [Workers -> {"running", "completed", "failed",
                                    "rolled_back", "rejected"}]
    BY <1>1, FailTyped
  <2>3. logs' \in Seq([step : Steps, approval : DOMAIN approvals'])
    BY <1>1, <1>2, LogsTypedStill
  <2> QED BY <1>1, <1>2, <2>1, <2>2, <2>3, PointersStay DEF SkillTypeOK
<1>4. RunnerOK(w)'
  <2>1. CASE NextStep(w) /\ Manifest[at[w]].onError = "skip"
    <3>1. EarnedNow(w) /\ ~FirstGate(at[w])
      BY <2>1 DEF EarnedNow, Earned, FirstGate
    <3> QED BY <1>1, <1>2, <2>1, <3>1, AdvanceOK, NextTyped
  <2>2. CASE place'[w] = "finish" /\ status'[w] # "completed"
    BY <2>2 DEF RunnerOK
  <2> QED BY <1>1, <2>1, <2>2, FailTyped
<1> QED BY <1>1, <1>2, <1>3, <1>4, PlainStep

LEMMA PersistStep ==
    ASSUME SkillIInv, NEW w \in Workers, PersistPause(w)
    PROVE  SkillIInv'
<1> USE DEF SkillIInv
<1> DEFINE S == [step : Steps, approval : DOMAIN approvals]
           row == [step |-> at[w], approval |-> asked[w]]
<1>1. /\ UNCHANGED <<run, approvals, at, cause, asked, status, executed, done, resumes, deaths>>
      /\ logs' = Append(logs, row) /\ place' = [place EXCEPT ![w] = "pause"]
  BY DEF PersistPause, history, Enter
<1>2. /\ at[w] \in Gates /\ EarnedBefore(at[w]) /\ NotBehindGate(at[w])
      /\ asked[w] \in DOMAIN approvals /\ approvals[asked[w]].step = at[w]
  BY DEF PersistPause, RunnerOK
<1>3. row \in S /\ logs \in Seq(S) /\ row.step = at[w] /\ row.approval = asked[w]
  BY <1>2 DEF SkillTypeOK, Gates
<1> HIDE DEF S, row
<1>4. /\ logs' \in Seq(S) /\ logs' # <<>>
      /\ DOMAIN logs \subseteq DOMAIN logs'
      /\ \A l \in DOMAIN logs : logs'[l] = logs[l]
      /\ \A l \in DOMAIN logs' \ DOMAIN logs : logs'[l] = row
  BY <1>1, <1>3
<1>5. Grows
  BY <1>1, <1>4 DEF Grows, Approved
<1>6. SkillTypeOK'
  <2>1. place' \in [Workers -> {"idle", "claim", "preflight", "steps", "persist",
                             "pause", "resume", "finish"}]
    BY <1>1 DEF SkillTypeOK
  <2>2. logs' \in Seq([step : Steps, approval : DOMAIN approvals'])
    BY <1>1, <1>4 DEF S
  <2> QED BY <1>1, <1>5, <2>1, <2>2, PointersStay DEF SkillTypeOK
<1>7. RunnerAlone(w) /\ RunnerOK(w)'
  BY <1>1, <1>4 DEF SkillTypeOK, RunnerAlone, RunnerOK
<1>8. \A l \in DOMAIN logs' \ DOMAIN logs : LogOK(l)'
  <2> SUFFICES ASSUME NEW l \in DOMAIN logs' \ DOMAIN logs PROVE LogOK(l)'
    OBVIOUS
  <2>1. logs'[l].step = at[w] /\ logs'[l].approval = asked[w]
    BY <1>3, <1>4
  <2>2. EarnedBefore(at[w])'
    BY <1>1, <1>2, <1>5, EarnedStays DEF EarnedBefore
  <2> QED BY <1>1, <1>2, <2>1, <2>2 DEF LogOK, EarnedBefore, NotBehindGate
<1>9. ExecutesCovered
  BY <1>1 DEF ExecutesCovered
<1> QED BY <1>1, <1>5, <1>6, <1>7, <1>8, <1>9, RunnerMoves

LEMMA ResumeRunStep ==
    ASSUME SkillIInv, NEW w \in Workers, ResumeRun(w)
    PROVE  SkillIInv'
<1> USE DEF SkillIInv
<1>1. UNCHANGED <<approvals, logs, executed, done, deaths>> /\ place[w] = "resume"
  BY DEF ResumeRun
<1>2. Grows
  BY <1>1, SteadyGrows
<1>3. Held(w) /\ cause[w] \in DOMAIN logs
  BY <1>1 DEF RunnerOK, Held
<1>4. /\ logs[cause[w]].step \in Steps /\ LogOK(cause[w])
      /\ logs[cause[w]].step >= 1
  BY <1>3, LogTyped, StepsAreNumbers
<1>5. CASE Leave(w) /\ UNCHANGED <<run, resumes>>
  <2>1. SkillTypeOK'
    BY <1>1, <1>5, LeftTyped DEF SkillTypeOK
  <2> QED BY <1>1, <1>2, <1>5, <2>1, LeftOK, PlainStep
<1>6. CASE /\ run' = Resumed(run, w) /\ resumes' = resumes + 1
           /\ at' = [at EXCEPT ![w] = logs[cause[w]].step + 1]
           /\ Enter(w, "steps") /\ UNCHANGED <<cause, asked, status>>
  <2>1. WellFormed(run') /\ run' \in Row /\ run'.status = "running"
    BY <1>6, ResumedFacts DEF WellFormed
  <2>2. at' \in [Workers -> 0..(Len(Manifest) + 1)]
        /\ at'[w] = logs[cause[w]].step + 1
    <3>1. logs[cause[w]].step + 1 \in 0..(Len(Manifest) + 1)
      BY <1>4, StepsAreNumbers
    <3>2. at \in [Workers -> 0..(Len(Manifest) + 1)]
      BY DEF SkillTypeOK
    <3> QED BY <1>6, <3>1, <3>2
  <2>3. SkillTypeOK'
    <3>1. place' \in [Workers -> {"idle", "claim", "preflight", "steps", "persist",
                               "pause", "resume", "finish"}]
      BY <1>6 DEF SkillTypeOK, Enter
    <3>2. resumes' \in Nat
      BY <1>6 DEF SkillTypeOK
    <3>3. UNCHANGED <<cause, asked, status>>
      BY <1>6
    <3> QED BY <1>1, <2>1, <2>2, <3>1, <3>2, <3>3 DEF SkillTypeOK
  <2>4. RunnerAlone(w) /\ place'[w] = "steps"
    BY <1>6 DEF SkillTypeOK, Enter, RunnerAlone
  <2>5. EarnedBefore(at[w])'
    <3> SUFFICES ASSUME NEW i \in Steps, i < logs[cause[w]].step + 1 PROVE Earned(i)'
      BY <2>2 DEF EarnedBefore
    <3>1. i < logs[cause[w]].step \/ i = logs[cause[w]].step
      BY <1>4, StepsAreNumbers
    <3>2. Earned(logs[cause[w]].step)
      BY <1>3, <1>4, LogTyped DEF LogOK, Earned
    <3> QED BY <1>2, <1>4, <3>1, <3>2, EarnedStays DEF LogOK, EarnedBefore
  <2>6. Held(w)' /\ cause'[w] # 0
    <3>1. cause[w] # 0
      <4> DEFINE T == [step : Steps, approval : DOMAIN approvals]
      <4>1. logs \in Seq(T)
        BY DEF SkillTypeOK
      <4> HIDE DEF T
      <4> QED BY <4>1, <1>3
    <3> QED BY <1>1, <1>3, <1>6, <3>1 DEF Held, Approved
  <2>7. RunnerOK(w)'
    BY <1>4, <2>2, <2>4, <2>5, <2>6, StepsAreNumbers DEF RunnerOK
  <2> QED BY <1>1, <1>2, <2>1, <2>3, <2>4, <2>7, PlainStep
<1> QED BY <1>5, <1>6 DEF ResumeRun

-----------------------------------------------------------------------------
(* The user.                                                               *)

\* No runner moves and nothing is executed.
LEMMA UserStep ==
    ASSUME SkillIInv, SkillTypeOK', Grows, UNCHANGED <<logs, runnerVars, executed>>,
           WellFormed(run'), run' = run \/ run'.status = "cancelled"
    PROVE  SkillIInv'
<1> USE DEF SkillIInv
<1>1. \A l \in DOMAIN logs' : LogOK(l)'
  BY LogStays
<1>2. \A v \in Workers : RunnerOK(v)'
  BY TablesKept DEF runnerVars
<1>3. ExecutedBehindGate'
  BY ApprovalStays DEF ExecutedBehindGate, FirstGate
<1>4. WaitingCanResume'
  BY DEF WaitingCanResume
<1>5. SuccessIsEarned'
  BY EarnedStays DEF SuccessIsEarned, Earned
<1> QED BY <1>1, <1>2, <1>3, <1>4, <1>5

LEMMA DecideStep ==
    ASSUME SkillIInv, NEW a \in DOMAIN approvals, NEW d \in Decisions, Decide(a, d)
    PROVE  SkillIInv'
<1> USE DEF SkillIInv
<1> DEFINE T == [step : Steps, decision : Decisions \cup {"pending"}]
           e == [approvals[a] EXCEPT !.decision = d]
<1>1. UNCHANGED <<run, logs, runnerVars, executed, done, resumes, deaths>>
  BY DEF Decide, history
<1>2. approvals \in Seq(T) /\ approvals[a] \in T
  BY ApprovalTyped DEF SkillTypeOK
<1>3. e \in T /\ e.step = approvals[a].step
  BY <1>2
<1>4. approvals' = [approvals EXCEPT ![a] = e] /\ ~Approved(a)
  BY DEF Decide, Approved
<1> HIDE DEF T, e
<1>5. /\ approvals' \in Seq(T) /\ DOMAIN approvals' = DOMAIN approvals
      /\ approvals'[a] = e
      /\ \A b \in DOMAIN approvals \ {a} : approvals'[b] = approvals[b]
  BY <1>2, <1>3, <1>4
<1>6. Grows
  BY <1>1, <1>3, <1>4, <1>5 DEF Grows, Approved
<1>7. SkillTypeOK'
  BY <1>1, <1>5 DEF SkillTypeOK, runnerVars, T
<1> QED BY <1>1, <1>6, <1>7, UserStep

LEMMA CancelStep ==
    ASSUME SkillIInv, CancelSkill
    PROVE  SkillIInv'
<1> USE DEF SkillIInv
<1>1. UNCHANGED <<approvals, logs, runnerVars, executed, done, resumes, deaths>>
  BY DEF CancelSkill, history
<1>2. WellFormed(run') /\ run'.status = "cancelled" /\ run' \in Row
  BY LeavingFacts DEF CancelSkill, WellFormed, Status, TERMINAL_STATUSES
<1>3. SkillTypeOK' /\ Grows
  BY <1>1, <1>2, SteadyGrows DEF SkillTypeOK, runnerVars
<1> QED BY <1>1, <1>2, <1>3, UserStep

-----------------------------------------------------------------------------
(* The theorems.                                                           *)

(* Every step of the specification preserves the inductive invariant.      *)
LEMMA NextSkill == SkillIInv /\ [SkillNext]_skillVars => SkillIInv'
<1> SUFFICES ASSUME SkillIInv, [SkillNext]_skillVars PROVE SkillIInv'
  OBVIOUS
<1>1. ASSUME NEW w \in Workers, RunnerStep(w) PROVE SkillIInv'
  BY <1>1, CreateStep, RetryStep, ClaimStep, PreflightStep, WorkStep, AskStep,
     AskFailsStep, EndStep, PersistStep, PauseStep, EndedStep, ResumeStep,
     ResumeRunStep, DeathStep DEF RunnerStep
<1>2. ASSUME NEW a \in DOMAIN approvals, NEW d \in Decisions, Decide(a, d) PROVE SkillIInv'
  BY <1>2, DecideStep
<1>3. CASE UNCHANGED skillVars
  <2>1. SkillTypeOK' /\ Grows /\ run' = run
    BY <1>3, SteadyGrows DEF SkillIInv, SkillTypeOK, skillVars, tables, runnerVars, history
  <2> QED BY <1>3, <2>1, UserStep DEF SkillIInv, skillVars, tables, history
<1> QED BY <1>1, <1>2, <1>3, CancelStep DEF SkillNext

(* The inductive invariant holds in every behaviour.                       *)
THEOREM SkillInvariance == SkillSpec => []SkillIInv
BY InitSkill, NextSkill, PTL DEF SkillSpec

(* Every variable of the skill runner has its type.                        *)
THEOREM SkillTypes == SkillSpec => []SkillTypeOK
<1>1. SkillIInv => SkillTypeOK
  BY DEF SkillIInv
<1> QED BY <1>1, SkillInvariance, PTL

(* For every manifest and any number of processes: nothing behind the      *)
(* first approval step is executed, and no runner is behind it, without an *)
(* approval of that very step, whatever is cancelled, retried, resumed     *)
(* twice or deaths.                                                       *)
THEOREM GateHolds == SkillSpec => []FirstGateRespected
<1>1. SkillIInv => FirstGateRespected
  <2> SUFFICES ASSUME SkillIInv, NEW g \in Steps, FirstGate(g)
               PROVE  /\ \A i \in Steps : i > g /\ executed[i] > 0 => ApprovalsOf(g) # {}
                      /\ \A w \in Workers : place[w] = "steps" /\ at[w] > g =>
                            cause[w] # 0 /\ logs[cause[w]].approval \in ApprovalsOf(g)
    BY DEF FirstGateRespected
  <2>1. \A i \in Steps : i > g /\ executed[i] > 0 => ApprovalsOf(g) # {}
    BY DEF SkillIInv, ExecutedBehindGate
  <2>2. ASSUME NEW w \in Workers, place[w] = "steps", at[w] > g
        PROVE  cause[w] # 0 /\ logs[cause[w]].approval \in ApprovalsOf(g)
    <3>1. at[w] \in 0..(Len(Manifest) + 1) /\ RunnerOK(w)
      BY DEF SkillIInv, SkillTypeOK
    <3>2. cause[w] # 0
      BY <2>2, <3>1, StepsAreNumbers DEF RunnerOK, NotBehindGate
    <3> QED BY <2>2, <3>1, <3>2, HeldIsOfGate DEF RunnerOK
  <2> QED BY <2>1, <2>2
<1> QED BY <1>1, SkillInvariance, PTL

(* A run that waits for an approval has the log row it goes on from.       *)
THEOREM WaitingHasItsLog == SkillSpec => []WaitingCanResume
<1>1. SkillIInv => WaitingCanResume
  BY DEF SkillIInv
<1> QED BY <1>1, SkillInvariance, PTL

(* A run recorded as succeeded had each step end well, or allowed to fail. *)
THEOREM SuccessEarned == SkillSpec => []SuccessIsEarned
<1>1. SkillIInv => SuccessIsEarned
  BY DEF SkillIInv
<1> QED BY <1>1, SkillInvariance, PTL
=============================================================================
