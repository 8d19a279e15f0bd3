----------------------------- MODULE Scheduler -----------------------------
(***************************************************************************)
(* SchedulerEngine (autonomy/scheduler.py): the table scheduled_jobs and   *)
(* the engines that tick over it.  The daemon, the proactive loop and      *)
(* `cogito schedule run' each own an engine, in processes of their own,    *)
(* and share the database.  A tick recovers expired runs, selects the due  *)
(* jobs once, and then takes the selected rows one by one: it claims the   *)
(* job, opens the durable run of this firing, claims it, and executes.     *)
(* Every commit of that path is an action, so engines interleave and die   *)
(* between any two commits; what an engine read in its SELECT may be stale *)
(* when it uses it.                                                        *)
(*                                                                         *)
(* The durable run of a firing is found by its idempotency key             *)
(* "<job id>:<fire time>"; the model indexes the runs by that key.         *)
(* Workers of RunRepository are the engines.                               *)
(***************************************************************************)
EXTENDS RunRepository, FiniteSets

CONSTANTS
    Jobs,           \* job ids
    Never,          \* next_run_at, run_at: NULL
    Def,            \* Def[j]: what is fixed when job j is written
    MaxTime,        \* bound: the clock stops here
    IncidentBound,  \* bound: engine crashes and resets in a behaviour
    AttemptBound    \* bound: no lease of a later attempt runs out

Engines == Workers
Time == 0..MaxTime
Fires == Jobs \X Time       \* idempotency keys

\* What schedule writes once: dry runs and no retries are the defaults.
JobDef == [interval : BOOLEAN, dryRun : BOOLEAN, maxRetries : Nat,
           runAt : Time \cup {Never}]

ASSUME DefAssumption == Def \in [Jobs -> JobDef]
ASSUME NeverAssumption == Never \notin Jobs
ASSUME SchedulerBounds ==
    {MaxTime, IncidentBound, AttemptBound} \subseteq Nat

JobStatus == {"absent", "pending", "running", "completed", "failed", "skipped",
              "cancelled"}

VARIABLES
    now,        \* datetime.now(), in units of the shortest delay
    jobs,       \* the table scheduled_jobs
    runs,       \* the table runs, by idempotency key
    pc,         \* pc[e]: where engine e is in its tick
    lapsed,     \* lapsed[e]: jobs whose runs e has just abandoned
    selected,   \* selected[e]: the rows of e's SELECT it has not taken yet
    since,      \* since[e]: the time of that SELECT
    work,       \* work[e]: the row e has taken, as it was selected, and its
                \*   locals: now (began), fire_at (fire), outcome (ok)
    effects,    \* history: how often the capability ran for a firing
    crashes,    \* history: engine crashes so far
    resets      \* history: calls of reset_job so far

engineVars == <<pc, lapsed, selected, since, work>>
vars == <<now, jobs, runs, engineVars, effects, crashes, resets>>

\* A row of scheduled_jobs as an engine sees it.
View(j) == [id |-> j, next |-> jobs[j].next, retries |-> jobs[j].retries,
            began |-> 0, fire |-> 0, ok |-> FALSE]
NoWork == [id |-> Never, next |-> Never, retries |-> 0,
           began |-> 0, fire |-> 0, ok |-> FALSE]

Due(t, limit) == t # Never => t <= limit

\* Mutant of Selectable: enabled is not looked at.
SelectableDisabled(j, limit) ==
    /\ jobs[j].status \in {"pending", "failed"}
    /\ Due(jobs[j].next, limit)
    /\ Due(Def[j].runAt, limit)

Selectable(j, limit) ==
    /\ jobs[j].enabled
    /\ jobs[j].status \in {"pending", "failed"}
    /\ Due(jobs[j].next, limit)
    /\ Due(Def[j].runAt, limit)

Init ==
    /\ now = 0
    /\ jobs = [j \in Jobs |-> [status |-> "absent", enabled |-> FALSE,
                               next |-> Never, retries |-> 0]]
    /\ runs = [k \in Fires |-> AbsentRow]
    /\ pc = [e \in Engines |-> "idle"]
    /\ lapsed = [e \in Engines |-> {}]
    /\ selected = [e \in Engines |-> {}]
    /\ since = [e \in Engines |-> 0]
    /\ work = [e \in Engines |-> NoWork]
    /\ effects = [k \in Fires |-> 0]
    /\ crashes = 0
    /\ resets = 0

Goto(e, label) == pc' = [pc EXCEPT ![e] = label]
SetJob(j, row) == jobs' = [jobs EXCEPT ![j] = row]
SetStatus(j, st) == jobs' = [jobs EXCEPT ![j].status = st]
Key(e) == <<work[e].id, work[e].fire>>

-----------------------------------------------------------------------------
(* The job's owner.                                                        *)

Schedule(j) ==
    /\ jobs[j].status = "absent"
    /\ SetJob(j, [status |-> "pending", enabled |-> TRUE, retries |-> 0,
                  next |-> IF Def[j].runAt = Never THEN now ELSE Def[j].runAt])
    /\ UNCHANGED <<now, runs, engineVars, effects, crashes, resets>>

Cancel(j) ==
    /\ jobs[j].status # "absent"
    /\ SetJob(j, [jobs[j] EXCEPT !.status = "cancelled", !.enabled = FALSE])
    /\ UNCHANGED <<now, runs, engineVars, effects, crashes, resets>>

ResetJob(j) ==
    /\ jobs[j].status = "running"
    /\ crashes + resets < IncidentBound
    /\ resets' = resets + 1
    /\ SetJob(j, [jobs[j] EXCEPT !.status = "pending", !.retries = 0])
    /\ UNCHANGED <<now, runs, engineVars, effects, crashes>>

-----------------------------------------------------------------------------
(* tick: recovery, selection.                                              *)

\* abandon_expired; its two statements are taken apart in DurableRuns.
RecoverRuns(e) ==
    LET over == {k \in Fires : LeaseOver(runs[k])} IN
    /\ pc[e] = "idle"
    /\ runs' = [k \in Fires |->
                  IF k \in over THEN Abandoned(runs[k]) ELSE runs[k]]
    /\ lapsed' = [lapsed EXCEPT ![e] = {k[1] : k \in over}]
    /\ Goto(e, IF over = {} THEN "select" ELSE "requeue")
    /\ UNCHANGED <<now, jobs, selected, since, work, effects, crashes, resets>>

RequeueJobs(e) ==
    /\ pc[e] = "requeue"
    /\ jobs' = [j \in Jobs |->
                  IF j \in lapsed[e] /\ jobs[j].status = "running"
                  THEN [jobs[j] EXCEPT !.status = "pending"] ELSE jobs[j]]
    /\ lapsed' = [lapsed EXCEPT ![e] = {}]
    /\ Goto(e, "select")
    /\ UNCHANGED <<now, runs, selected, since, work, effects, crashes, resets>>

SelectDue(e) ==
    LET due == {j \in Jobs : Selectable(j, now)} IN
    /\ pc[e] = "select"
    /\ selected' = [selected EXCEPT ![e] = {View(j) : j \in due}]
    /\ since' = [since EXCEPT ![e] = IF due = {} THEN 0 ELSE now]
    /\ Goto(e, IF due = {} THEN "idle" ELSE "take")
    /\ UNCHANGED <<now, jobs, runs, lapsed, work, effects, crashes, resets>>

\* ORDER BY next_run_at ASC, NULL first.
First(rows) ==
    {v \in rows : \A u \in rows :
        v.next # Never => (u.next # Never /\ v.next <= u.next)}

\* The engine is done with its row: the next one, or the end of the tick.
Proceed(e) ==
    /\ work' = [work EXCEPT ![e] = NoWork]
    /\ since' = IF selected'[e] = {} THEN [since EXCEPT ![e] = 0] ELSE since
    /\ Goto(e, IF selected'[e] = {} THEN "idle" ELSE "take")

\* _claim_job: the WHERE clause of the SELECT again, with the SELECT's time.
ClaimJob(e) ==
    /\ pc[e] = "take"
    /\ \E v \in First(selected[e]) :
        /\ selected' = [selected EXCEPT ![e] = @ \ {v}]
        /\ \/ /\ Selectable(v.id, since[e])
              /\ SetStatus(v.id, "running")
              /\ work' = [work EXCEPT ![e] = v]
              /\ Goto(e, "open")
              /\ UNCHANGED since
           \/ /\ ~Selectable(v.id, since[e])
              /\ Proceed(e)
              /\ UNCHANGED jobs
    /\ UNCHANGED <<now, runs, lapsed, effects, crashes, resets>>

-----------------------------------------------------------------------------
(* _execute_job.                                                           *)

FireTime(v) ==
    CASE v.next # Never -> v.next
      [] v.next = Never /\ Def[v.id].runAt # Never -> Def[v.id].runAt
      [] OTHER -> now

\* runs.create: inserts, or finds the run of this firing by its key.
OpenRun(e) ==
    LET at  == FireTime(work[e])
        key == <<work[e].id, at>>
        max == Def[work[e].id].maxRetries + 1
    IN
    /\ pc[e] = "open"
    /\ work' = [work EXCEPT ![e].fire = at, ![e].began = now]
    /\ runs' = IF runs[key].status = "absent"
               THEN [runs EXCEPT ![key] = PendingRow(max)] ELSE runs
    /\ Goto(e, "claim")
    /\ UNCHANGED <<now, jobs, lapsed, selected, since, effects, crashes, resets>>

ClaimRun(e) ==
    /\ pc[e] = "claim"
    /\ Claimable(runs[Key(e)])
    /\ runs' = [runs EXCEPT ![Key(e)] = Claimed(@, e)]
    /\ Goto(e, "decide")
    /\ UNCHANGED <<now, jobs, lapsed, selected, since, work, effects,
                   crashes, resets>>

\* Mutant of ClaimRefused: the job keeps its status.
ClaimRefusedRunning(e) ==
    /\ pc[e] = "claim"
    /\ ~Claimable(runs[Key(e)])
    /\ UNCHANGED selected
    /\ Proceed(e)
    /\ UNCHANGED <<now, jobs, runs, lapsed, effects, crashes, resets>>

ClaimRefused(e) ==
    /\ pc[e] = "claim"
    /\ ~Claimable(runs[Key(e)])
    /\ jobs' = IF jobs[work[e].id].status = "running"
               THEN [jobs EXCEPT ![work[e].id].status = "failed"] ELSE jobs
    /\ UNCHANGED selected
    /\ Proceed(e)
    /\ UNCHANGED <<now, runs, lapsed, effects, crashes, resets>>

\* Quiet hours, or the policy denies: the job is skipped, then the run closed.
Skip(e) ==
    /\ pc[e] = "decide"
    /\ SetStatus(work[e].id, "skipped")
    /\ \E label \in {"close_quiet", "close_denied"} : Goto(e, label)
    /\ UNCHANGED <<now, runs, lapsed, selected, since, work, effects,
                   crashes, resets>>

Allow(e) ==
    /\ pc[e] = "decide"
    /\ SetStatus(work[e].id, "running")
    /\ Goto(e, IF Def[work[e].id].dryRun THEN "settle" ELSE "execute")
    /\ work' = [work EXCEPT ![e].ok = Def[work[e].id].dryRun]
    /\ UNCHANGED <<now, runs, lapsed, selected, since, effects, crashes, resets>>

\* The governed capability call; FALSE for an error, a denial or an approval.
Execute(e) ==
    /\ pc[e] = "execute"
    /\ effects' = [effects EXCEPT ![Key(e)] = @ + 1]
    /\ \E good \in BOOLEAN : work' = [work EXCEPT ![e].ok = good]
    /\ Goto(e, "count")
    /\ UNCHANGED <<now, jobs, runs, lapsed, selected, since, crashes, resets>>

CountTry(e) ==
    /\ pc[e] = "count"
    /\ jobs' = [jobs EXCEPT ![work[e].id].retries = @ + 1]
    /\ Goto(e, "settle")
    /\ UNCHANGED <<now, runs, lapsed, selected, since, work, effects,
                   crashes, resets>>

\* The selected row, not the present one, says how many tries there were.
TriesLeft(e) ==
    /\ ~Def[work[e].id].dryRun
    /\ work[e].retries < Def[work[e].id].maxRetries

Settled(e) ==
    LET id == work[e].id
        present == jobs[id]
    IN  CASE ~work[e].ok /\ TriesLeft(e) ->
               [present EXCEPT !.status = "failed",
                               !.next = work[e].began + 2^work[e].retries,
                               !.retries = work[e].retries + 1]
          [] ~work[e].ok /\ ~TriesLeft(e) ->
               [present EXCEPT !.status = "failed", !.next = Never]
          [] work[e].ok ->
               [present EXCEPT !.status = "completed",
                               !.next = IF Def[id].interval THEN work[e].began + 1
                                        ELSE Never]

SettleJob(e) ==
    /\ pc[e] = "settle"
    /\ SetJob(work[e].id, Settled(e))
    /\ Goto(e, IF work[e].ok THEN "close_ok" ELSE "close_failed")
    /\ UNCHANGED <<now, runs, lapsed, selected, since, work, effects,
                   crashes, resets>>

Outcome == [close_quiet  |-> "cancelled", close_denied |-> "failed",
            close_failed |-> "failed",    close_ok     |-> "succeeded"]

FinishRun(e) ==
    /\ pc[e] \in DOMAIN Outcome
    /\ runs' = IF Finishable(runs[Key(e)])
               THEN [runs EXCEPT ![Key(e)] = Finished(@, Outcome[pc[e]])]
               ELSE runs
    /\ UNCHANGED selected
    /\ Proceed(e)
    /\ UNCHANGED <<now, jobs, lapsed, effects, crashes, resets>>

-----------------------------------------------------------------------------

Tick ==
    /\ now < MaxTime
    /\ now' = now + 1
    /\ UNCHANGED <<jobs, runs, engineVars, effects, crashes, resets>>

\* No engine calls heartbeat: a lease runs out under an execution that is slow.
LeaseExpires(k) ==
    /\ runs[k].lease = "live"
    /\ runs[k].attempts <= AttemptBound
    /\ runs' = [runs EXCEPT ![k].lease = "expired"]
    /\ UNCHANGED <<now, jobs, engineVars, effects, crashes, resets>>

Crash(e) ==
    /\ pc[e] # "idle"
    /\ crashes + resets < IncidentBound
    /\ crashes' = crashes + 1
    /\ pc' = [pc EXCEPT ![e] = "idle"]
    /\ lapsed' = [lapsed EXCEPT ![e] = {}]
    /\ selected' = [selected EXCEPT ![e] = {}]
    /\ work' = [work EXCEPT ![e] = NoWork]
    /\ since' = [since EXCEPT ![e] = 0]
    /\ UNCHANGED <<now, jobs, runs, effects, resets>>

EngineStep(e) ==
    \/ RecoverRuns(e) \/ RequeueJobs(e) \/ SelectDue(e) \/ ClaimJob(e)
    \/ OpenRun(e) \/ ClaimRun(e) \/ ClaimRefused(e)
    \/ Skip(e) \/ Allow(e) \/ Execute(e) \/ CountTry(e)
    \/ SettleJob(e) \/ FinishRun(e)

Next ==
    \/ \E j \in Jobs : Schedule(j) \/ Cancel(j) \/ ResetJob(j)
    \/ \E e \in Engines : EngineStep(e) \/ Crash(e)
    \/ \E k \in Fires : LeaseExpires(k)
    \/ Tick

Spec == Init /\ [][Next]_vars

\* Engines keep ticking and their commits succeed; leases run out.
Fairness ==
    /\ \A e \in Engines : WF_vars(EngineStep(e))
    /\ \A k \in Fires : WF_vars(LeaseExpires(k))

FairSpec == Spec /\ Fairness

-----------------------------------------------------------------------------
(* Properties.                                                             *)

Views == [id : Jobs \cup {Never}, next : Nat \cup {Never}, retries : Nat,
          began : Time, fire : Time, ok : BOOLEAN]
Labels == {"idle", "requeue", "select", "take", "open", "claim", "decide",
           "execute", "count", "settle"} \cup DOMAIN Outcome

(* Every variable has its type.                                            *)
TypeOK ==
    /\ now \in Time
    /\ jobs \in [Jobs -> [status : JobStatus, enabled : BOOLEAN,
                          next : Nat \cup {Never}, retries : Nat]]
    /\ runs \in [Fires -> Row]
    /\ pc \in [Engines -> Labels]
    /\ lapsed \in [Engines -> SUBSET Jobs]
    /\ selected \in [Engines -> SUBSET Views]
    /\ since \in [Engines -> Time]
    /\ work \in [Engines -> Views]
    /\ effects \in [Fires -> Nat]
    /\ crashes \in Nat /\ resets \in Nat

\* Engine e is executing the firing k: its claim of the run succeeded.
Executing(e, k) ==
    /\ pc[e] \in {"decide", "execute", "count", "settle"} \cup DOMAIN Outcome
    /\ Key(e) = k

(* A firing runs the capability at most once per attempt charged to its    *)
(* run, and no more than max_retries + 1 times, with any number of engines *)
(* in it, slow executions, stale selections and crashes: what a crash      *)
(* repeats is bounded by the run, not by the job.  A run that succeeded    *)
(* had its effect, unless the job is a dry run.                            *)
EffectsCharged ==
    \A k \in Fires :
        LET inside == {e \in Engines : Executing(e, k) /\
                                       pc[e] \in {"decide", "execute"}}
        IN  /\ effects[k] + Cardinality(inside) <= runs[k].attempts
            /\ runs[k].attempts <= Def[k[1]].maxRetries + 1
            /\ runs[k].status = "succeeded" => Def[k[1]].dryRun \/ effects[k] > 0

(* A job that is cancelled stays disabled whatever the engine that was     *)
(* executing it writes over its status, and is not taken again: neither by *)
(* a later tick nor from the rows an engine selected before.               *)
CancelHolds ==
    [][\A j \in Jobs :
        (jobs[j].status # "absent" /\ ~jobs[j].enabled) =>
            /\ ~jobs'[j].enabled
            /\ \A e \in Engines : work'[e].id = j => work[e].id = j]_vars

(* While no engine has died, a running job is in the hands of an engine.   *)
RunningIsAttended ==
    crashes = 0 => \A j \in Jobs : jobs[j].status = "running" =>
        \E e \in Engines : work[e].id = j

=============================================================================
