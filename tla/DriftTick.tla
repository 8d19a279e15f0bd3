------------------------------ MODULE DriftTick ------------------------------
(***************************************************************************)
(* runtime/drift.py, DriftRuntime: the tick that runs one maintenance      *)
(* skill as a durable run, within a budget of runs, unless it is paused.   *)
(* Each process has a runtime of its own, with one tick thread; they share *)
(* the tables runs, drift_runs and drift_state, and each step below is one *)
(* statement and its commit.  Any write may raise (SQLite: the database is *)
(* locked): inside the try the tick goes over to its failure path, and     *)
(* within that one it ends and leaves things as they are.                  *)
(* Ticks are 28 minutes apart at least, so the cooldown of 300 s is over   *)
(* at each and the medium-risk skills are never candidates.                *)
(***************************************************************************)
EXTENDS RunRepository, FiniteSets, Sequences

CONSTANTS
    RunBound,       \* bound: the rows the model may insert
    Skills,         \* LOW_RISK_MAINTENANCE_SKILLS, a sequence
    daily_budget,
    Bounds          \* bounds: incidents, the user's calls, tasks

ASSUME TickAssumption ==
    /\ Skills # <<>> /\ {daily_budget, RunBound} \subseteq Nat
    /\ \A b \in Bounds : {b.incidents, b.requests} \subseteq Nat
    /\ IsFiniteSet(Workers) /\ Workers # {}

VARIABLES
    runs,           \* the table runs, of run_type drift, in the order of the
                    \* INSERTs
    definition,     \* definition_id of a run: its skill
    drift_runs,     \* status in drift_runs
    paused, runs_today,     \* the row of drift_state
    tick,           \* what each runtime is at
    last_run,       \* _last_run: the skill each runtime ran last
    said,           \* history: every status drift_runs had for a run
    begun,          \* history: ticks that took a run since the pause
    incidents,      \* history: crashes and writes that raised
    requests,       \* history: calls of the user
    bound           \* the bounds of this behaviour, one of Bounds

tickVars == <<runs, definition, drift_runs, paused, runs_today, tick,
              last_run, said, begun, incidents, requests, bound>>

Runs == 1..RunBound

Off == [at |-> "off", run |-> {}, skill |-> "", outcome |-> "none", rows |-> {},
        back |-> {}]

Resting == [Off EXCEPT !.at = "idle"]

At(w, s) == tick[w].at = s

Go(w, state) == tick' = [tick EXCEPT ![w] = state]

RowsIn(status) == {r \in Runs : runs[r].status = status}

Alive(w) == ~At(w, "off")

-----------------------------------------------------------------------------
(* start: _recover_expired_runs, that is abandon_expired (one SELECT, an   *)
(* UPDATE for each row) and then a retry of every row it returned.         *)
Start(w) ==
    /\ At(w, "off")
    /\ Go(w, [Off EXCEPT !.at = "abandon", !.rows = {r \in Runs : LeaseOver(runs[r])}])
    /\ last_run' = [last_run EXCEPT ![w] = ""]
    /\ UNCHANGED <<runs, definition, drift_runs, paused, runs_today,
                   said, begun, incidents, requests, bound>>

Recover(w) ==
    /\ At(w, "abandon")
    /\ \E r \in tick[w].rows :
        IF Abandonable(runs[r])
        THEN /\ runs' = [runs EXCEPT ![r] = Abandoned(@)]
             /\ Go(w, [tick[w] EXCEPT !.rows = @ \ {r}, !.back = @ \cup {r}])
        ELSE Go(w, [tick[w] EXCEPT !.rows = @ \ {r}]) /\ UNCHANGED runs
    /\ UNCHANGED <<definition, drift_runs, paused, runs_today, last_run,
                   said, begun, incidents, requests, bound>>

RetryRecovered(w) ==
    /\ At(w, "abandon") /\ tick[w].rows = {}
    /\ \E r \in tick[w].back :
        /\ runs' = [runs EXCEPT ![r] = IF Retriable(@) THEN Retried(@) ELSE @]
        /\ Go(w, [tick[w] EXCEPT !.back = @ \ {r}])
    /\ UNCHANGED <<definition, drift_runs, paused, runs_today, last_run,
                   said, begun, incidents, requests, bound>>

Started(w) ==
    /\ At(w, "abandon") /\ tick[w].rows = {} /\ tick[w].back = {}
    /\ Go(w, Resting)
    /\ UNCHANGED <<runs, definition, drift_runs, paused, runs_today,
                   last_run, said, begun, incidents, requests, bound>>

-----------------------------------------------------------------------------
(* _tick.  Quiet hours only keep a tick from starting, as does a tick that *)
(* has not come.                                                           *)
MayTick == ~paused /\ runs_today < daily_budget

ReadState(w) ==
    /\ At(w, "idle") /\ MayTick
    /\ Go(w, [Resting EXCEPT !.at = "list"])
    /\ UNCHANGED <<runs, definition, drift_runs, paused, runs_today,
                   last_run, said, begun, incidents, requests, bound>>

(* _select_eligible_skills()[0]: both orders put the skill with the        *)
(* shortest time since its last run first; one that never ran is last, and *)
(* among those the first of the list comes first.                          *)
Chosen(w) == IF last_run[w] = "" THEN Head(Skills) ELSE last_run[w]

\* list_runs(status="pending", limit=1): the newest one.
Newest == {r \in RowsIn("pending") : \A q \in RowsIn("pending") : q <= r}

ListPending(w) ==
    /\ At(w, "list")
    /\ LET skill == IF Newest = {} THEN Chosen(w)
                    ELSE definition[CHOOSE r \in Newest : TRUE]
       IN /\ Go(w, [tick[w] EXCEPT !.run = Newest, !.skill = skill,
                        !.at = IF Newest = {} THEN "create" ELSE "claim"])
          /\ last_run' = [last_run EXCEPT ![w] = skill]
    /\ UNCHANGED <<runs, definition, drift_runs, paused, runs_today,
                   said, begun, incidents, requests, bound>>

Create(w) ==
    /\ At(w, "create")
    /\ \E r \in Runs :
        /\ runs[r].status = "absent"
        /\ \A q \in 1..(r - 1) : runs[q].status # "absent"
        /\ runs' = [runs EXCEPT ![r] = PendingRow(3)]
        /\ definition' = [definition EXCEPT ![r] = tick[w].skill]
        /\ Go(w, [tick[w] EXCEPT !.run = {r}, !.at = "claim"])
    /\ UNCHANGED <<drift_runs, paused, runs_today, last_run, said, begun,
                   incidents, requests, bound>>

(* claim, by whoever comes first; the other tick ends as not_claimed.      *)
Claim(w) ==
    /\ At(w, "claim")
    /\ \E r \in tick[w].run :
        IF Claimable(runs[r])
        THEN /\ runs' = [runs EXCEPT ![r] = Claimed(@, w)]
             /\ begun' = begun + 1
             /\ Go(w, [tick[w] EXCEPT !.at = "invoke"])
        ELSE Go(w, Resting) /\ UNCHANGED <<runs, begun>>
    /\ UNCHANGED <<definition, drift_runs, paused, runs_today, last_run,
                   said, incidents, requests, bound>>

(* _invoke_skill: the skill returns or raises.                             *)
Invoke(w) ==
    /\ At(w, "invoke")
    /\ \E outcome \in {"completed", "failed"} :
          Go(w, [tick[w] EXCEPT !.at = "persist", !.outcome = outcome])
    /\ UNCHANGED <<runs, definition, drift_runs, paused, runs_today,
                   last_run, said, begun, incidents, requests, bound>>

(* _persist_run, after the entry in the audit log.                         *)
PersistRun(w) ==
    /\ At(w, "persist")
    /\ \E r \in tick[w].run :
        /\ drift_runs' = [drift_runs EXCEPT ![r] = tick[w].outcome]
        /\ said' = [said EXCEPT ![r] = @ \cup {tick[w].outcome}]
    /\ Go(w, [tick[w] EXCEPT !.at = "finish"])
    /\ UNCHANGED <<runs, definition, paused, runs_today, last_run, begun,
                   incidents, requests, bound>>

FinalStatus(outcome) == IF outcome = "completed" THEN "succeeded" ELSE "failed"

(* finish, which a run that is final already refuses; a failure is not     *)
(* counted.                                                                *)
Finish(w) ==
    /\ At(w, "finish")
    /\ \E r \in tick[w].run :
          runs' = [runs EXCEPT ![r] =
                     IF Finishable(@) THEN Finished(@, FinalStatus(tick[w].outcome))
                     ELSE @]
    /\ Go(w, IF tick[w].outcome = "completed" THEN [tick[w] EXCEPT !.at = "count"]
             ELSE Resting)
    /\ UNCHANGED <<definition, drift_runs, paused, runs_today, last_run,
                   said, begun, incidents, requests, bound>>

IncrementRunsToday(w) ==
    /\ At(w, "count")
    /\ runs_today' = runs_today + 1
    /\ Go(w, Resting)
    /\ UNCHANGED <<runs, definition, drift_runs, paused, last_run, said,
                   begun, incidents, requests, bound>>

-----------------------------------------------------------------------------
Incident ==
    /\ incidents < bound.incidents
    /\ incidents' = incidents + 1

\* Mutant of FailurePath: drift_runs is not told.
FailurePathUnrecorded(w) == [tick[w] EXCEPT !.at = "finish", !.outcome = "failed"]

FailurePath(w) == [tick[w] EXCEPT !.at = "persist", !.outcome = "failed"]

(* A write raises.  What has succeeded so far goes over to the failure     *)
(* path, even a run that has just been finished.                           *)
WriteRaises(w) ==
    /\ tick[w].at \in {"create", "claim", "persist", "finish", "count"}
    /\ Incident
    /\ Go(w, IF tick[w].outcome = "completed" THEN FailurePath(w) ELSE Resting)
    /\ UNCHANGED <<runs, definition, drift_runs, paused, runs_today, last_run,
                   said, begun, requests, bound>>

TickCrash(w) ==
    /\ Alive(w) /\ Incident
    /\ Go(w, Off)
    /\ UNCHANGED <<runs, definition, drift_runs, paused, runs_today,
                   last_run, said, begun, requests, bound>>

(* Nobody renews a lease; 300 s are over while the skill runs or after a   *)
(* crash.                                                                  *)
ExpireLease(r) ==
    /\ runs[r].status = "running" /\ runs[r].lease = "live"
    /\ runs' = [runs EXCEPT ![r].lease = "expired"]
    /\ UNCHANGED <<definition, drift_runs, paused, runs_today, tick,
                   last_run, said, begun, incidents, requests, bound>>

-----------------------------------------------------------------------------
(* The user, in the Console: pause and resume, each one UPDATE, and cancel *)
(* and retry of a run.                                                     *)
Called == requests < bound.requests /\ requests' = requests + 1

Pause ==
    /\ Called
    /\ paused' = TRUE
    /\ begun' = IF paused THEN begun ELSE 0
    /\ UNCHANGED <<runs, definition, drift_runs, runs_today, tick,
                   last_run, said, incidents, bound>>

Resume ==
    /\ Called /\ paused
    /\ paused' = FALSE
    /\ UNCHANGED <<runs, definition, drift_runs, runs_today, tick,
                   last_run, said, begun, incidents, bound>>

CancelOrRetry(r) ==
    /\ Called
    /\ \/ Cancellable(runs[r]) /\ runs' = [runs EXCEPT ![r] = Cancelled(@)]
       \/ Retriable(runs[r]) /\ runs' = [runs EXCEPT ![r] = Retried(@)]
    /\ UNCHANGED <<definition, drift_runs, paused, runs_today, tick,
                   last_run, said, begun, incidents, bound>>

-----------------------------------------------------------------------------
TickInit ==
    /\ runs = [r \in Runs |-> AbsentRow]
    /\ definition = [r \in Runs |-> ""]
    /\ drift_runs = [r \in Runs |-> "none"]
    /\ paused = FALSE /\ runs_today = 0
    /\ tick = [w \in Workers |-> Off]
    /\ last_run = [w \in Workers |-> ""]
    /\ said = [r \in Runs |-> {}]
    /\ begun = 0 /\ incidents = 0 /\ requests = 0 /\ bound \in Bounds

\* A step of the tick thread of a runtime.
TickStep(w) ==
    \/ Recover(w) \/ RetryRecovered(w)
    \/ ReadState(w) \/ ListPending(w) \/ Create(w) \/ Claim(w) \/ Invoke(w)
    \/ PersistRun(w) \/ Finish(w) \/ IncrementRunsToday(w) \/ WriteRaises(w)

UserStep == Pause \/ Resume \/ \E r \in Runs : CancelOrRetry(r)

\* A write of another thread raises, or an AgentLoop stops.
ElsewhereFails ==
    /\ Incident
    /\ UNCHANGED <<runs, definition, drift_runs, paused, runs_today, tick,
                   last_run, said, begun, requests, bound>>

TickNext ==
    \/ \E w \in Workers : TickStep(w) \/ Start(w) \/ Started(w) \/ TickCrash(w)
    \/ UserStep \/ ElsewhereFails \/ \E r \in Runs : ExpireLease(r)

TickSpec == TickInit /\ [][TickNext]_tickVars

-----------------------------------------------------------------------------
Succeeded == RowsIn("succeeded")

\* Those beyond the budget are what other runtimes had under way when the last
\* one was counted, and one for each crash or failed write.
BudgetHeld ==
    Cardinality(Succeeded) <=
        daily_budget + Cardinality(Workers) - 1 + incidents

\* After a pause each runtime begins at most the run that its tick was about to take.
PauseHeld == paused => begun <= Cardinality(Workers)

\* A run that ended by a tick has been in drift_runs with the outcome that settled
\* it.  (The last word of drift_runs may well be another one.)
OutcomeRecorded ==
    \A r \in Runs :
        /\ runs[r].status = "succeeded" => "completed" \in said[r]
        /\ runs[r].status = "failed" => "failed" \in said[r]

(* The day's budget and a pause hold but for what is under way, and the    *)
(* outcome of each run is recorded, whichever of two executions came first *)
(* and whatever write raised or process died in between.                   *)
TicksAccounted == BudgetHeld /\ PauseHeld /\ OutcomeRecorded
=============================================================================
