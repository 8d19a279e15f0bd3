---------------------------- MODULE DurableRuns ----------------------------
(***************************************************************************)
(* The durable-run store in use: worker processes (Scheduler, Drift, skill *)
(* runner) that claim, execute, pause, resume and finish runs, the         *)
(* recovery sweep they run, and the Console user who submits, cancels and  *)
(* retries.  They share nothing but the database, so any two statements of *)
(* two of them may interleave, and a worker may die between any two of its *)
(* own: after the UPDATE and before the append_event that belongs to it,   *)
(* or after the SELECT of abandon_expired and before its UPDATE.           *)
(*                                                                         *)
(* A worker does not know that it has lost its run: it goes on executing   *)
(* (a zombie) and its late finish or pause is sent like any other.         *)
(***************************************************************************)
EXTENDS RunRepository, FiniteSets

CONSTANTS
    Runs,           \* the rows the model may insert
    NoRun,          \* the worker executes nothing
    Console,        \* the Console/API process
    DriftWorkers,   \* the workers whose sweep retries what it recovered
    MaxAttemptsOf,  \* the max_attempts values of the callers of create
    AttemptBound,   \* bound: no new attempt of a run beyond this one
    CrashBound      \* bound: worker crashes in a behaviour

ASSUME NoRunAssumption == NoRun \notin Runs
ASSUME ConsoleAssumption == Console \notin Workers
ASSUME DriftWorkersAssumption == DriftWorkers \subseteq Workers
ASSUME BoundAssumption ==
    /\ MaxAttemptsOf \subseteq Nat \ {0}
    /\ AttemptBound \in Nat
    /\ CrashBound \in Nat

VARIABLES
    runs,       \* the table runs
    resumes,    \* history: how often a run was resumed after an approval
    logged,     \* logged[r]: the starts (claimed, resumed) in run_events
    owed,       \* owed[a]: the append_event calls actor a has yet to make
    doing,      \* doing[w]: the run worker w is executing
    attempt,    \* history: the attempt number w was granted with doing[w]
    expired,    \* expired[w]: the rows w's abandon_expired has selected
    recovered,  \* recovered[w]: the rows abandon_expired returned to w
    crashes     \* history: worker crashes so far

vars == <<runs, resumes, logged, owed, doing, attempt, expired, recovered,
          crashes>>

Actors == Workers \cup {Console}
Events == {"created", "claimed", "resumed", "waiting_approval", "finished",
           "cancelled", "retry_requested", "lease_expired"}
Starts == {"claimed", "resumed"}
Outcomes == TERMINAL_STATUSES \ {"abandoned"}   \* what callers pass to finish

Init ==
    /\ runs = [r \in Runs |-> AbsentRow]
    /\ resumes = [r \in Runs |-> 0]
    /\ logged = [r \in Runs |-> 0]
    /\ owed = [a \in Actors |-> {}]
    /\ doing = [w \in Workers |-> NoRun]
    /\ attempt = [w \in Workers |-> 0]
    /\ expired = [w \in Workers |-> {}]
    /\ recovered = [w \in Workers |-> {}]
    /\ crashes = 0

\* An actor issues its next statement when the event of its last call is written.
Ready(a) == owed[a] = {}

Free(w) ==
    /\ Ready(w)
    /\ doing[w] = NoRun
    /\ expired[w] = {}
    /\ recovered[w] = {}

SetRow(r, row) == runs' = [runs EXCEPT ![r] = row]
Owe(a, r, event) == owed' = [owed EXCEPT ![a] = {<<r, event>>}]

-----------------------------------------------------------------------------
(* The repository's calls.                                                 *)

Create(a, r) ==
    /\ Ready(a)
    /\ runs[r].status = "absent"
    /\ \E max \in MaxAttemptsOf : SetRow(r, PendingRow(max))
    /\ Owe(a, r, "created")
    /\ UNCHANGED <<resumes, logged, doing, attempt, expired, recovered, crashes>>

Start(w, r, row, event) ==
    /\ Free(w)
    /\ runs[r].attempts < AttemptBound
    /\ SetRow(r, row)
    /\ Owe(w, r, event)
    /\ doing' = [doing EXCEPT ![w] = r]
    /\ attempt' = [attempt EXCEPT ![w] = row.attempts]
    /\ UNCHANGED <<logged, expired, recovered, crashes>>

Claim(w, r) ==
    /\ Claimable(runs[r])
    /\ Start(w, r, Claimed(runs[r], w), "claimed")
    /\ UNCHANGED resumes

ResumeWaiting(w, r) ==
    /\ Resumable(runs[r])
    /\ Start(w, r, Resumed(runs[r], w), "resumed")
    /\ resumes' = [resumes EXCEPT ![r] = @ + 1]

Heartbeat(w) ==
    /\ Ready(w)
    /\ doing[w] # NoRun
    /\ Beatable(runs[doing[w]], w)
    /\ SetRow(doing[w], Beaten(runs[doing[w]]))
    /\ UNCHANGED <<resumes, logged, owed, doing, attempt, expired, recovered,
                   crashes>>

\* The worker leaves its run with a call that changes the row, if its WHERE
\* clause holds, and changes nothing otherwise.
Leave(w, applies, row, event) ==
    /\ Ready(w)
    /\ doing[w] # NoRun
    /\ doing' = [doing EXCEPT ![w] = NoRun]
    /\ \/ applies /\ SetRow(doing[w], row) /\ Owe(w, doing[w], event)
       \/ ~applies /\ UNCHANGED <<runs, owed>>
    /\ UNCHANGED <<resumes, logged, attempt, expired, recovered, crashes>>

PauseForApproval(w) ==
    LET row == runs[doing[w]]
    IN  Leave(w, Pausable(row), Paused(row), "waiting_approval")

Finish(w, st) ==
    LET row == runs[doing[w]]
    IN  Leave(w, Finishable(row), Finished(row, st), "finished")

Cancel(r) ==
    /\ Ready(Console)
    /\ Cancellable(runs[r])
    /\ SetRow(r, Cancelled(runs[r]))
    /\ Owe(Console, r, "cancelled")
    /\ UNCHANGED <<resumes, logged, doing, attempt, expired, recovered, crashes>>

Retry(r) ==
    /\ Ready(Console)
    /\ Retriable(runs[r])
    /\ SetRow(r, Retried(runs[r]))
    /\ Owe(Console, r, "retry_requested")
    /\ UNCHANGED <<resumes, logged, doing, attempt, expired, recovered, crashes>>

-----------------------------------------------------------------------------
(* abandon_expired, in its two statements, and Drift's use of its result.  *)

SelectExpired(w) ==
    /\ Free(w)
    /\ \E r \in Runs : LeaseOver(runs[r])
    /\ expired' = [expired EXCEPT ![w] = {r \in Runs : LeaseOver(runs[r])}]
    /\ UNCHANGED <<runs, resumes, logged, owed, doing, attempt, recovered,
                   crashes>>

AbandonSelected(w) ==
    /\ expired[w] # {}
    /\ runs' = [r \in Runs |->
                  IF r \in expired[w] /\ Abandonable(runs[r])
                  THEN Abandoned(runs[r]) ELSE runs[r]]
    /\ owed' = [owed EXCEPT ![w] = expired[w] \X {"lease_expired"}]
    /\ expired' = [expired EXCEPT ![w] = {}]
    /\ recovered' =
         [recovered EXCEPT ![w] = IF w \in DriftWorkers THEN expired[w] ELSE {}]
    /\ UNCHANGED <<resumes, logged, doing, attempt, crashes>>

\* DriftRuntime retries each row it got back; the Scheduler leaves it abandoned.
RetryRecovered(w, r) ==
    /\ Ready(w)
    /\ r \in recovered[w]
    /\ recovered' = [recovered EXCEPT ![w] = @ \ {r}]
    /\ \/ /\ Retriable(runs[r])
          /\ SetRow(r, Retried(runs[r]))
          /\ Owe(w, r, "retry_requested")
       \/ ~Retriable(runs[r]) /\ UNCHANGED <<runs, owed>>
    /\ UNCHANGED <<resumes, logged, doing, attempt, expired, crashes>>

-----------------------------------------------------------------------------

\* Mutant of AppendEvent: a commit that timed out is sent again.
AppendEventAgain(a) ==
    \E e \in owed[a] :
        /\ \E again \in BOOLEAN :
             owed' = IF again THEN owed ELSE [owed EXCEPT ![a] = @ \ {e}]
        /\ logged[e[1]] <= AttemptBound
        /\ logged' = IF e[2] \in Starts
                     THEN [logged EXCEPT ![e[1]] = @ + 1] ELSE logged
        /\ UNCHANGED <<runs, resumes, doing, attempt, expired, recovered,
                       crashes>>

\* append_event: the INSERT that the call still owes.  Only the starts are counted.
AppendEvent(a) ==
    \E e \in owed[a] :
        /\ owed' = [owed EXCEPT ![a] = @ \ {e}]
        /\ logged' = IF e[2] \in Starts
                     THEN [logged EXCEPT ![e[1]] = @ + 1] ELSE logged
        /\ UNCHANGED <<runs, resumes, doing, attempt, expired, recovered,
                       crashes>>

\* The lease runs out: nobody renewed it in time.
LeaseExpires(r) ==
    /\ runs[r].lease = "live"
    /\ SetRow(r, [runs[r] EXCEPT !.lease = "expired"])
    /\ UNCHANGED <<resumes, logged, owed, doing, attempt, expired, recovered,
                   crashes>>

\* The process dies, with everything it had in memory, and is started again.
Crash(w) ==
    /\ ~Free(w)
    /\ crashes < CrashBound
    /\ crashes' = crashes + 1
    /\ owed' = [owed EXCEPT ![w] = {}]
    /\ doing' = [doing EXCEPT ![w] = NoRun]
    /\ expired' = [expired EXCEPT ![w] = {}]
    /\ recovered' = [recovered EXCEPT ![w] = {}]
    /\ UNCHANGED <<runs, resumes, logged, attempt>>

WorkerStep(w) ==
    \/ \E r \in Runs : \/ Create(w, r)
                       \/ Claim(w, r)
                       \/ ResumeWaiting(w, r)
                       \/ RetryRecovered(w, r)
    \/ Heartbeat(w)
    \/ PauseForApproval(w)
    \/ \E st \in Outcomes : Finish(w, st)
    \/ SelectExpired(w)
    \/ AbandonSelected(w)
    \/ Crash(w)

ConsoleStep ==
    \E r \in Runs : Create(Console, r) \/ Cancel(r) \/ Retry(r)

Next ==
    \/ \E w \in Workers : WorkerStep(w)
    \/ ConsoleStep
    \/ \E a \in Actors : AppendEvent(a)
    \/ \E r \in Runs : LeaseExpires(r)

Spec == Init /\ [][Next]_vars

\* The processes run: a call writes its event, leases run out, workers that
\* live finish what they execute and sweep.  Nothing obliges a worker to claim,
\* the user to act, or anything to crash.
Fairness ==
    /\ \A a \in Actors : WF_vars(AppendEvent(a))
    /\ \A r \in Runs : WF_vars(LeaseExpires(r))
    /\ \A w \in Workers :
         /\ WF_vars(\E st \in Outcomes : Finish(w, st))
         /\ WF_vars(SelectExpired(w))
         /\ WF_vars(AbandonSelected(w))
         /\ WF_vars(\E r \in Runs : RetryRecovered(w, r))

FairSpec == Spec /\ Fairness

-----------------------------------------------------------------------------
(* Safety.                                                                 *)

(* Every variable has its type: the table, the log, what workers hold.     *)
TypeOK ==
    /\ runs \in [Runs -> Row]
    /\ resumes \in [Runs -> Nat]
    /\ logged \in [Runs -> Nat]
    /\ owed \in [Actors -> SUBSET (Runs \X Events)]
    /\ doing \in [Workers -> Runs \cup {NoRun}]
    /\ attempt \in [Workers -> Nat]
    /\ expired \in [Workers -> SUBSET Runs]
    /\ recovered \in [Workers -> SUBSET Runs]
    /\ crashes \in Nat

(* A run has a lease exactly while it is running, and then somebody's name *)
(* is on it.  A running row without lease_expires_at is invisible to       *)
(* abandon_expired and would never be recovered; a lease left on another   *)
(* row would let a sweep give up a run nobody executes.                    *)
LeaseIffRunning ==
    \A r \in Runs :
        /\ runs[r].lease # "none" <=> runs[r].status = "running"
        /\ runs[r].status = "running" => runs[r].claimedBy \in Workers

(* Attempt numbers fence the workers: no worker has one the row has not    *)
(* reached, no two workers executing one run have the same, and the worker *)
(* that has the newest one of a running run is the one named on the row.   *)
(* Zombies are therefore recognisable, although finish does not look.      *)
AttemptsFence ==
    \A w \in Workers : doing[w] # NoRun =>
        LET r == doing[w] IN
        /\ attempt[w] <= runs[r].attempts
        /\ (attempt[w] = runs[r].attempts /\ runs[r].status = "running")
              => runs[r].claimedBy = w
        /\ \A v \in Workers \ {w} : doing[v] = r => attempt[v] # attempt[w]

(* Attempts stay within max_attempts, but for one more each time an        *)
(* approval resumed the run: resume_waiting charges an attempt and does    *)
(* not compare.                                                            *)
AttemptBudget ==
    \A r \in Runs : runs[r].attempts <= runs[r].maxAttempts + resumes[r]

\* The starts of r that some actor has still to write to the log.
OwedStarts(r) ==
    {a \in Actors : \E e \in owed[a] : e[1] = r /\ e[2] \in Starts}

(* The event log never tells of a start that did not happen, and with no   *)
(* crash it will tell of each: append_event comes after its UPDATE, in a   *)
(* transaction of its own, so only a crash between the two loses one.      *)
LogFollowsStarts ==
    \A r \in Runs :
        LET told == logged[r] + Cardinality(OwedStarts(r)) IN
        /\ told <= runs[r].attempts
        /\ runs[r].attempts <= told + crashes

-----------------------------------------------------------------------------
(* What a step may never do.                                               *)

(* A succeeded run is never touched again, and a failed or cancelled one   *)
(* only by being made claimable once more, whatever zombie, sweep or stale *)
(* selection of a sweep comes late.                                        *)
OutcomeStands ==
    [][\A r \in Runs :
        /\ runs[r].status = "succeeded" => runs'[r] = runs[r]
        /\ (runs[r].status \in {"failed", "cancelled"} /\ runs'[r] # runs[r])
             => Claimable(runs'[r])]_runs

-----------------------------------------------------------------------------
(* The store keeps the promises of RunLifecycle.                           *)

Lifecycle == INSTANCE RunLifecycle
    WITH status <- [r \in Runs |-> runs[r].status],
         grants <- [r \in Runs |-> runs[r].attempts]

(* Every behaviour of the store, with its leases, zombies, sweeps and      *)
(* crashes, is one of the abstract life cycle: execution is granted one at *)
(* a time and counted, outcomes are final, requeueing is the only way back.*)
ImplementsLifecycle == Lifecycle!Spec

(* A run whose worker is gone does not stay running for ever: its lease    *)
(* runs out and somebody's sweep gives it up.                              *)
OrphanRecovered ==
    \A r \in Runs :
        (runs[r].status = "running" /\ \A w \in Workers : doing[w] # r)
            ~> (runs[r].status # "running" \/ \E w \in Workers : doing[w] = r)
=============================================================================
