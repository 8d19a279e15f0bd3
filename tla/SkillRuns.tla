----------------------------- MODULE SkillRuns -----------------------------
(***************************************************************************)
(* SkillRunner (skill/runner.py): one durable run of a skill, from the     *)
(* command or the request that starts it, over the pause at an approval    *)
(* step, to `cogito approval resume' in another process, with the Console  *)
(* cancelling and retrying it.                                             *)
(*                                                                         *)
(* A pause leaves three things in the database, each with a commit of its  *)
(* own: the approval record, a row of skill_run_logs that says where to go *)
(* on, and the run in waiting_approval.  Nothing takes the log row away    *)
(* when the run goes on, and no sweep covers runs of this type: a lease    *)
(* may run out and nobody looks.                                           *)
(*                                                                         *)
(* Runs share nothing with each other, so there is one.  Workers of        *)
(* RunRepository are the SkillRunner objects, one in each process.         *)
(***************************************************************************)
EXTENDS RunRepository, Sequences, FiniteSets

CONSTANTS
    Manifest,       \* the steps: what kind, and what to do when one fails
    MaxAttempts,    \* max_attempts of the run
    PauseBound,     \* bound: approval records of the run
    StartBound,   \* bound: attempts of the run
    CrashBound      \* bound: runners that die

Step == [kind : {"work", "approval"}, onError : {"stop", "skip", "rollback"}]
Steps == DOMAIN Manifest

ASSUME ManifestAssumption == Manifest \in Seq(Step)
ASSUME SkillBounds ==
    {MaxAttempts, PauseBound, StartBound, CrashBound} \subseteq Nat \ {0}

VARIABLES
    run,        \* the row of the table runs
    approvals,  \* approval_records of the run, in order: step and decision
    logs,       \* rows of skill_run_logs with resume data: step and approval
    place,         \* place[w]: where runner w is
    at,         \* at[w]: the step w is at
    cause,      \* cause[w]: the log row w resumes from, 0 for a whole run
    asked,      \* asked[w]: the approval record w has made, 0 for none
    status,     \* status[w]: SkillRunLog.status
    executed,   \* history: how often step i was executed
    done,       \* history: how often it ended well
    resumes,    \* history: approved resumptions
    deaths     \* history: runners that died

tables == <<run, approvals, logs>>
runnerVars == <<place, at, cause, asked, status>>
history == <<executed, done, resumes, deaths>>
skillVars == <<tables, runnerVars, history>>

SkillInit ==
    /\ run = AbsentRow
    /\ approvals = <<>>
    /\ logs = <<>>
    /\ place = [w \in Workers |-> "idle"]
    /\ at = [w \in Workers |-> 0]
    /\ cause = [w \in Workers |-> 0]
    /\ asked = [w \in Workers |-> 0]
    /\ status = [w \in Workers |-> "running"]
    /\ executed = [i \in Steps |-> 0]
    /\ done = [i \in Steps |-> 0]
    /\ resumes = 0
    /\ deaths = 0

Enter(w, label) == place' = [place EXCEPT ![w] = label]
Report(w, st) == status' = [status EXCEPT ![w] = st]

\* The runner has returned or raised: nothing of it is left.
Leave(w) ==
    /\ Enter(w, "idle")
    /\ at' = [at EXCEPT ![w] = 0]
    /\ cause' = [cause EXCEPT ![w] = 0]
    /\ asked' = [asked EXCEPT ![w] = 0]
    /\ Report(w, "running")

-----------------------------------------------------------------------------
(* run.                                                                    *)

CreateRun(w) ==
    /\ place[w] = "idle"
    /\ run.status = "absent"
    /\ run' = PendingRow(MaxAttempts)
    /\ Enter(w, "claim")
    /\ UNCHANGED <<approvals, logs, at, cause, asked, status, history>>

\* Console: retry, and the same request runs the skill again on the same run,
\* when the skill is still installed.
RetryRun(w) ==
    /\ place[w] = "idle"
    /\ Retriable(run)
    /\ run' = Retried(run)
    /\ Enter(w, "claim") \/ UNCHANGED place
    /\ UNCHANGED <<approvals, logs, at, cause, asked, status, history>>

ClaimSkill(w) ==
    /\ place[w] = "claim"
    /\ \/ /\ Claimable(run)
          /\ run.attempts < StartBound
          /\ run' = Claimed(run, w)
          /\ Enter(w, "preflight")
          /\ UNCHANGED <<at, cause, asked, status>>
       \/ /\ ~Claimable(run)
          /\ Leave(w)
          /\ UNCHANGED run
    /\ UNCHANGED <<approvals, logs, history>>

\* Policy or version forbids a step: the run is finished, then the error raised.
PreflightFails(w) ==
    /\ place[w] = "preflight"
    /\ Report(w, "failed")
    /\ Enter(w, "finish")
    /\ UNCHANGED <<tables, at, cause, asked, history>>

PreflightPasses(w) ==
    /\ place[w] = "preflight"
    /\ at' = [at EXCEPT ![w] = 1]
    /\ Enter(w, "steps")
    /\ UNCHANGED <<tables, cause, asked, status, history>>

-----------------------------------------------------------------------------
(* The steps, in run and in resume.                                        *)

AtStep(w, kind) ==
    /\ place[w] = "steps"
    /\ at[w] \in Steps
    /\ Manifest[at[w]].kind = kind

NextStep(w) ==
    /\ at' = [at EXCEPT ![w] = @ + 1]
    /\ UNCHANGED <<place, cause, asked, status>>

\* Mutant of Fail: a step that fails is passed over.
FailPassing(w) == NextStep(w)

\* A step that fails for good: skip goes on, stop and rollback end the run.
Fail(w) ==
    LET policy == Manifest[at[w]].onError IN
    \/ policy = "skip" /\ NextStep(w)
    \/ /\ policy # "skip"
       /\ Report(w, IF policy = "stop" THEN "failed" ELSE "rolled_back")
       /\ Enter(w, "finish")
       /\ UNCHANGED <<at, cause, asked>>

\* A transform, a condition, a model call, or a governed capability.
DoWork(w) ==
    /\ AtStep(w, "work")
    /\ executed' = [executed EXCEPT ![at[w]] = @ + 1]
    /\ \/ NextStep(w) /\ done' = [done EXCEPT ![at[w]] = @ + 1]
       \/ Fail(w) /\ UNCHANGED done
    /\ UNCHANGED <<tables, resumes, deaths>>

\* The record is made and run pauses; resume makes one, too, and goes on.
AskApproval(w) ==
    /\ AtStep(w, "approval")
    /\ Len(approvals) < PauseBound
    /\ approvals' = Append(approvals, [step |-> at[w], decision |-> "pending"])
    /\ \/ /\ cause[w] = 0
          /\ asked' = [asked EXCEPT ![w] = Len(approvals')]
          /\ Enter(w, "persist")
          /\ UNCHANGED <<at, cause, status>>
       \/ cause[w] # 0 /\ NextStep(w)
    /\ UNCHANGED <<run, logs, history>>

\* The record could not be made, or was made and the step was late.
AskFails(w) ==
    /\ AtStep(w, "approval")
    /\ Fail(w)
    /\ \/ UNCHANGED approvals
       \/ /\ Len(approvals) < PauseBound
          /\ approvals' = Append(approvals, [step |-> at[w], decision |-> "pending"])
    /\ UNCHANGED <<run, logs, history>>

\* max_budget_cost of the step is less than the steps before it have cost:
\* the run ends whatever onError says.
BudgetExhausted(w) ==
    /\ place[w] = "steps"
    /\ at[w] \in Steps
    /\ Report(w, "failed")
    /\ Enter(w, "finish")
    /\ UNCHANGED <<tables, at, cause, asked, history>>

\* Mutant of PersistPause: the run is paused before its log row is there.
PausePersistLater(w) ==
    /\ place[w] = "persist"
    /\ run' = IF Pausable(run) THEN Paused(run) ELSE run
    /\ Leave(w)
    /\ UNCHANGED <<approvals, logs, history>>

\* _persist_run_log, with the resume data.
PersistPause(w) ==
    /\ place[w] = "persist"
    /\ logs' = Append(logs, [step |-> at[w], approval |-> asked[w]])
    /\ Enter(w, "pause")
    /\ UNCHANGED <<run, approvals, at, cause, asked, status, history>>

Pause(w) ==
    /\ place[w] = "pause"
    /\ run' = IF Pausable(run) THEN Paused(run) ELSE run
    /\ Leave(w)
    /\ UNCHANGED <<approvals, logs, history>>

StepsEnd(w) ==
    /\ place[w] = "steps"
    /\ at[w] \notin Steps
    /\ Report(w, "completed")
    /\ Enter(w, "finish")
    /\ UNCHANGED <<tables, at, cause, asked, history>>

\* _finish_durable_run; a run that is final already keeps its outcome.
SkillOutcome(st) == CASE st = "completed" -> "succeeded"
                 [] st = "rejected"  -> "cancelled"
                 [] OTHER            -> "failed"

FinishSkill(w) ==
    /\ place[w] = "finish"
    /\ run' = IF Finishable(run) THEN Finished(run, SkillOutcome(status[w])) ELSE run
    /\ Leave(w)
    /\ UNCHANGED <<approvals, logs, history>>

-----------------------------------------------------------------------------
(* resume, and the user.                                                   *)

\* Mutant of Approved: any decision will do.
ApprovedAny(a) == approvals[a].decision # "pending"

\* Only the word approved is an approval; no decision yet is a rejection.
Approved(a) == approvals[a].decision = "approved"

\* The log row still says pending_approval, whatever became of the run.
Resume(w, l) ==
    /\ place[w] = "idle"
    /\ cause' = [cause EXCEPT ![w] = l]
    /\ \/ /\ Approved(logs[l].approval)
          /\ Enter(w, "resume")
          /\ UNCHANGED status
       \/ /\ ~Approved(logs[l].approval)
          /\ Report(w, "rejected")
          /\ Enter(w, "finish")
    /\ UNCHANGED <<tables, at, asked, history>>

ResumeRun(w) ==
    /\ place[w] = "resume"
    /\ \/ /\ Resumable(run)
          /\ run.attempts < StartBound
          /\ run' = Resumed(run, w)
          /\ resumes' = resumes + 1
          /\ at' = [at EXCEPT ![w] = logs[cause[w]].step + 1]
          /\ Enter(w, "steps")
          /\ UNCHANGED <<cause, asked, status>>
       \/ /\ ~Resumable(run)
          /\ Leave(w)
          /\ UNCHANGED <<run, resumes>>
    /\ UNCHANGED <<approvals, logs, executed, done, deaths>>

\* ApprovalRepository.resolve, from the Console, the command line or the API,
\* which also takes allow and approve for an approval.
Decide(a, decision) ==
    /\ approvals[a].decision = "pending"
    /\ approvals' = [approvals EXCEPT ![a].decision = decision]
    /\ UNCHANGED <<run, logs, runnerVars, history>>

CancelSkill ==
    /\ Cancellable(run)
    /\ run' = Cancelled(run)
    /\ UNCHANGED <<approvals, logs, runnerVars, history>>

\* The process dies, or an exception that nobody catches ends it.
RunnerDies(w) ==
    /\ place[w] # "idle"
    /\ deaths < CrashBound
    /\ deaths' = deaths + 1
    /\ Leave(w)
    /\ UNCHANGED <<tables, executed, done, resumes>>

-----------------------------------------------------------------------------

RunnerStep(w) ==
    \/ CreateRun(w) \/ RetryRun(w) \/ ClaimSkill(w)
    \/ PreflightFails(w) \/ PreflightPasses(w)
    \/ DoWork(w) \/ AskApproval(w) \/ AskFails(w) \/ BudgetExhausted(w)
    \/ PersistPause(w) \/ Pause(w) \/ StepsEnd(w) \/ FinishSkill(w)
    \/ \E l \in DOMAIN logs : Resume(w, l)
    \/ ResumeRun(w)
    \/ RunnerDies(w)

Decisions == {"approved", "allow", "rejected"}

SkillNext ==
    \/ \E w \in Workers : RunnerStep(w)
    \/ \E a \in DOMAIN approvals, d \in Decisions : Decide(a, d)
    \/ CancelSkill

SkillSpec == SkillInit /\ [][SkillNext]_skillVars

-----------------------------------------------------------------------------
(* Properties.                                                             *)

(* Every variable has its type.                                            *)
SkillTypeOK ==
    /\ run \in Row
    /\ approvals \in Seq([step : Steps, decision : Decisions \cup {"pending"}])
    /\ logs \in Seq([step : Steps, approval : DOMAIN approvals])
    /\ place \in [Workers -> {"idle", "claim", "preflight", "steps", "persist",
                           "pause", "resume", "finish"}]
    /\ at \in [Workers -> 0..(Len(Manifest) + 1)]
    /\ cause \in [Workers -> DOMAIN logs \cup {0}]
    /\ asked \in [Workers -> DOMAIN approvals \cup {0}]
    /\ status \in [Workers -> {"running", "completed", "failed", "rolled_back",
                               "rejected"}]
    /\ executed \in [Steps -> Nat] /\ done \in [Steps -> Nat]
    /\ resumes \in Nat /\ deaths \in Nat

Gates == {i \in Steps : Manifest[i].kind = "approval"}
\* A gate with onError = skip is passed when its record cannot be made.
FirstGate(i) ==
    /\ i \in Gates /\ \A g \in Gates : i <= g
    /\ Manifest[i].onError # "skip"
ApprovalsOf(i) ==
    {a \in DOMAIN approvals : approvals[a] = [step |-> i, decision |-> "approved"]}

(* Nothing behind the first approval step is executed by a runner that     *)
(* does not hold an approval of that step, with the run cancelled, retried *)
(* and resumed from old and new log rows in any order.                     *)
FirstGateRespected ==
    \A g \in Steps : FirstGate(g) =>
        /\ \A i \in Steps : i > g /\ executed[i] > 0 => ApprovalsOf(g) # {}
        /\ \A w \in Workers : place[w] = "steps" /\ at[w] > g =>
              cause[w] # 0 /\ logs[cause[w]].approval \in ApprovalsOf(g)

(* Each step runs at most once for each time the run was started or gone   *)
(* on with: steps before the first approval once per claim, steps behind   *)
(* it once per resumption that the store granted, although several         *)
(* processes may resume the same log row, and zombies of cancelled runs    *)
(* are still at work.                                                      *)
StepsCharged ==
    \A g \in Steps : FirstGate(g) =>
        \A i \in Steps :
            /\ i < g => executed[i] <= run.attempts - resumes
            /\ i > g => executed[i] <= resumes

(* A run that waits for an approval can be gone on with, after a crash of  *)
(* the runner in the midst of its pause, too: a log row with its resume    *)
(* data and the record to decide are there before the run waits.           *)
WaitingCanResume ==
    run.status = "waiting_approval" => logs # <<>>

(* A run is recorded as succeeded only when each of its steps has ended    *)
(* well once, or may be skipped when it fails.                             *)
SuccessIsEarned ==
    run.status = "succeeded" =>
        \A i \in Steps :
            \/ Manifest[i].onError = "skip"
            \/ Manifest[i].kind = "work" /\ done[i] > 0
            \/ i \in Gates /\ \E a \in DOMAIN approvals : approvals[a].step = i

(* While no runner has died, a run that is recorded as running has one     *)
(* that will finish or pause it: no error path leaves it behind, which     *)
(* matters because no sweep looks at runs of skills.                       *)
RunningHasRunner ==
    (deaths = 0 /\ run.status = "running") =>
        \E w \in Workers : place[w] # "idle" /\ run.claimedBy = w

=============================================================================
