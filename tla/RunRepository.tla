--------------------------- MODULE RunRepository ---------------------------
(***************************************************************************)
(* The row of the table `runs' and what each statement of                  *)
(* runs/repository.py does to it.  Every method there is one conditional   *)
(* UPDATE (its guard is the WHERE clause, and rowcount = 1 says whether it *)
(* held) followed by an append_event in a transaction of its own.  This    *)
(* module has the UPDATEs: for each a guard and the row it leaves.  The    *)
(* modules that use the repository decide who issues them and when.        *)
(***************************************************************************)
EXTENDS Naturals

CONSTANTS
    Workers,    \* worker identities: "scheduler:<pid>", "drift:<uuid>", ...
    NoWorker    \* claimed_by IS NULL

ASSUME NoWorkerAssumption == NoWorker \notin Workers

TERMINAL_STATUSES == {"succeeded", "failed", "cancelled", "abandoned"}

\* "absent" stands for a run that has not been inserted yet.
Status ==
    TERMINAL_STATUSES \cup {"absent", "pending", "running", "waiting_approval"}

\* lease_expires_at: NULL, in the future, or in the past.
Lease == {"none", "live", "expired"}

Row == [status      : Status,
        claimedBy   : Workers \cup {NoWorker},
        lease       : Lease,
        attempts    : Nat,
        maxAttempts : Nat]

AbsentRow ==
    [status |-> "absent", claimedBy |-> NoWorker, lease |-> "none",
     attempts |-> 0, maxAttempts |-> 0]

-----------------------------------------------------------------------------
(* create: INSERT ... 'pending'.                                           *)
PendingRow(max) ==
    [AbsentRow EXCEPT !.status = "pending", !.maxAttempts = max]

(* claim: pending or abandoned, and attempts left.                         *)
\* Mutants of Claimable: one attempt too many; a run that is being executed.
ClaimableOnceMore(row) ==
    /\ row.status \in {"pending", "abandoned"}
    /\ row.attempts <= row.maxAttempts

ClaimableRunning(row) ==
    /\ row.status \in {"pending", "abandoned", "running"}
    /\ row.attempts < row.maxAttempts

Claimable(row) ==
    /\ row.status \in {"pending", "abandoned"}
    /\ row.attempts < row.maxAttempts

Claimed(row, w) ==
    [row EXCEPT !.status = "running", !.claimedBy = w, !.lease = "live",
                !.attempts = @ + 1]

(* heartbeat: renews the lease of the worker that holds the claim.         *)
Beatable(row, w) ==
    /\ row.status = "running"
    /\ row.claimedBy = w

Beaten(row) == [row EXCEPT !.lease = "live"]

(* pause_for_approval: whoever asks, claimed_by is not compared.           *)
Pausable(row) == row.status = "running"

Paused(row) == [row EXCEPT !.status = "waiting_approval", !.lease = "none"]

(* resume_waiting: a new attempt that max_attempts does not limit.         *)
Resumable(row) == row.status = "waiting_approval"

Resumed(row, w) ==
    [row EXCEPT !.status = "running", !.claimedBy = w, !.lease = "live",
                !.attempts = @ + 1]

(* finish: whoever asks, from every status that is not final.              *)
Finishable(row) ==
    row.status \in {"running", "pending", "abandoned", "waiting_approval"}

Finished(row, st) == [row EXCEPT !.status = st, !.lease = "none"]

(* cancel: an abandoned run can still be cancelled.                        *)
Cancellable(row) ==
    row.status \notin {"absent", "succeeded", "failed", "cancelled"}

Cancelled(row) == [row EXCEPT !.status = "cancelled", !.lease = "none"]

(* retry: back to pending, with one more attempt if none was left.         *)
Retriable(row) == row.status \in {"failed", "cancelled", "abandoned"}

Retried(row) ==
    [row EXCEPT !.status = "pending", !.claimedBy = NoWorker, !.lease = "none",
                !.maxAttempts = IF @ <= row.attempts THEN row.attempts + 1
                                ELSE @]

(* abandon_expired: the SELECT, and the UPDATE that follows it with only   *)
(* the status checked again.                                               *)
\* Mutant of LeaseOver: only what could be claimed again.
LeaseOverClaimable(row) ==
    /\ row.status = "running"
    /\ row.lease = "expired"
    /\ row.attempts < row.maxAttempts

LeaseOver(row) == row.status = "running" /\ row.lease = "expired"

Abandonable(row) == row.status = "running"

Abandoned(row) == [row EXCEPT !.status = "abandoned", !.lease = "none"]
=============================================================================
