------------------------ MODULE RunRepositoryProofs ------------------------
(***************************************************************************)
(* What each UPDATE of the run table makes of a row, field by field.  The  *)
(* proofs about the modules that use the table cite these facts and never  *)
(* expand the rows.                                                        *)
(***************************************************************************)
EXTENDS RunRepository, TLAPS

(* A row is well formed when its lease, name and counters agree with its   *)
(* status: what every statement of the repository preserves.               *)
WellFormed(row) ==
    /\ row \in Row
    /\ row.lease # "none" <=> row.status = "running"
    /\ row.status = "running" => row.claimedBy \in Workers
    /\ row.status = "absent" => row.attempts = 0 /\ row.maxAttempts = 0

(* The row of a run that is not there yet is well formed.                  *)
LEMMA AbsentFacts == WellFormed(AbsentRow) /\ AbsentRow.status = "absent"
                     /\ AbsentRow.attempts = 0 /\ AbsentRow.maxAttempts = 0
BY DEF AbsentRow, WellFormed, Row, Status, Lease, TERMINAL_STATUSES

(* create inserts a well-formed pending row with no attempt used.          *)
LEMMA PendingFacts ==
    ASSUME NEW max \in Nat
    PROVE  /\ WellFormed(PendingRow(max))
           /\ PendingRow(max).status = "pending"
           /\ PendingRow(max).attempts = 0
           /\ PendingRow(max).maxAttempts = max
BY DEF PendingRow, AbsentRow, WellFormed, Row, Status, Lease, TERMINAL_STATUSES

(* claim starts the next attempt in the name of the worker.                *)
LEMMA ClaimedFacts ==
    ASSUME NEW row, WellFormed(row), NEW w \in Workers
    PROVE  /\ WellFormed(Claimed(row, w))
           /\ Claimed(row, w).status = "running"
           /\ Claimed(row, w).claimedBy = w
           /\ Claimed(row, w).attempts = row.attempts + 1
           /\ Claimed(row, w).maxAttempts = row.maxAttempts
<1>1. row.attempts \in Nat /\ row.attempts + 1 \in Nat
  BY DEF WellFormed, Row
<1>2. /\ Claimed(row, w).status = "running"
      /\ Claimed(row, w).claimedBy = w
      /\ Claimed(row, w).lease = "live"
      /\ Claimed(row, w).attempts = row.attempts + 1
      /\ Claimed(row, w).maxAttempts = row.maxAttempts
  BY DEF Claimed, WellFormed, Row
<1>3. Claimed(row, w) \in Row
  <2> DEFINE next == row.attempts + 1
  <2>1. [row EXCEPT !.status = "running", !.claimedBy = w, !.lease = "live",
                    !.attempts = next] \in Row
    <3> HIDE DEF next
    <3> next \in Nat
      BY <1>1 DEF next
    <3> QED
      BY DEF WellFormed, Row, Status, Lease
  <2> QED
    BY <2>1 DEF Claimed
<1> QED
  BY <1>2, <1>3 DEF WellFormed

(* resume_waiting leaves the same row as claim.                            *)
LEMMA ResumedFacts ==
    ASSUME NEW row, WellFormed(row), NEW w \in Workers
    PROVE  /\ WellFormed(Resumed(row, w))
           /\ Resumed(row, w).status = "running"
           /\ Resumed(row, w).claimedBy = w
           /\ Resumed(row, w).attempts = row.attempts + 1
           /\ Resumed(row, w).maxAttempts = row.maxAttempts
<1>1. row.attempts \in Nat /\ row.attempts + 1 \in Nat
  BY DEF WellFormed, Row
<1>2. /\ Resumed(row, w).status = "running"
      /\ Resumed(row, w).claimedBy = w
      /\ Resumed(row, w).lease = "live"
      /\ Resumed(row, w).attempts = row.attempts + 1
      /\ Resumed(row, w).maxAttempts = row.maxAttempts
  BY DEF Resumed, WellFormed, Row
<1>3. Resumed(row, w) \in Row
  <2> DEFINE next == row.attempts + 1
  <2>1. [row EXCEPT !.status = "running", !.claimedBy = w, !.lease = "live",
                    !.attempts = next] \in Row
    <3> HIDE DEF next
    <3> next \in Nat
      BY <1>1 DEF next
    <3> QED
      BY DEF WellFormed, Row, Status, Lease
  <2> QED
    BY <2>1 DEF Resumed
<1> QED
  BY <1>2, <1>3 DEF WellFormed

(* heartbeat and the passing of time move the lease of a running row only. *)
LEMMA LeaseFacts ==
    ASSUME NEW row, WellFormed(row), row.status = "running",
           NEW l \in Lease \ {"none"}
    PROVE  LET new == [row EXCEPT !.lease = l] IN
           /\ WellFormed(new)
           /\ new.status = row.status
           /\ new.claimedBy = row.claimedBy
           /\ new.attempts = row.attempts
           /\ new.maxAttempts = row.maxAttempts
BY DEF WellFormed, Row, Status, Lease

(* pause, finish, cancel and abandon are one kind of update: another       *)
(* status than running, no lease, all else as it was.                      *)
LEMMA ReleasedFacts ==
    ASSUME NEW row, WellFormed(row),
           NEW st \in Status \ {"running", "absent"}
    PROVE  LET new == [row EXCEPT !.status = st, !.lease = "none"] IN
           /\ WellFormed(new)
           /\ new.status = st
           /\ new.claimedBy = row.claimedBy
           /\ new.attempts = row.attempts
           /\ new.maxAttempts = row.maxAttempts
BY DEF WellFormed, Row, Status, Lease

(* The same for each call by its name.                                     *)
LEMMA LeavingFacts ==
    ASSUME NEW row, WellFormed(row), NEW st \in Status \ {"running", "absent"}
    PROVE  /\ WellFormed(Paused(row)) /\ Paused(row).status = "waiting_approval"
           /\ WellFormed(Finished(row, st)) /\ Finished(row, st).status = st
           /\ WellFormed(Cancelled(row)) /\ Cancelled(row).status = "cancelled"
           /\ WellFormed(Abandoned(row)) /\ Abandoned(row).status = "abandoned"
<1>1. {"waiting_approval", "cancelled", "abandoned"} \subseteq Status \ {"running", "absent"}
  BY DEF Status, TERMINAL_STATUSES
<1>2. WellFormed(Paused(row)) /\ Paused(row).status = "waiting_approval"
  BY <1>1, ReleasedFacts DEF Paused
<1>3. WellFormed(Finished(row, st)) /\ Finished(row, st).status = st
  BY ReleasedFacts DEF Finished
<1>4. WellFormed(Cancelled(row)) /\ Cancelled(row).status = "cancelled"
  BY <1>1, ReleasedFacts DEF Cancelled
<1>5. WellFormed(Abandoned(row)) /\ Abandoned(row).status = "abandoned"
  BY <1>1, ReleasedFacts DEF Abandoned
<1> QED BY <1>2, <1>3, <1>4, <1>5

(* retry leaves a pending row nobody is named on, with an attempt left.    *)
LEMMA RetriedFacts ==
    ASSUME NEW row, WellFormed(row)
    PROVE  /\ WellFormed(Retried(row))
           /\ Retried(row).status = "pending"
           /\ Retried(row).attempts = row.attempts
           /\ Retried(row).maxAttempts >= row.maxAttempts
           /\ Claimable(Retried(row))
<1>1. Retried(row) \in Row
  <2> DEFINE max == IF row.maxAttempts <= row.attempts THEN row.attempts + 1
                    ELSE row.maxAttempts
  <2>1. max \in Nat
    BY DEF WellFormed, Row
  <2>2. [row EXCEPT !.status = "pending", !.claimedBy = NoWorker,
                    !.lease = "none", !.maxAttempts = max] \in Row
    <3> HIDE DEF max
    <3> QED
      BY <2>1 DEF WellFormed, Row, Status, Lease
  <2> QED
    BY <2>2 DEF Retried
<1>2. /\ Retried(row).status = "pending"
      /\ Retried(row).lease = "none"
      /\ Retried(row).attempts = row.attempts
      /\ Retried(row).maxAttempts = IF row.maxAttempts <= row.attempts
                                    THEN row.attempts + 1 ELSE row.maxAttempts
  BY DEF Retried, WellFormed, Row
<1>3. row.attempts \in Nat /\ row.maxAttempts \in Nat
  BY DEF WellFormed, Row
<1> QED
  BY <1>1, <1>2, <1>3 DEF WellFormed, Claimable
=============================================================================
