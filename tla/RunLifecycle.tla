---------------------------- MODULE RunLifecycle ----------------------------
(***************************************************************************)
(* What the durable-run store promises to the scheduler, to Drift, to the  *)
(* skill runner and to the Console: the life of a run, with no leases,     *)
(* workers, recovery sweeps or event log.  A grant is the right to execute *)
(* the run once; grants are counted and are only given to a run nobody is  *)
(* executing with the store's permission.  Succeeded is for ever; a failed *)
(* or cancelled run moves again only by being requeued.                    *)
(***************************************************************************)
EXTENDS Naturals

CONSTANT Runs

VARIABLES
    status,     \* status[r]: the phase of run r
    grants      \* grants[r]: how many times execution of r was granted

lifecycleVars == <<status, grants>>

Init ==
    /\ status = [r \in Runs |-> "absent"]
    /\ grants = [r \in Runs |-> 0]

Move(r, from, to) ==
    /\ status[r] \in from
    /\ status' = [status EXCEPT ![r] = to]
    /\ UNCHANGED grants

Submit(r) == Move(r, {"absent"}, "pending")

Grant(r) ==
    /\ status[r] \in {"pending", "abandoned", "waiting_approval"}
    /\ status' = [status EXCEPT ![r] = "running"]
    /\ grants' = [grants EXCEPT ![r] = @ + 1]

Suspend(r) == Move(r, {"running"}, "waiting_approval")

Settle(r, outcome) ==
    Move(r, {"running", "pending", "abandoned", "waiting_approval"}, outcome)

Requeue(r) == Move(r, {"failed", "cancelled", "abandoned"}, "pending")

\* One recovery sweep gives up every run of S at once.
GiveUp(S) ==
    /\ \A r \in S : status[r] = "running"
    /\ status' = [r \in Runs |-> IF r \in S THEN "abandoned" ELSE status[r]]
    /\ UNCHANGED grants

Next ==
    \/ \E r \in Runs : Submit(r) \/ Grant(r) \/ Suspend(r) \/ Requeue(r)
    \/ \E r \in Runs, o \in {"succeeded", "failed", "cancelled"} : Settle(r, o)
    \/ \E S \in SUBSET Runs : GiveUp(S)

Spec == Init /\ [][Next]_lifecycleVars
=============================================================================
