---------------------------- MODULE MCScheduler ----------------------------
(* Instances of Scheduler for TLC.                                         *)
EXTENDS Scheduler, TLC

CONSTANT j1

\* An interval job that may be tried twice per round.
MCRetryingInterval ==
    (j1 :> [interval |-> TRUE, dryRun |-> FALSE, maxRetries |-> 1,
            runAt |-> Never])

\* A job that runs once.
MCOneShot ==
    (j1 :> [interval |-> FALSE, dryRun |-> FALSE, maxRetries |-> 0,
            runAt |-> 0])

\* Engines are alike.
EngineSymmetry == Permutations(Engines)
=============================================================================
