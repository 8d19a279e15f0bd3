------------------------------ MODULE MCDrift -------------------------------
(***************************************************************************)
(* DriftRuntime whole: in each process the tick thread and the consumer    *)
(* thread, started and lost together.                                      *)
(***************************************************************************)
EXTENDS DriftTick, TLC

CONSTANTS Loops, TaskBound, max_tasks

VARIABLES tasks, consumer

INSTANCE DriftQueue WITH Consumers <- Workers

ASSUME DriftAssumption == QueueAssumption

vars == <<tickVars, tasks, consumer>>

Init == TickInit /\ QueueInit

(* start: the expired runs, then the consumer, then the tick thread.       *)
Run(w) == Started(w) /\ ConsumerStart(w)

Crash(w) ==
    /\ TickCrash(w)
    /\ IF Is(w, "off") THEN UNCHANGED <<tasks, consumer>> ELSE ConsumerCrash(w)

Ticks ==
    /\ bound.ticks
    /\ UNCHANGED <<tasks, consumer>>
    /\ \/ \E w \in Workers : TickStep(w)
       \/ UserStep
       \/ \E r \in Runs : ExpireLease(r)

Starts == \E w \in Workers : Start(w) /\ UNCHANGED <<tasks, consumer>>

LoopStart(a) == bound.tasks > 0 /\ ConsumerStart(a) /\ UNCHANGED tickVars

LoopCrash(a) == ElsewhereFails /\ ConsumerCrash(a)

Gives(w) == ElsewhereFails /\ CycleFails(w)

Queued ==
    /\ UNCHANGED tickVars
    /\ \E t \in 1..bound.tasks : Enqueue(t) \/ Age(t)

Take(p) == bound.tasks > 0 /\ QueueStep(p) /\ UNCHANGED tickVars

Next ==
    \/ Ticks \/ Starts \/ Queued
    \/ \E w \in Workers : Run(w) \/ Crash(w) \/ Gives(w)
    \/ \E a \in Loops : LoopStart(a) \/ LoopCrash(a)
    \/ \E p \in Takers : Take(p)

Spec == Init /\ [][Next]_vars

(* A process that stopped is started again, its threads go on, time passes *)
(* and a turn ends.  Nothing here assumes that ticks succeed.              *)
Fairness ==
    /\ \A w \in Workers :
        /\ WF_vars(Start(w) /\ UNCHANGED <<tasks, consumer>>)
        /\ WF_vars(Run(w)) /\ WF_vars(Take(w))
        /\ WF_vars(UNCHANGED <<tasks, consumer>> /\ Recover(w))
        /\ WF_vars(UNCHANGED <<tasks, consumer>> /\ RetryRecovered(w))
    /\ \A t \in Tasks : WF_vars(UNCHANGED tickVars /\ Age(t))

FairSpec == Spec /\ Fairness

-----------------------------------------------------------------------------

CONSTANTS p1, p2, api

MCSkills == <<"memory_consolidation", "trace_review">>

\* Ticks with a crash or a write that raises; ticks and the user; one task with
\* a crash or a write that raises; two tasks.
MCBounds ==
    { [incidents |-> 1, requests |-> 0, ticks |-> TRUE, tasks |-> 0],
      [incidents |-> 0, requests |-> 1, ticks |-> TRUE, tasks |-> 0],
      [incidents |-> 1, requests |-> 0, ticks |-> FALSE, tasks |-> 1],
      [incidents |-> 0, requests |-> 0, ticks |-> FALSE, tasks |-> 2] }
=============================================================================
