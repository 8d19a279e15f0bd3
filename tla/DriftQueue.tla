----------------------------- MODULE DriftQueue -----------------------------
(***************************************************************************)
(* runtime/drift.py, DriftTaskQueue and DriftConsumer: tasks in the table  *)
(* input_queue, polled by one consumer thread per process.  Every status   *)
(* is written without a look at the present one.  An AgentLoop that starts *)
(* over the same database recovers rows of every task_type, so it takes    *)
(* drift tasks too.  A step is one statement and its commit.               *)
(***************************************************************************)
EXTENDS FiniteSets, Naturals

CONSTANTS
    Consumers,      \* processes with a DriftConsumer
    Loops,          \* processes with an AgentLoop
    TaskBound,      \* bound: tasks that may be enqueued
    max_tasks       \* max_tasks_per_cycle

\* What a module that composes the queue assumes.
QueueAssumption ==
    /\ Consumers \cap Loops = {} /\ max_tasks \in Nat \ {0} /\ TaskBound \in Nat

VARIABLES
    tasks,      \* input_queue, its drift tasks: status and age of started_at
    consumer    \* what each consumer is at

queueVars == <<tasks, consumer>>

Tasks == 1..TaskBound       \* in the order of their INSERTs

Takers == Consumers \cup Loops

NotQueued == [status |-> "absent", started |-> "null"]

Gone == [at |-> "off", reset |-> {}, rows |-> {}, task |-> {}]

Is(p, s) == consumer[p].at = s

Move(p, state) == consumer' = [consumer EXCEPT ![p] = state]

SetStatus(t, status) == tasks' = [tasks EXCEPT ![t].status = status]

(* enqueue *)
Enqueue(t) ==
    /\ tasks[t].status = "absent"
    /\ \A q \in 1..(t - 1) : tasks[q].status # "absent"
    /\ SetStatus(t, "pending")
    /\ UNCHANGED consumer

Pending == {t \in Tasks : tasks[t].status = "pending"}

\* Mutant of Stale: what has been started long ago, of those waiting again.
StaleWaiting == {t \in Tasks : tasks[t].status = "pending" /\ tasks[t].started = "old"}

\* processing, and started_at more than 300 s ago
Stale == {t \in Tasks : tasks[t].status = "processing" /\ tasks[t].started = "old"}

\* ORDER BY created_at ASC LIMIT max_tasks
Oldest(rows) == {t \in rows : Cardinality({q \in rows : q < t}) < max_tasks}

(* claim_pending: the pending rows, or when there are none the stale ones  *)
(* among the oldest in processing, which are set back first.               *)
ClaimPending(p) ==
    /\ Is(p, "poll")
    /\ LET stale == Stale \cap Oldest({t \in Tasks : tasks[t].status = "processing"})
       IN IF Pending # {}
          THEN Move(p, [Gone EXCEPT !.at = "take", !.rows = Oldest(Pending)])
          ELSE /\ stale # {}
               /\ Move(p, [Gone EXCEPT !.at = "take", !.reset = stale, !.rows = stale])
    /\ UNCHANGED tasks

(* recover_pending, once, at the start of an AgentLoop.                    *)
RecoverPending(a) ==
    /\ Is(a, "recover")
    /\ Move(a, [Gone EXCEPT !.at = "take", !.reset = Stale, !.rows = Pending \cup Stale])
    /\ UNCHANGED tasks

\* The rows are set back one by one, whatever became of them since.
SetBack(p) ==
    /\ Is(p, "take")
    /\ \E t \in consumer[p].reset :
        /\ tasks' = [tasks EXCEPT ![t] =
              [status |-> "pending", started |-> IF p \in Loops THEN "null" ELSE @.started]]
        /\ Move(p, [consumer[p] EXCEPT !.reset = @ \ {t}])

(* mark_processing, and the turn: a consumer has one at a time, an         *)
(* AgentLoop a task for each row.                                          *)
MarkProcessing(p) ==
    /\ Is(p, "take") /\ consumer[p].reset = {}
    /\ p \in Loops \/ consumer[p].task = {}
    /\ \E t \in consumer[p].rows :
        /\ tasks' = [tasks EXCEPT ![t] = [status |-> "processing", started |-> "new"]]
        /\ Move(p, [consumer[p] EXCEPT !.rows = @ \ {t}, !.task = @ \cup {t}])

(* mark_done or mark_failed, after the turn.                               *)
Settle(p) ==
    /\ Is(p, "take")
    /\ \E t \in consumer[p].task, status \in {"done", "failed"} :
        /\ SetStatus(t, status)
        /\ Move(p, [consumer[p] EXCEPT !.task = @ \ {t}])

(* The cycle is over: a consumer polls again, a loop has no more of them.  *)
EndOfCycle(p) ==
    /\ Is(p, "take")
    /\ consumer[p].rows = {} /\ consumer[p].task = {} /\ consumer[p].reset = {}
    /\ Move(p, [Gone EXCEPT !.at = IF p \in Loops THEN "serving" ELSE "poll"])
    /\ UNCHANGED tasks

(* A write raises: the consumer gives the cycle up and polls again.        *)
CycleFails(p) ==
    /\ p \in Consumers /\ Is(p, "take")
    /\ Move(p, [Gone EXCEPT !.at = "poll"])
    /\ UNCHANGED tasks

Age(t) ==
    /\ tasks[t].started = "new"
    /\ tasks' = [tasks EXCEPT ![t].started = "old"]
    /\ UNCHANGED consumer

ConsumerStart(p) ==
    /\ Is(p, "off")
    /\ Move(p, [Gone EXCEPT !.at = IF p \in Loops THEN "recover" ELSE "poll"])
    /\ UNCHANGED tasks

ConsumerCrash(p) ==
    /\ ~Is(p, "off")
    /\ Move(p, Gone)
    /\ UNCHANGED tasks

QueueInit ==
    /\ tasks = [t \in Tasks |-> NotQueued]
    /\ consumer = [p \in Takers |-> Gone]

QueueStep(p) ==
    \/ ClaimPending(p) \/ RecoverPending(p) \/ SetBack(p) \/ MarkProcessing(p)
    \/ Settle(p) \/ EndOfCycle(p)

-----------------------------------------------------------------------------
Settled(t) == tasks[t].status \in {"done", "failed"}

(* A task that waits, or that a dead or slow consumer left in processing,  *)
(* is settled in the end, although consumers give up cycles, die with rows *)
(* they took and take each other's rows.                                   *)
TaskSettles ==
    \A t \in Tasks : tasks[t].status \in {"pending", "processing"} ~> Settled(t)
=============================================================================
