---------------------------- MODULE InboundQueue ----------------------------
(***************************************************************************)
(* The path of a chat message through MessageQueue, AgentLoop and the      *)
(* table input_queue: POST /chat inserts a row, puts the message in the    *)
(* memory queue and awaits a future; the loop takes messages in order and  *)
(* gives each a task of its own; a task marks its row, runs the turn in a  *)
(* thread, marks the row again and resolves the future.                    *)
(*                                                                         *)
(* Two halves that must agree: the rows survive the process, the queue,    *)
(* the tasks and the futures die with it.  The process may die between any *)
(* two commits; a shutdown looks the same, since it cancels the tasks at   *)
(* their await and nothing is marked.  A start recovers from the rows.     *)
(***************************************************************************)
EXTENDS Naturals, Sequences, SequencesExt

CONSTANTS
    Messages,       \* queue ids
    DeathBound,     \* bound: process deaths in a behaviour
    FaultBound      \* bound: database errors in a behaviour

ASSUME QueueBounds == {DeathBound, FaultBound} \subseteq Nat

VARIABLES
    rows,       \* the table input_queue; stale: started_at is 300 s old
    process,    \* the API process: "down", "recovering" or "up"
    found,      \* the rows recover_pending has selected
    queue,      \* asyncio.Queue
    task,       \* task[m]: where the _process task of m is
    caller,     \* caller[m]: what publish_and_wait has told its caller
    deaths,    \* history: process deaths so far
    faults      \* history: database errors so far

queueVars == <<rows, process, found, queue, task, caller, deaths, faults>>

Absent == [status |-> "absent", stale |-> FALSE, tries |-> 0]

QueueInit ==
    /\ rows = [m \in Messages |-> Absent]
    /\ process = "down"
    /\ found = {}
    /\ queue = <<>>
    /\ task = [m \in Messages |-> "none"]
    /\ caller = [m \in Messages |-> "none"]
    /\ deaths = 0
    /\ faults = 0

TaskAt(m, stage) == task[m] = stage
Move(m, stage) == task' = [task EXCEPT ![m] = stage]
Mark(m, status) == rows' = [rows EXCEPT ![m].status = status]

-----------------------------------------------------------------------------
(* AgentLoop.start, enqueue_recovered, recover_pending.                    *)

Recoverable(m) ==
    \/ rows[m].status = "pending"
    \/ rows[m].status = "processing" /\ rows[m].stale

SelectRecoverable ==
    /\ process = "down"
    /\ process' = "recovering"
    /\ found' = {m \in Messages : Recoverable(m)}
    /\ UNCHANGED <<rows, queue, task, caller, deaths, faults>>

\* One UPDATE and one commit per row.
ResetRow(m) ==
    /\ process = "recovering"
    /\ m \in found
    /\ rows[m].status = "processing"
    /\ rows' = [rows EXCEPT ![m].status = "pending", ![m].stale = FALSE]
    /\ UNCHANGED <<process, found, queue, task, caller, deaths, faults>>

\* created_at has whole seconds: rows of the same second come in any order.
EnqueueRecovered ==
    /\ process = "recovering"
    /\ \A m \in found : rows[m].status # "processing"
    /\ queue' \in {queue \o q : q \in SetToSeqs(found)}
    /\ found' = {}
    /\ process' = "up"
    /\ UNCHANGED <<rows, task, caller, deaths, faults>>

-----------------------------------------------------------------------------
(* publish_and_wait.  POST /chat takes this path only when the loop runs;  *)
(* INSERT, put and the registration of the future have no await between.   *)

\* Mutant of Publish: before the loop runs.
PublishEarly(m) ==
    /\ rows[m].status = "absent"
    /\ Mark(m, "pending")
    /\ queue' = Append(queue, m)
    /\ caller' = [caller EXCEPT ![m] = "waiting"]
    /\ UNCHANGED <<process, found, task, deaths, faults>>

Publish(m) ==
    /\ process = "up"
    /\ rows[m].status = "absent"
    /\ Mark(m, "pending")
    /\ queue' = Append(queue, m)
    /\ caller' = [caller EXCEPT ![m] = "waiting"]
    /\ UNCHANGED <<process, found, task, deaths, faults>>

TimeOut(m) ==
    /\ caller[m] = "waiting"
    /\ caller' = [caller EXCEPT ![m] = "timed_out"]
    /\ UNCHANGED <<rows, process, found, queue, task, deaths, faults>>

-----------------------------------------------------------------------------
(* AgentLoop._run and _process.                                            *)

Consume ==
    /\ process = "up"
    /\ queue # <<>>
    /\ queue' = Tail(queue)
    /\ Move(Head(queue), "created")
    /\ UNCHANGED <<rows, process, found, caller, deaths, faults>>

\* mark_processing, and the thread starts the turn.
BeginTask(m) ==
    /\ TaskAt(m, "created")
    /\ rows' = [rows EXCEPT ![m] = [status |-> "processing", stale |-> FALSE,
                                    tries |-> @.tries + 1]]
    /\ Move(m, "running")
    /\ UNCHANGED <<process, found, queue, caller, deaths, faults>>

\* mark_processing is not in the try: an error of the database ends the task,
\* with the row as it was and nobody told.
TaskFails(m) ==
    /\ TaskAt(m, "created")
    /\ faults < FaultBound
    /\ faults' = faults + 1
    /\ Move(m, "none")
    /\ UNCHANGED <<rows, process, found, queue, caller, deaths>>

Return(m) ==
    /\ TaskAt(m, "running")
    /\ \E result \in {"returned", "raised"} : Move(m, result)
    /\ UNCHANGED <<rows, process, found, queue, caller, deaths, faults>>

\* Mutant of MarkDone: the caller is told first.
ResolveUnmarked(m) ==
    /\ TaskAt(m, "returned")
    /\ Move(m, "resolve")
    /\ UNCHANGED <<rows, process, found, queue, caller, deaths, faults>>

MarkDone(m) ==
    /\ TaskAt(m, "returned")
    /\ Mark(m, "done")
    /\ Move(m, "resolve")
    /\ UNCHANGED <<process, found, queue, caller, deaths, faults>>

MarkFailed(m) ==
    /\ TaskAt(m, "raised")
    /\ Mark(m, "failed")
    /\ Move(m, "reject")
    /\ UNCHANGED <<process, found, queue, caller, deaths, faults>>

\* resolve_future or fail_future: nothing happens when the caller has gone.
Answer(m) ==
    /\ task[m] \in {"resolve", "reject"}
    /\ caller' = IF caller[m] # "waiting" THEN caller
                 ELSE [caller EXCEPT
                        ![m] = IF TaskAt(m, "resolve") THEN "answered" ELSE "refused"]
    /\ Move(m, "none")
    /\ UNCHANGED <<rows, process, found, queue, deaths, faults>>

-----------------------------------------------------------------------------

\* 300 s have gone by since the row was marked.
Ages(m) ==
    /\ rows[m].status = "processing"
    /\ ~rows[m].stale
    /\ rows' = [rows EXCEPT ![m].stale = TRUE]
    /\ UNCHANGED <<process, found, queue, task, caller, deaths, faults>>

Die ==
    /\ process # "down"
    /\ deaths < DeathBound
    /\ deaths' = deaths + 1
    /\ process' = "down"
    /\ found' = {}
    /\ queue' = <<>>
    /\ task' = [m \in Messages |-> "none"]
    /\ caller' = [m \in Messages |-> IF caller[m] = "waiting"
                                     THEN "disconnected" ELSE caller[m]]
    /\ UNCHANGED <<rows, faults>>

LoopStep ==
    \/ SelectRecoverable
    \/ \E m \in Messages : ResetRow(m)
    \/ EnqueueRecovered
    \/ Consume

TaskStep(m) ==
    BeginTask(m) \/ Return(m) \/ MarkDone(m) \/ MarkFailed(m) \/ Answer(m)

QueueStep ==
    \/ LoopStep
    \/ \E m \in Messages : \/ TaskStep(m) \/ TaskFails(m)
                           \/ Publish(m) \/ TimeOut(m) \/ Ages(m)
    \/ Die

-----------------------------------------------------------------------------
(* Properties.                                                             *)

(* Every variable has its type.                                            *)
QueueTypeOK ==
    /\ rows \in [Messages -> [status : {"absent", "pending", "processing",
                                        "done", "failed"},
                              stale : BOOLEAN, tries : Nat]]
    /\ process \in {"down", "recovering", "up"}
    /\ found \subseteq Messages
    /\ queue \in Seq(Messages)
    /\ task \in [Messages -> {"none", "created", "running", "returned",
                              "raised", "resolve", "reject"}]
    /\ caller \in [Messages -> {"none", "waiting", "answered", "refused",
                                "timed_out", "disconnected"}]
    /\ deaths \in 0..DeathBound /\ faults \in 0..FaultBound

Holders(m) ==
    {i \in DOMAIN queue : queue[i] = m} \cup
    (IF task[m] = "none" THEN {} ELSE {0})

(* Memory and table agree while the process is up: a message is in memory  *)
(* at most once, as a queue entry or as a task and never as both, so that  *)
(* recovery and the producers never enqueue the same row; a pending row is *)
(* there unless an error of the database threw its task away; and what the *)
(* queue holds is a pending row.                                           *)
MemoryMirrorsTable ==
    \A m \in Messages :
        /\ \A i, j \in Holders(m) : i = j
        /\ (process = "up" /\ rows[m].status = "pending" /\ faults = 0)
              => Holders(m) # {}
        /\ m \in Range(queue) => rows[m].status = "pending"

(* What the caller was told is on record, whatever comes later: an answer  *)
(* belongs to a row that is done, an error to a row that failed, and no    *)
(* turn of such a message begins again, after a restart neither.           *)
AnswerIsDurable ==
    \A m \in Messages :
        /\ caller[m] = "answered" => rows[m].status = "done"
        /\ caller[m] = "refused" => rows[m].status = "failed"
        /\ caller[m] \in {"answered", "refused"} => Holders(m) = {}

(* A message that the dying process left pending, or processing for 300 s  *)
(* by the time of the restart, is run again.                               *)
LeftoverIsReplayed ==
    \A m \in Messages :
        (process = "down" /\ Recoverable(m))
            ~> (task[m] = "running" \/ faults > 0)

=============================================================================
