----------------------------- MODULE TurnKernel -----------------------------
(***************************************************************************)
(* RuntimeKernel (runtime/kernel.py) as the API process uses it: ONE       *)
(* kernel, built once, runs every turn.  AgentLoop runs each message in a  *)
(* thread of its own and POST /chat/stream runs in a thread too; there is  *)
(* no lock.  So all turns share the state machine of shared/state.py and   *)
(* the counters that the budgets are compared with.                        *)
(*                                                                         *)
(* A turn is a thread that moves the machine, does some I/O, and moves it  *)
(* again.  The machine refuses a move its table does not have (ValueError),*)
(* which ends the turn as failed; the move that ends a turn is tried and,  *)
(* when refused, skipped.                                                  *)
(***************************************************************************)
EXTENDS Naturals, FiniteSets

CONSTANTS
    Turns,          \* the messages
    Streams,        \* those that came by POST /chat/stream
    MaxModelCalls, MaxToolCalls,    \* TurnBudget
    MaxToolRounds,
    MaxIntents,     \* bound: tool calls the model asks for in one reply
    Threads         \* bound: turns that run at the same time

ASSUME StreamsAssumption == Streams \subseteq Turns
ASSUME KernelBounds ==
    /\ {MaxModelCalls, MaxToolCalls, MaxToolRounds} \subseteq Nat
    /\ {MaxIntents, Threads} \subseteq Nat \ {0}

VARIABLES
    machine,    \* TurnStateMachine._state
    moving,     \* moving[t]: the move of t that was allowed and is not made yet
    modelCalls, toolCalls,  \* _model_call_count, _tool_call_count
    pc,         \* pc[t]: where turn t is
    round,      \* round[t]: tool_round
    intents,    \* intents[t]: tool calls of the reply not dispatched yet
    asked,      \* asked[t]: tool calls of the reply
    invoked,    \* invoked[t]: some call of this round was not denied
    result,     \* result[t]: TurnResult, and the exception it comes from
    written     \* written[t]: the messages of t in the session

shared == <<machine, moving, modelCalls, toolCalls>>
local == <<round, intents, asked, invoked>>
vars == <<shared, pc, local, result, written>>

-----------------------------------------------------------------------------
(* shared/state.py.                                                        *)

Terminal == {"completed", "failed", "denied", "cancelled", "budget_exceeded"}
Aborts == {"failed", "interrupted", "cancelled", "budget_exceeded"}

TRANSITIONS ==
    [received             |-> Aborts \cup {"loading_session"},
     loading_session      |-> Aborts \cup {"building_context"},
     building_context     |-> Aborts \cup {"model_calling"},
     model_calling        |-> Aborts \cup {"composing_result", "planning_tool"},
     planning_tool        |-> Aborts \cup {"policy_checking", "composing_result",
                                           "model_calling"},
     policy_checking      |-> Aborts \cup {"executing_capability",
                                           "waiting_approval", "model_calling"},
     waiting_approval     |-> (Aborts \ {"failed"}) \cup
                                  {"executing_capability", "denied"},
     executing_capability |-> Aborts \cup {"updating_context", "retrying"},
     updating_context     |-> Aborts \cup {"model_calling", "composing_result"},
     composing_result     |-> Aborts \cup {"completed", "model_calling"},
     retrying             |-> Aborts \cup {"model_calling", "executing_capability"},
     interrupted          |-> {"resuming", "cancelled", "failed"},
     resuming             |-> {"loading_session", "building_context",
                               "model_calling", "executing_capability", "failed"},
     completed            |-> {"received"},
     failed               |-> {"received"},
     denied               |-> {"received"},
     cancelled            |-> {"received"},
     budget_exceeded      |-> {"received"}]

TurnState == DOMAIN TRANSITIONS

Allowed(target) == target \in TRANSITIONS[machine]

-----------------------------------------------------------------------------

NoResult == [state |-> "none", cause |-> "none"]
Running(t) == pc[t] \notin {"new", "over"} \/ moving[t] # "none"
InFlight == {t \in Turns : Running(t)}

Init ==
    /\ machine = "received"
    /\ moving = [t \in Turns |-> "none"]
    /\ modelCalls = 0 /\ toolCalls = 0
    /\ pc = [t \in Turns |-> "new"]
    /\ round = [t \in Turns |-> 0]
    /\ intents = [t \in Turns |-> 0]
    /\ asked = [t \in Turns |-> 0]
    /\ invoked = [t \in Turns |-> FALSE]
    /\ result = [t \in Turns |-> NoResult]
    /\ written = [t \in Turns |-> {}]

At(t, label) == pc[t] = label /\ moving[t] = "none"
Goto(t, label) == pc' = [pc EXCEPT ![t] = label]
Write(t, message) == written' = [written EXCEPT ![t] = @ \cup {message}]

\* The exception reaches the handlers of process: they try one more move.
Raise(t, cause) ==
    /\ Goto(t, "handle")
    /\ result' = [result EXCEPT
         ![t] = [cause |-> cause,
                 state |-> CASE cause = "denied" -> "denied"
                             [] cause = "approval" -> "waiting_approval"
                             [] OTHER -> "failed"]]

\* transition: the table is asked, and the turn goes on when it has the move and
\* fails if not.  The move is made after the question, with no lock between.
Ask(t, target) == moving' = [moving EXCEPT ![t] = target]

Transition(t, target, label) ==
    /\ \/ /\ Allowed(target)
          /\ Ask(t, target)
          /\ Goto(t, label)
          /\ UNCHANGED result
       \/ /\ ~Allowed(target)
          /\ Raise(t, "transition")
          /\ UNCHANGED moving
    /\ UNCHANGED machine

SetState(t) ==
    /\ moving[t] # "none"
    /\ machine' = moving[t]
    /\ Ask(t, "none")
    /\ UNCHANGED <<modelCalls, toolCalls, pc, local, result, written>>

\* Some I/O of the turn fails.
Error(t) ==
    /\ Raise(t, "error")
    /\ UNCHANGED <<shared, local, written>>

-----------------------------------------------------------------------------
(* _prepare_turn_setup and _run_pre_model_phase.                           *)

Begin(t) ==
    /\ At(t, "new")
    /\ Cardinality(InFlight) < Threads
    /\ Ask(t, IF machine \in Terminal THEN "received" ELSE "none")
    /\ Goto(t, "load")
    /\ UNCHANGED <<machine, modelCalls, toolCalls, local, result, written>>

\* No trace can be written: the exception leaves process.
SetupFails(t) ==
    /\ At(t, "load")
    /\ result' = [result EXCEPT ![t] = [state |-> "none", cause |-> "raised"]]
    /\ Goto(t, "over")
    /\ UNCHANGED <<shared, local, written>>

LoadSession(t) ==
    /\ At(t, "load")
    /\ Transition(t, "loading_session", "persist_user")
    /\ UNCHANGED <<modelCalls, toolCalls, local, written>>

PersistUserMessage(t) ==
    /\ At(t, "persist_user")
    /\ \/ /\ Write(t, "user")
          /\ Goto(t, "context")
          /\ UNCHANGED <<shared, local, result>>
       \/ Error(t)

BuildContext(t) ==
    /\ At(t, "context")
    /\ Transition(t, "building_context", "built")
    /\ UNCHANGED <<modelCalls, toolCalls, local, written>>

\* The context may be refused: consolidation is too far behind.
EnterModelCalling(t) ==
    /\ At(t, "built")
    /\ \/ /\ Transition(t, "model_calling", "check")
          /\ UNCHANGED <<modelCalls, toolCalls, local, written>>
       \/ Error(t)

CheckModel(t) ==
    /\ At(t, "check")
    /\ \/ /\ modelCalls >= MaxModelCalls
          /\ Raise(t, "model_budget")
       \/ /\ modelCalls < MaxModelCalls
          /\ \/ \E cause \in {"wall_clock", "denied"} : Raise(t, cause)
             \/ Goto(t, "reply") /\ UNCHANGED result
    /\ UNCHANGED <<shared, local, written>>

-----------------------------------------------------------------------------
(* _generate_reply, the tool loop, _dispatch_tools.                        *)

\* The model has answered and asks for n tool calls.
Replied(t, n) ==
    /\ modelCalls' = modelCalls + 1
    /\ asked' = [asked EXCEPT ![t] = n]

Reply(t) ==
    /\ At(t, "reply")
    /\ \/ /\ \E n \in 0..MaxIntents : Replied(t, n)
          /\ Goto(t, "plan")
          /\ UNCHANGED <<machine, moving, toolCalls, round, intents, invoked, result,
                         written>>
       \/ Error(t)

PlanTool(t) ==
    /\ At(t, "plan")
    /\ Transition(t, "planning_tool", "rounds")
    /\ UNCHANGED <<modelCalls, toolCalls, local, written>>

\* Mutant of BeginRound: rounds that are not counted.
BeginRoundUncounted(t) ==
    /\ At(t, "rounds")
    /\ asked[t] > 0
    /\ round[t] < MaxToolRounds
    /\ intents' = [intents EXCEPT ![t] = asked[t]]
    /\ invoked' = [invoked EXCEPT ![t] = FALSE]
    /\ Goto(t, "tools")
    /\ UNCHANGED <<shared, round, asked, result, written>>

BeginRound(t) ==
    /\ At(t, "rounds")
    /\ asked[t] > 0
    /\ round[t] < MaxToolRounds
    /\ round' = [round EXCEPT ![t] = @ + 1]
    /\ intents' = [intents EXCEPT ![t] = asked[t]]
    /\ invoked' = [invoked EXCEPT ![t] = FALSE]
    /\ Goto(t, "tools")
    /\ UNCHANGED <<shared, asked, result, written>>

\* Mutant of Dispatch: one tool call too many.
DispatchOnceMore(t) ==
    /\ At(t, "tools")
    /\ intents[t] > 0
    /\ toolCalls <= MaxToolCalls
    /\ Goto(t, "executing")
    /\ UNCHANGED <<shared, local, result, written>>

\* One intent: the budget, then the governed execution and its outcome.
Dispatch(t) ==
    /\ At(t, "tools")
    /\ intents[t] > 0
    /\ UNCHANGED <<machine, moving, modelCalls, round, asked, written>>
    /\ \/ /\ toolCalls >= MaxToolCalls
          /\ Raise(t, "tool_budget")
          /\ UNCHANGED <<toolCalls, intents, invoked>>
       \/ /\ toolCalls < MaxToolCalls
          /\ Goto(t, "executing")
          /\ UNCHANGED <<toolCalls, intents, invoked, result>>

Executed(t) ==
    /\ At(t, "executing")
    /\ UNCHANGED <<machine, moving, modelCalls, round, asked, written>>
    /\ \/ /\ Raise(t, "approval")
          /\ UNCHANGED <<toolCalls, intents, invoked>>
       \/ /\ toolCalls' = toolCalls + 1
          /\ Raise(t, "error")
          /\ UNCHANGED <<intents, invoked>>
       \/ /\ \/ /\ toolCalls' = toolCalls + 1
                /\ invoked' = [invoked EXCEPT ![t] = TRUE]
             \/ UNCHANGED <<toolCalls, invoked>>    \* denied or not found
          /\ intents' = [intents EXCEPT ![t] = @ - 1]
          /\ Goto(t, "tools")
          /\ UNCHANGED result

\* The model sees the results; when all calls were denied the same reply is
\* taken for the next round.
EndRound(t) ==
    /\ At(t, "tools")
    /\ intents[t] = 0
    /\ \/ /\ invoked[t]
          /\ \E n \in 0..MaxIntents : Replied(t, n)
          /\ Goto(t, "rounds")
          /\ UNCHANGED <<machine, moving, toolCalls, round, intents, invoked, result,
                         written>>
       \/ /\ ~invoked[t]
          /\ Goto(t, "rounds")
          /\ UNCHANGED <<shared, local, result, written>>
       \/ invoked[t] /\ Error(t)

-----------------------------------------------------------------------------
(* _run_after_turn.                                                        *)

ComposeResult(t) ==
    /\ At(t, "rounds")
    /\ asked[t] = 0 \/ round[t] >= MaxToolRounds
    /\ Transition(t, "composing_result", "persist")
    /\ UNCHANGED <<modelCalls, toolCalls, local, written>>

\* Mutant of Persist: a failure to write is passed over.
PersistQuietly(t) ==
    /\ At(t, "persist")
    /\ Write(t, "assistant") \/ UNCHANGED written
    /\ Goto(t, "audit")
    /\ UNCHANGED <<shared, local, result>>

Persist(t) ==
    /\ At(t, "persist")
    /\ \/ /\ Write(t, "assistant")
          /\ Goto(t, "audit")
          /\ UNCHANGED <<shared, local, result>>
       \/ Error(t)

Complete(t) ==
    /\ At(t, "audit")
    /\ \/ /\ Allowed("completed")
          /\ Ask(t, "completed")
          /\ result' = [result EXCEPT ![t] = [state |-> "completed",
                                              cause |-> "none"]]
          /\ Goto(t, "over")
       \/ /\ ~Allowed("completed")
          /\ Raise(t, "transition")
          /\ UNCHANGED moving
    /\ UNCHANGED <<machine, modelCalls, toolCalls, local, written>>

\* Mutant of Handle: the last move is forced.
HandleForced(t) ==
    /\ At(t, "handle")
    /\ Ask(t, result[t].state)
    /\ Goto(t, "over")
    /\ UNCHANGED <<machine, modelCalls, toolCalls, local, result, written>>

\* The except clauses: _safe_transition, then the turn is cleaned up.  The
\* stream has a handler of its own for approvals, which leaves the machine.
Handle(t) ==
    LET target == result[t].state
        tried == ~(t \in Streams /\ result[t].cause = "approval")
    IN
    /\ At(t, "handle")
    /\ Ask(t, IF tried /\ Allowed(target) THEN target ELSE "none")
    /\ Goto(t, "over")
    /\ UNCHANGED <<machine, modelCalls, toolCalls, local, result, written>>

\* The reader of a stream goes away: the generator is closed where it yields.
Disconnect(t) ==
    /\ t \in Streams
    /\ \/ At(t, "load") \/ At(t, "reply")
       \/ At(t, "rounds") /\ round[t] > 0
       \/ At(t, "tools") /\ intents[t] = asked[t]
    /\ result' = [result EXCEPT ![t] = [state |-> "none", cause |-> "closed"]]
    /\ Goto(t, "over")
    /\ UNCHANGED <<shared, local, written>>

TurnStep(t) ==
    \/ SetState(t) \/ SetupFails(t)
    \/ LoadSession(t) \/ PersistUserMessage(t) \/ BuildContext(t)
    \/ EnterModelCalling(t) \/ CheckModel(t) \/ Reply(t)
    \/ PlanTool(t) \/ BeginRound(t) \/ Dispatch(t) \/ Executed(t) \/ EndRound(t)
    \/ ComposeResult(t) \/ Persist(t) \/ Complete(t) \/ Handle(t)

Next == \E t \in Turns : Begin(t) \/ TurnStep(t) \/ Disconnect(t)

Spec == Init /\ [][Next]_vars

\* Threads run: model calls, tools and the database come back.
FairSpec == Spec /\ \A t \in Turns : WF_vars(TurnStep(t))

-----------------------------------------------------------------------------
(* Properties.                                                             *)

Labels == {"new", "load", "persist_user", "context", "built", "check", "reply",
           "plan", "rounds", "tools", "executing", "persist", "audit",
           "handle", "over"}
Causes == {"none", "transition", "error", "denied", "approval", "model_budget",
           "tool_budget", "wall_clock", "closed", "raised"}

(* Every variable has its type.                                            *)
TypeOK ==
    /\ machine \in TurnState
    /\ moving \in [Turns -> TurnState \cup {"none"}]
    /\ modelCalls \in Nat /\ toolCalls \in Nat
    /\ pc \in [Turns -> Labels]
    /\ round \in [Turns -> 0..MaxToolRounds]
    /\ intents \in [Turns -> 0..MaxIntents]
    /\ asked \in [Turns -> 0..MaxIntents]
    /\ invoked \in [Turns -> BOOLEAN]
    /\ result \in [Turns -> [state : TurnState \cup {"none"}, cause : Causes]]
    /\ written \in [Turns -> SUBSET {"user", "assistant"}]

(* However turns overlap, fail or are dropped by their readers, the shared *)
(* machine never rests where no later turn could free it: it is terminal,  *)
(* or a failing turn can still move it to failed and so make the next one  *)
(* start.  This rests on waiting_approval being out of reach, which has no *)
(* such move.                                                              *)
MachineRecoverable ==
    machine \in Terminal \/ Allowed("failed")

(* The budgets are compared before a call and counted after it, with other *)
(* turns in between and with the calls of the tool rounds not compared at  *)
(* all; still they are exceeded by what the turns in flight may add, and   *)
(* by no more.                                                             *)
BudgetOvershoot ==
    /\ modelCalls < MaxModelCalls + Threads * (1 + MaxToolRounds)
    /\ toolCalls < MaxToolCalls + Threads

(* What a turn reports and what the session holds agree: completed means   *)
(* both messages are there; denied or waiting for an approval means the    *)
(* question is and no reply; a turn that the machine refused at its start  *)
(* has left nothing.                                                       *)
TranscriptAgrees ==
    \A t \in Turns :
        /\ result[t].state = "completed" => written[t] = {"user", "assistant"}
        /\ result[t].state \in {"denied", "waiting_approval"}
              => written[t] = {"user"}
        /\ result[t].cause \in {"model_budget", "wall_clock", "tool_budget"}
              => written[t] = {"user"}
        /\ "assistant" \in written[t] => "user" \in written[t]

(* Every turn ends, in bounded rounds, also when all its tools are denied  *)
(* and the same reply comes back: of finitely many turns, a time comes     *)
(* after which none is in flight.                                          *)
TurnEnds == <>[](InFlight = {})
=============================================================================
