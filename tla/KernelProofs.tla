----------------------------- MODULE KernelProofs -----------------------------
(***************************************************************************)
(* The safety of RuntimeKernel, of the router that it calls models through *)
(* and of the pictures of its turns, each for any parameters.              *)
(*                                                                         *)
(* The shared machine stays among the states that plain turns move it      *)
(* through, because an allowed move that is still to be made is among them *)
(* too.  What a turn has written follows from where it is.  The budgets    *)
(* are exceeded by no more than the turns in flight may still add: each    *)
(* holds a credit for every call that it may make without asking again.    *)
(*                                                                         *)
(* Of the router, first the order a request asks its candidates in: the    *)
(* sort keys are compared lexicographically and end in the candidate's     *)
(* number, so they order any set of candidates strictly, and Ordered lists *)
(* each member of the set once.  Then the breakers: the failures a breaker *)
(* counts, and the count a report has read but not yet written, never      *)
(* exceed the failures in a row that were reported.                        *)
(*                                                                         *)
(* Of pictures, the rows: uploads and answers stay as they were written,   *)
(* so what a caller has read remains true while others run.  An answer is  *)
(* kept under the key it answers; a picture that nobody contests has one   *)
(* meme, or one caller past its look for one.                              *)
(***************************************************************************)
EXTENDS TurnKernel, RoutedModels, Media, FiniteSetTheorems, WellFoundedInduction, TLAPS

\* The states that the moves of a turn reach.
Reached == {"received", "loading_session", "building_context", "model_calling",
            "planning_tool", "composing_result", "completed", "failed"}

MachineOK ==
    /\ machine \in Reached
    /\ \A t \in Turns : moving[t] \in Reached \cup {"none"}

\* Where a turn has asked the question and not stored an answer.
Unanswered == {"context", "built", "check", "reply", "plan", "rounds", "tools",
           "executing", "persist"}

TurnOK(t) ==
    /\ pc[t] \in {"new", "load", "persist_user"} => written[t] = {}
    /\ pc[t] \in Unanswered => written[t] = {"user"}
    /\ pc[t] = "audit" => written[t] = {"user", "assistant"}
    /\ pc[t] \notin {"handle", "over"} => result[t] = NoResult
    /\ pc[t] = "handle" => result[t].state \in {"denied", "waiting_approval", "failed"}
    /\ pc[t] \in {"new", "load", "persist_user", "context", "built", "check", "reply", "plan"}
           => round[t] = 0
    /\ pc[t] = "executing" => intents[t] > 0
    /\ "assistant" \in written[t] => "user" \in written[t]
    /\ result[t].state = "completed" => written[t] = {"user", "assistant"}
    /\ result[t].state \in {"denied", "waiting_approval"} => written[t] = {"user"}
    /\ result[t].cause \in {"model_budget", "wall_clock", "tool_budget"}
           => written[t] = {"user"}

\* The calls of the model that t may make without comparing again.
Pending(t) ==
    CASE pc[t] = "reply" -> 1 + MaxToolRounds
      [] pc[t] \in {"plan", "rounds"} -> MaxToolRounds - round[t]
      [] pc[t] \in {"tools", "executing"} -> 1 + MaxToolRounds - round[t]
      [] OTHER -> 0

\* One credit for each of them, in hand by hand of the turns.
Credits == {c \in Turns \X (1..(1 + MaxToolRounds)) : c[2] <= Pending(c[1])}

Calling == {t \in Turns : pc[t] = "executing"}

Counted ==
    /\ IsFiniteSet(InFlight) /\ Cardinality(InFlight) <= Threads
    /\ \A t \in Turns : pc[t] \in {"tools", "executing"} => round[t] > 0
    /\ modelCalls + Cardinality(Credits) < MaxModelCalls + Threads * (1 + MaxToolRounds)
    /\ toolCalls + Cardinality(Calling) < MaxToolCalls + Threads

(* The inductive invariant.                                                *)
IInv == TypeOK /\ MachineOK /\ (\A t \in Turns : TurnOK(t)) /\ Counted

\* Only turn t moves.
Alone(t) ==
    \A d \in Turns \ {t} :
        /\ pc'[d] = pc[d] /\ moving'[d] = moving[d]
        /\ round'[d] = round[d] /\ intents'[d] = intents[d]
        /\ result'[d] = result[d] /\ written'[d] = written[d]

KernelStep(t) == Begin(t) \/ TurnStep(t) \/ Disconnect(t)

-----------------------------------------------------------------------------

LEMMA Numbers ==
    /\ MaxModelCalls \in Nat /\ MaxToolCalls \in Nat /\ MaxToolRounds \in Nat
    /\ Threads \in Nat \ {0} /\ MaxIntents \in Nat \ {0}
BY KernelBounds

LEMMA ReachedFacts ==
    /\ Reached \subseteq TurnState
    /\ \A s \in Reached : "waiting_approval" \notin TRANSITIONS[s]
                          /\ "denied" \notin TRANSITIONS[s]
    /\ \A s \in Reached : s \in Terminal \/ "failed" \in TRANSITIONS[s]
<1>1. Reached \subseteq TurnState
  BY DEF Reached, TurnState, TRANSITIONS
<1>2. ASSUME NEW s \in Reached
      PROVE  /\ "waiting_approval" \notin TRANSITIONS[s] /\ "denied" \notin TRANSITIONS[s]
             /\ s \in Terminal \/ "failed" \in TRANSITIONS[s]
  BY DEF Reached, TRANSITIONS, Aborts, Terminal
<1> QED BY <1>1, <1>2

(* transition: the move is asked for, or the turn has failed.              *)
LEMMA TransitionFacts ==
    ASSUME TypeOK, NEW t \in Turns, NEW target, NEW label, Transition(t, target, label)
    PROVE  /\ machine' = machine
           /\ \/ /\ pc' = [pc EXCEPT ![t] = label] /\ result' = result
                 /\ moving' = [moving EXCEPT ![t] = target]
              \/ /\ pc' = [pc EXCEPT ![t] = "handle"] /\ moving' = moving
                 /\ result' = [result EXCEPT ![t] = [cause |-> "transition", state |-> "failed"]]
BY DEF Transition, Ask, Goto, Raise

\* The results of the handlers.
Results == [state : TurnState \cup {"none"}, cause : Causes]

(* What Raise makes of a turn.                                             *)
LEMMA RaiseFacts ==
    ASSUME NEW t, NEW cause \in Causes, Raise(t, cause)
    PROVE  /\ pc' = [pc EXCEPT ![t] = "handle"]
           /\ \E r \in Results :
                /\ result' = [result EXCEPT ![t] = r] /\ r.cause = cause
                /\ r.state = CASE cause = "denied" -> "denied"
                               [] cause = "approval" -> "waiting_approval"
                               [] OTHER -> "failed"
<1> DEFINE st == CASE cause = "denied" -> "denied"
                   [] cause = "approval" -> "waiting_approval"
                   [] OTHER -> "failed"
           r == [cause |-> cause, state |-> st]
<1>1. {"denied", "waiting_approval", "failed"} \subseteq TurnState
  BY DEF TurnState, TRANSITIONS
<1>2. st \in {"denied", "waiting_approval", "failed"}
  OBVIOUS
<1>3. r \in Results
  BY <1>1, <1>2 DEF Results
<1>4. r.cause = cause /\ r.state = st
  OBVIOUS
<1>5. result' = [result EXCEPT ![t] = r] /\ pc' = [pc EXCEPT ![t] = "handle"]
  BY DEF Raise, Goto
<1> QED BY <1>3, <1>4, <1>5

LEMMA InitIInv == Init => IInv
<1> SUFFICES ASSUME Init PROVE IInv
  OBVIOUS
<1>1. TypeOK
  <2>1. "received" \in TurnState /\ "none" \in Causes
    BY DEF TurnState, TRANSITIONS, Causes
  <2> QED BY <2>1, Numbers DEF Init, TypeOK, Labels, NoResult
<1>2. MachineOK
  BY DEF Init, MachineOK, Reached
<1>3. \A t \in Turns : TurnOK(t)
  BY DEF Init, TurnOK, Unanswered, NoResult
<1>4. Counted
  <2>1. InFlight = {} /\ Calling = {}
    BY DEF Init, InFlight, Running, Calling
  <2>2. Credits = {}
    BY DEF Init, Credits, Pending
  <2>3. \A n \in Nat : n * (1 + MaxToolRounds) \in Nat
    BY Numbers
  <2>4. Threads * (1 + MaxToolRounds) >= 1
    BY Numbers
  <2> HIDE DEF InFlight, Credits, Calling
  <2> QED BY <2>1, <2>2, <2>4, Numbers, FS_EmptySet DEF Counted, Init
<1> QED BY <1>1, <1>2, <1>3, <1>4 DEF IInv

-----------------------------------------------------------------------------
(* Types.                                                                  *)

LEMMA LabelsTyped ==
    /\ Labels = {"new", "load", "persist_user", "context", "built", "check", "reply",
                 "plan", "rounds", "tools", "executing", "persist", "audit",
                 "handle", "over"}
    /\ Reached \subseteq TurnState /\ NoResult \in Results
BY ReachedFacts DEF Labels, NoResult, Results, Causes

\* A turn takes another place, and perhaps another result and move.
LEMMA TypedMove ==
    ASSUME TypeOK, NEW t \in Turns, NEW label \in Labels, NEW r \in Results,
           NEW m \in TurnState \cup {"none"}
    PROVE  /\ [pc EXCEPT ![t] = label] \in [Turns -> Labels]
           /\ [result EXCEPT ![t] = r] \in [Turns -> Results]
           /\ [moving EXCEPT ![t] = m] \in [Turns -> TurnState \cup {"none"}]
BY DEF TypeOK, Results

LEMMA TransitionTyped ==
    ASSUME TypeOK, NEW t \in Turns, NEW target \in TurnState, NEW label \in Labels,
           Transition(t, target, label)
    PROVE  /\ machine' \in TurnState /\ pc' \in [Turns -> Labels]
           /\ result' \in [Turns -> Results]
           /\ moving' \in [Turns -> TurnState \cup {"none"}]
<1>1. [cause |-> "transition", state |-> "failed"] \in Results /\ "handle" \in Labels
  BY DEF Results, Causes, TurnState, TRANSITIONS, Labels
<1> QED BY <1>1, TransitionFacts, TypedMove, SMTT(60) DEF TypeOK, Results

LEMMA RaiseTyped ==
    ASSUME TypeOK, NEW t \in Turns, NEW cause \in Causes, Raise(t, cause)
    PROVE  pc' \in [Turns -> Labels] /\ result' \in [Turns -> Results]
<1>1. "handle" \in Labels
  BY DEF Labels
<1> QED BY <1>1, RaiseFacts, TypedMove

LEMMA StepTypes ==
    ASSUME IInv, NEW t \in Turns, KernelStep(t)
    PROVE  TypeOK'
<1>0. TypeOK /\ result \in [Turns -> Results] /\ t \in Turns
      /\ moving[t] \in TurnState \cup {"none"} /\ result[t] \in Results
  BY DEF IInv, TypeOK, Results
<1>L. {"received", "loading_session", "building_context", "model_calling", "planning_tool",
       "composing_result", "completed", "none"} \subseteq TurnState \cup {"none"}
  BY DEF TurnState, TRANSITIONS
<1>C. {"error", "denied", "wall_clock", "model_budget", "tool_budget", "approval", "transition"}
        \subseteq Causes
  BY DEF Causes
<1>1. CASE Begin(t)
  BY <1>0, <1>1, <1>L, TypedMove DEF Begin, Ask, Goto, TypeOK, Labels, local
<1>2. CASE SetState(t)
  BY <1>0, <1>2, TypedMove DEF SetState, Ask, TypeOK, local
<1>3. CASE SetupFails(t)
  <2>1. [state |-> "none", cause |-> "raised"] \in Results
    BY DEF Results, Causes
  <2> QED BY <1>0, <1>3, <2>1, TypedMove DEF SetupFails, Goto, TypeOK, Labels, local, shared, Results
<1>4. CASE LoadSession(t) \/ BuildContext(t) \/ PlanTool(t) \/ ComposeResult(t)
  <2>1. \E target \in TurnState, label \in Labels : Transition(t, target, label)
    BY <1>4, <1>L DEF LoadSession, BuildContext, PlanTool, ComposeResult, Labels
  <2>2. UNCHANGED <<modelCalls, toolCalls, local, written>>
    BY <1>4 DEF LoadSession, BuildContext, PlanTool, ComposeResult
  <2> QED BY <1>0, <2>1, <2>2, TransitionTyped DEF TypeOK, local, Results
<1>5. CASE PersistUserMessage(t) \/ Persist(t)
  <2>1. CASE Error(t)
    BY <1>0, <1>C, <2>1, RaiseTyped DEF Error, TypeOK, shared, local, Results
  <2>2. CASE ~Error(t)
    <3>1. \E label \in Labels, m \in {"user", "assistant"} :
            Write(t, m) /\ Goto(t, label) /\ UNCHANGED <<shared, local, result>>
      BY <1>5, <2>2 DEF PersistUserMessage, Persist, Labels
    <3> QED BY <1>0, <3>1, TypedMove DEF Write, Goto, TypeOK, shared, local
  <2> QED BY <2>1, <2>2
<1>6. CASE EnterModelCalling(t)
  <2>1. CASE Error(t)
    BY <1>0, <1>C, <2>1, RaiseTyped DEF Error, TypeOK, shared, local, Results
  <2>2. CASE ~Error(t)
    <3>1. Transition(t, "model_calling", "check") /\ "model_calling" \in TurnState
          /\ UNCHANGED <<modelCalls, toolCalls, local, written>> /\ "check" \in Labels
      BY <1>6, <1>L, <2>2 DEF EnterModelCalling, Labels
    <3> QED BY <1>0, <3>1, TransitionTyped DEF TypeOK, local, Results
  <2> QED BY <2>1, <2>2
<1>7. CASE CheckModel(t)
  <2>1. /\ UNCHANGED <<shared, local, written>>
        /\ \/ \E cause \in Causes : Raise(t, cause)
           \/ Goto(t, "reply") /\ UNCHANGED result
    BY <1>7, <1>C DEF CheckModel
  <2>2. "reply" \in Labels /\ UNCHANGED <<machine, modelCalls, toolCalls, moving, round, intents,
                                         asked, invoked, written>>
    BY <2>1 DEF Labels, shared, local
  <2>3. pc' \in [Turns -> Labels] /\ result' \in [Turns -> Results]
    <3>1. CASE \E cause \in Causes : Raise(t, cause)
      BY <1>0, <3>1, RaiseTyped
    <3>2. CASE Goto(t, "reply") /\ UNCHANGED result
      BY <1>0, <2>2, <3>2, TypedMove DEF Goto
    <3> QED BY <2>1, <3>1, <3>2
  <2> QED BY <1>0, <2>2, <2>3 DEF TypeOK, Results
<1>8. CASE Reply(t) \/ EndRound(t)
  <2>1. CASE Error(t)
    BY <1>0, <1>C, <2>1, RaiseTyped DEF Error, TypeOK, shared, local, Results
  <2>2. CASE ~Error(t)
    <3>1. /\ UNCHANGED <<machine, moving, toolCalls, round, intents, invoked, result, written>>
          /\ modelCalls' = modelCalls \/ modelCalls' = modelCalls + 1
          /\ asked' = asked \/ \E n \in 0..MaxIntents : asked' = [asked EXCEPT ![t] = n]
          /\ pc' = [pc EXCEPT ![t] = "plan"] \/ pc' = [pc EXCEPT ![t] = "rounds"]
      BY <1>8, <2>2 DEF Reply, EndRound, Replied, Goto, shared, local
    <3>2. asked' \in [Turns -> 0..MaxIntents] /\ modelCalls' \in Nat
      BY <1>0, <3>1 DEF TypeOK
    <3>3. pc' \in [Turns -> Labels]
      BY <1>0, <3>1 DEF TypeOK, Labels
    <3> QED BY <1>0, <3>1, <3>2, <3>3 DEF TypeOK
  <2> QED BY <2>1, <2>2
<1>9. CASE BeginRound(t)
  BY <1>0, <1>9, Numbers DEF BeginRound, Goto, TypeOK, Labels, shared
<1>10. CASE Dispatch(t)
  <2>1. /\ UNCHANGED <<machine, moving, modelCalls, round, asked, written, toolCalls, intents,
                       invoked>>
        /\ Raise(t, "tool_budget") \/ (Goto(t, "executing") /\ UNCHANGED result)
    BY <1>10 DEF Dispatch
  <2>2. "executing" \in Labels /\ "tool_budget" \in Causes
    BY <1>C DEF Labels
  <2>3. pc' \in [Turns -> Labels] /\ result' \in [Turns -> Results]
    <3>1. CASE Raise(t, "tool_budget")
      BY <1>0, <2>2, <3>1, RaiseTyped
    <3>2. CASE Goto(t, "executing") /\ UNCHANGED result
      BY <1>0, <2>2, <3>2, TypedMove DEF Goto
    <3> QED BY <2>1, <3>1, <3>2
  <2> QED BY <1>0, <2>1, <2>3 DEF TypeOK, Results
<1>11. CASE Executed(t)
  <2>1. CASE Raise(t, "approval") \/ Raise(t, "error")
    <3>1. UNCHANGED <<machine, moving, modelCalls, round, asked, written, intents, invoked>>
          /\ toolCalls' \in {toolCalls, toolCalls + 1}
      BY <1>11, <2>1 DEF Executed, Raise, Goto, At, TypeOK, IInv
    <3> QED BY <1>0, <1>C, <2>1, <3>1, RaiseTyped DEF TypeOK, Results
  <2>2. CASE ~(Raise(t, "approval") \/ Raise(t, "error"))
    <3>1. /\ UNCHANGED <<machine, moving, modelCalls, round, asked, written, result>>
          /\ intents' = [intents EXCEPT ![t] = @ - 1] /\ Goto(t, "tools")
          /\ toolCalls' \in {toolCalls, toolCalls + 1}
          /\ invoked' = invoked \/ invoked' = [invoked EXCEPT ![t] = TRUE]
      BY <1>11, <2>2 DEF Executed
    <3>2. intents[t] - 1 \in 0..MaxIntents
      BY <1>11, Numbers DEF IInv, TypeOK, TurnOK, Executed, At
    <3>3. intents' \in [Turns -> 0..MaxIntents] /\ pc' \in [Turns -> Labels]
      BY <1>0, <3>1, <3>2 DEF Goto, TypeOK, Labels
    <3>4. toolCalls' \in Nat
      BY <1>0, <3>1 DEF TypeOK
    <3>5. invoked' \in [Turns -> BOOLEAN]
      BY <1>0, <3>1, Zenon DEF TypeOK
    <3> QED BY <1>0, <3>1, <3>3, <3>4, <3>5 DEF TypeOK
  <2> QED BY <2>1, <2>2
<1>12. CASE Complete(t)
  <2>1. [state |-> "completed", cause |-> "none"] \in Results /\ {"over", "handle"} \subseteq Labels
    BY <1>L DEF Results, Causes, Labels
  <2>2. CASE Allowed("completed")
    <3>1. /\ moving' = [moving EXCEPT ![t] = "completed"] /\ pc' = [pc EXCEPT ![t] = "over"]
          /\ result' = [result EXCEPT ![t] = [state |-> "completed", cause |-> "none"]]
          /\ UNCHANGED <<machine, modelCalls, toolCalls, local, written>>
      BY <1>12, <2>2 DEF Complete, Ask, Goto
    <3>2. /\ moving' \in [Turns -> TurnState \cup {"none"}] /\ pc' \in [Turns -> Labels]
          /\ result' \in [Turns -> Results]
      BY <1>0, <1>L, <2>1, <3>1, TypedMove
    <3> QED BY <1>0, <3>1, <3>2 DEF TypeOK, local, Results
  <2>3. CASE ~Allowed("completed")
    BY <1>0, <1>12, <1>C, <2>3, RaiseTyped DEF Complete, TypeOK, local, Results
  <2> QED BY <2>2, <2>3
<1>13. CASE Handle(t)
  <2>1. \E m \in TurnState \cup {"none"} : Ask(t, m)
    BY <1>0, <1>13 DEF Handle, Results
  <2> QED BY <1>0, <1>13, <2>1, TypedMove DEF Handle, Ask, Goto, TypeOK, local, Labels, Results
<1>14. CASE Disconnect(t)
  <2>1. [state |-> "none", cause |-> "closed"] \in Results
    BY DEF Results, Causes
  <2> QED BY <1>0, <1>14, <2>1, TypedMove DEF Disconnect, Goto, TypeOK, Labels, local, shared, Results
<1> QED BY <1>1, <1>2, <1>3, <1>4, <1>5, <1>6, <1>7, <1>8, <1>9, <1>10, <1>11, <1>12, <1>13, <1>14
        DEF KernelStep, TurnStep

(* A step of a turn is a step of that turn alone, but for the machine and  *)
(* the counters.                                                           *)
LEMMA StepAlone ==
    ASSUME IInv, NEW t \in Turns, KernelStep(t)
    PROVE  Alone(t)
<1> USE DEF Alone, Goto, Ask, Raise, Write, shared, local
<1>0. TypeOK
  BY DEF IInv
<1>1. CASE Begin(t) \/ SetState(t) \/ SetupFails(t) \/ Disconnect(t)
  BY <1>0, <1>1 DEF Begin, SetState, SetupFails, Disconnect, TypeOK
<1>2. CASE LoadSession(t) \/ BuildContext(t) \/ PlanTool(t) \/ ComposeResult(t)
  BY <1>0, <1>2 DEF LoadSession, BuildContext, PlanTool, ComposeResult, Transition, TypeOK
<1>3. CASE PersistUserMessage(t) \/ Persist(t) \/ EnterModelCalling(t) \/ CheckModel(t)
  BY <1>0, <1>3 DEF PersistUserMessage, Persist, EnterModelCalling, CheckModel, Transition, Error,
     TypeOK
<1>4. CASE Reply(t) \/ EndRound(t) \/ BeginRound(t)
  BY <1>0, <1>4 DEF Reply, EndRound, BeginRound, Replied, Error, TypeOK
<1>5. CASE Dispatch(t) \/ Executed(t)
  BY <1>0, <1>5 DEF Dispatch, Executed, TypeOK
<1>6. CASE Complete(t) \/ Handle(t)
  BY <1>0, <1>6 DEF Complete, Handle, TypeOK
<1> QED BY <1>1, <1>2, <1>3, <1>4, <1>5, <1>6 DEF KernelStep, TurnStep

-----------------------------------------------------------------------------
(* The machine.                                                            *)

LEMMA StepMachine ==
    ASSUME IInv, NEW t \in Turns, KernelStep(t)
    PROVE  MachineOK'
<1>0. TypeOK /\ MachineOK /\ TurnOK(t)
  BY DEF IInv
<1>1. SUFFICES /\ machine' = machine \/ (moving[t] # "none" /\ machine' = moving[t])
               /\ \/ moving' = moving
                  \/ \E m \in Reached \cup {"none"} : moving' = [moving EXCEPT ![t] = m]
  BY <1>0 DEF MachineOK, TypeOK
<1>2. CASE LoadSession(t) \/ BuildContext(t) \/ PlanTool(t) \/ ComposeResult(t) \/ EnterModelCalling(t)
  BY <1>2 DEF LoadSession, BuildContext, PlanTool, ComposeResult, EnterModelCalling, Transition,
     Reached, Ask, Error, shared
<1>3. CASE Handle(t)
  <2>1. /\ machine' = machine
        /\ moving' = [moving EXCEPT ![t] = "none"]
           \/ (Allowed(result[t].state) /\ moving' = [moving EXCEPT ![t] = result[t].state])
        /\ pc[t] = "handle"
    BY <1>3 DEF Handle, Ask, At
  <2>2. result[t].state \in {"denied", "waiting_approval", "failed"}
    BY <1>0, <2>1 DEF TurnOK
  <2>3. Allowed(result[t].state) => result[t].state \in Reached
    BY <1>0, <2>2, ReachedFacts DEF Allowed, MachineOK, Reached
  <2> QED BY <2>1, <2>3
<1>4. CASE Complete(t) \/ Begin(t) \/ SetState(t)
  BY <1>4 DEF Complete, Begin, SetState, Ask, Reached
<1>5. CASE SetupFails(t) \/ PersistUserMessage(t) \/ CheckModel(t) \/ Reply(t) \/ BeginRound(t)
           \/ Dispatch(t) \/ Executed(t) \/ EndRound(t) \/ Persist(t) \/ Disconnect(t)
  BY <1>5 DEF SetupFails, PersistUserMessage, CheckModel, Reply, BeginRound, Dispatch, Executed,
     EndRound, Persist, Disconnect, Error, shared
<1> QED BY <1>2, <1>3, <1>4, <1>5 DEF KernelStep, TurnStep

-----------------------------------------------------------------------------
(* What a turn has written.                                                *)

LEMMA StepTurn ==
    ASSUME IInv, TypeOK', NEW t \in Turns, KernelStep(t)
    PROVE  TurnOK(t)'
<1> USE DEF Goto, Raise, Write, At, shared, local
<1>0. TypeOK /\ TurnOK(t)
  BY DEF IInv
<1>1. CASE Begin(t) \/ SetState(t)
  BY <1>0, <1>1 DEF Begin, SetState, TypeOK, TurnOK, Unanswered
<1>2. CASE SetupFails(t) \/ Disconnect(t)
  BY <1>0, <1>2 DEF SetupFails, Disconnect, TypeOK, TurnOK, Unanswered
<1>3. CASE LoadSession(t) \/ BuildContext(t) \/ PlanTool(t) \/ ComposeResult(t)
  BY <1>0, <1>3 DEF LoadSession, BuildContext, PlanTool, ComposeResult, Transition, TypeOK, TurnOK,
     Unanswered
<1>4. CASE EnterModelCalling(t) \/ CheckModel(t)
  BY <1>0, <1>4 DEF EnterModelCalling, CheckModel, Transition, Error, TypeOK, TurnOK, Unanswered
<1>5. CASE PersistUserMessage(t)
  BY <1>0, <1>5 DEF PersistUserMessage, Error, TypeOK, TurnOK, Unanswered
<1>6. CASE Persist(t)
  <2>1. pc[t] = "persist" /\ written[t] = {"user"} /\ result[t] = NoResult
    BY <1>0, <1>6 DEF Persist, TurnOK, Unanswered
  <2>2. CASE Error(t)
    BY <1>0, <2>1, <2>2 DEF Error, TypeOK, TurnOK, Unanswered
  <2>3. CASE Write(t, "assistant") /\ Goto(t, "audit") /\ UNCHANGED <<shared, local, result>>
    <3>1. pc'[t] = "audit" /\ written'[t] = {"user", "assistant"} /\ result'[t] = NoResult
      BY <1>0, <2>1, <2>3 DEF TypeOK
    <3> QED BY <3>1 DEF TurnOK, Unanswered, NoResult
  <2> QED BY <1>6, <2>2, <2>3 DEF Persist
<1>7. CASE Reply(t) \/ BeginRound(t) \/ EndRound(t)
  BY <1>0, <1>7 DEF Reply, BeginRound, EndRound, Error, TypeOK, TurnOK, Unanswered
<1>8. CASE Dispatch(t) \/ Executed(t)
  BY <1>0, <1>8 DEF Dispatch, Executed, TypeOK, TurnOK, Unanswered
<1>9. CASE Complete(t)
  <2>1. CASE Allowed("completed")
    <3>1. /\ pc[t] = "audit" /\ pc' = [pc EXCEPT ![t] = "over"] /\ written' = written
          /\ result' = [result EXCEPT ![t] = [state |-> "completed", cause |-> "none"]]
      BY <1>9, <2>1 DEF Complete
    <3> QED BY <1>0, <3>1 DEF TypeOK, TurnOK, Unanswered
  <2>2. CASE ~Allowed("completed")
    <3>1. pc[t] = "audit" /\ Raise(t, "transition") /\ written' = written
      BY <1>9, <2>2 DEF Complete
    <3> QED BY <1>0, <3>1 DEF TypeOK, TurnOK, Unanswered
  <2> QED BY <2>1, <2>2
<1>10. CASE Handle(t)
  <2>1. pc[t] = "handle" /\ pc' = [pc EXCEPT ![t] = "over"] /\ UNCHANGED <<written, result>>
    BY <1>10 DEF Handle
  <2> QED BY <1>0, <2>1 DEF TypeOK, TurnOK, Unanswered
<1> QED BY <1>1, <1>2, <1>3, <1>4, <1>5, <1>6, <1>7, <1>8, <1>9, <1>10
        DEF KernelStep, TurnStep

(* A turn that does not move keeps what it has written.                    *)
LEMMA OthersKeep ==
    ASSUME IInv, NEW t \in Turns, Alone(t), NEW d \in Turns \ {t}
    PROVE  TurnOK(d)'
BY DEF IInv, Alone, TurnOK

-----------------------------------------------------------------------------
(* The budgets.                                                            *)

LEMMA PendingRange ==
    ASSUME IInv, NEW t \in Turns
    PROVE  Pending(t) \in 0..(1 + MaxToolRounds)
<1>1. /\ round[t] \in 0..MaxToolRounds /\ (pc[t] \in {"tools", "executing"} => round[t] > 0)
  BY DEF IInv, TypeOK, Counted
<1> QED BY <1>1, Numbers DEF Pending

\* Whoever has a credit is in flight.
LEMMA CreditsInFlight ==
    Credits \subseteq InFlight \X (1..(1 + MaxToolRounds)) /\ Calling \subseteq InFlight
<1>1. \A t \in Turns : ~Running(t) => Pending(t) = 0
  BY DEF Running, Pending
<1> QED BY <1>1 DEF Credits, InFlight, Calling, Running

(* The turns in flight bound the credits and the calls.                    *)
FewFly == IsFiniteSet(InFlight) /\ Cardinality(InFlight) <= Threads

FewCalls ==
    /\ IsFiniteSet(Credits) /\ Cardinality(Credits) \in Nat
    /\ Cardinality(Credits) <= Threads * (1 + MaxToolRounds)
    /\ IsFiniteSet(Calling) /\ Cardinality(Calling) \in Nat
    /\ Cardinality(Calling) <= Threads

LEMMA CreditsBounded == FewFly => FewCalls
<1> SUFFICES ASSUME FewFly PROVE FewCalls
  OBVIOUS
<1> USE DEF FewFly
<1> DEFINE n == 1 + MaxToolRounds
           c == Cardinality(InFlight)
<1>1. n \in Nat /\ c \in Nat
  BY Numbers, FS_CardinalityType
<1>2. IsFiniteSet(1..n) /\ Cardinality(1..n) = n
  BY <1>1, FS_Interval
<1>3. IsFiniteSet(InFlight \X (1..n)) /\ Cardinality(InFlight \X (1..n)) = c * n
  BY <1>2, FS_Product
<1>4. IsFiniteSet(Credits) /\ Cardinality(Credits) <= c * n
  BY <1>3, CreditsInFlight, FS_Subset
<1>5. IsFiniteSet(Calling) /\ Cardinality(Calling) <= c
  BY CreditsInFlight, FS_Subset
<1>6. c * n <= Threads * n
  <2>1. Threads \in Nat /\ c <= Threads
    BY Numbers
  <2> HIDE DEF c, n
  <2> QED BY <1>1, <2>1, SMTT(30)
<1>7. Cardinality(Credits) \in Nat /\ Cardinality(Calling) \in Nat
  BY <1>4, <1>5, FS_CardinalityType
<1>8. c * n \in Nat /\ Threads * n \in Nat
  BY <1>1, Numbers
<1> HIDE DEF c, n
<1>9. Cardinality(Credits) <= Threads * n /\ Cardinality(Calling) <= Threads
  <2>1. c <= Threads
    BY DEF c
  <2> QED BY <1>1, <1>4, <1>5, <1>6, <1>7, <1>8, <2>1, Numbers
<1> QED BY <1>4, <1>5, <1>7, <1>9 DEF n, FewCalls

(* One turn's credits change by what it has pending.                       *)
LEMMA CreditsSpent ==
    ASSUME IInv, NEW t \in Turns, \A d \in Turns \ {t} : Pending(d)' = Pending(d),
           Pending(t)' \in 0..(1 + MaxToolRounds)
    PROVE  /\ IsFiniteSet(Credits')
           /\ Cardinality(Credits') = Cardinality(Credits) - Pending(t) + Pending(t)'
           /\ Cardinality(Credits) \in Nat /\ Cardinality(Credits') \in Nat
<1> DEFINE Hand(p) == {t} \X (1..p)
           rest == {c \in Credits : c[1] # t}
<1>1. IsFiniteSet(Credits) /\ Cardinality(Credits) \in Nat
  BY CreditsBounded DEF IInv, Counted, FewFly, FewCalls
<1>2. Pending(t) \in 0..(1 + MaxToolRounds)
  BY PendingRange
<1>3. ASSUME NEW p \in 0..(1 + MaxToolRounds)
      PROVE  IsFiniteSet(Hand(p)) /\ Cardinality(Hand(p)) = p
  <2>0. IsFiniteSet({t}) /\ Cardinality({t}) = 1
    BY FS_Singleton, Zenon
  <2>1. p \in Nat /\ IsFiniteSet({t}) /\ Cardinality({t}) = 1
    BY <2>0, Numbers
  <2>2. IsFiniteSet(1..p) /\ Cardinality(1..p) = p
    BY <2>1, FS_Interval
  <2>3. /\ IsFiniteSet({t} \X (1..p))
        /\ Cardinality({t} \X (1..p)) = Cardinality({t}) * Cardinality(1..p)
    BY <2>1, <2>2, FS_Product, Zenon
  <2>4. Cardinality({t}) * Cardinality(1..p) = p
    BY <2>1, <2>2
  <2> QED BY <2>3, <2>4, Zenon
<1>4. Credits = rest \cup Hand(Pending(t)) /\ rest \cap Hand(Pending(t)) = {}
  BY <1>2, Numbers DEF Credits
<1>5. Credits' = rest \cup Hand(Pending(t)') /\ rest \cap Hand(Pending(t)') = {}
  BY Numbers DEF Credits
<1>6. IsFiniteSet(rest)
  BY <1>1, FS_Subset
<1> HIDE DEF Hand, rest
<1>9. Cardinality(rest) \in Nat
  BY <1>6, FS_CardinalityType
<1>E. Cardinality({}) = 0
  BY FS_EmptySet
<1>7. Cardinality(Credits) = Cardinality(rest) + Pending(t)
  BY <1>2, <1>3, <1>4, <1>6, <1>9, <1>E, FS_Union
<1>8. IsFiniteSet(Credits') /\ Cardinality(Credits') = Cardinality(rest) + Pending(t)'
  BY <1>3, <1>5, <1>6, <1>9, <1>E, FS_Union
<1> QED BY <1>1, <1>2, <1>7, <1>8, <1>9

\* What t may still do to the calls of tools.
Tool(t) == IF pc[t] = "executing" THEN 1 ELSE 0

(* Every call is either one that the turn held a credit for, or the budget *)
(* has just been compared.                                                 *)
Spends(t) ==
    /\ Pending(t)' \in 0..(1 + MaxToolRounds)
    /\ \/ modelCalls' + Pending(t)' <= modelCalls + Pending(t)
       \/ modelCalls' = modelCalls /\ modelCalls < MaxModelCalls
    /\ \/ toolCalls' + Tool(t)' <= toolCalls + Tool(t)
       \/ toolCalls' = toolCalls /\ toolCalls < MaxToolCalls
    /\ pc'[t] \in {"tools", "executing"} => round'[t] > 0

LEMMA StepSpends ==
    ASSUME IInv, TypeOK', NEW t \in Turns, KernelStep(t)
    PROVE  Spends(t)
<1> USE DEF Goto, Raise, At, shared, local
<1>0. /\ TypeOK /\ modelCalls \in Nat /\ toolCalls \in Nat /\ round[t] \in 0..MaxToolRounds
      /\ round'[t] \in 0..MaxToolRounds /\ modelCalls' \in Nat /\ toolCalls' \in Nat
      /\ (pc[t] \in {"tools", "executing"} => round[t] > 0)
      /\ (pc[t] \in {"check", "reply"} => round[t] = 0)
  BY DEF IInv, TypeOK, Counted, TurnOK
<1>Q. ASSUME pc'[t] \notin {"reply", "plan", "rounds", "tools", "executing"},
             modelCalls' = modelCalls, toolCalls' <= toolCalls + Tool(t)
      PROVE  Spends(t)
  <2>1. Pending(t)' = 0 /\ Tool(t)' = 0
    BY <1>Q DEF Pending, Tool
  <2> QED BY <1>0, <1>Q, <2>1, PendingRange, Numbers DEF Spends
<1>N. Tool(t) \in {0, 1}
  BY DEF Tool
<1>1. CASE SetState(t)
  <2>1. pc'[t] = pc[t] /\ round'[t] = round[t] /\ UNCHANGED <<modelCalls, toolCalls>>
    BY <1>1 DEF SetState
  <2>2. Pending(t)' = Pending(t) /\ Tool(t)' = Tool(t)
    BY <2>1 DEF Pending, Tool
  <2> QED BY <1>0, <1>N, <2>1, <2>2, PendingRange DEF Spends
<1>2. CASE Begin(t) \/ SetupFails(t) \/ Disconnect(t) \/ LoadSession(t) \/ BuildContext(t)
           \/ PersistUserMessage(t) \/ EnterModelCalling(t) \/ Persist(t) \/ Complete(t)
           \/ Handle(t) \/ ComposeResult(t)
  <2>1. UNCHANGED <<modelCalls, toolCalls>>
    BY <1>2 DEF Begin, SetupFails, Disconnect, LoadSession, BuildContext, PersistUserMessage,
       EnterModelCalling, Persist, Complete, Handle, ComposeResult, Error
  <2>2. pc'[t] \notin {"reply", "plan", "rounds", "tools", "executing"}
    BY <1>0, <1>2 DEF Begin, SetupFails, Disconnect, LoadSession, BuildContext, PersistUserMessage,
       EnterModelCalling, Persist, Complete, Handle, ComposeResult, Error, Transition, TypeOK
  <2> QED BY <1>0, <1>N, <1>Q, <2>1, <2>2
<1>3. CASE CheckModel(t)
  <2>1. UNCHANGED <<modelCalls, toolCalls, round>> /\ pc[t] = "check"
    BY <1>3 DEF CheckModel
  <2>2. CASE pc'[t] = "handle"
    BY <1>0, <1>N, <1>Q, <2>1, <2>2
  <2>3. CASE pc'[t] = "reply"
    <3>1. modelCalls < MaxModelCalls
      BY <1>0, <1>3, <2>3 DEF CheckModel, TypeOK
    <3>2. Pending(t)' = 1 + MaxToolRounds /\ Tool(t)' = 0 /\ Tool(t) = 0
      BY <2>1, <2>3 DEF Pending, Tool
    <3>3. round[t] = 0
      BY <2>1 DEF IInv, TurnOK
    <3> QED BY <1>0, <2>1, <2>3, <3>1, <3>2, <3>3, Numbers DEF Spends
  <2> QED BY <1>0, <1>3, <2>2, <2>3 DEF CheckModel, TypeOK
<1>4. CASE Reply(t)
  <2>1. CASE Error(t)
    BY <1>0, <1>N, <1>Q, <2>1 DEF Error, TypeOK
  <2>2. CASE ~Error(t)
    <3>1. /\ pc[t] = "reply" /\ pc'[t] = "plan" /\ modelCalls' = modelCalls + 1
          /\ UNCHANGED <<toolCalls, round>>
      BY <1>0, <1>4, <2>2 DEF Reply, Replied, TypeOK
    <3>2. Pending(t) = 1 + MaxToolRounds /\ Pending(t)' = MaxToolRounds - round[t]
          /\ Tool(t) = 0 /\ Tool(t)' = 0
      BY <3>1 DEF Pending, Tool
    <3> QED BY <1>0, <3>1, <3>2, Numbers DEF Spends
  <2> QED BY <2>1, <2>2
<1>5. CASE PlanTool(t)
  <2>1. pc[t] = "plan" /\ UNCHANGED <<modelCalls, toolCalls, round>>
    BY <1>5 DEF PlanTool
  <2>2. CASE pc'[t] = "handle"
    BY <1>0, <1>N, <1>Q, <2>1, <2>2
  <2>3. CASE pc'[t] = "rounds"
    <3>1. Pending(t)' = Pending(t) /\ Tool(t) = 0 /\ Tool(t)' = 0
      BY <2>1, <2>3 DEF Pending, Tool
    <3> QED BY <1>0, <2>1, <2>3, <3>1, PendingRange DEF Spends
  <2> QED BY <1>0, <1>5, <2>2, <2>3 DEF PlanTool, Transition, TypeOK
<1>6. CASE BeginRound(t)
  <2>1. /\ pc[t] = "rounds" /\ pc'[t] = "tools" /\ round'[t] = round[t] + 1
        /\ UNCHANGED <<modelCalls, toolCalls>>
    BY <1>0, <1>6 DEF BeginRound, TypeOK
  <2>2. /\ Pending(t) = MaxToolRounds - round[t]
        /\ Pending(t)' = 1 + MaxToolRounds - round'[t] /\ Tool(t) = 0 /\ Tool(t)' = 0
    BY <2>1 DEF Pending, Tool
  <2> QED BY <1>0, <2>1, <2>2, Numbers DEF Spends
<1>7. CASE Dispatch(t)
  <2>1. pc[t] = "tools" /\ UNCHANGED <<modelCalls, toolCalls, round>>
    BY <1>7 DEF Dispatch
  <2>2. CASE pc'[t] = "handle"
    BY <1>0, <1>N, <1>Q, <2>1, <2>2
  <2>3. CASE pc'[t] = "executing"
    <3>1. toolCalls < MaxToolCalls
      BY <1>0, <1>7, <2>3 DEF Dispatch, TypeOK
    <3>2. Pending(t)' = Pending(t)
      BY <2>1, <2>3 DEF Pending
    <3> QED BY <1>0, <2>1, <2>3, <3>1, <3>2, PendingRange DEF Spends
  <2> QED BY <1>0, <1>7, <2>2, <2>3 DEF Dispatch, TypeOK
<1>8. CASE Executed(t)
  <2>1. /\ pc[t] = "executing" /\ UNCHANGED <<modelCalls, round>>
        /\ toolCalls' = toolCalls \/ toolCalls' = toolCalls + 1
        /\ pc'[t] \in {"handle", "tools"}
    BY <1>0, <1>8 DEF Executed, TypeOK
  <2>2. Tool(t) = 1 /\ Tool(t)' = 0
    BY <2>1 DEF Tool
  <2>3. CASE pc'[t] = "handle"
    BY <1>0, <1>Q, <2>1, <2>2, <2>3
  <2>4. CASE pc'[t] = "tools"
    <3>1. Pending(t)' = Pending(t)
      BY <2>1, <2>4 DEF Pending
    <3>2. Pending(t) \in 0..(1 + MaxToolRounds) /\ modelCalls' = modelCalls
      BY <2>1, PendingRange
    <3>3. toolCalls' + 0 <= toolCalls + 1 /\ round'[t] > 0
      <4>1. toolCalls \in Nat
        BY <1>0 DEF TypeOK
      <4>2. toolCalls' + 0 <= toolCalls + 1
        BY <2>1, <4>1
      <4> QED BY <1>0, <2>1, <4>2, Zenon
    <3>4. toolCalls' + Tool(t)' <= toolCalls + Tool(t)
      BY <2>2, <3>3
    <3>5. modelCalls' + Pending(t)' <= modelCalls + Pending(t)
      BY <1>0, <3>1, <3>2, Numbers
    <3> QED BY <3>1, <3>2, <3>3, <3>4, <3>5 DEF Spends
  <2> QED BY <2>1, <2>3, <2>4
<1>9. CASE EndRound(t)
  <2>1. CASE Error(t)
    BY <1>0, <1>N, <1>Q, <2>1 DEF Error, TypeOK
  <2>2. CASE ~Error(t)
    <3>1. /\ pc[t] = "tools" /\ pc'[t] = "rounds"
          /\ modelCalls' = modelCalls \/ modelCalls' = modelCalls + 1
          /\ UNCHANGED <<toolCalls, round>>
      BY <1>0, <1>9, <2>2 DEF EndRound, Replied, TypeOK
    <3>2. Pending(t) = 1 + MaxToolRounds - round[t] /\ Pending(t)' = MaxToolRounds - round[t]
          /\ Tool(t) = 0 /\ Tool(t)' = 0
      BY <3>1 DEF Pending, Tool
    <3> QED BY <1>0, <3>1, <3>2, Numbers DEF Spends
  <2> QED BY <2>1, <2>2
<1> QED BY <1>1, <1>2, <1>3, <1>4, <1>5, <1>6, <1>7, <1>8, <1>9 DEF KernelStep, TurnStep

(* Beginning is the only way into flight.                                  *)
LEMMA StepFlight ==
    ASSUME IInv, NEW t \in Turns, KernelStep(t), Alone(t)
    PROVE  IsFiniteSet(InFlight') /\ Cardinality(InFlight') <= Threads
<1>0. /\ IsFiniteSet(InFlight) /\ Cardinality(InFlight) <= Threads
      /\ Cardinality(InFlight) \in Nat /\ TypeOK
  BY FS_CardinalityType DEF IInv, Counted
<1>1. \A d \in Turns \ {t} : Running(d)' = Running(d)
  BY DEF Alone, Running
<1>2. CASE Begin(t)
  <2>1. InFlight' \subseteq InFlight \cup {t} /\ Cardinality(InFlight) < Threads
    BY <1>1, <1>2 DEF Begin, InFlight
  <2>0. /\ IsFiniteSet(InFlight \cup {t})
        /\ \/ Cardinality(InFlight \cup {t}) = Cardinality(InFlight)
           \/ Cardinality(InFlight \cup {t}) = Cardinality(InFlight) + 1
    BY <1>0, FS_AddElement
  <2>2. IsFiniteSet(InFlight \cup {t})
        /\ Cardinality(InFlight \cup {t}) <= Cardinality(InFlight) + 1
        /\ Cardinality(InFlight \cup {t}) \in Nat
    BY <1>0, <2>0
  <2>3. IsFiniteSet(InFlight') /\ Cardinality(InFlight') <= Cardinality(InFlight \cup {t})
    BY <2>1, <2>2, FS_Subset
  <2>4. Cardinality(InFlight') \in Nat
    BY <2>3, FS_CardinalityType
  <2> QED BY <1>0, <2>1, <2>2, <2>3, <2>4, Numbers
<1>3. CASE TurnStep(t) \/ Disconnect(t)
  <2>1. Running(t)
    BY <1>3 DEF TurnStep, Disconnect, SetState, SetupFails, LoadSession, PersistUserMessage,
       BuildContext, EnterModelCalling, CheckModel, Reply, PlanTool, BeginRound, Dispatch, Executed,
       EndRound, ComposeResult, Persist, Complete, Handle, At, Running
  <2>2. InFlight' \subseteq InFlight
    BY <1>1, <2>1 DEF InFlight
  <2>3. IsFiniteSet(InFlight') /\ Cardinality(InFlight') <= Cardinality(InFlight)
    BY <1>0, <2>2, FS_Subset
  <2>4. Cardinality(InFlight') \in Nat
    BY <2>3, FS_CardinalityType
  <2> QED BY <1>0, <2>3, <2>4, Numbers
<1> QED BY <1>2, <1>3 DEF KernelStep

(* The tools that run change by what the turn does.                        *)
LEMMA CallingMoves ==
    ASSUME IInv, NEW t \in Turns, Alone(t)
    PROVE  /\ Cardinality(Calling') = Cardinality(Calling) - Tool(t) + Tool(t)'
           /\ Cardinality(Calling) \in Nat
<1>1. IsFiniteSet(Calling) /\ Cardinality(Calling) \in Nat
  BY CreditsBounded DEF IInv, Counted, FewFly, FewCalls
<1>2. IsFiniteSet(Calling \ {t}) /\ Cardinality(Calling \ {t}) \in Nat
  BY <1>1, FS_Subset, FS_CardinalityType
<1>3. Calling = IF pc[t] = "executing" THEN (Calling \ {t}) \cup {t} ELSE Calling \ {t}
  BY DEF Calling
<1>4. Calling' = IF pc'[t] = "executing" THEN (Calling \ {t}) \cup {t} ELSE Calling \ {t}
  BY DEF Calling, Alone
<1>5. Cardinality((Calling \ {t}) \cup {t}) = Cardinality(Calling \ {t}) + 1
  BY <1>2, FS_AddElement
<1>6. Cardinality(Calling) = Cardinality(Calling \ {t}) + Tool(t)
  BY SMTT(60), <1>2, <1>3, <1>5 DEF Tool
<1>7. Cardinality(Calling') = Cardinality(Calling \ {t}) + Tool(t)'
  BY <1>2, <1>4, <1>5 DEF Tool
<1> QED BY <1>1, <1>2, <1>6, <1>7 DEF Tool

LEMMA StepCounted ==
    ASSUME IInv, TypeOK', NEW t \in Turns, KernelStep(t), Alone(t)
    PROVE  Counted'
<1>1. Spends(t)
  BY StepSpends
<1>2. IsFiniteSet(InFlight') /\ Cardinality(InFlight') <= Threads
  BY StepFlight
<1>3. /\ Cardinality(Credits') \in Nat
      /\ Cardinality(Credits') <= Threads * (1 + MaxToolRounds)
      /\ Cardinality(Calling') \in Nat /\ Cardinality(Calling') <= Threads
  <2>1. FewFly'
    BY <1>2 DEF FewFly
  <2>2. FewCalls'
    BY <2>1, CreditsBounded, PTL
  <2> QED BY <2>2 DEF FewCalls
<1>4. \A d \in Turns \ {t} : Pending(d)' = Pending(d)
  BY DEF Alone, Pending
<1>5. Cardinality(Credits') = Cardinality(Credits) - Pending(t) + Pending(t)'
      /\ Cardinality(Credits) \in Nat
  BY <1>1, <1>4, CreditsSpent DEF Spends
<1>6. Cardinality(Calling') = Cardinality(Calling) - Tool(t) + Tool(t)'
      /\ Cardinality(Calling) \in Nat
  BY CallingMoves
<1>7. /\ modelCalls \in Nat /\ modelCalls' \in Nat /\ toolCalls \in Nat /\ toolCalls' \in Nat
      /\ modelCalls + Cardinality(Credits) < MaxModelCalls + Threads * (1 + MaxToolRounds)
      /\ toolCalls + Cardinality(Calling) < MaxToolCalls + Threads
  BY DEF IInv, TypeOK, Counted
<1>8. \A d \in Turns : pc'[d] \in {"tools", "executing"} => round'[d] > 0
  BY <1>1 DEF IInv, Counted, Alone, Spends
<1>9. /\ Pending(t) \in 0..(1 + MaxToolRounds) /\ Pending(t)' \in 0..(1 + MaxToolRounds)
      /\ Tool(t) \in {0, 1} /\ Tool(t)' \in {0, 1}
  BY <1>1, PendingRange DEF Spends, Tool
<1>10. Threads * (1 + MaxToolRounds) \in Nat
  BY Numbers
<1>11. modelCalls' + Cardinality(Credits') < MaxModelCalls + Threads * (1 + MaxToolRounds)
  <2> DEFINE top == Threads * (1 + MaxToolRounds)
  <2>1. modelCalls' + Cardinality(Credits') < MaxModelCalls + top
    <3>1. CASE modelCalls' + Pending(t)' <= modelCalls + Pending(t)
      <4> HIDE DEF top
      <4> QED BY <1>5, <1>7, <1>9, <1>10, <3>1, Numbers DEF top
    <3>2. CASE modelCalls' = modelCalls /\ modelCalls < MaxModelCalls
      <4>1. top \in Nat /\ Cardinality(Credits') <= top
        BY <1>3, <1>10
      <4> HIDE DEF top
      <4> QED BY <1>3, <1>7, <3>2, <4>1, Numbers
    <3> QED BY <1>1, <3>1, <3>2 DEF Spends
  <2> QED BY <2>1
<1>12. toolCalls' + Cardinality(Calling') < MaxToolCalls + Threads
  BY <1>1, <1>3, <1>6, <1>7, <1>9, Numbers DEF Spends
<1> QED BY <1>2, <1>8, <1>11, <1>12 DEF Counted

-----------------------------------------------------------------------------
(* The theorems.                                                           *)

(* Every step preserves the inductive invariant.                           *)
LEMMA NextIInv == IInv /\ [Next]_vars => IInv'
<1> SUFFICES ASSUME IInv, [Next]_vars PROVE IInv'
  OBVIOUS
<1>1. ASSUME NEW t \in Turns, KernelStep(t) PROVE IInv'
  <2>1. TypeOK' /\ Alone(t)
    BY <1>1, StepTypes, StepAlone
  <2>2. MachineOK' /\ TurnOK(t)' /\ Counted'
    BY <1>1, <2>1, StepMachine, StepTurn, StepCounted
  <2>3. \A d \in Turns \ {t} : TurnOK(d)'
    BY <2>1, OthersKeep
  <2> QED BY <2>1, <2>2, <2>3 DEF IInv
<1>2. CASE UNCHANGED vars
  <2>1. TypeOK' /\ MachineOK' /\ \A t \in Turns : TurnOK(t)'
    BY <1>2 DEF IInv, TypeOK, MachineOK, TurnOK, vars, shared, local
  <2>2. Counted'
    <3>1. \A t \in Turns : Running(t)' = Running(t) /\ Pending(t)' = Pending(t)
      BY <1>2 DEF vars, shared, local, Running, Pending
    <3>2. InFlight' = InFlight /\ Credits' = Credits /\ Calling' = Calling
      BY <1>2, <3>1 DEF vars, InFlight, Credits, Calling
    <3> QED BY <1>2, <3>2 DEF IInv, Counted, vars, shared, local
  <2> QED BY <2>1, <2>2 DEF IInv
<1> QED BY <1>1, <1>2 DEF Next, KernelStep

(* In every behaviour the invariant holds.                                 *)
THEOREM KernelInvariance == Spec => []IInv
BY InitIInv, NextIInv, PTL DEF Spec

(* Every variable of the kernel has its type.                              *)
THEOREM KernelTypes == Spec => []TypeOK
<1>1. IInv => TypeOK
  BY DEF IInv
<1> QED BY <1>1, KernelInvariance, PTL

(* The machine that all turns share never rests where no later turn could  *)
(* free it (shared/state.py, RuntimeKernel._safe_transition).              *)
THEOREM MachineIsRecoverable == Spec => []MachineRecoverable
<1>1. IInv => MachineRecoverable
  BY ReachedFacts DEF IInv, MachineOK, MachineRecoverable, Allowed
<1> QED BY <1>1, KernelInvariance, PTL

(* However many turns overlap, the budgets are exceeded by no more than    *)
(* what those in flight may add (TurnBudget, _check_budget).               *)
THEOREM BudgetsHold == Spec => []BudgetOvershoot
<1>1. ASSUME IInv PROVE BudgetOvershoot
  <2>1. Cardinality(Credits) \in Nat /\ Cardinality(Calling) \in Nat
    BY <1>1, CreditsBounded DEF IInv, Counted, FewFly, FewCalls
  <2>2. Threads * (1 + MaxToolRounds) \in Nat /\ modelCalls \in Nat /\ toolCalls \in Nat
    BY <1>1, Numbers DEF IInv, TypeOK
  <2> DEFINE top == Threads * (1 + MaxToolRounds)
  <2>3. modelCalls + Cardinality(Credits) < MaxModelCalls + top
        /\ toolCalls + Cardinality(Calling) < MaxToolCalls + Threads /\ top \in Nat
    BY <1>1, <2>2 DEF IInv, Counted
  <2>4. modelCalls < MaxModelCalls + top /\ toolCalls < MaxToolCalls + Threads
    <3> HIDE DEF top
    <3> QED BY <2>1, <2>2, <2>3, Numbers
  <2> QED BY <2>4 DEF BudgetOvershoot
<1> QED BY <1>1, KernelInvariance, PTL

(* What a turn reports and what the session holds agree (TurnResult,       *)
(* _run_after_turn and the handlers of process).                           *)
THEOREM TranscriptsAgree == Spec => []TranscriptAgrees
<1>1. IInv => TranscriptAgrees
  BY DEF IInv, TurnOK, TranscriptAgrees
<1> QED BY <1>1, KernelInvariance, PTL

-----------------------------------------------------------------------------
(* The router.  Least numbers.                                             *)

LEMMA LeastNumber ==
    ASSUME NEW S \in SUBSET Nat, S # {}
    PROVE  \E i \in S : \A j \in S : i <= j
<1> DEFINE less == {p \in Nat \X Nat : p[1] < p[2]}
<1>1. IsWellFoundedOn(less, Nat)
  BY NatLessThanWellFounded DEF OpToRel
<1>2. \E i \in S : \A j \in S : <<j, i>> \notin less
  <2> HIDE DEF less
  <2> QED BY <1>1, WFMin
<1>3. PICK i \in S : \A j \in S : <<j, i>> \notin less
  BY <1>2
<1>4. \A j \in S : ~(j < i)
  BY <1>3
<1> QED BY <1>3, <1>4

LEMMA MinIsLeast ==
    ASSUME NEW S \in SUBSET Nat, S # {}
    PROVE  Min(S) \in S /\ \A j \in S : Min(S) <= j
BY LeastNumber DEF Min

LEMMA MinOfTwo ==
    ASSUME NEW a \in Int, NEW b \in Int
    PROVE  Min({a, b}) = IF a <= b THEN a ELSE b
BY DEF Min

LEMMA MaxOfTwo ==
    ASSUME NEW a \in Int, NEW b \in Int
    PROVE  Max({a, b}) = IF a >= b THEN a ELSE b
BY DEF Max

-----------------------------------------------------------------------------
(* The order of the candidates.                                            *)

Keys == [1 .. 11 -> Int]

LEMMA PrecedesIsStrict ==
    ASSUME NEW k \in Keys
    PROVE  ~ Precedes(k, k)
BY DEF Precedes, Keys

LEMMA PrecedesIsTransitive ==
    ASSUME NEW k \in Keys, NEW l \in Keys, NEW m \in Keys, Precedes(k, l), Precedes(l, m)
    PROVE  Precedes(k, m)
<1>1. PICK i \in 1 .. 11 : k[i] < l[i] /\ \A j \in 1 .. (i - 1) : k[j] = l[j]
  BY DEF Precedes, Keys
<1>2. PICK h \in 1 .. 11 : l[h] < m[h] /\ \A j \in 1 .. (h - 1) : l[j] = m[j]
  BY DEF Precedes, Keys
<1>3. CASE i <= h
  <2>1. k[i] < m[i]
    BY <1>1, <1>2, <1>3 DEF Keys
  <2>2. \A j \in 1 .. (i - 1) : k[j] = m[j]
    BY <1>1, <1>2, <1>3 DEF Keys
  <2> QED BY <2>1, <2>2 DEF Precedes, Keys
<1>4. CASE h < i
  <2>1. k[h] < m[h]
    BY <1>1, <1>2, <1>4 DEF Keys
  <2>2. \A j \in 1 .. (h - 1) : k[j] = m[j]
    BY <1>1, <1>2, <1>4 DEF Keys
  <2> QED BY <2>1, <2>2 DEF Precedes, Keys
<1> QED BY <1>3, <1>4

LEMMA PrecedesIsTotal ==
    ASSUME NEW k \in Keys, NEW l \in Keys, k # l
    PROVE  Precedes(k, l) \/ Precedes(l, k)
<1> DEFINE differ == {i \in 1 .. 11 : k[i] # l[i]}
<1>1. differ # {}
  BY DEF Keys
<1>2. differ \in SUBSET Nat
  OBVIOUS
<1>3. PICK i \in differ : \A j \in differ : i <= j
  <2> HIDE DEF differ
  <2> QED BY <1>1, <1>2, LeastNumber
<1>4. i \in 1 .. 11 /\ k[i] # l[i] /\ \A j \in 1 .. (i - 1) : k[j] = l[j]
  BY <1>3
<1>5. k[i] \in Int /\ l[i] \in Int
  BY <1>4 DEF Keys
<1>6. CASE k[i] < l[i]
  BY <1>4, <1>6 DEF Precedes, Keys
<1>7. CASE l[i] < k[i]
  BY <1>4, <1>7 DEF Precedes, Keys
<1> QED BY <1>4, <1>5, <1>6, <1>7

Live == {"healthy", "degraded", "probing"}

LEMMA KeysAreNumbers ==
    ASSUME NEW r \in Requests, NEW c \in Candidates, NEW status \in Live
    PROVE  Key[r][c][status] \in Keys /\ Key[r][c][status][11] = c
<1> DEFINE images == Cardinality(Profile[c].modalities \ r.modalities)
           skills == Cardinality(Profile[c].capabilities \ r.capabilities)
<1>1. images \in Nat
  <2>1. IsFiniteSet(Profile[c].modalities \ r.modalities)
    BY ProfileAssumption, FS_Subset
  <2> QED BY <2>1, FS_CardinalityType
<1>2. skills \in Nat
  <2>1. IsFiniteSet(Profile[c].capabilities \ r.capabilities)
    BY ProfileAssumption, FS_Subset
  <2> QED BY <2>1, FS_CardinalityType
<1>3. PreferredIndex(c, r) \in Nat
  <2> DEFINE places == {i \in DOMAIN r.preferred : r.preferred[i] = c}
  <2>1. DOMAIN r.preferred \subseteq Nat
    BY RequestAssumption
  <2>2. places \in SUBSET Nat
    BY <2>1
  <2>3. places = {} \/ Min(places) \in Nat
    <3> HIDE DEF places
    <3> QED BY <2>2, MinIsLeast
  <2>4. PreferredIndex(c, r) = IF places = {} THEN 9999 ELSE Min(places)
    BY DEF PreferredIndex
  <2> QED BY <2>3, <2>4
<1>4. /\ Profile[c].priority \in Int /\ Profile[c].quality \in Int /\ Profile[c].latency \in Int
      /\ Profile[c].inputCost \in Int /\ Profile[c].outputCost \in Int
      /\ r.inputTokens \in Int /\ r.maxOutput \in Int /\ c \in Int
  BY ProfileAssumption, RequestAssumption, RouterAssumption
<1>5. EstimatedCost(c, r) \in Int
  BY <1>4 DEF EstimatedCost
<1>6. HealthRank(status) \in Int
  BY DEF HealthRank, Live
<1>7. \A b : Bit(b) \in Int
  BY DEF Bit
<1> DEFINE sameProvider == r.provider # "" /\ Profile[c].provider = r.provider
           sameModel == /\ r.model # "" /\ Profile[c].model = r.model
                        /\ r.provider = "" \/ Profile[c].provider = r.provider
           model == Bit(~sameModel)
           provider == Bit(~sameProvider)
           cost == EstimatedCost(c, r)
           rank == HealthRank(status)
           place == PreferredIndex(c, r)
           less == - Profile[c].quality
           priority == Profile[c].priority
           latency == Profile[c].latency
<1>8. Key[r][c][status]
        = <<model, provider, place, images, skills, rank, priority, less, cost, latency, c>>
  <2>1. Key[r][c][status] = SortKey(c, status, r)
    BY DEF Key, Live
  <2>2. SortKey(c, status, r)
          = <<model, provider, place, images, skills, rank, priority, less, cost, latency, c>>
    BY DEF SortKey
  <2> QED BY <2>1, <2>2
<1>9. /\ model \in Int /\ provider \in Int /\ place \in Int /\ images \in Int /\ skills \in Int
      /\ rank \in Int /\ priority \in Int /\ less \in Int /\ cost \in Int /\ latency \in Int /\ c \in Int
  <2>1. model \in Int /\ provider \in Int
    <3> HIDE DEF sameModel, sameProvider
    <3> QED BY <1>7
  <2>2. less \in Int
    <3> DEFINE quality == Profile[c].quality
    <3>1. quality \in Int
      BY <1>4
    <3> QED BY <3>1
  <2>3. priority \in Int /\ latency \in Int /\ cost \in Int /\ rank \in Int /\ place \in Int
    BY <1>3, <1>4, <1>5, <1>6
  <2> HIDE DEF model, provider, place, images, skills, rank, priority, less, cost, latency
  <2> QED BY <1>1, <1>2, <1>4, <2>1, <2>2, <2>3
<1> DEFINE k == Key[r][c][status]
<1> HIDE DEF model, provider, place, images, skills, rank, priority, less, cost, latency
<1>10. \A i \in 1 .. 11 : i = 1 \/ i = 2 \/ i = 3 \/ i = 4 \/ i = 5 \/ i = 6 \/ i = 7 \/ i = 8 \/ i = 9 \/ i = 10 \/ i = 11
  OBVIOUS
<1>11. /\ k = [i \in 1 .. 11 |-> k[i]]
       /\ k[1] = model /\ k[2] = provider /\ k[3] = place /\ k[4] = images /\ k[5] = skills /\ k[6] = rank
       /\ k[7] = priority /\ k[8] = less /\ k[9] = cost /\ k[10] = latency /\ k[11] = c
  BY <1>8
<1> HIDE DEF k
<1>12. \A i \in 1 .. 11 : k[i] \in Int
  BY <1>9, <1>10, <1>11
<1> QED BY <1>11, <1>12 DEF Keys, k


\* The candidates asked before c.
Before(c, r, status) == {d \in DOMAIN status : Precedes(Key[r][d][status[d]], Key[r][c][status[c]])}

Considered == UNION {[S -> Live] : S \in SUBSET Candidates}

\* ModelRouter.route: the sort keys order any candidates strictly, and Ordered lists each of those
\* considered exactly once, so a request asks no candidate twice and forgets none.
THEOREM OrderedEnumerates ==
    ASSUME NEW r \in Requests, NEW status \in Considered
    PROVE  LET n == Cardinality(DOMAIN status)
           IN  /\ n \in Nat
               /\ Ordered(r, status) \in [1 .. n -> DOMAIN status]
               /\ \A c \in DOMAIN status : \E i \in 1 .. n : Ordered(r, status)[i] = c
               /\ \A i \in 1 .. n, j \in 1 .. n : Ordered(r, status)[i] = Ordered(r, status)[j] => i = j
<1> DEFINE S == DOMAIN status
           n == Cardinality(S)
           key(c) == Key[r][c][status[c]]
           rank == [c \in S |-> Cardinality(Before(c, r, status))]
<1>1. S \subseteq Candidates /\ \A c \in S : status[c] \in Live
  BY DEF Considered
<1>2. IsFiniteSet(S) /\ n \in Nat
  BY <1>1, RouterAssumption, FS_Subset, FS_CardinalityType
<1>3. \A c \in S : key(c) \in Keys /\ key(c)[11] = c
  BY <1>1, KeysAreNumbers
<1>4. \A c \in S : Before(c, r, status) = {d \in S : Precedes(key(d), key(c))}
  BY DEF Before
<1> HIDE DEF key, S
<1>5. \A c \in S : c \notin Before(c, r, status)
  BY <1>3, <1>4, PrecedesIsStrict
<1>6. \A c \in S : /\ Before(c, r, status) \subseteq S /\ IsFiniteSet(Before(c, r, status))
                   /\ Cardinality(Before(c, r, status)) \in 0 .. (n - 1)
  <2> TAKE c \in S
  <2>1. Before(c, r, status) \subseteq S \ {c}
    BY <1>4, <1>5
  <2>2. /\ IsFiniteSet(Before(c, r, status)) /\ Cardinality(Before(c, r, status)) \in Nat
        /\ Cardinality(Before(c, r, status)) <= n
        /\ Cardinality(Before(c, r, status)) = n => S = Before(c, r, status)
    BY <1>2, <2>1, FS_Subset, FS_CardinalityType
  <2>3. Cardinality(Before(c, r, status)) # n
    BY <2>1, <2>2
  <2> QED BY <1>2, <2>1, <2>2, <2>3
<1>7. \A c \in S, d \in S : c # d => rank[c] # rank[d]
  <2>1. ASSUME NEW c \in S, NEW d \in S, Precedes(key(c), key(d))
        PROVE  rank[c] # rank[d]
    <3>1. Before(c, r, status) \subseteq Before(d, r, status)
      BY <1>3, <1>4, <2>1, PrecedesIsTransitive
    <3>2. c \in Before(d, r, status) /\ c \notin Before(c, r, status)
      BY <1>4, <1>5, <2>1
    <3>3. Cardinality(Before(c, r, status)) # Cardinality(Before(d, r, status))
      BY <1>6, <3>1, <3>2, FS_Subset
    <3> QED BY <3>3
  <2>2. \A c \in S, d \in S : c # d => key(c) # key(d)
    BY <1>3
  <2> QED BY <1>3, <2>1, <2>2, PrecedesIsTotal
<1>8. rank \in [S -> 0 .. (n - 1)]
  BY <1>6
<1>9. rank \in Injection(S, 0 .. (n - 1))
  BY <1>7, <1>8 DEF Injection, IsInjective
<1>10. IsFiniteSet(0 .. (n - 1)) /\ Cardinality(0 .. (n - 1)) = n
  BY <1>2, FS_Interval
<1>11. rank \in Surjection(S, 0 .. (n - 1))
  BY <1>9, <1>10, FS_Injection
<1>12. \A i \in 1 .. n : \E c \in S : rank[c] = i - 1
  <2> TAKE i \in 1 .. n
  <2>1. i - 1 \in 0 .. (n - 1)
    BY <1>2
  <2> HIDE DEF rank
  <2> QED BY <1>11, <2>1 DEF Surjection
<1> DEFINE order == [i \in 1 .. n |-> CHOOSE c \in S : rank[c] = i - 1]
<1>13. Ordered(r, status) = order
  <2>1. \A i \in 1 .. n : (CHOOSE c \in S : rank[c] = i - 1)
                            = CHOOSE c \in S : Cardinality(Before(c, r, status)) = i - 1
    OBVIOUS
  <2>2. Ordered(r, status)
          = [i \in 1 .. n |-> CHOOSE c \in S : Cardinality(Before(c, r, status)) = i - 1]
    BY DEF Ordered, Before, S
  <2> QED BY <2>1, <2>2
<1>14. \A i \in 1 .. n : order[i] \in S /\ rank[order[i]] = i - 1
  <2> TAKE i \in 1 .. n
  <2> HIDE DEF rank
  <2> QED BY <1>12
<1>15. \A c \in S : \E i \in 1 .. n : order[i] = c
  <2> TAKE c \in S
  <2>1. PICK i \in 1 .. n : i = rank[c] + 1
    BY <1>2, <1>8
  <2>2. rank[order[i]] = rank[c]
    BY <1>2, <1>8, <1>14, <2>1
  <2> QED BY <1>7, <1>14, <2>2
<1>16. order \in [1 .. n -> S]
  <2> HIDE DEF rank
  <2> QED BY <1>14
<1>17. \A i \in 1 .. n, j \in 1 .. n : order[i] = order[j] => i = j
  <2> HIDE DEF order, rank
  <2> QED BY <1>2, <1>14
<1> HIDE DEF order, rank
<1> QED BY <1>2, <1>13, <1>15, <1>16, <1>17 DEF S


-----------------------------------------------------------------------------
(* The inductive invariant.                                                *)

Health == [status : Live \cup {"unhealthy"}, failures : 0 .. FailureThreshold, shutFor : 0 .. RecoverySeconds]

Places == {"idle", "route", "ask", "count", "status", "until", "failed"}

\* A candidate has been asked and has not been done with.
Asked == {"ask", "count", "status", "until"}

Calls == [ pc : Places, stream : BOOLEAN, request : {Idle.request} \cup Requests,
           ahead : SUBSET Candidates, status : Considered, order : Seq(Candidates), next : Nat \ {0},
           chunks : Nat, heard : SUBSET Candidates, count : 0 .. FailureThreshold, held : BOOLEAN ]

RouterTypeOK ==
    /\ health \in [Candidates -> Health]
    /\ inARow \in [Candidates -> 0 .. FailureThreshold]
    /\ call \in [Callers -> Calls]

\* The place of a call: a request on its way has candidates ahead and considered only others,
\* one that is asking has a candidate to ask, whose words alone its caller has heard.
Placed(k) ==
    /\ k.pc = "route" =>
         /\ k.request \in Requests /\ k.ahead # {}
         /\ DOMAIN k.status \subseteq Candidates \ k.ahead
    /\ k.pc \in Asked =>
         /\ k.next \in 1 .. Len(k.order)
         /\ k.heard \subseteq {k.order[k.next]}
    /\ k.pc \notin Asked => k.heard = {}
    /\ k.chunks = 0 => k.heard = {}

\* What a thread that reports a failure has read of a breaker that is still in place, and what
\* that breaker itself counts, was reported of the candidate in a row.
CountOK(k, c) ==
    /\ k.held => k.pc \in {"count", "status", "until"}
    /\ k.held /\ k.pc = "count" /\ k.order[k.next] = c =>
         k.count + 1 <= inARow[c] \/ inARow[c] = FailureThreshold
    /\ k.held /\ k.pc = "until" /\ k.order[k.next] = c => inARow[c] = FailureThreshold

BreakersAgree ==
    \A c \in Candidates :
        /\ health[c].failures <= inARow[c]
        /\ \A t \in Callers : CountOK(call[t], c)

RouterIInv ==
    /\ RouterTypeOK
    /\ \A t \in Callers : Placed(call[t])
    /\ BreakersAgree
    /\ EarnedOut


-----------------------------------------------------------------------------
(* One call moves on.                                                      *)

LEMMA Thresholds == FailureThreshold \in Nat \ {0} /\ RecoverySeconds \in Nat
BY RouterAssumption

LEMMA CallMoves ==
    ASSUME RouterIInv, NEW t \in Callers, NEW k \in Calls, call' = [call EXCEPT ![t] = k], Placed(k),
           health' \in [Candidates -> Health], inARow' \in [Candidates -> 0 .. FailureThreshold],
           EarnedOut',
           \A c \in Candidates : /\ health'[c].failures <= inARow'[c]
                                 /\ inARow[c] <= inARow'[c]
                                 /\ CountOK(k, c)'
    PROVE  RouterIInv'
<1> HIDE DEF Calls, Health
<1>1. call' \in [Callers -> Calls] /\ call'[t] = k /\ \A s \in Callers \ {t} : call'[s] = call[s]
  BY DEF RouterIInv, RouterTypeOK
<1>2. RouterTypeOK'
  BY <1>1 DEF RouterTypeOK
<1>3. \A s \in Callers : Placed(call[s])'
  <2> TAKE s \in Callers
  <2>1. CASE s = t
    BY <1>1, <2>1 DEF Placed
  <2>2. CASE s # t
    BY <1>1, <2>2 DEF RouterIInv, Placed
  <2> QED BY <2>1, <2>2
<1>4. BreakersAgree'
  <2> SUFFICES ASSUME NEW c \in Candidates, NEW s \in Callers
               PROVE  CountOK(call[s], c)'
    BY DEF BreakersAgree
  <2>1. CASE s = t
    BY <1>1, <2>1 DEF CountOK
  <2>2. CASE s # t
    <3>1. call'[s] = call[s] /\ CountOK(call[s], c)
      BY <1>1, <2>2 DEF RouterIInv, BreakersAgree
    <3>2. call[s].count \in Int
      BY Thresholds DEF RouterIInv, RouterTypeOK, Calls
    <3>3. inARow[c] \in 0 .. FailureThreshold /\ inARow'[c] \in 0 .. FailureThreshold
      BY DEF RouterIInv, RouterTypeOK
    <3> DEFINE h == call[s]
               n == h.count
    <3>4. n \in Int
      BY <3>2
    <3> QED BY <3>1, <3>2, <3>3, Thresholds DEF CountOK
  <2> QED BY <2>1, <2>2
<1> QED BY <1>2, <1>3, <1>4 DEF RouterIInv

LEMMA NothingConsidered == <<>> \in Considered
<1>1. <<>> \in [{} -> Live]
  <2>1. <<>> = [i \in {} |-> 0]
    OBVIOUS
  <2> QED BY <2>1
<1>2. {} \in SUBSET Candidates
  OBVIOUS
<1> QED BY <1>1, <1>2, Zenon DEF Considered

LEMMA IdleIsPlaced == Idle \in Calls /\ Placed(Idle) /\ ~ Idle.held /\ Idle.pc = "idle"
<1>1. <<>> \in Considered
  BY NothingConsidered
<1>2. <<>> \in Seq(Candidates)
  OBVIOUS
<1>3. Idle \in Calls
  BY <1>1, <1>2, Thresholds DEF Idle, Calls, Places
<1>4. Placed(Idle)
  BY DEF Idle, Placed, Asked
<1> QED BY <1>3, <1>4 DEF Idle

\* A call that leaves the breakers alone and holds none.
LEMMA CallAlone ==
    ASSUME RouterIInv, NEW t \in Callers, NEW k \in Calls, call' = [call EXCEPT ![t] = k], Placed(k),
           ~ k.held, UNCHANGED <<health, inARow>>
    PROVE  RouterIInv'
<1>1. \A c \in Candidates : CountOK(k, c)'
  BY DEF CountOK
<1>2. \A c \in Candidates : inARow[c] <= inARow[c] /\ health[c].failures <= inARow[c]
  BY Thresholds DEF RouterIInv, RouterTypeOK, BreakersAgree
<1>3. EarnedOut' /\ health' \in [Candidates -> Health] /\ inARow' \in [Candidates -> 0 .. FailureThreshold]
  BY DEF RouterIInv, EarnedOut, RouterTypeOK
<1> QED BY <1>1, <1>2, <1>3, CallMoves

LEMMA BeginKeeps ==
    ASSUME RouterIInv, NEW t \in Callers, BeginCall(t)
    PROVE  RouterIInv'
<1>1. PICK r \in Requests, stream \in BOOLEAN :
        call' = [call EXCEPT ![t] =
                    [Idle EXCEPT !.pc = "route", !.stream = stream, !.request = r, !.ahead = Candidates]]
  BY DEF BeginCall
<1> DEFINE k == [Idle EXCEPT !.pc = "route", !.stream = stream, !.request = r, !.ahead = Candidates]
<1>2. /\ Idle \in Calls /\ Idle.status = <<>> /\ Idle.heard = {} /\ ~ Idle.held
  BY IdleIsPlaced DEF Idle
<1>3. k \in Calls
  BY <1>2 DEF Calls, Places
<1>4. /\ k.pc = "route" /\ k.request = r /\ k.ahead = Candidates /\ k.status = <<>> /\ k.heard = {} /\ ~ k.held
  BY <1>2 DEF Calls
<1> HIDE DEF k
<1>5. Placed(k)
  BY <1>4, RouterAssumption DEF Placed, Asked
<1>6. call' = [call EXCEPT ![t] = k] /\ UNCHANGED <<health, inARow>>
  BY <1>1 DEF BeginCall, k
<1> QED BY <1>3, <1>4, <1>5, <1>6, CallAlone

LEMMA AbandonKeeps ==
    ASSUME RouterIInv, NEW t \in Callers, Abandon(t)
    PROVE  RouterIInv'
BY CallAlone, IdleIsPlaced DEF Abandon

LEMMA TickKeeps ==
    ASSUME RouterIInv, Tick
    PROVE  RouterIInv'
<1>1. \A c \in Candidates : /\ Passed(health[c]) \in Health
                            /\ Passed(health[c]).status = health[c].status
                            /\ Passed(health[c]).failures = health[c].failures
  <2> TAKE c \in Candidates
  <2> DEFINE left == health[c].shutFor
  <2>1. health[c] \in Health /\ left \in 0 .. RecoverySeconds
    BY DEF RouterIInv, RouterTypeOK, Health
  <2>2. Max({0, left - 1}) \in 0 .. RecoverySeconds
    BY <2>1, MaxOfTwo, Thresholds
  <2>3. Passed(health[c]) = [health[c] EXCEPT !.shutFor = Max({0, left - 1})]
    BY DEF Passed
  <2> HIDE DEF left
  <2> QED BY <2>1, <2>2, <2>3 DEF Health
<1>2. health' = [c \in Candidates |-> Passed(health[c])] /\ UNCHANGED <<call, inARow>>
  BY DEF Tick
<1>3. RouterTypeOK'
  BY <1>1, <1>2 DEF RouterIInv, RouterTypeOK
<1>4. \A t \in Callers : Placed(call[t])'
  BY <1>2 DEF RouterIInv, Placed
<1>5. BreakersAgree'
  BY <1>1, <1>2 DEF RouterIInv, BreakersAgree, CountOK
<1>6. EarnedOut'
  BY <1>1, <1>2 DEF RouterIInv, EarnedOut
<1> QED BY <1>3, <1>4, <1>5, <1>6 DEF RouterIInv


-----------------------------------------------------------------------------
(* The choice of the candidates.                                           *)

LEMMA LookedStays ==
    ASSUME NEW h \in Health
    PROVE  /\ Looked(h) \in Health /\ Looked(h).failures = h.failures
           /\ Looked(h).status \in {"unhealthy", "probing"} => h.status \in {"unhealthy", "probing"}
BY DEF Looked, Health, Live

LEMMA OrderedIsAnOrder ==
    ASSUME NEW r \in Requests, NEW status \in Considered
    PROVE  Ordered(r, status) \in Seq(Candidates)
<1> DEFINE n == Cardinality(DOMAIN status)
<1>1. n \in Nat /\ Ordered(r, status) \in [1 .. n -> DOMAIN status]
  BY OrderedEnumerates
<1>2. DOMAIN status \subseteq Candidates
  BY DEF Considered
<1> HIDE DEF n
<1>3. Ordered(r, status) \in [1 .. n -> Candidates]
  BY <1>1, <1>2
<1> QED BY <1>1, <1>3

LEMMA DecidedIsPlaced ==
    ASSUME NEW k \in Calls, k.pc = "route", ~ k.held, k.request \in Requests, k.heard = {},
           DOMAIN k.status \subseteq Candidates \ k.ahead
    PROVE  Decided(k) \in Calls /\ Placed(Decided(k)) /\ ~ Decided(k).held
<1>1. CASE k.ahead # {}
  BY <1>1 DEF Decided, Placed, Asked
<1>2. CASE k.ahead = {} /\ Ordered(k.request, k.status) = <<>>
  BY <1>2, IdleIsPlaced DEF Decided
<1>3. CASE k.ahead = {} /\ Ordered(k.request, k.status) # <<>>
  <2> DEFINE order == Ordered(k.request, k.status)
             d == [Idle EXCEPT !.pc = "ask", !.stream = k.stream, !.order = order]
  <2>1. order \in Seq(Candidates) /\ order # <<>>
    BY <1>3, OrderedIsAnOrder DEF Calls
  <2>2. Decided(k) = d
    BY <1>3 DEF Decided
  <2>3. /\ Idle \in Calls /\ Idle.heard = {} /\ ~ Idle.held /\ Idle.next = 1
    BY IdleIsPlaced DEF Idle
  <2> HIDE DEF order
  <2>4. d \in Calls
    BY <2>1, <2>3 DEF Calls, Places
  <2>5. d.pc = "ask" /\ d.order = order /\ d.heard = {} /\ ~ d.held /\ d.next = 1
    BY <2>3 DEF Calls
  <2>6. 1 \in 1 .. Len(order)
    BY <2>1
  <2> HIDE DEF d
  <2>7. Placed(d)
    BY <2>5, <2>6 DEF Placed, Asked
  <2> QED BY <2>2, <2>4, <2>5, <2>7
<1> QED BY <1>1, <1>2, <1>3

LEMMA ConsiderKeeps ==
    ASSUME RouterIInv, NEW t \in Callers, Consider(t)
    PROVE  RouterIInv'
<1> DEFINE k == call[t]
           c == Min(k.ahead)
           looked == Looked(health[c])
           may == c \in Serve[k.request]
           e == [k EXCEPT
                   !.ahead = @ \ {c},
                   !.status = IF may /\ looked.status # "unhealthy" THEN With(@, c, looked.status) ELSE @]
<1>1. /\ k \in Calls /\ k.pc = "route" /\ Placed(k) /\ ~ k.held
      /\ k.request \in Requests /\ k.ahead # {} /\ k.heard = {} /\ DOMAIN k.status \subseteq Candidates \ k.ahead
  <2>1. k \in Calls /\ k.pc = "route" /\ Placed(k) /\ (\A d \in Candidates : CountOK(k, d))
    BY DEF Consider, RouterIInv, RouterTypeOK, BreakersAgree
  <2>2. \E d \in Candidates : TRUE
    BY RouterAssumption
  <2>3. ~ k.held
    BY <2>1, <2>2 DEF CountOK
  <2> QED BY <2>1, <2>3 DEF Placed, Asked
<1>2. c \in k.ahead /\ c \in Candidates
  <2>1. k.ahead \in SUBSET Nat /\ k.ahead \subseteq Candidates
    BY <1>1, RouterAssumption DEF Calls
  <2> QED BY <1>1, <2>1, MinIsLeast
<1>3. health[c] \in Health
  BY <1>2 DEF RouterIInv, RouterTypeOK
<1>4. /\ health' = IF may THEN [health EXCEPT ![c] = looked] ELSE health
      /\ call' = [call EXCEPT ![t] = Decided(e)]
      /\ inARow' = inARow
  BY DEF Consider
<1>5. /\ looked \in Health /\ looked.failures = health[c].failures
      /\ looked.status \in {"unhealthy", "probing"} => health[c].status \in {"unhealthy", "probing"}
  BY <1>3, LookedStays
<1> DEFINE status == IF may /\ looked.status # "unhealthy" THEN With(k.status, c, looked.status) ELSE k.status
<1>6. status \in Considered /\ DOMAIN status \subseteq Candidates \ (k.ahead \ {c})
  <2> HIDE DEF looked, may, c
  <2>1. PICK S \in SUBSET Candidates : k.status \in [S -> Live]
    BY <1>1 DEF Calls, Considered
  <2>2. CASE may /\ looked.status # "unhealthy"
    <3>1. looked.status \in Live
      BY <1>5, <2>2, Zenon DEF Health
    <3>2. status = With(k.status, c, looked.status)
      BY <2>2
    <3>3. With(k.status, c, looked.status) \in [S \cup {c} -> Live]
      BY <2>1, <3>1 DEF With
    <3> QED BY <1>1, <1>2, <2>1, <3>2, <3>3 DEF Considered
  <2>3. CASE ~ (may /\ looked.status # "unhealthy")
    <3>1. status = k.status
      BY <2>3
    <3> QED BY <1>1, <1>2, <3>1 DEF Calls
  <2> QED BY <2>2, <2>3
<1>7. /\ e \in Calls /\ e.pc = "route" /\ ~ e.held /\ e.request \in Requests /\ e.heard = {}
      /\ e.ahead = k.ahead \ {c} /\ e.status = status
  <2>1. e = [k EXCEPT !.ahead = @ \ {c}, !.status = status]
    OBVIOUS
  <2> HIDE DEF status, c, e, k
  <2> QED BY <1>1, <1>6, <2>1 DEF Calls
<1>8. Decided(e) \in Calls /\ Placed(Decided(e)) /\ ~ Decided(e).held
  <2> HIDE DEF e, status
  <2> QED BY <1>6, <1>7, DecidedIsPlaced
<1>9. PICK h \in [Candidates -> Health] :
        /\ health' = h
        /\ \A d \in Candidates : /\ h[d].failures = health[d].failures
                                 /\ h[d].status \in {"unhealthy", "probing"} =>
                                      health[d].status \in {"unhealthy", "probing"}
  <2>1. CASE may
    <3> DEFINE h == [health EXCEPT ![c] = looked]
    <3>1. health' = h
      BY <1>4, <2>1
    <3> HIDE DEF looked, may, c, Health
    <3>2. h \in [Candidates -> Health] /\ h[c] = looked /\ \A d \in Candidates \ {c} : h[d] = health[d]
      BY <1>2, <1>5 DEF RouterIInv, RouterTypeOK
    <3> HIDE DEF h
    <3>3. \A d \in Candidates : /\ h[d].failures = health[d].failures
                                /\ h[d].status \in {"unhealthy", "probing"} =>
                                     health[d].status \in {"unhealthy", "probing"}
      BY <1>5, <3>2
    <3> QED BY <3>1, <3>2, <3>3
  <2>2. CASE ~ may
    BY <1>4, <2>2 DEF RouterIInv, RouterTypeOK
  <2> QED BY <2>1, <2>2
<1>10. EarnedOut'
  BY <1>4, <1>9 DEF RouterIInv, EarnedOut
<1>11. \A d \in Candidates : health'[d].failures <= inARow'[d] /\ inARow[d] <= inARow'[d]
  BY <1>4, <1>9, Thresholds DEF RouterIInv, RouterTypeOK, BreakersAgree
<1>12. inARow' \in [Candidates -> 0 .. FailureThreshold]
  BY <1>4 DEF RouterIInv, RouterTypeOK
<1>13. PICK d \in Calls : d = Decided(e)
  BY <1>8
<1>14. \A m \in Candidates : CountOK(d, m)'
  BY <1>8, <1>13 DEF CountOK
<1>15. call' = [call EXCEPT ![t] = d] /\ Placed(d)
  BY <1>4, <1>8, <1>13
<1> HIDE DEF e
<1> QED BY <1>9, <1>10, <1>11, <1>12, <1>14, <1>15, CallMoves


-----------------------------------------------------------------------------
(* One candidate is asked, and its answer reported.                        *)

LEMMA AskingIsPlaced ==
    ASSUME RouterIInv, NEW t \in Callers, call[t].pc \in Asked
    PROVE  /\ call[t] \in Calls /\ call[t].order \in Seq(Candidates)
           /\ call[t].next \in 1 .. Len(call[t].order)
           /\ Asking(t) = call[t].order[call[t].next] /\ Asking(t) \in Candidates
           /\ call[t].heard \subseteq {Asking(t)}
           /\ call[t].chunks = 0 => call[t].heard = {}
           /\ health[Asking(t)] \in Health /\ inARow[Asking(t)] \in 0 .. FailureThreshold
<1>1. call[t] \in Calls /\ Placed(call[t])
  BY DEF RouterIInv, RouterTypeOK
<1>2. call[t].order \in Seq(Candidates) /\ call[t].next \in 1 .. Len(call[t].order)
  BY <1>1 DEF Placed, Calls
<1>3. Asking(t) = call[t].order[call[t].next]
  BY DEF Asking
<1>4. Asking(t) \in Candidates
  BY <1>2, <1>3
<1> QED BY <1>1, <1>2, <1>3, <1>4 DEF Placed, RouterIInv, RouterTypeOK

LEMMA ChunkKeeps ==
    ASSUME RouterIInv, NEW t \in Callers, Chunk(t)
    PROVE  RouterIInv'
<1>1. PICK k : k = call[t]
  OBVIOUS
<1>2. PICK c \in Candidates : c = Asking(t)
  BY AskingIsPlaced DEF Chunk, Asked
<1>3. /\ k \in Calls /\ k.pc = "ask" /\ k.next \in 1 .. Len(k.order)
      /\ c = k.order[k.next] /\ k.heard \subseteq {c}
  BY <1>1, <1>2, AskingIsPlaced DEF Chunk, Asked
<1>4. ~ k.held
  <2>1. CountOK(k, c)
    BY <1>1, <1>2 DEF RouterIInv, BreakersAgree
  <2> QED BY <1>3, <2>1 DEF CountOK
<1> DEFINE n == k.chunks
<1>5. n \in Nat
  BY <1>3 DEF Calls
<1> DEFINE heard == k.heard \cup {c}
           e == [k EXCEPT !.chunks = n + 1, !.heard = heard]
<1>6. call' = [call EXCEPT ![t] = e] /\ UNCHANGED <<health, inARow>>
  BY <1>1, <1>2 DEF Chunk
<1>7. n + 1 \in Nat /\ n + 1 # 0 /\ heard \in SUBSET Candidates /\ heard \subseteq {c}
  BY <1>3, <1>5
<1> HIDE DEF n, heard
<1>8. /\ e \in Calls /\ e.pc = "ask" /\ e.next = k.next /\ e.order = k.order /\ e.heard = heard
      /\ e.chunks = n + 1 /\ ~ e.held
  BY <1>3, <1>4, <1>7 DEF Calls
<1> HIDE DEF e
<1>9. Placed(e)
  BY <1>3, <1>7, <1>8 DEF Placed, Asked
<1> QED BY <1>6, <1>8, <1>9, CallAlone

LEMMA RaisedKeeps ==
    ASSUME RouterIInv, NEW t \in Callers, Raised(t)
    PROVE  RouterIInv'
<1>1. PICK k : k = call[t]
  OBVIOUS
<1>2. PICK c \in Candidates : c = Asking(t)
  BY AskingIsPlaced DEF Raised, Asked
<1>3. /\ k \in Calls /\ k.pc = "ask" /\ k.next \in 1 .. Len(k.order)
      /\ c = k.order[k.next] /\ k.heard \subseteq {c} /\ (k.chunks = 0 => k.heard = {})
  BY <1>1, <1>2, AskingIsPlaced DEF Raised, Asked
<1>4. PICK n : n = health[c].failures
  OBVIOUS
<1>5. PICK m : m = inARow[c]
  OBVIOUS
<1>6. n \in 0 .. FailureThreshold /\ m \in 0 .. FailureThreshold /\ n <= m
  BY <1>4, <1>5 DEF RouterIInv, RouterTypeOK, Health, BreakersAgree
<1> DEFINE p == Min({FailureThreshold, m + 1})
           e == [k EXCEPT !.pc = "count", !.count = n, !.held = TRUE]
<1>7. p \in 0 .. FailureThreshold /\ m <= p /\ (n + 1 <= p \/ p = FailureThreshold)
  BY <1>6, MinOfTwo, Thresholds
<1>8. call' = [call EXCEPT ![t] = e] /\ inARow' = [inARow EXCEPT ![c] = p] /\ health' = health
  BY <1>1, <1>2, <1>4, <1>5 DEF Raised
<1> HIDE DEF p
<1>9. /\ e \in Calls /\ e.pc = "count" /\ e.next = k.next /\ e.order = k.order /\ e.heard = k.heard
      /\ e.chunks = k.chunks /\ e.count = n
  BY <1>3, <1>6 DEF Calls, Places
<1> HIDE DEF e
<1>10. Placed(e)
  BY <1>3, <1>9 DEF Placed, Asked
<1>11. /\ inARow' \in [Candidates -> 0 .. FailureThreshold] /\ inARow'[c] = p
       /\ \A d \in Candidates \ {c} : inARow'[d] = inARow[d]
  BY <1>7, <1>8 DEF RouterIInv, RouterTypeOK
<1>12. \A d \in Candidates : CountOK(e, d)'
  BY <1>3, <1>7, <1>9, <1>11 DEF CountOK
<1>13. \A d \in Candidates : inARow[d] <= inARow'[d] /\ health'[d].failures <= inARow'[d]
  <2> TAKE d \in Candidates
  <2>1. health[d].failures \in 0 .. FailureThreshold /\ inARow[d] \in 0 .. FailureThreshold
        /\ health[d].failures <= inARow[d]
    BY DEF RouterIInv, RouterTypeOK, Health, BreakersAgree
  <2>2. CASE d = c
    BY <1>4, <1>5, <1>6, <1>7, <1>8, <1>11, <2>2, Thresholds
  <2>3. CASE d # c
    BY <1>8, <1>11, <2>1, <2>3, Thresholds
  <2> QED BY <2>2, <2>3
<1>14. EarnedOut'
  <2> SUFFICES ASSUME NEW d \in Candidates, health[d].status \in {"unhealthy", "probing"}
               PROVE  inARow'[d] = FailureThreshold
    BY <1>8 DEF EarnedOut
  <2>1. inARow[d] = FailureThreshold
    BY DEF RouterIInv, EarnedOut
  <2>2. inARow[d] <= inARow'[d] /\ inARow'[d] \in 0 .. FailureThreshold
    BY <1>11, <1>13
  <2> QED BY <2>1, <2>2, Thresholds
<1>15. health' \in [Candidates -> Health]
  BY <1>8 DEF RouterIInv, RouterTypeOK
<1> QED BY <1>8, <1>9, <1>10, <1>11, <1>12, <1>13, <1>14, <1>15, CallMoves


-----------------------------------------------------------------------------
(* The rest of a failure's report.                                         *)

LEMMA AfterFailureIsPlaced ==
    ASSUME NEW k \in Calls, k.next \in 1 .. Len(k.order), k.chunks = 0 => k.heard = {}
    PROVE  AfterFailure(k) \in Calls /\ Placed(AfterFailure(k)) /\ ~ AfterFailure(k).held
<1>1. CASE k.chunks > 0
  BY <1>1, IdleIsPlaced DEF AfterFailure
<1>2. CASE ~ (k.chunks > 0)
  <2>1. k.chunks = 0 /\ k.heard = {} /\ k.order \in Seq(Candidates)
    BY <1>2 DEF Calls
  <2> DEFINE stage == IF k.next = Len(k.order) THEN "failed" ELSE "ask"
             n == k.next
             e == [k EXCEPT !.held = FALSE, !.next = n + 1, !.pc = stage]
  <2>2. AfterFailure(k) = e
    BY <1>2 DEF AfterFailure
  <2>3. /\ n \in Nat \ {0} /\ n + 1 \in Nat \ {0} /\ stage \in Places
        /\ stage = "failed" \/ (stage = "ask" /\ n + 1 \in 1 .. Len(k.order))
    BY <2>1 DEF Places
  <2> HIDE DEF stage, n
  <2>4. /\ e \in Calls /\ e.pc = stage /\ e.next = n + 1 /\ e.order = k.order /\ e.heard = {}
        /\ e.chunks = 0 /\ ~ e.held
    BY <2>1, <2>3 DEF Calls
  <2> HIDE DEF e
  <2>5. Placed(e)
    BY <2>3, <2>4 DEF Placed, Asked
  <2> QED BY <2>2, <2>4, <2>5
<1> QED BY <1>1, <1>2

\* A step of a report leaves the rows of failures alone and writes into one breaker, when it is
\* still the one the report began with.
LEMMA ReportMoves ==
    ASSUME RouterIInv, NEW t \in Callers, NEW c \in Candidates, NEW h \in Health, NEW e \in Calls,
           health' = [health EXCEPT ![c] = h] \/ health' = health,
           h.failures <= inARow[c],
           h.status \in {"unhealthy", "probing"} => inARow[c] = FailureThreshold,
           inARow' = inARow, call' = [call EXCEPT ![t] = e], Placed(e),
           \A d \in Candidates : CountOK(e, d)'
    PROVE  RouterIInv'
<1> HIDE DEF Health
<1>1. \A d \in Candidates : inARow[d] <= inARow'[d] /\ inARow'[d] \in 0 .. FailureThreshold
  BY Thresholds DEF RouterIInv, RouterTypeOK
<1>2. CASE health' = [health EXCEPT ![c] = h]
  <2>1. /\ health' \in [Candidates -> Health] /\ health'[c] = h
        /\ \A d \in Candidates \ {c} : health'[d] = health[d]
    BY <1>2 DEF RouterIInv, RouterTypeOK
  <2>2. \A d \in Candidates : health'[d].failures <= inARow'[d]
    BY <2>1 DEF RouterIInv, BreakersAgree
  <2>3. EarnedOut'
    BY <2>1 DEF RouterIInv, EarnedOut
  <2>4. inARow' \in [Candidates -> 0 .. FailureThreshold]
    BY DEF RouterIInv, RouterTypeOK
  <2> QED BY <1>1, <2>1, <2>2, <2>3, <2>4, CallMoves
<1>3. CASE health' = health
  <2>1. health' \in [Candidates -> Health] /\ inARow' \in [Candidates -> 0 .. FailureThreshold]
    BY <1>3 DEF RouterIInv, RouterTypeOK
  <2>2. \A d \in Candidates : health'[d].failures <= inARow'[d]
    BY <1>3 DEF RouterIInv, BreakersAgree
  <2>3. EarnedOut'
    BY <1>3 DEF RouterIInv, EarnedOut
  <2> QED BY <1>1, <2>1, <2>2, <2>3, CallMoves
<1> QED BY <1>2, <1>3

LEMMA WriteCountKeeps ==
    ASSUME RouterIInv, NEW t \in Callers, WriteCount(t)
    PROVE  RouterIInv'
<1>1. PICK k : k = call[t]
  OBVIOUS
<1>2. PICK c \in Candidates : c = Asking(t)
  BY AskingIsPlaced DEF WriteCount, Asked
<1>3. /\ k \in Calls /\ k.pc = "count" /\ k.next \in 1 .. Len(k.order)
      /\ c = k.order[k.next] /\ k.heard \subseteq {c} /\ (k.chunks = 0 => k.heard = {})
  BY <1>1, <1>2, AskingIsPlaced DEF WriteCount, Asked
<1>4. CountOK(k, c) /\ k.count \in 0 .. FailureThreshold
  BY <1>1, <1>2, <1>3 DEF RouterIInv, BreakersAgree, Calls
<1> DEFINE m == k.count
           p == Min({FailureThreshold, m + 1})
           e == [k EXCEPT !.pc = "status", !.count = 0]
           h == IF k.held THEN [health[c] EXCEPT !.failures = p] ELSE health[c]
<1>5. p \in 0 .. FailureThreshold /\ (k.held => p <= inARow[c])
  <2>1. p \in 0 .. FailureThreshold /\ p <= FailureThreshold /\ p <= m + 1
    BY <1>4, MinOfTwo, Thresholds
  <2>2. k.held => m + 1 <= inARow[c] \/ inARow[c] = FailureThreshold
    BY <1>3, <1>4 DEF CountOK
  <2>3. inARow[c] \in 0 .. FailureThreshold /\ m \in 0 .. FailureThreshold
    BY <1>4 DEF RouterIInv, RouterTypeOK
  <2> HIDE DEF p, m
  <2> QED BY <2>1, <2>2, <2>3, Thresholds
<1>6. /\ health' = IF k.held THEN [health EXCEPT ![c].failures = p] ELSE health
      /\ call' = [call EXCEPT ![t] = e] /\ inARow' = inARow
  BY <1>1, <1>2 DEF WriteCount
<1> HIDE DEF p
<1>7. health[c] \in Health /\ health[c].failures <= inARow[c]
      /\ (health[c].status \in {"unhealthy", "probing"} => inARow[c] = FailureThreshold)
  BY DEF RouterIInv, RouterTypeOK, BreakersAgree, EarnedOut
<1>8. h \in Health /\ h.status = health[c].status /\ h.failures <= inARow[c]
  BY <1>5, <1>7 DEF Health
<1>9. health' = [health EXCEPT ![c] = h] \/ health' = health
  <2>1. CASE k.held
    BY <1>6, <2>1
  <2>2. CASE ~ k.held
    BY <1>6, <2>2
  <2> QED BY <2>1, <2>2
<1>10. /\ e \in Calls /\ e.pc = "status" /\ e.next = k.next /\ e.order = k.order /\ e.heard = k.heard
       /\ e.chunks = k.chunks
  <2>1. 0 \in 0 .. FailureThreshold
    BY Thresholds
  <2> QED BY <1>3, <2>1 DEF Calls, Places
<1>11. PICK b \in Health : b = h
  BY <1>8
<1> HIDE DEF e, h
<1>12. Placed(e) /\ \A d \in Candidates : CountOK(e, d)'
  BY <1>3, <1>10 DEF Placed, Asked, CountOK
<1> QED BY <1>6, <1>7, <1>8, <1>9, <1>10, <1>11, <1>12, ReportMoves

LEMMA WriteUntilKeeps ==
    ASSUME RouterIInv, NEW t \in Callers, WriteUntil(t)
    PROVE  RouterIInv'
<1>1. PICK k : k = call[t]
  OBVIOUS
<1>2. PICK c \in Candidates : c = Asking(t)
  BY AskingIsPlaced DEF WriteUntil, Asked
<1>3. /\ k \in Calls /\ k.next \in 1 .. Len(k.order) /\ (k.chunks = 0 => k.heard = {})
  BY <1>1, <1>2, AskingIsPlaced DEF WriteUntil, Asked
<1> DEFINE h == [health[c] EXCEPT !.shutFor = RecoverySeconds]
<1>4. /\ health' = [health EXCEPT ![c] = h] \/ health' = health
      /\ call' = [call EXCEPT ![t] = AfterFailure(k)] /\ inARow' = inARow
  BY <1>1, <1>2 DEF WriteUntil
<1>5. /\ health[c] \in Health /\ health[c].failures <= inARow[c]
      /\ (health[c].status \in {"unhealthy", "probing"} => inARow[c] = FailureThreshold)
  BY DEF RouterIInv, RouterTypeOK, BreakersAgree, EarnedOut
<1>6. h \in Health /\ h.status = health[c].status /\ h.failures = health[c].failures
  BY <1>5, Thresholds DEF Health
<1>7. PICK b \in Health : b = h
  BY <1>6
<1>8. PICK e \in Calls : e = AfterFailure(k) /\ Placed(e) /\ ~ e.held
  BY <1>3, AfterFailureIsPlaced
<1>9. \A d \in Candidates : CountOK(e, d)'
  BY <1>8 DEF CountOK
<1> HIDE DEF h
<1> QED BY <1>4, <1>5, <1>6, <1>7, <1>8, <1>9, ReportMoves

LEMMA WriteStatusKeeps ==
    ASSUME RouterIInv, NEW t \in Callers, WriteStatus(t)
    PROVE  RouterIInv'
<1>1. PICK k : k = call[t]
  OBVIOUS
<1>2. PICK c \in Candidates : c = Asking(t)
  BY AskingIsPlaced DEF WriteStatus, Asked
<1>3. /\ k \in Calls /\ k.pc = "status" /\ k.next \in 1 .. Len(k.order)
      /\ c = k.order[k.next] /\ k.heard \subseteq {c} /\ (k.chunks = 0 => k.heard = {})
  BY <1>1, <1>2, AskingIsPlaced DEF WriteStatus, Asked
<1>4. PICK opens \in BOOLEAN : opens = (k.held /\ Opens(health[c]))
  OBVIOUS
<1> DEFINE status == IF opens THEN "unhealthy" ELSE "degraded"
           h == [health[c] EXCEPT !.status = status]
           next == IF opens THEN [k EXCEPT !.pc = "until"] ELSE AfterFailure(k)
<1>5. /\ health' = [health EXCEPT ![c] = h] \/ health' = health
      /\ call' = [call EXCEPT ![t] = next] /\ inARow' = inARow
  BY <1>1, <1>2, <1>4 DEF WriteStatus
<1>6. /\ health[c] \in Health /\ health[c].failures <= inARow[c]
      /\ health[c].failures \in Int /\ inARow[c] \in 0 .. FailureThreshold
  BY DEF RouterIInv, RouterTypeOK, BreakersAgree, Health
<1>7. opens => inARow[c] = FailureThreshold
  <2> DEFINE f == health[c].failures
             m == inARow[c]
  <2>1. opens => f >= FailureThreshold
    BY <1>4 DEF Opens
  <2>2. f \in Int /\ m \in 0 .. FailureThreshold /\ f <= m
    BY <1>6
  <2> HIDE DEF f, m
  <2>3. opens => m = FailureThreshold
    BY <2>1, <2>2, Thresholds
  <2> QED BY <2>3 DEF m
<1>8. h \in Health /\ h.status = status /\ h.failures = health[c].failures
  BY <1>6 DEF Health, Live
<1>9. h.status \in {"unhealthy", "probing"} => inARow[c] = FailureThreshold
  BY <1>7, <1>8
<1>10. PICK b \in Health : b = h
  BY <1>8
<1>11. PICK e \in Calls : e = next /\ Placed(e) /\ \A d \in Candidates : CountOK(e, d)'
  <2>1. CASE opens
    <3> DEFINE u == [k EXCEPT !.pc = "until"]
    <3>1. /\ u \in Calls /\ u.pc = "until" /\ u.next = k.next /\ u.order = k.order /\ u.heard = k.heard
          /\ u.chunks = k.chunks
      BY <1>3 DEF Calls, Places
    <3>2. next = u
      BY <2>1
    <3> HIDE DEF u, next
    <3>3. Placed(u)
      BY <1>3, <3>1 DEF Placed, Asked
    <3>4. \A d \in Candidates : CountOK(u, d)'
      BY <1>3, <1>5, <1>7, <2>1, <3>1 DEF CountOK
    <3> QED BY <3>1, <3>2, <3>3, <3>4
  <2>2. CASE ~ opens
    <3>1. PICK e \in Calls : e = AfterFailure(k) /\ Placed(e) /\ ~ e.held
      BY <1>3, AfterFailureIsPlaced
    <3>2. \A d \in Candidates : CountOK(e, d)'
      BY <3>1 DEF CountOK
    <3> QED BY <2>2, <3>1, <3>2
  <2> QED BY <2>1, <2>2
<1> HIDE DEF h, next
<1> QED BY <1>5, <1>6, <1>8, <1>9, <1>10, <1>11, ReportMoves

\* An answer puts a new breaker in place, and no report that is under way holds it.
LEMMA AnsweredKeeps ==
    ASSUME RouterIInv, NEW t \in Callers, Answered(t)
    PROVE  RouterIInv'
<1>1. PICK c \in Candidates : c = Asking(t)
  BY AskingIsPlaced DEF Answered, Asked
<1>2. /\ health' = [health EXCEPT ![c] = Fresh] /\ inARow' = [inARow EXCEPT ![c] = 0]
      /\ call' = [s \in Callers |->
             IF s = t THEN Idle
             ELSE IF call[s].held /\ Asking(s) = c THEN [call[s] EXCEPT !.held = FALSE]
             ELSE call[s]]
  BY <1>1 DEF Answered, Succeeded
<1>3. Fresh \in Health /\ Fresh.status = "healthy" /\ Fresh.failures = 0
  BY Thresholds DEF Fresh, Health, Live
<1>4. /\ health' \in [Candidates -> Health] /\ health'[c] = Fresh
      /\ \A d \in Candidates \ {c} : health'[d] = health[d]
  <2> HIDE DEF Health
  <2> QED BY <1>2, <1>3 DEF RouterIInv, RouterTypeOK
<1>5. /\ inARow' \in [Candidates -> 0 .. FailureThreshold] /\ inARow'[c] = 0
      /\ \A d \in Candidates \ {c} : inARow'[d] = inARow[d]
  BY <1>2, Thresholds DEF RouterIInv, RouterTypeOK
<1>6. \A s \in Callers : /\ call'[s] \in Calls
                         /\ Placed(call[s])'
                         /\ \A d \in Candidates : CountOK(call[s], d)'
  <2> TAKE s \in Callers
  <2>1. PICK k : k = call[s]
    OBVIOUS
  <2>2. k \in Calls /\ Placed(k) /\ \A d \in Candidates : CountOK(k, d)
    BY <2>1 DEF RouterIInv, RouterTypeOK, BreakersAgree
  <2>3. CASE s = t
    BY <1>2, <2>3, IdleIsPlaced DEF Placed, CountOK
  <2>4. CASE s # t /\ k.held /\ Asking(s) = c
    <3> DEFINE e == [k EXCEPT !.held = FALSE]
    <3>1. call'[s] = e
      BY <1>2, <2>1, <2>4
    <3>2. /\ e \in Calls /\ e.pc = k.pc /\ e.next = k.next /\ e.order = k.order /\ e.heard = k.heard
          /\ e.chunks = k.chunks /\ e.request = k.request /\ e.ahead = k.ahead /\ e.status = k.status
          /\ ~ e.held
      BY <2>2 DEF Calls
    <3> HIDE DEF e
    <3>3. Placed(e)
      BY <2>2, <3>2 DEF Placed
    <3> QED BY <3>1, <3>2, <3>3 DEF Placed, CountOK
  <2>5. CASE s # t /\ ~ (k.held /\ Asking(s) = c)
    <3>1. call'[s] = k
      BY <1>2, <2>1, <2>5
    <3>2. k.held => k.order[k.next] # c
      BY <2>1, <2>5 DEF Asking
    <3>3. \A d \in Candidates : CountOK(k, d)'
      BY <1>5, <2>2, <3>2 DEF CountOK
    <3> QED BY <2>2, <3>1, <3>3 DEF Placed, CountOK
  <2> QED BY <2>3, <2>4, <2>5
<1>7. call' \in [Callers -> Calls]
  <2> HIDE DEF Calls
  <2> QED BY <1>2, <1>6
<1>8. EarnedOut'
  BY <1>3, <1>4, <1>5 DEF RouterIInv, EarnedOut
<1>9. BreakersAgree'
  BY <1>3, <1>4, <1>5, <1>6 DEF RouterIInv, BreakersAgree
<1> QED BY <1>4, <1>5, <1>6, <1>7, <1>8, <1>9 DEF RouterIInv, RouterTypeOK


-----------------------------------------------------------------------------
(* The specification.                                                      *)

LEMMA InitInvariant ==
    ASSUME RouterInit
    PROVE  RouterIInv
<1>1. Fresh \in Health /\ Fresh.status = "healthy" /\ Fresh.failures = 0
  BY Thresholds DEF Fresh, Health, Live
<1>2. \A c \in Candidates : health[c] = Fresh /\ inARow[c] = 0
  BY DEF RouterInit
<1>3. \A t \in Callers : call[t] = Idle
  BY DEF RouterInit
<1>4. RouterTypeOK
  <2>1. 0 \in 0 .. FailureThreshold
    BY Thresholds
  <2> HIDE DEF Health, Calls
  <2> QED BY <1>1, <2>1, IdleIsPlaced DEF RouterInit, RouterTypeOK
<1>5. \A t \in Callers : Placed(call[t])
  BY <1>3, IdleIsPlaced
<1>6. BreakersAgree
  BY <1>1, <1>2, <1>3, IdleIsPlaced DEF BreakersAgree, CountOK
<1>7. EarnedOut
  BY <1>1, <1>2 DEF EarnedOut
<1> QED BY <1>4, <1>5, <1>6, <1>7 DEF RouterIInv

LEMMA StepInvariant ==
    ASSUME RouterIInv, [RouterNext]_routerVars
    PROVE  RouterIInv'
<1>1. CASE Tick
  BY <1>1, TickKeeps
<1>2. ASSUME NEW t \in Callers, BeginCall(t) \/ Abandon(t) \/ Call(t)
      PROVE  RouterIInv'
  <2>1. CASE BeginCall(t)
    BY <2>1, BeginKeeps
  <2>2. CASE Abandon(t)
    BY <2>2, AbandonKeeps
  <2>3. CASE Call(t)
    <3>1. CASE Consider(t)
      BY <3>1, ConsiderKeeps
    <3>2. CASE Chunk(t)
      BY <3>2, ChunkKeeps
    <3>3. CASE Answered(t)
      BY <3>3, AnsweredKeeps
    <3>4. CASE Raised(t)
      BY <3>4, RaisedKeeps
    <3>5. CASE WriteCount(t)
      BY <3>5, WriteCountKeeps
    <3>6. CASE WriteStatus(t)
      BY <3>6, WriteStatusKeeps
    <3>7. CASE WriteUntil(t)
      BY <3>7, WriteUntilKeeps
    <3> QED BY <2>3, <3>1, <3>2, <3>3, <3>4, <3>5, <3>6, <3>7 DEF Call
  <2> QED BY <1>2, <2>1, <2>2, <2>3
<1>3. CASE UNCHANGED routerVars
  BY <1>3 DEF routerVars, RouterIInv, RouterTypeOK, Placed, BreakersAgree, CountOK, EarnedOut
<1> QED BY <1>1, <1>2, <1>3 DEF RouterNext

\* The breakers, the rows of failures and the calls stay what the code makes of them: a count
\* never exceeds the failures reported, nobody writes into a breaker that was replaced.
THEOREM RouterInvariance == RouterSpec => []RouterIInv
<1>1. RouterInit => RouterIInv
  BY InitInvariant
<1>2. RouterIInv /\ [RouterNext]_routerVars => RouterIInv'
  BY StepInvariant
<1> QED BY <1>1, <1>2, PTL DEF RouterSpec

\* Every call considers and asks registered candidates only, for any configuration of them.
THEOREM RouterTypes == RouterSpec => []RouterTypeOK
<1>1. RouterIInv => RouterTypeOK
  BY DEF RouterIInv
<1> QED BY <1>1, RouterInvariance, PTL

\* OneVoice: stream_chat never goes on with another candidate once the caller has heard one.
THEOREM OneVoiceSpeaks == RouterSpec => []OneVoice
<1>1. ASSUME RouterIInv
      PROVE  OneVoice
  <2> SUFFICES ASSUME NEW t \in Callers
               PROVE  Cardinality(call[t].heard) <= 1
    BY DEF OneVoice
  <2>1. \E x : call[t].heard \subseteq {x}
    BY <1>1 DEF RouterIInv, Placed
  <2>2. PICK x : call[t].heard \subseteq {x}
    BY <2>1
  <2>3. IsFiniteSet({x}) /\ Cardinality({x}) = 1
    BY FS_Singleton
  <2> QED BY <2>2, <2>3, FS_Subset
<1> QED BY <1>1, RouterInvariance, PTL

\* EarnedOut: report_failure, interleaved with itself and with report_success, shuts a candidate
\* out only when the threshold of failures in a row was reported of it.
THEOREM BreakersEarned == RouterSpec => []EarnedOut
<1>1. RouterIInv => EarnedOut
  BY DEF RouterIInv
<1> QED BY <1>1, RouterInvariance, PTL

-----------------------------------------------------------------------------
\* What a caller can be doing, and what for.
JobStages == {"idle", "file", "row", "tool", "known", "consult", "model", "store", "told", "create",
              "get", "use", "resolve", "delegate", "next", "fallback", "sent"}

JobKinds == {"none", "upload", "inspect", "analyze", "register", "send", "turn"}

Inspecting == {"consult", "model", "store", "told"}

\* The rows of the three tables.
UploadRows == [content : Contents, workspace : Workspaces, named : BOOLEAN]

Said == [n : Nat, of : Attachments, blank : BOOLEAN, words : {Normalized(q) : q \in Questions}]

MemeRows ==
    [attachment : Attachments, workspace : Workspaces, content : Contents, enabled : BOOLEAN, uses : Nat]

Jobs ==
    [at : JobStages, for : JobKinds, workspace : Workspaces \cup {None}, attachment : Attachments \cup {None},
     content : Contents \cup {None}, named : BOOLEAN, question : Questions \cup {None}, force : BOOLEAN,
     answer : Said \cup {None}, asked : BOOLEAN, meme : Memes \cup {None},
     pictures : SUBSET Attachments, todo : SUBSET Attachments, results : SUBSET Attachments]

\* The types of the variables the proof speaks of.
MediaTypes ==
    /\ attachments \in [Attachments -> UploadRows \cup {None}]
    /\ observations \in [CacheKeys -> Said \cup {None}]
    /\ memes \in [Memes -> MemeRows \cup {None}]
    /\ job \in [Askers -> Jobs]
    /\ context \in Workspaces \cup {None} /\ answers \in Nat

\* An upload of a workspace, what is kept of it for a question, and what was said about such a picture.
OwnedIn(rows, w, a) == rows[a] # None /\ rows[a].workspace = w

KeyIn(rows, j, a) == CacheKey(j.workspace, rows[a].content, j.question)

SaidOf(o, k, rows) ==
    /\ o \in Said /\ o.words = k[3]
    /\ rows[o.of] # None /\ rows[o.of].content = k[2] /\ rows[o.of].workspace = k[1]

\* A caller past the look for the meme it is to register.
Registers(j) == j.for \in {"register", "analyze"} /\ j.at \notin {"tool", "known"}

\* Which stages a call passes through, and what it was given.
KindFits(j) ==
    /\ j.for \in {"register", "analyze"} => j.at \in {"tool", "known", "create"} \cup Inspecting
    /\ j.at \in {"known", "create"} => j.for \in {"register", "analyze"}
    /\ j.at \in Inspecting => j.for \in {"inspect", "analyze", "turn"} /\ j.attachment \in Attachments
    /\ j.at = "tool" => j.for \in {"inspect", "analyze", "register", "send"}
    /\ j.at \in {"resolve", "delegate", "next", "sent"} => j.for = "turn"
    /\ j.for \in {"inspect", "analyze", "register"} => j.attachment \in Attachments
    /\ j.for \in {"inspect", "analyze", "turn"} => j.question \in Questions
    /\ j.at \in {"file", "row"} =>
          j.for = "upload" /\ j.attachment \in Attachments /\ j.content \in Contents /\ j.workspace \in Workspaces
    /\ j.for = "send" => j.meme \in Memes
    /\ j.at \in {"get", "use"} => j.for = "send"

\* What a turn has of its pictures.
TurnFits(j, rows, seen, sees) ==
    /\ j.results \subseteq j.pictures
    /\ \A a \in j.results : OwnedIn(rows, j.workspace, a) /\ seen[KeyIn(rows, j, a)] # None
    /\ j.at \in {"resolve", "delegate"} => j.results = {}
    /\ j.at \in {"next"} \cup Inspecting => j.todo \subseteq j.pictures
    /\ j.at \in Inspecting => j.attachment \in j.pictures
    /\ j.at = "sent" => j.pictures = {} \/ sees \/ j.results # {}

JobOK(j, rows, seen, sees) ==
    /\ KindFits(j)
    /\ j.at \in {"model", "store", "told"} \/ Registers(j) => OwnedIn(rows, j.workspace, j.attachment)
    /\ j.at \in {"model", "store"} => j.asked
    /\ j.at = "store" =>
          /\ j.answer \in Said /\ j.answer.of = j.attachment
          /\ j.answer.words = Normalized(j.question)
    /\ j.at = "told" =>
          /\ SaidOf(j.answer, KeyIn(rows, j, j.attachment), rows)
          /\ seen[KeyIn(rows, j, j.attachment)] # None
          /\ j.asked \/ j.answer = seen[KeyIn(rows, j, j.attachment)]
    /\ j.for = "turn" => TurnFits(j, rows, seen, sees)

\* What is kept answers its key.
KeptOK(rows, seen) == \A k \in CacheKeys : seen[k] # None => SaidOf(seen[k], k, rows)

\* An upload under way has its identifier to itself, and a row is written once.
Uploading(j) == j.at \in {"file", "row"}

UploadsOK ==
    /\ \A a \in Attachments : attachments[a] # None => a \in files
    /\ \A c \in Askers : job[c].at = "file" => job[c].attachment \notin files
    /\ \A c \in Askers : job[c].at = "row" =>
          job[c].attachment \in files /\ attachments[job[c].attachment] = None
    /\ \A c, d \in Askers : Uploading(job[c]) /\ Uploading(job[d]) /\ c # d =>
          job[c].attachment # job[d].attachment

\* Of a picture that is not contested there is one meme, or one caller about to make it.
PictureIn(rows, j) == <<j.workspace, rows[j.attachment].content>>

MemesOK ==
    \A w \in Workspaces, p \in Contents : <<w, p>> \notin contested =>
        /\ \A m, n \in Of(w, p) : m = n
        /\ \A c \in Askers : Registers(job[c]) /\ PictureIn(attachments, job[c]) = <<w, p>> => Of(w, p) = {}
        /\ \A c, d \in Askers :
              /\ Registers(job[c]) /\ PictureIn(attachments, job[c]) = <<w, p>>
              /\ Registers(job[d]) /\ PictureIn(attachments, job[d]) = <<w, p>>
              => c = d

\* What MediaInvariance proves: no caller undoes what another relies on.
MediaInv ==
    /\ MediaTypes
    /\ \A c \in Askers : JobOK(job[c], attachments, observations, configured.sees)
    /\ KeptOK(attachments, observations)
    /\ UploadsOK
    /\ MemesOK

-----------------------------------------------------------------------------
\* Rows, once written, stay as they are.
Stay(old, new, D) == \A x \in D : old[x] # None => new[x] = old[x]

\* The key of what is kept about a caller's picture, as KeyIn writes it.
LEMMA KeyFacts ==
    ASSUME NEW rows \in [Attachments -> UploadRows \cup {None}], NEW j \in Jobs, NEW a \in Attachments,
           OwnedIn(rows, j.workspace, a), j.question \in Questions
    PROVE  /\ KeyIn(rows, j, a) \in CacheKeys
           /\ KeyIn(rows, j, a) = <<j.workspace, rows[a].content, Normalized(j.question)>>
           /\ rows[a] \in UploadRows /\ j.workspace \in Workspaces /\ rows[a].content \in Contents
<1>1. rows[a] \in UploadRows
  BY DEF OwnedIn
<1>2. j.workspace \in Workspaces /\ rows[a].content \in Contents
  BY <1>1 DEF OwnedIn, UploadRows
<1>3. KeyIn(rows, j, a) = <<j.workspace, rows[a].content, Normalized(j.question)>>
  BY DEF KeyIn, CacheKey
<1> QED BY <1>1, <1>2, <1>3 DEF CacheKeys

\* What was said of a picture stays so when rows of uploads are added.
LEMMA SaidStays ==
    ASSUME NEW rows, NEW new, Stay(rows, new, Attachments), NEW o, NEW k, SaidOf(o, k, rows)
    PROVE  SaidOf(o, k, new)
<1>1. o.of \in Attachments
  BY DEF SaidOf, Said
<1> QED BY <1>1 DEF SaidOf, Stay

\* A caller minds neither new uploads nor new answers.
LEMMA JobStays ==
    ASSUME NEW rows \in [Attachments -> UploadRows \cup {None}], NEW seen,
           NEW new, NEW later, NEW sees,
           Stay(rows, new, Attachments), Stay(seen, later, CacheKeys),
           NEW j \in Jobs, JobOK(j, rows, seen, sees)
    PROVE  JobOK(j, new, later, sees)
<1>1. \A a \in Attachments : OwnedIn(rows, j.workspace, a) =>
          /\ OwnedIn(new, j.workspace, a) /\ KeyIn(new, j, a) = KeyIn(rows, j, a)
          /\ j.question \in Questions => KeyIn(rows, j, a) \in CacheKeys
  BY KeyFacts DEF Stay, OwnedIn, KeyIn
<1>2. j.results \subseteq Attachments
  BY DEF Jobs
<1>3. j.at \in {"model", "store", "told"} \/ Registers(j) => OwnedIn(new, j.workspace, j.attachment)
  BY <1>1 DEF JobOK, KindFits, Registers, Inspecting
<1>4. ASSUME j.at = "told"
      PROVE  /\ SaidOf(j.answer, KeyIn(new, j, j.attachment), new)
             /\ later[KeyIn(new, j, j.attachment)] # None
             /\ j.asked \/ j.answer = later[KeyIn(new, j, j.attachment)]
  <2>1. j.attachment \in Attachments /\ j.question \in Questions /\ OwnedIn(rows, j.workspace, j.attachment)
    BY <1>4 DEF JobOK, KindFits, Inspecting
  <2>2. KeyIn(new, j, j.attachment) = KeyIn(rows, j, j.attachment) /\ KeyIn(rows, j, j.attachment) \in CacheKeys
    BY <1>1, <2>1
  <2>3. SaidOf(j.answer, KeyIn(rows, j, j.attachment), new)
    BY <1>4, SaidStays DEF JobOK
  <2> QED BY <1>4, <2>2, <2>3 DEF JobOK, Stay
<1>5. ASSUME j.for = "turn" PROVE TurnFits(j, new, later, sees)
  <2>1. TurnFits(j, rows, seen, sees) /\ j.question \in Questions
    BY <1>5 DEF JobOK, KindFits
  <2>2. \A a \in j.results : OwnedIn(new, j.workspace, a) /\ later[KeyIn(new, j, a)] # None
    BY <1>1, <1>2, <2>1 DEF TurnFits, Stay
  <2> QED BY <2>1, <2>2 DEF TurnFits
<1> QED BY <1>3, <1>4, <1>5 DEF JobOK

\* A step of one caller.
LEMMA MediaGoes ==
    ASSUME MediaInv, NEW c \in Askers, NEW u \in Jobs, Become(c, u), UNCHANGED configured,
           attachments' \in [Attachments -> UploadRows \cup {None}],
           observations' \in [CacheKeys -> Said \cup {None}],
           memes' \in [Memes -> MemeRows \cup {None}],
           context' \in Workspaces \cup {None}, answers' \in Nat,
           Stay(attachments, attachments', Attachments), Stay(observations, observations', CacheKeys),
           JobOK(u, attachments', observations', configured.sees),
           KeptOK(attachments', observations'), UploadsOK', MemesOK'
    PROVE  MediaInv'
<1>1. job' \in [Askers -> Jobs] /\ job'[c] = u /\ \A d \in Askers \ {c} : job'[d] = job[d]
  BY DEF MediaInv, MediaTypes, Become
<1>2. \A d \in Askers : job[d] \in Jobs /\ JobOK(job[d], attachments, observations, configured.sees)
  BY DEF MediaInv, MediaTypes
<1>3. attachments \in [Attachments -> UploadRows \cup {None}]
  BY DEF MediaInv, MediaTypes
<1>4. \A d \in Askers : JobOK(job[d], attachments', observations', configured.sees)
  BY <1>2, <1>3, JobStays
<1>5. \A d \in Askers : JobOK(job'[d], attachments', observations', configured'.sees)
  BY <1>1, <1>4
<1> QED BY <1>1, <1>5 DEF MediaInv, MediaTypes

\* Uploads and memes do not mind steps of other kinds.
LEMMA UploadsQuiet ==
    ASSUME UploadsOK, job \in [Askers -> Jobs], NEW c \in Askers, NEW u \in Jobs, Become(c, u),
           UNCHANGED <<files, attachments>>, ~Uploading(u)
    PROVE  UploadsOK'
<1>1. job'[c] = u /\ \A d \in Askers \ {c} : job'[d] = job[d]
  BY DEF Become
<1>2. u.at # "file" /\ u.at # "row"
  BY DEF Uploading
<1> QED BY <1>1, <1>2 DEF UploadsOK, Uploading

\* ... nor do memes, as long as the caller does not begin to register.
LEMMA MemesQuiet ==
    ASSUME MemesOK, job \in [Askers -> Jobs], NEW c \in Askers, NEW u \in Jobs, Become(c, u),
           UNCHANGED <<memes, contested>>,
           \A d \in Askers : JobOK(job[d], attachments, observations, configured.sees),
           Stay(attachments, attachments', Attachments),
           Registers(u) => Registers(job[c]) /\ u.workspace = job[c].workspace /\ u.attachment = job[c].attachment
    PROVE  MemesOK'
<1>1. job'[c] = u /\ \A d \in Askers \ {c} : job'[d] = job[d]
  BY DEF Become
<1>2. \A w, p : Of(w, p)' = Of(w, p)
  BY DEF Of
<1>3. \A d \in Askers : Registers(job[d]) => PictureIn(attachments', job[d]) = PictureIn(attachments, job[d])
  BY DEF JobOK, KindFits, Registers, OwnedIn, Stay, PictureIn
<1>4. \A d \in Askers : Registers(job'[d]) =>
          Registers(job[d]) /\ PictureIn(attachments', job'[d]) = PictureIn(attachments, job[d])
  BY <1>1, <1>3 DEF PictureIn
<1> QED BY <1>2, <1>4 DEF MemesOK

\* A step that only moves its caller.
LEMMA MediaQuiet ==
    ASSUME MediaInv, NEW c \in Askers, NEW u \in Jobs, Become(c, u), UNCHANGED <<configured, tables, contested>>,
           context' \in Workspaces \cup {None}, answers' \in Nat,
           JobOK(u, attachments, observations, configured.sees), ~Uploading(u),
           Registers(u) => Registers(job[c]) /\ u.workspace = job[c].workspace /\ u.attachment = job[c].attachment
    PROVE  MediaInv'
<1>1. UNCHANGED <<files, attachments, observations, memes>>
  BY DEF tables
<1>2. Stay(attachments, attachments', Attachments) /\ Stay(observations, observations', CacheKeys)
  BY <1>1 DEF Stay
<1>3. /\ attachments' \in [Attachments -> UploadRows \cup {None}]
      /\ observations' \in [CacheKeys -> Said \cup {None}]
      /\ memes' \in [Memes -> MemeRows \cup {None}] /\ job \in [Askers -> Jobs]
  BY <1>1 DEF MediaInv, MediaTypes
<1>4. UploadsOK'
  BY <1>1, <1>3, UploadsQuiet DEF MediaInv
<1>5. MemesOK'
  BY <1>1, <1>2, <1>3, MemesQuiet DEF MediaInv
<1>6. KeptOK(attachments', observations') /\ JobOK(u, attachments', observations', configured.sees)
  BY <1>1 DEF MediaInv
<1> QED BY <1>2, <1>3, <1>4, <1>5, <1>6, MediaGoes

\* What is known of a caller.
LEMMA CallerFacts ==
    ASSUME MediaInv, NEW c \in Askers
    PROVE  /\ job[c] \in Jobs /\ JobOK(job[c], attachments, observations, configured.sees)
           /\ context \in Workspaces \cup {None} /\ answers \in Nat
           /\ attachments \in [Attachments -> UploadRows \cup {None}]
           /\ observations \in [CacheKeys -> Said \cup {None}]
           /\ KeptOK(attachments, observations)
BY DEF MediaInv, MediaTypes

\* A call that ended.
LEMMA NothingFits ==
    /\ Nothing \in Jobs /\ ~Uploading(Nothing) /\ ~Registers(Nothing)
    /\ \A rows, seen, sees : JobOK(Nothing, rows, seen, sees)
<1>1. Nothing \in Jobs
  <2> HIDE DEF Said
  <2> QED BY DEF Nothing, Jobs, JobStages, JobKinds
<1>2. Nothing.at = "idle" /\ Nothing.for = "none"
  BY DEF Nothing
<1> QED BY <1>1, <1>2 DEF Uploading, Registers, JobOK, KindFits, Inspecting

\* A call may end at any stage, if nothing else changes.
LEMMA EndKeeps ==
    ASSUME MediaInv, NEW c \in Askers, End(c), UNCHANGED <<configured, tables, contested>>,
           context' \in Workspaces \cup {None}, answers' \in Nat
    PROVE  MediaInv'
<1> HIDE DEF Nothing
<1> QED BY NothingFits, MediaQuiet DEF End

\* The next stage of a call.
LEMMA MovedTo ==
    ASSUME NEW j \in Jobs, NEW s \in JobStages, NEW u, u = [j EXCEPT !.at = s]
    PROVE  /\ u \in Jobs /\ u.at = s /\ u.for = j.for /\ u.workspace = j.workspace
           /\ u.attachment = j.attachment /\ u.content = j.content /\ u.named = j.named
           /\ u.question = j.question /\ u.force = j.force /\ u.answer = j.answer /\ u.asked = j.asked
           /\ u.meme = j.meme /\ u.pictures = j.pictures /\ u.todo = j.todo /\ u.results = j.results
<1> HIDE DEF JobStages, JobKinds, Said
<1> QED BY DEF Jobs

\* What a step of one caller must see to, for uploads to keep apart.
LEMMA UploadsGo ==
    ASSUME UploadsOK, job \in [Askers -> Jobs], NEW c \in Askers, NEW u \in Jobs, Become(c, u),
           files \subseteq files', \A a \in Attachments : attachments'[a] # None => a \in files',
           \A d \in Askers \ {c} : job[d].at = "file" => job[d].attachment \notin files',
           \A d \in Askers \ {c} : job[d].at = "row" => attachments'[job[d].attachment] = None,
           u.at = "file" => u.attachment \notin files',
           u.at = "row" => u.attachment \in files' /\ attachments'[u.attachment] = None,
           Uploading(u) => \A d \in Askers \ {c} : Uploading(job[d]) => job[d].attachment # u.attachment
    PROVE  UploadsOK'
<1>1. job'[c] = u /\ \A d \in Askers \ {c} : job'[d] = job[d]
  BY DEF Become
<1>2. ASSUME NEW d \in Askers, job'[d].at = "file" PROVE job'[d].attachment \notin files'
  <2>1. CASE d = c
    BY <1>1, <1>2, <2>1
  <2>2. CASE d # c
    BY <1>1, <1>2, <2>2
  <2> QED BY <2>1, <2>2
<1>3. ASSUME NEW d \in Askers, job'[d].at = "row"
      PROVE  job'[d].attachment \in files' /\ attachments'[job'[d].attachment] = None
  <2>1. CASE d = c
    BY <1>1, <1>3, <2>1
  <2>2. CASE d # c
    <3>1. job'[d] = job[d] /\ job[d].at = "row"
      BY <1>1, <1>3, <2>2
    <3>2. job[d].attachment \in files
      BY <3>1 DEF UploadsOK
    <3> QED BY <2>2, <3>1, <3>2
  <2> QED BY <2>1, <2>2
<1>4. ASSUME NEW d \in Askers, NEW e \in Askers, Uploading(job'[d]), Uploading(job'[e]), d # e
      PROVE  job'[d].attachment # job'[e].attachment
  <2>1. CASE d = c
    BY <1>1, <1>4, <2>1
  <2>2. CASE e = c
    BY <1>1, <1>4, <2>2
  <2>3. CASE d # c /\ e # c
    <3>1. job'[d] = job[d] /\ job'[e] = job[e]
      BY <1>1, <2>3
    <3> QED BY <1>4, <3>1 DEF UploadsOK
  <2> QED BY <2>1, <2>2, <2>3
<1> QED BY <1>2, <1>3, <1>4 DEF UploadsOK, Uploading

-----------------------------------------------------------------------------
\* Uploads: the identifier is chosen, the file is written, the row is inserted.
LEMMA UploadKeeps ==
    ASSUME MediaInv, NEW c \in Askers, Upload(c)
    PROVE  MediaInv'
<1>1. PICK a \in Attachments, content \in Contents, w \in Workspaces, named \in BOOLEAN :
          /\ a \notin files /\ \A d \in Askers : ~Doing(d, "file") \/ job[d].attachment # a
          /\ Become(c, [Nothing EXCEPT !.at = "file", !.for = "upload", !.attachment = a,
                                !.content = content, !.workspace = w, !.named = named])
  BY DEF Upload
<1> PICK u : u = [Nothing EXCEPT !.at = "file", !.for = "upload", !.attachment = a,
                                 !.content = content, !.workspace = w, !.named = named]
  OBVIOUS
<1>2. u \in Jobs /\ u.at = "file" /\ u.for = "upload" /\ u.attachment = a /\ u.content = content /\ u.workspace = w
  <2> USE DEF JobStages, JobKinds
  <2> HIDE DEF Said
  <2> QED BY DEF Jobs, Nothing
<1>3. Become(c, u) /\ UNCHANGED <<configured, files, attachments, observations, memes, context, answers, contested>>
  BY <1>1 DEF Upload, Engaged, tables
<1>4. JobOK(u, attachments, observations, configured.sees) /\ ~Registers(u)
  BY <1>2 DEF JobOK, KindFits, Registers, Inspecting
<1>5. /\ job'[c] = u /\ \A d \in Askers \ {c} : job'[d] = job[d]
  BY <1>3 DEF Become, MediaInv, MediaTypes
<1>6. UploadsOK'
  <2>1. \A d \in Askers \ {c} : Uploading(job[d]) => job[d].attachment # a
    BY <1>1 DEF MediaInv, UploadsOK, Uploading, Doing
  <2>2. /\ \A d \in Askers : job[d].at = "file" => job[d].attachment \notin files
        /\ \A d \in Askers : job[d].at = "row" => attachments[job[d].attachment] = None
        /\ \A x \in Attachments : attachments[x] # None => x \in files
        /\ UploadsOK /\ job \in [Askers -> Jobs]
    BY DEF MediaInv, MediaTypes, UploadsOK
  <2>3. /\ \A d \in Askers \ {c} : job[d].at = "file" => job[d].attachment \notin files'
        /\ \A d \in Askers \ {c} : job[d].at = "row" => attachments'[job[d].attachment] = None
        /\ \A x \in Attachments : attachments'[x] # None => x \in files'
        /\ \A d \in Askers \ {c} : Uploading(job[d]) => job[d].attachment # u.attachment
        /\ u.attachment \notin files' /\ files \subseteq files' /\ u.at # "row"
    <3>1. a \notin files
      BY <1>1
    <3> QED BY <1>2, <1>3, <2>1, <2>2, <3>1
  <2> QED BY <1>2, <1>3, <2>2, <2>3, UploadsGo
<1>7. Stay(attachments, attachments', Attachments) /\ Stay(observations, observations', CacheKeys)
  BY <1>3 DEF Stay
<1>8. MemesOK'
  BY <1>2, <1>3, <1>4, <1>7, MemesQuiet DEF MediaInv, MediaTypes
<1>9. /\ attachments' \in [Attachments -> UploadRows \cup {None}]
      /\ observations' \in [CacheKeys -> Said \cup {None}]
      /\ memes' \in [Memes -> MemeRows \cup {None}]
      /\ context' \in Workspaces \cup {None} /\ answers' \in Nat
      /\ JobOK(u, attachments', observations', configured.sees) /\ KeptOK(attachments', observations')
  BY <1>3, <1>4 DEF MediaInv, MediaTypes
<1> QED BY <1>2, <1>3, <1>6, <1>7, <1>8, <1>9, MediaGoes

\* The file was nobody's, and is the uploader's alone until its row is there.
LEMMA WriteFileKeeps ==
    ASSUME MediaInv, NEW c \in Askers, WriteFile(c)
    PROVE  MediaInv'
<1> PICK j : j = job[c]
  OBVIOUS
<1> PICK u : u = [j EXCEPT !.at = "row"]
  OBVIOUS
<1>1. j \in Jobs /\ JobOK(j, attachments, observations, configured.sees) /\ j.at = "file"
  BY CallerFacts DEF WriteFile, Doing
<1>2. u \in Jobs /\ u.at = "row" /\ u.for = j.for /\ u.workspace = j.workspace
      /\ u.attachment = j.attachment /\ u.content = j.content
  BY <1>1, MovedTo DEF JobStages
<1>3. /\ Become(c, u) /\ files' = files \cup {j.attachment}
      /\ UNCHANGED <<configured, attachments, observations, memes, context, answers, contested>>
  BY DEF WriteFile, Go, counts
<1>4. JobOK(u, attachments, observations, configured.sees) /\ ~Registers(u) /\ j.attachment \in Attachments
  BY <1>1, <1>2 DEF JobOK, KindFits, Registers, Inspecting
<1>5. /\ job'[c] = u /\ \A d \in Askers \ {c} : job'[d] = job[d]
  BY <1>3 DEF Become, MediaInv, MediaTypes
<1>6. UploadsOK'
  <2>1. j.attachment \notin files /\ attachments[j.attachment] = None
    BY <1>1, <1>4 DEF MediaInv, UploadsOK
  <2>2. \A d \in Askers \ {c} : Uploading(job[d]) => job[d].attachment # j.attachment
    BY <1>1 DEF MediaInv, UploadsOK, Uploading
  <2>3. /\ \A d \in Askers \ {c} : job[d].at = "file" => job[d].attachment \notin files'
        /\ \A d \in Askers : job[d].at = "row" => attachments[job[d].attachment] = None
        /\ \A x \in Attachments : attachments[x] # None => x \in files
        /\ UploadsOK /\ job \in [Askers -> Jobs]
    BY <1>3, <2>2 DEF MediaInv, MediaTypes, UploadsOK, Uploading
  <2>4. /\ \A d \in Askers \ {c} : job[d].at = "file" => job[d].attachment \notin files'
        /\ \A d \in Askers \ {c} : job[d].at = "row" => attachments'[job[d].attachment] = None
        /\ \A x \in Attachments : attachments'[x] # None => x \in files'
        /\ \A d \in Askers \ {c} : Uploading(job[d]) => job[d].attachment # u.attachment
        /\ u.attachment \in files' /\ attachments'[u.attachment] = None /\ files \subseteq files'
    BY <1>2, <1>3, <2>1, <2>2, <2>3 DEF Uploading
  <2>5. u.at # "file"
    BY <1>2
  <2> QED BY <1>2, <1>3, <2>3, <2>4, <2>5, UploadsGo
<1>7. Stay(attachments, attachments', Attachments) /\ Stay(observations, observations', CacheKeys)
  BY <1>3 DEF Stay
<1>8. MemesOK'
  BY <1>2, <1>3, <1>4, <1>7, MemesQuiet DEF MediaInv, MediaTypes
<1>9. /\ attachments' \in [Attachments -> UploadRows \cup {None}]
      /\ observations' \in [CacheKeys -> Said \cup {None}]
      /\ memes' \in [Memes -> MemeRows \cup {None}]
      /\ context' \in Workspaces \cup {None} /\ answers' \in Nat
      /\ JobOK(u, attachments', observations', configured.sees) /\ KeptOK(attachments', observations')
  BY <1>3, <1>4 DEF MediaInv, MediaTypes
<1> QED BY <1>2, <1>3, <1>6, <1>7, <1>8, <1>9, MediaGoes

\* The row is written where there was none, so rows stay as they were.
LEMMA InsertRowKeeps ==
    ASSUME MediaInv, NEW c \in Askers, InsertRow(c)
    PROVE  MediaInv'
<1> PICK j : j = job[c]
  OBVIOUS
<1> PICK row : row = [content |-> j.content, workspace |-> j.workspace, named |-> j.named]
  OBVIOUS
<1>1. j \in Jobs /\ JobOK(j, attachments, observations, configured.sees) /\ j.at = "row"
  BY CallerFacts DEF InsertRow, Doing
<1>2. /\ Become(c, Nothing) /\ attachments' = [attachments EXCEPT ![j.attachment] = row]
      /\ UNCHANGED <<configured, files, observations, memes, context, answers, contested>>
  BY DEF InsertRow, UploadedRow, End, counts
<1>3. j.attachment \in Attachments /\ row \in UploadRows
  <2>1. j.named \in BOOLEAN
    BY <1>1 DEF Jobs
  <2>2. j.attachment \in Attachments /\ j.content \in Contents /\ j.workspace \in Workspaces
    BY <1>1 DEF JobOK, KindFits
  <2> QED BY <2>1, <2>2 DEF UploadRows
<1>4. attachments[j.attachment] = None /\ j.attachment \in files
  BY <1>1 DEF MediaInv, UploadsOK
<1>5. /\ attachments' \in [Attachments -> UploadRows \cup {None}]
      /\ attachments'[j.attachment] = row
      /\ \A a \in Attachments \ {j.attachment} : attachments'[a] = attachments[a]
  BY <1>2, <1>3 DEF MediaInv, MediaTypes
<1>6. Stay(attachments, attachments', Attachments) /\ Stay(observations, observations', CacheKeys)
  BY <1>2, <1>4, <1>5 DEF Stay
<1>7. /\ job'[c] = Nothing /\ \A d \in Askers \ {c} : job'[d] = job[d]
  BY <1>2 DEF Become, MediaInv, MediaTypes
<1>8. UploadsOK'
  <2>1. \A d \in Askers \ {c} : Uploading(job[d]) => job[d].attachment # j.attachment
    BY <1>1 DEF MediaInv, UploadsOK, Uploading
  <2>2. \A d \in Askers : Uploading(job[d]) => job[d].attachment \in Attachments
    BY CallerFacts DEF JobOK, KindFits, Uploading
  <2>3. /\ \A d \in Askers : job[d].at = "file" => job[d].attachment \notin files
        /\ \A d \in Askers \ {c} : job[d].at = "row" => attachments'[job[d].attachment] = None
        /\ \A x \in Attachments : attachments'[x] # None => x \in files
        /\ UploadsOK /\ job \in [Askers -> Jobs]
    BY <1>4, <1>5, <2>1, <2>2 DEF MediaInv, MediaTypes, UploadsOK, Uploading
  <2>4. Nothing.at # "file" /\ Nothing.at # "row"
    BY NothingFits DEF Uploading
  <2> HIDE DEF Nothing
  <2>5. ~Uploading(Nothing) /\ Nothing \in Jobs
    BY NothingFits
  <2>6. /\ files \subseteq files' /\ \A x \in Attachments : attachments'[x] # None => x \in files'
        /\ \A d \in Askers \ {c} : job[d].at = "file" => job[d].attachment \notin files'
    BY <1>2, <2>3
  <2> QED BY <1>2, <2>3, <2>4, <2>5, <2>6, UploadsGo
<1>9. MemesOK'
  BY <1>2, <1>6, NothingFits, MemesQuiet DEF MediaInv, MediaTypes
<1>10. KeptOK(attachments', observations')
  BY <1>2, <1>6, SaidStays DEF MediaInv, KeptOK
<1>11. /\ observations' \in [CacheKeys -> Said \cup {None}]
      /\ memes' \in [Memes -> MemeRows \cup {None}]
      /\ context' \in Workspaces \cup {None} /\ answers' \in Nat
  BY <1>2 DEF MediaInv, MediaTypes
<1> HIDE DEF Nothing
<1> QED BY <1>2, <1>5, <1>6, <1>8, <1>9, <1>10, <1>11, NothingFits, MediaGoes

-----------------------------------------------------------------------------
\* What callers are asked for, and the tools they are handed.
LEMMA OrderFacts ==
    ASSUME NEW o \in Orders
    PROVE  /\ o \in Jobs /\ o.for \in {"inspect", "analyze", "register", "send"}
           /\ o.for \in {"inspect", "analyze", "register"} => o.attachment \in Attachments
           /\ o.for \in {"inspect", "analyze"} => o.question \in Questions
           /\ o.for = "send" => o.meme \in Memes
<1> DEFINE Fit(p) ==
        /\ p \in Jobs /\ p.for \in {"inspect", "analyze", "register", "send"}
        /\ p.for \in {"inspect", "analyze", "register"} => p.attachment \in Attachments
        /\ p.for \in {"inspect", "analyze"} => p.question \in Questions
        /\ p.for = "send" => p.meme \in Memes
<1>1. ASSUME NEW k \in JobKinds, NEW a \in Attachments \cup {None}, NEW q \in Questions \cup {None},
             NEW m \in Memes \cup {None}
      PROVE  /\ Order(k, a, q, m) \in Jobs /\ Order(k, a, q, m).for = k
             /\ Order(k, a, q, m).attachment = a /\ Order(k, a, q, m).question = q
             /\ Order(k, a, q, m).meme = m
  <2> HIDE DEF JobKinds, Said
  <2>1. Nothing.at \in JobStages
    BY DEF Nothing, JobStages
  <2> QED BY <2>1 DEF Order, Jobs, Nothing
<1>2. /\ \A a \in Attachments, q \in Questions : Fit(Order("inspect", a, q, None))
      /\ \A a \in Attachments : Fit(Order("analyze", a, MemeQuestion, None))
      /\ \A a \in Attachments : Fit(Order("register", a, None, None))
      /\ \A m \in Memes : Fit(Order("send", None, None, m))
  <2> USE DEF JobKinds
  <2>1. \A a \in Attachments, q \in Questions : Fit(Order("inspect", a, q, None))
    BY <1>1
  <2>2. \A a \in Attachments : Fit(Order("analyze", a, MemeQuestion, None))
    BY <1>1, MediaAssumption
  <2>3. \A a \in Attachments : Fit(Order("register", a, None, None))
    BY <1>1
  <2>4. \A m \in Memes : Fit(Order("send", None, None, m))
    BY <1>1
  <2> HIDE DEF Fit
  <2> QED BY <2>1, <2>2, <2>3, <2>4
<1>3. ASSUME NEW p, Fit(p) PROVE Fit(Forced(p))
  <2>1. /\ Forced(p) \in Jobs /\ Forced(p).for = p.for /\ Forced(p).attachment = p.attachment
        /\ Forced(p).question = p.question /\ Forced(p).meme = p.meme
    <3> HIDE DEF JobKinds, JobStages, Said
    <3> QED BY <1>3 DEF Forced, Jobs
  <2> QED BY <1>3, <2>1
<1> DEFINE A == {Order("inspect", a, q, None) : a \in Attachments, q \in Questions \ {MemeQuestion}}
           B == {Order("analyze", a, MemeQuestion, None) : a \in Attachments}
           C == {Order("register", a, None, None) : a \in Attachments}
           D == {Order("send", None, None, m) : m \in Memes}
<1>4. o \in A \cup B \/ (\E p \in A \cup B : o = Forced(p)) \/ o \in C \/ o \in D
  BY SMT DEF Orders
<1> HIDE DEF Fit
<1>5. \A p \in A \cup B : Fit(p)
  BY <1>2
<1>6. (\A p \in C : Fit(p)) /\ \A p \in D : Fit(p)
  BY <1>2
<1> HIDE DEF A, B, C, D
<1>7. Fit(o)
  BY <1>3, <1>4, <1>5, <1>6
<1> QED BY <1>7 DEF Fit

\* A call of one of the four kinds that has a workspace and nothing yet.
LEMMA HandedKeeps ==
    ASSUME MediaInv, NEW c \in Askers, NEW o \in Jobs, NEW s \in JobStages, NEW w \in Workspaces \cup {None},
           Become(c, [o EXCEPT !.at = s, !.workspace = w]), UNCHANGED <<configured, tables, contested>>,
           context' \in Workspaces \cup {None}, answers' \in Nat,
           o.for \in {"inspect", "analyze", "register", "send"},
           o.for \in {"inspect", "analyze", "register"} => o.attachment \in Attachments,
           o.for \in {"inspect", "analyze"} => o.question \in Questions,
           o.for = "send" => o.meme \in Memes,
           s = "tool" \/ s = FirstStep(o.for)
    PROVE  MediaInv'
<1> PICK u : u = [o EXCEPT !.at = s, !.workspace = w]
  OBVIOUS
<1>1. /\ u \in Jobs /\ u.at = s /\ u.for = o.for /\ u.attachment = o.attachment
      /\ u.question = o.question /\ u.meme = o.meme
  <2> HIDE DEF JobStages, JobKinds, Said
  <2> QED BY DEF Jobs
<1>2. \/ s = "tool"
      \/ s = "consult" /\ o.for = "inspect"
      \/ s = "get" /\ o.for = "send"
      \/ s = "known" /\ o.for \in {"analyze", "register"}
  BY DEF FirstStep
<1>3. JobOK(u, attachments, observations, configured.sees) /\ ~Registers(u) /\ ~Uploading(u)
  BY <1>1, <1>2 DEF JobOK, KindFits, Registers, Inspecting, Uploading
<1>4. Become(c, u)
  OBVIOUS
<1> QED BY <1>1, <1>3, <1>4, MediaQuiet

\* The stage a tool call or a request starts at is a stage.
LEMMA StageOfKind ==
    ASSUME NEW k \in {"inspect", "analyze", "register", "send"}
    PROVE  FirstStep(k) \in JobStages
BY DEF FirstStep, JobStages

\* A request names its workspace.
LEMMA RequestKeeps ==
    ASSUME MediaInv, NEW c \in Askers, Request(c)
    PROVE  MediaInv'
<1> PICK o \in Orders, w \in Workspaces : Become(c, [o EXCEPT !.at = FirstStep(o.for), !.workspace = w])
  BY DEF Request
<1>1. UNCHANGED <<configured, tables, contested>> /\ context' \in Workspaces \cup {None} /\ answers' \in Nat
  BY CallerFacts DEF Request, Engaged
<1> HIDE DEF Become, Jobs, JobStages
<1> QED BY <1>1, OrderFacts, StageOfKind, HandedKeeps

\* The call of a tool names none, and the services are given the turn's.
LEMMA CallToolKeeps ==
    ASSUME MediaInv, NEW c \in Askers, CallTool(c)
    PROVE  MediaInv'
<1> PICK o \in Orders, w \in Workspaces : context' = w /\ Become(c, [o EXCEPT !.at = "tool"])
  BY DEF CallTool
<1> PICK u : u = [o EXCEPT !.at = "tool"]
  OBVIOUS
<1>1. UNCHANGED <<configured, tables, contested>> /\ context' \in Workspaces \cup {None} /\ answers' \in Nat
  BY CallerFacts DEF CallTool, Engaged
<1>2. "tool" \in JobStages
  BY DEF JobStages
<1>3. /\ u \in Jobs /\ u.at = "tool" /\ u.for = o.for /\ u.attachment = o.attachment
      /\ u.question = o.question /\ u.meme = o.meme
  BY <1>2, OrderFacts, MovedTo
<1>4. JobOK(u, attachments, observations, configured.sees) /\ ~Registers(u) /\ ~Uploading(u)
  BY <1>3, OrderFacts DEF JobOK, KindFits, Registers, Inspecting, Uploading
<1>5. Become(c, u)
  OBVIOUS
<1> QED BY <1>1, <1>3, <1>4, <1>5, MediaQuiet

\* The tool takes whatever workspace the services have by then.
LEMMA RunToolKeeps ==
    ASSUME MediaInv, NEW c \in Askers, RunTool(c)
    PROVE  MediaInv'
<1> PICK j : j = job[c]
  OBVIOUS
<1>1. j \in Jobs /\ JobOK(j, attachments, observations, configured.sees) /\ j.at = "tool"
  BY CallerFacts DEF RunTool, Doing
<1>2. Become(c, [j EXCEPT !.at = FirstStep(j.for), !.workspace = context])
  BY DEF RunTool
<1>3. /\ UNCHANGED <<configured, tables, contested>> /\ context \in Workspaces \cup {None}
      /\ context' \in Workspaces \cup {None} /\ answers' \in Nat
  BY CallerFacts DEF RunTool, counts
<1>4. /\ j.for \in {"inspect", "analyze", "register", "send"}
      /\ j.for \in {"inspect", "analyze", "register"} => j.attachment \in Attachments
      /\ j.for \in {"inspect", "analyze"} => j.question \in Questions
      /\ j.for = "send" => j.meme \in Memes
  BY <1>1 DEF JobOK, KindFits
<1> HIDE DEF Become, Jobs, JobStages
<1> QED BY <1>1, <1>2, <1>3, <1>4, StageOfKind, HandedKeeps

\* A turn starts with pictures and no results.
LEMMA TurnKeeps ==
    ASSUME MediaInv, NEW c \in Askers, Turn(c)
    PROVE  MediaInv'
<1> PICK pictures \in SUBSET Attachments, w \in Workspaces, q \in Questions :
        Become(c, [Nothing EXCEPT !.at = "resolve", !.for = "turn", !.pictures = pictures,
                                  !.workspace = w, !.question = q])
  BY DEF Turn
<1> PICK u : u = [Nothing EXCEPT !.at = "resolve", !.for = "turn", !.pictures = pictures,
                                 !.workspace = w, !.question = q]
  OBVIOUS
<1>1. UNCHANGED <<configured, tables, contested>> /\ context' \in Workspaces \cup {None} /\ answers' \in Nat
  BY CallerFacts DEF Turn, Engaged
<1>2. u \in Jobs /\ u.at = "resolve" /\ u.for = "turn" /\ u.question = q /\ u.results = {} /\ u.pictures = pictures
  <2> USE DEF JobStages, JobKinds
  <2> HIDE DEF Said
  <2> QED BY DEF Jobs, Nothing
<1>3. JobOK(u, attachments, observations, configured.sees) /\ ~Registers(u) /\ ~Uploading(u)
  BY <1>2 DEF JobOK, KindFits, Registers, Inspecting, Uploading, TurnFits
<1>4. Become(c, u)
  OBVIOUS
<1> QED BY <1>1, <1>2, <1>3, <1>4, MediaQuiet

-----------------------------------------------------------------------------
\* What is asked of the vision model: an inspection that raises ends its call, and a turn goes on
\* without its pictures.
LEMMA RaisesKeeps ==
    ASSUME MediaInv, NEW c \in Askers, InspectRaises(c), UNCHANGED <<configured, tables, contested>>,
           context' \in Workspaces \cup {None}, answers' \in Nat, job[c].at \in {"consult", "model"}
    PROVE  MediaInv'
<1> PICK j : j = job[c]
  OBVIOUS
<1> PICK u : u = [j EXCEPT !.at = "fallback"]
  OBVIOUS
<1>1. j \in Jobs /\ JobOK(j, attachments, observations, configured.sees)
  BY CallerFacts
<1>2. CASE j.for # "turn"
  BY <1>2, EndKeeps DEF InspectRaises
<1>3. CASE j.for = "turn"
  <2>1. /\ u \in Jobs /\ u.at = "fallback" /\ u.for = j.for /\ u.question = j.question
        /\ u.workspace = j.workspace /\ u.results = j.results /\ u.pictures = j.pictures
    BY <1>1, MovedTo DEF JobStages
  <2>2. TurnFits(u, attachments, observations, configured.sees)
    BY <1>1, <1>3, <2>1 DEF JobOK, TurnFits, KeyIn, Inspecting
  <2>3. JobOK(u, attachments, observations, configured.sees) /\ ~Registers(u) /\ ~Uploading(u)
    BY <1>1, <1>3, <2>1, <2>2 DEF JobOK, KindFits, Registers, Inspecting, Uploading
  <2>4. Become(c, u)
    BY <1>3 DEF InspectRaises, Go
  <2> QED BY <2>1, <2>3, <2>4, MediaQuiet
<1> QED BY <1>2, <1>3

\* What is kept answers the key it is kept under; the model is asked about an upload of the
\* workspace.
LEMMA ConsultKeeps ==
    ASSUME MediaInv, NEW c \in Askers, Consult(c)
    PROVE  MediaInv'
<1> PICK j : j = job[c]
  OBVIOUS
<1> PICK k : k = KeyIn(attachments, j, j.attachment)
  OBVIOUS
<1>1. /\ j \in Jobs /\ JobOK(j, attachments, observations, configured.sees) /\ j.at = "consult"
      /\ attachments \in [Attachments -> UploadRows \cup {None}]
      /\ observations \in [CacheKeys -> Said \cup {None}] /\ KeptOK(attachments, observations)
  BY CallerFacts DEF Consult, Working, Doing
<1>2. /\ UNCHANGED <<configured, tables, contested>>
      /\ context' \in Workspaces \cup {None} /\ answers' \in Nat
  BY CallerFacts DEF Consult, Working, counts
<1>3. \/ InspectRaises(c)
      \/ /\ OwnedIn(attachments, j.workspace, j.attachment) /\ observations[k] # None
         /\ Become(c, [j EXCEPT !.at = "told", !.answer = observations[k]])
      \/ /\ OwnedIn(attachments, j.workspace, j.attachment)
         /\ Become(c, [j EXCEPT !.at = "model", !.asked = TRUE])
  BY DEF Consult, Has, OwnedIn, RowKey, KeyIn
<1>4. CASE InspectRaises(c)
  BY <1>1, <1>2, <1>4, RaisesKeeps
<1>5. /\ j.attachment \in Attachments /\ j.question \in Questions
      /\ j.for = "turn" => TurnFits(j, attachments, observations, configured.sees)
      /\ j.for \in {"inspect", "analyze", "turn"}
  BY <1>1 DEF JobOK, KindFits, Inspecting
<1>6. CASE /\ OwnedIn(attachments, j.workspace, j.attachment) /\ observations[k] # None
           /\ Become(c, [j EXCEPT !.at = "told", !.answer = observations[k]])
  <2> PICK u : u = [j EXCEPT !.at = "told", !.answer = observations[k]]
    OBVIOUS
  <2>1. k \in CacheKeys
    BY <1>1, <1>5, <1>6, KeyFacts
  <2>2. SaidOf(observations[k], k, attachments) /\ observations[k] \in Said
    BY <1>1, <1>6, <2>1 DEF KeptOK
  <2>3. /\ u \in Jobs /\ u.at = "told" /\ u.for = j.for /\ u.question = j.question
        /\ u.workspace = j.workspace /\ u.attachment = j.attachment /\ u.answer = observations[k]
        /\ u.results = j.results /\ u.pictures = j.pictures /\ u.todo = j.todo /\ u.meme = j.meme
    <3> HIDE DEF JobStages, JobKinds, Said
    <3>1. "told" \in JobStages
      BY DEF JobStages
    <3> QED BY <1>1, <2>2, <3>1 DEF Jobs
  <2>4. KeyIn(attachments, u, u.attachment) = k /\ \A a : KeyIn(attachments, u, a) = KeyIn(attachments, j, a)
    BY <2>3 DEF KeyIn
  <2>5. u.for = "turn" => TurnFits(u, attachments, observations, configured.sees)
    BY <1>1, <1>5, <2>3, <2>4 DEF TurnFits, Inspecting
  <2>6. KindFits(u)
    BY <1>1, <1>5, <2>3 DEF JobOK, KindFits, Inspecting
  <2>7. JobOK(u, attachments, observations, configured.sees)
    BY <1>6, <2>2, <2>3, <2>4, <2>5, <2>6 DEF JobOK
  <2>8. /\ ~Uploading(u) /\ Become(c, u)
        /\ Registers(u) => Registers(job[c]) /\ u.workspace = job[c].workspace /\ u.attachment = job[c].attachment
    BY <1>1, <1>6, <2>3 DEF Registers, Uploading
  <2> QED BY <1>2, <2>3, <2>7, <2>8, MediaQuiet
<1>7. CASE /\ OwnedIn(attachments, j.workspace, j.attachment)
           /\ Become(c, [j EXCEPT !.at = "model", !.asked = TRUE])
  <2> PICK u : u = [j EXCEPT !.at = "model", !.asked = TRUE]
    OBVIOUS
  <2>1. /\ u \in Jobs /\ u.at = "model" /\ u.asked /\ u.for = j.for /\ u.question = j.question
        /\ u.workspace = j.workspace /\ u.attachment = j.attachment
        /\ u.results = j.results /\ u.pictures = j.pictures /\ u.todo = j.todo /\ u.meme = j.meme
    <3> HIDE DEF JobStages, JobKinds, Said
    <3>1. "model" \in JobStages
      BY DEF JobStages
    <3> QED BY <1>1, <3>1 DEF Jobs
  <2>2. \A a : KeyIn(attachments, u, a) = KeyIn(attachments, j, a)
    BY <2>1 DEF KeyIn
  <2>3. u.for = "turn" => TurnFits(u, attachments, observations, configured.sees)
    BY <1>1, <1>5, <2>1, <2>2 DEF TurnFits, Inspecting
  <2>4. KindFits(u)
    BY <1>1, <1>5, <2>1 DEF JobOK, KindFits, Inspecting
  <2>5. JobOK(u, attachments, observations, configured.sees)
    BY <1>7, <2>1, <2>3, <2>4 DEF JobOK
  <2>6. /\ ~Uploading(u) /\ Become(c, u)
        /\ Registers(u) => Registers(job[c]) /\ u.workspace = job[c].workspace /\ u.attachment = job[c].attachment
    BY <1>1, <1>7, <2>1 DEF Registers, Uploading
  <2> QED BY <1>2, <2>1, <2>5, <2>6, MediaQuiet
<1> QED BY <1>3, <1>4, <1>6, <1>7

\* The model answers the question it is asked, about the bytes of the upload.
LEMMA AskModelKeeps ==
    ASSUME MediaInv, NEW c \in Askers, AskModel(c)
    PROVE  MediaInv'
<1> PICK j : j = job[c]
  OBVIOUS
<1>1. /\ j \in Jobs /\ JobOK(j, attachments, observations, configured.sees) /\ j.at = "model"
      /\ answers \in Nat
  BY CallerFacts DEF AskModel, Working, Doing
<1>2. /\ UNCHANGED <<configured, tables, contested>> /\ answers' = answers + 1
      /\ context' \in Workspaces \cup {None} /\ answers' \in Nat
  BY CallerFacts DEF AskModel, Working
<1>3. /\ j.attachment \in Attachments /\ j.question \in Questions
      /\ OwnedIn(attachments, j.workspace, j.attachment)
      /\ j.for = "turn" => TurnFits(j, attachments, observations, configured.sees)
      /\ j.for \in {"inspect", "analyze", "turn"}
  BY <1>1 DEF JobOK, KindFits, Inspecting
<1> PICK w : w = Normalized(j.question)
  OBVIOUS
<1> PICK blank \in BOOLEAN :
        Become(c, [j EXCEPT !.at = "store",
            !.answer = [n |-> answers', of |-> j.attachment, blank |-> blank, words |-> w]])
  BY DEF AskModel
<1> PICK o : o = [n |-> answers', of |-> j.attachment, blank |-> blank, words |-> w]
  OBVIOUS
<1>4. o \in Said /\ o.of = j.attachment /\ o.words = w
  BY <1>2, <1>3 DEF Said
<1> PICK u : u = [j EXCEPT !.at = "store", !.answer = o]
  OBVIOUS
<1>5. Become(c, u)
  OBVIOUS
<1>6. /\ u \in Jobs /\ u.at = "store" /\ u.for = j.for /\ u.question = j.question
      /\ u.workspace = j.workspace /\ u.attachment = j.attachment /\ u.answer = o /\ u.asked = j.asked
      /\ u.results = j.results /\ u.pictures = j.pictures /\ u.todo = j.todo /\ u.meme = j.meme
  <2> HIDE DEF JobStages, JobKinds, Said
  <2>1. "store" \in JobStages
    BY DEF JobStages
  <2> QED BY <1>1, <1>4, <2>1 DEF Jobs
<1>7. \A a : KeyIn(attachments, u, a) = KeyIn(attachments, j, a)
  BY <1>6 DEF KeyIn
<1>8. u.for = "turn" => TurnFits(u, attachments, observations, configured.sees)
  BY <1>1, <1>3, <1>6, <1>7 DEF TurnFits, Inspecting
<1>9. KindFits(u)
  BY <1>1, <1>3, <1>6 DEF JobOK, KindFits, Inspecting
<1>10. JobOK(u, attachments, observations, configured.sees)
  BY <1>1, <1>3, <1>4, <1>6, <1>8, <1>9 DEF JobOK
<1>11. /\ ~Uploading(u)
       /\ Registers(u) => Registers(job[c]) /\ u.workspace = job[c].workspace /\ u.attachment = job[c].attachment
  BY <1>1, <1>6 DEF Registers, Uploading
<1> QED BY <1>2, <1>5, <1>6, <1>10, <1>11, MediaQuiet

\* A failure of the model ends the call or the pictures of the turn.
LEMMA ModelFailsKeeps ==
    ASSUME MediaInv, NEW c \in Askers, ModelFails(c)
    PROVE  MediaInv'
<1>1. /\ UNCHANGED <<configured, tables, contested>> /\ InspectRaises(c)
      /\ context' \in Workspaces \cup {None} /\ answers' \in Nat /\ job[c].at \in {"consult", "model"}
  BY CallerFacts DEF ModelFails, Working, Doing, counts
<1> QED BY <1>1, RaisesKeeps

\* The first answer to a question is kept, and is one.
LEMMA StoreKeeps ==
    ASSUME MediaInv, NEW c \in Askers, Store(c)
    PROVE  MediaInv'
<1> PICK j : j = job[c]
  OBVIOUS
<1> PICK k : k = KeyIn(attachments, j, j.attachment)
  OBVIOUS
<1> PICK u : u = [j EXCEPT !.at = "told"]
  OBVIOUS
<1>1. /\ j \in Jobs /\ JobOK(j, attachments, observations, configured.sees) /\ j.at = "store"
      /\ attachments \in [Attachments -> UploadRows \cup {None}]
      /\ observations \in [CacheKeys -> Said \cup {None}] /\ KeptOK(attachments, observations)
  BY CallerFacts DEF Store, Working, Doing
<1>2. /\ Become(c, u) /\ UNCHANGED <<configured, files, attachments, memes, context, answers, contested>>
      /\ observations' = [observations EXCEPT ![k] = IF @ = None THEN j.answer ELSE @]
  BY DEF Store, Working, Go, counts, RowKey, KeyIn
<1>3. /\ j.attachment \in Attachments /\ j.question \in Questions /\ j.asked
      /\ OwnedIn(attachments, j.workspace, j.attachment)
      /\ j.answer \in Said /\ j.answer.of = j.attachment /\ j.answer.words = Normalized(j.question)
      /\ j.for \in {"inspect", "analyze", "turn"}
  BY <1>1 DEF JobOK, KindFits, Inspecting
<1>4. k \in CacheKeys /\ k = <<j.workspace, attachments[j.attachment].content, Normalized(j.question)>>
  BY <1>1, <1>3, KeyFacts
<1>5. j.answer # None
  BY <1>3, MediaAssumption DEF Said, Normalized
<1>6. SaidOf(j.answer, k, attachments)
  BY <1>3, <1>4 DEF SaidOf, OwnedIn
<1>7. /\ observations' \in [CacheKeys -> Said \cup {None}]
      /\ observations'[k] # None /\ (observations'[k] = j.answer \/ observations'[k] = observations[k])
      /\ \A x \in CacheKeys \ {k} : observations'[x] = observations[x]
  <2>1. \A x \in CacheKeys : observations'[x] =
            IF x = k THEN IF observations[k] = None THEN j.answer ELSE observations[k] ELSE observations[x]
    BY <1>1, <1>2, <1>4
  <2>2. observations' \in [CacheKeys -> Said \cup {None}]
    <3> HIDE DEF Said
    <3>1. (IF observations[k] = None THEN j.answer ELSE observations[k]) \in Said \cup {None}
      BY <1>1, <1>3, <1>4
    <3> QED BY <1>1, <1>2, <1>4, <3>1
  <2> QED BY <1>4, <1>5, <2>1, <2>2
<1>8. Stay(attachments, attachments', Attachments) /\ Stay(observations, observations', CacheKeys)
  <2>1. observations[k] # None => observations'[k] = observations[k]
    BY <1>1, <1>2, <1>4
  <2> QED BY <1>2, <1>7, <2>1 DEF Stay
<1>9. KeptOK(attachments', observations')
  BY <1>1, <1>2, <1>4, <1>6, <1>7 DEF KeptOK
<1>10. JobOK(j, attachments', observations', configured.sees)
  BY <1>1, <1>8, JobStays
<1>11. /\ u \in Jobs /\ u.at = "told" /\ u.for = j.for /\ u.question = j.question
       /\ u.workspace = j.workspace /\ u.attachment = j.attachment /\ u.answer = j.answer /\ u.asked = j.asked
       /\ u.results = j.results /\ u.pictures = j.pictures /\ u.todo = j.todo /\ u.meme = j.meme
  BY <1>1, MovedTo DEF JobStages
<1>12. JobOK(u, attachments', observations', configured.sees)
  <2>1. KeyIn(attachments', u, u.attachment) = k /\ \A a : KeyIn(attachments', u, a) = KeyIn(attachments', j, a)
    BY <1>2, <1>11 DEF KeyIn
  <2>2. u.for = "turn" => TurnFits(u, attachments', observations', configured.sees)
    BY <1>1, <1>10, <1>11, <2>1 DEF JobOK, TurnFits, Inspecting
  <2>3. KindFits(u) /\ OwnedIn(attachments', u.workspace, u.attachment)
    BY <1>1, <1>2, <1>3, <1>11 DEF KindFits, Inspecting, JobOK
  <2>4. SaidOf(u.answer, KeyIn(attachments', u, u.attachment), attachments')
    BY <1>2, <1>6, <1>11, <2>1
  <2> QED BY <1>3, <1>7, <1>11, <2>1, <2>2, <2>3, <2>4 DEF JobOK
<1>13. /\ ~Uploading(u)
       /\ Registers(u) => Registers(job[c]) /\ u.workspace = job[c].workspace /\ u.attachment = job[c].attachment
  BY <1>1, <1>11 DEF Registers, Uploading
<1>14. UploadsOK' /\ MemesOK'
  <2>1. job \in [Askers -> Jobs] /\ \A d \in Askers : JobOK(job[d], attachments, observations, configured.sees)
    BY DEF MediaInv, MediaTypes
  <2>2. UploadsOK'
    BY <1>2, <1>11, <1>13, <2>1, UploadsQuiet DEF MediaInv
  <2>3. MemesOK'
    BY <1>2, <1>8, <1>11, <1>13, <2>1, MemesQuiet DEF MediaInv
  <2> QED BY <2>2, <2>3
<1>15. /\ attachments' \in [Attachments -> UploadRows \cup {None}] /\ memes' \in [Memes -> MemeRows \cup {None}]
       /\ context' \in Workspaces \cup {None} /\ answers' \in Nat
  BY <1>2 DEF MediaInv, MediaTypes
<1> QED BY <1>2, <1>7, <1>8, <1>9, <1>11, <1>12, <1>14, <1>15, MediaGoes

\* A turn counts a picture among its results when something was said of it.
LEMMA ToldKeeps ==
    ASSUME MediaInv, NEW c \in Askers, Told(c)
    PROVE  MediaInv'
<1> PICK j : j = job[c]
  OBVIOUS
<1>1. j \in Jobs /\ JobOK(j, attachments, observations, configured.sees) /\ j.at = "told"
  BY CallerFacts DEF Told, Working, Doing
<1>2. /\ UNCHANGED <<configured, tables, contested>>
      /\ context' \in Workspaces \cup {None} /\ answers' \in Nat
  BY CallerFacts DEF Told, Working, counts
<1>3. /\ j.attachment \in Attachments /\ j.question \in Questions
      /\ OwnedIn(attachments, j.workspace, j.attachment)
      /\ observations[KeyIn(attachments, j, j.attachment)] # None
      /\ j.for = "turn" => TurnFits(j, attachments, observations, configured.sees)
      /\ j.for \in {"inspect", "analyze", "turn"}
  BY <1>1 DEF JobOK, KindFits, Inspecting
<1>4. \/ End(c)
      \/ j.for = "analyze" /\ Go(c, "create")
      \/ /\ j.for = "turn"
         /\ Become(c, [j EXCEPT !.at = "next", !.answer = None, !.asked = FALSE,
                !.results = IF j.answer.blank THEN @ ELSE @ \cup {j.attachment}])
  <2>1. CASE j.for = "inspect"
    BY <2>1 DEF Told
  <2>2. CASE j.for = "analyze"
    BY <2>2 DEF Told
  <2>3. CASE j.for = "turn"
    BY <2>3 DEF Told
  <2> QED BY <1>3, <2>1, <2>2, <2>3
<1>5. CASE End(c)
  BY <1>2, <1>5, EndKeeps
<1>6. CASE j.for = "analyze" /\ Go(c, "create")
  <2> PICK u : u = [j EXCEPT !.at = "create"]
    OBVIOUS
  <2>1. /\ u \in Jobs /\ u.at = "create" /\ u.for = j.for /\ u.question = j.question
        /\ u.workspace = j.workspace /\ u.attachment = j.attachment
    BY <1>1, MovedTo DEF JobStages
  <2>2. JobOK(u, attachments, observations, configured.sees)
    BY <1>3, <1>6, <2>1 DEF JobOK, KindFits, Inspecting
  <2>3. /\ ~Uploading(u) /\ Become(c, u)
        /\ Registers(u) => Registers(job[c]) /\ u.workspace = job[c].workspace /\ u.attachment = job[c].attachment
    BY <1>1, <1>6, <2>1 DEF Registers, Uploading, Go
  <2> QED BY <1>2, <2>1, <2>2, <2>3, MediaQuiet
<1>7. CASE /\ j.for = "turn"
           /\ Become(c, [j EXCEPT !.at = "next", !.answer = None, !.asked = FALSE,
                  !.results = IF j.answer.blank THEN @ ELSE @ \cup {j.attachment}])
  <2> PICK r : r = IF j.answer.blank THEN j.results ELSE j.results \cup {j.attachment}
    OBVIOUS
  <2> PICK u : u = [j EXCEPT !.at = "next", !.answer = None, !.asked = FALSE, !.results = r]
    OBVIOUS
  <2>1. r \subseteq Attachments /\ r \subseteq j.results \cup {j.attachment}
    BY <1>1, <1>3 DEF Jobs
  <2>2. /\ u \in Jobs /\ u.at = "next" /\ u.for = j.for /\ u.question = j.question
        /\ u.workspace = j.workspace /\ u.attachment = j.attachment
        /\ u.results = r /\ u.pictures = j.pictures /\ u.todo = j.todo
    <3> HIDE DEF JobStages, JobKinds, Said
    <3>1. "next" \in JobStages
      BY DEF JobStages
    <3>2. r \in SUBSET Attachments
      BY <2>1
    <3> DEFINE v == [j EXCEPT !.at = "next", !.answer = None, !.asked = FALSE]
    <3>3. /\ v \in Jobs /\ v.at = "next" /\ v.for = j.for /\ v.question = j.question
          /\ v.workspace = j.workspace /\ v.attachment = j.attachment /\ v.pictures = j.pictures /\ v.todo = j.todo
      BY <1>1, <3>1 DEF Jobs
    <3>4. u = [v EXCEPT !.results = r]
      OBVIOUS
    <3> HIDE DEF v
    <3> QED BY <3>2, <3>3, <3>4 DEF Jobs
  <2>3. Become(c, u)
    <3>1. [j EXCEPT !.at = "next", !.answer = None, !.asked = FALSE,
                    !.results = IF j.answer.blank THEN @ ELSE @ \cup {j.attachment}] = u
      <4> HIDE DEF JobStages, JobKinds, Said
      <4> QED BY <1>1 DEF Jobs
    <3> QED BY <1>7, <3>1
  <2>4. \A a : KeyIn(attachments, u, a) = KeyIn(attachments, j, a)
    BY <2>2 DEF KeyIn
  <2>5. TurnFits(u, attachments, observations, configured.sees)
    <3>1. /\ TurnFits(j, attachments, observations, configured.sees) /\ j.attachment \in j.pictures
          /\ j.todo \subseteq j.pictures
      BY <1>1, <1>3, <1>7 DEF TurnFits, Inspecting
    <3>2. u.results \subseteq u.pictures
      BY <2>1, <2>2, <3>1 DEF TurnFits
    <3>3. \A a \in u.results : OwnedIn(attachments, u.workspace, a) /\ observations[KeyIn(attachments, u, a)] # None
      BY <1>3, <2>1, <2>2, <2>4, <3>1 DEF TurnFits
    <3> QED BY <2>2, <3>1, <3>2, <3>3 DEF TurnFits, Inspecting
  <2>6. JobOK(u, attachments, observations, configured.sees) /\ ~Registers(u) /\ ~Uploading(u)
    BY <1>3, <1>7, <2>2, <2>5 DEF JobOK, KindFits, Registers, Inspecting, Uploading
  <2> QED BY <1>2, <2>2, <2>3, <2>6, MediaQuiet
<1> QED BY <1>4, <1>5, <1>6, <1>7

-----------------------------------------------------------------------------
\* Memes: a caller that goes on to register a picture is the only one and
\* finds no meme of it, or the picture is contested.
LEMMA LookForMemeKeeps ==
    ASSUME MediaInv, NEW c \in Askers, LookForMeme(c)
    PROVE  MediaInv'
<1> PICK j : j = job[c]
  OBVIOUS
<1> PICK s : s = IF j.for = "register" THEN "create" ELSE "consult"
  OBVIOUS
<1> DEFINE others == \E d \in Askers \ {c} : Registering(d) /\ Picture(job[d]) = Picture(j)
           go == Has(j.workspace, j.attachment) /\ (j.force \/ ~Registered(j.workspace, j.attachment))
<1>1. /\ j \in Jobs /\ JobOK(j, attachments, observations, configured.sees) /\ j.at = "known"
      /\ attachments \in [Attachments -> UploadRows \cup {None}]
      /\ observations \in [CacheKeys -> Said \cup {None}] /\ memes \in [Memes -> MemeRows \cup {None}]
      /\ job \in [Askers -> Jobs] /\ UploadsOK /\ MemesOK
      /\ \A d \in Askers : JobOK(job[d], attachments, observations, configured.sees)
  BY DEF MediaInv, MediaTypes, LookForMeme, Working, Doing
<1>2. /\ UNCHANGED <<configured, tables>>
      /\ UNCHANGED <<files, attachments, observations, memes>>
      /\ context' \in Workspaces \cup {None} /\ answers' \in Nat
      /\ IF ~go THEN End(c) ELSE Go(c, s)
      /\ contested' = IF go /\ (j.force \/ others) THEN contested \cup {Picture(j)} ELSE contested
  BY CallerFacts DEF LookForMeme, Working, tables
<1>3. CASE ~go
  <2>1. UNCHANGED contested /\ End(c)
    BY <1>2, <1>3
  <2> QED BY <1>2, <2>1, EndKeeps
<1>4. CASE go
  <2> PICK u : u = [j EXCEPT !.at = s]
    OBVIOUS
  <2>1. /\ OwnedIn(attachments, j.workspace, j.attachment) /\ j.for \in {"register", "analyze"}
        /\ j.attachment \in Attachments /\ (j.for = "analyze" => j.question \in Questions)
    BY <1>1, <1>4 DEF JobOK, KindFits, Has, OwnedIn
  <2>2. Become(c, u)
    BY <1>2, <1>4 DEF Go
  <2>3. /\ u \in Jobs /\ u.at = s /\ u.for = j.for /\ u.question = j.question
        /\ u.workspace = j.workspace /\ u.attachment = j.attachment
    <3>1. s \in JobStages
      BY DEF JobStages
    <3> QED BY <1>1, <3>1, MovedTo
  <2>4. JobOK(u, attachments, observations, configured.sees) /\ Registers(u) /\ ~Uploading(u)
    BY <2>1, <2>3 DEF JobOK, KindFits, Registers, Inspecting, Uploading
  <2>5. /\ contested \subseteq contested'
        /\ PictureIn(attachments, u) \notin contested' =>
              ~j.force /\ ~others /\ ~Registered(j.workspace, j.attachment)
    BY <1>2, <1>4, <2>3 DEF PictureIn, Picture
  <2>6. job'[c] = u /\ \A d \in Askers \ {c} : job'[d] = job[d]
    BY <1>1, <2>2 DEF Become
  <2>7. UploadsOK'
    BY <1>1, <1>2, <2>2, <2>3, <2>4, UploadsQuiet
  <2>8. \A d \in Askers : Registers(job[d]) => Registering(d) /\ Picture(job[d]) = PictureIn(attachments, job[d])
    BY <1>1 DEF Registers, Registering, Picture, PictureIn, JobOK, OwnedIn, Has
  <2>9. MemesOK'
    <3> SUFFICES ASSUME NEW w \in Workspaces, NEW p \in Contents, <<w, p>> \notin contested'
                 PROVE  /\ \A m, n \in Of(w, p)' : m = n
                        /\ \A d \in Askers : Registers(job'[d]) /\ PictureIn(attachments', job'[d]) = <<w, p>>
                              => Of(w, p)' = {}
                        /\ \A d, e \in Askers :
                              /\ Registers(job'[d]) /\ PictureIn(attachments', job'[d]) = <<w, p>>
                              /\ Registers(job'[e]) /\ PictureIn(attachments', job'[e]) = <<w, p>>
                              => d = e
      BY DEF MemesOK
    <3>1. Of(w, p)' = Of(w, p) /\ <<w, p>> \notin contested
      BY <1>2, <2>5 DEF Of
    <3>2. attachments' = attachments
      BY <1>2
    <3>3. /\ \A m, n \in Of(w, p) : m = n
          /\ \A d \in Askers : Registers(job[d]) /\ PictureIn(attachments, job[d]) = <<w, p>> => Of(w, p) = {}
          /\ \A d, e \in Askers :
                /\ Registers(job[d]) /\ PictureIn(attachments, job[d]) = <<w, p>>
                /\ Registers(job[e]) /\ PictureIn(attachments, job[e]) = <<w, p>>
                => d = e
      BY <1>1, <3>1 DEF MemesOK
    <3>4. ASSUME PictureIn(attachments, u) = <<w, p>>
          PROVE  /\ Of(w, p) = {}
                 /\ \A d \in Askers \ {c} : Registers(job[d]) => PictureIn(attachments, job[d]) # <<w, p>>
      <4>1. ~others /\ ~Registered(j.workspace, j.attachment)
        BY <2>5, <3>4
      <4>2. Picture(j) = <<w, p>> /\ j.workspace = w /\ attachments[j.attachment].content = p
        BY <2>3, <3>4 DEF PictureIn, Picture
      <4> QED BY <2>8, <4>1, <4>2 DEF Registered
    <3> QED BY <2>6, <3>1, <3>2, <3>3, <3>4
  <2>10. Stay(attachments, attachments', Attachments) /\ Stay(observations, observations', CacheKeys)
    BY <1>2 DEF Stay
  <2>11. /\ attachments' \in [Attachments -> UploadRows \cup {None}]
         /\ observations' \in [CacheKeys -> Said \cup {None}]
         /\ memes' \in [Memes -> MemeRows \cup {None}]
         /\ KeptOK(attachments', observations') /\ JobOK(u, attachments', observations', configured.sees)
    BY <1>1, <1>2, <2>4 DEF MediaInv
  <2> QED BY <1>2, <2>2, <2>3, <2>7, <2>9, <2>10, <2>11, MediaGoes
<1> QED BY <1>3, <1>4

\* The meme is the first of its picture, and its caller registers no more.
LEMMA CreateMemeKeeps ==
    ASSUME MediaInv, NEW c \in Askers, CreateMeme(c)
    PROVE  MediaInv'
<1> HIDE DEF Nothing
<1> PICK j : j = job[c]
  OBVIOUS
<1> PICK row : row = [attachment |-> j.attachment, workspace |-> j.workspace,
                      content |-> attachments[j.attachment].content, enabled |-> TRUE, uses |-> 0]
  OBVIOUS
<1>1. /\ j \in Jobs /\ JobOK(j, attachments, observations, configured.sees) /\ j.at = "create"
      /\ attachments \in [Attachments -> UploadRows \cup {None}]
      /\ observations \in [CacheKeys -> Said \cup {None}] /\ memes \in [Memes -> MemeRows \cup {None}]
      /\ job \in [Askers -> Jobs] /\ UploadsOK /\ MemesOK
  BY DEF MediaInv, MediaTypes, CreateMeme, Working, Doing
<1>2. /\ UNCHANGED <<configured, files, attachments, observations, context, answers, contested>> /\ End(c)
      /\ \E m \in Memes : memes' = [memes EXCEPT ![m] = row]
  BY DEF CreateMeme, Working, counts
<1> PICK n \in Memes : memes' = [memes EXCEPT ![n] = row]
  BY <1>2
<1>3. /\ Registers(j) /\ OwnedIn(attachments, j.workspace, j.attachment) /\ j.attachment \in Attachments
  BY <1>1 DEF JobOK, KindFits, Registers
<1>4. /\ row \in MemeRows /\ row.workspace = j.workspace /\ row.content = attachments[j.attachment].content
  BY <1>1, <1>3 DEF OwnedIn, UploadRows, MemeRows
<1>5. /\ memes' \in [Memes -> MemeRows \cup {None}]
      /\ \A m \in Memes \ {n} : memes'[m] = memes[m]
      /\ memes'[n] = row
  BY <1>1, <1>4
<1>6. job'[c] = Nothing /\ \A d \in Askers \ {c} : job'[d] = job[d]
  BY <1>1, <1>2 DEF End, Become
<1>7. MemesOK'
  <2> SUFFICES ASSUME NEW w \in Workspaces, NEW p \in Contents, <<w, p>> \notin contested'
               PROVE  /\ \A m, o \in Of(w, p)' : m = o
                      /\ \A d \in Askers : Registers(job'[d]) /\ PictureIn(attachments', job'[d]) = <<w, p>>
                            => Of(w, p)' = {}
                      /\ \A d, e \in Askers :
                            /\ Registers(job'[d]) /\ PictureIn(attachments', job'[d]) = <<w, p>>
                            /\ Registers(job'[e]) /\ PictureIn(attachments', job'[e]) = <<w, p>>
                            => d = e
    BY DEF MemesOK
  <2>1. attachments' = attachments /\ <<w, p>> \notin contested
    BY <1>2
  <2>2. \A d \in Askers : Registers(job'[d]) => d # c /\ job'[d] = job[d]
    BY <1>6, NothingFits
  <2>3. Of(w, p)' \subseteq Of(w, p) \cup {n} /\ (<<j.workspace, attachments[j.attachment].content>> # <<w, p>>
            => Of(w, p)' \subseteq Of(w, p))
    BY <1>4, <1>5 DEF Of
  <2>4. /\ \A m, o \in Of(w, p) : m = o
        /\ \A d \in Askers : Registers(job[d]) /\ PictureIn(attachments, job[d]) = <<w, p>> => Of(w, p) = {}
        /\ \A d, e \in Askers :
              /\ Registers(job[d]) /\ PictureIn(attachments, job[d]) = <<w, p>>
              /\ Registers(job[e]) /\ PictureIn(attachments, job[e]) = <<w, p>>
              => d = e
    BY <1>1, <2>1 DEF MemesOK
  <2>5. CASE PictureIn(attachments, j) = <<w, p>>
    <3>1. Of(w, p) = {} /\ \A d \in Askers : Registers(job'[d]) => PictureIn(attachments, job[d]) # <<w, p>>
      BY <1>3, <2>2, <2>4, <2>5
    <3> QED BY <2>1, <2>2, <2>3, <3>1
  <2>6. CASE PictureIn(attachments, j) # <<w, p>>
    <3>1. Of(w, p)' \subseteq Of(w, p)
      BY <2>3, <2>6 DEF PictureIn
    <3> QED BY <2>1, <2>2, <2>4, <3>1
  <2> QED BY <2>5, <2>6
<1>8. UploadsOK'
  BY <1>1, <1>2, NothingFits, UploadsQuiet DEF End
<1>9. Stay(attachments, attachments', Attachments) /\ Stay(observations, observations', CacheKeys)
  BY <1>2 DEF Stay
<1>10. /\ attachments' \in [Attachments -> UploadRows \cup {None}]
       /\ observations' \in [CacheKeys -> Said \cup {None}]
       /\ context' \in Workspaces \cup {None} /\ answers' \in Nat
       /\ KeptOK(attachments', observations') /\ JobOK(Nothing, attachments', observations', configured.sees)
       /\ Nothing \in Jobs /\ Become(c, Nothing)
  BY <1>1, <1>2, NothingFits DEF MediaInv, MediaTypes, End
<1> QED BY <1>2, <1>5, <1>7, <1>8, <1>9, <1>10, MediaGoes

\* Looking a meme up and choosing to send it changes none.
LEMMA GetMemeKeeps ==
    ASSUME MediaInv, NEW c \in Askers, GetMeme(c)
    PROVE  MediaInv'
<1> PICK j : j = job[c]
  OBVIOUS
<1> PICK u : u = [j EXCEPT !.at = "use"]
  OBVIOUS
<1>1. j \in Jobs /\ JobOK(j, attachments, observations, configured.sees) /\ j.at = "get"
  BY CallerFacts DEF GetMeme, Working, Doing
<1>2. /\ UNCHANGED <<configured, tables, contested>>
      /\ context' \in Workspaces \cup {None} /\ answers' \in Nat
  BY CallerFacts DEF GetMeme, Working, counts
<1>3. Become(c, u) \/ End(c)
  BY DEF GetMeme, Go
<1>4. u \in Jobs /\ u.at = "use" /\ u.for = j.for /\ u.meme = j.meme
  BY <1>1, MovedTo DEF JobStages
<1>5. JobOK(u, attachments, observations, configured.sees) /\ ~Registers(u) /\ ~Uploading(u)
  BY <1>1, <1>4 DEF JobOK, KindFits, Registers, Inspecting, Uploading
<1>6. CASE Become(c, u)
  BY <1>2, <1>4, <1>5, <1>6, MediaQuiet
<1>7. CASE End(c)
  BY <1>2, <1>7, EndKeeps
<1> QED BY <1>3, <1>6, <1>7

\* Memes that are used, switched off or deleted: none comes to be of another picture.
LEMMA MemesFewer ==
    ASSUME MediaInv, UNCHANGED <<configured, files, attachments, observations, context, answers, contested>>,
           memes' \in [Memes -> MemeRows \cup {None}],
           \A m \in Memes : memes'[m] # None =>
               memes[m] # None /\ memes'[m].workspace = memes[m].workspace /\ memes'[m].content = memes[m].content,
           job' \in [Askers -> Jobs],
           \A d \in Askers : job'[d] = job[d] \/ job'[d] = Nothing
    PROVE  MediaInv'
<1> HIDE DEF Nothing
<1>1. \A d \in Askers : job'[d] = job[d] \/ (~Registers(job'[d]) /\ ~Uploading(job'[d]))
  BY NothingFits
<1>2. \A w, p : Of(w, p)' \subseteq Of(w, p)
  BY DEF Of
<1>3. MemesOK'
  BY <1>1, <1>2 DEF MediaInv, MemesOK
<1>4. UploadsOK'
  BY <1>1 DEF MediaInv, UploadsOK, Uploading
<1>5. MediaTypes'
  BY DEF MediaInv, MediaTypes
<1>6. \A d \in Askers : JobOK(job'[d], attachments', observations', configured'.sees)
  BY NothingFits DEF MediaInv
<1> QED BY <1>3, <1>4, <1>5, <1>6 DEF MediaInv

\* Counting a use leaves a meme where it is, and brings none back.
LEMMA RecordUseKeeps ==
    ASSUME MediaInv, NEW c \in Askers, RecordUse(c)
    PROVE  MediaInv'
<1> HIDE DEF Nothing
<1> PICK n : n = job[c].meme
  OBVIOUS
<1>1. /\ UNCHANGED <<configured, files, attachments, observations, context, answers, contested>> /\ End(c)
      /\ memes' = IF memes[n] = None THEN memes ELSE [memes EXCEPT ![n].uses = @ + 1]
      /\ memes \in [Memes -> MemeRows \cup {None}] /\ job \in [Askers -> Jobs]
  BY DEF RecordUse, Working, counts, MediaInv, MediaTypes
<1>2. /\ job' \in [Askers -> Jobs] /\ \A d \in Askers : job'[d] = job[d] \/ job'[d] = Nothing
  BY <1>1, NothingFits DEF End, Become
<1>3. n \in Memes
  BY CallerFacts DEF RecordUse, Working, Doing, JobOK, KindFits
<1>4. CASE memes[n] = None
  BY <1>1, <1>2, <1>4, MemesFewer
<1>5. CASE memes[n] # None
  <2> PICK row : row = [memes[n] EXCEPT !.uses = @ + 1]
    OBVIOUS
  <2>1. row \in MemeRows /\ row.workspace = memes[n].workspace /\ row.content = memes[n].content
    BY <1>1, <1>3, <1>5 DEF MemeRows
  <2>2. memes' = [memes EXCEPT ![n] = row]
    BY <1>1, <1>5
  <2>3. /\ memes' \in [Memes -> MemeRows \cup {None}]
        /\ \A m \in Memes : memes'[m] # None =>
               memes[m] # None /\ memes'[m].workspace = memes[m].workspace /\ memes'[m].content = memes[m].content
    BY <1>1, <1>3, <1>5, <2>1, <2>2
  <2> QED BY <1>1, <1>2, <2>3, MemesFewer
<1> QED BY <1>4, <1>5

\* Switching a meme on or off or deleting it makes none of another picture.
LEMMA EditMemeKeeps ==
    ASSUME MediaInv, NEW c \in Askers, EditMeme(c)
    PROVE  MediaInv'
<1>1. /\ UNCHANGED <<configured, files, attachments, observations, context, answers, contested, job>>
      /\ memes \in [Memes -> MemeRows \cup {None}] /\ job \in [Askers -> Jobs]
  BY DEF EditMeme, MediaInv, MediaTypes
<1>2. PICK n \in Memes :
          /\ memes[n] # None
          /\ memes' = [memes EXCEPT ![n] = None] \/ memes' = [memes EXCEPT ![n].enabled = ~@]
  BY DEF EditMeme
<1>3. CASE memes' = [memes EXCEPT ![n] = None]
  <2>1. /\ memes' \in [Memes -> MemeRows \cup {None}]
        /\ \A m \in Memes : memes'[m] # None =>
               memes[m] # None /\ memes'[m].workspace = memes[m].workspace /\ memes'[m].content = memes[m].content
    BY <1>1, <1>2, <1>3
  <2> QED BY <1>1, <2>1, MemesFewer
<1>4. CASE memes' = [memes EXCEPT ![n].enabled = ~@]
  <2> PICK row : row = [memes[n] EXCEPT !.enabled = ~@]
    OBVIOUS
  <2>1. row \in MemeRows /\ row.workspace = memes[n].workspace /\ row.content = memes[n].content
    BY <1>1, <1>2 DEF MemeRows
  <2>2. memes' = [memes EXCEPT ![n] = row]
    BY <1>4
  <2>3. /\ memes' \in [Memes -> MemeRows \cup {None}]
        /\ \A m \in Memes : memes'[m] # None =>
               memes[m] # None /\ memes'[m].workspace = memes[m].workspace /\ memes'[m].content = memes[m].content
    BY <1>1, <1>2, <2>1, <2>2
  <2> QED BY <1>1, <2>3, MemesFewer
<1> QED BY <1>2, <1>3, <1>4

-----------------------------------------------------------------------------
\* The pictures of a turn: those of its workspace that can be read remain.
LEMMA ResolveKeeps ==
    ASSUME MediaInv, NEW c \in Askers, Resolve(c)
    PROVE  MediaInv'
<1> PICK j : j = job[c]
  OBVIOUS
<1> PICK seen : seen = {a \in j.pictures : Has(j.workspace, a) /\ Readable(a)}
  OBVIOUS
<1> PICK u : u = [j EXCEPT !.at = "delegate", !.pictures = seen]
  OBVIOUS
<1>1. j \in Jobs /\ JobOK(j, attachments, observations, configured.sees) /\ j.at = "resolve"
  BY CallerFacts DEF Resolve, Working, Doing
<1>2. /\ UNCHANGED <<configured, tables, contested>>
      /\ context' \in Workspaces \cup {None} /\ answers' \in Nat
  BY CallerFacts DEF Resolve, Working, counts
<1>3. seen \in SUBSET Attachments
  BY <1>1 DEF Jobs
<1>4. [j EXCEPT !.at = "delegate", !.pictures = {a \in @ : Has(j.workspace, a) /\ Readable(a)}] = u
  <2> HIDE DEF JobStages, JobKinds, Said
  <2>1. j.pictures = j.pictures /\ "delegate" \in JobStages
    BY DEF JobStages
  <2> QED BY <1>1, <1>3, <2>1 DEF Jobs
<1>5. Become(c, u)
  BY <1>4 DEF Resolve
<1>6. /\ u \in Jobs /\ u.at = "delegate" /\ u.for = j.for /\ u.question = j.question
      /\ u.results = j.results /\ u.pictures = seen
  <2> HIDE DEF JobStages, JobKinds, Said
  <2>1. "delegate" \in JobStages
    BY DEF JobStages
  <2> QED BY <1>1, <1>3, <2>1 DEF Jobs
<1>7. j.for = "turn" /\ j.question \in Questions /\ j.results = {}
  BY <1>1 DEF JobOK, KindFits, TurnFits
<1>8. JobOK(u, attachments, observations, configured.sees) /\ ~Registers(u) /\ ~Uploading(u)
  BY <1>6, <1>7 DEF JobOK, KindFits, Registers, Inspecting, Uploading, TurnFits
<1> QED BY <1>2, <1>5, <1>6, <1>8, MediaQuiet

\* A turn that goes on to a stage with what it has.
LEMMA TurnGoes ==
    ASSUME MediaInv, NEW c \in Askers, NEW s \in {"sent", "fallback"}, Go(c, s), job[c].for = "turn",
           UNCHANGED <<configured, tables, contested>>, context' \in Workspaces \cup {None}, answers' \in Nat,
           s = "sent" => job[c].pictures = {} \/ configured.sees \/ job[c].results # {}
    PROVE  MediaInv'
<1> PICK j : j = job[c]
  OBVIOUS
<1> PICK u : u = [j EXCEPT !.at = s]
  OBVIOUS
<1>1. j \in Jobs /\ JobOK(j, attachments, observations, configured.sees)
  BY CallerFacts
<1>2. TurnFits(j, attachments, observations, configured.sees) /\ j.question \in Questions
  BY <1>1 DEF JobOK, KindFits
<1>3. /\ u \in Jobs /\ u.at = s /\ u.for = j.for /\ u.question = j.question
      /\ u.workspace = j.workspace /\ u.results = j.results /\ u.pictures = j.pictures
  BY <1>1, MovedTo DEF JobStages
<1>4. TurnFits(u, attachments, observations, configured.sees)
  BY <1>2, <1>3 DEF TurnFits, KeyIn, Inspecting
<1>5. JobOK(u, attachments, observations, configured.sees) /\ ~Registers(u) /\ ~Uploading(u)
  BY <1>2, <1>3, <1>4 DEF JobOK, KindFits, Registers, Inspecting, Uploading
<1>6. Become(c, u)
  BY DEF Go
<1> QED BY <1>3, <1>5, <1>6, MediaQuiet

\* A turn is sent with its pictures to a model that sees them, or has each inspected.
LEMMA DelegateKeeps ==
    ASSUME MediaInv, NEW c \in Askers, Delegate(c)
    PROVE  MediaInv'
<1> PICK j : j = job[c]
  OBVIOUS
<1>1. j \in Jobs /\ JobOK(j, attachments, observations, configured.sees) /\ j.at = "delegate"
  BY CallerFacts DEF Delegate, Doing
<1>2. UNCHANGED <<configured, tables, contested>> /\ answers' \in Nat
  BY CallerFacts DEF Delegate, counts
<1>3. j.for = "turn" /\ j.question \in Questions /\ j.results = {}
  BY <1>1 DEF JobOK, KindFits, TurnFits
<1>4. CASE j.pictures = {} \/ configured.sees
  <2>1. Go(c, "sent") /\ context' \in Workspaces \cup {None}
    BY <1>4, CallerFacts DEF Delegate
  <2> QED BY <1>2, <1>3, <1>4, <2>1, TurnGoes
<1>5. CASE ~(j.pictures = {} \/ configured.sees) /\ ~configured.vision
  <2>1. Go(c, "fallback") /\ context' \in Workspaces \cup {None}
    BY <1>5, CallerFacts DEF Delegate
  <2> QED BY <1>2, <1>3, <2>1, TurnGoes
<1>6. CASE ~(j.pictures = {} \/ configured.sees) /\ configured.vision
  <2> PICK u : u = [j EXCEPT !.at = "next", !.todo = j.pictures]
    OBVIOUS
  <2>1. context' \in Workspaces \cup {None} /\ Become(c, u)
    <3>1. context' = j.workspace /\ Become(c, u)
      BY <1>6 DEF Delegate
    <3>2. j.workspace \in Workspaces \cup {None}
      BY <1>1 DEF Jobs
    <3> QED BY <3>1, <3>2
  <2>2. /\ u \in Jobs /\ u.at = "next" /\ u.for = j.for /\ u.question = j.question
        /\ u.results = j.results /\ u.pictures = j.pictures /\ u.todo = j.pictures
    <3> HIDE DEF JobStages, JobKinds, Said
    <3>1. "next" \in JobStages
      BY DEF JobStages
    <3> QED BY <1>1, <3>1 DEF Jobs
  <2>3. JobOK(u, attachments, observations, configured.sees) /\ ~Registers(u) /\ ~Uploading(u)
    BY <1>3, <2>2 DEF JobOK, KindFits, Registers, Inspecting, Uploading, TurnFits
  <2> QED BY <1>2, <2>1, <2>2, <2>3, MediaQuiet
<1> QED BY <1>4, <1>5, <1>6

\* Pictures to be inspected are the turn's; it is sent when something was said of one.
LEMMA NextPictureKeeps ==
    ASSUME MediaInv, NEW c \in Askers, NextPicture(c)
    PROVE  MediaInv'
<1> PICK j : j = job[c]
  OBVIOUS
<1>1. j \in Jobs /\ JobOK(j, attachments, observations, configured.sees) /\ j.at = "next"
  BY CallerFacts DEF NextPicture, Working, Doing
<1>2. /\ UNCHANGED <<configured, tables, contested>>
      /\ context' \in Workspaces \cup {None} /\ answers' \in Nat
  BY CallerFacts DEF NextPicture, Working, counts
<1>3. /\ j.for = "turn" /\ j.question \in Questions
      /\ TurnFits(j, attachments, observations, configured.sees) /\ j.todo \subseteq j.pictures
  BY <1>1 DEF JobOK, KindFits, TurnFits
<1>4. \/ \E a \in j.todo : Become(c, [j EXCEPT !.at = "consult", !.attachment = a, !.todo = @ \ {a}])
      \/ Go(c, PicturesDone(j.results))
  BY DEF NextPicture
<1>5. CASE \E a \in j.todo : Become(c, [j EXCEPT !.at = "consult", !.attachment = a, !.todo = @ \ {a}])
  <2> PICK a \in j.todo : Become(c, [j EXCEPT !.at = "consult", !.attachment = a, !.todo = @ \ {a}])
    BY <1>5
  <2> PICK u : u = [j EXCEPT !.at = "consult", !.attachment = a, !.todo = @ \ {a}]
    OBVIOUS
  <2>1. a \in Attachments /\ j.todo \ {a} \in SUBSET Attachments
    BY <1>1 DEF Jobs
  <2>2. /\ u \in Jobs /\ u.at = "consult" /\ u.for = j.for /\ u.question = j.question
        /\ u.workspace = j.workspace /\ u.attachment = a
        /\ u.results = j.results /\ u.pictures = j.pictures /\ u.todo = j.todo \ {a}
    <3> HIDE DEF JobStages, JobKinds, Said
    <3>1. "consult" \in JobStages
      BY DEF JobStages
    <3> QED BY <1>1, <2>1, <3>1 DEF Jobs
  <2>3. \A b : KeyIn(attachments, u, b) = KeyIn(attachments, j, b)
    BY <2>2 DEF KeyIn
  <2>4. TurnFits(u, attachments, observations, configured.sees)
    BY <1>3, <2>2, <2>3 DEF TurnFits, Inspecting
  <2>5. JobOK(u, attachments, observations, configured.sees) /\ ~Registers(u) /\ ~Uploading(u)
    BY <1>3, <2>1, <2>2, <2>4 DEF JobOK, KindFits, Registers, Inspecting, Uploading
  <2>6. Become(c, u)
    OBVIOUS
  <2> QED BY <1>2, <2>2, <2>5, <2>6, MediaQuiet
<1>6. CASE Go(c, PicturesDone(j.results))
  <2>1. PicturesDone(j.results) \in {"sent", "fallback"} /\ (PicturesDone(j.results) = "sent" => j.results # {})
    BY DEF PicturesDone
  <2> QED BY <1>2, <1>3, <1>6, <2>1, TurnGoes
<1> QED BY <1>4, <1>5, <1>6

\* The last stages end the call.
LEMMA LastKeeps ==
    ASSUME MediaInv, NEW c \in Askers, Fallback(c) \/ Sent(c)
    PROVE  MediaInv'
<1>1. /\ UNCHANGED <<configured, tables, contested>> /\ End(c)
      /\ context' \in Workspaces \cup {None} /\ answers' \in Nat
  BY CallerFacts DEF Fallback, Sent, Working, counts
<1> QED BY <1>1, EndKeeps

\* A process that ends leaves its tables, and the next knows none of its calls.
LEMMA StopKeeps ==
    ASSUME MediaInv, Stop
    PROVE  MediaInv'
<1> HIDE DEF Nothing
<1>1. /\ UNCHANGED <<configured, files, attachments, observations, memes, answers, contested>>
      /\ job' = [c \in Askers |-> Nothing] /\ context' = None
  BY DEF Stop, tables, counts
<1>2. job' \in [Askers -> Jobs] /\ \A d \in Askers : job'[d] = Nothing
  BY <1>1, NothingFits
<1>3. \A w, p : Of(w, p)' = Of(w, p)
  BY <1>1 DEF Of
<1>4. MemesOK'
  BY <1>1, <1>2, <1>3, NothingFits DEF MediaInv, MemesOK
<1>5. UploadsOK'
  BY <1>1, <1>2, NothingFits DEF MediaInv, UploadsOK, Uploading
<1>6. MediaTypes'
  BY <1>1, <1>2 DEF MediaInv, MediaTypes
<1>7. \A d \in Askers : JobOK(job'[d], attachments', observations', configured'.sees)
  BY <1>2, NothingFits
<1> QED BY <1>1, <1>4, <1>5, <1>6, <1>7 DEF MediaInv

\* A new process has the uploads of earlier ones, each with its file.
LEMMA MediaStarts ==
    ASSUME MediaInit
    PROVE  MediaInv
<1> HIDE DEF Nothing
<1>1. job \in [Askers -> Jobs] /\ \A c \in Askers : job[c] = Nothing
  BY NothingFits DEF MediaInit
<1>2. attachments \in [Attachments -> UploadRows \cup {None}]
  <2> PICK start \in Uploaded : attachments = start.table
    BY DEF MediaInit
  <2>1. start.table \in [Attachments -> {None} \cup
           [content : Contents, workspace : Workspaces, named : BOOLEAN]]
    BY MediaAssumption
  <2> QED BY <2>1 DEF UploadRows
<1>3. /\ observations \in [CacheKeys -> Said \cup {None}] /\ \A k \in CacheKeys : observations[k] = None
      /\ memes \in [Memes -> MemeRows \cup {None}] /\ \A m \in Memes : memes[m] = None
  BY DEF MediaInit
<1>4. MediaTypes
  BY <1>1, <1>2, <1>3 DEF MediaInit, MediaTypes
<1>5. KeptOK(attachments, observations) /\ \A w, p : Of(w, p) = {}
  BY <1>3 DEF KeptOK, Of
<1>6. MemesOK
  BY <1>1, <1>5, NothingFits DEF MemesOK
<1>7. UploadsOK
  BY <1>1, <1>2, NothingFits DEF MediaInit, UploadsOK, Uploading
<1>8. \A c \in Askers : JobOK(job[c], attachments, observations, configured.sees)
  BY <1>1, NothingFits
<1> QED BY <1>4, <1>5, <1>6, <1>7, <1>8 DEF MediaInv

\* Every step keeps the invariant.
LEMMA MediaGoesOn ==
    ASSUME MediaInv, [MediaStep]_mediaVars
    PROVE  MediaInv'
<1>1. CASE UNCHANGED mediaVars
  <2>1. UNCHANGED <<configured, files, attachments, observations, memes, context, job, answers, contested>>
    BY <1>1 DEF mediaVars, tables, counts
  <2>2. \A w, p : Of(w, p)' = Of(w, p)
    BY <2>1 DEF Of
  <2>3. MediaTypes' /\ UploadsOK'
    BY <2>1 DEF MediaInv, MediaTypes, UploadsOK
  <2>4. MemesOK'
    BY <2>1, <2>2 DEF MediaInv, MemesOK
  <2> QED BY <2>1, <2>3, <2>4 DEF MediaInv
<1>2. CASE MediaStep
  <2>1. ASSUME NEW c \in Askers, Upload(c) \/ WriteFile(c) \/ InsertRow(c) PROVE MediaInv'
    BY <2>1, UploadKeeps, WriteFileKeeps, InsertRowKeeps
  <2>2. ASSUME NEW c \in Askers, Request(c) \/ CallTool(c) \/ RunTool(c) \/ Turn(c) PROVE MediaInv'
    BY <2>2, RequestKeeps, CallToolKeeps, RunToolKeeps, TurnKeeps
  <2>3. ASSUME NEW c \in Askers, Consult(c) \/ AskModel(c) \/ ModelFails(c) \/ Store(c) \/ Told(c) PROVE MediaInv'
    BY <2>3, ConsultKeeps, AskModelKeeps, ModelFailsKeeps, StoreKeeps, ToldKeeps
  <2>4. ASSUME NEW c \in Askers,
               LookForMeme(c) \/ CreateMeme(c) \/ GetMeme(c) \/ RecordUse(c) \/ EditMeme(c) PROVE MediaInv'
    BY <2>4, LookForMemeKeeps, CreateMemeKeeps, GetMemeKeeps, RecordUseKeeps, EditMemeKeeps
  <2>5. ASSUME NEW c \in Askers,
               Resolve(c) \/ Delegate(c) \/ NextPicture(c) \/ Fallback(c) \/ Sent(c) PROVE MediaInv'
    BY <2>5, ResolveKeeps, DelegateKeeps, NextPictureKeeps, LastKeeps
  <2> QED BY <1>2, <2>1, <2>2, <2>3, <2>4, <2>5, StopKeeps DEF MediaStep
<1> QED BY <1>1, <1>2

\* The invariant has the three properties of the pictures as its consequences.
LEMMA PicturesFollow ==
    ASSUME MediaInv
    PROVE  PicturesTrue
<1>1. AnswerIsOfThePicture
  <2> SUFFICES ASSUME NEW c \in Askers, Doing(c, "told")
               PROVE  /\ job[c].answer.words = Normalized(job[c].question)
                      /\ attachments[job[c].answer.of].content = attachments[job[c].attachment].content
                      /\ attachments[job[c].answer.of].workspace = job[c].workspace
                      /\ job[c].asked \/ job[c].answer = observations[RowKey(job[c])]
    BY DEF AnswerIsOfThePicture
  <2> PICK j : j = job[c]
    OBVIOUS
  <2> PICK k : k = KeyIn(attachments, j, j.attachment)
    OBVIOUS
  <2>1. /\ j \in Jobs /\ JobOK(j, attachments, observations, configured.sees) /\ j.at = "told"
        /\ attachments \in [Attachments -> UploadRows \cup {None}]
    BY CallerFacts DEF Doing
  <2>2. /\ j.attachment \in Attachments /\ j.question \in Questions
        /\ OwnedIn(attachments, j.workspace, j.attachment)
        /\ SaidOf(j.answer, k, attachments) /\ (j.asked \/ j.answer = observations[k])
    BY <2>1 DEF JobOK, KindFits, Inspecting
  <2>3. k = <<j.workspace, attachments[j.attachment].content, Normalized(j.question)>> /\ RowKey(j) = k
    BY <2>1, <2>2, KeyFacts DEF KeyIn, RowKey
  <2> QED BY <2>2, <2>3 DEF SaidOf
<1>2. OneMemeEach
  <2> SUFFICES ASSUME NEW w \in Workspaces, NEW p \in Contents, <<w, p>> \notin contested
               PROVE  ~(Cardinality(Of(w, p)) > 1)
    BY DEF OneMemeEach
  <2>1. \A m, n \in Of(w, p) : m = n
    BY DEF MediaInv, MemesOK
  <2>2. CASE Of(w, p) = {}
    BY <2>2, FS_EmptySet
  <2>3. CASE Of(w, p) # {}
    <3> PICK m : m \in Of(w, p)
      BY <2>3
    <3>1. Of(w, p) = {m}
      BY <2>1
    <3>2. Cardinality({m}) = 1
      BY FS_Singleton
    <3>3. Cardinality(Of(w, p)) = 1
      BY <3>1, <3>2
    <3> QED BY <3>3
  <2> QED BY <2>2, <2>3
<1>3. PictureNotIgnored
  <2> SUFFICES ASSUME NEW c \in Askers, Doing(c, "sent"), job[c].pictures # {}, ~configured.sees
               PROVE  \E a \in job[c].pictures :
                          /\ a \in job[c].results
                          /\ observations[CacheKey(job[c].workspace, attachments[a].content, job[c].question)]
                                # None
    BY DEF PictureNotIgnored
  <2>1. JobOK(job[c], attachments, observations, configured.sees) /\ job[c].at = "sent"
    BY CallerFacts DEF Doing
  <2>2. TurnFits(job[c], attachments, observations, configured.sees)
    BY <2>1 DEF JobOK, KindFits
  <2> QED BY <2>1, <2>2 DEF TurnFits, KeyIn
<1> QED BY <1>1, <1>2, <1>3 DEF PicturesTrue

\* What callers, tables and memes of Media hold at every moment, for any callers, pictures and questions.
THEOREM MediaInvariance == MediaSpec => []MediaInv
<1> QED BY MediaStarts, MediaGoesOn, PTL DEF MediaSpec

\* PicturesTrue: what inspect_image returns was said of the picture, a picture is one meme of its
\* workspace, and a turn's pictures are not passed over in silence, whatever runs at the same time.
THEOREM PicturesAreTrue == MediaSpec => []PicturesTrue
<1> QED BY MediaInvariance, PicturesFollow, PTL

=============================================================================
