------------------------------- MODULE Restart -------------------------------
(***************************************************************************)
(* The two stores from which a process that died is carried on: the runs   *)
(* with their leases, taken up by a sweep of any process, and the inbound  *)
(* messages, taken up when the API process starts its loop.  They share no *)
(* row and no thread, so a behaviour is about one of them, and the other   *)
(* stays as it starts.                                                     *)
(***************************************************************************)
EXTENDS DurableRuns, InboundQueue

VARIABLE about      \* the store a behaviour is about

restartVars == <<vars, queueVars, about>>

RestartInit == Init /\ QueueInit /\ about \in {"runs", "messages"}

OfRuns(A) == about = "runs" /\ A /\ UNCHANGED <<queueVars, about>>
OfMessages(A) == about = "messages" /\ A /\ UNCHANGED <<vars, about>>

RestartNext == OfRuns(Next) \/ OfMessages(QueueStep)

\* What DurableRuns and InboundQueue ask for, of the store at hand.
RestartFairness ==
    /\ Fairness
    /\ WF_restartVars(OfMessages(LoopStep))
    /\ \A m \in Messages :
        WF_restartVars(OfMessages(TaskStep(m))) /\ WF_restartVars(OfMessages(Ages(m)))

RestartSpec == RestartInit /\ [][RestartNext]_restartVars /\ RestartFairness

-----------------------------------------------------------------------------
\* What a process that died had begun is carried on: a run whose worker is gone
\* does not stay running for ever, whoever claims and finishes meanwhile, and a
\* message left pending, or processing for 300 s by the time of the restart, is
\* run again unless the database fails.
LeftoversCarriedOn == OrphanRecovered /\ LeftoverIsReplayed
==============================================================================
