--------------------------- MODULE MCNotifications ---------------------------
(* Instances of Notifications for TLC.                                      *)
EXTENDS Notifications, TLC

CONSTANTS e1, e2, a

\* Two events on one topic; the first has a source that waits for its answer.
MCTopic == (e1 :> a) @@ (e2 :> a)
MCPriority == (e1 :> "normal") @@ (e2 :> "urgent")

ProcessSymmetry == Permutations(Procs)
===============================================================================
