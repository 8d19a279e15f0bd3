------------------------------ MODULE MCMemory ------------------------------
(***************************************************************************)
(* The stores of the memory package: the memories a user writes, with      *)
(* their keyword rows and vectors (MemoryIndex), the items extracted from  *)
(* conversations (Consolidation), and the recall that reads both.  The two *)
(* stores share no table; Init chooses what a behaviour is about and how   *)
(* much may happen there.                                                  *)
(***************************************************************************)
EXTENDS Recall, TLC

CONSTANT Bounds     \* bounds: of changes, incidents, outages, recalls and of the
                    \* messages of a session

VARIABLE bound      \* the one chosen

memoryVars == <<memoriesVars, consolidationVars, recallVars, bound>>

Within ==
    /\ changes' <= bound.changes /\ incidents' <= bound.incidents
    /\ outages' <= bound.outages /\ recalls' <= bound.recalls
    /\ \A s \in Sessions : size'[s] <= bound.messages
    /\ UNCHANGED bound

BoundedNext ==
    \/ Editing /\ Within
    \/ Consolidating /\ Within
    \/ bound.recalls > 0 /\ Pin /\ Within
    \/ RecallStep /\ Within

BoundedInit == MemoryInit /\ bound \in Bounds
Spec == BoundedInit /\ [][BoundedNext]_memoryVars

-----------------------------------------------------------------------------
CONSTANTS api, cli, console, chat, t1, t2, s1, s2

\* Changes beside each other, changes and a crash, turns; a recall beside
\* changes, after a crash among them, and beside a turn.
MCBounds ==
    { [changes |-> 4, incidents |-> 0, outages |-> 0, recalls |-> 0, messages |-> 0],
      [changes |-> 3, incidents |-> 1, outages |-> 0, recalls |-> 0, messages |-> 0],
      [changes |-> 0, incidents |-> 0, outages |-> 1, recalls |-> 0, messages |-> 8],
      [changes |-> 2, incidents |-> 1, outages |-> 0, recalls |-> 1, messages |-> 0],
      [changes |-> 0, incidents |-> 0, outages |-> 0, recalls |-> 1, messages |-> 5] }
MCSymmetry == Permutations({api, cli}) \cup Permutations({t1, t2}) \cup Permutations({s1, s2})
=============================================================================
