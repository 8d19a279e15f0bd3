--------------------------- MODULE MCConversation ---------------------------
(***************************************************************************)
(* What a turn shows the chat model: the words, of Prompt, and the         *)
(* pictures, of Media.  The two share no state; a behaviour is about one   *)
(* of them, and the bounds of the other leave it as it starts.             *)
(***************************************************************************)
EXTENDS Media, Prompt

vars == <<mediaVars, promptVars>>

Init ==
    /\ MediaInit /\ PromptInit
    /\ \/ start.turns > 0 /\ orders = 0 /\ ~configured.vision /\ ~configured.sees
       \/ start.turns = 0 /\ orders > 0 /\ \A b \in Budgets : b <= budget

Next ==
    \/ MediaStep /\ UNCHANGED promptVars
    \/ PromptStep /\ UNCHANGED mediaVars

Spec == Init /\ [][Next]_vars

-----------------------------------------------------------------------------

CONSTANTS c1, c2, a1, a2, p1, p2, w1, w2, m1, m2, t1, t2, s1, s2

\* One question in two wordings, and the question of analyze_meme.
MCMemeQuestion == <<"profile", "">>
MCQuestions == {<<"look", ".">>, <<"look", "">>, MCMemeQuestion}

\* Nothing is uploaded yet; one picture once, twice, in two workspaces; two pictures.
MCRow(content, workspace) == [content |-> content, workspace |-> workspace, named |-> TRUE]
MCTable(other) == [a \in Attachments |-> IF a = a1 THEN MCRow(p1, w1) ELSE other]
MCNoTable == [a \in Attachments |-> None]
MCUploaded ==
    {[table |-> MCNoTable, orders |-> n] : n \in {0, 2}}
    \cup {[table |-> MCTable(row), orders |-> 2] : row \in
              {None, MCRow(p1, w1), MCRow(p2, w1), MCRow(p1, w2)}}

\* A memory of which two are more than their share of a budget of 1000.
MCRecalls == {<<60, 60>>}

\* No turn; one after the other, long enough for summaries; beside each other,
\* when a summary is due.
MCStarts ==
    { [messages |-> 0, turns |-> 0, atOnce |-> 0],
      [messages |-> 1, turns |-> 3, atOnce |-> 1],
      [messages |-> 2, turns |-> 2, atOnce |-> 2] }

MCSymmetry == UNION {Permutations(set) : set \in {Askers, Memes, Slots, Sessions}}
=============================================================================
