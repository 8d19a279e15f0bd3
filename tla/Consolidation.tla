--------------------------- MODULE Consolidation ---------------------------
(***************************************************************************)
(* memory/consolidation.py and memory/memorizer.py with the kernel's step  *)
(* after a turn (_consolidate) and session_store.py: what a turn appended  *)
(* is offered to the extracting model, the facts it returns are saved or   *)
(* reinforced in memory_items, old messages are trimmed.  One workspace,   *)
(* one kernel; turns of several sessions run in threads and share the      *)
(* counter _last_consolidated.  Messages of a session are numbered.        *)
(***************************************************************************)
EXTENDS FiniteSets, Naturals

CONSTANTS
    Sessions,       \* sessions of the workspace, one turn at a time each
    Facts,          \* summaries the model may extract
    keep_count,     \* ConsolidationService's argument, at least 4
    TurnSizes,      \* messages a turn appends
    MessageBound    \* bound: messages of a session

ASSUME ConsolidationAssumption ==
    keep_count \in Nat /\ keep_count >= 4 /\ TurnSizes \subseteq Nat \ {0}

VARIABLES
    last,       \* _last_consolidated of the workspace
    messages,   \* messages of each session: the numbers of the rows
    size,       \* messages ever appended to a session
    offered,    \* ghost: messages a model was shown
    turn,       \* what each session's turn is at after its answer
    items,      \* memory_items: reinforcement of a fact, 0 without a row
    saves,      \* ghost: saves of a fact that returned
    outages     \* bound: extractions that fail, ends of the process

consolidationVars ==
    <<last, messages, size, offered, turn, items, saves, outages>>

\* max(5, keep_count // 2)
min_new == IF keep_count \div 2 > 5 THEN keep_count \div 2 ELSE 5

NoFact == "none"

Resting == [at |-> "idle", list |-> {}, fact |-> NoFact, found |-> 0]

ConsolidationInit ==
    /\ last = 0
    /\ messages = [s \in Sessions |-> {}]
    /\ size = [s \in Sessions |-> 0]
    /\ offered = [s \in Sessions |-> {}]
    /\ turn = [s \in Sessions |-> Resting]
    /\ items = [f \in Facts |-> 0]
    /\ saves = [f \in Facts |-> 0]
    /\ outages = 0

In(s, at) == turn[s].at = at
Become(s, state) == turn' = [turn EXCEPT ![s] = state]
Go(s, at) == Become(s, [turn[s] EXCEPT !.at = at])

\* The n newest of a list; all but the n oldest.
Newest(n, list) == {i \in list : Cardinality({j \in list : j > i}) < n}
After(n, list) == {i \in list : Cardinality({j \in list : j < i}) >= n}

(* the turn's messages are persisted *)
Persisted(s) ==
    /\ In(s, "idle")
    /\ \E n \in TurnSizes :
           /\ size[s] + n <= MessageBound
           /\ size' = [size EXCEPT ![s] = @ + n]
           /\ messages' = [messages EXCEPT ![s] = @ \cup (size[s] + 1)..(size[s] + n)]
    /\ Go(s, "list")
    /\ UNCHANGED <<last, offered, items, saves, outages>>

(* list_messages *)
List(s) ==
    /\ In(s, "list")
    /\ Become(s, [turn[s] EXCEPT !.at = "decide", !.list = messages[s]])
    /\ UNCHANGED <<last, messages, size, offered, items, saves, outages>>

(* after_turn: what is new since the counter, whichever session set it last *)
Fresh(list) == After(last, list)
Due(list) == Cardinality(list) >= last + min_new

Decide(s) ==
    /\ In(s, "decide")
    /\ IF Due(turn[s].list)
       THEN \/ /\ Go(s, "first")
               /\ offered' = [offered EXCEPT ![s] = @ \cup Fresh(turn[s].list)]
               /\ UNCHANGED outages
            \/ Go(s, "count") /\ outages' = outages + 1 /\ UNCHANGED offered
       ELSE Go(s, "count") /\ UNCHANGED <<offered, outages>>
    /\ UNCHANGED <<last, messages, size, items, saves>>

(* the counter moves whether or not anything was extracted *)
Count(s) ==
    /\ In(s, "count")
    /\ last' = Cardinality(turn[s].list)
    /\ Go(s, "again")
    /\ UNCHANGED <<messages, size, offered, items, saves, outages>>

\* Mutant of Window: what is new since the counter, which is of this turn now.
WindowSinceCounter(list) == After(last, list)

(* the kernel's second extraction: the min_new newest messages *)
Window(list) == IF Cardinality(list) > min_new THEN Newest(min_new, list) ELSE {}

Again(s) ==
    /\ In(s, "again")
    /\ IF Window(turn[s].list) = {} THEN Go(s, "trim") /\ UNCHANGED <<offered, outages>>
       ELSE \/ /\ Go(s, "second")
               /\ offered' = [offered EXCEPT ![s] = @ \cup Window(turn[s].list)]
               /\ UNCHANGED outages
            \/ Go(s, "trim") /\ outages' = outages + 1 /\ UNCHANGED offered
    /\ UNCHANGED <<last, messages, size, items, saves>>

Extracting(s) == turn[s].at \in {"first", "second"}
Extracted(s) == IF In(s, "first") THEN "count" ELSE "trim"

(* Memorizer.save: SELECT, then UPDATE or INSERT *)
Find(s) ==
    /\ Extracting(s) /\ turn[s].fact = NoFact
    /\ \E f \in Facts : Become(s, [turn[s] EXCEPT !.fact = f, !.found = items[f]])
    /\ UNCHANGED <<last, messages, size, offered, items, saves, outages>>

Reinforced(s) == items[turn[s].fact] + 1

\* The unique index refuses a second row; the exception ends the first
\* extraction, or with the second everything that follows.
Save(s) ==
    /\ turn[s].fact # NoFact
    /\ LET f == turn[s].fact
           next == [turn[s] EXCEPT !.at = Extracted(s), !.fact = NoFact, !.found = 0] IN
       IF turn[s].found = 0 /\ items[f] > 0
       THEN /\ Become(s, IF In(s, "first") THEN next ELSE Resting)
            /\ UNCHANGED <<items, saves>>
       ELSE /\ items' = [items EXCEPT ![f] = Reinforced(s)]
            /\ saves' = [saves EXCEPT ![f] = @ + 1]
            /\ Become(s, next)
    /\ UNCHANGED <<last, messages, size, offered, outages>>

\* Nothing was worth a memory.
Nothing(s) ==
    /\ Extracting(s) /\ turn[s].fact = NoFact
    /\ Go(s, Extracted(s))
    /\ UNCHANGED <<last, messages, size, offered, items, saves, outages>>

(* get_trim_point: more than keep_count beyond the counter, so only when    *)
(* another session has moved the counter since this turn set it             *)
TrimPoint(n) == IF last > 0 /\ n > keep_count + last THEN n - keep_count ELSE 0

(* trim_messages takes its argument for the number to keep, and removes the *)
(* last of those as well                                                    *)
Kept(point, list) == Newest(point - 1, list)

Trim(s) ==
    /\ In(s, "trim")
    /\ LET point == TrimPoint(Cardinality(turn[s].list)) IN
       messages' = IF point = 0 \/ Cardinality(messages[s]) < point THEN messages
                   ELSE [messages EXCEPT ![s] = Kept(point, @)]
    /\ Become(s, Resting)
    /\ UNCHANGED <<last, size, offered, items, saves, outages>>

\* The process ends: the counter starts again at zero.
KernelStops ==
    /\ \E s \in Sessions : ~In(s, "idle")
    /\ last' = 0
    /\ turn' = [s \in Sessions |-> Resting]
    /\ outages' = outages + 1
    /\ UNCHANGED <<messages, size, offered, items, saves>>

ConsolidationStep ==
    \/ \E s \in Sessions :
           \/ Persisted(s) \/ List(s) \/ Decide(s) \/ Count(s) \/ Again(s)
           \/ Find(s) \/ Save(s) \/ Nothing(s) \/ Trim(s)
    \/ KernelStops

\* Although the counter moves on every turn, the kernel's second extraction
\* shows a session's messages to the model once there are more than min_new of
\* them: what is passed over is no longer than one turn and at the start of the
\* session, as long as no extraction failed, no process stopped and no list was
\* trimmed.  And turns that extract the same fact at once reinforce it once each:
\* no save that returned is lost, and no row is written twice.
NothingForgotten ==
    /\ \A s \in Sessions :
           In(s, "idle") /\ outages = 0 /\ size[s] > min_new /\ messages[s] = 1..size[s]
               => \A i \in messages[s] \ offered[s] : \E n \in TurnSizes : i <= n
    /\ items = saves

=============================================================================
