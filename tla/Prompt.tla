------------------------------ MODULE Prompt ------------------------------
(***************************************************************************)
(* The words a turn puts before the chat model: context/engine.py,         *)
(* context/prompt_builder.py, context/compression.py and the kernel's      *)
(* _build_context, with the messages and the summaries of storage/         *)
(* session_store.py.  A kernel keeps what it recalled and the sources of a *)
(* turn in attributes that all turns share; turns of it may overlap, and   *)
(* any may fail at any step (the state machine that makes most overlapping *)
(* turns fail is TurnKernel's).  A text is its number and its tokens.      *)
(***************************************************************************)
EXTENDS Integers, Sequences, FiniteSets, SequencesExt

CONSTANTS
    Slots,          \* turns that may run at a time
    Sessions,
    Sizes,          \* tokens of a user's message
    AnswerSize,     \* tokens of an answer
    SummarySize,    \* tokens of a summary
    Recalls,        \* what a recall may return: the tokens of each memory
    Budgets,        \* dynamic_token_budget
    Window,         \* messages of the history a prompt is built from: 6
    MinNew,         \* CompressionPolicy.min_new_messages: 8
    MinTokens,      \* tokens of min_new_characters: 1000
    SummaryLength,  \* messages a summary has room for
    MaxRounds,      \* rounds of tools in a turn
    Starts          \* messages sessions start with, and bounds: turns, of them at once

ASSUME PromptAssumption ==
    /\ {Window, MinNew, SummaryLength} \subseteq Nat \ {0}
    /\ Budgets \cup Sizes \cup {MaxRounds} \subseteq Nat
    /\ Starts \subseteq [messages : Nat, turns : Nat, atOnce : Nat]

VARIABLES
    budget,         \* ContextEngine._budget
    messages,       \* table messages: the rows of each session
    numbered,       \* messages ever written to a session
    summary,        \* the newest row of session_summaries
    memories,       \* the kernel's _current_memories, and the turn they are of
    sources,        \* the turn whose items the kernel's _sources are
    turn,           \* what each turn is at and has read
    turns,          \* turns begun
    start,          \* the element of Starts
    cut,            \* ghost: messages deleted before a summary recounted them
    raced           \* ghost: sessions two turns summarised at the same time

promptVars == <<budget, messages, numbered, summary, memories, sources, turn, turns, start,
               cut, raced>>

NoSummary == [through |-> 0, text |-> <<>>]
NoTurn ==
    [at |-> "idle", n |-> 0, session |-> "none", question |-> 0, size |-> 0, round |-> 0,
     history |-> <<>>, recalled |-> <<>>, memories |-> [of |-> 0, sizes |-> <<>>],
     items |-> <<>>, prompt |-> <<>>, alone |-> TRUE, draft |-> NoSummary]

PromptInit ==
    /\ budget \in Budgets
    /\ start \in Starts
    /\ messages = [s \in Sessions |->
           [i \in 1..start.messages |-> [n |-> i, size |-> AnswerSize]]]
    /\ numbered = [s \in Sessions |-> start.messages]
    /\ summary = [s \in Sessions |-> NoSummary]
    /\ memories = [of |-> 0, sizes |-> <<>>]
    /\ sources = 0
    /\ turn = [t \in Slots |-> NoTurn]
    /\ turns = 0
    /\ cut = [s \in Sessions |-> {}]
    /\ raced = {}

-----------------------------------------------------------------------------
\* ContextEngine: what of the items there is room for

\* _DEFAULT_BUDGET_SHARES, in hundredths, of the sources a chat has.
Share == [system |-> 15, recent_messages |-> 35, retrieved_memory |-> 10]

BudgetOf(category) ==
    LET part == (budget * Share[category]) \div 100 IN IF part > 64 THEN part ELSE 64

Item(kind, category, rank, of, size) ==
    [kind |-> kind, category |-> category, rank |-> rank, of |-> of, size |-> size]

\* build: in the order of the ranks within each category.
ItemsOf(question, size, row, history, recalled) ==
    <<Item("question", "system", 0, question, size)>>
    \o (IF row = NoSummary THEN <<>>
        ELSE <<Item("summary", "recent_messages", 0, row.through, SummarySize)>>)
    \o [i \in DOMAIN history |->
           Item("message", "recent_messages", i, history[i].n, history[i].size)]
    \o [i \in DOMAIN recalled.sizes |->
           Item("memory", "retrieved_memory", i, recalled.of, recalled.sizes[i])]

Tokens(items) == FoldLeft(LAMBDA sum, item : sum + item.size, 0, items)
In(category, items) == SelectSeq(items, LAMBDA item : item.category = category)

Fits(kept, item) == Tokens(In(item.category, kept)) + item.size <= BudgetOf(item.category)

\* _apply_budget_shares: an item without room is passed over, the next may fit.
Shared(items) ==
    FoldLeft(LAMBDA kept, item : IF Fits(kept, item) THEN Append(kept, item) ELSE kept, <<>>, items)

\* The order _trim drops in: the highest rank first, the smallest of a rank first.
DroppedBefore(a, b) == a.rank > b.rank \/ (a.rank = b.rank /\ a.size < b.size)

\* _trim: drops until the total is in the budget; it subtracts the tokens of an
\* item that was passed over as well, and so may stop too early.
Trimmed(items, kept) ==
    LET order == SortSeq(SelectSeq(items, LAMBDA item : item.kind # "question"), DroppedBefore)
        enough == {d \in 0..Len(order) : Tokens(kept) - Tokens(SubSeq(order, 1, d)) <= budget}
        dropped == IF enough = {} THEN Range(order)
                   ELSE Range(SubSeq(order, 1, CHOOSE d \in enough : \A e \in enough : d <= e))
    IN  SelectSeq(kept, LAMBDA item : item \notin dropped)

\* PromptBuilder: a message ends the prompt, whether there was room for it or not.
WithQuestion(kept, message) == SelectSeq(<<message>>, LAMBDA item : item.of # 0)

PromptOf(items) ==
    LET kept == Trimmed(items, Shared(items)) IN
        SelectSeq(kept, LAMBDA item : item.kind # "question") \o WithQuestion(kept, items[1])

-----------------------------------------------------------------------------
\* A turn of the kernel

Turning(t, s) == turn[t].at = s
Turned(t, state) == turn' = [turn EXCEPT ![t] = state]
Others(t) == {o \in Slots \ {t} : ~Turning(o, "idle")}
Kept == <<budget, messages, numbered, summary, cut, raced, turns, start>>

Written(s, size) ==
    /\ numbered' = [numbered EXCEPT ![s] = @ + 1]
    /\ messages' = [messages EXCEPT ![s] = Append(@, [n |-> numbered[s] + 1, size |-> size])]

(* _prepare_turn_setup and _persist_user_message *)
BeginTurn(t) ==
    /\ Turning(t, "idle") /\ turns < start.turns /\ turns' = turns + 1
    /\ Cardinality(Others(t)) < start.atOnce
    /\ \E s \in Sessions, size \in Sizes :
           /\ Written(s, size)
           /\ turn' = [o \in Slots |->
                  IF o = t THEN [NoTurn EXCEPT !.at = "list", !.n = turns + 1, !.session = s,
                                     !.question = numbered[s] + 1, !.size = size,
                                     !.alone = (Others(t) = {})]
                  ELSE [turn[o] EXCEPT !.alone = @ /\ Turning(o, "idle")]]
    /\ UNCHANGED <<budget, start, summary, memories, sources, cut, raced>>

\* messages_raw[-6:]
Recent(rows) == SubSeq(rows, IF Len(rows) < Window THEN 1 ELSE Len(rows) - Window + 1, Len(rows))

ListMessages(t) ==
    /\ Turning(t, "list")
    /\ Turned(t, [turn[t] EXCEPT !.at = "recall", !.history = Recent(messages[turn[t].session])])
    /\ UNCHANGED <<Kept, memories, sources>>

\* A recall that fails has found nothing; a round of tools asks for nothing.
Recall(t) ==
    /\ Turning(t, "recall")
    /\ \E found \in IF turn[t].round = 0 THEN Recalls \cup {<<>>} ELSE {<<>>} :
           Turned(t, [turn[t] EXCEPT !.at = "hold", !.recalled = found])
    /\ UNCHANGED <<Kept, memories, sources>>

Held(state) == [of |-> state.n, sizes |-> state.recalled]

(* self._current_memories = memories, which the next statement reads *)
HoldMemories(t) ==
    /\ Turning(t, "hold") /\ memories' = Held(turn[t])
    /\ Turned(t, [turn[t] EXCEPT !.at = "take"]) /\ UNCHANGED <<Kept, sources>>

TakeMemories(t) ==
    /\ Turning(t, "take")
    /\ Turned(t, [turn[t] EXCEPT !.at = "build", !.memories = memories])
    /\ UNCHANGED <<Kept, memories, sources>>

(* ContextEngine.build and PromptBuilder.build; the text of a round of tools is empty *)
BuildPrompt(t) ==
    /\ Turning(t, "build") /\ UNCHANGED <<Kept, memories>>
    /\ LET state == turn[t]
           first == state.round = 0
           items == ItemsOf(IF first THEN state.question ELSE 0, IF first THEN state.size ELSE 0,
                            summary[state.session], state.history, state.memories)
       IN  /\ Turned(t, [state EXCEPT !.at = "asked", !.items = items, !.prompt = PromptOf(items)])
           /\ sources' = IF first THEN state.n ELSE sources

(* the model wants a tool: the context is built again, without the message *)
UseTool(t) ==
    /\ Turning(t, "asked") /\ turn[t].round < MaxRounds
    /\ Turned(t, [turn[t] EXCEPT !.at = "list", !.round = @ + 1, !.items = <<>>, !.prompt = <<>>])
    /\ UNCHANGED <<Kept, memories, sources>>

(* _persist: the answer is a message of the session *)
Answer(t) ==
    /\ Turning(t, "asked") /\ Written(turn[t].session, AnswerSize)
    /\ Turned(t, [NoTurn EXCEPT !.at = "compress", !.n = turn[t].n, !.session = turn[t].session,
                                !.alone = turn[t].alone])
    /\ UNCHANGED <<budget, start, summary, memories, sources, turns, cut, raced>>

-----------------------------------------------------------------------------
\* SessionCompressionService

\* Mutant of After: the last message again.
AfterOrAt(rows, through) == SelectSeq(rows, LAMBDA row : row.n >= through)

\* _messages_after: all of them when the last one recounted is gone.
After(rows, through) ==
    IF \E row \in Range(rows) : row.n = through
    THEN SelectSeq(rows, LAMBDA row : row.n > through) ELSE rows

ShouldCompress(rows) == Len(rows) >= MinNew \/ Tokens(rows) >= MinTokens

\* summarize: what does not fit is cut off at the front.
Recounted(text, rows) ==
    LET all == text \o [i \in DOMAIN rows |-> rows[i].n]
    IN  SubSeq(all, IF Len(all) > SummaryLength THEN Len(all) - SummaryLength + 1 ELSE 1, Len(all))

ReadForSummary(t) ==
    /\ Turning(t, "compress")
    /\ LET s == turn[t].session
           old == summary[s]
           rows == After(messages[s], old.through)
       IN  IF rows = <<>> \/ ~ShouldCompress(rows)
           THEN Turned(t, [turn[t] EXCEPT !.at = "trim"]) /\ UNCHANGED raced
           ELSE /\ Turned(t, [turn[t] EXCEPT !.at = "store",
                       !.draft = [through |-> Last(rows).n, text |-> Recounted(old.text, rows)]])
                /\ raced' = IF \E o \in Slots : Turning(o, "store") /\ turn[o].session = s
                            THEN raced \cup {s} ELSE raced
    /\ UNCHANGED <<budget, start, messages, numbered, summary, cut, turns, memories, sources>>

StoreSummary(t) ==
    /\ Turning(t, "store")
    /\ summary' = [summary EXCEPT ![turn[t].session] = turn[t].draft]
    /\ Turned(t, [turn[t] EXCEPT !.at = "trim", !.draft = NoSummary])
    /\ UNCHANGED <<budget, start, messages, numbered, cut, raced, turns, memories, sources>>

\* trim_messages: the rows up to the keep_count-th newest are deleted, with it.
Trim(t) ==
    /\ Turning(t, "trim") /\ Turned(t, [turn[t] EXCEPT !.at = "report"])
    /\ LET s == turn[t].session
           rows == messages[s]
       IN  \/ UNCHANGED <<messages, cut>>
           \/ \E keep_count \in 1..Len(rows) :
                  LET gone == Len(rows) - keep_count + 1 IN
                      /\ messages' = [messages EXCEPT ![s] = SubSeq(rows, gone + 1, Len(rows))]
                      /\ cut' = [cut EXCEPT ![s] = @ \cup
                             {rows[i].n : i \in {j \in 1..gone : rows[j].n > summary[s].through}}]
    /\ UNCHANGED <<budget, start, numbered, summary, raced, turns, memories, sources>>

(* the result is returned, with self._sources *)
Report(t) == Turning(t, "report") /\ Turned(t, NoTurn) /\ UNCHANGED <<Kept, memories, sources>>

\* A guard refuses, a model or the database fails, the client is gone.
FailTurn(t) ==
    /\ turn[t].at \notin {"idle", "report"} /\ Turned(t, NoTurn)
    /\ UNCHANGED <<Kept, memories, sources>>

PromptStep ==
    \E t \in Slots :
        \/ BeginTurn(t) \/ ListMessages(t) \/ Recall(t) \/ HoldMemories(t) \/ TakeMemories(t)
        \/ BuildPrompt(t) \/ UseTool(t) \/ Answer(t) \/ ReadForSummary(t) \/ StoreSummary(t)
        \/ Trim(t) \/ Report(t) \/ FailTurn(t)

PromptSpec == PromptInit /\ [][PromptStep]_promptVars

-----------------------------------------------------------------------------
Refused(items) == \E category \in DOMAIN Share :
                      Tokens(In(category, items)) > BudgetOf(category)

\* What a prompt is made of is within the share of each kind, and within the
\* whole budget: always when the budget is at least 640, as the shares and
\* their floor of 64 then add up to less; below it unless a share was exceeded.
\* The message of the turn is in it all the same: the first prompt ends in it,
\* and a prompt after a tool, which is built without it, has it as the newest
\* of the history, with the summary before, unless they are more than the
\* budget has room for, or another turn ran meanwhile.
PromptFits ==
    \A t \in Slots : Turning(t, "asked") =>
        LET state == turn[t]
            kept == SelectSeq(state.prompt, LAMBDA item : item.kind # "question")
            shown == {item.of : item \in {i \in Range(state.prompt) : i.kind = "message"}}
        IN  /\ \A category \in DOMAIN Share : Tokens(In(category, kept)) <= BudgetOf(category)
            /\ budget >= 640 \/ ~Refused(state.items) => Tokens(kept) <= budget
            /\ state.round = 0 => Last(state.prompt).kind = "question"
                                  /\ Last(state.prompt).of = state.question
            /\ state.round > 0 /\ state.alone /\ ~Refused(state.items)
                               /\ Tokens(state.items) <= budget =>
                   /\ state.question \in shown
                   /\ summary[state.session] # NoSummary =>
                          \E item \in Range(state.prompt) : item.kind = "summary"

\* The memories in the prompts of a turn are those recalled for it, and the
\* sources it reports are its own, when no turn of the kernel overlapped it.
AloneMeansOwn ==
    \A t \in Slots : turn[t].alone =>
        /\ Turning(t, "asked") => turn[t].memories.of = turn[t].n
        /\ Turning(t, "report") => sources = turn[t].n

\* A prompt says what its turn has to ask: within the budget, with its question,
\* and, of a turn that no other overlapped, from its own memories.
PromptIsOwn == PromptFits /\ AloneMeansOwn

\* A summary recounts the messages of its session in their order, each once,
\* from the first that is not cut off up to the one it says it reaches, over any
\* number of updates, though each reads only what the one before left.  Missing
\* is only what was deleted before an update saw it.
SummaryFaithful ==
    \A s \in Sessions : summary[s] # NoSummary =>
        LET text == summary[s].text
            table == {row.n : row \in Range(messages[s])}
        IN  /\ \A i \in 1..Len(text) - 1 : text[i] < text[i + 1]
            /\ Last(text) = summary[s].through
            /\ \A n \in 1..summary[s].through :
                   \/ n \in Range(text)
                   \/ Len(text) = SummaryLength /\ n < text[1]
                   \/ n \in cut[s]
                   \/ s \in raced /\ n \notin table

\* What the model is told is what the conversation says: the prompt has the
\* turn's own question, memories and sources, and the summary that stands in it
\* for older messages leaves out none that was there to read.
PromptTellsTruth == PromptIsOwn /\ SummaryFaithful
=============================================================================
