------------------------------- MODULE Recall -------------------------------
(***************************************************************************)
(* retrieval/service.py: a recall of the chat kernel, which reads the      *)
(* stores of MemoryIndex and Consolidation in several SELECTs and waits    *)
(* for the embedding provider between two of them, while editors write.    *)
(* A query is a sequence of fragments: the message and what enriches it.   *)
(* Ranks, thresholds and token budgets are a choice among the candidates.  *)
(***************************************************************************)
EXTENDS MemoryIndex, Consolidation

VARIABLES
    pinned,     \* memories.pinned_at, of the rows whose type is eligible
    recall,     \* what the recall is at and has read
    recalls     \* bound: recalls so far

recallVars == <<pinned, recall, recalls>>

NoRecall ==
    [at |-> "idle", query |-> Blank, semantic |-> FALSE, sparse |-> Blank, dense |-> Blank,
     todo |-> {}, facts |-> {}, dynamic |-> Blank, resident |-> Blank,
     window |-> {}, calm |-> TRUE]

RecallInit == pinned = {} /\ recall = NoRecall /\ recalls = 0

\* The rows a SELECT may return now, as one sees them.
Rows == {[id |-> m, text |-> memories[m].text, archived |-> memories[m].archived] :
            m \in {q \in Memories : Live(q)}}

\* Goes with every step of an editor: what the recall might have seen.
Watch ==
    recall' = IF recall.at \in {"idle", "answered"} THEN NoRecall
              ELSE [recall EXCEPT !.window = @ \cup Rows', !.calm = FALSE]

(* repo.pin and repo.unpin of the command line *)
Pin ==
    /\ changes' = changes + 1
    /\ \E m \in Memories : Live(m) /\ pinned' = (pinned \ {m}) \cup ({m} \ pinned)
    /\ UNCHANGED <<memories, fts, vectors, op, unsure, unlisted, incidents, recalls,
                   consolidationVars>>
    /\ Watch

RecallReads(s) == recall.at = s /\ UNCHANGED <<memoriesVars, consolidationVars, pinned>>

Parts(text) == {text[i] : i \in DOMAIN text}
Said == {Blank} \cup {<<t>> : t \in Fragments}

\* RetrievalGate: the recent messages that are not the message again enrich the
\* query; a message without a word is not searched for, whatever came before it.
Enriched(message, recent) ==
    IF message = Blank \/ Parts(recent) \subseteq Parts(message) THEN message
    ELSE message \o recent

Ask ==
    /\ RecallReads("idle") /\ recalls' = recalls + 1
    /\ \E message, recent \in Said, semantic \in BOOLEAN :
           recall' = [NoRecall EXCEPT !.query = Enriched(message, recent),
               !.semantic = semantic, !.window = Rows,
               !.at = IF message = Blank THEN "answered" ELSE "words"]

\* The entries of f, and those of g for what f has none of.
Over(f, g) == [m \in DOMAIN f \cup DOMAIN g |-> IF m \in DOMAIN f THEN f[m] ELSE g[m]]

Texted(found) == [m \in found |-> memories[m].text]
Shown(m) == Live(m) /\ ~memories[m].archived

\* Mutant of ByWords: the text is the one of the index.
ByWordsAsIndexed(query) ==
    [m \in {q \in Memories : Shown(q) /\ fts[q] # Blank /\ Parts(query) \subseteq Parts(fts[q])}
        |-> fts[m]]

\* _fts_search: every word of the query is in the row of the index.
ByWords(query) ==
    Texted({m \in Memories : Shown(m) /\ fts[m] # Blank /\ Parts(query) \subseteq Parts(fts[m])})

\* A sign FTS5 does not know is an error, which is nothing found.
SearchWords ==
    /\ RecallReads("words") /\ UNCHANGED recalls
    /\ \E found \in {ByWords(recall.query), Blank} :
           recall' = [recall EXCEPT !.sparse = found,
                                    !.at = IF found = Blank THEN "text" ELSE "embed"]

\* The query as it stands is in the text; the parts of a merge do not run on.
InText(m, query) == Len(query) = 1 /\ query[1] \in Parts(memories[m].text)

\* _like_search, when the index has nothing.
ByText(query) == Texted({m \in Memories : Shown(m) /\ InText(m, query)})

SearchText ==
    /\ RecallReads("text") /\ UNCHANGED recalls
    /\ recall' = [recall EXCEPT !.at = "embed", !.sparse = ByText(recall.query)]

\* DenseMemoryRetriever.search: no provider, one that fails, one that answers.
EmbedQuery ==
    /\ RecallReads("embed") /\ UNCHANGED recalls
    /\ \E next \in IF recall.semantic THEN {"vectors", "items"} ELSE {"items"} :
           recall' = [recall EXCEPT !.at = next]

LoadVectors ==
    /\ RecallReads("vectors") /\ UNCHANGED recalls
    /\ recall' = [recall EXCEPT !.at = "rows",
           !.todo = {m \in Memories : Shown(m) /\ vectors[m] # Blank
                                      /\ vectors[m].status = "ready"}]

\* Each row is read again, whether archived or not.
ReadRow ==
    /\ RecallReads("rows") /\ UNCHANGED recalls
    /\ \E m \in recall.todo :
           recall' = [recall EXCEPT !.todo = @ \ {m},
               !.dense = IF Live(m) THEN Over(@, One(m, memories[m].text)) ELSE @]

RowsEnd ==
    /\ RecallReads("rows") /\ recall.todo = {} /\ UNCHANGED recalls
    /\ recall' = [recall EXCEPT !.at = "items"]

\* CandidateFusion.fuse: one entry for each id, with the fields of the sparse one.
Fused == Over(recall.sparse, recall.dense)

\* The search of memory_items names a column its SELECT has renamed: with a
\* semantic provider and any row it raises, and there are no items.
ItemsFound == IF recall.semantic THEN {{}} ELSE SUBSET {f \in Facts : items[f] > 0}

\* Nothing found ends the call.  The loop over the ranked candidates leaves some.
Choose ==
    /\ RecallReads("items") /\ UNCHANGED recalls
    /\ \E facts \in ItemsFound :
           IF Fused = Blank /\ facts = {} THEN recall' = [recall EXCEPT !.at = "answered"]
           ELSE \E kept \in SUBSET DOMAIN Fused :
                    recall' = [recall EXCEPT !.at = "resident", !.facts = facts,
                                   !.dynamic = [m \in kept |-> Fused[m]]]

\* ResidentMemorySelector.select
Residents == {m \in pinned : Shown(m)}

\* Those that were not found by the search; then the items are appended.
AddResidents ==
    /\ RecallReads("resident") /\ UNCHANGED recalls
    /\ recall' = [recall EXCEPT !.at = "answered",
           !.resident = Texted(Residents \ DOMAIN recall.dynamic)]

RecallStep ==
    \/ Ask \/ SearchWords \/ SearchText \/ EmbedQuery \/ LoadVectors
    \/ ReadRow \/ RowsEnd \/ Choose \/ AddResidents

\* The stores and a recall of them, in one process of the agent.
Editing == /\ \E e \in Editors : EditorStep(e)
           /\ Watch /\ UNCHANGED <<consolidationVars, pinned, recalls>>
Consolidating == ConsolidationStep /\ UNCHANGED <<memoriesVars, recallVars>>

MemoryInit == MemoriesInit /\ ConsolidationInit /\ RecallInit
MemoryNext == Editing \/ Consolidating \/ Pin \/ RecallStep

MemorySpec == MemoryInit /\ [][MemoryNext]_<<memoriesVars, consolidationVars, recallVars>>

-----------------------------------------------------------------------------
Recalled == Over(recall.dynamic, recall.resident)
Answered == recall.at = "answered" /\ recall.query # Blank

\* What a recall tells the model stood in the table, with that text, at some
\* instant of the call, and was not archived at another: not a text that was
\* edited before, not a memory deleted before, although index, vectors and rows
\* are read at different times and the index may hold an old text.  While nobody
\* writes, a search for a text some memory has finds a memory, although keyword
\* rows may be lost in a crash, hold an old text or be removed by a merge, the
\* query may be an error of FTS5 and the provider may be away.
RecallIsFaithful ==
    Answered =>
        /\ \A m \in DOMAIN Recalled :
               /\ \E row \in recall.window : row.id = m /\ row.text = Recalled[m]
               /\ \E row \in recall.window : row.id = m /\ ~row.archived
        /\ recall.calm /\ (\E m \in Memories : Shown(m) /\ InText(m, recall.query))
               => Fused # Blank
=============================================================================
