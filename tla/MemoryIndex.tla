---------------------------- MODULE MemoryIndex ----------------------------
(***************************************************************************)
(* memory/application.py, the memories of storage/repositories.py and      *)
(* embedding/service.py: the table memories, its keyword index memories_fts*)
(* and its vectors memory_embeddings_v2, written in separate commits by    *)
(* the API, the command line, the chat prompt and the Console.  A step is  *)
(* one commit, one read, or the answer of the embedding provider, which    *)
(* arrives while others write.  A text is a sequence of fragments: an edit *)
(* replaces it, a merge appends to it.  One provider and one model.        *)
(***************************************************************************)
EXTENDS FiniteSets, Naturals, Sequences

CONSTANTS
    Editors,        \* who calls the service
    Indexed,        \* those whose service was built with an embedding index
    Chats,          \* the chat prompt's /memory commands, which use no service
    Fragments,      \* fragments a user writes
    MemoryBound,    \* bound: rows of the table, old versions included
    LengthBound     \* bound: fragments a merged text may have

ASSUME IndexAssumption ==
    Indexed \subseteq Editors /\ Chats \subseteq Editors \ Indexed

VARIABLES
    memories,   \* rows: state, archived, status (stale: an old version), text
    fts,        \* memories_fts: row -> text, or Blank
    vectors,    \* memory_embeddings_v2: row -> [status, text], or Blank
    op,         \* what each editor is in the middle of
    unsure,     \* ghost: rows whose vector may be of an old text
    unlisted,   \* ghost: rows whose keyword row may be of an old text
    changes,    \* bound: calls so far
    incidents   \* bound: crashes so far

memoriesVars == <<memories, fts, vectors, op, unsure, unlisted, changes, incidents>>

Memories == 1..MemoryBound      \* in the order of created_at

Blank == <<>>

Idle == [at |-> "idle", todo |-> Blank, seen |-> Blank, calm |-> FALSE]

MemoriesInit ==
    /\ memories = [m \in Memories |->
           [state |-> "absent", archived |-> FALSE, status |-> "active", text |-> Blank]]
    /\ fts = [m \in Memories |-> Blank]
    /\ vectors = [m \in Memories |-> Blank]
    /\ op = [e \in Editors |-> Idle]
    /\ unsure = {} /\ unlisted = {}
    /\ changes = 0 /\ incidents = 0

At(e, s) == op[e].at = s
Live(m) == memories[m].state = "live"       \* deleted_at IS NULL
One(m, text) == [q \in {m} |-> text]
The(e) == CHOOSE m \in DOMAIN op[e].todo : TRUE

\* A step of e; a rebuild of another editor is no longer alone.
Move(e, state) ==
    op' = [x \in Editors |-> IF x = e THEN state ELSE [op[x] EXCEPT !.calm = FALSE]]

Step(e, s, todo) == Move(e, [op[e] EXCEPT !.at = s, !.todo = todo])
Done(e) == Move(e, Idle)

Free == {m \in Memories : memories[m].state = "absent"}
NextId == {m \in Free : \A q \in Free : m <= q}     \* the one id the next row takes

\* Others that hold a text of m they have read and not yet stored.
Readers(e, m) == {x \in Editors \ {e} : m \in DOMAIN op[x].todo \cup DOMAIN op[x].seen}

Unsure(e, m) == IF e \in Indexed /\ Readers(e, m) = {} THEN unsure \ {m} ELSE unsure \cup {m}

\* A change that writes the keyword row too; a creation may still write the old one.
Listed(m) == IF \E x \in Editors : At(x, "keyword") /\ The(x) = m
             THEN unlisted \cup {m} ELSE unlisted \ {m}

\* The old keyword row is replaced in the commit of the new text.
WriteKeyword(m, text) == fts' = [fts EXCEPT ![m] = text]

Called(e) == At(e, "idle") /\ changes' = changes + 1 /\ UNCHANGED incidents
Goes == UNCHANGED <<changes, incidents>>

(* create_memory: the row and its keyword row are two commits *)
Create(e) ==
    /\ Called(e) /\ e \notin Chats
    /\ \E m \in NextId, t \in Fragments :
           /\ memories' = [memories EXCEPT ![m] =
                  [@ EXCEPT !.state = "live", !.text = <<t>>]]
           /\ Step(e, "keyword", One(m, <<t>>))
    /\ UNCHANGED <<fts, vectors, unsure, unlisted>>

\* The row may be gone (get_by_id's assertion fails) or an edit may have
\* written the keyword row (the rowid is taken): create raises.
InsertKeyword(e) ==
    /\ At(e, "keyword")
    /\ LET m == The(e) IN
       /\ IF memories[m].state # "gone" /\ fts[m] = Blank
          THEN fts' = [fts EXCEPT ![m] = op[e].todo[m]] ELSE UNCHANGED fts
       /\ IF Live(m) /\ fts[m] = Blank /\ e \in Indexed
          THEN Step(e, "look", op[e].todo) ELSE Done(e)
    /\ Goes /\ UNCHANGED <<memories, vectors, unsure, unlisted>>

\* The row of the old text, status 'stale', and the new text.
Rewritten(m, n, text) ==
    [memories EXCEPT ![n] = [memories[m] EXCEPT !.status = "stale", !.archived = FALSE],
                     ![m].text = text]

(* edit_memory and correct_memory with edit_text and correct_text *)
EditText(e) ==
    /\ Called(e) /\ e \notin Chats
    /\ \E m \in Memories, n \in NextId, t \in Fragments :
           /\ Live(m) /\ memories[m].text # <<t>>
           /\ memories' = Rewritten(m, n, <<t>>)
           /\ WriteKeyword(m, <<t>>)
           /\ unsure' = Unsure(e, m)
           /\ unlisted' = Listed(m)
           /\ IF e \in Indexed THEN Step(e, "stale", One(m, <<t>>)) ELSE Done(e)
    /\ UNCHANGED vectors

(* /memory edit of the chat prompt, update_text *)
ChatEdit(e) ==
    /\ Called(e) /\ e \in Chats
    /\ \E m \in Memories, n \in NextId, t \in Fragments :
           /\ Live(m) /\ memories[m].text # <<t>>
           /\ memories' = Rewritten(m, n, <<t>>)
           /\ unsure' = Unsure(e, m)
           /\ unlisted' = unlisted \cup {m}
    /\ Done(e)
    /\ UNCHANGED <<fts, vectors>>

(* merge_memories *)
Merge(e) ==
    /\ Called(e) /\ e \in Indexed
    /\ \E m, s \in Memories :
           LET text == memories[m].text \o memories[s].text IN
           /\ m # s /\ Live(m) /\ Live(s) /\ Len(text) <= LengthBound
           /\ memories' = [memories EXCEPT ![m].text = text, ![s].archived = TRUE]
           /\ fts' = [fts EXCEPT ![m] = text, ![s] = Blank]
           /\ unsure' = Unsure(e, m)
           /\ unlisted' = Listed(m)
           /\ Step(e, "reread", One(m, text))
    /\ UNCHANGED vectors

\* get_by_id after the merge: the text to index is read again.
Reread(e) ==
    /\ At(e, "reread")
    /\ LET m == The(e) IN
       IF Live(m) THEN Step(e, "stale", One(m, memories[m].text)) ELSE Done(e)
    /\ Goes /\ UNCHANGED <<memories, fts, vectors, unsure, unlisted>>

(* mark_stale *)
MarkStale(e) ==
    /\ At(e, "stale")
    /\ vectors' = [m \in Memories |->
           IF m = The(e) /\ vectors[m] # Blank
           THEN [vectors[m] EXCEPT !.status = "stale"] ELSE vectors[m]]
    /\ Step(e, "look", op[e].todo)
    /\ Goes /\ UNCHANGED <<memories, fts, unsure, unlisted>>

Ready(m, text) == vectors[m] = [status |-> "ready", text |-> text]

(* index_memory: nothing to do when the vector is ready and of this text *)
Look(e) ==
    /\ At(e, "look")
    /\ IF Ready(The(e), op[e].todo[The(e)]) THEN Done(e) ELSE Step(e, "embed", op[e].todo)
    /\ Goes /\ UNCHANGED <<memories, fts, vectors, unsure, unlisted>>

\* _upsert_embedding: what is stored is not compared with the row again; a row
\* that is gone refuses it (FOREIGN KEY).
Upsert(m, status, text) ==
    vectors' = IF memories[m].state = "gone" THEN vectors
               ELSE [vectors EXCEPT ![m] = [status |-> status, text |-> text]]

Embedded(e) ==
    /\ At(e, "embed")
    /\ \E status \in {"ready", "failed"} : Upsert(The(e), status, op[e].todo[The(e)])
    /\ Done(e)
    /\ Goes /\ UNCHANGED <<memories, fts, unsure, unlisted>>

(* archive_memory *)
Archive(e) ==
    /\ Called(e) /\ e \notin Chats
    /\ \E m \in Memories : /\ Live(m) /\ ~memories[m].archived
                           /\ memories' = [memories EXCEPT ![m].archived = TRUE]
    /\ Done(e)
    /\ UNCHANGED <<fts, vectors, unsure, unlisted>>

(* restore_memory: a keyword row that a merge removed is not put back *)
Restore(e) ==
    /\ Called(e) /\ e \notin Chats
    /\ \E m \in Memories :
           /\ Live(m) /\ memories[m].archived
           /\ memories' = [memories EXCEPT ![m].archived = FALSE]
           /\ IF e \in Indexed THEN Step(e, "restored", One(m, memories[m].text)) ELSE Done(e)
    /\ UNCHANGED <<fts, vectors, unsure, unlisted>>

Restored(e) ==
    /\ At(e, "restored")
    /\ LET m == The(e) IN
       IF Live(m) /\ (vectors[m] = Blank \/ vectors[m].status # "ready")
       THEN Step(e, "look", One(m, memories[m].text)) ELSE Done(e)
    /\ Goes /\ UNCHANGED <<memories, fts, vectors, unsure, unlisted>>

\* Both kinds of deletion remove the keyword row and the vector in their commit.
Drop(m, state) ==
    /\ memories' = [memories EXCEPT ![m].state = state]
    /\ fts' = [fts EXCEPT ![m] = Blank]
    /\ vectors' = [vectors EXCEPT ![m] = Blank]

(* soft_delete_memory of the Console, delete_memory of the others *)
DeleteMemory(e) ==
    /\ Called(e)
    /\ \E m \in Memories :
           \/ /\ e \notin Indexed \cup Chats /\ Live(m)
              /\ Drop(m, "deleted") /\ Done(e)
           \/ /\ e \in Indexed \cup Chats /\ memories[m].state \in {"live", "deleted"}
              /\ Drop(m, "gone")
              /\ IF e \in Indexed THEN Step(e, "forget", One(m, Blank)) ELSE Done(e)
    /\ UNCHANGED <<unsure, unlisted>>

(* delete_or_deactivate *)
Forget(e) ==
    /\ At(e, "forget")
    /\ vectors' = [vectors EXCEPT ![The(e)] = Blank]
    /\ Done(e)
    /\ Goes /\ UNCHANGED <<memories, fts, unsure, unlisted>>

(* consolidate_legacy_memories: of the rows with one text the oldest stays, *)
(* archived or an old version as it may be                                  *)
Duplicates == {m \in Memories : Live(m) /\ \E q \in 1..(m - 1) :
                   Live(q) /\ memories[q].text = memories[m].text}

Deduplicate(e) ==
    /\ Called(e) /\ e \in Indexed /\ Duplicates # {}
    /\ memories' = [m \in Memories |->
           IF m \in Duplicates THEN [memories[m] EXCEPT !.state = "gone"] ELSE memories[m]]
    /\ fts' = [m \in Memories |-> IF m \in Duplicates THEN Blank ELSE fts[m]]
    /\ vectors' = [m \in Memories |-> IF m \in Duplicates THEN Blank ELSE vectors[m]]
    /\ Done(e)
    /\ UNCHANGED <<unsure, unlisted>>

(* rebuild_workspace: the rows, then each row's vector, then one batch *)
Rebuild(e) ==
    /\ Called(e) /\ e \in Indexed
    /\ LET rows == [m \in {q \in Memories : Live(q)} |-> memories[m].text] IN
       Move(e, [at |-> "rows", todo |-> rows, seen |-> rows,
                calm |-> \A x \in Editors : x = e \/ At(x, "idle")])
    /\ UNCHANGED <<memories, fts, vectors, unsure, unlisted>>

\* Mutant of Skipped: any vector that is ready will do.
AnyReady(m, text) == vectors[m] # Blank /\ vectors[m].status = "ready"

Skipped(m, text) == Ready(m, text)

Select(e, force) ==
    /\ At(e, "rows")
    /\ LET all == op[e].todo
           todo == {m \in DOMAIN all : force \/ ~Skipped(m, all[m])} IN
       Step(e, "batch", [m \in todo |-> all[m]])
    /\ Goes /\ UNCHANGED <<memories, fts, vectors, unsure, unlisted>>

(* retry_failed *)
Retry(e) ==
    /\ Called(e) /\ e \in Indexed
    /\ LET failed == {m \in Memories : Live(m) /\ vectors[m] # Blank /\ vectors[m].status = "failed"} IN
       /\ failed # {}
       /\ Step(e, "batch", [m \in failed |-> memories[m].text])
    /\ UNCHANGED <<memories, fts, vectors, unsure, unlisted>>

IsRebuild(e) == op[e].seen # Blank

\* embed_batch answers, raises, or answers with too few vectors: then a rebuild
\* records failures and a retry writes nothing.
EmbedBatch(e) ==
    /\ At(e, "batch")
    /\ \/ Step(e, "store", op[e].todo)
       \/ Step(e, "fail", op[e].todo)
       \/ ~IsRebuild(e) /\ Done(e)
    /\ Goes /\ UNCHANGED <<memories, fts, vectors, unsure, unlisted>>

\* One row of the batch, in the order it was selected; a row that is gone
\* raises and ends the whole call.
Store(e, s, status) ==
    /\ At(e, s)
    /\ LET todo == op[e].todo IN
       \E m \in DOMAIN todo :
           /\ \A q \in DOMAIN todo : m <= q
           /\ Upsert(m, status, todo[m])
           /\ IF memories[m].state = "gone" THEN Done(e)
              ELSE Step(e, s, [q \in DOMAIN todo \ {m} |-> todo[q]])
    /\ Goes /\ UNCHANGED <<memories, fts, unsure, unlisted>>

\* The end of a batch.  A rebuild nobody wrote beside settles its rows.
BatchEnds(e) ==
    /\ op[e].at \in {"store", "fail"} /\ DOMAIN op[e].todo = {}
    /\ unsure' = IF op[e].calm THEN {} ELSE unsure
    /\ Done(e)
    /\ Goes /\ UNCHANGED <<memories, fts, vectors, unlisted>>

(* purge_stale *)
Purge(e) ==
    /\ Called(e) /\ e \in Indexed
    /\ vectors' = [m \in Memories |->
           IF Live(m) /\ vectors[m] # Blank /\ vectors[m].status = "stale" THEN Blank ELSE vectors[m]]
    /\ vectors' # vectors
    /\ Done(e)
    /\ UNCHANGED <<memories, fts, unsure, unlisted>>

\* The process ends; between an edit's commit and mark_stale the vector keeps
\* the name of a ready one.
EditorStops(e) ==
    /\ ~At(e, "idle")
    /\ unsure' = IF op[e].at \in {"stale", "reread"} THEN unsure \cup {The(e)} ELSE unsure
    /\ Done(e)
    /\ incidents' = incidents + 1
    /\ UNCHANGED <<memories, fts, vectors, unlisted, changes>>

EditorStep(e) ==
    \/ Create(e) \/ InsertKeyword(e) \/ EditText(e) \/ ChatEdit(e)
    \/ Merge(e) \/ Reread(e) \/ MarkStale(e) \/ Look(e) \/ Embedded(e)
    \/ Archive(e) \/ Restore(e) \/ Restored(e) \/ DeleteMemory(e) \/ Forget(e)
    \/ Deduplicate(e) \/ Rebuild(e) \/ (\E force \in BOOLEAN : Select(e, force))
    \/ Retry(e) \/ EmbedBatch(e)
    \/ Store(e, "store", "ready") \/ Store(e, "fail", "failed") \/ BatchEnds(e)
    \/ Purge(e) \/ EditorStops(e)

\* A row of the keyword index and a ready vector are of the text their memory has
\* now.  The row may be another text only after an edit of the chat prompt, which
\* does not touch the index (cli/chat.py:388), or an edit between the two commits
\* of the creation; the vector only before its edit has marked it stale, or when
\* an answer of the provider to another call was stored over it, an editor without
\* an index or the chat prompt changed the text, or the process stopped before the
\* mark.  A rebuild that nobody disturbs ends every such doubt.
IndexIsCurrent ==
    \A m \in Memories : Live(m) =>
        /\ fts[m] # Blank /\ m \notin unlisted => fts[m] = memories[m].text
        /\ vectors[m] # Blank /\ vectors[m].status = "ready" =>
               \/ vectors[m].text = memories[m].text
               \/ m \in unsure
               \/ \E e \in Editors : op[e].at \in {"stale", "reread"} /\ m = The(e)
=============================================================================
