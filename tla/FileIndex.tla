----------------------------- MODULE FileIndex -----------------------------
(***************************************************************************)
(* workspace/ingestion.py and workspace/registry.py: the index of the text *)
(* files under a root.  A row tells the hash of a file and whether it is   *)
(* active; its chunks are the text an ingestion read.  The server's event  *)
(* loop runs one request of the Console at a time; the user edits files    *)
(* whenever he likes, and the server may stop anywhere.  A hash is the     *)
(* text it is of.  The keyword rows, which nothing in src queries, are     *)
(* left out.                                                               *)
(***************************************************************************)
EXTENDS Naturals, FiniteSets

CONSTANTS
    Paths,          \* files of text under the root
    Texts,          \* what they may contain
    Oversized,      \* texts above max_file_size
    Unparsable,     \* texts that are no JSON, in files that should be
    Absent,
    Embedding,      \* whether an embedding provider is configured: a set of BOOLEAN
    Indexings       \* bounds: records of requests, edits and stops

ASSUME FileIndexAssumption ==
    /\ Oversized \cup Unparsable \subseteq Texts /\ Absent \notin Texts
    /\ Absent \notin [hash : Texts, status : {"active", "deleted", "error"}]
    /\ Embedding \subseteq BOOLEAN
    /\ Indexings \subseteq [requests : Nat, edits : Nat, stops : Nat]

VARIABLES
    disk,           \* the text of each file, or Absent
    embeds,         \* the provider is configured
    rows,           \* workspace_files by path: Absent or [hash, status]
    chunks,         \* file_chunks of the row: [text, vectors]; text is Absent for none
    work,           \* the request the server is executing
    left,           \* requests, edits and stops still to come
    doubt           \* ghost: paths edited, or the server stopped, while being indexed

indexVars == <<disk, embeds, rows, chunks, work, left, doubt>>

NoChunks == [text |-> Absent, vectors |-> FALSE]
NoWork ==
    [at |-> "idle", listed |-> [p \in Paths |-> Absent], todo |-> {}, seen |-> {},
     path |-> Absent, hash |-> Absent, text |-> Absent, reindex |-> FALSE, calm |-> TRUE]

IndexInit ==
    /\ disk \in [Paths -> Texts \cup {Absent}]
    /\ embeds \in Embedding
    /\ rows = [p \in Paths |-> Absent]
    /\ chunks = [p \in Paths |-> NoChunks]
    /\ work = NoWork
    /\ left \in Indexings
    /\ doubt = {}

Working(s) == work.at = s /\ UNCHANGED <<disk, embeds, left>>
Serve(state) == work' = state
Requested == left.requests > 0 /\ left' = [left EXCEPT !.requests = @ - 1]
Set(p, hash, status) == rows' = [rows EXCEPT ![p] = [hash |-> hash, status |-> status]]
Marked(p, status) == rows' = [rows EXCEPT ![p].status = status]
Tables == <<rows, chunks>>

-----------------------------------------------------------------------------
\* scan_root

BeginScan ==
    /\ work.at = "idle" /\ Requested
    /\ Serve([NoWork EXCEPT !.at = "walk", !.listed = rows, !.todo = Paths])
    /\ UNCHANGED <<disk, embeds, Tables, doubt>>

Eligible(text) == text \in Texts \ Oversized

\* A file that is missing, too large or ignored is not seen.
Visit ==
    /\ Working("walk") /\ UNCHANGED <<Tables, doubt>>
    /\ \E p \in work.todo :
           Serve(IF Eligible(disk[p])
                 THEN [work EXCEPT !.at = "hash", !.path = p, !.todo = @ \ {p}, !.seen = @ \cup {p}]
                 ELSE [work EXCEPT !.todo = @ \ {p}])

Known(row, hash) == row # Absent /\ row.hash = hash

\* The row has the new hash, and is active, before the text is read.  A file that has
\* vanished since ends the scan.
Hash ==
    /\ Working("hash")
    /\ LET p == work.path
           hash == disk[p]
       IN  \/ hash = Absent /\ Serve(NoWork) /\ UNCHANGED <<Tables, doubt>>
           \/ /\ hash # Absent /\ Known(work.listed[p], hash)
              /\ Serve([work EXCEPT !.at = "walk"]) /\ UNCHANGED <<Tables, doubt>>
           \/ /\ hash # Absent /\ ~Known(work.listed[p], hash)
              /\ Set(p, hash, "active")
              /\ doubt' = doubt \ {p} /\ UNCHANGED chunks
              /\ Serve([work EXCEPT !.at = "read", !.hash = hash])

\* Mutant of Unseen: every file that had a row.
UnseenAny == {p \in Paths : work.listed[p] # Absent}

Unseen == {p \in Paths : work.listed[p] # Absent} \ work.seen

EndWalk ==
    /\ Working("walk") /\ work.todo = {} /\ UNCHANGED <<Tables, doubt>>
    /\ Serve([work EXCEPT !.at = "unseen", !.todo = Unseen])

MarkDeleted ==
    /\ Working("unseen") /\ UNCHANGED <<chunks, doubt>>
    /\ \E p \in work.todo : Marked(p, "deleted") /\ Serve([work EXCEPT !.todo = @ \ {p}])

EndScan ==
    /\ Working("unseen") /\ work.todo = {} /\ Serve([work EXCEPT !.at = "scanned"])
    /\ UNCHANGED <<Tables, doubt>>

Reply ==
    /\ work.at \in {"scanned", "reindexed"} /\ Serve(NoWork)
    /\ UNCHANGED <<disk, embeds, left, Tables, doubt>>

-----------------------------------------------------------------------------
\* _ingest_file

AfterIngest(reindex) == IF reindex THEN "stamp" ELSE "walk"

Extract ==
    /\ Working("read") /\ UNCHANGED <<Tables, doubt>>
    /\ LET text == disk[work.path] IN
           Serve(IF text = Absent \/ text \in Unparsable THEN [work EXCEPT !.at = "error"]
                 ELSE [work EXCEPT !.at = "replace", !.text = text])

\* The chunks go before their vectors, which a foreign key forbids; without vectors all
\* is written in one transaction.  A failing provider leaves chunks without.
Replace ==
    /\ Working("replace") /\ UNCHANGED <<rows, doubt>>
    /\ IF chunks[work.path].vectors
       THEN Serve([work EXCEPT !.at = "error"]) /\ UNCHANGED chunks
       ELSE /\ \E vectors \in {FALSE, embeds} :
                   chunks' = [chunks EXCEPT ![work.path] = [text |-> work.text, vectors |-> vectors]]
            /\ Serve([work EXCEPT !.at = AfterIngest(work.reindex)])

\* mark_file_error: the scan goes on, a reindexing ends.
MarkError ==
    /\ Working("error") /\ Marked(work.path, "error") /\ UNCHANGED <<chunks, doubt>>
    /\ Serve([work EXCEPT !.at = IF work.reindex THEN "reindexed" ELSE "walk"])

-----------------------------------------------------------------------------
\* The Console's other requests

(* POST /{fid}/reindex: of a row whose file exists *)
BeginReindex ==
    /\ work.at = "idle" /\ Requested /\ UNCHANGED <<disk, embeds, Tables>>
    /\ \E p \in Paths :
           /\ rows[p] # Absent /\ disk[p] # Absent
           /\ Serve([NoWork EXCEPT !.at = "read", !.path = p, !.reindex = TRUE])
           /\ doubt' = doubt \ {p}

\* The hash is taken after the text was read, of a file that may be another by then.
Stamp ==
    /\ Working("stamp") /\ UNCHANGED <<chunks, doubt>>
    /\ IF disk[work.path] = Absent
       THEN Serve([work EXCEPT !.at = "error"]) /\ UNCHANGED rows
       ELSE Set(work.path, disk[work.path], "active") /\ Serve([work EXCEPT !.at = "reindexed"])

(* POST /{fid}/remove: vectors, chunks and row in one transaction *)
RemoveFile ==
    /\ work.at = "idle" /\ Requested /\ UNCHANGED <<disk, embeds, work>>
    /\ \E p \in Paths :
           /\ rows[p] # Absent
           /\ rows' = [rows EXCEPT ![p] = Absent]
           /\ chunks' = [chunks EXCEPT ![p] = NoChunks]
           /\ doubt' = doubt \ {p}

-----------------------------------------------------------------------------
\* The user and the end of the server

InHand == IF work.at \in {"hash", "read", "replace", "stamp", "error"} THEN {work.path} ELSE {}

EditFile ==
    /\ left.edits > 0 /\ left' = [left EXCEPT !.edits = @ - 1]
    /\ \E p \in Paths, text \in Texts \cup {Absent} :
           /\ text # disk[p] /\ disk' = [disk EXCEPT ![p] = text]
           /\ doubt' = doubt \cup ({p} \cap InHand)
    /\ work' = [work EXCEPT !.calm = FALSE]
    /\ UNCHANGED <<embeds, Tables>>

\* What another thread has committed of a transaction that is then broken off stays: all
\* threads of the server share one connection.
StopIndexing ==
    /\ left.stops > 0 /\ left' = [left EXCEPT !.stops = @ - 1]
    /\ work.at # "idle" /\ Serve(NoWork)
    /\ doubt' = doubt \cup InHand
    /\ \/ UNCHANGED chunks
       \/ work.at = "replace" /\ ~chunks[work.path].vectors
          /\ chunks' = [chunks EXCEPT ![work.path] = NoChunks]
    /\ UNCHANGED <<disk, embeds, rows>>

IndexStep ==
    \/ BeginScan \/ Visit \/ Hash \/ EndWalk \/ MarkDeleted \/ EndScan \/ Reply
    \/ Extract \/ Replace \/ MarkError \/ BeginReindex \/ Stamp \/ RemoveFile
    \/ EditFile \/ StopIndexing

-----------------------------------------------------------------------------
\* A file that is active in the index has the chunks of the text whose hash its row
\* tells, although the two are written at different times: unless it was edited, or the
\* server stopped, while it was being indexed.
HashIsOfChunks ==
    \A p \in Paths \ (doubt \cup InHand) :
        rows[p] # Absent /\ rows[p].status = "active" => chunks[p].text = rows[p].hash

\* After a scan during which no file was edited, each file that can be indexed has a row
\* with the hash of what it contains, and each row of another is marked deleted.  A file
\* the scan did index is active, or in error because it cannot be parsed or had vectors;
\* one that had this hash before is as it was, deleted or in error though it may be.
ScanSettles ==
    work.at = "scanned" /\ work.calm => \A p \in Paths :
        IF Eligible(disk[p])
        THEN /\ rows[p] # Absent /\ rows[p].hash = disk[p]
             /\ \/ Known(work.listed[p], disk[p]) /\ rows[p] = work.listed[p]
                \/ rows[p].status = "active"
                \/ rows[p].status = "error" /\ (disk[p] \in Unparsable \/ chunks[p].vectors)
        ELSE rows[p] # Absent => rows[p].status = "deleted"

\* The index tells what was read of each file, and after a scan what the files are.
IndexTellsTruth == HashIsOfChunks /\ ScanSettles
=============================================================================
