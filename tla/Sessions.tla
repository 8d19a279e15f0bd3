------------------------------- MODULE Sessions -------------------------------
(***************************************************************************)
(* Workspaces, sessions, messages and traces as the requests of a server   *)
(* change them.  All threads share one SQLite connection: a statement is   *)
(* visible to every thread at once (`db`), the first commit of any of them *)
(* makes every pending statement durable (`disk`), and the rollback of a   *)
(* turn whose evidence cannot be written undoes those of the others.  The  *)
(* server may stop between two statements.                                 *)
(***************************************************************************)
EXTENDS Naturals, FiniteSets

CONSTANTS
    Requests,     \* the requests the server serves in the order they come, one operation each: 1..n
    ConsoleId,    \* the id of the console's own session
    Opened,       \* a session that exists at first
    Fresh,        \* the ids uuid4() hands out
    Loads         \* what the requests of a behaviour may ask: sets of pairs of an operation and a session

Operations == {"talk", "chat", "visit", "open", "branch", "archive", "delete", "clean", "remove"}

Ids == {ConsoleId, Opened} \cup Fresh

ASSUME SessionsAssumption ==
    /\ Requests \subseteq Nat \ {0}
    /\ {ConsoleId, Opened} \cap Fresh = {} /\ ConsoleId # Opened
    /\ \A asks \in Loads : /\ asks \subseteq Operations \X Ids
                          /\ \A ask \in asks : ask[1] = "visit" => ask[2] = ConsoleId

VARIABLES
    db,           \* the tables as the connection sees them
    disk,         \* the tables as committed
    served,       \* what each request asks and how far it is
    load,         \* what is still to be asked
    taken,        \* the ids that uuid4() has handed out
    cancelled     \* history: a rollback has undone statements of another thread

sessionVars == <<db, disk, served, load, taken, cancelled>>

\* The turn that was served before the first of them.
Before == 0

Message(s, r, role) == [session |-> s, turn |-> r, role |-> role]

Tables(space, sessions, messages, traced, cited, summed) ==
    [space |-> space, sessions |-> sessions, messages |-> messages,
     traces |-> traced, spans |-> traced, cited |-> cited, summed |-> summed]

NoRows == [s \in Ids |-> "none"]

NoTables == Tables("none", NoRows, {}, {}, {}, {})

\* Of `Opened` a turn was served, whose context may have been recorded, and which may have a summary.
AfterTurn(status, cited, summed) ==
    Tables("active", [NoRows EXCEPT ![Opened] = status],
           {Message(Opened, Before, role) : role \in {"user", "assistant"}}, {<<Before, Opened>>}, cited, summed)

FirstTables ==
    {NoTables} \cup
    {AfterTurn(status, cited, summed) :
        status \in {"active", "archived"}, cited \in SUBSET {Before}, summed \in SUBSET {Opened}}

Unasked == [op |-> "none", session |-> Opened, branch |-> Opened, at |-> "none",
            left |-> {}, copying |-> {}, seen |-> {}, barred |-> FALSE]

SessionsInit ==
    /\ db \in FirstTables
    /\ disk = db
    /\ served = [r \in Requests |-> Unasked]
    /\ load \in Loads
    /\ taken = {}
    /\ cancelled = FALSE

-------------------------------------------------------------------------------
Goes(r, at) == served' = [served EXCEPT ![r].at = at]

Statement(r, tables, at) == db' = tables /\ Goes(r, at) /\ UNCHANGED <<disk, load, taken, cancelled>>

Commit(r, at) == disk' = db /\ Goes(r, at) /\ UNCHANGED <<db, load, taken, cancelled>>

Moves(r, at) == Goes(r, at) /\ UNCHANGED <<db, disk, load, taken, cancelled>>

Raises(r) == Moves(r, "failed")

Doing(r, ops, at) == served[r].op \in ops /\ served[r].at = at

\* Mutant of Found: archived sessions are found, too.
FoundAny(s) == db.sessions[s] # "none"

(* get_by_id: a row that is not marked as deleted. *)
Found(s) == db.sessions[s] = "active"

\* Foreign keys: rows with a message, a summary or an attachment; traces with spans or context.
Referred(s) == s \in db.summed \/ \E m \in db.messages : m.session = s

Evidenced(t) == t \in db.spans \/ t[1] \in db.cited

TracesOf(s) == {t \in db.traces : t[2] = s}

\* A new row of a session: its workspace's row must be there, and none with its id.
Insertable(s) == db.sessions[s] = "none" /\ db.space # "none"

Talks == {"talk", "chat"}

\* Rows of sessions are restored or removed: who found them archived may find others now.
Unbars(S, r, at) ==
    served' = [q \in Requests |->
        [served[q] EXCEPT !.barred = @ /\ ~(served[q].op \in Talks /\ served[q].session \in S),
                          !.at = IF q = r THEN at ELSE @]]

(* The request that comes next: nobody asks for an id that uuid4() has not handed out. *)
Begin(r, op, s) ==
    /\ served[r].op = "none" /\ <<op, s>> \in load
    /\ \A q \in Requests : q < r => served[q].op # "none"
    /\ op # "open" /\ s \in Fresh => s \in taken
    /\ op \in {"open", "branch"} => Fresh \ taken # {}
    /\ load' = load \ {<<op, s>>}
    /\ op \in {"open", "branch"} => LET id == CHOOSE i \in Fresh \ taken : TRUE IN
           /\ taken' = taken \cup {id}
           /\ served' = [served EXCEPT ![r] = [Unasked EXCEPT !.op = op, !.at = "space",
                             !.session = IF op = "open" THEN id ELSE s, !.branch = id,
                             !.seen = {m \in disk.messages : m.session = s},
                             !.barred = disk.space = "deleted" /\ db.space = "deleted"]]
    /\ op \notin {"open", "branch"} =>
           /\ served' = [served EXCEPT ![r] = [Unasked EXCEPT !.op = op, !.session = s,
                             !.at = IF op \in {"talk", "archive", "delete"} THEN "space" ELSE "look",
                             !.barred = disk.sessions[s] = "archived" /\ db.sessions[s] = "archived"]]
           /\ UNCHANGED taken
    /\ UNCHANGED <<db, disk, cancelled>>

(* ensure_workspace: a workspace marked as deleted is not found, and its row is in the way; *)
(* create_session ensures it once more.                                                     *)
Ensure(r) ==
    /\ served[r].at \in {"space", "again"}
    /\ LET next == IF served[r].at = "again" \/ served[r].op = "open" THEN "create" ELSE "look"
       IN  \/ db.space = "active" /\ Moves(r, next)
           \/ db.space = "none" /\ Statement(r, [db EXCEPT !.space = "active"], IF next = "look" THEN "lookSpace" ELSE "createSpace")
           \/ db.space = "deleted" /\ Raises(r)

CommitSpace(r) ==
    \/ served[r].at = "lookSpace" /\ Commit(r, "look")
    \/ served[r].at = "createSpace" /\ Commit(r, "create")

Look(r) ==
    /\ served[r].at = "look"
    /\ served[r].op # "remove" /\ served[r].op # "clean"
    /\ LET s == served[r].session
           found == CASE served[r].op \in Talks -> "trace" [] served[r].op = "branch" -> "create"
                      [] served[r].op = "visit" -> "done" [] OTHER -> served[r].op
           missing == CASE served[r].op = "talk" -> "again" [] served[r].op = "visit" -> "restore" [] OTHER -> "refused"
       IN  Moves(r, IF Found(s) THEN found ELSE missing)

Target(r) == IF served[r].op = "branch" THEN served[r].branch ELSE served[r].session

Create(r) ==
    /\ served[r].at = "create"
    /\ IF Insertable(Target(r))
       THEN Statement(r, [db EXCEPT !.sessions[Target(r)] = "active"], "createCommit")
       ELSE Raises(r)

(* The commit, and the assertion that the row is found. *)
CommitCreate(r) ==
    /\ served[r].at = "createCommit"
    /\ Commit(r, CASE ~Found(Target(r)) -> "failed" [] served[r].op = "talk" -> "trace"
                   [] served[r].op = "branch" -> "list" [] OTHER -> "done")

(* restore *)
Restore(r) ==
    /\ served[r].at = "restore"
    /\ LET s == served[r].session
       IN  /\ db' = [db EXCEPT !.sessions[s] = IF @ = "none" THEN @ ELSE "active"]
           /\ Unbars({s}, r, "restoreCommit")
    /\ UNCHANGED <<disk, load, taken, cancelled>>

CommitRestore(r) ==
    /\ served[r].at = "restoreCommit"
    /\ Commit(r, IF Found(served[r].session) THEN "done" ELSE "again")

-------------------------------------------------------------------------------
(* A turn. *)
BeginTrace(r) ==
    /\ served[r].at = "trace"
    /\ Statement(r, [db EXCEPT !.traces = @ \cup {<<r, served[r].session>>}], "traceCommit")

CommitTrace(r) == served[r].at = "traceCommit" /\ Commit(r, "span")

BeginSpan(r) ==
    /\ served[r].at = "span"
    /\ LET t == <<r, served[r].session>>
       IN  IF t \in db.traces THEN Statement(r, [db EXCEPT !.spans = @ \cup {t}], "spanCommit") ELSE Raises(r)

CommitSpan(r) == served[r].at = "spanCommit" /\ Commit(r, "user")

\* The roles a turn writes, and what follows each of them.
Then == [user |-> "context", assistant |-> "close"]

(* append_user_message, append_assistant_message: nothing looks whether the row is there after the commit. *)
AppendMessage(r) ==
    /\ served[r].at \in {"user", "assistant"}
    /\ LET s == served[r].session
       IN  IF db.sessions[s] = "none" THEN Moves(r, "abandon")
           ELSE Statement(r, [db EXCEPT !.messages = @ \cup {Message(s, r, served[r].at)}],
                          IF served[r].at = "user" THEN "userCommit" ELSE "assistantCommit")

CommitAppend(r) ==
    \/ served[r].at = "userCommit" /\ Commit(r, Then.user)
    \/ served[r].at = "assistantCommit" /\ Commit(r, Then.assistant)

(* persist_context_items: its failure is logged, and takes the pending statements of all with it. *)
Evidence(r) ==
    /\ served[r].at = "context"
    /\ IF <<r, served[r].session>> \in db.traces
       THEN Statement(r, [db EXCEPT !.cited = @ \cup {r}], "contextCommit")
       ELSE Moves(r, "rollback")

CommitEvidence(r) == served[r].at = "contextCommit" /\ Commit(r, "assistant")

Rollback(r) ==
    /\ served[r].at = "rollback"
    /\ db' = disk
    /\ cancelled' = (cancelled \/ db # disk)
    /\ Goes(r, "assistant")
    /\ UNCHANGED <<disk, load, taken>>

(* The turn's span and trace are ended, also when it raised. *)
Close(r) ==
    \/ served[r].at = "close" /\ Commit(r, "done")
    \/ served[r].at = "abandon" /\ Commit(r, "failed")

-------------------------------------------------------------------------------
(* What the console does with a session, and the API with a workspace. *)
Archive(r) ==
    /\ served[r].at = "archive"
    /\ Statement(r, [db EXCEPT !.sessions[served[r].session] = IF @ = "none" THEN @ ELSE "archived"], "commit")

\* One statement of hard_delete after the other; a foreign key stops it where it is.
Delete(r) ==
    LET s == served[r].session
    IN  \/ /\ served[r].at = "delete"
           /\ IF db.sessions[s] = "none" THEN Moves(r, "done")
              ELSE Statement(r, [db EXCEPT !.messages = {m \in @ : m.session # s}], "spans")
        \/ /\ served[r].at = "spans"
           /\ Statement(r, [db EXCEPT !.spans = @ \ TracesOf(s)], "traces")
        \/ /\ served[r].at = "traces"
           /\ IF \E t \in TracesOf(s) : Evidenced(t) THEN Raises(r)
              ELSE Statement(r, [db EXCEPT !.traces = @ \ TracesOf(s)], "row")
        \/ /\ served[r].at = "row"
           /\ IF db.sessions[s] # "none" /\ Referred(s) THEN Raises(r)
              ELSE /\ db' = [db EXCEPT !.sessions[s] = "none"] /\ Unbars({s}, r, "commit")
                   /\ UNCHANGED <<disk, load, taken, cancelled>>

List(r) ==
    /\ served[r].at = "list"
    /\ served' = [served EXCEPT ![r].at = "copy",
                                ![r].left = {m \in db.messages : m.session = served[r].session}]
    /\ UNCHANGED <<db, disk, load, taken, cancelled>>

Copy(m, b) == [m EXCEPT !.session = b]

CopyMessage(r) ==
    /\ served[r].at = "copy"
    /\ LET b == served[r].branch
       IN  \/ served[r].left = {} /\ Moves(r, "done")
           \/ \E m \in served[r].left :
                  /\ \A n \in served[r].left : n.turn = m.turn => m.role = "user" \/ n.role = "assistant"
                  /\ IF db.sessions[b] = "none" THEN Raises(r)
                     ELSE /\ db' = [db EXCEPT !.messages = @ \cup {Copy(m, b)}]
                          /\ served' = [served EXCEPT ![r].left = @ \ {m}, ![r].copying = {Copy(m, b)},
                                                      ![r].at = "copyCommit"]
                          /\ UNCHANGED <<disk, load, taken, cancelled>>

(* The commit, and the assertion that the copy is found. *)
CommitCopy(r) ==
    /\ served[r].at = "copyCommit"
    /\ Commit(r, IF served[r].copying \subseteq db.messages THEN "copy" ELSE "failed")

RemoveWorkspace(r) ==
    /\ Doing(r, {"remove"}, "look")
    /\ IF db.space = "active" THEN Statement(r, [db EXCEPT !.space = "deleted"], "commit") ELSE Moves(r, "refused")

CommitChange(r) == served[r].at = "commit" /\ Commit(r, IF served[r].op = "clean" THEN "old" ELSE "done")

(* cleanup: sessions archived before the cutoff, then traces ended before it. *)
Clean(r) ==
    \/ /\ Doing(r, {"clean"}, "look")
       /\ \E old \in SUBSET {s \in Ids : db.sessions[s] = "archived"} :
              IF \E s \in old : Referred(s) THEN Raises(r)
              ELSE /\ db' = [db EXCEPT !.sessions = [s \in Ids |-> IF s \in old THEN "none" ELSE @[s]]]
                   /\ Unbars(old, r, "commit") /\ UNCHANGED <<disk, load, taken, cancelled>>
    \/ /\ Doing(r, {"clean"}, "old")
       /\ LET old == {t \in db.traces : t[1] = Before}
          IN  IF \E t \in old : Evidenced(t) THEN Raises(r)
              ELSE Statement(r, [db EXCEPT !.traces = @ \ old], "oldCommit")
    \/ served[r].at = "oldCommit" /\ Commit(r, "done")

(* DriftMaintenance.cleanup_traces, of a command that waits for the server's transaction. *)
CleanupTraces ==
    /\ db = disk
    /\ \E t \in db.traces : t[1] = Before
    /\ LET old == {t \in db.traces : t[1] = Before}
       IN  db' = [db EXCEPT !.traces = @ \ old, !.spans = @ \ old, !.cited = @ \ {Before}]
    /\ disk' = db'
    /\ UNCHANGED <<served, load, taken, cancelled>>

(* The server stops: what was not committed is gone, and nobody waits for an answer any more. *)
StopServing ==
    /\ \E r \in Requests : served[r].at \notin {"none", "done", "failed", "refused"}
    /\ db' = disk
    /\ served' = [r \in Requests |->
           IF served[r].at \in {"none", "done", "failed", "refused"} THEN served[r]
           ELSE [served[r] EXCEPT !.at = "failed"]]
    /\ UNCHANGED <<disk, load, taken, cancelled>>

SessionsStep ==
    \/ \E r \in Requests :
        \/ \E ask \in load : Begin(r, ask[1], ask[2])
        \/ Ensure(r) \/ CommitSpace(r) \/ Look(r) \/ Create(r) \/ CommitCreate(r)
        \/ Restore(r) \/ CommitRestore(r)
        \/ BeginTrace(r) \/ CommitTrace(r) \/ BeginSpan(r) \/ CommitSpan(r)
        \/ AppendMessage(r) \/ CommitAppend(r) \/ Evidence(r) \/ CommitEvidence(r) \/ Rollback(r) \/ Close(r)
        \/ Archive(r) \/ Delete(r) \/ List(r) \/ CopyMessage(r) \/ CommitCopy(r)
        \/ RemoveWorkspace(r) \/ CommitChange(r) \/ Clean(r)
    \/ CleanupTraces
    \/ StopServing

-------------------------------------------------------------------------------
\* The deletion of a session has been asked, by the console or by a cleanup.
DeletionAsked(s) == \E r \in Requests : served[r].op = "delete" /\ served[r].session = s

MessagesOf(r) == {Message(served[r].session, r, role) : role \in {"user", "assistant"}}

\* A turn that was answered has both messages on disk, unless the session's deletion was asked.
AnswersKept ==
    \A r \in Requests : Doing(r, Talks, "done") /\ ~DeletionAsked(served[r].session) => MessagesOf(r) \subseteq disk.messages

\* A branch is made of it, which may still be copying.
Branched(s) == \E r \in Requests : served[r].op = "branch" /\ served[r].branch = s

\* A deletion that was told done has taken every message of the turns before all requests,
\* unless the session is a branch, into which messages may still be copied.
DeletionsHold ==
    \A r \in Requests : Doing(r, {"delete"}, "done") /\ ~Branched(served[r].session) =>
        ~ \E m \in disk.messages : m.session = served[r].session /\ m.turn = Before

\* A branch told done has every message the session had on disk when it was asked.
BranchesWhole ==
    \A r \in Requests :
        Doing(r, {"branch"}, "done") /\ ~DeletionAsked(served[r].session) /\ ~DeletionAsked(served[r].branch) =>
            \A m \in served[r].seen : Copy(m, served[r].branch) \in disk.messages

\* Who came after an archive, or after the workspace's deletion, has written nothing there,
\* as long as the row it found archived was neither restored nor removed.
ClosedStaysClosed ==
    \A r \in Requests : served[r].barred =>
        /\ served[r].op \in Talks => ~ \E m \in db.messages : m.turn = r
        /\ served[r].op \in {"open", "branch"} => db.sessions[Target(r)] = "none"

(* What was told done stays done, whoever commits or stops in between: an answered   *)
(* turn's messages are kept, a deleted session's are gone, a branch is the session   *)
(* it was made of, and what is archived or deleted takes nothing more.  Exceptions   *)
(* are the rollback by a turn whose session is deleted under it, and the deletion of *)
(* a branch, whose copying goes on once a turn has created the row again.            *)
SessionsKept == BranchesWhole /\ ClosedStaysClosed /\ (~cancelled => AnswersKept /\ DeletionsHold)
===============================================================================
