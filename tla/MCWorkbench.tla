----------------------------- MODULE MCWorkbench ------------------------------
(***************************************************************************)
(* What the threads of a server and the clerks at its desks do beside the  *)
(* turns: make the reports of the builtin skills; open, branch, archive    *)
(* and delete sessions and their messages; take the decisions that         *)
(* capabilities and skills wait for; build and drop the kernel.  The parts *)
(* share no rows; a behaviour is about one of them, and the others stay as *)
(* they start.                                                             *)
(***************************************************************************)
EXTENDS Reports, Sessions, ApprovalDesk, RuntimeHandles, TLC

VARIABLE about      \* the part a behaviour is about

vars == <<reportVars, sessionVars, deskVars, handleVars, about>>

Init ==
    /\ about \in {"reports", "sessions", "approvals", "handles"}
    /\ ReportsInit /\ (about # "reports" => rows = {} /\ agenda = {})
    /\ SessionsInit /\ (about # "sessions" <=> load = {}) /\ (load = {} => db = NoTables)
    /\ DeskInit /\ (about # "approvals" <=> shift = {})
    /\ HandlesInit

Next ==
    /\ UNCHANGED about
    /\ \/ about = "reports" /\ ReportsStep /\ UNCHANGED <<sessionVars, deskVars, handleVars>>
       \/ about = "sessions" /\ SessionsStep /\ UNCHANGED <<reportVars, deskVars, handleVars>>
       \/ about = "approvals" /\ DeskStep /\ UNCHANGED <<reportVars, sessionVars, handleVars>>
       \/ about = "handles" /\ HandlesStep /\ UNCHANGED <<reportVars, sessionVars, deskVars>>

Spec == Init /\ [][Next]_vars

-----------------------------------------------------------------------------
\* Instances of Workbench for TLC.

CONSTANTS r1, r2, console, chat, u1, u2, t1, t2, t3, s1

\* One report alone, with what others change, and two beside each other.
MCAgendas ==
    {{}, {"consolidation"}, {"digest", "extraction"}, {"status"}, {"review"}, {"brief"}}

Stored(table, n, tag) == [in |-> table, n |-> n, tag |-> tag]

Remembered(n, text, words, days, state, confidence, type) ==
    Stored("memories", n, [text |-> text, words |-> words, days |-> days, status |-> state,
                           confidence |-> confidence, type |-> type])

Noticed(source, title, read) ==
    [source |-> source, about |-> title, read |-> read, by |-> "other", count |-> 0]

MCArrival == Noticed("gate", "x", FALSE)

Logged(table, n, state) == Stored(table, n, [status |-> state, slow |-> n % 2 = 0])

\* Copies and conflicts of memories; a source that fills the inbox; what a review looks for.
MCStocks ==
    {{},
     {Remembered(1, "t", {"a", "b", "c"}, 40, "active", 20, "fact"),
      Remembered(2, "t", {"a", "b", "c"}, 3, "stale", 90, "task"),
      Remembered(3, "u", {"a", "b", "c", "not"}, 0, "active", 90, "task"),
      Remembered(4, "t", {"a", "b", "c"}, 50, "stale", 90, "project"),
      Stored("inbox", 5, Noticed("mcp", "x", FALSE))},
     {Stored("inbox", n, Noticed("mcp", IF n = 3 THEN "y" ELSE "x", FALSE)) : n \in 1..3} \cup
     {Stored("inbox", 4, Noticed("rss", "x", TRUE)), Stored("sessions", 5, [console |-> FALSE]),
      Remembered(6, "u", {"a", "b", "c"}, 0, "active", 90, "task")},
     {Logged("traces", 1, "completed"), Logged("traces", 2, "denied"), Logged("calls", 3, "deny"),
      Logged("calls", 4, "allow"), Logged("models", 6, "completed"), Logged("files", 7, "error"),
      Logged("skills", 8, "failed")},
     {Logged("traces", 1, "failed"), Logged("outbox", 2, "dead_letter"),
      Logged("approvals", 3, "pending"), Logged("outbox", 4, "sent")}}

Asking(ops, s) == {<<op, s>> : op \in ops}

\* Requests that meet on a session, on the workspace, or, first of all, one that is
\* rolled back by another while a third writes.
MCLoads ==
    {{}, Asking({"delete", "chat"}, Opened) \cup Asking({"talk"}, ConsoleId),
     Asking({"branch", "chat", "delete"}, Opened), Asking({"talk", "archive", "visit"}, ConsoleId),
     Asking({"open", "talk", "remove"}, ConsoleId), Asking({"archive", "branch", "clean"}, Opened),
     Asking({"talk", "archive", "clean"}, Opened), Asking({"talk", "delete"}, ConsoleId),
     Asking({"branch"}, Opened) \cup Asking({"talk", "delete"}, u1)}

\* Clerks that meet; the first request is of a skill, the second of another workspace.
CONSTANTS desk1, desk2, page, route, resumer, terminal, remote, a1, a2

MCHome == a1 :> "default" @@ a2 :> "other"

MCChannel == desk1 :> "cli" @@ desk2 :> "cli" @@ page :> "console" @@ route :> "api" @@
             resumer :> "resume" @@ terminal :> "chat" @@ remote :> "connect"

MCShifts == {{}, {desk1, desk2}, {desk1, terminal}, {resumer, terminal}, {page, route}, {page, remote}}

MCSymmetry == Permutations(ReportRuns)
=============================================================================
