----------------------------- MODULE ApprovalDesk -----------------------------
(***************************************************************************)
(* How a decision that a capability or a skill waits for is taken: several *)
(* clerks of several processes (the command line, a page of the Console, a *)
(* route of the API, a terminal that chats, a terminal connected to a      *)
(* server) look at the requests, decide, write the decision to the audit   *)
(* log with a commit of its own, tell the user, and resume what waited.    *)
(* Anyone may be stopped between two commits.  The statement and the       *)
(* commit of one decision are one step here; what threads that share a     *)
(* connection do to each other's statements is in Sessions.                *)
(***************************************************************************)
EXTENDS FiniteSets

CONSTANTS
    Asked,        \* the requests for approval that can be made
    HomeOf,       \* the workspace of each
    OfSkill,      \* those of an approval step of a skill; the others are of a turn
    Clerks,       \* who decides and resumes
    ChannelOf,    \* from where
    Shifts,       \* bound: which clerks may meet
    Default       \* the workspace the Console and the API write into the audit log

ASSUME DeskAssumption ==
    /\ OfSkill \subseteq Asked /\ Shifts \subseteq SUBSET Clerks
    /\ ChannelOf \in [Clerks -> {"cli", "console", "api", "resume", "chat", "connect"}]

VARIABLES
    approvals,    \* approval_records: the status of each request
    decidedBy,    \* who decided it: its decided_by, the clerk instead of the name
    audit,        \* audit_logs, of what is done with approvals
    runs,         \* what the skill run that asked came to
    desk,         \* what each clerk is doing
    shift,        \* the clerks of this behaviour
    told,         \* the decisions users were told to have taken (history)
    lost          \* requests whose decider stopped before the audit log (history)

deskVars == <<approvals, decidedBy, audit, runs, desk, shift, told, lost>>

-----------------------------------------------------------------------------
(* Words *)

Approving == {"allow", "approve", "approved"}
Rejecting == {"deny", "reject", "rejected"}

\* Only the chat writes a word that the service would not take.
Words == Approving \cup Rejecting \cup {"denied"}

Undecided == {"absent", "pending"}

Decided(id) == approvals[id] \notin Undecided

Side(word) == IF word \in Approving THEN "allow" ELSE "deny"

\* What a clerk may ask for: two buttons, any word in a request, yes or no.
Wishes(channel) ==
    CASE channel \in {"cli", "console"} -> {"approved", "rejected"}
      [] channel \in {"api", "resume"}  -> Words
      [] OTHER                          -> {"approved", "denied"}

AtRest == [pc |-> "idle"]
Busy(pc, id, word) == [pc |-> pc, id |-> id, word |-> word]

DeskInit ==
    /\ approvals = [id \in Asked |-> "absent"]
    /\ decidedBy = [id \in Asked |-> {}]
    /\ audit = {}
    /\ runs = [id \in Asked |-> "none"]
    /\ desk = [c \in Clerks |-> AtRest]
    /\ shift \in Shifts
    /\ told = {} /\ lost = {}

-----------------------------------------------------------------------------
(* Requests *)

Submit(id) ==
    /\ approvals[id] = "absent"
    /\ approvals' = [approvals EXCEPT ![id] = "pending"]

\* A skill pauses at an approval step.
SkillAsks(id) ==
    /\ id \in OfSkill /\ Submit(id)
    /\ runs' = [runs EXCEPT ![id] = "waiting"]
    /\ UNCHANGED <<decidedBy, audit, desk, told, lost>>

\* A turn of the chat stops for an approval, and its user is asked for it.
ChatAsks(c, id) ==
    /\ ChannelOf[c] = "chat" /\ id \notin OfSkill /\ Submit(id)
    /\ \E word \in Wishes("chat") : desk' = [desk EXCEPT ![c] = Busy("answer", id, word)]
    /\ UNCHANGED <<decidedBy, audit, runs, told, lost>>

\* A turn at a server stops for an approval: the connected terminal shows the
\* output alone and reads the next line.
PostTurn(c, id) ==
    /\ ChannelOf[c] = "connect" /\ id \notin OfSkill /\ Submit(id)
    /\ UNCHANGED <<decidedBy, audit, runs, desk, told, lost>>

-----------------------------------------------------------------------------
(* What the clerks see *)

Filtered(space, status) ==
    {id \in Asked : /\ approvals[id] # "absent"
                    /\ space = "*" \/ HomeOf[id] = space
                    /\ status = "all" \/ approvals[id] = status}

PendingOf(space) == Filtered(space, "pending")

\* The command line lists every workspace, the Console its own; a route of the
\* API is called with any id.
Listed(channel) ==
    CASE channel = "cli"     -> Filtered("*", "pending")
      [] channel = "console" -> Filtered(Default, "all")
      [] OTHER               -> UNION {PendingOf(HomeOf[id]) : id \in Asked}

\* A page or a list is old when its user decides.
Open(c) ==
    /\ desk[c].pc = "idle" /\ ChannelOf[c] \in {"cli", "console", "api", "resume"}
    /\ \E id \in Listed(ChannelOf[c]), word \in Wishes(ChannelOf[c]) :
          desk' = [desk EXCEPT ![c] = Busy(IF ChannelOf[c] = "cli" THEN "check" ELSE "answer", id, word)]
    /\ UNCHANGED <<approvals, decidedBy, audit, runs, told, lost>>

-----------------------------------------------------------------------------
(* Decisions *)

\* UPDATE without the status in its condition.
Present(id) == approvals[id] # "absent"

\* UPDATE ... WHERE id = ? AND status = 'pending'.
Pending(id) == approvals[id] = "pending"

Resolve(c, id, word) ==
    IF Pending(id)
    THEN /\ approvals' = [approvals EXCEPT ![id] = word]
         /\ decidedBy' = [decidedBy EXCEPT ![id] = {c}]
    ELSE UNCHANGED <<approvals, decidedBy>>

Turn(c, to) == desk' = [desk EXCEPT ![c] = to]

Tell(c) == told' = told \cup {[by |-> c, id |-> desk[c].id, word |-> desk[c].word]}

\* cogito approval approve and reject read the row first, and say what they found.
CliReads(c) ==
    /\ desk[c].pc = "check"
    /\ Turn(c, IF Decided(desk[c].id) THEN AtRest ELSE [desk[c] EXCEPT !.pc = "answer"])
    /\ UNCHANGED <<approvals, decidedBy, audit, runs, told, lost>>

\* The command line tells before it logs, the Console and the API after.
CliDecides(c) ==
    /\ desk[c].pc = "answer" /\ ChannelOf[c] = "cli"
    /\ Resolve(c, desk[c].id, desk[c].word)
    /\ IF Pending(desk[c].id)
       THEN Tell(c) /\ Turn(c, [desk[c] EXCEPT !.pc = "log"])
       ELSE Turn(c, AtRest) /\ UNCHANGED told
    /\ UNCHANGED <<audit, runs, lost>>

\* ApprovalApplicationService.resolve: a word of neither side is an error, a
\* request that is decided is shown as it is.
ServiceDecides(c) ==
    /\ desk[c].pc = "answer" /\ ChannelOf[c] \in {"console", "api", "resume"}
    /\ IF desk[c].word \in Approving \cup Rejecting
       THEN /\ Resolve(c, desk[c].id, desk[c].word)
            /\ Turn(c, IF Pending(desk[c].id) THEN [desk[c] EXCEPT !.pc = "log"] ELSE AtRest)
       ELSE Turn(c, AtRest) /\ UNCHANGED <<approvals, decidedBy>>
    /\ UNCHANGED <<audit, runs, told, lost>>

\* The workspace of the row: the request's own from the command line, and what the
\* page or the caller stands for otherwise.
Booked(c, id) ==
    IF ChannelOf[c] = "cli" THEN {HomeOf[id]}
    ELSE IF ChannelOf[c] = "resume" THEN {HomeOf[id], Default} ELSE {Default}

Row(c, id, action, decision, space) ==
    [by |-> c, id |-> id, action |-> action, decision |-> decision, in |-> space]

Log(c) ==
    /\ desk[c].pc = "log"
    /\ \E space \in Booked(c, desk[c].id) :
          audit' = audit \cup {Row(c, desk[c].id, "decide", Side(desk[c].word), space)}
    /\ IF ChannelOf[c] = "cli" THEN UNCHANGED told /\ Turn(c, AtRest)
       ELSE IF ChannelOf[c] = "resume"
       THEN UNCHANGED told /\ Turn(c, [desk[c] EXCEPT !.pc = "resume"])
       ELSE Tell(c) /\ Turn(c, AtRest)
    /\ UNCHANGED <<approvals, decidedBy, runs, lost>>

\* /chat/resume: the kernel holds no interrupted turn, refuses the resumption and
\* the answer is an error, whatever was decided.
ResumeFails(c) ==
    /\ desk[c].pc = "resume"
    /\ Turn(c, AtRest)
    /\ UNCHANGED <<approvals, decidedBy, audit, runs, told, lost>>

\* The chat does not look at what the repository answers, and writes no audit row.
\* After a yes the kernel refuses to resume, and the terminal ends with the error.
ChatDecides(c) ==
    /\ desk[c].pc = "answer" /\ ChannelOf[c] = "chat"
    /\ Resolve(c, desk[c].id, desk[c].word)
    /\ Tell(c)
    /\ Turn(c, IF desk[c].word = "denied" THEN AtRest ELSE [pc |-> "gone"])
    /\ UNCHANGED <<audit, runs, lost>>

-----------------------------------------------------------------------------
(* cogito approval resume: it does not ask whether a decision was made, and the *)
(* log row it starts from stays as it is.                                       *)

Outcomes(id) ==
    IF approvals[id] # "approved" THEN {"rejected"}
    ELSE IF runs[id] = "waiting" THEN {"completed", "failed"} ELSE {"refused"}

ResumeRun(c) ==
    /\ desk[c].pc = "idle" /\ ChannelOf[c] = "cli"
    /\ \E id \in OfSkill : runs[id] # "none" /\
          \E outcome \in Outcomes(id) :
             /\ runs' = [runs EXCEPT ![id] = IF @ = "waiting" THEN outcome ELSE @]
             /\ Turn(c, IF outcome = "refused" THEN AtRest ELSE Busy("book", id, outcome))
    /\ UNCHANGED <<approvals, decidedBy, audit, told, lost>>

BookResume(c) ==
    /\ desk[c].pc = "book"
    /\ LET id == desk[c].id
           decision == IF desk[c].word = "completed" THEN "allow" ELSE "deny"
       IN  audit' = audit \cup {Row(c, id, "resume", decision, HomeOf[id])}
    /\ Turn(c, AtRest)
    /\ UNCHANGED <<approvals, decidedBy, runs, told, lost>>

\* A process ends wherever it is, and its terminal or page is opened again.
Stop(c) ==
    /\ desk[c].pc # "idle" /\ Turn(c, AtRest)
    /\ lost' = lost \cup (IF desk[c].pc = "log" THEN {desk[c].id} ELSE {})
    /\ UNCHANGED <<approvals, decidedBy, audit, runs, told>>

DeskStep ==
    /\ UNCHANGED shift
    /\ \/ \E id \in Asked : SkillAsks(id)
       \/ \E c \in shift, id \in Asked : desk[c] = AtRest /\ (ChatAsks(c, id) \/ PostTurn(c, id))
       \/ \E c \in shift :
             \/ Open(c) \/ CliReads(c) \/ CliDecides(c) \/ ServiceDecides(c) \/ Log(c)
             \/ ResumeFails(c) \/ ChatDecides(c) \/ ResumeRun(c) \/ BookResume(c) \/ Stop(c)

-----------------------------------------------------------------------------
(* Properties *)

\* The rows that the repository's filters leave: by workspace, or of all.
RowsOf(space) == {row \in audit : space = "*" \/ row.in = space}

\* A page of the Console's audit view.
Page(space, action) == {row \in RowsOf(space) : row.action = action}

(* A decision stands as it was taken, however many take it at once:        *)
(* - whoever is told to have decided, at a desk that looks, reads his own  *)
(*   word in the request for ever after (a chat tells without a look);     *)
(* - every decision in the audit log, and in the page of its workspace     *)
(*   when the command line wrote it, is the one stored, by its decider;    *)
(* - a decision that the log has not was taken in a chat, or its decider   *)
(*   is about to write it, or was stopped before;                          *)
(* - a run is booked as resumed with success only under an approval.       *)
DecisionOnRecord ==
    /\ \A t \in told : ChannelOf[t.by] # "chat" =>
         approvals[t.id] = t.word /\ decidedBy[t.id] = {t.by}
    /\ \A row \in Page("*", "decide") :
         /\ Decided(row.id) /\ Side(approvals[row.id]) = row.decision
         /\ decidedBy[row.id] = {row.by}
         /\ ChannelOf[row.by] = "cli" => row \in Page(HomeOf[row.id], "decide")
    /\ \A id \in Asked : Decided(id) =>
         \/ \E row \in Page("*", "decide") : row.id = id
         \/ id \in lost
         \/ \E c \in decidedBy[id] : ChannelOf[c] = "chat" \/ (desk[c].pc = "log" /\ desk[c].id = id)
    /\ \A row \in Page("*", "resume") : row.decision = "allow" => approvals[row.id] = "approved"
=============================================================================
