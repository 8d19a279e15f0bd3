------------------------------- MODULE Reports --------------------------------
(***************************************************************************)
(* The builtin skills: six reports over the tables of a workspace.  Each   *)
(* selects its rows table by table while others write, makes an artifact   *)
(* of what it found, tells the inbox and closes the trace it opened; the   *)
(* drift runtime hands it a trace of its own.  LIMITs count in fives.      *)
(***************************************************************************)
EXTENDS Naturals, FiniteSets, Sequences

CONSTANTS
    ReportRuns,   \* the runs of a skill
    Agendas,      \* what is asked in a behaviour: sets of skills
    Stocks,       \* what the tables may hold at first
    Arrival,      \* a notice that comes in from outside
    Negations,    \* negation_words
    MaxFaults,    \* bound: how often the database does not answer
    MaxChanges    \* bound: how often others change a row

(* The columns of a notice. *)
IsNotice(tag) ==
    tag = [source |-> tag.source, about |-> tag.about, read |-> tag.read, by |-> tag.by, count |-> tag.count]

ASSUME ReportsAssumption ==
    /\ \A asked \in Agendas : asked \subseteq {"consolidation", "digest", "extraction", "brief", "status", "review"}
    /\ IsNotice(Arrival) /\ Arrival.by \notin ReportRuns
    /\ \A stock \in Stocks :
        /\ IsFiniteSet(stock)
        /\ \A x \in stock : x = [in |-> x.in, n |-> x.n, tag |-> x.tag] /\ x.n \in Nat
        /\ \A x \in stock : x.in = "inbox" => IsNotice(x.tag) /\ x.tag.by \notin ReportRuns
        \* the words of a text are words of its normal form
        /\ \A x, y \in stock : x.in = "memories" /\ y.in = "memories" /\ x.tag.text = y.tag.text
                                => x.tag.words = y.tag.words

VARIABLES
    rows,         \* the rows of all tables: [in, n, tag], `n` grows with their time stamps
    next,         \* the time stamp of the next row
    agenda,       \* the skills still to be run
    report,       \* how far each run is
    changes,      \* how often others changed a row
    faults        \* how often the database did not answer

reportVars == <<rows, next, agenda, report, changes, faults>>

In(table) == {x \in rows : x.in = table}

Newest(S, k) == {x \in S : Cardinality({y \in S : y.n > x.n}) < k}

Unread(x) == ~x.tag.read

(* The SELECTs of each skill, in their order. *)
ConsolidationReads == <<In("memories")>>

DigestReads == <<{x \in In("inbox") : Unread(x)}>>

ExtractionReads ==
    <<Newest(In("sessions"), 1), Newest({x \in In("memories") : x.tag.type \in {"task", "project"}}, 2),
      Newest({x \in In("inbox") : Unread(x)}, 2), Newest(In("artifacts"), 1)>>

BriefReads ==
    <<Newest(In("memories"), 4),
      Newest({x \in In("memories") : x.tag.type # "fact" /\ x.tag.status # "stale"}, 4),
      Newest(In("sessions"), 2), Newest({x \in In("inbox") : Unread(x)}, 4),
      Newest(In("artifacts"), 2), Newest(In("chunks"), 2)>>

StatusReads ==
    <<Newest(In("memories"), 4), Newest(In("sessions"), 2),
      Newest({x \in In("inbox") : Unread(x)}, 2), Newest(In("chunks"), 2)>>

ReviewReads ==
    <<Newest({x \in In("traces") : x.tag.status \in {"failed", "denied", "budget_exceeded"}}, 4),
      Newest({x \in In("calls") : x.tag.status = "deny"}, 4),
      Newest({x \in In("approvals") : x.tag.status = "pending"}, 4),
      Newest({x \in In("calls") : x.tag.slow}, 2), Newest({x \in In("models") : x.tag.slow}, 2),
      Newest({x \in In("outbox") : x.tag.status = "dead_letter"}, 2),
      Newest({x \in In("files") : x.tag.status = "error"}, 2),
      Newest({x \in In("skills") : x.tag.status \in {"failed", "rolled_back"}}, 2)>>

Selection(skill) ==
    CASE skill = "consolidation" -> ConsolidationReads
      [] skill = "digest" -> DigestReads
      [] skill = "extraction" -> ExtractionReads
      [] skill = "brief" -> BriefReads
      [] skill = "status" -> StatusReads
      [] skill = "review" -> ReviewReads

Seen(r) == UNION {report[r].seen[i] : i \in 1 .. Len(report[r].seen)}

-------------------------------------------------------------------------------
(* memory_consolidation: of a text only its normal form and its words tell. *)
Groups(S, key) == {{y \in S : key[y] = key[x]} : x \in S}

TextOf(S) == [x \in S |-> x.tag.text]

\* Mutant of Duplicates: copies are joined by pairs.
DuplicatePairs(S) ==
    {p \in SUBSET {x \in S : x.tag.text # ""} : Cardinality(p) = 2 /\ \A x, y \in p : x.tag.text = y.tag.text}

Duplicates(S) ==
    LET told == {x \in S : x.tag.text # ""}
    IN  {g \in Groups(told, TextOf(told)) : Cardinality(g) >= 2}

Stale(S) == {x \in S : x.tag.days >= 30 /\ x.tag.status # "stale"}

Conflict(a, b) ==
    /\ Cardinality(a.tag.words \cap b.tag.words) >= 3
    /\ (a.tag.words \cap Negations # {}) # (b.tag.words \cap Negations # {})

Conflicting(S) ==
    LET active == {x \in S : x.tag.status = "active"}
    IN  {p \in SUBSET active : \E a, b \in p : a.n < b.n /\ p = {a, b} /\ Conflict(a, b)}

LowConfidence(S) == {x \in S : x.tag.confidence < 30}

Proposal(action, p) == [kind |-> action, of |-> p]

Proposals(S) ==
    {Proposal("merge", g) : g \in Duplicates(S)} \cup {Proposal("archive", {x}) : x \in Stale(S)} \cup
    {Proposal("review", p) : p \in Conflicting(S)} \cup {Proposal("flag", {x}) : x \in LowConfidence(S)}

(* inbox_digest: groups of the same source, title and body, and the sources that fill the inbox. *)
LookOf(S) == [x \in S |-> <<x.tag.source, x.tag.about>>]

SourceOf(S) == [x \in S |-> x.tag.source]

Noisy(S) == {g \in Groups(S, SourceOf(S)) : Cardinality(g) * 10 > Cardinality(S) * 3 /\ Cardinality(g) >= 3}

Digest(S) == {Proposal("group", g) : g \in Groups(S, LookOf(S))} \cup {Proposal("noisy", g) : g \in Noisy(S)}

(* task_extraction *)
Candidate(x) ==
    CASE x.in = "memories" -> x.tag.status = "active" /\ Cardinality(x.tag.words) > 2
      [] x.in = "sessions" -> ~x.tag.console
      [] OTHER -> TRUE

Single(kind, S) == {Proposal(kind, {x}) : x \in S}

(* trace_review: what is wrong with a row, and the worst of it. *)
Risk(kind, x) ==
    CASE kind = "trace" -> IF x.tag.status = "failed" THEN 2 ELSE 1
      [] kind = "dead" -> 2
      [] kind \in {"approval", "cost", "skill"} -> 1
      [] OTHER -> 0

IssueKinds == <<"trace", "denied", "approval", "slow", "cost", "dead", "file", "skill">>

OverallRisk(found) ==
    IF \E p \in found : \E x \in p.of : Risk(p.kind, x) = 2 THEN "high"
    ELSE IF \E p \in found : \E x \in p.of : Risk(p.kind, x) = 1 THEN "medium" ELSE "low"

Review(seen) == UNION {Single(IssueKinds[i], seen[i]) : i \in DOMAIN IssueKinds}

(* daily_brief and project_status: what they tell of the newest rows. *)
Important(seen) == Single("important", Newest(seen[4], 1) \cup Newest(seen[1], 1))

OpenTasks(seen) == Single("task", Newest(seen[2], 2))

Task(x) == x.tag.type # "fact"

StatusReport(seen) == Single("task", {x \in seen[1] : Task(x)}) \cup Single("pending", Newest(seen[3], 1))

(* What a skill makes of what it has read. *)
Findings(skill, seen) ==
    CASE skill = "consolidation" -> Proposals(seen[1])
      [] skill = "digest" -> Digest(seen[1])
      [] skill = "extraction" -> Single("candidate", {x \in UNION {seen[i] : i \in 1 .. 4} : Candidate(x)})
      [] skill = "brief" -> OpenTasks(seen) \cup Important(seen)
      [] skill = "status" -> StatusReport(seen)
      [] skill = "review" -> Review(seen)

-------------------------------------------------------------------------------
Idle == [skill |-> "none", at |-> "idle", given |-> FALSE, seen |-> <<>>, found |-> {},
         trace |-> "none", span |-> "none", artifact |-> "none"]

ReportsInit ==
    /\ rows \in Stocks
    /\ next = Cardinality(rows) + 1
    /\ report = [r \in ReportRuns |-> Idle]
    /\ agenda \in Agendas
    /\ faults = 0 /\ changes = 0

Go(r, changed) == report' = [report EXCEPT ![r] = changed]

Only(r, changed) == Go(r, changed) /\ UNCHANGED <<rows, next, agenda, changes, faults>>

Add(table, tag) == rows' = rows \cup {[in |-> table, n |-> next, tag |-> tag]} /\ next' = next + 1

Start(r, skill, given) ==
    /\ report[r].at = "idle" /\ skill \in agenda
    /\ agenda' = agenda \ {skill}
    /\ Go(r, [Idle EXCEPT !.skill = skill, !.given = given, !.at = "span", !.trace = "open"])
    /\ UNCHANGED <<rows, next, changes, faults>>

OpenSpan(r) == report[r].at = "span" /\ Only(r, [report[r] EXCEPT !.at = "read", !.span = "open"])

Select(r) ==
    /\ report[r].at = "read"
    /\ LET i == Len(report[r].seen) + 1
           sets == Selection(report[r].skill)
           seen == Append(report[r].seen, sets[i])
       IN  Only(r, [report[r] EXCEPT !.seen = seen, !.at = IF i = Len(sets) THEN "log" ELSE "read"])

(* log_tool_call and the audit; the findings are there before them. *)
LogCall(r) ==
    /\ report[r].at = "log"
    /\ Only(r, [report[r] EXCEPT !.found = Findings(report[r].skill, report[r].seen), !.at = "collected"])

CloseSpan(r) ==
    /\ report[r].at = "collected"
    /\ Only(r, [report[r] EXCEPT !.span = "ended", !.at = "artifact"])

CreateArtifact(r) ==
    /\ report[r].at = "artifact"
    /\ Add("artifacts", [by |-> r, count |-> Cardinality(report[r].found)])
    /\ Go(r, [report[r] EXCEPT !.artifact = "made", !.at = "audit"])
    /\ UNCHANGED <<agenda, changes, faults>>

AuditArtifact(r) ==
    /\ report[r].at = "audit"
    /\ Only(r, [report[r] EXCEPT !.artifact = "audited", !.at = IF report[r].skill = "digest" THEN "close" ELSE "notify"])

(* _inbox_notify swallows what goes wrong. *)
Notify(r) ==
    /\ report[r].at = "notify"
    /\ Go(r, [report[r] EXCEPT !.at = "close"])
    /\ UNCHANGED <<agenda, changes>>
    /\ \/ /\ Add("inbox", [source |-> report[r].skill, about |-> "report", read |-> FALSE, by |-> r,
                           count |-> Cardinality(report[r].found)])
          /\ UNCHANGED faults
       \/ /\ faults < MaxFaults /\ faults' = faults + 1
          /\ UNCHANGED <<rows, next>>

(* end_trace of a trace the skill was given: its own variable was never assigned. *)
CloseTrace(r) ==
    /\ report[r].at = "close"
    /\ Only(r, IF report[r].given THEN [report[r] EXCEPT !.at = "raised"]
               ELSE [report[r] EXCEPT !.trace = "ended", !.at = "done"])

(* The database is locked: while the rows are read the span is ended first. *)
Fault(r) ==
    /\ faults < MaxFaults /\ faults' = faults + 1
    /\ report[r].at \in {"span", "read", "log", "collected", "artifact", "audit", "close"}
    /\ Go(r, [report[r] EXCEPT !.at = "raised", !.span = IF report[r].at \in {"read", "log"} THEN "ended" ELSE @])
    /\ UNCHANGED <<rows, next, agenda, changes>>

(* The drift runtime ends the trace it opened; nobody ends that of a skill. *)
Raised(r) ==
    /\ report[r].at = "raised"
    /\ Only(r, [report[r] EXCEPT !.at = "failed", !.trace = IF report[r].given THEN "ended" ELSE @])

(* Others: a notice comes in or is read, a memory is deleted. *)
Elsewhere ==
    /\ changes < MaxChanges /\ changes' = changes + 1
    /\ \E r \in ReportRuns : report[r].at \notin {"idle", "done", "failed"}
    /\ UNCHANGED <<agenda, report, faults>>

Arrive == Elsewhere /\ Add("inbox", Arrival)

Change(x, S) == rows' = (rows \ {x}) \cup S /\ UNCHANGED next

ReadNotice == Elsewhere /\ \E x \in In("inbox") : Unread(x) /\ Change(x, {[x EXCEPT !.tag.read = TRUE]})

DeleteMemory == Elsewhere /\ \E x \in In("memories") : Change(x, {})

ReportsStep ==
    \/ \E r \in ReportRuns :
        \/ \E skill \in agenda, given \in BOOLEAN : (given => skill # "status") /\ Start(r, skill, given)
        \/ OpenSpan(r) \/ Select(r) \/ LogCall(r) \/ CloseSpan(r) \/ CreateArtifact(r) \/ AuditArtifact(r)
        \/ Notify(r) \/ CloseTrace(r) \/ Fault(r) \/ Raised(r)
    \/ Arrive \/ ReadNotice \/ DeleteMemory

-------------------------------------------------------------------------------
\* A report told done has its artifact, its count and its closed trace, and it was asked without one.
DoneIsWhole ==
    \A r \in ReportRuns : report[r].at = "done" =>
        /\ report[r].trace = "ended" /\ report[r].span = "ended" /\ report[r].artifact = "audited" /\ ~report[r].given
        /\ \E x \in In("artifacts") : x.tag.by = r /\ x.tag.count = Cardinality(report[r].found)

\* A notice of a report tells of an artifact there is, with what that holds.
NoticePoints ==
    \A x \in In("inbox"), r \in ReportRuns : x.tag.by = r =>
        \E y \in In("artifacts") : y.tag.by = r /\ y.tag.count = x.tag.count

\* What the proposals join is the same, every copy is in one group, and what they call a conflict is none of them.
ProposalsSound ==
    \A r \in ReportRuns : report[r].skill = "consolidation" /\ report[r].found # {} =>
        LET merges == {p.of : p \in {q \in report[r].found : q.kind = "merge"}}
            S == Seen(r)
        IN  /\ \A a, b \in S : a # b /\ a.tag.text # "" => (a.tag.text = b.tag.text <=> \E g \in merges : {a, b} \subseteq g)
            /\ \A g, h \in merges : g # h => g \cap h = {}
            /\ \A p \in report[r].found : p.kind = "review" => Cardinality(p.of) = 2 /\ ~ \E g \in merges : p.of \subseteq g
            /\ \A p \in report[r].found : p.kind = "archive" => \A x \in p.of : x.tag.status # "stale"

\* Each unread notice is in one group of the digest, and more than two sources fill no inbox.
DigestSound ==
    \A r \in ReportRuns : report[r].skill = "digest" /\ report[r].at = "done" =>
        LET groups == {p.of : p \in {q \in report[r].found : q.kind = "group"}}
        IN  /\ \A x \in Seen(r) : Cardinality({g \in groups : x \in g}) = 1
            /\ Cardinality({p \in report[r].found : p.kind = "noisy"}) <= 3

\* The tasks of a status report are among the memories it reports on, whatever is deleted meanwhile.
StatusOfOneReading ==
    \A r \in ReportRuns : report[r].skill = "status" =>
        \A p \in report[r].found : p.kind = "task" => p.of \subseteq report[r].seen[1]

\* A review that found a dead letter or a failed trace calls the risk high.
RiskIsWorst ==
    \A r \in ReportRuns : report[r].skill = "review" /\ report[r].found # {} =>
        (OverallRisk(report[r].found) = "high" <=>
            \E x \in Seen(r) : x.in \in {"traces", "outbox"} /\ x.tag.status \in {"failed", "dead_letter"})

(* What a report tells is there and is so: a report told done has an audited artifact   *)
(* and a closed trace, a notice points to an artifact with as many findings, proposals  *)
(* join each copy of a text once, a digest each notice once, and a status report speaks *)
(* of one reading of the memories.                                                      *)
ReportsTrue ==
    DoneIsWhole /\ NoticePoints /\ ProposalsSound /\ DigestSound /\ StatusOfOneReading /\ RiskIsWorst
===============================================================================
