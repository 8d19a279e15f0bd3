-------------------------- MODULE GovernedExecutor --------------------------
(***************************************************************************)
(* execution/executor.py: the one entry to capabilities, shared by the     *)
(* threads of a process, over capability/registry.py and the guardians.    *)
(* A call looks the manifest up, is inspected, counted by the loop guard   *)
(* and decided by the policy; it then asks for approval or invokes the     *)
(* capability, which the registry looks up a second time.  The guard's two *)
(* fields have no lock, but nothing between its read and its test calls or *)
(* loops, where the interpreter switches threads: it is one step here.     *)
(***************************************************************************)
EXTENDS Naturals, Sequences, FiniteSets

-----------------------------------------------------------------------------
(***************************************************************************)
(* governance/policy.py: the decision on a request.  A rule names an       *)
(* actor, an operation, a context, a resource and (one rule) a capability, *)
(* "*" matching anything; each strategy applies its first matching rule to *)
(* the requests of its contexts, and the first strategy with an answer     *)
(* decides.  What no rule answers goes to a model, or is denied.           *)
(***************************************************************************)

DecisionType ==
    {"allow", "allow_with_audit", "require_approval", "deny", "escalate"}

\* What asking the model comes to: no adapter, an error, or its answer.
Judgements == {"no_model", "fails", "allow", "deny", "require_approval", "other"}

Rule(actor, operation, context, resource, decision) ==
    [actor |-> actor, operation |-> operation, context |-> context,
     resource |-> resource, capability |-> "*", decision |-> decision]

INTERACTIVE_SOURCES == {"interactive", "cli", "api"}

BACKGROUND_SOURCES ==
    {"background", "quiet_hours", "scheduler", "webhook", "skill"}

InteractiveRules ==
    << Rule("assistant", "delete", "interactive", "workspace_file", "deny"),
       Rule("assistant", "write",  "interactive", "workspace_file", "require_approval"),
       Rule("assistant", "write",  "interactive", "memory", "require_approval"),
       Rule("assistant", "write",  "interactive", "trace_log", "allow_with_audit"),
       Rule("assistant", "read",   "interactive", "workspace_file", "allow_with_audit"),
       Rule("assistant", "scan",   "interactive", "workspace_file", "allow_with_audit"),
       Rule("assistant", "search", "interactive", "workspace_file", "allow_with_audit"),
       Rule("assistant", "write",  "interactive", "artifact", "require_approval"),
       Rule("assistant", "delete", "interactive", "workspace_file", "require_approval"),
       Rule("user",  "read",   "interactive", "workspace_file", "allow_with_audit"),
       Rule("user",  "read",   "interactive", "memory", "allow"),
       Rule("skill", "read",   "interactive", "workspace_file", "allow_with_audit"),
       Rule("skill", "scan",   "interactive", "workspace_file", "allow_with_audit"),
       Rule("skill", "search", "interactive", "workspace_file", "allow_with_audit"),
       Rule("skill", "write",  "interactive", "artifact", "allow_with_audit"),
       Rule("*", "call_model", "*", "*", "allow"),
       Rule("*", "tool", "*", "*", "allow"),
       [Rule("*", "send", "*", "*", "allow_with_audit")
            EXCEPT !.capability = "notification.send"] >>

BackgroundRules ==
    << Rule("*", "delete",  "background", "*", "deny"),
       Rule("*", "write",   "background", "workspace_file", "deny"),
       Rule("*", "write",   "background", "memory", "deny"),
       Rule("*", "execute", "background", "shell", "deny"),
       Rule("*", "read",    "background", "secret", "deny"),
       Rule("skill", "call", "background", "network", "deny"),
       Rule("scheduler", "notify",  "quiet_hours", "*", "deny"),
       Rule("scheduler", "write",   "background", "artifact", "deny"),
       Rule("scheduler", "execute", "background", "*", "allow_with_audit"),
       Rule("scheduler", "write",   "background", "artifact", "require_approval"),
       Rule("scheduler", "read",    "background", "workspace_file", "allow_with_audit"),
       Rule("scheduler", "scan",    "background", "workspace_file", "allow_with_audit"),
       Rule("scheduler", "search",  "background", "workspace_file", "allow_with_audit"),
       Rule("skill", "write", "background", "artifact", "require_approval"),
       Rule("maintenance", "execute", "background", "database", "allow_with_audit"),
       Rule("*", "notify",     "background", "*", "allow_with_audit"),
       Rule("*", "read",       "background", "workspace_file", "allow_with_audit"),
       Rule("*", "call_model", "background", "*", "allow_with_audit"),
       Rule("*", "call_tool",  "background", "*", "allow_with_audit") >>

Matches(rule, req) ==
    \A f \in {"actor", "operation", "context", "capability", "resource"} :
        rule[f] \in {"*", req[f]}

\* The decision of the first rule that matches; "none" when there is none.
FirstMatch(rules, req) ==
    LET hits == {i \in DOMAIN rules : Matches(rules[i], req)}
    IN  IF hits = {} THEN "none"
        ELSE rules[CHOOSE i \in hits : \A j \in hits : i <= j].decision

InteractiveStrategy(req) ==
    IF req.context \in INTERACTIVE_SOURCES
    THEN FirstMatch(InteractiveRules, req) ELSE "none"

BackgroundStrategy(req) ==
    IF req.context \in BACKGROUND_SOURCES
    THEN FirstMatch(BackgroundRules, req) ELSE "none"

\* The model's allow is an allow_with_audit; what is not one of its three
\* answers, and every failure, is a deny.
FallbackStrategy(judgement) ==
    CASE judgement = "allow" -> "allow_with_audit"
      [] judgement = "require_approval" -> "require_approval"
      [] OTHER -> "deny"

Evaluate(req, judgement) ==
    LET answers == << InteractiveStrategy(req), BackgroundStrategy(req),
                      FallbackStrategy(judgement) >>
    IN  answers[CHOOSE i \in 1..3 : /\ answers[i] # "none"
                                    /\ \A j \in 1..(i - 1) : answers[j] = "none"]

-----------------------------------------------------------------------------

CONSTANTS
    Callers,        \* threads that call execute
    Requests,       \* what they ask: capability, arguments, actor, ...
    Answers,        \* what the policy's model may say
    SHELL,          \* the capabilities whose name marks a shell
    MAX_REPEAT,     \* _MAX_REPEAT
    ATTEMPTS,       \* attempts at an idempotent capability
    Calls           \* bounds: how many calls there may be

\* What a module that composes the executor assumes.
ExecutorAssumption ==
    /\ Answers \subseteq Judgements
    /\ MAX_REPEAT \in Nat /\ ATTEMPTS \in Nat \ {0} /\ Calls \subseteq Nat

VARIABLES
    manifests,  \* the registry: of each capability its manifest, and whether
                \* its invoke_fn reaches what it stands for
    call,       \* what each caller is at
    last,       \* _last_call: capability and arguments; {} at first
    repeats,    \* _repeat_count
    approvals,  \* the pending approval_records, as a count of each request
    audit,      \* audit rows written for the call in progress
    effects,    \* history: what was invoked, by which decision
    calls       \* calls that are left of the bound

CapabilityType == {"tool", "mcp_server", "plugin", "skill", "subagent"}

\* What the registry tells of a capability.
Manifest == [registered : BOOLEAN, reachable : BOOLEAN, type : CapabilityType,
             approval : BOOLEAN, idempotent : BOOLEAN]

NoCall == [at |-> "idle", req |-> {}, manifest |-> {}, decision |-> "none",
           attempt |-> 0, done |-> 0, status |-> "none"]

Identity(req) == {<<req.capability, req.arguments>>}

At(c, s) == call[c].at = s

Settled(c, status) == [call[c] EXCEPT !.at = "record", !.status = status]

(* execute, the lookup.  A capability that is not registered is not found. *)
Execute(c, req) ==
    /\ At(c, "idle") /\ calls > 0
    /\ calls' = calls - 1
    /\ LET m == manifests[req.capability]
           begun == [NoCall EXCEPT !.req = {req}, !.manifest = {m}]
       IN call' = [call EXCEPT ![c] =
                     IF m.registered THEN [begun EXCEPT !.at = "inspect"]
                     ELSE [begun EXCEPT !.at = "record", !.status = "not_found"]]
    /\ audit' = [audit EXCEPT ![c] = 0]
    /\ UNCHANGED <<manifests, last, repeats, approvals, effects>>

(* The guardians' hard rules: a shell in the background, or an argument    *)
(* that matches one of their patterns.                                     *)
Findings(req) ==
    (IF req.capability \in SHELL /\ req.context = "background"
     THEN {"background shell"} ELSE {})
    \cup (IF req.suspicious THEN {"pattern"} ELSE {})

Repeated(req) == IF Identity(req) = last THEN repeats + 1 ELSE 0

(* The guardians come first: what they deny the loop guard does not count. *)
(* What the guard or the policy denies, and what waits for approval, is    *)
(* counted.                                                                *)
Inspect(c) ==
    /\ At(c, "inspect")
    /\ \E req \in call[c].req :
        \/ /\ Findings(req) # {}
           /\ call' = [call EXCEPT ![c] = Settled(c, "denied")]
           /\ UNCHANGED <<last, repeats>>
        \/ /\ Findings(req) = {}
           /\ last' = Identity(req)
           /\ repeats' = Repeated(req)
           /\ call' = [call EXCEPT ![c] =
                  IF Repeated(req) < MAX_REPEAT THEN [@ EXCEPT !.at = "decide"]
                  ELSE Settled(c, "denied")]
    /\ UNCHANGED <<manifests, approvals, audit, effects, calls>>

(* operation is the manifest's type unless the request names one; resource *)
(* likewise the capability.                                                *)
PolicyRequest(req, m) ==
    [actor |-> req.actor, capability |-> req.capability, context |-> req.context,
     operation |-> IF req.operation = "" THEN m.type ELSE req.operation,
     resource |-> IF req.resource = "" THEN req.capability ELSE req.resource]

Decide(c) ==
    /\ At(c, "decide")
    /\ \E req \in call[c].req, m \in call[c].manifest, answer \in Answers :
        LET d == Evaluate(PolicyRequest(req, m), answer)
        IN call' = [call EXCEPT ![c] =
             IF d = "deny" THEN Settled(c, "denied")
             ELSE IF d = "require_approval" \/ m.approval
                  THEN [@ EXCEPT !.at = "ask", !.decision = d]
                  ELSE [@ EXCEPT !.at = "invoke", !.decision = d]]
    /\ UNCHANGED <<manifests, last, repeats, approvals, audit, effects, calls>>

(* _create_approval: one more pending record; no call ever looks for one   *)
(* that has been approved.                                                 *)
AskApproval(c) ==
    /\ At(c, "ask")
    /\ \E req \in call[c].req : approvals' = [approvals EXCEPT ![req] = @ + 1]
    /\ call' = [call EXCEPT ![c] = Settled(c, "approval_required")]
    /\ UNCHANGED <<manifests, last, repeats, audit, effects, calls>>

Attempts(m) == IF m.idempotent THEN ATTEMPTS ELSE 1

\* Mutant of AfterRaise: one attempt too many.
AfterRaiseOnceMore(c, m) ==
    IF call[c].attempt < Attempts(m)
    THEN [call[c] EXCEPT !.attempt = @ + 1, !.done = @ + 1]
    ELSE [Settled(c, "error") EXCEPT !.done = @ + 1]

AfterRaise(c, m) ==
    IF call[c].attempt + 1 < Attempts(m)
    THEN [call[c] EXCEPT !.attempt = @ + 1, !.done = @ + 1]
    ELSE [Settled(c, "error") EXCEPT !.done = @ + 1]

(* registry.invoke: nothing when the capability is gone, an error result   *)
(* when the arguments do not fit the schema; neither is retried.           *)
InvokeNothing(c) ==
    /\ At(c, "invoke")
    /\ \E req \in call[c].req :
          ~manifests[req.capability].registered \/ ~manifests[req.capability].reachable
             \/ ~req.fits
    /\ call' = [call EXCEPT ![c] = Settled(c, "error")]
    /\ UNCHANGED <<manifests, last, repeats, approvals, audit, effects, calls>>

Invoke(c) ==
    /\ At(c, "invoke")
    /\ \E req \in call[c].req, m \in call[c].manifest :
        /\ manifests[req.capability].registered /\ manifests[req.capability].reachable
        /\ req.fits
        /\ effects' = effects \cup {[capability |-> req.capability,
                                     decision |-> call[c].decision]}
        /\ \/ call' = [call EXCEPT ![c] = [Settled(c, "ok") EXCEPT !.done = @ + 1]]
           \/ call' = [call EXCEPT ![c] = [Settled(c, "error") EXCEPT !.done = @ + 1]]
           \/ call' = [call EXCEPT ![c] = AfterRaise(c, m)]
    /\ UNCHANGED <<manifests, last, repeats, approvals, audit, calls>>

\* _record, at the end of every path.
Record(c) ==
    /\ At(c, "record")
    /\ audit' = [audit EXCEPT ![c] = @ + 1]
    /\ call' = [call EXCEPT ![c].at = "idle"]
    /\ UNCHANGED <<manifests, last, repeats, approvals, effects, calls>>

(* ApprovalRepository.resolve: the record is no longer pending, and that   *)
(* is all.                                                                 *)
Resolve(req) ==
    /\ approvals[req] > 0
    /\ approvals' = [approvals EXCEPT ![req] = @ - 1]
    /\ UNCHANGED <<manifests, call, last, repeats, audit, effects, calls>>

ExecutorInit ==
    /\ call = [c \in Callers |-> NoCall]
    /\ last = {} /\ repeats = 0
    /\ approvals = [req \in Requests |-> 0]
    /\ audit = [c \in Callers |-> 0]
    /\ effects = {} /\ calls \in Calls

ExecutorNext ==
    \/ \E c \in Callers :
          \/ \E req \in Requests : Execute(c, req)
          \/ Inspect(c) \/ Decide(c) \/ AskApproval(c)
          \/ InvokeNothing(c) \/ Invoke(c) \/ Record(c)
    \/ \E req \in Requests : Resolve(req)

-----------------------------------------------------------------------------
(* What a call reports is what it did, even when the capability is         *)
(* replaced or removed under it: a denied, unknown or waiting call invoked *)
(* nothing, a successful one at least once, and none more often than the   *)
(* manifest it was judged by allows.  It is in the audit log once.         *)
ReportsWhatItDid ==
    \A c \in Callers :
        /\ call[c].status \in {"denied", "not_found", "approval_required"} =>
               call[c].done = 0
        /\ call[c].status = "ok" => call[c].done > 0
        /\ \A m \in call[c].manifest : call[c].done <= Attempts(m)
        /\ call[c].at = "idle" /\ call[c].req # {} => audit[c] = 1
=============================================================================
