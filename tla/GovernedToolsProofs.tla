------------------------- MODULE GovernedToolsProofs -------------------------
(***************************************************************************)
(* The safety of the executor and of the MCP tools, for any servers,       *)
(* processes, threads and requests.                                        *)
(*                                                                         *)
(* What is in force was granted: the record of every granted tool, revoked *)
(* or not, is one the user has given; an entry of a registry that asks for *)
(* no approval rests on such a record; and so does the manifest that a     *)
(* call took when it began, whatever has become of the registry since.     *)
(***************************************************************************)
EXTENDS GovernedTools, WellFoundedInduction, TLAPS

(* A set of numbers that is not empty has a least one.                     *)
LEMMA Least ==
    ASSUME NEW S \in SUBSET Nat, S # {}
    PROVE  \E i \in S : \A j \in S : i <= j
<1> DEFINE less == {p \in Nat \X Nat : p[1] < p[2]}
<1>1. IsWellFoundedOn(less, Nat)
  BY NatLessThanWellFounded DEF OpToRel
<1>2. \E i \in S : \A j \in S : <<j, i>> \notin less
  <2> HIDE DEF less
  <2> QED BY <1>1, WFMin
<1>3. PICK i \in S : \A j \in S : <<j, i>> \notin less
  BY <1>2
<1>4. \A j \in S : ~(j < i)
  BY <1>3
<1> QED BY <1>4

-----------------------------------------------------------------------------
(* The policy.                                                             *)

Decisions == {"allow", "allow_with_audit", "require_approval", "deny"}

\* Rules that decide.
Decided(rules) ==
    /\ DOMAIN rules \subseteq Nat
    /\ \A i \in DOMAIN rules : rules[i].decision \in Decisions

LEMMA FirstMatchDecides ==
    ASSUME NEW rules, Decided(rules), NEW req
    PROVE  FirstMatch(rules, req) \in Decisions \cup {"none"}
<1> DEFINE hits == {i \in DOMAIN rules : Matches(rules[i], req)}
           first == CHOOSE i \in hits : \A j \in hits : i <= j
<1>1. CASE hits = {}
  BY <1>1 DEF FirstMatch
<1>2. CASE hits # {}
  <2>1. \E i \in hits : \A j \in hits : i <= j
    <3>1. hits \in SUBSET Nat
      BY DEF Decided
    <3> HIDE DEF hits
    <3> QED BY <1>2, <3>1, Least
  <2>2. first \in hits
    <3> HIDE DEF hits
    <3> QED BY <2>1
  <2>3. FirstMatch(rules, req) = rules[first].decision
    BY <1>2 DEF FirstMatch
  <2>4. first \in DOMAIN rules
    BY <2>2
  <2> HIDE DEF first, hits
  <2> QED BY <2>3, <2>4 DEF Decided
<1> QED BY <1>1, <1>2

LEMMA RulesDecide == Decided(InteractiveRules) /\ Decided(BackgroundRules)
<1>1. Decided(InteractiveRules)
  BY DEF Decided, InteractiveRules, Rule, Decisions
<1>2. Decided(BackgroundRules)
  BY DEF Decided, BackgroundRules, Rule, Decisions
<1> QED BY <1>1, <1>2

(* What the policy decides is one of four answers, and no strategy is      *)
(* passed over silently.                                                   *)
LEMMA EvaluateDecides ==
    ASSUME NEW req, NEW judgement
    PROVE  Evaluate(req, judgement) \in Decisions
<1> DEFINE answers == << InteractiveStrategy(req), BackgroundStrategy(req),
                         FallbackStrategy(judgement) >>
           heard == {i \in 1..3 : answers[i] # "none"}
           Says(i) == answers[i] # "none" /\ \A j \in 1..(i - 1) : answers[j] = "none"
<1>1. /\ InteractiveStrategy(req) \in Decisions \cup {"none"}
      /\ BackgroundStrategy(req) \in Decisions \cup {"none"}
      /\ FallbackStrategy(judgement) \in Decisions
  BY FirstMatchDecides, RulesDecide
     DEF InteractiveStrategy, BackgroundStrategy, FallbackStrategy, Decisions
<1>2. \A i \in 1..3 : answers[i] \in Decisions \cup {"none"}
  BY <1>1
<1>3. \E i \in 1..3 : Says(i)
  <2>1. answers[3] # "none"
    BY <1>1 DEF Decisions
  <2>2. CASE answers[1] # "none"
    BY <2>2
  <2>3. CASE answers[1] = "none" /\ answers[2] # "none"
    BY <2>3
  <2>4. CASE answers[1] = "none" /\ answers[2] = "none"
    <3>1. \A j \in 1..(3 - 1) : j = 1 \/ j = 2
      OBVIOUS
    <3> QED BY <2>1, <2>4, <3>1
  <2> QED BY <2>2, <2>3, <2>4
<1>4. Evaluate(req, judgement) = answers[CHOOSE i \in 1..3 : Says(i)]
  BY DEF Evaluate
<1> HIDE DEF answers
<1>5. (CHOOSE i \in 1..3 : Says(i)) \in 1..3 /\ Says(CHOOSE i \in 1..3 : Says(i))
  BY <1>3
<1> QED BY <1>2, <1>4, <1>5

-----------------------------------------------------------------------------
(* Trust and grants.                                                       *)

Hash == Versions \cup {NoVersion}
Config == Configs \cup {NoConfig}
Grant == [version : Hash, approval : BOOLEAN, granted : BOOLEAN, revoked : BOOLEAN]
Entry == [version : Hash, approval : BOOLEAN]
Job == [at : {"idle", "stage", "connect", "tools", "stage_tool", "check", "register",
              "granted", "unregister", "remove"},
        config : Config, status : TrustStatus, tool : SUBSET Tools, todo : SUBSET Tools,
        changed : BOOLEAN, tools : [Tools -> Hash]]

(* The managers' variables have their types.                               *)
McpTypeOK ==
    /\ server \in [status : TrustStatus, config : Config]
    /\ grants \in [Tools -> Grant]
    /\ offers \in [Tools -> Hash]
    /\ client \in [Processes -> [Tools -> Hash]]
    /\ pending \in [Processes -> Config]
    /\ registry \in [Processes -> [Tools -> Entry]]
    /\ job \in [Threads -> Job]

RecordOf(t) == [tool |-> t, version |-> grants[t].version, approval |-> grants[t].approval]

\* The user has once granted the tool without an approval.
Consented(t) == \E a \in accepted : a.tool = t /\ ~a.approval

McpInv ==
    /\ McpTypeOK
    /\ server.status = "trusted" => server.config \in trusted
    /\ \A th \in Threads : job[th].status = "trusted" => job[th].config \in trusted
    /\ \A t \in Tools : grants[t].granted => RecordOf(t) \in accepted
    /\ \A p \in Processes, t \in Tools : ~registry[p][t].approval => Consented(t)

LEMMA BlankTyped ==
    /\ Idle \in Job /\ Idle.status # "trusted" /\ NoGrant \in Grant /\ NotRegistered \in Entry
    /\ NoClient \in [Tools -> Hash] /\ NoConfig \in Config
    /\ NoGrant.granted = FALSE /\ NotRegistered.approval = TRUE
<1>1. NoClient \in [Tools -> Hash] /\ NoConfig \in Config
  BY DEF NoClient, Hash, Config
<1>2. Idle \in Job /\ Idle.status # "trusted"
  BY <1>1 DEF Idle, Job, TrustStatus
<1> QED BY <1>1, <1>2 DEF NoGrant, Grant, NotRegistered, Entry, Hash

LEMMA InitMcpInv == McpInit => McpInv
<1> SUFFICES ASSUME McpInit PROVE McpInv
  OBVIOUS
<1>1. McpTypeOK
  BY BlankTyped DEF McpInit, McpTypeOK, TrustStatus, Hash, Config
<1>2. /\ server.status # "trusted"
      /\ \A th \in Threads : job[th].status # "trusted"
      /\ \A t \in Tools : ~grants[t].granted
      /\ \A p \in Processes, t \in Tools : registry[p][t].approval
  BY BlankTyped DEF McpInit
<1> QED BY <1>1, <1>2 DEF McpInv

\* What a step of a manager does to the job of its thread.
NextJob(th, next) == job' = [job EXCEPT ![th] = next]

LEMMA JobGoes ==
    ASSUME McpTypeOK, NEW th \in Threads, NEW next \in Job, NextJob(th, next)
    PROVE  job' \in [Threads -> Job] /\ job'[th] = next
           /\ \A d \in Threads \ {th} : job'[d] = job[d]
BY DEF McpTypeOK, NextJob

(* A thread changes its job, and nothing that the invariant binds.         *)
LEMMA JobOnly ==
    ASSUME McpInv, NEW th \in Threads, NEW next \in Job, NextJob(th, next),
           next.status = "trusted" => next.config \in trusted,
           UNCHANGED <<server, grants, offers, registry, trusted, accepted>>,
           client' \in [Processes -> [Tools -> Hash]], pending' = pending
    PROVE  McpInv'
<1>1. McpTypeOK'
  BY JobGoes DEF McpInv, McpTypeOK
<1>2. \A d \in Threads : job'[d].status = "trusted" => job'[d].config \in trusted
  BY JobGoes DEF McpInv
<1> QED BY <1>1, <1>2 DEF McpInv, RecordOf, Consented

LEMMA ConfigSteps ==
    ASSUME McpInv, NEW th \in Threads,
           (\E c \in Configs : AddServer(th, c)) \/ StageServer(th) \/ TrustServer(th)
           \/ Connect(th)
    PROVE  McpInv'
<1> USE DEF McpInv
<1>0. /\ job[th] \in Job /\ process[th] \in Processes /\ server.status \in TrustStatus
      /\ server.config \in Config
      /\ job[th].config \in Config /\ job[th].status \in TrustStatus
  BY McpAssumption DEF McpTypeOK, Job
<1>1. ASSUME NEW c \in Configs, AddServer(th, c) PROVE McpInv'
  <2> DEFINE next == [Idle EXCEPT !.at = "stage", !.config = c, !.status = KeptStatus(c)]
  <2>1. NextJob(th, next)
        /\ UNCHANGED <<server, grants, offers, client, pending, registry, trusted, accepted>>
    BY <1>1 DEF AddServer, Start, NextJob
  <2>2. KeptStatus(c) \in TrustStatus
        /\ (KeptStatus(c) = "trusted" => c \in trusted)
    BY <1>0 DEF KeptStatus, TrustStatus
  <2>3. next \in Job /\ next.status = KeptStatus(c) /\ next.config = c
    BY <2>2, BlankTyped DEF Job, Config
  <2> HIDE DEF next, McpInv
  <2>4. client' \in [Processes -> [Tools -> Hash]]
    BY <2>1 DEF McpInv, McpTypeOK
  <2> QED BY <2>1, <2>2, <2>3, <2>4, JobOnly
<1>2. CASE StageServer(th)
  <2> DEFINE next == IF job[th].status = "trusted" THEN [job[th] EXCEPT !.at = "connect"] ELSE Idle
  <2>1. /\ NextJob(th, next)
        /\ server' = [status |-> job[th].status, config |-> job[th].config]
        /\ grants' = IF job[th].status = "pending" THEN RevokeAll ELSE grants
        /\ pending' = [pending EXCEPT ![process[th]] = job[th].config]
        /\ UNCHANGED <<offers, client, registry, trusted, accepted>>
    BY <1>2 DEF StageServer, Goto, NextJob
  <2>2. next \in Job /\ (next.status = "trusted" => next.config \in trusted)
    BY <1>0, BlankTyped DEF Job
  <2>3. RevokeAll \in [Tools -> Grant]
        /\ \A t \in Tools : /\ RevokeAll[t].granted = grants[t].granted
                            /\ RevokeAll[t].version = grants[t].version
                            /\ RevokeAll[t].approval = grants[t].approval
    <3>1. \A t \in Tools : grants[t] \in Grant /\ Known(t) \in BOOLEAN
      BY DEF McpTypeOK, Known
    <3> QED BY <3>1 DEF RevokeAll, Grant
  <2>4. grants' \in [Tools -> Grant]
        /\ \A t \in Tools : /\ grants'[t].granted = grants[t].granted
                            /\ grants'[t].version = grants[t].version
                            /\ grants'[t].approval = grants[t].approval
    BY <2>1, <2>3 DEF McpTypeOK
  <2>5. McpTypeOK' /\ \A d \in Threads : job'[d].status = "trusted" => job'[d].config \in trusted
    <3> HIDE DEF next
    <3>1. job' \in [Threads -> Job] /\ job'[th] = next
          /\ \A d \in Threads \ {th} : job'[d] = job[d]
      BY <2>1, <2>2, JobGoes
    <3>2. \A d \in Threads : job'[d].status = "trusted" => job'[d].config \in trusted
      BY <2>2, <3>1
    <3>3. pending' \in [Processes -> Config]
      BY <1>0, <2>1 DEF McpTypeOK
    <3>4. server' \in [status : TrustStatus, config : Config]
      BY <1>0, <2>1
    <3> QED BY <2>1, <2>4, <3>1, <3>2, <3>3, <3>4 DEF McpTypeOK
  <2>6. server'.status = "trusted" => server'.config \in trusted
    BY <2>1
  <2>7. \A t \in Tools : grants'[t].granted => RecordOf(t)' \in accepted
    BY <2>1, <2>4 DEF RecordOf
  <2> QED BY <2>1, <2>5, <2>6, <2>7 DEF Consented
<1>3. CASE TrustServer(th)
  <2> DEFINE next == [Idle EXCEPT !.at = "connect",
                                  !.config = IF pending[process[th]] # NoConfig
                                             THEN pending[process[th]] ELSE server.config]
  <2>1. /\ NextJob(th, next) /\ server' = [server EXCEPT !.status = "trusted"]
        /\ trusted' = trusted \cup {server.config}
        /\ UNCHANGED <<grants, offers, client, pending, registry, accepted>>
    BY <1>3 DEF TrustServer, Start, NextJob
  <2>2. next \in Job /\ next.status # "trusted"
    <3>1. pending[process[th]] \in Config
      BY <1>0 DEF McpTypeOK
    <3> QED BY <1>0, <3>1, BlankTyped DEF Job
  <2> HIDE DEF next
  <2>3. server' \in [status : TrustStatus, config : Config] /\ server'.config = server.config
    BY <2>1 DEF McpTypeOK, TrustStatus
  <2>4. McpTypeOK' /\ \A d \in Threads : job'[d].status = "trusted" => job'[d].config \in trusted'
    BY <2>1, <2>2, <2>3, JobGoes DEF McpTypeOK
  <2> QED BY <2>1, <2>3, <2>4 DEF RecordOf, Consented
<1>4. CASE Connect(th)
  <2> DEFINE next == [job[th] EXCEPT !.at = "tools", !.todo = Tools, !.tools = offers]
  <2>1. /\ \/ NextJob(th, next) /\ client' = [client EXCEPT ![process[th]] = offers]
           \/ NextJob(th, Idle) /\ client' = client
        /\ UNCHANGED <<server, grants, offers, pending, registry, trusted, accepted>>
    BY <1>4 DEF Connect, Goto, NextJob
  <2>2. client' \in [Processes -> [Tools -> Hash]]
    BY <1>0, <2>1 DEF McpTypeOK
  <2>3. next \in Job /\ next.status = job[th].status /\ next.config = job[th].config
    BY <1>0 DEF Job, McpTypeOK
  <2>4. next.status = "trusted" => next.config \in trusted
    BY <2>3
  <2> HIDE DEF next, McpInv
  <2> QED BY <2>1, <2>2, <2>3, <2>4, BlankTyped, JobOnly
<1> QED BY <1>1, <1>2, <1>3, <1>4
\* The job a thread goes on with after a tool.
LEMMA NextToolTyped ==
    ASSUME McpInv, NEW th \in Threads
    PROVE  /\ NextTool(th) \in Job
           /\ NextTool(th).status = "trusted" => NextTool(th).config \in trusted
<1>1. job[th] \in Job
  BY DEF McpInv, McpTypeOK
<1> QED BY <1>1, BlankTyped DEF McpInv, NextTool, Job

(* Steps that change nothing but what their thread is at.                  *)
LEMMA JobSteps ==
    ASSUME McpInv, NEW th \in Threads,
           (\E t \in Tools : ReadGrant(th, t) \/ CheckGrant(th, t)) \/ FindTool(th)
    PROVE  McpInv'
<1>0. /\ job[th] \in Job /\ client \in [Processes -> [Tools -> Hash]]
      /\ process[th] \in Processes
      /\ job[th].status = "trusted" => job[th].config \in trusted
  BY McpAssumption DEF McpInv, McpTypeOK
<1>1. ASSUME NEW t \in Tools, ReadGrant(th, t) PROVE McpInv'
  <2> DEFINE next == [job[th] EXCEPT !.at = "stage_tool", !.tool = {t}, !.todo = @ \ {t},
                                     !.changed = grants[t].version # job[th].tools[t]]
  <2>1. NextJob(th, next)
        /\ UNCHANGED <<server, grants, offers, client, pending, registry, trusted, accepted>>
    BY <1>1 DEF ReadGrant, Goto, NextJob
  <2>2. next \in Job /\ next.status = job[th].status /\ next.config = job[th].config
    BY <1>0 DEF Job
  <2> HIDE DEF next
  <2> QED BY <1>0, <2>1, <2>2, JobOnly
<1>2. ASSUME NEW t \in Tools, CheckGrant(th, t) PROVE McpInv'
  <2> DEFINE onward == [job[th] EXCEPT !.at = "register"]
  <2>1. NextJob(th, onward) \/ NextJob(th, NextTool(th))
    BY <1>2 DEF CheckGrant, Goto, NextJob
  <2>2. UNCHANGED <<server, grants, offers, client, pending, registry, trusted, accepted>>
    BY <1>2 DEF CheckGrant
  <2>3. onward \in Job /\ onward.status = job[th].status /\ onward.config = job[th].config
    BY <1>0 DEF Job
  <2> HIDE DEF onward
  <2> QED BY <1>0, <2>1, <2>2, <2>3, NextToolTyped, JobOnly
<1>3. CASE FindTool(th)
  <2> DEFINE onward == [job[th] EXCEPT !.at = "register", !.tools = client[process[th]]]
  <2>1. NextJob(th, onward) \/ NextJob(th, Idle)
    BY <1>3 DEF FindTool, Goto, NextJob
  <2>2. UNCHANGED <<server, grants, offers, client, pending, registry, trusted, accepted>>
    BY <1>3 DEF FindTool
  <2>3. onward \in Job /\ onward.status = job[th].status /\ onward.config = job[th].config
    BY <1>0 DEF Job
  <2> HIDE DEF onward
  <2> QED BY <1>0, <2>1, <2>2, <2>3, BlankTyped, JobOnly
<1> QED BY <1>1, <1>2, <1>3

(* Steps on the table of grants: a new schema takes the grant away, and    *)
(* what is granted is recorded with it.                                    *)
LEMMA GrantSteps ==
    ASSUME McpInv, NEW th \in Threads, NEW t \in Tools,
           \/ StageTool(th, t) \/ RevokeTool(th, t)
           \/ \E v \in Versions, approval \in BOOLEAN : GrantTool(th, t, v, approval)
    PROVE  McpInv'
<1>0. /\ job[th] \in Job /\ grants \in [Tools -> Grant] /\ grants[t] \in Grant
      /\ \A d \in Threads : job[d].status = "trusted" => job[d].config \in trusted
      /\ \A s \in Tools : grants[s].granted => RecordOf(s) \in accepted
  BY DEF McpInv, McpTypeOK
<1>1. CASE StageTool(th, t)
  <2> DEFINE next == [job[th] EXCEPT !.at = "check"]
             row == IF job[th].changed THEN Restaged(t, job[th].tools[t]) ELSE grants[t]
  <2>1. /\ NextJob(th, next) /\ grants' = [grants EXCEPT ![t] = row]
        /\ UNCHANGED <<server, offers, client, pending, registry, trusted, accepted>>
    BY <1>0, <1>1 DEF StageTool, Goto, NextJob
  <2>2. next \in Job /\ next.status = job[th].status /\ next.config = job[th].config
    BY <1>0 DEF Job
  <2>3. row \in Grant /\ (row.granted => row = grants[t])
    <3>1. job[th].tools[t] \in Hash
      BY <1>0 DEF Job
    <3>2. /\ Restaged(t, job[th].tools[t]) \in Grant
          /\ Restaged(t, job[th].tools[t]).granted = FALSE
      BY <3>1, BlankTyped DEF Restaged, Grant
    <3> HIDE DEF Grant
    <3> QED BY <1>0, <3>2
  <2> HIDE DEF next, row
  <2>4. grants' \in [Tools -> Grant]
        /\ \A s \in Tools : grants'[s].granted => grants'[s] = grants[s]
    BY <1>0, <2>1, <2>3
  <2>5. /\ job' \in [Threads -> Job]
        /\ \A d \in Threads : job'[d].status = "trusted" => job'[d].config \in trusted
    <3>1. job' \in [Threads -> Job] /\ job'[th] = next
          /\ \A d \in Threads \ {th} : job'[d] = job[d]
      BY <2>1, <2>2, JobGoes DEF McpInv
    <3> QED BY <1>0, <2>2, <3>1
  <2>6. \A s \in Tools : grants'[s].granted => RecordOf(s)' \in accepted
    BY <1>0, <2>4 DEF RecordOf
  <2> QED BY <2>1, <2>4, <2>5, <2>6 DEF McpInv, McpTypeOK, Consented
<1>2. CASE RevokeTool(th, t)
  <2> DEFINE next == [Idle EXCEPT !.at = "unregister", !.tool = {t}]
  <2>1. /\ NextJob(th, next) /\ grants' = [grants EXCEPT ![t].revoked = TRUE]
        /\ UNCHANGED <<server, offers, client, pending, registry, trusted, accepted>>
    BY <1>2 DEF RevokeTool, Start, NextJob
  <2>2. next \in Job /\ next.status # "trusted"
    BY BlankTyped DEF Job
  <2> HIDE DEF next
  <2>3. grants' \in [Tools -> Grant]
        /\ \A s \in Tools : /\ grants'[s].granted = grants[s].granted
                            /\ grants'[s].version = grants[s].version
                            /\ grants'[s].approval = grants[s].approval
    BY <1>0, <2>1 DEF Grant
  <2>4. /\ job' \in [Threads -> Job]
        /\ \A d \in Threads : job'[d].status = "trusted" => job'[d].config \in trusted
    <3>1. job' \in [Threads -> Job] /\ job'[th] = next
          /\ \A d \in Threads \ {th} : job'[d] = job[d]
      BY <2>1, <2>2, JobGoes DEF McpInv
    <3> QED BY <1>0, <2>2, <3>1
  <2>5. \A s \in Tools : grants'[s].granted => RecordOf(s)' \in accepted
    BY <1>0, <2>3 DEF RecordOf
  <2> QED BY <2>1, <2>3, <2>4, <2>5 DEF McpInv, McpTypeOK, Consented
<1>3. ASSUME NEW v \in Versions, NEW approval \in BOOLEAN, GrantTool(th, t, v, approval)
      PROVE McpInv'
  <2> DEFINE next == [Idle EXCEPT !.at = "granted", !.tool = {t}]
             given == [tool |-> t, version |-> v, approval |-> approval]
  <2>1. /\ NextJob(th, next) /\ grants[t].version = v
        /\ grants' = [grants EXCEPT ![t].approval = approval, ![t].granted = TRUE,
                                    ![t].revoked = FALSE]
        /\ accepted' = accepted \cup {given}
        /\ UNCHANGED <<server, offers, client, pending, registry, trusted>>
    BY <1>3 DEF GrantTool, Grantable, Start, NextJob
  <2>2. next \in Job /\ next.status # "trusted"
    BY BlankTyped DEF Job
  <2>3. /\ grants' \in [Tools -> Grant]
        /\ grants'[t].version = v /\ grants'[t].approval = approval
        /\ \A s \in Tools \ {t} : grants'[s] = grants[s]
    BY <1>0, <2>1 DEF Grant
  <2>4. /\ job' \in [Threads -> Job]
        /\ \A d \in Threads : job'[d].status = "trusted" => job'[d].config \in trusted
    <3>1. job' \in [Threads -> Job] /\ job'[th] = next
          /\ \A d \in Threads \ {th} : job'[d] = job[d]
      BY <2>1, <2>2, JobGoes DEF McpInv
    <3> QED BY <1>0, <2>2, <3>1
  <2>5. \A s \in Tools : grants'[s].granted => RecordOf(s)' \in accepted'
    BY <1>0, <2>1, <2>3 DEF RecordOf
  <2>6. \A s \in Tools : Consented(s) => Consented(s)'
    BY <2>1 DEF Consented
  <2> QED BY <2>1, <2>3, <2>4, <2>5, <2>6 DEF McpInv, McpTypeOK
<1> QED BY <1>1, <1>2, <1>3

(* Steps on a registry: a tool that is registered without an approval is   *)
(* one whose live grant asks for none.                                     *)
LEMMA RegistrySteps ==
    ASSUME McpInv, NEW th \in Threads,
           \/ \E t \in Tools : RegisterTool(th, t) \/ Unregister(th, t)
           \/ RemoveServer(th)
    PROVE  McpInv'
<1>0. /\ job[th] \in Job /\ process[th] \in Processes
      /\ registry \in [Processes -> [Tools -> Entry]]
      /\ client \in [Processes -> [Tools -> Hash]]
      /\ \A d \in Threads : job[d].status = "trusted" => job[d].config \in trusted
      /\ \A p \in Processes, t \in Tools : ~registry[p][t].approval => Consented(t)
  BY McpAssumption DEF McpInv, McpTypeOK
<1>1. ASSUME NEW next \in Job, NextJob(th, next),
             next.status = "trusted" => next.config \in trusted,
             UNCHANGED <<server, grants, offers, pending, trusted, accepted>>,
             client' \in [Processes -> [Tools -> Hash]],
             registry' \in [Processes -> [Tools -> Entry]],
             \A p \in Processes, t \in Tools :
                 registry'[p][t] = registry[p][t] \/ registry'[p][t].approval \/ Consented(t)
      PROVE  McpInv'
  <2>1. /\ job' \in [Threads -> Job]
        /\ \A d \in Threads : job'[d].status = "trusted" => job'[d].config \in trusted
    <3>1. job' \in [Threads -> Job] /\ job'[th] = next
          /\ \A d \in Threads \ {th} : job'[d] = job[d]
      BY <1>1, JobGoes DEF McpInv
    <3> QED BY <1>0, <1>1, <3>1
  <2>2. \A p \in Processes, t \in Tools : ~registry'[p][t].approval => Consented(t)
    BY <1>0, <1>1
  <2> QED BY <1>1, <2>1, <2>2 DEF McpInv, McpTypeOK, RecordOf, Consented
<1>2. ASSUME NEW t \in Tools, NEW e \in Entry, e.approval \/ Consented(t),
             NEW reg, reg = [registry EXCEPT ![process[th]][t] = e]
      PROVE  /\ reg \in [Processes -> [Tools -> Entry]]
             /\ \A p \in Processes, s \in Tools :
                   reg[p][s] = registry[p][s] \/ reg[p][s].approval \/ Consented(s)
  <2> HIDE DEF Entry
  <2>1. \A p \in Processes, s \in Tools :
           reg[p][s] = IF p = process[th] /\ s = t THEN e ELSE registry[p][s]
    BY <1>0, <1>2
  <2>2. reg \in [Processes -> [Tools -> Entry]]
    BY <1>0, <1>2
  <2> QED BY <1>2, <2>1, <2>2
<1>3. ASSUME NEW t \in Tools, RegisterTool(th, t) PROVE McpInv'
  <2> DEFINE e == Registered(t, job[th].tools[t])
  <2>1. NextJob(th, NextTool(th)) /\ registry' = [registry EXCEPT ![process[th]][t] = e]
        /\ UNCHANGED <<server, grants, offers, client, pending, trusted, accepted>>
    BY <1>3 DEF RegisterTool, Goto, NextJob
  <2>2. grants[t] \in Grant /\ job[th].tools[t] \in Hash
    BY <1>0 DEF McpInv, McpTypeOK, Job
  <2>3. e \in Entry /\ (e.approval \/ Consented(t))
    <3>1. e.version \in Hash /\ e.approval = (~Live(t) \/ grants[t].approval) /\ e \in Entry
      BY <2>2 DEF Registered, Live, Entry, Grant
    <3>2. CASE Live(t) /\ ~grants[t].approval
      <4>1. RecordOf(t) \in accepted
        BY <3>2 DEF McpInv, Live
      <4>2. RecordOf(t).tool = t /\ ~RecordOf(t).approval
        BY <3>2 DEF RecordOf
      <4> QED BY <3>1, <4>1, <4>2 DEF Consented
    <3> QED BY <3>1, <3>2
  <2> HIDE DEF e
  <2> QED BY <1>0, <1>1, <1>2, <2>1, <2>3, NextToolTyped
<1>4. ASSUME NEW t \in Tools, Unregister(th, t) PROVE McpInv'
  <2>1. NextJob(th, Idle) /\ registry' = [registry EXCEPT ![process[th]][t] = NotRegistered]
        /\ UNCHANGED <<server, grants, offers, client, pending, trusted, accepted>>
    BY <1>4 DEF Unregister, Goto, NextJob
  <2> QED BY <1>0, <1>1, <1>2, <2>1, BlankTyped
<1>5. CASE RemoveServer(th)
  <2> DEFINE empty == [t \in Tools |-> NotRegistered]
  <2>1. /\ NextJob(th, Idle) /\ registry' = [registry EXCEPT ![process[th]] = empty]
        /\ client' = [client EXCEPT ![process[th]] = NoClient]
        /\ UNCHANGED <<server, grants, offers, pending, trusted, accepted>>
    BY <1>5 DEF RemoveServer, Start, Goto, NextJob
  <2>2. empty \in [Tools -> Entry] /\ \A t \in Tools : empty[t].approval
    BY BlankTyped
  <2> HIDE DEF empty
  <2>3. client' \in [Processes -> [Tools -> Hash]]
    BY <1>0, <2>1, BlankTyped
  <2>4. registry' \in [Processes -> [Tools -> Entry]]
        /\ \A p \in Processes, t \in Tools :
              registry'[p][t] = registry[p][t] \/ registry'[p][t].approval
    <3> HIDE DEF Entry
    <3> QED BY <1>0, <2>1, <2>2
  <2> QED BY <1>1, <2>1, <2>3, <2>4, BlankTyped
<1> QED BY <1>3, <1>4, <1>5

LEMMA BlockKeepsMcpInv ==
    ASSUME McpInv, NEW th \in Threads, BlockServer(th)
    PROVE  McpInv'
<1> DEFINE next == [Idle EXCEPT !.at = "remove"]
<1>0. /\ \A d \in Threads : job[d].status = "trusted" => job[d].config \in trusted
      /\ \A s \in Tools : grants[s].granted => RecordOf(s) \in accepted
  BY DEF McpInv
<1>1. /\ NextJob(th, next) /\ server' = [server EXCEPT !.status = "blocked"]
      /\ grants' = RevokeAll
      /\ UNCHANGED <<offers, client, pending, registry, trusted, accepted>>
  BY DEF BlockServer, Start, NextJob
<1>2. next \in Job /\ next.status # "trusted"
  BY BlankTyped DEF Job
<1> HIDE DEF next
<1>3. grants' \in [Tools -> Grant]
      /\ \A t \in Tools : /\ grants'[t].granted = grants[t].granted
                          /\ grants'[t].version = grants[t].version
                          /\ grants'[t].approval = grants[t].approval
  <2>1. \A t \in Tools : grants[t] \in Grant /\ Known(t) \in BOOLEAN
    BY DEF McpInv, McpTypeOK, Known
  <2> QED BY <1>1, <2>1 DEF RevokeAll, Grant
<1>4. server' \in [status : TrustStatus, config : Config] /\ server'.status # "trusted"
  BY <1>1 DEF McpInv, McpTypeOK, TrustStatus
<1>5. /\ job' \in [Threads -> Job]
      /\ \A d \in Threads : job'[d].status = "trusted" => job'[d].config \in trusted
  <2>1. job' \in [Threads -> Job] /\ job'[th] = next
        /\ \A d \in Threads \ {th} : job'[d] = job[d]
    BY <1>1, <1>2, JobGoes DEF McpInv
  <2> QED BY <1>0, <1>2, <2>1
<1>6. \A s \in Tools : grants'[s].granted => RecordOf(s)' \in accepted
  BY <1>0, <1>3 DEF RecordOf
<1> QED BY <1>1, <1>3, <1>4, <1>5, <1>6 DEF McpInv, McpTypeOK, Consented

LEMMA OutsideKeepsMcpInv ==
    ASSUME McpInv,
           \/ \E t \in Tools, v \in Versions : Upgrade(t, v)
           \/ \E p \in Processes : Restart(p)
    PROVE  McpInv'
<1>1. ASSUME NEW t \in Tools, NEW v \in Versions, Upgrade(t, v) PROVE McpInv'
  <2>1. offers' \in [Tools -> Hash]
    BY <1>1 DEF Upgrade, McpInv, McpTypeOK, Hash
  <2> QED BY <1>1, <2>1 DEF Upgrade, McpInv, McpTypeOK, RecordOf, Consented
<1>2. ASSUME NEW p \in Processes, Restart(p) PROVE McpInv'
  <2>1. /\ client' = [client EXCEPT ![p] = NoClient]
        /\ pending' = [pending EXCEPT ![p] = NoConfig]
        /\ registry' = [registry EXCEPT ![p] = [t \in Tools |-> NotRegistered]]
        /\ job' = [th \in Threads |-> IF process[th] = p THEN Idle ELSE job[th]]
        /\ UNCHANGED <<server, grants, offers, trusted, accepted>>
    BY <1>2 DEF Restart
  <2>2. client' \in [Processes -> [Tools -> Hash]] /\ pending' \in [Processes -> Config]
    BY <2>1, BlankTyped DEF McpInv, McpTypeOK
  <2>3. registry' \in [Processes -> [Tools -> Entry]]
        /\ \A q \in Processes, t \in Tools :
              registry'[q][t] = registry[q][t] \/ registry'[q][t].approval
    <3> DEFINE empty == [t \in Tools |-> NotRegistered]
    <3>1. empty \in [Tools -> Entry] /\ \A t \in Tools : empty[t].approval
      BY BlankTyped
    <3>2. registry \in [Processes -> [Tools -> Entry]]
      BY DEF McpInv, McpTypeOK
    <3> HIDE DEF Entry, empty
    <3> QED BY <2>1, <3>1, <3>2 DEF empty
  <2>4. /\ job' \in [Threads -> Job]
        /\ \A d \in Threads : job'[d].status = "trusted" => job'[d].config \in trusted
    BY <2>1, BlankTyped DEF McpInv, McpTypeOK
  <2> QED BY <2>1, <2>2, <2>3, <2>4 DEF McpInv, McpTypeOK, RecordOf, Consented
<1> QED BY <1>1, <1>2

LEMMA NextMcpInv == McpInv /\ McpNext => McpInv'
<1> SUFFICES ASSUME McpInv, McpNext PROVE McpInv'
  OBVIOUS
<1>1. ASSUME NEW th \in Threads, Manage(th) PROVE McpInv'
  BY <1>1, ConfigSteps, JobSteps, GrantSteps, RegistrySteps, BlockKeepsMcpInv DEF Manage
<1> QED BY <1>1, OutsideKeepsMcpInv DEF McpNext
-----------------------------------------------------------------------------
(* The executor.                                                           *)

CallRec == [at : {"idle", "inspect", "decide", "ask", "invoke", "record"},
            req : SUBSET Requests, manifest : SUBSET Manifest,
            decision : Decisions \cup {"none"}, attempt : Nat, done : Nat,
            status : {"none", "not_found", "denied", "approval_required", "ok", "error"}]

Allowed == {"allow", "allow_with_audit"}

\* What a call has done by the place it is at.
Honest(c) ==
    /\ call[c].at \in {"inspect", "decide", "ask"} =>
          call[c].done = 0 /\ call[c].attempt = 0 /\ call[c].status = "none"
    /\ call[c].at = "invoke" =>
          /\ call[c].status = "none" /\ call[c].decision \in Allowed
          /\ call[c].done = call[c].attempt
          /\ \A m \in call[c].manifest : ~m.approval /\ call[c].attempt < Attempts(m)
    /\ call[c].status \in {"denied", "not_found", "approval_required"} => call[c].done = 0
    /\ call[c].status = "ok" => call[c].done > 0
    /\ \A m \in call[c].manifest : call[c].done <= Attempts(m)
    /\ \A m, n \in call[c].manifest : m = n
    /\ call[c].at # "idle" => audit[c] = 0
    /\ call[c].at = "idle" /\ call[c].req # {} => audit[c] = 1

\* What a call found in the registry was registered with the user's consent.
Granted(c) ==
    \A req \in call[c].req, m \in call[c].manifest :
        req.capability \in Tools /\ ~m.approval => Consented(req.capability)

ExecInv ==
    /\ call \in [Callers -> CallRec] /\ audit \in [Callers -> Nat]
    /\ \A c \in Callers : Honest(c) /\ Granted(c)
    /\ EffectsConsented

IInv == McpInv /\ ExecInv

LEMMA ExecutorAssumed ==
    /\ MAX_REPEAT \in Nat /\ ATTEMPTS \in Nat \ {0}
    /\ \A m : Attempts(m) \in Nat \ {0}
BY ToolsAssumption DEF ExecutorAssumption, Attempts

(* What the registry says of a tool is a manifest, and one that asks for   *)
(* no approval has the user's consent.                                     *)
LEMMA ManifestSound ==
    ASSUME McpInv, NEW req \in Requests
    PROVE  /\ Manifests[req.capability] \in Manifest
           /\ req.capability \in Tools /\ ~Manifests[req.capability].approval
                 => Consented(req.capability)
<1> DEFINE n == req.capability
<1>1. n \in Tools \cup Builtins
  BY CapabilitiesAssumption
<1>2. CASE n \in Builtins
  BY <1>1, <1>2, CapabilitiesAssumption DEF Manifests
<1>3. CASE n \notin Builtins
  <2>1. n \in Tools /\ registry[Home][n] \in Entry
    BY <1>1, <1>3, CapabilitiesAssumption DEF McpInv, McpTypeOK
  <2>2. Manifests[n] = [registered |-> registry[Home][n] # NotRegistered,
                        reachable |-> client[Home] # NoClient,
                        type |-> "mcp_server", approval |-> registry[Home][n].approval,
                        idempotent |-> FALSE]
    BY <1>1, <1>3 DEF Manifests
  <2>3. Manifests[n] \in Manifest
    <3>1. registry[Home][n].approval \in BOOLEAN
      BY <2>1 DEF Entry
    <3>2. \A x, y, z \in BOOLEAN :
             [registered |-> x, reachable |-> y, type |-> "mcp_server", approval |-> z,
              idempotent |-> FALSE] \in Manifest
      BY DEF Manifest, CapabilityType
    <3>3. (registry[Home][n] # NotRegistered) \in BOOLEAN /\ (client[Home] # NoClient) \in BOOLEAN
      OBVIOUS
    <3> QED BY <2>2, <3>1, <3>2, <3>3
  <2>4. ~Manifests[n].approval => Consented(n)
    BY <2>1, <2>2, CapabilitiesAssumption DEF McpInv
  <2> QED BY <2>3, <2>4
<1> QED BY <1>2, <1>3

\* A step of one call: the others are where they were.
OneCall(c, k, a) ==
    /\ call' = [call EXCEPT ![c] = k]
    /\ audit' = [audit EXCEPT ![c] = a]
    /\ UNCHANGED mcpVars

LEMMA OthersHonest ==
    ASSUME ExecInv, NEW c \in Callers, NEW k \in CallRec, NEW a \in Nat, OneCall(c, k, a)
    PROVE  /\ call' \in [Callers -> CallRec] /\ audit' \in [Callers -> Nat]
           /\ call'[c] = k /\ audit'[c] = a
           /\ \A d \in Callers \ {c} : Honest(d)' /\ Granted(d)'
<1>1. /\ call' \in [Callers -> CallRec] /\ audit' \in [Callers -> Nat]
      /\ call'[c] = k /\ audit'[c] = a
      /\ \A d \in Callers \ {c} : call'[d] = call[d] /\ audit'[d] = audit[d]
  <2> HIDE DEF CallRec
  <2> QED BY DEF ExecInv, OneCall
<1>2. accepted' = accepted
  BY DEF OneCall, mcpVars
<1>3. \A t : Consented(t)' = Consented(t)
  BY <1>2 DEF Consented
<1>4. \A d \in Callers \ {c} : Honest(d) /\ Granted(d)
  BY DEF ExecInv
<1> QED BY <1>1, <1>3, <1>4 DEF Honest, Granted

(* A step that has invoked nothing leaves the effects as they are.         *)
LEMMA QuietCall ==
    ASSUME ExecInv, NEW c \in Callers, NEW k \in CallRec, NEW a \in Nat, OneCall(c, k, a),
           effects' = effects, Honest(c)', Granted(c)'
    PROVE  ExecInv'
<1>1. accepted' = accepted
  BY DEF OneCall, mcpVars
<1>2. EffectsConsented'
  BY <1>1 DEF ExecInv, EffectsConsented
<1> QED BY <1>2, OthersHonest DEF ExecInv
\* A call that ends where it is, or goes on, with what it found in the registry.
LEMMA CallTyped ==
    ASSUME IInv, NEW c \in Callers
    PROVE  call[c] \in CallRec /\ audit[c] \in Nat /\ Honest(c) /\ Granted(c) /\ ExecInv
BY DEF IInv, ExecInv

LEMMA ExecuteKeeps ==
    ASSUME IInv, NEW c \in Callers, NEW req \in Requests, Execute(c, req), UNCHANGED mcpVars
    PROVE  ExecInv'
<1> DEFINE m == Manifests[req.capability]
           k == [at |-> IF m.registered THEN "inspect" ELSE "record",
                 req |-> {req}, manifest |-> {m}, decision |-> "none", attempt |-> 0,
                 done |-> 0, status |-> IF m.registered THEN "none" ELSE "not_found"]
<1>1. m \in Manifest /\ (req.capability \in Tools /\ ~m.approval => Consented(req.capability))
  BY ManifestSound DEF IInv
<1>2. OneCall(c, k, 0) /\ effects' = effects
  <2> DEFINE begun == [NoCall EXCEPT !.req = {req}, !.manifest = {m}]
             next == IF m.registered THEN [begun EXCEPT !.at = "inspect"]
                     ELSE [begun EXCEPT !.at = "record", !.status = "not_found"]
  <2>1. call' = [call EXCEPT ![c] = next] /\ audit' = [audit EXCEPT ![c] = 0]
        /\ effects' = effects
    BY DEF Execute
  <2>2. next = k
    BY DEF NoCall
  <2> QED BY <2>1, <2>2 DEF OneCall
<1>3. k \in CallRec
  BY <1>1 DEF CallRec, Decisions
<1>4. call'[c] = k /\ audit'[c] = 0
  BY <1>2, <1>3, CallTyped, OthersHonest
<1> HIDE DEF m
<1>5. Honest(c)'
  BY <1>1, <1>4, ExecutorAssumed DEF Honest
<1>6. Granted(c)'
  <2>1. accepted' = accepted
    BY DEF mcpVars
  <2> QED BY <1>1, <1>4, <2>1 DEF Granted, Consented
<1> QED BY <1>2, <1>3, <1>5, <1>6, CallTyped, QuietCall

\* A call goes on without having invoked anything.
LEMMA CallGoes ==
    ASSUME IInv, NEW c \in Callers, NEW k \in CallRec, OneCall(c, k, audit[c]),
           effects' = effects, call[c].at # "idle", k.at # "idle",
           k.req = call[c].req, k.manifest = call[c].manifest, k.done = call[c].done,
           k.at \in {"inspect", "decide", "ask"} =>
              k.done = 0 /\ k.attempt = 0 /\ k.status = "none",
           k.at = "invoke" =>
              /\ k.status = "none" /\ k.decision \in Allowed /\ k.done = k.attempt
              /\ \A m \in k.manifest : ~m.approval /\ k.attempt < Attempts(m),
           k.status \in {"denied", "not_found", "approval_required"} => k.done = 0,
           k.status # "ok"
    PROVE  ExecInv'
<1>1. call[c] \in CallRec /\ audit[c] \in Nat /\ Honest(c) /\ Granted(c) /\ ExecInv
  BY CallTyped
<1>2. call'[c] = k /\ audit'[c] = audit[c]
  BY <1>1, OthersHonest
<1>3. Honest(c)'
  <2> HIDE DEF Allowed
  <2>1. /\ audit[c] = 0
        /\ \A m \in k.manifest : k.done <= Attempts(m)
        /\ \A m, n \in k.manifest : m = n
    BY <1>1 DEF Honest
  <2> QED BY <1>2, <2>1 DEF Honest
<1>4. accepted' = accepted
  BY DEF OneCall, mcpVars
<1>5. Granted(c)'
  BY <1>1, <1>2, <1>4 DEF Granted, Consented
<1> QED BY <1>1, <1>3, <1>5, QuietCall

LEMMA InspectKeeps ==
    ASSUME IInv, NEW c \in Callers, Inspect(c), UNCHANGED mcpVars
    PROVE  ExecInv'
<1>1. call[c] \in CallRec /\ audit[c] \in Nat /\ Honest(c) /\ Granted(c) /\ ExecInv
  BY CallTyped
<1>2. call[c].at = "inspect" /\ call[c].done = 0 /\ call[c].attempt = 0
      /\ call[c].status = "none"
  BY <1>1 DEF Inspect, At, Honest
<1> DEFINE k1 == Settled(c, "denied")
           k2 == [call[c] EXCEPT !.at = "decide"]
<1>3. /\ k1 \in CallRec /\ k1.at = "record" /\ k1.status = "denied" /\ k1.done = 0
      /\ k1.req = call[c].req /\ k1.manifest = call[c].manifest
  BY <1>1, <1>2 DEF CallRec, Settled
<1>4. /\ k2 \in CallRec /\ k2.at = "decide" /\ k2.status = "none" /\ k2.done = 0
      /\ k2.attempt = 0 /\ k2.req = call[c].req /\ k2.manifest = call[c].manifest
  BY <1>1, <1>2 DEF CallRec
<1>5. OneCall(c, k1, audit[c]) \/ OneCall(c, k2, audit[c])
  BY <1>1 DEF Inspect, OneCall, ExecInv
<1>6. effects' = effects
  BY DEF Inspect
<1> HIDE DEF k1, k2
<1> QED BY <1>2, <1>3, <1>4, <1>5, <1>6, CallGoes

LEMMA DecideKeeps ==
    ASSUME IInv, NEW c \in Callers, Decide(c), UNCHANGED mcpVars
    PROVE  ExecInv'
<1>1. call[c] \in CallRec /\ audit[c] \in Nat /\ Honest(c) /\ Granted(c) /\ ExecInv
  BY CallTyped
<1>2. call[c].at = "decide" /\ call[c].done = 0 /\ call[c].attempt = 0
      /\ call[c].status = "none"
  BY <1>1 DEF Decide, At, Honest
<1>3. PICK req \in call[c].req, m \in call[c].manifest, answer \in Answers :
        LET d == Evaluate(PolicyRequest(req, m), answer)
        IN call' = [call EXCEPT ![c] =
             IF d = "deny" THEN Settled(c, "denied")
             ELSE IF d = "require_approval" \/ m.approval
                  THEN [call[c] EXCEPT !.at = "ask", !.decision = d]
                  ELSE [call[c] EXCEPT !.at = "invoke", !.decision = d]]
  BY <1>1 DEF Decide, ExecInv
<1> DEFINE d == Evaluate(PolicyRequest(req, m), answer)
           k1 == Settled(c, "denied")
           k2 == [call[c] EXCEPT !.at = "ask", !.decision = d]
           k3 == [call[c] EXCEPT !.at = "invoke", !.decision = d]
<1>4. d \in Decisions
  BY EvaluateDecides
<1>5. \/ OneCall(c, k1, audit[c]) \/ OneCall(c, k2, audit[c])
      \/ OneCall(c, k3, audit[c]) /\ d \in Allowed /\ ~m.approval
  <2>1. audit' = [audit EXCEPT ![c] = audit[c]]
    BY <1>1 DEF Decide, ExecInv
  <2> QED BY <1>3, <1>4, <2>1 DEF OneCall, Decisions, Allowed
<1> HIDE DEF d
<1>6. /\ k1 \in CallRec /\ k1.at = "record" /\ k1.status = "denied" /\ k1.done = 0
      /\ k1.req = call[c].req /\ k1.manifest = call[c].manifest
  BY <1>1, <1>2 DEF CallRec, Settled
<1>7. /\ k2 \in CallRec /\ k2.at = "ask" /\ k2.status = "none" /\ k2.done = 0
      /\ k2.attempt = 0 /\ k2.req = call[c].req /\ k2.manifest = call[c].manifest
  BY <1>1, <1>2, <1>4 DEF CallRec
<1>8. /\ k3 \in CallRec /\ k3.at = "invoke" /\ k3.status = "none" /\ k3.done = 0
      /\ k3.attempt = 0 /\ k3.req = call[c].req /\ k3.manifest = call[c].manifest
      /\ k3.decision = d
  BY <1>1, <1>2, <1>4 DEF CallRec
<1>9. ~m.approval => \A n \in call[c].manifest : ~n.approval /\ 0 < Attempts(n)
  BY <1>1, ExecutorAssumed DEF Honest
<1>10. effects' = effects
  BY DEF Decide
<1> HIDE DEF k1, k2, k3
<1> QED BY <1>2, <1>5, <1>6, <1>7, <1>8, <1>9, <1>10, CallGoes
LEMMA AskKeeps ==
    ASSUME IInv, NEW c \in Callers, AskApproval(c) \/ InvokeNothing(c), UNCHANGED mcpVars
    PROVE  ExecInv'
<1>1. call[c] \in CallRec /\ audit[c] \in Nat /\ Honest(c) /\ Granted(c) /\ ExecInv
  BY CallTyped
<1>2. /\ call[c].at # "idle"
      /\ AskApproval(c) => call[c].done = 0
  BY <1>1 DEF AskApproval, InvokeNothing, At, Honest
<1>3. ASSUME NEW s \in {"approval_required", "error"}
      PROVE  /\ Settled(c, s) \in CallRec /\ Settled(c, s).at = "record"
             /\ Settled(c, s).status = s /\ Settled(c, s).done = call[c].done
             /\ Settled(c, s).req = call[c].req
             /\ Settled(c, s).manifest = call[c].manifest
  BY <1>1 DEF CallRec, Settled
<1>4. /\ audit' = [audit EXCEPT ![c] = audit[c]] /\ effects' = effects
      /\ \/ AskApproval(c) /\ call' = [call EXCEPT ![c] = Settled(c, "approval_required")]
         \/ call' = [call EXCEPT ![c] = Settled(c, "error")]
  BY <1>1 DEF AskApproval, InvokeNothing, ExecInv
<1>5. CASE AskApproval(c) /\ call' = [call EXCEPT ![c] = Settled(c, "approval_required")]
  <2> DEFINE k == Settled(c, "approval_required")
  <2>1. OneCall(c, k, audit[c])
    BY <1>4, <1>5 DEF OneCall
  <2>2. /\ k \in CallRec /\ k.at = "record" /\ k.status = "approval_required"
        /\ k.done = call[c].done /\ k.req = call[c].req /\ k.manifest = call[c].manifest
    BY <1>3
  <2> HIDE DEF k
  <2> QED BY <1>2, <1>4, <1>5, <2>1, <2>2, CallGoes
<1>6. CASE call' = [call EXCEPT ![c] = Settled(c, "error")]
  <2> DEFINE k == Settled(c, "error")
  <2>1. OneCall(c, k, audit[c])
    BY <1>4, <1>6 DEF OneCall
  <2>2. /\ k \in CallRec /\ k.at = "record" /\ k.status = "error"
        /\ k.done = call[c].done /\ k.req = call[c].req /\ k.manifest = call[c].manifest
    BY <1>3
  <2> HIDE DEF k
  <2> QED BY <1>2, <1>4, <2>1, <2>2, CallGoes
<1> QED BY <1>4, <1>5, <1>6

(* The invocation: what is called was allowed, by a manifest that asks for *)
(* no approval, and once more is still within the attempts.                *)
LEMMA InvokeKeeps ==
    ASSUME IInv, NEW c \in Callers, Invoke(c), UNCHANGED mcpVars
    PROVE  ExecInv'
<1>1. call[c] \in CallRec /\ audit[c] \in Nat /\ Honest(c) /\ Granted(c) /\ ExecInv
  BY CallTyped
<1>2. /\ call[c].at = "invoke" /\ call[c].status = "none" /\ call[c].decision \in Allowed
      /\ call[c].done = call[c].attempt /\ audit[c] = 0 /\ call[c].done \in Nat
      /\ \A m, n \in call[c].manifest : m = n
      /\ \A m \in call[c].manifest : ~m.approval /\ call[c].attempt < Attempts(m)
  BY <1>1 DEF Invoke, At, Honest, CallRec
<1>3. PICK req \in call[c].req, m \in call[c].manifest :
        /\ effects' = effects \cup {[capability |-> req.capability,
                                     decision |-> call[c].decision]}
        /\ \/ call' = [call EXCEPT ![c] = [Settled(c, "ok") EXCEPT !.done = @ + 1]]
           \/ call' = [call EXCEPT ![c] = [Settled(c, "error") EXCEPT !.done = @ + 1]]
           \/ call' = [call EXCEPT ![c] = AfterRaise(c, m)]
  BY DEF Invoke
<1> DEFINE more == call[c].done + 1
           k1 == [Settled(c, "ok") EXCEPT !.done = more]
           k2 == [Settled(c, "error") EXCEPT !.done = more]
           k3 == [call[c] EXCEPT !.attempt = more, !.done = more]
<1>4. /\ audit' = [audit EXCEPT ![c] = audit[c]]
      /\ \/ call' = [call EXCEPT ![c] = k1]
         \/ call' = [call EXCEPT ![c] = k2]
         \/ call[c].attempt + 1 < Attempts(m) /\ call' = [call EXCEPT ![c] = k3]
  <2>1. \A s : Settled(c, s).done = call[c].done
    BY <1>1 DEF Settled, CallRec
  <2>2. audit' = [audit EXCEPT ![c] = audit[c]]
    BY <1>1 DEF Invoke, ExecInv
  <2>3. /\ [Settled(c, "ok") EXCEPT !.done = @ + 1] = k1
        /\ [Settled(c, "error") EXCEPT !.done = @ + 1] = k2
        /\ [call[c] EXCEPT !.attempt = @ + 1, !.done = @ + 1] = k3
    BY <1>2, <2>1
  <2> HIDE DEF k1, k2, k3
  <2> QED BY <1>3, <2>2, <2>3 DEF AfterRaise
<1>0. more \in Nat
  BY <1>2
<1> HIDE DEF more
<1>5. /\ k1 \in CallRec /\ k1.at = "record" /\ k1.status = "ok"
      /\ k1.done = more
      /\ k1.req = call[c].req /\ k1.manifest = call[c].manifest
  BY <1>0, <1>1 DEF CallRec, Settled
<1>6. /\ k2 \in CallRec /\ k2.at = "record" /\ k2.status = "error"
      /\ k2.done = more
      /\ k2.req = call[c].req /\ k2.manifest = call[c].manifest
  BY <1>0, <1>1 DEF CallRec, Settled
<1>7. /\ k3 \in CallRec /\ k3.at = "invoke" /\ k3.status = "none"
      /\ k3.done = more /\ k3.attempt = more
      /\ k3.decision = call[c].decision
      /\ k3.req = call[c].req /\ k3.manifest = call[c].manifest
  BY <1>0, <1>1, <1>2 DEF CallRec
<1>8. accepted' = accepted
  BY DEF mcpVars
<1>9. EffectsConsented'
  <2>1. req.capability \in Tools => Consented(req.capability)
    BY <1>1, <1>2 DEF Granted
  <2> QED BY <1>1, <1>2, <1>3, <1>8, <2>1 DEF ExecInv, EffectsConsented, Consented, Allowed
<1>10. \A n \in call[c].manifest : n = m /\ call[c].done + 1 <= Attempts(n)
  BY <1>2, ExecutorAssumed
<1>11. ASSUME NEW k \in CallRec, call' = [call EXCEPT ![c] = k], k.at # "idle",
              k.req = call[c].req, k.manifest = call[c].manifest,
              k.done = call[c].done + 1,
              \/ k.at = "record" /\ k.status \in {"ok", "error"}
              \/ /\ k.at = "invoke" /\ k.status = "none" /\ k.decision = call[c].decision
                 /\ k.attempt = k.done /\ call[c].attempt + 1 < Attempts(m)
       PROVE ExecInv'
  <2>1. OneCall(c, k, audit[c])
    BY <1>4, <1>11 DEF OneCall
  <2>2. /\ call' \in [Callers -> CallRec] /\ audit' \in [Callers -> Nat]
        /\ call'[c] = k /\ audit'[c] = audit[c]
        /\ \A d \in Callers \ {c} : Honest(d)' /\ Granted(d)'
    BY <1>1, <1>11, <2>1, OthersHonest
  <2>3. Honest(c)'
    <3> HIDE DEF Allowed
    <3>1. \A n \in k.manifest : ~n.approval /\ n = m /\ k.done <= Attempts(n)
      BY <1>2, <1>10, <1>11
    <3> QED BY <1>2, <1>11, <2>2, <3>1 DEF Honest
  <2>4. Granted(c)'
    BY <1>1, <1>8, <1>11, <2>2 DEF Granted, Consented
  <2> QED BY <1>9, <2>2, <2>3, <2>4 DEF ExecInv
<1> HIDE DEF k1, k2, k3
<1> USE DEF more
<1> QED BY <1>2, <1>4, <1>5, <1>6, <1>7, <1>11

LEMMA RecordKeeps ==
    ASSUME IInv, NEW c \in Callers, Record(c), UNCHANGED mcpVars
    PROVE  ExecInv'
<1> DEFINE k == [call[c] EXCEPT !.at = "idle"]
<1>1. call[c] \in CallRec /\ audit[c] \in Nat /\ Honest(c) /\ Granted(c) /\ ExecInv
  BY CallTyped
<1>2. audit[c] = 0
  BY <1>1 DEF Record, At, Honest
<1>3. k \in CallRec /\ k.at = "idle" /\ k.req = call[c].req /\ k.manifest = call[c].manifest
      /\ k.done = call[c].done /\ k.status = call[c].status
  BY <1>1 DEF CallRec
<1>4. OneCall(c, k, 1) /\ effects' = effects
  BY <1>1, <1>2 DEF Record, OneCall, ExecInv
<1> HIDE DEF k
<1>5. call'[c] = k /\ audit'[c] = 1
  BY <1>1, <1>3, <1>4, OthersHonest
<1>6. Honest(c)'
  BY <1>1, <1>3, <1>5 DEF Honest
<1>7. accepted' = accepted
  BY DEF mcpVars
<1>8. Granted(c)'
  BY <1>1, <1>3, <1>5, <1>7 DEF Granted, Consented
<1> QED BY <1>1, <1>3, <1>4, <1>6, <1>8, QuietCall

-----------------------------------------------------------------------------
LEMMA AcceptedStays == McpNext => accepted \subseteq accepted'
<1>1. ASSUME NEW th \in Threads, Manage(th) PROVE accepted \subseteq accepted'
  BY <1>1 DEF Manage, AddServer, StageServer, TrustServer, Connect, ReadGrant, StageTool,
       CheckGrant, RegisterTool, RevokeTool, Unregister, GrantTool, FindTool, BlockServer,
       RemoveServer
<1> QED BY <1>1 DEF McpNext, Upgrade, Restart

LEMMA ManagedKeepsCalls == ExecInv /\ Managed => ExecInv'
<1> SUFFICES ASSUME ExecInv, Managed PROVE ExecInv'
  OBVIOUS
<1>1. accepted \subseteq accepted' /\ UNCHANGED executorVars
  BY AcceptedStays DEF Managed
<1>2. \A t : Consented(t) => Consented(t)'
  BY <1>1 DEF Consented
<1>3. EffectsConsented'
  BY <1>1 DEF ExecInv, EffectsConsented, executorVars
<1>4. \A c \in Callers : Honest(c)' /\ Granted(c)'
  BY <1>1, <1>2 DEF ExecInv, Honest, Granted, executorVars
<1> QED BY <1>1, <1>3, <1>4 DEF ExecInv, executorVars

LEMMA NextIInv == IInv /\ [Next]_vars => IInv'
<1> SUFFICES ASSUME IInv, [Next]_vars PROVE IInv'
  OBVIOUS
<1>1. CASE Managed
  BY <1>1, NextMcpInv, ManagedKeepsCalls DEF Managed, IInv
<1>2. CASE Executed
  <2>1. McpInv'
    BY <1>2 DEF Executed, IInv, mcpVars, McpInv, McpTypeOK, RecordOf, Consented
  <2>2. ASSUME NEW c \in Callers, NEW req \in Requests, Execute(c, req) PROVE ExecInv'
    BY <1>2, <2>2, ExecuteKeeps DEF Executed
  <2>3. ASSUME NEW c \in Callers,
               Inspect(c) \/ Decide(c) \/ AskApproval(c) \/ InvokeNothing(c)
               \/ Invoke(c) \/ Record(c)
        PROVE  ExecInv'
    BY <1>2, <2>3, InspectKeeps, DecideKeeps, AskKeeps, InvokeKeeps, RecordKeeps DEF Executed
  <2>4. ASSUME NEW req \in Requests, Resolve(req) PROVE ExecInv'
    <3>1. UNCHANGED <<call, audit, effects, accepted>>
      BY <1>2, <2>4 DEF Resolve, Executed, mcpVars
    <3> QED BY <3>1 DEF IInv, ExecInv, Honest, Granted, Consented, EffectsConsented
  <2>5. ExecInv'
    BY <1>2, <2>2, <2>3, <2>4 DEF Executed, ExecutorNext
  <2> QED BY <2>1, <2>5 DEF IInv
<1>3. CASE UNCHANGED vars
  BY <1>3 DEF vars, mcpVars, executorVars, IInv, McpInv, McpTypeOK, RecordOf, Consented,
              ExecInv, Honest, Granted, EffectsConsented
<1> QED BY <1>1, <1>2, <1>3 DEF Next

LEMMA InitIInv == Init => IInv
<1> SUFFICES ASSUME Init PROVE IInv
  OBVIOUS
<1>1. McpInv
  BY InitMcpInv DEF Init
<1>2. NoCall \in CallRec
  BY DEF NoCall, CallRec, Decisions
<1>3. call \in [Callers -> CallRec] /\ audit \in [Callers -> Nat]
  BY <1>2 DEF Init, ExecutorInit
<1>4. \A c \in Callers : Honest(c) /\ Granted(c)
  BY DEF Init, ExecutorInit, NoCall, Honest, Granted
<1>5. EffectsConsented
  BY DEF Init, ExecutorInit, EffectsConsented
<1> QED BY <1>1, <1>3, <1>4, <1>5 DEF IInv, ExecInv

(* The inductive invariant holds.                                          *)
THEOREM GovernedInvariance == Spec => []IInv
BY InitIInv, NextIInv, PTL DEF Spec

(* Whatever processes stage, trust, grant and revoke at once, a grant in   *)
(* force is one the user gave for that schema, and a trusted server has a  *)
(* config the user trusted.                                                *)
THEOREM GrantsAreInformed == Spec => []GrantIsInformed
<1>1. IInv => GrantIsInformed
  BY DEF IInv, McpInv, GrantIsInformed, Live, RecordOf
<1> QED BY <1>1, GovernedInvariance, PTL

(* No capability runs but by an allowing decision, and no MCP tool without *)
(* a grant of the user that asks for no approval, although a call carries  *)
(* the manifest it found when it began.                                    *)
THEOREM EffectsHaveConsent == Spec => []EffectsConsented
<1>1. IInv => EffectsConsented
  BY DEF IInv, ExecInv
<1> QED BY <1>1, GovernedInvariance, PTL

(* A call reports what it did and is in the audit log once.                *)
THEOREM CallsReportTruly == Spec => []ReportsWhatItDid
<1>1. IInv => ReportsWhatItDid
  BY DEF IInv, ExecInv, Honest, ReportsWhatItDid
<1> QED BY <1>1, GovernedInvariance, PTL
=============================================================================
