---------------------------- MODULE GovernedTools ---------------------------
(***************************************************************************)
(* The executor of one process with the MCP tools its manager registers:   *)
(* trust, grants and the server's tools change while calls are under way.  *)
(***************************************************************************)
EXTENDS McpServers

CONSTANTS
    Home,           \* the process of the executor
    Builtins,       \* capabilities of the program itself
    builtin,        \* their manifests
    Callers, Requests, Answers, SHELL, MAX_REPEAT, ATTEMPTS

VARIABLES call, last, repeats, approvals, audit, effects, calls

(* The registry as the executor sees it.  An MCP tool's type is            *)
(* mcp_server; it is never idempotent; its invoke_fn answers with an error *)
(* when the process has no client.                                         *)
Manifests ==
    [n \in Tools \cup Builtins |->
        IF n \in Builtins THEN builtin[n]
        ELSE [registered |-> registry[Home][n] # NotRegistered,
              reachable  |-> client[Home] # NoClient,
              type |-> "mcp_server", approval |-> registry[Home][n].approval,
              idempotent |-> FALSE]]

INSTANCE GovernedExecutor WITH manifests <- Manifests,
    Calls <- {b.calls : b \in Budgets}

ASSUME ToolsAssumption == ExecutorAssumption

(* A tool is registered as mcp_<server>_<tool>, which names no capability  *)
(* of the program.                                                         *)
ASSUME CapabilitiesAssumption ==
    /\ Home \in Processes
    /\ Tools \cap Builtins = {} /\ builtin \in [Builtins -> Manifest]
    /\ \A req \in Requests : req.capability \in Tools \cup Builtins

executorVars == <<call, last, repeats, approvals, audit, effects, calls>>

vars == <<mcpVars, executorVars>>

Init == McpInit /\ ExecutorInit /\ calls = budget.calls

Managed == McpNext /\ UNCHANGED executorVars

Executed == UNCHANGED mcpVars /\ ExecutorNext

Next == Managed \/ Executed

Spec == Init /\ [][Next]_vars

(* An MCP tool runs without anybody's approval only if the user once       *)
(* granted that tool without one, and a rule or the policy's model allowed *)
(* the call.                                                               *)
EffectsConsented ==
    \A e \in effects :
        /\ e.decision \in {"allow", "allow_with_audit"}
        /\ e.capability \in Tools =>
              \E a \in accepted : a.tool = e.capability /\ ~a.approval
=============================================================================
