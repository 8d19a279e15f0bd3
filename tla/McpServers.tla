----------------------------- MODULE McpServers -----------------------------
(***************************************************************************)
(* mcp/trust.py and mcp/manager.py: one MCP server, the user's trust in it *)
(* and the grants of its tools, kept in SQLite, and the processes that     *)
(* connect to it and register its tools as capabilities.                   *)
(*                                                                         *)
(* Each process has one MCPServerManager: the API server calls its from a  *)
(* thread pool, the Console calls its own from one event loop.  They share *)
(* the tables mcp_servers and mcp_tool_grants; client and registry are     *)
(* their own.  A step is one SQL transaction, or the work between two.     *)
(* A version stands for the hash of a tool's input schema, a config for    *)
(* the fingerprint of a server's command, arguments, environment and cwd.  *)
(* Servers share nothing, so one is enough.  sync() does nothing: nothing  *)
(* in the program calls set_config_dir.                                    *)
(***************************************************************************)
EXTENDS Naturals, FiniteSets

CONSTANTS
    Processes, Threads,     \* who runs a manager, and who calls it
    process,                \* the process of a thread
    Tools, Versions, Configs,
    NoConfig, NoVersion,
    Budgets                 \* bounds: calls of the managers' methods, changes of
                            \* the server's tools, restarts of a process

ASSUME McpAssumption ==
    /\ \A th \in Threads : process[th] \in Processes
    /\ NoConfig \notin Configs /\ NoVersion \notin Versions
    /\ \A b \in Budgets : {b.operations, b.upgrades, b.restarts} \subseteq Nat

VARIABLES
    server,     \* the row of mcp_servers
    grants,     \* the rows of mcp_tool_grants
    offers,     \* what the server's program answers to tools/list
    client,     \* _clients[name].tools of a process, or none
    pending,    \* _pending_configs[name] of a process
    registry,   \* the process's CapabilityRegistry: the tool's version and
                \* approval_required, or none
    job,        \* what a thread is at
    trusted,    \* history: the configs the user has trusted
    accepted,   \* history: what the user has granted
    budget      \* what is left of the bounds, one of Budgets at first

mcpVars == <<server, grants, offers, client, pending, registry, job, trusted,
             accepted, budget>>

TrustStatus == {"absent", "pending", "trusted", "blocked"}

NoGrant == [version |-> NoVersion, approval |-> TRUE, granted |-> FALSE,
            revoked |-> FALSE]

NotRegistered == [version |-> NoVersion, approval |-> TRUE]

NoClient == [t \in Tools |-> NoVersion]

Idle == [at |-> "idle", config |-> NoConfig, status |-> "absent", tool |-> {},
         todo |-> {}, changed |-> FALSE, tools |-> NoClient]

\* granted_at IS NOT NULL AND revoked_at IS NULL
Live(t) == grants[t].granted /\ ~grants[t].revoked

Known(t) == grants[t].version # NoVersion

Start(th, next) ==
    /\ job[th] = Idle
    /\ budget.operations > 0
    /\ budget' = [budget EXCEPT !.operations = @ - 1]
    /\ job' = [job EXCEPT ![th] = next]

Goto(th, next) == job' = [job EXCEPT ![th] = next] /\ UNCHANGED budget

-----------------------------------------------------------------------------
(* add_server: stage_server reads the row, then writes it; a server whose  *)
(* config is the one on record keeps its status, any other is pending and  *)
(* loses its grants.                                                       *)

KeptStatus(config) ==
    IF server.status # "absent" /\ server.config = config
    THEN server.status ELSE "pending"

AddServer(th, config) ==
    /\ Start(th, [Idle EXCEPT !.at = "stage", !.config = config,
                              !.status = KeptStatus(config)])
    /\ UNCHANGED <<server, grants, offers, client, pending, registry, trusted,
                   accepted>>

RevokeAll == [t \in Tools |-> [grants[t] EXCEPT !.revoked = Known(t)]]

StageServer(th) ==
    /\ job[th].at = "stage"
    /\ server' = [status |-> job[th].status, config |-> job[th].config]
    /\ grants' = IF job[th].status = "pending" THEN RevokeAll ELSE grants
    /\ pending' = [pending EXCEPT ![process[th]] = job[th].config]
    /\ Goto(th, IF job[th].status = "trusted"
                THEN [job[th] EXCEPT !.at = "connect"] ELSE Idle)
    /\ UNCHANGED <<offers, client, registry, trusted, accepted>>

(* trust_server: the row is trusted whatever its config is; the config     *)
(* that is connected is the process's own, or the row's.                   *)
TrustServer(th) ==
    /\ server.status # "absent"
    /\ Start(th, [Idle EXCEPT !.at = "connect",
                              !.config = IF pending[process[th]] # NoConfig
                                         THEN pending[process[th]]
                                         ELSE server.config])
    /\ server' = [server EXCEPT !.status = "trusted"]
    /\ trusted' = trusted \cup {server.config}
    /\ UNCHANGED <<grants, offers, client, pending, registry, accepted>>

(* _connect_server: a new client replaces the old one, whose capabilities  *)
(* stay registered; then each tool is staged and, with a live grant for    *)
(* its schema, registered.                                                 *)
Connect(th) ==
    /\ job[th].at = "connect"
    /\ \/ /\ client' = [client EXCEPT ![process[th]] = offers]
          /\ Goto(th, [job[th] EXCEPT !.at = "tools", !.todo = Tools,
                                      !.tools = offers])
       \/ \* the command cannot be started
          /\ Goto(th, Idle)
          /\ UNCHANGED client
    /\ UNCHANGED <<server, grants, offers, pending, registry, trusted, accepted>>

(* _connect_server, one tool after the other: stage_tool reads the row and *)
(* rewrites it when the schema is another one; get_tool_grant reads it     *)
(* again; _register_tool reads it a third time.                            *)
NextTool(th) ==
    IF job[th].todo = {} THEN Idle ELSE [job[th] EXCEPT !.at = "tools"]

ReadGrant(th, t) ==
    /\ job[th].at = "tools" /\ t \in job[th].todo
    /\ Goto(th, [job[th] EXCEPT !.at = "stage_tool", !.tool = {t},
                                !.todo = @ \ {t},
                                !.changed = grants[t].version # job[th].tools[t]])
    /\ UNCHANGED <<server, grants, offers, client, pending, registry, trusted,
                   accepted>>

\* Mutant of Restaged: what was granted stays granted.
RestagedGranted(t, v) == [grants[t] EXCEPT !.version = v, !.revoked = FALSE]

Restaged(t, v) == [NoGrant EXCEPT !.version = v]

StageTool(th, t) ==
    /\ job[th].at = "stage_tool" /\ job[th].tool = {t}
    /\ grants' = IF job[th].changed
                 THEN [grants EXCEPT ![t] = Restaged(t, job[th].tools[t])]
                 ELSE grants
    /\ Goto(th, [job[th] EXCEPT !.at = "check"])
    /\ UNCHANGED <<server, offers, client, pending, registry, trusted, accepted>>

CheckGrant(th, t) ==
    /\ job[th].at = "check" /\ job[th].tool = {t}
    /\ Goto(th, IF Live(t) /\ grants[t].version = job[th].tools[t]
                THEN [job[th] EXCEPT !.at = "register"] ELSE NextTool(th))
    /\ UNCHANGED <<server, grants, offers, client, pending, registry, trusted,
                   accepted>>

\* Mutant of Registered: without a live grant no approval is asked for.
RegisteredOpen(t, v) ==
    [version |-> v, approval |-> Live(t) /\ grants[t].approval]

Registered(t, v) ==
    [version |-> v, approval |-> ~Live(t) \/ grants[t].approval]

RegisterTool(th, t) ==
    /\ job[th].at = "register" /\ job[th].tool = {t}
    /\ registry' = [registry EXCEPT ![process[th]][t] =
                        Registered(t, job[th].tools[t])]
    /\ Goto(th, NextTool(th))
    /\ UNCHANGED <<server, grants, offers, client, pending, trusted, accepted>>

-----------------------------------------------------------------------------
(* grant_tool: only the schema on record can be granted; a process that is *)
(* connected then registers its client's tool.                             *)
Grantable(t, v) == Known(t) /\ grants[t].version = v

GrantTool(th, t, v, approval) ==
    /\ Grantable(t, v)
    /\ Start(th, [Idle EXCEPT !.at = "granted", !.tool = {t}])
    /\ grants' = [grants EXCEPT ![t].approval = approval, ![t].granted = TRUE,
                                ![t].revoked = FALSE]
    /\ accepted' = accepted \cup {[tool |-> t, version |-> v, approval |-> approval]}
    /\ UNCHANGED <<server, offers, client, pending, registry, trusted>>

FindTool(th) ==
    /\ job[th].at = "granted"
    /\ Goto(th, IF client[process[th]] = NoClient THEN Idle
                ELSE [job[th] EXCEPT !.at = "register",
                                     !.tools = client[process[th]]])
    /\ UNCHANGED <<server, grants, offers, client, pending, registry, trusted,
                   accepted>>

(* revoke_tool: a grant that is revoked already is not found, and its      *)
(* capability is then left registered.                                     *)
RevokeTool(th, t) ==
    /\ Known(t) /\ ~grants[t].revoked
    /\ Start(th, [Idle EXCEPT !.at = "unregister", !.tool = {t}])
    /\ grants' = [grants EXCEPT ![t].revoked = TRUE]
    /\ UNCHANGED <<server, offers, client, pending, registry, trusted, accepted>>

Unregister(th, t) ==
    /\ job[th].at = "unregister" /\ job[th].tool = {t}
    /\ registry' = [registry EXCEPT ![process[th]][t] = NotRegistered]
    /\ Goto(th, Idle)
    /\ UNCHANGED <<server, grants, offers, client, pending, trusted, accepted>>

BlockServer(th) ==
    /\ server.status # "absent"
    /\ Start(th, [Idle EXCEPT !.at = "remove"])
    /\ server' = [server EXCEPT !.status = "blocked"]
    /\ grants' = RevokeAll
    /\ UNCHANGED <<offers, client, pending, registry, trusted, accepted>>

\* remove_server, of block_server or of a request to disconnect.
RemoveServer(th) ==
    /\ \/ job[th].at = "remove" /\ Goto(th, Idle)
       \/ Start(th, Idle)
    /\ client' = [client EXCEPT ![process[th]] = NoClient]
    /\ registry' = [registry EXCEPT ![process[th]] = [t \in Tools |-> NotRegistered]]
    /\ UNCHANGED <<server, grants, offers, pending, trusted, accepted>>

-----------------------------------------------------------------------------
(* The server's program is updated; a process ends and starts again.       *)
Upgrade(t, v) ==
    /\ budget.upgrades > 0 /\ v # offers[t]
    /\ offers' = [offers EXCEPT ![t] = v]
    /\ budget' = [budget EXCEPT !.upgrades = @ - 1]
    /\ UNCHANGED <<server, grants, client, pending, registry, job, trusted, accepted>>

Restart(p) ==
    /\ budget.restarts > 0
    /\ client' = [client EXCEPT ![p] = NoClient]
    /\ pending' = [pending EXCEPT ![p] = NoConfig]
    /\ registry' = [registry EXCEPT ![p] = [t \in Tools |-> NotRegistered]]
    /\ job' = [th \in Threads |-> IF process[th] = p THEN Idle ELSE job[th]]
    /\ budget' = [budget EXCEPT !.restarts = @ - 1]
    /\ UNCHANGED <<server, grants, offers, trusted, accepted>>

McpInit ==
    /\ server = [status |-> "absent", config |-> NoConfig]
    /\ grants = [t \in Tools |-> NoGrant]
    /\ offers \in {[t \in Tools |-> v] : v \in Versions}
    /\ client = [p \in Processes |-> NoClient]
    /\ pending = [p \in Processes |-> NoConfig]
    /\ registry = [p \in Processes |-> [t \in Tools |-> NotRegistered]]
    /\ job = [th \in Threads |-> Idle]
    /\ trusted = {} /\ accepted = {}
    /\ budget \in Budgets

Manage(th) ==
    \/ \E c \in Configs : AddServer(th, c)
    \/ StageServer(th) \/ TrustServer(th) \/ Connect(th)
    \/ \E t \in Tools :
          \/ ReadGrant(th, t) \/ StageTool(th, t) \/ CheckGrant(th, t)
          \/ RegisterTool(th, t) \/ RevokeTool(th, t) \/ Unregister(th, t)
          \/ \E v \in Versions, approval \in BOOLEAN : GrantTool(th, t, v, approval)
    \/ FindTool(th) \/ BlockServer(th) \/ RemoveServer(th)

McpNext ==
    \/ \E th \in Threads : Manage(th)
    \/ \E t \in Tools, v \in Versions : Upgrade(t, v)
    \/ \E p \in Processes : Restart(p)

-----------------------------------------------------------------------------
(* A grant that is in force is one the user gave, for the very schema and  *)
(* with the very approval rule on record: no restaging by any process, no  *)
(* change of the server's config and no race between them leaves a grant   *)
(* standing for a schema the user has not seen, and a server that is       *)
(* trusted has a config the user trusted, although add_server writes a     *)
(* status it read before.                                                  *)
GrantIsInformed ==
    /\ server.status = "trusted" => server.config \in trusted
    /\ \A t \in Tools : Live(t) =>
           [tool |-> t, version |-> grants[t].version,
            approval |-> grants[t].approval] \in accepted

=============================================================================
