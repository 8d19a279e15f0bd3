--------------------------- MODULE MCGovernedTools --------------------------
EXTENDS GovernedTools, TLC

CONSTANTS api, console, a1, a2, k1, c1, c2, tool, scan, v1, v2, f1, f2

MCProcess == a1 :> api @@ a2 :> api @@ k1 :> console

\* An idempotent tool of the program.
MCBuiltin == scan :> [registered |-> TRUE, reachable |-> TRUE, type |-> "tool",
                      approval |-> FALSE, idempotent |-> TRUE]

Ask(name, context, operation, args) ==
    [capability |-> name, arguments |-> args, actor |-> "assistant",
     context |-> context, operation |-> operation, resource |-> "",
     suspicious |-> FALSE, fits |-> TRUE]

MCRequests ==
    { Ask(tool, "cli", "", "x"), Ask(scan, "cli", "", "x"),
      [Ask(scan, "cli", "", "y") EXCEPT !.fits = FALSE],
      [Ask(scan, "cli", "", "z") EXCEPT !.suspicious = TRUE],
      Ask(scan, "background", "", "x") }

\* Trust, grants and an update of the server around one call; a restart; calls
\* alone.
MCBudgets ==
    { [operations |-> 4, upgrades |-> 1, restarts |-> 0, calls |-> 1],
      [operations |-> 3, upgrades |-> 0, restarts |-> 1, calls |-> 1],
      [operations |-> 0, upgrades |-> 0, restarts |-> 0, calls |-> 4] }

McpSymmetry ==
    Permutations({v1, v2}) \cup Permutations({f1, f2}) \cup Permutations({c1, c2})

\* One judgement per way a call can go on.
MCAnswers == {"no_model", "allow", "require_approval"}
=============================================================================
