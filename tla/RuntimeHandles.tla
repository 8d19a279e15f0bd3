---------------------------- MODULE RuntimeHandles ----------------------------
(***************************************************************************)
(* KernelManager of the Console: the kernel and the MCP server manager are *)
(* built when a thread first asks for them, on one capability registry,    *)
(* and dropped by reset (a restore, the end of the server) while turns     *)
(* run.  Both getters look before they take the lock and look again        *)
(* inside; what they return is read when the lock is free again.           *)
(***************************************************************************)
EXTENDS Naturals, FiniteSets

CONSTANTS
    Threads,
    Servers,      \* MCP servers that can be added
    AskBound,     \* bound: calls of a getter
    ResetBound    \* bound: resets

ASSUME HandlesAssumption == AskBound \in Nat /\ ResetBound \in Nat

VARIABLES
    kernel,       \* _kernel and _mcp_manager: on which registry, by whom, and
    manager,      \* after how many resets they were built
    registry,     \* _cap_registry, by number
    built,        \* _built
    lock,         \* who holds the lock
    connected,    \* servers with a client and tools, and the manager they belong to
    thread,       \* what each thread is doing
    asks, begun, ended,   \* calls of a getter, resets begun and ended
    made          \* the kernels and managers ever built (history)

handleVars ==
    <<kernel, manager, registry, built, lock, connected, thread, asks, begun, ended, made>>

Missing == [what |-> "none", on |-> 0]

Object(what, r, t) == [what |-> what, on |-> r, by |-> t, era |-> begun]

NotAsking == [pc |-> "idle"]

\* The handle of the process is opened before the manager; nothing is built.
HandlesInit ==
    /\ kernel = Missing /\ manager = Missing /\ registry = 0 /\ built = FALSE
    /\ lock = {} /\ connected = {}
    /\ thread = [t \in Threads |-> NotAsking]
    /\ asks = 0 /\ begun = 0 /\ ended = 0 /\ made = {}

Is(t, pc) == thread[t].pc = pc

Move(t, pc) == thread' = [thread EXCEPT ![t].pc = pc]

Placed(what) == IF what = "kernel" THEN kernel ELSE manager

Free == lock = {}

-----------------------------------------------------------------------------
(* get_kernel, get_mcp_manager *)

Ask(t, what) ==
    /\ Is(t, "idle") /\ asks < AskBound
    /\ asks' = asks + 1
    /\ thread' = [thread EXCEPT ![t] =
                    [pc |-> "look", want |-> what, got |-> Missing, since |-> ended]]
    /\ UNCHANGED <<kernel, manager, registry, built, lock, connected, begun, ended, made>>

\* get_kernel looks at _built, get_mcp_manager at the manager itself.
Stands(what) == IF what = "kernel" THEN built ELSE manager # Missing

LookFirst(t) ==
    /\ Is(t, "look")
    /\ Move(t, IF Stands(thread[t].want) THEN "take" ELSE "wait")
    /\ UNCHANGED <<kernel, manager, registry, built, lock, connected, asks, begun, ended, made>>

\* get_kernel without the second look.
LookOnce(t) ==
    /\ Is(t, "wait") /\ Free
    /\ lock' = {t}
    /\ Move(t, "make")
    /\ UNCHANGED <<kernel, manager, registry, built, connected, asks, begun, ended, made>>

LookAgain(t) ==
    /\ Is(t, "wait") /\ Free
    /\ lock' = {t}
    /\ Move(t, IF Stands(thread[t].want) THEN "leave" ELSE "make")
    /\ UNCHANGED <<kernel, manager, registry, built, connected, asks, begun, ended, made>>

\* The registry that the other builder left, or a new one.
SharedRegistry == IF registry = 0 THEN begun + 1 ELSE registry

\* _mcp_manager is assigned and _built after it; a manager is there at once.
Make(t) ==
    /\ Is(t, "make")
    /\ LET what == thread[t].want
           object == Object(what, SharedRegistry, t)
       IN  /\ registry' = SharedRegistry
           /\ made' = made \cup {object}
           /\ IF what = "kernel" THEN kernel' = object /\ Move(t, "mark") /\ UNCHANGED manager
              ELSE manager' = object /\ Move(t, "leave") /\ UNCHANGED kernel
    /\ UNCHANGED <<built, lock, connected, asks, begun, ended>>

\* No adapter and no way to build one, before the registry; or an error after it.
\* The caller gets the error, and the next one tries anew.
MakeFails(t) ==
    /\ Is(t, "make") /\ thread[t].want = "kernel"
    /\ registry' \in {registry, SharedRegistry}
    /\ lock' = {}
    /\ thread' = [thread EXCEPT ![t] = NotAsking]
    /\ UNCHANGED <<kernel, manager, built, connected, asks, begun, ended, made>>

Mark(t) ==
    /\ Is(t, "mark")
    /\ built' = TRUE
    /\ Move(t, "leave")
    /\ UNCHANGED <<kernel, manager, registry, lock, connected, asks, begun, ended, made>>

Leave(t) ==
    /\ Is(t, "leave")
    /\ lock' = {}
    /\ Move(t, "take")
    /\ UNCHANGED <<kernel, manager, registry, built, connected, asks, begun, ended, made>>

\* return self._kernel: what is there now.
Take(t) ==
    /\ Is(t, "take")
    /\ thread' = [thread EXCEPT ![t].got = Placed(thread[t].want), ![t].pc = "use"]
    /\ UNCHANGED <<kernel, manager, registry, built, lock, connected, asks, begun, ended, made>>

\* A turn is run with the kernel, or a server is added to the manager, that the
\* thread was given, in place or not.
Use(t) ==
    /\ Is(t, "use")
    /\ IF thread[t].want = "manager" /\ thread[t].got # Missing
       THEN \E s \in Servers : connected' = connected \cup {[server |-> s, manager |-> thread[t].got]}
       ELSE UNCHANGED connected
    /\ thread' = [thread EXCEPT ![t] = NotAsking]
    /\ UNCHANGED <<kernel, manager, registry, built, lock, asks, begun, ended, made>>

-----------------------------------------------------------------------------
(* reset *)

\* The servers of the manager in place are removed one by one; the first error
\* ends the removal and is only logged.
RemoveServers(t) ==
    /\ Is(t, "idle") /\ Free /\ begun < ResetBound
    /\ lock' = {t} /\ begun' = begun + 1
    /\ \E kept \in SUBSET {c \in connected : c.manager = manager} :
          connected' = {c \in connected : c.manager # manager} \cup kept
    /\ manager' = Missing
    /\ thread' = [thread EXCEPT ![t] = [pc |-> "drop"]]
    /\ UNCHANGED <<kernel, registry, built, asks, ended, made>>

DropKernel(t) ==
    /\ Is(t, "drop")
    /\ kernel' = Missing
    /\ Move(t, "forget")
    /\ UNCHANGED <<manager, registry, built, lock, connected, asks, begun, ended, made>>

\* Then the registry and _built, and the global database handle, which no request
\* of the Console uses.
Forget(t) ==
    /\ Is(t, "forget")
    /\ registry' = 0 /\ built' = FALSE
    /\ lock' = {} /\ ended' = ended + 1
    /\ thread' = [thread EXCEPT ![t] = NotAsking]
    /\ UNCHANGED <<kernel, manager, connected, asks, begun, made>>

HandlesStep ==
    \E t \in Threads :
        \/ \E what \in {"kernel", "manager"} : Ask(t, what)
        \/ LookFirst(t) \/ LookAgain(t) \/ Make(t) \/ MakeFails(t) \/ Mark(t) \/ Leave(t)
        \/ Take(t) \/ Use(t) \/ RemoveServers(t) \/ DropKernel(t) \/ Forget(t)

-----------------------------------------------------------------------------
(* Properties *)

(* Turns and MCP management that run at the same time serve one set of     *)
(* tools, whatever is built, fails and is reset beside them:               *)
(* - between two resets at most one kernel and one manager are built;      *)
(* - what stands in place stands on the registry in place, and the tools   *)
(*   of that registry are of servers of the manager in place;              *)
(* - a thread is given what was built since the last reset that had ended  *)
(*   when it asked, or nothing, and nothing only when another reset began. *)
HandlesAgree ==
    /\ \A a, b \in made : a.what = b.what /\ a.era = b.era => a = b
    /\ Free =>
         /\ built <=> kernel # Missing
         /\ \A object \in {kernel, manager} \ {Missing} : object.on = registry
         /\ \A c \in connected : c.manager.on = registry => c.manager = manager
    /\ \A t \in Threads : Is(t, "use") =>
         IF thread[t].got = Missing THEN begun > thread[t].since
         ELSE thread[t].got \in made /\ thread[t].got.era >= thread[t].since

=============================================================================
