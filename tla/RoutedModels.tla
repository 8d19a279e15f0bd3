----------------------------- MODULE RoutedModels -----------------------------
(***************************************************************************)
(* RoutedModelAdapter: threads of one process (turns, skill runs, memory   *)
(* extraction, policy questions) call models through one router at the     *)
(* same time.  A call considers the candidates one by one, asks the        *)
(* eligible ones in order until one answers, and reports each answer to    *)
(* the breakers, which no lock protects.  report_failure writes three      *)
(* fields one after the other; report_success replaces the whole object,   *)
(* so a report that began before goes on writing into the dropped one.     *)
(***************************************************************************)
EXTENDS Integers, Sequences, FiniteSets, FiniteSetsExt, SequencesExt

(***************************************************************************)
(* The choice of a model (models/router.py): which candidates may serve a  *)
(* request, in which order they are asked, and the circuit breaker kept    *)
(* for each of them.  Candidates are numbered in the order of their ids.   *)
(***************************************************************************)

CONSTANTS
    Candidates,         \* the registered candidates, numbers in the order of their ids
    Profile,            \* what the configuration says of each candidate
    FailureThreshold,   \* failures in a row that open a breaker, 3 in the code
    RecoverySeconds     \* how long a breaker stays open, 30 in the code

ASSUME RouterAssumption ==
    /\ Candidates \subseteq Nat /\ IsFiniteSet(Candidates) /\ Candidates # {}
    /\ FailureThreshold \in Nat \ {0} /\ RecoverySeconds \in Nat

--------------------------------------------------------------------------------
(* Routing. *)

EstimatedCost(c, r) == r.inputTokens * Profile[c].inputCost + r.maxOutput * Profile[c].outputCost

RoleServed(c, r) ==
    \/ r.role = "" \/ r.role \in Profile[c].roles
    \/ r.chatFallback /\ Profile[c].roles = {"chat"}

\* The request alone lets the candidate serve; limits that are not set are absent.
Eligible(c, r) ==
    /\ Profile[c].enabled
    /\ r.capabilities \subseteq Profile[c].capabilities
    /\ r.modalities \subseteq Profile[c].modalities
    /\ r.formats \subseteq Profile[c].formats
    /\ RoleServed(c, r)
    /\ r.strict /\ r.preferred # <<>> => \E i \in DOMAIN r.preferred : r.preferred[i] = c
    /\ r.inputTokens + r.maxOutput <= Profile[c].window
    /\ Profile[c].quality >= r.minQuality
    /\ \A limit \in r.maxLatency : Profile[c].latency <= limit
    /\ \A limit \in r.maxCost : EstimatedCost(c, r) <= limit

PreferredIndex(c, r) ==
    LET places == {i \in DOMAIN r.preferred : r.preferred[i] = c}
    IN  IF places = {} THEN 9999 ELSE Min(places)

HealthRank(status) ==
    CASE status = "healthy" -> 0 [] status = "probing" -> 1
      [] status = "degraded" -> 2 [] status = "unhealthy" -> 3

Bit(condition) == IF condition THEN 1 ELSE 0

SortKey(c, status, r) ==
    LET sameProvider == r.provider # "" /\ Profile[c].provider = r.provider
        sameModel    == /\ r.model # "" /\ Profile[c].model = r.model
                        /\ r.provider = "" \/ Profile[c].provider = r.provider
    IN  << Bit(~sameModel), Bit(~sameProvider), PreferredIndex(c, r),
           Cardinality(Profile[c].modalities \ r.modalities),
           Cardinality(Profile[c].capabilities \ r.capabilities),
           HealthRank(status), Profile[c].priority, - Profile[c].quality,
           EstimatedCost(c, r), Profile[c].latency, c >>

Precedes(k, l) ==
    \E i \in DOMAIN k : k[i] < l[i] /\ \A j \in 1 .. (i - 1) : k[j] = l[j]

--------------------------------------------------------------------------------
(* The breaker of a candidate.  shutFor is what is left of the time until  *)
(* opened_until, so the clock itself need not be kept.                     *)

Fresh == [status |-> "healthy", failures |-> 0, shutFor |-> 0]

LookedNever(h) == h

\* A breaker whose time is over lets the candidate be tried; looking at it changes it.
Looked(h) == IF h.status = "unhealthy" /\ h.shutFor = 0 THEN [h EXCEPT !.status = "probing"] ELSE h

SucceededStill(h) == [h EXCEPT !.status = "healthy"]

Succeeded(h) == Fresh

Passed(h) == [h EXCEPT !.shutFor = Max({0, @ - 1})]

--------------------------------------------------------------------------------
CONSTANTS
    Callers,        \* the threads that call models
    Requests,       \* the requests they make
    Textual,        \* candidates whose adapter puts a broken stream into the text (openai_adapter.py)
    Unstreamed,     \* candidates whose adapter cannot stream
    MaxChunks       \* bound: chunks of one stream

ASSUME ProfileAssumption ==
    \A c \in Candidates :
        /\ {Profile[c].priority, Profile[c].quality, Profile[c].latency,
            Profile[c].inputCost, Profile[c].outputCost} \subseteq Int
        /\ IsFiniteSet(Profile[c].capabilities) /\ IsFiniteSet(Profile[c].modalities)

ASSUME RequestAssumption ==
    \A r \in Requests : /\ {r.inputTokens, r.maxOutput} \subseteq Nat
                        /\ r.preferred \in Seq(Candidates)

VARIABLES
    health,     \* candidate -> its breaker
    call,       \* caller -> the call it makes
    inARow      \* candidate -> failures reported since its last success, up to the threshold

routerVars == <<health, call, inARow>>

Idle == [ pc |-> "idle", stream |-> FALSE, request |-> CHOOSE r \in Requests : TRUE,
          ahead |-> {}, status |-> <<>>, order |-> <<>>, next |-> 1,
          chunks |-> 0, heard |-> {}, count |-> 0, held |-> FALSE ]

\* What the configuration settles once and for all: whom a request may be served by, and how
\* the candidates of each health compare for it.
Serve == [r \in Requests |-> {c \in Candidates : Eligible(c, r)}]

Key == [r \in Requests |-> [c \in Candidates |-> [status \in {"healthy", "degraded", "probing"} |->
            SortKey(c, status, r)]]]

\* The eligible candidates, whose health when considered is in status, in the order they are asked.
Ordered(r, status) ==
    LET before(c) == {d \in DOMAIN status : Precedes(Key[r][d][status[d]], Key[r][c][status[c]])}
    IN  [i \in 1 .. Cardinality(DOMAIN status) |->
            CHOOSE c \in DOMAIN status : Cardinality(before(c)) = i - 1]

Asking(t) == call[t].order[call[t].next]

RouterInit ==
    /\ health = [c \in Candidates |-> Fresh]
    /\ call = [t \in Callers |-> Idle]
    /\ inARow = [c \in Candidates |-> 0]

--------------------------------------------------------------------------------
(* Routing. *)

BeginCall(t) ==
    /\ call[t].pc \in {"idle", "failed"}
    /\ \E r \in Requests, stream \in BOOLEAN :
          call' = [call EXCEPT ![t] =
                      [Idle EXCEPT !.pc = "route", !.stream = stream, !.request = r, !.ahead = Candidates]]
    /\ UNCHANGED <<health, inARow>>

\* The decision, once every candidate is considered; without one the call ends in an error.
Decided(k) ==
    LET order == Ordered(k.request, k.status)
    IN  IF k.ahead # {} THEN k ELSE IF order = <<>> THEN Idle
        ELSE [Idle EXCEPT !.pc = "ask", !.stream = k.stream, !.order = order]

With(status, c, live) == [d \in DOMAIN status \cup {c} |-> IF d = c THEN live ELSE status[d]]

\* The next candidate by id; its health is looked at only when the request lets it serve.
Consider(t) ==
    /\ call[t].pc = "route"
    /\ \E c \in {Min(call[t].ahead)} :
       \E looked \in {Looked(health[c])}, may \in {c \in Serve[call[t].request]} :
          /\ health' = IF may THEN [health EXCEPT ![c] = looked] ELSE health
          /\ \E k \in {[call[t] EXCEPT
                !.ahead = @ \ {c},
                !.status = IF may /\ looked.status # "unhealthy" THEN With(@, c, looked.status) ELSE @]} :
                call' = [call EXCEPT ![t] = Decided(k)]
    /\ UNCHANGED inARow

--------------------------------------------------------------------------------
(* One candidate is asked. *)

Streaming(t) == call[t].stream /\ Asking(t) \notin Unstreamed

\* A chunk of a stream reaches the caller at once.
Chunk(t) ==
    /\ call[t].pc = "ask" /\ Streaming(t) /\ call[t].chunks < MaxChunks
    /\ call' = [call EXCEPT ![t].chunks = @ + 1, ![t].heard = @ \cup {Asking(t)}]
    /\ UNCHANGED <<health, inARow>>

\* The candidate has answered, which is reported: a broken stream too, when the adapter has put
\* the error into its text.
Answered(t) ==
    /\ call[t].pc = "ask"
    /\ LET c == Asking(t)
       IN  /\ health' = [health EXCEPT ![c] = Succeeded(@)]
           /\ inARow' = [inARow EXCEPT ![c] = 0]
           /\ call' = [s \in Callers |->
                  IF s = t THEN Idle
                  ELSE IF call[s].held /\ Asking(s) = c THEN [call[s] EXCEPT !.held = FALSE]
                  ELSE call[s]]

\* A textual adapter raises only before the stream opens.
MayRaise(t) == Streaming(t) /\ Asking(t) \in Textual => call[t].chunks = 0

\* It raised, or chat returned an error.  consecutive_failures += 1 follows: the count is read here and written in the next step.
Raised(t) ==
    /\ call[t].pc = "ask" /\ MayRaise(t)
    /\ call' = [call EXCEPT ![t].pc = "count",
                            ![t].count = health[Asking(t)].failures, ![t].held = TRUE]
    /\ inARow' = [inARow EXCEPT ![Asking(t)] = Min({FailureThreshold, @ + 1})]
    /\ UNCHANGED health

--------------------------------------------------------------------------------
(* The rest of report_failure. *)

\* Counts above the threshold all mean the same.
WriteCount(t) ==
    /\ call[t].pc = "count"
    /\ health' = IF call[t].held
                 THEN [health EXCEPT ![Asking(t)].failures = Min({FailureThreshold, call[t].count + 1})]
                 ELSE health
    /\ call' = [call EXCEPT ![t].pc = "status", ![t].count = 0]
    /\ UNCHANGED inARow

AfterFailureOn(k) ==
    [k EXCEPT !.held = FALSE, !.chunks = 0, !.next = @ + 1,
              !.pc = IF k.next = Len(k.order) THEN "failed" ELSE "ask"]

\* After output a stream ends with the error; before, the next candidate is asked.
AfterFailure(k) ==
    IF k.chunks > 0 THEN Idle
    ELSE [k EXCEPT !.held = FALSE, !.next = @ + 1, !.pc = IF k.next = Len(k.order) THEN "failed" ELSE "ask"]

Opens(h) == h.failures >= FailureThreshold

WriteStatus(t) ==
    /\ call[t].pc = "status"
    /\ LET c == Asking(t)
           opens == call[t].held /\ Opens(health[c])
       IN  /\ health' = IF call[t].held
                        THEN [health EXCEPT ![c].status = IF opens THEN "unhealthy" ELSE "degraded"]
                        ELSE health
           /\ call' = [call EXCEPT ![t] = IF opens THEN [@ EXCEPT !.pc = "until"] ELSE AfterFailure(@)]
    /\ UNCHANGED inARow

WriteUntil(t) ==
    /\ call[t].pc = "until"
    /\ health' = IF call[t].held THEN [health EXCEPT ![Asking(t)].shutFor = RecoverySeconds] ELSE health
    /\ call' = [call EXCEPT ![t] = AfterFailure(@)]
    /\ UNCHANGED inARow

\* The reader of a stream closes it: GeneratorExit is no Exception, nothing is reported.
Abandon(t) ==
    /\ call[t].pc = "ask" /\ call[t].chunks > 0
    /\ call' = [call EXCEPT ![t] = Idle]
    /\ UNCHANGED <<health, inARow>>

Tick ==
    /\ \E c \in Candidates : health[c].shutFor > 0
    /\ health' = [c \in Candidates |-> Passed(health[c])]
    /\ UNCHANGED <<call, inARow>>

--------------------------------------------------------------------------------

Call(t) ==
    \/ Consider(t) \/ Chunk(t) \/ Answered(t) \/ Raised(t)
    \/ WriteCount(t) \/ WriteStatus(t) \/ WriteUntil(t)

RouterNext == Tick \/ \E t \in Callers : BeginCall(t) \/ Abandon(t) \/ Call(t)

(* Time passes, a begun call goes on, and a provider's answer comes or the *)
(* request times out (timeout_seconds of every adapter).                   *)
RouterSpec == RouterInit /\ [][RouterNext]_routerVars /\ WF_routerVars(Tick) /\ \A t \in Callers : WF_routerVars(Call(t))

--------------------------------------------------------------------------------
(* Properties. *)

\* What a caller gets to read in one call, streamed or not, comes from one candidate: a
\* candidate that broke off after its first words is never continued by another.
OneVoice == \A t \in Callers : Cardinality(call[t].heard) <= 1

\* A candidate is out of use, or on probation, only after FailureThreshold failures in a row
\* were reported of it, however the reports of the threads run into each other.
EarnedOut ==
    \A c \in Candidates :
        health[c].status \in {"unhealthy", "probing"} => inARow[c] = FailureThreshold

\* Some thread is about to look at the health of the candidate.
LookedAt(c) ==
    \E t \in Callers : /\ call[t].pc = "route" /\ Min(call[t].ahead) = c /\ c \in Serve[call[t].request]

\* As long as calls it could serve keep being made, no candidate stays shut for ever.
BreakerReleases ==
    \A c \in Candidates :
        []<>LookedAt(c) => (health[c].status = "unhealthy" ~> health[c].status # "unhealthy")
================================================================================
