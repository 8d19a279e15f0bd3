--------------------------- MODULE WorkbenchProofs ---------------------------
(***************************************************************************)
(* The safety of what goes on beside the turns, for any clerks, requests,  *)
(* threads, servers and runs of skills.                                    *)
(*                                                                         *)
(* A part only moves when a behaviour is about it, so each theorem follows *)
(* from an invariant of its part, that the part's steps keep and the steps *)
(* of the others do not touch.                                             *)
(*                                                                         *)
(* Handles: `ended` counts the resets that are over and a reset in         *)
(* progress has counted itself in `begun`, so that what stands in place    *)
(* was built in era `ended` on the registry numbered after it, and nothing *)
(* is built while the two differ.                                          *)
(*                                                                         *)
(* Desks: what is decided of a request never changes, and a decision is in *)
(* the log, or told as lost, or its decider is still on the way to log it. *)
(*                                                                         *)
(* Reports: what a run read at each SELECT is a part of what the tables    *)
(* held, what it found is made of exactly that, artifacts stay, and every  *)
(* notice of a run was written after its artifact.                         *)
(*                                                                         *)
(* Sessions: what a request has to show for itself stays in the tables     *)
(* from its statement on and on disk from its commit on, whoever commits,  *)
(* deletes, stops or rolls back in between; committed messages only go     *)
(* with a deletion that was asked; who was kept out has written nothing.   *)
(***************************************************************************)
EXTENDS MCWorkbench, FiniteSetTheorems, SequenceTheorems, TLAPS

-----------------------------------------------------------------------------
(* RuntimeHandles *)

Built == [what : {"kernel", "manager"}, on : Nat, by : Threads, era : Nat]

Stages == {"look", "wait", "make", "mark", "leave", "take", "use"}

AskingThread ==
    [pc : Stages, want : {"kernel", "manager"}, got : Built \cup {Missing}, since : Nat]

ResettingThread == [pc : {"drop", "forget"}]

HandlesTypes ==
    /\ kernel \in Built \cup {Missing}
    /\ manager \in Built \cup {Missing}
    /\ registry \in Nat /\ built \in BOOLEAN
    /\ lock \in SUBSET Threads
    /\ connected \in SUBSET [server : Servers, manager : Built]
    /\ thread \in [Threads -> {NotAsking} \cup AskingThread \cup ResettingThread]
    /\ begun \in Nat /\ ended \in Nat
    /\ made \in SUBSET Built

\* The stages in which a thread holds the lock, and those of a reset.
Holding == {"make", "mark", "leave", "drop", "forget"}

InReset == \E t \in Threads : thread[t].pc \in {"drop", "forget"}

OneHolder ==
    /\ \A t \in Threads : t \in lock <=> thread[t].pc \in Holding
    /\ \A s, t \in lock : s = t

\* A reset in progress is counted as begun, and has dropped what it says it has.
ErasAgree ==
    /\ begun = IF InReset THEN ended + 1 ELSE ended
    /\ registry \in {0, ended + 1}
    /\ \A o \in made : o.era <= ended /\ o.on = o.era + 1
    /\ \A o \in made : o.era = begun => Placed(o.what) = o
    /\ \A a, b \in made : a.what = b.what /\ a.era = b.era => a = b

\* What is in place was built since the last reset, on the registry in place.
InPlace ==
    /\ \A what \in {"kernel", "manager"} : Placed(what) # Missing =>
         Placed(what) \in made /\ Placed(what).what = what /\ Placed(what).era = ended
         /\ Placed(what).on = registry
    /\ \A c \in connected : c.manager \in made /\ c.manager.what = "manager"
    /\ InReset => manager = Missing
    /\ (\E t \in Threads : Is(t, "forget")) => kernel = Missing
    /\ ~(\E t \in Threads : thread[t].pc \in {"mark", "forget"}) => (built <=> kernel # Missing)
    /\ (\E t \in Threads : Is(t, "mark")) => ~built /\ kernel # Missing

\* What a thread knows at each stage.
ThreadKnows(t) ==
    LET want == thread[t].want IN
    /\ thread[t].pc \in Stages => thread[t].since <= ended
    /\ Is(t, "make") => Placed(want) = Missing
    /\ Is(t, "mark") => want = "kernel"
    /\ Is(t, "leave") => Placed(want) # Missing
    /\ Is(t, "take") => Placed(want) # Missing \/ begun > thread[t].since
    /\ Is(t, "use") =>
         IF thread[t].got = Missing THEN begun > thread[t].since
         ELSE thread[t].got \in made /\ thread[t].got.what = want /\ thread[t].got.era >= thread[t].since

HandlesInv ==
    /\ HandlesTypes
    /\ OneHolder
    /\ ErasAgree
    /\ InPlace
    /\ \A t \in Threads : ThreadKnows(t)

USE DEF HandlesInv

(* A thread at a stage of a getter is a record of one, anywhere else it is *)
(* at rest or resets.                                                      *)
LEMMA StageOf ==
    ASSUME HandlesTypes, NEW t \in Threads
    PROVE  /\ thread[t].pc \in Stages => thread[t] \in AskingThread
           /\ thread[t].pc \notin Stages => thread[t].pc \in {"idle", "drop", "forget"}
           /\ thread[t].pc \in {"drop", "forget"} => thread[t] \in ResettingThread
<1>1. thread[t] = NotAsking \/ thread[t] \in AskingThread \/ thread[t] \in ResettingThread
  BY DEF HandlesTypes
<1> QED
  BY <1>1 DEF NotAsking, AskingThread, ResettingThread, Stages

(* A move from one stage of a getter to another leaves the rest.           *)
LEMMA MoveFacts ==
    ASSUME HandlesTypes, NEW t \in Threads, thread[t].pc \in Stages, NEW at \in Stages, Move(t, at)
    PROVE  /\ thread' \in [Threads -> {NotAsking} \cup AskingThread \cup ResettingThread]
           /\ thread'[t].pc = at /\ thread'[t].want = thread[t].want
           /\ thread'[t].got = thread[t].got /\ thread'[t].since = thread[t].since
           /\ \A s \in Threads : s # t => thread'[s] = thread[s]
<1>1. thread[t] \in AskingThread
  BY StageOf
<1> DEFINE moved == [thread[t] EXCEPT !.pc = at]
<1>2. moved \in AskingThread /\ moved.pc = at /\ moved.want = thread[t].want
      /\ moved.got = thread[t].got /\ moved.since = thread[t].since
  BY <1>1 DEF AskingThread
<1>3. thread' = [thread EXCEPT ![t] = moved]
  BY DEF Move
<1> HIDE DEF moved
<1> QED
  BY <1>2, <1>3 DEF HandlesTypes

(* A thread that comes to rest.                                            *)
LEMMA RestFacts ==
    ASSUME HandlesTypes, NEW t \in Threads, thread' = [thread EXCEPT ![t] = NotAsking]
    PROVE  /\ thread' \in [Threads -> {NotAsking} \cup AskingThread \cup ResettingThread]
           /\ thread'[t].pc = "idle"
           /\ \A s \in Threads : s # t => thread'[s] = thread[s]
BY DEF HandlesTypes, NotAsking

(* Without a lock nobody resets and nobody is between building and marking.*)
LEMMA FreeFacts ==
    ASSUME OneHolder, Free
    PROVE  /\ \A t \in Threads : thread[t].pc \notin Holding
           /\ ~InReset
BY DEF OneHolder, Free, InReset, Holding

\* A thread begins to ask.
LEMMA AskKeeps ==
    ASSUME HandlesInv, NEW t \in Threads, NEW what \in {"kernel", "manager"}, Ask(t, what)
    PROVE  HandlesInv'
<1> DEFINE asking == [pc |-> "look", want |-> what, got |-> Missing, since |-> ended]
<1>1. asking \in AskingThread /\ asking.pc = "look" /\ asking.since = ended
  BY DEF AskingThread, Stages, HandlesTypes
<1>2. /\ thread' = [thread EXCEPT ![t] = asking]
      /\ thread[t].pc = "idle"
  BY DEF Ask, Is
<1> HIDE DEF asking
<1>3. /\ thread'[t].pc = "look" /\ thread'[t].since = ended
      /\ \A s \in Threads : s # t => thread'[s] = thread[s]
  BY <1>1, <1>2 DEF HandlesTypes
<1>4. HandlesTypes'
  BY <1>1, <1>2 DEF HandlesTypes, Ask
<1>5. OneHolder'
  BY <1>2, <1>3 DEF OneHolder, Ask, Holding
<1>6. InReset' <=> InReset
  BY <1>2, <1>3 DEF InReset
<1>7. ErasAgree'
  BY <1>6 DEF ErasAgree, Ask, Placed
<1>8. InPlace'
  BY <1>2, <1>3, <1>6 DEF InPlace, Ask, Placed, Is
<1>9. \A s \in Threads : ThreadKnows(s)'
  BY <1>2, <1>3 DEF ThreadKnows, Ask, Placed, Is, Stages, HandlesTypes
<1> QED
  BY <1>4, <1>5, <1>7, <1>8, <1>9

\* The look before the lock.
LEMMA LookFirstKeeps ==
    ASSUME HandlesInv, NEW t \in Threads, LookFirst(t)
    PROVE  HandlesInv'
<1> DEFINE at == IF Stands(thread[t].want) THEN "take" ELSE "wait"
<1>1. thread[t].pc = "look" /\ thread[t].pc \in Stages /\ at \in Stages /\ Move(t, at)
  BY DEF LookFirst, Is, Stages
<1>2. /\ thread' \in [Threads -> {NotAsking} \cup AskingThread \cup ResettingThread]
      /\ thread'[t].pc = at /\ thread'[t].want = thread[t].want
      /\ thread'[t].got = thread[t].got /\ thread'[t].since = thread[t].since
      /\ \A s \in Threads : s # t => thread'[s] = thread[s]
  BY <1>1, MoveFacts
<1>3. at = "take" => Placed(thread[t].want) # Missing \/ begun > thread[t].since
  <2> SUFFICES ASSUME at = "take", Placed(thread[t].want) = Missing
               PROVE  begun > thread[t].since
    OBVIOUS
  <2>1. Stands(thread[t].want)
    OBVIOUS
  <2>2. thread[t].want = "kernel" /\ built /\ kernel = Missing
    BY <2>1, <1>1, StageOf DEF Stands, Placed, AskingThread
  <2>3. InReset
    BY <2>2 DEF InPlace, InReset, Is
  <2>4. begun = ended + 1 /\ thread[t].since <= ended /\ thread[t].since \in Nat /\ ended \in Nat
    BY <2>3, <1>1, StageOf DEF ErasAgree, ThreadKnows, HandlesTypes, AskingThread
  <2> QED
    BY <2>4
<1> at \in {"take", "wait"}
  OBVIOUS
<1> HIDE DEF at
<1>4. HandlesTypes'
  BY <1>2 DEF HandlesTypes, LookFirst
<1>5. OneHolder'
  BY <1>1, <1>2 DEF OneHolder, LookFirst, Holding
<1>6. InReset' <=> InReset
  BY <1>1, <1>2 DEF InReset
<1>7. ErasAgree'
  BY <1>6 DEF ErasAgree, LookFirst, Placed
<1>8. InPlace'
  BY <1>1, <1>2, <1>6 DEF InPlace, LookFirst, Placed, Is
<1>9. \A s \in Threads : ThreadKnows(s)'
  BY <1>1, <1>2, <1>3 DEF ThreadKnows, LookFirst, Placed, Is, Stages
<1> QED
  BY <1>4, <1>5, <1>7, <1>8, <1>9

\* The look under the lock.
LEMMA LookAgainKeeps ==
    ASSUME HandlesInv, NEW t \in Threads, LookAgain(t)
    PROVE  HandlesInv'
<1> DEFINE at == IF Stands(thread[t].want) THEN "leave" ELSE "make"
<1>1. thread[t].pc = "wait" /\ thread[t].pc \in Stages /\ at \in Stages /\ Move(t, at)
  BY DEF LookAgain, Is, Stages
<1>2. /\ thread' \in [Threads -> {NotAsking} \cup AskingThread \cup ResettingThread]
      /\ thread'[t].pc = at /\ thread'[t].want = thread[t].want
      /\ thread'[t].got = thread[t].got /\ thread'[t].since = thread[t].since
      /\ \A s \in Threads : s # t => thread'[s] = thread[s]
  BY <1>1, MoveFacts
<1>3. /\ \A s \in Threads : thread[s].pc \notin Holding
      /\ ~InReset /\ lock = {} /\ lock' = {t}
  BY FreeFacts DEF LookAgain, Free
<1>4. built <=> kernel # Missing
  BY <1>3 DEF InPlace, Holding
<1>5. IF at = "leave" THEN Placed(thread[t].want) # Missing ELSE Placed(thread[t].want) = Missing
  BY <1>4, <1>1, StageOf DEF Stands, Placed, AskingThread
<1> at \in {"leave", "make"}
  OBVIOUS
<1> HIDE DEF at
<1>6. HandlesTypes'
  BY <1>2, <1>3 DEF HandlesTypes, LookAgain
<1>7. OneHolder'
  BY <1>1, <1>2, <1>3 DEF OneHolder, Holding
<1>8. InReset' <=> InReset
  BY <1>1, <1>2 DEF InReset
<1>9. ErasAgree'
  BY <1>8 DEF ErasAgree, LookAgain, Placed
<1>10. InPlace'
  BY <1>1, <1>2, <1>8 DEF InPlace, LookAgain, Placed, Is
<1>11. \A s \in Threads : ThreadKnows(s)'
  BY <1>1, <1>2, <1>5 DEF ThreadKnows, LookAgain, Placed, Is, Stages
<1> QED
  BY <1>6, <1>7, <1>9, <1>10, <1>11

(* An object is built where nothing is in place, by the thread that holds  *)
(* the lock, on the registry that this era has or gets.                    *)
LEMMA MakeKeeps ==
    ASSUME HandlesInv, NEW t \in Threads, Make(t)
    PROVE  HandlesInv'
<1> PICK what : what = thread[t].want
  OBVIOUS
<1> PICK object : object = Object(what, SharedRegistry, t)
  OBVIOUS
<1> PICK at : at = IF what = "kernel" THEN "mark" ELSE "leave"
  OBVIOUS
<1>1. thread[t].pc = "make" /\ thread[t].pc \in Stages /\ at \in Stages /\ Move(t, at)
  BY DEF Make, Is, Stages
<1>2. /\ thread' \in [Threads -> {NotAsking} \cup AskingThread \cup ResettingThread]
      /\ thread'[t].pc = at /\ thread'[t].want = thread[t].want
      /\ thread'[t].got = thread[t].got /\ thread'[t].since = thread[t].since
      /\ \A s \in Threads : s # t => thread'[s] = thread[s]
  BY <1>1, MoveFacts
<1>3. what \in {"kernel", "manager"}
  BY <1>1, StageOf DEF AskingThread
<1>4. \A s \in Threads : s # t => thread[s].pc \notin Holding
  BY <1>1 DEF OneHolder, Holding
<1>5. ~InReset /\ begun = ended /\ begun \in Nat
  BY <1>1, <1>4 DEF InReset, Holding, ErasAgree, HandlesTypes
<1>6. SharedRegistry = ended + 1 /\ registry' = ended + 1 /\ ended + 1 \in Nat /\ ended + 1 # 0
  BY <1>5 DEF SharedRegistry, ErasAgree, Make, HandlesTypes
<1>7. /\ object \in Built /\ object.what = what /\ object.era = ended /\ object.on = ended + 1
      /\ object # Missing
  BY <1>3, <1>5, <1>6 DEF Object, Built, Missing
<1>8. Placed(what) = Missing
  BY <1>1 DEF ThreadKnows, Is
<1>9. /\ made' = made \cup {object}
      /\ Placed(what)' = object
      /\ \A w \in {"kernel", "manager"} : w # what => Placed(w)' = Placed(w)
  BY <1>3 DEF Make, Placed
<1>10. /\ UNCHANGED <<built, lock, connected, begun, ended>>
       /\ kernel' = IF what = "kernel" THEN object ELSE kernel
       /\ manager' = IF what = "manager" THEN object ELSE manager
  BY <1>3 DEF Make
<1>11. HandlesTypes'
  BY <1>2, <1>3, <1>6, <1>7, <1>9, <1>10 DEF HandlesTypes
<1>12. OneHolder'
  BY <1>1, <1>2, <1>10 DEF OneHolder, Holding
<1>13. InReset' <=> InReset
  BY <1>1, <1>2, <1>5 DEF InReset
<1>14. \A w \in {"kernel", "manager"} : w # what /\ Placed(w) # Missing =>
         Placed(w).on = ended + 1
  BY DEF InPlace, ErasAgree
<1>15. ErasAgree'
  <2>1. begun' = IF InReset' THEN ended' + 1 ELSE ended'
    BY <1>5, <1>13, <1>10
  <2>2. \A o \in made' : o.era <= ended' /\ o.on = o.era + 1
    BY <1>5, <1>7, <1>9, <1>10 DEF ErasAgree, HandlesTypes
  <2>3. ASSUME NEW o \in made', o.era = begun'
        PROVE  Placed(o.what)' = o
    <3>1. CASE o = object
      BY <3>1, <1>7, <1>9
    <3>2. CASE o # object
      <4>1. o \in made /\ Placed(o.what) = o /\ o.what \in {"kernel", "manager"} /\ o # Missing
        BY <3>2, <2>3, <1>9, <1>10 DEF ErasAgree, HandlesTypes, Built, Missing
      <4> QED
        BY <4>1, <1>8, <1>9
    <3> QED
      BY <3>1, <3>2
  <2>4. ASSUME NEW a \in made', NEW b \in made', a.what = b.what, a.era = b.era
        PROVE  a = b
    <3>1. ASSUME NEW o \in made PROVE ~(o.what = what /\ o.era = ended)
      BY <3>1, <1>5, <1>8 DEF ErasAgree, HandlesTypes, Built, Missing
    <3> QED
      BY <2>4, <3>1, <1>7, <1>9 DEF ErasAgree
  <2> QED
    BY <2>1, <2>2, <2>3, <2>4, <1>6, <1>10 DEF ErasAgree
<1>16. InPlace'
  <2>1. ASSUME NEW w \in {"kernel", "manager"}, Placed(w)' # Missing
        PROVE  Placed(w)' \in made' /\ Placed(w)'.what = w /\ Placed(w)'.era = ended'
               /\ Placed(w)'.on = registry'
    <3>1. CASE w = what
      BY <3>1, <1>6, <1>7, <1>9, <1>10
    <3>2. CASE w # what
      BY <3>2, <2>1, <1>6, <1>9, <1>10, <1>14 DEF InPlace
    <3> QED
      BY <3>1, <3>2
  <2>2. \A c \in connected' : c.manager \in made' /\ c.manager.what = "manager"
    BY <1>9, <1>10 DEF InPlace
  <2>3. ~InReset' /\ ~(\E s \in Threads : Is(s, "forget")')
    BY <1>13, <1>5 DEF InReset, Is
  <2>4. CASE what = "kernel"
    <3>1. thread'[t].pc = "mark" /\ kernel' # Missing
      BY <2>4, <1>2, <1>7, <1>10
    <3>2. ~built
      BY <2>4, <1>1, <1>4, <1>8 DEF InPlace, Placed, Holding
    <3> QED
      BY <2>1, <2>2, <2>3, <3>1, <3>2, <1>10 DEF InPlace
  <2>5. CASE what = "manager"
    <3>1. \A s \in Threads : thread[s].pc \notin {"mark", "forget"} /\ thread'[s].pc \notin {"mark", "forget"}
      BY <2>5, <1>1, <1>2, <1>4 DEF Holding
    <3>2. built' <=> kernel' # Missing
      BY <2>5, <3>1, <1>10 DEF InPlace
    <3> QED
      BY <2>1, <2>2, <2>3, <3>1, <3>2 DEF InPlace, Is
  <2> QED
    BY <2>4, <2>5, <1>3
<1>17. ASSUME NEW s \in Threads PROVE ThreadKnows(s)'
  <2>1. CASE s = t
    BY <2>1, <1>1, <1>2, <1>3, <1>7, <1>9, <1>10 DEF ThreadKnows, Is, Stages
  <2>2. CASE s # t
    <3>1. /\ thread'[s] = thread[s] /\ ThreadKnows(s)
          /\ thread[s].pc \notin Holding
      BY <2>2, <1>2, <1>4
    <3>2. Placed(thread[s].want) # Missing /\ thread[s].pc \in Stages => Placed(thread[s].want)' # Missing
      <4>1. Placed(thread[s].want)' = IF thread[s].want = "kernel" THEN kernel' ELSE manager'
        BY <3>1 DEF Placed
      <4> QED
        BY <4>1, <1>7, <1>10 DEF Placed
    <3> QED
      BY <3>1, <3>2, <1>9, <1>10 DEF ThreadKnows, Is, Holding, Stages
  <2> QED
    BY <2>1, <2>2
<1> QED
  BY <1>11, <1>12, <1>15, <1>16, <1>17

(* The build failed: the caller has the error and the lock is free.        *)
LEMMA MakeFailsKeeps ==
    ASSUME HandlesInv, NEW t \in Threads, MakeFails(t)
    PROVE  HandlesInv'
<1>1. thread[t].pc = "make" /\ thread' = [thread EXCEPT ![t] = NotAsking]
  BY DEF MakeFails, Is
<1>2. /\ thread' \in [Threads -> {NotAsking} \cup AskingThread \cup ResettingThread]
      /\ thread'[t].pc = "idle"
      /\ \A s \in Threads : s # t => thread'[s] = thread[s]
  BY <1>1, RestFacts
<1>3. \A s \in Threads : s # t => thread[s].pc \notin Holding
  BY <1>1 DEF OneHolder, Holding
<1>4. ~InReset /\ ~InReset' /\ begun = ended
  BY <1>1, <1>2, <1>3 DEF InReset, Holding, ErasAgree
<1>5. registry \in {0, ended + 1} /\ registry' \in {registry, ended + 1} /\ registry' \in Nat
  BY <1>4 DEF MakeFails, SharedRegistry, ErasAgree, HandlesTypes
<1>6. UNCHANGED <<kernel, manager, built, connected, begun, ended, made>> /\ lock' = {}
  BY DEF MakeFails
<1>7. ASSUME NEW w \in {"kernel", "manager"}, Placed(w) # Missing
      PROVE  registry' = registry
  BY <1>7, <1>5 DEF InPlace, ErasAgree, HandlesTypes
<1>8. HandlesTypes'
  BY <1>2, <1>5, <1>6 DEF HandlesTypes
<1>9. OneHolder'
  BY <1>1, <1>2, <1>3, <1>6 DEF OneHolder, Holding
<1>10. ErasAgree'
  BY <1>4, <1>5, <1>6 DEF ErasAgree, Placed
<1>11. InPlace'
  BY <1>1, <1>2, <1>4, <1>6, <1>7 DEF InPlace, Placed, Is
<1>12. \A s \in Threads : ThreadKnows(s)'
  BY <1>2, <1>6 DEF ThreadKnows, Placed, Is, Stages
<1> QED
  BY <1>8, <1>9, <1>10, <1>11, <1>12

\* What was built is put in place.
LEMMA MarkKeeps ==
    ASSUME HandlesInv, NEW t \in Threads, Mark(t)
    PROVE  HandlesInv'
<1>1. thread[t].pc = "mark" /\ thread[t].pc \in Stages /\ Move(t, "leave") /\ "leave" \in Stages
  BY DEF Mark, Is, Stages
<1>2. /\ thread' \in [Threads -> {NotAsking} \cup AskingThread \cup ResettingThread]
      /\ thread'[t].pc = "leave" /\ thread'[t].want = thread[t].want
      /\ thread'[t].got = thread[t].got /\ thread'[t].since = thread[t].since
      /\ \A s \in Threads : s # t => thread'[s] = thread[s]
  BY <1>1, MoveFacts
<1>3. \A s \in Threads : s # t => thread[s].pc \notin Holding
  BY <1>1 DEF OneHolder, Holding
<1>4. thread[t].want = "kernel" /\ kernel # Missing
  BY <1>1 DEF ThreadKnows, InPlace, Is
<1>5. ~InReset /\ ~InReset'
  BY <1>1, <1>2, <1>3 DEF InReset, Holding
<1>6. UNCHANGED <<kernel, manager, registry, lock, connected, begun, ended, made>> /\ built' = TRUE
  BY DEF Mark
<1>7. HandlesTypes'
  BY <1>2, <1>6 DEF HandlesTypes
<1>8. OneHolder'
  BY <1>1, <1>2, <1>6 DEF OneHolder, Holding
<1>9. ErasAgree'
  BY <1>5, <1>6 DEF ErasAgree, Placed
<1>10. InPlace'
  BY <1>1, <1>2, <1>3, <1>4, <1>5, <1>6 DEF InPlace, Placed, Is, Holding
<1>11. \A s \in Threads : ThreadKnows(s)'
  BY <1>1, <1>2, <1>4, <1>6 DEF ThreadKnows, Placed, Is, Stages
<1> QED
  BY <1>7, <1>8, <1>9, <1>10, <1>11

\* The lock is let go.
LEMMA LeaveKeeps ==
    ASSUME HandlesInv, NEW t \in Threads, Leave(t)
    PROVE  HandlesInv'
<1>1. thread[t].pc = "leave" /\ thread[t].pc \in Stages /\ Move(t, "take") /\ "take" \in Stages
  BY DEF Leave, Is, Stages
<1>2. /\ thread' \in [Threads -> {NotAsking} \cup AskingThread \cup ResettingThread]
      /\ thread'[t].pc = "take" /\ thread'[t].want = thread[t].want
      /\ thread'[t].got = thread[t].got /\ thread'[t].since = thread[t].since
      /\ \A s \in Threads : s # t => thread'[s] = thread[s]
  BY <1>1, MoveFacts
<1>3. \A s \in Threads : s # t => thread[s].pc \notin Holding
  BY <1>1 DEF OneHolder, Holding
<1>4. ~InReset /\ ~InReset'
  BY <1>1, <1>2, <1>3 DEF InReset, Holding
<1>5. UNCHANGED <<kernel, manager, registry, built, connected, begun, ended, made>> /\ lock' = {}
  BY DEF Leave
<1>6. HandlesTypes'
  BY <1>2, <1>5 DEF HandlesTypes
<1>7. OneHolder'
  BY <1>1, <1>2, <1>3, <1>5 DEF OneHolder, Holding
<1>8. ErasAgree'
  BY <1>4, <1>5 DEF ErasAgree, Placed
<1>9. InPlace'
  BY <1>1, <1>2, <1>4, <1>5 DEF InPlace, Placed, Is
<1>10. \A s \in Threads : ThreadKnows(s)'
  BY <1>1, <1>2, <1>5 DEF ThreadKnows, Placed, Is, Stages
<1> QED
  BY <1>6, <1>7, <1>8, <1>9, <1>10

(* What a thread takes is in place, or was dropped after it asked.         *)
LEMMA TakeKeeps ==
    ASSUME HandlesInv, NEW t \in Threads, Take(t)
    PROVE  HandlesInv'
<1> PICK got : got = Placed(thread[t].want)
  OBVIOUS
<1>1. thread[t].pc = "take" /\ thread[t] \in AskingThread
  BY StageOf DEF Take, Is, Stages
<1> PICK moved : moved = [thread[t] EXCEPT !.got = got, !.pc = "use"]
  OBVIOUS
<1>2. got \in Built \cup {Missing}
  BY DEF HandlesTypes, Placed
<1>3. /\ moved \in AskingThread /\ moved.pc = "use" /\ moved.want = thread[t].want
      /\ moved.got = got /\ moved.since = thread[t].since
  BY <1>1, <1>2 DEF AskingThread, Stages
<1>4. thread' = [thread EXCEPT ![t] = moved]
  BY DEF Take
<1>5. /\ thread' \in [Threads -> {NotAsking} \cup AskingThread \cup ResettingThread]
      /\ thread'[t] = moved
      /\ \A s \in Threads : s # t => thread'[s] = thread[s]
  BY <1>3, <1>4 DEF HandlesTypes
<1>6. UNCHANGED <<kernel, manager, registry, built, lock, connected, begun, ended, made>>
  BY DEF Take
<1>7. got = Missing => begun > moved.since
  BY <1>1, <1>3 DEF ThreadKnows, Is
<1>8. got # Missing => got \in made /\ got.what = moved.want /\ got.era >= moved.since
  <2>1. thread[t].want \in {"kernel", "manager"} /\ thread[t].since \in Nat /\ thread[t].since <= ended
    BY <1>1 DEF ThreadKnows, AskingThread, Stages
  <2>2. got # Missing => got \in made /\ got.what = thread[t].want /\ got.era = ended
    BY <2>1 DEF InPlace
  <2> QED
    BY <2>1, <2>2, <1>3 DEF HandlesTypes
<1>9. HandlesTypes'
  BY <1>5, <1>6 DEF HandlesTypes
<1>10. OneHolder'
  BY <1>1, <1>3, <1>5, <1>6 DEF OneHolder, Holding
<1>11. InReset' <=> InReset
  BY <1>1, <1>3, <1>5 DEF InReset
<1>12. ErasAgree'
  BY <1>6, <1>11 DEF ErasAgree, Placed
<1>13. InPlace'
  BY <1>1, <1>3, <1>5, <1>6, <1>11 DEF InPlace, Placed, Is
<1>14. ASSUME NEW s \in Threads PROVE ThreadKnows(s)'
  <2>1. CASE s = t
    <3>1. thread'[t].pc = "use" /\ thread'[t].got = got /\ thread'[t].want = moved.want
          /\ thread'[t].since = moved.since
      BY <1>3, <1>5
    <3>2. moved.since <= ended
      BY <1>1, <1>3 DEF ThreadKnows, Stages
    <3> QED
      BY <2>1, <3>1, <3>2, <1>6, <1>7, <1>8 DEF ThreadKnows, Is
  <2>2. CASE s # t
    BY <2>2, <1>5, <1>6 DEF ThreadKnows, Placed, Is
  <2> QED
    BY <2>1, <2>2
<1> QED
  BY <1>9, <1>10, <1>12, <1>13, <1>14

\* A thread uses what it got.
LEMMA UseKeeps ==
    ASSUME HandlesInv, NEW t \in Threads, Use(t)
    PROVE  HandlesInv'
<1>1. thread[t].pc = "use" /\ thread[t] \in AskingThread /\ thread' = [thread EXCEPT ![t] = NotAsking]
  BY StageOf DEF Use, Is, Stages
<1>2. /\ thread' \in [Threads -> {NotAsking} \cup AskingThread \cup ResettingThread]
      /\ thread'[t].pc = "idle"
      /\ \A s \in Threads : s # t => thread'[s] = thread[s]
  BY <1>1, RestFacts
<1>3. UNCHANGED <<kernel, manager, registry, built, lock, begun, ended, made>>
  BY DEF Use
<1>4. /\ connected' \in SUBSET [server : Servers, manager : Built]
      /\ \A c \in connected' : c.manager \in made /\ c.manager.what = "manager"
  <2>1. CASE thread[t].want = "manager" /\ thread[t].got # Missing
    <3>1. PICK s \in Servers : connected' = connected \cup {[server |-> s, manager |-> thread[t].got]}
      BY <2>1 DEF Use
    <3>2. thread[t].got \in made /\ thread[t].got \in Built /\ thread[t].got.what = "manager"
      BY <2>1, <1>1 DEF ThreadKnows, Is, HandlesTypes
    <3> PICK new : new = [server |-> s, manager |-> thread[t].got]
      OBVIOUS
    <3>3. new \in [server : Servers, manager : Built] /\ new.manager = thread[t].got
      BY <3>2
    <3> QED
      BY <3>1, <3>2, <3>3 DEF HandlesTypes, InPlace
  <2>2. CASE ~(thread[t].want = "manager" /\ thread[t].got # Missing)
    BY <2>2 DEF Use, HandlesTypes, InPlace
  <2> QED
    BY <2>1, <2>2
<1>5. HandlesTypes'
  BY <1>2, <1>3, <1>4 DEF HandlesTypes
<1>6. OneHolder'
  BY <1>1, <1>2, <1>3 DEF OneHolder, Holding
<1>7. InReset' <=> InReset
  BY <1>1, <1>2 DEF InReset
<1>8. ErasAgree'
  BY <1>3, <1>7 DEF ErasAgree, Placed
<1>9. InPlace'
  BY <1>1, <1>2, <1>3, <1>4, <1>7 DEF InPlace, Placed, Is
<1>10. \A s \in Threads : ThreadKnows(s)'
  BY <1>2, <1>3 DEF ThreadKnows, Placed, Is, Stages
<1> QED
  BY <1>5, <1>6, <1>8, <1>9, <1>10

(* A reset begins: the manager's servers and the manager go.               *)
LEMMA RemoveServersKeeps ==
    ASSUME HandlesInv, NEW t \in Threads, RemoveServers(t)
    PROVE  HandlesInv'
<1> PICK drop : drop = [pc |-> "drop"]
  OBVIOUS
<1>1. thread[t].pc = "idle" /\ thread' = [thread EXCEPT ![t] = drop] /\ drop \in ResettingThread
      /\ drop.pc = "drop"
  BY DEF RemoveServers, Is, ResettingThread
<1>2. /\ thread' \in [Threads -> {NotAsking} \cup AskingThread \cup ResettingThread]
      /\ thread'[t].pc = "drop"
      /\ \A s \in Threads : s # t => thread'[s] = thread[s]
  BY <1>1 DEF HandlesTypes
<1>3. /\ \A s \in Threads : thread[s].pc \notin Holding
      /\ ~InReset /\ lock = {} /\ lock' = {t}
  BY FreeFacts DEF RemoveServers, Free
<1>4. InReset'
  BY <1>2 DEF InReset
<1>5. /\ UNCHANGED <<kernel, registry, built, ended, made>>
      /\ begun' = begun + 1 /\ manager' = Missing /\ begun = ended /\ begun \in Nat
  BY <1>3 DEF RemoveServers, ErasAgree, HandlesTypes
<1>6. connected' \subseteq connected
  BY DEF RemoveServers
<1>7. HandlesTypes'
  BY <1>2, <1>3, <1>5, <1>6 DEF HandlesTypes
<1>8. OneHolder'
  BY <1>1, <1>2, <1>3 DEF OneHolder, Holding
<1>9. ErasAgree'
  BY <1>3, <1>4, <1>5 DEF ErasAgree, Placed, HandlesTypes, Built
<1>10. InPlace'
  BY <1>1, <1>2, <1>3, <1>5, <1>6 DEF InPlace, Placed, Is, Holding
<1>11. ASSUME NEW s \in Threads PROVE ThreadKnows(s)'
  <2>1. CASE s = t
    BY <2>1, <1>2 DEF ThreadKnows, Is, Stages
  <2>2. CASE s # t
    <3>1. thread'[s] = thread[s] /\ ThreadKnows(s) /\ thread[s].pc \notin Holding
      BY <2>2, <1>2, <1>3
    <3>2. thread[s].pc \in Stages => thread[s].since \in Nat /\ thread[s].since < begun'
      BY <3>1, <1>5, StageOf DEF ThreadKnows, AskingThread
    <3> QED
      BY <3>1, <3>2, <1>5 DEF ThreadKnows, Is, Stages, Holding
  <2> QED
    BY <2>1, <2>2
<1> QED
  BY <1>7, <1>8, <1>9, <1>10, <1>11

\* A reset drops the kernel,
LEMMA DropKernelKeeps ==
    ASSUME HandlesInv, NEW t \in Threads, DropKernel(t)
    PROVE  HandlesInv'
<1>1. thread[t].pc = "drop" /\ thread[t] \in ResettingThread
  BY StageOf DEF DropKernel, Is
<1> PICK forget : forget = [thread[t] EXCEPT !.pc = "forget"]
  OBVIOUS
<1>2. thread' = [thread EXCEPT ![t] = forget] /\ forget \in ResettingThread /\ forget.pc = "forget"
  BY <1>1 DEF DropKernel, Move, ResettingThread
<1>3. /\ thread' \in [Threads -> {NotAsking} \cup AskingThread \cup ResettingThread]
      /\ thread'[t].pc = "forget"
      /\ \A s \in Threads : s # t => thread'[s] = thread[s]
  BY <1>2 DEF HandlesTypes
<1>4. \A s \in Threads : s # t => thread[s].pc \notin Holding
  BY <1>1 DEF OneHolder, Holding
<1>5. InReset /\ InReset'
  BY <1>1, <1>3 DEF InReset
<1>6. /\ UNCHANGED <<manager, registry, built, lock, connected, begun, ended, made>>
      /\ kernel' = Missing /\ begun = ended + 1 /\ ended \in Nat
  BY <1>5 DEF DropKernel, ErasAgree, HandlesTypes
<1>7. HandlesTypes'
  BY <1>3, <1>6 DEF HandlesTypes
<1>8. OneHolder'
  BY <1>1, <1>3, <1>6 DEF OneHolder, Holding
<1>9. ErasAgree'
  BY <1>5, <1>6 DEF ErasAgree, Placed, HandlesTypes, Built
<1>10. InPlace'
  BY <1>1, <1>3, <1>4, <1>5, <1>6 DEF InPlace, Placed, Is, Holding
<1>11. ASSUME NEW s \in Threads PROVE ThreadKnows(s)'
  <2>1. CASE s = t
    BY <2>1, <1>3 DEF ThreadKnows, Is, Stages
  <2>2. CASE s # t
    <3>1. thread'[s] = thread[s] /\ ThreadKnows(s) /\ thread[s].pc \notin Holding
      BY <2>2, <1>3, <1>4
    <3>2. thread[s].pc \in Stages => begun > thread[s].since
      BY <3>1, <1>6, StageOf DEF ThreadKnows, AskingThread
    <3> QED
      BY <3>1, <3>2, <1>6 DEF ThreadKnows, Is, Stages, Holding
  <2> QED
    BY <2>1, <2>2
<1> QED
  BY <1>7, <1>8, <1>9, <1>10, <1>11

\* and then the manager.
LEMMA ForgetKeeps ==
    ASSUME HandlesInv, NEW t \in Threads, Forget(t)
    PROVE  HandlesInv'
<1>1. thread[t].pc = "forget" /\ thread' = [thread EXCEPT ![t] = NotAsking]
  BY DEF Forget, Is
<1>2. /\ thread' \in [Threads -> {NotAsking} \cup AskingThread \cup ResettingThread]
      /\ thread'[t].pc = "idle"
      /\ \A s \in Threads : s # t => thread'[s] = thread[s]
  BY <1>1, RestFacts
<1>3. \A s \in Threads : s # t => thread[s].pc \notin Holding
  BY <1>1 DEF OneHolder, Holding
<1>4. InReset /\ ~InReset'
  BY <1>1, <1>2, <1>3 DEF InReset, Holding
<1>5. /\ UNCHANGED <<kernel, manager, connected, begun, made>> /\ registry' = 0 /\ built' = FALSE
      /\ lock' = {} /\ ended' = begun /\ begun = ended + 1 /\ ended \in Nat /\ begun \in Nat
      /\ kernel = Missing /\ manager = Missing
  BY <1>1, <1>4 DEF Forget, ErasAgree, HandlesTypes, InPlace, Is
<1>6. HandlesTypes'
  BY <1>2, <1>5 DEF HandlesTypes
<1>7. OneHolder'
  BY <1>1, <1>2, <1>3, <1>5 DEF OneHolder, Holding
<1>8. ErasAgree'
  <2>1. \A o \in made : o.era < begun /\ o.on = o.era + 1 /\ o.era \in Nat
    BY <1>5 DEF ErasAgree, HandlesTypes, Built
  <2> QED
    BY <2>1, <1>4, <1>5 DEF ErasAgree
<1>9. InPlace'
  BY <1>2, <1>3, <1>4, <1>5 DEF InPlace, Placed, Is, Holding
<1>10. ASSUME NEW s \in Threads PROVE ThreadKnows(s)'
  <2>1. CASE s = t
    BY <2>1, <1>2 DEF ThreadKnows, Is, Stages
  <2>2. CASE s # t
    <3>1. thread'[s] = thread[s] /\ ThreadKnows(s) /\ thread[s].pc \notin Holding
      BY <2>2, <1>2, <1>3
    <3>2. thread[s].pc \in Stages => thread[s].since <= ended'
      BY <3>1, <1>5, StageOf DEF ThreadKnows, AskingThread
    <3> QED
      BY <3>1, <3>2, <1>5 DEF ThreadKnows, Is, Stages, Holding, Placed
  <2> QED
    BY <2>1, <2>2
<1> QED
  BY <1>6, <1>7, <1>8, <1>9, <1>10

(* The invariant of the handles.                                           *)
THEOREM HandlesInvariance == Spec => []HandlesInv
<1>1. Init => HandlesInv
  <2> SUFFICES ASSUME Init PROVE HandlesInv
    OBVIOUS
  <2>1. /\ kernel = Missing /\ manager = Missing /\ registry = 0 /\ built = FALSE
        /\ lock = {} /\ connected = {} /\ made = {} /\ begun = 0 /\ ended = 0
        /\ thread = [t \in Threads |-> NotAsking]
    BY DEF Init, HandlesInit
  <2>2. \A t \in Threads : thread[t] = NotAsking /\ thread[t].pc = "idle"
    BY <2>1 DEF NotAsking
  <2>3. ~InReset
    BY <2>2 DEF InReset
  <2> QED
    BY <2>1, <2>2, <2>3
       DEF HandlesTypes, OneHolder, ErasAgree, InPlace, ThreadKnows, Placed, Is, Holding, Stages
<1>2. HandlesInv /\ [Next]_vars => HandlesInv'
  <2> SUFFICES ASSUME HandlesInv, [Next]_vars PROVE HandlesInv'
    OBVIOUS
  <2>1. CASE UNCHANGED handleVars
    BY <2>1 DEF handleVars, HandlesTypes, OneHolder, ErasAgree, InPlace, ThreadKnows, InReset, Placed, Is
  <2>2. CASE HandlesStep
    <3> PICK t \in Threads :
        \/ \E what \in {"kernel", "manager"} : Ask(t, what)
        \/ LookFirst(t) \/ LookAgain(t) \/ Make(t) \/ MakeFails(t) \/ Mark(t) \/ Leave(t)
        \/ Take(t) \/ Use(t) \/ RemoveServers(t) \/ DropKernel(t) \/ Forget(t)
      BY <2>2 DEF HandlesStep
    <3> QED
      BY AskKeeps, LookFirstKeeps, LookAgainKeeps, MakeKeeps, MakeFailsKeeps, MarkKeeps, LeaveKeeps,
         TakeKeeps, UseKeeps, RemoveServersKeeps, DropKernelKeeps, ForgetKeeps
  <2> QED
    BY <2>1, <2>2 DEF Next, vars
<1> QED
  BY <1>1, <1>2, PTL DEF Spec

(* Turns and MCP management serve one set of tools: between two resets at  *)
(* most one kernel and one manager are built, what stands in place stands  *)
(* on the registry in place, and a thread gets what was built since the    *)
(* last reset that had ended when it asked (KernelManager).                *)
THEOREM HandlesAreOne == Spec => []HandlesAgree
<1>1. HandlesInv => HandlesAgree
  <2> SUFFICES ASSUME HandlesInv PROVE HandlesAgree
    OBVIOUS
  <2>1. \A a, b \in made : a.what = b.what /\ a.era = b.era => a = b
    BY DEF ErasAgree
  <2>2. ASSUME Free
        PROVE  /\ built <=> kernel # Missing
               /\ \A object \in {kernel, manager} \ {Missing} : object.on = registry
               /\ \A c \in connected : c.manager.on = registry => c.manager = manager
    <3>1. ~InReset /\ \A t \in Threads : thread[t].pc \notin {"mark", "forget"}
      BY <2>2, FreeFacts DEF Holding
    <3>2. begun = ended /\ ended \in Nat
      BY <3>1 DEF ErasAgree, HandlesTypes
    <3>3. built <=> kernel # Missing
      BY <3>1 DEF InPlace
    <3>4. \A object \in {kernel, manager} \ {Missing} : object.on = registry
      BY DEF InPlace, Placed
    <3>5. ASSUME NEW c \in connected, c.manager.on = registry
          PROVE  c.manager = manager
      <4>1. c.manager \in made /\ c.manager.what = "manager" /\ c.manager.era \in Nat
        BY DEF InPlace, HandlesTypes, Built
      <4>2. c.manager.era = begun
        BY <4>1, <3>2, <3>5 DEF ErasAgree
      <4> QED
        BY <4>1, <4>2 DEF ErasAgree, Placed
    <3> QED
      BY <3>3, <3>4, <3>5
  <2>3. \A t \in Threads : Is(t, "use") =>
         IF thread[t].got = Missing THEN begun > thread[t].since
         ELSE thread[t].got \in made /\ thread[t].got.era >= thread[t].since
    BY DEF ThreadKnows
  <2> QED
    BY <2>1, <2>2, <2>3 DEF HandlesAgree
<1> QED
  BY <1>1, HandlesInvariance, PTL

-----------------------------------------------------------------------------
(* ApprovalDesk *)

AtDesk == [pc : {"check", "answer", "log", "resume", "book"}, id : Asked,
           word : Words \cup {"completed", "failed"}]

Told == [by : Clerks, id : Asked, word : Words]

DeskTypes ==
    /\ approvals \in [Asked -> Undecided \cup Words]
    /\ decidedBy \in [Asked -> SUBSET Clerks]
    /\ desk \in [Clerks -> {AtRest, [pc |-> "gone"]} \cup AtDesk]
    /\ shift \in SUBSET Clerks
    /\ told \in SUBSET Told

\* Who was told, and is not at a chat, reads his own word.
ToldOK ==
    \A t \in told : ChannelOf[t.by] # "chat" =>
        Decided(t.id) /\ approvals[t.id] = t.word /\ decidedBy[t.id] = {t.by}

RowOK(row) ==
    /\ row.action = "decide" =>
         /\ Decided(row.id) /\ Side(approvals[row.id]) = row.decision
         /\ decidedBy[row.id] = {row.by}
         /\ ChannelOf[row.by] = "cli" => row.in = HomeOf[row.id]
    /\ row.action = "resume" /\ row.decision = "allow" => approvals[row.id] = "approved"

\* A decision is in the log, or lost, or its decider will write it, or never.
Accounted(id) ==
    \/ \E row \in audit : row.action = "decide" /\ row.id = id
    \/ id \in lost
    \/ \E c \in decidedBy[id] : ChannelOf[c] = "chat" \/ (desk[c].pc = "log" /\ desk[c].id = id)

\* What a clerk goes on with is what is stored, and a word of the service's.
ClerkOK(c) ==
    /\ desk[c].pc = "answer" => desk[c].word \in Words
    /\ desk[c].pc = "check" => desk[c].word \in Words
    /\ desk[c].pc = "log" => /\ desk[c].word \in Words
                             /\ Decided(desk[c].id) /\ approvals[desk[c].id] = desk[c].word
                             /\ decidedBy[desk[c].id] = {c}
    /\ desk[c].pc = "book" /\ desk[c].word = "completed" => approvals[desk[c].id] = "approved"

DeskInv ==
    /\ DeskTypes
    /\ ToldOK
    /\ \A row \in audit : row.id \in Asked /\ RowOK(row)
    /\ \A id \in Asked : Decided(id) => Accounted(id)
    /\ \A c \in Clerks : ClerkOK(c)

\* A step keeps what was decided, and what it decides is taken care of.
Keeps == \A id \in Asked : Decided(id) => UNCHANGED <<approvals[id], decidedBy[id]>>

USE DEF DeskInv

(* What is decided is one of the words, and the other way round.           *)
LEMMA DecidedFacts ==
    ASSUME DeskTypes, NEW id \in Asked
    PROVE  /\ Decided(id) <=> approvals[id] \in Words
           /\ approvals[id] = "approved" => Decided(id)
           /\ Pending(id) => ~Decided(id)
BY DEF DeskTypes, Decided, Undecided, Words, Approving, Rejecting, Pending

(* The invariant is kept by a step that keeps what is decided, accounts    *)
(* for what it decides, and leaves each clerk with what he may go on with. *)
LEMMA DeskFrame ==
    ASSUME DeskInv, DeskTypes', Keeps,
           audit \subseteq audit', lost \subseteq lost',
           \A t \in told' : t \in told \/ (ChannelOf[t.by] # "chat" =>
               Decided(t.id)' /\ approvals'[t.id] = t.word /\ decidedBy'[t.id] = {t.by}),
           \A row \in audit' : row \in audit \/ (row.id \in Asked /\ RowOK(row)'),
           \A id \in Asked : Decided(id)' => Decided(id) \/ Accounted(id)',
           \A c \in Clerks : desk'[c] = desk[c] \/
               (ClerkOK(c)' /\ \A id \in Asked : desk[c].pc = "log" /\ desk[c].id = id => Accounted(id)')
    PROVE  DeskInv'
<1>1. ASSUME NEW id \in Asked, Decided(id)
      PROVE  Decided(id)' /\ approvals'[id] = approvals[id] /\ decidedBy'[id] = decidedBy[id]
  BY <1>1 DEF Keeps, Decided
<1>2. ToldOK'
  <2> SUFFICES ASSUME NEW t \in told', ChannelOf[t.by] # "chat"
               PROVE  Decided(t.id)' /\ approvals'[t.id] = t.word /\ decidedBy'[t.id] = {t.by}
    BY DEF ToldOK
  <2>1. CASE t \in told
    <3>1. t.id \in Asked /\ Decided(t.id) /\ approvals[t.id] = t.word /\ decidedBy[t.id] = {t.by}
      BY <2>1 DEF ToldOK, DeskTypes, Told
    <3> QED
      BY <3>1, <1>1
  <2> QED
    BY <2>1
<1>3. ASSUME NEW row \in audit' PROVE row.id \in Asked /\ RowOK(row)'
  <2>1. CASE row \in audit
    <3>1. row.id \in Asked /\ RowOK(row)
      BY <2>1
    <3>2. CASE Decided(row.id)
      BY <3>1, <3>2, <1>1 DEF RowOK
    <3>3. CASE ~Decided(row.id)
      BY <3>1, <3>3, DecidedFacts DEF RowOK
    <3> QED
      BY <3>2, <3>3
  <2> QED
    BY <2>1
<1>4. ASSUME NEW id \in Asked, Decided(id)' PROVE Accounted(id)'
  <2>1. CASE Decided(id)
    <3>1. CASE (\E row \in audit : row.action = "decide" /\ row.id = id) \/ id \in lost
      BY <3>1 DEF Accounted
    <3>2. ASSUME NEW c \in decidedBy[id],
                 ChannelOf[c] = "chat" \/ (desk[c].pc = "log" /\ desk[c].id = id)
          PROVE  Accounted(id)'
      <4>1. c \in Clerks /\ c \in decidedBy'[id]
        BY <1>1, <2>1 DEF DeskTypes
      <4>2. CASE ChannelOf[c] = "chat"
        BY <4>1, <4>2 DEF Accounted
      <4>3. CASE desk[c].pc = "log" /\ desk[c].id = id /\ desk'[c] = desk[c]
        BY <4>1, <4>3 DEF Accounted
      <4>4. CASE desk[c].pc = "log" /\ desk[c].id = id /\ desk'[c] # desk[c]
        BY <4>1, <4>4
      <4> QED
        BY <3>2, <4>2, <4>3, <4>4
    <3> QED
      BY <2>1, <3>1, <3>2 DEF Accounted
  <2> QED
    BY <2>1, <1>4
<1>5. ASSUME NEW c \in Clerks PROVE ClerkOK(c)'
  <2>1. CASE desk'[c] = desk[c]
    <3>1. ClerkOK(c)
      OBVIOUS
    <3>2. desk[c].pc = "log" => desk[c].id \in Asked
      BY DEF DeskTypes, AtDesk, AtRest
    <3>3. desk[c].pc = "book" => desk[c].id \in Asked
      BY DEF DeskTypes, AtDesk, AtRest
    <3> QED
      BY <2>1, <3>1, <3>2, <3>3, <1>1, DecidedFacts DEF ClerkOK
  <2> QED
    BY <2>1
<1> QED
  BY <1>2, <1>3, <1>4, <1>5

DeskStates == {AtRest, [pc |-> "gone"]} \cup AtDesk

\* What a clerk turns to, and nobody else.
LEMMA TurnFacts ==
    ASSUME DeskTypes, NEW c \in Clerks, NEW to \in DeskStates, Turn(c, to)
    PROVE  /\ desk' \in [Clerks -> DeskStates] /\ desk'[c] = to
           /\ \A d \in Clerks : d # c => desk'[d] = desk[d]
BY DEF Turn, DeskTypes, DeskStates

(* A clerk whose stage is one of a decision has a request and a word.      *)
LEMMA AtDeskFacts ==
    ASSUME DeskTypes, NEW c \in Clerks, desk[c].pc \notin {"idle", "gone"}
    PROVE  desk[c] \in AtDesk
BY DEF DeskTypes, AtRest

\* A clerk at a request.
LEMMA BusyFacts ==
    ASSUME NEW at \in {"check", "answer", "log", "resume", "book"}, NEW id \in Asked,
           NEW word \in Words \cup {"completed", "failed"}
    PROVE  Busy(at, id, word) \in DeskStates /\ Busy(at, id, word).pc = at
           /\ Busy(at, id, word).id = id /\ Busy(at, id, word).word = word
BY DEF Busy, DeskStates, AtDesk

\* The facts that each step gives of the table.
TableOK ==
    /\ approvals' \in [Asked -> Undecided \cup Words]
    /\ decidedBy' \in [Asked -> SUBSET Clerks]
    /\ Keeps

\* The requests when no one decides.
LEMMA QuietTable ==
    ASSUME DeskTypes, UNCHANGED <<approvals, decidedBy>>
    PROVE  TableOK /\ \A id \in Asked : Decided(id)' => Decided(id)
BY DEF DeskTypes, TableOK, Keeps, Decided

(* A new request is pending.                                               *)
LEMMA SubmitFacts ==
    ASSUME DeskTypes, NEW id \in Asked, Submit(id), UNCHANGED decidedBy
    PROVE  TableOK /\ \A x \in Asked : Decided(x)' => Decided(x)
BY DEF DeskTypes, TableOK, Keeps, Decided, Submit, Undecided

(* resolve decides a pending request and leaves any other.                 *)
LEMMA ResolveFacts ==
    ASSUME DeskTypes, NEW c \in Clerks, NEW id \in Asked, NEW word \in Words, Resolve(c, id, word)
    PROVE  /\ TableOK
           /\ Pending(id) => Decided(id)' /\ approvals'[id] = word /\ decidedBy'[id] = {c}
           /\ \A x \in Asked : Decided(x)' => Decided(x) \/ (x = id /\ Pending(id))
<1>1. word \notin Undecided
  BY DEF Words, Undecided, Approving, Rejecting
<1>2. CASE Pending(id)
  <2>1. ~Decided(id)
    BY <1>2, DecidedFacts
  <2>2. approvals' = [approvals EXCEPT ![id] = word] /\ decidedBy' = [decidedBy EXCEPT ![id] = {c}]
    BY <1>2 DEF Resolve
  <2> QED
    BY <1>1, <1>2, <2>1, <2>2 DEF TableOK, Keeps, DeskTypes, Decided
<1>3. CASE ~Pending(id)
  <2>1. UNCHANGED <<approvals, decidedBy>>
    BY <1>3 DEF Resolve
  <2> QED
    BY <1>3, <2>1, QuietTable
<1> QED
  BY <1>2, <1>3

(* A request is made: nobody's work changes, but for the one who is asked. *)
LEMMA RequestKeeps ==
    ASSUME DeskInv, NEW id \in Asked,
           \/ SkillAsks(id)
           \/ \E c \in Clerks : desk[c] = AtRest /\ (ChatAsks(c, id) \/ PostTurn(c, id)),
           UNCHANGED shift
    PROVE  DeskInv'
<1>1. Submit(id) /\ UNCHANGED <<decidedBy, audit, told, lost>>
  BY DEF SkillAsks, ChatAsks, PostTurn
<1>2. TableOK /\ \A x \in Asked : Decided(x)' => Decided(x)
  BY <1>1, SubmitFacts
<1>3. /\ desk' \in [Clerks -> DeskStates]
      /\ \A c \in Clerks : desk'[c] = desk[c] \/ (ClerkOK(c)' /\ desk[c].pc = "idle")
  <2>1. CASE desk' = desk
    BY <2>1 DEF DeskTypes, DeskStates
  <2>2. ASSUME NEW c \in Clerks, desk[c] = AtRest, ChatAsks(c, id)
        PROVE  <1>3!:
    <3>1. PICK word \in Wishes("chat") : desk' = [desk EXCEPT ![c] = Busy("answer", id, word)]
      BY <2>2 DEF ChatAsks
    <3>2. word \in Words
      BY DEF Wishes, Words, Approving, Rejecting
    <3>3. /\ Busy("answer", id, word) \in DeskStates
          /\ Busy("answer", id, word).pc = "answer" /\ Busy("answer", id, word).word = word
      BY <3>2, BusyFacts
    <3>4. /\ desk' \in [Clerks -> DeskStates] /\ desk'[c] = Busy("answer", id, word)
          /\ \A d \in Clerks : d # c => desk'[d] = desk[d]
      BY <3>1, <3>3, TurnFacts DEF Turn
    <3>5. ClerkOK(c)'
      BY <3>2, <3>3, <3>4 DEF ClerkOK
    <3> QED
      BY <2>2, <3>4, <3>5 DEF AtRest
  <2> QED
    BY <2>1, <2>2 DEF SkillAsks, PostTurn
<1>4. DeskTypes'
  BY <1>1, <1>2, <1>3 DEF DeskTypes, TableOK, DeskStates
<1> QED
  BY <1>1, <1>2, <1>3, <1>4, DeskFrame DEF TableOK

(* The frame of a step that one clerk takes.                               *)
LEMMA ClerkFrame ==
    ASSUME DeskInv, NEW c \in Clerks, NEW to \in DeskStates, Turn(c, to), UNCHANGED shift,
           TableOK, told' \in SUBSET Told,
           audit \subseteq audit', lost \subseteq lost',
           \A t \in told' : t \in told \/ (ChannelOf[t.by] # "chat" =>
               Decided(t.id)' /\ approvals'[t.id] = t.word /\ decidedBy'[t.id] = {t.by}),
           \A row \in audit' : row \in audit \/ (row.id \in Asked /\ RowOK(row)'),
           \A id \in Asked : Decided(id)' => Decided(id) \/ Accounted(id)',
           to.pc \in {"answer", "check"} => to.word \in Words,
           to.pc = "log" => /\ to.word \in Words /\ Decided(to.id)'
                            /\ approvals'[to.id] = to.word /\ decidedBy'[to.id] = {c},
           to.pc = "book" /\ to.word = "completed" => approvals'[to.id] = "approved",
           \A id \in Asked : desk[c].pc = "log" /\ desk[c].id = id => Accounted(id)'
    PROVE  DeskInv'
<1>1. /\ desk' \in [Clerks -> DeskStates] /\ desk'[c] = to
      /\ \A d \in Clerks : d # c => desk'[d] = desk[d]
  BY TurnFacts
<1>2. DeskTypes'
  BY <1>1 DEF DeskTypes, TableOK, DeskStates
<1>3. ClerkOK(c)'
  BY <1>1 DEF ClerkOK, Decided
<1> QED
  BY <1>1, <1>2, <1>3, DeskFrame DEF TableOK

(* Looking at a list, at a row, at an error: nothing is written.           *)
LEMMA LookKeeps ==
    ASSUME DeskInv, NEW c \in Clerks, Open(c) \/ CliReads(c) \/ ResumeFails(c), UNCHANGED shift
    PROVE  DeskInv'
<1>1. UNCHANGED <<approvals, decidedBy, audit, told, lost>>
  BY DEF Open, CliReads, ResumeFails
<1>2. desk[c].pc # "log"
  BY DEF Open, CliReads, ResumeFails
<1>3. PICK to \in DeskStates : Turn(c, to) /\ to.pc \in {"idle", "check", "answer"}
                               /\ (to.pc \in {"answer", "check"} => to.word \in Words)
  <2>1. CASE Open(c)
    <3>1. PICK id \in Listed(ChannelOf[c]), word \in Wishes(ChannelOf[c]) :
            desk' = [desk EXCEPT ![c] = Busy(IF ChannelOf[c] = "cli" THEN "check" ELSE "answer", id, word)]
      BY <2>1 DEF Open
    <3>2. id \in Asked
      BY DEF Listed, Filtered, PendingOf
    <3>3. word \in Words
      BY DEF Wishes, Words, Approving, Rejecting
    <3> PICK at : at = IF ChannelOf[c] = "cli" THEN "check" ELSE "answer"
      OBVIOUS
    <3>4. at \in {"check", "answer"} /\ Turn(c, Busy(at, id, word))
      BY <3>1 DEF Turn
    <3>5. /\ Busy(at, id, word) \in DeskStates /\ Busy(at, id, word).pc = at
          /\ Busy(at, id, word).word = word
      BY <3>2, <3>3, <3>4, BusyFacts
    <3> QED
      BY <3>3, <3>4, <3>5
  <2>2. CASE CliReads(c)
    <3>1. desk[c] \in AtDesk /\ desk[c].word \in Words
      BY <2>2, AtDeskFacts DEF CliReads, ClerkOK
    <3> PICK answering : answering = [desk[c] EXCEPT !.pc = "answer"]
      OBVIOUS
    <3>2. answering \in DeskStates /\ answering.pc = "answer" /\ answering.word = desk[c].word
      BY <3>1 DEF AtDesk, DeskStates
    <3>3. AtRest \in DeskStates /\ AtRest.pc = "idle"
      BY DEF DeskStates, AtRest
    <3> QED
      BY <2>2, <3>1, <3>2, <3>3 DEF CliReads
  <2>3. CASE ResumeFails(c)
    BY <2>3 DEF ResumeFails, DeskStates, AtRest
  <2> QED
    BY <2>1, <2>2, <2>3
<1>4. TableOK /\ \A id \in Asked : Decided(id)' => Decided(id)
  BY <1>1, QuietTable
<1> QED
  BY <1>1, <1>2, <1>3, <1>4, ClerkFrame DEF DeskTypes

(* A decision at a desk that looks at what the table answers.              *)
LEMMA DecideKeeps ==
    ASSUME DeskInv, NEW c \in Clerks, CliDecides(c) \/ ServiceDecides(c), UNCHANGED shift
    PROVE  DeskInv'
<1> PICK id : id = desk[c].id
  OBVIOUS
<1> PICK word : word = desk[c].word
  OBVIOUS
<1> PICK logging : logging = [desk[c] EXCEPT !.pc = "log"]
  OBVIOUS
<1>1. desk[c].pc = "answer" /\ desk[c] \in AtDesk /\ id \in Asked /\ word \in Words
      /\ UNCHANGED <<audit, lost>>
  BY AtDeskFacts DEF CliDecides, ServiceDecides, ClerkOK, AtDesk
<1>2. logging \in DeskStates /\ logging.pc = "log" /\ logging.id = id /\ logging.word = word
  BY <1>1 DEF AtDesk, DeskStates
<1>3. AtRest \in DeskStates /\ AtRest.pc = "idle"
  BY DEF DeskStates, AtRest
<1>4. CASE Resolve(c, id, word) /\ Pending(id) /\ Turn(c, logging)
  <2>1. /\ TableOK /\ Decided(id)' /\ approvals'[id] = word /\ decidedBy'[id] = {c}
        /\ \A x \in Asked : Decided(x)' => Decided(x) \/ x = id
    BY <1>1, <1>4, ResolveFacts
  <2>2. desk'[c] = logging
    BY <1>2, <1>4, TurnFacts
  <2>3. Accounted(id)'
    BY <1>2, <2>1, <2>2 DEF Accounted
  <2>4. told' \in SUBSET Told
        /\ \A t \in told' : t \in told \/ (t.by = c /\ t.id = id /\ t.word = word)
    <3>1. told' = told \/ told' = told \cup {[by |-> c, id |-> id, word |-> word]}
      BY <1>4 DEF CliDecides, ServiceDecides, Tell
    <3> QED
      BY <3>1, <1>1 DEF DeskTypes, Told
  <2> QED
    BY <1>1, <1>2, <1>4, <2>1, <2>3, <2>4, ClerkFrame
<1>5. CASE Resolve(c, id, word) /\ ~Pending(id) /\ Turn(c, AtRest) /\ UNCHANGED told
  <2>1. TableOK /\ \A x \in Asked : Decided(x)' => Decided(x)
    BY <1>1, <1>5, ResolveFacts
  <2> QED
    BY <1>1, <1>3, <1>5, <2>1, ClerkFrame DEF DeskTypes
<1>6. CASE UNCHANGED <<approvals, decidedBy, told>> /\ Turn(c, AtRest)
  <2>1. TableOK /\ \A x \in Asked : Decided(x)' => Decided(x)
    BY <1>6, QuietTable
  <2> QED
    BY <1>1, <1>3, <1>6, <2>1, ClerkFrame DEF DeskTypes
<1> QED
  BY <1>4, <1>5, <1>6 DEF CliDecides, ServiceDecides

(* The audit row of a decision tells what is stored.                       *)
LEMMA LogKeeps ==
    ASSUME DeskInv, NEW c \in Clerks, Log(c), UNCHANGED shift
    PROVE  DeskInv'
<1> PICK id : id = desk[c].id
  OBVIOUS
<1> PICK word : word = desk[c].word
  OBVIOUS
<1> PICK resuming : resuming = [desk[c] EXCEPT !.pc = "resume"]
  OBVIOUS
<1>1. /\ desk[c].pc = "log" /\ desk[c] \in AtDesk /\ id \in Asked /\ word \in Words
      /\ Decided(id) /\ approvals[id] = word /\ decidedBy[id] = {c}
      /\ UNCHANGED <<approvals, decidedBy, lost>>
  BY AtDeskFacts DEF Log, ClerkOK, AtDesk
<1>2. TableOK /\ \A x \in Asked : Decided(x)' => Decided(x)
  BY <1>1, QuietTable
<1>3. Decided(id)' /\ approvals'[id] = word /\ decidedBy'[id] = {c}
  BY <1>1 DEF Decided
<1>4. PICK space \in Booked(c, id) : audit' = audit \cup {Row(c, id, "decide", Side(word), space)}
  BY DEF Log
<1> PICK row : row = Row(c, id, "decide", Side(word), space)
  OBVIOUS
<1>5. row.by = c /\ row.id = id /\ row.action = "decide" /\ row.decision = Side(word) /\ row.in = space
  BY DEF Row
<1>6. ChannelOf[c] = "cli" => space = HomeOf[id]
  BY DEF Booked
<1>7. RowOK(row)'
  BY <1>3, <1>5, <1>6 DEF RowOK, Side
<1>8. audit' = audit \cup {row} /\ row.id \in Asked /\ Accounted(id)'
  BY <1>1, <1>4, <1>5 DEF Accounted
<1>9. PICK to \in {AtRest, resuming} : Turn(c, to)
  BY DEF Log
<1>10. resuming \in DeskStates /\ resuming.pc = "resume" /\ AtRest \in DeskStates /\ AtRest.pc = "idle"
  BY <1>1 DEF AtDesk, DeskStates, AtRest
<1>11. told' \in SUBSET Told
       /\ \A t \in told' : t \in told \/ (t.by = c /\ t.id = id /\ t.word = word)
  <2>1. told' = told \/ told' = told \cup {[by |-> c, id |-> id, word |-> word]}
    BY DEF Log, Tell
  <2> QED
    BY <2>1, <1>1 DEF DeskTypes, Told
<1> QED
  BY <1>1, <1>2, <1>3, <1>7, <1>8, <1>9, <1>10, <1>11, ClerkFrame

(* The chat tells its user whatever the table answers, and logs nothing.   *)
LEMMA ChatKeeps ==
    ASSUME DeskInv, NEW c \in Clerks, ChatDecides(c), UNCHANGED shift
    PROVE  DeskInv'
<1> PICK id : id = desk[c].id
  OBVIOUS
<1> PICK word : word = desk[c].word
  OBVIOUS
<1>1. /\ desk[c].pc = "answer" /\ desk[c] \in AtDesk /\ id \in Asked /\ word \in Words
      /\ ChannelOf[c] = "chat" /\ Resolve(c, id, word) /\ UNCHANGED <<audit, lost>>
  BY AtDeskFacts DEF ChatDecides, ClerkOK, AtDesk
<1>2. /\ TableOK
      /\ Pending(id) => Decided(id)' /\ decidedBy'[id] = {c}
      /\ \A x \in Asked : Decided(x)' => Decided(x) \/ (x = id /\ Pending(id))
  BY <1>1, ResolveFacts
<1>3. Pending(id) => Accounted(id)'
  BY <1>1, <1>2 DEF Accounted
<1>4. PICK to \in {AtRest, [pc |-> "gone"]} : Turn(c, to)
  BY DEF ChatDecides
<1>5. to \in DeskStates /\ to.pc \in {"idle", "gone"}
  BY DEF DeskStates, AtRest
<1>6. told' = told \cup {[by |-> c, id |-> id, word |-> word]}
  BY DEF ChatDecides, Tell
<1>7. told' \in SUBSET Told /\ \A t \in told' : t \in told \/ t.by = c
  BY <1>1, <1>6 DEF DeskTypes, Told
<1> QED
  BY <1>1, <1>2, <1>3, <1>4, <1>5, <1>7, ClerkFrame

(* cogito approval resume, and its audit row.                              *)
LEMMA ResumeKeeps ==
    ASSUME DeskInv, NEW c \in Clerks, ResumeRun(c) \/ BookResume(c), UNCHANGED shift
    PROVE  DeskInv'
<1>1. UNCHANGED <<approvals, decidedBy, told, lost>>
  BY DEF ResumeRun, BookResume
<1>2. TableOK /\ \A x \in Asked : Decided(x)' => Decided(x)
  BY <1>1, QuietTable
<1>3. AtRest \in DeskStates /\ AtRest.pc = "idle"
  BY DEF DeskStates, AtRest
<1>4. CASE ResumeRun(c)
  <2>0. PICK id \in OfSkill : \E outcome \in Outcomes(id) :
           Turn(c, IF outcome = "refused" THEN AtRest ELSE Busy("book", id, outcome))
    BY <1>4 DEF ResumeRun
  <2>1. PICK outcome \in Outcomes(id) :
           Turn(c, IF outcome = "refused" THEN AtRest ELSE Busy("book", id, outcome))
    BY <2>0
  <2>2. id \in Asked
    BY DeskAssumption
  <2>3. /\ outcome \in {"rejected", "completed", "failed", "refused"}
        /\ outcome = "completed" => approvals[id] = "approved"
    BY DEF Outcomes
  <2>4. CASE outcome = "refused"
    BY <1>1, <1>2, <1>3, <1>4, <2>1, <2>4, ClerkFrame DEF ResumeRun, DeskTypes
  <2>5. CASE outcome # "refused"
    <3> PICK to : to = Busy("book", id, outcome)
      OBVIOUS
    <3>1. to \in DeskStates /\ to.pc = "book" /\ to.id = id /\ to.word = outcome
      BY <2>2, <2>3, <2>5, BusyFacts DEF Words, Rejecting
    <3> QED
      BY <1>1, <1>2, <1>4, <2>1, <2>3, <2>5, <3>1, ClerkFrame DEF ResumeRun, DeskTypes
  <2> QED
    BY <2>4, <2>5
<1>5. CASE BookResume(c)
  <2> PICK id : id = desk[c].id
    OBVIOUS
  <2> PICK decision : decision = IF desk[c].word = "completed" THEN "allow" ELSE "deny"
    OBVIOUS
  <2> PICK row : row = Row(c, id, "resume", decision, HomeOf[id])
    OBVIOUS
  <2>1. desk[c].pc = "book" /\ desk[c] \in AtDesk /\ id \in Asked
    BY <1>5, AtDeskFacts DEF BookResume, AtDesk
  <2>2. audit' = audit \cup {row} /\ Turn(c, AtRest)
    BY <1>5 DEF BookResume
  <2>3. row.id = id /\ row.action = "resume" /\ row.decision = decision
    BY DEF Row
  <2>4. RowOK(row)'
    BY <1>1, <2>1, <2>3 DEF RowOK, ClerkOK
  <2> QED
    BY <1>1, <1>2, <1>3, <2>1, <2>2, <2>3, <2>4, ClerkFrame DEF DeskTypes
<1> QED
  BY <1>4, <1>5

(* A process that ends between its decision and the log is remembered.     *)
LEMMA StopKeeps ==
    ASSUME DeskInv, NEW c \in Clerks, Stop(c), UNCHANGED shift
    PROVE  DeskInv'
<1>1. UNCHANGED <<approvals, decidedBy, audit, told>> /\ Turn(c, AtRest) /\ lost \subseteq lost'
  BY DEF Stop
<1>2. TableOK /\ \A x \in Asked : Decided(x)' => Decided(x)
  BY <1>1, QuietTable
<1>3. AtRest \in DeskStates /\ AtRest.pc = "idle"
  BY DEF DeskStates, AtRest
<1>4. ASSUME NEW id \in Asked, desk[c].pc = "log", desk[c].id = id
      PROVE  Accounted(id)'
  BY <1>4 DEF Stop, Accounted
<1> QED
  BY <1>1, <1>2, <1>3, <1>4, ClerkFrame DEF DeskTypes

(* The invariant of the desks.                                             *)
THEOREM DeskInvariance == Spec => []DeskInv
<1>1. Init => DeskInv
  <2> SUFFICES ASSUME Init PROVE DeskInv
    OBVIOUS
  <2>1. /\ approvals = [id \in Asked |-> "absent"] /\ decidedBy = [id \in Asked |-> {}]
        /\ audit = {} /\ desk = [c \in Clerks |-> AtRest] /\ shift \in Shifts /\ told = {}
    BY DEF Init, DeskInit
  <2>2. \A c \in Clerks : desk[c] = AtRest /\ desk[c].pc = "idle"
    BY <2>1 DEF AtRest
  <2>3. shift \in SUBSET Clerks
    BY <2>1, DeskAssumption
  <2>4. DeskTypes /\ \A id \in Asked : ~Decided(id)
    BY <2>1, <2>3 DEF DeskTypes, Decided, Undecided
  <2> QED
    BY <2>1, <2>2, <2>4 DEF ToldOK, ClerkOK
<1>2. DeskInv /\ [Next]_vars => DeskInv'
  <2> SUFFICES ASSUME DeskInv, [Next]_vars PROVE DeskInv'
    OBVIOUS
  <2>1. CASE UNCHANGED deskVars
    BY <2>1 DEF deskVars, DeskTypes, ToldOK, RowOK, Accounted, ClerkOK, Decided
  <2>2. CASE DeskStep
    <3>1. UNCHANGED shift /\ shift \subseteq Clerks
      BY <2>2 DEF DeskStep, DeskTypes
    <3>2. CASE (\E id \in Asked : SkillAsks(id)) \/
               (\E c \in shift, id \in Asked : desk[c] = AtRest /\ (ChatAsks(c, id) \/ PostTurn(c, id)))
      BY <3>1, <3>2, RequestKeeps
    <3>3. ASSUME NEW c \in shift,
                 \/ Open(c) \/ CliReads(c) \/ CliDecides(c) \/ ServiceDecides(c) \/ Log(c)
                 \/ ResumeFails(c) \/ ChatDecides(c) \/ ResumeRun(c) \/ BookResume(c) \/ Stop(c)
          PROVE  DeskInv'
      BY <3>1, <3>3, LookKeeps, DecideKeeps, LogKeeps, ChatKeeps, ResumeKeeps, StopKeeps
    <3> QED
      BY <2>2, <3>2, <3>3 DEF DeskStep
  <2> QED
    BY <2>1, <2>2 DEF Next, vars
<1> QED
  BY <1>1, <1>2, PTL DEF Spec

(* A decision stands as it was taken, however many desks take it at once,  *)
(* and the audit log tells it, unless its decider was at a chat, is about  *)
(* to log it or was stopped before (ApprovalApplicationService.resolve).   *)
THEOREM DecisionsStand == Spec => []DecisionOnRecord
<1>1. DeskInv => DecisionOnRecord
  <2> SUFFICES ASSUME DeskInv PROVE DecisionOnRecord
    OBVIOUS
  <2>1. \A space, action : Page(space, action) =
          {row \in audit : (space = "*" \/ row.in = space) /\ row.action = action}
    BY DEF Page, RowsOf
  <2>2. \A t \in told : ChannelOf[t.by] # "chat" =>
           approvals[t.id] = t.word /\ decidedBy[t.id] = {t.by}
    BY DEF ToldOK
  <2>3. ASSUME NEW row \in Page("*", "decide")
        PROVE  /\ Decided(row.id) /\ Side(approvals[row.id]) = row.decision
               /\ decidedBy[row.id] = {row.by}
               /\ ChannelOf[row.by] = "cli" => row \in Page(HomeOf[row.id], "decide")
    BY <2>1 DEF RowOK
  <2>4. ASSUME NEW id \in Asked, Decided(id)
        PROVE  \/ \E row \in Page("*", "decide") : row.id = id
               \/ id \in lost
               \/ \E c \in decidedBy[id] : ChannelOf[c] = "chat" \/ (desk[c].pc = "log" /\ desk[c].id = id)
    BY <2>1, <2>4 DEF Accounted
  <2>5. \A row \in Page("*", "resume") : row.decision = "allow" => approvals[row.id] = "approved"
    BY <2>1 DEF RowOK
  <2> QED
    BY <2>2, <2>3, <2>4, <2>5 DEF DecisionOnRecord
<1> QED
  BY <1>1, DeskInvariance, PTL

-----------------------------------------------------------------------------
(* Reports *)

Skills == {"consolidation", "digest", "extraction", "brief", "status", "review"}

Reads(skill) ==
    CASE skill \in {"consolidation", "digest"} -> 1
      [] skill \in {"extraction", "status"} -> 4
      [] skill = "brief" -> 6
      [] skill = "review" -> 8

ReportStages == {"idle", "span", "read", "log", "collected", "artifact", "audit", "notify", "close",
                 "done", "raised", "failed"}

IsSequence(seen) == \E U : seen \in Seq(U)

IsReport(t) ==
    /\ t \in [skill : Skills \cup {"none"}, at : ReportStages, given : BOOLEAN,
              seen : {t.seen}, found : {t.found}, trace : {"none", "open", "ended"},
              span : {"none", "open", "ended"}, artifact : {"none", "made", "audited"}]
    /\ IsSequence(t.seen)
    /\ t.skill = "none" <=> t.at = "idle"

\* The tables a review reads.
ReviewTables == <<"traces", "calls", "approvals", "calls", "models", "outbox", "files", "skills">>

\* What one SELECT returned.
ReadOK(skill, i, S) ==
    /\ skill \in {"consolidation", "digest"} => IsFiniteSet(S)
    /\ skill = "consolidation" => \E stock \in Stocks : S \subseteq {x \in stock : x.in = "memories"}
    /\ skill = "review" => \A x \in S : x.in = ReviewTables[i]
    /\ skill = "review" /\ i = 1 => \A x \in S : x.tag.status # "dead_letter"
    /\ skill = "review" /\ i = 6 => \A x \in S : x.tag.status = "dead_letter"

AllRead(t) == t.found = Findings(t.skill, t.seen) /\ Len(t.seen) = Reads(t.skill)

\* A report, as far as it has come.
ReportOK(t) ==
    /\ IsReport(t)
    /\ \A i \in 1..Len(t.seen) : ReadOK(t.skill, i, t.seen[i])
    /\ t.at \in {"idle", "span"} => t.seen = <<>>
    /\ t.at = "read" => Len(t.seen) < Reads(t.skill)
    /\ t.at = "log" => Len(t.seen) = Reads(t.skill)
    /\ t.at \in {"idle", "span", "read", "log"} => t.found = {}
    /\ t.at \in {"collected", "artifact", "audit", "notify", "close", "done"} => AllRead(t)
    /\ t.found # {} => AllRead(t)
    /\ t.at \in {"artifact", "audit", "notify", "close", "done"} => t.span = "ended"
    /\ t.at \in {"notify", "close", "done"} => t.artifact = "audited"
    /\ t.at = "done" => t.trace = "ended" /\ ~t.given

Holds(table, r, count) == \E y \in table : y.in = "artifacts" /\ y.tag.by = r /\ y.tag.count = count

\* The tables: notices have their columns, memories are those of the start.
TablesOK ==
    /\ IsFiniteSet(rows) /\ next \in Nat
    /\ \A x \in rows : x.in = "inbox" => IsNotice(x.tag) /\ x = [in |-> x.in, n |-> x.n, tag |-> x.tag]
    /\ \E stock \in Stocks : {x \in rows : x.in = "memories"} \subseteq stock

ReportsInv ==
    /\ TablesOK /\ agenda \subseteq Skills
    /\ report = [r \in ReportRuns |-> report[r]]
    /\ \A r \in ReportRuns : ReportOK(report[r])
    /\ \A r \in ReportRuns : report[r].at \in {"audit", "notify", "close", "done"} =>
          Holds(rows, r, Cardinality(report[r].found))
    /\ \A x \in rows : \A r \in ReportRuns :
          x.in = "inbox" /\ x.tag.by = r => Holds(rows, r, x.tag.count)

\* Artifacts stay.
LEMMA HeldStays ==
    ASSUME NEW old, NEW new, \A y \in old : y.in = "artifacts" => y \in new
    PROVE  \A r, count : Holds(old, r, count) => Holds(new, r, count)
BY DEF Holds

\* A step of one report.
LEMMA ReportGoes ==
    ASSUME ReportsInv, NEW r \in ReportRuns, NEW t, Go(r, t), ReportOK(t),
           TablesOK', agenda' \subseteq Skills,
           \A y \in rows : y.in = "artifacts" => y \in rows',
           t.at \in {"audit", "notify", "close", "done"} => Holds(rows', r, Cardinality(t.found)),
           \A x \in rows' : x.in = "inbox" /\ x \notin rows =>
               \A q \in ReportRuns : x.tag.by = q => Holds(rows', q, x.tag.count)
    PROVE  ReportsInv'
<1>1. report' = [q \in ReportRuns |-> report'[q]] /\ report'[r] = t
      /\ \A q \in ReportRuns \ {r} : report'[q] = report[q]
  BY DEF ReportsInv, Go
<1>2. \A q, count : Holds(rows, q, count) => Holds(rows', q, count)
  BY HeldStays
<1>3. \A q \in ReportRuns : ReportOK(report'[q])
  BY <1>1 DEF ReportsInv
<1>4. \A q \in ReportRuns : report'[q].at \in {"audit", "notify", "close", "done"} =>
          Holds(rows', q, Cardinality(report'[q].found))
  BY <1>1, <1>2 DEF ReportsInv
<1>5. \A x \in rows' : \A q \in ReportRuns : x.in = "inbox" /\ x.tag.by = q => Holds(rows', q, x.tag.count)
  BY <1>2 DEF ReportsInv
<1> QED BY <1>1, <1>3, <1>4, <1>5 DEF ReportsInv

\* A step of one report that writes nothing.
LEMMA OnlyKeeps ==
    ASSUME ReportsInv, NEW r \in ReportRuns, NEW t, Only(r, t), ReportOK(t),
           t.at \in {"audit", "notify", "close", "done"} => Holds(rows, r, Cardinality(t.found))
    PROVE  ReportsInv'
<1>1. Go(r, t) /\ UNCHANGED <<rows, next, agenda>>
  BY DEF Only
<1>2. TablesOK' /\ agenda' \subseteq Skills
  BY <1>1 DEF ReportsInv, TablesOK
<1> QED BY <1>1, <1>2, ReportGoes

Report(skill, at, given, seen, found, trace, span, artifact) ==
    [skill |-> skill, at |-> at, given |-> given, seen |-> seen, found |-> found, trace |-> trace,
     span |-> span, artifact |-> artifact]

\* The one report with these fields.
Exactly(skill, at, given, seen, found, trace, span, artifact) ==
    [skill : {skill}, at : {at}, given : {given}, seen : {seen}, found : {found},
     trace : {trace}, span : {span}, artifact : {artifact}]

\* A report of these fields is the one there is.
LEMMA ExactFacts ==
    \A skill, at, given, seen, found, trace, span, artifact :
        \A u \in Exactly(skill, at, given, seen, found, trace, span, artifact) :
            u = Report(skill, at, given, seen, found, trace, span, artifact)
BY DEF Exactly, Report

\* The fields after each update the steps make.
LEMMA AtChanged ==
    ASSUME NEW t, IsReport(t), NEW at
    PROVE  [t EXCEPT !.at = at] =
               Report(t.skill, at, t.given, t.seen, t.found, t.trace, t.span, t.artifact)
<1>1. [t EXCEPT !.at = at] \in Exactly(t.skill, at, t.given, t.seen, t.found, t.trace, t.span, t.artifact)
  BY DEF IsReport, Exactly
<1> QED BY <1>1, ExactFacts

LEMMA SeenChanged ==
    ASSUME NEW t, IsReport(t), NEW at, NEW value
    PROVE  [t EXCEPT !.seen = value, !.at = at] =
               Report(t.skill, at, t.given, value, t.found, t.trace, t.span, t.artifact)
<1>1. [t EXCEPT !.seen = value, !.at = at] \in Exactly(t.skill, at, t.given, value, t.found, t.trace, t.span, t.artifact)
  BY DEF IsReport, Exactly
<1> QED BY <1>1, ExactFacts

LEMMA FoundChanged ==
    ASSUME NEW t, IsReport(t), NEW at, NEW value
    PROVE  [t EXCEPT !.found = value, !.at = at] =
               Report(t.skill, at, t.given, t.seen, value, t.trace, t.span, t.artifact)
<1>1. [t EXCEPT !.found = value, !.at = at] \in Exactly(t.skill, at, t.given, t.seen, value, t.trace, t.span, t.artifact)
  BY DEF IsReport, Exactly
<1> QED BY <1>1, ExactFacts

LEMMA TraceChanged ==
    ASSUME NEW t, IsReport(t), NEW at, NEW value
    PROVE  [t EXCEPT !.trace = value, !.at = at] =
               Report(t.skill, at, t.given, t.seen, t.found, value, t.span, t.artifact)
<1>1. [t EXCEPT !.trace = value, !.at = at] \in Exactly(t.skill, at, t.given, t.seen, t.found, value, t.span, t.artifact)
  BY DEF IsReport, Exactly
<1> QED BY <1>1, ExactFacts

LEMMA AtTraceChanged ==
    ASSUME NEW t, IsReport(t), NEW at, NEW value
    PROVE  [t EXCEPT !.at = at, !.trace = value] =
               Report(t.skill, at, t.given, t.seen, t.found, value, t.span, t.artifact)
<1>1. [t EXCEPT !.at = at, !.trace = value] \in Exactly(t.skill, at, t.given, t.seen, t.found, value, t.span, t.artifact)
  BY DEF IsReport, Exactly
<1> QED BY <1>1, ExactFacts

LEMMA SpanChanged ==
    ASSUME NEW t, IsReport(t), NEW at, NEW value
    PROVE  [t EXCEPT !.span = value, !.at = at] =
               Report(t.skill, at, t.given, t.seen, t.found, t.trace, value, t.artifact)
<1>1. [t EXCEPT !.span = value, !.at = at] \in Exactly(t.skill, at, t.given, t.seen, t.found, t.trace, value, t.artifact)
  BY DEF IsReport, Exactly
<1> QED BY <1>1, ExactFacts

LEMMA AtSpanChanged ==
    ASSUME NEW t, IsReport(t), NEW at, NEW value
    PROVE  [t EXCEPT !.at = at, !.span = value] =
               Report(t.skill, at, t.given, t.seen, t.found, t.trace, value, t.artifact)
<1>1. [t EXCEPT !.at = at, !.span = value] \in Exactly(t.skill, at, t.given, t.seen, t.found, t.trace, value, t.artifact)
  BY DEF IsReport, Exactly
<1> QED BY <1>1, ExactFacts

LEMMA ArtifactChanged ==
    ASSUME NEW t, IsReport(t), NEW at, NEW value
    PROVE  [t EXCEPT !.artifact = value, !.at = at] =
               Report(t.skill, at, t.given, t.seen, t.found, t.trace, t.span, value)
<1>1. [t EXCEPT !.artifact = value, !.at = at] \in Exactly(t.skill, at, t.given, t.seen, t.found, t.trace, t.span, value)
  BY DEF IsReport, Exactly
<1> QED BY <1>1, ExactFacts

\* The types of the fields.
LEMMA ReportFacts ==
    ASSUME NEW t, IsReport(t)
    PROVE  /\ t.skill \in Skills \cup {"none"} /\ t.at \in ReportStages /\ t.given \in BOOLEAN
           /\ t.trace \in {"none", "open", "ended"} /\ t.span \in {"none", "open", "ended"}
           /\ t.artifact \in {"none", "made", "audited"}
<1> HIDE DEF Skills, ReportStages
<1> QED BY DEF IsReport

\* A report made of typed fields is one.
LEMMA MadeReport ==
    ASSUME NEW skill \in Skills, NEW at \in ReportStages \ {"idle"}, NEW given \in BOOLEAN, NEW seen, NEW found,
           IsSequence(seen),
           NEW trace \in {"none", "open", "ended"}, NEW span \in {"none", "open", "ended"},
           NEW artifact \in {"none", "made", "audited"},
           NEW u, u = Report(skill, at, given, seen, found, trace, span, artifact)
    PROVE  /\ IsReport(u) /\ u.skill = skill /\ u.at = at /\ u.given = given /\ u.seen = seen
           /\ u.found = found /\ u.trace = trace /\ u.span = span /\ u.artifact = artifact
<1>1. /\ u.skill = skill /\ u.at = at /\ u.given = given /\ u.seen = seen
      /\ u.found = found /\ u.trace = trace /\ u.span = span /\ u.artifact = artifact
  BY DEF Report
<1>2. u \in [skill : Skills \cup {"none"}, at : ReportStages, given : BOOLEAN,
              seen : {seen}, found : {found}, trace : {"none", "open", "ended"},
              span : {"none", "open", "ended"}, artifact : {"none", "made", "audited"}]
  <2> HIDE DEF Skills, ReportStages
  <2> QED BY DEF Report
<1>3. skill # "none"
  BY DEF Skills
<1> QED BY <1>1, <1>2, <1>3 DEF IsReport

\* The same for what is made of another report of the skill.
LEMMA NextReport ==
    ASSUME NEW t, IsReport(t), t.skill \in Skills,
           NEW at \in ReportStages \ {"idle"}, NEW seen, NEW found, IsSequence(seen),
           NEW trace \in {"none", "open", "ended"}, NEW span \in {"none", "open", "ended"},
           NEW artifact \in {"none", "made", "audited"},
           NEW u, u = Report(t.skill, at, t.given, seen, found, trace, span, artifact)
    PROVE  /\ IsReport(u) /\ u.skill = t.skill /\ u.at = at /\ u.given = t.given /\ u.seen = seen
           /\ u.found = found /\ u.trace = trace /\ u.span = span /\ u.artifact = artifact
<1>1. t.given \in BOOLEAN
  BY ReportFacts
<1> QED BY <1>1, MadeReport

\* The first row of a report, and what is read and found at the end.
LEMMA InTheReport ==
    ASSUME ReportsInv, NEW r \in ReportRuns
    PROVE  /\ ReportOK(report[r]) /\ IsReport(report[r]) /\ IsSequence(report[r].seen)
           /\ report[r].skill = "none" <=> report[r].at = "idle"
           /\ report[r].at # "idle" => report[r].skill \in Skills
<1>1. ReportOK(report[r]) /\ IsReport(report[r])
  BY DEF ReportsInv, ReportOK
<1> QED BY <1>1, ReportFacts DEF IsReport

\* What the SELECTs of a skill return.
LEMMA SelectionFacts ==
    ASSUME TablesOK, NEW skill \in Skills
    PROVE  /\ Len(Selection(skill)) = Reads(skill)
           /\ \A i \in 1..Reads(skill) : ReadOK(skill, i, Selection(skill)[i])
<1>1. CASE skill = "consolidation"
  <2>1. Selection(skill) = <<In("memories")>> /\ Reads(skill) = 1
    BY <1>1 DEF Selection, ConsolidationReads, Reads
  <2>2. ReadOK("consolidation", 1, In("memories"))
    <3>1. IsFiniteSet(In("memories"))
      BY FS_Subset DEF TablesOK, In
    <3>2. PICK stock \in Stocks : {x \in rows : x.in = "memories"} \subseteq stock
      BY DEF TablesOK
    <3>3. In("memories") \subseteq {x \in stock : x.in = "memories"}
      BY <3>2 DEF In
    <3> QED BY <3>1, <3>3 DEF ReadOK
  <2>3. Len(Selection(skill)) = Reads(skill) /\ Selection(skill)[1] = In("memories")
    BY <2>1
  <2>4. \A i \in 1..Reads(skill) : i = 1
    BY <2>1
  <2> HIDE DEF In
  <2> QED BY <1>1, <2>2, <2>3, <2>4
<1>2. CASE skill = "digest"
  <2> DEFINE S == {x \in In("inbox") : Unread(x)}
  <2>1. Selection(skill) = <<S>> /\ Reads(skill) = 1
    BY <1>2 DEF Selection, DigestReads, Reads
  <2>2. ReadOK("digest", 1, S)
    <3>1. IsFiniteSet(S)
      BY FS_Subset DEF TablesOK, In
    <3> HIDE DEF S
    <3> QED BY <3>1 DEF ReadOK
  <2>3. Len(Selection(skill)) = Reads(skill) /\ Selection(skill)[1] = S
    BY <2>1
  <2>4. \A i \in 1..Reads(skill) : i = 1
    BY <2>1
  <2> HIDE DEF S
  <2> QED BY <1>2, <2>2, <2>3, <2>4
<1>3. CASE skill = "extraction"
  <2>1. Len(Selection(skill)) = 4 /\ Reads(skill) = 4
    BY <1>3 DEF Selection, ExtractionReads, Reads
  <2>2. \A i, S : ReadOK(skill, i, S)
    BY <1>3 DEF ReadOK
  <2> QED BY <2>1, <2>2
<1>4. CASE skill = "brief"
  <2>1. Len(Selection(skill)) = 6 /\ Reads(skill) = 6
    BY <1>4 DEF Selection, BriefReads, Reads
  <2>2. \A i, S : ReadOK(skill, i, S)
    BY <1>4 DEF ReadOK
  <2> QED BY <2>1, <2>2
<1>5. CASE skill = "status"
  <2>1. Len(Selection(skill)) = 4 /\ Reads(skill) = 4
    BY <1>5 DEF Selection, StatusReads, Reads
  <2>2. \A i, S : ReadOK(skill, i, S)
    BY <1>5 DEF ReadOK
  <2> QED BY <2>1, <2>2
<1>6. CASE skill = "review"
  <2>1. Len(Selection(skill)) = 8 /\ Reads(skill) = 8 /\ Selection(skill) = ReviewReads
    BY <1>6 DEF Selection, ReviewReads, Reads
  <2>2. /\ \A x \in ReviewReads[1] : x.in = "traces" /\ x.tag.status # "dead_letter"
        /\ \A x \in ReviewReads[2] : x.in = "calls"
        /\ \A x \in ReviewReads[3] : x.in = "approvals"
        /\ \A x \in ReviewReads[4] : x.in = "calls"
        /\ \A x \in ReviewReads[5] : x.in = "models"
        /\ \A x \in ReviewReads[6] : x.in = "outbox" /\ x.tag.status = "dead_letter"
        /\ \A x \in ReviewReads[7] : x.in = "files"
        /\ \A x \in ReviewReads[8] : x.in = "skills"
    BY DEF ReviewReads, Newest, In
  <2>3. ASSUME NEW i \in 1..8 PROVE ReadOK("review", i, ReviewReads[i])
    <3>1. \A x \in ReviewReads[i] : x.in = ReviewTables[i]
      <4>1. i = 1 \/ i = 2 \/ i = 3 \/ i = 4 \/ i = 5 \/ i = 6 \/ i = 7 \/ i = 8
        OBVIOUS
      <4> HIDE DEF ReviewReads
      <4> QED BY <2>2, <4>1 DEF ReviewTables
    <3> HIDE DEF ReviewReads
    <3> QED BY <2>2, <3>1 DEF ReadOK
  <2> QED BY <1>6, <2>1, <2>3
<1> QED BY <1>1, <1>2, <1>3, <1>4, <1>5, <1>6 DEF Skills

\* One lemma per step of a report.
LEMMA StartKeeps ==
    ASSUME ReportsInv, NEW r \in ReportRuns, NEW skill \in agenda, NEW given \in BOOLEAN,
           Start(r, skill, given)
    PROVE  ReportsInv'
<1> DEFINE t == [Idle EXCEPT !.skill = skill, !.given = given, !.at = "span", !.trace = "open"]
           u == Report(skill, "span", given, <<>>, {}, "open", "none", "none")
<1>1. Go(r, t) /\ agenda' = agenda \ {skill} /\ UNCHANGED <<rows, next>>
  BY DEF Start
<1>2. t = u
  <2>1. t \in [skill : {skill}, at : {"span"}, given : {given}, seen : {<<>>}, found : {{}},
                trace : {"open"}, span : {"none"}, artifact : {"none"}]
    BY DEF Idle
  <2> HIDE DEF t
  <2> QED BY <2>1 DEF Report
<1>3. skill \in Skills
  BY DEF ReportsInv
<1>4. ReportOK(u) /\ u.at = "span"
  <2>1. IsSequence(<<>>) /\ Len(<<>>) = 0
    BY EmptySeq DEF IsSequence
  <2>2. /\ IsReport(u) /\ u.skill = skill /\ u.at = "span" /\ u.seen = <<>>
        /\ u.found = {}
    <3>1. "span" \in ReportStages \ {"idle"}
      BY DEF ReportStages
    <3> HIDE DEF u
    <3> QED BY <1>3, <2>1, <3>1, MadeReport DEF u
  <2> HIDE DEF u
  <2> QED BY <2>1, <2>2 DEF ReportOK
<1>5. TablesOK' /\ agenda' \subseteq Skills
  BY <1>1 DEF ReportsInv, TablesOK
<1> HIDE DEF t, u
<1> QED BY <1>1, <1>2, <1>4, <1>5, ReportGoes

LEMMA OpenSpanKeeps ==
    ASSUME ReportsInv, NEW r \in ReportRuns, OpenSpan(r)
    PROVE  ReportsInv'
<1> DEFINE t == report[r]
           u == Report(t.skill, "read", t.given, t.seen, t.found, t.trace, "open", t.artifact)
<1>1. t.at = "span" /\ Only(r, [t EXCEPT !.at = "read", !.span = "open"])
  BY DEF OpenSpan
<1>2. ReportOK(t) /\ IsReport(t) /\ t.skill \in Skills /\ IsSequence(t.seen)
  BY <1>1, InTheReport
<1> HIDE DEF t
<1>3. Only(r, u)
  <2>1. [t EXCEPT !.at = "read", !.span = "open"] = u
    BY <1>2, AtSpanChanged
  <2> HIDE DEF u
  <2> QED BY <1>1, <2>1
<1>4. ReportOK(u) /\ u.at = "read"
  <2>1. /\ IsReport(u) /\ u.skill = t.skill /\ u.at = "read" /\ u.seen = t.seen
        /\ u.found = t.found
    <3>1. "read" \in ReportStages \ {"idle"} /\ t.trace \in {"none", "open", "ended"}
          /\ t.span \in {"none", "open", "ended"} /\ t.artifact \in {"none", "made", "audited"}
      BY <1>2, ReportFacts DEF ReportStages
    <3> HIDE DEF u
    <3> QED BY <1>2, <3>1, NextReport DEF u
  <2>2. t.seen = <<>> /\ t.found = {} /\ Len(<<>>) = 0
    BY <1>1, <1>2, EmptySeq DEF ReportOK
  <2>3. 0 < Reads(t.skill)
    BY <1>2 DEF Skills, Reads
  <2> HIDE DEF u
  <2> QED BY <2>1, <2>2, <2>3 DEF ReportOK
<1> HIDE DEF u
<1> QED BY <1>3, <1>4, OnlyKeeps

LEMMA SelectKeeps ==
    ASSUME ReportsInv, NEW r \in ReportRuns, Select(r)
    PROVE  ReportsInv'
<1> DEFINE t == report[r]
           i == Len(t.seen) + 1
           sets == Selection(t.skill)
           seen == Append(t.seen, sets[i])
           at == IF i = Len(sets) THEN "log" ELSE "read"
           u == Report(t.skill, at, t.given, seen, t.found, t.trace, t.span, t.artifact)
<1>1. t.at = "read" /\ Only(r, [t EXCEPT !.seen = seen, !.at = at])
  BY DEF Select
<1>2. ReportOK(t) /\ IsReport(t) /\ t.skill \in Skills
  BY <1>1, InTheReport
<1>3. PICK U : t.seen \in Seq(U)
  BY InTheReport DEF IsSequence
<1>4. Len(sets) = Reads(t.skill) /\ \A j \in 1..Reads(t.skill) : ReadOK(t.skill, j, sets[j])
  BY <1>2, SelectionFacts DEF ReportsInv
<1> HIDE DEF sets, t
<1>5. /\ seen \in Seq(U \cup {sets[i]}) /\ Len(seen) = i /\ Len(t.seen) \in Nat
      /\ \A j \in 1..i : seen[j] = IF j = i THEN sets[i] ELSE t.seen[j]
  <2>1. t.seen \in Seq(U \cup {sets[i]}) /\ Len(t.seen) \in Nat
    BY <1>3, SeqMonotonic, LenProperties
  <2> QED BY <2>1
<1>9. IsSequence(seen)
  BY <1>5 DEF IsSequence
<1>6. i \in 1..Reads(t.skill) /\ Reads(t.skill) \in Nat
  <2>1. Len(t.seen) < Reads(t.skill) /\ Reads(t.skill) \in Nat
    BY <1>1, <1>2 DEF ReportOK, Skills, Reads
  <2> QED BY <1>5, <2>1
<1> HIDE DEF seen, at
<1>7. Only(r, u)
  <2>1. [t EXCEPT !.seen = seen, !.at = at] = u
    BY <1>2, SeenChanged
  <2> HIDE DEF u
  <2> QED BY <1>1, <2>1
<1>8. ReportOK(u) /\ u.at \in {"read", "log"}
  <2>1. at \in {"read", "log"} /\ (at = "log" <=> i = Reads(t.skill))
    BY <1>4 DEF at
  <2>2. /\ IsReport(u) /\ u.skill = t.skill /\ u.at = at /\ u.seen = seen
        /\ u.found = t.found
    <3>1. at \in ReportStages \ {"idle"} /\ t.trace \in {"none", "open", "ended"}
          /\ t.span \in {"none", "open", "ended"} /\ t.artifact \in {"none", "made", "audited"}
      BY <1>2, <2>1, ReportFacts DEF ReportStages
    <3> HIDE DEF u
    <3> QED BY <1>2, <1>9, <3>1, NextReport DEF u
  <2>3. t.found = {}
    BY <1>1, <1>2 DEF ReportOK
  <2>4. \A j \in 1..Len(seen) : ReadOK(t.skill, j, seen[j])
    <3>1. \A j \in 1..Len(t.seen) : ReadOK(t.skill, j, t.seen[j])
      BY <1>2 DEF ReportOK
    <3>2. \A j \in 1..i : j = i \/ j \in 1..Len(t.seen)
      BY <1>5
    <3> QED BY <1>4, <1>5, <1>6, <3>1, <3>2
  <2>5. at = "read" => Len(seen) < Reads(t.skill)
    BY <1>5, <1>6, <2>1
  <2> HIDE DEF u
  <2> QED BY <1>5, <2>1, <2>2, <2>3, <2>4, <2>5 DEF ReportOK
<1> HIDE DEF u
<1> QED BY <1>7, <1>8, OnlyKeeps

LEMMA LogCallKeeps ==
    ASSUME ReportsInv, NEW r \in ReportRuns, LogCall(r)
    PROVE  ReportsInv'
<1> DEFINE t == report[r]
           found == Findings(t.skill, t.seen)
           u == Report(t.skill, "collected", t.given, t.seen, found, t.trace, t.span, t.artifact)
<1>1. t.at = "log" /\ Only(r, [t EXCEPT !.found = found, !.at = "collected"])
  BY DEF LogCall
<1>2. ReportOK(t) /\ IsReport(t) /\ t.skill \in Skills /\ IsSequence(t.seen)
  BY <1>1, InTheReport
<1> HIDE DEF t
<1>3. Only(r, u)
  <2>1. [t EXCEPT !.found = found, !.at = "collected"] = u
    BY <1>2, FoundChanged
  <2> HIDE DEF u
  <2> QED BY <1>1, <2>1
<1>4. ReportOK(u) /\ u.at = "collected"
  <2>1. /\ IsReport(u) /\ u.skill = t.skill /\ u.at = "collected" /\ u.seen = t.seen
        /\ u.found = Findings(u.skill, u.seen)
    <3>1. "collected" \in ReportStages \ {"idle"} /\ t.trace \in {"none", "open", "ended"}
          /\ t.span \in {"none", "open", "ended"} /\ t.artifact \in {"none", "made", "audited"}
      BY <1>2, ReportFacts DEF ReportStages
    <3> HIDE DEF u
    <3> QED BY <1>2, <3>1, NextReport DEF u
  <2>2. Len(t.seen) = Reads(t.skill) /\ \A i \in 1..Len(t.seen) : ReadOK(t.skill, i, t.seen[i])
    BY <1>1, <1>2 DEF ReportOK
  <2> HIDE DEF u
  <2> QED BY <2>1, <2>2 DEF ReportOK, AllRead
<1> HIDE DEF u
<1> QED BY <1>3, <1>4, OnlyKeeps

\* A report that goes on with what it has read and found.
LEMMA GoesOn ==
    ASSUME NEW t, ReportOK(t), t.at \notin {"idle", "span", "read", "log"},
           NEW at \in {"artifact", "audit", "notify", "close", "done", "raised", "failed"},
           at \notin {"raised", "failed"} => t.at \notin {"raised", "failed"},
           NEW trace \in {"none", "open", "ended"}, NEW span \in {"none", "open", "ended"},
           NEW artifact \in {"none", "made", "audited"},
           at \notin {"raised", "failed"} => span = "ended",
           at \in {"notify", "close", "done"} => artifact = "audited",
           at = "done" => trace = "ended" /\ ~t.given,
           NEW u, u = Report(t.skill, at, t.given, t.seen, t.found, trace, span, artifact)
    PROVE  ReportOK(u) /\ u.at = at /\ u.found = t.found
<1>1. at \in ReportStages \ {"idle"} /\ IsReport(t) /\ IsSequence(t.seen) /\ t.skill \in Skills
  BY ReportFacts DEF ReportStages, ReportOK, IsReport
<1>2. /\ IsReport(u) /\ u.skill = t.skill /\ u.at = at /\ u.given = t.given /\ u.seen = t.seen
      /\ u.found = t.found /\ u.trace = trace /\ u.span = span /\ u.artifact = artifact
  BY <1>1, NextReport
<1>3. /\ \A i \in 1..Len(t.seen) : ReadOK(t.skill, i, t.seen[i])
      /\ at \notin {"raised", "failed"} => t.found = Findings(t.skill, t.seen) /\ Len(t.seen) = Reads(t.skill)
      /\ t.found # {} => t.found = Findings(t.skill, t.seen) /\ Len(t.seen) = Reads(t.skill)
  BY <1>1, ReportFacts DEF ReportOK, AllRead, ReportStages
<1> QED BY <1>2, <1>3 DEF ReportOK, AllRead

\* A report that has raised has read or found whatever it had.
LEMMA ReportRaises ==
    ASSUME NEW t, ReportOK(t), t.at # "idle",
           NEW at \in {"raised", "failed"}, NEW trace \in {"none", "open", "ended"},
           NEW span \in {"none", "open", "ended"}, NEW artifact \in {"none", "made", "audited"},
           NEW u, u = Report(t.skill, at, t.given, t.seen, t.found, trace, span, artifact)
    PROVE  ReportOK(u) /\ u.at = at
<1>1. at \in ReportStages \ {"idle"} /\ IsReport(t) /\ IsSequence(t.seen) /\ t.skill \in Skills
  BY ReportFacts DEF ReportStages, ReportOK, IsReport
<1>2. /\ IsReport(u) /\ u.skill = t.skill /\ u.at = at /\ u.given = t.given /\ u.seen = t.seen
      /\ u.found = t.found /\ u.trace = trace /\ u.span = span /\ u.artifact = artifact
  BY <1>1, NextReport
<1>3. /\ \A i \in 1..Len(t.seen) : ReadOK(t.skill, i, t.seen[i])
      /\ t.found # {} => t.found = Findings(t.skill, t.seen) /\ Len(t.seen) = Reads(t.skill)
  BY DEF ReportOK, AllRead
<1> QED BY <1>2, <1>3 DEF ReportOK, AllRead

\* A new row: of an artifact, or a notice that an artifact stands behind.
LEMMA AddFacts ==
    ASSUME ReportsInv, NEW table \in {"artifacts", "inbox"}, NEW tag, Add(table, tag),
           table = "inbox" => IsNotice(tag)
    PROVE  /\ TablesOK' /\ \A y \in rows : y \in rows'
           /\ LET x == [in |-> table, n |-> next, tag |-> tag] IN
              x \in rows' /\ x.in = table /\ x.tag = tag /\ \A y \in rows' : y \in rows \/ y = x
<1> DEFINE x == [in |-> table, n |-> next, tag |-> tag]
<1>1. x.in = table /\ x.tag = tag /\ x.n = next
  OBVIOUS
<1>2. rows' = rows \cup {x} /\ next' = next + 1
  BY DEF Add
<1>3. x = [in |-> x.in, n |-> x.n, tag |-> x.tag]
  OBVIOUS
<1> HIDE DEF x
<1>4. IsFiniteSet(rows')
  BY <1>2, FS_AddElement DEF ReportsInv, TablesOK
<1>5. {y \in rows' : y.in = "memories"} = {y \in rows : y.in = "memories"}
  BY <1>1, <1>2
<1>6. TablesOK'
  BY <1>1, <1>2, <1>3, <1>4, <1>5 DEF ReportsInv, TablesOK
<1> QED BY <1>1, <1>2, <1>6 DEF x

LEMMA CloseSpanKeeps ==
    ASSUME ReportsInv, NEW r \in ReportRuns, CloseSpan(r)
    PROVE  ReportsInv'
<1> DEFINE t == report[r]
           u == [t EXCEPT !.span = "ended", !.at = "artifact"]
<1>1. t.at = "collected" /\ Only(r, u)
  BY DEF CloseSpan
<1>2. ReportOK(t) /\ IsReport(t)
  BY InTheReport
<1> HIDE DEF t
<1>3. u = Report(t.skill, "artifact", t.given, t.seen, t.found, t.trace, "ended", t.artifact)
  BY <1>2, SpanChanged
<1> HIDE DEF u
<1>4. ReportOK(u) /\ u.at = "artifact"
  <2>1. /\ t.trace \in {"none", "open", "ended"} /\ t.artifact \in {"none", "made", "audited"}
        /\ t.at \notin {"idle", "span", "read", "log", "raised", "failed"}
    BY <1>1, <1>2, ReportFacts
  <2> QED BY <1>2, <1>3, <2>1, GoesOn
<1> QED BY <1>1, <1>4, OnlyKeeps

LEMMA CreateArtifactKeeps ==
    ASSUME ReportsInv, NEW r \in ReportRuns, CreateArtifact(r)
    PROVE  ReportsInv'
<1> DEFINE t == report[r]
           u == [t EXCEPT !.artifact = "made", !.at = "audit"]
           tag == [by |-> r, count |-> Cardinality(t.found)]
<1>1. t.at = "artifact" /\ Go(r, u) /\ Add("artifacts", tag) /\ UNCHANGED agenda
  BY DEF CreateArtifact
<1>2. ReportOK(t) /\ IsReport(t)
  BY InTheReport
<1> HIDE DEF t
<1>3. u = Report(t.skill, "audit", t.given, t.seen, t.found, t.trace, t.span, "made")
  BY <1>2, ArtifactChanged
<1> HIDE DEF u
<1>4. ReportOK(u) /\ u.at = "audit" /\ u.found = t.found
  <2>1. t.span = "ended" /\ t.at \notin {"idle", "span", "read", "log", "raised", "failed"}
    BY <1>1, <1>2 DEF ReportOK
  <2>2. t.trace \in {"none", "open", "ended"}
    BY <1>2, ReportFacts
  <2> QED BY <1>2, <1>3, <2>1, <2>2, GoesOn
<1>5. tag.by = r /\ tag.count = Cardinality(t.found)
  OBVIOUS
<1> HIDE DEF tag
<1>6. /\ TablesOK' /\ \A y \in rows : y \in rows'
      /\ \E x \in rows' : x.in = "artifacts" /\ x.tag = tag /\ \A y \in rows' : y \in rows \/ y = x
  BY <1>1, AddFacts
<1>7. Holds(rows', r, Cardinality(u.found))
  BY <1>4, <1>5, <1>6 DEF Holds
<1>8. \A x \in rows' : x.in = "inbox" => x \in rows
  BY <1>6
<1> QED BY <1>1, <1>4, <1>6, <1>7, <1>8, ReportGoes DEF ReportsInv

LEMMA AuditArtifactKeeps ==
    ASSUME ReportsInv, NEW r \in ReportRuns, AuditArtifact(r)
    PROVE  ReportsInv'
<1> DEFINE t == report[r]
           at == IF t.skill = "digest" THEN "close" ELSE "notify"
           u == [t EXCEPT !.artifact = "audited", !.at = at]
<1>1. t.at = "audit" /\ Only(r, u)
  BY DEF AuditArtifact
<1>2. ReportOK(t) /\ IsReport(t) /\ Holds(rows, r, Cardinality(t.found))
  BY <1>1, InTheReport DEF ReportsInv
<1>3. at \in {"close", "notify"}
  OBVIOUS
<1> HIDE DEF t, at
<1>4. u = Report(t.skill, at, t.given, t.seen, t.found, t.trace, t.span, "audited")
  BY <1>2, ArtifactChanged
<1> HIDE DEF u
<1>5. ReportOK(u) /\ u.at = at /\ u.found = t.found
  <2>1. t.span = "ended" /\ t.at \notin {"idle", "span", "read", "log", "raised", "failed"}
    BY <1>1, <1>2 DEF ReportOK
  <2>2. t.trace \in {"none", "open", "ended"}
    BY <1>2, ReportFacts
  <2> QED BY <1>2, <1>3, <1>4, <2>1, <2>2, GoesOn
<1> QED BY <1>1, <1>2, <1>5, OnlyKeeps

LEMMA NotifyKeeps ==
    ASSUME ReportsInv, NEW r \in ReportRuns, Notify(r)
    PROVE  ReportsInv'
<1> DEFINE t == report[r]
           u == [t EXCEPT !.at = "close"]
           tag == [source |-> t.skill, about |-> "report", read |-> FALSE, by |-> r,
                   count |-> Cardinality(t.found)]
<1>1. t.at = "notify" /\ Go(r, u) /\ UNCHANGED agenda
      /\ (Add("inbox", tag) \/ UNCHANGED <<rows, next>>)
  BY DEF Notify
<1>2. ReportOK(t) /\ IsReport(t) /\ Holds(rows, r, Cardinality(t.found))
  BY <1>1, InTheReport DEF ReportsInv
<1> HIDE DEF t
<1>3. u = Report(t.skill, "close", t.given, t.seen, t.found, t.trace, t.span, t.artifact)
  BY <1>2, AtChanged
<1> HIDE DEF u
<1>4. ReportOK(u) /\ u.at = "close" /\ u.found = t.found
  <2>1. t.span = "ended" /\ t.artifact = "audited" /\ t.at \notin {"idle", "span", "read", "log", "raised", "failed"}
    BY <1>1, <1>2 DEF ReportOK
  <2>2. t.trace \in {"none", "open", "ended"}
    BY <1>2, ReportFacts
  <2> QED BY <1>2, <1>3, <2>1, <2>2, GoesOn
<1>5. IsNotice(tag) /\ tag.by = r /\ tag.count = Cardinality(t.found)
  BY DEF IsNotice
<1> HIDE DEF tag
<1>6. CASE Add("inbox", tag)
  <2>1. /\ TablesOK' /\ \A y \in rows : y \in rows'
        /\ \E x \in rows' : x.in = "inbox" /\ x.tag = tag /\ \A y \in rows' : y \in rows \/ y = x
    BY <1>5, <1>6, AddFacts
  <2>2. Holds(rows', r, Cardinality(t.found))
    BY <1>2, <2>1, HeldStays
  <2>3. \A x \in rows' : x.in = "inbox" /\ x \notin rows =>
           \A q \in ReportRuns : x.tag.by = q => Holds(rows', q, x.tag.count)
    BY <1>5, <2>1, <2>2
  <2> QED BY <1>1, <1>4, <2>1, <2>2, <2>3, ReportGoes DEF ReportsInv
<1>7. CASE UNCHANGED <<rows, next>>
  <2>1. TablesOK'
    BY <1>7 DEF ReportsInv, TablesOK
  <2> QED BY <1>1, <1>2, <1>4, <1>7, <2>1, ReportGoes DEF ReportsInv
<1> QED BY <1>1, <1>6, <1>7

LEMMA CloseTraceKeeps ==
    ASSUME ReportsInv, NEW r \in ReportRuns, CloseTrace(r)
    PROVE  ReportsInv'
<1> DEFINE t == report[r]
           u == [t EXCEPT !.at = "raised"]
           v == [t EXCEPT !.trace = "ended", !.at = "done"]
<1>1. t.at = "close" /\ Only(r, IF t.given THEN u ELSE v)
  BY DEF CloseTrace
<1>2. ReportOK(t) /\ IsReport(t) /\ Holds(rows, r, Cardinality(t.found))
  BY <1>1, InTheReport DEF ReportsInv
<1> HIDE DEF t
<1>3. u = Report(t.skill, "raised", t.given, t.seen, t.found, t.trace, t.span, t.artifact)
  BY <1>2, AtChanged
<1>4. v = Report(t.skill, "done", t.given, t.seen, t.found, "ended", t.span, t.artifact)
  BY <1>2, TraceChanged
<1> HIDE DEF u, v
<1>5. t.span = "ended" /\ t.artifact = "audited" /\ t.at \notin {"idle", "span", "read", "log", "raised", "failed"}
  BY <1>1, <1>2 DEF ReportOK
<1>6. t.trace \in {"none", "open", "ended"}
  BY <1>2, ReportFacts
<1>7. CASE t.given
  <2>1. Only(r, u)
    BY <1>1, <1>7
  <2>2. ReportOK(u) /\ u.at = "raised"
    BY <1>2, <1>3, <1>5, <1>6, GoesOn
  <2> QED BY <2>1, <2>2, OnlyKeeps
<1>8. CASE ~t.given
  <2>1. Only(r, v)
    BY <1>1, <1>8
  <2>2. ReportOK(v) /\ v.at = "done" /\ v.found = t.found
    BY <1>2, <1>4, <1>5, <1>8, GoesOn
  <2> QED BY <1>2, <2>1, <2>2, OnlyKeeps
<1> QED BY <1>7, <1>8

LEMMA FaultKeeps ==
    ASSUME ReportsInv, NEW r \in ReportRuns, Fault(r)
    PROVE  ReportsInv'
<1> DEFINE t == report[r]
           span == IF t.at \in {"read", "log"} THEN "ended" ELSE t.span
           u == [t EXCEPT !.at = "raised", !.span = span]
<1>1. t.at \in {"span", "read", "log", "collected", "artifact", "audit", "close"} /\ Go(r, u)
      /\ UNCHANGED <<rows, next, agenda>>
  BY DEF Fault
<1>2. ReportOK(t) /\ IsReport(t)
  BY InTheReport
<1>3. span \in {"none", "open", "ended"}
  BY <1>2, ReportFacts
<1> HIDE DEF t, span
<1>4. u = Report(t.skill, "raised", t.given, t.seen, t.found, t.trace, span, t.artifact)
  BY <1>2, AtSpanChanged
<1> HIDE DEF u
<1>5. ReportOK(u) /\ u.at = "raised"
  <2>1. /\ t.at # "idle"
        /\ t.trace \in {"none", "open", "ended"} /\ t.artifact \in {"none", "made", "audited"}
    BY <1>1, <1>2, ReportFacts
  <2> QED BY <1>2, <1>3, <1>4, <2>1, ReportRaises
<1>6. TablesOK' /\ agenda' \subseteq Skills
  BY <1>1 DEF ReportsInv, TablesOK
<1> QED BY <1>1, <1>5, <1>6, ReportGoes

LEMMA RaisedKeeps ==
    ASSUME ReportsInv, NEW r \in ReportRuns, Raised(r)
    PROVE  ReportsInv'
<1> DEFINE t == report[r]
           trace == IF t.given THEN "ended" ELSE t.trace
           u == [t EXCEPT !.at = "failed", !.trace = trace]
<1>1. t.at = "raised" /\ Only(r, u)
  BY DEF Raised
<1>2. ReportOK(t) /\ IsReport(t)
  BY InTheReport
<1>3. trace \in {"none", "open", "ended"}
  BY <1>2, ReportFacts
<1> HIDE DEF t, trace
<1>4. u = Report(t.skill, "failed", t.given, t.seen, t.found, trace, t.span, t.artifact)
  BY <1>2, AtTraceChanged
<1> HIDE DEF u
<1>5. ReportOK(u) /\ u.at = "failed"
  <2>1. /\ t.at # "idle"
        /\ t.span \in {"none", "open", "ended"} /\ t.artifact \in {"none", "made", "audited"}
    BY <1>1, <1>2, ReportFacts
  <2> QED BY <1>2, <1>3, <1>4, <2>1, ReportRaises
<1> QED BY <1>1, <1>5, OnlyKeeps

\* What others do to the tables.
LEMMA TablesChange ==
    ASSUME ReportsInv, TablesOK', UNCHANGED <<agenda, report>>,
           \A y \in rows : y.in = "artifacts" => y \in rows',
           \A x \in rows' : x.in = "inbox" => \A r \in ReportRuns : x.tag.by = r =>
               \E y \in rows : y.in = "inbox" /\ y.tag.by = r /\ y.tag.count = x.tag.count
    PROVE  ReportsInv'
<1>1. \A q, count : Holds(rows, q, count) => Holds(rows', q, count)
  BY HeldStays
<1>2. \A x \in rows' : \A r \in ReportRuns : x.in = "inbox" /\ x.tag.by = r => Holds(rows', r, x.tag.count)
  BY <1>1 DEF ReportsInv
<1> QED BY <1>1, <1>2 DEF ReportsInv

\* What others write.
LEMMA ElsewhereKeeps ==
    ASSUME ReportsInv, Arrive \/ ReadNotice \/ DeleteMemory
    PROVE  ReportsInv'
<1>1. UNCHANGED <<agenda, report>>
  BY DEF Arrive, ReadNotice, DeleteMemory, Elsewhere
<1>2. CASE Arrive
  <2>1. IsNotice(Arrival) /\ Arrival.by \notin ReportRuns /\ Add("inbox", Arrival)
    BY <1>2, ReportsAssumption DEF Arrive
  <2>2. /\ TablesOK' /\ \A y \in rows : y \in rows'
        /\ \E x \in rows' : x.in = "inbox" /\ x.tag = Arrival /\ \A y \in rows' : y \in rows \/ y = x
    BY <2>1, AddFacts
  <2> QED BY <1>1, <2>1, <2>2, TablesChange
<1>3. CASE ReadNotice
  <2>1. PICK x \in In("inbox") : rows' = (rows \ {x}) \cup {[x EXCEPT !.tag.read = TRUE]} /\ UNCHANGED next
    BY <1>3 DEF ReadNotice, Change
  <2> DEFINE y == [x EXCEPT !.tag.read = TRUE]
  <2>2. x \in rows /\ x.in = "inbox" /\ IsNotice(x.tag) /\ x = [in |-> x.in, n |-> x.n, tag |-> x.tag]
    BY <2>1 DEF In, ReportsInv, TablesOK
  <2>3. y.in = "inbox" /\ y.tag.by = x.tag.by /\ y.tag.count = x.tag.count /\ IsNotice(y.tag)
        /\ y = [in |-> y.in, n |-> y.n, tag |-> y.tag]
    <3> DEFINE tag == [x.tag EXCEPT !.read = TRUE]
    <3>1. x.tag \in [source : {x.tag.source}, about : {x.tag.about}, read : {x.tag.read}, by : {x.tag.by},
                     count : {x.tag.count}]
      BY <2>2 DEF IsNotice
    <3>2. tag \in [source : {x.tag.source}, about : {x.tag.about}, read : {TRUE}, by : {x.tag.by},
                   count : {x.tag.count}]
      BY <3>1
    <3>3. tag.by = x.tag.by /\ tag.count = x.tag.count /\ IsNotice(tag)
      <4> HIDE DEF tag
      <4> QED BY <3>2 DEF IsNotice
    <3>4. x \in [in : {x.in}, n : {x.n}, tag : {x.tag}]
      BY <2>2
    <3>5. y = [x EXCEPT !.tag = tag]
      OBVIOUS
    <3> HIDE DEF tag
    <3>6. y \in [in : {x.in}, n : {x.n}, tag : {tag}]
      BY <3>4, <3>5
    <3> HIDE DEF y
    <3> QED BY <2>2, <3>3, <3>6
  <2> HIDE DEF y
  <2>4. TablesOK'
    <3>1. IsFiniteSet(rows')
      BY <2>1, FS_AddElement, FS_RemoveElement DEF ReportsInv, TablesOK, y
    <3>2. {z \in rows' : z.in = "memories"} \subseteq {z \in rows : z.in = "memories"}
      BY <2>1, <2>3 DEF y
    <3>3. \A z \in rows' : z = y \/ z \in rows
      BY <2>1 DEF y
    <3> QED BY <2>1, <2>3, <3>1, <3>2, <3>3 DEF ReportsInv, TablesOK
  <2>5. \A z \in rows : z.in = "artifacts" => z \in rows'
    BY <2>1, <2>2
  <2>6. \A z \in rows' : z = y \/ z \in rows
    BY <2>1 DEF y
  <2> QED BY <1>1, <2>2, <2>3, <2>4, <2>5, <2>6, TablesChange
<1>4. CASE DeleteMemory
  <2>1. PICK x \in In("memories") : rows' = (rows \ {x}) \cup {} /\ UNCHANGED next
    BY <1>4 DEF DeleteMemory, Change
  <2>2. x.in = "memories"
    BY DEF In
  <2>3. IsFiniteSet(rows')
    BY <2>1, FS_Subset DEF ReportsInv, TablesOK
  <2>4. {z \in rows' : z.in = "memories"} \subseteq {z \in rows : z.in = "memories"}
    BY <2>1
  <2>5. TablesOK'
    BY <2>1, <2>3, <2>4 DEF ReportsInv, TablesOK
  <2> QED BY <1>1, <2>1, <2>2, <2>5, TablesChange
<1> QED BY <1>2, <1>3, <1>4

\* The invariant holds at first,
LEMMA ReportsInitially ==
    ASSUME agenda \in Agendas \cup {{}}, next = Cardinality(rows) + 1, rows \in Stocks,
           report = [r \in ReportRuns |-> Idle]
    PROVE  ReportsInv
<1>1. TablesOK
  <2>1. IsFiniteSet(rows) /\ Cardinality(rows) \in Nat
    BY ReportsAssumption, FS_CardinalityType
  <2>2. \A x \in rows : x.in = "inbox" => IsNotice(x.tag) /\ x = [in |-> x.in, n |-> x.n, tag |-> x.tag]
    BY ReportsAssumption
  <2> QED BY <2>1, <2>2 DEF TablesOK
<1>2. agenda \subseteq Skills
  BY ReportsAssumption DEF Skills
<1>3. ReportOK(Idle) /\ Idle.at = "idle"
  <2>1. /\ Idle.at = "idle" /\ Idle.skill = "none" /\ Idle.seen = <<>> /\ Idle.found = {}
        /\ Idle \in [skill : Skills \cup {"none"}, at : ReportStages, given : BOOLEAN,
              seen : {<<>>}, found : {{}}, trace : {"none", "open", "ended"},
              span : {"none", "open", "ended"}, artifact : {"none", "made", "audited"}]
    BY DEF Idle, ReportStages
  <2>2. IsSequence(<<>>) /\ Len(<<>>) = 0
    BY EmptySeq DEF IsSequence
  <2>3. IsReport(Idle)
    <3> HIDE DEF Idle
    <3> QED BY <2>1, <2>2 DEF IsReport
  <2> QED BY <2>1, <2>2, <2>3 DEF ReportOK
<1>4. \A x \in rows : \A r \in ReportRuns : x.in = "inbox" => x.tag.by # r
  BY ReportsAssumption
<1> QED BY <1>1, <1>2, <1>3, <1>4 DEF ReportsInv

\* and every step of the reports keeps it.
LEMMA ReportsKept ==
    ASSUME ReportsInv, ReportsStep \/ UNCHANGED reportVars
    PROVE  ReportsInv'
<1>1. ASSUME NEW r \in ReportRuns, NEW skill \in agenda, NEW given \in BOOLEAN, Start(r, skill, given)
      PROVE  ReportsInv'
  BY <1>1, StartKeeps
<1>2. ASSUME NEW r \in ReportRuns,
             \/ OpenSpan(r) \/ Select(r) \/ LogCall(r) \/ CloseSpan(r) \/ CreateArtifact(r) \/ AuditArtifact(r)
             \/ Notify(r) \/ CloseTrace(r) \/ Fault(r) \/ Raised(r)
      PROVE  ReportsInv'
  BY <1>2, OpenSpanKeeps, SelectKeeps, LogCallKeeps, CloseSpanKeeps, CreateArtifactKeeps, AuditArtifactKeeps,
     NotifyKeeps, CloseTraceKeeps, FaultKeeps, RaisedKeeps
<1>3. CASE Arrive \/ ReadNotice \/ DeleteMemory
  BY <1>3, ElsewhereKeeps
<1>4. CASE UNCHANGED reportVars
  BY <1>4 DEF reportVars, ReportsInv, TablesOK
<1> QED BY <1>1, <1>2, <1>3, <1>4 DEF ReportsStep

\* A proposal is what it was made of.
LEMMA ProposalFacts == \A kind, of : Proposal(kind, of).kind = kind /\ Proposal(kind, of).of = of
BY DEF Proposal

\* Sets of at least two.
LEMMA TwoElements ==
    ASSUME NEW S, IsFiniteSet(S), NEW a \in S, NEW b \in S, a # b
    PROVE  Cardinality(S) >= 2 /\ Cardinality({a, b}) = 2
<1>1. IsFiniteSet({a}) /\ Cardinality({a}) = 1
  BY FS_Singleton
<1>2. Cardinality({a} \cup {b}) = 2 /\ IsFiniteSet({a} \cup {b})
  BY <1>1, FS_AddElement
<1>3. {a} \cup {b} = {a, b} /\ {a, b} \subseteq S
  OBVIOUS
<1>4. Cardinality({a, b}) <= Cardinality(S) /\ Cardinality(S) \in Nat
  BY <1>3, FS_Subset, FS_CardinalityType
<1> QED BY <1>2, <1>3, <1>4

\* The groups that memories are merged in.
Alike(S, x) == {y \in S : y.tag.text # "" /\ y.tag.text = x.tag.text}

\* Each group is of one text, and copies are in one.
LEMMA DuplicateFacts ==
    ASSUME NEW S, IsFiniteSet(S)
    PROVE  /\ \A g \in Duplicates(S) : \E x \in S : g = Alike(S, x)
           /\ \A a, b \in S : a # b /\ a.tag.text # "" /\ a.tag.text = b.tag.text =>
                 \E g \in Duplicates(S) : a \in g /\ b \in g
<1> DEFINE worded == {x \in S : x.tag.text # ""}
           Of(x) == {y \in worded : TextOf(worded)[y] = TextOf(worded)[x]}
<1>1. Duplicates(S) = {g \in {Of(x) : x \in worded} : Cardinality(g) >= 2}
  BY DEF Duplicates, Groups
<1>2. ASSUME NEW x \in worded PROVE Of(x) = Alike(S, x)
  BY DEF TextOf, Alike
<1>3. ASSUME NEW g \in Duplicates(S)
      PROVE  \E x \in S : g = Alike(S, x)
  <2>1. PICK x \in worded : g = Of(x)
    BY <1>1
  <2> HIDE DEF Of
  <2> QED BY <1>2, <2>1
<1>4. ASSUME NEW a \in S, NEW b \in S, a # b, a.tag.text # "", a.tag.text = b.tag.text
      PROVE  \E g \in Duplicates(S) : a \in g /\ b \in g
  <2>1. a \in worded /\ a \in Of(a) /\ b \in Of(a) /\ Of(a) \subseteq S
    <3>1. a \in worded /\ Of(a) = Alike(S, a)
      BY <1>2, <1>4
    <3> HIDE DEF Of
    <3> QED BY <1>4, <3>1 DEF Alike
  <2> HIDE DEF Of
  <2>2. IsFiniteSet(Of(a))
    BY <2>1, FS_Subset
  <2>3. Cardinality(Of(a)) >= 2
    BY <1>4, <2>1, <2>2, TwoElements
  <2> QED BY <1>1, <2>1, <2>3
<1> QED BY <1>3, <1>4

\* Which proposals come of which selection.
LEMMA ProposalsAre ==
    ASSUME NEW S
    PROVE  /\ {p.of : p \in {q \in Proposals(S) : q.kind = "merge"}} = Duplicates(S)
           /\ \A p \in Proposals(S) : /\ p.kind = "review" => p.of \in Conflicting(S)
                                      /\ p.kind = "archive" => \A x \in p.of : x \in Stale(S)
<1>1. \A p \in Proposals(S) :
         /\ p.kind = "merge" => p.of \in Duplicates(S)
         /\ p.kind = "review" => p.of \in Conflicting(S)
         /\ p.kind = "archive" => \E x \in Stale(S) : p.of = {x}
  <2> SUFFICES ASSUME NEW p \in Proposals(S)
               PROVE  /\ p.kind = "merge" => p.of \in Duplicates(S)
                      /\ p.kind = "review" => p.of \in Conflicting(S)
                      /\ p.kind = "archive" => \E x \in Stale(S) : p.of = {x}
    OBVIOUS
  <2>1. \/ \E g \in Duplicates(S) : p = Proposal("merge", g)
        \/ \E x \in Stale(S) : p = Proposal("archive", {x})
        \/ \E c \in Conflicting(S) : p = Proposal("review", c)
        \/ \E x \in LowConfidence(S) : p = Proposal("flag", {x})
    BY DEF Proposals
  <2>2. ASSUME NEW g \in Duplicates(S), p = Proposal("merge", g) PROVE p.kind = "merge" /\ p.of = g
    BY <2>2, ProposalFacts
  <2>3. ASSUME NEW x \in Stale(S), p = Proposal("archive", {x}) PROVE p.kind = "archive" /\ p.of = {x}
    BY <2>3, ProposalFacts
  <2>4. ASSUME NEW c \in Conflicting(S), p = Proposal("review", c) PROVE p.kind = "review" /\ p.of = c
    BY <2>4, ProposalFacts
  <2>5. ASSUME NEW x \in LowConfidence(S), p = Proposal("flag", {x}) PROVE p.kind = "flag"
    BY <2>5, ProposalFacts
  <2> QED BY <2>1, <2>2, <2>3, <2>4, <2>5
<1>2. \A g \in Duplicates(S) : \E p \in Proposals(S) : p.kind = "merge" /\ p.of = g
  BY ProposalFacts DEF Proposals
<1> QED BY <1>1, <1>2

(* What ProposalsSound asks of proposals made from S. *)
SoundOf(found, S) ==
    LET merges == {p.of : p \in {q \in found : q.kind = "merge"}}
    IN  /\ \A a, b \in S : a # b /\ a.tag.text # "" =>
              (a.tag.text = b.tag.text <=> \E g \in merges : {a, b} \subseteq g)
        /\ \A g, h \in merges : g # h => g \cap h = {}
        /\ \A p \in found : p.kind = "review" =>
              Cardinality(p.of) = 2 /\ ~ \E g \in merges : p.of \subseteq g
        /\ \A p \in found : p.kind = "archive" => \A x \in p.of : x.tag.status # "stale"

\* Proposals of what a run read are sound.
LEMMA ProposalsOfMemories ==
    ASSUME NEW S, IsFiniteSet(S), NEW stock \in Stocks, S \subseteq {x \in stock : x.in = "memories"}
    PROVE  SoundOf(Proposals(S), S)
<1> DEFINE merges == {p.of : p \in {q \in Proposals(S) : q.kind = "merge"}}
<1>1. merges = Duplicates(S)
  BY ProposalsAre
<1> HIDE DEF merges
<1>2. \A g \in merges : \E x \in S : g = Alike(S, x)
  <2> SUFFICES ASSUME NEW g \in merges
               PROVE  \E x \in S : g = Alike(S, x)
    OBVIOUS
  <2>1. \A h \in Duplicates(S) : \E x \in S : h = Alike(S, x)
    BY DuplicateFacts
  <2>2. g \in Duplicates(S)
    BY <1>1
  <2> QED BY <2>1, <2>2
<1>3. \A a, b \in S : a # b /\ a.tag.text # "" /\ a.tag.text = b.tag.text =>
         \E g \in merges : a \in g /\ b \in g
  BY <1>1, DuplicateFacts
<1>4. \A a, b \in S : a # b /\ a.tag.text # "" =>
         (a.tag.text = b.tag.text <=> \E g \in merges : {a, b} \subseteq g)
  <2> SUFFICES ASSUME NEW a \in S, NEW b \in S, a # b, a.tag.text # ""
               PROVE  a.tag.text = b.tag.text <=> \E g \in merges : {a, b} \subseteq g
    OBVIOUS
  <2>1. ASSUME NEW g \in merges, {a, b} \subseteq g PROVE a.tag.text = b.tag.text
    <3>1. PICK x \in S : g = Alike(S, x)
      BY <1>2
    <3> QED BY <2>1, <3>1 DEF Alike
  <2>2. ASSUME a.tag.text = b.tag.text PROVE \E g \in merges : {a, b} \subseteq g
    <3>1. PICK g \in merges : a \in g /\ b \in g
      BY <1>3, <2>2
    <3> QED BY <3>1
  <2> QED BY <2>1, <2>2
<1>5. \A g, h \in merges : g # h => g \cap h = {}
  <2> SUFFICES ASSUME NEW g \in merges, NEW h \in merges, NEW z \in g, z \in h PROVE g = h
    OBVIOUS
  <2>1. PICK x \in S : g = Alike(S, x)
    BY <1>2
  <2>2. PICK v \in S : h = Alike(S, v)
    BY <1>2
  <2> QED BY <2>1, <2>2 DEF Alike
<1>6. ASSUME NEW p \in Proposals(S), p.kind = "review"
      PROVE  Cardinality(p.of) = 2 /\ ~ \E g \in merges : p.of \subseteq g
  <2>1. p.of \in Conflicting(S)
    BY <1>6, ProposalsAre
  <2>2. PICK a \in p.of, b \in p.of : a.n < b.n /\ p.of = {a, b} /\ Conflict(a, b) /\ a \in S /\ b \in S
    BY <2>1 DEF Conflicting
  <2>3. /\ a.n \in Nat /\ b.n \in Nat
        /\ a.tag.text = b.tag.text => a.tag.words = b.tag.words
    BY <2>2, ReportsAssumption
  <2>4. a # b
    BY <2>2, <2>3
  <2>5. a.tag.text # b.tag.text
    BY <2>2, <2>3 DEF Conflict
  <2>6. ~ \E g \in merges : a \in g /\ b \in g
    BY <1>2, <2>5 DEF Alike
  <2> QED BY <2>2, <2>4, <2>6, TwoElements
<1>7. \A p \in Proposals(S) : p.kind = "archive" => \A x \in p.of : x.tag.status # "stale"
  BY ProposalsAre DEF Stale
<1>8. LET m == {p.of : p \in {q \in Proposals(S) : q.kind = "merge"}} IN
           /\ \A a, b \in S : a # b /\ a.tag.text # "" =>
                 (a.tag.text = b.tag.text <=> \E g \in m : {a, b} \subseteq g)
           /\ \A g, h \in m : g # h => g \cap h = {}
           /\ \A p \in Proposals(S) : p.kind = "review" =>
                 Cardinality(p.of) = 2 /\ ~ \E g \in m : p.of \subseteq g
           /\ \A p \in Proposals(S) : p.kind = "archive" => \A x \in p.of : x.tag.status # "stale"
  BY <1>4, <1>5, <1>6, <1>7 DEF merges
<1> QED BY <1>8 DEF SoundOf

\* No more than three disjoint sets are each more than three tenths of one.
LEMMA NoisyFew ==
    ASSUME NEW S, IsFiniteSet(S), NEW G \in SUBSET SUBSET S,
           \A g, h \in G : g # h => g \cap h = {},
           \A g \in G : Cardinality(g) * 10 > Cardinality(S) * 3
    PROVE  Cardinality(G) <= 3
<1>1. IsFiniteSet(G) /\ Cardinality(G) \in Nat
  BY FS_SUBSET, FS_Subset, FS_CardinalityType
<1>2. \A H \in SUBSET G : IsFiniteSet(H) /\ Cardinality(H) \in Nat
  BY <1>1, FS_Subset, FS_CardinalityType
<1>3. \A H \in SUBSET G : Cardinality(H) > 0 =>
         \E g \in H : Cardinality(H \ {g}) = Cardinality(H) - 1
  <2> SUFFICES ASSUME NEW H \in SUBSET G, Cardinality(H) > 0
               PROVE  \E g \in H : Cardinality(H \ {g}) = Cardinality(H) - 1
    OBVIOUS
  <2>1. H # {}
    BY <1>2, FS_EmptySet
  <2> QED BY <1>2, <2>1, FS_RemoveElement
<1> SUFFICES ASSUME Cardinality(G) >= 4 PROVE FALSE
  BY <1>1
<1>4. PICK a \in G : Cardinality(G \ {a}) = Cardinality(G) - 1
  BY <1>1, <1>3
<1> DEFINE G1 == G \ {a}
<1>5. PICK b \in G1 : Cardinality(G1 \ {b}) = Cardinality(G1) - 1
  <2>1. G1 \in SUBSET G /\ Cardinality(G1) > 0
    BY <1>1, <1>4
  <2> QED BY <1>3, <2>1
<1> DEFINE G2 == G1 \ {b}
<1>6. PICK c \in G2 : Cardinality(G2 \ {c}) = Cardinality(G2) - 1
  <2>1. G2 \in SUBSET G /\ Cardinality(G2) > 0
    BY <1>1, <1>4, <1>5
  <2> QED BY <1>3, <2>1
<1>7. PICK d \in G2 \ {c} : TRUE
  <2>1. Cardinality(G2 \ {c}) # 0
    <3> HIDE DEF G2
    <3>1. Cardinality(G2) = Cardinality(G1) - 1
      BY <1>5 DEF G2
    <3> HIDE DEF G1
    <3>2. Cardinality(G1) = Cardinality(G) - 1
      BY <1>4 DEF G1
    <3> QED BY <1>1, <1>6, <3>1, <3>2
  <2> QED BY <2>1, FS_EmptySet
<1>8. \A X, Y \in SUBSET S : X \cap Y = {} =>
         IsFiniteSet(X \cup Y) /\ Cardinality(X \cup Y) = Cardinality(X) + Cardinality(Y)
         /\ Cardinality(X) \in Nat /\ Cardinality(Y) \in Nat
  <2> SUFFICES ASSUME NEW X \in SUBSET S, NEW Y \in SUBSET S, X \cap Y = {}
               PROVE  IsFiniteSet(X \cup Y) /\ Cardinality(X \cup Y) = Cardinality(X) + Cardinality(Y)
                      /\ Cardinality(X) \in Nat /\ Cardinality(Y) \in Nat
    OBVIOUS
  <2>1. IsFiniteSet(X) /\ IsFiniteSet(Y) /\ Cardinality(X) \in Nat /\ Cardinality(Y) \in Nat
    BY FS_Subset, FS_CardinalityType
  <2>2. /\ IsFiniteSet(X \cup Y)
        /\ Cardinality(X \cup Y) = Cardinality(X) + Cardinality(Y) - Cardinality(X \cap Y)
    BY <2>1, FS_Union
  <2>3. Cardinality(X \cap Y) = 0
    BY FS_EmptySet
  <2> QED BY <2>1, <2>2, <2>3
<1>9. Cardinality(a \cup b) = Cardinality(a) + Cardinality(b)
      /\ Cardinality(c \cup d) = Cardinality(c) + Cardinality(d)
      /\ {Cardinality(a), Cardinality(b), Cardinality(c), Cardinality(d)} \subseteq Nat
  <2>1. a \cap b = {} /\ c \cap d = {} /\ a \in SUBSET S /\ b \in SUBSET S /\ c \in SUBSET S /\ d \in SUBSET S
    BY <1>4, <1>5, <1>6, <1>7
  <2>2. Cardinality(a \cup b) = Cardinality(a) + Cardinality(b) /\ Cardinality(a) \in Nat /\ Cardinality(b) \in Nat
    BY <1>8, <2>1
  <2>3. Cardinality(c \cup d) = Cardinality(c) + Cardinality(d) /\ Cardinality(c) \in Nat /\ Cardinality(d) \in Nat
    BY <1>8, <2>1
  <2> QED BY <2>2, <2>3
<1>10. Cardinality((a \cup b) \cup (c \cup d)) = Cardinality(a \cup b) + Cardinality(c \cup d)
  <2>1. (a \cup b) \cap (c \cup d) = {} /\ a \cup b \in SUBSET S /\ c \cup d \in SUBSET S
    BY <1>4, <1>5, <1>6, <1>7
  <2> DEFINE X == a \cup b
             Y == c \cup d
  <2>2. X \cap Y = {} /\ X \in SUBSET S /\ Y \in SUBSET S
    BY <2>1
  <2> HIDE DEF X, Y
  <2>3. Cardinality(X \cup Y) = Cardinality(X) + Cardinality(Y)
    BY <1>8, <2>2
  <2> QED BY <2>3 DEF X, Y
<1>11. Cardinality((a \cup b) \cup (c \cup d)) <= Cardinality(S) /\ Cardinality(S) \in Nat
  <2>1. (a \cup b) \cup (c \cup d) \in SUBSET S
    BY <1>4, <1>5, <1>6, <1>7
  <2> QED BY <2>1, FS_Subset, FS_CardinalityType
<1>12. /\ Cardinality(a) * 10 > Cardinality(S) * 3 /\ Cardinality(b) * 10 > Cardinality(S) * 3
       /\ Cardinality(c) * 10 > Cardinality(S) * 3 /\ Cardinality(d) * 10 > Cardinality(S) * 3
  BY <1>4, <1>5, <1>6, <1>7
<1> QED BY <1>9, <1>10, <1>11, <1>12

\* A digest of what a run read is sound.
LEMMA DigestOfNotices ==
    ASSUME NEW S, IsFiniteSet(S)
    PROVE  LET groups == {p.of : p \in {q \in Digest(S) : q.kind = "group"}} IN
           /\ \A x \in S : Cardinality({g \in groups : x \in g}) = 1
           /\ Cardinality({p \in Digest(S) : p.kind = "noisy"}) <= 3
<1> DEFINE groups == {p.of : p \in {q \in Digest(S) : q.kind = "group"}}
           noisy == {p \in Digest(S) : p.kind = "noisy"}
           Like(key, x) == {y \in S : key[y] = key[x]}
<1>1. groups = Groups(S, LookOf(S))
  <2>1. \A p \in Digest(S) : p.kind = "group" => p.of \in Groups(S, LookOf(S))
    BY ProposalFacts DEF Digest
  <2>2. \A g \in Groups(S, LookOf(S)) : \E p \in Digest(S) : p.kind = "group" /\ p.of = g
    BY ProposalFacts DEF Digest
  <2> QED BY <2>1, <2>2
<1>2. noisy = {Proposal("noisy", g) : g \in Noisy(S)}
  BY ProposalFacts DEF Digest
<1>3. \A key : Groups(S, key) = {Like(key, x) : x \in S}
  BY DEF Groups
<1> HIDE DEF groups, noisy
<1>4. ASSUME NEW x \in S PROVE Cardinality({g \in groups : x \in g}) = 1
  <2> DEFINE mine == Like(LookOf(S), x)
  <2>1. \A g \in groups : x \in g <=> g = mine
    BY <1>1, <1>3
  <2>2. mine \in groups
    BY <1>1, <1>3
  <2> HIDE DEF mine
  <2>3. {g \in groups : x \in g} = {mine}
    BY <2>1, <2>2
  <2> QED BY <2>3, FS_Singleton
<1>5. Cardinality(Noisy(S)) <= 3 /\ IsFiniteSet(Noisy(S)) /\ Cardinality(Noisy(S)) \in Nat
  <2>1. Noisy(S) \in SUBSET SUBSET S
    BY <1>3 DEF Noisy
  <2>2. \A g, h \in Noisy(S) : g # h => g \cap h = {}
    <3> SUFFICES ASSUME NEW g \in Noisy(S), NEW h \in Noisy(S), NEW z \in g, z \in h PROVE g = h
      OBVIOUS
    <3>1. g \in {Like(SourceOf(S), x) : x \in S} /\ h \in {Like(SourceOf(S), x) : x \in S}
      BY <1>3 DEF Noisy
    <3>2. PICK x \in S, v \in S : g = Like(SourceOf(S), x) /\ h = Like(SourceOf(S), v)
      BY <3>1
    <3> QED BY <3>2
  <2>3. \A g \in Noisy(S) : Cardinality(g) * 10 > Cardinality(S) * 3
    BY DEF Noisy
  <2>4. IsFiniteSet(Noisy(S)) /\ Cardinality(Noisy(S)) \in Nat
    BY <2>1, FS_SUBSET, FS_Subset, FS_CardinalityType
  <2> QED BY <2>1, <2>2, <2>3, <2>4, NoisyFew
<1>6. Cardinality(noisy) <= 3
  <2> DEFINE f == [g \in Noisy(S) |-> Proposal("noisy", g)]
  <2>1. f \in Surjection(Noisy(S), noisy)
    BY <1>2 DEF Surjection
  <2>2. IsFiniteSet(noisy) /\ Cardinality(noisy) <= Cardinality(Noisy(S)) /\ Cardinality(noisy) \in Nat
    BY <1>5, <2>1, FS_Surjection, FS_CardinalityType
  <2> QED BY <1>5, <2>2
<1> QED BY <1>4, <1>6 DEF groups, noisy

\* The overall risk is high when a row is.
LEMMA RiskOfReview ==
    ASSUME NEW seen, \A i \in 1..8 : ReadOK("review", i, seen[i])
    PROVE  OverallRisk(Review(seen)) = "high" <=>
              \E x \in UNION {seen[i] : i \in 1..8} :
                  x.in \in {"traces", "outbox"} /\ x.tag.status \in {"failed", "dead_letter"}
<1>1. OverallRisk(Review(seen)) = "high" <=> \E p \in Review(seen) : \E x \in p.of : Risk(p.kind, x) = 2
  BY DEF OverallRisk
<1>2. DOMAIN IssueKinds = 1..8
  BY DEF IssueKinds
<1>3. \A p \in Review(seen) : \E i \in 1..8 : \E x \in seen[i] : p.kind = IssueKinds[i] /\ p.of = {x}
  <2> SUFFICES ASSUME NEW p \in Review(seen)
               PROVE  \E i \in 1..8 : \E x \in seen[i] : p.kind = IssueKinds[i] /\ p.of = {x}
    OBVIOUS
  <2>1. PICK i \in 1..8 : p \in Single(IssueKinds[i], seen[i])
    BY <1>2 DEF Review
  <2>2. PICK x \in seen[i] : p = Proposal(IssueKinds[i], {x})
    BY <2>1 DEF Single
  <2> QED BY <2>2, ProposalFacts
<1>4. ASSUME NEW i \in 1..8, NEW x \in seen[i]
      PROVE  \E p \in Review(seen) : p.kind = IssueKinds[i] /\ p.of = {x}
  <2>0. Proposal(IssueKinds[i], {x}) \in Single(IssueKinds[i], seen[i])
    BY <1>4 DEF Single
  <2>1. Proposal(IssueKinds[i], {x}) \in Review(seen)
    BY <1>2, <2>0 DEF Review
  <2> QED BY <2>1, ProposalFacts
<1>5. ASSUME NEW i \in 1..8, NEW x \in seen[i]
      PROVE  /\ Risk(IssueKinds[i], x) = 2 <=> (i = 1 /\ x.tag.status = "failed") \/ i = 6
             /\ x.in = "traces" <=> i = 1
             /\ x.in = "outbox" <=> i = 6
             /\ i = 1 => x.tag.status # "dead_letter"
             /\ i = 6 => x.tag.status = "dead_letter"
  <2>1. i = 1 \/ i = 2 \/ i = 3 \/ i = 4 \/ i = 5 \/ i = 6 \/ i = 7 \/ i = 8
    OBVIOUS
  <2>2. x.in = ReviewTables[i] /\ (i = 1 => x.tag.status # "dead_letter")
        /\ (i = 6 => x.tag.status = "dead_letter")
    BY DEF ReadOK
  <2>3. /\ x.in = "traces" <=> i = 1
        /\ x.in = "outbox" <=> i = 6
    BY <2>1, <2>2 DEF ReviewTables
  <2>4. /\ IssueKinds[i] = "trace" <=> i = 1
        /\ IssueKinds[i] = "dead" <=> i = 6
    BY <2>1 DEF IssueKinds
  <2>5. Risk(IssueKinds[i], x) = 2 <=> (IssueKinds[i] = "trace" /\ x.tag.status = "failed") \/ IssueKinds[i] = "dead"
    BY DEF Risk
  <2> QED BY <2>2, <2>3, <2>4, <2>5
<1>6. (\E p \in Review(seen) : \E x \in p.of : Risk(p.kind, x) = 2) <=>
         \E i \in 1..8 : \E x \in seen[i] : Risk(IssueKinds[i], x) = 2
  <2>1. ASSUME NEW p \in Review(seen), NEW x \in p.of, Risk(p.kind, x) = 2
        PROVE  \E i \in 1..8 : \E y \in seen[i] : Risk(IssueKinds[i], y) = 2
    <3>1. PICK i \in 1..8 : \E y \in seen[i] : p.kind = IssueKinds[i] /\ p.of = {y}
      BY <1>3
    <3>2. PICK y \in seen[i] : p.kind = IssueKinds[i] /\ p.of = {y}
      BY <3>1
    <3>3. x = y
      BY <2>1, <3>2
    <3> QED BY <2>1, <3>2, <3>3
  <2>2. ASSUME NEW i \in 1..8, NEW x \in seen[i], Risk(IssueKinds[i], x) = 2
        PROVE  \E p \in Review(seen) : \E y \in p.of : Risk(p.kind, y) = 2
    <3>1. PICK p \in Review(seen) : p.kind = IssueKinds[i] /\ p.of = {x}
      BY <1>4
    <3> QED BY <2>2, <3>1
  <2> QED BY <2>1, <2>2
<1>7. (\E i \in 1..8 : \E x \in seen[i] : Risk(IssueKinds[i], x) = 2) <=>
         \E i \in 1..8 : \E x \in seen[i] :
            x.in \in {"traces", "outbox"} /\ x.tag.status \in {"failed", "dead_letter"}
  BY <1>5
<1>8. (\E i \in 1..8 : \E x \in seen[i] :
            x.in \in {"traces", "outbox"} /\ x.tag.status \in {"failed", "dead_letter"}) <=>
         \E x \in UNION {seen[i] : i \in 1..8} :
            x.in \in {"traces", "outbox"} /\ x.tag.status \in {"failed", "dead_letter"}
  OBVIOUS
<1> QED BY <1>1, <1>6, <1>7, <1>8

\* The invariant says that reports are true.
LEMMA ReportsAreTrue ==
    ASSUME ReportsInv
    PROVE  ReportsTrue
<1>1. \A r \in ReportRuns : ReportOK(report[r])
  BY DEF ReportsInv
<1>2. DoneIsWhole
  BY <1>1 DEF ReportsInv, ReportOK, Holds, DoneIsWhole, In
<1>3. NoticePoints
  BY DEF ReportsInv, Holds, NoticePoints, In
<1>4. ASSUME NEW r \in ReportRuns, report[r].skill \in {"consolidation", "digest"}, AllRead(report[r])
      PROVE  Seen(r) = report[r].seen[1] /\ ReadOK(report[r].skill, 1, report[r].seen[1])
  <2>1. Len(report[r].seen) = 1
    BY <1>4 DEF AllRead, Reads
  <2>2. Seen(r) = UNION {report[r].seen[i] : i \in 1..1}
    BY <2>1 DEF Seen
  <2>3. \A i \in 1..1 : i = 1
    OBVIOUS
  <2>4. 1 \in 1..Len(report[r].seen)
    BY <2>1
  <2>5. \A i \in 1..Len(report[r].seen) : ReadOK(report[r].skill, i, report[r].seen[i])
    BY <1>1 DEF ReportOK
  <2>6. ReadOK(report[r].skill, 1, report[r].seen[1])
    BY <2>4, <2>5
  <2> QED BY <2>2, <2>3, <2>6
<1>5. ProposalsSound
  <2> SUFFICES ASSUME NEW r \in ReportRuns, report[r].skill = "consolidation", report[r].found # {}
               PROVE  SoundOf(report[r].found, Seen(r))
    BY DEF ProposalsSound, SoundOf
  <2>1. AllRead(report[r])
    BY <1>1 DEF ReportOK
  <2>2. Seen(r) = report[r].seen[1] /\ ReadOK("consolidation", 1, report[r].seen[1])
    BY <1>4, <2>1
  <2>3. report[r].found = Proposals(Seen(r))
    BY <2>1, <2>2 DEF AllRead, Findings
  <2>4. PICK stock \in Stocks : IsFiniteSet(Seen(r)) /\ Seen(r) \subseteq {x \in stock : x.in = "memories"}
    BY <2>2 DEF ReadOK
  <2> QED BY <2>3, <2>4, ProposalsOfMemories
<1>6. DigestSound
  <2> SUFFICES ASSUME NEW r \in ReportRuns, report[r].skill = "digest", report[r].at = "done"
               PROVE  LET groups == {p.of : p \in {q \in report[r].found : q.kind = "group"}}
                      IN  /\ \A x \in Seen(r) : Cardinality({g \in groups : x \in g}) = 1
                          /\ Cardinality({p \in report[r].found : p.kind = "noisy"}) <= 3
    BY DEF DigestSound
  <2>1. AllRead(report[r])
    BY <1>1 DEF ReportOK
  <2>2. Seen(r) = report[r].seen[1] /\ ReadOK("digest", 1, report[r].seen[1])
    BY <1>4, <2>1
  <2>3. report[r].found = Digest(Seen(r))
    BY <2>1, <2>2 DEF AllRead, Findings
  <2>4. IsFiniteSet(Seen(r))
    BY <2>2 DEF ReadOK
  <2> QED BY <2>3, <2>4, DigestOfNotices
<1>7. StatusOfOneReading
  <2> SUFFICES ASSUME NEW r \in ReportRuns, report[r].skill = "status", NEW p \in report[r].found, p.kind = "task"
               PROVE  p.of \subseteq report[r].seen[1]
    BY DEF StatusOfOneReading
  <2> DEFINE seen == report[r].seen
  <2>1. report[r].found = StatusReport(seen)
    BY <1>1 DEF ReportOK, AllRead, Findings
  <2> HIDE DEF seen
  <2>2. \/ \E x \in seen[1] : p = Proposal("task", {x})
        \/ \E x \in Newest(seen[3], 1) : p = Proposal("pending", {x})
    BY <2>1 DEF StatusReport, Single
  <2>3. \E x \in seen[1] : p = Proposal("task", {x})
    <3>1. ASSUME NEW x, p = Proposal("pending", {x}) PROVE FALSE
      <4>1. p.kind = "pending"
        BY <3>1, ProposalFacts
      <4> QED BY <4>1
    <3> QED BY <2>2, <3>1
  <2>4. \E x \in seen[1] : p.of = {x}
    BY <2>3, ProposalFacts
  <2> QED BY <2>4 DEF seen
<1>8. RiskIsWorst
  <2> SUFFICES ASSUME NEW r \in ReportRuns, report[r].skill = "review", report[r].found # {}
               PROVE  OverallRisk(report[r].found) = "high" <=>
                         \E x \in Seen(r) : x.in \in {"traces", "outbox"} /\ x.tag.status \in {"failed", "dead_letter"}
    BY DEF RiskIsWorst
  <2> DEFINE seen == report[r].seen
  <2>1. report[r].found = Review(seen) /\ Len(seen) = 8
    BY <1>1 DEF ReportOK, AllRead, Findings, Reads
  <2>2. \A i \in 1..8 : ReadOK("review", i, seen[i])
    BY <1>1, <2>1 DEF ReportOK
  <2>3. Seen(r) = UNION {seen[i] : i \in 1..8}
    BY <2>1 DEF Seen
  <2> HIDE DEF seen
  <2> QED BY <2>1, <2>2, <2>3, RiskOfReview
<1> QED BY <1>2, <1>3, <1>5, <1>6, <1>7, <1>8 DEF ReportsTrue

(* The invariant of the reports.                                           *)
THEOREM ReportsInvariance == Spec => []ReportsInv
<1>1. Init => ReportsInv
  <2> SUFFICES ASSUME Init PROVE ReportsInv
    OBVIOUS
  <2>1. /\ rows \in Stocks /\ next = Cardinality(rows) + 1
        /\ report = [r \in ReportRuns |-> Idle] /\ agenda \in Agendas
    BY DEF Init, ReportsInit
  <2> QED
    BY <2>1, ReportsInitially
<1>2. ReportsInv /\ [Next]_vars => ReportsInv'
  <2> SUFFICES ASSUME ReportsInv, [Next]_vars PROVE ReportsInv'
    OBVIOUS
  <2>1. ReportsStep \/ UNCHANGED reportVars
    BY DEF Next, vars
  <2> QED
    BY <2>1, ReportsKept
<1> QED
  BY <1>1, <1>2, PTL DEF Spec

(* What a report tells is there and is so, whatever others write, read and *)
(* delete while it is made: one told done has its artifact and its closed  *)
(* trace, a notice points to an artifact with as many findings, proposals  *)
(* join each copy of a text once, a digest each notice once, a status      *)
(* report speaks of one reading and a review of the worst it found         *)
(* (skills/builtin: run_memory_consolidation, run_inbox_digest, ...).      *)
THEOREM ReportsTellTruth == Spec => []ReportsTrue
<1>1. ReportsInv => ReportsTrue
  BY ReportsAreTrue
<1> QED
  BY <1>1, ReportsInvariance, PTL

-----------------------------------------------------------------------------
(* Sessions *)

Ends == {"done", "failed", "refused"}

TurnStages ==
    {"trace", "traceCommit", "span", "spanCommit", "user", "userCommit", "context", "contextCommit",
     "rollback", "assistant", "assistantCommit", "close", "abandon"}

CreateStages == {"createSpace", "create", "createCommit"}

CopyStages == {"list", "copy", "copyCommit"}

ErasureStages == {"spans", "traces", "row"}

RequestStages ==
    {"none", "space", "lookSpace", "look", "again", "restore", "restoreCommit", "archive", "delete", "commit",
     "old", "oldCommit"}
    \cup TurnStages \cup CreateStages \cup CopyStages \cup ErasureStages \cup Ends

Roles == {"user", "assistant"}

SavedMessages == [session : Ids, turn : Nat, role : Roles]

RowStates == {"none", "active", "archived"}

TableSets ==
    [space : {"none", "active", "deleted"}, sessions : [Ids -> RowStates], messages : SUBSET SavedMessages,
     traces : SUBSET (Nat \X Ids), spans : SUBSET (Nat \X Ids), cited : SUBSET Nat, summed : SUBSET Ids]

ServedSets ==
    [op : Operations \cup {"none"}, session : Ids, branch : Ids, at : RequestStages,
     left : SUBSET SavedMessages, copying : SUBSET SavedMessages, seen : SUBSET SavedMessages, barred : BOOLEAN]

SessionTypes ==
    /\ db \in TableSets
    /\ disk \in TableSets
    /\ served \in [Requests -> ServedSets]
    /\ load \subseteq Operations \X Ids
    /\ \A ask \in load : ask[1] = "visit" => ask[2] = ConsoleId
    /\ taken \subseteq Fresh
    /\ cancelled \in BOOLEAN

\* Which operations pass through a stage.
Passes(op, at) ==
    /\ op = "none" <=> at = "none"
    /\ at \in TurnStages => op \in Talks
    /\ at \in CopyStages => op = "branch"
    /\ at \in ErasureStages \cup {"delete"} => op = "delete"
    /\ at = "archive" => op = "archive"
    /\ at \in {"restore", "restoreCommit"} => op = "visit"
    /\ at = "again" => op \in {"talk", "visit"}
    /\ at \in CreateStages => op \in {"talk", "visit", "open", "branch"}
    /\ at \in {"old", "oldCommit"} => op = "clean"
    /\ at = "commit" => op \in {"archive", "delete", "remove", "clean"}
    /\ at = "lookSpace" => op \in {"talk", "branch", "archive", "delete"}
    /\ at = "space" => op \in {"talk", "open", "branch", "archive", "delete"}
    /\ at = "look" => op \notin {"none", "open"}

\* And whose ids they have.
StageFits(j) ==
    /\ Passes(j.op, j.at)
    /\ j.op = "visit" => j.session = ConsoleId
    /\ j.op = "open" => j.session \in Fresh
    /\ j.op = "branch" => j.branch \in Fresh

\* The messages of a turn are there from the statement on, and on disk from its commit on.
TurnFits(r) ==
    ~cancelled /\ served[r].op \in Talks /\ ~DeletionAsked(served[r].session) =>
        /\ served[r].at \in {"userCommit", "context", "contextCommit", "rollback", "assistant", "assistantCommit", "close", "done"} =>
               Message(served[r].session, r, "user") \in db.messages
        /\ served[r].at \in {"context", "contextCommit", "rollback", "assistant", "assistantCommit", "close", "done"} =>
               Message(served[r].session, r, "user") \in disk.messages
        /\ served[r].at \in {"assistantCommit", "close", "done"} =>
               Message(served[r].session, r, "assistant") \in db.messages
        /\ served[r].at \in {"close", "done"} =>
               Message(served[r].session, r, "assistant") \in disk.messages

FirstMessages(tables, s) == {m \in tables.messages : m.session = s /\ m.turn = Before}

\* The messages of the first turn are gone from the deletion's first statement on.
DeletionFits(r) ==
    ~cancelled /\ served[r].op = "delete" /\ ~Branched(served[r].session) =>
        /\ served[r].at \in ErasureStages \cup {"commit", "done"} => FirstMessages(db, served[r].session) = {}
        /\ served[r].at = "done" => FirstMessages(disk, served[r].session) = {}

\* What a branch has seen is in the session until it is listed, and then to be copied, being copied, or copied.
BranchFits(r) ==
    served[r].op = "branch" =>
        /\ \A m \in served[r].seen : m.session = served[r].session
        /\ ~DeletionAsked(served[r].session) /\ served[r].at \in {"space", "lookSpace", "look"} \cup CreateStages \cup {"list"} =>
               served[r].seen \subseteq db.messages /\ served[r].seen \subseteq disk.messages
        /\ ~DeletionAsked(served[r].session) /\ ~DeletionAsked(served[r].branch)
               /\ served[r].at \in {"copy", "copyCommit", "done"} =>
               \A m \in served[r].seen :
                   \/ m \in served[r].left /\ served[r].at # "done"
                   \/ Copy(m, served[r].branch) \in served[r].copying /\ served[r].at = "copyCommit"
                   \/ Copy(m, served[r].branch) \in db.messages /\ Copy(m, served[r].branch) \in disk.messages

\* Who came to what was closed finds it closed, and gets no further.
BarFits(r) ==
    served[r].barred =>
        /\ served[r].op \in Talks =>
               /\ db.sessions[served[r].session] = "archived" /\ disk.sessions[served[r].session] = "archived"
               /\ served[r].at \notin TurnStages \cup {"createCommit", "done"}
        /\ served[r].op \in {"open", "branch"} =>
               /\ db.space = "deleted" /\ disk.space = "deleted"
               /\ served[r].at \in {"space", "failed"}
               /\ db.sessions[Target(r)] = "none" /\ disk.sessions[Target(r)] = "none"
               /\ \A q \in Requests : served[q].op = "talk" /\ served[q].session = Target(r) =>
                      served[q].at \in {"space", "failed"}

\* Foreign keys hold.
KeysHold ==
    /\ \A m \in db.messages : db.sessions[m.session] # "none"
    /\ \A m \in disk.messages : disk.sessions[m.session] # "none"

\* Only a deletion takes committed messages away.
Lost ==
    \A m \in disk.messages : m \in db.messages \/
        \E r \in Requests : served[r].op = "delete" /\ served[r].session = m.session
                               /\ served[r].at \notin {"space", "lookSpace", "look", "delete"}

\* A session's deletion is asked once.
AskedOnce ==
    \A r \in Requests : served[r].op = "delete" =>
        /\ <<"delete", served[r].session>> \notin load
        /\ \A q \in Requests : served[q].op = "delete" /\ served[q].session = served[r].session => q = r

\* An id that was not handed out is nobody's, and none is handed out twice.
FreshIds ==
    /\ \A s \in Fresh : s \notin taken => db.sessions[s] = "none" /\ disk.sessions[s] = "none"
    /\ \A r \in Requests : served[r].op # "none" =>
           /\ served[r].session \in Fresh => served[r].session \in taken
           /\ served[r].op = "branch" => served[r].branch \in taken
    /\ \A r, q \in Requests : served[r].op \in {"open", "branch"} /\ served[q].op \in {"open", "branch"} /\ Target(r) = Target(q) => r = q

\* Messages are of the first turn or of turns that were not barred.
Voiced(m) == m.turn = Before \/ (m.turn \in Requests /\ served[m.turn].op \in Talks /\ ~served[m.turn].barred)

Voices ==
    /\ \A m \in db.messages : Voiced(m)
    /\ \A m \in disk.messages : Voiced(m)
    /\ \A r \in Requests : \A m \in served[r].left : Voiced(m)

RequestFits(r) == StageFits(served[r]) /\ TurnFits(r) /\ DeletionFits(r) /\ BranchFits(r) /\ BarFits(r)

SessionsInv ==
    /\ SessionTypes
    /\ \A r \in Requests : RequestFits(r)
    /\ KeysHold
    /\ Lost
    /\ AskedOnce
    /\ FreshIds
    /\ Voices

-----------------------------------------------------------------------------
(* What an action of request r does to the requests. *)

\* Request r goes on to the stage `at`, and nobody's bar is raised.
Onward(r, at) ==
    /\ served' \in [Requests -> ServedSets]
    /\ \A q \in Requests :
           /\ served'[q].op = served[q].op
           /\ served'[q].session = served[q].session
           /\ served'[q].branch = served[q].branch
           /\ served'[q].seen = served[q].seen
           /\ served'[q].barred => served[q].barred
           /\ q # r => served'[q].at = served[q].at /\ served'[q].left = served[q].left
                          /\ served'[q].copying = served[q].copying
    /\ served'[r].at = at

(* The fields of a request. *)
LEMMA ServedFields ==
    ASSUME NEW j \in ServedSets
    PROVE  /\ j.op \in Operations \cup {"none"} /\ j.session \in Ids /\ j.branch \in Ids
           /\ j.at \in RequestStages /\ j.left \in SUBSET SavedMessages
           /\ j.copying \in SUBSET SavedMessages /\ j.seen \in SUBSET SavedMessages /\ j.barred \in BOOLEAN
  BY DEF ServedSets

(* Going on to another stage changes nothing else. *)
LEMMA GoesFacts ==
    ASSUME SessionTypes, NEW r \in Requests, NEW at \in RequestStages, Goes(r, at)
    PROVE  Onward(r, at) /\ served'[r].left = served[r].left /\ served'[r].copying = served[r].copying
  <1> DEFINE j == [served[r] EXCEPT !.at = at]
  <1>1. served \in [Requests -> ServedSets] BY DEF SessionTypes
  <1>2. served[r] \in ServedSets BY <1>1
  <1>3. /\ j \in ServedSets /\ j.at = at /\ j.op = served[r].op /\ j.session = served[r].session
        /\ j.branch = served[r].branch /\ j.left = served[r].left /\ j.copying = served[r].copying
        /\ j.seen = served[r].seen /\ j.barred = served[r].barred
    BY <1>2 DEF ServedSets
  <1>4. served' = [served EXCEPT ![r] = j] BY DEF Goes
  <1> HIDE DEF j
  <1>5. served' \in [Requests -> ServedSets] BY <1>1, <1>3, <1>4
  <1>6. served'[r] = j /\ \A q \in Requests : q # r => served'[q] = served[q] BY <1>1, <1>4
  <1> QED BY <1>3, <1>5, <1>6 DEF Onward

(* Restoring or removing rows lets down bars, and changes nothing else. *)
LEMMA UnbarsFacts ==
    ASSUME SessionTypes, NEW r \in Requests, NEW at \in RequestStages, NEW S, Unbars(S, r, at)
    PROVE  /\ Onward(r, at) /\ served'[r].left = served[r].left /\ served'[r].copying = served[r].copying
           /\ \A q \in Requests : served'[q].barred /\ served[q].op \in Talks => served[q].session \notin S
  <1>1. served \in [Requests -> ServedSets] BY DEF SessionTypes
  <1> DEFINE Barred(q) == served[q].barred /\ ~(served[q].op \in Talks /\ served[q].session \in S)
  <1> DEFINE At(q) == IF q = r THEN at ELSE served[q].at
  <1> DEFINE J(q) == [served[q] EXCEPT !.barred = Barred(q), !.at = At(q)]
  <1>2. ASSUME NEW q \in Requests
        PROVE  /\ J(q) \in ServedSets /\ J(q).at = At(q) /\ J(q).op = served[q].op /\ J(q).session = served[q].session
               /\ J(q).branch = served[q].branch /\ J(q).left = served[q].left /\ J(q).copying = served[q].copying
               /\ J(q).seen = served[q].seen /\ J(q).barred = Barred(q)
    <2>1. served[q] \in ServedSets BY <1>1
    <2>2. Barred(q) \in BOOLEAN OBVIOUS
    <2>3. At(q) \in RequestStages BY <2>1, ServedFields
    <2> HIDE DEF Barred, At
    <2> QED BY <2>1, <2>2, <2>3 DEF ServedSets
  <1>3. served' = [q \in Requests |-> J(q)] BY DEF Unbars
  <1> HIDE DEF J
  <1>4. served' \in [Requests -> ServedSets] BY <1>2, <1>3
  <1>5. \A q \in Requests : served'[q] = J(q) BY <1>3
  <1>6. \A q \in Requests : J(q).barred => served[q].barred /\ (served[q].op \in Talks => served[q].session \notin S)
    BY <1>2
  <1>7. J(r).at = at /\ \A q \in Requests : q # r => J(q).at = served[q].at BY <1>2
  <1> QED BY <1>2, <1>4, <1>5, <1>6, <1>7 DEF Onward

(* What is asked, and of which session, stays. *)
LEMMA OnwardAsked ==
    ASSUME NEW r \in Requests, NEW at, Onward(r, at)
    PROVE  /\ \A s : DeletionAsked(s)' <=> DeletionAsked(s)
           /\ \A s : Branched(s)' <=> Branched(s)
           /\ \A q \in Requests : Target(q)' = Target(q)
  BY DEF Onward, DeletionAsked, Branched, Target

\* What an action of request r that goes on to `at` may do to the tables.
Flow(r, at) ==
    /\ \A m \in db.messages : m \in disk.messages /\ ~DeletionAsked(m.session) =>
           m \in db'.messages /\ m \in disk'.messages
    /\ ~cancelled' =>
           /\ ~cancelled
           /\ \A m \in db.messages : ~DeletionAsked(m.session) => m \in db'.messages
           /\ \A m \in db'.messages : m.turn = Before => m \in db.messages \/ Branched(m.session)
           /\ \A m \in disk'.messages : m \in db.messages \/ m \in disk.messages
    /\ \A q \in Requests :
           served'[q].barred /\ served[q].op \in Talks /\ db.sessions[served[q].session] = "archived"
                /\ disk.sessions[served[q].session] = "archived" =>
               db'.sessions[served[q].session] = "archived" /\ disk'.sessions[served[q].session] = "archived"
    /\ \A s \in Ids : db.sessions[s] = "none" /\ disk.sessions[s] = "none" =>
           \/ db'.sessions[s] = "none" /\ disk'.sessions[s] = "none"
           \/ served[r].at = "create" /\ Target(r) = s
    /\ db.space = "deleted" /\ disk.space = "deleted" => db'.space = "deleted" /\ disk'.space = "deleted"
    /\ db.space = "deleted" /\ served[r].at \in {"space", "failed"} => at \in {"space", "failed"}

(* A turn keeps its messages, whatever the others do. *)
LEMMA OthersTurn ==
    ASSUME SessionTypes, NEW r \in Requests, NEW at, Onward(r, at), Flow(r, at),
           NEW q \in Requests, q # r, TurnFits(q)
    PROVE  TurnFits(q)'
  <1>1. /\ served'[q].op = served[q].op /\ served'[q].session = served[q].session /\ served'[q].at = served[q].at
    BY DEF Onward
  <1>2. DeletionAsked(served[q].session)' <=> DeletionAsked(served[q].session)
    BY <1>1 DEF Onward, DeletionAsked
  <1>3. SUFFICES ASSUME ~cancelled', served[q].op \in Talks, ~DeletionAsked(served[q].session)
                 PROVE  TurnFits(q)'
    BY <1>1, <1>2 DEF TurnFits
  <1>4. ~cancelled BY <1>3 DEF Flow
  <1>5. \A role : Message(served[q].session, q, role).session = served[q].session BY DEF Message
  <1>6. \A role : /\ Message(served[q].session, q, role) \in db.messages => Message(served[q].session, q, role) \in db'.messages
                  /\ Message(served[q].session, q, role) \in db.messages /\ Message(served[q].session, q, role) \in disk.messages =>
                         Message(served[q].session, q, role) \in disk'.messages
    BY <1>3, <1>5 DEF Flow
  <1> QED BY <1>1, <1>3, <1>4, <1>6 DEF TurnFits

(* What a deletion has taken is not written again. *)
LEMMA OthersDeletion ==
    ASSUME SessionTypes, NEW r \in Requests, NEW at, Onward(r, at), Flow(r, at),
           NEW q \in Requests, q # r, DeletionFits(q)
    PROVE  DeletionFits(q)'
  <1>1. /\ served'[q].op = served[q].op /\ served'[q].session = served[q].session /\ served'[q].at = served[q].at
    BY DEF Onward
  <1>2. Branched(served[q].session)' <=> Branched(served[q].session)
    BY <1>1 DEF Onward, Branched
  <1>3. SUFFICES ASSUME ~cancelled', served[q].op = "delete", ~Branched(served[q].session),
                        served[q].at \in ErasureStages \cup {"commit", "done"}
                 PROVE  /\ FirstMessages(db, served[q].session)' = {}
                        /\ served[q].at = "done" => FirstMessages(disk, served[q].session)' = {}
    BY <1>1, <1>2 DEF DeletionFits, FirstMessages
  <1>4. ~cancelled BY <1>3 DEF Flow
  <1>5. FirstMessages(db, served[q].session) = {} /\ (served[q].at = "done" => FirstMessages(disk, served[q].session) = {})
    BY <1>3, <1>4 DEF DeletionFits
  <1>6. \A m \in db.messages : ~(m.session = served[q].session /\ m.turn = Before) BY <1>5 DEF FirstMessages
  <1>7. \A m \in db'.messages : ~(m.session = served[q].session /\ m.turn = Before) BY <1>3, <1>6 DEF Flow
  <1>8. served[q].at = "done" => \A m \in disk.messages : ~(m.session = served[q].session /\ m.turn = Before)
    BY <1>5 DEF FirstMessages
  <1>9. served[q].at = "done" => \A m \in disk'.messages : ~(m.session = served[q].session /\ m.turn = Before)
    BY <1>3, <1>6, <1>8 DEF Flow
  <1> QED BY <1>1, <1>7, <1>9 DEF FirstMessages

(* A branch keeps what it copied, and its session what it has seen. *)
LEMMA OthersBranch ==
    ASSUME SessionTypes, NEW r \in Requests, NEW at, Onward(r, at), Flow(r, at),
           NEW q \in Requests, q # r, BranchFits(q)
    PROVE  BranchFits(q)'
  <1>1. /\ served'[q].op = served[q].op /\ served'[q].session = served[q].session /\ served'[q].at = served[q].at
        /\ served'[q].branch = served[q].branch /\ served'[q].left = served[q].left
        /\ served'[q].copying = served[q].copying /\ served'[q].seen = served[q].seen
    BY DEF Onward
  <1>2. /\ DeletionAsked(served[q].session)' <=> DeletionAsked(served[q].session)
        /\ DeletionAsked(served[q].branch)' <=> DeletionAsked(served[q].branch)
    BY <1>1 DEF Onward, DeletionAsked
  <1>3. \A m : m \in db.messages /\ m \in disk.messages /\ ~DeletionAsked(m.session) => m \in db'.messages /\ m \in disk'.messages
    BY DEF Flow
  <1>4. \A m \in served[q].seen : Copy(m, served[q].branch).session = served[q].branch
    <2>1. served[q] \in ServedSets BY DEF SessionTypes
    <2>2. \A m \in served[q].seen : m \in SavedMessages BY <2>1, ServedFields
    <2> QED BY <2>2 DEF Copy, SavedMessages
  <1>5. CASE served[q].op = "branch"
    <2>1. \A m \in served[q].seen : m.session = served[q].session BY <1>5 DEF BranchFits
    <2>2. ASSUME ~DeletionAsked(served[q].session),
                 served[q].at \in {"space", "lookSpace", "look"} \cup CreateStages \cup {"list"}
          PROVE  served[q].seen \subseteq db'.messages /\ served[q].seen \subseteq disk'.messages
      BY <1>3, <1>5, <2>1, <2>2 DEF BranchFits
    <2>3. ASSUME ~DeletionAsked(served[q].session), ~DeletionAsked(served[q].branch),
                 served[q].at \in {"copy", "copyCommit", "done"}, NEW m \in served[q].seen
          PROVE  \/ m \in served[q].left /\ served[q].at # "done"
                 \/ Copy(m, served[q].branch) \in served[q].copying /\ served[q].at = "copyCommit"
                 \/ Copy(m, served[q].branch) \in db'.messages /\ Copy(m, served[q].branch) \in disk'.messages
      BY <1>3, <1>4, <1>5, <2>3 DEF BranchFits
    <2> QED BY <1>1, <1>2, <2>1, <2>2, <2>3 DEF BranchFits, Copy
  <1> QED BY <1>1, <1>5 DEF BranchFits

(* Nobody opens what a request found closed. *)
LEMMA OthersBar ==
    ASSUME SessionTypes, NEW r \in Requests, NEW at, Onward(r, at), Flow(r, at), FreshIds,
           StageFits(served[r]), NEW q \in Requests, q # r, StageFits(served[q]), BarFits(q)
    PROVE  BarFits(q)'
  <1>1. /\ served'[q].op = served[q].op /\ served'[q].session = served[q].session /\ served'[q].at = served[q].at
        /\ served'[q].branch = served[q].branch /\ (served'[q].barred => served[q].barred)
    BY DEF Onward
  <1>2. Target(q)' = Target(q) BY <1>1 DEF Target
  <1>3. served[q] \in ServedSets /\ served[r] \in ServedSets BY DEF SessionTypes
  <1>4. CASE served[q].op \in Talks
    BY <1>1, <1>4 DEF BarFits, Flow, Talks
  <1>5. CASE served[q].op \in {"open", "branch"} /\ served'[q].barred
    <2>1. /\ db.space = "deleted" /\ disk.space = "deleted" /\ served[q].at \in {"space", "failed"}
          /\ db.sessions[Target(q)] = "none" /\ disk.sessions[Target(q)] = "none"
          /\ \A p \in Requests : served[p].op = "talk" /\ served[p].session = Target(q) => served[p].at \in {"space", "failed"}
      BY <1>1, <1>5 DEF BarFits
    <2>2. Target(q) \in Fresh /\ Target(q) \in Ids BY <1>5 DEF StageFits, Passes, Target, Ids
    <2>3. ~(served[r].at = "create" /\ Target(r) = Target(q))
      <3>1. SUFFICES ASSUME served[r].at = "create", Target(r) = Target(q) PROVE FALSE OBVIOUS
      <3>2. served[r].op \in {"talk", "visit", "open", "branch"} BY <3>1 DEF StageFits, Passes, CreateStages
      <3>3. served[r].op \notin {"open", "branch"} BY <1>5, <3>1 DEF FreshIds
      <3>4. Target(r) = served[r].session BY <3>3 DEF Target
      <3>5. served[r].op # "talk" BY <2>1, <3>1, <3>4
      <3>6. served[r].op # "visit" BY <2>2, <3>1, <3>4, SessionsAssumption DEF StageFits, Passes
      <3> QED BY <3>2, <3>3, <3>5, <3>6
    <2>4. /\ db'.space = "deleted" /\ disk'.space = "deleted"
          /\ db'.sessions[Target(q)] = "none" /\ disk'.sessions[Target(q)] = "none"
      BY <2>1, <2>2, <2>3 DEF Flow
    <2>5. ASSUME NEW p \in Requests, served'[p].op = "talk", served'[p].session = Target(q)
          PROVE  served'[p].at \in {"space", "failed"}
      <3>1. served[p].op = "talk" /\ served[p].session = Target(q) BY <2>5 DEF Onward
      <3>2. served[p].at \in {"space", "failed"} BY <2>1, <3>1
      <3>3. p = r => at \in {"space", "failed"} BY <2>1, <3>2 DEF Flow
      <3> QED BY <3>2, <3>3 DEF Onward
    <2> QED BY <1>1, <1>2, <1>5, <2>1, <2>4, <2>5 DEF BarFits, Talks
  <1> QED BY <1>1, <1>4, <1>5 DEF BarFits

\* Rows are only written for sessions that are there.
RowsFlow ==
    /\ \A m \in db'.messages : db'.sessions[m.session] # "none"
    /\ \A m \in disk'.messages : disk'.sessions[m.session] # "none"

\* What becomes of committed messages that are not there any more.
LossFlow(r, at) ==
    /\ \A m \in disk'.messages :
           \/ m \in db'.messages
           \/ m \in disk.messages /\ m \notin db.messages
           \/ served[r].op = "delete" /\ served[r].session = m.session /\ at \notin {"space", "lookSpace", "look", "delete"}
    /\ served[r].op = "delete" /\ at \in {"space", "lookSpace", "look", "delete"} =>
           served[r].at \in {"space", "lookSpace", "look", "delete"}

\* New messages are of turns that are not barred.
VoiceFlow(r) ==
    /\ \A m \in db'.messages : m \in db.messages \/ m \in disk.messages \/ Voiced(m)
    /\ \A m \in disk'.messages : m \in db.messages \/ m \in disk.messages \/ Voiced(m)
    /\ \A m \in served'[r].left : m \in db.messages \/ m \in served[r].left

(* Ids stay nobody's until they are handed out. *)
LEMMA FreshGoesOn ==
    ASSUME SessionTypes, FreshIds, NEW r \in Requests, NEW at, Onward(r, at), Flow(r, at), StageFits(served[r]),
           UNCHANGED taken
    PROVE  FreshIds'
  <1>1. ASSUME NEW s \in Fresh, s \notin taken
        PROVE  db'.sessions[s] = "none" /\ disk'.sessions[s] = "none"
    <2>1. db.sessions[s] = "none" /\ disk.sessions[s] = "none" BY <1>1 DEF FreshIds
    <2>2. ~(served[r].at = "create" /\ Target(r) = s)
      <3>1. SUFFICES ASSUME served[r].at = "create" PROVE Target(r) # s OBVIOUS
      <3>2. served[r].op # "none" BY <3>1 DEF StageFits, Passes, CreateStages
      <3> QED BY <1>1, <3>2 DEF FreshIds, Target
    <2>3. s \in Ids BY DEF Ids
    <2> QED BY <2>1, <2>2, <2>3 DEF Flow
  <1>2. \A q \in Requests : served'[q].op = served[q].op /\ served'[q].session = served[q].session
                               /\ served'[q].branch = served[q].branch /\ Target(q)' = Target(q)
    BY OnwardAsked DEF Onward
  <1>3. \A q \in Requests : served'[q].op # "none" =>
           /\ served'[q].session \in Fresh => served'[q].session \in taken'
           /\ served'[q].op = "branch" => served'[q].branch \in taken'
    BY <1>2 DEF FreshIds
  <1>4. ASSUME NEW p \in Requests, NEW q \in Requests, served'[p].op \in {"open", "branch"},
               served'[q].op \in {"open", "branch"}, Target(p)' = Target(q)'
        PROVE  p = q
    BY <1>2, <1>4 DEF FreshIds
  <1> QED BY <1>1, <1>3, <1>4 DEF FreshIds

(* An action that goes on and keeps to the above, and fits itself, keeps the invariant. *)
LEMMA Progress ==
    ASSUME SessionsInv, NEW r \in Requests, NEW at, Onward(r, at), Flow(r, at), RowsFlow, LossFlow(r, at), VoiceFlow(r),
           db' \in TableSets, disk' \in TableSets, cancelled' \in BOOLEAN, UNCHANGED <<load, taken>>, RequestFits(r)'
    PROVE  SessionsInv'
  <1> USE DEF SessionsInv
  <1>1. SessionTypes' BY DEF SessionTypes, Onward
  <1>2. ASSUME NEW q \in Requests PROVE RequestFits(q)'
    <2>1. CASE q # r
      <3>1. RequestFits(q) /\ StageFits(served[r]) BY DEF RequestFits
      <3>2. StageFits(served[q])' BY <2>1, <3>1 DEF RequestFits, StageFits, Passes, Onward
      <3> QED BY <2>1, <3>1, <3>2, OthersTurn, OthersDeletion, OthersBranch, OthersBar DEF RequestFits
    <2> QED BY <2>1
  <1>3. KeysHold' BY DEF RowsFlow, KeysHold
  <1>4. Lost'
    <2>1. ASSUME NEW m \in disk'.messages, m \notin db'.messages
          PROVE  \E q \in Requests : served'[q].op = "delete" /\ served'[q].session = m.session
                               /\ served'[q].at \notin {"space", "lookSpace", "look", "delete"}
      <3>1. CASE m \in disk.messages /\ m \notin db.messages
        <4>1. PICK q \in Requests : served[q].op = "delete" /\ served[q].session = m.session
                               /\ served[q].at \notin {"space", "lookSpace", "look", "delete"}
          BY <3>1 DEF Lost
        <4> QED BY <4>1 DEF LossFlow, Onward
      <3>2. CASE served[r].op = "delete" /\ served[r].session = m.session /\ at \notin {"space", "lookSpace", "look", "delete"}
        BY <3>2 DEF Onward
      <3> QED BY <2>1, <3>1, <3>2 DEF LossFlow
    <2> QED BY <2>1 DEF Lost
  <1>5. AskedOnce' BY DEF AskedOnce, Onward
  <1>6. FreshIds' BY FreshGoesOn DEF RequestFits
  <1>7. Voices'
    <2>1. \A m : Voiced(m) => Voiced(m)' BY DEF Voiced, Onward
    <2>2. \A m \in db.messages : Voiced(m)' BY <2>1 DEF Voices
    <2>3. \A m \in disk.messages : Voiced(m)' BY <2>1 DEF Voices
    <2>4. \A q \in Requests : \A m \in served[q].left : Voiced(m)' BY <2>1 DEF Voices
    <2>5. \A q \in Requests : \A m \in served'[q].left : Voiced(m)'
      BY <2>2, <2>4 DEF VoiceFlow, Onward
    <2> QED BY <2>1, <2>2, <2>3, <2>5 DEF Voices, VoiceFlow
  <1> QED BY <1>1, <1>2, <1>3, <1>4, <1>5, <1>6, <1>7

\* Messages stay as they are, or are committed as they are.
Steady ==
    /\ db' \in TableSets
    /\ db'.messages = db.messages
    /\ disk' = disk \/ disk' = db
    /\ UNCHANGED <<load, taken, cancelled>>

\* So do sessions, and a deleted workspace stays deleted.
Calm ==
    /\ Steady
    /\ db'.sessions = db.sessions
    /\ db.space = "deleted" => db'.space = "deleted"

\* How a turn, a deletion and a branch go on while the tables are calm.
Advances(r, at) ==
    /\ served[r].op \in Talks =>
           /\ at \in {"userCommit", "context", "contextCommit", "rollback", "assistant", "assistantCommit", "close", "done"} =>
                  served[r].at \in {"userCommit", "context", "contextCommit", "rollback", "assistant", "assistantCommit", "close"}
           /\ at \in {"context", "contextCommit", "rollback", "assistant", "assistantCommit", "close", "done"} =>
                  disk' = db \/ served[r].at # "userCommit"
           /\ at \in {"assistantCommit", "close", "done"} => served[r].at \in {"assistantCommit", "close"}
           /\ at \in {"close", "done"} => disk' = db
           /\ served[r].barred => at \notin TurnStages \cup {"createCommit", "done"}
    /\ served[r].op = "delete" /\ at \in ErasureStages \cup {"commit", "done"} =>
           served[r].at \in ErasureStages \cup {"commit"} /\ (at = "done" => disk' = db)
    /\ served[r].op = "delete" /\ at \in {"space", "lookSpace", "look", "delete"} =>
           served[r].at \in {"space", "lookSpace", "look", "delete"}
    /\ served[r].op = "branch" =>
           /\ at \notin {"copy", "copyCommit", "done"}
           /\ at \in {"space", "lookSpace", "look"} \cup CreateStages \cup {"list"} =>
                  served[r].at \in {"space", "lookSpace", "look"} \cup CreateStages \cup {"list"}
    /\ db.space = "deleted" /\ served[r].at \in {"space", "failed"} => at = "failed"

(* The flow of a calm action. *)
LEMMA CalmFlow ==
    ASSUME SessionsInv, NEW r \in Requests, NEW at, Onward(r, at), Calm,
           db.space = "deleted" /\ served[r].at \in {"space", "failed"} => at = "failed"
    PROVE  Flow(r, at) /\ RowsFlow
  <1> USE DEF SessionsInv
  <1>1. Flow(r, at) BY DEF Flow, Calm, Steady
  <1>2. RowsFlow BY DEF RowsFlow, Calm, Steady, KeysHold
  <1> QED BY <1>1, <1>2

(* An action that leaves messages and advances its request keeps the invariant. *)
LEMMA SteadyStep ==
    ASSUME SessionsInv, NEW r \in Requests, NEW at, Onward(r, at), Steady, Flow(r, at), RowsFlow, Advances(r, at),
           served'[r].left = served[r].left, StageFits(served[r])'
    PROVE  SessionsInv'
  <1> USE DEF SessionsInv
  <1>1. /\ LossFlow(r, at) BY DEF LossFlow, Steady, Advances
  <1>9. VoiceFlow(r) BY DEF VoiceFlow, Steady
  <1>10. disk' \in TableSets BY DEF Steady, SessionTypes
  <1>2. RequestFits(r) OBVIOUS
  <1>3. /\ served'[r].op = served[r].op /\ served'[r].session = served[r].session /\ served'[r].at = at
        /\ served'[r].branch = served[r].branch /\ served'[r].seen = served[r].seen
        /\ (served'[r].barred => served[r].barred)
    BY DEF Onward
  <1>4. /\ \A s : DeletionAsked(s)' <=> DeletionAsked(s)
        /\ \A s : Branched(s)' <=> Branched(s)
    BY DEF Onward, DeletionAsked, Branched
  <1>5. TurnFits(r)'
    <2>1. CASE ~cancelled /\ served[r].op \in Talks /\ ~DeletionAsked(served[r].session)
      BY <1>2, <1>3, <2>1 DEF RequestFits, TurnFits, Advances, Steady
    <2> QED BY <1>3, <1>4, <2>1 DEF TurnFits, Steady
  <1>6. DeletionFits(r)'
    <2>1. CASE ~cancelled /\ served[r].op = "delete" /\ ~Branched(served[r].session) /\ at \in ErasureStages \cup {"commit", "done"}
      <3>1. FirstMessages(db, served[r].session) = {} BY <1>2, <2>1 DEF RequestFits, DeletionFits, Advances
      <3>2. FirstMessages(db, served[r].session)' = {} BY <1>3, <3>1 DEF FirstMessages, Steady
      <3>3. at = "done" => FirstMessages(disk, served[r].session)' = {} BY <1>3, <2>1, <3>1 DEF FirstMessages, Advances
      <3> QED BY <1>3, <3>2, <3>3 DEF DeletionFits
    <2> QED BY <1>3, <1>4, <2>1 DEF DeletionFits, Steady
  <1>7. BranchFits(r)'
    <2>1. CASE served[r].op = "branch"
      <3>1. \A m \in served[r].seen : m.session = served[r].session BY <1>2, <2>1 DEF RequestFits, BranchFits
      <3>2. ASSUME ~DeletionAsked(served[r].session), at \in {"space", "lookSpace", "look"} \cup CreateStages \cup {"list"}
            PROVE  served[r].seen \subseteq db'.messages /\ served[r].seen \subseteq disk'.messages
        BY <1>2, <2>1, <3>2 DEF RequestFits, BranchFits, Advances, Steady
      <3>3. at \notin {"copy", "copyCommit", "done"} BY <2>1 DEF Advances
      <3> QED BY <1>3, <1>4, <3>1, <3>2, <3>3 DEF BranchFits
    <2> QED BY <1>3, <2>1 DEF BranchFits
  <1>8. BarFits(r)'
    <2>1. CASE served[r].op \in Talks
      BY <1>2, <1>3, <2>1 DEF RequestFits, BarFits, Advances, Flow, Talks
    <2>2. CASE served[r].op \in {"open", "branch"} /\ served'[r].barred
      <3>1. /\ db.space = "deleted" /\ disk.space = "deleted" /\ served[r].at \in {"space", "failed"}
            /\ db.sessions[Target(r)] = "none" /\ disk.sessions[Target(r)] = "none"
            /\ \A p \in Requests : served[p].op = "talk" /\ served[p].session = Target(r) => served[p].at \in {"space", "failed"}
        BY <1>2, <1>3, <2>2 DEF RequestFits, BarFits
      <3>2. at = "failed" BY <3>1 DEF Advances
      <3>3. Target(r)' = Target(r) BY <1>3 DEF Target
      <3>4. \A p \in Requests : served'[p].op = "talk" /\ served'[p].session = Target(r) => served'[p].at \in {"space", "failed"}
        BY <3>1, <3>2 DEF Onward
      <3>5. Target(r) \in Ids
        <4>1. served[r] \in ServedSets BY DEF SessionTypes
        <4> QED BY <4>1, ServedFields DEF Target
      <3>6. /\ db'.space = "deleted" /\ disk'.space = "deleted"
            /\ db'.sessions[Target(r)] = "none" /\ disk'.sessions[Target(r)] = "none"
        BY <3>1, <3>5 DEF Flow
      <3> QED BY <1>3, <2>2, <3>2, <3>3, <3>4, <3>6 DEF BarFits, Talks
    <2> QED BY <1>3, <2>1, <2>2 DEF BarFits
  <1> QED BY <1>1, <1>9, <1>10, <1>5, <1>6, <1>7, <1>8, Progress DEF RequestFits, Steady, SessionTypes

(* So does a calm one. *)
LEMMA CalmStep ==
    ASSUME SessionsInv, NEW r \in Requests, NEW at, Onward(r, at), Calm, Advances(r, at),
           served'[r].left = served[r].left, StageFits(served[r])'
    PROVE  SessionsInv'
  BY CalmFlow, SteadyStep DEF Advances, Calm

(* The columns of the tables. *)
LEMMA TableFacts ==
    ASSUME NEW t \in TableSets
    PROVE  /\ t.space \in {"none", "active", "deleted"} /\ t.sessions \in [Ids -> RowStates]
           /\ t.messages \in SUBSET SavedMessages /\ t.traces \in SUBSET (Nat \X Ids) /\ t.spans \in SUBSET (Nat \X Ids)
           /\ t.cited \in SUBSET Nat /\ t.summed \in SUBSET Ids
           /\ \A v \in {"none", "active", "deleted"} :
                  LET u == [t EXCEPT !.space = v]
                  IN  u \in TableSets /\ u.space = v /\ u.sessions = t.sessions /\ u.messages = t.messages
  BY DEF TableSets

(* A request that only goes on. *)
LEMMA MovesStep ==
    ASSUME SessionsInv, NEW r \in Requests, NEW at \in RequestStages, Moves(r, at), Advances(r, at), Passes(served[r].op, at)
    PROVE  SessionsInv'
  <1>1. SessionTypes BY DEF SessionsInv
  <1>2. Onward(r, at) /\ served'[r].left = served[r].left BY <1>1, GoesFacts DEF Moves
  <1>3. Calm BY <1>1 DEF Calm, Steady, Moves, SessionTypes
  <1>4. StageFits(served[r])' BY <1>2 DEF Onward, SessionsInv, RequestFits, StageFits
  <1> QED BY <1>2, <1>3, <1>4, CalmStep

(* A commit. *)
LEMMA CommitStep ==
    ASSUME SessionsInv, NEW r \in Requests, NEW at \in RequestStages, Commit(r, at), Advances(r, at), Passes(served[r].op, at)
    PROVE  SessionsInv'
  <1>1. SessionTypes BY DEF SessionsInv
  <1>2. Onward(r, at) /\ served'[r].left = served[r].left BY <1>1, GoesFacts DEF Commit
  <1>3. Calm BY <1>1 DEF Calm, Steady, Commit, SessionTypes
  <1>4. StageFits(served[r])' BY <1>2 DEF Onward, SessionsInv, RequestFits, StageFits
  <1> QED BY <1>2, <1>3, <1>4, CalmStep

(* A statement on other tables. *)
LEMMA StatementStep ==
    ASSUME SessionsInv, NEW r \in Requests, NEW at \in RequestStages, NEW tables \in TableSets, Statement(r, tables, at),
           tables.messages = db.messages, tables.sessions = db.sessions, db.space = "deleted" => tables.space = "deleted",
           Advances(r, at), Passes(served[r].op, at)
    PROVE  SessionsInv'
  <1>1. SessionTypes BY DEF SessionsInv
  <1>2. Onward(r, at) /\ served'[r].left = served[r].left BY <1>1, GoesFacts DEF Statement
  <1>3. Calm BY <1>1 DEF Calm, Steady, Statement, SessionTypes
  <1>4. StageFits(served[r])' BY <1>2 DEF Onward, SessionsInv, RequestFits, StageFits
  <1> QED BY <1>2, <1>3, <1>4, CalmStep

(* What is known of a request. *)
LEMMA StageFacts ==
    ASSUME SessionsInv, NEW r \in Requests
    PROVE  /\ served[r] \in ServedSets /\ Passes(served[r].op, served[r].at)
           /\ db \in TableSets /\ disk \in TableSets
           /\ served[r].op \in Talks /\ served[r].barred =>
                  db.sessions[served[r].session] = "archived" /\ served[r].at \notin TurnStages \cup {"createCommit", "done"}
           /\ served[r].op \in {"open", "branch"} /\ served[r].barred =>
                  db.space = "deleted" /\ served[r].at \in {"space", "failed"}
  BY DEF SessionsInv, SessionTypes, RequestFits, StageFits, BarFits, Talks

(* ensure_workspace and its commit. *)
LEMMA EnsureKeeps ==
    ASSUME SessionsInv, NEW r \in Requests, Ensure(r) \/ CommitSpace(r)
    PROVE  SessionsInv'
  <1> DEFINE goal == IF served[r].at = "again" \/ served[r].op = "open" THEN "create" ELSE "look"
  <1>1. /\ served[r] \in ServedSets /\ Passes(served[r].op, served[r].at) /\ db \in TableSets
        /\ served[r].op \in Talks /\ served[r].barred =>
               db.sessions[served[r].session] = "archived" /\ served[r].at \notin TurnStages \cup {"createCommit", "done"}
    BY StageFacts
  <1> USE <1>1 DEF Advances, Passes, Talks, TurnStages, CreateStages, ErasureStages, CopyStages
  <1>2. ASSUME served[r].at \in {"space", "again"}, db.space = "active", Moves(r, goal) PROVE SessionsInv'
    <2>1. goal \in RequestStages BY DEF RequestStages
    <2>2. Advances(r, goal) BY <1>2
    <2>3. Passes(served[r].op, goal) BY <1>2
    <2> HIDE DEF goal
    <2> QED BY <1>2, <2>1, <2>2, <2>3, MovesStep
  <1>3. ASSUME served[r].at \in {"space", "again"}, db.space = "none", NEW at, at = IF goal = "look" THEN "lookSpace" ELSE "createSpace",
               Statement(r, [db EXCEPT !.space = "active"], at)
        PROVE  SessionsInv'
    <2>1. at \in RequestStages BY <1>3 DEF RequestStages
    <2>2. Advances(r, at) BY <1>3
    <2>3. Passes(served[r].op, at) BY <1>3
    <2>4. PICK tables : tables = [db EXCEPT !.space = "active"] OBVIOUS
    <2>5. tables \in TableSets /\ tables.messages = db.messages /\ tables.sessions = db.sessions BY <2>4, TableFacts
    <2> HIDE DEF goal, Advances, Passes
    <2> QED BY <1>3, <2>1, <2>2, <2>3, <2>4, <2>5, StatementStep
  <1>4. ASSUME served[r].at \in {"space", "again"}, db.space = "deleted", Raises(r) PROVE SessionsInv'
    <2>1. Advances(r, "failed") /\ Passes(served[r].op, "failed") BY <1>4
    <2>2. "failed" \in RequestStages BY DEF RequestStages, Ends
    <2> QED BY <1>4, <2>1, <2>2, MovesStep DEF Raises
  <1>5. ASSUME served[r].at = "lookSpace", Commit(r, "look") PROVE SessionsInv'
    <2>1. Advances(r, "look") /\ Passes(served[r].op, "look") BY <1>5
    <2>2. "look" \in RequestStages BY DEF RequestStages
    <2> QED BY <1>5, <2>1, <2>2, CommitStep
  <1>6. ASSUME served[r].at = "createSpace", Commit(r, "create") PROVE SessionsInv'
    <2>1. Advances(r, "create") /\ Passes(served[r].op, "create") BY <1>6
    <2>2. "create" \in RequestStages BY DEF RequestStages
    <2> QED BY <1>6, <2>1, <2>2, CommitStep
  <1> QED BY <1>2, <1>3, <1>4, <1>5, <1>6 DEF Ensure, CommitSpace

(* A request looks for its session. *)
LEMMA LookKeepsSessions ==
    ASSUME SessionsInv, NEW r \in Requests, Look(r)
    PROVE  SessionsInv'
  <1>1. /\ served[r] \in ServedSets /\ Passes(served[r].op, served[r].at) /\ db \in TableSets
        /\ served[r].op \in Talks /\ served[r].barred =>
               db.sessions[served[r].session] = "archived" /\ served[r].at \notin TurnStages \cup {"createCommit", "done"}
    BY StageFacts
  <1>2. served[r].at = "look" /\ served[r].op \in {"talk", "chat", "visit", "branch", "archive", "delete"}
    BY <1>1, ServedFields DEF Look, Passes, Operations
  <1>3. PICK at : /\ Moves(r, at)
                  /\ \/ Found(served[r].session) /\ served[r].op \in Talks /\ at = "trace"
                     \/ served[r].op = "branch" /\ at = "create"
                     \/ served[r].op = "visit" /\ at \in {"done", "restore"}
                     \/ served[r].op \in {"archive", "delete"} /\ at = served[r].op
                     \/ served[r].op = "talk" /\ at = "again"
                     \/ at = "refused"
    BY <1>2 DEF Look, Talks
  <1>4. at \in RequestStages BY <1>2, <1>3 DEF RequestStages, TurnStages, CreateStages, Ends
  <1>5. Passes(served[r].op, at)
    BY <1>2, <1>3 DEF Passes, Talks, TurnStages, CreateStages, ErasureStages, CopyStages
  <1>6. Advances(r, at)
    BY <1>1, <1>2, <1>3 DEF Advances, Found, Talks, TurnStages, CreateStages, ErasureStages, CopyStages
  <1> QED BY <1>3, <1>4, <1>5, <1>6, MovesStep

(* The commit of a new row. *)
LEMMA CommitCreateKeeps ==
    ASSUME SessionsInv, NEW r \in Requests, CommitCreate(r)
    PROVE  SessionsInv'
  <1>1. /\ served[r] \in ServedSets /\ Passes(served[r].op, served[r].at)
        /\ served[r].op \in Talks /\ served[r].barred => served[r].at \notin TurnStages \cup {"createCommit", "done"}
    BY StageFacts
  <1>2. PICK at : /\ served[r].at = "createCommit" /\ Commit(r, at)
                  /\ \/ at = "failed"
                     \/ served[r].op = "talk" /\ at = "trace"
                     \/ served[r].op = "branch" /\ at = "list"
                     \/ served[r].op \notin {"talk", "branch"} /\ at = "done"
    BY DEF CommitCreate
  <1>3. at \in RequestStages BY <1>2 DEF RequestStages, TurnStages, CopyStages, Ends
  <1>4. Passes(served[r].op, at)
    BY <1>1, <1>2 DEF Passes, Talks, TurnStages, CreateStages, ErasureStages, CopyStages
  <1>5. Advances(r, at)
    BY <1>1, <1>2 DEF Passes, Advances, Talks, TurnStages, CreateStages, ErasureStages, CopyStages
  <1> QED BY <1>2, <1>3, <1>4, <1>5, CommitStep

(* The commits in between. *)
LEMMA CommitsKeep ==
    ASSUME SessionsInv, NEW r \in Requests,
           CommitRestore(r) \/ CommitTrace(r) \/ CommitSpan(r) \/ CommitAppend(r) \/ CommitEvidence(r) \/ Close(r) \/ CommitChange(r)
    PROVE  SessionsInv'
  <1>1. /\ served[r] \in ServedSets /\ Passes(served[r].op, served[r].at)
        /\ served[r].op \in Talks /\ served[r].barred => served[r].at \notin TurnStages \cup {"createCommit", "done"}
    BY StageFacts
  <1>2. PICK at :
           /\ Commit(r, at)
           /\ \/ served[r].at = "restoreCommit" /\ at \in {"done", "again"}
              \/ served[r].at = "traceCommit" /\ at = "span"
              \/ served[r].at = "spanCommit" /\ at = "user"
              \/ served[r].at = "userCommit" /\ at = "context"
              \/ served[r].at = "assistantCommit" /\ at = "close"
              \/ served[r].at = "contextCommit" /\ at = "assistant"
              \/ served[r].at = "close" /\ at = "done"
              \/ served[r].at = "abandon" /\ at = "failed"
              \/ served[r].at = "commit" /\ served[r].op = "clean" /\ at = "old"
              \/ served[r].at = "commit" /\ served[r].op # "clean" /\ at = "done"
    BY DEF CommitRestore, CommitTrace, CommitSpan, CommitAppend, CommitEvidence, Close, CommitChange, Then
  <1>3. at \in RequestStages BY <1>2 DEF RequestStages, TurnStages, Ends
  <1>4. Passes(served[r].op, at)
    BY <1>1, <1>2 DEF Passes, Talks, TurnStages, CreateStages, ErasureStages, CopyStages
  <1>5. disk' = db BY <1>2 DEF Commit
  <1>6. Advances(r, at)
    BY <1>1, <1>2, <1>5 DEF Passes, Advances, Talks, TurnStages, CreateStages, ErasureStages, CopyStages
  <1> QED BY <1>2, <1>3, <1>4, <1>6, CommitStep

(* Traces, spans and evidence are written and removed. *)
LEMMA TracesKeep ==
    ASSUME SessionsInv, NEW r \in Requests, BeginTrace(r) \/ BeginSpan(r) \/ Evidence(r)
    PROVE  SessionsInv'
  <1>1. /\ served[r] \in ServedSets /\ Passes(served[r].op, served[r].at) /\ db \in TableSets
        /\ served[r].op \in Talks /\ served[r].barred => served[r].at \notin TurnStages \cup {"createCommit", "done"}
    BY StageFacts
  <1>2. r \in Nat BY SessionsAssumption
  <1> DEFINE t == <<r, served[r].session>>
  <1>3. t \in Nat \X Ids BY <1>1, <1>2, ServedFields
  <1>4. PICK at, tables :
           /\ \/ served[r].at = "trace" /\ at = "traceCommit"
              \/ served[r].at = "span" /\ at \in {"spanCommit", "failed"}
              \/ served[r].at = "context" /\ at \in {"contextCommit", "rollback"}
           /\ Moves(r, at) \/ Statement(r, tables, at)
           /\ \/ tables = db \/ tables = [db EXCEPT !.traces = @ \cup {t}] \/ tables = [db EXCEPT !.spans = @ \cup {t}]
              \/ tables = [db EXCEPT !.cited = @ \cup {r}]
    <2>1. CASE BeginTrace(r) BY <2>1 DEF BeginTrace
    <2>2. CASE BeginSpan(r) BY <2>2 DEF BeginSpan, Raises
    <2>3. CASE Evidence(r) BY <2>3 DEF Evidence
    <2> QED BY <2>1, <2>2, <2>3
  <1>5. at \in RequestStages BY <1>4 DEF RequestStages, TurnStages, Ends
  <1>6. Passes(served[r].op, at)
    BY <1>1, <1>4 DEF Passes, Talks, TurnStages, CreateStages, ErasureStages, CopyStages
  <1>7. Advances(r, at)
    BY <1>1, <1>4 DEF Passes, Advances, Talks, TurnStages, CreateStages, ErasureStages, CopyStages
  <1>8. tables \in TableSets /\ tables.messages = db.messages /\ tables.sessions = db.sessions /\ tables.space = db.space
    <2>1. /\ db.traces \cup {t} \in SUBSET (Nat \X Ids) /\ db.spans \cup {t} \in SUBSET (Nat \X Ids)
          /\ db.cited \cup {r} \in SUBSET Nat
      BY <1>1, <1>2, <1>3, TableFacts
    <2> HIDE DEF t
    <2>2. CASE tables = db BY <1>1, <2>2
    <2>3. CASE tables = [db EXCEPT !.traces = @ \cup {t}]
      <3>1. PICK u : u = db.traces \cup {t} OBVIOUS
      <3>2. tables = [db EXCEPT !.traces = u] BY <2>3, <3>1
      <3> QED BY <1>1, <2>1, <3>1, <3>2 DEF TableSets
    <2>4. CASE tables = [db EXCEPT !.spans = @ \cup {t}]
      <3>1. PICK u : u = db.spans \cup {t} OBVIOUS
      <3>2. tables = [db EXCEPT !.spans = u] BY <2>4, <3>1
      <3> QED BY <1>1, <2>1, <3>1, <3>2 DEF TableSets
    <2>5. CASE tables = [db EXCEPT !.cited = @ \cup {r}]
      <3>1. PICK u : u = db.cited \cup {r} OBVIOUS
      <3>2. tables = [db EXCEPT !.cited = u] BY <2>5, <3>1
      <3> QED BY <1>1, <2>1, <3>1, <3>2 DEF TableSets
    <2> QED BY <1>4, <2>2, <2>3, <2>4, <2>5
  <1> QED BY <1>4, <1>5, <1>6, <1>7, <1>8, MovesStep, StatementStep

(* A workspace is marked as deleted; old traces are removed. *)
LEMMA RemovalsKeep ==
    ASSUME SessionsInv, NEW r \in Requests,
           \/ RemoveWorkspace(r)
           \/ Clean(r) /\ served[r].at # "look"
           \/ Delete(r) /\ served[r].at \in {"spans", "traces"}
    PROVE  SessionsInv'
  <1>1. /\ served[r] \in ServedSets /\ Passes(served[r].op, served[r].at) /\ db \in TableSets
    BY StageFacts
  <1>2. PICK at, tables :
           /\ \/ served[r].op = "remove" /\ served[r].at = "look" /\ at \in {"commit", "refused"}
              \/ served[r].op = "clean" /\ served[r].at = "old" /\ at \in {"oldCommit", "failed"}
              \/ served[r].at = "oldCommit" /\ at = "done"
              \/ served[r].at = "spans" /\ at = "traces"
              \/ served[r].at = "traces" /\ at \in {"failed", "row"}
           /\ Moves(r, at) \/ Statement(r, tables, at) \/ (Commit(r, at) /\ at = "done")
           /\ \/ tables = db \/ tables = [db EXCEPT !.space = "deleted"]
              \/ \E gone : tables = [db EXCEPT !.traces = @ \ gone]
              \/ \E gone : tables = [db EXCEPT !.spans = @ \ gone]
    <2>1. CASE RemoveWorkspace(r) BY <2>1 DEF RemoveWorkspace, Doing
    <2>2. CASE Clean(r) /\ served[r].at # "look" BY <2>2 DEF Clean, Raises, Doing
    <2>3. CASE Delete(r) /\ served[r].at \in {"spans", "traces"} BY <2>3 DEF Delete, Raises
    <2> QED BY <2>1, <2>2, <2>3
  <1>3. at \in RequestStages BY <1>2 DEF RequestStages, ErasureStages, Ends
  <1>4. Passes(served[r].op, at)
    BY <1>1, <1>2 DEF Passes, Talks, TurnStages, CreateStages, ErasureStages, CopyStages
  <1>5. at = "done" => served[r].op = "clean"
    BY <1>1, <1>2 DEF Passes
  <1>6. Advances(r, at)
    BY <1>1, <1>2, <1>5 DEF Passes, Advances, Talks, TurnStages, CreateStages, ErasureStages, CopyStages
  <1>7. tables \in TableSets /\ tables.messages = db.messages /\ tables.sessions = db.sessions
        /\ (db.space = "deleted" => tables.space = "deleted")
    <2>1. CASE tables = db BY <1>1, <2>1
    <2>2. CASE tables = [db EXCEPT !.space = "deleted"] BY <1>1, <2>2, TableFacts
    <2>3. ASSUME NEW gone, tables = [db EXCEPT !.traces = @ \ gone] PROVE <1>7
      <3>1. PICK u : u = db.traces \ gone OBVIOUS
      <3>2. u \in SUBSET (Nat \X Ids) BY <1>1, <3>1, TableFacts
      <3>3. tables = [db EXCEPT !.traces = u] BY <2>3, <3>1
      <3> QED BY <1>1, <3>2, <3>3 DEF TableSets
    <2>4. ASSUME NEW gone, tables = [db EXCEPT !.spans = @ \ gone] PROVE <1>7
      <3>1. PICK u : u = db.spans \ gone OBVIOUS
      <3>2. u \in SUBSET (Nat \X Ids) BY <1>1, <3>1, TableFacts
      <3>3. tables = [db EXCEPT !.spans = u] BY <2>4, <3>1
      <3> QED BY <1>1, <3>2, <3>3 DEF TableSets
    <2> QED BY <1>2, <2>1, <2>2, <2>3, <2>4
  <1> QED BY <1>2, <1>3, <1>4, <1>6, <1>7, MovesStep, StatementStep, CommitStep

\* Some rows of sessions change.
RowsChange(S, stat) ==
    /\ stat \in [Ids -> RowStates]
    /\ \A s \in Ids : s \notin S => stat[s] = db.sessions[s]

(* The rows of sessions change: none appears but a new one, and none that is referred to goes. *)
LEMMA RowsStep ==
    ASSUME SessionsInv, NEW r \in Requests, NEW at, Onward(r, at), NEW S \in SUBSET Ids, NEW stat, RowsChange(S, stat),
           db' = [db EXCEPT !.sessions = stat], UNCHANGED <<disk, load, taken, cancelled>>,
           \A s \in S : stat[s] = "none" => db.sessions[s] = "none" \/ ~Referred(s),
           \A s \in S : db.sessions[s] = "none" /\ stat[s] # "none" => served[r].at = "create" /\ Target(r) = s,
           \A q \in Requests : served'[q].barred /\ served[q].op \in Talks /\ served[q].session \in S =>
               stat[served[q].session] = "archived" \/ db.sessions[served[q].session] # "archived",
           Advances(r, at), served'[r].left = served[r].left, Passes(served[r].op, at)
    PROVE  SessionsInv'
  <1> USE DEF SessionsInv
  <1>1. db \in TableSets /\ disk \in TableSets /\ db.messages \subseteq SavedMessages
    BY TableFacts DEF SessionTypes
  <1>2. db' \in TableSets /\ db'.space = db.space /\ db'.messages = db.messages /\ db'.sessions = stat
    BY <1>1 DEF RowsChange, TableSets
  <1>3. Steady BY <1>2 DEF Steady
  <1>4. \A m \in db.messages : m.session \in Ids BY <1>1 DEF SavedMessages
  <1>5. RowsFlow
    <2>1. ASSUME NEW m \in db.messages PROVE stat[m.session] # "none"
      <3>1. m.session \in Ids /\ db.sessions[m.session] # "none" /\ Referred(m.session)
        BY <1>4 DEF KeysHold, Referred
      <3> QED BY <3>1 DEF RowsChange
    <2> QED BY <1>2, <2>1 DEF RowsFlow, KeysHold
  <1>6. Flow(r, at)
    <2>1. \A q \in Requests : served[q].session \in Ids
      BY ServedFields DEF SessionTypes
    <2>2. ASSUME NEW q \in Requests, served'[q].barred, served[q].op \in Talks, db.sessions[served[q].session] = "archived"
          PROVE  stat[served[q].session] = "archived"
      BY <2>1, <2>2 DEF RowsChange
    <2>3. ASSUME NEW s \in Ids, db.sessions[s] = "none"
          PROVE  stat[s] = "none" \/ (served[r].at = "create" /\ Target(r) = s)
      BY <2>3 DEF RowsChange
    <2> QED BY <1>2, <2>2, <2>3 DEF Flow, Advances
  <1>7. StageFits(served[r])' BY DEF Onward, RequestFits, StageFits
  <1> QED BY <1>3, <1>5, <1>6, <1>7, SteadyStep

(* A row changes. *)
LEMMA RowFacts ==
    ASSUME SessionsInv, NEW s \in Ids, NEW v \in RowStates
    PROVE  \E stat : /\ [db EXCEPT !.sessions[s] = v] = [db EXCEPT !.sessions = stat]
                     /\ RowsChange({s}, stat) /\ stat[s] = v
  <1>1. db \in TableSets BY DEF SessionsInv, SessionTypes
  <1>2. db.sessions \in [Ids -> RowStates] BY <1>1, TableFacts
  <1> DEFINE stat == [db.sessions EXCEPT ![s] = v]
  <1>3. [db EXCEPT !.sessions[s] = v] = [db EXCEPT !.sessions = stat] OBVIOUS
  <1>4. RowsChange({s}, stat) /\ stat[s] = v BY <1>2 DEF RowsChange
  <1> HIDE DEF stat
  <1> QED BY <1>3, <1>4

(* create_session *)
LEMMA CreateKeeps ==
    ASSUME SessionsInv, NEW r \in Requests, Create(r)
    PROVE  SessionsInv'
  <1>1. /\ served[r] \in ServedSets /\ Passes(served[r].op, served[r].at) /\ db \in TableSets
        /\ served[r].op \in Talks /\ served[r].barred =>
               db.sessions[served[r].session] = "archived" /\ served[r].at \notin TurnStages \cup {"createCommit", "done"}
    BY StageFacts
  <1>2. served[r].at = "create" BY DEF Create
  <1>3. CASE Raises(r)
    <2>1. "failed" \in RequestStages /\ Passes(served[r].op, "failed") /\ Advances(r, "failed")
      BY <1>1, <1>2 DEF RequestStages, Ends, Passes, Advances, Talks, TurnStages, CreateStages, ErasureStages, CopyStages
    <2> QED BY <1>3, <2>1, MovesStep DEF Raises
  <1>4. CASE Insertable(Target(r)) /\ Statement(r, [db EXCEPT !.sessions[Target(r)] = "active"], "createCommit")
    <2>1. "createCommit" \in RequestStages /\ Passes(served[r].op, "createCommit")
      BY <1>1, <1>2 DEF RequestStages, Ends, Passes, Talks, TurnStages, CreateStages, ErasureStages, CopyStages
    <2>2. served[r].op \in Talks => Target(r) = served[r].session BY DEF Target, Talks
    <2>3. Advances(r, "createCommit")
      BY <1>1, <1>2, <1>4, <2>2 DEF Insertable, Passes, Advances, Talks, TurnStages, CreateStages, ErasureStages, CopyStages
    <2>4. Target(r) \in Ids BY <1>1, ServedFields DEF Target
    <2>5. PICK stat : /\ [db EXCEPT !.sessions[Target(r)] = "active"] = [db EXCEPT !.sessions = stat]
                      /\ RowsChange({Target(r)}, stat) /\ stat[Target(r)] = "active"
      BY <2>4, RowFacts DEF RowStates
    <2>6. Onward(r, "createCommit") /\ served'[r].left = served[r].left
      BY <1>4, <2>1, GoesFacts DEF Statement, SessionsInv
    <2>7. db.sessions[Target(r)] = "none" BY <1>4 DEF Insertable
    <2>8. {Target(r)} \in SUBSET Ids BY <2>4
    <2>9. db' = [db EXCEPT !.sessions = stat] /\ UNCHANGED <<disk, load, taken, cancelled>> BY <1>4, <2>5 DEF Statement
    <2> QED BY <1>2, <2>1, <2>3, <2>5, <2>6, <2>7, <2>8, <2>9, RowsStep
  <1> QED BY <1>3, <1>4 DEF Create

(* restore *)
LEMMA RestoreKeeps ==
    ASSUME SessionsInv, NEW r \in Requests, Restore(r)
    PROVE  SessionsInv'
  <1>1. served[r] \in ServedSets /\ Passes(served[r].op, served[r].at) /\ db \in TableSets BY StageFacts
  <1>2. served[r].at = "restore" /\ served[r].op = "visit" BY <1>1 DEF Restore, Passes
  <1> DEFINE s == served[r].session
  <1> DEFINE v == IF db.sessions[s] = "none" THEN "none" ELSE "active"
  <1>3. s \in Ids /\ v \in RowStates BY <1>1, ServedFields DEF RowStates
  <1>4. "restoreCommit" \in RequestStages /\ Passes(served[r].op, "restoreCommit") /\ Advances(r, "restoreCommit")
    BY <1>2 DEF RequestStages, Passes, Advances, Talks, TurnStages, CreateStages, ErasureStages, CopyStages
  <1>5. Unbars({s}, r, "restoreCommit") BY DEF Restore
  <1>6. /\ Onward(r, "restoreCommit") /\ served'[r].left = served[r].left
        /\ \A q \in Requests : served'[q].barred /\ served[q].op \in Talks => served[q].session \notin {s}
    BY <1>4, <1>5, UnbarsFacts DEF SessionsInv
  <1>7. db' = [db EXCEPT !.sessions[s] = v] /\ UNCHANGED <<disk, load, taken, cancelled>>
    BY DEF Restore
  <1>8. PICK stat : /\ [db EXCEPT !.sessions[s] = v] = [db EXCEPT !.sessions = stat]
                    /\ RowsChange({s}, stat) /\ stat[s] = v
    BY <1>3, RowFacts
  <1>9. {s} \in SUBSET Ids BY <1>3
  <1>10. v = "none" <=> db.sessions[s] = "none" OBVIOUS
  <1> HIDE DEF s, v
  <1>11. db' = [db EXCEPT !.sessions = stat] BY <1>7, <1>8
  <1> QED BY <1>4, <1>6, <1>7, <1>8, <1>9, <1>10, <1>11, RowsStep

(* archive *)
LEMMA ArchiveKeeps ==
    ASSUME SessionsInv, NEW r \in Requests, Archive(r)
    PROVE  SessionsInv'
  <1>1. served[r] \in ServedSets /\ Passes(served[r].op, served[r].at) /\ db \in TableSets BY StageFacts
  <1>2. served[r].at = "archive" /\ served[r].op = "archive" BY <1>1 DEF Archive, Passes
  <1> DEFINE s == served[r].session
  <1> DEFINE v == IF db.sessions[s] = "none" THEN "none" ELSE "archived"
  <1>3. s \in Ids /\ v \in RowStates BY <1>1, ServedFields DEF RowStates
  <1>4. "commit" \in RequestStages /\ Passes(served[r].op, "commit") /\ Advances(r, "commit")
    BY <1>2 DEF RequestStages, Passes, Advances, Talks, TurnStages, CreateStages, ErasureStages, CopyStages
  <1>5. Statement(r, [db EXCEPT !.sessions[s] = v], "commit") BY DEF Archive
  <1>6. Onward(r, "commit") /\ served'[r].left = served[r].left
    BY <1>4, <1>5, GoesFacts DEF SessionsInv, Statement
  <1>7. db' = [db EXCEPT !.sessions[s] = v] /\ UNCHANGED <<disk, load, taken, cancelled>>
    BY <1>5 DEF Statement
  <1>8. PICK stat : /\ [db EXCEPT !.sessions[s] = v] = [db EXCEPT !.sessions = stat]
                    /\ RowsChange({s}, stat) /\ stat[s] = v
    BY <1>3, RowFacts
  <1>9. {s} \in SUBSET Ids BY <1>3
  <1>10. (v = "none" <=> db.sessions[s] = "none") /\ (db.sessions[s] = "archived" => v = "archived") OBVIOUS
  <1> HIDE DEF s, v
  <1>11. db' = [db EXCEPT !.sessions = stat] BY <1>7, <1>8
  <1> QED BY <1>4, <1>6, <1>7, <1>8, <1>9, <1>10, <1>11, RowsStep

(* hard_delete removes the row of the session. *)
LEMMA RemoveRowKeeps ==
    ASSUME SessionsInv, NEW r \in Requests, Delete(r), served[r].at = "row"
    PROVE  SessionsInv'
  <1>1. served[r] \in ServedSets /\ Passes(served[r].op, served[r].at) /\ db \in TableSets BY StageFacts
  <1>2. served[r].op = "delete" BY <1>1 DEF Passes, ErasureStages
  <1> DEFINE s == served[r].session
  <1>3. s \in Ids BY <1>1, ServedFields
  <1>4. CASE Raises(r)
    <2>1. "failed" \in RequestStages /\ Passes(served[r].op, "failed") /\ Advances(r, "failed")
      BY <1>2 DEF RequestStages, Ends, Passes, Advances, Talks, TurnStages, CreateStages, ErasureStages, CopyStages
    <2> QED BY <1>4, <2>1, MovesStep DEF Raises
  <1>5. CASE /\ db.sessions[s] = "none" \/ ~Referred(s)
             /\ db' = [db EXCEPT !.sessions[s] = "none"] /\ Unbars({s}, r, "commit")
             /\ UNCHANGED <<disk, load, taken, cancelled>>
    <2>1. "commit" \in RequestStages /\ Passes(served[r].op, "commit") /\ Advances(r, "commit")
      BY <1>2 DEF RequestStages, Passes, Advances, Talks, TurnStages, CreateStages, ErasureStages, CopyStages
    <2>2. /\ Onward(r, "commit") /\ served'[r].left = served[r].left
          /\ \A q \in Requests : served'[q].barred /\ served[q].op \in Talks => served[q].session \notin {s}
      BY <1>5, <2>1, UnbarsFacts DEF SessionsInv
    <2>3. PICK stat : /\ [db EXCEPT !.sessions[s] = "none"] = [db EXCEPT !.sessions = stat]
                      /\ RowsChange({s}, stat) /\ stat[s] = "none"
      BY <1>3, RowFacts DEF RowStates
    <2>4. {s} \in SUBSET Ids BY <1>3
    <2> HIDE DEF s
    <2>5. db' = [db EXCEPT !.sessions = stat] BY <1>5, <2>3
    <2> QED BY <1>5, <2>1, <2>2, <2>3, <2>4, <2>5, RowsStep
  <1> QED BY <1>4, <1>5 DEF Delete

(* cleanup removes old archived sessions. *)
LEMMA CleanKeeps ==
    ASSUME SessionsInv, NEW r \in Requests, Clean(r), served[r].at = "look"
    PROVE  SessionsInv'
  <1>1. served[r] \in ServedSets /\ Passes(served[r].op, served[r].at) /\ db \in TableSets BY StageFacts
  <1>2. served[r].op = "clean" BY DEF Clean, Doing
  <1>3. CASE Raises(r)
    <2>1. "failed" \in RequestStages /\ Passes(served[r].op, "failed") /\ Advances(r, "failed")
      BY <1>2 DEF RequestStages, Ends, Passes, Advances, Talks, TurnStages, CreateStages, ErasureStages, CopyStages
    <2> QED BY <1>3, <2>1, MovesStep DEF Raises
  <1>4. ASSUME NEW old \in SUBSET {s \in Ids : db.sessions[s] = "archived"}, ~ \E s \in old : Referred(s),
               db' = [db EXCEPT !.sessions = [s \in Ids |-> IF s \in old THEN "none" ELSE @[s]]],
               Unbars(old, r, "commit"), UNCHANGED <<disk, load, taken, cancelled>>
        PROVE  SessionsInv'
    <2>1. "commit" \in RequestStages /\ Passes(served[r].op, "commit") /\ Advances(r, "commit")
      BY <1>2 DEF RequestStages, Passes, Advances, Talks, TurnStages, CreateStages, ErasureStages, CopyStages
    <2>2. /\ Onward(r, "commit") /\ served'[r].left = served[r].left
          /\ \A q \in Requests : served'[q].barred /\ served[q].op \in Talks => served[q].session \notin old
      BY <1>4, <2>1, UnbarsFacts DEF SessionsInv
    <2> DEFINE stat == [s \in Ids |-> IF s \in old THEN "none" ELSE db.sessions[s]]
    <2>3. db' = [db EXCEPT !.sessions = stat] BY <1>4
    <2>4. old \in SUBSET Ids BY <1>4
    <2>6. db.sessions \in [Ids -> RowStates] /\ "none" \in RowStates BY <1>1, TableFacts DEF RowStates
    <2>5. RowsChange(old, stat) /\ \A s \in old : stat[s] = "none" BY <2>4, <2>6 DEF RowsChange
    <2> HIDE DEF stat
    <2> QED BY <1>4, <2>1, <2>2, <2>3, <2>4, <2>5, RowsStep
  <1> QED BY <1>2, <1>3, <1>4 DEF Clean, Doing

\* What a session's stat say to a turn that writes to it.
LEMMA RowThere ==
    ASSUME SessionsInv, NEW r \in Requests, served[r].op \in Talks, served[r].at \in TurnStages
    PROVE  ~served[r].barred
  BY DEF SessionsInv, RequestFits, BarFits

(* Messages are written into one session. *)
LEMMA WritesFlow ==
    ASSUME SessionsInv, NEW r \in Requests, NEW at, Onward(r, at), NEW m \in SavedMessages,
           db' = [db EXCEPT !.messages = @ \cup {m}], UNCHANGED <<disk, load, taken, cancelled>>,
           db.sessions[m.session] # "none", m.turn = Before => Branched(m.session), Voiced(m),
           \A n \in served'[r].left : n \in served[r].left,
           served[r].op # "delete", served[r].at \notin {"space", "failed"}
    PROVE  /\ Flow(r, at) /\ RowsFlow /\ LossFlow(r, at) /\ VoiceFlow(r)
           /\ db' \in TableSets /\ disk' \in TableSets /\ cancelled' \in BOOLEAN
           /\ db'.messages = db.messages \cup {m} /\ db'.sessions = db.sessions /\ db'.space = db.space
  <1> USE DEF SessionsInv
  <1>1. db \in TableSets /\ disk \in TableSets /\ db.messages \in SUBSET SavedMessages /\ cancelled \in BOOLEAN
    BY TableFacts DEF SessionTypes
  <1>2. PICK u : u = db.messages \cup {m} OBVIOUS
  <1>3. u \in SUBSET SavedMessages BY <1>1, <1>2
  <1>4. db' = [db EXCEPT !.messages = u] BY <1>2
  <1>5. db' \in TableSets /\ db'.messages = u /\ db'.sessions = db.sessions /\ db'.space = db.space
    BY <1>1, <1>3, <1>4 DEF TableSets
  <1>6. Flow(r, at) BY <1>2, <1>5 DEF Flow
  <1>7. RowsFlow BY <1>2, <1>5 DEF RowsFlow, KeysHold
  <1>8. LossFlow(r, at) BY <1>2, <1>5 DEF LossFlow
  <1>9. VoiceFlow(r) BY <1>2, <1>5 DEF VoiceFlow
  <1> QED BY <1>1, <1>2, <1>5, <1>6, <1>7, <1>8, <1>9

(* append_user_message and append_assistant_message *)
LEMMA AppendKeeps ==
    ASSUME SessionsInv, NEW r \in Requests, AppendMessage(r)
    PROVE  SessionsInv'
  <1>1. /\ served[r] \in ServedSets /\ Passes(served[r].op, served[r].at) /\ db \in TableSets /\ RequestFits(r)
    BY StageFacts DEF SessionsInv
  <1>2. served[r].at \in {"user", "assistant"} /\ served[r].at \in TurnStages /\ served[r].op \in Talks
    BY <1>1 DEF AppendMessage, Passes, TurnStages
  <1>3. ~served[r].barred BY <1>2, RowThere
  <1>4. CASE Moves(r, "abandon")
    <2>1. "abandon" \in RequestStages /\ Passes(served[r].op, "abandon")
      BY <1>2 DEF RequestStages, Passes, Talks, TurnStages, CreateStages, ErasureStages, CopyStages
    <2>2. Advances(r, "abandon")
      BY <1>2, <1>3 DEF Advances, Talks, TurnStages, CreateStages, ErasureStages, CopyStages
    <2> QED BY <1>4, <2>1, <2>2, MovesStep
  <1> DEFINE s == served[r].session
  <1> DEFINE at == IF served[r].at = "user" THEN "userCommit" ELSE "assistantCommit"
  <1> DEFINE m == Message(s, r, served[r].at)
  <1>5. CASE db.sessions[s] # "none" /\ Statement(r, [db EXCEPT !.messages = @ \cup {m}], at)
    <2>1. s \in Ids /\ r \in Nat /\ r # Before BY <1>1, ServedFields, SessionsAssumption DEF Before
    <2>2. /\ m \in SavedMessages /\ m.session = s /\ m.turn = r /\ m.role = served[r].at
      BY <1>2, <2>1 DEF Message, SavedMessages, Roles
    <2>3. at \in RequestStages /\ at \in TurnStages /\ Passes(served[r].op, at)
      BY <1>2 DEF RequestStages, Passes, Talks, TurnStages, CreateStages, ErasureStages, CopyStages
    <2>4. Onward(r, at) /\ served'[r].left = served[r].left
      BY <1>5, <2>3, GoesFacts DEF SessionsInv, Statement
    <2>5. Voiced(m) BY <1>2, <1>3, <2>2 DEF Voiced
    <2>6. served[r].op # "delete" /\ served[r].at \notin {"space", "failed"} BY <1>2 DEF Talks
    <2>7. db' = [db EXCEPT !.messages = @ \cup {m}] /\ UNCHANGED <<disk, load, taken, cancelled>> BY <1>5 DEF Statement
    <2>8. /\ Flow(r, at) /\ RowsFlow /\ LossFlow(r, at) /\ VoiceFlow(r)
          /\ db' \in TableSets /\ disk' \in TableSets /\ cancelled' \in BOOLEAN
          /\ db'.messages = db.messages \cup {m}
      <3> HIDE DEF m, at
      <3> QED BY <1>5, <2>1, <2>2, <2>4, <2>5, <2>6, <2>7, WritesFlow
    <2>9. /\ served'[r].op = served[r].op /\ served'[r].session = s /\ served'[r].at = at /\ ~served'[r].barred
          /\ (DeletionAsked(s)' <=> DeletionAsked(s))
      BY <1>3, <2>4 DEF Onward, DeletionAsked
    <2>10. TurnFits(r)'
      <3>1. CASE ~cancelled /\ ~DeletionAsked(s)
        BY <1>1, <1>2, <2>7, <2>8, <2>9, <3>1 DEF RequestFits, TurnFits
      <3> QED BY <2>7, <2>9, <3>1 DEF TurnFits
    <2>11. DeletionFits(r)' /\ BranchFits(r)' /\ BarFits(r)'
      BY <1>2, <2>9 DEF DeletionFits, BranchFits, BarFits, Talks
    <2>12. StageFits(served[r])' BY <1>1, <2>3, <2>4 DEF RequestFits, StageFits, Onward
    <2>13. UNCHANGED <<load, taken>> BY <2>7
    <2> QED BY <2>4, <2>8, <2>10, <2>11, <2>12, <2>13, Progress DEF RequestFits
  <1> QED BY <1>4, <1>5 DEF AppendMessage

(* hard_delete finds no row: no message is left, in the tables or on disk. *)
LEMMA NothingToDelete ==
    ASSUME SessionsInv, NEW r \in Requests, served[r].at = "delete", served[r].op = "delete",
           db.sessions[served[r].session] = "none", Moves(r, "done")
    PROVE  SessionsInv'
  <1> USE DEF SessionsInv
  <1>1. "done" \in RequestStages BY DEF RequestStages, Ends
  <1>2. Onward(r, "done") /\ served'[r].left = served[r].left BY <1>1, GoesFacts DEF Moves
  <1>3. db' = db /\ disk' = disk /\ UNCHANGED <<load, taken, cancelled>> BY DEF Moves
  <1>4. Calm BY <1>3 DEF Calm, Steady, SessionTypes
  <1>5. Flow(r, "done") /\ RowsFlow BY <1>2, <1>4, CalmFlow
  <1>6. LossFlow(r, "done") /\ VoiceFlow(r) BY <1>2, <1>3 DEF LossFlow, VoiceFlow
  <1>7. served'[r].op = "delete" /\ served'[r].session = served[r].session /\ served'[r].at = "done" BY <1>2 DEF Onward
  <1>8. DeletionFits(r)'
    <2>1. \A m \in db.messages : m.session # served[r].session BY DEF KeysHold
    <2>2. ASSUME NEW m \in disk.messages, m.session = served[r].session PROVE FALSE
      <3>1. m \notin db.messages BY <2>1, <2>2
      <3>2. PICK q \in Requests : served[q].op = "delete" /\ served[q].session = m.session
                               /\ served[q].at \notin {"space", "lookSpace", "look", "delete"}
        BY <3>1 DEF Lost
      <3>3. q = r BY <2>2, <3>2 DEF AskedOnce
      <3> QED BY <3>2, <3>3
    <2>3. FirstMessages(db, served[r].session) = {} /\ FirstMessages(disk, served[r].session) = {}
      BY <2>1, <2>2 DEF FirstMessages
    <2> QED BY <1>3, <1>7, <2>3 DEF DeletionFits, FirstMessages
  <1>9. StageFits(served[r])' /\ TurnFits(r)' /\ BranchFits(r)' /\ BarFits(r)'
    BY <1>7 DEF StageFits, Passes, TurnFits, BranchFits, BarFits, Talks, TurnStages, CreateStages, ErasureStages, CopyStages
  <1>10. db' \in TableSets /\ disk' \in TableSets /\ cancelled' \in BOOLEAN BY <1>3 DEF SessionTypes
  <1> QED BY <1>2, <1>3, <1>5, <1>6, <1>8, <1>9, <1>10, Progress DEF RequestFits

(* hard_delete removes the messages. *)
LEMMA RemoveMessagesKeeps ==
    ASSUME SessionsInv, NEW r \in Requests, served[r].at = "delete", served[r].op = "delete",
           Statement(r, [db EXCEPT !.messages = {m \in @ : m.session # served[r].session}], "spans")
    PROVE  SessionsInv'
  <1> USE DEF SessionsInv
  <1>1. "spans" \in RequestStages BY DEF RequestStages, ErasureStages
  <1>2. Onward(r, "spans") /\ served'[r].left = served[r].left BY <1>1, GoesFacts DEF Statement
  <1>3. disk' = disk /\ UNCHANGED <<load, taken, cancelled>> BY DEF Statement
  <1>4. db \in TableSets /\ disk \in TableSets /\ db.messages \in SUBSET SavedMessages /\ cancelled \in BOOLEAN
    BY TableFacts DEF SessionTypes
  <1>5. PICK u : u = {m \in db.messages : m.session # served[r].session} OBVIOUS
  <1>6. u \in SUBSET SavedMessages BY <1>4, <1>5
  <1>7. db' = [db EXCEPT !.messages = u] BY <1>5 DEF Statement
  <1>8. db' \in TableSets /\ db'.messages = u /\ db'.sessions = db.sessions /\ db'.space = db.space
    BY <1>4, <1>6, <1>7 DEF TableSets
  <1>9. \A m : m \in db'.messages <=> m \in db.messages /\ m.session # served[r].session BY <1>5, <1>8
  <1>10. DeletionAsked(served[r].session) BY DEF DeletionAsked
  <1>11. \A m \in db.messages : ~DeletionAsked(m.session) => m \in db'.messages BY <1>9, <1>10
  <1>12. Flow(r, "spans") BY <1>3, <1>8, <1>9, <1>11 DEF Flow
  <1>13. RowsFlow BY <1>3, <1>8, <1>9 DEF RowsFlow, KeysHold
  <1>14. LossFlow(r, "spans") BY <1>3, <1>9 DEF LossFlow, Lost
  <1>15. VoiceFlow(r) BY <1>2, <1>3, <1>9 DEF VoiceFlow
  <1>16. served'[r].op = "delete" /\ served'[r].session = served[r].session /\ served'[r].at = "spans" BY <1>2 DEF Onward
  <1>17. DeletionFits(r)'
    <2>1. FirstMessages(db, served[r].session)' = {} BY <1>9, <1>16 DEF FirstMessages
    <2> QED BY <1>16, <2>1 DEF DeletionFits
  <1>18. StageFits(served[r])' /\ TurnFits(r)' /\ BranchFits(r)' /\ BarFits(r)'
    BY <1>16 DEF StageFits, Passes, TurnFits, BranchFits, BarFits, Talks, TurnStages, CreateStages, ErasureStages, CopyStages
  <1> QED BY <1>2, <1>3, <1>4, <1>8, <1>12, <1>13, <1>14, <1>15, <1>17, <1>18, Progress DEF RequestFits

(* hard_delete *)
LEMMA DeleteKeeps ==
    ASSUME SessionsInv, NEW r \in Requests, Delete(r)
    PROVE  SessionsInv'
  <1>1. CASE served[r].at = "delete"
    <2>1. served[r].op = "delete" BY <1>1, StageFacts DEF Passes
    <2> QED BY <1>1, <2>1, NothingToDelete, RemoveMessagesKeeps DEF Delete
  <1>2. CASE served[r].at \in {"spans", "traces"} BY <1>2, RemovalsKeep
  <1>3. CASE served[r].at = "row" BY <1>3, RemoveRowKeeps
  <1> QED BY <1>1, <1>2, <1>3 DEF Delete

(* branch lists what the session has. *)
LEMMA ListKeeps ==
    ASSUME SessionsInv, NEW r \in Requests, List(r)
    PROVE  SessionsInv'
  <1> USE DEF SessionsInv
  <1>1. /\ served[r] \in ServedSets /\ Passes(served[r].op, served[r].at) /\ db \in TableSets /\ RequestFits(r)
    BY StageFacts
  <1>2. served[r].at = "list" /\ served[r].op = "branch" BY <1>1 DEF List, Passes, CopyStages
  <1>3. PICK u : u = {m \in db.messages : m.session = served[r].session} OBVIOUS
  <1>4. u \in SUBSET SavedMessages /\ "copy" \in RequestStages BY <1>1, <1>3, TableFacts DEF RequestStages, CopyStages
  <1>5. served \in [Requests -> ServedSets] BY DEF SessionTypes
  <1>6. served' = [served EXCEPT ![r] = [served[r] EXCEPT !.at = "copy", !.left = u]] BY <1>3, <1>5 DEF List
  <1>7. PICK j : j = [served[r] EXCEPT !.at = "copy", !.left = u] OBVIOUS
  <1>8. /\ j \in ServedSets /\ j.at = "copy" /\ j.op = served[r].op /\ j.session = served[r].session
        /\ j.branch = served[r].branch /\ j.left = u /\ j.copying = served[r].copying
        /\ j.seen = served[r].seen /\ j.barred = served[r].barred
    BY <1>1, <1>4, <1>7 DEF ServedSets
  <1>9. served' \in [Requests -> ServedSets] /\ served'[r] = j /\ \A q \in Requests : q # r => served'[q] = served[q]
    BY <1>5, <1>6, <1>7, <1>8
  <1>10. Onward(r, "copy") /\ served'[r].left = u BY <1>8, <1>9 DEF Onward
  <1>11. db' = db /\ disk' = disk /\ UNCHANGED <<load, taken, cancelled>> BY DEF List
  <1>12. Calm BY <1>11 DEF Calm, Steady, SessionTypes
  <1>13. Flow(r, "copy") /\ RowsFlow BY <1>2, <1>10, <1>12, CalmFlow
  <1>14. LossFlow(r, "copy") /\ VoiceFlow(r) BY <1>2, <1>3, <1>10, <1>11 DEF LossFlow, VoiceFlow
  <1>15. BranchFits(r)'
    <2>1. \A m \in served[r].seen : m.session = served[r].session BY <1>1, <1>2 DEF RequestFits, BranchFits
    <2>2. DeletionAsked(served[r].session)' <=> DeletionAsked(served[r].session) BY <1>10 DEF Onward, DeletionAsked
    <2>3. ~DeletionAsked(served[r].session) => served[r].seen \subseteq db.messages
      BY <1>1, <1>2 DEF RequestFits, BranchFits
    <2>4. ~DeletionAsked(served[r].session) => served[r].seen \subseteq u BY <1>3, <2>1, <2>3
    <2> QED BY <1>8, <1>9, <2>1, <2>2, <2>4 DEF BranchFits, CreateStages
  <1>16. ~served[r].barred BY <1>1, <1>2 DEF RequestFits, BarFits
  <1>17. /\ StageFits(served[r])' /\ TurnFits(r)' /\ DeletionFits(r)' /\ BarFits(r)'
    BY <1>1, <1>2, <1>8, <1>9, <1>16
       DEF RequestFits, StageFits, Passes, TurnFits, DeletionFits, BarFits, Talks, TurnStages, CreateStages, ErasureStages, CopyStages
  <1>18. db' \in TableSets /\ disk' \in TableSets /\ cancelled' \in BOOLEAN BY <1>11 DEF SessionTypes
  <1> QED BY <1>10, <1>11, <1>13, <1>14, <1>15, <1>17, <1>18, Progress DEF RequestFits

(* branch has copied everything. *)
LEMMA AllCopied ==
    ASSUME SessionsInv, NEW r \in Requests, served[r].at = "copy", served[r].left = {}, Moves(r, "done")
    PROVE  SessionsInv'
  <1> USE DEF SessionsInv
  <1>1. Passes(served[r].op, served[r].at) /\ RequestFits(r) BY StageFacts
  <1>2. served[r].op = "branch" BY <1>1 DEF Passes, CopyStages
  <1>3. "done" \in RequestStages BY DEF RequestStages, Ends
  <1>4. Onward(r, "done") /\ served'[r].left = served[r].left BY <1>3, GoesFacts DEF Moves
  <1>5. db' = db /\ disk' = disk /\ UNCHANGED <<load, taken, cancelled>> BY DEF Moves
  <1>6. Calm BY <1>5 DEF Calm, Steady, SessionTypes
  <1>7. Flow(r, "done") /\ RowsFlow BY <1>4, <1>6, CalmFlow
  <1>8. LossFlow(r, "done") /\ VoiceFlow(r) BY <1>2, <1>4, <1>5 DEF LossFlow, VoiceFlow
  <1>9. /\ served'[r].op = "branch" /\ served'[r].session = served[r].session /\ served'[r].at = "done"
        /\ served'[r].branch = served[r].branch /\ served'[r].seen = served[r].seen
        /\ (served'[r].barred => served[r].barred)
        /\ \A s : DeletionAsked(s)' <=> DeletionAsked(s)
    BY <1>2, <1>4 DEF Onward, DeletionAsked
  <1>10. BranchFits(r)'
    <2>1. \A m \in served[r].seen : m.session = served[r].session BY <1>1, <1>2 DEF RequestFits, BranchFits
    <2>2. ASSUME ~DeletionAsked(served[r].session), ~DeletionAsked(served[r].branch), NEW m \in served[r].seen
          PROVE  Copy(m, served[r].branch) \in db.messages /\ Copy(m, served[r].branch) \in disk.messages
      BY <1>1, <1>2, <2>2 DEF RequestFits, BranchFits
    <2> QED BY <1>5, <1>9, <2>1, <2>2 DEF BranchFits, CreateStages, Copy
  <1>11. ~served[r].barred BY <1>1, <1>2 DEF RequestFits, BarFits
  <1>12. /\ StageFits(served[r])' /\ TurnFits(r)' /\ DeletionFits(r)' /\ BarFits(r)'
    BY <1>1, <1>2, <1>9, <1>11
       DEF RequestFits, StageFits, Passes, TurnFits, DeletionFits, BarFits, Talks, TurnStages, CreateStages, ErasureStages, CopyStages
  <1>13. db' \in TableSets /\ disk' \in TableSets /\ cancelled' \in BOOLEAN BY <1>5 DEF SessionTypes
  <1> QED BY <1>4, <1>5, <1>7, <1>8, <1>10, <1>12, <1>13, Progress DEF RequestFits

(* branch writes the copy of a message. *)
LEMMA CopyWritten ==
    ASSUME SessionsInv, NEW r \in Requests, served[r].at = "copy", NEW m \in served[r].left,
           db.sessions[served[r].branch] # "none",
           db' = [db EXCEPT !.messages = @ \cup {Copy(m, served[r].branch)}],
           served' = [served EXCEPT ![r].left = @ \ {m}, ![r].copying = {Copy(m, served[r].branch)}, ![r].at = "copyCommit"],
           UNCHANGED <<disk, load, taken, cancelled>>
    PROVE  SessionsInv'
  <1> USE DEF SessionsInv
  <1>1. served[r] \in ServedSets /\ Passes(served[r].op, served[r].at) /\ RequestFits(r) BY StageFacts
  <1>2. served[r].op = "branch" BY <1>1 DEF Passes, CopyStages
  <1>3. PICK c : c = Copy(m, served[r].branch) OBVIOUS
  <1>4. /\ c \in SavedMessages /\ c.session = served[r].branch /\ c.turn = m.turn
    <2>1. m \in SavedMessages /\ served[r].branch \in Ids BY <1>1, ServedFields
    <2> QED BY <1>3, <2>1 DEF Copy, SavedMessages
  <1>5. PICK u : u = served[r].left \ {m} OBVIOUS
  <1>6. u \in SUBSET SavedMessages /\ {c} \in SUBSET SavedMessages /\ "copyCommit" \in RequestStages
    BY <1>1, <1>4, <1>5, ServedFields DEF RequestStages, CopyStages
  <1>7. served \in [Requests -> ServedSets] BY DEF SessionTypes
  <1>8. PICK j : j = [served[r] EXCEPT !.left = u, !.copying = {c}, !.at = "copyCommit"] OBVIOUS
  <1>9. served' = [served EXCEPT ![r] = j] BY <1>3, <1>5, <1>7, <1>8
  <1>10. /\ j \in ServedSets /\ j.at = "copyCommit" /\ j.op = served[r].op /\ j.session = served[r].session
         /\ j.branch = served[r].branch /\ j.left = u /\ j.copying = {c}
         /\ j.seen = served[r].seen /\ j.barred = served[r].barred
    BY <1>1, <1>6, <1>8 DEF ServedSets
  <1>11. served' \in [Requests -> ServedSets] /\ served'[r] = j /\ \A q \in Requests : q # r => served'[q] = served[q]
    BY <1>7, <1>9, <1>10
  <1>12. Onward(r, "copyCommit") BY <1>10, <1>11 DEF Onward
  <1>13. Branched(served[r].branch) BY <1>2 DEF Branched
  <1>14. Voiced(c) BY <1>4 DEF Voices, Voiced
  <1>15. /\ Flow(r, "copyCommit") /\ RowsFlow /\ LossFlow(r, "copyCommit") /\ VoiceFlow(r)
         /\ db' \in TableSets /\ disk' \in TableSets /\ cancelled' \in BOOLEAN
         /\ db'.messages = db.messages \cup {c}
    <2>1. db' = [db EXCEPT !.messages = @ \cup {c}] BY <1>3
    <2>2. db.sessions[c.session] # "none" BY <1>4
    <2>3. c.turn = Before => Branched(c.session) BY <1>4, <1>13
    <2>4. \A n \in served'[r].left : n \in served[r].left BY <1>5, <1>10, <1>11
    <2> QED BY <1>2, <1>4, <1>12, <1>14, <2>1, <2>2, <2>3, <2>4, WritesFlow
  <1>16. \A s : DeletionAsked(s)' <=> DeletionAsked(s) BY <1>12 DEF Onward, DeletionAsked
  <1>17. BranchFits(r)'
    <2>1. \A n \in served[r].seen : n.session = served[r].session BY <1>1, <1>2 DEF RequestFits, BranchFits
    <2>2. ASSUME ~DeletionAsked(served[r].session), ~DeletionAsked(served[r].branch), NEW n \in served[r].seen
          PROVE  \/ n \in u
                 \/ Copy(n, served[r].branch) \in {c}
                 \/ Copy(n, served[r].branch) \in db'.messages /\ Copy(n, served[r].branch) \in disk'.messages
      <3>1. \/ n \in served[r].left
            \/ Copy(n, served[r].branch) \in db.messages /\ Copy(n, served[r].branch) \in disk.messages
        BY <1>1, <1>2, <2>2 DEF RequestFits, BranchFits
      <3> QED BY <1>3, <1>5, <1>15, <3>1
    <2> QED BY <1>2, <1>10, <1>11, <1>16, <2>1, <2>2 DEF BranchFits, CreateStages, Copy
  <1>18. ~served[r].barred BY <1>1, <1>2 DEF RequestFits, BarFits
  <1>19. /\ StageFits(served[r])' /\ TurnFits(r)' /\ DeletionFits(r)' /\ BarFits(r)'
    BY <1>1, <1>2, <1>10, <1>11, <1>18
       DEF RequestFits, StageFits, Passes, TurnFits, DeletionFits, BarFits, Talks, TurnStages, CreateStages, ErasureStages, CopyStages
  <1> QED BY <1>12, <1>15, <1>17, <1>19, Progress DEF RequestFits

(* branch copies a message. *)
LEMMA CopyKeeps ==
    ASSUME SessionsInv, NEW r \in Requests, CopyMessage(r)
    PROVE  SessionsInv'
  <1>1. served[r].at = "copy" BY DEF CopyMessage
  <1>2. CASE Raises(r)
    <2>1. served[r].op = "branch" BY <1>1, StageFacts DEF Passes, CopyStages
    <2>2. "failed" \in RequestStages /\ Passes(served[r].op, "failed") /\ Advances(r, "failed")
      BY <1>1, <2>1 DEF RequestStages, Ends, Passes, Advances, Talks, TurnStages, CreateStages, ErasureStages, CopyStages
    <2> QED BY <1>2, <2>2, MovesStep DEF Raises
  <1> QED BY <1>1, <1>2, AllCopied, CopyWritten DEF CopyMessage

(* The commit of a copy. *)
LEMMA CommitCopyKeeps ==
    ASSUME SessionsInv, NEW r \in Requests, CommitCopy(r)
    PROVE  SessionsInv'
  <1> USE DEF SessionsInv
  <1>1. served[r] \in ServedSets /\ Passes(served[r].op, served[r].at) /\ RequestFits(r) BY StageFacts
  <1>2. served[r].at = "copyCommit" /\ served[r].op = "branch" BY <1>1 DEF CommitCopy, Passes, CopyStages
  <1>3. CASE Commit(r, "failed")
    <2>1. "failed" \in RequestStages /\ Passes(served[r].op, "failed") /\ Advances(r, "failed")
      BY <1>2 DEF RequestStages, Ends, Passes, Advances, Talks, TurnStages, CreateStages, ErasureStages, CopyStages
    <2> QED BY <1>3, <2>1, CommitStep
  <1>4. CASE served[r].copying \subseteq db.messages /\ Commit(r, "copy")
    <2>1. "copy" \in RequestStages BY DEF RequestStages, CopyStages
    <2>2. Onward(r, "copy") /\ served'[r].left = served[r].left BY <1>4, <2>1, GoesFacts DEF Commit
    <2>3. db' = db /\ disk' = db /\ UNCHANGED <<load, taken, cancelled>> BY <1>4 DEF Commit
    <2>4. Calm BY <2>3 DEF Calm, Steady, SessionTypes
    <2>5. Flow(r, "copy") /\ RowsFlow BY <1>2, <2>2, <2>4, CalmFlow
    <2>6. LossFlow(r, "copy") /\ VoiceFlow(r) BY <1>2, <2>2, <2>3 DEF LossFlow, VoiceFlow
    <2>7. /\ served'[r].op = "branch" /\ served'[r].session = served[r].session /\ served'[r].at = "copy"
          /\ served'[r].branch = served[r].branch /\ served'[r].seen = served[r].seen
          /\ (served'[r].barred => served[r].barred)
          /\ \A s : DeletionAsked(s)' <=> DeletionAsked(s)
      BY <1>2, <2>2 DEF Onward, DeletionAsked
    <2>8. BranchFits(r)'
      <3>1. \A m \in served[r].seen : m.session = served[r].session BY <1>1, <1>2 DEF RequestFits, BranchFits
      <3>2. ASSUME ~DeletionAsked(served[r].session), ~DeletionAsked(served[r].branch), NEW m \in served[r].seen
            PROVE  \/ m \in served[r].left
                   \/ Copy(m, served[r].branch) \in db.messages
        BY <1>1, <1>2, <1>4, <3>2 DEF RequestFits, BranchFits
      <3> QED BY <2>2, <2>3, <2>7, <3>1, <3>2 DEF BranchFits, CreateStages, Copy
    <2>9. ~served[r].barred BY <1>1, <1>2 DEF RequestFits, BarFits
    <2>10. /\ StageFits(served[r])' /\ TurnFits(r)' /\ DeletionFits(r)' /\ BarFits(r)'
      BY <1>1, <1>2, <2>7, <2>9
         DEF RequestFits, StageFits, Passes, TurnFits, DeletionFits, BarFits, Talks, TurnStages, CreateStages, ErasureStages, CopyStages
    <2>11. db' \in TableSets /\ disk' \in TableSets /\ cancelled' \in BOOLEAN BY <2>3 DEF SessionTypes
    <2> QED BY <2>2, <2>3, <2>5, <2>6, <2>8, <2>10, <2>11, Progress DEF RequestFits
  <1> QED BY <1>3, <1>4 DEF CommitCopy

(* The rollback of a turn's evidence: the tables are what is on disk, and that is noted. *)
LEMMA RollbackKeeps ==
    ASSUME SessionsInv, NEW r \in Requests, Rollback(r)
    PROVE  SessionsInv'
  <1> USE DEF SessionsInv
  <1>1. served[r] \in ServedSets /\ Passes(served[r].op, served[r].at) /\ RequestFits(r) BY StageFacts
  <1>2. served[r].at = "rollback" /\ served[r].op \in Talks BY <1>1 DEF Rollback, Passes, TurnStages
  <1>3. "assistant" \in RequestStages BY DEF RequestStages, TurnStages
  <1>4. Onward(r, "assistant") /\ served'[r].left = served[r].left BY <1>3, GoesFacts DEF Rollback
  <1>5. db' = disk /\ disk' = disk /\ UNCHANGED <<load, taken>> /\ (~cancelled' => ~cancelled /\ db = disk)
        /\ cancelled' \in BOOLEAN
    BY DEF Rollback, SessionTypes
  <1>6. Flow(r, "assistant") BY <1>2, <1>5 DEF Flow
  <1>7. RowsFlow BY <1>5 DEF RowsFlow, KeysHold
  <1>8. LossFlow(r, "assistant") /\ VoiceFlow(r) BY <1>2, <1>4, <1>5 DEF LossFlow, VoiceFlow, Talks
  <1>9. /\ served'[r].op = served[r].op /\ served'[r].session = served[r].session /\ served'[r].at = "assistant"
        /\ (served'[r].barred => served[r].barred)
        /\ \A s : DeletionAsked(s)' <=> DeletionAsked(s)
    BY <1>2, <1>4 DEF Onward, DeletionAsked
  <1>10. ~served[r].barred BY <1>2, RowThere DEF TurnStages
  <1>11. TurnFits(r)' BY <1>1, <1>2, <1>5, <1>9 DEF RequestFits, TurnFits
  <1>12. DeletionFits(r)' /\ BranchFits(r)' /\ BarFits(r)'
    BY <1>2, <1>9, <1>10 DEF DeletionFits, BranchFits, BarFits, Talks
  <1>13. StageFits(served[r])'
    BY <1>2, <1>9 DEF StageFits, Passes, Talks, TurnStages, CreateStages, ErasureStages, CopyStages
  <1>14. db' \in TableSets /\ disk' \in TableSets BY <1>5 DEF SessionTypes
  <1> QED BY <1>4, <1>5, <1>6, <1>7, <1>8, <1>11, <1>12, <1>13, <1>14, Progress DEF RequestFits

(* The cleanup of traces by another command. *)
LEMMA CleanupTracesKeeps ==
    ASSUME SessionsInv, CleanupTraces
    PROVE  SessionsInv'
  <1> USE DEF SessionsInv
  <1>1. UNCHANGED <<served, load, taken, cancelled>> /\ db = disk /\ disk' = db' BY DEF CleanupTraces
  <1>2. db \in TableSets BY DEF SessionTypes
  <1>3. PICK old : db' = [db EXCEPT !.traces = @ \ old, !.spans = @ \ old, !.cited = @ \ {Before}] BY DEF CleanupTraces
  <1>4. PICK u, v, w : u = db.traces \ old /\ v = db.spans \ old /\ w = db.cited \ {Before} OBVIOUS
  <1>5. u \in SUBSET (Nat \X Ids) /\ v \in SUBSET (Nat \X Ids) /\ w \in SUBSET Nat BY <1>2, <1>4, TableFacts
  <1>6. db' = [db EXCEPT !.traces = u, !.spans = v, !.cited = w] BY <1>3, <1>4
  <1>7. db' \in TableSets /\ db'.messages = db.messages /\ db'.sessions = db.sessions /\ db'.space = db.space
    BY <1>2, <1>5, <1>6 DEF TableSets
  <1>8. SessionTypes' BY <1>1, <1>7 DEF SessionTypes
  <1>9. ASSUME NEW r \in Requests PROVE RequestFits(r)'
    <2>1. RequestFits(r) OBVIOUS
    <2>2. StageFits(served[r])' BY <1>1, <2>1 DEF RequestFits, StageFits
    <2>3. TurnFits(r)' BY <1>1, <1>7, <2>1 DEF RequestFits, TurnFits, DeletionAsked
    <2>4. DeletionFits(r)' BY <1>1, <1>7, <2>1 DEF RequestFits, DeletionFits, Branched, FirstMessages
    <2>5. BranchFits(r)' BY <1>1, <1>7, <2>1 DEF RequestFits, BranchFits, DeletionAsked, Copy
    <2>6. BarFits(r)' BY <1>1, <1>7, <2>1 DEF RequestFits, BarFits, Target
    <2> QED BY <2>2, <2>3, <2>4, <2>5, <2>6 DEF RequestFits
  <1>10. KeysHold' /\ Lost' BY <1>1, <1>7 DEF KeysHold, Lost
  <1>11. AskedOnce' /\ FreshIds' BY <1>1, <1>7 DEF AskedOnce, FreshIds, Target
  <1>12. Voices' BY <1>1, <1>7 DEF Voices, Voiced
  <1> QED BY <1>8, <1>9, <1>10, <1>11, <1>12

(* The server stops. *)
LEMMA StopServingKeeps ==
    ASSUME SessionsInv, StopServing
    PROVE  SessionsInv'
  <1> USE DEF SessionsInv
  <1>1. db' = disk /\ UNCHANGED <<disk, load, taken, cancelled>> BY DEF StopServing
  <1>2. served \in [Requests -> ServedSets] BY DEF SessionTypes
  <1> DEFINE J(r) == IF served[r].at \in {"none", "done", "failed", "refused"} THEN served[r] ELSE [served[r] EXCEPT !.at = "failed"]
  <1>3. served' = [r \in Requests |-> J(r)] BY DEF StopServing
  <1>4. ASSUME NEW r \in Requests
        PROVE  /\ J(r) \in ServedSets /\ J(r).op = served[r].op /\ J(r).session = served[r].session
               /\ J(r).branch = served[r].branch /\ J(r).left = served[r].left
               /\ J(r).seen = served[r].seen /\ J(r).barred = served[r].barred
               /\ \/ J(r).at = served[r].at /\ served[r].at \in {"none", "done", "failed", "refused"}
                  \/ J(r).at = "failed" /\ served[r].at # "none"
    <2>1. served[r] \in ServedSets /\ "failed" \in RequestStages BY <1>2 DEF RequestStages, Ends
    <2>2. CASE served[r].at \in {"none", "done", "failed", "refused"} BY <2>1, <2>2
    <2>3. CASE served[r].at \notin {"none", "done", "failed", "refused"} BY <2>1, <2>3 DEF ServedSets
    <2> QED BY <2>2, <2>3
  <1> HIDE DEF J
  <1>5. served' \in [Requests -> ServedSets] /\ \A r \in Requests : served'[r] = J(r) BY <1>3, <1>4
  <1>6. \A r \in Requests :
            /\ served'[r].op = served[r].op /\ served'[r].session = served[r].session
            /\ served'[r].branch = served[r].branch /\ served'[r].left = served[r].left
            /\ served'[r].seen = served[r].seen /\ served'[r].barred = served[r].barred
            /\ \/ served'[r].at = served[r].at /\ served[r].at \in {"none", "done", "failed", "refused"}
               \/ served'[r].at = "failed" /\ served[r].at # "none"
    BY <1>4, <1>5
  <1>7. SessionTypes' BY <1>1, <1>5 DEF SessionTypes
  <1>8. /\ \A s : DeletionAsked(s)' <=> DeletionAsked(s)
        /\ \A s : Branched(s)' <=> Branched(s)
        /\ \A r \in Requests : Target(r)' = Target(r)
    BY <1>6 DEF DeletionAsked, Branched, Target
  <1>9. ASSUME NEW r \in Requests PROVE RequestFits(r)'
    <2>1. RequestFits(r) OBVIOUS
    <2>2. StageFits(served[r])'
      BY <1>6, <2>1 DEF RequestFits, StageFits, Passes, TurnStages, CreateStages, ErasureStages, CopyStages
    <2>3. TurnFits(r)' BY <1>1, <1>6, <1>8, <2>1 DEF RequestFits, TurnFits
    <2>4. DeletionFits(r)'
      BY <1>1, <1>6, <1>8, <2>1 DEF RequestFits, DeletionFits, FirstMessages, ErasureStages
    <2>5. BranchFits(r)' BY <1>1, <1>6, <1>8, <2>1 DEF RequestFits, BranchFits, CreateStages, Copy
    <2>6. BarFits(r)'
      <3>1. CASE served[r].op \in Talks
        BY <1>1, <1>6, <2>1, <3>1 DEF RequestFits, BarFits, Talks, TurnStages
      <3>2. CASE served[r].op \in {"open", "branch"} /\ served[r].barred
        <4>1. /\ disk.space = "deleted" /\ served[r].at \in {"space", "failed"} /\ disk.sessions[Target(r)] = "none"
              /\ \A q \in Requests : served[q].op = "talk" /\ served[q].session = Target(r) => served[q].at \in {"space", "failed"}
          BY <2>1, <3>2 DEF RequestFits, BarFits
        <4> QED BY <1>1, <1>6, <1>8, <3>2, <4>1 DEF BarFits, Talks
      <3> QED BY <1>6, <3>1, <3>2 DEF BarFits
    <2> QED BY <2>2, <2>3, <2>4, <2>5, <2>6 DEF RequestFits
  <1>10. KeysHold' /\ Lost' BY <1>1 DEF KeysHold, Lost
  <1>11. AskedOnce' BY <1>1, <1>6 DEF AskedOnce
  <1>12. FreshIds'
    <2>1. \A s \in Fresh : s \notin taken => disk.sessions[s] = "none" BY DEF FreshIds
    <2>2. \A r \in Requests : served'[r].op # "none" =>
           /\ served'[r].session \in Fresh => served'[r].session \in taken
           /\ served'[r].op = "branch" => served'[r].branch \in taken
      BY <1>6 DEF FreshIds
    <2>3. ASSUME NEW p \in Requests, NEW q \in Requests, served'[p].op \in {"open", "branch"},
                 served'[q].op \in {"open", "branch"}, Target(p)' = Target(q)'
          PROVE  p = q
      BY <1>6, <1>8, <2>3 DEF FreshIds
    <2> QED BY <1>1, <2>1, <2>2, <2>3 DEF FreshIds
  <1>13. Voices' BY <1>1, <1>6 DEF Voices, Voiced
  <1> QED BY <1>7, <1>9, <1>10, <1>11, <1>12, <1>13

(* A request that comes is served: the others do not notice. *)
LEMMA ComesStep ==
    ASSUME SessionsInv, NEW r \in Requests, NEW j \in ServedSets, NEW s \in Ids, <<j.op, s>> \in load,
           served[r].op = "none", served' = [served EXCEPT ![r] = j], load' = load \ {<<j.op, s>>},
           taken \subseteq taken', taken' \subseteq Fresh, UNCHANGED <<db, disk, cancelled>>,
           j.at \in {"space", "look"}, j.op = "talk" => j.at = "space", j.left = {}, j.op # "open" => j.session = s,
           StageFits(j), BranchFits(r)', BarFits(r)',
           j.session \in Fresh => j.session \in taken', j.op = "branch" => j.branch \in taken',
           j.op \in {"open", "branch"} =>
               \A q \in Requests : served[q].op \in {"open", "branch"} /\ q # r => Target(q) # Target(r)'
    PROVE  SessionsInv'
  <1> USE DEF SessionsInv
  <1>1. served \in [Requests -> ServedSets] BY DEF SessionTypes
  <1>2. served' \in [Requests -> ServedSets] /\ served'[r] = j /\ \A q \in Requests : q # r => served'[q] = served[q]
    BY <1>1
  <1>3. /\ \A x : DeletionAsked(x) => DeletionAsked(x)'
        /\ \A x : Branched(x) => Branched(x)'
        /\ \A q \in Requests : q # r => Target(q)' = Target(q)
    BY <1>2 DEF DeletionAsked, Branched, Target
  <1>4. SessionTypes' BY <1>2 DEF SessionTypes
  <1>5. ASSUME NEW q \in Requests PROVE RequestFits(q)'
    <2>1. CASE q = r
      <3>1. StageFits(served[q])' BY <1>2, <2>1 DEF StageFits
      <3>2. TurnFits(q)' /\ DeletionFits(q)'
        BY <1>2, <2>1 DEF TurnFits, DeletionFits, ErasureStages
      <3> QED BY <2>1, <3>1, <3>2 DEF RequestFits
    <2>2. CASE q # r
      <3>1. RequestFits(q) /\ served'[q] = served[q] BY <1>2, <2>2
      <3>2. StageFits(served[q])' BY <3>1 DEF RequestFits, StageFits
      <3>3. TurnFits(q)' BY <1>3, <3>1 DEF RequestFits, TurnFits
      <3>4. DeletionFits(q)' BY <1>3, <3>1 DEF RequestFits, DeletionFits, FirstMessages
      <3>5. BranchFits(q)' BY <1>3, <3>1 DEF RequestFits, BranchFits, Copy
      <3>6. BarFits(q)'
        <4>1. Target(q)' = Target(q) BY <1>3, <2>2
        <4>2. CASE served[q].op \in Talks BY <3>1, <4>2 DEF RequestFits, BarFits, Talks
        <4>3. CASE served[q].op \in {"open", "branch"} /\ served[q].barred
          <5>1. /\ db.space = "deleted" /\ disk.space = "deleted" /\ served[q].at \in {"space", "failed"}
                /\ db.sessions[Target(q)] = "none" /\ disk.sessions[Target(q)] = "none"
                /\ \A p \in Requests : served[p].op = "talk" /\ served[p].session = Target(q) => served[p].at \in {"space", "failed"}
            BY <3>1, <4>3 DEF RequestFits, BarFits
          <5>2. \A p \in Requests : served'[p].op = "talk" /\ served'[p].session = Target(q) => served'[p].at \in {"space", "failed"}
            BY <1>2, <5>1
          <5> QED BY <3>1, <4>1, <4>3, <5>1, <5>2 DEF BarFits, Talks
        <4> QED BY <3>1, <4>2, <4>3 DEF BarFits
      <3> QED BY <3>2, <3>3, <3>4, <3>5, <3>6 DEF RequestFits
    <2> QED BY <2>1, <2>2
  <1>6. KeysHold' BY DEF KeysHold
  <1>7. Lost'
    <2>1. ASSUME NEW m \in disk.messages, m \notin db.messages
          PROVE  \E q \in Requests : served'[q].op = "delete" /\ served'[q].session = m.session
                                        /\ served'[q].at \notin {"space", "lookSpace", "look", "delete"}
      <3>1. PICK q \in Requests : served[q].op = "delete" /\ served[q].session = m.session
                                     /\ served[q].at \notin {"space", "lookSpace", "look", "delete"}
        BY <2>1 DEF Lost
      <3>2. q # r BY <3>1
      <3> QED BY <1>2, <3>1, <3>2
    <2> QED BY <2>1 DEF Lost
  <1>8. AskedOnce'
    <2>1. ASSUME NEW q \in Requests, served'[q].op = "delete", NEW p \in Requests, served'[p].op = "delete",
                 served'[p].session = served'[q].session
          PROVE  p = q
      <3>1. ASSUME NEW x \in Requests, x # r, served'[x].op = "delete" PROVE <<"delete", served'[x].session>> \in load => FALSE
        BY <1>2, <3>1 DEF AskedOnce
      <3>2. j.op = "delete" => <<"delete", served'[r].session>> \in load BY <1>2
      <3> QED BY <1>2, <2>1, <3>1, <3>2 DEF AskedOnce
    <2>2. ASSUME NEW q \in Requests, served'[q].op = "delete" PROVE <<"delete", served'[q].session>> \notin load'
      BY <1>2, <2>2 DEF AskedOnce
    <2> QED BY <2>1, <2>2 DEF AskedOnce
  <1>9. FreshIds'
    <2>1. \A x \in Fresh : x \notin taken' => db'.sessions[x] = "none" /\ disk'.sessions[x] = "none" BY DEF FreshIds
    <2>2. ASSUME NEW q \in Requests, served'[q].op # "none"
          PROVE  /\ served'[q].session \in Fresh => served'[q].session \in taken'
                 /\ served'[q].op = "branch" => served'[q].branch \in taken'
      BY <1>2, <2>2 DEF FreshIds
    <2>3. ASSUME NEW p \in Requests, NEW q \in Requests, served'[p].op \in {"open", "branch"},
                 served'[q].op \in {"open", "branch"}, Target(p)' = Target(q)'
          PROVE  p = q
      BY <1>2, <1>3, <2>3 DEF FreshIds
    <2> QED BY <2>1, <2>2, <2>3 DEF FreshIds
  <1>10. Voices'
    <2>1. \A m : Voiced(m) => Voiced(m)' BY <1>2 DEF Voiced, Talks
    <2>2. \A m \in db.messages : Voiced(m)' BY <2>1 DEF Voices
    <2>3. \A m \in disk.messages : Voiced(m)' BY <2>1 DEF Voices
    <2>4. ASSUME NEW q \in Requests, NEW m \in served'[q].left PROVE Voiced(m)'
      BY <1>2, <2>1, <2>4 DEF Voices
    <2> QED BY <2>2, <2>3, <2>4 DEF Voices
  <1> QED BY <1>4, <1>5, <1>6, <1>7, <1>8, <1>9, <1>10

(* A new session is to be opened, or a branch to be made. *)
LEMMA NewSessionAsked ==
    ASSUME SessionsInv, NEW r \in Requests, NEW op \in {"open", "branch"}, NEW s \in Ids, Begin(r, op, s)
    PROVE  SessionsInv'
  <1> USE DEF SessionsInv
  <1>1. /\ served[r].op = "none" /\ <<op, s>> \in load /\ Fresh \ taken # {} /\ load' = load \ {<<op, s>>}
        /\ UNCHANGED <<db, disk, cancelled>>
        /\ op = "branch" /\ s \in Fresh => s \in taken
    BY DEF Begin
  <1>2. PICK id : id = CHOOSE i \in Fresh \ taken : TRUE OBVIOUS
  <1>3. id \in Fresh /\ id \notin taken /\ id \in Ids BY <1>1, <1>2 DEF Ids
  <1>4. PICK seen : seen = {m \in disk.messages : m.session = s} OBVIOUS
  <1>5. PICK barred : barred = (disk.space = "deleted" /\ db.space = "deleted") OBVIOUS
  <1>6. PICK of : of = IF op = "open" THEN id ELSE s OBVIOUS
  <1>7. /\ taken' = taken \cup {id}
        /\ served' = [served EXCEPT ![r] = [Unasked EXCEPT !.op = op, !.at = "space", !.session = of, !.branch = id,
                                                           !.seen = seen, !.barred = barred]]
    BY <1>2, <1>4, <1>5, <1>6 DEF Begin
  <1>8. PICK j : j = [Unasked EXCEPT !.op = op, !.at = "space", !.session = of, !.branch = id, !.seen = seen, !.barred = barred]
    OBVIOUS
  <1>9. j = [op |-> op, session |-> of, branch |-> id, at |-> "space", left |-> {}, copying |-> {}, seen |-> seen, barred |-> barred]
    BY <1>8 DEF Unasked
  <1>10. seen \in SUBSET SavedMessages /\ barred \in BOOLEAN /\ of \in Ids
    BY <1>3, <1>4, <1>5, <1>6, TableFacts DEF SessionTypes
  <1>11. j \in ServedSets
    BY <1>3, <1>9, <1>10 DEF ServedSets, Operations, RequestStages
  <1>12. /\ j.op = op /\ j.session = of /\ j.branch = id /\ j.at = "space" /\ j.left = {} /\ j.seen = seen /\ j.barred = barred
    BY <1>9
  <1>13. served' = [served EXCEPT ![r] = j] BY <1>7, <1>8
  <1>14. served'[r] = j /\ \A q \in Requests : q # r => served'[q] = served[q] BY <1>13 DEF SessionTypes
  <1>15. Target(r)' = id BY <1>6, <1>12, <1>14 DEF Target
  <1>16. StageFits(j)
    BY <1>3, <1>6, <1>12 DEF StageFits, Passes, TurnStages, CreateStages, CopyStages, ErasureStages
  <1>17. BranchFits(r)'
    <2>1. SUFFICES ASSUME op = "branch" PROVE BranchFits(r)' BY <1>12, <1>14 DEF BranchFits
    <2>2. of = s BY <1>6, <2>1
    <2>3. ASSUME ~DeletionAsked(s), NEW m \in seen PROVE m \in db.messages
      <3>1. m \in disk.messages /\ m.session = s BY <1>4
      <3> QED BY <2>3, <3>1 DEF Lost, DeletionAsked
    <2>4. DeletionAsked(s)' <=> DeletionAsked(s) BY <1>1, <1>12, <1>14, <2>1 DEF DeletionAsked
    <2>5. seen \subseteq disk.messages /\ \A m \in seen : m.session = s BY <1>4
    <2> QED BY <1>1, <1>12, <1>14, <2>2, <2>3, <2>4, <2>5 DEF BranchFits, CreateStages, Copy
  <1>18. BarFits(r)'
    <2>1. db.sessions[id] = "none" /\ disk.sessions[id] = "none" BY <1>3 DEF FreshIds
    <2>2. ASSUME NEW q \in Requests, served'[q].op = "talk" PROVE served'[q].session # id
      BY <1>3, <1>12, <1>14, <2>2 DEF FreshIds
    <2> QED BY <1>1, <1>5, <1>12, <1>14, <1>15, <2>1, <2>2 DEF BarFits, Talks
  <1>19. \A q \in Requests : served[q].op \in {"open", "branch"} /\ q # r => Target(q) # Target(r)'
    BY <1>3, <1>15 DEF FreshIds, Target
  <1>20. of \in Fresh => of \in taken' BY <1>1, <1>6, <1>7
  <1>21. taken \subseteq taken' /\ taken' \subseteq Fresh /\ id \in taken' BY <1>3, <1>7 DEF SessionTypes
  <1>22. op # "open" => of = s BY <1>6
  <1> QED BY <1>1, <1>11, <1>12, <1>13, <1>16, <1>17, <1>18, <1>19, <1>20, <1>21, <1>22, ComesStep

(* Something is asked of a session or a workspace that is there, or was. *)
LEMMA OldSessionAsked ==
    ASSUME SessionsInv, NEW r \in Requests, NEW op \in Operations \ {"open", "branch"}, NEW s \in Ids, Begin(r, op, s)
    PROVE  SessionsInv'
  <1> USE DEF SessionsInv
  <1>1. /\ served[r].op = "none" /\ <<op, s>> \in load /\ load' = load \ {<<op, s>>}
        /\ UNCHANGED <<db, disk, cancelled, taken>>
        /\ s \in Fresh => s \in taken
    BY DEF Begin
  <1>2. PICK barred : barred = (disk.sessions[s] = "archived" /\ db.sessions[s] = "archived") OBVIOUS
  <1>3. PICK at : at = IF op \in {"talk", "archive", "delete"} THEN "space" ELSE "look" OBVIOUS
  <1>4. served' = [served EXCEPT ![r] = [Unasked EXCEPT !.op = op, !.session = s, !.at = at, !.barred = barred]]
    BY <1>2, <1>3 DEF Begin
  <1>5. PICK j : j = [Unasked EXCEPT !.op = op, !.session = s, !.at = at, !.barred = barred] OBVIOUS
  <1>6. j = [op |-> op, session |-> s, branch |-> Opened, at |-> at, left |-> {}, copying |-> {}, seen |-> {}, barred |-> barred]
    BY <1>5 DEF Unasked
  <1>7. j \in ServedSets
    <2>1. at \in RequestStages /\ Opened \in Ids /\ barred \in BOOLEAN BY <1>2, <1>3 DEF RequestStages, Ids
    <2> QED BY <1>6, <2>1 DEF ServedSets
  <1>8. /\ j.op = op /\ j.session = s /\ j.at = at /\ j.left = {} /\ j.barred = barred
    BY <1>6
  <1>9. served' = [served EXCEPT ![r] = j] BY <1>4, <1>5
  <1>10. served'[r] = j BY <1>9 DEF SessionTypes
  <1>11. op = "visit" => s = ConsoleId BY <1>1 DEF SessionTypes
  <1>12. StageFits(j)
    BY <1>3, <1>8, <1>11 DEF StageFits, Passes, Operations, TurnStages, CreateStages, CopyStages, ErasureStages
  <1>13. BranchFits(r)' BY <1>8, <1>10 DEF BranchFits
  <1>14. BarFits(r)' BY <1>1, <1>2, <1>3, <1>8, <1>10 DEF BarFits, TurnStages
  <1>15. taken \subseteq taken' /\ taken' \subseteq Fresh BY <1>1 DEF SessionTypes
  <1>16. at \in {"space", "look"} /\ (op = "talk" => at = "space") BY <1>3
  <1> QED BY <1>1, <1>7, <1>8, <1>9, <1>12, <1>13, <1>14, <1>15, <1>16, ComesStep

(* Each step of the sessions keeps the invariant. *)
LEMMA SessionsKeep ==
    ASSUME SessionsInv, SessionsStep
    PROVE  SessionsInv'
  <1>1. ASSUME NEW r \in Requests, NEW ask \in load, Begin(r, ask[1], ask[2]) PROVE SessionsInv'
    <2>1. ask[1] \in Operations /\ ask[2] \in Ids BY DEF SessionsInv, SessionTypes
    <2> QED BY <1>1, <2>1, NewSessionAsked, OldSessionAsked
  <1>2. ASSUME NEW r \in Requests,
               \/ Ensure(r) \/ CommitSpace(r) \/ Look(r) \/ Create(r) \/ CommitCreate(r)
               \/ Restore(r) \/ CommitRestore(r)
        PROVE  SessionsInv'
    BY <1>2, EnsureKeeps, LookKeepsSessions, CreateKeeps, CommitCreateKeeps, RestoreKeeps, CommitsKeep
  <1>3. ASSUME NEW r \in Requests,
               \/ BeginTrace(r) \/ CommitTrace(r) \/ BeginSpan(r) \/ CommitSpan(r)
               \/ AppendMessage(r) \/ CommitAppend(r) \/ Evidence(r) \/ CommitEvidence(r) \/ Rollback(r) \/ Close(r)
        PROVE  SessionsInv'
    BY <1>3, TracesKeep, CommitsKeep, AppendKeeps, RollbackKeeps
  <1>4. ASSUME NEW r \in Requests,
               \/ Archive(r) \/ Delete(r) \/ List(r) \/ CopyMessage(r) \/ CommitCopy(r)
               \/ RemoveWorkspace(r) \/ CommitChange(r) \/ Clean(r)
        PROVE  SessionsInv'
    BY <1>4, ArchiveKeeps, DeleteKeeps, ListKeeps, CopyKeeps, CommitCopyKeeps, RemovalsKeep, CommitsKeep, CleanKeeps
  <1> QED BY <1>1, <1>2, <1>3, <1>4, CleanupTracesKeeps, StopServingKeeps DEF SessionsStep

(* The tables that a server finds. *)
LEMMA FirstFacts ==
    ASSUME NEW t \in FirstTables
    PROVE  /\ t \in TableSets
           /\ \A m \in t.messages : t.sessions[m.session] # "none" /\ m.turn = Before
           /\ \A s \in Ids : t.sessions[s] # "none" => s = Opened
  <1> DEFINE N == NoRows
  <1>1. N \in [Ids -> RowStates] /\ \A s \in Ids : N[s] = "none" BY DEF NoRows, RowStates
  <1>2. CASE t = NoTables
    <2>1. t = [space |-> "none", sessions |-> N, messages |-> {}, traces |-> {}, spans |-> {}, cited |-> {}, summed |-> {}]
      BY <1>2 DEF NoTables, Tables
    <2> HIDE DEF N
    <2>2. t.sessions = N /\ t.messages = {} BY <2>1
    <2>3. t \in TableSets BY <1>1, <2>1 DEF TableSets
    <2> QED BY <1>1, <2>2, <2>3
  <1>3. ASSUME NEW status \in {"active", "archived"}, NEW cited \in SUBSET {Before}, NEW summed \in SUBSET {Opened},
               t = AfterTurn(status, cited, summed)
        PROVE  /\ t \in TableSets
               /\ \A m \in t.messages : t.sessions[m.session] # "none" /\ m.turn = Before
               /\ \A s \in Ids : t.sessions[s] # "none" => s = Opened
    <2>1. PICK ms : ms = {Message(Opened, Before, role) : role \in {"user", "assistant"}} OBVIOUS
    <2>2. PICK stat : stat = [N EXCEPT ![Opened] = status] OBVIOUS
    <2>3. PICK ts : ts = {<<Before, Opened>>} OBVIOUS
    <2>4. t = [space |-> "active", sessions |-> stat, messages |-> ms, traces |-> ts, spans |-> ts, cited |-> cited, summed |-> summed]
      BY <1>3, <2>1, <2>2, <2>3 DEF AfterTurn, Tables
    <2> HIDE DEF N
    <2>5. Opened \in Ids /\ Before \in Nat BY DEF Ids, Before
    <2>6. stat \in [Ids -> RowStates] /\ stat[Opened] = status /\ \A s \in Ids : s # Opened => stat[s] = "none"
      BY <1>1, <2>2, <2>5 DEF RowStates
    <2>7. ms \in SUBSET SavedMessages /\ \A m \in ms : m.session = Opened /\ m.turn = Before
      BY <2>1, <2>5 DEF Message, SavedMessages, Roles
    <2>8. ts \in SUBSET (Nat \X Ids) BY <2>3, <2>5
    <2>9. cited \in SUBSET Nat /\ summed \in SUBSET Ids BY <2>5
    <2>10. t \in TableSets BY <2>4, <2>6, <2>7, <2>8, <2>9 DEF TableSets
    <2> QED BY <2>4, <2>6, <2>7, <2>10
  <1>4. t = NoTables \/
            \E status \in {"active", "archived"}, cited \in SUBSET {Before}, summed \in SUBSET {Opened} :
               t = AfterTurn(status, cited, summed)
    BY DEF FirstTables
  <1> QED BY <1>2, <1>3, <1>4

(* The first states fit. *)
LEMMA SessionsFirst ==
    ASSUME SessionsInit
    PROVE  SessionsInv
  <1>1. /\ db \in FirstTables /\ disk = db /\ served = [r \in Requests |-> Unasked] /\ load \in Loads /\ taken = {} /\ cancelled = FALSE
    BY DEF SessionsInit
  <1>2. /\ db \in TableSets
        /\ \A m \in db.messages : db.sessions[m.session] # "none" /\ m.turn = Before
        /\ \A s \in Ids : db.sessions[s] # "none" => s = Opened
    BY <1>1, FirstFacts
  <1>3. /\ Unasked \in ServedSets /\ Unasked.op = "none" /\ Unasked.at = "none" /\ Unasked.left = {} /\ ~Unasked.barred
    BY DEF Unasked, ServedSets, Ids, RequestStages
  <1>4. served \in [Requests -> ServedSets] /\ \A r \in Requests : served[r] = Unasked BY <1>1, <1>3
  <1>5. SessionTypes BY <1>1, <1>2, <1>4, SessionsAssumption DEF SessionTypes
  <1>6. ASSUME NEW r \in Requests PROVE RequestFits(r)
    BY <1>3, <1>4 DEF RequestFits, StageFits, Passes, TurnFits, DeletionFits, BranchFits, BarFits, Talks,
                      TurnStages, CreateStages, CopyStages, ErasureStages
  <1>7. KeysHold /\ Lost BY <1>1, <1>2 DEF KeysHold, Lost
  <1>8. AskedOnce BY <1>3, <1>4 DEF AskedOnce
  <1>9. FreshIds
    <2>1. \A s \in Fresh : s \in Ids /\ s # Opened BY SessionsAssumption DEF Ids
    <2> QED BY <1>1, <1>2, <1>3, <1>4, <2>1 DEF FreshIds
  <1>10. Voices BY <1>1, <1>2, <1>3, <1>4 DEF Voices, Voiced
  <1> QED BY <1>5, <1>6, <1>7, <1>8, <1>9, <1>10 DEF SessionsInv

(* What is done is kept. *)
LEMMA SessionsInvKept ==
    ASSUME SessionsInv
    PROVE  SessionsKept
  <1> USE DEF SessionsInv
  <1>1. BranchesWhole
    BY DEF BranchesWhole, RequestFits, BranchFits, Doing
  <1>2. ClosedStaysClosed
    <2>1. ASSUME NEW r \in Requests, served[r].barred, served[r].op \in Talks, NEW m \in db.messages PROVE m.turn # r
      BY <2>1, SessionsAssumption DEF Voices, Voiced, Before
    <2>2. ASSUME NEW r \in Requests, served[r].barred, served[r].op \in {"open", "branch"} PROVE db.sessions[Target(r)] = "none"
      BY <2>2 DEF RequestFits, BarFits
    <2> QED BY <2>1, <2>2 DEF ClosedStaysClosed
  <1>3. ASSUME ~cancelled PROVE AnswersKept
    BY <1>3 DEF AnswersKept, MessagesOf, RequestFits, TurnFits, Doing
  <1>4. ASSUME ~cancelled PROVE DeletionsHold
    BY <1>4 DEF DeletionsHold, RequestFits, DeletionFits, FirstMessages, Doing
  <1> QED BY <1>1, <1>2, <1>3, <1>4 DEF SessionsKept

(* The invariant of the sessions holds, whoever asks what of them. *)
THEOREM SessionsInvariance == Spec => []SessionsInv
  <1>1. Init => SessionsInv BY SessionsFirst DEF Init
  <1>2. SessionsInv /\ [Next]_vars => SessionsInv'
    <2>1. SUFFICES ASSUME SessionsInv, [Next]_vars PROVE SessionsInv' OBVIOUS
    <2>2. SessionsStep \/ UNCHANGED sessionVars BY <2>1 DEF Next, vars
    <2>3. CASE SessionsStep BY <2>1, <2>3, SessionsKeep
    <2>4. CASE UNCHANGED sessionVars
      <3>1. db' = db /\ disk' = disk /\ served' = served /\ load' = load /\ taken' = taken /\ cancelled' = cancelled
        BY <2>4 DEF sessionVars
      <3> QED BY <2>1, <3>1
           DEF SessionsInv, SessionTypes, RequestFits, StageFits, TurnFits, DeletionFits, BranchFits, BarFits, Target,
               DeletionAsked, Branched, FirstMessages, Copy, KeysHold, Lost, AskedOnce, FreshIds, Voices, Voiced
    <2> QED BY <2>2, <2>3, <2>4
  <1> QED BY <1>1, <1>2, PTL DEF Spec

(* What was told done stays done: answers are kept, deletions hold, branches are whole, *)
(* and what is closed takes nothing more.                                               *)
THEOREM SessionsAreKept == Spec => []SessionsKept
  BY SessionsInvariance, SessionsInvKept, PTL
=============================================================================
