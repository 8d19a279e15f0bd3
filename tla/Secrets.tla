------------------------------ MODULE Secrets ------------------------------
(***************************************************************************)
(* security/secrets.py: secrets in the environment, in a SQLite file as    *)
(* they are, in one under the key of a key file, or in the keychain of the *)
(* operating system.  The server, commands and the Console are processes   *)
(* with a provider of their own on the same file or keychain; each may     *)
(* stop at any step.                                                       *)
(***************************************************************************)
EXTENDS Naturals, FiniteSets

CONSTANTS
    Holders,
    Names,          \* keys of secrets
    Values,
    Backends,       \* those of "env", "local", "encrypted", "keychain" to consider
    None, Part,     \* nothing; a key file that is being written
    SecretCalls     \* bounds: how many calls the processes make

ASSUME SecretsAssumption ==
    /\ Backends \subseteq {"env", "local", "encrypted", "keychain"}
    /\ None \notin Values /\ None \notin Names /\ None \notin Nat
    /\ Part \notin Nat /\ Part # None
    /\ "shared" \notin Holders /\ "done" \notin Values
    /\ SecretCalls \subseteq Nat

VARIABLES
    backend,        \* secrets.backend of the configuration
    keyFile,        \* secrets.key: None, Part while it is written, or a number
    stored,         \* stored[place][name]: None or [value, under]
    provider,       \* of each process: None, or the key it encrypts with
    call,           \* the call each process is in
    calls,          \* calls still to come
    keys,           \* keys generated so far
    clashed         \* ghost: a key file was made over one that was being made

secretVars == <<backend, keyFile, stored, provider, call, calls, keys, clashed>>

\* The environment is the process's own; the rest is shared.
Place(p) == IF backend = "env" THEN p ELSE "shared"
Row(p, name) == stored[Place(p)][name]

Plain == 0          \* the key of a provider that does not encrypt

NoCall == [at |-> "idle", for |-> "none", name |-> None, value |-> None, before |-> None,
           found |-> FALSE, told |-> None, alone |-> TRUE]

SecretsInit ==
    /\ backend \in Backends
    /\ keyFile = None
    /\ stored = [place \in Holders \cup {"shared"} |-> [name \in Names |-> None]]
    /\ provider = [p \in Holders |-> None]
    /\ call = [p \in Holders |-> NoCall]
    /\ calls \in SecretCalls
    /\ keys = 0
    /\ clashed = FALSE

Calling(p, s) == call[p].at = s
Does(p, state) == call' = [call EXCEPT ![p] = state]
Tells(p, told) == Does(p, [call[p] EXCEPT !.at = "told", !.told = told])

Write(p, name, row) == stored' = [stored EXCEPT ![Place(p)][name] = row]
Sealed(p) == [value |-> call[p].value, under |-> provider[p]]
Key == <<backend, keyFile, provider, keys, clashed>>
Rest == <<Key, calls>>

-----------------------------------------------------------------------------
\* get_provider_from_config

Provide(p, key) == provider' = [provider EXCEPT ![p] = key]

MakeProvider(p) ==
    /\ Calling(p, "idle") /\ provider[p] = None /\ backend # "encrypted"
    /\ Provide(p, Plain) /\ UNCHANGED <<backend, keyFile, stored, call, calls, keys, clashed>>

(* _load_or_create_key: a file that is no key is an error, to this process and the next *)
LookForKey(p) ==
    /\ Calling(p, "idle") /\ provider[p] = None /\ backend = "encrypted"
    /\ \/ keyFile \notin {None, Part} /\ Provide(p, keyFile) /\ UNCHANGED call
       \/ keyFile = None /\ Does(p, [NoCall EXCEPT !.at = "generate"]) /\ UNCHANGED provider
    /\ UNCHANGED <<backend, keyFile, stored, calls, keys, clashed>>

CreateKeyFile(p) ==
    /\ Calling(p, "generate") /\ keyFile' = Part
    /\ clashed' = (clashed \/ keyFile # None)
    /\ Does(p, [NoCall EXCEPT !.at = "fill"])
    /\ UNCHANGED <<backend, stored, provider, calls, keys>>

FillKeyFile(p) ==
    /\ Calling(p, "fill") /\ keys' = keys + 1 /\ keyFile' = keys' /\ Provide(p, keys')
    /\ Does(p, NoCall)
    /\ UNCHANGED <<backend, stored, calls, clashed>>

-----------------------------------------------------------------------------
\* Calls.  A call is alone when no other on its secret overlaps it.

Changes == {"set", "delete", "rotate"}

Begin(p) ==
    /\ Calling(p, "idle") /\ provider[p] # None /\ calls > 0 /\ calls' = calls - 1
    /\ \E for \in Changes \cup {"get"}, name \in Names, value \in Values :
           LET others == {q \in Holders \ {p} : Place(q) = Place(p) /\ call[q].name = name}
           IN  /\ for \in {"get", "delete"} => value = CHOOSE v \in Values : TRUE
               /\ call' = [q \in Holders |->
                      IF q = p THEN [NoCall EXCEPT !.at = for, !.for = for, !.name = name,
                          !.value = value, !.before = Row(p, name), !.alone = (others = {})]
                      ELSE [call[q] EXCEPT !.alone = @ /\ q \notin others]]
    /\ UNCHANGED <<Key, stored>>

InTable == backend \in {"local", "encrypted"}

\* What one key encrypted another does not decrypt: InvalidToken.  A keychain that
\* fails is told as if nothing were there.
Get(p) ==
    /\ Calling(p, "get") /\ UNCHANGED <<Rest, stored>>
    /\ LET row == Row(p, call[p].name) IN
           \/ Tells(p, IF row = None THEN "none" ELSE IF row.under = provider[p] THEN row.value
                       ELSE "raised")
           \/ backend = "keychain" /\ Tells(p, "none")

(* set_secret of the tables: SELECT, then UPDATE or INSERT *)
SetLooks(p) ==
    /\ InTable /\ Calling(p, "set") /\ UNCHANGED <<Rest, stored>>
    /\ Does(p, [call[p] EXCEPT !.at = "write", !.found = (Row(p, call[p].name) # None)])

SetWrites(p) ==
    /\ Calling(p, "write") /\ UNCHANGED Rest
    /\ LET name == call[p].name
           there == Row(p, name) # None
       IN  \/ call[p].found = there /\ Write(p, name, Sealed(p)) /\ Tells(p, "done")
           \/ call[p].found /\ ~there /\ UNCHANGED stored /\ Tells(p, "done")
           \/ ~call[p].found /\ there /\ UNCHANGED stored /\ Tells(p, "raised")

(* set_secret of the environment, which does not fail, and of the keychain, which may *)
SetAtOnce(p) ==
    /\ ~InTable /\ Calling(p, "set") /\ UNCHANGED Rest
    /\ \/ Write(p, call[p].name, Sealed(p)) /\ Tells(p, "done")
       \/ /\ backend = "keychain" /\ UNCHANGED stored
          /\ Tells(p, IF call[p].for = "rotate" THEN "false" ELSE "raised")

Delete(p) ==
    /\ Calling(p, "delete") /\ UNCHANGED Rest
    /\ \/ /\ Write(p, call[p].name, None)
          /\ Tells(p, IF Row(p, call[p].name) = None THEN "false" ELSE "done")
       \/ backend = "keychain" /\ UNCHANGED stored /\ Tells(p, "false")

\* Mutant of RotateRow: true whether there was a row or not.
RotateRowAnyway(p) ==
    /\ Tells(p, "done")
    /\ IF Row(p, call[p].name) = None THEN UNCHANGED stored
       ELSE Write(p, call[p].name, Sealed(p))

RotateRow(p) ==
    IF Row(p, call[p].name) = None THEN Tells(p, "false") /\ UNCHANGED stored
    ELSE Tells(p, "done") /\ Write(p, call[p].name, Sealed(p))

(* rotate_secret: one UPDATE; the keychain's deletes and sets *)
Rotate(p) ==
    /\ Calling(p, "rotate") /\ UNCHANGED Rest
    /\ \/ InTable /\ RotateRow(p)
       \/ backend = "env" /\ UNCHANGED stored /\ Does(p, [call[p] EXCEPT !.at = "set"])
       \/ /\ backend = "keychain" /\ Does(p, [call[p] EXCEPT !.at = "set"])
          /\ Write(p, call[p].name, None) \/ UNCHANGED stored

Return(p) == Calling(p, "told") /\ Does(p, NoCall) /\ UNCHANGED <<Rest, stored>>

\* A process ends, with its environment.
Exit(p) ==
    /\ provider[p] # None \/ ~Calling(p, "idle")
    /\ Provide(p, None) /\ Does(p, NoCall)
    /\ stored' = [stored EXCEPT ![p] = [name \in Names |-> None]]
    /\ UNCHANGED <<backend, keyFile, calls, keys, clashed>>

SecretStep ==
    \E p \in Holders :
        \/ MakeProvider(p) \/ LookForKey(p) \/ CreateKeyFile(p) \/ FillKeyFile(p)
        \/ Begin(p) \/ Get(p) \/ SetLooks(p) \/ SetWrites(p) \/ SetAtOnce(p)
        \/ Delete(p) \/ Rotate(p) \/ Return(p) \/ Exit(p)

-----------------------------------------------------------------------------
\* What is in the encrypted table can be read with the key file, and by every process
\* that has a provider, through any ends of processes: unless two made the file at once.
SecretsReadable ==
    backend = "encrypted" /\ ~clashed => \A name \in Names :
        LET row == stored["shared"][name] IN
            row # None => row.under = keyFile /\ \A p \in Holders : provider[p] \in {None, keyFile}

\* A call that nobody disturbed tells what it did.  Done means that the secret is the
\* value given, or gone; anything else means that it is what it was before, of which only
\* the rotation in a keychain may leave nothing, having deleted before it sets.
CallsTellTruth ==
    \A p \in Holders : Calling(p, "told") /\ call[p].alone =>
        LET c == call[p]
            row == Row(p, c.name)
        IN  /\ c.told = "done" => row = IF c.for = "delete" THEN None ELSE Sealed(p)
            /\ c.told # "done" =>
                   \/ row = c.before
                   \/ backend = "keychain" /\ c.for = "rotate" /\ row = None
            /\ c.for = "get" =>
                   \/ c.told = IF row = None THEN "none" ELSE row.value
                   \/ c.told = "raised" /\ clashed
                   \/ c.told = "none" /\ backend = "keychain"

\* Secrets survive the processes that use them, and calls say what became of them.
SecretsKept == SecretsReadable /\ CallsTellTruth
=============================================================================
