---------------------------- MODULE MCLocalStores ----------------------------
(***************************************************************************)
(* What one installation keeps on disk: the database with its migrations   *)
(* and archives, the index of the workspace's files, the secrets and the   *)
(* settings.  They share no state, so a behaviour is about one of them and *)
(* the others stay as they start; and about either loading the settings or *)
(* setting them with few files to load.                                    *)
(***************************************************************************)
EXTENDS DataFiles, FileIndex, Secrets, Settings

VARIABLE about      \* the part a behaviour is about

vars == <<dataVars, indexVars, secretVars, settingsVars, about>>

Some(S) == CHOOSE x \in S : TRUE

IndexRests == disk = [p \in Paths |-> Absent] /\ embeds = Some(Embedding) /\ left = Some(Indexings)

SecretsRest == backend = Some(Backends) /\ calls = Some(SecretCalls)

NoLayers == toml = Empty /\ yaml = Empty /\ environment = Empty

Init ==
    /\ about \in {"data", "index", "secrets", "loading", "setting"}
    /\ DataInit
    /\ IndexInit /\ (about # "index" => IndexRests)
    /\ SecretsInit /\ (about # "secrets" => SecretsRest)
    /\ SettingsInit
    /\ about # "loading" => NoLayers
    /\ about # "setting" => sets = 0
    /\ about \notin {"loading", "setting"} => json = Nothing /\ override = Empty

Next ==
    /\ UNCHANGED about
    /\ \/ about = "data" /\ DataStep /\ UNCHANGED <<indexVars, secretVars, settingsVars>>
       \/ about = "index" /\ IndexStep /\ UNCHANGED <<dataVars, secretVars, settingsVars>>
       \/ about = "secrets" /\ SecretStep /\ UNCHANGED <<dataVars, indexVars, settingsVars>>
       \/ about \in {"loading", "setting"} /\ SettingsStep /\ UNCHANGED <<dataVars, indexVars, secretVars>>

Spec == Init /\ [][Next]_vars

-----------------------------------------------------------------------------
(* Scripts as 0005 and 0012 are: two bare statements, then one with a guard; *)
(* files with a text that is too large and one that is no JSON; settings in  *)
(* a section and outside of one.                                             *)

CONSTANTS t1, t2, big, broken

MCLength == 2 :> 2 @@ 3 :> 1

MCBare == {<<2, 1>>, <<2, 2>>}

MCIndexings ==
    {[requests |-> 3, edits |-> 2, stops |-> 0], [requests |-> 2, edits |-> 1, stops |-> 1]}

MCDefaults == <<"debug">> :> "d" @@ <<"model", "name">> :> "d" @@ <<"model", "url">> :> "d"

MCOptions == "model.name" :> "d" @@ "log.level" :> "d"

MCContents ==
    {Empty,
     "model" :> Section("name" :> Leaf("x")),
     "model" :> Section("name" :> Leaf("y") @@ "url" :> Leaf("y")) @@ "debug" :> Leaf("y"),
     "model" :> Leaf("z"),
     "model.name" :> Leaf("w")}

MCEnvironments ==
    {Empty, <<"model", "name">> :> "e", <<"model", "name">> :> "e" @@ <<"debug">> :> "e"}

MCOverrides == {Empty, <<"model", "url">> :> "o", <<"debug">> :> "o"}

MCSymmetry == Permutations(Processes) \cup Permutations(Holders) \cup Permutations(Writers)
=============================================================================
