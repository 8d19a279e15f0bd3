----------------------------- MODULE StoresProofs -----------------------------
(***************************************************************************)
(* The safety of what an installation keeps on disk, for any schema,       *)
(* paths, secrets and processes: the database with its migrations and      *)
(* copies, the index of the workspace's files, the secrets.                *)
(*                                                                         *)
(* Database: as long as no restore came under a migration, every copy that *)
(* may become the database has what its version claims, and a migration    *)
(* that is at a version has run all before it.  As long as no script has   *)
(* begun, database and copies are sound; the first script begins behind a  *)
(* copy.                                                                   *)
(*                                                                         *)
(* Index: what an ingestion that nobody disturbs has in hand, and what a   *)
(* scan has settled so far.                                                *)
(*                                                                         *)
(* Secrets: who has the key of the encrypted table, and what each call     *)
(* that nobody disturbs has done to its secret.                            *)
(***************************************************************************)
EXTENDS DataFiles, FileIndex, Secrets, Recall, FiniteSetTheorems, TLAPS

-----------------------------------------------------------------------------
(* DataFiles                                                               *)

DataSpec == DataInit /\ [][DataStep]_dataVars

Databases == [version : Nat, done : SUBSET (Nat \X Nat)]

\* What a process may be doing, and a migration with where it is.
ProcessStages ==
    {Closed, Open}
    \cup [pc : {"copy", "script"}, back : {Closed, Open}, statement : Versions \X (Nat \ {0})]
    \cup [pc : {"pack", "overwrite"}, db : Databases]
    \cup [pc : {"zip"}, archive : Nat]

DataTypes ==
    /\ file \in Databases
    /\ kept \in SUBSET Databases
    /\ archives \in Seq([db : Databases, whole : BOOLEAN])
    /\ process \in [Processes -> ProcessStages]
    /\ overlapped \in BOOLEAN
    /\ restores \in Nat

\* A process at work has opened the database, which has a version then, and so have the copies.
Born ==
    /\ \A p \in Processes : process[p].pc # "closed" => file.version > 0
    /\ \A p \in Processes : process[p].pc \in {"pack", "overwrite"} => process[p].db.version > 0
    /\ \A n \in DOMAIN archives : archives[n].db.version > 0
    /\ \A p \in Processes : process[p].pc = "zip" => process[p].archive \in DOMAIN archives

\* Everything of the versions before the statement, and before it in its script, was run.
Behind(db, statement) ==
    /\ \A v \in Versions : v < statement[1] => Script(v) \subseteq db.done
    /\ \A i \in 1 .. Length[statement[1]] : i < statement[2] => <<statement[1], i>> \in db.done

VersionsTrue ==
    /\ Applied(file)
    /\ \A n \in DOMAIN archives : Applied(archives[n].db)
    /\ \A p \in Processes : process[p].pc \in {"pack", "overwrite"} => Applied(process[p].db)
    /\ \A p \in Processes : process[p].pc \in {"copy", "script"} => Behind(file, process[p].statement)

NoScriptYet ==
    /\ Sound(file)
    /\ \A n \in DOMAIN archives : Sound(archives[n].db)
    /\ \A p \in Processes : process[p].pc \in {"pack", "overwrite"} => Sound(process[p].db)
    /\ \A p \in Processes : process[p].pc # "script"

DataInv ==
    /\ DataTypes
    /\ Born
    /\ overlapped \/ VersionsTrue
    /\ NoScriptYet \/ \E copy \in kept : Sound(copy)

-----------------------------------------------------------------------------

LEMMA SchemaFacts == Latest \in Nat /\ Versions \subseteq Nat /\ Length \in [Versions -> Nat]
BY SchemaAssumption DEF Versions

LEMMA MaxOfTwo ==
    ASSUME NEW a \in Nat, NEW b \in Nat
    PROVE  Max({a, b}) = IF a >= b THEN a ELSE b
BY DEF Max

LEMMA StagesApart ==
    ASSUME NEW s \in ProcessStages
    PROVE  /\ s.pc \in {"closed", "open", "copy", "script", "pack", "overwrite", "zip"}
           /\ s.pc = "closed" => s = Closed
           /\ s.pc = "open" => s = Open
           /\ s.pc \in {"copy", "script"} =>
                 s \in [pc : {"copy", "script"}, back : {Closed, Open}, statement : Versions \X (Nat \ {0})]
           /\ s.pc \in {"pack", "overwrite"} => s \in [pc : {"pack", "overwrite"}, db : Databases]
           /\ s.pc = "zip" => s \in [pc : {"zip"}, archive : Nat]
BY DEF ProcessStages, Closed, Open

\* What a step makes of the process that takes it, and of no other.
LEMMA ProcessMoves ==
    ASSUME DataTypes, NEW p \in Processes, NEW s \in ProcessStages, Becomes(p, s)
    PROVE  /\ process' \in [Processes -> ProcessStages]
           /\ process'[p] = s
           /\ \A q \in Processes \ {p} : process'[q] = process[q]
BY DEF DataTypes, Becomes

\* A database that is given the version of a file at least has lost nothing.
LEMMA InitializedFacts ==
    ASSUME NEW db \in Databases
    PROVE  /\ Initialized(db) \in Databases /\ Initialized(db).version > 0
           /\ Initialized(db).done = db.done
           /\ Applied(db) => Applied(Initialized(db))
           /\ Sound(db) => Sound(Initialized(db))
<1> DEFINE v == Max({1, db.version})
<1>1. Initialized(db) = [db EXCEPT !.version = v]
  BY DEF Initialized
<1>2. v \in Nat /\ v > 0 /\ v >= db.version /\ (v = db.version \/ v = 1)
  BY MaxOfTwo DEF Databases
<1> HIDE DEF v
<1>3. Initialized(db) \in Databases /\ Initialized(db).version = v /\ Initialized(db).done = db.done
  BY <1>1, <1>2 DEF Databases
<1>4. Applied(db) => Applied(Initialized(db))
  BY <1>2, <1>3 DEF Applied, Versions, Databases
<1>5. HalfMigrated(Initialized(db)) => HalfMigrated(db)
  BY <1>2, <1>3 DEF HalfMigrated, Databases
<1> QED BY <1>2, <1>3, <1>4, <1>5 DEF Sound
\* What a migration is behind stays so when the file grows.
LEMMA BehindStays ==
    ASSUME NEW before, NEW after, before.done \subseteq after.done, NEW statement, Behind(before, statement)
    PROVE  Behind(after, statement)
BY DEF Behind

\* A step of a process in which the database grows at most, and the copies stay.
LEMMA FileGrows ==
    ASSUME DataInv, NEW p \in Processes, NEW s \in ProcessStages, Becomes(p, s),
           UNCHANGED <<kept, archives, overlapped>>, restores' \in Nat,
           file' \in Databases, file'.version >= file.version, file.done \subseteq file'.done,
           overlapped \/ Applied(file'),
           NoScriptYet => Sound(file') /\ s.pc # "script",
           s.pc # "closed" => file'.version > 0,
           s.pc \in {"pack", "overwrite"} =>
               /\ s.db.version > 0
               /\ overlapped \/ Applied(s.db)
               /\ NoScriptYet => Sound(s.db),
           s.pc = "zip" => s.archive \in DOMAIN archives,
           s.pc \in {"copy", "script"} => overlapped \/ Behind(file', s.statement)
    PROVE  DataInv'
<1>1. /\ process' \in [Processes -> ProcessStages] /\ process'[p] = s
      /\ \A q \in Processes \ {p} : process'[q] = process[q]
  BY ProcessMoves DEF DataInv
<1>2. DataTypes'
  BY <1>1 DEF DataInv, DataTypes
<1>3. Born'
  <2>1. file.version \in Nat /\ file'.version \in Nat
    BY DEF DataInv, DataTypes, Databases
  <2> QED BY <1>1, <2>1 DEF DataInv, Born
<1>4. ASSUME ~ overlapped PROVE VersionsTrue'
  <2>1. VersionsTrue /\ Applied(file')
    BY <1>4 DEF DataInv
  <2>2. \A n \in DOMAIN archives' : Applied(archives'[n].db)
    BY <2>1 DEF VersionsTrue
  <2>3. \A q \in Processes : process'[q].pc \in {"pack", "overwrite"} => Applied(process'[q].db)
    BY <1>1, <1>4, <2>1 DEF VersionsTrue
  <2>4. ASSUME NEW q \in Processes, process'[q].pc \in {"copy", "script"}
        PROVE  Behind(file', process'[q].statement)
    BY <1>1, <1>4, <2>1, <2>4, BehindStays DEF VersionsTrue
  <2> QED BY <2>1, <2>2, <2>3, <2>4, Zenon DEF VersionsTrue, Applied, Behind
<1>5. NoScriptYet' \/ \E copy \in kept' : Sound(copy)
  <2>1. CASE NoScriptYet
    <3>1. \A n \in DOMAIN archives' : Sound(archives'[n].db)
      BY <2>1 DEF NoScriptYet
    <3>2. \A q \in Processes : /\ process'[q].pc \in {"pack", "overwrite"} => Sound(process'[q].db)
                              /\ process'[q].pc # "script"
      BY <1>1, <2>1 DEF NoScriptYet
    <3> QED BY <2>1, <3>1, <3>2 DEF NoScriptYet, Sound, Applied, HalfMigrated
  <2>2. CASE ~ NoScriptYet
    BY <2>2 DEF DataInv
  <2> QED BY <2>1, <2>2
<1>6. (\E copy \in kept : Sound(copy))' <=> \E copy \in kept' : Sound(copy)
  BY DEF Sound, Applied, HalfMigrated
<1> QED BY <1>2, <1>3, <1>4, <1>5, <1>6 DEF DataInv

\* Where a migration begins: at the first statement behind what the file has.
LEMMA MigrationBegins ==
    ASSUME NEW db \in Databases, db.version > 0, NEW back \in {Closed, Open}
    PROVE  LET s == Migration(db, back)
           IN  /\ s \in ProcessStages /\ s.pc \in {"open", "copy"}
               /\ s.pc = "copy" /\ Applied(db) => Behind(db, s.statement)
<1> DEFINE s == Migration(db, back)
           v == db.version + 1
           c == [pc |-> "copy", back |-> back, statement |-> <<v, 1>>]
<1>1. CASE Pending(db) = {}
  BY <1>1 DEF Migration, Open, ProcessStages
<1>2. CASE Pending(db) # {}
  <2>1. v \in Versions
    BY <1>2, SchemaFacts DEF Pending, Versions, Databases
  <2>2. s = c
    BY <1>2 DEF Migration
  <2>3. c \in ProcessStages
    BY <2>1 DEF ProcessStages
  <2>4. ASSUME Applied(db) PROVE Behind(db, <<v, 1>>)
    <3>1. db.version \in Nat
      BY DEF Databases
    <3>2. \A u \in Versions : u < v => Script(u) \subseteq db.done
      BY <2>4, <3>1, SchemaFacts DEF Applied
    <3>3. \A i \in 1 .. Length[v] : ~ (i < 1)
      BY <2>1, SchemaFacts
    <3> QED BY <3>2, <3>3 DEF Behind
  <2> QED BY <2>2, <2>3, <2>4
<1> QED BY <1>1, <1>2

LEMMA OpenKeeps ==
    ASSUME DataInv, NEW p \in Processes, OpenDatabase(p)
    PROVE  DataInv'
<1>1. file \in Databases /\ file' = Initialized(file)
  BY DEF DataInv, DataTypes, OpenDatabase
<1>2. /\ file' \in Databases /\ file'.version > 0 /\ file'.version >= file.version
      /\ file.done \subseteq file'.done
      /\ Applied(file) => Applied(file')
      /\ Sound(file) => Sound(file')
  <2>1. file'.version >= file.version
    BY <1>1, MaxOfTwo DEF Initialized, Databases
  <2> QED BY <1>1, <2>1, InitializedFacts
<1>3. PICK s \in {Migration(Initialized(file), Closed), Open} : Becomes(p, s)
  BY DEF OpenDatabase
<1>4. s \in ProcessStages /\ s.pc \in {"open", "copy"} /\ (s.pc = "copy" /\ Applied(file') => Behind(file', s.statement))
  BY <1>1, <1>2, <1>3, MigrationBegins DEF ProcessStages, Open
<1>5. overlapped \/ Applied(file)
  BY DEF DataInv, VersionsTrue
<1>6. NoScriptYet => Sound(file)
  BY DEF NoScriptYet
<1>7. UNCHANGED <<kept, archives, overlapped>> /\ restores' \in Nat
  BY DEF OpenDatabase, DataInv, DataTypes
<1> QED BY <1>2, <1>3, <1>4, <1>5, <1>6, <1>7, FileGrows
\* A step that leaves the file alone.
LEMMA FileRests ==
    ASSUME DataInv
    PROVE  /\ file \in Databases /\ file.version >= file.version /\ file.version \in Nat
           /\ overlapped \/ Applied(file)
           /\ NoScriptYet => Sound(file)
           /\ restores \in Nat
BY DEF DataInv, DataTypes, Databases, VersionsTrue, NoScriptYet

LEMMA MigrateKeeps ==
    ASSUME DataInv, NEW p \in Processes, MigrateAgain(p)
    PROVE  DataInv'
<1> DEFINE s == Migration(file, Open)
<1>1. /\ Becomes(p, s) /\ process[p].pc = "open"
      /\ UNCHANGED <<kept, archives, overlapped>> /\ file' = file /\ restores' = restores
  BY DEF MigrateAgain, Is, files
<1>2. file.version > 0
  BY <1>1 DEF DataInv, Born
<1>3. s \in ProcessStages /\ s.pc \in {"open", "copy"} /\ (s.pc = "copy" /\ Applied(file) => Behind(file, s.statement))
  BY <1>2, FileRests, MigrationBegins
<1> HIDE DEF s
<1> QED BY <1>1, <1>2, <1>3, FileRests, FileGrows

LEMMA StopKeeps ==
    ASSUME DataInv, NEW p \in Processes, Stop(p)
    PROVE  DataInv'
<1>1. Becomes(p, Closed) /\ UNCHANGED <<kept, archives, overlapped>> /\ file' = file /\ restores' = restores
  BY DEF Stop, files
<1>2. Closed \in ProcessStages /\ Closed.pc = "closed"
  BY DEF ProcessStages, Closed
<1> QED BY <1>1, <1>2, FileRests, FileGrows

LEMMA CopyDatabaseKeeps ==
    ASSUME DataInv, NEW p \in Processes, CopyDatabase(p)
    PROVE  DataInv'
<1> DEFINE s == [pc |-> "pack", db |-> file]
<1>1. /\ Becomes(p, s) /\ process[p].pc = "open"
      /\ UNCHANGED <<kept, archives, overlapped>> /\ file' = file /\ restores' = restores
  BY DEF CopyDatabase, Is, files
<1>2. file.version > 0
  BY <1>1 DEF DataInv, Born
<1>3. s \in ProcessStages /\ s.pc = "pack" /\ s.db = file
  BY FileRests DEF ProcessStages
<1> HIDE DEF s
<1> QED BY <1>1, <1>2, <1>3, FileRests, FileGrows

LEMMA ArchiveTyped ==
    ASSUME DataTypes, NEW n \in DOMAIN archives
    PROVE  archives[n].db \in Databases /\ n \in 1 .. Len(archives)
<1> DEFINE Copies == [db : Databases, whole : BOOLEAN]
<1>1. archives \in Seq(Copies)
  BY DEF DataTypes
<1> HIDE DEF Copies
<1>2. archives[n] \in Copies /\ n \in 1 .. Len(archives)
  BY <1>1
<1> QED BY <1>2 DEF Copies

LEMMA CheckKeeps ==
    ASSUME DataInv, NEW p \in Processes, CheckArchive(p)
    PROVE  DataInv'
<1>1. PICK n \in DOMAIN archives : Becomes(p, [pc |-> "overwrite", db |-> archives[n].db])
  BY DEF CheckArchive
<1> DEFINE s == [pc |-> "overwrite", db |-> archives[n].db]
<1>2. /\ process[p].pc = "open" /\ UNCHANGED <<kept, archives, overlapped>>
      /\ file' = file /\ restores' = restores + 1
  BY DEF CheckArchive, Is, files
<1>3. file.version > 0
  BY <1>2 DEF DataInv, Born
<1>4. archives[n].db \in Databases
  BY ArchiveTyped DEF DataInv
<1>5. s \in ProcessStages /\ s.pc = "overwrite" /\ s.db = archives[n].db
  BY <1>4 DEF ProcessStages
<1>6. /\ s.db.version > 0 /\ (overlapped \/ Applied(s.db)) /\ (NoScriptYet => Sound(s.db))
  BY <1>5 DEF DataInv, Born, VersionsTrue, NoScriptYet
<1>7. Becomes(p, s)
  BY <1>1
<1> HIDE DEF s
<1> QED BY <1>2, <1>3, <1>5, <1>6, <1>7, FileRests, FileGrows

\* A script runs: nothing can rest on the file alone any more.
LEMMA ScriptFacts ==
    ASSUME DataInv, NEW p \in Processes, process[p].pc = "script"
    PROVE  /\ ~ NoScriptYet /\ file.version > 0
           /\ process[p] \in [pc : {"copy", "script"}, back : {Closed, Open}, statement : Versions \X (Nat \ {0})]
           /\ overlapped \/ Behind(file, process[p].statement)
BY StagesApart DEF DataInv, DataTypes, Born, NoScriptYet, VersionsTrue

LEMMA RunKeeps ==
    ASSUME DataInv, NEW p \in Processes, RunStatement(p)
    PROVE  DataInv'
<1> DEFINE st == process[p].statement
<1>1. /\ process[p].pc = "script" /\ ~ Finished(st)
      /\ UNCHANGED <<kept, archives, overlapped>> /\ restores' = restores
      /\ \/ Becomes(p, process[p].back) /\ file' = file
         \/ /\ file' = Run(file, st)
            /\ Becomes(p, [process[p] EXCEPT !.statement = <<st[1], st[2] + 1>>])
  BY DEF RunStatement, Is
<1>2. /\ ~ NoScriptYet /\ file.version > 0 /\ (overlapped \/ Behind(file, st))
      /\ st \in Versions \X (Nat \ {0}) /\ process[p].back \in {Closed, Open}
  BY <1>1, ScriptFacts
<1>3. CASE Becomes(p, process[p].back) /\ file' = file
  <2>1. process[p].back \in ProcessStages /\ process[p].back.pc \in {"closed", "open"}
    BY <1>2 DEF ProcessStages, Closed, Open
  <2> QED BY <1>1, <1>2, <1>3, <2>1, FileRests, FileGrows
<1>4. CASE /\ file' = Run(file, st)
           /\ Becomes(p, [process[p] EXCEPT !.statement = <<st[1], st[2] + 1>>])
  <2> DEFINE s == [process[p] EXCEPT !.statement = <<st[1], st[2] + 1>>]
  <2>1. s \in ProcessStages /\ s.pc = "script" /\ s.statement = <<st[1], st[2] + 1>>
    BY <1>1, <1>2, ScriptFacts DEF ProcessStages
  <2>2. file' = [file EXCEPT !.done = file.done \cup {st}]
    BY <1>4 DEF Run
  <2>3. /\ file' \in Databases /\ file'.version = file.version
        /\ file'.done = file.done \cup {st}
    BY <1>2, <2>2, FileRests, SchemaFacts DEF Databases
  <2>4. Applied(file) => Applied(file')
    BY <2>3 DEF Applied
  <2>5. overlapped \/ Behind(file', s.statement)
    <3>1. SUFFICES ASSUME Behind(file, st) PROVE Behind(file', <<st[1], st[2] + 1>>)
      BY <1>2, <2>1
    <3>2. \A i \in 1 .. Length[st[1]] : i < st[2] + 1 => i < st[2] \/ i = st[2]
      BY <1>2, SchemaFacts
    <3>3. st = <<st[1], st[2]>>
      BY <1>2
    <3> QED BY <2>3, <3>1, <3>2, <3>3 DEF Behind
  <2> HIDE DEF s, st
  <2>6. Becomes(p, s)
    BY <1>4 DEF s, st
  <2> QED BY <1>1, <1>2, <2>1, <2>3, <2>4, <2>5, <2>6, FileRests, FileGrows
<1> QED BY <1>1, <1>3, <1>4
\* A script that is over has run all of its version, so the version may be told.
LEMMA RecordKeeps ==
    ASSUME DataInv, NEW p \in Processes, RecordVersion(p)
    PROVE  DataInv'
<1> DEFINE st == process[p].statement
           v == st[1]
           s == IF v = Latest THEN Open ELSE [process[p] EXCEPT !.statement = <<v + 1, 1>>]
<1>1. /\ process[p].pc = "script" /\ Finished(st)
      /\ UNCHANGED <<kept, archives, overlapped>> /\ restores' = restores
      /\ file' = Recorded(file, v) /\ Becomes(p, s)
  BY DEF RecordVersion, Is
<1>2. /\ ~ NoScriptYet /\ file.version > 0 /\ (overlapped \/ Behind(file, st))
      /\ st \in Versions \X (Nat \ {0})
  BY <1>1, ScriptFacts
<1>3. v \in Versions /\ v \in Nat /\ v > 0 /\ v <= Latest /\ st[2] \in Nat /\ st[2] > Length[v]
      /\ Length[v] \in Nat
  BY <1>1, <1>2, SchemaFacts DEF Finished, Versions
<1>4. s \in ProcessStages /\ s.pc \in {"open", "script"} /\ (s.pc = "script" => s.statement = <<v + 1, 1>>)
  <2>1. CASE v = Latest
    BY <2>1 DEF ProcessStages, Open
  <2>2. CASE v # Latest
    <3>1. v + 1 \in Versions
      <4>1. v \in 2 .. Latest /\ Latest \in Nat /\ v # Latest
        BY <1>3, <2>2, SchemaFacts DEF Versions
      <4> HIDE DEF v
      <4> QED BY <4>1 DEF Versions
    <3>2. s = [process[p] EXCEPT !.statement = <<v + 1, 1>>]
      BY <2>2
    <3> QED BY <1>1, <3>1, <3>2, ScriptFacts DEF ProcessStages
  <2> QED BY <2>1, <2>2
<1> DEFINE n == Max({v, file.version})
<1>5. n \in Nat /\ n >= v /\ n >= file.version /\ n \in {v, file.version}
  BY <1>3, MaxOfTwo, FileRests
<1>6. file' = [file EXCEPT !.version = n]
  BY <1>1 DEF Recorded
<1> HIDE DEF n
<1>7. file' \in Databases /\ file'.version = n /\ file'.done = file.done
  BY <1>5, <1>6, FileRests DEF Databases
<1>8. ASSUME Behind(file, st) PROVE \A u \in Versions : u < v + 1 => Script(u) \subseteq file.done
  <2>1. \A i \in 1 .. Length[v] : i < st[2]
    BY <1>3
  <2>2. \A i \in 1 .. Length[v] : <<v, i>> \in file.done
    BY <1>8, <2>1 DEF Behind
  <2>3. Script(v) \subseteq file.done
    BY <2>2 DEF Script
  <2>4. \A u \in Versions : u < v + 1 => u < v \/ u = v
    BY <1>3, SchemaFacts
  <2> QED BY <1>8, <2>3, <2>4 DEF Behind
<1>9. overlapped \/ Applied(file')
  <2> SUFFICES ASSUME ~ overlapped, NEW u \in Versions, u <= file'.version
               PROVE  Script(u) \subseteq file'.done
    BY DEF Applied
  <2>1. CASE u < v + 1
    BY <1>2, <1>7, <1>8, <2>1
  <2>2. CASE ~ (u < v + 1)
    <3>1. u <= file.version
      BY <1>3, <1>5, <1>7, <2>2, FileRests, SchemaFacts
    <3> QED BY <1>7, <3>1, FileRests DEF Applied
  <2> QED BY <2>1, <2>2
<1>10. s.pc = "script" => overlapped \/ Behind(file', s.statement)
  <2> SUFFICES ASSUME s.pc = "script", Behind(file, st) PROVE Behind(file', <<v + 1, 1>>)
    BY <1>2, <1>4
  <2>1. v + 1 \in Versions
    BY <1>1, <1>4 DEF ProcessStages, Open, Closed
  <2>2. \A i \in 1 .. Length[v + 1] : ~ (i < 1)
    BY <2>1, SchemaFacts
  <2> QED BY <1>7, <1>8, <2>2 DEF Behind
<1> HIDE DEF s, v, st
<1>11. file'.version > 0 /\ file'.version >= file.version
  BY <1>2, <1>5, <1>7, FileRests
<1> QED BY <1>1, <1>2, <1>4, <1>7, <1>9, <1>10, <1>11, FileRests, FileGrows
\* Behind the copy of a sound file scripts may begin.
LEMMA CopyKeeps ==
    ASSUME DataInv, NEW p \in Processes, CopyBeforeMigration(p)
    PROVE  DataInv'
<1> DEFINE s == [process[p] EXCEPT !.pc = "script"]
<1>1. /\ process[p].pc = "copy" /\ kept' = kept \cup {file} /\ Becomes(p, s)
      /\ UNCHANGED <<file, archives, overlapped, restores>>
  BY DEF CopyBeforeMigration, Is
<1>2. s \in ProcessStages /\ s.pc = "script" /\ s.statement = process[p].statement
  BY <1>1, StagesApart DEF ProcessStages, DataInv, DataTypes
<1> HIDE DEF s
<1>3. /\ process' \in [Processes -> ProcessStages] /\ process'[p] = s
      /\ \A q \in Processes \ {p} : process'[q] = process[q]
  BY <1>1, <1>2, ProcessMoves DEF DataInv
<1>4. DataTypes'
  BY <1>1, <1>3, FileRests DEF DataInv, DataTypes
<1>5. Born'
  BY <1>1, <1>2, <1>3 DEF DataInv, Born
<1>6. (overlapped \/ VersionsTrue)'
  <2>1. CASE overlapped
    BY <1>1, <2>1
  <2>2. CASE VersionsTrue
    <3>1. Applied(file') /\ \A n \in DOMAIN archives' : Applied(archives'[n].db)
      BY <1>1, <2>2 DEF VersionsTrue
    <3>2. \A q \in Processes : process'[q].pc \in {"pack", "overwrite"} => Applied(process'[q].db)
      BY <1>2, <1>3, <2>2 DEF VersionsTrue
    <3>3. \A q \in Processes : process'[q].pc \in {"copy", "script"} => Behind(file', process'[q].statement)
      BY <1>1, <1>2, <1>3, <2>2 DEF VersionsTrue
    <3> QED BY <3>1, <3>2, <3>3 DEF VersionsTrue, Applied, Behind
  <2> QED BY <2>1, <2>2 DEF DataInv
<1>7. \E copy \in kept' : Sound(copy)
  <2>1. CASE NoScriptYet
    BY <1>1, <2>1 DEF NoScriptYet
  <2>2. CASE \E copy \in kept : Sound(copy)
    BY <1>1, <2>2
  <2> QED BY <2>1, <2>2 DEF DataInv
<1>8. (\E copy \in kept : Sound(copy))' <=> \E copy \in kept' : Sound(copy)
  BY DEF Sound, Applied, HalfMigrated
<1> QED BY <1>4, <1>5, <1>6, <1>7, <1>8 DEF DataInv

\* A step of a process that leaves the file and its copies, with other archives of databases
\* that an archive or a process had.
LEMMA ArchivesMove ==
    ASSUME DataInv, NEW p \in Processes, NEW s \in ProcessStages, Becomes(p, s), s.pc \in {"open", "zip"},
           UNCHANGED <<file, kept, overlapped, restores>>, process[p].pc \in {"pack", "zip"},
           archives' \in Seq([db : Databases, whole : BOOLEAN]),
           DOMAIN archives \subseteq DOMAIN archives',
           \A n \in DOMAIN archives' :
              \/ n \in DOMAIN archives /\ archives'[n].db = archives[n].db
              \/ process[p].pc = "pack" /\ archives'[n].db = process[p].db,
           s.pc = "zip" => s.archive \in DOMAIN archives'
    PROVE  DataInv'
<1>1. /\ process' \in [Processes -> ProcessStages] /\ process'[p] = s
      /\ \A q \in Processes \ {p} : process'[q] = process[q]
  BY ProcessMoves DEF DataInv
<1>2. DataTypes'
  BY <1>1, FileRests DEF DataInv, DataTypes
<1>3. Born'
  <2>1. \A n \in DOMAIN archives' : archives'[n].db.version > 0
    BY DEF DataInv, Born
  <2>2. file.version > 0
    BY DEF DataInv, Born
  <2> QED BY <1>1, <2>1, <2>2 DEF DataInv, Born
<1>4. (overlapped \/ VersionsTrue)'
  <2>1. CASE VersionsTrue
    <3>1. \A n \in DOMAIN archives' : Applied(archives'[n].db)
      BY <2>1 DEF VersionsTrue
    <3>2. \A q \in Processes : process'[q].pc \in {"pack", "overwrite"} => Applied(process'[q].db)
      BY <1>1, <2>1 DEF VersionsTrue
    <3>3. \A q \in Processes : process'[q].pc \in {"copy", "script"} => Behind(file', process'[q].statement)
      BY <1>1, <2>1 DEF VersionsTrue
    <3>4. Applied(file')
      BY <2>1 DEF VersionsTrue
    <3> QED BY <3>1, <3>2, <3>3, <3>4 DEF VersionsTrue, Applied, Behind
  <2> QED BY <2>1 DEF DataInv
<1>5. (NoScriptYet \/ \E copy \in kept : Sound(copy))'
  <2>1. CASE NoScriptYet
    <3>1. \A n \in DOMAIN archives' : Sound(archives'[n].db)
      BY <2>1 DEF NoScriptYet
    <3>2. \A q \in Processes : /\ process'[q].pc \in {"pack", "overwrite"} => Sound(process'[q].db)
                              /\ process'[q].pc # "script"
      BY <1>1, <2>1 DEF NoScriptYet
    <3>3. Sound(file')
      BY <2>1 DEF NoScriptYet
    <3> QED BY <3>1, <3>2, <3>3 DEF NoScriptYet, Sound, Applied, HalfMigrated
  <2>2. CASE \E copy \in kept : Sound(copy)
    BY <2>2 DEF Sound, Applied, HalfMigrated
  <2> QED BY <2>1, <2>2 DEF DataInv
<1> QED BY <1>2, <1>3, <1>4, <1>5 DEF DataInv

LEMMA OpenArchiveKeeps ==
    ASSUME DataInv, NEW p \in Processes, OpenArchive(p)
    PROVE  DataInv'
<1> DEFINE Copies == [db : Databases, whole : BOOLEAN]
           a == [db |-> process[p].db, whole |-> FALSE]
           s == [pc |-> "zip", archive |-> Len(archives) + 1]
<1>1. /\ process[p].pc = "pack" /\ archives' = Append(archives, a) /\ Becomes(p, s)
      /\ UNCHANGED <<file, kept, overlapped, restores>>
  BY DEF OpenArchive, Is
<1>2. a \in Copies /\ archives \in Seq(Copies) /\ a.db = process[p].db
  BY <1>1, StagesApart DEF DataInv, DataTypes
<1> HIDE DEF Copies, a
<1>3. /\ archives' \in Seq(Copies) /\ DOMAIN archives \subseteq DOMAIN archives'
      /\ \A n \in DOMAIN archives' : (n \in DOMAIN archives /\ archives'[n] = archives[n]) \/ archives'[n] = a
      /\ Len(archives) + 1 \in DOMAIN archives' /\ Len(archives) + 1 \in Nat
  BY <1>1, <1>2
<1>4. s \in ProcessStages /\ s.pc = "zip" /\ s.archive = Len(archives) + 1
  BY <1>3 DEF ProcessStages
<1> HIDE DEF s
<1>5. archives' \in Seq([db : Databases, whole : BOOLEAN])
  BY <1>3 DEF Copies
<1>6. \A n \in DOMAIN archives' :
         \/ n \in DOMAIN archives /\ archives'[n].db = archives[n].db
         \/ process[p].pc = "pack" /\ archives'[n].db = process[p].db
  BY <1>1, <1>2, <1>3
<1> QED BY <1>1, <1>3, <1>4, <1>5, <1>6, ArchivesMove

LEMMA CloseArchiveKeeps ==
    ASSUME DataInv, NEW p \in Processes, CloseArchive(p)
    PROVE  DataInv'
<1> DEFINE Copies == [db : Databases, whole : BOOLEAN]
           i == process[p].archive
           a == [archives[i] EXCEPT !.whole = TRUE]
<1>1. /\ process[p].pc = "zip" /\ archives' = [archives EXCEPT ![i] = a] /\ Becomes(p, Open)
      /\ UNCHANGED <<file, kept, overlapped, restores>>
  BY DEF CloseArchive, Is
<1>2. i \in DOMAIN archives /\ archives \in Seq(Copies)
  BY <1>1 DEF DataInv, DataTypes, Born
<1> HIDE DEF Copies
<1>3. archives[i] \in Copies
  BY <1>2
<1>4. a \in Copies /\ a.db = archives[i].db
  BY <1>3 DEF Copies
<1> HIDE DEF a, i
<1>5. /\ archives' \in Seq(Copies) /\ DOMAIN archives' = DOMAIN archives
      /\ \A n \in DOMAIN archives : archives'[n] = IF n = i THEN a ELSE archives[n]
  BY <1>1, <1>2, <1>4
<1>6. Open \in ProcessStages /\ Open.pc = "open"
  BY DEF ProcessStages, Open
<1>7. \A n \in DOMAIN archives' : n \in DOMAIN archives /\ archives'[n].db = archives[n].db
  BY <1>4, <1>5
<1>8. archives' \in Seq([db : Databases, whole : BOOLEAN])
  BY <1>5 DEF Copies
<1> QED BY <1>1, <1>5, <1>6, <1>7, <1>8, ArchivesMove
\* A restore brings back an archived database; a migration under it is the exception.
LEMMA OverwriteKeeps ==
    ASSUME DataInv, NEW p \in Processes, Overwrite(p)
    PROVE  DataInv'
<1> DEFINE db == process[p].db
           under == \E q \in Processes : process[q].pc \in {"copy", "script"}
<1>1. /\ process[p].pc = "overwrite" /\ file' = db /\ overlapped' = (overlapped \/ under)
      /\ Becomes(p, Open) /\ UNCHANGED <<kept, archives, restores>>
  BY DEF Overwrite, Is
<1>2. /\ db \in Databases /\ db.version > 0
      /\ overlapped \/ Applied(db)
      /\ NoScriptYet => Sound(db)
  BY <1>1, StagesApart DEF DataInv, DataTypes, Born, VersionsTrue, NoScriptYet
<1>3. /\ process' \in [Processes -> ProcessStages] /\ process'[p] = Open
      /\ \A q \in Processes \ {p} : process'[q] = process[q]
  BY <1>1, ProcessMoves DEF DataInv, ProcessStages
<1>4. DataTypes'
  <2>1. overlapped' \in BOOLEAN
    BY <1>1 DEF DataInv, DataTypes
  <2>2. /\ file' \in Databases /\ kept' \in SUBSET Databases /\ restores' \in Nat
        /\ archives' \in Seq([db : Databases, whole : BOOLEAN])
    BY <1>1, <1>2 DEF DataInv, DataTypes
  <2> QED BY <1>3, <2>1, <2>2 DEF DataTypes
<1>5. Born'
  BY <1>1, <1>2, <1>3 DEF DataInv, Born, Open
<1> HIDE DEF db
<1>6. (overlapped \/ VersionsTrue)'
  <2>1. CASE ~ overlapped /\ ~ under
    <3>1. VersionsTrue /\ Applied(db)
      BY <1>2, <2>1 DEF DataInv
    <3>2. \A n \in DOMAIN archives' : Applied(archives'[n].db)
      BY <1>1, <3>1 DEF VersionsTrue
    <3>3. \A q \in Processes : process'[q].pc \in {"pack", "overwrite"} => Applied(process'[q].db)
      BY <1>3, <3>1 DEF VersionsTrue, Open
    <3>4. \A q \in Processes : process'[q].pc \notin {"copy", "script"}
      BY <1>3, <2>1 DEF Open
    <3> QED BY <1>1, <3>1, <3>2, <3>3, <3>4 DEF VersionsTrue, Applied
  <2>2. CASE overlapped \/ under
    BY <1>1, <2>2
  <2> QED BY <2>1, <2>2
<1>7. (NoScriptYet \/ \E copy \in kept : Sound(copy))'
  <2>1. CASE NoScriptYet
    <3>1. \A n \in DOMAIN archives' : Sound(archives'[n].db)
      BY <1>1, <2>1 DEF NoScriptYet
    <3>2. \A q \in Processes : /\ process'[q].pc \in {"pack", "overwrite"} => Sound(process'[q].db)
                              /\ process'[q].pc # "script"
      BY <1>3, <2>1 DEF NoScriptYet, Open
    <3> QED BY <1>1, <1>2, <2>1, <3>1, <3>2 DEF NoScriptYet, Sound, Applied, HalfMigrated
  <2>2. CASE \E copy \in kept : Sound(copy)
    BY <1>1, <2>2 DEF Sound, Applied, HalfMigrated
  <2> QED BY <2>1, <2>2 DEF DataInv
<1> QED BY <1>4, <1>5, <1>6, <1>7 DEF DataInv

LEMMA DataInitially == DataInit => DataInv
<1> SUFFICES ASSUME DataInit PROVE DataInv
  OBVIOUS
<1>1. /\ file = Unborn /\ kept = {} /\ archives = <<>> /\ overlapped = FALSE /\ restores = 0
      /\ process = [p \in Processes |-> Closed]
  BY DEF DataInit
<1>2. DataTypes /\ DOMAIN archives = {}
  <2>1. file \in Databases /\ kept \in SUBSET Databases
    BY <1>1 DEF Databases, Unborn
  <2>2. Closed \in ProcessStages
    BY DEF ProcessStages
  <2>3. archives \in Seq([db : Databases, whole : BOOLEAN]) /\ DOMAIN archives = {}
    BY <1>1
  <2> QED BY <1>1, <2>1, <2>2, <2>3 DEF DataTypes
<1>3. \A p \in Processes : process[p].pc = "closed"
  BY <1>1 DEF Closed
<1>4. Sound(file)
  BY <1>1, SchemaFacts DEF Sound, Applied, HalfMigrated, Unborn, Versions
<1> QED BY <1>2, <1>3, <1>4 DEF DataInv, Born, VersionsTrue, NoScriptYet, Sound

LEMMA DataKeeps == DataInv /\ [DataStep]_dataVars => DataInv'
<1> SUFFICES ASSUME DataInv, [DataStep]_dataVars PROVE DataInv'
  OBVIOUS
<1>1. ASSUME DataStep PROVE DataInv'
  BY <1>1, OpenKeeps, MigrateKeeps, CopyKeeps, RunKeeps, RecordKeeps, CopyDatabaseKeeps,
     OpenArchiveKeeps, CloseArchiveKeeps, CheckKeeps, OverwriteKeeps, StopKeeps DEF DataStep
<1>2. CASE UNCHANGED dataVars
  BY <1>2 DEF dataVars, files, DataInv, DataTypes, Born, VersionsTrue, NoScriptYet, Sound,
     Applied, HalfMigrated, Behind
<1> QED BY <1>1, <1>2

(* The inductive invariant of the database and its copies                  *)
(* (storage/database.py, cli/backup.py).                                   *)
THEOREM DataInvariance == DataSpec => []DataInv
<1> QED BY DataInitially, DataKeeps, PTL DEF DataSpec

(* For any schema, scripts with bare statements anywhere and any number of *)
(* processes that stop anywhere: a version the database tells of was run   *)
(* whole, unless a restore came under a migration, and a database that is  *)
(* stuck between two versions has a sound copy beside it (migrate of       *)
(* storage/database.py, restore_backup of cli/backup.py).                  *)
THEOREM DatabaseHolds == DataSpec => []VersionsHold
<1>1. DataInv => VersionsHold
  BY DEF DataInv, VersionsTrue, NoScriptYet, VersionsHold, VersionIsTrue, WayBack
<1> QED BY <1>1, DataInvariance, PTL

-----------------------------------------------------------------------------
(* FileIndex                                                               *)

IndexSpec == IndexInit /\ [][IndexStep]_indexVars

FileRows == [hash : Texts, status : {"active", "deleted", "error"}]

WorkRecords ==
    [at : {"idle", "walk", "hash", "unseen", "scanned", "read", "replace", "stamp", "error", "reindexed"},
     listed : [Paths -> {Absent} \cup FileRows], todo : SUBSET Paths, seen : SUBSET Paths,
     path : Paths \cup {Absent}, hash : Texts \cup {Absent}, text : Texts \cup {Absent},
     reindex : BOOLEAN, calm : BOOLEAN]

IndexTypes ==
    /\ disk \in [Paths -> Texts \cup {Absent}]
    /\ embeds \in BOOLEAN
    /\ rows \in [Paths -> {Absent} \cup FileRows]
    /\ chunks \in [Paths -> [text : Texts \cup {Absent}, vectors : BOOLEAN]]
    /\ work \in WorkRecords
    /\ left \in [requests : Nat, edits : Nat, stops : Nat]
    /\ doubt \in SUBSET Paths

Ingesting == work.at \in {"read", "replace", "stamp", "error"}

\* Where a request is, and that the rows it works on are there.
RequestOK ==
    /\ work.at = "hash" \/ Ingesting => work.path \in Paths
    /\ work.at \in {"walk", "hash", "unseen", "scanned"} => ~ work.reindex
    /\ work.at \in {"stamp", "reindexed"} => work.reindex
    /\ Ingesting => rows[work.path] # Absent
    /\ \A p \in Paths : work.listed[p] # Absent => rows[p] # Absent /\ work.at # "idle"
    /\ work.at = "unseen" => work.todo \subseteq Unseen

\* The chunks of a file that is not being ingested.
ChunksOK ==
    \A p \in Paths \ doubt :
        rows[p] # Absent /\ rows[p].status = "active" /\ ~ (Ingesting /\ p = work.path)
            => chunks[p].text = rows[p].hash

\* What an ingestion that nobody disturbs has in hand.
IngestOK ==
    work.path \notin doubt =>
        /\ work.at = "read" /\ ~ work.reindex => rows[work.path].hash = disk[work.path]
        /\ work.at = "replace" =>
              work.text = IF work.reindex THEN disk[work.path] ELSE rows[work.path].hash
        /\ work.at = "stamp" => chunks[work.path].text = disk[work.path]

\* What a scan has made of a file, as ScanSettles says.
Settled(p) ==
    /\ Eligible(disk[p]) /\ rows[p] # Absent /\ rows[p].hash = disk[p]
    /\ \/ Known(work.listed[p], disk[p]) /\ rows[p] = work.listed[p]
       \/ rows[p].status = "active"
       \/ rows[p].status = "error" /\ (disk[p] \in Unparsable \/ chunks[p].vectors)

\* A scan that no edit disturbs, while it walks ...
Walks == work.at \in {"walk", "hash", "read", "replace", "error"} /\ ~ work.reindex
OnHand(p) == p = work.path /\ work.at # "walk"

WalkOK ==
    work.calm /\ Walks =>
        /\ work.todo \cap work.seen = {}
        /\ \A p \in Paths \ work.seen :
              rows[p] = work.listed[p] /\ (Eligible(disk[p]) => p \in work.todo)
        /\ \A p \in work.seen : Eligible(disk[p]) /\ (OnHand(p) \/ Settled(p))
        /\ work.at # "walk" => work.path \in work.seen
        /\ work.at = "hash" => rows[work.path] = work.listed[work.path]
        /\ work.at \in {"read", "replace"} =>
              rows[work.path].hash = disk[work.path] /\ rows[work.path].status = "active"
        /\ work.at = "error" =>
              /\ rows[work.path].hash = disk[work.path]
              /\ disk[work.path] \in Unparsable \/ chunks[work.path].vectors

\* ... and when it marks what it has not seen.
MarkOK ==
    work.calm /\ work.at \in {"unseen", "scanned"} =>
        /\ work.todo \cap work.seen = {}
        /\ \A p \in work.seen : Settled(p)
        /\ \A p \in Paths \ work.seen :
              /\ ~ Eligible(disk[p])
              /\ p \in work.todo \/ rows[p] = Absent \/ rows[p].status = "deleted"
        /\ work.at = "scanned" => work.todo = {}

IndexInv == IndexTypes /\ RequestOK /\ ChunksOK /\ IngestOK /\ WalkOK /\ MarkOK

-----------------------------------------------------------------------------

LEMMA NoWorkFacts ==
    /\ NoWork \in WorkRecords /\ NoWork.at = "idle" /\ ~ NoWork.reindex
    /\ \A p \in Paths : NoWork.listed[p] = Absent
    /\ NoWork.path = Absent /\ NoWork.todo = {} /\ NoWork.seen = {} /\ NoWork.calm
BY DEF NoWork, WorkRecords

\* A server that works on nothing.
LEMMA NothingInHand ==
    ASSUME IndexTypes', work'.at = "idle", \A p \in Paths : work'.listed[p] = Absent
    PROVE  RequestOK' /\ IngestOK' /\ WalkOK' /\ MarkOK'
BY DEF RequestOK, IngestOK, WalkOK, MarkOK, Ingesting, Walks

LEMMA IndexInitially == IndexInit => IndexInv
<1> SUFFICES ASSUME IndexInit PROVE IndexInv
  OBVIOUS
<1>1. /\ disk \in [Paths -> Texts \cup {Absent}] /\ embeds \in BOOLEAN
      /\ rows = [p \in Paths |-> Absent] /\ chunks = [p \in Paths |-> NoChunks]
      /\ work = NoWork /\ doubt = {} /\ left \in [requests : Nat, edits : Nat, stops : Nat]
  BY FileIndexAssumption DEF IndexInit
<1>2. IndexTypes
  BY <1>1, NoWorkFacts DEF IndexTypes, NoChunks
<1>3. ChunksOK
  BY <1>1 DEF ChunksOK
<1>4. RequestOK /\ IngestOK /\ WalkOK /\ MarkOK
  BY <1>1, NoWorkFacts DEF RequestOK, IngestOK, WalkOK, MarkOK, Ingesting, Walks
<1> QED BY <1>2, <1>3, <1>4 DEF IndexInv

\* What a row can become.
LEMMA RowsMove ==
    ASSUME IndexTypes, NEW p \in Paths
    PROVE  /\ \A hash, status :
                 Set(p, hash, status) /\ hash \in Texts /\ status \in {"active", "deleted", "error"} =>
                     /\ rows' \in [Paths -> {Absent} \cup FileRows]
                     /\ rows'[p] # Absent /\ rows'[p].hash = hash /\ rows'[p].status = status
                     /\ \A q \in Paths \ {p} : rows'[q] = rows[q]
           /\ \A status \in {"active", "deleted", "error"} :
                 Marked(p, status) /\ rows[p] # Absent =>
                     /\ rows' \in [Paths -> {Absent} \cup FileRows]
                     /\ rows'[p] # Absent /\ rows'[p].hash = rows[p].hash /\ rows'[p].status = status
                     /\ \A q \in Paths \ {p} : rows'[q] = rows[q]
<1> DEFINE r == rows
           R == {Absent} \cup FileRows
<1>1. r \in [Paths -> R]
  BY DEF IndexTypes
<1>2. ASSUME NEW hash \in Texts, NEW status \in {"active", "deleted", "error"}, Set(p, hash, status)
      PROVE  /\ rows' \in [Paths -> {Absent} \cup FileRows]
             /\ rows'[p] # Absent /\ rows'[p].hash = hash /\ rows'[p].status = status
             /\ \A q \in Paths \ {p} : rows'[q] = rows[q]
  <2> DEFINE row == [hash |-> hash, status |-> status]
  <2>1. row \in FileRows /\ row # Absent /\ row.hash = hash /\ row.status = status
    BY FileIndexAssumption DEF FileRows
  <2>2. rows' = [r EXCEPT ![p] = row]
    BY <1>2 DEF Set
  <2> HIDE DEF row, r, FileRows
  <2> QED BY <1>1, <2>1, <2>2 DEF r
<1>3. ASSUME NEW status \in {"active", "deleted", "error"}, Marked(p, status), rows[p] # Absent
      PROVE  /\ rows' \in [Paths -> {Absent} \cup FileRows]
             /\ rows'[p] # Absent /\ rows'[p].hash = rows[p].hash /\ rows'[p].status = status
             /\ \A q \in Paths \ {p} : rows'[q] = rows[q]
  <2> DEFINE row == [r[p] EXCEPT !.status = status]
  <2>0. r[p] \in FileRows
    BY <1>1, <1>3
  <2>1. row \in FileRows /\ row # Absent /\ row.hash = r[p].hash /\ row.status = status
    BY <2>0, FileIndexAssumption DEF FileRows
  <2>2. rows' = [r EXCEPT ![p] = row]
    BY <1>3 DEF Marked
  <2> HIDE DEF row, r, FileRows
  <2> QED BY <1>1, <2>1, <2>2 DEF r
<1> QED BY <1>2, <1>3

LEMMA BeginScanKeepsIndex == ASSUME IndexInv, BeginScan PROVE IndexInv'
<1>1. /\ work.at = "idle" /\ UNCHANGED <<disk, embeds, rows, chunks, doubt>>
      /\ work' = [NoWork EXCEPT !.at = "walk", !.listed = rows, !.todo = Paths]
      /\ left.requests > 0 /\ left' = [left EXCEPT !.requests = @ - 1]
  BY DEF BeginScan, Requested, Serve, Tables
<1>2. IndexTypes /\ RequestOK /\ ChunksOK
  BY DEF IndexInv
<1>3. /\ work' \in WorkRecords /\ work'.at = "walk" /\ work'.listed = rows /\ work'.todo = Paths
      /\ work'.seen = {} /\ ~ work'.reindex
  BY <1>1, <1>2 DEF WorkRecords, NoWork, IndexTypes
<1>4. left' \in [requests : Nat, edits : Nat, stops : Nat]
  BY <1>1, <1>2 DEF IndexTypes
<1>5. IndexTypes'
  BY <1>1, <1>2, <1>3, <1>4 DEF IndexTypes
<1>6. RequestOK' /\ ChunksOK' /\ IngestOK' /\ WalkOK' /\ MarkOK'
  BY <1>1, <1>2, <1>3 DEF RequestOK, ChunksOK, IngestOK, WalkOK, MarkOK, Ingesting, Walks
<1> QED BY <1>5, <1>6 DEF IndexInv

LEMMA VisitKeepsIndex == ASSUME IndexInv, Visit PROVE IndexInv'
<1>1. /\ work.at = "walk" /\ UNCHANGED <<disk, embeds, left, rows, chunks, doubt>>
  BY DEF Visit, Working, Tables
<1>2. IndexTypes /\ RequestOK /\ ChunksOK /\ WalkOK
  BY DEF IndexInv
<1>3. PICK p \in work.todo :
         work' = IF Eligible(disk[p])
                 THEN [work EXCEPT !.at = "hash", !.path = p, !.todo = @ \ {p}, !.seen = @ \cup {p}]
                 ELSE [work EXCEPT !.todo = @ \ {p}]
  BY DEF Visit, Serve
<1>4. p \in Paths /\ work \in WorkRecords
  BY <1>2 DEF IndexTypes, WorkRecords
<1>5. CASE Eligible(disk[p])
  <2>1. work' = [work EXCEPT !.at = "hash", !.path = p, !.todo = @ \ {p}, !.seen = @ \cup {p}]
    BY <1>3, <1>5
  <2>2. /\ work' \in WorkRecords /\ work'.at = "hash" /\ work'.path = p
        /\ work'.todo = work.todo \ {p} /\ work'.seen = work.seen \cup {p}
        /\ work'.listed = work.listed /\ work'.reindex = work.reindex /\ work'.calm = work.calm
    BY <1>4, <2>1 DEF WorkRecords
  <2>3. IndexTypes'
    BY <1>1, <1>2, <2>2 DEF IndexTypes
  <2>4. RequestOK' /\ ChunksOK' /\ IngestOK' /\ MarkOK'
    BY <1>1, <1>2, <1>4, <2>2 DEF RequestOK, ChunksOK, IngestOK, MarkOK, Ingesting
  <2>5. WalkOK'
    <3> SUFFICES ASSUME work.calm PROVE WalkOK'
      BY <2>2 DEF WalkOK
    <3>1. \A q \in work.seen : Eligible(disk[q]) /\ Settled(q) /\ q # p
      BY <1>1, <1>2, <1>4 DEF WalkOK, Walks, OnHand, RequestOK
    <3>2. \A q \in work.seen : Settled(q)'
      BY <1>1, <2>2, <3>1 DEF Settled
    <3> QED BY <1>1, <1>2, <1>5, <2>2, <3>1, <3>2, <1>4 DEF WalkOK, Walks, OnHand, RequestOK
  <2> QED BY <2>3, <2>4, <2>5 DEF IndexInv
<1>6. CASE ~ Eligible(disk[p])
  <2>1. work' = [work EXCEPT !.todo = @ \ {p}]
    BY <1>3, <1>6
  <2>2. /\ work' \in WorkRecords /\ work'.at = "walk" /\ work'.path = work.path
        /\ work'.todo = work.todo \ {p} /\ work'.seen = work.seen
        /\ work'.listed = work.listed /\ work'.reindex = work.reindex /\ work'.calm = work.calm
    BY <1>1, <1>4, <2>1 DEF WorkRecords
  <2>3. IndexTypes'
    BY <1>1, <1>2, <2>2 DEF IndexTypes
  <2>4. RequestOK' /\ ChunksOK' /\ IngestOK' /\ MarkOK'
    BY <1>1, <1>2, <1>4, <2>2 DEF RequestOK, ChunksOK, IngestOK, MarkOK, Ingesting
  <2>5. WalkOK'
    <3> SUFFICES ASSUME work.calm PROVE WalkOK'
      BY <2>2 DEF WalkOK
    <3>1. \A q \in work.seen : Eligible(disk[q]) /\ Settled(q)
      BY <1>1, <1>2 DEF WalkOK, Walks, OnHand, RequestOK
    <3>2. \A q \in work.seen : Settled(q)'
      BY <1>1, <2>2, <3>1 DEF Settled
    <3> QED BY <1>1, <1>2, <1>6, <2>2, <3>1, <3>2 DEF WalkOK, Walks, OnHand, RequestOK
  <2> QED BY <2>3, <2>4, <2>5 DEF IndexInv
<1> QED BY <1>5, <1>6

\* The request is over, or the server stopped; no row is as it was being made.
LEMMA StopServing ==
    ASSUME IndexInv, work' = NoWork, UNCHANGED <<disk, embeds, rows>>,
           left' \in [requests : Nat, edits : Nat, stops : Nat],
           doubt \subseteq doubt', doubt' \in SUBSET Paths,
           Ingesting => work.path \in doubt',
           chunks' \in [Paths -> [text : Texts \cup {Absent}, vectors : BOOLEAN]],
           \A p \in Paths \ doubt' : chunks'[p] = chunks[p]
    PROVE  IndexInv'
<1>1. IndexTypes /\ RequestOK /\ ChunksOK
  BY DEF IndexInv
<1>2. IndexTypes'
  BY <1>1, NoWorkFacts DEF IndexTypes
<1>3. ChunksOK'
  BY <1>1, NoWorkFacts DEF ChunksOK, Ingesting
<1>4. work'.at = "idle" /\ \A p \in Paths : work'.listed[p] = Absent
  BY NoWorkFacts
<1> QED BY <1>2, <1>3, <1>4, NothingInHand DEF IndexInv

LEMMA ReplyKeepsIndex == ASSUME IndexInv, Reply PROVE IndexInv'
<1>1. /\ work' = NoWork /\ UNCHANGED <<disk, embeds, left, rows, chunks, doubt>>
      /\ ~ Ingesting
  BY DEF Reply, Serve, Tables, Ingesting
<1>2. IndexTypes
  BY DEF IndexInv
<1> QED BY <1>1, <1>2, StopServing DEF IndexTypes

LEMMA StopIndexingKeepsIndex == ASSUME IndexInv, StopIndexing PROVE IndexInv'
<1>1. /\ work' = NoWork /\ UNCHANGED <<disk, embeds, rows>>
      /\ left.stops > 0 /\ left' = [left EXCEPT !.stops = @ - 1]
      /\ doubt' = doubt \cup InHand
      /\ \/ UNCHANGED chunks
         \/ work.at = "replace" /\ chunks' = [chunks EXCEPT ![work.path] = NoChunks]
  BY DEF StopIndexing, Serve
<1>2. IndexTypes /\ RequestOK
  BY DEF IndexInv
<1>3. left' \in [requests : Nat, edits : Nat, stops : Nat]
  BY <1>1, <1>2 DEF IndexTypes
<1>4. doubt' \in SUBSET Paths /\ doubt \subseteq doubt' /\ (Ingesting => work.path \in doubt')
  BY <1>1, <1>2 DEF IndexTypes, RequestOK, Ingesting, InHand
<1>5. /\ chunks' \in [Paths -> [text : Texts \cup {Absent}, vectors : BOOLEAN]]
      /\ \A p \in Paths \ doubt' : chunks'[p] = chunks[p]
  <2>1. NoChunks \in [text : Texts \cup {Absent}, vectors : BOOLEAN]
    BY DEF NoChunks
  <2>2. chunks \in [Paths -> [text : Texts \cup {Absent}, vectors : BOOLEAN]]
    BY <1>2 DEF IndexTypes
  <2> QED BY <1>1, <1>4, <2>1, <2>2 DEF Ingesting
<1> QED BY <1>1, <1>3, <1>4, <1>5, StopServing

LEMMA HashKeepsIndex == ASSUME IndexInv, Hash PROVE IndexInv'
<1> DEFINE p == work.path
<1>1. work.at = "hash" /\ UNCHANGED <<disk, embeds, left, chunks>>
  BY DEF Hash, Working, Tables
<1>2. IndexTypes /\ RequestOK /\ ChunksOK /\ WalkOK
  BY DEF IndexInv
<1>3. p \in Paths /\ ~ work.reindex /\ ~ Ingesting /\ work \in WorkRecords
      /\ disk[p] \in Texts \cup {Absent}
  BY <1>1, <1>2 DEF RequestOK, Ingesting, IndexTypes
<1>4. CASE Serve(NoWork) /\ UNCHANGED <<rows, chunks, doubt>>
  BY <1>1, <1>2, <1>3, <1>4, StopServing DEF Serve, IndexTypes
<1>5. CASE /\ Known(work.listed[p], disk[p]) /\ Serve([work EXCEPT !.at = "walk"])
           /\ UNCHANGED <<rows, chunks, doubt>>
  <2>1. /\ work' \in WorkRecords /\ work'.at = "walk" /\ work'.path = p
        /\ work'.todo = work.todo /\ work'.seen = work.seen
        /\ work'.listed = work.listed /\ ~ work'.reindex /\ work'.calm = work.calm
    BY <1>3, <1>5 DEF WorkRecords, Serve
  <2>2. IndexTypes'
    BY <1>1, <1>2, <1>5, <2>1 DEF IndexTypes
  <2>3. RequestOK' /\ ChunksOK' /\ IngestOK' /\ MarkOK'
    BY <1>1, <1>2, <1>3, <1>5, <2>1 DEF RequestOK, ChunksOK, IngestOK, MarkOK, Ingesting
  <2>4. WalkOK'
    <3> SUFFICES ASSUME work.calm PROVE WalkOK'
      BY <2>1 DEF WalkOK
    <3>1. \A q \in work.seen : Settled(q)
      BY <1>1, <1>2, <1>3, <1>5 DEF WalkOK, Walks, OnHand, Settled, Known
    <3>2. \A q \in work.seen : Settled(q)'
      BY <1>1, <1>5, <2>1, <3>1 DEF Settled
    <3> QED BY <1>1, <1>2, <1>3, <1>5, <2>1, <3>2 DEF WalkOK, Walks, OnHand
  <2> QED BY <2>2, <2>3, <2>4 DEF IndexInv
<1>6. CASE /\ disk[p] # Absent /\ Set(p, disk[p], "active") /\ doubt' = doubt \ {p}
           /\ Serve([work EXCEPT !.at = "read", !.hash = disk[p]])
  <2>1. /\ work' \in WorkRecords /\ work'.at = "read" /\ work'.path = p
        /\ work'.todo = work.todo /\ work'.seen = work.seen
        /\ work'.listed = work.listed /\ ~ work'.reindex /\ work'.calm = work.calm
    BY <1>3, <1>6 DEF WorkRecords, Serve
  <2>2. /\ rows' \in [Paths -> {Absent} \cup FileRows]
        /\ rows'[p] # Absent /\ rows'[p].hash = disk[p] /\ rows'[p].status = "active"
        /\ \A q \in Paths \ {p} : rows'[q] = rows[q]
    BY <1>2, <1>3, <1>6, RowsMove
  <2>3. IndexTypes'
    BY <1>1, <1>2, <1>6, <2>1, <2>2 DEF IndexTypes
  <2> HIDE DEF p
  <2>4. RequestOK' /\ IngestOK' /\ MarkOK'
    BY <1>1, <1>2, <1>3, <2>1, <2>2 DEF RequestOK, IngestOK, MarkOK, Ingesting
  <2>5. ChunksOK'
    BY <1>1, <1>2, <1>3, <1>6, <2>1, <2>2 DEF ChunksOK, Ingesting
  <2>6. WalkOK'
    <3> SUFFICES ASSUME work.calm PROVE WalkOK'
      BY <2>1 DEF WalkOK
    <3>1. /\ \A q \in work.seen \ {p} : Settled(q)
          /\ \A q \in Paths \ work.seen :
                rows[q] = work.listed[q] /\ (Eligible(disk[q]) => q \in work.todo)
          /\ work.todo \cap work.seen = {} /\ p \in work.seen
          /\ \A q \in work.seen : Eligible(disk[q])
      BY <1>1, <1>2, <1>3 DEF WalkOK, Walks, OnHand, p
    <3>2. work.seen \subseteq Paths
      BY <1>3 DEF WorkRecords
    <3>3. \A q \in work.seen \ {p} : Settled(q)'
      BY <1>1, <2>1, <2>2, <3>1, <3>2 DEF Settled
    <3> QED BY <1>1, <2>1, <2>2, <3>1, <3>3 DEF WalkOK, OnHand
  <2> QED BY <2>3, <2>4, <2>5, <2>6 DEF IndexInv
<1> QED BY <1>4, <1>5, <1>6 DEF Hash, Tables

LEMMA EndWalkKeepsIndex == ASSUME IndexInv, EndWalk PROVE IndexInv'
<1>1. /\ work.at = "walk" /\ work.todo = {} /\ UNCHANGED <<disk, embeds, left, rows, chunks, doubt>>
      /\ work' = [work EXCEPT !.at = "unseen", !.todo = Unseen]
  BY DEF EndWalk, Working, Tables, Serve
<1>2. IndexTypes /\ RequestOK /\ ChunksOK /\ WalkOK
  BY DEF IndexInv
<1>3. /\ work' \in WorkRecords /\ work'.at = "unseen" /\ work'.path = work.path
      /\ work'.todo = Unseen /\ work'.seen = work.seen
      /\ work'.listed = work.listed /\ ~ work'.reindex /\ work'.calm = work.calm
  <2>1. work \in WorkRecords /\ ~ work.reindex /\ Unseen \in SUBSET Paths
    BY <1>1, <1>2 DEF IndexTypes, RequestOK, Unseen
  <2> QED BY <1>1, <2>1 DEF WorkRecords
<1>4. IndexTypes'
  BY <1>1, <1>2, <1>3 DEF IndexTypes
<1>5. RequestOK' /\ ChunksOK' /\ IngestOK' /\ WalkOK'
  BY <1>1, <1>2, <1>3 DEF RequestOK, ChunksOK, IngestOK, WalkOK, Walks, Ingesting, Unseen
<1>6. MarkOK'
  <2> SUFFICES ASSUME work.calm PROVE MarkOK'
    BY <1>3 DEF MarkOK
  <2>1. \A q \in work.seen : Settled(q)
    BY <1>1, <1>2 DEF WalkOK, Walks, OnHand, RequestOK
  <2>2. \A q \in work.seen : Settled(q)'
    BY <1>1, <1>3, <2>1 DEF Settled
  <2>3. \A q \in Paths \ work.seen :
           ~ Eligible(disk[q]) /\ (q \in Unseen \/ rows[q] = Absent)
    BY <1>1, <1>2 DEF WalkOK, Walks, RequestOK, Unseen
  <2> QED BY <1>1, <1>3, <2>2, <2>3 DEF MarkOK, Unseen
<1> QED BY <1>4, <1>5, <1>6 DEF IndexInv

LEMMA MarkDeletedKeepsIndex == ASSUME IndexInv, MarkDeleted PROVE IndexInv'
<1>1. work.at = "unseen" /\ UNCHANGED <<disk, embeds, left, chunks, doubt>>
  BY DEF MarkDeleted, Working
<1>2. IndexTypes /\ RequestOK /\ ChunksOK /\ MarkOK
  BY DEF IndexInv
<1>3. PICK p \in work.todo : Marked(p, "deleted") /\ work' = [work EXCEPT !.todo = @ \ {p}]
  BY DEF MarkDeleted, Serve
<1>4. p \in Paths /\ work.listed[p] # Absent /\ rows[p] # Absent
      /\ p \notin work.seen /\ ~ work.reindex /\ work \in WorkRecords
  BY <1>1, <1>2 DEF RequestOK, Unseen, IndexTypes
<1>5. /\ work' \in WorkRecords /\ work'.at = "unseen" /\ work'.path = work.path
      /\ work'.todo = work.todo \ {p} /\ work'.seen = work.seen
      /\ work'.listed = work.listed /\ ~ work'.reindex /\ work'.calm = work.calm
  BY <1>1, <1>3, <1>4 DEF WorkRecords
<1>6. /\ rows' \in [Paths -> {Absent} \cup FileRows]
      /\ rows'[p] # Absent /\ rows'[p].status = "deleted"
      /\ \A q \in Paths \ {p} : rows'[q] = rows[q]
  BY <1>2, <1>3, <1>4, RowsMove
<1>7. IndexTypes'
  BY <1>1, <1>2, <1>5, <1>6 DEF IndexTypes
<1>8. RequestOK' /\ ChunksOK' /\ IngestOK' /\ WalkOK'
  BY <1>1, <1>2, <1>4, <1>5, <1>6
     DEF RequestOK, ChunksOK, IngestOK, WalkOK, Walks, Ingesting, Unseen
<1>9. MarkOK'
  <2> SUFFICES ASSUME work.calm PROVE MarkOK'
    BY <1>5 DEF MarkOK
  <2>1. work.seen \subseteq Paths /\ \A q \in work.seen : Settled(q)
    BY <1>1, <1>2 DEF MarkOK, IndexTypes, WorkRecords
  <2>2. \A q \in work.seen : Settled(q)'
    BY <1>1, <1>4, <1>5, <1>6, <2>1 DEF Settled
  <2> QED BY <1>1, <1>2, <1>5, <1>6, <2>2 DEF MarkOK
<1> QED BY <1>7, <1>8, <1>9 DEF IndexInv

LEMMA EndScanKeepsIndex == ASSUME IndexInv, EndScan PROVE IndexInv'
<1>1. /\ work.at = "unseen" /\ work.todo = {} /\ UNCHANGED <<disk, embeds, left, rows, chunks, doubt>>
      /\ work' = [work EXCEPT !.at = "scanned"]
  BY DEF EndScan, Working, Tables, Serve
<1>2. IndexTypes /\ RequestOK /\ ChunksOK /\ MarkOK
  BY DEF IndexInv
<1>3. /\ work' \in WorkRecords /\ work'.at = "scanned" /\ work'.path = work.path
      /\ work'.todo = {} /\ work'.seen = work.seen
      /\ work'.listed = work.listed /\ ~ work'.reindex /\ work'.calm = work.calm
  BY <1>1, <1>2 DEF IndexTypes, WorkRecords, RequestOK
<1>4. IndexTypes'
  BY <1>1, <1>2, <1>3 DEF IndexTypes
<1>5. RequestOK' /\ ChunksOK' /\ IngestOK' /\ WalkOK'
  BY <1>1, <1>2, <1>3 DEF RequestOK, ChunksOK, IngestOK, WalkOK, Walks, Ingesting
<1>6. MarkOK'
  BY <1>1, <1>2, <1>3 DEF MarkOK, Settled
<1> QED BY <1>4, <1>5, <1>6 DEF IndexInv

LEMMA ExtractKeepsIndex == ASSUME IndexInv, Extract PROVE IndexInv'
<1> DEFINE p == work.path
           text == disk[p]
<1>1. work.at = "read" /\ UNCHANGED <<disk, embeds, left, rows, chunks, doubt>>
  BY DEF Extract, Working, Tables
<1>2. IndexTypes /\ RequestOK /\ ChunksOK /\ IngestOK /\ WalkOK
  BY DEF IndexInv
<1>3. p \in Paths /\ rows[p] # Absent /\ work \in WorkRecords /\ text \in Texts \cup {Absent}
  BY <1>1, <1>2 DEF RequestOK, Ingesting, IndexTypes
<1>4. PICK stage \in {"error", "replace"}, read \in Texts \cup {Absent} :
         /\ work' = [work EXCEPT !.at = stage, !.text = read]
         /\ stage = "error" => text = Absent \/ text \in Unparsable
         /\ stage = "replace" => read = text
  <2>1. CASE (text = Absent \/ text \in Unparsable) /\ work' = [work EXCEPT !.at = "error"]
    <3>1. [work EXCEPT !.at = "error"] = [work EXCEPT !.at = "error", !.text = work.text]
          /\ work.text \in Texts \cup {Absent}
      BY <1>3 DEF WorkRecords
    <3> HIDE DEF text, p
    <3> QED BY <2>1, <3>1
  <2>2. CASE work' = [work EXCEPT !.at = "replace", !.text = text]
    <3> HIDE DEF text, p
    <3> QED BY <2>2, <1>3
  <2> QED BY <2>1, <2>2 DEF Extract, Serve
<1>5. /\ work' \in WorkRecords /\ work'.at = stage /\ work'.path = p /\ work'.text = read
      /\ work'.todo = work.todo /\ work'.seen = work.seen
      /\ work'.listed = work.listed /\ work'.reindex = work.reindex /\ work'.calm = work.calm
  BY <1>3, <1>4 DEF WorkRecords
<1>6. IndexTypes'
  BY <1>1, <1>2, <1>5 DEF IndexTypes
<1>7. RequestOK' /\ ChunksOK' /\ IngestOK' /\ MarkOK'
  BY <1>1, <1>2, <1>3, <1>4, <1>5 DEF RequestOK, ChunksOK, IngestOK, MarkOK, Ingesting
<1>8. WalkOK'
  <2> SUFFICES ASSUME work.calm, ~ work.reindex PROVE WalkOK'
    BY <1>5 DEF WalkOK, Walks
  <2> HIDE DEF p, text
  <2>1. /\ \A q \in work.seen \ {p} : Settled(q)
        /\ \A q \in work.seen : Eligible(disk[q])
        /\ p \in work.seen
    BY <1>1, <1>2 DEF WalkOK, Walks, OnHand, p
  <2>2. \A q \in work.seen \ {p} : Settled(q)'
    BY <1>1, <1>5, <2>1 DEF Settled
  <2>3. text # Absent
    BY <2>1, FileIndexAssumption DEF Eligible, text
  <2> QED BY <1>1, <1>2, <1>4, <1>5, <2>1, <2>2, <2>3 DEF WalkOK, Walks, OnHand, p, text
<1> QED BY <1>6, <1>7, <1>8 DEF IndexInv

LEMMA ReplaceKeepsIndex == ASSUME IndexInv, Replace PROVE IndexInv'
<1> DEFINE p == work.path
<1>1. work.at = "replace" /\ UNCHANGED <<disk, embeds, left, rows, doubt>>
  BY DEF Replace, Working
<1>2. IndexTypes /\ RequestOK /\ ChunksOK /\ IngestOK /\ WalkOK
  BY DEF IndexInv
<1>3. p \in Paths /\ rows[p] # Absent /\ work \in WorkRecords /\ work.text \in Texts \cup {Absent}
  BY <1>1, <1>2 DEF RequestOK, Ingesting, IndexTypes, WorkRecords
<1>4. CASE chunks[p].vectors /\ work' = [work EXCEPT !.at = "error"] /\ UNCHANGED chunks
  <2>1. /\ work' \in WorkRecords /\ work'.at = "error" /\ work'.path = p
        /\ work'.todo = work.todo /\ work'.seen = work.seen
        /\ work'.listed = work.listed /\ work'.reindex = work.reindex /\ work'.calm = work.calm
    BY <1>3, <1>4 DEF WorkRecords
  <2>2. IndexTypes'
    BY <1>1, <1>2, <1>4, <2>1 DEF IndexTypes
  <2>3. RequestOK' /\ ChunksOK' /\ IngestOK' /\ MarkOK'
    BY <1>1, <1>2, <1>3, <1>4, <2>1 DEF RequestOK, ChunksOK, IngestOK, MarkOK, Ingesting
  <2>4. WalkOK'
    <3> SUFFICES ASSUME work.calm, ~ work.reindex PROVE WalkOK'
      BY <2>1 DEF WalkOK, Walks
    <3> HIDE DEF p
    <3>1. \A q \in work.seen \ {p} : Settled(q)
      BY <1>1, <1>2 DEF WalkOK, Walks, OnHand, p
    <3>2. \A q \in work.seen \ {p} : Settled(q)'
      BY <1>1, <1>4, <2>1, <3>1 DEF Settled
    <3> QED BY <1>1, <1>2, <1>4, <2>1, <3>2 DEF WalkOK, Walks, OnHand, p
  <2> QED BY <2>2, <2>3, <2>4 DEF IndexInv
<1>5. ASSUME NEW embedded \in BOOLEAN,
             chunks' = [chunks EXCEPT ![p] = [text |-> work.text, vectors |-> embedded]],
             work' = [work EXCEPT !.at = AfterIngest(work.reindex)]
      PROVE  IndexInv'
  <2>1. /\ work' \in WorkRecords /\ work'.at = AfterIngest(work.reindex) /\ work'.path = p
        /\ work'.todo = work.todo /\ work'.seen = work.seen
        /\ work'.listed = work.listed /\ work'.reindex = work.reindex /\ work'.calm = work.calm
    BY <1>3, <1>5 DEF WorkRecords, AfterIngest
  <2>2. /\ chunks' \in [Paths -> [text : Texts \cup {Absent}, vectors : BOOLEAN]]
        /\ chunks'[p].text = work.text /\ \A q \in Paths \ {p} : chunks'[q] = chunks[q]
    <3> DEFINE chunk == [text |-> work.text, vectors |-> embedded]
               C == [text : Texts \cup {Absent}, vectors : BOOLEAN]
    <3>1. chunk \in C /\ chunk.text = work.text /\ chunks \in [Paths -> C]
      BY <1>2, <1>3 DEF IndexTypes
    <3>2. chunks' = [chunks EXCEPT ![p] = chunk]
      BY <1>5
    <3> HIDE DEF chunk, C, p
    <3>3. chunks' \in [Paths -> C] /\ chunks'[p] = chunk /\ \A q \in Paths \ {p} : chunks'[q] = chunks[q]
      BY <1>3, <3>1, <3>2
    <3> QED BY <3>1, <3>3 DEF C
  <2>3. IndexTypes'
    BY <1>1, <1>2, <2>1, <2>2 DEF IndexTypes
  <2>4. RequestOK' /\ MarkOK'
    BY <1>1, <1>2, <1>3, <2>1 DEF RequestOK, MarkOK, Ingesting, AfterIngest
  <2> HIDE DEF p
  <2>5. p \notin doubt => chunks'[p].text = IF work.reindex THEN disk[p] ELSE rows[p].hash
    BY <1>1, <1>2, <2>2 DEF IngestOK, p
  <2>6. ChunksOK' /\ IngestOK'
    BY <1>1, <1>2, <1>3, <2>1, <2>2, <2>5 DEF ChunksOK, IngestOK, Ingesting, AfterIngest, p
  <2>7. WalkOK'
    <3> SUFFICES ASSUME work.calm, ~ work.reindex PROVE WalkOK'
      BY <2>1 DEF WalkOK, Walks
    <3>1. work.seen \subseteq Paths /\ \A q \in work.seen : Eligible(disk[q]) /\ (q # p => Settled(q))
      BY <1>1, <1>2, <1>3 DEF WalkOK, Walks, OnHand, p, WorkRecords
    <3>2. rows[p].hash = disk[p] /\ rows[p].status = "active"
      BY <1>1, <1>2 DEF WalkOK, Walks, p
    <3>3. \A q \in work.seen : Settled(q)'
      BY <1>1, <1>3, <2>1, <2>2, <3>1, <3>2 DEF Settled
    <3> QED BY <1>1, <1>2, <2>1, <3>1, <3>3 DEF WalkOK, Walks, OnHand, AfterIngest
  <2> QED BY <2>3, <2>4, <2>6, <2>7 DEF IndexInv
<1>6. embeds \in BOOLEAN
  BY <1>2 DEF IndexTypes
<1> QED BY <1>4, <1>5, <1>6 DEF Replace, Serve

LEMMA MarkErrorKeepsIndex == ASSUME IndexInv, MarkError PROVE IndexInv'
<1> DEFINE p == work.path
           next == IF work.reindex THEN "reindexed" ELSE "walk"
<1>1. /\ work.at = "error" /\ UNCHANGED <<disk, embeds, left, chunks, doubt>>
      /\ Marked(p, "error") /\ work' = [work EXCEPT !.at = next]
  BY DEF MarkError, Working, Serve
<1>2. IndexTypes /\ RequestOK /\ ChunksOK /\ WalkOK
  BY DEF IndexInv
<1>3. p \in Paths /\ rows[p] # Absent /\ work \in WorkRecords
  BY <1>1, <1>2 DEF RequestOK, Ingesting, IndexTypes
<1>4. /\ rows' \in [Paths -> {Absent} \cup FileRows]
      /\ rows'[p] # Absent /\ rows'[p].hash = rows[p].hash /\ rows'[p].status = "error"
      /\ \A q \in Paths \ {p} : rows'[q] = rows[q]
  BY <1>1, <1>2, <1>3, RowsMove
<1>5. /\ work' \in WorkRecords /\ work'.at = next /\ work'.path = p
      /\ work'.todo = work.todo /\ work'.seen = work.seen
      /\ work'.listed = work.listed /\ work'.reindex = work.reindex /\ work'.calm = work.calm
  BY <1>1, <1>3 DEF WorkRecords
<1>6. IndexTypes'
  BY <1>1, <1>2, <1>4, <1>5 DEF IndexTypes
<1>7. RequestOK' /\ ChunksOK' /\ IngestOK' /\ MarkOK'
  BY <1>1, <1>2, <1>3, <1>4, <1>5 DEF RequestOK, ChunksOK, IngestOK, MarkOK, Ingesting
<1>8. WalkOK'
  <2> SUFFICES ASSUME work.calm, ~ work.reindex PROVE WalkOK'
    BY <1>5 DEF WalkOK, Walks
  <2> HIDE DEF p
  <2>1. work.seen \subseteq Paths /\ \A q \in work.seen : Eligible(disk[q]) /\ (q # p => Settled(q))
    BY <1>1, <1>2, <1>3 DEF WalkOK, Walks, OnHand, p, WorkRecords
  <2>2. /\ rows[p].hash = disk[p] /\ p \in work.seen
        /\ disk[p] \in Unparsable \/ chunks[p].vectors
    BY <1>1, <1>2 DEF WalkOK, Walks, p
  <2>3. \A q \in work.seen : Settled(q)'
    BY <1>1, <1>4, <1>5, <2>1, <2>2 DEF Settled
  <2> QED BY <1>1, <1>2, <1>4, <1>5, <2>1, <2>2, <2>3 DEF WalkOK, Walks, OnHand
<1> QED BY <1>6, <1>7, <1>8 DEF IndexInv

LEMMA BeginReindexKeepsIndex == ASSUME IndexInv, BeginReindex PROVE IndexInv'
<1>1. /\ work.at = "idle" /\ UNCHANGED <<disk, embeds, rows, chunks>>
      /\ left.requests > 0 /\ left' = [left EXCEPT !.requests = @ - 1]
  BY DEF BeginReindex, Requested, Tables
<1>2. PICK p \in Paths : /\ rows[p] # Absent /\ disk[p] # Absent /\ doubt' = doubt \ {p}
                        /\ work' = [NoWork EXCEPT !.at = "read", !.path = p, !.reindex = TRUE]
  BY DEF BeginReindex, Serve
<1>3. IndexTypes /\ RequestOK /\ ChunksOK
  BY DEF IndexInv
<1>4. /\ work' \in WorkRecords /\ work'.at = "read" /\ work'.listed = NoWork.listed
      /\ work'.path = p /\ work'.reindex
  BY <1>2 DEF WorkRecords, NoWork
<1>5. left' \in [requests : Nat, edits : Nat, stops : Nat]
  BY <1>1, <1>3 DEF IndexTypes
<1>6. IndexTypes'
  BY <1>1, <1>2, <1>3, <1>4, <1>5 DEF IndexTypes
<1>7. RequestOK' /\ ChunksOK' /\ IngestOK' /\ WalkOK' /\ MarkOK'
  BY <1>1, <1>2, <1>3, <1>4, NoWorkFacts
     DEF RequestOK, ChunksOK, IngestOK, WalkOK, MarkOK, Ingesting, Walks
<1> QED BY <1>6, <1>7 DEF IndexInv

LEMMA StampKeepsIndex == ASSUME IndexInv, Stamp PROVE IndexInv'
<1> DEFINE p == work.path
<1>1. work.at = "stamp" /\ UNCHANGED <<disk, embeds, left, chunks, doubt>>
  BY DEF Stamp, Working
<1>2. IndexTypes /\ RequestOK /\ ChunksOK /\ IngestOK
  BY DEF IndexInv
<1>3. p \in Paths /\ rows[p] # Absent /\ work \in WorkRecords /\ work.reindex
      /\ disk[p] \in Texts \cup {Absent}
  BY <1>1, <1>2 DEF RequestOK, Ingesting, IndexTypes
<1>4. PICK stage \in {"error", "reindexed"} :
         /\ work' = [work EXCEPT !.at = stage]
         /\ stage = "error" => UNCHANGED rows
         /\ stage = "reindexed" => disk[p] # Absent /\ Set(p, disk[p], "active")
  BY DEF Stamp, Serve
<1>5. /\ work' \in WorkRecords /\ work'.at = stage /\ work'.path = p
      /\ work'.todo = work.todo /\ work'.seen = work.seen
      /\ work'.listed = work.listed /\ work'.reindex = work.reindex /\ work'.calm = work.calm
  BY <1>3, <1>4 DEF WorkRecords
<1>6. /\ rows' \in [Paths -> {Absent} \cup FileRows] /\ rows'[p] # Absent
      /\ stage = "reindexed" => rows'[p].hash = disk[p]
      /\ \A q \in Paths \ {p} : rows'[q] = rows[q]
  <2>1. CASE stage = "error"
    BY <1>2, <1>3, <1>4, <2>1 DEF IndexTypes
  <2>2. CASE stage = "reindexed"
    BY <1>2, <1>3, <1>4, <2>2, RowsMove
  <2> QED BY <2>1, <2>2
<1>7. IndexTypes'
  BY <1>1, <1>2, <1>5, <1>6 DEF IndexTypes
<1>8. RequestOK' /\ IngestOK' /\ WalkOK' /\ MarkOK'
  BY <1>1, <1>2, <1>3, <1>5, <1>6 DEF RequestOK, IngestOK, WalkOK, MarkOK, Ingesting, Walks
<1>9. ChunksOK'
  BY <1>1, <1>2, <1>3, <1>5, <1>6 DEF ChunksOK, IngestOK, Ingesting
<1> QED BY <1>7, <1>8, <1>9 DEF IndexInv

LEMMA RemoveFileKeepsIndex == ASSUME IndexInv, RemoveFile PROVE IndexInv'
<1>1. /\ work.at = "idle" /\ UNCHANGED <<disk, embeds, work>>
      /\ left.requests > 0 /\ left' = [left EXCEPT !.requests = @ - 1]
  BY DEF RemoveFile, Requested
<1>2. PICK p \in Paths : /\ rows' = [rows EXCEPT ![p] = Absent]
                        /\ chunks' = [chunks EXCEPT ![p] = NoChunks] /\ doubt' = doubt \ {p}
  BY DEF RemoveFile
<1>3. IndexTypes /\ RequestOK /\ ChunksOK
  BY DEF IndexInv
<1>4. left' \in [requests : Nat, edits : Nat, stops : Nat]
  BY <1>1, <1>3 DEF IndexTypes
<1>5. /\ rows' \in [Paths -> {Absent} \cup FileRows] /\ rows'[p] = Absent
      /\ \A q \in Paths \ {p} : rows'[q] = rows[q] /\ chunks'[q] = chunks[q]
      /\ chunks' \in [Paths -> [text : Texts \cup {Absent}, vectors : BOOLEAN]]
  BY <1>2, <1>3 DEF IndexTypes, NoChunks
<1>6. IndexTypes'
  BY <1>1, <1>2, <1>3, <1>4, <1>5 DEF IndexTypes
<1>7. ChunksOK'
  BY <1>1, <1>2, <1>3, <1>5 DEF ChunksOK, Ingesting
<1>8. work'.at = "idle" /\ \A q \in Paths : work'.listed[q] = Absent
  BY <1>1, <1>3 DEF RequestOK
<1> QED BY <1>6, <1>7, <1>8, NothingInHand DEF IndexInv

LEMMA EditFileKeepsIndex == ASSUME IndexInv, EditFile PROVE IndexInv'
<1>1. /\ left.edits > 0 /\ left' = [left EXCEPT !.edits = @ - 1]
      /\ work' = [work EXCEPT !.calm = FALSE] /\ UNCHANGED <<embeds, rows, chunks>>
  BY DEF EditFile, Tables
<1>2. PICK p \in Paths, text \in Texts \cup {Absent} :
         disk' = [disk EXCEPT ![p] = text] /\ doubt' = doubt \cup ({p} \cap InHand)
  BY DEF EditFile
<1>3. IndexTypes /\ RequestOK /\ ChunksOK /\ IngestOK
  BY DEF IndexInv
<1>4. left' \in [requests : Nat, edits : Nat, stops : Nat]
  BY <1>1, <1>3 DEF IndexTypes
<1>5. /\ work' \in WorkRecords /\ work'.at = work.at /\ work'.path = work.path
      /\ work'.todo = work.todo /\ work'.seen = work.seen /\ work'.text = work.text
      /\ work'.listed = work.listed /\ work'.reindex = work.reindex /\ ~ work'.calm
  BY <1>1, <1>3 DEF IndexTypes, WorkRecords
<1>6. /\ disk' \in [Paths -> Texts \cup {Absent}] /\ doubt' \in SUBSET Paths
      /\ \A q \in Paths \ {p} : disk'[q] = disk[q]
  BY <1>2, <1>3 DEF IndexTypes
<1>7. IndexTypes'
  BY <1>1, <1>3, <1>4, <1>5, <1>6 DEF IndexTypes
<1>8. RequestOK' /\ ChunksOK' /\ WalkOK' /\ MarkOK'
  BY <1>1, <1>2, <1>3, <1>5 DEF RequestOK, ChunksOK, WalkOK, MarkOK, Ingesting, Unseen
<1>9. IngestOK'
  <2> SUFFICES ASSUME Ingesting, work.path \notin doubt' PROVE IngestOK'
    BY <1>5 DEF IngestOK, Ingesting
  <2>1. work.path \in Paths /\ work.path # p /\ work.path \notin doubt
    BY <1>2, <1>3 DEF RequestOK, Ingesting, InHand
  <2> QED BY <1>1, <1>3, <1>5, <1>6, <2>1 DEF IngestOK
<1> QED BY <1>7, <1>8, <1>9 DEF IndexInv

\* Nothing happens to the index.
LEMMA IndexStutters == IndexInv /\ UNCHANGED indexVars => IndexInv'
<1> SUFFICES ASSUME IndexInv, UNCHANGED indexVars PROVE IndexInv'
  OBVIOUS
<1>1. UNCHANGED <<disk, embeds, rows, chunks, work, left, doubt>>
  BY DEF indexVars
<1>2. IndexTypes' /\ RequestOK' /\ ChunksOK' /\ IngestOK'
  BY <1>1 DEF IndexInv, IndexTypes, RequestOK, ChunksOK, IngestOK, Ingesting, Unseen
<1>3. WalkOK' /\ MarkOK'
  BY <1>1 DEF IndexInv, WalkOK, MarkOK, Walks, OnHand, Settled
<1> QED BY <1>2, <1>3 DEF IndexInv

(* Where a request to the index is, what it has in hand, and what a scan has made of    *)
(* each file so far.  (workspace/registry.py: scan_root; ingestion.py: _ingest_file;    *)
(* console: reindex and remove.)                                                        *)
THEOREM IndexInvariance == IndexSpec => []IndexInv
<1>1. IndexInv /\ [IndexStep]_indexVars => IndexInv'
  BY BeginScanKeepsIndex, VisitKeepsIndex, HashKeepsIndex, EndWalkKeepsIndex,
     MarkDeletedKeepsIndex, EndScanKeepsIndex, ReplyKeepsIndex, ExtractKeepsIndex,
     ReplaceKeepsIndex, MarkErrorKeepsIndex, BeginReindexKeepsIndex, StampKeepsIndex,
     RemoveFileKeepsIndex, EditFileKeepsIndex, StopIndexingKeepsIndex, IndexStutters
     DEF IndexStep
<1> QED BY IndexInitially, <1>1, PTL DEF IndexSpec

(* The index tells the truth about any files, through edits and stops at any step: an   *)
(* active file nobody edited while it was indexed has the chunks of the text its row    *)
(* has the hash of, and a scan during which nothing was edited has settled every file.  *)
THEOREM IndexHolds == IndexSpec => []IndexTellsTruth
<1>1. IndexInv => IndexTellsTruth
  <2> SUFFICES ASSUME IndexInv PROVE HashIsOfChunks /\ ScanSettles
    BY DEF IndexTellsTruth
  <2>1. HashIsOfChunks
    BY DEF IndexInv, ChunksOK, HashIsOfChunks, InHand, Ingesting
  <2>2. ScanSettles
    BY DEF IndexInv, MarkOK, ScanSettles, Settled
  <2> QED BY <2>1, <2>2
<1> QED BY IndexInvariance, <1>1, PTL

-----------------------------------------------------------------------------
(* Secrets                                                                 *)

SecretSpec == SecretsInit /\ [][SecretStep]_secretVars

SecretRows == {None} \cup [value : Values, under : Nat \cup {None}]

InCall(c) == c.at \in {"get", "set", "write", "delete", "rotate", "told"}

Answers == Values \cup {None, "none", "done", "raised", "false"}

CallRecords ==
    [at : {"idle", "generate", "fill", "get", "set", "write", "delete", "rotate", "told"},
     for : {"none", "get", "set", "delete", "rotate"}, name : Names \cup {None},
     value : Values \cup {None}, before : SecretRows, found : BOOLEAN,
     told : Answers, alone : BOOLEAN]

SecretTypes ==
    /\ backend \in {"env", "local", "encrypted", "keychain"}
    /\ keyFile \in {None, Part} \cup Nat
    /\ stored \in [Holders \cup {"shared"} -> [Names -> SecretRows]]
    /\ provider \in [Holders -> {None} \cup Nat]
    /\ call \in [Holders -> CallRecords]
    /\ calls \in Nat /\ keys \in Nat /\ clashed \in BOOLEAN

\* What a process is at, with its provider.
StageOK(c, key) ==
    /\ InCall(c) => key # None /\ c.name \in Names /\ c.value \in Values
    /\ ~ InCall(c) => c.name = None
    /\ c.at \in {"generate", "fill"} => key = None /\ backend = "encrypted"
    /\ c.at \in {"get", "delete", "rotate"} => c.for = c.at
    /\ c.at = "set" => c.for = "set" \/ (c.for = "rotate" /\ ~ InTable)
    /\ c.at = "write" => c.for = "set" /\ InTable

\* No one has the key while the file is missing or being written; one writes it at a time.
OneKey ==
    backend = "encrypted" /\ ~ clashed =>
        /\ keyFile \in {None, Part} =>
              /\ \A p \in Holders : provider[p] = None
              /\ \A name \in Names : stored["shared"][name] = None
        /\ \A p \in Holders : call[p].at = "fill" => keyFile = Part
        /\ \A p, q \in Holders : call[p].at = "fill" /\ call[q].at = "fill" => p = q
        /\ \A p \in Holders : provider[p] \in {None, keyFile}
        /\ \A name \in Names :
              stored["shared"][name] # None => stored["shared"][name].under = keyFile

NoKey ==
    backend # "encrypted" =>
        /\ \A p \in Holders : provider[p] \in {None, Plain}
        /\ \A place \in Holders \cup {"shared"}, name \in Names :
              stored[place][name] # None => stored[place][name].under = Plain

\* The calls that nobody disturbs: what they have done to their row so far.
Lost(c, row) == backend = "keychain" /\ c.for = "rotate" /\ row = None

Told(c, told, row, key) ==
    /\ told = "done" => row = IF c.for = "delete" THEN None ELSE [value |-> c.value, under |-> key]
    /\ told # "done" => row = c.before \/ Lost(c, row)
    /\ c.for = "get" =>
          \/ told = IF row = None THEN "none" ELSE row.value
          \/ told = "raised" /\ clashed
          \/ told = "none" /\ backend = "keychain"

Fits(c, row, key) ==
    /\ c.at \in {"get", "delete", "rotate", "write"} => row = c.before
    /\ c.at = "write" => (c.found <=> row # None)
    /\ c.at = "set" => row = c.before \/ Lost(c, row)
    /\ c.at = "told" => Told(c, c.told, row, key)

Undisturbed(p) ==
    InCall(call[p]) /\ call[p].alone =>
        /\ \A q \in Holders \ {p} : Place(q) = Place(p) => call[q].name # call[p].name
        /\ Fits(call[p], Row(p, call[p].name), provider[p])

SecretInv ==
    /\ SecretTypes
    /\ \A p \in Holders : StageOK(call[p], provider[p])
    /\ OneKey
    /\ NoKey
    /\ \A p \in Holders : Undisturbed(p)

-----------------------------------------------------------------------------

LEMMA SecretNames ==
    /\ None \notin Values /\ None \notin Names /\ None \notin Nat /\ Part \notin Nat /\ Part # None
    /\ "shared" \notin Holders /\ "done" \notin Values /\ SecretCalls \subseteq Nat
    /\ Backends \subseteq {"env", "local", "encrypted", "keychain"}
BY SecretsAssumption

LEMMA NoCallFacts ==
    /\ NoCall \in CallRecords /\ NoCall.at = "idle" /\ NoCall.name = None /\ ~ InCall(NoCall)
    /\ \A s \in {"generate", "fill"} :
          /\ [NoCall EXCEPT !.at = s] \in CallRecords /\ [NoCall EXCEPT !.at = s].at = s
          /\ [NoCall EXCEPT !.at = s].name = None /\ ~ InCall([NoCall EXCEPT !.at = s])
BY DEF NoCall, CallRecords, InCall, SecretRows, Answers

LEMMA SecretsInitially == SecretsInit => SecretInv
<1> SUFFICES ASSUME SecretsInit PROVE SecretInv
  OBVIOUS
<1>1. /\ backend \in {"env", "local", "encrypted", "keychain"} /\ keyFile = None
      /\ stored = [place \in Holders \cup {"shared"} |-> [name \in Names |-> None]]
      /\ provider = [p \in Holders |-> None] /\ call = [p \in Holders |-> NoCall]
      /\ calls \in Nat /\ keys = 0 /\ clashed = FALSE
  BY SecretNames DEF SecretsInit
<1>2. SecretTypes
  <2>1. [name \in Names |-> None] \in [Names -> SecretRows]
    BY DEF SecretRows
  <2>2. call \in [Holders -> CallRecords]
    BY <1>1, NoCallFacts
  <2> QED BY <1>1, <2>1, <2>2 DEF SecretTypes
<1>3. \A p \in Holders : StageOK(call[p], provider[p])
  BY <1>1, NoCallFacts DEF StageOK
<1>4. OneKey /\ NoKey
  BY <1>1, NoCallFacts DEF OneKey, NoKey
<1>5. \A p \in Holders : Undisturbed(p)
  BY <1>1, NoCallFacts DEF Undisturbed
<1> QED BY <1>2, <1>3, <1>4, <1>5 DEF SecretInv

\* What a step of a call may do: to the process's own call, and to its own row.
LEMMA CallStep ==
    ASSUME SecretInv, NEW p \in Holders, NEW k \in CallRecords,
           InCall(call[p]), Does(p, k), UNCHANGED Rest, StageOK(k, provider[p]),
           \/ UNCHANGED stored
           \/ Write(p, call[p].name, None)
           \/ Write(p, call[p].name, Sealed(p)),
           \/ k = NoCall
           \/ /\ InCall(k) /\ k.name = call[p].name /\ k.alone = call[p].alone
              /\ k.alone => Fits(k, stored'[Place(p)][k.name], provider[p])
    PROVE  SecretInv'
<1> DEFINE n == call[p].name
<1>0. /\ backend' = backend /\ keyFile' = keyFile /\ provider' = provider /\ calls' = calls
      /\ keys' = keys /\ clashed' = clashed
  BY DEF Rest, Key
<1>1. SecretTypes /\ (\A q \in Holders : StageOK(call[q], provider[q])) /\ OneKey /\ NoKey
      /\ \A q \in Holders : Undisturbed(q)
  BY DEF SecretInv
<1>2. /\ call'[p] = k /\ \A q \in Holders \ {p} : call'[q] = call[q]
      /\ call' \in [Holders -> CallRecords]
  <2> HIDE DEF n
  <2>1. call \in [Holders -> CallRecords]
    BY <1>1 DEF SecretTypes
  <2> QED BY <2>1 DEF Does
<1>3. /\ n \in Names /\ call[p].value \in Values /\ provider[p] # None
      /\ provider[p] \in Nat
  BY <1>1 DEF StageOK, SecretTypes
<1>4. Place(p) \in Holders \cup {"shared"} /\ \A q \in Holders : Place(q)' = Place(q)
  BY <1>0 DEF Place
<1>5. Sealed(p) \in SecretRows /\ None \in SecretRows /\ Sealed(p).under = provider[p]
  BY <1>3 DEF Sealed, SecretRows
<1> DEFINE place == Place(p)
<1>6. /\ stored' \in [Holders \cup {"shared"} -> [Names -> SecretRows]]
      /\ \A pl \in Holders \cup {"shared"}, name \in Names :
            \/ stored'[pl][name] = stored[pl][name]
            \/ pl = place /\ name = n /\ stored'[pl][name] \in {None, Sealed(p)}
  <2>1. stored \in [Holders \cup {"shared"} -> [Names -> SecretRows]]
    BY <1>1 DEF SecretTypes
  <2>2. CASE UNCHANGED stored
    BY <2>1, <2>2
  <2>3. ASSUME NEW row \in SecretRows, row \in {None, Sealed(p)}, Write(p, n, row)
        PROVE  <1>6!1 /\ <1>6!2
    <3>1. stored' = [stored EXCEPT ![place][n] = row]
      BY <2>3 DEF Write
    <3>2. place \in Holders \cup {"shared"} /\ n \in Names
      BY <1>3, <1>4
    <3> HIDE DEF n, place, SecretRows
    <3>3. stored' \in [Holders \cup {"shared"} -> [Names -> SecretRows]]
      BY <2>1, <2>3, <3>1, <3>2
    <3>4. ASSUME NEW pl \in Holders \cup {"shared"}, NEW name \in Names
          PROVE  \/ stored'[pl][name] = stored[pl][name]
                 \/ pl = place /\ name = n /\ stored'[pl][name] = row
      BY <2>1, <3>1, <3>2
    <3> QED BY <2>3, <3>3, <3>4
  <2> QED BY <2>2, <2>3, <1>5
<1>7. SecretTypes'
  BY <1>0, <1>1, <1>2, <1>6 DEF SecretTypes
<1>8. (\A q \in Holders : StageOK(call[q], provider[q]))'
  BY <1>0, <1>1, <1>2 DEF StageOK, InTable
<1>9. OneKey'
  <2> SUFFICES ASSUME backend = "encrypted", ~ clashed PROVE OneKey'
    BY <1>0 DEF OneKey
  <2>1. keyFile \notin {None, Part} /\ keyFile = provider[p]
    BY <1>1, <1>3 DEF OneKey
  <2>2. k.at # "fill" /\ call[p].at # "fill"
    BY <1>3, NoCallFacts DEF InCall
  <2>3. \A q \in Holders : call'[q].at = "fill" => call[q].at = "fill"
    BY <1>2, <2>2
  <2>4. ASSUME NEW name \in Names, stored'["shared"][name] # None
        PROVE  stored'["shared"][name].under = keyFile
    <3>1. \/ stored'["shared"][name] = stored["shared"][name]
          \/ stored'["shared"][name] = Sealed(p)
      BY <1>6, <2>4
    <3>2. stored["shared"][name] # None => stored["shared"][name].under = keyFile
      BY <1>1 DEF OneKey
    <3> QED BY <1>5, <2>1, <2>4, <3>1, <3>2
  <2> QED BY <1>0, <1>1, <2>1, <2>3, <2>4 DEF OneKey
<1>10. NoKey'
  <2> SUFFICES ASSUME backend # "encrypted" PROVE NoKey'
    BY <1>0 DEF NoKey
  <2>1. provider[p] = Plain
    BY <1>1, <1>3 DEF NoKey
  <2>2. ASSUME NEW pl \in Holders \cup {"shared"}, NEW name \in Names, stored'[pl][name] # None
        PROVE  stored'[pl][name].under = Plain
    <3>1. stored'[pl][name] = stored[pl][name] \/ stored'[pl][name] = Sealed(p)
      BY <1>6, <2>2
    <3>2. stored[pl][name] # None => stored[pl][name].under = Plain
      BY <1>1 DEF NoKey
    <3> QED BY <1>5, <2>1, <2>2, <3>1, <3>2
  <2> QED BY <1>0, <1>1, <2>2 DEF NoKey
<1>11. ASSUME NEW q \in Holders PROVE Undisturbed(q)'
  <2> SUFFICES ASSUME InCall(call'[q]), call'[q].alone
               PROVE  /\ \A r \in Holders \ {q} : Place(r) = Place(q) => call'[r].name # call'[q].name
                      /\ Fits(call'[q], stored'[Place(q)][call'[q].name], provider[q])
    BY <1>0, <1>4 DEF Undisturbed, Fits, Told, Lost, Row
  <2>0. call'[p].name \in {n, None} /\ \A r \in Holders \ {p} : call'[r].name = call[r].name
    BY <1>2, NoCallFacts
  <2>1. CASE q = p
    <3>1. k.name = n /\ k.alone = call[p].alone /\ Fits(k, stored'[Place(p)][k.name], provider[p])
      BY <1>2, <2>1, NoCallFacts
    <3>2. \A r \in Holders \ {p} : Place(r) = Place(p) => call[r].name # n
      BY <1>1, <1>2, <2>1, <3>1 DEF Undisturbed
    <3> QED BY <1>2, <2>0, <2>1, <3>1, <3>2
  <2>2. CASE q # p
    <3>1. /\ call'[q] = call[q] /\ call[q].name \in Names
          /\ \A r \in Holders \ {q} : Place(r) = Place(q) => call[r].name # call[q].name
          /\ Fits(call[q], stored[Place(q)][call[q].name], provider[q])
      BY <1>1, <1>2, <2>2 DEF Undisturbed, StageOK, Row
    <3>2. stored'[Place(q)][call[q].name] = stored[Place(q)][call[q].name]
      BY <1>6, <2>2, <3>1 DEF Place
    <3> QED BY <2>0, <3>1, <3>2, SecretNames
  <2> QED BY <2>1, <2>2
<1> QED BY <1>7, <1>8, <1>9, <1>10, <1>11 DEF SecretInv

\* An answer given ends the work of a call.
LEMMA TellStep ==
    ASSUME SecretInv, NEW p \in Holders, InCall(call[p]), NEW told \in Answers, Tells(p, told),
           UNCHANGED Rest,
           \/ UNCHANGED stored
           \/ Write(p, call[p].name, None)
           \/ Write(p, call[p].name, Sealed(p)),
           call[p].alone => Told(call[p], told, stored'[Place(p)][call[p].name], provider[p])
    PROVE  SecretInv'
<1> DEFINE k == [call[p] EXCEPT !.at = "told", !.told = told]
<1>1. call[p] \in CallRecords /\ StageOK(call[p], provider[p])
  BY DEF SecretInv, SecretTypes
<1>2. k \in CallRecords /\ k.at = "told" /\ k.told = told
  BY <1>1 DEF CallRecords
<1>3. /\ k.name = call[p].name /\ k.value = call[p].value /\ k.for = call[p].for
      /\ k.before = call[p].before /\ k.alone = call[p].alone
  BY <1>1 DEF CallRecords
<1>4. Does(p, k)
  BY DEF Tells
<1> HIDE DEF k
<1>5. InCall(k) /\ StageOK(k, provider[p])
  BY <1>1, <1>2, <1>3 DEF StageOK, InCall
<1>6. k.alone => Fits(k, stored'[Place(p)][k.name], provider[p])
  BY <1>2, <1>3 DEF Fits, Told, Lost
<1> QED BY <1>2, <1>3, <1>4, <1>5, <1>6, CallStep

\* What a write leaves in the row of the call.
LEMMA RowAfter ==
    ASSUME SecretInv, NEW p \in Holders, InCall(call[p])
    PROVE  /\ UNCHANGED stored => stored'[Place(p)][call[p].name] = Row(p, call[p].name)
           /\ \A row : Write(p, call[p].name, row) => stored'[Place(p)][call[p].name] = row
           /\ Row(p, call[p].name) \in SecretRows
           /\ call[p].alone => Fits(call[p], Row(p, call[p].name), provider[p])
           /\ StageOK(call[p], provider[p]) /\ call[p] \in CallRecords
<1> DEFINE n == call[p].name
           s == stored
<1>1. /\ s \in [Holders \cup {"shared"} -> [Names -> SecretRows]] /\ n \in Names
      /\ StageOK(call[p], provider[p]) /\ call[p] \in CallRecords /\ Undisturbed(p)
  BY DEF SecretInv, SecretTypes, StageOK
<1>2. Place(p) \in Holders \cup {"shared"}
  BY DEF Place
<1>3. ASSUME NEW row, Write(p, n, row) PROVE stored'[Place(p)][n] = row
  <2>1. stored' = [s EXCEPT ![Place(p)][n] = row]
    BY <1>3 DEF Write
  <2> HIDE DEF n, s
  <2> QED BY <1>1, <1>2, <2>1
<1>4. Row(p, n) \in SecretRows
  BY <1>1, <1>2 DEF Row
<1> QED BY <1>1, <1>3, <1>4 DEF Undisturbed, Row

\* What one key encrypted another is asked for only after a clash.
LEMMA SameKey ==
    ASSUME SecretInv, NEW p \in Holders, InCall(call[p]), Row(p, call[p].name) # None,
           Row(p, call[p].name).under # provider[p]
    PROVE  clashed
<1>1. /\ call[p].name \in Names /\ provider[p] # None /\ OneKey /\ NoKey
      /\ clashed \in BOOLEAN
  BY DEF SecretInv, SecretTypes, StageOK
<1>2. CASE backend = "encrypted"
  BY <1>1, <1>2 DEF OneKey, Row, Place
<1>3. CASE backend # "encrypted"
  BY <1>1, <1>3 DEF NoKey, Row, Place
<1> QED BY <1>2, <1>3

LEMMA GetKeepsSecrets == ASSUME SecretInv, NEW p \in Holders, Get(p) PROVE SecretInv'
<1> DEFINE row == Row(p, call[p].name)
<1>1. /\ InCall(call[p]) /\ call[p].at = "get" /\ call[p].for = "get"
      /\ UNCHANGED Rest /\ UNCHANGED stored
  BY DEF Get, Calling, InCall, SecretInv, StageOK
<1>2. /\ row \in SecretRows /\ stored'[Place(p)][call[p].name] = row
      /\ call[p].alone => row = call[p].before
  BY <1>1, RowAfter DEF Fits
<1>3. CASE Tells(p, "none") /\ backend = "keychain"
  <2>1. Told(call[p], "none", row, provider[p])  \/ ~ call[p].alone
    BY <1>1, <1>2, <1>3 DEF Told
  <2> HIDE DEF row
  <2> QED BY <1>1, <1>2, <1>3, <2>1, TellStep DEF Answers
<1>4. CASE row = None /\ Tells(p, "none")
  <2>1. Told(call[p], "none", row, provider[p]) \/ ~ call[p].alone
    BY <1>1, <1>2, <1>4 DEF Told
  <2> HIDE DEF row
  <2> QED BY <1>1, <1>2, <1>4, <2>1, TellStep DEF Answers
<1>5. CASE row # None /\ row.under = provider[p] /\ Tells(p, row.value)
  <2>1. row.value \in Values /\ row.value # "done"
    BY <1>2, <1>5, SecretNames DEF SecretRows
  <2>2. Told(call[p], row.value, row, provider[p]) \/ ~ call[p].alone
    BY <1>1, <1>2, <1>5, <2>1 DEF Told
  <2> HIDE DEF row
  <2> QED BY <1>1, <1>2, <1>5, <2>1, <2>2, TellStep DEF Answers
<1>6. CASE row # None /\ row.under # provider[p] /\ Tells(p, "raised")
  <2>1. clashed
    BY <1>1, <1>6, SameKey
  <2>2. Told(call[p], "raised", row, provider[p]) \/ ~ call[p].alone
    BY <1>1, <1>2, <1>6, <2>1 DEF Told
  <2> HIDE DEF row
  <2> QED BY <1>1, <1>2, <1>6, <2>2, TellStep DEF Answers
<1> QED BY <1>3, <1>4, <1>5, <1>6 DEF Get

LEMMA SetLooksKeepsSecrets == ASSUME SecretInv, NEW p \in Holders, SetLooks(p) PROVE SecretInv'
<1> DEFINE row == Row(p, call[p].name)
           k == [call[p] EXCEPT !.at = "write", !.found = (row # None)]
<1>1. /\ InCall(call[p]) /\ call[p].at = "set" /\ InTable /\ Does(p, k)
      /\ UNCHANGED Rest /\ UNCHANGED stored
  BY DEF SetLooks, Calling, InCall
<1>2. /\ row \in SecretRows /\ stored'[Place(p)][call[p].name] = row
      /\ call[p].alone => Fits(call[p], row, provider[p])
      /\ StageOK(call[p], provider[p]) /\ call[p] \in CallRecords
  BY <1>1, RowAfter
<1>3. /\ k \in CallRecords /\ k.at = "write" /\ k.found = (row # None)
      /\ k.name = call[p].name /\ k.value = call[p].value /\ k.for = call[p].for
      /\ k.before = call[p].before /\ k.alone = call[p].alone
  BY <1>2 DEF CallRecords
<1> HIDE DEF k, row
<1>4. call[p].for = "set" /\ (call[p].alone => row = call[p].before)
  BY <1>1, <1>2 DEF StageOK, Fits, Lost, InTable
<1>5. InCall(k) /\ StageOK(k, provider[p])
  BY <1>1, <1>2, <1>3, <1>4 DEF StageOK, InCall
<1>6. k.alone => Fits(k, row, provider[p])
  BY <1>3, <1>4 DEF Fits
<1> QED BY <1>1, <1>2, <1>3, <1>5, <1>6, CallStep

LEMMA SetWritesKeepsSecrets == ASSUME SecretInv, NEW p \in Holders, SetWrites(p) PROVE SecretInv'
<1> DEFINE row == Row(p, call[p].name)
           now == stored'[Place(p)][call[p].name]
<1>1. /\ InCall(call[p]) /\ call[p].at = "write" /\ UNCHANGED Rest
  BY DEF SetWrites, Calling, InCall
<1>2. /\ UNCHANGED stored => now = row
      /\ Write(p, call[p].name, Sealed(p)) => now = Sealed(p)
      /\ call[p].for = "set"
      /\ call[p].alone => row = call[p].before /\ (call[p].found <=> row # None)
  BY <1>1, RowAfter DEF StageOK, Fits
<1>3. CASE Write(p, call[p].name, Sealed(p)) /\ Tells(p, "done")
  <2>1. Told(call[p], "done", now, provider[p])
    BY <1>2, <1>3 DEF Told, Sealed
  <2> HIDE DEF now
  <2> QED BY <1>1, <1>3, <2>1, TellStep DEF Answers, now
<1>4. CASE call[p].found /\ row = None /\ UNCHANGED stored /\ Tells(p, "done")
  BY <1>1, <1>2, <1>4, TellStep DEF Answers
<1>5. CASE ~ call[p].found /\ row # None /\ UNCHANGED stored /\ Tells(p, "raised")
  BY <1>1, <1>2, <1>5, TellStep DEF Answers
<1> QED BY <1>3, <1>4, <1>5 DEF SetWrites

LEMMA SetAtOnceKeepsSecrets == ASSUME SecretInv, NEW p \in Holders, SetAtOnce(p) PROVE SecretInv'
<1> DEFINE row == Row(p, call[p].name)
           now == stored'[Place(p)][call[p].name]
           answer == IF call[p].for = "rotate" THEN "false" ELSE "raised"
<1>1. /\ InCall(call[p]) /\ call[p].at = "set" /\ UNCHANGED Rest
  BY DEF SetAtOnce, Calling, InCall
<1>2. /\ UNCHANGED stored => now = row
      /\ Write(p, call[p].name, Sealed(p)) => now = Sealed(p)
      /\ call[p].for \in {"set", "rotate"}
      /\ call[p].alone => row = call[p].before \/ Lost(call[p], row)
  BY <1>1, RowAfter DEF StageOK, Fits
<1>3. CASE Write(p, call[p].name, Sealed(p)) /\ Tells(p, "done")
  <2>1. Told(call[p], "done", now, provider[p])
    BY <1>2, <1>3 DEF Told, Sealed
  <2> HIDE DEF now
  <2> QED BY <1>1, <1>3, <2>1, TellStep DEF Answers, now
<1>4. CASE UNCHANGED stored /\ Tells(p, answer)
  <2>1. answer \in Answers /\ answer # "done"
    BY DEF Answers
  <2>2. Told(call[p], answer, row, provider[p]) \/ ~ call[p].alone
    BY <1>2, <2>1 DEF Told
  <2> HIDE DEF answer, row, now
  <2> QED BY <1>1, <1>2, <1>4, <2>1, <2>2, TellStep DEF now
<1> QED BY <1>3, <1>4 DEF SetAtOnce

LEMMA DeleteKeepsSecrets == ASSUME SecretInv, NEW p \in Holders, Delete(p) PROVE SecretInv'
<1> DEFINE row == Row(p, call[p].name)
           now == stored'[Place(p)][call[p].name]
           answer == IF row = None THEN "false" ELSE "done"
<1>1. /\ InCall(call[p]) /\ call[p].at = "delete" /\ UNCHANGED Rest
  BY DEF Delete, Calling, InCall
<1>2. /\ UNCHANGED stored => now = row
      /\ Write(p, call[p].name, None) => now = None
      /\ call[p].for = "delete"
      /\ call[p].alone => row = call[p].before
  BY <1>1, RowAfter DEF StageOK, Fits
<1>3. CASE Write(p, call[p].name, None) /\ Tells(p, answer)
  <2>1. answer \in Answers
    BY DEF Answers
  <2>2. Told(call[p], answer, now, provider[p]) \/ ~ call[p].alone
    BY <1>2, <1>3 DEF Told
  <2> HIDE DEF answer, row, now
  <2> QED BY <1>1, <1>3, <2>1, <2>2, TellStep DEF now
<1>4. CASE UNCHANGED stored /\ Tells(p, "false")
  <2>1. Told(call[p], "false", row, provider[p]) \/ ~ call[p].alone
    BY <1>2 DEF Told
  <2> HIDE DEF row, now
  <2> QED BY <1>1, <1>2, <1>4, <2>1, TellStep DEF Answers, now
<1> QED BY <1>3, <1>4 DEF Delete

LEMMA RotateKeepsSecrets == ASSUME SecretInv, NEW p \in Holders, Rotate(p) PROVE SecretInv'
<1> DEFINE row == Row(p, call[p].name)
           now == stored'[Place(p)][call[p].name]
           k == [call[p] EXCEPT !.at = "set"]
<1>1. /\ InCall(call[p]) /\ call[p].at = "rotate" /\ UNCHANGED Rest
  BY DEF Rotate, Calling, InCall
<1>2. /\ UNCHANGED stored => now = row
      /\ Write(p, call[p].name, None) => now = None
      /\ Write(p, call[p].name, Sealed(p)) => now = Sealed(p)
      /\ call[p].for = "rotate"
      /\ call[p].alone => row = call[p].before
      /\ StageOK(call[p], provider[p]) /\ call[p] \in CallRecords
  BY <1>1, RowAfter DEF StageOK, Fits
<1>3. /\ k \in CallRecords /\ k.at = "set" /\ k.name = call[p].name /\ k.value = call[p].value
      /\ k.for = "rotate" /\ k.before = call[p].before /\ k.alone = call[p].alone
  BY <1>2 DEF CallRecords
<1>4. CASE InTable /\ row = None /\ Tells(p, "false") /\ UNCHANGED stored
  <2>1. Told(call[p], "false", row, provider[p]) \/ ~ call[p].alone
    BY <1>2 DEF Told
  <2> HIDE DEF row, now, k
  <2> QED BY <1>1, <1>2, <1>4, <2>1, TellStep DEF Answers, now
<1>5. CASE InTable /\ Tells(p, "done") /\ Write(p, call[p].name, Sealed(p))
  <2>1. Told(call[p], "done", now, provider[p])
    BY <1>2, <1>5 DEF Told, Sealed
  <2> HIDE DEF row, now, k
  <2> QED BY <1>1, <1>5, <2>1, TellStep DEF Answers, now
<1>6. CASE /\ ~ InTable /\ Does(p, k)
           /\ UNCHANGED stored \/ (backend = "keychain" /\ Write(p, call[p].name, None))
  <2> HIDE DEF row, now, k
  <2>1. InCall(k) /\ StageOK(k, provider[p])
    BY <1>2, <1>3, <1>6, <1>1 DEF StageOK, InCall
  <2>2. k.alone => Fits(k, now, provider[p])
    BY <1>2, <1>3, <1>6 DEF Fits, Lost
  <2> QED BY <1>1, <1>3, <1>6, <2>1, <2>2, CallStep DEF now
<1>7. \/ InTable /\ row = None /\ Tells(p, "false") /\ UNCHANGED stored
      \/ InTable /\ Tells(p, "done") /\ Write(p, call[p].name, Sealed(p))
      \/ /\ ~ InTable /\ Does(p, k)
         /\ UNCHANGED stored \/ (backend = "keychain" /\ Write(p, call[p].name, None))
  BY DEF Rotate, RotateRow, InTable
<1> QED BY <1>4, <1>5, <1>6, <1>7

LEMMA ReturnKeepsSecrets == ASSUME SecretInv, NEW p \in Holders, Return(p) PROVE SecretInv'
<1>1. /\ InCall(call[p]) /\ Does(p, NoCall) /\ UNCHANGED Rest /\ UNCHANGED stored
  BY DEF Return, Calling, InCall
<1>2. StageOK(NoCall, provider[p])
  BY NoCallFacts DEF StageOK
<1> QED BY <1>1, <1>2, NoCallFacts, CallStep

\* The calls of the others, at a step of a process that is in no call after it.
LEMMA ProcessStep ==
    ASSUME SecretInv, NEW p \in Holders, NEW k \in CallRecords, Does(p, k), ~ InCall(k),
           k.name = None, UNCHANGED <<backend, calls>>, clashed' \in BOOLEAN, clashed => clashed',
           provider' \in [Holders -> {None} \cup Nat],
           \A q \in Holders \ {p} : provider'[q] = provider[q],
           \A q \in Holders \ {p} : stored'[Place(q)] = stored[Place(q)],
           StageOK(k, provider'[p])
    PROVE  /\ (\A q \in Holders : Undisturbed(q))' /\ call' \in [Holders -> CallRecords]
           /\ (\A q \in Holders : StageOK(call[q], provider[q]))'
           /\ call'[p] = k /\ \A q \in Holders \ {p} : call'[q] = call[q]
<1>1. /\ call \in [Holders -> CallRecords] /\ \A q \in Holders : StageOK(call[q], provider[q])
      /\ \A q \in Holders : Undisturbed(q)
  BY DEF SecretInv, SecretTypes
<1>2. /\ call'[p] = k /\ \A q \in Holders \ {p} : call'[q] = call[q]
      /\ call' \in [Holders -> CallRecords]
  BY <1>1 DEF Does
<1>3. (\A q \in Holders : StageOK(call[q], provider[q]))'
  BY <1>1, <1>2 DEF StageOK, InTable
<1>4. ASSUME NEW q \in Holders PROVE Undisturbed(q)'
  <2> SUFFICES ASSUME InCall(call'[q]), call'[q].alone
               PROVE  /\ \A r \in Holders \ {q} : Place(r) = Place(q) => call'[r].name # call'[q].name
                      /\ Fits(call'[q], stored'[Place(q)][call'[q].name], provider'[q])
    BY DEF Undisturbed, Fits, Told, Lost, Row, Place
  <2>1. /\ q # p /\ call'[q] = call[q] /\ call[q].name \in Names
        /\ \A r \in Holders \ {q} : Place(r) = Place(q) => call[r].name # call[q].name
        /\ Fits(call[q], stored[Place(q)][call[q].name], provider[q])
    BY <1>1, <1>2 DEF Undisturbed, StageOK, Row
  <2>2. /\ stored'[Place(q)] = stored[Place(q)] /\ provider'[q] = provider[q]
        /\ \A r \in Holders \ {q} : call'[r].name \in {call[r].name, None}
    BY <1>2, <2>1
  <2> QED BY <2>1, <2>2, SecretNames
<1> QED BY <1>2, <1>3, <1>4

LEMMA IdleProcess ==
    ASSUME SecretInv, NEW p \in Holders, ~ InCall(call[p])
    PROVE  /\ call[p] \in CallRecords /\ call[p].name = None
           /\ UNCHANGED call => Does(p, call[p])
BY DEF SecretInv, SecretTypes, StageOK, Does

LEMMA MakeProviderKeepsSecrets ==
    ASSUME SecretInv, NEW p \in Holders, MakeProvider(p) PROVE SecretInv'
<1>1. /\ call[p].at = "idle" /\ backend # "encrypted" /\ provider' = [provider EXCEPT ![p] = Plain]
      /\ UNCHANGED <<backend, keyFile, stored, call, calls, keys, clashed>>
  BY DEF MakeProvider, Calling, Provide
<1>2. SecretTypes /\ NoKey /\ provider' \in [Holders -> {None} \cup Nat]
      /\ provider'[p] = Plain /\ \A q \in Holders \ {p} : provider'[q] = provider[q]
  BY <1>1 DEF SecretInv, SecretTypes, Plain
<1>3. SecretTypes'
  BY <1>1, <1>2 DEF SecretTypes
<1>4. (\A q \in Holders : StageOK(call[q], provider[q]))' /\ (\A q \in Holders : Undisturbed(q))'
  BY <1>1, <1>2, IdleProcess, ProcessStep DEF InCall, StageOK, SecretTypes
<1>5. OneKey' /\ NoKey'
  BY <1>1, <1>2 DEF OneKey, NoKey
<1> QED BY <1>3, <1>4, <1>5 DEF SecretInv

LEMMA LookForKeyKeepsSecrets ==
    ASSUME SecretInv, NEW p \in Holders, LookForKey(p) PROVE SecretInv'
<1>1. /\ call[p].at = "idle" /\ backend = "encrypted" /\ provider[p] = None
      /\ UNCHANGED <<backend, keyFile, stored, calls, keys, clashed>>
  BY DEF LookForKey, Calling
<1>2. SecretTypes /\ OneKey
  BY DEF SecretInv
<1>3. PICK k \in CallRecords :
                              /\ Does(p, k) /\ ~ InCall(k) /\ k.name = None
                              /\ StageOK(k, provider'[p]) /\ k.at # "fill"
                              /\ provider' \in [Holders -> {None} \cup Nat]
                              /\ \A q \in Holders \ {p} : provider'[q] = provider[q]
                              /\ provider'[p] \in {None, keyFile}
                              /\ provider'[p] # None => keyFile \notin {None, Part}
  <2>1. CASE keyFile \notin {None, Part} /\ Provide(p, keyFile) /\ UNCHANGED call
    BY <1>1, <1>2, <2>1, IdleProcess DEF Provide, SecretTypes, InCall, StageOK
  <2>2. CASE Does(p, [NoCall EXCEPT !.at = "generate"]) /\ UNCHANGED provider
    BY <1>1, <1>2, <2>2, NoCallFacts DEF SecretTypes, StageOK
  <2> QED BY <2>1, <2>2 DEF LookForKey
<1>4. /\ (\A q \in Holders : Undisturbed(q))' /\ call' \in [Holders -> CallRecords]
      /\ (\A q \in Holders : StageOK(call[q], provider[q]))'
      /\ call'[p] = k /\ \A q \in Holders \ {p} : call'[q] = call[q]
  <2>1. clashed' \in BOOLEAN /\ (clashed => clashed')
    BY <1>1, <1>2 DEF SecretTypes
  <2> QED BY <1>1, <1>3, <2>1, ProcessStep
<1>5. SecretTypes'
  BY <1>1, <1>2, <1>3, <1>4 DEF SecretTypes
<1>6. OneKey'
  <2> SUFFICES ASSUME ~ clashed PROVE OneKey'
    BY <1>1 DEF OneKey
  <2>1. \A q \in Holders : call'[q].at = "fill" => call[q].at = "fill"
    BY <1>3, <1>4
  <2>2. \A q \in Holders : provider'[q] \in {None, keyFile}
    BY <1>1, <1>2, <1>3 DEF OneKey
  <2>3. keyFile \in {None, Part} => \A q \in Holders : provider'[q] = None
    BY <1>1, <1>2, <1>3 DEF OneKey
  <2> QED BY <1>1, <1>2, <2>1, <2>2, <2>3 DEF OneKey
<1>7. NoKey'
  BY <1>1 DEF NoKey
<1> QED BY <1>4, <1>5, <1>6, <1>7 DEF SecretInv

LEMMA CreateKeyFileKeepsSecrets ==
    ASSUME SecretInv, NEW p \in Holders, CreateKeyFile(p) PROVE SecretInv'
<1> DEFINE k == [NoCall EXCEPT !.at = "fill"]
<1>1. /\ call[p].at = "generate" /\ keyFile' = Part /\ clashed' = (clashed \/ keyFile # None)
      /\ Does(p, k) /\ UNCHANGED <<backend, stored, provider, calls, keys>>
  BY DEF CreateKeyFile, Calling
<1>2. SecretTypes /\ OneKey /\ StageOK(call[p], provider[p])
  BY DEF SecretInv
<1>3. k \in CallRecords /\ k.at = "fill" /\ k.name = None /\ ~ InCall(k) /\ StageOK(k, provider[p])
  BY <1>1, <1>2, NoCallFacts DEF StageOK
<1> HIDE DEF k
<1>4. /\ (\A q \in Holders : Undisturbed(q))' /\ call' \in [Holders -> CallRecords]
      /\ (\A q \in Holders : StageOK(call[q], provider[q]))'
      /\ \A q \in Holders \ {p} : call'[q] = call[q]
  BY <1>1, <1>2, <1>3, ProcessStep DEF SecretTypes
<1>5. SecretTypes'
  BY <1>1, <1>2, <1>4 DEF SecretTypes
<1>6. OneKey'
  <2> SUFFICES ASSUME backend = "encrypted", ~ clashed, keyFile = None PROVE OneKey'
    BY <1>1 DEF OneKey
  <2>1. \A q \in Holders : call'[q].at = "fill" => q = p
    BY <1>2, <1>4, SecretNames DEF OneKey
  <2> QED BY <1>1, <1>2, <2>1 DEF OneKey
<1>7. NoKey'
  BY <1>1, <1>2 DEF NoKey, StageOK
<1> QED BY <1>4, <1>5, <1>6, <1>7 DEF SecretInv

LEMMA FillKeyFileKeepsSecrets ==
    ASSUME SecretInv, NEW p \in Holders, FillKeyFile(p) PROVE SecretInv'
<1>1. /\ call[p].at = "fill" /\ keys' = keys + 1 /\ keyFile' = keys' /\ Does(p, NoCall)
      /\ provider' = [provider EXCEPT ![p] = keys'] /\ UNCHANGED <<backend, stored, calls, clashed>>
  BY DEF FillKeyFile, Calling, Provide
<1>2. SecretTypes /\ OneKey /\ StageOK(call[p], provider[p])
  BY DEF SecretInv
<1>3. /\ keys' \in Nat /\ provider' \in [Holders -> {None} \cup Nat] /\ provider'[p] = keyFile'
      /\ \A q \in Holders \ {p} : provider'[q] = provider[q]
      /\ StageOK(NoCall, provider'[p])
  BY <1>1, <1>2, NoCallFacts DEF SecretTypes, StageOK
<1>4. /\ (\A q \in Holders : Undisturbed(q))' /\ call' \in [Holders -> CallRecords]
      /\ (\A q \in Holders : StageOK(call[q], provider[q]))'
      /\ call'[p] = NoCall /\ \A q \in Holders \ {p} : call'[q] = call[q]
  BY <1>1, <1>2, <1>3, NoCallFacts, ProcessStep DEF SecretTypes
<1>5. SecretTypes'
  BY <1>1, <1>2, <1>3, <1>4 DEF SecretTypes
<1>6. OneKey'
  <2> SUFFICES ASSUME backend = "encrypted", ~ clashed PROVE OneKey'
    BY <1>1 DEF OneKey
  <2>1. /\ \A q \in Holders : provider[q] = None
        /\ \A name \in Names : stored["shared"][name] = None
        /\ \A q \in Holders : call[q].at = "fill" => q = p
    BY <1>1, <1>2 DEF OneKey
  <2>2. \A q \in Holders : call'[q].at # "fill"
    BY <1>4, <2>1, NoCallFacts
  <2>3. keyFile' \notin {None, Part}
    BY <1>1, <1>3, SecretNames
  <2> QED BY <1>1, <1>3, <2>1, <2>2, <2>3 DEF OneKey
<1>7. NoKey'
  BY <1>1, <1>2 DEF NoKey, StageOK
<1> QED BY <1>4, <1>5, <1>6, <1>7 DEF SecretInv

LEMMA ExitKeepsSecrets == ASSUME SecretInv, NEW p \in Holders, Exit(p) PROVE SecretInv'
<1> DEFINE nothing == [name \in Names |-> None]
<1>1. /\ provider' = [provider EXCEPT ![p] = None] /\ Does(p, NoCall)
      /\ stored' = [stored EXCEPT ![p] = nothing]
      /\ UNCHANGED <<backend, keyFile, calls, keys, clashed>>
  BY DEF Exit, Provide
<1>2. SecretTypes /\ OneKey /\ NoKey /\ "shared" \notin Holders
  BY SecretNames DEF SecretInv
<1>3. /\ provider' \in [Holders -> {None} \cup Nat] /\ provider'[p] = None
      /\ \A q \in Holders \ {p} : provider'[q] = provider[q]
      /\ StageOK(NoCall, provider'[p])
  BY <1>1, <1>2, NoCallFacts DEF SecretTypes, StageOK
<1>4. /\ stored' \in [Holders \cup {"shared"} -> [Names -> SecretRows]]
      /\ stored'[p] = nothing
      /\ \A place \in (Holders \cup {"shared"}) \ {p} : stored'[place] = stored[place]
  <2>1. nothing \in [Names -> SecretRows]
    BY DEF SecretRows
  <2>2. stored \in [Holders \cup {"shared"} -> [Names -> SecretRows]]
    BY <1>2 DEF SecretTypes
  <2> HIDE DEF nothing, SecretRows
  <2> QED BY <1>1, <2>1, <2>2
<1>5. \A q \in Holders \ {p} : stored'[Place(q)] = stored[Place(q)]
  BY <1>2, <1>4 DEF Place
<1>6. /\ (\A q \in Holders : Undisturbed(q))' /\ call' \in [Holders -> CallRecords]
      /\ (\A q \in Holders : StageOK(call[q], provider[q]))'
      /\ call'[p] = NoCall /\ \A q \in Holders \ {p} : call'[q] = call[q]
  BY <1>1, <1>2, <1>3, <1>5, NoCallFacts, ProcessStep DEF SecretTypes
<1>7. SecretTypes'
  BY <1>1, <1>2, <1>3, <1>4, <1>6 DEF SecretTypes
<1>8. OneKey'
  <2> SUFFICES ASSUME backend = "encrypted", ~ clashed PROVE OneKey'
    BY <1>1 DEF OneKey
  <2>1. stored'["shared"] = stored["shared"]
    BY <1>2, <1>4
  <2>2. \A q \in Holders : call'[q].at = "fill" => call[q].at = "fill"
    BY <1>6, NoCallFacts
  <2> QED BY <1>1, <1>2, <1>3, <2>1, <2>2 DEF OneKey
<1>9. NoKey'
  <2> SUFFICES ASSUME backend # "encrypted" PROVE NoKey'
    BY <1>1 DEF NoKey
  <2>1. \A place \in Holders \cup {"shared"}, name \in Names :
           stored'[place][name] \in {None, stored[place][name]}
    BY <1>4
  <2> QED BY <1>1, <1>2, <1>3, <2>1 DEF NoKey
<1> QED BY <1>6, <1>7, <1>8, <1>9 DEF SecretInv

LEMMA BeginKeepsSecrets == ASSUME SecretInv, NEW p \in Holders, Begin(p) PROVE SecretInv'
<1>1. /\ call[p].at = "idle" /\ provider[p] # None /\ calls' = calls - 1 /\ calls' \in Nat
      /\ UNCHANGED <<backend, keyFile, stored, provider, keys, clashed>>
  <2>1. /\ call[p].at = "idle" /\ provider[p] # None /\ calls' = calls - 1 /\ calls > 0
        /\ UNCHANGED <<backend, keyFile, stored, provider, keys, clashed>>
    BY DEF Begin, Calling, Key
  <2>2. calls \in Nat
    BY DEF SecretInv, SecretTypes
  <2> QED BY <2>1, <2>2
<1>2. /\ SecretTypes /\ OneKey /\ NoKey /\ \A q \in Holders : StageOK(call[q], provider[q])
      /\ \A q \in Holders : Undisturbed(q)
  BY DEF SecretInv
<1>3. PICK for \in Changes \cup {"get"}, name \in Names, value \in Values :
         LET others == {q \in Holders \ {p} : Place(q) = Place(p) /\ call[q].name = name}
         IN  /\ for \in {"get", "delete"} => value = CHOOSE v \in Values : TRUE
             /\ call' = [q \in Holders |->
                    IF q = p THEN [NoCall EXCEPT !.at = for, !.for = for, !.name = name,
                        !.value = value, !.before = Row(p, name), !.alone = (others = {})]
                    ELSE [call[q] EXCEPT !.alone = @ /\ q \notin others]]
  BY Zenon DEF Begin
<1> DEFINE others == {q \in Holders \ {p} : Place(q) = Place(p) /\ call[q].name = name}
           k == [NoCall EXCEPT !.at = for, !.for = for, !.name = name,
                     !.value = value, !.before = Row(p, name), !.alone = (others = {})]
           rest(q) == [call[q] EXCEPT !.alone = @ /\ q \notin others]
<1>4. Row(p, name) \in SecretRows
  BY <1>2 DEF SecretTypes, Row, Place
<1>5. /\ k \in CallRecords /\ k.at = for /\ k.for = for /\ k.name = name /\ k.value = value
      /\ k.before = Row(p, name) /\ k.alone = (others = {})
  BY <1>4 DEF NoCall, CallRecords, Changes, Answers
<1>6. ASSUME NEW q \in Holders
      PROVE  /\ rest(q) \in CallRecords /\ rest(q).alone = (call[q].alone /\ q \notin others)
             /\ rest(q).at = call[q].at /\ rest(q).for = call[q].for /\ rest(q).name = call[q].name
             /\ rest(q).value = call[q].value /\ rest(q).before = call[q].before
             /\ rest(q).found = call[q].found /\ rest(q).told = call[q].told
  <2> DEFINE still == call[q].alone /\ q \notin others
  <2>1. rest(q) = [call[q] EXCEPT !.alone = still] /\ call[q] \in CallRecords
    BY <1>2 DEF SecretTypes
  <2>2. still \in BOOLEAN /\ still = (call[q].alone /\ q \notin others)
    OBVIOUS
  <2> HIDE DEF still, rest, others
  <2> QED BY <2>1, <2>2 DEF CallRecords
<1>7. /\ call' \in [Holders -> CallRecords] /\ call'[p] = k
      /\ \A q \in Holders \ {p} : call'[q] = rest(q)
  <2>1. call' = [q \in Holders |-> IF q = p THEN k ELSE rest(q)]
    BY <1>3
  <2> HIDE DEF k, rest
  <2> QED BY <1>5, <1>6, <2>1
<1> HIDE DEF k, rest
<1>8. SecretTypes'
  BY <1>1, <1>2, <1>7 DEF SecretTypes
<1>9. ASSUME NEW q \in Holders PROVE StageOK(call[q], provider[q])'
  <2>1. StageOK(call'[q], provider[q])
    <3>1. CASE q = p
      BY <1>1, <1>5, <1>7, <3>1 DEF StageOK, InCall, Changes
    <3>2. CASE q # p
      BY <1>2, <1>6, <1>7, <3>2 DEF StageOK, InCall
    <3> QED BY <3>1, <3>2
  <2> QED BY <1>1, <2>1 DEF StageOK, InTable
<1>10. OneKey' /\ NoKey'
  <2>1. \A q \in Holders : call'[q].at = "fill" => call[q].at = "fill"
    BY <1>5, <1>6, <1>7 DEF Changes
  <2>2. OneKey'
    <3> SUFFICES ASSUME backend = "encrypted", ~ clashed PROVE OneKey'
      BY <1>1 DEF OneKey
    <3> QED BY <1>1, <1>2, <2>1 DEF OneKey
  <2> QED BY <1>1, <1>2, <2>2 DEF NoKey
<1>11. ASSUME NEW q \in Holders PROVE Undisturbed(q)'
  <2> SUFFICES ASSUME InCall(call'[q]), call'[q].alone
               PROVE  /\ \A r \in Holders \ {q} : Place(r) = Place(q) => call'[r].name # call'[q].name
                      /\ Fits(call'[q], stored[Place(q)][call'[q].name], provider[q])
    BY <1>1 DEF Undisturbed, Fits, Told, Lost, Row, Place
  <2>1. CASE q = p
    <3>0. \A r \in Holders \ {p} : call'[r].name = call[r].name
      BY <1>6, <1>7
    <3>1. others = {}
      <4> HIDE DEF others
      <4> QED BY <1>5, <1>7, <2>1
    <3>2. Fits(k, Row(p, name), provider[p])
      BY <1>5 DEF Fits, Changes
    <3> QED BY <1>5, <1>7, <2>1, <3>0, <3>1, <3>2 DEF Row
  <2>2. CASE q # p
    <3>1. call[q].alone /\ q \notin others /\ InCall(call[q]) /\ call'[q].name = call[q].name
      BY <1>6, <1>7, <2>2 DEF InCall
    <3>2. \A r \in Holders \ {q} : Place(r) = Place(q) => call'[r].name # call[q].name
      BY <1>2, <1>5, <1>6, <1>7, <2>2, <3>1 DEF Undisturbed
    <3>3. Fits(call[q], stored[Place(q)][call[q].name], provider[q])
      BY <1>2, <3>1 DEF Undisturbed, Row
    <3>4. Fits(call'[q], stored[Place(q)][call[q].name], provider[q])
      BY <1>6, <1>7, <2>2, <3>3 DEF Fits, Told, Lost
    <3> QED BY <3>1, <3>2, <3>4
  <2> QED BY <2>1, <2>2
<1> QED BY <1>8, <1>9, <1>10, <1>11 DEF SecretInv

\* A stuttering step is no step of a secret's life.
LEMMA SecretsStutter == SecretInv /\ UNCHANGED secretVars => SecretInv'
<1> SUFFICES ASSUME SecretInv, UNCHANGED secretVars PROVE SecretInv'
  OBVIOUS
<1>1. UNCHANGED <<backend, keyFile, stored, provider, call, calls, keys, clashed>>
  BY DEF secretVars
<1>2. SecretTypes' /\ OneKey' /\ NoKey'
  BY <1>1 DEF SecretInv, SecretTypes, OneKey, NoKey
<1>3. ASSUME NEW q \in Holders PROVE StageOK(call[q], provider[q])' /\ Undisturbed(q)'
  BY <1>1 DEF SecretInv, StageOK, InTable, Undisturbed, Fits, Told, Lost, Row, Place
<1> QED BY <1>2, <1>3 DEF SecretInv

(* Who has the key, what the rows are encrypted with, and what every call has done to   *)
(* its secret so far.  (security/secrets.py: the four providers and the key file.)      *)
THEOREM SecretsInvariance == SecretSpec => []SecretInv
<1>1. SecretInv /\ [SecretStep]_secretVars => SecretInv'
  BY MakeProviderKeepsSecrets, LookForKeyKeepsSecrets, CreateKeyFileKeepsSecrets,
     FillKeyFileKeepsSecrets, BeginKeepsSecrets, GetKeepsSecrets, SetLooksKeepsSecrets,
     SetWritesKeepsSecrets, SetAtOnceKeepsSecrets, DeleteKeepsSecrets, RotateKeepsSecrets,
     ReturnKeepsSecrets, ExitKeepsSecrets, SecretsStutter DEF SecretStep
<1> QED BY SecretsInitially, <1>1, PTL DEF SecretSpec

(* Secrets survive the processes that use them, for any number of processes, names,     *)
(* values and calls: what is in the encrypted table is read by whoever has the key,     *)
(* unless two made the key file at once, and a call that nobody disturbed tells what it *)
(* did to the secret.                                                                   *)
THEOREM SecretsAreKept == SecretSpec => []SecretsKept
<1>1. SecretInv => SecretsKept
  <2> SUFFICES ASSUME SecretInv PROVE SecretsReadable /\ CallsTellTruth
    BY DEF SecretsKept
  <2>1. OneKey /\ \A p \in Holders : Undisturbed(p)
    BY DEF SecretInv
  <2>2. SecretsReadable
    BY <2>1 DEF OneKey, SecretsReadable
  <2>3. ASSUME NEW p \in Holders, call[p].at = "told", call[p].alone
        PROVE  Told(call[p], call[p].told, Row(p, call[p].name), provider[p])
    BY <2>1, <2>3 DEF Undisturbed, InCall, Fits
  <2> QED BY <2>2, <2>3 DEF CallsTellTruth, Told, Lost, Sealed, Calling
<1> QED BY SecretsInvariance, <1>1, PTL

-----------------------------------------------------------------------------
(* MemoryIndex, Recall, Consolidation                                      *)

Lines == Seq(Fragments)
Handfuls == UNION {[S -> Lines] : S \in SUBSET Memories}

Single == {"keyword", "look", "stale", "reread", "embed", "restored", "forget"}
Batches == {"rows", "batch", "store", "fail"}

MemoryRows == [state : {"absent", "live", "deleted", "gone"}, archived : BOOLEAN,
               status : {"active", "stale"}, text : Lines]
VectorRows == [status : {"ready", "failed", "stale"}, text : Lines]
EditorRecords == [at : Single \cup Batches \cup {"idle"}, todo : Handfuls, seen : Handfuls,
                  calm : BOOLEAN]

MemoryTypes ==
    /\ memories \in [Memories -> MemoryRows]
    /\ fts \in [Memories -> Lines]
    /\ vectors \in [Memories -> {Blank} \cup VectorRows]
    /\ op \in [Editors -> EditorRecords]

Taken(m) == memories[m].state # "absent"

\* What an editor has in hand is of a row there is, and of its text unless in doubt.
HandOK(e) ==
    /\ op[e].at \in Single => \E m \in Memories : DOMAIN op[e].todo = {m}
    /\ At(e, "idle") => op[e] = Idle
    /\ \A m \in DOMAIN op[e].todo :
          /\ Taken(m)
          /\ Live(m) /\ m \notin unsure => op[e].todo[m] = memories[m].text
          /\ At(e, "keyword") /\ m \notin unlisted => op[e].todo[m] = memories[m].text

UntakenOK == \A m \in Memories : ~Taken(m) => fts[m] = Blank /\ vectors[m] = Blank

ListedOK ==
    \A m \in Memories : Live(m) /\ fts[m] # Blank /\ m \notin unlisted => fts[m] = memories[m].text

Current(m) ==
    vectors[m] # Blank /\ vectors[m].status = "ready" => vectors[m].text = memories[m].text

Covered(m) ==
    m \in unsure \/ \E e \in Editors : op[e].at \in {"stale", "reread"} /\ m \in DOMAIN op[e].todo

VectorsOK == \A m \in Memories : Live(m) => Current(m) \/ Covered(m)

\* A rebuild that nobody disturbs has every row before it or behind it.
CalmOK ==
    \A e \in Editors : op[e].calm =>
        /\ op[e].at \in Batches
        /\ \A x \in Editors \ {e} : At(x, "idle")
        /\ \A m \in DOMAIN op[e].todo : Live(m) => op[e].todo[m] = memories[m].text
        /\ \A m \in Memories \ DOMAIN op[e].todo : Live(m) => op[e].at # "rows" /\ Current(m)

MemoriesInv ==
    /\ MemoryTypes
    /\ \A e \in Editors : HandOK(e)
    /\ UntakenOK
    /\ ListedOK
    /\ VectorsOK
    /\ CalmOK

-----------------------------------------------------------------------------

LEMMA LineFacts ==
    /\ Blank \in Lines
    /\ \A t \in Fragments : <<t>> \in Lines
    /\ \A a, b \in Lines : a \o b \in Lines
BY DEF Lines, Blank

LEMMA HandfulFacts ==
    /\ \A f \in Handfuls : /\ DOMAIN f \subseteq Memories
                           /\ \A m \in DOMAIN f : f[m] \in Lines
    /\ \A S \in SUBSET Memories : \A f : (\A m \in S : f[m] \in Lines) => [m \in S |-> f[m]] \in Handfuls
<1> HIDE DEF Memories, Lines
<1> QED BY DEF Handfuls

LEMMA EmptyHandful == Blank \in Handfuls /\ DOMAIN Blank = {}
<1>1. Blank = [m \in {} |-> 0]
  BY DEF Blank
<1>2. [m \in {} |-> 0] \in [{} -> Lines]
  OBVIOUS
<1> QED BY <1>1, <1>2 DEF Handfuls

LEMMA OneFacts ==
    ASSUME NEW m \in Memories, NEW text \in Lines
    PROVE  One(m, text) \in Handfuls /\ DOMAIN One(m, text) = {m} /\ One(m, text)[m] = text
<1>1. One(m, text) \in [{m} -> Lines]
  BY DEF One
<1> QED BY <1>1 DEF One, Handfuls

LEMMA IdleFacts ==
    /\ Idle \in EditorRecords /\ ~Idle.calm /\ Idle.at = "idle"
    /\ DOMAIN Idle.todo = {} /\ DOMAIN Idle.seen = {}
<1> HIDE DEF Handfuls, Blank
<1> QED BY EmptyHandful DEF Idle, EditorRecords

\* The one row of a step that has one in hand.
LEMMA TheFacts ==
    ASSUME MemoriesInv, NEW e \in Editors, op[e].at \in Single
    PROVE  /\ The(e) \in Memories /\ DOMAIN op[e].todo = {The(e)}
           /\ Taken(The(e)) /\ op[e].todo[The(e)] \in Lines /\ ~op[e].calm
<1>1. PICK m \in Memories : DOMAIN op[e].todo = {m}
  BY DEF MemoriesInv, HandOK
<1>2. The(e) = m
  BY <1>1 DEF The
<1>3. Taken(m) /\ op[e].todo \in Handfuls
  BY <1>1 DEF MemoriesInv, HandOK, MemoryTypes, EditorRecords
<1>4. ~op[e].calm
  BY DEF MemoriesInv, CalmOK, Single, Batches
<1> QED BY <1>1, <1>2, <1>3, <1>4, HandfulFacts

\* Move: the editor has its new record, the others are no longer alone.
LEMMA MoveFacts ==
    ASSUME MemoryTypes, NEW e \in Editors, NEW state \in EditorRecords, Move(e, state)
    PROVE  /\ op' \in [Editors -> EditorRecords] /\ op'[e] = state
           /\ \A x \in Editors \ {e} :
                 /\ op'[x].at = op[x].at /\ op'[x].todo = op[x].todo /\ ~op'[x].calm
                 /\ op[x] = Idle => op'[x] = Idle
<1>1. \A x \in Editors : op[x] \in EditorRecords
  BY DEF MemoryTypes
<1>2. \A r \in EditorRecords :
         /\ [r EXCEPT !.calm = FALSE] \in EditorRecords
         /\ [r EXCEPT !.calm = FALSE].at = r.at /\ [r EXCEPT !.calm = FALSE].todo = r.todo
         /\ ~[r EXCEPT !.calm = FALSE].calm
  BY DEF EditorRecords
<1>3. [Idle EXCEPT !.calm = FALSE] = Idle
  <2>1. Idle \in EditorRecords /\ Idle.calm = FALSE
    BY IdleFacts DEF Idle
  <2>2. \A r \in EditorRecords : r.calm = FALSE => [r EXCEPT !.calm = FALSE] = r
    BY DEF EditorRecords
  <2> QED BY <2>1, <2>2
<1> QED BY <1>1, <1>2, <1>3 DEF Move

LEMMA StepFacts ==
    ASSUME MemoryTypes, NEW e \in Editors, NEW s \in Single \cup Batches, NEW todo \in Handfuls,
           Step(e, s, todo)
    PROVE  \E state \in EditorRecords :
              Move(e, state) /\ state.at = s /\ state.todo = todo /\ state.calm = op[e].calm
<1> DEFINE state == [op[e] EXCEPT !.at = s, !.todo = todo]
<1>1. op[e] \in EditorRecords
  BY DEF MemoryTypes
<1>2. state \in EditorRecords /\ state.at = s /\ state.todo = todo /\ state.calm = op[e].calm
  <2> HIDE DEF Single, Batches
  <2> QED BY <1>1 DEF EditorRecords
<1>3. Move(e, state)
  BY DEF Step
<1> QED BY <1>2, <1>3

\* What a step must leave of the rows others have in hand.
Spared(e, m) ==
    /\ Taken(m) => Taken(m)'
    /\ Live(m)' => Live(m) \/ ~Taken(m)
    /\ \A x \in Editors \ {e} : m \in DOMAIN op[x].todo =>
          /\ m \in unsure' \/ (memories'[m].text = memories[m].text /\ m \notin unsure)
          /\ At(x, "keyword") =>
                m \in unlisted' \/ (memories'[m].text = memories[m].text /\ m \notin unlisted)

LEMMA OthersStay ==
    ASSUME MemoriesInv, NEW e \in Editors, NEW state \in EditorRecords, Move(e, state),
           \A m \in Memories : Spared(e, m)
    PROVE  \A x \in Editors \ {e} : HandOK(x)'
<1> SUFFICES ASSUME NEW x \in Editors \ {e} PROVE HandOK(x)'
  OBVIOUS
<1>1. /\ op'[x].at = op[x].at /\ op'[x].todo = op[x].todo
      /\ op[x] = Idle => op'[x] = Idle
  BY MoveFacts DEF MemoriesInv
<1>2. HandOK(x) /\ DOMAIN op[x].todo \subseteq Memories
  BY HandfulFacts DEF MemoriesInv, MemoryTypes, EditorRecords
<1>3. ASSUME NEW m \in DOMAIN op[x].todo
      PROVE  /\ Taken(m)'
             /\ Live(m)' /\ m \notin unsure' => op[x].todo[m] = memories'[m].text
             /\ At(x, "keyword") /\ m \notin unlisted' => op[x].todo[m] = memories'[m].text
  BY <1>2, <1>3 DEF HandOK, Spared, Taken, Live
<1> QED BY <1>1, <1>2, <1>3 DEF HandOK, At

LEMMA Gathered ==
    ASSUME MemoriesInv, NEW e \in Editors, NEW state \in EditorRecords, Move(e, state),
           \A m \in Memories : Spared(e, m),
           MemoryTypes', HandOK(e)', UntakenOK', ListedOK', VectorsOK', state.calm => CalmOK'
    PROVE  MemoriesInv'
<1>1. \A x \in Editors : HandOK(x)'
  BY OthersStay
<1>2. CASE state.calm
  BY <1>1, <1>2 DEF MemoriesInv
<1>3. CASE ~state.calm
  <2>1. \A x \in Editors : ~op'[x].calm
    BY <1>3, MoveFacts DEF MemoriesInv
  <2> QED BY <1>1, <2>1 DEF MemoriesInv, CalmOK
<1> QED BY <1>2, <1>3

LEMMA CallFacts ==
    ASSUME MemoriesInv, NEW e \in Editors, At(e, "idle")
    PROVE  op[e] = Idle /\ DOMAIN op[e].todo = {} /\ op[e].calm = FALSE
BY IdleFacts DEF MemoriesInv, HandOK, At

\* Whoever covers a row still does, unless it is the one that moves.
LEMMA CoverStays ==
    ASSUME MemoriesInv, NEW e \in Editors, NEW state \in EditorRecords, Move(e, state),
           NEW m, Covered(m), m \in unsure => m \in unsure',
           op[e].at \in {"stale", "reread"} => m \notin DOMAIN op[e].todo
    PROVE  Covered(m)'
BY MoveFacts DEF MemoriesInv, Covered

LEMMA QuietSpares ==
    ASSUME NEW e \in Editors, UNCHANGED <<memories, unlisted>>, unsure \subseteq unsure'
    PROVE  \A m \in Memories : Spared(e, m)
BY DEF Spared, Taken, Live

LEMMA UnsureFacts ==
    ASSUME NEW e \in Editors, NEW m \in Memories
    PROVE  /\ \A x \in Editors \ {e} : m \in DOMAIN op[x].todo => m \in Unsure(e, m)
           /\ \A q \in Memories \ {m} : q \in Unsure(e, m) <=> q \in unsure
           /\ e \notin Indexed => m \in Unsure(e, m)
BY DEF Unsure, Readers

LEMMA ListedFacts ==
    ASSUME MemoriesInv, NEW m \in Memories
    PROVE  /\ \A x \in Editors : At(x, "keyword") /\ m \in DOMAIN op[x].todo => m \in Listed(m)
           /\ \A q \in Memories \ {m} : q \in Listed(m) <=> q \in unlisted
<1>1. ASSUME NEW x \in Editors, At(x, "keyword"), m \in DOMAIN op[x].todo
      PROVE  The(x) = m
  BY <1>1, TheFacts DEF At, Single
<1> QED BY <1>1 DEF Listed

LEMMA CreateKeeps ==
    ASSUME MemoriesInv, NEW e \in Editors, Create(e)
    PROVE  MemoriesInv'
<1>1. At(e, "idle") /\ UNCHANGED <<fts, vectors, unsure, unlisted>>
  BY DEF Create, Called
<1>2. PICK m \in NextId, t \in Fragments :
         /\ memories' = [memories EXCEPT ![m] = [@ EXCEPT !.state = "live", !.text = <<t>>]]
         /\ Step(e, "keyword", One(m, <<t>>))
  BY DEF Create
<1> DEFINE text == <<t>>
<1>3. m \in Memories /\ ~Taken(m) /\ text \in Lines
  BY LineFacts DEF NextId, Free, Taken
<1>4. /\ One(m, text) \in Handfuls /\ DOMAIN One(m, text) = {m} /\ One(m, text)[m] = text
  BY <1>3, OneFacts
<1>5. PICK state \in EditorRecords :
         /\ Move(e, state)
         /\ state.at = "keyword" /\ state.todo = One(m, text) /\ state.calm = op[e].calm
  <2>1. Step(e, "keyword", One(m, text)) /\ "keyword" \in Single \cup Batches
    BY <1>2 DEF Single
  <2> QED BY <1>4, <2>1, StepFacts DEF MemoriesInv
<1>6. state.calm = FALSE
  BY <1>1, <1>5, CallFacts
<1> HIDE DEF text
<1>7. /\ memories' \in [Memories -> MemoryRows]
      /\ memories'[m].state = "live" /\ memories'[m].text = text
      /\ \A q \in Memories \ {m} : memories'[q] = memories[q]
  <2> HIDE DEF Memories
  <2>1. memories[m] \in MemoryRows /\ memories \in [Memories -> MemoryRows]
    BY <1>3 DEF MemoriesInv, MemoryTypes
  <2>2. memories' = [memories EXCEPT ![m] = [memories[m] EXCEPT !.state = "live", !.text = text]]
    BY <1>2 DEF text
  <2>3. /\ [memories[m] EXCEPT !.state = "live", !.text = text] \in MemoryRows
        /\ [memories[m] EXCEPT !.state = "live", !.text = text].state = "live"
        /\ [memories[m] EXCEPT !.state = "live", !.text = text].text = text
    <3> HIDE DEF Lines
    <3> QED BY <1>3, <2>1 DEF MemoryRows
  <2> QED BY <1>3, <2>1, <2>2, <2>3
<1>8. \A x \in Editors : m \notin DOMAIN op[x].todo
  BY <1>3 DEF MemoriesInv, HandOK
<1>9. \A q \in Memories : Spared(e, q)
  BY <1>1, <1>3, <1>7, <1>8 DEF Spared, Taken, Live
<1>10. MemoryTypes' /\ op'[e] = state
  BY <1>1, <1>5, <1>6, <1>7, MoveFacts DEF MemoriesInv, MemoryTypes
<1>11. HandOK(e)'
  BY <1>3, <1>4, <1>5, <1>7, <1>10 DEF HandOK, At, Taken, Live, Single
<1>12. fts[m] = Blank /\ vectors[m] = Blank
  BY <1>3 DEF MemoriesInv, UntakenOK
<1>13. UntakenOK' /\ ListedOK'
  BY <1>1, <1>7, <1>12 DEF MemoriesInv, UntakenOK, ListedOK, Taken, Live
<1>14. VectorsOK'
  <2> SUFFICES ASSUME NEW q \in Memories, Live(q)' PROVE Current(q)' \/ Covered(q)'
    BY DEF VectorsOK
  <2>1. CASE q = m
    BY <1>1, <1>12, <2>1 DEF Current
  <2>2. CASE q # m
    <3>1. Current(q) \/ Covered(q)
      BY <1>7, <2>2 DEF MemoriesInv, VectorsOK, Live
    <3>2. Current(q) => Current(q)'
      BY <1>1, <1>7, <2>2 DEF Current
    <3>3. Covered(q) => Covered(q)'
      BY <1>1, <1>5, CoverStays, CallFacts
    <3> QED BY <3>1, <3>2, <3>3
  <2> QED BY <2>1, <2>2
<1> QED BY <1>5, <1>6, <1>9, <1>10, <1>11, <1>13, <1>14, Gathered

LEMMA VectorsStay ==
    ASSUME MemoriesInv, NEW e \in Editors, NEW state \in EditorRecords, Move(e, state),
           UNCHANGED <<memories, vectors>>, unsure \subseteq unsure',
           op[e].at \notin {"stale", "reread"}
    PROVE  VectorsOK'
<1> SUFFICES ASSUME NEW q \in Memories, Live(q) PROVE Current(q)' \/ Covered(q)'
  BY DEF VectorsOK, Live
<1>1. Current(q) \/ Covered(q)
  BY DEF MemoriesInv, VectorsOK
<1>2. Current(q) => Current(q)'
  BY DEF Current
<1>3. Covered(q) => Covered(q)'
  BY CoverStays
<1> QED BY <1>1, <1>2, <1>3

LEMMA IdleHand ==
    ASSUME NEW e \in Editors, op'[e] = Idle
    PROVE  HandOK(e)'
<1>1. Idle.at = "idle" /\ DOMAIN Idle.todo = {}
  BY IdleFacts
<1> QED BY <1>1 DEF HandOK, At, Single

\* A step that keeps, or lays down, some of what its editor has in hand.
LEMMA SameHand ==
    ASSUME MemoriesInv, NEW e \in Editors, UNCHANGED memories, unsure \subseteq unsure',
           DOMAIN op'[e].todo \subseteq DOMAIN op[e].todo,
           \A m \in DOMAIN op'[e].todo : op'[e].todo[m] = op[e].todo[m],
           op'[e].at \in (Single \cup Batches) \ {"keyword"},
           op'[e].at \in Single => op[e].at \in Single /\ op'[e].todo = op[e].todo
    PROVE  HandOK(e)'
BY DEF MemoriesInv, HandOK, At, Taken, Live, Single, Batches

LEMMA InsertKeywordKeeps ==
    ASSUME MemoriesInv, NEW e \in Editors, InsertKeyword(e)
    PROVE  MemoriesInv'
<1> DEFINE m == The(e)
           todo == op[e].todo
<1>1. At(e, "keyword") /\ UNCHANGED <<memories, vectors, unsure, unlisted>>
  BY DEF InsertKeyword
<1>2. /\ m \in Memories /\ DOMAIN todo = {m} /\ Taken(m) /\ todo[m] \in Lines
      /\ op[e].calm = FALSE
  BY <1>1, TheFacts DEF At, Single, MemoriesInv, MemoryTypes, EditorRecords
<1>3. PICK state \in EditorRecords :
         /\ Move(e, state)
         /\ \/ state = Idle
            \/ state.at = "look" /\ state.todo = todo /\ state.calm = FALSE
  <2>1. CASE Done(e)
    BY <2>1, IdleFacts DEF Done
  <2>2. CASE Step(e, "look", todo)
    <3>1. todo \in Handfuls /\ "look" \in Single \cup Batches
      BY DEF MemoriesInv, MemoryTypes, EditorRecords, Single
    <3> QED BY <1>2, <2>2, <3>1, StepFacts DEF MemoriesInv
  <2> QED BY <2>1, <2>2 DEF InsertKeyword
<1>4. fts' = IF memories[m].state # "gone" /\ fts[m] = Blank THEN [fts EXCEPT ![m] = todo[m]] ELSE fts
  BY DEF InsertKeyword
<1> HIDE DEF m, todo
<1>5. /\ fts' \in [Memories -> Lines]
      /\ \A q \in Memories : fts'[q] # fts[q] => q = m /\ fts'[q] = todo[m]
  <2> HIDE DEF Memories, Lines
  <2> QED BY <1>2, <1>4 DEF MemoriesInv, MemoryTypes
<1>6. state.calm = FALSE
  BY <1>3, IdleFacts
<1>7. MemoryTypes' /\ op'[e] = state
  BY <1>1, <1>3, <1>5, MoveFacts DEF MemoriesInv, MemoryTypes
<1>8. HandOK(e)'
  <2>1. CASE state = Idle
    BY <1>7, <2>1, IdleHand
  <2>2. CASE state.at = "look" /\ state.todo = todo
    BY <1>1, <1>7, <2>2, SameHand DEF todo, Single, At
  <2> QED BY <1>3, <2>1, <2>2
<1>9. UntakenOK'
  BY <1>1, <1>2, <1>5 DEF MemoriesInv, UntakenOK, Taken
<1>10. m \notin unlisted => todo[m] = memories[m].text
  BY <1>1, <1>2 DEF MemoriesInv, HandOK, m, todo
<1>11. ListedOK'
  BY <1>1, <1>5, <1>10 DEF MemoriesInv, ListedOK, Live
<1>12. VectorsOK'
  BY <1>1, <1>3, VectorsStay DEF At
<1>13. \A q \in Memories : Spared(e, q)
  BY <1>1, QuietSpares
<1> QED BY <1>3, <1>6, <1>7, <1>8, <1>9, <1>11, <1>12, <1>13, Gathered

\* The table after an edit: the old text has a row of its own.
LEMMA RewrittenFacts ==
    ASSUME MemoriesInv, NEW m \in Memories, NEW n \in NextId, NEW text \in Lines, Live(m),
           memories' = Rewritten(m, n, text)
    PROVE  /\ n \in Memories /\ n # m /\ ~Taken(n)
           /\ memories' \in [Memories -> MemoryRows]
           /\ memories'[m].state = "live" /\ memories'[m].text = text
           /\ memories'[n].state = "live"
           /\ \A q \in Memories \ {m, n} : memories'[q] = memories[q]
<1>1. n \in Memories /\ n # m /\ ~Taken(n)
  BY DEF NextId, Free, Taken, Live
<1> DEFINE old == [memories[m] EXCEPT !.status = "stale", !.archived = FALSE]
           new == [memories[m] EXCEPT !.text = text]
<1>2. memories \in [Memories -> MemoryRows] /\ memories[m] \in MemoryRows
  BY DEF MemoriesInv, MemoryTypes
<1>3. /\ old \in MemoryRows /\ old.state = memories[m].state
      /\ new \in MemoryRows /\ new.state = memories[m].state /\ new.text = text
  <2> HIDE DEF Lines
  <2> QED BY <1>2 DEF MemoryRows
<1>4. memories' = [memories EXCEPT ![n] = old, ![m] = new]
  <2> HIDE DEF Memories, MemoryRows
  <2>1. [memories EXCEPT ![n] = old, ![m].text = text] = [memories EXCEPT ![n] = old, ![m] = new]
    BY <1>1, <1>2
  <2> QED BY <2>1 DEF Rewritten
<1> HIDE DEF Memories, MemoryRows, old, new
<1> QED BY <1>1, <1>2, <1>3, <1>4 DEF Live

\* A change of m's text leaves the rows of others as they are.
Rewrites(m) ==
    /\ memories'[m].state = "live"
    /\ \A q \in Memories \ {m} :
          \/ memories'[q].text = memories[q].text /\ memories'[q].state = memories[q].state
          \/ ~Taken(q) /\ Taken(q)'

LEMMA EditSpares ==
    ASSUME MemoriesInv, NEW e \in Editors, NEW m \in Memories, Live(m), Rewrites(m),
           unsure' = Unsure(e, m), unlisted' \in {Listed(m), unlisted \cup {m}}
    PROVE  \A q \in Memories : Spared(e, q)
<1>1. ASSUME NEW q \in Memories, NEW x \in Editors \ {e}, q \in DOMAIN op[x].todo
      PROVE  Taken(q)
  BY <1>1 DEF MemoriesInv, HandOK
<1>2. Spared(e, m)
  BY UnsureFacts, ListedFacts DEF Spared, Rewrites, Live, Taken
<1>3. ASSUME NEW q \in Memories \ {m} PROVE Spared(e, q)
  BY <1>1, UnsureFacts, ListedFacts DEF Spared, Rewrites, Live, Taken
<1> QED BY <1>2, <1>3

LEMMA EditVectors ==
    ASSUME MemoriesInv, NEW e \in Editors, At(e, "idle"), NEW state \in EditorRecords,
           Move(e, state), NEW m \in Memories, Live(m), Rewrites(m), UNCHANGED vectors,
           unsure' = Unsure(e, m),
           e \in Indexed => state.at \in {"stale", "reread"} /\ m \in DOMAIN state.todo
    PROVE  VectorsOK'
<1> SUFFICES ASSUME NEW q \in Memories, Live(q)' PROVE Current(q)' \/ Covered(q)'
  BY DEF VectorsOK
<1>1. CASE q = m
  <2>1. CASE e \in Indexed
    BY <1>1, <2>1, MoveFacts DEF Covered, MemoriesInv
  <2>2. CASE e \notin Indexed
    BY <1>1, <2>2, UnsureFacts DEF Covered
  <2> QED BY <2>1, <2>2
<1>2. CASE q # m /\ Taken(q)
  <2>1. Live(q) /\ memories'[q].text = memories[q].text
    BY <1>2 DEF Rewrites, Live, Taken
  <2>2. Current(q) \/ Covered(q)
    BY <2>1 DEF MemoriesInv, VectorsOK
  <2>3. Current(q) => Current(q)'
    BY <2>1 DEF Current
  <2>4. Covered(q) => Covered(q)'
    <3>1. q \in unsure => q \in unsure'
      BY <1>2, UnsureFacts
    <3> QED BY <3>1, CoverStays, CallFacts
  <2> QED BY <2>2, <2>3, <2>4
<1>3. CASE ~Taken(q)
  BY <1>3 DEF MemoriesInv, UntakenOK, Current
<1> QED BY <1>1, <1>2, <1>3

LEMMA EditTextKeeps ==
    ASSUME MemoriesInv, NEW e \in Editors, EditText(e)
    PROVE  MemoriesInv'
<1>1. At(e, "idle") /\ UNCHANGED vectors
  BY DEF EditText, Called
<1>2. PICK m \in Memories, n \in NextId, t \in Fragments :
         /\ Live(m)
         /\ memories' = Rewritten(m, n, <<t>>)
         /\ WriteKeyword(m, <<t>>)
         /\ unsure' = Unsure(e, m)
         /\ unlisted' = Listed(m)
         /\ IF e \in Indexed THEN Step(e, "stale", One(m, <<t>>)) ELSE Done(e)
  BY DEF EditText
<1> DEFINE text == <<t>>
<1>3. text \in Lines
  BY LineFacts
<1>4. memories' = Rewritten(m, n, text) /\ fts' = [fts EXCEPT ![m] = text]
  BY <1>2 DEF WriteKeyword
<1>5. PICK state \in EditorRecords :
         /\ Move(e, state) /\ state.calm = FALSE
         /\ \/ state = Idle /\ e \notin Indexed
            \/ state.at = "stale" /\ state.todo = One(m, text) /\ e \in Indexed
  <2>1. CASE e \notin Indexed
    BY <1>2, <2>1, IdleFacts DEF Done
  <2>2. CASE e \in Indexed
    <3>1. "stale" \in Single \cup Batches /\ One(m, text) \in Handfuls
      BY <1>3, OneFacts DEF Single
    <3>2. op[e].calm = FALSE /\ Step(e, "stale", One(m, text))
      BY <1>1, <1>2, <2>2, CallFacts
    <3> QED BY <2>2, <3>1, <3>2, StepFacts DEF MemoriesInv
  <2> QED BY <2>1, <2>2
<1> HIDE DEF text
<1>6. DOMAIN One(m, text) = {m} /\ One(m, text)[m] = text
  BY <1>3, OneFacts
<1>7. /\ n \in Memories /\ n # m /\ ~Taken(n)
      /\ memories' \in [Memories -> MemoryRows]
      /\ memories'[m].state = "live" /\ memories'[m].text = text
      /\ memories'[n].state = "live"
      /\ \A q \in Memories \ {m, n} : memories'[q] = memories[q]
  BY <1>2, <1>3, <1>4, RewrittenFacts
<1>8. Rewrites(m)
  BY <1>7 DEF Rewrites, Taken
<1>9. /\ fts' \in [Memories -> Lines] /\ fts'[m] = text
      /\ \A q \in Memories \ {m} : fts'[q] = fts[q]
  <2> HIDE DEF Memories, Lines
  <2> QED BY <1>3, <1>4 DEF MemoriesInv, MemoryTypes
<1>10. MemoryTypes' /\ op'[e] = state
  BY <1>1, <1>5, <1>7, <1>9, MoveFacts DEF MemoriesInv, MemoryTypes
<1>11. HandOK(e)'
  <2>1. CASE state = Idle
    BY <1>10, <2>1, IdleHand
  <2>2. CASE state.at = "stale" /\ state.todo = One(m, text)
    BY <1>6, <1>7, <1>10, <2>2 DEF HandOK, At, Taken, Single
  <2> QED BY <1>5, <2>1, <2>2
<1>12. UntakenOK'
  BY <1>1, <1>2, <1>7, <1>9 DEF MemoriesInv, UntakenOK, Taken, Live
<1>13. fts[n] = Blank
  BY <1>7 DEF MemoriesInv, UntakenOK
<1>14. ListedOK'
  <2> SUFFICES ASSUME NEW q \in Memories, Live(q)', fts'[q] # Blank, q \notin unlisted'
               PROVE  fts'[q] = memories'[q].text
    BY DEF ListedOK, Live
  <2>1. CASE q = m
    BY <1>7, <1>9, <2>1
  <2>2. CASE q # m
    <3>1. q # n /\ q \notin unlisted
      BY <1>2, <1>9, <1>13, <2>2, ListedFacts
    <3> QED BY <1>7, <1>9, <2>2, <3>1 DEF MemoriesInv, ListedOK, Live
  <2> QED BY <2>1, <2>2
<1>15. VectorsOK'
  BY <1>1, <1>2, <1>5, <1>6, <1>8, EditVectors
<1>16. \A q \in Memories : Spared(e, q)
  BY <1>2, <1>8, EditSpares
<1> QED BY <1>5, <1>10, <1>11, <1>12, <1>14, <1>15, <1>16, Gathered

LEMMA ChatEditKeeps ==
    ASSUME MemoriesInv, NEW e \in Editors, ChatEdit(e)
    PROVE  MemoriesInv'
<1>1. At(e, "idle") /\ UNCHANGED <<fts, vectors>> /\ Move(e, Idle) /\ e \notin Indexed
  BY IndexAssumption DEF ChatEdit, Called, Done
<1>2. PICK m \in Memories, n \in NextId, t \in Fragments :
         /\ Live(m)
         /\ memories' = Rewritten(m, n, <<t>>)
         /\ unsure' = Unsure(e, m)
         /\ unlisted' = unlisted \cup {m}
  BY DEF ChatEdit
<1> DEFINE text == <<t>>
<1>3. text \in Lines
  BY LineFacts
<1>4. memories' = Rewritten(m, n, text)
  BY <1>2
<1> HIDE DEF text
<1>5. Idle \in EditorRecords /\ ~Idle.calm
  BY IdleFacts
<1>6. /\ n \in Memories /\ n # m /\ ~Taken(n)
      /\ memories' \in [Memories -> MemoryRows]
      /\ memories'[m].state = "live" /\ memories'[m].text = text
      /\ memories'[n].state = "live"
      /\ \A q \in Memories \ {m, n} : memories'[q] = memories[q]
  BY <1>2, <1>3, <1>4, RewrittenFacts
<1>7. Rewrites(m)
  BY <1>6 DEF Rewrites, Taken
<1>8. MemoryTypes' /\ op'[e] = Idle
  BY <1>1, <1>5, <1>6, MoveFacts DEF MemoriesInv, MemoryTypes
<1>9. HandOK(e)'
  BY <1>8, IdleHand
<1>10. UntakenOK'
  BY <1>1, <1>2, <1>6 DEF MemoriesInv, UntakenOK, Taken, Live
<1>11. fts[n] = Blank
  BY <1>6 DEF MemoriesInv, UntakenOK
<1>12. ListedOK'
  <2> SUFFICES ASSUME NEW q \in Memories, Live(q)', fts'[q] # Blank, q \notin unlisted'
               PROVE  fts'[q] = memories'[q].text
    BY DEF ListedOK, Live
  <2>1. q # m /\ q # n /\ q \notin unlisted
    BY <1>1, <1>2, <1>11
  <2> QED BY <1>1, <1>6, <2>1 DEF MemoriesInv, ListedOK, Live
<1>13. VectorsOK'
  BY <1>1, <1>2, <1>5, <1>7, EditVectors
<1>14. \A q \in Memories : Spared(e, q)
  BY <1>2, <1>7, EditSpares
<1> QED BY <1>1, <1>5, <1>8, <1>9, <1>10, <1>12, <1>13, <1>14, Gathered

LEMMA MergeKeeps ==
    ASSUME MemoriesInv, NEW e \in Editors, Merge(e)
    PROVE  MemoriesInv'
<1>1. At(e, "idle") /\ UNCHANGED vectors /\ e \in Indexed
  BY DEF Merge, Called
<1>2. PICK m \in Memories, s \in Memories :
         /\ m # s /\ Live(m) /\ Live(s)
         /\ memories' = [memories EXCEPT ![m].text = memories[m].text \o memories[s].text,
                                         ![s].archived = TRUE]
         /\ fts' = [fts EXCEPT ![m] = memories[m].text \o memories[s].text, ![s] = Blank]
         /\ unsure' = Unsure(e, m)
         /\ unlisted' = Listed(m)
         /\ Step(e, "reread", One(m, memories[m].text \o memories[s].text))
  BY DEF Merge
<1> DEFINE text == memories[m].text \o memories[s].text
<1>3. /\ memories[m] \in MemoryRows /\ memories[s] \in MemoryRows
      /\ memories \in [Memories -> MemoryRows] /\ fts \in [Memories -> Lines]
  BY DEF MemoriesInv, MemoryTypes
<1>4. text \in Lines
  <2> HIDE DEF Lines
  <2> QED BY <1>3, LineFacts DEF MemoryRows
<1>5. /\ memories' = [memories EXCEPT ![m].text = text, ![s].archived = TRUE]
      /\ fts' = [fts EXCEPT ![m] = text, ![s] = Blank]
      /\ Step(e, "reread", One(m, text))
  BY <1>2
<1> HIDE DEF text
<1>6. PICK state \in EditorRecords :
         Move(e, state) /\ state.calm = FALSE /\ state.at = "reread" /\ state.todo = One(m, text)
  <2>1. "reread" \in Single \cup Batches /\ One(m, text) \in Handfuls
    BY <1>4, OneFacts DEF Single
  <2>2. MemoryTypes /\ op[e].calm = FALSE /\ Step(e, "reread", One(m, text))
    BY <1>1, <1>5, CallFacts DEF MemoriesInv
  <2> QED BY <2>1, <2>2, StepFacts
<1>7. DOMAIN One(m, text) = {m} /\ One(m, text)[m] = text
  BY <1>4, OneFacts
<1>8. /\ memories' \in [Memories -> MemoryRows]
      /\ memories'[m].state = "live" /\ memories'[m].text = text
      /\ \A q \in Memories \ {m} :
            memories'[q].text = memories[q].text /\ memories'[q].state = memories[q].state
  <2> DEFINE into == [memories[m] EXCEPT !.text = text]
             from == [memories[s] EXCEPT !.archived = TRUE]
  <2>1. /\ into \in MemoryRows /\ into.state = memories[m].state /\ into.text = text
        /\ from \in MemoryRows /\ from.state = memories[s].state /\ from.text = memories[s].text
    <3> HIDE DEF Lines
    <3> QED BY <1>3, <1>4 DEF MemoryRows
  <2>2. memories' = [memories EXCEPT ![m] = into, ![s] = from]
    <3> HIDE DEF Memories, MemoryRows
    <3> QED BY <1>2, <1>3, <1>5
  <2> HIDE DEF into, from, Memories, MemoryRows
  <2> QED BY <1>2, <1>3, <2>1, <2>2 DEF Live
<1>9. Rewrites(m)
  BY <1>8 DEF Rewrites
<1>10. /\ fts' \in [Memories -> Lines] /\ fts'[m] = text /\ fts'[s] = Blank
       /\ \A q \in Memories \ {m, s} : fts'[q] = fts[q]
  <2>1. Blank \in Lines /\ m # s /\ fts \in [Memories -> Lines]
    BY <1>2, <1>3, LineFacts
  <2>2. fts' = [fts EXCEPT ![m] = text, ![s] = Blank]
    BY <1>5
  <2> HIDE DEF Memories, Lines, Blank
  <2> QED BY <1>4, <2>1, <2>2
<1>11. MemoryTypes' /\ op'[e] = state
  BY <1>1, <1>6, <1>8, <1>10, MoveFacts DEF MemoriesInv, MemoryTypes
<1>12. HandOK(e)'
  BY <1>6, <1>7, <1>8, <1>11 DEF HandOK, At, Taken, Single
<1>13. UntakenOK'
  BY <1>1, <1>2, <1>8, <1>10 DEF MemoriesInv, UntakenOK, Taken, Live
<1>14. ListedOK'
  <2> SUFFICES ASSUME NEW q \in Memories, Live(q)', fts'[q] # Blank, q \notin unlisted'
               PROVE  fts'[q] = memories'[q].text
    BY DEF ListedOK, Live
  <2>1. CASE q = m
    BY <1>8, <1>10, <2>1
  <2>2. CASE q # m
    <3>1. q # s /\ q \notin unlisted
      BY <1>2, <1>10, <2>2, ListedFacts
    <3> QED BY <1>8, <1>10, <2>2, <3>1 DEF MemoriesInv, ListedOK, Live
  <2> QED BY <2>1, <2>2
<1>15. VectorsOK'
  BY <1>1, <1>2, <1>6, <1>7, <1>9, EditVectors
<1>16. \A q \in Memories : Spared(e, q)
  BY <1>2, <1>9, EditSpares
<1> QED BY <1>6, <1>11, <1>12, <1>13, <1>14, <1>15, <1>16, Gathered

\* A step that writes no text.
LEMMA Onward ==
    ASSUME MemoriesInv, NEW e \in Editors, NEW state \in EditorRecords, Move(e, state),
           UNCHANGED <<memories, fts, unlisted>>, unsure \subseteq unsure',
           vectors' \in [Memories -> {Blank} \cup VectorRows],
           \A q \in Memories : ~Taken(q) => vectors'[q] = Blank,
           HandOK(e)', VectorsOK', state.calm => CalmOK'
    PROVE  MemoriesInv'
<1>1. MemoryTypes'
  BY MoveFacts DEF MemoriesInv, MemoryTypes
<1>2. UntakenOK' /\ ListedOK'
  BY DEF MemoriesInv, UntakenOK, ListedOK, Taken, Live
<1>3. \A q \in Memories : Spared(e, q)
  BY QuietSpares
<1> QED BY <1>1, <1>2, <1>3, Gathered

LEMMA VectorTypes ==
    ASSUME MemoriesInv
    PROVE  /\ vectors \in [Memories -> {Blank} \cup VectorRows]
           /\ \A q \in Memories : ~Taken(q) => vectors[q] = Blank
BY DEF MemoriesInv, MemoryTypes, UntakenOK

\* The text of a row read again.
LEMMA ReadAgain ==
    ASSUME MemoriesInv, NEW e \in Editors, NEW m \in Memories, Live(m), op[e].calm = FALSE,
           NEW s \in Single \ {"keyword"}, Step(e, s, One(m, memories[m].text)),
           memories'[m].state # "absent", memories'[m].text = memories[m].text
    PROVE  \E state \in EditorRecords :
              /\ Move(e, state) /\ state.at = s /\ DOMAIN state.todo = {m} /\ state.calm = FALSE
              /\ HandOK(e)'
<1>1. memories[m].text \in Lines
  BY DEF MemoriesInv, MemoryTypes, MemoryRows
<1> DEFINE text == memories[m].text
<1>2. /\ One(m, text) \in Handfuls /\ DOMAIN One(m, text) = {m} /\ One(m, text)[m] = text
  BY <1>1, OneFacts
<1>3. MemoryTypes /\ s \in Single \cup Batches /\ Step(e, s, One(m, text))
  BY DEF MemoriesInv
<1> HIDE DEF text
<1>4. PICK state \in EditorRecords :
         Move(e, state) /\ state.at = s /\ state.todo = One(m, text) /\ state.calm = FALSE
  BY <1>2, <1>3, StepFacts
<1>5. op'[e] = state
  BY <1>3, <1>4, MoveFacts
<1>6. HandOK(e)'
  BY <1>2, <1>4, <1>5 DEF HandOK, At, Taken, Live, Single, text
<1> QED BY <1>2, <1>4, <1>6

LEMMA DoneFacts ==
    ASSUME MemoriesInv, NEW e \in Editors, Done(e)
    PROVE  Move(e, Idle) /\ Idle \in EditorRecords /\ Idle.calm = FALSE /\ HandOK(e)'
<1>1. Move(e, Idle) /\ Idle \in EditorRecords /\ Idle.calm = FALSE
  BY IdleFacts DEF Done
<1>2. op'[e] = Idle
  BY <1>1, MoveFacts DEF MemoriesInv
<1> QED BY <1>1, <1>2, IdleHand

LEMMA RereadKeeps ==
    ASSUME MemoriesInv, NEW e \in Editors, Reread(e)
    PROVE  MemoriesInv'
<1> DEFINE m == The(e)
<1>1. At(e, "reread") /\ UNCHANGED <<memories, fts, vectors, unsure, unlisted>>
  BY DEF Reread
<1>2. m \in Memories /\ DOMAIN op[e].todo = {m} /\ op[e].calm = FALSE
  BY <1>1, TheFacts DEF At, Single, MemoriesInv, MemoryTypes, EditorRecords
<1>3. IF Live(m) THEN Step(e, "stale", One(m, memories[m].text)) ELSE Done(e)
  BY DEF Reread
<1> HIDE DEF m
<1>4. PICK state \in EditorRecords :
         /\ Move(e, state) /\ state.calm = FALSE /\ HandOK(e)'
         /\ Live(m) => state.at = "stale" /\ DOMAIN state.todo = {m}
  <2>1. CASE Live(m)
    <3>1. "stale" \in Single \ {"keyword"}
      BY DEF Single
    <3>2. Step(e, "stale", One(m, memories[m].text))
      BY <1>3, <2>1
    <3>3. \E state \in EditorRecords :
             /\ Move(e, state) /\ state.at = "stale" /\ DOMAIN state.todo = {m}
             /\ state.calm = FALSE /\ HandOK(e)'
      <4>1. memories'[m].state # "absent" /\ memories'[m].text = memories[m].text
        BY <1>1, <2>1 DEF Taken, Live
      <4> QED BY <1>2, <2>1, <3>1, <3>2, <4>1, ReadAgain
    <3> QED BY <3>3
  <2>2. CASE ~Live(m)
    BY <1>3, <2>2, DoneFacts
  <2> QED BY <2>1, <2>2
<1>5. VectorsOK'
  <2> SUFFICES ASSUME NEW q \in Memories, Live(q) PROVE Current(q)' \/ Covered(q)'
    BY <1>1 DEF VectorsOK, Live
  <2>1. CASE q = m
    BY <1>4, <2>1, MoveFacts DEF Covered, MemoriesInv
  <2>2. CASE q # m
    <3>1. Current(q) \/ Covered(q)
      BY DEF MemoriesInv, VectorsOK
    <3>2. Current(q) => Current(q)'
      BY <1>1 DEF Current
    <3>3. Covered(q) => Covered(q)'
      BY <1>1, <1>2, <1>4, <2>2, CoverStays
    <3> QED BY <3>1, <3>2, <3>3
  <2> QED BY <2>1, <2>2
<1> QED BY <1>1, <1>4, <1>5, VectorTypes, Onward

\* The next stage of what is in hand.
LEMMA Advances ==
    ASSUME MemoriesInv, NEW e \in Editors, op[e].at \in Single,
           NEW s \in Single \ {"keyword"}, Step(e, s, op[e].todo),
           UNCHANGED memories, unsure \subseteq unsure'
    PROVE  \E state \in EditorRecords :
              /\ Move(e, state) /\ state.at = s /\ state.todo = op[e].todo /\ state.calm = FALSE
              /\ HandOK(e)'
<1>1. op[e].calm = FALSE
  BY TheFacts DEF MemoriesInv, MemoryTypes, EditorRecords
<1>2. MemoryTypes /\ s \in Single \cup Batches /\ op[e].todo \in Handfuls
  BY DEF MemoriesInv, MemoryTypes, EditorRecords
<1>3. PICK state \in EditorRecords :
         Move(e, state) /\ state.at = s /\ state.todo = op[e].todo /\ state.calm = FALSE
  BY <1>1, <1>2, StepFacts
<1>4. op'[e] = state
  BY <1>2, <1>3, MoveFacts
<1>5. HandOK(e)'
  BY <1>3, <1>4, SameHand
<1> QED BY <1>3, <1>5

LEMMA MarkStaleKeeps ==
    ASSUME MemoriesInv, NEW e \in Editors, MarkStale(e)
    PROVE  MemoriesInv'
<1> DEFINE m == The(e)
<1>1. At(e, "stale") /\ UNCHANGED <<memories, fts, unsure, unlisted>>
  BY DEF MarkStale
<1>2. m \in Memories /\ DOMAIN op[e].todo = {m}
  BY <1>1, TheFacts DEF At, Single
<1>3. PICK state \in EditorRecords : Move(e, state) /\ state.calm = FALSE /\ HandOK(e)'
  <2>1. "look" \in Single \ {"keyword"} /\ op[e].at \in Single
    BY <1>1 DEF Single, At
  <2> QED BY <1>1, <2>1, Advances DEF MarkStale
<1> HIDE DEF m
<1>4. /\ vectors' \in [Memories -> {Blank} \cup VectorRows]
      /\ \A q \in Memories \ {m} : vectors'[q] = vectors[q]
      /\ vectors'[m] = Blank \/ vectors'[m].status = "stale"
      /\ vectors[m] = Blank => vectors'[m] = Blank
  <2>1. vectors' = [q \in Memories |->
           IF q = m /\ vectors[q] # Blank
           THEN [vectors[q] EXCEPT !.status = "stale"] ELSE vectors[q]]
    BY DEF MarkStale, m
  <2>2. \A q \in Memories : vectors[q] \in {Blank} \cup VectorRows
    BY VectorTypes
  <2>3. \A r \in VectorRows : /\ [r EXCEPT !.status = "stale"] \in VectorRows
                             /\ [r EXCEPT !.status = "stale"].status = "stale"
    <3> HIDE DEF Lines
    <3> QED BY DEF VectorRows
  <2> HIDE DEF Memories, VectorRows, Blank
  <2> QED BY <1>2, <2>1, <2>2, <2>3
<1>5. VectorsOK'
  <2> SUFFICES ASSUME NEW q \in Memories, Live(q) PROVE Current(q)' \/ Covered(q)'
    BY <1>1 DEF VectorsOK, Live
  <2>1. CASE q = m
    BY <1>4, <2>1 DEF Current
  <2>2. CASE q # m
    <3>1. Current(q) \/ Covered(q)
      BY DEF MemoriesInv, VectorsOK
    <3>2. Current(q) => Current(q)'
      BY <1>1, <1>4, <2>2 DEF Current
    <3>3. Covered(q) => Covered(q)'
      BY <1>1, <1>2, <1>3, <2>2, CoverStays
    <3> QED BY <3>1, <3>2, <3>3
  <2> QED BY <2>1, <2>2
<1> QED BY <1>1, <1>3, <1>4, <1>5, VectorTypes, Onward

LEMMA LookKeeps ==
    ASSUME MemoriesInv, NEW e \in Editors, Look(e)
    PROVE  MemoriesInv'
<1>1. At(e, "look") /\ UNCHANGED <<memories, fts, vectors, unsure, unlisted>>
  BY DEF Look
<1>2. PICK state \in EditorRecords : Move(e, state) /\ state.calm = FALSE /\ HandOK(e)'
  <2>1. CASE Done(e)
    BY <2>1, DoneFacts
  <2>2. CASE Step(e, "embed", op[e].todo)
    <3>1. "embed" \in Single \ {"keyword"} /\ op[e].at \in Single
      BY <1>1 DEF Single, At
    <3> QED BY <1>1, <2>2, <3>1, Advances
  <2> QED BY <2>1, <2>2 DEF Look
<1>3. VectorsOK'
  BY <1>1, <1>2, VectorsStay DEF At
<1> QED BY <1>1, <1>2, <1>3, VectorTypes, Onward

\* A vector is stored for a text in hand: of the row, or of a row in doubt.
LEMMA Upserted ==
    ASSUME MemoriesInv, NEW e \in Editors, NEW m \in DOMAIN op[e].todo,
           NEW status \in {"ready", "failed"}, Upsert(m, status, op[e].todo[m]),
           NEW state \in EditorRecords, Move(e, state), UNCHANGED <<memories, unsure>>,
           op[e].at \notin {"stale", "reread"}
    PROVE  /\ m \in Memories
           /\ vectors' \in [Memories -> {Blank} \cup VectorRows]
           /\ \A q \in Memories : ~Taken(q) => vectors'[q] = Blank
           /\ \A q \in Memories \ {m} : vectors'[q] = vectors[q]
           /\ Live(m) => vectors'[m] = [status |-> status, text |-> op[e].todo[m]]
           /\ VectorsOK'
<1> DEFINE text == op[e].todo[m]
           row == [status |-> status, text |-> text]
<1>1. op[e].todo \in Handfuls
  BY DEF MemoriesInv, MemoryTypes, EditorRecords
<1>2. m \in Memories /\ text \in Lines
  BY <1>1, HandfulFacts
<1>3. Taken(m) /\ (Live(m) /\ m \notin unsure => text = memories[m].text)
  BY DEF MemoriesInv, HandOK
<1>4. row \in VectorRows /\ row.status = status /\ row.text = text
  <2> HIDE DEF Lines, text
  <2> QED BY <1>2 DEF VectorRows
<1>5. vectors' = IF memories[m].state = "gone" THEN vectors ELSE [vectors EXCEPT ![m] = row]
  BY DEF Upsert
<1> HIDE DEF row, text
<1>6. /\ vectors' \in [Memories -> {Blank} \cup VectorRows]
      /\ \A q \in Memories \ {m} : vectors'[q] = vectors[q]
      /\ Live(m) => vectors'[m] = row
  <2> HIDE DEF Memories, VectorRows, Blank
  <2> QED BY <1>2, <1>4, <1>5, VectorTypes DEF Live
<1>7. \A q \in Memories : ~Taken(q) => vectors'[q] = Blank
  BY <1>3, <1>6, VectorTypes
<1>8. VectorsOK'
  <2> SUFFICES ASSUME NEW q \in Memories, Live(q) PROVE Current(q)' \/ Covered(q)'
    BY DEF VectorsOK, Live
  <2>1. CASE q = m
    <3>1. vectors'[m].text = text
      BY <1>4, <1>6, <2>1
    <3> QED BY <1>3, <2>1, <3>1 DEF Current, Covered
  <2>2. CASE q # m
    <3>1. Current(q) \/ Covered(q)
      BY DEF MemoriesInv, VectorsOK
    <3>2. Current(q) => Current(q)'
      BY <1>6, <2>2 DEF Current
    <3>3. Covered(q) => Covered(q)'
      BY CoverStays
    <3> QED BY <3>1, <3>2, <3>3
  <2> QED BY <2>1, <2>2
<1> QED BY <1>2, <1>6, <1>7, <1>8 DEF row, text

LEMMA EmbeddedKeeps ==
    ASSUME MemoriesInv, NEW e \in Editors, Embedded(e)
    PROVE  MemoriesInv'
<1> DEFINE m == The(e)
<1>1. At(e, "embed") /\ Done(e) /\ UNCHANGED <<memories, fts, unsure, unlisted>>
  BY DEF Embedded
<1>2. PICK status \in {"ready", "failed"} : Upsert(m, status, op[e].todo[m])
  BY DEF Embedded
<1>3. m \in DOMAIN op[e].todo
  BY <1>1, TheFacts DEF At, Single
<1> HIDE DEF m
<1>4. Move(e, Idle) /\ Idle \in EditorRecords /\ Idle.calm = FALSE /\ HandOK(e)'
  BY <1>1, DoneFacts
<1>5. op[e].at \notin {"stale", "reread"}
  BY <1>1 DEF At
<1>6. /\ vectors' \in [Memories -> {Blank} \cup VectorRows]
      /\ \A q \in Memories : ~Taken(q) => vectors'[q] = Blank
      /\ VectorsOK'
  BY <1>1, <1>2, <1>3, <1>4, <1>5, Upserted
<1> QED BY <1>1, <1>4, <1>6, Onward

\* Rows are removed with what is said of them; the others keep their text.
LEMMA Removed ==
    ASSUME MemoriesInv, NEW e \in Editors, At(e, "idle"),
           NEW state \in EditorRecords, Move(e, state), state.calm = FALSE, HandOK(e)',
           memories' \in [Memories -> MemoryRows],
           NEW S \in SUBSET Memories,
           \A q \in S : /\ Taken(q) /\ memories'[q].state \in {"deleted", "gone"}
                        /\ memories'[q].text = memories[q].text
                        /\ fts'[q] = Blank /\ vectors'[q] = Blank,
           \A q \in Memories \ S : /\ memories'[q].state = memories[q].state
                                   /\ memories'[q].text = memories[q].text
                                   /\ fts'[q] = fts[q] /\ vectors'[q] = vectors[q],
           fts' \in [Memories -> Lines], vectors' \in [Memories -> {Blank} \cup VectorRows],
           UNCHANGED <<unsure, unlisted>>
    PROVE  MemoriesInv'
<1>1. MemoryTypes'
  BY MoveFacts DEF MemoriesInv, MemoryTypes
<1>2. UntakenOK'
  BY DEF MemoriesInv, UntakenOK, Taken
<1>3. ListedOK'
  BY DEF MemoriesInv, ListedOK, Live
<1>4. VectorsOK'
  <2> SUFFICES ASSUME NEW q \in Memories, Live(q)' PROVE Current(q)' \/ Covered(q)'
    BY DEF VectorsOK
  <2>1. q \notin S /\ Live(q)
    BY DEF Live
  <2>2. Current(q) \/ Covered(q)
    BY <2>1 DEF MemoriesInv, VectorsOK
  <2>3. Current(q) => Current(q)'
    BY <2>1 DEF Current
  <2>4. Covered(q) => Covered(q)'
    BY CoverStays, CallFacts
  <2> QED BY <2>2, <2>3, <2>4
<1>5. \A q \in Memories : Spared(e, q)
  BY DEF Spared, Taken, Live
<1> QED BY <1>1, <1>2, <1>3, <1>4, <1>5, Gathered

LEMMA FlagFacts ==
    ASSUME MemoriesInv, NEW m \in Memories, NEW b \in BOOLEAN,
           memories' = [memories EXCEPT ![m].archived = b]
    PROVE  /\ memories' \in [Memories -> MemoryRows]
           /\ \A q \in Memories : /\ memories'[q].state = memories[q].state
                                  /\ memories'[q].text = memories[q].text
<1> DEFINE row == [memories[m] EXCEPT !.archived = b]
<1>1. memories \in [Memories -> MemoryRows] /\ memories[m] \in MemoryRows
  BY DEF MemoriesInv, MemoryTypes
<1>2. row \in MemoryRows /\ row.state = memories[m].state /\ row.text = memories[m].text
  <2> HIDE DEF Lines
  <2> QED BY <1>1 DEF MemoryRows
<1>3. memories' = [memories EXCEPT ![m] = row]
  <2> HIDE DEF Memories, MemoryRows
  <2> QED BY <1>1
<1> HIDE DEF Memories, MemoryRows, row
<1> QED BY <1>1, <1>2, <1>3

LEMMA ArchiveKeeps ==
    ASSUME MemoriesInv, NEW e \in Editors, Archive(e)
    PROVE  MemoriesInv'
<1>1. At(e, "idle") /\ Done(e) /\ UNCHANGED <<fts, vectors, unsure, unlisted>>
  BY DEF Archive, Called
<1>2. PICK m \in Memories : memories' = [memories EXCEPT ![m].archived = TRUE]
  BY DEF Archive
<1>3. Move(e, Idle) /\ Idle \in EditorRecords /\ Idle.calm = FALSE /\ HandOK(e)'
  BY <1>1, DoneFacts
<1>4. /\ memories' \in [Memories -> MemoryRows]
      /\ \A q \in Memories : /\ memories'[q].state = memories[q].state
                             /\ memories'[q].text = memories[q].text
  BY <1>2, FlagFacts
<1>5. fts \in [Memories -> Lines] /\ vectors \in [Memories -> {Blank} \cup VectorRows]
  BY DEF MemoriesInv, MemoryTypes
<1>6. {} \in SUBSET Memories
  OBVIOUS
<1> QED BY <1>1, <1>3, <1>4, <1>5, <1>6, Removed

LEMMA RestoreKeeps ==
    ASSUME MemoriesInv, NEW e \in Editors, Restore(e)
    PROVE  MemoriesInv'
<1>1. At(e, "idle") /\ UNCHANGED <<fts, vectors, unsure, unlisted>>
  BY DEF Restore, Called
<1>2. PICK m \in Memories :
         /\ Live(m)
         /\ memories' = [memories EXCEPT ![m].archived = FALSE]
         /\ IF e \in Indexed THEN Step(e, "restored", One(m, memories[m].text)) ELSE Done(e)
  BY DEF Restore
<1>3. /\ memories' \in [Memories -> MemoryRows]
      /\ \A q \in Memories : /\ memories'[q].state = memories[q].state
                             /\ memories'[q].text = memories[q].text
  BY <1>2, FlagFacts
<1>4. PICK state \in EditorRecords : Move(e, state) /\ state.calm = FALSE /\ HandOK(e)'
  <2>1. CASE Done(e)
    BY <2>1, DoneFacts
  <2>2. CASE Step(e, "restored", One(m, memories[m].text))
    <3>1. "restored" \in Single \ {"keyword"} /\ op[e].calm = FALSE
      BY <1>1, CallFacts DEF Single
    <3>2. memories'[m].state # "absent" /\ memories'[m].text = memories[m].text
      BY <1>2, <1>3 DEF Taken, Live
    <3> QED BY <1>2, <2>2, <3>1, <3>2, ReadAgain
  <2> QED BY <1>2, <2>1, <2>2
<1>5. fts \in [Memories -> Lines] /\ vectors \in [Memories -> {Blank} \cup VectorRows]
  BY DEF MemoriesInv, MemoryTypes
<1>6. {} \in SUBSET Memories
  OBVIOUS
<1> QED BY <1>1, <1>3, <1>4, <1>5, <1>6, Removed

LEMMA RestoredKeeps ==
    ASSUME MemoriesInv, NEW e \in Editors, Restored(e)
    PROVE  MemoriesInv'
<1> DEFINE m == The(e)
           again == Live(m) /\ (vectors[m] = Blank \/ vectors[m].status # "ready")
<1>1. At(e, "restored") /\ UNCHANGED <<memories, fts, vectors, unsure, unlisted>>
  BY DEF Restored
<1>2. m \in Memories /\ op[e].calm = FALSE
  BY <1>1, TheFacts DEF At, Single, MemoriesInv, MemoryTypes, EditorRecords
<1>3. IF again THEN Step(e, "look", One(m, memories[m].text)) ELSE Done(e)
  BY DEF Restored
<1>4. again => Live(m)
  OBVIOUS
<1> HIDE DEF m, again
<1>5. PICK state \in EditorRecords : Move(e, state) /\ state.calm = FALSE /\ HandOK(e)'
  <2>1. CASE again
    <3>1. "look" \in Single \ {"keyword"}
      BY DEF Single
    <3>2. Live(m) /\ memories'[m].state # "absent" /\ memories'[m].text = memories[m].text
      BY <1>1, <1>4, <2>1 DEF Taken, Live
    <3>3. Step(e, "look", One(m, memories[m].text))
      BY <1>3, <2>1
    <3> QED BY <1>2, <3>1, <3>2, <3>3, ReadAgain
  <2>2. CASE ~again
    BY <1>3, <2>2, DoneFacts
  <2> QED BY <2>1, <2>2
<1>6. VectorsOK'
  BY <1>1, <1>5, VectorsStay DEF At
<1> QED BY <1>1, <1>5, <1>6, VectorTypes, Onward

LEMMA DropFacts ==
    ASSUME MemoriesInv, NEW m \in Memories, NEW state \in {"deleted", "gone"}, Drop(m, state)
    PROVE  /\ memories' \in [Memories -> MemoryRows]
           /\ memories'[m].state = state /\ memories'[m].text = memories[m].text
           /\ fts' \in [Memories -> Lines] /\ fts'[m] = Blank
           /\ vectors' \in [Memories -> {Blank} \cup VectorRows] /\ vectors'[m] = Blank
           /\ \A q \in Memories \ {m} :
                 memories'[q] = memories[q] /\ fts'[q] = fts[q] /\ vectors'[q] = vectors[q]
<1> DEFINE row == [memories[m] EXCEPT !.state = state]
<1>1. /\ memories \in [Memories -> MemoryRows] /\ memories[m] \in MemoryRows
      /\ fts \in [Memories -> Lines] /\ vectors \in [Memories -> {Blank} \cup VectorRows]
  BY DEF MemoriesInv, MemoryTypes
<1>2. row \in MemoryRows /\ row.state = state /\ row.text = memories[m].text
  <2> HIDE DEF Lines
  <2> QED BY <1>1 DEF MemoryRows
<1>3. memories' = [memories EXCEPT ![m] = row]
  <2> HIDE DEF Memories, MemoryRows
  <2> QED BY <1>1 DEF Drop
<1>4. fts' = [fts EXCEPT ![m] = Blank] /\ vectors' = [vectors EXCEPT ![m] = Blank] /\ Blank \in Lines
  BY LineFacts DEF Drop
<1> HIDE DEF Memories, MemoryRows, VectorRows, Lines, Blank, row
<1> QED BY <1>1, <1>2, <1>3, <1>4

LEMMA DeleteKeeps ==
    ASSUME MemoriesInv, NEW e \in Editors, DeleteMemory(e)
    PROVE  MemoriesInv'
<1>1. At(e, "idle") /\ UNCHANGED <<unsure, unlisted>>
  BY DEF DeleteMemory, Called
<1>2. PICK m \in Memories :
         /\ Taken(m)
         /\ \/ Drop(m, "deleted") /\ Done(e)
            \/ Drop(m, "gone") /\ (Done(e) \/ Step(e, "forget", One(m, Blank)))
  BY DEF DeleteMemory, Live, Taken
<1>3. /\ memories' \in [Memories -> MemoryRows]
      /\ memories'[m].state \in {"deleted", "gone"} /\ memories'[m].text = memories[m].text
      /\ fts' \in [Memories -> Lines] /\ fts'[m] = Blank
      /\ vectors' \in [Memories -> {Blank} \cup VectorRows] /\ vectors'[m] = Blank
      /\ \A q \in Memories \ {m} :
            memories'[q] = memories[q] /\ fts'[q] = fts[q] /\ vectors'[q] = vectors[q]
  BY <1>2, DropFacts
<1>4. PICK state \in EditorRecords : Move(e, state) /\ state.calm = FALSE /\ HandOK(e)'
  <2>1. CASE Done(e)
    BY <2>1, DoneFacts
  <2>2. CASE Step(e, "forget", One(m, Blank))
    <3>1. /\ "forget" \in Single \cup Batches /\ One(m, Blank) \in Handfuls
          /\ DOMAIN One(m, Blank) = {m}
      BY LineFacts, OneFacts DEF Single
    <3>2. MemoryTypes /\ op[e].calm = FALSE
      BY <1>1, CallFacts DEF MemoriesInv
    <3>3. PICK state \in EditorRecords :
             Move(e, state) /\ state.at = "forget" /\ state.todo = One(m, Blank) /\ state.calm = FALSE
      BY <2>2, <3>1, <3>2, StepFacts
    <3>4. op'[e] = state
      BY <3>2, <3>3, MoveFacts
    <3>5. HandOK(e)'
      BY <1>3, <3>1, <3>3, <3>4 DEF HandOK, At, Taken, Live, Single
    <3> QED BY <3>3, <3>5
  <2> QED BY <1>2, <2>1, <2>2
<1>5. {m} \in SUBSET Memories
  OBVIOUS
<1> QED BY <1>1, <1>2, <1>3, <1>4, <1>5, Removed

LEMMA DeduplicateKeeps ==
    ASSUME MemoriesInv, NEW e \in Editors, Deduplicate(e)
    PROVE  MemoriesInv'
<1>1. At(e, "idle") /\ Done(e) /\ UNCHANGED <<unsure, unlisted>>
  BY DEF Deduplicate, Called
<1>2. /\ memories' = [m \in Memories |->
             IF m \in Duplicates THEN [memories[m] EXCEPT !.state = "gone"] ELSE memories[m]]
      /\ fts' = [m \in Memories |-> IF m \in Duplicates THEN Blank ELSE fts[m]]
      /\ vectors' = [m \in Memories |-> IF m \in Duplicates THEN Blank ELSE vectors[m]]
  BY DEF Deduplicate
<1>3. Duplicates \in SUBSET Memories /\ \A q \in Duplicates : Taken(q)
  BY DEF Duplicates, Taken, Live
<1>4. \A r \in MemoryRows : /\ [r EXCEPT !.state = "gone"] \in MemoryRows
                           /\ [r EXCEPT !.state = "gone"].state = "gone"
                           /\ [r EXCEPT !.state = "gone"].text = r.text
  <2> HIDE DEF Lines
  <2> QED BY DEF MemoryRows
<1>5. /\ memories \in [Memories -> MemoryRows] /\ fts \in [Memories -> Lines]
      /\ vectors \in [Memories -> {Blank} \cup VectorRows] /\ Blank \in Lines
  BY LineFacts DEF MemoriesInv, MemoryTypes
<1>6. /\ memories' \in [Memories -> MemoryRows] /\ fts' \in [Memories -> Lines]
      /\ vectors' \in [Memories -> {Blank} \cup VectorRows]
      /\ \A q \in Duplicates : /\ memories'[q].state = "gone" /\ memories'[q].text = memories[q].text
                               /\ fts'[q] = Blank /\ vectors'[q] = Blank
      /\ \A q \in Memories \ Duplicates :
            memories'[q] = memories[q] /\ fts'[q] = fts[q] /\ vectors'[q] = vectors[q]
  <2> HIDE DEF Memories, MemoryRows, VectorRows, Lines, Blank, Duplicates
  <2> QED BY <1>2, <1>3, <1>4, <1>5
<1>7. Move(e, Idle) /\ Idle \in EditorRecords /\ Idle.calm = FALSE /\ HandOK(e)'
  BY <1>1, DoneFacts
<1> QED BY <1>1, <1>3, <1>6, <1>7, Removed

LEMMA ForgetKeeps ==
    ASSUME MemoriesInv, NEW e \in Editors, Forget(e)
    PROVE  MemoriesInv'
<1> DEFINE m == The(e)
<1>1. At(e, "forget") /\ Done(e) /\ UNCHANGED <<memories, fts, unsure, unlisted>>
  BY DEF Forget
<1>2. m \in Memories
  BY <1>1, TheFacts DEF At, Single
<1>3. vectors' = [vectors EXCEPT ![m] = Blank]
  BY DEF Forget
<1> HIDE DEF m
<1>4. Move(e, Idle) /\ Idle \in EditorRecords /\ Idle.calm = FALSE /\ HandOK(e)'
  BY <1>1, DoneFacts
<1>5. /\ vectors' \in [Memories -> {Blank} \cup VectorRows]
      /\ \A q \in Memories : vectors'[q] \in {Blank, vectors[q]}
  <2> HIDE DEF Memories, VectorRows, Blank
  <2> QED BY <1>2, <1>3, VectorTypes
<1>6. VectorsOK'
  <2> SUFFICES ASSUME NEW q \in Memories, Live(q) PROVE Current(q)' \/ Covered(q)'
    BY <1>1 DEF VectorsOK, Live
  <2>1. Current(q) \/ Covered(q)
    BY DEF MemoriesInv, VectorsOK
  <2>2. Current(q) => Current(q)'
    BY <1>1, <1>5 DEF Current
  <2>3. Covered(q) => Covered(q)'
    BY <1>1, <1>4, CoverStays DEF At
  <2> QED BY <2>1, <2>2, <2>3
<1>7. \A q \in Memories : ~Taken(q) => vectors'[q] = Blank
  BY <1>5, VectorTypes
<1> QED BY <1>1, <1>4, <1>5, <1>6, <1>7, Onward

LEMMA LiveTexts ==
    ASSUME MemoriesInv, NEW S \in SUBSET Memories, \A m \in S : Live(m)
    PROVE  [m \in S |-> memories[m].text] \in Handfuls
<1>1. \A m \in S : memories[m].text \in Lines
  BY DEF MemoriesInv, MemoryTypes, MemoryRows
<1>2. [m \in S |-> memories[m].text] \in [S -> Lines]
  BY <1>1
<1> QED BY <1>2 DEF Handfuls

\* The rows a rebuild or a retry has selected.
LEMMA SelectedHand ==
    ASSUME MemoriesInv, NEW e \in Editors, NEW state \in EditorRecords, Move(e, state),
           UNCHANGED memories, state.at \in Batches,
           \A m \in DOMAIN state.todo : Live(m) /\ state.todo[m] = memories[m].text
    PROVE  HandOK(e)'
<1>1. op'[e] = state
  BY MoveFacts DEF MemoriesInv
<1> QED BY <1>1 DEF HandOK, At, Taken, Live, Single, Batches

LEMMA CalmHolds ==
    ASSUME MemoriesInv, NEW e \in Editors, NEW state \in EditorRecords, Move(e, state),
           state.at \in Batches, \A x \in Editors \ {e} : At(x, "idle"),
           \A m \in DOMAIN state.todo : Live(m)' => state.todo[m] = memories'[m].text,
           \A m \in Memories \ DOMAIN state.todo : Live(m)' => state.at # "rows" /\ Current(m)'
    PROVE  CalmOK'
<1>1. /\ op'[e] = state
      /\ \A x \in Editors \ {e} : op'[x].at = op[x].at /\ ~op'[x].calm
  BY MoveFacts DEF MemoriesInv
<1> QED BY <1>1 DEF CalmOK, At

LEMMA RebuildKeeps ==
    ASSUME MemoriesInv, NEW e \in Editors, Rebuild(e)
    PROVE  MemoriesInv'
<1>1. At(e, "idle") /\ UNCHANGED <<memories, fts, vectors, unsure, unlisted>>
  BY DEF Rebuild, Called
<1> DEFINE S == {q \in Memories : Live(q)}
           listed == [m \in S |-> memories[m].text]
           alone == \A x \in Editors : x = e \/ At(x, "idle")
           state == [at |-> "rows", todo |-> listed, seen |-> listed, calm |-> alone]
<1>2. Move(e, state)
  BY DEF Rebuild
<1>3. listed \in Handfuls /\ DOMAIN listed = S /\ \A m \in S : Live(m) /\ listed[m] = memories[m].text
  BY LiveTexts
<1>4. alone \in BOOLEAN
  OBVIOUS
<1>5. \A q \in Memories \ S : ~Live(q)
  OBVIOUS
<1> HIDE DEF listed, S
<1>6. /\ state \in EditorRecords /\ state.at = "rows" /\ state.todo = listed /\ state.calm = alone
  <2> HIDE DEF alone
  <2> QED BY <1>3, <1>4 DEF EditorRecords, Batches
<1>7. alone => \A x \in Editors \ {e} : At(x, "idle")
  OBVIOUS
<1> HIDE DEF state, alone
<1>8. HandOK(e)'
  BY <1>1, <1>2, <1>3, <1>6, SelectedHand DEF Batches
<1>9. state.calm => CalmOK'
  <2> SUFFICES ASSUME state.calm PROVE CalmOK'
    OBVIOUS
  <2>1. \A m \in DOMAIN state.todo : Live(m)' => state.todo[m] = memories'[m].text
    BY <1>1, <1>3, <1>6
  <2>2. \A m \in Memories \ DOMAIN state.todo : ~Live(m)'
    BY <1>1, <1>3, <1>5, <1>6 DEF Live
  <2>3. state.at \in Batches
    BY <1>6 DEF Batches
  <2> QED BY <1>2, <1>6, <1>7, <2>1, <2>2, <2>3, CalmHolds
<1>10. VectorsOK'
  BY <1>1, <1>2, <1>6, VectorsStay DEF At
<1> QED BY <1>1, <1>2, <1>6, <1>8, <1>9, <1>10, VectorTypes, Onward

LEMMA RetryKeeps ==
    ASSUME MemoriesInv, NEW e \in Editors, Retry(e)
    PROVE  MemoriesInv'
<1>1. At(e, "idle") /\ UNCHANGED <<memories, fts, vectors, unsure, unlisted>>
  BY DEF Retry, Called
<1> DEFINE S == {m \in Memories : Live(m) /\ vectors[m] # Blank /\ vectors[m].status = "failed"}
           listed == [m \in S |-> memories[m].text]
<1>2. Step(e, "batch", listed)
  BY DEF Retry
<1>3. listed \in Handfuls /\ DOMAIN listed = S /\ \A m \in S : Live(m) /\ listed[m] = memories[m].text
  BY LiveTexts
<1> HIDE DEF S, listed
<1>4. MemoryTypes /\ "batch" \in Single \cup Batches /\ op[e].calm = FALSE
  BY <1>1, CallFacts DEF MemoriesInv, Batches
<1>5. PICK state \in EditorRecords :
         Move(e, state) /\ state.at = "batch" /\ state.todo = listed /\ state.calm = FALSE
  BY <1>2, <1>3, <1>4, StepFacts
<1>6. HandOK(e)'
  BY <1>1, <1>3, <1>5, SelectedHand DEF Batches
<1>7. VectorsOK'
  BY <1>1, <1>5, VectorsStay DEF At
<1> QED BY <1>1, <1>5, <1>6, <1>7, VectorTypes, Onward

\* A batch goes on with some of its rows.
LEMMA BatchGoes ==
    ASSUME MemoriesInv, NEW e \in Editors, op[e].at \in Batches, NEW s \in Batches \ {"rows"},
           NEW S \in SUBSET DOMAIN op[e].todo, NEW todo, DOMAIN todo = S,
           \A q \in S : todo[q] = op[e].todo[q], todo \in Handfuls,
           Step(e, s, todo), UNCHANGED <<memories, unsure>>
    PROVE  \E state \in EditorRecords :
              /\ Move(e, state) /\ state.at = s /\ state.todo = todo /\ state.calm = op[e].calm
              /\ HandOK(e)'
<1>1. MemoryTypes /\ s \in Single \cup Batches
  BY DEF MemoriesInv
<1>2. PICK state \in EditorRecords :
         Move(e, state) /\ state.at = s /\ state.todo = todo /\ state.calm = op[e].calm
  BY <1>1, StepFacts
<1>3. op'[e] = state
  BY <1>1, <1>2, MoveFacts
<1>4. s \notin Single
  BY DEF Single, Batches
<1>5. HandOK(e)'
  BY <1>2, <1>3, <1>4, SameHand DEF Single
<1> QED BY <1>2, <1>5

LEMMA PartOfHand ==
    ASSUME MemoriesInv, NEW e \in Editors, NEW S \in SUBSET DOMAIN op[e].todo
    PROVE  [q \in S |-> op[e].todo[q]] \in Handfuls
<1>1. op[e].todo \in Handfuls
  BY DEF MemoriesInv, MemoryTypes, EditorRecords
<1>2. S \in SUBSET Memories /\ \A q \in S : op[e].todo[q] \in Lines
  BY <1>1, HandfulFacts
<1> QED BY <1>2, HandfulFacts

LEMMA SelectKeeps ==
    ASSUME MemoriesInv, NEW e \in Editors, NEW force \in BOOLEAN, Select(e, force)
    PROVE  MemoriesInv'
<1>1. At(e, "rows") /\ UNCHANGED <<memories, fts, vectors, unsure, unlisted>>
  BY DEF Select
<1> DEFINE all == op[e].todo
           S == {m \in DOMAIN all : force \/ ~Skipped(m, all[m])}
           listed == [m \in S |-> all[m]]
<1>2. Step(e, "batch", listed)
  BY DEF Select
<1>3. /\ S \in SUBSET DOMAIN all /\ DOMAIN listed = S /\ \A q \in S : listed[q] = all[q]
      /\ listed \in Handfuls
  BY PartOfHand
<1>4. \A q \in DOMAIN all \ S : vectors[q].text = all[q]
  <2> SUFFICES ASSUME NEW q \in DOMAIN all, Skipped(q, all[q]) PROVE vectors[q].text = all[q]
    OBVIOUS
  <2>1. vectors[q] = [status |-> "ready", text |-> all[q]]
    BY DEF Skipped, Ready
  <2> QED BY <2>1
<1> HIDE DEF S, listed
<1>5. PICK state \in EditorRecords :
         /\ Move(e, state) /\ state.at = "batch" /\ state.todo = listed /\ state.calm = op[e].calm
         /\ HandOK(e)'
  <2>1. op[e].at \in Batches /\ "batch" \in Batches \ {"rows"}
    BY <1>1 DEF At, Batches
  <2> QED BY <1>1, <1>2, <1>3, <2>1, BatchGoes
<1>6. state.calm => CalmOK'
  <2> SUFFICES ASSUME op[e].calm PROVE CalmOK'
    BY <1>5
  <2>1. /\ \A x \in Editors \ {e} : At(x, "idle")
        /\ \A m \in DOMAIN all : Live(m) => all[m] = memories[m].text
        /\ \A m \in Memories \ DOMAIN all : ~Live(m)
    BY <1>1 DEF MemoriesInv, CalmOK, At
  <2>2. \A m \in DOMAIN state.todo : Live(m)' => state.todo[m] = memories'[m].text
    BY <1>1, <1>3, <1>5, <2>1 DEF Live
  <2>3. \A m \in Memories \ DOMAIN state.todo : Live(m)' => Current(m)'
    <3> SUFFICES ASSUME NEW m \in Memories \ S, Live(m) PROVE Current(m)'
      BY <1>1, <1>3, <1>5 DEF Live
    <3>1. m \in DOMAIN all \ S /\ all[m] = memories[m].text
      BY <2>1
    <3>2. vectors[m].text = memories[m].text
      BY <1>4, <3>1
    <3> QED BY <1>1, <3>2 DEF Current
  <2> QED BY <1>5, <2>1, <2>2, <2>3, CalmHolds DEF Batches
<1>7. VectorsOK'
  BY <1>1, <1>5, VectorsStay DEF At
<1> QED BY <1>1, <1>5, <1>6, <1>7, VectorTypes, Onward

LEMMA EmbedBatchKeeps ==
    ASSUME MemoriesInv, NEW e \in Editors, EmbedBatch(e)
    PROVE  MemoriesInv'
<1>1. At(e, "batch") /\ UNCHANGED <<memories, fts, vectors, unsure, unlisted>>
  BY DEF EmbedBatch
<1>2. PICK state \in EditorRecords :
         /\ Move(e, state) /\ HandOK(e)'
         /\ \/ state.calm = FALSE
            \/ /\ state.at \in Batches \ {"rows"} /\ state.todo = op[e].todo
               /\ state.calm = op[e].calm
  <2>1. CASE Done(e)
    BY <2>1, DoneFacts
  <2>2. ASSUME NEW s \in {"store", "fail"}, Step(e, s, op[e].todo)
        PROVE  \E state \in EditorRecords :
                  /\ Move(e, state) /\ HandOK(e)'
                  /\ state.at \in Batches \ {"rows"} /\ state.todo = op[e].todo
                  /\ state.calm = op[e].calm
    <3>1. op[e].at \in Batches /\ s \in Batches \ {"rows"} /\ op[e].todo \in Handfuls
      BY <1>1 DEF At, Batches, MemoriesInv, MemoryTypes, EditorRecords
    <3>2. DOMAIN op[e].todo \in SUBSET DOMAIN op[e].todo
      OBVIOUS
    <3>3. \E state \in EditorRecords :
             /\ Move(e, state) /\ state.at = s /\ state.todo = op[e].todo
             /\ state.calm = op[e].calm /\ HandOK(e)'
      <4> DEFINE todo == op[e].todo
      <4>1. /\ Step(e, s, todo) /\ UNCHANGED <<memories, unsure>>
            /\ todo \in Handfuls /\ \A q \in DOMAIN todo : todo[q] = op[e].todo[q]
        BY <1>1, <2>2, <3>1
      <4>2. DOMAIN todo \in SUBSET DOMAIN op[e].todo
        OBVIOUS
      <4> HIDE DEF todo
      <4>3. \E state \in EditorRecords :
               /\ Move(e, state) /\ state.at = s /\ state.todo = todo
               /\ state.calm = op[e].calm /\ HandOK(e)'
        BY <3>1, <4>1, <4>2, BatchGoes
      <4> QED BY <4>3 DEF todo
    <3> QED BY <3>1, <3>3
  <2> QED BY <2>1, <2>2 DEF EmbedBatch
<1>3. state.calm => CalmOK'
  <2> SUFFICES ASSUME state.calm PROVE CalmOK'
    OBVIOUS
  <2>1. /\ op[e].calm /\ state.at \in Batches /\ state.at # "rows" /\ state.todo = op[e].todo
    BY <1>2
  <2>2. /\ \A x \in Editors \ {e} : At(x, "idle")
        /\ \A m \in DOMAIN op[e].todo : Live(m) => op[e].todo[m] = memories[m].text
        /\ \A m \in Memories \ DOMAIN op[e].todo : Live(m) => Current(m)
    BY <2>1 DEF MemoriesInv, CalmOK
  <2>3. \A m : Live(m)' = Live(m) /\ Current(m)' = Current(m)
    BY <1>1 DEF Live, Current
  <2> QED BY <1>1, <1>2, <2>1, <2>2, <2>3, CalmHolds
<1>4. VectorsOK'
  BY <1>1, <1>2, VectorsStay DEF At
<1> QED BY <1>1, <1>2, <1>3, <1>4, VectorTypes, Onward

LEMMA StoreKeeps ==
    ASSUME MemoriesInv, NEW e \in Editors, NEW s \in {"store", "fail"},
           NEW status \in {"ready", "failed"}, Store(e, s, status)
    PROVE  MemoriesInv'
<1>1. At(e, s) /\ UNCHANGED <<memories, fts, unsure, unlisted>>
  BY DEF Store
<1> DEFINE todo == op[e].todo
<1>2. PICK m \in DOMAIN todo :
         /\ Upsert(m, status, todo[m])
         /\ IF memories[m].state = "gone" THEN Done(e)
            ELSE Step(e, s, [q \in DOMAIN todo \ {m} |-> todo[q]])
  BY DEF Store
<1> DEFINE rest == [q \in DOMAIN todo \ {m} |-> todo[q]]
<1>3. /\ rest \in Handfuls /\ DOMAIN rest = DOMAIN todo \ {m}
      /\ \A q \in DOMAIN todo \ {m} : rest[q] = todo[q]
  BY PartOfHand
<1>4. Done(e) \/ Step(e, s, rest)
  BY <1>2
<1> HIDE DEF rest
<1>5. PICK state \in EditorRecords :
         /\ Move(e, state) /\ HandOK(e)'
         /\ \/ state.calm = FALSE
            \/ state.at = s /\ state.todo = rest /\ state.calm = op[e].calm
  <2>1. CASE Done(e)
    BY <2>1, DoneFacts
  <2>2. CASE Step(e, s, rest)
    <3>1. op[e].at \in Batches /\ s \in Batches \ {"rows"}
      BY <1>1 DEF At, Batches
    <3>2. DOMAIN todo \ {m} \in SUBSET DOMAIN todo
      OBVIOUS
    <3> QED BY <1>1, <1>3, <2>2, <3>1, <3>2, BatchGoes
  <2> QED BY <1>4, <2>1, <2>2
<1>6. op[e].at \notin {"stale", "reread"}
  BY <1>1 DEF At
<1>7. /\ m \in Memories
      /\ vectors' \in [Memories -> {Blank} \cup VectorRows]
      /\ \A q \in Memories : ~Taken(q) => vectors'[q] = Blank
      /\ \A q \in Memories \ {m} : vectors'[q] = vectors[q]
      /\ Live(m) => vectors'[m] = [status |-> status, text |-> todo[m]]
      /\ VectorsOK'
  BY <1>1, <1>2, <1>5, <1>6, Upserted
<1>8. state.calm => CalmOK'
  <2> SUFFICES ASSUME state.calm PROVE CalmOK'
    OBVIOUS
  <2>1. op[e].calm /\ state.at = s /\ state.todo = rest
    BY <1>5
  <2>2. /\ \A x \in Editors \ {e} : At(x, "idle")
        /\ \A q \in DOMAIN todo : Live(q) => todo[q] = memories[q].text
        /\ \A q \in Memories \ DOMAIN todo : Live(q) => Current(q)
    BY <2>1 DEF MemoriesInv, CalmOK
  <2>3. \A q \in DOMAIN rest : Live(q)' => rest[q] = memories'[q].text
    BY <1>1, <1>3, <2>2 DEF Live
  <2>4. ASSUME NEW q \in Memories \ DOMAIN rest, Live(q)' PROVE Current(q)'
    <3>1. CASE q = m
      <4>1. vectors'[m].text = memories[m].text
        BY <1>1, <1>7, <2>2, <2>4, <3>1 DEF Live
      <4> QED BY <1>1, <3>1, <4>1 DEF Current
    <3>2. CASE q # m
      <4>1. q \in Memories \ DOMAIN todo /\ Live(q)
        BY <1>1, <1>3, <2>4, <3>2 DEF Live
      <4> QED BY <1>1, <1>7, <2>2, <3>2, <4>1 DEF Current
    <3> QED BY <3>1, <3>2
  <2>5. state.at \in Batches /\ state.at # "rows"
    BY <2>1 DEF Batches
  <2> QED BY <1>5, <2>1, <2>2, <2>3, <2>4, <2>5, CalmHolds
<1> QED BY <1>1, <1>5, <1>7, <1>8, Onward

LEMMA BatchEndsKeeps ==
    ASSUME MemoriesInv, NEW e \in Editors, BatchEnds(e)
    PROVE  MemoriesInv'
<1>1. /\ op[e].at \in {"store", "fail"} /\ DOMAIN op[e].todo = {} /\ Done(e)
      /\ UNCHANGED <<memories, fts, vectors, unlisted>>
      /\ unsure' = IF op[e].calm THEN {} ELSE unsure
  BY DEF BatchEnds
<1>2. Move(e, Idle) /\ Idle \in EditorRecords /\ Idle.calm = FALSE /\ HandOK(e)'
  BY <1>1, DoneFacts
<1>3. CASE ~op[e].calm
  <2>1. VectorsOK'
    BY <1>1, <1>2, <1>3, VectorsStay
  <2> QED BY <1>1, <1>2, <1>3, <2>1, VectorTypes, Onward
<1>4. CASE op[e].calm
  <2>1. /\ \A x \in Editors \ {e} : At(x, "idle")
        /\ \A m \in Memories : Live(m) => Current(m)
    BY <1>1, <1>4 DEF MemoriesInv, CalmOK
  <2>2. \A x \in Editors \ {e} : DOMAIN op[x].todo = {}
    BY <2>1, CallFacts
  <2>3. \A q \in Memories : Spared(e, q)
    BY <1>1, <2>2 DEF Spared, Taken, Live
  <2>4. VectorsOK'
    BY <1>1, <2>1 DEF VectorsOK, Live, Current
  <2>5. MemoryTypes' /\ UntakenOK' /\ ListedOK'
    BY <1>1, <1>2, MoveFacts DEF MemoriesInv, MemoryTypes, UntakenOK, ListedOK, Taken, Live
  <2> QED BY <1>2, <2>3, <2>4, <2>5, Gathered
<1> QED BY <1>3, <1>4

LEMMA PurgeKeeps ==
    ASSUME MemoriesInv, NEW e \in Editors, Purge(e)
    PROVE  MemoriesInv'
<1>1. At(e, "idle") /\ Done(e) /\ UNCHANGED <<memories, fts, unsure, unlisted>>
  BY DEF Purge, Called
<1>2. vectors' = [m \in Memories |->
         IF Live(m) /\ vectors[m] # Blank /\ vectors[m].status = "stale" THEN Blank ELSE vectors[m]]
  BY DEF Purge
<1>3. Move(e, Idle) /\ Idle \in EditorRecords /\ Idle.calm = FALSE /\ HandOK(e)'
  BY <1>1, DoneFacts
<1>4. /\ vectors' \in [Memories -> {Blank} \cup VectorRows]
      /\ \A q \in Memories : vectors'[q] \in {Blank, vectors[q]}
  <2> HIDE DEF Memories, VectorRows, Blank
  <2> QED BY <1>2, VectorTypes
<1>5. VectorsOK'
  <2> SUFFICES ASSUME NEW q \in Memories, Live(q) PROVE Current(q)' \/ Covered(q)'
    BY <1>1 DEF VectorsOK, Live
  <2>1. Current(q) \/ Covered(q)
    BY DEF MemoriesInv, VectorsOK
  <2>2. Current(q) => Current(q)'
    BY <1>1, <1>4 DEF Current
  <2>3. Covered(q) => Covered(q)'
    BY <1>1, <1>3, CoverStays DEF At
  <2> QED BY <2>1, <2>2, <2>3
<1>6. \A q \in Memories : ~Taken(q) => vectors'[q] = Blank
  BY <1>4, VectorTypes
<1> QED BY <1>1, <1>3, <1>4, <1>5, <1>6, Onward

LEMMA EditorStopKeeps ==
    ASSUME MemoriesInv, NEW e \in Editors, EditorStops(e)
    PROVE  MemoriesInv'
<1>1. /\ Done(e) /\ UNCHANGED <<memories, fts, vectors, unlisted>>
      /\ unsure' = IF op[e].at \in {"stale", "reread"} THEN unsure \cup {The(e)} ELSE unsure
  BY DEF EditorStops
<1>2. Move(e, Idle) /\ Idle \in EditorRecords /\ Idle.calm = FALSE /\ HandOK(e)'
  BY <1>1, DoneFacts
<1>3. op[e].at \in {"stale", "reread"} => DOMAIN op[e].todo = {The(e)}
  BY TheFacts DEF Single
<1>4. VectorsOK'
  <2> SUFFICES ASSUME NEW q \in Memories, Live(q) PROVE Current(q)' \/ Covered(q)'
    BY <1>1 DEF VectorsOK, Live
  <2>1. Current(q) \/ Covered(q)
    BY DEF MemoriesInv, VectorsOK
  <2>2. Current(q) => Current(q)'
    BY <1>1 DEF Current
  <2>3. Covered(q) => Covered(q)'
    <3>1. CASE op[e].at \in {"stale", "reread"} /\ q \in DOMAIN op[e].todo
      BY <1>1, <1>3, <3>1 DEF Covered
    <3>2. CASE ~(op[e].at \in {"stale", "reread"} /\ q \in DOMAIN op[e].todo)
      <4>1. q \in unsure => q \in unsure'
        BY <1>1
      <4> QED BY <1>2, <3>2, <4>1, CoverStays
    <3> QED BY <3>1, <3>2
  <2> QED BY <2>1, <2>2, <2>3
<1>5. unsure \subseteq unsure'
  BY <1>1
<1> QED BY <1>1, <1>2, <1>4, <1>5, VectorTypes, Onward

LEMMA MemoriesInitially == MemoriesInit => MemoriesInv
<1> SUFFICES ASSUME MemoriesInit PROVE MemoriesInv
  OBVIOUS
<1> DEFINE row == [state |-> "absent", archived |-> FALSE, status |-> "active", text |-> Blank]
<1>1. /\ memories = [m \in Memories |-> row] /\ op = [e \in Editors |-> Idle]
      /\ fts = [m \in Memories |-> Blank] /\ vectors = [m \in Memories |-> Blank]
  BY DEF MemoriesInit
<1>2. row \in MemoryRows /\ row.state = "absent"
  <2> HIDE DEF Lines, Blank
  <2> QED BY LineFacts DEF MemoryRows
<1> HIDE DEF row
<1>3. MemoryTypes
  <2>1. Idle \in EditorRecords /\ Blank \in Lines
    BY IdleFacts, LineFacts
  <2> HIDE DEF Memories, MemoryRows, VectorRows, Lines, Blank, EditorRecords, Idle
  <2> QED BY <1>1, <1>2, <2>1 DEF MemoryTypes
<1>4. \A e \in Editors : HandOK(e) /\ ~op[e].calm
  BY <1>1, IdleFacts DEF HandOK, At, Single
<1>5. \A m \in Memories : ~Live(m) /\ fts[m] = Blank /\ vectors[m] = Blank
  BY <1>1, <1>2 DEF Live
<1> QED BY <1>3, <1>4, <1>5 DEF MemoriesInv, UntakenOK, ListedOK, VectorsOK, CalmOK

LEMMA EditorKeeps ==
    ASSUME MemoriesInv, NEW e \in Editors, EditorStep(e)
    PROVE  MemoriesInv'
<1>1. CASE Create(e)
  BY <1>1, CreateKeeps
<1>2. CASE InsertKeyword(e)
  BY <1>2, InsertKeywordKeeps
<1>3. CASE EditText(e)
  BY <1>3, EditTextKeeps
<1>4. CASE ChatEdit(e)
  BY <1>4, ChatEditKeeps
<1>5. CASE Merge(e)
  BY <1>5, MergeKeeps
<1>6. CASE Reread(e)
  BY <1>6, RereadKeeps
<1>7. CASE MarkStale(e)
  BY <1>7, MarkStaleKeeps
<1>8. CASE Look(e)
  BY <1>8, LookKeeps
<1>9. CASE Embedded(e)
  BY <1>9, EmbeddedKeeps
<1>10. CASE Archive(e)
  BY <1>10, ArchiveKeeps
<1>11. CASE Restore(e)
  BY <1>11, RestoreKeeps
<1>12. CASE Restored(e)
  BY <1>12, RestoredKeeps
<1>13. CASE DeleteMemory(e)
  BY <1>13, DeleteKeeps
<1>14. CASE Forget(e)
  BY <1>14, ForgetKeeps
<1>15. CASE Deduplicate(e)
  BY <1>15, DeduplicateKeeps
<1>16. CASE Rebuild(e)
  BY <1>16, RebuildKeeps
<1>17. CASE \E force \in BOOLEAN : Select(e, force)
  BY <1>17, SelectKeeps
<1>18. CASE Retry(e)
  BY <1>18, RetryKeeps
<1>19. CASE EmbedBatch(e)
  BY <1>19, EmbedBatchKeeps
<1>20. CASE Store(e, "store", "ready") \/ Store(e, "fail", "failed")
  BY <1>20, StoreKeeps
<1>21. CASE BatchEnds(e)
  BY <1>21, BatchEndsKeeps
<1>22. CASE Purge(e)
  BY <1>22, PurgeKeeps
<1>23. CASE EditorStops(e)
  BY <1>23, EditorStopKeeps
<1> QED BY <1>1, <1>2, <1>3, <1>4, <1>5, <1>6, <1>7, <1>8, <1>9, <1>10, <1>11, <1>12, <1>13,
           <1>14, <1>15, <1>16, <1>17, <1>18, <1>19, <1>20, <1>21, <1>22, <1>23 DEF EditorStep

LEMMA MemoriesStay ==
    ASSUME MemoriesInv, UNCHANGED <<memories, fts, vectors, op, unsure, unlisted>>
    PROVE  MemoriesInv'
BY DEF MemoriesInv, MemoryTypes, HandOK, UntakenOK, ListedOK, VectorsOK, CalmOK, Current, Covered,
       Taken, Live, At

\* What editors that wait for the embedding provider have in hand while others
\* write: a vector about to be stored is of the present text, or its memory is
\* among those in doubt or the reader is still to mark or read it again.
THEOREM MemoryInvariance == MemorySpec => []MemoriesInv
<1>1. MemoryInit => MemoriesInv
  BY MemoriesInitially DEF MemoryInit
<1>2. ASSUME MemoriesInv, [MemoryNext]_<<memoriesVars, consolidationVars, recallVars>>
      PROVE  MemoriesInv'
  <2>1. CASE Editing
    BY <1>2, <2>1, EditorKeeps DEF Editing
  <2>2. CASE Consolidating
    BY <1>2, <2>2, MemoriesStay DEF Consolidating, memoriesVars
  <2>3. CASE Pin
    BY <1>2, <2>3, MemoriesStay DEF Pin
  <2>4. CASE RecallStep
    BY <1>2, <2>4, MemoriesStay DEF RecallStep, RecallReads, memoriesVars, Ask, SearchWords,
       SearchText, EmbedQuery, LoadVectors, ReadRow, RowsEnd, Choose, AddResidents
  <2>5. CASE UNCHANGED <<memoriesVars, consolidationVars, recallVars>>
    BY <1>2, <2>5, MemoriesStay DEF memoriesVars
  <2> QED BY <1>2, <2>1, <2>2, <2>3, <2>4, <2>5 DEF MemoryNext
<1> QED BY <1>1, <1>2, PTL DEF MemorySpec

\* The keyword rows and ready vectors of the memories are of their present
\* texts, for any number of editors and memories.
THEOREM IndexStaysCurrent == MemorySpec => []IndexIsCurrent
<1>1. MemoriesInv => IndexIsCurrent
  <2> SUFFICES ASSUME MemoriesInv, NEW m \in Memories, Live(m)
               PROVE  /\ fts[m] # Blank /\ m \notin unlisted => fts[m] = memories[m].text
                      /\ Current(m) \/ m \in unsure
                            \/ \E e \in Editors : op[e].at \in {"stale", "reread"} /\ m = The(e)
    BY DEF IndexIsCurrent, Current
  <2>1. fts[m] # Blank /\ m \notin unlisted => fts[m] = memories[m].text
    BY DEF MemoriesInv, ListedOK
  <2>2. Current(m) \/ Covered(m)
    BY DEF MemoriesInv, VectorsOK
  <2>3. ASSUME NEW e \in Editors, op[e].at \in {"stale", "reread"}, m \in DOMAIN op[e].todo
        PROVE  m = The(e)
    BY <2>3, TheFacts DEF Single
  <2> QED BY <2>1, <2>2, <2>3 DEF Covered
<1> QED BY <1>1, MemoryInvariance, PTL

-----------------------------------------------------------------------------

Sights == [id : Memories, text : Lines, archived : BOOLEAN]

RecallStages == {"idle", "words", "text", "embed", "vectors", "rows", "items", "resident", "answered"}

RecallRecords ==
    [at : RecallStages, query : Lines, semantic : BOOLEAN, sparse : Handfuls, dense : Handfuls,
     todo : SUBSET Memories, facts : SUBSET Facts, dynamic : Handfuls, resident : Handfuls,
     window : SUBSET Sights, calm : BOOLEAN]

Stood(r, m, text) == \E row \in r.window : row.id = m /\ row.text = text
Visible(r, m) == \E row \in r.window : row.id = m /\ ~row.archived

\* What a recall has found was in the table during the call, and to be seen.
Witnessed(r, found) == \A m \in DOMAIN found : Stood(r, m, found[m]) /\ Visible(r, m)

RecallOK(r) ==
    /\ r \in RecallRecords
    /\ r.at \notin {"idle", "answered"} => Rows \subseteq r.window
    /\ Witnessed(r, r.sparse) /\ Witnessed(r, r.dense)
    /\ Witnessed(r, r.dynamic) /\ Witnessed(r, r.resident)
    /\ \A m \in r.todo : Visible(r, m)
    /\ r.calm /\ r.query # Blank /\ r.at \notin {"idle", "words", "text"}
          /\ (\E m \in Memories : Shown(m) /\ InText(m, r.query)) => DOMAIN r.sparse # {}

RecallInv == pinned \subseteq Memories /\ RecallOK(recall)

LEMMA RowFacts ==
    ASSUME MemoriesInv
    PROVE  /\ Rows \subseteq Sights
           /\ \A m \in Memories : Live(m) =>
                 \E row \in Rows : /\ row.id = m /\ row.text = memories[m].text
                                   /\ row.archived = memories[m].archived
<1>1. \A m \in Memories : memories[m].text \in Lines /\ memories[m].archived \in BOOLEAN
  <2> HIDE DEF Lines, Memories
  <2> QED BY DEF MemoriesInv, MemoryTypes, MemoryRows
<1> DEFINE row(m) == [id |-> m, text |-> memories[m].text, archived |-> memories[m].archived]
<1>2. Rows = {row(m) : m \in {q \in Memories : Live(q)}}
  BY DEF Rows
<1>3. \A m \in Memories : /\ row(m) \in Sights /\ row(m).id = m
                         /\ row(m).text = memories[m].text /\ row(m).archived = memories[m].archived
  <2> HIDE DEF Lines, Memories
  <2> QED BY <1>1 DEF Sights
<1> HIDE DEF row, Sights
<1>4. Rows \subseteq Sights
  BY <1>2, <1>3
<1>5. ASSUME NEW m \in Memories, Live(m)
      PROVE  row(m) \in Rows
  BY <1>2, <1>5
<1> QED BY <1>3, <1>4, <1>5

LEMMA NoRecallFacts == NoRecall \in RecallRecords /\ RecallOK(NoRecall)
<1>1. Blank \in Handfuls /\ Blank \in Lines /\ DOMAIN Blank = {}
  BY EmptyHandful, LineFacts
<1> HIDE DEF Blank, Handfuls, Lines
<1>2. NoRecall \in RecallRecords
  BY <1>1 DEF NoRecall, RecallRecords, RecallStages
<1> QED BY <1>1, <1>2 DEF NoRecall, RecallOK, Witnessed

\* Rows that are shown, with their texts.
LEMMA TextedFacts ==
    ASSUME MemoriesInv, RecallInv, recall.at \notin {"idle", "answered"},
           NEW found \in SUBSET Memories, \A m \in found : Shown(m)
    PROVE  /\ Texted(found) \in Handfuls /\ DOMAIN Texted(found) = found
           /\ Witnessed(recall, Texted(found))
<1>1. \A m \in found : Live(m) /\ ~memories[m].archived /\ memories[m].text \in Lines
  BY DEF Shown, MemoriesInv, MemoryTypes, MemoryRows
<1>2. /\ Texted(found) \in [found -> Lines] /\ DOMAIN Texted(found) = found
      /\ \A m \in found : Texted(found)[m] = memories[m].text
  BY <1>1 DEF Texted
<1>3. \A m \in found : Stood(recall, m, memories[m].text) /\ Visible(recall, m)
  BY <1>1, RowFacts DEF RecallInv, RecallOK, Stood, Visible
<1> QED BY <1>2, <1>3 DEF Handfuls, Witnessed

LEMMA OverFacts ==
    ASSUME NEW r, NEW f \in Handfuls, NEW g \in Handfuls
    PROVE  /\ Over(f, g) \in Handfuls /\ DOMAIN Over(f, g) = DOMAIN f \cup DOMAIN g
           /\ Witnessed(r, f) /\ Witnessed(r, g) => Witnessed(r, Over(f, g))
<1> DEFINE D == DOMAIN f \cup DOMAIN g
<1>1. /\ DOMAIN Over(f, g) = D
      /\ \A m \in D : Over(f, g)[m] = IF m \in DOMAIN f THEN f[m] ELSE g[m]
  BY DEF Over
<1>2. D \in SUBSET Memories /\ \A m \in D : Over(f, g)[m] \in Lines
  BY <1>1, HandfulFacts
<1>3. Over(f, g) = [m \in D |-> Over(f, g)[m]]
  BY DEF Over
<1>4. Over(f, g) \in [D -> Lines]
  BY <1>2, <1>3
<1> QED BY <1>1, <1>2, <1>4 DEF Handfuls, Witnessed

\* A recall that goes on in a window that grows.
LEMMA RecallMoves ==
    ASSUME MemoriesInv, RecallInv, UNCHANGED <<memories, pinned>>, NEW r, recall' = r, RecallOK(r)
    PROVE  RecallInv'
BY DEF RecallInv, RecallOK, Rows, Live, Shown, InText, Parts, Witnessed, Stood, Visible

LEMMA AskKeeps ==
    ASSUME MemoriesInv, RecallInv, Ask
    PROVE  RecallInv'
<1>1. recall.at = "idle" /\ UNCHANGED <<memories, pinned>>
  BY DEF Ask, RecallReads, memoriesVars
<1>2. PICK message \in Said, recent \in Said, semantic \in BOOLEAN :
         recall' = [NoRecall EXCEPT !.query = Enriched(message, recent),
             !.semantic = semantic, !.window = Rows,
             !.at = IF message = Blank THEN "answered" ELSE "words"]
  BY DEF Ask
<1> DEFINE query == Enriched(message, recent)
           at == IF message = Blank THEN "answered" ELSE "words"
           r == [NoRecall EXCEPT !.query = query, !.semantic = semantic, !.window = Rows, !.at = at]
<1>3. query \in Lines /\ (message = Blank => query = Blank)
  <2>1. message \in Lines /\ recent \in Lines
    BY LineFacts DEF Said
  <2> QED BY <2>1, LineFacts DEF Enriched
<1>4. Rows \in SUBSET Sights
  BY RowFacts
<1>5. at \in {"answered", "words"} /\ (at = "answered" => message = Blank)
  OBVIOUS
<1>6. NoRecall \in RecallRecords /\ RecallOK(NoRecall)
  BY NoRecallFacts
<1>7. recall' = r
  BY <1>2
<1> HIDE DEF query, at
<1>8. /\ r \in RecallRecords
      /\ r.at = at /\ r.query = query /\ r.window = Rows /\ r.todo = {}
      /\ r.sparse = Blank /\ r.dense = Blank /\ r.dynamic = Blank /\ r.resident = Blank
  <2>1. at \in RecallStages
    BY <1>5 DEF RecallStages
  <2>2. /\ NoRecall.sparse = Blank /\ NoRecall.dense = Blank /\ NoRecall.dynamic = Blank
        /\ NoRecall.resident = Blank /\ NoRecall.todo = {}
    BY DEF NoRecall
  <2> HIDE DEF NoRecall, Handfuls, Lines, Memories, Sights, RecallStages, Rows, Blank
  <2> QED BY <1>3, <1>4, <1>6, <2>1, <2>2 DEF RecallRecords
<1>9. RecallOK(r)
  <2>1. DOMAIN Blank = {}
    BY EmptyHandful
  <2> HIDE DEF r, Blank
  <2> QED BY <1>3, <1>5, <1>8, <2>1 DEF RecallOK, Witnessed
<1> QED BY <1>1, <1>7, <1>9, RecallMoves

\* A step of a recall between its first read and its answer.
LEMMA RecallGoes ==
    ASSUME RecallOK(recall), recall.at \notin {"idle", "answered"},
           NEW r \in RecallRecords, r.window = recall.window, r.calm = recall.calm,
           r.query = recall.query,
           Witnessed(recall, r.sparse), Witnessed(recall, r.dense),
           Witnessed(recall, r.dynamic), Witnessed(recall, r.resident),
           \A m \in r.todo : Visible(recall, m),
           \/ r.at \in {"words", "text"}
           \/ DOMAIN r.sparse # {}
           \/ r.sparse = recall.sparse /\ recall.at \notin {"words", "text"}
           \/ ~ \E m \in Memories : Shown(m) /\ InText(m, r.query)
    PROVE  RecallOK(r)
BY DEF RecallOK, Witnessed, Stood, Visible

LEMMA RecallFields ==
    ASSUME RecallInv, recall.at \notin {"idle", "answered"}
    PROVE  /\ recall \in RecallRecords /\ RecallOK(recall)
           /\ Witnessed(recall, recall.sparse) /\ Witnessed(recall, recall.dense)
           /\ Witnessed(recall, recall.dynamic) /\ Witnessed(recall, recall.resident)
           /\ \A m \in recall.todo : Visible(recall, m)
BY DEF RecallInv, RecallOK

LEMMA NothingTexted == Texted({}) = Blank
BY DEF Texted, Blank

LEMMA SearchWordsKeeps ==
    ASSUME MemoriesInv, RecallInv, SearchWords
    PROVE  RecallInv'
<1>1. recall.at = "words" /\ UNCHANGED <<memories, pinned>>
  BY DEF SearchWords, RecallReads, memoriesVars
<1>2. PICK found \in {ByWords(recall.query), Blank} :
         recall' = [recall EXCEPT !.sparse = found,
                                  !.at = IF found = Blank THEN "text" ELSE "embed"]
  BY DEF SearchWords
<1> DEFINE at == IF found = Blank THEN "text" ELSE "embed"
           r == [recall EXCEPT !.sparse = found, !.at = at]
           S == {m \in Memories : Shown(m) /\ fts[m] # Blank /\ Parts(recall.query) \subseteq Parts(fts[m])}
<1>3. /\ Texted(S) \in Handfuls /\ DOMAIN Texted(S) = S /\ Witnessed(recall, Texted(S))
  <2>1. S \in SUBSET Memories /\ \A m \in S : Shown(m)
    OBVIOUS
  <2> HIDE DEF S
  <2> QED BY <1>1, <2>1, TextedFacts
<1>4. ByWords(recall.query) = Texted(S)
  BY DEF ByWords
<1> HIDE DEF S
<1>5. /\ found \in Handfuls /\ Witnessed(recall, found)
      /\ found # Blank => DOMAIN found # {}
  <2>1. Blank \in Handfuls /\ Witnessed(recall, Blank)
    BY EmptyHandful DEF Witnessed
  <2>2. Texted(S) # Blank => S # {}
    BY NothingTexted
  <2> QED BY <1>2, <1>3, <1>4, <2>1, <2>2
<1>6. at \in {"text", "embed"} /\ (at = "embed" => found # Blank)
  OBVIOUS
<1>7. recall' = r
  BY <1>2
<1> HIDE DEF at
<1>8. recall \in RecallRecords /\ at \in RecallStages
  BY <1>6 DEF RecallInv, RecallOK, RecallStages
<1>9. /\ r \in RecallRecords
      /\ r.at = at /\ r.sparse = found /\ r.window = recall.window /\ r.calm = recall.calm
      /\ r.query = recall.query /\ r.dense = recall.dense /\ r.dynamic = recall.dynamic
      /\ r.resident = recall.resident /\ r.todo = recall.todo
  <2> HIDE DEF Handfuls, Lines, Memories, Sights, RecallStages
  <2> QED BY <1>5, <1>8 DEF RecallRecords
<1> HIDE DEF r
<1>10. RecallOK(r)
  BY <1>1, <1>5, <1>6, <1>9, RecallFields, RecallGoes
<1> QED BY <1>1, <1>7, <1>10, RecallMoves

LEMMA SearchTextKeeps ==
    ASSUME MemoriesInv, RecallInv, SearchText
    PROVE  RecallInv'
<1> DEFINE S == {m \in Memories : Shown(m) /\ InText(m, recall.query)}
           found == Texted(S)
           r == [recall EXCEPT !.at = "embed", !.sparse = found]
<1>1. recall.at = "text" /\ UNCHANGED <<memories, pinned>> /\ recall' = r
  BY DEF SearchText, RecallReads, memoriesVars, ByText
<1>2. found \in Handfuls /\ DOMAIN found = S /\ Witnessed(recall, found)
  <2>1. S \in SUBSET Memories /\ \A m \in S : Shown(m)
    OBVIOUS
  <2> HIDE DEF S
  <2> QED BY <1>1, <2>1, TextedFacts
<1> HIDE DEF found
<1>3. recall \in RecallRecords /\ "embed" \in RecallStages
  BY DEF RecallInv, RecallOK, RecallStages
<1>4. /\ r \in RecallRecords
      /\ r.at = "embed" /\ r.sparse = found /\ r.window = recall.window /\ r.calm = recall.calm
      /\ r.query = recall.query /\ r.dense = recall.dense /\ r.dynamic = recall.dynamic
      /\ r.resident = recall.resident /\ r.todo = recall.todo
  <2> HIDE DEF Handfuls, Lines, Memories, Sights, RecallStages
  <2> QED BY <1>2, <1>3 DEF RecallRecords
<1> HIDE DEF r
<1>5. DOMAIN found # {} \/ ~ \E m \in Memories : Shown(m) /\ InText(m, recall.query)
  BY <1>2
<1>6. RecallOK(r)
  BY <1>1, <1>2, <1>4, <1>5, RecallFields, RecallGoes
<1> QED BY <1>1, <1>6, RecallMoves

LEMMA EmbedQueryKeeps ==
    ASSUME MemoriesInv, RecallInv, EmbedQuery \/ RowsEnd
    PROVE  RecallInv'
<1>1. recall.at \in {"embed", "rows"} /\ UNCHANGED <<memories, pinned>>
  BY DEF EmbedQuery, RowsEnd, RecallReads, memoriesVars
<1>2. PICK next \in {"vectors", "items"} : recall' = [recall EXCEPT !.at = next]
  BY DEF EmbedQuery, RowsEnd
<1> DEFINE r == [recall EXCEPT !.at = next]
<1>3. recall \in RecallRecords /\ next \in RecallStages
  BY DEF RecallInv, RecallOK, RecallStages
<1>4. /\ r \in RecallRecords
      /\ r.at = next /\ r.sparse = recall.sparse /\ r.window = recall.window
      /\ r.calm = recall.calm /\ r.query = recall.query /\ r.dense = recall.dense
      /\ r.dynamic = recall.dynamic /\ r.resident = recall.resident /\ r.todo = recall.todo
  <2> HIDE DEF Handfuls, Lines, Memories, Sights, RecallStages
  <2> QED BY <1>3 DEF RecallRecords
<1>5. recall' = r
  BY <1>2
<1> HIDE DEF r
<1>6. RecallOK(r)
  BY <1>1, <1>4, RecallFields, RecallGoes
<1> QED BY <1>1, <1>5, <1>6, RecallMoves

LEMMA LoadVectorsKeeps ==
    ASSUME MemoriesInv, RecallInv, LoadVectors
    PROVE  RecallInv'
<1> DEFINE S == {m \in Memories : Shown(m) /\ vectors[m] # Blank /\ vectors[m].status = "ready"}
           r == [recall EXCEPT !.at = "rows", !.todo = S]
<1>1. recall.at = "vectors" /\ UNCHANGED <<memories, pinned>> /\ recall' = r
  BY DEF LoadVectors, RecallReads, memoriesVars
<1>2. S \in SUBSET Memories /\ \A m \in S : Visible(recall, m)
  BY <1>1, RowFacts DEF Shown, RecallInv, RecallOK, Visible
<1> HIDE DEF S
<1>3. recall \in RecallRecords /\ "rows" \in RecallStages
  BY DEF RecallInv, RecallOK, RecallStages
<1>4. /\ r \in RecallRecords
      /\ r.at = "rows" /\ r.sparse = recall.sparse /\ r.window = recall.window
      /\ r.calm = recall.calm /\ r.query = recall.query /\ r.dense = recall.dense
      /\ r.dynamic = recall.dynamic /\ r.resident = recall.resident /\ r.todo = S
  <2> HIDE DEF Handfuls, Lines, Memories, Sights, RecallStages
  <2> QED BY <1>2, <1>3 DEF RecallRecords
<1> HIDE DEF r
<1>5. RecallOK(r)
  BY <1>1, <1>2, <1>4, RecallFields, RecallGoes
<1> QED BY <1>1, <1>5, RecallMoves

LEMMA ReadRowKeeps ==
    ASSUME MemoriesInv, RecallInv, ReadRow
    PROVE  RecallInv'
<1>1. recall.at = "rows" /\ UNCHANGED <<memories, pinned>>
  BY DEF ReadRow, RecallReads, memoriesVars
<1>2. PICK m \in recall.todo :
         recall' = [recall EXCEPT !.todo = @ \ {m},
             !.dense = IF Live(m) THEN Over(@, One(m, memories[m].text)) ELSE @]
  BY DEF ReadRow
<1> DEFINE text == memories[m].text
           dense == IF Live(m) THEN Over(recall.dense, One(m, text)) ELSE recall.dense
           todo == recall.todo \ {m}
           r == [recall EXCEPT !.todo = todo, !.dense = dense]
<1>3. recall \in RecallRecords /\ recall.dense \in Handfuls /\ recall.todo \in SUBSET Memories
  <2> HIDE DEF Handfuls, Lines, Memories, Sights, RecallStages
  <2> QED BY DEF RecallInv, RecallOK, RecallRecords
<1>4. m \in Memories /\ Visible(recall, m) /\ text \in Lines
  BY <1>1, <1>3, RecallFields DEF MemoriesInv, MemoryTypes, MemoryRows
<1>5. Live(m) => Stood(recall, m, text)
  BY <1>1, <1>4, RowFacts DEF RecallInv, RecallOK, Stood
<1>6. recall' = r
  BY <1>2
<1> HIDE DEF text
<1>7. dense \in Handfuls /\ Witnessed(recall, dense)
  <2>1. Witnessed(recall, recall.dense)
    BY <1>1, RecallFields
  <2>2. CASE Live(m)
    <3>1. /\ One(m, text) \in Handfuls /\ DOMAIN One(m, text) = {m} /\ One(m, text)[m] = text
      BY <1>4, OneFacts
    <3>2. Witnessed(recall, One(m, text))
      BY <1>4, <1>5, <2>2, <3>1 DEF Witnessed
    <3> QED BY <1>3, <2>1, <2>2, <3>1, <3>2, OverFacts
  <2>3. CASE ~Live(m)
    BY <1>3, <2>1, <2>3
  <2> QED BY <2>2, <2>3
<1>8. todo \in SUBSET Memories /\ \A q \in todo : Visible(recall, q)
  BY <1>1, <1>3, RecallFields
<1> HIDE DEF dense, todo
<1>9. /\ r \in RecallRecords
      /\ r.at = recall.at /\ r.sparse = recall.sparse /\ r.window = recall.window
      /\ r.calm = recall.calm /\ r.query = recall.query /\ r.dense = dense
      /\ r.dynamic = recall.dynamic /\ r.resident = recall.resident /\ r.todo = todo
  <2> HIDE DEF Handfuls, Lines, Memories, Sights, RecallStages
  <2> QED BY <1>3, <1>7, <1>8 DEF RecallRecords
<1> HIDE DEF r
<1>10. RecallOK(r)
  BY <1>1, <1>7, <1>8, <1>9, RecallFields, RecallGoes
<1> QED BY <1>1, <1>6, <1>10, RecallMoves

LEMMA FusedFacts ==
    ASSUME RecallInv, recall.at \notin {"idle", "answered"}
    PROVE  Fused \in Handfuls /\ Witnessed(recall, Fused)
<1>1. recall.sparse \in Handfuls /\ recall.dense \in Handfuls
  <2> HIDE DEF Handfuls, Lines, Memories, Sights, RecallStages
  <2> QED BY DEF RecallInv, RecallOK, RecallRecords
<1> QED BY <1>1, RecallFields, OverFacts DEF Fused

LEMMA ChooseKeeps ==
    ASSUME MemoriesInv, RecallInv, Choose
    PROVE  RecallInv'
<1>1. recall.at = "items" /\ UNCHANGED <<memories, pinned>>
  BY DEF Choose, RecallReads, memoriesVars
<1>2. PICK facts \in ItemsFound :
         IF Fused = Blank /\ facts = {} THEN recall' = [recall EXCEPT !.at = "answered"]
         ELSE \E taken \in SUBSET DOMAIN Fused :
                  recall' = [recall EXCEPT !.at = "resident", !.facts = facts,
                                 !.dynamic = [m \in taken |-> Fused[m]]]
  BY DEF Choose
<1>3. recall \in RecallRecords /\ {"answered", "resident"} \subseteq RecallStages /\ facts \in SUBSET Facts
  BY DEF RecallInv, RecallOK, RecallStages, ItemsFound
<1>4. CASE recall' = [recall EXCEPT !.at = "answered"]
  <2> DEFINE r == [recall EXCEPT !.at = "answered"]
  <2>1. /\ r \in RecallRecords
        /\ r.at = "answered" /\ r.sparse = recall.sparse /\ r.window = recall.window
        /\ r.calm = recall.calm /\ r.query = recall.query /\ r.dense = recall.dense
        /\ r.dynamic = recall.dynamic /\ r.resident = recall.resident /\ r.todo = recall.todo
    <3> HIDE DEF Handfuls, Lines, Memories, Sights, RecallStages
    <3> QED BY <1>3 DEF RecallRecords
  <2>2. recall' = r
    BY <1>4
  <2> HIDE DEF r
  <2>3. RecallOK(r)
    BY <1>1, <2>1, RecallFields, RecallGoes
  <2> QED BY <1>1, <2>2, <2>3, RecallMoves
<1>5. ASSUME NEW taken \in SUBSET DOMAIN Fused,
             recall' = [recall EXCEPT !.at = "resident", !.facts = facts,
                            !.dynamic = [m \in taken |-> Fused[m]]]
      PROVE  RecallInv'
  <2> DEFINE dynamic == [m \in taken |-> Fused[m]]
             r == [recall EXCEPT !.at = "resident", !.facts = facts, !.dynamic = dynamic]
  <2>1. Fused \in Handfuls /\ Witnessed(recall, Fused)
    BY <1>1, FusedFacts
  <2>2. dynamic \in Handfuls /\ Witnessed(recall, dynamic)
    <3>1. taken \in SUBSET Memories /\ \A m \in taken : Fused[m] \in Lines
      BY <2>1, HandfulFacts
    <3> QED BY <2>1, <3>1, HandfulFacts DEF Witnessed
  <2>3. recall' = r
    BY <1>5
  <2> HIDE DEF dynamic
  <2>4. /\ r \in RecallRecords
        /\ r.at = "resident" /\ r.sparse = recall.sparse /\ r.window = recall.window
        /\ r.calm = recall.calm /\ r.query = recall.query /\ r.dense = recall.dense
        /\ r.dynamic = dynamic /\ r.resident = recall.resident /\ r.todo = recall.todo
    <3> HIDE DEF Handfuls, Lines, Memories, Sights, RecallStages
    <3> QED BY <1>3, <2>2 DEF RecallRecords
  <2> HIDE DEF r
  <2>5. RecallOK(r)
    BY <1>1, <2>2, <2>4, RecallFields, RecallGoes
  <2> QED BY <1>1, <2>3, <2>5, RecallMoves
<1> QED BY <1>2, <1>4, <1>5

LEMMA AddResidentsKeeps ==
    ASSUME MemoriesInv, RecallInv, AddResidents
    PROVE  RecallInv'
<1> DEFINE S == Residents \ DOMAIN recall.dynamic
           found == Texted(S)
           r == [recall EXCEPT !.at = "answered", !.resident = found]
<1>1. recall.at = "resident" /\ UNCHANGED <<memories, pinned>> /\ recall' = r
  BY DEF AddResidents, RecallReads, memoriesVars
<1>2. found \in Handfuls /\ DOMAIN found = S /\ Witnessed(recall, found)
  <2>1. S \in SUBSET Memories /\ \A m \in S : Shown(m)
    BY DEF Residents, RecallInv
  <2> HIDE DEF S
  <2> QED BY <1>1, <2>1, TextedFacts
<1> HIDE DEF S, found
<1>3. recall \in RecallRecords /\ "answered" \in RecallStages
  BY DEF RecallInv, RecallOK, RecallStages
<1>4. /\ r \in RecallRecords
      /\ r.at = "answered" /\ r.sparse = recall.sparse /\ r.window = recall.window
      /\ r.calm = recall.calm /\ r.query = recall.query /\ r.dense = recall.dense
      /\ r.dynamic = recall.dynamic /\ r.resident = found /\ r.todo = recall.todo
  <2> HIDE DEF Handfuls, Lines, Memories, Sights, RecallStages
  <2> QED BY <1>2, <1>3 DEF RecallRecords
<1> HIDE DEF r
<1>5. RecallOK(r)
  BY <1>1, <1>2, <1>4, RecallFields, RecallGoes
<1> QED BY <1>1, <1>5, RecallMoves

\* What others write is added to what the recall may have seen.
LEMMA WatchKeeps ==
    ASSUME MemoriesInv, MemoriesInv', RecallInv, pinned' \subseteq Memories, Watch
    PROVE  RecallInv'
<1>1. CASE recall.at \in {"idle", "answered"}
  <2>1. recall' = NoRecall /\ NoRecall \in RecallRecords
    BY <1>1, NoRecallFacts DEF Watch
  <2>2. /\ NoRecall.at = "idle" /\ NoRecall.query = Blank /\ NoRecall.sparse = Blank
        /\ NoRecall.dense = Blank /\ NoRecall.dynamic = Blank /\ NoRecall.resident = Blank
        /\ NoRecall.todo = {} /\ DOMAIN Blank = {}
    BY EmptyHandful DEF NoRecall
  <2> HIDE DEF Blank, NoRecall
  <2> QED BY <2>1, <2>2 DEF RecallInv, RecallOK, Witnessed
<1>2. CASE recall.at \notin {"idle", "answered"}
  <2> DEFINE window == recall.window \cup Rows'
             r == [recall EXCEPT !.window = window, !.calm = FALSE]
  <2>1. recall' = r
    BY <1>2 DEF Watch
  <2>2. recall \in RecallRecords /\ recall.window \in SUBSET Sights
    <3> HIDE DEF Handfuls, Lines, Memories, Sights, RecallStages
    <3> QED BY DEF RecallInv, RecallOK, RecallRecords
  <2>3. window \in SUBSET Sights
    <3>1. (Rows \subseteq Sights)'
      BY RowFacts, PTL
    <3> QED BY <2>2, <3>1 DEF Sights, Lines, Memories
  <2>4. recall.window \subseteq window /\ Rows' \subseteq window
    OBVIOUS
  <2> HIDE DEF window
  <2>5. /\ r \in RecallRecords
        /\ r.at = recall.at /\ r.sparse = recall.sparse /\ r.window = window
        /\ r.calm = FALSE /\ r.query = recall.query /\ r.dense = recall.dense
        /\ r.dynamic = recall.dynamic /\ r.resident = recall.resident /\ r.todo = recall.todo
    <3> HIDE DEF Handfuls, Lines, Memories, Sights, RecallStages
    <3> QED BY <2>2, <2>3 DEF RecallRecords
  <2> HIDE DEF r
  <2>6. /\ Witnessed(r, r.sparse) /\ Witnessed(r, r.dense)
        /\ Witnessed(r, r.dynamic) /\ Witnessed(r, r.resident)
        /\ \A m \in r.todo : Visible(r, m)
    BY <1>2, <2>4, <2>5, RecallFields DEF Witnessed, Stood, Visible
  <2>7. /\ r.at \notin {"idle", "answered"} => Rows' \subseteq r.window
    BY <2>4, <2>5
  <2> QED BY <2>1, <2>5, <2>6, <2>7 DEF RecallInv, RecallOK, Witnessed, Stood, Visible
<1> QED BY <1>1, <1>2

LEMMA RecallInitially == MemoryInit => RecallInv
<1> SUFFICES ASSUME MemoryInit PROVE RecallInv
  OBVIOUS
<1>1. recall = NoRecall /\ pinned = {}
  BY DEF MemoryInit, RecallInit
<1> QED BY <1>1, NoRecallFacts DEF RecallInv

LEMMA RecallKept ==
    ASSUME MemoriesInv, MemoriesInv', RecallInv,
           [MemoryNext]_<<memoriesVars, consolidationVars, recallVars>>
    PROVE  RecallInv'
<1>1. CASE Editing
  BY <1>1, WatchKeeps DEF Editing, RecallInv
<1>2. CASE Pin
  <2>1. pinned' \subseteq Memories
    BY <1>2 DEF Pin, RecallInv
  <2> QED BY <1>2, <2>1, WatchKeeps DEF Pin
<1>3. CASE Ask
  BY <1>3, AskKeeps
<1>4. CASE SearchWords
  BY <1>4, SearchWordsKeeps
<1>5. CASE SearchText
  BY <1>5, SearchTextKeeps
<1>6. CASE EmbedQuery \/ RowsEnd
  BY <1>6, EmbedQueryKeeps
<1>7. CASE LoadVectors
  BY <1>7, LoadVectorsKeeps
<1>8. CASE ReadRow
  BY <1>8, ReadRowKeeps
<1>9. CASE Choose
  BY <1>9, ChooseKeeps
<1>10. CASE AddResidents
  BY <1>10, AddResidentsKeeps
<1>11. CASE Consolidating \/ UNCHANGED <<memoriesVars, consolidationVars, recallVars>>
  <2>1. UNCHANGED <<memories, pinned, recall>>
    BY <1>11 DEF Consolidating, memoriesVars, recallVars
  <2>2. RecallOK(recall)
    BY DEF RecallInv
  <2> QED BY <2>1, <2>2, RecallMoves
<1> QED BY <1>1, <1>2, <1>3, <1>4, <1>5, <1>6, <1>7, <1>8, <1>9, <1>10, <1>11
        DEF MemoryNext, RecallStep

\* A recall that waits between its reads holds for each memory it has found a
\* text that stood in the table since the call began.
THEOREM RecallInvariance == MemorySpec => []RecallInv
<1>1. MemoryInit => RecallInv
  BY RecallInitially
<1>2. MemoriesInv /\ MemoriesInv' /\ RecallInv
         /\ [MemoryNext]_<<memoriesVars, consolidationVars, recallVars>> => RecallInv'
  BY RecallKept
<1> QED BY <1>1, <1>2, MemoryInvariance, PTL DEF MemorySpec

\* A recall tells no text that did not stand during the call, no memory that was
\* archived all through it, and finds what is there when nobody writes.
THEOREM RecallTellsTruth == MemorySpec => []RecallIsFaithful
<1>1. RecallInv => RecallIsFaithful
  <2> SUFFICES ASSUME RecallInv, recall.at = "answered", recall.query # Blank
               PROVE  /\ \A m \in DOMAIN Recalled :
                            /\ \E row \in recall.window : row.id = m /\ row.text = Recalled[m]
                            /\ \E row \in recall.window : row.id = m /\ ~row.archived
                      /\ recall.calm /\ (\E m \in Memories : Shown(m) /\ InText(m, recall.query))
                             => Fused # Blank
    BY DEF RecallIsFaithful, Answered
  <2>1. recall \in RecallRecords
    BY DEF RecallInv, RecallOK
  <2>2. /\ recall.dynamic \in Handfuls /\ recall.resident \in Handfuls
        /\ recall.sparse \in Handfuls /\ recall.dense \in Handfuls
    <3> HIDE DEF Handfuls, Lines, Memories, Sights, RecallStages
    <3> QED BY <2>1 DEF RecallRecords
  <2>3. Witnessed(recall, Recalled)
    BY <2>2, OverFacts DEF RecallInv, RecallOK, Recalled
  <2>4. DOMAIN Fused = DOMAIN recall.sparse \cup DOMAIN recall.dense /\ DOMAIN Blank = {}
    BY <2>2, OverFacts, EmptyHandful DEF Fused
  <2>5. recall.calm /\ (\E m \in Memories : Shown(m) /\ InText(m, recall.query))
           => DOMAIN recall.sparse # {}
    BY DEF RecallInv, RecallOK
  <2> QED BY <2>3, <2>4, <2>5 DEF Witnessed, Stood, Visible
<1> QED BY <1>1, RecallInvariance, PTL

-----------------------------------------------------------------------------

TurnStages == {"idle", "list", "decide", "first", "count", "again", "second", "trim"}

TurnRecords == [at : TurnStages, list : SUBSET Nat, fact : Facts \cup {NoFact}, found : Nat]

ConsolidationTypes ==
    /\ messages \in [Sessions -> SUBSET Nat] /\ size \in [Sessions -> Nat]
    /\ offered \in [Sessions -> SUBSET Nat] /\ turn \in [Sessions -> TurnRecords]
    /\ items \in [Facts -> Nat] /\ outages \in Nat

Whole(s) == messages[s] = 1..size[s]
Early(i) == \E n \in TurnSizes : i <= n
Unshown(s) == (1..size[s]) \ offered[s]

\* What no model has seen of a session is older than the newest min_new, and
\* once the turn's second extraction is behind it is at the start.
SessionOK(s) ==
    /\ messages[s] \subseteq 1..size[s]
    /\ turn[s].at \notin {"idle", "list"} => turn[s].list = messages[s]
    /\ outages = 0 /\ Whole(s) =>
          /\ \A i \in Unshown(s) : i <= size[s] - min_new => Early(i)
          /\ turn[s].at \in {"idle", "second", "trim"} /\ size[s] > min_new =>
                \A i \in Unshown(s) : Early(i)

ConsolidationInv == ConsolidationTypes /\ \A s \in Sessions : SessionOK(s)

LEMMA MinNewFacts == min_new \in Nat /\ min_new >= 5
BY ConsolidationAssumption DEF min_new

\* The newest of the first z numbers.
LEMMA NewestFacts ==
    ASSUME NEW z \in Nat, z > min_new
    PROVE  /\ \A i \in 1..z : i > z - min_new => i \in Window(1..z)
           /\ Window(1..z) # {}
<1>1. ASSUME NEW i \in 1..z
      PROVE  Cardinality({j \in 1..z : j > i}) = z - i
  <2> DEFINE newer == {j \in 1..z : j > i}
  <2>1. newer = (i + 1)..z
    OBVIOUS
  <2>2. Cardinality((i + 1)..z) = IF i + 1 > z THEN 0 ELSE z - (i + 1) + 1
    BY FS_Interval
  <2> HIDE DEF newer
  <2>3. Cardinality(newer) = z - i
    BY <2>1, <2>2
  <2> QED BY <2>3 DEF newer
<1>2. Cardinality(1..z) = z
  <2>1. Cardinality(1..z) = IF 1 > z THEN 0 ELSE z - 1 + 1
    BY FS_Interval
  <2> QED BY <2>1
<1>3. Window(1..z) = {i \in 1..z : Cardinality({j \in 1..z : j > i}) < min_new}
  BY <1>2, MinNewFacts DEF Window, Newest
<1>4. ASSUME NEW i \in 1..z, i > z - min_new PROVE i \in Window(1..z)
  <2>1. z - i < min_new
    BY <1>4, MinNewFacts
  <2>2. Cardinality({j \in 1..z : j > i}) < min_new
    BY <1>1, <2>1
  <2> QED BY <1>3, <2>2
<1>5. z \in 1..z /\ z > z - min_new
  BY MinNewFacts
<1> QED BY <1>4, <1>5

\* The sessions a step does not touch.
LEMMA OtherSessions ==
    ASSUME ConsolidationInv, NEW s \in Sessions,
           messages'[s] = messages[s], size'[s] = size[s], turn'[s] = turn[s],
           offered[s] \subseteq offered'[s], outages' = 0 => outages = 0
    PROVE  SessionOK(s)'
BY DEF ConsolidationInv, SessionOK, Whole, Unshown

\* A model is shown some messages of a session.
Offers(s, seen) ==
    /\ offered' \in [Sessions -> SUBSET Nat] /\ offered'[s] = offered[s] \cup seen
    /\ \A x \in Sessions \ {s} : offered'[x] = offered[x]

LEMMA OfferFacts ==
    ASSUME ConsolidationInv, NEW s \in Sessions
    PROVE  /\ UNCHANGED offered => Offers(s, {})
           /\ \A seen \in SUBSET Nat :
                 offered' = [offered EXCEPT ![s] = @ \cup seen] => Offers(s, seen)
BY DEF ConsolidationInv, ConsolidationTypes, Offers

\* A step of a turn that appends and removes nothing.
LEMMA TurnGoes ==
    ASSUME ConsolidationInv, NEW s \in Sessions, NEW record \in TurnRecords, Become(s, record),
           UNCHANGED <<messages, size>>,
           record.at \notin {"idle", "list"} => record.list = messages[s],
           NEW seen \in SUBSET Nat, Offers(s, seen),
           items' \in [Facts -> Nat], outages' \in Nat, outages' = 0 => outages = 0,
           outages' = 0 /\ Whole(s) /\ record.at \in {"idle", "second", "trim"} /\ size[s] > min_new =>
               \/ turn[s].at \in {"second", "trim"}
               \/ \A i \in 1..size[s] : i > size[s] - min_new => i \in seen
    PROVE  ConsolidationInv'
<1>1. ConsolidationTypes /\ SessionOK(s)
  BY DEF ConsolidationInv
<1>2. /\ turn' \in [Sessions -> TurnRecords] /\ turn'[s] = record
      /\ \A x \in Sessions \ {s} : turn'[x] = turn[x]
  <2> HIDE DEF TurnRecords
  <2> QED BY <1>1 DEF ConsolidationTypes, Become
<1>3. /\ offered' \in [Sessions -> SUBSET Nat] /\ offered'[s] = offered[s] \cup seen
      /\ \A x \in Sessions \ {s} : offered'[x] = offered[x]
  BY DEF Offers
<1>4. ConsolidationTypes'
  BY <1>1, <1>2, <1>3 DEF ConsolidationTypes
<1>5. \A x \in Sessions \ {s} : SessionOK(x)'
  BY <1>2, <1>3, OtherSessions
<1>6. SessionOK(s)'
  <2>1. turn'[s].at \notin {"idle", "list"} => turn'[s].list = messages'[s]
    BY <1>1, <1>2 DEF SessionOK
  <2>2. size[s] \in Nat /\ min_new \in Nat
    BY <1>1, MinNewFacts DEF ConsolidationTypes
  <2>3. ASSUME outages' = 0, Whole(s)
        PROVE  /\ \A i \in Unshown(s)' : i <= size[s] - min_new => Early(i)
               /\ record.at \in {"idle", "second", "trim"} /\ size[s] > min_new =>
                     \A i \in Unshown(s)' : Early(i)
    <3>1. \A i \in Unshown(s)' : i \in Unshown(s) /\ i \notin seen /\ i \in 1..size[s]
      BY <1>3 DEF Unshown
    <3>2. \A i \in Unshown(s) : i <= size[s] - min_new => Early(i)
      BY <1>1, <2>3 DEF SessionOK
    <3>3. turn[s].at \in {"second", "trim"} /\ size[s] > min_new => \A i \in Unshown(s) : Early(i)
      BY <1>1, <2>3 DEF SessionOK
    <3>4. \A i \in 1..size[s] : i > size[s] - min_new \/ i <= size[s] - min_new
      BY <2>2
    <3> HIDE DEF Unshown, Early
    <3> QED BY <2>3, <3>1, <3>2, <3>3, <3>4
  <2>4. Whole(s)' = Whole(s) /\ messages'[s] \subseteq 1..size'[s] /\ size'[s] = size[s]
    BY <1>1 DEF Whole, SessionOK
  <2> QED BY <1>2, <2>1, <2>3, <2>4 DEF SessionOK
<1> QED BY <1>4, <1>5, <1>6 DEF ConsolidationInv

LEMMA TurnFacts ==
    ASSUME ConsolidationInv, NEW s \in Sessions
    PROVE  /\ turn[s] \in TurnRecords /\ items \in [Facts -> Nat] /\ outages \in Nat
           /\ messages[s] \in SUBSET Nat
           /\ turn[s].at \notin {"idle", "list"} => turn[s].list = messages[s]
BY DEF ConsolidationInv, ConsolidationTypes, SessionOK

\* The next stage with the same list.
LEMMA GoFacts ==
    ASSUME ConsolidationInv, NEW s \in Sessions, NEW at \in TurnStages, Go(s, at)
    PROVE  \E record \in TurnRecords :
              Become(s, record) /\ record.at = at /\ record.list = turn[s].list
<1> DEFINE record == [turn[s] EXCEPT !.at = at]
<1>1. record \in TurnRecords /\ record.at = at /\ record.list = turn[s].list
  <2> HIDE DEF TurnStages
  <2> QED BY TurnFacts DEF TurnRecords
<1>2. Become(s, record)
  BY DEF Go
<1> QED BY <1>1, <1>2

LEMMA RestingFacts == Resting \in TurnRecords /\ Resting.at = "idle"
BY DEF Resting, TurnRecords, TurnStages

LEMMA ListKeeps ==
    ASSUME ConsolidationInv, NEW s \in Sessions, List(s)
    PROVE  ConsolidationInv'
<1> DEFINE record == [turn[s] EXCEPT !.at = "decide", !.list = messages[s]]
<1>1. /\ turn[s].at = "list" /\ Become(s, record)
      /\ UNCHANGED <<messages, size, offered, items, outages>>
  BY DEF List, In
<1>2. record \in TurnRecords /\ record.at = "decide" /\ record.list = messages[s]
  <2>1. "decide" \in TurnStages
    BY DEF TurnStages
  <2> HIDE DEF TurnStages
  <2> QED BY <2>1, TurnFacts DEF TurnRecords
<1> HIDE DEF record
<1> QED BY <1>1, <1>2, TurnFacts, OfferFacts, TurnGoes

LEMMA DecideKeeps ==
    ASSUME ConsolidationInv, NEW s \in Sessions, Decide(s)
    PROVE  ConsolidationInv'
<1>1. turn[s].at = "decide" /\ UNCHANGED <<messages, size, items>>
  BY DEF Decide, In
<1>2. PICK at \in {"first", "count"} : Go(s, at)
  BY DEF Decide
<1>3. PICK record \in TurnRecords :
         Become(s, record) /\ record.at = at /\ record.list = turn[s].list
  BY <1>2, GoFacts DEF TurnStages
<1>4. \E seen \in SUBSET Nat : Offers(s, seen)
  <2>1. Fresh(turn[s].list) \in SUBSET Nat
    BY <1>1, TurnFacts DEF Fresh, After
  <2>2. {} \in SUBSET Nat
    OBVIOUS
  <2> QED BY <2>1, <2>2, OfferFacts DEF Decide
<1>5. outages' \in {outages, outages + 1}
  BY DEF Decide
<1> QED BY <1>1, <1>2, <1>3, <1>4, <1>5, TurnFacts, TurnGoes

LEMMA CountKeeps ==
    ASSUME ConsolidationInv, NEW s \in Sessions, Count(s)
    PROVE  ConsolidationInv'
<1>1. /\ turn[s].at = "count" /\ Go(s, "again")
      /\ UNCHANGED <<messages, size, offered, items, outages>>
  BY DEF Count, In
<1>2. PICK record \in TurnRecords :
         Become(s, record) /\ record.at = "again" /\ record.list = turn[s].list
  BY <1>1, GoFacts DEF TurnStages
<1> QED BY <1>1, <1>2, TurnFacts, OfferFacts, TurnGoes

LEMMA AgainKeeps ==
    ASSUME ConsolidationInv, NEW s \in Sessions, Again(s)
    PROVE  ConsolidationInv'
<1> DEFINE window == Window(turn[s].list)
<1>1. turn[s].at = "again" /\ UNCHANGED <<messages, size, items>>
  BY DEF Again, In
<1>2. PICK at \in {"second", "trim"} : Go(s, at)
  BY DEF Again
<1>3. PICK record \in TurnRecords :
         Become(s, record) /\ record.at = at /\ record.list = turn[s].list
  BY <1>2, GoFacts DEF TurnStages
<1>4. window \in SUBSET Nat
  BY <1>1, TurnFacts DEF Window, Newest
<1>5. \/ window = {} /\ UNCHANGED <<offered, outages>>
      \/ offered' = [offered EXCEPT ![s] = @ \cup window] /\ UNCHANGED outages
      \/ outages' = outages + 1 /\ UNCHANGED offered
  BY DEF Again
<1>6. turn[s].list = messages[s] /\ outages \in Nat
  BY <1>1, TurnFacts
<1>7. ASSUME Whole(s), size[s] > min_new
      PROVE  window # {} /\ \A i \in 1..size[s] : i > size[s] - min_new => i \in window
  <2>1. size[s] \in Nat /\ turn[s].list = 1..size[s]
    BY <1>6, <1>7 DEF Whole, ConsolidationInv, ConsolidationTypes
  <2> QED BY <1>7, <2>1, NewestFacts
<1> HIDE DEF window
<1>8. CASE window = {} /\ UNCHANGED <<offered, outages>>
  <2>1. Offers(s, {}) /\ {} \in SUBSET Nat
    BY <1>8, OfferFacts
  <2> QED BY <1>1, <1>3, <1>6, <1>7, <1>8, <2>1, TurnFacts, TurnGoes
<1>9. CASE offered' = [offered EXCEPT ![s] = @ \cup window] /\ UNCHANGED outages
  <2>1. Offers(s, window)
    BY <1>4, <1>9, OfferFacts
  <2> QED BY <1>1, <1>3, <1>4, <1>6, <1>7, <1>9, <2>1, TurnFacts, TurnGoes
<1>10. CASE outages' = outages + 1 /\ UNCHANGED offered
  <2>1. Offers(s, {}) /\ {} \in SUBSET Nat /\ outages' \in Nat /\ outages' # 0
    BY <1>6, <1>10, OfferFacts
  <2> QED BY <1>1, <1>3, <1>6, <2>1, TurnFacts, TurnGoes
<1> QED BY <1>5, <1>8, <1>9, <1>10

LEMMA FindKeeps ==
    ASSUME ConsolidationInv, NEW s \in Sessions, Find(s)
    PROVE  ConsolidationInv'
<1>1. /\ turn[s].at \in {"first", "second"}
      /\ UNCHANGED <<messages, size, offered, items, outages>>
  BY DEF Find, Extracting
<1>2. PICK f \in Facts : Become(s, [turn[s] EXCEPT !.fact = f, !.found = items[f]])
  BY DEF Find
<1> DEFINE record == [turn[s] EXCEPT !.fact = f, !.found = items[f]]
<1>3. record \in TurnRecords /\ record.at = turn[s].at /\ record.list = turn[s].list
  <2>1. items[f] \in Nat
    BY TurnFacts
  <2> HIDE DEF TurnStages
  <2> QED BY <2>1, TurnFacts DEF TurnRecords
<1>4. Become(s, record)
  BY <1>2
<1> HIDE DEF record
<1> QED BY <1>1, <1>3, <1>4, TurnFacts, OfferFacts, TurnGoes

LEMMA SaveKeeps ==
    ASSUME ConsolidationInv, NEW s \in Sessions, Save(s), turn[s].at \in {"first", "second"}
    PROVE  ConsolidationInv'
<1> DEFINE at == Extracted(s)
           next == [turn[s] EXCEPT !.at = at, !.fact = NoFact, !.found = 0]
<1>1. /\ UNCHANGED <<messages, size, offered, outages>>
      /\ \/ UNCHANGED items
         \/ items' = [items EXCEPT ![turn[s].fact] = items[turn[s].fact] + 1]
      /\ Become(s, next) \/ (turn[s].at = "second" /\ Become(s, Resting))
  BY DEF Save, In, Reinforced
<1>2. at = IF turn[s].at = "first" THEN "count" ELSE "trim"
  BY DEF Extracted, In
<1> HIDE DEF at
<1>3. next \in TurnRecords /\ next.at = at /\ next.list = turn[s].list
  <2>1. at \in TurnStages
    BY <1>2 DEF TurnStages
  <2> HIDE DEF TurnStages
  <2> QED BY <2>1, TurnFacts DEF TurnRecords
<1>4. items' \in [Facts -> Nat]
  BY <1>1, TurnFacts
<1> HIDE DEF next
<1>5. CASE Become(s, next)
  BY <1>1, <1>2, <1>3, <1>4, <1>5, TurnFacts, OfferFacts, TurnGoes
<1>6. CASE turn[s].at = "second" /\ Become(s, Resting)
  BY <1>1, <1>4, <1>6, RestingFacts, TurnFacts, OfferFacts, TurnGoes
<1> QED BY <1>1, <1>5, <1>6

LEMMA NothingKeeps ==
    ASSUME ConsolidationInv, NEW s \in Sessions, Nothing(s)
    PROVE  ConsolidationInv'
<1>1. /\ turn[s].at \in {"first", "second"} /\ Go(s, Extracted(s))
      /\ UNCHANGED <<messages, size, offered, items, outages>>
  BY DEF Nothing, Extracting
<1>2. Extracted(s) = IF turn[s].at = "first" THEN "count" ELSE "trim"
  BY DEF Extracted, In
<1>3. PICK record \in TurnRecords :
         Become(s, record) /\ record.at = Extracted(s) /\ record.list = turn[s].list
  BY <1>1, <1>2, GoFacts DEF TurnStages
<1> QED BY <1>1, <1>2, <1>3, TurnFacts, OfferFacts, TurnGoes

\* The message numbers a turn appends are the first ones or follow min_new others.
LEMMA PersistedKeeps ==
    ASSUME ConsolidationInv, \A n \in TurnSizes : n <= min_new, NEW s \in Sessions, Persisted(s)
    PROVE  ConsolidationInv'
<1>1. PICK n \in TurnSizes :
         /\ size' = [size EXCEPT ![s] = @ + n]
         /\ messages' = [messages EXCEPT ![s] = @ \cup (size[s] + 1)..(size[s] + n)]
  BY DEF Persisted
<1>2. turn[s].at = "idle" /\ Go(s, "list") /\ UNCHANGED <<offered, items, outages>>
  BY DEF Persisted, In
<1>3. PICK record \in TurnRecords : Become(s, record) /\ record.at = "list"
  BY <1>2, GoFacts DEF TurnStages
<1>4. ConsolidationTypes /\ SessionOK(s)
  BY DEF ConsolidationInv
<1>5. /\ turn' \in [Sessions -> TurnRecords] /\ turn'[s].at = "list"
      /\ \A x \in Sessions \ {s} : turn'[x] = turn[x]
  <2> HIDE DEF TurnRecords
  <2> QED BY <1>3, <1>4 DEF ConsolidationTypes, Become
<1>6. n \in Nat \ {0} /\ n <= min_new /\ size[s] \in Nat /\ min_new \in Nat
  BY <1>4, MinNewFacts, ConsolidationAssumption DEF ConsolidationTypes
<1>7. /\ size' \in [Sessions -> Nat] /\ size'[s] = size[s] + n
      /\ \A x \in Sessions \ {s} : size'[x] = size[x]
  BY <1>1, <1>4, <1>6 DEF ConsolidationTypes
<1>8. /\ messages' \in [Sessions -> SUBSET Nat]
      /\ messages'[s] = messages[s] \cup (size[s] + 1)..(size[s] + n)
      /\ \A x \in Sessions \ {s} : messages'[x] = messages[x]
  <2>1. messages[s] \cup (size[s] + 1)..(size[s] + n) \in SUBSET Nat
    BY <1>4, <1>6 DEF ConsolidationTypes
  <2> QED BY <1>1, <1>4, <2>1 DEF ConsolidationTypes
<1>9. ConsolidationTypes'
  BY <1>2, <1>4, <1>5, <1>7, <1>8 DEF ConsolidationTypes
<1>10. \A x \in Sessions \ {s} : SessionOK(x)'
  BY <1>2, <1>5, <1>7, <1>8, OtherSessions
<1>11. SessionOK(s)'
  <2>1. messages[s] \subseteq 1..size[s]
    BY <1>4 DEF SessionOK
  <2>2. messages'[s] \subseteq 1..size'[s]
    BY <1>6, <1>7, <1>8, <2>1
  <2>3. Whole(s)' => Whole(s)
    <3>1. ASSUME Whole(s)' PROVE 1..size[s] \subseteq messages[s]
      BY <1>6, <1>7, <1>8, <3>1 DEF Whole
    <3> QED BY <2>1, <3>1 DEF Whole
  <2>4. ASSUME outages = 0, Whole(s), NEW i \in Unshown(s)', i <= size[s] + n - min_new
        PROVE  Early(i)
    <3>1. i \in 1..(size[s] + n) /\ i \notin offered[s]
      BY <1>2, <1>7, <2>4 DEF Unshown
    <3>2. i <= size[s]
      BY <1>6, <2>4, <3>1
    <3>3. i \in Unshown(s)
      BY <1>6, <3>1, <3>2 DEF Unshown
    <3>4. CASE size[s] > min_new
      <4>1. \A j \in Unshown(s) : Early(j)
        BY <1>2, <1>4, <2>4, <3>4 DEF SessionOK
      <4> HIDE DEF Early
      <4> QED BY <3>3, <4>1
    <3>5. CASE size[s] <= min_new
      <4>1. i <= n
        BY <1>6, <2>4, <3>1, <3>5
      <4> QED BY <4>1 DEF Early
    <3> QED BY <1>6, <3>4, <3>5
  <2>5. outages' = 0 /\ Whole(s)' => \A i \in Unshown(s)' : i <= size'[s] - min_new => Early(i)
    <3> SUFFICES ASSUME outages' = 0, Whole(s)', NEW i \in Unshown(s)', i <= size'[s] - min_new
                 PROVE  Early(i)
      OBVIOUS
    <3>1. outages = 0 /\ Whole(s)
      BY <1>2, <2>3
    <3>2. size'[s] - min_new = size[s] + n - min_new
      BY <1>6, <1>7
    <3>3. i <= size[s] + n - min_new
      BY <3>2
    <3> QED BY <2>4, <3>1, <3>3
  <2> HIDE DEF Whole, Unshown, Early
  <2>6. turn'[s].at \notin {"idle", "second", "trim"} /\ turn'[s].at \in {"idle", "list"}
    BY <1>5
  <2> QED BY <2>2, <2>5, <2>6 DEF SessionOK
<1> QED BY <1>9, <1>10, <1>11 DEF ConsolidationInv

LEMMA TrimKeeps ==
    ASSUME ConsolidationInv, NEW s \in Sessions, Trim(s)
    PROVE  ConsolidationInv'
<1> DEFINE point == TrimPoint(Cardinality(turn[s].list))
<1>1. /\ turn[s].at = "trim" /\ Become(s, Resting)
      /\ UNCHANGED <<size, offered, items, outages>>
      /\ \/ messages' = messages
         \/ messages' = [messages EXCEPT ![s] = Kept(point, @)]
  BY DEF Trim, In
<1>2. ConsolidationTypes /\ SessionOK(s)
  BY DEF ConsolidationInv
<1>3. /\ turn' \in [Sessions -> TurnRecords] /\ turn'[s].at = "idle"
      /\ \A x \in Sessions \ {s} : turn'[x] = turn[x]
  <2> HIDE DEF TurnRecords, Resting
  <2> QED BY <1>1, <1>2, RestingFacts DEF ConsolidationTypes, Become
<1>4. Kept(point, messages[s]) \subseteq messages[s]
  BY DEF Kept, Newest
<1>5. /\ messages' \in [Sessions -> SUBSET Nat] /\ messages'[s] \subseteq messages[s]
      /\ \A x \in Sessions \ {s} : messages'[x] = messages[x]
  <2>1. Kept(point, messages[s]) \in SUBSET Nat
    BY <1>2, <1>4 DEF ConsolidationTypes
  <2> QED BY <1>1, <1>2, <1>4, <2>1 DEF ConsolidationTypes
<1>6. ConsolidationTypes'
  BY <1>1, <1>2, <1>3, <1>5 DEF ConsolidationTypes
<1>7. \A x \in Sessions \ {s} : SessionOK(x)'
  BY <1>1, <1>3, <1>5, OtherSessions
<1>8. SessionOK(s)'
  <2>1. messages'[s] \subseteq 1..size[s] /\ (Whole(s)' => Whole(s))
    BY <1>1, <1>2, <1>5 DEF SessionOK, Whole
  <2>2. ASSUME outages = 0, Whole(s)
        PROVE  /\ \A i \in Unshown(s) : i <= size[s] - min_new => Early(i)
               /\ size[s] > min_new => \A i \in Unshown(s) : Early(i)
    BY <1>1, <1>2, <2>2 DEF SessionOK
  <2>3. Unshown(s)' = Unshown(s)
    BY <1>1 DEF Unshown
  <2> HIDE DEF Unshown, Early
  <2> QED BY <1>1, <1>3, <2>1, <2>2, <2>3 DEF SessionOK
<1> QED BY <1>6, <1>7, <1>8 DEF ConsolidationInv

LEMMA KernelStopsKeeps ==
    ASSUME ConsolidationInv, KernelStops
    PROVE  ConsolidationInv'
<1>1. /\ turn' = [s \in Sessions |-> Resting] /\ outages' = outages + 1
      /\ UNCHANGED <<messages, size, offered, items>>
  BY DEF KernelStops
<1>2. ConsolidationTypes /\ outages' \in Nat /\ outages' # 0
  BY <1>1 DEF ConsolidationInv, ConsolidationTypes
<1>3. turn' \in [Sessions -> TurnRecords] /\ \A s \in Sessions : turn'[s].at = "idle"
  <2> HIDE DEF TurnRecords, Resting
  <2> QED BY <1>1, RestingFacts
<1>4. \A s \in Sessions : messages[s] \subseteq 1..size[s]
  BY DEF ConsolidationInv, SessionOK
<1> QED BY <1>1, <1>2, <1>3, <1>4 DEF ConsolidationInv, ConsolidationTypes, SessionOK

\* A fact in hand is one of an extraction.
Saving == \A s \in Sessions : turn[s].fact # NoFact => turn[s].at \in {"first", "second"}

LEMMA SavingTurn ==
    ASSUME ConsolidationInv, Saving, NEW s \in Sessions, NEW record, Become(s, record),
           record.fact # NoFact => record.at \in {"first", "second"}
    PROVE  Saving'
BY DEF ConsolidationInv, ConsolidationTypes, Saving, Become

LEMMA SavingGoes ==
    ASSUME ConsolidationInv, Saving, NEW s \in Sessions, NEW at, Go(s, at),
           turn[s].at \in {"first", "second"} => turn[s].fact = NoFact
    PROVE  Saving'
<1> DEFINE record == [turn[s] EXCEPT !.at = at]
<1>1. Become(s, record)
  BY DEF Go
<1>2. record.fact = NoFact
  <2> HIDE DEF TurnStages
  <2> QED BY TurnFacts DEF TurnRecords, Saving
<1> HIDE DEF record
<1> QED BY <1>1, <1>2, SavingTurn

LEMMA SavingKept ==
    ASSUME ConsolidationInv, Saving, ConsolidationStep
    PROVE  Saving'
<1>1. ASSUME NEW s \in Sessions, List(s) PROVE Saving'
  <2> DEFINE record == [turn[s] EXCEPT !.at = "decide", !.list = messages[s]]
  <2>1. turn[s].at = "list" /\ Become(s, record)
    BY <1>1 DEF List, In
  <2>2. record.fact = NoFact
    <3> HIDE DEF TurnStages
    <3> QED BY <2>1, TurnFacts DEF TurnRecords, Saving
  <2> HIDE DEF record
  <2> QED BY <2>1, <2>2, SavingTurn
<1>2. ASSUME NEW s \in Sessions, Find(s) PROVE Saving'
  <2>1. turn[s].at \in {"first", "second"}
    BY <1>2 DEF Find, Extracting
  <2>2. PICK f \in Facts : Become(s, [turn[s] EXCEPT !.fact = f, !.found = items[f]])
    BY <1>2 DEF Find
  <2> DEFINE record == [turn[s] EXCEPT !.fact = f, !.found = items[f]]
  <2>3. record.at = turn[s].at
    <3> HIDE DEF TurnStages
    <3> QED BY TurnFacts DEF TurnRecords
  <2>4. Become(s, record)
    BY <2>2
  <2> HIDE DEF record
  <2> QED BY <2>1, <2>3, <2>4, SavingTurn
<1>3. ASSUME NEW s \in Sessions, Save(s) PROVE Saving'
  <2> DEFINE next == [turn[s] EXCEPT !.at = Extracted(s), !.fact = NoFact, !.found = 0]
  <2>1. Become(s, next) \/ Become(s, Resting)
    BY <1>3 DEF Save
  <2>2. next.fact = NoFact /\ Resting.fact = NoFact
    <3> HIDE DEF TurnStages
    <3> QED BY TurnFacts DEF TurnRecords, Resting
  <2> HIDE DEF next, Resting
  <2> QED BY <2>1, <2>2, SavingTurn
<1>4. ASSUME NEW s \in Sessions, Trim(s) PROVE Saving'
  <2>1. Become(s, Resting) /\ Resting.fact = NoFact
    BY <1>4 DEF Trim, Resting
  <2> HIDE DEF Resting
  <2> QED BY <2>1, SavingTurn
<1>5. ASSUME KernelStops PROVE Saving'
  BY <1>5 DEF KernelStops, Saving, Resting
<1>6. ASSUME NEW s \in Sessions, Persisted(s) \/ Decide(s) \/ Count(s) \/ Again(s) \/ Nothing(s)
      PROVE  Saving'
  <2>1. turn[s].at \in {"first", "second"} => turn[s].fact = NoFact
    BY <1>6 DEF Persisted, Decide, Count, Again, Nothing, In
  <2>2. \E at \in {"list", "first", "count", "again", "second", "trim", Extracted(s)} : Go(s, at)
    BY <1>6 DEF Persisted, Decide, Count, Again, Nothing
  <2> QED BY <2>1, <2>2, SavingGoes
<1> QED BY <1>1, <1>2, <1>3, <1>4, <1>5, <1>6 DEF ConsolidationStep

LEMMA ConsolidationInitially == ConsolidationInit => ConsolidationInv /\ Saving /\ items = saves
<1> SUFFICES ASSUME ConsolidationInit PROVE ConsolidationInv /\ Saving /\ items = saves
  OBVIOUS
<1>1. /\ size \in [Sessions -> Nat] /\ offered \in [Sessions -> SUBSET Nat]
      /\ messages \in [Sessions -> SUBSET Nat]
      /\ items \in [Facts -> Nat] /\ outages \in Nat /\ items = saves
  BY DEF ConsolidationInit
<1>2. /\ turn \in [Sessions -> TurnRecords]
      /\ \A s \in Sessions : turn[s].at = "idle" /\ turn[s].fact = NoFact
  <2>1. turn = [s \in Sessions |-> Resting] /\ Resting.fact = NoFact
    BY DEF ConsolidationInit, Resting
  <2> HIDE DEF TurnRecords, Resting
  <2> QED BY <2>1, RestingFacts
<1>3. \A s \in Sessions : messages[s] = {} /\ size[s] = 0
  BY DEF ConsolidationInit
<1>4. \A s \in Sessions : SessionOK(s)
  BY <1>2, <1>3 DEF SessionOK, Unshown
<1> QED BY <1>1, <1>2, <1>4 DEF ConsolidationInv, ConsolidationTypes, Saving

LEMMA ConsolidationKept ==
    ASSUME \A n \in TurnSizes : n <= min_new, ConsolidationInv, Saving, items = saves,
           [MemoryNext]_<<memoriesVars, consolidationVars, recallVars>>
    PROVE  ConsolidationInv' /\ Saving' /\ (items = saves)'
<1>1. CASE UNCHANGED consolidationVars
  <2>1. UNCHANGED <<messages, size, offered, turn, items, saves, outages>>
    BY <1>1 DEF consolidationVars
  <2>2. ConsolidationTypes' /\ Saving'
    BY <2>1 DEF ConsolidationInv, ConsolidationTypes, Saving
  <2>3. \A s \in Sessions : SessionOK(s)'
    BY <2>1 DEF ConsolidationInv, SessionOK, Whole, Unshown
  <2> QED BY <2>1, <2>2, <2>3 DEF ConsolidationInv
<1>2. CASE ConsolidationStep
  <2>1. (items = saves)'
    <3>1. ASSUME NEW s \in Sessions, Save(s) PROVE items' = saves'
      BY <1>2, <3>1 DEF Save, Reinforced
    <3> QED BY <1>2, <3>1
            DEF ConsolidationStep, Persisted, List, Decide, Count, Again, Find, Nothing, Trim,
                KernelStops
  <2>2. ASSUME NEW s \in Sessions, Save(s) PROVE ConsolidationInv'
    <3>1. turn[s].at \in {"first", "second"}
      BY <2>2 DEF Save, Saving
    <3> QED BY <2>2, <3>1, SaveKeeps
  <2>3. ConsolidationInv'
    BY <1>2, <2>2, PersistedKeeps, ListKeeps, DecideKeeps, CountKeeps, AgainKeeps, FindKeeps,
       NothingKeeps, TrimKeeps, KernelStopsKeeps DEF ConsolidationStep
  <2> QED BY <1>2, <2>1, <2>3, SavingKept
<1>3. \/ UNCHANGED consolidationVars
      \/ ConsolidationStep
  BY DEF MemoryNext, Editing, Consolidating, Pin, RecallStep, RecallReads, Ask, SearchWords,
         SearchText, EmbedQuery, LoadVectors, ReadRow, RowsEnd, Choose, AddResidents
<1> QED BY <1>1, <1>2, <1>3

\* What the consolidation of sessions keeps at every instant: a message no
\* model was shown is older than the newest min_new of its session and at its
\* start, unless a list was trimmed, an extraction failed or the process ended.
\* A turn appends a question and its answer, with the questions of turns that
\* failed before it, and at most min_new of these.
THEOREM ConsolidationInvariance ==
    (\A n \in TurnSizes : n <= min_new) => (MemorySpec => [](ConsolidationInv /\ Saving /\ items = saves))
<1> SUFFICES ASSUME \A n \in TurnSizes : n <= min_new
             PROVE  MemorySpec => [](ConsolidationInv /\ Saving /\ items = saves)
  OBVIOUS
<1>1. MemoryInit => ConsolidationInv /\ Saving /\ items = saves
  BY ConsolidationInitially DEF MemoryInit
<1>2. ConsolidationInv /\ Saving /\ items = saves
         /\ [MemoryNext]_<<memoriesVars, consolidationVars, recallVars>>
         => (ConsolidationInv /\ Saving /\ items = saves)'
  BY ConsolidationKept
<1> QED BY <1>1, <1>2, PTL DEF MemorySpec

\* The second extraction shows what the shared counter makes the first one pass
\* over, for any number of sessions and any length of them, and turns that
\* extract the same fact lose no save.
THEOREM NothingIsForgotten ==
    (\A n \in TurnSizes : n <= min_new) => (MemorySpec => []NothingForgotten)
<1> SUFFICES ASSUME \A n \in TurnSizes : n <= min_new PROVE MemorySpec => []NothingForgotten
  OBVIOUS
<1>1. ConsolidationInv /\ Saving /\ items = saves => NothingForgotten
  <2> SUFFICES ASSUME ConsolidationInv, NEW s \in Sessions, turn[s].at = "idle", outages = 0,
                      size[s] > min_new, messages[s] = 1..size[s],
                      NEW i \in messages[s] \ offered[s]
               PROVE  \E n \in TurnSizes : i <= n
    BY DEF NothingForgotten, In
  <2>1. i \in Unshown(s)
    BY DEF Unshown
  <2>2. Early(i)
    <3> HIDE DEF Early
    <3> QED BY <2>1 DEF ConsolidationInv, SessionOK, Whole
  <2> QED BY <2>2 DEF Early
<1> QED BY <1>1, ConsolidationInvariance, PTL
===============================================================================
