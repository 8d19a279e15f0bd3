------------------------------- MODULE DataFiles -------------------------------
(***************************************************************************)
(* The files of one data directory and the processes that use them: the    *)
(* server (Console or API) and commands.  A process opens the database,    *)
(* with or without migrating it, writes, packs the directory into an       *)
(* archive, and puts an archive back.  Each of these is several steps, no  *)
(* lock keeps the processes apart, and a process may stop at any step.     *)
(***************************************************************************)
EXTENDS Integers, Sequences, FiniteSets, FiniteSetsExt

(***************************************************************************)
(* The SQLite file and its migrations (storage/database.py).  Every open   *)
(* runs the script of version 1 again; migrate runs the script of each     *)
(* later version, whose statements commit one by one (executescript), and  *)
(* records the version behind its script.  Some statements are bare: an    *)
(* ALTER TABLE ADD COLUMN fails when its column is already there.  A file  *)
(* is its recorded version and the statements it has seen; the rest of its *)
(* contents makes no difference here.                                      *)
(***************************************************************************)

CONSTANTS
    Latest,     \* the highest registered version
    Length,     \* version -> number of statements of its script
    Bare        \* the statements <<version, place>> that fail on a file that has seen them

Versions == 2 .. Latest

ASSUME SchemaAssumption ==
    /\ Latest \in Nat \ {0}
    /\ Length \in [Versions -> Nat]

Script(v) == {<<v, i>> : i \in 1 .. Length[v]}

Unborn == [version |-> 0, done |-> {}]

\* The script of version 1: everything in it is created only where it is missing.
Initialized(file) == [file EXCEPT !.version = Max({1, @})]

Pending(file) == {v \in Versions : v > file.version}

Fails(file, statement) == statement \in Bare /\ statement \in file.done

Run(file, statement) == [file EXCEPT !.done = @ \cup {statement}]

\* The current version is the maximum of the recorded ones.
Recorded(file, v) == [file EXCEPT !.version = Max({v, @})]

\* Some statements of a version that is not recorded have run.
HalfMigrated(file) == \E s \in file.done : s[1] > file.version

Applied(file) == \A v \in Versions : v <= file.version => Script(v) \subseteq file.done

--------------------------------------------------------------------------------
CONSTANTS
    Processes,
    MaxArchives, MaxRestores     \* bounds

VARIABLES
    file,           \* the database
    kept,           \* the copies made before migrations
    archives,       \* the archives in the backup directory
    process,        \* process -> what it is doing
    overlapped,     \* history: a restore replaced the database under a migration
    restores

files == <<file, kept, archives>>
dataVars == <<files, process, overlapped, restores>>

Closed == [pc |-> "closed"]
Open == [pc |-> "open"]

Is(p, pc) == process[p].pc = pc
Becomes(p, state) == process' = [process EXCEPT ![p] = state]

DataInit ==
    /\ file = Unborn
    /\ kept = {} /\ archives = <<>>
    /\ process = [p \in Processes |-> Closed]
    /\ overlapped = FALSE
    /\ restores = 0

--------------------------------------------------------------------------------
(* Opening and migrating. *)

MigrationUncopied(db, back) ==
    IF Pending(db) = {} THEN Open
    ELSE [pc |-> "script", back |-> back, statement |-> <<db.version + 1, 1>>]

\* migrate reads the version, then copies the file, then runs the scripts; back is where a
\* failure of it leaves the process.
Migration(db, back) ==
    IF Pending(db) = {} THEN Open
    ELSE [pc |-> "copy", back |-> back, statement |-> <<db.version + 1, 1>>]

\* initialize, and for most commands and the servers migrate.
OpenDatabase(p) ==
    /\ Is(p, "closed")
    /\ file' = Initialized(file)
    /\ Becomes(p, Migration(Initialized(file), Closed)) \/ Becomes(p, Open)
    /\ UNCHANGED <<kept, archives, overlapped, restores>>

\* A running process migrates again: a new SkillRunner does.
MigrateAgain(p) ==
    /\ Is(p, "open") /\ Pending(file) # {}
    /\ Becomes(p, Migration(file, Open))
    /\ UNCHANGED <<files, overlapped, restores>>

CopyBeforeMigration(p) ==
    /\ Is(p, "copy")
    /\ kept' = kept \cup {file}
    /\ Becomes(p, [process[p] EXCEPT !.pc = "script"])
    /\ UNCHANGED <<file, archives, overlapped, restores>>

FinishedEarly(statement) == statement[2] >= Length[statement[1]]

Finished(statement) == statement[2] > Length[statement[1]]

RunStatement(p) ==
    /\ Is(p, "script")
    /\ LET statement == process[p].statement
       IN  /\ ~Finished(statement)
           /\ IF Fails(file, statement)
              THEN Becomes(p, process[p].back) /\ UNCHANGED file
              ELSE /\ file' = Run(file, statement)
                   /\ Becomes(p, [process[p] EXCEPT !.statement = <<statement[1], statement[2] + 1>>])
    /\ UNCHANGED <<kept, archives, overlapped, restores>>

RecordVersion(p) ==
    /\ Is(p, "script")
    /\ LET v == process[p].statement[1]
       IN  /\ Finished(process[p].statement)
           /\ file' = Recorded(file, v)
           /\ Becomes(p, IF v = Latest THEN Open ELSE [process[p] EXCEPT !.statement = <<v + 1, 1>>])
    /\ UNCHANGED <<kept, archives, overlapped, restores>>

--------------------------------------------------------------------------------
(* create_backup: the database is copied, packed with config and skills,   *)
(* and the archive is written under its final name.                        *)

CopyDatabase(p) ==
    /\ Is(p, "open") /\ Len(archives) < MaxArchives
    /\ Becomes(p, [pc |-> "pack", db |-> file])
    /\ UNCHANGED <<files, overlapped, restores>>

OpenArchive(p) ==
    /\ Is(p, "pack") /\ Len(archives) < MaxArchives
    /\ archives' = Append(archives, [db |-> process[p].db, whole |-> FALSE])
    /\ Becomes(p, [pc |-> "zip", archive |-> Len(archives) + 1])
    /\ UNCHANGED <<file, kept, overlapped, restores>>

CloseArchive(p) ==
    /\ Is(p, "zip")
    /\ archives' = [archives EXCEPT ![process[p].archive].whole = TRUE]
    /\ Becomes(p, Open)
    /\ UNCHANGED <<file, kept, overlapped, restores>>

--------------------------------------------------------------------------------
(* restore_backup. *)

\* The archive is unpacked and its sums are compared; one that fails ends the restore.
CheckArchive(p) ==
    /\ Is(p, "open") /\ restores < MaxRestores
    /\ \E n \in DOMAIN archives :
          /\ archives[n].whole
          /\ Becomes(p, [pc |-> "overwrite", db |-> archives[n].db])
    /\ restores' = restores + 1
    /\ UNCHANGED <<files, overlapped>>

\* Behind a safety copy, whose name only a restore of the same second uses again; config and
\* skills follow.
Overwrite(p) ==
    /\ Is(p, "overwrite")
    /\ file' = process[p].db
    /\ overlapped' = (overlapped \/ \E q \in Processes : process[q].pc \in {"copy", "script"})
    /\ Becomes(p, Open)
    /\ UNCHANGED <<kept, archives, restores>>

--------------------------------------------------------------------------------

\* A process ends, or is ended, at any point.
Stop(p) ==
    /\ ~Is(p, "closed")
    /\ Becomes(p, Closed)
    /\ UNCHANGED <<files, overlapped, restores>>

DataStep ==
    \E p \in Processes :
        \/ OpenDatabase(p) \/ MigrateAgain(p) \/ CopyBeforeMigration(p)
        \/ RunStatement(p) \/ RecordVersion(p)
        \/ CopyDatabase(p) \/ OpenArchive(p) \/ CloseArchive(p)
        \/ CheckArchive(p) \/ Overwrite(p) \/ Stop(p)

--------------------------------------------------------------------------------
(* Properties. *)

\* Each statement of every version the database says it has was run on it, however many
\* processes migrate it at once and wherever they stop, unless a restore replaced it under one.
VersionIsTrue == overlapped \/ Applied(file)

Sound(db) == Applied(db) /\ ~HalfMigrated(db)

\* When the database is stuck between two versions, which every later migration fails on, or
\* claims a version it lacks, then a sound one lies beside it.
WayBack == Sound(file) \/ \E copy \in kept : Sound(copy)

\* A version is never claimed for statements that were not run, and there is always a way back.
VersionsHold == VersionIsTrue /\ WayBack
================================================================================
