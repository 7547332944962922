----------------------------- MODULE Migrations -----------------------------
(***************************************************************************)
(* The migration runner (ING/services/migrations.py), which every          *)
(* container started in mode "migrate" executes.  Several may run at once, *)
(* and one that fails or is killed is started again.  The database is in   *)
(* READ COMMITTED mode: each SELECT sees what is committed when it runs,   *)
(* and a transaction that ends without a commit leaves nothing.            *)
(***************************************************************************)
EXTENDS Integers, Sequences, SequencesExt

CONSTANTS
    Migrators,   \* the processes in mode migrate
    FileCount,   \* the migrations, 1..FileCount in the order of their names
    MaxStarts    \* bound of the model on how often processes are started

ASSUME MigrationsAssumption ==
    /\ FileCount \in Nat \ {0}
    /\ MaxStarts \in Nat

VARIABLES
    tracked,     \* _migrations: the files on record
    effects,     \* the files whose SQL is committed, in the order it was
    provisioned, \* history: how many files ran before they were tracked
    migStep,     \* per process: what it does next
    sawSchema,   \* per process: whether it saw processed_documents
    nextFile,    \* per process: the file it is at
    starts

migrationVars == <<tracked, effects, provisioned, migStep, sawSchema, nextFile, starts>>
database == <<tracked, effects, provisioned>>

MigrationFiles == 1..FileCount

MigGoto(p, s) == migStep' = [migStep EXCEPT ![p] = s]
-----------------------------------------------------------------------------
(* A fresh database, or one that was provisioned by the loop that kept no  *)
(* record, with the files there were at the time.                          *)
MigrationsInit ==
    /\ provisioned \in 0..FileCount
    /\ effects = [i \in 1..provisioned |-> i]
    /\ tracked = {}
    /\ migStep = [p \in Migrators |-> "off"]
    /\ sawSchema = [p \in Migrators |-> FALSE]
    /\ nextFile = [p \in Migrators |-> 1]
    /\ starts = 0

(* The container starts; _ensure_tracking_table changes nothing that       *)
(* matters once the table is there.                                        *)
StartMigrator(p) ==
    /\ migStep[p] \in {"off", "failed"} /\ starts < MaxStarts
    /\ starts' = starts + 1
    /\ MigGoto(p, "schema") /\ nextFile' = [nextFile EXCEPT ![p] = 1]
    /\ UNCHANGED <<database, sawSchema>>

(* _backfill_if_pretracking, its first SELECT: the first file creates      *)
(* processed_documents.                                                    *)
ReadSchema(p) ==
    /\ migStep[p] = "schema"
    /\ sawSchema' = [sawSchema EXCEPT ![p] = effects # <<>>]
    /\ MigGoto(p, "count")
    /\ UNCHANGED <<database, nextFile, starts>>

(* Its second SELECT, and the decision. *)
ReadTrackingCount(p) ==
    /\ migStep[p] = "count"
    /\ MigGoto(p, IF sawSchema[p] /\ tracked = {} THEN "backfill" ELSE "look")
    /\ UNCHANGED <<database, sawSchema, nextFile, starts>>

(* Every file is recorded in one transaction, and none is run. *)
Backfill(p) ==
    /\ migStep[p] = "backfill"
    /\ tracked' = MigrationFiles
    /\ MigGoto(p, "look")
    /\ UNCHANGED <<effects, provisioned, sawSchema, nextFile, starts>>

(* _apply_pending: a file on record is skipped. *)
LookUpFile(p) ==
    /\ migStep[p] = "look"
    /\ \/ nextFile[p] > FileCount /\ MigGoto(p, "done") /\ UNCHANGED nextFile
       \/ /\ nextFile[p] \in tracked
          /\ nextFile' = [nextFile EXCEPT ![p] = @ + 1] /\ UNCHANGED migStep
       \/ /\ nextFile[p] \in MigrationFiles \ tracked
          /\ MigGoto(p, "execute") /\ UNCHANGED nextFile
    /\ UNCHANGED <<database, sawSchema, starts>>

\* Mutant: the INSERT ignores the conflict.
InsertOutcomeOnConflict(f) == "commit"

(* The filename is UNIQUE: a second INSERT raises once the first is committed. *)
InsertOutcome(f) == IF f \in tracked THEN "failed" ELSE "commit"

(* The SQL and the INSERT, in one transaction.  The INSERT waits for an    *)
(* uncommitted one of the same file.                                       *)
ExecuteFile(p) ==
    /\ migStep[p] = "execute"
    /\ \A q \in Migrators : migStep[q] = "commit" => nextFile[q] # nextFile[p]
    /\ MigGoto(p, InsertOutcome(nextFile[p]))
    /\ UNCHANGED <<database, sawSchema, nextFile, starts>>

CommitFile(p) ==
    /\ migStep[p] = "commit"
    /\ tracked' = tracked \cup {nextFile[p]}
    /\ effects' = Append(effects, nextFile[p])
    /\ \/ MigGoto(p, "look") /\ nextFile' = [nextFile EXCEPT ![p] = @ + 1]
       \/ MigGoto(p, "failed") /\ UNCHANGED nextFile      \* the reply was lost
    /\ UNCHANGED <<provisioned, sawSchema, starts>>

(* A statement raises, or the process dies: its transaction is rolled back. *)
MigratorFails(p) ==
    /\ migStep[p] \notin {"off", "failed", "done"}
    /\ MigGoto(p, "failed")
    /\ UNCHANGED <<database, sawSchema, nextFile, starts>>

MigrationsNext ==
    \E p \in Migrators :
        \/ StartMigrator(p) \/ ReadSchema(p) \/ ReadTrackingCount(p) \/ Backfill(p)
        \/ LookUpFile(p) \/ ExecuteFile(p) \/ CommitFile(p) \/ MigratorFails(p)

MigrationsSpec == MigrationsInit /\ [][MigrationsNext]_migrationVars
-----------------------------------------------------------------------------
(* However many runners there are and wherever they fail: no migration is  *)
(* committed twice (two of them drop tables), they are committed in order, *)
(* one is on record exactly if it ran, and a runner that ends well leaves  *)
(* none out.  In a database from before the record, nothing is run again.  *)
MigrationsSound ==
    /\ effects = [i \in 1..Len(effects) |-> i]
    /\ IF provisioned = 0 THEN tracked = ToSet(effects)
       ELSE Len(effects) = provisioned /\ tracked \in {{}, MigrationFiles}
    /\ \A p \in Migrators : migStep[p] = "done" => tracked = MigrationFiles
=============================================================================
