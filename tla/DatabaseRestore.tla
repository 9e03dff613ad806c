-------------------------- MODULE DatabaseRestore ---------------------------
(***************************************************************************)
(* The offline restore of internal/adapters/sqlite/restore.go: a verified  *)
(* backup is staged, the canonical database and its sidecars are moved to  *)
(* quarantine, the staged file takes their place, and after every step an  *)
(* operation manifest is replaced so that a later recovery can tell where  *)
(* a killed command stopped.  A step is one file-system operation; it may  *)
(* fail, and the command may be killed after any of them.  The owner lock  *)
(* is held by the one command that runs.  Between commands somebody may    *)
(* start the service, which never looks at operation manifests.            *)
(***************************************************************************)
EXTENDS Naturals, FiniteSets

CONSTANTS
    OperationCap,   \* operation manifests a data root may hold (4 in the code)
    MaxKills,       \* bound on the commands killed
    MaxErrors,      \* bound on the operations that fail
    MaxRevision     \* bound on the changes the service makes to a database

RestoreAssumption ==
    /\ OperationCap \in Nat /\ MaxKills \in Nat /\ MaxErrors \in Nat /\ MaxRevision \in Nat

VARIABLES
    files,      \* content of each name in the data root
    op,         \* the published manifest of the latest operation
    partial,    \* its partial manifest exists
    command,    \* the running command: its kind, where it is, its own manifest
    operations, \* manifests in the data root
    touched,    \* the service ran since the operation was prepared
    errors,     \* operations that failed
    kills       \* commands killed

restoreVars == <<files, op, partial, command, operations, touched, errors, kills>>

Items == {"db", "wal", "shm"}
Canonical == [db |-> "target", wal |-> "targetWal", shm |-> "targetShm"]
Quarantine == [db |-> "old", wal |-> "oldWal", shm |-> "oldShm"]
Names == {Canonical[i] : i \in Items} \cup {Quarantine[i] : i \in Items} \cup {"staged", "failed"}

\* A content is told apart as its hash does: whose database it is, and how
\* often the service has changed it.
Absent == [root |-> "none", revision |-> 0]
Empty == [root |-> "empty", revision |-> 0]
Torn == [root |-> "torn", revision |-> 0]
Database(root, revision) == [root |-> root, revision |-> revision]
Source == Database("backup", 0)
Roots == {"first", "backup", "new"}
IsDatabase(content) == content.root \in Roots

Phases == {"PREPARED", "QUARANTINING", "OLD_QUARANTINED", "INSTALLING", "NEW_INSTALLED", "VERIFIED",
           "COMMITTED", "ROLLING_BACK", "ROLLED_BACK", "FAILED_NEEDS_OPERATOR"}
Terminal == {"COMMITTED", "ROLLED_BACK"}
NoOperation == [phase |-> "none", has |-> [i \in Items |-> FALSE], old |-> Absent]
NoCommand == [kind |-> "none", at |-> "none", item |-> "db", op |-> NoOperation]

Exists(name) == files[name] # Absent

RestoreTypeOK ==
    /\ DOMAIN files = Names
    /\ \A n \in Names : files[n].root \in Roots \cup {"none", "empty", "torn"}
    /\ op.phase \in Phases \cup {"none"} /\ op.has \in [Items -> BOOLEAN]
    /\ op.phase = "none" \/ (op.has["db"] <=> op.old # Absent)
    /\ operations \in 0 .. OperationCap /\ partial \in BOOLEAN /\ touched \in BOOLEAN
    /\ errors \in 0 .. MaxErrors /\ kills \in 0 .. MaxKills

\* A data root with or without a database; a service that was killed left
\* sidecars of it.
RestoreInit ==
    /\ \E present \in BOOLEAN, sidecars \in BOOLEAN :
          files = [n \in Names |->
                     IF present /\ (n = "target" \/ (sidecars /\ n \in {"targetWal", "targetShm"}))
                     THEN Database("first", 0) ELSE Absent]
    /\ op = NoOperation /\ partial = FALSE /\ command = NoCommand
    /\ operations = 0 /\ touched = FALSE /\ errors = 0 /\ kills = 0

-----------------------------------------------------------------------------
(* Steps of a command.                                                     *)

At(label) == command.kind # "none" /\ command.at = label
Done == command' = NoCommand
GoTo(label) == command' = [command EXCEPT !.at = label, !.item = "db"]

\* advanceRestoreOperation: the manifest with its new phase is to be published.
Advance(phase) == command' = [command EXCEPT !.at = "create", !.op.phase = phase]
Rollback == Advance("ROLLING_BACK")
NeedsOperator == Advance("FAILED_NEEDS_OPERATOR")

\* A faulty command that ends with the verification.
StopVerified == Done

CommitVerified == Advance("COMMITTED")

\* Where a publication that succeeded leads, and one that failed.
Published ==
    LET phase == command.op.phase IN
    CASE phase = "PREPARED" -> GoTo("prepared")
      [] phase = "QUARANTINING" -> GoTo("quarantine")
      [] phase = "OLD_QUARANTINED" -> GoTo("quarantined")
      [] phase = "INSTALLING" -> GoTo("install")
      [] phase = "NEW_INSTALLED" -> IF command.kind = "restore" THEN GoTo("verify") ELSE Advance("VERIFIED")
      [] phase = "VERIFIED" -> CommitVerified
      [] phase = "ROLLING_BACK" -> GoTo("examine")
      [] OTHER -> Done

Unpublished ==
    IF command.kind = "restore"
       /\ command.op.phase \in {"OLD_QUARANTINED", "INSTALLING", "NEW_INSTALLED", "VERIFIED", "COMMITTED"}
    THEN Rollback ELSE Done

Fails == errors < MaxErrors /\ errors' = errors + 1
Works == UNCHANGED errors
OnlyCommand == UNCHANGED <<files, op, partial, operations, touched, kills>>

\* publishRestoreOperation: the partial manifest is created exclusively and
\* nothing ever removes it but its own rename.
CreatePartial ==
    /\ At("create")
    /\ IF partial
       THEN Unpublished /\ Works /\ UNCHANGED partial
       ELSE \/ partial' = TRUE /\ GoTo("rename") /\ Works
            \/ Unpublished /\ Fails /\ UNCHANGED partial
    /\ UNCHANGED <<files, op, operations, touched, kills>>

RenamePartial ==
    /\ At("rename")
    /\ \/ /\ partial' = FALSE /\ op' = command.op
          /\ operations' = IF command.op.phase = "PREPARED" THEN operations + 1 ELSE operations
          /\ GoTo("sync") /\ Works
       \/ Unpublished /\ Fails /\ UNCHANGED <<op, partial, operations>>
    /\ UNCHANGED <<files, touched, kills>>

SyncManifest ==
    /\ At("sync")
    /\ (Published /\ Works) \/ (Unpublished /\ Fails)
    /\ OnlyCommand

-----------------------------------------------------------------------------
(* RestoreOffline.                                                         *)

\* The caps, the backup's verification, and a staged file of its own name;
\* what earlier operations left has other names.
BeginRestore ==
    /\ command = NoCommand
    /\ op.phase \in Terminal \cup {"none"} /\ operations < OperationCap
    /\ files' = [n \in Names |-> IF \E i \in Items : n = Canonical[i] THEN files[n]
                                 ELSE IF n = "staged" THEN Torn ELSE Absent]
    /\ command' = [NoCommand EXCEPT !.kind = "restore", !.at = "stage"]
    /\ op' = NoOperation /\ partial' = FALSE /\ touched' = FALSE
    /\ UNCHANGED <<operations, errors, kills>>

\* inspectCanonicalArtifacts of a data root whose database can be hashed.
Inspected ==
    [phase |-> "PREPARED", has |-> [i \in Items |-> Exists(Canonical[i])], old |-> files["target"]]

Stage ==
    /\ At("stage")
    /\ \/ /\ files' = [files EXCEPT !["staged"] = Source]
          /\ IF files["target"] = Empty THEN Done
             ELSE command' = [command EXCEPT !.at = "create", !.op = Inspected]
          /\ Works
       \/ Done /\ Fails /\ UNCHANGED files
    /\ UNCHANGED <<op, partial, operations, touched, kills>>

\* Before quarantine a cancelled context only ends the operation.
Prepared ==
    /\ At("prepared")
    /\ Advance("QUARANTINING") \/ Advance("ROLLED_BACK")
    /\ Works /\ OnlyCommand

NextItem == [db |-> "wal", wal |-> "shm", shm |-> "none"]

\* The next item, or what comes after the last one.
Following(label) ==
    IF NextItem[command.item] = "none" THEN GoTo(label)
    ELSE command' = [command EXCEPT !.item = NextItem[command.item]]

Moved(from, to) == [files EXCEPT ![to] = files[from], ![from] = Absent]

\* A faulty quarantine that leaves the sidecars.
QuarantineOnlyDatabase ==
    /\ At("quarantine")
    /\ files' = IF command.op.has["db"] THEN Moved("target", "old") ELSE files
    /\ GoTo("syncQuarantine") /\ Works
    /\ UNCHANGED <<op, partial, operations, touched, kills>>

QuarantineItem ==
    /\ At("quarantine")
    /\ LET i == command.item IN
       IF command.op.has[i]
       THEN \/ files' = Moved(Canonical[i], Quarantine[i]) /\ Following("syncQuarantine") /\ Works
            \/ Rollback /\ Fails /\ UNCHANGED files
       ELSE Following("syncQuarantine") /\ Works /\ UNCHANGED files
    /\ UNCHANGED <<op, partial, operations, touched, kills>>

SyncQuarantine ==
    /\ At("syncQuarantine")
    /\ (Advance("OLD_QUARANTINED") /\ Works) \/ (Rollback /\ Fails)
    /\ OnlyCommand

\* A cancelled context rolls back.
Quarantined ==
    /\ At("quarantined")
    /\ Advance("INSTALLING") \/ Rollback
    /\ Works /\ OnlyCommand

InstallStaged ==
    /\ At("install")
    /\ \/ files' = Moved("staged", "target") /\ GoTo("syncInstalled") /\ Works
       \/ Rollback /\ Fails /\ UNCHANGED files
    /\ UNCHANGED <<op, partial, operations, touched, kills>>

\* The directory is synchronised; the restore, not the recovery, hashes the
\* installed file before it says so.
SyncInstalled ==
    /\ At("syncInstalled")
    /\ \/ /\ IF command.kind = "recover" THEN GoTo("verify")
             ELSE IF files["target"] = Source THEN Advance("NEW_INSTALLED") ELSE Rollback
          /\ Works
       \/ Rollback /\ Fails
    /\ OnlyCommand

\* verifyBackupDatabase of the installed file: after it a restore is VERIFIED;
\* a recovery (finishRecoveredRestore) first says NEW_INSTALLED where it was not said.
Verify ==
    /\ At("verify")
    /\ \/ /\ IF command.kind = "recover" /\ command.op.phase \notin {"NEW_INSTALLED", "VERIFIED"}
             THEN Advance("NEW_INSTALLED") ELSE Advance("VERIFIED")
          /\ Works
       \/ (IF command.kind = "restore" THEN Rollback ELSE Done) /\ Fails
       \/ command.kind = "restore" /\ Rollback /\ Works
    /\ OnlyCommand

-----------------------------------------------------------------------------
(* rollbackRestore.                                                        *)

\* The old database may still be canonical; the restored one makes room; any
\* other is not for the program to judge.
Examine ==
    /\ At("examine")
    /\ LET target == files["target"] IN
       \/ target = Absent /\ GoTo("putBack") /\ Works /\ UNCHANGED files
       \/ target # Absent /\ target = command.op.old /\ ~Exists("old")
          /\ GoTo("putBack") /\ Works /\ UNCHANGED files
       \/ /\ target = Source /\ ~(target = command.op.old /\ ~Exists("old"))
          /\ \/ files' = Moved("target", "failed") /\ GoTo("putBack") /\ Works
             \/ NeedsOperator /\ Fails /\ UNCHANGED files
       \/ target \notin {Absent, Source} /\ ~(target = command.op.old /\ ~Exists("old"))
          /\ NeedsOperator /\ Works /\ UNCHANGED files
    /\ UNCHANGED <<op, partial, operations, touched, kills>>

PutBack ==
    /\ At("putBack")
    /\ LET i == command.item IN
       IF command.op.has[i] /\ ~Exists(Canonical[i])
       THEN \/ /\ Exists(Quarantine[i]) /\ files' = Moved(Quarantine[i], Canonical[i])
               /\ Following("settle") /\ Works
            \/ ~Exists(Quarantine[i]) /\ NeedsOperator /\ Works /\ UNCHANGED files
            \/ NeedsOperator /\ Fails /\ UNCHANGED files
       ELSE Following("settle") /\ Works /\ UNCHANGED files
    /\ UNCHANGED <<op, partial, operations, touched, kills>>

\* The directory is synchronised and the old database hashed.
Settle ==
    /\ At("settle")
    /\ \/ /\ IF command.op.has["db"] /\ files["target"] # command.op.old
             THEN NeedsOperator ELSE Advance("ROLLED_BACK")
          /\ Works
       \/ NeedsOperator /\ Fails
    /\ OnlyCommand

-----------------------------------------------------------------------------
(* RecoverRestoreOffline.                                                  *)

CanonicalMatchesInitial ==
    IF op.has["db"] THEN files["target"] = op.old ELSE ~Exists("target")

QuarantineReady ==
    /\ op.has["db"] => files["old"] = op.old
    /\ \A i \in {"wal", "shm"} : op.has[i] => Exists(Quarantine[i])

\* A database of no bytes cannot be hashed.
Unreadable == files["target"] = Empty

Takes(phase, label) == command' = [kind |-> "recover", at |-> label, item |-> "db", op |-> [op EXCEPT !.phase = phase]]
TakesOn == Takes("ROLLING_BACK", "create")
GivesUp == Takes("FAILED_NEEDS_OPERATOR", "create")

RecoverFromQuarantine == TakesOn

\* OLD_QUARANTINED or INSTALLING: forward if the staged or the installed file
\* is the backup's, back otherwise.
RecoverInstall ==
    IF ~QuarantineReady \/ Unreadable THEN GivesUp
    ELSE IF files["target"] = Source THEN Takes(op.phase, "verify")
    ELSE IF Exists("target") \/ files["staged"] # Source THEN TakesOn
    ELSE Takes("INSTALLING", "create")

RecoverInstalled ==
    IF ~QuarantineReady THEN GivesUp
    ELSE IF files["target"] # Source THEN TakesOn ELSE Takes(op.phase, "verify")

BeginRecovery ==
    /\ command = NoCommand
    /\ op.phase \in Phases \ (Terminal \cup {"FAILED_NEEDS_OPERATOR"})
    /\ \/ /\ Works
          /\ \/ op.phase = "PREPARED"
                /\ IF CanonicalMatchesInitial THEN Takes("ROLLED_BACK", "create") ELSE GivesUp
             \/ op.phase \in {"QUARANTINING", "ROLLING_BACK"} /\ RecoverFromQuarantine
             \/ op.phase \in {"OLD_QUARANTINED", "INSTALLING"} /\ RecoverInstall
             \/ op.phase \in {"NEW_INSTALLED", "VERIFIED"} /\ RecoverInstalled
       \/ GivesUp /\ Fails      \* the backup does not verify any more
    /\ OnlyCommand

-----------------------------------------------------------------------------
(* Around the commands.                                                    *)

Kill ==
    /\ command # NoCommand /\ kills < MaxKills
    /\ Done /\ kills' = kills + 1
    /\ UNCHANGED <<files, op, partial, operations, touched, errors>>

\* openWriter of a data root without a database creates an empty file; SQLite
\* removes the sidecars it finds beside one.
OpensEmpty ==
    /\ files["target"] \in {Absent, Empty}
    /\ \/ files' = [files EXCEPT !["target"] = Empty, !["targetWal"] = Absent, !["targetShm"] = Absent]
       \/ files' = [files EXCEPT !["target"] = Database("new", 0), !["targetWal"] = Absent,
                                 !["targetShm"] = Absent]

\* The service may change its database, and leave sidecars when it is killed;
\* a WAL it found is in the database once it is gone.  A backup is not in WAL
\* mode: opening it for writing changes its header.
OpensDatabase ==
    LET target == files["target"] IN
    /\ IsDatabase(target)
    /\ \E changes \in {0, 1}, left \in BOOLEAN :
          /\ target.revision + changes =< MaxRevision
          /\ (Exists("targetWal") /\ ~left) \/ target = Source => changes = 1
          /\ files' = [files EXCEPT !["target"].revision = @ + changes,
                         !["targetWal"] = IF left THEN Database(target.root, 0) ELSE Absent,
                         !["targetShm"] = IF left THEN Database(target.root, 0) ELSE Absent]

\* The service, setup or a migration, from its start to its end.
ServiceRuns ==
    /\ command = NoCommand
    /\ OpensEmpty \/ OpensDatabase
    /\ touched' = TRUE
    /\ UNCHANGED <<op, partial, command, operations, errors, kills>>

CommandStep ==
    \/ CreatePartial \/ RenamePartial \/ SyncManifest
    \/ Stage \/ Prepared \/ QuarantineItem \/ SyncQuarantine \/ Quarantined \/ InstallStaged
    \/ SyncInstalled \/ Verify
    \/ Examine \/ PutBack \/ Settle

RestoreNext == BeginRestore \/ BeginRecovery \/ CommandStep \/ Kill \/ ServiceRuns

RestoreSpec == RestoreInit /\ [][RestoreNext]_restoreVars

\* Commands run on, and an operator recovers an operation that did not end.
RestoreLiveSpec == RestoreSpec /\ WF_restoreVars(CommandStep) /\ WF_restoreVars(BeginRecovery)

-----------------------------------------------------------------------------
(* Properties.                                                             *)

\* Wherever commands fail or are killed, and whatever the service does between
\* them, the database an operation found is canonical or in quarantine
\* (RestoreOffline, rollbackRestore): no step loses it.
OldDatabaseKept ==
    op.has["db"] => \E n \in {"target", "old"} : files[n].root = op.old.root

\* A WAL beside the canonical database is of that database: a restored file
\* never meets the old one's WAL, which SQLite would apply to it.
WalOfItsDatabase ==
    Exists("targetWal") /\ IsDatabase(files["target"]) => files["targetWal"].root = files["target"].root

\* What a finished operation's manifest says is what is there, if the service
\* was not started before its end: the backup without sidecars, or the old
\* database with those it had.
ManifestTellsTruth ==
    ~touched =>
       /\ op.phase = "COMMITTED" /\ command = NoCommand =>
             files["target"] = Source /\ ~Exists("targetWal") /\ ~Exists("targetShm")
       /\ op.phase = "ROLLED_BACK" =>
             /\ files["target"] = op.old
             /\ \A i \in {"wal", "shm"} : op.has[i] <=> Exists(Canonical[i])

\* However often restore and recovery are killed, recovery finds its own way:
\* an operator is needed only after an error or a service start in between
\* (the phases of RecoverRestoreOffline cover every interrupted step).
KillsNeedNoOperator ==
    op.phase = "FAILED_NEEDS_OPERATOR" => touched \/ errors > 0

Interrupted == op.phase \in Phases \ (Terminal \cup {"FAILED_NEEDS_OPERATOR"})

\* Recovery takes an interrupted operation to an end (RecoverRestoreOffline),
\* but for one that was interrupted while its manifest was replaced: the partial
\* manifest that leaves stands in the way of every later one.
Settled == ~Interrupted \/ (partial /\ command = NoCommand)
RecoveryEnds == Interrupted ~> Settled

\* The same without that exception, as the comment on RecoverRestoreOffline
\* says: from its manifest and hashes an operation converges again to commit
\* or rollback.
RecoveryConverges == Interrupted ~> ~Interrupted
-----------------------------------------------------------------------------
(* The inductive invariant: what each manifest says, where a command is in *)
(* it, and what that means for the files if no service ran in between.     *)

Sidecars == {"wal", "shm"}
Readable == [root : Roots, revision : Nat]

ContentsFit ==
    /\ files \in [Names -> Readable \cup {Absent, Empty, Torn}]
    /\ \A n \in Names \ {"staged"} : files[n] # Torn

\* A sidecar was found beside a database, and that was not a fresh backup.
ManifestFits(m) ==
    /\ m \in [phase : Phases \cup {"none"}, has : [Items -> BOOLEAN], old : Readable \cup {Absent}]
    /\ m.has["db"] <=> m.old # Absent
    /\ m.has["wal"] \/ m.has["shm"] => m.has["db"] /\ m.old # Source
    /\ m.phase = "none" => m = NoOperation

\* A sidecar is beside its database, or that is away for a while; one in
\* quarantine is the old database's.
Parting == {"QUARANTINING", "ROLLING_BACK", "FAILED_NEEDS_OPERATOR"}
SidecarsFit ==
    \A i \in Sidecars :
        /\ Exists(Canonical[i]) =>
              \/ /\ files["target"] \in Readable /\ files["target"] # Source
                 /\ files[Canonical[i]].root = files["target"].root
              \/ /\ ~Exists("target") /\ op.phase \in Parting /\ op.has["db"] /\ op.old # Source
                 /\ files[Canonical[i]].root = op.old.root
        /\ Exists(Quarantine[i]) => op.has[i] /\ files[Quarantine[i]].root = op.old.root

\* The old database is in quarantine as it was, or canonical with what the
\* service made of it.
OldFound ==
    /\ Exists("old") => op.has["db"] /\ files["old"] = op.old
    /\ op.has["db"] /\ ~Exists("old") =>
          /\ files["target"] \in Readable /\ files["target"].root = op.old.root
          /\ files["target"].revision >= op.old.revision

\* What a manifest says of the files, if no service ran since it was prepared.
AsFound(m) ==
    /\ files["target"] = m.old /\ ~Exists("old")
    /\ \A i \in Sidecars : (m.has[i] <=> Exists(Canonical[i])) /\ ~Exists(Quarantine[i])
AllOut(m) ==
    /\ m.has["db"] => files["old"] = m.old
    /\ \A i \in Sidecars : ~Exists(Canonical[i]) /\ (m.has[i] => Exists(Quarantine[i]))
Parted(m) ==
    \A i \in Sidecars : IF m.has[i] THEN Exists(Canonical[i]) # Exists(Quarantine[i])
                                    ELSE ~Exists(Canonical[i])
OldOut(m) == m.has["db"] => files["old"] = m.old
OldBack(m) == files["target"] = m.old /\ ~Exists("old")
Tells(m) ==
    CASE m.phase \in {"PREPARED", "ROLLED_BACK"} -> AsFound(m)
      [] m.phase = "QUARANTINING" -> Parted(m) /\ (OldBack(m) \/ (~Exists("target") /\ OldOut(m)))
      [] m.phase = "OLD_QUARANTINED" -> AllOut(m) /\ ~Exists("target")
      [] m.phase = "INSTALLING" -> AllOut(m) /\ files["target"] \in {Absent, Source}
      [] m.phase \in {"NEW_INSTALLED", "VERIFIED", "COMMITTED"} -> AllOut(m) /\ files["target"] = Source
      [] m.phase = "ROLLING_BACK" ->
            Parted(m) /\ (OldBack(m) \/ (files["target"] \in {Absent, Source} /\ OldOut(m)))
      [] OTHER -> TRUE

\* The phases of the manifest in which a command is at each place.
PhasesAt(kind, at) ==
    CASE at = "stage" -> {"none"}
      [] at \in {"create", "rename", "sync"} ->
            IF kind = "restore" THEN Phases ELSE Phases \ {"PREPARED", "QUARANTINING", "OLD_QUARANTINED"}
      [] at = "prepared" -> {"PREPARED"}
      [] at \in {"quarantine", "syncQuarantine"} -> {"QUARANTINING"}
      [] at = "quarantined" -> {"OLD_QUARANTINED"}
      [] at \in {"install", "syncInstalled"} -> {"INSTALLING"}
      [] at = "verify" -> IF kind = "restore" THEN {"NEW_INSTALLED"}
                          ELSE {"OLD_QUARANTINED", "INSTALLING", "NEW_INSTALLED", "VERIFIED"}
      [] at \in {"examine", "putBack", "settle"} -> {"ROLLING_BACK"}
RestorePlaces == {"stage", "prepared", "quarantine", "syncQuarantine", "quarantined"}
Places == RestorePlaces \cup {"create", "rename", "sync", "install", "syncInstalled", "verify",
                              "examine", "putBack", "settle"}

ToPrepare ==
    \/ command.at = "stage"
    \/ command.at \in {"create", "rename"} /\ command.op.phase = "PREPARED"
CommandFits ==
    /\ command.kind = "none" => command = NoCommand
    /\ command.kind # "none" =>
          /\ command \in [kind : {"restore", "recover"}, at : Places, item : Items,
                          op : [phase : Phases \cup {"none"}, has : [Items -> BOOLEAN],
                                old : Readable \cup {Absent}]]
          /\ command.op.phase \in PhasesAt(command.kind, command.at)
          /\ IF op.phase = "none"
             THEN ToPrepare /\ operations < OperationCap
             ELSE ~ToPrepare /\ command.op.has = op.has /\ command.op.old = op.old
          /\ command.at \notin {"create", "rename"} => command.op = op
          /\ command.kind = "restore" => ~touched
          /\ command.kind = "recover" => command.at \notin RestorePlaces

\* What a command has done and checked of its phase, also in a recovery after
\* the service ran.
Before(i) == IF i = "db" THEN {} ELSE IF i = "wal" THEN {"db"} ELSE {"db", "wal"}
ToInstall ==
    \/ command.at = "install"
    \/ command.at \in {"create", "rename", "sync"} /\ command.op.phase = "INSTALLING"
StepsDone ==
    /\ ToInstall =>
          /\ ~Exists("target") /\ \A i \in Sidecars : ~Exists(Canonical[i])
          /\ command.op.has["db"] => files["old"] = command.op.old
    /\ \/ ToInstall
       \/ command.kind = "restore" /\ command.op.phase \in {"PREPARED", "QUARANTINING", "OLD_QUARANTINED"}
       => files["staged"] = Source
    /\ command.at \in {"create", "rename", "sync"} /\ command.op.phase = "QUARANTINING" => AsFound(command.op)
    /\ command.at = "quarantine" =>
          \A i \in Items :
              IF i \in Before(command.item)
              THEN ~Exists(Canonical[i]) /\ (op.has[i] => Exists(Quarantine[i]))
              ELSE (op.has[i] <=> Exists(Canonical[i])) /\ ~Exists(Quarantine[i])
    /\ command.at = "syncQuarantine" => AllOut(op) /\ ~Exists("target")
    /\ \/ command.at \in {"syncInstalled", "verify"}
       \/ command.op.phase \in {"NEW_INSTALLED", "VERIFIED", "COMMITTED"}
       => files["target"] = Source
    /\ command.at = "putBack" =>
          /\ OldBack(op) \/ (command.item = "db" /\ ~Exists("target"))
          /\ \A i \in Before(command.item) : op.has[i] => Exists(Canonical[i])
    /\ command.at = "settle" => OldBack(op) /\ \A i \in Items : op.has[i] => Exists(Canonical[i])
    /\ command.op.phase = "ROLLED_BACK" => files["target"] = command.op.old

RestoreIInv ==
    /\ RestoreTypeOK /\ ContentsFit /\ ManifestFits(op) /\ ManifestFits(command.op)
    /\ SidecarsFit /\ OldFound /\ CommandFits /\ StepsDone
    /\ ~touched => Tells(op) /\ Tells(command.op)
    /\ "FAILED_NEEDS_OPERATOR" \in {op.phase, command.op.phase} => touched \/ errors > 0
=============================================================================
