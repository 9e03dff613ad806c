-------------------------- MODULE DatabaseUpgrade ---------------------------
(***************************************************************************)
(* Who may open the database, and what must be on disk before its schema   *)
(* is raised (internal/adapters/sqlite/store.go, owner_lock_unix.go,       *)
(* setup_store.go, migration.go and backup.go).  Processes of one data     *)
(* root contend for the owner lock; a backup is written under partial      *)
(* names, published database first and manifest second, and left where it  *)
(* is when it fails; a migration from the previous schema makes one first. *)
(* A process may be killed anywhere, and the machine may lose power.       *)
(***************************************************************************)
EXTENDS Naturals, FiniteSets, FiniteSetsExt

CONSTANTS
    Processes,      \* processes on one data root
    Current,        \* the schema version the program needs
    MaxCompleted,   \* maxCompletedBackups (32 in the code)
    MaxEntries,     \* maxBackupEntries (64 in the code)
    MaxBackups,     \* bound on the backups ever begun
    MaxFaults       \* bound on the failures, kills and power losses

UpgradeAssumption ==
    /\ IsFiniteSet(Processes) /\ "nobody" \notin Processes
    /\ Current \in Nat /\ Current >= 2
    /\ MaxCompleted \in Nat /\ MaxEntries \in Nat /\ MaxBackups \in Nat /\ MaxFaults \in Nat

VARIABLES
    schema,     \* the version the database is at; 0 when it is empty
    raised,     \* it was raised from the previous version
    owner,      \* who holds the owner lock
    writers,    \* processes that have the database open for writing
    proc,       \* the command of each process and where it is
    begun,      \* backups begun; each is known by its number
    entries,    \* the names each backup has in the directory
    durable,    \* the names that survive a loss of power
    content,    \* what each backup's database file holds
    faults

upgradeVars == <<schema, raised, owner, writers, proc, begun, entries, durable, content, faults>>

Ids == 1 .. MaxBackups
Nobody == "nobody"
NoNames == [db |-> "none", manifest |-> "none"]
Idle == [kind |-> "none", at |-> "none", id |-> 0]
Kinds == {"service", "setup", "migrate"}

\* The content of a copy that is not finished, or was not synchronised.
Unfinished == 0

UpgradePlaces ==
    {"none", "owns", "opened", "serve", "backup", "copy", "describe", "publishDatabase",
     "syncDatabase", "publishManifest", "syncManifest", "verify", "raise", "close", "closed"}
Commands == [kind : Kinds \cup {"none"}, at : UpgradePlaces, id : 0 .. MaxBackups]
NameStates == {"none", "partial", "final"}

UpgradeTypeOK ==
    /\ schema \in 0 .. Current /\ raised \in BOOLEAN
    /\ owner \in Processes \cup {Nobody} /\ writers \subseteq Processes
    /\ proc \in [Processes -> Commands] /\ begun \in 0 .. MaxBackups
    /\ entries \in [Ids -> [db : NameStates, manifest : NameStates]]
    /\ durable \in [Ids -> [db : NameStates, manifest : NameStates]]
    /\ content \in [Ids -> 0 .. Current] /\ faults \in 0 .. MaxFaults

UpgradeInit ==
    /\ schema \in {0, Current - 2, Current - 1, Current} /\ raised = FALSE
    /\ owner = Nobody /\ writers = {}
    /\ proc = [p \in Processes |-> Idle]
    /\ begun = 0 /\ entries = [i \in Ids |-> NoNames] /\ durable = entries
    /\ content = [i \in Ids |-> Unfinished] /\ faults = 0

-----------------------------------------------------------------------------

IsAt(p, label) == proc[p].kind # "none" /\ proc[p].at = label
Proceed(p, label) == proc' = [proc EXCEPT ![p].at = label]
Fault == faults < MaxFaults /\ faults' = faults + 1
NoFault == UNCHANGED faults
BackupKept == UNCHANGED <<begun, entries, durable, content>>

(* The owner lock and the writer: store.go and owner_lock_unix.go.         *)

\* acquireOwnerLock does not wait: a process that finds an owner is refused.
Begin(p, kind) ==
    /\ proc[p] = Idle /\ owner = Nobody
    /\ owner' = p
    /\ proc' = [proc EXCEPT ![p] = [Idle EXCEPT !.kind = kind, !.at = "owns"]]
    /\ NoFault /\ BackupKept /\ UNCHANGED <<schema, raised, writers>>

\* setup looks before it opens anything, and opens neither an older nor a newer one.
OpenWriter(p) ==
    /\ IsAt(p, "owns")
    /\ \/ /\ proc[p].kind = "setup" => schema \in {0, Current}
          /\ writers' = writers \cup {p} /\ Proceed(p, "opened") /\ NoFault
       \/ /\ proc[p].kind = "setup" /\ schema \notin {0, Current}
          /\ Proceed(p, "closed") /\ NoFault /\ UNCHANGED writers
       \/ Proceed(p, "closed") /\ Fault /\ UNCHANGED writers
    /\ BackupKept /\ UNCHANGED <<schema, raised, owner>>

\* Which versions a command accepts, and what it does with them.
Accepts(kind) ==
    CASE schema = Current -> IF kind = "migrate" THEN "close" ELSE "serve"
      [] schema = 0 -> IF kind = "service" THEN "close" ELSE "raise"
      [] schema = Current - 1 -> IF kind = "migrate" THEN "backup" ELSE "close"
      [] OTHER -> "close"

Inspect(p) ==
    /\ IsAt(p, "opened")
    /\ Proceed(p, Accepts(proc[p].kind)) \/ Proceed(p, "close")
    /\ NoFault /\ BackupKept /\ UNCHANGED <<schema, raised, owner, writers>>

\* Store.Close and the deferred calls of a migration: the writer first.
CloseWriter(p) ==
    /\ IsAt(p, "close")
    /\ writers' = writers \ {p} /\ Proceed(p, "closed")
    /\ NoFault /\ BackupKept /\ UNCHANGED <<schema, raised, owner>>

Unlock(p) ==
    /\ IsAt(p, "closed")
    /\ owner' = (IF owner = p THEN Nobody ELSE owner) /\ writers' = writers \ {p}
    /\ proc' = [proc EXCEPT ![p] = Idle]
    /\ NoFault /\ BackupKept /\ UNCHANGED <<schema, raised>>

-----------------------------------------------------------------------------
(* backup.go                                                               *)

NamesOf(i) == Cardinality({k \in {"db", "manifest"} : entries[i][k] # "none"})
Entries == MapThenSumSet(NamesOf, Ids)
Completed == {i \in Ids : entries[i].manifest = "final"}

\* enforceBackupCaps
WithinCaps == Entries < MaxEntries /\ Cardinality(Completed) < MaxCompleted

\* A backup that fails leaves its files; the service goes on, a migration does not.
Abandoned(p) == Proceed(p, IF proc[p].kind = "migrate" THEN "close" ELSE "serve")
StoreKept == UNCHANGED <<schema, raised, owner, writers>>

BeginBackup(p) ==
    /\ IsAt(p, "backup")
    /\ \/ /\ WithinCaps /\ begun < MaxBackups
          /\ begun' = begun + 1
          /\ entries' = [entries EXCEPT ![begun'].db = "partial"]
          /\ proc' = [proc EXCEPT ![p].at = "copy", ![p].id = begun'] /\ NoFault
       \/ ~WithinCaps /\ Abandoned(p) /\ NoFault /\ UNCHANGED <<begun, entries>>
       \/ Abandoned(p) /\ Fault /\ UNCHANGED <<begun, entries>>
    /\ StoreKept /\ UNCHANGED <<durable, content>>

\* runIncrementalBackup to hashFile: the copy is complete and synchronised,
\* and holds the schema the database has.
CopyDatabase(p) ==
    /\ IsAt(p, "copy")
    /\ \/ content' = [content EXCEPT ![proc[p].id] = schema] /\ Proceed(p, "describe") /\ NoFault
       \/ Abandoned(p) /\ Fault /\ UNCHANGED content
    /\ StoreKept /\ UNCHANGED <<begun, entries, durable>>

Rename(p, kind, name) == entries' = [entries EXCEPT ![proc[p].id][kind] = name]

\* One step that names a file of the backup; it may fail.
NameFile(p, label, kind, name, next) ==
    /\ IsAt(p, label)
    /\ \/ Rename(p, kind, name) /\ Proceed(p, next) /\ NoFault
       \/ Abandoned(p) /\ Fault /\ UNCHANGED entries
    /\ StoreKept /\ UNCHANGED <<begun, durable, content>>

WriteManifest(p) == NameFile(p, "describe", "manifest", "partial", "publishDatabase")
PublishDatabase(p) == NameFile(p, "publishDatabase", "db", "final", "syncDatabase")
PublishManifest(p) == NameFile(p, "publishManifest", "manifest", "final", "syncManifest")

SyncBackups(p, label, next) ==
    /\ IsAt(p, label)
    /\ \/ durable' = entries /\ Proceed(p, next) /\ NoFault
       \/ Abandoned(p) /\ Fault /\ UNCHANGED durable
    /\ StoreKept /\ UNCHANGED <<begun, entries, content>>

\* VerifyBackup of what was published.
VerifyPublished(p) ==
    /\ IsAt(p, "verify")
    /\ \/ Proceed(p, IF proc[p].kind = "migrate" THEN "raise" ELSE "serve") /\ NoFault
       \/ Abandoned(p) /\ Fault
    /\ StoreKept /\ BackupKept

-----------------------------------------------------------------------------
(* The service, and migrateKnown.                                          *)

Serve(p) ==
    /\ IsAt(p, "serve")
    /\ Proceed(p, "backup") \/ Proceed(p, "close")
    /\ NoFault /\ BackupKept /\ StoreKept

\* One transaction raises the schema, and is durable when it commits.
Raise(p) ==
    /\ IsAt(p, "raise")
    /\ \/ /\ schema' = Current /\ raised' = (schema = Current - 1)
          /\ Proceed(p, IF proc[p].kind = "migrate" THEN "close" ELSE "serve") /\ NoFault
       \/ Proceed(p, "close") /\ Fault /\ UNCHANGED <<schema, raised>>
    /\ BackupKept /\ UNCHANGED <<owner, writers>>

-----------------------------------------------------------------------------
(* The machine.                                                            *)

\* The kernel gives back a killed process's lock.
KillProcess(p) ==
    /\ proc[p] # Idle /\ Fault
    /\ owner' = (IF owner = p THEN Nobody ELSE owner) /\ writers' = writers \ {p}
    /\ proc' = [proc EXCEPT ![p] = Idle]
    /\ BackupKept /\ UNCHANGED <<schema, raised>>

\* Each name the directory was not synchronised with may be there or not.
LosePower ==
    /\ Fault
    /\ owner' = Nobody /\ writers' = {} /\ proc' = [p \in Processes |-> Idle]
    /\ \E lost \in SUBSET (Ids \X {"db", "manifest"}) :
          /\ \A e \in lost : entries[e[1]][e[2]] # durable[e[1]][e[2]]
          /\ entries' = [i \in Ids |-> [k \in {"db", "manifest"} |->
                            IF <<i, k>> \in lost THEN durable[i][k] ELSE entries[i][k]]]
    /\ durable' = entries'
    /\ UNCHANGED <<schema, raised, begun, content>>

UpgradeNext ==
    \/ \E p \in Processes :
          \/ \E kind \in Kinds : Begin(p, kind)
          \/ OpenWriter(p) \/ Inspect(p) \/ CloseWriter(p) \/ Unlock(p)
          \/ BeginBackup(p) \/ CopyDatabase(p) \/ WriteManifest(p) \/ PublishDatabase(p)
          \/ SyncBackups(p, "syncDatabase", "publishManifest") \/ PublishManifest(p)
          \/ SyncBackups(p, "syncManifest", "verify") \/ VerifyPublished(p)
          \/ Serve(p) \/ Raise(p) \/ KillProcess(p)
    \/ LosePower

UpgradeSpec == UpgradeInit /\ [][UpgradeNext]_upgradeVars

-----------------------------------------------------------------------------
(* Properties.                                                             *)

\* Two processes never have the database open for writing, however one is
\* closing while the other starts (acquireOwnerLock, Store.Close).
OneWriter == Cardinality(writers) =< 1

\* A final manifest names a database that is there and holds a whole copy,
\* whatever the machine or the process lost on the way (createBackup publishes
\* the database, synchronises, and only then its manifest).
ManifestHasDatabase ==
    \A i \in Completed : entries[i].db = "final" /\ content[i] # Unfinished

\* A database that was raised from the previous schema has a durable backup of
\* that schema (MigrateDatabaseWithBackup).
RaisedHasBackup ==
    raised => \E i \in Ids : durable[i] = [db |-> "final", manifest |-> "final"] /\ content[i] = Current - 1

-----------------------------------------------------------------------------
(* The inductive invariant: whoever runs a command owns the lock, a backup *)
(* grows one name at a time, and what was published or synchronised stays. *)

OwnersRun ==
    \A p \in Processes :
        /\ proc[p].kind # "none" \/ p \in writers => owner = p
        /\ proc[p].kind = "none" => proc[p] = Idle

\* The schema that a command found, and the only ones that go on with it.
InBackup == {"copy", "describe", "publishDatabase", "syncDatabase", "publishManifest",
             "syncManifest", "verify"}
Fits(c) ==
    /\ c.at = "serve" => c.kind # "migrate"
    /\ c.at \in {"serve", "backup"} \cup InBackup =>
          schema = IF c.kind = "migrate" THEN Current - 1 ELSE Current
    /\ c.at = "raise" => schema \in {0, Current - 1}
SchemaFits == \A p \in Processes : Fits(proc[p])

\* What the backup in work has on disk.
Work(e, d, held, at) ==
    /\ at = "copy" => e = [db |-> "partial", manifest |-> "none"]
    /\ at = "describe" => e = [db |-> "partial", manifest |-> "none"] /\ held = schema
    /\ at = "publishDatabase" => e = [db |-> "partial", manifest |-> "partial"] /\ held = schema
    /\ at = "syncDatabase" => e = [db |-> "final", manifest |-> "partial"] /\ held = schema
    /\ at = "publishManifest" => e = [db |-> "final", manifest |-> "partial"] /\ held = schema /\ d = e
    /\ at = "syncManifest" =>
          e = [db |-> "final", manifest |-> "final"] /\ held = schema /\ d.db = "final"
    /\ at = "verify" => e = [db |-> "final", manifest |-> "final"] /\ held = schema /\ d = e

WorkOf(c, at) == c.id \in 1 .. begun /\ Work(entries[c.id], durable[c.id], content[c.id], at)
WorksInOrder(c) ==
    /\ c.at \in InBackup => WorkOf(c, c.at)
    /\ c.at = "raise" /\ schema = Current - 1 => WorkOf(c, "verify")
WorkInOrder == \A p \in Processes : WorksInOrder(proc[p])

\* A manifest's name follows its database's, on disk and through a loss of power.
NamesFollow ==
    \A i \in Ids :
        /\ i > begun => entries[i] = NoNames /\ durable[i] = NoNames
        /\ entries[i].manifest = "final" =>
              entries[i].db = "final" /\ durable[i].db = "final" /\ content[i] # Unfinished
        /\ durable[i].manifest = "final" => entries[i].manifest = "final"

UpgradeIInv ==
    /\ UpgradeTypeOK /\ OwnersRun /\ SchemaFits /\ WorkInOrder /\ NamesFollow /\ RaisedHasBackup
=============================================================================
