---------------------------- MODULE DatabaseProofs ----------------------------
(***************************************************************************)
(* Theorems about the files of the database: the owner lock, the backups   *)
(* and the migration (module DatabaseUpgrade), for any number of           *)
(* processes, backups, failures, kills and losses of power; and restore    *)
(* and recovery (module DatabaseRestore), for any number of operations,    *)
(* kills, failing steps and starts of the service, whatever it writes.     *)
(***************************************************************************)
EXTENDS DatabaseUpgrade, DatabaseRestore, FiniteSetTheorems, TLAPS

-----------------------------------------------------------------------------
(* The owner lock, the backups and the migration.                          *)

FileTypes == [db : NameStates, manifest : NameStates]
BothFinal(e) == e.db = "final" /\ e.manifest = "final"

\* Everybody else is idle while a process runs a command, or nobody does.
LEMMA OthersIdle ==
    ASSUME UpgradeIInv, NEW p \in Processes, owner = p \/ owner = Nobody, Nobody \notin Processes,
           NEW q \in Processes, q # p
    PROVE  proc[q] = Idle /\ q \notin writers
BY DEF UpgradeIInv, OwnersRun

\* A step of one command: what has to be shown is about its own record, the
\* names and the backup of a raised schema.
LEMMA OwnCommandKeeps ==
    ASSUME UpgradeAssumption, UpgradeIInv, NEW p \in Processes, owner = p \/ owner = Nobody,
           NEW r \in Commands, proc' = [proc EXCEPT ![p] = r],
           r.kind # "none" => owner' = p, r.kind = "none" => r = Idle,
           owner' \in {p, Nobody}, writers' \subseteq writers \cup {p}, p \in writers' => owner' = p,
           UpgradeTypeOK', Fits(r)', WorksInOrder(r)', NamesFollow', RaisedHasBackup'
    PROVE  UpgradeIInv'
<1>1. proc'[p] = r /\ \A q \in Processes : q # p => proc'[q] = Idle /\ q \notin writers'
  BY OthersIdle DEF UpgradeIInv, UpgradeTypeOK, UpgradeAssumption, Nobody
<1>2. OwnersRun'
  BY <1>1 DEF OwnersRun, Idle
<1>3. SchemaFits'
  BY <1>1 DEF SchemaFits, Fits, Idle, InBackup
<1>4. WorkInOrder'
  <2> SUFFICES ASSUME NEW q \in Processes
               PROVE  WorksInOrder(proc[q])'
    BY DEF WorkInOrder
  <2>1. CASE q = p
    BY <1>1, <2>1 DEF WorksInOrder, WorkOf, Work
  <2>2. CASE q # p
    BY <1>1, <2>2 DEF WorksInOrder, Idle, InBackup
  <2> QED
    BY <2>1, <2>2
<1> QED
  BY <1>2, <1>3, <1>4 DEF UpgradeIInv

\* A step that leaves the schema and every backup as they are.
LEMMA KeptStep ==
    ASSUME UpgradeAssumption, UpgradeIInv, NEW p \in Processes, owner = p \/ owner = Nobody,
           NEW r \in Commands, proc' = [proc EXCEPT ![p] = r],
           r.kind # "none" => owner' = p, r.kind = "none" => r = Idle,
           owner' \in {p, Nobody}, writers' \subseteq writers \cup {p}, p \in writers' => owner' = p,
           BackupKept, UNCHANGED <<schema, raised>>, faults' \in 0 .. MaxFaults,
           Fits(r), WorksInOrder(r)
    PROVE  UpgradeIInv'
<1>1. UpgradeTypeOK'
  BY DEF UpgradeIInv, UpgradeTypeOK, BackupKept
<1>2. Fits(r)' /\ WorksInOrder(r)'
  BY DEF Fits, WorksInOrder, WorkOf, Work, BackupKept
<1>3. NamesFollow' /\ RaisedHasBackup'
  BY DEF UpgradeIInv, NamesFollow, RaisedHasBackup, BackupKept
<1> QED
  BY <1>1, <1>2, <1>3, OwnCommandKeeps

\* Between these places nothing is promised about the schema or a backup.
Quiet == {"none", "owns", "opened", "close", "closed"}
LEMMA QuietHolds ==
    ASSUME NEW r \in Commands, r.at \in Quiet
    PROVE  Fits(r) /\ WorksInOrder(r)
BY DEF Fits, WorksInOrder, InBackup, Quiet

LEMMA FaultTyped ==
    ASSUME UpgradeAssumption, UpgradeIInv, Fault \/ NoFault
    PROVE  faults' \in 0 .. MaxFaults
BY DEF UpgradeAssumption, UpgradeIInv, UpgradeTypeOK, Fault, NoFault

\* A command that runs owns the lock; where it goes next, it is still typed.
LEMMA Running ==
    ASSUME UpgradeIInv, NEW p \in Processes, proc[p].kind # "none", NEW label \in UpgradePlaces
    PROVE  /\ owner = p /\ proc[p] \in Commands
           /\ [proc[p] EXCEPT !.at = label] \in Commands
           /\ [proc EXCEPT ![p].at = label] = [proc EXCEPT ![p] = [proc[p] EXCEPT !.at = label]]
           /\ Fits(proc[p]) /\ WorksInOrder(proc[p])
BY DEF UpgradeIInv, UpgradeTypeOK, OwnersRun, SchemaFits, WorkInOrder, Commands

\* A command goes to another place and changes nothing but the writers.
LEMMA GoesOn ==
    ASSUME UpgradeAssumption, UpgradeIInv, NEW p \in Processes, proc[p].kind # "none",
           NEW label \in UpgradePlaces, Proceed(p, label), Fault \/ NoFault,
           BackupKept, UNCHANGED <<schema, raised, owner>>, writers' \subseteq writers \cup {p},
           \/ label \in Quiet
           \/ /\ Fits([proc[p] EXCEPT !.at = label])
              /\ WorksInOrder([proc[p] EXCEPT !.at = label])
    PROVE  UpgradeIInv'
<1> DEFINE r == [proc[p] EXCEPT !.at = label]
<1>1. owner = p /\ r \in Commands /\ proc' = [proc EXCEPT ![p] = r] /\ proc[p] \in Commands
  BY Running DEF Proceed
<1>2. r.kind = proc[p].kind /\ r.at = label
  BY <1>1 DEF Commands
<1>3. Fits(r) /\ WorksInOrder(r)
  BY <1>1, <1>2, QuietHolds
<1>4. faults' \in 0 .. MaxFaults
  BY FaultTyped
<1> QED
  BY <1>1, <1>2, <1>3, <1>4, KeptStep

-----------------------------------------------------------------------------
(* The lock, the writer and the schema that a command finds.               *)

LEMMA LockStep ==
    ASSUME UpgradeAssumption, UpgradeIInv, NEW p \in Processes,
           \/ \E kind \in Kinds : Begin(p, kind)
           \/ Unlock(p) \/ KillProcess(p)
    PROVE  UpgradeIInv'
<1>1. CASE \E kind \in Kinds : Begin(p, kind)
  <2>1. PICK kind \in Kinds : Begin(p, kind)
    BY <1>1
  <2>2. PICK r \in Commands : r = [Idle EXCEPT !.kind = kind, !.at = "owns"]
    <3>1. Idle \in Commands /\ "owns" \in UpgradePlaces
      BY DEF Idle, Commands, UpgradePlaces, UpgradeAssumption
    <3>2. kind \in Kinds \cup {"none"}
      BY <2>1
    <3> QED
      BY <3>1, <3>2 DEF Commands
  <2>3. r.kind # "none" /\ r.at \in Quiet
    BY <2>1, <2>2 DEF Kinds, Idle, Quiet
  <2>4. Fits(r) /\ WorksInOrder(r) /\ p \notin writers
    BY <2>1, <2>3, QuietHolds DEF UpgradeIInv, OwnersRun, Begin, Nobody, UpgradeAssumption
  <2>5. faults' \in 0 .. MaxFaults
    BY <2>1, FaultTyped DEF Begin
  <2> QED
    BY <2>1, <2>2, <2>3, <2>4, <2>5, KeptStep DEF Begin
<1>2. CASE Unlock(p) \/ KillProcess(p)
  <2>1. /\ proc[p].kind # "none"
        /\ owner' = (IF owner = p THEN Nobody ELSE owner) /\ writers' = writers \ {p}
        /\ proc' = [proc EXCEPT ![p] = Idle]
        /\ BackupKept /\ UNCHANGED <<schema, raised>> /\ (Fault \/ NoFault)
    BY <1>2 DEF Unlock, KillProcess, IsAt, UpgradeIInv, OwnersRun
  <2>2. owner = p
    BY <2>1, Running DEF UpgradePlaces
  <2>3. Idle \in Commands /\ Idle.kind = "none" /\ Idle.at \in Quiet
    BY DEF Idle, Commands, UpgradePlaces, Quiet, UpgradeAssumption
  <2>4. Fits(Idle) /\ WorksInOrder(Idle) /\ faults' \in 0 .. MaxFaults
    BY <2>1, <2>3, QuietHolds, FaultTyped
  <2> QED
    BY <2>1, <2>2, <2>3, <2>4, KeptStep
<1> QED
  BY <1>1, <1>2

LEMMA StoreStep ==
    ASSUME UpgradeAssumption, UpgradeIInv, NEW p \in Processes,
           OpenWriter(p) \/ Inspect(p) \/ CloseWriter(p) \/ Serve(p) \/ VerifyPublished(p)
    PROVE  UpgradeIInv'
<1>1. proc[p].kind # "none"
  BY DEF OpenWriter, Inspect, CloseWriter, Serve, VerifyPublished, IsAt
<1>2. /\ proc[p] \in Commands /\ Fits(proc[p]) /\ WorksInOrder(proc[p])
      /\ schema \in 0 .. Current /\ Current \in Nat /\ Current >= 2
  BY <1>1, Running DEF UpgradePlaces, UpgradeIInv, UpgradeTypeOK, UpgradeAssumption
<1> DEFINE to(label) == [proc[p] EXCEPT !.at = label]
<1>3. \A label \in UpgradePlaces : to(label).at = label /\ to(label).kind = proc[p].kind /\ to(label).id = proc[p].id
  BY <1>2 DEF Commands
<1>4. CASE OpenWriter(p)
  <2>1. \E label \in {"opened", "closed"} : Proceed(p, label)
    BY <1>4 DEF OpenWriter
  <2>2. PICK label \in {"opened", "closed"} : Proceed(p, label)
    BY <2>1
  <2>3. label \in UpgradePlaces /\ label \in Quiet
    BY <2>2 DEF UpgradePlaces, Quiet
  <2>4. /\ BackupKept /\ UNCHANGED <<schema, raised, owner>> /\ (Fault \/ NoFault)
        /\ writers' \subseteq writers \cup {p}
    BY <1>4 DEF OpenWriter
  <2> QED
    BY <1>1, <2>2, <2>3, <2>4, GoesOn
<1>5. CASE Inspect(p)
  <2>1. PICK label \in {Accepts(proc[p].kind), "close"} : Proceed(p, label)
    BY <1>5 DEF Inspect
  <2>2. \/ label = "close"
        \/ label = "serve" /\ schema = Current /\ proc[p].kind # "migrate"
        \/ label = "raise" /\ schema = 0
        \/ label = "backup" /\ schema = Current - 1 /\ proc[p].kind = "migrate"
    BY <1>2, <2>1 DEF Accepts
  <2>3. label \in UpgradePlaces
    BY <2>2 DEF UpgradePlaces
  <2>4. label \in Quiet \/ (Fits(to(label)) /\ WorksInOrder(to(label)))
    BY <1>2, <1>3, <2>2, <2>3 DEF Fits, WorksInOrder, InBackup, Quiet
  <2>5. /\ BackupKept /\ UNCHANGED <<schema, raised, owner>> /\ (Fault \/ NoFault)
        /\ writers' \subseteq writers \cup {p}
    BY <1>5 DEF Inspect
  <2> QED
    BY <1>1, <2>1, <2>3, <2>4, <2>5, GoesOn
<1>6. CASE CloseWriter(p)
  <2>1. "closed" \in UpgradePlaces /\ "closed" \in Quiet
    BY DEF UpgradePlaces, Quiet
  <2>2. /\ BackupKept /\ UNCHANGED <<schema, raised, owner>> /\ (Fault \/ NoFault)
        /\ writers' \subseteq writers \cup {p} /\ Proceed(p, "closed")
    BY <1>6 DEF CloseWriter
  <2> QED
    BY <1>1, <2>1, <2>2, GoesOn
<1>7. CASE Serve(p)
  <2>1. PICK label \in {"backup", "close"} : Proceed(p, label)
    BY <1>7 DEF Serve
  <2>2. label \in UpgradePlaces
    BY <2>1 DEF UpgradePlaces
  <2>3. label \in Quiet \/ (Fits(to(label)) /\ WorksInOrder(to(label)))
    BY <1>2, <1>3, <1>7, <2>1, <2>2 DEF Serve, IsAt, Fits, WorksInOrder, InBackup, Quiet
  <2>4. /\ BackupKept /\ UNCHANGED <<schema, raised, owner>> /\ (Fault \/ NoFault)
        /\ writers' \subseteq writers \cup {p}
    BY <1>7 DEF Serve, StoreKept
  <2> QED
    BY <1>1, <2>1, <2>2, <2>3, <2>4, GoesOn
<1>8. CASE VerifyPublished(p)
  <2>1. PICK label \in {"raise", "serve", "close"} :
           /\ Proceed(p, label)
           /\ label = "raise" => proc[p].kind = "migrate"
           /\ label = "serve" => proc[p].kind # "migrate"
    BY <1>8 DEF VerifyPublished, Abandoned
  <2>2. label \in UpgradePlaces
    BY <2>1 DEF UpgradePlaces
  <2>3. proc[p].at = "verify" /\ WorkOf(proc[p], "verify")
    BY <1>2, <1>8 DEF VerifyPublished, IsAt, WorksInOrder, InBackup
  <2>4. label \in Quiet \/ (Fits(to(label)) /\ WorksInOrder(to(label)))
    BY <1>2, <1>3, <2>1, <2>2, <2>3 DEF Fits, WorksInOrder, WorkOf, InBackup, Quiet
  <2>5. /\ BackupKept /\ UNCHANGED <<schema, raised, owner>> /\ (Fault \/ NoFault)
        /\ writers' \subseteq writers \cup {p}
    BY <1>8 DEF VerifyPublished, StoreKept
  <2> QED
    BY <1>1, <2>1, <2>2, <2>4, <2>5, GoesOn
<1> QED
  BY <1>4, <1>5, <1>6, <1>7, <1>8

-----------------------------------------------------------------------------
(* The steps of a backup.                                                  *)

\* A backup that is given up leaves what it has.
LEMMA Abandons ==
    ASSUME UpgradeAssumption, UpgradeIInv, NEW p \in Processes, proc[p].kind # "none",
           proc[p].at \in {"backup"} \cup InBackup, Abandoned(p), Fault \/ NoFault,
           StoreKept, BackupKept
    PROVE  UpgradeIInv'
<1>1. PICK label \in {"close", "serve"} :
         Proceed(p, label) /\ (label = "serve" => proc[p].kind # "migrate")
  BY DEF Abandoned
<1>2. label \in UpgradePlaces
  BY <1>1 DEF UpgradePlaces
<1>3. proc[p] \in Commands /\ Fits(proc[p])
  BY <1>2, Running
<1>4. label \in Quiet \/ (Fits([proc[p] EXCEPT !.at = label]) /\ WorksInOrder([proc[p] EXCEPT !.at = label]))
  BY <1>1, <1>3 DEF Fits, WorksInOrder, InBackup, Quiet, Commands
<1> QED
  BY <1>1, <1>2, <1>4, GoesOn DEF StoreKept

\* A step of the backup in work that leaves the store alone.
LEMMA BackupStep ==
    ASSUME UpgradeAssumption, UpgradeIInv, NEW p \in Processes, proc[p].kind # "none",
           proc[p].at \in {"backup"} \cup InBackup, NEW r \in Commands,
           proc' = [proc EXCEPT ![p] = r], r.kind = proc[p].kind, r.at \in InBackup,
           StoreKept, Fault \/ NoFault, begun' \in 0 .. MaxBackups,
           entries' \in [Ids -> FileTypes], durable' \in [Ids -> FileTypes],
           content' \in [Ids -> 0 .. Current],
           r.id \in 1 .. begun', Work(entries[r.id], durable[r.id], content[r.id], r.at)',
           NamesFollow', RaisedHasBackup'
    PROVE  UpgradeIInv'
<1>1. owner = p /\ Fits(proc[p])
  BY Running DEF UpgradePlaces
<1>2. UpgradeTypeOK'
  BY FaultTyped DEF UpgradeIInv, UpgradeTypeOK, StoreKept, FileTypes
<1>3. Fits(r)'
  BY <1>1 DEF Fits, StoreKept, InBackup
<1>4. WorksInOrder(r)'
  BY DEF WorksInOrder, WorkOf, InBackup
<1> QED
  BY <1>1, <1>2, <1>3, <1>4, OwnCommandKeeps DEF StoreKept

\* Each file step goes on or gives up.
LEMMA FileSteps ==
    ASSUME UpgradeAssumption, UpgradeIInv, NEW p \in Processes,
           \/ BeginBackup(p) \/ CopyDatabase(p) \/ WriteManifest(p) \/ PublishDatabase(p)
           \/ SyncBackups(p, "syncDatabase", "publishManifest") \/ PublishManifest(p)
           \/ SyncBackups(p, "syncManifest", "verify")
    PROVE  UpgradeIInv'
<1>1. /\ proc[p].kind # "none" /\ proc[p].at \in {"backup"} \cup InBackup
      /\ StoreKept /\ (Fault \/ NoFault)
  BY DEF BeginBackup, CopyDatabase, WriteManifest, PublishDatabase, SyncBackups, PublishManifest,
         NameFile, IsAt, InBackup
<1>2. CASE Abandoned(p) /\ BackupKept
  BY <1>1, <1>2, Abandons
<1>3. /\ proc[p] \in Commands /\ Fits(proc[p]) /\ WorksInOrder(proc[p])
      /\ schema \in 1 .. Current /\ Current \in Nat
      /\ proc[p].kind = "migrate" => schema = Current - 1
  <2>1. proc[p] \in Commands /\ Fits(proc[p]) /\ WorksInOrder(proc[p])
    BY <1>1, Running DEF UpgradePlaces
  <2>2. Current \in Nat /\ Current >= 2
    BY DEF UpgradeAssumption
  <2> QED
    BY <1>1, <2>1, <2>2 DEF Fits
<1>4. /\ begun \in 0 .. MaxBackups /\ MaxBackups \in Nat
      /\ entries \in [Ids -> FileTypes] /\ durable \in [Ids -> FileTypes]
      /\ content \in [Ids -> 0 .. Current]
      /\ NamesFollow /\ RaisedHasBackup
  BY DEF UpgradeIInv, UpgradeTypeOK, UpgradeAssumption, FileTypes
<1>5. ASSUME BeginBackup(p), begun < MaxBackups, begun' = begun + 1,
             entries' = [entries EXCEPT ![begun'].db = "partial"],
             proc' = [proc EXCEPT ![p].at = "copy", ![p].id = begun']
      PROVE  UpgradeIInv'
  <2>1. PICK b \in Ids : b = begun + 1 /\ b = begun'
    BY <1>4, <1>5 DEF Ids
  <2>2. PICK r \in Commands : r = [proc[p] EXCEPT !.at = "copy", !.id = b]
    <3>1. "copy" \in UpgradePlaces /\ b \in 0 .. MaxBackups
      BY <1>4, <2>1 DEF UpgradePlaces, Ids
    <3> QED
      BY <1>3, <3>1 DEF Commands
  <2>3. r.at = "copy" /\ r.id = b /\ r.kind = proc[p].kind /\ proc' = [proc EXCEPT ![p] = r]
    BY <1>3, <1>5, <2>1, <2>2 DEF Commands
  <2>4. UNCHANGED <<durable, content>> /\ entries[b] = NoNames /\ durable[b] = NoNames
    BY <1>4, <1>5, <2>1 DEF BeginBackup, NamesFollow, Ids
  <2>5. /\ entries' \in [Ids -> FileTypes]
        /\ entries'[b] = [db |-> "partial", manifest |-> "none"]
        /\ \A i \in Ids : i # b => entries'[i] = entries[i]
    BY <1>4, <1>5, <2>1, <2>4 DEF FileTypes, NameStates, NoNames
  <2>6. NamesFollow'
    BY <1>4, <2>1, <2>4, <2>5 DEF NamesFollow, NoNames, Ids
  <2>7. RaisedHasBackup'
    BY <1>1, <1>4, <2>4 DEF RaisedHasBackup, StoreKept
  <2>8. Work(entries[r.id], durable[r.id], content[r.id], r.at)'
    BY <2>1, <2>3, <2>5 DEF Work
  <2>9. r.id \in 1 .. begun' /\ begun' \in 0 .. MaxBackups
    BY <1>4, <1>5, <2>1, <2>3
  <2>10. r.at \in InBackup
    BY <2>3 DEF InBackup
  <2> QED
    BY <1>1, <1>4, <2>2, <2>3, <2>4, <2>5, <2>6, <2>7, <2>8, <2>9, <2>10, BackupStep
<1>6. ASSUME proc[p].at \in InBackup, NEW next \in InBackup, Proceed(p, next), begun' = begun,
             entries' \in [Ids -> FileTypes], durable' \in [Ids -> FileTypes],
             content' \in [Ids -> 0 .. Current], NamesFollow', RaisedHasBackup',
             Work(entries'[proc[p].id], durable'[proc[p].id], content'[proc[p].id], next)
      PROVE  UpgradeIInv'
  <2>1. next \in UpgradePlaces
    BY <1>6 DEF InBackup, UpgradePlaces
  <2>2. PICK r \in Commands : r = [proc[p] EXCEPT !.at = next]
    BY <1>3, <2>1 DEF Commands
  <2>3. r.at = next /\ r.id = proc[p].id /\ r.kind = proc[p].kind /\ proc' = [proc EXCEPT ![p] = r]
    BY <1>3, <1>6, <2>2 DEF Commands, Proceed
  <2>4. r.id \in 1 .. begun'
    BY <1>3, <1>6, <2>3 DEF WorksInOrder, WorkOf
  <2>5. Work(entries[r.id], durable[r.id], content[r.id], r.at)'
    BY <1>1, <1>6, <2>3 DEF Work, StoreKept
  <2> QED
    BY <1>1, <1>4, <1>6, <2>2, <2>3, <2>4, <2>5, BackupStep
<1>7. proc[p].at \in InBackup =>
         /\ proc[p].id \in Ids /\ proc[p].id \in 1 .. begun
         /\ Work(entries[proc[p].id], durable[proc[p].id], content[proc[p].id], proc[p].at)
  BY <1>3, <1>4 DEF WorksInOrder, WorkOf, Ids
<1>8. ASSUME CopyDatabase(p), content' = [content EXCEPT ![proc[p].id] = schema], Proceed(p, "describe")
      PROVE  UpgradeIInv'
  <2>1. PICK b \in Ids : b = proc[p].id /\ b \in 1 .. begun /\ entries[b] = [db |-> "partial", manifest |-> "none"]
    BY <1>7, <1>8 DEF CopyDatabase, IsAt, InBackup, Work
  <2>2. UNCHANGED <<begun, entries, durable>> /\ proc[p].at \in InBackup /\ "describe" \in InBackup
    BY <1>8 DEF CopyDatabase, IsAt, InBackup
  <2>3. /\ content' \in [Ids -> 0 .. Current] /\ content'[b] = schema
        /\ \A j \in Ids : j # b => content'[j] = content[j]
    BY <1>3, <1>4, <1>8, <2>1
  <2>4. NamesFollow'
    <3> SUFFICES ASSUME NEW j \in Ids
                 PROVE  /\ j > begun => entries[j] = NoNames /\ durable[j] = NoNames
                        /\ entries[j].manifest = "final" =>
                              entries[j].db = "final" /\ durable[j].db = "final" /\ content'[j] # Unfinished
                        /\ durable[j].manifest = "final" => entries[j].manifest = "final"
      BY <2>2 DEF NamesFollow
    <3>1. CASE j # b
      BY <1>4, <2>3, <3>1 DEF NamesFollow
    <3>2. CASE j = b
      BY <1>4, <2>1, <3>2 DEF NamesFollow
    <3> QED
      BY <3>1, <3>2
  <2>5. RaisedHasBackup'
    <3> SUFFICES ASSUME raised
                 PROVE  \E j \in Ids : durable[j] = [db |-> "final", manifest |-> "final"]
                                       /\ content'[j] = Current - 1
      BY <1>1, <2>2 DEF RaisedHasBackup, StoreKept
    <3>1. PICK j \in Ids : durable[j] = [db |-> "final", manifest |-> "final"] /\ content[j] = Current - 1
      BY <1>4 DEF RaisedHasBackup
    <3>2. j # b
      BY <1>4, <2>1, <3>1 DEF NamesFollow
    <3> QED
      BY <2>3, <3>1, <3>2
  <2>6. Work(entries'[proc[p].id], durable'[proc[p].id], content'[proc[p].id], "describe")
    BY <2>1, <2>2, <2>3 DEF Work
  <2> QED
    BY <1>4, <1>6, <1>8, <2>2, <2>3, <2>4, <2>5, <2>6
<1>9. ASSUME NEW kind \in {"db", "manifest"}, NEW name \in {"partial", "final"}, NEW next \in InBackup,
             entries' = [entries EXCEPT ![proc[p].id][kind] = name], Proceed(p, next),
             UNCHANGED <<begun, durable, content>>,
             \/ proc[p].at = "describe" /\ kind = "manifest" /\ name = "partial" /\ next = "publishDatabase"
             \/ proc[p].at = "publishDatabase" /\ kind = "db" /\ name = "final" /\ next = "syncDatabase"
             \/ proc[p].at = "publishManifest" /\ kind = "manifest" /\ name = "final" /\ next = "syncManifest"
      PROVE  UpgradeIInv'
  <2>1. PICK b \in Ids : b = proc[p].id /\ b \in 1 .. begun /\ Work(entries[b], durable[b], content[b], proc[p].at)
    BY <1>7, <1>9 DEF InBackup
  <2>2. /\ entries' \in [Ids -> FileTypes] /\ \A j \in Ids : j # b => entries'[j] = entries[j]
        /\ kind = "db" => entries'[b].db = name /\ entries'[b].manifest = entries[b].manifest
        /\ kind = "manifest" => entries'[b].manifest = name /\ entries'[b].db = entries[b].db
    BY <1>4, <1>9, <2>1 DEF FileTypes, NameStates
  <2>3. Work(entries'[b], durable[b], content[b], next)
    BY <1>9, <2>1, <2>2 DEF Work, FileTypes
  <2>4. NamesFollow'
    <3> SUFFICES ASSUME NEW j \in Ids
                 PROVE  /\ j > begun => entries'[j] = NoNames /\ durable[j] = NoNames
                        /\ entries'[j].manifest = "final" =>
                              entries'[j].db = "final" /\ durable[j].db = "final" /\ content[j] # Unfinished
                        /\ durable[j].manifest = "final" => entries'[j].manifest = "final"
      BY <1>9 DEF NamesFollow
    <3>1. CASE j # b
      BY <1>4, <2>2, <3>1 DEF NamesFollow
    <3>2. CASE j = b
      <4>1. ~(j > begun) /\ (durable[b].manifest = "final" => entries[b].manifest = "final")
        BY <1>4, <2>1, <3>2 DEF NamesFollow
      <4> QED
        BY <1>3, <1>9, <2>1, <2>2, <3>2, <4>1 DEF Work, Unfinished
    <3> QED
      BY <3>1, <3>2
  <2>5. RaisedHasBackup'
    BY <1>1, <1>4, <1>9 DEF RaisedHasBackup, StoreKept
  <2>6. durable' \in [Ids -> FileTypes] /\ content' \in [Ids -> 0 .. Current] /\ proc[p].at \in InBackup
    BY <1>4, <1>9 DEF InBackup
  <2> QED
    BY <1>6, <1>9, <2>1, <2>2, <2>3, <2>4, <2>5, <2>6
<1>10. ASSUME NEW label \in InBackup, NEW next \in InBackup, proc[p].at = label, durable' = entries, Proceed(p, next),
              UNCHANGED <<begun, entries, content>>,
              \/ label = "syncDatabase" /\ next = "publishManifest"
              \/ label = "syncManifest" /\ next = "verify"
       PROVE  UpgradeIInv'
  <2>1. Work(entries[proc[p].id], durable'[proc[p].id], content[proc[p].id], next)
    BY <1>7, <1>10 DEF Work
  <2>2. NamesFollow'
    BY <1>4, <1>10 DEF NamesFollow
  <2>3. RaisedHasBackup'
    <3> SUFFICES ASSUME raised
                 PROVE  \E j \in Ids : entries[j] = [db |-> "final", manifest |-> "final"]
                                       /\ content[j] = Current - 1
      BY <1>1, <1>10 DEF RaisedHasBackup, StoreKept
    <3>1. PICK j \in Ids : durable[j] = [db |-> "final", manifest |-> "final"] /\ content[j] = Current - 1
      BY <1>4 DEF RaisedHasBackup
    <3>2. entries[j].db = "final" /\ entries[j].manifest = "final"
      BY <1>4, <3>1 DEF NamesFollow
    <3> QED
      BY <1>4, <3>1, <3>2 DEF FileTypes
  <2> QED
    BY <1>4, <1>6, <1>10, <2>1, <2>2, <2>3
<1>11. CASE BeginBackup(p)
  BY <1>2, <1>5, <1>11 DEF BeginBackup, BackupKept
<1>12. CASE CopyDatabase(p)
  BY <1>2, <1>8, <1>12 DEF CopyDatabase, BackupKept
<1>13. CASE WriteManifest(p) \/ PublishDatabase(p) \/ PublishManifest(p)
  BY <1>2, <1>9, <1>13
  DEF WriteManifest, PublishDatabase, PublishManifest, NameFile, Rename, IsAt, BackupKept, InBackup
<1>14. CASE SyncBackups(p, "syncDatabase", "publishManifest") \/ SyncBackups(p, "syncManifest", "verify")
  BY <1>2, <1>10, <1>14 DEF SyncBackups, IsAt, BackupKept, InBackup
<1> QED
  BY <1>11, <1>12, <1>13, <1>14

-----------------------------------------------------------------------------
(* The migration's transaction, and the loss of power.                     *)

LEMMA RaiseStep ==
    ASSUME UpgradeAssumption, UpgradeIInv, NEW p \in Processes, Raise(p)
    PROVE  UpgradeIInv'
<1>1. proc[p].kind # "none" /\ proc[p].at = "raise"
  BY DEF Raise, IsAt
<1>2. proc[p] \in Commands /\ owner = p /\ Fits(proc[p]) /\ WorksInOrder(proc[p])
  BY <1>1, Running DEF UpgradePlaces
<1>3. CASE Proceed(p, "close") /\ Fault /\ UNCHANGED <<schema, raised>>
  <2>1. "close" \in UpgradePlaces /\ "close" \in Quiet
    BY DEF UpgradePlaces, Quiet
  <2> QED
    BY <1>1, <1>3, <2>1, GoesOn DEF Raise
<1>4. CASE /\ schema' = Current /\ raised' = (schema = Current - 1)
           /\ Proceed(p, IF proc[p].kind = "migrate" THEN "close" ELSE "serve") /\ NoFault
  <2>1. PICK label \in UpgradePlaces :
           /\ label = IF proc[p].kind = "migrate" THEN "close" ELSE "serve"
    BY DEF UpgradePlaces
  <2>2. PICK r \in Commands : r = [proc[p] EXCEPT !.at = label]
    BY <1>2 DEF Commands
  <2>3. r.at = label /\ r.kind = proc[p].kind /\ proc' = [proc EXCEPT ![p] = r]
    BY <1>2, <1>4, <2>1, <2>2 DEF Commands, Proceed
  <2>4. UNCHANGED <<begun, entries, durable, content, owner, writers>>
    BY DEF Raise, BackupKept
  <2>5. UpgradeTypeOK'
    <3>1. proc' \in [Processes -> Commands]
      BY <2>2, <2>3 DEF UpgradeIInv, UpgradeTypeOK
    <3>2. schema' \in 0 .. Current /\ raised' \in BOOLEAN
      BY <1>4 DEF UpgradeAssumption
    <3>3. faults' \in 0 .. MaxFaults
      BY <1>4, FaultTyped
    <3> QED
      BY <2>4, <3>1, <3>2, <3>3 DEF UpgradeIInv, UpgradeTypeOK
  <2>6. Fits(r)' /\ WorksInOrder(r)'
    BY <1>4, <2>1, <2>3 DEF Fits, WorksInOrder, InBackup
  <2>7. NamesFollow'
    BY <2>4 DEF UpgradeIInv, NamesFollow
  <2>8. RaisedHasBackup'
    <3> SUFFICES ASSUME schema = Current - 1
                 PROVE  \E i \in Ids : durable[i] = [db |-> "final", manifest |-> "final"]
                                       /\ content[i] = Current - 1
      BY <1>4, <2>4 DEF RaisedHasBackup
    <3>1. WorkOf(proc[p], "verify")
      BY <1>1, <1>2 DEF WorksInOrder
    <3>2. proc[p].id \in 1 .. begun /\ begun \in 0 .. MaxBackups /\ MaxBackups \in Nat
      BY <3>1 DEF WorkOf, UpgradeIInv, UpgradeTypeOK, UpgradeAssumption
    <3>3. proc[p].id \in Ids
      BY <3>2 DEF Ids
    <3> QED
      BY <3>1, <3>3 DEF WorkOf, Work
  <2> QED
    BY <1>1, <1>2, <2>2, <2>3, <2>4, <2>5, <2>6, <2>7, <2>8, OwnCommandKeeps
<1> QED
  BY <1>3, <1>4 DEF Raise

\* Power may take each name back to the last synchronisation, and no command
\* survives it.
LEMMA PowerStep ==
    ASSUME UpgradeAssumption, UpgradeIInv, LosePower
    PROVE  UpgradeIInv'
<1>1. PICK lost \in SUBSET (Ids \X {"db", "manifest"}) :
         entries' = [i \in Ids |-> [k \in {"db", "manifest"} |->
                       IF <<i, k>> \in lost THEN durable[i][k] ELSE entries[i][k]]]
  BY DEF LosePower
<1>2. /\ entries \in [Ids -> FileTypes] /\ durable \in [Ids -> FileTypes] /\ NamesFollow
      /\ durable' = entries' /\ UNCHANGED <<schema, raised, begun, content>>
      /\ owner' = Nobody /\ writers' = {} /\ proc' = [p \in Processes |-> Idle]
  BY DEF UpgradeIInv, UpgradeTypeOK, LosePower, FileTypes
<1>3. /\ entries' \in [Ids -> FileTypes]
      /\ \A i \in Ids : /\ entries'[i].db \in {durable[i].db, entries[i].db}
                        /\ entries'[i].manifest \in {durable[i].manifest, entries[i].manifest}
  <2> SUFFICES ASSUME NEW i \in Ids
               PROVE  /\ entries'[i] \in FileTypes
                      /\ entries'[i].db \in {durable[i].db, entries[i].db}
                      /\ entries'[i].manifest \in {durable[i].manifest, entries[i].manifest}
    BY <1>1
  <2>1. entries'[i] = [k \in {"db", "manifest"} |->
                         IF <<i, k>> \in lost THEN durable[i][k] ELSE entries[i][k]]
    BY <1>1
  <2>2. durable[i] \in FileTypes /\ entries[i] \in FileTypes
    BY <1>2
  <2> QED
    BY <2>1, <2>2 DEF FileTypes
<1>4. UpgradeTypeOK'
  <2>1. Idle \in Commands
    BY DEF Idle, Commands, UpgradePlaces, UpgradeAssumption
  <2>2. proc' \in [Processes -> Commands]
    BY <1>2, <2>1
  <2>3. faults' \in 0 .. MaxFaults
    BY FaultTyped DEF LosePower
  <2> QED
    BY <1>2, <1>3, <2>2, <2>3 DEF UpgradeIInv, UpgradeTypeOK, FileTypes
<1>5. OwnersRun' /\ SchemaFits' /\ WorkInOrder'
  BY <1>2 DEF OwnersRun, SchemaFits, Fits, WorkInOrder, WorksInOrder, Idle, InBackup
<1>6. NamesFollow'
  <2> SUFFICES ASSUME NEW i \in Ids
               PROVE  /\ i > begun => entries'[i] = NoNames
                      /\ entries'[i].manifest = "final" => entries'[i].db = "final" /\ content[i] # Unfinished
    BY <1>2 DEF NamesFollow
  <2>1. /\ i > begun => entries[i] = NoNames /\ durable[i] = NoNames
        /\ entries[i].manifest = "final" =>
              entries[i].db = "final" /\ durable[i].db = "final" /\ content[i] # Unfinished
        /\ durable[i].manifest = "final" => entries[i].manifest = "final"
    BY <1>2 DEF NamesFollow
  <2> QED
    BY <1>3, <2>1 DEF FileTypes, NoNames
<1>7. RaisedHasBackup'
  <2> SUFFICES ASSUME raised
               PROVE  \E i \in Ids : entries'[i] = [db |-> "final", manifest |-> "final"]
                                     /\ content[i] = Current - 1
    BY <1>2 DEF RaisedHasBackup
  <2>1. PICK i \in Ids : durable[i] = [db |-> "final", manifest |-> "final"] /\ content[i] = Current - 1
    BY DEF UpgradeIInv, RaisedHasBackup
  <2>2. entries[i].db = "final" /\ entries[i].manifest = "final"
    BY <1>2, <2>1 DEF NamesFollow
  <2>3. entries'[i].db = "final" /\ entries'[i].manifest = "final" /\ entries'[i] \in FileTypes
    BY <1>3, <2>1, <2>2
  <2> QED
    BY <2>1, <2>3 DEF FileTypes
<1> QED
  BY <1>4, <1>5, <1>6, <1>7 DEF UpgradeIInv

-----------------------------------------------------------------------------
(* The theorems.                                                           *)

\* The invariant holds however many processes contend, are killed or lose the
\* machine's power, and however a backup fails.
THEOREM UpgradeInductive ==
    ASSUME UpgradeAssumption
    PROVE  UpgradeSpec => []UpgradeIInv
<1>1. UpgradeInit => UpgradeIInv
  <2> SUFFICES ASSUME UpgradeInit
               PROVE  UpgradeIInv
    OBVIOUS
  <2>1. Idle \in Commands /\ NoNames \in FileTypes
    BY DEF Idle, Commands, UpgradePlaces, UpgradeAssumption, NoNames, FileTypes, NameStates
  <2>2. UpgradeTypeOK
    <3>1. schema \in 0 .. Current /\ 0 \in 0 .. MaxBackups /\ 0 \in 0 .. MaxFaults /\ 0 \in 0 .. Current
      BY DEF UpgradeInit, UpgradeAssumption
    <3>2. proc \in [Processes -> Commands] /\ entries \in [Ids -> FileTypes] /\ durable = entries
      BY <2>1 DEF UpgradeInit
    <3> QED
      BY <3>1, <3>2 DEF UpgradeInit, UpgradeTypeOK, FileTypes, Unfinished
  <2>3. OwnersRun /\ SchemaFits /\ WorkInOrder
    BY DEF UpgradeInit, OwnersRun, SchemaFits, Fits, WorkInOrder, WorksInOrder, Idle, InBackup
  <2>4. NamesFollow /\ RaisedHasBackup
    BY DEF UpgradeInit, NamesFollow, RaisedHasBackup, NoNames
  <2> QED
    BY <2>2, <2>3, <2>4 DEF UpgradeIInv
<1>2. UpgradeIInv /\ [UpgradeNext]_upgradeVars => UpgradeIInv'
  <2> SUFFICES ASSUME UpgradeIInv, [UpgradeNext]_upgradeVars
               PROVE  UpgradeIInv'
    OBVIOUS
  <2>1. CASE UpgradeNext
    BY <2>1, LockStep, StoreStep, FileSteps, RaiseStep, PowerStep DEF UpgradeNext
  <2>2. CASE UNCHANGED upgradeVars
    BY <2>2
    DEF upgradeVars, UpgradeIInv, UpgradeTypeOK, OwnersRun, SchemaFits, Fits, WorkInOrder, WorksInOrder,
        WorkOf, Work, NamesFollow, RaisedHasBackup
  <2> QED
    BY <2>1, <2>2
<1> QED
  BY <1>1, <1>2, PTL DEF UpgradeSpec

\* Two processes never have the database open for writing.
THEOREM OneWriterOnly ==
    ASSUME UpgradeAssumption
    PROVE  UpgradeSpec => []OneWriter
<1>1. UpgradeIInv => OneWriter
  <2> SUFFICES ASSUME UpgradeIInv
               PROVE  OneWriter
    OBVIOUS
  <2>1. writers \in SUBSET {owner}
    BY DEF UpgradeIInv, OwnersRun, UpgradeTypeOK
  <2>2. IsFiniteSet({owner}) /\ Cardinality({owner}) = 1
    BY FS_Singleton
  <2> QED
    BY <2>1, <2>2, FS_Subset, FS_CardinalityType DEF OneWriter
<1> QED
  BY <1>1, UpgradeInductive, PTL

\* Whatever was lost on the way, a published manifest has its whole database.
THEOREM ManifestsSound ==
    ASSUME UpgradeAssumption
    PROVE  UpgradeSpec => []ManifestHasDatabase
<1>1. UpgradeIInv => ManifestHasDatabase
  BY DEF UpgradeIInv, NamesFollow, ManifestHasDatabase, Completed
<1> QED
  BY <1>1, UpgradeInductive, PTL

\* The schema is raised only after a durable backup of what was there.
THEOREM BackupBeforeRaise ==
    ASSUME UpgradeAssumption
    PROVE  UpgradeSpec => []RaisedHasBackup
<1>1. UpgradeIInv => RaisedHasBackup
  BY DEF UpgradeIInv
<1> QED
  BY <1>1, UpgradeInductive, PTL

-----------------------------------------------------------------------------
(* Contents and names.                                                     *)

LEMMA ContentsDiffer ==
    /\ Source \in Readable /\ Absent \notin Readable /\ Empty \notin Readable /\ Torn \notin Readable
    /\ Absent # Empty /\ Absent # Torn /\ Empty # Torn
    /\ \A c \in Readable : IsDatabase(c)
    /\ ~IsDatabase(Absent) /\ ~IsDatabase(Empty) /\ ~IsDatabase(Torn)
BY DEF Source, Database, Readable, Roots, Absent, Empty, Torn, IsDatabase

LEMMA NamesAre ==
    /\ Names = {"target", "targetWal", "targetShm", "old", "oldWal", "oldShm", "staged", "failed"}
    /\ Canonical["db"] = "target" /\ Canonical["wal"] = "targetWal" /\ Canonical["shm"] = "targetShm"
    /\ Quarantine["db"] = "old" /\ Quarantine["wal"] = "oldWal" /\ Quarantine["shm"] = "oldShm"
BY DEF Names, Canonical, Quarantine, Items

LEMMA ItemNames ==
    ASSUME NEW i \in Items
    PROVE  /\ Canonical[i] \in Names /\ Quarantine[i] \in Names /\ Canonical[i] # Quarantine[i]
           /\ {Canonical[i], Quarantine[i]} \cap {"staged", "failed"} = {}
           /\ \A j \in Items : Canonical[i] # Quarantine[j]
           /\ \A j \in Items : j # i => Canonical[i] # Canonical[j] /\ Quarantine[i] # Quarantine[j]
           /\ i # "db" => i \in Sidecars
BY NamesAre DEF Items, Sidecars

\* A rename moves one content and leaves all other names alone.
LEMMA MovedFiles ==
    ASSUME ContentsFit, NEW from \in Names, NEW to \in Names, from # to, files' = Moved(from, to)
    PROVE  /\ files'[from] = Absent /\ files'[to] = files[from]
           /\ \A n \in Names \ {from, to} : files'[n] = files[n]
           /\ to # "staged" /\ files[from] # Torn => ContentsFit'
<1>1. files'[from] = Absent /\ files'[to] = files[from] /\ \A n \in Names \ {from, to} : files'[n] = files[n]
  BY DEF ContentsFit, Moved
<1>2. files' \in [Names -> Readable \cup {Absent, Empty, Torn}]
  BY DEF ContentsFit, Moved
<1>3. to # "staged" /\ files[from] # Torn => ContentsFit'
  BY <1>1, <1>2, ContentsDiffer DEF ContentsFit
<1> QED
  BY <1>1, <1>3

LEMMA ErrorsCounted ==
    ASSUME RestoreAssumption, RestoreIInv, Works \/ Fails
    PROVE  errors' \in 0 .. MaxErrors /\ (errors > 0 => errors' > 0)
<1>1. errors \in Nat /\ MaxErrors \in Nat /\ errors <= MaxErrors
  BY DEF RestoreAssumption, RestoreIInv, RestoreTypeOK
<1> QED
  BY <1>1 DEF Works, Fails

-----------------------------------------------------------------------------
(* Steps that change no file.                                              *)

\* The part of the invariant that is about the files and the published manifest
\* stays; what is left to show is about the command.
LEMMA CommandMoves ==
    ASSUME RestoreIInv, UNCHANGED <<files, op, touched, operations>>,
           partial' \in BOOLEAN, kills' \in 0 .. MaxKills, errors' \in 0 .. MaxErrors,
           errors > 0 => errors' > 0,
           CommandFits', StepsDone', ManifestFits(command'.op),
           ~touched => Tells(command'.op),
           command'.op.phase = "FAILED_NEEDS_OPERATOR" => touched \/ errors' > 0
    PROVE  RestoreIInv'
<1>1. RestoreTypeOK' /\ ContentsFit' /\ ManifestFits(op)' /\ SidecarsFit' /\ OldFound'
  BY DEF RestoreIInv, RestoreTypeOK, ContentsFit, ManifestFits, SidecarsFit, OldFound, Exists
<1>2. ManifestFits(command.op)'
  BY DEF ManifestFits
<1>3. ~touched' => Tells(op)' /\ Tells(command.op)'
  BY DEF RestoreIInv, Tells, AsFound, AllOut, Parted, OldOut, OldBack, Exists
<1> QED
  BY <1>1, <1>2, <1>3 DEF RestoreIInv

\* A command that ends leaves what it has done.
LEMMA Ended ==
    ASSUME RestoreIInv, UNCHANGED <<files, op, touched, operations>>,
           partial' \in BOOLEAN, kills' \in 0 .. MaxKills, errors' \in 0 .. MaxErrors,
           errors > 0 => errors' > 0, Done
    PROVE  RestoreIInv'
<1>1. CommandFits' /\ StepsDone' /\ ManifestFits(command.op)' /\ Tells(command.op)'
  BY DEF Done, NoCommand, NoOperation, CommandFits, StepsDone, ToInstall, ManifestFits, Tells, Items,
         Phases, Absent, Readable
<1>2. command'.op.phase = "none"
  BY DEF Done, NoCommand, NoOperation
<1>3. ManifestFits(command'.op) /\ Tells(command'.op)
  BY <1>1, <1>2 DEF ManifestFits, Tells, Phases, AsFound, AllOut, Parted, OldOut, OldBack
<1> QED
  BY <1>1, <1>2, <1>3, CommandMoves

\* A command that publishes its manifest with phase p next.
LEMMA Advanced ==
    ASSUME RestoreIInv, UNCHANGED <<files, op, touched, operations>>,
           partial' \in BOOLEAN, kills' \in 0 .. MaxKills, errors' \in 0 .. MaxErrors,
           errors > 0 => errors' > 0,
           command.kind # "none", op.phase # "none",
           NEW p \in PhasesAt(command.kind, "create"), p # "PREPARED", Advance(p),
           ~touched => Tells([command.op EXCEPT !.phase = p]),
           p = "INSTALLING" =>
               /\ ~Exists("target") /\ \A i \in Sidecars : ~Exists(Canonical[i])
               /\ command.op.has["db"] => files["old"] = command.op.old
               /\ files["staged"] = Source,
           p \in {"QUARANTINING", "OLD_QUARANTINED"} => files["staged"] = Source,
           p = "QUARANTINING" => AsFound(command.op),
           p \in {"NEW_INSTALLED", "VERIFIED", "COMMITTED"} => files["target"] = Source,
           p = "ROLLED_BACK" => files["target"] = command.op.old,
           p = "FAILED_NEEDS_OPERATOR" => touched \/ errors' > 0
    PROVE  RestoreIInv'
<1>1. CommandFits /\ ManifestFits(command.op)
  BY DEF RestoreIInv
<1>2. p \in Phases /\ p # "none"
  BY DEF PhasesAt, Phases
<1>3. /\ command'.kind = command.kind /\ command'.at = "create" /\ command'.item = command.item
      /\ command'.op = [command.op EXCEPT !.phase = p]
      /\ command'.op.phase = p /\ command'.op.has = command.op.has /\ command'.op.old = command.op.old
  BY <1>1 DEF CommandFits, Advance
<1>4. CommandFits'
  <2>1. command' \in [kind : {"restore", "recover"}, at : Places, item : Items,
                      op : [phase : Phases \cup {"none"}, has : [Items -> BOOLEAN],
                            old : Readable \cup {Absent}]]
    BY <1>1, <1>2 DEF CommandFits, Advance, Places
  <2>2. command'.op.phase \in PhasesAt(command'.kind, command'.at)
    BY <1>3
  <2>3. command'.op.has = op'.has /\ command'.op.old = op'.old
    BY <1>1, <1>3 DEF CommandFits, ToPrepare
  <2>4. ~ToPrepare'
    BY <1>3 DEF ToPrepare
  <2>5. command'.kind = "recover" => command'.at \notin RestorePlaces
    BY <1>3 DEF RestorePlaces
  <2> QED
    BY <1>1, <1>3, <2>1, <2>2, <2>3, <2>4, <2>5 DEF CommandFits
<1>5. StepsDone'
  BY <1>3 DEF StepsDone, ToInstall, Exists, AsFound
<1>6. ManifestFits(command'.op)
  BY <1>1, <1>2, <1>3 DEF ManifestFits
<1>7. ~touched => Tells(command'.op)
  BY <1>3
<1> QED
  BY <1>3, <1>4, <1>5, <1>6, <1>7, CommandMoves

\* Whatever the files were like in an earlier phase, a rollback can start there.
LEMMA RollbackTells ==
    ASSUME NEW m, m.phase \in {"QUARANTINING", "OLD_QUARANTINED", "INSTALLING", "NEW_INSTALLED",
                               "VERIFIED", "COMMITTED", "ROLLING_BACK"},
           ManifestFits(m), Tells(m),
           \A i \in Sidecars : Exists(Quarantine[i]) => m.has[i]
    PROVE  Tells([m EXCEPT !.phase = "ROLLING_BACK"])
<1> DEFINE r == [m EXCEPT !.phase = "ROLLING_BACK"]
<1>1. r.phase = "ROLLING_BACK" /\ r.has = m.has /\ r.old = m.old
  BY DEF ManifestFits
<1>2. Parted(m)
  BY DEF Tells, AllOut, Parted
<1>3. OldBack(m) \/ (files["target"] \in {Absent, Source} /\ OldOut(m))
  BY DEF Tells, AllOut, OldOut, OldBack, Exists
<1>4. Parted(r) /\ (OldBack(r) \/ (files["target"] \in {Absent, Source} /\ OldOut(r)))
  BY <1>1, <1>2, <1>3 DEF Parted, OldBack, OldOut
<1> HIDE DEF r
<1>5. Tells(r)
  BY <1>1, <1>4 DEF Tells
<1> QED
  BY <1>5 DEF r

LEMMA RolledOn ==
    ASSUME RestoreIInv, UNCHANGED <<files, op, touched, operations>>,
           partial' \in BOOLEAN, kills' \in 0 .. MaxKills, errors' \in 0 .. MaxErrors,
           errors > 0 => errors' > 0,
           command.kind # "none", op.phase # "none", Rollback,
           command.op.phase \notin {"none", "PREPARED", "ROLLED_BACK", "FAILED_NEEDS_OPERATOR"}
    PROVE  RestoreIInv'
<1>1. "ROLLING_BACK" \in PhasesAt(command.kind, "create")
  BY DEF PhasesAt, Phases
<1>2. command.op.phase \in {"QUARANTINING", "OLD_QUARANTINED", "INSTALLING", "NEW_INSTALLED",
                            "VERIFIED", "COMMITTED", "ROLLING_BACK"}
  BY DEF RestoreIInv, ManifestFits, Phases
<1>3. \A i \in Sidecars : Exists(Quarantine[i]) => command.op.has[i]
  BY DEF RestoreIInv, SidecarsFit, CommandFits
<1>4. ~touched => Tells([command.op EXCEPT !.phase = "ROLLING_BACK"])
  BY <1>2, <1>3, RollbackTells DEF RestoreIInv
<1> QED
  BY <1>1, <1>4, Advanced DEF Rollback

LEMMA GivenUp ==
    ASSUME RestoreIInv, UNCHANGED <<files, op, touched, operations>>,
           partial' \in BOOLEAN, kills' \in 0 .. MaxKills, errors' \in 0 .. MaxErrors,
           errors > 0 => errors' > 0,
           command.kind # "none", op.phase # "none", NeedsOperator, touched \/ errors' > 0
    PROVE  RestoreIInv'
<1>1. "FAILED_NEEDS_OPERATOR" \in PhasesAt(command.kind, "create")
  BY DEF PhasesAt, Phases
<1>2. Tells([command.op EXCEPT !.phase = "FAILED_NEEDS_OPERATOR"])
  BY DEF RestoreIInv, ManifestFits, Tells
<1> QED
  BY <1>1, <1>2, Advanced DEF NeedsOperator

\* The next place of the command, in the same phase.
LEMMA Goes ==
    ASSUME RestoreIInv, UNCHANGED <<files, op, touched, operations, kills>>,
           partial' \in BOOLEAN, errors' \in 0 .. MaxErrors, errors > 0 => errors' > 0,
           command.kind # "none", NEW at \in Places \ {"stage", "create"},
           command.kind = "recover" => at \notin RestorePlaces, NEW item \in Items,
           command' = [command EXCEPT !.at = at, !.item = item],
           IF at = "rename" THEN command.at = "create" ELSE command.op = op /\ op.phase # "none",
           command.op.phase \in PhasesAt(command.kind, at), command.at # "stage",
           StepsDone'
    PROVE  RestoreIInv'
<1>1. CommandFits
  BY DEF RestoreIInv
<1>2. /\ command'.kind = command.kind /\ command'.at = at /\ command'.item = item
      /\ command'.op = command.op
  BY <1>1 DEF CommandFits
<1>3. command' \in [kind : {"restore", "recover"}, at : Places, item : Items,
                    op : [phase : Phases \cup {"none"}, has : [Items -> BOOLEAN],
                          old : Readable \cup {Absent}]]
  BY <1>1 DEF CommandFits
<1>4. CommandFits'
  BY <1>1, <1>2, <1>3 DEF CommandFits, ToPrepare
<1>5. ManifestFits(command'.op) /\ (~touched => Tells(command'.op))
  BY <1>2 DEF RestoreIInv
<1>6. command'.op.phase = "FAILED_NEEDS_OPERATOR" => touched \/ errors' > 0
  BY <1>2 DEF RestoreIInv
<1>7. partial' \in BOOLEAN /\ kills' \in 0 .. MaxKills /\ errors' \in 0 .. MaxErrors
  BY DEF RestoreIInv, RestoreTypeOK
<1> QED
  BY <1>4, <1>5, <1>6, <1>7, CommandMoves

\* A manifest that cannot be published: a restore that moved files rolls back,
\* any other command ends.
LEMMA UnpublishedKeeps ==
    ASSUME RestoreIInv, UNCHANGED <<files, op, touched, operations>>,
           partial' \in BOOLEAN, kills' \in 0 .. MaxKills, errors' \in 0 .. MaxErrors,
           errors > 0 => errors' > 0, command.kind # "none", Unpublished
    PROVE  RestoreIInv'
<1>1. CASE Done
  BY <1>1, Ended
<1>2. CASE ~Done
  <2>1. /\ command.op.phase \in {"OLD_QUARANTINED", "INSTALLING", "NEW_INSTALLED", "VERIFIED", "COMMITTED"}
        /\ Rollback
    BY <1>2 DEF Unpublished
  <2>2. op.phase # "none"
    <3>1. CommandFits
      BY DEF RestoreIInv
    <3>2. op.phase = "none" => command.at = "stage" \/ command.op.phase = "PREPARED"
      BY <3>1 DEF CommandFits, ToPrepare
    <3>3. command.at = "stage" => command.op.phase = "none"
      BY <3>1 DEF CommandFits, PhasesAt
    <3> QED
      BY <2>1, <3>2, <3>3
  <2> QED
    BY <2>1, <2>2, RolledOn
<1> QED
  BY <1>1, <1>2

LEMMA CreatePartialKeeps ==
    ASSUME RestoreIInv, RestoreAssumption, CreatePartial
    PROVE  RestoreIInv'
<1>1. /\ command.kind # "none" /\ command.at = "create" /\ kills' \in 0 .. MaxKills /\ CommandFits
      /\ UNCHANGED <<files, op, touched, operations, kills>>
  BY DEF RestoreIInv, RestoreTypeOK, CreatePartial, At
<1>2. errors' \in 0 .. MaxErrors /\ (errors > 0 => errors' > 0) /\ partial' \in BOOLEAN
  BY ErrorsCounted DEF RestoreIInv, RestoreTypeOK, CreatePartial
<1>3. CASE Unpublished
  BY <1>1, <1>2, <1>3, UnpublishedKeeps
<1>4. CASE GoTo("rename")
  <2>1. command' = [command EXCEPT !.at = "rename", !.item = "db"]
    BY <1>4 DEF GoTo
  <2>2. command.op.phase \in PhasesAt(command.kind, "rename")
    BY <1>1 DEF CommandFits, PhasesAt
  <2>3. /\ command'.op = command.op /\ command'.at = "rename" /\ command'.kind = command.kind
    BY <1>1, <2>1 DEF CommandFits
  <2>4. StepsDone'
    BY <1>1, <2>3 DEF RestoreIInv, StepsDone, ToInstall, Exists, AsFound
  <2> QED
    <3>1. "rename" \in Places \ {"stage", "create"} /\ "db" \in Items /\ "rename" \notin RestorePlaces
      BY DEF Places, RestorePlaces, Items
    <3> QED
      BY <1>1, <1>2, <2>1, <2>2, <2>4, <3>1, Goes
<1> QED
  BY <1>3, <1>4 DEF CreatePartial

LEMMA RenamePartialKeeps ==
    ASSUME RestoreIInv, RestoreAssumption, RenamePartial
    PROVE  RestoreIInv'
<1>1. /\ command.kind # "none" /\ command.at = "rename" /\ kills' \in 0 .. MaxKills /\ CommandFits
      /\ UNCHANGED <<files, touched, kills>>
  BY DEF RestoreIInv, RestoreTypeOK, RenamePartial, At
<1>2. errors' \in 0 .. MaxErrors /\ (errors > 0 => errors' > 0) /\ partial' \in BOOLEAN
  BY ErrorsCounted DEF RestoreIInv, RestoreTypeOK, RenamePartial
<1>3. CASE Unpublished /\ UNCHANGED <<op, operations>>
  BY <1>1, <1>2, <1>3, UnpublishedKeeps
<1>4. CASE /\ op' = command.op /\ GoTo("sync") /\ Works
           /\ operations' = IF command.op.phase = "PREPARED" THEN operations + 1 ELSE operations
  <2>1. command' = [command EXCEPT !.at = "sync", !.item = "db"]
    BY <1>4 DEF GoTo
  <2>2. /\ command'.op = command.op /\ command'.at = "sync" /\ command'.kind = command.kind
        /\ command'.item = "db"
    BY <1>1, <2>1 DEF CommandFits
  <2>3. command.op.phase \in Phases /\ command.op.phase # "none"
    BY <1>1 DEF CommandFits, PhasesAt, Phases
  <2>4. CommandFits'
    <3>1. command' \in [kind : {"restore", "recover"}, at : Places, item : Items,
                        op : [phase : Phases \cup {"none"}, has : [Items -> BOOLEAN],
                              old : Readable \cup {Absent}]]
      BY <1>1, <2>1 DEF CommandFits, Places, Items
    <3>2. command'.op.phase \in PhasesAt(command'.kind, command'.at)
      BY <1>1, <2>2 DEF CommandFits, PhasesAt
    <3>3. ~ToPrepare' /\ op'.phase # "none"
      BY <1>4, <2>2, <2>3 DEF ToPrepare
    <3> QED
      BY <1>1, <1>4, <2>2, <3>1, <3>2, <3>3 DEF CommandFits, RestorePlaces
  <2>5. StepsDone'
    BY <1>1, <2>2 DEF RestoreIInv, StepsDone, ToInstall, Exists, AsFound
  <2>6. operations' \in 0 .. OperationCap
    BY <1>1, <1>4 DEF CommandFits, ToPrepare, RestoreIInv, RestoreTypeOK, RestoreAssumption
  <2>7. ManifestFits(command.op) /\ ContentsFit' /\ (~touched => Tells(command.op))
    BY <1>1 DEF RestoreIInv, ContentsFit
  <2>8. ManifestFits(op)' /\ ManifestFits(command.op)'
    BY <1>4, <2>2, <2>7 DEF ManifestFits
  <2>9. RestoreTypeOK'
    BY <1>1, <1>2, <1>4, <2>6, <2>7, <2>3 DEF RestoreIInv, RestoreTypeOK, ManifestFits, Phases
  <2>10. ~touched' => Tells(op)' /\ Tells(command.op)'
    BY <1>1, <1>4, <2>2, <2>7 DEF Tells, AsFound, AllOut, Parted, OldOut, OldBack, Exists
  <2>11. CASE op.phase # "none"
    <3>1. op'.has = op.has /\ op'.old = op.old /\ op'.phase = command.op.phase
      BY <1>1, <1>4, <2>11 DEF CommandFits
    <3>2. OldFound'
      BY <1>1, <3>1 DEF RestoreIInv, OldFound, Exists
    <3>3. \A i \in Sidecars : Exists(Canonical[i]) /\ ~Exists("target") => op'.phase \in Parting
      <4> SUFFICES ASSUME NEW i \in Sidecars, Exists(Canonical[i]), ~Exists("target"),
                          op'.phase \notin Parting
                   PROVE  FALSE
        OBVIOUS
      <4>1. op.has["db"] /\ op.old # Absent
        <5>1. files["target"] \notin Readable
          BY ContentsDiffer DEF Exists
        <5> QED
          BY <5>1 DEF RestoreIInv, SidecarsFit, ManifestFits
      <4>2. CASE op'.phase = "PREPARED"
        BY <1>1, <2>11, <4>2, <3>1 DEF CommandFits, ToPrepare
      <4>3. CASE op'.phase = "OLD_QUARANTINED"
        BY <1>1, <3>1, <4>3 DEF CommandFits, PhasesAt, RestoreIInv, Tells, AllOut
      <4>4. CASE op'.phase = "INSTALLING"
        BY <1>1, <3>1, <4>4 DEF RestoreIInv, StepsDone, ToInstall
      <4>5. CASE op'.phase \in {"NEW_INSTALLED", "VERIFIED", "COMMITTED"}
        BY <1>1, <3>1, <4>5, ContentsDiffer DEF RestoreIInv, StepsDone, Exists
      <4>6. CASE op'.phase = "ROLLED_BACK"
        BY <1>1, <2>11, <3>1, <4>1, <4>6 DEF RestoreIInv, StepsDone, Exists, CommandFits
      <4> QED
        BY <2>3, <3>1, <4>2, <4>3, <4>4, <4>5, <4>6 DEF Phases, Parting
    <3>4. SidecarsFit'
      <4> SUFFICES ASSUME NEW i \in Sidecars
                   PROVE  /\ Exists(Canonical[i])' =>
                              \/ /\ files'["target"] \in Readable /\ files'["target"] # Source
                                 /\ files'[Canonical[i]].root = files'["target"].root
                              \/ /\ ~Exists("target")' /\ op'.phase \in Parting /\ op'.has["db"] /\ op'.old # Source
                                 /\ files'[Canonical[i]].root = op'.old.root
                          /\ Exists(Quarantine[i])' => op'.has[i] /\ files'[Quarantine[i]].root = op'.old.root
        BY DEF SidecarsFit
      <4>1. (Exists(Canonical[i])' <=> Exists(Canonical[i])) /\ (Exists(Quarantine[i])' <=> Exists(Quarantine[i]))
            /\ (Exists("target")' <=> Exists("target"))
        BY <1>1 DEF Exists
      <4> QED
        BY <1>1, <3>1, <3>3, <4>1 DEF RestoreIInv, SidecarsFit
    <3> QED
      BY <2>3, <2>4, <2>5, <2>7, <2>8, <2>9, <2>10, <3>1, <3>2, <3>4, <1>1, <1>4, <2>2 DEF RestoreIInv, Works
  <2>12. CASE op.phase = "none"
    <3>1. command.op.phase = "PREPARED" /\ op = NoOperation /\ ~touched
      BY <1>1, <2>12 DEF CommandFits, ToPrepare, RestoreIInv, ManifestFits, PhasesAt
    <3>2. AsFound(command.op)
      BY <1>1, <3>1 DEF RestoreIInv, Tells
    <3>3. OldFound'
      BY <1>1, <1>4, <2>7, <3>2 DEF OldFound, AsFound, Exists, ManifestFits, Readable
    <3>4. op.has["db"] = FALSE
      BY <3>1 DEF NoOperation, Items
    <3>5. SidecarsFit'
      BY <1>1, <1>4, <3>1, <3>2, <3>4 DEF RestoreIInv, SidecarsFit, AsFound, Exists
    <3> QED
      BY <2>4, <2>5, <2>7, <2>8, <2>9, <2>10, <3>1, <3>3, <3>5, <1>1, <1>4, <2>2 DEF RestoreIInv
  <2> QED
    BY <2>11, <2>12
<1> QED
  BY <1>3, <1>4 DEF RenamePartial

\* What every step of a command that changes no name or manifest has.
LEMMA OnlyCommandFrame ==
    ASSUME RestoreAssumption, RestoreIInv, OnlyCommand, Works \/ Fails
    PROVE  /\ UNCHANGED <<files, op, touched, operations, kills>>
           /\ partial' \in BOOLEAN /\ kills' \in 0 .. MaxKills
           /\ errors' \in 0 .. MaxErrors /\ (errors > 0 => errors' > 0)
BY ErrorsCounted DEF OnlyCommand, RestoreIInv, RestoreTypeOK

\* The manifest a command works on once it is published.
LEMMA OnPublished ==
    ASSUME RestoreIInv, command.kind # "none", command.at \notin {"stage", "create", "rename"}
    PROVE  /\ command.op = op /\ op.phase # "none" /\ CommandFits
           /\ op.phase \in PhasesAt(command.kind, command.at)
           /\ command.kind \in {"restore", "recover"} /\ command.item \in Items
           /\ (~touched => Tells(op)) /\ StepsDone /\ ManifestFits(op)
<1>1. CommandFits
  BY DEF RestoreIInv
<1>2. op.phase # "none"
  BY <1>1 DEF CommandFits, ToPrepare
<1> QED
  BY <1>1, <1>2 DEF RestoreIInv, CommandFits

LEMMA GoToIs ==
    ASSUME NEW label, GoTo(label), CommandFits, command.kind # "none"
    PROVE  /\ command' = [command EXCEPT !.at = label, !.item = "db"]
           /\ command'.at = label /\ command'.item = "db" /\ command'.op = command.op
           /\ command'.kind = command.kind
BY DEF GoTo, CommandFits

\* Where a published manifest leads.
LEMMA PublishedKeeps ==
    ASSUME RestoreAssumption, RestoreIInv, command.kind # "none", command.at = "sync",
           OnlyCommand, Works, Published
    PROVE  RestoreIInv'
<1>1. /\ UNCHANGED <<files, op, touched, operations, kills>>
      /\ partial' \in BOOLEAN /\ kills' \in 0 .. MaxKills
      /\ errors' \in 0 .. MaxErrors /\ (errors > 0 => errors' > 0)
  BY OnlyCommandFrame
<1>2. /\ command.op = op /\ op.phase # "none" /\ CommandFits
      /\ op.phase \in PhasesAt(command.kind, command.at)
      /\ command.kind \in {"restore", "recover"} /\ command.item \in Items
      /\ (~touched => Tells(op)) /\ StepsDone /\ ManifestFits(op)
  BY OnPublished
<1>3. op.phase \in Phases /\ "db" \in Items
  BY <1>2 DEF PhasesAt, Phases, Items
<1>4. command.kind = "recover" => op.phase \notin {"PREPARED", "QUARANTINING", "OLD_QUARANTINED"}
  BY <1>2 DEF PhasesAt
<1>5. command.kind = "restore" => ~touched
  BY <1>2 DEF CommandFits
<1>6. ASSUME NEW at \in Places \ {"stage", "create", "rename"}, GoTo(at),
             command.kind = "recover" => at \notin RestorePlaces,
             op.phase \in PhasesAt(command.kind, at), StepsDone'
      PROVE  RestoreIInv'
  <2>1. command' = [command EXCEPT !.at = at, !.item = "db"]
    BY <1>2, <1>6, GoToIs
  <2> QED
    BY <1>1, <1>2, <1>3, <1>6, <2>1, Goes
<1> DEFINE Moves(at) == /\ command'.at = at /\ command'.item = "db" /\ command'.op = op
                        /\ command'.kind = command.kind
<1>0. ASSUME NEW at, GoTo(at)
      PROVE  Moves(at)
  BY <1>0, <1>2, GoToIs
<1>7. CASE op.phase = "PREPARED"
  <2>1. GoTo("prepared")
    BY <1>2, <1>7 DEF Published
  <2>4. Moves("prepared")
    BY <2>1, <1>0
  <2>2. StepsDone'
    BY <1>1, <1>2, <1>7, <2>4 DEF StepsDone, ToInstall
  <2>3. /\ "prepared" \in Places \ {"stage", "create", "rename"} /\ command.kind # "recover"
        /\ op.phase \in PhasesAt(command.kind, "prepared")
    BY <1>2, <1>4, <1>7 DEF Places, RestorePlaces, PhasesAt
  <2> QED
    BY <1>6, <2>1, <2>2, <2>3
<1>8. CASE op.phase = "QUARANTINING"
  <2>1. GoTo("quarantine")
    BY <1>2, <1>8 DEF Published
  <2>4. Moves("quarantine")
    BY <2>1, <1>0
  <2>2. /\ "quarantine" \in Places \ {"stage", "create", "rename"} /\ command.kind # "recover"
        /\ op.phase \in PhasesAt(command.kind, "quarantine") /\ ~touched
    BY <1>2, <1>4, <1>5, <1>8 DEF Places, RestorePlaces, PhasesAt
  <2>3. StepsDone'
    BY <1>1, <1>2, <1>8, <2>4, <2>2, NamesAre
    DEF StepsDone, ToInstall, Exists, AsFound, Items, Sidecars, Before, ManifestFits, Tells
  <2> QED
    BY <1>6, <2>1, <2>2, <2>3
<1>9. CASE op.phase = "OLD_QUARANTINED"
  <2>1. GoTo("quarantined")
    BY <1>2, <1>9 DEF Published
  <2>4. Moves("quarantined")
    BY <2>1, <1>0
  <2>2. /\ "quarantined" \in Places \ {"stage", "create", "rename"} /\ command.kind # "recover"
        /\ op.phase \in PhasesAt(command.kind, "quarantined")
    BY <1>2, <1>4, <1>9 DEF Places, RestorePlaces, PhasesAt
  <2>3. StepsDone'
    BY <1>1, <1>2, <1>9, <2>4 DEF StepsDone, ToInstall, Exists, AsFound
  <2> QED
    BY <1>6, <2>1, <2>2, <2>3
<1>10. CASE op.phase = "INSTALLING"
  <2>1. GoTo("install")
    BY <1>2, <1>10 DEF Published
  <2>4. Moves("install")
    BY <2>1, <1>0
  <2>2. /\ "install" \in Places \ {"stage", "create", "rename"} /\ "install" \notin RestorePlaces
        /\ op.phase \in PhasesAt(command.kind, "install")
    BY <1>10 DEF Places, RestorePlaces, PhasesAt
  <2>3. StepsDone'
    BY <1>1, <1>2, <1>10, <2>4 DEF StepsDone, ToInstall, Exists, AsFound
  <2> QED
    BY <1>6, <2>1, <2>2, <2>3
<1>11. CASE op.phase = "NEW_INSTALLED" /\ command.kind = "restore"
  <2>1. GoTo("verify")
    BY <1>2, <1>11 DEF Published
  <2>4. Moves("verify")
    BY <2>1, <1>0
  <2>2. /\ "verify" \in Places \ {"stage", "create", "rename"} /\ "verify" \notin RestorePlaces
        /\ op.phase \in PhasesAt(command.kind, "verify")
    BY <1>11 DEF Places, RestorePlaces, PhasesAt
  <2>3. StepsDone'
    BY <1>1, <1>2, <1>11, <2>4 DEF StepsDone, ToInstall, Exists, AsFound
  <2> QED
    BY <1>6, <2>1, <2>2, <2>3
<1>12. CASE op.phase \in {"NEW_INSTALLED", "VERIFIED"} /\ ~(op.phase = "NEW_INSTALLED" /\ command.kind = "restore")
  <2> DEFINE p == IF op.phase = "NEW_INSTALLED" THEN "VERIFIED" ELSE "COMMITTED"
  <2>1. Advance(p)
    BY <1>2, <1>12 DEF Published, CommitVerified
  <2>2. p \in PhasesAt(command.kind, "create")
    BY <1>2 DEF PhasesAt, Phases
  <2>3. files["target"] = Source
    BY <1>2, <1>12 DEF StepsDone
  <2>4. ~touched => Tells([command.op EXCEPT !.phase = p])
    BY <1>2, <1>12 DEF Tells, AllOut, ManifestFits, Exists
  <2>5. p \in {"VERIFIED", "COMMITTED"}
    OBVIOUS
  <2> HIDE DEF p
  <2> QED
    BY <1>1, <1>2, <2>1, <2>2, <2>3, <2>4, <2>5, Advanced
<1>13. CASE op.phase = "ROLLING_BACK"
  <2>1. GoTo("examine")
    BY <1>2, <1>13 DEF Published
  <2>4. Moves("examine")
    BY <2>1, <1>0
  <2>2. /\ "examine" \in Places \ {"stage", "create", "rename"} /\ "examine" \notin RestorePlaces
        /\ op.phase \in PhasesAt(command.kind, "examine")
    BY <1>13 DEF Places, RestorePlaces, PhasesAt
  <2>3. StepsDone'
    BY <1>1, <1>2, <1>13, <2>4 DEF StepsDone, ToInstall, Exists, AsFound
  <2> QED
    BY <1>6, <2>1, <2>2, <2>3
<1>14. CASE op.phase \in {"COMMITTED", "ROLLED_BACK", "FAILED_NEEDS_OPERATOR"}
  <2>1. Done
    BY <1>2, <1>14 DEF Published
  <2> QED
    BY <1>1, <2>1, Ended
<1> QED
  BY <1>2, <1>3, <1>7, <1>8, <1>9, <1>10, <1>11, <1>12, <1>13, <1>14 DEF Phases

LEMMA SyncManifestKeeps ==
    ASSUME RestoreAssumption, RestoreIInv, SyncManifest
    PROVE  RestoreIInv'
<1>1. command.kind # "none" /\ command.at = "sync" /\ OnlyCommand
  BY DEF SyncManifest, At
<1>2. CASE Published /\ Works
  BY <1>1, <1>2, PublishedKeeps
<1>3. CASE Unpublished /\ Fails
  BY <1>1, <1>3, OnlyCommandFrame, UnpublishedKeeps
<1> QED
  BY <1>2, <1>3 DEF SyncManifest

\* A step of a command that only decides on its next phase: what such steps of
\* the restore and of the recovery have in common.
LEMMA Decides ==
    ASSUME RestoreAssumption, RestoreIInv, OnlyCommand, Works \/ Fails, command.kind # "none",
           command.at \notin {"stage", "create", "rename"},
           NEW p \in PhasesAt(command.kind, "create"), p # "PREPARED", Advance(p),
           ~touched => Tells([op EXCEPT !.phase = p]),
           p = "INSTALLING" =>
               /\ ~Exists("target") /\ \A i \in Sidecars : ~Exists(Canonical[i])
               /\ op.has["db"] => files["old"] = op.old
               /\ files["staged"] = Source,
           p \in {"QUARANTINING", "OLD_QUARANTINED"} => files["staged"] = Source,
           p = "QUARANTINING" => AsFound(op),
           p \in {"NEW_INSTALLED", "VERIFIED", "COMMITTED"} => files["target"] = Source,
           p = "ROLLED_BACK" => files["target"] = op.old,
           p = "FAILED_NEEDS_OPERATOR" => touched \/ errors' > 0
    PROVE  RestoreIInv'
BY OnlyCommandFrame, OnPublished, Advanced

\* ... to roll back, wherever it was,
LEMMA DecidesRollback ==
    ASSUME RestoreAssumption, RestoreIInv, OnlyCommand, Works \/ Fails, command.kind # "none",
           command.at \notin {"stage", "create", "rename"}, Rollback,
           op.phase \notin {"PREPARED", "ROLLED_BACK", "FAILED_NEEDS_OPERATOR"}
    PROVE  RestoreIInv'
BY OnlyCommandFrame, OnPublished, RolledOn

\* ... or that it needs an operator.
LEMMA DecidesOperator ==
    ASSUME RestoreAssumption, RestoreIInv, OnlyCommand, Works \/ Fails, command.kind # "none",
           command.at \notin {"stage", "create", "rename"}, NeedsOperator, touched \/ errors' > 0
    PROVE  RestoreIInv'
BY OnlyCommandFrame, OnPublished, GivenUp

LEMMA PreparedKeeps ==
    ASSUME RestoreAssumption, RestoreIInv, Prepared
    PROVE  RestoreIInv'
<1>1. command.kind # "none" /\ command.at = "prepared" /\ OnlyCommand /\ Works
  BY DEF Prepared, At
<1>2. op.phase = "PREPARED" /\ command.kind = "restore" /\ ~touched /\ command.op = op
  BY <1>1, OnPublished DEF PhasesAt, CommandFits, RestorePlaces
<1>3. AsFound(op) /\ files["staged"] = Source /\ ManifestFits(op)
  BY <1>1, <1>2, OnPublished DEF Tells, StepsDone
<1>4. {"QUARANTINING", "ROLLED_BACK"} \subseteq PhasesAt(command.kind, "create")
  BY <1>2 DEF PhasesAt, Phases
<1>5. Tells([op EXCEPT !.phase = "QUARANTINING"])
  BY <1>3 DEF Tells, AsFound, Parted, OldBack, ManifestFits
<1>6. Tells([op EXCEPT !.phase = "ROLLED_BACK"])
  BY <1>3 DEF Tells, AsFound, ManifestFits
<1>7. files["target"] = op.old
  BY <1>3 DEF AsFound
<1>8. CASE Advance("QUARANTINING")
  BY <1>1, <1>3, <1>4, <1>5, <1>8, Decides
<1>9. CASE Advance("ROLLED_BACK")
  BY <1>1, <1>4, <1>6, <1>7, <1>9, Decides
<1> QED
  BY <1>8, <1>9 DEF Prepared

LEMMA SyncQuarantineKeeps ==
    ASSUME RestoreAssumption, RestoreIInv, SyncQuarantine
    PROVE  RestoreIInv'
<1>1. command.kind # "none" /\ command.at = "syncQuarantine" /\ OnlyCommand
  BY DEF SyncQuarantine, At
<1>2. op.phase = "QUARANTINING" /\ command.kind = "restore" /\ command.op = op
  BY <1>1, OnPublished DEF PhasesAt, CommandFits, RestorePlaces
<1>3. AllOut(op) /\ ~Exists("target") /\ files["staged"] = Source /\ ManifestFits(op)
  BY <1>1, <1>2, OnPublished DEF StepsDone
<1>4. "OLD_QUARANTINED" \in PhasesAt(command.kind, "create")
  BY <1>2 DEF PhasesAt, Phases
<1>5. Tells([op EXCEPT !.phase = "OLD_QUARANTINED"])
  BY <1>3 DEF Tells, AllOut, ManifestFits
<1>6. CASE Advance("OLD_QUARANTINED") /\ Works
  BY <1>1, <1>3, <1>4, <1>5, <1>6, Decides
<1>7. CASE Rollback /\ Fails
  BY <1>1, <1>2, <1>7, DecidesRollback
<1> QED
  BY <1>6, <1>7 DEF SyncQuarantine

LEMMA QuarantinedKeeps ==
    ASSUME RestoreAssumption, RestoreIInv, Quarantined
    PROVE  RestoreIInv'
<1>1. command.kind # "none" /\ command.at = "quarantined" /\ OnlyCommand /\ Works
  BY DEF Quarantined, At
<1>2. op.phase = "OLD_QUARANTINED" /\ command.kind = "restore" /\ command.op = op /\ ~touched
  BY <1>1, OnPublished DEF PhasesAt, CommandFits, RestorePlaces
<1>3. AllOut(op) /\ ~Exists("target") /\ files["staged"] = Source /\ ManifestFits(op)
  BY <1>1, <1>2, OnPublished DEF StepsDone, Tells
<1>4. "INSTALLING" \in PhasesAt(command.kind, "create")
  BY <1>2 DEF PhasesAt, Phases
<1>5. Tells([op EXCEPT !.phase = "INSTALLING"])
  BY <1>3 DEF Tells, AllOut, ManifestFits, Exists
<1>6. CASE Advance("INSTALLING")
  BY <1>1, <1>3, <1>4, <1>5, <1>6, Decides DEF AllOut
<1>7. CASE Rollback
  BY <1>1, <1>2, <1>7, DecidesRollback
<1> QED
  BY <1>6, <1>7 DEF Quarantined

LEMMA SyncInstalledKeeps ==
    ASSUME RestoreAssumption, RestoreIInv, SyncInstalled
    PROVE  RestoreIInv'
<1>1. command.kind # "none" /\ command.at = "syncInstalled" /\ OnlyCommand
  BY DEF SyncInstalled, At
<1>2. op.phase = "INSTALLING" /\ command.op = op
  BY <1>1, OnPublished DEF PhasesAt
<1>3. files["target"] = Source /\ ManifestFits(op) /\ (~touched => AllOut(op))
  BY <1>1, <1>2, OnPublished DEF StepsDone, Tells
<1>4. CASE Rollback /\ (Works \/ Fails)
  BY <1>1, <1>2, <1>4, DecidesRollback
<1>5. CASE Advance("NEW_INSTALLED") /\ Works
  <2>1. "NEW_INSTALLED" \in PhasesAt(command.kind, "create")
    BY DEF PhasesAt, Phases
  <2>2. ~touched => Tells([op EXCEPT !.phase = "NEW_INSTALLED"])
    BY <1>3 DEF Tells, AllOut, ManifestFits
  <2> QED
    BY <1>1, <1>3, <1>5, <2>1, <2>2, Decides
<1>6. CASE GoTo("verify") /\ Works /\ command.kind = "recover"
  <2>1. /\ command' = [command EXCEPT !.at = "verify", !.item = "db"]
        /\ command'.at = "verify" /\ command'.item = "db" /\ command'.op = command.op
        /\ command'.kind = command.kind
    BY <1>1, <1>6, OnPublished, GoToIs
  <2>2. /\ "verify" \in Places \ {"stage", "create"} /\ "verify" \notin RestorePlaces /\ "db" \in Items
        /\ command.op.phase \in PhasesAt(command.kind, "verify")
    BY <1>2, <1>6 DEF PhasesAt, Places, RestorePlaces, Items
  <2>3. UNCHANGED <<files, op, touched, operations, kills>>
    BY <1>1 DEF OnlyCommand
  <2>4. StepsDone'
    BY <1>2, <1>3, <1>6, <2>1, <2>3 DEF StepsDone, ToInstall
  <2> QED
    BY <1>1, <1>2, <1>6, <2>1, <2>2, <2>3, <2>4, OnPublished, OnlyCommandFrame, Goes
<1> QED
  BY <1>3, <1>4, <1>5, <1>6 DEF SyncInstalled

LEMMA VerifyKeeps ==
    ASSUME RestoreAssumption, RestoreIInv, Verify
    PROVE  RestoreIInv'
<1>1. command.kind # "none" /\ command.at = "verify" /\ OnlyCommand
  BY DEF Verify, At
<1>2. /\ op.phase \in {"OLD_QUARANTINED", "INSTALLING", "NEW_INSTALLED", "VERIFIED"}
      /\ command.op = op /\ command.kind \in {"restore", "recover"}
  BY <1>1, OnPublished DEF PhasesAt
<1>3. files["target"] = Source /\ ManifestFits(op) /\ (~touched => Tells(op))
  BY <1>1, OnPublished DEF StepsDone
<1>4. ~touched => AllOut(op)
  BY <1>2, <1>3 DEF Tells
<1>5. ASSUME NEW p \in {"NEW_INSTALLED", "VERIFIED"}, Advance(p), Works
      PROVE  RestoreIInv'
  <2>1. p \in PhasesAt(command.kind, "create") /\ p # "PREPARED"
    BY DEF PhasesAt, Phases
  <2>2. ~touched => Tells([op EXCEPT !.phase = p])
    BY <1>3, <1>4 DEF Tells, AllOut, ManifestFits
  <2> QED
    BY <1>1, <1>3, <1>5, <2>1, <2>2, Decides
<1>6. CASE Rollback /\ (Works \/ Fails)
  BY <1>1, <1>2, <1>6, DecidesRollback
<1>7. CASE Done /\ Fails
  BY <1>1, <1>7, OnlyCommandFrame, Ended
<1> QED
  BY <1>5, <1>6, <1>7 DEF Verify

LEMMA SettleKeeps ==
    ASSUME RestoreAssumption, RestoreIInv, Settle
    PROVE  RestoreIInv'
<1>1. command.kind # "none" /\ command.at = "settle" /\ OnlyCommand
  BY DEF Settle, At
<1>2. op.phase = "ROLLING_BACK" /\ command.op = op
  BY <1>1, OnPublished DEF PhasesAt
<1>3. /\ OldBack(op) /\ (\A i \in Items : op.has[i] => Exists(Canonical[i])) /\ ManifestFits(op)
      /\ (~touched => Parted(op))
  BY <1>1, <1>2, OnPublished DEF StepsDone, Tells
<1>4. CASE NeedsOperator /\ Fails
  <2>1. errors' > 0
    BY <1>4 DEF Fails, RestoreIInv, RestoreTypeOK, RestoreAssumption
  <2> QED
    BY <1>1, <1>4, <2>1, DecidesOperator
<1>5. CASE Advance("ROLLED_BACK") /\ Works
  <2>1. "ROLLED_BACK" \in PhasesAt(command.kind, "create")
    BY DEF PhasesAt, Phases
  <2>2. ~touched => AsFound(op)
    <3>1. \A i \in Sidecars : i \in Items /\ (~op.has[i] => ~Exists(Quarantine[i]))
      BY DEF RestoreIInv, SidecarsFit, Sidecars, Items
    <3> QED
      BY <1>3, <3>1 DEF AsFound, OldBack, Parted
  <2>3. ~touched => Tells([op EXCEPT !.phase = "ROLLED_BACK"])
    BY <1>3, <2>2 DEF Tells, AsFound, ManifestFits
  <2> QED
    BY <1>1, <1>3, <1>5, <2>1, <2>3, Decides DEF OldBack
<1> QED
  BY <1>2, <1>3, <1>4, <1>5 DEF Settle, OldBack

-----------------------------------------------------------------------------
(* Steps that move files.                                                  *)

LEMMA BeginRestoreKeeps ==
    ASSUME RestoreAssumption, RestoreIInv, BeginRestore
    PROVE  RestoreIInv'
<1>1. /\ op' = NoOperation /\ partial' = FALSE /\ touched' = FALSE
      /\ UNCHANGED <<operations, errors, kills>> /\ operations < OperationCap
      /\ command' = [kind |-> "restore", at |-> "stage", item |-> "db", op |-> NoOperation]
  BY DEF BeginRestore, NoCommand
<1>2. /\ files' \in [Names -> Readable \cup {Absent, Empty, Torn}]
      /\ \A i \in Items : files'[Canonical[i]] = files[Canonical[i]] /\ files'[Quarantine[i]] = Absent
      /\ files'["failed"] = Absent /\ files'["staged"] = Torn
  BY NamesAre DEF BeginRestore, RestoreIInv, ContentsFit, Items
<1>3. ContentsFit'
  BY <1>2, NamesAre, ContentsDiffer DEF RestoreIInv, ContentsFit, Items
<1>4. ManifestFits(NoOperation)
  BY DEF ManifestFits, NoOperation, Items, Phases, Absent, Readable, Roots
<1>5. SidecarsFit'
  <2>1. op.phase \notin Parting
    BY DEF BeginRestore, Terminal, Parting
  <2>2. \A i \in Sidecars : i \in Items
    BY DEF Sidecars, Items
  <2>3. files'["target"] = files["target"]
    BY <1>2, NamesAre DEF Items
  <2> QED
    BY <1>2, <2>1, <2>2, <2>3 DEF RestoreIInv, SidecarsFit, Exists
<1>6. OldFound'
  BY <1>1, <1>2, NamesAre DEF OldFound, Exists, Items, NoOperation
<1>7. CommandFits'
  BY <1>1 DEF CommandFits, ToPrepare, NoOperation, PhasesAt, Places, RestorePlaces, Items, Phases, Absent,
              Readable, Roots
<1>8. StepsDone'
  BY <1>1 DEF StepsDone, ToInstall, NoOperation
<1>9. Tells(op)' /\ Tells(command.op)'
  BY <1>1 DEF Tells, NoOperation
<1>10. ManifestFits(op)' /\ ManifestFits(command.op)'
  BY <1>1, <1>4 DEF ManifestFits
<1>11. \A n \in Names : files'[n].root \in Roots \cup {"none", "empty", "torn"}
  BY <1>2 DEF Readable, Absent, Empty, Torn
<1>12. RestoreTypeOK'
  BY <1>1, <1>2, <1>4, <1>11 DEF RestoreIInv, RestoreTypeOK, NoOperation, ManifestFits
<1> QED
  BY <1>1, <1>3, <1>5, <1>6, <1>7, <1>8, <1>9, <1>10, <1>12 DEF RestoreIInv, NoOperation

\* A step of a command between two names.
LEMMA FilesMove ==
    ASSUME RestoreAssumption, RestoreIInv, UNCHANGED <<op, partial, operations, touched, kills>>,
           Works \/ Fails, ContentsFit', SidecarsFit', OldFound', CommandFits', StepsDone',
           ManifestFits(command'.op), ~touched => Tells(op)' /\ Tells(command.op)',
           command'.op.phase # "FAILED_NEEDS_OPERATOR" \/ command'.op = op
    PROVE  RestoreIInv'
<1>1. errors' \in 0 .. MaxErrors /\ (errors > 0 => errors' > 0)
  BY ErrorsCounted
<1>2. ManifestFits(op)' /\ ManifestFits(command.op)'
  BY DEF RestoreIInv, ManifestFits
<1>3. \A n \in Names : files'[n].root \in Roots \cup {"none", "empty", "torn"}
  BY DEF ContentsFit, Readable, Absent, Empty, Torn
<1>4. RestoreTypeOK'
  BY <1>1, <1>3 DEF RestoreIInv, RestoreTypeOK, ContentsFit
<1> QED
  BY <1>1, <1>2, <1>4 DEF RestoreIInv

LEMMA StageKeeps ==
    ASSUME RestoreAssumption, RestoreIInv, Stage
    PROVE  RestoreIInv'
<1>1. /\ command.kind # "none" /\ command.at = "stage" /\ CommandFits
      /\ UNCHANGED <<op, partial, operations, touched, kills>>
  BY DEF Stage, At, RestoreIInv
<1>2. op.phase = "none" /\ op = NoOperation /\ command.op = op /\ command.kind = "restore" /\ ~touched
      /\ operations < OperationCap
  BY <1>1 DEF CommandFits, PhasesAt, RestoreIInv, ManifestFits, RestorePlaces
<1>3. CASE Done /\ Fails /\ UNCHANGED files
  BY <1>1, <1>3, ErrorsCounted, Ended DEF RestoreIInv, RestoreTypeOK
<1>4. CASE files' = [files EXCEPT !["staged"] = Source] /\ Works
  <2>1. /\ files' \in [Names -> Readable \cup {Absent, Empty, Torn}] /\ files'["staged"] = Source
        /\ \A n \in Names \ {"staged"} : files'[n] = files[n]
    BY <1>4, ContentsDiffer, NamesAre DEF RestoreIInv, ContentsFit
  <2>2. /\ files'["target"] = files["target"] /\ files'["old"] = files["old"]
        /\ \A i \in Items : /\ files'[Canonical[i]] = files[Canonical[i]]
                            /\ files'[Quarantine[i]] = files[Quarantine[i]]
        /\ \A i \in Sidecars : i \in Items
    BY <2>1, NamesAre DEF Items, Sidecars
  <2>3. ContentsFit'
    BY <2>1 DEF RestoreIInv, ContentsFit
  <2>4. SidecarsFit' /\ OldFound'
    BY <1>1, <2>2 DEF RestoreIInv, SidecarsFit, OldFound, Exists
  <2>5. op.has = [i \in Items |-> FALSE]
    BY <1>2 DEF NoOperation
  <2>6. \A i \in Items : ~Exists(Quarantine[i])
    BY <2>5, NamesAre DEF RestoreIInv, SidecarsFit, OldFound, Sidecars, Items
  <2>7. Tells(op)'
    BY <1>1, <1>2 DEF NoOperation, Tells
  <2>8. CASE Done
    <3>1. CommandFits' /\ StepsDone' /\ ManifestFits(command'.op) /\ command'.op = op /\ Tells(command.op)'
      BY <1>1, <1>2, <2>8 DEF Done, NoCommand, NoOperation, CommandFits, StepsDone, ToInstall, ManifestFits,
         Tells, Items, Phases, Absent, Readable
    <3> QED
      BY <1>1, <1>4, <2>3, <2>4, <2>7, <3>1, FilesMove
  <2>9. CASE files["target"] # Empty /\ command' = [command EXCEPT !.at = "create", !.op = Inspected]
    <3>1. files["target"] \in Readable \cup {Absent}
      BY <2>9, NamesAre DEF RestoreIInv, ContentsFit
    <3>2. /\ Inspected.phase = "PREPARED" /\ Inspected.old = files["target"]
          /\ Inspected.has \in [Items -> BOOLEAN]
          /\ \A i \in Items : Inspected.has[i] <=> Exists(Canonical[i])
      BY DEF Inspected, Exists
    <3>3. Inspected \in [phase : Phases \cup {"none"}, has : [Items -> BOOLEAN], old : Readable \cup {Absent}]
      BY <3>1, <3>2 DEF Inspected, Phases
    <3>4. \A i \in Sidecars : Exists(Canonical[i]) => files["target"] \in Readable /\ files["target"] # Source
      BY <2>5 DEF RestoreIInv, SidecarsFit, Items
    <3>5. Inspected.has["db"] <=> files["target"] # Absent
      BY <3>2, NamesAre DEF Exists, Items
    <3>6. ManifestFits(Inspected)
      BY <2>2, <3>2, <3>3, <3>4, <3>5, ContentsDiffer DEF ManifestFits, Sidecars
    <3> HIDE DEF Inspected
    <3>7. /\ command'.kind = "restore" /\ command'.at = "create" /\ command'.op = Inspected
          /\ command' \in [kind : {"restore", "recover"}, at : Places, item : Items,
                           op : [phase : Phases \cup {"none"}, has : [Items -> BOOLEAN],
                                 old : Readable \cup {Absent}]]
      BY <1>1, <1>2, <2>9, <3>3 DEF CommandFits, Places
    <3>8. CommandFits'
      BY <1>1, <1>2, <3>2, <3>7 DEF CommandFits, ToPrepare, PhasesAt, Phases
    <3>9. StepsDone'
      BY <2>1, <3>2, <3>7 DEF StepsDone, ToInstall
    <3>10. Tells(command.op)'
      BY <2>2, <2>6, <3>2, <3>7, NamesAre DEF Tells, AsFound, Exists, Items
    <3> QED
      BY <1>1, <1>4, <2>3, <2>4, <2>7, <3>2, <3>6, <3>7, <3>8, <3>9, <3>10, FilesMove
  <2> QED
    BY <1>3, <1>4, <2>8, <2>9 DEF Stage
<1> QED
  BY <1>3, <1>4 DEF Stage

\* The next place in the same phase, whatever happens to the files.
LEMMA StillFits ==
    ASSUME RestoreIInv, UNCHANGED <<op, touched, operations>>, command.kind # "none",
           command.at \notin {"stage", "create", "rename"},
           NEW at \in Places \ {"stage", "create", "rename"}, NEW item \in Items,
           command.kind = "recover" => at \notin RestorePlaces,
           command' = [command EXCEPT !.at = at, !.item = item], op.phase \in PhasesAt(command.kind, at)
    PROVE  /\ CommandFits' /\ ManifestFits(command'.op) /\ command'.op = op
           /\ command'.at = at /\ command'.item = item /\ command'.kind = command.kind
<1>1. CommandFits /\ command.op = op /\ op.phase # "none" /\ ManifestFits(op)
  BY OnPublished
<1>2. /\ command'.kind = command.kind /\ command'.at = at /\ command'.item = item
      /\ command'.op = command.op
  BY <1>1 DEF CommandFits
<1>3. command' \in [kind : {"restore", "recover"}, at : Places, item : Items,
                    op : [phase : Phases \cup {"none"}, has : [Items -> BOOLEAN],
                          old : Readable \cup {Absent}]]
  BY <1>1 DEF CommandFits
<1> QED
  BY <1>1, <1>2, <1>3 DEF CommandFits, ToPrepare

LEMMA FollowingIs ==
    ASSUME NEW label, Following(label), CommandFits, command.kind # "none"
    PROVE  LET at == IF command.item = "shm" THEN label ELSE command.at
               item == IF command.item = "shm" THEN "db" ELSE NextItem[command.item]
           IN  command' = [command EXCEPT !.at = at, !.item = item] /\ item \in Items
<1>1. command.item \in Items /\ command \in [kind : {"restore", "recover"}, at : Places, item : Items,
                          op : [phase : Phases \cup {"none"}, has : [Items -> BOOLEAN],
                                old : Readable \cup {Absent}]]
  BY DEF CommandFits
<1>2. CASE command.item = "shm"
  BY <1>1, <1>2 DEF Following, NextItem, GoTo, Items
<1>3. CASE command.item \in {"db", "wal"}
  <2>1. NextItem[command.item] \in {"wal", "shm"} /\ command.item # "shm"
    BY <1>3 DEF NextItem
  <2>2. command' = [command EXCEPT !.item = NextItem[command.item]]
    BY <2>1 DEF Following
  <2>3. command.at = [command EXCEPT !.at = command.at].at /\ [command EXCEPT !.at = command.at] = command
    BY <1>1
  <2>4. command' = [command EXCEPT !.at = command.at, !.item = NextItem[command.item]]
    BY <1>1, <2>2
  <2> QED
    BY <2>1, <2>4 DEF Items
<1> QED
  BY <1>1, <1>2, <1>3 DEF Items

LEMMA InstallStagedKeeps ==
    ASSUME RestoreAssumption, RestoreIInv, InstallStaged
    PROVE  RestoreIInv'
<1>1. /\ command.kind # "none" /\ command.at = "install"
      /\ UNCHANGED <<op, partial, operations, touched, kills>>
  BY DEF InstallStaged, At
<1>2. op.phase = "INSTALLING" /\ command.op = op /\ command.kind \in {"restore", "recover"} /\ CommandFits
  BY <1>1, OnPublished DEF PhasesAt
<1>3. /\ ~Exists("target") /\ (\A i \in Sidecars : ~Exists(Canonical[i])) /\ files["staged"] = Source
      /\ op.has["db"] => files["old"] = op.old
  BY <1>1, <1>2, OnPublished DEF StepsDone, ToInstall
<1>4. ManifestFits(op) /\ (~touched => AllOut(op))
  BY <1>1, <1>2, OnPublished DEF Tells
<1>5. CASE Rollback /\ Fails /\ UNCHANGED files
  BY <1>1, <1>2, <1>5, DecidesRollback DEF OnlyCommand
<1>6. CASE files' = Moved("staged", "target") /\ GoTo("syncInstalled") /\ Works
  <2>1. "staged" \in Names /\ "target" \in Names /\ files["staged"] # Torn /\ ContentsFit
    BY <1>3, NamesAre, ContentsDiffer DEF RestoreIInv
  <2>2. /\ files'["target"] = Source /\ ContentsFit'
        /\ \A n \in Names \ {"staged", "target"} : files'[n] = files[n]
    BY <1>3, <1>6, <2>1, MovedFiles
  <2>3. /\ files'["old"] = files["old"]
        /\ \A i \in Sidecars : /\ files'[Canonical[i]] = files[Canonical[i]]
                               /\ files'[Quarantine[i]] = files[Quarantine[i]]
    BY <2>2, NamesAre DEF Sidecars
  <2>4. command' = [command EXCEPT !.at = "syncInstalled", !.item = "db"]
    BY <1>6 DEF GoTo
  <2>5. /\ "syncInstalled" \in Places \ {"stage", "create", "rename"} /\ "syncInstalled" \notin RestorePlaces
        /\ "db" \in Items /\ op.phase \in PhasesAt(command.kind, "syncInstalled")
    BY <1>2 DEF PhasesAt, Places, RestorePlaces, Items
  <2>6. /\ CommandFits' /\ ManifestFits(command'.op) /\ command'.op = op
        /\ command'.at = "syncInstalled" /\ command'.kind = command.kind
    BY <1>1, <2>4, <2>5, StillFits
  <2>7. SidecarsFit' /\ OldFound'
    BY <1>1, <1>3, <1>4, <2>3 DEF RestoreIInv, SidecarsFit, OldFound, Exists, ManifestFits
  <2>8. StepsDone'
    BY <1>2, <2>2, <2>6 DEF StepsDone, ToInstall
  <2>9. ~touched => Tells(op)' /\ Tells(command.op)'
    BY <1>1, <1>2, <1>4, <2>2, <2>3, <2>6 DEF Tells, AllOut, Exists
  <2> QED
    BY <1>1, <1>6, <2>2, <2>6, <2>7, <2>8, <2>9, FilesMove
<1> QED
  BY <1>5, <1>6 DEF InstallStaged

LEMMA ExamineKeeps ==
    ASSUME RestoreAssumption, RestoreIInv, Examine
    PROVE  RestoreIInv'
<1>1. /\ command.kind # "none" /\ command.at = "examine"
      /\ UNCHANGED <<op, partial, operations, touched, kills>>
  BY DEF Examine, At
<1>2. op.phase = "ROLLING_BACK" /\ command.op = op /\ command.kind \in {"restore", "recover"}
  BY <1>1, OnPublished DEF PhasesAt
<1>3. /\ ManifestFits(op)
      /\ ~touched => Parted(op) /\ (OldBack(op) \/ (files["target"] \in {Absent, Source} /\ OldOut(op)))
  BY <1>1, <1>2, OnPublished DEF Tells
<1>4. /\ "putBack" \in Places \ {"stage", "create", "rename"} /\ "putBack" \notin RestorePlaces
      /\ "db" \in Items /\ op.phase \in PhasesAt(command.kind, "putBack")
  BY <1>2 DEF PhasesAt, Places, RestorePlaces, Items
<1>5. ASSUME GoTo("putBack")
      PROVE  /\ command' = [command EXCEPT !.at = "putBack", !.item = "db"]
             /\ CommandFits' /\ ManifestFits(command'.op) /\ command'.op = op
             /\ command'.at = "putBack" /\ command'.item = "db" /\ command'.kind = command.kind
  BY <1>1, <1>4, <1>5, StillFits DEF GoTo
<1>6. CASE /\ files["target"] = Absent \/ (files["target"] = op.old /\ ~Exists("old"))
           /\ GoTo("putBack") /\ Works /\ UNCHANGED files
  <2>1. OldBack(op) \/ ~Exists("target")
    BY <1>6 DEF OldBack, Exists
  <2>2. StepsDone'
    BY <1>1, <1>2, <1>5, <1>6, <2>1 DEF StepsDone, ToInstall, OldBack, Exists, Before
  <2> QED
    BY <1>1, <1>2, <1>4, <1>5, <1>6, <2>2, OnPublished, OnlyCommandFrame, Goes DEF OnlyCommand
<1>7. CASE NeedsOperator /\ Fails /\ UNCHANGED files
  <2>1. errors' > 0
    BY <1>7 DEF Fails, RestoreIInv, RestoreTypeOK, RestoreAssumption
  <2> QED
    BY <1>1, <1>7, <2>1, DecidesOperator DEF OnlyCommand
<1>8. CASE /\ files["target"] \notin {Absent, Source} /\ ~(files["target"] = op.old /\ ~Exists("old"))
           /\ NeedsOperator /\ Works /\ UNCHANGED files
  <2>1. touched
    BY <1>3, <1>8 DEF OldBack
  <2> QED
    BY <1>1, <1>8, <2>1, DecidesOperator DEF OnlyCommand
<1>9. CASE /\ files["target"] = Source /\ ~(files["target"] = op.old /\ ~Exists("old"))
           /\ files' = Moved("target", "failed") /\ GoTo("putBack") /\ Works
  <2>1. "target" \in Names /\ "failed" \in Names /\ files["target"] # Torn /\ ContentsFit
    BY <1>9, NamesAre, ContentsDiffer DEF RestoreIInv
  <2>2. /\ files'["target"] = Absent /\ ContentsFit'
        /\ \A n \in Names \ {"failed", "target"} : files'[n] = files[n]
    BY <1>9, <2>1, MovedFiles
  <2>3. /\ files'["old"] = files["old"]
        /\ \A i \in Sidecars : /\ files'[Canonical[i]] = files[Canonical[i]]
                               /\ files'[Quarantine[i]] = files[Quarantine[i]]
    BY <2>2, NamesAre DEF Sidecars
  <2>4. op.has["db"] => files["old"] = op.old
    <3> SUFFICES ASSUME op.has["db"], ~Exists("old")
                 PROVE  FALSE
      BY DEF RestoreIInv, OldFound
    <3>1. op.old \in Readable /\ op.old.root = Source.root /\ Source.revision >= op.old.revision
      BY <1>3, <1>9 DEF RestoreIInv, OldFound, ManifestFits
    <3>2. op.old = Source
      BY <3>1 DEF Source, Database, Readable
    <3> QED
      BY <1>9, <3>2
  <2>5. SidecarsFit'
    <3>1. \A i \in Sidecars : ~Exists(Canonical[i])
      BY <1>9, ContentsDiffer DEF RestoreIInv, SidecarsFit, Exists
    <3> QED
      BY <1>1, <2>3, <3>1 DEF RestoreIInv, SidecarsFit, Exists
  <2>6. OldFound'
    BY <1>1, <1>3, <2>3, <2>4 DEF RestoreIInv, OldFound, Exists, ManifestFits
  <2>7. StepsDone'
    BY <1>2, <1>5, <1>9, <2>2 DEF StepsDone, ToInstall, Exists, Before
  <2>8. ~touched => Tells(op)' /\ Tells(command.op)'
    BY <1>1, <1>2, <1>3, <1>5, <1>9, <2>2, <2>3, <2>4 DEF Tells, Parted, OldOut, Exists
  <2> QED
    BY <1>1, <1>5, <1>9, <2>2, <2>5, <2>6, <2>7, <2>8, FilesMove
<1> QED
  BY <1>2, <1>6, <1>7, <1>8, <1>9 DEF Examine

\* The next item of a loop over the items, or what comes after the loop.
LEMMA FollowingFits ==
    ASSUME RestoreIInv, UNCHANGED <<op, touched, operations>>, command.kind # "none",
           command.at \in {"quarantine", "putBack"},
           NEW label \in Places \ {"stage", "create", "rename"}, Following(label),
           command.kind = "recover" => label \notin RestorePlaces,
           op.phase \in PhasesAt(command.kind, label)
    PROVE  LET at == IF command.item = "shm" THEN label ELSE command.at
               item == IF command.item = "shm" THEN "db" ELSE NextItem[command.item]
           IN  /\ command' = [command EXCEPT !.at = at, !.item = item] /\ item \in Items
               /\ at \in Places \ {"stage", "create", "rename"}
               /\ command.kind = "recover" => at \notin RestorePlaces
               /\ op.phase \in PhasesAt(command.kind, at)
               /\ CommandFits' /\ ManifestFits(command'.op) /\ command'.op = op
               /\ command'.at = at /\ command'.item = item /\ command'.kind = command.kind
<1> DEFINE at == IF command.item = "shm" THEN label ELSE command.at
           item == IF command.item = "shm" THEN "db" ELSE NextItem[command.item]
<1>1. CommandFits /\ op.phase \in PhasesAt(command.kind, command.at)
  BY OnPublished
<1>2. command' = [command EXCEPT !.at = at, !.item = item] /\ item \in Items
  BY <1>1, FollowingIs
<1>3. /\ at \in Places \ {"stage", "create", "rename"} /\ op.phase \in PhasesAt(command.kind, at)
      /\ command.kind = "recover" => at \notin RestorePlaces
  BY <1>1 DEF CommandFits, Places
<1> HIDE DEF at, item
<1>4. /\ CommandFits' /\ ManifestFits(command'.op) /\ command'.op = op
      /\ command'.at = at /\ command'.item = item /\ command'.kind = command.kind
  BY <1>2, <1>3, StillFits
<1> QED
  BY <1>2, <1>3, <1>4 DEF at, item

\* An item moved into quarantine or back changes the two names it has.
LEMMA ItemMoved ==
    ASSUME RestoreIInv, NEW i \in Items, NEW from, NEW to,
           {from, to} = {Canonical[i], Quarantine[i]}, from # to, files' = Moved(from, to)
    PROVE  /\ files'[from] = Absent /\ files'[to] = files[from] /\ ContentsFit'
           /\ \A j \in Items \ {i} : /\ files'[Canonical[j]] = files[Canonical[j]]
                                     /\ files'[Quarantine[j]] = files[Quarantine[j]]
           /\ files'["staged"] = files["staged"]
<1>1. from \in Names /\ to \in Names /\ from # "staged" /\ to # "staged" /\ ContentsFit
  BY ItemNames DEF RestoreIInv
<1>2. files[from] # Torn
  BY <1>1 DEF ContentsFit
<1>3. /\ files'[from] = Absent /\ files'[to] = files[from] /\ ContentsFit'
      /\ \A n \in Names \ {from, to} : files'[n] = files[n]
  BY <1>1, <1>2, MovedFiles
<1>4. \A j \in Items \ {i} : /\ Canonical[j] \in Names \ {from, to}
                             /\ Quarantine[j] \in Names \ {from, to}
  BY ItemNames
<1>5. "staged" \in Names \ {from, to}
  BY <1>1, NamesAre
<1> QED
  BY <1>3, <1>4, <1>5

LEMMA QuarantineItemKeeps ==
    ASSUME RestoreAssumption, RestoreIInv, QuarantineItem, NEW i \in Items, command.item = i
    PROVE  RestoreIInv'
<1>1. /\ command.kind # "none" /\ command.at = "quarantine"
      /\ UNCHANGED <<op, partial, operations, touched, kills>>
  BY DEF QuarantineItem, At
<1>2. /\ op.phase = "QUARANTINING" /\ command.op = op /\ command.kind = "restore" /\ ~touched
  BY <1>1, OnPublished DEF PhasesAt, CommandFits, RestorePlaces
<1>3. /\ ManifestFits(op) /\ Parted(op) /\ files["staged"] = Source
      /\ OldBack(op) \/ (~Exists("target") /\ OldOut(op))
  BY <1>1, <1>2, OnPublished DEF Tells, StepsDone
<1>4. \A j \in Items :
          /\ j \in Before(i) => ~Exists(Canonical[j]) /\ (op.has[j] => Exists(Quarantine[j]))
          /\ j \notin Before(i) => (op.has[j] <=> Exists(Canonical[j])) /\ ~Exists(Quarantine[j])
  BY <1>1, OnPublished DEF StepsDone
<1>0. i \notin Before(i)
  BY <1>2 DEF Before, Items
<1>5. CASE Rollback /\ Fails /\ UNCHANGED files
  BY <1>1, <1>2, <1>5, DecidesRollback DEF OnlyCommand
<1> DEFINE at == IF i = "shm" THEN "syncQuarantine" ELSE "quarantine"
           item == IF i = "shm" THEN "db" ELSE NextItem[i]
<1>6. ASSUME Following("syncQuarantine")
      PROVE  /\ command' = [command EXCEPT !.at = at, !.item = item] /\ item \in Items
             /\ at \in Places \ {"stage", "create", "rename"} /\ op.phase \in PhasesAt(command.kind, at)
             /\ CommandFits' /\ ManifestFits(command'.op) /\ command'.op = op
             /\ command'.at = at /\ command'.item = item /\ command'.kind = command.kind
  <2>1. /\ "syncQuarantine" \in Places \ {"stage", "create", "rename"}
        /\ op.phase \in PhasesAt(command.kind, "syncQuarantine")
    BY <1>2 DEF PhasesAt, Places, RestorePlaces
  <2> QED
    BY <1>1, <1>2, <1>6, <2>1, FollowingFits
<1>7. i # "shm" => Before(item) = Before(i) \cup {i} /\ item # i
  BY <1>2 DEF Before, NextItem, Items
<1>8. i = "shm" => Items = Before(i) \cup {i}
  BY DEF Before, Items
<1>9. ASSUME Following("syncQuarantine"),
             ~Exists(Canonical[i])' /\ (op.has[i] => Exists(Quarantine[i])'),
             \A j \in Items \ {i} : /\ files'[Canonical[j]] = files[Canonical[j]]
                                    /\ files'[Quarantine[j]] = files[Quarantine[j]],
             files'["staged"] = files["staged"], OldFound'
      PROVE  StepsDone'
  <2>1. command'.op = op /\ command'.op.phase = "QUARANTINING" /\ op' = op
    BY <1>1, <1>2, <1>6, <1>9
  <2>2. CASE i = "shm"
    <3>1. command'.at = "syncQuarantine"
      BY <1>6, <1>9, <2>2
    <3>2. \A j \in Items : ~Exists(Canonical[j])' /\ (op.has[j] => Exists(Quarantine[j])')
      <4> SUFFICES ASSUME NEW j \in Items
                   PROVE  ~Exists(Canonical[j])' /\ (op.has[j] => Exists(Quarantine[j])')
        OBVIOUS
      <4>1. CASE j = i
        BY <1>9, <4>1
      <4>2. CASE j # i
        <5>1. j \in Before(i)
          BY <1>8, <2>2, <4>2
        <5>2. ~Exists(Canonical[j]) /\ (op.has[j] => Exists(Quarantine[j]))
          BY <1>4, <5>1
        <5>3. files'[Canonical[j]] = files[Canonical[j]] /\ files'[Quarantine[j]] = files[Quarantine[j]]
          BY <1>9, <4>2
        <5> QED
          BY <5>2, <5>3 DEF Exists
      <4> QED
        BY <4>1, <4>2
    <3>3. ~Exists("target")' /\ AllOut(op)'
      BY <1>1, <1>9, <3>2, NamesAre DEF AllOut, OldFound, Exists, Items, Sidecars
    <3> QED
      BY <1>1, <1>2, <1>3, <1>9, <2>1, <3>1, <3>3 DEF StepsDone, ToInstall, AllOut, Exists
  <2>3. CASE i # "shm"
    <3>1. command'.at = "quarantine" /\ command'.item = item
      BY <1>6, <1>9, <2>3
    <3>2. \A j \in Items :
              IF j \in Before(item)
              THEN ~Exists(Canonical[j])' /\ (op.has[j] => Exists(Quarantine[j])')
              ELSE (op.has[j] <=> Exists(Canonical[j])') /\ ~Exists(Quarantine[j])'
      <4> SUFFICES ASSUME NEW j \in Items
                   PROVE  /\ j \in Before(item) =>
                                ~Exists(Canonical[j])' /\ (op.has[j] => Exists(Quarantine[j])')
                          /\ j \notin Before(item) =>
                                (op.has[j] <=> Exists(Canonical[j])') /\ ~Exists(Quarantine[j])'
        OBVIOUS
      <4> HIDE DEF item
      <4>0. j \in Before(item) <=> j \in Before(i) \/ j = i
        BY <1>7, <2>3
      <4>1. CASE j = i
        BY <1>9, <4>0, <4>1
      <4>2. CASE j # i
        <5>2. /\ j \in Before(i) => ~Exists(Canonical[j]) /\ (op.has[j] => Exists(Quarantine[j]))
              /\ j \notin Before(i) => (op.has[j] <=> Exists(Canonical[j])) /\ ~Exists(Quarantine[j])
          BY <1>4
        <5>3. files'[Canonical[j]] = files[Canonical[j]] /\ files'[Quarantine[j]] = files[Quarantine[j]]
          BY <1>9, <4>2
        <5> QED
          BY <4>0, <4>2, <5>2, <5>3 DEF Exists
      <4> QED
        BY <4>1, <4>2
    <3> QED
      BY <1>1, <1>2, <1>3, <1>9, <2>1, <3>1, <3>2 DEF StepsDone, ToInstall, Exists
  <2> QED
    BY <2>2, <2>3
<1> HIDE DEF at, item
<1>10. CASE ~op.has[i] /\ Following("syncQuarantine") /\ Works /\ UNCHANGED files
  <2>1. OldFound'
    BY <1>1, <1>10 DEF RestoreIInv, OldFound, Exists
  <2>2. ~Exists(Canonical[i])'
    <3>1. ~Exists(Canonical[i])
      BY <1>0, <1>2, <1>4, <1>10
    <3> QED
      BY <1>10, <3>1 DEF Exists
  <2>3. StepsDone'
    BY <1>9, <1>10, <2>1, <2>2
  <2>4. at \notin {"stage", "create", "rename"} /\ at \in Places
    BY <1>6, <1>10
  <2>5. RestoreIInv'
    BY <1>1, <1>2, <1>6, <1>10, <2>3, <2>4, OnPublished, ErrorsCounted, Goes DEF RestoreIInv, RestoreTypeOK
  <2> QED
    BY <2>5
<1>11. CASE op.has[i] /\ files' = Moved(Canonical[i], Quarantine[i]) /\ Following("syncQuarantine") /\ Works
  <2>1. Exists(Canonical[i]) /\ ~Exists(Quarantine[i]) /\ i \notin Before(i)
    BY <1>2, <1>4, <1>11 DEF Before, Items
  <2>2. /\ files'[Canonical[i]] = Absent /\ files'[Quarantine[i]] = files[Canonical[i]] /\ ContentsFit'
        /\ \A j \in Items \ {i} : /\ files'[Canonical[j]] = files[Canonical[j]]
                                  /\ files'[Quarantine[j]] = files[Quarantine[j]]
        /\ files'["staged"] = files["staged"]
    BY <1>2, <1>11, ItemNames, ItemMoved
  <2>3. CASE i = "db"
    <3>1. /\ files'["target"] = Absent /\ files'["old"] = files["target"]
          /\ \A j \in Sidecars : /\ files'[Canonical[j]] = files[Canonical[j]]
                                 /\ files'[Quarantine[j]] = files[Quarantine[j]]
      BY <2>2, <2>3, NamesAre DEF Sidecars, Items
    <3>2. op.has["db"] /\ files["target"] = op.old /\ Exists("target") /\ op.old \in Readable
      BY <1>3, <1>11, <2>1, <2>3, NamesAre DEF OldBack, ManifestFits, Exists
    <3>3. OldFound'
      BY <1>1, <3>1, <3>2 DEF OldFound, Exists
    <3>4. SidecarsFit'
      BY <1>1, <1>2, <3>1, <3>2 DEF RestoreIInv, SidecarsFit, Exists, Parting
    <3>5. Parted(op)' /\ OldOut(op)' /\ ~Exists("target")'
      BY <1>1, <1>3, <3>1, <3>2 DEF Parted, OldOut, Exists
    <3>8. ~Exists(Canonical[i])' /\ Exists(Quarantine[i])'
      BY <2>1, <2>2 DEF Exists
    <3>9. StepsDone'
      BY <1>9, <1>11, <2>2, <3>3, <3>8
    <3>10. Tells(op)'
      BY <1>1, <1>2, <3>5 DEF Tells
    <3>11. /\ CommandFits' /\ ManifestFits(command'.op) /\ command'.op = op
      BY <1>6, <1>11
    <3>12. Tells(command.op)'
      BY <1>1, <3>10, <3>11
    <3> QED
      BY <3>3, <3>4, <3>9, <3>10, <3>11, <3>12, <2>2, <1>1, <1>11, FilesMove
  <2>4. CASE i # "db"
    <3>1. i \in Sidecars /\ "db" \in Items /\ "db" \in Before(i)
      BY <1>2, <2>4 DEF Sidecars, Items, Before
    <3>2. files'["target"] = files["target"] /\ files'["old"] = files["old"] /\ files["target"] = Absent
      BY <1>4, <2>2, <2>4, <3>1, NamesAre DEF Exists
    <3>3. OldFound'
      BY <1>1, <3>2 DEF RestoreIInv, OldFound, Exists
    <3>4. files[Canonical[i]].root = op.old.root
      BY <2>1, <3>1, <3>2, ContentsDiffer DEF RestoreIInv, SidecarsFit, Exists
    <3>5. \A j \in Sidecars \ {i} : /\ files'[Canonical[j]] = files[Canonical[j]]
                                    /\ files'[Quarantine[j]] = files[Quarantine[j]]
      BY <2>2 DEF Sidecars, Items
    <3>6. SidecarsFit'
      BY <1>1, <1>11, <2>2, <3>2, <3>4, <3>5 DEF RestoreIInv, SidecarsFit, Exists
    <3>7. Parted(op)' /\ (OldBack(op)' \/ (~Exists("target")' /\ OldOut(op)'))
      BY <1>1, <1>3, <1>11, <2>1, <2>2, <3>2, <3>5 DEF Parted, OldOut, OldBack, Exists
    <3>8. ~Exists(Canonical[i])' /\ Exists(Quarantine[i])'
      BY <2>1, <2>2 DEF Exists
    <3>9. StepsDone'
      BY <1>9, <1>11, <2>2, <3>3, <3>8
    <3>10. Tells(op)'
      BY <1>1, <1>2, <3>7 DEF Tells
    <3>11. /\ CommandFits' /\ ManifestFits(command'.op) /\ command'.op = op
      BY <1>6, <1>11
    <3>12. Tells(command.op)'
      BY <1>1, <3>10, <3>11
    <3> QED
      BY <3>3, <3>6, <3>9, <3>10, <3>11, <3>12, <2>2, <1>1, <1>11, FilesMove
  <2> QED
    BY <2>3, <2>4
<1> QED
  <2>1. command.op.has[i] = op.has[i]
    BY <1>2
  <2> QED
    BY <1>5, <1>10, <1>11, <2>1 DEF QuarantineItem

LEMMA PutBackKeeps ==
    ASSUME RestoreAssumption, RestoreIInv, PutBack, NEW i \in Items, command.item = i
    PROVE  RestoreIInv'
<1>1. /\ command.kind # "none" /\ command.at = "putBack"
      /\ UNCHANGED <<op, partial, operations, touched, kills>>
  BY DEF PutBack, At
<1>2. op.phase = "ROLLING_BACK" /\ command.op = op /\ command.kind \in {"restore", "recover"}
  BY <1>1, OnPublished DEF PhasesAt
<1>3. /\ ManifestFits(op)
      /\ ~touched => Parted(op) /\ (OldBack(op) \/ (files["target"] \in {Absent, Source} /\ OldOut(op)))
  BY <1>1, <1>2, OnPublished DEF Tells
<1>4. /\ OldBack(op) \/ (i = "db" /\ ~Exists("target"))
      /\ \A j \in Before(i) : op.has[j] => Exists(Canonical[j])
  BY <1>1, OnPublished DEF StepsDone
<1>5. i = "db" => Canonical[i] = "target" /\ Quarantine[i] = "old"
  BY NamesAre
<1>6. CASE NeedsOperator /\ Fails /\ UNCHANGED files
  <2>1. errors' > 0
    BY <1>6 DEF Fails, RestoreIInv, RestoreTypeOK, RestoreAssumption
  <2> QED
    BY <1>1, <1>6, <2>1, DecidesOperator DEF OnlyCommand
<1>7. CASE /\ op.has[i] /\ ~Exists(Canonical[i]) /\ ~Exists(Quarantine[i])
           /\ NeedsOperator /\ Works /\ UNCHANGED files
  <2>1. CASE i = "db"
    <3>1. op.old # Absent /\ ~Exists("target") /\ ~Exists("old")
      BY <1>3, <1>5, <1>7, <2>1 DEF ManifestFits
    <3>2. touched
      BY <1>3, <1>7, <2>1, <3>1 DEF OldBack, OldOut, Exists
    <3> QED
      BY <1>1, <1>7, <3>2, DecidesOperator DEF OnlyCommand
  <2>2. CASE i \in Sidecars
    <3>1. touched
      BY <1>3, <1>7, <2>2 DEF Parted, Exists
    <3> QED
      BY <1>1, <1>7, <3>1, DecidesOperator DEF OnlyCommand
  <2> QED
    BY <2>1, <2>2 DEF Items, Sidecars
<1> DEFINE at == IF i = "shm" THEN "settle" ELSE "putBack"
           item == IF i = "shm" THEN "db" ELSE NextItem[i]
<1>8. ASSUME Following("settle")
      PROVE  /\ command' = [command EXCEPT !.at = at, !.item = item] /\ item \in Items
             /\ at \in Places \ {"stage", "create", "rename"} /\ op.phase \in PhasesAt(command.kind, at)
             /\ command.kind = "recover" => at \notin RestorePlaces
             /\ CommandFits' /\ ManifestFits(command'.op) /\ command'.op = op
             /\ command'.at = at /\ command'.item = item /\ command'.kind = command.kind
  <2>1. /\ "settle" \in Places \ {"stage", "create", "rename"} /\ "settle" \notin RestorePlaces
        /\ op.phase \in PhasesAt(command.kind, "settle")
    BY <1>2 DEF PhasesAt, Places, RestorePlaces
  <2> QED
    BY <1>1, <1>2, <1>8, <2>1, FollowingFits
<1>9. i # "shm" => Before(item) = Before(i) \cup {i} /\ item # i
  BY DEF Before, NextItem, Items
<1>10. i = "shm" => Items = Before(i) \cup {i}
  BY DEF Before, Items
<1>11. ASSUME Following("settle"), OldBack(op)', op.has[i] => files'[Canonical[i]] # Absent,
              \A j \in Items \ {i} : files'[Canonical[j]] = files[Canonical[j]]
       PROVE  StepsDone'
  <2>1. command'.op = op /\ command'.op.phase = "ROLLING_BACK" /\ op' = op
    BY <1>1, <1>2, <1>8, <1>11
  <2>2. \A j \in Before(i) : j \in Items \ {i}
    BY DEF Before, Items
  <2>3. \A j \in Before(i) \cup {i} : op.has[j] => files'[Canonical[j]] # Absent
    BY <1>4, <1>11, <2>2 DEF Exists
  <2>4. CASE i = "shm"
    <3>1. command'.at = "settle"
      BY <1>8, <1>11, <2>4
    <3> QED
      BY <1>10, <1>11, <2>1, <2>3, <2>4, <3>1 DEF StepsDone, ToInstall, Exists
  <2>5. CASE i # "shm"
    <3>1. command'.at = "putBack" /\ command'.item = item
      BY <1>8, <1>11, <2>5
    <3>2. \A j \in Before(item) : op.has[j] => files'[Canonical[j]] # Absent
      BY <1>9, <2>3, <2>5
    <3> HIDE DEF item
    <3> QED
      BY <1>11, <2>1, <3>1, <3>2 DEF StepsDone, ToInstall, Exists
  <2> QED
    BY <2>4, <2>5
<1> HIDE DEF at, item
<1>12. CASE ~(op.has[i] /\ ~Exists(Canonical[i])) /\ Following("settle") /\ Works /\ UNCHANGED files
  <2>1. OldBack(op)
    <3>1. CASE i = "db" /\ ~Exists("target")
      BY <1>3, <1>5, <1>12, <3>1 DEF OldBack, Exists, ManifestFits, RestoreIInv, OldFound
    <3> QED
      BY <1>4, <3>1
  <2>2. OldBack(op)' /\ (op.has[i] => files'[Canonical[i]] # Absent)
    BY <1>1, <1>12, <2>1 DEF OldBack, Exists
  <2>3. StepsDone'
    BY <1>11, <1>12, <2>2
  <2>4. at \notin {"stage", "create", "rename"} /\ at \in Places
    BY <1>8, <1>12
  <2> QED
    BY <1>1, <1>2, <1>8, <1>12, <2>3, <2>4, OnPublished, ErrorsCounted, Goes DEF RestoreIInv, RestoreTypeOK
<1>13. CASE /\ op.has[i] /\ ~Exists(Canonical[i]) /\ Exists(Quarantine[i])
            /\ files' = Moved(Quarantine[i], Canonical[i]) /\ Following("settle") /\ Works
  <2>1. /\ files'[Quarantine[i]] = Absent /\ files'[Canonical[i]] = files[Quarantine[i]] /\ ContentsFit'
        /\ \A j \in Items \ {i} : /\ files'[Canonical[j]] = files[Canonical[j]]
                                  /\ files'[Quarantine[j]] = files[Quarantine[j]]
    BY <1>13, ItemNames, ItemMoved
  <2>2. CASE i = "db"
    <3>1. /\ files'["target"] = files["old"] /\ files'["old"] = Absent
          /\ \A j \in Sidecars : /\ files'[Canonical[j]] = files[Canonical[j]]
                                 /\ files'[Quarantine[j]] = files[Quarantine[j]]
      BY <2>1, <2>2, NamesAre DEF Sidecars, Items
    <3>2. op.has["db"] /\ files["old"] = op.old /\ ~Exists("target") /\ op.old \in Readable
      BY <1>3, <1>5, <1>13, <2>2 DEF ManifestFits, RestoreIInv, OldFound
    <3>3. OldFound' /\ OldBack(op)'
      BY <1>1, <3>1, <3>2 DEF OldFound, OldBack, Exists, Readable
    <3>4. SidecarsFit'
      <4>1. files["target"] \notin Readable
        BY <3>2, ContentsDiffer DEF Exists
      <4> QED
        BY <1>1, <3>1, <3>2, <4>1 DEF RestoreIInv, SidecarsFit, Exists
    <3>5. ~touched => Parted(op)'
      BY <1>1, <1>3, <3>1 DEF Parted, Exists
    <3>6. ~touched => Tells(op)' /\ Tells(command.op)'
      BY <1>1, <1>2, <1>8, <1>13, <3>3, <3>5 DEF Tells
    <3>7. StepsDone'
      BY <1>11, <1>13, <2>1, <3>3 DEF Exists
    <3> QED
      BY <1>1, <1>8, <1>13, <2>1, <3>3, <3>4, <3>6, <3>7, FilesMove
  <2>3. CASE i # "db"
    <3>1. i \in Sidecars /\ "db" \in Items /\ OldBack(op)
      BY <1>4, <2>3 DEF Sidecars, Items
    <3>2. files'["target"] = files["target"] /\ files'["old"] = files["old"]
      BY <2>1, <2>3, <3>1, NamesAre
    <3>3. OldFound' /\ OldBack(op)'
      BY <1>1, <3>1, <3>2 DEF RestoreIInv, OldFound, OldBack, Exists
    <3>4. /\ files[Quarantine[i]].root = op.old.root /\ files["target"] = op.old
          /\ op.old \in Readable /\ op.old # Source
      BY <1>3, <1>13, <3>1 DEF RestoreIInv, SidecarsFit, OldBack, ManifestFits, Sidecars
    <3>5. \A j \in Sidecars \ {i} : /\ files'[Canonical[j]] = files[Canonical[j]]
                                    /\ files'[Quarantine[j]] = files[Quarantine[j]]
      BY <2>1 DEF Sidecars, Items
    <3>6. SidecarsFit'
      BY <1>1, <2>1, <3>2, <3>4, <3>5 DEF RestoreIInv, SidecarsFit, Exists
    <3>7. ~touched => Parted(op)'
      BY <1>1, <1>3, <1>13, <2>1, <3>5 DEF Parted, Exists
    <3>8. ~touched => Tells(op)' /\ Tells(command.op)'
      BY <1>1, <1>2, <1>8, <1>13, <3>3, <3>7 DEF Tells
    <3>9. StepsDone'
      BY <1>11, <1>13, <2>1, <3>3 DEF Exists
    <3> QED
      BY <1>1, <1>8, <1>13, <2>1, <3>3, <3>6, <3>8, <3>9, FilesMove
  <2> QED
    BY <2>2, <2>3
<1> QED
  <2>1. command.op.has[i] = op.has[i]
    BY <1>2
  <2> QED
    BY <1>6, <1>7, <1>12, <1>13, <2>1 DEF PutBack

-----------------------------------------------------------------------------
(* Recovery, kills and the service.                                        *)

\* A recovery that takes the operation on at a place of a phase.
LEMMA Taken ==
    ASSUME RestoreAssumption, RestoreIInv, OnlyCommand, Works \/ Fails, op.phase # "none",
           NEW at \in {"create", "verify"}, NEW p \in PhasesAt("recover", at), Takes(p, at),
           ~touched => Tells([op EXCEPT !.phase = p]),
           at = "verify" => p = op.phase /\ files["target"] = Source,
           p \notin {"NEW_INSTALLED", "VERIFIED", "COMMITTED"} \/ files["target"] = Source,
           at = "create" /\ p = "INSTALLING" =>
               /\ ~Exists("target") /\ \A i \in Sidecars : ~Exists(Canonical[i])
               /\ op.has["db"] => files["old"] = op.old
               /\ files["staged"] = Source,
           p = "ROLLED_BACK" => files["target"] = op.old,
           p = "FAILED_NEEDS_OPERATOR" => touched \/ errors' > 0
    PROVE  RestoreIInv'
<1>1. /\ UNCHANGED <<files, op, touched, operations, kills>>
      /\ partial' \in BOOLEAN /\ kills' \in 0 .. MaxKills
      /\ errors' \in 0 .. MaxErrors /\ (errors > 0 => errors' > 0)
  BY OnlyCommandFrame
<1>2. p \in Phases \ {"PREPARED"} /\ p # "none" /\ ManifestFits(op)
  BY DEF PhasesAt, Phases, RestoreIInv
<1>3. /\ command'.kind = "recover" /\ command'.at = at /\ command'.item = "db"
      /\ command'.op = [op EXCEPT !.phase = p]
      /\ command'.op.phase = p /\ command'.op.has = op.has /\ command'.op.old = op.old
      /\ at = "verify" => command'.op = op
  BY <1>2 DEF Takes, ManifestFits
<1>4. CommandFits'
  <2>1. command' \in [kind : {"restore", "recover"}, at : Places, item : Items,
                      op : [phase : Phases \cup {"none"}, has : [Items -> BOOLEAN],
                            old : Readable \cup {Absent}]]
    BY <1>2 DEF Takes, ManifestFits, Places, Items
  <2>2. ~ToPrepare' /\ at \notin RestorePlaces
    BY <1>2, <1>3 DEF ToPrepare, RestorePlaces
  <2> QED
    BY <1>1, <1>3, <2>1, <2>2 DEF CommandFits
<1>5. StepsDone'
  BY <1>1, <1>2, <1>3 DEF StepsDone, ToInstall, Exists, PhasesAt, Phases
<1>6. ManifestFits(command'.op)
  BY <1>2, <1>3 DEF ManifestFits
<1>7. ~touched => Tells(command'.op)
  BY <1>3
<1> QED
  BY <1>1, <1>3, <1>4, <1>5, <1>6, <1>7, CommandMoves

LEMMA BeginRecoveryKeeps ==
    ASSUME RestoreAssumption, RestoreIInv, BeginRecovery
    PROVE  RestoreIInv'
<1>1. /\ op.phase \in {"PREPARED", "QUARANTINING", "OLD_QUARANTINED", "INSTALLING", "NEW_INSTALLED",
                       "VERIFIED", "ROLLING_BACK"}
      /\ OnlyCommand
  BY DEF BeginRecovery, Phases, Terminal
<1>2. ManifestFits(op) /\ (~touched => Tells(op))
  BY DEF RestoreIInv
<1>3. ASSUME GivesUp, Works \/ Fails, touched \/ errors' > 0
      PROVE  RestoreIInv'
  <2>1. "FAILED_NEEDS_OPERATOR" \in PhasesAt("recover", "create")
    BY DEF PhasesAt, Phases
  <2>2. Tells([op EXCEPT !.phase = "FAILED_NEEDS_OPERATOR"])
    BY <1>2 DEF Tells, ManifestFits
  <2> QED
    BY <1>1, <1>3, <2>1, <2>2, Taken DEF GivesUp
<1>4. ASSUME TakesOn, Works, op.phase # "PREPARED"
      PROVE  RestoreIInv'
  <2>1. "ROLLING_BACK" \in PhasesAt("recover", "create")
    BY DEF PhasesAt, Phases
  <2>2. \A i \in Sidecars : Exists(Quarantine[i]) => op.has[i]
    BY DEF RestoreIInv, SidecarsFit
  <2>3. ~touched => Tells([op EXCEPT !.phase = "ROLLING_BACK"])
    BY <1>1, <1>2, <1>4, <2>2, RollbackTells
  <2> QED
    BY <1>1, <1>4, <2>1, <2>3, Taken DEF TakesOn
<1>5. ASSUME Takes(op.phase, "verify"), Works, files["target"] = Source,
             op.phase \in {"OLD_QUARANTINED", "INSTALLING", "NEW_INSTALLED", "VERIFIED"}
      PROVE  RestoreIInv'
  <2>1. op.phase \in PhasesAt("recover", "verify")
    BY <1>5 DEF PhasesAt
  <2>2. [op EXCEPT !.phase = op.phase] = op
    BY <1>2 DEF ManifestFits
  <2> QED
    BY <1>1, <1>2, <1>5, <2>1, <2>2, Taken
<1>6. CASE GivesUp /\ Fails
  <2>1. errors' > 0
    BY <1>6 DEF Fails, RestoreIInv, RestoreTypeOK, RestoreAssumption
  <2> QED
    BY <1>3, <1>6, <2>1
<1>7. CASE /\ op.phase = "PREPARED" /\ Works
           /\ IF CanonicalMatchesInitial THEN Takes("ROLLED_BACK", "create") ELSE GivesUp
  <2>1. CanonicalMatchesInitial <=> files["target"] = op.old
    BY <1>2 DEF CanonicalMatchesInitial, ManifestFits, Exists
  <2>2. ~touched => AsFound(op) /\ CanonicalMatchesInitial
    BY <1>2, <1>7, <2>1 DEF Tells, AsFound
  <2>3. CASE Takes("ROLLED_BACK", "create") /\ CanonicalMatchesInitial
    <3>1. "ROLLED_BACK" \in PhasesAt("recover", "create")
      BY DEF PhasesAt, Phases
    <3>2. ~touched => Tells([op EXCEPT !.phase = "ROLLED_BACK"])
      BY <1>2, <2>2 DEF Tells, AsFound, ManifestFits
    <3> QED
      BY <1>1, <1>7, <2>1, <2>3, <3>1, <3>2, Taken
  <2>4. CASE GivesUp /\ ~CanonicalMatchesInitial
    BY <1>3, <1>7, <2>2, <2>4
  <2> QED
    BY <1>7, <2>3, <2>4
<1>8. CASE op.phase \in {"QUARANTINING", "ROLLING_BACK"} /\ RecoverFromQuarantine /\ Works
  BY <1>4, <1>8 DEF RecoverFromQuarantine
<1>9. CASE op.phase \in {"OLD_QUARANTINED", "INSTALLING"} /\ RecoverInstall /\ Works
  <2>1. ~touched => QuarantineReady /\ ~Unreadable
    BY <1>2, <1>9, ContentsDiffer DEF Tells, AllOut, QuarantineReady, Unreadable, Sidecars, Exists
  <2>2. CASE GivesUp /\ (~QuarantineReady \/ Unreadable)
    BY <1>3, <1>9, <2>1, <2>2
  <2>3. CASE Takes("INSTALLING", "create") /\ QuarantineReady /\ ~Exists("target") /\ files["staged"] = Source
    <3>1. "INSTALLING" \in PhasesAt("recover", "create")
      BY DEF PhasesAt, Phases
    <3>2. \A i \in Sidecars : ~Exists(Canonical[i])
      BY <1>9, <2>3, ContentsDiffer DEF RestoreIInv, SidecarsFit, Parting, Exists
    <3>3. (op.has["db"] => files["old"] = op.old) /\ AllOut(op) /\ files["target"] = Absent
      BY <2>3, <3>2 DEF QuarantineReady, AllOut, Sidecars, Exists
    <3>4. Tells([op EXCEPT !.phase = "INSTALLING"])
      BY <1>2, <3>3 DEF Tells, AllOut, ManifestFits
    <3> QED
      BY <1>1, <1>9, <2>3, <3>1, <3>2, <3>3, <3>4, Taken
  <2>4. CASE Takes(op.phase, "verify") /\ files["target"] = Source
    BY <1>5, <1>9, <2>4
  <2>5. CASE TakesOn
    BY <1>4, <1>9, <2>5
  <2> QED
    BY <1>9, <2>2, <2>3, <2>4, <2>5 DEF RecoverInstall
<1>10. CASE op.phase \in {"NEW_INSTALLED", "VERIFIED"} /\ RecoverInstalled /\ Works
  <2>1. ~touched => QuarantineReady
    BY <1>2, <1>10 DEF Tells, AllOut, QuarantineReady, Sidecars
  <2> QED
    BY <1>3, <1>4, <1>5, <1>10, <2>1 DEF RecoverInstalled
<1> QED
  BY <1>6, <1>7, <1>8, <1>9, <1>10 DEF BeginRecovery

LEMMA KillKeeps ==
    ASSUME RestoreAssumption, RestoreIInv, Kill
    PROVE  RestoreIInv'
<1>1. kills' \in 0 .. MaxKills
  BY DEF Kill, RestoreIInv, RestoreTypeOK, RestoreAssumption
<1>2. partial' \in BOOLEAN /\ errors' \in 0 .. MaxErrors /\ (errors > 0 => errors' > 0)
  BY DEF Kill, RestoreIInv, RestoreTypeOK
<1> QED
  BY <1>1, <1>2, Ended DEF Kill

LEMMA ServiceRunsKeeps ==
    ASSUME RestoreAssumption, RestoreIInv, ServiceRuns
    PROVE  RestoreIInv'
<1>1. /\ command = NoCommand /\ touched' = TRUE
      /\ UNCHANGED <<op, partial, command, operations, errors, kills>>
  BY DEF ServiceRuns
<1>2. ContentsFit /\ SidecarsFit /\ OldFound /\ ManifestFits(op)
  BY DEF RestoreIInv
<1>3. ASSUME NEW written \in Readable \cup {Empty}, NEW wal \in Readable \cup {Absent},
             NEW shm \in Readable \cup {Absent},
             files' = [files EXCEPT !["target"] = written, !["targetWal"] = wal, !["targetShm"] = shm],
             files["target"] \in Readable =>
                 written \in Readable /\ written.root = files["target"].root
                 /\ written.revision >= files["target"].revision,
             wal # Absent => written \in Readable /\ written # Source /\ wal.root = written.root,
             shm # Absent => written \in Readable /\ written # Source /\ shm.root = written.root
      PROVE  RestoreIInv'
  <2>1. /\ files'["target"] = written /\ files'["targetWal"] = wal /\ files'["targetShm"] = shm
        /\ \A n \in Names \ {"target", "targetWal", "targetShm"} : files'[n] = files[n]
        /\ files' \in [Names -> Readable \cup {Absent, Empty, Torn}]
    BY <1>2, <1>3, NamesAre DEF ContentsFit
  <2>2. ContentsFit'
    BY <1>2, <2>1, ContentsDiffer DEF ContentsFit
  <2>3. files'["old"] = files["old"] /\ files'["oldWal"] = files["oldWal"] /\ files'["oldShm"] = files["oldShm"]
    BY <2>1, NamesAre
  <2>4. OldFound'
    <3>1. CASE op.has["db"] /\ ~Exists("old")
      <4>1. /\ files["target"] \in Readable /\ files["target"].root = op.old.root
            /\ files["target"].revision >= op.old.revision /\ op.old \in Readable
        BY <1>2, <3>1 DEF OldFound, ManifestFits
      <4> QED
        BY <1>1, <1>3, <2>1, <2>3, <3>1, <4>1 DEF OldFound, Exists, Readable
    <3> QED
      BY <1>1, <1>2, <2>3, <3>1 DEF OldFound, Exists
  <2>5. SidecarsFit'
    BY <1>1, <1>2, <1>3, <2>1, <2>3, NamesAre DEF SidecarsFit, Exists, Sidecars
  <2>6. CommandFits' /\ StepsDone'
    BY <1>1 DEF CommandFits, StepsDone, ToInstall, NoCommand, NoOperation
  <2>7. ManifestFits(op)' /\ ManifestFits(command.op)'
    BY <1>1 DEF RestoreIInv, ManifestFits
  <2>8. \A n \in Names : files'[n].root \in Roots \cup {"none", "empty", "torn"}
    BY <2>1 DEF Readable, Absent, Empty, Torn
  <2>9. RestoreTypeOK'
    BY <1>1, <2>1, <2>8 DEF RestoreIInv, RestoreTypeOK
  <2> QED
    BY <1>1, <2>2, <2>4, <2>5, <2>6, <2>7, <2>9 DEF RestoreIInv
<1>4. CASE OpensEmpty
  <2>1. files["target"] \notin Readable
    BY <1>4, ContentsDiffer DEF OpensEmpty
  <2>2. Database("new", 0) \in Readable
    BY DEF Database, Readable, Roots
  <2> QED
    BY <1>3, <1>4, <2>1, <2>2 DEF OpensEmpty
<1>5. CASE OpensDatabase
  <2> DEFINE target == files["target"]
  <2>1. target \in Readable
    BY <1>2, <1>5, NamesAre, ContentsDiffer DEF OpensDatabase, ContentsFit
  <2>2. PICK changes \in {0, 1}, left \in BOOLEAN :
          /\ target = Source => changes = 1
          /\ files' = [files EXCEPT !["target"].revision = @ + changes,
                         !["targetWal"] = IF left THEN Database(target.root, 0) ELSE Absent,
                         !["targetShm"] = IF left THEN Database(target.root, 0) ELSE Absent]
    BY <1>5 DEF OpensDatabase
  <2> DEFINE written == [target EXCEPT !.revision = target.revision + changes]
             sidecar == IF left THEN Database(target.root, 0) ELSE Absent
  <2>3. target.revision \in Nat /\ target.root \in Roots /\ target.revision + changes \in Nat
    BY <2>1 DEF Readable
  <2>4. /\ written \in Readable /\ written.root = target.root
        /\ written.revision = target.revision + changes
    BY <2>1, <2>3 DEF Readable
  <2>5. written # Source
    <3>1. CASE changes = 1
      <4>1. written.revision # 0
        BY <2>3, <2>4, <3>1
      <4> QED
        BY <4>1 DEF Source, Database
    <3>2. CASE changes = 0
      <4>1. written = target
        BY <2>1, <2>3, <3>2 DEF Readable
      <4> QED
        BY <2>2, <3>2, <4>1
    <3> QED
      BY <3>1, <3>2
  <2>6. sidecar \in Readable \cup {Absent} /\ (sidecar # Absent => sidecar.root = written.root)
    BY <2>3, <2>4 DEF Database, Readable
  <2>7. files' = [files EXCEPT !["target"] = written, !["targetWal"] = sidecar, !["targetShm"] = sidecar]
    BY <2>2
  <2>8. written.revision >= target.revision
    BY <2>3, <2>4
  <2> HIDE DEF written, sidecar
  <2>9. written \in Readable \cup {Empty} /\ sidecar \in Readable \cup {Absent}
    BY <2>4, <2>6
  <2>10. written.root = files["target"].root /\ written.revision >= files["target"].revision
    BY <2>4, <2>8
  <2> HIDE DEF target
  <2> QED
    BY <1>3, <2>4, <2>5, <2>6, <2>7, <2>9, <2>10
<1> QED
  BY <1>4, <1>5 DEF ServiceRuns

-----------------------------------------------------------------------------
(* The theorems.                                                           *)

LEMMA InitiallyFits ==
    ASSUME RestoreAssumption, RestoreInit
    PROVE  RestoreIInv
<1>1. /\ op = NoOperation /\ partial = FALSE /\ command = NoCommand
      /\ operations = 0 /\ touched = FALSE /\ errors = 0 /\ kills = 0
  BY DEF RestoreInit
<1>2. PICK present \in BOOLEAN, sidecars \in BOOLEAN :
          files = [n \in Names |->
                     IF present /\ (n = "target" \/ (sidecars /\ n \in {"targetWal", "targetShm"}))
                     THEN Database("first", 0) ELSE Absent]
  BY DEF RestoreInit
<1>3. /\ files \in [Names -> {Database("first", 0), Absent}]
      /\ \A n \in {"old", "oldWal", "oldShm", "staged", "failed"} : files[n] = Absent
      /\ \A n \in {"targetWal", "targetShm"} :
             files[n] # Absent => files[n] = Database("first", 0) /\ files["target"] = Database("first", 0)
  BY <1>2, NamesAre
<1>4. Database("first", 0) \in Readable /\ Database("first", 0) # Source
  BY DEF Database, Readable, Roots, Source
<1>5. ContentsFit
  BY <1>3, <1>4, ContentsDiffer DEF ContentsFit
<1>6. ManifestFits(NoOperation)
  BY DEF ManifestFits, NoOperation, Items, Phases, Absent, Readable, Roots
<1>7. SidecarsFit
  BY <1>3, <1>4, NamesAre DEF SidecarsFit, Sidecars, Exists
<1>8. OldFound
  BY <1>1, <1>3 DEF OldFound, Exists, NoOperation, Items
<1>9. CommandFits /\ StepsDone
  BY <1>1 DEF CommandFits, StepsDone, ToInstall, NoCommand, NoOperation
<1>10. Tells(NoOperation)
  BY DEF Tells, NoOperation
<1>11. \A n \in Names : files[n].root \in Roots \cup {"none", "empty", "torn"}
  BY <1>3 DEF Database, Roots, Absent
<1>12. RestoreTypeOK
  <2>1. op.phase = "none" /\ op.has \in [Items -> BOOLEAN] /\ DOMAIN files = Names
    BY <1>1, <1>3 DEF NoOperation
  <2>2. operations \in 0 .. OperationCap /\ errors \in 0 .. MaxErrors /\ kills \in 0 .. MaxKills
    BY <1>1 DEF RestoreAssumption
  <2>3. partial \in BOOLEAN /\ touched \in BOOLEAN
    BY <1>1
  <2> QED
    BY <1>11, <2>1, <2>2, <2>3 DEF RestoreTypeOK
<1> QED
  BY <1>1, <1>5, <1>6, <1>7, <1>8, <1>9, <1>10, <1>12 DEF RestoreIInv, NoCommand, NoOperation

LEMMA StutterKeeps ==
    ASSUME RestoreIInv, UNCHANGED restoreVars
    PROVE  RestoreIInv'
<1>1. /\ RestoreTypeOK' /\ ContentsFit' /\ ManifestFits(op)' /\ ManifestFits(command.op)'
      /\ SidecarsFit' /\ OldFound'
  BY DEF restoreVars, RestoreIInv, RestoreTypeOK, ContentsFit, ManifestFits, SidecarsFit, OldFound, Exists
<1>2. CommandFits'
  BY DEF restoreVars, RestoreIInv, CommandFits, ToPrepare
<1>3. StepsDone'
  BY DEF restoreVars, RestoreIInv, StepsDone, ToInstall, Exists, AsFound, AllOut, OldBack
<1>4. ~touched' => Tells(op)' /\ Tells(command.op)'
  BY DEF restoreVars, RestoreIInv, Tells, AsFound, AllOut, Parted, OldOut, OldBack, Exists
<1> QED
  BY <1>1, <1>2, <1>3, <1>4 DEF RestoreIInv, restoreVars

\* What manifests, commands and files always say of each other, in whichever
\* step restore or recovery failed or was killed.
THEOREM RestoreInductive ==
    ASSUME RestoreAssumption
    PROVE  RestoreSpec => []RestoreIInv
<1>1. RestoreInit => RestoreIInv
  BY InitiallyFits
<1>2. RestoreIInv /\ [RestoreNext]_restoreVars => RestoreIInv'
  <2> SUFFICES ASSUME RestoreIInv, [RestoreNext]_restoreVars
               PROVE  RestoreIInv'
    OBVIOUS
  <2>1. ASSUME CommandStep, command.kind # "none"
        PROVE  RestoreIInv'
    <3>1. PICK i \in Items : command.item = i
      BY <2>1 DEF RestoreIInv, CommandFits
    <3> QED
      BY <2>1, <3>1, CreatePartialKeeps, RenamePartialKeeps, SyncManifestKeeps, StageKeeps,
         PreparedKeeps, QuarantineItemKeeps, SyncQuarantineKeeps, QuarantinedKeeps,
         InstallStagedKeeps, SyncInstalledKeeps, VerifyKeeps, ExamineKeeps, PutBackKeeps, SettleKeeps
      DEF CommandStep
  <2>2. CommandStep => command.kind # "none"
    BY DEF CommandStep, CreatePartial, RenamePartial, SyncManifest, Stage, Prepared, QuarantineItem,
           SyncQuarantine, Quarantined, InstallStaged, SyncInstalled, Verify, Examine, PutBack,
           Settle, At
  <2>3. CASE RestoreNext
    BY <2>1, <2>2, <2>3, BeginRestoreKeeps, BeginRecoveryKeeps, KillKeeps, ServiceRunsKeeps
    DEF RestoreNext
  <2>4. CASE UNCHANGED restoreVars
    BY <2>4, StutterKeeps
  <2> QED
    BY <2>3, <2>4
<1> QED
  BY <1>1, <1>2, PTL DEF RestoreSpec

\* The database an operation found is canonical or in quarantine, whatever
\* failed and whatever the service did between the commands.
THEOREM OldDatabaseNeverLost ==
    ASSUME RestoreAssumption
    PROVE  RestoreSpec => []OldDatabaseKept
<1>1. RestoreIInv => OldDatabaseKept
  BY DEF RestoreIInv, OldFound, OldDatabaseKept
<1> QED
  BY <1>1, RestoreInductive, PTL

\* A WAL beside the canonical database is that database's own.
THEOREM WalOfItsOwnDatabase ==
    ASSUME RestoreAssumption
    PROVE  RestoreSpec => []WalOfItsDatabase
<1>1. RestoreIInv => WalOfItsDatabase
  <2> SUFFICES ASSUME RestoreIInv, Exists("targetWal"), IsDatabase(files["target"])
               PROVE  files["targetWal"].root = files["target"].root
    BY DEF WalOfItsDatabase
  <2>1. Exists("target")
    BY ContentsDiffer DEF Exists
  <2>2. "wal" \in Sidecars /\ Exists(Canonical["wal"])
    BY NamesAre DEF Sidecars
  <2> QED
    BY <2>1, <2>2, NamesAre DEF RestoreIInv, SidecarsFit
<1> QED
  BY <1>1, RestoreInductive, PTL

\* The manifest of a finished operation says what is there, unless the service
\* was started while the operation ran.
THEOREM ManifestsTellTruth ==
    ASSUME RestoreAssumption
    PROVE  RestoreSpec => []ManifestTellsTruth
<1>1. RestoreIInv => ManifestTellsTruth
  <2> SUFFICES ASSUME RestoreIInv, ~touched
               PROVE  /\ op.phase = "COMMITTED" /\ command = NoCommand =>
                            files["target"] = Source /\ ~Exists("targetWal") /\ ~Exists("targetShm")
                      /\ op.phase = "ROLLED_BACK" =>
                            /\ files["target"] = op.old
                            /\ \A i \in {"wal", "shm"} : op.has[i] <=> Exists(Canonical[i])
    BY DEF ManifestTellsTruth
  <2>1. op.phase = "COMMITTED" => AllOut(op) /\ files["target"] = Source
    BY DEF RestoreIInv, Tells
  <2>2. op.phase = "ROLLED_BACK" => AsFound(op)
    BY DEF RestoreIInv, Tells
  <2>3. AllOut(op) => ~Exists("targetWal") /\ ~Exists("targetShm")
    BY NamesAre DEF AllOut, Sidecars
  <2> QED
    BY <2>1, <2>2, <2>3 DEF AsFound, Sidecars
<1> QED
  BY <1>1, RestoreInductive, PTL

\* Kills alone, however many, never leave an operation to an operator.
THEOREM NoOperatorAfterKills ==
    ASSUME RestoreAssumption
    PROVE  RestoreSpec => []KillsNeedNoOperator
<1>1. RestoreIInv => KillsNeedNoOperator
  BY DEF RestoreIInv, KillsNeedNoOperator
<1> QED
  BY <1>1, RestoreInductive, PTL
=============================================================================
