------------------------------ MODULE MCSafety ------------------------------
(* Safety of the parts that share no state, for TLC: the power decision of   *)
(* the scheduler, the one-seg recording, the stream of a recording, the      *)
(* automatic reservations, the CtrlCmd server, the live relay, the HLS       *)
(* sessions with their cache and their segments, and the files of the        *)
(* database.  The variable part names the one that a behaviour is about; v1, *)
(* v2, ... are then its variables.                                           *)
EXTENDS Naturals

CONSTANTS
    Clients, Networks, Calls, Keys, Generations, Processes     \* see the modules

VARIABLES
    part,   \* the part that the behaviour is about
    \* its variables, by position
    v1, v2, v3, v4, v5, v6, v7, v8, v9, v10, v11, v12, v13, v14, v15, v16,
    v17, v18

\* Two slots and two reservations, the later one too near to sleep; one change.
Power == INSTANCE Scheduler WITH
    N <- 2, MaximumConcurrent <- 2, MaxTime <- 2, Starts <- {0, 2},
    Duration <- 1, Priorities <- {1}, Enabling <- {TRUE},
    Modes <- {"STANDBY"}, Requests <- {"STANDBY"},
    LateStartLimit <- 0,
    MinimumRunTime <- 1, MinimumIdle <- 2, WakeMargin <- 1, MaxChanges <- 1,
    MaxFaults <- 0, MayShutDown <- FALSE,
    now <- v1, pc <- v2, loop <- v3, active <- v4, pending <- v5,
    runs <- v6, registry <- v7, cancelled <- v8, halted <- v9,
    failed <- v10, wake <- v11, stopCalls <- v12, wakeCalls <- v13,
    stopping <- v14, power <- v15, changes <- v16, faults <- v17,
    rows <- v18

\* Two reservations that may ask for different power modes, far apart, and one slot.
Modes == INSTANCE Scheduler WITH
    N <- 2, MaximumConcurrent <- 1, MaxTime <- 3, Starts <- {0, 3},
    Duration <- 1, Priorities <- {1}, Enabling <- {TRUE},
    Modes <- {"STANDBY", "SHUTDOWN"},
    Requests <- {"STANDBY", "SHUTDOWN"}, LateStartLimit <- 0,
    MinimumRunTime <- 1, MinimumIdle <- 2, WakeMargin <- 1, MaxChanges <- 0,
    MaxFaults <- 0, MayShutDown <- FALSE,
    now <- v1, pc <- v2, loop <- v3, active <- v4, pending <- v5,
    runs <- v6, registry <- v7, cancelled <- v8, halted <- v9,
    failed <- v10, wake <- v11, stopCalls <- v12, wakeCalls <- v13,
    stopping <- v14, power <- v15, changes <- v16, faults <- v17,
    rows <- v18

\* Less than a packet, or a whole one; one crash, one failure and one change from
\* outside, of files in a month's directory that is new, which allows all that one
\* that was there before allows; MCProgress has the reconnection.
OneSeg == INSTANCE OneSeg WITH
    Packet <- 2, MaxBytes <- 2, ForeignSize <- 1, MaxReconnects <- 0,
    MaxCrashes <- 1, MaxFaults <- 1, MaxUserOps <- 1,
    att <- v1, main <- v2, one <- v3, dir <- v4, crashDirs <- v5,
    size <- v6, syncedSize <- v7, proc <- v8, pc <- v9, mem <- v10,
    cancelled <- v11, coord <- v12, aux <- v13, done <- v14, crashes <- v15,
    faults <- v16, userOps <- v17, month <- v18

\* Two programmes and rules with one of two conditions: both programmes match,
\* or the second only, whose title is the first one's.
Both == [matches |-> {1, 2}, resolves |-> {1, 2}, repeats |-> {}]
Repeat == [matches |-> {2}, resolves |-> {2}, repeats |-> {<<1, 2>>}]
Auto == INSTANCE AutoReservation WITH
    NPrograms <- 2, Passing <- {2}, Conditions <- {Both, Repeat},
    MaxRules <- 2, MaxNumber <- 2, MaxActive <- 1, MaxRows <- 2,
    MaxPerRun <- 1, MaxAutoFaults <- 0,
    rules <- v1, made <- v2, rows <- v3, matches <- v4, ahead <- v5,
    run <- v6, faults <- v7

\* Streams of four packets' length, of which two must follow each other.
Framing == INSTANCE TsFraming WITH
    PacketSize <- 2, Candidates <- 2, Capacity <- 5, MaxStream <- 8,
    stream <- v1, at <- v2, buffer <- v3, lost <- v4, packets <- v5,
    quality <- v6, status <- v7

\* A PAT that may name another table before the first one is complete.
Naming == INSTANCE TsFilter WITH
    Tables <- {"first", "second"}, Elementary <- {"caption"}, MaxHeld <- 3,
    MaxPackets <- 3, MaxKept <- 1, MaxConnections <- 1, MaxWriteFaults <- 1,
    required <- v1, filter <- v2, input <- v3, connection <- v4,
    stage <- v5, switch <- v6, writeFaults <- v7

\* A table, and an update of it with a packet in between.
Updating == INSTANCE TsFilter WITH
    Tables <- {"first"}, Elementary <- {"caption"}, MaxHeld <- 2,
    MaxPackets <- 5, MaxKept <- 1, MaxConnections <- 1, MaxWriteFaults <- 0,
    required <- v1, filter <- v2, input <- v3, connection <- v4,
    stage <- v5, switch <- v6, writeFaults <- v7

\* Two connections, each with its table.
Reconnecting == INSTANCE TsFilter WITH
    Tables <- {"first"}, Elementary <- {"caption"}, MaxHeld <- 2,
    MaxPackets <- 4, MaxKept <- 1, MaxConnections <- 2, MaxWriteFaults <- 1,
    required <- v1, filter <- v2, input <- v3, connection <- v4,
    stage <- v5, switch <- v6, writeFaults <- v7

\* Three clients for two handlers, one of which a live view may take.
Server == INSTANCE CtrlCmdServer WITH
    Conns <- Clients, MaxConnections <- 3, MaxHandlers <- 2, Sessions <- {1},
    conn <- v1, stalled <- v2, session <- v3, listens <- v4, serve <- v5,
    process <- v6

\* Two calls, of two managers or of one, compete for one stream.
Relay == INSTANCE LiveRelay WITH
    MaximumSessions <- 2, MaximumStreams <- 1, LastId <- 2,
    MaxSelections <- 2,
    next <- v1, byNetwork <- v2, byProcess <- v3, sel <- v4, toCancel <- v5,
    cancelled <- v6, call <- v7, active <- v8, stopping <- v9

\* One call, and more selections than process ids.
Ids == INSTANCE LiveRelay WITH
    MaximumSessions <- 2, MaximumStreams <- 1, LastId <- 2,
    MaxSelections <- 3, Calls <- {"one"},
    next <- v1, byNetwork <- v2, byProcess <- v3, sel <- v4, toCancel <- v5,
    cancelled <- v6, call <- v7, active <- v8, stopping <- v9

\* One screen that is selected twice and played under two keys, unread.
Screen == INSTANCE HlsSession WITH
    Slots <- {0}, MaxSelections <- 2, MaxTouches <- 0,
    slot <- v1, busy <- v2, sess <- v3, live <- v4, firing <- v5,
    keys <- v6, sessions <- v7, closed <- v8, closing <- v9, stopped <- v10

\* One session that is read, and its screen selected again.
Session == INSTANCE HlsSession WITH
    Slots <- {0}, Keys <- {"key"}, MaxSelections <- 2, MaxTouches <- 2,
    slot <- v1, busy <- v2, sess <- v3, live <- v4, firing <- v5,
    keys <- v6, sessions <- v7, closed <- v8, closing <- v9, stopped <- v10

\* Two generations whose segments reach each of the three limits.
Cache == INSTANCE HlsCache WITH
    MaxSequence <- 2, Sizes <- {1, 2}, SegmentBytes <- 1, SessionBytes <- 2,
    TotalBytes <- 3, CleanupEntries <- 5, MaxReaders <- 2, MaxFaulty <- 1,
    process <- v1, gen <- v2, segs <- v3, total <- v4, dirs <- v5,
    disk <- v6, faulty <- v7

\* Two or three segments fill the window.
Retention == INSTANCE HlsRetention WITH
    MaximumWindow <- 3, MinimumWindow <- 2, Durations <- {1, 2},
    MaxSegments <- 4, MaxVersion <- 2,
    playlist <- v1, terminal <- v2, retained <- v3, listed <- v4,
    promised <- v5, shutdown <- v6

\* Two operations, of which two commands are killed and one fails.
Restore == INSTANCE DatabaseRestore WITH
    OperationCap <- 2, MaxKills <- 2, MaxErrors <- 1, MaxRevision <- 1,
    files <- v1, op <- v2, partial <- v3, command <- v4, operations <- v5,
    touched <- v6, errors <- v7, kills <- v8

\* More backups are begun than may be kept.
Upgrade == INSTANCE DatabaseUpgrade WITH
    Current <- 2, MaxCompleted <- 2, MaxEntries <- 4, MaxBackups <- 3,
    MaxFaults <- 2,
    schema <- v1, raised <- v2, owner <- v3, writers <- v4, proc <- v5,
    begun <- v6, entries <- v7, durable <- v8, content <- v9, faults <- v10

ASSUME SafetyAssumption ==
    /\ Power!TimeAssumption /\ Power!IdAssumption /\ Power!SchedulerAssumption
    /\ Modes!TimeAssumption /\ Modes!IdAssumption /\ Modes!SchedulerAssumption
    /\ OneSeg!OneSegAssumption /\ Framing!FramingAssumption
    /\ Naming!FilterAssumption /\ Updating!FilterAssumption
    /\ Reconnecting!FilterAssumption
    /\ Auto!AutoAssumption /\ Server!ServerAssumption
    /\ Relay!LiveAssumption /\ Ids!LiveAssumption
    /\ Screen!HlsAssumption /\ Session!HlsAssumption
    /\ Cache!CacheAssumption /\ Retention!RetentionAssumption
    /\ Restore!RestoreAssumption /\ Upgrade!UpgradeAssumption

-----------------------------------------------------------------------------
\* The variables that a part does not use.
After6 == <<v7, v8, v9, v10, v11, v12, v13, v14, v15, v16, v17, v18>>
After7 == <<v8, v9, v10, v11, v12, v13, v14, v15, v16, v17, v18>>
After8 == <<v9, v10, v11, v12, v13, v14, v15, v16, v17, v18>>
After9 == <<v10, v11, v12, v13, v14, v15, v16, v17, v18>>
After10 == <<v11, v12, v13, v14, v15, v16, v17, v18>>

Unused10 == v11 = 0 /\ v12 = 0 /\ v13 = 0 /\ v14 = 0 /\ v15 = 0 /\ v16 = 0 /\ v17 = 0 /\ v18 = 0
Unused9 == v10 = 0 /\ Unused10
Unused8 == v9 = 0 /\ Unused9
Unused7 == v8 = 0 /\ Unused8
Unused6 == v7 = 0 /\ Unused7

Init ==
    \/ part = "power" /\ Power!Init
    \/ part = "modes" /\ Modes!Init
    \/ part = "oneseg" /\ OneSeg!Init /\ v18 = "new"
    \/ part = "framing" /\ Framing!FramingInit /\ Unused7
    \/ part = "naming" /\ Naming!FilterInit /\ Unused7
    \/ part = "updating" /\ Updating!FilterInit /\ Unused7
    \/ part = "reconnecting" /\ Reconnecting!FilterInit /\ Unused7
    \/ part = "auto" /\ Auto!AutoInit /\ Unused7
    \/ part = "server" /\ Server!ServerInit /\ Unused6
    \/ part = "relay" /\ Relay!Init /\ Unused9
    \/ part = "ids" /\ Ids!Init /\ Unused9
    \/ part = "screen" /\ Screen!SessionInit /\ Unused10
    \/ part = "session" /\ Session!SessionInit /\ Unused10
    \/ part = "cache" /\ Cache!CacheInit /\ Unused7
    \/ part = "retention" /\ Retention!RetentionInit /\ Unused6
    \/ part = "restore" /\ Restore!RestoreInit /\ Unused8
    \/ part = "upgrade" /\ Upgrade!UpgradeInit /\ Unused10

Next ==
    /\ UNCHANGED part
    /\ \/ part = "power" /\ Power!Next
       \/ part = "modes" /\ Modes!Next
       \/ part = "oneseg" /\ OneSeg!OneSegNext
       \/ part = "framing" /\ Framing!FramingNext /\ UNCHANGED After7
       \/ part = "naming" /\ Naming!FilterNext /\ UNCHANGED After7
       \/ part = "updating" /\ Updating!FilterNext /\ UNCHANGED After7
       \/ part = "reconnecting" /\ Reconnecting!FilterNext /\ UNCHANGED After7
       \/ part = "auto" /\ Auto!AutoNext /\ UNCHANGED After7
       \/ part = "server" /\ Server!ServerNext /\ UNCHANGED After6
       \/ part = "relay" /\ Relay!Next /\ UNCHANGED After9
       \/ part = "ids" /\ Ids!Next /\ UNCHANGED After9
       \/ part = "screen" /\ Screen!SessionNext /\ UNCHANGED After10
       \/ part = "session" /\ Session!SessionNext /\ UNCHANGED After10
       \/ part = "cache" /\ Cache!CacheNext /\ UNCHANGED After7
       \/ part = "retention" /\ Retention!RetentionNext /\ UNCHANGED After6
       \/ part = "restore" /\ Restore!RestoreNext /\ UNCHANGED After8
       \/ part = "upgrade" /\ Upgrade!UpgradeNext /\ UNCHANGED After10

vars == <<part, v1, v2, v3, v4, v5, v6, v7, v8, v9, v10, v11, v12, v13, v14,
                v15, v16, v17, v18>>
Spec == Init /\ [][Next]_vars

-----------------------------------------------------------------------------
\* The inductive invariant of each component that is proved about, which includes
\* its types, on one of its instances, and the types on the others.
IInv ==
    /\ part = "power" => Power!IInv
    /\ part = "modes" => Modes!TypeOK
    /\ part = "oneseg" => OneSeg!OneSegIInv
    /\ part = "framing" => Framing!FramingIInv
    /\ part = "naming" => Naming!FilterIInv
    /\ part = "updating" => Updating!FilterIInv
    /\ part = "reconnecting" => Reconnecting!FilterIInv
    /\ part = "auto" => Auto!AutoIInv
    /\ part = "server" => Server!ServerIInv
    /\ part = "relay" => Relay!IInv
    /\ part = "ids" => Ids!TypeOK
    /\ part = "screen" => Screen!SessionTypeOK
    /\ part = "session" => Session!SessionIInv
    /\ part = "cache" => Cache!CacheIInv
    /\ part = "retention" => Retention!RetentionTypeOK /\ Retention!RetentionIInv
    /\ part = "restore" => Restore!RestoreIInv
    /\ part = "upgrade" => Upgrade!UpgradeIInv

\* The machine sleeps only with no recording left, and never past a reservation.
SleepsOnlyWhenFree ==
    [][/\ part = "power" => Power!SleepIsFree
       /\ part = "modes" => Modes!SleepIsFree]_vars

\* The one-seg file is published only after the main one; the attempt ends only
\* after the one-seg helper has closed stream and file, and leaves no one-seg
\* row open; a row that says final tells the truth, also after a power loss; and
\* a start never fails on a one-seg row that the program stored.
OneSegFollowsMain ==
    part = "oneseg" =>
        /\ OneSeg!PublishedAfterMain /\ OneSeg!HelperJoinedFirst
        /\ OneSeg!TerminalSettlesBoth /\ OneSeg!FinalOneSegDurable
        /\ OneSeg!RestartAcceptsRow
\* Whatever happens to the one-seg file, a completed main file stays (OSG-017),
\* and a start of the service leaves nothing of the attempt open.
MainStands == [][part = "oneseg" => OneSeg!MainKept /\ OneSeg!StartIsSettled]_vars

\* QRC-002: the packets of a recording do not depend on how reads cut the
\* stream, and every byte is in a packet or counted.  QRC-003: whatever is held
\* back, packets are written once and in order; what is left out is what the
\* table of its time drops; an original table never follows the one that
\* replaces it; and after the fallback nothing that can be read is left out.
StreamFaithful ==
    /\ part = "framing" => Framing!SplitAlike /\ Framing!BytesExplained
    /\ part = "naming" => Naming!FilterFaithful
    /\ part = "updating" => Updating!FilterFaithful
    /\ part = "reconnecting" => Reconnecting!FilterFaithful

\* BAR-008: an automatic reservation is the first one of its programme.  It is
\* entered under the rule that the run judged it by, and a run disables waiting
\* automatic reservations only (ARTD-009).
AutomaticSound ==
    [][part = "auto" =>
          Auto!AutomaticIsFirst' /\ Auto!EnteredForRule /\ Auto!DisablesItsOwn]_vars

\* When main has waited for the CtrlCmd server, no connection is served any more.
NothingAfterWait == part = "server" => Server!NothingAfterWait

\* The provider adapter counts exactly the streams that are held; the two
\* tables of a live manager hold the same selections, within the limit; a live
\* session in use has a call that will give it back; a stream whose selection
\* is gone is cancelled, or about to be; and one process id is one stream (CLR-008).
LiveSound ==
    /\ part = "relay" => Relay!LiveSound /\ Relay!OpenedOnce
    /\ part = "ids" => Ids!LiveSound

\* What the live manager keeps for a screen belongs to somebody; an HLS session
\* that was not stopped keeps its stream (KHL-018); a screen's next session
\* begins after its earlier worker is through; and when the controller's close
\* has returned, nothing is left.
HlsSessionsSound ==
    /\ part = "screen" => Screen!SessionsSound
    /\ part = "session" => Session!SessionsSound
\* No timer of HLS acts too early, also one that was stopped too late: an idle
\* timer stops a session only if nobody read it, and a segment can be read for as
\* long as a playlist promised, whatever the cache fails to remove afterwards.
HlsTimersDue ==
    [][/\ part = "session" => Session!IdleStopIsDue
       /\ part = "retention" => Retention!StaysReadable]_vars

\* The cache counts the bytes it holds, stays within the limit of all
\* generations, keeps a file for its readers, and leaves or refuses nothing that
\* it does not know.  A segment is there as long as the playlists given out
\* promise, and has its timer once no playlist shows it.
HlsFilesSound ==
    /\ part = "cache" =>
          /\ Cache!BytesCounted /\ Cache!DiskWithinLimit /\ Cache!ReadersKeepFiles
          /\ Cache!NothingUnknown /\ Cache!CleanupTakesItsOwn
    /\ part = "retention" => Retention!PromiseKept /\ Retention!NothingForgotten

\* Until a restore is committed, the database that was there can be put back; a
\* database never meets the write-ahead log of another one; the manifest agrees
\* with the files when no command runs; and kills alone never make a restore
\* need its operator.  Only the owner of the lock writes the database; a backup's
\* manifest survives only with its database; and the schema is raised only after
\* a backup of what was there.
DatabaseFilesSound ==
    /\ part = "restore" =>
          /\ Restore!OldDatabaseKept /\ Restore!WalOfItsDatabase
          /\ Restore!ManifestTellsTruth /\ Restore!KillsNeedNoOperator
    /\ part = "upgrade" =>
          /\ Upgrade!OneWriter /\ Upgrade!ManifestHasDatabase /\ Upgrade!RaisedHasBackup
=============================================================================
