# A TLA+ model of sazanami-dvr

sazanami-dvr is a television recorder: it synchronises a programme guide from a
Mirakurun provider into SQLite, keeps reservations there, records streams into a
directory, publishes each file under its final name, and serves reservations,
recordings and live streams to CtrlCmd and HTTP clients. This directory holds
the specifications of it, the TLC configurations that check them, and TLAPS
proofs about the recorder and its one-seg file, the framing and filter of the
recorded stream, the scheduler, the catalogue, the
automatic reservations, the live relay, HLS with its cache and retention, the
CtrlCmd server and the restore and upgrade of the database.
`PROJECT.json` lists the runs, the mutants that show each property can fail, the source lines behind
each definition, the findings, the hazards and the theorems.

Run a configuration with `tlc -config Recording_safety.cfg Recording`, the proofs
with `tlapm RecordingProofs.tla`.

## 1. Inventory

| Component | Source (under `internal/`) | State | Operations | What makes it hard, and what makes it correct |
|---|---|---|---|---|
| Recording executor | `app/recording/executor.go` | locals of one goroutine | claim, miss, create, open/reconnect, copy, progress, seal, publish, finish | a stop, a shutdown or an error between any two steps; one result that fits rows and file |
| Recording rows | `adapters/sqlite/recording_*repository.go`, migration 0015 | reservation, attempt, segments | compare-and-set transactions, update trigger | races with the stop; no row may block the next start |
| Recording directory | `adapters/recordingfs/store.go` | partial and final name, bytes, the month's directory | create, write, sync, link, sync directory, remove | power loss, foreign files; nothing of others is replaced |
| Recovery | `app/recording/recovery.go` | the row it works on | settle an interrupted attempt, finish a publication, check completed ones | may itself die at any step; always converges |
| Reconciler | `app/recording/reconciler.go` | an observation | inspect, update | the observation may be stale |
| Scheduler | `app/recording/scheduler.go`, `stop_registry.go` | active count, power candidate, channels, registry | expire, read, wait, claim, miss, start, collect, sleep, drain | unbuffered and one-token channels, limits, lost wake-ups |
| Reservation service | `app/recording/reservations.go` | none | add, change, delete, then notify | commit and notification are two steps |
| One-seg | `app/recording/executor_oneseg.go` | auxiliary goroutine, second segment | start, copy, join, publish, finish | two files and one attempt; the second must not harm the first |
| Follow | `app/recording/follow.go` | a page | move reservations after catalogue changes | partial passes, stale pages, running recordings |
| Catalogue | `app/catalogsync`, `catalogrefresh`, `cataloggc`, `adapters/sqlite/catalog_*.go` | generations, revisions, holder | sync, complete, fail, publish, prune | a failing or dying sync; old rows that somebody still uses |
| Automatic reservation | `app/autoreservation`, `core/autoreservation` | rules, matches | evaluate, create, disable | limit per run, duplicates over runs, edits in between |
| Live relay and streams | `app/liverelay`, `adapters/provider/mirakurun/stream.go` | selections, leases, count | select, open, copy, close, expire | open outside the lock, limits |
| HLS | `adapters/recordinghttp/hls_*.go` | slots, sessions, segments, timers, files | select, start, write, publish, retire, idle stop, close | timers of an earlier epoch, readers of retired files |
| CtrlCmd | `app/ctrlcmd`, `adapters/ctrlcmd` | connections, handlers | accept, read, handle, relay, wait | two limits, long-lived relays, shutdown |
| Database files | `adapters/sqlite/{store,owner_lock,backup,restore,migration}.go` | files, manifests, lock | open, close, backup, restore, recover, migrate | a kill between any two file operations |
| TS filter | `app/recording/ts_*.go`, `mpegts/` | framer's buffer, table collectors, held packets, fallback | split, discover, hold, replay, update, fall back, finish, reconnect | reads cut anywhere, tables that come late, broken or changed; every packet once, and selected by the table of its time |
| Process | `cmd/sazanami-dvr/main.go` | contexts | recover, start, shut down | order of start and end |

They interact like this. `main` runs the recovery to its end before anything
else starts. `Scheduler.Run` is one goroutine that reads reservations and starts
one goroutine for each recording; these report on one channel. Handlers of the
reservation service change rows in transactions and afterwards call `OnAdded`
(the wake channel) or `OnStop` (the stop registry, which cancels the recording's
context). The executor talks to the rows and to the directory, starts a helper
for the one-seg file, and the reconciler later compares rows and directory. One
goroutine repeats the catalogue refresh: prune, synchronise, publish to the
holder, follow, evaluate the automatic reservations. CtrlCmd and HLS each have a
live relay manager over one stream adapter. All writers share one SQLite
connection; who may open it is decided by a lock file.

The hazards that follow from this, each at its line, are in `PROJECT.json`.

## 2. Modules

**Recording**

* **`AttemptStore`** - the rows of one reservation (`resv`), its attempt (`att`)
  and its main segment (`seg`), and one operator for each repository method. An
  operator holds exactly when the method commits. The `BEFORE UPDATE` trigger is
  `TriggerAllows`; the compare-and-set that turns a plan into a user stop is
  `ResolvedPlan`. Byte counts stay numbers because one packet and whole packets
  matter.
* **`RecordingFiles`** - the two names of a recording (`dir`), the directory
  states that a power loss may leave (`crashDirs`), written and synchronised
  bytes. `LinkFinal` is the rename without replacement. `month` is the directory
  that holds the names: `ensureDirectory` makes it for the first recording of a
  month and nothing synchronises it into its parent, so that a power loss may take
  a `"new"` one with all that is in it. One that a power loss left is `"kept"`.
* **`Recording`** - composes the two with the goroutine of `executor.go`, the
  process (shutdown, exit on an error, death, power loss, restart), `recovery.go`,
  `reconciler.go` and the user. `pc` names the next transaction or file operation;
  a step is one of them with the computation around it. Any operation may fail,
  also after its effect where the code checks afterwards. Whether a planned end,
  a reconnection limit in time or the first second has passed is a choice.
* **`RecordingPromise`** - what a reservation's owner may rely on, without
  processes and files: at most one recording, a result decided before anything
  is published, a stop that excludes success, a settled result that stays.
* **`RecordingProofs`** - theorems about the rows and the control of `Recording`,
  that it implements `RecordingPromise`, and about its files.
* **`OneSeg`** - the second file of a recording, over a second `RecordingFiles`
  state. Of the main recording it keeps what the one-seg side sees: the reason
  it ends for, whether its file is useful, and whether it was published. The
  store wrapper `oneSegAttemptStore` puts the join before `BeginFinalization` and
  the one-seg publication behind `MarkDirectorySynced`; the helper is `aux` with
  its result on the channel `done`. Recovery handles both segments.
* **`TsFraming`** - the framer's loop over three kinds of bytes (`sync`, `header`:
  what a header can go on with, `bad`: what it cannot), fed in any cuts. The reference `Framed` says of a whole stream at once
  which packets it has, without a loop and without cuts.
* **`TsFilter`** - the component filter over classes of packets: discovery of the
  tables, what is held until one is complete, its replay with the new table in
  place, updates, and the fallback that keeps everything. A collector of a table
  is fresh, waiting, idle or inside a section; what a packet does to it depends
  on its bytes and is a choice. Connections end in order or not, writes fail,
  and the next connection goes on with the same file. `switch` records where the
  fallback began; from then on the tables serve the quality only and are left out.
* **`CaptureProofs`** - theorems about `OneSeg`. **`StreamProofs`** - theorems about
  `TsFraming` and `TsFilter`.
* **`Reservations`** - the rows of several reservations with their times,
  priorities, versions and the queries of the scheduler.
* **`Scheduler`** - `Scheduler.Run` statement by statement where the order
  matters, the goroutines as claimed / running / ended / sending / received, both
  channels, the registry with its limit, the power decision, and handlers whose
  commit and notification are two steps. What a recording does inside is
  `Recording`'s business.
* **`SchedulerProofs`** - theorems about `Scheduler`.

**Catalogue and what follows from it**

* **`CatalogueStore`** - generations (synchronisations with a state and times),
  what each observed, instances and numbered revisions, and the statements of
  `catalog_repository.go` and `catalog_retention.go` on them. `StoreAgainst`
  classifies an observation against the last completed generation as NEW, SAME,
  VERIFIED_SUCCESSOR or AMBIGUOUS.
* **`Catalogue`** - the refresh goroutine over it (prune in batches, page by page
  synchronisation against a provider that may answer differently each time,
  publication to the holder, the follow pass), beside users, recordings that are
  claimed, requests that read the generation the holder names, failures, and the
  death and start of the process. `MCCatalogue` gives the provider's answers.
* **`CatalogueProofs`** - theorems about `Catalogue`.
* **`AutoReservation`** - rules with their numbers, matches, reservations of a
  programme, and one evaluation: the set of rules is read first, then programmes
  come in cursor order, with creation and disabling in a transaction each. Users
  edit beside it.

**Viewing**

* **`LiveRelay`** - the two managers of `liverelay/manager.go` over the one live
  stream adapter they share. What a manager does under its lock is one step;
  between these lie the opening of the stream, the cancelling of what was
  removed, and the two users of a lease, `Copy` and `Close`.
* **`HlsSession`** - slots with their lock, selections and their timer, the start
  of a session up to each of its failures, the worker, idle timers with epochs,
  callbacks that were already running when their timer was stopped, and `close`.
* **`HlsCache`** - generations and segments as names on disk, bytes against the
  three limits, readers, retirement, and the cleanup of a dead process's files up
  to its limit of names. Each file operation may fail, also after it changed the
  directory: `begin` and `create` may leave what nobody knows, the rollback of
  `publish` a second or a final name, a removal the file or the empty directory.
  `faulty` records the generations that this happened to.
* **`HlsRetention`** - the playlist's window, what a player that was given a
  playlist may still ask for (`promised`), versioned retention timers, removals
  that the cache fails on, and the part of `close` that stops the timers.
* **`CtrlCmdServer`** - where each connection is in `serveConnection`, clients
  that stall, the live sessions they select and relay, and the end of the service.
* **`ServingProofs`** - theorems about `LiveRelay`, `CtrlCmdServer` and
  `AutoReservation`.
* **`HlsProofs`** - theorems about `HlsSession`, `HlsCache` and `HlsRetention`.

**Database files**

* **`DatabaseRestore`** - the files of a data root (canonical, WAL, staged,
  quarantined), the operation manifest with its partial file, one command at a
  time with one step for each file operation, kills, errors, and starts of the
  service between commands.
* **`DatabaseUpgrade`** - processes on one data root, the owner lock and who has
  the database open, backups name by name with what is durable, migrations.
* **`DatabaseProofs`** - theorems about `DatabaseRestore` and `DatabaseUpgrade`.

**For TLC**

* **`MCSafety`, `MCProgress`** - the parts that share no state in one state graph
  each. The variable `part` is chosen initially and never changes; `v1`, `v2`, ... are then the variables of that part's instance. A behaviour of the sum is
  exactly a behaviour of one part, so that a property of the sum
  (`part = "cache" => Cache!BytesCounted`) is the part's own property. The
  assumptions on the parts' constants are checked there.

A property that is a conjunction has one question and several named parts; the
parts stand in the component's module, and a violation shows which one fails.

In these modules operators named after a fault ("a faulty ...") are the
mutants; no action uses them.

## 3. Runs

| Run | Shows |
|---|---|
| `rec_safety` | with two deaths or power losses, one fault and one outside change: `RecoveryNeverRefuses`, `StopDecidesPlan`, `FinalFilesSound` (`FinalNameIsSealed`; `PublishedIsDurable`, for as long as the month's directory is there), `ForeignFileKept`, the inductive `IInv` of rows and files (with the types); `KeepsPromise`: `Recording` implements `RecordingPromise` |
| `rec_live` | `RowMatchesFiles`, `StopHonoured` without any fairness of stream or notification, `Settles`, `AvailabilityConverges` |
| `rec_restart` | violated: a stop stored before a restart is not kept |
| `sched_live` | `ActiveWithinLimit`, `RegistryAccepts`, `AttemptOwned`; `DueIsHandled`: no lost wake-up; `RunReturns`: no goroutine or loop waits for ever |
| `sched_stop` | violated: one stop can end all recordings |
| `sched_slot` | violated: back-to-back recordings at the limit |
| `cat_refresh` | `StoreSound`: a sweep leaves what is reserved or read (`RefsExist`, `FoundStays`, `SweptInstancesStorable`), a start finds services (`StartFindsServices`); the inductive `IInv` (with the types); `GenerationsWhole`: only whole synchronisations complete and what is served stays (`OnlyWholeCompletes`, `ServedIsKept`); what is shown of an event changes only to a verified successor (`ShownChangesAreVerified`); the follow pass respects users (`MoveRespectsUser`) and ends in agreement (`FollowSound`: `RowsAgree`, `PassLeavesNoneBehind`, `MovedIsNotified`) |
| `cat_follow` | violated: a reservation follows a revision that nobody verified |
| `hls_close` | violated: `close` can wait for a worker that never runs |
| `restore_recover` | violated: a killed restore can block its own recovery |
| `parts_safety` | scheduler: `SleepsOnlyWhenFree`; one-seg: `OneSegFollowsMain` (`PublishedAfterMain`, `HelperJoinedFirst`, `TerminalSettlesBoth`, `FinalOneSegDurable`, `RestartAcceptsRow`), `MainStands`; TS: `StreamFaithful` (`SplitAlike`, `BytesExplained`, `OnceInOrder`, `SelectedByTable`, `TableReplaced`, `FallbackKeepsAll`); automatic reservations: `AutomaticSound` (`AutomaticIsFirst`, `EnteredForRule`, `DisablesItsOwn`); server: `NothingAfterWait`; live relay: `LiveSound` (`StreamsCounted`, `TablesAgree`, `SessionOwned`, `UnlistedIsCancelled`, `OpenedOnce`); HLS: `HlsSessionsSound` (`UseOwned`, `LeaseKept`, `WorkersAlone`, `ClosedIsQuiet`), `HlsFilesSound` (`BytesCounted`, `DiskWithinLimit`, `ReadersKeepFiles`, `NothingUnknown`, `CleanupTakesItsOwn`, `PromiseKept`, `NothingForgotten`), `HlsTimersDue` (`IdleStopsUnread`, `PromisedStaysReadable`); files: `DatabaseFilesSound` (`OldDatabaseKept`, `WalOfItsDatabase`, `ManifestTellsTruth`, `KillsNeedNoOperator`, `OneWriter`, `ManifestHasDatabase`, `RaisedHasBackup`); `IInv`: the inductive invariants of scheduler, one-seg, automatic reservations, relay, server, HLS sessions, cache and retention, restore and upgrade, framer and filter |
| `parts_progress` | `RecordingEnds`, `AutomaticSettles` (a wanted programme is reserved, a repeat disabled), `ServerSettles` (clients cannot stay, relays leave room, the wait returns), `StreamsEnd`, `SessionsEnd`, `RecoveryEnds`, and `PassEnds` (a refresh pass ends, also when synchronisations fail or the process dies) |

**Bounds.** `Packet = 2` and `MaxBytes = 3` give the sizes nothing, less than a
packet, one packet, and not a multiple of it; `ForeignSize` makes a foreign
file's size agree with a recording's. `MaxReconnects = 1` has a first, a last and
a refused reconnection. Two crashes allow a death of the recovery of a death; one
fault and one outside change fall on every step. In `sched_live` two
reservations that ask for a power mode, and may be changed or deleted once,
compete for one slot; of the parts `power` and `modes` of `MCSafety` the one has two
slots, one change and a next reservation too near for a sleep, the other one slot,
two power modes and a next reservation far enough away. A recording of a reservation that
asks for a mode may end without it, so that one that asks for none adds nothing.
All reservations have one priority.

`cat_refresh` has one event with three contents (two within the shift a
successor may have, one beyond), a provider that omits it or garbles it, four
generations of which two are protected, batches and pages of one row, one
reservation, one fault or crash, and two operations of users and recordings.
A pass is short for the clock, which moves between passes and never back, and a
request meets at most one such step; margins are zero. Two generations more
than are protected make a sweep take one whose successor is the served one.
`PassEnds` is checked in `parts_progress` with three generations, so that one is
swept in several batches, and one operation, which makes a reservation to page over.

In `MCSafety` the instances are as small as the cases need: two selections more
than one stream and two process ids admit in the relay (ids come back); two HLS
keys on one screen, so that a start replaces a session, and one key with reads;
two cache generations of two segments whose sizes meet the segment's, the
session's and the total limit, of which one may have failing file operations, as
many as it likes (`MaxFaulty = 1`), with a cleanup that takes five names
(`CleanupEntries`; two generations may leave six); four segments for a window of
two or three; two programmes and two rules of which one marks the other's title as a repeat, with
one new reservation per run; three clients for two handlers; two restore
operations, two kills, one error; three backups where two may be kept, and two
processes. The one-seg recording of `MCSafety` has one crash, one failure and one outside change in a
month's directory that is new (a power loss keeps it or takes it), that of
`MCProgress` a reconnection and directories of both kinds; the theorems about it
hold with any number of each. In `MCProgress` clients are interchangeable and so are
calls: a property states what it says of the first.

The framer there has packets of two bytes, two candidates and a buffer of five,
and streams of up to eight, so that a false marker, a loss of synchronisation and
a full buffer all occur in one stream and at each cut. The filter has three to
five packets, two or three that may be held, one more after the fallback, and a
second connection in one instance; `MCSafety` names the four instances and what
each adds.

Deadlock is not checked where a bound ends the system (clocks, counts of
selections and kills) or where it may stop because everything has ended.

**Fairness.** `Progress` of `Recording` says that goroutine, recovery and
supervisor go on; that a copy reaches its next progress interval is justified by
the read deadline of the stream and by the five seconds of `progressInterval`.
`StreamFairness` (a copy reaches its planned end) is only an assumption of
`Settles`, so that `StopHonoured` does without it. The reconciler runs on a
timer. Nothing is assumed of users, notifications, faults and crashes; these are
bounded, so that liveness is about behaviours in which they eventually stop.

* `Scheduler`: handlers that committed go on to notify, time passes, and a
  recording that reached its planned end or whose context is cancelled ends.
* `Catalogue`: the steps of a pass go on and each provider call has a time limit.
* `OneSeg`: recorder, restart, recovery and helper go on; a copy ends because
  its lease is read with a deadline and its planned end is tested before a read.
* `AutoReservation`: a refresh comes again and an evaluation goes on.
* `CtrlCmdServer`: `SetDeadline` bounds header, body and answer, a relay's write
  has `LongWriteTimeout` and its read ten idle seconds, so that a stalled client
  of a silent stream is let go too; a relay whose session or service is over
  returns. Clients need do nothing.
* `LiveRelay`: goroutines go on, `Read` returns once its context is cancelled,
  and both callers of `Open` close the relay when `Copy` returns.
* `HlsSession`: requests, workers and `close` go on, a worker whose context is
  cancelled or stream closed ends, and timers that are set fire.
* `DatabaseRestore`: a command goes on and an operator begins a recovery.

In `MCProgress` the fairness of a part is the hypothesis of that part's
properties (`ServerFairness => ...`), which says the same as a specification with
it, because the other parts' fairness is vacuous where `part` names another.

## 4. What the checks found

* **A stop does not survive a restart** (`rec_restart`). The specification of
  user stops wants every restart after the stored request to end as
  `PARTIAL/USER_REQUESTED_STOP`. `interruptedMainResult` does not read the
  request; a death before `BeginFinalization` gives `PROCESS_INTERRUPTED`.
* **A stop is not confined to its recording** (`sched_stop`). `StartAttempt` and
  `RecordingStarted` run under the context the stop cancels. Their error is an
  error of the whole scheduler. A stop between the two transactions of `Miss`
  has the same effect through the trigger.
* **The slot of a programme that has ended is not reused at the same instant**
  (`sched_slot`). The loop asks the completion channel once; the recording that
  reached its planned end is still synchronising its file, and the next one is
  missed.
* **Follow accepts what nobody verified** (`cat_follow`). `ApplyReservationFollow`
  wants a later revision in the latest completed generation. An event that was
  absent from one generation comes back classed NEW_INSTANCE, whatever its new
  times are, and its reservation moves there.
* **`close` of the HLS sessions can hang** (`hls_close`). `startLive` lists a
  session before it arms its timers. A `close` in between collects the session
  and refuses the timers; the worker is then never started and `close` waits for
  its end. `main` gives running requests ten seconds before, so that only a
  start that still waits for the provider then is exposed.
* **A killed restore can block its recovery** (`restore_recover`). The partial
  operation manifest has a fixed name and is created exclusively. A kill before
  its rename leaves it, and the recovery cannot write its own manifest until
  somebody removes the file. `RecoveryEnds` and `KillsNeedNoOperator` show that
  this is the only such case.

Two observations are exceptions that the passing properties state.

* **A power loss can take the first recording of a month.** `SyncDirectory`
  synchronises the directory that the file was renamed in, but `ensureDirectory`
  (`recordingfs/store.go:355`) leaves the names of that directory and of its year to
  the page cache. POSIX allows a power loss to take them, and the published file
  with them, while the row says FINAL; common file systems write a new directory
  together with its first synchronised entry. `PublishedIsDurable` is violated
  without its exception `Lost`, by one recording, one power loss and nothing else.
* **A playlist can name what the cache no longer gives out.** When a removal fails,
  `retireSegment` (`hls_session.go:701`) keeps its entry and returns. The cache has
  marked the segment as retired by then and refuses to open it, but `renderPlaylist`
  asks only for the entry. The session stays listed, without a timer, until its
  playlist is read again or the controller is closed; `NothingForgotten` has the
  exception `failed`. `PromisedStaysReadable` shows that no player loses a segment
  before the time that it was promised for, and not that a playlist given out after
  the failed removal can be played.

Two smaller observations that no property states: a directory
with 31 backups and one left-over partial file admits a backup that
`FindBackupManifest` then refuses to look up, and a deleted rule or a full table
ends an evaluation for all later programmes.

## 5. Proofs

What follows is proved for every value of the constants. The assumptions are
those the modules name (`ASSUME`): natural bounds, a positive packet length, a
bound on bytes that admits one packet, finite sets of reservations, calls and
clients, limits of at least one; for the catalogue that the provider may answer something,
that the setup's synchronisation saw an event of some length, and that at least
two generations are protected (`catalog_retention.go` protects three); for the HLS
sessions that the slots are numbered and that no key is the mark of an unused or
a selected screen; for the HLS cache finitely many generations and segment sizes,
and limits of which the segment's is positive and at most the session's, and that
at most the total; for the retention positive durations and a minimum window that
is not above the maximum; for the automatic reservations a condition that is a
relation over programmes; for the TS filter that the PIDs of PATs, PMTs and
elementary streams differ and that at least one packet may be held back. No theorem assumes anything else.

**Recording, the rows** (`RecordingProofs`). `RowsInductive` (`RowsInv`), and
from it `TypeCorrect`, `RecoveryAlwaysAccepts` and `StopAlwaysDecides`.
`RecoveryNeverRefuses` is not inductive: whether a finish leaves a valid row
depends on what the rows recorded before and on which request the goroutine is
about to store. `RowsInv` adds both. `RowsConsistent` says, for each state of the
attempt, which evidence the segment has; `Control` ties `pc` to the attempt's
state and says that an attempt in FINALIZING is only ended as planned or as
FAILED. The proof has two layers: every operation of `AttemptStore` preserves
`RowsConsistent`, and each action of `Recording` does one of these operations or
none, keeps its types and its place in the control.

**Refinement.** `RecorderKeepsPromise`: `Spec => KeepsPromise`, that is,
`Recording` with all its deaths, power losses and recoveries implements
`RecordingPromise`. Each store operation is mapped to an action of the promise
or to no change of it; `RowsInv` excludes the cases in which it would be neither.

**Recording, the files** (`RecordingProofs`). `Inductive` (`IInv`), and from
it `FinalFilesHold`, `RowsMatchFiles` and `ForeignFilesKept`. A power loss picks
any directory of `crashDirs`, so that an invariant about the directory has to
speak of all of them: `FilesSealed` says that a final name in any of them means
that the row has counted the bytes and that they are durable, `FilesPublished`
that the file a settled row promises is under its final name in each of them
as long as the month's directory is there,
`FilesNamed` where the bytes are while nobody else interferes. `PlacesInv` says
for each `pc` which of these file operations has been done; it is what makes the
step that finally settles the row safe. `FinalFilesHold` therefore promises a
published file every death of the process and every power loss but one that takes
the month's new directory (`Lost`): once a machine has come back with it, it stays.

**One-seg recording** (`CaptureProofs`). `OneSegInductive` (`OneSegIInv`), and from
it `OneSegFollows` (`OneSegFollowsMain` with its parts) and the action properties
`MainFileStands` and `StartSettlesAttempt`. `HelperFits` says which of recorder and
helper still has the second file and that an unfinished helper implies an
attempt in RECORDING; `RowsFit` relates the two segments to the attempt and is
what recovery relies on when it reads them; `OutcomesFit` follows a result from
the helper over its channel to the row; `FilesFit` speaks of the two names as they
are and as a power loss may leave them, `PlaceFits` of what has been done at each
`pc`. What is said of a final row and of a completed main file is said as long as
the directory of their month is there.

**TS framing** (`StreamProofs`). `FramingInductive` (`FramingIInv`), and from it
`SplitsAlike` (`SplitAlike` and `BytesExplained`): the packets do not depend on
how the stream was cut into reads. `PacketsDetermined` says that the reference
allows one sequence of packets for a stream. The difficulty is what the framer has
thrown away: `SearchFits` says that no place before its buffer can begin a packet,
whatever comes next, and that a place which was found stays one when more is
appended (`FollowingStays`); `BufferFits` that the buffer is the rest of the stream
and `CountsFit` that the bytes counted as lost are those between the packets.

**TS filter** (`StreamProofs`). `FilterInductive` (`FilterIInv`), and from it
`FilterIsFaithful` (`FilterFaithful` with its four parts). The file alone does not
tell what may still be written into its past: `HoldsAll` says that nothing which
arrived since the beginning of a table, or of the connection before its first one,
was written or left out yet, so that a replay comes in time; `TableFits` that an
initialized filter drops by the last table of its connection in the file;
`SwitchFits` and `LengthFits` keep the place of the fallback over connections. A
packet leads to more than twenty outcomes, but the filter does one of three things:
it writes, holds or leaves out the packet (`Grows`), it replays what it held behind a
new table (`Completes`), or it falls back (`Fell`); each preserves the parts of the
invariant once, and the cases of the code are reduced to them (`OutcomesKeep`). What
a replay writes is what it held without the pieces left out (`FlattenIs`, by the
least piece that would not fit, since induction is out of reach).

**Scheduler** (`SchedulerProofs`). `SchedulerInductive` (`IInv`), and from it
`SlotsCounted`, `RegistryNeverRefuses`, `AttemptsOwned` and the action property
`SleepsFree`. `RunsCounted` is the core: `active` is the number of goroutines
whose result has not been received, the registry is a part of these, and the
loop's place says whether it holds a slot that it has not yet used. That the
registry never refuses is a comparison of two cardinalities. `SleepsFree` needs
`MinimumIdle > 0`, which `scheduler.go` checks.

**Catalogue** (`CatalogueProofs`). `InductiveInvariant` (`IInv`), and from it
`StoreIsSound`, `FollowIsSound` and the action properties `GenerationsAreWhole`,
`ChangesAreVerified` and `MovesRespectUsers`: every property of `cat_refresh`.
None of these is inductive, because each depends on what a pass, a request or the
follow has read some steps before. `StoreInv` says how that relates to the rows:

* `RowsKeyed` and `SyncsInOrder` are the keys of the tables and the order in which
  synchronisations begin; a revision's number is then always free.
* `HolderIsLatest` says that the holder names the latest completed generation
  except between `CompleteSync` and the publication, and `RequestKeeps` that a
  request is at most one generation behind when a sweep begins. Since two are
  protected, no sweep takes what it reads.
* `WalkIsLast`, `ServicesWalked` and `ProgramsWalked` say what a running
  synchronisation has stored and what is to come; `SuccessorsVerified` compares
  what it stored with the generation shown. They hold until it completes or fails.
* `EmptiesAreOld` says that an instance without a revision was last seen before
  the cutoff, so that a sweep that runs to its end takes it too.

`FollowInv` does the same for the follow. `PageRead` says that a row of the page
is what is there unless users touched it. `PagePassed` says that a reservation
is settled, on the page, or after a full page; its step is the lemma `PageCovers`,
that what a page leaves out comes after all of it. That a non-empty set of numbers
has a least element (`LeastExists`) is proved from the well-foundedness of the
subsets of a finite set, without a theorem that takes an operator.

**Automatic reservations** (`ServingProofs`). `AutomaticInductive`
(`AutoIInv`), and from it `AutomaticComesFirst` and the action properties
`EnteredUnderItsRule` and `DisablesOnlyItsOwn`. An evaluation looks a rule up again
by its number when it creates a reservation; `RulesNumbered` says that a number
names one rule for ever, among the rules that are there and those it has read, so
that a rule made since cannot be found in place of one that was deleted.

**Live relay** (`ServingProofs`). `Inductive`, and from it `NothingLost`
(`LiveSound` with its four parts) and `ProcessIdOpenedOnce`. What is removed from
the tables under the lock is cancelled after it; `CallsFollow` says which
selections are on that list meanwhile. A lease has two users, `Copy` and `Close`;
`LeaseShape` says that whoever closed it first, and nobody else, gives the stream
back, which makes the count exact.

**HLS sessions** (`HlsProofs`). `SessionsInductive` (`SessionIInv`), and from
it `SessionsHoldTheirStreams` (`SessionsSound` with its four parts) and the action
property `IdleStopsAreDue`. `OwnersFit` is the core: while a start holds a key
nobody else has it, and a worker is the session of its slot until it is done;
`RequestsFit` says what a slot looks like at each place of the request that holds
its lock. A slot whose session is over is then idle (`IdleSlot`), so that closing
its use takes nobody's stream, and `UsesFit` ties every open stream to the use of
its screen. `EpochsFit` says that an idle timer fires for the epoch it was armed
in and that a later one is greater; `ClosingFits` that a slot that `close` has
cleared is not taken again.

**HLS retention** (`HlsProofs`). `RetentionInductive` (`RetentionIInv`), and from it
`PromisesAreKept` (`PromiseKept`, `NothingForgotten`) and the action property
`PromisedSegmentsStay`. A segment that the cache failed to remove is an exception of
`NothingForgotten`, and so is the time after the controller was closed. That no playlist which was given out outlives its segments rests
on `EntriesFit`: a segment in the window remembers at least the longest playlist
it was named in, and the window's duration now. `SegmentFits` says that a
callback on its way is of the latest deadline only once that has passed, so that
the version test in the callback tells a stale timer from a due one.

**HLS cache** (`HlsProofs`). `CacheInductive` (`CacheIInv`), and from it
`LimitHoldsOnDisk` (`BytesCounted`, `DiskWithinLimit`) and `FilesAreKnown`
(`ReadersKeepFiles`, `NothingUnknown`, `CleanupTakesItsOwn`). The byte counters
are right whatever fails; what is in the directories is known, and the next start
takes it, but for the generations in `faulty`. `PartialFits` and
`StoredFits` tie the segment in work and each stored one to its file, `StoppedFits`
says that only a failure leaves a stopped generation without segments, `LeftOver`
says what a dead process may have left. The counters are sums over finite sets.
That a sum changes by what one of its terms changes (`SumUpdated`), is at least a
smaller function's (`SumMonotone`) and a natural number is not an instance of the
library's induction theorems; it is proved from a counterexample with the fewest
elements, which `LeastExists` gives (`PartialsExist` for the recursive function
that `FoldFunction` stands for).

**CtrlCmd server** (`ServingProofs`). `ServerInductive` and
`NothingServedAfterWait`: the wait group is waited for only after the listener is
closed and `Serve` has returned (`Closed`), so nothing can be added any more.

**Database upgrade** (`DatabaseProofs`). `UpgradeInductive`, and from it
`OneWriterOnly`, `ManifestsSound` and `BackupBeforeRaise`. A backup grows one name
at a time (`Work`); `NamesFollow` says that a manifest's name follows its
database's, on disk as well as in what a power loss leaves.

**Database restore** (`DatabaseProofs`). `RestoreInductive`, and from it
`OldDatabaseNeverLost`, `WalOfItsOwnDatabase`, `ManifestsTellTruth` and
`NoOperatorAfterKills`. None of the four is inductive alone. `Tells` says, phase by
phase, where each file is if no service ran since the manifest was prepared: this
is what recovery relies on, and why it never has to give up after kills alone.
Where the service did run, only what the command itself has checked or moved is
known (`StepsDone`), whose sidecars lie where (`SidecarsFit`), and that the old
database's descendant is canonical or its copy in quarantine (`OldFound`).
`CommandFits` ties the manifest in a command's memory to the published one: they
differ in the phase only, and only until the rename.

TLC checks each inductive invariant on a small instance too: `IInv` in
`rec_safety` and `cat_refresh`, the others as parts of `IInv` in
`parts_safety`.

**Only model-checked.** Liveness, which is outside the prover's reach.

## 6. What is left out

Quality summaries and the post-recording command; the capacity and overlap
limits of new reservations; CtrlCmd numbers; more than one file plan in a
directory; a clock that goes back. The directories
of year and month are one (`month`); somebody else who puts a file under the final
name in a lost one makes it again in `Recording`, while in `OneSeg` nobody does,
and nobody but the program touches the main file there. The 30 seconds after which `main` gives up
waiting are a `Crash`. A failing check of the power adapter changes nothing the
model has.

Conversions of the catalogue's single fields, logos, and `EnsureBackend`; which
programme a search condition matches. `-active-follow-extension-only` is a
constant of `Catalogue` that the runs leave off. `cat_refresh` has one locator and
one reservation, so that paging is a full page and an empty one.

The cut of HLS segments and the text of playlists; `waitUntilReady`'s two
seconds; power loss in the HLS cache, which is disposable (its names outlive a process, not
the machine), and files of others in its directory; viewers that poll an
ended playlist for ever. In `DatabaseRestore` renames reach the disk in their
order, and contents are compared, not hashed; a service that is started between
a killed restore and its recovery writes its own WAL, and the old one's fate is
not stated. `prepareBackupRoot` does not synchronise the data root after it made
`backups`; `SyncBackups` of `DatabaseUpgrade` takes that directory as there, which
for the first backup of a data root leans on SQLite's own synchronisation of the
root. In `OneSeg` a power loss between a rename and the directory's
synchronisation may settle the second file as MISMATCHED for good.

Of the TS filter the layout of packets, sections and tables and the continuity
and scrambling counts of `ts_quality.go`. The CtrlCmd codec is a sequential
transformation of bytes without state, and what could be said of it is its layout.
Operator pages, packaging and the fake provider keep no state or only format it.

## 7. Plan

Modelled and checked: all modules above; proved: the safety properties that the
passing runs check. What section 6 leaves out is open.
