----------------------------- MODULE Recording ------------------------------
(***************************************************************************)
(* One reservation from the scheduler's claim to its settled history row:  *)
(* the recording goroutine (internal/app/recording/executor.go), the       *)
(* user's stop request, process death, power loss, the startup recovery    *)
(* (recovery.go) and the periodic reconciliation of completed files        *)
(* (reconciler.go), over the rows of AttemptStore and the directory of     *)
(* RecordingFiles.  A step is one repository transaction or one file       *)
(* operation with the local computation around it: between any two steps   *)
(* the other actors move, an operation fails, or the process dies.         *)
(*                                                                         *)
(* Time is abstracted: whether the planned end, the last reconnection      *)
(* moment or the first second of recording has passed is a choice.         *)
(***************************************************************************)
EXTENDS AttemptStore, RecordingFiles

CONSTANTS
    MaxReconnects,  \* 3: the length of reconnectDelays
    MaxCrashes,     \* bound on process deaths and power losses
    MaxFaults,      \* bound on failing database and file operations
    MaxUserOps,     \* bound on changes somebody makes to the final name
    PowerLoss       \* whether a crash may be a power loss

ASSUME ReconnectAssumption == MaxReconnects \in Nat
ASSUME BoundsAssumption ==
    MaxCrashes \in Nat /\ MaxFaults \in Nat /\ MaxUserOps \in Nat /\ PowerLoss \in BOOLEAN
ASSUME LegacyAssumption == Packet <= MaxBytes

VARIABLES
    proc,       \* "up", "recovering" (startup) or "down"
    pc,         \* where the recording goroutine, or the recovery, is
    mem,        \* its local variables
    cancelled,  \* the recording's context is cancelled
    registered, \* the stop registry holds the recording's cancel function
    notify,     \* a CtrlCmd handler committed a stop and has yet to notify
    stopping,   \* the service context is cancelled: the process shuts down
    rec,        \* the reconciliation's observation awaiting its update
    crashes, faults, userOps    \* counters of MaxCrashes, MaxFaults, MaxUserOps

procVars == <<proc, cancelled, registered, notify, stopping>>
vars == <<storeVars, fileVars, procVars, pc, mem, rec, crashes, faults, userOps>>

\* How an attempt ends once its stream is closed: the finish* methods.
Kinds == {None, "end", "stop", "communication", "partial", "before"}

NoRequest == [state |-> "FAILED", reason |-> None, bytes |-> 0, avail |-> "MISSING"]

\* reason, started, conn, reconnected: streamCopyResult and the loop of
\* executeClaimed; kind, plan, req, detached: the finish methods; remove:
\* completeMainPublication's argument.
Locals == [reason : Reasons, retryable : BOOLEAN, started : BOOLEAN,
           conn : 0 .. MaxReconnects, reconnected : BOOLEAN, kind : Kinds,
           plan : PlanReasons \cup {None}, req : Requests, detached : BOOLEAN,
           remove : BOOLEAN]
NoLocals == [reason |-> None, retryable |-> FALSE, started |-> FALSE, conn |-> 0,
             reconnected |-> FALSE, kind |-> None, plan |-> None, req |-> NoRequest,
             detached |-> FALSE, remove |-> FALSE]
NoReconcile == [busy |-> FALSE, avail |-> "FINAL", integrity |-> None]

ExecutorLabels ==
    {"claimed", "missed", "start", "check", "create", "loop", "open", "retry", "first",
     "begin", "copy", "progress", "sync", "publish", "finalize", "link", "mark", "sync1",
     "remove", "sync2", "dir", "finish"}
RecoveryLabels ==
    {"rread", "ravail", "rlink", "rmark", "rsync1", "rremove", "rsync2", "rdir", "rfinish"}
Labels == {"idle", "done", "error"} \cup ExecutorLabels \cup RecoveryLabels

ProcessTypeOK ==
    /\ proc \in {"up", "recovering", "down"}
    /\ pc \in Labels
    /\ mem \in Locals
    /\ cancelled \in BOOLEAN /\ registered \in BOOLEAN
    /\ notify \in BOOLEAN /\ stopping \in BOOLEAN
    /\ rec \in [busy : BOOLEAN, avail : {"FINAL", "MISSING", "MISMATCHED"},
                integrity : Integrities]
    /\ crashes \in 0 .. MaxCrashes /\ faults \in 0 .. MaxFaults /\ userOps \in 0 .. MaxUserOps

\* Every variable stays in its type: reconnections, byte counts and results
\* never leave the ranges the rows and the goroutine allow.
TypeOK == StoreTypeOK /\ FilesTypeOK(MaxBytes) /\ ProcessTypeOK

-----------------------------------------------------------------------------
\* A directory left by the version that published with a hard link and died
\* before removing the partial name: the state RemovePartial and the second
\* case of recoverMainFinalization are kept for.
LegacyInit ==
    /\ resv = [state |-> "ACTIVE", reason |-> None]
    /\ att = [state |-> "FINALIZING", stop |-> FALSE, plan |-> "COMPLETED",
              reason |-> None, bytes |-> Packet]
    /\ \E published \in BOOLEAN :
          seg = [state |-> "PARTIAL", bytes |-> Packet, synced |-> TRUE,
                 published |-> published, dirSynced |-> FALSE, avail |-> "PARTIAL",
                 integrity |-> None]
    /\ dir = [partial |-> TRUE, final |-> "ours"]
    /\ month \in {"new", "kept"} /\ crashDirs = {dir}
    /\ size = Packet /\ syncedSize = Packet
    /\ proc = "down"

FreshInit ==
    /\ StoreInit
    /\ FilesInit
    /\ proc = "up"

Init ==
    /\ FreshInit \/ LegacyInit
    /\ pc = "idle" /\ mem = NoLocals
    /\ cancelled = FALSE /\ registered = FALSE /\ notify = FALSE /\ stopping = FALSE
    /\ rec = NoReconcile
    /\ crashes = 0 /\ faults = 0 /\ userOps = 0

-----------------------------------------------------------------------------
(* Building blocks of the goroutine's steps.                               *)

Goto(label) == pc' = label /\ UNCHANGED mem
Fault == faults < MaxFaults /\ faults' = faults + 1

\* Everything but the rows, the files, pc, mem and the fault counter.
Local == UNCHANGED <<procVars, rec, crashes, userOps>>
\* A step that touches neither rows nor files and cannot fail.
Quiet == Local /\ UNCHANGED <<storeVars, fileVars, faults>>

\* An operation fails and ExecuteClaimed returns the error.
Abort == Goto("error") /\ Fault /\ Local /\ UNCHANGED <<storeVars, fileVars>>

\* cancelReason: whoever cancelled the context, the stored request decides.
CancelReason == IF att.stop THEN "USER_REQUESTED_STOP" ELSE "PROCESS_SHUTDOWN"

\* finishByCount's request.
UnsuccessfulRequest(reason, bytes, fileExists) ==
    [state  |-> IF reason \in {"PROCESS_SHUTDOWN", "USER_REQUESTED_STOP"} THEN "CANCELLED"
                ELSE IF Useful(bytes) THEN "PARTIAL" ELSE "FAILED",
     reason |-> reason,
     bytes  |-> bytes,
     avail  |-> IF fileExists THEN "PARTIAL" ELSE "MISSING"]

\* Go on to FinishAttempt(req), with a context that outlives the cancellation
\* or, when ~detached, with the recording's own.
FinishWith(req, detached) ==
    /\ pc' = "finish"
    /\ mem' = [mem EXCEPT !.req = req, !.detached = detached]

\* finishCopyFailure and the method it selects; "long" is the second that a
\* communication partial must have lasted.
FinishCopyFailure(reason, started) ==
    \E long \in BOOLEAN :
      LET kind ==
            IF ~started THEN "before"
            ELSE IF reason = "USER_REQUESTED_STOP" THEN "stop"
            ELSE IF /\ reason \in CommunicationReasons
                    /\ Useful(size) /\ WholePackets(size) /\ long THEN "communication"
            ELSE "partial"
      IN  /\ mem' = [mem EXCEPT !.reason = reason, !.kind = kind]
          /\ pc' = IF kind = "before" THEN "sync" ELSE "progress"

\* The planned end is reached with no stop request: the loop breaks.
ReachEnd ==
    /\ mem' = [mem EXCEPT !.kind = "end"]
    /\ pc' = "sync"

-----------------------------------------------------------------------------
(* Claim and miss.                                                          *)

\* Scheduler.Run: Claim succeeds before the goroutine starts.
Claim ==
    /\ proc = "up" /\ ~stopping /\ pc = "idle"
    /\ ClaimRecording
    /\ Goto("claimed")
    /\ Local /\ UNCHANGED <<fileVars, faults>>

\* Executor.Miss claims the reservation too and then finishes it at once.
MissClaim ==
    /\ proc = "up" /\ ~stopping /\ pc = "idle"
    /\ ClaimRecording
    /\ \E reason \in {"LATE_START_EXPIRED", "RECORDING_SLOT_UNAVAILABLE"} :
          mem' = [mem EXCEPT !.req = [state |-> "MISSED", reason |-> reason,
                                      bytes |-> 0, avail |-> "MISSING"]]
    /\ pc' = "missed"
    /\ Local /\ UNCHANGED <<fileVars, faults>>

MissFinish ==
    /\ pc = "missed"
    /\ \/ /\ ~stopping
          /\ FinishAttempt(mem.req)
          /\ Goto("done") /\ UNCHANGED faults
       \/ /\ IF FinishAllowed(mem.req) /\ ~stopping THEN Fault ELSE UNCHANGED faults
          /\ Goto("error") /\ UNCHANGED storeVars
    /\ Local /\ UNCHANGED fileVars

\* The stop registry learns of the recording after the claim is committed.
Register ==
    /\ pc = "claimed"
    /\ registered' = TRUE
    /\ Goto("start")
    /\ UNCHANGED <<storeVars, fileVars, proc, cancelled, notify, stopping,
                   rec, crashes, faults, userOps>>

-----------------------------------------------------------------------------
(* executeClaimed up to the first byte.                                     *)

\* StartAttempt runs under the recording's context: a cancelled one fails it.
StartStep ==
    /\ pc = "start"
    /\ \/ ~cancelled /\ StartAttempt /\ Goto("check") /\ UNCHANGED faults
       \/ /\ IF cancelled THEN UNCHANGED faults ELSE Fault
          /\ Goto("error") /\ UNCHANGED storeVars
    /\ Local /\ UNCHANGED fileVars

CheckInitialStop ==
    /\ pc = "check"
    /\ \/ /\ IF att.stop
               THEN FinishWith(UnsuccessfulRequest("USER_REQUESTED_STOP", 0, FALSE), TRUE)
               ELSE Goto("create")
          /\ Quiet
       \/ Abort

CreateStep ==
    /\ pc = "create"
    /\ \/ /\ CreatePartial /\ Goto("loop") /\ UNCHANGED faults
       \/ /\ CreatePartial     \* but the reservation's service cannot be tuned
          /\ FinishCopyFailure("STREAM_NOT_FOUND", FALSE) /\ UNCHANGED faults
       \/ /\ Fault            \* also after the file was created
          /\ CreateFails
          /\ FinishWith(UnsuccessfulRequest("FILE_CREATE_FAILED", 0, FALSE), TRUE)
    /\ Local /\ UNCHANGED storeVars

\* The head of the connection loop.
LoopHead ==
    /\ pc = "loop"
    /\ \/ /\ cancelled \/ att.stop
          /\ FinishCopyFailure(CancelReason, mem.started)
          /\ Quiet
       \/ /\ ~cancelled /\ ~att.stop
          /\ \/ ReachEnd
             \/ mem.conn > 0 /\ FinishCopyFailure(mem.reason, mem.started)
             \/ /\ mem' = [mem EXCEPT !.reconnected = mem.conn > 0]
                /\ pc' = "open"
          /\ Quiet
       \/ Abort

\* OpenStream's failures: the reasons of those retryableStreamFailure lets the
\* recording survive, and of the others.
OpenFailures(retryable) ==
    IF retryable THEN {"STREAM_UNAVAILABLE", "STREAM_TIMEOUT"}
                 ELSE {"STREAM_NOT_FOUND", "STREAM_CANCELLED", "STREAM_UNAVAILABLE"}

\* streamCopyResult after a closed or refused connection.
ConnectionFailed(reason, retryable) ==
    /\ mem' = [mem EXCEPT !.reason = reason, !.retryable = retryable]
    /\ pc' = "retry"

OpenStep ==
    /\ pc = "open"
    /\ \/ ~cancelled /\ Goto(IF mem.started THEN "copy" ELSE "first")
       \/ \E retryable \in BOOLEAN : \E reason \in OpenFailures(retryable) :
             ConnectionFailed(reason, retryable)
    /\ Quiet

\* prepareReconnect, when enough time is left.
MayReconnect == mem.retryable /\ mem.conn < MaxReconnects

\* A closed or refused connection: reconnect after the delay, break at the
\* planned end (endCopy reads the stop request again), or give up.
Retry ==
    /\ pc = "retry"
    /\ \/ /\ ~cancelled /\ MayReconnect
          /\ mem' = [mem EXCEPT !.conn = @ + 1]
          /\ pc' = "loop"
       \/ /\ ~cancelled /\ mem.retryable
          /\ IF att.stop THEN FinishCopyFailure("USER_REQUESTED_STOP", mem.started)
                         ELSE ReachEnd
       \/ /\ ~cancelled
          /\ FinishCopyFailure(IF mem.retryable /\ mem.conn = MaxReconnects
                               THEN "STREAM_RECONNECT_EXHAUSTED" ELSE mem.reason,
                               mem.started)
       \/ cancelled /\ FinishCopyFailure(CancelReason, mem.started)
    /\ Quiet

\* The stop request cannot be read: endCopy makes it an interruption,
\* cancelReason an error.
RetryFault ==
    /\ pc = "retry" /\ Fault
    /\ IF cancelled THEN Goto("error")
                    ELSE mem.retryable /\ FinishCopyFailure("PROCESS_INTERRUPTED", mem.started)
    /\ Local /\ UNCHANGED <<storeVars, fileVars>>

\* The first open stream: the stop request is read once more.
CheckFirstStop ==
    /\ pc = "first"
    /\ \/ /\ IF att.stop THEN FinishCopyFailure("USER_REQUESTED_STOP", FALSE)
                         ELSE Goto("begin")
          /\ Quiet
       \/ Abort

\* RecordingStarted also runs under the recording's context.
BeginStep ==
    /\ pc = "begin"
    /\ \/ /\ ~cancelled /\ RecordingStarted
          /\ mem' = [mem EXCEPT !.started = TRUE]
          /\ pc' = "copy" /\ UNCHANGED faults
       \/ /\ IF cancelled THEN UNCHANGED faults ELSE Fault
          /\ Goto("error") /\ UNCHANGED storeVars
    /\ Local /\ UNCHANGED fileVars

-----------------------------------------------------------------------------
(* The copy loop.                                                           *)

\* filter.Finish may still write what it held back when the copy ends.
Tail == \/ size < MaxBytes /\ WritePartial(1)
        \/ UNCHANGED fileVars

CopyChunk ==
    /\ pc = "copy" /\ ~cancelled /\ size < MaxBytes
    /\ WritePartial(1)
    /\ Goto("copy")
    /\ Local /\ UNCHANGED <<storeVars, faults>>

\* A faulty interval that saves the byte count and forgets the stop request.
ProgressWithoutStop ==
    /\ pc = "copy" /\ ~cancelled
    /\ UpdateRecordingProgress(size)
    /\ Goto("copy") /\ UNCHANGED fileVars
    /\ Local /\ UNCHANGED faults

\* Every progressInterval: save the byte count, then look for a stop request.
\* The interval's store operations ignore the cancellation.
CopyProgress ==
    /\ pc = "copy" /\ ~cancelled
    /\ UpdateRecordingProgress(size)
    /\ IF att.stop THEN /\ Tail
                        /\ FinishCopyFailure("USER_REQUESTED_STOP", TRUE)
                   ELSE Goto("copy") /\ UNCHANGED fileVars
    /\ Local /\ UNCHANGED faults

\* A cancelled context ends the copy; only a stop request flushes the tail.
CopyCancelled ==
    /\ pc = "copy" /\ cancelled
    /\ IF att.stop THEN Tail ELSE UNCHANGED fileVars
    /\ FinishCopyFailure(CancelReason, TRUE)
    /\ Local /\ UNCHANGED <<storeVars, faults>>

\* The planned end (endCopy).
CopyEnd ==
    /\ pc = "copy" /\ ~cancelled
    /\ Tail
    /\ IF att.stop THEN FinishCopyFailure("USER_REQUESTED_STOP", TRUE) ELSE ReachEnd
    /\ Local /\ UNCHANGED <<storeVars, faults>>

\* How the stream may end before; only these reasons flush the tail.
CopyFailures(retryable) ==
    IF retryable THEN {"STREAM_ENDED_EARLY", "STREAM_TIMEOUT", "STREAM_UNAVAILABLE"}
                 ELSE {"STREAM_TIMEOUT", "STREAM_UNAVAILABLE", "STREAM_CANCELLED",
                       "STREAM_NOT_FOUND", "STREAM_FORMAT_INVALID"}
FlushingReasons == {"STREAM_ENDED_EARLY", "STREAM_TIMEOUT", "STREAM_UNAVAILABLE"}

CopyFailed ==
    /\ pc = "copy" /\ ~cancelled
    /\ \E retryable \in BOOLEAN : \E reason \in CopyFailures(retryable) :
          /\ IF reason \in FlushingReasons THEN Tail ELSE UNCHANGED fileVars
          /\ ConnectionFailed(reason, retryable)
    /\ Local /\ UNCHANGED <<storeVars, faults>>

\* A failing write or progress update.
CopyFault ==
    /\ pc = "copy" /\ Fault
    /\ \E reason \in {"FILE_WRITE_FAILED", "PROCESS_INTERRUPTED"} :
          ConnectionFailed(reason, FALSE)
    /\ Local /\ UNCHANGED <<storeVars, fileVars>>

-----------------------------------------------------------------------------
(* Closing the partial file.                                                *)

\* The last progress update of finishUserStop, finishPartial and
\* finishCommunicationPartial.
SaveProgress ==
    /\ pc = "progress"
    /\ \/ /\ UpdateRecordingProgress(size) /\ Goto("sync")
          /\ UNCHANGED <<fileVars, faults>>
       \/ /\ Fault /\ Goto("error")
          /\ SyncPartial \/ UNCHANGED fileVars
          /\ UNCHANGED storeVars
    /\ Local

\* Sync and Close, then the publication or FinishAttempt.
SealPartial ==
    /\ pc = "sync"
    /\ SyncPartial
    /\ LET plan == IF mem.kind = "stop" THEN "USER_REQUESTED_STOP"
                   ELSE IF mem.kind = "communication" THEN mem.reason
                   ELSE IF mem.reconnected THEN "COMPLETED_AFTER_RECONNECT" ELSE "COMPLETED"
           short == IF mem.kind = "end" THEN "STREAM_ENDED_EARLY" ELSE mem.reason
       IN  IF mem.kind \in {"end", "stop", "communication"} /\ Useful(size)
             THEN /\ mem' = [mem EXCEPT !.plan = plan]
                  /\ pc' = "publish"
             ELSE FinishWith(UnsuccessfulRequest(short, IF mem.kind = "before" THEN 0 ELSE size,
                                                 TRUE), mem.kind # "end")
    /\ Local /\ UNCHANGED <<storeVars, faults>>

\* Sync or Close fails: the bytes are kept but never published.
SealFault ==
    /\ pc = "sync" /\ Fault
    /\ \E detached \in {TRUE, mem.kind # "end"} :
          FinishWith(UnsuccessfulRequest("FILE_SYNC_FAILED",
                                         IF mem.kind = "before" THEN 0 ELSE size, TRUE), detached)
    /\ SyncPartial \/ UNCHANGED fileVars
    /\ Local /\ UNCHANGED storeVars

-----------------------------------------------------------------------------
(* publishFinal.                                                            *)

ShutdownRequest == UnsuccessfulRequest("PROCESS_SHUTDOWN", size, TRUE)

\* The context checks before the finalization; finishUserStop passes a context
\* that is never cancelled.
PublishChecks ==
    /\ pc = "publish"
    /\ \/ /\ IF cancelled /\ mem.kind # "stop"
               THEN IF att.stop
                      THEN /\ mem' = [mem EXCEPT !.plan = "USER_REQUESTED_STOP"]
                           /\ pc' = "finalize"
                      ELSE FinishWith(ShutdownRequest, TRUE)
               ELSE Goto("finalize")
          /\ Quiet
       \/ Abort

\* BeginFinalization; a context cancelled meanwhile is resolved by the stored
\* stop request, in favour of the user stop or of the shutdown.
FinalizeStep ==
    /\ pc = "finalize"
    /\ \/ /\ IF cancelled /\ mem.plan # "USER_REQUESTED_STOP"
               THEN \/ /\ att.stop
                       /\ BeginFinalization("USER_REQUESTED_STOP", size) /\ Goto("link")
                    \/ /\ ~att.stop
                       /\ FinishWith(ShutdownRequest, TRUE) /\ UNCHANGED storeVars
               ELSE BeginFinalization(mem.plan, size) /\ Goto("link")
          /\ Local /\ UNCHANGED <<fileVars, faults>>
       \/ Abort

\* LinkFinal; without renameat2 the attempt fails, any other error, also one
\* of the check after the rename, leaves FINALIZING to the recovery.
LinkStep ==
    /\ pc = "link"
    /\ \/ LinkFinal /\ Goto("mark") /\ UNCHANGED faults
       \/ /\ Fault /\ ~FinalExists /\ UNCHANGED fileVars
          /\ FinishWith([state |-> "FAILED", reason |-> "FINAL_PUBLICATION_FAILED",
                         bytes |-> size, avail |-> "PARTIAL"], TRUE)
       \/ /\ IF FinalExists THEN UNCHANGED <<fileVars, faults>>
                            ELSE Fault /\ (LinkFinal \/ UNCHANGED fileVars)
          /\ Goto("error")
    /\ Local /\ UNCHANGED storeVars

MarkStep ==
    /\ pc = "mark"
    /\ \/ MarkFinalPublished /\ Goto("sync1") /\ Local /\ UNCHANGED <<fileVars, faults>>
       \/ Abort

\* The two directory synchronisations around RemovePartial.
SyncDirectoryStep ==
    /\ pc \in {"sync1", "sync2"}
    /\ \/ /\ SyncDirectory /\ Goto(IF pc = "sync1" THEN "remove" ELSE "dir")
          /\ Local /\ UNCHANGED <<storeVars, faults>>
       \/ Abort

RemoveStep ==
    /\ pc = "remove"
    /\ \/ RemovePartial /\ Goto("sync2") /\ UNCHANGED faults
       \/ /\ IF RemovePartialAllowed THEN Fault ELSE UNCHANGED faults
          /\ RemovePartial \/ UNCHANGED fileVars
          /\ Goto("error")
    /\ Local /\ UNCHANGED storeVars

\* The planned result, now that the file is published.
PlannedRequest ==
    [state |-> PlannedState(att.plan), reason |-> att.plan, bytes |-> att.bytes, avail |-> "FINAL"]

MarkSyncedStep ==
    /\ pc = "dir"
    /\ \/ /\ MarkDirectorySynced
          /\ FinishWith(PlannedRequest, TRUE)
          /\ Local /\ UNCHANGED <<fileVars, faults>>
       \/ Abort

\* FinishAttempt; a refusal or failure is an error of ExecuteClaimed.
FinishStep ==
    /\ pc = "finish"
    /\ LET able == FinishAllowed(mem.req) /\ (mem.detached \/ ~cancelled)
       IN  \/ able /\ FinishAttempt(mem.req) /\ Goto("done") /\ UNCHANGED faults
           \/ /\ IF able THEN Fault ELSE UNCHANGED faults
              /\ Goto("error") /\ UNCHANGED storeVars
    /\ Local /\ UNCHANGED fileVars

\* The goroutine unregisters, cancels its context and reports completion.
Complete ==
    /\ pc = "done"
    /\ registered' = FALSE /\ cancelled' = FALSE
    /\ pc' = "idle" /\ mem' = NoLocals
    /\ UNCHANGED <<storeVars, fileVars, proc, notify, stopping, rec, crashes, faults, userOps>>

-----------------------------------------------------------------------------
(* The process.                                                             *)

GoDown ==
    /\ proc' = "down" /\ pc' = "idle" /\ mem' = NoLocals
    /\ cancelled' = FALSE /\ registered' = FALSE /\ notify' = FALSE /\ stopping' = FALSE
    /\ rec' = NoReconcile

\* A reported error makes Scheduler.Run, and then the process, return.
ExitOnError ==
    /\ pc = "error" /\ GoDown
    /\ UNCHANGED <<storeVars, fileVars, crashes, faults, userOps>>

\* SIGTERM: the service context and with it every recording is cancelled.
Shutdown ==
    /\ proc = "up" /\ ~stopping
    /\ stopping' = TRUE
    /\ cancelled' = (pc # "idle")
    /\ UNCHANGED <<storeVars, fileVars, proc, pc, mem, registered, notify, rec,
                   crashes, faults, userOps>>

Exit ==
    /\ stopping /\ pc = "idle" /\ GoDown
    /\ UNCHANGED <<storeVars, fileVars, crashes, faults, userOps>>

\* The process dies at any moment; with PowerLoss, the machine may.
Crash ==
    /\ proc # "down" /\ crashes < MaxCrashes
    /\ crashes' = crashes + 1
    /\ GoDown
    /\ \/ UNCHANGED fileVars
       \/ PowerLoss /\ LosePower
    /\ UNCHANGED <<storeVars, faults, userOps>>

Restart ==
    /\ proc = "down"
    /\ proc' = "recovering" /\ pc' = "rread"
    /\ UNCHANGED <<storeVars, fileVars, mem, cancelled, registered, notify, stopping, rec,
                   crashes, faults, userOps>>

-----------------------------------------------------------------------------
(* Recovery.Run, before anything else of the program starts.               *)

Recovering(label) == proc = "recovering" /\ pc = label
RecoveryStep(label) == Goto(label) /\ Local /\ UNCHANGED faults
FinishRecoveryWith(req) ==
    /\ pc' = "rfinish"
    /\ mem' = [mem EXCEPT !.req = req]

\* Recovery.Run returns nil: the scheduler and the servers start.
Recovered ==
    /\ proc' = "up" /\ pc' = "idle" /\ mem' = NoLocals
    /\ UNCHANGED <<cancelled, registered, notify, stopping, crashes, userOps>>

\* The row is final and no published file belongs to it.
RecoverNothing ==
    /\ Recovering("rread") /\ ~Recoverable
    /\ Recovered
    /\ UNCHANGED <<storeVars, fileVars, rec, faults>>

\* completedAvailability, an observation for SetRecordingAvailability.
CompletedAvailability ==
    [busy |-> TRUE,
     avail |-> IF ~FinalExists /\ ~dir.partial THEN "MISSING"
               ELSE IF ~FinalExists \/ FinalSize # att.bytes \/ dir.partial THEN "MISMATCHED"
               ELSE "FINAL",
     integrity |-> IF ~FinalExists /\ ~dir.partial THEN "FILE_MISSING"
                   ELSE IF ~FinalExists \/ FinalSize # att.bytes \/ dir.partial
                        THEN "FILE_INTEGRITY_MISMATCH"
                   ELSE None]

\* reconcileSuccess: observe the completed file, then store a difference.
RecoverCompleted ==
    /\ Recovering("rread") /\ Completed /\ ValidRecoveryValues
    /\ rec' = CompletedAvailability
    /\ Goto("ravail")
    /\ UNCHANGED <<storeVars, fileVars, procVars, crashes, faults, userOps>>

UpdateAvailability ==
    IF <<seg.avail, seg.integrity>> = <<rec.avail, rec.integrity>>
      THEN UNCHANGED storeVars
      ELSE SetRecordingAvailability(rec.avail, rec.integrity)

RecoverAvailability ==
    /\ Recovering("ravail")
    /\ UpdateAvailability
    /\ rec' = NoReconcile
    /\ Recovered
    /\ UNCHANGED <<fileVars, faults>>

\* A faulty result: the last saved byte count instead of the file's size.
InterruptedByProgress ==
    [state |-> IF Useful(att.bytes) THEN "PARTIAL" ELSE "FAILED",
     reason |-> "PROCESS_INTERRUPTED", bytes |-> att.bytes,
     avail |-> IF dir.partial THEN "PARTIAL" ELSE "MISSING"]

\* interruptedMainResult: the stored stop request plays no part.
InterruptedRequest ==
    IF FinalExists
      THEN [state |-> "FAILED", reason |-> "FILE_INTEGRITY_MISMATCH", bytes |-> att.bytes,
            avail |-> "MISMATCHED"]
      ELSE LET bytes == IF dir.partial THEN size ELSE 0
           IN  [state |-> IF Useful(bytes) THEN "PARTIAL" ELSE "FAILED",
                reason |-> "PROCESS_INTERRUPTED", bytes |-> bytes,
                avail |-> IF dir.partial THEN "PARTIAL" ELSE "MISSING"]

RecoverInterrupted ==
    /\ Recovering("rread") /\ att.state \in Stoppable /\ ValidRecoveryValues
    /\ FinishRecoveryWith(InterruptedRequest)
    /\ Quiet

\* recoverMainFinalization.
FinalizationFailure(reason, avail) ==
    [state |-> "FAILED", reason |-> reason, bytes |-> att.bytes, avail |-> avail]

FilesFit ==
    /\ dir.partial => size = att.bytes
    /\ FinalExists => FinalSize = att.bytes
Unpublished == dir.partial /\ ~FinalExists /\ ~seg.published /\ ~seg.dirSynced
LinkedTwice == SameFile /\ ~seg.dirSynced
Moved == ~dir.partial /\ FinalExists

RecoverFinalizing ==
    /\ Recovering("rread") /\ att.state = "FINALIZING" /\ ValidRecoveryValues
    /\ \/ /\ FilesFit /\ (Unpublished \/ LinkedTwice \/ Moved)
          /\ mem' = [mem EXCEPT !.remove = ~Moved]
          /\ pc' = IF Unpublished THEN "rlink" ELSE IF seg.published THEN "rsync1" ELSE "rmark"
       \/ /\ ~dir.partial /\ ~FinalExists
          /\ FinishRecoveryWith(FinalizationFailure("FILE_MISSING", "MISSING"))
       \/ /\ dir.partial \/ FinalExists
          /\ ~(FilesFit /\ (Unpublished \/ LinkedTwice \/ Moved))
          /\ FinishRecoveryWith(FinalizationFailure("FILE_INTEGRITY_MISMATCH", "MISMATCHED"))
    /\ Quiet

RecoverLink ==
    /\ Recovering("rlink")
    /\ \/ LinkFinal /\ RecoveryStep("rmark")
       \/ /\ ~FinalExists /\ Fault
          /\ FinishRecoveryWith(FinalizationFailure("FINAL_PUBLICATION_FAILED", "PARTIAL"))
          /\ Local /\ UNCHANGED fileVars
    /\ UNCHANGED storeVars

RecoverMark ==
    /\ Recovering("rmark")
    /\ MarkFinalPublished
    /\ RecoveryStep("rsync1") /\ UNCHANGED fileVars

\* completeMainPublication.
RecoverSync ==
    /\ Recovering("rsync1") \/ Recovering("rsync2")
    /\ SyncDirectory
    /\ RecoveryStep(IF pc = "rsync1" /\ mem.remove THEN "rremove" ELSE "rdir")
    /\ UNCHANGED storeVars

RecoverRemove ==
    /\ Recovering("rremove")
    /\ RemovePartial
    /\ RecoveryStep("rsync2") /\ UNCHANGED storeVars

RecoverDirectory ==
    /\ Recovering("rdir")
    /\ IF seg.dirSynced THEN UNCHANGED storeVars ELSE MarkDirectorySynced
    /\ FinishRecoveryWith(PlannedRequest)
    /\ Local /\ UNCHANGED <<fileVars, faults>>

RecoverFinish ==
    /\ Recovering("rfinish")
    /\ FinishAttempt(mem.req)
    /\ Recovered
    /\ UNCHANGED <<fileVars, rec, faults>>

\* What Recovery.Run's step at pc refuses even when nothing fails: a row that
\* does not validate, a final name that appeared or vanished, a result that the
\* store does not accept.
RecoveryRefused ==
    \/ pc = "rread" /\ Recoverable /\ ~ValidRecoveryValues
    \/ pc = "rlink" /\ FinalExists
    \/ pc = "rremove" /\ ~RemovePartialAllowed
    \/ pc = "rfinish" /\ ~FinishAllowed(mem.req)

\* Any error of Recovery.Run ends the start of the program.  A failing check
\* after the rename or the removal leaves its effect behind.
RecoveryFails ==
    /\ proc = "recovering"
    /\ IF RecoveryRefused THEN UNCHANGED <<fileVars, faults>>
         ELSE /\ Fault
              /\ \/ UNCHANGED fileVars
                 \/ pc = "rlink" /\ LinkFinal
                 \/ pc = "rremove" /\ RemovePartial
    /\ GoDown
    /\ UNCHANGED <<storeVars, crashes, userOps>>

-----------------------------------------------------------------------------
(* CompletedReconciler.Run, periodically beside the recordings.            *)

\* A faulty selection: published partial recordings are not reconciled.
ReconcileSucceeded == att.state = "SUCCEEDED"

ReconcileTarget ==
    /\ Recoverable
    /\ \/ att.state = "SUCCEEDED"
       \/ att.state = "PARTIAL" /\ att.plan = "USER_REQUESTED_STOP"
       \/ /\ att.state = "PARTIAL" /\ att.plan \in CommunicationReasons
          /\ Useful(att.bytes) /\ WholePackets(att.bytes)
          /\ seg.state = "FINALIZED" /\ seg.synced /\ seg.published /\ seg.dirSynced

ReconcileInspect ==
    /\ proc = "up" /\ ~stopping /\ ~rec.busy
    /\ ReconcileTarget /\ ValidRecoveryValues
    /\ rec' = CompletedAvailability
    /\ UNCHANGED <<storeVars, fileVars, procVars, pc, mem, crashes, faults, userOps>>

\* The update uses what was observed before; a failing one ends the pass.
ReconcileUpdate ==
    /\ proc = "up" /\ rec.busy
    /\ \/ ~stopping /\ UpdateAvailability /\ UNCHANGED faults
       \/ /\ UNCHANGED storeVars
          /\ IF stopping THEN UNCHANGED faults ELSE Fault
    /\ rec' = NoReconcile
    /\ UNCHANGED <<fileVars, procVars, pc, mem, crashes, userOps>>

-----------------------------------------------------------------------------
(* The user.                                                               *)

\* A CtrlCmd delete: Reservations.Delete commits the stop and then, unless it
\* cancelled a waiting reservation, calls NotifyStop.
UserStop ==
    /\ proc = "up" /\ ~notify
    /\ StopReservation
    /\ notify' = (att.state \in Stoppable)
    /\ UNCHANGED <<fileVars, proc, cancelled, registered, stopping, pc, mem, rec,
                   crashes, faults, userOps>>

\* The stop registry's notify: lost when no recording is registered.
DeliverStop ==
    /\ notify
    /\ notify' = FALSE
    /\ cancelled' = (cancelled \/ registered)
    /\ UNCHANGED <<storeVars, fileVars, proc, registered, stopping, pc, mem, rec,
                   crashes, faults, userOps>>

\* Somebody else puts a file under the free final name, or removes it.
ChangeFinal(owner) ==
    /\ userOps < MaxUserOps
    /\ userOps' = userOps + 1
    /\ EnsureDirectory /\ Rename([dir EXCEPT !.final = owner])
    /\ UNCHANGED <<storeVars, procVars, pc, mem, rec, crashes, faults>>

PlaceForeign == ~FinalExists /\ ChangeFinal("foreign")
RemoveFinal == FinalExists /\ ChangeFinal("none")

-----------------------------------------------------------------------------
ExecutorStep ==
    \/ MissFinish \/ Register \/ StartStep \/ CheckInitialStop \/ CreateStep \/ LoopHead
    \/ OpenStep \/ Retry \/ RetryFault \/ CheckFirstStop \/ BeginStep \/ SaveProgress
    \/ SealPartial \/ SealFault \/ PublishChecks \/ FinalizeStep \/ LinkStep \/ MarkStep
    \/ SyncDirectoryStep \/ RemoveStep \/ MarkSyncedStep \/ FinishStep \/ Complete
CopyStep ==
    CopyChunk \/ CopyProgress \/ CopyCancelled \/ CopyEnd \/ CopyFailed \/ CopyFault
RecoveryRun ==
    \/ RecoverNothing \/ RecoverCompleted \/ RecoverAvailability \/ RecoverInterrupted
    \/ RecoverFinalizing \/ RecoverLink \/ RecoverMark \/ RecoverSync \/ RecoverRemove
    \/ RecoverDirectory \/ RecoverFinish \/ RecoveryFails
ProcessStep == ExitOnError \/ Shutdown \/ Exit \/ Crash \/ Restart
UserStep == UserStop \/ DeliverStop \/ PlaceForeign \/ RemoveFinal

Next ==
    \/ Claim \/ MissClaim \/ ExecutorStep \/ CopyStep \/ RecoveryRun
    \/ ReconcileInspect \/ ReconcileUpdate \/ ProcessStep \/ UserStep

Spec == Init /\ [][Next]_vars

-----------------------------------------------------------------------------
(* Fairness.  The goroutine, the recovery and the supervisor that restarts *)
(* the process keep taking steps, and a copy reaches its next progress     *)
(* interval because Read returns in time.  Nothing is assumed of the user, *)
(* of stop notifications, or of crashes and faults; that a copy reaches    *)
(* its planned end is StreamFairness, assumed only where it is named.      *)

Progress ==
    /\ WF_vars(ExecutorStep)
    /\ WF_vars(CopyProgress) /\ WF_vars(CopyCancelled)
    /\ WF_vars(RecoveryRun)
    /\ WF_vars(ExitOnError) /\ WF_vars(Exit) /\ WF_vars(Restart)
StreamFairness == WF_vars(CopyEnd)
ReconcileFairness == WF_vars(ReconcileInspect) /\ WF_vars(ReconcileUpdate)

LiveSpec == Spec /\ Progress /\ ReconcileFairness

-----------------------------------------------------------------------------
(* Properties.                                                             *)

\* No order of stops, faults, crashes and file changes leaves a row that
\* RecoveryAttempts would refuse: one such row keeps the program from ever
\* starting again (validateRecoveryValues, Recovery.Run's first error path).
RecoveryNeverRefuses == Recoverable => ValidRecoveryValues

\* A stored stop request wins against a planned end and a communication error
\* that race with it, and nothing else is published as a user stop.
StopDecidesPlan ==
    /\ att.stop => att.state \notin {"SUCCEEDED", "MISSED"}
    /\ att.plan # None => (att.stop <=> att.plan = "USER_REQUESTED_STOP")

\* The final name only ever shows the recording after its bytes are synced and
\* BeginFinalization stored their count, whatever power loss came before.
FinalNameIsSealed ==
    dir.final = "ours" =>
        /\ att.state \in {"FINALIZING"} \cup Terminal /\ att.plan # None
        /\ att.bytes = size /\ syncedSize = size

\* The recording is gone with the whole directory of its month.
Lost == Completed /\ month = "absent"

\* A row that promises a published file has one, complete, under the final
\* name alone, and a power loss cannot take it back, unless it takes the new
\* directory of the month (ensureDirectory); or somebody changed the names.
PublishedIsDurable ==
    Completed /\ userOps = 0 =>
        \/ Lost /\ PowerLoss
        \/ /\ crashDirs = {[partial |-> FALSE, final |-> "ours"]}
           /\ size = att.bytes /\ syncedSize = size

\* What the final name shows is whole and, once promised, stays as long as the
\* directory of its month: the two above.
FinalFilesSound == FinalNameIsSealed /\ PublishedIsDurable

\* Without outside help and power loss, what a settled row says about its file
\* is what the directory holds, however often the process died on the way: no
\* recorded byte is without a name, and no row calls its file mismatched.
RowMatchesFiles ==
    att.state \in Terminal /\ userOps = 0 /\ ~PowerLoss =>
        \/ seg.avail = "PARTIAL" /\ dir = [partial |-> TRUE, final |-> "none"] /\ att.bytes = size
        \/ seg.avail = "FINAL" /\ Completed /\ ~Lost
        \/ seg.avail = "MISSING" /\ size = 0 /\ dir.final = "none"

\* Publication and recovery never replace or remove a file somebody else put
\* under the final name (LinkFinal, RemovePartial).
ForeignFileKept ==
    [][dir.final = "foreign" => \/ dir'.final = "foreign"
                                \/ userOps' # userOps
                                \/ crashes' # crashes]_vars

\* A claimed recording is settled if copies reach their planned end, whatever
\* crashes and faults happen, as long as they do not go on for ever.
Settles ==
    StreamFairness =>
        (att.state \in Stoppable \cup {"FINALIZING"} ~> att.state \in Terminal)

\* A stored stop request ends the recording without waiting for the stream or
\* for the planned end, even when nothing notifies the recording: the progress
\* interval finds it (copy's AttemptStopRequested).
StopHonoured == att.stop ~> att.state \in Terminal

\* The availability of a published recording ends up agreeing with the
\* directory, although an update may store an observation that is outdated.
AvailabilityConverges ==
    <>[](Completed => /\ seg.avail = CompletedAvailability.avail
                      /\ seg.integrity = CompletedAvailability.integrity)

\* spec/recording/user-stopped-recording-v1.md: a restart at any point after a
\* stored stop request ends as PARTIAL/USER_REQUESTED_STOP with the recorded
\* bytes.  Without faults only the recovery gives PROCESS_INTERRUPTED.
StopSurvivesRestart ==
    att.stop /\ Useful(att.bytes) => att.reason # "PROCESS_INTERRUPTED"

-----------------------------------------------------------------------------
(* The inductive invariant: where the goroutine or the recovery is says    *)
(* what the row's state may be, and which result it is about to store.     *)

BeforeFinalizing ==
    {"claimed", "missed", "start", "check", "create", "loop", "open", "retry", "first",
     "begin", "copy", "progress", "sync", "publish", "finalize"}
Publishing ==
    {"link", "mark", "sync1", "remove", "sync2", "dir",
     "rlink", "rmark", "rsync1", "rremove", "rsync2", "rdir"}

\* What is published as a communication partial broke off for such a reason.
ClosingReason ==
    pc \in {"progress", "sync"} /\ mem.kind = "communication" => mem.reason \in CommunicationReasons

Control ==
    /\ ClosingReason
    /\ pc \in BeforeFinalizing => att.state \in Stoppable
    /\ pc \in Publishing => att.state = "FINALIZING"
    /\ pc \in {"publish", "finalize"} => mem.plan # None
    /\ pc \in {"finish", "rfinish"} => FinishCompatible(mem.req)

\* The rows are consistent and the control fits them, whoever acts next.
RowsInv == TypeOK /\ RowsConsistent /\ Control

\* From BeginFinalization on the bytes are durable and the row counts them, so
\* that whatever name a power loss leaves is that of a whole file.
Sealed ==
    /\ att.state \in {"FINALIZING"} \cup Terminal /\ att.plan # None
    /\ att.bytes = size /\ syncedSize = size
FilesSealed ==
    /\ dir \in crashDirs /\ (month = "absent" => crashDirs = {EmptyDirectory})
    /\ \A d \in crashDirs : d.final = "ours" => Sealed
    /\ att.state = "FINALIZING" => Sealed

\* While nobody else changes the names, the file that a row promises is there
\* alone and durable, and every observation of it finds it, if its directory is.
PartialOnly == [partial |-> TRUE, final |-> "none"]
FinalOnly == [partial |-> FALSE, final |-> "ours"]
FinalDurable == crashDirs = {FinalOnly}
FilesPublished ==
    userOps = 0 =>
        /\ \A d \in crashDirs : d.final # "foreign"
        /\ Completed /\ ~Lost => FinalDurable /\ seg.avail = "FINAL"
        /\ ~Lost => rec.avail = "FINAL"

\* Without power losses either, the bytes that were written have a name, the
\* one that the row says.
Undisturbed == userOps = 0 /\ ~PowerLoss
ResultNamed(avail, bytes) ==
    \/ avail = "PARTIAL" /\ dir = PartialOnly /\ bytes = size
    \/ avail = "MISSING" /\ size = 0 /\ dir.final = "none"
FilesNamed ==
    Undisturbed =>
        /\ ~Lost
        /\ att.state = None => dir = EmptyDirectory /\ size = 0
        /\ att.state \in Stoppable => dir.final = "none" /\ (dir.partial \/ size = 0)
        /\ att.state = "FINALIZING" =>
              /\ dir.final = "none" => dir.partial /\ ~seg.published
              /\ SameFile => ~seg.dirSynced
        /\ att.state \in Terminal =>
              ResultNamed(seg.avail, att.bytes) \/ (seg.avail = "FINAL" /\ Completed)

\* Where the goroutine or the recovery is says what it has done to the files.
BeforeCreation == {"claimed", "missed", "start", "check", "create"}
SyncedPlaces ==
    /\ pc \in {"publish", "finalize"} => syncedSize = size
    /\ pc \in {"finish", "rfinish"} /\ att.state = "FINALIZING" => mem.req.bytes = size
LinkedPlaces ==
    userOps = 0 =>
        /\ pc \in {"mark", "sync1", "remove", "sync2", "dir", "rsync2", "rdir"} => dir = FinalOnly
        /\ pc \in {"rmark", "rsync1", "rremove"} => dir.final = "ours"
        /\ pc \in {"rmark", "rsync1"} => mem.remove \/ ~dir.partial
        /\ pc \in {"remove", "sync2", "dir", "rdir"} => FinalDurable
        /\ pc \in {"finish", "rfinish"} /\ att.state = "FINALIZING" /\ Successful(mem.req) =>
              FinalDurable
NamedPlaces ==
    Undisturbed =>
        /\ pc \in BeforeCreation => dir = EmptyDirectory /\ size = 0
        /\ pc \in (BeforeFinalizing \cup {"link", "rlink"}) \ BeforeCreation => dir = PartialOnly
        /\ pc \in {"first", "begin"} => ~mem.started
        /\ pc = "copy" => mem.started
        /\ pc \in {"loop", "open", "retry", "first", "begin"} /\ ~mem.started => size = 0
        /\ pc \in {"progress", "sync"} /\ mem.kind = "before" => size = 0
        /\ pc = "missed" => mem.req.avail = "MISSING"
        /\ pc \in {"finish", "rfinish"} =>
              ResultNamed(mem.req.avail, mem.req.bytes) \/ Successful(mem.req)

\* The rows, the files and the control fit together.
FilesInv == FilesSealed /\ FilesPublished /\ FilesNamed
PlacesInv == SyncedPlaces /\ LinkedPlaces /\ NamedPlaces
IInv == RowsInv /\ FilesInv /\ PlacesInv

-----------------------------------------------------------------------------
(* RecordingPromise, implemented by the rows.                              *)

PromisedPhase ==
    CASE att.state = None -> IF resv.state = "ACTIVE" THEN "waiting" ELSE "cancelled"
      [] att.state \in Stoppable -> "running"
      [] att.state = "FINALIZING" -> "publishing"
      [] att.state \in Terminal -> "settled"

PublishedOutcome(reason) ==
    CASE reason \in SuccessReasons -> "completed"
      [] reason \in CommunicationReasons -> "interrupted"
      [] reason = "USER_REQUESTED_STOP" -> "stopped"

PromisedOutcome ==
    CASE att.state = "FINALIZING" -> PublishedOutcome(att.plan)
      [] Completed -> PublishedOutcome(att.reason)
      [] att.state = "MISSED" -> "missed"
      [] att.state \in {None} \cup Stoppable -> "none"
      [] OTHER -> "unpublished"

Promise == INSTANCE RecordingPromise WITH
              phase <- PromisedPhase, stop <- att.stop, outcome <- PromisedOutcome

\* Whatever the goroutine, the recovery and their failures do to the rows, the
\* reservation goes through the promised phases: one recording, one decision
\* that a later step can realise or give up but not replace, one settled result
\* (the compare-and-set updates of recording_repository.go).
KeepsPromise == Promise!Spec
=============================================================================
