------------------------------- MODULE OneSeg -------------------------------
(***************************************************************************)
(* A reservation with a one-seg output: the second file (segment ordinal   *)
(* 1) that internal/app/recording/executor_oneseg.go records beside the    *)
(* main one, its joining with the main recording's end, its publication    *)
(* after the main file, and the startup recovery of both segments          *)
(* (recovery.go), over the one-seg row of recording_repository.go and the  *)
(* one-seg file of RecordingFiles.                                         *)
(*                                                                         *)
(* The main recording is the one of module Recording; here only what the   *)
(* one-seg side sees of it is kept: the reason it ends for, whether its    *)
(* file is useful, and whether its publication ended with directory_synced.*)
(* Time is a choice, as in Recording.                                      *)
(***************************************************************************)
EXTENDS RecordingFiles

CONSTANTS
    Packet,         \* 188: one TS packet and minimumUsefulTS
    MaxBytes,       \* bound on the bytes of the one-seg file
    MaxReconnects,  \* length of reconnectDelays
    MaxCrashes, MaxFaults, MaxUserOps   \* bounds on crashes, failures, foreign changes

OneSegAssumption ==
    /\ Packet \in Nat \ {0} /\ Packet <= MaxBytes /\ MaxBytes \in Nat
    /\ MaxReconnects \in Nat /\ MaxCrashes \in Nat /\ MaxFaults \in Nat /\ MaxUserOps \in Nat

VARIABLES
    att,        \* recording_attempts: state, stop request, planned reason
    main,       \* recording_segments, ordinal 0: its state
    one,        \* recording_segments, ordinal 1
    proc,       \* "up", "recovering" or "down"
    pc, mem,    \* the recording goroutine or the recovery, and its locals
    cancelled,  \* the recording's context is cancelled
    coord,      \* oneSegCoordinator
    aux,        \* the helper goroutine of runOneSeg
    done,       \* the coordinator's channel: the helper's result, if sent
    crashes, faults, userOps

rows == <<att, main, one>>
helperVars == <<aux, done>>
counters == <<crashes, faults, userOps>>
vars == <<rows, fileVars, proc, pc, mem, cancelled, coord, helperVars, counters>>

None == "none"
Communication == {"STREAM_ENDED_EARLY", "STREAM_TIMEOUT", "STREAM_RECONNECT_EXHAUSTED"}
Reasons == Communication \cup
    {None, "COMPLETED", "USER_REQUESTED_STOP", "PROCESS_SHUTDOWN", "PROCESS_INTERRUPTED",
     "STREAM_CANCELLED", "STREAM_UNAVAILABLE", "STREAM_NOT_FOUND", "FILE_CREATE_FAILED",
     "FILE_WRITE_FAILED", "FILE_SYNC_FAILED", "FILE_MISSING", "FILE_INTEGRITY_MISMATCH",
     "FINAL_NAME_CONFLICT", "FINAL_PUBLICATION_FAILED"}
Successful == {"SUCCEEDED", "PARTIAL"}     \* terminal states of a published main file
Terminal == Successful \cup {"FAILED"}      \* "FAILED" stands for every other end

Useful(bytes) == bytes >= Packet
WholePackets(bytes) == bytes % Packet = 0

Results == [bytes : 0 .. MaxBytes, avail : {"PARTIAL", "MISSING", "MISMATCHED"},
            reason : Reasons, synced : BOOLEAN, publish : BOOLEAN]
NoResult == [bytes |-> 0, avail |-> "MISSING", reason |-> None, synced |-> FALSE,
             publish |-> FALSE]
Missing(reason) == [NoResult EXCEPT !.reason = reason]

NoLocals == [reason |-> None, allow |-> FALSE, detached |-> FALSE, remove |-> FALSE,
             save |-> NoResult]
NoCoord == [started |-> FALSE, joined |-> FALSE, cancel |-> FALSE, result |-> NoResult]
NoAux == [pc |-> "none", conn |-> 0, started |-> FALSE, reached |-> FALSE, reason |-> None]
Ended == {"none", "over"}

PlannedRow == [state |-> "PLANNED", bytes |-> 0, synced |-> FALSE, published |-> FALSE,
               dirSynced |-> FALSE, avail |-> "PLANNED", integrity |-> None]

\* Where the recording goroutine, the recovery and the helper may be.
BeforeMain == {"starting", "recording", "publish", "join", "wait", "begin", "main", "finish"}
AfterMain == {"link", "mark", "sync1", "remove", "sync2", "dir", "save", "success"}
AfterRead == {"inspect", "rsave", "rlink", "rmark", "rsync1", "rremove", "rsync2", "rdir", "rfinish"}
Places == BeforeMain \cup AfterMain \cup AfterRead \cup {"error", "idle", "read"}
HelperPlaces == {"create", "loop", "open", "first", "copy", "retry", "save", "seal"} \cup Ended

SegmentStates == {"PLANNED", "WRITING", "PARTIAL", "FINALIZED"}
Attempts == [state : {"STARTING", "RECORDING", "FINALIZING"} \cup Terminal, stop : BOOLEAN,
             plan : Reasons]
Segments == [state : SegmentStates, bytes : 0 .. MaxBytes, synced : BOOLEAN, published : BOOLEAN,
             dirSynced : BOOLEAN, integrity : Reasons,
             avail : {"PLANNED", "PARTIAL", "FINAL", "MISSING", "MISMATCHED"}]
Locals == [reason : Reasons, allow : BOOLEAN, detached : BOOLEAN, remove : BOOLEAN, save : Results]
Coordinators == [started : BOOLEAN, joined : BOOLEAN, cancel : BOOLEAN, result : Results]
Helpers == [pc : HelperPlaces, conn : 0 .. MaxReconnects, started : BOOLEAN, reached : BOOLEAN,
            reason : Reasons]

\* Every row, result and local stays in the values the code may store.
OneSegTypeOK ==
    /\ att \in Attempts /\ main \in SegmentStates /\ one \in Segments
    /\ FilesTypeOK(MaxBytes)
    /\ proc \in {"up", "recovering", "down"} /\ pc \in Places
    /\ mem \in Locals /\ cancelled \in BOOLEAN
    /\ coord \in Coordinators /\ aux \in Helpers /\ done \in Results
    /\ crashes \in Nat /\ faults \in Nat /\ userOps \in Nat

\* The claim has stored both segments; the main stream is about to be opened.
FreshInit ==
    /\ att = [state |-> "STARTING", stop |-> FALSE, plan |-> None]
    /\ main = "PLANNED" /\ one = PlannedRow
    /\ FilesInit
    /\ proc = "up" /\ pc = "starting"

\* A version that published with a hard link left both names behind.
LegacyInit ==
    /\ att = [state |-> "FINALIZING", stop |-> FALSE, plan |-> "COMPLETED"]
    /\ main = "FINALIZED"
    /\ \E published \in BOOLEAN :
          one = [PlannedRow EXCEPT !.state = "PARTIAL", !.bytes = Packet, !.synced = TRUE,
                                   !.avail = "PARTIAL", !.published = published]
    /\ dir = [partial |-> TRUE, final |-> "ours"]
    /\ month \in {"new", "kept"} /\ crashDirs = {dir}
    /\ size = Packet /\ syncedSize = Packet
    /\ proc = "down" /\ pc = "idle"

Init ==
    /\ FreshInit \/ LegacyInit
    /\ mem = NoLocals /\ cancelled = FALSE
    /\ coord = NoCoord /\ aux = NoAux /\ done = NoResult
    /\ crashes = 0 /\ faults = 0 /\ userOps = 0

-----------------------------------------------------------------------------
Fault == faults < MaxFaults /\ faults' = faults + 1
Goto(label) == pc' = label /\ UNCHANGED mem
CancelReason == IF att.stop THEN "USER_REQUESTED_STOP" ELSE "PROCESS_SHUTDOWN"

\* A step of the recording goroutine that leaves the helper alone.
MainLocal == UNCHANGED <<proc, cancelled, helperVars, crashes, userOps>>
MainOnly == MainLocal /\ UNCHANGED <<rows, fileVars, coord, faults>>
\* executeClaimed returns an error.
Abort == Goto("error") /\ Fault /\ MainLocal /\ UNCHANGED <<rows, fileVars, coord>>

-----------------------------------------------------------------------------
(* The main recording up to its end.                                        *)

\* coordinator.start.
StartHelper ==
    /\ coord' = [coord EXCEPT !.started = TRUE]
    /\ aux' = [NoAux EXCEPT !.pc = "create"]

\* oneSegAttemptStore.RecordingStarted: the helper starts after the commit.
RecordingStarted ==
    /\ pc = "starting"
    /\ \/ /\ ~cancelled
          /\ att' = [att EXCEPT !.state = "RECORDING"]
          /\ main' = "WRITING"
          /\ StartHelper
          /\ Goto("recording")
          /\ NotCreated        \* the main file's CreatePartial made the directories
          /\ UNCHANGED <<one, proc, cancelled, done, counters>>
       \/ cancelled /\ Goto("error") /\ MainOnly
       \/ Abort

\* Every method that ends the main recording without a publication: the
\* request of FinishAttempt, after the helper was joined.
FailWith(reason) ==
    /\ pc' = "join"
    /\ mem' = [mem EXCEPT !.reason = reason, !.allow = FALSE]

\* Nothing was recorded: a stop, a shutdown or a stream that never opened.
FailBefore ==
    /\ pc = "starting"
    /\ FailWith(IF cancelled \/ att.stop THEN CancelReason ELSE "STREAM_NOT_FOUND")
    /\ MainOnly

\* How the main stream may end; the planned end reads the stop request.
MainEnds ==
    IF cancelled THEN {CancelReason}
    ELSE {"STREAM_TIMEOUT", "FILE_WRITE_FAILED"} \cup
         (IF att.stop THEN {"USER_REQUESTED_STOP"} ELSE {"COMPLETED"})

\* The sealed main file goes to publishFinal when its end and its length allow.
StopRecording ==
    /\ pc = "recording"
    /\ \E reason \in MainEnds :
          \/ /\ reason \in {"COMPLETED", "USER_REQUESTED_STOP", "STREAM_TIMEOUT"}
             /\ pc' = "publish"
             /\ mem' = [mem EXCEPT !.reason = reason, !.allow = TRUE]
          \/ FailWith(reason)
    /\ MainOnly

\* publishFinal's context checks; a user stop detaches from the context.
PublishChecks ==
    /\ pc = "publish"
    /\ IF cancelled /\ CancelReason # "USER_REQUESTED_STOP" /\ mem.reason # "USER_REQUESTED_STOP"
         THEN FailWith("PROCESS_SHUTDOWN")
         ELSE LET reason == IF cancelled THEN "USER_REQUESTED_STOP" ELSE mem.reason
              IN  /\ pc' = "join"
                  /\ mem' = [mem EXCEPT !.reason = reason,
                                        !.detached = (reason = "USER_REQUESTED_STOP")]
    /\ MainOnly

-----------------------------------------------------------------------------
(* coordinator.join and the end of the main recording.                      *)

Unpublished(result, reason) ==
    [result EXCEPT !.publish = FALSE, !.reason = reason, !.avail = "PARTIAL"]

\* What join makes of the helper's result: a helper that only the main
\* recording's end or the user stopped is worth publishing.
Promoted(result, reason, late, allow) ==
    LET whole == Useful(result.bytes) /\ result.synced
        byMain == late /\ result.reason = "STREAM_CANCELLED"
        byUser == /\ reason = "USER_REQUESTED_STOP"
                  /\ result.reason \in {"USER_REQUESTED_STOP", "STREAM_CANCELLED"}
    IN  IF ~allow
          THEN IF result.publish THEN Unpublished(result, reason) ELSE result
        ELSE IF whole /\ (byMain \/ byUser) /\ reason \in {"COMPLETED", "USER_REQUESTED_STOP"}
          THEN [result EXCEPT !.publish = TRUE, !.reason = reason, !.avail = "PARTIAL"]
        ELSE IF whole /\ byMain /\ WholePackets(result.bytes) /\ reason \in Communication
          THEN [result EXCEPT !.publish = TRUE, !.reason = reason, !.avail = "PARTIAL"]
        ELSE result

Joined(result) ==
    /\ coord' = [coord EXCEPT !.joined = TRUE, !.result = result]
    /\ Goto(IF mem.allow THEN "begin" ELSE "finish")

\* A faulty join that waits for a helper which was never started.
JoinUnstarted ==
    /\ pc = "join"
    /\ \/ coord.joined /\ Joined(coord.result)
       \/ ~coord.joined /\ done # NoResult /\ Joined(Promoted(done, mem.reason, FALSE, mem.allow))
       \/ /\ ~coord.joined /\ done = NoResult
          /\ coord' = [coord EXCEPT !.cancel = TRUE]
          /\ Goto("wait")
    /\ MainLocal /\ UNCHANGED <<rows, fileVars, faults>>

\* A faulty join that does not wait for the helper.
JoinUnwaited ==
    /\ pc = "join"
    /\ \/ /\ coord.joined
          /\ Joined(IF ~mem.allow /\ coord.result.publish
                    THEN Unpublished(coord.result, mem.reason) ELSE coord.result)
       \/ ~coord.joined /\ ~coord.started /\ Joined(Missing(mem.reason))
       \/ /\ ~coord.joined /\ coord.started
          /\ Joined(IF done = NoResult THEN Missing(mem.reason)
                    ELSE Promoted(done, mem.reason, FALSE, mem.allow))
    /\ MainLocal /\ UNCHANGED <<rows, fileVars, faults>>

Join ==
    /\ pc = "join"
    /\ \/ /\ coord.joined
          /\ Joined(IF ~mem.allow /\ coord.result.publish
                    THEN Unpublished(coord.result, mem.reason) ELSE coord.result)
       \/ ~coord.joined /\ ~coord.started /\ Joined(Missing(mem.reason))
       \/ /\ ~coord.joined /\ coord.started /\ done # NoResult
          /\ Joined(Promoted(done, mem.reason, FALSE, mem.allow))
       \/ /\ ~coord.joined /\ coord.started /\ done = NoResult
          /\ coord' = [coord EXCEPT !.cancel = TRUE]
          /\ Goto("wait")
    /\ MainLocal /\ UNCHANGED <<rows, fileVars, faults>>

JoinWait ==
    /\ pc = "wait" /\ done # NoResult
    /\ Joined(Promoted(done, mem.reason, TRUE, mem.allow))
    /\ MainLocal /\ UNCHANGED <<rows, fileVars, faults>>

\* The row that BeginFinalization, FinishAttempt and SetOneSegOutcome store for
\* ordinal 1: an outcome takes the publication flags back.
Outcome(result) ==
    [state |-> "PARTIAL", bytes |-> result.bytes, synced |-> result.synced,
     published |-> FALSE, dirSynced |-> FALSE, avail |-> result.avail,
     integrity |-> IF result.publish THEN None ELSE result.reason]

\* BeginFinalization of the wrapper and of the store, which resolves a stop
\* request committed after the caller looked.
StoreFinalization(reason) ==
    /\ att.state = "RECORDING" /\ main = "WRITING"
    /\ one.state \in {"PLANNED", "WRITING"} /\ one.bytes <= coord.result.bytes
    /\ reason = "USER_REQUESTED_STOP" => att.stop
    /\ LET resolved == IF att.stop THEN "USER_REQUESTED_STOP" ELSE reason
       IN  att' = [att EXCEPT !.state = "FINALIZING", !.plan = resolved]
    /\ main' = "PARTIAL"
    /\ one' = Outcome(coord.result)

BeginFinalization ==
    /\ pc = "begin"
    /\ \/ /\ ~cancelled \/ mem.detached \/ att.stop
          /\ StoreFinalization(IF cancelled /\ ~mem.detached
                               THEN "USER_REQUESTED_STOP" ELSE mem.reason)
          /\ Goto("main")
          /\ MainLocal /\ UNCHANGED <<fileVars, coord, faults>>
       \/ /\ cancelled /\ ~mem.detached /\ ~att.stop     \* ErrFinalizationUnavailable
          /\ FailWith("PROCESS_SHUTDOWN")
          /\ MainOnly
       \/ Abort

\* The main file's publication, up to MarkDirectorySynced of ordinal 0; only a
\* directory without renames ends it with FinishAttempt.
PublishMain ==
    /\ pc = "main"
    /\ \/ /\ main' = "FINALIZED"
          /\ Goto("link")
          /\ MainLocal /\ UNCHANGED <<att, one, fileVars, coord, faults>>
       \/ /\ Fault /\ FailWith("FINAL_PUBLICATION_FAILED")
          /\ MainLocal /\ UNCHANGED <<rows, fileVars, coord>>
       \/ Abort

-----------------------------------------------------------------------------
(* FinishAttempt.                                                           *)

\* FinishAttempt's check of ordinal 1 when the main recording is published.
OneSegSettled ==
    \/ /\ one.state = "FINALIZED" /\ one.avail = "FINAL"
       /\ one.synced /\ one.published /\ one.dirSynced /\ one.integrity = None
    \/ /\ one.state \in {"PARTIAL", "FINALIZED"} /\ one.integrity # None
       /\ one.avail \in {"PARTIAL", "MISSING", "MISMATCHED"}

PlannedState == IF att.plan = "COMPLETED" THEN "SUCCEEDED" ELSE "PARTIAL"

FinishSuccessful ==
    /\ att.state = "FINALIZING" /\ main = "FINALIZED" /\ OneSegSettled
    /\ att' = [att EXCEPT !.state = PlannedState]
    /\ UNCHANGED <<main, one>>

\* An unsuccessful end stores the one-seg outcome in the same transaction, and
\* makes of a main row with bytes a partial one.
FinishUnsuccessful(result) ==
    /\ att.state \notin Terminal /\ ~result.publish
    /\ att' = [att EXCEPT !.state = "FAILED"]
    /\ one' = Outcome(result)
    /\ main' \in {"PARTIAL"} \cup ({main} \cap {"PLANNED", "WRITING"})

Finish ==
    /\ pc \in {"finish", "success"}
    /\ \/ /\ IF pc = "success" THEN FinishSuccessful ELSE FinishUnsuccessful(coord.result)
          /\ Goto("idle")
          /\ MainLocal /\ UNCHANGED <<fileVars, coord, faults>>
       \/ pc = "success" /\ ~OneSegSettled /\ Goto("error") /\ MainOnly
       \/ Abort

\* The deferred coordinator.close: cancel, then wait for the helper.
CloseCancel ==
    /\ pc = "error" /\ coord.started /\ ~coord.joined /\ ~coord.cancel
    /\ coord' = [coord EXCEPT !.cancel = TRUE]
    /\ Goto("error")
    /\ MainLocal /\ UNCHANGED <<rows, fileVars, faults>>

CloseWait ==
    /\ pc = "error"
    /\ ~coord.started \/ coord.joined \/ done # NoResult
    /\ Goto("idle") /\ MainOnly

-----------------------------------------------------------------------------
(* coordinator.publish, after the main file's directory_synced.             *)

\* savePublishFailure's outcome.
SaveFailure(reason, avail) ==
    /\ pc' = "save"
    /\ mem' = [mem EXCEPT !.save = [coord.result EXCEPT !.publish = FALSE, !.reason = reason,
                                                        !.avail = avail]]

Link ==
    /\ pc = "link"
    /\ \/ /\ ~coord.result.publish
          /\ Goto("success") /\ UNCHANGED <<fileVars, faults>>
       \/ coord.result.publish /\ LinkFinal /\ Goto("mark") /\ UNCHANGED faults
       \/ /\ coord.result.publish /\ FinalExists
          /\ SaveFailure("FINAL_NAME_CONFLICT", "MISMATCHED") /\ UNCHANGED <<fileVars, faults>>
       \/ /\ coord.result.publish /\ Fault
          /\ SaveFailure("FINAL_PUBLICATION_FAILED", "PARTIAL") /\ UNCHANGED fileVars
    /\ MainLocal /\ UNCHANGED <<rows, coord>>

\* markSegmentFinalizationFlag for ordinal 1.
FlagAllowed ==
    /\ att.state = "FINALIZING"
    /\ one.state = "PARTIAL" /\ one.synced /\ one.integrity = None
MarkFinalPublished ==
    /\ FlagAllowed
    /\ one' = [one EXCEPT !.published = TRUE]
    /\ UNCHANGED <<att, main>>
MarkDirectorySynced ==
    /\ FlagAllowed /\ one.published
    /\ one' = [one EXCEPT !.dirSynced = TRUE, !.state = "FINALIZED", !.avail = "FINAL"]
    /\ UNCHANGED <<att, main>>

\* SetOneSegOutcome.
SetOneSegOutcome(result) ==
    /\ att.state = "FINALIZING" /\ ~result.publish
    /\ one' = Outcome(result)
    /\ UNCHANGED <<att, main>>

Mark ==
    /\ pc \in {"mark", "dir"}
    /\ \/ /\ IF pc = "mark" THEN MarkFinalPublished ELSE MarkDirectorySynced
          /\ Goto(IF pc = "mark" THEN "sync1" ELSE "success")
          /\ MainLocal /\ UNCHANGED <<fileVars, coord, faults>>
       \/ Abort

\* The two directory syncs with the removal of the partial name between them.
PublishFiles ==
    /\ \/ pc = "sync1" /\ SyncDirectory /\ Goto("remove") /\ UNCHANGED faults
       \/ pc = "remove" /\ RemovePartial /\ Goto("sync2") /\ UNCHANGED faults
       \/ pc = "sync2" /\ SyncDirectory /\ Goto("dir") /\ UNCHANGED faults
       \/ /\ pc \in {"sync1", "sync2"} /\ Fault
          /\ SaveFailure("FILE_SYNC_FAILED", "PARTIAL") /\ UNCHANGED fileVars
       \/ /\ pc = "remove"
          /\ IF RemovePartialAllowed THEN Fault ELSE UNCHANGED faults
          /\ SaveFailure("FINAL_PUBLICATION_FAILED", "PARTIAL") /\ UNCHANGED fileVars
    /\ MainLocal /\ UNCHANGED <<rows, coord>>

\* A faulty publication whose unsaved failure fails the recording.
SavePublishFailureOrFail ==
    /\ pc = "save"
    /\ \/ /\ SetOneSegOutcome(mem.save)
          /\ coord' = [coord EXCEPT !.result = mem.save]
          /\ Goto("success")
          /\ MainLocal /\ UNCHANGED <<fileVars, faults>>
       \/ /\ Fault /\ FailWith("FINAL_PUBLICATION_FAILED")
          /\ MainLocal /\ UNCHANGED <<rows, fileVars, coord>>

SavePublishFailure ==
    /\ pc = "save"
    /\ \/ /\ SetOneSegOutcome(mem.save)
          /\ coord' = [coord EXCEPT !.result = mem.save]
          /\ Goto("success")
          /\ MainLocal /\ UNCHANGED <<fileVars, faults>>
       \/ Abort

-----------------------------------------------------------------------------
(* runOneSeg, the helper goroutine.                                         *)

HelperLocal ==
    UNCHANGED <<att, main, proc, pc, mem, cancelled, coord, crashes, userOps>>
HelperOnly == HelperLocal /\ UNCHANGED <<one, fileVars, faults, done>>

\* closeOneSeg(reason, reached): the last progress is saved only when started.
CloseWith(reason, reached) ==
    aux' = [aux EXCEPT !.pc = IF @ # "copy" /\ ~aux.started THEN "seal" ELSE "save",
                       !.reason = reason, !.reached = reached]
HelperGoto(label) == aux' = [aux EXCEPT !.pc = label]

Send(result) ==
    /\ done' = result
    /\ HelperGoto("over")

HelperCreate ==
    /\ aux.pc = "create"
    /\ \/ CreatePartial /\ HelperGoto("loop") /\ UNCHANGED <<done, faults>>
       \/ CreatePartial /\ CloseWith("STREAM_NOT_FOUND", FALSE) /\ UNCHANGED <<done, faults>>
       \/ Fault /\ Send(Missing("FILE_CREATE_FAILED")) /\ CreateFails
    /\ HelperLocal /\ UNCHANGED one

\* The checks at the head of the connection loop, in the code's order.
HelperLoop ==
    /\ aux.pc = "loop"
    /\ \/ cancelled /\ CloseWith(CancelReason, FALSE)
       \/ ~cancelled /\ coord.cancel /\ CloseWith("STREAM_CANCELLED", FALSE)
       \/ ~cancelled /\ ~coord.cancel /\ att.stop /\ CloseWith("USER_REQUESTED_STOP", FALSE)
       \/ /\ ~cancelled /\ ~coord.cancel /\ ~att.stop
          /\ \/ CloseWith("COMPLETED", aux.started)
             \/ CloseWith(IF aux.conn > 0 THEN aux.reason ELSE "STREAM_TIMEOUT", FALSE)
             \/ HelperGoto("open")
    /\ HelperOnly

HelperOpen ==
    /\ aux.pc = "open"
    /\ \/ ~cancelled /\ ~coord.cancel /\ HelperGoto(IF aux.started THEN "copy" ELSE "first")
       \/ \E reason \in {"STREAM_UNAVAILABLE", "STREAM_TIMEOUT", "STREAM_CANCELLED"} :
             aux' = [aux EXCEPT !.pc = "retry", !.reason = reason]
    /\ HelperOnly

\* OneSegRecordingStarted ignores the cancellation.
HelperFirst ==
    /\ aux.pc = "first"
    /\ \/ /\ att.state = "RECORDING" /\ one.state = "PLANNED"
          /\ one' = [one EXCEPT !.state = "WRITING"]
          /\ aux' = [aux EXCEPT !.pc = "copy", !.started = TRUE]
          /\ UNCHANGED faults
       \/ Fault /\ CloseWith("PROCESS_INTERRUPTED", FALSE) /\ UNCHANGED one
    /\ HelperLocal /\ UNCHANGED <<fileVars, done>>

\* UpdateOneSegProgress.
SaveOneSegProgress ==
    /\ att.state = "RECORDING" /\ one.state = "WRITING" /\ one.bytes <= size
    /\ one' = [one EXCEPT !.bytes = size]

HelperCopy ==
    /\ aux.pc = "copy"
    /\ \/ /\ ~cancelled /\ size < MaxBytes
          /\ WritePartial(1) /\ UNCHANGED <<aux, one, faults>>
       \/ /\ ~cancelled /\ SaveOneSegProgress
          /\ IF att.stop THEN CloseWith("USER_REQUESTED_STOP", FALSE) ELSE UNCHANGED aux
          /\ UNCHANGED <<fileVars, faults>>
       \/ cancelled /\ CloseWith(CancelReason, FALSE) /\ UNCHANGED <<one, fileVars, faults>>
       \/ /\ ~cancelled /\ coord.cancel
          /\ CloseWith("STREAM_CANCELLED", FALSE) /\ UNCHANGED <<one, fileVars, faults>>
       \/ /\ ~cancelled       \* endCopy
          /\ IF att.stop THEN CloseWith("USER_REQUESTED_STOP", FALSE)
                         ELSE CloseWith("COMPLETED", TRUE)
          /\ UNCHANGED <<one, fileVars, faults>>
       \/ /\ ~cancelled /\ ~coord.cancel
          /\ \E reason \in {"STREAM_ENDED_EARLY", "STREAM_TIMEOUT", "STREAM_UNAVAILABLE"} :
                aux' = [aux EXCEPT !.pc = "retry", !.reason = reason]
          /\ UNCHANGED <<one, fileVars, faults>>
       \/ /\ Fault
          /\ \E reason \in {"FILE_WRITE_FAILED", "PROCESS_INTERRUPTED"} :
                CloseWith(reason, FALSE)
          /\ UNCHANGED <<one, fileVars>>
    /\ HelperLocal /\ UNCHANGED done

\* prepareReconnect: another connection, the planned end, or the end of the
\* helper for the reason the last connection was lost.
HelperRetry ==
    /\ aux.pc = "retry"
    /\ \/ /\ ~cancelled /\ ~coord.cancel
          /\ aux.conn < MaxReconnects /\ aux.reason # "STREAM_CANCELLED"
          /\ aux' = [aux EXCEPT !.pc = "loop", !.conn = @ + 1]
       \/ /\ ~cancelled /\ ~coord.cancel /\ aux.reason # "STREAM_CANCELLED"
          /\ IF att.stop THEN CloseWith("USER_REQUESTED_STOP", FALSE)
                         ELSE CloseWith("COMPLETED", aux.started)
       \/ CloseWith(IF aux.conn = MaxReconnects /\ aux.reason # "STREAM_CANCELLED"
                    THEN "STREAM_RECONNECT_EXHAUSTED" ELSE aux.reason, FALSE)
    /\ HelperOnly

\* closeOneSeg.
HelperSave ==
    /\ aux.pc = "save"
    /\ \/ SaveOneSegProgress /\ HelperGoto("seal") /\ UNCHANGED faults
       \/ /\ Fault /\ UNCHANGED one
          /\ aux' = [aux EXCEPT !.pc = "seal", !.reason = "PROCESS_INTERRUPTED",
                                !.reached = FALSE]
    /\ HelperLocal /\ UNCHANGED <<fileVars, done>>

HelperSeal ==
    /\ aux.pc = "seal"
    /\ \/ /\ SyncPartial
          /\ LET partial == /\ aux.started /\ aux.reason \in Communication
                            /\ Useful(size) /\ WholePackets(size)
                 reached == aux.reached \/ partial
             IN  Send([bytes |-> size, avail |-> "PARTIAL",
                       reason |-> IF reached /\ ~Useful(size) THEN "STREAM_ENDED_EARLY"
                                  ELSE aux.reason,
                       synced |-> TRUE, publish |-> reached /\ Useful(size)])
          /\ UNCHANGED faults
       \/ /\ Fault
          /\ SyncPartial \/ UNCHANGED fileVars
          /\ Send([bytes |-> size, avail |-> "PARTIAL", reason |-> "FILE_SYNC_FAILED",
                   synced |-> FALSE, publish |-> FALSE])
    /\ HelperLocal /\ UNCHANGED one

Helper ==
    \/ HelperCreate \/ HelperLoop \/ HelperOpen \/ HelperFirst \/ HelperCopy
    \/ HelperRetry \/ HelperSave \/ HelperSeal

-----------------------------------------------------------------------------
(* The user, the service and whoever else writes to the directory.          *)

\* StopReservation, and the stop registry's cancellation after it.
RequestStop ==
    /\ proc = "up" /\ ~att.stop /\ att.state \in {"STARTING", "RECORDING"}
    /\ att' = [att EXCEPT !.stop = TRUE]
    /\ UNCHANGED <<main, one, fileVars, proc, pc, mem, cancelled, coord, helperVars, counters>>

\* The registry's cancellation, or the service's shutdown.
Cancel ==
    /\ proc = "up" /\ pc # "idle" /\ ~cancelled
    /\ cancelled' = TRUE
    /\ UNCHANGED <<rows, fileVars, proc, pc, mem, coord, helperVars, counters>>

\* Only the one-seg file's names, in a directory that is there.
ChangeFinalName ==
    /\ userOps < MaxUserOps /\ userOps' = userOps + 1 /\ month # "absent"
    /\ \E owner \in {"none", "foreign"} \ {dir.final} :
          /\ dir' = [dir EXCEPT !.final = owner]
          /\ crashDirs' = crashDirs \cup {dir'}
    /\ UNCHANGED <<rows, month, size, syncedSize, proc, pc, mem, cancelled, coord, helperVars,
                   crashes, faults>>

GoDown ==
    /\ proc' = "down" /\ pc' = "idle" /\ mem' = NoLocals
    /\ cancelled' = FALSE /\ coord' = NoCoord /\ aux' = NoAux /\ done' = NoResult

\* The process dies or the machine loses power, at any moment.
Crash ==
    /\ proc # "down" /\ crashes < MaxCrashes /\ crashes' = crashes + 1
    /\ GoDown
    /\ UNCHANGED fileVars \/ LosePower
    /\ UNCHANGED <<rows, faults, userOps>>

\* The recording is over: the service ends.
Exit ==
    /\ proc = "up" /\ pc = "idle" /\ GoDown
    /\ UNCHANGED <<rows, fileVars, counters>>

-----------------------------------------------------------------------------
(* Recovery.Run.                                                            *)

Restart ==
    /\ proc = "down"
    /\ proc' = "recovering" /\ Goto("read")
    /\ UNCHANGED <<rows, fileVars, cancelled, coord, helperVars, counters>>

RecoverLocal == UNCHANGED <<cancelled, coord, helperVars, crashes, userOps>>
Recovering(label) == proc = "recovering" /\ pc = label
\* The service starts.
Recovered == proc' = "up" /\ pc' = "idle" /\ mem' = NoLocals
\* Any error of Recovery.Run: the program does not start.
RecoveryFails ==
    /\ proc = "recovering" /\ Fault /\ GoDown
    /\ UNCHANGED <<rows, fileVars, crashes, userOps>>

\* oneSegInterruptedResult.
Interrupted(reason) ==
    IF FinalExists
      THEN [Missing("FILE_INTEGRITY_MISMATCH") EXCEPT !.bytes = one.bytes, !.avail = "MISMATCHED"]
    ELSE IF dir.partial
      THEN [Missing(reason) EXCEPT !.bytes = size, !.avail = "PARTIAL"]
    ELSE IF one.avail = "MISMATCHED"
      THEN [Missing("FILE_INTEGRITY_MISMATCH") EXCEPT !.avail = "MISMATCHED"]
    ELSE Missing(reason)

\* Nothing is listed for an attempt that ended without a published file.
RecoverNothing ==
    /\ Recovering("read") /\ att.state = "FAILED"
    /\ Recovered
    /\ RecoverLocal /\ UNCHANGED <<rows, fileVars, faults>>

\* finishInterrupted.
RecoverInterrupted ==
    /\ Recovering("read") /\ att.state \in {"STARTING", "RECORDING"}
    /\ FinishUnsuccessful(Interrupted("PROCESS_INTERRUPTED"))
    /\ Recovered
    /\ RecoverLocal /\ UNCHANGED <<fileVars, faults>>

\* recoverMainFinalization: a main file not yet marked may have been lost, and
\* a marked one with the directory that holds it.
MainFailures ==
    IF month = "absent" THEN {"FILE_MISSING"}
    ELSE IF main = "PARTIAL"
      THEN {"FILE_MISSING", "FILE_INTEGRITY_MISMATCH", "FINAL_PUBLICATION_FAILED"}
    ELSE {}

RecoverMain ==
    /\ Recovering("read") /\ att.state = "FINALIZING"
    /\ \/ /\ month # "absent"
          /\ main' = "FINALIZED" /\ UNCHANGED <<att, one>>
          /\ Goto("inspect") /\ UNCHANGED proc
       \/ /\ \E reason \in MainFailures : FinishUnsuccessful(Interrupted(reason))
          /\ Recovered
    /\ RecoverLocal /\ UNCHANGED <<fileVars, faults>>

Mismatch == [Missing("FILE_INTEGRITY_MISMATCH") EXCEPT !.bytes = one.bytes, !.avail = "MISMATCHED"]
Partial(reason) ==
    [Missing(reason) EXCEPT !.bytes = one.bytes, !.avail = "PARTIAL", !.synced = one.synced]

\* completedAvailability and settledOneSegAvailability, as an outcome.
SettledOutcome ==
    LET outcome(avail, reason) ==
          [bytes |-> IF avail = "MISSING" THEN 0 ELSE one.bytes, avail |-> avail,
           reason |-> reason]
    IN  IF one.state = "FINALIZED"
          THEN IF ~FinalExists
                 THEN IF dir.partial THEN outcome("MISMATCHED", "FILE_INTEGRITY_MISMATCH")
                                     ELSE outcome("MISSING", "FILE_MISSING")
               ELSE IF FinalSize # one.bytes \/ dir.partial
                 THEN outcome("MISMATCHED", "FILE_INTEGRITY_MISMATCH")
               ELSE outcome("FINAL", None)
        ELSE IF one.avail = "MISMATCHED" \/ FinalExists \/ (dir.partial /\ size # one.bytes)
          THEN outcome("MISMATCHED", "FILE_INTEGRITY_MISMATCH")
        ELSE IF dir.partial THEN outcome("PARTIAL", one.integrity)
        ELSE outcome("MISSING", IF one.avail = "MISSING" THEN one.integrity ELSE "FILE_MISSING")
Settled == one.avail = SettledOutcome.avail /\ one.integrity = SettledOutcome.reason

\* Go on to saveOneSegOutcome.
Save(result) == pc' = "rsave" /\ mem' = [mem EXCEPT !.save = result]

Candidate ==
    /\ one.state = "PARTIAL" /\ one.avail = "PARTIAL" /\ one.integrity = None
    /\ one.synced /\ Useful(one.bytes)
Fits == (dir.partial => size = one.bytes) /\ (FinalExists => FinalSize = one.bytes)
ToLink == dir.partial /\ ~FinalExists /\ ~one.published
Linked == SameFile \/ (~dir.partial /\ FinalExists)

\* recoverOneSegFinalization: what is found decides how to go on.
Inspect ==
    /\ Recovering("inspect")
    /\ IF one.state = "FINALIZED" /\ one.avail = "FINAL"     \* recoverFinalizedOneSeg
         THEN IF FinalExists /\ FinalSize # one.bytes THEN Save(Mismatch)
              ELSE IF ~FinalExists THEN Save(Missing("FILE_MISSING"))
              ELSE IF dir.partial
                THEN IF SameFile /\ size = one.bytes
                       THEN pc' = "rsync1" /\ mem' = [mem EXCEPT !.remove = TRUE]
                       ELSE Save(Mismatch)
              ELSE Goto("rfinish")
       ELSE IF one.integrity # None                           \* reconcileSettledOneSeg
         THEN IF Settled THEN Goto("rfinish")
              ELSE Save([bytes |-> SettledOutcome.bytes, avail |-> SettledOutcome.avail,
                         reason |-> SettledOutcome.reason, synced |-> one.synced,
                         publish |-> FALSE])
       ELSE IF ~Candidate THEN Save(Interrupted("PROCESS_INTERRUPTED"))
       ELSE IF Fits /\ ToLink THEN Goto("rlink")
       ELSE IF Fits /\ Linked
         THEN /\ pc' = IF one.published THEN "rsync1" ELSE "rmark"
              /\ mem' = [mem EXCEPT !.remove = dir.partial]
       ELSE IF Fits /\ ~dir.partial /\ ~FinalExists THEN Save(Missing("FILE_MISSING"))
       ELSE Save(Mismatch)
    /\ RecoverLocal /\ UNCHANGED <<rows, fileVars, proc, faults>>

RecoverLink ==
    /\ Recovering("rlink")
    /\ \/ /\ LinkFinal
          /\ pc' = "rmark" /\ mem' = [mem EXCEPT !.remove = TRUE]
          /\ UNCHANGED faults
       \/ /\ FinalExists /\ UNCHANGED <<fileVars, faults>>
          /\ Save([Mismatch EXCEPT !.reason = "FINAL_NAME_CONFLICT", !.synced = one.synced])
       \/ Fault /\ Save(Partial("FINAL_PUBLICATION_FAILED")) /\ UNCHANGED fileVars
    /\ RecoverLocal /\ UNCHANGED <<rows, proc>>

RecoverMark ==
    /\ Recovering("rmark") /\ MarkFinalPublished
    /\ Goto("rsync1")
    /\ RecoverLocal /\ UNCHANGED <<fileVars, proc, faults>>

\* completeOneSegPublication and the repair of recoverFinalizedOneSeg.
RecoverFiles ==
    /\ \/ /\ Recovering("rsync1") \/ Recovering("rsync2")
          /\ SyncDirectory
          /\ Goto(IF pc = "rsync1" /\ mem.remove THEN "rremove"
                  ELSE IF one.dirSynced THEN "rfinish" ELSE "rdir")
          /\ UNCHANGED faults
       \/ Recovering("rremove") /\ RemovePartial /\ Goto("rsync2") /\ UNCHANGED faults
       \/ /\ Recovering("rsync1") \/ Recovering("rsync2")
          /\ Fault /\ Save(Partial("FILE_SYNC_FAILED")) /\ UNCHANGED fileVars
       \/ /\ Recovering("rremove")
          /\ IF RemovePartialAllowed THEN Fault ELSE UNCHANGED faults
          /\ Save(Partial("FINAL_PUBLICATION_FAILED")) /\ UNCHANGED fileVars
    /\ RecoverLocal /\ UNCHANGED <<rows, proc>>

RecoverStore ==
    /\ \/ Recovering("rdir") /\ MarkDirectorySynced
       \/ Recovering("rsave") /\ SetOneSegOutcome(mem.save)
    /\ Goto("rfinish")
    /\ RecoverLocal /\ UNCHANGED <<fileVars, proc, faults>>

RecoverFinish ==
    /\ Recovering("rfinish") /\ FinishSuccessful
    /\ Recovered
    /\ RecoverLocal /\ UNCHANGED <<fileVars, faults>>

\* reconcileSuccess, then SetOneSegAvailability of a difference.
RecoverSettled ==
    /\ Recovering("read") /\ att.state \in Successful
    /\ IF Settled THEN UNCHANGED one
       ELSE /\ SettledOutcome.avail = "FINAL" => one.state = "FINALIZED"
            /\ SettledOutcome.avail = "PARTIAL" => one.state = "PARTIAL"
            /\ one' = [one EXCEPT !.avail = SettledOutcome.avail,
                                  !.integrity = SettledOutcome.reason]
    /\ Recovered
    /\ RecoverLocal /\ UNCHANGED <<att, main, fileVars, faults>>

Recovery ==
    \/ RecoverNothing \/ RecoverInterrupted \/ RecoverMain \/ Inspect \/ RecoverLink
    \/ RecoverMark \/ RecoverFiles \/ RecoverStore \/ RecoverFinish \/ RecoverSettled

Recorder ==
    \/ RecordingStarted \/ FailBefore \/ StopRecording \/ PublishChecks \/ Join \/ JoinWait
    \/ BeginFinalization \/ PublishMain \/ Link \/ Mark \/ PublishFiles
    \/ SavePublishFailure \/ Finish \/ CloseCancel \/ CloseWait

OneSegNext ==
    \/ Recorder \/ Helper \/ RequestStop \/ Cancel \/ ChangeFinalName
    \/ Crash \/ Exit \/ Restart \/ Recovery \/ RecoveryFails

OneSegSpec == Init /\ [][OneSegNext]_vars

\* The two goroutines and the recovery run on; the helper's reads end when
\* their context is cancelled.
HelperRuns ==
    \/ HelperCreate \/ HelperLoop \/ HelperOpen \/ HelperFirst
    \/ HelperRetry \/ HelperSave \/ HelperSeal
HelperCopyEnds == HelperCopy /\ aux'.pc # "copy"
OneSegFairness ==
    /\ WF_vars(Recorder) /\ WF_vars(Restart) /\ WF_vars(Recovery)
    /\ WF_vars(HelperRuns) /\ WF_vars(HelperCopyEnds)
OneSegLiveSpec == OneSegSpec /\ OneSegFairness

-----------------------------------------------------------------------------
(* Properties.                                                              *)

\* The one-seg file is never published unless the main file was completed
\* first (coordinator.publish and recoverFinalizing run after ordinal 0).
PublishedAfterMain == dir.final = "ours" => main = "FINALIZED"

\* The attempt becomes terminal only after the helper has closed its stream
\* and its file (coordinator.join before BeginFinalization and FinishAttempt).
HelperJoinedFirst == proc = "up" /\ att.state \in Terminal => aux.pc \in Ended

\* A terminal attempt leaves no one-seg row whose outcome is open: it is
\* final, or partial, missing or mismatched for a stored reason.
TerminalSettlesBoth == att.state \in Terminal => OneSegSettled

\* A row that calls the one-seg file final tells the truth, also after a power
\* loss that leaves the month's directory, as long as nobody else changes the
\* name: own bytes, all of them, synced.
FinalOneSegDurable ==
    one.avail = "FINAL" /\ userOps = 0 /\ month # "absent" =>
        /\ \A d \in crashDirs : d.final = "ours"
        /\ one.bytes = size /\ size = syncedSize /\ Useful(size)

\* validateRecoverySegment accepts every row that the code stores: a start
\* never fails on its own one-seg row.
RestartAcceptsRow ==
    /\ one.dirSynced => one.published
    /\ one.published => one.synced
    /\ one.avail = "FINAL" => one.state = "FINALIZED" /\ one.dirSynced /\ one.integrity = None
    /\ one.avail = "PLANNED" => one.state \in {"PLANNED", "WRITING"}
    /\ one.avail \in {"PARTIAL", "MISSING", "MISMATCHED"} =>
          one.integrity # None \/ (one.avail = "PARTIAL" /\ one.state = "PARTIAL" /\ one.synced)

\* Whatever happens to the one-seg file, a main file once completed stays so and
\* its attempt ends as planned (OSG-017, OSG-019), unless a power loss took the
\* directory that holds both.
MainKept ==
    main = "FINALIZED" /\ month # "absent" =>
        main' = "FINALIZED" /\ att'.state \in {att.state, PlannedState}
MainStands == [][MainKept]_vars

\* A start of the service leaves nothing of the attempt open.
StartIsSettled == proc = "recovering" /\ proc' = "up" => att'.state \in Terminal
StartSettles == [][StartIsSettled]_vars

-----------------------------------------------------------------------------
(* The inductive invariant of the safety properties.                        *)

\* A process that does not record has no helper.
ProcessFits ==
    /\ proc = "down" => pc = "idle"
    /\ proc = "up" => pc \in BeforeMain \cup AfterMain \cup {"error", "idle"}
    /\ proc = "recovering" => pc \in AfterRead \cup {"read"}
    /\ proc # "up" => coord = NoCoord /\ aux = NoAux /\ done = NoResult

\* The helper is the coordinator's from its start until its result is joined.
HelperFits ==
    /\ coord.started <=> aux.pc # "none"
    /\ done # NoResult <=> aux.pc = "over"
    /\ coord.joined => aux.pc \in Ended
    /\ aux.pc \notin Ended => att.state = "RECORDING" /\ one.state \in {"PLANNED", "WRITING"}
    /\ aux.pc \in {"retry", "save", "seal"} \/ aux.conn > 0 => aux.reason # None

\* The two segments against the attempt, and the fields of the one-seg row.
RowsFit ==
    /\ att.state = "STARTING" => main = "PLANNED" /\ one.state = "PLANNED"
    /\ att.state = "RECORDING" => main = "WRITING"
    /\ att.state = "FINALIZING" => main \in {"PARTIAL", "FINALIZED"}
    /\ att.state \in Successful => main = "FINALIZED"
    /\ att.state = "FAILED" => main # "FINALIZED"
    /\ one.state \in {"PLANNED", "WRITING"} =>
          ~one.synced /\ ~one.published /\ ~one.dirSynced /\ one.avail = "PLANNED" /\ one.integrity = None
    /\ one.state = "FINALIZED" =>
          /\ one.synced /\ one.published /\ one.dirSynced
          /\ att.state \notin Terminal => one.avail = "FINAL"
    /\ TerminalSettlesBoth /\ RestartAcceptsRow

\* A result has a reason, and only a whole file is worth publishing; what says
\* synced tells the truth about the file.
ResultFits(result) ==
    /\ result.reason # None
    /\ result.publish => result.avail = "PARTIAL" /\ result.synced /\ Useful(result.bytes)
SealedAs(bytes) == bytes = size /\ size = syncedSize
OutcomeFits(result) == ResultFits(result) /\ (result.synced => SealedAs(result.bytes))

OutcomesFit ==
    /\ aux.pc = "over" => OutcomeFits(done)
    /\ coord.joined => OutcomeFits(coord.result)
    /\ one.state = "FINALIZED" \/ (one.synced /\ one.integrity = None) =>
          SealedAs(one.bytes) /\ Useful(one.bytes)

\* Our own name is there only after the main file's, now and after a power loss;
\* while nobody else changes the names, a final row is true in both, unless the
\* directory is gone with all that was in it.
FilesFit ==
    /\ \A d \in crashDirs \cup {dir} : d.final = "ours" => main = "FINALIZED"
    /\ userOps = 0 => \A d \in crashDirs \cup {dir} :
          d.final # "foreign" /\ (one.state = "FINALIZED" /\ month # "absent" => d.final = "ours")
    /\ month = "absent" => crashDirs \cup {dir} \subseteq {EmptyDirectory}

\* What is known where the recording goroutine or the recovery is.
LinkedPlaces == {"mark", "sync1", "remove", "sync2", "dir",
                 "rmark", "rsync1", "rremove", "rsync2", "rdir"}
DurablePlaces == {"remove", "sync2", "dir", "rremove", "rsync2", "rdir"}
PlaceFits ==
    /\ pc = "starting" => ~coord.started /\ ~coord.joined /\ att.state = "STARTING"
    /\ pc \in {"recording", "publish", "wait"} => coord.started /\ ~coord.joined
    /\ pc \in AfterMain \cup {"begin", "main", "finish"} => coord.joined
    /\ pc = "idle" => aux.pc \in Ended
    /\ pc = "main" => att.state = "FINALIZING"
    /\ pc \in BeforeMain => main # "FINALIZED"
    /\ pc \in AfterMain => main = "FINALIZED"
    /\ pc \in AfterRead => main = "FINALIZED" /\ att.state = "FINALIZING"
    /\ pc \in (BeforeMain \cup AfterMain) \ {"starting", "recording"} => mem.reason # None
    /\ pc = "save" => OutcomeFits(mem.save)
    /\ pc = "rsave" => mem.save.reason # None
    /\ userOps = 0 =>
          /\ pc \in LinkedPlaces => dir.final = "ours"
          /\ pc \in DurablePlaces => \A d \in crashDirs : d.final = "ours"

OneSegIInv ==
    OneSegTypeOK /\ ProcessFits /\ HelperFits /\ RowsFit /\ OutcomesFit /\ FilesFit /\ PlaceFits

-----------------------------------------------------------------------------
\* The recording goroutine comes to its end: it waits for its helper, and
\* the helper ends when it is cancelled.
Running == pc # "idle"
RecordingEnds == Running ~> ~Running
=============================================================================
