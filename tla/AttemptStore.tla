---------------------------- MODULE AttemptStore ----------------------------
(***************************************************************************)
(* The SQLite rows of one reservation and of its recording attempt, and    *)
(* the repository operations on them (internal/adapters/sqlite/            *)
(* recording_repository.go, recording_recovery_repository.go).  The writer *)
(* is one connection and every operation is one transaction committed with *)
(* synchronous=FULL, so each operation below is one atomic, durable step.  *)
(* An operator named like a repository method holds exactly when the       *)
(* method commits; the callers decide what its refusal leads to.           *)
(***************************************************************************)
EXTENDS Naturals

CONSTANTS
    Packet,     \* 188: the length of a TS packet, and minimumUsefulTS
    MaxBytes    \* bound on the bytes one recording writes

ASSUME PacketAssumption == Packet \in Nat \ {0}
ASSUME MaxBytesAssumption == MaxBytes \in Nat

VARIABLES
    resv,   \* reservations row: state and terminal_reason
    att,    \* recording_attempts row ("none" before ClaimRecording inserts it)
    seg     \* recording_segments row, ordinal 0

storeVars == <<resv, att, seg>>

None == "none"

SuccessReasons == {"COMPLETED", "COMPLETED_AFTER_RECONNECT"}
CommunicationReasons ==
    {"STREAM_ENDED_EARLY", "STREAM_TIMEOUT", "STREAM_RECONNECT_EXHAUSTED"}
PlanReasons == SuccessReasons \cup CommunicationReasons \cup {"USER_REQUESTED_STOP"}
Reasons == PlanReasons \cup
    {None, "STREAM_UNAVAILABLE", "STREAM_CANCELLED", "STREAM_NOT_FOUND",
     "STREAM_FORMAT_INVALID", "FILE_CREATE_FAILED", "FILE_WRITE_FAILED",
     "FILE_SYNC_FAILED", "FILE_MISSING", "FILE_INTEGRITY_MISMATCH",
     "FINAL_PUBLICATION_FAILED", "PROCESS_SHUTDOWN", "PROCESS_INTERRUPTED",
     "LATE_START_EXPIRED", "RECORDING_SLOT_UNAVAILABLE"}

Stoppable == {"CLAIMED", "STARTING", "RECORDING"}
Terminal == {"SUCCEEDED", "PARTIAL", "FAILED", "CANCELLED", "MISSED"}
AttemptStates == Stoppable \cup {"FINALIZING"} \cup Terminal
SegmentStates == {"PLANNED", "WRITING", "PARTIAL", "FINALIZED"}
Availabilities == {"PLANNED", "PARTIAL", "FINAL", "MISSING", "MISMATCHED"}
Integrities == {None, "FILE_MISSING", "FILE_INTEGRITY_MISMATCH"}
Bytes == 0 .. MaxBytes

\* A byte count that may be published: FinalizeRequest and FinishRequest
\* both ask for one packet, and communication partials for whole packets.
Useful(bytes) == bytes >= Packet
WholePackets(bytes) == bytes % Packet = 0

\* The state that FinalizeRequest.Validate ties to a planned reason.
PlannedState(reason) == IF reason \in SuccessReasons THEN "SUCCEEDED" ELSE "PARTIAL"

NoAttempt == [state |-> None, stop |-> FALSE, plan |-> None, reason |-> None, bytes |-> 0]
NoSegment == [state |-> "PLANNED", bytes |-> 0, synced |-> FALSE, published |-> FALSE,
              dirSynced |-> FALSE, avail |-> "PLANNED", integrity |-> None]

StoreTypeOK ==
    /\ resv \in [state : {"ACTIVE", "FINISHED"},
                 reason : {None, "ATTEMPT_FINISHED", "CANCELLED_BY_USER"}]
    /\ att \in [state : AttemptStates \cup {None}, stop : BOOLEAN,
                plan : PlanReasons \cup {None}, reason : Reasons, bytes : Bytes]
    /\ seg \in [state : SegmentStates, bytes : Bytes, synced : BOOLEAN,
                published : BOOLEAN, dirSynced : BOOLEAN,
                avail : Availabilities, integrity : Integrities]

StoreInit ==
    /\ resv = [state |-> "ACTIVE", reason |-> None]
    /\ att = NoAttempt
    /\ seg = NoSegment

-----------------------------------------------------------------------------
\* A faulty trigger: the stop request does not exclude MISSED and SUCCEEDED.
TriggerWithoutStop(new) ==
    /\ att.stop => new.stop
    /\ new.plan = "USER_REQUESTED_STOP" => new.stop
    /\ new.state = "FINALIZING" => new.plan # None
    /\ new.state = "CANCELLED" /\ new.stop => new.reason = "USER_REQUESTED_STOP"

\* The BEFORE UPDATE trigger recording_attempts_stop_plan_update_check lets the
\* row change from att to new (a comparison with a NULL plan never aborts).
TriggerAllows(new) ==
    /\ att.stop => new.stop
    /\ new.stop => new.state \notin {"SUCCEEDED", "MISSED"}
    /\ new.plan = "USER_REQUESTED_STOP" => new.stop
    /\ new.state = "FINALIZING" => new.plan # None
    /\ new.state \in {"SUCCEEDED", "PARTIAL"} /\ new.plan # None
          => PlannedState(new.plan) = new.state
    /\ new.state = "CANCELLED" /\ new.stop => new.reason = "USER_REQUESTED_STOP"

\* ClaimRecording: one attempt per reservation, with its segment.
ClaimRecording ==
    /\ resv.state = "ACTIVE"
    /\ att.state = None
    /\ att' = [NoAttempt EXCEPT !.state = "CLAIMED"]
    /\ seg' = NoSegment
    /\ UNCHANGED resv

\* StopReservation: cancels a reservation without attempt, or stores the stop
\* request once; refused from FINALIZING on.
StopReservation ==
    /\ resv.state = "ACTIVE"
    /\ \/ /\ att.state = None
          /\ resv' = [state |-> "FINISHED", reason |-> "CANCELLED_BY_USER"]
          /\ UNCHANGED att
       \/ /\ att.state \in Stoppable
          /\ att' = [att EXCEPT !.stop = TRUE]
          /\ UNCHANGED resv
    /\ UNCHANGED seg

\* StartAttempt: CLAIMED -> STARTING.
StartAttempt ==
    /\ att.state = "CLAIMED"
    /\ att' = [att EXCEPT !.state = "STARTING"]
    /\ UNCHANGED <<resv, seg>>

\* RecordingStarted: STARTING -> RECORDING and PLANNED -> WRITING together.
RecordingStarted ==
    /\ att.state = "STARTING"
    /\ seg.state = "PLANNED"
    /\ att' = [att EXCEPT !.state = "RECORDING"]
    /\ seg' = [seg EXCEPT !.state = "WRITING"]
    /\ UNCHANGED resv

\* A faulty progress update: the segment keeps its old byte count.
ProgressOfAttemptOnly(bytes) ==
    /\ att.state = "RECORDING" /\ att.bytes <= bytes
    /\ seg.state = "WRITING"
    /\ att' = [att EXCEPT !.bytes = bytes]
    /\ UNCHANGED <<resv, seg>>

\* UpdateRecordingProgress: the byte count never goes back.
UpdateRecordingProgress(bytes) ==
    /\ att.state = "RECORDING" /\ att.bytes <= bytes
    /\ seg.state = "WRITING" /\ seg.bytes <= bytes
    /\ att' = [att EXCEPT !.bytes = bytes]
    /\ seg' = [seg EXCEPT !.bytes = bytes]
    /\ UNCHANGED resv

\* A faulty compare-and-set: the caller's plan is stored although a stop
\* request was committed after the caller looked.
RequestedPlan(want) == want

\* BeginFinalization's compare-and-set: a request that lost against a stop
\* request is retried in the same transaction as a user stop.
ResolvedPlan(want) == IF att.stop THEN "USER_REQUESTED_STOP" ELSE want

\* A faulty BeginFinalization: partial_synced is not stored.
FinalizationWithoutEvidence(want, bytes) ==
    /\ Useful(bytes)
    /\ want = "USER_REQUESTED_STOP" => att.stop
    /\ att.state = "RECORDING" /\ seg.state = "WRITING"
    /\ att' = [att EXCEPT !.state = "FINALIZING", !.bytes = bytes, !.plan = ResolvedPlan(want)]
    /\ seg' = [seg EXCEPT !.state = "PARTIAL", !.bytes = bytes, !.avail = "PARTIAL"]
    /\ UNCHANGED resv

BeginFinalization(want, bytes) ==
    /\ Useful(bytes)
    /\ want \in CommunicationReasons => WholePackets(bytes)
    /\ want = "USER_REQUESTED_STOP" => att.stop
    /\ att.state = "RECORDING" /\ att.bytes <= bytes
    /\ seg.state = "WRITING" /\ seg.bytes <= bytes
    /\ att' = [att EXCEPT !.state = "FINALIZING", !.bytes = bytes, !.plan = ResolvedPlan(want)]
    /\ seg' = [seg EXCEPT !.state = "PARTIAL", !.bytes = bytes,
                          !.synced = TRUE, !.avail = "PARTIAL"]
    /\ UNCHANGED resv

\* markSegmentFinalizationFlag with final_published.
MarkFinalPublished ==
    /\ att.state = "FINALIZING"
    /\ seg.state = "PARTIAL" /\ seg.synced /\ seg.integrity = None
    /\ seg' = [seg EXCEPT !.published = TRUE]
    /\ UNCHANGED <<resv, att>>

\* markSegmentFinalizationFlag with directory_synced.
MarkDirectorySynced ==
    /\ att.state = "FINALIZING"
    /\ seg.state = "PARTIAL" /\ seg.synced /\ seg.integrity = None /\ seg.published
    /\ seg' = [seg EXCEPT !.dirSynced = TRUE, !.state = "FINALIZED", !.avail = "FINAL"]
    /\ UNCHANGED <<resv, att>>

-----------------------------------------------------------------------------
Requests == [state : Terminal, reason : Reasons, bytes : Bytes, avail : Availabilities]

\* FinishAttempt's "successful": the results that need a published file.
Successful(req) ==
    \/ req.state = "SUCCEEDED"
    \/ /\ req.state = "PARTIAL"
       /\ \/ req.reason = "USER_REQUESTED_STOP"
          \/ req.reason \in CommunicationReasons /\ req.avail = "FINAL"

\* FinishRequest.Validate.
ValidFinish(req) ==
    /\ req.reason # None
    /\ (req.state = "SUCCEEDED") = (req.reason \in SuccessReasons)
    /\ \/ /\ Successful(req)
          /\ Useful(req.bytes) /\ req.avail = "FINAL"
          /\ req.reason \in CommunicationReasons => WholePackets(req.bytes)
       \/ /\ req.state = "PARTIAL" /\ ~Successful(req)
          /\ Useful(req.bytes) /\ req.avail = "PARTIAL"
       \/ /\ req.state \in {"FAILED", "CANCELLED"}
          /\ req.avail \in {"PARTIAL", "MISSING", "MISMATCHED"}
       \/ req.state = "MISSED" /\ req.bytes = 0 /\ req.avail = "MISSING"

FinishedAttempt(req) ==
    [att EXCEPT !.state = req.state, !.reason = req.reason, !.bytes = req.bytes]

FinishAllowed(req) ==
    /\ ValidFinish(req)
    /\ att.state \in Stoppable \cup {"FINALIZING"}
    /\ Successful(req) =>
          /\ att.state = "FINALIZING"
          /\ att.plan = req.reason
          /\ seg.state = "FINALIZED" /\ seg.avail = "FINAL"
          /\ seg.synced /\ seg.published /\ seg.dirSynced
    /\ TriggerAllows(FinishedAttempt(req))
    /\ resv.state = "ACTIVE"

\* FinishAttempt: attempt, segment and reservation end in one transaction.
FinishAttempt(req) ==
    /\ FinishAllowed(req)
    /\ att' = FinishedAttempt(req)
    /\ seg' = IF Successful(req)
                THEN [seg EXCEPT !.bytes = req.bytes]
                ELSE [seg EXCEPT !.state = IF req.bytes > 0 THEN "PARTIAL" ELSE @,
                                 !.bytes = req.bytes, !.avail = req.avail]
    /\ resv' = [state |-> "FINISHED", reason |-> "ATTEMPT_FINISHED"]

-----------------------------------------------------------------------------
\* communicationPartialPredicate.
CommunicationPartial ==
    /\ att.state = "PARTIAL" /\ att.reason \in CommunicationReasons
    /\ att.plan = att.reason
    /\ Useful(att.bytes) /\ WholePackets(att.bytes)

\* An ended attempt whose file was published: what the reconciliations keep in
\* step with the directory, and what the reading side lists.
Completed ==
    \/ att.state = "SUCCEEDED"
    \/ att.state = "PARTIAL" /\ att.reason = "USER_REQUESTED_STOP"
    \/ CommunicationPartial

\* A faulty selection: unfinished publications are not looked for.
RecoverableButFinalizing == att.state \in Stoppable \/ Completed

\* The rows RecoveryAttempts selects.
Recoverable == att.state \in Stoppable \cup {"FINALIZING"} \/ Completed

\* validateRecoveryValues: what RecoveryAttempts demands of a selected row.  A
\* row that fails it makes every start of the program fail.
ValidRecoveryValues ==
    LET planned == att.state \in {"FINALIZING", "SUCCEEDED", "PARTIAL"}
        done == att.state \in {"SUCCEEDED", "PARTIAL"}
    IN  /\ att.bytes = seg.bytes
        /\ planned => seg.synced /\ att.plan # None /\ Useful(att.bytes)
        /\ seg.dirSynced => seg.published
        /\ seg.published => seg.synced
        /\ done => seg.published /\ seg.dirSynced
        /\ att.state = "FINALIZING" =>
              \/ seg.state = "PARTIAL" /\ seg.avail = "PARTIAL"
              \/ /\ seg.state = "FINALIZED" /\ seg.avail = "FINAL"
                 /\ seg.published /\ seg.dirSynced /\ seg.integrity = None
        /\ done => seg.avail \in {"FINAL", "MISSING", "MISMATCHED"}
        /\ ~planned => ~seg.synced /\ ~seg.published /\ ~seg.dirSynced
        /\ planned /\ att.plan \in CommunicationReasons => WholePackets(att.bytes)
        /\ done => PlannedState(att.plan) = att.state

\* SetRecordingAvailability: only the availability of a completed recording.
SetRecordingAvailability(avail, integrity) ==
    /\ IF seg.state = "FINALIZED" /\ Completed
         THEN seg' = [seg EXCEPT !.avail = avail, !.integrity = integrity]
         ELSE UNCHANGED seg
    /\ UNCHANGED <<resv, att>>

-----------------------------------------------------------------------------
\* What the callers may do to the rows.  They end a FINALIZING attempt only as
\* planned or as FAILED: nothing in FinishAttempt itself demands that.
FinishCompatible(req) == att.state = "FINALIZING" => req.state = "FAILED" \/ Successful(req)

StoreNext ==
    \/ ClaimRecording \/ StopReservation \/ StartAttempt \/ RecordingStarted
    \/ \E bytes \in Bytes : UpdateRecordingProgress(bytes)
    \/ \E bytes \in Bytes, want \in PlanReasons : BeginFinalization(want, bytes)
    \/ MarkFinalPublished \/ MarkDirectorySynced
    \/ \E req \in Requests : FinishCompatible(req) /\ FinishAttempt(req)
    \/ \E avail \in {"FINAL", "MISSING", "MISMATCHED"}, integrity \in Integrities :
          SetRecordingAvailability(avail, integrity)

\* The parts of the rows' consistency.  Before FINALIZING there is no plan and
\* no evidence of a file; in FINALIZING the plan is fixed and the evidence
\* grows; a completed attempt ended as planned with all of it.
EarlyRows ==
    att.state \in Stoppable \cup {None} =>
        /\ att.plan = None /\ seg.integrity = None
        /\ ~seg.synced /\ ~seg.published /\ ~seg.dirSynced
PlannedRows ==
    att.state = "FINALIZING" \/ Completed =>
        /\ att.plan \in PlanReasons
        /\ att.plan \in CommunicationReasons => WholePackets(att.bytes)
        /\ Useful(att.bytes) /\ seg.synced
FinalizingRows ==
    att.state = "FINALIZING" =>
        /\ seg.integrity = None
        /\ \/ seg.state = "PARTIAL" /\ seg.avail = "PARTIAL" /\ ~seg.dirSynced
           \/ /\ seg.state = "FINALIZED" /\ seg.avail = "FINAL"
              /\ seg.published /\ seg.dirSynced
CompletedRows ==
    Completed =>
        /\ att.plan = att.reason /\ att.state = PlannedState(att.plan)
        /\ seg.published /\ seg.dirSynced
        /\ seg.avail \in {"FINAL", "MISSING", "MISMATCHED"}
StopRows ==
    /\ att.state = None => ~att.stop
    /\ att.stop => att.state \notin {"SUCCEEDED", "MISSED"}
    /\ att.plan # None => (att.stop <=> att.plan = "USER_REQUESTED_STOP")

RowsConsistent ==
    /\ att.bytes = seg.bytes
    /\ seg.dirSynced => seg.published
    /\ seg.published => seg.synced
    /\ EarlyRows /\ PlannedRows /\ FinalizingRows /\ CompletedRows /\ StopRows
=============================================================================
