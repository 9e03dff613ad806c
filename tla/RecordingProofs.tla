--------------------------- MODULE RecordingProofs --------------------------
(***************************************************************************)
(* Proofs about Recording for every packet length, byte bound, number of   *)
(* reconnections, crashes, faults and directory changes, with and without  *)
(* power loss: its rows, the promise that it implements, and its files.    *)
(***************************************************************************)
EXTENDS Recording, TLAPS

-----------------------------------------------------------------------------
(* The rows.  Each lemma is about one repository operation at a time, so   *)
(* the executor, the recovery and the reconciliation need not be looked at.*)

USE DEF None

\* Every repository operation keeps the rows in their types.
LEMMA StoreTyped ==
    ASSUME StoreTypeOK, StoreNext
    PROVE  StoreTypeOK'
<1> USE DEF StoreTypeOK
<1>1. CASE ClaimRecording
  <2>1. 0 \in Bytes
    BY MaxBytesAssumption DEF Bytes
  <2>2. att' = [state |-> "CLAIMED", stop |-> FALSE, plan |-> None, reason |-> None, bytes |-> 0]
    BY <1>1 DEF ClaimRecording, NoAttempt
  <2>3. "CLAIMED" \in AttemptStates /\ None \in Reasons
    BY DEF AttemptStates, Stoppable, Reasons
  <2>4. att' \in [state : AttemptStates \cup {None}, stop : BOOLEAN,
                 plan : PlanReasons \cup {None}, reason : Reasons, bytes : Bytes]
    BY <2>1, <2>2, <2>3
  <2>5. NoSegment \in [state : SegmentStates, bytes : Bytes, synced : BOOLEAN, published : BOOLEAN,
                      dirSynced : BOOLEAN, avail : Availabilities, integrity : Integrities]
    BY <2>1 DEF NoSegment, SegmentStates, Availabilities, Integrities
  <2> QED
    BY <1>1, <2>4, <2>5 DEF ClaimRecording
<1>2. CASE StopReservation
  <2>1. CASE resv' = [state |-> "FINISHED", reason |-> "CANCELLED_BY_USER"] /\ UNCHANGED <<att, seg>>
    BY <2>1
  <2>2. CASE att' = [att EXCEPT !.stop = TRUE] /\ UNCHANGED <<resv, seg>>
    BY <2>2
  <2> QED
    BY <1>2, <2>1, <2>2 DEF StopReservation
<1>3. CASE StartAttempt
  BY <1>3 DEF StartAttempt, AttemptStates, Stoppable
<1>4. CASE RecordingStarted
  BY <1>4 DEF RecordingStarted, AttemptStates, Stoppable, SegmentStates
<1>5. CASE \E bytes \in Bytes : UpdateRecordingProgress(bytes)
  BY <1>5 DEF UpdateRecordingProgress
<1>6. CASE \E bytes \in Bytes, want \in PlanReasons : BeginFinalization(want, bytes)
  <2> PICK bytes \in Bytes, want \in PlanReasons : BeginFinalization(want, bytes)
    BY <1>6
  <2>1. ResolvedPlan(want) \in PlanReasons
    BY DEF ResolvedPlan, PlanReasons
  <2> QED
    BY <2>1 DEF BeginFinalization, AttemptStates, SegmentStates, Availabilities
<1>7. CASE MarkFinalPublished
  BY <1>7 DEF MarkFinalPublished
<1>8. CASE MarkDirectorySynced
  BY <1>8 DEF MarkDirectorySynced, SegmentStates, Availabilities
<1>9. CASE \E req \in Requests : FinishCompatible(req) /\ FinishAttempt(req)
  <2> PICK req \in Requests : FinishAttempt(req)
    BY <1>9
  <2>1. att' \in [state : AttemptStates \cup {None}, stop : BOOLEAN,
                 plan : PlanReasons \cup {None}, reason : Reasons, bytes : Bytes]
    BY DEF FinishAttempt, FinishedAttempt, Requests, AttemptStates
  <2>2. seg' \in [state : SegmentStates, bytes : Bytes, synced : BOOLEAN, published : BOOLEAN,
                 dirSynced : BOOLEAN, avail : Availabilities, integrity : Integrities]
    <3>1. CASE Successful(req)
      BY <3>1 DEF FinishAttempt, Requests
    <3>2. CASE ~Successful(req)
      BY <3>2 DEF FinishAttempt, Requests, SegmentStates
    <3> QED
      BY <3>1, <3>2
  <2> QED
    BY <2>1, <2>2 DEF FinishAttempt
<1>10. CASE \E avail \in {"FINAL", "MISSING", "MISMATCHED"}, integrity \in Integrities :
              SetRecordingAvailability(avail, integrity)
  BY ZenonT(60), <1>10 DEF SetRecordingAvailability, Availabilities
<1> QED
  BY <1>1, <1>2, <1>3, <1>4, <1>5, <1>6, <1>7, <1>8, <1>9, <1>10 DEF StoreNext

\* Every repository operation keeps the rows consistent.
LEMMA RowsPreserved ==
    ASSUME StoreTypeOK, RowsConsistent, StoreNext
    PROVE  RowsConsistent'
<1> USE DEF StoreTypeOK, RowsConsistent, EarlyRows, PlannedRows, FinalizingRows, CompletedRows,
            StopRows, Completed, CommunicationPartial, Stoppable
<1>1. CASE ClaimRecording
  BY <1>1 DEF ClaimRecording, NoAttempt, NoSegment
<1>2. CASE StopReservation
  BY <1>2 DEF StopReservation
<1>3. CASE StartAttempt
  BY <1>3 DEF StartAttempt
<1>4. CASE RecordingStarted
  BY <1>4 DEF RecordingStarted
<1>5. CASE \E bytes \in Bytes : UpdateRecordingProgress(bytes)
  BY <1>5 DEF UpdateRecordingProgress
<1>6. CASE \E bytes \in Bytes, want \in PlanReasons : BeginFinalization(want, bytes)
  BY <1>6 DEF BeginFinalization, ResolvedPlan, PlanReasons, SuccessReasons, CommunicationReasons
<1>7. CASE MarkFinalPublished
  BY <1>7 DEF MarkFinalPublished
<1>8. CASE MarkDirectorySynced
  BY <1>8 DEF MarkDirectorySynced
<1>9. CASE \E req \in Requests : FinishCompatible(req) /\ FinishAttempt(req)
  <2> PICK req \in Requests : FinishCompatible(req) /\ FinishAttempt(req)
    BY <1>9
  <2>1. att' = [state |-> req.state, stop |-> att.stop, plan |-> att.plan, reason |-> req.reason,
               bytes |-> req.bytes]
    BY DEF FinishAttempt, FinishedAttempt, Requests
  <2>2. /\ seg'.bytes = req.bytes /\ seg'.integrity = seg.integrity
        /\ seg'.synced = seg.synced /\ seg'.published = seg.published
        /\ seg'.dirSynced = seg.dirSynced
        /\ Successful(req) => seg' = [seg EXCEPT !.bytes = req.bytes]
    BY DEF FinishAttempt, Requests
  <2>3. CASE Successful(req)
    BY <2>1, <2>2, <2>3 DEF FinishAttempt, FinishAllowed, FinishedAttempt, ValidFinish, Successful,
       TriggerAllows, PlannedState, PlanReasons, SuccessReasons, CommunicationReasons, Requests
  <2>4. CASE ~Successful(req)
    BY <2>1, <2>2, <2>4 DEF FinishAttempt, FinishAllowed, FinishedAttempt, ValidFinish, Successful,
       FinishCompatible, TriggerAllows, PlanReasons, SuccessReasons, CommunicationReasons, Requests,
       Terminal
  <2> QED
    BY <2>3, <2>4
<1>10. CASE \E avail \in {"FINAL", "MISSING", "MISMATCHED"}, integrity \in Integrities :
              SetRecordingAvailability(avail, integrity)
  <2> PICK avail \in {"FINAL", "MISSING", "MISMATCHED"}, integrity \in Integrities :
              SetRecordingAvailability(avail, integrity)
    BY <1>10
  <2>1. att' = att /\ (Completed \/ seg' = seg)
    BY DEF SetRecordingAvailability
  <2>2. CASE Completed
    BY ZenonT(60), <2>1, <2>2 DEF SetRecordingAvailability
  <2>3. CASE seg' = seg
    BY <2>1, <2>3
  <2> QED
    BY <2>1, <2>2, <2>3
<1> QED
  BY <1>1, <1>2, <1>3, <1>4, <1>5, <1>6, <1>7, <1>8, <1>9, <1>10 DEF StoreNext

\* Consistent rows are what RecoveryAttempts accepts, and they show which plan
\* a stop request decided.
LEMMA RowsSuffice ==
    ASSUME StoreTypeOK, RowsConsistent
    PROVE  RecoveryNeverRefuses /\ StopDecidesPlan
<1> USE DEF RowsConsistent, EarlyRows, PlannedRows, FinalizingRows, CompletedRows, StopRows
<1>1. StopDecidesPlan
  BY DEF StopDecidesPlan
<1>2. ASSUME att.state \in Stoppable PROVE ValidRecoveryValues
  <2>1. att.state \notin {"FINALIZING", "SUCCEEDED", "PARTIAL"}
    BY <1>2 DEF Stoppable
  <2>2. ~seg.synced /\ ~seg.published /\ ~seg.dirSynced
    BY <1>2
  <2> QED
    BY <2>1, <2>2 DEF ValidRecoveryValues
<1>3. ASSUME att.state = "FINALIZING" PROVE ValidRecoveryValues
  <2>1. att.plan # None
    BY <1>3 DEF PlanReasons, SuccessReasons, CommunicationReasons
  <2> QED
    BY <1>3, <2>1 DEF ValidRecoveryValues
<1>4. ASSUME Completed PROVE ValidRecoveryValues
  <2>1. att.state \in {"SUCCEEDED", "PARTIAL"}
    BY <1>4 DEF Completed, CommunicationPartial
  <2>2. att.plan # None
    BY <1>4 DEF PlanReasons, SuccessReasons, CommunicationReasons
  <2> QED
    BY <1>4, <2>1, <2>2 DEF ValidRecoveryValues
<1> QED
  BY <1>1, <1>2, <1>3, <1>4 DEF RecoveryNeverRefuses, Recoverable

-----------------------------------------------------------------------------
(* The files, and the requests and local variables of the goroutine.       *)

\* The size of the recording file is a byte count that the rows can hold.
LEMMA SizeIsBytes ==
    ASSUME FilesTypeOK(MaxBytes)
    PROVE  size \in Bytes
BY DEF FilesTypeOK, Bytes

\* Every file operation keeps the directory and the sizes in their types.
LEMMA FilesTyped ==
    ASSUME FilesTypeOK(MaxBytes),
           \/ UNCHANGED fileVars \/ CreateFails \/ CreatePartial \/ SyncPartial \/ LinkFinal \/ SyncDirectory
           \/ RemovePartial \/ LosePower \/ Tail
           \/ size < MaxBytes /\ WritePartial(1)
           \/ \E owner \in Owners : EnsureDirectory /\ Rename([dir EXCEPT !.final = owner])
    PROVE  FilesTypeOK(MaxBytes)'
<1> USE DEF FilesTypeOK, Directories, Owners, Months
<1>1. CASE UNCHANGED fileVars
  BY <1>1 DEF fileVars
<1>2. CASE size < MaxBytes /\ WritePartial(1)
  BY <1>2, MaxBytesAssumption DEF WritePartial
<1>3. CASE month' \in Months /\ \E new \in Directories : Rename(new)
  BY <1>3 DEF Rename
<1>9. CASE NotCreated
  BY <1>9 DEF NotCreated, EnsureDirectory
<1>4. CASE SyncPartial
  BY <1>4 DEF SyncPartial
<1>5. CASE SyncDirectory
  BY <1>5 DEF SyncDirectory
<1>6. CASE LosePower
  <2>1. size' \in 0 .. MaxBytes /\ syncedSize' = size'
    BY <1>6, MaxBytesAssumption DEF LosePower
  <2>2. crashDirs' = {dir'} /\ EmptyDirectory \in Directories
    BY <1>6 DEF LosePower, EmptyDirectory
  <2>3. dir' = EmptyDirectory \/ dir' \in crashDirs
    BY <1>6 DEF LosePower
  <2>4. month' \in Months
    BY <1>6 DEF LosePower
  <2> QED
    BY <2>1, <2>2, <2>3, <2>4
<1>7. ASSUME \/ CreatePartial \/ LinkFinal
             \/ \E owner \in Owners : EnsureDirectory /\ Rename([dir EXCEPT !.final = owner])
      PROVE  month' \in Months /\ \E new \in Directories : Rename(new)
  BY <1>7 DEF CreatePartial, LinkFinal, EnsureDirectory
<1>8. ASSUME RemovePartial
      PROVE  (UNCHANGED fileVars) \/ (month' \in Months /\ \E new \in Directories : Rename(new))
  BY <1>8 DEF RemovePartial
<1> QED
  BY <1>1, <1>2, <1>3, <1>4, <1>5, <1>6, <1>7, <1>8, <1>9 DEF Tail, CreateFails

\* finishByCount always builds a well-formed request.
LEMMA UnsuccessfulTyped ==
    ASSUME NEW reason \in Reasons, NEW bytes \in Bytes, NEW fileExists \in BOOLEAN
    PROVE  UnsuccessfulRequest(reason, bytes, fileExists) \in Requests
BY DEF UnsuccessfulRequest, Requests, Terminal, Availabilities

\* The planned result is one that FinishAttempt counts as successful.
LEMMA PlannedTyped ==
    ASSUME StoreTypeOK, att.plan \in PlanReasons
    PROVE  PlannedRequest \in Requests /\ Successful(PlannedRequest)
<1>1. PlannedState(att.plan) \in Terminal /\ att.plan \in Reasons
  BY DEF PlannedState, Terminal, Reasons
<1>2. PlannedRequest \in Requests
  BY <1>1 DEF PlannedRequest, Requests, Availabilities, StoreTypeOK
<1>3. Successful(PlannedRequest)
  BY DEF PlannedRequest, Successful, PlannedState, PlanReasons
<1> QED
  BY <1>2, <1>3

\* Choosing how to close a failed copy only records the reason and the method.
LEMMA CopyFailureTyped ==
    ASSUME mem \in Locals, NEW reason \in Reasons, NEW started \in BOOLEAN,
           FinishCopyFailure(reason, started)
    PROVE  /\ mem' \in Locals
           /\ pc' \in {"sync", "progress"} /\ ClosingReason'
<1>1. mem' \in Locals /\ pc' \in {"sync", "progress"}
  BY DEF FinishCopyFailure, Locals, Kinds
<1>2. ClosingReason'
  BY DEF FinishCopyFailure, Locals, ClosingReason
<1> QED
  BY <1>1, <1>2

\* Deciding a result keeps the local variables typed and goes to FinishAttempt.
LEMMA FinishWithTyped ==
    ASSUME mem \in Locals, NEW req \in Requests, NEW detached \in BOOLEAN,
           FinishWith(req, detached)
    PROVE  /\ mem' \in Locals /\ mem'.req = req
           /\ pc' = "finish"
BY DEF FinishWith, Locals

\* The local variables of an idle process are typed.
LEMMA NoLocalsTyped == NoLocals \in Locals
<1>1. 0 \in 0 .. MaxReconnects /\ 0 \in Bytes
  BY ReconnectAssumption, MaxBytesAssumption DEF Bytes
<1>2. NoRequest \in Requests
  BY <1>1 DEF NoRequest, Requests, Terminal, Availabilities, Reasons
<1> QED
  BY <1>1, <1>2 DEF NoLocals, Locals, Kinds, Reasons

-----------------------------------------------------------------------------
(* Every step of Recording is an operation on the rows, keeps the types    *)
(* and keeps the control in step with the rows.                            *)

StoreStep == StoreNext \/ UNCHANGED storeVars
Kept == StoreStep /\ FilesTypeOK(MaxBytes)' /\ ProcessTypeOK' /\ Control'

USE DEF BeforeFinalizing, Publishing, ClosingReason

\* The process around a step of the goroutine or of the recovery.
LEMMA LocalTyped ==
    ASSUME RowsInv, Local, faults' = faults \/ Fault, mem' \in Locals, pc' \in Labels
    PROVE  ProcessTypeOK'
<1>1. faults' \in 0 .. MaxFaults
  BY BoundsAssumption DEF RowsInv, TypeOK, ProcessTypeOK, Fault
<1> QED
  BY <1>1 DEF RowsInv, TypeOK, ProcessTypeOK, Local, procVars

\* A step before BeginFinalization keeps the attempt in a stoppable state, so
\* that any result may follow.
LEMMA EarlyStep ==
    ASSUME RowsInv, pc \in BeforeFinalizing, Local, faults' = faults \/ Fault,
           FilesTypeOK(MaxBytes)',
           \/ UNCHANGED storeVars \/ StartAttempt \/ RecordingStarted
           \/ UpdateRecordingProgress(size),
           mem' \in Locals, pc' \in BeforeFinalizing \cup {"error", "finish"},
           pc' \in {"publish", "finalize"} => mem'.plan # None, ClosingReason'
    PROVE  Kept
<1>1. StoreStep
  BY SizeIsBytes DEF RowsInv, TypeOK, StoreStep, StoreNext
<1>2. ProcessTypeOK'
  BY LocalTyped DEF Labels, ExecutorLabels
<1>3. att'.state \in Stoppable
  BY DEF RowsInv, TypeOK, StoreTypeOK, Control, storeVars, StartAttempt, RecordingStarted,
     UpdateRecordingProgress, Stoppable
<1>4. Control'
  BY <1>3 DEF Control, FinishCompatible, Stoppable
<1> QED
  BY <1>1, <1>2, <1>4 DEF Kept

\* The special case that touches neither rows nor files.
LEMMA QuietStep ==
    ASSUME RowsInv, Quiet, pc \in BeforeFinalizing,
           mem' \in Locals, pc' \in BeforeFinalizing \cup {"error", "finish"},
           pc' \in {"publish", "finalize"} => mem'.plan # None, ClosingReason'
    PROVE  Kept
<1>1. FilesTypeOK(MaxBytes)'
  BY FilesTyped DEF RowsInv, TypeOK, Quiet
<1> QED
  BY <1>1, EarlyStep DEF Quiet

\* Deciding a result before BeginFinalization is such a step.
LEMMA QuietFinish ==
    ASSUME RowsInv, Quiet, pc \in BeforeFinalizing,
           NEW req \in Requests, NEW detached \in BOOLEAN, FinishWith(req, detached)
    PROVE  Kept
<1>1. mem \in Locals
  BY DEF RowsInv, TypeOK, ProcessTypeOK
<1> QED
  BY <1>1, FinishWithTyped, QuietStep

\* A failing operation that changes nothing.
LEMMA AbortStep ==
    ASSUME RowsInv, Abort
    PROVE  Kept
<1>1. StoreStep /\ FilesTypeOK(MaxBytes)'
  BY FilesTyped DEF RowsInv, TypeOK, Abort, StoreStep
<1>2. mem' \in Locals /\ pc' = "error"
  BY DEF RowsInv, TypeOK, ProcessTypeOK, Abort, Goto
<1>3. ProcessTypeOK'
  BY <1>2, LocalTyped DEF Abort, Labels
<1>4. Control'
  BY <1>2 DEF Control
<1> QED
  BY <1>1, <1>3, <1>4 DEF Kept

\* The steps that neither write nor publish.
LEMMA DecisionSteps ==
    ASSUME RowsInv,
           CheckInitialStop \/ LoopHead \/ OpenStep \/ Retry \/ CheckFirstStop \/ PublishChecks
    PROVE  Kept
<1>0. mem \in Locals /\ mem.started \in BOOLEAN /\ mem.reason \in Reasons
  BY DEF RowsInv, TypeOK, ProcessTypeOK, Locals
<1>a. /\ "USER_REQUESTED_STOP" \in Reasons /\ "PROCESS_SHUTDOWN" \in Reasons
      /\ "STREAM_RECONNECT_EXHAUSTED" \in Reasons /\ CancelReason \in Reasons
  BY DEF Reasons, PlanReasons, CommunicationReasons, CancelReason
<1>b. 0 \in Bytes /\ size \in Bytes
  BY MaxBytesAssumption, SizeIsBytes DEF Bytes, RowsInv, TypeOK
<1>c. ASSUME Quiet, pc \in BeforeFinalizing, NEW reason \in Reasons, NEW started \in BOOLEAN,
             FinishCopyFailure(reason, started)
      PROVE  Kept
  <2>1. mem' \in Locals /\ pc' \in {"sync", "progress"} /\ ClosingReason'
    BY <1>c, <1>0, CopyFailureTyped
  <2> QED
    BY <1>c, <2>1, QuietStep
<1>d. ASSUME Quiet, pc \in BeforeFinalizing, ReachEnd
      PROVE  Kept
  <2>1. mem' \in Locals /\ pc' = "sync" /\ ClosingReason'
    BY <1>d, <1>0 DEF ReachEnd, Locals, Kinds
  <2> QED
    BY <1>d, <2>1, QuietStep
<1>e. ASSUME Quiet, pc \in BeforeFinalizing, NEW label, Goto(label),
             label \in BeforeFinalizing \ {"progress", "sync", "publish"},
             label = "finalize" => pc = "publish"
      PROVE  Kept
  BY <1>e, <1>0, QuietStep DEF Goto, RowsInv, Control
<1>1. CASE CheckInitialStop
  <2>1. CASE Abort
    BY <2>1, AbortStep
  <2>2. CASE Quiet /\ att.stop
             /\ FinishWith(UnsuccessfulRequest("USER_REQUESTED_STOP", 0, FALSE), TRUE)
    BY <1>1, <2>2, <1>a, <1>b, UnsuccessfulTyped, QuietFinish DEF CheckInitialStop
  <2>3. CASE Quiet /\ Goto("create")
    BY <1>1, <2>3, <1>e DEF CheckInitialStop
  <2> QED
    BY <1>1, <2>1, <2>2, <2>3 DEF CheckInitialStop
<1>2. CASE LoopHead
  <2>0. pc = "loop"
    BY <1>2 DEF LoopHead
  <2>1. CASE Abort
    BY <2>1, AbortStep
  <2>2. CASE Quiet /\ FinishCopyFailure(CancelReason, mem.started)
    BY <2>0, <2>2, <1>0, <1>a, <1>c
  <2>3. CASE Quiet /\ ReachEnd
    BY <2>0, <2>3, <1>d
  <2>4. CASE Quiet /\ FinishCopyFailure(mem.reason, mem.started)
    BY <2>0, <2>4, <1>0, <1>c
  <2>5. CASE Quiet /\ mem' = [mem EXCEPT !.reconnected = mem.conn > 0] /\ pc' = "open"
    <3> DEFINE again == mem.conn > 0
    <3>1. again \in BOOLEAN /\ mem' = [mem EXCEPT !.reconnected = again]
      BY <2>5, <1>0, ReconnectAssumption DEF Locals
    <3> HIDE DEF again
    <3>2. mem' \in Locals
      BY <3>1, <1>0 DEF Locals
    <3> QED
      BY <2>0, <2>5, <3>2, QuietStep
  <2> QED
    BY <1>2, <2>1, <2>2, <2>3, <2>4, <2>5 DEF LoopHead
<1>3. CASE OpenStep
  <2>0. pc = "open" /\ Quiet
    BY <1>3 DEF OpenStep
  <2>1. CASE Goto("copy") \/ Goto("first")
    BY <2>0, <2>1, <1>e
  <2>2. ASSUME NEW retryable \in BOOLEAN, NEW reason \in OpenFailures(retryable),
               ConnectionFailed(reason, retryable)
        PROVE  Kept
    <3>1. reason \in Reasons
      BY <2>2 DEF OpenFailures, Reasons, PlanReasons, CommunicationReasons
    <3>2. mem' \in Locals /\ pc' = "retry"
      BY <2>2, <3>1, <1>0 DEF Locals, ConnectionFailed
    <3> QED
      BY <2>0, <3>2, QuietStep
  <2> QED
    BY <1>3, <2>1, <2>2 DEF OpenStep
<1>4. CASE Retry
  <2>0. pc = "retry" /\ Quiet
    BY <1>4 DEF Retry
  <2>1. CASE MayReconnect /\ mem' = [mem EXCEPT !.conn = @ + 1] /\ pc' = "loop"
    <3>1. mem.conn \in 0 .. MaxReconnects /\ mem.conn + 1 \in 0 .. MaxReconnects
      BY <2>1, <1>0, ReconnectAssumption DEF Locals, MayReconnect
    <3>2. mem' \in Locals
      BY <2>1, <3>1, <1>0 DEF Locals
    <3> QED
      BY <2>0, <2>1, <3>2, QuietStep
  <2> DEFINE last == IF mem.retryable /\ mem.conn = MaxReconnects
                     THEN "STREAM_RECONNECT_EXHAUSTED" ELSE mem.reason
  <2>a. last \in Reasons
    BY <1>0, <1>a
  <2> HIDE DEF last
  <2>2. CASE \/ FinishCopyFailure("USER_REQUESTED_STOP", mem.started)
             \/ FinishCopyFailure(last, mem.started)
             \/ FinishCopyFailure(CancelReason, mem.started)
    BY <2>0, <2>2, <2>a, <1>0, <1>a, <1>c
  <2>3. CASE ReachEnd
    BY <2>0, <2>3, <1>d
  <2> QED
    BY <1>4, <2>1, <2>2, <2>3 DEF Retry, last
<1>5. CASE CheckFirstStop
  <2>1. CASE Abort
    BY <2>1, AbortStep
  <2>2. CASE Quiet /\ FinishCopyFailure("USER_REQUESTED_STOP", FALSE)
    BY <1>5, <2>2, <1>a, <1>c DEF CheckFirstStop
  <2>3. CASE Quiet /\ Goto("begin")
    BY <1>5, <2>3, <1>e DEF CheckFirstStop
  <2> QED
    BY <1>5, <2>1, <2>2, <2>3 DEF CheckFirstStop
<1>6. CASE PublishChecks
  <2>0. pc = "publish"
    BY <1>6 DEF PublishChecks
  <2>1. CASE Abort
    BY <2>1, AbortStep
  <2>2. CASE Quiet /\ FinishWith(ShutdownRequest, TRUE)
    <3>1. ShutdownRequest \in Requests
      BY <1>a, <1>b, UnsuccessfulTyped DEF ShutdownRequest
    <3> QED
      BY <2>0, <2>2, <3>1, QuietFinish
  <2>3. CASE Quiet /\ mem' = [mem EXCEPT !.plan = "USER_REQUESTED_STOP"] /\ pc' = "finalize"
    <3>1. mem' \in Locals /\ mem'.plan # None
      BY <2>3, <1>0 DEF Locals, PlanReasons
    <3> QED
      BY <2>0, <2>3, <3>1, QuietStep
  <2>4. CASE Quiet /\ Goto("finalize")
    BY <2>0, <2>4, <1>e
  <2> QED
    BY <1>6, <2>1, <2>2, <2>3, <2>4 DEF PublishChecks
<1> QED
  BY <1>1, <1>2, <1>3, <1>4, <1>5, <1>6

\* Claiming, starting and the first byte.
LEMMA StartSteps ==
    ASSUME RowsInv, Claim \/ MissClaim \/ MissFinish \/ Register \/ StartStep \/ CreateStep \/ BeginStep
    PROVE  Kept
<1>0. mem \in Locals /\ mem.req \in Requests /\ FilesTypeOK(MaxBytes) /\ 0 \in Bytes
  BY MaxBytesAssumption DEF RowsInv, TypeOK, ProcessTypeOK, Locals, Bytes
<1>1. CASE Claim
  <2>1. ProcessTypeOK'
    BY <1>0, <1>1, LocalTyped DEF Claim, Goto, Labels, ExecutorLabels
  <2>2. Control'
    BY <1>1 DEF Claim, Goto, ClaimRecording, NoAttempt, Control, Stoppable
  <2> QED
    BY <1>0, <1>1, <2>1, <2>2, FilesTyped DEF Claim, Kept, StoreStep, StoreNext
<1>2. CASE MissClaim
  <2>0. PICK reason \in {"LATE_START_EXPIRED", "RECORDING_SLOT_UNAVAILABLE"} :
               mem' = [mem EXCEPT !.req = [state |-> "MISSED", reason |-> reason,
                                           bytes |-> 0, avail |-> "MISSING"]]
    BY <1>2 DEF MissClaim
  <2>1. [state |-> "MISSED", reason |-> reason, bytes |-> 0, avail |-> "MISSING"] \in Requests
    BY <1>0 DEF Requests, Terminal, Availabilities, Reasons
  <2>2. mem' \in Locals
    BY <1>0, <2>0, <2>1 DEF Locals
  <2>3. ProcessTypeOK'
    BY <1>2, <2>2, LocalTyped DEF MissClaim, Labels, ExecutorLabels
  <2>4. Control'
    BY <1>2 DEF MissClaim, ClaimRecording, NoAttempt, Control, Stoppable
  <2> QED
    BY <1>0, <1>2, <2>3, <2>4, FilesTyped DEF MissClaim, Kept, StoreStep, StoreNext
<1>3. CASE MissFinish
  <2>1. FilesTypeOK(MaxBytes)' /\ mem' \in Locals /\ pc' \in {"done", "error"}
    BY <1>0, <1>3, FilesTyped DEF MissFinish, Goto
  <2>2. ProcessTypeOK'
    BY <1>3, <2>1, LocalTyped DEF MissFinish, Labels
  <2>3. FinishCompatible(mem.req)
    BY <1>3 DEF MissFinish, RowsInv, Control, FinishCompatible, Stoppable
  <2>4. StoreStep
    BY <1>0, <1>3, <2>3 DEF MissFinish, StoreStep, StoreNext
  <2>5. Control'
    BY <2>1 DEF Control
  <2> QED
    BY <2>1, <2>2, <2>4, <2>5 DEF Kept
<1>4. CASE Register
  <2>1. FilesTypeOK(MaxBytes)'
    BY <1>0, <1>4, FilesTyped DEF Register
  <2>2. ProcessTypeOK'
    BY <1>4 DEF Register, Goto, RowsInv, TypeOK, ProcessTypeOK, Labels, ExecutorLabels
  <2>3. Control'
    BY <1>4 DEF Register, Goto, RowsInv, Control, storeVars
  <2> QED
    BY <1>4, <2>1, <2>2, <2>3 DEF Register, Kept, StoreStep
<1>5. CASE StartStep
  <2>1. FilesTypeOK(MaxBytes)' /\ mem' \in Locals /\ pc' \in {"check", "error"}
    BY <1>0, <1>5, FilesTyped DEF StartStep, Goto
  <2> QED
    BY <1>5, <2>1, EarlyStep DEF StartStep
<1>6. CASE CreateStep
  <2>1. FilesTypeOK(MaxBytes)'
    BY <1>0, <1>6, FilesTyped DEF CreateStep
  <2>2. mem' \in Locals /\ pc' \in {"loop", "sync", "progress", "finish"} /\ ClosingReason'
    <3>1. CASE Goto("loop")
      BY <1>0, <3>1 DEF Goto
    <3>2. CASE FinishCopyFailure("STREAM_NOT_FOUND", FALSE)
      BY <1>0, <3>2, CopyFailureTyped DEF Reasons
    <3>3. CASE FinishWith(UnsuccessfulRequest("FILE_CREATE_FAILED", 0, FALSE), TRUE)
      <4>1. UnsuccessfulRequest("FILE_CREATE_FAILED", 0, FALSE) \in Requests
        BY <1>0, UnsuccessfulTyped DEF Reasons
      <4> QED
        BY <1>0, <3>3, <4>1, FinishWithTyped
    <3> QED
      BY <1>6, <3>1, <3>2, <3>3 DEF CreateStep
  <2> QED
    BY <1>6, <2>1, <2>2, EarlyStep DEF CreateStep
<1>7. CASE BeginStep
  <2>1. FilesTypeOK(MaxBytes)' /\ mem' \in Locals /\ pc' \in {"copy", "error"}
    BY <1>0, <1>7, FilesTyped DEF BeginStep, Goto, Locals
  <2> QED
    BY <1>7, <2>1, EarlyStep DEF BeginStep
<1> QED
  BY <1>1, <1>2, <1>3, <1>4, <1>5, <1>6, <1>7

\* Copying and closing the partial file.
LEMMA CopySteps ==
    ASSUME RowsInv, CopyStep \/ RetryFault \/ SaveProgress
    PROVE  Kept
<1>0. mem \in Locals /\ mem.started \in BOOLEAN /\ FilesTypeOK(MaxBytes)
  BY DEF RowsInv, TypeOK, ProcessTypeOK, Locals
<1>a. /\ "USER_REQUESTED_STOP" \in Reasons /\ "PROCESS_INTERRUPTED" \in Reasons
      /\ "FILE_WRITE_FAILED" \in Reasons /\ CancelReason \in Reasons
  BY DEF Reasons, PlanReasons, CommunicationReasons, CancelReason
<1>b. ASSUME NEW reason \in Reasons, NEW retryable \in BOOLEAN, ConnectionFailed(reason, retryable)
      PROVE  mem' \in Locals /\ pc' = "retry"
  BY <1>0, <1>b DEF ConnectionFailed, Locals
<1>c. ASSUME ReachEnd
      PROVE  mem' \in Locals /\ pc' = "sync" /\ ClosingReason'
  BY <1>0, <1>c DEF ReachEnd, Locals, Kinds
<1>1. CASE CopyChunk
  <2>1. FilesTypeOK(MaxBytes)' /\ mem' \in Locals /\ pc' = "copy"
    BY <1>0, <1>1, FilesTyped DEF CopyChunk, Goto
  <2> QED
    BY <1>1, <2>1, EarlyStep DEF CopyChunk
<1>2. CASE CopyProgress
  <2>1. FilesTypeOK(MaxBytes)'
    BY <1>0, <1>2, FilesTyped DEF CopyProgress
  <2>2. mem' \in Locals /\ pc' \in {"copy", "sync", "progress"} /\ ClosingReason'
    BY <1>0, <1>2, <1>a, CopyFailureTyped DEF CopyProgress, Goto
  <2> QED
    BY <1>2, <2>1, <2>2, EarlyStep DEF CopyProgress
<1>3. CASE CopyCancelled
  <2>1. FilesTypeOK(MaxBytes)'
    BY <1>0, <1>3, FilesTyped DEF CopyCancelled
  <2>2. mem' \in Locals /\ pc' \in {"sync", "progress"} /\ ClosingReason'
    BY <1>0, <1>3, <1>a, CopyFailureTyped DEF CopyCancelled
  <2> QED
    BY <1>3, <2>1, <2>2, EarlyStep DEF CopyCancelled
<1>4. CASE CopyEnd
  <2>1. FilesTypeOK(MaxBytes)'
    BY <1>0, <1>4, FilesTyped DEF CopyEnd
  <2>2. mem' \in Locals /\ pc' \in {"sync", "progress"} /\ ClosingReason'
    BY <1>0, <1>4, <1>a, <1>c, CopyFailureTyped DEF CopyEnd
  <2> QED
    BY <1>4, <2>1, <2>2, EarlyStep DEF CopyEnd
<1>5. CASE CopyFailed
  <2>1. FilesTypeOK(MaxBytes)'
    BY <1>0, <1>5, FilesTyped DEF CopyFailed
  <2>2. PICK retryable \in BOOLEAN : \E reason \in CopyFailures(retryable) :
               ConnectionFailed(reason, retryable)
    BY <1>5 DEF CopyFailed
  <2>3. CopyFailures(retryable) \subseteq Reasons
    BY DEF CopyFailures, Reasons, PlanReasons, CommunicationReasons
  <2>4. mem' \in Locals /\ pc' = "retry"
    BY <1>b, <2>2, <2>3
  <2> QED
    BY <1>5, <2>1, <2>4, EarlyStep DEF CopyFailed
<1>6. CASE CopyFault
  <2>1. FilesTypeOK(MaxBytes)'
    BY <1>0, <1>6, FilesTyped DEF CopyFault
  <2>2. mem' \in Locals /\ pc' = "retry"
    BY <1>6, <1>a, <1>b DEF CopyFault
  <2> QED
    BY <1>6, <2>1, <2>2, EarlyStep DEF CopyFault
<1>7. CASE RetryFault
  <2>1. FilesTypeOK(MaxBytes)'
    BY <1>0, <1>7, FilesTyped DEF RetryFault
  <2>2. mem' \in Locals /\ pc' \in {"error", "sync", "progress"} /\ ClosingReason'
    BY <1>0, <1>7, <1>a, CopyFailureTyped DEF RetryFault, Goto
  <2> QED
    BY <1>7, <2>1, <2>2, EarlyStep DEF RetryFault
<1>8. CASE SaveProgress
  <2>1. FilesTypeOK(MaxBytes)' /\ mem' \in Locals /\ pc' \in {"sync", "error"} /\ ClosingReason'
    BY <1>0, <1>8, FilesTyped DEF SaveProgress, Goto, RowsInv, Control
  <2> QED
    BY <1>8, <2>1, EarlyStep DEF SaveProgress
<1> QED
  BY <1>1, <1>2, <1>3, <1>4, <1>5, <1>6, <1>7, <1>8 DEF CopyStep

\* Sync and Close of the partial file, whether they succeed or fail.
LEMMA SealSteps ==
    ASSUME RowsInv, SealPartial \/ SealFault
    PROVE  Kept
<1>0. mem \in Locals /\ mem.reason \in Reasons /\ FilesTypeOK(MaxBytes)
  BY DEF RowsInv, TypeOK, ProcessTypeOK, Locals
<1>a. 0 \in Bytes /\ size \in Bytes
  BY <1>0, MaxBytesAssumption, SizeIsBytes DEF Bytes
<1> DEFINE bytes == IF mem.kind = "before" THEN 0 ELSE size
           undetached == mem.kind # "end"
<1>b. bytes \in Bytes /\ undetached \in BOOLEAN
  BY <1>a
<1>1. CASE SealPartial
  <2> DEFINE plan == IF mem.kind = "stop" THEN "USER_REQUESTED_STOP"
                     ELSE IF mem.kind = "communication" THEN mem.reason
                     ELSE IF mem.reconnected THEN "COMPLETED_AFTER_RECONNECT" ELSE "COMPLETED"
             short == IF mem.kind = "end" THEN "STREAM_ENDED_EARLY" ELSE mem.reason
  <2>1. short \in Reasons
    BY <1>0 DEF Reasons, PlanReasons, CommunicationReasons
  <2>2. UnsuccessfulRequest(short, bytes, TRUE) \in Requests
    BY <1>b, <2>1, UnsuccessfulTyped
  <2>3. FilesTypeOK(MaxBytes)'
    BY <1>0, <1>1, FilesTyped DEF SealPartial
  <2>4. CASE mem' = [mem EXCEPT !.plan = plan] /\ pc' = "publish"
             /\ mem.kind \in {"end", "stop", "communication"}
    <3>1. plan \in PlanReasons
      BY <1>1, <2>4 DEF SealPartial, RowsInv, Control, PlanReasons, SuccessReasons
    <3>2. plan # None
      BY <3>1 DEF PlanReasons, SuccessReasons, CommunicationReasons
    <3>3. mem' \in Locals /\ mem'.plan # None
      BY <1>0, <2>4, <3>1, <3>2 DEF Locals
    <3> QED
      BY <1>1, <2>3, <2>4, <3>3, EarlyStep DEF SealPartial
  <2>5. CASE FinishWith(UnsuccessfulRequest(short, bytes, TRUE), undetached)
    <3>1. mem' \in Locals /\ pc' = "finish"
      BY <1>0, <1>b, <2>2, <2>5, FinishWithTyped
    <3> QED
      BY <1>1, <2>3, <3>1, EarlyStep DEF SealPartial
  <2> QED
    BY <1>1, <2>4, <2>5 DEF SealPartial
<1>2. CASE SealFault
  <2>1. UnsuccessfulRequest("FILE_SYNC_FAILED", bytes, TRUE) \in Requests
    BY <1>b, UnsuccessfulTyped DEF Reasons
  <2>2. mem' \in Locals /\ pc' = "finish"
    BY <1>0, <1>2, <1>b, <2>1, FinishWithTyped DEF SealFault
  <2>3. FilesTypeOK(MaxBytes)'
    BY <1>0, <1>2, FilesTyped DEF SealFault
  <2> QED
    BY <1>2, <2>2, <2>3, EarlyStep DEF SealFault
<1> QED
  BY <1>1, <1>2

\* A step of the publication, or of its resumption by the recovery: the attempt
\* is FINALIZING and stays so.
LEMMA PublishStep ==
    ASSUME RowsInv, pc \in Publishing, Local, faults' = faults \/ Fault,
           FilesTypeOK(MaxBytes)',
           (UNCHANGED storeVars) \/ MarkFinalPublished \/ MarkDirectorySynced,
           mem' \in Locals, pc' \in Publishing \cup {"error", "finish", "rfinish"},
           pc' \in {"finish", "rfinish"} => mem'.req.state = "FAILED" \/ Successful(mem'.req)
    PROVE  Kept
<1>1. StoreStep
  BY DEF StoreStep, StoreNext
<1>2. ProcessTypeOK'
  BY LocalTyped DEF Labels, ExecutorLabels, RecoveryLabels
<1>3. att' = att
  BY DEF storeVars, MarkFinalPublished, MarkDirectorySynced
<1>4. Control'
  BY <1>3 DEF RowsInv, Control, FinishCompatible
<1> QED
  BY <1>1, <1>2, <1>4 DEF Kept

\* publishFinal from BeginFinalization on, and FinishAttempt.
LEMMA PublishSteps ==
    ASSUME RowsInv,
           \/ FinalizeStep \/ LinkStep \/ MarkStep \/ SyncDirectoryStep \/ RemoveStep
           \/ MarkSyncedStep \/ FinishStep
    PROVE  Kept
<1>0. mem \in Locals /\ mem.req \in Requests /\ FilesTypeOK(MaxBytes) /\ size \in Bytes
  BY SizeIsBytes DEF RowsInv, TypeOK, ProcessTypeOK, Locals
<1>1. CASE FinalizeStep
  <2>0. pc = "finalize" /\ mem.plan \in PlanReasons
    BY <1>0, <1>1 DEF FinalizeStep, RowsInv, Control, Locals
  <2>1. CASE Abort
    BY <2>1, AbortStep
  <2>2. ASSUME NEW want \in PlanReasons, BeginFinalization(want, size), Goto("link"),
               Local, UNCHANGED <<fileVars, faults>>
        PROVE  Kept
    <3>1. StoreStep
      BY <1>0, <2>2 DEF StoreStep, StoreNext
    <3>2. ProcessTypeOK' /\ FilesTypeOK(MaxBytes)'
      BY <1>0, <2>2, LocalTyped, FilesTyped DEF Goto, Labels, ExecutorLabels
    <3>3. Control'
      BY <2>2 DEF Goto, Control, BeginFinalization, RowsInv, TypeOK, StoreTypeOK
    <3> QED
      BY <3>1, <3>2, <3>3 DEF Kept
  <2>3. CASE FinishWith(ShutdownRequest, TRUE) /\ Quiet
    <3>1. ShutdownRequest \in Requests
      BY <1>0, UnsuccessfulTyped DEF ShutdownRequest, Reasons
    <3> QED
      BY <2>0, <2>3, <3>1, QuietFinish
  <2>4. "USER_REQUESTED_STOP" \in PlanReasons
    BY DEF PlanReasons
  <2> QED
    BY <1>1, <2>0, <2>1, <2>2, <2>3, <2>4 DEF FinalizeStep, Quiet
<1>2. CASE LinkStep
  <2> DEFINE failed == [state |-> "FAILED", reason |-> "FINAL_PUBLICATION_FAILED",
                        bytes |-> size, avail |-> "PARTIAL"]
  <2>1. failed \in Requests /\ failed.state = "FAILED"
    BY <1>0 DEF Requests, Terminal, Reasons, Availabilities
  <2>2. FilesTypeOK(MaxBytes)'
    BY <1>0, <1>2, FilesTyped DEF LinkStep
  <2>3. CASE Goto("mark") \/ Goto("error")
    BY <1>0, <1>2, <2>2, <2>3, PublishStep DEF LinkStep, Goto
  <2>4. CASE FinishWith(failed, TRUE)
    <3>1. mem' \in Locals /\ mem'.req = failed /\ pc' = "finish"
      BY <1>0, <2>1, <2>4, FinishWithTyped
    <3> QED
      BY <1>2, <2>1, <2>2, <3>1, PublishStep DEF LinkStep
  <2> QED
    BY <1>2, <2>3, <2>4 DEF LinkStep
<1>3. CASE MarkStep
  <2>1. CASE Abort
    BY <2>1, AbortStep
  <2>2. CASE MarkFinalPublished /\ Goto("sync1") /\ Local /\ UNCHANGED <<fileVars, faults>>
    BY <1>0, <1>3, <2>2, FilesTyped, PublishStep DEF MarkStep, Goto
  <2> QED
    BY <1>3, <2>1, <2>2 DEF MarkStep
<1>4. CASE SyncDirectoryStep
  <2>1. CASE Abort
    BY <2>1, AbortStep
  <2>2. CASE ~Abort
    <3>1. /\ pc \in {"sync1", "sync2"} /\ SyncDirectory /\ Local
          /\ UNCHANGED <<storeVars, faults>>
          /\ mem' = mem /\ pc' \in {"remove", "dir"}
      BY <1>4, <2>2 DEF SyncDirectoryStep, Goto
    <3> QED
      BY <1>0, <3>1, FilesTyped, PublishStep
  <2> QED
    BY <2>1, <2>2
<1>5. CASE RemoveStep
  <2>1. FilesTypeOK(MaxBytes)'
    BY <1>0, <1>5, FilesTyped DEF RemoveStep
  <2> QED
    BY <1>0, <1>5, <2>1, PublishStep DEF RemoveStep, Goto
<1>6. CASE MarkSyncedStep
  <2>1. CASE Abort
    BY <2>1, AbortStep
  <2>2. CASE MarkDirectorySynced /\ FinishWith(PlannedRequest, TRUE) /\ Local
             /\ UNCHANGED <<fileVars, faults>>
    <3>1. att.plan \in PlanReasons
      BY <1>6 DEF MarkSyncedStep, RowsInv, Control, RowsConsistent, PlannedRows
    <3>2. PlannedRequest \in Requests /\ Successful(PlannedRequest)
      BY <3>1, PlannedTyped DEF RowsInv, TypeOK
    <3>3. mem' \in Locals /\ mem'.req = PlannedRequest /\ pc' = "finish"
      BY <1>0, <2>2, <3>2, FinishWithTyped
    <3> QED
      BY <1>0, <1>6, <2>2, <3>2, <3>3, FilesTyped, PublishStep DEF MarkSyncedStep
  <2> QED
    BY <1>6, <2>1, <2>2 DEF MarkSyncedStep
<1>7. CASE FinishStep
  <2>1. FilesTypeOK(MaxBytes)' /\ mem' = mem /\ pc' \in {"done", "error"}
    BY <1>0, <1>7, FilesTyped DEF FinishStep, Goto
  <2>2. ProcessTypeOK'
    BY <1>0, <1>7, <2>1, LocalTyped DEF FinishStep, Labels
  <2>3. FinishCompatible(mem.req)
    BY <1>7 DEF FinishStep, RowsInv, Control
  <2>4. StoreStep
    BY <1>0, <1>7, <2>3 DEF FinishStep, StoreStep, StoreNext
  <2>5. Control'
    BY <2>1 DEF Control
  <2> QED
    BY <2>1, <2>2, <2>4, <2>5 DEF Kept
<1> QED
  BY <1>1, <1>2, <1>3, <1>4, <1>5, <1>6, <1>7

\* The end of the goroutine, and the life of the process.
LEMMA ProcessSteps ==
    ASSUME RowsInv, Complete \/ ProcessStep
    PROVE  Kept
<1>0. mem \in Locals /\ FilesTypeOK(MaxBytes)
  BY DEF RowsInv, TypeOK, ProcessTypeOK
<1>a. NoReconcile \in [busy : BOOLEAN, avail : {"FINAL", "MISSING", "MISMATCHED"},
                       integrity : Integrities]
  BY DEF NoReconcile, Integrities
<1>b. ASSUME GoDown, FilesTypeOK(MaxBytes)', crashes' \in 0 .. MaxCrashes,
             UNCHANGED <<storeVars, faults, userOps>>
      PROVE  Kept
  <2>1. ProcessTypeOK'
    BY <1>a, <1>b, NoLocalsTyped DEF GoDown, RowsInv, TypeOK, ProcessTypeOK, Labels
  <2>2. Control'
    BY <1>b DEF GoDown, Control
  <2> QED
    BY <1>b, <2>1, <2>2 DEF Kept, StoreStep
<1>1. CASE Complete
  <2>1. ProcessTypeOK'
    BY <1>1, NoLocalsTyped DEF Complete, RowsInv, TypeOK, ProcessTypeOK, Labels
  <2>2. Control'
    BY <1>1 DEF Complete, Control
  <2> QED
    BY <1>0, <1>1, <2>1, <2>2, FilesTyped DEF Complete, Kept, StoreStep
<1>2. CASE ExitOnError \/ Exit
  <2>1. FilesTypeOK(MaxBytes)' /\ crashes' \in 0 .. MaxCrashes
    BY <1>0, <1>2, FilesTyped DEF ExitOnError, Exit, RowsInv, TypeOK, ProcessTypeOK
  <2> QED
    BY <1>2, <1>b, <2>1 DEF ExitOnError, Exit
<1>3. CASE Crash
  <2>1. FilesTypeOK(MaxBytes)'
    BY <1>0, <1>3, FilesTyped DEF Crash
  <2>2. crashes' \in 0 .. MaxCrashes
    BY <1>3, BoundsAssumption DEF Crash, RowsInv, TypeOK, ProcessTypeOK
  <2> QED
    BY <1>3, <1>b, <2>1, <2>2 DEF Crash
<1>4. CASE Shutdown
  <2>1. (pc # "idle") \in BOOLEAN
    OBVIOUS
  <2>2. ProcessTypeOK'
    BY <1>4, <2>1 DEF Shutdown, RowsInv, TypeOK, ProcessTypeOK
  <2>3. Control'
    BY <1>4 DEF Shutdown, RowsInv, Control, FinishCompatible, storeVars
  <2> QED
    BY <1>0, <1>4, <2>2, <2>3, FilesTyped DEF Shutdown, Kept, StoreStep
<1>5. CASE Restart
  <2>1. ProcessTypeOK'
    BY <1>5 DEF Restart, RowsInv, TypeOK, ProcessTypeOK, Labels, RecoveryLabels
  <2>2. Control'
    BY <1>5 DEF Restart, Control
  <2> QED
    BY <1>0, <1>5, <2>1, <2>2, FilesTyped DEF Restart, Kept, StoreStep
<1> QED
  BY <1>1, <1>2, <1>3, <1>4, <1>5 DEF ProcessStep

\* completedAvailability observes one of the values that the row can hold.
LEMMA AvailabilityTyped ==
    CompletedAvailability \in [busy : BOOLEAN, avail : {"FINAL", "MISSING", "MISMATCHED"},
                               integrity : Integrities]
BY DEF CompletedAvailability, Integrities

\* Storing an observed availability is an operation on the rows.
LEMMA AvailabilityStored ==
    ASSUME RowsInv, UpdateAvailability
    PROVE  StoreStep /\ att' = att
<1>1. rec.avail \in {"FINAL", "MISSING", "MISMATCHED"} /\ rec.integrity \in Integrities
  BY DEF RowsInv, TypeOK, ProcessTypeOK
<1> QED
  BY <1>1 DEF UpdateAvailability, StoreStep, StoreNext, SetRecordingAvailability, storeVars

\* What the recovery makes of an interrupted recording is a well-formed request.
LEMMA InterruptedTyped ==
    ASSUME RowsInv
    PROVE  InterruptedRequest \in Requests
<1>1. size \in Bytes /\ 0 \in Bytes /\ att.bytes \in Bytes
  BY SizeIsBytes, MaxBytesAssumption DEF RowsInv, TypeOK, StoreTypeOK, Bytes
<1>2. CASE FinalExists
  BY <1>1, <1>2 DEF InterruptedRequest, Requests, Terminal, Reasons, Availabilities
<1>3. CASE ~FinalExists
  <2> DEFINE bytes == IF dir.partial THEN size ELSE 0
  <2>1. bytes \in Bytes
    BY <1>1
  <2> HIDE DEF bytes
  <2>2. InterruptedRequest = [state |-> IF Useful(bytes) THEN "PARTIAL" ELSE "FAILED",
                              reason |-> "PROCESS_INTERRUPTED", bytes |-> bytes,
                              avail |-> IF dir.partial THEN "PARTIAL" ELSE "MISSING"]
    BY <1>3 DEF InterruptedRequest, bytes
  <2> QED
    BY <2>1, <2>2 DEF Requests, Terminal, Reasons, Availabilities
<1> QED
  BY <1>2, <1>3

\* Recovery.Run.
LEMMA RecoverySteps ==
    ASSUME RowsInv, RecoveryRun
    PROVE  Kept
<1>0. /\ mem \in Locals /\ mem.req \in Requests /\ mem.remove \in BOOLEAN
      /\ FilesTypeOK(MaxBytes) /\ StoreTypeOK /\ att.bytes \in Bytes
  BY DEF RowsInv, TypeOK, ProcessTypeOK, Locals, StoreTypeOK
<1>a. ASSUME NEW req \in Requests, FinishRecoveryWith(req)
      PROVE  mem' \in Locals /\ mem'.req = req /\ pc' = "rfinish"
  BY <1>0, <1>a DEF FinishRecoveryWith, Locals
<1>b. ASSUME NEW reason \in Reasons, NEW avail \in Availabilities
      PROVE  /\ FinalizationFailure(reason, avail) \in Requests
             /\ FinalizationFailure(reason, avail).state = "FAILED"
  BY <1>0 DEF FinalizationFailure, Requests, Terminal
<1>c. /\ {"FILE_MISSING", "FILE_INTEGRITY_MISMATCH", "FINAL_PUBLICATION_FAILED"} \subseteq Reasons
      /\ {"MISSING", "MISMATCHED", "PARTIAL"} \subseteq Availabilities
  BY DEF Reasons, Availabilities
<1>d. ASSUME Recovered, StoreStep, FilesTypeOK(MaxBytes)', faults' = faults,
             rec' \in {rec, NoReconcile}
      PROVE  Kept
  <2>1. NoReconcile \in [busy : BOOLEAN, avail : {"FINAL", "MISSING", "MISMATCHED"},
                         integrity : Integrities]
    BY DEF NoReconcile, Integrities
  <2>2. ProcessTypeOK'
    BY <1>d, <2>1, NoLocalsTyped DEF Recovered, RowsInv, TypeOK, ProcessTypeOK, Labels
  <2>3. Control'
    BY <1>d DEF Recovered, Control
  <2> QED
    BY <1>d, <2>2, <2>3 DEF Kept
<1>1. CASE RecoverNothing
  BY <1>0, <1>1, <1>d, FilesTyped DEF RecoverNothing, StoreStep
<1>2. CASE RecoverCompleted
  <2>1. ProcessTypeOK'
    BY <1>2, AvailabilityTyped DEF RecoverCompleted, Goto, RowsInv, TypeOK, ProcessTypeOK, procVars,
       Labels, RecoveryLabels
  <2>2. Control'
    BY <1>2 DEF RecoverCompleted, Goto, Control
  <2> QED
    BY <1>0, <1>2, <2>1, <2>2, FilesTyped DEF RecoverCompleted, Kept, StoreStep
<1>3. CASE RecoverAvailability
  BY <1>0, <1>3, <1>d, AvailabilityStored, FilesTyped DEF RecoverAvailability
<1>4. CASE RecoverInterrupted
  <2>1. mem' \in Locals /\ pc' = "rfinish"
    BY <1>4, <1>a, InterruptedTyped DEF RecoverInterrupted
  <2>2. ProcessTypeOK'
    BY <1>4, <2>1, LocalTyped DEF RecoverInterrupted, Quiet, Labels, RecoveryLabels
  <2>3. Control'
    BY <1>4, <2>1 DEF RecoverInterrupted, Quiet, storeVars, Control, FinishCompatible, Stoppable
  <2> QED
    BY <1>0, <1>4, <2>2, <2>3, FilesTyped DEF RecoverInterrupted, Quiet, Kept, StoreStep
<1>5. CASE RecoverFinalizing
  <2>1. /\ mem' \in Locals /\ pc' \in {"rlink", "rsync1", "rmark", "rfinish"}
        /\ pc' = "rfinish" => mem'.req.state = "FAILED"
    <3>1. ASSUME NEW remove \in BOOLEAN, mem' = [mem EXCEPT !.remove = remove]
          PROVE  mem' \in Locals
      BY <1>0, <3>1 DEF Locals
    <3>2. (~Moved) \in BOOLEAN
      BY DEF Moved
    <3>3. CASE FilesFit /\ (Unpublished \/ LinkedTwice \/ Moved)
               /\ mem' = [mem EXCEPT !.remove = ~Moved]
               /\ pc' = IF Unpublished THEN "rlink" ELSE IF seg.published THEN "rsync1" ELSE "rmark"
      BY <3>1, <3>2, <3>3
    <3>4. CASE FinishRecoveryWith(FinalizationFailure("FILE_MISSING", "MISSING"))
      BY <1>a, <1>b, <1>c, <3>4
    <3>5. CASE FinishRecoveryWith(FinalizationFailure("FILE_INTEGRITY_MISMATCH", "MISMATCHED"))
      BY <1>a, <1>b, <1>c, <3>5
    <3> QED
      BY <1>5, <3>3, <3>4, <3>5 DEF RecoverFinalizing
  <2>2. ProcessTypeOK'
    BY <1>5, <2>1, LocalTyped DEF RecoverFinalizing, Quiet, Labels, RecoveryLabels
  <2>3. Control'
    BY <1>5, <2>1 DEF RecoverFinalizing, Quiet, storeVars, Control, FinishCompatible
  <2> QED
    BY <1>0, <1>5, <2>2, <2>3, FilesTyped DEF RecoverFinalizing, Quiet, Kept, StoreStep
<1>6. CASE RecoverLink
  <2>1. FilesTypeOK(MaxBytes)'
    BY <1>0, <1>6, FilesTyped DEF RecoverLink
  <2>2. CASE RecoveryStep("rmark")
    BY <1>0, <1>6, <2>1, <2>2, PublishStep DEF RecoverLink, Recovering, RecoveryStep, Goto
  <2>3. CASE /\ FinishRecoveryWith(FinalizationFailure("FINAL_PUBLICATION_FAILED", "PARTIAL"))
             /\ Fault /\ Local
    <3>1. mem' \in Locals /\ mem'.req.state = "FAILED" /\ pc' = "rfinish"
      BY <1>a, <1>b, <1>c, <2>3
    <3> QED
      BY <1>6, <2>1, <2>3, <3>1, PublishStep DEF RecoverLink, Recovering
  <2> QED
    BY <1>6, <2>2, <2>3 DEF RecoverLink
<1>7. CASE RecoverMark
  BY <1>0, <1>7, FilesTyped, PublishStep DEF RecoverMark, Recovering, RecoveryStep, Goto
<1>8. CASE RecoverSync
  <2>1. /\ pc \in Publishing /\ SyncDirectory /\ Local /\ UNCHANGED <<storeVars, faults>>
        /\ mem' = mem /\ pc' \in {"rremove", "rdir"}
    BY <1>8 DEF RecoverSync, Recovering, RecoveryStep, Goto
  <2> QED
    BY <1>0, <2>1, FilesTyped, PublishStep
<1>9. CASE RecoverRemove
  BY <1>0, <1>9, FilesTyped, PublishStep DEF RecoverRemove, Recovering, RecoveryStep, Goto
<1>10. CASE RecoverDirectory
  <2>1. att.plan \in PlanReasons
    BY <1>10 DEF RecoverDirectory, Recovering, RowsInv, Control, RowsConsistent, PlannedRows
  <2>2. PlannedRequest \in Requests /\ Successful(PlannedRequest)
    BY <1>0, <2>1, PlannedTyped
  <2>3. mem' \in Locals /\ mem'.req = PlannedRequest /\ pc' = "rfinish"
    BY <1>10, <1>a, <2>2 DEF RecoverDirectory
  <2> QED
    BY <1>0, <1>10, <2>2, <2>3, FilesTyped, PublishStep DEF RecoverDirectory, Recovering
<1>11. CASE RecoverFinish
  <2>1. StoreStep
    BY <1>0, <1>11 DEF RecoverFinish, Recovering, RowsInv, Control, StoreStep, StoreNext
  <2> QED
    BY <1>0, <1>11, <1>d, <2>1, FilesTyped DEF RecoverFinish
<1>12. CASE RecoveryFails
  <2>1. FilesTypeOK(MaxBytes)'
    BY <1>0, <1>12, FilesTyped DEF RecoveryFails
  <2>2. faults' \in 0 .. MaxFaults
    BY <1>12, BoundsAssumption DEF RecoveryFails, Fault, RowsInv, TypeOK, ProcessTypeOK
  <2>3. NoReconcile \in [busy : BOOLEAN, avail : {"FINAL", "MISSING", "MISMATCHED"},
                         integrity : Integrities]
    BY DEF NoReconcile, Integrities
  <2>4. ProcessTypeOK'
    BY <1>12, <2>2, <2>3, NoLocalsTyped DEF RecoveryFails, GoDown, RowsInv, TypeOK, ProcessTypeOK, Labels
  <2>5. Control'
    BY <1>12 DEF RecoveryFails, GoDown, Control
  <2> QED
    BY <1>12, <2>1, <2>4, <2>5 DEF RecoveryFails, Kept, StoreStep
<1> QED
  BY <1>1, <1>2, <1>3, <1>4, <1>5, <1>6, <1>7, <1>8, <1>9, <1>10, <1>11, <1>12 DEF RecoveryRun

\* The reconciliation and the user, beside whatever else is going on.
LEMMA OtherSteps ==
    ASSUME RowsInv, ReconcileInspect \/ ReconcileUpdate \/ UserStep
    PROVE  Kept
<1>0. FilesTypeOK(MaxBytes)
  BY DEF RowsInv, TypeOK
<1>a. ASSUME att'.state = att.state, UNCHANGED <<pc, mem>>
      PROVE  Control'
  BY <1>a DEF RowsInv, Control, FinishCompatible, Successful
<1>1. CASE ReconcileInspect
  <2>1. ProcessTypeOK'
    BY <1>1, AvailabilityTyped DEF ReconcileInspect, RowsInv, TypeOK, ProcessTypeOK, procVars
  <2> QED
    BY <1>0, <1>1, <1>a, <2>1, FilesTyped DEF ReconcileInspect, Kept, StoreStep, storeVars
<1>2. CASE ReconcileUpdate
  <2>1. StoreStep /\ att' = att
    BY <1>2, AvailabilityStored DEF ReconcileUpdate, StoreStep, storeVars
  <2>2. faults' \in 0 .. MaxFaults
    BY <1>2, BoundsAssumption DEF ReconcileUpdate, Fault, RowsInv, TypeOK, ProcessTypeOK
  <2>3. NoReconcile \in [busy : BOOLEAN, avail : {"FINAL", "MISSING", "MISMATCHED"},
                         integrity : Integrities]
    BY DEF NoReconcile, Integrities
  <2>4. ProcessTypeOK'
    BY <1>2, <2>2, <2>3 DEF ReconcileUpdate, RowsInv, TypeOK, ProcessTypeOK, procVars
  <2> QED
    BY <1>0, <1>2, <1>a, <2>1, <2>4, FilesTyped DEF ReconcileUpdate, Kept
<1>3. CASE UserStop
  <2>1. StoreStep
    BY <1>3 DEF UserStop, StoreStep, StoreNext
  <2>2. att'.state = att.state
    BY <1>3 DEF UserStop, StopReservation, RowsInv, TypeOK, StoreTypeOK
  <2>3. (att.state \in Stoppable) \in BOOLEAN
    OBVIOUS
  <2>4. ProcessTypeOK'
    BY <1>3, <2>3 DEF UserStop, RowsInv, TypeOK, ProcessTypeOK
  <2> QED
    BY <1>0, <1>3, <1>a, <2>1, <2>2, <2>4, FilesTyped DEF UserStop, Kept
<1>4. CASE DeliverStop
  <2>1. (cancelled \/ registered) \in BOOLEAN
    BY DEF RowsInv, TypeOK, ProcessTypeOK
  <2>2. ProcessTypeOK'
    BY <1>4, <2>1 DEF DeliverStop, RowsInv, TypeOK, ProcessTypeOK
  <2> QED
    BY <1>0, <1>4, <1>a, <2>2, FilesTyped DEF DeliverStop, Kept, StoreStep, storeVars
<1>5. CASE PlaceForeign \/ RemoveFinal
  <2>1. PICK owner \in Owners : ChangeFinal(owner)
    BY <1>5 DEF PlaceForeign, RemoveFinal, Owners
  <2>2. FilesTypeOK(MaxBytes)'
    BY <1>0, <2>1, FilesTyped DEF ChangeFinal
  <2>3. userOps' \in 0 .. MaxUserOps
    BY <2>1, BoundsAssumption DEF ChangeFinal, RowsInv, TypeOK, ProcessTypeOK
  <2>4. ProcessTypeOK'
    BY <2>1, <2>3 DEF ChangeFinal, RowsInv, TypeOK, ProcessTypeOK, procVars
  <2> QED
    BY <1>a, <2>1, <2>2, <2>4 DEF ChangeFinal, Kept, StoreStep, storeVars
<1> QED
  BY <1>1, <1>2, <1>3, <1>4, <1>5 DEF UserStep

-----------------------------------------------------------------------------
(* The theorems.                                                           *)

\* A fresh database and one that an older version left in the middle of a
\* publication both satisfy the invariant.
LEMMA InitiallyHolds ==
    ASSUME Init
    PROVE  RowsInv
<1>0. 0 \in Bytes /\ 0 \in 0 .. MaxBytes /\ Packet \in Bytes /\ Packet \in 0 .. MaxBytes
  BY PacketAssumption, MaxBytesAssumption, LegacyAssumption DEF Bytes
<1>a. NoReconcile \in [busy : BOOLEAN, avail : {"FINAL", "MISSING", "MISMATCHED"},
                       integrity : Integrities]
  BY DEF NoReconcile, Integrities
<1>b. 0 \in 0 .. MaxCrashes /\ 0 \in 0 .. MaxFaults /\ 0 \in 0 .. MaxUserOps
  BY BoundsAssumption
<1>c. ProcessTypeOK
  BY <1>a, <1>b, NoLocalsTyped DEF Init, FreshInit, LegacyInit, ProcessTypeOK, Labels
<1>d. Control
  BY DEF Init, Control
<1>1. CASE FreshInit
  <2>1. StoreTypeOK
    BY <1>0, <1>1 DEF FreshInit, StoreInit, StoreTypeOK, NoAttempt, NoSegment, Reasons,
       SegmentStates, Availabilities, Integrities
  <2>2. FilesTypeOK(MaxBytes)
    BY <1>0, <1>1 DEF FreshInit, FilesInit, FilesTypeOK, EmptyDirectory, Directories, Owners, Months
  <2>3. RowsConsistent
    BY <1>1 DEF FreshInit, StoreInit, NoAttempt, NoSegment, RowsConsistent, EarlyRows, PlannedRows,
       FinalizingRows, CompletedRows, StopRows, Completed, CommunicationPartial
  <2> QED
    BY <1>c, <1>d, <2>1, <2>2, <2>3 DEF RowsInv, TypeOK
<1>2. CASE LegacyInit
  <2>0. PICK published \in BOOLEAN :
          seg = [state |-> "PARTIAL", bytes |-> Packet, synced |-> TRUE,
                 published |-> published, dirSynced |-> FALSE, avail |-> "PARTIAL",
                 integrity |-> None]
    BY <1>2 DEF LegacyInit
  <2>1. StoreTypeOK
    BY <1>0, <1>2, <2>0 DEF LegacyInit, StoreTypeOK, Reasons, AttemptStates, PlanReasons,
       SuccessReasons, SegmentStates, Availabilities, Integrities
  <2>2. FilesTypeOK(MaxBytes)
    BY <1>0, <1>2 DEF LegacyInit, FilesTypeOK, Directories, Owners, Months
  <2>3. RowsConsistent
    BY <1>2, <2>0, PacketAssumption DEF LegacyInit, RowsConsistent, EarlyRows, PlannedRows,
       FinalizingRows, CompletedRows, StopRows, Completed, CommunicationPartial, Stoppable,
       PlanReasons, SuccessReasons, CommunicationReasons, Useful
  <2> QED
    BY <1>c, <1>d, <2>1, <2>2, <2>3 DEF RowsInv, TypeOK
<1> QED
  BY <1>1, <1>2 DEF Init

\* Every step of any actor is an operation on the rows, or leaves them alone,
\* and keeps types and control.
LEMMA StepIsKept ==
    ASSUME RowsInv, [Next]_vars
    PROVE  Kept
<1>1. CASE Claim \/ MissClaim
  BY <1>1, StartSteps
<1>2. CASE ExecutorStep
  BY <1>2, StartSteps, DecisionSteps, CopySteps, SealSteps, PublishSteps,
     ProcessSteps DEF ExecutorStep
<1>3. CASE CopyStep
  BY <1>3, CopySteps DEF CopyStep
<1>4. CASE RecoveryRun
  BY <1>4, RecoverySteps
<1>5. CASE ReconcileInspect \/ ReconcileUpdate \/ UserStep
  BY <1>5, OtherSteps
<1>6. CASE ProcessStep
  BY <1>6, ProcessSteps
<1>7. CASE UNCHANGED vars
  BY <1>7 DEF vars, storeVars, fileVars, procVars, RowsInv, TypeOK, FilesTypeOK, ProcessTypeOK,
     Control, FinishCompatible, Successful, Kept, StoreStep
<1> QED
  BY <1>1, <1>2, <1>3, <1>4, <1>5, <1>6, <1>7 DEF Next

\* No step of any actor breaks the invariant.
LEMMA StepsKeep ==
    ASSUME RowsInv, [Next]_vars
    PROVE  RowsInv'
<1>1. Kept
  BY StepIsKept
<1>2. StoreTypeOK /\ RowsConsistent
  BY DEF RowsInv, TypeOK
<1>3. CASE StoreNext
  BY <1>1, <1>2, <1>3, StoreTyped, RowsPreserved DEF Kept, RowsInv, TypeOK
<1>4. CASE UNCHANGED storeVars
  <2>1. StoreTypeOK'
    BY <1>2, <1>4 DEF storeVars, StoreTypeOK
  <2>2. RowsConsistent'
    BY <1>2, <1>4 DEF storeVars, RowsConsistent, EarlyRows, PlannedRows, FinalizingRows,
       CompletedRows, StopRows, Completed, CommunicationPartial
  <2> QED
    BY <1>1, <2>1, <2>2 DEF Kept, RowsInv, TypeOK
<1> QED
  BY <1>1, <1>3, <1>4 DEF Kept, StoreStep

\* The rows stay consistent and the control fits them, for ever.
THEOREM RowsInductive == Spec => []RowsInv
<1>1. Init => RowsInv
  BY InitiallyHolds
<1>2. RowsInv /\ [Next]_vars => RowsInv'
  BY StepsKeep
<1> QED
  BY <1>1, <1>2, PTL DEF Spec

\* Reconnection counts, byte counts, rows, results and the directory stay in
\* the ranges the code relies on, for every value of the bounds.
THEOREM TypeCorrect == Spec => []TypeOK
<1>1. RowsInv => TypeOK
  BY DEF RowsInv
<1> QED
  BY <1>1, RowsInductive, PTL

\* No history of stops, faults, crashes, power losses and directory changes
\* stores a row that keeps the program from starting (validateRecoveryValues).
THEOREM RecoveryAlwaysAccepts == Spec => []RecoveryNeverRefuses
<1>1. RowsInv => RecoveryNeverRefuses
  BY RowsSuffice DEF RowsInv, TypeOK
<1> QED
  BY <1>1, RowsInductive, PTL

\* A stored stop request always wins the race with the planned end and with a
\* communication error (BeginFinalization, the stop trigger).
THEOREM StopAlwaysDecides == Spec => []StopDecidesPlan
<1>1. RowsInv => StopDecidesPlan
  BY RowsSuffice DEF RowsInv, TypeOK
<1> QED
  BY <1>1, RowsInductive, PTL

-----------------------------------------------------------------------------
(* The rows implement RecordingPromise: initial states are promised ones,  *)
(* and every operation on consistent rows is a promised step or none.      *)

\* What the rows promise in each state of the attempt.
RowsPromise ==
    /\ att.state \in Stoppable => PromisedPhase = "running" /\ PromisedOutcome = "none"
    /\ att.state = None =>
          /\ PromisedPhase = IF resv.state = "ACTIVE" THEN "waiting" ELSE "cancelled"
          /\ PromisedOutcome = "none"
    /\ att.state = "FINALIZING" =>
          PromisedPhase = "publishing" /\ PromisedOutcome = PublishedOutcome(att.plan)
    /\ att.state \in Terminal =>
          /\ PromisedPhase = "settled"
          /\ PromisedOutcome = IF Completed THEN PublishedOutcome(att.reason)
                               ELSE IF att.state = "MISSED" THEN "missed" ELSE "unpublished"

\* They do so before and after any step.
LEMMA PhaseOfRows == RowsPromise /\ RowsPromise'
<1>1. RowsPromise
  <2> USE DEF Stoppable, Terminal
  <2>1. att.state \in {None, "FINALIZING", "MISSED"} \cup Stoppable => ~Completed
    BY DEF Completed, CommunicationPartial
  <2> QED
    BY <2>1 DEF RowsPromise, PromisedPhase, PromisedOutcome
<1> QED
  BY <1>1, PTL

\* The three outcomes of a publication.
LEMMA OutcomeOfPlan ==
    ASSUME NEW plan \in PlanReasons
    PROVE  /\ PublishedOutcome(plan) \in {"completed", "interrupted", "stopped"}
           /\ PublishedOutcome(plan) = "stopped" <=> plan = "USER_REQUESTED_STOP"
BY DEF PublishedOutcome, PlanReasons, SuccessReasons, CommunicationReasons

\* An operation on the rows takes a promised step, or none.
LEMMA PromisedSteps ==
    ASSUME StoreTypeOK, RowsConsistent, StoreTypeOK', RowsConsistent', StoreNext
    PROVE  [Promise!Next]_(Promise!promiseVars)
<1> USE DEF Promise!promiseVars
<1>0. /\ att.stop \in BOOLEAN /\ att.plan \in PlanReasons \cup {None}
      /\ att.state = "FINALIZING" => att.plan \in PlanReasons
      /\ att.plan # None => (att.stop <=> att.plan = "USER_REQUESTED_STOP")
      /\ att'.state = "FINALIZING" => att'.plan \in PlanReasons
      /\ att'.plan # None => (att'.stop <=> att'.plan = "USER_REQUESTED_STOP")
  BY DEF StoreTypeOK, RowsConsistent, PlannedRows, StopRows
<1>a. None \notin PlanReasons /\ None \notin Stoppable \cup Terminal
  BY DEF PlanReasons, SuccessReasons, CommunicationReasons, Stoppable, Terminal
<1>1. CASE ClaimRecording
  <2>1. att.state = None /\ resv.state = "ACTIVE" /\ att'.state \in Stoppable
        /\ att'.stop = FALSE
    BY <1>1 DEF ClaimRecording, NoAttempt, Stoppable
  <2>2. att.stop = FALSE
    BY <1>0, <2>1 DEF RowsConsistent, StopRows
  <2> QED
    BY <2>1, <2>2, PhaseOfRows DEF RowsPromise, Promise!Next, Promise!Begin
<1>2. CASE StopReservation /\ att.state = None
  <2>1. att' = att /\ resv.state = "ACTIVE" /\ resv'.state = "FINISHED"
    BY <1>2 DEF StopReservation, Stoppable
  <2> QED
    BY <1>2, <2>1, PhaseOfRows DEF RowsPromise, Promise!Next, Promise!Cancel
<1>3. CASE StopReservation /\ att.state # None
  <2>1. att.state \in Stoppable /\ att'.state = att.state /\ att'.stop = TRUE
    BY <1>3 DEF StopReservation, StoreTypeOK
  <2> QED
    BY <2>1, PhaseOfRows DEF RowsPromise, Promise!Next, Promise!RequestStop
<1>4. CASE StartAttempt \/ RecordingStarted \/ \E bytes \in Bytes : UpdateRecordingProgress(bytes)
  <2>1. att.state \in Stoppable /\ att'.state \in Stoppable /\ att'.stop = att.stop
    BY <1>4 DEF StartAttempt, RecordingStarted, UpdateRecordingProgress, StoreTypeOK, Stoppable
  <2> QED
    BY <2>1, PhaseOfRows DEF RowsPromise
<1>5. CASE \E bytes \in Bytes, want \in PlanReasons : BeginFinalization(want, bytes)
  <2>1. PICK bytes \in Bytes, want \in PlanReasons : BeginFinalization(want, bytes)
    BY <1>5
  <2>2. att.state \in Stoppable /\ att'.state = "FINALIZING" /\ att'.stop = att.stop
    BY <2>1 DEF BeginFinalization, StoreTypeOK, Stoppable
  <2>3. att'.plan \in PlanReasons /\ (att'.stop <=> att'.plan = "USER_REQUESTED_STOP")
    BY <1>0, <1>a, <2>2
  <2>4. PromisedOutcome' \in IF att.stop THEN {"stopped"} ELSE {"completed", "interrupted"}
    <3>1. PromisedOutcome' = PublishedOutcome(att'.plan)
      BY <2>2, PhaseOfRows DEF RowsPromise, PublishedOutcome
    <3> QED
      BY <2>2, <2>3, <3>1, OutcomeOfPlan
  <2> QED
    BY <2>2, <2>4, PhaseOfRows DEF RowsPromise, Promise!Next, Promise!Decide
<1>6. CASE MarkFinalPublished \/ MarkDirectorySynced
  <2>1. att' = att /\ att.state = "FINALIZING"
    BY <1>6 DEF MarkFinalPublished, MarkDirectorySynced
  <2>2. PromisedOutcome' = PromisedOutcome /\ PromisedPhase' = PromisedPhase
    BY <2>1, PhaseOfRows DEF RowsPromise, PublishedOutcome
  <2> QED
    BY <2>1, <2>2
<1>7. CASE \E req \in Requests : FinishCompatible(req) /\ FinishAttempt(req)
  <2>1. PICK req \in Requests : FinishCompatible(req) /\ FinishAttempt(req)
    BY <1>7
  <2>2. /\ att'.state = req.state /\ att'.reason = req.reason
        /\ att'.stop = att.stop /\ att'.plan = att.plan
        /\ att.state \in Stoppable \cup {"FINALIZING"} /\ att'.state \in Terminal
    BY <2>1 DEF FinishAttempt, FinishAllowed, FinishedAttempt, StoreTypeOK, Requests
  <2>3. /\ PromisedPhase' = "settled"
        /\ PromisedOutcome' = IF Completed' THEN PublishedOutcome(att'.reason)
                              ELSE IF att'.state = "MISSED" THEN "missed" ELSE "unpublished"
    BY <2>2, PhaseOfRows DEF RowsPromise, PublishedOutcome
  <2>4. CASE att.state \in Stoppable
    <3>1. att.plan = None
      BY <2>4 DEF RowsConsistent, EarlyRows
    <3>2. ~Completed'
      BY <1>a, <2>2, <3>1 DEF RowsConsistent, CompletedRows, PlannedRows
    <3>3. att.stop => att'.state # "MISSED"
      BY <2>2 DEF RowsConsistent, StopRows
    <3> QED
      BY <1>0, <2>2, <2>3, <2>4, <3>2, <3>3, PhaseOfRows DEF RowsPromise, Promise!Next, Promise!GiveUp
  <2>5. CASE att.state = "FINALIZING"
    <3>1. PromisedOutcome = PublishedOutcome(att.plan) /\ PromisedPhase = "publishing"
      BY <2>5, PhaseOfRows DEF RowsPromise
    <3>2. Completed' => att'.reason = att.plan
      BY <2>2 DEF RowsConsistent, CompletedRows
    <3>3. att'.state # "MISSED"
      BY <2>1, <2>2, <2>5 DEF FinishCompatible, Successful
    <3>4. PromisedOutcome' \in {PromisedOutcome, "unpublished"}
      BY <2>3, <3>1, <3>2, <3>3
    <3> QED
      BY <2>2, <2>3, <3>1, <3>4 DEF Promise!Next, Promise!Settle
  <2> QED
    BY <2>2, <2>4, <2>5
<1>8. CASE \E avail \in {"FINAL", "MISSING", "MISMATCHED"}, integrity \in Integrities :
              SetRecordingAvailability(avail, integrity)
  <2>1. att' = att /\ resv' = resv
    BY <1>8 DEF SetRecordingAvailability
  <2> QED
    BY <2>1 DEF PromisedPhase, PromisedOutcome, PublishedOutcome, Completed, CommunicationPartial
<1> QED
  BY <1>1, <1>2, <1>3, <1>4, <1>5, <1>6, <1>7, <1>8 DEF StoreNext

\* A fresh reservation waits; a publication that was begun has its outcome.
LEMMA PromisedStart ==
    ASSUME Init
    PROVE  Promise!Init
<1>1. CASE FreshInit
  <2>1. att.state = None /\ ~att.stop /\ att.stop = FALSE /\ resv.state = "ACTIVE"
    BY <1>1 DEF FreshInit, StoreInit, NoAttempt
  <2> QED
    BY <2>1, PhaseOfRows DEF RowsPromise, Promise!Init
<1>2. CASE LegacyInit
  <2>1. att.state = "FINALIZING" /\ att.stop = FALSE /\ att.plan = "COMPLETED"
    BY <1>2 DEF LegacyInit
  <2>2. PublishedOutcome("COMPLETED") = "completed"
    BY DEF PublishedOutcome, SuccessReasons, CommunicationReasons
  <2> QED
    BY <2>1, <2>2, PhaseOfRows DEF RowsPromise, Promise!Init
<1> QED
  BY <1>1, <1>2 DEF Init

\* A reservation is recorded at most once, its result is decided before it is
\* published, and a settled result stays: the executor, the recovery and their
\* failures implement RecordingPromise.
THEOREM RecorderKeepsPromise == Spec => KeepsPromise
<1>1. Init => Promise!Init
  BY PromisedStart
<1>2. ASSUME RowsInv, RowsInv', [Next]_vars
      PROVE  [Promise!Next]_(Promise!promiseVars)
  <2>1. StoreTypeOK /\ RowsConsistent /\ StoreTypeOK' /\ RowsConsistent'
    BY <1>2 DEF RowsInv, TypeOK
  <2>2. StoreNext \/ UNCHANGED storeVars
    BY <1>2, StepIsKept DEF Kept, StoreStep
  <2>3. CASE StoreNext
    BY <2>1, <2>3, PromisedSteps
  <2>4. CASE UNCHANGED storeVars
    BY <2>4 DEF storeVars, Promise!promiseVars, PromisedPhase, PromisedOutcome, PublishedOutcome,
       Completed, CommunicationPartial
  <2> QED
    BY <2>2, <2>3, <2>4
<1> QED
  BY <1>1, <1>2, RowsInductive, PTL DEF Spec, KeepsPromise, Promise!Spec

-----------------------------------------------------------------------------
(* The files.  What the rows and the directory look like.                  *)

HIDE DEF BeforeFinalizing, Publishing, ClosingReason

FileTypes ==
    /\ dir \in Directories /\ crashDirs \in SUBSET Directories /\ month \in Months
    /\ size \in Bytes /\ syncedSize \in Bytes

\* The types that the lemmas below need of the rows, the files and the locals.
LEMMA Types ==
    ASSUME RowsInv
    PROVE  /\ FileTypes /\ StoreTypeOK
           /\ dir.partial \in BOOLEAN /\ dir.final \in Owners
           /\ dir = [partial |-> dir.partial, final |-> dir.final]
           /\ mem \in Locals /\ pc \in Labels /\ userOps \in Nat
BY BoundsAssumption DEF RowsInv, TypeOK, FilesTypeOK, ProcessTypeOK, FileTypes, Bytes,
   Directories, StoreTypeOK

\* A state of an attempt is one of these, and only one.
LEMMA StatesDisjoint ==
    /\ Stoppable \cap ({None, "FINALIZING"} \cup Terminal) = {}
    /\ {None, "FINALIZING"} \cap Terminal = {}
BY DEF Stoppable, Terminal

\* While a recording may still be stopped, no directory that a power loss may
\* leave has our final name.
LEMMA EarlyHasNoFinal ==
    ASSUME FilesSealed, att.state \in Stoppable \cup {None}
    PROVE  \A d \in crashDirs : d.final # "ours"
BY StatesDisjoint DEF FilesSealed, Sealed

-----------------------------------------------------------------------------
(* What the files and the rows say of each other, by what a step changes.  *)

\* The rows change without what the files are compared with, or not at all.
LEMMA SameFiles ==
    ASSUME FilesInv, UNCHANGED fileVars, userOps' = userOps,
           att'.state = att.state, att'.plan = att.plan, att'.bytes = att.bytes,
           att'.reason = att.reason,
           att.state = "FINALIZING" => seg' = seg,
           att.state \in Terminal => seg' = seg,
           userOps = 0 /\ ~Lost => rec'.avail = "FINAL"
    PROVE  FilesInv'
<1> USE DEF FilesInv, fileVars, Lost
<1>1. FilesSealed'
  BY DEF FilesSealed, Sealed
<1>2. Completed' <=> Completed
  BY DEF Completed, CommunicationPartial
<1>3. Completed => att.state \in Terminal
  BY DEF Completed, CommunicationPartial, Terminal
<1>4. FilesPublished'
  BY <1>2, <1>3 DEF FilesPublished, FinalDurable
<1>5. FilesNamed'
  BY <1>2 DEF FilesNamed, Undisturbed, ResultNamed, SameFile
<1> QED
  BY <1>1, <1>4, <1>5

\* Before BeginFinalization: the partial file is created and written.
LEMMA EarlyFiles ==
    ASSUME FilesInv, att.state \in Stoppable, att'.state \in Stoppable,
           \/ UNCHANGED <<dir, crashDirs>>
           \/ /\ dir' = [dir EXCEPT !.partial = TRUE]
              /\ crashDirs' = crashDirs \cup {dir'},
           month' = "absent" => crashDirs' = {EmptyDirectory},
           dir = [partial |-> dir.partial, final |-> dir.final],
           userOps' = userOps, rec' = rec,
           Undisturbed => dir'.partial \/ size' = 0
    PROVE  FilesInv'
<1> USE DEF FilesInv, Lost
<1>1. dir' \in crashDirs' /\ \A d \in crashDirs' : d.final # "ours"
  BY EarlyHasNoFinal DEF FilesSealed
<1>2. FilesSealed'
  BY <1>1, StatesDisjoint DEF FilesSealed
<1>3. ~Completed' /\ ~Completed
  BY DEF Completed, CommunicationPartial, Stoppable
<1>4. userOps = 0 => \A d \in crashDirs' : d.final # "foreign"
  BY DEF FilesPublished, FilesSealed
<1>5. FilesPublished'
  BY <1>3, <1>4 DEF FilesPublished
<1>6. dir'.final = dir.final
  OBVIOUS
<1>7. FilesNamed'
  BY <1>3, <1>6, StatesDisjoint DEF FilesNamed, Undisturbed
<1> QED
  BY <1>2, <1>5, <1>7

\* The row begins with no file.
LEMMA ClaimFiles ==
    ASSUME FilesInv, ClaimRecording, UNCHANGED fileVars, userOps' = userOps, rec' = rec
    PROVE  FilesInv'
<1>1. att.state = None /\ att'.state \in Stoppable
  BY DEF ClaimRecording, NoAttempt, Stoppable
<1>2. FilesSealed'
  BY <1>1, EarlyHasNoFinal, StatesDisjoint DEF FilesInv, FilesSealed, fileVars
<1>3. FilesPublished'
  <2>1. ~Completed'
    BY <1>1 DEF Completed, CommunicationPartial, Stoppable
  <2> QED
    BY <1>1, <2>1 DEF FilesInv, FilesPublished, fileVars, Lost, Completed, CommunicationPartial
<1>4. FilesNamed'
  BY <1>1, StatesDisjoint DEF FilesInv, FilesNamed, Undisturbed, fileVars, EmptyDirectory, Lost, Completed,
     CommunicationPartial, Stoppable
<1> QED
  BY <1>2, <1>3, <1>4 DEF FilesInv

\* BeginFinalization stores the count of the bytes that Sync made durable.
LEMMA FinalizeFiles ==
    ASSUME FilesInv, RowsInv, RowsInv', NEW want, BeginFinalization(want, size),
           syncedSize = size, Undisturbed => dir = PartialOnly,
           UNCHANGED fileVars, userOps' = userOps, rec' = rec
    PROVE  FilesInv'
<1>1. /\ att.state \in Stoppable /\ att'.state = "FINALIZING" /\ att'.bytes = size
      /\ seg'.published = seg.published /\ seg'.dirSynced = seg.dirSynced
  BY DEF BeginFinalization, Stoppable, RowsInv, TypeOK, StoreTypeOK
<1>2. ~seg.published /\ ~seg.dirSynced /\ att'.plan # None
  BY <1>1 DEF RowsInv, RowsConsistent, EarlyRows, PlannedRows, PlanReasons, SuccessReasons,
     CommunicationReasons
<1>3. FilesSealed'
  BY <1>1, <1>2 DEF FilesInv, FilesSealed, Sealed, fileVars
<1>4. FilesPublished'
  <2>1. ~Completed'
    BY <1>1 DEF Completed, CommunicationPartial
  <2> QED
    BY <1>1, <2>1 DEF FilesInv, FilesPublished, fileVars, Lost, Completed, CommunicationPartial, Stoppable
<1>5. FilesNamed'
  BY <1>1, <1>2, StatesDisjoint DEF FilesInv, FilesNamed, Undisturbed, fileVars, PartialOnly, SameFile, Lost,
     Completed, CommunicationPartial
<1> QED
  BY <1>3, <1>4, <1>5 DEF FilesInv

\* A step of the publication changes names, never bytes or the plan.
LEMMA PublicationFiles ==
    ASSUME FilesInv, att.state = "FINALIZING", att' = att,
           \/ UNCHANGED <<dir, crashDirs>>
           \/ crashDirs' = crashDirs \cup {dir'}
           \/ dir' = dir /\ crashDirs' = {dir'},
           month' = "absent" => crashDirs' = {EmptyDirectory},
           userOps = 0 => dir'.final # "foreign",
           UNCHANGED <<size, syncedSize>>, userOps' = userOps,
           userOps = 0 => rec'.avail = "FINAL",
           Undisturbed =>
              /\ dir'.final = "none" => dir'.partial /\ ~seg'.published
              /\ SameFile' => ~seg'.dirSynced
    PROVE  FilesInv'
<1> USE DEF FilesInv, Lost
<1>1. Sealed /\ Sealed'
  BY DEF FilesSealed, Sealed
<1>2. FilesSealed'
  BY <1>1 DEF FilesSealed
<1>3. FilesPublished'
  <2>1. ~Completed'
    BY DEF Completed, CommunicationPartial
  <2> QED
    BY <2>1 DEF FilesPublished, FilesSealed
<1>4. FilesNamed'
  BY StatesDisjoint DEF FilesNamed, Undisturbed, Completed, CommunicationPartial
<1> QED
  BY <1>2, <1>3, <1>4

\* FinishAttempt stores a result that fits the files.
LEMMA FinishFiles ==
    ASSUME FilesInv, RowsInv, RowsInv', NEW req \in Requests, FinishAttempt(req),
           FinishCompatible(req), UNCHANGED fileVars, userOps' = userOps,
           userOps = 0 /\ ~Lost => rec'.avail = "FINAL",
           att.state = "FINALIZING" => req.bytes = size,
           userOps = 0 /\ att.state = "FINALIZING" /\ Successful(req) => FinalDurable,
           Undisturbed => ResultNamed(req.avail, req.bytes) \/ Successful(req)
    PROVE  FilesInv'
<1>1. /\ att'.state = req.state /\ att'.reason = req.reason /\ att'.bytes = req.bytes
      /\ att'.plan = att.plan /\ att'.state \in Terminal
      /\ att.state \in Stoppable \cup {"FINALIZING"}
      /\ Successful(req) => att.state = "FINALIZING" /\ att.plan = req.reason
                            /\ seg.avail = "FINAL" /\ seg'.avail = "FINAL"
      /\ ~Successful(req) => seg'.avail = req.avail
  BY DEF FinishAttempt, FinishAllowed, FinishedAttempt, Requests, RowsInv, TypeOK, StoreTypeOK
<1>2. FilesSealed'
  <2>1. CASE att.state = "FINALIZING"
    BY <1>1, <2>1, StatesDisjoint DEF FilesInv, FilesSealed, Sealed, fileVars
  <2>2. CASE att.state \in Stoppable
    BY <1>1, <2>2, EarlyHasNoFinal, StatesDisjoint DEF FilesInv, FilesSealed, fileVars
  <2> QED
    BY <1>1, <2>1, <2>2
<1>3. Completed' => Successful(req)
  <2>1. ASSUME Completed', att.state \in Stoppable
        PROVE  FALSE
    <3>1. att'.plan \in PlanReasons
      BY <2>1 DEF RowsInv, RowsConsistent, PlannedRows
    <3>2. att.plan = None
      BY <2>1 DEF RowsInv, RowsConsistent, EarlyRows
    <3> QED
      BY <1>1, <3>1, <3>2 DEF PlanReasons, SuccessReasons, CommunicationReasons
  <2>2. ASSUME Completed', att.state = "FINALIZING"
        PROVE  Successful(req)
    BY <1>1, <2>2 DEF FinishCompatible, Completed, CommunicationPartial
  <2> QED
    BY <1>1, <2>1, <2>2
<1>0. ~Lost
  BY <1>1, StatesDisjoint DEF Lost, Completed, CommunicationPartial, Stoppable
<1>4. FilesPublished'
  BY <1>0, <1>1, <1>3 DEF FilesInv, FilesPublished, FinalDurable, fileVars
<1>5. Successful(req) => Completed'
  <2>1. ValidFinish(req)
    BY DEF FinishAttempt, FinishAllowed
  <2> QED
    BY <1>1, <2>1 DEF Successful, ValidFinish, Completed, CommunicationPartial
<1>6. Undisturbed => ~Lost'
  <2>1. ASSUME Completed', month' = "absent", Undisturbed
        PROVE  FALSE
    <3>1. crashDirs = {FinalOnly} /\ crashDirs = {EmptyDirectory}
      BY <1>1, <1>3, <2>1 DEF FilesInv, FilesSealed, FinalDurable, fileVars, Undisturbed, Successful
    <3>2. EmptyDirectory = FinalOnly
      BY <3>1
    <3> QED
      BY <3>2 DEF FinalOnly, EmptyDirectory
  <2> QED
    BY <2>1 DEF Lost
<1>7. FilesNamed'
  BY <1>1, <1>5, <1>6, StatesDisjoint DEF FilesInv, FilesNamed, Undisturbed, ResultNamed, fileVars
<1> QED
  BY <1>2, <1>4, <1>7 DEF FilesInv

\* A reconciliation stores what it observed.
LEMMA AvailabilityFiles ==
    ASSUME FilesInv, RowsInv, UpdateAvailability, UNCHANGED fileVars, userOps' = userOps,
           rec' = NoReconcile
    PROVE  FilesInv'
<1>1. rec'.avail = "FINAL" /\ (userOps = 0 /\ ~Lost => rec.avail = "FINAL")
  BY DEF NoReconcile, FilesInv, FilesPublished
<1>2. Completed => att.state \in Terminal
  BY DEF Completed, CommunicationPartial, Terminal
<1>3. att' = att /\ (Completed \/ seg' = seg) /\ (seg' = seg \/ seg' = [seg EXCEPT !.avail = rec.avail,
                                                            !.integrity = rec.integrity])
  BY DEF UpdateAvailability, SetRecordingAvailability, storeVars
<1>4. CASE seg' = seg
  BY <1>1, <1>3, <1>4, SameFiles
<1>5. CASE Completed /\ seg' # seg
  <2>1. Completed'
    BY <1>3, <1>5 DEF Completed, CommunicationPartial
  <2>2. userOps = 0 /\ ~Lost => seg.avail = "FINAL" /\ seg' = [seg EXCEPT !.avail = "FINAL",
                                                            !.integrity = rec.integrity]
    BY <1>1, <1>3, <1>5 DEF FilesInv, FilesPublished
  <2>3. FilesSealed'
    BY <1>3 DEF FilesInv, FilesSealed, Sealed, fileVars
  <2>4. (userOps = 0 /\ ~Lost => seg'.avail = seg.avail) /\ (Lost' <=> Lost)
    BY <1>5, <2>1, <2>2, Types DEF StoreTypeOK, Lost, fileVars
  <2>5. FilesPublished'
    BY <1>1, <1>5, <2>4 DEF FilesInv, FilesPublished, FinalDurable, fileVars
  <2>6. FilesNamed'
    BY <1>2, <1>3, <1>5, <2>1, <2>4, StatesDisjoint DEF FilesInv, FilesNamed, Undisturbed,
       ResultNamed, fileVars
  <2> QED
    BY <2>3, <2>5, <2>6 DEF FilesInv
<1> QED
  BY <1>3, <1>4, <1>5

\* A power loss takes nothing that is sealed and no name that is durable.
LEMMA PowerLossFiles ==
    ASSUME FilesInv, RowsInv, LosePower, PowerLoss, UNCHANGED storeVars, userOps' = userOps,
           rec' = NoReconcile
    PROVE  FilesInv'
<1>1. Sealed => size' = size /\ syncedSize' = size
  <2>1. size \in Nat
    BY MaxBytesAssumption DEF RowsInv, TypeOK, FilesTypeOK
  <2> QED
    BY <2>1 DEF LosePower, Sealed
<1>2. Sealed => Sealed'
  BY <1>1 DEF Sealed, storeVars
<1>3. /\ crashDirs' = {dir'}
      /\ \/ month' = "absent" /\ dir' = EmptyDirectory
         \/ (month' = "absent" <=> month = "absent") /\ dir' \in crashDirs
  BY DEF LosePower
<1>4. FilesSealed'
  <2>1. \A d \in crashDirs' : d.final = "ours" => Sealed
    BY <1>3 DEF FilesInv, FilesSealed, EmptyDirectory
  <2>2. month' = "absent" => crashDirs' = {EmptyDirectory}
    BY <1>3 DEF FilesInv, FilesSealed
  <2> QED
    BY <1>2, <1>3, <2>1, <2>2 DEF FilesInv, FilesSealed, storeVars
<1>5. Completed' <=> Completed
  BY DEF Completed, CommunicationPartial, storeVars
<1>6. FilesPublished'
  BY <1>3, <1>5 DEF FilesInv, FilesPublished, FinalDurable, storeVars, NoReconcile, EmptyDirectory, Lost
<1>7. FilesNamed'
  BY BoundsAssumption DEF FilesNamed, Undisturbed
<1> QED
  BY <1>4, <1>6, <1>7 DEF FilesInv

\* Somebody else changes the final name: only what is sealed is still known.
LEMMA OutsideFiles ==
    ASSUME FilesInv, RowsInv, NEW owner \in {"none", "foreign"}, ChangeFinal(owner)
    PROVE  FilesInv'
<1>1. userOps' # 0
  BY Types DEF ChangeFinal
<1>2. dir'.final = owner /\ crashDirs' = crashDirs \cup {dir'} /\ month' # "absent"
      /\ UNCHANGED <<size, syncedSize, storeVars>>
  BY Types DEF ChangeFinal, Rename, EnsureDirectory
<1>3. FilesSealed'
  BY <1>2 DEF FilesInv, FilesSealed, Sealed, storeVars
<1>4. FilesPublished' /\ FilesNamed'
  BY <1>1 DEF FilesPublished, FilesNamed, Undisturbed
<1> QED
  BY <1>3, <1>4 DEF FilesInv

-----------------------------------------------------------------------------
(* Where the goroutine and the recovery are says what they did.            *)

USE DEF PlacesInv, SyncedPlaces, LinkedPlaces, NamedPlaces, BeforeCreation, BeforeFinalizing

\* Nothing is said of a goroutine that is idle or gives up, nor of a recovery
\* that has yet to look at the files.
LEMMA NoPlace ==
    ASSUME pc' \in {"idle", "done", "error", "rread", "ravail"}
    PROVE  PlacesInv'
OBVIOUS

\* The other actors leave the goroutine and its files alone.
LEMMA SamePlaces ==
    ASSUME PlacesInv, UNCHANGED <<pc, mem, fileVars, userOps>>,
           att.state = "FINALIZING" <=> att'.state = "FINALIZING"
    PROVE  PlacesInv'
BY DEF fileVars, Undisturbed, ResultNamed, FinalDurable

\* An early step that keeps the names keeps what they say.
LEMMA EarlySafe ==
    ASSUME IInv, RowsInv', pc \in BeforeFinalizing, att'.state \in Stoppable, Local,
           UNCHANGED <<dir, month, crashDirs>>, pc \in BeforeCreation => size' = size
    PROVE  FilesInv'
<1>1. att.state \in Stoppable
  BY DEF IInv, RowsInv, Control
<1>2. Undisturbed => dir'.partial \/ size' = 0
  BY DEF IInv, PartialOnly, EmptyDirectory
<1>3. month' = "absent" => crashDirs' = {EmptyDirectory}
  BY DEF IInv, FilesInv, FilesSealed
<1> QED
  BY <1>1, <1>2, <1>3, EarlyFiles, Types DEF IInv, Local

\* Before the file is created.
LEMMA CreationPlaces ==
    ASSUME PlacesInv, pc \in BeforeCreation, pc' \in {"start", "check", "create"},
           UNCHANGED fileVars, userOps' = userOps
    PROVE  PlacesInv'
BY DEF fileVars, Undisturbed

\* While the recording runs.
LEMMA RunningPlaces ==
    ASSUME pc' \in {"loop", "open", "retry", "first", "begin", "copy"},
           Undisturbed' => dir' = PartialOnly,
           Undisturbed' /\ pc' # "copy" /\ ~mem'.started => size' = 0,
           pc' \in {"first", "begin"} => ~mem'.started,
           Undisturbed' /\ pc' = "copy" => mem'.started
    PROVE  PlacesInv'
BY DEF Undisturbed

\* A copy that ends is closed, with an empty file unless it had started.
LEMMA ClosingPlaces ==
    ASSUME mem \in Locals, NEW reason, NEW started \in BOOLEAN,
           FinishCopyFailure(reason, started) \/ ReachEnd,
           Undisturbed' => dir' = PartialOnly,
           Undisturbed' /\ ~started => size' = 0
    PROVE  PlacesInv'
<1>1. pc' \in {"progress", "sync"} /\ (mem'.kind = "before" => ~started)
  BY DEF FinishCopyFailure, ReachEnd, Locals
<1> QED
  BY <1>1

\* A result that is decided while the attempt may still be stopped.
LEMMA EarlyResultPlaces ==
    ASSUME pc' \in {"finish", "rfinish"}, att'.state \in Stoppable,
           Undisturbed' => ResultNamed(mem.req.avail, mem.req.bytes)'
    PROVE  PlacesInv'
<1>1. att'.state # "FINALIZING"
  BY DEF Stoppable
<1> QED
  BY <1>1 DEF Undisturbed

LEMMA UnsuccessfulNamed ==
    ASSUME mem \in Locals, NEW reason, NEW bytes, NEW fileExists \in BOOLEAN,
           NEW detached, FinishWith(UnsuccessfulRequest(reason, bytes, fileExists), detached),
           att'.state \in Stoppable,
           Undisturbed' => IF fileExists THEN dir' = PartialOnly /\ bytes = size'
                           ELSE size' = 0 /\ dir'.final = "none"
    PROVE  PlacesInv'
<1>1. pc' = "finish" /\ mem'.req.bytes = bytes
      /\ mem'.req.avail = IF fileExists THEN "PARTIAL" ELSE "MISSING"
  BY DEF FinishWith, Locals, UnsuccessfulRequest
<1> QED
  BY <1>1, EarlyResultPlaces DEF ResultNamed

-----------------------------------------------------------------------------
(* The steps before BeginFinalization.                                     *)

FilesKept == FilesInv' /\ PlacesInv'

\* A step that changes neither rows nor files, wherever it goes.
LEMMA QuietFiles ==
    ASSUME IInv, UNCHANGED <<storeVars, fileVars, userOps>>,
           rec' = rec \/ rec' = NoReconcile
    PROVE  FilesInv'
<1>1. userOps = 0 /\ ~Lost => rec'.avail = "FINAL"
  BY DEF IInv, FilesInv, FilesPublished, NoReconcile
<1> QED
  BY <1>1, SameFiles DEF IInv, storeVars

LEMMA AbortFiles ==
    ASSUME IInv, Abort
    PROVE  FilesKept
BY QuietFiles, NoPlace DEF Abort, Goto, Local, FilesKept

\* The claim and the miss.
LEMMA ClaimSteps ==
    ASSUME IInv, RowsInv', Claim \/ MissClaim \/ MissFinish \/ Register
    PROVE  FilesKept
<1> USE DEF IInv, FilesKept
<1>1. ASSUME ClaimRecording, UNCHANGED fileVars, Local, pc' \in {"claimed", "missed"},
             pc' = "missed" => mem'.req.avail = "MISSING"
      PROVE  FilesKept
  <2>1. FilesInv'
    BY <1>1, ClaimFiles DEF Local
  <2>2. Undisturbed' => dir' = EmptyDirectory /\ size' = 0
    BY <1>1 DEF FilesInv, FilesNamed, Undisturbed, ClaimRecording, Local, fileVars
  <2> QED
    BY <1>1, <2>1, <2>2
<1>2. CASE Claim
  BY <1>1, <1>2 DEF Claim, Goto
<1>3. CASE MissClaim
  <2>1. mem'.req.avail = "MISSING"
    BY <1>3, Types DEF MissClaim, Locals
  <2> QED
    BY <1>1, <1>3, <2>1 DEF MissClaim
<1>4. CASE MissFinish
  <2>1. att.state \in Stoppable /\ pc' \in {"done", "error"} /\ rec' = rec /\ userOps' = userOps
        /\ UNCHANGED fileVars /\ mem.req \in Requests
    BY <1>4, Types DEF MissFinish, Goto, Local, RowsInv, Control, Locals
  <2>2. userOps = 0 => rec'.avail = "FINAL"
    BY <2>1 DEF FilesInv, FilesPublished, Lost, Completed, CommunicationPartial, Stoppable
  <2>3. att.state # "FINALIZING"
    BY <2>1 DEF Stoppable
  <2>4. Undisturbed => ResultNamed(mem.req.avail, mem.req.bytes)
    BY <1>4 DEF MissFinish, ResultNamed, EmptyDirectory
  <2>5. CASE FinishAttempt(mem.req)
    BY <2>1, <2>2, <2>3, <2>4, <2>5, FinishFiles, NoPlace DEF FinishCompatible
  <2>6. CASE UNCHANGED storeVars
    BY <2>1, <2>6, QuietFiles, NoPlace
  <2> QED
    BY <1>4, <2>1, <2>5, <2>6 DEF MissFinish
<1>5. CASE Register
  <2>1. UNCHANGED <<storeVars, fileVars, userOps, rec>> /\ pc = "claimed" /\ pc' = "start"
    BY <1>5 DEF Register, Goto
  <2> QED
    BY <2>1, QuietFiles, CreationPlaces
<1> QED
  BY <1>2, <1>3, <1>4, <1>5

\* From StartAttempt to the first byte.
LEMMA StartFiles ==
    ASSUME IInv, RowsInv', StartStep \/ CheckInitialStop \/ CreateStep \/ BeginStep
    PROVE  FilesKept
<1> USE DEF IInv, FilesKept
<1>0. mem \in Locals /\ dir = [partial |-> dir.partial, final |-> dir.final]
  BY Types DEF RowsInv, Control
<1>1. CASE StartStep
  <2>1. CASE StartAttempt /\ pc' = "check"
    <3>1. att'.state \in Stoppable
      BY <2>1 DEF RowsInv, Control
    <3> QED
      BY <1>1, <2>1, <3>1, EarlySafe, CreationPlaces DEF StartStep, Local, fileVars
  <2>2. CASE UNCHANGED storeVars /\ pc' = "error"
    BY <1>1, <2>2, QuietFiles, NoPlace DEF StartStep, Local
  <2> QED
    BY <1>1, <2>1, <2>2 DEF StartStep, Goto
<1>2. CASE CheckInitialStop
  <2>1. CASE Quiet /\ pc' = "create"
    BY <1>2, <2>1, QuietFiles, CreationPlaces DEF CheckInitialStop, Quiet, Local
  <2>2. CASE Quiet /\ FinishWith(UnsuccessfulRequest("USER_REQUESTED_STOP", 0, FALSE), TRUE)
    <3>1. att'.state \in Stoppable /\ UNCHANGED <<fileVars, userOps>> /\ rec' = rec
      BY <1>2, <2>2 DEF CheckInitialStop, Quiet, Local, RowsInv, Control, storeVars
    <3>2. Undisturbed' => size' = 0 /\ dir'.final = "none"
      BY <1>2, <3>1 DEF CheckInitialStop, fileVars, Undisturbed, EmptyDirectory
    <3> QED
      BY <1>0, <2>2, <3>1, <3>2, QuietFiles, UnsuccessfulNamed DEF Quiet
  <2>3. CASE Abort
    BY <2>3, AbortFiles
  <2> QED
    BY <1>2, <2>1, <2>2, <2>3 DEF CheckInitialStop, Goto
<1>3. CASE CreateStep
  <2>1. /\ att.state \in Stoppable /\ att'.state \in Stoppable /\ UNCHANGED <<storeVars, userOps, rec>>
        /\ Undisturbed => dir = EmptyDirectory /\ size = 0
        /\ Undisturbed' = Undisturbed
    BY <1>3 DEF CreateStep, Local, RowsInv, Control, storeVars, Undisturbed
  <2>2. ASSUME CreatePartial
        PROVE  FilesInv' /\ (Undisturbed' => dir' = PartialOnly /\ size' = 0)
    <3>1. Undisturbed' => dir' = PartialOnly /\ size' = 0
      <4> SUFFICES ASSUME Undisturbed'
                   PROVE  dir' = PartialOnly /\ size' = 0
        OBVIOUS
      <4>1. dir = [partial |-> FALSE, final |-> "none"] /\ size = 0
        BY <2>1 DEF EmptyDirectory
      <4> QED
        BY <2>2, <4>1 DEF CreatePartial, Rename, PartialOnly
    <3>2. FilesInv'
      BY <1>0, <2>1, <2>2, <3>1, EarlyFiles DEF CreatePartial, EnsureDirectory, Rename, PartialOnly
    <3> QED
      BY <3>1, <3>2
  <2>3. CASE CreatePartial /\ Goto("loop")
    BY <2>2, <2>3, RunningPlaces DEF Goto
  <2>4. CASE CreatePartial /\ FinishCopyFailure("STREAM_NOT_FOUND", FALSE)
    BY <1>0, <2>2, <2>4, ClosingPlaces
  <2>5. CASE /\ CreateFails
             /\ FinishWith(UnsuccessfulRequest("FILE_CREATE_FAILED", 0, FALSE), TRUE)
    <3>1. FilesInv' /\ (Undisturbed' => size' = 0 /\ dir'.final = "none")
      <4>1. CASE CreatePartial
        BY <2>2, <4>1 DEF PartialOnly
      <4>2. CASE UNCHANGED fileVars
        BY <2>1, <4>2, QuietFiles DEF fileVars, EmptyDirectory
      <4>3. CASE NotCreated
        <5>1. UNCHANGED <<dir, crashDirs, size, syncedSize>> /\ month' # "absent"
          BY <4>3 DEF NotCreated, EnsureDirectory
        <5> QED
          BY <1>0, <2>1, <5>1, EarlyFiles DEF EmptyDirectory
      <4> QED
        BY <2>5, <4>1, <4>2, <4>3 DEF CreateFails
    <3> QED
      BY <1>0, <2>1, <2>5, <3>1, UnsuccessfulNamed
  <2> QED
    BY <1>3, <2>3, <2>4, <2>5 DEF CreateStep
<1>4. CASE BeginStep
  <2>1. CASE RecordingStarted /\ mem' = [mem EXCEPT !.started = TRUE] /\ pc' = "copy"
    <3>1. att'.state \in Stoppable /\ UNCHANGED <<fileVars, userOps>> /\ Local
      BY <1>4, <2>1 DEF BeginStep, Local, RowsInv, Control
    <3>2. Undisturbed' => dir' = PartialOnly
      BY <1>4, <3>1 DEF BeginStep, fileVars, Undisturbed
    <3>3. FilesInv'
      BY <1>4, <3>1, EarlySafe DEF BeginStep, fileVars
    <3>4. mem'.started
      BY <1>0, <1>4, <2>1 DEF BeginStep, Goto, Locals
    <3> QED
      BY <2>1, <3>2, <3>3, <3>4, RunningPlaces
  <2>2. CASE UNCHANGED storeVars /\ pc' = "error"
    BY <1>4, <2>2, QuietFiles, NoPlace DEF BeginStep, Local
  <2> QED
    BY <1>4, <2>1, <2>2 DEF BeginStep, Goto
<1> QED
  BY <1>1, <1>2, <1>3, <1>4

\* The connection loop keeps the file as it is.
LEMMA LoopFiles ==
    ASSUME IInv, RowsInv',
           LoopHead \/ OpenStep \/ Retry \/ RetryFault \/ CheckFirstStop
    PROVE  FilesKept
<1> USE DEF IInv, FilesKept
<1>1. /\ pc \in {"loop", "open", "retry", "first"} /\ UNCHANGED <<storeVars, fileVars, userOps, rec>>
      /\ mem \in Locals
  BY Types DEF LoopHead, OpenStep, Retry, RetryFault, CheckFirstStop, Quiet, Local, Abort
<1>2. FilesInv'
  BY <1>1, QuietFiles
<1>3. /\ Undisturbed' => dir' = PartialOnly
      /\ Undisturbed' /\ ~mem.started => size' = 0
      /\ Undisturbed' /\ pc = "first" => ~mem.started
  BY <1>1 DEF fileVars, Undisturbed
<1>4. ASSUME NEW reason, FinishCopyFailure(reason, mem.started) \/ ReachEnd
      PROVE  PlacesInv'
  BY <1>1, <1>3, <1>4, ClosingPlaces DEF Locals
<1>5. ASSUME pc' \in {"loop", "open", "retry", "first", "begin", "copy"},
             mem'.started = mem.started, pc' \in {"first", "begin"} => ~mem'.started,
             pc' = "copy" => mem'.started
      PROVE  PlacesInv'
  BY <1>3, <1>5, RunningPlaces
<1>6. CASE pc' = "error"
  BY <1>6, <1>2, NoPlace
<1>7. CASE LoopHead
  <2>1. CASE pc' = "open" /\ mem' = [mem EXCEPT !.reconnected = mem.conn > 0]
    BY <1>1, <1>2, <1>5, <2>1 DEF Locals
  <2> QED
    BY <1>2, <1>4, <1>6, <1>7, <2>1 DEF LoopHead, Abort, Goto
<1>8. CASE OpenStep
  <2>1. CASE Goto(IF mem.started THEN "copy" ELSE "first")
    BY <1>2, <1>5, <2>1 DEF Goto
  <2>2. ASSUME NEW reason, NEW retryable, ConnectionFailed(reason, retryable)
        PROVE  PlacesInv'
    BY <1>1, <1>5, <2>2 DEF ConnectionFailed, Locals
  <2> QED
    BY <1>2, <1>8, <2>1, <2>2 DEF OpenStep
<1>9. CASE Retry
  <2>1. CASE pc' = "loop" /\ mem' = [mem EXCEPT !.conn = @ + 1]
    BY <1>1, <1>2, <1>5, <2>1 DEF Locals
  <2> QED
    BY <1>2, <1>4, <1>9, <2>1 DEF Retry
<1>10. CASE RetryFault
  BY <1>2, <1>4, <1>6, <1>10 DEF RetryFault, Goto
<1>11. CASE CheckFirstStop
  <2>1. CASE Goto("begin")
    BY <1>2, <1>3, <1>11, <2>1, RunningPlaces DEF CheckFirstStop, Goto
  <2>2. CASE FinishCopyFailure("USER_REQUESTED_STOP", FALSE)
    BY <1>1, <1>2, <1>3, <1>11, <2>2, ClosingPlaces DEF CheckFirstStop
  <2> QED
    BY <1>2, <1>6, <1>11, <2>1, <2>2 DEF CheckFirstStop, Abort, Goto
<1> QED
  BY <1>1, <1>7, <1>8, <1>9, <1>10, <1>11

\* The copy writes bytes into the partial file.
LEMMA CopyFiles ==
    ASSUME IInv, RowsInv', CopyStep
    PROVE  FilesKept
<1> USE DEF IInv, FilesKept
<1>1. ASSUME Tail \/ UNCHANGED fileVars \/ WritePartial(1)
      PROVE  UNCHANGED <<dir, month, crashDirs>>
  BY <1>1 DEF Tail, WritePartial, fileVars
<1>2. /\ pc = "copy" /\ Local /\ UNCHANGED <<dir, month, crashDirs>>
      /\ UNCHANGED storeVars \/ UpdateRecordingProgress(size)
  BY <1>1 DEF CopyStep, CopyChunk, CopyProgress, CopyCancelled, CopyEnd, CopyFailed, CopyFault
<1>3. att'.state \in Stoppable
  <2>1. att.state \in Stoppable
    BY <1>2 DEF RowsInv, Control
  <2> QED
    BY <1>2, <2>1, Types DEF UpdateRecordingProgress, storeVars, StoreTypeOK, RowsInv
<1>4. FilesInv'
  BY <1>2, <1>3, EarlySafe
<1>5. (Undisturbed' => dir' = PartialOnly) /\ mem \in Locals
  BY <1>2, Types DEF Local, Undisturbed
<1>6. CASE Goto("copy")
  <2>1. Undisturbed' => mem'.started
    BY <1>2, <1>6 DEF Local, Undisturbed, Goto
  <2> QED
    BY <1>4, <1>5, <1>6, <2>1, RunningPlaces DEF Goto
<1>7. ASSUME NEW reason, FinishCopyFailure(reason, TRUE) \/ ReachEnd
      PROVE  FilesKept
  BY <1>4, <1>5, <1>7, ClosingPlaces
<1>8. ASSUME NEW reason, NEW retryable, ConnectionFailed(reason, retryable)
      PROVE  FilesKept
  <2>1. pc' = "retry" /\ mem'.started = mem.started
    BY <1>5, <1>8 DEF ConnectionFailed, Locals
  <2>2. Undisturbed' => mem.started
    BY <1>2 DEF Local, Undisturbed
  <2> QED
    BY <1>4, <1>5, <2>1, <2>2, RunningPlaces
<1> QED
  BY <1>2, <1>6, <1>7, <1>8 DEF CopyStep, CopyChunk, CopyProgress, CopyCancelled, CopyEnd, CopyFailed,
     CopyFault, Goto

\* Closing the partial file: Sync makes the written bytes durable.
LEMMA SealFiles ==
    ASSUME IInv, RowsInv', SaveProgress \/ SealPartial \/ SealFault
    PROVE  FilesKept
<1> USE DEF IInv, FilesKept
<1>1. /\ pc \in {"progress", "sync"} /\ Local /\ UNCHANGED <<dir, month, crashDirs, size>>
      /\ UNCHANGED storeVars \/ UpdateRecordingProgress(size)
      /\ mem \in Locals
  BY Types DEF SaveProgress, SealPartial, SealFault, SyncPartial, fileVars
<1>2. att'.state \in Stoppable
  <2>1. att.state \in Stoppable
    BY <1>1 DEF RowsInv, Control
  <2> QED
    BY <1>1, <2>1, Types DEF UpdateRecordingProgress, storeVars, StoreTypeOK, RowsInv
<1>3. FilesInv'
  BY <1>1, <1>2, EarlySafe
<1>4. /\ Undisturbed' => dir' = PartialOnly
      /\ Undisturbed' /\ mem.kind = "before" => size' = 0
  BY <1>1 DEF Local, Undisturbed
<1>5. ASSUME NEW reason, NEW detached, pc = "sync",
             FinishWith(UnsuccessfulRequest(reason, IF mem.kind = "before" THEN 0 ELSE size, TRUE),
                        detached)
      PROVE  PlacesInv'
  <2>1. Undisturbed' => (IF mem.kind = "before" THEN 0 ELSE size) = size'
    BY <1>1, <1>4
  <2>2. pc' = "finish" /\ mem'.req.avail = "PARTIAL"
        /\ mem'.req.bytes = IF mem.kind = "before" THEN 0 ELSE size
    BY <1>1, <1>5 DEF FinishWith, UnsuccessfulRequest, Locals
  <2> QED
    BY <1>2, <1>4, <2>1, <2>2, EarlyResultPlaces DEF ResultNamed
<1>6. CASE SaveProgress
  <2>1. CASE Goto("sync")
    BY <1>3, <1>4, <2>1 DEF Goto
  <2> QED
    BY <1>3, <1>6, <2>1, NoPlace DEF SaveProgress, Goto
<1>7. CASE SealPartial
  <2>1. CASE pc' = "publish"
    BY <1>3, <1>4, <1>7, <2>1 DEF SealPartial, SyncPartial
  <2> QED
    BY <1>3, <1>5, <1>7, <2>1 DEF SealPartial
<1>8. CASE SealFault
  BY <1>3, <1>5, <1>8 DEF SealFault
<1> QED
  BY <1>6, <1>7, <1>8

\* The decision to publish: BeginFinalization, or the shutdown's result.
LEMMA DecideFiles ==
    ASSUME IInv, RowsInv', PublishChecks \/ FinalizeStep
    PROVE  FilesKept
<1> USE DEF IInv, FilesKept
<1>1. CASE Abort
  BY <1>1, AbortFiles
<1>2. ASSUME ~Abort
      PROVE  FilesKept
  <2>1. /\ pc \in {"publish", "finalize"} /\ Local /\ UNCHANGED fileVars /\ userOps' = userOps
        /\ mem \in Locals /\ att.state \in Stoppable /\ rec' = rec
        /\ syncedSize = size /\ (Undisturbed => dir = PartialOnly)
    BY <1>2, Types DEF PublishChecks, FinalizeStep, Quiet, Local, RowsInv, Control
  <2>2. CASE pc' = "finalize" /\ UNCHANGED storeVars
    BY <2>1, <2>2, QuietFiles DEF fileVars, Undisturbed
  <2>3. CASE FinishWith(ShutdownRequest, TRUE) /\ UNCHANGED storeVars
    <3>1. Undisturbed' => dir' = PartialOnly
      BY <2>1 DEF fileVars, Undisturbed
    <3>2. pc' = "finish" /\ mem'.req.avail = "PARTIAL" /\ mem'.req.bytes = size
      BY <2>1, <2>3 DEF FinishWith, ShutdownRequest, UnsuccessfulRequest, Locals
    <3>3. PlacesInv'
      BY <2>1, <2>3, <3>1, <3>2, EarlyResultPlaces DEF ResultNamed, fileVars, storeVars
    <3> QED
      BY <2>1, <2>3, <3>3, QuietFiles
  <2>4. ASSUME NEW want, BeginFinalization(want, size), Goto("link")
        PROVE  FilesKept
    <3>1. FilesInv'
      BY <2>1, <2>4, FinalizeFiles
    <3>2. PlacesInv'
      BY <2>1, <2>4 DEF Goto, fileVars, Undisturbed
    <3> QED
      BY <3>1, <3>2
  <2> QED
    BY <1>2, <2>2, <2>3, <2>4 DEF PublishChecks, FinalizeStep, Quiet, Goto
<1> QED
  BY <1>1, <1>2

-----------------------------------------------------------------------------
(* The publication and its end.                                            *)

\* In FINALIZING the file is sealed, and while nobody else changes the
\* directory the final name is free or ours.
LEMMA PublishingFacts ==
    ASSUME IInv, att.state = "FINALIZING"
    PROVE  /\ att.bytes = size /\ att.plan \in PlanReasons
           /\ userOps = 0 => dir.final # "foreign" /\ rec.avail = "FINAL"
           /\ Undisturbed => (dir.final = "none" => dir.partial /\ ~seg.published)
                             /\ (SameFile => ~seg.dirSynced)
BY StatesDisjoint DEF IInv, FilesInv, FilesSealed, Sealed, FilesPublished, FilesNamed, RowsInv,
   RowsConsistent, PlannedRows, Lost, Completed, CommunicationPartial

\* The file operations of the publication.
LEMMA NameChanges ==
    ASSUME RowsInv
    PROVE  /\ LinkFinal => ~FinalExists /\ dir' = FinalOnly /\ crashDirs' = crashDirs \cup {dir'}
                           /\ UNCHANGED <<month, size, syncedSize>> /\ dir.partial
           /\ RemovePartial => /\ dir'.final = dir.final /\ ~dir'.partial /\ FinalExists
                               /\ dir' = [partial |-> dir'.partial, final |-> dir'.final]
                               /\ crashDirs' = crashDirs \cup {dir'} \/ UNCHANGED <<dir, crashDirs>>
                               /\ UNCHANGED <<month, size, syncedSize>>
           /\ SyncDirectory => dir' = dir /\ crashDirs' = {dir'} /\ UNCHANGED <<month, size, syncedSize>>
BY Types DEF LinkFinal, RemovePartial, RemovePartialAllowed, SyncDirectory, Rename, fileVars, FinalOnly

\* The planned result of a file that is published and durable.
LEMMA PlannedPlaces ==
    ASSUME IInv, att.state = "FINALIZING", att' = att, UNCHANGED <<fileVars, userOps>>,
           pc' \in {"finish", "rfinish"}, mem' = [mem EXCEPT !.req = PlannedRequest]
                                       \/ mem' = [mem EXCEPT !.req = PlannedRequest, !.detached = TRUE],
           userOps = 0 => FinalDurable
    PROVE  PlacesInv'
<1>1. mem'.req = PlannedRequest /\ PlannedRequest.bytes = size' /\ Successful(PlannedRequest)
  BY Types, PublishingFacts, PlannedTyped DEF Locals, PlannedRequest, IInv, fileVars
<1>2. Successful(mem.req)'
  BY <1>1 DEF Successful
<1> QED
  BY <1>1, <1>2 DEF fileVars, FinalDurable

\* No operation of the publication, of the goroutine or of the recovery, loses
\* the file.
LEMMA FinalizingStep ==
    ASSUME IInv, att.state = "FINALIZING", att' = att, userOps' = userOps,
           rec' = rec \/ rec' = NoReconcile,
           \/ UNCHANGED <<fileVars, seg>>
           \/ (LinkFinal \/ RemovePartial \/ SyncDirectory) /\ UNCHANGED seg
           \/ /\ MarkFinalPublished /\ UNCHANGED fileVars
              /\ userOps = 0 => dir.final = "ours"
           \/ /\ MarkDirectorySynced /\ UNCHANGED fileVars
              /\ userOps = 0 => dir = FinalOnly
    PROVE  FilesInv'
<1>1. userOps = 0 => rec'.avail = "FINAL"
  BY PublishingFacts DEF NoReconcile
<1>2. /\ UNCHANGED <<size, syncedSize>>
      /\ \/ UNCHANGED <<dir, crashDirs>>
         \/ crashDirs' = crashDirs \cup {dir'}
         \/ dir' = dir /\ crashDirs' = {dir'}
  BY NameChanges DEF IInv, fileVars
<1>5. month' = "absent" => crashDirs' = {EmptyDirectory}
  <2>1. month = "absent" => dir = EmptyDirectory /\ crashDirs = {EmptyDirectory}
    BY DEF IInv, FilesInv, FilesSealed
  <2>2. /\ month' = month
        /\ \/ UNCHANGED crashDirs
           \/ dir.partial \/ FinalExists
           \/ dir' = dir /\ crashDirs' = {dir'}
    BY NameChanges DEF IInv, fileVars
  <2>3. month = "absent" => ~dir.partial /\ ~FinalExists
    BY <2>1 DEF EmptyDirectory, FinalExists
  <2> QED
    BY <2>1, <2>2, <2>3
<1>3. userOps = 0 => dir'.final # "foreign"
  BY PublishingFacts, NameChanges DEF IInv, fileVars, FinalOnly
<1>4. ASSUME Undisturbed
      PROVE  /\ dir'.final = "none" => dir'.partial /\ ~seg'.published
             /\ SameFile' => ~seg'.dirSynced
  <2>1. userOps = 0
    BY <1>4 DEF Undisturbed
  <2>2. CASE UNCHANGED <<dir, seg>>
    BY <1>4, <2>2, PublishingFacts DEF SameFile
  <2>3. CASE LinkFinal \/ RemovePartial
    BY <2>3, NameChanges DEF IInv, SameFile, FinalOnly, FinalExists
  <2>4. CASE MarkFinalPublished /\ UNCHANGED fileVars /\ dir.final = "ours"
    BY <1>4, <2>4, PublishingFacts, Types DEF MarkFinalPublished, SameFile, fileVars, StoreTypeOK, IInv
  <2>5. CASE UNCHANGED fileVars /\ dir = FinalOnly
    BY <2>5 DEF SameFile, fileVars, FinalOnly
  <2> QED
    BY <2>1, <2>2, <2>3, <2>4, <2>5, NameChanges DEF IInv, fileVars
<1> QED
  BY <1>1, <1>2, <1>3, <1>4, <1>5, PublicationFiles DEF IInv

\* publishFinal after BeginFinalization.
LEMMA PublishFiles ==
    ASSUME IInv, RowsInv',
           LinkStep \/ MarkStep \/ SyncDirectoryStep \/ RemoveStep \/ MarkSyncedStep
    PROVE  FilesKept
<1> USE DEF IInv, FilesKept
<1>1. CASE Abort
  BY <1>1, AbortFiles
<1>2. ASSUME ~Abort
      PROVE  /\ Local /\ userOps' = userOps /\ rec' = rec /\ att' = att
             /\ att.state = "FINALIZING" /\ mem \in Locals
  BY <1>2, Types DEF LinkStep, MarkStep, SyncDirectoryStep, RemoveStep, MarkSyncedStep, Local, storeVars,
     MarkFinalPublished, MarkDirectorySynced, RowsInv, Control, Publishing
<1>3. CASE LinkStep /\ ~Abort
  <2>1. pc = "link" /\ seg' = seg
    BY <1>3 DEF LinkStep, storeVars
  <2>2. FilesInv'
    BY <1>2, <1>3, <2>1, FinalizingStep DEF LinkStep
  <2>3. CASE LinkFinal /\ Goto("mark")
    BY <1>2, <1>3, <2>2, <2>3, NameChanges DEF Goto
  <2>4. CASE /\ UNCHANGED fileVars
             /\ FinishWith([state |-> "FAILED", reason |-> "FINAL_PUBLICATION_FAILED",
                            bytes |-> size, avail |-> "PARTIAL"], TRUE)
    <3>1. pc' = "finish" /\ mem'.req = [state |-> "FAILED", reason |-> "FINAL_PUBLICATION_FAILED",
                                        bytes |-> size, avail |-> "PARTIAL"]
      BY <1>2, <1>3, <2>4 DEF FinishWith, Locals
    <3>2. Undisturbed' => dir' = PartialOnly
      BY <1>2, <1>3, <2>1, <2>4 DEF Undisturbed, fileVars
    <3> QED
      BY <2>2, <2>4, <3>1, <3>2 DEF Successful, ResultNamed, fileVars
  <2>5. CASE Goto("error")
    BY <2>2, <2>5, NoPlace DEF Goto
  <2> QED
    BY <1>3, <2>2, <2>3, <2>4, <2>5 DEF LinkStep
<1>4. CASE MarkStep /\ ~Abort
  <2>1. FilesInv'
    BY <1>2, <1>4, FinalizingStep DEF MarkStep, FinalOnly
  <2>2. PlacesInv'
    BY <1>2, <1>4 DEF MarkStep, Goto, fileVars
  <2> QED
    BY <2>1, <2>2
<1>5. CASE SyncDirectoryStep /\ ~Abort
  <2>1. FilesInv'
    BY <1>2, <1>5, FinalizingStep DEF SyncDirectoryStep, storeVars
  <2>2. PlacesInv'
    BY <1>2, <1>5, NameChanges DEF SyncDirectoryStep, Goto, FinalDurable
  <2> QED
    BY <2>1, <2>2
<1>6. CASE RemoveStep /\ ~Abort
  <2>1. FilesInv'
    BY <1>2, <1>6, FinalizingStep DEF RemoveStep, storeVars
  <2>2. CASE RemovePartial /\ Goto("sync2")
    <3>1. pc = "remove" /\ pc' = "sync2"
      BY <1>6, <2>2 DEF RemoveStep, Goto
    <3>2. userOps' = 0 => dir = FinalOnly /\ FinalDurable /\ UNCHANGED fileVars
      BY <1>2, <1>6, <2>2, <3>1 DEF RemovePartial, FinalOnly
    <3> QED
      BY <2>1, <3>1, <3>2 DEF FinalDurable, fileVars
  <2> QED
    BY <1>6, <2>1, <2>2, NoPlace DEF RemoveStep, Goto
<1>7. CASE MarkSyncedStep /\ ~Abort
  <2>1. FilesInv'
    BY <1>2, <1>7, FinalizingStep DEF MarkSyncedStep
  <2>2. PlacesInv'
    BY <1>2, <1>7, PlannedPlaces DEF MarkSyncedStep, FinishWith
  <2> QED
    BY <2>1, <2>2
<1> QED
  BY <1>1, <1>3, <1>4, <1>5, <1>6, <1>7

\* The end of the attempt, by the goroutine or by the recovery, and of the
\* goroutine.
LEMMA EndFiles ==
    ASSUME IInv, RowsInv', FinishStep \/ RecoverFinish \/ Complete
    PROVE  FilesKept
<1> USE DEF IInv, FilesKept
<1>1. CASE Complete
  BY <1>1, QuietFiles, NoPlace DEF Complete
<1>2. CASE FinishStep \/ RecoverFinish
  <2>1. /\ pc \in {"finish", "rfinish"} /\ pc' \in {"done", "error", "idle"}
        /\ UNCHANGED <<fileVars, userOps, rec>>
        /\ mem.req \in Requests /\ FinishCompatible(mem.req)
        /\ FinishAttempt(mem.req) \/ UNCHANGED storeVars
    BY <1>2, Types DEF FinishStep, RecoverFinish, Recovering, Recovered, Goto, Local, Locals,
       RowsInv, Control
  <2>2. /\ userOps = 0 /\ ~Lost => rec'.avail = "FINAL"
        /\ att.state = "FINALIZING" => mem.req.bytes = size
        /\ userOps = 0 /\ att.state = "FINALIZING" /\ Successful(mem.req) => FinalDurable
        /\ Undisturbed => ResultNamed(mem.req.avail, mem.req.bytes) \/ Successful(mem.req)
    BY <2>1 DEF FilesInv, FilesPublished
  <2>3. FilesInv'
    BY <2>1, <2>2, FinishFiles, QuietFiles
  <2> QED
    BY <2>1, <2>3, NoPlace
<1> QED
  BY <1>1, <1>2

-----------------------------------------------------------------------------
(* The process, the reconciliation and the user.                           *)

\* The process dies without the machine, or starts again.
LEMMA ProcessFiles ==
    ASSUME IInv, RowsInv', ProcessStep
    PROVE  FilesKept
<1> USE DEF IInv, FilesKept
<1>1. CASE ExitOnError \/ Exit
  BY <1>1, QuietFiles, NoPlace DEF ExitOnError, Exit, GoDown
<1>2. CASE Shutdown
  BY <1>2, QuietFiles, SamePlaces DEF Shutdown, storeVars
<1>3. CASE Crash
  <2>1. CASE UNCHANGED fileVars
    BY <1>3, <2>1, QuietFiles, NoPlace DEF Crash, GoDown
  <2>2. CASE PowerLoss /\ LosePower
    BY <1>3, <2>2, PowerLossFiles, NoPlace DEF Crash, GoDown
  <2> QED
    BY <1>3, <2>1, <2>2 DEF Crash
<1>4. CASE Restart
  BY <1>4, QuietFiles, NoPlace DEF Restart
<1> QED
  BY <1>1, <1>2, <1>3, <1>4 DEF ProcessStep

\* An observation of a completed recording finds the published file.
LEMMA ObservedFinal ==
    ASSUME IInv, Completed, ~Lost, userOps = 0
    PROVE  CompletedAvailability.avail = "FINAL"
<1>1. crashDirs = {FinalOnly} /\ dir \in crashDirs
  BY DEF IInv, FilesInv, FilesPublished, FilesSealed, FinalDurable
<1>2. Sealed /\ dir = FinalOnly
  BY <1>1 DEF IInv, FilesInv, FilesSealed, FinalOnly
<1> QED
  BY <1>2 DEF CompletedAvailability, Sealed, FinalExists, FinalSize, FinalOnly

LEMMA ObservedFiles ==
    ASSUME IInv, Completed, rec' = CompletedAvailability,
           UNCHANGED <<storeVars, fileVars, userOps>>
    PROVE  FilesInv'
<1>1. userOps = 0 /\ ~Lost => rec'.avail = "FINAL"
  BY ObservedFinal
<1> QED
  BY <1>1, SameFiles DEF IInv, storeVars

LEMMA OtherFiles ==
    ASSUME IInv, RowsInv', UserStep \/ ReconcileInspect \/ ReconcileUpdate
    PROVE  FilesKept
<1> USE DEF IInv, FilesKept
<1>1. CASE UserStop
  <2>1. /\ UNCHANGED <<fileVars, userOps, rec, seg, pc, mem>>
        /\ att'.state = att.state /\ att'.plan = att.plan /\ att'.bytes = att.bytes
        /\ att'.reason = att.reason
    BY <1>1, Types DEF UserStop, StopReservation, StoreTypeOK
  <2>2. userOps = 0 /\ ~Lost => rec'.avail = "FINAL"
    BY <2>1 DEF FilesInv, FilesPublished
  <2> QED
    BY <2>1, <2>2, SameFiles, SamePlaces
<1>2. CASE DeliverStop
  BY <1>2, QuietFiles, SamePlaces DEF DeliverStop, storeVars
<1>3. CASE PlaceForeign \/ RemoveFinal
  <2>1. FilesInv'
    BY <1>3, OutsideFiles DEF PlaceForeign, RemoveFinal
  <2>2. userOps' # 0 /\ UNCHANGED <<pc, mem, size, syncedSize, att>>
    BY <1>3, Types DEF PlaceForeign, RemoveFinal, ChangeFinal, Rename, storeVars
  <2> QED
    BY <2>1, <2>2 DEF Undisturbed
<1>4. CASE ReconcileInspect
  <2>1. Completed
    BY <1>4, StatesDisjoint DEF ReconcileInspect, ReconcileTarget, Recoverable, Stoppable
  <2> QED
    BY <1>4, <2>1, ObservedFiles, SamePlaces DEF ReconcileInspect, storeVars
<1>5. CASE ReconcileUpdate
  <2>1. CASE UpdateAvailability
    <3>1. att' = att
      BY <2>1 DEF UpdateAvailability, SetRecordingAvailability, storeVars
    <3> QED
      BY <1>5, <2>1, <3>1, AvailabilityFiles, SamePlaces DEF ReconcileUpdate
  <2>2. CASE UNCHANGED storeVars
    BY <1>5, <2>2, QuietFiles, SamePlaces DEF ReconcileUpdate, storeVars
  <2> QED
    BY <1>5, <2>1, <2>2 DEF ReconcileUpdate
<1> QED
  BY <1>1, <1>2, <1>3, <1>4, <1>5 DEF UserStep

-----------------------------------------------------------------------------
(* The startup recovery.                                                   *)

\* The completed recordings, and the recordings that a crash interrupted.
LEMMA RecoverRows ==
    ASSUME IInv, RowsInv',
           RecoverNothing \/ RecoverCompleted \/ RecoverAvailability \/ RecoverInterrupted
    PROVE  FilesKept
<1> USE DEF IInv, FilesKept
<1>1. CASE RecoverNothing
  BY <1>1, QuietFiles, NoPlace DEF RecoverNothing, Recovered
<1>2. CASE RecoverCompleted
  BY <1>2, ObservedFiles, NoPlace DEF RecoverCompleted, Goto
<1>3. CASE RecoverAvailability
  BY <1>3, AvailabilityFiles, NoPlace DEF RecoverAvailability, Recovered
<1>4. CASE RecoverInterrupted
  <2>1. /\ att.state \in Stoppable /\ UNCHANGED <<storeVars, fileVars, userOps, rec>>
        /\ pc' = "rfinish" /\ mem'.req = InterruptedRequest
    BY <1>4, Types DEF RecoverInterrupted, FinishRecoveryWith, Quiet, Local, Locals
  <2>2. Undisturbed => dir.final = "none" /\ (dir.partial \/ size = 0)
    BY <2>1 DEF FilesInv, FilesNamed
  <2>3. Undisturbed => ResultNamed(InterruptedRequest.avail, InterruptedRequest.bytes)
    BY <2>2, Types DEF InterruptedRequest, FinalExists, ResultNamed, PartialOnly
  <2>4. Undisturbed' => ResultNamed(mem.req.avail, mem.req.bytes)'
    BY <2>1, <2>3 DEF Undisturbed, ResultNamed, fileVars
  <2> QED
    BY <2>1, <2>4, QuietFiles, EarlyResultPlaces DEF storeVars
<1> QED
  BY <1>1, <1>2, <1>3, <1>4

\* The recovery of a publication, one case of recoverMainFinalization each.
LEMMA RecoverPlan ==
    ASSUME IInv, RowsInv', RecoverFinalizing
    PROVE  FilesKept
<1> USE DEF IInv, FilesKept
<1>1. /\ att.state = "FINALIZING" /\ UNCHANGED <<storeVars, fileVars, userOps, rec>>
      /\ mem \in Locals
  BY Types DEF RecoverFinalizing, Quiet, Local
<1>2. FilesInv'
  BY <1>1, QuietFiles
<1>3. CASE /\ Unpublished \/ LinkedTwice \/ Moved
           /\ mem' = [mem EXCEPT !.remove = ~Moved]
           /\ pc' = IF Unpublished THEN "rlink" ELSE IF seg.published THEN "rsync1" ELSE "rmark"
  <2>1. mem'.remove = ~Moved
    BY <1>1, <1>3 DEF Locals
  <2>2. CASE Unpublished
    <3>1. Undisturbed' => dir' = PartialOnly
      BY <1>1, <2>2, Types DEF Unpublished, FinalExists, PartialOnly, fileVars
    <3> QED
      BY <1>2, <1>3, <2>2, <3>1
  <2>3. CASE ~Unpublished
    <3>1. userOps' = 0 => dir'.final = "ours" /\ (mem'.remove \/ ~dir'.partial)
      BY <1>1, <1>3, <2>1, <2>3, Types, PublishingFacts
         DEF LinkedTwice, Moved, SameFile, FinalExists, fileVars, Owners
    <3> QED
      BY <1>2, <1>3, <2>3, <3>1
  <2> QED
    BY <2>2, <2>3
<1>4. ASSUME NEW reason, NEW avail, FinishRecoveryWith(FinalizationFailure(reason, avail)),
             ~Undisturbed
      PROVE  FilesKept
  <2>1. pc' = "rfinish" /\ mem'.req = [state |-> "FAILED", reason |-> reason, bytes |-> att.bytes,
                                       avail |-> avail]
    BY <1>1, <1>4 DEF FinishRecoveryWith, FinalizationFailure, Locals
  <2>2. ~Undisturbed' /\ mem'.req.bytes = size' /\ mem'.req.state = "FAILED"
    BY <1>1, <1>4, <2>1, PublishingFacts DEF Undisturbed, fileVars
  <2> QED
    BY <1>2, <2>1, <2>2 DEF Successful
<1>5. CASE ~dir.partial /\ ~FinalExists
  BY <1>4, <1>5, <1>1, PublishingFacts DEF RecoverFinalizing, FinalExists, FilesFit, Unpublished,
     LinkedTwice, Moved, SameFile
<1>6. CASE (dir.partial \/ FinalExists) /\ ~(FilesFit /\ (Unpublished \/ LinkedTwice \/ Moved))
  <2>1. ASSUME Undisturbed PROVE FALSE
    <3>1. dir.final # "foreign" /\ (seg.dirSynced => seg.published)
      BY <1>1, <2>1, PublishingFacts DEF RowsInv, RowsConsistent, Undisturbed
    <3>2. FilesFit
      BY <1>1, <3>1, Types, PublishingFacts DEF FilesFit, FinalExists, FinalSize, Owners
    <3>3. Unpublished \/ LinkedTwice \/ Moved
      BY <1>1, <1>6, <2>1, <3>1, Types, PublishingFacts
         DEF Unpublished, LinkedTwice, Moved, SameFile, FinalExists, Owners
    <3> QED
      BY <1>6, <3>2, <3>3
  <2> QED
    BY <1>4, <1>6, <2>1 DEF RecoverFinalizing
<1> QED
  BY <1>3, <1>5, <1>6 DEF RecoverFinalizing

\* completeMainPublication.
LEMMA RecoverSteps ==
    ASSUME IInv, RowsInv',
           RecoverLink \/ RecoverMark \/ RecoverSync \/ RecoverRemove \/ RecoverDirectory
    PROVE  FilesKept
<1> USE DEF IInv, FilesKept
<1>1. /\ UNCHANGED <<userOps, rec>> /\ att' = att /\ att.state = "FINALIZING" /\ mem \in Locals
      /\ pc \in {"rlink", "rmark", "rsync1", "rremove", "rsync2", "rdir"}
  BY Types DEF RecoverLink, RecoverMark, RecoverSync, RecoverRemove, RecoverDirectory, Recovering,
     RecoveryStep, Local, storeVars, MarkFinalPublished, MarkDirectorySynced, RowsInv, Control,
     Publishing
<1>2. CASE RecoverLink
  <2>1. pc = "rlink" /\ seg' = seg
    BY <1>2 DEF RecoverLink, Recovering, storeVars
  <2>2. FilesInv'
    BY <1>1, <1>2, <2>1, FinalizingStep DEF RecoverLink
  <2>3. CASE LinkFinal /\ Goto("rmark")
    BY <1>1, <2>2, <2>3, NameChanges DEF Goto, FinalOnly
  <2>4. CASE /\ UNCHANGED fileVars
             /\ FinishRecoveryWith(FinalizationFailure("FINAL_PUBLICATION_FAILED", "PARTIAL"))
    <3>1. pc' = "rfinish" /\ mem'.req = [state |-> "FAILED", reason |-> "FINAL_PUBLICATION_FAILED",
                                         bytes |-> att.bytes, avail |-> "PARTIAL"]
      BY <1>1, <2>4 DEF FinishRecoveryWith, FinalizationFailure, Locals
    <3>2. (Undisturbed' => dir' = PartialOnly) /\ att.bytes = size'
      BY <1>1, <2>1, <2>4, PublishingFacts DEF Undisturbed, fileVars
    <3> QED
      BY <2>2, <2>4, <3>1, <3>2 DEF Successful, ResultNamed
  <2> QED
    BY <1>2, <2>3, <2>4 DEF RecoverLink, RecoveryStep
<1>3. CASE RecoverMark
  <2>1. pc = "rmark" /\ pc' = "rsync1" /\ mem' = mem /\ UNCHANGED fileVars
    BY <1>3 DEF RecoverMark, Recovering, RecoveryStep, Goto
  <2>2. FilesInv'
    BY <1>1, <1>3, <2>1, FinalizingStep DEF RecoverMark
  <2> QED
    BY <1>1, <2>1, <2>2 DEF fileVars
<1>4. CASE RecoverSync
  <2>1. /\ pc \in {"rsync1", "rsync2"} /\ mem' = mem /\ SyncDirectory /\ seg' = seg
        /\ pc' = IF pc = "rsync1" /\ mem.remove THEN "rremove" ELSE "rdir"
    BY <1>4 DEF RecoverSync, Recovering, RecoveryStep, Goto, storeVars
  <2>2. FilesInv'
    BY <1>1, <2>1, FinalizingStep
  <2>3. userOps = 0 => dir.final = "ours" /\ (pc' = "rdir" => dir = FinalOnly)
    BY <1>1, <2>1, Types DEF FinalOnly
  <2>4. userOps = 0 /\ pc' = "rdir" => FinalDurable'
    BY <2>1, <2>3 DEF SyncDirectory, FinalDurable
  <2> QED
    BY <1>1, <2>1, <2>2, <2>3, <2>4 DEF SyncDirectory
<1>5. CASE RecoverRemove
  <2>1. pc = "rremove" /\ pc' = "rsync2" /\ RemovePartial /\ seg' = seg
    BY <1>5 DEF RecoverRemove, Recovering, RecoveryStep, Goto, storeVars
  <2>2. FilesInv'
    BY <1>1, <2>1, FinalizingStep
  <2>3. userOps = 0 => dir' = FinalOnly
    BY <1>1, <2>1, NameChanges DEF FinalOnly
  <2> QED
    BY <1>1, <2>1, <2>2, <2>3
<1>6. CASE RecoverDirectory
  <2>1. /\ pc = "rdir" /\ UNCHANGED fileVars /\ (seg' = seg \/ MarkDirectorySynced)
        /\ pc' = "rfinish" /\ mem' = [mem EXCEPT !.req = PlannedRequest]
    BY <1>6 DEF RecoverDirectory, Recovering, FinishRecoveryWith, storeVars
  <2>2. userOps = 0 => dir = FinalOnly /\ FinalDurable
    BY <2>1
  <2>3. FilesInv'
    BY <1>1, <1>6, <2>1, <2>2, FinalizingStep DEF RecoverDirectory
  <2> QED
    BY <1>1, <1>6, <2>1, <2>2, <2>3, PlannedPlaces DEF RecoverDirectory
<1> QED
  BY <1>2, <1>3, <1>4, <1>5, <1>6

\* A recovery that fails leaves the file to the next start.
LEMMA RecoverFailure ==
    ASSUME IInv, RowsInv', RecoveryFails
    PROVE  FilesKept
<1> USE DEF IInv, FilesKept
<1>1. /\ UNCHANGED <<storeVars, userOps>> /\ pc' = "idle" /\ rec' = NoReconcile
      /\ \/ UNCHANGED fileVars
         \/ pc \in {"rlink", "rremove"} /\ (LinkFinal \/ RemovePartial)
  BY DEF RecoveryFails, GoDown
<1>2. ASSUME pc \in {"rlink", "rremove"}
      PROVE  att.state = "FINALIZING"
  BY <1>2 DEF RowsInv, Control, Publishing
<1>3. FilesInv'
  BY <1>1, <1>2, QuietFiles, FinalizingStep DEF storeVars
<1> QED
  BY <1>1, <1>3, NoPlace

-----------------------------------------------------------------------------
(* The theorems.                                                           *)

\* Every recording begins without a file, or with the whole one that an older
\* version was publishing.
LEMMA FilesBegin ==
    ASSUME Init
    PROVE  FilesInv /\ PlacesInv
<1>1. PlacesInv
  BY DEF Init
<1>2. rec.avail = "FINAL"
  BY DEF Init, NoReconcile
<1>3. CASE FreshInit
  <2>1. att = NoAttempt /\ dir = EmptyDirectory /\ crashDirs = {dir} /\ size = 0
    BY <1>3 DEF FreshInit, StoreInit, FilesInit
  <2> QED
    BY <1>1, <1>2, <2>1, StatesDisjoint DEF FilesInv, FilesSealed, FilesPublished, FilesNamed, NoAttempt,
       EmptyDirectory, Completed, CommunicationPartial, Lost
<1>4. CASE LegacyInit
  <2>1. /\ att.state = "FINALIZING" /\ att.plan = "COMPLETED" /\ att.bytes = Packet /\ ~seg.dirSynced
        /\ dir = [partial |-> TRUE, final |-> "ours"] /\ crashDirs = {dir}
        /\ size = Packet /\ syncedSize = Packet /\ month # "absent"
    BY <1>4 DEF LegacyInit
  <2>2. Sealed
    BY <2>1 DEF Sealed
  <2> QED
    BY <1>1, <1>2, <2>1, <2>2, StatesDisjoint DEF FilesInv, FilesSealed, FilesPublished, FilesNamed,
       Completed, CommunicationPartial, Lost
<1> QED
  BY <1>1, <1>3, <1>4 DEF Init

\* No step of any actor loses what the rows and the files say of each other.
LEMMA StepsKeepFiles ==
    ASSUME IInv, [Next]_vars
    PROVE  IInv'
<1>1. RowsInv'
  BY StepsKeep DEF IInv
<1>2. CASE Claim \/ MissClaim
  BY <1>1, <1>2, ClaimSteps DEF FilesKept, IInv
<1>3. CASE ExecutorStep
  BY <1>1, <1>3, ClaimSteps, StartFiles, LoopFiles, SealFiles, DecideFiles, PublishFiles, EndFiles
     DEF ExecutorStep, FilesKept, IInv
<1>4. CASE CopyStep
  BY <1>1, <1>4, CopyFiles DEF FilesKept, IInv
<1>5. CASE RecoveryRun
  BY <1>1, <1>5, RecoverRows, RecoverPlan, RecoverSteps, EndFiles, RecoverFailure
     DEF RecoveryRun, FilesKept, IInv
<1>6. CASE ReconcileInspect \/ ReconcileUpdate \/ UserStep
  BY <1>1, <1>6, OtherFiles DEF FilesKept, IInv
<1>7. CASE ProcessStep
  BY <1>1, <1>7, ProcessFiles DEF FilesKept, IInv
<1>8. CASE UNCHANGED vars
  <2>1. FilesInv' /\ PlacesInv'
    BY <1>8, QuietFiles, SamePlaces DEF vars, storeVars, IInv
  <2> QED
    BY <1>1, <2>1 DEF IInv
<1> QED
  BY <1>2, <1>3, <1>4, <1>5, <1>6, <1>7, <1>8 DEF Next

\* The rows, the directory, the durable bytes and the place of the goroutine or
\* of the recovery fit together, for ever.
THEOREM Inductive == Spec => []IInv
<1>1. Init => IInv
  BY InitiallyHolds, FilesBegin DEF IInv
<1>2. IInv /\ [Next]_vars => IInv'
  BY StepsKeepFiles
<1> QED
  BY <1>1, <1>2, PTL DEF Spec

\* What the final name shows is a whole, synced file, and a published one is
\* lost to no power loss but one that takes the directory of its month, which is
\* never synchronised itself (publishFinal's order of operations, ensureDirectory).
THEOREM FinalFilesHold == Spec => []FinalFilesSound
<1>1. IInv => FinalNameIsSealed
  BY DEF IInv, FilesInv, FilesSealed, Sealed, FinalNameIsSealed
<1>2. IInv => PublishedIsDurable
  <2> SUFFICES ASSUME IInv, Completed, userOps = 0, ~(Lost /\ PowerLoss)
               PROVE  crashDirs = {FinalOnly} /\ size = att.bytes /\ syncedSize = size
    BY DEF PublishedIsDurable, FinalOnly
  <2>0. ~Lost
    BY DEF IInv, FilesInv, FilesNamed, Undisturbed
  <2>1. crashDirs = {FinalOnly}
    BY <2>0 DEF IInv, FilesInv, FilesPublished, FinalDurable
  <2>2. Sealed
    BY <2>1 DEF IInv, FilesInv, FilesSealed, FinalOnly
  <2> QED
    BY <2>1, <2>2 DEF Sealed
<1> QED
  BY <1>1, <1>2, Inductive, PTL DEF FinalFilesSound

\* Without outside help and power loss, a settled row says what the directory
\* holds: no recorded byte is without a name (recovery.go, executor.go).
THEOREM RowsMatchFiles == Spec => []RowMatchesFiles
<1>1. IInv => RowMatchesFiles
  BY DEF IInv, FilesInv, FilesNamed, Undisturbed, ResultNamed, PartialOnly, RowMatchesFiles
<1> QED
  BY <1>1, Inductive, PTL

\* What a step may do to the names.
LEMMA NamesStep ==
    ASSUME [Next]_vars
    PROVE  \/ dir' = dir
           \/ CreatePartial \/ LinkFinal \/ RemovePartial
           \/ crashes' = crashes + 1
           \/ userOps' = userOps + 1
<1>1. CASE Claim \/ MissClaim \/ ReconcileInspect \/ ReconcileUpdate
  BY <1>1 DEF Claim, MissClaim, ReconcileInspect, ReconcileUpdate, fileVars
<1>2. CASE ExecutorStep
  BY <1>2 DEF ExecutorStep, MissFinish, Register, StartStep, CheckInitialStop, CreateStep, LoopHead,
     CreateFails, NotCreated, OpenStep, Retry, RetryFault, CheckFirstStop, BeginStep, SaveProgress, SealPartial, SealFault,
     PublishChecks, FinalizeStep, LinkStep, MarkStep, SyncDirectoryStep, RemoveStep, MarkSyncedStep,
     FinishStep, Complete, Quiet, Abort, SyncPartial, SyncDirectory, fileVars
<1>3. CASE CopyStep
  BY <1>3 DEF CopyStep, CopyChunk, CopyProgress, CopyCancelled, CopyEnd, CopyFailed, CopyFault, Tail,
     WritePartial, fileVars
<1>4. CASE RecoveryRun
  BY <1>4 DEF RecoveryRun, RecoverNothing, RecoverCompleted, RecoverAvailability, RecoverInterrupted,
     RecoverFinalizing, RecoverLink, RecoverMark, RecoverSync, RecoverRemove, RecoverDirectory,
     RecoverFinish, RecoveryFails, Quiet, SyncDirectory, fileVars
<1>5. CASE ProcessStep
  BY <1>5 DEF ProcessStep, ExitOnError, Shutdown, Exit, Crash, Restart, fileVars
<1>6. CASE UserStep
  BY <1>6 DEF UserStep, UserStop, DeliverStop, PlaceForeign, RemoveFinal, ChangeFinal, fileVars
<1>7. CASE UNCHANGED vars
  BY <1>7 DEF vars, fileVars
<1> QED
  BY <1>1, <1>2, <1>3, <1>4, <1>5, <1>6, <1>7 DEF Next

\* Nothing that the program does replaces or removes a file that somebody else
\* put under the final name (LinkFinal, RemovePartial).
THEOREM ForeignFilesKept == Spec => ForeignFileKept
<1>1. ASSUME RowsInv, [Next]_vars, dir.final = "foreign"
      PROVE  dir'.final = "foreign" \/ userOps' # userOps \/ crashes' # crashes
  <2>1. userOps \in Nat /\ crashes \in Nat
    BY <1>1, BoundsAssumption DEF RowsInv, TypeOK, ProcessTypeOK
  <2>2. CASE CreatePartial \/ LinkFinal \/ RemovePartial
    BY <1>1, <2>2, Types, NameChanges DEF CreatePartial, Rename, FinalExists
  <2> QED
    BY <1>1, <2>1, <2>2, NamesStep
<1>2. RowsInv /\ [Next]_vars =>
        [dir.final = "foreign" => \/ dir'.final = "foreign"
                                  \/ userOps' # userOps
                                  \/ crashes' # crashes]_vars
  BY <1>1
<1> QED
  BY <1>2, RowsInductive, PTL DEF Spec, ForeignFileKept
=============================================================================
