--------------------------- MODULE CaptureProofs ---------------------------
(***************************************************************************)
(* Theorems about module OneSeg: what the second file of a recording may   *)
(* do to the attempt and to the main file, and what its row promises.      *)
(*                                                                         *)
(* Where the recording goroutine is (PlaceFits) is kept apart from what    *)
(* holds wherever it is: a step that only moves on has to establish the    *)
(* former, and a step of the helper, which runs only before it was joined, *)
(* disturbs nothing that is known after the join.                          *)
(***************************************************************************)
EXTENDS OneSeg, TLAPS

\* The labels that the actions store are reasons of the enumeration.
LEMMA Labels ==
    /\ Communication \subseteq Reasons /\ None \in Reasons
    /\ {"COMPLETED", "USER_REQUESTED_STOP", "PROCESS_SHUTDOWN", "PROCESS_INTERRUPTED",
        "STREAM_CANCELLED", "STREAM_UNAVAILABLE", "STREAM_NOT_FOUND", "FILE_CREATE_FAILED",
        "FILE_WRITE_FAILED", "FILE_SYNC_FAILED", "FILE_MISSING", "FILE_INTEGRITY_MISMATCH",
        "FINAL_NAME_CONFLICT", "FINAL_PUBLICATION_FAILED", "STREAM_ENDED_EARLY",
        "STREAM_TIMEOUT", "STREAM_RECONNECT_EXHAUSTED"} \subseteq Reasons \ {None}
    /\ CancelReason \in {"USER_REQUESTED_STOP", "PROCESS_SHUTDOWN"}
BY DEF Reasons, Communication, None, CancelReason

LEMMA MissingIs ==
    ASSUME OneSegAssumption, NEW reason \in Reasons
    PROVE  /\ NoResult \in Results /\ Missing(reason) \in Results
           /\ Missing(reason).reason = reason /\ ~Missing(reason).publish
           /\ ~Missing(reason).synced /\ Missing(reason).bytes = 0
           /\ Missing(reason).avail = "MISSING" /\ NoResult.reason = None
<1>1. None \in Reasons /\ 0 \in 0 .. MaxBytes
  BY Labels DEF OneSegAssumption
<1>2. NoResult \in Results /\ NoResult.reason = None
  BY <1>1 DEF NoResult, Results
<1> QED
  BY <1>1, <1>2 DEF Missing, NoResult, Results

LEMMA RecordShapes ==
    ASSUME OneSegIInv
    PROVE  /\ att = [state |-> att.state, stop |-> att.stop, plan |-> att.plan]
           /\ att.stop \in BOOLEAN /\ att.plan \in Reasons
           /\ one.bytes \in 0 .. MaxBytes /\ one.integrity \in Reasons
           /\ one.synced \in BOOLEAN /\ one.published \in BOOLEAN /\ one.dirSynced \in BOOLEAN
           /\ mem.reason \in Reasons /\ mem.save \in Results /\ mem.allow \in BOOLEAN
           /\ mem.detached \in BOOLEAN /\ mem.remove \in BOOLEAN
           /\ coord.result \in Results /\ coord.started \in BOOLEAN /\ coord.joined \in BOOLEAN
           /\ aux.reason \in Reasons /\ aux.pc \in HelperPlaces /\ aux.conn \in 0 .. MaxReconnects
BY DEF OneSegIInv, OneSegTypeOK, Attempts, Segments, Locals, Coordinators, Helpers

-----------------------------------------------------------------------------
(* What a kind of step leaves alone.                                       *)

\* The recording goroutine goes on; its locals may change.
LEMMA MoveKeeps ==
    ASSUME OneSegIInv,
           UNCHANGED <<rows, fileVars, proc, cancelled, coord, helperVars, crashes, userOps>>,
           faults' \in Nat, pc' \in Places, mem' \in Locals, ProcessFits', PlaceFits'
    PROVE  OneSegIInv'
<1> USE DEF rows, fileVars, helperVars
<1>1. OneSegTypeOK'
  BY DEF OneSegIInv, OneSegTypeOK, FilesTypeOK
<1>2. HelperFits' /\ RowsFit'
  BY DEF OneSegIInv, HelperFits, RowsFit, TerminalSettlesBoth, OneSegSettled, RestartAcceptsRow
<1>3. OutcomesFit' /\ FilesFit'
  BY DEF OneSegIInv, OutcomesFit, FilesFit, OutcomeFits, ResultFits, SealedAs
<1> QED
  BY <1>1, <1>2, <1>3 DEF OneSegIInv

\* The helper runs: nothing was joined, and the recording goes on.
LEMMA WhileHelping ==
    ASSUME OneSegIInv, aux.pc \notin Ended
    PROVE  /\ proc = "up" /\ ~coord.joined /\ coord.started /\ att.state = "RECORDING" /\ main = "WRITING"
           /\ pc \in {"recording", "publish", "join", "wait", "error"} /\ done = NoResult
           /\ one.state \in {"PLANNED", "WRITING"}
BY DEF OneSegIInv, OneSegTypeOK, ProcessFits, HelperFits, RowsFit, PlaceFits, NoAux, Ended, Places, BeforeMain,
       AfterMain, AfterRead

LEMMA HelperKeeps ==
    ASSUME OneSegAssumption, OneSegIInv, aux.pc \notin Ended, HelperLocal, faults' \in Nat,
           aux' \in Helpers, done' \in Results, one' \in Segments, FilesTypeOK(MaxBytes)',
           one' = [one EXCEPT !.state = one'.state, !.bytes = one'.bytes],
           one'.state \in {"PLANNED", "WRITING"},
           \A d \in crashDirs' \cup {dir'} : \E e \in crashDirs \cup {dir} : d.final = e.final,
           month' = "absent" => month = "absent" /\ UNCHANGED <<dir, crashDirs>>,
           aux'.pc # "none", done' # NoResult <=> aux'.pc = "over",
           aux'.pc \in {"retry", "save", "seal"} \/ aux'.conn > 0 => aux'.reason # None,
           aux'.pc = "over" => OutcomeFits(done)'
    PROVE  OneSegIInv'
<1> USE WhileHelping DEF HelperLocal
<1>1. OneSegTypeOK'
  BY DEF OneSegIInv, OneSegTypeOK
<1>2. ProcessFits' /\ HelperFits'
  BY DEF OneSegIInv, ProcessFits, HelperFits
<1>3. /\ one'.synced = one.synced /\ one'.published = one.published /\ one'.dirSynced = one.dirSynced
      /\ one'.avail = one.avail /\ one'.integrity = one.integrity
  BY DEF OneSegIInv, OneSegTypeOK, Segments
<1>4. RowsFit'
  BY <1>3 DEF OneSegIInv, RowsFit, TerminalSettlesBoth, RestartAcceptsRow, Terminal, Successful
<1>5. OutcomesFit'
  BY <1>3 DEF OneSegIInv, OutcomesFit, RowsFit
<1>6. FilesFit'
  BY DEF OneSegIInv, FilesFit
<1>7. PlaceFits'
  BY DEF OneSegIInv, PlaceFits, AfterMain, AfterRead, LinkedPlaces, DurablePlaces
<1> QED
  BY <1>1, <1>2, <1>4, <1>5, <1>6, <1>7 DEF OneSegIInv
-----------------------------------------------------------------------------
(* The recording goroutine.                                                *)

LEMMA RecorderUp ==
    ASSUME OneSegIInv, pc \in BeforeMain \cup AfterMain \cup {"error"}
    PROVE  proc = "up"
BY DEF OneSegIInv, OneSegTypeOK, ProcessFits, BeforeMain, AfterMain, AfterRead

\* A step to a place of its own with the locals as they are.
LEMMA GotoKeeps ==
    ASSUME OneSegIInv, proc = "up", NEW label \in (BeforeMain \cup AfterMain \cup {"error", "idle"}),
           Goto(label), MainLocal, UNCHANGED <<rows, fileVars, coord>>, faults' \in Nat, PlaceFits'
    PROVE  OneSegIInv'
<1>1. pc' \in Places /\ mem' \in Locals
  BY DEF OneSegIInv, OneSegTypeOK, Goto, Places
<1>2. ProcessFits'
  BY DEF ProcessFits, Goto, MainLocal
<1> QED
  BY <1>1, <1>2, MoveKeeps DEF MainLocal

LEMMA AbortKeeps ==
    ASSUME OneSegIInv, proc = "up", Abort
    PROVE  OneSegIInv'
<1>1. PlaceFits'
  BY DEF PlaceFits, Abort, Goto, BeforeMain, AfterMain, AfterRead, LinkedPlaces, DurablePlaces
<1>2. faults' \in Nat
  BY DEF OneSegIInv, OneSegTypeOK, Abort, Fault
<1> QED
  BY <1>1, <1>2, GotoKeeps DEF Abort

LEMMA FailKeeps ==
    ASSUME OneSegIInv, proc = "up", NEW reason \in Reasons \ {None}, FailWith(reason), MainLocal,
           UNCHANGED <<rows, fileVars, coord>>, faults' \in Nat, main # "FINALIZED"
    PROVE  OneSegIInv'
<1>1. pc' \in Places /\ mem' \in Locals /\ mem'.reason = reason
  BY DEF OneSegIInv, OneSegTypeOK, FailWith, Places, BeforeMain, Locals
<1>2. PlaceFits'
  BY <1>1 DEF PlaceFits, FailWith, MainLocal, rows, BeforeMain, AfterMain, AfterRead, LinkedPlaces,
              DurablePlaces
<1>3. ProcessFits'
  BY DEF ProcessFits, FailWith, MainLocal, BeforeMain
<1> QED
  BY <1>1, <1>2, <1>3, MoveKeeps DEF MainLocal

\* What every place before the main file's end says of the main file.
LEMMA NotFinalized ==
    ASSUME OneSegIInv, pc \in BeforeMain
    PROVE  main # "FINALIZED" /\ proc = "up"
BY RecorderUp DEF OneSegIInv, PlaceFits

LEMMA RecordingStartedKeeps ==
    ASSUME OneSegAssumption, OneSegIInv, RecordingStarted
    PROVE  OneSegIInv'
<1>1. pc = "starting" /\ proc = "up" /\ main # "FINALIZED" /\ faults \in Nat
  BY NotFinalized DEF RecordingStarted, BeforeMain, OneSegIInv, OneSegTypeOK
<1>2. CASE Goto("error") /\ MainOnly
  <2>1. PlaceFits'
    BY <1>2 DEF PlaceFits, Goto, BeforeMain, AfterMain, AfterRead, LinkedPlaces, DurablePlaces
  <2> QED
    BY <1>1, <1>2, <2>1, GotoKeeps DEF MainOnly
<1>3. CASE /\ att' = [att EXCEPT !.state = "RECORDING"] /\ main' = "WRITING"
           /\ StartHelper /\ Goto("recording")
           /\ NotCreated /\ UNCHANGED <<one, proc, cancelled, done, counters>>
  <2>1. /\ att.state = "STARTING" /\ ~coord.started /\ ~coord.joined /\ main = "PLANNED"
        /\ aux.pc = "none" /\ done = NoResult /\ one.state = "PLANNED"
    BY <1>1 DEF OneSegIInv, PlaceFits, HelperFits, RowsFit
  <2>2. /\ att' \in Attempts /\ att'.state = "RECORDING" /\ pc' = "recording" /\ mem' = mem
        /\ UNCHANGED <<dir, crashDirs, size, syncedSize, one, proc, cancelled, done, crashes, faults, userOps>>
        /\ month' \in Months /\ month' # "absent"
    BY <1>3 DEF OneSegIInv, OneSegTypeOK, Attempts, Goto, counters, NotCreated, EnsureDirectory, FilesTypeOK, Months
  <2>3. /\ coord' \in Coordinators /\ coord'.started /\ coord'.joined = coord.joined
    BY <1>3 DEF OneSegIInv, OneSegTypeOK, Coordinators, StartHelper
  <2>4. aux' \in Helpers /\ aux'.pc = "create" /\ aux'.conn = 0
    <3>1. None \in Reasons /\ 0 \in 0 .. MaxReconnects
      BY Labels DEF OneSegAssumption
    <3> QED
      BY <1>3, <3>1 DEF StartHelper, NoAux, Helpers, HelperPlaces
  <2>5. OneSegTypeOK'
    BY <1>3, <2>2, <2>3, <2>4 DEF OneSegIInv, OneSegTypeOK, Places, BeforeMain, SegmentStates, FilesTypeOK
  <2>6. ProcessFits' /\ HelperFits'
    BY <1>1, <2>1, <2>2, <2>3, <2>4 DEF ProcessFits, HelperFits, BeforeMain, Ended
  <2>7. RowsFit'
    BY <1>3, <2>1, <2>2 DEF OneSegIInv, RowsFit, TerminalSettlesBoth, RestartAcceptsRow, Terminal, Successful
  <2>8. OutcomesFit' /\ FilesFit'
    BY <1>3, <2>1, <2>2, <2>3, <2>4 DEF OneSegIInv, OutcomesFit, SealedAs, FilesFit
  <2>9. PlaceFits'
    BY <1>3, <2>2, <2>1, <2>3 DEF PlaceFits, BeforeMain, AfterMain, AfterRead, LinkedPlaces, DurablePlaces
  <2> QED
    BY <2>5, <2>6, <2>7, <2>8, <2>9 DEF OneSegIInv
<1> QED
  BY <1>1, <1>2, <1>3, AbortKeeps DEF RecordingStarted

LEMMA FailBeforeKeeps ==
    ASSUME OneSegIInv, FailBefore
    PROVE  OneSegIInv'
<1>1. proc = "up" /\ main # "FINALIZED" /\ faults \in Nat
  BY NotFinalized DEF FailBefore, BeforeMain, OneSegIInv, OneSegTypeOK
<1>2. PICK reason \in Reasons \ {None} : FailWith(reason)
  BY Labels DEF FailBefore
<1> QED
  BY <1>1, <1>2, FailKeeps DEF FailBefore, MainOnly

LEMMA StopRecordingKeeps ==
    ASSUME OneSegIInv, StopRecording
    PROVE  OneSegIInv'
<1>1. /\ proc = "up" /\ main # "FINALIZED" /\ faults \in Nat /\ coord.started /\ ~coord.joined
      /\ pc = "recording"
  BY NotFinalized DEF StopRecording, BeforeMain, OneSegIInv, OneSegTypeOK, PlaceFits
<1>2. MainEnds \subseteq Reasons \ {None}
  BY Labels DEF MainEnds
<1>3. CASE \E reason \in MainEnds : FailWith(reason)
  BY <1>1, <1>2, <1>3, FailKeeps DEF StopRecording, MainOnly
<1>4. ASSUME NEW reason \in MainEnds, pc' = "publish", mem' = [mem EXCEPT !.reason = reason, !.allow = TRUE]
      PROVE  OneSegIInv'
  <2>1. mem' \in Locals /\ mem'.reason # None
    BY <1>2, <1>4 DEF OneSegIInv, OneSegTypeOK, Locals
  <2>2. PlaceFits' /\ ProcessFits' /\ pc' \in Places
    BY <1>1, <1>4, <2>1 DEF PlaceFits, ProcessFits, StopRecording, MainOnly, MainLocal, rows, Places, BeforeMain,
                            AfterMain, AfterRead, LinkedPlaces, DurablePlaces
  <2> QED
    BY <1>1, <2>1, <2>2, MoveKeeps DEF StopRecording, MainOnly, MainLocal
<1> QED
  BY <1>3, <1>4 DEF StopRecording

LEMMA PublishChecksKeeps ==
    ASSUME OneSegIInv, PublishChecks
    PROVE  OneSegIInv'
<1>1. proc = "up" /\ main # "FINALIZED" /\ faults \in Nat /\ pc = "publish" /\ mem.reason # None
  BY NotFinalized DEF PublishChecks, BeforeMain, OneSegIInv, OneSegTypeOK, PlaceFits
<1>2. CASE FailWith("PROCESS_SHUTDOWN")
  BY <1>1, <1>2, Labels, FailKeeps DEF PublishChecks, MainOnly
<1>3. ASSUME NEW reason \in {"USER_REQUESTED_STOP", mem.reason}, pc' = "join",
             mem' = [mem EXCEPT !.reason = reason, !.detached = (reason = "USER_REQUESTED_STOP")]
      PROVE  OneSegIInv'
  <2>1. reason \in Reasons \ {None}
    BY <1>1, <1>3, Labels, RecordShapes
  <2>2. mem' \in Locals /\ mem'.reason # None
    BY <1>3, <2>1 DEF OneSegIInv, OneSegTypeOK, Locals
  <2>3. PlaceFits' /\ ProcessFits' /\ pc' \in Places
    BY <1>1, <1>3, <2>2 DEF PlaceFits, ProcessFits, PublishChecks, MainOnly, MainLocal, rows, Places, BeforeMain,
                            AfterMain, AfterRead, LinkedPlaces, DurablePlaces
  <2> QED
    BY <1>1, <2>2, <2>3, MoveKeeps DEF PublishChecks, MainOnly, MainLocal
<1> QED
  BY <1>2, <1>3 DEF PublishChecks

\* What join makes of a result that tells the truth tells the truth.
LEMMA PromotedFits ==
    ASSUME NEW result \in Results, OutcomeFits(result), NEW reason \in Reasons \ {None},
           NEW late \in BOOLEAN, NEW allow \in BOOLEAN
    PROVE  /\ Promoted(result, reason, late, allow) \in Results
           /\ OutcomeFits(Promoted(result, reason, late, allow))
           /\ Unpublished(result, reason) \in Results /\ OutcomeFits(Unpublished(result, reason))
BY DEF Promoted, Unpublished, Results, OutcomeFits, ResultFits, SealedAs

LEMMA JoinedKeeps ==
    ASSUME OneSegIInv, pc \in {"join", "wait"}, aux.pc \in Ended,
           NEW result \in Results, OutcomeFits(result), Joined(result), MainLocal,
           UNCHANGED <<rows, fileVars, faults>>
    PROVE  OneSegIInv'
<1> USE DEF MainLocal, rows, fileVars, helperVars
<1>1. /\ coord' \in Coordinators /\ coord'.joined /\ coord'.started = coord.started
      /\ coord'.result = result /\ coord' # NoCoord
  BY DEF OneSegIInv, OneSegTypeOK, Coordinators, Joined, NoCoord
<1>2. proc = "up" /\ main # "FINALIZED" /\ mem.reason # None /\ mem' = mem /\ pc' \in {"begin", "finish"}
  BY NotFinalized DEF BeforeMain, OneSegIInv, PlaceFits, Joined, Goto
<1>3. OneSegTypeOK'
  BY <1>1, <1>2 DEF OneSegIInv, OneSegTypeOK, FilesTypeOK, Places, BeforeMain
<1>4. ProcessFits' /\ HelperFits' /\ RowsFit'
  BY <1>1, <1>2 DEF OneSegIInv, ProcessFits, HelperFits, RowsFit, TerminalSettlesBoth, OneSegSettled,
                    RestartAcceptsRow, BeforeMain
<1>5. OutcomesFit' /\ FilesFit'
  BY <1>1, <1>2 DEF OneSegIInv, OutcomesFit, OutcomeFits, ResultFits, SealedAs, FilesFit
<1>6. PlaceFits'
  BY <1>1, <1>2 DEF PlaceFits, BeforeMain, AfterMain, AfterRead, LinkedPlaces, DurablePlaces
<1> QED
  BY <1>3, <1>4, <1>5, <1>6 DEF OneSegIInv

\* The coordinator's result, or the one that the helper has sent.
LEMMA ResultsToJoin ==
    ASSUME OneSegAssumption, OneSegIInv, pc \in {"join", "wait"}
    PROVE  /\ mem.reason \in Reasons \ {None} /\ mem.allow \in BOOLEAN
           /\ Missing(mem.reason) \in Results /\ OutcomeFits(Missing(mem.reason))
           /\ coord.joined => OutcomeFits(coord.result) /\ aux.pc \in Ended
           /\ done # NoResult => OutcomeFits(done) /\ done \in Results /\ aux.pc \in Ended
           /\ ~coord.started => aux.pc \in Ended
<1>1. mem.reason # None /\ pc \in BeforeMain
  BY DEF OneSegIInv, PlaceFits, BeforeMain
<1> QED
  BY <1>1, RecordShapes, MissingIs DEF OneSegIInv, OneSegTypeOK, HelperFits, OutcomesFit, OutcomeFits,
                                       ResultFits, Ended

LEMMA JoinKeeps ==
    ASSUME OneSegAssumption, OneSegIInv, Join
    PROVE  OneSegIInv'
<1>1. CASE coord.joined
  <2>1. PICK r \in {coord.result, Unpublished(coord.result, mem.reason)} : Joined(r)
    BY <1>1 DEF Join
  <2>2. r \in Results /\ OutcomeFits(r) /\ aux.pc \in Ended
    BY <1>1, ResultsToJoin, PromotedFits, RecordShapes DEF Join
  <2> QED
    BY <2>1, <2>2, JoinedKeeps DEF Join
<1>2. CASE ~coord.joined /\ ~coord.started /\ Joined(Missing(mem.reason))
  BY <1>2, ResultsToJoin, JoinedKeeps DEF Join
<1>3. CASE ~coord.joined /\ done # NoResult /\ Joined(Promoted(done, mem.reason, FALSE, mem.allow))
  BY <1>3, ResultsToJoin, PromotedFits, JoinedKeeps DEF Join
<1>4. CASE ~coord.joined /\ coord.started /\ done = NoResult
           /\ coord' = [coord EXCEPT !.cancel = TRUE] /\ Goto("wait")
  <2> USE DEF MainLocal, rows, fileVars, helperVars, Goto
  <2>1. /\ coord' \in Coordinators /\ coord'.joined = coord.joined /\ coord'.started = coord.started
        /\ coord'.result = coord.result
    BY <1>4 DEF OneSegIInv, OneSegTypeOK, Coordinators
  <2>2. proc = "up" /\ main # "FINALIZED" /\ mem.reason # None
    BY NotFinalized DEF BeforeMain, OneSegIInv, PlaceFits, Join
  <2>3. OneSegTypeOK'
    BY <1>4, <2>1 DEF OneSegIInv, OneSegTypeOK, FilesTypeOK, Places, BeforeMain, Join
  <2>4. ProcessFits' /\ HelperFits' /\ RowsFit'
    BY <1>4, <2>1, <2>2 DEF OneSegIInv, ProcessFits, HelperFits, RowsFit, TerminalSettlesBoth,
                            OneSegSettled, RestartAcceptsRow, BeforeMain, Join
  <2>5. OutcomesFit' /\ FilesFit'
    BY <1>4, <2>1 DEF OneSegIInv, OutcomesFit, OutcomeFits, ResultFits, SealedAs, FilesFit, Join
  <2>6. PlaceFits'
    BY <1>4, <2>1, <2>2 DEF PlaceFits, BeforeMain, AfterMain, AfterRead, LinkedPlaces, DurablePlaces, Join
  <2> QED
    BY <2>3, <2>4, <2>5, <2>6 DEF OneSegIInv
<1> QED
  BY <1>1, <1>2, <1>3, <1>4 DEF Join

LEMMA JoinWaitKeeps ==
    ASSUME OneSegAssumption, OneSegIInv, JoinWait
    PROVE  OneSegIInv'
BY ResultsToJoin, PromotedFits, JoinedKeeps DEF JoinWait

-----------------------------------------------------------------------------
(* The rows that the end of the main recording stores.                     *)

\* A stored outcome keeps what its result says.
LEMMA OutcomeStored ==
    ASSUME OneSegAssumption, NEW result \in Results, ResultFits(result),
           result.publish => SealedAs(result.bytes), one' = Outcome(result),
           UNCHANGED <<size, syncedSize>>
    PROVE  /\ one' \in Segments /\ one'.state = "PARTIAL" /\ RestartAcceptsRow'
           /\ one'.synced /\ one'.integrity = None => SealedAs(one.bytes)' /\ Useful(one.bytes)'
           /\ one'.avail \in {"PARTIAL", "MISSING", "MISMATCHED"}
           /\ ~result.publish => one'.integrity # None
<1>1. None \in Reasons
  BY Labels
<1> QED
  BY <1>1 DEF Results, Segments, SegmentStates, Outcome, ResultFits, RestartAcceptsRow, SealedAs, Useful

\* When the helper has ended, a stored outcome breaks nothing that is known of
\* the helper and of the files.
LEMMA StoreKeeps ==
    ASSUME OneSegAssumption, OneSegIInv, aux.pc \in Ended,
           NEW result \in Results, ResultFits(result), result.publish => SealedAs(result.bytes),
           one' = Outcome(result), UNCHANGED <<fileVars, cancelled, helperVars, counters>>,
           coord' \in Coordinators, coord'.started = coord.started, coord'.joined = coord.joined,
           coord'.joined => OutcomeFits(coord.result)', main = "FINALIZED" => main' = "FINALIZED" \/ month = "absent",
           att' \in Attempts, main' \in SegmentStates, proc' \in {"up", "recovering", "down"},
           pc' \in Places, mem' \in Locals, ProcessFits', PlaceFits', RowsFit'
    PROVE  OneSegIInv'
<1> USE DEF fileVars, helperVars, counters
<1>1. /\ one' \in Segments /\ one'.state = "PARTIAL"
      /\ one'.synced /\ one'.integrity = None => SealedAs(one.bytes)' /\ Useful(one.bytes)'
  BY OutcomeStored
<1>2. OneSegTypeOK'
  BY <1>1 DEF OneSegIInv, OneSegTypeOK, FilesTypeOK
<1>3. HelperFits'
  BY DEF OneSegIInv, HelperFits
<1>4. OutcomesFit' /\ FilesFit'
  BY <1>1 DEF OneSegIInv, OutcomesFit, OutcomeFits, ResultFits, SealedAs, FilesFit, EmptyDirectory
<1> QED
  BY <1>2, <1>3, <1>4 DEF OneSegIInv

LEMMA BeginFinalizationKeeps ==
    ASSUME OneSegAssumption, OneSegIInv, BeginFinalization
    PROVE  OneSegIInv'
<1>1. /\ proc = "up" /\ main # "FINALIZED" /\ coord.joined /\ aux.pc \in Ended /\ mem.reason # None
      /\ faults \in Nat /\ pc = "begin" /\ OutcomeFits(coord.result) /\ coord.result \in Results
  BY NotFinalized, RecordShapes DEF BeginFinalization, BeforeMain, OneSegIInv, OneSegTypeOK, PlaceFits,
                                    HelperFits, OutcomesFit
<1>2. CASE FailWith("PROCESS_SHUTDOWN") /\ MainOnly
  BY <1>1, <1>2, Labels, FailKeeps DEF MainOnly
<1>3. ASSUME NEW reason \in Reasons, StoreFinalization(reason), Goto("main"), MainLocal,
             UNCHANGED <<fileVars, coord, faults>>
      PROVE  OneSegIInv'
  <2> USE DEF MainLocal
  <2>1. att' \in Attempts /\ att'.state = "FINALIZING" /\ main' = "PARTIAL" /\ one' = Outcome(coord.result)
    BY <1>3, Labels DEF StoreFinalization, OneSegIInv, OneSegTypeOK, Attempts
  <2>2. one'.state = "PARTIAL" /\ RestartAcceptsRow'
    BY <1>1, <1>3, <2>1, OutcomeStored DEF OutcomeFits, ResultFits, fileVars
  <2>3. RowsFit'
    BY <2>1, <2>2 DEF RowsFit, TerminalSettlesBoth, Terminal, Successful
  <2>4. PlaceFits'
    BY <1>1, <1>3, <2>1 DEF PlaceFits, Goto, BeforeMain, AfterMain, AfterRead, LinkedPlaces, DurablePlaces
  <2>5. ProcessFits' /\ pc' \in Places /\ mem' \in Locals
    BY <1>1, <1>3 DEF OneSegIInv, OneSegTypeOK, ProcessFits, Goto, Places, BeforeMain
  <2>6. coord' \in Coordinators /\ OutcomeFits(coord.result)'
    BY <1>1, <1>3 DEF OneSegIInv, OneSegTypeOK, OutcomeFits, ResultFits, SealedAs, fileVars
  <2> QED
    BY <1>1, <1>3, <2>1, <2>3, <2>4, <2>5, <2>6, StoreKeeps
       DEF OutcomeFits, ResultFits, SegmentStates, counters, OneSegIInv, OneSegTypeOK
<1> QED
  BY <1>1, <1>2, <1>3, AbortKeeps, RecordShapes, Labels DEF BeginFinalization

LEMMA PublishMainKeeps ==
    ASSUME OneSegIInv, PublishMain
    PROVE  OneSegIInv'
<1>1. /\ proc = "up" /\ main # "FINALIZED" /\ coord.joined /\ mem.reason # None /\ faults \in Nat
      /\ pc = "main" /\ att.state = "FINALIZING"
  BY NotFinalized DEF PublishMain, BeforeMain, OneSegIInv, OneSegTypeOK, PlaceFits
<1>2. CASE Fault /\ FailWith("FINAL_PUBLICATION_FAILED") /\ MainLocal /\ UNCHANGED <<rows, fileVars, coord>>
  BY <1>1, <1>2, Labels, FailKeeps DEF Fault
<1>3. CASE main' = "FINALIZED" /\ Goto("link") /\ MainLocal /\ UNCHANGED <<att, one, fileVars, coord, faults>>
  <2> USE <1>1, <1>3 DEF Goto, MainLocal, fileVars, helperVars
  <2>1. OneSegTypeOK'
    BY DEF OneSegIInv, OneSegTypeOK, FilesTypeOK, Places, AfterMain, SegmentStates
  <2>2. ProcessFits' /\ HelperFits' /\ RowsFit'
    BY DEF OneSegIInv, ProcessFits, HelperFits, RowsFit, TerminalSettlesBoth, OneSegSettled, RestartAcceptsRow,
           AfterMain, Successful
  <2>3. OutcomesFit' /\ FilesFit'
    BY DEF OneSegIInv, OutcomesFit, OutcomeFits, ResultFits, SealedAs, FilesFit
  <2>4. PlaceFits'
    BY DEF PlaceFits, BeforeMain, AfterMain, AfterRead, LinkedPlaces, DurablePlaces
  <2> QED
    BY <2>1, <2>2, <2>3, <2>4 DEF OneSegIInv
<1> QED
  BY <1>1, <1>2, <1>3, AbortKeeps DEF PublishMain

LEMMA FinishKeeps ==
    ASSUME OneSegAssumption, OneSegIInv, Finish
    PROVE  OneSegIInv'
<1>1. /\ proc = "up" /\ coord.joined /\ aux.pc \in Ended /\ coord.result \in Results
      /\ OutcomeFits(coord.result) /\ pc \in {"finish", "success"}
      /\ pc = "finish" => main # "FINALIZED"
  BY RecorderUp, RecordShapes DEF Finish, BeforeMain, AfterMain, OneSegIInv, OneSegTypeOK, PlaceFits,
                                  HelperFits, OutcomesFit
<1>2. CASE pc = "success" /\ ~OneSegSettled /\ Goto("error") /\ MainOnly
  <2>1. PlaceFits' /\ faults' \in Nat
    BY <1>2 DEF PlaceFits, Goto, MainOnly, OneSegIInv, OneSegTypeOK, BeforeMain, AfterMain, AfterRead,
                LinkedPlaces, DurablePlaces
  <2> QED
    BY <1>1, <1>2, <2>1, GotoKeeps DEF MainOnly
<1>3. CASE FinishSuccessful /\ Goto("idle") /\ MainLocal /\ UNCHANGED <<fileVars, coord, faults>>
  <2> USE <1>1, <1>3 DEF Goto, MainLocal, fileVars, helperVars
  <2>1. att' \in Attempts /\ att'.state \in Successful
    BY DEF FinishSuccessful, PlannedState, OneSegIInv, OneSegTypeOK, Attempts, Successful, Terminal
  <2>2. OneSegTypeOK'
    BY <2>1 DEF FinishSuccessful, OneSegIInv, OneSegTypeOK, FilesTypeOK, Places
  <2>3. ProcessFits' /\ HelperFits'
    BY DEF FinishSuccessful, OneSegIInv, ProcessFits, HelperFits
  <2>4. RowsFit'
    BY <2>1 DEF FinishSuccessful, OneSegIInv, RowsFit, TerminalSettlesBoth, OneSegSettled, RestartAcceptsRow,
                Successful, Terminal
  <2>5. OutcomesFit' /\ FilesFit'
    BY DEF FinishSuccessful, OneSegIInv, OutcomesFit, OutcomeFits, ResultFits, SealedAs, FilesFit
  <2>6. PlaceFits'
    BY DEF PlaceFits, BeforeMain, AfterMain, AfterRead, LinkedPlaces, DurablePlaces
  <2> QED
    BY <2>2, <2>3, <2>4, <2>5, <2>6 DEF OneSegIInv
<1>4. CASE pc = "finish" /\ FinishUnsuccessful(coord.result) /\ Goto("idle") /\ MainLocal
           /\ UNCHANGED <<fileVars, coord, faults>>
  <2> USE DEF MainLocal
  <2>1. /\ att' \in Attempts /\ att'.state = "FAILED" /\ one' = Outcome(coord.result)
        /\ main' \in SegmentStates /\ main' # "FINALIZED"
    BY <1>4 DEF FinishUnsuccessful, OneSegIInv, OneSegTypeOK, Attempts, Terminal, SegmentStates
  <2>2. /\ one'.state = "PARTIAL" /\ RestartAcceptsRow' /\ one'.integrity # None
        /\ one'.avail \in {"PARTIAL", "MISSING", "MISMATCHED"}
    BY <1>1, <1>4, <2>1, OutcomeStored DEF FinishUnsuccessful, OutcomeFits, fileVars
  <2>3. RowsFit'
    BY <1>1, <1>4, <2>1, <2>2 DEF RowsFit, TerminalSettlesBoth, OneSegSettled, Successful
  <2>4. PlaceFits'
    BY <1>1, <1>4, <2>1 DEF PlaceFits, Goto, helperVars, BeforeMain, AfterMain, AfterRead, LinkedPlaces, DurablePlaces
  <2>5. ProcessFits' /\ pc' \in Places /\ mem' \in Locals
    BY <1>1, <1>4 DEF OneSegIInv, OneSegTypeOK, ProcessFits, Goto, Places
  <2>6. coord' \in Coordinators /\ OutcomeFits(coord.result)'
    BY <1>1, <1>4 DEF OneSegIInv, OneSegTypeOK, OutcomeFits, ResultFits, SealedAs, fileVars
  <2> QED
    BY <1>1, <1>4, <2>1, <2>3, <2>4, <2>5, <2>6, StoreKeeps
       DEF FinishUnsuccessful, OutcomeFits, counters, OneSegIInv, OneSegTypeOK
<1> QED
  BY <1>1, <1>2, <1>3, <1>4, AbortKeeps DEF Finish

LEMMA CloseKeeps ==
    ASSUME OneSegIInv, CloseCancel \/ CloseWait
    PROVE  OneSegIInv'
<1>1. proc = "up" /\ pc = "error" /\ faults \in Nat
  BY RecorderUp DEF CloseCancel, CloseWait, OneSegIInv, OneSegTypeOK
<1>2. CASE CloseWait
  <2>1. PlaceFits'
    BY <1>2 DEF CloseWait, MainOnly, MainLocal, OneSegIInv, HelperFits, Ended, helperVars, PlaceFits, Goto,
                BeforeMain, AfterMain, AfterRead, LinkedPlaces, DurablePlaces
  <2> QED
    BY <1>1, <1>2, <2>1, GotoKeeps DEF CloseWait, MainOnly
<1>3. CASE CloseCancel
  <2> USE <1>1, <1>3 DEF CloseCancel, Goto, MainLocal, rows, fileVars, helperVars
  <2>1. /\ coord' \in Coordinators /\ coord'.joined = coord.joined /\ coord'.started = coord.started
        /\ coord'.result = coord.result
    BY DEF OneSegIInv, OneSegTypeOK, Coordinators
  <2>2. OneSegTypeOK'
    BY <2>1 DEF OneSegIInv, OneSegTypeOK, FilesTypeOK
  <2>3. ProcessFits' /\ HelperFits' /\ RowsFit'
    BY <2>1 DEF OneSegIInv, ProcessFits, HelperFits, RowsFit, TerminalSettlesBoth, OneSegSettled, RestartAcceptsRow
  <2>4. OutcomesFit' /\ FilesFit' /\ PlaceFits'
    BY <2>1 DEF OneSegIInv, OutcomesFit, OutcomeFits, ResultFits, SealedAs, FilesFit, PlaceFits,
                BeforeMain, AfterMain, AfterRead, LinkedPlaces, DurablePlaces
  <2> QED
    BY <2>2, <2>3, <2>4 DEF OneSegIInv
<1> QED
  BY <1>2, <1>3

-----------------------------------------------------------------------------
(* The publication of the one-seg file.                                    *)

\* A step that changes names of the files: the rows and the bytes stay.
LEMMA NamesKeep ==
    ASSUME OneSegIInv,
           UNCHANGED <<rows, size, syncedSize, proc, cancelled, coord, helperVars, crashes, userOps>>,
           FilesTypeOK(MaxBytes)', faults' \in Nat, pc' \in Places, mem' \in Locals,
           ProcessFits', FilesFit', PlaceFits'
    PROVE  OneSegIInv'
<1> USE DEF rows, helperVars
<1>1. OneSegTypeOK'
  BY DEF OneSegIInv, OneSegTypeOK
<1>2. HelperFits' /\ RowsFit'
  BY DEF OneSegIInv, HelperFits, RowsFit, TerminalSettlesBoth, OneSegSettled, RestartAcceptsRow
<1>3. OutcomesFit'
  BY DEF OneSegIInv, OutcomesFit, OutcomeFits, ResultFits, SealedAs
<1> QED
  BY <1>1, <1>2, <1>3 DEF OneSegIInv

\* What the three operations of the directory leave behind.
LEMMA DirectorySteps ==
    ASSUME OneSegIInv
    PROVE  /\ LinkFinal => /\ FilesTypeOK(MaxBytes)' /\ UNCHANGED <<month, size, syncedSize>> /\ dir.partial
                           /\ dir'.final = "ours" /\ crashDirs' = crashDirs \cup {dir'}
           /\ SyncDirectory => /\ FilesTypeOK(MaxBytes)' /\ UNCHANGED <<dir, month, size, syncedSize>>
                               /\ crashDirs' = {dir}
           /\ RemovePartial => /\ FilesTypeOK(MaxBytes)' /\ UNCHANGED <<month, size, syncedSize>>
                               /\ dir'.final = dir.final /\ dir.final # "none" /\ crashDirs' \in {crashDirs, crashDirs \cup {dir'}}
<1>1. FilesTypeOK(MaxBytes)
  BY DEF OneSegIInv, OneSegTypeOK
<1>2. ASSUME LinkFinal
      PROVE  /\ FilesTypeOK(MaxBytes)' /\ UNCHANGED <<month, size, syncedSize>> /\ dir.partial
             /\ dir'.final = "ours" /\ crashDirs' = crashDirs \cup {dir'}
  <2>1. dir' = [partial |-> FALSE, final |-> "ours"] /\ dir' \in Directories
    BY <1>2 DEF LinkFinal, Rename, Directories, Owners
  <2>2. /\ crashDirs' = crashDirs \cup {dir'} /\ UNCHANGED <<month, size, syncedSize>> /\ dir'.final = "ours"
        /\ dir.partial
    BY <1>2, <2>1 DEF LinkFinal, Rename
  <2> QED
    BY <1>1, <2>1, <2>2 DEF FilesTypeOK
<1>3. ASSUME SyncDirectory
      PROVE  /\ FilesTypeOK(MaxBytes)' /\ UNCHANGED <<dir, month, size, syncedSize>> /\ crashDirs' = {dir}
  BY <1>1, <1>3 DEF FilesTypeOK, SyncDirectory
<1>4. ASSUME RemovePartial
      PROVE  /\ FilesTypeOK(MaxBytes)' /\ UNCHANGED <<month, size, syncedSize>>
             /\ dir'.final = dir.final /\ dir.final # "none" /\ crashDirs' \in {crashDirs, crashDirs \cup {dir'}}
  BY <1>1, <1>4 DEF FilesTypeOK, Directories, RemovePartial, RemovePartialAllowed, FinalExists, Rename, fileVars
<1> QED
  BY <1>2, <1>3, <1>4

\* They keep FilesFit once the main file is completed.
LEMMA DirectoryFits ==
    ASSUME OneSegIInv, main = "FINALIZED", LinkFinal \/ SyncDirectory \/ RemovePartial,
           UNCHANGED <<rows, userOps>>
    PROVE  FilesFit'
<1>1. CASE LinkFinal
  BY <1>1, DirectorySteps DEF OneSegIInv, FilesFit, rows, EmptyDirectory
<1>2. CASE SyncDirectory
  BY <1>2, DirectorySteps DEF OneSegIInv, FilesFit, rows, EmptyDirectory
<1>3. CASE RemovePartial
  BY <1>3, DirectorySteps DEF OneSegIInv, FilesFit, rows, EmptyDirectory
<1> QED
  BY <1>1, <1>2, <1>3

\* What is known after the main file's end.
LEMMA Publishing ==
    ASSUME OneSegIInv, pc \in AfterMain
    PROVE  /\ proc = "up" /\ main = "FINALIZED" /\ coord.joined /\ aux.pc \in Ended /\ mem.reason # None
           /\ coord.result \in Results /\ OutcomeFits(coord.result) /\ faults \in Nat
           /\ mem \in Locals /\ pc \notin BeforeMain
BY RecorderUp, RecordShapes DEF AfterMain, BeforeMain, OneSegIInv, OneSegTypeOK, PlaceFits, HelperFits, OutcomesFit

LEMMA SaveFailureKeeps ==
    ASSUME OneSegIInv, pc \in AfterMain, NEW reason \in Reasons \ {None},
           NEW avail \in {"PARTIAL", "MISMATCHED"}, SaveFailure(reason, avail), MainLocal,
           UNCHANGED <<rows, fileVars, coord>>, faults' \in Nat
    PROVE  OneSegIInv'
<1> USE Publishing
<1>1. mem' \in Locals /\ mem'.reason = mem.reason /\ pc' = "save"
      /\ mem'.save = [coord.result EXCEPT !.publish = FALSE, !.reason = reason, !.avail = avail]
  BY DEF SaveFailure, Locals, Results
<1>2. OutcomeFits(mem.save)'
  BY <1>1 DEF OutcomeFits, ResultFits, Results, SealedAs, fileVars
<1>3. PlaceFits'
  BY <1>1, <1>2 DEF PlaceFits, MainLocal, rows, BeforeMain, AfterMain, AfterRead, LinkedPlaces, DurablePlaces
<1>4. ProcessFits' /\ pc' \in Places
  BY <1>1 DEF ProcessFits, MainLocal, AfterMain, Places
<1> QED
  BY <1>1, <1>3, <1>4, MoveKeeps DEF MainLocal

LEMMA LinkKeeps ==
    ASSUME OneSegIInv, Link
    PROVE  OneSegIInv'
<1>1. pc = "link" /\ pc \in AfterMain
  BY DEF Link, AfterMain
<1> USE Publishing, <1>1
<1>2. CASE Goto("success") /\ UNCHANGED <<fileVars, faults>>
  <2>1. PlaceFits'
    BY <1>2 DEF Link, MainLocal, rows, PlaceFits, Goto, BeforeMain, AfterMain, AfterRead, LinkedPlaces, DurablePlaces
  <2> QED
    BY <1>2, <2>1, GotoKeeps DEF Link, AfterMain
<1>3. CASE LinkFinal /\ Goto("mark") /\ UNCHANGED faults
  <2>1. PlaceFits'
    BY <1>3, DirectorySteps DEF Link, MainLocal, rows, PlaceFits, Goto, BeforeMain, AfterMain, AfterRead, LinkedPlaces,
                DurablePlaces
  <2>2. ProcessFits' /\ pc' \in Places /\ mem' \in Locals
    BY <1>3 DEF Link, Goto, MainLocal, ProcessFits, AfterMain, Places
  <2>3. FilesFit'
    BY <1>3, DirectoryFits DEF Link, MainLocal
  <2> QED
    BY <1>3, <2>1, <2>2, <2>3, DirectorySteps, NamesKeep DEF Link, MainLocal
<1>4. CASE SaveFailure("FINAL_NAME_CONFLICT", "MISMATCHED") /\ UNCHANGED <<fileVars, faults>>
  BY <1>4, Labels, SaveFailureKeeps DEF Link
<1>5. CASE Fault /\ SaveFailure("FINAL_PUBLICATION_FAILED", "PARTIAL") /\ UNCHANGED fileVars
  BY <1>5, Labels, SaveFailureKeeps DEF Link, Fault
<1> QED
  BY <1>2, <1>3, <1>4, <1>5 DEF Link

\* The publication flags of the row, for a recording and for a recovery.
LEMMA FlagKeeps ==
    ASSUME OneSegIInv, main = "FINALIZED", aux.pc \in Ended,
           \/ MarkFinalPublished
           \/ /\ MarkDirectorySynced
              /\ userOps = 0 => \A d \in crashDirs \cup {dir} : d.final = "ours",
           UNCHANGED <<fileVars, proc, mem, cancelled, coord, helperVars, counters>>,
           pc' \in Places, ProcessFits', PlaceFits'
    PROVE  OneSegIInv'
<1> USE DEF fileVars, helperVars, counters
<1>1. /\ att.state = "FINALIZING" /\ one.state = "PARTIAL" /\ one.synced /\ one.integrity = None
      /\ UNCHANGED <<att, main>>
      /\ one.avail = "PARTIAL" /\ one.state # "FINALIZED"
  BY DEF MarkFinalPublished, MarkDirectorySynced, FlagAllowed, OneSegIInv, OneSegTypeOK, Segments,
         RowsFit, RestartAcceptsRow
<1>2. /\ one' \in Segments /\ one'.synced /\ one'.published /\ one'.integrity = None /\ one'.bytes = one.bytes
      /\ \/ one'.state = "PARTIAL" /\ one'.avail = "PARTIAL" /\ one'.dirSynced = one.dirSynced
         \/ one'.state = "FINALIZED" /\ one'.avail = "FINAL" /\ one'.dirSynced
  BY <1>1 DEF MarkFinalPublished, MarkDirectorySynced, OneSegIInv, OneSegTypeOK, Segments, SegmentStates
<1>3. OneSegTypeOK'
  BY <1>1, <1>2 DEF OneSegIInv, OneSegTypeOK, FilesTypeOK
<1>4. HelperFits'
  BY <1>1 DEF OneSegIInv, HelperFits
<1>5. RowsFit'
  BY <1>1, <1>2 DEF RowsFit, TerminalSettlesBoth, RestartAcceptsRow, Terminal, Successful
<1>6. OutcomesFit'
  BY <1>1, <1>2 DEF OneSegIInv, OutcomesFit, OutcomeFits, ResultFits, SealedAs
<1>7. one'.state = "FINALIZED" /\ userOps = 0 => \A d \in crashDirs \cup {dir} : d.final = "ours"
  BY <1>1 DEF MarkFinalPublished, OneSegIInv, OneSegTypeOK, Segments
<1>8. FilesFit'
  BY <1>1, <1>7 DEF OneSegIInv, FilesFit
<1> QED
  BY <1>3, <1>4, <1>5, <1>6, <1>8 DEF OneSegIInv

LEMMA MarkKeeps ==
    ASSUME OneSegIInv, Mark
    PROVE  OneSegIInv'
<1>1. pc \in {"mark", "dir"} /\ pc \in AfterMain
  BY DEF Mark, AfterMain
<1> USE Publishing, <1>1
<1>2. ASSUME IF pc = "mark" THEN MarkFinalPublished ELSE MarkDirectorySynced,
             Goto(IF pc = "mark" THEN "sync1" ELSE "success"),
             MainLocal, UNCHANGED <<fileVars, coord, faults>>
      PROVE  OneSegIInv'
  <2>1. pc = "dir" /\ userOps = 0 => \A d \in crashDirs \cup {dir} : d.final = "ours"
    BY DEF OneSegIInv, PlaceFits, LinkedPlaces, DurablePlaces
  <2>2. UNCHANGED <<att, main>>
    BY <1>2 DEF MarkFinalPublished, MarkDirectorySynced
  <2>3. PlaceFits'
    BY <1>2, <2>2 DEF MainLocal, OneSegIInv, PlaceFits, Goto, fileVars, BeforeMain, AfterMain, AfterRead,
                      LinkedPlaces, DurablePlaces
  <2>4. ProcessFits' /\ pc' \in Places /\ UNCHANGED mem
    BY <1>2 DEF Goto, MainLocal, ProcessFits, AfterMain, Places
  <2> QED
    BY <1>2, <2>1, <2>3, <2>4, FlagKeeps DEF MainLocal, counters
<1> QED
  BY <1>2, AbortKeeps DEF Mark

LEMMA PublishFilesKeeps ==
    ASSUME OneSegIInv, PublishFiles
    PROVE  OneSegIInv'
<1>1. pc \in AfterMain
  BY DEF PublishFiles, AfterMain
<1> USE Publishing, <1>1
<1>2. CASE /\ UNCHANGED faults
           /\ \/ pc = "sync1" /\ SyncDirectory /\ Goto("remove")
              \/ pc = "remove" /\ RemovePartial /\ Goto("sync2")
              \/ pc = "sync2" /\ SyncDirectory /\ Goto("dir")
  <2>1. PlaceFits'
    BY <1>2, DirectorySteps DEF PublishFiles, MainLocal, rows, OneSegIInv, PlaceFits, Goto, BeforeMain, AfterMain,
                AfterRead, LinkedPlaces, DurablePlaces
  <2>2. ProcessFits' /\ pc' \in Places /\ mem' \in Locals
    BY <1>2 DEF PublishFiles, Goto, MainLocal, ProcessFits, AfterMain, Places
  <2>3. FilesFit'
    BY <1>2, DirectoryFits DEF PublishFiles, MainLocal
  <2> QED
    BY <1>2, <2>1, <2>2, <2>3, DirectorySteps, NamesKeep DEF PublishFiles, MainLocal
<1>3. CASE Fault /\ SaveFailure("FILE_SYNC_FAILED", "PARTIAL") /\ UNCHANGED fileVars
  BY <1>3, Labels, SaveFailureKeeps DEF PublishFiles, Fault
<1>4. CASE (IF RemovePartialAllowed THEN Fault ELSE UNCHANGED faults)
           /\ SaveFailure("FINAL_PUBLICATION_FAILED", "PARTIAL") /\ UNCHANGED fileVars
  BY <1>4, Labels, SaveFailureKeeps DEF PublishFiles, Fault
<1> QED
  BY <1>2, <1>3, <1>4 DEF PublishFiles

LEMMA SavePublishFailureKeeps ==
    ASSUME OneSegAssumption, OneSegIInv, SavePublishFailure
    PROVE  OneSegIInv'
<1>1. pc = "save" /\ pc \in AfterMain
  BY DEF SavePublishFailure, AfterMain
<1> USE Publishing, <1>1
<1>2. ASSUME SetOneSegOutcome(mem.save), coord' = [coord EXCEPT !.result = mem.save], Goto("success"),
             MainLocal, UNCHANGED <<fileVars, faults>>
      PROVE  OneSegIInv'
  <2>1. mem.save \in Results /\ OutcomeFits(mem.save) /\ att.state = "FINALIZING" /\ UNCHANGED <<att, main>>
        /\ one' = Outcome(mem.save)
    BY <1>2, RecordShapes DEF OneSegIInv, PlaceFits, SetOneSegOutcome
  <2>2. /\ coord' \in Coordinators /\ coord'.started = coord.started /\ coord'.joined = coord.joined
        /\ coord'.result = mem.save
    BY <1>2, <2>1 DEF OneSegIInv, OneSegTypeOK, Coordinators
  <2>3. one'.state = "PARTIAL" /\ RestartAcceptsRow'
    BY <1>2, <2>1, OutcomeStored DEF OutcomeFits, ResultFits, fileVars
  <2>4. RowsFit'
    BY <2>1, <2>3 DEF RowsFit, TerminalSettlesBoth, Terminal, Successful
  <2>5. PlaceFits'
    BY <1>2, <2>1, <2>2 DEF MainLocal, PlaceFits, Goto, BeforeMain, AfterMain, AfterRead, LinkedPlaces, DurablePlaces
  <2>6. ProcessFits' /\ pc' \in Places /\ mem' \in Locals /\ proc' = proc
    BY <1>2 DEF Goto, MainLocal, ProcessFits, AfterMain, Places
  <2>7. OutcomeFits(coord.result)'
    BY <1>2, <2>1, <2>2 DEF OutcomeFits, ResultFits, SealedAs, fileVars
  <2> QED
    BY <1>2, <2>1, <2>2, <2>4, <2>5, <2>6, <2>7, StoreKeeps
       DEF MainLocal, OutcomeFits, ResultFits, counters, OneSegIInv, OneSegTypeOK
<1> QED
  BY <1>2, AbortKeeps DEF SavePublishFailure

-----------------------------------------------------------------------------
(* The helper goroutine.                                                   *)

\* A step of the helper that writes neither the row nor the file.
LEMMA HelperMoves ==
    ASSUME OneSegAssumption, OneSegIInv, aux.pc \notin Ended, HelperLocal,
           UNCHANGED <<one, fileVars, done>>, faults' \in Nat,
           aux' \in Helpers, aux'.pc \notin Ended,
           aux'.pc \in {"retry", "save", "seal"} \/ aux'.conn > 0 => aux'.reason # None
    PROVE  OneSegIInv'
<1>1. /\ one' \in Segments /\ one' = [one EXCEPT !.state = one'.state, !.bytes = one'.bytes]
      /\ FilesTypeOK(MaxBytes)' /\ done' \in Results
  BY DEF OneSegIInv, OneSegTypeOK, Segments, FilesTypeOK, fileVars
<1>2. \A d \in crashDirs' \cup {dir'} : \E e \in crashDirs \cup {dir} : d.final = e.final
  BY DEF fileVars
<1>3. one'.state \in {"PLANNED", "WRITING"} /\ done' = NoResult /\ aux'.pc # "none" /\ aux'.pc # "over"
  BY WhileHelping DEF Ended
<1> QED
  BY <1>1, <1>2, <1>3, HelperKeeps DEF fileVars

LEMMA ClosingIs ==
    ASSUME OneSegIInv, NEW reason \in Reasons \ {None}, NEW reached \in BOOLEAN, CloseWith(reason, reached)
    PROVE  aux' \in Helpers /\ aux'.pc \in {"save", "seal"} /\ aux'.pc \notin Ended /\ aux'.reason # None
BY DEF OneSegIInv, OneSegTypeOK, Helpers, HelperPlaces, CloseWith, Ended

LEMMA CloseMoves ==
    ASSUME OneSegAssumption, OneSegIInv, aux.pc \notin Ended, HelperLocal,
           UNCHANGED <<one, fileVars, done>>, faults' \in Nat,
           NEW reason \in Reasons \ {None}, NEW reached \in BOOLEAN, CloseWith(reason, reached)
    PROVE  OneSegIInv'
BY ClosingIs, HelperMoves

\* A lost connection keeps its reason.
LEMMA RetryMoves ==
    ASSUME OneSegAssumption, OneSegIInv, aux.pc \notin Ended, HelperLocal,
           UNCHANGED <<one, fileVars, done>>, faults' \in Nat,
           NEW reason \in Reasons \ {None}, aux' = [aux EXCEPT !.pc = "retry", !.reason = reason]
    PROVE  OneSegIInv'
<1>1. aux' \in Helpers /\ aux'.pc \notin Ended /\ aux'.reason # None
  BY DEF OneSegIInv, OneSegTypeOK, Helpers, HelperPlaces, Ended
<1> QED
  BY <1>1, HelperMoves

LEMMA LabelMoves ==
    ASSUME OneSegAssumption, OneSegIInv, HelperLocal, UNCHANGED <<one, fileVars, done>>, faults' \in Nat,
           NEW label \in {"loop", "open", "copy", "first"}, HelperGoto(label), aux.pc \notin Ended
    PROVE  OneSegIInv'
<1>1. aux' \in Helpers /\ aux'.pc = label /\ aux'.conn = aux.conn /\ aux'.reason = aux.reason
  BY DEF OneSegIInv, OneSegTypeOK, Helpers, HelperPlaces, HelperGoto
<1>2. aux.conn > 0 => aux.reason # None
  BY DEF OneSegIInv, HelperFits
<1> QED
  BY <1>1, <1>2, HelperMoves DEF Ended

\* The helper sends its result and is over.
LEMMA SendKeeps ==
    ASSUME OneSegAssumption, OneSegIInv, aux.pc \notin Ended, HelperLocal,
           one' = one, FilesTypeOK(MaxBytes)', faults' \in Nat,
           \A d \in crashDirs' \cup {dir'} : \E e \in crashDirs \cup {dir} : d.final = e.final,
           month' = "absent" => month = "absent" /\ UNCHANGED <<dir, crashDirs>>,
           NEW result \in Results, OutcomeFits(result)', Send(result),
           aux.conn > 0 => aux.reason # None
    PROVE  OneSegIInv'
<1>1. aux' \in Helpers /\ aux'.pc = "over" /\ aux'.conn = aux.conn /\ aux'.reason = aux.reason
  BY DEF OneSegIInv, OneSegTypeOK, Helpers, HelperPlaces, Ended, Send, HelperGoto
<1>2. /\ one' \in Segments /\ one' = [one EXCEPT !.state = one'.state, !.bytes = one'.bytes]
      /\ one'.state \in {"PLANNED", "WRITING"}
  BY WhileHelping DEF OneSegIInv, OneSegTypeOK, Segments
<1>4. done' = result /\ done' # NoResult /\ OutcomeFits(done)'
  BY DEF Send, OutcomeFits, ResultFits, NoResult, SealedAs
<1> QED
  BY <1>1, <1>2, <1>4, HelperKeeps

LEMMA HelperCreateKeeps ==
    ASSUME OneSegAssumption, OneSegIInv, HelperCreate
    PROVE  OneSegIInv'
<1>1. aux.pc \notin Ended /\ faults \in Nat /\ HelperLocal /\ one' = one
  BY DEF HelperCreate, Ended, OneSegIInv, OneSegTypeOK
<1>2. CASE /\ CreatePartial /\ UNCHANGED <<done, faults>>
           /\ HelperGoto("loop") \/ CloseWith("STREAM_NOT_FOUND", FALSE)
  <2>1. dir' \in Directories /\ dir'.final = dir.final /\ crashDirs' = crashDirs \cup {dir'}
        /\ UNCHANGED <<size, syncedSize>> /\ month' \in Months /\ month' # "absent"
    BY <1>2 DEF CreatePartial, EnsureDirectory, Months, Rename, OneSegIInv, OneSegTypeOK, FilesTypeOK, Directories
  <2>2. FilesTypeOK(MaxBytes)'
    BY <2>1 DEF OneSegIInv, OneSegTypeOK, FilesTypeOK
  <2>3. \A d \in crashDirs' \cup {dir'} : \E e \in crashDirs \cup {dir} : d.final = e.final
    BY <2>1
  <2>4. /\ aux' \in Helpers /\ aux'.pc \notin Ended
        /\ aux'.pc \in {"retry", "save", "seal"} \/ aux'.conn > 0 => aux'.reason # None
    <3>1. CASE HelperGoto("loop")
      BY <3>1 DEF HelperGoto, OneSegIInv, OneSegTypeOK, Helpers, HelperPlaces, Ended, HelperFits
    <3>2. CASE CloseWith("STREAM_NOT_FOUND", FALSE)
      BY <3>2, Labels, ClosingIs
    <3> QED
      BY <1>2, <3>1, <3>2
  <2>5. one' \in Segments /\ one' = [one EXCEPT !.state = one'.state, !.bytes = one'.bytes] /\ done' \in Results
    BY <1>1, <1>2 DEF OneSegIInv, OneSegTypeOK, Segments
  <2>6. one'.state \in {"PLANNED", "WRITING"} /\ done' = NoResult
    BY <1>1, <1>2, WhileHelping
  <2> QED
    BY <1>1, <1>2, <2>1, <2>2, <2>3, <2>4, <2>5, <2>6, HelperKeeps DEF Ended
<1>3. CASE Fault /\ Send(Missing("FILE_CREATE_FAILED")) /\ CreateFails
  <2>1. Missing("FILE_CREATE_FAILED") \in Results /\ OutcomeFits(Missing("FILE_CREATE_FAILED"))'
    BY Labels, MissingIs DEF OutcomeFits, ResultFits, SealedAs
  <2>2. faults' \in Nat /\ (aux.conn > 0 => aux.reason # None)
    BY <1>1, <1>3 DEF Fault, OneSegIInv, OneSegTypeOK, HelperFits
  <2>3. \/ /\ CreatePartial /\ month' \in Months /\ month' # "absent" /\ UNCHANGED <<size, syncedSize>>
           /\ dir' \in Directories /\ dir'.final = dir.final /\ crashDirs' = crashDirs \cup {dir'}
        \/ UNCHANGED <<dir, crashDirs, size, syncedSize>> /\ month' \in {month, "new"}
    BY <1>3 DEF CreateFails, NotCreated, CreatePartial, EnsureDirectory, Months, Rename, fileVars, OneSegIInv,
                OneSegTypeOK, FilesTypeOK, Directories
  <2>4. FilesTypeOK(MaxBytes)'
    BY <2>3 DEF OneSegIInv, OneSegTypeOK, FilesTypeOK, Months
  <2>5. \A d \in crashDirs' \cup {dir'} : \E e \in crashDirs \cup {dir} : d.final = e.final
    BY <2>3
  <2>6. month' = "absent" => month = "absent" /\ UNCHANGED <<dir, crashDirs>>
    BY <2>3
  <2> QED
    BY <1>1, <1>3, <2>1, <2>2, <2>4, <2>5, <2>6, SendKeeps
<1> QED
  BY <1>2, <1>3 DEF HelperCreate

\* What every step of the helper starts from.
LEMMA Helping ==
    ASSUME OneSegIInv, aux.pc \notin Ended
    PROVE  /\ faults \in Nat /\ aux.started \in BOOLEAN /\ aux.reached \in BOOLEAN /\ aux.reason \in Reasons
           /\ aux.pc \in {"retry", "save", "seal"} \/ aux.conn > 0 => aux.reason # None
           /\ CancelReason \in Reasons \ {None} /\ one \in Segments
BY Labels DEF OneSegIInv, OneSegTypeOK, Helpers, HelperFits

LEMMA HelperLoopKeeps ==
    ASSUME OneSegAssumption, OneSegIInv, HelperLoop
    PROVE  OneSegIInv'
<1>1. aux.pc \notin Ended /\ aux.pc = "loop"
  BY DEF HelperLoop, Ended
<1>2. HelperLocal /\ UNCHANGED <<one, fileVars, done>> /\ faults' \in Nat
  BY <1>1, Helping DEF HelperLoop, HelperOnly
<1>3. CASE HelperGoto("open")
  BY <1>1, <1>2, <1>3, LabelMoves
<1>4. CASE CloseWith(IF aux.conn > 0 THEN aux.reason ELSE "STREAM_TIMEOUT", FALSE)
  <2>1. PICK reason \in Reasons \ {None} : CloseWith(reason, FALSE)
    BY <1>1, <1>4, Helping, Labels
  <2> QED
    BY <1>1, <1>2, <2>1, CloseMoves
<1>5. ASSUME NEW reason \in {CancelReason, "STREAM_CANCELLED", "USER_REQUESTED_STOP", "COMPLETED"},
             NEW reached \in {FALSE, aux.started}, CloseWith(reason, reached)
      PROVE  OneSegIInv'
  BY <1>1, <1>2, <1>5, Helping, Labels, CloseMoves
<1> QED
  BY <1>3, <1>4, <1>5 DEF HelperLoop

LEMMA HelperOpenKeeps ==
    ASSUME OneSegAssumption, OneSegIInv, HelperOpen
    PROVE  OneSegIInv'
<1>1. aux.pc \notin Ended /\ HelperLocal /\ UNCHANGED <<one, fileVars, done>> /\ faults' \in Nat
  BY Helping DEF HelperOpen, HelperOnly, Ended
<1>2. ASSUME NEW label \in {"copy", "first"}, HelperGoto(label)
      PROVE  OneSegIInv'
  BY <1>1, <1>2, LabelMoves
<1>3. ASSUME NEW reason \in {"STREAM_UNAVAILABLE", "STREAM_TIMEOUT", "STREAM_CANCELLED"},
             aux' = [aux EXCEPT !.pc = "retry", !.reason = reason]
      PROVE  OneSegIInv'
  BY <1>1, <1>3, Labels, RetryMoves
<1> QED
  BY <1>2, <1>3 DEF HelperOpen

LEMMA HelperFirstKeeps ==
    ASSUME OneSegAssumption, OneSegIInv, HelperFirst
    PROVE  OneSegIInv'
<1>1. aux.pc \notin Ended /\ aux.pc = "first"
  BY DEF HelperFirst, Ended
<1>2. HelperLocal /\ UNCHANGED <<fileVars, done>>
  BY DEF HelperFirst
<1>3. faults' \in Nat
  <2>1. faults' = faults \/ Fault
    BY DEF HelperFirst
  <2> QED
    BY <1>1, <2>1, Helping DEF Fault
<1>4. CASE Fault /\ CloseWith("PROCESS_INTERRUPTED", FALSE) /\ UNCHANGED one
  BY <1>1, <1>2, <1>3, <1>4, Labels, CloseMoves
<1>5. CASE one' = [one EXCEPT !.state = "WRITING"] /\ aux' = [aux EXCEPT !.pc = "copy", !.started = TRUE]
  <2>1. /\ one' \in Segments /\ one'.state = "WRITING"
        /\ one' = [one EXCEPT !.state = one'.state, !.bytes = one'.bytes]
    BY <1>1, <1>5, Helping DEF Segments, SegmentStates
  <2>2. aux' \in Helpers /\ aux'.pc = "copy" /\ aux'.conn = aux.conn /\ aux'.reason = aux.reason
    BY <1>5 DEF OneSegIInv, OneSegTypeOK, Helpers, HelperPlaces
  <2>3. FilesTypeOK(MaxBytes)' /\ done' \in Results /\ done' = NoResult
    BY <1>1, <1>2, WhileHelping DEF OneSegIInv, OneSegTypeOK, FilesTypeOK, fileVars
  <2>4. \A d \in crashDirs' \cup {dir'} : \E e \in crashDirs \cup {dir} : d.final = e.final
    BY <1>2 DEF fileVars
  <2> QED
    BY <1>1, <1>2, <1>3, <2>1, <2>2, <2>3, <2>4, Helping, HelperKeeps DEF fileVars
<1> QED
  BY <1>4, <1>5 DEF HelperFirst

\* Progress and written bytes: the row and the file of a running helper.
LEMMA SaveProgressKeeps ==
    ASSUME OneSegAssumption, OneSegIInv, aux.pc \notin Ended, HelperLocal, SaveOneSegProgress \/ UNCHANGED one,
           UNCHANGED <<dir, month, crashDirs>>, FilesTypeOK(MaxBytes)', faults' \in Nat, done' = done,
           aux' \in Helpers, aux'.pc \notin Ended,
           aux'.pc \in {"retry", "save", "seal"} \/ aux'.conn > 0 => aux'.reason # None
    PROVE  OneSegIInv'
<1>1. /\ one' \in Segments /\ one' = [one EXCEPT !.state = one'.state, !.bytes = one'.bytes]
      /\ one'.state = one.state
  BY Helping DEF SaveOneSegProgress, Segments, OneSegIInv, OneSegTypeOK, FilesTypeOK
<1>2. done' = NoResult /\ done' \in Results /\ one'.state \in {"PLANNED", "WRITING"}
  BY <1>1, WhileHelping DEF OneSegIInv, OneSegTypeOK
<1>3. \A d \in crashDirs' \cup {dir'} : \E e \in crashDirs \cup {dir} : d.final = e.final
  OBVIOUS
<1>4. aux'.pc # "none" /\ aux'.pc # "over"
  BY DEF Ended
<1> QED
  BY <1>1, <1>2, <1>3, <1>4, HelperKeeps

LEMMA HelperCopyKeeps ==
    ASSUME OneSegAssumption, OneSegIInv, HelperCopy
    PROVE  OneSegIInv'
<1>1. aux.pc \notin Ended /\ aux.pc = "copy" /\ HelperLocal /\ UNCHANGED done
  BY DEF HelperCopy, Ended
<1>2. FilesTypeOK(MaxBytes) /\ aux \in Helpers
  BY DEF OneSegIInv, OneSegTypeOK
<1>3. CASE size < MaxBytes /\ WritePartial(1) /\ UNCHANGED <<aux, one, faults>>
  <2>1. FilesTypeOK(MaxBytes)' /\ UNCHANGED <<dir, month, crashDirs>>
    BY <1>2, <1>3 DEF FilesTypeOK, WritePartial, OneSegAssumption
  <2> QED
    BY <1>1, <1>2, <1>3, <2>1, Helping, SaveProgressKeeps
<1>4. CASE /\ SaveOneSegProgress
           /\ IF att.stop THEN CloseWith("USER_REQUESTED_STOP", FALSE) ELSE UNCHANGED aux
           /\ UNCHANGED <<fileVars, faults>>
  <2>1. FilesTypeOK(MaxBytes)' /\ UNCHANGED <<dir, month, crashDirs>>
    BY <1>2, <1>4 DEF FilesTypeOK, fileVars
  <2>2. /\ aux' \in Helpers /\ aux'.pc \notin Ended
        /\ aux'.pc \in {"retry", "save", "seal"} \/ aux'.conn > 0 => aux'.reason # None
    BY <1>1, <1>2, <1>4, Helping, Labels, ClosingIs
  <2> QED
    BY <1>1, <1>4, <2>1, <2>2, Helping, SaveProgressKeeps
<1>5. ASSUME NEW reason \in {CancelReason, "STREAM_CANCELLED", "USER_REQUESTED_STOP", "COMPLETED",
                             "FILE_WRITE_FAILED", "PROCESS_INTERRUPTED"},
             NEW reached \in BOOLEAN, CloseWith(reason, reached),
             UNCHANGED faults \/ Fault, UNCHANGED <<one, fileVars>>
      PROVE  OneSegIInv'
  <2>1. faults' \in Nat /\ reason \in Reasons \ {None}
    BY <1>1, <1>5, Helping, Labels DEF Fault
  <2> QED
    BY <1>1, <1>5, <2>1, CloseMoves
<1>6. ASSUME NEW reason \in {"STREAM_ENDED_EARLY", "STREAM_TIMEOUT", "STREAM_UNAVAILABLE"},
             aux' = [aux EXCEPT !.pc = "retry", !.reason = reason], UNCHANGED <<one, fileVars, faults>>
      PROVE  OneSegIInv'
  BY <1>1, <1>6, Helping, Labels, RetryMoves
<1> QED
  BY <1>3, <1>4, <1>5, <1>6 DEF HelperCopy

LEMMA HelperRetryKeeps ==
    ASSUME OneSegAssumption, OneSegIInv, HelperRetry
    PROVE  OneSegIInv'
<1>1. aux.pc \notin Ended /\ aux.pc = "retry" /\ aux.reason # None
  BY Helping DEF HelperRetry, Ended
<1>2. HelperLocal /\ UNCHANGED <<one, fileVars, done>> /\ faults' \in Nat
  BY <1>1, Helping DEF HelperRetry, HelperOnly
<1>3. CASE aux.conn < MaxReconnects /\ aux' = [aux EXCEPT !.pc = "loop", !.conn = @ + 1]
  <2>1. aux.conn + 1 \in 0 .. MaxReconnects /\ aux \in Helpers
    BY <1>3, RecordShapes DEF OneSegAssumption, OneSegIInv, OneSegTypeOK
  <2>2. aux' \in Helpers /\ aux'.pc \notin Ended /\ aux'.reason # None
    BY <1>1, <1>3, <2>1 DEF Helpers, HelperPlaces, Ended
  <2> QED
    BY <1>1, <1>2, <2>2, HelperMoves
<1>4. ASSUME NEW reason \in {"USER_REQUESTED_STOP", "COMPLETED", "STREAM_RECONNECT_EXHAUSTED", aux.reason},
             NEW reached \in BOOLEAN, CloseWith(reason, reached)
      PROVE  OneSegIInv'
  <2>1. reason \in Reasons \ {None}
    BY <1>1, <1>4, Helping, Labels
  <2> QED
    BY <1>1, <1>2, <1>4, <2>1, CloseMoves
<1>5. aux.started \in BOOLEAN
  BY <1>1, Helping
<1> QED
  BY <1>3, <1>4, <1>5 DEF HelperRetry

LEMMA HelperSaveKeeps ==
    ASSUME OneSegAssumption, OneSegIInv, HelperSave
    PROVE  OneSegIInv'
<1>1. aux.pc \notin Ended /\ aux.pc = "save"
  BY DEF HelperSave, Ended
<1>2. HelperLocal /\ UNCHANGED <<dir, month, crashDirs, done>> /\ FilesTypeOK(MaxBytes)'
  BY DEF HelperSave, fileVars, OneSegIInv, OneSegTypeOK, FilesTypeOK
<1>3. CASE SaveOneSegProgress /\ HelperGoto("seal") /\ UNCHANGED faults
  <2>1. aux' \in Helpers /\ aux'.pc \notin Ended /\ aux'.reason # None
    BY <1>1, <1>3, Helping DEF OneSegIInv, OneSegTypeOK, HelperGoto, Helpers, HelperPlaces, Ended
  <2> QED
    BY <1>1, <1>2, <1>3, <2>1, Helping, SaveProgressKeeps
<1>4. CASE /\ Fault /\ UNCHANGED one
           /\ aux' = [aux EXCEPT !.pc = "seal", !.reason = "PROCESS_INTERRUPTED", !.reached = FALSE]
  <2>1. aux' \in Helpers /\ aux'.pc \notin Ended /\ aux'.reason # None
    BY <1>4, Labels DEF OneSegIInv, OneSegTypeOK, Helpers, HelperPlaces, Ended
  <2>2. faults' \in Nat
    BY <1>1, <1>4, Helping DEF Fault
  <2> QED
    BY <1>1, <1>2, <1>4, <2>1, <2>2, SaveProgressKeeps
<1> QED
  BY <1>3, <1>4 DEF HelperSave

\* The sealed file is synced as it is; only a whole one is worth publishing.
LEMMA HelperSealKeeps ==
    ASSUME OneSegAssumption, OneSegIInv, HelperSeal
    PROVE  OneSegIInv'
<1>1. aux.pc \notin Ended /\ aux.pc = "seal" /\ aux.reason \in Reasons \ {None} /\ aux.started \in BOOLEAN
      /\ aux.reached \in BOOLEAN
  BY Helping DEF HelperSeal, Ended
<1>2. HelperLocal /\ UNCHANGED <<one, dir, month, crashDirs, size>> /\ FilesTypeOK(MaxBytes)' /\ size \in 0 .. MaxBytes
  BY DEF HelperSeal, SyncPartial, fileVars, OneSegIInv, OneSegTypeOK, FilesTypeOK
<1>3. ASSUME SyncPartial, UNCHANGED faults, NEW reason \in Reasons \ {None}, NEW publish \in BOOLEAN,
             publish => Useful(size),
             Send([bytes |-> size, avail |-> "PARTIAL", reason |-> reason, synced |-> TRUE, publish |-> publish])
      PROVE  OneSegIInv'
  <2> DEFINE r == [bytes |-> size, avail |-> "PARTIAL", reason |-> reason, synced |-> TRUE, publish |-> publish]
  <2>1. r \in Results /\ OutcomeFits(r)'
    BY <1>2, <1>3 DEF Results, OutcomeFits, ResultFits, SealedAs, SyncPartial, Useful
  <2> QED
    BY <1>1, <1>2, <1>3, <2>1, Helping, SendKeeps
<1>4. ASSUME Fault,
             Send([bytes |-> size, avail |-> "PARTIAL", reason |-> "FILE_SYNC_FAILED", synced |-> FALSE,
                   publish |-> FALSE])
      PROVE  OneSegIInv'
  <2> DEFINE r == [bytes |-> size, avail |-> "PARTIAL", reason |-> "FILE_SYNC_FAILED", synced |-> FALSE,
                   publish |-> FALSE]
  <2>1. r \in Results /\ OutcomeFits(r)'
    BY <1>2, Labels DEF Results, OutcomeFits, ResultFits
  <2>2. faults' \in Nat
    BY <1>1, <1>4, Helping DEF Fault
  <2> QED
    BY <1>1, <1>2, <1>4, <2>1, <2>2, Helping, SendKeeps
<1> DEFINE partial == /\ aux.started /\ aux.reason \in Communication
                      /\ Useful(size) /\ WholePackets(size)
           reached == aux.reached \/ partial
           reason == IF reached /\ ~Useful(size) THEN "STREAM_ENDED_EARLY" ELSE aux.reason
           publish == reached /\ Useful(size)
<1>5. reason \in Reasons \ {None} /\ publish \in BOOLEAN /\ (publish => Useful(size))
  BY <1>1, <1>2, Labels DEF Useful
<1>6. \/ /\ SyncPartial /\ UNCHANGED faults
         /\ Send([bytes |-> size, avail |-> "PARTIAL", reason |-> reason, synced |-> TRUE, publish |-> publish])
      \/ /\ Fault
         /\ Send([bytes |-> size, avail |-> "PARTIAL", reason |-> "FILE_SYNC_FAILED", synced |-> FALSE,
                  publish |-> FALSE])
  BY DEF HelperSeal
<1> HIDE DEF reason, publish
<1> QED
  BY <1>3, <1>4, <1>5, <1>6

LEMMA HelperStepKeeps ==
    ASSUME OneSegAssumption, OneSegIInv, Helper
    PROVE  OneSegIInv'
BY HelperCreateKeeps, HelperLoopKeeps, HelperOpenKeeps, HelperFirstKeeps, HelperCopyKeeps, HelperRetryKeeps,
   HelperSaveKeeps, HelperSealKeeps DEF Helper
-----------------------------------------------------------------------------
(* The user, the service and the machine.                                  *)

LEMMA RequestsKeep ==
    ASSUME OneSegIInv, RequestStop \/ Cancel
    PROVE  OneSegIInv'
<1>1. CASE RequestStop
  <2>1. att' \in Attempts /\ att'.state = att.state
    BY <1>1 DEF RequestStop, OneSegIInv, OneSegTypeOK, Attempts
  <2> USE <1>1, <2>1 DEF RequestStop, fileVars, helperVars, counters
  <2>2. OneSegTypeOK'
    BY DEF OneSegIInv, OneSegTypeOK, FilesTypeOK
  <2>3. ProcessFits' /\ HelperFits' /\ RowsFit'
    BY DEF OneSegIInv, ProcessFits, HelperFits, RowsFit, TerminalSettlesBoth, OneSegSettled, RestartAcceptsRow
  <2>4. OutcomesFit' /\ FilesFit' /\ PlaceFits'
    BY DEF OneSegIInv, OutcomesFit, OutcomeFits, ResultFits, SealedAs, FilesFit, PlaceFits
  <2> QED
    BY <2>2, <2>3, <2>4 DEF OneSegIInv
<1>2. CASE Cancel
  <2> USE <1>2 DEF Cancel, rows, fileVars, helperVars, counters
  <2>1. OneSegTypeOK'
    BY DEF OneSegIInv, OneSegTypeOK, FilesTypeOK
  <2>2. ProcessFits' /\ HelperFits' /\ RowsFit'
    BY DEF OneSegIInv, ProcessFits, HelperFits, RowsFit, TerminalSettlesBoth, OneSegSettled, RestartAcceptsRow
  <2>3. OutcomesFit' /\ FilesFit' /\ PlaceFits'
    BY DEF OneSegIInv, OutcomesFit, OutcomeFits, ResultFits, SealedAs, FilesFit, PlaceFits
  <2> QED
    BY <2>1, <2>2, <2>3 DEF OneSegIInv
<1> QED
  BY <1>1, <1>2

\* Somebody else's change of the final name is counted.
LEMMA ChangeFinalNameKeeps ==
    ASSUME OneSegIInv, ChangeFinalName
    PROVE  OneSegIInv'
<1> USE DEF ChangeFinalName, rows, helperVars
<1>1. /\ dir' \in Directories /\ dir'.final # "ours" /\ crashDirs' = crashDirs \cup {dir'}
      /\ UNCHANGED <<size, syncedSize>>
  BY DEF OneSegIInv, OneSegTypeOK, FilesTypeOK, Directories, Owners
<1>2. userOps' # 0 /\ userOps' \in Nat
  BY DEF OneSegIInv, OneSegTypeOK
<1>3. OneSegTypeOK'
  BY <1>1, <1>2 DEF OneSegIInv, OneSegTypeOK, FilesTypeOK
<1>4. ProcessFits' /\ HelperFits' /\ RowsFit'
  BY DEF OneSegIInv, ProcessFits, HelperFits, RowsFit, TerminalSettlesBoth, OneSegSettled, RestartAcceptsRow
<1>5. OutcomesFit'
  BY <1>1 DEF OneSegIInv, OutcomesFit, OutcomeFits, ResultFits, SealedAs
<1>6. FilesFit'
  BY <1>1, <1>2 DEF OneSegIInv, FilesFit
<1>7. PlaceFits'
  BY <1>1, <1>2 DEF OneSegIInv, PlaceFits, OutcomeFits, ResultFits, SealedAs
<1> QED
  BY <1>3, <1>4, <1>5, <1>6, <1>7 DEF OneSegIInv

LEMMA DownFits ==
    ASSUME OneSegAssumption
    PROVE  /\ NoLocals \in Locals /\ NoCoord \in Coordinators /\ NoAux \in Helpers /\ NoResult \in Results
           /\ ~NoCoord.started /\ ~NoCoord.joined /\ NoAux.pc = "none" /\ NoAux.conn = 0
<1>1. None \in Reasons /\ NoResult \in Results /\ 0 \in 0 .. MaxReconnects
  BY Labels, MissingIs DEF OneSegAssumption
<1> QED
  BY <1>1 DEF NoLocals, Locals, NoCoord, Coordinators, NoAux, Helpers, HelperPlaces, Ended

\* The process ends, with the disk as it is or as a power loss leaves it: only
\* what was synced is still known to be there.
LEMMA GoDownKeeps ==
    ASSUME OneSegAssumption, OneSegIInv, GoDown, UNCHANGED fileVars \/ LosePower,
           UNCHANGED <<rows, userOps>>, crashes' \in Nat, faults' \in Nat
    PROVE  OneSegIInv'
<1> USE DEF rows
<1>1. /\ FilesTypeOK(MaxBytes)'
      /\ \/ month' = "absent" /\ dir' = EmptyDirectory /\ crashDirs' = {EmptyDirectory}
         \/ crashDirs' \cup {dir'} \subseteq crashDirs \cup {dir} /\ (month' = "absent" <=> month = "absent")
      /\ size = syncedSize => size' = size /\ syncedSize' = syncedSize
  <2>1. FilesTypeOK(MaxBytes)
    BY DEF OneSegIInv, OneSegTypeOK
  <2>2. CASE UNCHANGED fileVars
    BY <2>1, <2>2 DEF fileVars, FilesTypeOK
  <2>3. CASE LosePower
    <3>1. size' \in 0 .. MaxBytes /\ syncedSize' = size' /\ (size = syncedSize => size' = size)
      BY <2>1, <2>3 DEF LosePower, FilesTypeOK, OneSegAssumption
    <3>2. \/ month' = "absent" /\ dir' = EmptyDirectory
          \/ dir' \in crashDirs /\ month' \in Months /\ (month' = "absent" <=> month = "absent")
      BY <2>1, <2>3 DEF LosePower, FilesTypeOK, Months
    <3>3. crashDirs' = {dir'} /\ EmptyDirectory \in Directories /\ "absent" \in Months
      BY <2>3 DEF LosePower, EmptyDirectory, Directories, Owners, Months
    <3> QED
      BY <2>1, <3>1, <3>2, <3>3 DEF FilesTypeOK
  <2> QED
    BY <2>2, <2>3
<1>2. OneSegTypeOK'
  BY <1>1, DownFits DEF GoDown, OneSegIInv, OneSegTypeOK, Places
<1>3. ProcessFits' /\ HelperFits' /\ PlaceFits'
  BY <1>1, DownFits DEF GoDown, ProcessFits, HelperFits, PlaceFits, Ended, BeforeMain, AfterMain, AfterRead,
                        LinkedPlaces, DurablePlaces
<1>4. RowsFit'
  BY DEF OneSegIInv, RowsFit, TerminalSettlesBoth, OneSegSettled, RestartAcceptsRow
<1>5. OutcomesFit'
  BY <1>1, DownFits DEF GoDown, OneSegIInv, OutcomesFit, SealedAs
<1>6. FilesFit'
  BY <1>1 DEF OneSegIInv, FilesFit, EmptyDirectory
<1> QED
  BY <1>2, <1>3, <1>4, <1>5, <1>6 DEF OneSegIInv

LEMMA EndsKeep ==
    ASSUME OneSegAssumption, OneSegIInv, Crash \/ Exit \/ RecoveryFails
    PROVE  OneSegIInv'
<1>1. crashes \in Nat /\ faults \in Nat
  BY DEF OneSegIInv, OneSegTypeOK
<1>2. CASE Crash
  BY <1>1, <1>2, GoDownKeeps DEF Crash
<1>3. CASE Exit
  BY <1>1, <1>3, GoDownKeeps DEF Exit, counters
<1>4. CASE RecoveryFails
  BY <1>1, <1>4, GoDownKeeps DEF RecoveryFails, Fault
<1> QED
  BY <1>2, <1>3, <1>4

LEMMA RestartKeeps ==
    ASSUME OneSegIInv, Restart
    PROVE  OneSegIInv'
<1>1. coord = NoCoord /\ aux = NoAux /\ done = NoResult
  BY DEF Restart, OneSegIInv, ProcessFits
<1> USE <1>1 DEF Restart, Goto, rows, fileVars, helperVars, counters
<1>2. OneSegTypeOK'
  BY DEF OneSegIInv, OneSegTypeOK, FilesTypeOK, Places
<1>3. ProcessFits' /\ HelperFits' /\ RowsFit'
  BY DEF OneSegIInv, ProcessFits, HelperFits, RowsFit, TerminalSettlesBoth, OneSegSettled, RestartAcceptsRow
<1>4. OutcomesFit' /\ FilesFit'
  BY DEF OneSegIInv, OutcomesFit, OutcomeFits, ResultFits, SealedAs, FilesFit
<1>5. PlaceFits'
  BY DEF PlaceFits, BeforeMain, AfterMain, AfterRead, LinkedPlaces, DurablePlaces
<1> QED
  BY <1>2, <1>3, <1>4, <1>5 DEF OneSegIInv

-----------------------------------------------------------------------------
(* The recovery.                                                           *)

LEMMA AtRecovery ==
    ASSUME OneSegAssumption, OneSegIInv, proc = "recovering"
    PROVE  /\ pc \in AfterRead \cup {"read"} /\ aux.pc \in Ended /\ faults \in Nat
           /\ ~coord.started /\ ~coord.joined /\ mem \in Locals /\ coord \in Coordinators
           /\ aux = NoAux /\ coord = NoCoord /\ done = NoResult
           /\ pc \in AfterRead => main = "FINALIZED" /\ att.state = "FINALIZING"
BY DownFits DEF OneSegIInv, OneSegTypeOK, ProcessFits, PlaceFits, Ended

LEMMA RecoveredFits ==
    ASSUME OneSegAssumption, OneSegIInv, proc = "recovering", Recovered, RecoverLocal
    PROVE  /\ ProcessFits' /\ PlaceFits' /\ mem' \in Locals /\ pc' \in Places
           /\ proc' \in {"up", "recovering", "down"}
BY AtRecovery, DownFits DEF Recovered, RecoverLocal, helperVars, ProcessFits, PlaceFits, Places, BeforeMain,
                AfterMain, AfterRead, LinkedPlaces, DurablePlaces

LEMMA RecoverNothingKeeps ==
    ASSUME OneSegAssumption, OneSegIInv, RecoverNothing
    PROVE  OneSegIInv'
<1>1. proc = "recovering"
  BY DEF RecoverNothing, Recovering
<1>2. OneSegTypeOK' /\ HelperFits' /\ RowsFit'
  BY <1>1, RecoveredFits DEF RecoverNothing, RecoverLocal, Recovered, rows, fileVars, helperVars, OneSegIInv,
         OneSegTypeOK, FilesTypeOK, HelperFits, RowsFit, TerminalSettlesBoth, OneSegSettled, RestartAcceptsRow
<1>3. OutcomesFit' /\ FilesFit'
  BY DEF RecoverNothing, RecoverLocal, rows, fileVars, helperVars, OneSegIInv, OutcomesFit, OutcomeFits,
         ResultFits, SealedAs, FilesFit
<1> QED
  BY <1>1, <1>2, <1>3, RecoveredFits DEF RecoverNothing, OneSegIInv

\* The recovery's results have a reason and are not published.
LEMMA InterruptedIs ==
    ASSUME OneSegAssumption, OneSegIInv, NEW reason \in Reasons \ {None}
    PROVE  /\ Interrupted(reason) \in Results /\ ~Interrupted(reason).publish
           /\ Interrupted(reason).reason # None
           /\ Mismatch \in Results /\ ~Mismatch.publish /\ Mismatch.reason # None
           /\ Partial(reason) \in Results /\ ~Partial(reason).publish /\ Partial(reason).reason # None
           /\ Missing(reason) \in Results /\ ~Missing(reason).publish /\ Missing(reason).reason # None
<1>1. /\ size \in 0 .. MaxBytes /\ one.bytes \in 0 .. MaxBytes /\ one.synced \in BOOLEAN
      /\ "FILE_INTEGRITY_MISMATCH" \in Reasons \ {None}
  BY Labels, RecordShapes DEF OneSegIInv, OneSegTypeOK, FilesTypeOK
<1>2. /\ Missing(reason) \in Results /\ ~Missing(reason).publish /\ Missing(reason).reason = reason
      /\ Missing("FILE_INTEGRITY_MISMATCH") \in Results /\ ~Missing("FILE_INTEGRITY_MISMATCH").publish
      /\ Missing("FILE_INTEGRITY_MISMATCH").reason = "FILE_INTEGRITY_MISMATCH"
  BY <1>1, MissingIs
<1> QED
  BY <1>1, <1>2 DEF Interrupted, Mismatch, Partial, Results

LEMMA RecoverFailedKeeps ==
    ASSUME OneSegAssumption, OneSegIInv, proc = "recovering",
           main # "FINALIZED" \/ month = "absent",
           NEW reason \in Reasons \ {None}, FinishUnsuccessful(Interrupted(reason)),
           Recovered, RecoverLocal, UNCHANGED <<fileVars, faults>>
    PROVE  OneSegIInv'
<1> DEFINE result == Interrupted(reason)
<1> USE AtRecovery, RecoveredFits
<1>1. result \in Results /\ ~result.publish /\ ResultFits(result)
  BY InterruptedIs DEF ResultFits
<1>2. /\ att' \in Attempts /\ att'.state = "FAILED" /\ one' = Outcome(result)
      /\ main' \in SegmentStates /\ main' # "FINALIZED"
  BY DEF FinishUnsuccessful, OneSegIInv, OneSegTypeOK, Attempts, Terminal, SegmentStates
<1> HIDE DEF result
<1>3. /\ one'.state = "PARTIAL" /\ RestartAcceptsRow' /\ one'.integrity # None
      /\ one'.avail \in {"PARTIAL", "MISSING", "MISMATCHED"}
  BY <1>1, <1>2, OutcomeStored DEF fileVars
<1>4. RowsFit'
  BY <1>2, <1>3 DEF RowsFit, TerminalSettlesBoth, OneSegSettled, Successful
<1>5. coord' \in Coordinators /\ coord' = coord /\ ~coord'.joined
  BY DEF RecoverLocal
<1> QED
  BY <1>1, <1>2, <1>4, <1>5, StoreKeeps DEF RecoverLocal, counters

LEMMA RecoverInterruptedKeeps ==
    ASSUME OneSegAssumption, OneSegIInv, RecoverInterrupted
    PROVE  OneSegIInv'
<1>1. main # "FINALIZED"
  BY DEF RecoverInterrupted, OneSegIInv, RowsFit
<1> QED
  BY <1>1, Labels, RecoverFailedKeeps DEF RecoverInterrupted, Recovering

LEMMA RecoverMainKeeps ==
    ASSUME OneSegAssumption, OneSegIInv, RecoverMain
    PROVE  OneSegIInv'
<1>1. proc = "recovering" /\ pc = "read" /\ att.state = "FINALIZING"
  BY DEF RecoverMain, Recovering
<1>2. CASE Recovered /\ \E reason \in MainFailures : FinishUnsuccessful(Interrupted(reason))
  <2>1. PICK reason \in MainFailures : FinishUnsuccessful(Interrupted(reason))
    BY <1>2
  <2>2. reason \in Reasons \ {None} /\ (main # "FINALIZED" \/ month = "absent")
    BY Labels DEF MainFailures
  <2> QED
    BY <1>1, <1>2, <2>1, <2>2, RecoverFailedKeeps DEF RecoverMain
<1>3. CASE main' = "FINALIZED" /\ UNCHANGED <<att, one>> /\ Goto("inspect") /\ UNCHANGED proc
  <2> USE <1>1, <1>3, AtRecovery DEF RecoverMain, RecoverLocal, Goto, fileVars, helperVars
  <2>1. OneSegTypeOK'
    BY DEF OneSegIInv, OneSegTypeOK, FilesTypeOK, Places, AfterRead, SegmentStates
  <2>2. ProcessFits' /\ HelperFits' /\ RowsFit'
    BY DEF OneSegIInv, ProcessFits, HelperFits, RowsFit, TerminalSettlesBoth, OneSegSettled, RestartAcceptsRow,
           AfterRead
  <2>3. OutcomesFit' /\ FilesFit'
    BY DEF OneSegIInv, OutcomesFit, OutcomeFits, ResultFits, SealedAs, FilesFit
  <2>4. PlaceFits'
    BY DEF PlaceFits, BeforeMain, AfterMain, AfterRead, LinkedPlaces, DurablePlaces
  <2> QED
    BY <2>1, <2>2, <2>3, <2>4 DEF OneSegIInv
<1> QED
  BY <1>2, <1>3 DEF RecoverMain

\* A step within the recovery of a completed main file.
LEMMA RecoveryMoves ==
    ASSUME OneSegAssumption, OneSegIInv, proc = "recovering", pc \in AfterRead, proc' = proc,
           RecoverLocal, UNCHANGED rows, faults' \in Nat, mem' \in Locals, pc' \in AfterRead,
           \/ UNCHANGED fileVars
           \/ LinkFinal \/ SyncDirectory \/ RemovePartial,
           pc' = "rsave" => mem'.save.reason # None,
           userOps = 0 => /\ pc' \in LinkedPlaces => dir'.final = "ours"
                          /\ pc' \in DurablePlaces => \A d \in crashDirs' : d.final = "ours"
    PROVE  OneSegIInv'
<1> USE AtRecovery
<1>1. PlaceFits'
  BY DEF RecoverLocal, helperVars, rows, PlaceFits, BeforeMain, AfterMain, AfterRead
<1>2. ProcessFits' /\ pc' \in Places
  BY DEF RecoverLocal, helperVars, ProcessFits, Places
<1>3. CASE UNCHANGED fileVars
  BY <1>1, <1>2, <1>3, MoveKeeps DEF RecoverLocal
<1>4. CASE LinkFinal \/ SyncDirectory \/ RemovePartial
  <2>1. FilesFit'
    BY <1>4, DirectoryFits DEF RecoverLocal
  <2> QED
    BY <1>1, <1>2, <1>4, <2>1, DirectorySteps, NamesKeep DEF RecoverLocal
<1> QED
  BY <1>3, <1>4

LEMMA SaveMoves ==
    ASSUME OneSegAssumption, OneSegIInv, proc = "recovering", pc \in AfterRead, proc' = proc,
           RecoverLocal, UNCHANGED <<rows, fileVars>>, faults' \in Nat,
           NEW result \in Results, result.reason # None, Save(result)
    PROVE  OneSegIInv'
<1>1. mem' \in Locals /\ mem'.save = result /\ pc' = "rsave"
  BY AtRecovery DEF Save, Locals
<1> QED
  BY <1>1, RecoveryMoves DEF AfterRead, LinkedPlaces, DurablePlaces

\* What a settled row is saved as has a reason, until the file is final.
LEMMA SettledIs ==
    ASSUME OneSegAssumption, OneSegIInv
    PROVE  /\ SettledOutcome.bytes \in 0 .. MaxBytes /\ SettledOutcome.reason \in Reasons
           /\ SettledOutcome.avail \in {"FINAL", "PARTIAL", "MISSING", "MISMATCHED"}
           /\ SettledOutcome.avail = "FINAL" => one.state = "FINALIZED" /\ SettledOutcome.reason = None
           /\ SettledOutcome.avail = "PARTIAL" => one.state # "FINALIZED"
           /\ SettledOutcome.avail # "FINAL" /\ one.integrity # None => SettledOutcome.reason # None
           /\ one.state = "FINALIZED" /\ SettledOutcome.avail # "FINAL" => SettledOutcome.reason # None
<1>1. one.bytes \in 0 .. MaxBytes /\ 0 \in 0 .. MaxBytes /\ one.integrity \in Reasons
  BY RecordShapes DEF OneSegAssumption
<1>2. {None, "FILE_MISSING", "FILE_INTEGRITY_MISMATCH"} \subseteq Reasons
      /\ "FILE_MISSING" # None /\ "FILE_INTEGRITY_MISMATCH" # None
  BY Labels
<1> QED
  BY <1>1, <1>2 DEF SettledOutcome

LEMMA InspectKeeps ==
    ASSUME OneSegAssumption, OneSegIInv, Inspect
    PROVE  OneSegIInv'
<1>1. /\ proc = "recovering" /\ pc = "inspect" /\ pc \in AfterRead /\ proc' = proc /\ RecoverLocal
      /\ UNCHANGED <<rows, fileVars, faults>> /\ faults' \in Nat /\ mem \in Locals
      /\ main = "FINALIZED" /\ att.state = "FINALIZING"
  BY AtRecovery DEF Inspect, Recovering, AfterRead
<1>2. userOps = 0 /\ FinalExists => dir.final = "ours"
  BY DEF OneSegIInv, OneSegTypeOK, FilesTypeOK, Directories, Owners, FilesFit, FinalExists
<1>3. ASSUME NEW result \in {Mismatch, Missing("FILE_MISSING"), Interrupted("PROCESS_INTERRUPTED")},
             Save(result)
      PROVE  OneSegIInv'
  <2>1. result \in Results /\ result.reason # None
    BY <1>3, Labels, InterruptedIs
  <2> QED
    BY <1>1, <1>3, <2>1, SaveMoves
<1>4. CASE Goto("rfinish") \/ Goto("rlink")
  <2>1. pc' \in AfterRead /\ pc' \notin LinkedPlaces /\ pc' \notin DurablePlaces /\ pc' # "rsave" /\ mem' = mem
    BY <1>4 DEF Goto, AfterRead, LinkedPlaces, DurablePlaces
  <2> QED
    BY <1>1, <2>1, RecoveryMoves
<1>5. ASSUME NEW label \in {"rsync1", "rmark"}, pc' = label, FinalExists,
             NEW remove \in BOOLEAN, mem' = [mem EXCEPT !.remove = remove]
      PROVE  OneSegIInv'
  <2>1. mem' \in Locals
    BY <1>1, <1>5 DEF Locals
  <2>2. pc' \in AfterRead /\ pc' \notin DurablePlaces /\ pc' # "rsave"
    BY <1>5 DEF AfterRead, DurablePlaces
  <2> QED
    BY <1>1, <1>2, <1>5, <2>1, <2>2, RecoveryMoves DEF fileVars
<1>6. CASE /\ one.integrity # None /\ ~(one.state = "FINALIZED" /\ one.avail = "FINAL")
           /\ Save([bytes |-> SettledOutcome.bytes, avail |-> SettledOutcome.avail,
                    reason |-> SettledOutcome.reason, synced |-> one.synced, publish |-> FALSE])
  <2> DEFINE result == [bytes |-> SettledOutcome.bytes, avail |-> SettledOutcome.avail,
                        reason |-> SettledOutcome.reason, synced |-> one.synced, publish |-> FALSE]
  <2>1. one.state # "FINALIZED"
    BY <1>1, <1>6 DEF OneSegIInv, RowsFit, Terminal, Successful
  <2>2. result \in Results /\ result.reason # None
    BY <1>6, <2>1, SettledIs, RecordShapes DEF Results
  <2> HIDE DEF result
  <2> QED
    BY <1>1, <1>6, <2>2, SaveMoves DEF result
<1>7. SameFile => FinalExists /\ dir.partial
  BY DEF SameFile, FinalExists
<1>8. Linked => FinalExists /\ dir.partial \in BOOLEAN
  BY <1>7 DEF Linked, OneSegIInv, OneSegTypeOK, FilesTypeOK, Directories
<1> QED
  BY <1>3, <1>4, <1>5, <1>6, <1>7, <1>8 DEF Inspect

LEMMA RecoverLinkKeeps ==
    ASSUME OneSegAssumption, OneSegIInv, RecoverLink
    PROVE  OneSegIInv'
<1>1. /\ proc = "recovering" /\ pc \in AfterRead /\ proc' = proc /\ RecoverLocal /\ UNCHANGED rows
      /\ faults \in Nat /\ mem \in Locals
  BY AtRecovery DEF RecoverLink, Recovering, AfterRead
<1>2. CASE LinkFinal /\ pc' = "rmark" /\ mem' = [mem EXCEPT !.remove = TRUE] /\ UNCHANGED faults
  <2>1. mem' \in Locals /\ pc' \in AfterRead /\ pc' \notin DurablePlaces /\ pc' # "rsave"
    BY <1>1, <1>2 DEF Locals, AfterRead, DurablePlaces
  <2> QED
    BY <1>1, <1>2, <2>1, DirectorySteps, RecoveryMoves
<1>3. CASE /\ UNCHANGED <<fileVars, faults>>
           /\ Save([Mismatch EXCEPT !.reason = "FINAL_NAME_CONFLICT", !.synced = one.synced])
  <2>1. [Mismatch EXCEPT !.reason = "FINAL_NAME_CONFLICT", !.synced = one.synced] \in Results
        /\ [Mismatch EXCEPT !.reason = "FINAL_NAME_CONFLICT", !.synced = one.synced].reason # None
    BY Labels, InterruptedIs, RecordShapes DEF Results
  <2> QED
    BY <1>1, <1>3, <2>1, SaveMoves
<1>4. CASE Fault /\ Save(Partial("FINAL_PUBLICATION_FAILED")) /\ UNCHANGED fileVars
  BY <1>1, <1>4, Labels, InterruptedIs, SaveMoves DEF Fault
<1> QED
  BY <1>2, <1>3, <1>4 DEF RecoverLink

LEMMA RecoverMarkKeeps ==
    ASSUME OneSegAssumption, OneSegIInv, RecoverMark
    PROVE  OneSegIInv'
<1>1. proc = "recovering" /\ pc = "rmark" /\ pc \in AfterRead /\ RecoverLocal /\ Goto("rsync1")
      /\ MarkFinalPublished /\ UNCHANGED <<fileVars, proc, faults>>
  BY DEF RecoverMark, Recovering, AfterRead
<1> USE AtRecovery
<1>2. PlaceFits'
  BY <1>1 DEF MarkFinalPublished, Goto, RecoverLocal, helperVars, fileVars, OneSegIInv, PlaceFits, BeforeMain,
              AfterMain, AfterRead, LinkedPlaces, DurablePlaces
<1>3. ProcessFits' /\ pc' \in Places
  BY <1>1 DEF Goto, RecoverLocal, helperVars, ProcessFits, AfterRead, Places
<1> QED
  BY <1>1, <1>2, <1>3, FlagKeeps DEF Goto, RecoverLocal, counters

LEMMA RecoverFilesKeeps ==
    ASSUME OneSegAssumption, OneSegIInv, RecoverFiles
    PROVE  OneSegIInv'
<1>1. /\ proc = "recovering" /\ pc \in {"rsync1", "rsync2", "rremove"} /\ pc \in AfterRead /\ proc' = proc
      /\ RecoverLocal /\ UNCHANGED rows /\ faults \in Nat /\ mem \in Locals
  BY AtRecovery DEF RecoverFiles, Recovering, AfterRead
<1>2. /\ userOps = 0 => dir.final = "ours"
      /\ userOps = 0 /\ pc = "rremove" => \A d \in crashDirs : d.final = "ours"
  BY <1>1 DEF OneSegIInv, PlaceFits, LinkedPlaces, DurablePlaces
<1>3. ASSUME SyncDirectory, NEW label \in {"rremove", "rfinish", "rdir"}, Goto(label), UNCHANGED faults
      PROVE  OneSegIInv'
  <2>1. pc' \in AfterRead /\ pc' # "rsave" /\ mem' = mem
    BY <1>3 DEF Goto, AfterRead
  <2> QED
    BY <1>1, <1>2, <1>3, <2>1, DirectorySteps, RecoveryMoves
<1>4. CASE pc = "rremove" /\ RemovePartial /\ Goto("rsync2") /\ UNCHANGED faults
  <2>1. pc' \in AfterRead /\ pc' # "rsave" /\ mem' = mem
    BY <1>4 DEF Goto, AfterRead
  <2> QED
    BY <1>1, <1>2, <1>4, <2>1, DirectorySteps, RecoveryMoves
<1>5. ASSUME NEW reason \in {"FILE_SYNC_FAILED", "FINAL_PUBLICATION_FAILED"}, Save(Partial(reason)),
             UNCHANGED fileVars, Fault \/ UNCHANGED faults
      PROVE  OneSegIInv'
  BY <1>1, <1>5, Labels, InterruptedIs, SaveMoves DEF Fault
<1> QED
  BY <1>3, <1>4, <1>5 DEF RecoverFiles, Recovering

LEMMA RecoverStoreKeeps ==
    ASSUME OneSegAssumption, OneSegIInv, RecoverStore
    PROVE  OneSegIInv'
<1>1. /\ proc = "recovering" /\ pc \in {"rdir", "rsave"} /\ pc \in AfterRead /\ RecoverLocal /\ Goto("rfinish")
      /\ UNCHANGED <<fileVars, proc, faults>>
  BY DEF RecoverStore, Recovering, AfterRead
<1> USE AtRecovery
<1>2. UNCHANGED <<att, main>>
  BY DEF RecoverStore, MarkDirectorySynced, SetOneSegOutcome
<1>3. PlaceFits'
  BY <1>1, <1>2 DEF Goto, RecoverLocal, helperVars, PlaceFits, BeforeMain, AfterMain, AfterRead, LinkedPlaces,
                    DurablePlaces
<1>4. ProcessFits' /\ pc' \in Places
  BY <1>1 DEF Goto, RecoverLocal, helperVars, ProcessFits, AfterRead, Places
<1>5. CASE pc = "rdir" /\ MarkDirectorySynced
  <2>1. userOps = 0 => \A d \in crashDirs \cup {dir} : d.final = "ours"
    BY <1>5 DEF OneSegIInv, PlaceFits, LinkedPlaces, DurablePlaces
  <2> QED
    BY <1>1, <1>3, <1>4, <1>5, <2>1, FlagKeeps DEF Goto, RecoverLocal, counters
<1>6. CASE pc = "rsave" /\ SetOneSegOutcome(mem.save)
  <2>1. mem.save \in Results /\ ResultFits(mem.save) /\ ~mem.save.publish /\ one' = Outcome(mem.save)
    BY <1>6, RecordShapes DEF OneSegIInv, PlaceFits, SetOneSegOutcome, ResultFits
  <2>2. one'.state = "PARTIAL" /\ RestartAcceptsRow'
    BY <1>1, <2>1, OutcomeStored DEF fileVars
  <2>3. RowsFit'
    BY <1>1, <1>2, <2>2 DEF RowsFit, TerminalSettlesBoth, Terminal, Successful
  <2>4. coord' \in Coordinators /\ coord' = coord /\ ~coord'.joined
    BY <1>1 DEF RecoverLocal
  <2>5. att' \in Attempts /\ main' \in SegmentStates /\ proc' \in {"up", "recovering", "down"} /\ mem' \in Locals
    BY <1>1, <1>2 DEF OneSegIInv, OneSegTypeOK, Goto
  <2> QED
    BY <1>1, <1>2, <1>3, <1>4, <2>1, <2>3, <2>4, <2>5, StoreKeeps DEF RecoverLocal, counters
<1> QED
  BY <1>5, <1>6 DEF RecoverStore, Recovering

LEMMA RecoverFinishKeeps ==
    ASSUME OneSegAssumption, OneSegIInv, RecoverFinish
    PROVE  OneSegIInv'
<1>1. proc = "recovering" /\ Recovered /\ RecoverLocal /\ FinishSuccessful /\ UNCHANGED <<fileVars, faults>>
  BY DEF RecoverFinish, Recovering
<1> USE <1>1, RecoveredFits DEF RecoverLocal, Recovered, fileVars, helperVars
<1>2. att' \in Attempts /\ att'.state \in Successful
  BY DEF FinishSuccessful, PlannedState, OneSegIInv, OneSegTypeOK, Attempts, Successful, Terminal
<1>3. OneSegTypeOK'
  BY <1>2 DEF FinishSuccessful, OneSegIInv, OneSegTypeOK, FilesTypeOK
<1>4. HelperFits'
  BY AtRecovery DEF FinishSuccessful, OneSegIInv, HelperFits
<1>5. RowsFit'
  BY <1>2 DEF FinishSuccessful, OneSegIInv, RowsFit, TerminalSettlesBoth, OneSegSettled, RestartAcceptsRow,
              Successful, Terminal
<1>6. OutcomesFit' /\ FilesFit'
  BY DEF FinishSuccessful, OneSegIInv, OutcomesFit, OutcomeFits, ResultFits, SealedAs, FilesFit
<1> QED
  BY <1>3, <1>4, <1>5, <1>6 DEF OneSegIInv

\* An availability that is stored for a settled row keeps the row settled.
LEMMA RecoverSettledKeeps ==
    ASSUME OneSegAssumption, OneSegIInv, RecoverSettled
    PROVE  OneSegIInv'
<1>1. proc = "recovering" /\ Recovered /\ RecoverLocal /\ att.state \in Successful
      /\ UNCHANGED <<att, main, fileVars, faults>>
  BY DEF RecoverSettled, Recovering
<1> USE <1>1, RecoveredFits DEF RecoverLocal, Recovered, fileVars, helperVars
<1>2. /\ one' \in Segments /\ one'.state = one.state /\ one'.bytes = one.bytes /\ one'.synced = one.synced
      /\ one'.published = one.published /\ one'.dirSynced = one.dirSynced
      /\ \/ one' = one
         \/ one'.avail = SettledOutcome.avail /\ one'.integrity = SettledOutcome.reason
  BY SettledIs DEF RecoverSettled, OneSegIInv, OneSegTypeOK, Segments
<1>3. att.state \in Terminal /\ main = "FINALIZED" /\ OneSegSettled /\ RestartAcceptsRow
  BY DEF OneSegIInv, RowsFit, TerminalSettlesBoth, Terminal
<1>4. CASE one' = one
  <2>1. OneSegTypeOK' /\ HelperFits' /\ RowsFit'
    BY <1>4, AtRecovery DEF OneSegIInv, OneSegTypeOK, FilesTypeOK, HelperFits, RowsFit, TerminalSettlesBoth,
                            OneSegSettled, RestartAcceptsRow
  <2>2. OutcomesFit' /\ FilesFit'
    BY <1>4 DEF OneSegIInv, OutcomesFit, OutcomeFits, ResultFits, SealedAs, FilesFit
  <2> QED
    BY <2>1, <2>2 DEF OneSegIInv
<1>5. CASE one'.avail = SettledOutcome.avail /\ one'.integrity = SettledOutcome.reason
  <2>1. /\ one.state = "FINALIZED" => one.synced /\ one.published /\ one.dirSynced
        /\ one.state \in {"PARTIAL", "FINALIZED"} /\ (one.state = "PARTIAL" => one.integrity # None)
    BY <1>3 DEF OneSegSettled, OneSegIInv, RowsFit
  <2>2. /\ one'.avail \in {"FINAL", "PARTIAL", "MISSING", "MISMATCHED"}
        /\ one'.avail = "FINAL" => one'.state = "FINALIZED" /\ one'.integrity = None
        /\ one'.avail # "FINAL" => one'.integrity # None
    BY <1>2, <1>5, <2>1, SettledIs
  <2>3. OneSegTypeOK' /\ HelperFits'
    BY <1>2, AtRecovery DEF OneSegIInv, OneSegTypeOK, FilesTypeOK, HelperFits
  <2>4. OneSegSettled' /\ RestartAcceptsRow'
    BY <1>2, <1>3, <2>1, <2>2 DEF OneSegSettled, RestartAcceptsRow
  <2>5. RowsFit'
    BY <1>2, <1>3, <2>1, <2>4 DEF OneSegIInv, RowsFit, TerminalSettlesBoth, Terminal
  <2>6. OutcomesFit'
    BY <1>2, <2>1, <2>2, AtRecovery, DownFits DEF OneSegIInv, OutcomesFit, SealedAs
  <2>7. FilesFit'
    BY <1>2 DEF OneSegIInv, FilesFit
  <2> QED
    BY <2>3, <2>5, <2>6, <2>7 DEF OneSegIInv
<1> QED
  BY <1>2, <1>4, <1>5

LEMMA RecoveryKeeps ==
    ASSUME OneSegAssumption, OneSegIInv, Recovery
    PROVE  OneSegIInv'
BY RecoverNothingKeeps, RecoverInterruptedKeeps, RecoverMainKeeps, InspectKeeps, RecoverLinkKeeps, RecoverMarkKeeps,
   RecoverFilesKeeps, RecoverStoreKeeps, RecoverFinishKeeps, RecoverSettledKeeps DEF Recovery

LEMMA RecorderKeeps ==
    ASSUME OneSegAssumption, OneSegIInv, Recorder
    PROVE  OneSegIInv'
BY RecordingStartedKeeps, FailBeforeKeeps, StopRecordingKeeps, PublishChecksKeeps, JoinKeeps, JoinWaitKeeps,
   BeginFinalizationKeeps, PublishMainKeeps, LinkKeeps, MarkKeeps, PublishFilesKeeps, SavePublishFailureKeeps,
   FinishKeeps, CloseKeeps DEF Recorder
-----------------------------------------------------------------------------
(* The theorems.                                                           *)

\* Both beginnings: a recording just claimed, and what an older version left.
LEMMA InitFits ==
    ASSUME OneSegAssumption, Init
    PROVE  OneSegIInv
<1>1. /\ mem \in Locals /\ cancelled \in BOOLEAN /\ coord \in Coordinators /\ aux \in Helpers /\ done \in Results
      /\ crashes \in Nat /\ faults \in Nat /\ userOps \in Nat
      /\ coord = NoCoord /\ aux = NoAux /\ done = NoResult /\ ~coord.started /\ ~coord.joined
      /\ aux.pc = "none" /\ aux.conn = 0
  BY DownFits DEF Init
<1>2. PlannedRow \in Segments /\ None \in Reasons /\ "COMPLETED" \in Reasons /\ "COMPLETED" # None
  BY Labels DEF PlannedRow, Segments, SegmentStates, OneSegAssumption
<1>3. CASE FreshInit
  <2> USE <1>1, <1>2, <1>3 DEF FreshInit, FilesInit
  <2>1. OneSegTypeOK
    BY DEF OneSegTypeOK, Attempts, SegmentStates, FilesTypeOK, Directories, Owners, EmptyDirectory, Places,
           BeforeMain, OneSegAssumption
  <2>2. ProcessFits /\ HelperFits
    BY DEF ProcessFits, HelperFits, Ended, BeforeMain
  <2>3. RowsFit
    BY DEF RowsFit, TerminalSettlesBoth, RestartAcceptsRow, PlannedRow, Terminal, Successful
  <2>4. OutcomesFit /\ FilesFit
    BY DEF OutcomesFit, FilesFit, PlannedRow, EmptyDirectory
  <2>5. PlaceFits
    BY DEF PlaceFits, BeforeMain, AfterMain, AfterRead, LinkedPlaces, DurablePlaces
  <2> QED
    BY <2>1, <2>2, <2>3, <2>4, <2>5 DEF OneSegIInv
<1>4. CASE LegacyInit
  <2>1. PICK published \in BOOLEAN :
          one = [PlannedRow EXCEPT !.state = "PARTIAL", !.bytes = Packet, !.synced = TRUE,
                                   !.avail = "PARTIAL", !.published = published]
    BY <1>4 DEF LegacyInit
  <2>2. /\ one \in Segments /\ one.state = "PARTIAL" /\ one.bytes = Packet /\ one.synced
        /\ one.avail = "PARTIAL" /\ ~one.dirSynced /\ one.integrity = None
    <3>1. one = [state |-> "PARTIAL", bytes |-> Packet, synced |-> TRUE, published |-> published,
                 dirSynced |-> FALSE, avail |-> "PARTIAL", integrity |-> None]
      BY <2>1 DEF PlannedRow
    <3>2. Packet \in 0 .. MaxBytes
      BY DEF OneSegAssumption
    <3> QED
      BY <1>2, <3>1, <3>2 DEF Segments, SegmentStates
  <2> USE <1>1, <1>2, <1>4, <2>2 DEF LegacyInit
  <2>3. OneSegTypeOK
    BY DEF OneSegTypeOK, Attempts, SegmentStates, FilesTypeOK, Directories, Owners, Months, Places, OneSegAssumption
  <2>4. ProcessFits /\ HelperFits
    BY DEF ProcessFits, HelperFits, Ended
  <2>5. RowsFit
    BY DEF RowsFit, TerminalSettlesBoth, RestartAcceptsRow, Terminal, Successful
  <2>6. OutcomesFit /\ FilesFit
    BY DEF OutcomesFit, SealedAs, Useful, FilesFit, OneSegAssumption
  <2>7. PlaceFits
    BY DEF PlaceFits, Ended, BeforeMain, AfterMain, AfterRead, LinkedPlaces, DurablePlaces
  <2> QED
    BY <2>3, <2>4, <2>5, <2>6, <2>7 DEF OneSegIInv
<1> QED
  BY <1>3, <1>4 DEF Init

\* The inductive invariant of the one-seg recording: where the goroutine, the
\* helper and the recovery are, what the row says, and what the disk holds.
THEOREM OneSegInductive ==
    ASSUME OneSegAssumption
    PROVE  OneSegSpec => []OneSegIInv
<1>1. Init => OneSegIInv
  BY InitFits
<1>2. OneSegIInv /\ [OneSegNext]_vars => OneSegIInv'
  <2> SUFFICES ASSUME OneSegIInv, [OneSegNext]_vars
               PROVE  OneSegIInv'
    OBVIOUS
  <2>1. CASE UNCHANGED vars
    <3> USE <2>1 DEF vars, rows, fileVars, helperVars, counters
    <3>1. OneSegTypeOK'
      BY DEF OneSegIInv, OneSegTypeOK, FilesTypeOK
    <3>2. ProcessFits' /\ HelperFits' /\ RowsFit'
      BY DEF OneSegIInv, ProcessFits, HelperFits, RowsFit, TerminalSettlesBoth, OneSegSettled, RestartAcceptsRow
    <3>3. OutcomesFit' /\ FilesFit'
      BY DEF OneSegIInv, OutcomesFit, OutcomeFits, ResultFits, SealedAs, FilesFit
    <3>4. PlaceFits'
      BY DEF OneSegIInv, PlaceFits, OutcomeFits, ResultFits, SealedAs
    <3> QED
      BY <3>1, <3>2, <3>3, <3>4 DEF OneSegIInv
  <2> QED
    BY <2>1, RecorderKeeps, HelperStepKeeps, RequestsKeep, ChangeFinalNameKeeps, EndsKeep, RestartKeeps, RecoveryKeeps
       DEF OneSegNext
<1> QED
  BY <1>1, <1>2, PTL DEF OneSegSpec

\* What a recording with a one-seg output promises in every state: the one-seg
\* file is published only after the main one; the attempt ends only after the
\* helper has closed its stream and file, and leaves no one-seg row open; a row
\* that says final tells the truth, also after a power loss; and every stored
\* row is one that validateRecoverySegment accepts.
THEOREM OneSegFollows ==
    ASSUME OneSegAssumption
    PROVE  OneSegSpec => [](/\ PublishedAfterMain /\ HelperJoinedFirst /\ TerminalSettlesBoth
                            /\ FinalOneSegDurable /\ RestartAcceptsRow)
<1>1. OneSegIInv => /\ PublishedAfterMain /\ HelperJoinedFirst /\ TerminalSettlesBoth
                    /\ FinalOneSegDurable /\ RestartAcceptsRow
  <2> SUFFICES ASSUME OneSegIInv
               PROVE  /\ PublishedAfterMain /\ HelperJoinedFirst /\ TerminalSettlesBoth
                      /\ FinalOneSegDurable /\ RestartAcceptsRow
    OBVIOUS
  <2>1. PublishedAfterMain
    BY DEF OneSegIInv, FilesFit, PublishedAfterMain
  <2>2. HelperJoinedFirst
    BY WhileHelping DEF HelperJoinedFirst, Terminal, Successful
  <2>3. TerminalSettlesBoth /\ RestartAcceptsRow
    BY DEF OneSegIInv, RowsFit
  <2>4. FinalOneSegDurable
    BY <2>3 DEF OneSegIInv, OutcomesFit, FilesFit, SealedAs, RestartAcceptsRow, FinalOneSegDurable
  <2> QED
    BY <2>1, <2>2, <2>3, <2>4
<1> QED
  BY <1>1, OneSegInductive, PTL

\* Only the main file's own end and the recovery write its row, and the attempt
\* ends as BeginFinalization planned once that file is completed (OSG-017).
THEOREM MainFileStands ==
    ASSUME OneSegAssumption
    PROVE  OneSegSpec => MainStands
<1>1. OneSegIInv /\ [OneSegNext]_vars => [MainKept]_vars
  <2> SUFFICES ASSUME OneSegIInv, OneSegNext, main = "FINALIZED", month # "absent"
               PROVE  main' = "FINALIZED" /\ att'.state \in {att.state, PlannedState}
    BY DEF MainKept
  <2>1. pc \notin BeforeMain /\ att.state \notin {"STARTING", "RECORDING"}
    BY DEF OneSegIInv, PlaceFits, RowsFit
  <2>2. CASE Recorder
    BY <2>1, <2>2 DEF Recorder, RecordingStarted, FailBefore, StopRecording, PublishChecks, Join, JoinWait,
       BeginFinalization, PublishMain, Link, Mark, PublishFiles, SavePublishFailure, Finish, CloseCancel,
       CloseWait, BeforeMain, MainOnly, Abort, rows, MarkFinalPublished, MarkDirectorySynced, SetOneSegOutcome,
       FinishSuccessful, OneSegIInv, OneSegTypeOK, Attempts
  <2>3. CASE Helper
    BY <2>3 DEF Helper, HelperCreate, HelperLoop, HelperOpen, HelperFirst, HelperCopy, HelperRetry, HelperSave,
       HelperSeal, HelperLocal, HelperOnly
  <2>4. CASE RequestStop \/ Cancel \/ ChangeFinalName \/ Crash \/ Exit \/ Restart \/ RecoveryFails
    BY <2>1, <2>4 DEF RequestStop, Cancel, ChangeFinalName, Crash, Exit, Restart, RecoveryFails, rows
  <2>5. CASE Recovery
    BY <2>1, <2>5 DEF Recovery, RecoverNothing, RecoverInterrupted, RecoverMain, MainFailures, Inspect, RecoverLink,
       RecoverMark, RecoverFiles, RecoverStore, RecoverFinish, RecoverSettled, rows, MarkFinalPublished,
       MarkDirectorySynced, SetOneSegOutcome, FinishSuccessful, OneSegIInv, OneSegTypeOK, Attempts
  <2> QED
    BY <2>2, <2>3, <2>4, <2>5 DEF OneSegNext
<1> QED
  BY <1>1, OneSegInductive, PTL DEF OneSegSpec, MainStands

\* Recovery.Run returns without an error only with the attempt terminal.
THEOREM StartSettlesAttempt ==
    ASSUME OneSegAssumption
    PROVE  OneSegSpec => StartSettles
<1>1. OneSegIInv /\ [OneSegNext]_vars => [StartIsSettled]_vars
  <2> SUFFICES ASSUME OneSegIInv, OneSegNext, proc = "recovering", proc' = "up"
               PROVE  att'.state \in Terminal
    BY DEF StartIsSettled
  <2>1. pc \in AfterRead \cup {"read"} /\ aux.pc = "none"
    BY DEF OneSegIInv, ProcessFits, NoAux
  <2>2. att'.state \in Successful \cup {"FAILED"} \/ ~Recovery
    BY DEF Recovery, RecoverNothing, RecoverInterrupted, RecoverMain, Inspect, RecoverLink,
       RecoverMark, RecoverFiles, RecoverStore, RecoverFinish, RecoverSettled, rows, FinishUnsuccessful,
       FinishSuccessful, PlannedState, Successful, OneSegIInv, OneSegTypeOK, Attempts
  <2>3. ~Recorder
    BY <2>1 DEF AfterRead, Recorder, RecordingStarted, FailBefore, StopRecording, PublishChecks, Join, JoinWait,
       BeginFinalization, PublishMain, Link, Mark, PublishFiles, SavePublishFailure, Finish, CloseCancel, CloseWait
  <2>4. ~Helper
    BY <2>1 DEF Helper, HelperCreate, HelperLoop, HelperOpen, HelperFirst, HelperCopy, HelperRetry, HelperSave,
       HelperSeal
  <2>5. ~(RequestStop \/ Cancel \/ ChangeFinalName \/ Crash \/ Exit \/ Restart \/ RecoveryFails)
    BY DEF RequestStop, Cancel, ChangeFinalName, Crash, Exit, Restart, RecoveryFails, GoDown
  <2> QED
    BY <2>2, <2>3, <2>4, <2>5 DEF OneSegNext, Terminal
<1> QED
  BY <1>1, OneSegInductive, PTL DEF OneSegSpec, StartSettles
=============================================================================
