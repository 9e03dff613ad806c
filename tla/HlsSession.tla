----------------------------- MODULE HlsSession -----------------------------
(***************************************************************************)
(* The HLS sessions of internal/adapters/recordinghttp/hls_session.go: two *)
(* screens (slots), each with a selection that expires and at most one     *)
(* session; a worker goroutine per session; timers whose callbacks may     *)
(* already be running when they are stopped; and close, which waits for    *)
(* all of them.  A slot's lock is held over a whole select or start, and   *)
(* over close's clearing of it; the controller's lock for one step.        *)
(* The live manager is seen through the one use it keeps per network id.   *)
(***************************************************************************)
EXTENDS Naturals, FiniteSets

CONSTANTS
    Slots,          \* hlsSessionSlots
    Keys,           \* HLS keys the clients use
    MaxSelections,  \* bound on the selections ever made on a slot
    MaxTouches      \* bound on the playlists and segments read in a session

HlsAssumption ==
    /\ Slots \subseteq Nat /\ IsFiniteSet(Slots) /\ IsFiniteSet(Keys)
    /\ MaxSelections \in Nat /\ MaxTouches \in Nat
    /\ {"none", "selected"} \cap Keys = {}

VARIABLES
    slot,       \* controller.slots
    busy,       \* who holds slot.mu, and where it is
    sess,       \* the session of each key
    live,       \* the use the live manager has for the slot's network id
    firing,     \* selections whose expiry callback is running
    keys,       \* controller.keys, the keys ever used
    sessions,   \* controller.sessions
    closed,     \* controller.closed
    closing,    \* where close is, and the sessions it captured
    stopped     \* the service context is cancelled

sessionVars == <<slot, busy, sess, live, firing, keys, sessions, closed, closing, stopped>>

NoSession == "none"
Free == [op |-> "none", at |-> "none", key |-> NoSession]
EmptySlot == [made |-> 0, selection |-> 0, session |-> NoSession]

\* A session: where its start or its worker is, the flags under its lock, its
\* stream, and its timers.  silent: nothing was read since the idle timer fired.
Fresh == [at |-> "none", slot |-> 0, stopping |-> FALSE, cancelled |-> FALSE, stream |-> FALSE,
          terminal |-> FALSE, epoch |-> 0, idle |-> FALSE, idleFiring |-> {}, idleWaits |-> FALSE,
          silent |-> FALSE, life |-> "none", kept |-> FALSE, retention |-> FALSE]

Places == {"none", "opening", "opened", "listed", "running", "copied", "ended", "finished", "done",
           "dropped"}

SessionRecords ==
    [at : Places, slot : Slots \cup {0}, stopping : BOOLEAN, cancelled : BOOLEAN, stream : BOOLEAN,
     terminal : BOOLEAN, epoch : 0 .. MaxTouches + 1, idle : BOOLEAN, idleFiring : SUBSET Nat,
     idleWaits : BOOLEAN, silent : BOOLEAN, life : {"none", "armed", "firing"}, kept : BOOLEAN,
     retention : BOOLEAN]
StartPlaces == {"reserving", "begin", "opening", "opened", "listed"}
SelectPlaces == {"selecting", "selected", "remembered"}

SlotRecords == [made : 0 .. MaxSelections, selection : 0 .. MaxSelections,
                session : Keys \cup {NoSession}]
BusyRecords == [op : {"none", "select", "start", "close"},
                at : {"none", "stopping"} \cup StartPlaces \cup SelectPlaces,
                key : Keys \cup {NoSession}]

SessionTypeOK ==
    /\ slot \in [Slots -> SlotRecords] /\ busy \in [Slots -> BusyRecords]
    /\ sess \in [Keys -> SessionRecords]
    /\ live \in [Slots -> Keys \cup {"none", "selected"}]
    /\ firing \in SUBSET (Slots \X (1 .. MaxSelections))
    /\ keys \in SUBSET Keys /\ sessions \in SUBSET keys /\ closed \in BOOLEAN /\ stopped \in BOOLEAN

SessionInit ==
    /\ slot = [s \in Slots |-> EmptySlot]
    /\ busy = [s \in Slots |-> Free]
    /\ sess = [k \in Keys |-> Fresh]
    /\ live = [s \in Slots |-> "none"]
    /\ firing = {} /\ keys = {} /\ sessions = {}
    /\ closed = FALSE /\ stopped = FALSE
    /\ closing = [at |-> "none", left |-> Slots, captured |-> {}]

-----------------------------------------------------------------------------
(* The live manager and the streams.                                       *)

\* The worker's context, which the service context is the parent of.
Ended(k) == sess[k].cancelled \/ stopped

\* live.Close of a network id: the use goes, and a stream of it is cancelled.
LiveClosed(s) == [live EXCEPT ![s] = "none"]

\* Its stream gives the use back only if it still has it (relay.Close).
StreamGone(k) == [s \in Slots |-> IF live[s] = k THEN "none" ELSE live[s]]

\* The manager's own selection may expire before this one does.
LiveExpires(s) ==
    /\ live[s] = "selected"
    /\ live' = LiveClosed(s)
    /\ UNCHANGED <<slot, busy, sess, firing, keys, sessions, closed, closing, stopped>>

-----------------------------------------------------------------------------
(* Stopping a session: by a replacement, a timer or close.                 *)

\* stop and stopIdle up to the wait for done: mark it once, cancel, close the
\* stream (once).
Stop(k) == [sess EXCEPT ![k].stopping = @ \/ ~sess[k].terminal,
                        ![k].cancelled = @ \/ ~sess[k].terminal,
                        ![k].stream = FALSE]

\* The wait of stop is over: the worker has closed done.
Over(k) == sess[k].at = "done"

\* clearSlotLocked, but for the session's stop, which comes first.
Cleared(s) ==
    /\ slot' = [slot EXCEPT ![s].selection = 0, ![s].session = NoSession]
    /\ live' = IF slot[s].selection # 0 \/ slot[s].session # NoSession
               THEN LiveClosed(s) ELSE live

\* A lock holder whose slot has a session stops it and waits for done.
StopSession(s, op, k) ==
    /\ busy' = [busy EXCEPT ![s] = [op |-> op, at |-> "stopping", key |-> k]]
    /\ sess' = Stop(slot[s].session)
    /\ live' = StreamGone(slot[s].session)
    /\ UNCHANGED <<slot, firing, keys, sessions, closed, closing, stopped>>

\* The request is over: the lock is released.
Return(s) == busy' = [busy EXCEPT ![s] = Free]
GoTo(s, label) == busy' = [busy EXCEPT ![s].at = label]
At(s, op, label) == busy[s].op = op /\ busy[s].at = label
Kept == UNCHANGED <<firing, keys, sessions, closed, closing, stopped>>

-----------------------------------------------------------------------------
(* selectLive.                                                             *)

SelectStart(s) ==
    /\ busy[s] = Free /\ ~closed
    /\ IF slot[s].session # NoSession
       THEN StopSession(s, "select", NoSession)
       ELSE /\ busy' = [busy EXCEPT ![s] = [op |-> "select", at |-> "selecting", key |-> NoSession]]
            /\ Cleared(s) /\ UNCHANGED sess /\ Kept

\* A faulty replacement that does not wait for the old worker.
SelectUnwaited(s) ==
    /\ At(s, "select", "stopping")
    /\ Cleared(s) /\ GoTo(s, "selecting") /\ UNCHANGED sess /\ Kept

SelectStopped(s) ==
    /\ At(s, "select", "stopping") /\ Over(slot[s].session)
    /\ Cleared(s) /\ GoTo(s, "selecting") /\ UNCHANGED sess /\ Kept

\* live.Select refuses, or replaces what the network id had.
LiveSelect(s) ==
    /\ At(s, "select", "selecting")
    /\ \/ live' = LiveClosed(s) /\ Return(s)
       \/ live' = [live EXCEPT ![s] = "selected"] /\ GoTo(s, "selected")
    /\ UNCHANGED <<slot, sess>> /\ Kept

\* The selection is kept and its timer armed, unless close or the end of the
\* service or of the request came first; newTimer asks closed as well.
Remember(s) ==
    /\ At(s, "select", "selected")
    /\ \/ /\ live' = LiveClosed(s) /\ Return(s) /\ UNCHANGED slot
       \/ /\ ~closed /\ ~stopped /\ slot[s].made < MaxSelections
          /\ slot' = [slot EXCEPT ![s].selection = slot[s].made + 1, ![s].made = @ + 1]
          /\ GoTo(s, "remembered") /\ UNCHANGED live
    /\ UNCHANGED sess /\ Kept

\* Close may have begun while the timer was armed.
Selected(s) ==
    /\ At(s, "select", "remembered")
    /\ IF closed THEN Cleared(s) ELSE UNCHANGED <<slot, live>>
    /\ Return(s) /\ UNCHANGED sess /\ Kept

-----------------------------------------------------------------------------
(* expireSelection.                                                        *)

SelectionTimer(s) ==
    /\ slot[s].selection # 0 /\ <<s, slot[s].selection>> \notin firing
    /\ firing' = firing \cup {<<s, slot[s].selection>>}
    /\ UNCHANGED <<slot, busy, sess, live, keys, sessions, closed, closing, stopped>>

Expire(s, n) ==
    /\ <<s, n>> \in firing /\ busy[s] = Free
    /\ firing' = firing \ {<<s, n>>}
    /\ IF slot[s].selection = n
       THEN slot' = [slot EXCEPT ![s].selection = 0] /\ live' = LiveClosed(s)
       ELSE UNCHANGED <<slot, live>>
    /\ UNCHANGED <<busy, sess, keys, sessions, closed, closing, stopped>>

-----------------------------------------------------------------------------
(* startLive.                                                              *)

\* The checks up to the used selection.  The same key and service again are
\* answered at once; anything else stops the session the slot has.
Start(s, k) ==
    /\ busy[s] = Free /\ ~closed /\ ~stopped
    /\ IF slot[s].session # NoSession
       THEN StopSession(s, "start", k)
       ELSE /\ slot[s].selection # 0
            /\ slot' = [slot EXCEPT ![s].selection = 0]
            /\ busy' = [busy EXCEPT ![s] = [op |-> "start", at |-> "reserving", key |-> k]]
            /\ UNCHANGED <<sess, live>> /\ Kept

\* The slot has no selection next to a session, so the replacement ends here.
StartStopped(s) ==
    /\ At(s, "start", "stopping") /\ Over(slot[s].session)
    /\ slot' = [slot EXCEPT ![s].session = NoSession] /\ live' = LiveClosed(s)
    /\ Return(s) /\ UNCHANGED sess /\ Kept

\* reserveKey: a key is used once.
ReserveKey(s) ==
    /\ At(s, "start", "reserving")
    /\ LET k == busy[s].key
       IN  IF closed \/ k \in keys
           THEN /\ live' = LiveClosed(s) /\ Return(s)
                /\ UNCHANGED <<slot, sess, firing, keys, sessions, closed, closing, stopped>>
           ELSE /\ keys' = keys \cup {k} /\ GoTo(s, "begin")
                /\ UNCHANGED <<slot, sess, live, firing, sessions, closed, closing, stopped>>

\* cache.begin, which may fail.
Begin(s) ==
    /\ At(s, "start", "begin")
    /\ \/ /\ live' = LiveClosed(s) /\ Return(s) /\ UNCHANGED sess
       \/ /\ sess' = [sess EXCEPT ![busy[s].key].at = "opening", ![busy[s].key].slot = s]
          /\ GoTo(s, "opening") /\ UNCHANGED live
    /\ UNCHANGED slot /\ Kept

\* live.Open consumes the manager's selection, if it is still there.
Open(s) ==
    /\ At(s, "start", "opening")
    /\ LET k == busy[s].key
       IN  \/ /\ live' = LiveClosed(s) /\ Return(s)
              /\ sess' = [sess EXCEPT ![k].at = "dropped", ![k].cancelled = TRUE]
           \/ /\ live[s] = "selected" /\ ~stopped
              /\ live' = [live EXCEPT ![s] = k] /\ GoTo(s, "opened")
              /\ sess' = [sess EXCEPT ![k].at = "opened", ![k].stream = TRUE]
    /\ UNCHANGED slot /\ Kept

\* A start that does not come to run: everything it opened is closed.
Abandon(s, k) ==
    /\ sess' = [sess EXCEPT ![k].at = "dropped", ![k].cancelled = TRUE, ![k].stream = FALSE]
    /\ slot' = [slot EXCEPT ![s].session = NoSession]
    /\ live' = LiveClosed(s) /\ sessions' = sessions \ {k} /\ Return(s)

\* Under the controller's lock: close captures the session or the start sees it.
List(s) ==
    /\ At(s, "start", "opened")
    /\ LET k == busy[s].key
       IN  IF closed THEN Abandon(s, k)
           ELSE /\ sessions' = sessions \cup {k} /\ GoTo(s, "listed")
                /\ sess' = [sess EXCEPT ![k].at = "listed"]
                /\ slot' = [slot EXCEPT ![s].session = k] /\ UNCHANGED live
    /\ UNCHANGED <<firing, keys, closed, closing, stopped>>

\* startTimers, which newTimer refuses once close has begun; then the worker.
\* A reader may have started the idle timer before, and it may have stopped the
\* session already.
StartTimers(s) ==
    /\ At(s, "start", "listed")
    /\ LET k == busy[s].key
       IN  IF closed \/ sess[k].stopping THEN Abandon(s, k)
           ELSE /\ sess' = [sess EXCEPT ![k].at = "running", ![k].life = "armed", ![k].idle = TRUE,
                                        ![k].epoch = @ + 1, ![k].silent = FALSE]
                /\ Return(s) /\ UNCHANGED <<slot, live, sessions>>
    /\ UNCHANGED <<firing, keys, closed, closing, stopped>>

-----------------------------------------------------------------------------
(* The worker: run, emit and finish.                                       *)

Worker == UNCHANGED <<slot, busy, firing, keys, closed, closing, stopped>>

\* A segment is published; one that left the playlist gets its retention timer.
Emit(k) ==
    /\ sess[k].at = "running" /\ ~Ended(k)
    /\ sess' = [sess EXCEPT ![k].kept = TRUE, ![k].retention = @ \/ ~closed]
    /\ Worker /\ UNCHANGED <<live, sessions>>

\* Copy returns: its stream was closed or ended, or a segment failed.
CopyEnds(k) ==
    /\ sess[k].at = "running"
    /\ sess' = [sess EXCEPT ![k].at = "copied"]
    /\ Worker /\ UNCHANGED <<live, sessions>>

EndStream(k) ==
    /\ sess[k].at = "copied"
    /\ sess' = [sess EXCEPT ![k].at = "ended", ![k].stream = FALSE]
    /\ live' = StreamGone(k)
    /\ Worker /\ UNCHANGED sessions

\* A faulty end that gives the last segments no retention timer.
FinishUnretained(k) ==
    /\ sess[k].at = "ended"
    /\ sess' = [sess EXCEPT ![k].at = "finished", ![k].terminal = TRUE, ![k].cancelled = TRUE,
                            ![k].idle = FALSE, ![k].life = IF @ = "firing" THEN @ ELSE "none"]
    /\ Worker /\ UNCHANGED <<live, sessions>>

\* finish: the timers stop, and every segment left gets a retention timer.
Finish(k) ==
    /\ sess[k].at = "ended"
    /\ sess' = [sess EXCEPT ![k].at = "finished", ![k].terminal = TRUE, ![k].cancelled = TRUE,
                            ![k].idle = FALSE, ![k].life = IF @ = "firing" THEN @ ELSE "none",
                            ![k].retention = @ \/ (sess[k].kept /\ ~closed)]
    /\ Worker /\ UNCHANGED <<live, sessions>>

\* A session without segments goes at once; then done is closed.  (What nobody
\* reads from here on is set back.)
Done(k) ==
    /\ sess[k].at = "finished"
    /\ sess' = [sess EXCEPT ![k].at = "done", ![k].stopping = FALSE, ![k].epoch = 0,
                            ![k].silent = FALSE, ![k].slot = 0]
    /\ sessions' = IF sess[k].kept THEN sessions ELSE sessions \ {k}
    /\ Worker /\ UNCHANGED live

-----------------------------------------------------------------------------
(* The timers of a session, and its readers.                               *)

Alone == UNCHANGED <<slot, busy, live, firing, keys, sessions, closed, closing, stopped>>

\* touchLocked: newTimer refuses after close has begun.
Touched(k) == [sess EXCEPT ![k].epoch = @ + 1, ![k].idle = ~closed, ![k].silent = FALSE]
Touchable(k) == ~sess[k].terminal /\ ~sess[k].stopping /\ sess[k].epoch < MaxTouches

\* openSegment, or a playlist request, which touches the session before it waits
\* for three segments (that wait of its own, two seconds at most, is left out).
Read(k) ==
    /\ k \in sessions /\ Touchable(k)
    /\ sess' = Touched(k)
    /\ Alone

\* hlsIdleLifetime has passed since the last reader.
IdleTimer(k) ==
    /\ sess[k].idle
    /\ sess' = [sess EXCEPT ![k].idle = FALSE, ![k].idleFiring = @ \cup {sess[k].epoch},
                            ![k].silent = TRUE]
    /\ Alone

\* stopIdle, if its epoch is the current one: stop, and then wait for done.
IdleStops(k, current) ==
    IF current /\ ~sess[k].terminal /\ ~sess[k].stopping
    THEN /\ sess' = [Stop(k) EXCEPT ![k].idleFiring = {}, ![k].idleWaits = TRUE]
         /\ live' = StreamGone(k)
    ELSE /\ sess' = [sess EXCEPT ![k].idleFiring = {}]
         /\ UNCHANGED live

\* A faulty callback that does not compare its epoch.
StopIdleAny(k) ==
    /\ sess[k].idleFiring # {}
    /\ IdleStops(k, TRUE)
    /\ UNCHANGED <<slot, busy, firing, keys, sessions, closed, closing, stopped>>

StopIdle(k) ==
    /\ sess[k].idleFiring # {}
    /\ IdleStops(k, sess[k].epoch \in sess[k].idleFiring)
    /\ UNCHANGED <<slot, busy, firing, keys, sessions, closed, closing, stopped>>

IdleEnds(k) ==
    /\ sess[k].idleWaits /\ Over(k)
    /\ sess' = [sess EXCEPT ![k].idleWaits = FALSE]
    /\ Alone

\* hlsWorkerLifetime passes: stop, and wait for done.
LifeTimer(k) ==
    /\ sess[k].life = "armed"
    /\ sess' = [Stop(k) EXCEPT ![k].life = "firing"]
    /\ live' = StreamGone(k)
    /\ UNCHANGED <<slot, busy, firing, keys, sessions, closed, closing, stopped>>

LifeEnds(k) ==
    /\ sess[k].life = "firing" /\ Over(k)
    /\ sess' = [sess EXCEPT ![k].life = "none"]
    /\ Alone

\* The last retention timer: retireSegment empties a session that has ended
\* (one that ended after close began has segments without a timer as well).
RetentionEnds(k) ==
    /\ sess[k].retention
    /\ \E emptied \in {sess[k].terminal} \cup (IF closed THEN {FALSE} ELSE {}) :
           /\ sess' = [sess EXCEPT ![k].retention = FALSE, ![k].kept = @ /\ ~emptied]
           /\ sessions' = IF emptied THEN sessions \ {k} ELSE sessions
    /\ UNCHANGED <<slot, busy, live, firing, keys, closed, closing, stopped>>

-----------------------------------------------------------------------------
(* The end of the process: the service context, then close.                *)

StopService ==
    /\ ~stopped /\ stopped' = TRUE
    /\ UNCHANGED <<slot, busy, sess, live, firing, keys, sessions, closed, closing>>

CloseStart ==
    /\ stopped /\ closing.at = "none"
    /\ closed' = TRUE
    /\ closing' = [closing EXCEPT !.at = "slots", !.captured = sessions]
    /\ UNCHANGED <<slot, busy, sess, live, firing, keys, sessions, stopped>>

\* The slots in their order, each under its lock.
CloseSlot(s) ==
    /\ closing.at = "slots" /\ s \in closing.left /\ \A t \in closing.left : s <= t
    /\ busy[s] = Free
    /\ IF slot[s].session # NoSession
       THEN StopSession(s, "close", NoSession)
       ELSE /\ Cleared(s)
            /\ closing' = [closing EXCEPT !.left = @ \ {s}]
            /\ UNCHANGED <<busy, sess, firing, keys, sessions, closed, stopped>>

CloseStopped(s) ==
    /\ At(s, "close", "stopping") /\ Over(slot[s].session)
    /\ Cleared(s) /\ Return(s)
    /\ closing' = [closing EXCEPT !.left = @ \ {s}]
    /\ UNCHANGED <<sess, firing, keys, sessions, closed, stopped>>

\* shutdownRetention of a captured session: stop it, wait for done, and then
\* stop what timers it has left.
ShutdownStop(k) ==
    /\ closing.at = "slots" /\ closing.left = {} /\ k \in closing.captured /\ ~Over(k)
    /\ sess[k].stream \/ ~(sess[k].stopping \/ sess[k].terminal)
    /\ sess' = Stop(k) /\ live' = StreamGone(k)
    /\ UNCHANGED <<slot, busy, firing, keys, sessions, closed, closing, stopped>>

ShutdownRetention(k) ==
    /\ closing.at = "slots" /\ closing.left = {} /\ k \in closing.captured /\ Over(k)
    /\ sess' = [sess EXCEPT ![k].retention = FALSE, ![k].idle = FALSE,
                            ![k].life = IF @ = "firing" THEN @ ELSE "none"]
    /\ closing' = [closing EXCEPT !.captured = @ \ {k}]
    /\ UNCHANGED <<slot, busy, live, firing, keys, sessions, closed, stopped>>

\* The WaitGroup of newTimer: timers that are armed or whose callback runs.
\* Clearing a slot stopped its selection's timer, or its callback is firing.
Pending ==
    \/ firing # {} \/ \E s \in Slots : slot[s].selection # 0
    \/ \E k \in Keys : \/ sess[k].idle \/ sess[k].idleFiring # {} \/ sess[k].idleWaits \/ sess[k].life # "none"
                       \/ sess[k].retention

CloseReturns ==
    /\ closing.at = "slots" /\ closing.left = {} /\ closing.captured = {} /\ ~Pending
    /\ closing' = [closing EXCEPT !.at = "returned"]
    /\ sessions' = {}
    /\ UNCHANGED <<slot, busy, sess, live, firing, keys, closed, stopped>>

-----------------------------------------------------------------------------
RequestStep(s) ==
    \/ SelectStopped(s) \/ LiveSelect(s) \/ Remember(s) \/ Selected(s)
    \/ StartStopped(s) \/ ReserveKey(s) \/ Begin(s) \/ Open(s) \/ List(s) \/ StartTimers(s)
WorkerStep(k) == EndStream(k) \/ Finish(k) \/ Done(k)
Callback ==
    \/ \E s \in Slots, n \in 1 .. MaxSelections : Expire(s, n)
    \/ \E k \in Keys : StopIdle(k) \/ IdleEnds(k) \/ LifeEnds(k)
CloseStep ==
    \/ \E s \in Slots : CloseSlot(s) \/ CloseStopped(s)
    \/ \E k \in Keys : ShutdownStop(k) \/ ShutdownRetention(k)
    \/ CloseReturns

SessionNext ==
    \/ \E s \in Slots : \/ SelectStart(s) \/ SelectionTimer(s) \/ LiveExpires(s) \/ RequestStep(s)
                        \/ \E k \in Keys : Start(s, k)
    \/ \E k \in Keys : \/ WorkerStep(k) \/ Emit(k) \/ CopyEnds(k)
                       \/ Read(k) \/ IdleTimer(k) \/ LifeTimer(k) \/ RetentionEnds(k)
    \/ Callback \/ CloseStep \/ StopService \/ CloseStart

SessionSpec == SessionInit /\ [][SessionNext]_sessionVars

\* Goroutines go on, and a closed stream ends Copy; timers fire when they are
\* due.  No client has to send anything.
MustEnd(k) == Ended(k) \/ ~sess[k].stream
SessionFairness ==
    /\ \A s \in Slots : WF_sessionVars(RequestStep(s)) /\ WF_sessionVars(SelectionTimer(s))
    /\ \A k \in Keys :
          /\ WF_sessionVars(WorkerStep(k))
          /\ WF_sessionVars(MustEnd(k) /\ CopyEnds(k))
          /\ WF_sessionVars(IdleTimer(k)) /\ WF_sessionVars(RetentionEnds(k))
    /\ WF_sessionVars(Callback) /\ WF_sessionVars(CloseStep)

SessionLiveSpec == SessionSpec /\ SessionFairness

-----------------------------------------------------------------------------
(* Properties.                                                             *)

\* Whatever the live manager keeps for a screen belongs to somebody who will
\* close it: a selection, a session or a request in progress.  No refusal, expiry
\* or failed start leaves a use behind (the live.Close of every early return).
UseOwned ==
    \A s \in Slots :
        /\ live[s] = "selected" => slot[s].selection # 0 \/ busy[s].op \in {"select", "start"}
        /\ live[s] \in Keys => sess[live[s]].stream /\ sess[live[s]].slot = s

\* KHL-018: whatever selections, starts, replacements, idle timers and close
\* race, nobody takes the stream of a session that was not stopped: an open
\* stream has the use of its screen, and so each screen has at most one.
LeaseKept == \A k \in Keys : sess[k].stream => live[sess[k].slot] = k

\* A screen's next session begins after its earlier worker is through
\* (stop waits for done under the slot's lock).
WorkersAlone ==
    \A j, k \in Keys :
        /\ {sess[j].at, sess[k].at} \cap {"none", "done", "dropped"} = {}
        /\ sess[j].slot = sess[k].slot
        => j = k

\* An idle timer stops a session only if nobody read it since hlsIdleLifetime:
\* also when the callback waited for the lock while a reader came back.
IdleStopIsDue == \A k \in Keys : ~sess[k].idleWaits /\ sess'[k].idleWaits => sess[k].silent
IdleStopsUnread == [][IdleStopIsDue]_sessionVars

\* When close has returned, no worker, stream, use or callback is left.
ClosedIsQuiet ==
    closing.at = "returned" =>
        /\ \A s \in Slots : busy[s] = Free /\ live[s] = "none"
        /\ \A k \in Keys :
              /\ sess[k].at \in {"none", "done", "dropped"} /\ ~sess[k].stream
              /\ sess[k].idleFiring = {} /\ ~sess[k].idleWaits /\ sess[k].life = "none"
        /\ firing = {}

\* Streams, workers and uses belong to a session as long as they last.
SessionsSound == UseOwned /\ LeaseKept /\ WorkersAlone /\ ClosedIsQuiet

\* KHL-017: a worker whose session was stopped, or whose service has ended, ends.
WasStopped(k) == sess[k].at = "running" /\ (sess[k].stopping \/ stopped)
StoppedEnds == \A k \in Keys : WasStopped(k) ~> Over(k)

\* KHL-017: a session that has ended is forgotten after its retention.
Remembered(k) == sess[k].terminal /\ k \in sessions
EndedIsForgotten == \A k \in Keys : Remembered(k) ~> k \notin sessions

\* "closeは新しい開始を止め、二つのworkerと全timerを閉じてからcache handleを解放する" (hls_session.go:743):
\* close, once begun, comes to its end.
CloseCompletes == closed ~> closing.at = "returned"

-----------------------------------------------------------------------------
(* The inductive invariant: where requests, workers and close are, what    *)
(* they hold there, and how epochs follow each other.                      *)

\* What the slot of a request is like where it is.
RequestFits(s) ==
    /\ busy[s].op = "none" => busy[s] = Free
    /\ busy[s].op = "select" => busy[s].at \in {"stopping"} \cup SelectPlaces
    /\ busy[s].op = "start" => busy[s].at \in {"stopping"} \cup StartPlaces
    /\ busy[s].op = "close" => busy[s].at = "stopping"
    /\ busy[s].at = "stopping" => slot[s].session \in Keys
    /\ busy[s].at \in {"selecting", "selected", "reserving", "begin", "opening", "opened"} =>
          slot[s].selection = 0 /\ slot[s].session = NoSession
    /\ busy[s].at \in StartPlaces => busy[s].key \in Keys
    /\ busy[s].at = "remembered" => slot[s].selection # 0
    /\ busy[s].at = "listed" => slot[s].session = busy[s].key
    /\ slot[s].selection # 0 => slot[s].session = NoSession
    /\ slot[s].selection =< slot[s].made
RequestsFit == \A s \in Slots : RequestFits(s)

Holders == {"begin", "opening", "opened", "listed"}
Workers == {"running", "copied", "ended", "finished"}

\* A start holds a key nobody else has; a worker is the session of its slot.
OwnersFit ==
    /\ \A s \in Slots : busy[s].at \in Holders =>
          /\ busy[s].key \in keys
          /\ sess[busy[s].key].at = IF busy[s].at = "begin" THEN "none" ELSE busy[s].at
          /\ \A t \in Slots \ {s} : busy[t].at \in Holders => busy[t].key # busy[s].key
    /\ \A k \in Keys :
          /\ k \notin keys => sess[k].at = "none"
          /\ sess[k].at \in Holders \cup Workers => sess[k].slot \in Slots
          /\ sess[k].at \in Holders =>
                busy[sess[k].slot] = [op |-> "start", at |-> sess[k].at, key |-> k]
          /\ sess[k].at \in Workers => slot[sess[k].slot].session = k

\* Streams and what the live manager keeps.
UsesFit ==
    /\ \A k \in Keys : sess[k].stream =>
          sess[k].at \in {"opened", "listed", "running", "copied"} /\ live[sess[k].slot] = k
    /\ \A s \in Slots :
          /\ live[s] \in Keys => sess[live[s]].stream /\ sess[live[s]].slot = s
          /\ live[s] = "selected" =>
                \/ slot[s].selection # 0
                \/ busy[s].at \in {"selected", "reserving", "begin", "opening"}

\* An idle timer fires for the epoch it was armed in, and a later one is greater.
EpochFits(k) ==
    /\ sess[k].terminal <=> sess[k].at \in {"finished", "done"}
    /\ sess[k].terminal => ~sess[k].idle
    /\ sess[k].at \in {"none", "opening", "opened", "listed"} => sess[k].epoch =< MaxTouches
    /\ 0 \notin sess[k].idleFiring
    /\ sess[k].idle => sess[k].epoch # 0
    /\ sess[k].epoch # 0 => \A e \in sess[k].idleFiring : e =< sess[k].epoch
    /\ sess[k].epoch = 0 /\ sess[k].at # "done" => sess[k].idleFiring = {}
    /\ sess[k].epoch \in sess[k].idleFiring => sess[k].silent
EpochsFit == \A k \in Keys : EpochFits(k)

\* A slot that close has cleared stays so.
ClosingFits ==
    /\ closing \in [at : {"none", "slots", "returned"}, left : SUBSET Slots, captured : SUBSET Keys]
    /\ closing.at = "none" => closing.left = Slots
    /\ closing.at # "none" => closed
    /\ \A s \in Slots : busy[s].op = "close" => closing.at # "none"
    /\ closing.at # "none" => \A s \in Slots \ closing.left :
          busy[s] = Free /\ slot[s].selection = 0 /\ slot[s].session = NoSession
    /\ closing.at = "returned" => closing.left = {} /\ ~Pending

SessionIInv ==
    /\ SessionTypeOK /\ RequestsFit /\ OwnersFit /\ UsesFit /\ EpochsFit /\ ClosingFits
=============================================================================
