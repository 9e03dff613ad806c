----------------------------- MODULE Scheduler ------------------------------
(***************************************************************************)
(* Scheduler.Run (internal/app/recording/scheduler.go): the loop that      *)
(* expires, claims, misses and starts reservations, the goroutine of each  *)
(* recording, the unbuffered completion channel, the wake channel of       *)
(* capacity one, the stop registry (stop_registry.go), the power action    *)
(* after the last recording, and the handlers of the reservation service   *)
(* (reservations.go) that change the rows beside it.                       *)
(*                                                                         *)
(* A recording is what Recording shows of ExecuteClaimed: it ends with a   *)
(* settled attempt or with an error, and an error is possible when its     *)
(* context is cancelled or an operation fails.  One run of the process is  *)
(* modelled; Recording has crashes and recovery.                           *)
(***************************************************************************)
EXTENDS Reservations

CONSTANTS
    MaximumConcurrent,  \* --max-concurrent-recordings
    LateStartLimit,     \* lateStartLimit
    MinimumRunTime,     \* minimumRunTime
    MinimumIdle,        \* postRecordingMinimumIdle
    WakeMargin,         \* postRecordingWakeMargin
    MaxChanges,         \* bound on changes and deletions by users
    MaxFaults,          \* bound on failing database operations
    MayShutDown         \* whether the service may be shut down

ASSUME SchedulerAssumption ==
    /\ MaximumConcurrent \in Nat \ {0}
    /\ LateStartLimit \in Nat /\ MinimumRunTime \in Nat
    /\ MinimumIdle \in Nat \ {0} /\ WakeMargin \in Nat
    /\ MaxChanges \in Nat /\ MaxFaults \in Nat /\ MayShutDown \in BOOLEAN

VARIABLES
    now,        \* the clock
    pc,         \* where Run is
    loop,       \* the loop's local variables: now, the next deadline or timer,
                \* the reservation it read, and why it is to be missed
    active,     \* recordings started and not yet received from "completed"
    pending,    \* pendingPower
    runs,       \* the recording goroutines, by reservation id
    registry,   \* ids in the stop registry
    cancelled,  \* ids whose recording context was cancelled by a stop
    halted,     \* executionContext is cancelled (stopExecutions)
    failed,     \* stopExecutions' first error is not nil
    wake,       \* the wake channel holds its token
    stopCalls,  \* handlers that committed a stop and have yet to call OnStop
    wakeCalls,  \* handlers that have yet to call OnAdded
    stopping,   \* the context of Run is cancelled
    power,      \* what the power adapter was last asked to do
    changes, faults     \* counters of MaxChanges, MaxFaults

handlerVars == <<stopCalls, wakeCalls, changes>>
loopVars == <<pc, loop, active, pending, halted, failed, power>>
runVars == <<runs, registry>>
vars == <<rows, now, loopVars, runVars, cancelled, wake, handlerVars, stopping, faults>>

Never == MaxTime + Duration + 1     \* later than every planned time
NoLoop == [now |-> 0, timer |-> Never, id |-> 0, version |-> 0, reason |-> "none"]
NoCandidate == [mode |-> "none", present |-> FALSE, conflict |-> FALSE]
NoRun == [at |-> "none", out |-> "none"]
Received == [at |-> "received", out |-> "none"]
NoPower == [count |-> 0, mode |-> "none", wakeAt |-> Never]

\* A goroutine: executing before and after StartAttempt, then unregistering,
\* then parked at its send, then received.
Executing == {"claimed", "running"}
Unreceived == Executing \cup {"ended", "sending"}
Outcomes == {"none", "ok", "error"} \cup Modes
MaxVersion == MaxChanges + 2
MissReasons == {"LATE_START_EXPIRED", "RECORDING_SLOT_UNAVAILABLE"}
Labels == {"top", "deadline", "next", "power", "park", "wait", "slot", "claim", "register",
           "miss", "missed", "drain", "returned"}

TypeOK ==
    /\ rows \in [Ids -> Rows(MaxVersion)]
    /\ now \in 0 .. MaxTime
    /\ pc \in Labels
    /\ loop \in [now : 0 .. MaxTime, timer : 0 .. Never, id : Ids \cup {0},
                 version : 0 .. MaxVersion, reason : {"none"} \cup MissReasons]
    /\ active \in 0 .. MaximumConcurrent
    /\ pending \in [mode : Modes \cup {"none"}, present : BOOLEAN, conflict : BOOLEAN]
    /\ runs \in [Ids -> [at : {"none", "received"} \cup Unreceived, out : Outcomes]]
    /\ registry \subseteq Ids /\ cancelled \subseteq Ids
    /\ stopCalls \subseteq Ids /\ wakeCalls \subseteq Ids
    /\ halted \in BOOLEAN /\ failed \in BOOLEAN /\ wake \in BOOLEAN /\ stopping \in BOOLEAN
    /\ power \in [count : 0 .. N, mode : Modes \cup {"none"}, wakeAt : 0 .. Never]
    /\ changes \in 0 .. MaxChanges /\ faults \in 0 .. MaxFaults

Init ==
    /\ RowsInit
    /\ now = 0 /\ pc = "top" /\ loop = NoLoop /\ active = 0 /\ pending = NoCandidate
    /\ runs = [r \in Ids |-> NoRun] /\ registry = {} /\ cancelled = {}
    /\ halted = FALSE /\ failed = FALSE /\ wake = FALSE /\ stopping = FALSE
    /\ stopCalls = {} /\ wakeCalls = {} /\ power = NoPower
    /\ changes = 0 /\ faults = 0

-----------------------------------------------------------------------------
(* Building blocks.                                                        *)

Around == UNCHANGED <<now, cancelled, handlerVars, stopping>>
Goto(label) == pc' = label /\ loop' = IF label = "top" THEN NoLoop ELSE loop
Fault == faults < MaxFaults /\ faults' = faults + 1

\* stopExecutions cancels every recording and starts to collect them.
StopExecutions(err) ==
    /\ pc' = "drain" /\ loop' = NoLoop
    /\ halted' = TRUE /\ failed' = err

\* A database operation of the loop that runs under its context: it fails
\* once the service shuts down, and may fail for a reason of its own.  In the
\* first case the three reads return no error, a claim and a miss do.
LoopFails(quiet) ==
    /\ \/ stopping /\ StopExecutions(~quiet) /\ UNCHANGED faults
       \/ ~stopping /\ Fault /\ StopExecutions(TRUE)
    /\ UNCHANGED <<rows, active, pending, power, runVars, wake>>
    /\ Around

\* postRecordingPowerCandidate.add.
Added(candidate, out) ==
    IF out \notin Modes THEN candidate
    ELSE IF candidate.present /\ candidate.mode # out THEN [candidate EXCEPT !.conflict = TRUE]
    ELSE [candidate EXCEPT !.mode = out, !.present = TRUE]

Sending == {r \in Ids : runs[r].at = "sending"}

\* A faulty receive: a recording that failed is not counted off.
ReceiveUncounted(label) ==
    /\ \E r \in Sending :
          /\ runs' = [runs EXCEPT ![r] = Received]
          /\ IF runs[r].out = "error"
               THEN StopExecutions(TRUE) /\ UNCHANGED <<active, pending>>
               ELSE /\ active' = active - 1
                    /\ pending' = Added(pending, runs[r].out)
                    /\ Goto(label) /\ UNCHANGED <<halted, failed>>
    /\ UNCHANGED <<rows, registry, wake, power, faults>>
    /\ Around

\* Receive from "completed": an error stops everything, a result may bring a
\* power candidate and the loop goes on at label.
ReceiveAnd(label) ==
    /\ \E r \in Sending :
          /\ runs' = [runs EXCEPT ![r] = Received]
          /\ active' = active - 1
          /\ IF runs[r].out = "error"
               THEN StopExecutions(TRUE) /\ UNCHANGED pending
               ELSE /\ pending' = Added(pending, runs[r].out)
                    /\ Goto(label) /\ UNCHANGED <<halted, failed>>
    /\ UNCHANGED <<rows, registry, wake, power, faults>>
    /\ Around

-----------------------------------------------------------------------------
(* One round of the loop.                                                  *)

\* A completion that is already there is taken first.
TakeCompletion ==
    /\ pc = "top"
    /\ ReceiveAnd("top")

\* Otherwise the clock is read and one disabled reservation may expire.
Expire ==
    /\ pc = "top" /\ Sending = {}
    /\ \/ /\ ~stopping
          /\ IF Expirable(now) = {}
               THEN /\ pc' = "deadline" /\ loop' = [NoLoop EXCEPT !.now = now]
                    /\ UNCHANGED rows
               ELSE ExpireOneDisabledReservation(now) /\ Goto("top")
          /\ UNCHANGED <<active, pending, halted, failed, power, runVars, wake, faults>>
          /\ Around
       \/ LoopFails(TRUE)

ReadDeadline ==
    /\ pc = "deadline"
    /\ \/ /\ ~stopping
          /\ pc' = "next"
          /\ LET deadlines == NextDisabledDeadline(loop.now)
             IN  loop' = [loop EXCEPT !.timer = CHOOSE t \in deadlines \cup {Never} :
                                                  \A u \in deadlines : t <= u]
          /\ UNCHANGED <<rows, active, pending, halted, failed, power, runVars, wake, faults>>
          /\ Around
       \/ LoopFails(TRUE)

\* Too late, unless it was reserved while already on the air and recently.
Late(row, t) ==
    LET fresh == row.created >= row.start /\ row.created <= t /\ t - row.created <= LateStartLimit
    IN  \/ ~fresh /\ t - row.start > LateStartLimit
        \/ End(row) < t + MinimumRunTime

\* What the loop does with the reservation it read, if any; loop.timer is the
\* next deadline of a disabled one.
WaitUntil(t) == pc' = "park" /\ loop' = [NoLoop EXCEPT !.timer = t]
Take(label, r, reason) ==
    /\ pc' = label
    /\ loop' = [NoLoop EXCEPT !.id = r, !.version = rows[r].version, !.reason = reason]

Consider(r) ==
    LET row == rows[r]
    IN  \/ loop.timer < row.start /\ WaitUntil(loop.timer)
        \/ loop.timer >= row.start /\ row.start > loop.now /\ WaitUntil(row.start)
        \/ /\ loop.timer >= row.start /\ row.start <= loop.now
           /\ IF Late(row, loop.now) THEN Take("miss", r, "LATE_START_EXPIRED")
              ELSE IF active >= MaximumConcurrent THEN Take("slot", r, "none")
              ELSE Take("claim", r, "none")

\* A faulty test: a candidate is decided while others still record.
PowerDueEarly == pending.present

\* The last recording has been collected and a candidate is left.
PowerDue == active = 0 /\ pending.present

ReadNext ==
    /\ pc = "next"
    /\ \/ /\ ~stopping
          /\ LET next == NextActiveReservation(loop.now)
             IN  \/ PowerDue /\ pc' = "power" /\ UNCHANGED loop
                 \/ ~PowerDue /\ next = {} /\ WaitUntil(loop.timer)
                 \/ ~PowerDue /\ \E r \in next : Consider(r)
          /\ UNCHANGED <<rows, active, pending, halted, failed, power, runVars, wake, faults>>
          /\ Around
       \/ LoopFails(TRUE)

-----------------------------------------------------------------------------
(* The power action.                                                       *)

\* The reservation that the decision is made for: read again under the lock
\* that all changes of reservations take.
DecidedBy == NextActiveReservation(loop.now)

\* executePostRecordingPower: no conflict, and the next reservation far enough
\* away to sleep and to set the RTC alarm.
PowerAllowed ==
    /\ ~stopping /\ ~pending.conflict
    /\ \A r \in DecidedBy : /\ rows[r].start >= loop.now + MinimumIdle
                            /\ rows[r].start - WakeMargin >= loop.now + WakeMargin
WakeTimes == {rows[r].start - WakeMargin : r \in DecidedBy}

\* The lock is held from the read to the end of the action, so that the step
\* is atomic; a failing read changes no power state.
DecidePower ==
    /\ pc = "power"
    /\ \/ /\ IF PowerAllowed
               THEN power' = [count |-> power.count + 1, mode |-> pending.mode,
                              wakeAt |-> CHOOSE t \in WakeTimes \cup {Never} :
                                            \A u \in WakeTimes : t <= u]
               ELSE UNCHANGED power
          /\ UNCHANGED faults
       \/ ~stopping /\ Fault /\ UNCHANGED power
    /\ pending' = NoCandidate
    /\ Goto("top")
    /\ UNCHANGED <<rows, active, halted, failed, runVars, wake>>
    /\ Around

-----------------------------------------------------------------------------
(* Waiting.                                                                *)

\* The timer is made and select entered: until then nobody listens.
Park ==
    /\ pc = "park"
    /\ Goto("wait")
    /\ UNCHANGED <<rows, active, pending, halted, failed, power, runVars, wake, faults>>
    /\ Around

WaitStopped ==
    /\ pc = "wait" /\ stopping
    /\ StopExecutions(FALSE)
    /\ UNCHANGED <<rows, active, pending, power, runVars, wake, faults>>
    /\ Around

WaitWoken ==
    /\ pc = "wait"
    /\ \/ wake /\ wake' = FALSE
       \/ now >= loop.timer /\ UNCHANGED wake
    /\ Goto("top")
    /\ UNCHANGED <<rows, active, pending, halted, failed, power, runVars, faults>>
    /\ Around

WaitCompleted ==
    /\ pc = "wait"
    /\ ReceiveAnd("top")

-----------------------------------------------------------------------------
(* Starting or missing the reservation that was read.                      *)

\* All slots are taken: a completion that is ready frees one.
TakeSlot ==
    /\ pc = "slot"
    /\ IF Sending # {} THEN ReceiveAnd("claim")
         ELSE /\ pc' = "miss"
              /\ loop' = [loop EXCEPT !.reason = "RECORDING_SLOT_UNAVAILABLE"]
              /\ UNCHANGED <<rows, active, pending, halted, failed, power, runVars, wake, faults>>
              /\ Around

\* Claim and, in Miss, the claim that precedes the MISSED result.  A row that
\* changed since it was read is simply read again.
ClaimStep ==
    /\ pc \in {"claim", "miss"}
    /\ \/ /\ ~stopping
          /\ IF Claimable(loop.id, loop.version)
               THEN ClaimRecording(loop.id) /\ Goto(IF pc = "claim" THEN "register" ELSE "missed")
               ELSE UNCHANGED rows /\ Goto("top")
          /\ UNCHANGED <<active, pending, halted, failed, power, runVars, wake, faults>>
          /\ Around
       \/ LoopFails(FALSE)

\* A faulty miss that claims the reservation and never finishes the attempt.
MissUnfinished ==
    /\ pc = "missed"
    /\ Goto("top")
    /\ UNCHANGED <<rows, active, pending, halted, failed, power, runVars, wake, faults>>
    /\ Around

\* Miss' FinishAttempt(MISSED): the trigger refuses it once a stop is stored.
MissStep ==
    /\ pc = "missed"
    /\ \/ /\ ~stopping /\ ~rows[loop.id].stop
          /\ Settle(loop.id, loop.reason)
          /\ Goto("top")
          /\ UNCHANGED <<active, pending, halted, failed, power, runVars, wake, faults>>
          /\ Around
       \/ /\ rows[loop.id].stop /\ ~stopping
          /\ StopExecutions(TRUE)
          /\ UNCHANGED <<rows, active, pending, power, runVars, wake, faults>>
          /\ Around
       \/ LoopFails(FALSE)

\* stopRegistry.register.
Registrable(r) == r \notin registry /\ Cardinality(registry) < MaximumConcurrent

\* A faulty start: the goroutine runs but is not counted.
RegisterUncounted ==
    /\ pc = "register" /\ Registrable(loop.id)
    /\ registry' = registry \cup {loop.id}
    /\ runs' = [runs EXCEPT ![loop.id].at = "claimed"]
    /\ Goto("top")
    /\ UNCHANGED <<rows, active, pending, halted, failed, power, wake, faults>>
    /\ Around

Register ==
    /\ pc = "register"
    /\ IF Registrable(loop.id)
         THEN /\ registry' = registry \cup {loop.id}
              /\ active' = active + 1
              /\ runs' = [runs EXCEPT ![loop.id].at = "claimed"]
              /\ Goto("top") /\ UNCHANGED <<halted, failed>>
         ELSE StopExecutions(TRUE) /\ UNCHANGED <<active, runVars>>
    /\ UNCHANGED <<rows, pending, power, wake, faults>>
    /\ Around

-----------------------------------------------------------------------------
(* stopExecutions collects every recording before Run returns.             *)

Drain ==
    /\ pc = "drain" /\ active > 0
    /\ \E r \in Sending :
          /\ runs' = [runs EXCEPT ![r] = Received]
          /\ failed' = (failed \/ runs[r].out = "error")
    /\ active' = active - 1
    /\ UNCHANGED <<rows, pc, loop, pending, halted, power, registry, wake, faults>>
    /\ Around

Return ==
    /\ pc = "drain" /\ active = 0
    /\ Goto("returned")
    /\ UNCHANGED <<rows, active, pending, halted, failed, power, runVars, wake, faults>>
    /\ Around

-----------------------------------------------------------------------------
(* A recording goroutine.                                                  *)

ContextCancelled(r) == stopping \/ halted \/ r \in cancelled
AroundRun == UNCHANGED <<now, loopVars, wake, handlerVars, stopping>>

\* StartAttempt under the recording's context.
StartRecording(r) ==
    /\ runs[r].at = "claimed" /\ ~ContextCancelled(r)
    /\ runs' = [runs EXCEPT ![r].at = "running"]
    /\ UNCHANGED <<rows, registry, cancelled, faults>> /\ AroundRun

\* ExecuteClaimed settles the attempt; a published file may ask for power.
EndRecording(r) ==
    /\ runs[r].at = "running"
    /\ \E out \in {"ok"} \cup ({rows[r].mode} \cap Modes) :
          runs' = [runs EXCEPT ![r] = [at |-> "ended", out |-> out]]
    /\ Settle(r, "ATTEMPT_FINISHED")
    /\ UNCHANGED <<registry, cancelled, faults>> /\ AroundRun

\* ExecuteClaimed returns an error: the attempt stays open for the recovery.
FailRecording(r) ==
    /\ runs[r].at \in Executing
    /\ IF ContextCancelled(r) THEN UNCHANGED faults ELSE Fault
    /\ runs' = [runs EXCEPT ![r] = [at |-> "ended", out |-> "error"]]
    /\ UNCHANGED <<rows, registry, cancelled>> /\ AroundRun

\* A faulty end: the goroutine sends without having unregistered.
SendRegistered(r) ==
    /\ runs[r].at = "ended"
    /\ runs' = [runs EXCEPT ![r].at = "sending"]
    /\ UNCHANGED <<rows, registry, cancelled, faults>> /\ AroundRun

\* unregister and cancelRecording, then the send.
Unregister(r) ==
    /\ runs[r].at = "ended"
    /\ registry' = registry \ {r}
    /\ cancelled' = cancelled \ {r}
    /\ runs' = [runs EXCEPT ![r].at = "sending"]
    /\ UNCHANGED <<rows, faults>> /\ AroundRun

-----------------------------------------------------------------------------
(* The handlers of the reservation service, and the world.                 *)

AroundHandler == UNCHANGED <<now, loopVars, runVars, stopping, faults>>
Idle(r) == r \notin stopCalls \cup wakeCalls

Add(r) ==
    /\ Idle(r)
    /\ \E start \in Starts, enabled \in Enabling, priority \in Priorities,
          mode \in Requests :
             CreateReservation(r, start, enabled, priority, mode, now)
    /\ wakeCalls' = wakeCalls \cup {r}
    /\ UNCHANGED <<cancelled, wake, stopCalls, changes>> /\ AroundHandler

Change(r) ==
    /\ Idle(r) /\ changes < MaxChanges
    /\ changes' = changes + 1
    /\ \E start \in Starts, enabled \in Enabling, priority \in Priorities :
          UpdateReservation(r, start, enabled, priority, now)
    /\ wakeCalls' = wakeCalls \cup {r}
    /\ UNCHANGED <<cancelled, wake, stopCalls>> /\ AroundHandler

Delete(r) ==
    /\ Idle(r) /\ changes < MaxChanges
    /\ changes' = changes + 1
    /\ \/ CancelRow(r) /\ wakeCalls' = wakeCalls \cup {r} /\ UNCHANGED stopCalls
       \/ RequestStop(r) /\ stopCalls' = stopCalls \cup {r} /\ UNCHANGED wakeCalls
    /\ UNCHANGED <<cancelled, wake>> /\ AroundHandler

\* NotifyStop: nothing happens for an id that is not registered.
NotifyStop(r) ==
    /\ r \in stopCalls
    /\ cancelled' = cancelled \cup (registry \cap {r})
    /\ stopCalls' = stopCalls \ {r} /\ wakeCalls' = wakeCalls \cup {r}
    /\ UNCHANGED <<rows, wake, changes>> /\ AroundHandler

\* A faulty Notify: the channel has no buffer, only a waiting loop hears it.
NotifyWaiting(r) ==
    /\ r \in wakeCalls
    /\ wake' = (wake \/ pc = "wait")
    /\ wakeCalls' = wakeCalls \ {r}
    /\ UNCHANGED <<rows, cancelled, stopCalls, changes>> /\ AroundHandler

\* Notify: a second token is dropped.
Notify(r) ==
    /\ r \in wakeCalls
    /\ wake' = TRUE
    /\ wakeCalls' = wakeCalls \ {r}
    /\ UNCHANGED <<rows, cancelled, stopCalls, changes>> /\ AroundHandler

Tick ==
    /\ now < MaxTime
    /\ now' = now + 1
    /\ UNCHANGED <<rows, loopVars, runVars, cancelled, wake, handlerVars, stopping, faults>>

Shutdown ==
    /\ MayShutDown /\ ~stopping
    /\ stopping' = TRUE
    /\ UNCHANGED <<rows, now, loopVars, runVars, cancelled, wake, handlerVars, faults>>

-----------------------------------------------------------------------------
LoopStep ==
    \/ TakeCompletion \/ Expire \/ ReadDeadline \/ ReadNext \/ DecidePower
    \/ Park \/ WaitStopped \/ WaitWoken \/ WaitCompleted
    \/ TakeSlot \/ ClaimStep \/ MissStep \/ Register \/ Drain \/ Return
RunStep(r) == StartRecording(r) \/ EndRecording(r) \/ FailRecording(r) \/ Unregister(r)
HandlerStep(r) == Add(r) \/ Change(r) \/ Delete(r) \/ NotifyStop(r) \/ Notify(r)

Next ==
    \/ LoopStep
    \/ \E r \in Ids : RunStep(r) \/ HandlerStep(r)
    \/ Tick \/ Shutdown

Spec == Init /\ [][Next]_vars

\* The loop and the goroutines keep running, a handler that committed goes on
\* to its notifications, and time passes.  A recording ends once its planned
\* end is reached or its context is cancelled.
MustEnd(r) == runs[r].at \in Executing /\ (ContextCancelled(r) \/ now >= End(rows[r]))
Fairness ==
    /\ WF_vars(LoopStep) /\ WF_vars(Tick)
    /\ \A r \in Ids :
          /\ WF_vars(StartRecording(r)) /\ WF_vars(Unregister(r))
          /\ WF_vars(MustEnd(r) /\ (EndRecording(r) \/ FailRecording(r)))
          /\ WF_vars(NotifyStop(r)) /\ WF_vars(Notify(r))

LiveSpec == Spec /\ Fairness

-----------------------------------------------------------------------------
(* Properties.                                                             *)

\* The loop's count is the number of recordings it has not collected, so that
\* the limit holds for the goroutines themselves and stopExecutions waits for
\* all of them.
ActiveWithinLimit ==
    /\ active = Cardinality({r \in Ids : runs[r].at \in Unreceived})
    /\ active <= MaximumConcurrent
    /\ pc = "returned" => active = 0

\* The stop registry never refuses a recording that is already claimed, which
\* would stop all the others: a goroutine unregisters before its completion
\* frees the slot.
RegistryAccepts == pc = "register" => Registrable(loop.id)

\* While Run goes on without an error, every open attempt has somebody who will
\* end it: its goroutine, or the loop between the claim and what follows.
AttemptOwned ==
    \A r \in Ids : rows[r].attempt = "open" =>
        \/ runs[r].at \in Unreceived
        \/ pc \in {"register", "missed"} /\ loop.id = r
        \/ halted /\ failed

\* The machine is only put to sleep when no recording is left, and never past
\* a reservation that exists at that moment: each one starts after the idle
\* time and after the alarm.
SleepIsFree ==
    power' # power =>
        /\ \A r \in Ids : runs[r].at \notin Unreceived
        /\ \A r \in Candidates : /\ rows[r].start >= loop.now + MinimumIdle
                                 /\ power'.wakeAt + WakeMargin <= rows[r].start
SleepsOnlyWhenFree == [][SleepIsFree]_vars

\* A reservation whose time has come is started, missed, changed away or given
\* up with the whole run; no wake-up is lost between reading the rows and
\* waiting.
DueIsHandled ==
    \A r \in Ids :
        (r \in Candidates /\ rows[r].start <= now) ~>
            (r \notin Candidates \/ rows[r].start > now \/ pc = "returned")

\* Shutting down, or an error that Run cannot survive, ends Run, after it has
\* collected every recording.
RunReturns == (stopping \/ halted) ~> pc = "returned"

\* spec/recording/user-stopped-recording-v1.md, USTOP-004: one stop cancels
\* the recording of its own reservation and nothing else.  Without faults and
\* shutdown only a stop can make Run cancel all recordings.
StopConfined == faults = 0 /\ ~stopping => ~halted

\* spec/recording/bounded-concurrent-recordings-v1.md, BCR-004: the slot of a
\* programme that has ended is reused for the one that follows it.
SlotReused ==
    [][\A r \in Ids :
          rows'[r].reason = "RECORDING_SLOT_UNAVAILABLE" /\ rows[r].reason = "none" =>
              \A q \in Ids : runs[q].at \in Unreceived => End(rows[q]) > rows[r].start]_vars

-----------------------------------------------------------------------------
(* The inductive invariant: where each attempt, each goroutine and each    *)
(* slot is, for every place that the loop can be at.                       *)

Uncollected == {r \in Ids : runs[r].at \in Unreceived}
Collected == {r \in Ids : runs[r].at = "received"}

\* A version counts the changes of users, and the one that expires the row.
VersionsCounted ==
    \A r \in Ids : rows[r].version <= changes + (IF rows[r].state = "ACTIVE" THEN 1 ELSE 2)

\* A goroutine belongs to an attempt; one that ended without an error settled it.
RunsHaveAttempts ==
    \A r \in Ids :
        /\ rows[r].state = "absent" => rows[r].attempt = "none"
        /\ runs[r].at # "none" => rows[r].attempt # "none"
        /\ runs[r].at \in {"ended", "sending"} /\ runs[r].out # "error" =>
              rows[r].attempt = "settled"

\* The loop's local variables fit where it is: what it took has no goroutine,
\* what it goes on to start has a slot, and it decides on power with none left.
LoopPlaces ==
    /\ pc \in {"slot", "claim", "miss", "register", "missed"} => loop.id \in Ids
    /\ pc \in {"register", "missed"} =>
          rows[loop.id].attempt = "open" /\ runs[loop.id].at = "none"
    /\ pc \in {"claim", "register"} => active < MaximumConcurrent
    /\ pc = "power" => active = 0 /\ pending.present
    /\ pc = "returned" => active = 0
    /\ halted <=> pc \in {"drain", "returned"}

\* The count, the registry and the power decisions say what the goroutines did.
RunsCounted ==
    /\ active = Cardinality(Uncollected)
    /\ registry = {r \in Ids : runs[r].at \in Executing \cup {"ended"}}
    /\ power.count + (IF pending.present THEN 1 ELSE 0) <= Cardinality(Collected)

IInv ==
    /\ TypeOK /\ VersionsCounted /\ RunsHaveAttempts /\ LoopPlaces /\ RunsCounted
    /\ AttemptOwned
=============================================================================
