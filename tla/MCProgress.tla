----------------------------- MODULE MCProgress -----------------------------
(* Progress of parts that share no state, for TLC, as in MCSafety.  Clients   *)
(* of the CtrlCmd server are interchangeable, and so are the calls of the     *)
(* live relay: what is stated of the first holds of all.                      *)
EXTENDS Naturals

VARIABLES
    part,   \* the part that the behaviour is about
    \* its variables, by position
    v1, v2, v3, v4, v5, v6, v7, v8, v9, v10, v11, v12, v13, v14, v15, v16,
    v17, v18

\* One packet, one reconnection, one crash and one failing operation.
OneSeg == INSTANCE OneSeg WITH
    Packet <- 2, MaxBytes <- 2, ForeignSize <- 1, MaxReconnects <- 1,
    MaxCrashes <- 1, MaxFaults <- 1, MaxUserOps <- 0,
    att <- v1, main <- v2, one <- v3, dir <- v4, crashDirs <- v5,
    size <- v6, syncedSize <- v7, proc <- v8, pc <- v9, mem <- v10,
    cancelled <- v11, coord <- v12, aux <- v13, done <- v14, crashes <- v15,
    faults <- v16, userOps <- v17, month <- v18

\* Two programmes and rules with one of two conditions: both programmes match,
\* or the second only, whose title is the first one's.
Both == [matches |-> {1, 2}, resolves |-> {1, 2}, repeats |-> {}]
Repeat == [matches |-> {2}, resolves |-> {2}, repeats |-> {<<1, 2>>}]
Auto == INSTANCE AutoReservation WITH
    NPrograms <- 2, Passing <- {2}, Conditions <- {Both, Repeat},
    MaxRules <- 1, MaxNumber <- 2, MaxActive <- 1, MaxRows <- 2,
    MaxPerRun <- 1, MaxAutoFaults <- 1,
    rules <- v1, made <- v2, rows <- v3, matches <- v4, ahead <- v5,
    run <- v6, faults <- v7

\* Three clients for two handlers, one of which a live view may take.
Server == INSTANCE CtrlCmdServer WITH
    Conns <- {"a", "b", "c"}, MaxConnections <- 3, MaxHandlers <- 2,
    Sessions <- {1},
    conn <- v1, stalled <- v2, session <- v3, listens <- v4, serve <- v5,
    process <- v6

\* Two calls for one network id that is selected twice.
Relay == INSTANCE LiveRelay WITH
    Networks <- {1}, Calls <- {1, 2}, MaximumSessions <- 1,
    MaximumStreams <- 2, LastId <- 2, MaxSelections <- 2,
    next <- v1, byNetwork <- v2, byProcess <- v3, sel <- v4, toCancel <- v5,
    cancelled <- v6, call <- v7, active <- v8, stopping <- v9

\* One HLS session.
Session == INSTANCE HlsSession WITH
    Slots <- {0}, Keys <- {"key"}, MaxSelections <- 1, MaxTouches <- 1,
    slot <- v1, busy <- v2, sess <- v3, live <- v4, firing <- v5,
    keys <- v6, sessions <- v7, closed <- v8, closing <- v9, stopped <- v10

\* Two operations, of which two commands are killed and one fails.
Restore == INSTANCE DatabaseRestore WITH
    OperationCap <- 2, MaxKills <- 2, MaxErrors <- 1, MaxRevision <- 0,
    files <- v1, op <- v2, partial <- v3, command <- v4, operations <- v5,
    touched <- v6, errors <- v7, kills <- v8

\* Three generations of one event, of which two are protected; a reservation.
Guide == {[start |-> 1, dur |-> 1], [start |-> 2, dur |-> 2], [start |-> 5, dur |-> 1]}
Answers ==
    {[svc |-> TRUE, prog |-> "valid", content |-> c] : c \in Guide}
        \cup {[svc |-> up, prog |-> IF up THEN "none" ELSE "invalid",
               content |-> [start |-> 1, dur |-> 1]] : up \in BOOLEAN}
Cat == INSTANCE Catalogue WITH
    Locators <- {"event"}, First <- [start |-> 1, dur |-> 1],
    Configured <- {"event"}, Contents <- Guide, Offers <- Answers,
    Generations <- 3, Kept <- 2, Retention <- 1, Horizon <- 2, MaxShift <- 1,
    Batch <- 1, Numbers <- {1}, MaxPage <- 1, ExtensionOnly <- FALSE,
    MaxTime <- 3, MaxFaults <- 1, MaxUserOps <- 1,
    syncs <- v1, svcObs <- v2, progObs <- v3, services <- v4, instances <- v5,
    revisions <- v6, resv <- v7, now <- v8, pc <- v9, work <- v10,
    holder <- v11, request <- v12, told <- v13, budget <- v14

ASSUME ProgressAssumption ==
    /\ OneSeg!OneSegAssumption /\ Auto!AutoAssumption /\ Server!ServerAssumption
    /\ Relay!LiveAssumption /\ Session!HlsAssumption /\ Restore!RestoreAssumption
    /\ Cat!CatalogueAssumption /\ Cat!RefreshAssumption

-----------------------------------------------------------------------------
\* The variables of each part, and those that it does not use.
onesegVars == <<v1, v2, v3, v4, v5, v6, v7, v8, v9, v10, v11, v12, v13, v14,
                v15, v16, v17, v18>>
autoVars == <<v1, v2, v3, v4, v5, v6, v7>>
serverVars == <<v1, v2, v3, v4, v5, v6>>
relayVars == <<v1, v2, v3, v4, v5, v6, v7, v8, v9>>
sessionVars == <<v1, v2, v3, v4, v5, v6, v7, v8, v9, v10>>
restoreVars == <<v1, v2, v3, v4, v5, v6, v7, v8>>
catVars == <<v1, v2, v3, v4, v5, v6, v7, v8, v9, v10, v11, v12, v13, v14>>
After6 == <<v7, v8, v9, v10, v11, v12, v13, v14, v15, v16, v17, v18>>
After7 == <<v8, v9, v10, v11, v12, v13, v14, v15, v16, v17, v18>>
After8 == <<v9, v10, v11, v12, v13, v14, v15, v16, v17, v18>>
After9 == <<v10, v11, v12, v13, v14, v15, v16, v17, v18>>
After10 == <<v11, v12, v13, v14, v15, v16, v17, v18>>
After14 == <<v15, v16, v17, v18>>

Unused14 == v15 = 0 /\ v16 = 0 /\ v17 = 0 /\ v18 = 0
Unused10 == v11 = 0 /\ v12 = 0 /\ v13 = 0 /\ v14 = 0 /\ Unused14
Unused9 == v10 = 0 /\ Unused10
Unused8 == v9 = 0 /\ Unused9
Unused7 == v8 = 0 /\ Unused8
Unused6 == v7 = 0 /\ Unused7

Init ==
    \/ part = "oneseg" /\ OneSeg!Init
    \/ part = "auto" /\ Auto!AutoInit /\ Unused7
    \/ part = "server" /\ Server!ServerInit /\ Unused6
    \/ part = "relay" /\ Relay!Init /\ Unused9
    \/ part = "session" /\ Session!SessionInit /\ Unused10
    \/ part = "restore" /\ Restore!RestoreInit /\ Unused8
    \/ part = "catalogue" /\ Cat!Init /\ Unused14

Next ==
    /\ UNCHANGED part
    /\ \/ part = "oneseg" /\ OneSeg!OneSegNext
       \/ part = "auto" /\ Auto!AutoNext /\ UNCHANGED After7
       \/ part = "server" /\ Server!ServerNext /\ UNCHANGED After6
       \/ part = "relay" /\ Relay!Next /\ UNCHANGED After9
       \/ part = "session" /\ Session!SessionNext /\ UNCHANGED After10
       \/ part = "restore" /\ Restore!RestoreNext /\ UNCHANGED After8
       \/ part = "catalogue" /\ Cat!Next /\ UNCHANGED After14

vars == <<part, v1, v2, v3, v4, v5, v6, v7, v8, v9, v10, v11, v12, v13, v14,
                v15, v16, v17, v18>>
Spec == Init /\ [][Next]_vars

\* The fairness of OneSeg, AutoReservation, CtrlCmdServer, LiveRelay, HlsSession,
\* Catalogue and DatabaseRestore.  A behaviour is of one part, and the fairness of the others
\* says nothing of it: each property but the restore's has the fairness of its own
\* part as its hypothesis, which spares TLC the rest.
OneSegFairness ==
    /\ WF_onesegVars(part = "oneseg" /\ OneSeg!Recorder)
    /\ WF_onesegVars(part = "oneseg" /\ OneSeg!Restart)
    /\ WF_onesegVars(part = "oneseg" /\ OneSeg!Recovery)
    /\ WF_onesegVars(part = "oneseg" /\ OneSeg!HelperRuns)
    /\ WF_onesegVars(part = "oneseg" /\ OneSeg!HelperCopyEnds)
AutoFairness ==
    /\ WF_autoVars(part = "auto" /\ Auto!StartRun)
    /\ WF_autoVars(part = "auto" /\ Auto!RunStep)
ServerFairness ==
    /\ \A c \in {"a", "b", "c"} :
          /\ WF_serverVars(part = "server" /\ Server!Expires(c))
          /\ WF_serverVars(part = "server" /\ Server!Handle(c))
          /\ WF_serverVars(part = "server" /\ Server!OpenLive(c))
          /\ WF_serverVars(part = "server" /\ Server!WriteExpires(c))
          /\ WF_serverVars(part = "server" /\ Server!RelayOver(c) /\ Server!CopyReturns(c))
    /\ WF_serverVars(part = "server" /\ ~Server!Accepting /\ Server!ServeReturns)
    /\ WF_serverVars(part = "server" /\ Server!Returned /\ Server!Stop)
    /\ WF_serverVars(part = "server" /\ (Server!CloseListener \/ Server!Collect))
    /\ WF_serverVars(part = "server" /\ Server!Wait)
RelayFairness ==
    /\ \A c \in 1 .. 2 :
          /\ WF_relayVars(part = "relay" /\ Relay!CallStep(c))
          /\ WF_relayVars(part = "relay" /\ Relay!Cancelled(c) /\ Relay!CopyEnds(c))
          /\ WF_relayVars(part = "relay" /\ Relay!Stopped(c) /\ Relay!CloseRelay(c))
    /\ \A s \in 1 .. 2 :
          /\ WF_relayVars(part = "relay" /\ Relay!CancelRemoved(s))
SessionFairness ==
    /\ WF_sessionVars(part = "session" /\ Session!RequestStep(0))
    /\ WF_sessionVars(part = "session" /\ Session!SelectionTimer(0))
    /\ WF_sessionVars(part = "session" /\ Session!WorkerStep("key"))
    /\ WF_sessionVars(part = "session" /\ Session!MustEnd("key") /\ Session!CopyEnds("key"))
    /\ WF_sessionVars(part = "session" /\ Session!IdleTimer("key"))
    /\ WF_sessionVars(part = "session" /\ Session!RetentionEnds("key"))
    /\ WF_sessionVars(part = "session" /\ Session!Callback)
    /\ WF_sessionVars(part = "session" /\ Session!CloseStep)
CatFairness == WF_catVars(part = "catalogue" /\ (Cat!Refresh \/ Cat!SyncError))
RestoreFairness ==
    /\ WF_restoreVars(part = "restore" /\ Restore!CommandStep)
    /\ WF_restoreVars(part = "restore" /\ Restore!BeginRecovery)

LiveSpec == Spec /\ RestoreFairness

-----------------------------------------------------------------------------
\* P holds of the part called name.
In(name, P) == part = name /\ P

\* The goroutine of a recording waits for its one-seg helper, and both end.
RecordingEnds ==
    OneSegFairness => (In("oneseg", OneSeg!Running) ~> In("oneseg", ~OneSeg!Running))
\* A programme that rules go on matching is reserved in the end, if there is
\* room; one whose title has been recorded does not stay reserved (ARTD-009).
AutomaticSettles ==
    AutoFairness =>
        \A p \in 1 .. 2 :
            /\ <>[]In("auto", Auto!Wanted(p)) => <>In("auto", Auto!Previous(p))
            /\ <>[]In("auto", Auto!Repeated(p)) => []<>In("auto", Auto!NoneWaits(p))
\* A CtrlCmd client cannot stay but by reading a live view, live views never take
\* all the handlers for ever, and main's wait for the server comes to its end.
ServerSettles ==
    ServerFairness =>
        /\ In("server", "a" \in Server!Served) ~> In("server", Server!Leaves("a"))
        /\ part = "server" => []<>In("server", Server!Room)
        /\ In("server", Server!Waiting) ~> In("server", Server!Waited)
\* A replaced, closed or failed use of a stream ends; when the service stops,
\* every live stream is given back, and stays so.
StreamsEnd ==
    RelayFairness =>
        /\ In("relay", Relay!Removed(1)) ~> In("relay", ~Relay!Serving(1))
        /\ In("relay", Relay!Stopping) ~> []In("relay", Relay!NoneHeld)
\* KHL-017: an HLS worker whose session was stopped ends, and a session that has
\* ended is forgotten after its retention.
SessionsEnd ==
    SessionFairness =>
        /\ In("session", Session!WasStopped("key")) ~> In("session", Session!Over("key"))
        /\ In("session", Session!Remembered("key")) ~> In("session", ~Session!Remembered("key"))
\* A refresh pass ends: a sweep in batches, the walks and the paging all come to
\* an end, also when a step fails.
PassEnds ==
    CatFairness => (In("catalogue", Cat!PassBegins) ~> In("catalogue", Cat!PassOver))
\* Recovery takes an interrupted restore to an end, unless its partial manifest is left.
RecoveryEnds == In("restore", Restore!Interrupted) ~> In("restore", Restore!Settled)
=============================================================================
