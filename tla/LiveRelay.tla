------------------------------ MODULE LiveRelay ------------------------------
(***************************************************************************)
(* Live viewing: the managers of internal/app/liverelay/manager.go (one    *)
(* for CtrlCmd, one for HLS) over the one stream adapter they share        *)
(* (internal/adapters/provider/mirakurun/stream.go).  A manager's lock is  *)
(* held for one step; the stream is opened, read and closed without it,    *)
(* while the client selects again, closes, or the selection expires.       *)
(* A call is one Open with the relay that it returns; the HLS session may  *)
(* close its relay while Copy is reading, the CtrlCmd handler afterwards.  *)
(***************************************************************************)
EXTENDS Naturals, FiniteSets

CONSTANTS
    Networks,           \* NetworkTV ids
    MaximumSessions,    \* MaximumSessions of a manager
    MaximumStreams,     \* maximumConcurrent of the adapter
    LastId,             \* the largest process id, after which they start again
    MaxSelections,      \* bound on selections ever made
    Calls               \* concurrent calls of Open

\* With LastId >= MaximumSessions a Select always finds a free process id.
LiveAssumption ==
    /\ MaximumSessions \in Nat \ {0} /\ MaximumStreams \in Nat \ {0}
    /\ LastId \in Nat /\ LastId >= MaximumSessions
    /\ MaxSelections \in Nat
    /\ IsFiniteSet(Networks) /\ IsFiniteSet(Calls) /\ 0 \notin Networks

VARIABLES
    next,       \* manager.next
    byNetwork,  \* manager.byNetwork, 0 for no entry
    byProcess,  \* manager.byProcess, 0 for no entry
    sel,        \* the selections made, by number
    toCancel,   \* removed by a Select or Close that has yet to cancel them
    cancelled,  \* selections whose cancel function was called
    call,       \* calls of Open and their relays
    active,     \* adapter.active
    stopping    \* the service context is cancelled

tableVars == <<next, byNetwork, byProcess>>
vars == <<tableVars, sel, toCancel, cancelled, call, active, stopping>>

Managers == {"ctrlcmd", "hls"}
Ids == 1 .. LastId
Selections == 1 .. MaxSelections

NoSelection == [manager |-> "none", network |-> 0, id |-> 0, streaming |-> FALSE]
NoCall == [at |-> "idle", sel |-> 0, closed |-> FALSE, reader |-> "none", closer |-> "none"]

\* An Open call up to the relay; then "relay", with the lease's closed flag,
\* the goroutine in Copy and the one in Close.
Opening == {"opening", "connecting", "failed", "opened", "discard"}
Readers == {"none", "reading", "finishing", "stopped"}
Closers == {"none", "finishing", "releasing", "done"}

TypeOK ==
    /\ next \in [Managers -> Ids]
    /\ byNetwork \in [Managers -> [Networks -> {0} \cup Selections]]
    /\ byProcess \in [Managers -> [Ids -> {0} \cup Selections]]
    /\ sel \in [Selections -> [manager : Managers \cup {"none"}, network : Networks \cup {0},
                               id : Ids \cup {0}, streaming : BOOLEAN]]
    /\ toCancel \subseteq Selections /\ cancelled \subseteq Selections
    /\ call \in [Calls -> [at : {"idle", "relay"} \cup Opening, sel : {0} \cup Selections,
                           closed : BOOLEAN, reader : Readers, closer : Closers]]
    /\ active \in 0 .. MaximumStreams
    /\ stopping \in BOOLEAN

Init ==
    /\ next = [m \in Managers |-> 1]
    /\ byNetwork = [m \in Managers |-> [n \in Networks |-> 0]]
    /\ byProcess = [m \in Managers |-> [i \in Ids |-> 0]]
    /\ sel = [s \in Selections |-> NoSelection]
    /\ toCancel = {} /\ cancelled = {}
    /\ call = [c \in Calls |-> NoCall]
    /\ active = 0 /\ stopping = FALSE

-----------------------------------------------------------------------------
(* The tables.                                                             *)

Listed(s) == byProcess[sel[s].manager][sel[s].id] = s
Used(m) == {n \in Networks : byNetwork[m][n] # 0}

\* The tables of removeLocked: only entries that are this very selection go.
Without(table, s) == [m \in Managers |-> [k \in DOMAIN table[m] |->
                         IF s # 0 /\ table[m][k] = s THEN 0 ELSE table[m][k]]]

\* nextProcessIDLocked on the table "process": the first free id from next on.
After(id, k) == ((id - 1 + k) % LastId) + 1
FreeSteps(m, process) == {k \in 0 .. MaximumSessions : process[m][After(next[m], k)] = 0}

NextProcessID(m, process) ==
    LET free == FreeSteps(m, process)
    IN  After(next[m], CHOOSE k \in free : \A j \in free : k <= j)

RemoveListed(s) ==
    /\ byNetwork' = Without(byNetwork, s)
    /\ byProcess' = Without(byProcess, s)
    /\ UNCHANGED next

-----------------------------------------------------------------------------
(* The clients.                                                            *)

\* Select, once the service is resolved: replace what the network id had.
Select(m, n) ==
    /\ byNetwork[m][n] # 0 \/ Cardinality(Used(m)) < MaximumSessions
    /\ \E s \in Selections :
          /\ sel[s] = NoSelection /\ \A t \in Selections : t < s => sel[t] # NoSelection
          /\ LET process == Without(byProcess, byNetwork[m][n])
                 id == NextProcessID(m, process)
             IN  /\ sel' = [sel EXCEPT ![s] = [NoSelection EXCEPT !.manager = m,
                                                 !.network = n, !.id = id]]
                 /\ byProcess' = [process EXCEPT ![m][id] = s]
                 /\ next' = [next EXCEPT ![m] = After(id, 1)]
          /\ byNetwork' = [byNetwork EXCEPT ![m][n] = s]
    /\ toCancel' = toCancel \cup ({byNetwork[m][n]} \ {0})
    /\ UNCHANGED <<cancelled, call, active, stopping>>

\* Close of a network id that is in use.
CloseNetwork(m, n) ==
    /\ byNetwork[m][n] # 0
    /\ RemoveListed(byNetwork[m][n])
    /\ toCancel' = toCancel \cup {byNetwork[m][n]}
    /\ UNCHANGED <<sel, cancelled, call, active, stopping>>

\* manager.cancel after the lock is released: cancel is nil before Open.
CancelRemoved(s) ==
    /\ s \in toCancel
    /\ toCancel' = toCancel \ {s}
    /\ cancelled' = IF sel[s].streaming THEN cancelled \cup {s} ELSE cancelled
    /\ UNCHANGED <<tableVars, sel, call, active, stopping>>

\* A faulty expiry that does not ask whether Open came first.
ExpireStreaming(s) ==
    /\ sel[s] # NoSelection /\ Listed(s)
    /\ RemoveListed(s)
    /\ UNCHANGED <<sel, toCancel, cancelled, call, active, stopping>>

\* expire: the timer's function may have been waiting for the lock while Open
\* stopped the timer.
Expire(s) ==
    /\ sel[s] # NoSelection /\ Listed(s) /\ ~sel[s].streaming
    /\ RemoveListed(s)
    /\ UNCHANGED <<sel, toCancel, cancelled, call, active, stopping>>

\* The process ends: contexts are cancelled, then CloseAll of each manager.
Shutdown ==
    /\ ~stopping
    /\ stopping' = TRUE
    /\ UNCHANGED <<tableVars, sel, toCancel, cancelled, call, active>>

CloseAll(m) ==
    /\ stopping /\ Used(m) # {}
    /\ byNetwork' = [byNetwork EXCEPT ![m] = [n \in Networks |-> 0]]
    /\ byProcess' = [byProcess EXCEPT ![m] = [i \in Ids |-> 0]]
    /\ toCancel' = toCancel \cup {byNetwork[m][n] : n \in Used(m)}
    /\ UNCHANGED <<next, sel, cancelled, call, active, stopping>>

-----------------------------------------------------------------------------
(* Open.                                                                   *)

Cancelled(c) == stopping \/ call[c].sel \in cancelled
At(c, label) == call' = [call EXCEPT ![c].at = label]
AroundCall == UNCHANGED <<next, sel, toCancel, stopping>>
SameTables == UNCHANGED <<byNetwork, byProcess>>

\* Open consumes the process id under the lock.
Open(c, m, i) ==
    /\ call[c] = NoCall
    /\ byProcess[m][i] # 0 /\ ~sel[byProcess[m][i]].streaming
    /\ sel' = [sel EXCEPT ![byProcess[m][i]].streaming = TRUE]
    /\ call' = [call EXCEPT ![c] = [NoCall EXCEPT !.at = "opening", !.sel = byProcess[m][i]]]
    /\ UNCHANGED <<tableVars, toCancel, cancelled, active, stopping>>

\* OpenStream counts the stream against the limit that all live streams share;
\* it refuses at the limit and under a context that has ended (the client may be
\* gone as well).
Count(c) ==
    /\ call[c].at = "opening"
    /\ \/ /\ ~Cancelled(c) /\ active < MaximumStreams
          /\ active' = active + 1 /\ At(c, "connecting")
       \/ At(c, "failed") /\ UNCHANGED active
    /\ UNCHANGED cancelled /\ SameTables /\ AroundCall

\* A faulty failure path: the count is not given back.
ConnectUnreleased(c) ==
    /\ call[c].at = "connecting"
    /\ \E label \in {"opened", "failed"} : At(c, label)
    /\ UNCHANGED <<cancelled, active>> /\ SameTables /\ AroundCall

\* adapter.active, released; it never falls below zero.
Release == active' = IF active > 0 THEN active - 1 ELSE 0

\* The HTTP request: a lease, or a failure that gives the count back.
Connect(c) ==
    /\ call[c].at = "connecting"
    /\ \/ At(c, "opened") /\ UNCHANGED active
       \/ At(c, "failed") /\ Release
    /\ UNCHANGED cancelled /\ SameTables /\ AroundCall

\* A stream that could not be opened: cancel and release.
OpenFailed(c) ==
    /\ call[c].at = "failed"
    /\ cancelled' = cancelled \cup {call[c].sel}
    /\ RemoveListed(call[c].sel)
    /\ call' = [call EXCEPT ![c] = NoCall]
    /\ UNCHANGED active /\ AroundCall

\* The selection may have gone while the stream was being opened.
Recheck(c) ==
    /\ call[c].at = "opened"
    /\ call' = [call EXCEPT ![c].at = IF Listed(call[c].sel) THEN "relay" ELSE "discard",
                            ![c].reader = IF Listed(call[c].sel) THEN "reading" ELSE "none"]
    /\ UNCHANGED <<cancelled, active>> /\ SameTables /\ AroundCall

\* Then nobody else knows the lease: close it and cancel.
Discard(c) ==
    /\ call[c].at = "discard"
    /\ Release
    /\ cancelled' = cancelled \cup {call[c].sel}
    /\ call' = [call EXCEPT ![c] = NoCall]
    /\ SameTables /\ AroundCall

-----------------------------------------------------------------------------
(* The relay: Copy and Close, and the lease's finish in each of them.      *)

\* finish, under the lease's lock: where its caller goes on, label if it is
\* the one that has to release the stream.
Finish(closed, label) == IF closed THEN "none" ELSE label

\* Copy returns: the stream ended or was cancelled (Read calls finish), or the
\* destination failed.
EndCopy(c) ==
    LET finish == Finish(call[c].closed, "finishing")
    IN  call' = [call EXCEPT ![c].closed = TRUE,
                             ![c].reader = IF finish = "none" THEN "stopped" ELSE finish]

CopyEnds(c) ==
    /\ call[c].at = "relay" /\ call[c].reader = "reading"
    /\ \/ EndCopy(c)
       \/ call' = [call EXCEPT ![c].reader = "stopped"]
    /\ UNCHANGED <<cancelled, active>> /\ SameTables /\ AroundCall

ReaderReleases(c) ==
    /\ call[c].reader = "finishing"
    /\ Release
    /\ call' = [call EXCEPT ![c].reader = "stopped"]
    /\ UNCHANGED cancelled /\ SameTables /\ AroundCall

\* relay.Close, once: cancel the context, finish the lease.
CloseRelay(c) ==
    /\ call[c].at = "relay" /\ call[c].closer = "none"
    /\ call[c].reader = "stopped" \/ sel[call[c].sel].manager = "hls"
    /\ cancelled' = cancelled \cup {call[c].sel}
    /\ LET finish == Finish(call[c].closed, "finishing")
       IN  call' = [call EXCEPT ![c].closed = TRUE,
                                ![c].closer = IF finish = "none" THEN "releasing" ELSE finish]
    /\ UNCHANGED active /\ SameTables /\ AroundCall

CloserReleases(c) ==
    /\ call[c].closer = "finishing"
    /\ Release
    /\ call' = [call EXCEPT ![c].closer = "releasing"]
    /\ UNCHANGED cancelled /\ SameTables /\ AroundCall

\* Close's last step gives the session back.
ReleaseSelection(c) ==
    /\ call[c].closer = "releasing"
    /\ RemoveListed(call[c].sel)
    /\ call' = [call EXCEPT ![c].closer = "done"]
    /\ UNCHANGED <<cancelled, active>> /\ AroundCall

\* Both goroutines are through.
Ended(c) ==
    /\ call[c].closer = "done" /\ call[c].reader = "stopped"
    /\ call' = [call EXCEPT ![c] = NoCall]
    /\ UNCHANGED <<cancelled, active>> /\ SameTables /\ AroundCall

-----------------------------------------------------------------------------
CallStep(c) ==
    \/ Count(c) \/ Connect(c) \/ OpenFailed(c) \/ Recheck(c) \/ Discard(c)
    \/ ReaderReleases(c) \/ CloserReleases(c) \/ ReleaseSelection(c) \/ Ended(c)
ClientStep ==
    \/ \E m \in Managers, n \in Networks : Select(m, n) \/ CloseNetwork(m, n)
    \/ \E c \in Calls, m \in Managers, i \in Ids : Open(c, m, i)

Next ==
    \/ ClientStep
    \/ \E s \in Selections : CancelRemoved(s) \/ Expire(s)
    \/ \E c \in Calls : CallStep(c) \/ CopyEnds(c) \/ CloseRelay(c)
    \/ Shutdown \/ \E m \in Managers : CloseAll(m)

Spec == Init /\ [][Next]_vars

\* Goroutines go on; Read returns once its context is cancelled, and a write to
\* the viewer has a deadline; whoever got a relay closes it after Copy.  No peer,
\* timer or client need do anything.
Stopped(c) == call[c].reader = "stopped"
Fairness ==
    /\ \A c \in Calls :
          /\ WF_vars(CallStep(c))
          /\ WF_vars(Cancelled(c) /\ CopyEnds(c))
          /\ WF_vars(Stopped(c) /\ CloseRelay(c))
    /\ \A s \in Selections : WF_vars(CancelRemoved(s))

LiveSpec == Spec /\ Fairness

-----------------------------------------------------------------------------
(* Properties.                                                             *)

Serving(c) == call[c] # NoCall
Holds(c) ==
    \/ call[c].at \in {"connecting", "opened", "discard"}
    \/ call[c].at = "relay" /\ (~call[c].closed \/ "finishing" \in {call[c].reader, call[c].closer})

\* The adapter counts exactly the streams that somebody still has to release:
\* none is released twice by Copy and Close (streamLease.finish), and none is
\* lost when an opening fails or comes too late.
StreamsCounted == active = Cardinality({c \in Calls : Holds(c)})

\* CLR-008: one process id is one stream, whatever Open calls race for it.
OpenedOnce == \A c, d \in Calls : Serving(c) /\ call[c].sel = call[d].sel => c = d

\* The two tables hold the same selections, each under its own ids, within the
\* limit, also after the process ids started again (nextProcessIDLocked).
TablesAgree ==
    \A m \in Managers :
        /\ \A n \in Networks : byNetwork[m][n] # 0 =>
              LET s == byNetwork[m][n]
              IN  sel[s].manager = m /\ sel[s].network = n /\ Listed(s)
        /\ \A i \in Ids : byProcess[m][i] # 0 =>
              LET s == byProcess[m][i]
              IN  sel[s].manager = m /\ sel[s].id = i /\ byNetwork[m][sel[s].network] = s
        /\ Cardinality(Used(m)) <= MaximumSessions

\* A session in use has a call that will give it back: no failure of opening
\* takes one of the few sessions for ever.
SessionOwned ==
    \A s \in Selections :
        sel[s].streaming /\ Listed(s) => \E c \in Calls : Serving(c) /\ call[c].sel = s

\* A stream whose selection is gone is cancelled, is about to be, or closes by
\* itself: expiry, replacement and closing never leave one running unseen.
UnlistedIsCancelled ==
    \A c \in Calls :
        Serving(c) /\ ~Listed(call[c].sel) =>
            \/ stopping \/ call[c].sel \in cancelled \cup toCancel

\* No stream, selection or use is lost or counted twice.
LiveSound == StreamsCounted /\ TablesAgree /\ SessionOwned /\ UnlistedIsCancelled

\* A replaced, closed or failed use ends: its stream is given back without any
\* help of the peer or the viewer.
Removed(c) == Serving(c) /\ ~Listed(call[c].sel)
RemovedStreamEnds == \A c \in Calls : Removed(c) ~> ~Serving(c)

\* When the service stops, every live stream is given back, and stays so.
Stopping == stopping
NoneHeld == active = 0
AllReleased == Stopping ~> []NoneHeld

-----------------------------------------------------------------------------
(* The inductive invariant: what a call's place says of its lease, its     *)
(* selection and its context.                                              *)

SelectionsMade ==
    \A s \in Selections :
        \/ sel[s] = NoSelection
        \/ sel[s].manager \in Managers /\ sel[s].network \in Networks /\ sel[s].id \in Ids

\* Before there is a relay nobody closes the lease; from then on whoever closed
\* it first, and nobody else, finishes it.
LeaseShape(k) ==
    /\ k.at = "idle" => k = NoCall
    /\ k.at \in Opening => ~k.closed /\ k.reader = "none" /\ k.closer = "none"
    /\ k.at = "relay" =>
          /\ k.reader # "none"
          /\ ~k.closed => k.reader # "finishing" /\ k.closer = "none"
          /\ ~(k.reader = "finishing" /\ k.closer = "finishing")
LeasesShaped == \A c \in Calls : LeaseShape(call[c])

\* A call in use has consumed its selection, gives it back before it is done,
\* and cancels its context before it closes.
CallsFollow ==
    \A c \in Calls : Serving(c) =>
        /\ call[c].sel \in Selections /\ sel[call[c].sel].streaming
        /\ call[c].at = "discard" \/ call[c].closer = "done" => ~Listed(call[c].sel)
        /\ call[c].closer # "none" => call[c].sel \in cancelled

IInv ==
    /\ TypeOK /\ SelectionsMade /\ LeasesShaped /\ CallsFollow
    /\ OpenedOnce /\ LiveSound
=============================================================================
