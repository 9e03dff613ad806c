---------------------------- MODULE CtrlCmdServer ----------------------------
(***************************************************************************)
(* The CtrlCmd server (internal/app/ctrlcmd/server.go) with the requests   *)
(* of a live view (internal/adapters/ctrlcmd/live/handler.go): connections *)
(* and handlers with separate limits, deadlines against clients that send  *)
(* or receive nothing, the one long-lived request, and the shutdown of     *)
(* cmd/sazanami-dvr/main.go, which waits for every connection.             *)
(***************************************************************************)
EXTENDS Naturals, FiniteSets

CONSTANTS
    Conns,          \* clients that connect
    MaxConnections, \* Config.MaxConnections
    MaxHandlers,    \* Config.MaxHandlers
    Sessions        \* live sessions: liverelay.MaximumSessions of them

ServerAssumption ==
    /\ MaxConnections \in Nat \ {0} /\ MaxHandlers \in 1 .. MaxConnections
    /\ IsFiniteSet(Conns) /\ {"none", "selected"} \cap Conns = {}

VARIABLES
    conn,    \* where serveConnection is for each client
    stalled, \* clients that neither send nor receive
    session, \* what each live session is used for
    listens, \* the listener is open
    serve,   \* whether Serve accepts or has returned
    process  \* the service context, and main's shutdown

serverVars == <<conn, stalled, session, listens, serve, process>>

Handling == {"handle", "flush", "long", "relay"}
Served == {c \in Conns : conn[c] # "out"}
Handlers == {c \in Conns : conn[c] \in Handling}

ServerTypeOK ==
    /\ conn \in [Conns -> {"out", "header", "body"} \cup Handling]
    /\ stalled \subseteq Served
    /\ session \in [Sessions -> {"none", "selected"} \cup Conns]
    /\ listens \in BOOLEAN /\ serve \in {"running", "returned"}
    /\ process \in {"running", "stopping", "closed", "waited"}
    /\ Cardinality(Served) <= MaxConnections /\ Cardinality(Handlers) <= MaxHandlers

ServerInit ==
    /\ conn = [c \in Conns |-> "out"] /\ stalled = {} /\ session = [i \in Sessions |-> "none"]
    /\ listens = TRUE /\ serve = "running" /\ process = "running"

Process == UNCHANGED <<listens, serve, process>>
ConnectionsUnchanged == UNCHANGED <<conn, stalled, session>>

-----------------------------------------------------------------------------
(* Serve.                                                                  *)

\* A connection over the limit is closed at once.
Accept(c) ==
    /\ listens /\ serve = "running" /\ conn[c] = "out"
    /\ Cardinality(Served) < MaxConnections
    /\ conn' = [conn EXCEPT ![c] = "header"]
    /\ UNCHANGED <<stalled, session>> /\ Process

\* Accept fails: by the shutdown, or for want of descriptors.
ServeReturns ==
    /\ serve = "running" /\ serve' = "returned"
    /\ ConnectionsUnchanged /\ UNCHANGED <<listens, process>>

-----------------------------------------------------------------------------
(* serveConnection.                                                        *)

\* relay.Close, when the relay was open: the live session is over.
Released(c) == [i \in Sessions |-> IF session[i] = c THEN "none" ELSE session[i]]

\* The deferred steps: both slots are given back.
Leave(c) ==
    /\ conn' = [conn EXCEPT ![c] = "out"] /\ stalled' = stalled \ {c}
    /\ session' = Released(c)
    /\ Process

Advance(c, at) == conn' = [conn EXCEPT ![c] = at] /\ UNCHANGED stalled /\ Process

\* The client stops sending and receiving, without closing.
Stall(c) ==
    /\ conn[c] # "out" /\ c \notin stalled
    /\ stalled' = stalled \cup {c}
    /\ UNCHANGED <<conn, session>> /\ Process

\* The client closes, or sends what is not a frame within the limits.
Break(c) == conn[c] \in {"header", "body", "flush", "relay"} /\ Leave(c)

ReadHeader(c) == /\ conn[c] = "header" /\ c \notin stalled
                 /\ Advance(c, "body") /\ UNCHANGED session

\* The request is there: with no free handler it is rejected, and only a
\* request for a relay is long-lived.
ReadBody(c) ==
    /\ conn[c] = "body" /\ c \notin stalled
    /\ \/ /\ Cardinality(Handlers) < MaxHandlers
          /\ \/ Advance(c, "handle") \/ Advance(c, "long")
          /\ UNCHANGED session
       \/ Cardinality(Handlers) >= MaxHandlers /\ Leave(c)

\* A faulty buffered answer, sent without a deadline.
ExpiresBeforeFlush(c) == conn[c] \in {"header", "body"} /\ Leave(c)

\* HeaderTimeout and ConnectionLifetime.
Expires(c) == conn[c] \in {"header", "body", "flush"} /\ Leave(c)

\* A request with a deadline: a handler that fails has no answer.  Of those that
\* change something here, 1073 selects and 1074 ends a live session.
Handle(c) ==
    /\ conn[c] = "handle"
    /\ \/ Leave(c)
       \/ /\ Advance(c, "flush")
          /\ \/ UNCHANGED session
             \/ \E i \in Sessions : \/ session[i] = "none" /\ session' = [session EXCEPT ![i] = "selected"]
                                    \/ session' = [session EXCEPT ![i] = "none"]

Flush(c) == conn[c] = "flush" /\ c \notin stalled /\ Leave(c)

\* 301: Operations.Open takes the session of a selection, or fails.
OpenLive(c) ==
    /\ conn[c] = "long"
    /\ \/ \E i \in Sessions : /\ session[i] = "selected" /\ session' = [session EXCEPT ![i] = c]
                              /\ Advance(c, "relay")
       \/ Leave(c)

\* relay.Copy returns: its session was ended, its context too, or its stream.
RelayOver(c) == process # "running" \/ \A i \in Sessions : session[i] # c
CopyReturns(c) == conn[c] = "relay" /\ c \notin stalled /\ Leave(c)

\* rollingDeadlineWriter: LongWriteTimeout without progress.
WriteExpires(c) == conn[c] = "relay" /\ c \in stalled /\ Leave(c)

-----------------------------------------------------------------------------
(* The end of the service.                                                 *)

\* The service ends, for whatever reason; Serve's own return is one.
Stop == /\ process = "running" /\ process' = "stopping"
        /\ ConnectionsUnchanged /\ UNCHANGED <<listens, serve>>

CloseListener == /\ process = "stopping" /\ listens /\ listens' = FALSE
                 /\ ConnectionsUnchanged /\ UNCHANGED <<serve, process>>

\* main has Serve's result before it waits.
Collect == /\ process = "stopping" /\ ~listens /\ serve = "returned" /\ process' = "closed"
           /\ ConnectionsUnchanged /\ UNCHANGED <<listens, serve>>

\* A faulty count that begins with the handler.
CountedHandlers == Handlers

\* The connections that the WaitGroup counts: from their acceptance.
Counted == Served

Wait == /\ process = "closed" /\ Counted = {} /\ process' = "waited"
        /\ ConnectionsUnchanged /\ UNCHANGED <<listens, serve>>

-----------------------------------------------------------------------------
ServerNext ==
    \/ \E c \in Conns :
          \/ Accept(c) \/ Stall(c) \/ Break(c) \/ ReadHeader(c) \/ ReadBody(c) \/ Expires(c)
          \/ Handle(c) \/ Flush(c) \/ OpenLive(c) \/ CopyReturns(c) \/ WriteExpires(c)
    \/ ServeReturns \/ Stop \/ CloseListener \/ Collect \/ Wait

ServerSpec == ServerInit /\ [][ServerNext]_serverVars

\* Deadlines come and handlers heed their contexts; the clients need not do
\* anything, and a relay that is not over need not end.
Accepting == listens
Returned == serve = "returned"
ServerFairness ==
    /\ \A c \in Conns :
          /\ WF_serverVars(Expires(c)) /\ WF_serverVars(Handle(c)) /\ WF_serverVars(OpenLive(c))
          /\ WF_serverVars(WriteExpires(c)) /\ WF_serverVars(RelayOver(c) /\ CopyReturns(c))
    /\ WF_serverVars(~Accepting /\ ServeReturns) /\ WF_serverVars(Returned /\ Stop)
    /\ WF_serverVars(CloseListener \/ Collect) /\ WF_serverVars(Wait)

ServerLiveSpec == ServerSpec /\ ServerFairness

-----------------------------------------------------------------------------
\* When main has waited, no connection is served any more: not one either that
\* was accepted after the service context ended (the stores are closed next).
NothingAfterWait == process = "waited" => Served = {}

\* The inductive invariant: main closes and waits in this order.
Closed == process \in {"closed", "waited"} => ~listens /\ serve = "returned"
ServerIInv == ServerTypeOK /\ Closed /\ NothingAfterWait

\* Whatever a client does, a connection is over in the end or relays to a client
\* that reads.
Leaves(c) == c \notin Served \/ (conn[c] = "relay" /\ c \notin stalled)
ClientsCannotStay == \A c \in Conns : c \in Served ~> Leaves(c)

\* Live views, which last as long as they like, never take all handlers from
\* the other requests for ever (16 handlers against MaximumSessions).
Room == Cardinality(Handlers) < MaxHandlers
RelaysLeaveRoom == []<>Room

\* "Waitは受付済みconnectionの処理終了を待つ": once the service stops, the wait
\* comes to its end with viewers that would go on.
Waiting == process = "stopping"
Waited == process = "waited"
WaitReturns == Waiting ~> Waited
=============================================================================
