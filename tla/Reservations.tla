---------------------------- MODULE Reservations ----------------------------
(***************************************************************************)
(* The reservation rows that the scheduler and the reservation service     *)
(* share, and the repository operations on them (internal/adapters/sqlite/ *)
(* recording_repository.go).  Of a recording attempt only what these       *)
(* operations ask is kept: whether there is one, whether it has ended, and *)
(* its stop request; AttemptStore has the rest.  Each operation is one     *)
(* transaction.  Times count in units of the caller's choice.              *)
(***************************************************************************)
EXTENDS Naturals, FiniteSets

CONSTANTS
    N,          \* number of reservations ever made; the ids are 1 .. N
    MaxTime,    \* bound on the clock
    Starts,     \* planned starts a reservation may have (margin included)
    Duration,   \* from the planned start to the planned end
    Priorities, \* requested priorities
    Enabling,   \* {TRUE}, or BOOLEAN when reservations may also be disabled
    Modes,      \* power modes after a recording
    Requests    \* what reservations ask for: some of these modes, or none

ASSUME TimeAssumption ==
    MaxTime \in Nat /\ Starts \subseteq 0 .. MaxTime /\ Duration \in Nat \ {0}
ASSUME IdAssumption == /\ N \in Nat /\ Priorities \subseteq Nat
                       /\ Enabling \subseteq BOOLEAN /\ "none" \notin Modes
                       /\ Requests \subseteq Modes \cup {"none"}

VARIABLES
    rows        \* reservations joined with their attempts, by id

Ids == 1 .. N
Attempts == {"none", "open", "settled"}
RowStates == {"absent", "ACTIVE", "FINISHED"}
RowReasons == {"none", "ATTEMPT_FINISHED", "CANCELLED_BY_USER", "DISABLED_EXPIRED",
               "LATE_START_EXPIRED", "RECORDING_SLOT_UNAVAILABLE"}

NoRow == [state |-> "absent", enabled |-> FALSE, version |-> 0, start |-> 0, created |-> 0,
          priority |-> 0, mode |-> "none", attempt |-> "none", stop |-> FALSE, reason |-> "none"]

Rows(maxVersion) ==
    [state : RowStates, enabled : BOOLEAN, version : 0 .. maxVersion, start : Starts \cup {0},
     created : 0 .. MaxTime, priority : Priorities \cup {0}, mode : Modes \cup {"none"},
     attempt : Attempts, stop : BOOLEAN, reason : RowReasons]

RowsInit == rows = [r \in Ids |-> NoRow]

\* PlannedEnd of a row.
End(row) == row.start + Duration

\* A reservation that nothing has been done for yet.
Unclaimed(r) == rows[r].state = "ACTIVE" /\ rows[r].attempt = "none"

-----------------------------------------------------------------------------
(* What the scheduler reads.                                               *)

Candidates == {r \in Ids : Unclaimed(r) /\ rows[r].enabled}

\* NextActiveReservation's ORDER BY: due before future, due ones by priority,
\* then by planned start and id.
Precedes(r, q, now) ==
    LET due(x) == rows[x].start <= now
        tied == (due(r) <=> due(q)) /\ (due(r) => rows[r].priority = rows[q].priority)
    IN  \/ due(r) /\ ~due(q)
        \/ due(r) /\ due(q) /\ rows[r].priority > rows[q].priority
        \/ tied /\ rows[r].start < rows[q].start
        \/ tied /\ rows[r].start = rows[q].start /\ r < q

\* Its result: at most one id.
NextActiveReservation(now) ==
    {r \in Candidates : \A q \in Candidates \ {r} : Precedes(r, q, now)}

Disabled == {r \in Ids : Unclaimed(r) /\ ~rows[r].enabled}

\* NextDisabledReservationDeadline: at most one time.
NextDisabledDeadline(now) ==
    LET ends == {End(rows[r]) : r \in Disabled}
    IN  {t \in ends : t > now /\ \A u \in ends : u > now => t <= u}

-----------------------------------------------------------------------------
(* What changes the rows.                                                  *)

\* CreateReservation, for a programme that has not ended (Add); the ids are
\* numbered in the order of creation.
CreateReservation(r, start, enabled, priority, mode, now) ==
    /\ rows[r].state = "absent" /\ \A q \in 1 .. r - 1 : rows[q].state # "absent"
    /\ start + Duration > now
    /\ rows' = [rows EXCEPT ![r] =
                  [NoRow EXCEPT !.state = "ACTIVE", !.enabled = enabled, !.version = 1,
                                !.start = start, !.created = now, !.priority = priority,
                                !.mode = mode]]

\* UpdateReservation (the start moves with its margin) and, for the start,
\* ApplyReservationFollow: only before there is an attempt.
UpdateReservation(r, start, enabled, priority, now) ==
    /\ Unclaimed(r)
    /\ enabled => start + Duration > now
    /\ rows' = [rows EXCEPT ![r].start = start, ![r].enabled = enabled,
                            ![r].priority = priority, ![r].version = @ + 1]

\* StopReservation: cancel before there is an attempt, else store the stop.
CancelRow(r) ==
    /\ Unclaimed(r)
    /\ rows' = [rows EXCEPT ![r].state = "FINISHED", ![r].reason = "CANCELLED_BY_USER",
                            ![r].version = @ + 1]
RequestStop(r) ==
    /\ rows[r].attempt = "open"
    /\ rows' = [rows EXCEPT ![r].stop = TRUE]

\* ExpireOneDisabledReservation: the one whose planned end came first.
Expirable(now) == {r \in Disabled : End(rows[r]) <= now}
ExpireOneDisabledReservation(now) ==
    \E r \in Expirable(now) :
        /\ \A q \in Expirable(now) : /\ rows[r].start <= rows[q].start
                                     /\ rows[r].start = rows[q].start => r <= q
        /\ rows' = [rows EXCEPT ![r].state = "FINISHED", ![r].reason = "DISABLED_EXPIRED",
                                ![r].version = @ + 1]

\* ClaimRecording's compare-and-set on the row that the scheduler read.
Claimable(r, version) == Unclaimed(r) /\ rows[r].enabled /\ rows[r].version = version
ClaimRecording(r) == rows' = [rows EXCEPT ![r].attempt = "open"]

\* FinishAttempt, as far as the reservation is concerned.
Settle(r, reason) ==
    rows' = [rows EXCEPT ![r].attempt = "settled", ![r].state = "FINISHED", ![r].reason = reason]
=============================================================================
