--------------------------- MODULE SchedulerProofs --------------------------
(***************************************************************************)
(* Proofs about Scheduler for every number of reservations and slots, every*)
(* limit and margin, every set of planned starts, priorities and modes, and*)
(* every bound on time, changes and faults.                                *)
(***************************************************************************)
EXTENDS Scheduler, FiniteSetTheorems, TLAPS

-----------------------------------------------------------------------------
(* Types that several lemmas name.                                         *)

RowTypes == Rows(MaxVersion)
LoopTypes == [now : 0 .. MaxTime, timer : 0 .. Never, id : Ids \cup {0},
              version : 0 .. MaxVersion, reason : {"none"} \cup MissReasons]
RunTypes == [at : {"none", "received"} \cup Unreceived, out : Outcomes]
CandidateTypes == [mode : Modes \cup {"none"}, present : BOOLEAN, conflict : BOOLEAN]
PowerTypes == [count : 0 .. N, mode : Modes \cup {"none"}, wakeAt : 0 .. Never]

Registered(r) == runs[r].at \in Executing \cup {"ended"}

\* The numbers are natural and the ranges ordered.
LEMMA Numbers ==
    /\ N \in Nat /\ MaxTime \in Nat /\ Never \in Nat /\ MaxVersion \in Nat
    /\ MaxTime < Never /\ 0 \in 0 .. MaxTime /\ Never \in 0 .. Never /\ 0 \in 0 .. MaxVersion
    /\ Starts \subseteq 0 .. MaxTime /\ Priorities \cup {0} \subseteq Nat /\ Ids \subseteq Nat \ {0}
    /\ "none" \notin Modes /\ Requests \subseteq Modes \cup {"none"}
<1>1. N \in Nat /\ Priorities \subseteq Nat /\ "none" \notin Modes
      /\ Requests \subseteq Modes \cup {"none"}
  BY IdAssumption
<1>2. Priorities \cup {0} \subseteq Nat
  BY <1>1
<1> QED
  BY <1>1, <1>2, TimeAssumption, SchedulerAssumption DEF Never, MaxVersion, Ids

\* A fault is counted within its bound.
LEMMA FaultCounted ==
    ASSUME TypeOK, Fault \/ UNCHANGED faults
    PROVE  faults' \in 0 .. MaxFaults
<1>1. MaxFaults \in Nat
  BY SchedulerAssumption
<1>2. faults \in 0 .. MaxFaults
  BY DEF TypeOK
<1> QED
  BY <1>1, <1>2 DEF Fault

\* The loop's variables at the head of a round.
LEMMA NoLoopTyped == NoLoop \in LoopTypes
BY Numbers DEF NoLoop, LoopTypes

\* The ids are finitely many, and so is every set of them.
LEMMA IdsFinite ==
    /\ IsFiniteSet(Ids) /\ Cardinality(Ids) = N
    /\ \A S \in SUBSET Ids :
          IsFiniteSet(S) /\ Cardinality(S) \in Nat /\ Cardinality(S) <= N
<1>1. IsFiniteSet(Ids) /\ Cardinality(Ids) = N
  <2>1. N \in Nat
    BY IdAssumption
  <2>2. IsFiniteSet(1 .. N) /\ Cardinality(1 .. N) = IF 1 > N THEN 0 ELSE N - 1 + 1
    BY <2>1, FS_Interval
  <2> QED
    BY <2>1, <2>2 DEF Ids
<1>2. ASSUME NEW S \in SUBSET Ids
      PROVE  IsFiniteSet(S) /\ Cardinality(S) \in Nat /\ Cardinality(S) <= N
  BY <1>1, FS_Subset, FS_CardinalityType
<1> QED
  BY <1>1, <1>2

-----------------------------------------------------------------------------
(* What the loop reads.                                                    *)

\* The fields of a row that the comparisons use.
LEMMA RowFields ==
    ASSUME rows \in [Ids -> RowTypes], NEW r \in Ids
    PROVE  /\ r \in Nat /\ rows[r].start \in 0 .. MaxTime /\ rows[r].start \in Nat
           /\ rows[r].priority \in Nat /\ End(rows[r]) \in 0 .. Never
<1>1. rows[r] \in Rows(MaxVersion)
  BY DEF RowTypes
<1>2. rows[r].start \in Starts \cup {0} /\ rows[r].priority \in Priorities \cup {0}
  BY <1>1 DEF Rows
<1>3. rows[r].start \in 0 .. MaxTime
  BY <1>2, Numbers
<1>4. rows[r].priority \in Nat
  BY <1>2, Numbers, Zenon
<1> QED
  BY <1>3, <1>4, Numbers, TimeAssumption DEF End, Never

\* Of two candidates exactly one comes first, and coming first is transitive.
LEMMA PrecedesOrders ==
    ASSUME rows \in [Ids -> RowTypes], NEW t \in Nat
    PROVE  /\ \A r \in Ids : ~Precedes(r, r, t)
           /\ \A r, q \in Ids : r # q => Precedes(r, q, t) \/ Precedes(q, r, t)
           /\ \A r, q, p \in Ids : Precedes(r, q, t) /\ Precedes(q, p, t) => Precedes(r, p, t)
<1>1. \A r \in Ids : r \in Nat /\ rows[r].start \in Nat /\ rows[r].priority \in Nat
  BY RowFields
<1> QED
  BY <1>1 DEF Precedes

\* NextActiveReservation finds at most one reservation.
LEMMA NextIsUnique ==
    ASSUME rows \in [Ids -> RowTypes], NEW t \in Nat,
           NEW r \in NextActiveReservation(t), NEW q \in NextActiveReservation(t)
    PROVE  r = q
BY PrecedesOrders DEF NextActiveReservation, Candidates

\* It finds one if there is any candidate: among finitely many there is one
\* that the fewest precede, and none precedes that one.
LEMMA NextExists ==
    ASSUME rows \in [Ids -> RowTypes], NEW t \in Nat, Candidates # {}
    PROVE  NextActiveReservation(t) # {}
<1> DEFINE Before(r) == {q \in Candidates : Precedes(q, r, t)}
           Sizes == {Cardinality(Before(r)) : r \in Candidates}
<1>1. Candidates \subseteq Ids
  BY DEF Candidates
<1>2. \A r \in Candidates : IsFiniteSet(Before(r)) /\ Cardinality(Before(r)) \in Nat
  BY <1>1, IdsFinite
<1>3. Sizes \subseteq Nat /\ Sizes # {}
  BY <1>2
<1>4. PICK n \in Sizes : \A m \in Sizes : <<m, n>> \notin OpToRel(<, Nat)
  BY <1>3, NatLessThanWellFounded, WFMin
<1>5. PICK r \in Candidates : n = Cardinality(Before(r))
  BY <1>4
<1>6. \A m \in Sizes : ~(m < n)
  BY <1>3, <1>4 DEF OpToRel
<1>7. ASSUME NEW q \in Before(r)
      PROVE  FALSE
  <2>1. Before(q) \subseteq Before(r) /\ q \notin Before(q) /\ q \in Before(r)
    BY <1>1, <1>7, PrecedesOrders
  <2>2. Cardinality(Before(q)) <= Cardinality(Before(r))
        /\ (Cardinality(Before(q)) = Cardinality(Before(r)) => Before(r) = Before(q))
    BY <1>2, <2>1, FS_Subset
  <2>3. Cardinality(Before(q)) < n
    BY <1>2, <1>5, <2>1, <2>2
  <2> QED
    BY <1>6, <2>3
<1>8. r \in NextActiveReservation(t)
  BY <1>1, <1>7, PrecedesOrders DEF NextActiveReservation
<1> QED
  BY <1>8

\* The deadline that the loop computes is a time.
LEMMA DeadlineTyped ==
    ASSUME rows \in [Ids -> RowTypes], NEW t \in Nat
    PROVE  LET deadlines == NextDisabledDeadline(t)
           IN  (CHOOSE u \in deadlines \cup {Never} : \A v \in deadlines : u <= v) \in 0 .. Never
<1> DEFINE deadlines == NextDisabledDeadline(t)
<1>1. deadlines \subseteq 0 .. Never
  BY RowFields DEF NextDisabledDeadline, Disabled
<1>2. \A u, v \in deadlines : u <= v
  BY <1>1 DEF NextDisabledDeadline
<1>3. \E u \in deadlines \cup {Never} : \A v \in deadlines : u <= v
  BY <1>2
<1> HIDE DEF deadlines
<1>4. (CHOOSE u \in deadlines \cup {Never} : \A v \in deadlines : u <= v)
         \in deadlines \cup {Never}
  BY <1>3
<1> QED
  BY <1>1, <1>4, Numbers DEF deadlines

-----------------------------------------------------------------------------
(* The goroutines and their counts.                                        *)

\* What one goroutine's step does to the sets that the loop's count and the
\* power decisions are compared with.
LEMMA RunUpdate ==
    ASSUME runs \in [Ids -> RunTypes], NEW r \in Ids, NEW new \in RunTypes,
           runs' = [runs EXCEPT ![r] = new]
    PROVE  /\ runs' \in [Ids -> RunTypes]
           /\ runs'[r] = new /\ \A q \in Ids : q # r => runs'[q] = runs[q]
           /\ Uncollected' = IF new.at \in Unreceived THEN Uncollected \cup {r}
                                                      ELSE Uncollected \ {r}
           /\ Collected' = IF new.at = "received" THEN Collected \cup {r} ELSE Collected \ {r}
<1>1. runs' \in [Ids -> RunTypes]
  OBVIOUS
<1>2. runs'[r] = new /\ \A q \in Ids : q # r => runs'[q] = runs[q]
  OBVIOUS
<1> QED
  BY <1>1, <1>2 DEF Uncollected, Collected

\* Their sizes are counts of reservations.
LEMMA CountsTyped ==
    /\ Cardinality(Uncollected) \in 0 .. N /\ Cardinality(Collected) \in 0 .. N
    /\ IsFiniteSet(Uncollected) /\ IsFiniteSet(Collected)
<1>1. Uncollected \in SUBSET Ids /\ Collected \in SUBSET Ids
  BY DEF Uncollected, Collected
<1> QED
  BY <1>1, IdsFinite, Numbers

\* A goroutine that goes on, and keeps its slot, changes no count.
LEMMA RunGoesOn ==
    ASSUME runs \in [Ids -> RunTypes], NEW r \in Ids, NEW new \in RunTypes,
           runs[r].at \in Unreceived, new.at \in Unreceived,
           runs' = [runs EXCEPT ![r] = new]
    PROVE  Uncollected' = Uncollected /\ Collected' = Collected
<1>1. r \in Uncollected /\ r \notin Collected /\ new.at # "received"
  BY DEF Uncollected, Collected, Unreceived, Executing
<1>2. Uncollected' = Uncollected \cup {r} /\ Collected' = Collected \ {r}
  BY <1>1, RunUpdate
<1> QED
  BY <1>1, <1>2

\* A goroutine that is received frees one slot, and is counted as collected.
LEMMA RunReceived ==
    ASSUME runs \in [Ids -> RunTypes], NEW r \in Ids,
           runs[r].at \in Unreceived, runs' = [runs EXCEPT ![r] = Received]
    PROVE  /\ Cardinality(Uncollected') = Cardinality(Uncollected) - 1
           /\ Cardinality(Collected') = Cardinality(Collected) + 1
           /\ Cardinality(Uncollected) > 0
<1>1. Received \in RunTypes /\ Received.at = "received" /\ Received.at \notin Unreceived
  BY DEF Received, RunTypes, Unreceived, Executing, Outcomes
<1>2. r \in Uncollected /\ r \notin Collected
  BY DEF Uncollected, Collected, Unreceived, Executing
<1>3. Uncollected' = Uncollected \ {r} /\ Collected' = Collected \cup {r}
  BY <1>1, RunUpdate
<1>4. Cardinality(Uncollected \ {r}) = Cardinality(Uncollected) - 1
      /\ Cardinality(Collected \cup {r}) = Cardinality(Collected) + 1
  BY <1>2, CountsTyped, FS_RemoveElement, FS_AddElement
<1>5. Cardinality(Uncollected) # 0
  BY <1>2, CountsTyped, FS_EmptySet
<1> QED
  BY <1>3, <1>4, <1>5, CountsTyped

\* A goroutine that starts takes one slot.
LEMMA RunStarts ==
    ASSUME runs \in [Ids -> RunTypes], NEW r \in Ids, NEW new \in RunTypes,
           runs[r].at = "none", new.at \in Unreceived,
           runs' = [runs EXCEPT ![r] = new]
    PROVE  /\ Cardinality(Uncollected') = Cardinality(Uncollected) + 1
           /\ Collected' = Collected
<1>1. new.at # "received" /\ "none" \notin Unreceived
  BY DEF Unreceived, Executing
<1>2. r \notin Uncollected /\ r \notin Collected
  BY <1>1 DEF Uncollected, Collected
<1>a. Uncollected' = Uncollected \cup {r} /\ Collected' = Collected \ {r}
  BY <1>1, RunUpdate
<1>3. Uncollected' = Uncollected \cup {r} /\ Collected' = Collected
  BY <1>2, <1>a
<1>4. Cardinality(Uncollected \cup {r}) = Cardinality(Uncollected) + 1
  BY <1>2, CountsTyped, FS_AddElement
<1> QED
  BY <1>3, <1>4

-----------------------------------------------------------------------------
(* What a step must show, by what it changes.                              *)

\* The loop moves on and leaves rows, goroutines and counts alone.
LEMMA LoopGoesOn ==
    ASSUME IInv,
           pc' \in Labels, loop' \in LoopTypes, wake' \in BOOLEAN,
           halted' \in BOOLEAN, failed' \in BOOLEAN, faults' \in 0 .. MaxFaults,
           UNCHANGED <<rows, now, active, pending, power, runVars, cancelled, handlerVars, stopping>>,
           LoopPlaces',
           halted => halted' = halted /\ failed' = failed,
           pc \in {"register", "missed"} =>
               (pc' = pc /\ loop' = loop) \/ (halted' /\ failed')
    PROVE  IInv'
<1>1. TypeOK'
  BY DEF IInv, TypeOK, runVars, handlerVars, LoopTypes
<1>2. VersionsCounted' /\ RunsHaveAttempts'
  BY DEF IInv, VersionsCounted, RunsHaveAttempts, runVars, handlerVars
<1>3. RunsCounted'
  BY DEF IInv, RunsCounted, Uncollected, Collected, runVars
<1>4. AttemptOwned'
  BY DEF IInv, AttemptOwned, runVars, TypeOK
<1> QED
  BY <1>1, <1>2, <1>3, <1>4 DEF IInv

\* A row changes whose attempt stays as it is.
LEMMA RowChanges ==
    ASSUME IInv, NEW r \in Ids, NEW new \in RowTypes,
           rows' = [rows EXCEPT ![r] = new],
           new.attempt = rows[r].attempt,
           new.state = "absent" => rows[r].state = "absent",
           changes' \in 0 .. MaxChanges, changes <= changes',
           new.version <= changes' + (IF new.state = "ACTIVE" THEN 1 ELSE 2),
           pc' \in Labels, loop' \in LoopTypes, wake' \in BOOLEAN,
           cancelled' \subseteq Ids, stopCalls' \subseteq Ids, wakeCalls' \subseteq Ids,
           UNCHANGED <<now, active, pending, power, runVars, halted, failed, stopping, faults>>,
           LoopPlaces',
           pc \in {"register", "missed"} => pc' = pc /\ loop' = loop
    PROVE  IInv'
<1>0. rows \in [Ids -> RowTypes] /\ changes \in 0 .. MaxChanges /\ MaxChanges \in Nat
  BY SchedulerAssumption DEF IInv, TypeOK, RowTypes
<1>a. rows' \in [Ids -> RowTypes] /\ rows'[r] = new /\ \A q \in Ids : q # r => rows'[q] = rows[q]
  BY <1>0
<1>1. TypeOK'
  BY <1>a DEF IInv, TypeOK, runVars, LoopTypes, RowTypes
<1>2. VersionsCounted'
  <2>1. \A q \in Ids : rows[q].version \in Nat
    BY <1>0, Numbers DEF RowTypes, Rows
  <2>2. new.version \in Nat
    BY Numbers DEF RowTypes, Rows
  <2> QED
    BY <1>0, <1>a, <2>1, <2>2 DEF IInv, VersionsCounted
<1>3. RunsHaveAttempts'
  BY <1>a DEF IInv, RunsHaveAttempts, runVars
<1>4. RunsCounted'
  BY DEF IInv, RunsCounted, Uncollected, Collected, runVars
<1>5. AttemptOwned'
  BY <1>a DEF IInv, AttemptOwned, runVars
<1> QED
  BY <1>1, <1>2, <1>3, <1>4, <1>5 DEF IInv

\* stopExecutions, when an operation of the loop fails.
LEMMA LoopFailure ==
    ASSUME IInv, NEW quiet \in BOOLEAN, LoopFails(quiet),
           pc \notin {"drain", "returned"}, quiet => pc \notin {"register", "missed"}
    PROVE  IInv'
<1>1. pc' = "drain" /\ loop' = NoLoop /\ halted' = TRUE /\ failed' \in BOOLEAN
      /\ (~quiet => failed')
  BY DEF LoopFails, StopExecutions
<1>2. faults' \in 0 .. MaxFaults
  BY FaultCounted DEF LoopFails, IInv
<1>3. UNCHANGED <<rows, now, active, pending, power, runVars, cancelled, handlerVars, stopping, wake>>
  BY DEF LoopFails, Around
<1>4. LoopPlaces'
  BY <1>1 DEF LoopPlaces
<1>5. ~halted
  BY DEF IInv, LoopPlaces
<1>6. pc' \in Labels /\ loop' \in LoopTypes /\ wake' \in BOOLEAN
  BY <1>1, <1>3, NoLoopTyped DEF Labels, IInv, TypeOK
<1> QED
  BY <1>1, <1>2, <1>3, <1>4, <1>5, <1>6, LoopGoesOn

-----------------------------------------------------------------------------
(* The loop's steps.                                                       *)

\* At the head of a round nothing is taken, and there is no power decision.
LEMMA RoundBegins ==
    ASSUME IInv, pc \notin {"drain", "returned"}, Goto("top"), UNCHANGED halted
    PROVE  pc' \in Labels /\ loop' \in LoopTypes /\ LoopPlaces'
<1>1. pc' = "top" /\ loop' = NoLoop
  BY DEF Goto
<1> QED
  BY <1>1, NoLoopTyped DEF Labels, LoopPlaces, IInv

\* A result may bring a power mode, or the second one that conflicts.
LEMMA AddedTyped ==
    ASSUME NEW candidate \in CandidateTypes, NEW out
    PROVE  Added(candidate, out) \in CandidateTypes
BY DEF Added, CandidateTypes

\* Receiving a completion: the slot is free, and an attempt that its goroutine
\* left open ends the run.
LEMMA ReceiveKeeps ==
    ASSUME IInv, NEW label \in {"top", "claim"}, ReceiveAnd(label),
           pc \in {"top", "wait", "slot"}, label = "claim" => pc = "slot"
    PROVE  IInv'
<1>1. PICK r \in Sending :
          /\ runs' = [runs EXCEPT ![r] = Received]
          /\ active' = active - 1
          /\ IF runs[r].out = "error"
               THEN StopExecutions(TRUE) /\ UNCHANGED pending
               ELSE /\ pending' = Added(pending, runs[r].out)
                    /\ Goto(label) /\ UNCHANGED <<halted, failed>>
  BY DEF ReceiveAnd
<1>2. /\ UNCHANGED <<rows, registry, wake, power, faults>>
      /\ UNCHANGED <<now, cancelled, stopCalls, wakeCalls, changes, stopping>>
  BY DEF ReceiveAnd, Around, handlerVars
<1>3. r \in Ids /\ runs[r].at = "sending" /\ runs[r].at \in Unreceived
  BY DEF Sending, Unreceived
<1>4. runs \in [Ids -> RunTypes] /\ pending \in CandidateTypes
  BY DEF IInv, TypeOK, RunTypes, CandidateTypes
<1>5. /\ Cardinality(Uncollected') = Cardinality(Uncollected) - 1
      /\ Cardinality(Collected') = Cardinality(Collected) + 1
      /\ Cardinality(Uncollected) > 0
  BY <1>1, <1>3, <1>4, RunReceived
<1>6. Received \in RunTypes /\ Received.at = "received" /\ Received.at \notin Unreceived
  BY DEF Received, RunTypes, Unreceived, Executing, Outcomes
<1>7. runs' \in [Ids -> RunTypes] /\ runs'[r] = Received
      /\ \A q \in Ids : q # r => runs'[q] = runs[q]
  BY <1>1, <1>3, <1>4, <1>6
<1>8. active = Cardinality(Uncollected) /\ active \in 0 .. MaximumConcurrent
      /\ MaximumConcurrent \in Nat
  BY SchedulerAssumption DEF IInv, RunsCounted, TypeOK
<1>9. active' = Cardinality(Uncollected') /\ active' \in 0 .. MaximumConcurrent
      /\ active' < MaximumConcurrent
  BY <1>1, <1>5, <1>8
<1>10. ~halted
  BY DEF IInv, LoopPlaces
<1>11. /\ pc' \in Labels /\ loop' \in LoopTypes /\ LoopPlaces'
       /\ halted' \in BOOLEAN /\ failed' \in BOOLEAN /\ pending' \in CandidateTypes
       /\ runs[r].out = "error" => halted' /\ failed'
  <2>1. CASE runs[r].out = "error"
    BY <1>1, <1>4, <2>1, NoLoopTyped DEF StopExecutions, Labels, LoopPlaces
  <2>2. CASE runs[r].out # "error" /\ label = "top"
    <3>1. Goto("top") /\ UNCHANGED <<halted, failed>> /\ pending' = Added(pending, runs[r].out)
      BY <1>1, <2>2
    <3> QED
      BY <1>4, <2>2, <3>1, RoundBegins, AddedTyped DEF IInv, TypeOK
  <2>3. CASE runs[r].out # "error" /\ label = "claim"
    <3>1. pc' = "claim" /\ loop' = loop /\ UNCHANGED <<halted, failed>>
          /\ pending' = Added(pending, runs[r].out)
      BY <1>1, <2>3 DEF Goto
    <3>2. LoopPlaces'
      BY <1>9, <1>10, <2>3, <3>1 DEF LoopPlaces, IInv
    <3> QED
      BY <1>4, <2>3, <3>1, <3>2, AddedTyped DEF IInv, TypeOK, Labels, LoopTypes
  <2> QED
    BY <2>1, <2>2, <2>3
<1>12. TypeOK'
  BY <1>2, <1>7, <1>9, <1>11 DEF IInv, TypeOK, LoopTypes, RunTypes, CandidateTypes
<1>13. VersionsCounted'
  BY <1>2 DEF IInv, VersionsCounted
<1>14. RunsHaveAttempts'
  BY <1>2, <1>3, <1>6, <1>7 DEF IInv, RunsHaveAttempts
<1>15. RunsCounted'
  <2>1. registry' = {q \in Ids : runs'[q].at \in Executing \cup {"ended"}}
    BY <1>2, <1>3, <1>6, <1>7 DEF IInv, RunsCounted, Executing
  <2>2. power.count + (IF pending.present THEN 1 ELSE 0) <= Cardinality(Collected)
        /\ power.count \in Nat /\ Cardinality(Collected) \in Nat
    BY CountsTyped, Numbers DEF IInv, RunsCounted, TypeOK
  <2>3. power'.count + (IF pending'.present THEN 1 ELSE 0) <= Cardinality(Collected')
    <3>1. power' = power
      BY <1>2
    <3>2. CASE pending'.present
      BY <1>5, <2>2, <3>1, <3>2
    <3>3. CASE ~pending'.present
      BY <1>5, <2>2, <3>1, <3>3
    <3> QED
      BY <3>2, <3>3
  <2> QED
    BY <1>9, <2>1, <2>3 DEF RunsCounted
<1>16. AttemptOwned'
  <2> SUFFICES ASSUME NEW q \in Ids, rows[q].attempt = "open"
               PROVE  runs'[q].at \in Unreceived \/ (halted' /\ failed')
    BY <1>2 DEF AttemptOwned
  <2>1. runs[q].at \in Unreceived
    BY <1>10 DEF IInv, AttemptOwned
  <2>2. q = r => runs[r].out = "error"
    BY <1>3 DEF IInv, RunsHaveAttempts
  <2>3. CASE q = r
    BY <1>11, <2>2, <2>3
  <2>4. CASE q # r
    <3>1. runs'[q] = runs[q]
      BY <1>7, <2>4
    <3> QED
      BY <2>1, <3>1
  <2> QED
    BY <2>3, <2>4
<1> QED
  BY <1>12, <1>11, <1>13, <1>14, <1>15, <1>16 DEF IInv

\* A disabled reservation expires, or none does and the round goes on.
LEMMA ExpireKeeps ==
    ASSUME IInv, Expire
    PROVE  IInv'
<1>1. pc = "top" /\ ~halted
  BY DEF Expire, IInv, LoopPlaces
<1>2. rows \in [Ids -> RowTypes] /\ now \in 0 .. MaxTime /\ changes \in 0 .. MaxChanges
  BY DEF IInv, TypeOK, RowTypes
<1>3. CASE LoopFails(TRUE)
  BY <1>1, <1>3, LoopFailure
<1>4. CASE /\ pc' = "deadline" /\ loop' = [NoLoop EXCEPT !.now = now] /\ UNCHANGED rows
           /\ UNCHANGED <<active, pending, halted, failed, power, runVars, wake, faults>>
           /\ Around
  <2>1. loop' \in LoopTypes
    BY <1>2, <1>4, NoLoopTyped DEF LoopTypes, NoLoop
  <2>2. LoopPlaces'
    BY <1>1, <1>4 DEF LoopPlaces
  <2> QED
    BY <1>1, <1>4, <2>1, <2>2, LoopGoesOn DEF Labels, IInv, TypeOK, Around
<1>5. CASE /\ ExpireOneDisabledReservation(now) /\ Goto("top")
           /\ UNCHANGED <<active, pending, halted, failed, power, runVars, wake, faults>>
           /\ Around
  <2>1. PICK r \in Expirable(now) :
          rows' = [rows EXCEPT ![r].state = "FINISHED", ![r].reason = "DISABLED_EXPIRED",
                               ![r].version = @ + 1]
    BY <1>5 DEF ExpireOneDisabledReservation
  <2> DEFINE new == [rows[r] EXCEPT !.state = "FINISHED", !.reason = "DISABLED_EXPIRED",
                                    !.version = @ + 1]
  <2>2. r \in Ids /\ rows[r] \in Rows(MaxVersion) /\ rows[r].state = "ACTIVE"
    BY <1>2, <2>1 DEF Expirable, Disabled, Unclaimed, RowTypes
  <2>3. rows' = [rows EXCEPT ![r] = new]
    BY <1>2, <2>1, <2>2
  <2>4. rows[r].version \in Nat /\ rows[r].version <= changes + 1
    BY <2>2, Numbers DEF IInv, VersionsCounted, Rows
  <2>5. rows[r].version + 1 <= changes + 2 /\ rows[r].version + 1 \in 0 .. MaxVersion
    BY <1>2, <2>4, SchedulerAssumption DEF MaxVersion
  <2>6. new \in RowTypes /\ new.attempt = rows[r].attempt /\ new.state = "FINISHED"
        /\ new.version = rows[r].version + 1
    BY <2>2, <2>5 DEF RowTypes, Rows, RowStates, RowReasons
  <2>7. pc' \in Labels /\ loop' \in LoopTypes /\ LoopPlaces'
    BY <1>1, <1>5, RoundBegins
  <2>8. UNCHANGED <<now, active, pending, power, runVars, halted, failed, stopping, faults>>
        /\ UNCHANGED <<wake, cancelled, stopCalls, wakeCalls, changes>>
    BY <1>5 DEF Around, handlerVars
  <2>9. wake \in BOOLEAN /\ cancelled \subseteq Ids /\ stopCalls \subseteq Ids /\ wakeCalls \subseteq Ids
    BY DEF IInv, TypeOK
  <2>10. changes' = changes /\ changes \in Nat
    BY <1>2, <2>8
  <2>11. new.version <= changes' + (IF new.state = "ACTIVE" THEN 1 ELSE 2)
    BY <2>5, <2>6, <2>10
  <2>12. changes' \in 0 .. MaxChanges /\ changes <= changes' /\ new.state # "absent"
         /\ pc \notin {"register", "missed"}
    BY <1>1, <1>2, <2>6, <2>10
  <2>13. wake' \in BOOLEAN /\ cancelled' \subseteq Ids /\ stopCalls' \subseteq Ids
         /\ wakeCalls' \subseteq Ids
    BY <2>8, <2>9
  <2> HIDE DEF new
  <2> QED
    BY <2>2, <2>3, <2>6, <2>7, <2>8, <2>11, <2>12, <2>13, RowChanges
<1> QED
  BY <1>3, <1>4, <1>5 DEF Expire

\* The next deadline of a disabled reservation is read.
LEMMA ReadDeadlineKeeps ==
    ASSUME IInv, ReadDeadline
    PROVE  IInv'
<1>1. pc = "deadline" /\ ~halted
  BY DEF ReadDeadline, IInv, LoopPlaces
<1>2. CASE LoopFails(TRUE)
  BY <1>1, <1>2, LoopFailure
<1>3. CASE ~LoopFails(TRUE)
  <2> DEFINE deadlines == NextDisabledDeadline(loop.now)
             least == CHOOSE t \in deadlines \cup {Never} : \A u \in deadlines : t <= u
  <2>1. /\ pc' = "next" /\ loop' = [loop EXCEPT !.timer = least]
        /\ UNCHANGED <<rows, active, pending, halted, failed, power, runVars, wake, faults>>
        /\ Around
    BY <1>3 DEF ReadDeadline
  <2>2. rows \in [Ids -> RowTypes] /\ loop \in LoopTypes /\ loop.now \in Nat
    BY Numbers DEF IInv, TypeOK, RowTypes, LoopTypes
  <2>3. least \in 0 .. Never
    BY <2>2, DeadlineTyped
  <2> HIDE DEF least
  <2>4. loop' \in LoopTypes
    BY <2>1, <2>2, <2>3 DEF LoopTypes
  <2>5. LoopPlaces'
    BY <1>1, <2>1 DEF LoopPlaces
  <2> QED
    BY <1>1, <2>1, <2>4, <2>5, LoopGoesOn DEF Labels, IInv, TypeOK, Around
<1> QED
  BY <1>2, <1>3

\* The next reservation is read: the loop waits, takes it, or turns to power.
LEMMA ReadNextKeeps ==
    ASSUME IInv, ReadNext
    PROVE  IInv'
<1>1. pc = "next" /\ ~halted
  BY DEF ReadNext, IInv, LoopPlaces
<1>2. rows \in [Ids -> RowTypes] /\ loop \in LoopTypes /\ loop.timer \in 0 .. Never
      /\ active \in 0 .. MaximumConcurrent /\ MaximumConcurrent \in Nat
  BY SchedulerAssumption DEF IInv, TypeOK, RowTypes, LoopTypes
<1>3. CASE LoopFails(TRUE)
  BY <1>1, <1>3, LoopFailure
<1>4. CASE ~LoopFails(TRUE)
  <2>1. /\ UNCHANGED <<rows, active, pending, halted, failed, power, runVars, wake, faults>>
        /\ Around
    BY <1>4 DEF ReadNext
  <2>2. ASSUME PowerDue, pc' = "power", UNCHANGED loop
        PROVE  pc' \in Labels /\ loop' \in LoopTypes /\ LoopPlaces'
    <3>1. active' = 0 /\ pending' = pending /\ pending.present /\ ~halted'
      BY <1>1, <2>1, <2>2 DEF PowerDue
    <3>2. pc' = "power" /\ pc' \in Labels /\ loop' \in LoopTypes
      BY <1>2, <2>2 DEF Labels
    <3> QED
      BY <3>1, <3>2 DEF LoopPlaces
  <2>3. ASSUME NEW t \in 0 .. Never, WaitUntil(t)
        PROVE  pc' \in Labels /\ loop' \in LoopTypes /\ LoopPlaces'
    BY <1>1, <2>1, <2>3, NoLoopTyped DEF WaitUntil, LoopPlaces, Labels, LoopTypes, NoLoop
  <2>4. ASSUME NEW r \in Ids, NEW label \in {"miss", "slot", "claim"},
               NEW reason \in {"none"} \cup MissReasons, Take(label, r, reason),
               label = "claim" => active < MaximumConcurrent
        PROVE  pc' \in Labels /\ loop' \in LoopTypes /\ LoopPlaces'
    <3>1. rows[r].version \in 0 .. MaxVersion
      BY <1>2 DEF RowTypes, Rows
    <3>2. loop' \in LoopTypes /\ loop'.id = r /\ pc' = label
      BY <2>4, <3>1, NoLoopTyped DEF Take, LoopTypes, NoLoop
    <3> QED
      BY <1>1, <2>1, <2>4, <3>2 DEF LoopPlaces, Labels
  <2>5. ASSUME NEW r \in Ids, Consider(r)
        PROVE  pc' \in Labels /\ loop' \in LoopTypes /\ LoopPlaces'
    <3>1. rows[r].start \in 0 .. Never
      BY <1>2, RowFields, Numbers
    <3>2. CASE WaitUntil(loop.timer) \/ WaitUntil(rows[r].start)
      BY <1>2, <2>3, <3>1, <3>2
    <3>3. CASE Take("miss", r, "LATE_START_EXPIRED")
      BY <2>4, <3>3 DEF MissReasons
    <3>4. CASE Take("slot", r, "none")
      BY <2>4, <3>4
    <3>5. CASE ~(active >= MaximumConcurrent) /\ Take("claim", r, "none")
      BY <1>2, <2>4, <3>5
    <3> QED
      BY <2>5, <3>2, <3>3, <3>4, <3>5 DEF Consider
  <2>6. NextActiveReservation(loop.now) \subseteq Ids
    BY DEF NextActiveReservation, Candidates
  <2>7. \/ PowerDue /\ pc' = "power" /\ UNCHANGED loop
        \/ WaitUntil(loop.timer)
        \/ \E r \in NextActiveReservation(loop.now) : Consider(r)
    BY <1>4 DEF ReadNext
  <2>8. pc' \in Labels /\ loop' \in LoopTypes /\ LoopPlaces'
    BY <1>2, <2>2, <2>3, <2>5, <2>6, <2>7
  <2> QED
    BY <1>1, <2>1, <2>8, LoopGoesOn DEF IInv, TypeOK, Around
<1> QED
  BY <1>3, <1>4

\* The alarm that a power decision sets is a time before the next reservation.
LEMMA WakeTyped ==
    ASSUME TypeOK, PowerAllowed
    PROVE  (CHOOSE t \in WakeTimes \cup {Never} : \A u \in WakeTimes : t <= u)
               \in 0 .. Never
           /\ \A u \in WakeTimes :
                (CHOOSE t \in WakeTimes \cup {Never} : \A v \in WakeTimes : t <= v) = u
<1>1. rows \in [Ids -> RowTypes] /\ loop.now \in Nat /\ WakeMargin \in Nat
  BY SchedulerAssumption, Numbers DEF TypeOK, RowTypes
<1>2. DecidedBy \subseteq Ids /\ \A r, q \in DecidedBy : r = q
  BY <1>1, NextIsUnique DEF DecidedBy, NextActiveReservation, Candidates
<1>3. \A r \in DecidedBy : rows[r].start \in 0 .. MaxTime
                           /\ rows[r].start - WakeMargin >= loop.now + WakeMargin
  BY <1>1, <1>2, RowFields DEF PowerAllowed
<1>4. \A r \in DecidedBy : rows[r].start - WakeMargin \in 0 .. Never
  BY <1>1, <1>3, Numbers
<1>5. WakeTimes \subseteq 0 .. Never
  BY <1>4 DEF WakeTimes
<1>6. \A u, v \in WakeTimes : u = v
  BY <1>2 DEF WakeTimes
<1> DEFINE least == CHOOSE t \in WakeTimes \cup {Never} : \A u \in WakeTimes : t <= u
<1>7. \E t \in WakeTimes \cup {Never} : \A u \in WakeTimes : t <= u
  <2>1. \A u \in WakeTimes : u <= u
    BY <1>5
  <2>2. ASSUME NEW u \in WakeTimes
        PROVE  \A v \in WakeTimes : u <= v
    BY <1>6, <2>1
  <2>3. CASE WakeTimes = {}
    BY <2>3
  <2> QED
    BY <2>2, <2>3
<1>8. least \in WakeTimes \cup {Never} /\ \A u \in WakeTimes : least <= u
  BY <1>7
<1>9. \A u \in WakeTimes : u <= MaxTime
  BY <1>1, <1>3, Numbers DEF WakeTimes
<1> HIDE DEF least
<1>10. \A u \in WakeTimes : least = u
  BY <1>5, <1>6, <1>8, <1>9, Numbers
<1>11. least \in 0 .. Never
  BY <1>5, <1>8, Numbers
<1> QED
  BY <1>10, <1>11 DEF least

\* The power decision uses up the candidate, and there was one collected
\* recording more than decisions.
LEMMA DecidePowerKeeps ==
    ASSUME IInv, DecidePower
    PROVE  IInv'
<1>1. pc = "power" /\ ~halted /\ pending.present /\ active = 0
  BY DEF DecidePower, IInv, LoopPlaces
<1>2. /\ UNCHANGED <<rows, active, halted, failed, runs, registry, wake>>
      /\ UNCHANGED <<now, cancelled, stopCalls, wakeCalls, changes, stopping>>
      /\ pending' = NoCandidate /\ Goto("top")
  BY DEF DecidePower, Around, handlerVars, runVars
<1>3. pc' \in Labels /\ loop' \in LoopTypes /\ LoopPlaces'
  BY <1>1, <1>2, RoundBegins
<1>4. faults' \in 0 .. MaxFaults
  BY FaultCounted DEF DecidePower, IInv
<1>5. power.count \in Nat /\ power.count + 1 <= Cardinality(Collected)
      /\ Cardinality(Collected) \in 0 .. N
  BY <1>1, CountsTyped, Numbers DEF IInv, RunsCounted, TypeOK
<1>6. power' \in PowerTypes /\ power'.count <= Cardinality(Collected)
  <2>1. CASE power' = power
    BY <1>5, <2>1 DEF IInv, TypeOK, PowerTypes
  <2>2. CASE power' # power
    <3> DEFINE least == CHOOSE t \in WakeTimes \cup {Never} : \A u \in WakeTimes : t <= u
    <3>1. PowerAllowed
          /\ power' = [count |-> power.count + 1, mode |-> pending.mode, wakeAt |-> least]
      BY <2>2 DEF DecidePower
    <3>2. least \in 0 .. Never
      BY <3>1, WakeTyped DEF IInv
    <3>3. pending.mode \in Modes \cup {"none"}
      BY DEF IInv, TypeOK
    <3>4. power.count + 1 \in 0 .. N
      BY <1>5, Numbers
    <3> HIDE DEF least
    <3> QED
      BY <1>5, <3>1, <3>2, <3>3, <3>4 DEF PowerTypes
  <2> QED
    BY <2>1, <2>2
<1>7. pending' \in CandidateTypes /\ ~pending'.present
  BY <1>2 DEF NoCandidate, CandidateTypes
<1>8. TypeOK'
  BY <1>2, <1>3, <1>4, <1>6, <1>7 DEF IInv, TypeOK, LoopTypes, PowerTypes, CandidateTypes
<1>9. VersionsCounted' /\ RunsHaveAttempts' /\ AttemptOwned'
  BY <1>1, <1>2 DEF IInv, VersionsCounted, RunsHaveAttempts, AttemptOwned
<1>10. RunsCounted'
  <2>1. Uncollected' = Uncollected /\ Collected' = Collected
    BY <1>2 DEF Uncollected, Collected
  <2>2. power'.count \in Nat
    BY <1>6, Numbers DEF PowerTypes
  <2>3. power'.count + (IF pending'.present THEN 1 ELSE 0) <= Cardinality(Collected')
    BY <1>6, <1>7, <2>1, <2>2
  <2> QED
    BY <1>2, <2>1, <2>3 DEF IInv, RunsCounted
<1> QED
  BY <1>3, <1>8, <1>9, <1>10 DEF IInv

\* Entering select, and what ends the wait other than a completion.
LEMMA WaitKeeps ==
    ASSUME IInv, Park \/ WaitStopped \/ WaitWoken
    PROVE  IInv'
<1>1. pc \in {"park", "wait"} /\ ~halted
  BY DEF Park, WaitStopped, WaitWoken, IInv, LoopPlaces
<1>2. UNCHANGED <<rows, now, active, pending, power, runVars, cancelled, handlerVars, stopping, faults>>
  BY DEF Park, WaitStopped, WaitWoken, Around
<1>3. CASE Park
  <2>1. pc' = "wait" /\ loop' = loop /\ UNCHANGED <<halted, failed, wake>>
    BY <1>3 DEF Park, Goto
  <2>2. LoopPlaces'
    BY <1>1, <2>1 DEF LoopPlaces
  <2> QED
    BY <1>1, <1>2, <2>1, <2>2, LoopGoesOn DEF Labels, IInv, TypeOK, LoopTypes
<1>4. CASE WaitStopped
  <2>1. pc' = "drain" /\ loop' = NoLoop /\ halted' /\ ~failed' /\ wake' = wake
        /\ failed' \in BOOLEAN /\ halted' \in BOOLEAN
    BY <1>4 DEF WaitStopped, StopExecutions
  <2>2. LoopPlaces'
    BY <2>1 DEF LoopPlaces
  <2> QED
    BY <1>1, <1>2, <2>1, <2>2, NoLoopTyped, LoopGoesOn DEF Labels, IInv, TypeOK
<1>5. CASE WaitWoken
  <2>1. Goto("top") /\ UNCHANGED <<halted, failed>>
    BY <1>5 DEF WaitWoken
  <2>2. wake' \in BOOLEAN
    BY <1>5 DEF WaitWoken, IInv, TypeOK
  <2>3. pc' \in Labels /\ loop' \in LoopTypes /\ LoopPlaces'
    BY <1>1, <2>1, RoundBegins
  <2> QED
    BY <1>1, <1>2, <2>1, <2>2, <2>3, LoopGoesOn DEF IInv, TypeOK
<1> QED
  BY <1>3, <1>4, <1>5

\* With all slots taken the loop takes a completion, or will miss the row.
LEMMA TakeSlotKeeps ==
    ASSUME IInv, TakeSlot
    PROVE  IInv'
<1>1. pc = "slot" /\ ~halted /\ loop.id \in Ids
  BY DEF TakeSlot, IInv, LoopPlaces
<1>2. CASE Sending # {}
  BY <1>1, <1>2, ReceiveKeeps DEF TakeSlot
<1>3. CASE Sending = {}
  <2>1. /\ pc' = "miss" /\ loop' = [loop EXCEPT !.reason = "RECORDING_SLOT_UNAVAILABLE"]
        /\ UNCHANGED <<rows, active, pending, halted, failed, power, runVars, wake, faults>>
        /\ Around
    BY <1>3 DEF TakeSlot
  <2>2. loop' \in LoopTypes /\ loop'.id \in Ids
    BY <1>1, <2>1 DEF IInv, TypeOK, LoopTypes, MissReasons
  <2>3. LoopPlaces'
    BY <1>1, <2>1, <2>2 DEF LoopPlaces
  <2> QED
    BY <1>1, <2>1, <2>2, <2>3, LoopGoesOn DEF Labels, IInv, TypeOK, Around
<1> QED
  BY <1>2, <1>3

\* The claim opens the attempt of a reservation that has no goroutine, and the
\* loop is the one that will end it.
LEMMA ClaimKeeps ==
    ASSUME IInv, ClaimStep
    PROVE  IInv'
<1>1. pc \in {"claim", "miss"} /\ ~halted /\ loop.id \in Ids
      /\ (pc = "claim" => active < MaximumConcurrent)
  BY DEF ClaimStep, IInv, LoopPlaces
<1>2. CASE LoopFails(FALSE)
  BY <1>1, <1>2, LoopFailure
<1>3. CASE ~LoopFails(FALSE) /\ ~Claimable(loop.id, loop.version)
  <2>1. Goto("top")
        /\ UNCHANGED <<rows, active, pending, halted, failed, power, runVars, wake, faults>>
        /\ Around
    BY <1>3 DEF ClaimStep
  <2>2. pc' \in Labels /\ loop' \in LoopTypes /\ LoopPlaces'
    BY <1>1, <2>1, RoundBegins
  <2> QED
    BY <1>1, <2>1, <2>2, LoopGoesOn DEF IInv, TypeOK, Around
<1>4. CASE ~LoopFails(FALSE) /\ Claimable(loop.id, loop.version)
  <2> DEFINE r == loop.id
             new == [rows[r] EXCEPT !.attempt = "open"]
  <2>1. /\ pc' = (IF pc = "claim" THEN "register" ELSE "missed") /\ loop' = loop
        /\ rows' = [rows EXCEPT ![r].attempt = "open"]
        /\ UNCHANGED <<active, pending, halted, failed, power, runs, registry, wake, faults>>
        /\ UNCHANGED <<now, cancelled, stopCalls, wakeCalls, changes, stopping>>
    BY <1>1, <1>4 DEF ClaimStep, ClaimRecording, Goto, Around, runVars, handlerVars
  <2>2. r \in Ids /\ rows[r].state = "ACTIVE" /\ rows[r].attempt = "none"
    BY <1>1, <1>4 DEF Claimable, Unclaimed
  <2>3. rows \in [Ids -> RowTypes] /\ rows[r] \in RowTypes
    BY <2>2 DEF IInv, TypeOK, RowTypes
  <2>4. new \in RowTypes /\ new.attempt = "open" /\ new.state = "ACTIVE"
        /\ new.version = rows[r].version
    BY <2>2, <2>3 DEF RowTypes, Rows, Attempts
  <2>5. rows' = [rows EXCEPT ![r] = new]
    BY <2>1, <2>2, <2>3
  <2>6. rows' \in [Ids -> RowTypes] /\ rows'[r] = new
        /\ \A q \in Ids : q # r => rows'[q] = rows[q]
    BY <2>2, <2>3, <2>4, <2>5
  <2>7. runs[r].at = "none"
    BY <2>2 DEF IInv, RunsHaveAttempts
  <2>8. pc' \in {"register", "missed"} /\ pc' \in Labels /\ (pc' = "register" => pc = "claim")
    BY <1>1, <2>1 DEF Labels
  <2>9. loop'.id = r
    BY <2>1
  <2> HIDE DEF new, r
  <2>10. TypeOK'
    BY <2>1, <2>6, <2>8 DEF IInv, TypeOK, RowTypes
  <2>11. VersionsCounted'
    BY <2>1, <2>2, <2>4, <2>6 DEF IInv, VersionsCounted
  <2>12. RunsHaveAttempts'
    BY <2>1, <2>2, <2>4, <2>6, <2>7 DEF IInv, RunsHaveAttempts
  <2>13. LoopPlaces'
    <3>1. rows'[loop'.id].attempt = "open" /\ runs'[loop'.id].at = "none" /\ loop'.id \in Ids
      BY <2>1, <2>2, <2>4, <2>6, <2>7, <2>9
    <3>2. pc' = "register" => active' < MaximumConcurrent
      BY <1>1, <2>1, <2>8
    <3> QED
      BY <1>1, <2>1, <2>8, <3>1, <3>2 DEF LoopPlaces
  <2>14. RunsCounted'
    BY <2>1 DEF IInv, RunsCounted, Uncollected, Collected
  <2>15. AttemptOwned'
    BY <1>1, <2>1, <2>6, <2>8, <2>9 DEF IInv, AttemptOwned
  <2> QED
    BY <2>10, <2>11, <2>12, <2>13, <2>14, <2>15 DEF IInv
<1> QED
  BY <1>2, <1>3, <1>4

\* An attempt is settled by the one that owned it: its goroutine, that ends, or
\* the loop, that missed it.
LEMMA SettleChanges ==
    ASSUME IInv, NEW r \in Ids, NEW reason \in RowReasons, Settle(r, reason)
    PROVE  /\ rows' \in [Ids -> RowTypes]
           /\ rows'[r].attempt = "settled" /\ rows'[r].state = "FINISHED"
           /\ rows'[r].version = rows[r].version
           /\ \A q \in Ids : q # r => rows'[q] = rows[q]
           /\ changes' = changes => VersionsCounted'
<1> DEFINE new == [rows[r] EXCEPT !.attempt = "settled", !.state = "FINISHED",
                                  !.reason = reason]
<1>1. rows \in [Ids -> RowTypes] /\ rows[r] \in RowTypes /\ changes \in Nat
  BY SchedulerAssumption DEF IInv, TypeOK, RowTypes
<1>2. rows' = [rows EXCEPT ![r] = new]
  BY <1>1 DEF Settle
<1>3. new \in RowTypes /\ new.attempt = "settled" /\ new.state = "FINISHED"
      /\ new.version = rows[r].version
  BY <1>1 DEF RowTypes, Rows, Attempts, RowStates
<1> HIDE DEF new
<1>4. rows' \in [Ids -> RowTypes] /\ rows'[r] = new
      /\ \A q \in Ids : q # r => rows'[q] = rows[q]
  BY <1>1, <1>2, <1>3
<1>5. \A q \in Ids : rows[q].version \in Nat
  BY <1>1, Numbers DEF RowTypes, Rows
<1>6. changes' = changes => VersionsCounted'
  BY <1>1, <1>3, <1>4, <1>5 DEF IInv, VersionsCounted
<1> QED
  BY <1>3, <1>4, <1>6

\* Miss settles the attempt that it claimed, or the stop that was stored in
\* between ends the run.
LEMMA MissKeeps ==
    ASSUME IInv, MissStep
    PROVE  IInv'
<1>1. pc = "missed" /\ ~halted /\ loop.id \in Ids /\ rows[loop.id].attempt = "open"
      /\ runs[loop.id].at = "none"
  BY DEF MissStep, IInv, LoopPlaces
<1>2. CASE LoopFails(FALSE)
  BY <1>1, <1>2, LoopFailure
<1>3. CASE /\ StopExecutions(TRUE)
           /\ UNCHANGED <<rows, active, pending, power, runVars, wake, faults>>
           /\ Around
  <2>1. pc' = "drain" /\ loop' = NoLoop /\ halted' = TRUE /\ failed' = TRUE
    BY <1>3 DEF StopExecutions
  <2>2. LoopPlaces'
    BY <2>1 DEF LoopPlaces
  <2> QED
    BY <1>1, <1>3, <2>1, <2>2, NoLoopTyped, LoopGoesOn DEF Labels, IInv, TypeOK, Around
<1>4. CASE /\ Settle(loop.id, loop.reason) /\ Goto("top")
           /\ UNCHANGED <<active, pending, halted, failed, power, runVars, wake, faults>>
           /\ Around
  <2> DEFINE r == loop.id
  <2>1. UNCHANGED <<active, pending, halted, failed, power, runs, registry, wake, faults>>
        /\ UNCHANGED <<now, cancelled, stopCalls, wakeCalls, changes, stopping>>
    BY <1>4 DEF Around, runVars, handlerVars
  <2>2. pc' \in Labels /\ loop' \in LoopTypes /\ LoopPlaces' /\ pc' = "top"
    BY <1>1, <1>4, RoundBegins DEF Goto
  <2>3. loop.reason \in RowReasons
    BY DEF IInv, TypeOK, MissReasons, RowReasons
  <2>4. /\ rows' \in [Ids -> RowTypes]
        /\ rows'[r].attempt = "settled" /\ rows'[r].state = "FINISHED"
        /\ \A q \in Ids : q # r => rows'[q] = rows[q]
        /\ VersionsCounted'
    BY <1>1, <1>4, <2>1, <2>3, SettleChanges
  <2>5. TypeOK'
    BY <2>1, <2>2, <2>4 DEF IInv, TypeOK, RowTypes, LoopTypes
  <2>6. RunsHaveAttempts'
    BY <1>1, <2>1, <2>4 DEF IInv, RunsHaveAttempts
  <2>7. RunsCounted'
    BY <2>1 DEF IInv, RunsCounted, Uncollected, Collected
  <2>8. AttemptOwned'
    BY <1>1, <2>1, <2>2, <2>4 DEF IInv, AttemptOwned
  <2> QED
    BY <2>2, <2>4, <2>5, <2>6, <2>7, <2>8 DEF IInv
<1> QED
  BY <1>2, <1>3, <1>4 DEF MissStep

\* A place is free and the id is not taken whenever the loop comes to register:
\* those that are registered are a part of those not yet received.
LEMMA RegistryHasRoom ==
    ASSUME IInv, pc = "register"
    PROVE  Registrable(loop.id)
<1>1. loop.id \in Ids /\ runs[loop.id].at = "none" /\ active < MaximumConcurrent
  BY DEF IInv, LoopPlaces
<1>2. registry = {r \in Ids : runs[r].at \in Executing \cup {"ended"}}
      /\ active = Cardinality(Uncollected)
  BY DEF IInv, RunsCounted
<1>3. loop.id \notin registry
  BY <1>1, <1>2 DEF Executing
<1>4. registry \subseteq Uncollected
  BY <1>2 DEF Uncollected, Unreceived
<1>5. IsFiniteSet(Uncollected) /\ Cardinality(registry) <= Cardinality(Uncollected)
      /\ Cardinality(registry) \in Nat /\ Cardinality(Uncollected) \in Nat
  BY <1>4, CountsTyped, Numbers, FS_Subset, FS_CardinalityType
<1>6. MaximumConcurrent \in Nat
  BY SchedulerAssumption
<1> QED
  BY <1>1, <1>2, <1>3, <1>5, <1>6 DEF Registrable

\* The goroutine of the claimed attempt starts and takes its slot.
LEMMA RegisterKeeps ==
    ASSUME IInv, Register
    PROVE  IInv'
<1> DEFINE r == loop.id
           new == [runs[r] EXCEPT !.at = "claimed"]
<1>1. pc = "register" /\ ~halted /\ r \in Ids /\ rows[r].attempt = "open"
      /\ runs[r].at = "none" /\ active < MaximumConcurrent
  BY DEF Register, IInv, LoopPlaces
<1>2. Registrable(r)
  BY <1>1, RegistryHasRoom
<1>3. /\ registry' = registry \cup {r} /\ active' = active + 1 /\ Goto("top")
      /\ runs' = [runs EXCEPT ![r].at = "claimed"]
      /\ UNCHANGED <<rows, pending, power, wake, faults, halted, failed>>
      /\ UNCHANGED <<now, cancelled, stopCalls, wakeCalls, changes, stopping>>
  BY <1>2 DEF Register, Around, handlerVars
<1>4. pc' \in Labels /\ loop' \in LoopTypes /\ LoopPlaces' /\ pc' = "top"
  BY <1>1, <1>3, RoundBegins DEF Goto
<1>5. runs \in [Ids -> RunTypes] /\ runs[r] \in RunTypes
  BY <1>1 DEF IInv, TypeOK, RunTypes
<1>6. new \in RunTypes /\ new.at = "claimed"
  BY <1>5 DEF RunTypes, Unreceived, Executing
<1>7. runs' = [runs EXCEPT ![r] = new]
  BY <1>1, <1>3, <1>5
<1> HIDE DEF new, r
<1>8. "claimed" \in Unreceived /\ "claimed" \in Executing
  BY DEF Unreceived, Executing
<1>9. Cardinality(Uncollected') = Cardinality(Uncollected) + 1 /\ Collected' = Collected
  BY <1>1, <1>5, <1>6, <1>7, <1>8, RunStarts
<1>10. runs' \in [Ids -> RunTypes] /\ runs'[r] = new
       /\ \A q \in Ids : q # r => runs'[q] = runs[q]
  BY <1>1, <1>5, <1>6, <1>7
<1>11. active = Cardinality(Uncollected) /\ active \in Nat /\ MaximumConcurrent \in Nat
  BY SchedulerAssumption DEF IInv, RunsCounted, TypeOK
<1>12. active' = Cardinality(Uncollected') /\ active' \in 0 .. MaximumConcurrent
  BY <1>1, <1>3, <1>9, <1>11
<1>13. TypeOK'
  BY <1>1, <1>3, <1>4, <1>10, <1>12 DEF IInv, TypeOK, LoopTypes, RunTypes
<1>14. VersionsCounted'
  BY <1>3 DEF IInv, VersionsCounted
<1>15. RunsHaveAttempts'
  BY <1>1, <1>3, <1>6, <1>10 DEF IInv, RunsHaveAttempts
<1>16. RunsCounted'
  <2>1. registry' = {q \in Ids : runs'[q].at \in Executing \cup {"ended"}}
    BY <1>1, <1>3, <1>6, <1>8, <1>10 DEF IInv, RunsCounted
  <2> QED
    BY <1>3, <1>9, <1>12, <2>1 DEF IInv, RunsCounted
<1>17. AttemptOwned'
  <2> SUFFICES ASSUME NEW q \in Ids, rows[q].attempt = "open"
               PROVE  runs'[q].at \in Unreceived
    BY <1>3 DEF AttemptOwned
  <2>1. runs[q].at \in Unreceived \/ q = r
    BY <1>1 DEF IInv, AttemptOwned, r
  <2> QED
    BY <1>6, <1>8, <1>10, <2>1
<1> QED
  BY <1>4, <1>13, <1>14, <1>15, <1>16, <1>17 DEF IInv

\* stopExecutions collects one recording after the other.
LEMMA DrainKeeps ==
    ASSUME IInv, Drain
    PROVE  IInv'
<1>1. pc = "drain" /\ halted
  BY DEF Drain, IInv, LoopPlaces
<1>2. PICK r \in Sending : /\ runs' = [runs EXCEPT ![r] = Received]
                           /\ failed' = (failed \/ runs[r].out = "error")
  BY DEF Drain
<1>3. /\ active' = active - 1
      /\ UNCHANGED <<rows, pc, loop, pending, halted, power, registry, wake, faults>>
      /\ UNCHANGED <<now, cancelled, stopCalls, wakeCalls, changes, stopping>>
  BY DEF Drain, Around, handlerVars
<1>4. r \in Ids /\ runs[r].at = "sending" /\ runs[r].at \in Unreceived
  BY DEF Sending, Unreceived
<1>5. runs \in [Ids -> RunTypes] /\ failed \in BOOLEAN
  BY DEF IInv, TypeOK, RunTypes
<1>6. /\ Cardinality(Uncollected') = Cardinality(Uncollected) - 1
      /\ Cardinality(Collected') = Cardinality(Collected) + 1
      /\ Cardinality(Uncollected) > 0
  BY <1>2, <1>4, <1>5, RunReceived
<1>7. Received \in RunTypes /\ Received.at = "received" /\ Received.out = "none"
      /\ Received.at \notin Unreceived
  BY DEF Received, RunTypes, Unreceived, Executing, Outcomes
<1>8. runs' \in [Ids -> RunTypes] /\ runs'[r] = Received
      /\ \A q \in Ids : q # r => runs'[q] = runs[q]
  BY <1>2, <1>4, <1>5, <1>7
<1>9. active = Cardinality(Uncollected) /\ active \in 0 .. MaximumConcurrent
      /\ MaximumConcurrent \in Nat
  BY SchedulerAssumption DEF IInv, RunsCounted, TypeOK
<1>10. active' = Cardinality(Uncollected') /\ active' \in 0 .. MaximumConcurrent
  BY <1>3, <1>6, <1>9
<1>11. failed' \in BOOLEAN /\ (failed => failed') /\ (runs[r].out = "error" => failed')
  BY <1>2, <1>5
<1>12. TypeOK'
  BY <1>3, <1>8, <1>10, <1>11 DEF IInv, TypeOK, RunTypes
<1>13. VersionsCounted'
  BY <1>3 DEF IInv, VersionsCounted
<1>14. RunsHaveAttempts'
  BY <1>3, <1>4, <1>7, <1>8 DEF IInv, RunsHaveAttempts
<1>15. LoopPlaces'
  BY <1>1, <1>3 DEF IInv, LoopPlaces
<1>16. RunsCounted'
  <2>1. registry' = {q \in Ids : runs'[q].at \in Executing \cup {"ended"}}
    BY <1>3, <1>4, <1>7, <1>8 DEF IInv, RunsCounted, Executing
  <2>2. power.count \in Nat /\ Cardinality(Collected) \in Nat
    BY CountsTyped, Numbers DEF IInv, TypeOK
  <2>3. power.count + (IF pending.present THEN 1 ELSE 0) <= Cardinality(Collected)
    BY DEF IInv, RunsCounted
  <2>4. power'.count + (IF pending'.present THEN 1 ELSE 0) <= Cardinality(Collected')
    BY <1>3, <1>6, <2>2, <2>3
  <2> QED
    BY <1>10, <2>1, <2>4 DEF RunsCounted
<1>17. AttemptOwned'
  <2> SUFFICES ASSUME NEW q \in Ids, rows[q].attempt = "open"
               PROVE  runs'[q].at \in Unreceived \/ (halted' /\ failed')
    BY <1>3 DEF AttemptOwned
  <2>1. runs[q].at \in Unreceived \/ failed
    BY <1>1 DEF IInv, AttemptOwned
  <2>2. q = r => runs[r].out = "error"
    BY <1>4 DEF IInv, RunsHaveAttempts
  <2>3. CASE q = r
    BY <1>1, <1>3, <1>11, <2>2, <2>3
  <2>4. CASE q # r
    BY <1>1, <1>3, <1>8, <1>11, <2>1, <2>4
  <2> QED
    BY <2>3, <2>4
<1> QED
  BY <1>12, <1>13, <1>14, <1>15, <1>16, <1>17 DEF IInv

\* Run returns when all are collected.
LEMMA ReturnKeeps ==
    ASSUME IInv, Return
    PROVE  IInv'
<1>1. pc = "drain" /\ active = 0 /\ halted
  BY DEF Return, IInv, LoopPlaces
<1>2. pc' = "returned" /\ loop' = loop
      /\ UNCHANGED <<rows, active, pending, halted, failed, power, runVars, wake, faults>>
      /\ Around
  BY DEF Return, Goto
<1>3. LoopPlaces'
  BY <1>1, <1>2 DEF LoopPlaces
<1> QED
  BY <1>1, <1>2, <1>3, LoopGoesOn DEF Labels, IInv, TypeOK, LoopTypes, Around

-----------------------------------------------------------------------------
(* The steps of the goroutines.                                            *)

\* A goroutine goes on without settling its attempt.
LEMMA RunMoves ==
    ASSUME IInv, NEW r \in Ids, NEW new \in RunTypes,
           runs[r].at \in Unreceived, new.at \in Unreceived,
           runs' = [runs EXCEPT ![r] = new],
           registry' = IF new.at = "sending" THEN registry \ {r} ELSE registry,
           runs[r].at = "sending" => new.at = "sending",
           new.at \in {"ended", "sending"} /\ new.out # "error" =>
               rows[r].attempt = "settled",
           cancelled' \subseteq Ids, faults' \in 0 .. MaxFaults,
           UNCHANGED rows, AroundRun
    PROVE  IInv'
<1>1. UNCHANGED <<now, pc, loop, active, pending, halted, failed, power, wake, stopCalls, wakeCalls,
                  changes, stopping>>
  BY DEF AroundRun, loopVars, handlerVars
<1>2. runs \in [Ids -> RunTypes]
  BY DEF IInv, TypeOK, RunTypes
<1>3. runs' \in [Ids -> RunTypes] /\ runs'[r] = new
      /\ \A q \in Ids : q # r => runs'[q] = runs[q]
  BY <1>2
<1>4. Uncollected' = Uncollected /\ Collected' = Collected
  BY <1>2, RunGoesOn
<1>5. runs[r].at # "none" /\ new.at # "none"
      /\ (new.at \in Executing \cup {"ended"} <=> new.at # "sending")
      /\ (runs[r].at \in Executing \cup {"ended"} <=> runs[r].at # "sending")
  BY DEF Unreceived, Executing
<1>6. TypeOK'
  BY <1>1, <1>3 DEF IInv, TypeOK, RunTypes
<1>7. VersionsCounted' /\ AttemptOwned'
  BY <1>1, <1>3 DEF IInv, VersionsCounted, AttemptOwned
<1>8. RunsHaveAttempts'
  BY <1>3, <1>5 DEF IInv, RunsHaveAttempts
<1>9. LoopPlaces'
  BY <1>1, <1>3, <1>5 DEF IInv, LoopPlaces
<1>10. RunsCounted'
  <2>1. registry' = {q \in Ids : runs'[q].at \in Executing \cup {"ended"}}
    BY <1>3, <1>5 DEF IInv, RunsCounted
  <2> QED
    BY <1>1, <1>4, <2>1 DEF IInv, RunsCounted
<1> QED
  BY <1>6, <1>7, <1>8, <1>9, <1>10 DEF IInv

\* StartAttempt, an error, and the end of a goroutine that has unregistered.
LEMMA MovesKeep ==
    ASSUME IInv, NEW r \in Ids, StartRecording(r) \/ FailRecording(r) \/ Unregister(r)
    PROVE  IInv'
<1>1. runs \in [Ids -> RunTypes] /\ runs[r] \in RunTypes /\ cancelled \subseteq Ids
      /\ faults \in 0 .. MaxFaults
  BY DEF IInv, TypeOK, RunTypes
<1>2. CASE StartRecording(r)
  <2> DEFINE new == [runs[r] EXCEPT !.at = "running"]
  <2>1. new \in RunTypes /\ new.at = "running" /\ runs[r].at = "claimed"
    BY <1>1, <1>2 DEF RunTypes, Unreceived, Executing, StartRecording
  <2>2. runs' = [runs EXCEPT ![r] = new]
    BY <1>1, <1>2 DEF StartRecording
  <2>3. UNCHANGED <<rows, registry, cancelled, faults>> /\ AroundRun
    BY <1>2 DEF StartRecording
  <2>4. runs[r].at \in Unreceived /\ new.at \in Unreceived
    BY <2>1 DEF Unreceived, Executing
  <2> HIDE DEF new
  <2> QED
    BY <1>1, <2>1, <2>2, <2>3, <2>4, RunMoves
<1>3. CASE FailRecording(r)
  <2> DEFINE new == [at |-> "ended", out |-> "error"]
  <2>1. new \in RunTypes /\ new.at = "ended" /\ new.out = "error" /\ runs[r].at # "sending"
    BY <1>3 DEF RunTypes, Unreceived, Executing, Outcomes, FailRecording
  <2>2. runs' = [runs EXCEPT ![r] = new]
    BY <1>3 DEF FailRecording
  <2>3. UNCHANGED <<rows, registry, cancelled>> /\ AroundRun
    BY <1>3 DEF FailRecording
  <2>4. runs[r].at \in Unreceived /\ new.at \in Unreceived
    BY <1>3, <2>1 DEF Unreceived, Executing, FailRecording
  <2>5. faults' \in 0 .. MaxFaults
    BY <1>3, FaultCounted DEF FailRecording, IInv
  <2> HIDE DEF new
  <2> QED
    BY <1>1, <2>1, <2>2, <2>3, <2>4, <2>5, RunMoves
<1>4. CASE Unregister(r)
  <2> DEFINE new == [runs[r] EXCEPT !.at = "sending"]
  <2>1. new \in RunTypes /\ new.at = "sending" /\ runs[r].at = "ended"
        /\ new.out = runs[r].out
    BY <1>1, <1>4 DEF RunTypes, Unreceived, Executing, Unregister
  <2>2. runs' = [runs EXCEPT ![r] = new]
    BY <1>1, <1>4 DEF Unregister
  <2>3. UNCHANGED <<rows, faults>> /\ AroundRun /\ registry' = registry \ {r}
        /\ cancelled' = cancelled \ {r}
    BY <1>4 DEF Unregister
  <2>4. runs[r].at \in Unreceived /\ new.at \in Unreceived
    BY <2>1 DEF Unreceived, Executing
  <2>5. new.out # "error" => rows[r].attempt = "settled"
    BY <2>1 DEF IInv, RunsHaveAttempts
  <2> HIDE DEF new
  <2> QED
    BY <1>1, <2>1, <2>2, <2>3, <2>4, <2>5, RunMoves
<1> QED
  BY <1>2, <1>3, <1>4

\* ExecuteClaimed settles the attempt that its goroutine owns; the loop is not
\* at a place where it holds this attempt itself.
LEMMA EndKeeps ==
    ASSUME IInv, NEW r \in Ids, EndRecording(r)
    PROVE  IInv'
<1>1. PICK out \in {"ok"} \cup ({rows[r].mode} \cap Modes) :
          runs' = [runs EXCEPT ![r] = [at |-> "ended", out |-> out]]
  BY DEF EndRecording
<1> DEFINE new == [at |-> "ended", out |-> out]
<1>2. /\ UNCHANGED <<now, pc, loop, active, pending, halted, failed, power, wake, stopCalls,
                    wakeCalls, changes, stopping, registry, cancelled, faults>>
      /\ runs[r].at = "running" /\ Settle(r, "ATTEMPT_FINISHED")
  BY DEF EndRecording, AroundRun, loopVars, handlerVars
<1>3. runs \in [Ids -> RunTypes]
  BY DEF IInv, TypeOK, RunTypes
<1>4. new \in RunTypes /\ new.at = "ended"
  BY <1>1 DEF RunTypes, Outcomes, Unreceived, Executing
<1> HIDE DEF new
<1>5. runs' = [runs EXCEPT ![r] = new]
  BY <1>1 DEF new
<1>6. runs[r].at \in Unreceived /\ new.at \in Unreceived
  BY <1>2, <1>4 DEF Unreceived, Executing
<1>7. runs' \in [Ids -> RunTypes] /\ runs'[r] = new
      /\ \A q \in Ids : q # r => runs'[q] = runs[q]
  BY <1>3, <1>4, <1>5
<1>8. Uncollected' = Uncollected /\ Collected' = Collected
  BY <1>3, <1>4, <1>5, <1>6, RunGoesOn
<1>9. /\ rows' \in [Ids -> RowTypes]
      /\ rows'[r].attempt = "settled" /\ rows'[r].state = "FINISHED"
      /\ \A q \in Ids : q # r => rows'[q] = rows[q]
      /\ VersionsCounted'
  BY <1>2, SettleChanges DEF RowReasons
<1>10. TypeOK'
  BY <1>2, <1>7, <1>9 DEF IInv, TypeOK, RunTypes, RowTypes
<1>11. RunsHaveAttempts'
  BY <1>7, <1>9 DEF IInv, RunsHaveAttempts
<1>12. LoopPlaces'
  BY <1>2, <1>7, <1>9 DEF IInv, LoopPlaces
<1>13. RunsCounted'
  <2>1. registry' = {q \in Ids : runs'[q].at \in Executing \cup {"ended"}}
    BY <1>2, <1>4, <1>7 DEF IInv, RunsCounted, Executing
  <2> QED
    BY <1>2, <1>8, <2>1 DEF IInv, RunsCounted
<1>14. AttemptOwned'
  BY <1>2, <1>6, <1>7, <1>9 DEF IInv, AttemptOwned
<1> QED
  BY <1>9, <1>10, <1>11, <1>12, <1>13, <1>14 DEF IInv

-----------------------------------------------------------------------------
(* The steps of the handlers.                                              *)

\* A handler changes a row in its transaction and notes whom to notify.
LEMMA HandlerChanges ==
    ASSUME IInv, NEW r \in Ids, NEW new \in RowTypes,
           rows' = [rows EXCEPT ![r] = new],
           new.attempt = rows[r].attempt,
           new.state # "absent",
           changes' \in 0 .. MaxChanges, changes <= changes',
           new.version <= changes' + (IF new.state = "ACTIVE" THEN 1 ELSE 2),
           stopCalls' \subseteq Ids, wakeCalls' \subseteq Ids,
           UNCHANGED <<cancelled, wake>>, AroundHandler
    PROVE  IInv'
<1>1. UNCHANGED <<now, pc, loop, active, pending, halted, failed, power, runs, registry,
                  stopping, faults, cancelled, wake>>
  BY DEF AroundHandler, loopVars, runVars
<1>2. rows \in [Ids -> RowTypes] /\ pc' \in Labels /\ loop' \in LoopTypes /\ wake' \in BOOLEAN
      /\ cancelled' \subseteq Ids
  BY <1>1 DEF IInv, TypeOK, RowTypes, LoopTypes
<1>3. \A q \in Ids : rows'[q].attempt = rows[q].attempt
  BY <1>2
<1>4. LoopPlaces'
  BY <1>1, <1>3 DEF IInv, LoopPlaces
<1> QED
  BY <1>1, <1>2, <1>4, RowChanges DEF runVars

\* Making, changing and deleting a reservation, and asking for a stop.
LEMMA ServiceKeeps ==
    ASSUME IInv, NEW r \in Ids, Add(r) \/ Change(r) \/ Delete(r)
    PROVE  IInv'
<1>1. rows \in [Ids -> RowTypes] /\ rows[r] \in Rows(MaxVersion) /\ stopCalls \subseteq Ids
      /\ wakeCalls \subseteq Ids /\ changes \in 0 .. MaxChanges /\ now \in 0 .. MaxTime
  BY DEF IInv, TypeOK, RowTypes
<1>2. MaxChanges \in Nat /\ changes \in Nat /\ MaxVersion = MaxChanges + 2
      /\ rows[r].version \in Nat
  BY <1>1, Numbers, SchedulerAssumption DEF MaxVersion, Rows
<1>3. UNCHANGED <<cancelled, wake>> /\ AroundHandler
      /\ stopCalls' \subseteq Ids /\ wakeCalls' \subseteq Ids
  BY <1>1 DEF Add, Change, Delete
<1>4. rows[r].version <= changes + (IF rows[r].state = "ACTIVE" THEN 1 ELSE 2)
  BY DEF IInv, VersionsCounted
<1>5. CASE Add(r)
  <2>1. PICK start \in Starts, enabled \in Enabling, priority \in Priorities, mode \in Requests :
          CreateReservation(r, start, enabled, priority, mode, now)
    BY <1>5 DEF Add
  <2> DEFINE new == [NoRow EXCEPT !.state = "ACTIVE", !.enabled = enabled, !.version = 1,
                                  !.start = start, !.created = now, !.priority = priority,
                                  !.mode = mode]
  <2>2. rows' = [rows EXCEPT ![r] = new] /\ rows[r].state = "absent"
    BY <2>1 DEF CreateReservation
  <2>3. enabled \in BOOLEAN /\ mode \in Modes \cup {"none"}
    BY IdAssumption
  <2>4. 1 \in 0 .. MaxVersion
    BY <1>2
  <2>5. new \in RowTypes
    BY ZenonT(60), <1>1, <2>3, <2>4 DEF NoRow, RowTypes, Rows, RowStates, RowReasons, Attempts
  <2>6. new.attempt = "none" /\ new.state = "ACTIVE" /\ new.version = 1
    BY DEF NoRow
  <2>7. rows[r].attempt = "none"
    BY <2>2 DEF IInv, RunsHaveAttempts
  <2>8. changes' = changes
    BY <1>5 DEF Add
  <2> HIDE DEF new
  <2>9. changes' \in 0 .. MaxChanges /\ changes <= changes' /\ 1 <= changes' + 1
    BY <1>1, <1>2, <2>8
  <2> QED
    BY <1>3, <2>2, <2>5, <2>6, <2>7, <2>9, HandlerChanges
<1>6. CASE Change(r)
  <2>1. PICK start \in Starts, enabled \in Enabling, priority \in Priorities :
          UpdateReservation(r, start, enabled, priority, now)
    BY <1>6 DEF Change
  <2> DEFINE new == [rows[r] EXCEPT !.start = start, !.enabled = enabled,
                                    !.priority = priority, !.version = @ + 1]
  <2>2. rows[r].state = "ACTIVE" /\ changes' = changes + 1 /\ changes < MaxChanges
    BY <1>6, <2>1 DEF UpdateReservation, Unclaimed, Change
  <2>3. rows' = [rows EXCEPT ![r] = new]
    BY <1>1, <2>1 DEF UpdateReservation
  <2>4. enabled \in BOOLEAN
    BY IdAssumption
  <2>5. rows[r].version + 1 \in 0 .. MaxVersion /\ rows[r].version + 1 <= changes' + 1
        /\ changes' \in 0 .. MaxChanges /\ changes <= changes'
    BY <1>1, <1>2, <1>4, <2>2
  <2>6. new \in RowTypes
    BY <1>1, <2>4, <2>5 DEF RowTypes, Rows
  <2>7. new.attempt = rows[r].attempt /\ new.state = "ACTIVE"
        /\ new.version = rows[r].version + 1
    BY <1>1, <2>2 DEF Rows
  <2> HIDE DEF new
  <2> QED
    BY <1>3, <2>3, <2>5, <2>6, <2>7, HandlerChanges
<1>7. CASE Delete(r) /\ CancelRow(r)
  <2> DEFINE new == [rows[r] EXCEPT !.state = "FINISHED", !.reason = "CANCELLED_BY_USER",
                                    !.version = @ + 1]
  <2>1. rows[r].state = "ACTIVE" /\ changes' = changes + 1 /\ changes < MaxChanges
    BY <1>7 DEF CancelRow, Unclaimed, Delete
  <2>2. rows' = [rows EXCEPT ![r] = new]
    BY <1>1, <1>7 DEF CancelRow
  <2>3. rows[r].version + 1 \in 0 .. MaxVersion /\ rows[r].version + 1 <= changes' + 2
        /\ changes' \in 0 .. MaxChanges /\ changes <= changes'
    BY <1>1, <1>2, <1>4, <2>1
  <2>4. new \in RowTypes
    BY <1>1, <2>3 DEF RowTypes, Rows, RowStates, RowReasons
  <2>5. new.attempt = rows[r].attempt /\ new.state = "FINISHED"
        /\ new.version = rows[r].version + 1
    BY <1>1 DEF Rows
  <2> HIDE DEF new
  <2> QED
    BY <1>3, <2>2, <2>3, <2>4, <2>5, HandlerChanges
<1>8. CASE Delete(r) /\ RequestStop(r)
  <2> DEFINE new == [rows[r] EXCEPT !.stop = TRUE]
  <2>1. rows[r].attempt = "open" /\ changes' = changes + 1 /\ changes < MaxChanges
    BY <1>8 DEF RequestStop, Delete
  <2>2. rows' = [rows EXCEPT ![r] = new]
    BY <1>1, <1>8 DEF RequestStop
  <2>3. changes' \in 0 .. MaxChanges /\ changes <= changes'
    BY <1>1, <1>2, <2>1
  <2>4. new \in RowTypes
    BY <1>1 DEF RowTypes, Rows
  <2>5. new.attempt = rows[r].attempt /\ new.state = rows[r].state
        /\ new.version = rows[r].version
    BY <1>1 DEF Rows
  <2>6. rows[r].state # "absent"
    BY <2>1 DEF IInv, RunsHaveAttempts
  <2>7. new.version <= changes' + (IF new.state = "ACTIVE" THEN 1 ELSE 2)
    BY <1>2, <1>4, <2>1, <2>5
  <2> HIDE DEF new
  <2> QED
    BY <1>3, <2>2, <2>3, <2>4, <2>5, <2>6, <2>7, HandlerChanges
<1> QED
  BY <1>5, <1>6, <1>7, <1>8 DEF Delete

\* A change of signals alone: notifications, the clock and the shutdown.
LEMMA SignalsKeep ==
    ASSUME IInv, UNCHANGED <<rows, loopVars, runVars, changes, faults>>,
           now' \in 0 .. MaxTime, cancelled' \subseteq Ids,
           stopCalls' \subseteq Ids, wakeCalls' \subseteq Ids,
           wake' \in BOOLEAN, stopping' \in BOOLEAN
    PROVE  IInv'
<1>1. UNCHANGED <<rows, pc, loop, active, pending, halted, failed, power, runs, registry,
                  changes, faults>>
  BY DEF loopVars, runVars
<1>2. TypeOK'
  BY <1>1 DEF IInv, TypeOK
<1>3. VersionsCounted' /\ RunsHaveAttempts' /\ AttemptOwned'
  BY <1>1 DEF IInv, VersionsCounted, RunsHaveAttempts, AttemptOwned
<1>4. LoopPlaces' /\ RunsCounted'
  BY <1>1 DEF IInv, LoopPlaces, RunsCounted, Uncollected, Collected
<1> QED
  BY <1>2, <1>3, <1>4 DEF IInv

-----------------------------------------------------------------------------
(* The theorems.                                                           *)

\* Nothing is reserved and nothing runs at the start.
LEMMA InitKeeps == Init => IInv
<1> SUFFICES ASSUME Init PROVE IInv
  OBVIOUS
<1>1. \A r \in Ids : rows[r] = NoRow /\ runs[r] = NoRun
  BY DEF Init, RowsInit
<1>2. NoRow \in Rows(MaxVersion) /\ NoRow.state = "absent" /\ NoRow.attempt = "none"
      /\ NoRow.version = 0
  BY Numbers DEF NoRow, Rows, RowStates, RowReasons, Attempts
<1>3. NoRun \in RunTypes /\ NoRun.at = "none"
      /\ "none" \notin Unreceived /\ "none" \notin Executing
  BY DEF NoRun, RunTypes, Outcomes, Unreceived, Executing
<1>4. rows \in [Ids -> Rows(MaxVersion)] /\ runs \in [Ids -> RunTypes]
  BY <1>2, <1>3 DEF Init, RowsInit
<1>5. loop \in LoopTypes /\ pending \in CandidateTypes /\ power \in PowerTypes
  BY NoLoopTyped, Numbers DEF Init, NoCandidate, CandidateTypes, NoPower, PowerTypes
<1>6. active \in 0 .. MaximumConcurrent /\ changes \in 0 .. MaxChanges
      /\ faults \in 0 .. MaxFaults /\ now \in 0 .. MaxTime
  BY SchedulerAssumption, TimeAssumption DEF Init
<1>7. TypeOK
  BY <1>4, <1>5, <1>6
     DEF Init, TypeOK, Labels, LoopTypes, RunTypes, CandidateTypes, PowerTypes
<1>8. VersionsCounted /\ RunsHaveAttempts /\ AttemptOwned
  BY <1>1, <1>2, <1>3 DEF Init, VersionsCounted, RunsHaveAttempts, AttemptOwned
<1>9. LoopPlaces
  BY DEF Init, LoopPlaces
<1>10. RunsCounted
  <2>1. Uncollected = {} /\ Collected = {} /\ registry = {r \in Ids : runs[r].at \in Executing \cup {"ended"}}
    BY <1>1, <1>3 DEF Init, Uncollected, Collected
  <2> QED
    BY <2>1, FS_EmptySet DEF Init, RunsCounted, NoPower, NoCandidate
<1> QED
  BY <1>7, <1>8, <1>9, <1>10 DEF IInv

\* Every step keeps the inductive invariant.
LEMMA StepKeeps == IInv /\ [Next]_vars => IInv'
<1> SUFFICES ASSUME IInv, [Next]_vars
             PROVE  IInv'
  OBVIOUS
<1>1. now \in 0 .. MaxTime /\ cancelled \subseteq Ids /\ stopCalls \subseteq Ids
      /\ wakeCalls \subseteq Ids /\ wake \in BOOLEAN /\ stopping \in BOOLEAN
      /\ registry \subseteq Ids
  BY DEF IInv, TypeOK
<1>2. CASE LoopStep
  <2>1. CASE TakeCompletion \/ WaitCompleted
    BY <2>1, ReceiveKeeps DEF TakeCompletion, WaitCompleted
  <2>2. CASE Expire \/ ReadDeadline \/ ReadNext \/ DecidePower
    BY <2>2, ExpireKeeps, ReadDeadlineKeeps, ReadNextKeeps, DecidePowerKeeps
  <2>3. CASE Park \/ WaitStopped \/ WaitWoken
    BY <2>3, WaitKeeps
  <2>4. CASE TakeSlot \/ ClaimStep \/ MissStep \/ Register
    BY <2>4, TakeSlotKeeps, ClaimKeeps, MissKeeps, RegisterKeeps
  <2>5. CASE Drain \/ Return
    BY <2>5, DrainKeeps, ReturnKeeps
  <2> QED
    BY <1>2, <2>1, <2>2, <2>3, <2>4, <2>5 DEF LoopStep
<1>3. ASSUME NEW r \in Ids, RunStep(r)
      PROVE  IInv'
  BY <1>3, MovesKeep, EndKeeps DEF RunStep
<1>4. ASSUME NEW r \in Ids, HandlerStep(r)
      PROVE  IInv'
  <2>1. CASE Add(r) \/ Change(r) \/ Delete(r)
    BY <2>1, ServiceKeeps
  <2>2. CASE NotifyStop(r)
    BY <1>1, <2>2, SignalsKeep DEF NotifyStop, AroundHandler
  <2>3. CASE Notify(r)
    BY <1>1, <2>3, SignalsKeep DEF Notify, AroundHandler
  <2> QED
    BY <1>4, <2>1, <2>2, <2>3 DEF HandlerStep
<1>5. CASE Tick
  <2>1. now' \in 0 .. MaxTime
    BY <1>1, <1>5, TimeAssumption DEF Tick
  <2> QED
    BY <1>1, <1>5, <2>1, SignalsKeep DEF Tick, handlerVars
<1>6. CASE Shutdown
  BY <1>1, <1>6, SignalsKeep DEF Shutdown, handlerVars
<1>7. CASE UNCHANGED vars
  BY <1>1, <1>7, SignalsKeep DEF vars, handlerVars
<1> QED
  BY <1>2, <1>3, <1>4, <1>5, <1>6, <1>7 DEF Next

\* The invariant of the scheduler, its rows, its goroutines and its handlers.
THEOREM SchedulerInductive == Spec => []IInv
BY InitKeeps, StepKeeps, PTL DEF Spec

\* The variables of Run, of the goroutines and of the rows have their types.
THEOREM SchedulerTypes == Spec => []TypeOK
<1>1. IInv => TypeOK
  BY DEF IInv
<1> QED
  BY <1>1, SchedulerInductive, PTL

\* The count of Run is that of the goroutines it has not received from, within
\* --max-concurrent-recordings, and none is left when it returns.
THEOREM SlotsCounted == Spec => []ActiveWithinLimit
<1>1. ASSUME IInv PROVE ActiveWithinLimit
  <2>1. active = Cardinality(Uncollected) /\ active \in 0 .. MaximumConcurrent
        /\ (pc = "returned" => active = 0)
    BY <1>1 DEF IInv, RunsCounted, TypeOK, LoopPlaces
  <2>2. active <= MaximumConcurrent
    BY <2>1, SchedulerAssumption
  <2> QED
    BY <2>1, <2>2 DEF ActiveWithinLimit, Uncollected
<1> QED
  BY <1>1, SchedulerInductive, PTL

\* stopRegistry.register never refuses what Run has claimed.
THEOREM RegistryNeverRefuses == Spec => []RegistryAccepts
<1>1. IInv => RegistryAccepts
  BY RegistryHasRoom DEF RegistryAccepts
<1> QED
  BY <1>1, SchedulerInductive, PTL

\* While Run goes on without an error, an open attempt has an owner.
THEOREM AttemptsOwned == Spec => []AttemptOwned
<1>1. IInv => AttemptOwned
  BY DEF IInv
<1> QED
  BY <1>1, SchedulerInductive, PTL

\* NextActiveReservation's result starts no later than any candidate, if it is
\* still in the future: what is due comes before it.
LEMMA NextStartsFirst ==
    ASSUME rows \in [Ids -> RowTypes], NEW t \in Nat,
           NEW r \in NextActiveReservation(t), NEW q \in Candidates,
           rows[r].start > t
    PROVE  rows[r].start <= rows[q].start
<1>1. r \in Ids /\ q \in Ids
  BY DEF NextActiveReservation, Candidates
<1>2. rows[r].start \in Nat /\ rows[q].start \in Nat
  BY <1>1, RowFields
<1>3. CASE q = r
  BY <1>2, <1>3
<1>4. CASE q # r
  <2>1. Precedes(r, q, t)
    BY <1>4 DEF NextActiveReservation
  <2>2. ~(rows[r].start <= t)
    BY <1>2
  <2> QED
    BY <1>2, <2>1, <2>2 DEF Precedes
<1> QED
  BY <1>3, <1>4

\* executePostRecordingPower is decided with no goroutine left, and the alarm
\* comes before every reservation that exists at that moment: of all
\* candidates the one it reads starts first.
LEMMA DecisionIsSafe ==
    ASSUME IInv, DecidePower, power' # power
    PROVE  SleepIsFree
<1>1. PowerAllowed
      /\ power'.wakeAt = CHOOSE t \in WakeTimes \cup {Never} : \A u \in WakeTimes : t <= u
  BY DEF DecidePower
<1>2. rows \in [Ids -> RowTypes] /\ loop.now \in Nat
      /\ WakeMargin \in Nat /\ MinimumIdle \in Nat \ {0}
  BY SchedulerAssumption, Numbers DEF IInv, TypeOK, RowTypes
<1>3. ASSUME NEW r \in Ids
      PROVE  runs[r].at \notin Unreceived
  <2>1. Cardinality(Uncollected) = 0
    BY DEF DecidePower, IInv, LoopPlaces, RunsCounted
  <2>2. Uncollected = {}
    BY <2>1, CountsTyped, FS_EmptySet
  <2> QED
    BY <2>2 DEF Uncollected
<1>4. ASSUME NEW q \in Candidates
      PROVE  /\ rows[q].start >= loop.now + MinimumIdle
             /\ power'.wakeAt + WakeMargin <= rows[q].start
  <2>1. PICK r \in DecidedBy : TRUE
    BY <1>2, NextExists DEF DecidedBy
  <2>2. r \in Ids /\ q \in Ids
    BY DEF DecidedBy, NextActiveReservation, Candidates
  <2>3. rows[r].start \in Nat /\ rows[q].start \in Nat
    BY <1>2, <2>2, RowFields
  <2>4. rows[r].start >= loop.now + MinimumIdle
    BY <1>1 DEF PowerAllowed
  <2>5. rows[r].start > loop.now
    BY <1>2, <2>3, <2>4
  <2>6. rows[r].start <= rows[q].start
    BY <1>2, <2>5, NextStartsFirst DEF DecidedBy
  <2>7. rows[r].start - WakeMargin \in WakeTimes
    BY DEF WakeTimes
  <2>8. power'.wakeAt = rows[r].start - WakeMargin
    BY <1>1, <2>7, WakeTyped DEF IInv
  <2> QED
    BY <1>2, <2>3, <2>4, <2>6, <2>8
<1> QED
  BY <1>3, <1>4 DEF SleepIsFree

\* The machine is put to sleep only when it is free.
THEOREM SleepsFree == Spec => SleepsOnlyWhenFree
<1>1. ASSUME IInv, [Next]_vars
      PROVE  [SleepIsFree]_vars
  <2>1. CASE DecidePower
    BY <1>1, <2>1, DecisionIsSafe DEF SleepIsFree
  <2>2. CASE LoopStep /\ ~DecidePower
    <3>1. UNCHANGED power
      BY <2>2 DEF LoopStep, TakeCompletion, Expire, ReadDeadline, ReadNext, Park, WaitStopped,
                  WaitWoken, WaitCompleted, TakeSlot, ClaimStep, MissStep, Register, Drain,
                  Return, ReceiveAnd, LoopFails
    <3> QED
      BY <3>1 DEF SleepIsFree
  <2>3. CASE \E r \in Ids : RunStep(r) \/ HandlerStep(r)
    <3>1. UNCHANGED power
      BY <2>3 DEF RunStep, StartRecording, EndRecording, FailRecording, Unregister, AroundRun,
                  HandlerStep, Add, Change, Delete, NotifyStop, Notify, AroundHandler, loopVars
    <3> QED
      BY <3>1 DEF SleepIsFree
  <2>4. CASE Tick \/ Shutdown
    BY <2>4 DEF Tick, Shutdown, loopVars, SleepIsFree
  <2> QED
    BY <1>1, <2>1, <2>2, <2>3, <2>4 DEF Next
<1> QED
  BY <1>1, SchedulerInductive, PTL DEF Spec, SleepsOnlyWhenFree
=============================================================================
