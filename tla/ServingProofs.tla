---------------------------- MODULE ServingProofs ----------------------------
(***************************************************************************)
(* Theorems about what runs beside the recorder.                           *)
(*                                                                         *)
(* CtrlCmdServer: the limits on connections and handlers hold for any      *)
(* clients, and after main's wait no connection is served.  LiveRelay: for *)
(* every set of networks and calls, every limit on sessions and streams,   *)
(* every last process id that leaves each session one, and every number of *)
(* selections.  AutoReservation: which reservations an evaluation makes,   *)
(* under which rule, and which it changes.                                 *)
(***************************************************************************)
EXTENDS CtrlCmdServer, LiveRelay, AutoReservation, FiniteSetTheorems, WellFoundedInduction, TLAPS

-----------------------------------------------------------------------------
(* The CtrlCmd server.                                                     *)

Places == {"out", "header", "body"} \cup Handling

\* Its steps move one connection, or none; main's own steps move none.
Moves(c, place) == conn' = [conn EXCEPT ![c] = place]

\* A step of one connection keeps both limits: it enters under the limit of the
\* connections, or becomes a request under the limit of the handlers.
LEMMA LimitsKept ==
    ASSUME ServerAssumption, ServerTypeOK, NEW c \in Conns, NEW place \in Places, Moves(c, place),
           conn[c] = "out" /\ place # "out" => Cardinality(Served) < MaxConnections,
           conn[c] \notin Handling /\ place \in Handling => Cardinality(Handlers) < MaxHandlers
    PROVE  /\ conn' \in [Conns -> Places]
           /\ Cardinality(Served') <= MaxConnections /\ Cardinality(Handlers') <= MaxHandlers
           /\ Served' \subseteq Served \cup {c} /\ (place = "out" => Served' = Served \ {c})
           /\ (place # "out" => Served' = Served \cup {c})
<1>1. conn' \in [Conns -> Places] /\ conn'[c] = place /\ \A d \in Conns : d # c => conn'[d] = conn[d]
  BY DEF Moves, ServerTypeOK, Places
<1>2. /\ Served' = IF place = "out" THEN Served \ {c} ELSE Served \cup {c}
      /\ Handlers' = IF place \in Handling THEN Handlers \cup {c} ELSE Handlers \ {c}
      /\ c \in Served <=> conn[c] # "out"
      /\ c \in Handlers <=> conn[c] \in Handling
  BY <1>1 DEF Served, Handlers
<1>3. /\ IsFiniteSet(Served) /\ IsFiniteSet(Handlers)
      /\ Cardinality(Served) \in Nat /\ Cardinality(Handlers) \in Nat
      /\ MaxConnections \in Nat /\ MaxHandlers \in Nat
      /\ Cardinality(Served) <= MaxConnections /\ Cardinality(Handlers) <= MaxHandlers
  <2>1. IsFiniteSet(Conns) /\ Served \subseteq Conns /\ Handlers \subseteq Conns
    BY DEF ServerAssumption, Served, Handlers
  <2>2. IsFiniteSet(Served) /\ IsFiniteSet(Handlers)
    BY <2>1, FS_Subset
  <2> QED
    BY <2>2, FS_CardinalityType DEF ServerAssumption, ServerTypeOK
<1>4. Cardinality(Served') <= MaxConnections
  <2>1. Cardinality(Served \ {c}) = IF c \in Served THEN Cardinality(Served) - 1 ELSE Cardinality(Served)
    BY <1>3, FS_RemoveElement
  <2>2. Cardinality(Served \cup {c}) = IF c \in Served THEN Cardinality(Served) ELSE Cardinality(Served) + 1
    BY <1>3, FS_AddElement
  <2> QED
    BY <1>2, <1>3, <2>1, <2>2
<1>5. Cardinality(Handlers') <= MaxHandlers
  <2>1. Cardinality(Handlers \ {c}) = IF c \in Handlers THEN Cardinality(Handlers) - 1 ELSE Cardinality(Handlers)
    BY <1>3, FS_RemoveElement
  <2>2. Cardinality(Handlers \cup {c}) = IF c \in Handlers THEN Cardinality(Handlers) ELSE Cardinality(Handlers) + 1
    BY <1>3, FS_AddElement
  <2> QED
    BY <1>2, <1>3, <2>1, <2>2
<1> QED
  BY <1>1, <1>2, <1>4, <1>5

\* A step of a connection; a new one needs an open listener.
LEMMA ConnectionStep ==
    ASSUME ServerAssumption, ServerIInv, NEW c \in Conns, NEW place \in Places, Moves(c, place),
           conn[c] = "out" /\ place # "out" =>
              Cardinality(Served) < MaxConnections /\ listens,
           conn[c] \notin Handling /\ place \in Handling => Cardinality(Handlers) < MaxHandlers,
           conn[c] = "out" => place # "out",
           IF place = "out" THEN stalled' = stalled \ {c} ELSE UNCHANGED stalled,
           session' \in [Sessions -> {"none", "selected"} \cup Conns], Process
    PROVE  ServerIInv'
<1>1. /\ conn' \in [Conns -> Places]
      /\ Cardinality(Served') <= MaxConnections /\ Cardinality(Handlers') <= MaxHandlers
      /\ Served' \subseteq Served \cup {c} /\ (place = "out" => Served' = Served \ {c})
      /\ (place # "out" => Served' = Served \cup {c})
  BY LimitsKept DEF ServerIInv
<1>2. stalled' \subseteq Served'
  BY <1>1 DEF ServerIInv, ServerTypeOK
<1>3. ServerTypeOK'
  BY <1>1, <1>2 DEF ServerIInv, ServerTypeOK, Places, Process
<1>4. Closed'
  BY DEF ServerIInv, Closed, Process
<1>5. NothingAfterWait'
  <2> SUFFICES ASSUME process = "waited"
               PROVE  FALSE
    BY DEF NothingAfterWait, Process
  <2>1. Served = {} /\ ~listens
    BY DEF ServerIInv, Closed, NothingAfterWait
  <2>2. conn[c] = "out"
    BY <2>1 DEF Served
  <2> QED
    BY <2>1, <2>2
<1> QED
  BY <1>3, <1>4, <1>5 DEF ServerIInv

LEMMA ServerStep ==
    ASSUME ServerAssumption, ServerIInv, [ServerNext]_serverVars
    PROVE  ServerIInv'
<1> USE DEF Moves, Places, Handling
<1>0. /\ conn \in [Conns -> Places] /\ stalled \subseteq Served
      /\ session \in [Sessions -> {"none", "selected"} \cup Conns]
  BY DEF ServerIInv, ServerTypeOK
<1>1. ASSUME NEW c \in Conns, Leave(c), conn[c] # "out"
      PROVE  ServerIInv'
  <2>1. session' \in [Sessions -> {"none", "selected"} \cup Conns]
    BY <1>0, <1>1 DEF Leave, Released
  <2> QED
    BY <1>1, <2>1, ConnectionStep DEF Leave
<1>2. ASSUME NEW c \in Conns, NEW place \in Places \ {"out"}, Advance(c, place), conn[c] # "out",
             conn[c] \notin Handling /\ place \in Handling => Cardinality(Handlers) < MaxHandlers,
             session' \in [Sessions -> {"none", "selected"} \cup Conns]
      PROVE  ServerIInv'
  BY <1>2, ConnectionStep DEF Advance
<1>3. ASSUME NEW c \in Conns, Accept(c)
      PROVE  ServerIInv'
  BY <1>0, <1>3, ConnectionStep DEF Accept
<1>4. ASSUME NEW c \in Conns, Stall(c)
      PROVE  ServerIInv'
  BY <1>4 DEF Stall, Process, ServerIInv, ServerTypeOK, Closed, NothingAfterWait, Served, Handlers
<1>5. ASSUME NEW c \in Conns, Break(c) \/ Expires(c) \/ Flush(c) \/ CopyReturns(c) \/ WriteExpires(c)
      PROVE  ServerIInv'
  BY <1>1, <1>5 DEF Break, Expires, Flush, CopyReturns, WriteExpires
<1>6. ASSUME NEW c \in Conns, ReadHeader(c)
      PROVE  ServerIInv'
  BY <1>0, <1>2, <1>6 DEF ReadHeader
<1>7. ASSUME NEW c \in Conns, ReadBody(c)
      PROVE  ServerIInv'
  <2>1. CASE Leave(c)
    BY <1>1, <1>7, <2>1 DEF ReadBody
  <2>2. CASE Cardinality(Handlers) < MaxHandlers /\ (Advance(c, "handle") \/ Advance(c, "long")) /\ UNCHANGED session
    BY <1>0, <1>2, <1>7, <2>2 DEF ReadBody
  <2> QED
    BY <1>7, <2>1, <2>2 DEF ReadBody
<1>8. ASSUME NEW c \in Conns, Handle(c)
      PROVE  ServerIInv'
  <2>1. CASE Leave(c)
    BY <1>1, <1>8, <2>1 DEF Handle
  <2>2. CASE /\ Advance(c, "flush")
             /\ \/ UNCHANGED session
                \/ \E i \in Sessions : \/ session[i] = "none" /\ session' = [session EXCEPT ![i] = "selected"]
                                       \/ session' = [session EXCEPT ![i] = "none"]
    <3>1. session' \in [Sessions -> {"none", "selected"} \cup Conns]
      BY <1>0, <2>2
    <3> QED
      BY <1>2, <1>8, <2>2, <3>1 DEF Handle
  <2> QED
    BY <1>8, <2>1, <2>2 DEF Handle
<1>9. ASSUME NEW c \in Conns, OpenLive(c)
      PROVE  ServerIInv'
  <2>1. CASE Leave(c)
    BY <1>1, <1>9, <2>1 DEF OpenLive
  <2>2. CASE \E i \in Sessions : /\ session[i] = "selected" /\ session' = [session EXCEPT ![i] = c]
                                 /\ Advance(c, "relay")
    <3>1. session' \in [Sessions -> {"none", "selected"} \cup Conns]
      BY <1>0, <2>2
    <3> QED
      BY <1>2, <1>9, <2>2, <3>1 DEF OpenLive
  <2> QED
    BY <1>9, <2>1, <2>2 DEF OpenLive
<1>10. CASE ServeReturns \/ Stop \/ CloseListener \/ Collect \/ Wait \/ UNCHANGED serverVars
  <2>1. ConnectionsUnchanged
    BY <1>10 DEF ServeReturns, Stop, CloseListener, Collect, Wait, serverVars, ConnectionsUnchanged
  <2>2. Served' = Served /\ Handlers' = Handlers
    BY <2>1 DEF ConnectionsUnchanged, Served, Handlers
  <2>3. ServerTypeOK'
    BY <1>10, <2>1, <2>2
    DEF ServeReturns, Stop, CloseListener, Collect, Wait, serverVars, ConnectionsUnchanged,
        ServerIInv, ServerTypeOK
  <2>4. Closed' /\ NothingAfterWait'
    BY <1>10, <2>2
    DEF ServeReturns, Stop, CloseListener, Collect, Wait, serverVars,
        ServerIInv, ServerTypeOK, Closed, NothingAfterWait, Counted
  <2> QED
    BY <2>3, <2>4 DEF ServerIInv
<1> QED
  BY <1>3, <1>4, <1>5, <1>6, <1>7, <1>8, <1>9, <1>10 DEF ServerNext

-----------------------------------------------------------------------------
\* The types, with both limits, and the order of the shutdown hold for any
\* number of clients and any limits.
THEOREM ServerInductive ==
    ASSUME ServerAssumption
    PROVE  ServerSpec => []ServerIInv
<1>1. ServerInit => ServerIInv
  <2> SUFFICES ASSUME ServerInit
               PROVE  ServerIInv
    OBVIOUS
  <2>1. Served = {} /\ Handlers = {}
    BY DEF ServerInit, Served, Handlers, Handling
  <2> QED
    BY <2>1, FS_EmptySet
    DEF ServerInit, ServerIInv, ServerTypeOK, Closed, NothingAfterWait, ServerAssumption
<1>2. ServerIInv /\ [ServerNext]_serverVars => ServerIInv'
  BY ServerStep
<1> QED
  BY <1>1, <1>2, PTL DEF ServerSpec

\* When main has waited for the CtrlCmd server and goes on to close the stores,
\* no connection is served, not one either that was accepted late.
THEOREM NothingServedAfterWait ==
    ASSUME ServerAssumption
    PROVE  ServerSpec => []NothingAfterWait
<1>1. ServerIInv => NothingAfterWait
  BY DEF ServerIInv
<1> QED
  BY <1>1, ServerInductive, PTL

-----------------------------------------------------------------------------
(* nextProcessIDLocked.                                                    *)

\* The ids that are tried follow each other around the end of their range.
LEMMA AfterTyped ==
    ASSUME LiveAssumption, NEW id \in Ids, NEW k \in 0 .. LastId
    PROVE  After(id, k) \in Ids /\ After(id, k) = IF id + k > LastId THEN id + k - LastId ELSE id + k
<1>1. LastId \in Nat \ {0} /\ id - 1 + k \in Nat
  BY DEF LiveAssumption, Ids
<1>2. CASE id + k > LastId
  <2>1. id - 1 + k = LastId + (id + k - LastId - 1) /\ id + k - LastId - 1 \in 0 .. LastId - 1
    BY <1>1, <1>2 DEF Ids
  <2>2. (id - 1 + k) % LastId = id + k - LastId - 1
    BY <1>1, <2>1
  <2> QED
    BY <1>1, <1>2, <2>2 DEF After, Ids
<1>3. CASE id + k <= LastId
  <2>1. id - 1 + k \in 0 .. LastId - 1
    BY <1>1, <1>3 DEF Ids
  <2>2. (id - 1 + k) % LastId = id - 1 + k
    BY <1>1, <2>1
  <2> QED
    BY <1>1, <1>3, <2>2 DEF After, Ids
<1> QED
  BY <1>1, <1>2, <1>3 DEF Ids

\* So as many attempts as there are sessions try different ids.
LEMMA AfterDiffers ==
    ASSUME LiveAssumption, NEW id \in Ids, NEW j \in 0 .. MaximumSessions - 1,
           NEW k \in 0 .. MaximumSessions - 1, After(id, j) = After(id, k)
    PROVE  j = k
<1>1. j \in 0 .. LastId /\ k \in 0 .. LastId /\ j < LastId /\ k < LastId /\ LastId \in Nat
  BY DEF LiveAssumption
<1>2. /\ After(id, j) = IF id + j > LastId THEN id + j - LastId ELSE id + j
      /\ After(id, k) = IF id + k > LastId THEN id + k - LastId ELSE id + k
  BY <1>1, AfterTyped
<1>3. id \in Nat /\ id >= 1 /\ id <= LastId /\ j \in Nat /\ k \in Nat
  BY <1>1 DEF Ids
<1>4. /\ j < LastId /\ k < LastId /\ LastId \in Nat
  BY <1>1
<1>5. After(id, j) = id + j - LastId \/ After(id, j) = id + j
  BY <1>2
<1>6. After(id, k) = id + k - LastId \/ After(id, k) = id + k
  BY <1>2
<1> QED
  BY <1>3, <1>4, <1>5, <1>6

\* A number that fits best among natural numbers.
LEMMA SmallestExists ==
    ASSUME NEW S \in SUBSET Nat, S # {}
    PROVE  (CHOOSE k \in S : \A j \in S : k <= j) \in S
<1>1. PICK k \in S : \A j \in S : <<j, k>> \notin OpToRel(<, Nat)
  BY NatLessThanWellFounded, WFMin
<1>2. \A j \in S : ~(j < k)
  BY <1>1 DEF OpToRel
<1>3. k \in Nat /\ \A j \in S : j \in Nat
  OBVIOUS
<1>4. \A j \in S : k <= j
  BY <1>2, <1>3
<1> QED
  BY <1>4

\* A selection that takes the place of another, or that the limit admits, finds
\* a process id that nobody uses: the sessions in use name fewer ids than are
\* tried.
LEMMA FreeIdFound ==
    ASSUME LiveAssumption, TypeOK, SelectionsMade, TablesAgree,
           NEW m \in Managers, NEW n \in Networks,
           byNetwork[m][n] # 0 \/ Cardinality(Used(m)) < MaximumSessions,
           NEW table, table = Without(byProcess, byNetwork[m][n])
    PROVE  /\ NextProcessID(m, table) \in Ids
           /\ table[m][NextProcessID(m, table)] = 0
<1> DEFINE tries == 0 .. MaximumSessions - 1
           others == Used(m) \ {n}
           free == FreeSteps(m, table)
           picked == CHOOSE k \in free : \A j \in free : k <= j
<1>1. /\ MaximumSessions \in Nat \ {0} /\ LastId \in Nat /\ MaximumSessions <= LastId
      /\ next[m] \in Ids /\ IsFiniteSet(Networks)
  BY DEF LiveAssumption, TypeOK
<1>2. \A i \in Ids : /\ table[m][i] # 0 => /\ table[m][i] = byProcess[m][i]
                                             /\ table[m][i] # byNetwork[m][n]
                                             /\ table[m][i] \in Selections
                     /\ byProcess[m][i] \in {0} \cup Selections
  BY DEF Without, TypeOK
<1>3. IsFiniteSet(others) /\ Cardinality(others) < MaximumSessions /\ Cardinality(others) \in Nat
  <2>1. IsFiniteSet(Used(m)) /\ Cardinality(Used(m)) \in Nat
    BY <1>1, FS_Subset, FS_CardinalityType DEF Used
  <2>2. Cardinality(Used(m)) <= MaximumSessions
    BY DEF TablesAgree
  <2>3. IsFiniteSet(others) /\ Cardinality(others) =
           IF n \in Used(m) THEN Cardinality(Used(m)) - 1 ELSE Cardinality(Used(m))
    BY <2>1, FS_RemoveElement
  <2>4. Cardinality(others) \in Nat
    BY <2>3, FS_CardinalityType
  <2>5. byNetwork[m][n] # 0 => n \in Used(m)
    BY DEF Used
  <2> QED
    BY <1>1, <2>1, <2>2, <2>3, <2>4, <2>5
<1>4. IsFiniteSet(tries) /\ Cardinality(tries) = MaximumSessions
  <2>1. 0 \in Int /\ MaximumSessions - 1 \in Int /\ ~(0 > MaximumSessions - 1)
        /\ MaximumSessions - 1 - 0 + 1 = MaximumSessions
    BY <1>1
  <2> QED
    BY <2>1, FS_Interval
<1>5. free # {}
  <2> SUFFICES ASSUME free = {}
               PROVE  FALSE
    OBVIOUS
  <2> DEFINE owner == [k \in tries |-> sel[table[m][After(next[m], k)]].network]
  <2>1. \A k \in tries : After(next[m], k) \in Ids /\ table[m][After(next[m], k)] # 0
    <3> TAKE k \in tries
    <3>1. k \in 0 .. LastId /\ k \in 0 .. MaximumSessions
      BY <1>1
    <3> QED
      BY <1>1, <3>1, AfterTyped DEF FreeSteps
  <2>2. ASSUME NEW i \in Ids, table[m][i] # 0
        PROVE  /\ sel[table[m][i]].network \in others
               /\ byNetwork[m][sel[table[m][i]].network] = table[m][i]
               /\ sel[table[m][i]].id = i
    <3>1. /\ table[m][i] = byProcess[m][i] /\ table[m][i] # byNetwork[m][n]
          /\ table[m][i] \in Selections
      BY <1>2, <2>2
    <3>2. /\ sel[table[m][i]].id = i /\ sel[table[m][i]].manager = m
          /\ byNetwork[m][sel[table[m][i]].network] = table[m][i]
      BY <2>2, <3>1 DEF TablesAgree
    <3>3. sel[table[m][i]].network \in Networks
      BY <3>1, <3>2 DEF SelectionsMade, NoSelection, Managers
    <3> QED
      BY <2>2, <3>1, <3>2, <3>3 DEF Used
  <2>3. owner \in [tries -> others]
    BY <2>1, <2>2
  <2> HIDE DEF others, tries, owner
  <2>4. PICK j, k \in tries : j # k /\ owner[j] = owner[k]
    BY <1>3, <1>4, <2>3, FS_PigeonHole
  <2>5. sel[table[m][After(next[m], j)]].network = sel[table[m][After(next[m], k)]].network
    BY SMTT(30), <2>4 DEF owner
  <2>6. After(next[m], j) = After(next[m], k)
    BY SMTT(30), <2>1, <2>2, <2>4, <2>5
  <2> QED
    BY <1>1, <2>4, <2>6, AfterDiffers DEF tries
<1>6. picked \in free
  <2>1. free \subseteq Nat
    BY DEF FreeSteps
  <2> HIDE DEF free
  <2> QED
    BY <1>5, <2>1, SmallestExists
<1>7. picked \in 0 .. LastId /\ table[m][After(next[m], picked)] = 0
  BY <1>1, <1>6 DEF FreeSteps
<1>8. NextProcessID(m, table) = After(next[m], picked)
  BY DEF NextProcessID
<1> QED
  BY <1>1, <1>7, <1>8, AfterTyped

-----------------------------------------------------------------------------
(* The tables.                                                             *)

TableTypes ==
    /\ next \in [Managers -> Ids]
    /\ byNetwork \in [Managers -> [Networks -> {0} \cup Selections]]
    /\ byProcess \in [Managers -> [Ids -> {0} \cup Selections]]
    /\ sel \in [Selections -> [manager : Managers \cup {"none"}, network : Networks \cup {0},
                               id : Ids \cup {0}, streaming : BOOLEAN]]

Made(s) == sel[s] # NoSelection

\* A selection that was made names entries of the tables.
LEMMA MadeTyped ==
    ASSUME SelectionsMade, NEW s \in Selections, Made(s)
    PROVE  sel[s].manager \in Managers /\ sel[s].network \in Networks /\ sel[s].id \in Ids
BY SMTT(30) DEF SelectionsMade, Made

\* What a table holds was made.
LEMMA EntriesMade ==
    ASSUME TypeOK, TablesAgree, NEW m \in Managers
    PROVE  /\ \A n \in Networks : byNetwork[m][n] # 0 =>
                 byNetwork[m][n] \in Selections /\ Made(byNetwork[m][n])
                 /\ Listed(byNetwork[m][n])
           /\ \A i \in Ids : byProcess[m][i] # 0 =>
                 byProcess[m][i] \in Selections /\ Made(byProcess[m][i])
                 /\ Listed(byProcess[m][i])
BY DEF TypeOK, TablesAgree, Made, NoSelection, Managers, Listed

LEMMA ManagedFinite ==
    ASSUME LiveAssumption, NEW S, NEW T, S \subseteq T, T \subseteq Networks
    PROVE  IsFiniteSet(T) /\ Cardinality(S) <= Cardinality(T) /\ Cardinality(S) \in Nat
           /\ Cardinality(T) \in Nat
BY FS_Subset, FS_CardinalityType DEF LiveAssumption

\* Nothing that a removal leaves behind disagrees, and it removes nothing else.
LEMMA RemovalKeeps ==
    ASSUME LiveAssumption, TypeOK, SelectionsMade, TablesAgree, NEW s \in Selections,
           RemoveListed(s), sel' = sel
    PROVE  /\ TableTypes' /\ TablesAgree'
           /\ \A t \in Selections : Made(t) => (Listed(t)' <=> Listed(t) /\ t # s)
<1>1. /\ \A m \in Managers : \A n \in Networks :
            byNetwork'[m][n] = IF byNetwork[m][n] = s THEN 0 ELSE byNetwork[m][n]
      /\ \A m \in Managers : \A i \in Ids :
            byProcess'[m][i] = IF byProcess[m][i] = s THEN 0 ELSE byProcess[m][i]
      /\ s # 0 /\ next' = next
  BY DEF RemoveListed, Without, TypeOK, Selections
<1>2. TableTypes'
  BY DEF TypeOK, TableTypes, RemoveListed, Without
<1>3. \A t \in Selections : Made(t) => (Listed(t)' <=> Listed(t) /\ t # s)
  <2> SUFFICES ASSUME NEW t \in Selections, Made(t)
               PROVE  Listed(t)' <=> Listed(t) /\ t # s
    OBVIOUS
  <2>1. sel[t].manager \in Managers /\ sel[t].id \in Ids /\ t # 0
    BY MadeTyped DEF Selections
  <2> QED
    BY <1>1, <2>1 DEF Listed
<1>4. TablesAgree'
  <2> SUFFICES ASSUME NEW m \in Managers
               PROVE  /\ \A n \in Networks : byNetwork'[m][n] # 0 =>
                            /\ sel[byNetwork'[m][n]].manager = m /\ sel[byNetwork'[m][n]].network = n
                            /\ Listed(byNetwork[m][n])'
                      /\ \A i \in Ids : byProcess'[m][i] # 0 =>
                            /\ sel[byProcess'[m][i]].manager = m /\ sel[byProcess'[m][i]].id = i
                            /\ byNetwork'[m][sel[byProcess'[m][i]].network] = byProcess'[m][i]
                      /\ Cardinality(Used(m))' <= MaximumSessions
    BY DEF TablesAgree
  <2>1. ASSUME NEW n \in Networks, byNetwork'[m][n] # 0
        PROVE  /\ sel[byNetwork'[m][n]].manager = m /\ sel[byNetwork'[m][n]].network = n
               /\ Listed(byNetwork[m][n])'
    <3>1. byNetwork'[m][n] = byNetwork[m][n] /\ byNetwork[m][n] # s /\ byNetwork[m][n] # 0
      BY <1>1, <2>1
    <3>2. /\ byNetwork[m][n] \in Selections /\ Made(byNetwork[m][n]) /\ Listed(byNetwork[m][n])
          /\ sel[byNetwork[m][n]].manager = m /\ sel[byNetwork[m][n]].network = n
          /\ sel[byNetwork[m][n]].id \in Ids
      BY <3>1, EntriesMade, MadeTyped DEF TablesAgree
    <3> QED
      BY <1>1, <3>1, <3>2 DEF Listed
  <2>2. ASSUME NEW i \in Ids, byProcess'[m][i] # 0
        PROVE  /\ sel[byProcess'[m][i]].manager = m /\ sel[byProcess'[m][i]].id = i
               /\ byNetwork'[m][sel[byProcess'[m][i]].network] = byProcess'[m][i]
    <3>1. byProcess'[m][i] = byProcess[m][i] /\ byProcess[m][i] # s /\ byProcess[m][i] # 0
      BY <1>1, <2>2
    <3>2. /\ sel[byProcess[m][i]].manager = m /\ sel[byProcess[m][i]].id = i
          /\ byNetwork[m][sel[byProcess[m][i]].network] = byProcess[m][i]
          /\ sel[byProcess[m][i]].network \in Networks
      BY <3>1, EntriesMade, MadeTyped DEF TablesAgree
    <3> QED
      BY <1>1, <3>1, <3>2
  <2>3. Cardinality(Used(m))' <= MaximumSessions
    <3>1. Used(m)' \subseteq Used(m) /\ Used(m) \subseteq Networks
      BY <1>1 DEF Used
    <3>2. Cardinality(Used(m)) <= MaximumSessions /\ MaximumSessions \in Nat
      BY DEF TablesAgree, LiveAssumption
    <3>3. /\ Cardinality(Used(m)') <= Cardinality(Used(m))
          /\ Cardinality(Used(m)') \in Nat /\ Cardinality(Used(m)) \in Nat
      BY <3>1, ManagedFinite
    <3> QED
      BY <3>2, <3>3
  <2> QED
    BY <2>1, <2>2, <2>3
<1> QED
  BY <1>2, <1>3, <1>4

\* The end of a manager removes all its entries, and no other.
LEMMA CloseAllKeeps ==
    ASSUME LiveAssumption, TypeOK, SelectionsMade, TablesAgree, NEW m \in Managers, CloseAll(m)
    PROVE  TableTypes' /\ TablesAgree' /\ \A t \in Selections : Made(t) /\ Listed(t)' => Listed(t)
<1>1. /\ byNetwork' = [byNetwork EXCEPT ![m] = [n \in Networks |-> 0]]
      /\ byProcess' = [byProcess EXCEPT ![m] = [i \in Ids |-> 0]]
      /\ sel' = sel /\ next' = next
  BY DEF CloseAll
<1>2. TableTypes'
  BY <1>1 DEF TypeOK, TableTypes
<1>3. \A t \in Selections : Made(t) => (Listed(t)' <=> Listed(t) /\ sel[t].manager # m)
  <2> SUFFICES ASSUME NEW t \in Selections, Made(t)
               PROVE  Listed(t)' <=> Listed(t) /\ sel[t].manager # m
    OBVIOUS
  <2>1. sel[t].manager \in Managers /\ sel[t].id \in Ids /\ t # 0
    BY MadeTyped DEF Selections
  <2> QED
    BY <1>1, <2>1 DEF Listed, TypeOK
<1>4. TablesAgree'
  <2> SUFFICES ASSUME NEW k \in Managers
               PROVE  /\ \A n \in Networks : byNetwork'[k][n] # 0 =>
                            /\ sel[byNetwork'[k][n]].manager = k /\ sel[byNetwork'[k][n]].network = n
                            /\ Listed(byNetwork[k][n])'
                      /\ \A i \in Ids : byProcess'[k][i] # 0 =>
                            /\ sel[byProcess'[k][i]].manager = k /\ sel[byProcess'[k][i]].id = i
                            /\ byNetwork'[k][sel[byProcess'[k][i]].network] = byProcess'[k][i]
                      /\ Cardinality(Used(k))' <= MaximumSessions
    BY <1>1 DEF TablesAgree
  <2>1. CASE k = m
    <3>1. Used(k)' = {} /\ MaximumSessions \in Nat
      BY <1>1, <2>1 DEF Used, TypeOK, LiveAssumption
    <3> QED
      BY <1>1, <2>1, <3>1, FS_EmptySet DEF TypeOK
  <2>2. CASE k # m
    <3>1. byNetwork'[k] = byNetwork[k] /\ byProcess'[k] = byProcess[k]
      BY <1>1, <2>2 DEF TypeOK
    <3>2. Cardinality(Used(k))' <= MaximumSessions
      BY SMTT(30), <3>1 DEF Used, TablesAgree
    <3>3. \A n \in Networks : byNetwork[k][n] # 0 => Listed(byNetwork[k][n])'
      BY SMTT(30), <1>1, <3>1, EntriesMade DEF TablesAgree, Listed
    <3> QED
      BY <3>1, <3>2, <3>3 DEF TablesAgree
  <2> QED
    BY <2>1, <2>2
<1> QED
  BY <1>2, <1>3, <1>4

\* Nothing that leaves the tables alone, and what a selection names, disagrees.
LEMMA SameTablesKeep ==
    ASSUME TypeOK, SelectionsMade, TablesAgree, UNCHANGED tableVars,
           \A s \in Selections :
              /\ sel'[s].manager = sel[s].manager /\ sel'[s].network = sel[s].network
              /\ sel'[s].id = sel[s].id
    PROVE  TablesAgree' /\ \A s \in Selections : Listed(s)' <=> Listed(s)
<1>1. \A s \in Selections : Listed(s)' <=> Listed(s)
  BY DEF Listed, tableVars
<1>2. \A m \in Managers : /\ \A n \in Networks : byNetwork[m][n] # 0 => byNetwork[m][n] \in Selections
                          /\ \A i \in Ids : byProcess[m][i] # 0 => byProcess[m][i] \in Selections
  BY DEF TypeOK
<1> QED
  BY SMTT(30), <1>1, <1>2 DEF TablesAgree, tableVars, Used, Listed

\* A selection enters both tables, in the place of the one that its network id
\* had, if any.
LEMMA SelectKeeps ==
    ASSUME LiveAssumption, TypeOK, SelectionsMade, TablesAgree,
           NEW m \in Managers, NEW n \in Networks, Select(m, n)
    PROVE  /\ TableTypes' /\ TablesAgree' /\ SelectionsMade'
           /\ \A t \in Selections : Made(t) =>
                 sel'[t] = sel[t] /\ (Listed(t)' <=> Listed(t) /\ t # byNetwork[m][n])
           /\ \A t \in Selections : sel'[t].streaming => Made(t)
<1> DEFINE old == byNetwork[m][n]
           table == Without(byProcess, old)
           id == NextProcessID(m, table)
<1>1. PICK s \in Selections :
         /\ ~Made(s)
         /\ sel' = [sel EXCEPT ![s] = [NoSelection EXCEPT !.manager = m, !.network = n, !.id = id]]
         /\ byProcess' = [table EXCEPT ![m][id] = s]
         /\ next' = [next EXCEPT ![m] = After(id, 1)]
         /\ byNetwork' = [byNetwork EXCEPT ![m][n] = s]
  BY DEF Select, Made
<1>2. id \in Ids /\ table[m][id] = 0
  <2>1. byNetwork[m][n] # 0 \/ Cardinality(Used(m)) < MaximumSessions
    BY DEF Select
  <2> QED
    BY <2>1, FreeIdFound
<1>3. \A k \in Managers : \A i \in Ids :
         table[k][i] = IF old # 0 /\ byProcess[k][i] = old THEN 0 ELSE byProcess[k][i]
  BY DEF Without, TypeOK
<1>4. table \in [Managers -> [Ids -> {0} \cup Selections]] /\ After(id, 1) \in Ids /\ s # 0
  <2>1. 1 \in 0 .. LastId
    BY DEF LiveAssumption
  <2> QED
    BY <1>2, <2>1, AfterTyped DEF Without, TypeOK, Selections
<1> HIDE DEF id, table
<1>5. /\ \A k \in Managers : \A i \in Ids :
            byProcess'[k][i] = IF k = m /\ i = id THEN s ELSE table[k][i]
      /\ \A k \in Managers : \A j \in Networks :
            byNetwork'[k][j] = IF k = m /\ j = n THEN s ELSE byNetwork[k][j]
      /\ sel'[s] = [manager |-> m, network |-> n, id |-> id, streaming |-> FALSE]
      /\ \A t \in Selections : t # s => sel'[t] = sel[t]
  BY <1>1, <1>2, <1>4 DEF TypeOK, NoSelection
<1>6. TableTypes'
  <2>1. next' \in [Managers -> Ids]
    BY <1>1, <1>4 DEF TypeOK
  <2>2. byNetwork' \in [Managers -> [Networks -> {0} \cup Selections]]
    BY <1>1 DEF TypeOK
  <2>3. byProcess' \in [Managers -> [Ids -> {0} \cup Selections]]
    BY <1>1, <1>4
  <2>4. [NoSelection EXCEPT !.manager = m, !.network = n, !.id = id]
           \in [manager : Managers \cup {"none"}, network : Networks \cup {0},
               id : Ids \cup {0}, streaming : BOOLEAN]
    BY <1>2 DEF NoSelection
  <2>5. sel' \in [Selections -> [manager : Managers \cup {"none"}, network : Networks \cup {0},
                                 id : Ids \cup {0}, streaming : BOOLEAN]]
    BY <1>1, <2>4 DEF TypeOK
  <2> QED
    BY <2>1, <2>2, <2>3, <2>5 DEF TableTypes
<1>7. SelectionsMade'
  BY <1>2, <1>5 DEF SelectionsMade
<1>8. ASSUME NEW t \in Selections, Made(t)
      PROVE  sel'[t] = sel[t] /\ (Listed(t)' <=> Listed(t) /\ t # old)
  <2>1. t # s /\ sel'[t] = sel[t] /\ t # 0
    BY <1>1, <1>5, <1>8 DEF Selections
  <2>2. sel[t].manager \in Managers /\ sel[t].id \in Ids
    BY <1>8, MadeTyped
  <2> QED
    BY <1>2, <1>3, <1>5, <2>1, <2>2 DEF Listed
<1>9. \A t \in Selections : sel'[t].streaming => Made(t)
  BY <1>5 DEF NoSelection, Made
<1>10. TablesAgree'
  <2> SUFFICES ASSUME NEW k \in Managers
               PROVE  /\ \A j \in Networks : byNetwork'[k][j] # 0 =>
                            /\ sel'[byNetwork'[k][j]].manager = k
                            /\ sel'[byNetwork'[k][j]].network = j
                            /\ Listed(byNetwork[k][j])'
                      /\ \A i \in Ids : byProcess'[k][i] # 0 =>
                            /\ sel'[byProcess'[k][i]].manager = k /\ sel'[byProcess'[k][i]].id = i
                            /\ byNetwork'[k][sel'[byProcess'[k][i]].network] = byProcess'[k][i]
                      /\ Cardinality(Used(k))' <= MaximumSessions
    BY DEF TablesAgree
  <2>1. Listed(s)'
    BY <1>2, <1>5 DEF Listed
  <2>2. ASSUME NEW j \in Networks, byNetwork'[k][j] # 0
        PROVE  /\ sel'[byNetwork'[k][j]].manager = k /\ sel'[byNetwork'[k][j]].network = j
               /\ Listed(byNetwork[k][j])'
    <3>1. CASE k = m /\ j = n
      BY <1>5, <2>1, <3>1
    <3>2. CASE ~(k = m /\ j = n)
      <4>1. byNetwork'[k][j] = byNetwork[k][j] /\ byNetwork[k][j] # 0
        BY <1>5, <2>2, <3>2
      <4>2. byNetwork[k][j] \in Selections /\ Made(byNetwork[k][j]) /\ Listed(byNetwork[k][j])
            /\ sel[byNetwork[k][j]].manager = k /\ sel[byNetwork[k][j]].network = j
        BY <4>1, EntriesMade DEF TablesAgree
      <4>3. byNetwork[k][j] # old
        <5>1. old # 0 => sel[old].manager = m /\ sel[old].network = n
          BY DEF TablesAgree
        <5> QED
          BY <3>2, <4>1, <4>2, <5>1
      <4>4. sel'[byNetwork[k][j]] = sel[byNetwork[k][j]]
            /\ (\A t \in Selections : t = byNetwork[k][j] => Listed(t)')
        BY <1>8, <4>2, <4>3
      <4>5. Listed(byNetwork[k][j])'
        BY <4>1, <4>2, <4>4 DEF Listed
      <4> QED
        BY <4>1, <4>2, <4>4, <4>5
    <3> QED
      BY <3>1, <3>2
  <2>3. ASSUME NEW i \in Ids, byProcess'[k][i] # 0
        PROVE  /\ sel'[byProcess'[k][i]].manager = k /\ sel'[byProcess'[k][i]].id = i
               /\ byNetwork'[k][sel'[byProcess'[k][i]].network] = byProcess'[k][i]
    <3>1. CASE k = m /\ i = id
      BY <1>5, <3>1
    <3>2. CASE ~(k = m /\ i = id)
      <4>1. byProcess'[k][i] = byProcess[k][i] /\ byProcess[k][i] # 0 /\ byProcess[k][i] # old
        BY <1>3, <1>5, <2>3, <3>2
      <4>2. /\ byProcess[k][i] \in Selections /\ Made(byProcess[k][i])
            /\ sel[byProcess[k][i]].manager = k /\ sel[byProcess[k][i]].id = i
            /\ byNetwork[k][sel[byProcess[k][i]].network] = byProcess[k][i]
            /\ sel[byProcess[k][i]].network \in Networks
        BY <4>1, EntriesMade, MadeTyped DEF TablesAgree
      <4>3. ~(k = m /\ sel[byProcess[k][i]].network = n)
        BY <4>1, <4>2
      <4>4. sel'[byProcess[k][i]] = sel[byProcess[k][i]]
        BY <1>8, <4>2
      <4> QED
        BY <1>5, <4>1, <4>2, <4>3, <4>4
    <3> QED
      BY <3>1, <3>2
  <2>4. Cardinality(Used(k))' <= MaximumSessions
    <3>1. /\ Cardinality(Used(k)) <= MaximumSessions /\ MaximumSessions \in Nat
          /\ Used(k) \subseteq Networks /\ IsFiniteSet(Used(k)) /\ Cardinality(Used(k)) \in Nat
      <4>1. Used(k) \subseteq Networks
        BY DEF Used
      <4> QED
        BY <4>1, ManagedFinite, FS_Subset DEF TablesAgree, LiveAssumption
    <3>2. CASE k = m
      <4>1. Used(k)' = Used(k) \cup {n}
        BY <1>4, <1>5, <3>2 DEF Used
      <4>2. n \in Used(k) \/ Cardinality(Used(k)) < MaximumSessions
        BY <3>2 DEF Select, Used
      <4>3. Cardinality(Used(k) \cup {n}) =
               IF n \in Used(k) THEN Cardinality(Used(k)) ELSE Cardinality(Used(k)) + 1
        BY <3>1, FS_AddElement
      <4> QED
        BY <3>1, <4>1, <4>2, <4>3
    <3>3. CASE k # m
      <4>1. Used(k)' = Used(k)
        BY <1>5, <3>3 DEF Used
      <4> QED
        BY <3>1, <4>1
    <3> QED
      BY <3>2, <3>3
  <2> QED
    BY <2>2, <2>3, <2>4
<1> QED
  BY <1>6, <1>7, <1>8, <1>9, <1>10

-----------------------------------------------------------------------------
(* The calls.                                                              *)

CallTypes == [at : {"idle", "relay"} \cup Opening, sel : {0} \cup Selections,
              closed : BOOLEAN, reader : Readers, closer : Closers]
HoldsLease(k) ==
    \/ k.at \in {"connecting", "opened", "discard"}
    \/ k.at = "relay" /\ (~k.closed \/ "finishing" \in {k.reader, k.closer})

\* The streams are counted still, when one call begins or ends to hold one.
LEMMA HoldersCounted ==
    ASSUME LiveAssumption, TypeOK, StreamsCounted, NEW c \in Calls, NEW k \in CallTypes,
           call' = [call EXCEPT ![c] = k],
           \/ (HoldsLease(k) <=> Holds(c)) /\ active' = active
           \/ ~Holds(c) /\ HoldsLease(k) /\ active < MaximumStreams /\ active' = active + 1
           \/ Holds(c) /\ ~HoldsLease(k) /\ Release
    PROVE  StreamsCounted' /\ active' \in 0 .. MaximumStreams
<1> DEFINE holders == {d \in Calls : Holds(d)}
           later == {d \in Calls : Holds(d)'}
<1>1. (Holds(c)' <=> HoldsLease(k)) /\ \A d \in Calls : d # c => (Holds(d)' <=> Holds(d))
  BY DEF TypeOK, Holds, HoldsLease
<1>2. /\ IsFiniteSet(holders) /\ Cardinality(holders) = active /\ active \in 0 .. MaximumStreams
      /\ MaximumStreams \in Nat
  BY FS_Subset DEF LiveAssumption, TypeOK, StreamsCounted
<1>3. /\ Cardinality(holders \cup {c}) = IF c \in holders THEN active ELSE active + 1
      /\ Cardinality(holders \ {c}) = IF c \in holders THEN active - 1 ELSE active
  BY <1>2, FS_AddElement, FS_RemoveElement
<1>4. Cardinality(holders \ {c}) \in Nat
  BY <1>2, FS_RemoveElement, FS_CardinalityType
<1>5. StreamsCounted' <=> active' = Cardinality(later)
  BY DEF StreamsCounted
<1>6. CASE (HoldsLease(k) <=> Holds(c)) /\ active' = active
  <2>1. later = holders
    BY <1>1, <1>6
  <2> QED
    BY <1>2, <1>5, <1>6, <2>1
<1>7. CASE ~Holds(c) /\ HoldsLease(k) /\ active < MaximumStreams /\ active' = active + 1
  <2>1. later = holders \cup {c} /\ c \notin holders
    BY <1>1, <1>7
  <2> QED
    BY <1>2, <1>3, <1>5, <1>7, <2>1
<1>8. CASE Holds(c) /\ ~HoldsLease(k) /\ Release
  <2>1. later = holders \ {c} /\ c \in holders
    BY <1>1, <1>8
  <2>2. active > 0
    BY <1>2, <1>3, <1>4, <2>1
  <2> QED
    BY <1>2, <1>3, <1>5, <1>8, <2>1, <2>2 DEF Release
<1> QED
  BY <1>6, <1>7, <1>8

\* A step of the clients, a timer or the process, which leaves the calls alone:
\* what it removes from the tables is cancelled, or nobody uses it.
LEMMA TablesChange ==
    ASSUME LiveAssumption, IInv, TableTypes', TablesAgree', SelectionsMade',
           UNCHANGED <<call, active>>,
           toCancel' \subseteq Selections, cancelled' \subseteq Selections,
           cancelled \subseteq cancelled', stopping' \in BOOLEAN,
           \A t \in Selections : Made(t) => sel'[t] = sel[t] /\ (Listed(t)' => Listed(t)),
           \A t \in Selections : sel'[t].streaming => Made(t),
           \A t \in Selections : sel[t].streaming /\ ~Listed(t)' =>
              \/ stopping' \/ t \in cancelled' \cup toCancel'
              \/ ~Listed(t) /\ ~stopping /\ t \notin cancelled \cup toCancel
    PROVE  IInv'
<1>1. \A c \in Calls : (Serving(c)' <=> Serving(c)) /\ (Holds(c)' <=> Holds(c))
  BY DEF Serving, Holds
<1>2. \A c \in Calls : Serving(c) =>
         /\ call[c].sel \in Selections /\ Made(call[c].sel) /\ sel[call[c].sel].streaming
         /\ sel'[call[c].sel] = sel[call[c].sel]
         /\ (Listed(call[c].sel)' => Listed(call[c].sel))
  BY DEF IInv, CallsFollow, Made, NoSelection
<1>3. TypeOK'
  BY DEF IInv, TypeOK, TableTypes
<1>4. LeasesShaped' /\ StreamsCounted' /\ OpenedOnce'
  BY <1>1 DEF IInv, LeasesShaped, LiveSound, StreamsCounted, OpenedOnce
<1>5. CallsFollow'
  <2> SUFFICES ASSUME NEW c \in Calls, Serving(c)
               PROVE  /\ call[c].sel \in Selections /\ sel'[call[c].sel].streaming
                      /\ call[c].at = "discard" \/ call[c].closer = "done" => ~Listed(call[c].sel)'
                      /\ call[c].closer # "none" => call[c].sel \in cancelled'
    BY <1>1 DEF CallsFollow, Listed
  <2> QED
    BY <1>2 DEF IInv, CallsFollow
<1>6. SessionOwned'
  <2> SUFFICES ASSUME NEW s \in Selections, sel'[s].streaming, Listed(s)'
               PROVE  \E c \in Calls : Serving(c)' /\ call'[c].sel = s
    BY DEF SessionOwned
  <2>1. sel[s].streaming /\ Listed(s)
    OBVIOUS
  <2> QED
    BY <1>1, <2>1 DEF IInv, LiveSound, SessionOwned
<1>7. UnlistedIsCancelled'
  <2> SUFFICES ASSUME NEW c \in Calls, Serving(c), ~Listed(call[c].sel)'
               PROVE  stopping' \/ call[c].sel \in cancelled' \cup toCancel'
    BY <1>1 DEF UnlistedIsCancelled, Listed
  <2> QED
    BY SMTT(30), <1>2 DEF IInv, LiveSound, UnlistedIsCancelled
<1> QED
  BY <1>3, <1>4, <1>5, <1>6, <1>7 DEF IInv, LiveSound

\* A step of a call in use, up to the one that ends it: it gives its selection
\* back before it ends, and cancels its context before that.
LEMMA CallChange ==
    ASSUME LiveAssumption, IInv, NEW c \in Calls, Serving(c), NEW k \in CallTypes,
           NEW s \in Selections, s = call[c].sel,
           call' = [call EXCEPT ![c] = k], LeaseShape(k),
           k = NoCall \/ (k # NoCall /\ k.sel = s),
           UNCHANGED tableVars \/ (RemoveListed(s) /\ s \in cancelled'), UNCHANGED <<sel, toCancel, stopping>>,
           cancelled' = cancelled \/ cancelled' = cancelled \cup {s},
           k = NoCall \/ k.at = "discard" \/ k.closer = "done" =>
              RemoveListed(s) \/ ~Listed(s),
           k.closer # "none" => s \in cancelled',
           \/ (HoldsLease(k) <=> Holds(c)) /\ active' = active
           \/ ~Holds(c) /\ HoldsLease(k) /\ active < MaximumStreams /\ active' = active + 1
           \/ Holds(c) /\ ~HoldsLease(k) /\ Release
    PROVE  IInv'
<1>1. s \in Selections /\ Made(s) /\ sel[s].streaming
  BY DEF IInv, CallsFollow, Made, NoSelection
<1>2. /\ TableTypes' /\ TablesAgree'
      /\ \A t \in Selections : Made(t) =>
            (Listed(t)' <=> Listed(t) /\ (UNCHANGED tableVars \/ t # s))
  <2>1. CASE UNCHANGED tableVars
    BY <2>1, SameTablesKeep DEF IInv, LiveSound, TypeOK, TableTypes, tableVars
  <2>2. CASE RemoveListed(s)
    <3>1. TableTypes' /\ TablesAgree' /\ \A t \in Selections : Made(t) => (Listed(t)' <=> Listed(t) /\ t # s)
      BY <1>1, <2>2, RemovalKeeps DEF IInv, LiveSound
    <3>2. CASE UNCHANGED tableVars
      BY <2>1, <3>2
    <3> QED
      BY <3>1, <3>2
  <2> QED
    BY <2>1, <2>2
<1>3. StreamsCounted' /\ active' \in 0 .. MaximumStreams
  BY HoldersCounted DEF IInv, LiveSound
<1>4. TypeOK'
  <2>1. call' \in [Calls -> CallTypes]
    BY DEF IInv, TypeOK, CallTypes
  <2> QED
    BY <1>1, <1>2, <1>3, <2>1 DEF IInv, TypeOK, TableTypes, CallTypes
<1>5. call'[c] = k /\ \A d \in Calls : d # c => call'[d] = call[d]
  BY DEF IInv, TypeOK
<1>6. SelectionsMade' /\ LeasesShaped'
  BY <1>5 DEF IInv, SelectionsMade, LeasesShaped
<1>7. \A d \in Calls : Serving(d) /\ d # c =>
         /\ call[d].sel \in Selections /\ Made(call[d].sel) /\ sel[call[d].sel].streaming
         /\ call[d].sel # s
         /\ (Listed(call[d].sel)' <=> Listed(call[d].sel))
  <2> TAKE d \in Calls
  <2> HAVE Serving(d) /\ d # c
  <2>1. call[d].sel \in Selections /\ Made(call[d].sel) /\ sel[call[d].sel].streaming
    BY DEF IInv, CallsFollow, Made, NoSelection
  <2>2. call[d].sel # s
    BY DEF IInv, OpenedOnce
  <2> QED
    BY <1>2, <2>1, <2>2
<1>8. (RemoveListed(s) \/ ~Listed(s) => ~Listed(s)') /\ (~Listed(s)' => s \in cancelled' \/ ~Listed(s))
  <2>1. Listed(s)' <=> Listed(s) /\ UNCHANGED tableVars
    BY <1>1, <1>2
  <2>2. RemoveListed(s) => ~Listed(s)'
    BY <1>1, RemovalKeeps DEF IInv, LiveSound
  <2> QED
    BY <2>1, <2>2
<1>9. CallsFollow'
  <2> SUFFICES ASSUME NEW d \in Calls, call'[d] # NoCall
               PROVE  /\ call'[d].sel \in Selections /\ sel[call'[d].sel].streaming
                      /\ call'[d].at = "discard" \/ call'[d].closer = "done" => ~Listed(call[d].sel)'
                      /\ call'[d].closer # "none" => call'[d].sel \in cancelled'
    BY DEF CallsFollow, Serving, Listed
  <2>1. CASE d = c
    <3>1. call'[d].sel = s /\ (Listed(call[d].sel)' <=> Listed(s)')
      BY SMTT(30), <1>5, <2>1 DEF Listed
    <3> QED
      BY <1>1, <1>5, <1>8, <2>1, <3>1
  <2>2. CASE d # c
    <3>1. Serving(d) /\ call'[d] = call[d]
      BY <1>5, <2>2 DEF Serving
    <3> QED
      BY <1>7, <2>2, <3>1 DEF IInv, CallsFollow, Listed
  <2> QED
    BY <2>1, <2>2
<1>10. OpenedOnce'
  <2> SUFFICES ASSUME NEW d \in Calls, NEW e \in Calls, call'[d] # NoCall, call'[d].sel = call'[e].sel
               PROVE  d = e
    BY DEF OpenedOnce, Serving
  <2>1. call'[d].sel \in Selections
    BY <1>1, <1>5, <1>7 DEF Serving
  <2>2. call'[e] # NoCall
    BY <2>1 DEF NoCall, Selections
  <2>3. CASE d = c
    BY <1>5, <1>7, <2>2, <2>3 DEF Serving
  <2>4. CASE e = c
    BY <1>5, <1>7, <2>2, <2>4 DEF Serving
  <2>5. CASE d # c /\ e # c
    BY <1>5, <2>5 DEF Serving, IInv, OpenedOnce
  <2> QED
    BY <2>3, <2>4, <2>5
<1>11. SessionOwned'
  <2> SUFFICES ASSUME NEW t \in Selections, sel[t].streaming, Listed(t)'
               PROVE  \E d \in Calls : call'[d] # NoCall /\ call'[d].sel = t
    BY DEF SessionOwned, Serving
  <2>1. Made(t) /\ Listed(t)
    BY <1>2 DEF Made, NoSelection
  <2>2. PICK d \in Calls : Serving(d) /\ call[d].sel = t
    BY <2>1 DEF IInv, LiveSound, SessionOwned
  <2>3. CASE d # c
    BY <1>5, <2>2, <2>3 DEF Serving
  <2>4. CASE d = c
    <3>1. Listed(s)'
      BY <2>2, <2>4 DEF Listed
    <3>2. k # NoCall
      BY <1>8, <3>1
    <3> QED
      BY <1>5, <2>2, <2>4, <3>2
  <2> QED
    BY <2>3, <2>4
<1>12. UnlistedIsCancelled'
  <2> SUFFICES ASSUME NEW d \in Calls, call'[d] # NoCall, ~Listed(call[d].sel)'
               PROVE  stopping \/ call'[d].sel \in cancelled' \cup toCancel
    BY DEF UnlistedIsCancelled, Serving, Listed
  <2>1. CASE d = c
    <3>1. call'[d].sel = s /\ ~Listed(s)'
      BY <1>5, <2>1 DEF Listed
    <3> QED
      BY <1>8, <2>1, <3>1 DEF IInv, LiveSound, UnlistedIsCancelled
  <2>2. CASE d # c
    <3>1. Serving(d) /\ call'[d] = call[d]
      BY <1>5, <2>2 DEF Serving
    <3>2. ~Listed(call[d].sel)
      BY <1>7, <2>2, <3>1
    <3> QED
      BY <3>1, <3>2 DEF IInv, LiveSound, UnlistedIsCancelled
  <2> QED
    BY SMTT(30), <2>1, <2>2
<1> QED
  BY <1>2, <1>3, <1>4, <1>6, <1>9, <1>10, <1>11, <1>12 DEF IInv, LiveSound

\* What the invariant says of a call in use.
LEMMA InUse ==
    ASSUME IInv, NEW c \in Calls, Serving(c)
    PROVE  /\ call[c] \in CallTypes /\ LeaseShape(call[c]) /\ call[c].sel \in Selections
           /\ call[c].closer = "done" => ~Listed(call[c].sel)
           /\ call[c].closer # "none" => call[c].sel \in cancelled
           /\ call[c].at = "discard" => ~Listed(call[c].sel)
BY DEF IInv, TypeOK, CallTypes, LeasesShaped, CallsFollow

\* Every step of an opening call, of its relay's reader and of its closer.
LEMMA OpeningStep ==
    ASSUME LiveAssumption, IInv, NEW c \in Calls,
           Count(c) \/ Connect(c) \/ OpenFailed(c) \/ Recheck(c) \/ Discard(c)
    PROVE  IInv'
<1>1. Serving(c)
  BY DEF Count, Connect, OpenFailed, Recheck, Discard, Serving, NoCall
<1>2. PICK s \in Selections : s = call[c].sel
  BY <1>1, InUse
<1>3. call[c] \in CallTypes /\ LeaseShape(call[c])
  BY <1>1, InUse
<1>4. CASE Count(c)
  <2>2. CASE /\ ~Cancelled(c) /\ active < MaximumStreams
             /\ active' = active + 1 /\ At(c, "connecting")
    <3>1. PICK k \in CallTypes : k = [call[c] EXCEPT !.at = "connecting"]
      BY <1>3 DEF CallTypes, Opening
    <3>2. LeaseShape(k) /\ k # NoCall /\ k.sel = s /\ k.at = "connecting" /\ k.closer = "none"
      BY <1>2, <1>3, <1>4, <3>1 DEF Count, NoCall, CallTypes, LeaseShape, Opening
    <3>3. (HoldsLease(k) <=> TRUE) /\ ~Holds(c)
      BY <1>4, <3>2 DEF Count, Holds, HoldsLease
    <3>4. call' = [call EXCEPT ![c] = k]
      BY <2>2, <3>1 DEF At
    <3> QED
      BY <1>1, <1>2, <1>4, <2>2, <3>1, <3>2, <3>3, <3>4, CallChange DEF Count, AroundCall, SameTables, tableVars
  <2>3. CASE At(c, "failed") /\ UNCHANGED active
    <3>1. PICK k \in CallTypes : k = [call[c] EXCEPT !.at = "failed"]
      BY <1>3 DEF CallTypes, Opening
    <3>2. LeaseShape(k) /\ k # NoCall /\ k.sel = s /\ k.at = "failed" /\ k.closer = "none"
      BY <1>2, <1>3, <1>4, <3>1 DEF Count, NoCall, CallTypes, LeaseShape, Opening
    <3>3. (HoldsLease(k) <=> FALSE) /\ ~Holds(c)
      BY <1>4, <3>2 DEF Count, Holds, HoldsLease
    <3>4. call' = [call EXCEPT ![c] = k]
      BY <2>3, <3>1 DEF At
    <3> QED
      BY <1>1, <1>2, <1>4, <2>3, <3>1, <3>2, <3>3, <3>4, CallChange DEF Count, AroundCall, SameTables, tableVars
  <2> QED
    BY <1>4, <2>2, <2>3 DEF Count
<1>5. CASE Connect(c)
  <2>2. CASE At(c, "opened") /\ UNCHANGED active
    <3>1. PICK k \in CallTypes : k = [call[c] EXCEPT !.at = "opened"]
      BY <1>3 DEF CallTypes, Opening
    <3>2. LeaseShape(k) /\ k # NoCall /\ k.sel = s /\ k.at = "opened" /\ k.closer = "none"
      BY <1>2, <1>3, <1>5, <3>1 DEF Connect, NoCall, CallTypes, LeaseShape, Opening
    <3>3. (HoldsLease(k) <=> TRUE) /\ Holds(c)
      BY <1>5, <3>2 DEF Connect, Holds, HoldsLease
    <3>4. call' = [call EXCEPT ![c] = k]
      BY <2>2, <3>1 DEF At
    <3> QED
      BY <1>1, <1>2, <1>5, <2>2, <3>1, <3>2, <3>3, <3>4, CallChange DEF Connect, AroundCall, SameTables, tableVars
  <2>3. CASE At(c, "failed") /\ Release
    <3>1. PICK k \in CallTypes : k = [call[c] EXCEPT !.at = "failed"]
      BY <1>3 DEF CallTypes, Opening
    <3>2. LeaseShape(k) /\ k # NoCall /\ k.sel = s /\ k.at = "failed" /\ k.closer = "none"
      BY <1>2, <1>3, <1>5, <3>1 DEF Connect, NoCall, CallTypes, LeaseShape, Opening
    <3>3. (HoldsLease(k) <=> FALSE) /\ Holds(c)
      BY <1>5, <3>2 DEF Connect, Holds, HoldsLease
    <3>4. call' = [call EXCEPT ![c] = k]
      BY <2>3, <3>1 DEF At
    <3> QED
      BY <1>1, <1>2, <1>5, <2>3, <3>1, <3>2, <3>3, <3>4, CallChange DEF Connect, AroundCall, SameTables, tableVars
  <2> QED
    BY <1>5, <2>2, <2>3 DEF Connect
<1>6. CASE OpenFailed(c)
  <2>1. NoCall \in CallTypes
    BY DEF NoCall, CallTypes, Readers, Closers
  <2> QED
    BY <1>1, <1>2, <1>3, <1>6, <2>1, CallChange DEF OpenFailed, NoCall, AroundCall, SameTables, tableVars, Holds, HoldsLease, LeaseShape, Opening
<1>7. CASE Recheck(c)
  <2>2. CASE Listed(s)
    <3>1. PICK k \in CallTypes : k = [call[c] EXCEPT !.at = "relay", !.reader = "reading"]
      BY <1>3 DEF CallTypes, Readers, Opening
    <3>2. /\ LeaseShape(k) /\ k # NoCall /\ k.sel = s /\ k.at = "relay" /\ k.closer = "none"
          /\ HoldsLease(k) /\ Holds(c)
      BY <1>2, <1>3, <1>7, <3>1 DEF Recheck, NoCall, CallTypes, LeaseShape, Opening, Holds, HoldsLease
    <3>3. call' = [call EXCEPT ![c] = k]
      BY <1>2, <1>7, <2>2, <3>1 DEF Recheck
    <3> QED
      BY <1>1, <1>2, <1>7, <2>2, <3>1, <3>2, <3>3, CallChange DEF Recheck, AroundCall, SameTables, tableVars
  <2>3. CASE ~Listed(s)
    <3>1. PICK k \in CallTypes : k = [call[c] EXCEPT !.at = "discard", !.reader = "none"]
      BY <1>3 DEF CallTypes, Readers, Opening
    <3>2. /\ LeaseShape(k) /\ k # NoCall /\ k.sel = s /\ k.at = "discard" /\ k.closer = "none"
          /\ HoldsLease(k) /\ Holds(c)
      BY <1>2, <1>3, <1>7, <3>1 DEF Recheck, NoCall, CallTypes, LeaseShape, Opening, Holds, HoldsLease
    <3>3. call' = [call EXCEPT ![c] = k]
      BY <1>2, <1>7, <2>3, <3>1 DEF Recheck
    <3> QED
      BY <1>1, <1>2, <1>7, <2>3, <3>1, <3>2, <3>3, CallChange DEF Recheck, AroundCall, SameTables, tableVars
  <2> QED
    BY <2>2, <2>3
<1>8. CASE Discard(c)
  <2>1. NoCall \in CallTypes
    BY DEF NoCall, CallTypes, Readers, Closers
  <2>2. ~Listed(s)
    BY <1>1, <1>2, <1>8, InUse DEF Discard
  <2> QED
    BY <1>1, <1>2, <1>3, <1>8, <2>1, <2>2, CallChange DEF Discard, NoCall, AroundCall, SameTables, tableVars, Holds, HoldsLease, LeaseShape, Opening
<1> QED
  BY <1>4, <1>5, <1>6, <1>7, <1>8

\* The relay's reader and closer: whoever finishes the lease first releases it.
LEMMA RelayStep ==
    ASSUME LiveAssumption, IInv, NEW c \in Calls,
           \/ CopyEnds(c) \/ ReaderReleases(c) \/ CloseRelay(c)
           \/ CloserReleases(c) \/ ReleaseSelection(c) \/ Ended(c)
    PROVE  IInv'
<1>1. call[c] \in CallTypes /\ LeaseShape(call[c])
  BY DEF IInv, TypeOK, CallTypes, LeasesShaped
<1>2. call[c].at = "relay"
  BY <1>1 DEF CopyEnds, ReaderReleases, CloseRelay, CloserReleases, ReleaseSelection, Ended,
              LeaseShape, CallTypes, NoCall, Opening
<1>3. Serving(c)
  BY <1>2 DEF Serving, NoCall
<1>4. PICK s \in Selections : s = call[c].sel
  BY <1>3, InUse
<1>5. /\ call[c].closer = "done" => ~Listed(s)
      /\ call[c].closer # "none" => s \in cancelled
  BY <1>3, <1>4, InUse
<1>6. CASE CopyEnds(c)
  <2>1. CASE EndCopy(c)
    <3>1. PICK k \in CallTypes :
             k = [call[c] EXCEPT !.closed = TRUE,
                                 !.reader = IF call[c].closed THEN "stopped" ELSE "finishing"]
      BY <1>1 DEF CallTypes, Readers
    <3>2. call' = [call EXCEPT ![c] = k]
      BY <2>1, <3>1 DEF EndCopy, Finish
    <3>3. /\ LeaseShape(k) /\ k # NoCall /\ k.sel = s /\ k.at = "relay" /\ k.closer = call[c].closer
          /\ HoldsLease(k) <=> Holds(c)
      BY <1>1, <1>2, <1>4, <1>6, <3>1
      DEF CopyEnds, NoCall, CallTypes, LeaseShape, Opening, Holds, HoldsLease
    <3> QED
      BY <1>3, <1>4, <1>5, <1>6, <3>1, <3>2, <3>3, CallChange
      DEF CopyEnds, AroundCall, SameTables, tableVars
  <2>2. CASE call' = [call EXCEPT ![c].reader = "stopped"]
    <3>1. PICK k \in CallTypes : k = [call[c] EXCEPT !.reader = "stopped"]
      BY <1>1 DEF CallTypes, Readers
    <3>2. call' = [call EXCEPT ![c] = k]
      BY <2>2, <3>1
    <3>3. /\ LeaseShape(k) /\ k # NoCall /\ k.sel = s /\ k.at = "relay" /\ k.closer = call[c].closer
          /\ HoldsLease(k) <=> Holds(c)
      BY <1>1, <1>2, <1>4, <1>6, <3>1
      DEF CopyEnds, NoCall, CallTypes, LeaseShape, Opening, Holds, HoldsLease
    <3> QED
      BY <1>3, <1>4, <1>5, <1>6, <3>1, <3>2, <3>3, CallChange
      DEF CopyEnds, AroundCall, SameTables, tableVars
  <2> QED
    BY <1>6, <2>1, <2>2 DEF CopyEnds
<1>7. CASE ReaderReleases(c)
  <2>1. PICK k \in CallTypes : k = [call[c] EXCEPT !.reader = "stopped"]
    BY <1>1 DEF CallTypes, Readers
  <2>2. call' = [call EXCEPT ![c] = k]
    BY <1>7, <2>1 DEF ReaderReleases
  <2>3. /\ LeaseShape(k) /\ k # NoCall /\ k.sel = s /\ k.at = "relay" /\ k.closer = call[c].closer
        /\ Holds(c) /\ ~HoldsLease(k)
    BY <1>1, <1>2, <1>4, <1>7, <2>1
    DEF ReaderReleases, NoCall, CallTypes, LeaseShape, Opening, Holds, HoldsLease
  <2> QED
    BY <1>3, <1>4, <1>5, <1>7, <2>1, <2>2, <2>3, CallChange
    DEF ReaderReleases, AroundCall, SameTables, tableVars
<1>8. CASE CloseRelay(c)
  <2>1. PICK k \in CallTypes :
           k = [call[c] EXCEPT !.closed = TRUE,
                               !.closer = IF call[c].closed THEN "releasing" ELSE "finishing"]
    BY <1>1 DEF CallTypes, Closers
  <2>2. call' = [call EXCEPT ![c] = k]
    BY <1>8, <2>1 DEF CloseRelay, Finish
  <2>3. /\ LeaseShape(k) /\ k # NoCall /\ k.sel = s /\ k.at = "relay" /\ k.closer # "done"
        /\ HoldsLease(k) <=> Holds(c)
    BY <1>1, <1>2, <1>4, <1>8, <2>1
    DEF CloseRelay, NoCall, CallTypes, LeaseShape, Opening, Holds, HoldsLease
  <2> QED
    BY <1>3, <1>4, <1>8, <2>1, <2>2, <2>3, CallChange
    DEF CloseRelay, AroundCall, SameTables, tableVars
<1>9. CASE CloserReleases(c)
  <2>1. PICK k \in CallTypes : k = [call[c] EXCEPT !.closer = "releasing"]
    BY <1>1 DEF CallTypes, Closers
  <2>2. call' = [call EXCEPT ![c] = k]
    BY <1>9, <2>1 DEF CloserReleases
  <2>3. /\ LeaseShape(k) /\ k # NoCall /\ k.sel = s /\ k.at = "relay" /\ k.closer # "done"
        /\ s \in cancelled /\ Holds(c) /\ ~HoldsLease(k)
    BY <1>1, <1>2, <1>4, <1>5, <1>9, <2>1
    DEF CloserReleases, NoCall, CallTypes, LeaseShape, Opening, Holds, HoldsLease
  <2> QED
    BY <1>3, <1>4, <1>9, <2>1, <2>2, <2>3, CallChange
    DEF CloserReleases, AroundCall, SameTables, tableVars
<1>10. CASE ReleaseSelection(c)
  <2>1. PICK k \in CallTypes : k = [call[c] EXCEPT !.closer = "done"]
    BY <1>1 DEF CallTypes, Closers
  <2>2. call' = [call EXCEPT ![c] = k]
    BY <1>10, <2>1 DEF ReleaseSelection
  <2>3. /\ LeaseShape(k) /\ k # NoCall /\ k.sel = s /\ k.at = "relay"
        /\ s \in cancelled /\ (HoldsLease(k) <=> Holds(c))
    BY <1>1, <1>2, <1>4, <1>5, <1>10, <2>1
    DEF ReleaseSelection, NoCall, CallTypes, LeaseShape, Opening, Holds, HoldsLease
  <2> QED
    BY <1>3, <1>4, <1>10, <2>1, <2>2, <2>3, CallChange DEF ReleaseSelection, AroundCall
<1>11. CASE Ended(c)
  <2>1. NoCall \in CallTypes /\ LeaseShape(NoCall) /\ NoCall.closer = "none"
    BY DEF NoCall, CallTypes, Readers, Closers, LeaseShape, Opening
  <2>2. ~Holds(c) /\ ~HoldsLease(NoCall) /\ ~Listed(s)
    BY <1>1, <1>2, <1>5, <1>11 DEF Ended, LeaseShape, CallTypes, Holds, HoldsLease, NoCall, Opening
  <2> QED
    BY <1>3, <1>4, <1>11, <2>1, <2>2, CallChange DEF Ended, AroundCall, SameTables, tableVars
<1> QED
  BY <1>6, <1>7, <1>8, <1>9, <1>10, <1>11

\* The steps of the tables: what leaves them waits to be cancelled, unless no
\* Open came for it.
LEMMA TableStep ==
    ASSUME LiveAssumption, IInv,
           \/ \E m \in Managers, n \in Networks : Select(m, n) \/ CloseNetwork(m, n)
           \/ \E s \in Selections : CancelRemoved(s) \/ Expire(s)
           \/ Shutdown \/ \E m \in Managers : CloseAll(m)
    PROVE  IInv'
<1>1. TypeOK /\ SelectionsMade /\ TablesAgree /\ TableTypes
  BY DEF IInv, LiveSound, TypeOK, TableTypes
<1>2. toCancel \subseteq Selections /\ cancelled \subseteq Selections /\ stopping \in BOOLEAN
  BY <1>1 DEF TypeOK
<1>3. \A t \in Selections : sel[t].streaming => Made(t)
  BY DEF Made, NoSelection
<1>4. \A m \in Managers : \A n \in Networks : byNetwork[m][n] \in {0} \cup Selections
  BY <1>1 DEF TypeOK
<1>5. ASSUME NEW m \in Managers, NEW n \in Networks, Select(m, n)
      PROVE  IInv'
  <2>1. /\ TableTypes' /\ TablesAgree' /\ SelectionsMade'
        /\ \A t \in Selections : Made(t) =>
              sel'[t] = sel[t] /\ (Listed(t)' <=> Listed(t) /\ t # byNetwork[m][n])
        /\ \A t \in Selections : sel'[t].streaming => Made(t)
    BY <1>1, <1>5, SelectKeeps
  <2>2. /\ UNCHANGED <<call, active, cancelled, stopping>>
        /\ toCancel' = toCancel \cup ({byNetwork[m][n]} \ {0})
    BY <1>5, Zenon DEF Select
  <2>3. toCancel' \subseteq Selections
    BY <1>2, <1>4, <2>2
  <2>4. ASSUME NEW t \in Selections, sel[t].streaming, ~Listed(t)'
        PROVE  \/ stopping' \/ t \in cancelled' \cup toCancel'
               \/ ~Listed(t) /\ ~stopping /\ t \notin cancelled \cup toCancel
    BY <1>3, <2>1, <2>2, <2>4 DEF Selections
  <2> QED
    BY <1>2, <2>1, <2>2, <2>3, <2>4, TablesChange
<1>6. ASSUME NEW s \in Selections, RemoveListed(s), UNCHANGED <<sel, cancelled, call, active, stopping>>,
             toCancel' = toCancel \cup {s} \/ (toCancel' = toCancel /\ ~sel[s].streaming)
      PROVE  IInv'
  <2>1. TableTypes' /\ TablesAgree' /\ \A t \in Selections : Made(t) => (Listed(t)' <=> Listed(t) /\ t # s)
    BY <1>1, <1>6, RemovalKeeps
  <2>2. SelectionsMade'
    BY <1>1, <1>6 DEF SelectionsMade
  <2>3. \A t \in Selections : sel[t].streaming /\ ~Listed(t)' =>
           \/ stopping' \/ t \in cancelled' \cup toCancel'
           \/ ~Listed(t) /\ ~stopping /\ t \notin cancelled \cup toCancel
    BY <1>3, <1>6, <2>1
  <2> QED
    BY <1>2, <1>3, <1>6, <2>1, <2>2, <2>3, TablesChange
<1>7. ASSUME UNCHANGED <<tableVars, sel, call, active>>,
             toCancel' \subseteq Selections, cancelled' \subseteq Selections,
             cancelled \subseteq cancelled', stopping' \in BOOLEAN, stopping => stopping',
             \A t \in Selections : sel[t].streaming /\ t \in toCancel => t \in cancelled' \cup toCancel'
      PROVE  IInv'
  <2>1. TablesAgree' /\ \A t \in Selections : Listed(t)' <=> Listed(t)
    BY <1>1, <1>7, SameTablesKeep
  <2>2. SelectionsMade' /\ TableTypes'
    BY <1>1, <1>7 DEF SelectionsMade, TableTypes, tableVars
  <2>3. \A t \in Selections : sel[t].streaming /\ ~Listed(t)' =>
           \/ stopping' \/ t \in cancelled' \cup toCancel'
           \/ ~Listed(t) /\ ~stopping /\ t \notin cancelled \cup toCancel
    BY <1>7, <2>1
  <2> QED
    BY <1>2, <1>3, <1>7, <2>1, <2>2, <2>3, TablesChange
<1>8. ASSUME NEW m \in Managers, NEW n \in Networks, CloseNetwork(m, n)
      PROVE  IInv'
  <2>1. byNetwork[m][n] \in Selections
    BY <1>4, <1>8 DEF CloseNetwork
  <2> QED
    BY <1>6, <1>8, <2>1 DEF CloseNetwork
<1>9. ASSUME NEW s \in Selections, CancelRemoved(s)
      PROVE  IInv'
  <2>1. /\ UNCHANGED <<tableVars, sel, call, active, stopping>>
        /\ toCancel' = toCancel \ {s}
        /\ cancelled' = IF sel[s].streaming THEN cancelled \cup {s} ELSE cancelled
    BY <1>9 DEF CancelRemoved
  <2> QED
    BY <1>2, <1>7, <2>1
<1>10. ASSUME NEW s \in Selections, Expire(s)
       PROVE  IInv'
  BY <1>6, <1>10 DEF Expire
<1>11. CASE Shutdown
  BY <1>2, <1>7, <1>11 DEF Shutdown
<1>12. ASSUME NEW m \in Managers, CloseAll(m)
       PROVE  IInv'
  <2>1. TableTypes' /\ TablesAgree' /\ \A t \in Selections : Made(t) /\ Listed(t)' => Listed(t)
    BY <1>1, <1>12, CloseAllKeeps
  <2>2. /\ stopping /\ UNCHANGED <<sel, cancelled, call, active, stopping>>
        /\ toCancel' = toCancel \cup {byNetwork[m][n] : n \in Used(m)}
    BY <1>12 DEF CloseAll
  <2>3. toCancel' \subseteq Selections
    BY <1>2, <1>4, <2>2 DEF Used
  <2>4. SelectionsMade'
    BY <1>1, <2>2 DEF SelectionsMade
  <2> QED
    BY <1>2, <1>3, <2>1, <2>2, <2>3, <2>4, TablesChange
<1> QED
  BY <1>5, <1>8, <1>9, <1>10, <1>11, <1>12

\* Open consumes a listed selection that no call has.
LEMMA OpenStep ==
    ASSUME LiveAssumption, IInv, NEW c \in Calls, NEW m \in Managers, NEW i \in Ids, Open(c, m, i)
    PROVE  IInv'
<1>1. PICK s \in Selections : s = byProcess[m][i] /\ Made(s) /\ Listed(s) /\ ~sel[s].streaming
  BY EntriesMade DEF Open, IInv, LiveSound
<1>2. PICK k \in CallTypes : k = [NoCall EXCEPT !.at = "opening", !.sel = s]
  BY DEF NoCall, CallTypes, Readers, Closers, Opening
<1>3. /\ k # NoCall /\ k.at = "opening" /\ k.sel = s /\ k.closer = "none" /\ LeaseShape(k)
      /\ ~HoldsLease(k)
  BY <1>2 DEF NoCall, LeaseShape, Opening, HoldsLease
<1>4. /\ sel' = [sel EXCEPT ![s].streaming = TRUE]
      /\ call' = [call EXCEPT ![c] = k]
      /\ call[c] = NoCall
      /\ UNCHANGED <<tableVars, toCancel, cancelled, active, stopping>>
  BY <1>1, <1>2 DEF Open
<1>5. TypeOK /\ SelectionsMade /\ TablesAgree /\ StreamsCounted
  BY DEF IInv, LiveSound
<1>6. /\ \A t \in Selections : t # s => sel'[t] = sel[t]
      /\ sel'[s] = [sel[s] EXCEPT !.streaming = TRUE]
  BY <1>4, <1>5 DEF TypeOK
<1>7. \A t \in Selections :
         /\ sel'[t].manager = sel[t].manager /\ sel'[t].network = sel[t].network
         /\ sel'[t].id = sel[t].id
         /\ sel'[t].streaming <=> sel[t].streaming \/ t = s
  BY <1>5, <1>6 DEF TypeOK
<1>8. TablesAgree' /\ \A t \in Selections : Listed(t)' <=> Listed(t)
  BY <1>4, <1>5, <1>7, SameTablesKeep
<1>9. StreamsCounted' /\ active' \in 0 .. MaximumStreams
  <2>1. ~Holds(c)
    BY <1>4 DEF Holds, NoCall
  <2> QED
    BY <1>3, <1>4, <1>5, <2>1, HoldersCounted
<1>10. TypeOK'
  <2>1. call' \in [Calls -> CallTypes]
    BY <1>4, <1>5 DEF TypeOK, CallTypes
  <2>2. sel' \in [Selections -> [manager : Managers \cup {"none"}, network : Networks \cup {0},
                                 id : Ids \cup {0}, streaming : BOOLEAN]]
    <3> DEFINE Rec == [manager : Managers \cup {"none"}, network : Networks \cup {0},
                       id : Ids \cup {0}, streaming : BOOLEAN]
    <3>1. sel \in [Selections -> Rec]
      BY <1>5 DEF TypeOK
    <3>2. [sel[s] EXCEPT !.streaming = TRUE] \in Rec
      BY <3>1
    <3>3. sel' = [sel EXCEPT ![s] = [sel[s] EXCEPT !.streaming = TRUE]]
      BY <1>4
    <3> HIDE DEF Rec
    <3>4. sel' \in [Selections -> Rec]
      BY <3>1, <3>2, <3>3
    <3> QED
      BY <3>4 DEF Rec
  <2> QED
    BY <1>4, <1>5, <1>9, <2>1, <2>2 DEF TypeOK, CallTypes, tableVars
<1>11. SelectionsMade'
  BY <1>1, <1>5, <1>6, <1>7 DEF SelectionsMade, Made
<1>12. call'[c] = k /\ \A d \in Calls : d # c => call'[d] = call[d]
  BY <1>4, <1>5 DEF TypeOK
<1>13. LeasesShaped'
  BY <1>3, <1>12 DEF IInv, LeasesShaped
<1>14. \A d \in Calls : Serving(d) =>
          /\ d # c /\ call[d].sel \in Selections /\ call[d].sel # s
          /\ sel[call[d].sel].streaming
  BY <1>1, <1>4 DEF IInv, CallsFollow, Serving
<1>15. CallsFollow'
  <2> SUFFICES ASSUME NEW d \in Calls, call'[d] # NoCall
               PROVE  /\ call'[d].sel \in Selections /\ sel'[call'[d].sel].streaming
                      /\ call'[d].at = "discard" \/ call'[d].closer = "done" => ~Listed(call[d].sel)'
                      /\ call'[d].closer # "none" => call'[d].sel \in cancelled'
    BY DEF CallsFollow, Serving, Listed
  <2>1. CASE d = c
    BY <1>3, <1>7, <1>12, <2>1
  <2>2. CASE d # c
    <3>1. Serving(d) /\ call'[d] = call[d]
      BY <1>12, <2>2 DEF Serving
    <3>2. PICK t \in Selections : t = call[d].sel
      BY <1>14, <3>1
    <3>3. Listed(call[d].sel)' <=> Listed(t)
      BY <1>8, <3>1, <3>2 DEF Listed
    <3> QED
      BY <1>4, <1>7, <3>1, <3>2, <3>3 DEF IInv, CallsFollow
  <2> QED
    BY <2>1, <2>2
<1>16. OpenedOnce'
  <2> SUFFICES ASSUME NEW d \in Calls, NEW e \in Calls, call'[d] # NoCall, call'[d].sel = call'[e].sel
               PROVE  d = e
    BY DEF OpenedOnce, Serving
  <2>1. call'[d].sel \in Selections
    BY <1>3, <1>12, <1>14 DEF Serving
  <2>2. call'[e] # NoCall
    BY <2>1 DEF NoCall, Selections
  <2>3. CASE d = c
    BY <1>3, <1>12, <1>14, <2>2, <2>3 DEF Serving
  <2>4. CASE e = c
    BY <1>3, <1>12, <1>14, <2>2, <2>4 DEF Serving
  <2>5. CASE d # c /\ e # c
    BY <1>12, <2>5 DEF Serving, IInv, OpenedOnce
  <2> QED
    BY <2>3, <2>4, <2>5
<1>17. SessionOwned'
  <2> SUFFICES ASSUME NEW t \in Selections, sel'[t].streaming, Listed(t)'
               PROVE  \E d \in Calls : call'[d] # NoCall /\ call'[d].sel = t
    BY DEF SessionOwned, Serving
  <2>1. CASE t = s
    BY <1>3, <1>12, <2>1
  <2>2. CASE t # s
    <3>1. PICK d \in Calls : Serving(d) /\ call[d].sel = t
      BY <1>7, <1>8, <2>2 DEF IInv, LiveSound, SessionOwned
    <3> QED
      BY <1>12, <1>14, <3>1 DEF Serving
  <2> QED
    BY <2>1, <2>2
<1>18. UnlistedIsCancelled'
  <2> SUFFICES ASSUME NEW d \in Calls, call'[d] # NoCall, ~Listed(call[d].sel)'
               PROVE  stopping' \/ call'[d].sel \in cancelled' \cup toCancel'
    BY DEF UnlistedIsCancelled, Serving, Listed
  <2>1. PICK t \in Selections : t = call'[d].sel
    BY <1>3, <1>12, <1>14 DEF Serving
  <2>2. ~Listed(t)
    BY <1>8, <2>1 DEF Listed
  <2>3. d # c
    BY <1>1, <1>3, <1>12, <2>1, <2>2
  <2> QED
    BY <1>4, <1>12, <2>1, <2>2, <2>3 DEF IInv, LiveSound, UnlistedIsCancelled, Serving
<1> QED
  BY <1>8, <1>9, <1>10, <1>11, <1>13, <1>15, <1>16, <1>17, <1>18 DEF IInv, LiveSound

-----------------------------------------------------------------------------
(* The theorems.                                                           *)

LEMMA InitHolds ==
    ASSUME LiveAssumption, Init
    PROVE  IInv
<1>1. TypeOK
  <2>1. next \in [Managers -> Ids] /\ active \in 0 .. MaximumStreams
    BY DEF LiveAssumption, Init, Ids
  <2>2. /\ byNetwork \in [Managers -> [Networks -> {0} \cup Selections]]
        /\ byProcess \in [Managers -> [Ids -> {0} \cup Selections]]
    BY DEF Init
  <2>3. NoCall \in CallTypes
    BY DEF NoCall, CallTypes, Readers, Closers
  <2>4. call \in [Calls -> CallTypes]
    BY <2>3 DEF Init
  <2>5. NoSelection \in [manager : Managers \cup {"none"}, network : Networks \cup {0},
                         id : Ids \cup {0}, streaming : BOOLEAN]
    BY DEF NoSelection
  <2>6. sel \in [Selections -> [manager : Managers \cup {"none"}, network : Networks \cup {0},
                               id : Ids \cup {0}, streaming : BOOLEAN]]
    BY <2>5 DEF Init
  <2> QED
    BY <2>1, <2>2, <2>4, <2>6 DEF Init, TypeOK, CallTypes
<1>2. StreamsCounted
  <2>1. {c \in Calls : Holds(c)} = {}
    BY DEF Init, Holds, NoCall
  <2> QED
    BY <2>1, FS_EmptySet DEF Init, StreamsCounted
<1>3. TablesAgree
  <2> SUFFICES ASSUME NEW m \in Managers
               PROVE  Cardinality(Used(m)) <= MaximumSessions
    BY DEF Init, TablesAgree
  <2>1. Used(m) = {}
    BY DEF Init, Used
  <2> QED
    BY <2>1, FS_EmptySet DEF LiveAssumption
<1>4. SelectionsMade /\ LeasesShaped /\ CallsFollow /\ OpenedOnce
  BY DEF Init, SelectionsMade, LeasesShaped, LeaseShape, Opening, CallsFollow, OpenedOnce, Serving,
         NoCall
<1>5. SessionOwned /\ UnlistedIsCancelled
  BY DEF Init, SessionOwned, UnlistedIsCancelled, Serving, NoSelection
<1> QED
  BY <1>1, <1>2, <1>3, <1>4, <1>5 DEF IInv, LiveSound

LEMMA StepHolds ==
    ASSUME LiveAssumption, IInv, [Next]_vars
    PROVE  IInv'
<1>1. CASE Next
  <2>1. \/ \E m \in Managers, n \in Networks : Select(m, n) \/ CloseNetwork(m, n)
        \/ \E c \in Calls, m \in Managers, i \in Ids : Open(c, m, i)
        \/ \E s \in Selections : CancelRemoved(s) \/ Expire(s)
        \/ \E c \in Calls :
              \/ Count(c) \/ Connect(c) \/ OpenFailed(c) \/ Recheck(c) \/ Discard(c)
              \/ CopyEnds(c) \/ ReaderReleases(c) \/ CloseRelay(c)
              \/ CloserReleases(c) \/ ReleaseSelection(c) \/ Ended(c)
        \/ Shutdown \/ \E m \in Managers : CloseAll(m)
    BY <1>1, Zenon DEF Next, ClientStep, CallStep
  <2>2. CASE \E c \in Calls, m \in Managers, i \in Ids : Open(c, m, i)
    BY <2>2, OpenStep
  <2>3. CASE \E c \in Calls :
                \/ Count(c) \/ Connect(c) \/ OpenFailed(c) \/ Recheck(c) \/ Discard(c)
                \/ CopyEnds(c) \/ ReaderReleases(c) \/ CloseRelay(c)
                \/ CloserReleases(c) \/ ReleaseSelection(c) \/ Ended(c)
    BY <2>3, OpeningStep, RelayStep
  <2> QED
    BY <2>1, <2>2, <2>3, TableStep
<1>2. CASE UNCHANGED vars
  <2> USE <1>2 DEF vars, tableVars
  <2>1. TypeOK' <=> TypeOK
    BY DEF TypeOK
  <2>2. SelectionsMade' /\ LeasesShaped'
    BY DEF IInv, SelectionsMade, LeasesShaped
  <2>3. CallsFollow' /\ OpenedOnce'
    BY DEF IInv, CallsFollow, OpenedOnce, Serving, Listed
  <2>4. StreamsCounted' /\ TablesAgree'
    BY DEF IInv, LiveSound, StreamsCounted, Holds, TablesAgree, Listed, Used
  <2>5. SessionOwned' /\ UnlistedIsCancelled'
    BY DEF IInv, LiveSound, SessionOwned, UnlistedIsCancelled, Serving, Listed
  <2> QED
    BY <2>1, <2>2, <2>3, <2>4, <2>5 DEF IInv, LiveSound
<1> QED
  BY <1>1, <1>2

\* The invariant holds for any limits, networks and number of racing calls:
\* Select, Open, the relay and expiry keep it together.
THEOREM Inductive ==
    ASSUME LiveAssumption
    PROVE  Spec => []IInv
<1>1. Init => IInv
  BY InitHolds
<1>2. IInv /\ [Next]_vars => IInv'
  BY StepHolds
<1> QED
  BY <1>1, <1>2, PTL DEF Spec

\* Each stream is counted until exactly one of Copy and Close releases it, the
\* two tables name the same selections, a session in use has a call that gives
\* it back, and a stream whose selection is gone is cancelled.
THEOREM NothingLost ==
    ASSUME LiveAssumption
    PROVE  Spec => []LiveSound
<1>1. IInv => LiveSound
  BY DEF IInv
<1> QED
  BY <1>1, Inductive, PTL

\* CLR-008: whatever Open calls race for a process id, one of them gets it.
THEOREM ProcessIdOpenedOnce ==
    ASSUME LiveAssumption
    PROVE  Spec => []OpenedOnce
<1>1. IInv => OpenedOnce
  BY DEF IInv
<1> QED
  BY <1>1, Inductive, PTL

-----------------------------------------------------------------------------
(* The automatic reservations.                                                *)

\* The rule that the programme falls to is one of those that fit.
LEMMA ChosenFits ==
    ASSUME AutoIInv, Fitting # {}
    PROVE  Chosen \in Fitting
<1> DEFINE numbers == {r.number : r \in Fitting}
<1>1. Fitting \subseteq Rule /\ \A r \in Rule : r.number \in Nat
  BY DEF AutoIInv, AutoTypeOK, Run, Fitting, Rule
<1>2. numbers \subseteq Nat /\ numbers # {}
  BY <1>1
<1>3. PICK n \in numbers : \A m \in numbers : <<m, n>> \notin OpToRel(<, Nat)
  BY <1>2, NatLessThanWellFounded, WFMin
<1>4. PICK r \in Fitting : n = r.number
  BY <1>3
<1>5. \A m \in numbers : ~(m < n)
  BY <1>2, <1>3 DEF OpToRel
<1>6. \A s \in Fitting : s.number \in numbers /\ s.number \in Nat /\ n \in Nat
  BY <1>1, <1>2, <1>3
<1> HIDE DEF numbers
<1>7. \A s \in Fitting : r.number <= s.number
  BY <1>4, <1>5, <1>6, SMT
<1> QED
  BY <1>4, <1>7 DEF Chosen

-----------------------------------------------------------------------------
(* What a kind of step leaves alone.                                       *)

\* A step of the evaluation that touches no table.
LEMMA RunKeeps ==
    ASSUME AutoIInv, UNCHANGED <<rules, made, rows, matches>>,
           ahead' \subseteq Programs, faults' \in 0 .. MaxAutoFaults,
           run' \in Run, run'.read \in {{}, rules, run.read}
    PROVE  AutoIInv'
<1>1. AutoTypeOK' /\ MatchesKept' /\ AutomaticIsFirst'
  BY DEF AutoIInv, AutoTypeOK, MatchesKept, AutomaticIsFirst
<1>2. RulesNumbered'
  BY DEF AutoIInv, RulesNumbered
<1> QED
  BY <1>1, <1>2 DEF AutoIInv

\* A step that changes rows, and the programme of none.
LEMMA EditKeeps ==
    ASSUME AutoIInv, UNCHANGED <<rules, made, matches, ahead, faults>>,
           run' \in Run, run'.read \in {{}, run.read},
           NEW new \in Seq(Row), rows' = new, DOMAIN new = DOMAIN rows, Len(new) = Len(rows),
           \A i \in DOMAIN rows : new[i].program = rows[i].program
    PROVE  AutoIInv'
<1>1. AutoTypeOK'
  BY DEF AutoIInv, AutoTypeOK
<1>2. RulesNumbered'
  BY DEF AutoIInv, RulesNumbered
<1>3. MatchesKept'
  BY DEF AutoIInv, MatchesKept
<1>4. AutomaticIsFirst'
  BY DEF AutoIInv, AutomaticIsFirst
<1> QED
  BY <1>1, <1>2, <1>3, <1>4 DEF AutoIInv

\* The reservations after a new one.
LEMMA NewRowIs ==
    ASSUME AutoIInv, Len(rows) < MaxRows, AutoAssumption,
           NEW p \in Programs, NEW enabled \in BOOLEAN, rows' = NewRow(p, enabled)
    PROVE  /\ rows' \in Seq(Row) /\ Len(rows') = Len(rows) + 1 /\ Len(rows') <= MaxRows
           /\ Len(rows) \in Nat /\ DOMAIN rows = 1 .. Len(rows)
           /\ DOMAIN rows' = 1 .. (Len(rows) + 1)
           /\ rows'[Len(rows) + 1].program = p
           /\ \A i \in DOMAIN rows : rows'[i] = rows[i]
<1> DEFINE row == [program |-> p, state |-> "ACTIVE", enabled |-> enabled, attempt |-> "none"]
<1>1. row \in Row /\ row.program = p
  BY DEF Row
<1>2. rows' = Append(rows, row) /\ rows \in Seq(Row)
  BY DEF NewRow, AutoIInv, AutoTypeOK
<1> HIDE DEF row
<1> QED
  BY <1>1, <1>2 DEF AutoAssumption

-----------------------------------------------------------------------------
(* The evaluation's place.                                                 *)

LEMMA RunTyped ==
    ASSUME AutoIInv, AutoAssumption
    PROVE  /\ Idle \in Run /\ Following \in Run /\ Idle.read = {}
           /\ Following.read \in {{}, run.read}
           /\ Following.created \in 0 .. MaxPerRun
<1>1. /\ run \in Run /\ NPrograms \in Nat /\ MaxPerRun \in Nat
      /\ run.next \in Programs
  BY DEF AutoIInv, AutoTypeOK, AutoAssumption, Run
<1>2. 1 \in Programs /\ (run.next # NPrograms => run.next + 1 \in Programs)
  BY <1>1 DEF Programs
<1>3. Idle \in Run /\ Idle.read = {}
  BY <1>1, <1>2 DEF Idle, Run
<1>4. ASSUME run.next # NPrograms
      PROVE  LET on == [run EXCEPT !.at = "programs", !.next = @ + 1]
             IN  on \in Run /\ on.read = run.read
  BY <1>1, <1>2, <1>4 DEF Run
<1>5. Following \in Run /\ Following.read \in {{}, run.read}
  BY <1>3, <1>4 DEF Following
<1> QED
  BY <1>3, <1>5 DEF Run
-----------------------------------------------------------------------------
(* The steps of rules, of reservations and of the guide.                   *)

LEMMA RuleStep ==
    ASSUME AutoIInv, AutoAssumption,
           \/ \E c \in Conditions : AddRule(c) \/ \E r \in rules : ChangeRule(r, c)
           \/ \E r \in rules : DeleteRule(r)
    PROVE  AutoIInv'
<1>1. /\ rules \subseteq Rule /\ made \in 0 .. MaxNumber /\ MaxNumber \in Nat
      /\ \A r \in rules : r.number = r.id /\ r.id \in 1 .. made
      /\ \A r, s \in rules : r.id = s.id => r = s
  BY DEF AutoIInv, AutoTypeOK, RulesNumbered, AutoAssumption, Rule
<1>2. ASSUME NEW c \in Conditions, AddRule(c)
      PROVE  AutoIInv'
  <2> DEFINE new == [id |-> made + 1, number |-> made + 1, cond |-> c]
  <2>1. made' = made + 1 /\ made' \in 0 .. MaxNumber /\ made \in Nat
    BY <1>1, <1>2 DEF AddRule
  <2>2. new \in Rule /\ new.id = made + 1 /\ new.number = made + 1
    BY <1>1, <2>1 DEF Rule
  <2>3. rules' = rules \cup {new}
    BY <1>2 DEF AddRule, NextNumber
  <2> HIDE DEF new
  <2>4. AutoTypeOK' /\ MatchesKept' /\ AutomaticIsFirst'
    BY <1>1, <1>2, <2>1, <2>2, <2>3
    DEF AddRule, AutoIInv, AutoTypeOK, MatchesKept, AutomaticIsFirst
  <2>5. /\ \A r \in rules' : r.number = r.id /\ r.id <= made'
        /\ \A r, s \in rules' : r.id = s.id => r = s
    BY <1>1, <2>1, <2>2, <2>3
  <2>6. run.read \subseteq Rule /\ run' = run
    BY <1>2 DEF AutoIInv, AutoTypeOK, Run, AddRule
  <2>7. \A r \in run.read : r.number = r.id /\ r.id <= made'
    BY <1>1, <2>1, <2>6 DEF AutoIInv, RulesNumbered, Rule
  <2>8. \A r, s \in run.read : r.id = s.id => r = s
    BY DEF AutoIInv, RulesNumbered
  <2>9. RulesNumbered'
    BY <2>5, <2>6, <2>7, <2>8 DEF RulesNumbered
  <2> QED
    BY <2>4, <2>9 DEF AutoIInv
<1>3. ASSUME NEW c \in Conditions, NEW r \in rules, ChangeRule(r, c)
      PROVE  AutoIInv'
  <2> DEFINE new == [r EXCEPT !.cond = c]
  <2>1. new \in Rule /\ new.id = r.id /\ new.number = r.number
    BY <1>1 DEF Rule
  <2>2. rules' = (rules \ {r}) \cup {new}
    BY <1>3 DEF ChangeRule
  <2> HIDE DEF new
  <2>3. AutoTypeOK' /\ MatchesKept' /\ AutomaticIsFirst'
    BY <1>1, <1>3, <2>1, <2>2
    DEF ChangeRule, AutoIInv, AutoTypeOK, MatchesKept, AutomaticIsFirst
  <2>4. /\ \A s \in rules' : s.number = s.id /\ s.id <= made
        /\ \A s, t \in rules' : s.id = t.id => s = t
    BY <1>1, <2>1, <2>2
  <2>5. RulesNumbered'
    BY <1>3, <2>4 DEF ChangeRule, AutoIInv, RulesNumbered
  <2> QED
    BY <2>3, <2>5 DEF AutoIInv
<1>4. ASSUME NEW r \in rules, DeleteRule(r)
      PROVE  AutoIInv'
  <2>1. AutoTypeOK' /\ MatchesKept' /\ AutomaticIsFirst'
    BY <1>4 DEF DeleteRule, AutoIInv, AutoTypeOK, MatchesKept, AutomaticIsFirst
  <2>2. RulesNumbered'
    BY <1>4 DEF DeleteRule, AutoIInv, RulesNumbered
  <2> QED
    BY <2>1, <2>2 DEF AutoIInv
<1> QED
  BY <1>2, <1>3, <1>4

\* A reservation of the user's, of a programme that may have had others: it comes
\* after them.
LEMMA ReserveStep ==
    ASSUME AutoIInv, AutoAssumption, NEW p \in Programs, Reserve(p)
    PROVE  AutoIInv'
<1>1. rows' = NewRow(p, TRUE) /\ Len(rows) < MaxRows
      /\ UNCHANGED <<rules, made, matches, ahead, run, faults>>
  BY DEF Reserve
<1>2. /\ rows' \in Seq(Row) /\ Len(rows') <= MaxRows /\ Len(rows) \in Nat
      /\ DOMAIN rows = 1 .. Len(rows) /\ DOMAIN rows' = 1 .. (Len(rows) + 1)
      /\ \A i \in DOMAIN rows : rows'[i] = rows[i]
  BY <1>1, NewRowIs
<1>3. AutoTypeOK' /\ RulesNumbered'
  BY <1>1, <1>2 DEF AutoIInv, AutoTypeOK, RulesNumbered
<1>4. MatchesKept'
  <2>1. \A i \in DOMAIN rows : i \in DOMAIN rows' /\ rows'[i] = rows[i]
    BY <1>2
  <2> QED
    BY <1>1, <2>1 DEF AutoIInv, MatchesKept
<1>5. AutomaticIsFirst'
  <2> SUFFICES ASSUME NEW m \in matches, NEW i \in DOMAIN rows', rows'[i].program = m.program
               PROVE  m.row <= i
    BY <1>1 DEF AutomaticIsFirst
  <2>1. m.row \in 1 .. Len(rows)
    BY <1>2 DEF AutoIInv, MatchesKept
  <2>2. CASE i \in DOMAIN rows
    BY <1>2, <2>2 DEF AutoIInv, AutomaticIsFirst
  <2>3. CASE i = Len(rows) + 1
    BY <1>2, <2>1, <2>3
  <2> QED
    BY <1>2, <2>2, <2>3
<1> QED
  BY <1>3, <1>4, <1>5 DEF AutoIInv

\* The user's and the recorder's changes of a reservation.
LEMMA EditStep ==
    ASSUME AutoIInv, NEW i \in DOMAIN rows, Withdraw(i) \/ Switch(i) \/ Begin(i) \/ End(i)
    PROVE  AutoIInv'
<1>1. rows \in Seq(Row) /\ rows[i] \in Row /\ run \in Run
  BY DEF AutoIInv, AutoTypeOK
<1>2. PICK row \in Row : EditRow(i, row) /\ row.program = rows[i].program
  <2>1. /\ [rows[i] EXCEPT !.state = "FINISHED"] \in Row
        /\ [rows[i] EXCEPT !.enabled = ~@] \in Row
        /\ [rows[i] EXCEPT !.attempt = "open"] \in Row
        /\ [rows[i] EXCEPT !.attempt = "ended", !.state = "FINISHED"] \in Row
    BY <1>1 DEF Row
  <2>2. /\ [rows[i] EXCEPT !.state = "FINISHED"].program = rows[i].program
        /\ [rows[i] EXCEPT !.enabled = ~@].program = rows[i].program
        /\ [rows[i] EXCEPT !.attempt = "open"].program = rows[i].program
        /\ [rows[i] EXCEPT !.attempt = "ended", !.state = "FINISHED"].program = rows[i].program
    BY <1>1 DEF Row
  <2> QED
    BY <2>1, <2>2, Zenon DEF Withdraw, Switch, Begin, End
<1>3. /\ rows' = [rows EXCEPT ![i] = row]
      /\ UNCHANGED <<rules, made, matches, ahead, run, faults>>
  BY <1>2 DEF EditRow
<1>4. /\ [rows EXCEPT ![i] = row] \in Seq(Row)
      /\ DOMAIN [rows EXCEPT ![i] = row] = DOMAIN rows
      /\ Len([rows EXCEPT ![i] = row]) = Len(rows)
  BY <1>1
<1>5. \A j \in DOMAIN rows : [rows EXCEPT ![i] = row][j].program = rows[j].program
  BY <1>2
<1> QED
  BY <1>1, <1>3, <1>4, <1>5, EditKeeps

LEMMA PassStep ==
    ASSUME AutoIInv, NEW p \in Programs, Pass(p)
    PROVE  AutoIInv'
<1>1. ahead' \subseteq Programs /\ UNCHANGED <<rules, made, rows, matches, run, faults>>
  BY DEF Pass, AutoIInv, AutoTypeOK
<1>2. run' \in Run /\ run'.read = run.read /\ faults' \in 0 .. MaxAutoFaults
  BY <1>1 DEF AutoIInv, AutoTypeOK
<1> QED
  BY <1>1, <1>2, RunKeeps

-----------------------------------------------------------------------------
(* The steps of the evaluation.                                            *)

LEMMA StartRunStep ==
    ASSUME AutoIInv, AutoAssumption, StartRun
    PROVE  AutoIInv'
<1>1. rules \subseteq Rule /\ ahead \subseteq Programs /\ Idle \in Run
  BY RunTyped DEF AutoIInv, AutoTypeOK
<1>2. run' \in Run /\ run'.read = rules
  BY <1>1 DEF StartRun, Run
<1> QED
  BY <1>2, RunKeeps DEF StartRun, AutoIInv, AutoTypeOK

LEMMA LoadTitlesStep ==
    ASSUME AutoIInv, AutoAssumption, LoadTitles
    PROVE  AutoIInv'
<1>1. run \in Run /\ History \subseteq Programs
  <2>1. run \in Run /\ \A i \in DOMAIN rows : rows[i] \in Row
    BY DEF AutoIInv, AutoTypeOK
  <2>2. \A i \in DOMAIN rows : rows[i].program \in Programs
    BY <2>1 DEF Row
  <2> QED
    BY <2>1, <2>2 DEF History
<1>2. run' \in Run /\ run'.read = run.read
  BY <1>1 DEF LoadTitles, Run
<1> QED
  BY <1>2, RunKeeps DEF LoadTitles, AutoIInv, AutoTypeOK

LEMMA GoOnStep ==
    ASSUME AutoIInv, AutoAssumption, PassOver \/ Duplicate \/ Refused \/ Abort
    PROVE  AutoIInv'
<1>1. run \in Run
  BY DEF AutoIInv, AutoTypeOK
<1>2. [run EXCEPT !.at = "disable"] \in Run /\ [run EXCEPT !.at = "disable"].read = run.read
  BY <1>1 DEF Run
<1>3. UNCHANGED <<rules, made, rows, matches, ahead>>
  BY DEF PassOver, Duplicate, Refused, Abort
<1>4. faults' \in 0 .. MaxAutoFaults
  BY DEF PassOver, Duplicate, Refused, Abort, AutoIInv, AutoTypeOK, AutoAssumption
<1>5. run' \in {Idle, Following, [run EXCEPT !.at = "disable"]}
  BY DEF PassOver, Duplicate, Refused, Abort
<1>6. run' \in Run /\ run'.read \in {{}, run.read}
  BY <1>2, <1>5, RunTyped
<1>7. ahead' \subseteq Programs
  BY <1>3 DEF AutoIInv, AutoTypeOK
<1> QED
  BY <1>3, <1>4, <1>6, <1>7, RunKeeps

\* The rule that the reservation is entered under.
LEMMA CreateEnters ==
    ASSUME AutoIInv, AutoAssumption, Create
    PROVE  /\ Chosen \in run.read /\ run.next \in Chosen.cond.matches
           /\ \E r \in rules : /\ r.id = Chosen.id
                               /\ matches' = matches \cup {[rule |-> r.id, program |-> run.next,
                                                            row |-> Len(rows) + 1]}
<1>1. Chosen \in Fitting
  BY ChosenFits DEF Create, Candidate
<1>2. Chosen \in run.read /\ run.next \in Chosen.cond.matches
  BY <1>1 DEF Fitting
<1>3. PICK r \in RuleNow : matches' = matches \cup {[rule |-> r.id, program |-> run.next,
                                                     row |-> Len(rows) + 1]}
  BY DEF Create
<1>4. r \in rules /\ r.id = Chosen.id
  BY <1>2, <1>3 DEF RuleNow, AutoIInv, RulesNumbered
<1> QED
  BY <1>2, <1>3, <1>4

LEMMA CreateStep ==
    ASSUME AutoIInv, AutoAssumption, Create
    PROVE  AutoIInv'
<1>1. PICK r \in rules : matches' = matches \cup {[rule |-> r.id, program |-> run.next,
                                                   row |-> Len(rows) + 1]}
  BY CreateEnters
<1> DEFINE new == [rule |-> r.id, program |-> run.next, row |-> Len(rows) + 1]
<1>2. /\ rows' = NewRow(run.next, ~TitleMatch) /\ Len(rows) < MaxRows
      /\ UNCHANGED <<rules, made, ahead, faults>> /\ ~Previous(run.next)
      /\ run' = [Following EXCEPT !.created = IF Following = Idle THEN 0 ELSE @ + 1]
      /\ run.created # MaxPerRun
  BY DEF Create, Candidate, AtLimit
<1>3. run.next \in Programs /\ run \in Run /\ r \in Rule /\ matches \subseteq Match
      /\ MaxPerRun \in Nat /\ MaxRows \in Nat
  BY DEF AutoIInv, AutoTypeOK, Run, AutoAssumption
<1>4. /\ rows' \in Seq(Row) /\ Len(rows') <= MaxRows /\ Len(rows) \in Nat
      /\ DOMAIN rows = 1 .. Len(rows) /\ DOMAIN rows' = 1 .. (Len(rows) + 1)
      /\ rows'[Len(rows) + 1].program = run.next
      /\ \A i \in DOMAIN rows : rows'[i] = rows[i]
  <2>1. (~TitleMatch) = TRUE \/ (~TitleMatch) = FALSE
    OBVIOUS
  <2>2. (~TitleMatch) \in BOOLEAN
    BY <2>1
  <2> QED
    BY <1>2, <1>3, <2>2, NewRowIs
<1>5. new \in Match /\ new.program = run.next /\ new.row = Len(rows) + 1
  BY <1>2, <1>3, <1>4 DEF Match, Rule
<1>6. matches' = matches \cup {new}
  BY <1>1
<1>7. run' \in Run /\ run'.read \in {{}, run.read}
  <2>1. Following \in Run /\ Following.read \in {{}, run.read}
    BY RunTyped
  <2>2. ASSUME Following # Idle
        PROVE  Following.created + 1 \in 0 .. MaxPerRun
    <3>1. Following = [run EXCEPT !.at = "programs", !.next = @ + 1]
      BY <2>2 DEF Following
    <3>2. Following.created = run.created /\ run.created \in 0 .. MaxPerRun
      BY <1>3, <3>1 DEF Run
    <3> QED
      BY <1>2, <1>3, <3>2
  <2>3. 0 \in 0 .. MaxPerRun
    BY <1>3
  <2>4. PICK k \in 0 .. MaxPerRun : run' = [Following EXCEPT !.created = k]
    BY <1>2, <2>2, <2>3
  <2> QED
    BY <2>1, <2>4 DEF Run
<1> HIDE DEF new
<1>8. AutoTypeOK'
  BY <1>2, <1>3, <1>4, <1>5, <1>6, <1>7 DEF AutoIInv, AutoTypeOK
<1>9. RulesNumbered'
  BY <1>2, <1>7 DEF AutoIInv, RulesNumbered
<1>10. MatchesKept'
  BY <1>4, <1>5, <1>6 DEF AutoIInv, MatchesKept
<1>11. AutomaticIsFirst'
  <2> SUFFICES ASSUME NEW m \in matches', NEW i \in DOMAIN rows',
                      rows'[i].program = m.program
               PROVE  m.row <= i
    BY DEF AutomaticIsFirst
  <2>1. CASE m \in matches
    <3>1. m.row \in 1 .. Len(rows)
      BY <1>4, <2>1 DEF AutoIInv, MatchesKept
    <3>2. CASE i \in DOMAIN rows
      BY <1>4, <2>1, <3>2 DEF AutoIInv, AutomaticIsFirst
    <3>3. CASE i = Len(rows) + 1
      BY <1>4, <3>1, <3>3
    <3> QED
      BY <1>4, <3>2, <3>3
  <2>2. CASE m = new
    <3>1. i \notin DOMAIN rows
      BY <1>2, <1>4, <1>5, <2>2 DEF Previous
    <3> QED
      BY <1>4, <1>5, <2>2, <3>1
  <2> QED
    BY <1>6, <2>1, <2>2
<1> QED
  BY <1>8, <1>9, <1>10, <1>11 DEF AutoIInv

LEMMA DisableStep ==
    ASSUME AutoIInv, AutoAssumption, Disable
    PROVE  AutoIInv'
<1> DEFINE found == {m.row : m \in {x \in matches : x.program = run.next}}
           new == [i \in DOMAIN rows |-> IF i \in found /\ Disablable(i)
                                         THEN [rows[i] EXCEPT !.enabled = FALSE] ELSE rows[i]]
<1>1. rows' = new /\ run' = Following /\ UNCHANGED <<rules, made, matches, ahead, faults>>
  BY DEF Disable
<1>2. rows \in Seq(Row) /\ DOMAIN rows = 1 .. Len(rows) /\ Len(rows) \in Nat
  BY DEF AutoIInv, AutoTypeOK
<1>3. \A i \in DOMAIN rows : new[i] \in Row /\ new[i].program = rows[i].program
  <2> SUFFICES ASSUME NEW i \in DOMAIN rows
               PROVE  new[i] \in Row /\ new[i].program = rows[i].program
    OBVIOUS
  <2>1. rows[i] \in Row /\ new[i] \in {[rows[i] EXCEPT !.enabled = FALSE], rows[i]}
    BY <1>2
  <2> HIDE DEF new
  <2> QED
    BY <2>1 DEF Row
<1>4. new \in [1 .. Len(rows) -> Row]
  BY <1>2, <1>3
<1>5. DOMAIN new = DOMAIN rows
  OBVIOUS
<1> HIDE DEF new
<1>6. new \in Seq(Row) /\ Len(new) = Len(rows)
  BY <1>2, <1>4
<1> QED
  BY <1>1, <1>3, <1>5, <1>6, RunTyped, EditKeeps

-----------------------------------------------------------------------------
(* The theorems.                                                           *)

LEMMA AutoStep ==
    ASSUME AutoIInv, AutoAssumption, AutoNext
    PROVE  AutoIInv'
<1>1. CASE \/ \E c \in Conditions : AddRule(c) \/ \E r \in rules : ChangeRule(r, c)
           \/ \E r \in rules : DeleteRule(r)
  BY <1>1, RuleStep
<1>2. CASE \E p \in Programs : Reserve(p) \/ Pass(p)
  BY <1>2, ReserveStep, PassStep
<1>3. CASE \E i \in DOMAIN rows : Withdraw(i) \/ Switch(i) \/ Begin(i) \/ End(i)
  BY <1>3, EditStep
<1>4. CASE StartRun
  BY <1>4, StartRunStep
<1>5. CASE RunStep
  BY <1>5, LoadTitlesStep, GoOnStep, CreateStep, DisableStep DEF RunStep
<1>6. CASE Abort
  BY <1>6, GoOnStep
<1> QED
  BY <1>1, <1>2, <1>3, <1>4, <1>5, <1>6 DEF AutoNext

\* Whatever happens to rules and reservations while an evaluation runs, the tables
\* keep to AutoIInv: a rule's number names one rule for ever, and a match is of an
\* existing reservation of its programme.
THEOREM AutomaticInductive ==
    ASSUME AutoAssumption
    PROVE  AutoSpec => []AutoIInv
<1>1. AutoInit => AutoIInv
  <2> SUFFICES ASSUME AutoInit
               PROVE  AutoIInv
    OBVIOUS
  <2>1. Idle \in Run /\ Idle.read = {}
    BY DEF Idle, Run, Programs, AutoAssumption
  <2>2. AutoTypeOK
    BY <2>1 DEF AutoInit, AutoTypeOK, AutoAssumption
  <2> QED
    BY <2>1, <2>2 DEF AutoInit, AutoIInv, RulesNumbered, MatchesKept, AutomaticIsFirst
<1>2. AutoIInv /\ [AutoNext]_autoVars => AutoIInv'
  <2> SUFFICES ASSUME AutoIInv, [AutoNext]_autoVars
               PROVE  AutoIInv'
    OBVIOUS
  <2>1. CASE AutoNext
    BY <2>1, AutoStep
  <2>2. CASE UNCHANGED autoVars
    BY <2>2 DEF autoVars, AutoIInv, AutoTypeOK, RulesNumbered, MatchesKept, AutomaticIsFirst
  <2> QED
    BY <2>1, <2>2
<1> QED
  BY <1>1, <1>2, PTL DEF AutoSpec

\* BAR-008: whatever rules are deleted and made again, however runs are cut off and
\* whatever the user and the recorder do meanwhile, an automatic reservation is the
\* first of its programme: what was cancelled or recorded is not reserved again.
THEOREM AutomaticComesFirst ==
    ASSUME AutoAssumption
    PROVE  AutoSpec => []AutomaticIsFirst
<1>1. AutoIInv => AutomaticIsFirst
  BY DEF AutoIInv
<1> QED
  BY <1>1, AutomaticInductive, PTL

\* CreateAutomaticReservation looks the rule up by number: the one it finds is the one
\* that the evaluation judged the programme by, however long ago it was read.
THEOREM EnteredUnderItsRule ==
    ASSUME AutoAssumption
    PROVE  AutoSpec => MadeByItsRule
<1>1. AutoIInv /\ [AutoNext]_autoVars => [EnteredForRule]_autoVars
  <2> SUFFICES ASSUME AutoIInv, AutoNext
               PROVE  EnteredForRule
    OBVIOUS
  <2>1. CASE Create
    <3>1. PICK r \in rules :
              /\ r.id = Chosen.id
              /\ matches' = matches \cup {[rule |-> r.id, program |-> run.next,
                                           row |-> Len(rows) + 1]}
      BY <2>1, CreateEnters
    <3>2. Chosen \in run.read /\ run.next \in Chosen.cond.matches
      BY <2>1, CreateEnters
    <3> QED
      BY <3>1, <3>2 DEF EnteredForRule
  <2>2. CASE ~Create
    <3>1. matches' \subseteq matches
      BY <2>2 DEF AutoNext, AddRule, ChangeRule, DeleteRule, Reserve, Pass, Withdraw, Switch,
                  Begin, End, EditRow, StartRun, RunStep, LoadTitles, PassOver, Duplicate,
                  Refused, Disable, Abort
    <3> QED
      BY <3>1 DEF EnteredForRule
  <2> QED
    BY <2>1, <2>2
<1> QED
  BY <1>1, AutomaticInductive, PTL DEF AutoSpec, MadeByItsRule

\* ARTD-009: though the programme was chosen in an earlier transaction, disabling
\* changes only an automatic reservation that no recording was begun for.
THEOREM DisablesOnlyItsOwn ==
    ASSUME AutoAssumption
    PROVE  AutoSpec => LeavesOthersAlone
<1>1. AutoIInv /\ [AutoNext]_autoVars => [DisablesItsOwn]_autoVars
  <2> SUFFICES ASSUME AutoIInv, AutoNext, run.at = "disable",
                      NEW i \in DOMAIN rows, rows'[i] # rows[i], run' # run
               PROVE  rows[i].attempt = "none" /\ \E m \in matches : m.row = i
    BY DEF DisablesItsOwn
  <2>1. Disable
    BY DEF AutoNext, AddRule, ChangeRule, DeleteRule, Reserve, Pass, Withdraw, Switch,
           Begin, End, EditRow, StartRun, RunStep, LoadTitles, PassOver, Duplicate,
           Refused, Create, Candidate, Abort
  <2> QED
    BY <2>1 DEF Disable, Disablable
<1> QED
  BY <1>1, AutomaticInductive, PTL DEF AutoSpec, LeavesOthersAlone
=============================================================================
