--------------------------- MODULE CatalogueProofs --------------------------
(***************************************************************************)
(* Proofs about Catalogue for all services, contents and offers of the     *)
(* provider, every number of generations, reservations and rows in a batch *)
(* or a page, every retention, and every bound on time, faults and users.  *)
(***************************************************************************)
EXTENDS Catalogue, FiniteSetTheorems, WellFoundedInduction, TLAPS

-----------------------------------------------------------------------------
(* Sets of numbers.                                                        *)

\* A non-empty set of natural numbers has a least one: the smallest of its
\* initial segments has one element.
LEMMA LeastExists ==
    ASSUME NEW S \in SUBSET Nat, S # {}
    PROVE  \E k \in S : \A m \in S : k <= m
<1> DEFINE Upto(k) == {m \in S : m <= k}
           Segments == {A \in SUBSET S : \E k \in S : A = Upto(k)}
<1>0. \A m \in S : m \in Nat
  OBVIOUS
<1>1. \A k \in S : IsFiniteSet(Upto(k))
  <2> TAKE k \in S
  <2>1. k \in Int /\ 0 \in Int /\ \A m \in Upto(k) : m \in 0 .. k
    BY <1>0
  <2>2. IsFiniteSet(0 .. k)
    BY <2>1, FS_Interval
  <2> QED
    BY <2>1, <2>2, FS_Subset
<1>2. Segments \subseteq FiniteSubsetsOf(S)
  BY <1>1 DEF FiniteSubsetsOf
<1>3. Segments # {}
  OBVIOUS
<1>4. PICK A \in Segments : \A B \in Segments : <<B, A>> \notin StrictSubsetOrdering(S)
  <2>1. IsWellFoundedOn(StrictSubsetOrdering(S), FiniteSubsetsOf(S))
    BY FS_StrictSubsetOrderingWellFounded
  <2> HIDE DEF Segments
  <2> QED
    BY <2>1, <1>2, <1>3, WFMin
<1>5. PICK k \in S : A = Upto(k)
  OBVIOUS
<1>6. ASSUME NEW m \in S, ~(k <= m)
      PROVE  FALSE
  <2>1. k \in Nat /\ m \in Nat /\ m < k
    BY <1>6
  <2>2. Upto(m) \in Segments
    OBVIOUS
  <2>3. Upto(m) \subseteq Upto(k) /\ k \in Upto(k) /\ k \notin Upto(m)
    <3>1. \A j \in S : j <= m => j <= k
      BY <1>0, <2>1
    <3>2. k <= k /\ ~(k <= m)
      BY <2>1
    <3> QED
      BY <3>1, <3>2
  <2>4. <<Upto(m), A>> \in StrictSubsetOrdering(S)
    BY <2>3, <1>5 DEF StrictSubsetOrdering
  <2> QED
    BY <2>2, <2>4, <1>4
<1> QED
  BY <1>6

\* Max of a bounded set of natural numbers.
LEMMA MaxBounds ==
    ASSUME NEW n \in Nat, NEW S \in SUBSET (0 .. n), S # {}
    PROVE  Max(S) \in S /\ \A m \in S : Max(S) >= m
<1> DEFINE Down == {n - m : m \in S}
<1>1. Down \in SUBSET Nat /\ Down # {}
  OBVIOUS
<1>2. PICK d \in Down : \A e \in Down : d <= e
  <2> HIDE DEF Down
  <2> QED
    BY <1>1, LeastExists
<1>3. PICK k \in S : d = n - k
  OBVIOUS
<1>4. \A m \in S : k >= m
  BY <1>2, <1>3
<1> QED
  BY <1>4 DEF Max

LEMMA MaxOfTwo ==
    ASSUME NEW a \in Nat, NEW b \in Nat
    PROVE  Max({a, b}) = IF a >= b THEN a ELSE b
BY DEF Max

\* A set of which no two members differ has at most one.
LEMMA AtMostOne ==
    ASSUME NEW S, \A a, b \in S : a = b
    PROVE  IsFiniteSet(S) /\ Cardinality(S) <= 1
<1>1. CASE S = {}
  BY <1>1, FS_EmptySet
<1>2. CASE S # {}
  <2>1. PICK a \in S : TRUE
    BY <1>2
  <2>2. S = {a}
    OBVIOUS
  <2>3. IsFiniteSet({a}) /\ Cardinality({a}) = 1
    BY FS_Singleton
  <2> QED
    BY <2>2, <2>3
<1> QED
  BY <1>1, <1>2

-----------------------------------------------------------------------------
(* Synchronisations and the latest generation.                             *)

SyncRows == [state : {"none", "RUNNING", "COMPLETED", "FAILED", "pruned"},
             started : 0 .. MaxTime, finished : 0 .. MaxTime]

LEMMA SyncTypes ==
    ASSUME TypeOK
    PROVE  /\ syncs \in [SyncIds -> SyncRows] /\ Generations \in Nat /\ SyncIds = 1 .. Generations
           /\ Completed \subseteq SyncIds
           /\ \A s \in SyncIds : syncs[s].started \in Nat /\ syncs[s].finished \in Nat /\ s \in Nat
BY SMTT(30), CatalogueAssumption, RefreshAssumption DEF TypeOK, CatalogueTypeOK, SyncRows, SyncIds, Completed

\* Of two completed generations one is newer; so the latest one is unique.
LEMMA LatestIs ==
    ASSUME TypeOK, NEW s \in Completed, NewerThan(s) = {}
    PROVE  LatestCompleted = s
<1>1. \A q \in Completed : NewerThan(q) = {} => q = s
  <2> TAKE q \in Completed
  <2>1. syncs[q].finished \in Nat /\ syncs[s].finished \in Nat /\ q \in Nat /\ s \in Nat
    BY SyncTypes
  <2> QED
    BY <2>1 DEF NewerThan
<1> QED
  BY <1>1 DEF LatestCompleted

\* The latest generation is the same as long as the completed ones are, and
\* also if one goes that is not the latest.
LEMMA LatestStays ==
    ASSUME TypeOK, TypeOK', NEW g, LatestCompleted = g, g \in Completed, NewerThan(g) = {},
           Completed' \subseteq Completed, g \in Completed',
           \A s \in Completed' : syncs'[s] = syncs[s]
    PROVE  /\ LatestCompleted' = g
           /\ \A s \in Completed' : NewerThan(s)' \subseteq NewerThan(s)
<1>1. \A s \in Completed' : NewerThan(s)' \subseteq NewerThan(s)
  BY DEF NewerThan
<1>2. NewerThan(g)' = {}
  BY <1>1
<1>3. \A q \in Completed' : NewerThan(q)' = {} => q = g
  <2> TAKE q \in Completed'
  <2>1. syncs'[q].finished \in Nat /\ syncs'[g].finished \in Nat /\ q \in Nat /\ g \in Nat
    BY SyncTypes
  <2> QED
    BY <2>1 DEF NewerThan
<1> QED
  BY <1>1, <1>2, <1>3 DEF LatestCompleted

-----------------------------------------------------------------------------
(* What a batch of the prune and a stored programme do to the tables.      *)

\* Each batch takes rows of one table only; what may go of each.
ObservationsPruned ==
    progObs' \subseteq progObs /\ \A o \in progObs \ progObs' : o.sync \in Unprotected
ServiceObservationsPruned ==
    svcObs' \subseteq svcObs /\ \A o \in svcObs \ svcObs' : o[1] \in Unprotected
SyncsPruned ==
    \E b \in SUBSET Unprotected :
        /\ syncs' = [s \in SyncIds |-> IF s \in b THEN [NoSync EXCEPT !.state = "pruned"] ELSE syncs[s]]
        /\ \A s \in b : ~(\E o \in progObs : o.sync = s) /\ ~(\E o \in svcObs : o[1] = s)
RevisionsPruned ==
    /\ revisions' \subseteq revisions
    /\ \A r \in revisions \ revisions' :
          /\ r.loc \in Locators /\ Unreferenced(r.loc) /\ r.inst = instances[r.loc].inst
          /\ instances[r.loc].seen < work.cutoff
InstancesPruned ==
    \E b \in SUBSET Locators :
        /\ instances' = [loc \in Locators |-> IF loc \in b THEN [inst |-> 0, seen |-> 0] ELSE instances[loc]]
        /\ \A loc \in b : RevisionsOf(loc) = {} /\ Unreferenced(loc) /\ UNCHANGED <<progObs, revisions>>
ServicesPruned ==
    \E b \in SUBSET Locators :
        /\ services' = [loc \in Locators |-> IF loc \in b THEN 0 ELSE services[loc]]
        /\ \A loc \in b : /\ instances[loc].inst = 0 /\ UNCHANGED <<instances, svcObs>>
                          /\ \A o \in svcObs : o[2] # loc
PruneShape ==
    /\ ObservationsPruned /\ ServiceObservationsPruned /\ SyncsPruned
    /\ RevisionsPruned /\ InstancesPruned /\ ServicesPruned

LEMMA PruneChanges ==
    ASSUME TypeOK, PruneBatch
    PROVE  PruneShape /\ pc = "gc"
<1>1. /\ syncs \in [SyncIds -> SyncRows] /\ services \in [Locators -> 0 .. MaxTime]
      /\ instances \in [Locators -> [inst : 0 .. Generations, seen : 0 .. MaxTime]]
      /\ revisions \subseteq Revisions
  BY SyncTypes DEF TypeOK, CatalogueTypeOK
<1>2. /\ progObs' = progObs => ObservationsPruned
      /\ svcObs' = svcObs => ServiceObservationsPruned
      /\ revisions' = revisions => RevisionsPruned
  BY DEF ObservationsPruned, ServiceObservationsPruned, RevisionsPruned
<1>3. ASSUME syncs' = syncs PROVE SyncsPruned
  <2>1. syncs = [s \in SyncIds |-> IF s \in {} THEN [NoSync EXCEPT !.state = "pruned"] ELSE syncs[s]]
    BY <1>1
  <2>2. \E b \in SUBSET Unprotected :
        /\ syncs' = [s \in SyncIds |-> IF s \in b THEN [NoSync EXCEPT !.state = "pruned"] ELSE syncs[s]]
        /\ \A s \in b : ~(\E o \in progObs : o.sync = s) /\ ~(\E o \in svcObs : o[1] = s)
    <3> WITNESS {} \in SUBSET Unprotected
    <3> QED
      BY <2>1, <1>3
  <2> QED
    BY <2>2 DEF SyncsPruned
<1>4. ASSUME instances' = instances PROVE InstancesPruned
  <2>1. instances = [loc \in Locators |-> IF loc \in {} THEN [inst |-> 0, seen |-> 0] ELSE instances[loc]]
    BY <1>1
  <2>2. \E b \in SUBSET Locators :
        /\ instances' = [loc \in Locators |-> IF loc \in b THEN [inst |-> 0, seen |-> 0] ELSE instances[loc]]
        /\ \A loc \in b : RevisionsOf(loc) = {} /\ Unreferenced(loc) /\ UNCHANGED <<progObs, revisions>>
    <3> WITNESS {} \in SUBSET Locators
    <3> QED
      BY <2>1, <1>4
  <2> QED
    BY <2>2 DEF InstancesPruned
<1>5. ASSUME services' = services PROVE ServicesPruned
  <2>1. services = [loc \in Locators |-> IF loc \in {} THEN 0 ELSE services[loc]]
    BY <1>1
  <2>2. \E b \in SUBSET Locators :
        /\ services' = [loc \in Locators |-> IF loc \in b THEN 0 ELSE services[loc]]
        /\ \A loc \in b : /\ instances[loc].inst = 0 /\ UNCHANGED <<instances, svcObs>>
                          /\ \A o \in svcObs : o[2] # loc
    <3> WITNESS {} \in SUBSET Locators
    <3> QED
      BY <2>1, <1>5
  <2> QED
    BY <2>2 DEF ServicesPruned
<1>6. CASE PruneObservations
  <2>1. ObservationsPruned
    BY <1>6 DEF PruneObservations, Batches, OldProgObs, ObservationsPruned
  <2> QED
    BY <2>1, <1>2, <1>3, <1>4, <1>5, <1>6 DEF PruneObservations, PruneShape, PruneBatch
<1>7. CASE PruneServiceObservations
  <2>1. ServiceObservationsPruned
    BY <1>7 DEF PruneServiceObservations, Batches, OldSvcObs, ServiceObservationsPruned
  <2> QED
    BY <2>1, <1>2, <1>3, <1>4, <1>5, <1>7 DEF PruneServiceObservations, PruneShape, PruneBatch
<1>8. CASE PruneSyncs(work.cutoff)
  <2>1. SyncsPruned
    <3>1. PICK b \in SUBSET OldSyncs(work.cutoff) :
             syncs' = [s \in SyncIds |-> IF s \in b THEN [NoSync EXCEPT !.state = "pruned"] ELSE syncs[s]]
      BY <1>8 DEF PruneSyncs, Batches
    <3>2. /\ b \in SUBSET Unprotected
          /\ \A s \in b : ~(\E o \in progObs : o.sync = s) /\ ~(\E o \in svcObs : o[1] = s)
      BY DEF OldSyncs
    <3> QED
      BY <3>1, <3>2 DEF SyncsPruned
  <2> QED
    BY <2>1, <1>2, <1>3, <1>4, <1>5, <1>8 DEF PruneSyncs, PruneShape, PruneBatch
<1>9. CASE PruneRevisions(work.cutoff)
  <2>1. RevisionsPruned
    BY <1>9 DEF PruneRevisions, Batches, OldRevisions, OldInstances, RevisionsPruned
  <2> QED
    BY <2>1, <1>2, <1>3, <1>4, <1>5, <1>9 DEF PruneRevisions, PruneShape, PruneBatch
<1>10. CASE PruneInstances(work.cutoff)
  <2>1. InstancesPruned
    <3>1. PICK b \in SUBSET EmptyInstances(work.cutoff) :
             instances' = [loc \in Locators |-> IF loc \in b THEN [inst |-> 0, seen |-> 0] ELSE instances[loc]]
      BY <1>10 DEF PruneInstances, Batches
    <3>2. /\ b \in SUBSET Locators
          /\ \A loc \in b : RevisionsOf(loc) = {} /\ Unreferenced(loc) /\ UNCHANGED <<progObs, revisions>>
      BY <1>10 DEF EmptyInstances, OldInstances, PruneInstances
    <3> QED
      BY <3>1, <3>2 DEF InstancesPruned
  <2> QED
    BY <2>1, <1>2, <1>3, <1>4, <1>5, <1>10 DEF PruneInstances, PruneShape, PruneBatch
<1>11. CASE PruneServices(work.cutoff)
  <2>1. ServicesPruned
    <3>1. PICK b \in SUBSET OldServices(work.cutoff) :
             services' = [loc \in Locators |-> IF loc \in b THEN 0 ELSE services[loc]]
      BY <1>11 DEF PruneServices, Batches
    <3>2. /\ b \in SUBSET Locators
          /\ \A loc \in b : /\ instances[loc].inst = 0 /\ UNCHANGED <<instances, svcObs>>
                            /\ \A o \in svcObs : o[2] # loc
      BY <1>11 DEF OldServices, PruneServices
    <3> QED
      BY <3>1, <3>2 DEF ServicesPruned
  <2> QED
    BY <2>1, <1>2, <1>3, <1>4, <1>5, <1>11 DEF PruneServices, PruneShape, PruneBatch
<1> QED
  BY <1>6, <1>7, <1>8, <1>9, <1>10, <1>11 DEF PruneBatch, PruneCatalogBatch

\* A programme is stored as an observation of a revision, which is there or new.
Observation(s, loc, inst, number, class) ==
    [sync |-> s, loc |-> loc, inst |-> inst, number |-> number, class |-> class]
StoredInvalid(s, loc) ==
    /\ progObs' = progObs \cup {Observation(s, loc, 0, 0, "INVALID")}
    /\ UNCHANGED <<instances, revisions>>
StoredExisting(s, loc, q, class) ==
    /\ q \in RevisionsOf(loc) /\ instances[loc].inst # 0
    /\ progObs' = progObs \cup {Observation(s, loc, q.inst, q.number, class)}
    /\ instances' = [instances EXCEPT ![loc].seen = syncs[s].started]
    /\ UNCHANGED revisions
StoredFirst(s, loc, q, class) ==
    /\ instances[loc].inst = 0 /\ q.inst = s /\ q.number = 1
    /\ progObs' = progObs \cup {Observation(s, loc, q.inst, q.number, class)}
    /\ instances' = [instances EXCEPT ![loc] = [inst |-> s, seen |-> syncs[s].started]]
    /\ revisions' = revisions \cup {q}
StoredNext(s, loc, q, class) ==
    /\ instances[loc].inst # 0 /\ q.inst = instances[loc].inst
    /\ q.number = NextNumber(loc) /\ q.number >= 2
    /\ progObs' = progObs \cup {Observation(s, loc, q.inst, q.number, class)}
    /\ instances' = [instances EXCEPT ![loc].seen = syncs[s].started]
    /\ revisions' = revisions \cup {q}
Successor(loc, q) ==
    Reference(loc) = {} \/ \E ref \in Reference(loc) : q = ref \/ Within(ref.content, q.content)
StoredValid(s, loc, q, class) ==
    /\ class \in Classes \ {"INVALID"} /\ <<s, loc>> \in svcObs
    /\ q \in [loc : {loc}, inst : Nat, number : Nat, content : Contents] /\ Successor(loc, q)
    /\ StoredExisting(s, loc, q, class) \/ StoredFirst(s, loc, q, class) \/ StoredNext(s, loc, q, class)

LEMMA FoundOrStored ==
    ASSUME TypeOK, NEW s \in SyncIds, NEW loc \in Locators, NEW content \in Contents,
           NEW found \in Classes \ {"INVALID"}, NEW new \in Classes \ {"INVALID"},
           <<s, loc>> \in svcObs, instances[loc].inst # 0,
           FindOrStore(s, loc, content, found, new),
           Reference(loc) = {} \/ \E ref \in Reference(loc) :
              \A q : q.content = content => Within(ref.content, q.content)
    PROVE  \E q, class : StoredValid(s, loc, q, class)
<1>1. /\ revisions \subseteq Revisions /\ Generations \in Nat
      /\ instances \in [Locators -> [inst : 0 .. Generations, seen : 0 .. MaxTime]]
  BY CatalogueAssumption DEF TypeOK, CatalogueTypeOK
<1>2. CASE WithContent(loc, content) # {}
  <2>1. PICK q \in WithContent(loc, content) : StoreExisting(s, loc, q, found)
    BY <1>2 DEF FindOrStore
  <2>2. q \in RevisionsOf(loc) /\ q.content = content
    BY DEF WithContent
  <2>3. q \in [loc : {loc}, inst : Nat, number : Nat, content : Contents]
    BY <1>1, <2>2 DEF RevisionsOf, Revisions
  <2>4. StoredExisting(s, loc, q, found)
    BY <2>1, <2>2, <1>1 DEF StoreExisting, StoredExisting, Touch, Observe, Observation
  <2> QED
    BY <2>2, <2>3, <2>4 DEF StoredValid, Successor
<1>3. CASE WithContent(loc, content) = {}
  <2> DEFINE q == [loc |-> loc, inst |-> instances[loc].inst, number |-> NextNumber(loc), content |-> content]
  <2>1. StoreRevision(s, loc, content, new)
    BY <1>3 DEF FindOrStore
  <2>2. RevisionsOf(loc) \subseteq Revisions
    BY <1>1 DEF RevisionsOf
  <2>3. NextNumber(loc) \in Nat
    <3> DEFINE numbers == {0} \cup {r.number : r \in RevisionsOf(loc)}
    <3>1. numbers \in SUBSET (0 .. Generations)
      BY <2>2, <1>1 DEF Revisions
    <3>2. Max(numbers) \in 0 .. Generations
      <4> HIDE DEF numbers
      <4>1. numbers # {}
        BY DEF numbers
      <4> QED
        BY <3>1, <4>1, <1>1, MaxBounds
    <3> QED
      BY <3>2 DEF NextNumber
  <2>4. q \in [loc : {loc}, inst : Nat, number : Nat, content : Contents] /\ q.content = content
    BY <1>1, <2>3
  <2>5. StoredNext(s, loc, q, new)
    BY <2>1, <1>1 DEF StoreRevision, StoredNext, Touch, Observe, Observation
  <2> QED
    BY <2>4, <2>5 DEF StoredValid, Successor
<1> QED
  BY <1>2, <1>3

LEMMA ProgramStored ==
    ASSUME TypeOK, NEW s \in SyncIds, NEW loc \in Locators, NEW valid \in BOOLEAN,
           NEW content \in Contents, StoreProgram(s, loc, valid, content)
    PROVE  /\ s \in Running /\ ~(\E o \in progObs : o.sync = s /\ o.loc = loc)
           /\ UNCHANGED <<syncs, svcObs, services>>
           /\ StoredInvalid(s, loc) \/ \E q, class : StoredValid(s, loc, q, class)
<1>1. /\ revisions \subseteq Revisions /\ SyncIds \subseteq Nat /\ CurrentPrograms(loc) \subseteq Revisions
      /\ instances \in [Locators -> [inst : 0 .. Generations, seen : 0 .. MaxTime]]
  BY CatalogueAssumption DEF TypeOK, CatalogueTypeOK, SyncIds, CurrentPrograms, Programs, Revision
<1> SUFFICES StoredInvalid(s, loc) \/ \E q, class : StoredValid(s, loc, q, class)
  BY DEF StoreProgram
<1>2. CASE <<s, loc>> \notin svcObs \/ ~valid
  BY <1>2 DEF StoreProgram, StoreInvalid, Observe, StoredInvalid, Observation
<1>3. CASE ~(<<s, loc>> \notin svcObs \/ ~valid) /\ instances[loc].inst = 0
  <2> DEFINE q == [loc |-> loc, inst |-> s, number |-> 1, content |-> content]
  <2>1. StoreNewProgram(s, loc, content)
    BY <1>3 DEF StoreProgram
  <2>2. StoredFirst(s, loc, q, "NEW_INSTANCE")
    BY <2>1, <1>3 DEF StoreNewProgram, StoredFirst, Observe, Observation
  <2>3. q \in [loc : {loc}, inst : Nat, number : Nat, content : Contents]
    BY <1>1
  <2>4. Successor(loc, q)
    BY <1>1, <1>3 DEF Successor, Reference, Revisions
  <2> QED
    BY <1>3, <2>2, <2>3, <2>4 DEF StoreProgram, StoredValid, Classes
<1>4. CASE ~(<<s, loc>> \notin svcObs \/ ~valid) /\ instances[loc].inst # 0
  <2>0. {"NEW_INSTANCE", "SAME_CONTENT", "AMBIGUOUS", "VERIFIED_SUCCESSOR"} \subseteq Classes \ {"INVALID"}
    BY DEF Classes
  <2>1. StoreKnown(s, loc, content)
    BY <1>4 DEF StoreProgram
  <2>2. CASE Reference(loc) = {}
    <3>1. FindOrStore(s, loc, content, "NEW_INSTANCE", "NEW_INSTANCE")
      BY <2>1, <2>2 DEF StoreKnown
    <3> QED
      BY <1>4, <2>0, <2>2, <3>1, FoundOrStored
  <2>3. CASE Reference(loc) # {}
    <3>1. PICK ref \in Reference(loc) : StoreAgainst(s, loc, content, ref)
      BY <2>1, <2>3 DEF StoreKnown
    <3>2. ref \in RevisionsOf(loc) /\ ref \in [loc : {loc}, inst : Nat, number : Nat, content : Contents]
      BY <1>1 DEF Reference, CurrentPrograms, Programs, Revision, RevisionsOf, Revisions
    <3>3. ASSUME NEW class \in Classes \ {"INVALID"}, StoreExisting(s, loc, ref, class)
          PROVE  StoredValid(s, loc, ref, class)
      <4>1. StoredExisting(s, loc, ref, class)
        BY <1>1, <1>4, <3>2, <3>3 DEF StoreExisting, StoredExisting, Touch, Observe, Observation
      <4> QED
        BY <1>4, <3>2, <4>1 DEF StoredValid, Successor
    <3>4. CASE StoreExisting(s, loc, ref, "SAME_CONTENT")
      BY <2>0, <3>3, <3>4
    <3>5. CASE StoreExisting(s, loc, ref, "AMBIGUOUS")
      BY <2>0, <3>3, <3>5
    <3>6. CASE /\ MirakurunSuccessor(ref.content, syncs[LatestCompleted].started, content, syncs[s].started)
               /\ FindOrStore(s, loc, content, "SAME_CONTENT", "VERIFIED_SUCCESSOR")
      <4>1. \A q : q.content = content => Within(ref.content, q.content)
        BY <3>6 DEF MirakurunSuccessor, Within
      <4> QED
        BY <1>4, <2>0, <3>6, <4>1, FoundOrStored
    <3> QED
      BY <3>1, <3>4, <3>5, <3>6 DEF StoreAgainst
  <2> QED
    BY <2>2, <2>3
<1> QED
  BY <1>2, <1>3, <1>4

-----------------------------------------------------------------------------
(* Steps by what they do to the catalogue.                                 *)

\* What leaves the catalogue alone: the rest of a pass, failures and users.
RefreshQuiet ==
    \/ PruneDone \/ ServicesEnd \/ ProgramsEnd \/ Validate \/ Publish
    \/ FollowPage \/ FollowRow \/ FollowPageEnd
    \/ PruneCut \/ SyncError \/ FollowError \/ Crash \/ NextPass

LEMMA NextSteps ==
    Next => \/ RefreshQuiet \/ Users
            \/ PruneBatch \/ Begin \/ ConsumeService \/ ConsumeProgram \/ Complete \/ Fail \/ Restart
BY DEF Next, Refresh, Faults, RefreshQuiet

LEMMA QuietSteps ==
    ASSUME RefreshQuiet \/ Users
    PROVE  UNCHANGED catalogueVars
<1>1. CASE RefreshQuiet
  BY ZenonT(60), <1>1 DEF RefreshQuiet, PruneDone, ServicesEnd, ProgramsEnd, Validate, Publish, FollowPage, FollowRow,
     FollowPageEnd, PruneCut, SyncError, FollowError, Crash, NextPass, catalogueVars
<1>2. CASE Users
  BY ZenonT(60), <1>2 DEF Users, AddBegins, RequestEnds, CreateReservation, ChangeFollow, Cancel, Claim, Close, Finish,
     catalogueVars
<1> QED
  BY SMTT(30), <1>1, <1>2

\* Users and their requests leave the refresh alone but for the mark of what they touched.
LEMMA UserSteps ==
    ASSUME TypeOK, Users
    PROVE  /\ UNCHANGED <<now, pc, holder>> /\ pc # "down"
           /\ \E touched \in SUBSET Numbers :
                 work.touched \subseteq touched /\ work' = [work EXCEPT !.touched = touched]
<1>1. work = [work EXCEPT !.touched = work.touched] /\ work.touched \in SUBSET Numbers
  BY DEF TypeOK, Passes
<1>2. CASE UNCHANGED work
  <2>1. UNCHANGED <<now, pc, holder>> /\ pc # "down"
    BY <1>2 DEF Users, AddBegins, RequestEnds, CreateReservation, ChangeFollow, Cancel, Claim, Close, Finish, Op, Up
  <2> QED
    BY SMTT(30), <1>1, <1>2, <2>1
<1>3. CASE \E n \in Numbers : ChangeFollow(n)
  <2>1. PICK n \in Numbers : ChangeFollow(n)
    BY <1>3
  <2>2. work.touched \cup {n} \in SUBSET Numbers
    BY <1>1
  <2> QED
    BY <2>1, <2>2 DEF ChangeFollow, Op, Up
<1>4. CASE CreateReservation
  <2>1. PICK n \in Numbers : work' = [work EXCEPT !.touched = @ \cup {n}]
    BY <1>4 DEF CreateReservation
  <2>2. work.touched \cup {n} \in SUBSET Numbers
    BY <1>1
  <2> QED
    BY <1>4, <2>1, <2>2 DEF CreateReservation, Up
<1> QED
  BY <1>2, <1>3, <1>4 DEF Users, AddBegins, RequestEnds, Cancel, Claim, Close, Finish

\* The constants that the types name.
LEMMA Constants ==
    /\ Generations \in Nat \ {0} /\ MaxTime \in Nat \ {0} /\ Kept \in Nat /\ Kept >= 2
    /\ IsFiniteSet(Locators) /\ Cardinality(Locators) \in Nat
    /\ IsFiniteSet(Numbers) /\ Numbers \subseteq Nat \ {0} /\ MaxPage \in Nat \ {0}
    /\ Contents \subseteq [start : Nat, dur : Nat] /\ Offers # {} /\ Configured \subseteq Locators
    /\ Offers \subseteq [svc : BOOLEAN, prog : {"none", "valid", "invalid"}, content : Contents]
    /\ MaxFaults \in Nat /\ MaxUserOps \in Nat /\ Retention \in Nat /\ MaxShift \in Nat
BY CatalogueAssumption, RefreshAssumption, FS_CardinalityType

LEMMA NoPassTyped == NoPass \in Passes
<1>1. (CHOOSE o \in Offers : TRUE) \in Offers
  BY Constants
<1> QED
  BY <1>1, Constants DEF NoPass, Passes

-----------------------------------------------------------------------------
(* Types.                                                                  *)

LEMMA SyncFinished ==
    ASSUME NEW row \in SyncRows, NEW state \in {"COMPLETED", "FAILED"}, NEW time \in 0 .. MaxTime
    PROVE  [row EXCEPT !.state = state, !.finished = time] =
              [state |-> state, started |-> row.started, finished |-> time]
<1> DEFINE a == [row EXCEPT !.state = state, !.finished = time]
           b == [state |-> state, started |-> row.started, finished |-> time]
<1>1. a \in SyncRows /\ b \in SyncRows
  BY DEF SyncRows
<1>2. a.state = b.state /\ a.started = b.started /\ a.finished = b.finished
  BY DEF SyncRows
<1> QED
  BY <1>1, <1>2 DEF SyncRows

LEMMA SyncsTyped ==
    ASSUME StoreInv, Begin \/ Complete \/ Fail \/ Restart
    PROVE  CatalogueTypeOK(MaxTime)'
<1>1. /\ TypeOK /\ syncs \in [SyncIds -> SyncRows] /\ now \in 1 .. MaxTime
      /\ \A s \in SyncIds : syncs[s].state \in {"COMPLETED", "FAILED"} <=> syncs[s].finished # 0
  BY SyncTypes DEF StoreInv, TypeOK, CatalogueTypeOK
<1>2. /\ UNCHANGED <<svcObs, progObs, services, instances, revisions>>
      /\ now' \in 1 .. MaxTime
  <2>1. CASE Restart
    <3>1. now' \in now .. MaxTime
      BY <2>1 DEF Restart
    <3>2. now' \in 1 .. MaxTime
      BY <1>1, <3>1, Constants
    <3> QED
      BY <2>1, <3>2 DEF Restart
  <2> QED
    BY <1>1, <2>1 DEF Begin, Complete, Fail
<1> SUFFICES /\ syncs' \in [SyncIds -> SyncRows]
             /\ \A s \in SyncIds : syncs'[s].state \in {"COMPLETED", "FAILED"} <=> syncs'[s].finished # 0
  BY <1>1, <1>2 DEF TypeOK, CatalogueTypeOK, SyncRows
<1>3. CASE Begin
  <2>1. PICK s \in SyncIds : BeginSync(s, now)
    BY <1>3 DEF Begin
  <2>2. [state |-> "RUNNING", started |-> now, finished |-> 0] \in SyncRows
    BY <1>1, Constants DEF SyncRows
  <2> QED
    BY <1>1, <2>1, <2>2 DEF BeginSync
<1>4. ASSUME NEW s, NEW state \in {"COMPLETED", "FAILED"}, FinishSync(s, state, now)
      PROVE  /\ syncs' \in [SyncIds -> SyncRows]
             /\ \A q \in SyncIds : syncs'[q].state \in {"COMPLETED", "FAILED"} <=> syncs'[q].finished # 0
  <2>0. now \in 0 .. MaxTime /\ now # 0
    BY <1>1, Constants
  <2>1. \A q \in SyncIds : syncs'[q] =
           IF q = s THEN [state |-> state, started |-> syncs[q].started, finished |-> now] ELSE syncs[q]
    <3>1. \A q \in SyncIds : syncs'[q] =
             IF q = s THEN [syncs[q] EXCEPT !.state = state, !.finished = now] ELSE syncs[q]
      BY <1>1, <1>4 DEF FinishSync, SyncRows
    <3>2. \A q \in SyncIds : [syncs[q] EXCEPT !.state = state, !.finished = now] =
                                [state |-> state, started |-> syncs[q].started, finished |-> now]
      BY ZenonT(60), <1>1, <2>0, SyncFinished
    <3> QED
      BY <3>1, <3>2
  <2>2. \A q \in SyncIds : syncs'[q] \in SyncRows
    <3>1. \A q \in SyncIds : [state |-> state, started |-> syncs[q].started, finished |-> now] \in SyncRows
      BY <1>1, <2>0 DEF SyncRows
    <3> QED
      BY <1>1, <2>1, <3>1
  <2>3. syncs' \in [SyncIds -> SyncRows]
    BY <1>1, <1>4, <2>2 DEF FinishSync
  <2> QED
    BY <1>1, <2>0, <2>1, <2>3
<1>5. CASE Complete
  BY <1>4, <1>5 DEF Complete, CompleteSync
<1>6. CASE Fail
  BY <1>1, <1>4, <1>6 DEF Fail, FailSync
<1>7. CASE Restart
  <2>0. now' \in 0 .. MaxTime /\ now' # 0
    BY <1>2, Constants
  <2>1. syncs' = [s \in SyncIds |-> IF s \in Running
                                    THEN [syncs[s] EXCEPT !.state = "FAILED", !.finished = now']
                                    ELSE syncs[s]]
    BY <1>7 DEF Restart, ReconcileRunningSyncs
  <2>2. syncs' = [s \in SyncIds |-> IF s \in Running
                                    THEN [state |-> "FAILED", started |-> syncs[s].started, finished |-> now']
                                    ELSE syncs[s]]
    BY <1>1, <2>0, <2>1, SyncFinished
  <2>3. \A s \in SyncIds :
           [state |-> "FAILED", started |-> syncs[s].started, finished |-> now'] \in SyncRows
    BY <1>1, <2>0 DEF SyncRows
  <2> QED
    BY <1>1, <2>0, <2>2, <2>3
<1> QED
  BY <1>3, <1>5, <1>6, <1>7

LEMMA PruneTyped ==
    ASSUME TypeOK, PruneBatch
    PROVE  CatalogueTypeOK(MaxTime)'
<1>1. PruneShape
  BY PruneChanges
<1>2. progObs' \subseteq progObs /\ svcObs' \subseteq svcObs /\ revisions' \subseteq revisions
  BY <1>1 DEF PruneShape, ObservationsPruned, ServiceObservationsPruned, RevisionsPruned
<1>3. /\ syncs' \in [SyncIds -> SyncRows]
      /\ \A s \in SyncIds : syncs'[s].state \in {"COMPLETED", "FAILED"} <=> syncs'[s].finished # 0
  <2>1. PICK b \in SUBSET Unprotected :
           syncs' = [s \in SyncIds |-> IF s \in b THEN [NoSync EXCEPT !.state = "pruned"] ELSE syncs[s]]
    BY <1>1 DEF PruneShape, SyncsPruned
  <2>2. [NoSync EXCEPT !.state = "pruned"] = [state |-> "pruned", started |-> 0, finished |-> 0]
    BY DEF NoSync
  <2>3. [NoSync EXCEPT !.state = "pruned"] \in SyncRows
    BY <2>2, Constants DEF SyncRows
  <2> QED
    BY <2>1, <2>2, <2>3, SyncTypes DEF TypeOK, CatalogueTypeOK
<1>4. instances' \in [Locators -> [inst : 0 .. Generations, seen : 0 .. MaxTime]]
  <2>1. PICK b \in SUBSET Locators :
           instances' = [loc \in Locators |-> IF loc \in b THEN [inst |-> 0, seen |-> 0] ELSE instances[loc]]
    BY <1>1 DEF PruneShape, InstancesPruned
  <2> QED
    BY <2>1, Constants DEF TypeOK, CatalogueTypeOK
<1>5. services' \in [Locators -> 0 .. MaxTime]
  <2>1. PICK b \in SUBSET Locators :
           services' = [loc \in Locators |-> IF loc \in b THEN 0 ELSE services[loc]]
    BY <1>1 DEF PruneShape, ServicesPruned
  <2> QED
    BY <2>1, Constants DEF TypeOK, CatalogueTypeOK
<1> QED
  BY <1>2, <1>3, <1>4, <1>5 DEF TypeOK, CatalogueTypeOK, SyncRows

LEMMA ServiceTyped ==
    ASSUME TypeOK, ConsumeService
    PROVE  CatalogueTypeOK(MaxTime)'
<1>1. PICK loc \in work.left : StoreService(work.sync, loc)
  BY DEF ConsumeService
<1>2. loc \in Locators /\ work.sync \in SyncIds /\ syncs[work.sync].started \in 0 .. MaxTime
  BY <1>1, SyncTypes DEF TypeOK, Passes, StoreService, Running, SyncRows
<1> QED
  BY <1>1, <1>2 DEF TypeOK, CatalogueTypeOK, StoreService

\* The number of a new revision, which no revision of the locator has: it is at
\* most the number of synchronisations begun.
LEMMA NextIsFresh ==
    ASSUME StoreInv, pc = "programs", NEW loc \in work.left
    PROVE  /\ NextNumber(loc) \in 1 .. work.sync
           /\ \A r \in RevisionsOf(loc) : r.number < NextNumber(loc)
           /\ work.sync \in SyncIds
<1> DEFINE numbers == {0} \cup {r.number : r \in RevisionsOf(loc)}
<1>1. work.sync \in SyncIds /\ work.sync \in Nat \ {0}
  BY Constants DEF StoreInv, TypeOK, Passes, WalkIsLast, Walking, SyncIds
<1>2. \A r \in RevisionsOf(loc) : r.number \in Nat /\ r.number < work.sync
  BY Constants DEF StoreInv, TypeOK, CatalogueTypeOK, RevisionsOf, ProgramsWalked, Revisions
<1>3. numbers \in SUBSET (0 .. work.sync - 1) /\ numbers # {} /\ work.sync - 1 \in Nat
  BY <1>1, <1>2
<1>4. Max(numbers) \in numbers /\ \A m \in numbers : Max(numbers) >= m
  <2> HIDE DEF numbers
  <2> QED
    BY <1>3, MaxBounds
<1>5. NextNumber(loc) = Max(numbers) + 1
  BY DEF NextNumber
<1>6. Max(numbers) \in 0 .. work.sync - 1
  BY <1>3, <1>4
<1>7. \A r \in RevisionsOf(loc) : r.number \in numbers
  OBVIOUS
<1> HIDE DEF numbers
<1> QED
  BY <1>1, <1>2, <1>4, <1>5, <1>6, <1>7

\* One programme of the walk, by what it stores.
LEMMA WalkStores ==
    ASSUME StoreInv, ConsumeProgram
    PROVE  \E loc \in work.left :
              /\ loc \in Locators /\ work.sync \in SyncIds /\ work.sync \in Running /\ pc = "programs"
              /\ work.offer[loc].prog # "none"
              /\ ~(\E o \in progObs : o.sync = work.sync /\ o.loc = loc)
              /\ UNCHANGED <<syncs, svcObs, services, resv, now, pc, holder, request, told, budget>>
              /\ work' = [work EXCEPT !.left = @ \ {loc}, !.count = @ + 1]
              /\ \/ StoredInvalid(work.sync, loc)
                 \/ \E q, class : StoredValid(work.sync, loc, q, class)
<1>1. PICK loc \in work.left :
         /\ work.offer[loc].prog # "none"
         /\ StoreProgram(work.sync, loc, work.offer[loc].prog = "valid", work.offer[loc].content)
         /\ work' = [work EXCEPT !.left = @ \ {loc}, !.count = @ + 1]
  BY DEF ConsumeProgram
<1>2. /\ TypeOK /\ loc \in Locators /\ work.sync \in SyncIds /\ pc = "programs"
      /\ work.offer[loc] \in Offers
  BY NextIsFresh DEF StoreInv, TypeOK, Passes, ConsumeProgram
<1>3. (work.offer[loc].prog = "valid") \in BOOLEAN /\ work.offer[loc].content \in Contents
  BY <1>2, Constants
<1>4. /\ work.sync \in Running /\ ~(\E o \in progObs : o.sync = work.sync /\ o.loc = loc)
      /\ UNCHANGED <<syncs, svcObs, services>>
      /\ StoredInvalid(work.sync, loc) \/ \E q, class : StoredValid(work.sync, loc, q, class)
  BY <1>1, <1>2, <1>3, ProgramStored
<1> QED
  BY <1>1, <1>2, <1>4 DEF ConsumeProgram

\* What is stored for a valid programme, without the tables' values.
LEMMA StoredRevision ==
    ASSUME StoreInv, pc = "programs", NEW loc \in work.left, NEW q, NEW class,
           StoredValid(work.sync, loc, q, class)
    PROVE  /\ q \in Revisions /\ q.loc = loc /\ q.number \in 1 .. work.sync /\ class \in Classes \ {"INVALID"}
           /\ progObs' = progObs \cup {Observation(work.sync, loc, q.inst, q.number, class)}
           /\ instances' = [instances EXCEPT ![loc] = [inst |-> q.inst, seen |-> syncs[work.sync].started]]
           /\ \/ q \in RevisionsOf(loc) /\ revisions' = revisions /\ instances[loc].inst = q.inst
              \/ /\ revisions' = revisions \cup {q} /\ instances[loc].inst \in {0, q.inst}
                 /\ \A r \in revisions : r.loc = loc => r.inst = q.inst /\ r.number < q.number
<1>1. /\ loc \in Locators /\ work.sync \in SyncIds /\ work.sync \in 1 .. Generations
      /\ instances[loc] \in [inst : 0 .. Generations, seen : 0 .. MaxTime]
      /\ instances \in [Locators -> [inst : 0 .. Generations, seen : 0 .. MaxTime]]
      /\ revisions \subseteq Revisions
      /\ \A r \in revisions : r.loc = loc => r.inst = instances[loc].inst /\ r.inst # 0
      /\ \A r \in RevisionsOf(loc) : r \in revisions /\ r.loc = loc /\ r.inst = instances[loc].inst
      /\ \A r \in RevisionsOf(loc) : r.number < work.sync
  <2>1. /\ loc \in Locators /\ work.sync \in SyncIds /\ revisions \subseteq Revisions
        /\ instances \in [Locators -> [inst : 0 .. Generations, seen : 0 .. MaxTime]]
    BY NextIsFresh DEF StoreInv, TypeOK, CatalogueTypeOK, Passes
  <2>2. work.sync \in 1 .. Generations /\ instances[loc] \in [inst : 0 .. Generations, seen : 0 .. MaxTime]
    BY <2>1 DEF SyncIds
  <2>3. \A r \in revisions : r.loc = loc => r.inst = instances[loc].inst /\ r.inst # 0
    BY <2>1 DEF StoreInv, RefsExist, Revisions
  <2>4. \A r \in RevisionsOf(loc) : r \in revisions /\ r.loc = loc /\ r.inst = instances[loc].inst
    BY DEF RevisionsOf
  <2>5. \A r \in RevisionsOf(loc) : r.number < work.sync
    BY DEF RevisionsOf, StoreInv, ProgramsWalked
  <2> QED
    BY <2>1, <2>2, <2>3, <2>4, <2>5
<1>2. class \in Classes \ {"INVALID"} /\ q \in [loc : {loc}, inst : Nat, number : Nat, content : Contents]
  BY DEF StoredValid
<1>3. [instances EXCEPT ![loc].seen = syncs[work.sync].started] =
         [instances EXCEPT ![loc] = [inst |-> instances[loc].inst, seen |-> syncs[work.sync].started]]
  <2> DEFINE a == [instances[loc] EXCEPT !.seen = syncs[work.sync].started]
             b == [inst |-> instances[loc].inst, seen |-> syncs[work.sync].started]
  <2>1. syncs[work.sync].started \in 0 .. MaxTime
    BY <1>1, SyncTypes DEF StoreInv, SyncRows
  <2>2. a \in [inst : 0 .. Generations, seen : 0 .. MaxTime] /\ b \in [inst : 0 .. Generations, seen : 0 .. MaxTime]
    BY <1>1, <2>1
  <2>3. a.inst = b.inst /\ a.seen = b.seen
    BY <1>1
  <2>4. a = b
    BY <2>2, <2>3
  <2> QED
    BY <1>1, <2>4
<1>4. CASE StoredExisting(work.sync, loc, q, class)
  <2>1. q \in RevisionsOf(loc) /\ q \in Revisions /\ q.loc = loc /\ q.inst = instances[loc].inst
        /\ q.number < work.sync
    BY <1>1, <1>4 DEF StoredExisting
  <2>2. q.number \in 1 .. work.sync
    BY <1>1, <2>1, Constants DEF Revisions
  <2> QED
    BY <1>2, <1>3, <1>4, <2>1, <2>2 DEF StoredExisting
<1>5. CASE StoredFirst(work.sync, loc, q, class)
  <2>1. \A r \in revisions : r.loc # loc
    BY <1>1, <1>5 DEF StoredFirst
  <2>2. q.inst \in 1 .. Generations /\ q.number \in 1 .. work.sync /\ q.number \in 1 .. Generations
    BY <1>1, <1>5, Constants DEF StoredFirst
  <2>3. q \in Revisions
    BY <1>1, <1>2, <2>2 DEF Revisions
  <2> QED
    BY <1>2, <1>5, <2>1, <2>2, <2>3 DEF StoredFirst
<1>6. CASE StoredNext(work.sync, loc, q, class)
  <2>1. q.number \in 1 .. work.sync /\ q.number \in 1 .. Generations /\ q.inst \in 1 .. Generations
    BY <1>1, <1>6, NextIsFresh, Constants DEF StoredNext
  <2>2. \A r \in revisions : r.loc = loc => r.inst = q.inst /\ r.number < q.number
    BY <1>1, <1>6, NextIsFresh DEF StoredNext, RevisionsOf
  <2>3. q \in Revisions /\ q.loc = loc
    BY <1>1, <1>2, <2>1 DEF Revisions
  <2> QED
    BY <1>2, <1>3, <1>6, <2>1, <2>2, <2>3 DEF StoredNext
<1> QED
  BY <1>4, <1>5, <1>6 DEF StoredValid

LEMMA ProgramTyped ==
    ASSUME StoreInv, ConsumeProgram
    PROVE  CatalogueTypeOK(MaxTime)'
<1>1. PICK loc \in work.left :
         /\ loc \in Locators /\ work.sync \in SyncIds /\ work.sync \in Running /\ pc = "programs"
         /\ UNCHANGED <<syncs, svcObs, services>>
         /\ \/ StoredInvalid(work.sync, loc)
            \/ \E q, class : StoredValid(work.sync, loc, q, class)
  BY WalkStores
<1>2. /\ TypeOK /\ Generations \in Nat /\ MaxTime \in Nat /\ work.sync \in 0 .. Generations
      /\ syncs[work.sync].started \in 0 .. MaxTime
  BY <1>1, Constants, SyncTypes DEF StoreInv, TypeOK, Passes, SyncRows
<1>3. CASE StoredInvalid(work.sync, loc)
  <2>1. Observation(work.sync, loc, 0, 0, "INVALID") \in
           [sync : SyncIds, loc : Locators, inst : 0 .. Generations, number : 0 .. Generations, class : Classes]
    BY <1>1, <1>2 DEF Observation, Classes
  <2> QED
    BY <1>1, <1>2, <1>3, <2>1 DEF StoredInvalid, TypeOK, CatalogueTypeOK
<1>4. ASSUME NEW q, NEW class, StoredValid(work.sync, loc, q, class)
      PROVE  CatalogueTypeOK(MaxTime)'
  <2>1. /\ q \in Revisions /\ class \in Classes \ {"INVALID"}
        /\ progObs' = progObs \cup {Observation(work.sync, loc, q.inst, q.number, class)}
        /\ instances' = [instances EXCEPT ![loc] = [inst |-> q.inst, seen |-> syncs[work.sync].started]]
        /\ revisions' \subseteq revisions \cup {q}
    BY <1>1, <1>4, StoredRevision
  <2>2. q.inst \in 0 .. Generations /\ q.number \in 0 .. Generations
    BY <1>2, <2>1 DEF Revisions
  <2>3. Observation(work.sync, loc, q.inst, q.number, class) \in
           [sync : SyncIds, loc : Locators, inst : 0 .. Generations, number : 0 .. Generations, class : Classes]
    BY <1>1, <2>1, <2>2 DEF Observation
  <2>4. [inst |-> q.inst, seen |-> syncs[work.sync].started] \in [inst : 0 .. Generations, seen : 0 .. MaxTime]
    BY <1>2, <2>2
  <2> QED
    BY <1>1, <1>2, <2>1, <2>3, <2>4 DEF TypeOK, CatalogueTypeOK
<1> QED
  BY <1>1, <1>3, <1>4

LEMMA CatalogueTyped ==
    ASSUME StoreInv, Next
    PROVE  CatalogueTypeOK(MaxTime)'
<1>1. TypeOK /\ CatalogueTypeOK(MaxTime)
  BY DEF StoreInv, TypeOK
<1>2. CASE RefreshQuiet \/ Users
  <2>1. UNCHANGED catalogueVars
    BY <1>2, QuietSteps
  <2> QED
    BY <1>1, <2>1 DEF CatalogueTypeOK, catalogueVars
<1> QED
  BY <1>1, <1>2, NextSteps, PruneTyped, ServiceTyped, ProgramTyped, SyncsTyped

\* The reservations' rows, field by field.
LEMMA RowFields ==
    ASSUME NEW row \in ResvRows
    PROVE  /\ row.start \in Nat /\ row.dur \in Nat /\ row.version \in Nat /\ row.attStart \in Nat
           /\ row.number \in 0 .. Generations /\ row.inst \in 0 .. Generations
           /\ row.follow \in BOOLEAN /\ row.loc \in Locators \cup {0}
BY DEF ResvRows

LEMMA FitsIs ==
    ASSUME NEW start \in Nat, NEW dur \in Nat, NEW attStart \in Nat
    PROVE  /\ Fits(start, dur, attStart) = IF start + dur >= attStart + 1 THEN start + dur ELSE attStart + 1
           /\ Fits(start, dur, attStart) \in Nat
<1>1. start + dur \in Nat /\ attStart + 1 \in Nat
  OBVIOUS
<1> QED
  BY <1>1, MaxOfTwo DEF Fits

LEMMA TargetTyped ==
    ASSUME TypeOK, NEW row, NEW r \in Target(row)
    PROVE  /\ r \in Revisions /\ r \in revisions /\ r.number \in 1 .. Generations
           /\ r.content.start \in Nat /\ r.content.dur \in Nat
           /\ r.loc = row.loc /\ r.inst = row.inst /\ r.content.dur >= 1
<1>1. r \in revisions /\ r.loc = row.loc /\ r.inst = row.inst /\ r.content.dur >= 1
  BY DEF Target, CurrentPrograms, Programs, Revision
<1>2. r \in Revisions
  BY <1>1 DEF TypeOK, CatalogueTypeOK
<1> QED
  BY <1>1, <1>2, Constants DEF Revisions

LEMMA MovedTyped ==
    ASSUME TypeOK, NEW row \in ResvRows, NEW r, r.number \in 1 .. Generations,
           r.content.start \in Nat, r.content.dur \in Nat
    PROVE  MovedRow(row, r) \in ResvRows /\ MovedWithEnd(row, r) \in ResvRows
<1>1. r.number \in 0 .. Generations /\ row.version + 1 \in Nat /\ row.attStart \in Nat
  BY RowFields, Constants
<1>2. MovedRow(row, r) \in ResvRows
  BY <1>1 DEF MovedRow, ResvRows
<1>3. Fits(r.content.start, r.content.dur, row.attStart) \in Nat
  BY <1>1, FitsIs
<1> QED
  BY <1>2, <1>3 DEF MovedWithEnd, ResvRows

LEMMA FollowTyped ==
    ASSUME TypeOK, FollowRow
    PROVE  resv' \in [Numbers -> ResvRows]
<1>1. resv \in [Numbers -> ResvRows]
  BY DEF TypeOK
<1>2. PICK p \in work.page :
         IF p.row.follow /\ \E r \in Target(p.row) : Moves(p.row, r)
         THEN \E r \in Target(p.row) : ApplyReservationFollow(p.n, p.row, r)
         ELSE UNCHANGED resv
  BY DEF FollowRow
<1>3. CASE UNCHANGED resv
  BY <1>1, <1>3
<1>4. ASSUME NEW r \in Target(p.row), ApplyReservationFollow(p.n, p.row, r), resv' # resv
      PROVE  resv' \in [Numbers -> ResvRows]
  <2>1. p.n \in Numbers /\ resv[p.n] \in ResvRows
    BY <1>1 DEF TypeOK, Passes
  <2>2. resv' = [resv EXCEPT ![p.n] = IF resv[p.n].attempt = "none"
                                      THEN MovedRow(resv[p.n], r) ELSE MovedWithEnd(resv[p.n], r)]
    BY <1>4 DEF ApplyReservationFollow
  <2>3. MovedRow(resv[p.n], r) \in ResvRows /\ MovedWithEnd(resv[p.n], r) \in ResvRows
    BY <2>1, TargetTyped, MovedTyped
  <2> QED
    BY <1>1, <2>2, <2>3
<1> QED
  BY <1>2, <1>3, <1>4

\* Who changes what beside the catalogue.
LEMMA PassFrames ==
    ASSUME Next, ~Users
    PROVE  /\ FollowRow \/ UNCHANGED resv
           /\ told' \in {told, Starts}
           /\ NextPass \/ UNCHANGED request \/ (pc' = "down" /\ request' = NoRequest)
           /\ NextPass \/ Restart \/ UNCHANGED now
           /\ \/ UNCHANGED holder
              \/ pc = "publish" /\ holder' = work.sync
              \/ holder' = LatestCompleted
           /\ Fault \/ UNCHANGED budget
<1> USE DEF Fault
<1>1. CASE PruneBatch \/ PruneDone \/ PruneCut
  BY <1>1 DEF PruneBatch, PruneDone, PruneCut
<1>2. CASE Begin
  BY <1>2 DEF Begin
<1>3. CASE ConsumeService \/ ServicesEnd
  BY <1>3 DEF ConsumeService, ServicesEnd
<1>4. CASE ConsumeProgram \/ ProgramsEnd
  BY <1>4 DEF ConsumeProgram, ProgramsEnd
<1>5. CASE Validate \/ Complete \/ Publish
  BY <1>5 DEF Validate, Complete, Publish
<1>6. CASE SyncError \/ Fail
  BY <1>6 DEF SyncError, Fail
<1>7. CASE FollowPage \/ FollowRow \/ FollowError
  BY <1>7 DEF FollowPage, FollowRow, FollowError
<1>8. CASE FollowPageEnd
  BY <1>8 DEF FollowPageEnd, ToldOfAll
<1>9. CASE NextPass \/ Crash
  BY <1>9 DEF NextPass, Crash
<1>10. CASE Restart
  BY <1>10 DEF Restart
<1> QED
  BY <1>1, <1>2, <1>3, <1>4, <1>5, <1>6, <1>7, <1>8, <1>9, <1>10, NextSteps DEF RefreshQuiet

LEMMA UserFrames ==
    ASSUME Users
    PROVE  /\ UNCHANGED <<now, pc, holder>>
           /\ Op \/ UNCHANGED budget
           /\ AddBegins \/ request' \in {request, NoRequest}
           /\ CreateReservation \/ told' \in {told, Starts}
           /\ \/ CreateReservation
              \/ \E n \in Numbers : ChangeFollow(n) \/ Cancel(n) \/ Claim(n) \/ Close(n) \/ Finish(n)
              \/ UNCHANGED resv
<1>1. CASE AddBegins
  BY <1>1 DEF AddBegins
<1>2. CASE RequestEnds
  BY <1>2 DEF RequestEnds
<1>3. CASE CreateReservation
  BY <1>3 DEF CreateReservation
<1>4. ASSUME NEW n \in Numbers, ChangeFollow(n) \/ Cancel(n) \/ Claim(n) \/ Close(n) \/ Finish(n)
      PROVE  UNCHANGED <<now, pc, holder, request>> /\ (Op \/ UNCHANGED budget) /\ told' \in {told, Starts}
  BY <1>4 DEF ChangeFollow, Cancel, Claim, Close, Finish
<1> QED
  BY <1>1, <1>2, <1>3, <1>4 DEF Users

\* A user's operation on a reservation: the row it leaves.
LEMMA UserRows ==
    ASSUME TypeOK, NEW n \in Numbers, ChangeFollow(n) \/ Cancel(n) \/ Claim(n) \/ Close(n) \/ Finish(n)
    PROVE  \E row \in ResvRows :
              /\ resv' = [resv EXCEPT ![n] = row] /\ resv[n].state = "ACTIVE"
              /\ row.loc = resv[n].loc /\ row.inst = resv[n].inst /\ row.number = resv[n].number
              /\ row.start = resv[n].start /\ row.dur = resv[n].dur
              /\ \/ /\ row.state = "ACTIVE" /\ row.attempt = "none" /\ resv[n].attempt = "none"
                    /\ work' = [work EXCEPT !.touched = @ \cup {n}]
                 \/ row.state = "FINISHED" /\ UNCHANGED work
                 \/ /\ row.state = "ACTIVE" /\ row.attempt = "open" /\ UNCHANGED work
                    /\ row.attStart = row.start /\ row.attEnd = row.start + row.dur
                 \/ row.state = "ACTIVE" /\ row.attempt = "closing" /\ UNCHANGED work
<1>1. resv \in [Numbers -> ResvRows] /\ resv[n] \in ResvRows
  BY DEF TypeOK
<1>2. resv[n].version + 1 \in Nat /\ resv[n].start + resv[n].dur \in Nat /\ resv[n].start \in Nat
  BY <1>1, RowFields
<1>3. CASE ChangeFollow(n)
  <2> DEFINE row == [resv[n] EXCEPT !.follow = ~resv[n].follow, !.version = resv[n].version + 1]
  <2>1. row \in ResvRows
    BY <1>1, <1>2 DEF ResvRows
  <2>2. resv' = [resv EXCEPT ![n] = row]
    BY <1>1, <1>3 DEF ChangeFollow
  <2>3. /\ row.loc = resv[n].loc /\ row.inst = resv[n].inst /\ row.number = resv[n].number
        /\ row.start = resv[n].start /\ row.dur = resv[n].dur
        /\ row.state = resv[n].state /\ row.attempt = resv[n].attempt
    BY <1>1 DEF ResvRows
  <2> HIDE DEF row
  <2> QED
    BY <1>3, <2>1, <2>2, <2>3 DEF ChangeFollow, Active
<1>4. CASE Cancel(n)
  <2> DEFINE row == [resv[n] EXCEPT !.state = "FINISHED", !.version = resv[n].version + 1]
  <2>1. row \in ResvRows
    BY <1>1, <1>2 DEF ResvRows
  <2>2. resv' = [resv EXCEPT ![n] = row]
    BY <1>1, <1>4 DEF Cancel
  <2>3. /\ row.loc = resv[n].loc /\ row.inst = resv[n].inst /\ row.number = resv[n].number
        /\ row.start = resv[n].start /\ row.dur = resv[n].dur /\ row.state = "FINISHED"
    BY <1>1 DEF ResvRows
  <2> HIDE DEF row
  <2> QED
    BY <1>4, <2>1, <2>2, <2>3 DEF Cancel, Active
<1>5. CASE Claim(n)
  <2> DEFINE row == [resv[n] EXCEPT !.attempt = "open", !.attStart = resv[n].start,
                                    !.attEnd = resv[n].start + resv[n].dur]
  <2>1. row \in ResvRows
    BY <1>1, <1>2 DEF ResvRows
  <2>2. resv' = [resv EXCEPT ![n] = row]
    BY <1>1, <1>5 DEF Claim
  <2>3. /\ row.loc = resv[n].loc /\ row.inst = resv[n].inst /\ row.number = resv[n].number
        /\ row.start = resv[n].start /\ row.dur = resv[n].dur /\ row.state = resv[n].state
        /\ row.attempt = "open" /\ row.attStart = resv[n].start /\ row.attEnd = resv[n].start + resv[n].dur
    BY <1>1 DEF ResvRows
  <2> HIDE DEF row
  <2> QED
    BY <1>5, <2>1, <2>2, <2>3 DEF Claim, Active
<1>6. CASE Close(n)
  <2> DEFINE row == [resv[n] EXCEPT !.attempt = "closing"]
  <2>1. row \in ResvRows
    BY <1>1 DEF ResvRows
  <2>2. resv' = [resv EXCEPT ![n] = row]
    BY <1>1, <1>6 DEF Close
  <2>3. /\ row.loc = resv[n].loc /\ row.inst = resv[n].inst /\ row.number = resv[n].number
        /\ row.start = resv[n].start /\ row.dur = resv[n].dur
        /\ row.state = resv[n].state /\ row.attempt = "closing"
    BY <1>1 DEF ResvRows
  <2> HIDE DEF row
  <2> QED
    BY <1>6, <2>1, <2>2, <2>3 DEF Close, Active
<1>7. CASE Finish(n)
  <2> DEFINE row == [resv[n] EXCEPT !.attempt = "ended", !.state = "FINISHED", !.version = resv[n].version + 1]
  <2>1. row \in ResvRows
    BY <1>1, <1>2 DEF ResvRows
  <2>2. resv' = [resv EXCEPT ![n] = row]
    BY <1>1, <1>7 DEF Finish
  <2>3. /\ row.loc = resv[n].loc /\ row.inst = resv[n].inst /\ row.number = resv[n].number
        /\ row.start = resv[n].start /\ row.dur = resv[n].dur /\ row.state = "FINISHED"
    BY <1>1 DEF ResvRows
  <2> HIDE DEF row
  <2> QED
    BY <1>7, <2>1, <2>2, <2>3 DEF Finish, Active
<1> QED
  BY <1>3, <1>4, <1>5, <1>6, <1>7

LEMMA Created ==
    ASSUME TypeOK, CreateReservation
    PROVE  \E r \in request.found, n \in Numbers, follow \in BOOLEAN :
              /\ ~\E m \in Active : resv[m].loc = r.loc
              /\ resv[n].state = "absent" /\ resv' = [resv EXCEPT ![n] = NewResv(r, follow)]
              /\ NewResv(r, follow) \in ResvRows
              /\ told' = [Starts EXCEPT ![n] = r.content.start] /\ r.content.start \in Nat
              /\ work' = [work EXCEPT !.touched = @ \cup {n}]
<1>1. PICK r \in request.found, n \in Numbers, follow \in BOOLEAN :
         /\ ~\E m \in Active : resv[m].loc = r.loc
         /\ (resv[n].state = "absent") <=> n >= n
         /\ resv' = [resv EXCEPT ![n] = NewResv(r, follow)]
         /\ told' = [Starts EXCEPT ![n] = r.content.start]
         /\ work' = [work EXCEPT !.touched = @ \cup {n}]
  BY DEF CreateReservation
<1>2. /\ r.loc \in Locators /\ r.inst \in 0 .. Generations /\ r.number \in 0 .. Generations
      /\ r.content.start \in Nat /\ r.content.dur \in Nat
  BY Constants DEF Revisions, TypeOK
<1>3. NewResv(r, follow) \in ResvRows
  BY <1>2 DEF ResvRows, NewResv
<1>9. n >= n
  BY Constants
<1> QED
  BY <1>1, <1>2, <1>3, <1>9

LEMMA ResvTyped ==
    ASSUME TypeOK, Next
    PROVE  resv' \in [Numbers -> ResvRows]
<1>1. resv \in [Numbers -> ResvRows]
  BY DEF TypeOK
<1>2. CASE FollowRow
  BY <1>2, FollowTyped
<1>3. CASE CreateReservation
  BY <1>1, <1>3, Created
<1>4. ASSUME NEW n \in Numbers, ChangeFollow(n) \/ Cancel(n) \/ Claim(n) \/ Close(n) \/ Finish(n)
      PROVE  resv' \in [Numbers -> ResvRows]
  BY <1>1, <1>4, UserRows
<1>5. CASE UNCHANGED resv
  BY <1>1, <1>5
<1>6. Next => \/ FollowRow \/ CreateReservation \/ UNCHANGED resv
              \/ \E n \in Numbers : ChangeFollow(n) \/ Cancel(n) \/ Claim(n) \/ Close(n) \/ Finish(n)
  BY PassFrames, UserFrames
<1> QED
  BY <1>2, <1>3, <1>4, <1>5, <1>6

\* The scheduler reads the starts as they are before or after the step.
LEMMA ToldTyped ==
    ASSUME TypeOK, Next
    PROVE  told' \in [Numbers -> Nat]
<1>1. told \in [Numbers -> Nat] /\ Starts \in [Numbers -> Nat]
  BY RowFields DEF TypeOK, Starts
<1>2. CASE CreateReservation
  <2>1. PICK r \in request.found, n \in Numbers : told' = [Starts EXCEPT ![n] = r.content.start]
    BY <1>2 DEF CreateReservation
  <2>2. r \in Revisions
    BY DEF TypeOK
  <2>3. r.content.start \in Nat
    BY <2>2, Constants DEF Revisions
  <2> QED
    BY <1>1, <2>1, <2>3
<1>3. Next => CreateReservation \/ told' \in {told, Starts}
  BY PassFrames, UserFrames
<1> QED
  BY <1>1, <1>2, <1>3

LEMMA RequestTyped ==
    ASSUME TypeOK, Next
    PROVE  request' \in [gen : 0 .. Generations, crossed : {0, 1}, found : SUBSET Revisions]
<1>1. /\ request \in [gen : 0 .. Generations, crossed : {0, 1}, found : SUBSET Revisions]
      /\ NoRequest \in [gen : 0 .. Generations, crossed : {0, 1}, found : SUBSET Revisions]
      /\ holder \in 0 .. Generations
  BY Constants DEF TypeOK, NoRequest, SyncIds
<1>2. CASE AddBegins
  <2>1. PICK loc \in Configured : \E r \in Programs(holder, loc) :
           request' = [NoRequest EXCEPT !.gen = holder, !.found = {r}]
    BY <1>2 DEF AddBegins
  <2>3. PICK r \in Programs(holder, loc) : request' = [NoRequest EXCEPT !.gen = holder, !.found = {r}]
    BY <2>1
  <2>2. r \in Revisions
    BY DEF Programs, Revision, TypeOK, CatalogueTypeOK
  <2> QED
    BY <1>1, <2>3, <2>2 DEF NoRequest
<1>3. CASE NextPass
  BY <1>1, <1>3 DEF NextPass
<1>4. Next => AddBegins \/ NextPass \/ request' \in {request, NoRequest}
  BY PassFrames, UserFrames
<1> QED
  BY <1>1, <1>2, <1>3, <1>4

LEMMA ControlTyped ==
    ASSUME TypeOK, HolderIsLatest, Next
    PROVE  /\ now' \in 1 .. MaxTime /\ pc' \in Steps /\ holder' \in SyncIds
           /\ budget' \in [faults : 0 .. MaxFaults, ops : 0 .. MaxUserOps]
<1>1. /\ now \in 1 .. MaxTime /\ pc \in Steps /\ holder \in SyncIds /\ MaxTime \in Nat
      /\ budget \in [faults : 0 .. MaxFaults, ops : 0 .. MaxUserOps]
      /\ LatestCompleted \in SyncIds
      /\ pc = "publish" => work.sync \in SyncIds
  BY Constants DEF TypeOK, HolderIsLatest, Completed
<1>2. now' \in 1 .. MaxTime
  <2>1. Next => \/ UNCHANGED now
                \/ now < MaxTime /\ now' = now + 1
                \/ now' \in now .. MaxTime
    BY PassFrames, UserFrames DEF NextPass, Restart
  <2> QED
    BY <1>1, <2>1
<1>3. pc' \in Steps
  <2> USE DEF Steps
  <2>1. CASE RefreshQuiet
    BY <1>1, <2>1 DEF RefreshQuiet, StartPass, NextPage, PruneDone, ServicesEnd, ProgramsEnd, Validate, Publish,
       FollowPage, FollowRow, FollowPageEnd, PruneCut, SyncError, FollowError, Crash, NextPass
  <2>2. CASE PruneBatch \/ Begin \/ ConsumeService \/ ConsumeProgram \/ Complete \/ Fail \/ Restart
    BY <1>1, <2>2 DEF PruneBatch, Begin, ConsumeService, ConsumeProgram, Complete, Fail, Restart, StartPass
  <2> QED
    BY <1>1, <2>1, <2>2, NextSteps, UserFrames
<1>4. holder' \in SyncIds
  <2>1. Next => \/ UNCHANGED holder
                \/ holder' = LatestCompleted
                \/ pc = "publish" /\ holder' = work.sync
    BY PassFrames, UserFrames
  <2> QED
    BY <1>1, <2>1
<1>5. budget' \in [faults : 0 .. MaxFaults, ops : 0 .. MaxUserOps]
  <2>1. Next => UNCHANGED budget \/ Fault \/ Op
    BY PassFrames, UserFrames
  <2>2. CASE Fault
    <3>1. budget.faults + 1 \in 0 .. MaxFaults
      BY <1>1, <2>2, Constants DEF Fault
    <3> QED
      BY <1>1, <2>2, <3>1 DEF Fault
  <2>3. CASE Op
    <3>1. budget.ops + 1 \in 0 .. MaxUserOps
      BY <1>1, <2>3, Constants DEF Op
    <3> QED
      BY <1>1, <2>3, <3>1 DEF Op
  <2> QED
    BY <1>1, <2>1, <2>2, <2>3
<1> QED
  BY <1>2, <1>3, <1>4, <1>5

\* A pass as it starts, and as the users leave it.
LEMMA PassTyped ==
    ASSUME NEW time \in Nat
    PROVE  [NoPass EXCEPT !.cutoff = time - Retention] \in Passes
BY NoPassTyped, Constants DEF Passes

LEMMA WalkTyped ==
    ASSUME TypeOK, WalkIsLast,
           PruneBatch \/ PruneDone \/ Begin \/ ConsumeService \/ ServicesEnd \/ ConsumeProgram
    PROVE  work' \in Passes
<1>1. work \in Passes
  BY DEF TypeOK
<1>2. CASE PruneBatch \/ PruneDone \/ ServicesEnd
  BY <1>1, <1>2 DEF PruneBatch, PruneDone, ServicesEnd, Passes
<1>3. CASE Begin
  <2>1. PICK s \in SyncIds, offer \in [Locators -> Offers] :
           work' = [work EXCEPT !.sync = s, !.left = Locators, !.offer = offer]
    BY <1>3 DEF Begin
  <2>2. s \in 0 .. Generations
    BY Constants DEF SyncIds
  <2> QED
    BY <1>1, <2>1, <2>2 DEF Passes
<1>4. CASE ConsumeService
  BY <1>1, <1>4 DEF ConsumeService, Passes
<1>5. CASE ConsumeProgram
  <2>1. PICK loc \in work.left : work' = [work EXCEPT !.left = @ \ {loc}, !.count = @ + 1]
    BY <1>5 DEF ConsumeProgram
  <2>2. IsFiniteSet(work.left) /\ work.left \subseteq Locators
    BY <1>1, Constants, FS_Subset DEF Passes
  <2>3. Cardinality(work.left) \in Nat \ {0}
    BY <2>1, <2>2, FS_CardinalityType, FS_EmptySet
  <2>4. work.count \in Nat /\ work.count + Cardinality(work.left) <= Cardinality(Locators)
    <3>1. pc = "programs"
      BY <1>5 DEF ConsumeProgram
    <3>2. work.count \in 0 .. Cardinality(Locators)
      BY <1>1 DEF Passes
    <3> QED
      BY <3>1, <3>2, Constants DEF WalkIsLast
  <2>5. work.count + 1 \in 0 .. Cardinality(Locators) /\ work.left \ {loc} \in SUBSET Locators
    BY <2>2, <2>3, <2>4, Constants
  <2> QED
    BY <1>1, <2>1, <2>5 DEF Passes
<1> QED
  BY <1>2, <1>3, <1>4, <1>5

LEMMA FollowWorkTyped ==
    ASSUME TypeOK, FollowPage \/ FollowRow \/ FollowPageEnd
    PROVE  work' \in Passes
<1>1. /\ work \in Passes /\ \A n \in Numbers : resv[n] \in ResvRows
      /\ \A p \in work.page : p \in [n : Numbers, row : ResvRows]
  BY DEF TypeOK, Passes
<1>2. CASE FollowPage
  <2> DEFINE page == {[n |-> n, row |-> resv[n]] : n \in PageOf(work.after)}
             full == Cardinality(PageOf(work.after)) = MaxPage
  <2>1. PageOf(work.after) \subseteq Numbers
    BY DEF PageOf, After, Active
  <2>2. page \in SUBSET [n : Numbers, row : ResvRows] /\ full \in BOOLEAN
    BY <1>1, <2>1
  <2>3. work' = [work EXCEPT !.page = page, !.full = full]
    BY <1>2 DEF FollowPage
  <2> HIDE DEF page, full
  <2> QED
    BY <1>1, <2>2, <2>3 DEF Passes
<1>3. CASE FollowRow
  <2>1. PICK p \in work.page :
           IF p.row.follow /\ \E r \in Target(p.row) : Moves(p.row, r)
           THEN \E r \in Target(p.row) : ApplyReservationFollow(p.n, p.row, r)
           ELSE work' = [work EXCEPT !.page = @ \ {p}, !.after = p.n]
    BY <1>3 DEF FollowRow
  <2>2. p.n \in Numbers \cup {0} /\ work.moved \cup {p.n} \in SUBSET Numbers
    BY <1>1 DEF Passes
  <2> DEFINE page == {q \in work.page : q.n # p.n}
  <2>3. page \in SUBSET [n : Numbers, row : ResvRows] /\ work.page \ {p} \in SUBSET [n : Numbers, row : ResvRows]
    BY <1>1
  <2>4. CASE work' = [work EXCEPT !.page = @ \ {p}, !.after = p.n]
    BY <1>1, <2>2, <2>3, <2>4 DEF Passes
  <2>5. CASE work' = [work EXCEPT !.page = page, !.after = p.n]
    <3> HIDE DEF page
    <3> QED
      BY <1>1, <2>2, <2>3, <2>5 DEF Passes
  <2>6. CASE work' = [work EXCEPT !.page = page, !.after = p.n, !.moved = @ \cup {p.n}]
    <3> HIDE DEF page
    <3> QED
      BY <1>1, <2>2, <2>3, <2>6 DEF Passes
  <2> QED
    BY <2>1, <2>4, <2>5, <2>6 DEF ApplyReservationFollow
<1>4. CASE FollowPageEnd
  BY ZenonT(60), <1>1, <1>4 DEF FollowPageEnd, NextPage, Passes
<1> QED
  BY <1>2, <1>3, <1>4

LEMMA WorkTyped ==
    ASSUME TypeOK, WalkIsLast, Next, now' \in 1 .. MaxTime
    PROVE  work' \in Passes
<1>1. work \in Passes /\ now' \in Nat
  BY Constants DEF TypeOK
<1>2. CASE PruneBatch \/ PruneDone \/ Begin \/ ConsumeService \/ ServicesEnd \/ ConsumeProgram
  BY <1>2, WalkTyped
<1>3. CASE FollowPage \/ FollowRow \/ FollowPageEnd
  BY <1>3, FollowWorkTyped
<1>4. CASE ProgramsEnd \/ Validate \/ Complete \/ PruneCut \/ SyncError \/ FollowError
  BY <1>1, <1>4 DEF ProgramsEnd, Validate, Complete, PruneCut, SyncError, FollowError
<1>5. CASE Publish \/ Fail \/ Crash
  BY <1>5, NoPassTyped DEF Publish, Fail, Crash
<1>6. CASE NextPass \/ Restart
  BY <1>1, <1>6, PassTyped DEF NextPass, Restart, StartPass
<1>7. CASE Users
  BY <1>1, <1>7, UserSteps DEF Passes
<1> QED
  BY <1>2, <1>3, <1>4, <1>5, <1>6, <1>7, NextSteps DEF RefreshQuiet

\* Every step keeps the types, if the holder and the walk are as they should be.
LEMMA TypesKept ==
    ASSUME StoreInv, Next
    PROVE  TypeOK'
<1>1. TypeOK /\ HolderIsLatest /\ WalkIsLast
  BY DEF StoreInv
<1>2. now' \in 1 .. MaxTime /\ pc' \in Steps /\ holder' \in SyncIds
      /\ budget' \in [faults : 0 .. MaxFaults, ops : 0 .. MaxUserOps]
  BY <1>1, ControlTyped
<1> QED
  BY <1>1, <1>2, CatalogueTyped, ResvTyped, ToldTyped, RequestTyped, WorkTyped DEF TypeOK

-----------------------------------------------------------------------------
(* The synchronisations' rows.                                             *)

\* A synchronisation's row changes in five ways.
BegunNow(s) ==
    /\ Begin /\ pc' = "services" /\ work'.sync = s /\ work'.left = Locators /\ work'.count = work.count
    /\ syncs[s].state = "none" /\ syncs'[s] = [state |-> "RUNNING", started |-> now, finished |-> 0]
    /\ \A q \in SyncIds : (syncs[q].state = "none") <=> q >= s
Ended(s, state, time) ==
    /\ syncs[s].state = "RUNNING"
    /\ syncs'[s] = [state |-> state, started |-> syncs[s].started, finished |-> time]
PrunedNow(s) ==
    /\ PruneBatch /\ s \in Unprotected /\ syncs'[s] = [state |-> "pruned", started |-> 0, finished |-> 0]
    /\ ~(\E o \in progObs : o.sync = s) /\ ~(\E o \in svcObs : o[1] = s)

LEMMA SyncMoves ==
    ASSUME TypeOK, Next, NEW s \in SyncIds
    PROVE  \/ syncs'[s] = syncs[s]
           \/ BegunNow(s)
           \/ Complete /\ s = work.sync /\ Ended(s, "COMPLETED", now)
           \/ Fail /\ s = work.sync /\ Ended(s, "FAILED", now)
           \/ Restart /\ Ended(s, "FAILED", now')
           \/ PrunedNow(s)
<1>1. syncs \in [SyncIds -> SyncRows] /\ work \in Passes /\ now \in 0 .. MaxTime
  BY SyncTypes, Constants DEF TypeOK
<1>2. CASE RefreshQuiet \/ Users
  BY <1>2, QuietSteps DEF catalogueVars
<1>3. CASE ConsumeService \/ ConsumeProgram
  BY <1>3 DEF ConsumeService, ConsumeProgram, StoreService, StoreProgram
<1>4. CASE Begin
  <2>1. PICK q \in SyncIds, offer \in [Locators -> Offers] :
           /\ \A t \in SyncIds : (syncs[t].state = "none") <=> t >= q
           /\ BeginSync(q, now)
           /\ work' = [work EXCEPT !.sync = q, !.left = Locators, !.offer = offer]
    BY <1>4 DEF Begin
  <2>2. work'.sync = q /\ work'.left = Locators /\ work'.count = work.count
    BY <1>1, <2>1 DEF Passes
  <2>3. s = q => BegunNow(s)
    BY <1>1, <1>4, <2>1, <2>2 DEF BegunNow, Begin, BeginSync
  <2> QED
    BY <1>1, <2>1, <2>3 DEF BeginSync
<1>5. ASSUME NEW state \in {"COMPLETED", "FAILED"}, FinishSync(work.sync, state, now)
      PROVE  syncs'[s] = syncs[s] \/ (s = work.sync /\ Ended(s, state, now))
  <2>1. s = work.sync => syncs'[s] = [syncs[s] EXCEPT !.state = state, !.finished = now]
    BY <1>1, <1>5 DEF FinishSync, SyncRows
  <2>2. [syncs[s] EXCEPT !.state = state, !.finished = now] =
           [state |-> state, started |-> syncs[s].started, finished |-> now]
    BY <1>1, SyncFinished
  <2>3. s # work.sync => syncs'[s] = syncs[s]
    BY <1>1, <1>5 DEF FinishSync
  <2>4. s = work.sync => syncs[s].state = "RUNNING"
    BY <1>5 DEF FinishSync
  <2> QED
    BY <2>1, <2>2, <2>3, <2>4 DEF Ended
<1>6. CASE Complete
  BY <1>5, <1>6 DEF Complete, CompleteSync
<1>7. CASE Fail
  BY <1>5, <1>7 DEF Fail, FailSync
<1>8. CASE Restart
  <2>1. s \in Running => syncs'[s] = [syncs[s] EXCEPT !.state = "FAILED", !.finished = now']
    BY <1>8 DEF Restart, ReconcileRunningSyncs
  <2>2. s \notin Running => syncs'[s] = syncs[s]
    BY <1>8 DEF Restart, ReconcileRunningSyncs
  <2>3. now' \in 0 .. MaxTime
    BY <1>1, <1>8, Constants DEF Restart
  <2> QED
    BY <1>1, <1>8, <2>1, <2>2, <2>3, SyncFinished DEF Ended, Running
<1>9. CASE PruneBatch
  <2>1. PICK b \in SUBSET Unprotected :
           /\ syncs' = [q \in SyncIds |-> IF q \in b THEN [NoSync EXCEPT !.state = "pruned"] ELSE syncs[q]]
           /\ \A q \in b : ~(\E o \in progObs : o.sync = q) /\ ~(\E o \in svcObs : o[1] = q)
    BY <1>9, PruneChanges DEF PruneShape, SyncsPruned
  <2>2. [NoSync EXCEPT !.state = "pruned"] = [state |-> "pruned", started |-> 0, finished |-> 0]
    BY DEF NoSync
  <2> QED
    BY <1>9, <2>1, <2>2 DEF PrunedNow
<1> QED
  BY <1>2, <1>3, <1>4, <1>6, <1>7, <1>8, <1>9, NextSteps

LEMMA ClockAdvances ==
    ASSUME TypeOK, Next
    PROVE  now \in Nat /\ now' \in Nat /\ now <= now'
<1>1. now \in Nat
  BY Constants DEF TypeOK
<1>2. CASE Users
  BY <1>1, <1>2, UserFrames
<1>3. CASE ~Users
  BY <1>1, <1>3, PassFrames DEF NextPass, Restart
<1> QED
  BY <1>2, <1>3

LEMMA SyncsOrdered ==
    ASSUME StoreInv, Next
    PROVE  SyncsInOrder'
<1>1. TypeOK /\ SyncsInOrder /\ now \in 1 .. MaxTime
  BY DEF StoreInv, TypeOK
<1>2. now \in Nat /\ now' \in Nat /\ now <= now' /\ now >= 1
  BY <1>1, ClockAdvances
<1>3. ASSUME NEW s \in SyncIds
      PROVE  /\ syncs'[s].state = "RUNNING" => syncs'[s].started >= 1
             /\ syncs'[s].finished <= now'
             /\ syncs[s].state # "none" => syncs'[s].state # "none"
  <2>1. syncs[s].finished \in Nat /\ syncs[s].finished <= now
    BY <1>1, SyncTypes DEF SyncsInOrder
  <2>2. CASE syncs'[s] = syncs[s]
    BY <1>1, <1>2, <2>1, <2>2 DEF SyncsInOrder
  <2>3. CASE BegunNow(s)
    <3>1. syncs'[s] = [state |-> "RUNNING", started |-> now, finished |-> 0]
      BY <2>3 DEF BegunNow
    <3> QED
      BY <1>2, <3>1
  <2>4. ASSUME NEW state \in {"COMPLETED", "FAILED"}, NEW time \in Nat, time <= now', Ended(s, state, time)
        PROVE  syncs'[s].state \notin {"RUNNING", "none"} /\ syncs'[s].finished <= now'
    BY <2>4 DEF Ended
  <2>5. CASE PrunedNow(s)
    BY <1>2, <2>5 DEF PrunedNow
  <2>6. CASE Ended(s, "COMPLETED", now) \/ Ended(s, "FAILED", now) \/ Ended(s, "FAILED", now')
    <3>1. now' <= now'
      BY <1>2
    <3> QED
      BY <1>2, <2>4, <2>6, <3>1
  <2> QED
    BY <1>1, <2>2, <2>3, <2>5, <2>6, SyncMoves
<1>4. ASSUME NEW s \in SyncIds, syncs'[s].state # "none", NEW q \in 1 .. s
      PROVE  syncs'[q].state # "none"
  <2>1. q \in SyncIds /\ s \in Nat /\ q \in Nat /\ q <= s
    BY Constants DEF SyncIds
  <2>2. CASE syncs[s].state # "none"
    BY <1>1, <1>3, <2>1, <2>2 DEF SyncsInOrder
  <2>3. CASE BegunNow(s)
    <3>1. q # s => syncs[q].state # "none"
      BY <2>1, <2>3 DEF BegunNow
    <3> QED
      BY <1>3, <1>4, <2>1, <3>1
  <2> QED
    BY <1>1, <1>4, <2>2, <2>3, SyncMoves DEF Ended, PrunedNow, Unprotected, Completed
<1> QED
  BY <1>3, <1>4 DEF SyncsInOrder

\* The latest generation is never among those the retention leaves unprotected.
LEMMA LatestProtected ==
    ASSUME TypeOK, NEW g \in Completed, \A a, b \in NewerThan(g) : a = b
    PROVE  g \notin Unprotected
<1>1. IsFiniteSet(NewerThan(g)) /\ Cardinality(NewerThan(g)) <= 1
  BY AtMostOne
<1>2. Cardinality(NewerThan(g)) \in Nat
  BY <1>1, FS_CardinalityType
<1> QED
  BY <1>1, <1>2, Constants DEF Unprotected, Completed

LEMMA LatestKept ==
    ASSUME StoreInv, Next, ~Complete
    PROVE  /\ LatestCompleted' = LatestCompleted
           /\ Completed' \subseteq Completed
           /\ \A s \in Completed' : syncs'[s] = syncs[s] /\ NewerThan(s)' \subseteq NewerThan(s)
           /\ \A s \in Completed : s \in Completed' \/ (PruneBatch /\ s \in Unprotected)
<1>1. TypeOK /\ TypeOK' /\ LatestCompleted \in Completed /\ NewerThan(LatestCompleted) = {}
  BY TypesKept DEF StoreInv, HolderIsLatest
<1>2. \A s \in Completed' : s \in SyncIds /\ syncs'[s] = syncs[s] /\ s \in Completed
  <2> TAKE s \in Completed'
  <2>1. s \in SyncIds /\ syncs'[s].state = "COMPLETED"
    BY DEF Completed
  <2>2. ~BegunNow(s) /\ ~Ended(s, "FAILED", now) /\ ~Ended(s, "FAILED", now') /\ ~PrunedNow(s)
    BY <2>1 DEF BegunNow, Ended, PrunedNow
  <2>3. syncs'[s] = syncs[s]
    BY <1>1, <2>1, <2>2, SyncMoves
  <2> QED
    BY <2>1, <2>3 DEF Completed
<1>3. \A s \in Completed : s \in Completed' \/ (PruneBatch /\ s \in Unprotected)
  <2> TAKE s \in Completed
  <2>1. s \in SyncIds /\ syncs[s].state = "COMPLETED"
    BY DEF Completed
  <2>2. ~BegunNow(s) /\ ~Ended(s, "FAILED", now) /\ ~Ended(s, "FAILED", now')
    BY <2>1 DEF BegunNow, Ended
  <2>3. syncs'[s] = syncs[s] \/ PrunedNow(s)
    BY <1>1, <2>1, <2>2, SyncMoves
  <2> QED
    BY <2>1, <2>3 DEF Completed, PrunedNow
<1>4. LatestCompleted \notin Unprotected
  BY <1>1, LatestProtected
<1>5. PICK g : g = LatestCompleted
  OBVIOUS
<1>6. g \in Completed' /\ Completed' \subseteq Completed /\ \A s \in Completed' : syncs'[s] = syncs[s]
  BY <1>1, <1>2, <1>3, <1>4, <1>5
<1>7. /\ LatestCompleted' = g
      /\ \A s \in Completed' : NewerThan(s)' \subseteq NewerThan(s)
  BY <1>1, <1>5, <1>6, LatestStays
<1> QED
  BY <1>2, <1>3, <1>5, <1>7

LEMMA LatestMoves ==
    ASSUME StoreInv, Complete
    PROVE  /\ work.sync \in SyncIds /\ syncs[work.sync].state = "RUNNING" /\ work.sync \notin Completed
           /\ LatestCompleted' = work.sync /\ work.sync \in Completed'
           /\ Completed' = Completed \cup {work.sync}
           /\ \A s \in Completed : NewerThan(s)' \subseteq NewerThan(s) \cup {work.sync}
           /\ work' = work /\ NewerThan(work.sync)' = {}
<1>1. /\ TypeOK /\ TypeOK' /\ Next /\ pc = "complete" /\ UNCHANGED work
      /\ SyncsInOrder
  BY TypesKept DEF StoreInv, Complete, Next, Refresh
<1>2. /\ work.sync \in SyncIds /\ syncs[work.sync].state = "RUNNING"
      /\ \A s \in SyncIds : s > work.sync => syncs[s].state = "none"
  BY <1>1, Constants DEF StoreInv, WalkIsLast, Walking, TypeOK, Passes, SyncIds
<1>3. PICK w : w = work.sync
  OBVIOUS
<1>4. w \in SyncIds /\ w \in Nat /\ now \in Nat
  BY <1>1, <1>2, <1>3, Constants DEF TypeOK, SyncIds
<1>5. \A s \in SyncIds : IF s = w THEN syncs'[s].state = "COMPLETED" /\ syncs'[s].finished = now
                         ELSE syncs'[s] = syncs[s]
  <2>1. FinishSync(w, "COMPLETED", now) /\ syncs \in [SyncIds -> SyncRows]
    BY <1>1, <1>3, SyncTypes DEF Complete, CompleteSync
  <2> QED
    BY <1>4, <2>1 DEF FinishSync, SyncRows
<1>6. Completed' = Completed \cup {w} /\ w \notin Completed
  BY <1>2, <1>3, <1>4, <1>5 DEF Completed
<1>7. NewerThan(w)' = {}
  <2>1. ASSUME NEW s \in Completed', s # w
        PROVE  syncs'[s].finished \in Nat /\ syncs'[s].finished <= now /\ ~(s > w)
    BY <1>1, <1>2, <1>3, <1>5, <1>6, <2>1, SyncTypes DEF SyncsInOrder, Completed
  <2>2. ~(w > w) /\ ~(now > now)
    BY <1>4
  <2>3. syncs'[w].finished = now
    BY <1>4, <1>5
  <2>4. \A s \in Completed' : ~(syncs'[s].finished > now \/ (syncs'[s].finished = now /\ s > w))
    BY <1>4, <2>1, <2>2, <2>3
  <2> QED
    BY <2>3, <2>4 DEF NewerThan
<1>8. \A q \in Completed' : NewerThan(q)' = {} => q = w
  <2> TAKE q \in Completed'
  <2>1. syncs'[q].finished \in Nat /\ syncs'[w].finished \in Nat /\ q \in Nat /\ w \in Completed'
    BY <1>1, <1>4, <1>5, <1>6, SyncTypes DEF Completed
  <2> QED
    BY <1>4, <1>7, <2>1 DEF NewerThan
<1>9. LatestCompleted' = w
  BY <1>6, <1>7, <1>8 DEF LatestCompleted
<1>10. \A s \in Completed : NewerThan(s)' \subseteq NewerThan(s) \cup {w}
  <2> TAKE s \in Completed
  <2>1. syncs'[s] = syncs[s] /\ \A n \in Completed : syncs'[n] = syncs[n]
    BY <1>5, <1>6 DEF Completed
  <2> QED
    BY <1>6, <2>1 DEF NewerThan
<1>11. NewerThan(work.sync)' = {}
  BY <1>1, <1>3, <1>7 DEF NewerThan
<1> QED
  BY <1>1, <1>2, <1>3, <1>6, <1>9, <1>10, <1>11

LEMMA HolderKept ==
    ASSUME StoreInv, Next
    PROVE  HolderIsLatest'
<1>1. TypeOK /\ HolderIsLatest
  BY DEF StoreInv
<1>2. CASE Complete
  <2>1. /\ pc = "complete" /\ pc' = "publish" /\ UNCHANGED <<work, holder>>
    BY <1>2 DEF Complete
  <2>2. holder \in Completed /\ NewerThan(holder) = {}
    BY <1>1, <2>1 DEF HolderIsLatest
  <2>3. NewerThan(holder)' \subseteq {work'.sync}
    <3>1. PICK h : h = holder
      OBVIOUS
    <3>2. NewerThan(h)' \subseteq {work.sync}
      BY <1>2, <2>2, <3>1, LatestMoves
    <3> QED
      BY <2>1, <3>1, <3>2 DEF NewerThan
  <2>4. NewerThan(LatestCompleted)' = {}
    BY <1>2, LatestMoves DEF NewerThan
  <2> QED
    BY <1>2, <2>1, <2>2, <2>3, <2>4, LatestMoves DEF HolderIsLatest
<1>3. CASE ~Complete
  <2>1. PICK g : g = LatestCompleted
    OBVIOUS
  <2>2. g \in Completed /\ NewerThan(g) = {} /\ LatestCompleted' = g
    BY <1>1, <1>3, <2>1, LatestKept DEF HolderIsLatest
  <2>3. g \notin Unprotected
    BY <1>1, <2>2, LatestProtected
  <2>4. g \in Completed' /\ NewerThan(g)' = {}
    BY <1>3, <2>2, <2>3, LatestKept
  <2>5. LatestCompleted' \in Completed' /\ NewerThan(LatestCompleted)' = {}
    BY <2>2, <2>4 DEF NewerThan
  <2>6. ASSUME UNCHANGED holder
        PROVE  holder' \in Completed' /\ (NewerThan(holder))' \subseteq NewerThan(holder)
    <3>1. PICK h : h = holder
      OBVIOUS
    <3>2. h \in Completed /\ (PruneBatch => h = g)
      <4>1. PruneBatch => pc = "gc"
        BY DEF PruneBatch
      <4> QED
        BY <1>1, <2>1, <3>1, <4>1 DEF HolderIsLatest
    <3>3. h \in Completed'
      BY <1>3, <2>4, <3>2, LatestKept
    <3>4. NewerThan(h)' \subseteq NewerThan(h)
      BY <1>3, <3>3, LatestKept
    <3> QED
      BY <2>6, <3>1, <3>3, <3>4 DEF NewerThan
  <2>7. CASE Restart \/ Publish
    <3>1. holder' = g /\ pc' \in {"gc", "page"}
      BY <1>1, <2>1, <2>7 DEF Restart, Publish, StartPass, HolderIsLatest
    <3> QED
      BY <2>2, <2>4, <2>5, <3>1 DEF HolderIsLatest
  <2>8. CASE Users
    <3>1. UNCHANGED <<pc, holder>> /\ work'.sync = work.sync
      BY <1>1, <2>8, UserSteps DEF TypeOK, Passes
    <3> QED
      BY <1>1, <2>1, <2>2, <2>5, <2>6, <3>1 DEF HolderIsLatest
  <2>9. CASE ~Users /\ ~Restart /\ ~Publish
    <3>1. UNCHANGED holder /\ pc' # "publish" /\ (pc' = "down" \/ pc \notin {"publish", "down"})
      <4>1. CASE RefreshQuiet
        BY <2>9, <4>1 DEF RefreshQuiet, PruneDone, ServicesEnd, ProgramsEnd, Validate,
           FollowPage, FollowRow, FollowPageEnd, NextPage, PruneCut, SyncError, Stuck, FollowError, Crash,
           NextPass, StartPass
      <4>2. CASE PruneBatch \/ Begin \/ ConsumeService \/ ConsumeProgram \/ Fail
        BY <4>2 DEF PruneBatch, Begin, ConsumeService, ConsumeProgram, Fail
      <4> QED
        BY <1>3, <2>9, <4>1, <4>2, NextSteps
    <3> QED
      BY <1>1, <2>1, <2>2, <2>5, <2>6, <3>1 DEF HolderIsLatest
  <2> QED
    BY <2>7, <2>8, <2>9
<1> QED
  BY <1>2, <1>3

-----------------------------------------------------------------------------
(* The tables.                                                             *)

tables == <<svcObs, progObs, services, instances, revisions>>

LEMMA TablesChange ==
    ASSUME Next, ~PruneBatch, ~ConsumeService, ~ConsumeProgram
    PROVE  UNCHANGED tables
<1>1. CASE RefreshQuiet \/ Users
  BY <1>1, QuietSteps DEF tables, catalogueVars
<1>2. CASE Begin \/ Complete \/ Fail \/ Restart
  BY <1>2 DEF tables, Begin, Complete, Fail, Restart
<1> QED
  BY <1>1, <1>2, NextSteps

\* A stored service: the walk is running, and its start is a date.
LEMMA ServiceStored ==
    ASSUME StoreInv, ConsumeService
    PROVE  \E loc \in work.left :
              /\ loc \in Locators /\ work.sync \in SyncIds /\ pc = "services" /\ work.offer[loc].svc
              /\ syncs[work.sync].state = "RUNNING" /\ syncs[work.sync].started >= 1
              /\ services' = [services EXCEPT ![loc] = syncs[work.sync].started]
              /\ svcObs' = svcObs \cup {<<work.sync, loc>>}
              /\ work' = [work EXCEPT !.left = @ \ {loc}]
              /\ UNCHANGED <<syncs, progObs, instances, revisions, resv, now, pc, holder, request, told, budget>>
BY DEF ConsumeService, StoreService, Running, StoreInv, SyncsInOrder, TypeOK, Passes

LEMMA RowsStayKeyed ==
    ASSUME StoreInv, Next
    PROVE  RowsKeyed'
<1>1. /\ TypeOK /\ TypeOK' /\ SyncsInOrder /\ SyncsInOrder' /\ RowsKeyed
      /\ revisions \subseteq Revisions /\ Generations \in Nat
  BY TypesKept, SyncsOrdered, Constants DEF StoreInv, TypeOK, CatalogueTypeOK
<1>2. \A s \in SyncIds : syncs[s].state # "none" => syncs'[s].state # "none"
  <2> TAKE s \in SyncIds
  <2>1. BegunNow(s) \/ Ended(s, "COMPLETED", now) \/ Ended(s, "FAILED", now) \/ Ended(s, "FAILED", now')
           \/ PrunedNow(s) => syncs'[s].state # "none"
    BY DEF BegunNow, Ended, PrunedNow
  <2> QED
    BY <1>1, <2>1, SyncMoves
<1>3. \A r \in revisions : syncs'[r.number].state # "none"
  BY <1>1, <1>2 DEF RowsKeyed, Revisions, SyncIds
<1>4. ASSUME progObs' \subseteq progObs, revisions' \subseteq revisions
      PROVE  RowsKeyed'
  BY <1>1, <1>3, <1>4 DEF RowsKeyed
<1>5. CASE PruneBatch
  BY <1>1, <1>4, <1>5, PruneChanges DEF PruneShape, ObservationsPruned, RevisionsPruned
<1>6. CASE ConsumeService
  BY <1>4, <1>6, ServiceStored
<1>7. CASE ConsumeProgram
  <2>1. PICK loc \in work.left :
           /\ loc \in Locators /\ work.sync \in SyncIds /\ work.sync \in Running /\ pc = "programs"
           /\ ~(\E o \in progObs : o.sync = work.sync /\ o.loc = loc)
           /\ UNCHANGED syncs
           /\ \/ StoredInvalid(work.sync, loc)
              \/ \E q, class : StoredValid(work.sync, loc, q, class)
    BY <1>7, WalkStores
  <2>2. ASSUME NEW inst, NEW number, NEW class, class = "INVALID" => inst = 0,
               progObs' = progObs \cup {Observation(work.sync, loc, inst, number, class)}
        PROVE  /\ \A o, p \in progObs' : o.sync = p.sync /\ o.loc = p.loc => o = p
               /\ \A o \in progObs' : o.class = "INVALID" => o.inst = 0
    <3> DEFINE new == Observation(work.sync, loc, inst, number, class)
    <3>1. new.sync = work.sync /\ new.loc = loc /\ new.inst = inst /\ new.class = class
      BY DEF Observation
    <3> HIDE DEF new
    <3> QED
      BY <1>1, <2>1, <2>2, <3>1 DEF RowsKeyed, new
  <2>3. CASE StoredInvalid(work.sync, loc)
    <3>1. revisions' = revisions /\ progObs' = progObs \cup {Observation(work.sync, loc, 0, 0, "INVALID")}
      BY <2>3 DEF StoredInvalid
    <3> QED
      BY <1>1, <1>3, <2>2, <3>1 DEF RowsKeyed
  <2>4. ASSUME NEW q, NEW class, StoredValid(work.sync, loc, q, class)
        PROVE  RowsKeyed'
    <3>1. /\ q \in Revisions /\ q.loc = loc /\ q.number \in 1 .. work.sync /\ class # "INVALID"
          /\ progObs' = progObs \cup {Observation(work.sync, loc, q.inst, q.number, class)}
          /\ \/ revisions' = revisions
             \/ /\ revisions' = revisions \cup {q}
                /\ \A r \in revisions : r.loc = loc => r.inst = q.inst /\ r.number < q.number
      BY <2>1, <2>4, StoredRevision
    <3>2. syncs'[q.number].state # "none"
      <4>1. syncs[work.sync].state # "none"
        BY <2>1 DEF Running
      <4> QED
        BY <1>1, <2>1, <3>1, <4>1 DEF SyncsInOrder
    <3>3. \A r \in revisions' : syncs'[r.number].state # "none"
      BY <1>3, <3>1, <3>2
    <3>4. \A r, p \in revisions' : r.loc = p.loc /\ r.inst = p.inst /\ r.number = p.number => r = p
      <4>1. \A r \in revisions : r.number \in Nat
        BY <1>1 DEF Revisions
      <4>2. \A r \in revisions : revisions' = revisions \/ r.loc # loc \/ r.number # q.number
        BY <3>1, <4>1 DEF Revisions
      <4> QED
        BY <1>1, <3>1, <4>2 DEF RowsKeyed
    <3> QED
      BY <2>2, <3>1, <3>3, <3>4 DEF RowsKeyed
  <2> QED
    BY <2>1, <2>3, <2>4
<1> QED
  BY <1>4, <1>5, <1>6, <1>7, TablesChange DEF tables

\* A row that something refers to is not pruned.
LEMMA PruneKeepsReferred ==
    ASSUME StoreInv, PruneBatch, NEW r \in revisions,
           Reserved(r.loc, r.inst) \/ \E o \in progObs : o.loc = r.loc /\ o.inst = r.inst
    PROVE  r \in revisions'
<1>1. r.inst = instances[r.loc].inst
  BY DEF StoreInv, RefsExist
<1>2. ~Unreferenced(r.loc)
  BY <1>1 DEF Unreferenced
<1> QED
  BY <1>2, PruneChanges DEF StoreInv, PruneShape, RevisionsPruned

LEMMA RevisionStays ==
    ASSUME StoreInv, Next, NEW r \in revisions,
           Reserved(r.loc, r.inst) \/ \E o \in progObs : o.loc = r.loc /\ o.inst = r.inst
    PROVE  r \in revisions'
<1>1. CASE ConsumeProgram
  <2>1. PICK loc \in work.left :
           /\ pc = "programs"
           /\ \/ StoredInvalid(work.sync, loc)
              \/ \E q, class : StoredValid(work.sync, loc, q, class)
    BY <1>1, WalkStores
  <2>2. CASE StoredInvalid(work.sync, loc)
    BY <2>2 DEF StoredInvalid
  <2>3. ASSUME NEW q, NEW class, StoredValid(work.sync, loc, q, class)
        PROVE  r \in revisions'
    BY <2>1, <2>3, StoredRevision
  <2> QED
    BY <2>1, <2>2, <2>3
<1> QED
  BY <1>1, PruneKeepsReferred, ServiceStored, TablesChange DEF tables

\* Foreign keys of the observations.
LEMMA ObservationsRefer ==
    ASSUME StoreInv, Next
    PROVE  /\ \A o \in svcObs' : services'[o[2]] # 0 /\ syncs'[o[1]].state \notin {"none", "pruned"}
           /\ \A o \in progObs' : /\ syncs'[o.sync].state \notin {"none", "pruned"}
                                  /\ o.class # "INVALID" => Revision(o.loc, o.inst, o.number)' # {}
<1>1. /\ TypeOK /\ RefsExist
      /\ \A o \in svcObs : o[1] \in SyncIds /\ o[2] \in Locators
      /\ \A o \in progObs : o.sync \in SyncIds /\ o.loc \in Locators
  BY DEF StoreInv, TypeOK, CatalogueTypeOK
<1>2. ASSUME NEW s \in SyncIds, syncs[s].state \notin {"none", "pruned"},
             (\E o \in progObs : o.sync = s) \/ \E o \in svcObs : o[1] = s
      PROVE  syncs'[s].state \notin {"none", "pruned"}
  <2>1. Ended(s, "COMPLETED", now) \/ Ended(s, "FAILED", now) \/ Ended(s, "FAILED", now')
           => syncs'[s].state \notin {"none", "pruned"}
    BY DEF Ended
  <2>2. ~BegunNow(s) /\ ~PrunedNow(s)
    BY <1>2 DEF BegunNow, PrunedNow
  <2> QED
    BY <1>1, <1>2, <2>1, <2>2, SyncMoves
<1>3. /\ \A o \in svcObs : syncs'[o[1]].state \notin {"none", "pruned"}
      /\ \A o \in progObs : syncs'[o.sync].state \notin {"none", "pruned"}
  BY <1>1, <1>2 DEF RefsExist
<1>4. \A o \in progObs : o.class # "INVALID" => Revision(o.loc, o.inst, o.number)' # {}
  <2> TAKE o \in progObs
  <2>1. SUFFICES ASSUME o.class # "INVALID" PROVE Revision(o.loc, o.inst, o.number)' # {}
    OBVIOUS
  <2>2. PICK r \in revisions : r.loc = o.loc /\ r.inst = o.inst /\ r.number = o.number
    BY <1>1, <2>1 DEF RefsExist, Revision
  <2>3. r \in revisions'
    BY <2>2, RevisionStays
  <2> QED
    BY <2>2, <2>3 DEF Revision
<1>5. ASSUME svcObs' \subseteq svcObs, progObs' \subseteq progObs,
             \A o \in svcObs' : services'[o[2]] = services[o[2]]
      PROVE  /\ \A o \in svcObs' : services'[o[2]] # 0 /\ syncs'[o[1]].state \notin {"none", "pruned"}
             /\ \A o \in progObs' : /\ syncs'[o.sync].state \notin {"none", "pruned"}
                                    /\ o.class # "INVALID" => Revision(o.loc, o.inst, o.number)' # {}
  BY <1>1, <1>3, <1>4, <1>5 DEF RefsExist
<1>6. CASE PruneBatch
  <2>1. svcObs' \subseteq svcObs /\ progObs' \subseteq progObs /\ ServicesPruned
    BY <1>1, <1>6, PruneChanges DEF PruneShape, ServiceObservationsPruned, ObservationsPruned
  <2>2. \A o \in svcObs' : services'[o[2]] = services[o[2]]
    BY <1>1, <2>1 DEF ServicesPruned
  <2> QED
    BY <1>5, <2>1, <2>2
<1>7. CASE ConsumeService
  <2>1. PICK loc \in work.left :
           /\ loc \in Locators /\ work.sync \in SyncIds /\ UNCHANGED <<syncs, progObs, revisions>>
           /\ syncs[work.sync].state = "RUNNING" /\ syncs[work.sync].started >= 1
           /\ services' = [services EXCEPT ![loc] = syncs[work.sync].started]
           /\ svcObs' = svcObs \cup {<<work.sync, loc>>}
    BY <1>7, ServiceStored
  <2>2. services \in [Locators -> 0 .. MaxTime] /\ syncs[work.sync].started \in Nat
    BY <1>1, <2>1, SyncTypes DEF TypeOK, CatalogueTypeOK
  <2>3. \A o \in svcObs : services'[o[2]] # 0
    BY <1>1, <2>1, <2>2 DEF RefsExist
  <2>4. services'[loc] # 0 /\ syncs'[work.sync].state = "RUNNING"
    BY <2>1, <2>2
  <2> QED
    BY <1>1, <1>3, <1>4, <2>1, <2>3, <2>4
<1>8. CASE ConsumeProgram
  <2>1. PICK loc \in work.left :
           /\ loc \in Locators /\ work.sync \in SyncIds /\ work.sync \in Running /\ pc = "programs"
           /\ UNCHANGED <<syncs, svcObs, services>>
           /\ \/ StoredInvalid(work.sync, loc)
              \/ \E q, class : StoredValid(work.sync, loc, q, class)
    BY <1>8, WalkStores
  <2>2. /\ \A o \in svcObs' : services'[o[2]] # 0 /\ syncs'[o[1]].state \notin {"none", "pruned"}
        /\ syncs'[work.sync].state \notin {"none", "pruned"}
    BY <1>1, <2>1 DEF RefsExist, Running
  <2>3. ASSUME NEW inst, NEW number, NEW class,
               progObs' = progObs \cup {Observation(work.sync, loc, inst, number, class)},
               class # "INVALID" => Revision(loc, inst, number)' # {}
        PROVE  \A o \in progObs' : /\ syncs'[o.sync].state \notin {"none", "pruned"}
                                   /\ o.class # "INVALID" => Revision(o.loc, o.inst, o.number)' # {}
    <3> DEFINE new == Observation(work.sync, loc, inst, number, class)
    <3>1. new.sync = work.sync /\ new.loc = loc /\ new.inst = inst /\ new.number = number /\ new.class = class
      BY DEF Observation
    <3> HIDE DEF new
    <3> QED
      BY <1>3, <1>4, <2>2, <2>3, <3>1 DEF new
  <2>4. CASE StoredInvalid(work.sync, loc)
    BY <2>2, <2>3, <2>4 DEF StoredInvalid
  <2>5. ASSUME NEW q, NEW class, StoredValid(work.sync, loc, q, class)
        PROVE  \A o \in progObs' : /\ syncs'[o.sync].state \notin {"none", "pruned"}
                                   /\ o.class # "INVALID" => Revision(o.loc, o.inst, o.number)' # {}
    <3>1. /\ q.loc = loc /\ q \in revisions'
          /\ progObs' = progObs \cup {Observation(work.sync, loc, q.inst, q.number, class)}
      BY <2>1, <2>5, StoredRevision DEF RevisionsOf
    <3>2. Revision(loc, q.inst, q.number)' # {}
      <4>1. PICK inst, number : inst = q.inst /\ number = q.number
        OBVIOUS
      <4>2. Revision(loc, inst, number)' # {}
        BY <3>1, <4>1 DEF Revision
      <4> QED
        BY <4>1, <4>2
    <3> QED
      BY <2>3, <3>1, <3>2
  <2> QED
    BY <2>1, <2>2, <2>4, <2>5
<1>9. CASE ~PruneBatch /\ ~ConsumeService /\ ~ConsumeProgram
  BY <1>5, <1>9, TablesChange DEF tables
<1> QED
  BY <1>6, <1>7, <1>8, <1>9

\* A revision belongs to its locator's instance, an instance to a service.
LEMMA InstancesRefer ==
    ASSUME StoreInv, Next
    PROVE  /\ \A r \in revisions' : instances'[r.loc].inst = r.inst
           /\ \A loc \in Locators : instances'[loc].inst # 0 => services'[loc] # 0
<1>1. /\ TypeOK /\ RefsExist /\ revisions \subseteq Revisions
      /\ instances \in [Locators -> [inst : 0 .. Generations, seen : 0 .. MaxTime]]
      /\ services \in [Locators -> 0 .. MaxTime]
  BY DEF StoreInv, TypeOK, CatalogueTypeOK
<1>2. \A r \in revisions : r.loc \in Locators /\ instances[r.loc].inst = r.inst
  BY <1>1 DEF Revisions, RefsExist
<1>3. CASE PruneBatch
  <2>1. PICK b \in SUBSET Locators :
          /\ instances' = [loc \in Locators |-> IF loc \in b THEN [inst |-> 0, seen |-> 0] ELSE instances[loc]]
          /\ \A loc \in b : RevisionsOf(loc) = {} /\ UNCHANGED revisions
    BY <1>1, <1>3, PruneChanges DEF PruneShape, InstancesPruned
  <2>2. revisions' \subseteq revisions
    BY <1>1, <1>3, PruneChanges DEF PruneShape, RevisionsPruned
  <2>3. \A r \in revisions' : r.loc \notin b
    <3>1. \A r \in revisions : r \in RevisionsOf(r.loc)
      BY <1>2 DEF RevisionsOf
    <3> QED
      BY <2>1, <2>2, <3>1
  <2>4. \A r \in revisions' : instances'[r.loc].inst = r.inst
    BY <1>2, <2>1, <2>2, <2>3
  <2>5. PICK c \in SUBSET Locators :
          /\ services' = [loc \in Locators |-> IF loc \in c THEN 0 ELSE services[loc]]
          /\ \A loc \in c : instances[loc].inst = 0 /\ UNCHANGED instances
    BY <1>1, <1>3, PruneChanges DEF PruneShape, ServicesPruned
  <2>6. \A loc \in Locators : instances'[loc].inst # 0 => services'[loc] # 0
    <3> TAKE loc \in Locators
    <3>1. instances'[loc].inst # 0 => instances[loc].inst # 0
      BY <2>1
    <3>2. loc \in c => instances'[loc].inst = 0
      BY <2>5
    <3> QED
      BY <1>1, <2>5, <3>1, <3>2 DEF RefsExist
  <2> QED
    BY <2>4, <2>6
<1>4. CASE ConsumeService
  <2>1. PICK loc \in Locators :
           /\ work.sync \in SyncIds /\ UNCHANGED <<instances, revisions>> /\ syncs[work.sync].started >= 1
           /\ services' = [services EXCEPT ![loc] = syncs[work.sync].started]
    BY <1>4, ServiceStored
  <2>2. \A q \in Locators : services[q] # 0 => services'[q] # 0
    BY <1>1, <2>1, SyncTypes
  <2> QED
    BY <1>1, <1>2, <2>1, <2>2 DEF RefsExist
<1>5. CASE ConsumeProgram
  <2>1. PICK loc \in work.left :
           /\ loc \in Locators /\ work.sync \in SyncIds /\ pc = "programs" /\ UNCHANGED services
           /\ \/ StoredInvalid(work.sync, loc)
              \/ \E q, class : StoredValid(work.sync, loc, q, class)
    BY <1>5, WalkStores
  <2>2. CASE StoredInvalid(work.sync, loc)
    BY <1>1, <1>2, <2>1, <2>2 DEF StoredInvalid, RefsExist
  <2>3. ASSUME NEW q, NEW class, StoredValid(work.sync, loc, q, class)
        PROVE  /\ \A r \in revisions' : instances'[r.loc].inst = r.inst
               /\ \A l \in Locators : instances'[l].inst # 0 => services'[l] # 0
    <3>1. /\ q.loc = loc
          /\ instances' = [instances EXCEPT ![loc] = [inst |-> q.inst, seen |-> syncs[work.sync].started]]
          /\ \/ q \in RevisionsOf(loc) /\ revisions' = revisions
             \/ revisions' = revisions \cup {q} /\ \A r \in revisions : r.loc = loc => r.inst = q.inst
      BY <2>1, <2>3, StoredRevision
    <3>2. \A r \in revisions' : r.loc = loc => r.inst = q.inst
      BY <1>2, <3>1 DEF RevisionsOf
    <3>3. \A r \in revisions' : r.loc # loc => r \in revisions
      BY <3>1
    <3>4. \A r \in revisions' : instances'[r.loc].inst = r.inst
      BY <1>1, <1>2, <2>1, <3>1, <3>2, <3>3
    <3>5. services[loc] # 0
      <4>1. <<work.sync, loc>> \in svcObs
        BY <2>3 DEF StoredValid
      <4> QED
        BY <1>1, <4>1 DEF RefsExist
    <3> QED
      BY <1>1, <2>1, <3>1, <3>4, <3>5 DEF RefsExist
  <2> QED
    BY <2>1, <2>2, <2>3
<1>6. CASE ~PruneBatch /\ ~ConsumeService /\ ~ConsumeProgram
  BY <1>1, <1>2, <1>6, TablesChange DEF tables, RefsExist
<1> QED
  BY <1>3, <1>4, <1>5, <1>6

\* What one reservation of a page becomes.
MayMove(n, read, r) ==
    /\ UnchangedSince(n, read) /\ r.number > read.number
    /\ resv[n].attempt = "none" \/ MayMoveEnd(resv[n], r)
Moved(row, r) == IF row.attempt = "none" THEN MovedRow(row, r) ELSE MovedWithEnd(row, r)

LEMMA FollowSteps ==
    ASSUME TypeOK, FollowRow
    PROVE  \E p \in work.page :
              /\ p.n \in Numbers /\ p.row \in ResvRows /\ pc = "rows"
              /\ \A q \in work.page : p.n <= q.n
              /\ work'.after = p.n /\ work'.full = work.full /\ work'.touched = work.touched
              /\ work'.clean = work.clean
              /\ work'.page \subseteq work.page
              /\ \A q \in work.page : q.n # p.n => q \in work'.page
              /\ \A q \in work'.page : q # p
              /\ \/ /\ UNCHANGED resv
                    /\ p.row.follow /\ (\E r \in Target(p.row) : Moves(p.row, r)) =>
                          \E r \in Target(p.row) : ~MayMove(p.n, p.row, r)
                 \/ \E r \in Target(p.row) :
                       /\ MayMove(p.n, p.row, r)
                       /\ resv' = [resv EXCEPT ![p.n] = Moved(resv[p.n], r)]
<1>1. /\ work \in Passes /\ resv \in [Numbers -> ResvRows]
      /\ \A p \in work.page : p.n \in Numbers /\ p.row \in ResvRows
  BY DEF TypeOK, Passes
<1>2. PICK p \in work.page :
         /\ \A q \in work.page : p.n <= q.n
         /\ IF p.row.follow /\ \E r \in Target(p.row) : Moves(p.row, r)
            THEN \E r \in Target(p.row) : ApplyReservationFollow(p.n, p.row, r)
            ELSE /\ work' = [work EXCEPT !.page = @ \ {p}, !.after = p.n]
                 /\ UNCHANGED resv
  BY DEF FollowRow
<1> DEFINE others == {q \in work.page : q.n # p.n}
<1>3. ASSUME NEW page \in SUBSET work.page, NEW moved,
             \/ work' = [work EXCEPT !.page = page, !.after = p.n]
             \/ work' = [work EXCEPT !.page = page, !.after = p.n, !.moved = moved]
      PROVE  /\ work'.after = p.n /\ work'.full = work.full /\ work'.touched = work.touched
             /\ work'.clean = work.clean /\ work'.page = page
  BY <1>1, <1>3 DEF Passes
<1>4. CASE work' = [work EXCEPT !.page = @ \ {p}, !.after = p.n] /\ UNCHANGED resv
           /\ ~(p.row.follow /\ \E r \in Target(p.row) : Moves(p.row, r))
  <2>1. work.page \ {p} \in SUBSET work.page
    OBVIOUS
  <2>2. /\ work'.after = p.n /\ work'.full = work.full /\ work'.touched = work.touched
        /\ work'.clean = work.clean /\ work'.page = work.page \ {p}
    BY <1>3, <1>4, <2>1
  <2>3. \A q \in work.page : q.n # p.n => q \in work'.page
    BY <2>2
  <2>4. \A q \in work'.page : q # p
    BY <2>2
  <2> QED
    BY <1>1, <1>2, <1>4, <2>2, <2>3, <2>4 DEF FollowRow
<1>5. ASSUME NEW r \in Target(p.row), ApplyReservationFollow(p.n, p.row, r)
      PROVE  /\ work'.after = p.n /\ work'.full = work.full /\ work'.touched = work.touched
             /\ work'.clean = work.clean /\ work'.page = others
             /\ \/ UNCHANGED resv /\ ~MayMove(p.n, p.row, r)
                \/ MayMove(p.n, p.row, r) /\ resv' = [resv EXCEPT ![p.n] = Moved(resv[p.n], r)]
  <2>1. /\ \/ work' = [work EXCEPT !.page = others, !.after = p.n]
           \/ work' = [work EXCEPT !.page = others, !.after = p.n, !.moved = @ \cup {p.n}]
        /\ \/ UNCHANGED resv /\ ~MayMove(p.n, p.row, r)
           \/ MayMove(p.n, p.row, r) /\ resv' = [resv EXCEPT ![p.n] = Moved(resv[p.n], r)]
    BY <1>5 DEF ApplyReservationFollow, MayMove, Moved
  <2>2. others \in SUBSET work.page
    OBVIOUS
  <2> HIDE DEF others
  <2> QED
    BY <1>3, <2>1, <2>2
<1>6. CASE \E r \in Target(p.row) : ApplyReservationFollow(p.n, p.row, r)
  <2>1. PICK r \in Target(p.row) : ApplyReservationFollow(p.n, p.row, r)
    BY <1>6
  <2> QED
    BY <1>1, <1>2, <1>5, <2>1 DEF FollowRow
<1> QED
  BY <1>2, <1>4, <1>6

LEMMA MovedFields ==
    ASSUME TypeOK, NEW row \in ResvRows, NEW read, NEW r \in Target(read)
    PROVE  /\ Moved(row, r) \in ResvRows
           /\ Moved(row, r).loc = row.loc /\ Moved(row, r).inst = row.inst
           /\ Moved(row, r).state = row.state /\ Moved(row, r).attempt = row.attempt
           /\ Moved(row, r).number = r.number /\ Moved(row, r).attStart = row.attStart
           /\ Moved(row, r).start = r.content.start /\ Moved(row, r).dur = r.content.dur
           /\ row.attempt = "open" =>
                 Moved(row, r).attEnd = Fits(r.content.start, r.content.dur, row.attStart)
<1>1. r.number \in 1 .. Generations /\ r.content.start \in Nat /\ r.content.dur \in Nat
  BY TargetTyped
<1>2. MovedRow(row, r) \in ResvRows /\ MovedWithEnd(row, r) \in ResvRows
  BY <1>1, MovedTyped
<1>3. /\ MovedRow(row, r).loc = row.loc /\ MovedRow(row, r).inst = row.inst
      /\ MovedRow(row, r).state = row.state /\ MovedRow(row, r).attempt = row.attempt
      /\ MovedRow(row, r).number = r.number /\ MovedRow(row, r).attStart = row.attStart
      /\ MovedRow(row, r).start = r.content.start /\ MovedRow(row, r).dur = r.content.dur
  BY DEF MovedRow, ResvRows
<1> DEFINE moved == MovedRow(row, r)
           ended == MovedWithEnd(row, r)
<1>4. /\ ended.loc = moved.loc /\ ended.inst = moved.inst /\ ended.state = moved.state
      /\ ended.attempt = moved.attempt /\ ended.number = moved.number /\ ended.attStart = moved.attStart
      /\ ended.start = moved.start /\ ended.dur = moved.dur
      /\ ended.attEnd = Fits(r.content.start, r.content.dur, row.attStart)
  <2>1. ended = [moved EXCEPT !.attEnd = Fits(r.content.start, r.content.dur, row.attStart)]
    BY DEF MovedWithEnd
  <2>2. moved \in ResvRows
    BY <1>2
  <2> HIDE DEF moved, ended
  <2> QED
    BY <2>1, <2>2 DEF ResvRows
<1> HIDE DEF moved, ended
<1> QED
  BY <1>2, <1>3, <1>4 DEF Moved, moved, ended

\* How one reservation's row may change in a step.
CreatedNow(n) ==
    /\ CreateReservation /\ resv[n].state = "absent" /\ work'.touched = work.touched \cup {n}
    /\ told'[n] = resv'[n].start
    /\ \E r \in request.found, follow \in BOOLEAN :
          resv'[n] = NewResv(r, follow) /\ ~\E m \in Active : resv[m].loc = r.loc
UserChanged(n) ==
    /\ Users /\ resv[n].state = "ACTIVE" /\ resv'[n] \in ResvRows
    /\ resv'[n].loc = resv[n].loc /\ resv'[n].inst = resv[n].inst /\ resv'[n].number = resv[n].number
    /\ resv'[n].start = resv[n].start /\ resv'[n].dur = resv[n].dur
    /\ told' \in {told, Starts}
    /\ \/ /\ resv'[n].state = "ACTIVE" /\ resv'[n].attempt = "none" /\ resv[n].attempt = "none"
          /\ n \in work'.touched
       \/ resv'[n].state = "FINISHED"
       \/ /\ resv'[n].state = "ACTIVE" /\ resv'[n].attempt = "open"
          /\ resv'[n].attStart = resv'[n].start /\ resv'[n].attEnd = resv'[n].start + resv'[n].dur
       \/ resv'[n].state = "ACTIVE" /\ resv'[n].attempt = "closing"
FollowMoved(n) ==
    \E p \in work.page : \E r \in Target(p.row) :
       p.n = n /\ FollowRow /\ MayMove(n, p.row, r) /\ resv'[n] = Moved(resv[n], r)

LEMMA ResvMoves ==
    ASSUME TypeOK, Next, NEW n \in Numbers
    PROVE  resv'[n] = resv[n] \/ CreatedNow(n) \/ UserChanged(n) \/ FollowMoved(n)
<1>1. resv \in [Numbers -> ResvRows] /\ work \in Passes /\ resv[n] \in ResvRows
  BY DEF TypeOK
<1>2. CASE CreateReservation
  <2>1. PICK r \in request.found, m \in Numbers, follow \in BOOLEAN :
              /\ ~\E k \in Active : resv[k].loc = r.loc
              /\ resv[m].state = "absent" /\ resv' = [resv EXCEPT ![m] = NewResv(r, follow)]
              /\ told' = [Starts EXCEPT ![m] = r.content.start]
              /\ work' = [work EXCEPT !.touched = @ \cup {m}]
    BY <1>1, <1>2, Created
  <2>2. resv'[m].start = r.content.start /\ told'[m] = r.content.start
    BY <1>1, <2>1 DEF NewResv, Starts
  <2>3. work'.touched = work.touched \cup {m}
    BY <1>1, <2>1 DEF Passes
  <2> QED
    BY <1>1, <1>2, <2>1, <2>2, <2>3 DEF CreatedNow
<1>3. ASSUME NEW m \in Numbers, ChangeFollow(m) \/ Cancel(m) \/ Claim(m) \/ Close(m) \/ Finish(m)
      PROVE  resv'[n] = resv[n] \/ UserChanged(n)
  <2>1. PICK row \in ResvRows :
              /\ resv' = [resv EXCEPT ![m] = row] /\ resv[m].state = "ACTIVE"
              /\ row.loc = resv[m].loc /\ row.inst = resv[m].inst /\ row.number = resv[m].number
              /\ row.start = resv[m].start /\ row.dur = resv[m].dur
              /\ \/ /\ row.state = "ACTIVE" /\ row.attempt = "none" /\ resv[m].attempt = "none"
                    /\ work' = [work EXCEPT !.touched = @ \cup {m}]
                 \/ row.state = "FINISHED"
                 \/ /\ row.state = "ACTIVE" /\ row.attempt = "open"
                    /\ row.attStart = row.start /\ row.attEnd = row.start + row.dur
                 \/ row.state = "ACTIVE" /\ row.attempt = "closing"
    BY SMTT(30), <1>1, <1>3, UserRows
  <2>2. Users /\ told' \in {told, Starts}
    BY <1>3 DEF Users, ChangeFollow, Cancel, Claim, Close, Finish
  <2>3. work' = [work EXCEPT !.touched = @ \cup {m}] => m \in work'.touched
    BY <1>1 DEF Passes
  <2>4. resv'[n] = IF n = m THEN row ELSE resv[n]
    BY <1>1, <2>1
  <2> QED
    BY <2>1, <2>2, <2>3, <2>4 DEF UserChanged
<1>4. CASE FollowRow
  <2>1. PICK p \in work.page :
           \/ UNCHANGED resv
           \/ \E r \in Target(p.row) :
                 /\ MayMove(p.n, p.row, r)
                 /\ resv' = [resv EXCEPT ![p.n] = Moved(resv[p.n], r)]
    BY <1>1, <1>4, FollowSteps
  <2>2. UNCHANGED resv \/ n # p.n => resv'[n] = resv[n]
    BY <1>1, <2>1
  <2> QED
    BY <1>1, <1>4, <2>1, <2>2 DEF FollowMoved
<1> QED
  BY <1>2, <1>3, <1>4, PassFrames, UserFrames

\* The revision a reservation names outlives every step: nothing prunes it
\* while the reservation exists, and the follow names one that is there.
LEMMA ReservationsRefer ==
    ASSUME StoreInv, PageRead, Next, NEW n \in Numbers, resv'[n].state # "absent"
    PROVE  Revision(resv[n].loc, resv[n].inst, resv[n].number)' # {}
<1>1. TypeOK /\ RefsExist /\ RequestKeeps /\ resv[n] \in ResvRows
  BY DEF StoreInv, TypeOK
<1>2. ASSUME NEW r \in revisions', r.loc = resv'[n].loc, r.inst = resv'[n].inst, r.number = resv'[n].number
      PROVE  Revision(resv[n].loc, resv[n].inst, resv[n].number)' # {}
  BY <1>2 DEF Revision
<1>3. ASSUME resv[n].state # "absent", resv'[n].loc = resv[n].loc, resv'[n].inst = resv[n].inst,
             resv'[n].number = resv[n].number
      PROVE  Revision(resv[n].loc, resv[n].inst, resv[n].number)' # {}
  <2>1. PICK r \in revisions : r.loc = resv[n].loc /\ r.inst = resv[n].inst /\ r.number = resv[n].number
    BY <1>1, <1>3 DEF RefsExist, Revision
  <2>2. Reserved(r.loc, r.inst)
    BY <1>3, <2>1 DEF Reserved
  <2>3. r \in revisions'
    BY <2>1, <2>2, RevisionStays
  <2> QED
    BY <1>2, <1>3, <2>1, <2>3
<1>4. CASE resv'[n] = resv[n]
  BY <1>3, <1>4
<1>5. CASE UserChanged(n)
  BY <1>3, <1>5 DEF UserChanged
<1>6. CASE CreatedNow(n)
  <2>1. PICK r \in request.found, follow \in BOOLEAN : resv'[n] = NewResv(r, follow)
    BY <1>6 DEF CreatedNow
  <2>2. r \in revisions /\ UNCHANGED revisions
    BY <1>1, <1>6 DEF RequestKeeps, CreatedNow, CreateReservation, catalogueVars
  <2> QED
    BY <1>2, <2>1, <2>2 DEF NewResv
<1>7. CASE FollowMoved(n)
  <2>1. PICK p \in work.page : \E r \in Target(p.row) :
           p.n = n /\ FollowRow /\ MayMove(n, p.row, r) /\ resv'[n] = Moved(resv[n], r)
    BY <1>7 DEF FollowMoved
  <2>2. PICK r \in Target(p.row) :
           p.n = n /\ FollowRow /\ MayMove(n, p.row, r) /\ resv'[n] = Moved(resv[n], r)
    BY <2>1
  <2>3. resv[n].loc = p.row.loc /\ resv[n].inst = p.row.inst /\ UNCHANGED revisions
    BY <2>2 DEF PageRead, FollowRow, catalogueVars
  <2>4. r \in revisions /\ r.loc = p.row.loc /\ r.inst = p.row.inst
    BY <1>1, TargetTyped
  <2> QED
    BY <1>1, <1>2, <2>2, <2>3, <2>4, MovedFields
<1> QED
  BY <1>1, <1>4, <1>5, <1>6, <1>7, ResvMoves

LEMMA RefsKept ==
    ASSUME StoreInv, PageRead, Next
    PROVE  RefsExist'
BY ObservationsRefer, InstancesRefer, ReservationsRefer DEF RefsExist

-----------------------------------------------------------------------------
(* A request's generation.                                                 *)

\* An observation of a generation that the retention protects is not pruned.
LEMMA ProtectedStay ==
    ASSUME StoreInv, Next
    PROVE  /\ \A o \in progObs : o \in progObs' \/ (PruneBatch /\ o.sync \in Unprotected)
           /\ \A o \in svcObs : o \in svcObs' \/ (PruneBatch /\ o[1] \in Unprotected)
<1>1. CASE PruneBatch
  BY <1>1, PruneChanges DEF StoreInv, PruneShape, ObservationsPruned, ServiceObservationsPruned
<1>2. CASE ConsumeService
  BY <1>2, ServiceStored
<1>3. CASE ConsumeProgram
  <2>1. PICK loc \in work.left :
           /\ pc = "programs" /\ UNCHANGED svcObs
           /\ \/ StoredInvalid(work.sync, loc)
              \/ \E q, class : StoredValid(work.sync, loc, q, class)
    BY <1>3, WalkStores
  <2>2. progObs \subseteq progObs'
    <3>1. CASE StoredInvalid(work.sync, loc)
      BY <3>1 DEF StoredInvalid
    <3>2. ASSUME NEW q, NEW class, StoredValid(work.sync, loc, q, class)
          PROVE  progObs \subseteq progObs'
      BY <2>1, <3>2, StoredRevision
    <3> QED
      BY <2>1, <3>1, <3>2
  <2> QED
    BY <2>1, <2>2
<1> QED
  BY <1>1, <1>2, <1>3, TablesChange DEF tables

LEMMA RequestsKept ==
    ASSUME StoreInv, Next
    PROVE  RequestKeeps'
<1>1. TypeOK /\ HolderIsLatest /\ RequestKeeps /\ RefsExist
  BY DEF StoreInv
<1>2. pc' = "down" => request' = NoRequest
  <2>1. CASE Users
    BY <1>1, <2>1, UserSteps
  <2>2. CASE RefreshQuiet
    BY <2>2 DEF RefreshQuiet, PruneDone, ServicesEnd, ProgramsEnd, Validate, Publish,
       FollowPage, FollowRow, FollowPageEnd, NextPage, PruneCut, SyncError, FollowError, Crash, NextPass, StartPass
  <2>3. CASE PruneBatch \/ Begin \/ ConsumeService \/ ConsumeProgram \/ Complete \/ Fail \/ Restart
    BY <2>3 DEF PruneBatch, Begin, ConsumeService, ConsumeProgram, Complete, Fail, Restart, StartPass
  <2> QED
    BY <2>1, <2>2, <2>3, NextSteps
<1>3. CASE request' = NoRequest
  BY <1>3 DEF RequestKeeps, NoRequest
<1>4. CASE AddBegins
  <2>1. UNCHANGED catalogueVars /\ UNCHANGED <<pc, holder>> /\ pc # "down"
    BY <1>4 DEF AddBegins, Op, Up
  <2>2. PICK loc \in Configured : \E r \in Programs(holder, loc) :
           r.content.dur >= 1 /\ request' = [NoRequest EXCEPT !.gen = holder, !.found = {r}]
    BY <1>4 DEF AddBegins
  <2>3. PICK r \in Programs(holder, loc) :
           r.content.dur >= 1 /\ request' = [NoRequest EXCEPT !.gen = holder, !.found = {r}]
    BY <2>2
  <2>4. request'.gen = holder /\ request'.crossed = 0 /\ request'.found = {r}
    BY <2>3 DEF NoRequest
  <2>5. /\ holder \in Completed
        /\ pc \in BeforeCompletion => NewerThan(holder) = {}
        /\ \A a, b \in NewerThan(holder) : a = b
    BY <1>1, <2>1 DEF HolderIsLatest, BeforeCompletion
  <2>6. Completed' = Completed /\ NewerThan(request.gen)' = NewerThan(holder)
    BY <2>1, <2>4 DEF Completed, NewerThan, catalogueVars
  <2>7. /\ r \in revisions /\ r.loc = loc
        /\ \E o \in progObs : o.sync = holder /\ o.loc = loc /\ o.inst = r.inst /\ o.number = r.number
    BY DEF Programs, Revision
  <2> QED
    BY <1>2, <2>1, <2>3, <2>4, <2>5, <2>6, <2>7 DEF RequestKeeps, catalogueVars
<1>5. CASE /\ request # NoRequest /\ request' # NoRequest
           /\ request' = request \/ (NextPass /\ request' = [request EXCEPT !.crossed = 1] /\ request.crossed = 0)
  <2>1. /\ request'.gen = request.gen /\ request'.found = request.found
        /\ request'.crossed = request.crossed \/ (NextPass /\ request'.crossed = 1 /\ request.crossed = 0)
    BY <1>1, <1>5 DEF TypeOK
  <2>2. PICK g : g = request.gen
    OBVIOUS
  <2>3. g \in Completed /\ (PruneBatch => g \notin Unprotected)
    <3>1. PruneBatch => pc \in BeforeCompletion
      BY DEF PruneBatch, BeforeCompletion
    <3> QED
      BY <1>1, <1>5, <2>2, <3>1, LatestProtected DEF RequestKeeps
  <2>4. ASSUME NEW r \in request.found
        PROVE  /\ r \in revisions' /\ r.content.dur >= 1
               /\ \E o \in progObs' : o.sync = g /\ o.loc = r.loc /\ o.inst = r.inst /\ o.number = r.number
    <3>1. PICK o \in progObs : o.sync = g /\ o.loc = r.loc /\ o.inst = r.inst /\ o.number = r.number
      BY <1>1, <2>2 DEF RequestKeeps
    <3>2. o \in progObs'
      BY <2>3, <3>1, ProtectedStay
    <3>3. r \in revisions /\ r.content.dur >= 1
      BY <1>1 DEF RequestKeeps
    <3>4. r \in revisions'
      BY <3>1, <3>3, RevisionStays
    <3> QED
      BY <3>1, <3>2, <3>3, <3>4
  <2>5. CASE Complete
    <3>1. pc = "complete" /\ pc' = "publish" /\ request' = request
      BY <2>5 DEF Complete
    <3>2. request.crossed = 0 => NewerThan(g) = {}
      BY <1>1, <1>5, <2>2, <3>1 DEF RequestKeeps, BeforeCompletion
    <3>3. g \in Completed' /\ NewerThan(g)' \subseteq NewerThan(g) \cup {work.sync}
      BY <2>3, <2>5, LatestMoves
    <3>4. request.crossed = 0 => \A a, b \in NewerThan(g)' : a = b
      BY <3>2, <3>3
    <3>5. NewerThan(request.gen)' = NewerThan(g)'
      BY <2>1, <2>2 DEF NewerThan
    <3> QED
      BY <1>2, <2>1, <2>2, <2>4, <3>1, <3>3, <3>4, <3>5 DEF RequestKeeps, BeforeCompletion
  <2>6. CASE ~Complete
    <3>1. g \in Completed' /\ NewerThan(g)' \subseteq NewerThan(g)
      BY <2>3, <2>6, LatestKept
    <3>2. pc' \in BeforeCompletion => pc \in BeforeCompletion \/ (NextPass /\ request' # request)
      <4>1. CASE Users
        BY <4>1, UserFrames
      <4>2. CASE RefreshQuiet /\ ~NextPass
        BY <4>2 DEF RefreshQuiet, PruneDone, ServicesEnd, ProgramsEnd, Validate, Publish, BeforeCompletion,
           FollowPage, FollowRow, FollowPageEnd, NextPage, PruneCut, SyncError, FollowError, Crash
      <4>3. CASE PruneBatch \/ Begin \/ ConsumeService \/ ConsumeProgram \/ Fail
        BY <4>3 DEF PruneBatch, Begin, ConsumeService, ConsumeProgram, Fail, BeforeCompletion
      <4>4. CASE Restart
        BY <1>1, <1>5, <4>4 DEF Restart, RequestKeeps
      <4>5. CASE NextPass
        <5>1. request' = [request EXCEPT !.crossed = 1] /\ request.crossed = 0
          BY <1>5, <4>5 DEF NextPass
        <5>2. request'.crossed = 1 /\ request.crossed # 1
          BY <1>1, <5>1 DEF TypeOK
        <5>3. request' # request
          BY <5>2
        <5> QED
          BY <4>5, <5>3
      <4> QED
        BY <2>6, <4>1, <4>2, <4>3, <4>4, <4>5, NextSteps
    <3>3. /\ pc \in BeforeCompletion /\ request.crossed = 0 => NewerThan(g) = {}
          /\ pc \in BeforeCompletion \/ request.crossed = 0 => \A a, b \in NewerThan(g) : a = b
      BY <1>1, <1>5, <2>2 DEF RequestKeeps
    <3>4. /\ pc' \in BeforeCompletion /\ request'.crossed = 0 => NewerThan(g)' = {}
          /\ pc' \in BeforeCompletion \/ request'.crossed = 0 => \A a, b \in NewerThan(g)' : a = b
      <4>1. request'.crossed = 0 => request.crossed = 0 /\ request' = request
        BY <1>1, <1>5, <2>1 DEF TypeOK
      <4>2. request' # request => request.crossed = 0
        BY <1>5
      <4> QED
        BY <3>1, <3>2, <3>3, <4>1, <4>2
    <3>5. NewerThan(request.gen)' = NewerThan(g)'
      BY <2>1, <2>2 DEF NewerThan
    <3> QED
      BY <1>2, <2>1, <2>2, <2>4, <3>1, <3>4, <3>5 DEF RequestKeeps
  <2> QED
    BY <2>5, <2>6
<1>6. Next => \/ request' = NoRequest \/ AddBegins \/ request' = request
              \/ NextPass /\ request' = [request EXCEPT !.crossed = 1] /\ request.crossed = 0
  BY PassFrames, UserFrames DEF NextPass
<1>7. request = NoRequest /\ request' = request => request' = NoRequest
  OBVIOUS
<1>8. NextPass /\ request = NoRequest => request' = NoRequest
  BY DEF NextPass
<1> QED
  BY <1>3, <1>4, <1>5, <1>6, <1>7, <1>8

-----------------------------------------------------------------------------
(* The walk of a synchronisation.                                          *)

WalkSteps == {"gc", "begin"} \cup Walking
WalkKept ==
    /\ work'.sync = work.sync /\ work'.left = work.left /\ work'.count = work.count
    /\ work'.offer = work.offer /\ work'.cutoff = work.cutoff /\ work'.swept = work.swept
PassStarts == pc' = "gc" /\ work'.count = 0 /\ ~work'.swept /\ work'.cutoff = now' - Retention

LEMMA StartIs ==
    ASSUME TypeOK, NextPass \/ Restart
    PROVE  PassStarts
<1>1. work' = [NoPass EXCEPT !.cutoff = now' - Retention] /\ pc' = "gc"
  BY DEF NextPass, Restart, StartPass
<1> QED
  BY <1>1, NoPassTyped DEF PassStarts, Passes, NoPass

\* A step either leaves the walk, or is one of its own steps, or keeps it as it is.
LEMMA WalkMoves ==
    ASSUME TypeOK, Next
    PROVE  \/ pc' \notin WalkSteps
           \/ Begin \/ ConsumeService \/ ServicesEnd \/ ConsumeProgram \/ ProgramsEnd \/ Validate
           \/ PruneDone \/ (PruneCut /\ WalkKept)
           \/ pc' = pc /\ WalkKept /\ UNCHANGED now /\ (PruneBatch \/ UNCHANGED catalogueVars)
           \/ pc \in Walking /\ pc' = "fail" /\ WalkKept /\ UNCHANGED catalogueVars
           \/ (NextPass \/ Restart) /\ PassStarts
<1>1. work \in Passes
  BY DEF TypeOK
<1>2. CASE Users
  <2>1. WalkKept /\ UNCHANGED <<pc, now>>
    BY <1>1, <1>2, UserSteps DEF Passes, WalkKept
  <2> QED
    BY <1>2, <2>1, QuietSteps
<1>3. CASE PruneBatch
  BY <1>3 DEF PruneBatch, WalkKept
<1>4. CASE PruneCut
  BY <1>4 DEF PruneCut, WalkKept
<1>5. CASE Complete \/ Publish \/ Fail \/ FollowPage \/ FollowRow \/ FollowPageEnd \/ FollowError \/ Crash
  BY <1>5 DEF Complete, Publish, Fail, FollowPage, FollowRow, FollowPageEnd, NextPage, FollowError, Crash,
     WalkSteps, Walking
<1>6. CASE SyncError
  BY <1>6 DEF SyncError, Stuck, WalkKept, WalkSteps, Walking
<1>7. CASE NextPass \/ Restart
  BY <1>7, StartIs
<1> QED
  BY <1>2, <1>3, <1>4, <1>5, <1>6, <1>7, NextSteps DEF RefreshQuiet

\* The steps of the walk, with the fields of the pass.
LEMMA WalkEffects ==
    ASSUME TypeOK
    PROVE  /\ PruneDone => /\ pc = "gc" /\ pc' = "begin" /\ work'.sync = work.sync /\ work'.left = work.left
                           /\ work'.count = work.count /\ work'.offer = work.offer
                           /\ UNCHANGED <<catalogueVars, now>>
           /\ ServicesEnd => /\ pc = "services" /\ pc' = "programs" /\ work'.sync = work.sync
                             /\ work'.left = Locators /\ work'.count = work.count /\ work'.offer = work.offer
                             /\ work'.swept = work.swept /\ UNCHANGED <<catalogueVars, now>>
           /\ ProgramsEnd => /\ pc = "programs" /\ pc' = "validate" /\ WalkKept /\ AtEnd
                             /\ UNCHANGED <<catalogueVars, now>>
           /\ Validate => /\ pc = "validate" /\ pc' = IF Candidate(work.sync) THEN "complete" ELSE "fail"
                          /\ WalkKept /\ UNCHANGED <<catalogueVars, now>>
           /\ PruneCut => pc = "gc" /\ pc' = "begin" /\ WalkKept /\ UNCHANGED <<catalogueVars, now>>
<1>1. work \in Passes
  BY DEF TypeOK
<1>2. PruneDone => /\ pc = "gc" /\ pc' = "begin" /\ work'.sync = work.sync /\ work'.left = work.left
                   /\ work'.count = work.count /\ work'.offer = work.offer
                   /\ UNCHANGED <<catalogueVars, now>>
  BY <1>1 DEF PruneDone, Passes
<1>3. ServicesEnd => /\ pc = "services" /\ pc' = "programs" /\ work'.sync = work.sync
                     /\ work'.left = Locators /\ work'.count = work.count /\ work'.offer = work.offer
                     /\ work'.swept = work.swept /\ UNCHANGED <<catalogueVars, now>>
  BY <1>1 DEF ServicesEnd, Passes
<1> QED
  BY <1>2, <1>3 DEF ProgramsEnd, Validate, PruneCut, WalkKept

\* What the walk takes from the provider's list, one locator at a time.
LEMMA LeftShrinks ==
    ASSUME TypeOK, NEW loc \in work.left, pc = "programs", WalkIsLast,
           work' = [work EXCEPT !.left = @ \ {loc}, !.count = @ + 1]
    PROVE  work'.count + Cardinality(work'.left) <= Cardinality(Locators)
<1>1. work'.left = work.left \ {loc} /\ work'.count = work.count + 1 /\ work.count \in 0 .. Cardinality(Locators)
  BY DEF TypeOK, Passes
<1>2. IsFiniteSet(work.left)
  BY Constants, FS_Subset DEF TypeOK, Passes
<1>3. Cardinality(work.left \ {loc}) = Cardinality(work.left) - 1 /\ Cardinality(work.left) \in Nat
  BY <1>2, FS_RemoveElement, FS_CardinalityType
<1>4. work.count + Cardinality(work.left) <= Cardinality(Locators)
  BY DEF WalkIsLast
<1> QED
  BY <1>1, <1>3, <1>4, Constants

LEMMA WalkStaysLast ==
    ASSUME StoreInv, Next
    PROVE  WalkIsLast'
<1>1. TypeOK /\ TypeOK' /\ WalkIsLast /\ work \in Passes
  BY TypesKept DEF StoreInv, TypeOK
<1>2. ASSUME pc \in Walking, work'.sync = work.sync, UNCHANGED syncs
      PROVE  /\ work'.sync # 0 /\ syncs'[work'.sync].state = "RUNNING"
             /\ \A s \in SyncIds : s > work'.sync => syncs'[s].state = "none"
  BY <1>1, <1>2 DEF WalkIsLast
<1>3. CASE pc' \notin WalkSteps
  BY <1>3 DEF WalkIsLast, WalkSteps, Walking
<1>4. CASE Begin
  <2>1. PICK s \in SyncIds, offer \in [Locators -> Offers] :
           /\ \A q \in SyncIds : (syncs[q].state = "none") <=> q >= s
           /\ BeginSync(s, now)
           /\ work' = [work EXCEPT !.sync = s, !.left = Locators, !.offer = offer]
    BY <1>4 DEF Begin
  <2>2. work'.sync = s /\ work'.count = 0 /\ pc' = "services"
    BY <1>1, <1>4, <2>1 DEF Passes, Begin, WalkIsLast
  <2>3. syncs'[s].state = "RUNNING" /\ \A q \in SyncIds : q # s => syncs'[q] = syncs[q]
    BY <1>1, <2>1, SyncTypes DEF BeginSync
  <2>4. \A q \in SyncIds : q > s => q >= s /\ q # s
    BY Constants DEF SyncIds
  <2>5. s # 0
    BY Constants DEF SyncIds
  <2> QED
    BY <2>1, <2>2, <2>3, <2>4, <2>5 DEF WalkIsLast
<1>5. CASE ConsumeService
  <2>1. pc = "services" /\ pc' = "services" /\ work'.sync = work.sync /\ work'.count = work.count /\ UNCHANGED syncs
    BY <1>1, <1>5, ServiceStored DEF Passes, StoreInv
  <2> QED
    BY <1>1, <1>2, <2>1 DEF WalkIsLast, Walking
<1>6. CASE ServicesEnd
  <2>1. /\ pc = "services" /\ pc' = "programs" /\ work'.sync = work.sync /\ UNCHANGED syncs
        /\ work'.left = Locators /\ work'.count = work.count
    BY <1>1, <1>6, WalkEffects DEF catalogueVars
  <2>2. work.count = 0
    BY <1>1, <2>1 DEF WalkIsLast
  <2>3. work'.count + Cardinality(work'.left) <= Cardinality(Locators)
    BY <2>1, <2>2, Constants
  <2> QED
    BY <1>2, <2>1, <2>3 DEF WalkIsLast, Walking
<1>7. CASE ConsumeProgram
  <2>1. PICK loc \in work.left :
           /\ pc = "programs" /\ UNCHANGED <<syncs, pc>>
           /\ work' = [work EXCEPT !.left = @ \ {loc}, !.count = @ + 1]
    BY <1>7, WalkStores
  <2>2. work'.count + Cardinality(work'.left) <= Cardinality(Locators)
    BY <1>1, <2>1, LeftShrinks
  <2>3. work'.sync = work.sync
    BY <1>1, <2>1 DEF Passes
  <2> QED
    BY <1>2, <2>1, <2>2, <2>3 DEF WalkIsLast, Walking
<1>8. CASE ProgramsEnd \/ Validate
  <2>1. /\ pc \in Walking /\ pc' \in {"validate", "complete", "fail"}
        /\ work'.sync = work.sync /\ UNCHANGED syncs
    BY <1>1, <1>8, WalkEffects DEF catalogueVars, WalkKept, Walking
  <2> QED
    BY <1>2, <2>1 DEF WalkIsLast, Walking
<1>9. CASE PruneDone \/ PruneCut
  <2>1. pc = "gc" /\ pc' = "begin" /\ work'.count = work.count
    BY <1>1, <1>9, WalkEffects DEF WalkKept
  <2> QED
    BY <1>1, <2>1 DEF WalkIsLast, Walking
<1>10. CASE pc' = pc /\ WalkKept /\ (PruneBatch \/ UNCHANGED catalogueVars)
  <2>1. pc \in Walking => UNCHANGED syncs
    BY <1>10 DEF PruneBatch, Walking, catalogueVars
  <2> QED
    BY <1>1, <1>10, <2>1 DEF WalkIsLast, WalkKept
<1>11. CASE pc \in Walking /\ pc' = "fail" /\ WalkKept /\ UNCHANGED catalogueVars
  BY <1>2, <1>11 DEF WalkIsLast, WalkKept, catalogueVars
<1>12. CASE PassStarts
  BY <1>12 DEF WalkIsLast, PassStarts, Walking
<1> QED
  BY <1>1, <1>3, <1>4, <1>5, <1>6, <1>7, <1>8, <1>9, <1>10, <1>11, <1>12, WalkMoves

LEMMA BeginIs ==
    ASSUME TypeOK, Begin
    PROVE  \E s \in SyncIds : BegunNow(s) /\ UNCHANGED tables /\ pc = "begin"
<1>1. PICK s \in SyncIds : BeginSync(s, now)
  BY DEF Begin
<1>2. syncs[s].state = "none" /\ syncs'[s].state = "RUNNING" /\ pc = "begin"
  BY <1>1, SyncTypes DEF BeginSync, Begin
<1>3. Next
  BY DEF Next, Refresh
<1>4. BegunNow(s)
  BY <1>2, <1>3, SyncMoves DEF Ended, PrunedNow, PruneBatch
<1> QED
  BY <1>2, <1>4 DEF Begin, tables

LEMMA ServicesStayWalked ==
    ASSUME StoreInv, Next
    PROVE  ServicesWalked'
<1>1. TypeOK /\ ServicesWalked /\ work \in Passes
  BY DEF StoreInv, TypeOK
<1>2. CASE pc' \notin {"services", "programs", "validate", "complete"}
  BY <1>2 DEF ServicesWalked
<1>3. CASE Begin
  <2>1. PICK s \in SyncIds : BegunNow(s)
    BY <1>1, <1>3, BeginIs
  <2>2. work'.sync = s /\ pc' = "services" /\ work'.left = Locators /\ svcObs' = svcObs
    BY <2>1 DEF BegunNow, Begin
  <2>3. \A loc \in Locators : <<s, loc>> \notin svcObs
    BY <2>1 DEF BegunNow, StoreInv, RefsExist
  <2> QED
    BY <2>2, <2>3 DEF ServicesWalked
<1>4. CASE ConsumeService
  <2>1. PICK loc \in work.left :
           /\ work.offer[loc].svc /\ pc = "services" /\ pc' = pc
           /\ svcObs' = svcObs \cup {<<work.sync, loc>>}
           /\ work' = [work EXCEPT !.left = @ \ {loc}]
    BY <1>4, ServiceStored
  <2>2. work'.left = work.left \ {loc} /\ work'.sync = work.sync /\ work'.offer = work.offer
    BY <1>1, <2>1 DEF Passes
  <2>3. \A q \in Locators : <<work.sync, q>> \in svcObs' <=> (q = loc \/ <<work.sync, q>> \in svcObs)
    BY <2>1
  <2>4. \A q \in Locators : /\ <<work.sync, q>> \in svcObs <=> q \notin work.left
                            /\ q \notin work.left => work.offer[q].svc
    BY <1>1, <2>1 DEF ServicesWalked
  <2> QED
    BY <2>1, <2>2, <2>3, <2>4 DEF ServicesWalked
<1>5. CASE ServicesEnd
  <2>1. /\ pc = "services" /\ pc' = "programs" /\ work'.sync = work.sync /\ work'.offer = work.offer
        /\ svcObs' = svcObs /\ \A loc \in work.left : ~work.offer[loc].svc
    BY <1>1, <1>5, WalkEffects DEF catalogueVars, ServicesEnd
  <2> QED
    BY <1>1, <2>1 DEF ServicesWalked
<1>6. ASSUME pc = pc' \/ (pc = "programs" /\ pc' = "validate"),
             pc \notin {"services", "complete"}, work'.sync = work.sync, work'.offer = work.offer, svcObs' = svcObs
      PROVE  ServicesWalked'
  BY <1>1, <1>6 DEF ServicesWalked
<1>7. CASE ConsumeProgram
  <2>1. pc = "programs" /\ pc' = pc /\ svcObs' = svcObs
        /\ \E loc \in work.left : work' = [work EXCEPT !.left = @ \ {loc}, !.count = @ + 1]
    BY <1>7, WalkStores DEF StoreInv
  <2>2. work'.sync = work.sync /\ work'.offer = work.offer
    BY <1>1, <2>1 DEF Passes
  <2> QED
    BY <1>6, <2>1, <2>2
<1>8. CASE ProgramsEnd
  BY <1>1, <1>6, <1>8, WalkEffects DEF WalkKept, catalogueVars
<1>9. CASE Validate
  <2>1. pc = "validate" /\ WalkKept /\ UNCHANGED catalogueVars
        /\ pc' = IF Candidate(work.sync) THEN "complete" ELSE "fail"
    BY <1>1, <1>9, WalkEffects
  <2>2. pc' = "complete" => Candidate(work.sync)'
    BY <2>1 DEF WalkKept, catalogueVars, Candidate, ServicesOf
  <2> QED
    BY <1>1, <2>1, <2>2 DEF ServicesWalked, WalkKept, catalogueVars
<1>10. CASE pc' = pc /\ WalkKept /\ (PruneBatch \/ UNCHANGED catalogueVars)
  <2>1. PruneBatch => pc = "gc"
    BY DEF PruneBatch
  <2>2. UNCHANGED catalogueVars /\ pc = "complete" => Candidate(work.sync)'
    BY <1>1, <1>10 DEF ServicesWalked, WalkKept, catalogueVars, Candidate, ServicesOf
  <2> QED
    BY <1>1, <1>10, <2>1, <2>2 DEF ServicesWalked, WalkKept, catalogueVars
<1>11. CASE PruneDone \/ PruneCut \/ PassStarts \/ pc' \notin WalkSteps
  BY <1>1, <1>2, <1>11, WalkEffects DEF PassStarts, WalkSteps, Walking
<1> QED
  BY <1>1, <1>2, <1>3, <1>4, <1>5, <1>7, <1>8, <1>9, <1>10, <1>11, WalkMoves

\* The observation that one programme of the walk adds, and its revision.
WalkObserved(loc, new, q) ==
    /\ loc \in work.left /\ loc \in Locators /\ pc = "programs" /\ work.sync \in SyncIds /\ work.sync \in Running
    /\ UNCHANGED <<syncs, svcObs, pc, now>>
    /\ work' = [work EXCEPT !.left = @ \ {loc}, !.count = @ + 1]
    /\ progObs' = progObs \cup {new} /\ new.sync = work.sync /\ new.loc = loc
    /\ \/ new.inst = 0 /\ UNCHANGED <<instances, revisions>>
       \/ /\ q \in revisions' /\ q.loc = loc /\ new.inst = q.inst /\ new.number = q.number
          /\ Successor(loc, q) /\ instances[loc].inst \in {0, q.inst}
          /\ instances' = [instances EXCEPT ![loc] = [inst |-> q.inst, seen |-> syncs[work.sync].started]]
          /\ revisions' \in {revisions, revisions \cup {q}}

LEMMA WalkObserves ==
    ASSUME StoreInv, ConsumeProgram
    PROVE  \E loc, new, q : WalkObserved(loc, new, q)
<1>1. PICK loc \in work.left :
         /\ loc \in Locators /\ pc = "programs" /\ work.sync \in SyncIds /\ work.sync \in Running
         /\ UNCHANGED <<syncs, svcObs, pc, now>>
         /\ work' = [work EXCEPT !.left = @ \ {loc}, !.count = @ + 1]
         /\ \/ StoredInvalid(work.sync, loc)
            \/ \E q, class : StoredValid(work.sync, loc, q, class)
  BY WalkStores
<1>2. CASE StoredInvalid(work.sync, loc)
  <2> DEFINE new == Observation(work.sync, loc, 0, 0, "INVALID")
  <2>1. new.sync = work.sync /\ new.loc = loc /\ new.inst = 0
    BY DEF Observation
  <2>2. progObs' = progObs \cup {new} /\ UNCHANGED <<instances, revisions>>
    BY <1>2 DEF StoredInvalid
  <2> HIDE DEF new
  <2> QED
    BY <1>1, <2>1, <2>2 DEF WalkObserved
<1>3. ASSUME NEW q, NEW class, StoredValid(work.sync, loc, q, class)
      PROVE  \E new :
                /\ progObs' = progObs \cup {new} /\ new.sync = work.sync /\ new.loc = loc
                /\ q \in revisions' /\ q.loc = loc /\ new.inst = q.inst /\ new.number = q.number
                /\ Successor(loc, q) /\ instances[loc].inst \in {0, q.inst}
                /\ instances' = [instances EXCEPT ![loc] = [inst |-> q.inst, seen |-> syncs[work.sync].started]]
                /\ revisions' \in {revisions, revisions \cup {q}}
  <2> DEFINE new == Observation(work.sync, loc, q.inst, q.number, class)
  <2>1. new.sync = work.sync /\ new.loc = loc /\ new.inst = q.inst /\ new.number = q.number
    BY DEF Observation
  <2>2. /\ progObs' = progObs \cup {new} /\ q.loc = loc /\ instances[loc].inst \in {0, q.inst}
        /\ instances' = [instances EXCEPT ![loc] = [inst |-> q.inst, seen |-> syncs[work.sync].started]]
        /\ revisions' \in {revisions, revisions \cup {q}} /\ q \in revisions'
    BY <1>1, <1>3, StoredRevision DEF RevisionsOf
  <2>3. Successor(loc, q)
    BY <1>3 DEF StoredValid
  <2> HIDE DEF new
  <2> QED
    BY <2>1, <2>2, <2>3
<1> QED
  BY <1>1, <1>2, <1>3 DEF WalkObserved

LEMMA ProgramsStayWalked ==
    ASSUME StoreInv, Next
    PROVE  ProgramsWalked'
<1>1. TypeOK /\ ProgramsWalked /\ work \in Passes /\ RowsKeyed /\ RefsExist
  BY DEF StoreInv, TypeOK
<1>2. CASE pc' \notin {"services", "programs", "validate", "complete"}
  BY <1>2 DEF ProgramsWalked
<1>3. CASE Begin
  <2>1. PICK s \in SyncIds : BegunNow(s) /\ UNCHANGED tables
    BY <1>1, <1>3, BeginIs
  <2>2. work'.sync = s /\ pc' = "services" /\ progObs' = progObs /\ revisions' = revisions
    BY <2>1 DEF BegunNow, tables
  <2>3. \A o \in progObs : o.sync # s
    BY <1>1, <2>1 DEF BegunNow, RefsExist
  <2>4. \A r \in revisions : r.number < s
    <3> TAKE r \in revisions
    <3>1. r.number \in SyncIds
      BY <1>1 DEF TypeOK, CatalogueTypeOK, Revisions, SyncIds
    <3>2. syncs[r.number].state # "none"
      BY <1>1 DEF RowsKeyed
    <3> QED
      BY <2>1, <3>1, <3>2, Constants DEF BegunNow, SyncIds
  <2> QED
    BY <2>2, <2>3, <2>4 DEF ProgramsWalked
<1>4. CASE ConsumeService
  <2>1. pc = "services" /\ pc' = pc /\ progObs' = progObs /\ revisions' = revisions /\ work'.sync = work.sync
    BY <1>1, <1>4, ServiceStored DEF Passes, StoreInv
  <2> QED
    BY <1>1, <2>1 DEF ProgramsWalked
<1>5. CASE ServicesEnd
  <2>1. /\ pc = "services" /\ pc' = "programs" /\ work'.sync = work.sync /\ work'.left = Locators
        /\ progObs' = progObs /\ revisions' = revisions
    BY <1>1, <1>5, WalkEffects DEF catalogueVars
  <2> QED
    BY <1>1, <2>1 DEF ProgramsWalked
<1>6. CASE ConsumeProgram
  <2>1. \E loc \in work.left : work.offer[loc].prog # "none"
           /\ work' = [work EXCEPT !.left = @ \ {loc}, !.count = @ + 1]
    BY <1>6, WalkStores
  <2>2. PICK loc, new, q : WalkObserved(loc, new, q)
    BY <1>6, WalkObserves
  <2>3. work'.left = work.left \ {loc} /\ work'.sync = work.sync /\ work'.offer = work.offer
    BY <1>1, <2>2 DEF Passes, WalkObserved
  <2>4. work.offer[loc].prog # "none"
    BY <1>1, <2>1, <2>2, <2>3 DEF Passes, WalkObserved
  <2>5. \A l \in Locators : (\E o \in progObs' : o.sync = work.sync /\ o.loc = l)
                               <=> (l = loc \/ \E o \in progObs : o.sync = work.sync /\ o.loc = l)
    BY <2>2 DEF WalkObserved
  <2>6. \A r \in revisions' : r \in revisions \/ r.loc = loc
    BY <2>2 DEF WalkObserved
  <2> QED
    BY <1>1, <2>2, <2>3, <2>4, <2>5, <2>6 DEF ProgramsWalked, WalkObserved
<1>7. CASE ProgramsEnd
  <2>1. /\ pc = "programs" /\ pc' = "validate" /\ WalkKept /\ progObs' = progObs /\ revisions' = revisions
        /\ \A loc \in work.left : work.offer[loc].prog = "none"
    BY <1>1, <1>7, WalkEffects DEF catalogueVars, AtEnd
  <2> QED
    BY <1>1, <2>1 DEF ProgramsWalked, WalkKept
<1>8. CASE Validate
  <2>1. /\ pc = "validate" /\ pc' \in {"complete", "fail"} /\ WalkKept /\ progObs' = progObs /\ revisions' = revisions
    BY <1>1, <1>8, WalkEffects DEF catalogueVars
  <2> QED
    BY <1>1, <2>1 DEF ProgramsWalked, WalkKept
<1>9. CASE pc' = pc /\ WalkKept /\ (PruneBatch \/ UNCHANGED catalogueVars)
  <2>1. PruneBatch => pc = "gc"
    BY DEF PruneBatch
  <2> QED
    BY <1>1, <1>9, <2>1 DEF ProgramsWalked, WalkKept, catalogueVars
<1>10. CASE PruneDone \/ PruneCut \/ PassStarts \/ pc' \notin WalkSteps
  BY <1>1, <1>2, <1>10, WalkEffects DEF PassStarts, WalkSteps, Walking
<1> QED
  BY <1>1, <1>2, <1>3, <1>4, <1>5, <1>6, <1>7, <1>8, <1>9, <1>10, WalkMoves

\* A generation shows at most one revision of a locator.
LEMMA ShownOnce ==
    ASSUME TypeOK, RowsKeyed, NEW g, NEW loc, NEW a \in Programs(g, loc), NEW b \in Programs(g, loc)
    PROVE  a = b
<1>1. PICK o \in progObs : o.sync = g /\ o.loc = loc /\ a \in Revision(loc, o.inst, o.number)
  BY DEF Programs
<1>2. PICK p \in progObs : p.sync = g /\ p.loc = loc /\ b \in Revision(loc, p.inst, p.number)
  BY DEF Programs
<1>3. o = p
  BY <1>1, <1>2 DEF RowsKeyed
<1> QED
  BY <1>1, <1>2, <1>3 DEF RowsKeyed, Revision

\* A programme stored in the walk leaves what other observations refer to.
LEMMA ReferredSame ==
    ASSUME StoreInv, ConsumeProgram, NEW o \in progObs
    PROVE  Revision(o.loc, o.inst, o.number)' = Revision(o.loc, o.inst, o.number)
<1>1. PICK loc \in work.left :
         /\ pc = "programs"
         /\ \/ StoredInvalid(work.sync, loc)
            \/ \E q, class : StoredValid(work.sync, loc, q, class)
  BY WalkStores
<1>2. CASE revisions' = revisions
  BY <1>2 DEF Revision
<1>3. ASSUME NEW q, NEW class, StoredValid(work.sync, loc, q, class), revisions' # revisions
      PROVE  Revision(o.loc, o.inst, o.number)' = Revision(o.loc, o.inst, o.number)
  <2>1. /\ q \in Revisions /\ revisions' = revisions \cup {q} /\ q.loc = loc
        /\ \A r \in revisions : r.loc = loc => r.inst = q.inst /\ r.number < q.number
    BY <1>1, <1>3, StoredRevision
  <2>2. ~(q.loc = o.loc /\ q.inst = o.inst /\ q.number = o.number)
    <3>1. CASE o.class = "INVALID"
      <4>1. o.inst = 0 /\ q.inst # 0
        BY <2>1, <3>1, Constants DEF StoreInv, RowsKeyed, Revisions
      <4> QED
        BY <4>1
    <3>2. CASE o.class # "INVALID"
      <4>1. PICK r \in revisions : r.loc = o.loc /\ r.inst = o.inst /\ r.number = o.number
        BY <3>2 DEF StoreInv, RefsExist, Revision
      <4>2. r.number \in Nat /\ q.number \in Nat
        BY <2>1, Constants DEF StoreInv, TypeOK, CatalogueTypeOK, Revisions
      <4> QED
        BY <2>1, <4>1, <4>2
    <3> QED
      BY <3>1, <3>2
  <2> QED
    BY <2>1, <2>2 DEF Revision
<1> QED
  BY <1>1, <1>2, <1>3 DEF StoredInvalid

\* The latest generation shows the same until the next one is completed.
LEMMA ShownSame ==
    ASSUME StoreInv, ConsumeProgram, NEW loc
    PROVE  CurrentPrograms(loc)' = CurrentPrograms(loc)
<1>1. PICK w, new : w \in SyncIds /\ w \in Running /\ UNCHANGED syncs /\ progObs' = progObs \cup {new} /\ new.sync = w
  BY WalkObserves DEF WalkObserved
<1>2. PICK g : g = LatestCompleted
  OBVIOUS
<1>3. g \in Completed /\ LatestCompleted' = g /\ g # w
  <2>1. LatestCompleted' = LatestCompleted
    BY <1>1 DEF LatestCompleted, Completed, NewerThan
  <2> QED
    BY <1>1, <1>2, <2>1 DEF StoreInv, HolderIsLatest, Completed, Running
<1>4. {p \in progObs' : p.sync = g /\ p.loc = loc} = {p \in progObs : p.sync = g /\ p.loc = loc}
  BY <1>1, <1>3
<1>5. \A p \in progObs : p.loc = loc => Revision(loc, p.inst, p.number)' = Revision(loc, p.inst, p.number)
  BY ReferredSame
<1>6. Programs(g, loc)' = Programs(g, loc)
  <2>1. UNION {Revision(loc, o.inst, o.number)' : o \in {p \in progObs' : p.sync = g /\ p.loc = loc}} =
           UNION {Revision(loc, o.inst, o.number) : o \in {p \in progObs : p.sync = g /\ p.loc = loc}}
    BY <1>4, <1>5
  <2> QED
    BY <1>1, <2>1 DEF Programs
<1> QED
  BY <1>2, <1>3, <1>6 DEF CurrentPrograms

LEMMA ShownKept ==
    ASSUME StoreInv, Next, ~Complete, ~ConsumeProgram, ~PruneBatch, NEW loc
    PROVE  CurrentPrograms(loc)' = CurrentPrograms(loc) /\ UNCHANGED <<progObs, revisions>>
<1>1. UNCHANGED <<progObs, revisions>>
  <2>1. CASE ConsumeService
    BY <2>1, ServiceStored
  <2> QED
    BY <2>1, TablesChange DEF tables
<1>2. PICK g : g = LatestCompleted
  OBVIOUS
<1>3. g \in Completed /\ LatestCompleted' = g /\ g \in Completed'
  <2>1. g \in Completed
    BY <1>2 DEF StoreInv, HolderIsLatest
  <2> QED
    BY <1>2, <2>1, LatestKept
<1>4. Programs(g, loc)' = Programs(g, loc)
  <2>1. syncs[g].state = "COMPLETED" /\ syncs'[g].state = "COMPLETED"
    BY <1>3 DEF Completed
  <2> QED
    BY <1>1, <2>1 DEF Programs, Revision
<1> QED
  BY <1>1, <1>2, <1>3, <1>4 DEF CurrentPrograms

LEMMA ShownFields ==
    ASSUME StoreInv, NEW loc, NEW r \in CurrentPrograms(loc)
    PROVE  r \in revisions /\ r.loc = loc /\ r \in Revisions /\ r.inst # 0
           /\ instances[loc].inst = r.inst /\ r \in Reference(loc)
<1>1. r \in revisions /\ r.loc = loc
  BY DEF CurrentPrograms, Programs, Revision
<1>2. r \in Revisions /\ instances[r.loc].inst = r.inst
  BY <1>1 DEF StoreInv, TypeOK, CatalogueTypeOK, RefsExist
<1> QED
  BY <1>1, <1>2, Constants DEF Revisions, Reference

LEMMA SuccessorsStayVerified ==
    ASSUME StoreInv, Next
    PROVE  SuccessorsVerified'
<1>1. TypeOK /\ TypeOK' /\ RowsKeyed /\ RowsKeyed' /\ SuccessorsVerified /\ ProgramsWalked /\ work \in Passes
  BY TypesKept, RowsStayKeyed DEF StoreInv, TypeOK
<1>2. CASE pc' \notin {"programs", "validate", "complete"}
  BY <1>2 DEF SuccessorsVerified
<1>3. ASSUME pc \in {"services", "programs", "validate", "complete"}, work'.sync = work.sync,
             ~Complete, ~ConsumeProgram, ~PruneBatch
      PROVE  SuccessorsVerified'
  <2>1. UNCHANGED <<progObs, revisions>> /\ \A loc : CurrentPrograms(loc)' = CurrentPrograms(loc)
    BY <1>3, ShownKept
  <2>2. \A loc, inst, number : Revision(loc, inst, number)' = Revision(loc, inst, number)
    BY <2>1 DEF Revision
  <2>3. CASE pc = "services"
    BY <1>1, <1>3, <2>1, <2>3 DEF ProgramsWalked, SuccessorsVerified
  <2>4. CASE pc # "services"
    <3>1. \A o \in progObs : o.sync = work.sync =>
            \A new \in Revision(o.loc, o.inst, o.number), old \in CurrentPrograms(o.loc) :
                old.inst = new.inst /\ old # new => Within(old.content, new.content)
      BY <1>1, <1>3, <2>4 DEF SuccessorsVerified
    <3>2. \A o \in progObs' : o.sync = work'.sync =>
            \A new \in Revision(o.loc, o.inst, o.number)', old \in CurrentPrograms(o.loc)' :
                old.inst = new.inst /\ old # new => Within(old.content, new.content)
      BY <1>3, <2>1, <2>2, <3>1
    <3> QED
      BY <3>2 DEF SuccessorsVerified
  <2> QED
    BY <2>3, <2>4
<1>4. CASE ConsumeProgram
  <2>1. PICK loc, new, q : WalkObserved(loc, new, q)
    BY <1>4, WalkObserves
  <2>2. work'.sync = work.sync /\ pc = "programs" /\ progObs' = progObs \cup {new} /\ new.loc = loc
    BY <1>1, <2>1 DEF WalkObserved, Passes
  <2>3. ASSUME NEW o \in progObs, o.sync = work.sync,
               NEW r \in Revision(o.loc, o.inst, o.number)', NEW old \in CurrentPrograms(o.loc)',
               old.inst = r.inst, old # r
        PROVE  Within(old.content, r.content)
    <3>1. r \in Revision(o.loc, o.inst, o.number) /\ old \in CurrentPrograms(o.loc)
      BY <1>4, <2>3, ReferredSame, ShownSame
    <3> QED
      BY <1>1, <2>2, <2>3, <3>1 DEF SuccessorsVerified
  <2>4. ASSUME NEW r \in Revision(loc, new.inst, new.number)', NEW old \in CurrentPrograms(loc)',
               old.inst = r.inst, old # r
        PROVE  Within(old.content, r.content)
    <3>1. r \in revisions' /\ r.loc = loc /\ r.inst = new.inst /\ r.number = new.number /\ r.inst # 0
      BY <1>1, Constants DEF Revision, TypeOK, CatalogueTypeOK, Revisions
    <3>2. /\ q \in revisions' /\ q.loc = loc /\ new.inst = q.inst /\ new.number = q.number
          /\ Successor(loc, q) /\ instances[loc].inst \in {0, q.inst}
      BY <2>1, <3>1 DEF WalkObserved
    <3>3. r = q
      BY <1>1, <3>1, <3>2 DEF RowsKeyed
    <3>4. old \in CurrentPrograms(loc)
      BY <1>4, ShownSame
    <3>5. old \in Reference(loc)
      BY <3>4, ShownFields
    <3>6. PICK ref \in Reference(loc) : q = ref \/ Within(ref.content, q.content)
      BY <3>2, <3>5 DEF Successor
    <3>7. ref = old
      BY <1>1, <3>4, <3>6, ShownOnce DEF Reference, CurrentPrograms
    <3> QED
      BY <2>4, <3>3, <3>6, <3>7
  <2>5. \A o \in progObs' : o.sync = work'.sync =>
            \A r \in Revision(o.loc, o.inst, o.number)', old \in CurrentPrograms(o.loc)' :
                old.inst = r.inst /\ old # r => Within(old.content, r.content)
    BY <2>2, <2>3, <2>4
  <2> QED
    BY <2>5 DEF SuccessorsVerified
<1>5. CASE ServicesEnd \/ ProgramsEnd \/ Validate
  <2>1. pc \in {"services", "programs", "validate", "complete"} /\ work'.sync = work.sync
        /\ ~Complete /\ ~ConsumeProgram /\ ~PruneBatch
    BY <1>1, <1>5, WalkEffects DEF WalkKept, Complete, ConsumeProgram, PruneBatch
  <2> QED
    BY <1>3, <2>1
<1>6. CASE pc' = pc /\ WalkKept
  <2>1. ~Complete /\ (pc \in {"programs", "validate", "complete"} => ~PruneBatch) /\ work'.sync = work.sync
    BY <1>6 DEF Complete, PruneBatch, WalkKept
  <2> QED
    BY <1>2, <1>3, <1>4, <1>6, <2>1
<1>7. CASE Begin \/ ConsumeService \/ PruneDone \/ PruneCut \/ PassStarts \/ pc' \notin WalkSteps
  BY <1>1, <1>2, <1>7, WalkEffects, ServiceStored DEF PassStarts, WalkSteps, Walking, Begin
<1> QED
  BY <1>1, <1>2, <1>4, <1>5, <1>6, <1>7, WalkMoves

-----------------------------------------------------------------------------
(* Instances without revisions, and the generation the next start finds.   *)

\* A programme that is stored has a revision; the others keep theirs.
LEMMA StoredHaveRevisions ==
    ASSUME StoreInv, ConsumeProgram, NEW loc \in Locators
    PROVE  RevisionsOf(loc)' # {} \/ (instances'[loc] = instances[loc] /\ RevisionsOf(loc) = {})
<1>1. PICK l, new, q : WalkObserved(l, new, q)
  BY WalkObserves
<1>2. instances \in [Locators -> [inst : 0 .. Generations, seen : 0 .. MaxTime]]
  BY DEF StoreInv, TypeOK, CatalogueTypeOK
<1>3. CASE instances'[loc] = instances[loc]
  <2>1. revisions \subseteq revisions'
    BY <1>1 DEF WalkObserved
  <2> QED
    BY <1>3, <2>1 DEF RevisionsOf
<1>4. CASE instances'[loc] # instances[loc]
  <2>1. /\ q \in revisions' /\ q.loc = l
        /\ instances' = [instances EXCEPT ![l] = [inst |-> q.inst, seen |-> syncs[work.sync].started]]
    BY <1>1, <1>4 DEF WalkObserved
  <2>2. l = loc /\ instances'[loc].inst = q.inst
    BY <1>2, <1>4, <2>1
  <2> QED
    BY <2>1, <2>2 DEF RevisionsOf
<1> QED
  BY <1>3, <1>4

LEMMA EmptiesStayOld ==
    ASSUME StoreInv, Next
    PROVE  EmptiesAreOld'
<1>1. TypeOK /\ EmptiesAreOld /\ now \in Nat /\ now' \in Nat /\ now <= now' /\ Retention \in Nat
      /\ instances \in [Locators -> [inst : 0 .. Generations, seen : 0 .. MaxTime]]
      /\ \A loc \in Locators : instances[loc].seen \in Nat
  BY ClockAdvances, Constants DEF StoreInv, TypeOK, CatalogueTypeOK
<1>2. pc' = "gc" => work'.cutoff = now' - Retention /\ ~work'.swept
  <2>1. CASE pc' = pc /\ WalkKept /\ UNCHANGED now
    BY SMTT(30), <1>1, <2>1 DEF EmptiesAreOld, WalkKept
  <2>2. Begin \/ ConsumeService \/ ServicesEnd \/ ConsumeProgram \/ ProgramsEnd \/ Validate
           \/ PruneDone \/ PruneCut => pc' # "gc"
    BY DEF Begin, ConsumeService, ServicesEnd, ConsumeProgram, ProgramsEnd, Validate, PruneDone, PruneCut
  <2> QED
    BY <1>1, <2>1, <2>2, WalkMoves DEF PassStarts, WalkSteps
<1>3. ASSUME NEW loc \in Locators, instances'[loc].inst # 0, RevisionsOf(loc)' = {}
      PROVE  instances'[loc].seen + Retention < now'
  <2>1. ASSUME instances'[loc] = instances[loc], RevisionsOf(loc) = {}
        PROVE  instances'[loc].seen + Retention < now'
    BY <1>1, <1>3, <2>1 DEF EmptiesAreOld
  <2>2. CASE PruneBatch
    <3>1. pc = "gc" /\ PruneShape /\ work.cutoff = now - Retention
      BY <1>1, <2>2, PruneChanges DEF PruneBatch, EmptiesAreOld
    <3>2. instances'[loc] = instances[loc]
      <4>1. PICK b \in SUBSET Locators :
               instances' = [l \in Locators |-> IF l \in b THEN [inst |-> 0, seen |-> 0] ELSE instances[l]]
        BY <3>1 DEF PruneShape, InstancesPruned
      <4>2. loc \notin b
        BY <1>3, <4>1
      <4> QED
        BY <4>1, <4>2
    <3>3. CASE RevisionsOf(loc) # {}
      <4>1. PICK r \in revisions : r.loc = loc /\ r.inst = instances[loc].inst /\ r \notin revisions'
        BY <1>3, <3>2, <3>3 DEF RevisionsOf
      <4>2. instances[loc].seen < work.cutoff
        BY <3>1, <4>1 DEF PruneShape, RevisionsPruned
      <4> QED
        BY <1>1, <3>1, <3>2, <4>2
    <3> QED
      BY <2>1, <3>2, <3>3
  <2>3. CASE ConsumeProgram
    BY <1>3, <2>1, <2>3, StoredHaveRevisions
  <2>4. CASE ~PruneBatch /\ ~ConsumeProgram
    <3>1. instances' = instances /\ revisions' = revisions
      BY <2>4, ServiceStored, TablesChange DEF tables
    <3>2. RevisionsOf(loc) = {}
      BY <1>3, <3>1 DEF RevisionsOf
    <3> QED
      BY <2>1, <3>1, <3>2
  <2> QED
    BY <2>2, <2>3, <2>4
<1> QED
  BY <1>2, <1>3 DEF EmptiesAreOld

\* What no revision is left of, nothing refers to.
LEMMA EmptyUnreferenced ==
    ASSUME StoreInv, NEW loc \in Locators, instances[loc].inst # 0, RevisionsOf(loc) = {}
    PROVE  Unreferenced(loc)
<1>1. \A r \in revisions : ~(r.loc = loc /\ r.inst = instances[loc].inst)
  BY DEF RevisionsOf
<1>2. \A o \in progObs : ~(o.loc = loc /\ o.inst = instances[loc].inst)
  BY <1>1 DEF StoreInv, RowsKeyed, RefsExist, Revision
<1>3. ~Reserved(loc, instances[loc].inst)
  BY <1>1 DEF StoreInv, RefsExist, Revision, Reserved
<1> QED
  BY <1>2, <1>3 DEF Unreferenced

LEMMA SweptStayStorable ==
    ASSUME StoreInv, Next
    PROVE  SweptInstancesStorable'
<1>1. TypeOK /\ EmptiesAreOld /\ SweptInstancesStorable /\ now \in Nat /\ Retention \in Nat /\ work \in Passes
      /\ \A loc \in Locators : instances[loc].seen \in Nat
  BY ClockAdvances, Constants DEF StoreInv, TypeOK, CatalogueTypeOK
<1>2. CASE pc' \notin {"begin", "services", "programs"}
  BY <1>2 DEF SweptInstancesStorable
<1>3. CASE PruneDone
  <2>1. pc = "gc" /\ EmptyInstances(work.cutoff) = {} /\ work.cutoff = now - Retention
        /\ UNCHANGED <<instances, revisions>>
    BY <1>1, <1>3 DEF PruneDone, Swept, AllEmpty, EmptiesAreOld, catalogueVars
  <2>2. ASSUME NEW loc \in Locators, instances[loc].inst # 0, RevisionsOf(loc) = {}
        PROVE  FALSE
    <3>1. instances[loc].seen < work.cutoff
      BY <1>1, <2>1, <2>2 DEF EmptiesAreOld
    <3> QED
      BY <2>1, <2>2, <3>1, EmptyUnreferenced DEF EmptyInstances, OldInstances
  <2> QED
    BY <2>1, <2>2 DEF SweptInstancesStorable, RevisionsOf
<1>4. ASSUME pc \in {"begin", "services", "programs"}, work'.swept = work.swept, ~PruneBatch
      PROVE  SweptInstancesStorable'
  <2>1. CASE ConsumeProgram
    <3>1. work'.swept => \A loc \in Locators : instances[loc].inst # 0 => RevisionsOf(loc) # {}
      BY <1>1, <1>4 DEF SweptInstancesStorable
    <3> QED
      BY <2>1, <3>1, StoredHaveRevisions DEF SweptInstancesStorable
  <2>2. CASE ~ConsumeProgram
    <3>1. instances' = instances /\ revisions' = revisions
      BY <1>4, <2>2, ServiceStored, TablesChange DEF tables
    <3> QED
      BY <1>1, <1>4, <3>1 DEF SweptInstancesStorable, RevisionsOf
  <2> QED
    BY <2>1, <2>2
<1>5. CASE Begin \/ ConsumeService \/ ConsumeProgram \/ ServicesEnd
  <2>1. pc \in {"begin", "services", "programs"} /\ ~PruneBatch
    BY <1>5 DEF Begin, ConsumeService, ConsumeProgram, ServicesEnd, PruneBatch
  <2>2. work'.swept = work.swept
    BY <1>1, <1>5 DEF Begin, ConsumeService, ConsumeProgram, ServicesEnd, Passes
  <2> QED
    BY SMTT(30), <1>4, <2>1, <2>2
<1>6. CASE pc' = pc /\ WalkKept
  <2>1. pc # "gc" => ~PruneBatch
    BY DEF PruneBatch
  <2> QED
    BY <1>2, <1>4, <1>6, <2>1 DEF WalkKept
<1>7. CASE PruneCut \/ PassStarts
  <2>1. ~work'.swept
    BY <1>1, <1>7, WalkEffects DEF WalkKept, PassStarts, EmptiesAreOld
  <2> QED
    BY <2>1 DEF SweptInstancesStorable
<1>8. ProgramsEnd \/ Validate => pc' \notin {"begin", "services", "programs"}
  BY <1>1, WalkEffects
<1> QED
  BY <1>1, <1>2, <1>3, <1>5, <1>6, <1>7, <1>8, WalkMoves DEF WalkSteps, Walking

LEMMA StartStillFinds ==
    ASSUME StoreInv, Next
    PROVE  StartFindsServices'
<1>1. /\ TypeOK /\ StartFindsServices /\ HolderIsLatest /\ ServicesWalked
      /\ Configured \subseteq Locators /\ 0 \notin SyncIds
  BY Constants DEF StoreInv, SyncIds
<1>2. PICK g : g = LatestCompleted
  OBVIOUS
<1>3. CASE Complete
  <2>1. PICK w : w = work.sync
    OBVIOUS
  <2>2. w \in SyncIds /\ LatestCompleted' = w /\ syncs'[w].state = "COMPLETED"
    BY <1>3, <2>1, LatestMoves DEF Completed
  <2>3. \A loc \in Configured : <<w, loc>> \in svcObs'
    BY <1>1, <1>3, <2>1 DEF Complete, ServicesWalked, Candidate, ServicesOf
  <2>4. BuildSnapshot(w)'
    BY <1>1, <2>2, <2>3 DEF BuildSnapshot, ServicesOf
  <2> QED
    BY <2>2, <2>4 DEF StartFindsServices, BuildSnapshot, ServicesOf
<1>4. CASE ~Complete
  <2>1. g \in Completed /\ \A a, b \in NewerThan(g) : a = b
    BY <1>1, <1>2 DEF HolderIsLatest
  <2>2. g \notin Unprotected /\ g \in SyncIds
    BY <1>1, <2>1, LatestProtected DEF Completed
  <2>3. LatestCompleted' = g /\ syncs'[g].state = "COMPLETED"
    BY <1>2, <1>4, <2>1, <2>2, LatestKept DEF Completed
  <2>4. \A loc \in Configured : <<g, loc>> \in svcObs
    BY <1>1, <1>2 DEF StartFindsServices, BuildSnapshot, ServicesOf
  <2>5. \A loc \in Configured : <<g, loc>> \in svcObs'
    BY <2>2, <2>4, ProtectedStay
  <2>6. BuildSnapshot(g)'
    BY <1>1, <2>2, <2>3, <2>5 DEF BuildSnapshot, ServicesOf
  <2> QED
    BY <2>3, <2>6 DEF StartFindsServices, BuildSnapshot, ServicesOf
<1> QED
  BY <1>3, <1>4

LEMMA StoreKept ==
    ASSUME StoreInv, PageRead, Next
    PROVE  StoreInv'
BY TypesKept, RefsKept, RowsStayKeyed, SyncsOrdered, HolderKept, RequestsKept, WalkStaysLast, ServicesStayWalked,
   ProgramsStayWalked, SuccessorsStayVerified, EmptiesStayOld, SweptStayStorable, StartStillFinds DEF StoreInv

-----------------------------------------------------------------------------
(* The follow.                                                             *)

LEMMA LengthsKept ==
    ASSUME StoreInv, ActiveHasLength, Next
    PROVE  ActiveHasLength'
<1> SUFFICES ASSUME NEW n \in Numbers, resv'[n].state = "ACTIVE"
             PROVE  resv'[n].dur >= 1
  BY DEF ActiveHasLength, Active
<1>1. TypeOK /\ resv[n] \in ResvRows
  BY DEF StoreInv, TypeOK
<1>2. CASE resv'[n] = resv[n] \/ UserChanged(n)
  BY <1>2 DEF UserChanged, ActiveHasLength, Active
<1>3. CASE CreatedNow(n)
  <2>1. PICK r \in request.found, follow \in BOOLEAN : resv'[n] = NewResv(r, follow)
    BY <1>3 DEF CreatedNow
  <2>2. r.content.dur >= 1
    BY DEF StoreInv, RequestKeeps
  <2> QED
    BY <2>1, <2>2 DEF NewResv
<1>4. CASE FollowMoved(n)
  <2>1. PICK p \in work.page : \E r \in Target(p.row) : resv'[n] = Moved(resv[n], r)
    BY <1>4 DEF FollowMoved
  <2>2. PICK r \in Target(p.row) : resv'[n] = Moved(resv[n], r)
    BY <2>1
  <2> QED
    BY <1>1, <2>2, TargetTyped, MovedFields
<1> QED
  BY <1>1, <1>2, <1>3, <1>4, ResvMoves

\* A row has the times of a revision that outlives the step.
LEMMA TimesKept ==
    ASSUME StoreInv, RowsAgree, PageRead, Next, NEW n \in Numbers, resv'[n].state = "ACTIVE"
    PROVE  \E r \in Revision(resv[n].loc, resv[n].inst, resv[n].number)' :
              r.content = [start |-> resv'[n].start, dur |-> resv'[n].dur]
<1>1. TypeOK /\ RequestKeeps /\ resv[n] \in ResvRows /\ revisions \subseteq Revisions
  BY DEF StoreInv, TypeOK, CatalogueTypeOK
<1>2. ASSUME NEW r \in revisions', r.loc = resv'[n].loc, r.inst = resv'[n].inst, r.number = resv'[n].number,
             r.content.start = resv'[n].start, r.content.dur = resv'[n].dur, r \in Revisions
      PROVE  \E q \in Revision(resv[n].loc, resv[n].inst, resv[n].number)' :
                q.content = [start |-> resv'[n].start, dur |-> resv'[n].dur]
  <2>1. r.content \in [start : Nat, dur : Nat]
    BY <1>2, Constants DEF Revisions
  <2>2. r.content = [start |-> resv'[n].start, dur |-> resv'[n].dur]
    BY <1>2, <2>1
  <2>3. r \in Revision(resv[n].loc, resv[n].inst, resv[n].number)'
    BY <1>2 DEF Revision
  <2> QED
    BY <2>2, <2>3
<1>3. ASSUME resv[n].state = "ACTIVE", resv'[n].loc = resv[n].loc, resv'[n].inst = resv[n].inst,
             resv'[n].number = resv[n].number, resv'[n].start = resv[n].start, resv'[n].dur = resv[n].dur
      PROVE  \E q \in Revision(resv[n].loc, resv[n].inst, resv[n].number)' :
                q.content = [start |-> resv'[n].start, dur |-> resv'[n].dur]
  <2>1. PICK r \in revisions : /\ r.loc = resv[n].loc /\ r.inst = resv[n].inst /\ r.number = resv[n].number
                               /\ r.content = [start |-> resv[n].start, dur |-> resv[n].dur]
    BY <1>3 DEF RowsAgree, Active, Revision
  <2>2. Reserved(r.loc, r.inst)
    BY <1>3, <2>1 DEF Reserved
  <2>3. r \in revisions' /\ r \in Revisions
    BY <1>1, <2>1, <2>2, RevisionStays
  <2>4. r.content.start = resv'[n].start /\ r.content.dur = resv'[n].dur
    BY <1>3, <2>1
  <2> QED
    BY <1>2, <1>3, <2>1, <2>3, <2>4
<1>4. CASE resv'[n] = resv[n] \/ UserChanged(n)
  BY <1>3, <1>4 DEF UserChanged
<1>5. CASE CreatedNow(n)
  <2>1. PICK r \in request.found, follow \in BOOLEAN : resv'[n] = NewResv(r, follow)
    BY <1>5 DEF CreatedNow
  <2>2. r \in revisions' /\ r \in Revisions
    BY <1>1, <1>5 DEF RequestKeeps, CreatedNow, CreateReservation, catalogueVars
  <2> QED
    BY <1>2, <2>1, <2>2 DEF NewResv
<1>6. CASE FollowMoved(n)
  <2>1. PICK p \in work.page : \E r \in Target(p.row) :
           p.n = n /\ FollowRow /\ MayMove(n, p.row, r) /\ resv'[n] = Moved(resv[n], r)
    BY <1>6 DEF FollowMoved
  <2>2. PICK r \in Target(p.row) :
           p.n = n /\ FollowRow /\ MayMove(n, p.row, r) /\ resv'[n] = Moved(resv[n], r)
    BY <2>1
  <2>3. resv[n].loc = p.row.loc /\ resv[n].inst = p.row.inst /\ UNCHANGED revisions
    BY <2>2 DEF PageRead, FollowRow, catalogueVars
  <2>4. r \in revisions' /\ r \in Revisions /\ r.loc = p.row.loc /\ r.inst = p.row.inst
    BY <1>1, <2>3, TargetTyped
  <2> QED
    BY <1>1, <1>2, <2>2, <2>3, <2>4, MovedFields
<1> QED
  BY <1>1, <1>4, <1>5, <1>6, ResvMoves

\* The recording's end follows the reservation's.
LEMMA EndsKept ==
    ASSUME StoreInv, RowsAgree, ActiveHasLength, Next,
           NEW n \in Numbers, resv'[n].state = "ACTIVE", resv'[n].attempt = "open"
    PROVE  resv'[n].attEnd = Fits(resv'[n].start, resv'[n].dur, resv'[n].attStart)
<1>1. TypeOK /\ resv[n] \in ResvRows
  BY DEF StoreInv, TypeOK
<1>2. CASE resv'[n] = resv[n]
  BY <1>2 DEF RowsAgree, Active
<1>3. CASE UserChanged(n)
  <2>1. /\ resv[n].state = "ACTIVE" /\ resv'[n].start = resv[n].start /\ resv'[n].dur = resv[n].dur
        /\ resv'[n].attStart = resv'[n].start /\ resv'[n].attEnd = resv'[n].start + resv'[n].dur
    BY <1>3 DEF UserChanged
  <2>2. resv[n].dur >= 1 /\ resv[n].start \in Nat /\ resv[n].dur \in Nat
    BY <1>1, <2>1, RowFields DEF ActiveHasLength, Active
  <2>3. Fits(resv[n].start, resv[n].dur, resv[n].start) = resv[n].start + resv[n].dur
    <3>1. \A a, d \in Nat : d >= 1 => a + d >= a + 1
      OBVIOUS
    <3>2. resv[n].start + resv[n].dur >= resv[n].start + 1
      BY <2>2, <3>1
    <3> QED
      BY <2>2, <3>2, FitsIs
  <2> QED
    BY <2>1, <2>3
<1>4. CASE CreatedNow(n)
  BY <1>4 DEF CreatedNow, NewResv
<1>5. CASE FollowMoved(n)
  <2>1. PICK p \in work.page : \E r \in Target(p.row) : resv'[n] = Moved(resv[n], r)
    BY <1>5 DEF FollowMoved
  <2>2. PICK r \in Target(p.row) : resv'[n] = Moved(resv[n], r)
    BY <2>1
  <2> QED
    BY <1>1, <2>2, MovedFields
<1> QED
  BY <1>1, <1>2, <1>3, <1>4, <1>5, ResvMoves

LEMMA RowsStillAgree ==
    ASSUME StoreInv, RowsAgree, ActiveHasLength, PageRead, Next
    PROVE  RowsAgree'
<1> SUFFICES ASSUME NEW n \in Numbers, resv'[n].state = "ACTIVE"
             PROVE  /\ \E r \in Revision(resv[n].loc, resv[n].inst, resv[n].number)' :
                          r.content = [start |-> resv'[n].start, dur |-> resv'[n].dur]
                    /\ resv'[n].attempt = "open" =>
                          resv'[n].attEnd = Fits(resv'[n].start, resv'[n].dur, resv'[n].attStart)
  BY DEF RowsAgree, Active, Fits, Max
<1> QED
  BY TimesKept, EndsKept

\* A page holds the first rows after the cursor: a row it leaves out comes
\* after all of it, and then the page is full.
LEMMA PageCovers ==
    ASSUME NEW k \in Nat, NEW n \in After(k) \ PageOf(k)
    PROVE  Cardinality(PageOf(k)) = MaxPage /\ \A m \in PageOf(k) : m < n
<1> DEFINE A == After(k)
           P == PageOf(k)
           below(j) == {m \in A : m < j}
<1>1. A \subseteq Nat /\ P \subseteq A /\ n \in A /\ MaxPage \in Nat \ {0}
  BY Constants DEF After, Active, PageOf
<1>2. \A j \in A : IsFiniteSet(below(j)) /\ Cardinality(below(j)) \in Nat
  <2>1. \A j \in A : below(j) \subseteq Numbers
    BY DEF After, Active
  <2> QED
    BY <2>1, Constants, FS_Subset, FS_CardinalityType
<1>3. \A j \in A : j \in P <=> Cardinality(below(j)) < MaxPage
  BY DEF PageOf
<1>4. ASSUME NEW j \in A \ P, NEW m \in P
      PROVE  m < j
  <2>1. SUFFICES ASSUME ~(m < j) PROVE FALSE
    OBVIOUS
  <2>2. below(j) \subseteq below(m)
    BY <1>1, <2>1
  <2>3. Cardinality(below(j)) <= Cardinality(below(m))
    BY <1>1, <1>2, <2>2, FS_Subset
  <2> QED
    BY SMTT(30), <1>1, <1>2, <1>3, <2>3
<1>5. PICK x \in A \ P : \A j \in A \ P : x <= j
  <2>1. A \ P \in SUBSET Nat /\ A \ P # {}
    BY <1>1
  <2> HIDE DEF A, P
  <2> QED
    BY <2>1, LeastExists
<1>6. P = below(x)
  <2>1. \A m \in below(x) : m \in P
    <3>1. \A m \in A : m < x => ~(x <= m)
      BY <1>1
    <3> QED
      BY <1>5, <3>1
  <2> QED
    BY <1>1, <1>4, <2>1
<1>7. Cardinality(P) <= MaxPage
  <2>1. P # {} /\ P \in SUBSET (0 .. x) /\ x \in Nat
    <3>1. P # {}
      <4>1. Cardinality(P) >= MaxPage
        BY <1>1, <1>2, <1>3, <1>5, <1>6
      <4>2. Cardinality({}) = 0
        BY FS_EmptySet
      <4> QED
        BY <1>1, <4>1, <4>2
    <3>2. x \in Nat /\ \A m \in P : m \in Nat /\ m < x
      BY <1>1, <1>4
    <3>3. \A m \in P : m \in 0 .. x
      BY <3>2
    <3> QED
      BY <3>1, <3>2, <3>3
  <2>2. PICK y \in P : \A m \in P : y >= m
    <3> HIDE DEF P
    <3> QED
      BY <2>1, MaxBounds
  <2>3. P = below(y) \cup {y} /\ y \notin below(y)
    <3>1. y \in Nat /\ \A m \in P : m \in Nat
      BY <1>1
    <3>2. \A m \in P : m = y \/ m < y
      BY <2>2, <3>1
    <3>3. \A m \in A : m < y => m < x
      BY <1>1, <1>4, <3>1
    <3> QED
      BY <1>1, <1>6, <3>1, <3>2, <3>3
  <2>4. IsFiniteSet(below(y)) /\ Cardinality(below(y)) \in Nat /\ Cardinality(below(y)) < MaxPage
    BY <1>1, <1>2, <1>3
  <2> HIDE DEF A, P, below
  <2>5. Cardinality(P) = Cardinality(below(y)) + 1
    BY <2>3, <2>4, FS_AddElement
  <2> QED
    BY <1>1, <2>4, <2>5
<1>8. Cardinality(P) = MaxPage
  BY <1>1, <1>2, <1>3, <1>5, <1>6, <1>7
<1> QED
  BY <1>4, <1>8

\* Steps that end at a page, at its rows or at the end of a pass without error.
LEMMA FollowMoves ==
    ASSUME TypeOK, work.clean => pc = "wait", Next
    PROVE  \/ Users \/ FollowPage \/ FollowRow \/ FollowPageEnd
           \/ Publish /\ pc' = "page" /\ work'.after = 0 /\ ~work'.clean
           \/ ~work'.clean /\ pc' \notin {"page", "rows"}
<1>1. work \in Passes /\ NoPass.after = 0 /\ ~NoPass.clean /\ NoPass \in Passes
  BY NoPassTyped DEF TypeOK, NoPass
<1>2. CASE Publish
  BY <1>1, <1>2 DEF Publish
<1>3. CASE NextPass \/ Restart
  <2>1. work' = [NoPass EXCEPT !.cutoff = now' - Retention] /\ pc' = "gc"
    BY <1>3 DEF NextPass, Restart, StartPass
  <2> QED
    BY <1>1, <2>1 DEF Passes
<1>4. CASE Crash \/ Fail
  BY <1>1, <1>4 DEF Crash, Fail
<1>5. CASE SyncError \/ FollowError \/ PruneBatch \/ PruneCut \/ ProgramsEnd \/ Validate \/ Complete
  BY <1>5 DEF SyncError, Stuck, FollowError, PruneBatch, PruneCut, ProgramsEnd, Validate, Complete
<1>6. CASE PruneDone \/ ServicesEnd \/ ConsumeService \/ ConsumeProgram
  <2>1. pc # "wait" /\ work'.clean = work.clean /\ pc' \notin {"page", "rows"}
    BY <1>1, <1>6 DEF PruneDone, ServicesEnd, ConsumeService, ConsumeProgram, Passes
  <2> QED
    BY <2>1
<1>7. CASE Begin
  <2>1. PICK s \in SyncIds, offer \in [Locators -> Offers] :
           work' = [work EXCEPT !.sync = s, !.left = Locators, !.offer = offer]
    BY <1>7 DEF Begin
  <2>2. pc # "wait" /\ work'.clean = work.clean /\ pc' \notin {"page", "rows"}
    BY <1>1, <1>7, <2>1 DEF Begin, Passes
  <2> QED
    BY <2>2
<1> QED
  BY <1>2, <1>3, <1>4, <1>5, <1>6, <1>7, NextSteps DEF RefreshQuiet

\* What users leave of the pass.
LEMMA UserLeaves ==
    ASSUME TypeOK, Users
    PROVE  /\ work'.after = work.after /\ work'.page = work.page /\ work'.full = work.full
           /\ work'.moved = work.moved /\ work'.clean = work.clean /\ work.touched \subseteq work'.touched
           /\ UNCHANGED <<pc, catalogueVars>>
<1>1. PICK touched \in SUBSET Numbers : work.touched \subseteq touched /\ work' = [work EXCEPT !.touched = touched]
  BY UserSteps
<1>2. work \in Passes
  BY DEF TypeOK
<1> QED
  BY <1>1, <1>2, UserSteps, QuietSteps DEF Passes

\* The times told to the scheduler after a user's operation.
LEMMA UserTold ==
    ASSUME TypeOK, Users, NEW n \in Numbers
    PROVE  told'[n] = told[n] \/ told'[n] = resv'[n].start
<1>1. resv \in [Numbers -> ResvRows] /\ told \in [Numbers -> Nat]
  BY DEF TypeOK
<1>2. CASE CreateReservation
  <2>1. PICK r \in request.found, m \in Numbers, follow \in BOOLEAN :
              /\ resv' = [resv EXCEPT ![m] = NewResv(r, follow)]
              /\ told' = [Starts EXCEPT ![m] = r.content.start]
    BY <1>1, <1>2, Created
  <2>2. NewResv(r, follow).start = r.content.start
    BY DEF NewResv
  <2>3. Starts[n] = resv[n].start
    BY DEF Starts
  <2> QED
    BY <1>1, <2>1, <2>2, <2>3 DEF Starts
<1>3. CASE ~CreateReservation
  <2>1. told' \in {told, Starts} /\ Starts[n] = resv[n].start
    BY <1>3, UserFrames DEF Starts
  <2>2. resv'[n] = resv[n] \/ UserChanged(n)
    <3>1. ~FollowRow
      <4>1. FollowRow => \E p \in work.page : p \notin work'.page
        BY FollowSteps
      <4> QED
        BY <4>1, UserLeaves
    <3> QED
      BY <1>3, <3>1, ResvMoves DEF Next, CreatedNow, FollowMoved
  <2> QED
    BY <2>1, <2>2 DEF UserChanged
<1> QED
  BY <1>2, <1>3

\* What a row settles for depends on the current generation only, which the
\* follow and the users leave as it is.
LEMMA SettledStays ==
    ASSUME UNCHANGED catalogueVars, NEW n, resv'[n] = resv[n], Settled(n)
    PROVE  Settled(n)'
<1>1. \A loc : CurrentPrograms(loc)' = CurrentPrograms(loc)
  BY DEF catalogueVars, CurrentPrograms, Programs, Revision, LatestCompleted, Completed, NewerThan
<1> QED
  BY <1>1 DEF Settled, Target, Moves

LEMMA PageStaysRead ==
    ASSUME StoreInv, PageRead, work.clean => pc = "wait", Next
    PROVE  PageRead'
<1>1. TypeOK /\ work \in Passes /\ resv \in [Numbers -> ResvRows]
      /\ \A p \in work.page : p.n \in Numbers
  BY DEF StoreInv, TypeOK, Passes
<1>2. CASE FollowPage
  <2>1. work'.page = {[n |-> n, row |-> resv[n]] : n \in PageOf(work.after)} /\ work'.after = work.after
        /\ UNCHANGED resv
    BY <1>1, <1>2 DEF FollowPage, Passes
  <2>2. \A n \in PageOf(work.after) : n \in Numbers /\ resv[n].state = "ACTIVE" /\ n > work.after
    BY DEF PageOf, After, Active
  <2> QED
    BY <2>1, <2>2 DEF PageRead
<1>3. CASE FollowRow
  <2>1. PICK p \in work.page :
           /\ p.n \in Numbers /\ pc = "rows" /\ \A q \in work.page : p.n <= q.n
           /\ work'.after = p.n /\ work'.touched = work.touched
           /\ work'.page \subseteq work.page /\ \A q \in work'.page : q # p
           /\ \/ UNCHANGED resv
              \/ \E r \in Target(p.row) : resv' = [resv EXCEPT ![p.n] = Moved(resv[p.n], r)]
    BY <1>1, <1>3, FollowSteps
  <2>2. ASSUME NEW q \in work'.page
        PROVE  q \in work.page /\ q.n \in Numbers /\ q.n > p.n /\ resv'[q.n] = resv[q.n]
    <3>1. q \in work.page /\ q.n # p.n /\ q.n \in Numbers
      BY <1>1, <2>1, <2>2 DEF PageRead
    <3>2. q.n > p.n
      <4>1. p.n <= q.n /\ p.n \in Nat /\ q.n \in Nat
        BY <2>1, <3>1, Constants
      <4> QED
        BY <3>1, <4>1
    <3> QED
      BY <1>1, <2>1, <3>1, <3>2
  <2> QED
    BY <2>1, <2>2 DEF PageRead, Active
<1>4. CASE Users /\ pc = "rows"
  <2>1. work'.page = work.page /\ work'.after = work.after /\ work.touched \subseteq work'.touched
    BY <1>1, <1>4, UserLeaves
  <2>2. ASSUME NEW p \in work.page
        PROVE  /\ resv'[p.n].state # "absent" /\ resv'[p.n].loc = p.row.loc /\ resv'[p.n].inst = p.row.inst
               /\ p.n \in Active' \ work'.touched /\ resv'[p.n].attempt = "none" => resv'[p.n] = p.row
    <3>1. resv[p.n].state # "absent" /\ resv[p.n].loc = p.row.loc /\ resv[p.n].inst = p.row.inst
          /\ (p.n \in Active \ work.touched /\ resv[p.n].attempt = "none" => resv[p.n] = p.row)
      BY <1>4 DEF PageRead
    <3>2. CASE resv'[p.n] = resv[p.n]
      BY <2>1, <3>1, <3>2 DEF Active
    <3>3. CASE UserChanged(p.n)
      BY <3>1, <3>3 DEF UserChanged, Active
    <3>4. ~CreatedNow(p.n)
      BY <3>1 DEF CreatedNow
    <3>5. ~FollowMoved(p.n)
      <4>1. FollowRow => \E q \in work.page : q \notin work'.page
        BY <1>1, FollowSteps
      <4> QED
        BY <2>1, <4>1 DEF FollowMoved
    <3> QED
      BY <1>1, <3>2, <3>3, <3>4, <3>5, ResvMoves
  <2> QED
    BY <1>4, <2>1, <2>2 DEF PageRead
<1>5. CASE pc' # "rows"
  BY <1>5 DEF PageRead
<1>6. FollowPageEnd => pc' # "rows"
  BY DEF FollowPageEnd, NextPage
<1>7. Users => pc' = pc
  BY UserFrames
<1> QED
  BY <1>1, <1>2, <1>3, <1>4, <1>5, <1>6, <1>7, FollowMoves

LEMMA TargetOnce ==
    ASSUME StoreInv, NEW row, NEW a \in Target(row), NEW b \in Target(row)
    PROVE  a = b
BY ShownOnce DEF StoreInv, Target, CurrentPrograms

\* The row that the follow comes to is settled after its step.
LEMMA RowSettles ==
    ASSUME StoreInv, PageRead, FollowRow, NEW p \in work.page, p.n \in Active \ work.touched,
           \/ /\ UNCHANGED resv
              /\ p.row.follow /\ (\E r \in Target(p.row) : Moves(p.row, r)) =>
                    \E r \in Target(p.row) : ~MayMove(p.n, p.row, r)
           \/ \E r \in Target(p.row) : resv' = [resv EXCEPT ![p.n] = Moved(resv[p.n], r)]
    PROVE  Settled(p.n)'
<1>1. /\ TypeOK /\ UNCHANGED catalogueVars /\ resv \in [Numbers -> ResvRows] /\ p.n \in Numbers
      /\ resv[p.n] \in ResvRows /\ resv[p.n].state = "ACTIVE" /\ pc = "rows"
      /\ resv[p.n].loc = p.row.loc /\ resv[p.n].inst = p.row.inst
      /\ resv[p.n].attempt = "none" => resv[p.n] = p.row
  BY DEF StoreInv, TypeOK, FollowRow, PageRead, Active
<1>2. CASE UNCHANGED resv
           /\ (p.row.follow /\ (\E r \in Target(p.row) : Moves(p.row, r)) =>
                  \E r \in Target(p.row) : ~MayMove(p.n, p.row, r))
  <2>1. ASSUME resv[p.n].follow, resv[p.n].attempt = "none",
               NEW r \in Target(resv[p.n]), Moves(resv[p.n], r)
        PROVE  r.number < resv[p.n].number
    <3>1. resv[p.n] = p.row /\ r \in Target(p.row)
      BY <1>1, <2>1
    <3>2. ~MayMove(p.n, p.row, r)
      BY <1>2, <2>1, <3>1, TargetOnce
    <3>3. ~(r.number > p.row.number)
      BY <1>1, <2>1, <3>1, <3>2 DEF MayMove, UnchangedSince
    <3>4. r.number # p.row.number /\ r.number \in Nat /\ p.row.number \in Nat
      BY <1>1, <2>1, <3>1, TargetTyped, RowFields, Constants DEF Moves
    <3> QED
      BY <3>1, <3>3, <3>4
  <2>2. Settled(p.n)
    BY <2>1 DEF Settled
  <2> QED
    BY <1>1, <1>2, <2>2, SettledStays
<1>3. ASSUME NEW r \in Target(p.row), resv' = [resv EXCEPT ![p.n] = Moved(resv[p.n], r)]
      PROVE  Settled(p.n)'
  <2>1. resv'[p.n] = Moved(resv[p.n], r)
    BY <1>1, <1>3
  <2>2. /\ resv'[p.n].loc = p.row.loc /\ resv'[p.n].inst = p.row.inst /\ resv'[p.n].number = r.number
    BY <1>1, <2>1, MovedFields
  <2>3. \A loc : CurrentPrograms(loc)' = CurrentPrograms(loc)
    BY <1>1 DEF catalogueVars, CurrentPrograms, Programs, Revision, LatestCompleted, Completed, NewerThan
  <2>4. \A q \in Target(resv[p.n])' : q = r
    <3>1. Target(resv[p.n])' = Target(p.row)
      BY <2>2, <2>3 DEF Target
    <3> QED
      BY <3>1, TargetOnce
  <2> QED
    BY <2>2, <2>4 DEF Settled, Moves
<1> QED
  BY <1>2, <1>3

\* What follows each row that the follow leaves as it is.
LEMMA RowPasses ==
    ASSUME StoreInv, PageRead, PagePassed, FollowRow
    PROVE  PagePassed'
<1>1. /\ TypeOK /\ work \in Passes /\ resv \in [Numbers -> ResvRows] /\ UNCHANGED catalogueVars
      /\ pc = "rows" /\ pc' = "rows" /\ ~work.clean /\ work.after \in Nat
      /\ Numbers \subseteq Nat
  BY Constants DEF StoreInv, TypeOK, Passes, FollowRow, PagePassed
<1>2. PICK p \in work.page :
         /\ p.n \in Numbers /\ \A q \in work.page : p.n <= q.n
         /\ work'.after = p.n /\ work'.full = work.full /\ work'.touched = work.touched
         /\ work'.clean = work.clean /\ work'.page \subseteq work.page
         /\ \A q \in work.page : q.n # p.n => q \in work'.page
         /\ \/ /\ UNCHANGED resv
               /\ p.row.follow /\ (\E r \in Target(p.row) : Moves(p.row, r)) =>
                     \E r \in Target(p.row) : ~MayMove(p.n, p.row, r)
            \/ \E r \in Target(p.row) : resv' = [resv EXCEPT ![p.n] = Moved(resv[p.n], r)]
  BY <1>1, FollowSteps
<1>3. p.n > work.after /\ p.n \in Nat /\ \A n \in Active : n \in Numbers /\ n \in Nat
  BY <1>1, <1>2 DEF PageRead, Active
<1>4. \A n \in Numbers : n # p.n => resv'[n] = resv[n]
  BY <1>1, <1>2
<1>5. Active' = Active
  <2>1. resv'[p.n].state = resv[p.n].state
    <3>1. CASE UNCHANGED resv
      BY <3>1
    <3>2. ASSUME NEW r \in Target(p.row), resv' = [resv EXCEPT ![p.n] = Moved(resv[p.n], r)]
          PROVE  resv'[p.n].state = resv[p.n].state
      <4>1. resv'[p.n] = Moved(resv[p.n], r) /\ resv[p.n] \in ResvRows
        BY <1>1, <1>2, <3>2
      <4> QED
        BY <1>1, <4>1, MovedFields
    <3> QED
      BY <1>2, <3>1, <3>2
  <2> QED
    BY <1>4, <2>1 DEF Active
<1>6. ASSUME NEW n \in Active \ work.touched, n <= p.n
      PROVE  Settled(n)'
  <2>1. CASE n = p.n
    BY <1>2, <1>6, <2>1, RowSettles
  <2>2. CASE n # p.n
    <3>1. n \in Numbers /\ n < p.n /\ n \in Nat
      BY <1>3, <1>6, <2>2
    <3>2. ~(n > work.after)
      <4>1. n > work.after => (\E q \in work.page : q.n = n) \/ p.n < n
        BY <1>1, <1>6 DEF PagePassed
      <4>2. \A q \in work.page : q.n # n
        <5>1. ~(p.n <= n)
          BY <1>3, <3>1
        <5> QED
          BY <1>2, <5>1
      <4>3. ~(p.n < n)
        BY <1>3, <3>1
      <4> QED
        BY <4>1, <4>2, <4>3
    <3>3. Settled(n)
      BY <1>1, <1>6, <3>1, <3>2 DEF PagePassed
    <3> QED
      BY <1>1, <1>4, <3>1, <3>3, SettledStays
  <2> QED
    BY <2>1, <2>2
<1>7. ASSUME NEW n \in Active \ work.touched, n > p.n
      PROVE  (\E q \in work'.page : q.n = n) \/ (work.full /\ \A q \in work'.page : q.n < n)
  <2>1. n > work.after /\ n # p.n
    BY <1>1, <1>3, <1>7
  <2>2. (\E q \in work.page : q.n = n) \/ (work.full /\ \A q \in work.page : q.n < n)
    BY <1>1, <1>7, <2>1 DEF PagePassed
  <2> QED
    BY <1>2, <2>1, <2>2
<1> QED
  BY <1>1, <1>2, <1>5, <1>6, <1>7 DEF PagePassed

\* A user's operation leaves a row as it is, marks it, or starts its recording.
LEMMA UserRow ==
    ASSUME TypeOK, Users, NEW n \in Active' \ work'.touched, resv'[n].attempt = "none"
    PROVE  n \in Active \ work.touched /\ resv'[n] = resv[n]
<1>1. n \in Numbers /\ resv'[n].state = "ACTIVE" /\ n \notin work.touched
  BY UserLeaves DEF Active
<1>2. ~CreatedNow(n) /\ ~UserChanged(n)
  BY <1>1 DEF CreatedNow, UserChanged
<1>3. ~FollowMoved(n)
  <2>1. FollowRow => \E q \in work.page : q \notin work'.page
    BY FollowSteps
  <2> QED
    BY <2>1, UserLeaves DEF FollowMoved
<1>4. resv'[n] = resv[n]
  BY <1>1, <1>2, <1>3, ResvMoves DEF Next
<1> QED
  BY <1>1, <1>4 DEF Active

LEMMA PageStillPassed ==
    ASSUME StoreInv, PageRead, PagePassed, Next
    PROVE  PagePassed'
<1>1. TypeOK /\ work \in Passes /\ (work.clean => pc = "wait") /\ resv \in [Numbers -> ResvRows]
  BY DEF StoreInv, TypeOK, PagePassed
<1>2. CASE FollowRow
  BY <1>2, RowPasses
<1>3. CASE FollowPage
  <2>1. /\ pc = "page" /\ pc' = "rows" /\ work'.after = work.after /\ work'.touched = work.touched
        /\ work'.clean = work.clean /\ work'.page = {[n |-> n, row |-> resv[n]] : n \in PageOf(work.after)}
        /\ work'.full = (Cardinality(PageOf(work.after)) = MaxPage)
        /\ UNCHANGED resv /\ UNCHANGED catalogueVars /\ work.after \in Nat
    BY <1>1, <1>3, Constants DEF FollowPage, Passes
  <2>2. \A n \in Active \ work.touched : n <= work.after => Settled(n)'
    BY <1>1, <2>1, SettledStays DEF PagePassed
  <2>3. ASSUME NEW n \in Active, n > work.after
        PROVE  (\E q \in work'.page : q.n = n) \/ (work'.full /\ \A q \in work'.page : q.n < n)
    <3>1. CASE n \in PageOf(work.after)
      <4>1. [n |-> n, row |-> resv[n]] \in work'.page
        BY <2>1, <3>1
      <4> QED
        BY <4>1
    <3>2. CASE n \notin PageOf(work.after)
      <4>1. n \in After(work.after) \ PageOf(work.after)
        BY <2>3, <3>2 DEF After
      <4>2. Cardinality(PageOf(work.after)) = MaxPage /\ \A m \in PageOf(work.after) : m < n
        BY <2>1, <4>1, PageCovers
      <4>3. \A q \in work'.page : q.n \in PageOf(work.after)
        BY <2>1
      <4> QED
        BY <2>1, <4>2, <4>3
    <3> QED
      BY <3>1, <3>2
  <2>4. Active' = Active
    BY <2>1 DEF Active
  <2> QED
    BY <1>1, <2>1, <2>2, <2>3, <2>4 DEF PagePassed
<1>4. CASE FollowPageEnd
  <2>1. /\ UNCHANGED resv /\ UNCHANGED catalogueVars /\ pc = "rows"
        /\ (UNCHANGED work /\ pc' = "page") \/ (work' = [work EXCEPT !.clean = TRUE] /\ pc' = "wait")
    BY <1>4 DEF FollowPageEnd, NextPage
  <2>2. \A n \in Active \ work.touched : n <= work.after => Settled(n)'
    BY <1>1, <2>1, SettledStays DEF PagePassed
  <2>3. Active' = Active
    BY <2>1 DEF Active
  <2> QED
    BY <1>1, <2>1, <2>2, <2>3 DEF PagePassed
<1>5. CASE Users
  <2>1. /\ work'.after = work.after /\ work'.page = work.page /\ work'.full = work.full
        /\ work'.clean = work.clean /\ pc' = pc /\ UNCHANGED catalogueVars
        /\ work.touched \subseteq work'.touched
    BY <1>1, <1>5, UserLeaves
  <2>2. ASSUME NEW n \in Active' \ work'.touched, n <= work'.after, pc' \in {"page", "rows"}
        PROVE  Settled(n)'
    <3>1. CASE resv'[n].attempt # "none"
      BY <3>1 DEF Settled
    <3>2. CASE resv'[n].attempt = "none"
      <4>1. n \in Active \ work.touched /\ resv'[n] = resv[n]
        BY <1>1, <1>5, <3>2, UserRow
      <4>2. Settled(n)
        BY <2>1, <2>2, <4>1 DEF PagePassed
      <4> QED
        BY <2>1, <4>1, <4>2, SettledStays
    <3> QED
      BY <3>1, <3>2
  <2>3. ASSUME NEW n \in Active' \ work'.touched
        PROVE  n \in Active \ work.touched
    <3>1. n \in Numbers /\ resv'[n].state = "ACTIVE" /\ n \notin work.touched
      BY <2>1, <2>3 DEF Active
    <3>2. ~CreatedNow(n)
      BY <2>3, <3>1 DEF CreatedNow
    <3>3. ~FollowMoved(n)
      <4>1. FollowRow => \E q \in work.page : q \notin work'.page
        BY <1>1, FollowSteps
      <4> QED
        BY <2>1, <4>1 DEF FollowMoved
    <3>4. resv[n].state = "ACTIVE"
      BY <1>1, <1>5, <3>1, <3>2, <3>3, ResvMoves DEF Next, UserChanged
    <3> QED
      BY <3>1, <3>4 DEF Active
  <2> QED
    BY <1>1, <2>1, <2>2, <2>3 DEF PagePassed
<1>6. CASE Publish /\ pc' = "page" /\ work'.after = 0 /\ ~work'.clean
  <2>1. \A n \in Active' : ~(n <= 0)
    <3>1. \A n \in Active' : n \in Numbers
      BY DEF Active
    <3>2. \A n \in Numbers : ~(n <= 0)
      BY Constants
    <3> QED
      BY <3>1, <3>2
  <2> QED
    BY <1>6, <2>1 DEF PagePassed
<1>7. CASE ~work'.clean /\ pc' \notin {"page", "rows"}
  BY <1>7 DEF PagePassed
<1> QED
  BY <1>1, <1>2, <1>3, <1>4, <1>5, <1>6, <1>7, FollowMoves

LEMMA StillNoneBehind ==
    ASSUME StoreInv, PagePassed, PassLeavesNoneBehind, Next
    PROVE  PassLeavesNoneBehind'
<1>1. TypeOK /\ work \in Passes /\ (work.clean => pc = "wait")
  BY DEF StoreInv, TypeOK, PagePassed
<1>2. ASSUME \A n \in Active' \ work'.touched : Settled(n)'
      PROVE  PassLeavesNoneBehind'
  BY <1>2 DEF PassLeavesNoneBehind, Settled
<1>3. CASE FollowPageEnd /\ pc' = "wait"
  <2>1. UNCHANGED resv /\ UNCHANGED catalogueVars /\ pc = "rows" /\ work.page = {} /\ ~work.full
        /\ work' = [work EXCEPT !.clean = TRUE]
    BY <1>3 DEF FollowPageEnd, NextPage
  <2>2. work'.touched = work.touched /\ Active' = Active
    BY <1>1, <2>1 DEF Passes, Active
  <2>3. ASSUME NEW n \in Active \ work.touched
        PROVE  Settled(n)'
    <3>1. ~(n > work.after)
      BY <2>1 DEF PagePassed
    <3>2. n <= work.after
      <4>1. n \in Numbers /\ work.after \in Numbers \cup {0}
        BY <1>1 DEF Active, Passes
      <4>2. Numbers \cup {0} \subseteq Nat
        BY Constants
      <4>3. n \in Nat /\ work.after \in Nat
        BY <4>1, <4>2, Zenon
      <4> QED
        BY <3>1, <4>3
    <3>3. Settled(n)
      BY <2>1, <3>2 DEF PagePassed
    <3> QED
      BY <2>1, <3>3, SettledStays
  <2> QED
    BY <1>2, <2>2, <2>3
<1>4. CASE Users /\ pc' = "wait" /\ work'.clean
  <2>1. UNCHANGED catalogueVars /\ pc = "wait" /\ work.clean
    BY <1>1, <1>4, UserLeaves
  <2>2. ASSUME NEW n \in Active' \ work'.touched
        PROVE  Settled(n)'
    <3>1. CASE resv'[n].attempt # "none"
      BY <3>1 DEF Settled
    <3>2. CASE resv'[n].attempt = "none"
      <4>1. n \in Active \ work.touched /\ resv'[n] = resv[n]
        BY <1>1, <1>4, <3>2, UserRow
      <4>2. Settled(n)
        BY <2>1, <4>1 DEF PassLeavesNoneBehind, Settled
      <4> QED
        BY <2>1, <4>1, <4>2, SettledStays
    <3> QED
      BY <3>1, <3>2
  <2> QED
    BY <1>2, <2>2
<1>5. CASE ~(pc' = "wait" /\ work'.clean)
  BY <1>5 DEF PassLeavesNoneBehind
<1>6. FollowPage \/ FollowRow => pc' # "wait"
  BY DEF FollowPage, FollowRow
<1> QED
  BY <1>1, <1>3, <1>4, <1>5, <1>6, FollowMoves

LEMMA StillNotified ==
    ASSUME StoreInv, PagePassed, MovedIsNotified, Next
    PROVE  MovedIsNotified'
<1>1. TypeOK /\ work \in Passes /\ (work.clean => pc = "wait")
  BY DEF StoreInv, TypeOK, PagePassed
<1>2. CASE FollowPageEnd /\ pc' = "wait"
  <2>1. UNCHANGED resv /\ work' = [work EXCEPT !.clean = TRUE] /\ told' = ToldOfAll
    BY <1>2 DEF FollowPageEnd, NextPage
  <2>2. work'.moved = work.moved
    BY <1>1, <2>1 DEF Passes
  <2> QED
    BY <2>1, <2>2 DEF MovedIsNotified, ToldOfAll, Starts, Active
<1>3. CASE Users /\ pc' = "wait" /\ work'.clean
  <2>1. pc = "wait" /\ work.clean /\ work'.moved = work.moved /\ work'.page = work.page
    BY <1>1, <1>3, UserLeaves
  <2>2. ASSUME NEW n \in Active' \cap work.moved, resv'[n].attempt = "none"
        PROVE  told'[n] = resv'[n].start
    <3>1. n \in Numbers /\ resv'[n].state = "ACTIVE"
      BY <2>2 DEF Active
    <3>2. ~FollowMoved(n)
      <4>1. FollowRow => \E q \in work.page : q \notin work'.page
        BY <1>1, FollowSteps
      <4> QED
        BY <2>1, <4>1 DEF FollowMoved
    <3>3. CASE CreatedNow(n)
      BY <3>3 DEF CreatedNow
    <3>4. CASE resv'[n] = resv[n] \/ UserChanged(n)
      <4>1. resv[n].state = "ACTIVE" /\ resv[n].attempt = "none" /\ resv'[n].start = resv[n].start
        BY <2>2, <3>1, <3>4 DEF UserChanged
      <4>2. told[n] = resv[n].start
        BY <2>1, <2>2, <3>1, <4>1 DEF MovedIsNotified, Active
      <4> QED
        BY <1>1, <1>3, <3>1, <4>1, <4>2, UserTold
    <3> QED
      BY <1>1, <1>3, <3>1, <3>2, <3>3, <3>4, ResvMoves DEF Next
  <2> QED
    BY <2>1, <2>2 DEF MovedIsNotified
<1>4. CASE ~(pc' = "wait" /\ work'.clean)
  BY <1>4 DEF MovedIsNotified
<1>5. FollowPage \/ FollowRow => pc' # "wait"
  BY DEF FollowPage, FollowRow
<1> QED
  BY <1>1, <1>2, <1>3, <1>4, <1>5, FollowMoves

LEMMA FollowKept ==
    ASSUME StoreInv, FollowInv, Next
    PROVE  FollowInv'
BY LengthsKept, PageStaysRead, PageStillPassed, RowsStillAgree, StillNoneBehind, StillNotified
   DEF FollowInv, FollowSound, PagePassed

-----------------------------------------------------------------------------
(* The inductive invariant.                                                *)

\* What setup leaves.
LEMMA SetupTyped ==
    ASSUME Init
    PROVE  /\ TypeOK /\ syncs[1] = [state |-> "COMPLETED", started |-> 1, finished |-> 1]
           /\ 1 \in SyncIds /\ (\A s \in SyncIds : s # 1 => syncs[s] = NoSync)
           /\ work.count = 0 /\ ~work.clean /\ ~work.swept /\ work.cutoff = now - Retention
<1>1. /\ 1 \in SyncIds /\ 1 \in 1 .. Generations /\ 1 \in 1 .. MaxTime /\ 1 \in 0 .. MaxTime /\ 0 \in 0 .. MaxTime
      /\ 1 \in 0 .. Generations /\ 0 \in 0 .. Generations /\ First \in Contents /\ 0 \in 0 .. MaxFaults
      /\ 0 \in 0 .. MaxUserOps
  BY Constants, RefreshAssumption DEF SyncIds
<1>2. /\ syncs[1] = [state |-> "COMPLETED", started |-> 1, finished |-> 1]
      /\ \A s \in SyncIds : s # 1 => syncs[s] = NoSync
  BY <1>1 DEF Init
<1>3. CatalogueTypeOK(MaxTime)
  <2>1. syncs \in [SyncIds -> [state : {"none", "RUNNING", "COMPLETED", "FAILED", "pruned"},
                               started : 0 .. MaxTime, finished : 0 .. MaxTime]]
    BY <1>1 DEF Init, NoSync
  <2>2. \A s \in SyncIds : syncs[s].state \in {"COMPLETED", "FAILED"} <=> syncs[s].finished # 0
    BY <1>2 DEF NoSync
  <2>3. svcObs \subseteq SyncIds \X Locators /\ services \in [Locators -> 0 .. MaxTime]
    BY <1>1 DEF Init
  <2>4. progObs \subseteq [sync : SyncIds, loc : Locators, inst : 0 .. Generations,
                           number : 0 .. Generations, class : Classes]
    BY <1>1 DEF Init, Classes
  <2>5. instances \in [Locators -> [inst : 0 .. Generations, seen : 0 .. MaxTime]]
    BY <1>1 DEF Init
  <2>6. revisions \subseteq Revisions
    BY <1>1 DEF Init, Revisions
  <2> QED
    BY <2>1, <2>2, <2>3, <2>4, <2>5, <2>6 DEF CatalogueTypeOK
<1>4. NoResv \in ResvRows
  BY Constants DEF NoResv, ResvRows
<1>5. work \in Passes /\ work.count = 0 /\ ~work.clean /\ ~work.swept /\ work.cutoff = now - Retention
  <2>1. work = [NoPass EXCEPT !.cutoff = 1 - Retention] /\ NoPass.count = 0 /\ ~NoPass.clean /\ ~NoPass.swept
        /\ now = 1
    BY DEF Init, NoPass
  <2>2. NoPass \in Passes /\ 1 - Retention \in Int
    BY NoPassTyped, Constants
  <2> QED
    BY <2>1, <2>2 DEF Passes
<1>6. resv \in [Numbers -> ResvRows] /\ told \in [Numbers -> Nat]
  BY <1>4 DEF Init
<1>7. /\ now \in 1 .. MaxTime /\ pc \in Steps /\ holder \in SyncIds
      /\ request \in [gen : 0 .. Generations, crossed : {0, 1}, found : SUBSET Revisions]
      /\ budget \in [faults : 0 .. MaxFaults, ops : 0 .. MaxUserOps]
  BY <1>1 DEF Init, Steps, NoRequest
<1> QED
  BY <1>1, <1>2, <1>3, <1>5, <1>6, <1>7 DEF TypeOK

LEMMA SetupRefers ==
    ASSUME Init
    PROVE  /\ RefsExist /\ RowsKeyed
           /\ \A loc \in Locators : RevisionsOf(loc) # {}
<1>1. /\ revisions = [loc : Locators, inst : {1}, number : {1}, content : {First}]
      /\ progObs = [sync : {1}, loc : Locators, inst : {1}, number : {1}, class : {"NEW_INSTANCE"}]
      /\ svcObs = {1} \X Locators /\ services = [loc \in Locators |-> 1]
      /\ instances = [loc \in Locators |-> [inst |-> 1, seen |-> 1]]
      /\ \A n \in Numbers : resv[n] = NoResv
  BY DEF Init
<1>2. syncs[1].state = "COMPLETED"
  BY SetupTyped
<1>3. \A loc \in Locators : [loc |-> loc, inst |-> 1, number |-> 1, content |-> First] \in revisions
  BY <1>1
<1>4. \A loc \in Locators : Revision(loc, 1, 1) # {} /\ RevisionsOf(loc) # {}
  <2> TAKE loc \in Locators
  <2> DEFINE r == [loc |-> loc, inst |-> 1, number |-> 1, content |-> First]
  <2>1. r \in revisions /\ r.loc = loc /\ r.inst = 1 /\ r.number = 1 /\ instances[loc].inst = 1
    BY <1>1, <1>3
  <2> HIDE DEF r
  <2> QED
    BY <2>1 DEF Revision, RevisionsOf
<1>5. RefsExist
  <2>1. \A o \in svcObs : services[o[2]] # 0 /\ syncs[o[1]].state \notin {"none", "pruned"}
    BY <1>1, <1>2
  <2>2. \A o \in progObs : /\ syncs[o.sync].state \notin {"none", "pruned"}
                           /\ o.class # "INVALID" => Revision(o.loc, o.inst, o.number) # {}
    BY <1>1, <1>2, <1>4
  <2>3. \A r \in revisions : instances[r.loc].inst = r.inst
    BY <1>1
  <2>4. \A loc \in Locators : instances[loc].inst # 0 => services[loc] # 0
    BY <1>1
  <2>5. \A n \in Numbers : resv[n].state = "absent"
    BY <1>1 DEF NoResv
  <2> QED
    BY <2>1, <2>2, <2>3, <2>4, <2>5 DEF RefsExist
<1>6. RowsKeyed
  <2>1. \A o, p \in progObs : o.sync = p.sync /\ o.loc = p.loc => o = p
    BY <1>1
  <2>2. \A o \in progObs : o.class # "INVALID"
    BY <1>1
  <2>3. \A r, q \in revisions : r.loc = q.loc /\ r.inst = q.inst /\ r.number = q.number => r = q
    BY <1>1
  <2>4. \A r \in revisions : syncs[r.number].state # "none"
    BY <1>1, <1>2
  <2> QED
    BY <2>1, <2>2, <2>3, <2>4 DEF RowsKeyed
<1> QED
  BY <1>4, <1>5, <1>6

LEMMA SetupInvariant ==
    Init => IInv
<1> SUFFICES ASSUME Init PROVE IInv
  OBVIOUS
<1>1. /\ TypeOK /\ syncs[1] = [state |-> "COMPLETED", started |-> 1, finished |-> 1]
      /\ 1 \in SyncIds /\ (\A s \in SyncIds : s # 1 => syncs[s] = NoSync)
      /\ work.count = 0 /\ ~work.clean /\ ~work.swept /\ work.cutoff = now - Retention
      /\ now = 1 /\ pc = "gc" /\ holder = 1 /\ request = NoRequest
  BY SetupTyped DEF Init
<1>2. Completed = {1} /\ NewerThan(1) = {}
  BY <1>1 DEF Completed, NewerThan, NoSync
<1>3. LatestCompleted = 1
  BY <1>1, <1>2, LatestIs
<1>4. SyncsInOrder
  BY <1>1 DEF SyncsInOrder, NoSync
<1>5. HolderIsLatest
  BY <1>1, <1>2, <1>3 DEF HolderIsLatest
<1>6. RequestKeeps
  BY <1>1 DEF RequestKeeps, NoRequest
<1>7. WalkIsLast /\ ServicesWalked /\ ProgramsWalked /\ SuccessorsVerified /\ SweptInstancesStorable
  BY <1>1 DEF WalkIsLast, Walking, ServicesWalked, ProgramsWalked, SuccessorsVerified, SweptInstancesStorable
<1>8. EmptiesAreOld
  BY <1>1, SetupRefers DEF EmptiesAreOld
<1>9. StartFindsServices
  <2>1. \A loc \in Configured : <<1, loc>> \in svcObs /\ loc \in Locators
    BY Constants DEF Init
  <2> QED
    BY <1>1, <1>3, <2>1 DEF StartFindsServices, BuildSnapshot, ServicesOf
<1>10. FollowInv
  <2>1. Active = {}
    BY DEF Init, Active, NoResv
  <2> QED
    BY <1>1, <2>1 DEF FollowInv, ActiveHasLength, PageRead, PagePassed, FollowSound, RowsAgree,
       PassLeavesNoneBehind, MovedIsNotified
<1> QED
  BY <1>1, <1>4, <1>5, <1>6, <1>7, <1>8, <1>9, <1>10, SetupRefers DEF IInv, StoreInv

\* A stuttering step changes no part of it.
LEMMA StutterKeeps ==
    ASSUME IInv, UNCHANGED vars
    PROVE  IInv'
<1>1. UNCHANGED <<syncs, svcObs, progObs, services, instances, revisions, resv, now, pc, work, holder, request,
                  told, budget>>
  BY DEF vars, catalogueVars
<1>2. /\ Completed' = Completed /\ LatestCompleted' = LatestCompleted
      /\ \A s : NewerThan(s)' = NewerThan(s)
      /\ \A loc, inst, number : Revision(loc, inst, number)' = Revision(loc, inst, number)
      /\ \A loc : RevisionsOf(loc)' = RevisionsOf(loc)
  BY <1>1 DEF Completed, LatestCompleted, NewerThan, Revision, RevisionsOf
<1>3. \A loc : CurrentPrograms(loc)' = CurrentPrograms(loc)
  BY <1>1, <1>2 DEF CurrentPrograms, Programs, Revision, LatestCompleted, Completed, NewerThan
<1>4. \A n \in Numbers : Settled(n) => Settled(n)'
  BY <1>1, SettledStays DEF vars
<1>5. Active' = Active
  BY <1>1 DEF Active
<1>6. TypeOK'
  BY <1>1 DEF IInv, StoreInv, TypeOK, CatalogueTypeOK
<1>7. RefsExist' /\ RowsKeyed'
  BY <1>1, <1>2 DEF IInv, StoreInv, RefsExist, RowsKeyed
<1>8. SyncsInOrder' /\ HolderIsLatest'
  BY <1>1, <1>2 DEF IInv, StoreInv, SyncsInOrder, HolderIsLatest, Completed, LatestCompleted, NewerThan
<1>9. RequestKeeps'
  BY <1>1, <1>2 DEF IInv, StoreInv, RequestKeeps, Completed, NewerThan
<1>10. WalkIsLast' /\ ServicesWalked' /\ ProgramsWalked'
  BY <1>1 DEF IInv, StoreInv, WalkIsLast, ServicesWalked, ProgramsWalked, Candidate, ServicesOf
<1>11. SuccessorsVerified'
  BY <1>1, <1>2, <1>3 DEF IInv, StoreInv, SuccessorsVerified
<1>12. EmptiesAreOld' /\ SweptInstancesStorable'
  BY <1>1, <1>2 DEF IInv, StoreInv, EmptiesAreOld, SweptInstancesStorable
<1>13. StartFindsServices'
  BY <1>1, <1>2 DEF IInv, StoreInv, StartFindsServices, BuildSnapshot, ServicesOf, LatestCompleted, Completed, NewerThan
<1>14. ActiveHasLength' /\ RowsAgree' /\ PageRead' /\ MovedIsNotified'
  BY <1>1, <1>2, <1>5 DEF IInv, FollowInv, FollowSound, ActiveHasLength, RowsAgree, PageRead, MovedIsNotified, Fits, Max
<1>15. PagePassed'
  BY <1>1, <1>4, <1>5 DEF IInv, FollowInv, PagePassed, Active
<1>16. PassLeavesNoneBehind'
  BY <1>1, <1>4, <1>5 DEF IInv, FollowInv, FollowSound, PassLeavesNoneBehind, Settled, Active
<1> QED
  BY <1>6, <1>7, <1>8, <1>9, <1>10, <1>11, <1>12, <1>13, <1>14, <1>15, <1>16 DEF IInv, StoreInv, FollowInv, FollowSound

\* The invariant is inductive: the rows of the catalogue, the generations that
\* requests, the next synchronisation and the next start load, and how far the
\* follow has come, stay consistent under every interleaving of the refresh
\* goroutine with its failures, crashes and restarts and with the users.
THEOREM InductiveInvariant == Spec => []IInv
<1>1. IInv /\ [Next]_vars => IInv'
  <2>1. IInv /\ Next => IInv'
    BY StoreKept, FollowKept DEF IInv, FollowInv
  <2> QED
    BY <2>1, StutterKeeps
<1> QED
  BY <1>1, SetupInvariant, PTL DEF Spec

\* Foreign keys hold without a refusal of the database, what a request found
\* can still be reserved, what a complete prune leaves can be stored again, and
\* the service can be started again at every moment (PruneCatalogBatch,
\* createReservationTx, nextProgramRevisionNumber, BuildSnapshot).
THEOREM StoreIsSound == Spec => []StoreSound
<1>1. IInv => StoreSound
  BY DEF IInv, StoreInv, StoreSound, RequestKeeps, FoundStays
<1> QED
  BY <1>1, InductiveInvariant, PTL

\* Reservations have the times of their revisions and running recordings end
\* with them; a follow pass without error leaves no reservation behind and the
\* scheduler knows the start of each one it moved (FollowService.Run).
THEOREM FollowIsSound == Spec => []FollowSound
<1>1. IInv => FollowSound
  BY DEF IInv, FollowInv
<1> QED
  BY <1>1, InductiveInvariant, PTL

-----------------------------------------------------------------------------
(* Action properties.                                                      *)

LEMMA ServedStay ==
    ASSUME StoreInv, Next, NEW g \in {holder, request.gen} \ {0}
    PROVE  /\ syncs'[g].state = "COMPLETED"
           /\ {o \in progObs : o.sync = g} \subseteq progObs'
           /\ {o \in svcObs : o[1] = g} \subseteq svcObs'
<1>1. TypeOK /\ HolderIsLatest /\ RequestKeeps
  BY DEF StoreInv
<1>2. request.gen # 0 => request # NoRequest
  BY DEF NoRequest
<1>3. g \in Completed /\ g \in SyncIds /\ syncs[g].state = "COMPLETED"
  BY <1>1, <1>2 DEF HolderIsLatest, RequestKeeps, Completed
<1>4. PruneBatch => g \notin Unprotected
  <2>1. SUFFICES ASSUME PruneBatch PROVE \A a, b \in NewerThan(g) : a = b
    BY <1>1, <1>3, LatestProtected
  <2>2. pc = "gc" /\ pc \in BeforeCompletion
    BY <2>1 DEF PruneBatch, BeforeCompletion
  <2>3. CASE g = holder
    BY <1>1, <2>2, <2>3 DEF HolderIsLatest
  <2>4. CASE g = request.gen /\ request # NoRequest
    BY <1>1, <2>2, <2>4 DEF RequestKeeps
  <2> QED
    BY <1>2, <2>3, <2>4
<1>5. syncs'[g] = syncs[g]
  <2>1. ~BegunNow(g) /\ ~Ended(g, "COMPLETED", now) /\ ~Ended(g, "FAILED", now) /\ ~Ended(g, "FAILED", now')
    BY <1>3 DEF BegunNow, Ended
  <2>2. ~PrunedNow(g)
    BY <1>4 DEF PrunedNow
  <2> QED
    BY <1>1, <1>3, <2>1, <2>2, SyncMoves
<1> QED
  BY <1>3, <1>4, <1>5, ProtectedStay

LEMMA CompletedWhole ==
    ASSUME StoreInv, Next, NEW s \in SyncIds, syncs[s].state = "RUNNING", syncs'[s].state = "COMPLETED"
    PROVE  /\ {o.loc : o \in {p \in progObs : p.sync = s}} = {loc \in Locators : work.offer[loc].prog # "none"}
           /\ {o[2] : o \in {p \in svcObs : p[1] = s}} = {loc \in Locators : work.offer[loc].svc}
<1>1. TypeOK /\ ServicesWalked /\ ProgramsWalked
      /\ (\A o \in progObs : o.loc \in Locators) /\ svcObs \subseteq SyncIds \X Locators
  BY DEF StoreInv, TypeOK, CatalogueTypeOK
<1>2. s = work.sync /\ pc = "complete"
  <2>1. ~BegunNow(s) /\ ~Ended(s, "FAILED", now) /\ ~Ended(s, "FAILED", now') /\ ~PrunedNow(s)
    BY DEF BegunNow, Ended, PrunedNow
  <2> QED
    BY <1>1, <2>1, SyncMoves DEF Complete
<1>3. \A loc \in Locators : (\E o \in progObs : o.sync = s /\ o.loc = loc) <=> work.offer[loc].prog # "none"
  BY <1>1, <1>2 DEF ProgramsWalked
<1>4. \A loc \in Locators : <<s, loc>> \in svcObs <=> work.offer[loc].svc
  BY <1>1, <1>2 DEF ServicesWalked
<1>5. {o.loc : o \in {p \in progObs : p.sync = s}} = {loc \in Locators : \E o \in progObs : o.sync = s /\ o.loc = loc}
  BY <1>1
<1>6. {o[2] : o \in {p \in svcObs : p[1] = s}} = {loc \in Locators : <<s, loc>> \in svcObs}
  BY <1>1
<1> QED
  BY <1>3, <1>4, <1>5, <1>6

\* No generation that somebody may load loses its state or a row, and only a
\* synchronisation that stored all that the provider offered is completed:
\* whatever failed, crashed or was pruned in between (CompleteSync, FailSync,
\* ReconcileRunningSyncs, the retention of three generations).
THEOREM GenerationsAreWhole == Spec => GenerationsWhole
<1>1. IInv /\ [Next]_vars => [ServedIsKept /\ OnlyWholeCompletes]_vars
  BY ServedStay, CompletedWhole DEF IInv, ServedIsKept, OnlyWholeCompletes
<1> QED
  BY <1>1, InductiveInvariant, PTL DEF Spec, GenerationsWhole

\* From one current generation to the next the same instance changes its
\* content only within the successor's bounds (storeProgram, MirakurunSuccessor).
THEOREM ChangesAreVerified == Spec => ShownChangesAreVerified
<1> DEFINE Verified ==
        LatestCompleted' # LatestCompleted =>
          \A loc \in Locators :
             \A old \in CurrentPrograms(loc), new \in CurrentPrograms(loc)' :
                old.inst = new.inst /\ old # new =>
                   /\ old.content.dur # 0 /\ new.content.dur # 0
                   /\ Distance(old.content.start, new.content.start) <= MaxShift
                   /\ Distance(old.content.dur, new.content.dur) <= MaxShift
<1>1. StoreInv /\ Next => Verified
  <2> SUFFICES ASSUME StoreInv, Next, LatestCompleted' # LatestCompleted, NEW loc \in Locators,
                      NEW old \in CurrentPrograms(loc), NEW new \in CurrentPrograms(loc)',
                      old.inst = new.inst, old # new
               PROVE  Within(old.content, new.content)
    BY DEF Within
  <2>1. Complete
    BY LatestKept
  <2>2. PICK w : w = work.sync /\ LatestCompleted' = w
    BY <2>1, LatestMoves
  <2>3. pc = "complete" /\ UNCHANGED <<progObs, revisions>>
    BY <2>1 DEF Complete
  <2>4. new \in Programs(w, loc)'
    BY <2>2 DEF CurrentPrograms
  <2>5. PICK o \in progObs : o.sync = w /\ o.loc = loc /\ new \in Revision(loc, o.inst, o.number)
    BY <2>3, <2>4 DEF Programs, Revision
  <2> QED
    BY <2>2, <2>3, <2>5 DEF StoreInv, SuccessorsVerified
<1>2. IInv /\ [Next]_vars => [Verified]_vars
  BY <1>1 DEF IInv
<1> QED
  BY <1>2, InductiveInvariant, PTL DEF Spec, ShownChangesAreVerified

\* A reservation moves only while its user lets it, only forward, and only to
\* what the current generation shows, whatever happened since the follow read
\* its page (ApplyReservationFollow's compare-and-swap).
THEOREM MovesRespectUsers == Spec => MoveRespectsUser
<1> DEFINE Respects ==
        \A n \in Numbers :
          resv[n].state # "absent" /\ resv'[n].number # resv[n].number =>
             /\ resv[n].state = "ACTIVE" /\ resv[n].follow /\ resv[n].attempt \in {"none", "open"}
             /\ resv'[n].number > resv[n].number
             /\ \E r \in Target(resv[n]) : r.number = resv'[n].number
<1>1. StoreInv /\ PageRead /\ Next => Respects
  <2> SUFFICES ASSUME StoreInv, PageRead, Next, NEW n \in Numbers,
                      resv[n].state # "absent", resv'[n].number # resv[n].number
               PROVE  /\ resv[n].state = "ACTIVE" /\ resv[n].follow /\ resv[n].attempt \in {"none", "open"}
                      /\ resv'[n].number > resv[n].number
                      /\ \E r \in Target(resv[n]) : r.number = resv'[n].number
    OBVIOUS
  <2>1. TypeOK /\ resv[n] \in ResvRows
    BY DEF StoreInv, TypeOK
  <2>2. FollowMoved(n)
    BY <2>1, ResvMoves DEF CreatedNow, UserChanged
  <2>3. PICK p \in work.page : \E r \in Target(p.row) :
           p.n = n /\ FollowRow /\ MayMove(n, p.row, r) /\ resv'[n] = Moved(resv[n], r)
    BY <2>2 DEF FollowMoved
  <2>4. PICK r \in Target(p.row) :
           p.n = n /\ FollowRow /\ MayMove(n, p.row, r) /\ resv'[n] = Moved(resv[n], r)
    BY <2>3
  <2>5. resv'[n].number = r.number
    BY <2>1, <2>4, MovedFields
  <2>6. resv[n].loc = p.row.loc /\ resv[n].inst = p.row.inst
    BY <2>4 DEF PageRead, FollowRow
  <2>7. r \in Target(resv[n])
    BY <2>6 DEF Target
  <2> QED
    BY <2>4, <2>5, <2>7 DEF MayMove, UnchangedSince, MayMoveEnd
<1>2. IInv /\ [Next]_vars => [Respects]_vars
  BY <1>1 DEF IInv, FollowInv
<1> QED
  BY <1>2, InductiveInvariant, PTL DEF Spec, MoveRespectsUser
=============================================================================
