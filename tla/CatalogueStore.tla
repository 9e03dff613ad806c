--------------------------- MODULE CatalogueStore ---------------------------
(***************************************************************************)
(* The catalogue rows of one backend (internal/adapters/sqlite,            *)
(* catalog_repository.go and catalog_retention.go): synchronisations, what *)
(* each of them observed, and the services, programme instances and        *)
(* revisions the observations and the reservations refer to.               *)
(* A locator stands for a service and the event it carries; what changes   *)
(* in an event is its content, a start and a duration (0: undecided).      *)
(***************************************************************************)
EXTENDS Integers, FiniteSets, FiniteSetsExt

CONSTANTS
    Locators,       \* services, each with one event
    Contents,       \* what the provider may say of an event: [start, dur]
    Generations,    \* bound on synchronisations ever begun
    Kept,           \* completed generations the retention protects: 3
    Retention,      \* RetentionPeriod: 30 days
    Horizon,        \* mirakurunObservationHorizonMS: 36 hours
    MaxShift,       \* mirakurunMaximumShiftMS: 6 hours
    Batch,          \* catalogPruneBatchSize: 1000 rows
    Numbers         \* reservation numbers

\* A request reads its generation beside at most one later completion.
ASSUME CatalogueAssumption ==
    /\ IsFiniteSet(Locators) /\ Contents \subseteq [start : Nat, dur : Nat]
    /\ Generations \in Nat /\ Kept \in Nat \ {0, 1} /\ Retention \in Nat
    /\ Horizon \in Nat /\ MaxShift \in Nat /\ Batch \in Nat \ {0}
    /\ IsFiniteSet(Numbers) /\ Numbers \subseteq Nat \ {0}

VARIABLES
    syncs,      \* catalog_syncs by number, in the order they were begun
    svcObs,     \* service_observations: <<synchronisation, locator>>
    progObs,    \* program_observations
    services,   \* last_seen of each service row, 0 for no row
    instances,  \* the programme instance of each locator, inst 0 for no row
    revisions,  \* program_revisions
    resv        \* reservations and their attempts, by number

catalogueVars == <<syncs, svcObs, progObs, services, instances, revisions>>

SyncIds == 1 .. Generations
NoSync == [state |-> "none", started |-> 0, finished |-> 0]
Classes == {"NEW_INSTANCE", "SAME_CONTENT", "AMBIGUOUS", "VERIFIED_SUCCESSOR", "INVALID"}

Revisions == [loc : Locators, inst : 1 .. Generations, number : 1 .. Generations,
              content : Contents]
CatalogueTypeOK(MaxTime) ==
    LET Times == 0 .. MaxTime IN
    /\ syncs \in [SyncIds -> [state : {"none", "RUNNING", "COMPLETED", "FAILED", "pruned"},
                              started : Times, finished : Times]]
    /\ \A s \in SyncIds : syncs[s].state \in {"COMPLETED", "FAILED"} <=> syncs[s].finished # 0
    /\ svcObs \subseteq SyncIds \X Locators
    /\ progObs \subseteq [sync : SyncIds, loc : Locators, inst : 0 .. Generations,
                          number : 0 .. Generations, class : Classes]
    /\ services \in [Locators -> Times]
    /\ instances \in [Locators -> [inst : 0 .. Generations, seen : Times]]
    /\ revisions \subseteq Revisions

-----------------------------------------------------------------------------
(* Queries.                                                                *)

Completed == {s \in SyncIds : syncs[s].state = "COMPLETED"}
Running == {s \in SyncIds : syncs[s].state = "RUNNING"}
NewerThan(s) == {n \in Completed : \/ syncs[n].finished > syncs[s].finished
                                   \/ syncs[n].finished = syncs[s].finished /\ n > s}

\* ORDER BY finished_at_utc_ms DESC, id DESC LIMIT 1; 0 when none is completed.
LatestCompleted == IF Completed = {} THEN 0
                   ELSE CHOOSE s \in Completed : NewerThan(s) = {}

Revision(loc, inst, number) ==
    {r \in revisions : r.loc = loc /\ r.inst = inst /\ r.number = number}

\* ProgramsMatchingGeneration: the rows of a completed generation, joined with
\* their revisions; an INVALID observation names none.
Programs(g, loc) ==
    IF g = 0 \/ syncs[g].state # "COMPLETED" THEN {}
    ELSE UNION {Revision(loc, o.inst, o.number) : o \in {p \in progObs : p.sync = g /\ p.loc = loc}}

\* CurrentPrograms and its variants: those of the latest completed generation.
CurrentPrograms(loc) == Programs(LatestCompleted, loc)

\* The services of a generation in the given state (ServicesForGeneration).
ServicesOf(g, state) == {loc \in Locators : syncs[g].state = state /\ <<g, loc>> \in svcObs}

-----------------------------------------------------------------------------
(* A synchronisation.                                                      *)

BeginSync(s, now) ==
    /\ syncs[s].state = "none"
    /\ syncs' = [syncs EXCEPT ![s] = [state |-> "RUNNING", started |-> now, finished |-> 0]]

FinishSync(s, state, now) ==
    /\ syncs[s].state = "RUNNING" /\ syncs[s].started <= now
    /\ syncs' = [syncs EXCEPT ![s].state = state, ![s].finished = now]

Observed(s) == Cardinality({o \in progObs : o.sync = s})

\* The counts of the walk and of the stored rows must agree.
CompleteSync(s, now, count) == Observed(s) = count /\ FinishSync(s, "COMPLETED", now)
FailSync(s, now) == FinishSync(s, "FAILED", now)

\* The startup closes every synchronisation an earlier process left behind.
ReconcileRunningSyncs(now) ==
    syncs' = [s \in SyncIds |-> IF s \in Running
                                THEN [syncs[s] EXCEPT !.state = "FAILED", !.finished = now]
                                ELSE syncs[s]]

StoreService(s, loc) ==
    /\ s \in Running /\ <<s, loc>> \notin svcObs
    /\ services' = [services EXCEPT ![loc] = syncs[s].started]
    /\ svcObs' = svcObs \cup {<<s, loc>>}
    /\ UNCHANGED <<syncs, progObs, instances, revisions>>

-----------------------------------------------------------------------------
(* storeProgram: which instance and revision an observed content belongs   *)
(* to.                                                                     *)

Distance(a, b) == IF a >= b THEN a - b ELSE b - a

\* MirakurunSuccessor, between two contents of the same event id.
MirakurunSuccessor(old, oldSeen, new, seen) ==
    /\ old.dur # 0 /\ new.dur # 0
    /\ seen - oldSeen <= Horizon
    /\ Distance(old.start, new.start) <= MaxShift /\ Distance(old.dur, new.dur) <= MaxShift

\* readCompletedProgramReference: the revision the latest completed generation
\* shows for the locator's instance.
Reference(loc) == {r \in CurrentPrograms(loc) : r.inst = instances[loc].inst}

RevisionsOf(loc) == {r \in revisions : r.loc = loc /\ r.inst = instances[loc].inst}
WithContent(loc, content) == {r \in RevisionsOf(loc) : r.content = content}
NextNumber(loc) == Max({0} \cup {r.number : r \in RevisionsOf(loc)}) + 1

Observe(s, loc, inst, number, class) ==
    progObs' = progObs \cup {[sync |-> s, loc |-> loc, inst |-> inst, number |-> number, class |-> class]}
Touch(s, loc) ==
    /\ instances[loc].seen <= syncs[s].started
    /\ instances' = [instances EXCEPT ![loc].seen = syncs[s].started]

StoreInvalid(s, loc) ==
    Observe(s, loc, 0, 0, "INVALID") /\ UNCHANGED <<instances, revisions>>

\* A fresh instance id; one synchronisation makes at most one per locator.
StoreNewProgram(s, loc, content) ==
    /\ instances' = [instances EXCEPT ![loc] = [inst |-> s, seen |-> syncs[s].started]]
    /\ revisions' = revisions \cup {[loc |-> loc, inst |-> s, number |-> 1, content |-> content]}
    /\ Observe(s, loc, s, 1, "NEW_INSTANCE")

StoreExisting(s, loc, revision, class) ==
    /\ Touch(s, loc)
    /\ Observe(s, loc, revision.inst, revision.number, class)
    /\ UNCHANGED revisions

\* nextProgramRevisionNumber refuses an instance that has lost its revisions.
StoreRevision(s, loc, content, class) ==
    /\ NextNumber(loc) >= 2
    /\ Touch(s, loc)
    /\ revisions' = revisions \cup {[loc |-> loc, inst |-> instances[loc].inst,
                                     number |-> NextNumber(loc), content |-> content]}
    /\ Observe(s, loc, instances[loc].inst, NextNumber(loc), class)

FindOrStore(s, loc, content, foundClass, newClass) ==
    IF WithContent(loc, content) # {}
    THEN \E r \in WithContent(loc, content) : StoreExisting(s, loc, r, foundClass)
    ELSE StoreRevision(s, loc, content, newClass)

\* A faulty class: any new content counts as a successor.
StoreUnverified(s, loc, content, ref) ==
    FindOrStore(s, loc, content, "SAME_CONTENT", "VERIFIED_SUCCESSOR")
StoreAgainst(s, loc, content, ref) ==
    IF ref.content = content THEN StoreExisting(s, loc, ref, "SAME_CONTENT")
    ELSE IF MirakurunSuccessor(ref.content, syncs[LatestCompleted].started, content, syncs[s].started)
         THEN FindOrStore(s, loc, content, "SAME_CONTENT", "VERIFIED_SUCCESSOR")
         ELSE StoreExisting(s, loc, ref, "AMBIGUOUS")

StoreKnown(s, loc, content) ==
    IF Reference(loc) = {}
    THEN FindOrStore(s, loc, content, "NEW_INSTANCE", "NEW_INSTANCE")
    ELSE \E ref \in Reference(loc) : StoreAgainst(s, loc, content, ref)

\* A programme of an unknown service, or one the provider described badly,
\* is recorded as invalid.
StoreProgram(s, loc, valid, content) ==
    /\ s \in Running
    /\ ~\E o \in progObs : o.sync = s /\ o.loc = loc
    /\ IF <<s, loc>> \notin svcObs \/ ~valid THEN StoreInvalid(s, loc)
       ELSE IF instances[loc].inst = 0 THEN StoreNewProgram(s, loc, content)
       ELSE StoreKnown(s, loc, content)
    /\ UNCHANGED <<syncs, svcObs, services>>

-----------------------------------------------------------------------------
(* PruneCatalogBatch: the first stage that has rows loses one batch.       *)

\* Failed generations, and completed ones with Kept newer (LIMIT 1 OFFSET 2).
Unprotected == {s \in SyncIds : \/ syncs[s].state = "FAILED"
                                \/ s \in Completed /\ Cardinality(NewerThan(s)) >= Kept}

\* A faulty sweep that does not look for reservations.
NobodyReserved(loc, inst) == FALSE
Reserved(loc, inst) ==
    \E n \in Numbers : resv[n].state # "absent" /\ resv[n].loc = loc /\ resv[n].inst = inst

Unreferenced(loc) ==
    /\ ~\E o \in progObs : o.loc = loc /\ o.inst = instances[loc].inst
    /\ ~Reserved(loc, instances[loc].inst)

OldProgObs == {o \in progObs : o.sync \in Unprotected}
OldSvcObs == {o \in svcObs : o[1] \in Unprotected}
OldSyncs(cutoff) ==
    {s \in Unprotected : /\ syncs[s].finished < cutoff
                         /\ ~\E o \in progObs : o.sync = s
                         /\ ~\E o \in svcObs : o[1] = s}
OldInstances(cutoff) ==
    {loc \in Locators : instances[loc].inst # 0 /\ instances[loc].seen < cutoff /\ Unreferenced(loc)}
OldRevisions(cutoff) ==
    {r \in revisions : r.loc \in OldInstances(cutoff) /\ r.inst = instances[r.loc].inst}
EmptyInstances(cutoff) == {loc \in OldInstances(cutoff) : RevisionsOf(loc) = {}}
OldServices(cutoff) ==
    {loc \in Locators : /\ services[loc] # 0 /\ services[loc] < cutoff
                        /\ ~\E o \in svcObs : o[2] = loc
                        /\ instances[loc].inst = 0}

Batches(rows) == {b \in SUBSET rows : Cardinality(b) = Min({Batch, Cardinality(rows)})}

PruneObservations ==
    \E b \in Batches(OldProgObs) :
        progObs' = progObs \ b /\ UNCHANGED <<syncs, svcObs, services, instances, revisions>>
PruneServiceObservations ==
    \E b \in Batches(OldSvcObs) :
        svcObs' = svcObs \ b /\ UNCHANGED <<syncs, progObs, services, instances, revisions>>
PruneSyncs(cutoff) ==
    \E b \in Batches(OldSyncs(cutoff)) :
        /\ syncs' = [s \in SyncIds |-> IF s \in b THEN [NoSync EXCEPT !.state = "pruned"] ELSE syncs[s]]
        /\ UNCHANGED <<svcObs, progObs, services, instances, revisions>>
PruneRevisions(cutoff) ==
    \E b \in Batches(OldRevisions(cutoff)) :
        revisions' = revisions \ b /\ UNCHANGED <<syncs, svcObs, progObs, services, instances>>
PruneInstances(cutoff) ==
    \E b \in Batches(EmptyInstances(cutoff)) :
        /\ instances' = [loc \in Locators |-> IF loc \in b THEN [inst |-> 0, seen |-> 0] ELSE instances[loc]]
        /\ UNCHANGED <<syncs, svcObs, progObs, services, revisions>>
PruneServices(cutoff) ==
    \E b \in Batches(OldServices(cutoff)) :
        /\ services' = [loc \in Locators |-> IF loc \in b THEN 0 ELSE services[loc]]
        /\ UNCHANGED <<syncs, svcObs, progObs, instances, revisions>>

AllEmpty(cutoff) ==
    /\ OldProgObs = {} /\ OldSvcObs = {} /\ OldSyncs(cutoff) = {}
    /\ OldRevisions(cutoff) = {} /\ EmptyInstances(cutoff) = {} /\ OldServices(cutoff) = {}

PruneCatalogBatch(cutoff) ==
    IF OldProgObs # {} THEN PruneObservations
    ELSE IF OldSvcObs # {} THEN PruneServiceObservations
    ELSE IF OldSyncs(cutoff) # {} THEN PruneSyncs(cutoff)
    ELSE IF OldRevisions(cutoff) # {} THEN PruneRevisions(cutoff)
    ELSE IF EmptyInstances(cutoff) # {} THEN PruneInstances(cutoff)
    ELSE OldServices(cutoff) # {} /\ PruneServices(cutoff)
=============================================================================
