------------------------------ MODULE Catalogue ------------------------------
(***************************************************************************)
(* The catalogue refresh loop of the service (app/catalogrefresh,          *)
(* app/cataloggc, app/catalogsync, app/recording/follow.go and             *)
(* cmd/sazanami-dvr/catalog_refresh.go) over CatalogueStore, beside the    *)
(* requests that read one generation and the operations on reservations.   *)
(*                                                                         *)
(* One goroutine repeats a pass: prune, synchronise, publish, follow.  A   *)
(* pass is short for the clock, which moves only between two passes.  A    *)
(* reservation's margins are zero.                                         *)
(***************************************************************************)
EXTENDS CatalogueStore

CONSTANTS
    First,          \* what setup's synchronisation saw of every event
    Configured,     \* the services the channel map names
    Offers,         \* what the provider may say of a locator in one answer
    MaxPage,        \* reservations read at a time: core.MaxPage
    ExtensionOnly,  \* -active-follow-extension-only
    MaxTime,        \* bound on the clock
    MaxFaults,      \* bound on failed steps and crashes
    MaxUserOps      \* bound on the users' and the scheduler's operations

ASSUME RefreshAssumption ==
    /\ First \in Contents /\ First.dur >= 1
    /\ Configured \subseteq Locators
    /\ Offers \subseteq [svc : BOOLEAN, prog : {"none", "valid", "invalid"}, content : Contents]
    /\ Offers # {} /\ Generations # 0
    /\ MaxPage \in Nat \ {0} /\ ExtensionOnly \in BOOLEAN
    /\ MaxTime \in Nat \ {0} /\ MaxFaults \in Nat /\ MaxUserOps \in Nat

VARIABLES
    now,        \* the wall clock, which does not go back
    pc,         \* where the refresh goroutine is
    work,       \* the locals of the current pass
    holder,     \* SnapshotHolder: the generation requests read
    request,    \* a request in progress with the generation it loaded
    told,       \* the start the scheduler last read of each reservation
    budget      \* faults and operations used so far

vars == <<catalogueVars, resv, now, pc, work, holder, request, told, budget>>

NoRequest == [gen |-> 0, crossed |-> 0, found |-> {}]
\* work.offer is what the provider answers in this synchronisation.
NoPass == [offer |-> [loc \in Locators |-> CHOOSE o \in Offers : TRUE],
           sync |-> 0, left |-> {}, count |-> 0, cutoff |-> 0, swept |-> FALSE,
           after |-> 0, page |-> {}, full |-> FALSE, moved |-> {}, touched |-> {}, clean |-> FALSE]
NoResv == [state |-> "absent", loc |-> 0, inst |-> 0, number |-> 0, start |-> 0, dur |-> 0,
           version |-> 0, follow |-> FALSE, attempt |-> "none", attStart |-> 0, attEnd |-> 0]

Steps == {"down", "gc", "begin", "services", "programs", "validate", "complete", "publish",
          "fail", "page", "rows", "wait"}

ResvRows == [state : {"absent", "ACTIVE", "FINISHED"}, loc : Locators \cup {0},
             inst : 0 .. Generations, number : 0 .. Generations, start : Nat, dur : Nat,
             version : Nat, follow : BOOLEAN, attempt : {"none", "open", "closing", "ended"},
             attStart : Nat, attEnd : Nat]
Passes == [offer : [Locators -> Offers], sync : 0 .. Generations, left : SUBSET Locators,
           count : 0 .. Cardinality(Locators), cutoff : Int, swept : BOOLEAN,
           after : Numbers \cup {0}, page : SUBSET [n : Numbers, row : ResvRows], full : BOOLEAN,
           moved : SUBSET Numbers, touched : SUBSET Numbers, clean : BOOLEAN]

TypeOK ==
    /\ CatalogueTypeOK(MaxTime)
    /\ now \in 1 .. MaxTime /\ pc \in Steps /\ holder \in SyncIds /\ work \in Passes
    /\ request \in [gen : 0 .. Generations, crossed : {0, 1}, found : SUBSET Revisions]
    /\ resv \in [Numbers -> ResvRows] /\ told \in [Numbers -> Nat]
    /\ budget \in [faults : 0 .. MaxFaults, ops : 0 .. MaxUserOps]

-----------------------------------------------------------------------------
(* The refresh loop (catalogrefresh.run, recordingCatalogRefresh.sync).    *)

Fault == budget.faults < MaxFaults /\ budget' = [budget EXCEPT !.faults = @ + 1]

\* The model has no number for a synchronisation beyond the last one.
StartPass ==
    /\ \E s \in SyncIds : syncs[s].state = "none"
    /\ pc' = "gc"
    /\ work' = [NoPass EXCEPT !.cutoff = now' - Retention]

\* The prune's batches: no other step of the pass starts before they end.
PruneBatch ==
    /\ pc = "gc" /\ ~AllEmpty(work.cutoff)
    /\ PruneCatalogBatch(work.cutoff)
    /\ UNCHANGED <<resv, now, pc, work, holder, request, told, budget>>

Swept == AllEmpty(work.cutoff)

PruneDone ==
    /\ pc = "gc" /\ Swept
    /\ pc' = "begin" /\ work' = [work EXCEPT !.swept = TRUE]
    /\ UNCHANGED <<catalogueVars, resv, now, holder, request, told, budget>>

\* The prune's own deadline, or an error: the pass goes on without it.
PruneCut ==
    /\ pc = "gc" /\ Fault /\ pc' = "begin"
    /\ UNCHANGED <<catalogueVars, resv, now, work, holder, request, told>>

Begin ==
    /\ pc = "begin"
    /\ \E s \in SyncIds :
          /\ \A q \in SyncIds : (syncs[q].state = "none") <=> q >= s
          /\ BeginSync(s, now)
          /\ \E offer \in [Locators -> Offers] :
                work' = [work EXCEPT !.sync = s, !.left = Locators, !.offer = offer]
    /\ pc' = "services"
    /\ UNCHANGED <<svcObs, progObs, services, instances, revisions, resv, now, holder, request,
                   told, budget>>

\* consumeServices: every service the provider offers is stored.
ConsumeService ==
    /\ pc = "services"
    /\ \E loc \in work.left :
          /\ work.offer[loc].svc /\ StoreService(work.sync, loc)
          /\ work' = [work EXCEPT !.left = @ \ {loc}]
    /\ UNCHANGED <<resv, now, pc, holder, request, told, budget>>

ServicesEnd ==
    /\ pc = "services" /\ \A loc \in work.left : ~work.offer[loc].svc
    /\ pc' = "programs" /\ work' = [work EXCEPT !.left = Locators]
    /\ UNCHANGED <<catalogueVars, resv, now, holder, request, told, budget>>

\* consumePrograms.
ConsumeProgram ==
    /\ pc = "programs"
    /\ \E loc \in work.left :
          /\ work.offer[loc].prog # "none"
          /\ StoreProgram(work.sync, loc, work.offer[loc].prog = "valid", work.offer[loc].content)
          /\ work' = [work EXCEPT !.left = @ \ {loc}, !.count = @ + 1]
    /\ UNCHANGED <<resv, now, pc, holder, request, told, budget>>

\* A faulty walk that stops before the end.
AtEndEarly == TRUE
AtEnd == \A loc \in work.left : work.offer[loc].prog = "none"

ProgramsEnd ==
    /\ pc = "programs" /\ AtEnd
    /\ pc' = "validate"
    /\ UNCHANGED <<catalogueVars, resv, now, work, holder, request, told, budget>>

\* BuildCandidateSnapshot, from the rows of the running generation: each
\* configured service must be among them.
Candidate(s) == Configured \subseteq ServicesOf(s, "RUNNING")

Validate ==
    /\ pc = "validate"
    /\ pc' = IF Candidate(work.sync) THEN "complete" ELSE "fail"
    /\ UNCHANGED <<catalogueVars, resv, now, work, holder, request, told, budget>>

Complete ==
    /\ pc = "complete"
    /\ CompleteSync(work.sync, now, work.count)
    /\ pc' = "publish"
    /\ UNCHANGED <<svcObs, progObs, services, instances, revisions, resv, now, work, holder,
                   request, told, budget>>

Publish ==
    /\ pc = "publish"
    /\ holder' = work.sync
    /\ pc' = "page" /\ work' = NoPass
    /\ UNCHANGED <<catalogueVars, resv, now, request, told, budget>>

\* Any step of the synchronisation may fail; so may the first one, which
\* leaves no row.  A programme that cannot be stored fails the walk as well.
Stuck ==
    /\ pc = "programs"
    /\ \E loc \in work.left :
          /\ work.offer[loc].prog = "valid" /\ <<work.sync, loc>> \in svcObs
          /\ instances[loc].inst # 0 /\ RevisionsOf(loc) = {}
SyncError ==
    /\ \/ pc \in {"services", "programs", "validate", "complete"} /\ pc' = "fail" /\ Fault
       \/ pc = "begin" /\ pc' = "wait" /\ Fault
       \/ Stuck /\ pc' = "fail" /\ UNCHANGED budget
    /\ UNCHANGED <<catalogueVars, resv, now, work, holder, request, told>>

\* FailSync, which a cancelled context does not stop, or its own failure.
Fail ==
    /\ pc = "fail" /\ pc' = "wait" /\ work' = NoPass
    /\ \/ FailSync(work.sync, now) /\ UNCHANGED budget
       \/ Fault /\ UNCHANGED syncs
    /\ UNCHANGED <<svcObs, progObs, services, instances, revisions, resv, now, holder,
                   request, told>>

-----------------------------------------------------------------------------
(* FollowService.Run.                                                      *)

Active == {n \in Numbers : resv[n].state = "ACTIVE"}
\* A faulty cursor that skips a row.
AfterSkipping(k) == {n \in Active : n > k + 1}
After(k) == {n \in Active : n > k}
PageOf(k) == {n \in After(k) : Cardinality({m \in After(k) : m < n}) < MaxPage}

\* One page of reservations as they are now.
FollowPage ==
    /\ pc = "page" /\ pc' = "rows"
    /\ work' = [work EXCEPT !.page = {[n |-> n, row |-> resv[n]] : n \in PageOf(work.after)},
                            !.full = Cardinality(PageOf(work.after)) = MaxPage]
    /\ UNCHANGED <<catalogueVars, resv, now, holder, request, told, budget>>

\* CurrentFollowTarget: what the latest generation says of the instance.
Target(row) == {r \in CurrentPrograms(row.loc) : r.inst = row.inst /\ r.content.dur >= 1}
Moves(row, r) == r.number # row.number /\ r.content # [start |-> row.start, dur |-> row.dur]

Fits(start, dur, attStart) == Max({start + dur, attStart + 1})

MovedRow(row, r) ==
    [row EXCEPT !.number = r.number, !.start = r.content.start, !.dur = r.content.dur, !.version = @ + 1]
MovedWithEnd(row, r) ==
    [MovedRow(row, r) EXCEPT !.attEnd = Fits(r.content.start, r.content.dur, row.attStart)]

\* A faulty update that does not compare.
UnchangedIgnored(n, read) == TRUE

\* The compare-and-swap of ApplyReservationFollow.
UnchangedSince(n, read) ==
    /\ resv[n].state = "ACTIVE" /\ resv[n].follow
    /\ resv[n].version = read.version /\ resv[n].number = read.number

\* applyActiveRecordingFollow: a running recording moves with its end.
MayMoveEnd(row, r) ==
    LET end == Fits(r.content.start, r.content.dur, row.attStart) IN
    /\ row.attempt = "open"
    /\ Fits(row.start, row.dur, row.attStart) = row.attEnd
    /\ ExtensionOnly => r.content.start = row.start /\ end > row.attEnd

ApplyReservationFollow(n, read, r) ==
    IF UnchangedSince(n, read) /\ r.number > read.number
       /\ (resv[n].attempt = "none" \/ MayMoveEnd(resv[n], r))
    THEN /\ resv' = [resv EXCEPT ![n] = IF @.attempt = "none" THEN MovedRow(@, r) ELSE MovedWithEnd(@, r)]
         /\ work' = [work EXCEPT !.page = {p \in @ : p.n # n}, !.after = n, !.moved = @ \cup {n}]
    ELSE /\ work' = [work EXCEPT !.page = {p \in @ : p.n # n}, !.after = n]
         /\ UNCHANGED resv

\* One reservation of the page.  The catalogue changes only in this same
\* goroutine, so that its target cannot change before it is applied.
FollowRow ==
    /\ pc = "rows" /\ work.page # {}
    /\ \E p \in work.page :
          /\ \A q \in work.page : p.n <= q.n
          /\ IF p.row.follow /\ \E r \in Target(p.row) : Moves(p.row, r)
             THEN \E r \in Target(p.row) : ApplyReservationFollow(p.n, p.row, r)
             ELSE /\ work' = [work EXCEPT !.page = @ \ {p}, !.after = p.n]
                  /\ UNCHANGED resv
    /\ UNCHANGED <<catalogueVars, now, pc, holder, request, told, budget>>

Starts == [n \in Numbers |-> resv[n].start]
ToldOfAll == IF work.moved # {} THEN Starts ELSE told

\* A faulty paging that begins again.
NextPageAgain == pc' = "page" /\ work' = [work EXCEPT !.after = 0]
NextPage == pc' = "page" /\ UNCHANGED work

\* A short page is the last one; only then does OnUpdated wake the scheduler.
FollowPageEnd ==
    /\ pc = "rows" /\ work.page = {}
    /\ IF work.full
       THEN NextPage /\ UNCHANGED told
       ELSE pc' = "wait" /\ work' = [work EXCEPT !.clean = TRUE] /\ told' = ToldOfAll
    /\ UNCHANGED <<catalogueVars, resv, now, holder, request, budget>>

FollowError ==
    /\ pc \in {"page", "rows"} /\ pc' = "wait" /\ Fault
    /\ UNCHANGED <<catalogueVars, resv, now, work, holder, request, told>>

-----------------------------------------------------------------------------
(* The clock, the end of the process and its start.                        *)

\* A request is far shorter than the interval: it meets one at most.
NextPass ==
    /\ pc = "wait" /\ now < MaxTime /\ request.crossed = 0
    /\ now' = now + 1
    /\ StartPass
    /\ request' = IF request = NoRequest THEN request ELSE [request EXCEPT !.crossed = 1]
    /\ UNCHANGED <<catalogueVars, resv, holder, told, budget>>

Crash ==
    /\ pc # "down" /\ Fault /\ pc' = "down"
    /\ request' = NoRequest /\ work' = NoPass
    /\ UNCHANGED <<catalogueVars, resv, now, holder, told>>

\* BuildSnapshot: the start fails without the configured services.
BuildSnapshot(g) == g # 0 /\ Configured \subseteq ServicesOf(g, "COMPLETED")

\* The startup closes the synchronisations it finds running, publishes the
\* latest completed generation and refreshes at once.
Restart ==
    /\ pc = "down" /\ now' \in now .. MaxTime
    /\ ReconcileRunningSyncs(now')
    /\ BuildSnapshot(LatestCompleted)
    /\ holder' = LatestCompleted
    /\ told' = Starts
    /\ StartPass
    /\ UNCHANGED <<svcObs, progObs, services, instances, revisions, resv, request, budget>>

-----------------------------------------------------------------------------
(* Requests, which load one generation at their start, and reservations.   *)

Up == pc # "down"
Op == Up /\ budget.ops < MaxUserOps /\ budget' = [budget EXCEPT !.ops = @ + 1]

\* FindProgram: exactly one row of the generation matches what the user named.
AddBegins ==
    /\ Op /\ request = NoRequest
    /\ \E loc \in Configured :
          \E r \in Programs(holder, loc) :
             /\ r.content.dur >= 1
             /\ request' = [NoRequest EXCEPT !.gen = holder, !.found = {r}]
    /\ UNCHANGED <<catalogueVars, resv, now, pc, work, holder, told>>

RequestEnds ==
    /\ Up /\ request # NoRequest /\ request' = NoRequest
    /\ UNCHANGED <<catalogueVars, resv, now, pc, work, holder, told, budget>>

NewResv(r, follow) ==
    [state |-> "ACTIVE", loc |-> r.loc, inst |-> r.inst, number |-> r.number,
     start |-> r.content.start, dur |-> r.content.dur, version |-> 1, follow |-> follow,
     attempt |-> "none", attStart |-> 0, attEnd |-> 0]

\* createReservationTx, with the next number; OnAdded wakes the scheduler.
CreateReservation ==
    /\ Up /\  request' = NoRequest
    /\ \E r \in request.found, n \in Numbers :
          /\ ~\E m \in Active : resv[m].loc = r.loc
          /\ \A m \in Numbers : (resv[m].state = "absent") <=> m >= n
          /\ \E follow \in BOOLEAN :
                resv' = [resv EXCEPT ![n] = NewResv(r, follow)]
          /\ told' = [Starts EXCEPT ![n] = r.content.start]
          /\ work' = [work EXCEPT !.touched = @ \cup {n}]
    /\ UNCHANGED <<catalogueVars, now, pc, holder, budget>>

\* UpdateReservation, as far as it concerns the follow.
ChangeFollow(n) ==
    /\ Op /\ n \in Active /\ resv[n].attempt = "none"
    /\ resv' = [resv EXCEPT ![n] = [@ EXCEPT !.follow = ~resv[n].follow, !.version = resv[n].version + 1]]
    /\ told' = Starts
    /\ work' = [work EXCEPT !.touched = @ \cup {n}]
    /\ UNCHANGED <<catalogueVars, now, pc, holder, request>>

\* StopReservation before a recording exists.
Cancel(n) ==
    /\ Op /\ n \in Active /\ resv[n].attempt = "none"
    /\ resv' = [resv EXCEPT ![n] = [@ EXCEPT !.state = "FINISHED", !.version = resv[n].version + 1]]
    /\ told' = Starts
    /\ UNCHANGED <<catalogueVars, now, pc, work, holder, request>>

\* ClaimRecording fixes the recording's times; a recording that finalizes
\* (BeginFinalization) no longer moves, and FinishAttempt ends both rows.
Claim(n) ==
    /\ Op /\ n \in Active /\ resv[n].attempt = "none"
    /\ resv' = [resv EXCEPT ![n] = [@ EXCEPT !.attempt = "open", !.attStart = resv[n].start,
                                              !.attEnd = resv[n].start + resv[n].dur]]
    /\ told' = Starts
    /\ UNCHANGED <<catalogueVars, now, pc, work, holder, request>>

Close(n) ==
    /\ Up /\ n \in Active /\ resv[n].attempt = "open"
    /\ resv' = [resv EXCEPT ![n].attempt = "closing"]
    /\ UNCHANGED <<catalogueVars, now, pc, work, holder, request, told, budget>>

Finish(n) ==
    /\ Up /\ n \in Active /\ resv[n].attempt = "closing"
    /\ resv' = [resv EXCEPT ![n] = [@ EXCEPT !.attempt = "ended", !.state = "FINISHED", !.version = resv[n].version + 1]]
    /\ UNCHANGED <<catalogueVars, now, pc, work, holder, request, told, budget>>

-----------------------------------------------------------------------------
(* setup leaves one completed generation with one programme per service.   *)
Init ==
    /\ revisions = [loc : Locators, inst : {1}, number : {1}, content : {First}]
    /\ syncs = [s \in SyncIds |-> IF s = 1 THEN [state |-> "COMPLETED", started |-> 1, finished |-> 1]
                               ELSE NoSync]
    /\ svcObs = {1} \X Locators
    /\ progObs = [sync : {1}, loc : Locators, inst : {1}, number : {1}, class : {"NEW_INSTANCE"}]
    /\ services = [loc \in Locators |-> 1]
    /\ instances = [loc \in Locators |-> [inst |-> 1, seen |-> 1]]
    /\ resv = [n \in Numbers |-> NoResv] /\ told = [n \in Numbers |-> 0]
    /\ now = 1 /\ pc = "gc" /\ work = [NoPass EXCEPT !.cutoff = 1 - Retention]
    /\ holder = 1 /\ request = NoRequest /\ budget = [faults |-> 0, ops |-> 0]

Refresh ==
    \/ PruneBatch \/ PruneDone \/ Begin \/ ConsumeService \/ ServicesEnd \/ ConsumeProgram
    \/ ProgramsEnd \/ Validate \/ Complete \/ Publish \/ Fail \/ FollowPage \/ FollowRow \/ FollowPageEnd
Faults == PruneCut \/ SyncError \/ FollowError \/ Crash
Users ==
    \/ AddBegins \/ RequestEnds \/ CreateReservation
    \/ \E n \in Numbers : ChangeFollow(n) \/ Cancel(n) \/ Claim(n) \/ Close(n) \/ Finish(n)

Next == Refresh \/ Faults \/ NextPass \/ Restart \/ Users
Spec == Init /\ [][Next]_vars
\* The goroutine runs on, and what it asks of the provider and the database
\* answers within its deadline.
LiveSpec == Spec /\ WF_vars(Refresh \/ SyncError)

-----------------------------------------------------------------------------
(* Properties.                                                             *)

\* Whatever was pruned, in however many batches, and wherever a crash or a
\* failure cut a pass, every reference between the rows leads to a row: the
\* foreign keys hold without the database having to refuse a prune.
RefsExist ==
    /\ \A o \in svcObs : services[o[2]] # 0 /\ syncs[o[1]].state \notin {"none", "pruned"}
    /\ \A o \in progObs : /\ syncs[o.sync].state \notin {"none", "pruned"}
                          /\ o.class # "INVALID" => Revision(o.loc, o.inst, o.number) # {}
    /\ \A r \in revisions : instances[r.loc].inst = r.inst
    /\ \A loc \in Locators : instances[loc].inst # 0 => services[loc] # 0
    /\ \A n \in Numbers : resv[n].state # "absent" => Revision(resv[n].loc, resv[n].inst, resv[n].number) # {}

\* A programme that a request found in its generation can still be reserved
\* when the request writes its row, whatever was pruned in between.
FoundStays == request.found \subseteq revisions

\* The generation that new requests load, and the one a running request has
\* loaded, stay completed and lose no row (retention keeps three of them).
ServedIsKept ==
    \A g \in {holder, request.gen} \ {0} :
        /\ syncs'[g].state = "COMPLETED"
        /\ {o \in progObs : o.sync = g} \subseteq progObs'
        /\ {o \in svcObs : o[1] = g} \subseteq svcObs'

\* The service can be started again at every moment: the latest completed
\* generation has the services that the channel map names.
StartFindsServices == BuildSnapshot(LatestCompleted)

\* A synchronisation is completed only with every service and programme the
\* provider offered in it: one cut off by an error never becomes current.
OnlyWholeCompletes ==
    \A s \in SyncIds :
        syncs[s].state = "RUNNING" /\ syncs'[s].state = "COMPLETED" =>
            /\ {o.loc : o \in {p \in progObs : p.sync = s}} =
                  {loc \in Locators : work.offer[loc].prog # "none"}
            /\ {o[2] : o \in {p \in svcObs : p[1] = s}} = {loc \in Locators : work.offer[loc].svc}

\* The generations that anybody may load are whole when they appear, and stay
\* whole while they are served: no sweep, failure or crash takes of them.
GenerationsWhole == [][ServedIsKept /\ OnlyWholeCompletes]_vars

\* From one current generation to the next an event changes its content only
\* within the bounds under which it is the same programme (MirakurunSuccessor).
ShownChangesAreVerified ==
    [][LatestCompleted' # LatestCompleted =>
          \A loc \in Locators :
             \A old \in CurrentPrograms(loc), new \in CurrentPrograms(loc)' :
                old.inst = new.inst /\ old # new =>
                   /\ old.content.dur # 0 /\ new.content.dur # 0
                   /\ Distance(old.content.start, new.content.start) <= MaxShift
                   /\ Distance(old.content.dur, new.content.dur) <= MaxShift]_vars

\* After a prune that ran to its end no event is left that a synchronisation
\* could not store again (nextProgramRevisionNumber needs an older revision).
SweptInstancesStorable ==
    work.swept /\ pc \in {"begin", "services", "programs"} =>
        \A loc \in Locators : instances[loc].inst # 0 => RevisionsOf(loc) # {}

\* The rows of the store fit together, and with what requests, the next
\* synchronisation and the next start take from them.
StoreSound ==
    TypeOK /\ RefsExist /\ FoundStays /\ SweptInstancesStorable /\ StartFindsServices

\* An active reservation has the times of the revision it names, and while its
\* recording runs, the recording ends when the reservation does.
RowsAgree ==
    \A n \in Active :
        /\ \E r \in Revision(resv[n].loc, resv[n].inst, resv[n].number) :
              r.content = [start |-> resv[n].start, dur |-> resv[n].dur]
        /\ resv[n].attempt = "open" => resv[n].attEnd = Fits(resv[n].start, resv[n].dur, resv[n].attStart)

\* A reservation moves only while its user wants it to follow, while it is
\* active and its recording not yet closing, and only to a later revision that
\* the current generation shows - though all was read some steps before.
MoveRespectsUser ==
    [][\A n \in Numbers :
          resv[n].state # "absent" /\ resv'[n].number # resv[n].number =>
             /\ resv[n].state = "ACTIVE" /\ resv[n].follow /\ resv[n].attempt \in {"none", "open"}
             /\ resv'[n].number > resv[n].number
             /\ \E r \in Target(resv[n]) : r.number = resv'[n].number]_vars

\* The specification of the follow moves a reservation only to a verified
\* successor (or to one verified before).  The code asks for the class nowhere:
\* an event absent from one generation comes back unverified, with any content.
FollowsVerifiedOnly ==
    [][\A n \in Numbers :
          resv[n].state # "absent" /\ resv'[n].number # resv[n].number =>
             \E o \in progObs : /\ o.sync = LatestCompleted /\ o.loc = resv[n].loc
                                /\ o.inst = resv'[n].inst /\ o.number = resv'[n].number
                                /\ o.class \in {"VERIFIED_SUCCESSOR", "SAME_CONTENT"}]_vars

\* A follow pass that ends without an error has left no reservation behind
\* that the current generation moves, except for those users touched meanwhile
\* and those whose event went back to an earlier revision.
PassLeavesNoneBehind ==
    pc = "wait" /\ work.clean =>
        \A n \in Active \ work.touched :
            resv[n].follow /\ resv[n].attempt = "none" =>
                \A r \in Target(resv[n]) : Moves(resv[n], r) => r.number < resv[n].number

\* ... and the scheduler has read the start of every reservation the pass moved
\* (a pass that an error ends tells it nothing, nor does the next one).
MovedIsNotified ==
    pc = "wait" /\ work.clean =>
        \A n \in Active \cap work.moved : resv[n].attempt = "none" => told[n] = resv[n].start

\* Reservations, recordings and the scheduler agree after a pass: the three above.
FollowSound == RowsAgree /\ PassLeavesNoneBehind /\ MovedIsNotified

\* What a pass begins with, and where it has come to its end.
PassBegins == pc = "gc"
PassOver == pc \in {"wait", "down"}
-----------------------------------------------------------------------------
(* The inductive invariant: keys and order of the rows, which generation   *)
(* each pass and each request works with, and how far the follow has come. *)

\* Keys of the tables; revisions are numbered no faster than synchronisations begin.
RowsKeyed ==
    /\ \A o, p \in progObs : o.sync = p.sync /\ o.loc = p.loc => o = p
    /\ \A o \in progObs : o.class = "INVALID" => o.inst = 0
    /\ \A r, q \in revisions : r.loc = q.loc /\ r.inst = q.inst /\ r.number = q.number => r = q
    /\ \A r \in revisions : syncs[r.number].state # "none"

SyncsInOrder ==
    \A s \in SyncIds :
        /\ syncs[s].state = "RUNNING" => syncs[s].started >= 1
        /\ syncs[s].finished <= now
        /\ syncs[s].state # "none" => \A q \in 1 .. s : syncs[q].state # "none"

\* There is a latest generation, and between two publications it is the one served.
HolderIsLatest ==
    /\ LatestCompleted \in Completed /\ NewerThan(LatestCompleted) = {}
    /\ holder \in Completed
    /\ pc \notin {"publish", "down"} => holder = LatestCompleted
    /\ pc = "publish" => work.sync = LatestCompleted /\ NewerThan(holder) \subseteq {work.sync}

\* A request's generation is at most one behind when a pass prunes.
BeforeCompletion == {"gc", "begin", "services", "programs", "validate", "complete"}
RequestKeeps ==
    /\ pc = "down" => request = NoRequest
    /\ request # NoRequest =>
          /\ request.gen \in Completed
          /\ pc \in BeforeCompletion /\ request.crossed = 0 => NewerThan(request.gen) = {}
          /\ pc \in BeforeCompletion \/ request.crossed = 0 =>
                \A a, b \in NewerThan(request.gen) : a = b
    /\ \A r \in request.found :
          /\ r \in revisions /\ r.content.dur >= 1
          /\ \E o \in progObs : /\ o.sync = request.gen /\ o.loc = r.loc
                                /\ o.inst = r.inst /\ o.number = r.number

\* What the current synchronisation has stored, and what of it is to come.
Walking == {"services", "programs", "validate", "complete", "fail"}
Within(old, new) ==
    /\ old.dur # 0 /\ new.dur # 0
    /\ Distance(old.start, new.start) <= MaxShift /\ Distance(old.dur, new.dur) <= MaxShift
WalkIsLast ==
    /\ pc \in Walking =>
          /\ work.sync # 0 /\ syncs[work.sync].state = "RUNNING"
          /\ \A s \in SyncIds : s > work.sync => syncs[s].state = "none"
    /\ pc \in {"gc", "begin", "services"} => work.count = 0
    /\ pc = "programs" => work.count + Cardinality(work.left) <= Cardinality(Locators)
ServicesWalked ==
    /\ pc = "services" =>
          \A loc \in Locators :
              /\ <<work.sync, loc>> \in svcObs <=> loc \notin work.left
              /\ loc \notin work.left => work.offer[loc].svc
    /\ pc \in {"programs", "validate", "complete"} =>
          \A loc \in Locators : <<work.sync, loc>> \in svcObs <=> work.offer[loc].svc
    /\ pc = "complete" => Candidate(work.sync)
ProgramsWalked ==
    /\ pc = "services" => \A o \in progObs : o.sync # work.sync
    /\ pc \in {"programs", "validate", "complete"} =>
          \A loc \in Locators :
              /\ (\E o \in progObs : o.sync = work.sync /\ o.loc = loc) <=> loc \notin work.left
              /\ loc \notin work.left => work.offer[loc].prog # "none"
              /\ pc # "programs" /\ loc \in work.left => work.offer[loc].prog = "none"
    /\ pc \in {"services", "programs"} =>
          \A r \in revisions : pc = "services" \/ r.loc \in work.left => r.number < work.sync
SuccessorsVerified ==
    pc \in {"programs", "validate", "complete"} =>
        \A o \in progObs : o.sync = work.sync =>
            \A new \in Revision(o.loc, o.inst, o.number), old \in CurrentPrograms(o.loc) :
                old.inst = new.inst /\ old # new => Within(old.content, new.content)

\* An event whose last revision was pruned was last seen before the cutoff.
EmptiesAreOld ==
    /\ pc = "gc" => work.cutoff = now - Retention /\ ~work.swept
    /\ \A loc \in Locators : instances[loc].inst # 0 /\ RevisionsOf(loc) = {} =>
                                 instances[loc].seen + Retention < now

StoreInv ==
    /\ TypeOK /\ RefsExist /\ RowsKeyed /\ SyncsInOrder /\ HolderIsLatest /\ RequestKeeps
    /\ WalkIsLast /\ ServicesWalked /\ ProgramsWalked /\ SuccessorsVerified
    /\ EmptiesAreOld /\ SweptInstancesStorable /\ StartFindsServices

\* What the follow has read is what is there, but for the users; and what it
\* has passed, or its page has not reached, is accounted for.
Settled(n) ==
    resv[n].follow /\ resv[n].attempt = "none" =>
        \A r \in Target(resv[n]) : Moves(resv[n], r) => r.number < resv[n].number
PageRead ==
    pc = "rows" => \A p \in work.page :
        /\ p.n > work.after /\ p.row.state = "ACTIVE"
        /\ resv[p.n].state # "absent" /\ resv[p.n].loc = p.row.loc /\ resv[p.n].inst = p.row.inst
        /\ \A q \in work.page : p.n = q.n => p = q
        /\ p.n \in Active \ work.touched /\ resv[p.n].attempt = "none" => resv[p.n] = p.row
PagePassed ==
    /\ pc \in {"page", "rows"} => \A n \in Active \ work.touched : n <= work.after => Settled(n)
    /\ pc = "rows" => \A n \in Active \ work.touched : n > work.after =>
                          \/ \E p \in work.page : p.n = n
                          \/ work.full /\ \A p \in work.page : p.n < n
    /\ work.clean => pc = "wait"
ActiveHasLength == \A n \in Active : resv[n].dur >= 1
FollowInv == ActiveHasLength /\ PageRead /\ PagePassed /\ FollowSound

IInv == StoreInv /\ FollowInv
=============================================================================
