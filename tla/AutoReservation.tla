--------------------------- MODULE AutoReservation ---------------------------
(***************************************************************************)
(* Automatic reservations (internal/app/autoreservation and               *)
(* internal/adapters/sqlite/automatic_reservation_repository.go): the      *)
(* evaluation that follows a catalogue refresh, beside the users' edits of *)
(* rules and reservations and beside recordings that start and end while   *)
(* it runs.                                                                *)
(*                                                                         *)
(* A search condition is what the evaluation can tell of it: the           *)
(* programmes it matches, those of them that resolve to a reservation, and *)
(* the pairs <<q, p>> for which a recording of q counts as a recent        *)
(* recording of p's title.  A program stands for its program instance, and *)
(* instances with one event identity are one programme.                    *)
(***************************************************************************)
EXTENDS Naturals, FiniteSets, Sequences

CONSTANTS
    NPrograms,     \* programmes of the guide, in cursor order
    Passing,       \* programmes that may begin while they are looked at
    Conditions,    \* conditions a rule may have
    MaxRules,      \* rules at a time
    MaxNumber,     \* bound on the rules ever made
    MaxActive,     \* ACTIVE reservations at a time
    MaxRows,       \* bound on the reservations ever made
    MaxPerRun,     \* reservations one run may make
    MaxAutoFaults  \* bound on failing reads and transactions

Programs == 1 .. NPrograms

AutoAssumption ==
    /\ {MaxRules, MaxNumber, MaxActive, MaxRows, MaxAutoFaults} \subseteq Nat
    /\ {NPrograms, MaxPerRun} \subseteq Nat \ {0} /\ Passing \subseteq Programs
    /\ Conditions \subseteq [matches : SUBSET Programs, resolves : SUBSET Programs,
                             repeats : SUBSET (Programs \X Programs)]

VARIABLES
    rules,   \* automatic_reservation_rules
    made,    \* rules made so far: what AUTOINCREMENT remembers
    rows,    \* reservations, oldest first
    matches, \* automatic_reservation_matches
    ahead,   \* programmes that have not begun
    run,     \* the evaluation in progress
    faults   \* failures so far

autoVars == <<rules, made, rows, matches, ahead, run, faults>>

Row == [program : Programs, state : {"ACTIVE", "FINISHED"}, enabled : BOOLEAN,
        attempt : {"none", "open", "ended"}]
Rule == [id : 1 .. MaxNumber, number : 1 .. MaxNumber, cond : Conditions]
Match == [rule : 1 .. MaxNumber, program : Programs, row : 1 .. MaxRows]
Run == [at : {"idle", "titles", "programs", "disable"}, read : SUBSET Rule,
        titles : SUBSET Programs, window : SUBSET Programs, next : Programs,
        created : 0 .. MaxPerRun]

Idle == [at |-> "idle", read |-> {}, titles |-> {}, window |-> {}, next |-> 1, created |-> 0]

AutoInit == /\ rules = {} /\ made = 0 /\ rows = <<>> /\ matches = {}
            /\ ahead = Programs /\ run = Idle /\ faults = 0

-----------------------------------------------------------------------------
(* Rules.                                                                  *)

\* A deleted rule's number is never given again.
NextNumber == made + 1

\* CreateAutomaticRule.
AddRule(c) ==
    /\ made < MaxNumber
    /\ Cardinality(rules) < MaxRules
    /\ rules' = rules \cup {[id |-> made + 1, number |-> NextNumber, cond |-> c]}
    /\ made' = made + 1
    /\ UNCHANGED <<rows, matches, ahead, run, faults>>

\* UpdateAutomaticRule.
ChangeRule(r, c) ==
    /\ r \in rules
    /\ rules' = (rules \ {r}) \cup {[r EXCEPT !.cond = c]}
    /\ UNCHANGED <<made, rows, matches, ahead, run, faults>>

\* DeleteAutomaticRule: the matches go with the rule, the reservations stay.
DeleteRule(r) ==
    /\ r \in rules
    /\ rules' = rules \ {r}
    /\ matches' = {m \in matches : m.rule # r.id}
    /\ UNCHANGED <<made, rows, ahead, run, faults>>

-----------------------------------------------------------------------------
(* Reservations, by the user and by the recorder.                          *)

Active == {i \in DOMAIN rows : rows[i].state = "ACTIVE"}
Full == Cardinality(Active) >= MaxActive

NewRow(p, enabled) ==
    Append(rows, [program |-> p, state |-> "ACTIVE", enabled |-> enabled, attempt |-> "none"])

\* createReservationTx, for a user.
Reserve(p) ==
    /\ Len(rows) < MaxRows
    /\ ~Full /\ \A i \in Active : rows[i].program # p
    /\ rows' = NewRow(p, TRUE)
    /\ UNCHANGED <<rules, made, matches, ahead, run, faults>>

EditRow(i, row) == /\ rows' = [rows EXCEPT ![i] = row]
                   /\ UNCHANGED <<rules, made, matches, ahead, run, faults>>

\* CancelReservation of a reservation nothing was done for, or its expiry.
Withdraw(i) == /\ i \in Active /\ rows[i].attempt = "none"
               /\ EditRow(i, [rows[i] EXCEPT !.state = "FINISHED"])

\* UpdateReservation of the enabled flag.
Switch(i) == /\ i \in Active /\ rows[i].attempt = "none"
             /\ EditRow(i, [rows[i] EXCEPT !.enabled = ~@])

\* A recording claims the reservation: its start margin may come before the
\* programme does.
Begin(i) == /\ i \in Active /\ rows[i].enabled /\ rows[i].attempt = "none"
            /\ EditRow(i, [rows[i] EXCEPT !.attempt = "open"])

\* FinishAttempt: the recording, whatever its outcome, enters the history.
End(i) == /\ i \in Active /\ rows[i].attempt = "open"
          /\ EditRow(i, [rows[i] EXCEPT !.attempt = "ended", !.state = "FINISHED"])

\* RecordingHistory.
History == {rows[i].program : i \in {j \in DOMAIN rows : rows[j].attempt = "ended"}}

Pass(p) == /\ p \in ahead \cap Passing /\ ahead' = ahead \ {p}
           /\ UNCHANGED <<rules, made, rows, matches, run, faults>>

-----------------------------------------------------------------------------
(* The evaluation.  It works on the rules, the recorded titles, the window *)
(* and the guide it read at its start.                                     *)

\* readRules.
StartRun ==
    /\ run.at = "idle" /\ rules # {}
    /\ run' = [Idle EXCEPT !.at = "titles", !.window = ahead, !.read = rules]
    /\ UNCHANGED <<rules, made, rows, matches, ahead, faults>>

\* loadRecordedTitleIndex, read only when some rule asks for it.
LoadTitles ==
    /\ run.at = "titles"
    /\ run' = [run EXCEPT !.at = "programs",
                          !.titles = IF \E r \in run.read : r.cond.repeats # {}
                                     THEN History ELSE {}]
    /\ UNCHANGED <<rules, made, rows, matches, ahead, faults>>

Following == IF run.next = NPrograms THEN Idle ELSE [run EXCEPT !.at = "programs", !.next = @ + 1]

\* The rules that the current programme falls to, of those read; they are tried
\* in the order of their numbers.
Fitting == {r \in run.read : /\ run.next \in run.window
                             /\ run.next \in r.cond.matches \cap r.cond.resolves}
Chosen == CHOOSE r \in Fitting : \A s \in Fitting : r.number <= s.number

\* A faulty evaluation: the limit counts the programmes that matched.
AtLimitMatched ==
    Cardinality({p \in run.window : /\ p < run.next
                                    /\ \E r \in run.read : p \in r.cond.matches}) >= MaxPerRun

AtLimit == run.created = MaxPerRun
Recorded(cond, p, titles) == \E q \in titles : <<q, p>> \in cond.repeats
TitleMatch == Recorded(Chosen.cond, run.next, run.titles)

\* No rule takes the programme, or the run has made all it may.
PassOver ==
    /\ run.at = "programs" /\ (Fitting = {} \/ AtLimit)
    /\ run' = Following
    /\ UNCHANGED <<rules, made, rows, matches, ahead, faults>>

Candidate == run.at = "programs" /\ Fitting # {} /\ ~AtLimit

\* What CreateAutomaticReservation looks up in its transaction.
RuleNow == {r \in rules : r.number = Chosen.number}
Previous(p) == \E i \in DOMAIN rows : rows[i].program = p

\* CreateAutomaticReservation, committed.
Create ==
    /\ Candidate /\ ~Previous(run.next) /\ ~Full /\ Len(rows) < MaxRows
    /\ \E r \in RuleNow :
          matches' = matches \cup {[rule |-> r.id, program |-> run.next, row |-> Len(rows) + 1]}
    /\ rows' = NewRow(run.next, ~TitleMatch)
    /\ run' = [Following EXCEPT !.created = IF Following = Idle THEN 0 ELSE @ + 1]
    /\ UNCHANGED <<rules, made, ahead, faults>>

\* The programme has or had a reservation.
Duplicate ==
    /\ Candidate /\ RuleNow # {} /\ Previous(run.next)
    /\ run' = IF TitleMatch THEN [run EXCEPT !.at = "disable"] ELSE Following
    /\ UNCHANGED <<rules, made, rows, matches, ahead, faults>>

\* The rule is gone, or there is no room: the whole run ends.
Refused ==
    /\ Candidate
    /\ RuleNow = {} \/ (~Previous(run.next) /\ Full)
    /\ run' = Idle
    /\ UNCHANGED <<rules, made, rows, matches, ahead, faults>>

\* A faulty evaluation: a recording may have been begun.
DisablableStarted(i) == rows[i].state = "ACTIVE" /\ rows[i].enabled

\* DisableAutomaticReservation's WHERE clause.
Disablable(i) == rows[i].state = "ACTIVE" /\ rows[i].enabled /\ rows[i].attempt = "none"

Disable ==
    /\ run.at = "disable"
    /\ LET found == {m.row : m \in {x \in matches : x.program = run.next}}
       IN  rows' = [i \in DOMAIN rows |-> IF i \in found /\ Disablable(i)
                                          THEN [rows[i] EXCEPT !.enabled = FALSE] ELSE rows[i]]
    /\ run' = Following
    /\ UNCHANGED <<rules, made, matches, ahead, faults>>

\* A read, an id or a transaction fails, the context ends or the process
\* stops: the run has no state of its own that outlives it.
Abort ==
    /\ run.at # "idle" /\ faults < MaxAutoFaults
    /\ faults' = faults + 1 /\ run' = Idle
    /\ UNCHANGED <<rules, made, rows, matches, ahead>>

-----------------------------------------------------------------------------
RunStep == LoadTitles \/ PassOver \/ Create \/ Duplicate \/ Refused \/ Disable

AutoNext ==
    \/ \E c \in Conditions : AddRule(c) \/ \E r \in rules : ChangeRule(r, c)
    \/ \E r \in rules : DeleteRule(r)
    \/ \E p \in Programs : Reserve(p) \/ Pass(p)
    \/ \E i \in DOMAIN rows : Withdraw(i) \/ Switch(i) \/ Begin(i) \/ End(i)
    \/ StartRun \/ RunStep \/ Abort

\* Refreshes go on, and a run that began goes on; nobody has to do anything
\* else.
AutoFairness == WF_autoVars(StartRun) /\ WF_autoVars(RunStep)

AutoSpec == AutoInit /\ [][AutoNext]_autoVars
AutoLiveSpec == AutoSpec /\ AutoFairness

-----------------------------------------------------------------------------
AutoTypeOK ==
    /\ rules \subseteq Rule /\ made \in 0 .. MaxNumber
    /\ rows \in Seq(Row) /\ Len(rows) <= MaxRows
    /\ matches \subseteq Match /\ ahead \subseteq Programs
    /\ run \in Run /\ faults \in 0 .. MaxAutoFaults

\* BAR-008: a programme gets an automatic reservation only if it never had a
\* reservation.  Whatever rules are deleted and made again and whenever runs
\* begin anew, the automatic one is the first of its programme: one the user
\* cancelled is not revived, one recorded is not recorded again.
AutomaticIsFirst ==
    \A m \in matches : \A i \in DOMAIN rows : rows[i].program = m.program => m.row <= i

\* A reservation is entered under the rule that the run read and judged the
\* programme by, though the transaction looks the rule up again by number: a
\* rule made since does not get it.
EnteredForRule ==
    \A m \in matches' \ matches :
        \E r \in run.read : r.id = m.rule /\ m.program \in r.cond.matches
MadeByItsRule == [][EnteredForRule]_autoVars

\* ARTD-009: a run changes no reservation but an automatic one that is ACTIVE
\* and that no recording was begun for, though it chose the programme in an
\* earlier transaction.
DisablesItsOwn ==
    run.at = "disable" => \A i \in DOMAIN rows : rows'[i] # rows[i] =>
        \/ UNCHANGED run
        \/ rows[i].attempt = "none" /\ \E m \in matches : m.row = i
LeavesOthersAlone == [][DisablesItsOwn]_autoVars

\* A number names one rule for ever, made or gone: the rules and those that the
\* run read are of the numbers given so far, and no two of either share one.
RulesNumbered == /\ \A r \in rules \cup run.read : r.number = r.id /\ r.id <= made
                 /\ \A set \in {rules, run.read} : \A r, s \in set : r.id = s.id => r = s

\* A match is of a reservation of its programme.
MatchesKept == \A m \in matches : m.row \in DOMAIN rows /\ rows[m.row].program = m.program

AutoIInv == AutoTypeOK /\ RulesNumbered /\ MatchesKept /\ AutomaticIsFirst

\* A programme that stays ahead and that rules go on matching is reserved in
\* the end, if there is room for reservations: each run may make only so many,
\* and a run that is refused or interrupted is made up for by a later one.
Wanted(p) ==
    /\ p \in ahead /\ ~Full /\ Len(rows) < MaxRows
    /\ \E r \in rules : p \in r.cond.matches \cap r.cond.resolves
MatchedIsReserved == \A p \in Programs : <>[]Wanted(p) => <>Previous(p)

\* ARTD-009: a programme whose title has been recorded, for every rule that
\* matches it, does not stay with an enabled automatic reservation that waits,
\* once no run can be refused for want of room.
Repeated(p) ==
    /\ p \in ahead /\ \A q \in Programs : Previous(q)
    /\ \E r \in rules : p \in r.cond.matches
    /\ \A r \in rules : p \in r.cond.matches =>
           p \in r.cond.resolves /\ Recorded(r.cond, p, History)
NoneWaits(p) == \A m \in matches : m.program = p => ~Disablable(m.row)
RepeatsGetDisabled == \A p \in Programs : <>[]Repeated(p) => []<>NoneWaits(p)
=============================================================================
