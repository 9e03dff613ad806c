------------------------------ MODULE TsFilter ------------------------------
(***************************************************************************)
(* The selection of captions and data broadcasting (ts_filter.go) with the *)
(* tables it is taken from (ts_psi.go), over the connections of one        *)
(* recording file.  Until a first table (PMT) is complete the packets are  *)
(* held back; then the dropped PIDs are left out and the table is replaced *)
(* by one without them; an update of the table holds packets back again.   *)
(* What cannot be selected safely makes the filter fall back to keeping    *)
(* everything.  The bytes of a table are abstracted to whether it is       *)
(* complete and what it says; a PAT packet completes one section at most.  *)
(***************************************************************************)
EXTENDS Naturals, FiniteSets, SequencesExt

CONSTANTS
    Tables, Elementary,     \* PIDs of PMTs, and of elementary streams
    MaxHeld,                \* packets that may be held back (maxPSIBuffer)
    MaxPackets, MaxKept,    \* bounds on the packets, and on those after the fallback
    MaxConnections,         \* bound on the connections
    MaxWriteFaults          \* bound on the failing writes

FilterAssumption ==
    /\ Tables \cap Elementary = {} /\ "pat" \notin Tables \cup Elementary
    /\ "none" \notin Tables \cup Elementary \cup {"pat"}
    /\ MaxHeld \in Nat \ {0} /\ MaxPackets \in Nat /\ MaxKept \in Nat /\ MaxConnections \in Nat \ {0}
    /\ MaxWriteFaults \in Nat

VARIABLES
    required,       \* selectionRequired: something is to be left out
    filter,         \* the filter of the connection
    input,          \* the packets that arrived and could be read
    connection,     \* number of the connection
    stage,          \* the connection is open or has ended; the file is over
    switch,         \* the fallback: the first packet it saves, and the last before it
    writeFaults     \* failing writes so far

filterVars == <<required, filter, input, connection, stage, switch, writeFaults>>

PIDs == {"pat"} \cup Tables \cup Elementary
\* Kinds of a packet: without payload, the same although it says that a section
\* begins, the beginning of a section, any other payload, the packet before once
\* more, a packet with the error indicator, one that cannot be read.
Kinds == {"adaptation", "flagged", "start", "more", "again", "tei", "malformed"}
Bare(kind) == kind \in {"adaptation", "flagged"}
Class(p) ==
    IF p.kind \in {"again", "tei"} THEN p.kind
    ELSE IF p.pid \in Tables /\ Bare(p.kind) THEN "bare" ELSE "payload"
Stream ==
    [pid : {"pat"} \cup Tables, kind : Kinds] \cup [pid : Elementary, kind : {"more"}]

\* What is held or written: a packet, or the table that replaces some.
Item == [num : 1 .. MaxPackets + MaxKept, connection : 1 .. MaxConnections, pid : PIDs,
         class : {"bare", "payload", "again", "tei", "table"}, drops : SUBSET Elementary]
Received(num, p) ==
    [num |-> num, connection |-> connection, pid |-> p.pid, class |-> Class(p), drops |-> {}]

\* recordingPSI: new, waiting for the start of a section (reset), between two
\* sections, or inside one; in the last two it knows its last packet.
Collector == {"fresh", "waiting", "idle", "partial"}
Known(psi) == psi \in {"idle", "partial"}

\* newTSComponentFilter
NewFilter(raw, file) ==
    [pat |-> "fresh", pmt |-> "fresh", pmtPID |-> "none", initialized |-> FALSE,
     discovery |-> <<>>, firstPMT |-> 0, pending |-> <<>>, dropped |-> {},
     raw |-> raw, file |-> file]

Filters ==
    [pat : Collector, pmt : Collector, pmtPID : Tables \cup {"none"}, initialized : BOOLEAN,
     discovery : Seq(Item), firstPMT : 0 .. MaxHeld, pending : Seq(Item),
     dropped : SUBSET Elementary, raw : BOOLEAN, file : Seq(Item)]
Switches == [from : 1 .. MaxPackets + MaxKept + 1, cause : 0 .. MaxPackets]

FilterTypeOK ==
    /\ required \in BOOLEAN /\ filter \in Filters
    /\ Len(filter.discovery) <= MaxHeld /\ Len(filter.pending) <= MaxHeld
    /\ input \in Seq(Item) /\ connection \in 1 .. MaxConnections
    /\ stage \in {"open", "ended", "over"} /\ switch \in Switches
    /\ writeFaults \in 0 .. MaxWriteFaults

Never == [from |-> MaxPackets + MaxKept + 1, cause |-> 0]
FilterInit ==
    /\ required \in BOOLEAN /\ filter = NewFilter(FALSE, <<>>) /\ input = <<>>
    /\ connection = 1 /\ stage = "open" /\ switch = Never /\ writeFaults = 0

-----------------------------------------------------------------------------
\* Feed: what a packet may do to a collector, depending on its bytes.
Fed(psi, section) == [psi |-> psi, section |-> section, issue |-> "ok", duplicate |-> FALSE]
Failed(issue) == [psi |-> "waiting", section |-> FALSE, issue |-> issue, duplicate |-> FALSE]
Begin(psi) ==
    {Failed("broken"), Failed("limit")}
    \cup {Fed(next, section) : next \in {"idle", "partial"},
                               section \in {s \in BOOLEAN : psi = "partial" => s}}
Continue == {Failed("broken"), Failed("limit"), Fed("partial", FALSE), Fed("idle", TRUE)}
Ignore(psi) == {Fed(IF psi = "waiting" THEN "waiting" ELSE "idle", FALSE)}
Collect(psi, kind) ==
    IF kind = "start" THEN Begin(psi) ELSE IF psi = "partial" THEN Continue ELSE Ignore(psi)
Feed(psi, kind) ==
    IF Bare(kind) THEN {Fed(psi, FALSE), Fed("waiting", FALSE)}
    ELSE IF kind = "again" THEN {[Fed(psi, FALSE) EXCEPT !.duplicate = TRUE]}
    ELSE (IF Known(psi) THEN {Failed("broken")} ELSE {})
         \cup Collect(psi, kind) \cup Collect("waiting", kind)

-----------------------------------------------------------------------------
Control(f, pid) == pid \in {"pat", f.pmtPID}
Clear(f, pid) == IF pid = "pat" THEN [f EXCEPT !.pat = "waiting"] ELSE [f EXCEPT !.pmt = "waiting"]
Held(f) == f.discovery \o f.pending

Write(f, items) == [f EXCEPT !.file = @ \o items]

\* fallback: what was held is written as it came, and so is all that follows.
\* From then on the tables are observed for the quality only: they are left out.
Fallback(f) == NewFilter(TRUE, f.file \o Held(f))

\* replay: the new table takes the place of its first packet, its other
\* packets and the packets of the dropped PIDs are left out.
Replay(f, held, first, drops) ==
    Write(f, FlattenSeq([k \in DOMAIN held |->
        (IF k = first THEN <<[held[k] EXCEPT !.class = "table", !.drops = drops]>> ELSE <<>>)
        \o (IF (k >= first /\ held[k].pid = f.pmtPID) \/ held[k].pid \in drops
            THEN <<>> ELSE <<held[k]>>)]))

\* A valid PAT names the PID of the PMT.
Name(f, pid) ==
    IF f.pmtPID = pid THEN f
    ELSE [f EXCEPT !.pmtPID = pid, !.pmt = "waiting", !.firstPMT = 0]

\* discover, after the packet was added to discovery: a PAT ...
DiscoverPAT(f, p, kind) ==
    UNION {LET g == [f EXCEPT !.pat = r.psi]
           IN IF r.issue = "limit" THEN {Fallback(g)}
              ELSE IF r.section THEN {g} \cup {Name(g, pid) : pid \in Tables}
              ELSE {g} : r \in Feed(f.pat, kind)}

\* ... or a PMT, which may turn out to be complete, unusable or too long.
Initialized(f, drops) ==
    [Replay(f, f.discovery, f.firstPMT, drops)
       EXCEPT !.discovery = <<>>, !.initialized = TRUE, !.dropped = drops]
DiscoverPMT(f, p, kind) ==
    UNION {LET g == [f EXCEPT !.pmt = r.psi]
               h == IF kind \in {"start", "flagged"} /\ ~r.duplicate
                    THEN [g EXCEPT !.firstPMT = Len(f.discovery)] ELSE g
           IN CASE r.issue = "limit" -> {Fallback(g)}
                [] r.issue = "broken" -> {[g EXCEPT !.firstPMT = 0]}
                [] r.issue = "ok" /\ r.section ->
                     {h, Fallback(h)} \cup {Initialized(h, drops) : drops \in SUBSET Elementary}
                [] OTHER -> {h} : r \in Feed(f.pmt, kind)}
Discover(f, p, kind) ==
    CASE p.pid = "pat" -> DiscoverPAT(f, p, kind)
      [] p.pid = f.pmtPID -> DiscoverPMT(f, p, kind)
      [] OTHER -> {f}

\* A faulty update that selects what was held by the table before.
UpdatedLate(f, drops) ==
    [Replay(f, f.pending, 1, f.dropped) EXCEPT !.pending = <<>>, !.dropped = drops]

\* An update of the table is complete.
Updated(f, drops) == [Replay(f, f.pending, 1, drops) EXCEPT !.pending = <<>>, !.dropped = drops]

\* writeInitialized, of a packet that is added to the update being received ...
Pend(f, p, kind) ==
    LET g == [f EXCEPT !.pending = Append(@, p)]
    IN IF p.pid # f.pmtPID THEN {g}
       ELSE UNION {LET h == [g EXCEPT !.pmt = r.psi]
                   IN CASE r.issue # "ok" -> {Fallback(h)}
                        [] r.issue = "ok" /\ r.section ->
                             {Fallback(h)} \cup {Updated(h, drops) : drops \in SUBSET Elementary}
                        [] OTHER -> {h} : r \in Feed(f.pmt, kind)}

\* ... and of any packet.  A packet of the table that is sent again is left out.
WriteInitialized(f, p, kind) ==
    CASE f.pending = <<>> /\ p.pid # f.pmtPID ->
           {IF p.pid \in f.dropped THEN f ELSE Write(f, <<p>>)}
      [] f.pending = <<>> /\ p.pid = f.pmtPID /\ Bare(kind) ->
           {Write([f EXCEPT !.pmt = r.psi], <<p>>) : r \in Feed(f.pmt, kind)}
      [] OTHER ->
           IF p.pid = f.pmtPID /\ kind = "again" THEN {f}
           ELSE IF (f.pending = <<>> /\ kind # "start") \/ Len(f.pending) >= MaxHeld
           THEN {Write(Fallback(f), <<p>>)} ELSE Pend(f, p, kind)

\* A PAT has to go on naming the same PMT.
UpdatePAT(f, p, kind) ==
    UNION {LET g == [f EXCEPT !.pat = r.psi]
           IN (IF r.issue # "ok" \/ r.section THEN {Write(Fallback(g), <<p>>)} ELSE {})
              \cup (IF r.issue = "ok" THEN WriteInitialized(g, p, kind) ELSE {}) :
              r \in Feed(f.pat, kind)}

\* processPacket, after the framer has found its synchronisation again ...
Resynchronized(f) ==
    LET g == [f EXCEPT !.pat = "waiting", !.pmt = "waiting"]
    IN IF g.pending # <<>> THEN Fallback(g) ELSE g

\* ... and then: the filters that the packet may lead to.
Process(f, p, kind) ==
    CASE f.raw \/ ~required -> {IF kind = "malformed" THEN f ELSE Write(f, <<p>>)}
      [] ~f.raw /\ required /\ kind \in {"malformed", "tei"} /\ Control(f, p.pid) ->
           {IF f.initialized THEN Fallback(f) ELSE Clear(f, p.pid)}
      [] ~f.raw /\ required /\ kind = "malformed" /\ ~Control(f, p.pid) -> {f}
      [] OTHER ->
           IF f.initialized
           THEN IF p.pid = "pat" THEN UpdatePAT(f, p, kind) ELSE WriteInitialized(f, p, kind)
           ELSE IF Len(f.discovery) >= MaxHeld THEN {Write(Fallback(f), <<p>>)}
           ELSE Discover([f EXCEPT !.discovery = Append(@, p)], p, kind)

\* Where the fallback begins, and the last packet before it went on.
Switched(f, g, last) ==
    IF f.raw \/ ~g.raw THEN switch
    ELSE [from |-> IF Held(f) = <<>> THEN Len(input) + 1 ELSE Held(f)[1].num, cause |-> last]

\* The packets that may come now: one again after it was known, and not many
\* more after the fallback.  The packet after the framer has found its
\* synchronisation again can be read.
Before(resynchronized) == IF resynchronized THEN Resynchronized(filter) ELSE filter
Arriving(f, p, resynchronized) ==
    /\ stage = "open"
    /\ Len(input) < IF ~required THEN MaxKept
                    ELSE IF filter.raw THEN switch.cause + MaxKept ELSE MaxPackets
    /\ resynchronized => p.kind # "malformed"
    /\ p.kind = "tei" => Control(f, p.pid)      \* another one is like any packet
    /\ p.kind = "again" =>
          \/ p.pid = "pat" /\ Known(f.pat)
          \/ p.pid = f.pmtPID /\ Known(f.pmt)
Numbered(p) == IF p.kind = "malformed" THEN input ELSE Append(input, Received(Len(input) + 1, p))
Outcomes(f, p) == Process(f, Received(Len(input) + 1, p), p.kind)

\* A packet of the stream is processed ...
ArrivePacket(p, resynchronized) ==
    /\ Arriving(Before(resynchronized), p, resynchronized)
    /\ filter' \in Outcomes(Before(resynchronized), p)
    /\ input' = Numbered(p)
    /\ switch' = Switched(filter, filter', Len(input'))
    /\ UNCHANGED <<required, connection, stage, writeFaults>>

\* ... or the file cannot be written before all is done, and the recording ends.
WriteFails(p, resynchronized) ==
    /\ Arriving(Before(resynchronized), p, resynchronized)
    /\ writeFaults < MaxWriteFaults /\ writeFaults' = writeFaults + 1 /\ stage' = "over"
    /\ \E g \in Outcomes(Before(resynchronized), p) :
          \E written \in Len(filter.file) .. Len(g.file) - 1 :
             filter' = NewFilter(g.raw, SubSeq(g.file, 1, written))
    /\ input' = Numbered(p)
    /\ switch' = Switched(filter, filter', Len(input'))
    /\ UNCHANGED <<required, connection>>

\* Finish: what is held is kept if the connection ended in an orderly way,
\* and given up if the process is interrupted.  The filter is not used again.
Finished(f) ==
    IF required /\ (~f.initialized \/ f.pending # <<>>) THEN Fallback(f) ELSE f
End ==
    /\ stage = "open" /\ stage' = "ended"
    /\ filter' = NewFilter(Finished(filter).raw, Finished(filter).file)
    /\ switch' = Switched(filter, Finished(filter), Len(input))
    /\ UNCHANGED <<required, input, connection, writeFaults>>
Interrupt ==
    /\ stage = "open" /\ stage' = "over"
    /\ filter' = NewFilter(filter.raw, filter.file)
    /\ UNCHANGED <<required, input, connection, switch, writeFaults>>

\* copy of the next connection: a new filter of the same file, which goes on
\* keeping everything if the one before it did.
Reconnect ==
    /\ stage = "ended" /\ connection < MaxConnections
    /\ connection' = connection + 1 /\ stage' = "open"
    /\ filter' = NewFilter(filter.raw, filter.file)
    /\ UNCHANGED <<required, input, switch, writeFaults>>

FilterNext ==
    \/ \E p \in Stream, resynchronized \in BOOLEAN :
          ArrivePacket(p, resynchronized) \/ WriteFails(p, resynchronized)
    \/ End \/ Interrupt \/ Reconnect

FilterSpec == FilterInit /\ [][FilterNext]_filterVars

-----------------------------------------------------------------------------
(* Properties.  A filter f, the packets that arrived so far and the place of  *)
(* the fallback are parameters, so that a step can be followed part by part.  *)

InOrder(items) == \A i, j \in DOMAIN items : i < j => items[i].num < items[j].num

\* Packets that were kept, and those of which the file has to say something.
Kept(f, p) == p \in ToSet(f.file)
Decided(f, p) == p \notin ToSet(Held(f))
Selecting(sw, p) == required /\ p.num < sw.from

\* The table of a packet: the last one that began before it in its connection,
\* or else the first one.
OwnTables(f, p) == {t \in ToSet(f.file) : t.class = "table" /\ t.connection = p.connection}
IsTableOf(f, t, p) ==
    /\ t \in OwnTables(f, p)
    /\ IF t.num < p.num THEN \A u \in OwnTables(f, p) : u.num < p.num => u.num <= t.num
       ELSE \A u \in OwnTables(f, p) : t.num <= u.num

SelectedBy(f, arrived, sw) ==
    \A p \in ToSet(arrived) :
        Decided(f, p) /\ Selecting(sw, p) /\ p.class # "tei" =>
            \E t \in OwnTables(f, p) :
                IsTableOf(f, t, p) /\ (p.pid # t.pid => (Kept(f, p) <=> p.pid \notin t.drops))
Replaced(f, sw) ==
    \A p \in ToSet(f.file) :
        p.class = "payload" /\ Selecting(sw, p) =>
            \A t \in OwnTables(f, p) : p.pid = t.pid => p.num < t.num
AllKept(f, arrived, sw) ==
    \A p \in ToSet(arrived) :
        /\ Decided(f, p) /\ ~Selecting(sw, p)
        /\ required /\ p.num <= sw.cause =>
               p.class # "tei" /\ ~(p.class = "again" /\ p.pid \in Tables)
        => Kept(f, p)

\* Each packet is written once, in the order of the stream, whatever was held
\* back meanwhile, and a table where the first packet that it replaces was.
OnceInOrder == InOrder(filter.file \o Held(filter))

\* While the filter selects, exactly the packets are left out whose PID the
\* table of their time drops: the file and its tables agree.
SelectedByTable == stage # "over" => SelectedBy(filter, input, switch)

\* While it selects, nothing of an original table follows a new one.
TableReplaced == Replaced(filter, switch)

\* QRC-003: from the fallback on, over all connections, all that can be read is
\* kept, with what was held.  Only of the packets before it, and of its cause,
\* some are not: control packets with the error indicator, and those of the
\* table that came again.
FallbackKeepsAll == stage # "over" => AllKept(filter, input, switch)

\* The file holds the stream in order, selected by its tables, or all of it.
FilterFaithful == OnceInOrder /\ SelectedByTable /\ TableReplaced /\ FallbackKeepsAll

-----------------------------------------------------------------------------
(* The inductive invariant.                                                *)

\* What arrived is numbered, one connection after the other.
ArrivedFits(arrived) ==
    \A i \in DOMAIN arrived :
        /\ arrived[i].num = i /\ arrived[i].class # "table" /\ arrived[i].connection <= connection
        /\ \A j \in DOMAIN arrived : i <= j => arrived[i].connection <= arrived[j].connection

\* What is written arrived, or is a table; the tables of a connection have one
\* PID.
FileFits(f, arrived) ==
    /\ \A x \in ToSet(f.file) :
          /\ x.num <= Len(arrived) /\ x.connection <= connection
          /\ IF x.class = "table" THEN x.pid \in Tables ELSE x \in ToSet(arrived)
    /\ \A t, u \in ToSet(f.file) :
          t.class = "table" /\ u.class = "table" /\ t.connection = u.connection => t.pid = u.pid

\* What is held arrived in this connection.  It is held for the first table, of
\* which firstPMT is the beginning, or for an update, which it begins with.
HeldFits(f, arrived) ==
    /\ f.raw \/ ~required => Held(f) = <<>> /\ ~f.initialized
    /\ IF f.initialized THEN f.discovery = <<>> ELSE f.pending = <<>>
    /\ \A x \in ToSet(Held(f)) :
          x \in ToSet(arrived) /\ x.connection = connection /\ x.class # "tei"
    /\ ~f.initialized =>
          /\ f.pmt = "partial" => f.firstPMT > 0
          /\ f.firstPMT > 0 => /\ f.pmtPID \in Tables /\ f.firstPMT <= Len(f.discovery)
                              /\ f.discovery[f.firstPMT].pid = f.pmtPID
    /\ f.pending # <<>> => f.pending[1].pid = f.pmtPID

\* Nothing of the connection is written or left out before the first table, and
\* nothing that follows the beginning of an update.
HoldsAll(f, arrived) ==
    /\ ~f.initialized =>
          /\ \A p \in ToSet(arrived) : p.connection = connection =>
                p.class = "tei" \/ p \in ToSet(f.discovery)
          /\ \A x \in ToSet(f.file) : x.connection # connection
    /\ f.pending # <<>> =>
          \A p \in ToSet(arrived) : p.num >= f.pending[1].num =>
              \/ p \in ToSet(f.pending) \/ p.class = "tei"
              \/ p.class = "again" /\ p.pid = f.pmtPID

\* An initialized filter works with the last table of its connection.
TableFits(f) ==
    f.initialized =>
        \E t \in ToSet(f.file) :
            /\ t.class = "table" /\ t.connection = connection
            /\ t.pid = f.pmtPID /\ t.drops = f.dropped
            /\ \A u \in ToSet(f.file) :
                  u.class = "table" /\ u.connection = connection => u.num <= t.num

SwitchFits(f, arrived, sw) ==
    IF f.raw THEN required /\ sw.from <= Len(arrived) + 1 /\ sw.cause <= Len(arrived)
    ELSE sw = Never

LengthFits(f, arrived, sw) ==
    Len(arrived) <= IF ~required THEN MaxKept
                    ELSE IF f.raw THEN sw.cause + MaxKept ELSE MaxPackets

\* What holds of the file whatever becomes of the filter, and of an open filter.
Written(f, arrived, sw) ==
    /\ InOrder(f.file \o Held(f)) /\ Replaced(f, sw)
    /\ ArrivedFits(arrived) /\ FileFits(f, arrived) /\ HeldFits(f, arrived)
    /\ SwitchFits(f, arrived, sw) /\ LengthFits(f, arrived, sw)
Faithful(f, arrived, sw) ==
    /\ Written(f, arrived, sw) /\ SelectedBy(f, arrived, sw) /\ AllKept(f, arrived, sw)
Working(f, arrived) == required /\ ~f.raw => HoldsAll(f, arrived) /\ TableFits(f)

FilterIInv ==
    /\ FilterTypeOK /\ Written(filter, input, switch)
    /\ stage # "over" => Faithful(filter, input, switch)
    /\ IF stage = "open" THEN Working(filter, input)
       ELSE Held(filter) = <<>> /\ ~filter.initialized
=============================================================================
