---------------------------- MODULE HlsRetention ----------------------------
(***************************************************************************)
(* The playlist of one HLS session (hls_playlist.go) and the retention of  *)
(* its segments (hls_session.go): a segment that leaves the window, or     *)
(* that is in the last playlist, is kept for the time a player may still   *)
(* ask for it, and longer each time the last playlist is read again.  A    *)
(* timer that was stopped too late still calls retireSegment.  The cache   *)
(* may fail to remove a segment; the controller may be closed.  Times are  *)
(* counted down to zero.                                                   *)
(***************************************************************************)
EXTENDS Naturals, Sequences, FiniteSetsExt, Functions

CONSTANTS
    MaximumWindow, MinimumWindow,   \* window of the playlist, in time units
    Durations,                      \* durations of a segment
    MaxSegments,                    \* bound on the segments
    MaxVersion                      \* bound on the deadlines of a segment

RetentionAssumption ==
    /\ MinimumWindow \in Nat \ {0} /\ MaximumWindow \in Nat /\ MinimumWindow <= MaximumWindow
    /\ Durations \subseteq Nat \ {0} /\ MaxSegments \in Nat /\ MaxVersion \in Nat \ {0}

VARIABLES
    playlist,   \* playlist.segments, oldest first
    terminal,   \* the session and its playlist have ended
    retained,   \* session.segments, by sequence
    listed,     \* the session is in controller.sessions
    promised,   \* what the playlists given out say of each segment
    shutdown    \* how far the controller's close has come

retentionVars == <<playlist, terminal, retained, listed, promised, shutdown>>

Segments == 1 .. MaxSegments
Published(r) == Cardinality({n \in Segments : r[n].published})

\* A segment's deadline (left), the version of its timer, the timer, the versions
\* whose callback is running, and what of it the cache failed to remove: its file,
\* or only the directory that it was the last one in.
Unpublished == [published |-> FALSE, kept |-> FALSE, left |-> 0, version |-> 0,
                armed |-> FALSE, running |-> {}, failed |-> "none"]
Failures == {"none", "file", "directory"}
Longest == MaximumWindow + Max(Durations \cup {0})

RetentionTypeOK ==
    /\ playlist \in Seq([n : Segments, duration : Durations, longest : 0 .. Longest])
    /\ terminal \in BOOLEAN /\ listed \in BOOLEAN
    /\ shutdown \in {"no", "closed", "shut", "cleared"}
    /\ \A n \in Segments :
          /\ retained[n].left \in 0 .. Longest + Max(Durations \cup {0})
          /\ retained[n].version \in 0 .. MaxVersion /\ retained[n].running \subseteq 1 .. MaxVersion

RetentionInit ==
    /\ playlist = <<>> /\ terminal = FALSE /\ listed = TRUE /\ shutdown = "no"
    /\ retained = [n \in Segments |-> Unpublished]
    /\ promised = [n \in Segments |-> [longest |-> 0, left |-> 0]]

-----------------------------------------------------------------------------
\* playlistDuration
Duration(list) == SumFunction([i \in DOMAIN list |-> list[i].duration])
InPlaylist == {playlist[i].n : i \in DOMAIN playlist}

\* The number of oldest segments append drops: one after the other, while the
\* rest is too long and does not become too short.
Droppable(list, k) ==
    /\ Duration(SubSeq(list, k, Len(list))) > MaximumWindow /\ Len(list) > k
    /\ Duration(SubSeq(list, k + 1, Len(list))) >= MinimumWindow
Dropped(list) ==
    CHOOSE k \in 0 .. Len(list) :
        /\ \A j \in 1 .. k : Droppable(list, j)
        /\ k = Len(list) \/ ~Droppable(list, k + 1)

\* scheduleRetentionLocked: only a later deadline counts; the timer before it
\* is stopped, or its version is no longer the segment's.  A closed controller
\* gives no new timer.
Schedule(segment, time) ==
    IF segment.kept /\ time > segment.left
    THEN [segment EXCEPT !.left = time, !.version = @ + 1, !.armed = shutdown = "no"] ELSE segment

\* How long a segment that leaves the window stays.
RetainFor(segment) == segment.duration + segment.longest

\* emit, once the segment is published in the cache: append, and retention for
\* what leaves the window.
AppendSegment(duration) ==
    /\ ~terminal /\ Published(retained) < MaxSegments
    /\ LET n == Published(retained) + 1
           list == Append(playlist, [n |-> n, duration |-> duration, longest |-> 0])
           drop == Dropped(list)
           rest == SubSeq(list, drop + 1, Len(list))
           gone(m) == {i \in 1 .. drop : list[i].n = m}
       IN  /\ playlist' = [i \in DOMAIN rest |->
                              [rest[i] EXCEPT !.longest = Max({@, Duration(rest)})]]
           /\ retained' = [m \in Segments |->
                 IF m = n THEN [Unpublished EXCEPT !.published = TRUE, !.kept = TRUE]
                 ELSE IF gone(m) = {} THEN retained[m]
                 ELSE Schedule(retained[m], RetainFor(list[CHOOSE i \in gone(m) : TRUE]))]
           /\ promised' = [m \in Segments |->
                 IF gone(m) = {} \/ promised[m].longest = 0 THEN promised[m]
                 ELSE [promised[m] EXCEPT !.left = Max({@, promised[m].longest +
                                              list[CHOOSE i \in gone(m) : TRUE].duration})]]
    /\ UNCHANGED <<terminal, listed, shutdown>>

\* finish: ENDLIST, and retention for the last playlist; a session without
\* segments is removed.
EndPlaylist ==
    /\ ~terminal /\ terminal' = TRUE
    /\ retained' = [n \in Segments |->
           IF n \in InPlaylist
           THEN Schedule(retained[n], playlist[CHOOSE i \in DOMAIN playlist : playlist[i].n = n].longest)
           ELSE retained[n]]
    /\ listed' = \E n \in Segments : retained[n].kept
    /\ UNCHANGED <<playlist, promised, shutdown>>

\* renderPlaylist: all of the window, three segments or more, or nothing; the
\* last playlist extends the retention.
Render ==
    /\ listed /\ Len(playlist) >= 3 /\ \A n \in InPlaylist : retained[n].kept
    /\ \A n \in InPlaylist : retained[n].version < MaxVersion
    /\ retained' = [n \in Segments |-> IF terminal /\ n \in InPlaylist
                                       THEN Schedule(retained[n], Duration(playlist)) ELSE retained[n]]
    /\ promised' = [n \in Segments |->
           IF n \in InPlaylist
           THEN [longest |-> Max({promised[n].longest, Duration(playlist)}),
                 left |-> Max({promised[n].left, Duration(playlist)})]
           ELSE promised[n]]
    /\ UNCHANGED <<playlist, terminal, listed, shutdown>>

-----------------------------------------------------------------------------
\* A unit of time; a timer does not fire early.
Minus(time) == IF time = 0 THEN 0 ELSE time - 1
Tick ==
    /\ retained' = [n \in Segments |-> [retained[n] EXCEPT !.left = Minus(@)]]
    /\ promised' = [n \in Segments |-> [promised[n] EXCEPT !.left = Minus(@)]]
    /\ UNCHANGED <<playlist, terminal, listed, shutdown>>

Fire(n) ==
    /\ retained[n].armed /\ retained[n].left = 0
    /\ retained' = [retained EXCEPT ![n].armed = FALSE, ![n].running = @ \cup {retained[n].version}]
    /\ UNCHANGED <<playlist, terminal, listed, promised, shutdown>>

\* What may be left when generation.retire fails: the file, which open refuses from
\* then on; or, of the last segment of a generation that was stopped, the directory,
\* and then every later retire fails too.
RetireFailures(n) ==
    IF retained[n].failed = "directory" THEN {"directory"}
    ELSE {"file"} \cup {f \in {"directory"} :
                          terminal /\ \A m \in Segments \ {n} : ~retained[m].kept}

\* retireSegment: the last one of a session that has ended removes it; one that
\* could not be removed stays, with no timer.
RetireSegment(n, version) ==
    /\ version \in retained[n].running
    /\ LET returned == [retained[n] EXCEPT !.running = @ \ {version}]
       IN  \/ /\ retained[n].kept /\ retained[n].version = version
              /\ retained[n].failed # "directory"
              /\ retained' = [retained EXCEPT ![n] = [returned EXCEPT !.kept = FALSE]]
              /\ listed' = (listed /\ ~(terminal /\ \A m \in Segments : ~retained'[m].kept))
           \/ /\ retained[n].kept /\ retained[n].version = version
              /\ \E failure \in RetireFailures(n) :
                    retained' = [retained EXCEPT ![n] = [returned EXCEPT !.failed = failure]]
              /\ UNCHANGED listed
           \/ /\ ~(retained[n].kept /\ retained[n].version = version)
              /\ retained' = [retained EXCEPT ![n] = returned] /\ UNCHANGED listed
    /\ UNCHANGED <<playlist, terminal, promised, shutdown>>

-----------------------------------------------------------------------------
(* The close of the controller, as far as it touches the segments.         *)

CloseController ==
    /\ shutdown = "no" /\ shutdown' = "closed"
    /\ UNCHANGED <<playlist, terminal, retained, listed, promised>>

\* shutdownRetention waits for the session's end and stops its timers.
StopRetention ==
    /\ shutdown = "closed" /\ terminal /\ shutdown' = "shut"
    /\ retained' = [n \in Segments |-> [retained[n] EXCEPT !.armed = @ /\ ~retained[n].kept]]
    /\ UNCHANGED <<playlist, terminal, listed, promised>>

\* When no callback is left, the sessions are forgotten.
ForgetSession ==
    /\ shutdown = "shut" /\ \A n \in Segments : ~retained[n].armed /\ retained[n].running = {}
    /\ shutdown' = "cleared" /\ listed' = FALSE
    /\ UNCHANGED <<playlist, terminal, retained, promised>>

RetentionNext ==
    \/ \E duration \in Durations : AppendSegment(duration)
    \/ EndPlaylist \/ Render \/ Tick \/ CloseController \/ StopRetention \/ ForgetSession
    \/ \E n \in Segments : Fire(n) \/ \E version \in 1 .. MaxVersion : RetireSegment(n, version)

RetentionSpec == RetentionInit /\ [][RetentionNext]_retentionVars

-----------------------------------------------------------------------------
(* Properties.                                                             *)

\* openSegment finds it, and the cache does not refuse it.
Readable(n) == retained[n].kept /\ retained[n].failed = "none"

\* KHL-015 (RFC 8216, 6.2.2): a segment named in a playlist that was given out
\* stays for the duration of that playlist, and one that left the window for its
\* own duration more; also when a timer that was stopped too late meets a reader.
PromiseKept == \A n \in Segments : promised[n].left > 0 => retained[n].kept

\* Until then nothing makes it unreadable, not even a removal that fails.
StaysReadable == \A n \in Segments : promised[n].left > 0 /\ Readable(n) => Readable(n)'
PromisedStaysReadable == [][StaysReadable]_retentionVars

\* Nothing is kept for ever: as long as the controller is not closed, a segment
\* outside a running playlist has a timer of its latest deadline, or that timer's
\* callback is on its way, unless the cache failed to remove it; and a session that
\* has ended leaves the table with its last segment.
NothingForgotten ==
    /\ shutdown = "no" => \A n \in Segments :
          retained[n].kept /\ (terminal \/ n \notin InPlaylist) =>
              \/ retained[n].armed \/ retained[n].version \in retained[n].running
              \/ retained[n].failed # "none"
    /\ terminal /\ shutdown # "cleared" => (listed <=> \E n \in Segments : retained[n].kept)

-----------------------------------------------------------------------------
(* The inductive invariant.                                                *)

Entries == [n : Segments, duration : Durations, longest : Nat]
RetainedRecords == [published : BOOLEAN, kept : BOOLEAN, left : Nat, version : 0 .. MaxVersion,
                    armed : BOOLEAN, running : SUBSET (1 .. MaxVersion), failed : Failures]

RetentionShape ==
    /\ playlist \in Seq(Entries) /\ terminal \in BOOLEAN /\ listed \in BOOLEAN
    /\ shutdown \in {"no", "closed", "shut", "cleared"}
    /\ retained \in [Segments -> RetainedRecords]
    /\ promised \in [Segments -> [longest : Nat, left : Nat]]

\* The playlist names the last segments that were published.
WindowFits ==
    \E last \in 0 .. MaxSegments :
        /\ \A n \in Segments : retained[n].published <=> n <= last
        /\ Len(playlist) <= last
        /\ \A i \in DOMAIN playlist : playlist[i].n = last - Len(playlist) + i

\* No playlist that was given out was longer than its segments remember.
EntriesFit ==
    \A i \in DOMAIN playlist : /\ Duration(playlist) <= playlist[i].longest
                               /\ promised[playlist[i].n].longest <= playlist[i].longest

Waiting(n) == n \in InPlaylist /\ ~terminal

\* A deadline that has passed, and no other, may be called back for; and none is
\* earlier than a playlist promised.
SegmentFits(n) ==
    /\ ~retained[n].published =>
          retained[n] = Unpublished /\ promised[n] = [longest |-> 0, left |-> 0]
    /\ \A version \in retained[n].running : version <= retained[n].version
    /\ retained[n].version \in retained[n].running => retained[n].left = 0
    /\ retained[n].armed => retained[n].version > 0
    /\ promised[n].left <= IF Waiting(n) THEN promised[n].longest ELSE retained[n].left
    /\ Waiting(n) => retained[n] = [Unpublished EXCEPT !.published = TRUE, !.kept = TRUE]

RetentionIInv ==
    /\ RetentionShape /\ WindowFits /\ EntriesFit /\ \A n \in Segments : SegmentFits(n)
    /\ ~terminal => listed /\ shutdown \in {"no", "closed"}
    /\ PromiseKept /\ NothingForgotten
=============================================================================
