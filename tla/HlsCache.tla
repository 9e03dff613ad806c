------------------------------ MODULE HlsCache ------------------------------
(***************************************************************************)
(* The HLS cache of internal/adapters/recordinghttp/hls_cache_unix.go: a   *)
(* directory per generation (session), whose worker writes one segment at  *)
(* a time under a partial name and publishes it with a hard link; readers; *)
(* retirement; the three byte limits; and the cleanup of what an earlier   *)
(* process left.  Every operation holds cache.mu, but a write only to      *)
(* reserve its bytes and to give back what it did not use.                 *)
(***************************************************************************)
EXTENDS Naturals, FiniteSets, Functions

CONSTANTS
    Generations,    \* generations begun by one process
    MaxSequence,    \* bound on the segments of a generation
    Sizes,          \* sizes of a segment
    SegmentBytes, SessionBytes, TotalBytes,     \* hlsCacheLimits
    CleanupEntries, \* hlsCacheLimits.cleanupEntries
    MaxReaders,     \* bound on the open readers of a segment
    MaxFaulty       \* bound on the generations whose file operations fail

CacheAssumption ==
    /\ IsFiniteSet(Generations) /\ IsFiniteSet(Sizes) /\ Sizes \subseteq Nat \ {0}
    /\ {MaxSequence, MaxReaders, MaxFaulty, CleanupEntries, SegmentBytes, SessionBytes, TotalBytes}
          \subseteq Nat
    /\ 0 < SegmentBytes /\ SegmentBytes <= SessionBytes /\ SessionBytes <= TotalBytes

VARIABLES
    process,    \* the process: running, stopped, cleaning up, or refused
    gen,        \* cache.generations and their partials
    segs,       \* generation.segments, by sequence
    total,      \* cache.totalBytes
    dirs,       \* the generation directories on disk
    disk,       \* the names of each segment on disk
    faulty      \* the generations on whose files an operation has failed

cacheVars == <<process, gen, segs, total, dirs, disk, faulty>>

Sequences == 1 .. MaxSequence
NoSegment == [size |-> 0, readers |-> 0, retired |-> FALSE]

\* A generation: bytes it counts, the segment in work with the bytes it has
\* reserved and written, and whether stop was called.  A directory is lost when
\* begin made it and then did not accept it.
NoGeneration == [at |-> "none", closed |-> FALSE, bytes |-> 0, next |-> 1, partial |-> "none",
                 reserved |-> 0, written |-> 0]

\* The segments in work that generation.partials has.  A worker that failed has ended;
\* its file is an orphan when create made it and then did not accept it.
InWork == {"created", "writing", "complete", "broken", "stuck"}
Partials == InWork \cup {"none", "ended", "orphan"}

\* A segment on disk: no name, its partial name, both names of one inode, or
\* its final name.
Names == {"none", "partial", "linked", "final"}

GenerationRecords ==
    [at : {"none", "begun", "lost", "gone"}, closed : BOOLEAN, bytes : 0 .. TotalBytes,
     next : 1 .. MaxSequence + 1, partial : Partials, reserved : 0 .. TotalBytes,
     written : 0 .. TotalBytes]
SegmentRecords == [size : {0} \cup Sizes, readers : 0 .. MaxReaders, retired : BOOLEAN]

CacheTypeOK ==
    /\ process \in {"running", "down", "cleaning", "refused"}
    /\ gen \in [Generations -> GenerationRecords]
    /\ segs \in [Generations -> [Sequences -> SegmentRecords]]
    /\ total \in 0 .. TotalBytes /\ dirs \subseteq Generations
    /\ disk \in [Generations -> [Sequences -> Names]] /\ faulty \subseteq Generations

CacheInit ==
    /\ process = "running" /\ total = 0 /\ faulty = {} /\ dirs = {}
    /\ gen = [g \in Generations |-> NoGeneration]
    /\ segs = [g \in Generations |-> [n \in Sequences |-> NoSegment]]
    /\ disk = [g \in Generations |-> [n \in Sequences |-> "none"]]

-----------------------------------------------------------------------------
Usable(g) == process = "running" /\ gen[g].at = "begun"
Held(g) == {n \in Sequences : segs[g][n].size # 0}
Fails(g) == (g \in faulty \/ Cardinality(faulty) < MaxFaulty) /\ faulty' = faulty \cup {g}
Works == UNCHANGED faulty

\* A faulty check that forgets the sessions that are only retained.
WithinOwnLimits(g, added) == added <= SegmentBytes /\ gen[g].bytes + added <= SessionBytes

\* addWithin, for the limit of a segment, of its session and of all sessions.
WithinLimits(g, added) ==
    /\ added <= SegmentBytes
    /\ gen[g].bytes + added <= SessionBytes
    /\ total + added <= TotalBytes

\* removeEmptyGenerationLocked, given what the generation will be: a directory that
\* is not empty, or whose removal fails, stays, and the generation with it.
Empty(record, held) == record.closed /\ record.partial \notin InWork /\ held = {}

Settle(g, record, held) ==
    \/ /\ Empty(record, held) /\ record.partial # "orphan" /\ Works
       /\ gen' = [gen EXCEPT ![g] = [NoGeneration EXCEPT !.at = "gone"]] /\ dirs' = dirs \ {g}
    \/ /\ IF Empty(record, held) /\ record.partial # "orphan" THEN Fails(g) ELSE Works
       /\ gen' = [gen EXCEPT ![g] = record] /\ UNCHANGED dirs

-----------------------------------------------------------------------------
(* The worker of a generation.                                             *)

\* begin: a directory that openVerifiedChildHLSRoot does not accept stays.
BeginGeneration(g) ==
    /\ process = "running" /\ gen[g].at = "none"
    /\ \/ gen' = [gen EXCEPT ![g].at = "begun"] /\ Works
       \/ gen' = [gen EXCEPT ![g].at = "lost"] /\ Fails(g)
    /\ dirs' = dirs \cup {g}
    /\ UNCHANGED <<process, segs, total, disk>>

\* create: the partial name, exclusively; a file that it does not accept stays.
Create(g) ==
    /\ Usable(g) /\ ~gen[g].closed /\ gen[g].partial = "none" /\ gen[g].next <= MaxSequence
    /\ \/ /\ gen' = [gen EXCEPT ![g].partial = "created"] /\ Works
          /\ disk' = [disk EXCEPT ![g][gen[g].next] = "partial"]
       \/ /\ gen' = [gen EXCEPT ![g].partial = "orphan"] /\ Fails(g)
          /\ disk' = [disk EXCEPT ![g][gen[g].next] = "partial"]
       \/ gen' = [gen EXCEPT ![g].partial = "ended"] /\ Fails(g) /\ UNCHANGED disk
    /\ UNCHANGED <<process, segs, total, dirs>>

\* Write, first half: reserve against the three limits, if the file is still the same.
Reserve(g, size) ==
    /\ Usable(g) /\ gen[g].partial = "created"
    /\ \/ /\ WithinLimits(g, size) /\ Works
          /\ gen' = [gen EXCEPT ![g].partial = "writing", ![g].reserved = size, ![g].bytes = @ + size]
          /\ total' = total + size
       \/ /\ IF WithinLimits(g, size) THEN Fails(g) ELSE Works
          /\ gen' = [gen EXCEPT ![g].partial = "broken"] /\ UNCHANGED total
    /\ UNCHANGED <<process, segs, dirs, disk>>

\* Write, second half: all of it, or a short write that gives the rest back.
Write(g) ==
    /\ Usable(g) /\ gen[g].partial = "writing"
    /\ \/ /\ gen' = [gen EXCEPT ![g].partial = "complete", ![g].written = gen[g].reserved]
          /\ Works /\ UNCHANGED total
       \/ \E written \in 0 .. gen[g].reserved :
             /\ Fails(g)
             /\ LET unused == gen[g].reserved - written
                IN  /\ gen' = [gen EXCEPT ![g].partial = "broken", ![g].written = written,
                                          ![g].reserved = written, ![g].bytes = @ - unused]
                    /\ total' = total - unused
    /\ UNCHANGED <<process, segs, dirs, disk>>

\* publish: close, link, remove the partial name.  When that fails, the rollback may
\* fail too, or the partial name is gone already; the segment counts as unfinished.
Publish(g) ==
    /\ Usable(g) /\ gen[g].partial = "complete"
    /\ LET n == gen[g].next
       IN  \/ /\ segs' = [segs EXCEPT ![g][n].size = gen[g].written]
              /\ disk' = [disk EXCEPT ![g][n] = "final"]
              /\ gen' = [gen EXCEPT ![g].partial = "none", ![g].next = n + 1,
                                    ![g].reserved = 0, ![g].written = 0]
              /\ Works
           \/ /\ gen' = [gen EXCEPT ![g].partial = "broken"]
              /\ \E names \in {"partial", "linked", "final"} : disk' = [disk EXCEPT ![g][n] = names]
              /\ Fails(g) /\ UNCHANGED segs
    /\ UNCHANGED <<process, total, dirs>>

\* discard: remove the partial file and give its bytes back, unless the removal fails
\* or the file has not its one name any more.
Discarded(g, record) ==
    \/ /\ disk[g][record.next] = "partial"
       /\ Settle(g, [record EXCEPT !.partial = "ended", !.bytes = @ - record.written,
                                   !.reserved = 0, !.written = 0], Held(g))
       /\ total' = total - record.written
       /\ disk' = [disk EXCEPT ![g][record.next] = "none"]
    \/ /\ IF disk[g][record.next] = "partial" THEN Fails(g) ELSE Works
       /\ gen' = [gen EXCEPT ![g] = [record EXCEPT !.partial = "stuck"]]
       /\ UNCHANGED <<total, dirs, disk>>

\* After a failed segment emit discards it, and Copy ends.
Discard(g) ==
    /\ Usable(g) /\ gen[g].partial = "broken" /\ Discarded(g, gen[g])
    /\ UNCHANGED <<process, segs>>

\* generation.stop, by the worker after its last segment, discards once more.
StopGeneration(g) ==
    /\ Usable(g) /\ ~gen[g].closed
    /\ LET record == [gen[g] EXCEPT !.closed = TRUE]
       IN  \/ /\ record.partial \in {"none", "ended", "orphan"}
              /\ Settle(g, record, Held(g)) /\ UNCHANGED <<total, disk>>
           \/ record.partial = "stuck" /\ Discarded(g, record)
    /\ UNCHANGED <<process, segs>>

-----------------------------------------------------------------------------
(* Readers and retirement.                                                 *)

OpenSegment(g, n) ==
    /\ Usable(g) /\ n \in Held(g) /\ ~segs[g][n].retired /\ segs[g][n].readers < MaxReaders
    /\ segs' = [segs EXCEPT ![g][n].readers = @ + 1]
    /\ UNCHANGED <<process, gen, total, dirs, disk, faulty>>

\* removeSegmentLocked; a segment that could not be removed stays, retired.
RemoveSegment(g, n, record) ==
    \/ /\ segs' = [segs EXCEPT ![g][n] = NoSegment]
       /\ Settle(g, [gen[g] EXCEPT !.bytes = @ - record.size], Held(g) \ {n})
       /\ total' = total - record.size
       /\ disk' = [disk EXCEPT ![g][n] = "none"]
    \/ /\ Fails(g)
       /\ segs' = [segs EXCEPT ![g][n] = record]
       /\ UNCHANGED <<gen, total, dirs, disk>>

\* retire, by the retention timer, and again after a removal that failed.
Retire(g, n) ==
    /\ Usable(g) /\ n \in Held(g)
    /\ LET record == [segs[g][n] EXCEPT !.retired = TRUE]
       IN  IF record.readers > 0
           THEN segs' = [segs EXCEPT ![g][n] = record] /\ UNCHANGED <<gen, total, dirs, disk, faulty>>
           ELSE RemoveSegment(g, n, record)
    /\ UNCHANGED process

\* The reader's Close: the last one of a retired segment removes it.
CloseReader(g, n) ==
    /\ Usable(g) /\ segs[g][n].readers > 0
    /\ LET record == [segs[g][n] EXCEPT !.readers = @ - 1]
       IN  IF record.retired /\ record.readers = 0
           THEN RemoveSegment(g, n, record)
           ELSE segs' = [segs EXCEPT ![g][n] = record] /\ UNCHANGED <<gen, total, dirs, disk, faulty>>
    /\ UNCHANGED process

-----------------------------------------------------------------------------
(* The end of the process, at any point, and the next one's cleanup.       *)

\* What the process knew is gone.  It may die inside publish, after the link or
\* after the partial name was removed; and it ends when it cannot clean up.
Crash ==
    /\ process # "down" /\ process' = "down"
    /\ gen' = [g \in Generations |-> NoGeneration]
    /\ segs' = [g \in Generations |-> [n \in Sequences |-> NoSegment]]
    /\ total' = 0
    /\ \/ UNCHANGED disk
       \/ \E g \in Generations, names \in {"linked", "final"} :
             /\ gen[g].partial = "complete"
             /\ disk' = [disk EXCEPT ![g][gen[g].next] = names]
    /\ UNCHANGED <<dirs, faulty>>

\* A segment's files that cleanupPreviousHLSCache takes for its own: one file
\* with one link, or the two names of one file with two.
Recognized(names) == names \in Names

\* The names that readHLSDirectoryBounded reads: a linked segment has two.
SegmentsOnDisk(names) == {segment \in dirs \X Sequences : disk[segment[1]][segment[2]] \in names}
NamesLeft ==
    Cardinality(dirs) + Cardinality(SegmentsOnDisk(Names \ {"none"}))
        + Cardinality(SegmentsOnDisk({"linked"}))

\* openHLSCache looks at everything before it removes anything.  What made an
\* operation fail earlier, a mode or an owner, may make it refuse.
Inspect ==
    /\ process = "down"
    /\ LET accepts == /\ NamesLeft <= CleanupEntries
                      /\ \A g \in dirs, n \in Sequences : Recognized(disk[g][n])
       IN  \/ accepts /\ process' = "cleaning"
           \/ (~accepts \/ faulty \cap dirs # {}) /\ process' = "refused"
    /\ UNCHANGED <<gen, segs, total, dirs, disk, faulty>>

\* removePreviousHLSSegment: one name after the other, the partial one first.
CleanFile(g, n) ==
    /\ process = "cleaning" /\ g \in dirs /\ disk[g][n] # "none"
    /\ disk' = [disk EXCEPT ![g][n] = IF @ = "linked" THEN "final" ELSE "none"]
    /\ UNCHANGED <<process, gen, segs, total, dirs, faulty>>

CleanDirectory(g) ==
    /\ process = "cleaning" /\ g \in dirs /\ \A n \in Sequences : disk[g][n] = "none"
    /\ dirs' = dirs \ {g}
    /\ UNCHANGED <<process, gen, segs, total, disk, faulty>>

\* The new process numbers its generations from the first again.
Cleaned ==
    /\ process = "cleaning" /\ dirs = {} /\ process' = "running" /\ faulty' = {}
    /\ UNCHANGED <<gen, segs, total, dirs, disk>>

-----------------------------------------------------------------------------
CacheNext ==
    \/ \E g \in Generations :
          \/ BeginGeneration(g) \/ Create(g) \/ Write(g) \/ Publish(g) \/ Discard(g) \/ StopGeneration(g)
          \/ \E size \in Sizes : Reserve(g, size)
          \/ \E n \in Sequences :
                OpenSegment(g, n) \/ Retire(g, n) \/ CloseReader(g, n) \/ CleanFile(g, n)
          \/ CleanDirectory(g)
    \/ Crash \/ Inspect \/ Cleaned

CacheSpec == CacheInit /\ [][CacheNext]_cacheVars

-----------------------------------------------------------------------------
(* Properties.                                                             *)

Sum(g) == SumFunction([n \in Sequences |-> segs[g][n].size])

\* The counters of the cache say what its sessions really hold, whatever fails
\* between a reservation and its write, publication, discard or retirement.
BytesCounted ==
    process = "running" =>
        /\ \A g \in Generations : gen[g].bytes = Sum(g) + gen[g].reserved
        /\ total = SumFunction([g \in Generations |-> gen[g].bytes])

\* KHL-016: all files of all sessions, the retained and unfinished ones included,
\* stay within the total limit on disk.
DiskWithinLimit ==
    process = "running" =>
        SumFunction([g \in Generations |-> Sum(g) + gen[g].written]) <= TotalBytes

\* A file that is being read stays; one that was retired goes with its last
\* reader, unless its removal failed.
ReadersKeepFiles ==
    process = "running" => \A g \in Generations, n \in Sequences :
        /\ segs[g][n].readers > 0 => disk[g][n] = "final"
        /\ segs[g][n].retired /\ segs[g][n].readers = 0 => g \in faulty

\* A generation whose file operations all worked leaves nothing that a running process
\* does not know: its directory goes with the last segment of a session that was
\* stopped (removeEmptyGenerationLocked).  A generation that is known has its directory.
NothingUnknown ==
    process = "running" =>
        /\ \A g \in Generations : gen[g].at = "begun" => g \in dirs
        /\ \A g \in dirs \ faulty :
              /\ gen[g].at = "begun" /\ ~(gen[g].closed /\ Held(g) = {})
              /\ \A n \in Sequences : disk[g][n] # "none" =>
                    n \in Held(g) \/ (n = gen[g].next /\ gen[g].partial \in InWork)

\* Whatever an earlier process left, wherever it died, even in its own cleanup, the
\* next one starts: it refuses only more names than the limit, or those of a
\* generation that the program had failed on before.
CleanupTakesItsOwn == process = "refused" => NamesLeft > CleanupEntries \/ faulty \cap dirs # {}

-----------------------------------------------------------------------------
(* The inductive invariant.                                                *)

\* What a generation has reserved and written where its segment in work is.
PartialFits(g) ==
    /\ gen[g].partial # "none" => gen[g].at = "begun"
    /\ gen[g].partial \in InWork \cup {"orphan"} =>
          gen[g].next <= MaxSequence /\ disk[g][gen[g].next] # "none"
    /\ gen[g].partial \in {"created", "writing", "complete"} => disk[g][gen[g].next] = "partial"
    /\ gen[g].partial \in {"broken", "stuck"} => disk[g][gen[g].next] = "partial" \/ g \in faulty
    /\ gen[g].partial \in {"orphan", "stuck"} => g \in faulty
    /\ gen[g].partial \in {"none", "created", "ended", "orphan"} => gen[g].reserved = 0
    /\ gen[g].partial \in {"writing", "complete"} => gen[g].reserved \in Sizes
    /\ gen[g].written = IF gen[g].partial = "writing" THEN 0 ELSE gen[g].reserved

\* A segment is on disk as long as its generation holds it.
StoredFits(g, n) ==
    /\ n \in Held(g) => gen[g].at = "begun" /\ n < gen[g].next /\ disk[g][n] = "final"
    /\ n \notin Held(g) => segs[g][n] = NoSegment
    /\ segs[g][n].retired /\ segs[g][n].readers = 0 => g \in faulty
    /\ disk[g][n] # "none" =>
          n \in Held(g) \/ (n = gen[g].next /\ gen[g].partial \in InWork \cup {"orphan"})

\* Only a failure leaves what is stopped and empty.
StoppedFits(g) ==
    /\ gen[g].closed => gen[g].partial \in {"none", "ended", "orphan", "stuck"}
    /\ gen[g].closed /\ Held(g) = {} => g \in faulty

GenerationFits(g) ==
    /\ g \in dirs <=> gen[g].at \in {"begun", "lost"}
    /\ gen[g].at = "lost" => g \in faulty
    /\ gen[g].at # "begun" => gen[g] = [NoGeneration EXCEPT !.at = gen[g].at]
    /\ PartialFits(g) /\ StoppedFits(g) /\ \A n \in Sequences : StoredFits(g, n)

\* A process that does not run knows nothing, and all that is left is in the
\* directories.
LeftOver ==
    /\ total = 0
    /\ \A g \in Generations :
          /\ gen[g] = NoGeneration
          /\ \A n \in Sequences : segs[g][n] = NoSegment /\ (disk[g][n] # "none" => g \in dirs)

CacheIInv ==
    /\ CacheTypeOK /\ CleanupTakesItsOwn /\ BytesCounted
    /\ IF process = "running" THEN \A g \in Generations : GenerationFits(g) ELSE LeftOver
=============================================================================
