--------------------------- MODULE RecordingFiles ---------------------------
(***************************************************************************)
(* The two names of one recording file plan in the recording directory and *)
(* the operations of internal/adapters/recordingfs/store.go on them.       *)
(* A name change is visible at once and survives the end of the process,   *)
(* but survives a power loss only after SyncDirectory; the same holds for  *)
(* written bytes and Sync.  The directory of the month is itself a name in *)
(* that of the year, which nothing synchronises (ensureDirectory): a power *)
(* loss may take a new one with all that is in it.  The kernel and the     *)
(* disk are external.                                                      *)
(***************************************************************************)
EXTENDS Naturals

CONSTANTS
    ForeignSize     \* size of a file somebody else puts under the final name

ASSUME ForeignSizeAssumption == ForeignSize \in Nat

VARIABLES
    dir,            \* [partial |-> the partial name exists, final |-> whose file]
    month,          \* the directories of the year and month themselves
    crashDirs,      \* what of dir a power loss may leave, if month stays
    size,           \* bytes written to the recording file
    syncedSize      \* bytes of it that Sync made durable

fileVars == <<dir, month, crashDirs, size, syncedSize>>

Owners == {"none", "ours", "foreign"}
Directories == [partial : BOOLEAN, final : Owners]
EmptyDirectory == [partial |-> FALSE, final |-> "none"]

\* Not there, there but perhaps not on the disk, or known to be on the disk.
Months == {"absent", "new", "kept"}

FilesTypeOK(bound) ==
    /\ dir \in Directories /\ month \in Months
    /\ crashDirs \in SUBSET Directories
    /\ size \in 0 .. bound
    /\ syncedSize \in 0 .. bound

\* The month's first recording, or there was another one, after which the
\* machine may or may not have been started again.
FilesInit ==
    /\ dir = EmptyDirectory /\ month \in Months
    /\ crashDirs = {EmptyDirectory}
    /\ size = 0
    /\ syncedSize = 0

\* A change of the directory that is not yet durable.
Rename(new) ==
    /\ dir' = new
    /\ crashDirs' = crashDirs \cup {new}
    /\ UNCHANGED <<size, syncedSize>>

\* ensureDirectory: Mkdir of what is missing, without a Sync of its parent.
EnsureDirectory == month' = IF month = "absent" THEN "new" ELSE month

FinalExists == dir.final # "none"
FinalSize == IF dir.final = "ours" THEN size ELSE ForeignSize
SameFile == dir.partial /\ dir.final = "ours"

\* CreatePartial: O_CREATE|O_EXCL, so never an existing partial file.
CreatePartial ==
    /\ ~dir.partial
    /\ EnsureDirectory
    /\ Rename([dir EXCEPT !.partial = TRUE])

\* A failing CreatePartial, before or after it made the directories.
NotCreated == EnsureDirectory /\ UNCHANGED <<dir, crashDirs, size, syncedSize>>
CreateFails == CreatePartial \/ NotCreated \/ UNCHANGED fileVars

\* PartialFile.Write of n more bytes.
WritePartial(n) ==
    /\ size' = size + n
    /\ UNCHANGED <<dir, month, crashDirs, syncedSize>>

\* PartialFile.Sync (Close changes nothing that is modelled).
SyncPartial ==
    /\ syncedSize' = size
    /\ UNCHANGED <<dir, month, crashDirs, size>>

\* A faulty LinkFinal: a plain rename, which replaces an existing file.
RenameReplacing ==
    /\ dir.partial
    /\ Rename([partial |-> FALSE, final |-> "ours"]) /\ UNCHANGED month

\* LinkFinal: rename without replacing, checked before and after; the single
\* link check refuses the two names an older version left behind.
LinkFinal ==
    /\ ~FinalExists
    /\ dir.partial
    /\ Rename([partial |-> FALSE, final |-> "ours"]) /\ UNCHANGED month

\* A faulty SyncDirectory that leaves the names in the page cache.
SyncNoDirectory == UNCHANGED fileVars

\* SyncDirectory: what is in the directory of the month is on the disk, but not
\* that directory's own name.
SyncDirectory ==
    /\ crashDirs' = {dir}
    /\ UNCHANGED <<dir, month, size, syncedSize>>

\* RemovePartial: nothing to do after a rename; otherwise only a second name
\* of the very same file is removed.
RemovePartialAllowed == FinalExists /\ (dir.partial => SameFile)
RemovePartial ==
    /\ RemovePartialAllowed
    /\ IF dir.partial THEN Rename([dir EXCEPT !.partial = FALSE]) /\ UNCHANGED month
       ELSE UNCHANGED fileVars

\* A power loss keeps the synced bytes, perhaps more of the written ones, and
\* any state of the directory since the last SyncDirectory; or it takes a new
\* directory as a whole, and its files' bytes are out of reach.
LosePower ==
    /\ \/ month = "new" /\ month' = "absent" /\ dir' = EmptyDirectory
       \/ month' = (IF month = "new" THEN "kept" ELSE month) /\ dir' \in crashDirs
    /\ crashDirs' = {dir'}
    /\ size' \in syncedSize .. size
    /\ syncedSize' = size'
=============================================================================
