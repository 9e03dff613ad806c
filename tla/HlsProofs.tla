------------------------------ MODULE HlsProofs -------------------------------
(***************************************************************************)
(* Proofs about live HLS.  The sessions: for any number of screens, keys,  *)
(* selections and readers, and every order of requests, timers, workers    *)
(* and close.  The playlist and the retention of one session: for any      *)
(* window, durations and number of segments.  The cache: for any number of *)
(* generations and segments, any sizes and limits, and whatever fails.     *)
(***************************************************************************)
EXTENDS HlsSession, HlsCache, HlsRetention, FiniteSetTheorems, SequenceTheorems,
        WellFoundedInduction, TLAPS

-----------------------------------------------------------------------------
(* Steps of a session that move nobody and hold on to every stream.        *)

QuietKey(k) ==
    ~sess[k].idle /\ sess[k].idleFiring = {} /\ ~sess[k].idleWaits /\ sess[k].life = "none" /\ ~sess[k].retention

\* Once close has returned, nothing is left that could still fire.
LEMMA ReturnedIsQuiet ==
    ASSUME SessionIInv
    PROVE  closing.at = "returned" =>
              /\ \A s \in Slots : busy[s] = Free /\ slot[s].selection = 0 /\ slot[s].session = NoSession
              /\ \A k \in Keys : QuietKey(k)
              /\ firing = {} /\ closed
BY DEF SessionIInv, ClosingFits, Pending, QuietKey, SessionTypeOK, SessionRecords

\* Where close is does not depend on what happens in slots it has not cleared.
LEMMA ClosingStays ==
    ASSUME SessionIInv, UNCHANGED closing,
           closed => closed', \A s \in Slots : busy'[s].op = "close" => closing.at # "none",
           closing.at # "none" => \A s \in Slots \ closing.left :
              busy'[s] = Free /\ slot'[s].selection = 0 /\ slot'[s].session = NoSession,
           closing.at = "returned" => firing' = {} /\ \A k \in Keys : QuietKey(k)'
    PROVE  ClosingFits'
<1>1. ClosingFits
  BY DEF SessionIInv
<1>2. closing.at = "returned" => ~Pending'
  BY <1>1 DEF Pending, QuietKey, ClosingFits
<1> QED
  BY <1>1, <1>2 DEF ClosingFits

LEMMA SlotsKept ==
    ASSUME SessionIInv, UNCHANGED <<slot, busy, closing>>, closed => closed',
           closing.at = "returned" => firing' = {} /\ \A k \in Keys : QuietKey(k)'
    PROVE  ClosingFits'
BY ClosingStays DEF SessionIInv, ClosingFits

\* A step of one session that leaves it where it is, with its stream.
LEMMA SessionTurns ==
    ASSUME SessionIInv, NEW k \in Keys, UNCHANGED <<slot, busy, live, firing, keys, stopped, closed>>,
           sess' \in [Keys -> SessionRecords], \A j \in Keys \ {k} : sess'[j] = sess[j],
           sess'[k].at = sess[k].at, sess'[k].slot = sess[k].slot, sess'[k].stream = sess[k].stream,
           sessions' \in SUBSET keys, EpochFits(k)', ClosingFits'
    PROVE  SessionIInv'
<1>1. \A j \in Keys : sess'[j].at = sess[j].at /\ sess'[j].slot = sess[j].slot /\ sess'[j].stream = sess[j].stream
  OBVIOUS
<1>2. SessionTypeOK' /\ RequestsFit'
  BY DEF SessionIInv, SessionTypeOK, RequestsFit, RequestFits
<1>3. OwnersFit'
  <2>1. OwnersFit /\ keys \subseteq Keys
    BY DEF SessionIInv, SessionTypeOK
  <2> QED
    BY <1>1, <2>1 DEF OwnersFit
<1>4. UsesFit'
  <2>1. UsesFit
    BY DEF SessionIInv
  <2> QED
    BY <1>1, <2>1 DEF UsesFit
<1>5. EpochsFit'
  BY DEF SessionIInv, EpochsFit, EpochFits
<1> QED
  BY <1>2, <1>3, <1>4, <1>5 DEF SessionIInv

\* One session gets a new record.
LEMMA Updated ==
    ASSUME SessionIInv, NEW k \in Keys, NEW r \in SessionRecords, sess' = [sess EXCEPT ![k] = r]
    PROVE  /\ sess' \in [Keys -> SessionRecords] /\ sess'[k] = r
           /\ \A j \in Keys \ {k} : sess'[j] = sess[j]
BY DEF SessionIInv, SessionTypeOK

LEMMA RecordShape ==
    ASSUME SessionIInv, NEW k \in Keys
    PROVE  /\ sess \in [Keys -> SessionRecords] /\ sess[k] \in SessionRecords
           /\ sess[k].epoch \in 0 .. MaxTouches + 1 /\ sess[k].idleFiring \subseteq Nat
           /\ EpochFits(k)
BY DEF SessionIInv, SessionTypeOK, SessionRecords, EpochsFit

LEMMA ReadKeeps ==
    ASSUME HlsAssumption, SessionIInv, NEW k \in Keys, Read(k)
    PROVE  SessionIInv'
<1>1. UNCHANGED <<slot, busy, live, firing, keys, sessions, closed, closing, stopped>>
  BY DEF Read, Alone
<1>2. /\ sess' = [sess EXCEPT ![k].epoch = @ + 1, ![k].idle = ~closed, ![k].silent = FALSE]
      /\ ~sess[k].terminal /\ sess[k].epoch < MaxTouches
  BY DEF Read, Touched, Touchable
<1>3. /\ sess \in [Keys -> SessionRecords] /\ MaxTouches \in Nat /\ closed \in BOOLEAN
      /\ sess[k] \in SessionRecords
  BY DEF SessionIInv, SessionTypeOK, HlsAssumption
<1> DEFINE r == [sess[k] EXCEPT !.epoch = sess[k].epoch + 1, !.idle = ~closed, !.silent = FALSE]
<1>8. sess' = [sess EXCEPT ![k] = r]
  BY <1>2, <1>3
<1>9. sess[k].epoch \in Nat /\ sess[k].epoch + 1 \in 0 .. MaxTouches + 1
  BY <1>2, <1>3 DEF SessionRecords
<1>10. r \in SessionRecords /\ r.epoch = sess[k].epoch + 1 /\ r.idle = ~closed /\ r.silent = FALSE
       /\ r.at = sess[k].at /\ r.slot = sess[k].slot /\ r.stream = sess[k].stream
       /\ r.terminal = sess[k].terminal /\ r.idleFiring = sess[k].idleFiring
       /\ r.idleWaits = sess[k].idleWaits /\ r.life = sess[k].life /\ r.retention = sess[k].retention
  BY <1>3, <1>9 DEF SessionRecords
<1> HIDE DEF r
<1>4. /\ sess' \in [Keys -> SessionRecords] /\ \A j \in Keys \ {k} : sess'[j] = sess[j]
      /\ sess'[k] = r
  BY <1>3, <1>8, <1>10
<1>5. EpochFits(k)
  BY DEF SessionIInv, EpochsFit
<1>6. EpochFits(k)'
  <2>1. sess[k].idleFiring \subseteq Nat /\ sess[k].at # "done"
    BY <1>2, <1>3, <1>5 DEF SessionRecords, EpochFits
  <2>2. \A e \in sess[k].idleFiring : e =< sess[k].epoch
    BY <2>1, <1>5 DEF EpochFits
  <2>3. sess[k].epoch + 1 \notin sess[k].idleFiring
    BY <1>9, <2>1, <2>2
  <2>4. \A e \in sess[k].idleFiring : e =< sess[k].epoch + 1
    BY <1>9, <2>1, <2>2
  <2>5. sess[k].epoch + 1 # 0 /\ sess[k].epoch + 1 =< MaxTouches
    BY <1>2, <1>3, <1>9
  <2> QED
    BY <1>2, <1>4, <1>5, <1>10, <2>1, <2>3, <2>4, <2>5 DEF EpochFits
<1>7. ClosingFits'
  BY <1>1, <1>4, <1>10, SlotsKept, ReturnedIsQuiet DEF QuietKey
<1> QED
  BY <1>1, <1>4, <1>6, <1>7, <1>10, SessionTurns DEF SessionIInv, SessionTypeOK

LEMMA IdleTimerKeeps ==
    ASSUME HlsAssumption, SessionIInv, NEW k \in Keys, IdleTimer(k)
    PROVE  SessionIInv'
<1>1. UNCHANGED <<slot, busy, live, firing, keys, sessions, closed, closing, stopped>> /\ sess[k].idle
  BY DEF IdleTimer, Alone
<1> DEFINE r == [sess[k] EXCEPT !.idle = FALSE, !.idleFiring = sess[k].idleFiring \cup {sess[k].epoch},
                                !.silent = TRUE]
<1>2. sess' = [sess EXCEPT ![k] = r]
  BY RecordShape DEF IdleTimer
<1>3. /\ r \in SessionRecords /\ r.idle = FALSE /\ r.silent = TRUE
      /\ r.idleFiring = sess[k].idleFiring \cup {sess[k].epoch}
      /\ r.at = sess[k].at /\ r.slot = sess[k].slot /\ r.stream = sess[k].stream
      /\ r.terminal = sess[k].terminal /\ r.epoch = sess[k].epoch
  <2>1. sess[k] \in SessionRecords /\ sess[k].idleFiring \cup {sess[k].epoch} \in SUBSET Nat
    BY RecordShape DEF HlsAssumption
  <2> QED
    BY <2>1 DEF SessionRecords
<1> HIDE DEF r
<1>4. /\ sess' \in [Keys -> SessionRecords] /\ sess'[k] = r
      /\ \A j \in Keys \ {k} : sess'[j] = sess[j]
  BY <1>2, <1>3, Updated
<1>5. EpochFits(k)'
  <2>1. EpochFits(k) /\ sess[k].epoch # 0 /\ sess[k].epoch \in Nat
    BY <1>1, RecordShape DEF EpochFits, HlsAssumption
  <2> QED
    BY <1>3, <1>4, <2>1 DEF EpochFits
<1>6. ClosingFits'
  BY <1>1, SlotsKept, ReturnedIsQuiet DEF QuietKey
<1>7. sessions' \in SUBSET keys
  BY <1>1 DEF SessionIInv, SessionTypeOK
<1> QED
  BY <1>1, <1>3, <1>4, <1>5, <1>6, <1>7, SessionTurns

LEMMA IdleEndsKeeps ==
    ASSUME HlsAssumption, SessionIInv, NEW k \in Keys, IdleEnds(k)
    PROVE  SessionIInv'
<1>1. UNCHANGED <<slot, busy, live, firing, keys, sessions, closed, closing, stopped>> /\ sess[k].idleWaits
  BY DEF IdleEnds, Alone
<1> DEFINE r == [sess[k] EXCEPT !.idleWaits = FALSE]
<1>2. sess' = [sess EXCEPT ![k] = r]
  BY RecordShape DEF IdleEnds
<1>3. /\ r \in SessionRecords
      /\ r.at = sess[k].at /\ r.slot = sess[k].slot /\ r.stream = sess[k].stream
      /\ r.terminal = sess[k].terminal /\ r.epoch = sess[k].epoch /\ r.idle = sess[k].idle
      /\ r.idleFiring = sess[k].idleFiring /\ r.silent = sess[k].silent
  BY RecordShape DEF SessionRecords
<1> HIDE DEF r
<1>4. /\ sess' \in [Keys -> SessionRecords] /\ sess'[k] = r
      /\ \A j \in Keys \ {k} : sess'[j] = sess[j]
  BY <1>2, <1>3, Updated
<1>5. EpochFits(k)'
  BY <1>3, <1>4, RecordShape DEF EpochFits
<1>6. ClosingFits'
  BY <1>1, SlotsKept, ReturnedIsQuiet DEF QuietKey
<1>7. sessions' \in SUBSET keys
  BY <1>1 DEF SessionIInv, SessionTypeOK
<1> QED
  BY <1>1, <1>3, <1>4, <1>5, <1>6, <1>7, SessionTurns

LEMMA LifeEndsKeeps ==
    ASSUME HlsAssumption, SessionIInv, NEW k \in Keys, LifeEnds(k)
    PROVE  SessionIInv'
<1>1. UNCHANGED <<slot, busy, live, firing, keys, sessions, closed, closing, stopped>> /\ sess[k].life = "firing"
  BY DEF LifeEnds, Alone
<1> DEFINE r == [sess[k] EXCEPT !.life = "none"]
<1>2. sess' = [sess EXCEPT ![k] = r]
  BY RecordShape DEF LifeEnds
<1>3. /\ r \in SessionRecords
      /\ r.at = sess[k].at /\ r.slot = sess[k].slot /\ r.stream = sess[k].stream
      /\ r.terminal = sess[k].terminal /\ r.epoch = sess[k].epoch /\ r.idle = sess[k].idle
      /\ r.idleFiring = sess[k].idleFiring /\ r.silent = sess[k].silent
  BY RecordShape DEF SessionRecords
<1> HIDE DEF r
<1>4. /\ sess' \in [Keys -> SessionRecords] /\ sess'[k] = r
      /\ \A j \in Keys \ {k} : sess'[j] = sess[j]
  BY <1>2, <1>3, Updated
<1>5. EpochFits(k)'
  BY <1>3, <1>4, RecordShape DEF EpochFits
<1>6. ClosingFits'
  BY <1>1, SlotsKept, ReturnedIsQuiet DEF QuietKey
<1>7. sessions' \in SUBSET keys
  BY <1>1 DEF SessionIInv, SessionTypeOK
<1> QED
  BY <1>1, <1>3, <1>4, <1>5, <1>6, <1>7, SessionTurns

LEMMA RetentionEndsKeeps ==
    ASSUME HlsAssumption, SessionIInv, NEW k \in Keys, RetentionEnds(k)
    PROVE  SessionIInv'
<1>1. UNCHANGED <<slot, busy, live, firing, keys, closed, closing, stopped>> /\ sess[k].retention
  BY DEF RetentionEnds
<1>2. PICK emptied \in BOOLEAN :
          /\ sess' = [sess EXCEPT ![k].retention = FALSE, ![k].kept = @ /\ ~emptied]
          /\ sessions' = IF emptied THEN sessions \ {k} ELSE sessions
  BY RecordShape DEF RetentionEnds, SessionRecords
<1> DEFINE r == [sess[k] EXCEPT !.retention = FALSE, !.kept = sess[k].kept /\ ~emptied]
<1>3. sess' = [sess EXCEPT ![k] = r]
  BY <1>2, RecordShape
<1>4. /\ r \in SessionRecords
      /\ r.at = sess[k].at /\ r.slot = sess[k].slot /\ r.stream = sess[k].stream
      /\ r.terminal = sess[k].terminal /\ r.epoch = sess[k].epoch /\ r.idle = sess[k].idle
      /\ r.idleFiring = sess[k].idleFiring /\ r.silent = sess[k].silent
  BY RecordShape DEF SessionRecords
<1> HIDE DEF r
<1>5. /\ sess' \in [Keys -> SessionRecords] /\ sess'[k] = r
      /\ \A j \in Keys \ {k} : sess'[j] = sess[j]
  BY <1>3, <1>4, Updated
<1>6. EpochFits(k)'
  BY <1>4, <1>5, RecordShape DEF EpochFits
<1>7. ClosingFits'
  BY <1>1, SlotsKept, ReturnedIsQuiet DEF QuietKey
<1>8. sessions' \in SUBSET keys
  BY <1>2 DEF SessionIInv, SessionTypeOK
<1> QED
  BY <1>1, <1>4, <1>5, <1>6, <1>7, <1>8, SessionTurns

LEMMA EmitKeeps ==
    ASSUME HlsAssumption, SessionIInv, NEW k \in Keys, Emit(k)
    PROVE  SessionIInv'
<1>1. UNCHANGED <<slot, busy, live, firing, keys, sessions, closed, closing, stopped>> /\ sess[k].at = "running"
  BY DEF Emit, Worker
<1> DEFINE r == [sess[k] EXCEPT !.kept = TRUE, !.retention = sess[k].retention \/ ~closed]
<1>2. sess' = [sess EXCEPT ![k] = r]
  BY RecordShape DEF Emit
<1>3. /\ r \in SessionRecords
      /\ r.at = sess[k].at /\ r.slot = sess[k].slot /\ r.stream = sess[k].stream
      /\ r.terminal = sess[k].terminal /\ r.epoch = sess[k].epoch /\ r.idle = sess[k].idle
      /\ r.idleFiring = sess[k].idleFiring /\ r.silent = sess[k].silent
  BY RecordShape DEF SessionRecords
<1> HIDE DEF r
<1>4. /\ sess' \in [Keys -> SessionRecords] /\ sess'[k] = r
      /\ \A j \in Keys \ {k} : sess'[j] = sess[j]
  BY <1>2, <1>3, Updated
<1>5. EpochFits(k)'
  BY <1>3, <1>4, RecordShape DEF EpochFits
<1>6. closing.at # "returned"
  <2>1. sess[k].slot \in Slots /\ slot[sess[k].slot].session = k
    BY <1>1 DEF SessionIInv, OwnersFit, Workers
  <2>2. k # NoSession
    BY DEF HlsAssumption, NoSession
  <2> QED
    BY <2>1, <2>2, ReturnedIsQuiet
<1>7. ClosingFits'
  BY <1>1, <1>6, SlotsKept
<1>8. sessions' \in SUBSET keys
  BY <1>1 DEF SessionIInv, SessionTypeOK
<1> QED
  BY <1>1, <1>3, <1>4, <1>5, <1>7, <1>8, SessionTurns

LEMMA ShutdownRetentionKeeps ==
    ASSUME HlsAssumption, SessionIInv, NEW k \in Keys, ShutdownRetention(k)
    PROVE  SessionIInv'
<1>1. /\ UNCHANGED <<slot, busy, live, firing, keys, sessions, closed, stopped>>
      /\ closing.at = "slots" /\ closing' = [closing EXCEPT !.captured = @ \ {k}]
  BY DEF ShutdownRetention
<1> DEFINE r == [sess[k] EXCEPT !.retention = FALSE, !.idle = FALSE,
                                !.life = IF sess[k].life = "firing" THEN sess[k].life ELSE "none"]
<1>2. sess' = [sess EXCEPT ![k] = r]
  BY RecordShape DEF ShutdownRetention
<1>3. /\ r \in SessionRecords
      /\ r.at = sess[k].at /\ r.slot = sess[k].slot /\ r.stream = sess[k].stream
      /\ r.terminal = sess[k].terminal /\ r.epoch = sess[k].epoch /\ r.idle = FALSE
      /\ r.idleFiring = sess[k].idleFiring /\ r.silent = sess[k].silent
  BY RecordShape DEF SessionRecords
<1> HIDE DEF r
<1>4. /\ sess' \in [Keys -> SessionRecords] /\ sess'[k] = r
      /\ \A j \in Keys \ {k} : sess'[j] = sess[j]
  BY <1>2, <1>3, Updated
<1>5. EpochFits(k)'
  BY <1>3, <1>4, RecordShape DEF EpochFits
<1>6. ClosingFits'
  BY <1>1 DEF SessionIInv, ClosingFits
<1>7. sessions' \in SUBSET keys
  BY <1>1 DEF SessionIInv, SessionTypeOK
<1> QED
  BY <1>1, <1>3, <1>4, <1>5, <1>6, <1>7, SessionTurns

-----------------------------------------------------------------------------
(* Stopping a session.                                                     *)

\* Its stream gives back the use it has, and no other's.
LEMMA StreamCloses ==
    ASSUME HlsAssumption, SessionIInv, NEW k \in Keys,
           \A j \in Keys \ {k} : sess'[j] = sess[j], sess'[k].stream = FALSE, live' = StreamGone(k),
           \A s \in Slots : live[s] = "selected" =>
               \/ slot'[s].selection # 0
               \/ busy'[s].at \in {"selected", "reserving", "begin", "opening"}
    PROVE  UsesFit' /\ live' \in [Slots -> Keys \cup {"none", "selected"}]
<1>1. live \in [Slots -> Keys \cup {"none", "selected"}] /\ UsesFit /\ "none" \notin Keys /\ "selected" \notin Keys
  BY DEF SessionIInv, SessionTypeOK, HlsAssumption
<1>2. \A s \in Slots : live'[s] = IF live[s] = k THEN "none" ELSE live[s]
  BY DEF StreamGone
<1>3. live' \in [Slots -> Keys \cup {"none", "selected"}]
  BY <1>1 DEF StreamGone
<1>4. ASSUME NEW j \in Keys, sess'[j].stream
      PROVE  sess'[j].at \in {"opened", "listed", "running", "copied"} /\ live'[sess'[j].slot] = j
  <2>1. j # k /\ sess'[j] = sess[j] /\ sess[j].stream
    BY <1>4
  <2>2. sess[j].at \in {"opened", "listed", "running", "copied"} /\ live[sess[j].slot] = j
    BY <1>1, <2>1 DEF UsesFit
  <2>3. sess[j].slot \in Slots
    BY <2>2 DEF SessionIInv, OwnersFit, Holders, Workers
  <2> QED
    BY <1>2, <2>1, <2>2, <2>3
<1>5. ASSUME NEW s \in Slots
      PROVE  /\ live'[s] \in Keys => sess'[live'[s]].stream /\ sess'[live'[s]].slot = s
             /\ live'[s] = "selected" =>
                   \/ slot'[s].selection # 0
                   \/ busy'[s].at \in {"selected", "reserving", "begin", "opening"}
  BY <1>1, <1>2 DEF UsesFit
<1> QED
  BY <1>3, <1>4, <1>5 DEF UsesFit

\* A stop by a timer or by close leaves the slot as it is.
LEMMA SessionStops ==
    ASSUME HlsAssumption, SessionIInv, NEW k \in Keys,
           UNCHANGED <<slot, busy, firing, keys, sessions, stopped, closed>>,
           sess' \in [Keys -> SessionRecords], \A j \in Keys \ {k} : sess'[j] = sess[j],
           sess'[k].at = sess[k].at, sess'[k].slot = sess[k].slot, sess'[k].stream = FALSE,
           live' = StreamGone(k), EpochFits(k)', ClosingFits'
    PROVE  SessionIInv'
<1>1. \A j \in Keys : sess'[j].at = sess[j].at /\ sess'[j].slot = sess[j].slot
  OBVIOUS
<1>2. UsesFit' /\ live' \in [Slots -> Keys \cup {"none", "selected"}]
  <2>1. \A s \in Slots : live[s] = "selected" =>
               \/ slot'[s].selection # 0
               \/ busy'[s].at \in {"selected", "reserving", "begin", "opening"}
    BY DEF SessionIInv, UsesFit
  <2> QED
    BY <2>1, StreamCloses
<1>3. SessionTypeOK' /\ RequestsFit'
  BY <1>2 DEF SessionIInv, SessionTypeOK, RequestsFit, RequestFits
<1>4. OwnersFit'
  <2>1. OwnersFit /\ keys \subseteq Keys
    BY DEF SessionIInv, SessionTypeOK
  <2> QED
    BY <1>1, <2>1 DEF OwnersFit
<1>5. EpochsFit'
  BY DEF SessionIInv, EpochsFit, EpochFits
<1> QED
  BY <1>2, <1>3, <1>4, <1>5 DEF SessionIInv

\* What Stop makes of a session.
StoppedRecord(k) == [sess[k] EXCEPT !.stopping = sess[k].stopping \/ ~sess[k].terminal,
                                    !.cancelled = sess[k].cancelled \/ ~sess[k].terminal,
                                    !.stream = FALSE]
LEMMA StopIs ==
    ASSUME SessionIInv, NEW k \in Keys
    PROVE  LET r == StoppedRecord(k)
           IN  /\ Stop(k) = [sess EXCEPT ![k] = r] /\ r \in SessionRecords /\ r.stream = FALSE
               /\ Stop(k) \in [Keys -> SessionRecords]
               /\ r.at = sess[k].at /\ r.slot = sess[k].slot
               /\ r.terminal = sess[k].terminal /\ r.epoch = sess[k].epoch /\ r.idle = sess[k].idle
               /\ r.idleFiring = sess[k].idleFiring /\ r.silent = sess[k].silent
               /\ r.idleWaits = sess[k].idleWaits /\ r.life = sess[k].life
               /\ r.retention = sess[k].retention
<1>1. Stop(k) = [sess EXCEPT ![k] = StoppedRecord(k)]
  BY RecordShape DEF Stop, StoppedRecord
<1>2. LET r == StoppedRecord(k)
      IN  /\ r \in SessionRecords /\ r.stream = FALSE
          /\ r.at = sess[k].at /\ r.slot = sess[k].slot
          /\ r.terminal = sess[k].terminal /\ r.epoch = sess[k].epoch /\ r.idle = sess[k].idle
          /\ r.idleFiring = sess[k].idleFiring /\ r.silent = sess[k].silent
          /\ r.idleWaits = sess[k].idleWaits /\ r.life = sess[k].life
          /\ r.retention = sess[k].retention
  BY ZenonT(60), RecordShape DEF SessionRecords, StoppedRecord
<1> QED
  BY <1>1, <1>2, RecordShape

\* A stop that changes nothing but the flags and the timers of one session.
LEMMA StopKeeps ==
    ASSUME HlsAssumption, SessionIInv, NEW k \in Keys, NEW r \in SessionRecords,
           UNCHANGED <<slot, busy, firing, keys, sessions, closed, closing, stopped>>,
           sess' = [sess EXCEPT ![k] = r], live' = StreamGone(k), closing.at # "returned",
           r.at = sess[k].at, r.slot = sess[k].slot, r.stream = FALSE,
           r.terminal = sess[k].terminal, r.epoch = sess[k].epoch, r.idle = sess[k].idle,
           r.idleFiring \in {sess[k].idleFiring, {}}, r.silent = sess[k].silent
    PROVE  SessionIInv'
<1>1. /\ sess' \in [Keys -> SessionRecords] /\ sess'[k] = r
      /\ \A j \in Keys \ {k} : sess'[j] = sess[j]
  BY Updated
<1>2. EpochFits(k)'
  <2>1. EpochFits(k)
    BY RecordShape
  <2>2. CASE r.idleFiring = {}
    BY <1>1, <2>1, <2>2 DEF EpochFits
  <2>3. CASE r.idleFiring = sess[k].idleFiring
    BY <1>1, <2>1, <2>3 DEF EpochFits
  <2> QED
    BY <2>2, <2>3
<1>3. ClosingFits'
  BY SlotsKept
<1> QED
  BY <1>1, <1>2, <1>3, SessionStops

LEMMA LifeTimerKeeps ==
    ASSUME HlsAssumption, SessionIInv, NEW k \in Keys, LifeTimer(k)
    PROVE  SessionIInv'
<1>1. /\ UNCHANGED <<slot, busy, firing, keys, sessions, closed, closing, stopped>>
      /\ sess[k].life = "armed" /\ live' = StreamGone(k) /\ sess' = [Stop(k) EXCEPT ![k].life = "firing"]
  BY DEF LifeTimer
<1> DEFINE q == StoppedRecord(k)
           r == [q EXCEPT !.life = "firing"]
<1>2. /\ Stop(k) = [sess EXCEPT ![k] = q] /\ q \in SessionRecords /\ q.stream = FALSE
      /\ q.at = sess[k].at /\ q.slot = sess[k].slot
      /\ q.terminal = sess[k].terminal /\ q.epoch = sess[k].epoch /\ q.idle = sess[k].idle
      /\ q.idleFiring = sess[k].idleFiring /\ q.silent = sess[k].silent
  BY StopIs
<1> HIDE DEF q
<1>3. sess' = [sess EXCEPT ![k] = r]
  BY <1>1, <1>2, RecordShape
<1>4. /\ r \in SessionRecords /\ r.stream = FALSE /\ r.at = sess[k].at /\ r.slot = sess[k].slot
      /\ r.terminal = sess[k].terminal /\ r.epoch = sess[k].epoch /\ r.idle = sess[k].idle
      /\ r.idleFiring = sess[k].idleFiring /\ r.silent = sess[k].silent
  BY <1>2 DEF SessionRecords
<1> HIDE DEF r
<1>5. closing.at # "returned"
  BY <1>1, ReturnedIsQuiet DEF QuietKey
<1> QED
  BY <1>1, <1>3, <1>4, <1>5, StopKeeps

LEMMA ShutdownStopKeeps ==
    ASSUME HlsAssumption, SessionIInv, NEW k \in Keys, ShutdownStop(k)
    PROVE  SessionIInv'
<1>1. /\ UNCHANGED <<slot, busy, firing, keys, sessions, closed, closing, stopped>>
      /\ closing.at = "slots" /\ live' = StreamGone(k) /\ sess' = Stop(k)
  BY DEF ShutdownStop
<1> QED
  BY <1>1, StopIs, StopKeeps

LEMMA StopIdleKeeps ==
    ASSUME HlsAssumption, SessionIInv, NEW k \in Keys, StopIdle(k)
    PROVE  SessionIInv'
<1>1. /\ UNCHANGED <<slot, busy, firing, keys, sessions, closed, closing, stopped>>
      /\ sess[k].idleFiring # {} /\ IdleStops(k, sess[k].epoch \in sess[k].idleFiring)
  BY DEF StopIdle
<1>2. closing.at # "returned"
  BY <1>1, ReturnedIsQuiet DEF QuietKey
<1>3. CASE sess' = [Stop(k) EXCEPT ![k].idleFiring = {}, ![k].idleWaits = TRUE] /\ live' = StreamGone(k)
  <2> DEFINE q == StoppedRecord(k)
             r == [q EXCEPT !.idleFiring = {}, !.idleWaits = TRUE]
  <2>2. /\ Stop(k) = [sess EXCEPT ![k] = q] /\ q \in SessionRecords /\ q.stream = FALSE
        /\ q.at = sess[k].at /\ q.slot = sess[k].slot
        /\ q.terminal = sess[k].terminal /\ q.epoch = sess[k].epoch /\ q.idle = sess[k].idle
        /\ q.silent = sess[k].silent
    BY StopIs
  <2> HIDE DEF q
  <2>3. sess' = [sess EXCEPT ![k] = r]
    BY <1>3, <2>2, RecordShape
  <2>4. /\ r \in SessionRecords /\ r.stream = FALSE /\ r.at = sess[k].at /\ r.slot = sess[k].slot
        /\ r.terminal = sess[k].terminal /\ r.epoch = sess[k].epoch /\ r.idle = sess[k].idle
        /\ r.idleFiring = {} /\ r.silent = sess[k].silent
    BY <2>2 DEF SessionRecords
  <2> HIDE DEF r
  <2> QED
    BY <1>1, <1>2, <1>3, <2>3, <2>4, StopKeeps
<1>4. CASE sess' = [sess EXCEPT ![k].idleFiring = {}] /\ UNCHANGED live
  <2> DEFINE r == [sess[k] EXCEPT !.idleFiring = {}]
  <2>2. sess' = [sess EXCEPT ![k] = r]
    BY <1>4, RecordShape
  <2>3. /\ r \in SessionRecords
        /\ r.at = sess[k].at /\ r.slot = sess[k].slot /\ r.stream = sess[k].stream
        /\ r.terminal = sess[k].terminal /\ r.epoch = sess[k].epoch /\ r.idle = sess[k].idle
        /\ r.idleFiring = {} /\ r.silent = sess[k].silent
    BY RecordShape DEF SessionRecords
  <2> HIDE DEF r
  <2>4. /\ sess' \in [Keys -> SessionRecords] /\ sess'[k] = r
        /\ \A j \in Keys \ {k} : sess'[j] = sess[j]
    BY <2>2, <2>3, Updated
  <2>5. EpochFits(k)'
    BY <2>3, <2>4, RecordShape DEF EpochFits
  <2>6. ClosingFits'
    BY <1>1, <1>2, SlotsKept
  <2>7. sessions' \in SUBSET keys
    BY <1>1 DEF SessionIInv, SessionTypeOK
  <2> QED
    BY <1>1, <1>4, <2>3, <2>4, <2>5, <2>6, <2>7, SessionTurns
<1> QED
  BY <1>1, <1>3, <1>4 DEF IdleStops

\* An idle timer stops a session only if nobody read it since.
LEMMA IdleStopDue ==
    ASSUME HlsAssumption, SessionIInv, NEW k \in Keys, NEW j \in Keys, StopIdle(k),
           ~sess[j].idleWaits, sess'[j].idleWaits
    PROVE  sess[j].silent
<1>1. CASE j # k
  <2>1. sess \in [Keys -> SessionRecords] /\ Stop(k) = [sess EXCEPT ![k] = StoppedRecord(k)]
    BY StopIs, RecordShape
  <2>2. CASE sess' = [Stop(k) EXCEPT ![k].idleFiring = {}, ![k].idleWaits = TRUE]
    <3>1. sess'[j] = Stop(k)[j]
      BY <1>1, <2>1, <2>2
    <3> QED
      BY <1>1, <2>1, <3>1
  <2>3. CASE sess' = [sess EXCEPT ![k].idleFiring = {}]
    BY <1>1, <2>1, <2>3
  <2> QED
    BY <2>2, <2>3 DEF StopIdle, IdleStops
<1>2. CASE j = k /\ sess[k].epoch \in sess[k].idleFiring
  BY <1>2, RecordShape DEF EpochFits
<1>3. CASE j = k /\ sess[k].epoch \notin sess[k].idleFiring
  BY <1>3, RecordShape DEF StopIdle, IdleStops, SessionRecords
<1> QED
  BY <1>1, <1>2, <1>3

-----------------------------------------------------------------------------
(* The worker.                                                             *)

\* A worker goes on, or is done, in its slot.
LEMMA WorkerMoves ==
    ASSUME HlsAssumption, SessionIInv, NEW k \in Keys, NEW r \in SessionRecords,
           UNCHANGED <<slot, busy, firing, keys, closed, closing, stopped>>,
           sess' = [sess EXCEPT ![k] = r], sessions' \in SUBSET keys,
           sess[k].at \in Workers, r.at \in Workers \cup {"done"},
           r.at \in Workers => r.slot = sess[k].slot, EpochFits(k)',
           \/ UNCHANGED live /\ r.stream = sess[k].stream /\ (r.stream => r.at = "copied")
           \/ live' = StreamGone(k) /\ r.stream = FALSE
    PROVE  SessionIInv'
<1>1. /\ sess' \in [Keys -> SessionRecords] /\ sess'[k] = r
      /\ \A j \in Keys \ {k} : sess'[j] = sess[j]
  BY Updated
<1>2. /\ OwnersFit /\ UsesFit /\ keys \subseteq Keys /\ sess[k].slot \in Slots /\ slot[sess[k].slot].session = k
      /\ "none" \notin Keys /\ "selected" \notin Keys
  BY DEF SessionIInv, OwnersFit, SessionTypeOK, HlsAssumption
<1>3. \A s \in Slots : busy[s].at \in Holders => busy[s].key \in Keys \ {k}
  BY <1>2 DEF OwnersFit, Holders, Workers
<1>4. OwnersFit'
  <2>1. ASSUME NEW s \in Slots, busy[s].at \in Holders
        PROVE  /\ busy[s].key \in keys
               /\ sess'[busy[s].key].at = IF busy[s].at = "begin" THEN "none" ELSE busy[s].at
               /\ \A t \in Slots \ {s} : busy[t].at \in Holders => busy[t].key # busy[s].key
    BY <1>1, <1>2, <1>3, <2>1 DEF OwnersFit
  <2>2. k \in keys
    BY <1>2 DEF OwnersFit, Workers
  <2>3. ASSUME NEW j \in Keys
        PROVE  /\ j \notin keys => sess'[j].at = "none"
               /\ sess'[j].at \in Holders \cup Workers => sess'[j].slot \in Slots
               /\ sess'[j].at \in Holders =>
                     busy[sess'[j].slot] = [op |-> "start", at |-> sess'[j].at, key |-> j]
               /\ sess'[j].at \in Workers => slot[sess'[j].slot].session = j
    <3>1. CASE j = k
      BY <1>1, <1>2, <2>2, <3>1 DEF Holders, Workers
    <3>2. CASE j # k
      BY <1>1, <1>2, <3>2 DEF OwnersFit
    <3> QED
      BY <3>1, <3>2
  <2> QED
    BY <2>1, <2>3 DEF OwnersFit
<1>5. UsesFit' /\ live' \in [Slots -> Keys \cup {"none", "selected"}]
  <2>1. CASE live' = StreamGone(k) /\ r.stream = FALSE
    <3>1. \A s \in Slots : live[s] = "selected" =>
                 \/ slot'[s].selection # 0
                 \/ busy'[s].at \in {"selected", "reserving", "begin", "opening"}
      BY <1>2 DEF UsesFit
    <3> QED
      BY <1>1, <2>1, <3>1, StreamCloses
  <2>2. CASE UNCHANGED live /\ r.stream = sess[k].stream /\ (r.stream => r.at = "copied")
    <3>1. live \in [Slots -> Keys \cup {"none", "selected"}]
      BY DEF SessionIInv, SessionTypeOK
    <3>2. ASSUME NEW j \in Keys, sess'[j].stream
          PROVE  sess'[j].at \in {"opened", "listed", "running", "copied"} /\ live[sess'[j].slot] = j
      <4>1. CASE j = k
        BY <1>1, <1>2, <2>2, <3>2, <4>1 DEF UsesFit, Workers
      <4>2. CASE j # k
        BY <1>1, <1>2, <3>2, <4>2 DEF UsesFit
      <4> QED
        BY <4>1, <4>2
    <3>3. ASSUME NEW s \in Slots, live[s] \in Keys
          PROVE  sess'[live[s]].stream /\ sess'[live[s]].slot = s
      <4>1. sess[live[s]].stream /\ sess[live[s]].slot = s
        BY <1>2, <3>3 DEF UsesFit
      <4>2. CASE live[s] = k
        BY <1>1, <2>2, <4>1, <4>2 DEF Workers
      <4>3. CASE live[s] # k
        BY <1>1, <3>3, <4>1, <4>3
      <4> QED
        BY <4>2, <4>3
    <3> QED
      BY <1>2, <2>2, <3>1, <3>2, <3>3 DEF UsesFit
  <2> QED
    BY <2>1, <2>2
<1>6. EpochsFit'
  BY <1>1 DEF SessionIInv, EpochsFit, EpochFits
<1>7. SessionTypeOK' /\ RequestsFit'
  BY <1>1, <1>5 DEF SessionIInv, SessionTypeOK, RequestsFit, RequestFits
<1>8. ClosingFits'
  <2>1. closing.at # "returned"
    <3>1. k # NoSession
      BY DEF HlsAssumption, NoSession
    <3> QED
      BY <1>2, <3>1, ReturnedIsQuiet
  <2> QED
    BY <2>1, SlotsKept
<1> QED
  BY <1>4, <1>5, <1>6, <1>7, <1>8 DEF SessionIInv

LEMMA CopyEndsKeeps ==
    ASSUME HlsAssumption, SessionIInv, NEW k \in Keys, CopyEnds(k)
    PROVE  SessionIInv'
<1>1. UNCHANGED <<slot, busy, live, firing, keys, sessions, closed, closing, stopped>> /\ sess[k].at = "running"
  BY DEF CopyEnds, Worker
<1> DEFINE r == [sess[k] EXCEPT !.at = "copied"]
<1>2. sess' = [sess EXCEPT ![k] = r]
  BY RecordShape DEF CopyEnds
<1>3. /\ r \in SessionRecords /\ r.at = "copied" /\ r.slot = sess[k].slot /\ r.stream = sess[k].stream
      /\ r.terminal = sess[k].terminal /\ r.epoch = sess[k].epoch /\ r.idle = sess[k].idle
      /\ r.idleFiring = sess[k].idleFiring /\ r.silent = sess[k].silent
  BY RecordShape DEF SessionRecords, Places
<1> HIDE DEF r
<1>4. sess'[k] = r
  BY <1>2, <1>3, Updated
<1>5. EpochFits(k)'
  BY <1>1, <1>3, <1>4, RecordShape DEF EpochFits
<1>6. sessions' \in SUBSET keys /\ sess[k].at \in Workers /\ r.at \in Workers
  BY <1>1, <1>3 DEF SessionIInv, SessionTypeOK, Workers
<1> QED
  BY <1>1, <1>2, <1>3, <1>5, <1>6, WorkerMoves

LEMMA EndStreamKeeps ==
    ASSUME HlsAssumption, SessionIInv, NEW k \in Keys, EndStream(k)
    PROVE  SessionIInv'
<1>1. /\ UNCHANGED <<slot, busy, firing, keys, sessions, closed, closing, stopped>> /\ sess[k].at = "copied"
      /\ live' = StreamGone(k)
  BY DEF EndStream, Worker
<1> DEFINE r == [sess[k] EXCEPT !.at = "ended", !.stream = FALSE]
<1>2. sess' = [sess EXCEPT ![k] = r]
  BY RecordShape DEF EndStream
<1>3. /\ r \in SessionRecords /\ r.at = "ended" /\ r.slot = sess[k].slot /\ r.stream = FALSE
      /\ r.terminal = sess[k].terminal /\ r.epoch = sess[k].epoch /\ r.idle = sess[k].idle
      /\ r.idleFiring = sess[k].idleFiring /\ r.silent = sess[k].silent
  BY ZenonT(60), RecordShape DEF SessionRecords, Places
<1> HIDE DEF r
<1>4. sess'[k] = r
  BY <1>2, <1>3, Updated
<1>5. EpochFits(k)'
  BY <1>1, <1>3, <1>4, RecordShape DEF EpochFits
<1>6. sessions' \in SUBSET keys /\ sess[k].at \in Workers /\ r.at \in Workers
  BY <1>1, <1>3 DEF SessionIInv, SessionTypeOK, Workers
<1> QED
  BY <1>1, <1>2, <1>3, <1>5, <1>6, WorkerMoves

LEMMA FinishKeeps ==
    ASSUME HlsAssumption, SessionIInv, NEW k \in Keys, Finish(k)
    PROVE  SessionIInv'
<1>1. UNCHANGED <<slot, busy, live, firing, keys, sessions, closed, closing, stopped>> /\ sess[k].at = "ended"
  BY DEF Finish, Worker
<1> DEFINE r == [sess[k] EXCEPT !.at = "finished", !.terminal = TRUE, !.cancelled = TRUE, !.idle = FALSE,
                                !.life = IF sess[k].life = "firing" THEN sess[k].life ELSE "none",
                                !.retention = sess[k].retention \/ (sess[k].kept /\ ~closed)]
<1>2. sess' = [sess EXCEPT ![k] = r]
  BY RecordShape DEF Finish
<1>3. /\ r \in SessionRecords /\ r.at = "finished" /\ r.slot = sess[k].slot /\ r.stream = sess[k].stream
      /\ r.terminal = TRUE /\ r.epoch = sess[k].epoch /\ r.idle = FALSE
      /\ r.idleFiring = sess[k].idleFiring /\ r.silent = sess[k].silent
  <2>1. sess[k] \in SessionRecords /\ "finished" \in Places
    BY RecordShape DEF Places
  <2>2. /\ (IF sess[k].life = "firing" THEN sess[k].life ELSE "none") \in {"none", "armed", "firing"}
        /\ (sess[k].retention \/ (sess[k].kept /\ ~closed)) \in BOOLEAN
    OBVIOUS
  <2> QED
    BY ZenonT(60), <2>1, <2>2 DEF SessionRecords
<1> HIDE DEF r
<1>4. sess'[k] = r
  BY <1>2, <1>3, Updated
<1>5. EpochFits(k)'
  BY <1>1, <1>3, <1>4, RecordShape DEF EpochFits
<1>6. sessions' \in SUBSET keys /\ sess[k].at \in Workers /\ r.at \in Workers /\ ~sess[k].stream
  BY <1>1, <1>3 DEF SessionIInv, SessionTypeOK, Workers, UsesFit
<1> QED
  BY <1>1, <1>2, <1>3, <1>5, <1>6, WorkerMoves

LEMMA DoneKeeps ==
    ASSUME HlsAssumption, SessionIInv, NEW k \in Keys, Done(k)
    PROVE  SessionIInv'
<1>1. UNCHANGED <<slot, busy, live, firing, keys, closed, closing, stopped>> /\ sess[k].at = "finished"
  BY DEF Done, Worker
<1> DEFINE r == [sess[k] EXCEPT !.at = "done", !.stopping = FALSE, !.epoch = 0, !.silent = FALSE, !.slot = 0]
<1>2. sess' = [sess EXCEPT ![k] = r]
  BY RecordShape DEF Done
<1>3. /\ r \in SessionRecords /\ r.at = "done" /\ r.stream = sess[k].stream
      /\ r.terminal = sess[k].terminal /\ r.epoch = 0 /\ r.idle = sess[k].idle
      /\ r.idleFiring = sess[k].idleFiring
  <2>1. sess[k] \in SessionRecords /\ "done" \in Places
    BY RecordShape DEF Places
  <2>2. 0 \in Slots \cup {0} /\ 0 \in 0 .. MaxTouches + 1
    BY DEF HlsAssumption
  <2> QED
    BY <2>1, <2>2 DEF SessionRecords
<1> HIDE DEF r
<1>4. sess'[k] = r
  BY <1>2, <1>3, Updated
<1>5. ~sess[k].idle
  BY <1>1, RecordShape DEF EpochFits
<1>6. EpochFits(k)'
  BY <1>1, <1>3, <1>4, <1>5, RecordShape DEF EpochFits
<1>7. sessions' \in SUBSET keys /\ sess[k].at \in Workers /\ r.at \notin Workers /\ ~sess[k].stream
  BY <1>1, <1>3 DEF SessionIInv, SessionTypeOK, Workers, UsesFit, Done
<1> QED
  BY <1>1, <1>2, <1>3, <1>6, <1>7, WorkerMoves

-----------------------------------------------------------------------------
(* Requests and close, on a slot without a worker.                         *)

\* A slot whose session is gone, or through, has no stream and no use but a
\* selection's.
SlotIdle(s) == \A k \in Keys : sess[k].slot = s => sess[k].at \notin Holders \cup Workers
LEMMA IdleSlot ==
    ASSUME HlsAssumption, SessionIInv, NEW s \in Slots,
           slot[s].session = NoSession \/ Over(slot[s].session),
           busy[s].at \notin {"opening", "opened", "listed"}
    PROVE  SlotIdle(s)
<1>1. OwnersFit
  BY DEF SessionIInv
<1> SUFFICES ASSUME NEW k \in Keys, sess[k].slot = s
             PROVE  sess[k].at \notin Holders \cup Workers
  BY DEF SlotIdle
<1>2. CASE sess[k].at \in Workers
  <2>1. slot[s].session = k
    BY <1>1, <1>2 DEF OwnersFit
  <2>2. k # NoSession
    BY DEF HlsAssumption, NoSession
  <2> QED
    BY <1>2, <2>1, <2>2 DEF Over, Workers
<1>3. sess[k].at \notin Holders
  <2>1. SUFFICES ASSUME sess[k].at \in Holders PROVE FALSE
    OBVIOUS
  <2>2. busy[s].op = "start" /\ busy[s].at = sess[k].at /\ busy[s].key = k
    <3>1. busy[s] = [op |-> "start", at |-> sess[k].at, key |-> k]
      BY <1>1, <2>1 DEF OwnersFit
    <3> QED
      BY <3>1
  <2>3. sess[k].at = "begin"
    BY <2>1, <2>2 DEF Holders
  <2>4. sess[k].at = "none"
    BY <1>1, <2>2, <2>3 DEF OwnersFit, Holders
  <2> QED
    BY <2>3, <2>4
<1> QED
  BY <1>2, <1>3

LEMMA IdleUse ==
    ASSUME HlsAssumption, SessionIInv, NEW s \in Slots, SlotIdle(s)
    PROVE  /\ live[s] \in {"none", "selected"}
           /\ \A k \in Keys : sess[k].stream => sess[k].slot # s
<1>1. UsesFit /\ live[s] \in Keys \cup {"none", "selected"}
  BY DEF SessionIInv, SessionTypeOK
<1>2. \A k \in Keys : sess[k].stream => sess[k].slot # s
  BY <1>1 DEF UsesFit, SlotIdle, Holders, Workers
<1> QED
  BY <1>1, <1>2 DEF UsesFit

\* Close has not cleared a slot with a request, nor any before it begins.
LEMMA NotCleared ==
    ASSUME SessionIInv, NEW s \in Slots, busy[s] # Free \/ ~closed
    PROVE  closing.at = "none" \/ s \in closing.left
BY DEF SessionIInv, ClosingFits

LEMMA ClosingElsewhere ==
    ASSUME SessionIInv, NEW s \in Slots, UNCHANGED closing, closed => closed',
           closing.at = "none" \/ s \in closing.left, busy'[s].op = "close" => closing.at # "none",
           \A t \in Slots \ {s} : slot'[t] = slot[t] /\ busy'[t] = busy[t]
    PROVE  ClosingFits'
<1>1. ClosingFits /\ closing.at # "returned"
  BY DEF SessionIInv, ClosingFits
<1>2. closing.at # "none" => \A t \in Slots \ closing.left :
           busy'[t] = Free /\ slot'[t].selection = 0 /\ slot'[t].session = NoSession
  BY <1>1 DEF ClosingFits
<1>3. \A t \in Slots : busy'[t].op = "close" => closing.at # "none"
  BY <1>1 DEF ClosingFits
<1> QED
  BY <1>1, <1>2, <1>3, ClosingStays

\* Close has cleared a slot.
LEMMA SlotLeaves ==
    ASSUME SessionIInv, NEW s \in Slots, closing' = [closing EXCEPT !.left = @ \ {s}], UNCHANGED closed,
           closing.at = "none" => FALSE, closing.at = "returned" => FALSE,
           slot'[s].selection = 0, slot'[s].session = NoSession, busy'[s] = Free,
           \A t \in Slots \ {s} : slot'[t] = slot[t] /\ busy'[t] = busy[t]
    PROVE  ClosingFits'
BY DEF SessionIInv, ClosingFits

\* A step of a request, a selection's timer or close on a slot that is idle.
LEMMA SlotMoves ==
    ASSUME HlsAssumption, SessionIInv, NEW s \in Slots, SlotIdle(s),
           NEW b \in BusyRecords, NEW c \in SlotRecords, NEW l \in {"none", "selected"},
           UNCHANGED <<sess, sessions, closed, stopped>>,
           keys \subseteq keys', keys' \subseteq Keys, firing' \in SUBSET (Slots \X (1 .. MaxSelections)),
           busy' = [busy EXCEPT ![s] = b], slot' = [slot EXCEPT ![s] = c],
           live' = [live EXCEPT ![s] = l],
           b.at \in Holders => b.at = "begin" /\ b.key \in keys' \ keys,
           l = "selected" => c.selection # 0 \/ b.at \in {"selected", "reserving", "begin", "opening"},
           RequestFits(s)', ClosingFits'
    PROVE  SessionIInv'
<1>1. /\ slot \in [Slots -> SlotRecords] /\ busy \in [Slots -> BusyRecords]
      /\ live \in [Slots -> Keys \cup {"none", "selected"}] /\ sess \in [Keys -> SessionRecords]
      /\ keys \subseteq Keys /\ "none" \notin Keys /\ "selected" \notin Keys
  BY DEF SessionIInv, SessionTypeOK, HlsAssumption
<1>2. /\ slot'[s] = c /\ busy'[s] = b /\ live'[s] = l
      /\ \A t \in Slots \ {s} : slot'[t] = slot[t] /\ busy'[t] = busy[t] /\ live'[t] = live[t]
  BY <1>1
<1>3. SessionTypeOK'
  BY <1>1 DEF SessionIInv, SessionTypeOK
<1>4. RequestsFit'
  <2>1. \A t \in Slots \ {s} : RequestFits(t)'
    BY <1>2 DEF SessionIInv, RequestsFit, RequestFits
  <2> QED
    BY <2>1 DEF RequestsFit
<1>5. OwnersFit /\ UsesFit /\ \A k \in Keys : sess[k].stream => sess[k].slot # s
  BY IdleUse DEF SessionIInv
<1>6. OwnersFit'
  <2>1. ASSUME NEW t \in Slots, busy'[t].at \in Holders
        PROVE  /\ busy'[t].key \in keys'
               /\ sess[busy'[t].key].at = IF busy'[t].at = "begin" THEN "none" ELSE busy'[t].at
    <3>1. CASE t = s
      <4>1. b.at = "begin" /\ b.key \in Keys \ keys /\ b.key \in keys'
        BY <1>1, <1>2, <2>1, <3>1
      <4>2. sess[b.key].at = "none"
        BY <1>5, <4>1 DEF OwnersFit
      <4> QED
        BY <1>2, <3>1, <4>1, <4>2
    <3>2. CASE t # s
      BY <1>2, <1>5, <2>1, <3>2 DEF OwnersFit
    <3> QED
      BY <3>1, <3>2
  <2>2. ASSUME NEW t \in Slots, NEW u \in Slots \ {t}, busy'[t].at \in Holders, busy'[u].at \in Holders
        PROVE  busy'[u].key # busy'[t].key
    <3>1. CASE t = s
      BY <1>2, <1>5, <2>2, <3>1 DEF OwnersFit
    <3>2. CASE u = s
      BY <1>2, <1>5, <2>2, <3>2 DEF OwnersFit
    <3>3. CASE t # s /\ u # s
      BY <1>2, <1>5, <2>2, <3>3 DEF OwnersFit
    <3> QED
      BY <3>1, <3>2, <3>3
  <2>3. ASSUME NEW k \in Keys
        PROVE  /\ k \notin keys' => sess[k].at = "none"
               /\ sess[k].at \in Holders \cup Workers => sess[k].slot \in Slots
               /\ sess[k].at \in Holders =>
                     busy'[sess[k].slot] = [op |-> "start", at |-> sess[k].at, key |-> k]
               /\ sess[k].at \in Workers => slot'[sess[k].slot].session = k
    BY <1>2, <1>5 DEF OwnersFit, SlotIdle
  <2> QED
    BY <2>1, <2>2, <2>3 DEF OwnersFit
<1>7. UsesFit'
  BY <1>1, <1>2, <1>5 DEF UsesFit, Holders, Workers, OwnersFit
<1>8. EpochsFit'
  BY DEF SessionIInv, EpochsFit, EpochFits
<1> QED
  BY <1>3, <1>4, <1>6, <1>7, <1>8 DEF SessionIInv

LEMMA SlotShape ==
    ASSUME HlsAssumption, SessionIInv, NEW s \in Slots
    PROVE  /\ slot \in [Slots -> SlotRecords] /\ busy \in [Slots -> BusyRecords]
           /\ live \in [Slots -> Keys \cup {"none", "selected"}]
           /\ slot[s] \in SlotRecords /\ busy[s] \in BusyRecords /\ RequestFits(s)
           /\ keys \subseteq Keys /\ firing \in SUBSET (Slots \X (1 .. MaxSelections))
           /\ NoSession \notin Keys /\ MaxSelections \in Nat
           /\ Free \in BusyRecords /\ Free.op = "none" /\ Free.at = "none" /\ Free.key = NoSession
<1>1. Free \in BusyRecords /\ Free.op = "none" /\ Free.at = "none" /\ Free.key = NoSession
  BY DEF Free, BusyRecords
<1> QED
  BY <1>1 DEF SessionIInv, SessionTypeOK, RequestsFit, HlsAssumption, NoSession

\* What GoTo makes of the lock's holder.
LEMMA GoToIs ==
    ASSUME HlsAssumption, SessionIInv, NEW s \in Slots,
           NEW label \in {"stopping"} \cup StartPlaces \cup SelectPlaces, GoTo(s, label)
    PROVE  \E b \in BusyRecords : /\ busy' = [busy EXCEPT ![s] = b]
                                  /\ b.op = busy[s].op /\ b.at = label /\ b.key = busy[s].key
<1> DEFINE b == [busy[s] EXCEPT !.at = label]
<1>1. busy' = [busy EXCEPT ![s] = b]
  BY SlotShape DEF GoTo
<1>2. b \in BusyRecords /\ b.op = busy[s].op /\ b.at = label /\ b.key = busy[s].key
  BY SlotShape DEF BusyRecords
<1> QED
  BY <1>1, <1>2

\* A slot is cleared, and its lock released or the selection goes on.
LEMMA ClearedKeeps ==
    ASSUME HlsAssumption, SessionIInv, NEW s \in Slots, SlotIdle(s), Cleared(s), NEW b \in BusyRecords,
           busy[s].at \notin {"selected", "reserving", "begin", "opening"},
           UNCHANGED <<sess, firing, keys, sessions, closed, stopped>>,
           busy' = [busy EXCEPT ![s] = b], b = Free \/ (b.op = "select" /\ b.at = "selecting"), ClosingFits'
    PROVE  SessionIInv'
<1> DEFINE c == [slot[s] EXCEPT !.selection = 0, !.session = NoSession]
<1>1. slot' = [slot EXCEPT ![s] = c]
  BY SlotShape DEF Cleared
<1>2. c \in SlotRecords /\ c.selection = 0 /\ c.session = NoSession /\ c.made \in Nat
  <2>1. /\ 0 \in 0 .. MaxSelections /\ NoSession \in Keys \cup {NoSession} /\ slot[s] \in SlotRecords
        /\ \A n \in 0 .. MaxSelections : n \in Nat
    BY SlotShape
  <2>2. c \in SlotRecords /\ c.selection = 0 /\ c.session = NoSession
    BY <2>1 DEF SlotRecords
  <2>3. c.made = slot[s].made /\ slot[s].made \in 0 .. MaxSelections
    BY <2>1 DEF SlotRecords
  <2> QED
    BY <2>1, <2>2, <2>3
<1> HIDE DEF c
<1>3. live' = [live EXCEPT ![s] = "none"]
  <2>1. CASE slot[s].selection # 0 \/ slot[s].session # NoSession
    BY <2>1 DEF Cleared, LiveClosed
  <2>2. CASE slot[s].selection = 0 /\ slot[s].session = NoSession
    <3>1. live[s] = "none"
      BY <2>2, IdleUse DEF SessionIInv, UsesFit
    <3> QED
      BY <2>2, <3>1, SlotShape DEF Cleared
  <2> QED
    BY <2>1, <2>2
<1>4. slot'[s] = c /\ busy'[s] = b
  BY <1>1, SlotShape
<1>5. RequestFits(s)'
  <2>1. CASE b = Free
    BY <1>2, <1>4, <2>1, SlotShape DEF RequestFits, StartPlaces
  <2>2. CASE b.op = "select" /\ b.at = "selecting"
    BY <1>2, <1>4, <2>2, SlotShape DEF RequestFits, StartPlaces, SelectPlaces
  <2> QED
    BY <2>1, <2>2
<1>6. b.at \notin Holders
  BY SlotShape DEF Holders
<1>7. keys \subseteq keys' /\ keys' \subseteq Keys /\ firing' \in SUBSET (Slots \X (1 .. MaxSelections))
  BY SlotShape
<1> QED
  BY <1>1, <1>2, <1>3, <1>5, <1>6, <1>7, SlotMoves

LEMMA SelectStoppedKeeps ==
    ASSUME HlsAssumption, SessionIInv, NEW s \in Slots, SelectStopped(s)
    PROVE  SessionIInv'
<1>1. /\ busy[s].op = "select" /\ busy[s].at = "stopping" /\ Over(slot[s].session)
      /\ Cleared(s) /\ GoTo(s, "selecting") /\ UNCHANGED sess /\ Kept
  BY DEF SelectStopped, At
<1>2. SlotIdle(s)
  BY <1>1, IdleSlot
<1>3. PICK b \in BusyRecords : /\ busy' = [busy EXCEPT ![s] = b]
                               /\ b.op = "select" /\ b.at = "selecting"
  BY <1>1, GoToIs DEF SelectPlaces
<1>4. ClosingFits'
  <2>1. closing.at = "none" \/ s \in closing.left
    BY <1>1, SlotShape, NotCleared
  <2>2. \A t \in Slots \ {s} : slot'[t] = slot[t] /\ busy'[t] = busy[t]
    BY <1>1, <1>3, SlotShape DEF Cleared
  <2>3. busy'[s].op # "close"
    BY <1>3, SlotShape
  <2> QED
    BY <1>1, <2>1, <2>2, <2>3, ClosingElsewhere DEF Kept
<1> QED
  BY <1>1, <1>2, <1>3, <1>4, ClearedKeeps DEF Kept

LEMMA CloseStoppedKeeps ==
    ASSUME HlsAssumption, SessionIInv, NEW s \in Slots, CloseStopped(s)
    PROVE  SessionIInv'
<1>1. /\ busy[s].op = "close" /\ busy[s].at = "stopping" /\ Over(slot[s].session)
      /\ Cleared(s) /\ busy' = [busy EXCEPT ![s] = Free]
      /\ closing' = [closing EXCEPT !.left = @ \ {s}]
      /\ UNCHANGED <<sess, firing, keys, sessions, closed, stopped>>
  BY DEF CloseStopped, At, Return
<1>2. SlotIdle(s)
  BY <1>1, IdleSlot
<1>3. slot'[s].selection = 0 /\ slot'[s].session = NoSession /\ busy'[s] = Free
  BY <1>1, SlotShape DEF Cleared, SlotRecords
<1>4. \A t \in Slots \ {s} : slot'[t] = slot[t] /\ busy'[t] = busy[t]
  BY <1>1, SlotShape DEF Cleared
<1>5. ClosingFits'
  <2>1. closing.at # "none" /\ closing.at # "returned"
    <3>1. s \in closing.left /\ closing.at # "none"
      BY <1>1, SlotShape, NotCleared DEF SessionIInv, ClosingFits
    <3> QED
      BY <3>1 DEF SessionIInv, ClosingFits
  <2> QED
    BY <1>1, <1>3, <1>4, <2>1, SlotLeaves
<1> QED
  BY <1>1, <1>2, <1>5, SlotShape, ClearedKeeps

\* A request ends and closes what the live manager has for it.
LEMMA RefusalKeeps ==
    ASSUME HlsAssumption, SessionIInv, NEW s \in Slots, UNCHANGED <<slot, sess, keys, sessions>>,
           UNCHANGED <<firing, closed, closing, stopped>>,
           busy[s].at \in {"selecting", "selected", "reserving", "begin"},
           live' = LiveClosed(s), Return(s)
    PROVE  SessionIInv'
<1>1. slot[s].selection = 0 /\ slot[s].session = NoSession /\ busy[s] # Free
  BY SlotShape DEF RequestFits
<1>2. SlotIdle(s)
  BY <1>1, IdleSlot
<1>3. slot' = [slot EXCEPT ![s] = slot[s]] /\ live' = [live EXCEPT ![s] = "none"] /\ busy' = [busy EXCEPT ![s] = Free]
  BY SlotShape DEF LiveClosed, Return
<1>4. busy'[s] = Free /\ \A t \in Slots \ {s} : slot'[t] = slot[t] /\ busy'[t] = busy[t]
  BY <1>3, SlotShape
<1>5. ClosingFits'
  BY <1>1, <1>4, SlotShape, NotCleared, ClosingElsewhere
<1>6. RequestFits(s)'
  BY <1>1, <1>4, SlotShape DEF RequestFits, StartPlaces
<1>7. Free.at \notin Holders /\ keys \subseteq keys' /\ keys' \subseteq Keys
      /\ firing' \in SUBSET (Slots \X (1 .. MaxSelections))
  BY SlotShape DEF Holders
<1> QED
  BY <1>2, <1>3, <1>5, <1>6, <1>7, SlotShape, SlotMoves

\* The selection of a slot changes while the request goes on or ends.
LEMMA SelectionKeeps ==
    ASSUME HlsAssumption, SessionIInv, NEW s \in Slots, NEW c \in SlotRecords, NEW b \in BusyRecords,
           NEW l \in {"none", "selected"},
           UNCHANGED <<sess, keys, sessions, closed, closing, stopped>>,
           firing' \in SUBSET (Slots \X (1 .. MaxSelections)),
           slot[s].session = NoSession, busy[s].at \notin {"opening", "opened", "listed"},
           busy' = [busy EXCEPT ![s] = b], slot' = [slot EXCEPT ![s] = c], live' = [live EXCEPT ![s] = l],
           c.session = NoSession, c.selection =< c.made,
           \/ b = Free
           \/ b.op = "select" /\ b.at = "selected" /\ c.selection = 0
           \/ b.op = "select" /\ b.at = "remembered" /\ c.selection # 0
           \/ b.op = "start" /\ b.at = "reserving" /\ c.selection = 0 /\ b.key \in Keys,
           l = "selected" => c.selection # 0 \/ b.at \in {"selected", "reserving"},
           ClosingFits'
    PROVE  SessionIInv'
<1>1. slot'[s] = c /\ busy'[s] = b
  BY SlotShape
<1>2. RequestFits(s)'
  <2>1. CASE b = Free
    BY <1>1, <2>1, SlotShape DEF RequestFits, StartPlaces
  <2>2. CASE b.op = "select"
    BY <1>1, <2>2, SlotShape DEF RequestFits, StartPlaces, SelectPlaces
  <2>3. CASE b.op = "start"
    BY <1>1, <2>3, SlotShape DEF RequestFits, StartPlaces, SelectPlaces
  <2> QED
    BY <2>1, <2>2, <2>3
<1>3. SlotIdle(s)
  BY IdleSlot
<1>4. b.at \notin Holders
  BY SlotShape DEF Holders
<1>5. keys \subseteq keys' /\ keys' \subseteq Keys
  BY SlotShape
<1> QED
  BY <1>2, <1>3, <1>4, <1>5, SlotMoves

LEMMA LiveSelectKeeps ==
    ASSUME HlsAssumption, SessionIInv, NEW s \in Slots, LiveSelect(s)
    PROVE  SessionIInv'
<1>1. /\ busy[s].op = "select" /\ busy[s].at = "selecting"
      /\ UNCHANGED <<slot, sess, keys, sessions>> /\ UNCHANGED <<firing, closed, closing, stopped>>
  BY DEF LiveSelect, At, Kept
<1>2. CASE live' = LiveClosed(s) /\ Return(s)
  BY <1>1, <1>2, RefusalKeeps
<1>3. CASE live' = [live EXCEPT ![s] = "selected"] /\ GoTo(s, "selected")
  <2>1. PICK b \in BusyRecords : /\ busy' = [busy EXCEPT ![s] = b]
                                 /\ b.op = "select" /\ b.at = "selected"
    BY <1>1, <1>3, GoToIs DEF SelectPlaces
  <2>2. /\ slot[s].selection = 0 /\ slot[s].session = NoSession /\ slot[s].selection =< slot[s].made
        /\ busy[s] # Free /\ slot' = [slot EXCEPT ![s] = slot[s]]
    BY <1>1, SlotShape DEF RequestFits
  <2>3. busy'[s] = b /\ \A t \in Slots \ {s} : slot'[t] = slot[t] /\ busy'[t] = busy[t]
    BY <1>1, <2>1, SlotShape
  <2>4. ClosingFits'
    BY <1>1, <2>1, <2>2, <2>3, NotCleared, ClosingElsewhere
  <2>5. slot[s] \in SlotRecords /\ firing' \in SUBSET (Slots \X (1 .. MaxSelections))
    BY <1>1, SlotShape
  <2> QED
    BY <1>1, <1>3, <2>1, <2>2, <2>4, <2>5, SelectionKeeps
<1> QED
  BY <1>2, <1>3 DEF LiveSelect

LEMMA RememberKeeps ==
    ASSUME HlsAssumption, SessionIInv, NEW s \in Slots, Remember(s)
    PROVE  SessionIInv'
<1>1. /\ busy[s].op = "select" /\ busy[s].at = "selected"
      /\ UNCHANGED <<sess, keys, sessions>> /\ UNCHANGED <<firing, closed, closing, stopped>>
  BY DEF Remember, At, Kept
<1>2. CASE live' = LiveClosed(s) /\ Return(s) /\ UNCHANGED slot
  BY <1>1, <1>2, RefusalKeeps
<1>3. CASE /\ slot[s].made < MaxSelections
           /\ slot' = [slot EXCEPT ![s].selection = slot[s].made + 1, ![s].made = @ + 1]
           /\ GoTo(s, "remembered") /\ UNCHANGED live
  <2>1. PICK b \in BusyRecords : /\ busy' = [busy EXCEPT ![s] = b]
                                 /\ b.op = "select" /\ b.at = "remembered"
    BY <1>1, <1>3, GoToIs DEF SelectPlaces
  <2>2. /\ slot[s].session = NoSession /\ busy[s] # Free /\ slot[s].made \in Nat
        /\ slot[s].made + 1 \in 0 .. MaxSelections
    <3>1. slot[s].made \in 0 .. MaxSelections
      BY SlotShape DEF SlotRecords
    <3> QED
      BY <1>1, <1>3, <3>1, SlotShape DEF RequestFits
  <2> DEFINE c == [slot[s] EXCEPT !.selection = slot[s].made + 1, !.made = slot[s].made + 1]
  <2>3. slot' = [slot EXCEPT ![s] = c]
    BY <1>3, SlotShape
  <2>4. c \in SlotRecords /\ c.selection = slot[s].made + 1 /\ c.made = slot[s].made + 1 /\ c.session = NoSession
    BY <2>2, SlotShape DEF SlotRecords
  <2> HIDE DEF c
  <2>5. c.selection # 0 /\ c.selection =< c.made
    BY <2>2, <2>4
  <2>6. busy'[s] = b /\ \A t \in Slots \ {s} : slot'[t] = slot[t] /\ busy'[t] = busy[t]
    BY <2>1, <2>3, SlotShape
  <2>7. ClosingFits'
    BY <1>1, <2>1, <2>2, <2>6, NotCleared, ClosingElsewhere
  <2>8. live[s] \in {"none", "selected"} /\ live' = [live EXCEPT ![s] = live[s]]
    <3>1. SlotIdle(s)
      BY <1>1, <2>2, IdleSlot
    <3> QED
      BY <1>3, <3>1, IdleUse, SlotShape
  <2>9. firing' \in SUBSET (Slots \X (1 .. MaxSelections))
    BY <1>1, SlotShape
  <2> QED
    BY <1>1, <2>1, <2>2, <2>3, <2>4, <2>5, <2>7, <2>8, <2>9, SelectionKeeps
<1> QED
  BY <1>2, <1>3 DEF Remember

LEMMA SelectedKeeps ==
    ASSUME HlsAssumption, SessionIInv, NEW s \in Slots, Selected(s)
    PROVE  SessionIInv'
<1>1. /\ busy[s].op = "select" /\ busy[s].at = "remembered" /\ busy' = [busy EXCEPT ![s] = Free]
      /\ UNCHANGED <<sess, keys, sessions>> /\ UNCHANGED <<firing, closed, closing, stopped>>
  BY DEF Selected, At, Kept, Return
<1>2. slot[s].selection # 0 /\ slot[s].session = NoSession /\ slot[s].selection =< slot[s].made /\ busy[s] # Free
  BY <1>1, SlotShape DEF RequestFits
<1>3. SlotIdle(s)
  BY <1>1, <1>2, IdleSlot
<1>4. \A t \in Slots \ {s} : slot'[t] = slot[t] /\ busy'[t] = busy[t]
  BY <1>1, SlotShape DEF Selected, Cleared
<1>5. busy'[s].op # "close"
  BY <1>1, SlotShape
<1>6. ClosingFits'
  BY <1>1, <1>2, <1>4, <1>5, NotCleared, ClosingElsewhere
<1>7. CASE Cleared(s)
  BY <1>1, <1>3, <1>6, <1>7, SlotShape, ClearedKeeps
<1>8. CASE UNCHANGED <<slot, live>>
  <2>1. slot' = [slot EXCEPT ![s] = slot[s]] /\ live' = [live EXCEPT ![s] = live[s]]
    BY <1>8, SlotShape
  <2>2. live[s] \in {"none", "selected"}
    BY <1>3, IdleUse
  <2>3. slot[s] \in SlotRecords /\ Free \in BusyRecords /\ firing' \in SUBSET (Slots \X (1 .. MaxSelections))
    BY <1>1, SlotShape
  <2> QED
    BY <1>1, <1>2, <1>6, <2>1, <2>2, <2>3, SelectionKeeps
<1> QED
  BY <1>7, <1>8 DEF Selected

LEMMA StartStoppedKeeps ==
    ASSUME HlsAssumption, SessionIInv, NEW s \in Slots, StartStopped(s)
    PROVE  SessionIInv'
<1>1. /\ busy[s].op = "start" /\ busy[s].at = "stopping" /\ Over(slot[s].session)
      /\ busy' = [busy EXCEPT ![s] = Free]
      /\ slot' = [slot EXCEPT ![s].session = NoSession] /\ live' = LiveClosed(s)
      /\ UNCHANGED <<sess, keys, sessions>> /\ UNCHANGED <<firing, closed, closing, stopped>>
  BY DEF StartStopped, At, Kept, Return
<1>2. slot[s].session # NoSession /\ slot[s].selection = 0 /\ busy[s] # Free
  BY <1>1, SlotShape DEF RequestFits
<1>3. SlotIdle(s)
  BY <1>1, IdleSlot
<1>4. Cleared(s)
  <2>1. [slot[s] EXCEPT !.session = NoSession] = [slot[s] EXCEPT !.selection = 0, !.session = NoSession]
    BY <1>2, SlotShape DEF SlotRecords
  <2> QED
    BY <1>1, <1>2, <2>1, SlotShape DEF Cleared
<1>5. \A t \in Slots \ {s} : slot'[t] = slot[t] /\ busy'[t] = busy[t]
  BY <1>1, SlotShape
<1>6. busy'[s].op # "close"
  BY <1>1, SlotShape
<1>7. ClosingFits'
  BY <1>1, <1>2, <1>5, <1>6, NotCleared, ClosingElsewhere
<1> QED
  BY <1>1, <1>3, <1>4, <1>7, SlotShape, ClearedKeeps

LEMMA ReserveKeyKeeps ==
    ASSUME HlsAssumption, SessionIInv, NEW s \in Slots, ReserveKey(s)
    PROVE  SessionIInv'
<1>1. /\ busy[s].op = "start" /\ busy[s].at = "reserving"
      /\ UNCHANGED <<slot, sess, sessions>> /\ UNCHANGED <<firing, closed, closing, stopped>>
  BY DEF ReserveKey, At
<1>2. CASE live' = LiveClosed(s) /\ Return(s) /\ UNCHANGED keys
  BY <1>1, <1>2, RefusalKeeps
<1>3. CASE busy[s].key \notin keys /\ keys' = keys \cup {busy[s].key} /\ GoTo(s, "begin") /\ UNCHANGED live
  <2>1. PICK b \in BusyRecords : /\ busy' = [busy EXCEPT ![s] = b]
                                 /\ b.op = "start" /\ b.at = "begin" /\ b.key = busy[s].key
    BY <1>1, <1>3, GoToIs DEF StartPlaces
  <2>2. /\ slot[s].selection = 0 /\ slot[s].session = NoSession /\ slot[s].selection =< slot[s].made
        /\ busy[s] # Free /\ slot' = [slot EXCEPT ![s] = slot[s]] /\ busy[s].key \in Keys
    BY <1>1, SlotShape DEF RequestFits, StartPlaces
  <2>3. SlotIdle(s)
    BY <1>1, <2>2, IdleSlot
  <2>4. live[s] \in {"none", "selected"} /\ live' = [live EXCEPT ![s] = live[s]]
    BY <1>3, <2>3, IdleUse, SlotShape
  <2>5. busy'[s] = b /\ slot'[s] = slot[s] /\ \A t \in Slots \ {s} : slot'[t] = slot[t] /\ busy'[t] = busy[t]
    BY <1>1, <2>1, SlotShape
  <2>6. RequestFits(s)'
    BY <2>1, <2>2, <2>5 DEF RequestFits, StartPlaces
  <2>7. ClosingFits'
    BY <1>1, <2>1, <2>2, <2>5, NotCleared, ClosingElsewhere
  <2>8. /\ keys \subseteq keys' /\ keys' \subseteq Keys /\ slot[s] \in SlotRecords
        /\ firing' \in SUBSET (Slots \X (1 .. MaxSelections)) /\ b.key \in keys' \ keys
    BY <1>1, <1>3, <2>1, <2>2, SlotShape
  <2> QED
    BY <1>1, <2>1, <2>2, <2>3, <2>4, <2>6, <2>7, <2>8, SlotMoves
<1> QED
  BY <1>2, <1>3 DEF ReserveKey

LEMMA SelectionTimerKeeps ==
    ASSUME HlsAssumption, SessionIInv, NEW s \in Slots, SelectionTimer(s)
    PROVE  SessionIInv'
<1>1. /\ slot[s].selection # 0 /\ firing' = firing \cup {<<s, slot[s].selection>>}
      /\ UNCHANGED <<slot, busy, sess, live, keys, sessions, closed, closing, stopped>>
  BY DEF SelectionTimer
<1>2. slot[s].selection \in 1 .. MaxSelections
  BY <1>1, SlotShape DEF SlotRecords
<1>3. firing' \in SUBSET (Slots \X (1 .. MaxSelections))
  BY <1>1, <1>2, SlotShape
<1>4. ClosingFits'
  BY <1>1, ReturnedIsQuiet, SlotsKept
<1> QED
  BY <1>1, <1>3, <1>4 DEF SessionIInv, SessionTypeOK, RequestsFit, RequestFits, OwnersFit, UsesFit, EpochsFit, EpochFits

LEMMA LiveExpiresKeeps ==
    ASSUME HlsAssumption, SessionIInv, NEW s \in Slots, LiveExpires(s)
    PROVE  SessionIInv'
<1>1. /\ live[s] = "selected" /\ live' = [live EXCEPT ![s] = "none"]
      /\ UNCHANGED <<slot, busy, sess, firing, keys, sessions, closed, closing, stopped>>
  BY DEF LiveExpires, LiveClosed
<1>2. /\ live \in [Slots -> Keys \cup {"none", "selected"}] /\ "none" \notin Keys /\ "selected" \notin Keys
  BY DEF SessionIInv, SessionTypeOK, HlsAssumption
<1>3. live'[s] = "none" /\ \A t \in Slots \ {s} : live'[t] = live[t]
  BY <1>1, <1>2
<1>4. UsesFit'
  BY <1>1, <1>2, <1>3 DEF SessionIInv, UsesFit, OwnersFit, Holders, Workers
<1>5. ClosingFits'
  BY <1>1, ReturnedIsQuiet, SlotsKept DEF QuietKey
<1>6. SessionTypeOK'
  BY <1>1 DEF SessionIInv, SessionTypeOK
<1> QED
  BY <1>1, <1>4, <1>5, <1>6 DEF SessionIInv, RequestsFit, RequestFits, OwnersFit, EpochsFit, EpochFits

LEMMA ExpireKeeps ==
    ASSUME HlsAssumption, SessionIInv, NEW s \in Slots, NEW n \in 1 .. MaxSelections, Expire(s, n)
    PROVE  SessionIInv'
<1>1. /\ busy[s] = Free /\ <<s, n>> \in firing /\ firing' = firing \ {<<s, n>>} /\ n # 0
      /\ UNCHANGED <<busy, sess, keys, sessions, closed, closing, stopped>>
  BY SlotShape DEF Expire
<1>2. firing' \in SUBSET (Slots \X (1 .. MaxSelections)) /\ closing.at # "returned"
  BY <1>1, SlotShape, ReturnedIsQuiet
<1>3. CASE slot[s].selection = n /\ slot' = [slot EXCEPT ![s].selection = 0] /\ live' = LiveClosed(s)
  <2> DEFINE c == [slot[s] EXCEPT !.selection = 0]
  <2>1. slot' = [slot EXCEPT ![s] = c] /\ live' = [live EXCEPT ![s] = "none"] /\ busy' = [busy EXCEPT ![s] = Free]
    BY <1>1, <1>3, SlotShape DEF LiveClosed
  <2>2. c \in SlotRecords /\ c.selection = 0 /\ c.session = slot[s].session /\ c.selection =< c.made
    <3>1. 0 \in 0 .. MaxSelections /\ slot[s] \in SlotRecords
      BY SlotShape
    <3>2. c \in SlotRecords /\ c.selection = 0 /\ c.session = slot[s].session /\ c.made = slot[s].made
      BY <3>1 DEF SlotRecords
    <3>3. slot[s].made \in 0 .. MaxSelections
      BY <3>1 DEF SlotRecords
    <3> QED
      BY <3>2, <3>3, SlotShape
  <2> HIDE DEF c
  <2>3. slot[s].session = NoSession
    BY <1>1, <1>3, SlotShape DEF RequestFits
  <2>4. slot'[s] = c /\ \A t \in Slots \ {s} : slot'[t] = slot[t]
    BY <2>1, SlotShape
  <2>5. ClosingFits'
    <3>1. closing.at # "none" => \A t \in Slots \ closing.left :
             busy'[t] = Free /\ slot'[t].selection = 0 /\ slot'[t].session = NoSession
      BY <1>1, <2>2, <2>3, <2>4 DEF SessionIInv, ClosingFits
    <3>2. \A t \in Slots : busy'[t].op = "close" => closing.at # "none"
      BY <1>1 DEF SessionIInv, ClosingFits
    <3> QED
      BY <1>1, <1>2, <3>1, <3>2, ClosingStays
  <2> QED
    BY <1>1, <1>2, <2>1, <2>2, <2>3, <2>5, SlotShape, SelectionKeeps
<1>4. CASE UNCHANGED <<slot, live>>
  <2>1. ClosingFits'
    BY <1>1, <1>2, <1>4, SlotsKept
  <2> QED
    BY <1>1, <1>2, <1>4, <2>1 DEF SessionIInv, SessionTypeOK, RequestsFit, RequestFits, OwnersFit, UsesFit, EpochsFit, EpochFits
<1> QED
  BY <1>3, <1>4 DEF Expire

\* Whoever takes a slot with a session stops that session first.
LEMMA StopSessionKeeps ==
    ASSUME HlsAssumption, SessionIInv, NEW s \in Slots, NEW op \in {"select", "start", "close"},
           NEW k \in Keys \cup {NoSession}, StopSession(s, op, k),
           busy[s] = Free, slot[s].session # NoSession,
           closing.at = "none" \/ s \in closing.left, op = "close" => closing.at # "none"
    PROVE  SessionIInv'
<1>1. PICK q \in Keys : q = slot[s].session
  BY SlotShape DEF SlotRecords
<1>2. /\ busy' = [busy EXCEPT ![s] = [op |-> op, at |-> "stopping", key |-> k]]
      /\ sess' = Stop(q) /\ live' = StreamGone(q)
      /\ UNCHANGED <<slot, firing, keys, sessions, closed, closing, stopped>>
  BY <1>1 DEF StopSession
<1>3. /\ busy' \in [Slots -> BusyRecords] /\ busy'[s] = [op |-> op, at |-> "stopping", key |-> k]
      /\ \A t \in Slots \ {s} : busy'[t] = busy[t]
  <2>1. [op |-> op, at |-> "stopping", key |-> k] \in BusyRecords
    BY DEF BusyRecords
  <2> QED
    BY <1>2, <2>1, SlotShape
<1>4. /\ sess' \in [Keys -> SessionRecords] /\ sess'[q].stream = FALSE
      /\ sess'[q].at = sess[q].at /\ sess'[q].slot = sess[q].slot
      /\ sess'[q].terminal = sess[q].terminal /\ sess'[q].epoch = sess[q].epoch
      /\ sess'[q].idle = sess[q].idle /\ sess'[q].idleFiring = sess[q].idleFiring
      /\ sess'[q].silent = sess[q].silent
      /\ \A j \in Keys \ {q} : sess'[j] = sess[j]
  <2> DEFINE r == StoppedRecord(q)
  <2>1. /\ sess' = [sess EXCEPT ![q] = r] /\ r \in SessionRecords /\ r.stream = FALSE
        /\ r.at = sess[q].at /\ r.slot = sess[q].slot
        /\ r.terminal = sess[q].terminal /\ r.epoch = sess[q].epoch /\ r.idle = sess[q].idle
        /\ r.idleFiring = sess[q].idleFiring /\ r.silent = sess[q].silent
    BY <1>2, StopIs
  <2> HIDE DEF r
  <2>2. sess \in [Keys -> SessionRecords]
    BY RecordShape
  <2> QED
    BY <2>1, <2>2
<1>5. \A j \in Keys : sess'[j].at = sess[j].at /\ sess'[j].slot = sess[j].slot
  BY <1>4
<1>6. UsesFit' /\ live' \in [Slots -> Keys \cup {"none", "selected"}]
  <2>1. \A t \in Slots : live[t] = "selected" =>
               \/ slot'[t].selection # 0
               \/ busy'[t].at \in {"selected", "reserving", "begin", "opening"}
    BY <1>2, <1>3, SlotShape DEF SessionIInv, UsesFit
  <2> QED
    BY <1>1, <1>2, <1>4, <2>1, StreamCloses
<1>7. SessionTypeOK'
  BY <1>2, <1>3, <1>4, <1>6 DEF SessionIInv, SessionTypeOK
<1>8. RequestsFit'
  <2>1. RequestFits(s)'
    BY <1>1, <1>2, <1>3, SlotShape DEF RequestFits, StartPlaces, SelectPlaces
  <2>2. \A t \in Slots \ {s} : RequestFits(t)'
    BY <1>2, <1>3 DEF SessionIInv, RequestsFit, RequestFits
  <2> QED
    BY <2>1, <2>2 DEF RequestsFit
<1>9. OwnersFit'
  <2>1. OwnersFit /\ keys \subseteq Keys /\ busy[s].at \notin Holders /\ busy'[s].at \notin Holders
    BY <1>3, SlotShape DEF SessionIInv, Holders
  <2>2. \A t \in Slots : busy'[t].at \in Holders => busy'[t] = busy[t] /\ busy[t].at \in Holders
    BY <1>3, <2>1
  <2>3. ASSUME NEW j \in Keys
        PROVE  /\ j \notin keys' => sess'[j].at = "none"
               /\ sess'[j].at \in Holders \cup Workers => sess'[j].slot \in Slots
               /\ sess'[j].at \in Holders =>
                     busy'[sess'[j].slot] = [op |-> "start", at |-> sess'[j].at, key |-> j]
               /\ sess'[j].at \in Workers => slot'[sess'[j].slot].session = j
    BY <1>2, <1>3, <1>5, <2>1 DEF OwnersFit
  <2>4. ASSUME NEW t \in Slots, busy'[t].at \in Holders
        PROVE  /\ busy'[t].key \in keys'
               /\ sess'[busy'[t].key].at = IF busy'[t].at = "begin" THEN "none" ELSE busy'[t].at
               /\ \A u \in Slots \ {t} : busy'[u].at \in Holders => busy'[u].key # busy'[t].key
    BY <1>2, <1>5, <2>1, <2>2, <2>4 DEF OwnersFit
  <2> QED
    BY <2>3, <2>4 DEF OwnersFit
<1>10. EpochsFit'
  <2>1. EpochFits(q)'
    <3>1. EpochFits(q)
      BY <1>1, RecordShape
    <3> QED
      BY <1>4, <1>5, <3>1 DEF EpochFits
  <2>2. \A j \in Keys \ {q} : EpochFits(j)'
    BY <1>4 DEF SessionIInv, EpochsFit, EpochFits
  <2> QED
    BY <2>1, <2>2 DEF EpochsFit
<1>11. ClosingFits'
  <2>1. busy'[s].op = "close" => closing.at # "none"
    BY <1>3
  <2>2. \A t \in Slots \ {s} : slot'[t] = slot[t] /\ busy'[t] = busy[t]
    BY <1>2, <1>3
  <2> QED
    BY <1>2, <2>1, <2>2, ClosingElsewhere
<1> QED
  BY <1>6, <1>7, <1>8, <1>9, <1>10, <1>11 DEF SessionIInv

LEMMA SelectStartKeeps ==
    ASSUME HlsAssumption, SessionIInv, NEW s \in Slots, SelectStart(s)
    PROVE  SessionIInv'
<1>1. busy[s] = Free /\ ~closed /\ closing.at = "none"
  BY DEF SelectStart, SessionIInv, ClosingFits
<1>2. CASE slot[s].session # NoSession
  BY <1>1, <1>2, StopSessionKeeps DEF SelectStart
<1>3. CASE slot[s].session = NoSession
  <2> DEFINE b == [op |-> "select", at |-> "selecting", key |-> NoSession]
  <2>1. busy' = [busy EXCEPT ![s] = b] /\ Cleared(s) /\ UNCHANGED <<sess, firing, keys, sessions, closed, closing, stopped>>
    BY <1>3 DEF SelectStart, Kept
  <2>2. b \in BusyRecords /\ b.op = "select" /\ b.at = "selecting"
    BY DEF BusyRecords, SelectPlaces
  <2> HIDE DEF b
  <2>3. SlotIdle(s)
    BY <1>1, <1>3, SlotShape, IdleSlot
  <2>4. busy'[s] = b /\ \A t \in Slots \ {s} : slot'[t] = slot[t] /\ busy'[t] = busy[t]
    BY <2>1, SlotShape DEF Cleared
  <2>5. ClosingFits'
    BY <1>1, <2>1, <2>2, <2>4, ClosingElsewhere
  <2> QED
    BY <1>1, <2>1, <2>2, <2>3, <2>5, SlotShape, ClearedKeeps
<1> QED
  BY <1>2, <1>3

LEMMA StartKeeps ==
    ASSUME HlsAssumption, SessionIInv, NEW s \in Slots, NEW k \in Keys, Start(s, k)
    PROVE  SessionIInv'
<1>1. busy[s] = Free /\ ~closed /\ closing.at = "none"
  BY DEF Start, SessionIInv, ClosingFits
<1>2. CASE slot[s].session # NoSession
  BY <1>1, <1>2, StopSessionKeeps DEF Start
<1>3. CASE slot[s].session = NoSession
  <2> DEFINE b == [op |-> "start", at |-> "reserving", key |-> k]
             c == [slot[s] EXCEPT !.selection = 0]
  <2>1. /\ busy' = [busy EXCEPT ![s] = b]
        /\ UNCHANGED <<sess, live, firing, keys, sessions, closed, closing, stopped>>
    BY <1>3 DEF Start, Kept
  <2>2. slot' = [slot EXCEPT ![s] = c]
    BY <1>3, SlotShape DEF Start
  <2>3. b \in BusyRecords /\ b.op = "start" /\ b.at = "reserving" /\ b.key = k
    BY DEF BusyRecords, StartPlaces
  <2>4. c \in SlotRecords /\ c.selection = 0 /\ c.session = NoSession /\ c.selection =< c.made
    <3>1. 0 \in 0 .. MaxSelections /\ slot[s] \in SlotRecords
      BY SlotShape
    <3>2. c \in SlotRecords /\ c.selection = 0 /\ c.session = NoSession /\ c.made = slot[s].made
      BY <1>3, <3>1 DEF SlotRecords
    <3>3. slot[s].made \in 0 .. MaxSelections
      BY <3>1 DEF SlotRecords
    <3> QED
      BY <3>2, <3>3, SlotShape
  <2> HIDE DEF b, c
  <2>5. SlotIdle(s)
    BY <1>1, <1>3, SlotShape, IdleSlot
  <2>6. live[s] \in {"none", "selected"} /\ live' = [live EXCEPT ![s] = live[s]]
    BY <2>1, <2>5, IdleUse, SlotShape
  <2>7. busy'[s] = b /\ \A t \in Slots \ {s} : slot'[t] = slot[t] /\ busy'[t] = busy[t]
    BY <2>1, <2>2, SlotShape
  <2>8. ClosingFits'
    BY <1>1, <2>1, <2>3, <2>7, ClosingElsewhere
  <2>9. firing' \in SUBSET (Slots \X (1 .. MaxSelections))
    BY <2>1, SlotShape
  <2> QED
    BY ZenonT(60), <1>1, <1>3, <2>1, <2>2, <2>3, <2>4, <2>6, <2>8, <2>9, SlotShape, SelectionKeeps
<1> QED
  BY <1>2, <1>3

LEMMA CloseSlotKeeps ==
    ASSUME HlsAssumption, SessionIInv, NEW s \in Slots, CloseSlot(s)
    PROVE  SessionIInv'
<1>1. busy[s] = Free /\ closing.at = "slots" /\ s \in closing.left
  BY DEF CloseSlot
<1>2. CASE slot[s].session # NoSession
  BY <1>1, <1>2, StopSessionKeeps DEF CloseSlot
<1>3. CASE slot[s].session = NoSession
  <2>1. /\ Cleared(s) /\ closing' = [closing EXCEPT !.left = @ \ {s}]
        /\ UNCHANGED <<busy, sess, firing, keys, sessions, closed, stopped>>
    BY <1>3 DEF CloseSlot
  <2>2. busy' = [busy EXCEPT ![s] = Free] /\ slot'[s].selection = 0 /\ slot'[s].session = NoSession
    BY <1>1, <2>1, SlotShape DEF Cleared, SlotRecords
  <2>3. SlotIdle(s)
    BY <1>1, <1>3, SlotShape, IdleSlot
  <2>4. busy'[s] = Free /\ \A t \in Slots \ {s} : slot'[t] = slot[t] /\ busy'[t] = busy[t]
    BY <1>1, <2>1, SlotShape DEF Cleared
  <2>5. ClosingFits'
    BY <1>1, <2>1, <2>2, <2>4, SlotLeaves
  <2> QED
    BY <1>1, <2>1, <2>2, <2>3, <2>5, SlotShape, ClearedKeeps
<1> QED
  BY <1>2, <1>3

-----------------------------------------------------------------------------
(* A start that holds its key.                                             *)

\* Its slot has no worker, no other start's session and no use but its own.
LEMMA HolderAlone ==
    ASSUME HlsAssumption, SessionIInv, NEW s \in Slots, NEW k, k = busy[s].key, busy[s].at \in Holders
    PROVE  /\ k \in Keys /\ k \in keys /\ busy[s].op = "start" /\ busy[s] # Free
           /\ slot[s].selection = 0 /\ slot[s].session \in {NoSession, k}
           /\ sess[k].at = IF busy[s].at = "begin" THEN "none" ELSE busy[s].at
           /\ busy[s].at # "begin" => sess[k].slot = s
           /\ \A j \in Keys \ {k} : sess[j].slot = s => sess[j].at \notin Holders \cup Workers /\ ~sess[j].stream
           /\ live[s] \in {"none", "selected", k}
           /\ live[s] = k <=> sess[k].stream
           /\ live[s] = "selected" => busy[s].at \in {"begin", "opening"}
<1>1. /\ OwnersFit /\ UsesFit /\ live[s] \in Keys \cup {"none", "selected"} /\ keys \subseteq Keys
      /\ "none" \notin Keys /\ "selected" \notin Keys
  BY DEF SessionIInv, SessionTypeOK, HlsAssumption
<1>2. k \in Keys /\ k \in keys /\ busy[s].op = "start" /\ busy[s] # Free
  <2>1. k \in keys
    BY <1>1 DEF OwnersFit
  <2>2. busy[s].at \in StartPlaces /\ busy[s].at # "stopping" /\ busy[s].at \notin SelectPlaces /\ busy[s].at # "none"
    BY DEF Holders, StartPlaces, SelectPlaces
  <2> QED
    BY <1>1, <2>1, <2>2, SlotShape DEF RequestFits, BusyRecords
<1>3. /\ slot[s].selection = 0 /\ slot[s].session \in {NoSession, k}
  BY <1>2, SlotShape DEF RequestFits, Holders
<1>4. sess[k].at = IF busy[s].at = "begin" THEN "none" ELSE busy[s].at
  BY <1>1 DEF OwnersFit
<1>5. busy[s].at # "begin" => sess[k].slot = s
  <2>1. SUFFICES ASSUME busy[s].at # "begin" PROVE sess[k].slot = s
    OBVIOUS
  <2>2. sess[k].at \in Holders /\ sess[k].slot \in Slots
    BY <1>1, <1>2, <1>4, <2>1 DEF OwnersFit
  <2>3. busy[sess[k].slot] = [op |-> "start", at |-> sess[k].at, key |-> k]
    BY <1>1, <1>2, <2>2 DEF OwnersFit
  <2>4. busy[sess[k].slot].at \in Holders /\ busy[sess[k].slot].key = k
    BY <2>2, <2>3
  <2> QED
    BY <1>1, <2>2, <2>4 DEF OwnersFit
<1>6. ASSUME NEW j \in Keys \ {k}, sess[j].slot = s
      PROVE  sess[j].at \notin Holders \cup Workers
  <2>1. CASE sess[j].at \in Holders
    <3>1. busy[s] = [op |-> "start", at |-> sess[j].at, key |-> j]
      BY <1>1, <1>6, <2>1 DEF OwnersFit
    <3> QED
      BY <1>6, <3>1
  <2>2. CASE sess[j].at \in Workers
    <3>1. slot[s].session = j
      BY <1>1, <1>6, <2>2 DEF OwnersFit
    <3> QED
      BY <1>3, <1>6, <3>1, SlotShape
  <2> QED
    BY <2>1, <2>2
<1>7. \A j \in Keys \ {k} : sess[j].slot = s => ~sess[j].stream
  BY <1>1, <1>6 DEF UsesFit, Holders, Workers
<1>8. live[s] \in {"none", "selected", k}
  BY <1>1, <1>7 DEF UsesFit
<1>9. live[s] = k <=> sess[k].stream
  BY <1>1, <1>2, <1>4, <1>5 DEF UsesFit
<1>10. live[s] = "selected" => busy[s].at \in {"begin", "opening"}
  BY <1>1, <1>3 DEF UsesFit, Holders
<1> QED
  BY <1>2, <1>3, <1>4, <1>5, <1>6, <1>7, <1>8, <1>9, <1>10

\* The start goes on, its worker begins, or it is dropped.
LEMMA HolderMoves ==
    ASSUME HlsAssumption, SessionIInv, NEW s \in Slots, NEW k, k = busy[s].key, busy[s].at \in Holders,
           NEW r \in SessionRecords, NEW b \in BusyRecords, NEW c \in SlotRecords,
           NEW l \in {"none", "selected", k},
           UNCHANGED <<firing, keys, closed, closing, stopped>>, sessions' \in SUBSET keys,
           sess' = [sess EXCEPT ![k] = r], busy' = [busy EXCEPT ![s] = b],
           slot' = [slot EXCEPT ![s] = c], live' = [live EXCEPT ![s] = l],
           c.selection = 0, r.at \in {"opening", "opened", "listed", "running", "dropped"},
           r.at \in Holders => b.op = "start" /\ b.at = r.at /\ b.key = k,
           r.at \notin Holders => b = Free,
           r.at # "dropped" => r.slot = s,
           c.session = IF r.at \in {"listed", "running"} THEN k ELSE NoSession,
           r.stream => r.at \in {"opened", "listed", "running"}, l = k <=> r.stream,
           l = "selected" => r.at = "opening",
           EpochFits(k)'
    PROVE  SessionIInv'
<1>1. /\ k \in Keys /\ k \in keys /\ busy[s] # Free
      /\ \A j \in Keys \ {k} : sess[j].slot = s => sess[j].at \notin Holders \cup Workers /\ ~sess[j].stream
  BY HolderAlone
<1>2. /\ OwnersFit /\ UsesFit /\ keys \subseteq Keys /\ sess \in [Keys -> SessionRecords]
      /\ "none" \notin Keys /\ "selected" \notin Keys
  BY DEF SessionIInv, SessionTypeOK, HlsAssumption
<1>3. /\ sess' \in [Keys -> SessionRecords] /\ sess'[k] = r
      /\ \A j \in Keys \ {k} : sess'[j] = sess[j]
  BY <1>1, <1>2
<1>4. /\ busy'[s] = b /\ slot'[s] = c /\ live'[s] = l
      /\ \A t \in Slots \ {s} : busy'[t] = busy[t] /\ slot'[t] = slot[t] /\ live'[t] = live[t]
  BY SlotShape
<1>5. SessionTypeOK'
  <2>1. live' \in [Slots -> Keys \cup {"none", "selected"}]
    BY <1>1, SlotShape
  <2> QED
    BY <1>3, <2>1 DEF SessionIInv, SessionTypeOK
<1>6. RequestsFit'
  <2>1. c.selection =< c.made
    <3>1. c.made \in 0 .. MaxSelections
      BY DEF SlotRecords
    <3> QED
      BY <3>1, SlotShape
  <2>2. RequestFits(s)'
    <3>1. CASE r.at \in Holders
      BY <1>1, <1>4, <2>1, <3>1, SlotShape DEF RequestFits, Holders, StartPlaces, SelectPlaces
    <3>2. CASE r.at \notin Holders
      BY <1>4, <2>1, <3>2, SlotShape DEF RequestFits, StartPlaces
    <3> QED
      BY <3>1, <3>2
  <2>3. \A t \in Slots \ {s} : RequestFits(t)'
    BY <1>4 DEF SessionIInv, RequestsFit, RequestFits
  <2> QED
    BY <2>2, <2>3 DEF RequestsFit
<1>7. \A t \in Slots \ {s} : busy[t].at \in Holders => busy[t].key \in Keys \ {k}
  BY <1>2 DEF OwnersFit
<1>8. OwnersFit'
  <2>1. b.at \in Holders => r.at \in Holders /\ b.at = r.at /\ b.key = k /\ r.at # "begin"
    BY SlotShape DEF Holders
  <2>2. ASSUME NEW t \in Slots, busy'[t].at \in Holders
        PROVE  /\ busy'[t].key \in keys'
               /\ sess'[busy'[t].key].at = IF busy'[t].at = "begin" THEN "none" ELSE busy'[t].at
    <3>1. CASE t = s
      BY <1>1, <1>3, <1>4, <2>1, <2>2, <3>1
    <3>2. CASE t # s
      BY <1>2, <1>3, <1>4, <1>7, <2>2, <3>2 DEF OwnersFit
    <3> QED
      BY <3>1, <3>2
  <2>3. ASSUME NEW t \in Slots, NEW u \in Slots \ {t}, busy'[t].at \in Holders, busy'[u].at \in Holders
        PROVE  busy'[u].key # busy'[t].key
    <3>1. CASE t = s
      BY <1>4, <1>7, <2>1, <2>3, <3>1
    <3>2. CASE u = s
      BY <1>4, <1>7, <2>1, <2>3, <3>2
    <3>3. CASE t # s /\ u # s
      BY <1>2, <1>4, <2>3, <3>3 DEF OwnersFit
    <3> QED
      BY <3>1, <3>2, <3>3
  <2>4. ASSUME NEW j \in Keys
        PROVE  /\ j \notin keys' => sess'[j].at = "none"
               /\ sess'[j].at \in Holders \cup Workers => sess'[j].slot \in Slots
               /\ sess'[j].at \in Holders =>
                     busy'[sess'[j].slot] = [op |-> "start", at |-> sess'[j].at, key |-> j]
               /\ sess'[j].at \in Workers => slot'[sess'[j].slot].session = j
    <3>1. CASE j = k
      <4>1. r.at \in Holders \cup Workers => r.slot = s
        BY DEF Holders, Workers
      <4>2. r.at \in Holders => b = [op |-> "start", at |-> r.at, key |-> k]
        BY DEF BusyRecords
      <4>3. r.at \in Workers => c.session = k
        BY DEF Workers
      <4> QED
        BY <1>1, <1>3, <1>4, <3>1, <4>1, <4>2, <4>3
    <3>2. CASE j # k
      BY <1>1, <1>2, <1>3, <1>4, <3>2 DEF OwnersFit
    <3> QED
      BY <3>1, <3>2
  <2> QED
    BY <2>2, <2>3, <2>4 DEF OwnersFit
<1>9. UsesFit'
  <2>1. ASSUME NEW j \in Keys, sess'[j].stream
        PROVE  sess'[j].at \in {"opened", "listed", "running", "copied"} /\ live'[sess'[j].slot] = j
    <3>1. CASE j = k
      BY <1>3, <1>4, <2>1, <3>1
    <3>2. CASE j # k
      BY <1>1, <1>2, <1>3, <1>4, <2>1, <3>2 DEF UsesFit, OwnersFit, Holders, Workers
    <3> QED
      BY <3>1, <3>2
  <2>2. ASSUME NEW t \in Slots
        PROVE  /\ live'[t] \in Keys => sess'[live'[t]].stream /\ sess'[live'[t]].slot = t
               /\ live'[t] = "selected" =>
                     \/ slot'[t].selection # 0
                     \/ busy'[t].at \in {"selected", "reserving", "begin", "opening"}
    <3>1. CASE t = s
      BY <1>1, <1>2, <1>3, <1>4, <3>1 DEF Holders
    <3>2. CASE t # s
      <4>1. live[t] # k
        <5>1. CASE busy[s].at = "begin"
          <6>1. ~sess[k].stream
            BY <1>1, <1>2, <5>1, HolderAlone DEF UsesFit
          <6> QED
            BY <1>1, <1>2, <6>1 DEF UsesFit
        <5>2. CASE busy[s].at # "begin"
          BY <1>1, <1>2, <3>2, <5>2, HolderAlone DEF UsesFit
        <5> QED
          BY <5>1, <5>2
      <4> QED
        BY <1>2, <1>3, <1>4, <3>2, <4>1 DEF UsesFit
    <3> QED
      BY <3>1, <3>2
  <2> QED
    BY <2>1, <2>2 DEF UsesFit
<1>10. EpochsFit'
  <2>1. \A j \in Keys \ {k} : EpochFits(j)'
    BY <1>3 DEF SessionIInv, EpochsFit, EpochFits
  <2> QED
    BY <2>1 DEF EpochsFit
<1>11. ClosingFits'
  <2>1. busy'[s].op # "close"
    BY <1>4, SlotShape
  <2> QED
    BY <1>1, <1>4, <2>1, NotCleared, ClosingElsewhere
<1> QED
  BY <1>5, <1>6, <1>8, <1>9, <1>10, <1>11 DEF SessionIInv

LEMMA BeginKeeps ==
    ASSUME HlsAssumption, SessionIInv, NEW s \in Slots, Begin(s)
    PROVE  SessionIInv'
<1>1. /\ busy[s].op = "start" /\ busy[s].at = "begin" /\ busy[s].at \in Holders
      /\ UNCHANGED <<slot, firing, keys, sessions, closed, closing, stopped>>
  BY DEF Begin, At, Kept, Holders
<1>2. CASE live' = LiveClosed(s) /\ Return(s) /\ UNCHANGED sess
  BY <1>1, <1>2, RefusalKeeps
<1>3. CASE /\ sess' = [sess EXCEPT ![busy[s].key].at = "opening", ![busy[s].key].slot = s]
           /\ GoTo(s, "opening") /\ UNCHANGED live
  <2>1. PICK k : k = busy[s].key
    OBVIOUS
  <2>2. PICK b \in BusyRecords : /\ busy' = [busy EXCEPT ![s] = b]
                                 /\ b.op = "start" /\ b.at = "opening" /\ b.key = k
    BY <1>1, <1>3, <2>1, GoToIs DEF StartPlaces
  <2>3. /\ k \in Keys /\ slot[s].selection = 0 /\ sess[k].at = "none"
        /\ live[s] \in {"none", "selected", k} /\ (live[s] = k <=> sess[k].stream)
    BY <1>1, <2>1, HolderAlone
  <2>4. slot[s].session = NoSession /\ slot[s] \in SlotRecords
    BY <1>1, SlotShape DEF RequestFits
  <2> DEFINE r == [sess[k] EXCEPT !.at = "opening", !.slot = s]
  <2>5. sess' = [sess EXCEPT ![k] = r]
    BY <1>3, <2>1, <2>3, RecordShape
  <2>6. /\ r \in SessionRecords /\ r.at = "opening" /\ r.slot = s /\ r.stream = sess[k].stream
        /\ r.terminal = sess[k].terminal /\ r.epoch = sess[k].epoch /\ r.idle = sess[k].idle
        /\ r.idleFiring = sess[k].idleFiring /\ r.silent = sess[k].silent
    <3>1. sess[k] \in SessionRecords /\ "opening" \in Places
      BY <2>3, RecordShape DEF Places
    <3> QED
      BY <3>1 DEF SessionRecords
  <2> HIDE DEF r
  <2>7. ~sess[k].stream
    BY <2>3 DEF SessionIInv, UsesFit
  <2>8. sess'[k] = r
    BY <2>3, <2>5, <2>6, Updated
  <2>9. EpochFits(k)'
    BY <2>3, <2>6, <2>8, RecordShape DEF EpochFits
  <2>10. /\ slot' = [slot EXCEPT ![s] = slot[s]] /\ live' = [live EXCEPT ![s] = live[s]]
         /\ sessions' \in SUBSET keys
    BY <1>1, <1>3, SlotShape DEF SessionIInv, SessionTypeOK
  <2>11. r.at \in Holders /\ r.at # "listed"
    BY <2>6 DEF Holders
  <2> QED
    BY <1>1, <2>1, <2>2, <2>3, <2>4, <2>5, <2>6, <2>7, <2>9, <2>10, <2>11, HolderMoves
<1> QED
  BY <1>2, <1>3 DEF Begin

\* A start is given up: nothing of it is left in its slot.
LEMMA DropKeeps ==
    ASSUME HlsAssumption, SessionIInv, NEW s \in Slots, NEW k, k = busy[s].key,
           busy[s].at \in {"opening", "opened", "listed"},
           UNCHANGED <<firing, keys, closed, closing, stopped>>, sessions' \in SUBSET keys,
           NEW r \in SessionRecords, sess' = [sess EXCEPT ![k] = r],
           r.at = "dropped", r.stream = FALSE, r.terminal = sess[k].terminal, r.epoch = sess[k].epoch,
           r.idle = sess[k].idle, r.idleFiring = sess[k].idleFiring, r.silent = sess[k].silent,
           slot' = [slot EXCEPT ![s].session = NoSession], live' = LiveClosed(s), Return(s)
    PROVE  SessionIInv'
<1>1. /\ k \in Keys /\ slot[s].selection = 0 /\ sess[k].at \in {"opening", "opened", "listed"}
      /\ busy[s].at \in Holders
  BY HolderAlone DEF Holders
<1> DEFINE c == [slot[s] EXCEPT !.session = NoSession]
<1>2. /\ slot' = [slot EXCEPT ![s] = c] /\ live' = [live EXCEPT ![s] = "none"]
      /\ busy' = [busy EXCEPT ![s] = Free]
  BY SlotShape DEF LiveClosed, Return
<1>3. c \in SlotRecords /\ c.selection = 0 /\ c.session = NoSession
  BY <1>1, SlotShape DEF SlotRecords
<1> HIDE DEF c
<1>4. sess'[k] = r
  BY <1>1, Updated
<1>5. EpochFits(k)'
  BY <1>1, <1>4, RecordShape DEF EpochFits
<1>6. /\ r.at \notin Holders /\ Free \in BusyRecords /\ "none" \in {"none", "selected", k}
      /\ r.at \in {"opening", "opened", "listed", "running", "dropped"}
      /\ c.session = IF r.at \in {"listed", "running"} THEN k ELSE NoSession
      /\ "none" = k <=> r.stream
  BY <1>1, <1>3, SlotShape DEF Holders, HlsAssumption
<1> QED
  BY <1>1, <1>2, <1>3, <1>5, <1>6, HolderMoves

LEMMA OpenKeeps ==
    ASSUME HlsAssumption, SessionIInv, NEW s \in Slots, Open(s)
    PROVE  SessionIInv'
<1>1. PICK k : k = busy[s].key
  OBVIOUS
<1>2. /\ busy[s].op = "start" /\ busy[s].at = "opening" /\ busy[s].at \in Holders
      /\ UNCHANGED <<slot, firing, keys, sessions, closed, closing, stopped>>
  BY DEF Open, At, Kept, Holders
<1>3. /\ k \in Keys /\ slot[s].selection = 0 /\ sess[k].at = "opening" /\ sess[k].slot = s
  BY <1>1, <1>2, HolderAlone
<1>4. slot[s].session = NoSession /\ slot[s] \in SlotRecords /\ sessions' \in SUBSET keys
  BY <1>2, SlotShape DEF RequestFits, SessionIInv, SessionTypeOK
<1>5. sess[k] \in SessionRecords /\ {"dropped", "opened"} \subseteq Places
  BY <1>3, RecordShape DEF Places
<1>6. CASE /\ live' = LiveClosed(s) /\ Return(s)
           /\ sess' = [sess EXCEPT ![k].at = "dropped", ![k].cancelled = TRUE]
  <2> DEFINE r == [sess[k] EXCEPT !.at = "dropped", !.cancelled = TRUE]
  <2>1. sess' = [sess EXCEPT ![k] = r]
    BY <1>3, <1>6, RecordShape
  <2>2. /\ r \in SessionRecords /\ r.at = "dropped" /\ r.slot = sess[k].slot /\ r.stream = sess[k].stream
        /\ r.terminal = sess[k].terminal /\ r.epoch = sess[k].epoch /\ r.idle = sess[k].idle
        /\ r.idleFiring = sess[k].idleFiring /\ r.silent = sess[k].silent
    BY <1>5 DEF SessionRecords
  <2> HIDE DEF r
  <2>3. r.stream = FALSE
    BY <1>3, <1>5, <2>2 DEF SessionIInv, UsesFit, SessionRecords
  <2>4. slot' = [slot EXCEPT ![s].session = NoSession]
    <3>1. [slot[s] EXCEPT !.session = NoSession] = slot[s]
      BY <1>4 DEF SlotRecords
    <3> QED
      BY <1>2, <3>1, SlotShape
  <2>5. busy[s].at \in {"opening", "opened", "listed"} /\ UNCHANGED <<firing, keys, closed, closing, stopped>>
    BY <1>2
  <2>6. live' = LiveClosed(s) /\ Return(s)
    BY SMTT(30), <1>6
  <2> QED
    BY <1>1, <1>4, <2>1, <2>2, <2>3, <2>4, <2>5, <2>6, DropKeeps
<1>7. CASE /\ live' = [live EXCEPT ![s] = k] /\ GoTo(s, "opened")
           /\ sess' = [sess EXCEPT ![k].at = "opened", ![k].stream = TRUE]
  <2>1. PICK b \in BusyRecords : /\ busy' = [busy EXCEPT ![s] = b]
                                 /\ b.op = "start" /\ b.at = "opened" /\ b.key = k
    BY <1>1, <1>2, <1>7, GoToIs DEF StartPlaces
  <2> DEFINE r == [sess[k] EXCEPT !.at = "opened", !.stream = TRUE]
  <2>2. sess' = [sess EXCEPT ![k] = r]
    BY <1>3, <1>7, RecordShape
  <2>3. /\ r \in SessionRecords /\ r.at = "opened" /\ r.slot = sess[k].slot /\ r.stream = TRUE
        /\ r.terminal = sess[k].terminal /\ r.epoch = sess[k].epoch /\ r.idle = sess[k].idle
        /\ r.idleFiring = sess[k].idleFiring /\ r.silent = sess[k].silent
    BY <1>5 DEF SessionRecords
  <2> HIDE DEF r
  <2>4. sess'[k] = r
    BY <1>3, <2>2, <2>3, Updated
  <2>5. EpochFits(k)'
    BY <1>3, <2>3, <2>4, RecordShape DEF EpochFits
  <2> DEFINE c == slot[s]
  <2>6. /\ c \in SlotRecords /\ c.selection = 0 /\ c.session = NoSession
        /\ slot' = [slot EXCEPT ![s] = c]
    BY <1>2, <1>3, <1>4, SlotShape
  <2> HIDE DEF c
  <2>7. /\ live' = [live EXCEPT ![s] = k] /\ sessions' \in SUBSET keys /\ k \in {"none", "selected", k}
        /\ k # "selected"
    BY <1>3, <1>4, <1>7 DEF HlsAssumption
  <2>8. /\ r.slot = s /\ r.at # "dropped" /\ r.at \notin {"listed", "running"} /\ r.at \in Holders
        /\ r.at \in {"opening", "opened", "listed", "running", "dropped"}
        /\ r.stream => r.at \in {"opened", "listed", "running"}
        /\ k = k <=> r.stream
        /\ b.op = "start" /\ b.at = r.at /\ b.key = k
    BY <1>3, <2>1, <2>3 DEF Holders
  <2> QED
    BY <1>1, <1>2, <2>1, <2>2, <2>3, <2>5, <2>6, <2>7, <2>8, HolderMoves
<1> QED
  BY <1>1, <1>6, <1>7 DEF Open

LEMMA AbandonKeeps ==
    ASSUME HlsAssumption, SessionIInv, NEW s \in Slots, NEW k, k = busy[s].key,
           busy[s].at \in {"opened", "listed"}, Abandon(s, k),
           UNCHANGED <<firing, keys, closed, closing, stopped>>
    PROVE  SessionIInv'
<1>1. k \in Keys
  BY HolderAlone DEF Holders
<1>2. sess[k] \in SessionRecords /\ "dropped" \in Places
  BY <1>1, RecordShape DEF Places
<1> DEFINE r == [sess[k] EXCEPT !.at = "dropped", !.cancelled = TRUE, !.stream = FALSE]
<1>3. sess' = [sess EXCEPT ![k] = r]
  BY <1>1, RecordShape DEF Abandon
<1>4. /\ r \in SessionRecords /\ r.at = "dropped" /\ r.stream = FALSE
      /\ r.terminal = sess[k].terminal /\ r.epoch = sess[k].epoch /\ r.idle = sess[k].idle
      /\ r.idleFiring = sess[k].idleFiring /\ r.silent = sess[k].silent
  BY <1>2 DEF SessionRecords
<1> HIDE DEF r
<1>5. sessions' \in SUBSET keys
  BY DEF Abandon, SessionIInv, SessionTypeOK
<1>6. slot' = [slot EXCEPT ![s].session = NoSession] /\ live' = LiveClosed(s) /\ Return(s)
  BY DEF Abandon
<1>7. busy[s].at \in {"opening", "opened", "listed"}
  OBVIOUS
<1> QED
  BY <1>3, <1>4, <1>5, <1>6, <1>7, DropKeeps

LEMMA ListKeeps ==
    ASSUME HlsAssumption, SessionIInv, NEW s \in Slots, List(s)
    PROVE  SessionIInv'
<1>1. PICK k : k = busy[s].key
  OBVIOUS
<1>2. /\ busy[s].op = "start" /\ busy[s].at = "opened" /\ busy[s].at \in Holders
      /\ UNCHANGED <<firing, keys, closed, closing, stopped>>
  BY DEF List, At, Holders
<1>3. CASE Abandon(s, k)
  BY <1>1, <1>2, <1>3, AbandonKeeps
<1>4. CASE /\ sessions' = sessions \cup {k} /\ GoTo(s, "listed")
           /\ sess' = [sess EXCEPT ![k].at = "listed"]
           /\ slot' = [slot EXCEPT ![s].session = k] /\ UNCHANGED live
  <2>1. PICK b \in BusyRecords : /\ busy' = [busy EXCEPT ![s] = b]
                                 /\ b.op = "start" /\ b.at = "listed" /\ b.key = k
    BY <1>1, <1>2, <1>4, GoToIs DEF StartPlaces
  <2>2. /\ k \in Keys /\ k \in keys /\ slot[s].selection = 0 /\ sess[k].at = "opened" /\ sess[k].slot = s
        /\ live[s] \in {"none", "selected", k} /\ (live[s] = k <=> sess[k].stream) /\ live[s] # "selected"
    BY <1>1, <1>2, HolderAlone
  <2> DEFINE r == [sess[k] EXCEPT !.at = "listed"]
             c == [slot[s] EXCEPT !.session = k]
  <2>3. sess' = [sess EXCEPT ![k] = r] /\ slot' = [slot EXCEPT ![s] = c] /\ live' = [live EXCEPT ![s] = live[s]]
    BY <1>4, <2>2, RecordShape, SlotShape
  <2>4. /\ r \in SessionRecords /\ r.at = "listed" /\ r.slot = sess[k].slot /\ r.stream = sess[k].stream
        /\ r.terminal = sess[k].terminal /\ r.epoch = sess[k].epoch /\ r.idle = sess[k].idle
        /\ r.idleFiring = sess[k].idleFiring /\ r.silent = sess[k].silent
    <3>1. sess[k] \in SessionRecords /\ "listed" \in Places
      BY <2>2, RecordShape DEF Places
    <3> QED
      BY <3>1 DEF SessionRecords
  <2>5. c \in SlotRecords /\ c.selection = 0 /\ c.session = k
    BY <2>2, SlotShape DEF SlotRecords
  <2> HIDE DEF r, c
  <2>6. sess'[k] = r
    BY <2>2, <2>3, <2>4, Updated
  <2>7. EpochFits(k)'
    BY <2>2, <2>4, <2>6, RecordShape DEF EpochFits
  <2>8. /\ sessions' \in SUBSET keys /\ r.at \in Holders /\ r.at \in {"listed", "running"}
        /\ r.at \in {"opening", "opened", "listed", "running", "dropped"}
    BY <1>4, <2>2, <2>4 DEF SessionIInv, SessionTypeOK, Holders
  <2> QED
    <3>1. /\ r.slot = s /\ b.op = "start" /\ b.at = r.at /\ b.key = k
          /\ r.stream => r.at \in {"opened", "listed", "running"}
          /\ c.session = IF r.at \in {"listed", "running"} THEN k ELSE NoSession
          /\ live[s] = k <=> r.stream
      BY <2>1, <2>2, <2>4, <2>5
    <3> QED
      BY <1>1, <1>2, <2>1, <2>2, <2>3, <2>4, <2>5, <2>7, <2>8, <3>1, HolderMoves
<1> QED
  BY <1>1, <1>3, <1>4 DEF List

LEMMA StartTimersKeeps ==
    ASSUME HlsAssumption, SessionIInv, NEW s \in Slots, StartTimers(s)
    PROVE  SessionIInv'
<1>1. PICK k : k = busy[s].key
  OBVIOUS
<1>2. /\ busy[s].op = "start" /\ busy[s].at = "listed" /\ busy[s].at \in Holders
      /\ UNCHANGED <<firing, keys, closed, closing, stopped>>
  BY DEF StartTimers, At, Holders
<1>3. CASE Abandon(s, k)
  BY <1>1, <1>2, <1>3, AbandonKeeps
<1>4. CASE /\ sess' = [sess EXCEPT ![k].at = "running", ![k].life = "armed", ![k].idle = TRUE,
                                   ![k].epoch = @ + 1, ![k].silent = FALSE]
           /\ Return(s) /\ UNCHANGED <<slot, live, sessions>>
  <2>1. /\ k \in Keys /\ slot[s].selection = 0 /\ sess[k].at = "listed" /\ sess[k].slot = s
        /\ live[s] \in {"none", "selected", k} /\ (live[s] = k <=> sess[k].stream) /\ live[s] # "selected"
    BY <1>1, <1>2, HolderAlone
  <2>2. slot[s].session = k /\ slot[s] \in SlotRecords
    BY <1>1, <1>2, SlotShape DEF RequestFits
  <2>3. EpochFits(k) /\ sess[k].epoch =< MaxTouches /\ sess[k].epoch \in Nat /\ MaxTouches \in Nat
        /\ sess[k].idleFiring \subseteq Nat
    BY <2>1, RecordShape DEF EpochFits, HlsAssumption
  <2> DEFINE r == [sess[k] EXCEPT !.at = "running", !.life = "armed", !.idle = TRUE,
                                  !.epoch = sess[k].epoch + 1, !.silent = FALSE]
  <2>4. sess' = [sess EXCEPT ![k] = r] /\ slot' = [slot EXCEPT ![s] = slot[s]]
        /\ live' = [live EXCEPT ![s] = live[s]] /\ busy' = [busy EXCEPT ![s] = Free]
    BY <1>4, <2>1, RecordShape, SlotShape DEF Return
  <2>5. /\ r \in SessionRecords /\ r.at = "running" /\ r.slot = sess[k].slot /\ r.stream = sess[k].stream
        /\ r.terminal = sess[k].terminal /\ r.epoch = sess[k].epoch + 1 /\ r.idle = TRUE
        /\ r.idleFiring = sess[k].idleFiring /\ r.silent = FALSE
    <3>1. sess[k] \in SessionRecords /\ "running" \in Places /\ sess[k].epoch + 1 \in 0 .. MaxTouches + 1
      BY <2>1, <2>3, RecordShape DEF Places
    <3> QED
      BY <3>1 DEF SessionRecords
  <2> HIDE DEF r
  <2>6. sess'[k] = r
    BY <2>1, <2>4, <2>5, Updated
  <2>7. EpochFits(k)'
    <3>1. ~sess[k].terminal /\ 0 \notin sess[k].idleFiring /\ \A e \in sess[k].idleFiring : e =< sess[k].epoch
      BY <2>1, <2>3 DEF EpochFits
    <3>2. /\ sess[k].epoch + 1 \notin sess[k].idleFiring /\ sess[k].epoch + 1 # 0
          /\ \A e \in sess[k].idleFiring : e =< sess[k].epoch + 1
      BY <2>3, <3>1
    <3> QED
      BY <2>5, <2>6, <3>1, <3>2 DEF EpochFits
  <2>8. sessions' \in SUBSET keys /\ r.at \notin Holders
    BY <1>4, <2>5, <1>2 DEF SessionIInv, SessionTypeOK, Holders
  <2> QED
    BY <1>1, <1>2, <2>1, <2>2, <2>4, <2>5, <2>7, <2>8, SlotShape, HolderMoves
<1> QED
  BY SMTT(30), <1>1, <1>3, <1>4 DEF StartTimers

-----------------------------------------------------------------------------
(* The end of the process.                                                 *)

LEMMA EndKeeps ==
    ASSUME HlsAssumption, SessionIInv, StopService \/ CloseStart \/ CloseReturns
    PROVE  SessionIInv'
<1>1. UNCHANGED <<slot, busy, sess, live, firing, keys>> /\ sessions' \in SUBSET keys
      /\ closed' \in BOOLEAN /\ stopped' \in BOOLEAN
  BY DEF StopService, CloseStart, CloseReturns, SessionIInv, SessionTypeOK
<1>2. Pending' <=> Pending
  BY <1>1 DEF Pending
<1>3. ClosingFits'
  <2>1. CASE StopService
    BY <1>1, <1>2, <2>1 DEF StopService, SessionIInv, ClosingFits
  <2>2. CASE CloseStart
    BY <1>1, <2>2 DEF CloseStart, SessionIInv, ClosingFits, SessionTypeOK
  <2>3. CASE CloseReturns
    BY <1>1, <1>2, <2>3 DEF CloseReturns, SessionIInv, ClosingFits
  <2> QED
    BY <2>1, <2>2, <2>3
<1> QED
  BY <1>1, <1>3 DEF SessionIInv, SessionTypeOK, RequestsFit, RequestFits, OwnersFit, UsesFit, EpochsFit, EpochFits

LEMMA InitHolds ==
    ASSUME HlsAssumption, SessionInit
    PROVE  SessionIInv
<1> USE DEF SessionInit
<1>1. Fresh \in SessionRecords
  <2>1. 0 \in Slots \cup {0} /\ 0 \in 0 .. MaxTouches + 1 /\ "none" \in Places
    BY DEF HlsAssumption, Places
  <2> QED
    BY <2>1 DEF Fresh, SessionRecords
<1>2. EmptySlot \in SlotRecords /\ Free \in BusyRecords
  <2>1. 0 \in 0 .. MaxSelections
    BY DEF HlsAssumption
  <2> QED
    BY <2>1 DEF EmptySlot, SlotRecords, Free, BusyRecords
<1>3. SessionTypeOK
  BY <1>1, <1>2 DEF SessionTypeOK
<1>4. RequestsFit
  BY DEF RequestsFit, RequestFits, Free, EmptySlot, StartPlaces
<1>5. OwnersFit
  BY DEF OwnersFit, Free, Fresh, Holders, Workers
<1>6. UsesFit
  BY DEF UsesFit, Fresh, HlsAssumption
<1>7. EpochsFit
  <2>1. 0 =< MaxTouches
    BY DEF HlsAssumption
  <2> QED
    BY <2>1 DEF EpochsFit, EpochFits, Fresh
<1>8. ClosingFits
  BY DEF ClosingFits, Free
<1> QED
  BY <1>3, <1>4, <1>5, <1>6, <1>7, <1>8 DEF SessionIInv

LEMMA StepHolds ==
    ASSUME HlsAssumption, SessionIInv, [SessionNext]_sessionVars
    PROVE  SessionIInv'
<1>1. ASSUME NEW s \in Slots, RequestStep(s) PROVE SessionIInv'
  BY <1>1, SelectStoppedKeeps, LiveSelectKeeps, RememberKeeps, SelectedKeeps, StartStoppedKeeps,
     ReserveKeyKeeps, BeginKeeps, OpenKeeps, ListKeeps, StartTimersKeeps DEF RequestStep
<1>2. ASSUME NEW s \in Slots, SelectStart(s) \/ SelectionTimer(s) \/ LiveExpires(s) \/ \E k \in Keys : Start(s, k)
      PROVE  SessionIInv'
  BY <1>2, SelectStartKeeps, SelectionTimerKeeps, LiveExpiresKeeps, StartKeeps
<1>3. ASSUME NEW k \in Keys, \/ WorkerStep(k) \/ Emit(k) \/ CopyEnds(k)
                             \/ Read(k) \/ IdleTimer(k) \/ LifeTimer(k) \/ RetentionEnds(k)
      PROVE  SessionIInv'
  BY <1>3, EndStreamKeeps, FinishKeeps, DoneKeeps, EmitKeeps, CopyEndsKeeps, ReadKeeps,
     IdleTimerKeeps, LifeTimerKeeps, RetentionEndsKeeps DEF WorkerStep
<1>4. CASE Callback
  BY <1>4, ExpireKeeps, StopIdleKeeps, IdleEndsKeeps, LifeEndsKeeps DEF Callback
<1>5. CASE CloseStep \/ StopService \/ CloseStart
  BY <1>5, CloseSlotKeeps, CloseStoppedKeeps, ShutdownStopKeeps, ShutdownRetentionKeeps, EndKeeps DEF CloseStep
<1>6. CASE UNCHANGED sessionVars
  BY <1>6 DEF sessionVars, SessionIInv, SessionTypeOK, RequestsFit, RequestFits, OwnersFit, UsesFit,
              EpochsFit, EpochFits, ClosingFits, Pending
<1> QED
  BY <1>1, <1>2, <1>3, <1>4, <1>5, <1>6 DEF SessionNext

-----------------------------------------------------------------------------
(* The theorems.                                                           *)

\* The invariant holds for any screens, keys, selections and readers, however
\* selects, starts, timers, workers and close interleave.
THEOREM SessionsInductive ==
    ASSUME HlsAssumption
    PROVE  SessionSpec => []SessionIInv
<1>1. SessionInit => SessionIInv
  BY InitHolds
<1>2. SessionIInv /\ [SessionNext]_sessionVars => SessionIInv'
  BY StepHolds
<1> QED
  BY <1>1, <1>2, PTL DEF SessionSpec

LEMMA UsesAreOwned ==
    ASSUME HlsAssumption, SessionIInv
    PROVE  UseOwned /\ LeaseKept
<1>1. \A s \in Slots : busy[s].at \in {"selected", "reserving", "begin", "opening"} => busy[s].op \in {"select", "start"}
  BY SlotShape DEF RequestFits, BusyRecords
<1> QED
  BY <1>1 DEF SessionIInv, UsesFit, UseOwned, LeaseKept

LEMMA PlacesAre ==
    ASSUME SessionIInv, NEW k \in Keys, sess[k].at \notin {"none", "done", "dropped"}
    PROVE  sess[k].at \in {"opening", "opened", "listed"} \cup Workers
BY RecordShape DEF SessionRecords, Places, Workers

LEMMA OneWorker ==
    ASSUME HlsAssumption, SessionIInv
    PROVE  WorkersAlone
<1> SUFFICES ASSUME NEW j \in Keys, NEW k \in Keys,
                    sess[j].at \notin {"none", "done", "dropped"}, sess[k].at \notin {"none", "done", "dropped"},
                    sess[j].slot = sess[k].slot
             PROVE  j = k
  BY DEF WorkersAlone
<1>1. OwnersFit
  BY DEF SessionIInv
<1>2. PICK s \in Slots : s = sess[j].slot
  BY <1>1, PlacesAre DEF OwnersFit, Holders
<1>3. ASSUME NEW i \in Keys, sess[i].slot = s, sess[i].at \in {"opening", "opened", "listed"}
      PROVE  busy[s].at \in Holders /\ busy[s].key = i
  <2>1. busy[s] = [op |-> "start", at |-> sess[i].at, key |-> i]
    BY <1>1, <1>3 DEF OwnersFit, Holders
  <2> QED
    BY <1>3, <2>1 DEF Holders
<1>4. \A i \in Keys : sess[i].slot = s /\ sess[i].at \in Workers => slot[s].session = i
  BY <1>1 DEF OwnersFit
<1>5. sess[k].slot = s /\ sess[j].slot = s
  BY <1>2
<1>6. CASE sess[j].at \in Workers /\ sess[k].at \in Workers
  BY <1>4, <1>5, <1>6
<1>7. CASE sess[j].at \in {"opening", "opened", "listed"} /\ sess[k].at \in {"opening", "opened", "listed"}
  BY <1>3, <1>5, <1>7
<1>8. CASE sess[j].at \in {"opening", "opened", "listed"} /\ sess[k].at \in Workers
  BY <1>3, <1>5, <1>8, HolderAlone
<1>9. CASE sess[k].at \in {"opening", "opened", "listed"} /\ sess[j].at \in Workers
  BY <1>3, <1>5, <1>9, HolderAlone
<1> QED
  BY <1>6, <1>7, <1>8, <1>9, PlacesAre

LEMMA QuietWhenClosed ==
    ASSUME HlsAssumption, SessionIInv
    PROVE  ClosedIsQuiet
<1> SUFFICES ASSUME closing.at = "returned"
             PROVE  /\ \A s \in Slots : busy[s] = Free /\ live[s] = "none"
                    /\ \A k \in Keys :
                          /\ sess[k].at \in {"none", "done", "dropped"} /\ ~sess[k].stream
                          /\ sess[k].idleFiring = {} /\ ~sess[k].idleWaits /\ sess[k].life = "none"
                    /\ firing = {}
  BY DEF ClosedIsQuiet
<1>1. /\ \A s \in Slots : busy[s] = Free /\ slot[s].selection = 0 /\ slot[s].session = NoSession
      /\ \A k \in Keys : QuietKey(k)
      /\ firing = {}
  BY ReturnedIsQuiet
<1>2. ASSUME NEW s \in Slots PROVE SlotIdle(s) /\ live[s] = "none"
  <2>1. SlotIdle(s)
    BY <1>1, SlotShape, IdleSlot
  <2>2. live[s] # "selected"
    BY <1>1, SlotShape DEF SessionIInv, UsesFit
  <2> QED
    BY <2>1, <2>2, IdleUse
<1>3. ASSUME NEW k \in Keys PROVE sess[k].at \in {"none", "done", "dropped"} /\ ~sess[k].stream
  <2>1. sess[k].at \in {"none", "done", "dropped"}
    <3>1. sess[k].at \in Holders \cup Workers => sess[k].slot \in Slots
      BY DEF SessionIInv, OwnersFit
    <3>2. sess[k].at \notin Holders \cup Workers
      BY <1>2, <3>1 DEF SlotIdle
    <3> QED
      BY <3>2, PlacesAre DEF Holders
  <2> QED
    BY <2>1 DEF SessionIInv, UsesFit
<1> QED
  BY <1>1, <1>2, <1>3 DEF QuietKey

\* KHL-018 and what surrounds it: what the live manager keeps for a screen
\* belongs to somebody who closes it, nobody takes the stream of a session that
\* was not stopped, a screen's next session waits for its earlier worker, and
\* when close has returned nothing of any session is left.
THEOREM SessionsHoldTheirStreams ==
    ASSUME HlsAssumption
    PROVE  SessionSpec => []SessionsSound
<1>1. SessionIInv => SessionsSound
  BY UsesAreOwned, OneWorker, QuietWhenClosed DEF SessionsSound
<1> QED
  BY <1>1, SessionsInductive, PTL

LEMMA IdleStopStep ==
    ASSUME HlsAssumption, SessionIInv, [SessionNext]_sessionVars
    PROVE  IdleStopIsDue
<1> SUFFICES ASSUME NEW j \in Keys, ~sess[j].idleWaits, sess'[j].idleWaits
             PROVE  sess[j].silent
  BY DEF IdleStopIsDue
<1>1. sess \in [Keys -> SessionRecords] /\ \A k \in Keys : sess[k].idleWaits \in BOOLEAN
  BY RecordShape DEF SessionRecords
<1>2. ASSUME NEW k \in Keys, sess' = Stop(k) PROVE FALSE
  <2> DEFINE q == StoppedRecord(k)
  <2>1. sess' = [sess EXCEPT ![k] = q] /\ q.idleWaits = sess[k].idleWaits
    BY <1>2, StopIs
  <2> HIDE DEF q
  <2> QED
    BY <1>1, <2>1
<1>3. ASSUME NEW s \in Slots, NEW op, NEW k, StopSession(s, op, k), slot[s].session # NoSession PROVE FALSE
  <2>1. slot[s].session \in Keys
    BY <1>3, SlotShape DEF SlotRecords
  <2> QED
    BY <1>2, <1>3, <2>1 DEF StopSession
<1>4. UNCHANGED sess => FALSE
  OBVIOUS
<1>5. ASSUME NEW s \in Slots, RequestStep(s) PROVE FALSE
  <2>1. CASE SelectStopped(s) \/ LiveSelect(s) \/ Remember(s) \/ Selected(s) \/ StartStopped(s) \/ ReserveKey(s)
    BY <1>4, <2>1 DEF SelectStopped, LiveSelect, Remember, Selected, StartStopped, ReserveKey
  <2>2. CASE Begin(s)
    BY <1>1, <2>2 DEF Begin, SessionRecords
  <2>3. CASE Open(s)
    BY <1>1, <2>3 DEF Open, SessionRecords
  <2> DEFINE k == busy[s].key
  <2>6. ASSUME Abandon(s, k) PROVE FALSE
    BY <1>1, <2>6 DEF Abandon, SessionRecords
  <2>4. CASE List(s)
    <3>1. sess' = [sess EXCEPT ![k].at = "listed"] \/ UNCHANGED sess
      BY <2>4, <2>6 DEF List
    <3> QED
      BY <1>1, <3>1 DEF SessionRecords
  <2>5. CASE StartTimers(s)
    <3>1. sess' = [sess EXCEPT ![k].at = "running", ![k].life = "armed", ![k].idle = TRUE,
                               ![k].epoch = @ + 1, ![k].silent = FALSE]
      BY <2>5, <2>6 DEF StartTimers
    <3> DEFINE r == [sess[k] EXCEPT !.at = "running", !.life = "armed", !.idle = TRUE,
                                    !.epoch = @ + 1, !.silent = FALSE]
    <3>2. sess[k] \in SessionRecords => r.idleWaits = sess[k].idleWaits
      BY SMTT(30) DEF SessionRecords
    <3>3. sess' = [sess EXCEPT ![k] = r]
      BY <1>1, <3>1
    <3> HIDE DEF r, k
    <3> QED
      BY SMTT(30), <1>1, <3>2, <3>3
  <2> QED
    BY <1>5, <2>1, <2>2, <2>3, <2>4, <2>5 DEF RequestStep
<1>6. ASSUME NEW s \in Slots, SelectStart(s) \/ SelectionTimer(s) \/ LiveExpires(s) \/ \E k \in Keys : Start(s, k)
      PROVE  FALSE
  BY <1>3, <1>4, <1>6 DEF SelectStart, SelectionTimer, LiveExpires, Start
<1>7. ASSUME NEW k \in Keys, \/ WorkerStep(k) \/ Emit(k) \/ CopyEnds(k)
                             \/ Read(k) \/ IdleTimer(k) \/ LifeTimer(k) \/ RetentionEnds(k)
      PROVE  FALSE
  <2>1. CASE EndStream(k) \/ CopyEnds(k) \/ Finish(k) \/ Done(k)
    BY <1>1, <2>1 DEF EndStream, CopyEnds, Finish, Done, SessionRecords
  <2>2. CASE Emit(k) \/ Read(k) \/ IdleTimer(k)
    BY <1>1, <2>2 DEF Emit, Read, Touched, IdleTimer, SessionRecords
  <2>3. CASE RetentionEnds(k)
    BY <1>1, <2>3 DEF RetentionEnds, SessionRecords
  <2>4. CASE LifeTimer(k)
    <3> DEFINE q == StoppedRecord(k)
    <3>1. Stop(k) = [sess EXCEPT ![k] = q] /\ q \in SessionRecords /\ q.idleWaits = sess[k].idleWaits
      BY StopIs
    <3> HIDE DEF q
    <3>2. sess' = [Stop(k) EXCEPT ![k].life = "firing"]
      BY <2>4 DEF LifeTimer
    <3> QED
      BY <1>1, <3>1, <3>2 DEF SessionRecords
  <2> QED
    BY <1>7, <2>1, <2>2, <2>3, <2>4 DEF WorkerStep
<1>8. CASE Callback
  <2>1. ASSUME NEW k \in Keys, IdleEnds(k) \/ LifeEnds(k) PROVE FALSE
    BY <1>1, <2>1 DEF IdleEnds, LifeEnds, SessionRecords
  <2>2. ASSUME NEW s \in Slots, NEW n \in 1 .. MaxSelections, Expire(s, n) PROVE FALSE
    BY <1>4, <2>2 DEF Expire
  <2> QED
    BY <1>8, <2>1, <2>2, IdleStopDue DEF Callback
<1>9. CASE CloseStep
  <2>1. ASSUME NEW s \in Slots, CloseSlot(s) \/ CloseStopped(s) PROVE FALSE
    BY <1>3, <1>4, <2>1 DEF CloseSlot, CloseStopped
  <2>2. ASSUME NEW k \in Keys, ShutdownStop(k) \/ ShutdownRetention(k) PROVE FALSE
    BY <1>1, <1>2, <2>2 DEF ShutdownStop, ShutdownRetention, SessionRecords
  <2>3. ~CloseReturns
    BY <1>4 DEF CloseReturns
  <2> QED
    BY <1>9, <2>1, <2>2, <2>3 DEF CloseStep
<1>10. ~StopService /\ ~CloseStart /\ ~(UNCHANGED sessionVars)
  BY <1>4 DEF StopService, CloseStart, sessionVars
<1> QED
  BY <1>5, <1>6, <1>7, <1>8, <1>9, <1>10 DEF SessionNext

\* KHL-017: an idle timer stops a session only if nobody has read it since
\* hlsIdleLifetime, also when its callback waited while a reader came back.
THEOREM IdleStopsAreDue ==
    ASSUME HlsAssumption
    PROVE  SessionSpec => IdleStopsUnread
<1>1. SessionIInv /\ [SessionNext]_sessionVars => IdleStopIsDue
  BY IdleStopStep
<1> QED
  BY <1>1, SessionsInductive, PTL DEF SessionSpec, IdleStopsUnread

-----------------------------------------------------------------------------
(* Sums.  SumFunction folds over the subsets of a domain; what is true of  *)
(* it for every function is shown of a smallest counterexample.            *)

LEMMA LeastExists ==
    ASSUME NEW B \in SUBSET Nat, B # {}
    PROVE  \E n \in B : \A m \in B : n <= m
<1>1. PICK n \in B : \A m \in B : <<m, n>> \notin OpToRel(<, Nat)
  BY NatLessThanWellFounded, WFMin
<1>2. \A m \in B : ~(m < n)
  BY <1>1 DEF OpToRel
<1>3. \A m \in B : n <= m
  BY <1>2
<1> QED
  BY <1>3

\* The element that the fold takes from a set, and the sum of f over the sets of F.
Taken(s) == CHOOSE x \in s : TRUE
Summed(f, F, s) == IF s = {} THEN 0 ELSE f[Taken(s)] + F[s \ {Taken(s)}]
PartialSums(f, S) == CHOOSE F : F = [s \in SUBSET S |-> Summed(f, F, s)]

LEMMA SumIs ==
    ASSUME NEW f, NEW S
    PROVE  SumFunctionOnSet(f, S) = PartialSums(f, S)[S]
BY Zenon DEF SumFunctionOnSet, FoldFunctionOnSet, MapThenFoldSet, PartialSums, Summed, Taken

LEMMA TakenIs ==
    ASSUME NEW S, IsFiniteSet(S), S # {}
    PROVE  /\ Taken(S) \in S /\ IsFiniteSet(S \ {Taken(S)}) /\ Cardinality(S) \in Nat
           /\ Cardinality(S \ {Taken(S)}) \in Nat
           /\ Cardinality(S \ {Taken(S)}) = Cardinality(S) - 1
<1>1. Taken(S) \in S
  BY DEF Taken
<1> QED
  BY <1>1, FS_RemoveElement, FS_CardinalityType

\* The partial sums exist: on the sets of at most n elements for every n, hence on
\* all sets.
LEMMA PartialsExist ==
    ASSUME NEW f, NEW S, IsFiniteSet(S)
    PROVE  \A s \in SUBSET S : PartialSums(f, S)[s] = Summed(f, PartialSums(f, S), s)
<1> DEFINE Small(n) == {s \in SUBSET S : Cardinality(s) <= n}
           Sums(n, F) == F = [s \in Small(n) |-> Summed(f, F, s)]
           bad == {n \in Nat : ~\E F : Sums(n, F)}
<1>1. \A s \in SUBSET S : IsFiniteSet(s) /\ Cardinality(s) \in Nat
  BY FS_Subset, FS_CardinalityType
<1>2. bad = {}
  <2> SUFFICES ASSUME bad # {}
               PROVE  FALSE
    OBVIOUS
  <2>1. PICK n \in bad : \A m \in bad : n <= m
    <3>1. bad \in SUBSET Nat
      OBVIOUS
    <3> HIDE DEF bad
    <3> QED
      BY <3>1, LeastExists
  <2>2. CASE n = 0
    <3>1. \A s \in Small(0) : s = {}
      BY <1>1, FS_EmptySet
    <3> DEFINE F == [s \in Small(0) |-> 0]
    <3>2. Sums(0, F)
      BY <3>1 DEF Summed
    <3> QED
      BY <2>1, <2>2, <3>2
  <2>3. CASE n # 0
    <3>1. n - 1 \in Nat /\ n - 1 \notin bad
      <4>1. n \in Nat
        BY <2>1
      <4> HIDE DEF bad
      <4> QED
        BY <2>1, <2>3, <4>1
    <3>2. PICK F : Sums(n - 1, F)
      BY <3>1
    <3> DEFINE G == [s \in Small(n) |-> Summed(f, F, s)]
    <3>3. ASSUME NEW s \in Small(n), s # {}
          PROVE  s \ {Taken(s)} \in Small(n - 1) /\ s \ {Taken(s)} \in Small(n)
      BY <1>1, <2>1, <3>1, <3>3, TakenIs
    <3>4. ASSUME NEW s \in Small(n - 1)
          PROVE  G[s] = F[s]
      <4>1. s \in Small(n)
        BY <1>1, <2>1, <3>1
      <4>2. F[s] = Summed(f, F, s)
        BY <3>2
      <4> QED
        BY <4>1, <4>2
    <3>5. ASSUME NEW s \in Small(n)
          PROVE  Summed(f, F, s) = Summed(f, G, s)
      BY <3>3, <3>4 DEF Summed
    <3>6. G = [s \in Small(n) |-> Summed(f, G, s)]
      BY <3>5
    <3> QED
      BY <2>1, <3>6
  <2> QED
    BY <2>2, <2>3
<1>3. Cardinality(S) \in Nat
  BY FS_CardinalityType
<1>4. Small(Cardinality(S)) = SUBSET S
  BY <1>1, <1>3, FS_Subset
<1>5. \E F : Sums(Cardinality(S), F)
  BY <1>2, <1>3
<1>6. PICK F : F = [s \in SUBSET S |-> Summed(f, F, s)]
  BY <1>4, <1>5
<1> DEFINE P == PartialSums(f, S)
<1>7. P = [s \in SUBSET S |-> Summed(f, P, s)]
  BY <1>6 DEF PartialSums
<1> HIDE DEF P
<1>8. \A s \in SUBSET S : P[s] = Summed(f, P, s)
  BY <1>7
<1> QED
  BY <1>8 DEF P
\* Induction in the order of the fold.
LEMMA TakenInduction ==
    ASSUME NEW S, IsFiniteSet(S), NEW Good, {} \in Good,
           \A s \in SUBSET S : s # {} /\ s \ {Taken(s)} \in Good => s \in Good
    PROVE  SUBSET S \subseteq Good
<1> DEFINE bad == {Cardinality(s) : s \in (SUBSET S) \ Good}
<1> SUFFICES ASSUME (SUBSET S) \ Good # {}
             PROVE  FALSE
  OBVIOUS
<1>1. \A s \in SUBSET S : IsFiniteSet(s) /\ Cardinality(s) \in Nat
  BY FS_Subset, FS_CardinalityType
<1>2. bad \in SUBSET Nat /\ bad # {}
  BY <1>1
<1>3. PICK n \in bad : \A m \in bad : n <= m
  <2> HIDE DEF bad
  <2> QED
    BY <1>2, LeastExists
<1>4. PICK s \in (SUBSET S) \ Good : n = Cardinality(s)
  BY <1>3
<1>5. s # {} /\ s \ {Taken(s)} \in SUBSET S
  BY <1>4
<1>6. s \ {Taken(s)} \notin Good
  BY <1>4, <1>5
<1>7. n <= Cardinality(s \ {Taken(s)})
  BY <1>3, <1>5, <1>6
<1> QED
  BY <1>1, <1>4, <1>5, <1>7, TakenIs

\* F has the sum of f over each subset of S.
Splits(f, F, S) ==
    /\ SumFunctionOnSet(f, S) = F[S] /\ F[{}] = 0
    /\ \A s \in SUBSET S : s # {} =>
          /\ Taken(s) \in s /\ Taken(s) \in S /\ s \ {Taken(s)} \in SUBSET S
          /\ F[s] = f[Taken(s)] + F[s \ {Taken(s)}]

LEMMA SumsSplit ==
    ASSUME NEW f, NEW S, IsFiniteSet(S)
    PROVE  Splits(f, PartialSums(f, S), S)
<1>1. \A s \in SUBSET S : PartialSums(f, S)[s] = Summed(f, PartialSums(f, S), s)
  BY PartialsExist
<1> DEFINE F == PartialSums(f, S)
<1>2. SumFunctionOnSet(f, S) = F[S]
  BY SumIs
<1>3. \A s \in SUBSET S : F[s] = Summed(f, F, s)
  BY <1>1
<1> HIDE DEF F
<1>4. F[{}] = 0
  BY <1>3 DEF Summed
<1>5. ASSUME NEW s \in SUBSET S, s # {}
      PROVE  Taken(s) \in s /\ F[s] = f[Taken(s)] + F[s \ {Taken(s)}]
  BY <1>3, <1>5 DEF Summed, Taken
<1>6. Splits(f, F, S)
  BY <1>2, <1>4, <1>5 DEF Splits
<1> QED
  BY <1>6 DEF F

LEMMA SumTyped ==
    ASSUME NEW f, NEW S, IsFiniteSet(S), \A x \in S : f[x] \in Nat
    PROVE  SumFunctionOnSet(f, S) \in Nat
<1> DEFINE F == PartialSums(f, S)
           good == {s \in SUBSET S : F[s] \in Nat}
<1>1. Splits(f, F, S)
  BY SumsSplit
<1> HIDE DEF F
<1>2. {} \in good
  BY <1>1 DEF Splits
<1>3. ASSUME NEW s \in SUBSET S, s # {}, s \ {Taken(s)} \in good
      PROVE  s \in good
  BY <1>1, <1>3 DEF Splits
<1> HIDE DEF good
<1>4. SUBSET S \subseteq good
  BY <1>2, <1>3, TakenInduction
<1>5. F[S] \in Nat
  BY <1>4 DEF good
<1> QED
  BY <1>1, <1>5 DEF Splits

\* A sum changes by what one of its terms changes by.
LEMMA SumUpdated ==
    ASSUME NEW f, NEW h, NEW S, IsFiniteSet(S), NEW x \in S,
           \A y \in S : f[y] \in Nat /\ h[y] \in Nat,
           \A y \in S \ {x} : h[y] = f[y]
    PROVE  /\ SumFunctionOnSet(f, S) \in Nat /\ SumFunctionOnSet(h, S) \in Nat
           /\ SumFunctionOnSet(h, S) + f[x] = SumFunctionOnSet(f, S) + h[x]
<1> DEFINE F == PartialSums(f, S)
           H == PartialSums(h, S)
           good == {s \in SUBSET S : F[s] \in Int /\ H[s] \in Int /\
                       IF x \in s THEN H[s] + f[x] = F[s] + h[x] ELSE H[s] = F[s]}
<1>8. Splits(f, F, S)
  BY SumsSplit
<1>9. Splits(h, H, S)
  BY SumsSplit
<1> HIDE DEF F, H
<1>1. {} \in good
  BY <1>8, <1>9 DEF Splits
<1>2. ASSUME NEW s \in SUBSET S, s # {}, s \ {Taken(s)} \in good
      PROVE  s \in good
  <2> DEFINE t == Taken(s)
             r == s \ {Taken(s)}
  <2>1. t \in s /\ t \in S /\ F[s] = f[t] + F[r]
    BY <1>2, <1>8, <1>9 DEF Splits
  <2>2. H[s] = h[t] + H[r]
    BY <1>2, <1>8, <1>9 DEF Splits
  <2>3. F[r] \in Int /\ H[r] \in Int /\ f[t] \in Nat /\ h[t] \in Nat /\ f[x] \in Nat /\ h[x] \in Nat
    BY <1>2, <2>1
  <2>4. IF x \in r THEN H[r] + f[x] = F[r] + h[x] ELSE H[r] = F[r]
    BY <1>2
  <2>5. t # x => h[t] = f[t] /\ (x \in s <=> x \in r)
    BY <2>1
  <2>6. t = x => x \in s /\ x \notin r
    BY <2>1
  <2> HIDE DEF t, r
  <2>7. F[s] \in Int /\ H[s] \in Int
    BY <2>1, <2>2, <2>3
  <2>8. IF x \in s THEN H[s] + f[x] = F[s] + h[x] ELSE H[s] = F[s]
    <3>1. CASE t = x
      BY <2>1, <2>2, <2>3, <2>4, <2>6, <3>1
    <3>2. CASE t # x
      BY <2>1, <2>2, <2>3, <2>4, <2>5, <3>2
    <3> QED
      BY <3>1, <3>2
  <2> QED
    BY <2>7, <2>8
<1>3. SUBSET S \subseteq good
  <2> HIDE DEF good
  <2> QED
    BY <1>1, <1>2, TakenInduction
<1>4. S \in good
  BY <1>3
<1>5. H[S] + f[x] = F[S] + h[x]
  BY <1>4
<1>6. SumFunctionOnSet(f, S) \in Nat /\ SumFunctionOnSet(h, S) \in Nat
  BY SumTyped
<1>7. SumFunctionOnSet(f, S) = F[S] /\ SumFunctionOnSet(h, S) = H[S]
  BY <1>8, <1>9 DEF Splits
<1> QED
  BY <1>5, <1>6, <1>7

\* The sum of lesser terms is less or equal.
LEMMA SumMonotone ==
    ASSUME NEW f, NEW h, NEW S, IsFiniteSet(S),
           \A y \in S : f[y] \in Nat /\ h[y] \in Nat /\ f[y] <= h[y]
    PROVE  SumFunctionOnSet(f, S) <= SumFunctionOnSet(h, S)
<1> DEFINE F == PartialSums(f, S)
           H == PartialSums(h, S)
           good == {s \in SUBSET S : F[s] \in Int /\ H[s] \in Int /\ F[s] <= H[s]}
<1>8. Splits(f, F, S)
  BY SumsSplit
<1>9. Splits(h, H, S)
  BY SumsSplit
<1> HIDE DEF F, H
<1>1. {} \in good
  BY <1>8, <1>9 DEF Splits
<1>2. ASSUME NEW s \in SUBSET S, s # {}, s \ {Taken(s)} \in good
      PROVE  s \in good
  <2> DEFINE t == Taken(s)
             r == s \ {Taken(s)}
  <2>1. t \in S /\ F[s] = f[t] + F[r] /\ H[s] = h[t] + H[r]
    BY <1>2, <1>8, <1>9 DEF Splits
  <2>2. F[r] \in Int /\ H[r] \in Int /\ F[r] <= H[r] /\ f[t] \in Nat /\ h[t] \in Nat /\ f[t] <= h[t]
    BY <1>2, <2>1
  <2> HIDE DEF t, r
  <2>3. F[s] \in Int /\ H[s] \in Int /\ F[s] <= H[s]
    BY <2>1, <2>2
  <2> QED
    BY <2>3
<1>3. SUBSET S \subseteq good
  <2> HIDE DEF good
  <2> QED
    BY <1>1, <1>2, TakenInduction
<1>4. F[S] <= H[S]
  BY <1>3
<1>5. SumFunctionOnSet(f, S) = F[S] /\ SumFunctionOnSet(h, S) = H[S]
  BY <1>8, <1>9 DEF Splits
<1> QED
  BY <1>4, <1>5

\* No term is greater than the sum, and a sum of nothing but zeros is zero.
LEMMA SumBounds ==
    ASSUME NEW f, NEW S, IsFiniteSet(S), \A y \in S : f[y] \in Nat
    PROVE  /\ \A x \in S : f[x] <= SumFunctionOnSet(f, S)
           /\ (\A x \in S : f[x] = 0) => SumFunctionOnSet(f, S) = 0
<1>1. ASSUME NEW x \in S
      PROVE  f[x] <= SumFunctionOnSet(f, S)
  <2> DEFINE h == [y \in S |-> IF y = x THEN 0 ELSE f[y]]
  <2>1. \A y \in S : h[y] \in Nat
    OBVIOUS
  <2>2. \A y \in S \ {x} : h[y] = f[y]
    OBVIOUS
  <2>3. h[x] = 0
    OBVIOUS
  <2> HIDE DEF h
  <2>4. /\ SumFunctionOnSet(f, S) \in Nat /\ SumFunctionOnSet(h, S) \in Nat
        /\ SumFunctionOnSet(h, S) + f[x] = SumFunctionOnSet(f, S) + h[x]
    BY <2>1, <2>2, SumUpdated
  <2>5. f[x] \in Nat
    OBVIOUS
  <2> QED
    BY <2>3, <2>4, <2>5
<1>2. ASSUME \A x \in S : f[x] = 0
      PROVE  SumFunctionOnSet(f, S) = 0
  <2> DEFINE F == PartialSums(f, S)
             good == {s \in SUBSET S : F[s] = 0}
  <2>4. Splits(f, F, S)
    BY SumsSplit
  <2> HIDE DEF F
  <2>1. {} \in good /\ \A s \in SUBSET S : s # {} /\ s \ {Taken(s)} \in good => s \in good
    BY <1>2, <2>4 DEF Splits
  <2> HIDE DEF good
  <2>2. SUBSET S \subseteq good
    BY <2>1, TakenInduction
  <2>3. F[S] = 0
    BY <2>2 DEF good
  <2> QED
    BY <2>3, <2>4 DEF Splits
<1> QED
  BY <1>1, <1>2
-----------------------------------------------------------------------------
(* The retention of the segments of a session.                             *)

LEMMA GreaterOf ==
    ASSUME NEW a \in Nat, NEW b \in Nat
    PROVE  Max({a, b}) \in Nat /\ Max({a, b}) \in {a, b} /\ a <= Max({a, b}) /\ b <= Max({a, b})
<1>1. \E x \in {a, b} : \A y \in {a, b} : x >= y
  <2>1. CASE a >= b
    BY <2>1
  <2>2. CASE b >= a
    BY <2>2
  <2> QED
    BY <2>1, <2>2
<1>2. Max({a, b}) \in {a, b} /\ \A y \in {a, b} : Max({a, b}) >= y
  BY <1>1 DEF Max
<1> DEFINE greater == Max({a, b})
<1> HIDE DEF greater
<1>3. greater \in {a, b} /\ greater >= a /\ greater >= b
  BY <1>2 DEF greater
<1>4. greater \in Nat /\ a <= greater /\ b <= greater
  BY <1>3
<1> QED
  BY <1>3, <1>4 DEF greater

\* A playlist takes time if it has a segment.
LEMMA DurationIs ==
    ASSUME RetentionAssumption, NEW list \in Seq(Entries)
    PROVE  Duration(list) \in Nat /\ (Len(list) # 0 => Duration(list) > 0)
<1> DEFINE f == [i \in DOMAIN list |-> list[i].duration]
<1>1. DOMAIN list = 1 .. Len(list) /\ Len(list) \in Nat
  OBVIOUS
<1>2. IsFiniteSet(DOMAIN list)
  BY <1>1, FS_Interval
<1>3. \A i \in DOMAIN list : f[i] \in Nat /\ f[i] > 0
  <2>1. \A i \in DOMAIN list : list[i] \in Entries
    OBVIOUS
  <2>2. \A i \in DOMAIN list : list[i].duration \in Nat \ {0}
    BY <2>1 DEF RetentionAssumption, Entries
  <2> QED
    BY <2>2
<1>4. Duration(list) = SumFunctionOnSet(f, DOMAIN list)
  BY DEF Duration, SumFunction
<1> HIDE DEF f
<1>5. SumFunctionOnSet(f, DOMAIN list) \in Nat
  BY <1>2, <1>3, SumTyped
<1>6. ASSUME Len(list) # 0
      PROVE  SumFunctionOnSet(f, DOMAIN list) > 0
  <2>1. 1 \in DOMAIN list
    BY <1>1, <1>6
  <2>2. f[1] <= SumFunctionOnSet(f, DOMAIN list)
    BY <1>2, <1>3, <2>1, SumBounds
  <2> QED
    BY <1>3, <1>5, <2>1, <2>2
<1> QED
  BY <1>4, <1>5, <1>6

\* append leaves the newest segment.
LEMMA DroppedIs ==
    ASSUME NEW list \in Seq(Entries), Len(list) # 0
    PROVE  Dropped(list) \in Nat /\ Dropped(list) < Len(list)
<1> DEFINE stops == {k \in 0 .. Len(list) : k = Len(list) \/ ~Droppable(list, k + 1)}
<1>1. Len(list) \in Nat
  OBVIOUS
<1>2. stops \in SUBSET Nat /\ Len(list) \in stops
  BY <1>1
<1>3. PICK k \in stops : \A m \in stops : k <= m
  <2> HIDE DEF stops
  <2> QED
    BY <1>2, LeastExists
<1>4. k \in 0 .. Len(list) /\ (k = Len(list) \/ ~Droppable(list, k + 1))
  BY <1>3
<1>5. ASSUME NEW j \in 1 .. k
      PROVE  Droppable(list, j)
  <2>1. j - 1 \in 0 .. Len(list) /\ ~(k <= j - 1) /\ (j - 1) + 1 = j
    BY <1>1, <1>4
  <2>2. j - 1 \notin stops
    BY <1>3, <2>1
  <2> QED
    BY <2>1, <2>2
<1>6. /\ Dropped(list) \in 0 .. Len(list)
      /\ \A j \in 1 .. Dropped(list) : Droppable(list, j)
  BY <1>4, <1>5 DEF Dropped
<1>7. ASSUME Dropped(list) = Len(list)
      PROVE  FALSE
  <2>1. Len(list) \in 1 .. Dropped(list)
    BY <1>1, <1>7
  <2>2. Droppable(list, Len(list))
    BY <1>6, <2>1
  <2> QED
    BY <1>1, <2>2 DEF Droppable
<1> QED
  BY <1>1, <1>6, <1>7

\* The segments are numbered as they are published.
LEMMA PublishedIs ==
    ASSUME RetentionAssumption, NEW last \in 0 .. MaxSegments,
           \A n \in Segments : retained[n].published <=> n <= last
    PROVE  Published(retained) = last
<1>1. {n \in Segments : retained[n].published} = 1 .. last
  BY DEF Segments, RetentionAssumption
<1>2. Cardinality(1 .. last) = last
  BY FS_Interval, RetentionAssumption DEF RetentionAssumption
<1> QED
  BY <1>1, <1>2 DEF Published

\* What every step keeps of one segment.
Keeps(n) ==
    /\ SegmentFits(n)
    /\ promised[n].left > 0 => retained[n].kept
    /\ shutdown = "no" /\ retained[n].kept /\ ~Waiting(n) =>
          \/ retained[n].armed \/ retained[n].version \in retained[n].running
          \/ retained[n].failed # "none"

ListedFits ==
    IF terminal THEN shutdown # "cleared" => (listed <=> \E n \in Segments : retained[n].kept)
    ELSE listed /\ shutdown \in {"no", "closed"}

LEMMA RetentionParts ==
    /\ RetentionIInv <=> /\ RetentionShape /\ WindowFits /\ EntriesFit /\ ListedFits
                         /\ \A n \in Segments : Keeps(n)
    /\ RetentionIInv' <=> /\ RetentionShape' /\ WindowFits' /\ EntriesFit' /\ ListedFits'
                          /\ \A n \in Segments : Keeps(n)'
<1>1. RetentionShape => terminal \in BOOLEAN
  BY DEF RetentionShape
<1>2. RetentionShape' => terminal' \in BOOLEAN
  BY DEF RetentionShape
<1> QED
  BY <1>1, <1>2 DEF RetentionIInv, Keeps, ListedFits, PromiseKept, NothingForgotten, Waiting

\* A step that neither publishes a segment nor changes the playlist.
LEMMA RetentionKeeps ==
    ASSUME RetentionIInv, UNCHANGED playlist, RetentionShape', EntriesFit', ListedFits',
           \A n \in Segments : retained'[n].published = retained[n].published,
           \A n \in Segments : Keeps(n)'
    PROVE  RetentionIInv'
<1>1. WindowFits'
  BY DEF RetentionIInv, WindowFits
<1> QED
  BY <1>1, RetentionParts

\* The shape of the records.
LEMMA RetainedIs ==
    ASSUME RetentionShape, NEW n \in Segments
    PROVE  /\ retained[n] \in RetainedRecords /\ promised[n] \in [longest : Nat, left : Nat]
           /\ retained[n].left \in Nat /\ retained[n].version \in 0 .. MaxVersion
           /\ retained[n].running \in SUBSET (1 .. MaxVersion)
           /\ promised[n].longest \in Nat /\ promised[n].left \in Nat
           /\ retained[n].kept \in BOOLEAN /\ retained[n].failed \in Failures
BY DEF RetentionShape, RetainedRecords

\* A later deadline takes a new version of the timer, which no callback runs for.
LEMMA ScheduleIs ==
    ASSUME RetentionShape, RetentionAssumption, NEW n \in Segments, NEW time \in Nat,
           NEW segment \in RetainedRecords, segment.version < MaxVersion,
           \A version \in segment.running : version <= segment.version,
           segment.version \in segment.running => segment.left = 0,
           segment.armed => segment.version > 0
    PROVE  LET new == Schedule(segment, time)
           IN  /\ new \in RetainedRecords
               /\ new.published = segment.published /\ new.kept = segment.kept
               /\ new.failed = segment.failed
               /\ \A version \in new.running : version <= new.version
               /\ new.version \in new.running => new.left = 0
               /\ new.armed => new.version > 0
               /\ segment.kept => new.left >= time
               /\ new.left >= segment.left
               /\ shutdown = "no" /\ new # segment => new.armed
               /\ shutdown = "no" /\ segment.kept /\ time > segment.left => new.armed
<1>1. segment.version \in Nat /\ segment.left \in Nat /\ MaxVersion \in Nat
      /\ segment.running \in SUBSET (1 .. MaxVersion)
  BY DEF RetainedRecords, RetentionAssumption
<1> DEFINE later == [segment EXCEPT !.left = time, !.version = @ + 1, !.armed = shutdown = "no"]
<1>2. /\ later \in RetainedRecords /\ later.left = time /\ later.version = segment.version + 1
      /\ later.running = segment.running /\ later.failed = segment.failed
      /\ shutdown = "no" => later.armed
      /\ later.published = segment.published /\ later.kept = segment.kept
  <2>1. segment.version + 1 \in 0 .. MaxVersion
    BY <1>1
  <2> QED
    BY <2>1 DEF RetainedRecords
<1>3. \A version \in later.running : version \in Nat /\ version <= segment.version
  BY <1>1, <1>2
<1> HIDE DEF later
<1>4. (\A version \in later.running : version <= later.version) /\ later.version \notin later.running
  BY <1>1, <1>2, <1>3
<1>5. CASE segment.kept /\ time > segment.left
  <2>1. Schedule(segment, time) = later
    BY <1>5 DEF Schedule, later
  <2>2. later.left >= time /\ later.left >= segment.left /\ later.version > 0
    BY <1>1, <1>2, <1>5
  <2> QED
    BY <1>2, <1>4, <2>1, <2>2
<1>6. CASE ~(segment.kept /\ time > segment.left)
  <2>1. Schedule(segment, time) = segment
    BY <1>6 DEF Schedule
  <2> QED
    BY <1>1, <1>6, <2>1
<1> QED
  BY <1>5, <1>6
LEMMA TickKeeps ==
    ASSUME RetentionIInv, RetentionAssumption, Tick
    PROVE  RetentionIInv'
<1>1. UNCHANGED <<playlist, terminal, listed, shutdown>>
  BY DEF Tick
<1>2. RetentionShape
  BY DEF RetentionIInv
<1>3. ASSUME NEW n \in Segments
      PROVE  /\ retained'[n] = [retained[n] EXCEPT !.left = Minus(@)]
             /\ promised'[n] = [promised[n] EXCEPT !.left = Minus(@)]
             /\ retained'[n] \in RetainedRecords /\ promised'[n] \in [longest : Nat, left : Nat]
             /\ retained'[n].left = Minus(retained[n].left)
             /\ promised'[n].left = Minus(promised[n].left)
             /\ promised'[n].longest = promised[n].longest
             /\ \A f \in {"published", "kept", "version", "armed", "running", "failed"} :
                   retained'[n][f] = retained[n][f]
  <2>1. /\ retained'[n] = [retained[n] EXCEPT !.left = Minus(@)]
        /\ promised'[n] = [promised[n] EXCEPT !.left = Minus(@)]
    BY DEF Tick
  <2>2. \A time \in Nat : Minus(time) \in Nat
    BY DEF Minus
  <2>3. Minus(retained[n].left) \in Nat /\ Minus(promised[n].left) \in Nat
    BY <1>2, <2>2, RetainedIs
  <2>4. retained[n] \in RetainedRecords /\ promised[n] \in [longest : Nat, left : Nat]
    BY <1>2, RetainedIs
  <2>5. /\ retained'[n] \in RetainedRecords
        /\ retained'[n].left = Minus(retained[n].left)
        /\ \A f \in {"published", "kept", "version", "armed", "running", "failed"} :
              retained'[n][f] = retained[n][f]
    BY <2>1, <2>3, <2>4 DEF RetainedRecords
  <2>6. /\ promised'[n] \in [longest : Nat, left : Nat]
        /\ promised'[n].left = Minus(promised[n].left)
        /\ promised'[n].longest = promised[n].longest
    BY <2>1, <2>3, <2>4
  <2> QED
    BY <2>1, <2>5, <2>6
<1>4. RetentionShape'
  <2>1. retained' \in [Segments -> RetainedRecords]
    BY <1>3 DEF Tick
  <2>2. promised' \in [Segments -> [longest : Nat, left : Nat]]
    BY <1>3 DEF Tick
  <2> QED
    BY <1>1, <1>2, <2>1, <2>2 DEF RetentionShape
<1>5. EntriesFit'
  <2>1. \A i \in DOMAIN playlist : playlist[i].n \in Segments
    <3>1. \A i \in DOMAIN playlist : playlist[i] \in Entries
      BY <1>2 DEF RetentionShape
    <3> QED
      BY <3>1 DEF Entries
  <2> QED
    BY <1>1, <1>3, <2>1 DEF RetentionIInv, EntriesFit
<1>6. ListedFits'
  BY <1>1, <1>3, RetentionParts DEF ListedFits
<1>7. ASSUME NEW n \in Segments
      PROVE  Keeps(n)'
  <2>1. Keeps(n) /\ (Waiting(n)' <=> Waiting(n))
    BY <1>1, RetentionParts DEF Waiting, InPlaylist
  <2>2. /\ retained[n].left \in Nat /\ promised[n].left \in Nat /\ promised[n].longest \in Nat
        /\ retained[n] \in RetainedRecords
    BY <1>2, RetainedIs
  <2>3. /\ retained'[n].left = Minus(retained[n].left)
        /\ promised'[n].left = Minus(promised[n].left)
        /\ promised'[n].longest = promised[n].longest
        /\ \A f \in {"published", "kept", "version", "armed", "running", "failed"} :
              retained'[n][f] = retained[n][f]
    BY <1>3
  <2>4. retained[n].left = 0 => retained'[n] = retained[n]
    <3> SUFFICES ASSUME retained[n].left = 0
                 PROVE  retained'[n] = retained[n]
      OBVIOUS
    <3>1. retained'[n] = [retained[n] EXCEPT !.left = 0]
      BY <1>3 DEF Minus
    <3> QED
      BY <2>2, <3>1 DEF RetainedRecords
  <2>5. promised[n].left = 0 => promised'[n] = promised[n]
    <3> SUFFICES ASSUME promised[n].left = 0
                 PROVE  promised'[n] = promised[n]
      OBVIOUS
    <3>1. promised'[n] = [promised[n] EXCEPT !.left = 0]
      BY <1>3 DEF Minus
    <3>2. promised[n] \in [longest : Nat, left : Nat]
      BY <1>2, RetainedIs
    <3> QED
      BY <3>1, <3>2
  <2>6. ~retained'[n].published =>
           retained'[n] = Unpublished /\ promised'[n] = [longest |-> 0, left |-> 0]
    BY <2>1, <2>3, <2>4, <2>5 DEF Keeps, SegmentFits, Unpublished
  <2>7. /\ \A version \in retained'[n].running : version <= retained'[n].version
        /\ retained'[n].version \in retained'[n].running => retained'[n].left = 0
        /\ retained'[n].armed => retained'[n].version > 0
    BY <2>1, <2>3, <2>4 DEF Keeps, SegmentFits
  <2>8. promised'[n].left <= IF Waiting(n)' THEN promised'[n].longest ELSE retained'[n].left
    BY <2>1, <2>2, <2>3 DEF Keeps, SegmentFits, Minus
  <2>9. Waiting(n)' => retained'[n] = [Unpublished EXCEPT !.published = TRUE, !.kept = TRUE]
    <3> SUFFICES ASSUME Waiting(n)
                 PROVE  retained'[n] = [Unpublished EXCEPT !.published = TRUE, !.kept = TRUE]
      BY <2>1
    <3>1. retained[n] = [Unpublished EXCEPT !.published = TRUE, !.kept = TRUE]
      BY <2>1 DEF Keeps, SegmentFits
    <3>2. retained[n].left = 0
      BY <3>1 DEF Unpublished
    <3> QED
      BY <2>4, <3>1, <3>2
  <2>10. promised'[n].left > 0 => retained'[n].kept
    BY <2>1, <2>2, <2>3 DEF Keeps, Minus
  <2>11. shutdown' = "no" /\ retained'[n].kept /\ ~Waiting(n)' =>
           \/ retained'[n].armed \/ retained'[n].version \in retained'[n].running
           \/ retained'[n].failed # "none"
    BY <1>1, <2>1, <2>3 DEF Keeps
  <2> QED
    BY <2>6, <2>7, <2>8, <2>9, <2>10, <2>11 DEF Keeps, SegmentFits
<1>8. \A n \in Segments : retained'[n].published = retained[n].published
  BY <1>3
<1> QED
  BY <1>1, <1>4, <1>5, <1>6, <1>7, <1>8, RetentionKeeps

\* Nothing that a step leaves alone of a segment is disturbed by it.
LEMMA UntouchedKeeps ==
    ASSUME NEW n \in Segments, Keeps(n), retained'[n] = retained[n], promised'[n] = promised[n],
           Waiting(n)' <=> Waiting(n), shutdown' = shutdown
    PROVE  Keeps(n)'
BY DEF Keeps, SegmentFits

LEMMA FireKeeps ==
    ASSUME RetentionIInv, RetentionAssumption, NEW n \in Segments, Fire(n)
    PROVE  RetentionIInv'
<1> DEFINE new == [retained[n] EXCEPT !.armed = FALSE, !.running = @ \cup {retained[n].version}]
<1>1. /\ UNCHANGED <<playlist, terminal, listed, promised, shutdown>> /\ RetentionShape
      /\ retained[n].armed /\ retained[n].left = 0
      /\ \A m \in Segments : Keeps(m) /\ (Waiting(m)' <=> Waiting(m))
  BY RetentionParts DEF Fire, Waiting, InPlaylist
<1>2. retained[n] \in RetainedRecords /\ promised[n] \in [longest : Nat, left : Nat]
  BY <1>1, RetainedIs
<1>3. retained' = [retained EXCEPT ![n] = new] /\ retained'[n] = new
      /\ \A m \in Segments \ {n} : retained'[m] = retained[m]
  BY <1>1 DEF Fire, RetentionShape
<1>4. ~Waiting(n) /\ retained[n].published /\ retained[n].version \in 1 .. MaxVersion
  <2>1. ~Waiting(n)
    BY <1>1 DEF Keeps, SegmentFits, Unpublished
  <2>2. retained[n].published
    BY <1>1 DEF Keeps, SegmentFits, Unpublished
  <2>3. retained[n].version \in 0 .. MaxVersion /\ retained[n].version > 0
    BY <1>1, RetainedIs DEF Keeps, SegmentFits
  <2> QED
    BY <2>1, <2>2, <2>3
<1>5. /\ new \in RetainedRecords /\ new.running = retained[n].running \cup {retained[n].version}
      /\ \A f \in {"published", "kept", "left", "version", "failed"} : new[f] = retained[n][f]
      /\ ~new.armed
  <2>1. retained[n].running \cup {retained[n].version} \in SUBSET (1 .. MaxVersion)
    BY <1>1, <1>4, RetainedIs
  <2> QED
    BY <1>2, <2>1 DEF RetainedRecords
<1> HIDE DEF new
<1>6. RetentionShape'
  BY <1>1, <1>3, <1>5 DEF RetentionShape
<1>7. EntriesFit' /\ ListedFits'
  <2>1. EntriesFit'
    BY <1>1 DEF RetentionIInv, EntriesFit
  <2>2. \A m \in Segments : retained'[m].kept = retained[m].kept
    BY <1>3, <1>5
  <2>3. ListedFits'
    BY <1>1, <2>2, RetentionParts DEF ListedFits
  <2> QED
    BY <2>1, <2>3
<1>8. Keeps(n)'
  <2>1. Keeps(n) /\ retained[n].left = 0 /\ ~Waiting(n)' /\ promised'[n] = promised[n]
    BY <1>1, <1>4
  <2>2. \A version \in new.running : version <= new.version
    BY <1>4, <1>5, <2>1 DEF Keeps, SegmentFits
  <2>3. SegmentFits(n)'
    BY <1>3, <1>4, <1>5, <2>1, <2>2 DEF Keeps, SegmentFits
  <2> QED
    BY <1>3, <1>5, <2>1, <2>3 DEF Keeps
<1>9. \A m \in Segments : Keeps(m)' /\ retained'[m].published = retained[m].published
  BY <1>1, <1>3, <1>5, <1>8, UntouchedKeeps
<1> QED
  BY <1>1, <1>6, <1>7, <1>9, RetentionKeeps

\* What retireSegment leaves of a segment: it is gone, or it stays with what failed, or
\* another timer is in charge of it.
Retired(n, version, new) ==
    LET due == retained[n].kept /\ retained[n].version = version
    IN  /\ new \in RetainedRecords /\ new.running = retained[n].running \ {version}
        /\ \A f \in {"published", "left", "version", "armed"} : new[f] = retained[n][f]
        /\ new.kept => retained[n].kept /\ (due => new.failed # "none")
        /\ ~due => new.kept = retained[n].kept /\ new.failed = retained[n].failed

LEMMA RetiredIs ==
    ASSUME RetentionShape, NEW n \in Segments, NEW version \in 1 .. MaxVersion,
           RetireSegment(n, version)
    PROVE  \E new : /\ Retired(n, version, new) /\ retained' = [retained EXCEPT ![n] = new]
                    /\ IF new.kept = retained[n].kept THEN listed' = listed
                       ELSE listed' = (listed /\ ~(terminal /\ \A m \in Segments : ~retained'[m].kept))
<1>1. retained[n] \in RetainedRecords /\ retained[n].kept \in BOOLEAN
  BY RetainedIs
<1> DEFINE returned == [retained[n] EXCEPT !.running = @ \ {version}]
           Due == retained[n].kept /\ retained[n].version = version
<1>2. /\ returned \in RetainedRecords /\ returned.running = retained[n].running \ {version}
      /\ \A f \in {"published", "left", "version", "armed", "kept", "failed"} :
            returned[f] = retained[n][f]
  BY <1>1 DEF RetainedRecords
<1>3. \/ /\ Due
         /\ retained' = [retained EXCEPT ![n] = [returned EXCEPT !.kept = FALSE]]
         /\ listed' = (listed /\ ~(terminal /\ \A m \in Segments : ~retained'[m].kept))
      \/ /\ Due
         /\ \E failure \in RetireFailures(n) :
               retained' = [retained EXCEPT ![n] = [returned EXCEPT !.failed = failure]]
         /\ listed' = listed
      \/ /\ ~Due
         /\ retained' = [retained EXCEPT ![n] = returned] /\ listed' = listed
  BY DEF RetireSegment
<1> HIDE DEF returned
<1>4. CASE /\ Due
           /\ retained' = [retained EXCEPT ![n] = [returned EXCEPT !.kept = FALSE]]
           /\ listed' = (listed /\ ~(terminal /\ \A m \in Segments : ~retained'[m].kept))
  <2> DEFINE new == [returned EXCEPT !.kept = FALSE]
  <2>1. /\ new \in RetainedRecords /\ new.kept = FALSE /\ new.running = returned.running
        /\ \A f \in {"published", "left", "version", "armed"} : new[f] = returned[f]
    BY <1>2 DEF RetainedRecords
  <2> HIDE DEF new
  <2>2. Retired(n, version, new)
    BY <1>2, <1>4, <2>1 DEF Retired
  <2>3. new.kept # retained[n].kept
    BY <1>1, <1>4, <2>1
  <2>4. retained' = [retained EXCEPT ![n] = new]
    BY <1>4 DEF new
  <2> QED
    BY <1>4, <2>2, <2>3, <2>4
<1>5. CASE /\ Due
           /\ \E failure \in RetireFailures(n) :
                 retained' = [retained EXCEPT ![n] = [returned EXCEPT !.failed = failure]]
           /\ listed' = listed
  <2>1. PICK failure \in RetireFailures(n) :
           retained' = [retained EXCEPT ![n] = [returned EXCEPT !.failed = failure]]
    BY <1>5
  <2>2. failure \in Failures /\ failure # "none"
    <3>1. failure \in {"file", "directory"}
      BY <2>1 DEF RetireFailures
    <3> QED
      BY <3>1 DEF Failures
  <2> DEFINE new == [returned EXCEPT !.failed = failure]
  <2>3. /\ new \in RetainedRecords /\ new.failed = failure /\ new.running = returned.running
        /\ \A f \in {"published", "left", "version", "armed", "kept"} : new[f] = returned[f]
    BY <1>2, <2>2 DEF RetainedRecords
  <2> HIDE DEF new
  <2>4. Retired(n, version, new)
    BY <1>2, <1>5, <2>2, <2>3 DEF Retired
  <2>5. retained' = [retained EXCEPT ![n] = new]
    BY <2>1 DEF new
  <2> QED
    BY <1>2, <1>5, <2>3, <2>4, <2>5
<1>6. CASE ~Due /\ retained' = [retained EXCEPT ![n] = returned] /\ listed' = listed
  <2>1. Retired(n, version, returned)
    BY <1>2, <1>6 DEF Retired
  <2> QED
    BY <1>2, <1>6, <2>1
<1> QED
  BY <1>3, <1>4, <1>5, <1>6

LEMMA RetireKeeps ==
    ASSUME RetentionIInv, RetentionAssumption, NEW n \in Segments, NEW version \in 1 .. MaxVersion,
           RetireSegment(n, version)
    PROVE  /\ RetentionIInv'
           /\ \A m \in Segments : promised[m].left > 0 /\ Readable(m) => Readable(m)'
<1>1. /\ UNCHANGED <<playlist, terminal, promised, shutdown>> /\ RetentionShape
      /\ version \in retained[n].running
      /\ \A m \in Segments : Keeps(m) /\ (Waiting(m)' <=> Waiting(m))
  BY RetentionParts DEF RetireSegment, Waiting, InPlaylist
<1>2. PICK new : /\ Retired(n, version, new) /\ retained' = [retained EXCEPT ![n] = new]
                 /\ IF new.kept = retained[n].kept THEN listed' = listed
                    ELSE listed' = (listed /\ ~(terminal /\ \A m \in Segments : ~retained'[m].kept))
  BY <1>1, RetiredIs
<1>3. /\ new \in RetainedRecords /\ new.running = retained[n].running \ {version}
      /\ new.published = retained[n].published /\ new.left = retained[n].left
      /\ new.version = retained[n].version /\ new.armed = retained[n].armed
      /\ new.kept => retained[n].kept
      /\ retained[n].kept /\ retained[n].version = version => ~new.kept \/ new.failed # "none"
      /\ ~(retained[n].kept /\ retained[n].version = version) =>
            new.kept = retained[n].kept /\ new.failed = retained[n].failed
  BY <1>2 DEF Retired
<1>4. retained'[n] = new /\ \A m \in Segments \ {n} : retained'[m] = retained[m]
  BY <1>1, <1>2 DEF RetentionShape
<1>5. RetentionShape'
  <2>1. listed' \in BOOLEAN
    BY <1>1, <1>2 DEF RetentionShape
  <2> QED
    BY <1>1, <1>2, <1>3, <2>1 DEF RetentionShape
<1>6. EntriesFit'
  BY <1>1 DEF RetentionIInv, EntriesFit
<1>7. ListedFits'
  <2>1. ListedFits /\ new.kept \in BOOLEAN /\ retained[n].kept \in BOOLEAN
    BY <1>1, <1>3, RetentionParts, RetainedIs DEF RetainedRecords
  <2>2. CASE new.kept = retained[n].kept
    <3>1. \A m \in Segments : retained'[m].kept = retained[m].kept
      BY <1>4, <2>2
    <3> QED
      BY <1>1, <1>2, <2>1, <2>2, <3>1 DEF ListedFits
  <2>3. CASE new.kept # retained[n].kept
    <3>1. listed' = (listed /\ ~(terminal /\ \A m \in Segments : ~retained'[m].kept))
      BY <1>2, <2>3
    <3>2. retained[n].kept
      BY <1>3, <2>1, <2>3
    <3> QED
      BY <1>1, <1>5, <2>1, <3>1, <3>2 DEF ListedFits, RetentionShape
  <2> QED
    BY <2>2, <2>3
<1>8. /\ Keeps(n) /\ ~Waiting(n) /\ ~Waiting(n)' /\ promised'[n] = promised[n]
      /\ retained[n].published /\ promised[n].left \in Nat
  <2>1. Keeps(n) /\ ~Waiting(n) /\ ~Waiting(n)' /\ promised'[n] = promised[n]
    BY <1>1 DEF Keeps, SegmentFits, Unpublished
  <2>2. retained[n].published
    BY <1>1 DEF Keeps, SegmentFits, Unpublished
  <2> QED
    BY <1>1, <2>1, <2>2, RetainedIs
<1>9. promised[n].left > 0 => new.kept = retained[n].kept /\ new.failed = retained[n].failed
  <2>1. retained[n].version = version => promised[n].left = 0
    BY <1>1, <1>8 DEF Keeps, SegmentFits
  <2> QED
    BY <1>3, <1>8, <2>1
<1>10. Keeps(n)'
  <2>1. SegmentFits(n)'
    BY <1>3, <1>4, <1>8 DEF Keeps, SegmentFits
  <2>2. promised'[n].left > 0 => retained'[n].kept
    BY <1>4, <1>8, <1>9 DEF Keeps
  <2>3. shutdown' = "no" /\ retained'[n].kept =>
           \/ retained'[n].armed \/ retained'[n].version \in retained'[n].running
           \/ retained'[n].failed # "none"
    BY <1>1, <1>3, <1>4, <1>8 DEF Keeps
  <2> QED
    BY <2>1, <2>2, <2>3 DEF Keeps
<1>11. \A m \in Segments : Keeps(m)' /\ retained'[m].published = retained[m].published
  BY <1>1, <1>3, <1>4, <1>10, UntouchedKeeps
<1>12. RetentionIInv'
  BY <1>1, <1>5, <1>6, <1>7, <1>11, RetentionKeeps
<1>13. \A m \in Segments : promised[m].left > 0 /\ Readable(m) => Readable(m)'
  BY <1>4, <1>9 DEF Readable
<1> QED
  BY <1>12, <1>13

LEMMA CloseControllerKeeps ==
    ASSUME RetentionIInv, RetentionAssumption, CloseController
    PROVE  RetentionIInv'
<1>1. /\ UNCHANGED <<playlist, terminal, retained, listed, promised>> /\ shutdown = "no"
      /\ shutdown' = "closed" /\ \A m \in Segments : Keeps(m) /\ (Waiting(m)' <=> Waiting(m))
  BY RetentionParts DEF CloseController, Waiting, InPlaylist
<1>2. RetentionShape' /\ EntriesFit' /\ ListedFits'
  BY <1>1, RetentionParts DEF RetentionShape, EntriesFit, ListedFits
<1>3. \A m \in Segments : Keeps(m)'
  BY <1>1 DEF Keeps, SegmentFits
<1> QED
  BY <1>1, <1>2, <1>3, RetentionKeeps

LEMMA StopRetentionKeeps ==
    ASSUME RetentionIInv, RetentionAssumption, StopRetention
    PROVE  RetentionIInv'
<1>1. /\ UNCHANGED <<playlist, terminal, listed, promised>> /\ shutdown = "closed" /\ terminal
      /\ shutdown' = "shut" /\ RetentionShape
      /\ \A m \in Segments : Keeps(m) /\ ~Waiting(m) /\ ~Waiting(m)'
  BY RetentionParts DEF StopRetention, Waiting, InPlaylist
<1>2. ASSUME NEW m \in Segments
      PROVE  /\ retained'[m] \in RetainedRecords
             /\ \A f \in {"published", "kept", "left", "version", "running", "failed"} :
                   retained'[m][f] = retained[m][f]
             /\ retained'[m].armed => retained[m].armed
             /\ ~retained[m].armed => retained'[m] = retained[m]
  <2>1. retained[m] \in RetainedRecords
    BY <1>1, RetainedIs
  <2>2. retained'[m] = [retained[m] EXCEPT !.armed = @ /\ ~retained[m].kept]
    BY DEF StopRetention
  <2>3. /\ retained'[m] \in RetainedRecords
        /\ \A f \in {"published", "kept", "left", "version", "running", "failed"} :
              retained'[m][f] = retained[m][f]
        /\ retained'[m].armed => retained[m].armed
    BY <2>1, <2>2 DEF RetainedRecords
  <2>4. ASSUME ~retained[m].armed
        PROVE  retained'[m] = retained[m]
    <3>1. retained[m].armed = FALSE
      BY <2>1, <2>4 DEF RetainedRecords
    <3>2. retained'[m] = [retained[m] EXCEPT !.armed = FALSE]
      BY <2>2, <3>1
    <3> QED
      BY <2>1, <3>1, <3>2 DEF RetainedRecords
  <2> QED
    BY <2>3, <2>4
<1>3. RetentionShape'
  <2>1. retained' \in [Segments -> RetainedRecords]
    BY <1>2 DEF StopRetention
  <2> QED
    BY <1>1, <2>1 DEF RetentionShape
<1>4. EntriesFit' /\ ListedFits'
  <2>1. EntriesFit'
    BY <1>1 DEF RetentionIInv, EntriesFit
  <2>2. ListedFits'
    BY <1>1, <1>2, RetentionParts DEF ListedFits
  <2> QED
    BY <2>1, <2>2
<1>5. ASSUME NEW m \in Segments
      PROVE  Keeps(m)'
  <2>1. Keeps(m) /\ ~Waiting(m) /\ ~Waiting(m)' /\ promised'[m] = promised[m]
    BY <1>1
  <2>2. ~retained'[m].published => retained'[m] = Unpublished /\ promised'[m] = [longest |-> 0, left |-> 0]
    <3> SUFFICES ASSUME ~retained'[m].published
                 PROVE  retained'[m] = Unpublished /\ promised'[m] = [longest |-> 0, left |-> 0]
      OBVIOUS
    <3>1. retained[m] = Unpublished /\ promised[m] = [longest |-> 0, left |-> 0]
      BY <1>2, <2>1 DEF Keeps, SegmentFits
    <3>2. ~retained[m].armed
      BY <3>1 DEF Unpublished
    <3> QED
      BY <1>2, <2>1, <3>1, <3>2
  <2>3. SegmentFits(m)'
    BY <1>2, <2>1, <2>2 DEF Keeps, SegmentFits
  <2> QED
    BY <1>1, <1>2, <2>1, <2>3 DEF Keeps
<1> QED
  BY <1>1, <1>2, <1>3, <1>4, <1>5, RetentionKeeps

LEMMA ForgetKeeps ==
    ASSUME RetentionIInv, RetentionAssumption, ForgetSession
    PROVE  RetentionIInv'
<1>1. /\ UNCHANGED <<playlist, terminal, retained, promised>> /\ shutdown = "shut"
      /\ shutdown' = "cleared" /\ listed' = FALSE /\ terminal
      /\ \A m \in Segments : Keeps(m) /\ (Waiting(m)' <=> Waiting(m))
  BY RetentionParts DEF ForgetSession, Waiting, InPlaylist, ListedFits
<1>2. RetentionShape' /\ EntriesFit' /\ ListedFits'
  BY <1>1, RetentionParts DEF RetentionShape, EntriesFit, ListedFits
<1>3. \A m \in Segments : Keeps(m)'
  BY <1>1 DEF Keeps, SegmentFits
<1> QED
  BY <1>1, <1>2, <1>3, RetentionKeeps
\* The segment of an entry of the playlist.
LEMMA EntryIs ==
    ASSUME RetentionIInv
    PROVE  /\ playlist \in Seq(Entries) /\ DOMAIN playlist = 1 .. Len(playlist) /\ Len(playlist) \in Nat
           /\ \A i \in DOMAIN playlist : /\ playlist[i].n \in Segments
                                         /\ playlist[i].duration \in Durations
                                         /\ playlist[i].longest \in Nat
           /\ \A i, j \in DOMAIN playlist : playlist[i].n = playlist[j].n => i = j
<1>1. playlist \in Seq(Entries) /\ DOMAIN playlist = 1 .. Len(playlist) /\ Len(playlist) \in Nat
  BY DEF RetentionIInv, RetentionShape
<1>2. \A i \in DOMAIN playlist : playlist[i] \in Entries
  BY <1>1
<1>3. PICK last \in 0 .. MaxSegments :
         \A i \in DOMAIN playlist : playlist[i].n = last - Len(playlist) + i
  BY DEF RetentionIInv, WindowFits
<1>4. last \in Int
  BY <1>3
<1>5. ASSUME NEW i \in DOMAIN playlist, NEW j \in DOMAIN playlist, playlist[i].n = playlist[j].n
      PROVE  i = j
  BY <1>1, <1>3, <1>4, <1>5
<1> QED
  BY <1>1, <1>2, <1>5 DEF Entries

LEMMA EndPlaylistKeeps ==
    ASSUME RetentionIInv, RetentionAssumption, EndPlaylist
    PROVE  RetentionIInv'
<1>1. /\ UNCHANGED <<playlist, promised, shutdown>> /\ ~terminal /\ terminal' = TRUE /\ RetentionShape
      /\ listed' = \E n \in Segments : retained[n].kept
      /\ \A m \in Segments : Keeps(m) /\ ~Waiting(m)'
  BY RetentionParts DEF EndPlaylist, Waiting
<1>2. ASSUME NEW n \in Segments, n \notin InPlaylist
      PROVE  retained'[n] = retained[n] /\ ~Waiting(n)
  BY <1>2 DEF EndPlaylist, Waiting
<1>3. ASSUME NEW n \in InPlaylist
      PROVE  /\ n \in Segments /\ Waiting(n)
             /\ retained[n] = [Unpublished EXCEPT !.published = TRUE, !.kept = TRUE]
             /\ \E time \in Nat : /\ retained'[n] = Schedule(retained[n], time)
                                  /\ time > 0 /\ promised[n].longest <= time
  <2>1. n \in Segments /\ Waiting(n)
    BY <1>1, <1>3, EntryIs DEF InPlaylist, Waiting
  <2>2. PICK i \in DOMAIN playlist : playlist[i].n = n
    BY <1>3 DEF InPlaylist
  <2>3. (CHOOSE j \in DOMAIN playlist : playlist[j].n = n) = i
    BY <2>2, EntryIs
  <2>4. retained'[n] = Schedule(retained[n], playlist[i].longest)
    BY <1>3, <2>1, <2>3 DEF EndPlaylist
  <2>5. Duration(playlist) <= playlist[i].longest /\ promised[n].longest <= playlist[i].longest
    BY <2>2 DEF RetentionIInv, EntriesFit
  <2>6. Duration(playlist) \in Nat /\ Duration(playlist) > 0 /\ playlist[i].longest \in Nat
    BY <2>2, DurationIs, EntryIs
  <2>7. playlist[i].longest > 0
    BY <2>5, <2>6
  <2>8. retained[n] = [Unpublished EXCEPT !.published = TRUE, !.kept = TRUE]
    BY <1>1, <2>1 DEF Keeps, SegmentFits
  <2> QED
    BY <2>1, <2>4, <2>5, <2>6, <2>7, <2>8
<1>4. ASSUME NEW n \in InPlaylist
      PROVE  /\ retained'[n] \in RetainedRecords /\ retained'[n].kept /\ retained'[n].published
             /\ retained[n].kept /\ retained[n].published /\ Keeps(n)'
  <2>1. PICK time \in Nat : /\ retained'[n] = Schedule(retained[n], time)
                            /\ time > 0 /\ promised[n].longest <= time
    BY <1>3
  <2>2. /\ n \in Segments /\ Keeps(n) /\ ~Waiting(n)' /\ promised'[n] = promised[n]
        /\ promised[n].left <= promised[n].longest
    BY <1>1, <1>3 DEF Keeps, SegmentFits
  <2>3. /\ retained[n].version = 0 /\ retained[n].kept /\ retained[n].published
        /\ retained[n].left = 0 /\ ~retained[n].armed /\ retained[n].running = {}
    BY <1>3 DEF Unpublished
  <2>4. retained[n] \in RetainedRecords /\ 0 < MaxVersion
    BY <1>1, <2>2, RetainedIs DEF RetentionAssumption
  <2>5. /\ retained'[n] \in RetainedRecords
        /\ retained'[n].published /\ retained'[n].kept
        /\ \A version \in retained'[n].running : version <= retained'[n].version
        /\ retained'[n].version \in retained'[n].running => retained'[n].left = 0
        /\ retained'[n].armed => retained'[n].version > 0
        /\ retained'[n].left >= time /\ (shutdown = "no" => retained'[n].armed)
    <3> DEFINE old == retained[n]
    <3>1. old \in RetainedRecords /\ old.version < MaxVersion /\ old.kept /\ old.published
          /\ (\A version \in old.running : version <= old.version)
          /\ (old.version \in old.running => old.left = 0) /\ (old.armed => old.version > 0)
          /\ time > old.left
      BY <2>1, <2>3, <2>4
    <3> HIDE DEF old
    <3>2. retained'[n] = Schedule(old, time)
      BY <2>1 DEF old
    <3> QED
      BY <1>1, <2>2, <3>1, <3>2, ScheduleIs
  <2>6. promised[n].left <= retained'[n].left
    BY <1>1, <2>1, <2>2, <2>5, RetainedIs DEF RetainedRecords
  <2>7. Keeps(n)'
    BY <1>1, <2>2, <2>5, <2>6 DEF Keeps, SegmentFits
  <2> QED
    BY <2>3, <2>5, <2>7
<1>5. \A n \in Segments : /\ retained'[n] \in RetainedRecords
                          /\ retained'[n].published = retained[n].published
                          /\ retained'[n].kept = retained[n].kept
                          /\ Keeps(n)'
  <2> SUFFICES ASSUME NEW n \in Segments
               PROVE  /\ retained'[n] \in RetainedRecords
                      /\ retained'[n].published = retained[n].published
                      /\ retained'[n].kept = retained[n].kept
                      /\ Keeps(n)'
    OBVIOUS
  <2>1. CASE n \in InPlaylist
    <3>1. retained[n] \in RetainedRecords
      BY <1>1, RetainedIs
    <3> QED
      BY <1>4, <2>1, <3>1 DEF RetainedRecords
  <2>2. CASE n \notin InPlaylist
    <3>1. retained'[n] = retained[n] /\ promised'[n] = promised[n] /\ (Waiting(n)' <=> Waiting(n))
      BY <1>1, <1>2, <2>2
    <3> QED
      BY <1>1, <3>1, RetainedIs, UntouchedKeeps
  <2> QED
    BY <2>1, <2>2
<1>6. RetentionShape'
  <2>1. retained' \in [Segments -> RetainedRecords]
    BY <1>5 DEF EndPlaylist
  <2> QED
    BY <1>1, <2>1 DEF RetentionShape
<1>7. EntriesFit' /\ ListedFits'
  BY <1>1, <1>5 DEF RetentionIInv, EntriesFit, ListedFits
<1> QED
  BY <1>1, <1>5, <1>6, <1>7, RetentionKeeps

\* A player that reads a playlist is promised its segments: of the running playlist
\* they have no deadline yet, of the last one it is put off.
LEMMA RenderKeeps ==
    ASSUME RetentionIInv, RetentionAssumption, Render
    PROVE  RetentionIInv'
<1> DEFINE time == Duration(playlist)
<1>1. /\ UNCHANGED <<playlist, terminal, listed, shutdown>> /\ RetentionShape /\ terminal \in BOOLEAN
      /\ \A m \in Segments : Keeps(m) /\ (Waiting(m)' <=> Waiting(m))
      /\ \A m \in InPlaylist : retained[m].kept /\ retained[m].version < MaxVersion
  BY RetentionParts DEF Render, Waiting, InPlaylist, RetentionShape
<1>2. time \in Nat /\ InPlaylist \subseteq Segments
  BY DurationIs, EntryIs DEF InPlaylist
<1>3. ASSUME NEW n \in Segments, n \notin InPlaylist
      PROVE  retained'[n] = retained[n] /\ promised'[n] = promised[n]
  BY <1>3 DEF Render
<1>4. ASSUME NEW n \in InPlaylist
      PROVE  /\ retained'[n] = IF terminal THEN Schedule(retained[n], time) ELSE retained[n]
             /\ promised'[n] = [longest |-> Max({promised[n].longest, time}),
                                left |-> Max({promised[n].left, time})]
             /\ promised'[n].longest \in Nat /\ promised'[n].left \in Nat
             /\ promised'[n].longest \in {promised[n].longest, time} /\ time <= promised'[n].longest
             /\ promised[n].longest <= promised'[n].longest
             /\ promised'[n].left \in {promised[n].left, time}
  <2>1. /\ retained'[n] = IF terminal THEN Schedule(retained[n], time) ELSE retained[n]
        /\ promised'[n] = [longest |-> Max({promised[n].longest, time}),
                           left |-> Max({promised[n].left, time})]
    BY <1>2 DEF Render
  <2>2. promised[n].longest \in Nat /\ promised[n].left \in Nat
    BY <1>1, <1>2, RetainedIs
  <2> HIDE DEF time
  <2>3. /\ Max({promised[n].longest, time}) \in Nat /\ Max({promised[n].left, time}) \in Nat
        /\ Max({promised[n].longest, time}) \in {promised[n].longest, time}
        /\ Max({promised[n].left, time}) \in {promised[n].left, time}
        /\ time <= Max({promised[n].longest, time})
        /\ promised[n].longest <= Max({promised[n].longest, time})
    BY <1>2, <2>2, GreaterOf
  <2> QED
    BY <2>1, <2>3
<1>5. ASSUME NEW n \in InPlaylist
      PROVE  /\ retained'[n] \in RetainedRecords /\ Keeps(n)'
             /\ retained'[n].published = retained[n].published
             /\ retained'[n].kept = retained[n].kept
  <2>1. /\ n \in Segments /\ Keeps(n) /\ retained[n].kept /\ retained[n].version < MaxVersion
        /\ retained[n] \in RetainedRecords /\ (Waiting(n)' <=> Waiting(n))
        /\ (Waiting(n) <=> ~terminal) /\ promised[n].left \in Nat /\ promised[n].longest \in Nat
    BY <1>1, <1>2, <1>5, RetainedIs DEF Waiting
  <2>2. retained[n].published
    BY <2>1 DEF Keeps, SegmentFits, Unpublished
  <2>3. CASE terminal
    <3> DEFINE old == retained[n]
    <3>1. /\ old \in RetainedRecords /\ old.version < MaxVersion /\ old.kept /\ old.published
          /\ (\A version \in old.running : version <= old.version)
          /\ (old.version \in old.running => old.left = 0) /\ (old.armed => old.version > 0)
          /\ (shutdown = "no" => old.armed \/ old.version \in old.running \/ old.failed # "none")
          /\ promised[n].left <= old.left
      BY <2>1, <2>2, <2>3 DEF Keeps, SegmentFits
    <3>2. retained'[n] = Schedule(old, time)
      BY <1>4, <2>3
    <3> HIDE DEF old, time
    <3>3. /\ retained'[n] \in RetainedRecords
          /\ retained'[n].published = old.published /\ retained'[n].kept = old.kept
          /\ retained'[n].failed = old.failed
          /\ \A version \in retained'[n].running : version <= retained'[n].version
          /\ retained'[n].version \in retained'[n].running => retained'[n].left = 0
          /\ retained'[n].armed => retained'[n].version > 0
          /\ retained'[n].left >= time /\ retained'[n].left >= old.left
          /\ shutdown = "no" /\ retained'[n] # old => retained'[n].armed
      <4> DEFINE new == Schedule(old, time)
      <4>1. RetentionShape /\ n \in Segments /\ time \in Nat
        BY <1>1, <1>2, <2>1
      <4>2. /\ new \in RetainedRecords /\ new.published = old.published /\ new.kept = old.kept
            /\ new.failed = old.failed
            /\ \A version \in new.running : version <= new.version
            /\ new.version \in new.running => new.left = 0
            /\ new.armed => new.version > 0
            /\ old.kept => new.left >= time
            /\ new.left >= old.left
            /\ shutdown = "no" /\ new # old => new.armed
        BY <3>1, <4>1, ScheduleIs
      <4> HIDE DEF new
      <4>3. retained'[n] = new
        BY <3>2 DEF new
      <4> QED
        BY <3>1, <4>2, <4>3
    <3>4. old.left \in Nat /\ retained'[n].left \in Nat /\ promised'[n].left \in {promised[n].left, time}
      BY <1>4, <3>1, <3>3 DEF RetainedRecords
    <3>5. promised'[n].left <= retained'[n].left
      BY <1>2, <2>1, <3>1, <3>3, <3>4
    <3>6. shutdown' = "no" => \/ retained'[n].armed \/ retained'[n].version \in retained'[n].running
                             \/ retained'[n].failed # "none"
      BY <1>1, <3>1, <3>3
    <3>7. Keeps(n)'
      BY <2>1, <2>3, <3>1, <3>3, <3>5, <3>6 DEF Keeps, SegmentFits
    <3> QED
      BY <3>3, <3>7 DEF old
  <2>4. CASE ~terminal
    <3>1. retained'[n] = retained[n]
      BY <1>4, <2>4
    <3>2. promised[n].left <= promised[n].longest /\ Waiting(n)
      BY <2>1, <2>4 DEF Keeps, SegmentFits
    <3>3. /\ promised'[n].left \in {promised[n].left, time} /\ time <= promised'[n].longest
          /\ promised[n].longest <= promised'[n].longest
          /\ promised'[n].longest \in Nat
      BY <1>4
    <3> HIDE DEF time
    <3>4. promised'[n].left <= promised'[n].longest
      BY <1>2, <2>1, <3>2, <3>3
    <3>5. SegmentFits(n)'
      BY <2>1, <2>2, <3>1, <3>2, <3>4 DEF Keeps, SegmentFits
    <3> QED
      BY <2>1, <3>1, <3>2, <3>5 DEF Keeps
  <2> QED
    BY <1>1, <2>3, <2>4
<1>6. \A n \in Segments : /\ retained'[n] \in RetainedRecords
                          /\ retained'[n].published = retained[n].published
                          /\ retained'[n].kept = retained[n].kept
                          /\ promised'[n] \in [longest : Nat, left : Nat]
                          /\ Keeps(n)'
  <2> SUFFICES ASSUME NEW n \in Segments
               PROVE  /\ retained'[n] \in RetainedRecords
                      /\ retained'[n].published = retained[n].published
                      /\ retained'[n].kept = retained[n].kept
                      /\ promised'[n] \in [longest : Nat, left : Nat]
                      /\ Keeps(n)'
    OBVIOUS
  <2>1. CASE n \in InPlaylist
    <3>1. promised'[n] \in [longest : Nat, left : Nat]
      <4>1. /\ promised'[n] = [longest |-> Max({promised[n].longest, time}),
                               left |-> Max({promised[n].left, time})]
            /\ promised'[n].longest \in Nat /\ promised'[n].left \in Nat
        BY <1>4, <2>1
      <4> HIDE DEF time
      <4> QED
        BY <4>1
    <3> QED
      BY <1>5, <2>1, <3>1
  <2>2. CASE n \notin InPlaylist
    <3>1. /\ retained'[n] = retained[n] /\ promised'[n] = promised[n] /\ (Waiting(n)' <=> Waiting(n))
          /\ retained[n] \in RetainedRecords /\ promised[n] \in [longest : Nat, left : Nat]
      BY <1>1, <1>3, <2>2, RetainedIs
    <3> QED
      BY <1>1, <3>1, UntouchedKeeps
  <2> QED
    BY <2>1, <2>2
<1>7. RetentionShape'
  <2>1. retained' \in [Segments -> RetainedRecords] /\ promised' \in [Segments -> [longest : Nat, left : Nat]]
    BY <1>6 DEF Render
  <2> QED
    BY <1>1, <2>1 DEF RetentionShape
<1>8. EntriesFit'
  <2> SUFFICES ASSUME NEW i \in DOMAIN playlist
               PROVE  /\ Duration(playlist) <= playlist[i].longest
                      /\ promised'[playlist[i].n].longest <= playlist[i].longest
    BY <1>1 DEF EntriesFit
  <2>1. /\ Duration(playlist) <= playlist[i].longest
        /\ promised[playlist[i].n].longest <= playlist[i].longest
    BY DEF RetentionIInv, EntriesFit
  <2>2. playlist[i].n \in InPlaylist
    BY DEF InPlaylist
  <2>3. promised'[playlist[i].n].longest \in {promised[playlist[i].n].longest, time}
    BY <1>4, <2>2
  <2> QED
    BY <2>1, <2>3
<1>9. ListedFits'
  BY <1>1, <1>6, RetentionParts DEF ListedFits
<1> QED
  BY <1>1, <1>6, <1>7, <1>8, <1>9, RetentionKeeps
\* What emit makes of the window: the segments of the new playlist are those of the
\* old one and the new segment but for the oldest, of which there may be none.
AppendFits(last, duration, list, drop, rest) ==
    /\ last \in Nat /\ last + 1 \in Segments /\ Published(retained) + 1 = last + 1
    /\ Len(playlist) \in Nat /\ Len(playlist) <= last /\ drop \in Nat /\ drop <= Len(playlist)
    /\ \A n \in Segments : retained[n].published <=> n <= last
    /\ \A i \in 1 .. Len(playlist) : list[i] = playlist[i] /\ playlist[i].n = last - Len(playlist) + i
    /\ list[Len(playlist) + 1] = [n |-> last + 1, duration |-> duration, longest |-> 0]
    /\ rest \in Seq(Entries) /\ Len(rest) = Len(playlist) + 1 - drop
    /\ DOMAIN rest = 1 .. Len(rest) /\ Len(rest) \in Nat
    /\ \A i \in DOMAIN rest : rest[i] = list[drop + i]

LEMMA AppendIs ==
    ASSUME RetentionIInv, RetentionAssumption, NEW duration \in Durations,
           AppendSegment(duration)
    PROVE  LET list == Append(playlist, [n |-> Published(retained) + 1, duration |-> duration,
                                         longest |-> 0])
               drop == Dropped(list)
               rest == SubSeq(list, drop + 1, Len(list))
           IN  \E last \in 0 .. MaxSegments : AppendFits(last, duration, list, drop, rest)
<1>1. PICK last \in 0 .. MaxSegments :
         /\ \A n \in Segments : retained[n].published <=> n <= last
         /\ Len(playlist) <= last
         /\ \A i \in DOMAIN playlist : playlist[i].n = last - Len(playlist) + i
  BY DEF RetentionIInv, WindowFits
<1>2. Published(retained) = last /\ MaxSegments \in Nat
  BY <1>1, PublishedIs DEF RetentionAssumption
<1>3. last \in Nat /\ last + 1 \in Segments
  BY <1>1, <1>2 DEF AppendSegment, Segments
<1> DEFINE entry == [n |-> last + 1, duration |-> duration, longest |-> 0]
           list == Append(playlist, entry)
           drop == Dropped(list)
           rest == SubSeq(list, drop + 1, Len(list))
<1>4. entry \in Entries
  BY <1>3 DEF Entries
<1>5. playlist \in Seq(Entries) /\ Len(playlist) \in Nat /\ DOMAIN playlist = 1 .. Len(playlist)
  BY EntryIs
<1> HIDE DEF entry
<1>6. /\ list \in Seq(Entries) /\ Len(list) = Len(playlist) + 1
      /\ \A i \in 1 .. Len(playlist) : list[i] = playlist[i]
      /\ list[Len(playlist) + 1] = entry
  BY <1>4, <1>5
<1> HIDE DEF list
<1>7. drop \in Nat /\ drop < Len(list) /\ drop <= Len(playlist)
  BY <1>5, <1>6, DroppedIs
<1> HIDE DEF drop
<1>8. /\ rest \in Seq(Entries) /\ Len(rest) = Len(list) - drop
      /\ DOMAIN rest = 1 .. Len(rest) /\ Len(rest) \in Nat
      /\ \A i \in DOMAIN rest : rest[i] = list[drop + i]
  <2>1. \A i \in (drop + 1) .. Len(list) : list[i] \in Entries
    BY <1>5, <1>6, <1>7
  <2>2. /\ rest \in Seq(Entries)
        /\ Len(rest) = IF drop + 1 <= Len(list) THEN Len(list) - (drop + 1) + 1 ELSE 0
        /\ \A i \in 1 .. (Len(list) - (drop + 1) + 1) : rest[i] = list[drop + 1 + i - 1]
    BY <1>5, <1>6, <1>7, <2>1, SubSeqProperties
  <2>3. Len(rest) = Len(list) - drop /\ Len(rest) \in Nat /\ DOMAIN rest = 1 .. Len(rest)
    BY <1>5, <1>6, <1>7, <2>2
  <2>4. ASSUME NEW i \in DOMAIN rest
        PROVE  rest[i] = list[drop + i]
    <3>1. i \in Nat /\ i \in 1 .. (Len(list) - (drop + 1) + 1) /\ drop + 1 + i - 1 = drop + i
      BY <1>5, <1>6, <1>7, <2>3
    <3> QED
      BY <2>2, <3>1
  <2> QED
    BY <2>2, <2>3, <2>4
<1>9. AppendFits(last, duration, list, drop, rest)
  <2>1. Len(rest) = Len(playlist) + 1 - drop
    BY <1>5, <1>6, <1>7, <1>8
  <2> HIDE DEF rest
  <2> QED
    BY <1>1, <1>2, <1>3, <1>5, <1>6, <1>7, <1>8, <2>1 DEF AppendFits, entry
<1> QED
  BY <1>2, <1>9 DEF entry, list, drop
\* The step of AppendSegment in those terms.
Gone(list, drop, m) == {i \in 1 .. drop : list[i].n = m}
Appends(last, duration, list, drop, rest) ==
    /\ AppendFits(last, duration, list, drop, rest)
    /\ ~terminal /\ UNCHANGED <<terminal, listed, shutdown>>
    /\ playlist' = [i \in DOMAIN rest |-> [rest[i] EXCEPT !.longest = Max({@, Duration(rest)})]]
    /\ retained' = [m \in Segments |->
          IF m = Published(retained) + 1 THEN [Unpublished EXCEPT !.published = TRUE, !.kept = TRUE]
          ELSE IF Gone(list, drop, m) = {} THEN retained[m]
          ELSE Schedule(retained[m], RetainFor(list[CHOOSE i \in Gone(list, drop, m) : TRUE]))]
    /\ promised' = [m \in Segments |->
          IF Gone(list, drop, m) = {} \/ promised[m].longest = 0 THEN promised[m]
          ELSE [promised[m] EXCEPT !.left = Max({@, promised[m].longest +
                                       list[CHOOSE i \in Gone(list, drop, m) : TRUE].duration})]]

LEMMA AppendsIs ==
    ASSUME RetentionIInv, RetentionAssumption, NEW duration \in Durations,
           AppendSegment(duration)
    PROVE  \E last \in 0 .. MaxSegments : \E list, drop, rest :
              Appends(last, duration, list, drop, rest)
<1> DEFINE n == Published(retained) + 1
           list == Append(playlist, [n |-> n, duration |-> duration, longest |-> 0])
           drop == Dropped(list)
           rest == SubSeq(list, drop + 1, Len(list))
<1>1. PICK last \in 0 .. MaxSegments : AppendFits(last, duration, list, drop, rest)
  BY AppendIs
<1>3. /\ ~terminal /\ UNCHANGED <<terminal, listed, shutdown>>
      /\ playlist' = [i \in DOMAIN rest |-> [rest[i] EXCEPT !.longest = Max({@, Duration(rest)})]]
      /\ retained' = [m \in Segments |->
            IF m = Published(retained) + 1 THEN [Unpublished EXCEPT !.published = TRUE, !.kept = TRUE]
            ELSE IF Gone(list, drop, m) = {} THEN retained[m]
            ELSE Schedule(retained[m], RetainFor(list[CHOOSE i \in Gone(list, drop, m) : TRUE]))]
      /\ promised' = [m \in Segments |->
            IF Gone(list, drop, m) = {} \/ promised[m].longest = 0 THEN promised[m]
            ELSE [promised[m] EXCEPT !.left = Max({@, promised[m].longest +
                                         list[CHOOSE i \in Gone(list, drop, m) : TRUE].duration})]]
  BY Zenon DEF AppendSegment, Gone
<1> HIDE DEF n, list, drop, rest
<1>4. Appends(last, duration, list, drop, rest)
  BY <1>1, <1>3, Zenon DEF Appends
<1> QED
  BY <1>4

\* The new playlist.
LEMMA WindowAfter ==
    ASSUME RetentionIInv, RetentionAssumption, NEW duration \in Durations,
           NEW last \in 0 .. MaxSegments, NEW list, NEW drop, NEW rest,
           Appends(last, duration, list, drop, rest)
    PROVE  /\ playlist' \in Seq(Entries) /\ Len(playlist') = Len(rest)
           /\ DOMAIN playlist' = DOMAIN rest
           /\ \A i \in DOMAIN rest :
                 /\ playlist'[i].n = rest[i].n
                 /\ rest[i].n = last + 1 - Len(rest) + i
                 /\ rest[i].longest <= playlist'[i].longest
                 /\ Duration(playlist)' <= playlist'[i].longest
<1>1. AppendFits(last, duration, list, drop, rest)
  BY DEF Appends
<1>2. /\ rest \in Seq(Entries) /\ DOMAIN rest = 1 .. Len(rest) /\ Len(rest) \in Nat
      /\ Len(rest) = Len(playlist) + 1 - drop
  BY <1>1 DEF AppendFits
<1>3. Duration(rest) \in Nat
  BY <1>2, DurationIs
<1> DEFINE new(i) == [rest[i] EXCEPT !.longest = Max({@, Duration(rest)})]
<1>4. ASSUME NEW i \in DOMAIN rest
      PROVE  /\ new(i) \in Entries /\ new(i).n = rest[i].n /\ new(i).duration = rest[i].duration
             /\ rest[i].longest <= new(i).longest /\ Duration(rest) <= new(i).longest
  <2>1. rest[i] \in Entries
    BY <1>2
  <2>2. rest[i].longest \in Nat
    BY <2>1 DEF Entries
  <2> DEFINE longest == Max({rest[i].longest, Duration(rest)})
  <2>3. longest \in Nat /\ rest[i].longest <= longest /\ Duration(rest) <= longest
    BY <1>3, <2>2, GreaterOf
  <2>4. new(i) = [rest[i] EXCEPT !.longest = longest]
    OBVIOUS
  <2> HIDE DEF longest, new
  <2> QED
    BY <2>1, <2>3, <2>4 DEF Entries
<1>5. playlist' = [i \in 1 .. Len(rest) |-> new(i)]
  BY <1>2 DEF Appends
<1> HIDE DEF new
<1>6. playlist' \in [1 .. Len(rest) -> Entries]
  BY <1>2, <1>4, <1>5
<1>7. playlist' \in Seq(Entries) /\ Len(playlist') = Len(rest) /\ DOMAIN playlist' = DOMAIN rest
  BY <1>2, <1>5, <1>6
<1>8. Duration(playlist)' = Duration(rest)
  <2>1. \A i \in DOMAIN rest : playlist'[i].duration = rest[i].duration
    BY <1>2, <1>4, <1>5
  <2>2. [i \in DOMAIN playlist' |-> playlist'[i].duration] = [i \in DOMAIN rest |-> rest[i].duration]
    BY <1>7, <2>1
  <2> QED
    BY <2>2 DEF Duration
<1>9. ASSUME NEW i \in DOMAIN rest
      PROVE  rest[i].n = last + 1 - Len(rest) + i
  <2>1. /\ i \in 1 .. Len(rest) /\ Len(rest) = Len(playlist) + 1 - drop
        /\ Len(playlist) \in Nat /\ drop \in Nat /\ drop <= Len(playlist) /\ last \in Nat
    BY <1>1, <1>2 DEF AppendFits
  <2>2. rest[i] = list[drop + i]
    BY <1>1 DEF AppendFits
  <2>3. CASE drop + i \in 1 .. Len(playlist)
    <3>1. list[drop + i].n = last - Len(playlist) + (drop + i)
      BY <1>1, <2>3 DEF AppendFits
    <3> QED
      BY <2>1, <2>2, <3>1
  <2>4. CASE drop + i = Len(playlist) + 1
    <3>1. list[drop + i].n = last + 1
      BY <1>1, <2>4 DEF AppendFits
    <3> QED
      BY <2>1, <2>2, <2>4, <3>1, SMTT(30)
  <2>5. drop + i \in 1 .. Len(playlist) \/ drop + i = Len(playlist) + 1
    <3>1. i \in Nat /\ 1 <= i /\ i <= Len(playlist) + 1 - drop
      BY <2>1
    <3> QED
      BY <2>1, <3>1
  <2> QED
    BY <2>3, <2>4, <2>5
<1> QED
  BY <1>2, <1>4, <1>5, <1>7, <1>8, <1>9

\* Which segments that leaves in it, and the entry of one that left it.
LEMMA InPlaylistAfter ==
    ASSUME RetentionIInv, RetentionAssumption, NEW duration \in Durations,
           NEW last \in 0 .. MaxSegments, NEW list, NEW drop, NEW rest,
           Appends(last, duration, list, drop, rest), NEW m \in Segments
    PROVE  /\ m \in InPlaylist' <=> (m \in InPlaylist /\ Gone(list, drop, m) = {}) \/ m = last + 1
           /\ m = last + 1 => Gone(list, drop, m) = {} /\ m \notin InPlaylist
           /\ Gone(list, drop, m) # {} =>
                 \E i \in DOMAIN playlist :
                    /\ (CHOOSE j \in Gone(list, drop, m) : TRUE) = i
                    /\ playlist[i].n = m /\ list[i] = playlist[i] /\ m \in InPlaylist
<1>1. AppendFits(last, duration, list, drop, rest)
  BY DEF Appends
<1> DEFINE L == Len(playlist)
<1>2. /\ last \in Nat /\ L \in Nat /\ L <= last /\ drop \in Nat /\ drop <= L
      /\ Len(rest) = L + 1 - drop /\ m \in Nat /\ DOMAIN playlist = 1 .. L
      /\ DOMAIN rest = 1 .. Len(rest)
  BY <1>1, EntryIs DEF AppendFits, Segments
<1>3. \A i \in 1 .. L : list[i] = playlist[i] /\ playlist[i].n = last - L + i
  BY <1>1 DEF AppendFits
<1> HIDE DEF L
<1>4. m \in InPlaylist <=> m - (last - L) \in 1 .. L
  <2>1. ASSUME NEW i \in 1 .. L
        PROVE  playlist[i].n = m <=> i = m - (last - L)
    <3>1. i \in Int /\ playlist[i].n = last - L + i
      BY <1>2, <1>3
    <3> QED
      BY <1>2, <3>1
  <2>2. m \in InPlaylist <=> \E i \in 1 .. L : playlist[i].n = m
    BY <1>2 DEF InPlaylist
  <2> QED
    BY <1>2, <2>1, <2>2
<1>5. m \in InPlaylist' <=> m - (last - L) \in (drop + 1) .. (L + 1)
  <2>4. \A i \in DOMAIN rest : playlist'[i].n = rest[i].n /\ rest[i].n = last + 1 - Len(rest) + i
    BY WindowAfter
  <2>1. ASSUME NEW i \in 1 .. Len(rest)
        PROVE  playlist'[i].n = m <=> i = m - (last - L) - drop
    <3>1. i \in Int /\ Len(rest) = L + 1 - drop
      BY <1>2
    <3>2. playlist'[i].n = last + 1 - Len(rest) + i
      BY <1>2, <2>4
    <3>3. playlist'[i].n = last + 1 - (L + 1 - drop) + i
      BY <3>1, <3>2
    <3> QED
      BY <1>2, <3>1, <3>3
  <2>2. m \in InPlaylist' <=> \E i \in 1 .. Len(rest) : playlist'[i].n = m
    BY <1>2, WindowAfter, SMTT(30) DEF InPlaylist
  <2>3. m \in InPlaylist' <=> m - (last - L) - drop \in 1 .. Len(rest)
    BY <2>1, <2>2
  <2> QED
    BY <1>2, <2>3
<1>6. \A i \in 1 .. drop : i \in Gone(list, drop, m) <=> i = m - (last - L)
  <2> SUFFICES ASSUME NEW i \in 1 .. drop
               PROVE  i \in Gone(list, drop, m) <=> i = m - (last - L)
    OBVIOUS
  <2>1. i \in 1 .. L /\ i \in Int
    BY <1>2
  <2>2. list[i].n = last - L + i
    BY <1>3, <2>1
  <2>3. i \in Gone(list, drop, m) <=> last - L + i = m
    BY <2>2 DEF Gone
  <2> QED
    BY <1>2, <2>1, <2>3
<1>7. Gone(list, drop, m) = {} <=> m - (last - L) \notin 1 .. drop
  <2>1. Gone(list, drop, m) \subseteq 1 .. drop
    BY DEF Gone
  <2> QED
    BY <1>2, <1>6, <2>1
<1>8. ASSUME Gone(list, drop, m) # {}
      PROVE  \E i \in DOMAIN playlist :
                /\ (CHOOSE j \in Gone(list, drop, m) : TRUE) = i
                /\ playlist[i].n = m /\ list[i] = playlist[i] /\ m \in InPlaylist
  <2> DEFINE i == CHOOSE j \in Gone(list, drop, m) : TRUE
  <2>1. i \in Gone(list, drop, m)
    BY <1>8
  <2> HIDE DEF i
  <2>2. i \in 1 .. drop /\ list[i].n = m
    BY <2>1 DEF Gone
  <2>3. i \in 1 .. L
    BY <1>2, <2>2
  <2>4. list[i] = playlist[i] /\ m \in InPlaylist
    BY <1>2, <1>3, <2>2, <2>3 DEF InPlaylist
  <2> QED
    BY <1>2, <2>2, <2>3, <2>4 DEF i
<1>9. m = last + 1 => Gone(list, drop, m) = {} /\ m \notin InPlaylist
  BY <1>2, <1>4, <1>7
<1>10. m \in InPlaylist' <=> (m \in InPlaylist /\ Gone(list, drop, m) = {}) \/ m = last + 1
  BY <1>2, <1>4, <1>5, <1>7
<1> QED
  BY <1>8, <1>9, <1>10
\* A segment that leaves the window gets the deadline that the playlists given out
\* promised, and its own duration more.
LEMMA LeaverKeeps ==
    ASSUME RetentionIInv, RetentionAssumption, NEW duration \in Durations,
           NEW last \in 0 .. MaxSegments, NEW list, NEW drop, NEW rest,
           Appends(last, duration, list, drop, rest), NEW m \in Segments,
           Gone(list, drop, m) # {}
    PROVE  /\ retained'[m] \in RetainedRecords /\ promised'[m] \in [longest : Nat, left : Nat]
           /\ promised'[m].longest = promised[m].longest
           /\ Keeps(m)' /\ retained'[m].published /\ retained[m].published
<1>1. PICK i \in DOMAIN playlist :
         /\ (CHOOSE j \in Gone(list, drop, m) : TRUE) = i
         /\ playlist[i].n = m /\ list[i] = playlist[i] /\ m \in InPlaylist
  BY InPlaylistAfter
<1>2. m # last + 1 /\ ~Waiting(m)' /\ last + 1 = Published(retained) + 1
  <2>1. m # last + 1
    BY InPlaylistAfter
  <2>2. m \notin InPlaylist'
    BY <2>1, InPlaylistAfter
  <2>3. ~Waiting(m)'
    BY <2>2 DEF Waiting
  <2>4. last + 1 = Published(retained) + 1
    BY DEF Appends, AppendFits
  <2> QED
    BY <2>1, <2>3, <2>4
<1>3. /\ Keeps(m) /\ Waiting(m) /\ RetentionShape
      /\ retained[m] = [Unpublished EXCEPT !.published = TRUE, !.kept = TRUE]
      /\ promised[m].left <= promised[m].longest
  BY <1>1, RetentionParts DEF Waiting, Keeps, SegmentFits, Appends
<1> DEFINE entry == playlist[i]
           time == RetainFor(entry)
           old == retained[m]
<1>4. entry.duration \in Nat /\ entry.duration > 0 /\ entry.longest \in Nat
      /\ promised[m].longest <= entry.longest
  <2>1. entry.duration \in Durations /\ entry.longest \in Nat /\ entry.n = m
    BY <1>1, EntryIs
  <2>4. \A d \in Durations : d \in Nat /\ d > 0
    BY DEF RetentionAssumption
  <2>2. entry.duration \in Nat /\ entry.duration > 0
    BY <2>1, <2>4
  <2>3. promised[playlist[i].n].longest <= playlist[i].longest
    BY <1>1 DEF RetentionIInv, EntriesFit
  <2> QED
    BY <2>1, <2>2, <2>3
<1> HIDE DEF entry
<1>5. time = entry.duration + entry.longest /\ time \in Nat /\ time > 0
  BY <1>4 DEF RetainFor
<1>6. retained'[m] = Schedule(old, time)
  BY <1>1, <1>2 DEF Appends, entry
<1>7. promised'[m] = IF promised[m].longest = 0 THEN promised[m]
                     ELSE [promised[m] EXCEPT !.left = Max({@, promised[m].longest + entry.duration})]
  BY <1>1 DEF Appends, entry
<1> HIDE DEF time
<1>8. /\ old.version = 0 /\ old.kept /\ old.published /\ old.left = 0 /\ ~old.armed
      /\ old.running = {}
  BY <1>3 DEF Unpublished
<1>9. old \in RetainedRecords /\ promised[m] \in [longest : Nat, left : Nat]
      /\ promised[m].longest \in Nat /\ promised[m].left \in Nat /\ 0 < MaxVersion
  BY <1>3, RetainedIs DEF RetentionAssumption
<1> HIDE DEF old
<1>10. /\ retained'[m] \in RetainedRecords
       /\ retained'[m].published /\ retained'[m].kept
       /\ \A version \in retained'[m].running : version <= retained'[m].version
       /\ retained'[m].version \in retained'[m].running => retained'[m].left = 0
       /\ retained'[m].armed => retained'[m].version > 0
       /\ retained'[m].left >= time /\ (shutdown = "no" => retained'[m].armed)
  <2>1. old.version < MaxVersion /\ (\A version \in old.running : version <= old.version)
        /\ (old.version \in old.running => old.left = 0) /\ (old.armed => old.version > 0)
        /\ time > old.left
    BY <1>5, <1>8, <1>9
  <2> QED
    BY <1>3, <1>5, <1>6, <1>8, <1>9, <2>1, ScheduleIs
<1>11. /\ promised'[m] \in [longest : Nat, left : Nat]
       /\ promised'[m].longest = promised[m].longest /\ promised'[m].left <= time
       /\ promised'[m].left \in Nat
  <2>1. CASE promised[m].longest = 0
    BY <1>3, <1>5, <1>7, <1>9, <2>1
  <2>2. CASE promised[m].longest # 0
    <3> DEFINE left == Max({promised[m].left, promised[m].longest + entry.duration})
    <3>1. promised[m].longest + entry.duration \in Nat
      BY <1>4, <1>9
    <3>2. left \in Nat /\ left \in {promised[m].left, promised[m].longest + entry.duration}
      BY <1>9, <3>1, GreaterOf
    <3>3. promised'[m] = [promised[m] EXCEPT !.left = left]
      BY <1>7, <2>2
    <3> HIDE DEF left
    <3>4. left <= time
      BY <1>3, <1>4, <1>5, <1>9, <3>2
    <3> QED
      BY <1>9, <3>2, <3>3, <3>4
  <2> QED
    BY <2>1, <2>2
<1>12. promised'[m].left <= retained'[m].left
  <2>1. retained'[m].left \in Nat
    BY <1>10 DEF RetainedRecords
  <2> QED
    BY <1>5, <1>10, <1>11, <2>1
<1>13. Keeps(m)'
  <2>1. shutdown' = shutdown
    BY DEF Appends
  <2> QED
    BY <1>2, <1>10, <1>12, <2>1 DEF Keeps, SegmentFits
<1> QED
  BY <1>8, <1>10, <1>11, <1>13 DEF old

LEMMA AppendKeeps ==
    ASSUME RetentionIInv, RetentionAssumption, NEW duration \in Durations,
           AppendSegment(duration)
    PROVE  RetentionIInv'
<1>1. PICK last \in 0 .. MaxSegments : \E list, drop, rest :
         Appends(last, duration, list, drop, rest)
  BY AppendsIs
<1>2. PICK list, drop, rest : Appends(last, duration, list, drop, rest)
  BY <1>1
<1>3. /\ AppendFits(last, duration, list, drop, rest) /\ ~terminal /\ ~terminal'
      /\ RetentionShape /\ UNCHANGED <<terminal, listed, shutdown>>
      /\ \A m \in Segments : Keeps(m) /\ (Waiting(m) <=> m \in InPlaylist)
                             /\ (Waiting(m)' <=> m \in InPlaylist')
  BY <1>2, RetentionParts DEF Appends, Waiting
<1>4. last + 1 \in Segments /\ last \in Nat
      /\ (\A m \in Segments : retained[m].published <=> m <= last)
      /\ Published(retained) + 1 = last + 1
  BY <1>3 DEF AppendFits
<1>5. /\ retained'[last + 1] = [Unpublished EXCEPT !.published = TRUE, !.kept = TRUE]
      /\ promised'[last + 1] = promised[last + 1]
      /\ promised[last + 1] = [longest |-> 0, left |-> 0]
      /\ Waiting(last + 1)'
  <2>1. Gone(list, drop, last + 1) = {} /\ last + 1 \in InPlaylist'
    BY <1>2, <1>4, InPlaylistAfter
  <2>2. retained'[last + 1] = [Unpublished EXCEPT !.published = TRUE, !.kept = TRUE]
    BY <1>2, <1>4 DEF Appends
  <2>3. promised'[last + 1] = promised[last + 1]
    BY <1>2, <1>4, <2>1 DEF Appends
  <2>4. ~retained[last + 1].published
    BY <1>4
  <2>5. promised[last + 1] = [longest |-> 0, left |-> 0]
    BY <1>3, <1>4, <2>4 DEF Keeps, SegmentFits
  <2> QED
    BY <1>3, <1>4, <2>1, <2>2, <2>3, <2>5
<1>6. ASSUME NEW m \in Segments, m # last + 1, Gone(list, drop, m) = {}
      PROVE  /\ retained'[m] = retained[m] /\ promised'[m] = promised[m]
             /\ (Waiting(m)' <=> Waiting(m))
  <2>1. retained'[m] = retained[m]
    BY <1>2, <1>4, <1>6 DEF Appends
  <2>2. promised'[m] = promised[m]
    BY <1>2, <1>6 DEF Appends
  <2>3. m \in InPlaylist' <=> m \in InPlaylist
    BY <1>2, <1>6, InPlaylistAfter
  <2> QED
    BY <1>3, <2>1, <2>2, <2>3
<1>7. ASSUME NEW m \in Segments
      PROVE  /\ retained'[m] \in RetainedRecords /\ promised'[m] \in [longest : Nat, left : Nat]
             /\ promised'[m].longest = promised[m].longest
             /\ Keeps(m)' /\ (retained'[m].published <=> m <= last + 1)
  <2>1. CASE m = last + 1
    <3> DEFINE fresh == [Unpublished EXCEPT !.published = TRUE, !.kept = TRUE]
    <3>1. fresh \in RetainedRecords
      <4>1. 0 \in 0 .. MaxVersion
        BY DEF RetentionAssumption
      <4>2. Unpublished \in RetainedRecords
        BY <4>1 DEF Unpublished, RetainedRecords, Failures
      <4> QED
        BY <4>2 DEF RetainedRecords
    <3>2. /\ fresh.published /\ fresh.kept /\ ~fresh.armed /\ fresh.running = {} /\ fresh.left = 0
      BY DEF Unpublished
    <3>3. retained'[m] = fresh /\ promised'[m] = [longest |-> 0, left |-> 0] /\ Waiting(m)'
          /\ promised'[m] = promised[m]
      BY <1>5, <2>1
    <3> HIDE DEF fresh
    <3>4. promised'[m].left = 0 /\ promised'[m].longest = 0
          /\ promised'[m] \in [longest : Nat, left : Nat]
      BY <3>3
    <3>5. Keeps(m)'
      BY <3>2, <3>3, <3>4 DEF Keeps, SegmentFits, fresh
    <3> QED
      BY <1>4, <2>1, <3>1, <3>2, <3>3, <3>4, <3>5
  <2>2. CASE m # last + 1 /\ Gone(list, drop, m) = {}
    <3>1. /\ retained'[m] = retained[m] /\ promised'[m] = promised[m] /\ Keeps(m)
          /\ retained[m] \in RetainedRecords /\ promised[m] \in [longest : Nat, left : Nat]
          /\ (Waiting(m)' <=> Waiting(m))
      BY <1>3, <1>6, <2>2, RetainedIs
    <3>2. Keeps(m)'
      BY <1>3, <3>1, UntouchedKeeps
    <3>3. m <= last <=> m <= last + 1
      BY <1>4, <2>2 DEF Segments
    <3> QED
      BY <1>4, <3>1, <3>2, <3>3
  <2>3. CASE m # last + 1 /\ Gone(list, drop, m) # {}
    <3>1. m <= last
      BY <1>2, <1>4, <2>3, LeaverKeeps
    <3>2. m <= last + 1
      BY <1>4, <3>1 DEF Segments
    <3> QED
      BY <1>2, <2>3, <3>2, LeaverKeeps
  <2> QED
    BY <2>1, <2>2, <2>3
<1>8. /\ playlist' \in Seq(Entries) /\ Len(playlist') = Len(rest)
      /\ DOMAIN playlist' = DOMAIN rest
      /\ \A i \in DOMAIN rest :
            /\ playlist'[i].n = rest[i].n
            /\ rest[i].n = last + 1 - Len(rest) + i
            /\ rest[i].longest <= playlist'[i].longest
            /\ Duration(playlist)' <= playlist'[i].longest
  BY <1>2, WindowAfter
<1>9. RetentionShape'
  <2>1. retained' \in [Segments -> RetainedRecords]
    BY <1>2, <1>7 DEF Appends
  <2>2. promised' \in [Segments -> [longest : Nat, left : Nat]]
    BY <1>2, <1>7 DEF Appends
  <2> QED
    BY <1>3, <1>8, <2>1, <2>2 DEF RetentionShape
<1>10. WindowFits'
  <2>1. last + 1 \in 0 .. MaxSegments
    BY <1>4 DEF Segments
  <2>2. Len(playlist') <= last + 1
    BY <1>3, <1>8 DEF AppendFits
  <2>3. \A i \in DOMAIN playlist' : playlist'[i].n = last + 1 - Len(playlist') + i
    BY <1>8
  <2> QED
    BY <1>7, <2>1, <2>2, <2>3 DEF WindowFits
<1>11. EntriesFit'
  <2> SUFFICES ASSUME NEW i \in DOMAIN playlist'
               PROVE  /\ Duration(playlist)' <= playlist'[i].longest
                      /\ promised'[playlist'[i].n].longest <= playlist'[i].longest
    BY DEF EntriesFit
  <2>1. /\ i \in DOMAIN rest /\ playlist'[i].n = rest[i].n /\ playlist'[i] \in Entries
        /\ rest[i].longest <= playlist'[i].longest /\ Duration(playlist)' <= playlist'[i].longest
    BY <1>8
  <2>2. /\ i \in 1 .. Len(rest) /\ Len(rest) = Len(playlist) + 1 - drop /\ rest[i] = list[drop + i]
        /\ Len(playlist) \in Nat /\ drop \in Nat /\ drop <= Len(playlist) /\ rest[i] \in Entries
    BY <1>3, <2>1 DEF AppendFits
  <2>3. promised[rest[i].n].longest <= rest[i].longest
    <3>1. CASE drop + i \in 1 .. Len(playlist)
      <4>1. rest[i] = playlist[drop + i]
        BY <1>3, <2>2, <3>1 DEF AppendFits
      <4>2. drop + i \in DOMAIN playlist
        BY <3>1, EntryIs
      <4> QED
        BY <4>1, <4>2 DEF RetentionIInv, EntriesFit
    <3>2. CASE drop + i = Len(playlist) + 1
      <4>1. rest[i] = [n |-> last + 1, duration |-> duration, longest |-> 0]
        BY <1>3, <2>2, <3>2 DEF AppendFits
      <4>2. promised[last + 1].longest = 0
        BY <1>5
      <4> QED
        BY <4>1, <4>2
    <3> QED
      BY <2>2, <3>1, <3>2
  <2>4. rest[i].n \in Segments /\ rest[i].longest \in Nat /\ playlist'[i].longest \in Nat
    BY <2>1, <2>2 DEF Entries
  <2>5. promised'[rest[i].n].longest = promised[rest[i].n].longest
        /\ promised[rest[i].n].longest \in Nat
    BY <1>3, <1>7, <2>4, RetainedIs
  <2> QED
    BY <2>1, <2>3, <2>4, <2>5
<1>12. ListedFits'
  BY <1>3, RetentionParts DEF ListedFits
<1> QED
  BY <1>7, <1>9, <1>10, <1>11, <1>12, RetentionParts

LEMMA RetentionStep ==
    ASSUME RetentionIInv, RetentionAssumption, [RetentionNext]_retentionVars
    PROVE  RetentionIInv'
<1>1. CASE RetentionNext
  BY <1>1, AppendKeeps, EndPlaylistKeeps, RenderKeeps, TickKeeps, FireKeeps, RetireKeeps,
     CloseControllerKeeps, StopRetentionKeeps, ForgetKeeps
  DEF RetentionNext
<1>2. CASE UNCHANGED retentionVars
  <2>1. UNCHANGED <<playlist, terminal, retained, listed, promised, shutdown>>
    BY <1>2 DEF retentionVars
  <2>2. RetentionShape' /\ WindowFits' /\ EntriesFit' /\ ListedFits'
    BY <2>1, RetentionParts DEF RetentionShape, WindowFits, EntriesFit, ListedFits
  <2>3. \A n \in Segments : Keeps(n)'
    BY <2>1, RetentionParts, UntouchedKeeps DEF Waiting, InPlaylist
  <2> QED
    BY <2>2, <2>3, RetentionParts
<1> QED
  BY <1>1, <1>2

\* Whatever a player reads and whichever timers come too late, the retention keeps to
\* RetentionIInv: a segment of the window has no deadline yet, one that left it has a
\* deadline no earlier than any playlist promised, and only a deadline that has passed
\* is called back for.
THEOREM RetentionInductive ==
    ASSUME RetentionAssumption
    PROVE  RetentionSpec => []RetentionIInv
<1>1. RetentionInit => RetentionIInv
  <2> SUFFICES ASSUME RetentionInit
               PROVE  RetentionIInv
    OBVIOUS
  <2>1. playlist = <<>> /\ Len(playlist) = 0 /\ DOMAIN playlist = {} /\ playlist \in Seq(Entries)
    BY DEF RetentionInit
  <2>2. \A n \in Segments : retained[n] = Unpublished /\ promised[n] = [longest |-> 0, left |-> 0]
    BY DEF RetentionInit
  <2>3. Unpublished \in RetainedRecords
    BY DEF Unpublished, RetainedRecords, RetentionAssumption, Failures
  <2>4. RetentionShape
    BY <2>1, <2>3 DEF RetentionInit, RetentionShape
  <2>5. WindowFits
    <3>1. 0 \in 0 .. MaxSegments
      BY DEF RetentionAssumption
    <3>2. \A n \in Segments : ~(n <= 0) /\ ~retained[n].published
      BY <2>2 DEF Segments, Unpublished
    <3> QED
      BY <2>1, <3>1, <3>2 DEF WindowFits
  <2>6. EntriesFit
    BY <2>1 DEF EntriesFit
  <2>7. \A n \in Segments : Keeps(n)
    BY <2>1, <2>2 DEF Keeps, SegmentFits, Unpublished, Waiting, InPlaylist
  <2>8. ListedFits
    BY DEF RetentionInit, ListedFits
  <2> QED
    BY <2>4, <2>5, <2>6, <2>7, <2>8, RetentionParts
<1>2. RetentionIInv /\ [RetentionNext]_retentionVars => RetentionIInv'
  BY RetentionStep
<1> QED
  BY <1>1, <1>2, PTL DEF RetentionSpec

\* Any step but retireSegment leaves a segment as readable as it was.
LEMMA ReadableStep ==
    ASSUME RetentionIInv, RetentionAssumption, [RetentionNext]_retentionVars
    PROVE  StaysReadable
<1>1. RetentionShape
  BY DEF RetentionIInv
<1>2. \A segment \in RetainedRecords : \A time :
         /\ Schedule(segment, time).kept = segment.kept
         /\ Schedule(segment, time).failed = segment.failed
  <2> TAKE segment \in RetainedRecords
  <2> TAKE time
  <2>1. CASE segment.kept /\ time > segment.left
    <3>1. Schedule(segment, time) =
             [segment EXCEPT !.left = time, !.version = @ + 1, !.armed = shutdown = "no"]
      BY <2>1 DEF Schedule
    <3> QED
      BY <3>1 DEF RetainedRecords
  <2>2. CASE ~(segment.kept /\ time > segment.left)
    BY <2>2 DEF Schedule
  <2> QED
    BY <2>1, <2>2
<1> SUFFICES ASSUME NEW n \in Segments, promised[n].left > 0, Readable(n)
             PROVE  Readable(n)'
  BY DEF StaysReadable
<1>3. retained[n] \in RetainedRecords
  BY <1>1, RetainedIs
<1>4. ASSUME NEW duration \in Durations, AppendSegment(duration)
      PROVE  Readable(n)'
  <2>1. CASE n = Published(retained) + 1
    <3>1. retained'[n] = [Unpublished EXCEPT !.published = TRUE, !.kept = TRUE]
      BY <1>4, <2>1, Zenon DEF AppendSegment
    <3> QED
      BY <3>1 DEF Readable, Unpublished
  <2>2. CASE n # Published(retained) + 1
    <3>1. \/ retained'[n] = retained[n]
          \/ \E time : retained'[n] = Schedule(retained[n], time)
      BY <1>4, <2>2, Zenon DEF AppendSegment
    <3> QED
      BY <1>2, <1>3, <3>1 DEF Readable
  <2> QED
    BY <2>1, <2>2
<1>5. CASE EndPlaylist
  <2>1. retained'[n] = retained[n] \/ \E time : retained'[n] = Schedule(retained[n], time)
    BY <1>5 DEF EndPlaylist
  <2> QED
    BY <1>2, <1>3, <2>1 DEF Readable
<1>6. CASE Render
  <2>1. retained'[n] = retained[n] \/ \E time : retained'[n] = Schedule(retained[n], time)
    BY <1>6 DEF Render
  <2> QED
    BY <1>2, <1>3, <2>1 DEF Readable
<1>7. CASE Tick \/ CloseController \/ StopRetention \/ ForgetSession \/ UNCHANGED retentionVars
  BY <1>3, <1>7 DEF Tick, CloseController, StopRetention, ForgetSession, retentionVars, Readable,
     RetainedRecords
<1>8. ASSUME NEW m \in Segments, Fire(m)
      PROVE  Readable(n)'
  BY <1>1, <1>3, <1>8 DEF Fire, Readable, RetentionShape, RetainedRecords
<1>9. ASSUME NEW m \in Segments, NEW version \in 1 .. MaxVersion, RetireSegment(m, version)
      PROVE  Readable(n)'
  BY <1>9, RetireKeeps
<1> QED
  BY <1>4, <1>5, <1>6, <1>7, <1>8, <1>9 DEF RetentionNext

\* KHL-015: a segment that a playlist named is there for as long as the player may
\* still ask for it; and, until the controller is closed, a timer or its callback is
\* left for every segment that is kept outside a running playlist, but for those that
\* the cache failed to remove, so no other is kept for ever.
THEOREM PromisesAreKept ==
    ASSUME RetentionAssumption
    PROVE  RetentionSpec => [](PromiseKept /\ NothingForgotten)
<1>1. RetentionIInv => PromiseKept /\ NothingForgotten
  BY DEF RetentionIInv
<1> QED
  BY <1>1, RetentionInductive, PTL

\* KHL-015: for the same time it also stays readable, although a timer that was stopped
\* too late calls back and removals fail: none is tried before the time is over.
THEOREM PromisedSegmentsStay ==
    ASSUME RetentionAssumption
    PROVE  RetentionSpec => PromisedStaysReadable
<1>1. RetentionIInv /\ [RetentionNext]_retentionVars => StaysReadable
  BY ReadableStep
<1> QED
  BY <1>1, RetentionInductive, PTL DEF RetentionSpec, PromisedStaysReadable

-----------------------------------------------------------------------------
(* The cache: what one step changes, and what it counts.                   *)

Stored(g) == [n \in Sequences |-> segs[g][n].size]
Counted == [g \in Generations |-> gen[g].bytes]

LEMMA SumOf ==
    ASSUME NEW g
    PROVE  /\ Sum(g) = SumFunctionOnSet(Stored(g), Sequences)
           /\ Sum(g)' = SumFunctionOnSet(Stored(g)', Sequences)
BY DEF Sum, SumFunction, Stored

LEMMA CacheFinite ==
    ASSUME CacheAssumption
    PROVE  IsFiniteSet(Sequences) /\ IsFiniteSet(Generations)
<1>1. MaxSequence \in Nat /\ IsFiniteSet(Generations)
  BY DEF CacheAssumption
<1> QED
  BY <1>1, FS_Interval DEF Sequences

LEMMA SizeIsNatural ==
    ASSUME CacheAssumption
    PROVE  /\ \A size \in Sizes : size \in Nat /\ size > 0
           /\ \A record \in SegmentRecords : record.size \in Nat
<1>1. \A size \in Sizes : size \in Nat /\ size > 0
  BY DEF CacheAssumption
<1> QED
  BY <1>1 DEF SegmentRecords

\* What is counted of a generation: its segments, one by one and together.
LEMMA CacheRecords ==
    ASSUME CacheTypeOK, CacheAssumption, NEW g \in Generations
    PROVE  /\ gen[g] \in GenerationRecords /\ gen[g].bytes \in Nat /\ gen[g].reserved \in Nat
           /\ gen[g].written \in Nat /\ gen[g].next \in Nat /\ total \in Nat
           /\ segs[g] \in [Sequences -> SegmentRecords] /\ disk[g] \in [Sequences -> Names]
           /\ \A n \in Sequences : /\ segs[g][n] \in SegmentRecords /\ segs[g][n].size \in Nat
                                   /\ segs[g][n].size <= Sum(g)
           /\ Sum(g) \in Nat /\ (Held(g) = {} => Sum(g) = 0)
<1>1. gen[g] \in GenerationRecords /\ total \in Nat
  BY DEF CacheTypeOK, CacheAssumption
<1>2. /\ gen[g].bytes \in Nat /\ gen[g].reserved \in Nat
      /\ gen[g].written \in Nat /\ gen[g].next \in Nat
  BY <1>1 DEF GenerationRecords, CacheAssumption
<1>3. segs[g] \in [Sequences -> SegmentRecords] /\ disk[g] \in [Sequences -> Names]
  BY DEF CacheTypeOK
<1>10. \A n \in Sequences : segs[g][n] \in SegmentRecords
  BY <1>3
<1>4. \A n \in Sequences : segs[g][n] \in SegmentRecords /\ segs[g][n].size \in Nat
  BY <1>10, SizeIsNatural
<1>5. \A n \in Sequences : Stored(g)[n] = segs[g][n].size
  BY DEF Stored
<1>6. \A n \in Sequences : Stored(g)[n] \in Nat
  BY <1>4, <1>5
<1>7. Sum(g) \in Nat
  BY <1>6, SumOf, SumTyped, CacheFinite
<1>8. /\ \A n \in Sequences : Stored(g)[n] <= Sum(g)
      /\ (\A n \in Sequences : Stored(g)[n] = 0) => Sum(g) = 0
  BY <1>6, SumOf, SumBounds, CacheFinite
<1>9. Held(g) = {} => \A n \in Sequences : Stored(g)[n] = 0
  BY <1>5 DEF Held
<1> QED
  BY <1>1, <1>2, <1>3, <1>4, <1>5, <1>7, <1>8, <1>9

\* A generation counts no more than all of them.
LEMMA BytesBelowTotal ==
    ASSUME CacheIInv, CacheAssumption, process = "running", NEW g \in Generations
    PROVE  /\ gen[g].bytes <= total /\ total <= TotalBytes /\ total \in Nat
           /\ gen[g].bytes = Sum(g) + gen[g].reserved /\ GenerationFits(g) /\ CacheTypeOK
<1>1. CacheTypeOK /\ BytesCounted /\ GenerationFits(g)
  BY DEF CacheIInv
<1>2. total = SumFunctionOnSet(Counted, Generations)
  BY <1>1 DEF BytesCounted, SumFunction, Counted
<1>3. \A h \in Generations : Counted[h] = gen[h].bytes /\ gen[h].bytes \in Nat
  BY <1>1, CacheRecords DEF Counted
<1>4. Counted[g] <= total
  BY <1>2, <1>3, SumBounds, CacheFinite
<1>5. gen[g].bytes = Sum(g) + gen[g].reserved
  BY <1>1 DEF BytesCounted
<1>6. total <= TotalBytes /\ total \in Nat
  BY <1>1 DEF CacheTypeOK, CacheAssumption
<1> QED
  BY <1>1, <1>3, <1>4, <1>5, <1>6

LEMMA SameSegments ==
    ASSUME NEW g, segs'[g] = segs[g]
    PROVE  Sum(g)' = Sum(g) /\ Held(g)' = Held(g)
BY DEF Sum, Held

\* One segment changes: so does the sum, by as much.
LEMMA OneSegment ==
    ASSUME CacheTypeOK, CacheAssumption, NEW g \in Generations, NEW n \in Sequences,
           NEW record \in SegmentRecords, segs'[g] = [segs[g] EXCEPT ![n] = record]
    PROVE  /\ Sum(g)' \in Nat /\ Sum(g)' + segs[g][n].size = Sum(g) + record.size
           /\ Held(g)' = IF record.size = 0 THEN Held(g) \ {n} ELSE Held(g) \cup {n}
           /\ segs'[g][n] = record /\ \A m \in Sequences \ {n} : segs'[g][m] = segs[g][m]
<1>1. /\ segs'[g][n] = record /\ \A m \in Sequences \ {n} : segs'[g][m] = segs[g][m]
  BY CacheRecords
<1>2. record.size \in Nat
  BY SizeIsNatural
<1>3. \A m \in Sequences : Stored(g)[m] = segs[g][m].size /\ Stored(g)'[m] = segs'[g][m].size
  BY DEF Stored
<1>4. \A m \in Sequences : Stored(g)[m] \in Nat /\ Stored(g)'[m] \in Nat
  BY <1>1, <1>2, <1>3, CacheRecords
<1>5. \A m \in Sequences \ {n} : Stored(g)'[m] = Stored(g)[m]
  BY <1>1, <1>3
<1>6. /\ SumFunctionOnSet(Stored(g)', Sequences) \in Nat
      /\ SumFunctionOnSet(Stored(g)', Sequences) + Stored(g)[n]
            = SumFunctionOnSet(Stored(g), Sequences) + Stored(g)'[n]
  BY <1>4, <1>5, SumUpdated, CacheFinite
<1>7. Held(g)' = IF record.size = 0 THEN Held(g) \ {n} ELSE Held(g) \cup {n}
  BY <1>1 DEF Held
<1> QED
  BY <1>1, <1>3, <1>6, <1>7, SumOf

\* A step of one generation.
OnlyChanges(g) ==
    /\ process = "running" /\ process' = "running"
    /\ gen' \in [Generations -> GenerationRecords]
    /\ segs' \in [Generations -> [Sequences -> SegmentRecords]]
    /\ disk' \in [Generations -> [Sequences -> Names]] /\ dirs' \subseteq Generations
    /\ faulty' \subseteq Generations /\ faulty \subseteq faulty'
    /\ \A h \in Generations \ {g} : /\ gen'[h] = gen[h] /\ segs'[h] = segs[h] /\ disk'[h] = disk[h]
                                    /\ h \in dirs' <=> h \in dirs

\* It keeps the invariant when its generation fits and its bytes are counted.
LEMMA OneGeneration ==
    ASSUME CacheIInv, CacheAssumption, NEW g \in Generations, OnlyChanges(g),
           GenerationFits(g)', gen'[g].bytes = Sum(g)' + gen'[g].reserved,
           total' \in 0 .. TotalBytes, total' + gen[g].bytes = total + gen'[g].bytes
    PROVE  CacheIInv'
<1>1. CacheTypeOK /\ BytesCounted /\ process = "running" /\ \A h \in Generations : GenerationFits(h)
  BY DEF CacheIInv, OnlyChanges
<1>2. CacheTypeOK'
  BY DEF OnlyChanges, CacheTypeOK
<1>3. ASSUME NEW h \in Generations, h # g
      PROVE  GenerationFits(h)' /\ gen'[h].bytes = Sum(h)' + gen'[h].reserved
  <2>1. /\ gen'[h] = gen[h] /\ segs'[h] = segs[h] /\ disk'[h] = disk[h] /\ (h \in dirs' <=> h \in dirs)
        /\ (h \in faulty => h \in faulty') /\ GenerationFits(h)
    BY <1>1, <1>3 DEF OnlyChanges
  <2>2. Sum(h)' = Sum(h) /\ Held(h)' = Held(h)
    BY <2>1, SameSegments
  <2>3. PartialFits(h)'
    BY <2>1 DEF GenerationFits, PartialFits
  <2>4. ASSUME NEW n \in Sequences
        PROVE  StoredFits(h, n)'
    <3>1. StoredFits(h, n)
      BY <2>1 DEF GenerationFits
    <3> QED
      BY <2>1, <2>2, <3>1 DEF StoredFits
  <2>7. StoppedFits(h)'
    BY <2>1, <2>2 DEF GenerationFits, StoppedFits
  <2>5. GenerationFits(h)'
    BY <2>1, <2>3, <2>4, <2>7 DEF GenerationFits
  <2>6. gen[h].bytes = Sum(h) + gen[h].reserved
    BY <1>1 DEF BytesCounted
  <2> QED
    BY <2>1, <2>2, <2>5, <2>6
<1>4. total' = SumFunctionOnSet(Counted', Generations)
  <2>1. total = SumFunctionOnSet(Counted, Generations)
    BY <1>1 DEF BytesCounted, SumFunction, Counted
  <2>2. \A h \in Generations : Counted[h] = gen[h].bytes /\ gen[h].bytes \in Nat
    BY <1>1, CacheRecords DEF Counted
  <2>3. \A h \in Generations : Counted'[h] = gen'[h].bytes
    BY DEF Counted
  <2>4. \A h \in Generations : Counted'[h] \in Nat
    BY <2>3 DEF OnlyChanges, GenerationRecords, CacheAssumption
  <2>5. \A h \in Generations \ {g} : Counted'[h] = Counted[h]
    BY <2>2, <2>3 DEF OnlyChanges
  <2>6. /\ SumFunctionOnSet(Counted', Generations) \in Nat
        /\ SumFunctionOnSet(Counted', Generations) + Counted[g]
              = SumFunctionOnSet(Counted, Generations) + Counted'[g]
    BY <2>2, <2>4, <2>5, SumUpdated, CacheFinite
  <2>7. total' \in Nat /\ gen[g].bytes \in Nat /\ gen'[g].bytes \in Nat
    BY <2>2, <2>3, <2>4 DEF CacheAssumption
  <2> QED
    BY <2>1, <2>2, <2>3, <2>6, <2>7
<1>5. BytesCounted'
  BY <1>3, <1>4 DEF BytesCounted, SumFunction, Counted
<1>6. CleanupTakesItsOwn' /\ process' = "running"
  BY DEF CleanupTakesItsOwn, OnlyChanges
<1> QED
  BY <1>2, <1>3, <1>5, <1>6 DEF CacheIInv

\* What a step of a generation puts in the place of its parts.
LEMMA Replaces ==
    ASSUME CacheIInv, CacheAssumption, process = "running", process' = process,
           NEW g \in Generations,
           NEW record \in GenerationRecords, gen' = [gen EXCEPT ![g] = record],
           NEW segments \in [Sequences -> SegmentRecords], segs' = [segs EXCEPT ![g] = segments],
           NEW files \in [Sequences -> Names], disk' = [disk EXCEPT ![g] = files],
           dirs' = dirs \/ dirs' = dirs \cup {g} \/ dirs' = dirs \ {g}, Works \/ Fails(g)
    PROVE  /\ OnlyChanges(g) /\ gen'[g] = record /\ segs'[g] = segments /\ disk'[g] = files
           /\ faulty \subseteq faulty'
<1>1. CacheTypeOK
  BY DEF CacheIInv
<1>2. /\ gen' \in [Generations -> GenerationRecords] /\ gen'[g] = record
      /\ \A h \in Generations \ {g} : gen'[h] = gen[h]
  BY <1>1 DEF CacheTypeOK
<1>3. /\ segs' \in [Generations -> [Sequences -> SegmentRecords]] /\ segs'[g] = segments
      /\ \A h \in Generations \ {g} : segs'[h] = segs[h]
  BY <1>1 DEF CacheTypeOK
<1>4. /\ disk' \in [Generations -> [Sequences -> Names]] /\ disk'[g] = files
      /\ \A h \in Generations \ {g} : disk'[h] = disk[h]
  BY <1>1 DEF CacheTypeOK
<1>5. dirs' \subseteq Generations /\ \A h \in Generations \ {g} : h \in dirs' <=> h \in dirs
  BY <1>1 DEF CacheTypeOK
<1>6. faulty' \subseteq Generations /\ faulty \subseteq faulty'
  BY <1>1 DEF CacheTypeOK, Works, Fails
<1> QED
  BY <1>2, <1>3, <1>4, <1>5, <1>6 DEF OnlyChanges

\* What is known of a generation before a step of it.
LEMMA GenerationIs ==
    ASSUME CacheIInv, CacheAssumption, process = "running", NEW g \in Generations
    PROVE  /\ gen[g] \in GenerationRecords /\ segs[g] \in [Sequences -> SegmentRecords]
           /\ disk[g] \in [Sequences -> Names]
           /\ gen = [gen EXCEPT ![g] = gen[g]] /\ segs = [segs EXCEPT ![g] = segs[g]]
           /\ disk = [disk EXCEPT ![g] = disk[g]]
           /\ GenerationFits(g) /\ CacheTypeOK
           /\ gen[g].bytes = Sum(g) + gen[g].reserved /\ Sum(g) \in Nat
           /\ gen[g].bytes <= total /\ total \in 0 .. TotalBytes
           /\ gen[g].bytes \in Nat /\ gen[g].reserved \in Nat /\ gen[g].written \in Nat
           /\ TotalBytes \in Nat
<1>1. CacheTypeOK /\ TotalBytes \in Nat
  BY DEF CacheIInv, CacheAssumption
<1>2. /\ gen = [gen EXCEPT ![g] = gen[g]] /\ segs = [segs EXCEPT ![g] = segs[g]]
      /\ disk = [disk EXCEPT ![g] = disk[g]]
  BY <1>1 DEF CacheTypeOK
<1> QED
  BY <1>1, <1>2, CacheRecords, BytesBelowTotal

\* What a generation, its segments and its files must be for GenerationFits; failed
\* says whether a file operation of it has failed.
PartFits(record, files, failed) ==
    /\ record.partial \in InWork \cup {"orphan"} =>
          record.next <= MaxSequence /\ files[record.next] # "none"
    /\ record.partial \in {"created", "writing", "complete"} => files[record.next] = "partial"
    /\ record.partial \in {"broken", "stuck"} => files[record.next] = "partial" \/ failed
    /\ record.partial \in {"orphan", "stuck"} => failed
    /\ record.partial \in {"none", "created", "ended", "orphan"} => record.reserved = 0
    /\ record.partial \in {"writing", "complete"} => record.reserved \in Sizes
    /\ record.written = IF record.partial = "writing" THEN 0 ELSE record.reserved
SegmentStored(record, segment, files, n, failed) ==
    /\ segment.size # 0 => n < record.next /\ files[n] = "final"
    /\ segment.size = 0 => segment = NoSegment
    /\ segment.retired /\ segment.readers = 0 => failed
    /\ files[n] # "none" =>
          segment.size # 0 \/ (n = record.next /\ record.partial \in InWork \cup {"orphan"})
StopFits(record, held, failed) ==
    /\ record.closed => record.partial \in {"none", "ended", "orphan", "stuck"}
    /\ record.closed /\ held = {} => failed

LEMMA FitsBefore ==
    ASSUME CacheIInv, CacheAssumption, NEW g \in Generations, Usable(g)
    PROVE  /\ PartFits(gen[g], disk[g], g \in faulty)
           /\ \A n \in Sequences : SegmentStored(gen[g], segs[g][n], disk[g], n, g \in faulty)
           /\ StopFits(gen[g], Held(g), g \in faulty) /\ g \in dirs
<1>1. process = "running" /\ gen[g].at = "begun"
  BY DEF Usable
<1>2. GenerationFits(g)
  BY <1>1, GenerationIs
<1>3. PartFits(gen[g], disk[g], g \in faulty)
  BY <1>2 DEF GenerationFits, PartialFits, PartFits
<1>4. ASSUME NEW n \in Sequences
      PROVE  SegmentStored(gen[g], segs[g][n], disk[g], n, g \in faulty)
  <2>1. StoredFits(g, n) /\ (n \in Held(g) <=> segs[g][n].size # 0)
    BY <1>2 DEF GenerationFits, Held
  <2> QED
    BY <2>1 DEF StoredFits, SegmentStored
<1>5. StopFits(gen[g], Held(g), g \in faulty) /\ g \in dirs
  BY <1>1, <1>2 DEF GenerationFits, StoppedFits, StopFits
<1> QED
  BY <1>3, <1>4, <1>5

\* After a step of a generation that goes on.
LEMMA FitsAfter ==
    ASSUME CacheIInv, CacheAssumption, process = "running", process' = process,
           NEW g \in Generations, g \in dirs', dirs' = dirs \/ dirs' = dirs \cup {g},
           NEW record \in GenerationRecords, record.at = "begun",
           gen' = [gen EXCEPT ![g] = record],
           NEW segments \in [Sequences -> SegmentRecords], segs' = [segs EXCEPT ![g] = segments],
           NEW files \in [Sequences -> Names], disk' = [disk EXCEPT ![g] = files],
           Works \/ Fails(g), PartFits(record, files, g \in faulty'),
           \A n \in Sequences : SegmentStored(record, segments[n], files, n, g \in faulty'),
           NEW held, held = Held(g)', StopFits(record, held, g \in faulty'),
           record.bytes = Sum(g)' + record.reserved,
           total' \in 0 .. TotalBytes, total' + gen[g].bytes = total + record.bytes
    PROVE  CacheIInv'
<1>1. /\ OnlyChanges(g) /\ gen'[g] = record /\ segs'[g] = segments /\ disk'[g] = files
  BY Replaces
<1>2. PartialFits(g)'
  BY <1>1 DEF PartialFits, PartFits
<1>3. ASSUME NEW n \in Sequences
      PROVE  StoredFits(g, n)'
  <2>1. n \in Held(g)' <=> segments[n].size # 0
    BY <1>1 DEF Held
  <2> QED
    BY <1>1, <2>1 DEF StoredFits, SegmentStored
<1>4. StoppedFits(g)'
  BY <1>1 DEF StoppedFits, StopFits
<1>5. GenerationFits(g)'
  BY <1>1, <1>2, <1>3, <1>4 DEF GenerationFits
<1> QED
  BY <1>1, <1>5, OneGeneration

\* A generation that counts nothing, has no segment in work and is not stopped.
CountsNothing(record) ==
    /\ record.partial = "none" /\ record.bytes = 0 /\ record.reserved = 0 /\ record.written = 0
    /\ ~record.closed /\ record = [NoGeneration EXCEPT !.at = record.at]

LEMMA NewGeneration ==
    ASSUME CacheAssumption, NEW at \in {"begun", "lost", "gone"}
    PROVE  LET new == [NoGeneration EXCEPT !.at = at]
           IN  new \in GenerationRecords /\ new.at = at /\ CountsNothing(new)
<1>1. 0 \in 0 .. TotalBytes /\ 1 \in 1 .. MaxSequence + 1
  BY DEF CacheAssumption
<1> QED
  BY <1>1 DEF GenerationRecords, NoGeneration, Partials, CountsNothing

LEMMA OutsideFits ==
    ASSUME CacheIInv, CacheAssumption, NEW g \in Generations,
           process = "running", process' = process,
           NEW new \in GenerationRecords, gen' = [gen EXCEPT ![g] = new], CountsNothing(new),
           new.at \in {"lost", "gone"}, g \in dirs' <=> new.at = "lost", new.at = "lost" => g \in faulty',
           dirs' = dirs \cup {g} \/ dirs' = dirs \ {g},
           NEW segments \in [Sequences -> SegmentRecords], segs' = [segs EXCEPT ![g] = segments],
           NEW files \in [Sequences -> Names], disk' = [disk EXCEPT ![g] = files],
           \A n \in Sequences : segments[n] = NoSegment /\ files[n] = "none",
           Works \/ Fails(g), total' \in 0 .. TotalBytes, total' + gen[g].bytes = total
    PROVE  CacheIInv'
<1>1. /\ new.partial = "none" /\ new.bytes = 0 /\ new.reserved = 0 /\ new.written = 0 /\ ~new.closed
      /\ new = [NoGeneration EXCEPT !.at = new.at]
  BY DEF CountsNothing
<1>3. OnlyChanges(g) /\ gen'[g] = new /\ segs'[g] = segments /\ disk'[g] = files
  BY Replaces
<1>4. \A n \in Sequences : segs'[g][n] = NoSegment /\ disk'[g][n] = "none"
  BY <1>3
<1>5. NoSegment.size = 0 /\ ~NoSegment.retired
  BY DEF NoSegment
<1>6. Sum(g)' = 0
  <2>1. \A n \in Sequences : Stored(g)'[n] = 0
    BY <1>4, <1>5 DEF Stored
  <2> QED
    BY <2>1, SumOf, SumBounds, CacheFinite
<1>7. PartialFits(g)' /\ StoppedFits(g)'
  BY <1>1, <1>3 DEF PartialFits, StoppedFits, InWork
<1>8. \A n \in Sequences : StoredFits(g, n)'
  BY <1>4, <1>5 DEF StoredFits, Held
<1>9. GenerationFits(g)'
  BY <1>1, <1>3, <1>7, <1>8 DEF GenerationFits
<1>10. gen'[g].bytes = Sum(g)' + gen'[g].reserved /\ total' + gen[g].bytes = total + gen'[g].bytes
  <2>1. total \in Nat
    BY GenerationIs
  <2> QED
    BY <1>1, <1>3, <1>6, <2>1
<1> QED
  BY <1>3, <1>9, <1>10, OneGeneration

LEMMA BeginGenerationKeeps ==
    ASSUME CacheIInv, CacheAssumption, NEW g \in Generations, BeginGeneration(g)
    PROVE  CacheIInv'
<1>1. process = "running" /\ process' = process /\ gen[g].at = "none" /\ segs' = segs
      /\ disk' = disk /\ total' = total /\ dirs' = dirs \cup {g} /\ (Works \/ Fails(g))
  BY DEF BeginGeneration
<1>2. /\ GenerationFits(g) /\ CacheTypeOK /\ segs = [segs EXCEPT ![g] = segs[g]]
      /\ disk = [disk EXCEPT ![g] = disk[g]] /\ segs[g] \in [Sequences -> SegmentRecords]
      /\ disk[g] \in [Sequences -> Names] /\ total \in 0 .. TotalBytes
      /\ gen[g].bytes = Sum(g) + gen[g].reserved /\ Sum(g) \in Nat
  BY <1>1, GenerationIs
<1>3. gen[g] = NoGeneration
  BY <1>1, <1>2 DEF GenerationFits, NoGeneration
<1>4. gen[g].bytes = 0 /\ gen[g].reserved = 0 /\ gen[g].partial = "none"
  BY <1>3 DEF NoGeneration
<1>5. ASSUME NEW n \in Sequences
      PROVE  n \notin Held(g) /\ segs[g][n] = NoSegment /\ disk[g][n] = "none"
  BY <1>1, <1>2, <1>4 DEF GenerationFits, StoredFits, InWork
<1>6. CASE gen' = [gen EXCEPT ![g].at = "begun"]
  <2> DEFINE record == [NoGeneration EXCEPT !.at = "begun"]
  <2>1. gen' = [gen EXCEPT ![g] = record]
    BY <1>3, <1>6
  <2>2. /\ record \in GenerationRecords /\ record.at = "begun" /\ record.partial = "none"
        /\ record.bytes = 0 /\ record.reserved = 0 /\ record.written = 0 /\ ~record.closed
    BY NewGeneration DEF CountsNothing
  <2> HIDE DEF record
  <2>3. PartFits(record, disk[g], g \in faulty')
    BY <2>2 DEF PartFits, InWork
  <2>4. \A n \in Sequences : SegmentStored(record, segs[g][n], disk[g], n, g \in faulty')
    BY <1>5 DEF SegmentStored, NoSegment
  <2>5. \A held : StopFits(record, held, g \in faulty')
    BY <2>2 DEF StopFits
  <2>6. Sum(g)' = Sum(g)
    BY <1>1, SameSegments
  <2>7. record.bytes = Sum(g)' + record.reserved /\ total' + gen[g].bytes = total + record.bytes
        /\ total' \in 0 .. TotalBytes
    BY <1>1, <1>2, <1>4, <2>2, <2>6
  <2> QED
    BY <1>1, <1>2, <2>1, <2>2, <2>3, <2>4, <2>5, <2>7, FitsAfter
<1>7. CASE gen' = [gen EXCEPT ![g].at = "lost"] /\ Fails(g)
  <2> DEFINE new == [NoGeneration EXCEPT !.at = "lost"]
  <2>1. gen' = [gen EXCEPT ![g] = new]
    BY <1>3, <1>7
  <2>4. new \in GenerationRecords /\ new.at = "lost" /\ CountsNothing(new)
    BY NewGeneration
  <2> HIDE DEF new
  <2>2. (new.at = "lost" => g \in faulty') /\ (Works \/ Fails(g)) /\ process = "running"
        /\ process' = process
    BY <1>1, <1>7 DEF Fails
  <2>5. (g \in dirs' <=> new.at = "lost") /\ (dirs' = dirs \cup {g} \/ dirs' = dirs \ {g})
        /\ new.at \in {"lost", "gone"}
    BY <1>1, <2>4
  <2>6. segs' = [segs EXCEPT ![g] = segs[g]] /\ disk' = [disk EXCEPT ![g] = disk[g]]
    BY <1>1, <1>2
  <2>7. \A n \in Sequences : segs[g][n] = NoSegment /\ disk[g][n] = "none"
    BY <1>5
  <2>3. total' \in 0 .. TotalBytes /\ total' + gen[g].bytes = total
    BY <1>1, <1>2, <1>4
  <2> QED
    BY <1>1, <1>2, <2>1, <2>2, <2>3, <2>4, <2>5, <2>6, <2>7, OutsideFits
<1> QED
  BY <1>6, <1>7 DEF BeginGeneration

\* A step that changes the segment in work, and not that it has a file.
LEMMA PartialKeeps ==
    ASSUME CacheIInv, CacheAssumption, NEW g \in Generations, Usable(g),
           gen[g].partial \in InWork,
           NEW record \in GenerationRecords, record.at = "begun", record.next = gen[g].next,
           record.partial \in InWork,
           record.closed => record.partial = "stuck",
           record.partial \in {"created", "writing", "complete"} => disk'[g][gen[g].next] = "partial",
           record.partial \in {"broken", "stuck"} => disk'[g][gen[g].next] = "partial" \/ g \in faulty',
           record.partial = "stuck" => g \in faulty',
           record.partial = "created" => record.reserved = 0,
           record.partial \in {"writing", "complete"} => record.reserved \in Sizes,
           record.written = IF record.partial = "writing" THEN 0 ELSE record.reserved,
           record.bytes = Sum(g) + record.reserved,
           gen' = [gen EXCEPT ![g] = record], UNCHANGED <<process, segs, dirs>>,
           disk' = disk \/ \E names \in Names \ {"none"} : disk' = [disk EXCEPT ![g][gen[g].next] = names],
           Works \/ Fails(g),
           total' \in 0 .. TotalBytes, total' + gen[g].bytes = total + record.bytes
    PROVE  CacheIInv'
<1>1. process = "running" /\ process' = process /\ gen[g].at = "begun" /\ segs' = segs /\ dirs' = dirs
  BY DEF Usable
<1>2. /\ PartFits(gen[g], disk[g], g \in faulty)
      /\ \A n \in Sequences : SegmentStored(gen[g], segs[g][n], disk[g], n, g \in faulty)
      /\ StopFits(gen[g], Held(g), g \in faulty) /\ g \in dirs
  BY FitsBefore
<1>3. /\ segs = [segs EXCEPT ![g] = segs[g]] /\ segs[g] \in [Sequences -> SegmentRecords]
      /\ disk[g] \in [Sequences -> Names] /\ disk = [disk EXCEPT ![g] = disk[g]] /\ CacheTypeOK
      /\ gen[g] \in GenerationRecords
  BY <1>1, GenerationIs
<1>4. gen[g].next \in Sequences /\ disk[g][gen[g].next] # "none"
  <2>1. gen[g].next \in 1 .. MaxSequence + 1 /\ gen[g].next <= MaxSequence /\ MaxSequence \in Nat
    BY <1>2, <1>3 DEF GenerationRecords, PartFits, CacheAssumption
  <2> QED
    BY <1>2, <2>1 DEF Sequences, PartFits
<1>5. PICK files \in [Sequences -> Names] :
         /\ disk' = [disk EXCEPT ![g] = files] /\ files[gen[g].next] # "none"
         /\ \A n \in Sequences \ {gen[g].next} : files[n] = disk[g][n]
  <2>1. CASE disk' = disk
    BY <1>3, <1>4, <2>1
  <2>2. ASSUME NEW names \in Names \ {"none"}, disk' = [disk EXCEPT ![g][gen[g].next] = names]
        PROVE  \E files \in [Sequences -> Names] :
                  /\ disk' = [disk EXCEPT ![g] = files] /\ files[gen[g].next] # "none"
                  /\ \A n \in Sequences \ {gen[g].next} : files[n] = disk[g][n]
    <3> DEFINE files == [disk[g] EXCEPT ![gen[g].next] = names]
    <3>1. /\ files \in [Sequences -> Names] /\ files[gen[g].next] = names
          /\ \A n \in Sequences \ {gen[g].next} : files[n] = disk[g][n]
      BY <1>3, <1>4
    <3>2. disk' = [disk EXCEPT ![g] = files]
      BY <2>2
    <3> HIDE DEF files
    <3> QED
      BY <3>1, <3>2
  <2> QED
    BY <2>1, <2>2
<1>6. disk'[g] = files
  BY <1>3, <1>5 DEF CacheTypeOK
<1>7. g \in faulty => g \in faulty'
  BY DEF Works, Fails
<1>8. PartFits(record, files, g \in faulty')
  BY <1>2, <1>5, <1>6 DEF PartFits, InWork
<1>9. ASSUME NEW n \in Sequences
      PROVE  SegmentStored(record, segs[g][n], files, n, g \in faulty')
  <2>1. SegmentStored(gen[g], segs[g][n], disk[g], n, g \in faulty)
    BY <1>2
  <2>2. segs[g][n].size # 0 => n # gen[g].next
    <3>1. n \in Nat /\ gen[g].next \in Nat
      BY <1>4 DEF Sequences
    <3> QED
      BY <2>1, <3>1 DEF SegmentStored
  <2> QED
    BY <1>5, <1>7, <2>1, <2>2 DEF SegmentStored
<1>10. Sum(g)' = Sum(g) /\ Held(g)' = Held(g)
  BY <1>1, SameSegments
<1>11. StopFits(record, Held(g), g \in faulty')
  BY <1>2, <1>7 DEF StopFits
<1> QED
  BY <1>1, <1>2, <1>3, <1>5, <1>8, <1>9, <1>10, <1>11, FitsAfter

LEMMA CreateKeeps ==
    ASSUME CacheIInv, CacheAssumption, NEW g \in Generations, Create(g)
    PROVE  CacheIInv'
<1>1. process = "running" /\ process' = process /\ gen[g].at = "begun" /\ gen[g].partial = "none"
      /\ Usable(g) /\ ~gen[g].closed /\ segs' = segs /\ dirs' = dirs /\ total' = total
      /\ (Works \/ Fails(g)) /\ gen[g].next <= MaxSequence
  BY DEF Create, Usable
<1>2. /\ PartFits(gen[g], disk[g], g \in faulty) /\ g \in dirs
      /\ \A n \in Sequences : SegmentStored(gen[g], segs[g][n], disk[g], n, g \in faulty)
  BY <1>1, FitsBefore
<1>3. /\ gen[g] \in GenerationRecords /\ segs = [segs EXCEPT ![g] = segs[g]]
      /\ segs[g] \in [Sequences -> SegmentRecords] /\ disk[g] \in [Sequences -> Names]
      /\ disk = [disk EXCEPT ![g] = disk[g]] /\ total \in 0 .. TotalBytes
      /\ gen[g].bytes = Sum(g) + gen[g].reserved /\ gen[g].bytes \in Nat
  BY <1>1, GenerationIs
<1>4. gen[g].next \in Sequences /\ gen[g].reserved = 0 /\ gen[g].written = 0
  <2>1. gen[g].next \in 1 .. MaxSequence + 1 /\ MaxSequence \in Nat
    BY <1>3 DEF GenerationRecords, CacheAssumption
  <2> QED
    BY <1>1, <1>2, <2>1 DEF Sequences, PartFits
<1>5. Sum(g)' = Sum(g) /\ (g \in faulty => g \in faulty')
  BY <1>1, SameSegments DEF Works, Fails
<1>6. ASSUME NEW partial \in {"created", "orphan", "ended"},
             gen' = [gen EXCEPT ![g].partial = partial],
             NEW files \in [Sequences -> Names], disk' = [disk EXCEPT ![g] = files],
             \A n \in Sequences \ {gen[g].next} : files[n] = disk[g][n],
             files[gen[g].next] = IF partial = "ended" THEN disk[g][gen[g].next] ELSE "partial",
             partial # "created" => g \in faulty'
      PROVE  CacheIInv'
  <2> DEFINE record == [gen[g] EXCEPT !.partial = partial]
  <2>1. gen' = [gen EXCEPT ![g] = record]
    BY <1>6
  <2>2. /\ record \in GenerationRecords /\ record.at = "begun" /\ record.partial = partial
        /\ record.next = gen[g].next /\ record.bytes = gen[g].bytes /\ record.reserved = 0
        /\ record.written = 0 /\ ~record.closed
    BY <1>1, <1>3, <1>4 DEF GenerationRecords, Partials, InWork
  <2> HIDE DEF record
  <2>3. PartFits(record, files, g \in faulty')
    BY <1>1, <1>6, <2>2 DEF PartFits, InWork
  <2>4. ASSUME NEW n \in Sequences
        PROVE  SegmentStored(record, segs[g][n], files, n, g \in faulty')
    <3>1. SegmentStored(gen[g], segs[g][n], disk[g], n, g \in faulty)
      BY <1>2
    <3>2. n \in Nat /\ gen[g].next \in Nat
      BY <1>4 DEF Sequences
    <3>3. segs[g][n].size # 0 => n # gen[g].next
      BY <3>1, <3>2 DEF SegmentStored
    <3> QED
      BY <1>1, <1>5, <1>6, <2>2, <3>1, <3>3 DEF SegmentStored, InWork
  <2>5. \A held : StopFits(record, held, g \in faulty')
    BY <2>2 DEF StopFits
  <2>6. record.bytes = Sum(g)' + record.reserved /\ total' + gen[g].bytes = total + record.bytes
        /\ total' \in 0 .. TotalBytes
    BY <1>1, <1>3, <1>4, <1>5, <2>2
  <2> QED
    BY <1>1, <1>2, <1>3, <1>6, <2>1, <2>2, <2>3, <2>4, <2>5, <2>6, FitsAfter
<1> DEFINE made == [disk[g] EXCEPT ![gen[g].next] = "partial"]
<1>7. /\ made \in [Sequences -> Names] /\ made[gen[g].next] = "partial"
      /\ \A n \in Sequences \ {gen[g].next} : made[n] = disk[g][n]
  BY <1>3, <1>4 DEF Names
<1>8. CASE \E partial \in {"created", "orphan"} :
              /\ gen' = [gen EXCEPT ![g].partial = partial] /\ (partial = "orphan" => Fails(g))
              /\ disk' = [disk EXCEPT ![g][gen[g].next] = "partial"]
  <2>1. disk' = [disk EXCEPT ![g] = made]
    BY <1>8
  <2> HIDE DEF made
  <2> QED
    BY <1>6, <1>7, <1>8, <2>1 DEF Fails
<1>9. CASE gen' = [gen EXCEPT ![g].partial = "ended"] /\ Fails(g) /\ disk' = disk
  <2>1. g \in faulty'
    BY <1>9 DEF Fails
  <2> QED
    BY <1>3, <1>6, <1>9, <2>1
<1> QED
  BY <1>8, <1>9 DEF Create

\* The segment in work, before a step of the worker on it.
LEMMA WorkerHas ==
    ASSUME CacheIInv, CacheAssumption, NEW g \in Generations, Usable(g),
           gen[g].partial \in {"created", "writing", "complete", "broken"}
    PROVE  /\ process = "running" /\ gen[g].at = "begun" /\ gen[g] \in GenerationRecords
           /\ ~gen[g].closed /\ gen[g].partial \in InWork /\ PartFits(gen[g], disk[g], g \in faulty)
           /\ gen[g].bytes = Sum(g) + gen[g].reserved /\ Sum(g) \in Nat
           /\ gen[g].reserved \in 0 .. TotalBytes /\ gen[g].bytes \in 0 .. TotalBytes
           /\ gen[g].bytes <= total /\ total \in 0 .. TotalBytes /\ TotalBytes \in Nat
           /\ gen[g].reserved \in Nat /\ gen[g].bytes \in Nat /\ total \in Nat
<1>1. process = "running" /\ gen[g].at = "begun"
  BY DEF Usable
<1>2. PartFits(gen[g], disk[g], g \in faulty) /\ ~gen[g].closed /\ gen[g].partial \in InWork
  BY FitsBefore DEF StopFits, InWork
<1>3. gen[g] \in GenerationRecords /\ TotalBytes \in Nat
  BY <1>1, GenerationIs
<1>4. gen[g].reserved \in 0 .. TotalBytes /\ gen[g].bytes \in 0 .. TotalBytes
  BY <1>3 DEF GenerationRecords
<1> QED
  BY <1>1, <1>2, <1>3, <1>4, GenerationIs

LEMMA ReserveKeeps ==
    ASSUME CacheIInv, CacheAssumption, NEW g \in Generations, NEW size \in Sizes, Reserve(g, size)
    PROVE  CacheIInv'
<1>1. Usable(g) /\ gen[g].partial = "created" /\ UNCHANGED <<process, segs, dirs>> /\ disk' = disk
      /\ (Works \/ Fails(g))
  BY DEF Reserve
<1>2. /\ gen[g].at = "begun" /\ gen[g] \in GenerationRecords /\ ~gen[g].closed
      /\ PartFits(gen[g], disk[g], g \in faulty) /\ gen[g].partial \in InWork
      /\ gen[g].bytes = Sum(g) + gen[g].reserved /\ Sum(g) \in Nat /\ total \in 0 .. TotalBytes
      /\ TotalBytes \in Nat /\ gen[g].bytes \in Nat /\ total \in Nat
  BY <1>1, WorkerHas
<1>3. /\ gen[g].reserved = 0 /\ gen[g].written = 0 /\ disk'[g][gen[g].next] = "partial"
      /\ gen[g].bytes = Sum(g)
  <2>1. gen[g].reserved = 0 /\ gen[g].written = 0 /\ disk'[g][gen[g].next] = "partial"
    BY <1>1, <1>2 DEF PartFits
  <2> QED
    BY <1>2, <2>1
<1>4. size \in Nat /\ SessionBytes \in Nat /\ SessionBytes <= TotalBytes
  BY SizeIsNatural DEF CacheAssumption
<1>5. CASE /\ WithinLimits(g, size)
           /\ gen' = [gen EXCEPT ![g].partial = "writing", ![g].reserved = size, ![g].bytes = @ + size]
           /\ total' = total + size
  <2> DEFINE record == [gen[g] EXCEPT !.partial = "writing", !.reserved = size, !.bytes = @ + size]
  <2>1. gen' = [gen EXCEPT ![g] = record] /\ total' = total + size
    BY <1>5
  <2>2. /\ gen[g].bytes + size \in 0 .. TotalBytes /\ size \in 0 .. TotalBytes
        /\ total + size \in 0 .. TotalBytes
    BY <1>2, <1>4, <1>5 DEF WithinLimits
  <2>3. /\ record.at = "begun" /\ record.next = gen[g].next /\ record.partial = "writing"
        /\ record.reserved = size /\ record.bytes = gen[g].bytes + size /\ ~record.closed
        /\ record.written = 0 /\ record \in GenerationRecords
    BY <1>2, <1>3, <2>2 DEF GenerationRecords, Partials, InWork
  <2> HIDE DEF record
  <2>4. total' \in 0 .. TotalBytes /\ total' + gen[g].bytes = total + record.bytes
        /\ record.bytes = Sum(g) + record.reserved
    BY <1>2, <1>3, <1>4, <2>1, <2>2, <2>3
  <2>5. record.partial \in InWork
    BY <2>3 DEF InWork
  <2> QED
    BY <1>1, <1>2, <1>3, <2>1, <2>3, <2>4, <2>5, PartialKeeps
<1>6. CASE gen' = [gen EXCEPT ![g].partial = "broken"] /\ total' = total
  <2> DEFINE record == [gen[g] EXCEPT !.partial = "broken"]
  <2>1. gen' = [gen EXCEPT ![g] = record]
    BY <1>6
  <2>2. /\ record.at = "begun" /\ record.next = gen[g].next /\ record.partial = "broken"
        /\ record.reserved = 0 /\ record.bytes = gen[g].bytes /\ ~record.closed
        /\ record.written = 0 /\ record \in GenerationRecords
    BY <1>2, <1>3 DEF GenerationRecords, Partials, InWork
  <2> HIDE DEF record
  <2>3. total' \in 0 .. TotalBytes /\ total' + gen[g].bytes = total + record.bytes
        /\ record.bytes = Sum(g) + record.reserved
    BY <1>2, <1>3, <1>6, <2>2
  <2>4. record.partial \in InWork
    BY <2>2 DEF InWork
  <2> QED
    BY <1>1, <1>2, <1>3, <2>1, <2>2, <2>3, <2>4, PartialKeeps
<1> QED
  BY <1>5, <1>6 DEF Reserve

LEMMA WriteKeeps ==
    ASSUME CacheIInv, CacheAssumption, NEW g \in Generations, Write(g)
    PROVE  CacheIInv'
<1>1. Usable(g) /\ gen[g].partial = "writing" /\ UNCHANGED <<process, segs, dirs>> /\ disk' = disk
      /\ (Works \/ Fails(g))
  BY DEF Write
<1>2. /\ gen[g].at = "begun" /\ gen[g] \in GenerationRecords /\ ~gen[g].closed
      /\ PartFits(gen[g], disk[g], g \in faulty) /\ gen[g].partial \in InWork
      /\ gen[g].bytes = Sum(g) + gen[g].reserved /\ Sum(g) \in Nat
      /\ gen[g].reserved \in 0 .. TotalBytes /\ gen[g].bytes \in 0 .. TotalBytes
      /\ gen[g].bytes <= total /\ total \in 0 .. TotalBytes /\ TotalBytes \in Nat
      /\ gen[g].reserved \in Nat /\ gen[g].bytes \in Nat /\ total \in Nat
  BY <1>1, WorkerHas
<1>3. gen[g].reserved \in Sizes /\ gen[g].written = 0 /\ disk'[g][gen[g].next] = "partial"
  BY <1>1, <1>2 DEF PartFits
<1>5. CASE gen' = [gen EXCEPT ![g].partial = "complete", ![g].written = gen[g].reserved] /\ total' = total
  <2> DEFINE record == [gen[g] EXCEPT !.partial = "complete", !.written = gen[g].reserved]
  <2>1. gen' = [gen EXCEPT ![g] = record]
    BY <1>5
  <2>3. /\ record.at = "begun" /\ record.next = gen[g].next /\ record.partial = "complete"
        /\ record.reserved = gen[g].reserved /\ record.bytes = gen[g].bytes /\ ~record.closed
        /\ record.written = gen[g].reserved /\ record \in GenerationRecords
    BY <1>2 DEF GenerationRecords, Partials, InWork
  <2> HIDE DEF record
  <2>4. total' \in 0 .. TotalBytes /\ total' + gen[g].bytes = total + record.bytes
        /\ record.bytes = Sum(g) + record.reserved
    BY <1>2, <1>5, <2>3
  <2>5. record.partial \in InWork
    BY <2>3 DEF InWork
  <2> QED
    BY <1>1, <1>2, <1>3, <2>1, <2>3, <2>4, <2>5, PartialKeeps
<1>6. ASSUME NEW written \in 0 .. gen[g].reserved,
             gen' = [gen EXCEPT ![g].partial = "broken", ![g].written = written,
                                ![g].reserved = written,
                                ![g].bytes = @ - (gen[g].reserved - written)],
             total' = total - (gen[g].reserved - written)
      PROVE  CacheIInv'
  <2> DEFINE record == [gen[g] EXCEPT !.partial = "broken", !.written = written, !.reserved = written,
                                      !.bytes = @ - (gen[g].reserved - written)]
  <2>1. gen' = [gen EXCEPT ![g] = record]
    BY <1>6
  <2>2. /\ written \in 0 .. TotalBytes /\ written \in Nat /\ written <= gen[g].reserved
        /\ gen[g].bytes - (gen[g].reserved - written) \in 0 .. TotalBytes
    BY <1>2
  <2>3. /\ record.at = "begun" /\ record.next = gen[g].next /\ record.partial = "broken"
        /\ record.reserved = written /\ record.bytes = gen[g].bytes - (gen[g].reserved - written)
        /\ record.written = written /\ record \in GenerationRecords /\ ~record.closed
    BY <1>2, <2>2 DEF GenerationRecords, Partials, InWork
  <2> HIDE DEF record
  <2>4. total' \in 0 .. TotalBytes /\ total' + gen[g].bytes = total + record.bytes
        /\ record.bytes = Sum(g) + record.reserved
    BY <1>2, <1>6, <2>2, <2>3
  <2>5. record.partial \in InWork
    BY <2>3 DEF InWork
  <2> QED
    BY <1>1, <1>2, <1>3, <2>1, <2>3, <2>4, <2>5, PartialKeeps
<1> QED
  BY <1>5, <1>6 DEF Write

LEMMA PublishKeeps ==
    ASSUME CacheIInv, CacheAssumption, NEW g \in Generations, Publish(g)
    PROVE  CacheIInv'
<1> DEFINE n == gen[g].next
<1>1. Usable(g) /\ gen[g].partial = "complete" /\ UNCHANGED <<process, total, dirs>>
      /\ (Works \/ Fails(g))
  BY DEF Publish
<1>2. /\ process = "running" /\ gen[g].at = "begun" /\ gen[g] \in GenerationRecords
      /\ ~gen[g].closed /\ PartFits(gen[g], disk[g], g \in faulty) /\ gen[g].partial \in InWork
      /\ gen[g].bytes = Sum(g) + gen[g].reserved /\ Sum(g) \in Nat
      /\ total \in 0 .. TotalBytes /\ gen[g].bytes \in Nat /\ total \in Nat /\ gen[g].reserved \in Nat
  BY <1>1, WorkerHas
<1>3. gen[g].reserved \in Sizes /\ gen[g].written = gen[g].reserved /\ n <= MaxSequence
  BY <1>1, <1>2 DEF PartFits, InWork
<1>4. n \in Sequences /\ n \in Nat /\ n \in 1 .. MaxSequence + 1 /\ MaxSequence \in Nat
  <2>1. n \in 1 .. MaxSequence + 1 /\ MaxSequence \in Nat
    BY <1>2 DEF GenerationRecords, CacheAssumption
  <2> QED
    BY <1>3, <2>1 DEF Sequences
<1>6. CASE /\ segs' = [segs EXCEPT ![g][n].size = gen[g].written]
           /\ disk' = [disk EXCEPT ![g][n] = "final"]
           /\ gen' = [gen EXCEPT ![g].partial = "none", ![g].next = n + 1,
                                 ![g].reserved = 0, ![g].written = 0]
           /\ Works
  <2> DEFINE record == [gen[g] EXCEPT !.partial = "none", !.next = n + 1, !.reserved = 0, !.written = 0]
             segment == [segs[g][n] EXCEPT !.size = gen[g].written]
             segments == [segs[g] EXCEPT ![n] = segment]
             files == [disk[g] EXCEPT ![n] = "final"]
  <2>1. /\ gen' = [gen EXCEPT ![g] = record] /\ segs' = [segs EXCEPT ![g] = segments]
        /\ disk' = [disk EXCEPT ![g] = files]
    BY <1>6
  <2>2. SegmentStored(gen[g], segs[g][n], disk[g], n, g \in faulty)
    BY <1>1, <1>4, FitsBefore
  <2>3. segs[g][n] = NoSegment
    BY <1>4, <2>2 DEF SegmentStored
  <2>4. n + 1 \in 1 .. MaxSequence + 1 /\ 0 \in 0 .. TotalBytes
    BY <1>3, <1>4 DEF CacheAssumption
  <2>5. /\ record.at = "begun" /\ record.partial = "none" /\ record.next = n + 1
        /\ record.reserved = 0 /\ record.written = 0 /\ record.bytes = gen[g].bytes
        /\ record \in GenerationRecords /\ ~record.closed
    BY <1>2, <2>4 DEF GenerationRecords, Partials, InWork
  <2>6. segment.size = gen[g].reserved /\ segment.readers = 0 /\ ~segment.retired
    BY <1>3, <2>3 DEF NoSegment
  <2>7. segment \in SegmentRecords
    <3>1. segs[g][n] \in SegmentRecords
      BY <1>2, <1>4, GenerationIs
    <3> QED
      BY <1>3, <3>1 DEF SegmentRecords
  <2>8. /\ files \in [Sequences -> Names] /\ files[n] = "final"
        /\ \A m \in Sequences \ {n} : files[m] = disk[g][m]
    BY <1>2, <1>4, GenerationIs DEF Names
  <2>9. /\ segments \in [Sequences -> SegmentRecords] /\ segments[n] = segment
        /\ \A m \in Sequences \ {n} : segments[m] = segs[g][m]
    BY <1>2, <1>4, <2>7, GenerationIs
  <2>10. segments = [segs[g] EXCEPT ![n] = segment]
    OBVIOUS
  <2> HIDE DEF record, segment, segments, files
  <2>11. segs'[g] = segments
    <3>1. CacheTypeOK
      BY DEF CacheIInv
    <3> QED
      BY <2>1, <3>1 DEF CacheTypeOK
  <2>12. Sum(g)' \in Nat /\ Sum(g)' + segs[g][n].size = Sum(g) + segment.size
    BY <1>2, <1>4, <2>7, <2>10, <2>11, OneSegment, GenerationIs
  <2>13. record.bytes = Sum(g)' + record.reserved
    <3>1. segs[g][n].size = 0
      BY <2>3 DEF NoSegment
    <3> QED
      BY <1>2, <2>5, <2>6, <2>12, <3>1
  <2>14. PartFits(record, files, g \in faulty')
    BY <2>5 DEF PartFits, InWork
  <2>15. ASSUME NEW m \in Sequences
         PROVE  SegmentStored(record, segments[m], files, m, g \in faulty')
    <3>1. CASE m = n
      <4>1. n < n + 1 /\ segment.size # 0
        BY <1>3, <1>4, <2>6, SizeIsNatural
      <4> QED
        BY <2>5, <2>6, <2>8, <2>9, <3>1, <4>1 DEF SegmentStored
    <3>2. CASE m # n
      <4>1. SegmentStored(gen[g], segs[g][m], disk[g], m, g \in faulty)
        BY <1>1, FitsBefore
      <4>2. m < n => m < n + 1
        BY <1>4 DEF Sequences
      <4>3. g \in faulty => g \in faulty'
        BY <1>6 DEF Works
      <4> QED
        BY <2>5, <2>8, <2>9, <3>2, <4>1, <4>2, <4>3 DEF SegmentStored
    <3> QED
      BY <3>1, <3>2
  <2>16. \A held : StopFits(record, held, g \in faulty')
    BY <2>5 DEF StopFits
  <2>17. total' \in 0 .. TotalBytes /\ total' + gen[g].bytes = total + record.bytes
         /\ process' = process /\ dirs' = dirs /\ g \in dirs
    BY <1>1, <1>2, <2>5, FitsBefore
  <2> QED
    BY <1>1, <1>2, <2>1, <2>5, <2>8, <2>9, <2>13, <2>14, <2>15, <2>16, <2>17, FitsAfter
<1>7. ASSUME NEW names \in {"partial", "linked", "final"}, Fails(g), UNCHANGED segs,
             gen' = [gen EXCEPT ![g].partial = "broken"], disk' = [disk EXCEPT ![g][n] = names]
      PROVE  CacheIInv'
  <2> DEFINE record == [gen[g] EXCEPT !.partial = "broken"]
  <2>1. gen' = [gen EXCEPT ![g] = record]
    BY <1>7
  <2>2. /\ record.at = "begun" /\ record.next = n /\ record.partial = "broken"
        /\ record.reserved = gen[g].reserved /\ record.bytes = gen[g].bytes /\ ~record.closed
        /\ record.written = gen[g].reserved /\ record \in GenerationRecords
    BY <1>2, <1>3 DEF GenerationRecords, Partials, InWork
  <2> HIDE DEF record
  <2>3. total' \in 0 .. TotalBytes /\ total' + gen[g].bytes = total + record.bytes
        /\ record.bytes = Sum(g) + record.reserved
    BY <1>1, <1>2, <2>2
  <2>4. record.partial \in InWork /\ names \in Names \ {"none"} /\ g \in faulty'
    BY <1>7, <2>2 DEF InWork, Names, Fails
  <2> QED
    BY <1>1, <1>2, <1>7, <2>1, <2>2, <2>3, <2>4, PartialKeeps
<1> QED
  BY <1>6, <1>7 DEF Publish

LEMMA SettleKeeps ==
    ASSUME CacheIInv, CacheAssumption, NEW g \in Generations, Usable(g), process' = process,
           NEW record \in GenerationRecords, record.at = "begun",
           NEW segments \in [Sequences -> SegmentRecords], segs' = [segs EXCEPT ![g] = segments],
           NEW files \in [Sequences -> Names], disk' = [disk EXCEPT ![g] = files],
           NEW held, held = Held(g)', Settle(g, record, held),
           PartFits(record, files, g \in faulty), record.bytes = Sum(g)' + record.reserved,
           \A n \in Sequences : SegmentStored(record, segments[n], files, n, g \in faulty),
           record.closed => record.partial \in {"none", "ended", "orphan", "stuck"},
           total' \in 0 .. TotalBytes, total' + gen[g].bytes = total + record.bytes
    PROVE  CacheIInv'
<1>1. process = "running" /\ gen[g].at = "begun" /\ g \in dirs
  BY FitsBefore DEF Usable
<1>2. segs'[g] = segments
  <2>1. CacheTypeOK
    BY DEF CacheIInv
  <2> QED
    BY <2>1 DEF CacheTypeOK
<1>3. CASE /\ Empty(record, held) /\ record.partial # "orphan" /\ Works
           /\ gen' = [gen EXCEPT ![g] = [NoGeneration EXCEPT !.at = "gone"]] /\ dirs' = dirs \ {g}
  <2>1. record.partial \in {"none", "ended"} /\ Held(g)' = {} /\ record.reserved = 0
    BY <1>3 DEF Empty, PartFits, InWork
  <2>2. ASSUME NEW n \in Sequences
        PROVE  segments[n].size = 0 /\ segments[n] = NoSegment /\ files[n] = "none"
    <3>1. segments[n].size = 0
      BY <1>2, <2>1 DEF Held
    <3> QED
      BY <2>1, <3>1 DEF SegmentStored, InWork
  <2>3. Sum(g)' = 0
    <3>1. \A n \in Sequences : Stored(g)'[n] = 0
      BY <1>2, <2>2 DEF Stored
    <3> QED
      BY <3>1, SumOf, SumBounds, CacheFinite
  <2>4. record.bytes = 0
    BY <2>1, <2>3
  <2>5. total' + gen[g].bytes = total
    BY <1>1, <2>4, GenerationIs
  <2> DEFINE new == [NoGeneration EXCEPT !.at = "gone"]
  <2>6. gen' = [gen EXCEPT ![g] = new] /\ g \notin dirs' /\ dirs' = dirs \ {g}
    BY <1>3
  <2>7. new \in GenerationRecords /\ new.at = "gone" /\ CountsNothing(new)
    BY NewGeneration
  <2> HIDE DEF new
  <2>8. (g \in dirs' <=> new.at = "lost") /\ (dirs' = dirs \cup {g} \/ dirs' = dirs \ {g})
        /\ new.at \in {"lost", "gone"} /\ (new.at = "lost" => g \in faulty')
    BY <2>6, <2>7
  <2>9. \A n \in Sequences : segments[n] = NoSegment /\ files[n] = "none"
    BY <2>2
  <2>10. Works \/ Fails(g)
    BY <1>3
  <2> QED
    BY <1>1, <2>5, <2>6, <2>7, <2>8, <2>9, <2>10, OutsideFits
<1>4. CASE /\ IF Empty(record, held) /\ record.partial # "orphan" THEN Fails(g) ELSE Works
           /\ gen' = [gen EXCEPT ![g] = record] /\ UNCHANGED dirs
  <2>1. (Works \/ Fails(g)) /\ (g \in faulty => g \in faulty')
    BY <1>4 DEF Works, Fails
  <2>2. PartFits(record, files, g \in faulty')
    BY <2>1 DEF PartFits
  <2>3. \A n \in Sequences : SegmentStored(record, segments[n], files, n, g \in faulty')
    BY <2>1 DEF SegmentStored
  <2>4. StopFits(record, held, g \in faulty')
    <3>1. record.partial = "orphan" => g \in faulty
      BY DEF PartFits
    <3>2. record.partial = "stuck" => g \in faulty
      BY DEF PartFits
    <3>3. record.closed /\ held = {} => g \in faulty'
      BY <1>4, <2>1, <3>1, <3>2 DEF Empty, InWork, Fails
    <3> QED
      BY <3>3 DEF StopFits
  <2>5. g \in dirs' /\ dirs' = dirs
    BY <1>1, <1>4
  <2> QED
    BY <1>1, <1>4, <2>1, <2>2, <2>3, <2>4, <2>5, FitsAfter
<1> QED
  BY <1>3, <1>4 DEF Settle

LEMMA DiscardedKeeps ==
    ASSUME CacheIInv, CacheAssumption, NEW g \in Generations, Usable(g),
           gen[g].partial \in {"broken", "stuck"}, UNCHANGED <<process, segs>>,
           NEW record \in GenerationRecords, record.at = "begun",
           record.next = gen[g].next, record.partial = gen[g].partial, record.bytes = gen[g].bytes,
           record.reserved = gen[g].reserved, record.written = gen[g].written,
           Discarded(g, record)
    PROVE  CacheIInv'
<1>1. process = "running" /\ gen[g].at = "begun" /\ segs' = segs /\ process' = process
  BY DEF Usable
<1>2. /\ PartFits(gen[g], disk[g], g \in faulty) /\ gen[g].written = gen[g].reserved
      /\ gen[g].next <= MaxSequence
      /\ \A n \in Sequences : SegmentStored(gen[g], segs[g][n], disk[g], n, g \in faulty)
  BY FitsBefore DEF PartFits, InWork
<1>3. gen[g].next \in Sequences
  <2>1. gen[g].next \in 1 .. MaxSequence + 1 /\ MaxSequence \in Nat
    BY <1>1, GenerationIs DEF GenerationRecords, CacheAssumption
  <2> QED
    BY <1>2, <2>1 DEF Sequences
<1>4. /\ gen[g].bytes = Sum(g) + gen[g].reserved /\ Sum(g) \in Nat /\ gen[g].reserved \in Nat
      /\ gen[g].bytes \in Nat /\ gen[g].bytes <= total /\ total \in 0 .. TotalBytes
      /\ TotalBytes \in Nat /\ segs[g] \in [Sequences -> SegmentRecords]
      /\ segs = [segs EXCEPT ![g] = segs[g]] /\ disk = [disk EXCEPT ![g] = disk[g]]
      /\ disk[g] \in [Sequences -> Names]
  BY <1>1, GenerationIs
<1>5. Sum(g)' = Sum(g) /\ Held(g)' = Held(g)
  BY <1>1, SameSegments
<1>6. CASE /\ Settle(g, [record EXCEPT !.partial = "ended", !.bytes = @ - record.written,
                                       !.reserved = 0, !.written = 0], Held(g))
           /\ total' = total - record.written
           /\ disk' = [disk EXCEPT ![g][record.next] = "none"]
  <2> DEFINE new == [record EXCEPT !.partial = "ended", !.bytes = @ - record.written,
                                   !.reserved = 0, !.written = 0]
             files == [disk[g] EXCEPT ![gen[g].next] = "none"]
  <2>1. disk' = [disk EXCEPT ![g] = files]
    BY <1>6
  <2>2. record.bytes - record.written \in 0 .. TotalBytes /\ 0 \in 0 .. TotalBytes
    BY <1>2, <1>4
  <2>3. /\ new.at = "begun" /\ new.partial = "ended" /\ new.bytes = gen[g].bytes - gen[g].reserved
        /\ new.reserved = 0 /\ new.written = 0 /\ new.next = gen[g].next
        /\ new \in GenerationRecords
    BY <1>2, <2>2 DEF GenerationRecords, Partials, InWork
  <2>4. /\ files \in [Sequences -> Names] /\ files[gen[g].next] = "none"
        /\ \A n \in Sequences \ {gen[g].next} : files[n] = disk[g][n]
    BY <1>3, <1>4 DEF Names
  <2>5. Settle(g, new, Held(g))
    BY <1>6
  <2> HIDE DEF new, files
  <2>6. PartFits(new, files, g \in faulty)
    BY <2>3 DEF PartFits, InWork
  <2>7. ASSUME NEW n \in Sequences
        PROVE  SegmentStored(new, segs[g][n], files, n, g \in faulty)
    <3>1. SegmentStored(gen[g], segs[g][n], disk[g], n, g \in faulty)
      BY <1>2
    <3>2. gen[g].next \in Nat /\ n \in Nat
      BY <1>3 DEF Sequences
    <3>3. segs[g][n].size # 0 => n # gen[g].next
      BY <3>1, <3>2 DEF SegmentStored
    <3> QED
      BY <2>3, <2>4, <3>1, <3>3 DEF SegmentStored
  <2>8. /\ total' \in 0 .. TotalBytes /\ total' + gen[g].bytes = total + new.bytes
        /\ new.bytes = Sum(g)' + new.reserved
    BY <1>2, <1>4, <1>5, <1>6, <2>3
  <2> QED
    BY <1>1, <1>4, <1>5, <2>1, <2>3, <2>4, <2>5, <2>6, <2>7, <2>8, SettleKeeps
<1>7. CASE /\ IF disk[g][record.next] = "partial" THEN Fails(g) ELSE Works
           /\ gen' = [gen EXCEPT ![g] = [record EXCEPT !.partial = "stuck"]]
           /\ UNCHANGED <<total, dirs, disk>>
  <2> DEFINE new == [record EXCEPT !.partial = "stuck"]
  <2>1. /\ new.at = "begun" /\ new.partial = "stuck" /\ new.bytes = gen[g].bytes
        /\ new.reserved = gen[g].reserved /\ new.written = gen[g].reserved
        /\ new.next = gen[g].next /\ new \in GenerationRecords
    BY <1>2 DEF GenerationRecords, Partials, InWork
  <2>2. gen' = [gen EXCEPT ![g] = new]
    BY <1>7
  <2>3. UNCHANGED <<process, segs, dirs>> /\ disk' = disk /\ (Works \/ Fails(g)) /\ g \in faulty'
    BY <1>1, <1>2, <1>7 DEF PartFits, Works, Fails
  <2> HIDE DEF new
  <2>4. total' \in 0 .. TotalBytes /\ total' + gen[g].bytes = total + new.bytes
        /\ new.bytes = Sum(g) + new.reserved
    BY <1>4, <1>7, <2>1
  <2>5. gen[g].partial \in InWork /\ new.partial \in InWork
    BY <2>1 DEF InWork
  <2> QED
    BY <2>1, <2>2, <2>3, <2>4, <2>5, PartialKeeps
<1> QED
  BY <1>6, <1>7 DEF Discarded

LEMMA DiscardKeeps ==
    ASSUME CacheIInv, CacheAssumption, NEW g \in Generations, Discard(g)
    PROVE  CacheIInv'
<1>1. Usable(g) /\ gen[g].partial = "broken" /\ UNCHANGED <<process, segs>> /\ Discarded(g, gen[g])
  BY DEF Discard
<1>2. gen[g] \in GenerationRecords /\ gen[g].at = "begun"
  BY <1>1, GenerationIs DEF Usable
<1> QED
  BY <1>1, <1>2, DiscardedKeeps

LEMMA StopGenerationKeeps ==
    ASSUME CacheIInv, CacheAssumption, NEW g \in Generations, StopGeneration(g)
    PROVE  CacheIInv'
<1> DEFINE record == [gen[g] EXCEPT !.closed = TRUE]
<1>1. Usable(g) /\ process = "running" /\ gen[g].at = "begun" /\ UNCHANGED <<process, segs>>
  BY DEF StopGeneration, Usable
<1>2. /\ gen[g] \in GenerationRecords /\ PartFits(gen[g], disk[g], g \in faulty)
      /\ \A n \in Sequences : SegmentStored(gen[g], segs[g][n], disk[g], n, g \in faulty)
  BY <1>1, GenerationIs, FitsBefore
<1>3. /\ record.at = "begun" /\ record.next = gen[g].next /\ record.partial = gen[g].partial
      /\ record.bytes = gen[g].bytes /\ record.reserved = gen[g].reserved
      /\ record.written = gen[g].written /\ record \in GenerationRecords
  BY <1>1, <1>2 DEF GenerationRecords
<1>4. CASE /\ record.partial \in {"none", "ended", "orphan"}
           /\ Settle(g, record, Held(g)) /\ UNCHANGED <<total, disk>>
  <2>1. Settle(g, record, Held(g)) /\ process' = process /\ record.partial \in {"none", "ended", "orphan"}
        /\ disk' = disk /\ total' = total /\ segs' = segs
    BY <1>1, <1>4
  <2> HIDE DEF record
  <2>2. Sum(g)' = Sum(g) /\ Held(g)' = Held(g)
    BY <2>1, SameSegments
  <2>3. PartFits(record, disk[g], g \in faulty)
    BY <1>2, <1>3 DEF PartFits
  <2>4. \A n \in Sequences : SegmentStored(record, segs[g][n], disk[g], n, g \in faulty)
    BY <1>2, <1>3 DEF SegmentStored
  <2>5. /\ total' \in 0 .. TotalBytes /\ total' + gen[g].bytes = total + record.bytes
        /\ record.bytes = Sum(g)' + record.reserved
    BY <1>1, <1>3, <2>1, <2>2, GenerationIs
  <2>6. segs' = [segs EXCEPT ![g] = segs[g]] /\ disk' = [disk EXCEPT ![g] = disk[g]]
        /\ segs[g] \in [Sequences -> SegmentRecords] /\ disk[g] \in [Sequences -> Names]
    BY <1>1, <2>1, GenerationIs
  <2> QED
    BY <1>1, <1>3, <2>1, <2>2, <2>3, <2>4, <2>5, <2>6, SettleKeeps
<1>5. CASE record.partial = "stuck" /\ Discarded(g, record)
  <2>1. gen[g].partial \in {"broken", "stuck"} /\ Discarded(g, record)
    BY <1>3, <1>5
  <2> HIDE DEF record
  <2> QED
    BY <1>1, <1>3, <2>1, DiscardedKeeps
<1> QED
  BY <1>4, <1>5 DEF StopGeneration

\* One segment changes, but not its size.
LEMMA SegmentKeeps ==
    ASSUME CacheIInv, CacheAssumption, NEW g \in Generations, NEW n \in Sequences, Usable(g),
           NEW record \in SegmentRecords, record.size = segs[g][n].size, record.size # 0,
           record.retired /\ record.readers = 0 => g \in faulty',
           segs' = [segs EXCEPT ![g][n] = record], Works \/ Fails(g),
           UNCHANGED <<process, gen, total, dirs, disk>>
    PROVE  CacheIInv'
<1> DEFINE segments == [segs[g] EXCEPT ![n] = record]
<1>1. process = "running" /\ gen[g].at = "begun" /\ process' = process /\ dirs' = dirs
      /\ total' = total /\ gen' = gen /\ disk' = disk
  BY DEF Usable
<1>2. /\ gen[g] \in GenerationRecords /\ segs[g] \in [Sequences -> SegmentRecords]
      /\ disk[g] \in [Sequences -> Names] /\ gen = [gen EXCEPT ![g] = gen[g]]
      /\ disk = [disk EXCEPT ![g] = disk[g]] /\ CacheTypeOK
      /\ gen[g].bytes = Sum(g) + gen[g].reserved /\ total \in 0 .. TotalBytes
      /\ gen[g].bytes \in Nat /\ Sum(g) \in Nat
  BY <1>1, GenerationIs
<1>3. /\ PartFits(gen[g], disk[g], g \in faulty) /\ StopFits(gen[g], Held(g), g \in faulty)
      /\ \A m \in Sequences : SegmentStored(gen[g], segs[g][m], disk[g], m, g \in faulty)
      /\ g \in dirs
  BY FitsBefore
<1>4. segs' = [segs EXCEPT ![g] = segments] /\ segments \in [Sequences -> SegmentRecords]
      /\ segments = [segs[g] EXCEPT ![n] = record] /\ segments[n] = record
      /\ \A m \in Sequences \ {n} : segments[m] = segs[g][m]
  BY <1>2
<1> HIDE DEF segments
<1>5. segs'[g] = segments /\ (g \in faulty => g \in faulty')
  BY <1>2, <1>4 DEF CacheTypeOK, Works, Fails
<1>6. /\ Sum(g)' \in Nat /\ Sum(g)' + segs[g][n].size = Sum(g) + record.size
      /\ Held(g)' = IF record.size = 0 THEN Held(g) \ {n} ELSE Held(g) \cup {n}
  BY <1>2, <1>4, <1>5, OneSegment
<1>7. Sum(g)' = Sum(g)
  <2>1. segs[g][n].size \in Nat
    BY <1>2, CacheRecords
  <2> QED
    BY <1>2, <1>6, <2>1
<1>8. n \in Held(g) /\ Held(g)' = Held(g)
  BY <1>6 DEF Held
<1>9. PartFits(gen[g], disk[g], g \in faulty') /\ StopFits(gen[g], Held(g), g \in faulty')
  BY <1>3, <1>5 DEF PartFits, StopFits
<1>10. ASSUME NEW m \in Sequences
       PROVE  SegmentStored(gen[g], segments[m], disk[g], m, g \in faulty')
  <2>1. SegmentStored(gen[g], segs[g][m], disk[g], m, g \in faulty)
    BY <1>3
  <2> QED
    BY <1>4, <1>5, <2>1 DEF SegmentStored
<1>11. /\ gen[g].bytes = Sum(g)' + gen[g].reserved /\ total' \in 0 .. TotalBytes
       /\ total' + gen[g].bytes = total + gen[g].bytes
  BY <1>1, <1>2, <1>7
<1> QED
  BY <1>1, <1>2, <1>3, <1>4, <1>8, <1>9, <1>10, <1>11, FitsAfter

LEMMA OpenSegmentKeeps ==
    ASSUME CacheIInv, CacheAssumption, NEW g \in Generations, NEW n \in Sequences, OpenSegment(g, n)
    PROVE  CacheIInv'
<1> DEFINE record == [segs[g][n] EXCEPT !.readers = @ + 1]
<1>1. /\ Usable(g) /\ process = "running" /\ segs[g][n].size # 0 /\ ~segs[g][n].retired
      /\ segs[g][n].readers < MaxReaders
      /\ UNCHANGED <<process, gen, total, dirs, disk>> /\ Works
  BY DEF OpenSegment, Usable, Held, Works
<1>2. segs[g][n] \in SegmentRecords
  BY <1>1, GenerationIs
<1>3. segs[g][n].readers \in 0 .. MaxReaders /\ MaxReaders \in Nat
  BY <1>2 DEF SegmentRecords, CacheAssumption
<1>4. segs[g][n].readers + 1 \in 0 .. MaxReaders
  BY <1>1, <1>3
<1>5. /\ record \in SegmentRecords /\ record.size = segs[g][n].size /\ ~record.retired
  BY <1>1, <1>2, <1>4 DEF SegmentRecords
<1>6. segs' = [segs EXCEPT ![g][n] = record]
  BY DEF OpenSegment
<1> HIDE DEF record
<1> QED
  BY <1>1, <1>5, <1>6, SegmentKeeps

\* A segment's removal, and what its readers and its retirement lead to.
LEMMA RemoveSegmentKeeps ==
    ASSUME CacheIInv, CacheAssumption, NEW g \in Generations, NEW n \in Sequences, Usable(g),
           NEW record \in SegmentRecords, record.size = segs[g][n].size, record.size # 0,
           RemoveSegment(g, n, record), UNCHANGED process
    PROVE  CacheIInv'
<1>1. process = "running" /\ gen[g].at = "begun"
  BY DEF Usable
<1>2. /\ gen[g] \in GenerationRecords /\ segs[g] \in [Sequences -> SegmentRecords]
      /\ disk[g] \in [Sequences -> Names] /\ CacheTypeOK
      /\ gen[g].bytes = Sum(g) + gen[g].reserved /\ total \in 0 .. TotalBytes
      /\ gen[g].bytes \in Nat /\ Sum(g) \in Nat /\ gen[g].reserved \in Nat
      /\ gen[g].bytes <= total /\ TotalBytes \in Nat
  BY <1>1, GenerationIs
<1>3. /\ PartFits(gen[g], disk[g], g \in faulty) /\ StopFits(gen[g], Held(g), g \in faulty)
      /\ \A m \in Sequences : SegmentStored(gen[g], segs[g][m], disk[g], m, g \in faulty)
  BY FitsBefore
<1>4. record.size \in Nat /\ record.size <= Sum(g)
  BY <1>2, CacheRecords
<1>5. CASE /\ segs' = [segs EXCEPT ![g][n] = NoSegment]
           /\ Settle(g, [gen[g] EXCEPT !.bytes = @ - record.size], Held(g) \ {n})
           /\ total' = total - record.size
           /\ disk' = [disk EXCEPT ![g][n] = "none"]
  <2> DEFINE new == [gen[g] EXCEPT !.bytes = @ - record.size]
             segments == [segs[g] EXCEPT ![n] = NoSegment]
             files == [disk[g] EXCEPT ![n] = "none"]
  <2>1. segs' = [segs EXCEPT ![g] = segments] /\ disk' = [disk EXCEPT ![g] = files]
    BY <1>5
  <2>2. gen[g].bytes - record.size \in 0 .. TotalBytes
    BY <1>2, <1>4
  <2>3. /\ new.at = "begun" /\ new.partial = gen[g].partial /\ new.bytes = gen[g].bytes - record.size
        /\ new.reserved = gen[g].reserved /\ new.written = gen[g].written /\ new.next = gen[g].next
        /\ new.closed = gen[g].closed /\ new \in GenerationRecords
    BY <1>1, <1>2, <2>2 DEF GenerationRecords
  <2>4. NoSegment \in SegmentRecords /\ NoSegment.size = 0 /\ ~NoSegment.retired
    <3>1. 0 \in 0 .. MaxReaders
      BY DEF CacheAssumption
    <3> QED
      BY <3>1 DEF SegmentRecords, NoSegment
  <2>5. segments \in [Sequences -> SegmentRecords] /\ segments[n] = NoSegment
        /\ \A m \in Sequences \ {n} : segments[m] = segs[g][m]
    BY <1>2, <2>4
  <2>6. files \in [Sequences -> Names] /\ files[n] = "none"
        /\ \A m \in Sequences \ {n} : files[m] = disk[g][m]
    BY <1>2 DEF Names
  <2>7. Settle(g, new, Held(g) \ {n})
    BY <1>5
  <2>8. segs'[g] = segments /\ segments = [segs[g] EXCEPT ![n] = NoSegment]
    BY <1>2, <2>1 DEF CacheTypeOK
  <2> HIDE DEF new, segments, files
  <2>9. /\ Sum(g)' \in Nat /\ Sum(g)' + segs[g][n].size = Sum(g) + NoSegment.size
        /\ Held(g)' = IF NoSegment.size = 0 THEN Held(g) \ {n} ELSE Held(g) \cup {n}
    BY <1>2, <2>4, <2>8, OneSegment
  <2>10. Sum(g)' + record.size = Sum(g) /\ Held(g)' = Held(g) \ {n}
    BY <1>2, <2>4, <2>9
  <2>11. PartFits(new, files, g \in faulty)
    <3>1. SegmentStored(gen[g], segs[g][n], disk[g], n, g \in faulty)
      BY <1>3
    <3>2. gen[g].next \in 1 .. MaxSequence + 1 /\ MaxSequence \in Nat
      BY <1>2 DEF GenerationRecords, CacheAssumption
    <3>3. gen[g].partial \in InWork \cup {"orphan"} => gen[g].next \in Sequences /\ n # gen[g].next
      BY <1>3, <3>1, <3>2 DEF SegmentStored, PartFits, Sequences
    <3>4. gen[g].partial \in InWork \cup {"orphan"} => files[gen[g].next] = disk[g][gen[g].next]
      BY <2>6, <3>3
    <3> QED
      BY <1>3, <2>3, <3>4 DEF PartFits, InWork
  <2>12. ASSUME NEW m \in Sequences
         PROVE  SegmentStored(new, segments[m], files, m, g \in faulty)
    <3>1. SegmentStored(gen[g], segs[g][m], disk[g], m, g \in faulty)
      BY <1>3
    <3>2. CASE m = n
      BY <2>4, <2>5, <2>6, <3>2 DEF SegmentStored
    <3>3. CASE m # n
      BY <2>3, <2>5, <2>6, <3>1, <3>3 DEF SegmentStored
    <3> QED
      BY <3>2, <3>3
  <2>13. /\ total' \in 0 .. TotalBytes /\ total' + gen[g].bytes = total + new.bytes
         /\ new.bytes = Sum(g)' + new.reserved
    BY <1>2, <1>4, <1>5, <2>3, <2>9, <2>10
  <2>14. new.closed => new.partial \in {"none", "ended", "orphan", "stuck"}
    BY <1>3, <2>3 DEF StopFits
  <2>15. process' = process
    OBVIOUS
  <2> QED
    BY <2>1, <2>3, <2>5, <2>6, <2>7, <2>10, <2>11, <2>12, <2>13, <2>14, <2>15, SettleKeeps
<1>6. CASE /\ Fails(g)
           /\ segs' = [segs EXCEPT ![g][n] = record]
           /\ UNCHANGED <<gen, total, dirs, disk>>
  <2>1. g \in faulty'
    BY <1>6 DEF Fails
  <2>2. UNCHANGED <<process, gen, total, dirs, disk>>
    BY <1>6
  <2> QED
    BY <1>6, <2>1, <2>2, SegmentKeeps
<1> QED
  BY <1>5, <1>6 DEF RemoveSegment

LEMMA RetireStoredKeeps ==
    ASSUME CacheIInv, CacheAssumption, NEW g \in Generations, NEW n \in Sequences, Retire(g, n)
    PROVE  CacheIInv'
<1> DEFINE record == [segs[g][n] EXCEPT !.retired = TRUE]
<1>1. Usable(g) /\ process = "running" /\ segs[g][n].size # 0 /\ UNCHANGED process
  BY DEF Retire, Usable, Held
<1>2. segs[g][n] \in SegmentRecords
  BY <1>1, GenerationIs
<1>3. record \in SegmentRecords /\ record.size = segs[g][n].size
  BY <1>2 DEF SegmentRecords
<1>4. ASSUME record.readers > 0
      PROVE  CacheIInv'
  <2>1. segs' = [segs EXCEPT ![g][n] = record] /\ UNCHANGED <<process, gen, total, dirs, disk>> /\ Works
    BY <1>4 DEF Retire, Works
  <2>2. record.readers # 0
    BY <1>4
  <2> HIDE DEF record
  <2> QED
    BY <1>1, <1>3, <2>1, <2>2, SegmentKeeps
<1>5. ASSUME ~(record.readers > 0)
      PROVE  CacheIInv'
  <2>1. RemoveSegment(g, n, record)
    BY <1>5 DEF Retire
  <2> HIDE DEF record
  <2> QED
    BY <1>1, <1>3, <2>1, RemoveSegmentKeeps
<1> QED
  BY <1>4, <1>5

LEMMA CloseReaderKeeps ==
    ASSUME CacheIInv, CacheAssumption, NEW g \in Generations, NEW n \in Sequences, CloseReader(g, n)
    PROVE  CacheIInv'
<1> DEFINE record == [segs[g][n] EXCEPT !.readers = @ - 1]
<1>1. Usable(g) /\ process = "running" /\ segs[g][n].readers > 0 /\ UNCHANGED process
  BY DEF CloseReader, Usable
<1>2. segs[g][n] \in SegmentRecords
  BY <1>1, GenerationIs
<1>3. segs[g][n].readers - 1 \in 0 .. MaxReaders
  BY <1>1, <1>2 DEF SegmentRecords, CacheAssumption
<1>4. record \in SegmentRecords /\ record.size = segs[g][n].size
  BY <1>2, <1>3 DEF SegmentRecords
<1>5. record.size # 0
  <2>1. SegmentStored(gen[g], segs[g][n], disk[g], n, g \in faulty)
    BY <1>1, FitsBefore
  <2>2. segs[g][n].size = 0 => segs[g][n].readers = 0
    BY <2>1 DEF SegmentStored, NoSegment
  <2> QED
    BY <1>1, <1>4, <2>2
<1>6. CASE record.retired /\ record.readers = 0
  <2>1. RemoveSegment(g, n, record)
    BY <1>6 DEF CloseReader
  <2> HIDE DEF record
  <2> QED
    BY <1>1, <1>4, <1>5, <2>1, RemoveSegmentKeeps
<1>7. CASE ~(record.retired /\ record.readers = 0)
  <2>1. segs' = [segs EXCEPT ![g][n] = record] /\ UNCHANGED <<process, gen, total, dirs, disk>> /\ Works
    BY <1>7 DEF CloseReader, Works
  <2> HIDE DEF record
  <2> QED
    BY <1>1, <1>4, <1>5, <1>7, <2>1, SegmentKeeps
<1> QED
  BY <1>6, <1>7

-----------------------------------------------------------------------------
(* The end of the process, and the next one.                               *)

\* Nothing is known and nothing is counted.
LEMMA NothingCounted ==
    ASSUME CacheAssumption, \A g \in Generations : gen[g] = NoGeneration,
           \A g \in Generations : \A n \in Sequences : segs[g][n] = NoSegment, total = 0
    PROVE  /\ \A g \in Generations : gen[g].bytes = Sum(g) + gen[g].reserved
           /\ total = SumFunction([g \in Generations |-> gen[g].bytes])
<1>1. ASSUME NEW g \in Generations
      PROVE  Sum(g) = 0
  <2>1. \A n \in Sequences : Stored(g)[n] = 0
    BY DEF Stored, NoSegment
  <2> QED
    BY <2>1, SumOf, SumBounds, CacheFinite
<1>2. \A g \in Generations : Counted[g] = 0 /\ gen[g].bytes = 0 /\ gen[g].reserved = 0
  BY DEF Counted, NoGeneration
<1>3. SumFunctionOnSet(Counted, Generations) = 0
  BY <1>2, SumBounds, CacheFinite
<1>4. total = SumFunction([g \in Generations |-> gen[g].bytes])
  BY <1>3 DEF SumFunction, Counted
<1>5. \A g \in Generations : gen[g].bytes = Sum(g) + gen[g].reserved
  BY <1>1, <1>2
<1> QED
  BY <1>4, <1>5

\* Without a directory that is a cache that fits.
LEMMA FitsAtStart ==
    ASSUME CacheAssumption, NEW g \in Generations, gen[g] = NoGeneration, dirs = {},
           \A n \in Sequences : segs[g][n] = NoSegment /\ disk[g][n] = "none"
    PROVE  GenerationFits(g)
<1>1. /\ gen[g].at = "none" /\ gen[g].partial = "none" /\ gen[g].reserved = 0 /\ gen[g].written = 0
      /\ gen[g] = [NoGeneration EXCEPT !.at = gen[g].at]
  BY DEF NoGeneration
<1>2. \A n \in Sequences : segs[g][n].size = 0 /\ ~segs[g][n].retired
  BY DEF NoSegment
<1>3. PartialFits(g) /\ StoppedFits(g)
  BY <1>1 DEF PartialFits, StoppedFits, InWork, NoGeneration
<1>4. \A n \in Sequences : StoredFits(g, n)
  BY <1>2 DEF StoredFits, Held
<1> QED
  BY <1>1, <1>3, <1>4 DEF GenerationFits

LEMMA CacheStarts ==
    ASSUME CacheAssumption, CacheInit
    PROVE  CacheIInv
<1>1. NoGeneration \in GenerationRecords
  <2>1. 0 \in 0 .. TotalBytes /\ 1 \in 1 .. MaxSequence + 1
    BY DEF CacheAssumption
  <2> QED
    BY <2>1 DEF GenerationRecords, NoGeneration, Partials, InWork
<1>2. NoSegment \in SegmentRecords /\ "none" \in Names
  <2>1. 0 \in 0 .. MaxReaders
    BY DEF CacheAssumption
  <2> QED
    BY <2>1 DEF SegmentRecords, NoSegment, Names
<1>3. CacheTypeOK
  <2>1. total \in 0 .. TotalBytes
    BY DEF CacheInit, CacheAssumption
  <2> QED
    BY <1>1, <1>2, <2>1 DEF CacheTypeOK, CacheInit
<1>4. /\ \A g \in Generations : gen[g] = NoGeneration
      /\ \A g \in Generations : \A n \in Sequences : segs[g][n] = NoSegment
      /\ \A g \in Generations : \A n \in Sequences : disk[g][n] = "none"
      /\ total = 0 /\ dirs = {} /\ process = "running"
  BY DEF CacheInit
<1>5. BytesCounted /\ \A g \in Generations : GenerationFits(g)
  BY <1>4, NothingCounted, FitsAtStart DEF BytesCounted
<1> QED
  BY <1>3, <1>4, <1>5 DEF CacheIInv, CleanupTakesItsOwn

\* A process that does not run has counted nothing.
LEMMA LeftOverIs ==
    ASSUME CacheTypeOK', LeftOver', process' \in {"down", "cleaning"}
    PROVE  CacheIInv'
BY DEF CacheIInv, CleanupTakesItsOwn, BytesCounted

LEMMA CrashKeeps ==
    ASSUME CacheIInv, CacheAssumption, Crash
    PROVE  CacheIInv'
<1>1. CacheTypeOK /\ (IF process = "running" THEN \A g \in Generations : GenerationFits(g) ELSE LeftOver)
  BY DEF CacheIInv
<1>2. /\ process' = "down" /\ total' = 0 /\ dirs' = dirs /\ faulty' = faulty
      /\ gen' = [g \in Generations |-> NoGeneration]
      /\ segs' = [g \in Generations |-> [n \in Sequences |-> NoSegment]]
      /\ process # "down"
  BY DEF Crash
<1>3. /\ disk' \in [Generations -> [Sequences -> Names]]
      /\ \A g \in Generations : \A n \in Sequences :
            disk'[g][n] # "none" => disk[g][n] # "none" \/ gen[g].partial = "complete"
  <2>1. CASE disk' = disk
    BY <1>1, <2>1 DEF CacheTypeOK
  <2>2. ASSUME NEW g \in Generations, NEW names \in {"linked", "final"},
               gen[g].partial = "complete", disk' = [disk EXCEPT ![g][gen[g].next] = names]
        PROVE  /\ disk' \in [Generations -> [Sequences -> Names]]
               /\ \A h \in Generations : \A n \in Sequences :
                     disk'[h][n] # "none" => disk[h][n] # "none" \/ gen[h].partial = "complete"
    <3> DEFINE files == [disk[g] EXCEPT ![gen[g].next] = names]
    <3>1. disk' = [disk EXCEPT ![g] = files]
      BY <2>2
    <3>2. names \in Names
      BY DEF Names
    <3>3. files \in [Sequences -> Names]
      BY <1>1, <3>2 DEF CacheTypeOK
    <3> HIDE DEF files
    <3>4. disk' \in [Generations -> [Sequences -> Names]]
          /\ \A h \in Generations \ {g} : disk'[h] = disk[h]
      BY <1>1, <3>1, <3>3 DEF CacheTypeOK
    <3> QED
      BY <2>2, <3>4
  <2> QED
    BY <2>1, <2>2 DEF Crash
<1>4. ASSUME NEW g \in Generations, NEW n \in Sequences, disk'[g][n] # "none"
      PROVE  g \in dirs'
  <2>1. CASE process = "running"
    <3>1. GenerationFits(g) /\ StoredFits(g, n) /\ PartialFits(g)
      BY <1>1, <2>1 DEF GenerationFits
    <3>2. gen[g].at = "begun"
      BY <1>3, <1>4, <3>1 DEF StoredFits, PartialFits, InWork
    <3> QED
      BY <1>2, <3>1, <3>2 DEF GenerationFits
  <2>2. CASE process # "running"
    <3>1. LeftOver /\ gen[g] = NoGeneration
      BY <1>1, <2>2 DEF LeftOver
    <3>2. gen[g].partial # "complete"
      BY <3>1 DEF NoGeneration
    <3> QED
      BY <1>2, <1>3, <1>4, <3>1, <3>2 DEF LeftOver
  <2> QED
    BY <2>1, <2>2
<1>5. LeftOver'
  BY <1>2, <1>4 DEF LeftOver
<1>6. CacheTypeOK'
  <2>1. NoGeneration \in GenerationRecords
    <3>1. 0 \in 0 .. TotalBytes /\ 1 \in 1 .. MaxSequence + 1
      BY DEF CacheAssumption
    <3> QED
      BY <3>1 DEF GenerationRecords, NoGeneration, Partials, InWork
  <2>2. NoSegment \in SegmentRecords /\ total' \in 0 .. TotalBytes
    <3>1. 0 \in 0 .. MaxReaders /\ 0 \in 0 .. TotalBytes
      BY DEF CacheAssumption
    <3> QED
      BY <1>2, <3>1 DEF SegmentRecords, NoSegment
  <2> QED
    BY <1>1, <1>2, <1>3, <2>1, <2>2 DEF CacheTypeOK
<1> QED
  BY <1>2, <1>5, <1>6, LeftOverIs

LEMMA NamesCounted ==
    ASSUME CacheTypeOK, CacheAssumption
    PROVE  NamesLeft \in Nat
<1>1. IsFiniteSet(dirs) /\ IsFiniteSet(dirs \X Sequences)
  <2>1. IsFiniteSet(dirs)
    BY CacheFinite, FS_Subset DEF CacheTypeOK
  <2> QED
    BY <2>1, CacheFinite, FS_Product
<1>2. \A names : SegmentsOnDisk(names) \subseteq dirs \X Sequences
  BY DEF SegmentsOnDisk
<1>3. \A names : IsFiniteSet(SegmentsOnDisk(names))
  BY <1>1, <1>2, FS_Subset
<1>4. Cardinality(dirs) \in Nat /\ \A names : Cardinality(SegmentsOnDisk(names)) \in Nat
  BY <1>1, <1>3, FS_CardinalityType
<1> QED
  BY <1>4 DEF NamesLeft

\* The steps of the next process.
LEMMA CleanupKeeps ==
    ASSUME CacheIInv, CacheAssumption,
           \/ Inspect \/ Cleaned
           \/ \E g \in Generations : CleanDirectory(g) \/ \E n \in Sequences : CleanFile(g, n)
    PROVE  CacheIInv'
<1>1. CacheTypeOK /\ process # "running" /\ LeftOver
  BY DEF CacheIInv, Inspect, Cleaned, CleanDirectory, CleanFile
<1>2. CASE Inspect
  <2>1. \A g \in dirs, n \in Sequences : Recognized(disk[g][n])
    BY <1>1 DEF CacheTypeOK, Recognized
  <2>5. UNCHANGED <<gen, segs, total, dirs, disk, faulty>>
        /\ \/ process' = "cleaning"
           \/ /\ process' = "refused"
              /\ ~(NamesLeft <= CleanupEntries) \/ faulty \cap dirs # {}
    BY <1>2, <2>1 DEF Inspect
  <2>6. NamesLeft > CleanupEntries \/ NamesLeft <= CleanupEntries
    <3>1. NamesLeft \in Nat /\ CleanupEntries \in Nat
      BY <1>1, NamesCounted DEF CacheAssumption
    <3> QED
      BY <3>1
  <2>7. NamesLeft' = NamesLeft
    BY <2>5 DEF NamesLeft, SegmentsOnDisk
  <2>2. UNCHANGED <<gen, segs, total, dirs, disk, faulty>>
        /\ (process' = "cleaning" \/ (process' = "refused" /\ CleanupTakesItsOwn'))
    BY <2>5, <2>6, <2>7 DEF CleanupTakesItsOwn
  <2>3. CacheTypeOK' /\ LeftOver'
    BY <1>1, <2>2 DEF CacheTypeOK, LeftOver
  <2>4. process' \in {"cleaning", "refused"}
    BY <2>2
  <2> QED
    BY <2>2, <2>3, <2>4 DEF CacheIInv, CleanupTakesItsOwn, BytesCounted
<1>3. CASE Cleaned
  <2>1. process' = "running" /\ UNCHANGED <<gen, segs, total, dirs, disk>> /\ dirs = {} /\ faulty' = {}
    BY <1>3 DEF Cleaned
  <2>2. CacheTypeOK'
    BY <1>1, <2>1 DEF CacheTypeOK
  <2>3. /\ \A g \in Generations : gen[g] = NoGeneration
        /\ \A g \in Generations : \A n \in Sequences : segs[g][n] = NoSegment
        /\ \A g \in Generations : \A n \in Sequences : disk[g][n] = "none"
        /\ total = 0
    BY <1>1, <2>1 DEF LeftOver
  <2>4. \A g \in Generations : GenerationFits(g)
    BY <2>1, <2>3, FitsAtStart
  <2>5. BytesCounted'
    <3>1. \A g \in Generations : Sum(g)' = Sum(g)
      BY <2>1, SameSegments
    <3>2. /\ \A g \in Generations : gen[g].bytes = Sum(g) + gen[g].reserved
          /\ total = SumFunction([g \in Generations |-> gen[g].bytes])
      BY <2>3, NothingCounted
    <3> QED
      BY <2>1, <3>1, <3>2 DEF BytesCounted
  <2>6. ASSUME NEW g \in Generations
        PROVE  GenerationFits(g)'
    <3>1. GenerationFits(g) /\ gen[g].partial = "none" /\ gen[g].at = "none" /\ ~gen[g].closed
      BY <2>3, <2>4 DEF NoGeneration
    <3>2. /\ gen' = gen /\ segs' = segs /\ disk' = disk /\ dirs' = dirs /\ Held(g)' = Held(g)
          /\ \A n \in Sequences : ~segs[g][n].retired
      BY <2>1, <2>3 DEF Held, NoSegment
    <3>3. PartialFits(g)' /\ StoppedFits(g)'
      BY <3>1, <3>2 DEF GenerationFits, PartialFits, StoppedFits, InWork
    <3>4. \A n \in Sequences : StoredFits(g, n)'
      BY <3>1, <3>2 DEF GenerationFits, StoredFits
    <3> QED
      BY <3>1, <3>2, <3>3, <3>4 DEF GenerationFits
  <2> QED
    BY <2>1, <2>2, <2>5, <2>6 DEF CacheIInv, CleanupTakesItsOwn
<1>4. ASSUME NEW g \in Generations, CleanDirectory(g)
      PROVE  CacheIInv'
  <2>1. /\ process' = "cleaning" /\ UNCHANGED <<gen, segs, total, disk, faulty>>
        /\ dirs' = dirs \ {g} /\ \A n \in Sequences : disk[g][n] = "none"
    BY <1>4 DEF CleanDirectory
  <2>2. CacheTypeOK' /\ LeftOver'
    BY <1>1, <2>1 DEF CacheTypeOK, LeftOver
  <2> QED
    BY <2>1, <2>2, LeftOverIs
<1>5. ASSUME NEW g \in Generations, NEW n \in Sequences, CleanFile(g, n)
      PROVE  CacheIInv'
  <2> DEFINE names == IF disk[g][n] = "linked" THEN "final" ELSE "none"
             files == [disk[g] EXCEPT ![n] = names]
  <2>1. /\ process' = "cleaning" /\ UNCHANGED <<gen, segs, total, dirs, faulty>>
        /\ disk' = [disk EXCEPT ![g] = files] /\ g \in dirs
    BY <1>5 DEF CleanFile
  <2>2. files \in [Sequences -> Names]
    BY <1>1 DEF CacheTypeOK, Names
  <2> HIDE DEF files
  <2>3. disk' \in [Generations -> [Sequences -> Names]] /\ \A h \in Generations \ {g} : disk'[h] = disk[h]
    BY <1>1, <2>1, <2>2 DEF CacheTypeOK
  <2>4. CacheTypeOK'
    BY <1>1, <2>1, <2>3 DEF CacheTypeOK
  <2>5. LeftOver'
    BY <1>1, <2>1, <2>3 DEF LeftOver
  <2> QED
    BY <2>1, <2>4, <2>5, LeftOverIs
<1> QED
  BY <1>2, <1>3, <1>4, <1>5
-----------------------------------------------------------------------------
(* What the cache promises.                                                *)

LEMMA CacheStutters ==
    ASSUME CacheIInv, UNCHANGED cacheVars
    PROVE  CacheIInv'
<1>1. /\ process' = process /\ gen' = gen /\ segs' = segs /\ total' = total /\ dirs' = dirs
      /\ disk' = disk /\ faulty' = faulty
  BY DEF cacheVars
<1>2. \A g : Sum(g)' = Sum(g) /\ Held(g)' = Held(g)
  BY <1>1, SameSegments
<1>3. CacheTypeOK' /\ CleanupTakesItsOwn'
  BY <1>1 DEF CacheIInv, CacheTypeOK, CleanupTakesItsOwn, NamesLeft, SegmentsOnDisk
<1>4. BytesCounted'
  BY <1>1, <1>2 DEF CacheIInv, BytesCounted
<1>5. process = "running" => \A g \in Generations : GenerationFits(g)'
  BY <1>1, <1>2 DEF CacheIInv, GenerationFits, PartialFits, StoredFits, StoppedFits
<1>6. process # "running" => LeftOver'
  BY <1>1 DEF CacheIInv, LeftOver
<1> QED
  BY <1>1, <1>3, <1>4, <1>5, <1>6 DEF CacheIInv

\* The invariant that the properties of the cache follow from holds always.
THEOREM CacheInductive ==
    ASSUME CacheAssumption
    PROVE  CacheSpec => []CacheIInv
<1>1. CacheInit => CacheIInv
  BY CacheStarts
<1>2. CacheIInv /\ [CacheNext]_cacheVars => CacheIInv'
  <2> SUFFICES ASSUME CacheIInv, [CacheNext]_cacheVars
               PROVE  CacheIInv'
    OBVIOUS
  <2>1. ASSUME NEW g \in Generations,
               BeginGeneration(g) \/ Create(g) \/ Write(g) \/ Publish(g) \/ Discard(g)
                  \/ StopGeneration(g)
        PROVE  CacheIInv'
    BY <2>1, BeginGenerationKeeps, CreateKeeps, WriteKeeps, PublishKeeps, DiscardKeeps,
       StopGenerationKeeps
  <2>2. ASSUME NEW g \in Generations, NEW size \in Sizes, Reserve(g, size)
        PROVE  CacheIInv'
    BY <2>2, ReserveKeeps
  <2>3. ASSUME NEW g \in Generations, NEW n \in Sequences,
               OpenSegment(g, n) \/ Retire(g, n) \/ CloseReader(g, n)
        PROVE  CacheIInv'
    BY <2>3, OpenSegmentKeeps, RetireStoredKeeps, CloseReaderKeeps
  <2>4. ASSUME NEW g \in Generations, NEW n \in Sequences, CleanFile(g, n)
        PROVE  CacheIInv'
    BY <2>4, CleanupKeeps
  <2>5. ASSUME NEW g \in Generations, CleanDirectory(g)
        PROVE  CacheIInv'
    BY <2>5, CleanupKeeps
  <2>6. CASE Crash
    BY <2>6, CrashKeeps
  <2>7. CASE Inspect \/ Cleaned
    BY <2>7, CleanupKeeps
  <2>8. CASE UNCHANGED cacheVars
    BY <2>8, CacheStutters
  <2> QED
    BY <2>1, <2>2, <2>3, <2>4, <2>5, <2>6, <2>7, <2>8 DEF CacheNext
<1> QED
  BY <1>1, <1>2, PTL DEF CacheSpec

\* The bytes on disk are at most the bytes that are counted.
LEMMA DiskBelowTotal ==
    ASSUME CacheIInv, CacheAssumption
    PROVE  DiskWithinLimit
<1> SUFFICES ASSUME process = "running"
             PROVE  SumFunction([g \in Generations |-> Sum(g) + gen[g].written]) <= TotalBytes
  BY DEF DiskWithinLimit
<1> DEFINE onDisk == [g \in Generations |-> Sum(g) + gen[g].written]
<1>1. ASSUME NEW g \in Generations
      PROVE  /\ onDisk[g] \in Nat /\ Counted[g] \in Nat /\ onDisk[g] <= Counted[g]
  <2>1. /\ gen[g].bytes = Sum(g) + gen[g].reserved /\ Sum(g) \in Nat /\ gen[g].reserved \in Nat
        /\ gen[g].written \in Nat /\ PartialFits(g) /\ gen[g].bytes \in Nat
    BY GenerationIs DEF GenerationFits
  <2>2. gen[g].written = 0 \/ gen[g].written = gen[g].reserved
    BY <2>1 DEF PartialFits
  <2>3. onDisk[g] = Sum(g) + gen[g].written /\ Counted[g] = gen[g].bytes
    BY DEF Counted
  <2> HIDE DEF onDisk
  <2> QED
    BY <2>1, <2>2, <2>3
<1>2. SumFunction(onDisk) = SumFunctionOnSet(onDisk, Generations)
  BY DEF SumFunction
<1> HIDE DEF onDisk
<1>3. SumFunctionOnSet(onDisk, Generations) <= SumFunctionOnSet(Counted, Generations)
  BY <1>1, SumMonotone, CacheFinite
<1>4. total = SumFunctionOnSet(Counted, Generations)
  BY DEF CacheIInv, BytesCounted, SumFunction, Counted
<1>5. total <= TotalBytes /\ total \in Nat /\ TotalBytes \in Nat
  BY DEF CacheIInv, CacheTypeOK, CacheAssumption
<1>6. SumFunctionOnSet(onDisk, Generations) \in Nat
  BY <1>1, SumTyped, CacheFinite
<1> QED
  BY <1>2, <1>3, <1>4, <1>5, <1>6 DEF onDisk

\* KHL-016: whatever fails between a reservation and its write, publication,
\* discard or retirement, the counters say what the sessions hold, and the files
\* of all sessions stay within the limit.
THEOREM LimitHoldsOnDisk ==
    ASSUME CacheAssumption
    PROVE  CacheSpec => [](BytesCounted /\ DiskWithinLimit)
<1>1. CacheIInv => BytesCounted /\ DiskWithinLimit
  BY DiskBelowTotal DEF CacheIInv
<1> QED
  BY <1>1, CacheInductive, PTL

\* A segment that is read keeps its file, and a retired one goes with its last reader
\* unless its removal failed.  On disk there is nothing that a running process does not
\* know, nor a directory that nothing is left of, but for the generations on whose
\* files an operation has failed; and the next process takes all that is left but
\* theirs, and more names than its limit.
THEOREM FilesAreKnown ==
    ASSUME CacheAssumption
    PROVE  CacheSpec => [](ReadersKeepFiles /\ NothingUnknown /\ CleanupTakesItsOwn)
<1>1. ASSUME CacheIInv, process = "running", NEW g \in Generations
      PROVE  /\ gen[g].at = "begun" => g \in dirs
             /\ \A n \in Sequences :
                   /\ segs[g][n].readers > 0 => disk[g][n] = "final"
                   /\ segs[g][n].retired /\ segs[g][n].readers = 0 => g \in faulty
             /\ g \in dirs \ faulty =>
                   /\ gen[g].at = "begun" /\ ~(gen[g].closed /\ Held(g) = {})
                   /\ \A n \in Sequences : disk[g][n] # "none" =>
                         n \in Held(g) \/ (n = gen[g].next /\ gen[g].partial \in InWork)
  <2>1. GenerationFits(g) /\ PartialFits(g) /\ StoppedFits(g)
    BY <1>1 DEF CacheIInv, GenerationFits
  <2>2. ASSUME NEW n \in Sequences
        PROVE  /\ segs[g][n].readers > 0 => disk[g][n] = "final"
               /\ segs[g][n].retired /\ segs[g][n].readers = 0 => g \in faulty
               /\ g \notin faulty /\ disk[g][n] # "none" =>
                     n \in Held(g) \/ (n = gen[g].next /\ gen[g].partial \in InWork)
    <3>1. StoredFits(g, n)
      BY <2>1 DEF GenerationFits
    <3>2. n \notin Held(g) => segs[g][n].readers = 0
      BY <3>1 DEF StoredFits, NoSegment
    <3>3. gen[g].partial = "orphan" => g \in faulty
      BY <2>1 DEF PartialFits
    <3> QED
      BY <3>1, <3>2, <3>3 DEF StoredFits
  <2>3. /\ gen[g].at = "begun" => g \in dirs
        /\ g \in dirs \ faulty => gen[g].at = "begun" /\ ~(gen[g].closed /\ Held(g) = {})
    BY <2>1 DEF GenerationFits, StoppedFits
  <2> QED
    BY <2>2, <2>3
<1>2. CacheIInv => ReadersKeepFiles /\ NothingUnknown /\ CleanupTakesItsOwn
  <2>1. CacheIInv => dirs \subseteq Generations /\ CleanupTakesItsOwn
    BY DEF CacheIInv, CacheTypeOK
  <2> QED
    BY <1>1, <2>1 DEF ReadersKeepFiles, NothingUnknown
<1> QED
  BY <1>2, CacheInductive, PTL
=============================================================================
