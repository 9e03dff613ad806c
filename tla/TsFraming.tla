----------------------------- MODULE TsFraming -----------------------------
(***************************************************************************)
(* The framer of the recorded stream (ts_framing.go): packets are put      *)
(* together from reads of any length, and a lost synchronisation is found  *)
(* again where several packets follow each other.  A byte is one of three  *)
(* kinds: a synchronisation byte, another byte with which a header can go  *)
(* on, and one with which it cannot.                                       *)
(***************************************************************************)
EXTENDS Naturals, SequencesExt

CONSTANTS
    PacketSize,     \* bytes of a packet
    Candidates,     \* packets that have to follow each other (recoveryPacketBytes)
    Capacity,       \* bytes of the buffer (recordingSyncBytes)
    MaxStream       \* bound on the bytes of the stream

FramingAssumption ==
    /\ PacketSize \in Nat \ {0, 1} /\ Candidates \in Nat \ {0} /\ MaxStream \in Nat
    /\ Capacity \in Nat /\ Capacity >= PacketSize * Candidates

Bytes == {"sync", "header", "bad"}

VARIABLES
    stream,     \* what was read so far
    at,         \* bytes of stream that were taken into the buffer
    buffer,     \* framer.buffer, from start on
    lost,       \* framer.lost
    packets,    \* where in stream the emitted packets begin
    quality,    \* the three numbers of QualitySummary that the framer keeps
    status      \* the framer may be written to, has finished or has failed

framingVars == <<stream, at, buffer, lost, packets, quality, status>>

FramingTypeOK ==
    /\ stream \in Seq(Bytes) /\ buffer \in Seq(Bytes) /\ at \in 0 .. Len(stream)
    /\ Len(buffer) <= Capacity
    /\ lost \in BOOLEAN /\ packets \in Seq(1 .. MaxStream)
    /\ quality \in [losses : 0 .. MaxStream, discarded : 0 .. MaxStream, trailing : 0 .. MaxStream]
    /\ status \in {"open", "finished", "failed"}

FramingInit ==
    /\ stream = <<>> /\ at = 0 /\ buffer = <<>> /\ lost = FALSE /\ packets = <<>>
    /\ quality = [losses |-> 0, discarded |-> 0, trailing |-> 0]
    /\ status = "open"

-----------------------------------------------------------------------------
\* parseRecordingPacket, of the packet that begins at a byte.
Parses(bytes, start) == bytes[start] = "sync" /\ bytes[start + 1] # "bad"
Recovers(bytes, start) ==
    /\ start + PacketSize * Candidates <= Len(bytes) + 1
    /\ \A k \in 0 .. Candidates - 1 : Parses(bytes, start + k * PacketSize)

\* The place where the search goes on, or 0 if there is none.
First(places) == IF places = {} THEN 0 ELSE Min(places)
Position(bytes) == First({start \in DOMAIN bytes : Recovers(bytes, start)})

\* What is dropped when there is no candidate: all but what may still be the
\* beginning of one.
Droppable(bytes) == Len(bytes) - (PacketSize * Candidates - 1)

\* The loop inside Write ends.
Idle ==
    IF lost THEN Len(buffer) < PacketSize * Candidates ELSE Len(buffer) < PacketSize
Rest(count) == SubSeq(buffer, count + 1, Len(buffer))

\* The bytes of the caller, any number before Write takes them.
Arrive(byte) ==
    /\ status = "open" /\ Idle /\ Len(stream) < MaxStream
    /\ stream' = Append(stream, byte)
    /\ UNCHANGED <<at, buffer, lost, packets, quality, status>>
\* Write: the buffer takes what it can.
Take ==
    /\ status = "open" /\ at < Len(stream) /\ Idle /\ Len(buffer) < Capacity
    /\ LET count == Min({Len(stream) - at, Capacity - Len(buffer)})
       IN /\ buffer' = buffer \o SubSeq(stream, at + 1, at + count)
          /\ at' = at + count
    /\ UNCHANGED <<stream, lost, packets, quality, status>>

Emit ==
    /\ status = "open" /\ ~lost /\ ~Idle /\ buffer[1] = "sync"
    /\ packets' = Append(packets, at - Len(buffer) + 1)
    /\ buffer' = Rest(PacketSize)
    /\ UNCHANGED <<stream, at, lost, quality, status>>

\* The packet could not be written: the recording is over.
EmitFails ==
    /\ status = "open" /\ ~lost /\ ~Idle /\ buffer[1] = "sync"
    /\ buffer' = <<>> /\ status' = "failed"
    /\ UNCHANGED <<stream, at, lost, packets, quality>>

Lose ==
    /\ status = "open" /\ ~lost /\ ~Idle /\ buffer[1] # "sync"
    /\ lost' = TRUE /\ quality' = [quality EXCEPT !.losses = @ + 1]
    /\ UNCHANGED <<stream, at, buffer, packets, status>>

Recover ==
    /\ status = "open" /\ lost /\ ~Idle /\ Position(buffer) # 0
    /\ buffer' = Rest(Position(buffer) - 1)
    /\ quality' = [quality EXCEPT !.discarded = @ + Position(buffer) - 1]
    /\ lost' = FALSE
    /\ UNCHANGED <<stream, at, packets, status>>

Drop ==
    /\ status = "open" /\ lost /\ ~Idle /\ Position(buffer) = 0
    /\ buffer' = Rest(Droppable(buffer))
    /\ quality' = [quality EXCEPT !.discarded = @ + Droppable(buffer)]
    /\ UNCHANGED <<stream, at, lost, packets, status>>

\* Finish: what is left counts as discarded, or as an incomplete packet.
FinishFraming ==
    /\ status = "open" /\ at = Len(stream) /\ Idle
    /\ quality' = IF lost THEN [quality EXCEPT !.discarded = @ + Len(buffer)]
                  ELSE [quality EXCEPT !.trailing = @ + Len(buffer)]
    /\ buffer' = <<>> /\ status' = "finished"
    /\ UNCHANGED <<stream, at, lost, packets>>

FramingNext ==
    \/ \E byte \in Bytes : Arrive(byte)
    \/ Take \/ Emit \/ EmitFails \/ Lose \/ Recover \/ Drop \/ FinishFraming

FramingSpec == FramingInit /\ [][FramingNext]_framingVars

-----------------------------------------------------------------------------
\* The packets of a stream that is there as a whole.  The one that is due at a
\* byte is there if a synchronisation byte is, and else at the next place that
\* enough packets follow from.
Following(bytes, due) ==
    IF due + PacketSize > Len(bytes) + 1 THEN 0
    ELSE IF bytes[due] = "sync" THEN due
    ELSE First({start \in due .. Len(bytes) : Recovers(bytes, start)})
Due(places, i) == IF i = 1 THEN 1 ELSE places[i - 1] + PacketSize
Found(bytes, places) ==
    \A i \in DOMAIN places : places[i] # 0 /\ places[i] = Following(bytes, Due(places, i))
Framed(bytes, places) ==
    Found(bytes, places) /\ Following(bytes, Due(places, Len(places) + 1)) = 0

\* However the reads cut the stream, the packets are those of the whole
\* (QRC-002: the content does not depend on how the reads are split).
SplitAlike == status = "open" /\ at = Len(stream) /\ Idle => Framed(stream, packets)

\* At the end each byte of the stream has become part of a packet, or was
\* counted, once: as discarded, or as an incomplete packet.
BytesExplained ==
    status = "finished" =>
        PacketSize * Len(packets) + quality.discarded + quality.trailing = Len(stream)

-----------------------------------------------------------------------------
(* The inductive invariant.                                                *)

Origin == at - Len(buffer) + 1
NextDue == Due(packets, Len(packets) + 1)

\* The buffer holds the last bytes that were taken.
BufferFits ==
    /\ Len(stream) <= MaxStream /\ Len(buffer) <= at
    /\ status = "open" => \A i \in DOMAIN buffer : buffer[i] = stream[at - Len(buffer) + i]
    /\ status = "finished" => at = Len(stream)
    /\ status # "open" => buffer = <<>>

\* In step the buffer begins where a packet is due, or where one was found; out
\* of step nothing was dropped that a packet could be found in.
SearchFits ==
    status = "open" =>
        IF lost
        THEN /\ NextDue <= Origin /\ NextDue + PacketSize <= at + 1
             /\ stream[NextDue] # "sync"
             /\ \A start \in NextDue .. Origin - 1 :
                   start + PacketSize * Candidates <= at + 1 /\ ~Recovers(stream, start)
        ELSE Origin = NextDue \/ Origin = Following(stream, NextDue)

\* Bytes are counted once, and a loss costs at least one.
CountsFit ==
    LET counted == PacketSize * Len(packets) + quality.discarded + quality.trailing + Len(buffer)
    IN /\ counted <= at /\ (status # "failed" => counted = at)
       /\ status = "open" => quality.trailing = 0
       /\ quality.losses > quality.discarded =>
             /\ quality.losses = quality.discarded + 1
             /\ lost /\ buffer # <<>> /\ buffer[1] # "sync"

FramingIInv ==
    FramingTypeOK /\ BufferFits /\ Found(stream, packets) /\ SearchFits /\ CountsFit
=============================================================================
