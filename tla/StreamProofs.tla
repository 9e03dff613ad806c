---------------------------- MODULE StreamProofs ----------------------------
(***************************************************************************)
(* Theorems about modules TsFraming and TsFilter: that the packets of a    *)
(* stream do not depend on how it was cut into reads, and what is written  *)
(* of them when captions or data broadcasting are left out.                *)
(***************************************************************************)
EXTENDS TsFraming, TsFilter, WellFoundedInduction, NaturalsInduction, TLAPS

-----------------------------------------------------------------------------
(* TsFraming: the packets of the recorded stream, from reads of any length. *)

LEMMA LeastExists ==
    ASSUME NEW B \in SUBSET Nat, B # {}
    PROVE  \E n \in B : \A m \in B : n <= m
<1>1. PICK n \in B : \A m \in B : <<m, n>> \notin OpToRel(<, Nat)
  BY NatLessThanWellFounded, WFMin
<1>2. \A m \in B : ~(m < n)
  BY <1>1 DEF OpToRel
<1>3. \A m \in B : n <= m
  BY <1>2
<1> QED
  BY <1>3

\* First is the least place, and is any place that is the least.
LEMMA FirstIs ==
    ASSUME NEW places \in SUBSET (Nat \ {0})
    PROVE  /\ First(places) \in Nat
           /\ places = {} <=> First(places) = 0
           /\ First(places) # 0 => First(places) \in places /\ \A m \in places : First(places) <= m
           /\ \A n \in places : (\A m \in places : n <= m) => First(places) = n
<1>1. CASE places = {}
  BY <1>1 DEF First
<1>2. CASE places # {}
  <2>1. \E n \in places : \A m \in places : n <= m
    BY <1>2, LeastExists
  <2>2. First(places) \in places /\ \A m \in places : First(places) <= m
    BY <1>2, <2>1 DEF First, Min
  <2>3. ASSUME NEW n \in places, \A m \in places : n <= m
        PROVE  First(places) = n
    <3>1. n \in Nat /\ First(places) \in Nat /\ n <= First(places) /\ First(places) <= n
      BY <2>2, <2>3
    <3> QED
      BY <3>1
  <2> QED
    BY <1>2, <2>2, <2>3
<1> QED
  BY <1>1, <1>2

LEMMA Products ==
    ASSUME NEW a \in Nat, NEW b \in Nat
    PROVE  a * b \in Nat /\ (a + 1) * b = a * b + b /\ b * (a + 1) = b * a + b /\ a * b = b * a
BY SMT

LEMMA Sizes ==
    ASSUME FramingAssumption
    PROVE  /\ PacketSize \in Nat /\ PacketSize >= 2
           /\ PacketSize * Candidates \in Nat /\ PacketSize * Candidates >= PacketSize
           /\ 0 \in 0 .. Candidates - 1
           /\ \A k \in 0 .. Candidates - 1 :
                 k * PacketSize \in Nat /\ k * PacketSize + PacketSize <= PacketSize * Candidates
<1>1. PacketSize \in Nat /\ PacketSize >= 2 /\ Candidates \in Nat /\ Candidates >= 1
  BY DEF FramingAssumption
<1>2. ASSUME NEW k \in 0 .. Candidates - 1
      PROVE  k * PacketSize \in Nat /\ k * PacketSize + PacketSize <= PacketSize * Candidates
  <2> DEFINE r == Candidates - 1 - k
  <2>1. k \in Nat /\ r \in Nat /\ Candidates = (k + r) + 1
    BY <1>1
  <2>2. k * PacketSize \in Nat /\ r * PacketSize \in Nat
    BY <1>1, <2>1, Products
  <2>3. PacketSize * Candidates = PacketSize * (k + r) + PacketSize
    BY <1>1, <2>1, Products
  <2>4. PacketSize * (k + r) = k * PacketSize + r * PacketSize
    BY <1>1, <2>1, SMT
  <2> QED
    BY <1>1, <2>2, <2>3, <2>4
<1>3. PacketSize * Candidates \in Nat /\ PacketSize * Candidates >= PacketSize
  BY <1>1, <1>2, Products
<1> QED
  BY <1>1, <1>2, <1>3

LEMMA PlainSizes ==
    ASSUME FramingAssumption
    PROVE  /\ PacketSize \in Nat /\ PacketSize >= 2
           /\ PacketSize * Candidates \in Nat /\ PacketSize * Candidates >= PacketSize
<1>1. PacketSize \in Nat /\ PacketSize >= 2
  BY DEF FramingAssumption
<1> QED
  BY <1>1, Sizes

LEMMA ConcatIs ==
    ASSUME NEW s \in Seq(Bytes), NEW t \in Seq(Bytes)
    PROVE  /\ s \o t \in Seq(Bytes) /\ Len(s \o t) = Len(s) + Len(t)
           /\ \A i \in 1 .. Len(s) : (s \o t)[i] = s[i]
           /\ \A i \in 1 .. Len(t) : (s \o t)[Len(s) + i] = t[i]
OBVIOUS

\* Whether a place is one to go on from is decided by the bytes it looks at,
\* wherever these are.
LEMMA RecoversLocal ==
    ASSUME FramingAssumption, NEW part \in Seq(Bytes), NEW whole \in Seq(Bytes),
           NEW shift \in Nat, shift + Len(part) <= Len(whole),
           \A i \in 1 .. Len(part) : part[i] = whole[shift + i],
           NEW start \in Nat \ {0}, start + PacketSize * Candidates <= Len(part) + 1
    PROVE  Recovers(part, start) <=> Recovers(whole, shift + start)
<1>1. ASSUME NEW k \in 0 .. Candidates - 1
      PROVE  Parses(part, start + k * PacketSize) <=> Parses(whole, (shift + start) + k * PacketSize)
  <2> DEFINE m == k * PacketSize
  <2>1. m \in Nat /\ m + PacketSize <= PacketSize * Candidates /\ PacketSize >= 2
         /\ PacketSize \in Nat /\ PacketSize * Candidates \in Nat
    BY Sizes
  <2> HIDE DEF m
  <2>2. start + m \in 1 .. Len(part) /\ start + m + 1 \in 1 .. Len(part)
    BY <2>1
  <2>3. shift + (start + m) = (shift + start) + m /\ shift + (start + m + 1) = (shift + start) + m + 1
    BY <2>1
  <2>4. part[start + m] = whole[(shift + start) + m]
        /\ part[start + m + 1] = whole[(shift + start) + m + 1]
    BY <2>2, <2>3
  <2>5. Parses(part, start + m) <=> Parses(whole, (shift + start) + m)
    BY <2>4 DEF Parses
  <2> QED
    BY <2>5 DEF m
<1>2. (shift + start) + PacketSize * Candidates <= Len(whole) + 1
  BY Sizes
<1> QED
  BY <1>1, <1>2 DEF Recovers

LEMMA RecoversSync ==
    ASSUME FramingAssumption, NEW bytes \in Seq(Bytes), NEW start \in Nat, Recovers(bytes, start)
    PROVE  bytes[start] = "sync" /\ start + PacketSize * Candidates <= Len(bytes) + 1
<1>1. 0 \in 0 .. Candidates - 1 /\ start + 0 * PacketSize = start
  BY Sizes
<1> QED
  BY <1>1 DEF Recovers, Parses

\* What is found is a place from the due one on, where a packet fits.
LEMMA FollowingIs ==
    ASSUME FramingAssumption, NEW bytes \in Seq(Bytes), NEW due \in Nat \ {0}
    PROVE  /\ Following(bytes, due) \in Nat
           /\ Following(bytes, due) # 0 =>
                 /\ due <= Following(bytes, due)
                 /\ Following(bytes, due) + PacketSize <= Len(bytes) + 1
                 /\ bytes[Following(bytes, due)] = "sync"
<1> DEFINE places == {start \in due .. Len(bytes) : Recovers(bytes, start)}
<1>1. places \in SUBSET (Nat \ {0})
  OBVIOUS
<1>2. First(places) \in Nat /\ (First(places) # 0 => First(places) \in places)
  BY <1>1, FirstIs
<1>3. First(places) # 0 => /\ due <= First(places)
                           /\ First(places) + PacketSize <= Len(bytes) + 1
                           /\ bytes[First(places)] = "sync"
  <2> SUFFICES ASSUME First(places) # 0
               PROVE  /\ due <= First(places)
                      /\ First(places) + PacketSize <= Len(bytes) + 1
                      /\ bytes[First(places)] = "sync"
    OBVIOUS
  <2> DEFINE found == First(places)
  <2>1. found \in Nat /\ due <= found /\ Recovers(bytes, found)
    BY <1>2
  <2> HIDE DEF found
  <2>2. bytes[found] = "sync" /\ found + PacketSize * Candidates <= Len(bytes) + 1
    BY <2>1, RecoversSync
  <2>3. found + PacketSize <= Len(bytes) + 1
    BY <2>1, <2>2, Sizes
  <2> QED
    BY <2>1, <2>2, <2>3 DEF found
<1>4. CASE due + PacketSize > Len(bytes) + 1
  BY <1>4 DEF Following
<1>5. CASE due + PacketSize <= Len(bytes) + 1 /\ bytes[due] = "sync"
  <2>1. ~(due + PacketSize > Len(bytes) + 1)
    BY <1>5, Sizes
  <2> QED
    BY <1>5, <2>1, PlainSizes DEF Following
<1>6. CASE due + PacketSize <= Len(bytes) + 1 /\ bytes[due] # "sync"
  <2>1. ~(due + PacketSize > Len(bytes) + 1)
    BY <1>6, Sizes
  <2>2. Following(bytes, due) = First(places)
    BY <1>6, <2>1 DEF Following
  <2> QED
    BY <1>2, <1>3, <2>2
<1> QED
  <2>1. \/ due + PacketSize > Len(bytes) + 1
        \/ due + PacketSize <= Len(bytes) + 1 /\ bytes[due] = "sync"
        \/ due + PacketSize <= Len(bytes) + 1 /\ bytes[due] # "sync"
    BY PlainSizes
  <2> HIDE DEF places
  <2> QED
    BY <1>4, <1>5, <1>6, <2>1

\* One more byte changes nothing of what was found.
LEMMA FollowingStays ==
    ASSUME FramingAssumption, NEW bytes \in Seq(Bytes), NEW byte \in Bytes,
           NEW due \in Nat \ {0}, Following(bytes, due) # 0
    PROVE  Following(Append(bytes, byte), due) = Following(bytes, due)
<1> DEFINE more == Append(bytes, byte)
           places(b) == {start \in due .. Len(b) : Recovers(b, start)}
<1>1. /\ more \in Seq(Bytes) /\ Len(more) = Len(bytes) + 1
      /\ \A i \in 1 .. Len(bytes) : more[i] = bytes[i]
  OBVIOUS
<1>2. due + PacketSize <= Len(bytes) + 1 /\ due \in 1 .. Len(bytes)
  <2>1. ~(due + PacketSize > Len(bytes) + 1)
    BY DEF Following
  <2> QED
    BY <2>1, PlainSizes
<1>3. ASSUME NEW start \in Nat \ {0}, start + PacketSize * Candidates <= Len(bytes) + 1
      PROVE  Recovers(bytes, start) <=> Recovers(more, start)
  <2>1. 0 \in Nat /\ 0 + Len(bytes) <= Len(more) /\ \A i \in 1 .. Len(bytes) : bytes[i] = more[0 + i]
    BY <1>1
  <2> HIDE DEF more
  <2>2. Recovers(bytes, start) <=> Recovers(more, 0 + start)
    BY <1>1, <1>3, <2>1, RecoversLocal
  <2> QED
    BY <2>2
<1> HIDE DEF more
<1>4. CASE bytes[due] = "sync"
  BY <1>1, <1>2, <1>4, Sizes DEF Following, more
<1>5. CASE bytes[due] # "sync"
  <2> DEFINE found == First(places(bytes))
  <2>1. Following(bytes, due) = found /\ Following(more, due) = First(places(more))
    <3>1. ~(due + PacketSize > Len(bytes) + 1) /\ ~(due + PacketSize > Len(more) + 1) /\ more[due] # "sync"
      BY <1>1, <1>2, <1>5, PlainSizes
    <3> QED
      BY <1>5, <3>1 DEF Following
  <2>2. places(bytes) \in SUBSET (Nat \ {0}) /\ places(more) \in SUBSET (Nat \ {0})
    BY <1>1
  <2>3. found \in places(bytes) /\ (\A m \in places(bytes) : found <= m)
    BY <2>1, <2>2, FirstIs
  <2> HIDE DEF found
  <2>4. Recovers(bytes, found) /\ found \in Nat \ {0} /\ found \in due .. Len(bytes)
    BY <2>3
  <2>5. found + PacketSize * Candidates <= Len(bytes) + 1
    BY <2>4, RecoversSync
  <2>6. found \in places(more)
    BY <1>1, <1>3, <2>4, <2>5
  <2>7. ASSUME NEW m \in places(more)
        PROVE  found <= m
    <3>1. CASE m + PacketSize * Candidates <= Len(bytes) + 1
      <4>1. m \in due .. Len(bytes) + 1 /\ m \in Nat /\ m # 0
        BY <1>1, <2>2, <2>7
      <4>3. m \in Nat \ {0} /\ m \in due .. Len(bytes)
        BY <3>1, <4>1, Sizes
      <4>2. m \in places(bytes)
        BY <1>3, <2>7, <3>1, <4>3
      <4> QED
        BY <2>3, <4>2
    <3>2. CASE m + PacketSize * Candidates > Len(bytes) + 1
      BY <2>4, <2>5, <2>7, <3>2, Sizes
    <3> QED
      BY <1>1, <2>7, <3>1, <3>2, Sizes
  <2>8. First(places(more)) = found
    BY <2>2, <2>6, <2>7, FirstIs
  <2> QED
    BY <2>1, <2>8 DEF more
<1> QED
  BY <1>4, <1>5
\* Two sequences that follow from the same bytes are the same: Framed tells
\* all of the packets.
THEOREM PacketsDetermined ==
    ASSUME NEW bytes, NEW p \in Seq(Nat), NEW q \in Seq(Nat),
           Framed(bytes, p), Framed(bytes, q)
    PROVE  p = q
<1> DEFINE bad == {i \in Nat \ {0} : i <= Len(p) /\ i <= Len(q) /\ p[i] # q[i]}
<1>1. bad = {}
  <2> SUFFICES ASSUME bad # {}
               PROVE  FALSE
    OBVIOUS
  <2>1. PICK i \in bad : \A j \in bad : i <= j
    <3>1. bad \in SUBSET Nat
      OBVIOUS
    <3> HIDE DEF bad
    <3> QED
      BY <3>1, LeastExists
  <2>2. i = 1 \/ (i - 1 \in Nat \ {0} /\ p[i - 1] = q[i - 1])
    <3>1. i \in Nat /\ i # 0 /\ i <= Len(p) /\ i <= Len(q) /\ Len(p) \in Nat /\ Len(q) \in Nat
      BY <2>1
    <3>2. CASE i # 1
      <4>1. i - 1 \in Nat \ {0} /\ i - 1 <= Len(p) /\ i - 1 <= Len(q) /\ ~(i <= i - 1)
        BY <3>1, <3>2
      <4>2. i - 1 \notin bad
        BY <2>1, <4>1
      <4> QED
        BY <4>1, <4>2
    <3> QED
      BY <3>2
  <2>3. Due(p, i) = Due(q, i)
    BY <2>2 DEF Due
  <2>4. i \in DOMAIN p /\ i \in DOMAIN q
    BY <2>1
  <2> QED
    BY <2>1, <2>3, <2>4 DEF Framed, Found
<1>5. \A i \in Nat \ {0} : i <= Len(p) /\ i <= Len(q) => p[i] = q[i]
  BY <1>1
<1> HIDE DEF bad
<1>2. ASSUME NEW r \in {p, q}, NEW s \in {p, q}, Len(r) < Len(s)
      PROVE  FALSE
  <2> DEFINE n == Len(r)
  <2>1. n \in Nat /\ n + 1 \in DOMAIN s /\ Len(s) \in Nat
    BY <1>2
  <2>2. n = 0 \/ r[n] = s[n]
    <3>1. n = 0 \/ n \in Nat \ {0}
      BY <2>1
    <3>2. n <= Len(r) /\ n <= Len(s)
      BY <1>2, <2>1
    <3>3. (r = p /\ s = q) \/ (r = q /\ s = p) \/ r = s
      BY <1>2
    <3> QED
      BY <1>5, <3>1, <3>2, <3>3
  <2>3. Due(r, n + 1) = Due(s, n + 1)
    BY <2>1, <2>2 DEF Due
  <2> QED
    BY <1>2, <2>1, <2>3 DEF Framed, Found
<1>3. Len(p) = Len(q)
  <2>1. ~(Len(p) < Len(q)) /\ ~(Len(q) < Len(p))
    BY <1>2
  <2> QED
    BY <2>1
<1>4. \A i \in 1 .. Len(p) : p[i] = q[i]
  BY <1>3, <1>5
<1> QED
  BY <1>3, <1>4

LEMMA RecoversStays ==
    ASSUME FramingAssumption, NEW bytes \in Seq(Bytes), NEW byte \in Bytes,
           NEW start \in Nat \ {0}, start + PacketSize * Candidates <= Len(bytes) + 1
    PROVE  Recovers(bytes, start) <=> Recovers(Append(bytes, byte), start)
<1> DEFINE more == Append(bytes, byte)
<1>1. /\ more \in Seq(Bytes) /\ Len(more) = Len(bytes) + 1
      /\ \A i \in 1 .. Len(bytes) : bytes[i] = more[0 + i]
  OBVIOUS
<1>2. 0 \in Nat /\ 0 + Len(bytes) <= Len(more) /\ 0 + start = start
  BY <1>1
<1> HIDE DEF more
<1>3. Recovers(bytes, start) <=> Recovers(more, 0 + start)
  BY <1>1, <1>2, RecoversLocal
<1> QED
  BY <1>2, <1>3 DEF more

LEMMA LesserOfTwo ==
    ASSUME NEW a \in Nat, NEW b \in Nat
    PROVE  Min({a, b}) \in {a, b} /\ Min({a, b}) <= a /\ Min({a, b}) <= b
<1>1. \E n \in {a, b} : \A m \in {a, b} : n <= m
  <2>1. CASE a <= b
    BY <2>1
  <2>2. CASE b <= a
    BY <2>2
  <2> QED
    BY <2>1, <2>2
<1> QED
  BY <1>1 DEF Min

LEMMA RestIs ==
    ASSUME FramingTypeOK, NEW count \in Nat, count <= Len(buffer)
    PROVE  /\ Rest(count) \in Seq(Bytes) /\ Len(Rest(count)) = Len(buffer) - count
           /\ \A i \in 1 .. Len(buffer) - count : Rest(count)[i] = buffer[count + i]
BY DEF Rest, FramingTypeOK

LEMMA DueIs ==
    ASSUME FramingAssumption, FramingTypeOK
    PROVE  /\ NextDue \in Nat \ {0}
           /\ \A i \in 1 .. Len(packets) + 1 : Due(packets, i) \in Nat \ {0}
<1>1. packets \in Seq(1 .. MaxStream) /\ MaxStream \in Nat /\ PacketSize \in Nat
  BY DEF FramingTypeOK, FramingAssumption
<1>2. ASSUME NEW i \in 1 .. Len(packets) + 1
      PROVE  Due(packets, i) \in Nat \ {0}
  <2>1. i = 1 \/ (i # 1 /\ i - 1 \in DOMAIN packets)
    BY <1>1
  <2>2. i # 1 => packets[i - 1] \in 1 .. MaxStream
    BY <1>1, <2>1
  <2> QED
    BY <1>1, <2>1, <2>2 DEF Due
<1>3. Len(packets) + 1 \in 1 .. Len(packets) + 1
  BY <1>1
<1> QED
  BY <1>2, <1>3 DEF NextDue

\* What the invariant says of the numbers, for the steps below.
LEMMA Ranges ==
    ASSUME FramingAssumption, FramingIInv
    PROVE  /\ stream \in Seq(Bytes) /\ buffer \in Seq(Bytes) /\ packets \in Seq(1 .. MaxStream)
           /\ Len(stream) \in Nat /\ at \in Nat /\ at <= Len(stream) /\ Len(stream) <= MaxStream
           /\ Len(buffer) \in Nat /\ Len(buffer) <= at /\ Len(buffer) <= Capacity
           /\ Capacity \in Nat /\ MaxStream \in Nat /\ Len(packets) \in Nat
           /\ Origin \in Nat \ {0} /\ Origin <= at + 1 /\ NextDue \in Nat \ {0}
           /\ {quality.losses, quality.discarded, quality.trailing} \subseteq Nat
<1> USE DEF FramingIInv, FramingTypeOK, BufferFits, FramingAssumption
<1>1. NextDue \in Nat \ {0}
  BY DueIs
<1>2. quality.losses \in Nat /\ quality.discarded \in Nat /\ quality.trailing \in Nat
  OBVIOUS
<1>3. /\ stream \in Seq(Bytes) /\ buffer \in Seq(Bytes) /\ packets \in Seq(1 .. MaxStream)
      /\ Len(stream) \in Nat /\ at \in Nat /\ at <= Len(stream) /\ Len(stream) <= MaxStream
      /\ Len(buffer) \in Nat /\ Len(buffer) <= at /\ Len(buffer) <= Capacity
      /\ Capacity \in Nat /\ MaxStream \in Nat /\ Len(packets) \in Nat
  OBVIOUS
<1>4. Origin \in Nat \ {0} /\ Origin <= at + 1
  BY <1>3 DEF Origin
<1> QED
  BY <1>1, <1>2, <1>3, <1>4
LEMMA FramingInitially ==
    FramingAssumption /\ FramingInit => FramingIInv
<1> SUFFICES ASSUME FramingAssumption, FramingInit
             PROVE  FramingIInv
  OBVIOUS
<1>1. FramingTypeOK
  <2>1. MaxStream \in Nat /\ Capacity \in Nat /\ 0 \in 0 .. MaxStream
    BY DEF FramingAssumption
  <2>2. <<>> \in Seq(Bytes) /\ <<>> \in Seq(1 .. MaxStream) /\ Len(<<>>) = 0
    OBVIOUS
  <2>3. Len(buffer) <= Capacity /\ at \in 0 .. Len(stream)
    BY <2>1, <2>2 DEF FramingInit
  <2> QED
    BY <2>1, <2>2, <2>3 DEF FramingInit, FramingTypeOK
<1>2. BufferFits /\ Found(stream, packets)
  BY DEF FramingInit, BufferFits, Found, FramingAssumption
<1>3. SearchFits
  BY DEF FramingInit, SearchFits, Origin, NextDue, Due
<1>4. CountsFit
  <2>1. PacketSize * 0 = 0
    BY DEF FramingAssumption
  <2> QED
    BY <2>1 DEF FramingInit, CountsFit
<1> QED
  BY <1>1, <1>2, <1>3, <1>4 DEF FramingIInv

LEMMA ArriveKeeps ==
    ASSUME FramingAssumption, FramingIInv, NEW byte \in Bytes, Arrive(byte)
    PROVE  FramingIInv'
<1>1. /\ stream \in Seq(Bytes) /\ Len(stream) \in Nat /\ at \in Nat /\ at <= Len(stream)
      /\ Len(stream) < MaxStream /\ MaxStream \in Nat /\ Len(buffer) \in Nat /\ Len(buffer) <= at
      /\ Origin \in Nat \ {0} /\ NextDue \in Nat \ {0} /\ packets \in Seq(1 .. MaxStream)
  BY Ranges DEF Arrive
<1>2. /\ stream' = Append(stream, byte) /\ stream' \in Seq(Bytes) /\ Len(stream') = Len(stream) + 1
      /\ \A i \in 1 .. Len(stream) : stream'[i] = stream[i]
      /\ UNCHANGED <<at, buffer, lost, packets, quality, status, Origin, NextDue>>
      /\ \A i \in Nat : Due(packets, i)' = Due(packets, i)
  BY <1>1 DEF Arrive, Origin, NextDue, Due
<1>3. FramingTypeOK'
  BY <1>1, <1>2 DEF FramingIInv, FramingTypeOK
<1>4. BufferFits'
  <2>1. status = "open"
    BY DEF Arrive
  <2>2. ASSUME NEW i \in DOMAIN buffer
        PROVE  buffer[i] = stream'[at - Len(buffer) + i]
    <3>1. at - Len(buffer) + i \in 1 .. Len(stream)
      <4>1. i \in 1 .. Len(buffer)
        BY DEF FramingIInv, FramingTypeOK
      <4> QED
        BY <1>1, <4>1
    <3> QED
      BY <1>2, <2>1, <3>1 DEF FramingIInv, BufferFits
  <2> QED
    BY <1>1, <1>2, <2>1, <2>2 DEF FramingIInv, BufferFits
<1>5. Found(stream, packets)'
  <2>1. ASSUME NEW i \in DOMAIN packets
        PROVE  packets[i] # 0 /\ packets[i] = Following(stream', Due(packets, i))
    <3>1. i \in 1 .. Len(packets) + 1
      BY <1>1
    <3>2. Due(packets, i) \in Nat \ {0}
      BY <3>1, DueIs DEF FramingIInv
    <3>3. packets[i] # 0 /\ packets[i] = Following(stream, Due(packets, i))
      BY DEF FramingIInv, Found
    <3> QED
      BY <1>1, <1>2, <3>2, <3>3, FollowingStays
  <2> QED
    BY <1>1, <1>2, <2>1 DEF Found
<1>6. SearchFits'
  <2>1. status = "open"
    BY DEF Arrive
  <2>2. CASE lost
    <3>1. /\ NextDue <= Origin /\ NextDue + PacketSize <= at + 1 /\ stream[NextDue] # "sync"
          /\ \A start \in NextDue .. Origin - 1 :
                start + PacketSize * Candidates <= at + 1 /\ ~Recovers(stream, start)
      BY <2>1, <2>2 DEF FramingIInv, SearchFits
    <3>2. stream'[NextDue] # "sync"
      <4>1. NextDue \in 1 .. Len(stream)
        BY <1>1, <3>1, PlainSizes
      <4> QED
        BY <1>2, <3>1, <4>1
    <3>3. ASSUME NEW start \in NextDue .. Origin - 1
          PROVE  ~Recovers(stream', start)
      <4>1. start \in Nat \ {0} /\ start + PacketSize * Candidates <= Len(stream) + 1
        BY <1>1, <3>1, PlainSizes
      <4> QED
        BY <1>1, <1>2, <3>1, <4>1, RecoversStays
    <3> QED
      BY <1>2, <2>2, <3>1, <3>2, <3>3 DEF SearchFits
  <2>3. CASE ~lost
    <3>1. Origin = NextDue \/ Origin = Following(stream, NextDue)
      BY <2>1, <2>3 DEF FramingIInv, SearchFits
    <3>2. Origin = NextDue \/ Origin = Following(stream', NextDue)
      BY <1>1, <1>2, <3>1, FollowingStays
    <3> QED
      BY <1>2, <2>3, <3>2 DEF SearchFits
  <2> QED
    BY <2>2, <2>3
<1>7. CountsFit'
  BY <1>2 DEF FramingIInv, CountsFit
<1> QED
  BY <1>3, <1>4, <1>5, <1>6, <1>7 DEF FramingIInv

LEMMA TakeKeeps ==
    ASSUME FramingAssumption, FramingIInv, Take
    PROVE  FramingIInv'
<1> DEFINE count == Min({Len(stream) - at, Capacity - Len(buffer)})
<1>1. /\ stream \in Seq(Bytes) /\ Len(stream) \in Nat /\ at \in Nat /\ at < Len(stream)
      /\ Len(stream) <= MaxStream /\ MaxStream \in Nat /\ Len(buffer) \in Nat /\ Len(buffer) <= at
      /\ buffer \in Seq(Bytes) /\ Capacity \in Nat /\ Len(buffer) < Capacity
      /\ status = "open"
  BY Ranges DEF Take
<1>2. count \in Nat /\ count <= Len(stream) - at /\ count <= Capacity - Len(buffer)
  <2> DEFINE a == Len(stream) - at
             b == Capacity - Len(buffer)
  <2>1. a \in Nat /\ b \in Nat
    BY <1>1
  <2> HIDE DEF a, b
  <2>2. Min({a, b}) \in Nat /\ Min({a, b}) <= a /\ Min({a, b}) <= b
    BY <2>1, LesserOfTwo
  <2> QED
    BY <2>2 DEF a, b
<1>3. /\ buffer' = buffer \o SubSeq(stream, at + 1, at + count) /\ at' = at + count
      /\ UNCHANGED <<stream, lost, packets, quality, status, NextDue>>
  BY DEF Take, NextDue, Due
<1> HIDE DEF count
<1>4. /\ buffer' \in Seq(Bytes) /\ Len(buffer') = Len(buffer) + count
      /\ \A i \in 1 .. Len(buffer) : buffer'[i] = buffer[i]
      /\ \A i \in 1 .. count : buffer'[Len(buffer) + i] = stream[at + i]
  <2> DEFINE taken == SubSeq(stream, at + 1, at + count)
  <2>1. taken \in Seq(Bytes) /\ Len(taken) = count /\ \A i \in 1 .. count : taken[i] = stream[at + i]
    BY <1>1, <1>2
  <2> HIDE DEF taken
  <2>2. buffer' = buffer \o taken
    BY <1>3 DEF taken
  <2> QED
    <3>1. /\ buffer \o taken \in Seq(Bytes) /\ Len(buffer \o taken) = Len(buffer) + Len(taken)
          /\ \A i \in 1 .. Len(buffer) : (buffer \o taken)[i] = buffer[i]
          /\ \A i \in 1 .. Len(taken) : (buffer \o taken)[Len(buffer) + i] = taken[i]
      <4>1. buffer \in Seq(Bytes) /\ taken \in Seq(Bytes)
        BY <1>1, <2>1
      <4> QED
        BY <4>1, ConcatIs, Zenon
    <3>2. \A i \in 1 .. count : (buffer \o taken)[Len(buffer) + i] = stream[at + i]
      BY <2>1, <3>1
    <3> QED
      BY <2>1, <2>2, <3>1, <3>2
<1>5. FramingTypeOK'
  BY <1>1, <1>2, <1>3, <1>4 DEF FramingIInv, FramingTypeOK
<1>6. BufferFits'
  <2>1. ASSUME NEW i \in 1 .. Len(buffer) + count
        PROVE  buffer'[i] = stream[(at + count) - (Len(buffer) + count) + i]
    <3>1. (at + count) - (Len(buffer) + count) + i = at - Len(buffer) + i
      BY <1>1, <1>2
    <3>2. CASE i <= Len(buffer)
      <4>1. i \in DOMAIN buffer /\ i \in 1 .. Len(buffer)
        BY <1>1, <1>2, <2>1, <3>2
      <4> QED
        BY <1>1, <1>4, <3>1, <4>1 DEF FramingIInv, BufferFits
    <3>3. CASE i > Len(buffer)
      <4> DEFINE j == i - Len(buffer)
      <4>1. j \in 1 .. count /\ Len(buffer) + j = i /\ at + j = at - Len(buffer) + i
        BY <1>1, <1>2, <2>1, <3>3
      <4> HIDE DEF j
      <4>2. buffer'[Len(buffer) + j] = stream[at + j]
        BY <1>4, <4>1
      <4> QED
        BY <3>1, <4>1, <4>2
    <3> QED
      BY <1>1, <1>2, <2>1, <3>2, <3>3
  <2>2. DOMAIN buffer' = 1 .. Len(buffer) + count
    BY <1>4
  <2>3. \A i \in DOMAIN buffer' : buffer'[i] = stream'[at' - Len(buffer') + i]
    BY <1>3, <1>4, <2>1, <2>2
  <2> QED
    <3>1. Len(stream') <= MaxStream /\ Len(buffer') <= at' /\ status' = "open"
      BY <1>1, <1>2, <1>3, <1>4
    <3> QED
      BY <2>3, <3>1 DEF BufferFits
<1>7. Found(stream, packets)'
  BY <1>3 DEF FramingIInv
<1>8. Origin' = Origin
  <2> DEFINE n == Len(buffer)
  <2>1. at' = at + count /\ Len(buffer') = n + count /\ Origin = at - n + 1
    BY <1>3, <1>4 DEF Origin
  <2>2. n \in Nat /\ at \in Nat /\ count \in Nat
    BY <1>1, <1>2
  <2> HIDE DEF n
  <2>3. (at + count) - (n + count) + 1 = at - n + 1
    BY <2>2
  <2> QED
    BY <2>1, <2>3 DEF Origin
<1>9. SearchFits'
  <2>1. CASE lost
    <3>1. /\ NextDue <= Origin /\ NextDue + PacketSize <= at + 1 /\ stream[NextDue] # "sync"
          /\ \A start \in NextDue .. Origin - 1 :
                start + PacketSize * Candidates <= at + 1 /\ ~Recovers(stream, start)
      BY <1>1, <2>1 DEF FramingIInv, SearchFits
    <3>2. NextDue + PacketSize <= at' + 1
      BY <1>1, <1>2, <1>3, <3>1, Ranges, PlainSizes
    <3>3. ASSUME NEW start \in NextDue .. Origin - 1
          PROVE  start + PacketSize * Candidates <= at' + 1
      <4>1. start + PacketSize * Candidates <= at + 1
        BY <3>1
      <4>2. start \in Nat /\ NextDue \in Nat /\ Origin \in Nat
        BY Ranges
      <4> QED
        BY <1>1, <1>2, <1>3, <4>1, <4>2, PlainSizes
    <3> QED
      BY <1>3, <1>8, <2>1, <3>1, <3>2, <3>3 DEF SearchFits
  <2>2. CASE ~lost
    <3>1. Origin = NextDue \/ Origin = Following(stream, NextDue)
      BY <1>1, <2>2 DEF FramingIInv, SearchFits
    <3>2. Origin' = NextDue' \/ Origin' = Following(stream', NextDue')
      BY <1>3, <1>8, <3>1
    <3> QED
      BY <1>3, <2>2, <3>2 DEF SearchFits
  <2> QED
    BY <2>1, <2>2
<1>10. CountsFit'
  <2> DEFINE emitted == PacketSize * Len(packets)
             counted == emitted + quality.discarded + quality.trailing + Len(buffer)
  <2>1. counted = at /\ quality.trailing = 0
    BY <1>1 DEF FramingIInv, CountsFit
  <2>2. emitted \in Nat /\ quality.discarded \in Nat /\ quality.trailing \in Nat
    BY Ranges, PlainSizes, Products
  <2> HIDE DEF emitted
  <2>3. emitted + quality.discarded + quality.trailing + (Len(buffer) + count) = at + count
    <3>1. emitted + quality.discarded + quality.trailing + Len(buffer) = at
      BY <2>1
    <3> QED
      <4> DEFINE d == quality.discarded
                 t == quality.trailing
                 n == Len(buffer)
      <4>1. emitted \in Nat /\ d \in Nat /\ t \in Nat /\ n \in Nat /\ at \in Nat /\ count \in Nat
        BY <1>1, <1>2, <2>2
      <4>2. emitted + d + t + n = at
        BY <3>1
      <4> HIDE DEF d, t, n
      <4>3. emitted + d + t + (n + count) = at + count
        BY <4>1, <4>2
      <4> QED
        BY <4>3 DEF d, t, n
  <2>4. quality.losses > quality.discarded =>
           /\ quality.losses = quality.discarded + 1
           /\ lost /\ buffer' # <<>> /\ buffer'[1] # "sync"
    <3>1. quality.losses > quality.discarded =>
             quality.losses = quality.discarded + 1 /\ lost /\ buffer # <<>> /\ buffer[1] # "sync"
      BY DEF FramingIInv, CountsFit
    <3>2. buffer # <<>> => buffer' # <<>> /\ buffer'[1] = buffer[1]
      BY <1>1, <1>2, <1>4
    <3> QED
      BY <3>1, <3>2
  <2>5. PacketSize * Len(packets') + quality'.discarded + quality'.trailing + Len(buffer') = at'
    BY <1>3, <1>4, <2>3 DEF emitted
  <2>6. at' \in Nat /\ status' = "open" /\ quality'.trailing = 0 /\ quality' = quality /\ lost' = lost
    BY <1>1, <1>2, <1>3, <2>1
  <2> QED
    BY <2>4, <2>5, <2>6 DEF CountsFit
<1> QED
  BY <1>5, <1>6, <1>7, <1>9, <1>10 DEF FramingIInv
\* The buffer gives up its first bytes.
LEMMA RestFits ==
    ASSUME FramingAssumption, FramingIInv, status = "open", NEW count \in Nat,
           count <= Len(buffer), buffer' = Rest(count), UNCHANGED <<stream, at, status>>
    PROVE  /\ buffer' \in Seq(Bytes) /\ Len(buffer') = Len(buffer) - count
           /\ Origin' = Origin + count /\ BufferFits'
<1>1. /\ buffer' \in Seq(Bytes) /\ Len(buffer') = Len(buffer) - count
      /\ \A i \in 1 .. Len(buffer) - count : buffer'[i] = buffer[count + i]
  BY RestIs DEF FramingIInv
<1>2. /\ Len(buffer) \in Nat /\ at \in Nat /\ Len(buffer) <= at /\ Len(stream) <= MaxStream
      /\ buffer \in Seq(Bytes)
  BY Ranges
<1>3. Origin' = Origin + count
  BY <1>1, <1>2 DEF Origin
<1>4. ASSUME NEW i \in DOMAIN buffer'
      PROVE  buffer'[i] = stream[at - Len(buffer') + i]
  <2>1. i \in 1 .. Len(buffer) - count
    BY <1>1
  <2>2. count + i \in DOMAIN buffer
    BY <1>2, <2>1
  <2>3. buffer[count + i] = stream[at - Len(buffer) + (count + i)]
    BY <2>2 DEF FramingIInv, BufferFits
  <2>4. at - Len(buffer) + (count + i) = at - (Len(buffer) - count) + i
    BY <1>2, <2>1
  <2> QED
    BY <1>1, <2>1, <2>3, <2>4
<1> QED
  BY <1>1, <1>2, <1>3, <1>4 DEF BufferFits

\* The buffer in its place in the stream.
LEMMA BufferIs ==
    ASSUME FramingAssumption, FramingIInv, status = "open"
    PROVE  /\ Origin - 1 \in Nat /\ (Origin - 1) + Len(buffer) = at
           /\ \A i \in 1 .. Len(buffer) : buffer[i] = stream[(Origin - 1) + i]
           /\ buffer # <<>> => buffer[1] = stream[Origin] /\ Origin <= Len(stream)
<1>1. /\ Len(buffer) \in Nat /\ at \in Nat /\ Len(buffer) <= at /\ at <= Len(stream)
      /\ Len(stream) \in Nat /\ buffer \in Seq(Bytes)
  BY Ranges
<1>2. Origin - 1 = at - Len(buffer) /\ Origin - 1 \in Nat /\ (Origin - 1) + Len(buffer) = at
  BY <1>1 DEF Origin
<1>3. ASSUME NEW i \in 1 .. Len(buffer)
      PROVE  buffer[i] = stream[(Origin - 1) + i]
  BY <1>1, <1>2, <1>3 DEF FramingIInv, BufferFits
<1>4. ASSUME buffer # <<>>
      PROVE  buffer[1] = stream[Origin] /\ Origin <= Len(stream)
  <2>1. 1 \in 1 .. Len(buffer) /\ (Origin - 1) + 1 = Origin
    BY <1>1, <1>2, <1>4, Ranges
  <2> QED
    BY <1>1, <1>2, <1>3, <2>1
<1> QED
  BY <1>2, <1>3, <1>4

\* In step and with a packet in the buffer, it is the one that follows if it
\* begins with a synchronisation byte; it never does not where one was found.
LEMMA InStep ==
    ASSUME FramingAssumption, FramingIInv, status = "open", ~lost, PacketSize <= Len(buffer)
    PROVE  /\ buffer[1] = "sync" => Following(stream, NextDue) = Origin
           /\ buffer[1] # "sync" => Origin = NextDue
           /\ Origin + PacketSize <= at + 1 /\ buffer[1] = stream[Origin]
<1>1. /\ stream \in Seq(Bytes) /\ at \in Nat /\ at <= Len(stream) /\ Len(stream) \in Nat
      /\ Origin \in Nat \ {0} /\ Len(buffer) \in Nat /\ NextDue \in Nat \ {0}
  BY Ranges
<1>2. Origin = NextDue \/ Origin = Following(stream, NextDue)
  BY DEF FramingIInv, SearchFits
<1>3. buffer # <<>>
  BY PlainSizes
<1>4. buffer[1] = stream[Origin] /\ Origin + PacketSize <= at + 1
  BY <1>1, <1>3, BufferIs, PlainSizes
<1>5. CASE Origin = Following(stream, NextDue)
  <2>1. stream[Origin] = "sync"
    BY <1>1, <1>5, FollowingIs
  <2> QED
    BY <1>4, <1>5, <2>1
<1>6. CASE Origin = NextDue
  <2>1. ~(NextDue + PacketSize > Len(stream) + 1)
    BY <1>1, <1>4, <1>6, PlainSizes
  <2>2. stream[NextDue] = "sync" => Following(stream, NextDue) = NextDue
    BY <2>1 DEF Following
  <2> QED
    BY <1>4, <1>6, <2>2
<1> QED
  BY <1>2, <1>5, <1>6

LEMMA EmitKeeps ==
    ASSUME FramingAssumption, FramingIInv, Emit
    PROVE  FramingIInv'
<1>1. /\ status = "open" /\ ~lost /\ buffer[1] = "sync"
      /\ packets' = Append(packets, Origin) /\ buffer' = Rest(PacketSize)
      /\ UNCHANGED <<stream, at, lost, quality, status>>
  BY DEF Emit, Origin
<1>2. /\ Len(buffer) \in Nat /\ at \in Nat /\ at <= Len(stream) /\ Len(stream) <= MaxStream
      /\ Len(stream) \in Nat /\ MaxStream \in Nat /\ Origin \in Nat \ {0} /\ Len(buffer) <= Capacity
      /\ packets \in Seq(1 .. MaxStream) /\ Len(packets) \in Nat /\ Capacity \in Nat
  BY Ranges
<1>3. PacketSize \in Nat /\ PacketSize >= 2
  BY PlainSizes
<1>4. PacketSize <= Len(buffer)
  BY <1>1, <1>2, <1>3 DEF Emit, Idle
<1>5. Following(stream, NextDue) = Origin /\ Origin + PacketSize <= at + 1
  BY <1>1, <1>4, InStep
<1>6. /\ buffer' \in Seq(Bytes) /\ Len(buffer') = Len(buffer) - PacketSize
      /\ Origin' = Origin + PacketSize /\ BufferFits'
  BY <1>1, <1>3, <1>4, RestFits
<1>7. Origin \in 1 .. MaxStream
  BY <1>2, <1>3, <1>5
<1>8. /\ packets' \in Seq(1 .. MaxStream) /\ Len(packets') = Len(packets) + 1
      /\ \A i \in 1 .. Len(packets) : packets'[i] = packets[i]
      /\ packets'[Len(packets) + 1] = Origin
  BY <1>1, <1>2, <1>7
<1>9. FramingTypeOK'
  BY <1>1, <1>2, <1>3, <1>4, <1>6, <1>8 DEF FramingIInv, FramingTypeOK
<1>10. ASSUME NEW i \in 1 .. Len(packets) + 1
       PROVE  Due(packets', i) = Due(packets, i)
  <2>1. i = 1 \/ (i # 1 /\ i - 1 \in 1 .. Len(packets))
    BY <1>2
  <2>2. i # 1 => packets'[i - 1] = packets[i - 1]
    BY <1>8, <2>1
  <2> QED
    BY <2>1, <2>2 DEF Due
<1>11. Found(stream, packets)'
  <2>1. ASSUME NEW i \in 1 .. Len(packets) + 1
        PROVE  packets'[i] # 0 /\ packets'[i] = Following(stream, Due(packets', i))
    <3>1. CASE i \in 1 .. Len(packets)
      <4>1. i \in DOMAIN packets
        BY <1>2, <3>1
      <4>2. packets[i] # 0 /\ packets[i] = Following(stream, Due(packets, i))
        BY <4>1 DEF FramingIInv, Found
      <4> QED
        BY <1>8, <1>10, <3>1, <4>2
    <3>2. CASE i = Len(packets) + 1
      BY <1>2, <1>5, <1>8, <1>10, <3>2 DEF NextDue
    <3> QED
      BY <1>2, <3>1, <3>2
  <2>2. DOMAIN packets' = 1 .. Len(packets) + 1
    BY <1>2, <1>8
  <2> QED
    BY <1>1, <2>1, <2>2 DEF Found
<1>12. NextDue' = Origin'
  <2>1. Due(packets', Len(packets') + 1) = packets'[(Len(packets') + 1) - 1] + PacketSize
    BY <1>2, <1>8 DEF Due
  <2>2. (Len(packets') + 1) - 1 = Len(packets) + 1
    BY <1>2, <1>8
  <2> QED
    BY <1>6, <1>8, <2>1, <2>2 DEF NextDue
<1>13. SearchFits'
  BY <1>1, <1>12 DEF SearchFits
<1>14. CountsFit'
  <2> DEFINE emitted == PacketSize * Len(packets)
             d == quality.discarded
             t == quality.trailing
             n == Len(buffer)
  <2>1. emitted + d + t + n = at /\ t = 0 /\ ~(quality.losses > d)
    BY <1>1 DEF FramingIInv, CountsFit
  <2>2. emitted \in Nat /\ d \in Nat /\ t \in Nat /\ n \in Nat
    BY <1>2, <1>3, Ranges, Products
  <2>3. PacketSize * Len(packets') = emitted + PacketSize
    BY <1>2, <1>3, <1>8, Products
  <2> HIDE DEF emitted, d, t, n
  <2>4. (emitted + PacketSize) + d + t + (n - PacketSize) = at
    BY <1>2, <1>3, <2>1, <2>2
  <2>5. PacketSize * Len(packets') + quality'.discarded + quality'.trailing + Len(buffer') = at'
    BY <1>1, <1>6, <2>3, <2>4 DEF d, t, n
  <2>6. at' \in Nat /\ status' = "open" /\ quality'.trailing = 0 /\ ~(quality'.losses > quality'.discarded)
    BY <1>1, <1>2, <2>1 DEF d, t
  <2> QED
    BY <2>5, <2>6 DEF CountsFit
<1> QED
  BY <1>6, <1>9, <1>11, <1>13, <1>14 DEF FramingIInv

LEMMA EmitFailsKeeps ==
    ASSUME FramingAssumption, FramingIInv, EmitFails
    PROVE  FramingIInv'
<1>1. /\ status = "open" /\ ~lost /\ buffer' = <<>> /\ status' = "failed"
      /\ UNCHANGED <<stream, at, lost, packets, quality>>
  BY DEF EmitFails
<1>2. /\ Len(buffer) \in Nat /\ at \in Nat /\ Capacity \in Nat /\ Len(packets) \in Nat
  BY Ranges
<1>3. /\ buffer' \in Seq(Bytes) /\ Len(buffer') = 0
  BY <1>1
<1>4. FramingTypeOK' /\ BufferFits' /\ SearchFits'
  BY <1>1, <1>2, <1>3 DEF FramingIInv, FramingTypeOK, BufferFits, SearchFits
<1>5. Found(stream, packets)'
  BY <1>1 DEF FramingIInv
<1>6. CountsFit'
  <2> DEFINE emitted == PacketSize * Len(packets)
             d == quality.discarded
             t == quality.trailing
             n == Len(buffer)
  <2>1. emitted + d + t + n = at /\ ~(quality.losses > d)
    BY <1>1 DEF FramingIInv, CountsFit
  <2>2. emitted \in Nat /\ d \in Nat /\ t \in Nat /\ n \in Nat
    BY <1>2, PlainSizes, Ranges, Products
  <2> HIDE DEF emitted, d, t, n
  <2>3. emitted + d + t + 0 <= at
    BY <1>2, <2>1, <2>2
  <2>4. PacketSize * Len(packets') + quality'.discarded + quality'.trailing + Len(buffer') <= at'
    BY <1>1, <1>3, <2>3 DEF emitted, d, t
  <2>5. status' = "failed" /\ ~(quality'.losses > quality'.discarded)
    BY <1>1, <2>1 DEF d
  <2> QED
    BY <2>4, <2>5 DEF CountsFit
<1> QED
  BY <1>4, <1>5, <1>6 DEF FramingIInv

LEMMA LoseKeeps ==
    ASSUME FramingAssumption, FramingIInv, Lose
    PROVE  FramingIInv'
<1>1. /\ status = "open" /\ ~lost /\ lost' = TRUE /\ buffer[1] # "sync"
      /\ quality' = [quality EXCEPT !.losses = @ + 1]
      /\ UNCHANGED <<stream, at, buffer, packets, status>>
      /\ UNCHANGED <<Origin, NextDue>>
  BY DEF Lose, Origin, NextDue
<1>2. /\ Len(buffer) \in Nat /\ at \in Nat /\ at <= Len(stream) /\ Len(stream) <= MaxStream
      /\ Len(stream) \in Nat /\ MaxStream \in Nat /\ Origin \in Nat \ {0} /\ Len(packets) \in Nat
  BY Ranges
<1>3. PacketSize <= Len(buffer)
  BY <1>1, <1>2, PlainSizes DEF Lose, Idle
<1>4. Origin = NextDue /\ Origin + PacketSize <= at + 1 /\ buffer[1] = stream[Origin]
  BY <1>1, <1>3, InStep
<1>5. BufferFits' /\ Found(stream, packets)'
  BY <1>1 DEF FramingIInv, BufferFits
<1>6. SearchFits'
  <2>1. NextDue .. Origin - 1 = {}
    BY <1>2, <1>4
  <2> QED
    BY <1>1, <1>2, <1>4, <2>1 DEF SearchFits
<1>7. /\ quality'.losses = quality.losses + 1 /\ quality'.discarded = quality.discarded
      /\ quality'.trailing = quality.trailing
  BY <1>1 DEF FramingIInv, FramingTypeOK
<1>8. CountsFit' /\ quality'.losses <= MaxStream
  <2> DEFINE emitted == PacketSize * Len(packets)
             d == quality.discarded
             t == quality.trailing
             n == Len(buffer)
             l == quality.losses
  <2>1. emitted + d + t + n = at /\ ~(l > d) /\ t = 0
    BY <1>1 DEF FramingIInv, CountsFit
  <2>2. emitted \in Nat /\ d \in Nat /\ t \in Nat /\ n \in Nat /\ l \in Nat
    BY <1>2, PlainSizes, Ranges, Products
  <2>3. n >= 2 /\ buffer # <<>>
    BY <1>2, <1>3, PlainSizes
  <2> HIDE DEF emitted, d, t, n, l
  <2>4. (l + 1 > d => l + 1 = d + 1) /\ l + 1 <= MaxStream
    BY <1>2, <2>1, <2>2, <2>3
  <2>5. PacketSize * Len(packets') + quality'.discarded + quality'.trailing + Len(buffer') = at'
    BY <1>1, <1>7, <2>1 DEF emitted, d, t, n
  <2>6. at' \in Nat /\ status' = "open" /\ quality'.trailing = 0 /\ lost' /\ buffer' # <<>> /\ buffer'[1] # "sync"
    BY <1>1, <1>2, <1>7, <2>1, <2>3 DEF t
  <2>7. quality'.losses > quality'.discarded => quality'.losses = quality'.discarded + 1
    BY <1>7, <2>4 DEF l, d
  <2>8. CountsFit'
    BY <2>5, <2>6, <2>7 DEF CountsFit
  <2> QED
    BY <1>7, <2>4, <2>8 DEF l
<1>9. FramingTypeOK'
  <2>1. quality.losses + 1 \in 0 .. MaxStream
    BY <1>2, <1>7, <1>8, Ranges
  <2> QED
    BY <1>1, <2>1 DEF FramingIInv, FramingTypeOK
<1> QED
  BY <1>5, <1>6, <1>8, <1>9 DEF FramingIInv
\* The candidates of the buffer are those of the stream that it holds.
LEMMA BufferRecovers ==
    ASSUME FramingAssumption, FramingIInv, status = "open", NEW start \in Nat \ {0},
           start + PacketSize * Candidates <= Len(buffer) + 1
    PROVE  Recovers(buffer, start) <=> Recovers(stream, (Origin - 1) + start)
<1>1. /\ Origin - 1 \in Nat /\ (Origin - 1) + Len(buffer) = at
      /\ \A i \in 1 .. Len(buffer) : buffer[i] = stream[(Origin - 1) + i]
  BY BufferIs
<1>2. (Origin - 1) + Len(buffer) <= Len(stream) /\ buffer \in Seq(Bytes) /\ stream \in Seq(Bytes)
  BY <1>1, Ranges
<1> QED
  BY <1>1, <1>2, RecoversLocal

LEMMA PositionIs ==
    ASSUME FramingAssumption, FramingIInv
    PROVE  /\ Position(buffer) \in Nat
           /\ Position(buffer) # 0 =>
                 /\ Recovers(buffer, Position(buffer)) /\ buffer[Position(buffer)] = "sync"
                 /\ Position(buffer) + PacketSize * Candidates <= Len(buffer) + 1
           /\ \A m \in Nat \ {0} : Recovers(buffer, m) => Position(buffer) # 0 /\ Position(buffer) <= m
<1> DEFINE places == {start \in DOMAIN buffer : Recovers(buffer, start)}
           found == Position(buffer)
<1>1. buffer \in Seq(Bytes) /\ Len(buffer) \in Nat /\ DOMAIN buffer = 1 .. Len(buffer)
  BY Ranges
<1>2. places \in SUBSET (Nat \ {0}) /\ found = First(places)
  BY <1>1 DEF Position
<1>3. ASSUME NEW m \in Nat \ {0}, Recovers(buffer, m)
      PROVE  m \in places
  <2>1. m + PacketSize * Candidates <= Len(buffer) + 1
    BY <1>1, <1>3, RecoversSync
  <2>2. m \in 1 .. Len(buffer)
    BY <1>1, <2>1, PlainSizes
  <2> QED
    BY <1>1, <1>3, <2>2
<1>4. \A m \in places : m \in Nat \ {0} /\ Recovers(buffer, m)
  BY <1>2
<1> HIDE DEF places, found
<1>5. /\ found \in Nat /\ (places = {} <=> found = 0)
      /\ found # 0 => found \in places /\ \A m \in places : found <= m
  BY <1>2, FirstIs
<1>6. found # 0 => /\ Recovers(buffer, found) /\ buffer[found] = "sync"
                   /\ found + PacketSize * Candidates <= Len(buffer) + 1
  BY <1>1, <1>4, <1>5, RecoversSync
<1>7. \A m \in Nat \ {0} : Recovers(buffer, m) => found # 0 /\ found <= m
  BY <1>3, <1>5
<1> QED
  BY <1>5, <1>6, <1>7 DEF found

\* What is found in the buffer is what follows in the stream.
LEMMA RecoverFinds ==
    ASSUME FramingAssumption, FramingIInv, status = "open", lost, Position(buffer) # 0
    PROVE  Following(stream, NextDue) = (Origin - 1) + Position(buffer)
<1> DEFINE places == {start \in NextDue .. Len(stream) : Recovers(stream, start)}
           position == Position(buffer)
           found == (Origin - 1) + position
<1>1. /\ stream \in Seq(Bytes) /\ at \in Nat /\ at <= Len(stream) /\ Len(stream) \in Nat
      /\ Origin \in Nat \ {0} /\ Len(buffer) \in Nat /\ NextDue \in Nat \ {0}
  BY Ranges
<1>2. /\ position \in Nat \ {0} /\ Recovers(buffer, position)
      /\ position + PacketSize * Candidates <= Len(buffer) + 1
      /\ \A m \in Nat \ {0} : Recovers(buffer, m) => position <= m
  BY PositionIs
<1>3. (Origin - 1) + Len(buffer) = at /\ Origin - 1 \in Nat
  BY BufferIs
<1>4. /\ NextDue <= Origin /\ NextDue + PacketSize <= at + 1 /\ stream[NextDue] # "sync"
      /\ \A start \in NextDue .. Origin - 1 : ~Recovers(stream, start)
  BY DEF FramingIInv, SearchFits
<1>5. PacketSize \in Nat /\ PacketSize >= 2 /\ PacketSize * Candidates \in Nat
      /\ PacketSize * Candidates >= PacketSize
  BY PlainSizes
<1>6. Recovers(stream, found)
  BY <1>2, BufferRecovers
<1> HIDE DEF position
<1>7. found \in places /\ found + PacketSize * Candidates <= at + 1
  <2>1. found \in NextDue .. Len(stream) /\ found + PacketSize * Candidates <= at + 1
    BY <1>1, <1>2, <1>3, <1>4, <1>5
  <2> QED
    BY <1>6, <2>1
<1>8. ASSUME NEW m \in places
      PROVE  found <= m
  <2>1. m \in Nat /\ NextDue <= m /\ Recovers(stream, m)
    BY <1>1, <1>8
  <2>2. m >= Origin
    BY <1>1, <1>4, <2>1
  <2>3. CASE m + PacketSize * Candidates <= at + 1
    <3> DEFINE inside == m - (Origin - 1)
    <3>1. inside \in Nat \ {0} /\ inside + PacketSize * Candidates <= Len(buffer) + 1
           /\ (Origin - 1) + inside = m
      BY <1>1, <1>3, <1>5, <2>1, <2>2, <2>3
    <3> HIDE DEF inside
    <3>2. Recovers(buffer, inside)
      BY <2>1, <3>1, BufferRecovers
    <3> QED
      BY <1>1, <1>2, <1>3, <3>1, <3>2
  <2>4. CASE m + PacketSize * Candidates > at + 1
    BY <1>1, <1>2, <1>3, <1>5, <1>7, <2>1, <2>4
  <2> QED
    BY <1>1, <1>5, <2>1, <2>3, <2>4
<1>9. places \in SUBSET (Nat \ {0})
  BY <1>1
<1> HIDE DEF places, found
<1>10. First(places) = found
  BY <1>7, <1>8, <1>9, FirstIs
<1>11. ~(NextDue + PacketSize > Len(stream) + 1)
  BY <1>1, <1>4, <1>5
<1> QED
  BY <1>4, <1>10, <1>11 DEF Following, places, found, position

LEMMA RecoverKeeps ==
    ASSUME FramingAssumption, FramingIInv, Recover
    PROVE  FramingIInv'
<1> DEFINE gone == Position(buffer) - 1
<1>1. /\ status = "open" /\ lost /\ ~lost' /\ buffer' = Rest(gone) /\ Position(buffer) # 0
      /\ quality' = [quality EXCEPT !.discarded = @ + Position(buffer) - 1]
      /\ UNCHANGED <<stream, at, packets, status>> /\ NextDue' = NextDue
  BY DEF Recover, NextDue
<1>2. /\ Len(buffer) \in Nat /\ at \in Nat /\ at <= Len(stream) /\ Len(stream) <= MaxStream
      /\ Len(stream) \in Nat /\ MaxStream \in Nat /\ Origin \in Nat \ {0} /\ Len(packets) \in Nat
      /\ Len(buffer) <= Capacity /\ Capacity \in Nat /\ Len(buffer) <= at
  BY Ranges
<1>3. /\ Position(buffer) \in Nat \ {0} /\ buffer[Position(buffer)] = "sync"
      /\ Position(buffer) + PacketSize * Candidates <= Len(buffer) + 1
  BY <1>1, PositionIs
<1>4. gone \in Nat /\ gone <= Len(buffer)
  BY <1>2, <1>3, PlainSizes
<1>5. (Origin - 1) + Position(buffer) = Origin + gone
  BY <1>2, <1>3
<1>6. Origin + gone = Following(stream, NextDue)
  BY <1>1, <1>5, RecoverFinds
<1>7. /\ quality'.losses = quality.losses /\ quality'.discarded = quality.discarded + gone
      /\ quality'.trailing = quality.trailing
  BY <1>1, <1>3, Ranges DEF FramingIInv, FramingTypeOK
<1>8. buffer[1] # "sync" => gone >= 1
  BY <1>3
<1> HIDE DEF gone
<1>9. /\ buffer' \in Seq(Bytes) /\ Len(buffer') = Len(buffer) - gone
      /\ Origin' = Origin + gone /\ BufferFits'
  BY <1>1, <1>4, RestFits
<1>10. SearchFits' /\ Found(stream, packets)'
  BY <1>1, <1>6, <1>9 DEF FramingIInv, SearchFits
<1>11. CountsFit' /\ quality'.discarded <= MaxStream
  <2> DEFINE emitted == PacketSize * Len(packets)
             d == quality.discarded
             t == quality.trailing
             n == Len(buffer)
             l == quality.losses
  <2>1. /\ emitted + d + t + n = at /\ t = 0
        /\ l > d => l = d + 1 /\ buffer[1] # "sync"
    BY <1>1 DEF FramingIInv, CountsFit
  <2>2. emitted \in Nat /\ d \in Nat /\ t \in Nat /\ n \in Nat /\ l \in Nat /\ n = Len(buffer)
    BY <1>2, PlainSizes, Ranges, Products
  <2> HIDE DEF emitted, d, t, n, l
  <2>3. emitted + (d + gone) + t + (n - gone) = at /\ ~(l > d + gone) /\ d + gone <= MaxStream
    BY <1>2, <1>4, <1>8, <2>1, <2>2
  <2>4. PacketSize * Len(packets') + quality'.discarded + quality'.trailing + Len(buffer') = at'
    BY <1>1, <1>7, <1>9, <2>2, <2>3 DEF emitted, d, t
  <2>5. at' \in Nat /\ status' = "open" /\ quality'.trailing = 0 /\ ~(quality'.losses > quality'.discarded)
    BY <1>1, <1>2, <1>7, <2>1, <2>3 DEF l, d, t
  <2>6. CountsFit'
    BY <2>4, <2>5 DEF CountsFit
  <2> QED
    BY <1>7, <2>3, <2>6 DEF d
<1>12. FramingTypeOK'
  <2>1. quality.discarded + gone \in 0 .. MaxStream
    BY <1>2, <1>4, <1>7, <1>11, Ranges
  <2>2. quality' = [quality EXCEPT !.discarded = quality.discarded + gone]
    BY <1>1, <1>3, Ranges DEF gone
  <2>3. quality' \in [losses : 0 .. MaxStream, discarded : 0 .. MaxStream, trailing : 0 .. MaxStream]
    BY <2>1, <2>2 DEF FramingIInv, FramingTypeOK
  <2>4. Len(buffer') <= Capacity /\ lost' \in BOOLEAN
    <3>1. lost' = FALSE
      BY DEF Recover
    <3>2. Len(buffer') <= Capacity
      BY <1>2, <1>4, <1>9
    <3> QED
      BY <3>1, <3>2
  <2> QED
    BY <1>1, <1>9, <2>3, <2>4 DEF FramingIInv, FramingTypeOK
<1> QED
  BY <1>9, <1>10, <1>11, <1>12 DEF FramingIInv

LEMMA DropKeeps ==
    ASSUME FramingAssumption, FramingIInv, Drop
    PROVE  FramingIInv'
<1> DEFINE gone == Droppable(buffer)
<1>1. /\ status = "open" /\ lost /\ buffer' = Rest(gone) /\ Position(buffer) = 0
      /\ quality' = [quality EXCEPT !.discarded = @ + gone]
      /\ UNCHANGED <<stream, at, lost, packets, status>> /\ NextDue' = NextDue
  BY DEF Drop, NextDue
<1>2. /\ Len(buffer) \in Nat /\ at \in Nat /\ at <= Len(stream) /\ Len(stream) <= MaxStream
      /\ Len(stream) \in Nat /\ MaxStream \in Nat /\ Origin \in Nat \ {0} /\ Len(packets) \in Nat
      /\ Len(buffer) <= Capacity /\ Capacity \in Nat /\ Len(buffer) <= at /\ NextDue \in Nat \ {0}
  BY Ranges
<1>3. /\ PacketSize * Candidates \in Nat /\ PacketSize * Candidates >= 2
      /\ PacketSize \in Nat
  BY PlainSizes
<1>4. PacketSize * Candidates <= Len(buffer)
  BY <1>1, <1>2, <1>3 DEF Drop, Idle
<1>5. gone \in Nat /\ gone >= 1 /\ gone + PacketSize * Candidates = Len(buffer) + 1 /\ gone <= Len(buffer)
  BY <1>2, <1>3, <1>4 DEF Droppable
<1>6. /\ quality'.losses = quality.losses /\ quality'.discarded = quality.discarded + gone
      /\ quality'.trailing = quality.trailing
  BY <1>1 DEF FramingIInv, FramingTypeOK
<1> HIDE DEF gone
<1>7. /\ buffer' \in Seq(Bytes) /\ Len(buffer') = Len(buffer) - gone
      /\ Origin' = Origin + gone /\ BufferFits'
  BY <1>1, <1>5, RestFits
<1>8. SearchFits'
  <2>1. /\ NextDue <= Origin /\ NextDue + PacketSize <= at + 1 /\ stream[NextDue] # "sync"
        /\ \A start \in NextDue .. Origin - 1 :
              start + PacketSize * Candidates <= at + 1 /\ ~Recovers(stream, start)
    BY <1>1 DEF FramingIInv, SearchFits
  <2>2. (Origin - 1) + Len(buffer) = at
    BY <1>1, BufferIs
  <2>3. ASSUME NEW start \in NextDue .. (Origin + gone) - 1
        PROVE  start + PacketSize * Candidates <= at + 1 /\ ~Recovers(stream, start)
    <3>1. CASE start <= Origin - 1
      <4>1. start \in NextDue .. Origin - 1
        BY <1>2, <1>5, <2>3, <3>1
      <4> QED
        BY <2>1, <4>1
    <3>2. CASE start >= Origin
      <4> DEFINE inside == start - (Origin - 1)
      <4>1. /\ inside \in Nat \ {0} /\ inside + PacketSize * Candidates <= Len(buffer) + 1
            /\ (Origin - 1) + inside = start /\ start + PacketSize * Candidates <= at + 1
        BY <1>2, <1>3, <1>5, <2>2, <2>3, <3>2
      <4> HIDE DEF inside
      <4>2. ~Recovers(buffer, inside)
        BY <1>1, <4>1, PositionIs
      <4> QED
        BY <1>1, <4>1, <4>2, BufferRecovers
    <3> QED
      BY <1>2, <2>3, <3>1, <3>2
  <2>4. NextDue <= Origin + gone
    BY <1>2, <1>5, <2>1
  <2> QED
    BY <1>1, <1>7, <2>1, <2>3, <2>4 DEF SearchFits
<1>9. Found(stream, packets)'
  BY <1>1 DEF FramingIInv
<1>10. CountsFit' /\ quality'.discarded <= MaxStream
  <2> DEFINE emitted == PacketSize * Len(packets)
             d == quality.discarded
             t == quality.trailing
             n == Len(buffer)
             l == quality.losses
  <2>1. emitted + d + t + n = at /\ t = 0 /\ (l > d => l = d + 1)
    BY <1>1 DEF FramingIInv, CountsFit
  <2>2. emitted \in Nat /\ d \in Nat /\ t \in Nat /\ n \in Nat /\ l \in Nat /\ n = Len(buffer)
    BY <1>2, PlainSizes, Ranges, Products
  <2> HIDE DEF emitted, d, t, n, l
  <2>3. emitted + (d + gone) + t + (n - gone) = at /\ ~(l > d + gone) /\ d + gone <= MaxStream
    BY <1>2, <1>5, <2>1, <2>2
  <2>4. PacketSize * Len(packets') + quality'.discarded + quality'.trailing + Len(buffer') = at'
    BY <1>1, <1>6, <1>7, <2>2, <2>3 DEF emitted, d, t
  <2>5. at' \in Nat /\ status' = "open" /\ quality'.trailing = 0 /\ ~(quality'.losses > quality'.discarded)
    BY <1>1, <1>2, <1>6, <2>1, <2>3 DEF l, d, t
  <2>6. CountsFit'
    BY <2>4, <2>5 DEF CountsFit
  <2> QED
    BY <1>6, <2>3, <2>6 DEF d
<1>11. FramingTypeOK'
  <2>1. quality.discarded + gone \in 0 .. MaxStream
    BY <1>2, <1>5, <1>6, <1>10, Ranges
  <2>2. quality' \in [losses : 0 .. MaxStream, discarded : 0 .. MaxStream, trailing : 0 .. MaxStream]
    BY <1>1, <2>1 DEF FramingIInv, FramingTypeOK
  <2>3. Len(buffer') <= Capacity
    BY <1>2, <1>5, <1>7
  <2> QED
    BY <1>1, <1>7, <2>2, <2>3 DEF FramingIInv, FramingTypeOK
<1> QED
  BY <1>7, <1>8, <1>9, <1>10, <1>11 DEF FramingIInv

LEMMA FinishFramingKeeps ==
    ASSUME FramingAssumption, FramingIInv, FinishFraming
    PROVE  FramingIInv'
<1>1. /\ status = "open" /\ at = Len(stream) /\ buffer' = <<>> /\ status' = "finished"
      /\ UNCHANGED <<stream, at, lost, packets>>
  BY DEF FinishFraming
<1>2. /\ Len(buffer) \in Nat /\ at \in Nat /\ at <= MaxStream /\ Len(stream) <= MaxStream
      /\ MaxStream \in Nat /\ Len(packets) \in Nat /\ Capacity \in Nat /\ buffer \in Seq(Bytes)
  BY Ranges
<1>3. buffer' \in Seq(Bytes) /\ Len(buffer') = 0
  BY <1>1
<1>4. BufferFits' /\ SearchFits' /\ Found(stream, packets)'
  BY <1>1, <1>2, <1>3 DEF FramingIInv, BufferFits, SearchFits
<1>5. quality' \in [losses : 0 .. MaxStream, discarded : 0 .. MaxStream, trailing : 0 .. MaxStream]
      /\ CountsFit'
  <2> DEFINE emitted == PacketSize * Len(packets)
             d == quality.discarded
             t == quality.trailing
             n == Len(buffer)
             l == quality.losses
  <2>1. /\ emitted + d + t + n = at /\ t = 0
        /\ l > d => l = d + 1 /\ lost /\ n > 0
    <3>1. buffer # <<>> => Len(buffer) > 0
      BY <1>2
    <3> QED
      BY <1>1, <3>1 DEF FramingIInv, CountsFit
  <2>2. emitted \in Nat /\ d \in Nat /\ t \in Nat /\ n \in Nat /\ l \in 0 .. MaxStream
    BY <1>2, PlainSizes, Ranges, Products DEF FramingIInv, FramingTypeOK
  <2>3. CASE lost
    <3>1. quality' = [quality EXCEPT !.discarded = d + n]
      BY <2>3 DEF FinishFraming
    <3>2. quality'.discarded = d + n /\ quality'.trailing = t /\ quality'.losses = l
      BY <3>1 DEF FramingIInv, FramingTypeOK
    <3>3. d + n \in 0 .. MaxStream /\ emitted + (d + n) + t + 0 = at /\ ~(l > d + n)
      <4> HIDE DEF emitted, d, t, n, l
      <4> QED
        BY <1>2, <2>1, <2>2
    <3>4. quality' \in [losses : 0 .. MaxStream, discarded : 0 .. MaxStream, trailing : 0 .. MaxStream]
      BY <3>1, <3>3 DEF FramingIInv, FramingTypeOK
    <3>5. PacketSize * Len(packets') + quality'.discarded + quality'.trailing + Len(buffer') = at'
      BY <1>1, <1>3, <3>2, <3>3
    <3>6. ~(quality'.losses > quality'.discarded) /\ at' \in Nat /\ status' = "finished"
      BY <1>1, <1>2, <3>2, <3>3
    <3> QED
      BY <3>4, <3>5, <3>6 DEF CountsFit
  <2>4. CASE ~lost
    <3>1. quality' = [quality EXCEPT !.trailing = t + n]
      BY <2>4 DEF FinishFraming
    <3>2. quality'.discarded = d /\ quality'.trailing = t + n /\ quality'.losses = l
      BY <3>1 DEF FramingIInv, FramingTypeOK
    <3>3. t + n \in 0 .. MaxStream /\ emitted + d + (t + n) + 0 = at /\ ~(l > d)
      <4> HIDE DEF emitted, d, t, n, l
      <4> QED
        BY <1>2, <2>1, <2>2, <2>4
    <3>4. quality' \in [losses : 0 .. MaxStream, discarded : 0 .. MaxStream, trailing : 0 .. MaxStream]
      BY <3>1, <3>3 DEF FramingIInv, FramingTypeOK
    <3>5. PacketSize * Len(packets') + quality'.discarded + quality'.trailing + Len(buffer') = at'
      BY <1>1, <1>3, <3>2, <3>3
    <3>6. ~(quality'.losses > quality'.discarded) /\ at' \in Nat /\ status' = "finished"
      BY <1>1, <1>2, <3>2, <3>3
    <3> QED
      BY <3>4, <3>5, <3>6 DEF CountsFit
  <2> QED
    BY <2>3, <2>4
<1>6. FramingTypeOK'
  BY <1>1, <1>2, <1>3, <1>5 DEF FramingIInv, FramingTypeOK
<1> QED
  BY <1>4, <1>5, <1>6 DEF FramingIInv

\* Every state of the framer satisfies FramingIInv: the buffer holds the end of
\* what was read, the packets so far are those of the stream, and no place that
\* a packet could be found at was dropped.
THEOREM FramingInductive ==
    ASSUME FramingAssumption
    PROVE  FramingSpec => []FramingIInv
<1>1. FramingInit => FramingIInv
  BY FramingInitially
<1>2. FramingIInv /\ [FramingNext]_framingVars => FramingIInv'
  <2> SUFFICES ASSUME FramingIInv, [FramingNext]_framingVars
               PROVE  FramingIInv'
    OBVIOUS
  <2>1. ASSUME NEW byte \in Bytes, Arrive(byte)
        PROVE  FramingIInv'
    BY <2>1, ArriveKeeps
  <2>2. CASE Take
    BY <2>2, TakeKeeps
  <2>3. CASE Emit
    BY <2>3, EmitKeeps
  <2>4. CASE EmitFails
    BY <2>4, EmitFailsKeeps
  <2>5. CASE Lose
    BY <2>5, LoseKeeps
  <2>6. CASE Recover
    BY <2>6, RecoverKeeps
  <2>7. CASE Drop
    BY <2>7, DropKeeps
  <2>8. CASE FinishFraming
    BY <2>8, FinishFramingKeeps
  <2>9. CASE UNCHANGED framingVars
    <3>1. UNCHANGED <<stream, at, buffer, lost, packets, quality, status>>
      BY <2>9 DEF framingVars
    <3>2. UNCHANGED <<FramingTypeOK, BufferFits, Found(stream, packets), Origin, NextDue>>
      BY <3>1 DEF FramingTypeOK, BufferFits, Origin, NextDue
    <3>3. UNCHANGED <<SearchFits, CountsFit>>
      BY <3>1, <3>2 DEF SearchFits, CountsFit
    <3> QED
      BY <3>2, <3>3 DEF FramingIInv
  <2> QED
    BY <2>1, <2>2, <2>3, <2>4, <2>5, <2>6, <2>7, <2>8, <2>9 DEF FramingNext
<1> QED
  BY <1>1, <1>2, PTL DEF FramingSpec

\* However the reads cut the stream, the packets are those of the whole, and each
\* byte is in a packet or counted once (QRC-002).
THEOREM SplitsAlike ==
    ASSUME FramingAssumption
    PROVE  FramingSpec => [](SplitAlike /\ BytesExplained)
<1>1. FramingIInv => SplitAlike
  <2> SUFFICES ASSUME FramingIInv, status = "open", at = Len(stream), Idle
               PROVE  Following(stream, NextDue) = 0
    BY DEF SplitAlike, Framed, FramingIInv, NextDue
  <2>1. /\ stream \in Seq(Bytes) /\ at \in Nat /\ Len(stream) \in Nat
        /\ Origin \in Nat \ {0} /\ Len(buffer) \in Nat /\ NextDue \in Nat \ {0}
    BY Ranges
  <2>2. (Origin - 1) + Len(buffer) = Len(stream)
    BY BufferIs
  <2>3. CASE lost
    <3> DEFINE places == {start \in NextDue .. Len(stream) : Recovers(stream, start)}
    <3>1. /\ NextDue <= Origin /\ NextDue + PacketSize <= at + 1 /\ stream[NextDue] # "sync"
          /\ \A start \in NextDue .. Origin - 1 : ~Recovers(stream, start)
      BY <2>3 DEF FramingIInv, SearchFits
    <3>2. Len(buffer) < PacketSize * Candidates
      BY <2>3 DEF Idle
    <3>3. ASSUME NEW start \in NextDue .. Len(stream), Recovers(stream, start)
          PROVE  FALSE
      <4>1. start + PacketSize * Candidates <= Len(stream) + 1
        BY <2>1, <3>3, RecoversSync
      <4>2. start <= Origin - 1
        BY <2>1, <2>2, <3>2, <4>1, PlainSizes
      <4>3. start \in NextDue .. Origin - 1
        BY <2>1, <3>3, <4>2
      <4> QED
        BY <3>1, <3>3, <4>3
    <3>4. places = {}
      BY <3>3
    <3>5. First(places) = 0
      BY <3>4 DEF First
    <3> QED
      BY <3>1, <3>5 DEF Following
  <2>4. CASE ~lost
    <3>1. Len(buffer) < PacketSize
      BY <2>4 DEF Idle
    <3>2. Origin + PacketSize > Len(stream) + 1
      BY <2>1, <2>2, <3>1, PlainSizes
    <3>3. Origin = NextDue \/ Origin = Following(stream, NextDue)
      BY <2>4 DEF FramingIInv, SearchFits
    <3>4. Origin # Following(stream, NextDue)
      <4> SUFFICES ASSUME Origin = Following(stream, NextDue)
                   PROVE  FALSE
        OBVIOUS
      <4>1. Origin + PacketSize <= Len(stream) + 1
        BY <2>1, FollowingIs
      <4> QED
        BY <2>1, <3>2, <4>1, PlainSizes
    <3> QED
      BY <3>2, <3>3, <3>4 DEF Following
  <2> QED
    BY <2>3, <2>4
<1>2. FramingIInv => BytesExplained
  <2> SUFFICES ASSUME FramingIInv, status = "finished"
               PROVE  PacketSize * Len(packets) + quality.discarded + quality.trailing = Len(stream)
    BY DEF BytesExplained
  <2> DEFINE counted == PacketSize * Len(packets) + quality.discarded + quality.trailing
  <2>1. buffer = <<>> /\ at = Len(stream) /\ counted + Len(buffer) = at
    BY DEF FramingIInv, BufferFits, CountsFit
  <2>2. counted \in Nat
    <3> DEFINE emitted == PacketSize * Len(packets)
    <3>1. Len(packets) \in Nat /\ quality.discarded \in Nat /\ quality.trailing \in Nat
      BY Ranges
    <3>2. emitted \in Nat
      BY <3>1, PlainSizes, Products
    <3> HIDE DEF emitted
    <3>3. emitted + quality.discarded + quality.trailing \in Nat
      BY <3>1, <3>2
    <3> QED
      BY <3>3 DEF emitted
  <2> HIDE DEF counted
  <2>3. counted = Len(stream)
    BY <2>1, <2>2
  <2> QED
    BY <2>3 DEF counted
<1> QED
  BY <1>1, <1>2, FramingInductive, PTL
-----------------------------------------------------------------------------
(* Module TsFilter.  Each step of the filter is one of a few: it writes the   *)
(* packet, holds it or leaves it out (Grows), it replays what it held with    *)
(* the new table (Completes), or it falls back (Fell).  For each the parts of *)
(* the invariant are shown once; the cases of the code are then reduced to    *)
(* them.                                                                      *)

\* What sequences of items contain, and when their concatenation is in order.
LEMMA JoinedItems ==
    ASSUME NEW s \in Seq(Item), NEW t \in Seq(Item)
    PROVE  ToSet(s \o t) = ToSet(s) \cup ToSet(t)
<1>1. ASSUME NEW x \in ToSet(s \o t) PROVE x \in ToSet(s) \cup ToSet(t)
  <2>1. PICK i \in 1 .. Len(s) + Len(t) : x = (s \o t)[i]
    BY DEF ToSet
  <2>2. CASE i <= Len(s)
    BY <2>1, <2>2 DEF ToSet
  <2>3. CASE i > Len(s)
    <3>1. i - Len(s) \in 1 .. Len(t) /\ x = t[i - Len(s)]
      BY <2>1, <2>3
    <3> QED
      BY <3>1 DEF ToSet
  <2> QED
    BY <2>1, <2>2, <2>3
<1>2. ASSUME NEW x \in ToSet(s) PROVE x \in ToSet(s \o t)
  <2>1. PICK i \in 1 .. Len(s) : x = s[i]
    BY DEF ToSet
  <2>2. i \in 1 .. Len(s \o t) /\ x = (s \o t)[i]
    BY <2>1
  <2> QED
    BY <2>2 DEF ToSet
<1>3. ASSUME NEW x \in ToSet(t) PROVE x \in ToSet(s \o t)
  <2>1. PICK i \in 1 .. Len(t) : x = t[i]
    BY DEF ToSet
  <2>2. i + Len(s) \in 1 .. Len(s \o t) /\ x = (s \o t)[i + Len(s)]
    BY <2>1
  <2> QED
    BY <2>2 DEF ToSet
<1> QED
  BY <1>1, <1>2, <1>3

LEMMA ItemsOf ==
    ASSUME NEW s \in Seq(Item), NEW t \in Seq(Item), NEW e \in Item
    PROVE  /\ ToSet(s \o t) = ToSet(s) \cup ToSet(t)
           /\ ToSet(Append(s, e)) = ToSet(s) \cup {e}
           /\ ToSet(<<>>) = {} /\ ToSet(<<e>>) = {e} /\ ToSet(s) \subseteq Item
           /\ s = <<>> <=> ToSet(s) = {}
           /\ Append(s, e) = s \o <<e>> /\ s \o <<>> = s /\ <<>> \o s = s
           /\ s \o t \in Seq(Item) /\ Append(s, e) \in Seq(Item) /\ <<e>> \in Seq(Item)
           /\ s # <<>> => s[1] \in ToSet(s)
<1>1. ToSet(s \o t) = ToSet(s) \cup ToSet(t)
  BY JoinedItems
<1>2. ToSet(Append(s, e)) = ToSet(s) \cup {e}
  <2>1. ASSUME NEW x \in ToSet(Append(s, e)) PROVE x \in ToSet(s) \cup {e}
    BY DEF ToSet
  <2>2. ASSUME NEW x \in ToSet(s) PROVE x \in ToSet(Append(s, e))
    BY DEF ToSet
  <2>3. Len(s) + 1 \in DOMAIN Append(s, e) /\ Append(s, e)[Len(s) + 1] = e
    OBVIOUS
  <2>4. e \in ToSet(Append(s, e))
    BY <2>3 DEF ToSet
  <2> QED
    BY <2>1, <2>2, <2>4
<1>3. ToSet(<<>>) = {} /\ ToSet(<<e>>) = {e} /\ ToSet(s) \subseteq Item
  BY DEF ToSet
<1>4. s # <<>> => s[1] \in ToSet(s)
  BY DEF ToSet
<1>5. /\ Append(s, e) = s \o <<e>> /\ s \o <<>> = s /\ <<>> \o s = s
      /\ s \o t \in Seq(Item) /\ Append(s, e) \in Seq(Item) /\ <<e>> \in Seq(Item)
  OBVIOUS
<1> QED
  BY <1>1, <1>2, <1>3, <1>4, <1>5

LEMMA OrderOf ==
    ASSUME NEW s \in Seq(Item), NEW t \in Seq(Item)
    PROVE  InOrder(s \o t) <=>
               InOrder(s) /\ InOrder(t) /\ \A x \in ToSet(s), y \in ToSet(t) : x.num < y.num
<1>1. ASSUME InOrder(s \o t)
      PROVE  InOrder(s) /\ InOrder(t) /\ \A x \in ToSet(s), y \in ToSet(t) : x.num < y.num
  <2>1. InOrder(s)
    BY <1>1 DEF InOrder
  <2>2. InOrder(t)
    <3> SUFFICES ASSUME NEW i \in 1 .. Len(t), NEW j \in 1 .. Len(t), i < j
                 PROVE  t[i].num < t[j].num
      BY DEF InOrder
    <3>1. /\ i + Len(s) \in DOMAIN (s \o t) /\ j + Len(s) \in DOMAIN (s \o t)
          /\ (s \o t)[i + Len(s)] = t[i] /\ (s \o t)[j + Len(s)] = t[j]
      OBVIOUS
    <3> QED
      BY <1>1, <3>1 DEF InOrder
  <2>3. ASSUME NEW x \in ToSet(s), NEW y \in ToSet(t)
        PROVE  x.num < y.num
    <3>1. PICK i \in 1 .. Len(s) : x = s[i]
      BY DEF ToSet
    <3>2. PICK j \in 1 .. Len(t) : y = t[j]
      BY DEF ToSet
    <3>3. /\ i \in DOMAIN (s \o t) /\ j + Len(s) \in DOMAIN (s \o t) /\ i < j + Len(s)
          /\ (s \o t)[i] = x /\ (s \o t)[j + Len(s)] = y
      BY <3>1, <3>2
    <3> QED
      BY <1>1, <3>3 DEF InOrder
  <2> QED
    BY <2>1, <2>2, <2>3
<1>2. ASSUME InOrder(s), InOrder(t), \A x \in ToSet(s), y \in ToSet(t) : x.num < y.num
      PROVE  InOrder(s \o t)
  <2> SUFFICES ASSUME NEW i \in 1 .. Len(s) + Len(t), NEW j \in 1 .. Len(s) + Len(t), i < j
               PROVE  (s \o t)[i].num < (s \o t)[j].num
    BY DEF InOrder
  <2>1. CASE j <= Len(s)
    BY <1>2, <2>1 DEF InOrder
  <2>2. CASE i <= Len(s) /\ j > Len(s)
    <3>1. (s \o t)[i] = s[i] /\ i \in DOMAIN s
      BY <2>2
    <3>2. (s \o t)[j] = t[j - Len(s)] /\ j - Len(s) \in DOMAIN t
      BY <2>2
    <3>3. s[i] \in ToSet(s) /\ t[j - Len(s)] \in ToSet(t)
      BY <3>1, <3>2 DEF ToSet
    <3> QED
      BY <1>2, <3>1, <3>2, <3>3
  <2>3. CASE i > Len(s)
    <3>1. (s \o t)[i] = t[i - Len(s)] /\ i - Len(s) \in DOMAIN t
      BY <2>3
    <3>2. (s \o t)[j] = t[j - Len(s)] /\ j - Len(s) \in DOMAIN t
      BY <2>3
    <3> QED
      BY <1>2, <2>3, <3>1, <3>2 DEF InOrder
  <2> QED
    BY <2>1, <2>2, <2>3
<1> QED
  BY <1>1, <1>2

\* Numbers identify what is in order, and its first item has the least.
LEMMA NumbersTell ==
    ASSUME FilterAssumption, NEW s \in Seq(Item), InOrder(s)
    PROVE  /\ \A x, y \in ToSet(s) : x.num = y.num => x = y
           /\ s # <<>> => \A x \in ToSet(s) : s[1].num <= x.num
           /\ \A i, j \in DOMAIN s : s[i].num <= s[j].num <=> i <= j
<1>1. \A i \in DOMAIN s : s[i].num \in Nat
  <2>1. ASSUME NEW x \in Item
        PROVE  x.num \in Nat
    BY DEF Item, FilterAssumption
  <2> QED
    BY <2>1
<1>2. \A i, j \in DOMAIN s : s[i].num <= s[j].num <=> i <= j
  BY <1>1 DEF InOrder
<1>3. ASSUME NEW x \in ToSet(s), NEW y \in ToSet(s), x.num = y.num
      PROVE  x = y
  <2>1. PICK i \in 1 .. Len(s) : x = s[i]
    BY DEF ToSet
  <2>2. PICK j \in 1 .. Len(s) : y = s[j]
    BY DEF ToSet
  <2>3. ~(i < j) /\ ~(j < i)
    BY <1>1, <1>3, <2>1, <2>2 DEF InOrder
  <2> QED
    BY <2>1, <2>2, <2>3
<1>4. ASSUME s # <<>>, NEW x \in ToSet(s)
      PROVE  s[1].num <= x.num
  <2>1. PICK i \in 1 .. Len(s) : x = s[i]
    BY DEF ToSet
  <2> QED
    BY <1>2, <2>1
<1> QED
  BY <1>2, <1>3, <1>4

\* The recursive function that FlattenSeq stands for exists.
Joins(F, pieces, n) ==
    F = [i \in 1 .. n |-> IF i = 1 THEN pieces[i] ELSE F[i - 1] \o pieces[i]]

LEMMA JoinsExist ==
    ASSUME NEW pieces, NEW n \in Nat
    PROVE  \E F : Joins(F, pieces, n)
<1> DEFINE bad == {m \in Nat : ~\E F : Joins(F, pieces, m)}
<1> SUFFICES ASSUME bad # {}
             PROVE  FALSE
  OBVIOUS
<1>1. PICK m \in bad : \A k \in bad : m <= k
  <2>1. bad \in SUBSET Nat
    OBVIOUS
  <2> HIDE DEF bad
  <2> QED
    BY <2>1, LeastExists
<1>2. m \in Nat
  BY <1>1
<1>3. CASE m = 0
  <2> DEFINE F == [i \in 1 .. 0 |-> <<>>]
  <2>1. F = [i \in 1 .. 0 |-> IF i = 1 THEN pieces[i] ELSE F[i - 1] \o pieces[i]]
    OBVIOUS
  <2>2. Joins(F, pieces, 0)
    BY <2>1 DEF Joins
  <2> QED
    BY <1>1, <1>3, <2>2
<1>4. CASE m # 0
  <2>1. m - 1 \in Nat /\ m - 1 \notin bad
    <3> HIDE DEF bad
    <3> QED
      BY <1>1, <1>2, <1>4
  <2>2. PICK F : Joins(F, pieces, m - 1)
    BY <2>1
  <2> DEFINE G == [i \in 1 .. m |-> IF i = 1 THEN pieces[i] ELSE F[i - 1] \o pieces[i]]
  <2>3. ASSUME NEW i \in 1 .. m - 1
        PROVE  G[i] = F[i]
    <3>1. F[i] = IF i = 1 THEN pieces[i] ELSE F[i - 1] \o pieces[i]
      BY <2>2, Zenon DEF Joins
    <3>2. i \in 1 .. m
      BY <1>2
    <3> QED
      BY <3>1, <3>2, Zenon
  <2>4. ASSUME NEW i \in 1 .. m, i # 1
        PROVE  G[i - 1] = F[i - 1]
    <3>1. i - 1 \in 1 .. m - 1
      BY <1>2, <2>4
    <3> QED
      BY <2>3, <3>1, Zenon
  <2>5. G = [i \in 1 .. m |-> IF i = 1 THEN pieces[i] ELSE G[i - 1] \o pieces[i]]
    BY <2>4
  <2> HIDE DEF G
  <2>6. Joins(G, pieces, m)
    BY <2>5 DEF Joins
  <2> QED
    BY <1>1, <2>6
<1> QED
  BY <1>3, <1>4

\* FlattenSeq of pieces that are in order is in order, and has their items.
LEMMA FlattenIs ==
    ASSUME FilterAssumption, NEW n \in Nat, n > 0, NEW pieces \in [1 .. n -> Seq(Item)],
           \A k \in 1 .. n : InOrder(pieces[k]),
           \A k, l \in 1 .. n : k < l =>
               \A x \in ToSet(pieces[k]), y \in ToSet(pieces[l]) : x.num < y.num
    PROVE  /\ FlattenSeq(pieces) \in Seq(Item) /\ InOrder(FlattenSeq(pieces))
           /\ \A x : x \in ToSet(FlattenSeq(pieces)) <=> \E k \in 1 .. n : x \in ToSet(pieces[k])
<1> DEFINE F == CHOOSE F : Joins(F, pieces, n)
           Glued(i) == /\ F[i] \in Seq(Item) /\ InOrder(F[i])
                      /\ \A x : x \in ToSet(F[i]) <=> \E k \in 1 .. i : x \in ToSet(pieces[k])
           bad == {i \in 1 .. n : ~Glued(i)}
<1>1. Len(pieces) = n
  OBVIOUS
<1>2. FlattenSeq(pieces) = F[n]
  <2>1. n # 0
    OBVIOUS
  <2> QED
    BY <1>1, <2>1 DEF FlattenSeq, Joins
<1>3. Joins(F, pieces, n)
  BY JoinsExist
<1> HIDE DEF F
<1>4. F[1] = pieces[1] /\ \A i \in 2 .. n : F[i] = F[i - 1] \o pieces[i]
  <2>1. \A i \in 1 .. n : F[i] = IF i = 1 THEN pieces[i] ELSE F[i - 1] \o pieces[i]
    BY <1>3, Zenon DEF Joins
  <2>2. 1 \in 1 .. n
    OBVIOUS
  <2>3. ASSUME NEW i \in 2 .. n
        PROVE  i \in 1 .. n /\ i # 1
    OBVIOUS
  <2> QED
    BY <2>1, <2>2, <2>3, Zenon
<1>5. bad = {}
  <2> SUFFICES ASSUME bad # {}
               PROVE  FALSE
    OBVIOUS
  <2>1. PICK i \in bad : \A k \in bad : i <= k
    <3>1. bad \in SUBSET Nat
      OBVIOUS
    <3> HIDE DEF bad
    <3> QED
      BY <3>1, LeastExists
  <2>2. i \in 1 .. n /\ ~Glued(i)
    BY <2>1
  <2>3. CASE i = 1
    <3>1. 1 .. 1 = {1} /\ 1 \in 1 .. n
      OBVIOUS
    <3>2. Glued(1)
      BY <1>4, <3>1
    <3> QED
      BY <2>2, <2>3, <3>2
  <2>4. CASE i # 1
    <3>1. i - 1 \in 1 .. n /\ i \in 2 .. n /\ i - 1 \notin bad
      <4> HIDE DEF bad
      <4> QED
        BY <2>1, <2>2, <2>4
    <3>2. Glued(i - 1)
      BY <3>1
    <3>3. F[i] = F[i - 1] \o pieces[i] /\ pieces[i] \in Seq(Item) /\ InOrder(pieces[i])
      BY <1>4, <3>1
    <3>4. \A x \in ToSet(F[i - 1]), y \in ToSet(pieces[i]) : x.num < y.num
      <4> SUFFICES ASSUME NEW x \in ToSet(F[i - 1]), NEW y \in ToSet(pieces[i])
                   PROVE  x.num < y.num
        OBVIOUS
      <4>1. PICK k \in 1 .. i - 1 : x \in ToSet(pieces[k])
        BY <3>2
      <4>2. k \in 1 .. n /\ k < i
        BY <3>1
      <4> QED
        BY <2>2, <4>1, <4>2
    <3>5. F[i] \in Seq(Item) /\ InOrder(F[i])
      <4>1. F[i - 1] \in Seq(Item) /\ InOrder(F[i - 1])
        BY <3>2
      <4>2. F[i - 1] \o pieces[i] \in Seq(Item)
        BY <3>3, <4>1
      <4>3. InOrder(F[i - 1] \o pieces[i])
        BY <3>3, <3>4, <4>1, OrderOf
      <4> QED
        BY <3>3, <4>2, <4>3
    <3>6. ToSet(F[i]) = ToSet(F[i - 1]) \cup ToSet(pieces[i])
      <4>1. F[i - 1] \in Seq(Item)
        BY <3>2
      <4> QED
        BY <3>3, <4>1, JoinedItems
    <3>7. 1 .. i = (1 .. i - 1) \cup {i}
      BY <2>2
    <3>8. \A x : x \in ToSet(F[i]) <=> \E k \in 1 .. i : x \in ToSet(pieces[k])
      BY <3>2, <3>6, <3>7, Zenon
    <3> QED
      BY <2>2, <3>5, <3>8
  <2> QED
    BY <2>3, <2>4
<1>6. Glued(n)
  <2>1. n \in 1 .. n
    OBVIOUS
  <2> HIDE DEF Glued
  <2> QED
    BY <1>5, <2>1
<1> QED
  BY <1>2, <1>6

\* What a replay writes: the new table at the place of its first packet, and
\* the packets that are neither dropped nor of the table that it replaces.
Renewed(p, drops) == [p EXCEPT !.class = "table", !.drops = drops]
LeftOut(held, k, first, pid, drops) == (k >= first /\ held[k].pid = pid) \/ held[k].pid \in drops
Pieces(held, first, pid, drops) ==
    [k \in DOMAIN held |->
        (IF k = first THEN <<Renewed(held[k], drops)>> ELSE <<>>)
        \o (IF LeftOut(held, k, first, pid, drops) THEN <<>> ELSE <<held[k]>>)]

Replayed(held, first, pid, drops) == FlattenSeq(Pieces(held, first, pid, drops))

LEMMA ReplayIs ==
    ASSUME FilterAssumption, NEW held \in Seq(Item), InOrder(held), NEW first \in 1 .. Len(held),
           NEW drops \in SUBSET Elementary
    PROVE  LET r == Replayed(held, first, held[first].pid, drops)
           IN /\ r \in Seq(Item) /\ InOrder(r)
              /\ \A x : x \in ToSet(r) <=>
                     \/ x = Renewed(held[first], drops)
                     \/ \E k \in 1 .. Len(held) :
                           x = held[k] /\ ~LeftOut(held, k, first, held[first].pid, drops)
<1> DEFINE pid == held[first].pid
           P == Pieces(held, first, pid, drops)
           n == Len(held)
<1>1. n \in Nat /\ n > 0 /\ DOMAIN held = 1 .. n
  OBVIOUS
<1>2. ASSUME NEW k \in 1 .. n
      PROVE  held[k] \in Item /\ Renewed(held[k], drops) \in Item
             /\ Renewed(held[k], drops).num = held[k].num
  <2>1. held[k] \in Item
    OBVIOUS
  <2>2. ASSUME NEW p \in Item
        PROVE  Renewed(p, drops) \in Item /\ Renewed(p, drops).num = p.num
    BY DEF Item, Renewed
  <2> QED
    BY <2>1, <2>2
<1>3. ASSUME NEW k \in 1 .. n
      PROVE  P[k] = IF k = first THEN <<Renewed(held[k], drops)>>
                    ELSE IF LeftOut(held, k, first, pid, drops) THEN <<>> ELSE <<held[k]>>
  <2>1. P[k] = (IF k = first THEN <<Renewed(held[k], drops)>> ELSE <<>>)
               \o (IF LeftOut(held, k, first, pid, drops) THEN <<>> ELSE <<held[k]>>)
    BY <1>1 DEF Pieces
  <2>2. k = first => LeftOut(held, k, first, pid, drops)
    BY <1>1 DEF LeftOut
  <2>3. <<Renewed(held[k], drops)>> \in Seq(Item) /\ <<held[k]>> \in Seq(Item)
    BY <1>2
  <2> QED
    BY <2>1, <2>2, <2>3, ItemsOf, <1>2
<1> HIDE DEF pid
<1>4. P \in [1 .. n -> Seq(Item)]
  <2>1. P = [k \in 1 .. n |-> P[k]]
    BY <1>1 DEF Pieces
  <2>2. ASSUME NEW k \in 1 .. n
        PROVE  P[k] \in Seq(Item)
    <3>1. <<Renewed(held[k], drops)>> \in Seq(Item) /\ <<held[k]>> \in Seq(Item)
          /\ <<>> \in Seq(Item)
      BY <1>2
    <3> HIDE DEF P
    <3> QED
      BY <1>3, <3>1, Zenon
  <2> HIDE DEF P
  <2> QED
    BY <2>1, <2>2
<1> HIDE DEF P
<1>5. ASSUME NEW k \in 1 .. n
      PROVE  /\ \A x \in ToSet(P[k]) : x.num = held[k].num
             /\ InOrder(P[k])
             /\ \A x : x \in ToSet(P[k]) <=>
                    \/ k = first /\ x = Renewed(held[k], drops)
                    \/ x = held[k] /\ ~LeftOut(held, k, first, pid, drops)
  <2>1. k = first => LeftOut(held, k, first, pid, drops)
    BY <1>1 DEF LeftOut, pid
  <2>2. P[k] = <<>> \/ P[k] = <<held[k]>> \/ P[k] = <<Renewed(held[k], drops)>>
    BY <1>3
  <2>3. InOrder(P[k])
    BY <2>2 DEF InOrder
  <2>4. ToSet(<<>>) = {} /\ ToSet(<<held[k]>>) = {held[k]}
        /\ ToSet(<<Renewed(held[k], drops)>>) = {Renewed(held[k], drops)}
    BY DEF ToSet
  <2> QED
    BY <1>2, <1>3, <2>1, <2>3, <2>4
<1>6. \A k, l \in 1 .. n : k < l =>
          \A x \in ToSet(P[k]), y \in ToSet(P[l]) : x.num < y.num
  <2>1. \A k, l \in 1 .. n : k < l => held[k].num < held[l].num
    BY <1>1 DEF InOrder
  <2> QED
    BY <1>5, <2>1
<1>7. /\ FlattenSeq(P) \in Seq(Item) /\ InOrder(FlattenSeq(P))
      /\ \A x : x \in ToSet(FlattenSeq(P)) <=> \E k \in 1 .. n : x \in ToSet(P[k])
  <2>1. \A k \in 1 .. n : InOrder(P[k])
    BY <1>5
  <2> QED
    BY <1>1, <1>4, <1>6, <2>1, FlattenIs
<1>8. Replayed(held, first, pid, drops) = FlattenSeq(P)
  BY DEF Replayed, P
<1>9. ASSUME NEW x
      PROVE  (\E k \in 1 .. n : x \in ToSet(P[k])) <=>
                 \/ x = Renewed(held[first], drops)
                 \/ \E k \in 1 .. n : x = held[k] /\ ~LeftOut(held, k, first, pid, drops)
  BY <1>5, Zenon
<1> QED
  BY <1>7, <1>8, <1>9 DEF pid
-----------------------------------------------------------------------------
\* An item's fields, and what a packet adds to what arrived.
LEMMA ItemIs ==
    ASSUME FilterAssumption, NEW x \in Item
    PROVE  /\ x.num \in Nat /\ x.num >= 1 /\ x.num <= MaxPackets + MaxKept
           /\ x.connection \in 1 .. MaxConnections /\ x.pid \in PIDs
           /\ x.class \in {"bare", "payload", "again", "tei", "table"}
           /\ x.drops \subseteq Elementary
BY DEF Item, FilterAssumption

LEMMA ArrivedIs ==
    ASSUME FilterAssumption, NEW arrived \in Seq(Item), ArrivedFits(arrived)
    PROVE  /\ \A x \in ToSet(arrived) :
                 x \in Item /\ x.num \in 1 .. Len(arrived) /\ x.class # "table"
                 /\ x.connection <= connection
           /\ \A x, y \in ToSet(arrived) :
                 (x.num = y.num => x = y) /\ (x.num <= y.num => x.connection <= y.connection)
<1>1. ASSUME NEW x \in ToSet(arrived)
      PROVE  x.num \in 1 .. Len(arrived) /\ x = arrived[x.num]
  <2>1. PICK i \in DOMAIN arrived : x = arrived[i]
    BY DEF ToSet
  <2> QED
    BY <2>1 DEF ArrivedFits
<1>2. ASSUME NEW x \in ToSet(arrived)
      PROVE  x \in Item /\ x.class # "table" /\ x.connection <= connection
  BY <1>1 DEF ArrivedFits
<1>3. ASSUME NEW x \in ToSet(arrived), NEW y \in ToSet(arrived)
      PROVE  (x.num = y.num => x = y) /\ (x.num <= y.num => x.connection <= y.connection)
  BY <1>1 DEF ArrivedFits
<1> QED
  BY <1>1, <1>2, <1>3

IsNext(p) ==
    p \in Item /\ p.num = Len(input) + 1 /\ p.connection = connection /\ p.class # "table"

LEMMA NextArrives ==
    ASSUME FilterAssumption, input \in Seq(Item), ArrivedFits(input),
           connection \in 1 .. MaxConnections, NEW p, IsNext(p)
    PROVE  /\ Append(input, p) \in Seq(Item) /\ Len(Append(input, p)) = Len(input) + 1
           /\ ToSet(Append(input, p)) = ToSet(input) \cup {p} /\ p \notin ToSet(input)
           /\ ArrivedFits(Append(input, p))
<1> DEFINE b == Append(input, p)
<1>1. p \in Item /\ p.num = Len(input) + 1 /\ p.connection = connection /\ p.class # "table"
  BY DEF IsNext
<1>2. b \in Seq(Item) /\ Len(b) = Len(input) + 1 /\ ToSet(b) = ToSet(input) \cup {p}
  <2>1. Append(input, p) \in Seq(Item) /\ ToSet(Append(input, p)) = ToSet(input) \cup {p}
    BY <1>1, ItemsOf
  <2>2. Len(Append(input, p)) = Len(input) + 1
    OBVIOUS
  <2> QED
    BY <2>1, <2>2
<1>3. p \notin ToSet(input)
  BY <1>1, ArrivedIs
<1>4. /\ DOMAIN b = 1 .. Len(input) + 1 /\ b[Len(input) + 1] = p
      /\ \A i \in 1 .. Len(input) : b[i] = input[i]
  BY <1>1
<1>5. \A i \in 1 .. Len(input) :
         /\ input[i].num = i /\ input[i].class # "table"
         /\ input[i].connection <= connection
         /\ \A j \in 1 .. Len(input) : i <= j => input[i].connection <= input[j].connection
  BY DEF ArrivedFits
<1> HIDE DEF b
<1>6. ArrivedFits(b)
  <2>1. ASSUME NEW i \in 1 .. Len(input) + 1
        PROVE  b[i].num = i /\ b[i].class # "table" /\ b[i].connection <= connection
    BY <1>1, <1>4, <1>5
  <2>2. ASSUME NEW i \in 1 .. Len(input) + 1, NEW j \in 1 .. Len(input) + 1, i <= j
        PROVE  b[i].connection <= b[j].connection
    BY <1>1, <1>4, <1>5, <2>2
  <2> QED
    BY <1>4, <2>1, <2>2 DEF ArrivedFits
<1> QED
  BY <1>2, <1>3, <1>6 DEF b

\* What a filter holds comes after what it has written.
LEMMA HeldIs ==
    ASSUME FilterAssumption, NEW f \in Filters, InOrder(f.file \o Held(f)),
           f.discovery = <<>> \/ f.pending = <<>>
    PROVE  /\ f.file \in Seq(Item) /\ Held(f) \in Seq(Item)
           /\ InOrder(f.file) /\ InOrder(Held(f))
           /\ \A x \in ToSet(f.file), y \in ToSet(Held(f)) : x.num < y.num
           /\ Held(f) = IF f.pending = <<>> THEN f.discovery ELSE f.pending
           /\ Held(f) # <<>> => /\ Held(f)[1] \in ToSet(Held(f))
                                /\ \A x \in ToSet(Held(f)) : Held(f)[1].num <= x.num
<1>1. f.file \in Seq(Item) /\ f.discovery \in Seq(Item) /\ f.pending \in Seq(Item)
  BY DEF Filters
<1>2. Held(f) = IF f.pending = <<>> THEN f.discovery ELSE f.pending
  <2>1. f.discovery \o <<>> = f.discovery /\ <<>> \o f.pending = f.pending
    BY <1>1
  <2> QED
    BY <2>1 DEF Held
<1>3. Held(f) \in Seq(Item)
  BY <1>1, <1>2
<1>4. /\ InOrder(f.file) /\ InOrder(Held(f))
      /\ \A x \in ToSet(f.file), y \in ToSet(Held(f)) : x.num < y.num
  BY <1>1, <1>3, OrderOf
<1>5. Held(f) # <<>> => /\ Held(f)[1] \in ToSet(Held(f))
                        /\ \A x \in ToSet(Held(f)) : Held(f)[1].num <= x.num
  BY <1>3, <1>4, NumbersTell, ItemsOf DEF ToSet
<1> QED
  BY <1>1, <1>2, <1>3, <1>4, <1>5

\* Where nothing but packets is written the tables stay.
LEMMA TablesStay ==
    ASSUME NEW f, NEW g, NEW X, ToSet(g.file) = ToSet(f.file) \cup X, \A x \in X : x.class # "table"
    PROVE  \A q : /\ OwnTables(g, q) = OwnTables(f, q)
                  /\ \A t : IsTableOf(g, t, q) <=> IsTableOf(f, t, q)
<1>1. ASSUME NEW q
      PROVE  OwnTables(g, q) = OwnTables(f, q)
  BY DEF OwnTables
<1> QED
  BY <1>1 DEF IsTableOf

\* An open filter, with all that has arrived for it.
Good(g, arrived, sw) ==
    /\ g \in Filters /\ Len(g.discovery) <= MaxHeld /\ Len(g.pending) <= MaxHeld
    /\ arrived \in Seq(Item) /\ sw \in Switches
    /\ Faithful(g, arrived, sw) /\ Working(g, arrived)

LEMMA OpenIs ==
    ASSUME FilterAssumption, FilterIInv, stage = "open"
    PROVE  /\ Good(filter, input, switch) /\ required \in BOOLEAN
           /\ connection \in 1 .. MaxConnections /\ input \in Seq(Item) /\ filter \in Filters
           /\ filter.raw \in BOOLEAN /\ filter.initialized \in BOOLEAN
           /\ InOrder(filter.file \o Held(filter)) /\ Replaced(filter, switch)
           /\ ArrivedFits(input) /\ FileFits(filter, input) /\ HeldFits(filter, input)
           /\ SwitchFits(filter, input, switch) /\ LengthFits(filter, input, switch)
           /\ SelectedBy(filter, input, switch) /\ AllKept(filter, input, switch)
           /\ (required /\ ~filter.raw => HoldsAll(filter, input) /\ TableFits(filter))
           /\ filter.discovery = <<>> \/ filter.pending = <<>>
           /\ ~filter.raw => switch = Never
<1>1. Good(filter, input, switch)
  BY DEF FilterIInv, FilterTypeOK, Good
<1>2. /\ InOrder(filter.file \o Held(filter)) /\ Replaced(filter, switch)
      /\ ArrivedFits(input) /\ FileFits(filter, input) /\ HeldFits(filter, input)
      /\ SwitchFits(filter, input, switch) /\ LengthFits(filter, input, switch)
      /\ SelectedBy(filter, input, switch) /\ AllKept(filter, input, switch)
      /\ (required /\ ~filter.raw => HoldsAll(filter, input) /\ TableFits(filter))
  BY <1>1 DEF Good, Faithful, Written, Working
<1>3. /\ required \in BOOLEAN /\ connection \in 1 .. MaxConnections
      /\ input \in Seq(Item) /\ filter \in Filters
  BY DEF FilterIInv, FilterTypeOK
<1>4. filter.raw \in BOOLEAN /\ filter.initialized \in BOOLEAN
  BY <1>3 DEF Filters
<1>5. filter.discovery = <<>> \/ filter.pending = <<>>
  BY <1>2 DEF HeldFits
<1>6. ~filter.raw => switch = Never
  BY <1>2 DEF SwitchFits
<1> QED
  BY <1>1, <1>2, <1>3, <1>4, <1>5, <1>6

\* The sets that the steps are about: what is written, held, and arrived.
LEMMA SetsAre ==
    ASSUME FilterAssumption, FilterIInv, stage = "open"
    PROVE  LET file == ToSet(filter.file)
               held == ToSet(Held(filter))
               all == ToSet(input)
           IN /\ \A x \in file : x \in Item /\ x.num <= Len(input) /\ x.connection <= connection
                                 /\ (x.class # "table" => x \in all)
              /\ \A x \in held : /\ x \in all /\ x.connection = connection /\ x.class # "tei"
                                 /\ x.class # "table" /\ x \notin file
              /\ \A x \in file, y \in held : x.num < y.num
              /\ \A x, y \in file : x.num = y.num => x = y
              /\ \A x \in all : x \in Item /\ x.num <= Len(input) /\ x.class # "table"
              /\ \A x \in Item : x.num < Never.from
<1>1. filter.file \in Seq(Item) /\ Held(filter) \in Seq(Item) /\ InOrder(filter.file)
      /\ \A x \in ToSet(filter.file), y \in ToSet(Held(filter)) : x.num < y.num
  BY OpenIs, HeldIs
<1>2. \A x \in ToSet(input) : x \in Item /\ x.num <= Len(input) /\ x.class # "table"
  BY OpenIs, ArrivedIs
<1>3. ToSet(filter.file) \subseteq Item
  BY <1>1 DEF ToSet
<1>4. ASSUME NEW x \in ToSet(filter.file)
      PROVE  x.num <= Len(input) /\ x.connection <= connection
             /\ (x.class # "table" => x \in ToSet(input))
  BY OpenIs DEF FileFits
<1>5. ASSUME NEW x \in ToSet(Held(filter))
      PROVE  x \in ToSet(input) /\ x.connection = connection /\ x.class # "tei"
  BY OpenIs DEF HeldFits
<1>6. ASSUME NEW x \in ToSet(Held(filter))
      PROVE  x.class # "table" /\ x \notin ToSet(filter.file)
  <2>1. x.num < x.num \/ x \notin ToSet(filter.file)
    BY <1>1
  <2>2. x.num \in Nat
    BY <1>2, <1>5, ItemIs
  <2> QED
    BY <1>2, <1>5, <2>1, <2>2
<1>7. \A x, y \in ToSet(filter.file) : x.num = y.num => x = y
  BY <1>1, NumbersTell
<1>8. ASSUME NEW x \in Item
      PROVE  x.num < Never.from
  BY ItemIs DEF Never, FilterAssumption
<1> QED
  BY <1>1, <1>2, <1>3, <1>4, <1>5, <1>6, <1>7, <1>8

\* The fields of a new filter, and of one that writes.
IsNew(n, raw, file) ==
    /\ n \in Filters /\ n.raw = raw /\ n.file = file
    /\ n.initialized = FALSE /\ n.discovery = <<>> /\ n.pending = <<>>
    /\ n.pmt = "fresh" /\ n.firstPMT = 0

LEMMA NewIs ==
    ASSUME FilterAssumption, NEW raw \in BOOLEAN, NEW file \in Seq(Item)
    PROVE  IsNew(NewFilter(raw, file), raw, file)
BY DEF IsNew, NewFilter, Filters, Collector, FilterAssumption

HasWritten(n, f, x) ==
    /\ n \in Filters /\ n.file = f.file \o x
    /\ n.raw = f.raw /\ n.initialized = f.initialized
    /\ n.discovery = f.discovery /\ n.pending = f.pending
    /\ n.pmt = f.pmt /\ n.firstPMT = f.firstPMT
    /\ n.dropped = f.dropped /\ n.pmtPID = f.pmtPID /\ n.pat = f.pat

LEMMA WriteIs ==
    ASSUME NEW f \in Filters, NEW x, f.file \o x \in Seq(Item)
    PROVE  HasWritten(Write(f, x), f, x)
BY DEF HasWritten, Write, Filters

\* The fallback writes what was held, and keeps the packet that led to it or
\* leaves out a control packet with the error indicator.
Fell(g, x) ==
    /\ required /\ ~filter.raw
    /\ g \in Filters /\ g.raw /\ g.file = filter.file \o Held(filter) \o x
    /\ ~g.initialized /\ g.discovery = <<>> /\ g.pending = <<>>
    /\ g.pmt = "fresh" /\ g.firstPMT = 0

LEMMA FellKeeps ==
    ASSUME FilterAssumption, FilterIInv, stage = "open", NEW g, NEW arrived, NEW x, Fell(g, x),
           \/ arrived = input /\ x = <<>>
           \/ \E p : /\ IsNext(p) /\ Len(input) < MaxPackets /\ arrived = Append(input, p)
                     /\ x = <<p>> \/ (x = <<>> /\ p.class = "tei")
    PROVE  Good(g, arrived, Switched(filter, g, Len(arrived)))
<1> DEFINE sw == Switched(filter, g, Len(arrived))
           file == ToSet(filter.file)
           held == ToSet(Held(filter))
           all == ToSet(input)
           H == Held(filter)
<1>1. required /\ ~filter.raw /\ g \in Filters
  BY DEF Fell
<1>2. /\ g.raw /\ ~g.initialized /\ g.discovery = <<>> /\ g.pending = <<>> /\ g.pmt = "fresh"
      /\ g.firstPMT = 0 /\ g.file = filter.file \o H \o x /\ Held(g) = <<>>
  <2>1. <<>> \o <<>> = <<>>
    OBVIOUS
  <2> QED
    BY <2>1 DEF Fell, Held
<1>3. /\ filter.file \in Seq(Item) /\ H \in Seq(Item) /\ InOrder(filter.file) /\ InOrder(H)
      /\ \A a \in file, b \in held : a.num < b.num
      /\ H # <<>> => H[1] \in held /\ \A a \in held : H[1].num <= a.num
  BY OpenIs, HeldIs
<1>4. Len(input) \in Nat /\ Len(input) <= MaxPackets /\ input \in Seq(Item) /\ ArrivedFits(input)
      /\ switch = Never
  <2>1. Len(input) <= MaxPackets
    BY <1>1, OpenIs DEF LengthFits
  <2> QED
    BY <1>1, <2>1, OpenIs
<1> DEFINE Came ==
      /\ x \in Seq(Item) /\ arrived \in Seq(Item) /\ ArrivedFits(arrived) /\ InOrder(x)
      /\ Len(input) <= Len(arrived) /\ Len(arrived) <= MaxPackets
      /\ all \subseteq ToSet(arrived)
      /\ \A q \in ToSet(arrived) \ all :
            q.num = Len(input) + 1 /\ (q \in ToSet(x) \/ q.class = "tei")
      /\ ToSet(x) \subseteq ToSet(arrived) \ all
<1>5. Came
  <2>1. CASE arrived = input /\ x = <<>>
    BY <1>4, <2>1 DEF InOrder, ToSet
  <2>2. ASSUME NEW p, IsNext(p), Len(input) < MaxPackets, arrived = Append(input, p),
               x = <<p>> \/ (x = <<>> /\ p.class = "tei")
        PROVE  Came
    <3>1. p \in Item /\ p.num = Len(input) + 1
      BY <2>2 DEF IsNext
    <3>2. /\ arrived \in Seq(Item) /\ Len(arrived) = Len(input) + 1
          /\ ToSet(arrived) = all \cup {p} /\ p \notin all /\ ArrivedFits(arrived)
      BY <1>4, <2>2, OpenIs, NextArrives
    <3>3. x \in Seq(Item) /\ InOrder(x) /\ (ToSet(x) = {p} \/ (ToSet(x) = {} /\ p.class = "tei"))
      <4>1. /\ <<p>> \in Seq(Item) /\ InOrder(<<p>>) /\ ToSet(<<p>>) = {p}
            /\ <<>> \in Seq(Item) /\ InOrder(<<>>) /\ ToSet(<<>>) = {}
        BY <3>1 DEF InOrder, ToSet
      <4> QED
        BY <2>2, <4>1
    <3> QED
      <4>1. Len(input) <= Len(arrived) /\ Len(arrived) <= MaxPackets
        BY <1>4, <2>2, <3>2 DEF FilterAssumption
      <4> HIDE DEF all
      <4>2. \A q \in ToSet(arrived) \ all :
               q.num = Len(input) + 1 /\ (q \in ToSet(x) \/ q.class = "tei")
        BY <3>1, <3>2, <3>3
      <4>3. all \subseteq ToSet(arrived) /\ ToSet(x) \subseteq ToSet(arrived) \ all
        BY <3>2, <3>3
      <4> QED
        BY <3>2, <3>3, <4>1, <4>2, <4>3
  <2> QED
    BY <2>1, <2>2
<1>6. /\ \A a \in file : a \in Item /\ a.num <= Len(input) /\ a.connection <= connection
                         /\ (a.class # "table" => a \in all)
      /\ \A a \in held : /\ a \in all /\ a.connection = connection /\ a.class # "tei"
                         /\ a.class # "table" /\ a \notin file
      /\ \A a \in all : a \in Item /\ a.num <= Len(input) /\ a.class # "table"
      /\ \A a \in Item : a.num < Never.from
  BY SetsAre
<1>7. /\ \A a \in ToSet(arrived) :
            a \in Item /\ a.num \in 1 .. Len(arrived) /\ a.class # "table" /\ a.connection <= connection
      /\ \A a, b \in ToSet(arrived) :
            (a.num = b.num => a = b) /\ (a.num <= b.num => a.connection <= b.connection)
  BY <1>5, ArrivedIs
<1>8. sw = [from |-> IF H = <<>> THEN Len(input) + 1 ELSE H[1].num, cause |-> Len(arrived)]
  BY <1>1, <1>2 DEF Switched
<1>9. /\ sw.cause = Len(arrived) /\ sw.from \in 1 .. Len(input) + 1
      /\ \A a \in file : a.num < sw.from
      /\ \A a \in held : sw.from <= a.num
      /\ \A a \in ToSet(arrived) \ all : sw.from <= a.num
      /\ (H = <<>> => sw.from = Len(input) + 1) /\ (H # <<>> => sw.from = H[1].num)
  <2>1. sw.cause = Len(arrived) /\ sw.from = IF H = <<>> THEN Len(input) + 1 ELSE H[1].num
    BY <1>8
  <2>2. \A a \in file : a.num \in Nat
    BY <1>6, ItemIs
  <2>3. H # <<>> => H[1] \in all
    BY <1>3, <1>6
  <2>4. \A a \in all : a.num \in 1 .. Len(input)
    BY <1>4, <1>6, ItemIs
  <2> HIDE DEF sw, H, file, held, all
  <2>5. sw.from \in 1 .. Len(input) + 1
    BY <1>4, <2>1, <2>3, <2>4
  <2>6. \A a \in file : a.num < sw.from
    BY <1>3, <1>4, <1>6, <2>1, <2>2
  <2>7. \A a \in held : sw.from <= a.num
    <3>1. H = <<>> => held = {}
      BY DEF held, H, ToSet
    <3> QED
      BY <1>3, <2>1, <3>1
  <2>8. \A a \in ToSet(arrived) \ all : sw.from <= a.num
    BY <1>4, <1>5, <2>5
  <2> QED
    BY <2>1, <2>5, <2>6, <2>7, <2>8
<1> HIDE DEF sw
<1>10. sw \in Switches
  <2>1. sw = [from |-> sw.from, cause |-> sw.cause]
    BY <1>8 DEF sw
  <2>2. sw.from \in 1 .. MaxPackets + MaxKept + 1 /\ sw.cause \in 0 .. MaxPackets
    BY <1>4, <1>5, <1>9 DEF FilterAssumption
  <2> QED
    BY <2>1, <2>2 DEF Switches
<1>11. /\ g.file \in Seq(Item) /\ ToSet(g.file) = file \cup held \cup ToSet(x)
       /\ InOrder(g.file \o Held(g))
  <2>1. filter.file \o H \in Seq(Item) /\ ToSet(filter.file \o H) = file \cup held
        /\ InOrder(filter.file \o H)
    BY <1>3, JoinedItems, OpenIs
  <2>2. \A a \in file \cup held, b \in ToSet(x) : a.num < b.num
    <3>1. \A a \in file \cup held : a.num \in Nat /\ a.num <= Len(input)
      BY <1>6, ItemIs
    <3> QED
      BY <1>4, <1>5, <3>1
  <2>3. (filter.file \o H) \o x \in Seq(Item) /\ InOrder((filter.file \o H) \o x)
        /\ ToSet((filter.file \o H) \o x) = file \cup held \cup ToSet(x)
    <3> DEFINE y == filter.file \o H
    <3>1. y \in Seq(Item) /\ x \in Seq(Item) /\ InOrder(y) /\ InOrder(x)
          /\ ToSet(y) = file \cup held /\ \A a \in ToSet(y), b \in ToSet(x) : a.num < b.num
      BY <1>5, <2>1, <2>2
    <3> HIDE DEF y
    <3>2. y \o x \in Seq(Item) /\ InOrder(y \o x) /\ ToSet(y \o x) = ToSet(y) \cup ToSet(x)
      BY <3>1, JoinedItems, OrderOf
    <3> QED
      BY <3>1, <3>2 DEF y
  <2>4. g.file \o <<>> = g.file
    BY <1>2, <2>3
  <2> QED
    BY <1>2, <2>3, <2>4
<1>12. g \in Filters
  BY <1>1
<1>13. \A q : /\ OwnTables(g, q) = OwnTables(filter, q)
              /\ \A t : IsTableOf(g, t, q) <=> IsTableOf(filter, t, q)
  <2>1. \A a \in held \cup ToSet(x) : a.class # "table"
    BY <1>5, <1>6, <1>7
  <2>2. ToSet(g.file) = file \cup (held \cup ToSet(x))
    BY <1>11
  <2> QED
    BY <2>1, <2>2, TablesStay
<1> HIDE DEF file, held, all, H
<1>14. ASSUME NEW q \in ToSet(arrived), Selecting(sw, q)
       PROVE  /\ q \in all /\ q \notin held /\ q \notin ToSet(x)
              /\ Selecting(switch, q) /\ Decided(filter, q)
              /\ Kept(g, q) <=> Kept(filter, q)
  <2>1. q.num < sw.from /\ q.num \in Nat /\ q \in Item
    BY <1>7, <1>14 DEF Selecting
  <2>2. q \in all /\ q \notin held /\ q \notin ToSet(x)
    BY <1>5, <1>9, <2>1
  <2>3. Selecting(switch, q)
    BY <1>1, <1>4, <1>6, <2>1 DEF Selecting
  <2> QED
    BY <1>11, <2>2, <2>3 DEF Kept, Decided, file, held
<1>15. Replaced(g, sw)
  <2> SUFFICES ASSUME NEW q \in ToSet(g.file), q.class = "payload", Selecting(sw, q),
                      NEW t \in OwnTables(g, q), q.pid = t.pid
               PROVE  q.num < t.num
    BY DEF Replaced
  <2>1. q \in file
    <3>1. q.num < sw.from
      BY DEF Selecting
    <3>2. q \in held \/ q \in ToSet(x) => q.num \in Nat /\ sw.from <= q.num
      BY <1>5, <1>6, <1>7, <1>9
    <3> QED
      BY <1>9, <1>11, <3>1, <3>2
  <2>2. Selecting(switch, q)
    BY <1>1, <1>4, <1>6, <2>1 DEF Selecting
  <2> QED
    BY <1>13, <2>1, <2>2, OpenIs DEF Replaced, file
<1>16. SelectedBy(g, arrived, sw)
  <2> SUFFICES ASSUME NEW q \in ToSet(arrived), Decided(g, q), Selecting(sw, q), q.class # "tei"
               PROVE  \E t \in OwnTables(g, q) :
                         IsTableOf(g, t, q) /\ (q.pid # t.pid => (Kept(g, q) <=> q.pid \notin t.drops))
    BY DEF SelectedBy
  <2>1. \E t \in OwnTables(filter, q) : IsTableOf(filter, t, q)
           /\ (q.pid # t.pid => (Kept(filter, q) <=> q.pid \notin t.drops))
    BY <1>14, OpenIs DEF SelectedBy, all
  <2> QED
    BY <1>13, <1>14, <2>1
<1>17. AllKept(g, arrived, sw)
  <2> SUFFICES ASSUME NEW q \in ToSet(arrived), ~Selecting(sw, q), q.num <= sw.cause =>
                      q.class # "tei" /\ ~(q.class = "again" /\ q.pid \in Tables)
               PROVE  Kept(g, q)
    BY <1>1 DEF AllKept
  <2>1. q.num >= sw.from /\ q.class # "tei" /\ ~(q.class = "again" /\ q.pid \in Tables)
    BY <1>1, <1>7, <1>9 DEF Selecting
  <2>2. CASE q \notin all
    BY <1>5, <1>11, <2>1, <2>2 DEF Kept
  <2>3. CASE q \in all
    <3>1. H # <<>> /\ H[1].num <= q.num /\ H[1] \in all /\ H[1].connection = connection
      <4>1. q.num \in Nat /\ q.num <= Len(input)
        BY <1>6, <2>3, ItemIs
      <4>2. H # <<>>
        BY <1>4, <1>9, <2>1, <4>1
      <4> QED
        BY <1>3, <1>6, <1>9, <2>1, <4>2
    <3>2. q.connection = connection
      <4>1. H[1] \in ToSet(arrived) /\ q \in Item
        BY <1>5, <1>7, <3>1
      <4>2. connection <= q.connection /\ q.connection <= connection
        BY <1>7, <3>1, <4>1
      <4>3. connection \in Nat /\ q.connection \in Nat
        BY <4>1, ItemIs, OpenIs DEF FilterAssumption
      <4> QED
        BY <4>2, <4>3
    <3>3. q \in held
      <4>1. HoldsAll(filter, input) /\ HeldFits(filter, input)
        BY <1>1, OpenIs
      <4>2. H = IF filter.pending = <<>> THEN filter.discovery ELSE filter.pending
        BY OpenIs, HeldIs DEF H
      <4>3. CASE ~filter.initialized
        BY <2>1, <2>3, <3>1, <3>2, <4>1, <4>2, <4>3 DEF HoldsAll, HeldFits, all, held, H
      <4>4. CASE filter.initialized
        <5>1. filter.pending # <<>> /\ H = filter.pending
          BY <3>1, <4>1, <4>2, <4>4 DEF HeldFits
        <5>2. filter.pmtPID \in Tables
          BY <1>1, <4>4, OpenIs DEF TableFits, FileFits
        <5> QED
          BY <2>1, <2>3, <3>1, <4>1, <5>1, <5>2 DEF HoldsAll, all, held, H
      <4> QED
        BY <4>3, <4>4
    <3> QED
      BY <1>11, <3>3 DEF Kept
  <2> QED
    BY <2>2, <2>3
<1>18. FileFits(g, arrived)
  <2>1. ASSUME NEW a \in ToSet(g.file)
        PROVE  /\ a.num <= Len(arrived) /\ a.connection <= connection
               /\ IF a.class = "table" THEN a.pid \in Tables ELSE a \in ToSet(arrived)
    <3>1. CASE a \in file
      <4>1. a.num \in Nat /\ a.num <= Len(arrived)
        BY <1>4, <1>5, <1>6, <3>1, ItemIs
      <4> QED
        BY <1>5, <1>6, <3>1, <4>1, OpenIs DEF FileFits, file
    <3>2. CASE a \in held \/ a \in ToSet(x)
      BY <1>5, <1>6, <1>7, <3>2
    <3> QED
      BY <1>11, <3>1, <3>2
  <2>2. ASSUME NEW t \in ToSet(g.file), NEW u \in ToSet(g.file), t.class = "table",
               u.class = "table", t.connection = u.connection
        PROVE  t.pid = u.pid
    <3>1. t \in file /\ u \in file
      BY <1>5, <1>6, <1>7, <1>11, <2>2
    <3> QED
      BY <2>2, <3>1, OpenIs DEF FileFits, file
  <2> QED
    BY <2>1, <2>2 DEF FileFits
<1>19. HeldFits(g, arrived) /\ SwitchFits(g, arrived, sw) /\ LengthFits(g, arrived, sw)
  <2>1. HeldFits(g, arrived)
    BY <1>2 DEF HeldFits, ToSet
  <2>2. SwitchFits(g, arrived, sw)
    BY <1>1, <1>2, <1>4, <1>5, <1>9 DEF SwitchFits
  <2>3. LengthFits(g, arrived, sw)
    BY <1>1, <1>2, <1>5, <1>9 DEF LengthFits, FilterAssumption
  <2> QED
    BY <2>1, <2>2, <2>3
<1>20. Len(g.discovery) <= MaxHeld /\ Len(g.pending) <= MaxHeld
  BY <1>2 DEF FilterAssumption
<1>21. Working(g, arrived)
  BY <1>2 DEF Working
<1> QED
  BY <1>5, <1>10, <1>11, <1>12, <1>15, <1>16, <1>17, <1>18, <1>19, <1>20, <1>21
     DEF Good, Faithful, Written, sw
-----------------------------------------------------------------------------
\* A packet that is written, held or left out without a new table.
Room == Len(input) < IF ~required THEN MaxKept
                     ELSE IF filter.raw THEN switch.cause + MaxKept ELSE MaxPackets

LeavesOut(p) ==
    IF filter.initialized
    THEN \/ filter.pending = <<>> /\ p.pid \in filter.dropped
         \/ p.pid = filter.pmtPID /\ p.class = "again"
    ELSE p.class = "tei"

Passes(p) ==
    /\ filter.initialized /\ p.pid \notin filter.dropped
    /\ p.pid = filter.pmtPID => p.class # "payload"

Grows(g, p, x, y) ==
    /\ g \in Filters /\ g.raw = filter.raw
    /\ g.file = filter.file \o x /\ Held(g) = Held(filter) \o y
    /\ \/ x = <<p>> /\ y = <<>> /\ Held(filter) = <<>>
       \/ x = <<>> /\ y = <<p>> /\ p.class # "tei"
       \/ x = <<>> /\ y = <<>>
    /\ IF required /\ ~filter.raw
       THEN /\ x = <<p>> => Passes(p)
            /\ (x = <<>> /\ y = <<>>) => LeavesOut(p)
       ELSE x = <<p>>

LEMMA RoomIs ==
    ASSUME FilterAssumption, FilterIInv, stage = "open", Room
    PROVE  /\ Len(input) + 1 <= MaxPackets + MaxKept
           /\ required /\ ~filter.raw => Len(input) < MaxPackets
<1>1. switch.cause \in 0 .. MaxPackets
  BY DEF FilterIInv, FilterTypeOK, Switches
<1>2. Len(input) \in Nat
  BY OpenIs
<1> QED
  BY <1>1, <1>2, OpenIs DEF Room, FilterAssumption

\* The table of an initialized filter is the one of the next packet.
LEMMA TableIs ==
    ASSUME FilterAssumption, FilterIInv, stage = "open", required, ~filter.raw,
           filter.initialized
    PROVE  /\ filter.pmtPID \in Tables
           /\ \E t \in ToSet(filter.file) :
                 /\ t.class = "table" /\ t.connection = connection /\ t.num <= Len(input)
                 /\ t.pid = filter.pmtPID /\ t.drops = filter.dropped
                 /\ \A u \in ToSet(filter.file) :
                       u.class = "table" /\ u.connection = connection =>
                           u.num <= t.num /\ u.pid = filter.pmtPID
<1>1. TableFits(filter) /\ FileFits(filter, input)
  BY OpenIs
<1>2. PICK t \in ToSet(filter.file) :
            /\ t.class = "table" /\ t.connection = connection
            /\ t.pid = filter.pmtPID /\ t.drops = filter.dropped
            /\ \A u \in ToSet(filter.file) :
                  u.class = "table" /\ u.connection = connection => u.num <= t.num
  BY <1>1 DEF TableFits
<1>3. t.num <= Len(input) /\ t.pid \in Tables
  BY <1>1, <1>2 DEF FileFits
<1>4. ASSUME NEW u \in ToSet(filter.file), u.class = "table", u.connection = connection
      PROVE  u.pid = filter.pmtPID
  BY <1>1, <1>2, <1>4 DEF FileFits
<1> QED
  BY <1>2, <1>3, <1>4

LEMMA GrowsFits ==
    ASSUME FilterAssumption, FilterIInv, stage = "open", Room,
           NEW g, NEW p, IsNext(p), NEW x, NEW y, Grows(g, p, x, y)
    PROVE  /\ InOrder(g.file \o Held(g))
           /\ Replaced(g, switch) /\ FileFits(g, Append(input, p))
           /\ SwitchFits(g, Append(input, p), switch) /\ LengthFits(g, Append(input, p), switch)
           /\ SelectedBy(g, Append(input, p), switch) /\ AllKept(g, Append(input, p), switch)
<1> DEFINE file == ToSet(filter.file)
           held == ToSet(Held(filter))
           all == ToSet(input)
           b == Append(input, p)
<1>1. p \in Item /\ p.num = Len(input) + 1 /\ p.connection = connection /\ p.class # "table"
  BY DEF IsNext
<1>2. /\ b \in Seq(Item) /\ Len(b) = Len(input) + 1 /\ ArrivedFits(b)
      /\ ToSet(b) = all \cup {p} /\ p \notin all
  BY OpenIs, NextArrives
<1>3. /\ filter.file \in Seq(Item) /\ Held(filter) \in Seq(Item)
      /\ InOrder(filter.file) /\ InOrder(Held(filter))
      /\ \A a \in file, c \in held : a.num < c.num
  BY OpenIs, HeldIs
<1>4. /\ \A a \in file : a \in Item /\ a.num <= Len(input) /\ a.connection <= connection
                         /\ (a.class # "table" => a \in all)
      /\ \A a \in held : a \in all /\ a \notin file
      /\ \A a \in all : a \in Item /\ a.num <= Len(input) /\ a.class # "table"
      /\ \A a \in Item : a.num < Never.from
  BY SetsAre
<1>5. Len(input) \in Nat /\ p.num \in Nat /\ \A a \in file \cup held \cup all : a.num \in Nat
  BY <1>1, <1>4, ItemIs, OpenIs
<1>6. /\ <<p>> \in Seq(Item) /\ InOrder(<<p>>) /\ ToSet(<<p>>) = {p}
      /\ <<>> \in Seq(Item) /\ InOrder(<<>>) /\ ToSet(<<>>) = {}
  BY <1>1 DEF InOrder, ToSet
<1>7. /\ x \in Seq(Item) /\ y \in Seq(Item) /\ InOrder(x) /\ InOrder(y)
      /\ ToSet(x) \cup ToSet(y) \subseteq {p}
      /\ x # <<>> => y = <<>> /\ Held(filter) = <<>>
  BY <1>6 DEF Grows
<1>8. /\ ToSet(g.file) = file \cup ToSet(x) /\ ToSet(Held(g)) = held \cup ToSet(y)
      /\ g.file \in Seq(Item) /\ Held(g) \in Seq(Item)
  BY <1>3, <1>7, JoinedItems DEF Grows
<1>9. InOrder(g.file \o Held(g))
  <2>1. InOrder(filter.file \o x)
    <3>1. \A a \in file, c \in ToSet(x) : a.num < c.num
      BY <1>1, <1>4, <1>5, <1>7
    <3> QED
      BY <1>3, <1>7, <3>1, OrderOf
  <2>2. InOrder(Held(filter) \o y)
    <3>1. \A a \in held, c \in ToSet(y) : a.num < c.num
      BY <1>1, <1>4, <1>5, <1>7
    <3> QED
      BY <1>3, <1>7, <3>1, OrderOf
  <2>3. \A a \in ToSet(g.file), c \in ToSet(Held(g)) : a.num < c.num
    <3>1. x # <<>> => held = {} /\ ToSet(y) = {}
      BY <1>6, <1>7
    <3>2. x = <<>> => ToSet(x) = {}
      BY <1>6
    <3> QED
      BY <1>1, <1>3, <1>4, <1>5, <1>7, <1>8, <3>1, <3>2
  <2>4. InOrder(g.file) /\ InOrder(Held(g))
    BY <2>1, <2>2 DEF Grows
  <2> QED
    BY <1>8, <2>3, <2>4, OrderOf
<1>10. \A q : /\ OwnTables(g, q) = OwnTables(filter, q)
              /\ \A t : IsTableOf(g, t, q) <=> IsTableOf(filter, t, q)
  BY <1>1, <1>7, <1>8, TablesStay
<1> HIDE DEF file, held, all, b
<1>11. ASSUME NEW q \in all
       PROVE  /\ q # p /\ (Kept(g, q) <=> Kept(filter, q))
              /\ (Decided(g, q) => Decided(filter, q))
  BY <1>2, <1>7, <1>8 DEF Kept, Decided, file, held
<1>12. Replaced(g, switch)
  <2> SUFFICES ASSUME NEW q \in ToSet(g.file), q.class = "payload", Selecting(switch, q),
                      NEW t \in OwnTables(g, q), q.pid = t.pid
               PROVE  q.num < t.num
    BY DEF Replaced
  <2>1. CASE q \in file
    BY <1>10, <2>1, OpenIs DEF Replaced, file
  <2>2. CASE q = p /\ x = <<p>>
    <3>1. t \in file /\ t.class = "table" /\ t.connection = connection
      BY <1>1, <1>10, <2>2 DEF OwnTables, file
    <3>2. required /\ ~filter.raw
      <4>1. CASE filter.raw
        <5>1. switch.from <= Len(input) + 1
          BY <4>1, OpenIs DEF SwitchFits
        <5>2. switch.from \in Nat
          BY DEF FilterIInv, FilterTypeOK, Switches
        <5> QED
          BY <1>1, <1>5, <2>2, <5>1, <5>2 DEF Selecting
      <4> QED
        BY <4>1 DEF Selecting
    <3>3. Passes(p)
      BY <2>2, <3>2 DEF Grows
    <3>4. t.pid = filter.pmtPID
      BY <3>1, <3>2, <3>3, TableIs DEF Passes, file
    <3> QED
      BY <2>2, <3>3, <3>4 DEF Passes
  <2>3. q \in file \/ (q = p /\ x = <<p>>)
    BY <1>6, <1>7, <1>8 DEF Grows
  <2> QED
    BY <2>1, <2>2, <2>3
<1>13. FileFits(g, b)
  <2>1. ASSUME NEW a \in ToSet(g.file)
        PROVE  /\ a.num <= Len(b) /\ a.connection <= connection
               /\ IF a.class = "table" THEN a.pid \in Tables ELSE a \in ToSet(b)
    <3>1. CASE a \in file
      BY <1>2, <1>4, <1>5, <3>1, OpenIs DEF FileFits, file
    <3>2. CASE a = p
      <4>1. connection <= connection
        BY OpenIs DEF FilterAssumption
      <4> QED
        BY <1>1, <1>2, <1>5, <3>2, <4>1
    <3> QED
      BY <1>7, <1>8, <3>1, <3>2
  <2>2. ASSUME NEW t \in ToSet(g.file), NEW u \in ToSet(g.file), t.class = "table",
               u.class = "table", t.connection = u.connection
        PROVE  t.pid = u.pid
    <3>1. t \in file /\ u \in file
      BY <1>1, <1>7, <1>8, <2>2
    <3> QED
      BY <2>2, <3>1, OpenIs DEF FileFits, file
  <2> QED
    BY <2>1, <2>2 DEF FileFits
<1>14. SwitchFits(g, b, switch) /\ LengthFits(g, b, switch)
  <2>1. g.raw = filter.raw
    BY DEF Grows
  <2>2. SwitchFits(filter, input, switch) /\ switch \in Switches
    BY OpenIs DEF Good
  <2>3. switch.from \in Nat /\ switch.cause \in Nat
    BY <2>2 DEF Switches, FilterAssumption
  <2>4. SwitchFits(g, b, switch)
    BY <1>2, <1>5, <2>1, <2>2, <2>3 DEF SwitchFits
  <2>5. LengthFits(g, b, switch)
    BY <1>2, <1>5, <2>1, <2>3 DEF LengthFits, Room, FilterAssumption
  <2> QED
    BY <2>4, <2>5
<1>15. SelectedBy(g, b, switch)
  <2> SUFFICES ASSUME NEW q \in ToSet(b), Decided(g, q), Selecting(switch, q), q.class # "tei"
               PROVE  \E t \in OwnTables(g, q) :
                         IsTableOf(g, t, q) /\ (q.pid # t.pid => (Kept(g, q) <=> q.pid \notin t.drops))
    BY DEF SelectedBy
  <2>1. CASE q \in all
    <3>1. \E t \in OwnTables(filter, q) : IsTableOf(filter, t, q)
             /\ (q.pid # t.pid => (Kept(filter, q) <=> q.pid \notin t.drops))
      BY <1>11, <2>1, OpenIs DEF SelectedBy, all
    <3> QED
      BY <1>10, <1>11, <2>1, <3>1
  <2>2. CASE q = p
    <3>1. required /\ ~filter.raw
      <4>1. CASE filter.raw
        <5>1. switch.from <= Len(input) + 1
          BY <4>1, OpenIs DEF SwitchFits
        <5>2. switch.from \in Nat
          BY DEF FilterIInv, FilterTypeOK, Switches
        <5> QED
          BY <1>1, <1>5, <2>2, <5>1, <5>2 DEF Selecting
      <4> QED
        BY <4>1 DEF Selecting
    <3>2. y = <<>>
      <4>1. y = <<p>> => p \in ToSet(Held(g))
        BY <1>6, <1>8
      <4> QED
        BY <2>2, <4>1 DEF Grows, Decided
    <3>3. filter.initialized
      BY <2>2, <3>1, <3>2 DEF Grows, Passes, LeavesOut
    <3>4. PICK t \in file :
                 /\ t.class = "table" /\ t.connection = connection /\ t.num <= Len(input)
                 /\ t.pid = filter.pmtPID /\ t.drops = filter.dropped
                 /\ \A u \in file :
                       u.class = "table" /\ u.connection = connection =>
                           u.num <= t.num /\ u.pid = filter.pmtPID
      BY <3>1, <3>3, TableIs DEF file
    <3>5. t \in OwnTables(filter, p) /\ t.num < p.num
      BY <1>1, <1>5, <3>4 DEF OwnTables, file
    <3>6. IsTableOf(filter, t, p)
      BY <1>1, <3>4, <3>5 DEF IsTableOf, OwnTables, file
    <3>7. p.pid # t.pid => (Kept(g, p) <=> p.pid \notin t.drops)
      <4>1. CASE x = <<p>>
        <5>1. Kept(g, p)
          BY <1>6, <1>8, <4>1 DEF Kept
        <5> QED
          BY <3>1, <3>4, <4>1, <5>1 DEF Grows, Passes
      <4>2. CASE x = <<>>
        <5>1. ~Kept(g, p)
          BY <1>2, <1>1, <1>4, <1>6, <1>8, <4>2 DEF Kept
        <5> QED
          BY <3>1, <3>2, <3>3, <3>4, <4>2, <5>1 DEF Grows, LeavesOut
      <4> QED
        BY <4>1, <4>2 DEF Grows
    <3> QED
      BY <1>10, <2>2, <3>5, <3>6, <3>7
  <2> QED
    BY <1>2, <2>1, <2>2
<1>16. AllKept(g, b, switch)
  <2> SUFFICES ASSUME NEW q \in ToSet(b), Decided(g, q), ~Selecting(switch, q),
                      required /\ q.num <= switch.cause =>
                          q.class # "tei" /\ ~(q.class = "again" /\ q.pid \in Tables)
               PROVE  Kept(g, q)
    BY DEF AllKept
  <2>1. CASE q \in all
    BY <1>11, <2>1, OpenIs DEF AllKept, all
  <2>2. CASE q = p
    <3>1. ~required \/ filter.raw
      BY <1>1, <1>4, <2>2, OpenIs DEF Selecting
    <3>2. x = <<p>>
      BY <3>1 DEF Grows
    <3> QED
      BY <1>6, <1>8, <2>2, <3>2 DEF Kept
  <2> QED
    BY <1>2, <2>1, <2>2
<1> QED
  BY <1>9, <1>12, <1>13, <1>14, <1>15, <1>16 DEF b

\* Only the collectors change, beside what is written.
Same(g) ==
    /\ g.discovery = filter.discovery /\ g.pending = filter.pending
    /\ g.initialized = filter.initialized /\ g.dropped = filter.dropped
    /\ g.pmtPID = filter.pmtPID /\ g.firstPMT = filter.firstPMT
    /\ ~g.initialized /\ g.pmt = "partial" => g.firstPMT > 0

LEMMA SameHeldFits ==
    ASSUME FilterAssumption, FilterIInv, stage = "open", NEW g, g \in Filters, g.raw = filter.raw,
           Same(g), NEW arrived, ToSet(input) \subseteq ToSet(arrived)
    PROVE  HeldFits(g, arrived) /\ Held(g) = Held(filter)
           /\ Len(g.discovery) <= MaxHeld /\ Len(g.pending) <= MaxHeld
<1>1. Held(g) = Held(filter)
  BY DEF Same, Held
<1>2. Len(g.discovery) <= MaxHeld /\ Len(g.pending) <= MaxHeld
  BY DEF Same, FilterIInv, FilterTypeOK
<1>3. HeldFits(filter, input)
  BY OpenIs
<1>4. \A x \in ToSet(Held(g)) :
          x \in ToSet(arrived) /\ x.connection = connection /\ x.class # "tei"
  BY <1>1, <1>3 DEF HeldFits
<1>5. HeldFits(g, arrived)
  BY <1>1, <1>3, <1>4 DEF HeldFits, Same
<1> QED
  BY <1>1, <1>2, <1>5

LEMMA SameKeeps ==
    ASSUME FilterAssumption, FilterIInv, stage = "open", Room,
           NEW g, NEW p, IsNext(p), NEW x, Grows(g, p, x, <<>>), Same(g)
    PROVE  Good(g, Append(input, p), switch)
<1> DEFINE b == Append(input, p)
<1>1. p \in Item /\ p.num = Len(input) + 1 /\ p.connection = connection /\ p.class # "table"
  BY DEF IsNext
<1>2. /\ b \in Seq(Item) /\ ArrivedFits(b) /\ ToSet(b) = ToSet(input) \cup {p}
  BY OpenIs, NextArrives
<1>3. g \in Filters /\ g.raw = filter.raw /\ g.file = filter.file \o x
  BY DEF Grows
<1>4. HeldFits(g, b) /\ Len(g.discovery) <= MaxHeld /\ Len(g.pending) <= MaxHeld
      /\ Held(g) = Held(filter)
  BY <1>2, <1>3, SameHeldFits
<1>5. (x = <<>> /\ ToSet(g.file) = ToSet(filter.file))
      \/ (x = <<p>> /\ Held(filter) = <<>> /\ ToSet(g.file) = ToSet(filter.file) \cup {p})
  <2>1. filter.file \in Seq(Item)
    BY OpenIs, HeldIs
  <2>2. <<p>> \in Seq(Item) /\ ToSet(<<p>>) = {p}
    BY <1>1 DEF ToSet
  <2>3. <<p>> # <<>>
    OBVIOUS
  <2>4. x = <<>> \/ (x = <<p>> /\ Held(filter) = <<>>)
    BY <2>3 DEF Grows
  <2>5. x = <<>> => g.file = filter.file
    BY <1>3, <2>1
  <2>6. x = <<p>> => ToSet(g.file) = ToSet(filter.file) \cup {p}
    <3>1. ToSet(filter.file \o <<p>>) = ToSet(filter.file) \cup {p}
      BY <2>1, <2>2, JoinedItems
    <3> QED
      BY <1>3, <3>1
  <2> QED
    BY <2>4, <2>5, <2>6
<1> HIDE DEF b
<1>6. ASSUME required, ~filter.raw
      PROVE  HoldsAll(g, b) /\ TableFits(g)
  <2>1. HoldsAll(filter, input) /\ TableFits(filter) /\ HeldFits(filter, input)
    BY <1>6, OpenIs
  <2>2. x = <<p>> => filter.initialized
    BY <1>6 DEF Grows, Passes
  <2>3. x = <<>> => LeavesOut(p)
    BY <1>6 DEF Grows
  <2>4. ASSUME ~g.initialized
        PROVE  /\ \A q \in ToSet(b) : q.connection = connection =>
                      q.class = "tei" \/ q \in ToSet(g.discovery)
               /\ \A a \in ToSet(g.file) : a.connection # connection
    BY <1>2, <1>5, <2>1, <2>2, <2>3, <2>4 DEF HoldsAll, LeavesOut, Same
  <2>5. ASSUME g.pending # <<>>, NEW q \in ToSet(b), q.num >= g.pending[1].num
        PROVE  \/ q \in ToSet(g.pending) \/ q.class = "tei"
               \/ q.class = "again" /\ q.pid = g.pmtPID
    <3>1. CASE q \in ToSet(input)
      BY <2>1, <2>5, <3>1 DEF HoldsAll, Same
    <3>2. CASE q = p
      <4>1. Held(filter) # <<>>
        BY <2>5, OpenIs, HeldIs DEF Same
      <4>2. LeavesOut(p)
        BY <1>5, <2>3, <4>1
      <4> QED
        BY <2>1, <2>5, <3>2, <4>2 DEF LeavesOut, HeldFits, Same
    <3> QED
      BY <1>2, <3>1, <3>2
  <2>6. HoldsAll(g, b)
    BY <2>4, <2>5 DEF HoldsAll
  <2>7. TableFits(g)
    BY <1>1, <1>5, <2>1 DEF TableFits, Same
  <2> QED
    BY <2>6, <2>7
<1>7. Working(g, b)
  BY <1>3, <1>6 DEF Working
<1>8. switch \in Switches
  BY OpenIs DEF Good
<1> QED
  BY <1>2, <1>3, <1>4, <1>7, <1>8, GrowsFits DEF Good, Faithful, Written, b

\* Nothing happens but to the collectors: of a packet that cannot be read.
LEMMA NothingKeeps ==
    ASSUME FilterAssumption, FilterIInv, stage = "open",
           NEW g, g \in Filters, g.raw = filter.raw, g.file = filter.file, Same(g)
    PROVE  Good(g, input, switch)
<1>1. HeldFits(g, input) /\ Len(g.discovery) <= MaxHeld /\ Len(g.pending) <= MaxHeld
      /\ Held(g) = Held(filter)
  BY SameHeldFits
<1>2. \A q : /\ OwnTables(g, q) = OwnTables(filter, q)
             /\ \A t : IsTableOf(g, t, q) <=> IsTableOf(filter, t, q)
             /\ Kept(g, q) <=> Kept(filter, q)
             /\ Decided(g, q) <=> Decided(filter, q)
  BY <1>1 DEF OwnTables, IsTableOf, Kept, Decided
<1>3. InOrder(g.file \o Held(g)) /\ Replaced(g, switch) /\ FileFits(g, input)
      /\ SwitchFits(g, input, switch) /\ LengthFits(g, input, switch)
  <2>1. InOrder(g.file \o Held(g))
    BY <1>1, OpenIs
  <2>2. Replaced(g, switch)
    BY <1>2, OpenIs DEF Replaced
  <2>3. FileFits(g, input) /\ SwitchFits(g, input, switch) /\ LengthFits(g, input, switch)
    BY OpenIs DEF FileFits, SwitchFits, LengthFits
  <2> QED
    BY <2>1, <2>2, <2>3
<1>4. SelectedBy(g, input, switch)
  BY <1>2, OpenIs DEF SelectedBy
<1>5. AllKept(g, input, switch)
  BY <1>2, OpenIs DEF AllKept
<1>6. Working(g, input)
  <2>1. required /\ ~filter.raw => HoldsAll(filter, input) /\ TableFits(filter)
    BY OpenIs
  <2>2. HoldsAll(filter, input) => HoldsAll(g, input)
    BY DEF HoldsAll, Same
  <2>3. TableFits(filter) => TableFits(g)
    BY DEF TableFits, Same
  <2> QED
    BY <2>1, <2>2, <2>3 DEF Working
<1>7. switch \in Switches /\ input \in Seq(Item) /\ ArrivedFits(input)
  BY OpenIs DEF Good
<1> QED
  BY <1>1, <1>3, <1>4, <1>5, <1>6, <1>7 DEF Good, Faithful, Written

\* A packet is held back for the first table ...
LEMMA HoldKeeps ==
    ASSUME FilterAssumption, FilterIInv, stage = "open", Room, required, ~filter.raw,
           ~filter.initialized, Len(filter.discovery) < MaxHeld,
           NEW p, IsNext(p), p.class # "tei", NEW g, g \in Filters, ~g.raw, ~g.initialized,
           g.file = filter.file, g.discovery = Append(filter.discovery, p), g.pending = <<>>,
           g.pmt = "partial" => g.firstPMT > 0,
           g.firstPMT > 0 => /\ g.pmtPID \in Tables /\ g.firstPMT <= Len(g.discovery)
                             /\ g.discovery[g.firstPMT].pid = g.pmtPID
    PROVE  Good(g, Append(input, p), switch)
<1> DEFINE b == Append(input, p)
<1>1. p \in Item /\ p.num = Len(input) + 1 /\ p.connection = connection /\ p.class # "table"
  BY DEF IsNext
<1>2. /\ b \in Seq(Item) /\ ArrivedFits(b) /\ ToSet(b) = ToSet(input) \cup {p}
  BY OpenIs, NextArrives
<1>3. filter.pending = <<>> /\ Held(filter) = filter.discovery
      /\ filter.discovery \in Seq(Item) /\ filter.file \in Seq(Item)
  BY OpenIs, HeldIs DEF HeldFits
<1>4. Held(g) = Held(filter) \o <<p>> /\ g.file = filter.file \o <<>>
      /\ Held(g) = g.discovery /\ ToSet(Held(g)) = ToSet(Held(filter)) \cup {p}
  <2>1. Append(filter.discovery, p) = filter.discovery \o <<p>>
        /\ Append(filter.discovery, p) \o <<>> = Append(filter.discovery, p)
        /\ filter.file \o <<>> = filter.file
    BY <1>1, <1>3
  <2>2. ToSet(Append(filter.discovery, p)) = ToSet(filter.discovery) \cup {p}
    BY <1>1, <1>3, ItemsOf
  <2> QED
    BY <1>3, <2>1, <2>2 DEF Held
<1>5. Grows(g, p, <<>>, <<p>>)
  <2>1. <<p>> # <<>>
    OBVIOUS
  <2>2. g.raw = filter.raw
    BY OpenIs DEF Filters
  <2> QED
    BY <1>4, <2>1, <2>2 DEF Grows
<1> HIDE DEF b
<1>6. HeldFits(g, b)
  <2>1. \A x \in ToSet(Held(g)) : x \in ToSet(b) /\ x.connection = connection /\ x.class # "tei"
    BY <1>1, <1>2, <1>4, OpenIs DEF HeldFits
  <2> QED
    BY <2>1 DEF HeldFits
<1>7. HoldsAll(g, b)
  BY <1>2, <1>3, <1>4, OpenIs DEF HoldsAll
<1>8. Working(g, b)
  BY <1>7 DEF Working, TableFits
<1>9. Len(g.discovery) <= MaxHeld /\ Len(g.pending) <= MaxHeld
  BY <1>3, <1>1 DEF FilterAssumption
<1>10. switch \in Switches
  BY OpenIs DEF Good
<1> QED
  BY <1>2, <1>5, <1>6, <1>8, <1>9, <1>10, GrowsFits DEF Good, Faithful, Written, b

\* ... or for the update that it belongs to.
LEMMA PendKeeps ==
    ASSUME FilterAssumption, FilterIInv, stage = "open", Room, required, ~filter.raw,
           filter.initialized, Len(filter.pending) < MaxHeld,
           NEW p, IsNext(p), p.class # "tei", filter.pending = <<>> => p.pid = filter.pmtPID,
           NEW g, g \in Filters, ~g.raw, g.initialized, g.file = filter.file,
           g.discovery = <<>>, g.pending = Append(filter.pending, p),
           g.pmtPID = filter.pmtPID, g.dropped = filter.dropped
    PROVE  Good(g, Append(input, p), switch)
<1> DEFINE b == Append(input, p)
<1>1. p \in Item /\ p.num = Len(input) + 1 /\ p.connection = connection /\ p.class # "table"
  BY DEF IsNext
<1>2. /\ b \in Seq(Item) /\ ArrivedFits(b) /\ ToSet(b) = ToSet(input) \cup {p}
  BY OpenIs, NextArrives
<1>3. filter.discovery = <<>> /\ filter.pending \in Seq(Item) /\ filter.file \in Seq(Item)
      /\ Held(filter) = filter.pending
  BY OpenIs, HeldIs DEF HeldFits, Filters
<1>4. Held(g) = Held(filter) \o <<p>> /\ g.file = filter.file \o <<>>
      /\ Held(g) = g.pending /\ ToSet(Held(g)) = ToSet(Held(filter)) \cup {p}
  <2>1. Append(filter.pending, p) = filter.pending \o <<p>>
        /\ <<>> \o Append(filter.pending, p) = Append(filter.pending, p)
        /\ filter.file \o <<>> = filter.file
    BY <1>1, <1>3
  <2>2. ToSet(Append(filter.pending, p)) = ToSet(filter.pending) \cup {p}
    BY <1>1, <1>3, ItemsOf
  <2> QED
    BY <1>3, <2>1, <2>2 DEF Held
<1>5. Grows(g, p, <<>>, <<p>>)
  <2>1. <<p>> # <<>>
    OBVIOUS
  <2>2. g.raw = filter.raw
    BY OpenIs DEF Filters
  <2> QED
    BY <1>4, <2>1, <2>2 DEF Grows
<1>6. IF filter.pending = <<>> THEN g.pending[1] = p ELSE g.pending[1] = filter.pending[1]
  BY <1>1, <1>3
<1> HIDE DEF b
<1>7. HeldFits(g, b)
  <2>1. \A x \in ToSet(Held(g)) : x \in ToSet(b) /\ x.connection = connection /\ x.class # "tei"
    BY <1>1, <1>2, <1>4, OpenIs DEF HeldFits
  <2>2. g.pending[1].pid = g.pmtPID
    BY <1>6, OpenIs DEF HeldFits
  <2> QED
    BY <2>1, <2>2 DEF HeldFits
<1>8. HoldsAll(g, b)
  <2> SUFFICES ASSUME NEW q \in ToSet(b), q.num >= g.pending[1].num, q # p
               PROVE  \/ q \in ToSet(g.pending) \/ q.class = "tei"
                      \/ q.class = "again" /\ q.pid = g.pmtPID
    BY <1>4 DEF HoldsAll
  <2>1. q \in ToSet(input) /\ q.num \in Nat /\ q.num <= Len(input) /\ Len(input) \in Nat
    BY <1>2, SetsAre, ItemIs, OpenIs
  <2>2. filter.pending # <<>> /\ q.num >= filter.pending[1].num
    BY <1>1, <1>6, <2>1
  <2> QED
    BY <1>3, <1>4, <2>1, <2>2, OpenIs DEF HoldsAll
<1>9. TableFits(g)
  BY OpenIs DEF TableFits
<1>10. Working(g, b)
  BY <1>8, <1>9 DEF Working
<1>11. Len(g.discovery) <= MaxHeld /\ Len(g.pending) <= MaxHeld
  BY <1>3, <1>1 DEF FilterAssumption
<1>12. switch \in Switches
  BY OpenIs DEF Good
<1> QED
  BY <1>2, <1>5, <1>7, <1>10, <1>11, <1>12, GrowsFits DEF Good, Faithful, Written, b
-----------------------------------------------------------------------------
\* A new table is complete: what was held for it is replayed.
Completes(g, p, first, drops) ==
    LET held == Append(Held(filter), p)
    IN /\ required /\ ~filter.raw /\ p.class # "tei" /\ drops \in SUBSET Elementary
       /\ first \in 1 .. Len(held) /\ held[first].pid = filter.pmtPID /\ filter.pmtPID \in Tables
       /\ filter.initialized => first = 1
       /\ g \in Filters /\ ~g.raw /\ g.initialized /\ g.discovery = <<>> /\ g.pending = <<>>
       /\ g.pmtPID = filter.pmtPID /\ g.dropped = drops
       /\ g.file = filter.file \o Replayed(held, first, filter.pmtPID, drops)

\* What is written then, as sets.
Completed(g, p, T) ==
    LET file == ToSet(filter.file)
        back == ToSet(Held(filter)) \cup {p}
    IN /\ InOrder(g.file \o Held(g)) /\ Held(g) = <<>>
       /\ T \in Item /\ T.class = "table" /\ T.connection = connection
       /\ T.pid = filter.pmtPID /\ T.drops = g.dropped /\ T \in ToSet(g.file)
       /\ T.num <= Len(input) + 1
       /\ \A a \in ToSet(g.file) : a \in file \/ a = T \/ a \in back
       /\ file \subseteq ToSet(g.file)
       /\ \A a \in file : a.num < T.num
       /\ \E o \in back : o.num = T.num /\ o.pid = T.pid
       /\ filter.initialized => \A a \in back : T.num <= a.num
       /\ \A a \in back :
             /\ a \in Item /\ a.connection = connection /\ a.class # "table"
             /\ a \notin file /\ a # T
             /\ a \in ToSet(g.file) =>
                   a.pid \notin T.drops /\ (a.num >= T.num => a.pid # filter.pmtPID)
             /\ a.pid \notin T.drops /\ a.pid # filter.pmtPID => a \in ToSet(g.file)

LEMMA CompletedIs ==
    ASSUME FilterAssumption, FilterIInv, stage = "open",
           NEW g, NEW p, IsNext(p), NEW first, NEW drops, Completes(g, p, first, drops)
    PROVE  \E T : Completed(g, p, T)
<1> DEFINE file == ToSet(filter.file)
           H == Held(filter)
           held == Append(H, p)
           back == ToSet(H) \cup {p}
           T == Renewed(held[first], drops)
           r == Replayed(held, first, filter.pmtPID, drops)
<1>1. p \in Item /\ p.num = Len(input) + 1 /\ p.connection = connection /\ p.class # "table"
  BY DEF IsNext
<1>2. /\ drops \in SUBSET Elementary
      /\ first \in 1 .. Len(held) /\ held[first].pid = filter.pmtPID /\ filter.pmtPID \in Tables
      /\ filter.initialized => first = 1
      /\ g.file = filter.file \o r /\ g.discovery = <<>> /\ g.pending = <<>>
      /\ g.dropped = drops
  BY DEF Completes
<1>3. /\ filter.file \in Seq(Item) /\ H \in Seq(Item) /\ InOrder(filter.file) /\ InOrder(H)
      /\ \A a \in file, c \in ToSet(H) : a.num < c.num
  BY OpenIs, HeldIs
<1>4. /\ \A a \in file : a \in Item /\ a.num <= Len(input) /\ (a.class # "table" => a \in ToSet(input))
      /\ \A a \in ToSet(H) : /\ a \in ToSet(input) /\ a.connection = connection
                             /\ a.class # "table" /\ a \notin file
      /\ \A a \in ToSet(input) : a \in Item /\ a.num <= Len(input)
  BY SetsAre
<1>5. Len(input) \in Nat /\ \A a \in file \cup back : a.num \in Nat
  BY <1>1, <1>4, ItemIs, OpenIs
<1>6. \A a \in back : /\ a \in Item /\ a.connection = connection /\ a.class # "table"
                      /\ a.num <= Len(input) + 1 /\ a \notin file
  BY <1>1, <1>4, <1>5
<1>7. \A a \in file, c \in back : a.num < c.num
  BY <1>1, <1>3, <1>4, <1>5
<1>8. held \in Seq(Item) /\ ToSet(held) = back /\ InOrder(held) /\ held # <<>>
  <2>1. held = H \o <<p>> /\ <<p>> \in Seq(Item) /\ InOrder(<<p>>) /\ ToSet(<<p>>) = {p}
    BY <1>1, <1>3 DEF InOrder, ToSet
  <2>2. \A a \in ToSet(H), c \in ToSet(<<p>>) : a.num < c.num
    BY <1>1, <1>4, <1>5, <2>1
  <2>3. InOrder(H \o <<p>>)
    BY <1>3, <2>1, <2>2, OrderOf
  <2>4. held \in Seq(Item) /\ ToSet(held) = back
    BY <1>1, <1>3, ItemsOf
  <2>5. held # <<>>
    BY <1>1, <1>3
  <2> QED
    BY <2>1, <2>3, <2>4, <2>5
<1> HIDE DEF file, H, held
<1>9. /\ r \in Seq(Item) /\ InOrder(r)
      /\ \A x : x \in ToSet(r) <=>
             \/ x = T
             \/ \E k \in 1 .. Len(held) :
                   x = held[k] /\ ~LeftOut(held, k, first, filter.pmtPID, drops)
  BY <1>2, <1>8, ReplayIs
<1> HIDE DEF r
<1>10. held[first] \in back
  <2>1. held[first] \in ToSet(held)
    BY <1>2, <1>8 DEF ToSet
  <2> QED
    BY <1>8, <2>1, Zenon
<1>11. /\ T \in Item /\ T.class = "table" /\ T.connection = connection
       /\ T.pid = filter.pmtPID /\ T.drops = drops /\ T.num = held[first].num
  <2>1. held[first] \in Item /\ held[first].connection = connection
    BY <1>6, <1>10
  <2>2. ASSUME NEW o \in Item
        PROVE  LET n == Renewed(o, drops)
               IN /\ n \in Item /\ n.class = "table" /\ n.connection = o.connection
                  /\ n.pid = o.pid /\ n.drops = drops /\ n.num = o.num
    BY <1>2 DEF Renewed, Item
  <2> QED
    BY <1>2, <2>1, <2>2
<1> HIDE DEF T
<1>12. \A a \in back : a # T
  BY <1>6, <1>11
<1>13. ASSUME NEW k \in 1 .. Len(held)
       PROVE  held[k] \in back /\ (k >= first <=> held[k].num >= T.num)
  <2>1. held[k] \in back
    <3>1. held[k] \in ToSet(held)
      BY DEF ToSet
    <3> HIDE DEF back, held
    <3> QED
      BY <1>8, <3>1
  <2>2. \A i, j \in 1 .. Len(held) : held[i].num <= held[j].num <=> i <= j
    BY <1>8, NumbersTell
  <2> QED
    BY <1>2, <1>5, <1>10, <1>11, <2>1, <2>2
<1>14. ASSUME NEW a \in back
       PROVE  \E k \in 1 .. Len(held) : a = held[k]
  <2>1. a \in ToSet(held) /\ DOMAIN held = 1 .. Len(held)
    BY <1>8
  <2> HIDE DEF back
  <2> QED
    BY <2>1, Zenon DEF ToSet
<1>15. ToSet(g.file) = file \cup ToSet(r) /\ Held(g) = <<>>
  <2>1. <<>> \o <<>> = <<>>
    OBVIOUS
  <2>2. ToSet(filter.file \o r) = file \cup ToSet(r)
    BY <1>3, <1>9, JoinedItems DEF file
  <2> QED
    BY <1>2, <2>1, <2>2 DEF Held
<1>16. ASSUME NEW a \in ToSet(r)
       PROVE  a = T \/ a \in back
  BY <1>9, <1>13
<1>17. ASSUME NEW a \in back, a \in ToSet(g.file)
       PROVE  a.pid \notin drops /\ (a.num >= T.num => a.pid # filter.pmtPID)
  <2>1. a \in ToSet(r)
    BY <1>6, <1>15, <1>17
  <2>2. PICK k \in 1 .. Len(held) : a = held[k] /\ ~LeftOut(held, k, first, filter.pmtPID, drops)
    BY <1>9, <1>12, <2>1
  <2> QED
    BY <1>13, <2>2 DEF LeftOut
<1>18. ASSUME NEW a \in back, a.pid \notin drops, a.pid # filter.pmtPID
       PROVE  a \in ToSet(g.file)
  <2>1. PICK k \in 1 .. Len(held) : a = held[k]
    BY <1>14
  <2>2. ~LeftOut(held, k, first, filter.pmtPID, drops)
    BY <1>18, <2>1 DEF LeftOut
  <2> QED
    BY <1>9, <1>15, <2>1, <2>2
<1>19. T \in ToSet(g.file)
  BY <1>9, <1>15
<1>20. \A a \in file : a.num < T.num
  BY <1>7, <1>10, <1>11
<1>21. InOrder(g.file \o Held(g))
  <2>1. \A a \in file, c \in ToSet(r) : a.num < c.num
    BY <1>7, <1>16, <1>20
  <2>2. InOrder(filter.file \o r) /\ filter.file \o r \in Seq(Item)
    BY <1>3, <1>9, <2>1, OrderOf DEF file
  <2>3. (filter.file \o r) \o <<>> = filter.file \o r
    BY <2>2
  <2> QED
    BY <1>2, <1>15, <2>2, <2>3
<1>22. filter.initialized => \A a \in back : T.num <= a.num
  <2> SUFFICES ASSUME filter.initialized, NEW a \in back
               PROVE  T.num <= a.num
    OBVIOUS
  <2>1. PICK k \in 1 .. Len(held) : a = held[k]
    BY <1>14
  <2>2. k >= first
    BY <1>2, <2>1
  <2> QED
    BY <1>13, <2>1, <2>2
<1> HIDE DEF back
<1>23. T.num <= Len(input) + 1 /\ \E o \in back : o.num = T.num /\ o.pid = T.pid
  BY <1>2, <1>6, <1>10, <1>11
<1>24. Completed(g, p, T)
  <2>1. /\ \A a \in ToSet(g.file) : a \in file \/ a = T \/ a \in back
        /\ file \subseteq ToSet(g.file)
    BY <1>15, <1>16
  <2>2. T.drops = g.dropped
    BY <1>2, <1>11
  <2> QED
    BY <1>6, <1>11, <1>12, <1>15, <1>17, <1>18, <1>19, <1>20, <1>21, <1>22, <1>23, <2>1, <2>2
       DEF Completed, file, H, back
<1> QED
  BY <1>24

\* All that is written agrees with the new table.
LEMMA CompletesKeeps ==
    ASSUME FilterAssumption, FilterIInv, stage = "open", Room,
           NEW g, NEW p, IsNext(p), NEW first, NEW drops, Completes(g, p, first, drops)
    PROVE  Good(g, Append(input, p), switch)
<1> DEFINE file == ToSet(filter.file)
           back == ToSet(Held(filter)) \cup {p}
           all == ToSet(input)
           b == Append(input, p)
<1>1. p \in Item /\ p.num = Len(input) + 1 /\ p.connection = connection /\ p.class # "table"
  BY DEF IsNext
<1>2. /\ b \in Seq(Item) /\ Len(b) = Len(input) + 1 /\ ArrivedFits(b)
      /\ ToSet(b) = all \cup {p} /\ p \notin all
  BY OpenIs, NextArrives
<1>3. /\ required /\ ~filter.raw /\ p.class # "tei" /\ drops \in SUBSET Elementary
      /\ filter.pmtPID \in Tables /\ switch = Never
      /\ g \in Filters /\ ~g.raw /\ g.initialized /\ g.discovery = <<>> /\ g.pending = <<>>
      /\ g.pmtPID = filter.pmtPID /\ g.dropped = drops /\ Held(g) = <<>>
  <2>1. Held(g) = <<>>
    BY CompletedIs DEF Completed
  <2>2. ~filter.raw => switch = Never
    BY OpenIs
  <2> QED
    BY <2>1, <2>2 DEF Completes
<1>4. PICK T : Completed(g, p, T)
  BY CompletedIs
<1>5. /\ T \in Item /\ T.class = "table" /\ T.connection = connection
      /\ T.pid = filter.pmtPID /\ T.drops = drops /\ T \in ToSet(g.file)
      /\ T.num <= Len(input) + 1
      /\ \A a \in ToSet(g.file) : a \in file \/ a = T \/ a \in back
      /\ file \subseteq ToSet(g.file)
      /\ \A a \in file : a.num < T.num
      /\ \E o \in back : o.num = T.num /\ o.pid = T.pid
      /\ filter.initialized => \A a \in back : T.num <= a.num
  BY <1>3, <1>4 DEF Completed
<1>6. \A a \in back :
         /\ a \in Item /\ a.connection = connection /\ a.class # "table"
         /\ a \notin file /\ a # T
         /\ a \in ToSet(g.file) =>
               a.pid \notin drops /\ (a.num >= T.num => a.pid # filter.pmtPID)
         /\ a.pid \notin drops /\ a.pid # filter.pmtPID => a \in ToSet(g.file)
  BY <1>5, <1>4 DEF Completed
<1>7. InOrder(g.file \o Held(g))
  BY <1>4 DEF Completed
<1>8. /\ \A a \in file : a \in Item /\ a.num <= Len(input) /\ a.connection <= connection
                         /\ (a.class # "table" => a \in all)
      /\ \A a \in ToSet(Held(filter)) : a \in all
      /\ \A a \in all : a \in Item /\ a.num <= Len(input) /\ a.class # "table"
      /\ \A a \in Item : a.num < Never.from
  BY SetsAre
<1>9. Len(input) \in Nat /\ T.num \in Nat /\ p.num \in Nat
      /\ \A a \in file \cup back \cup all : a.num \in Nat
  <2>1. T \in Item /\ p \in Item /\ \A a \in file \cup back \cup all : a \in Item
    BY <1>1, <1>5, <1>6, <1>8
  <2>2. \A a \in Item : a.num \in Nat
    BY ItemIs
  <2> HIDE DEF back, file, all
  <2> QED
    BY <2>1, <2>2, OpenIs
<1>10. \A q, c \in ToSet(b) : q.num = c.num => q = c
  BY <1>2, ArrivedIs
<1>11. \A c \in back : c \in ToSet(b)
  BY <1>2, <1>8
<1>12. /\ ~filter.initialized => \A a \in file : a.connection # connection
       /\ ~filter.initialized => \A q \in ToSet(b) : q.connection = connection =>
              q.class = "tei" \/ q \in back
       /\ filter.initialized => \A q \in ToSet(b) : q.num >= T.num =>
              q \in back \/ q.class = "tei" \/ (q.class = "again" /\ q.pid = filter.pmtPID)
  <2>1. HoldsAll(filter, input)
    BY <1>3, OpenIs
  <2>2. Held(filter) = IF filter.pending = <<>> THEN filter.discovery ELSE filter.pending
    BY OpenIs, HeldIs
  <2>3. HeldFits(filter, input)
    BY OpenIs
  <2>4. CASE ~filter.initialized
    BY <1>2, <2>1, <2>2, <2>3, <2>4 DEF HoldsAll, HeldFits
  <2>5. CASE filter.initialized
    <3> SUFFICES ASSUME NEW q \in ToSet(b), q.num >= T.num, q # p
                 PROVE  q \in back \/ q.class = "tei" \/ (q.class = "again" /\ q.pid = filter.pmtPID)
      BY <2>5
    <3>1. q \in all /\ q.num < p.num
      BY <1>1, <1>2, <1>8, <1>9
    <3>2. CASE filter.pending = <<>>
      <4>1. Held(filter) = <<>>
        BY <2>2, <2>3, <2>5, <3>2 DEF HeldFits
      <4>2. back = {p}
        BY <4>1 DEF ToSet
      <4>3. T.num = p.num
        BY <1>5, <4>2
      <4> QED
        BY <1>9, <3>1, <4>3
    <3>3. CASE filter.pending # <<>>
      <4>1. \A o \in ToSet(Held(filter)) : filter.pending[1].num <= o.num
        BY <2>2, <3>3, OpenIs, HeldIs
      <4>2. filter.pending[1] \in ToSet(Held(filter))
        BY <2>2, <3>3, OpenIs, HeldIs
      <4>3. PICK o \in back : o.num = T.num
        BY <1>5
      <4> DEFINE n == filter.pending[1].num
      <4>6. n \in Nat /\ n <= p.num
        BY <1>1, <1>8, <1>9, <4>2
      <4>7. o \in ToSet(Held(filter)) \/ o = p
        BY <4>3
      <4> HIDE DEF n
      <4>4. n <= T.num
        BY <4>1, <4>3, <4>6, <4>7 DEF n
      <4>8. q.num \in Nat /\ q.num >= T.num
        BY <1>9, <3>1
      <4>5. q.num >= filter.pending[1].num
        BY <1>9, <4>4, <4>6, <4>8 DEF n
      <4> QED
        BY <2>1, <2>2, <3>1, <3>3, <4>5 DEF HoldsAll
    <3> QED
      BY <3>2, <3>3
  <2> QED
    BY <2>4, <2>5
<1> HIDE DEF b, all
<1>13. ASSUME NEW q
       PROVE  /\ q.connection # connection => OwnTables(g, q) = OwnTables(filter, q)
              /\ q.connection = connection => OwnTables(g, q) = OwnTables(filter, q) \cup {T}
  <2>1. ASSUME NEW t \in OwnTables(g, q)
        PROVE  t \in OwnTables(filter, q) \/ (t = T /\ q.connection = connection)
    BY <1>5, <1>6 DEF OwnTables
  <2>2. ASSUME NEW t \in OwnTables(filter, q)
        PROVE  t \in OwnTables(g, q)
    BY <1>5 DEF OwnTables
  <2>3. q.connection = connection => T \in OwnTables(g, q)
    BY <1>5 DEF OwnTables
  <2> QED
    BY <2>1, <2>2, <2>3
<1> HIDE DEF back, file
<1>14. ASSUME NEW q \in ToSet(b), q \notin back
       PROVE  /\ q \in all /\ Decided(filter, q)
              /\ Kept(g, q) <=> Kept(filter, q)
  <2>1. q \in all /\ Decided(filter, q)
    BY <1>2, <1>14 DEF Decided, back
  <2>2. q # T
    BY <1>5, <1>8, <2>1
  <2> QED
    BY <1>5, <1>14, <2>1, <2>2 DEF Kept, file
<1>15. Replaced(g, switch)
  <2> SUFFICES ASSUME NEW q \in ToSet(g.file), q.class = "payload", Selecting(switch, q),
                      NEW t \in OwnTables(g, q), q.pid = t.pid
               PROVE  q.num < t.num
    BY DEF Replaced
  <2>1. t = T \/ t \in OwnTables(filter, q)
    BY <1>13
  <2>2. CASE q \in file /\ t = T
    BY <1>5, <2>2
  <2>3. CASE q \in file /\ t \in OwnTables(filter, q)
    BY <2>3, OpenIs DEF Replaced, file
  <2>4. CASE q \in back /\ t = T
    BY <1>5, <1>6, <1>9, <2>4
  <2>5. CASE q \in back /\ t \in OwnTables(filter, q)
    <3>1. t \in file /\ t.class = "table" /\ t.connection = connection
      BY <1>6, <2>5 DEF OwnTables, file
    <3>2. filter.initialized
      BY <1>12, <3>1
    <3>3. t.pid = filter.pmtPID
      BY <1>3, <3>1, <3>2, TableIs DEF file
    <3>4. q.num >= T.num
      BY <1>5, <1>9, <2>5, <3>2
    <3> QED
      BY <1>6, <2>5, <3>3, <3>4
  <2> QED
    BY <1>5, <2>1, <2>2, <2>3, <2>4, <2>5
<1>16. SelectedBy(g, b, switch)
  <2> SUFFICES ASSUME NEW q \in ToSet(b), Selecting(switch, q), q.class # "tei"
               PROVE  \E t \in OwnTables(g, q) :
                         IsTableOf(g, t, q) /\ (q.pid # t.pid => (Kept(g, q) <=> q.pid \notin t.drops))
    BY DEF SelectedBy
  <2>1. q.num \in Nat
    BY <1>2, <1>9
  <2>2. CASE q \notin back
    <3>1. PICK t \in OwnTables(filter, q) : IsTableOf(filter, t, q)
             /\ (q.pid # t.pid => (Kept(filter, q) <=> q.pid \notin t.drops))
      BY <1>14, <2>2, OpenIs DEF SelectedBy, all
    <3>2. CASE q.connection # connection
      <4>1. IsTableOf(g, t, q)
        BY <1>13, <3>1, <3>2 DEF IsTableOf
      <4> QED
        BY <1>13, <1>14, <2>2, <3>1, <3>2, <4>1
    <3>3. CASE q.connection = connection /\ q.num < T.num
      <4>1. t.num < T.num /\ t.num \in Nat
        BY <1>5, <1>9, <3>1 DEF OwnTables, file
      <4>2. IsTableOf(g, t, q)
        BY <1>9, <1>13, <2>1, <3>1, <3>3, <4>1 DEF IsTableOf
      <4> QED
        BY <1>13, <1>14, <2>2, <3>1, <3>3, <4>2
    <3>4. CASE q.connection = connection /\ q.num >= T.num
      <4>1. filter.initialized /\ q.class = "again" /\ q.pid = filter.pmtPID
        BY <1>12, <2>2, <3>4
      <4>2. q.num > T.num
        <5>1. PICK o \in back : o.num = T.num
          BY <1>5
        <5>2. q.num # T.num
          BY <1>10, <1>11, <2>2, <5>1
        <5> QED
          BY <1>9, <2>1, <3>4, <5>2
      <4>3. T \in OwnTables(g, q) /\ \A u \in OwnTables(g, q) : u.num <= T.num
        <5>1. \A u \in OwnTables(filter, q) : u.num <= T.num
          BY <1>5, <1>9 DEF OwnTables, file
        <5> QED
          BY <1>9, <1>13, <3>4, <5>1
      <4>4. IsTableOf(g, T, q)
        BY <4>2, <4>3 DEF IsTableOf
      <4> QED
        BY <1>5, <4>1, <4>3, <4>4
    <3> QED
      BY <1>9, <2>1, <3>2, <3>3, <3>4
  <2>3. CASE q \in back
    <3>1. q.connection = connection /\ OwnTables(g, q) = OwnTables(filter, q) \cup {T}
      BY <1>6, <1>13, <2>3
    <3>2. q.pid # T.pid => (Kept(g, q) <=> q.pid \notin T.drops)
      BY <1>5, <1>6, <2>3 DEF Kept
    <3>3. CASE ~filter.initialized
      <4>1. OwnTables(g, q) = {T}
        BY <1>12, <3>1, <3>3 DEF OwnTables, file
      <4>2. IsTableOf(g, T, q)
        BY <1>9, <4>1 DEF IsTableOf
      <4> QED
        BY <3>2, <4>1, <4>2
    <3>4. CASE filter.initialized /\ q.num # T.num
      <4>1. q.num > T.num
        BY <1>5, <1>9, <2>1, <2>3, <3>4
      <4>2. \A u \in OwnTables(g, q) : u.num <= T.num
        <5>1. \A u \in OwnTables(filter, q) : u.num <= T.num
          BY <1>5, <1>9 DEF OwnTables, file
        <5> QED
          BY <1>9, <3>1, <5>1
      <4>3. IsTableOf(g, T, q)
        BY <3>1, <4>1, <4>2 DEF IsTableOf
      <4> QED
        BY <3>1, <3>2, <4>3
    <3>5. CASE filter.initialized /\ q.num = T.num
      <4>1. PICK t \in file :
                   /\ t.class = "table" /\ t.connection = connection
                   /\ t.pid = filter.pmtPID
                   /\ \A u \in file :
                         u.class = "table" /\ u.connection = connection => u.num <= t.num
        BY <1>3, <3>5, TableIs DEF file
      <4>2. t \in OwnTables(g, q) /\ t.num < q.num
        BY <1>5, <3>1, <3>5, <4>1 DEF OwnTables, file
      <4>3. \A u \in OwnTables(g, q) : u.num < q.num => u.num <= t.num
        <5>1. \A u \in OwnTables(filter, q) : u.num <= t.num
          BY <3>1, <4>1 DEF OwnTables, file
        <5> QED
          BY <1>9, <3>1, <3>5, <5>1
      <4>4. IsTableOf(g, t, q)
        BY <4>2, <4>3 DEF IsTableOf
      <4>5. q.pid = filter.pmtPID
        <5>1. PICK o \in back : o.num = T.num /\ o.pid = T.pid
          BY <1>5
        <5>2. o = q
          BY <1>10, <1>11, <2>3, <3>5, <5>1
        <5> QED
          BY <1>5, <5>1, <5>2
      <4> QED
        BY <4>1, <4>2, <4>4, <4>5
    <3> QED
      BY <3>3, <3>4, <3>5
  <2> QED
    BY <2>2, <2>3
<1>17. AllKept(g, b, switch)
  <2>1. ASSUME NEW q \in ToSet(b)
        PROVE  Selecting(switch, q)
    BY <1>1, <1>2, <1>3, <1>8 DEF Selecting
  <2> QED
    BY <2>1 DEF AllKept
<1>18. FileFits(g, b)
  <2>1. ASSUME NEW a \in ToSet(g.file)
        PROVE  /\ a.num <= Len(b) /\ a.connection <= connection
               /\ IF a.class = "table" THEN a.pid \in Tables ELSE a \in ToSet(b)
    <3>1. connection <= connection
      BY OpenIs DEF FilterAssumption
    <3>2. CASE a \in file
      BY <1>2, <1>8, <1>9, <3>2, OpenIs DEF FileFits, file
    <3>3. CASE a = T
      BY <1>2, <1>3, <1>5, <3>1, <3>3
    <3>4. CASE a \in back
      <4>1. a \in ToSet(b) /\ a.num <= Len(b)
        BY <1>1, <1>2, <1>8, <1>9, <1>11, <3>4 DEF back
      <4> QED
        BY <1>6, <3>1, <3>4, <4>1
    <3> QED
      BY <1>5, <3>2, <3>3, <3>4
  <2>2. ASSUME NEW t \in ToSet(g.file), t.class = "table"
        PROVE  (t \in file \/ t = T) /\ (t.connection = connection => t.pid = filter.pmtPID)
    <3>1. t \in file \/ t = T
      BY <1>5, <1>6, <2>2
    <3>2. CASE t \in file /\ t.connection = connection
      BY <1>3, <1>12, <2>2, <3>2, TableIs DEF file
    <3> QED
      BY <1>5, <3>1, <3>2
  <2>3. ASSUME NEW t \in ToSet(g.file), NEW u \in ToSet(g.file), t.class = "table",
               u.class = "table", t.connection = u.connection
        PROVE  t.pid = u.pid
    <3>1. CASE t.connection = connection
      BY <2>2, <2>3, <3>1
    <3>2. CASE t.connection # connection
      <4>1. t \in file /\ u \in file
        BY <1>5, <2>2, <2>3, <3>2
      <4> QED
        BY <2>3, <4>1, OpenIs DEF FileFits, file
    <3> QED
      BY <3>1, <3>2
  <2> QED
    BY <2>1, <2>3 DEF FileFits
<1>19. HeldFits(g, b)
  BY <1>3 DEF HeldFits, ToSet
<1>20. SwitchFits(g, b, switch) /\ LengthFits(g, b, switch)
  <2>1. Len(b) <= MaxPackets
    BY <1>2, <1>3, <1>9, RoomIs DEF FilterAssumption
  <2> QED
    BY <1>3, <2>1 DEF SwitchFits, LengthFits
<1>21. Working(g, b)
  <2>1. HoldsAll(g, b)
    BY <1>3 DEF HoldsAll
  <2>2. \A u \in ToSet(g.file) :
           u.class = "table" /\ u.connection = connection => u.num <= T.num
    BY <1>5, <1>6, <1>9
  <2>3. TableFits(g)
    BY <1>3, <1>5, <2>2 DEF TableFits
  <2> QED
    BY <2>1, <2>3 DEF Working
<1>22. Len(g.discovery) <= MaxHeld /\ Len(g.pending) <= MaxHeld
  BY <1>3 DEF FilterAssumption
<1>23. switch \in Switches
  BY OpenIs DEF Good
<1> QED
  BY <1>2, <1>3, <1>7, <1>15, <1>16, <1>17, <1>18, <1>19, <1>20, <1>21, <1>22, <1>23
     DEF Good, Faithful, Written, b
-----------------------------------------------------------------------------
\* What a packet may do to a collector.
LEMMA FeedIs ==
    ASSUME NEW psi \in Collector, NEW kind \in Kinds, NEW r \in Feed(psi, kind)
    PROVE  /\ r.psi \in Collector /\ r.issue \in {"ok", "broken", "limit"}
           /\ r.section \in BOOLEAN /\ r.duplicate \in BOOLEAN
           /\ r.section => r.issue = "ok" /\ (kind = "start" \/ psi = "partial")
           /\ r.psi = "partial" => kind = "start" \/ psi = "partial"
           /\ r.duplicate => kind = "again"
           /\ r.issue # "ok" => r.psi = "waiting"
<1> DEFINE begun == kind = "start" \/ psi = "partial"
           Fine(x) ==
               /\ x.psi \in Collector /\ x.issue \in {"ok", "broken", "limit"}
               /\ x.section \in BOOLEAN /\ x.duplicate \in BOOLEAN
               /\ x.section => x.issue = "ok" /\ begun
               /\ x.psi = "partial" => begun
               /\ x.duplicate => kind = "again"
               /\ x.issue # "ok" => x.psi = "waiting"
<1>1. ASSUME NEW x, NEW next \in Collector, NEW section \in BOOLEAN, x = Fed(next, section),
             begun \/ (section = FALSE /\ next # "partial")
      PROVE  Fine(x)
  <2>1. x.psi = next /\ x.section = section /\ x.issue = "ok" /\ x.duplicate = FALSE
    BY <1>1 DEF Fed
  <2> QED
    BY <1>1, <2>1, Zenon
<1>2. ASSUME NEW x, NEW issue \in {"broken", "limit"}, x = Failed(issue)
      PROVE  Fine(x)
  <2>1. x.psi = "waiting" /\ x.section = FALSE /\ x.issue = issue /\ x.duplicate = FALSE
    BY <1>2 DEF Failed
  <2>2. "waiting" \in Collector /\ "waiting" # "partial"
    BY DEF Collector
  <2> QED
    BY <1>2, <2>1, <2>2, Zenon
<1>3. "waiting" \in Collector /\ "idle" \in Collector /\ "partial" \in Collector
      /\ "waiting" # "partial" /\ "idle" # "partial"
  BY DEF Collector
<1> HIDE DEF Fine
<1>4. ASSUME NEW from \in Collector, from = "partial" => psi = "partial",
             NEW x \in Collect(from, kind)
      PROVE  Fine(x)
  <2>1. TRUE \in BOOLEAN /\ FALSE \in BOOLEAN
    OBVIOUS
  <2>2. CASE kind = "start"
    <3>1. x \in Begin(from)
      BY <1>4, <2>2, Zenon DEF Collect
    <3>2. x = Failed("broken") \/ x = Failed("limit")
          \/ \E next \in {"idle", "partial"}, section \in BOOLEAN : x = Fed(next, section)
      BY <3>1 DEF Begin
    <3> QED
      BY <1>1, <1>2, <1>3, <2>2, <3>2, Zenon
  <2>3. CASE kind # "start" /\ from = "partial"
    <3>1. x \in Continue
      BY <1>4, <2>3 DEF Collect
    <3> DEFINE broken == Failed("broken")
               limit == Failed("limit")
               more == Fed("partial", FALSE)
               last == Fed("idle", TRUE)
    <3>2. Continue = {broken, limit, more, last}
      BY Zenon DEF Continue
    <3> HIDE DEF broken, limit, more, last
    <3>3. x = broken \/ x = limit \/ x = more \/ x = last
      BY <3>1, <3>2
    <3>4. begun
      BY <1>4, <2>3
    <3> HIDE DEF begun
    <3> QED
      BY <1>1, <1>2, <1>3, <2>1, <3>3, <3>4, Zenon DEF broken, limit, more, last
  <2>4. CASE kind # "start" /\ from # "partial"
    <3>1. x \in Ignore(from)
      BY <1>4, <2>4 DEF Collect
    <3>2. x = Fed(IF from = "waiting" THEN "waiting" ELSE "idle", FALSE)
      BY <3>1, Zenon DEF Ignore
    <3>3. x = Fed("waiting", FALSE) \/ x = Fed("idle", FALSE)
      BY <3>2, Zenon
    <3> QED
      BY <1>1, <1>3, <2>1, <3>3, Zenon
  <2> QED
    BY <2>2, <2>3, <2>4
<1>5. CASE Bare(kind)
  <2>1. r = Fed(psi, FALSE) \/ r = Fed("waiting", FALSE)
    BY <1>5, Zenon DEF Feed
  <2>2. psi # "partial" \/ begun
    OBVIOUS
  <2>3. FALSE \in BOOLEAN
    OBVIOUS
  <2>4. Fine(r)
    BY <1>1, <1>3, <2>1, <2>2, <2>3, Zenon
  <2> QED
    BY <2>4 DEF Fine
<1>6. CASE ~Bare(kind) /\ kind = "again"
  <2>1. r = [Fed(psi, FALSE) EXCEPT !.duplicate = TRUE]
    BY <1>6, Zenon DEF Feed
  <2>2. r.psi = psi /\ r.section = FALSE /\ r.issue = "ok" /\ r.duplicate = TRUE
    BY <2>1 DEF Fed
  <2> QED
    BY <1>6, <2>2, Zenon
<1>7. CASE ~Bare(kind) /\ kind # "again"
  <2>1. r = Failed("broken") \/ r \in Collect(psi, kind) \/ r \in Collect("waiting", kind)
    BY <1>7 DEF Feed
  <2>2. Fine(r)
    BY <1>2, <1>3, <1>4, <2>1, Zenon
  <2> QED
    BY <2>2 DEF Fine
<1> QED
  BY <1>5, <1>6, <1>7

LEMMA ConcatAssociates ==
    ASSUME NEW s \in Seq(Item), NEW t \in Seq(Item), NEW u \in Seq(Item)
    PROVE  (s \o t) \o u = s \o (t \o u)
<1>1. (s \o t) \o u \in Seq(Item) /\ s \o (t \o u) \in Seq(Item)
      /\ Len((s \o t) \o u) = Len(s) + Len(t) + Len(u)
      /\ Len(s \o (t \o u)) = Len(s) + Len(t) + Len(u)
  OBVIOUS
<1>2. ASSUME NEW i \in 1 .. Len(s) + Len(t) + Len(u)
      PROVE  ((s \o t) \o u)[i] = (s \o (t \o u))[i]
  BY <1>2
<1> QED
  BY <1>1, <1>2

\* The filter when its collectors were reset, or have seen the packet.
Alike(f) ==
    /\ f \in Filters /\ f.file = filter.file /\ f.raw = filter.raw
    /\ f.discovery = filter.discovery /\ f.pending = filter.pending
    /\ f.initialized = filter.initialized /\ f.dropped = filter.dropped
    /\ f.pmtPID = filter.pmtPID /\ f.firstPMT = filter.firstPMT
    /\ f.pmt = "partial" => filter.pmt = "partial"

LEMMA AlikeIsSame ==
    ASSUME FilterAssumption, FilterIInv, stage = "open", NEW f, Alike(f)
    PROVE  Same(f) /\ Held(f) = Held(filter) /\ (f.pmt = "partial" /\ ~f.initialized => f.firstPMT > 0)
<1>1. HeldFits(filter, input)
  BY OpenIs
<1> QED
  BY <1>1 DEF Alike, Same, Held, HeldFits

\* What is to be shown of a step that a packet leads to.
Arrives(g, q) == Good(g, Append(input, q), Switched(filter, g, Len(Append(input, q))))

LEMMA StaysOpen ==
    ASSUME NEW g, filter.raw \/ ~g.raw, NEW q, Good(g, Append(input, q), switch)
    PROVE  Arrives(g, q)
BY DEF Arrives, Switched

LEMMA FallsBack ==
    ASSUME FilterAssumption, FilterIInv, stage = "open", required, ~filter.raw, Room,
           NEW q, IsNext(q), NEW h, h.file = filter.file
    PROVE  /\ Held(h) = Held(filter) =>
                  Arrives(Write(Fallback(h), <<q>>), q) /\ Fell(Fallback(h), <<>>)
           /\ Held(h) = Held(filter) /\ q.class = "tei" => Arrives(Fallback(h), q)
           /\ Held(h) = Held(filter) \o <<q>> => Arrives(Fallback(h), q)
<1>1. filter.file \in Seq(Item) /\ Held(filter) \in Seq(Item) /\ q \in Item /\ <<q>> \in Seq(Item)
  BY OpenIs, HeldIs DEF IsNext
<1>2. Len(input) < MaxPackets
  BY RoomIs
<1> DEFINE file == filter.file \o Held(filter)
<1>3. file \in Seq(Item) /\ file \o <<>> = file /\ file \o <<q>> \in Seq(Item)
      /\ file \o <<q>> = filter.file \o (Held(filter) \o <<q>>)
  <2>1. file \in Seq(Item)
    BY <1>1
  <2>3. file \o <<q>> = filter.file \o (Held(filter) \o <<q>>)
    BY <1>1, ConcatAssociates
  <2> HIDE DEF file
  <2>2. file \o <<>> = file /\ file \o <<q>> \in Seq(Item)
    BY <1>1, <2>1
  <2> QED
    BY <2>1, <2>2, <2>3
<1> HIDE DEF file
<1>4. Held(h) = Held(filter) =>
          /\ Fell(Fallback(h), <<>>) /\ Fell(Write(Fallback(h), <<q>>), <<q>>)
  <2> SUFFICES ASSUME Held(h) = Held(filter)
               PROVE  Fell(Fallback(h), <<>>) /\ Fell(Write(Fallback(h), <<q>>), <<q>>)
    OBVIOUS
  <2>1. Fallback(h) = NewFilter(TRUE, file)
    BY DEF Fallback, file
  <2>2. TRUE \in BOOLEAN
    OBVIOUS
  <2>3. IsNew(NewFilter(TRUE, file), TRUE, file)
    BY <1>3, <2>2, NewIs, Zenon
  <2> DEFINE n == Fallback(h)
  <2>4. IsNew(n, TRUE, file)
    BY <2>1, <2>3, Zenon
  <2> HIDE DEF n
  <2>5. Fell(n, <<>>)
    BY <1>3, <2>4 DEF IsNew, Fell, file
  <2>6. n \in Filters /\ n.file \o <<q>> \in Seq(Item)
    BY <1>3, <2>4 DEF IsNew
  <2>7. HasWritten(Write(n, <<q>>), n, <<q>>)
    BY <2>6, WriteIs
  <2> DEFINE w == Write(n, <<q>>)
  <2>8. HasWritten(w, n, <<q>>)
    BY <2>7
  <2> HIDE DEF w
  <2>9. Fell(w, <<q>>)
    BY <1>3, <2>4, <2>8 DEF IsNew, HasWritten, Fell, file
  <2> QED
    BY <2>5, <2>9 DEF n, w
<1>5. Held(h) = Held(filter) \o <<q>> => Fell(Fallback(h), <<q>>)
  <2> SUFFICES ASSUME Held(h) = Held(filter) \o <<q>>
               PROVE  Fell(Fallback(h), <<q>>)
    OBVIOUS
  <2>1. Fallback(h) = NewFilter(TRUE, file \o <<q>>)
    BY <1>3 DEF Fallback
  <2>2. TRUE \in BOOLEAN
    OBVIOUS
  <2>3. IsNew(NewFilter(TRUE, file \o <<q>>), TRUE, file \o <<q>>)
    BY <1>3, <2>2, NewIs, Zenon
  <2> DEFINE n == Fallback(h)
  <2>4. IsNew(n, TRUE, file \o <<q>>)
    BY <2>1, <2>3, Zenon
  <2> HIDE DEF n
  <2>5. Fell(n, <<q>>)
    BY <1>3, <2>4 DEF IsNew, Fell, file
  <2> QED
    BY <2>5 DEF n
<1>6. ASSUME NEW g, Fell(g, <<q>>) \/ (Fell(g, <<>>) /\ q.class = "tei")
      PROVE  Arrives(g, q)
  BY <1>2, <1>6, FellKeeps DEF Arrives
<1> QED
  BY <1>4, <1>5, <1>6

LEMMA ReplayWrites ==
    ASSUME NEW f, NEW held, NEW first, NEW drops
    PROVE  Replay(f, held, first, drops) = Write(f, Replayed(held, first, f.pmtPID, drops))
BY DEF Replay, Replayed, Pieces, LeftOut, Renewed

\* What is known of the next packet, of a kind that is processed as usual.
Classified(q, kind) ==
    /\ IsNext(q) /\ kind \in Kinds \ {"tei", "malformed"} /\ q.class # "tei"
    /\ kind = "again" => q.class = "again"
    /\ Bare(kind) /\ q.pid \in Tables => q.class = "bare"

LEMMA ReplayedIs ==
    ASSUME FilterAssumption, FilterIInv, stage = "open", NEW q, IsNext(q),
           NEW first \in 1 .. Len(Append(Held(filter), q)),
           Append(Held(filter), q)[first].pid = filter.pmtPID,
           NEW drops \in SUBSET Elementary, NEW h \in Filters, h.file = filter.file,
           h.pmtPID = filter.pmtPID
    PROVE  LET held == Append(Held(filter), q)
           IN HasWritten(Replay(h, held, first, drops), h,
                         Replayed(held, first, filter.pmtPID, drops))
<1> DEFINE held == Append(Held(filter), q)
           r == Replayed(held, first, filter.pmtPID, drops)
<1>1. q \in Item /\ q.num = Len(input) + 1 /\ Len(input) \in Nat
  BY OpenIs DEF IsNext
<1>2. filter.file \in Seq(Item) /\ Held(filter) \in Seq(Item) /\ InOrder(Held(filter))
  BY OpenIs, HeldIs
<1>3. \A x \in ToSet(Held(filter)) : x.num <= Len(input)
  BY SetsAre
<1>4. held \in Seq(Item) /\ InOrder(held)
  <2>1. held = Held(filter) \o <<q>> /\ <<q>> \in Seq(Item) /\ InOrder(<<q>>) /\ ToSet(<<q>>) = {q}
    BY <1>1, <1>2 DEF InOrder, ToSet
  <2>2. \A x \in ToSet(Held(filter)) : x \in Item /\ x.num \in Nat
    BY SetsAre, ItemIs
  <2>3. \A x \in ToSet(Held(filter)), y \in ToSet(<<q>>) : x.num < y.num
    BY <1>1, <1>3, <2>1, <2>2
  <2>4. InOrder(Held(filter) \o <<q>>)
    BY <1>2, <2>1, <2>3, OrderOf
  <2> QED
    BY <1>1, <1>2, <2>1, <2>4
<1> HIDE DEF held
<1>5. r \in Seq(Item)
  <2>1. Replayed(held, first, held[first].pid, drops) \in Seq(Item)
    BY <1>4, ReplayIs DEF held
  <2>2. held[first].pid = filter.pmtPID
    BY DEF held
  <2> QED
    BY <2>1, <2>2
<1>6. Replay(h, held, first, drops) = Write(h, r)
  BY ReplayWrites
<1> HIDE DEF r
<1>7. h.file \o r \in Seq(Item)
  BY <1>2, <1>5
<1>8. HasWritten(Write(h, r), h, r)
  BY <1>7, WriteIs
<1> QED
  BY <1>6, <1>8 DEF held, r

LEMMA UpdatedKeeps ==
    ASSUME FilterAssumption, FilterIInv, stage = "open", Room, required, ~filter.raw,
           filter.initialized, NEW q, IsNext(q), q.class # "tei",
           filter.pending = <<>> => q.pid = filter.pmtPID, NEW drops \in SUBSET Elementary,
           NEW h \in Filters, h.file = filter.file, ~h.raw, h.initialized, h.discovery = <<>>,
           h.pending = Append(filter.pending, q), h.pmtPID = filter.pmtPID
    PROVE  Arrives(Updated(h, drops), q)
<1> DEFINE n == Replay(h, h.pending, 1, drops)
           g == Updated(h, drops)
           r == Replayed(Append(Held(filter), q), 1, filter.pmtPID, drops)
<1>1. q \in Item
  BY DEF IsNext
<1>2. filter.discovery = <<>> /\ Held(filter) = filter.pending /\ filter.pending \in Seq(Item)
      /\ (filter.pending # <<>> => filter.pending[1].pid = filter.pmtPID)
  BY OpenIs, HeldIs DEF HeldFits
<1>3. 1 \in 1 .. Len(Append(Held(filter), q)) /\ Append(Held(filter), q)[1].pid = filter.pmtPID
  <2>1. CASE filter.pending = <<>>
    BY <1>1, <1>2, <2>1
  <2>2. CASE filter.pending # <<>>
    <3>1. Append(filter.pending, q)[1] = filter.pending[1]
      BY <1>1, <1>2, <2>2
    <3> QED
      BY <1>1, <1>2, <2>2, <3>1
  <2> QED
    BY <2>1, <2>2
<1>4. HasWritten(n, h, r)
  BY <1>2, <1>3, ReplayedIs
<1>5. filter.pmtPID \in Tables
  BY TableIs
<1>6. g = [n EXCEPT !.pending = <<>>, !.dropped = drops]
  BY DEF Updated
<1> HIDE DEF n, g, r
<1>7. /\ g \in Filters /\ g.file = filter.file \o r /\ ~g.raw /\ g.initialized
      /\ g.discovery = <<>> /\ g.pending = <<>> /\ g.pmtPID = filter.pmtPID /\ g.dropped = drops
  BY <1>4, <1>6 DEF HasWritten, Filters
<1>8. Completes(g, q, 1, drops)
  BY <1>3, <1>5, <1>7 DEF Completes, r
<1>9. Good(g, Append(input, q), switch)
  BY <1>8, CompletesKeeps
<1>10. Arrives(g, q)
  BY <1>7, <1>9, StaysOpen
<1> QED
  BY <1>10 DEF g

LEMMA PendingKeeps ==
    ASSUME FilterAssumption, FilterIInv, stage = "open", Room, required, ~filter.raw,
           filter.initialized, NEW f, Alike(f), NEW kind, NEW q, Classified(q, kind),
           filter.pending = <<>> => q.pid = filter.pmtPID, Len(filter.pending) < MaxHeld,
           NEW g \in Pend(f, q, kind)
    PROVE  Arrives(g, q)
<1> DEFINE a == [f EXCEPT !.pending = Append(@, q)]
<1>1. IsNext(q) /\ q.class # "tei" /\ q \in Item /\ kind \in Kinds
  BY DEF Classified, IsNext
<1>2. /\ f \in Filters /\ f.file = filter.file /\ ~f.raw /\ f.initialized
      /\ f.discovery = <<>> /\ f.pending = filter.pending /\ f.dropped = filter.dropped
      /\ f.pmtPID = filter.pmtPID /\ filter.pending \in Seq(Item) /\ f.pmt \in Collector
      /\ Held(filter) = filter.pending
  BY OpenIs, HeldIs DEF HeldFits, Alike, Filters
<1>3. /\ a \in Filters /\ a.file = filter.file /\ ~a.raw /\ a.initialized
      /\ a.discovery = <<>> /\ a.pending = Append(filter.pending, q)
      /\ a.dropped = filter.dropped /\ a.pmtPID = filter.pmtPID
  <2>1. Append(filter.pending, q) \in Seq(Item)
    BY <1>1, <1>2
  <2>2. a = [f EXCEPT !.pending = Append(filter.pending, q)]
    BY <1>2
  <2> HIDE DEF a
  <2> QED
    BY <1>2, <2>1, <2>2 DEF Filters
<1>4. ASSUME NEW h \in Filters, h.file = filter.file, ~h.raw, h.initialized,
             h.discovery = <<>>, h.pending = Append(filter.pending, q),
             h.dropped = filter.dropped, h.pmtPID = filter.pmtPID
      PROVE  Arrives(h, q)
  <2>1. Good(h, Append(input, q), switch)
    BY <1>1, <1>4, PendKeeps
  <2> QED
    BY <1>4, <2>1, StaysOpen
<1> HIDE DEF a
<1>5. CASE q.pid # f.pmtPID
  <2>1. g = a
    BY <1>5 DEF Pend, a
  <2> QED
    BY <1>3, <1>4, <2>1
<1>6. CASE q.pid = f.pmtPID
  <2>1. PICK r \in Feed(f.pmt, kind) :
            LET h == [a EXCEPT !.pmt = r.psi]
            IN g \in CASE r.issue # "ok" -> {Fallback(h)}
                       [] r.issue = "ok" /\ r.section ->
                            {Fallback(h)} \cup {Updated(h, drops) : drops \in SUBSET Elementary}
                       [] OTHER -> {h}
    BY <1>6 DEF Pend, a
  <2> DEFINE h == [a EXCEPT !.pmt = r.psi]
  <2>2. r.psi \in Collector
    BY <1>1, <1>2, FeedIs
  <2>3. /\ h \in Filters /\ h.file = filter.file /\ ~h.raw /\ h.initialized
        /\ h.discovery = <<>> /\ h.pending = Append(filter.pending, q)
        /\ h.dropped = filter.dropped /\ h.pmtPID = filter.pmtPID
    BY <1>3, <2>2 DEF Filters
  <2>4. \/ g = Fallback(h) \/ g = h
        \/ \E drops \in SUBSET Elementary : g = Updated(h, drops)
    BY <2>1, Zenon
  <2> HIDE DEF h
  <2>5. Held(h) = Held(filter) \o <<q>>
    <3>1. Append(filter.pending, q) = filter.pending \o <<q>>
          /\ <<>> \o Append(filter.pending, q) = Append(filter.pending, q)
      BY <1>1, <1>2
    <3> QED
      BY <1>2, <2>3, <3>1 DEF Held
  <2>6. Arrives(Fallback(h), q)
    BY <1>1, <2>3, <2>5, FallsBack
  <2>7. Arrives(h, q)
    BY <1>4, <2>3
  <2>8. ASSUME NEW drops \in SUBSET Elementary
        PROVE  Arrives(Updated(h, drops), q)
    BY <1>1, <2>3, UpdatedKeeps
  <2> QED
    BY <2>4, <2>6, <2>7, <2>8, Zenon
<1> QED
  BY <1>5, <1>6

LEMMA WriteInitializedKeeps ==
    ASSUME FilterAssumption, FilterIInv, stage = "open", Room, required, ~filter.raw,
           filter.initialized, NEW f, Alike(f), NEW kind, NEW q, Classified(q, kind),
           NEW g \in WriteInitialized(f, q, kind)
    PROVE  Arrives(g, q)
<1>1. IsNext(q) /\ q.class # "tei" /\ q \in Item /\ kind \in Kinds
  BY DEF Classified, IsNext
<1>2. /\ f \in Filters /\ f.file = filter.file /\ f.raw = filter.raw /\ ~f.raw /\ f.initialized
      /\ f.discovery = <<>> /\ f.pending = filter.pending /\ f.dropped = filter.dropped
      /\ f.pmtPID = filter.pmtPID /\ filter.pending \in Seq(Item) /\ f.pmt \in Collector
      /\ Held(filter) = filter.pending /\ Held(f) = Held(filter) /\ Same(f)
      /\ filter.file \in Seq(Item) /\ filter.dropped \in SUBSET Elementary
  BY OpenIs, HeldIs, AlikeIsSame DEF HeldFits, Alike, Filters
<1>3. filter.pmtPID \in Tables
  BY TableIs

\* The packet is left out.
<1>4. ASSUME LeavesOut(q)
      PROVE  Arrives(f, q)
  <2>1. f.file = filter.file \o <<>> /\ Held(f) = Held(filter) \o <<>>
    BY <1>2, HeldIs, OpenIs
  <2>2. <<>> # <<q>>
    OBVIOUS
  <2>3. Grows(f, q, <<>>, <<>>)
    BY <1>2, <1>4, <2>1, <2>2 DEF Grows
  <2>4. Good(f, Append(input, q), switch)
    BY <1>1, <1>2, <2>3, SameKeeps
  <2> QED
    BY <1>2, <2>4, StaysOpen

\* The packet is written.
<1>5. ASSUME NEW h \in Filters, h.file = filter.file, h.raw = filter.raw, Same(h),
             Held(h) = Held(filter), filter.pending = <<>>, Passes(q)
      PROVE  Arrives(Write(h, <<q>>), q)
  <2> DEFINE w == Write(h, <<q>>)
  <2>1. filter.file \o <<q>> \in Seq(Item)
    BY <1>1, <1>2
  <2>2. HasWritten(w, h, <<q>>)
    BY <1>5, <2>1, WriteIs
  <2> HIDE DEF w
  <2>3. Held(w) = Held(filter) \o <<>> /\ Held(filter) = <<>> /\ <<>> # <<q>>
    BY <1>2, <1>5, <2>2 DEF HasWritten, Held
  <2>4. Grows(w, q, <<q>>, <<>>)
    BY <1>5, <2>2, <2>3 DEF Grows, HasWritten
  <2>5. Same(w)
    BY <1>5, <2>2 DEF Same, HasWritten
  <2>6. Good(w, Append(input, q), switch)
    BY <1>1, <2>4, <2>5, SameKeeps
  <2>7. ~w.raw
    BY <1>5, <2>2 DEF HasWritten
  <2>8. Arrives(w, q)
    BY <2>6, <2>7, StaysOpen
  <2> QED
    BY <2>8 DEF w
<1>6. CASE filter.pending = <<>> /\ q.pid # filter.pmtPID
  <2>1. g = IF q.pid \in f.dropped THEN f ELSE Write(f, <<q>>)
    BY <1>2, <1>6, Zenon DEF WriteInitialized
  <2>2. CASE q.pid \in filter.dropped
    BY <1>2, <1>4, <1>6, <2>1, <2>2 DEF LeavesOut
  <2>3. CASE q.pid \notin filter.dropped
    <3>1. g = Write(f, <<q>>)
      BY <1>2, <2>1, <2>3
    <3>2. Passes(q)
      BY <1>6, <2>3 DEF Passes
    <3>3. Arrives(Write(f, <<q>>), q)
      BY <1>2, <1>5, <1>6, <3>2
    <3> QED
      BY <3>1, <3>3
  <2> QED
    BY <2>2, <2>3
<1>7. CASE filter.pending = <<>> /\ q.pid = filter.pmtPID /\ Bare(kind)
  <2>1. PICK r \in Feed(f.pmt, kind) : g = Write([f EXCEPT !.pmt = r.psi], <<q>>)
    BY <1>2, <1>7, Zenon DEF WriteInitialized
  <2> DEFINE h == [f EXCEPT !.pmt = r.psi]
  <2>2. r.psi \in Collector
    BY <1>1, <1>2, FeedIs
  <2>3. /\ h \in Filters /\ h.file = filter.file /\ h.raw = filter.raw
        /\ Held(h) = Held(filter) /\ Same(h)
    BY <1>2, <2>2 DEF Filters, Same, Held
  <2>4. Passes(q)
    BY <1>2, <1>3, <1>7 DEF Passes, Classified, FilterAssumption
  <2> HIDE DEF h
  <2>5. Arrives(Write(h, <<q>>), q)
    BY <1>5, <1>7, <2>3, <2>4
  <2> QED
    BY <2>1, <2>5 DEF h
<1>8. CASE ~(filter.pending = <<>> /\ q.pid # filter.pmtPID)
           /\ ~(filter.pending = <<>> /\ q.pid = filter.pmtPID /\ Bare(kind))
  <2>1. g \in (IF q.pid = f.pmtPID /\ kind = "again" THEN {f}
               ELSE IF (f.pending = <<>> /\ kind # "start") \/ Len(f.pending) >= MaxHeld
               THEN {Write(Fallback(f), <<q>>)} ELSE Pend(f, q, kind))
    BY <1>2, <1>8, Zenon DEF WriteInitialized
  <2>2. CASE q.pid = f.pmtPID /\ kind = "again"
    BY <1>2, <1>4, <2>1, <2>2 DEF LeavesOut, Classified
  <2>3. CASE /\ ~(q.pid = f.pmtPID /\ kind = "again")
             /\ (f.pending = <<>> /\ kind # "start") \/ Len(f.pending) >= MaxHeld
    <3>1. g = Write(Fallback(f), <<q>>)
      BY <2>1, <2>3, Zenon
    <3> QED
      BY <1>1, <1>2, <3>1, FallsBack
  <2>4. CASE /\ ~(q.pid = f.pmtPID /\ kind = "again")
             /\ ~((f.pending = <<>> /\ kind # "start") \/ Len(f.pending) >= MaxHeld)
    <3>1. g \in Pend(f, q, kind)
      BY <2>1, <2>4, Zenon
    <3>2. Len(filter.pending) < MaxHeld
      BY <1>2, <2>4 DEF FilterAssumption
    <3> QED
      BY <1>8, <3>1, <3>2, PendingKeeps
  <2> QED
    BY <2>2, <2>3, <2>4
<1> QED
  BY <1>6, <1>7, <1>8

LEMMA UpdatePATKeeps ==
    ASSUME FilterAssumption, FilterIInv, stage = "open", Room, required, ~filter.raw,
           filter.initialized, NEW f, Alike(f), NEW kind, NEW q, Classified(q, kind),
           NEW g \in UpdatePAT(f, q, kind)
    PROVE  Arrives(g, q)
<1>1. IsNext(q) /\ kind \in Kinds /\ f \in Filters /\ f.pat \in Collector
  BY DEF Classified, Alike, Filters
<1>2. PICK r \in Feed(f.pat, kind) :
          \/ g = Write(Fallback([f EXCEPT !.pat = r.psi]), <<q>>)
          \/ g \in WriteInitialized([f EXCEPT !.pat = r.psi], q, kind)
  BY DEF UpdatePAT
<1> DEFINE h == [f EXCEPT !.pat = r.psi]
<1>3. r.psi \in Collector
  BY <1>1, FeedIs
<1>4. Alike(h)
  BY <1>1, <1>3 DEF Alike, Filters
<1>5. h.file = filter.file
  BY <1>4 DEF Alike
<1> HIDE DEF h
<1>6. Held(h) = Held(filter)
  BY <1>4, AlikeIsSame
<1>7. Arrives(Write(Fallback(h), <<q>>), q)
  BY <1>1, <1>5, <1>6, FallsBack
<1>8. g \in WriteInitialized(h, q, kind) => Arrives(g, q)
  BY <1>4, WriteInitializedKeeps
<1> QED
  BY <1>2, <1>7, <1>8 DEF h

\* A filter that discovers the tables, after the packet was added.
Holding(h, q) ==
    /\ h \in Filters /\ ~h.raw /\ ~h.initialized
    /\ h.file = filter.file /\ h.discovery = Append(filter.discovery, q) /\ h.pending = <<>>
    /\ h.pmt = "partial" => h.firstPMT > 0
    /\ h.firstPMT > 0 => /\ h.pmtPID \in Tables /\ h.firstPMT <= Len(h.discovery)
                         /\ h.discovery[h.firstPMT].pid = h.pmtPID

LEMMA HoldingKeeps ==
    ASSUME FilterAssumption, FilterIInv, stage = "open", Room, required, ~filter.raw,
           ~filter.initialized, Len(filter.discovery) < MaxHeld,
           NEW q, IsNext(q), q.class # "tei", NEW h, Holding(h, q)
    PROVE  /\ Arrives(h, q) /\ Arrives(Fallback(h), q)
           /\ h.pmtPID = filter.pmtPID /\ h.firstPMT > 0 =>
                  \A drops \in SUBSET Elementary : Arrives(Initialized(h, drops), q)
<1>1. /\ h \in Filters /\ ~h.raw /\ ~h.initialized /\ h.file = filter.file
      /\ h.discovery = Append(filter.discovery, q) /\ h.pending = <<>>
      /\ h.pmt = "partial" => h.firstPMT > 0
      /\ h.firstPMT > 0 => /\ h.pmtPID \in Tables /\ h.firstPMT <= Len(h.discovery)
                           /\ h.discovery[h.firstPMT].pid = h.pmtPID
  BY DEF Holding
<1>2. q \in Item /\ filter.discovery \in Seq(Item) /\ filter.pending = <<>>
      /\ Held(filter) = filter.discovery
  BY OpenIs, HeldIs DEF IsNext, Filters, HeldFits
<1>3. Good(h, Append(input, q), switch)
  BY <1>1, HoldKeeps
<1>4. Arrives(h, q)
  BY <1>1, <1>3, StaysOpen
<1>5. Held(h) = Held(filter) \o <<q>>
  <2>1. Append(filter.discovery, q) = filter.discovery \o <<q>>
        /\ Append(filter.discovery, q) \o <<>> = Append(filter.discovery, q)
    BY <1>2
  <2> QED
    BY <1>1, <1>2, <2>1 DEF Held
<1>6. Arrives(Fallback(h), q)
  BY <1>1, <1>5, FallsBack
<1>7. ASSUME h.pmtPID = filter.pmtPID, h.firstPMT > 0, NEW drops \in SUBSET Elementary
      PROVE  Arrives(Initialized(h, drops), q)
  <2> DEFINE first == h.firstPMT
             n == Replay(h, h.discovery, first, drops)
             g == Initialized(h, drops)
             r == Replayed(Append(Held(filter), q), first, filter.pmtPID, drops)
  <2>1. h.firstPMT \in Nat
    BY <1>1 DEF Filters, FilterAssumption
  <2> HIDE DEF first
  <2>2. first \in 1 .. Len(Append(Held(filter), q))
        /\ Append(Held(filter), q)[first].pid = filter.pmtPID
    BY <1>1, <1>2, <1>7, <2>1 DEF first
  <2>3. HasWritten(n, h, r)
    BY <1>1, <1>2, <1>7, <2>2, ReplayedIs
  <2>4. g = [n EXCEPT !.discovery = <<>>, !.initialized = TRUE, !.dropped = drops]
    BY DEF Initialized, first
  <2> HIDE DEF n, g, r
  <2>5. /\ g \in Filters /\ g.file = filter.file \o r /\ ~g.raw /\ g.initialized
        /\ g.discovery = <<>> /\ g.pending = <<>> /\ g.pmtPID = filter.pmtPID /\ g.dropped = drops
    BY <1>1, <1>7, <2>3, <2>4 DEF HasWritten, Filters
  <2>6. Completes(g, q, first, drops)
    BY <1>1, <1>7, <2>2, <2>5 DEF Completes, r
  <2>7. Good(g, Append(input, q), switch)
    BY <2>6, CompletesKeeps
  <2>8. Arrives(g, q)
    BY <2>5, <2>7, StaysOpen
  <2> QED
    BY <2>8 DEF g
<1> QED
  BY <1>4, <1>6, <1>7

LEMMA FirstPMTIs ==
    ASSUME NEW f \in Filters, NEW n \in 0 .. MaxHeld
    PROVE  LET g == [f EXCEPT !.firstPMT = n]
           IN /\ g \in Filters /\ g.file = f.file /\ g.raw = f.raw /\ g.initialized = f.initialized
              /\ g.discovery = f.discovery /\ g.pending = f.pending
              /\ g.firstPMT = n /\ g.pmtPID = f.pmtPID /\ g.pmt = f.pmt
BY DEF Filters

LEMMA NameIs ==
    ASSUME NEW f \in Filters, NEW pid \in Tables, 0 \in 0 .. MaxHeld, f.pmtPID # pid
    PROVE  LET g == Name(f, pid)
           IN /\ g \in Filters /\ g.file = f.file /\ g.raw = f.raw /\ g.initialized = f.initialized
              /\ g.discovery = f.discovery /\ g.pending = f.pending
              /\ g.firstPMT = 0 /\ g.pmt = "waiting"
<1>1. Name(f, pid) = [f EXCEPT !.pmtPID = pid, !.pmt = "waiting", !.firstPMT = 0]
  BY DEF Name
<1>2. "waiting" \in Collector
  BY DEF Collector
<1> QED
  BY <1>1, <1>2 DEF Filters

LEMMA DiscoverKeeps ==
    ASSUME FilterAssumption, FilterIInv, stage = "open", Room, required, ~filter.raw,
           ~filter.initialized, Len(filter.discovery) < MaxHeld, NEW f, Alike(f),
           NEW kind, NEW q, Classified(q, kind),
           NEW g \in Discover([f EXCEPT !.discovery = Append(@, q)], q, kind)
    PROVE  Arrives(g, q)
<1> DEFINE d == [f EXCEPT !.discovery = Append(@, q)]
<1>1. IsNext(q) /\ q.class # "tei" /\ q \in Item /\ kind \in Kinds
  BY DEF Classified, IsNext
<1>2. /\ f \in Filters /\ f.file = filter.file /\ ~f.raw /\ ~f.initialized
      /\ f.discovery = filter.discovery /\ f.pending = <<>>
      /\ f.firstPMT = filter.firstPMT /\ f.pmtPID = filter.pmtPID
      /\ filter.discovery \in Seq(Item) /\ f.pmt \in Collector /\ f.pat \in Collector
      /\ (f.pmt = "partial" => filter.firstPMT > 0)
      /\ (filter.firstPMT > 0 => /\ filter.pmtPID \in Tables
                                 /\ filter.firstPMT <= Len(filter.discovery)
                                 /\ filter.discovery[filter.firstPMT].pid = filter.pmtPID)
      /\ filter.firstPMT \in Nat
  BY OpenIs, AlikeIsSame DEF HeldFits, Alike, Filters, FilterAssumption
<1>3. Append(filter.discovery, q) \in Seq(Item)
      /\ Len(Append(filter.discovery, q)) = Len(filter.discovery) + 1
      /\ Append(filter.discovery, q)[Len(filter.discovery) + 1] = q
      /\ \A i \in 1 .. Len(filter.discovery) :
            Append(filter.discovery, q)[i] = filter.discovery[i]
  BY <1>1, <1>2
<1>4. /\ d \in Filters /\ d.file = filter.file /\ ~d.raw /\ ~d.initialized
      /\ d.discovery = Append(filter.discovery, q) /\ d.pending = <<>>
      /\ d.firstPMT = filter.firstPMT /\ d.pmtPID = filter.pmtPID /\ d.pmt = f.pmt
      /\ d.pat = f.pat
  <2>1. d = [f EXCEPT !.discovery = Append(filter.discovery, q)]
    BY <1>2
  <2> HIDE DEF d
  <2> QED
    BY <1>2, <1>3, <2>1 DEF Filters
<1>5. filter.firstPMT > 0 =>
          /\ filter.firstPMT <= Len(d.discovery)
          /\ d.discovery[filter.firstPMT].pid = filter.pmtPID
  BY <1>2, <1>3, <1>4
<1> HIDE DEF d
<1>6. Holding(d, q)
  BY <1>2, <1>4, <1>5 DEF Holding
<1>7. CASE q.pid = "pat"
  <2>1. PICK r \in Feed(d.pat, kind) :
            LET h == [d EXCEPT !.pat = r.psi]
            IN g \in IF r.issue = "limit" THEN {Fallback(h)}
                     ELSE IF r.section THEN {h} \cup {Name(h, pid) : pid \in Tables}
                     ELSE {h}
    <3>1. Discover(d, q, kind) = DiscoverPAT(d, q, kind)
      <4>1. d.pmtPID \in Tables \cup {"none"}
        BY <1>4 DEF Filters
      <4>2. q.pid # d.pmtPID
        BY <1>7, <4>1 DEF FilterAssumption
      <4> QED
        BY <1>7, <4>2 DEF Discover
    <3>2. g \in DiscoverPAT(d, q, kind)
      BY <3>1 DEF d
    <3> QED
      BY <3>2, Zenon DEF DiscoverPAT
  <2> DEFINE h == [d EXCEPT !.pat = r.psi]
  <2>2. g = Fallback(h) \/ g = h \/ \E pid \in Tables : g = Name(h, pid)
    BY <2>1
  <2>3. r.psi \in Collector
    BY <1>1, <1>2, <1>4, FeedIs
  <2>4. Holding(h, q)
    BY <1>6, <2>3 DEF Holding, Filters
  <2> HIDE DEF h
  <2>5. ASSUME NEW pid \in Tables
        PROVE  Holding(Name(h, pid), q)
    <3>1. CASE h.pmtPID = pid
      BY <2>4, <3>1 DEF Name
    <3>2. CASE h.pmtPID # pid
      <4> DEFINE n == Name(h, pid)
      <4>1. h \in Filters /\ 0 \in 0 .. MaxHeld
        BY <2>4 DEF Holding, FilterAssumption
      <4>2. /\ n \in Filters /\ n.file = h.file /\ n.raw = h.raw /\ n.initialized = h.initialized
            /\ n.discovery = h.discovery /\ n.pending = h.pending
            /\ n.firstPMT = 0 /\ n.pmt = "waiting"
        BY <3>2, <4>1, NameIs
      <4> HIDE DEF n
      <4>3. Holding(n, q)
        BY <2>4, <4>2 DEF Holding
      <4> QED
        BY <4>3 DEF n
    <3> QED
      BY <3>1, <3>2
  <2> QED
    BY <1>1, <2>2, <2>4, <2>5, HoldingKeeps
<1>8. CASE q.pid # "pat" /\ q.pid = filter.pmtPID
  <2>1. PICK r \in Feed(d.pmt, kind) :
            LET a == [d EXCEPT !.pmt = r.psi]
                h == IF kind \in {"start", "flagged"} /\ ~r.duplicate
                     THEN [a EXCEPT !.firstPMT = Len(d.discovery)] ELSE a
            IN g \in CASE r.issue = "limit" -> {Fallback(a)}
                       [] r.issue = "broken" -> {[a EXCEPT !.firstPMT = 0]}
                       [] r.issue = "ok" /\ r.section ->
                            {h, Fallback(h)} \cup {Initialized(h, drops) : drops \in SUBSET Elementary}
                       [] OTHER -> {h}
    BY <1>4, <1>8 DEF Discover, DiscoverPMT, d
  <2> DEFINE a == [d EXCEPT !.pmt = r.psi]
             b == [a EXCEPT !.firstPMT = Len(d.discovery)]
             z == [a EXCEPT !.firstPMT = 0]
             started == kind \in {"start", "flagged"} /\ ~r.duplicate
             h == IF started THEN b ELSE a
  <2>2. /\ r.psi \in Collector /\ r.issue \in {"ok", "broken", "limit"}
        /\ r.section => r.issue = "ok" /\ (kind = "start" \/ f.pmt = "partial")
        /\ r.psi = "partial" => kind = "start" \/ f.pmt = "partial"
        /\ r.duplicate => kind = "again"
        /\ r.issue # "ok" => r.psi = "waiting"
    BY <1>1, <1>2, <1>4, FeedIs
  <2>3. \/ r.issue = "limit" /\ g = Fallback(a)
        \/ r.issue = "broken" /\ g = z
        \/ r.issue = "ok" /\ g = h
        \/ r.section /\ r.issue = "ok" /\
           (g = Fallback(h) \/ \E drops \in SUBSET Elementary : g = Initialized(h, drops))
    BY <2>1, <2>2
  <2>4. filter.pmtPID \in Tables
    <3>1. q.pid \in PIDs /\ filter.pmtPID \in Tables \cup {"none"}
      BY <1>1, <1>2 DEF Item, Alike, Filters
    <3> QED
      BY <1>8, <3>1 DEF PIDs, FilterAssumption
  <2>5. /\ a \in Filters /\ a.file = filter.file /\ ~a.raw /\ ~a.initialized
        /\ a.discovery = d.discovery /\ a.pending = <<>>
        /\ a.firstPMT = filter.firstPMT /\ a.pmtPID = filter.pmtPID /\ a.pmt = r.psi
    BY <1>4, <2>2 DEF Filters
  <2> HIDE DEF a
  <2>6. Len(d.discovery) = Len(filter.discovery) + 1 /\ Len(d.discovery) \in 1 .. MaxHeld
        /\ d.discovery[Len(d.discovery)] = q
    BY <1>2, <1>3, <1>4 DEF FilterAssumption
  <2>7. Holding(b, q) /\ b.firstPMT > 0 /\ b.pmtPID = filter.pmtPID
    <3>1. /\ b \in Filters /\ b.file = filter.file /\ ~b.raw /\ ~b.initialized
          /\ b.discovery = d.discovery /\ b.pending = <<>>
          /\ b.firstPMT = Len(d.discovery) /\ b.pmtPID = filter.pmtPID
      <4>1. Len(d.discovery) \in 0 .. MaxHeld
        BY <2>6 DEF FilterAssumption
      <4> QED
        BY <2>5, <4>1, FirstPMTIs
    <3> HIDE DEF b
    <3> QED
      BY <1>4, <1>8, <2>4, <2>6, <3>1 DEF Holding
  <2>8. ASSUME r.issue = "broken"
        PROVE  Holding(z, q)
    <3>1. /\ z \in Filters /\ z.file = filter.file /\ ~z.raw /\ ~z.initialized
          /\ z.discovery = d.discovery /\ z.pending = <<>> /\ z.firstPMT = 0 /\ z.pmt = r.psi
      <4>1. 0 \in 0 .. MaxHeld
        BY DEF FilterAssumption
      <4> QED
        BY <2>5, <4>1, FirstPMTIs
    <3> HIDE DEF z
    <3> QED
      BY <1>4, <2>2, <2>8, <3>1 DEF Holding
  <2>9. ASSUME r.psi = "partial" => filter.firstPMT > 0
        PROVE  Holding(a, q)
    BY <1>4, <1>5, <2>4, <2>5, <2>9 DEF Holding
  <2> HIDE DEF b, z
  <2>10. ASSUME started
         PROVE  h = b
    BY <2>10
  <2>11. ASSUME ~started
         PROVE  h = a /\ (r.psi = "partial" \/ r.section => filter.firstPMT > 0)
    <3>1. kind = "start" => started
      BY <2>2
    <3> QED
      BY <1>2, <2>2, <2>11, <3>1
  <2> HIDE DEF h
  <2>12. Holding(h, q) /\ h.pmtPID = filter.pmtPID
         /\ (r.section => h.firstPMT > 0)
    <3>1. CASE started
      BY <2>7, <2>10, <3>1
    <3>2. CASE ~started
      BY <2>5, <2>9, <2>11, <3>2
    <3> QED
      BY <3>1, <3>2
  <2>13. CASE r.issue = "limit" /\ g = Fallback(a)
    <3>1. Holding(a, q)
      BY <2>2, <2>9, <2>13
    <3> QED
      BY <1>1, <2>13, <3>1, HoldingKeeps
  <2>14. CASE r.issue = "broken" /\ g = z
    BY <1>1, <2>8, <2>14, HoldingKeeps
  <2>15. CASE g = h \/ g = Fallback(h)
    BY <1>1, <2>12, <2>15, HoldingKeeps
  <2>16. CASE r.section /\ \E drops \in SUBSET Elementary : g = Initialized(h, drops)
    BY <1>1, <2>12, <2>16, HoldingKeeps
  <2> QED
    BY <2>3, <2>13, <2>14, <2>15, <2>16
<1>9. CASE q.pid # "pat" /\ q.pid # filter.pmtPID
  <2>1. g = d
    BY <1>4, <1>9 DEF Discover, d
  <2> QED
    BY <1>1, <1>6, <2>1, HoldingKeeps
<1> QED
  BY <1>7, <1>8, <1>9

\* A packet as it is counted, and the filter after the framer was synchronised.
LEMMA ReceivedIs ==
    ASSUME FilterAssumption, FilterIInv, stage = "open", Room, NEW p \in Stream
    PROVE  LET q == Received(Len(input) + 1, p)
           IN /\ IsNext(q) /\ q.pid = p.pid /\ (q.class = "tei" <=> p.kind = "tei")
              /\ p.kind \notin {"tei", "malformed"} => Classified(q, p.kind)
<1> DEFINE q == Received(Len(input) + 1, p)
<1>1. /\ q.num = Len(input) + 1 /\ q.connection = connection /\ q.pid = p.pid
      /\ q.class = Class(p) /\ q.drops = {}
  BY DEF Received
<1>2. p.pid \in PIDs /\ p.kind \in Kinds
  BY DEF Stream, PIDs, Kinds
<1>3. Class(p) \in {"bare", "payload", "again", "tei"}
  BY DEF Class
<1>4. q \in Item
  <2>1. Len(input) + 1 \in 1 .. MaxPackets + MaxKept /\ connection \in 1 .. MaxConnections
    BY RoomIs, OpenIs DEF FilterAssumption
  <2> QED
    BY <1>2, <1>3, <2>1 DEF Received, Item
<1>5. p.kind = "tei" <=> Class(p) = "tei"
  BY DEF Class
<1>6. p.kind = "again" => Class(p) = "again"
  BY DEF Class
<1>7. Bare(p.kind) /\ p.pid \in Tables => Class(p) = "bare"
  BY DEF Class, Bare
<1> HIDE DEF q
<1>8. IsNext(q)
  BY <1>1, <1>3, <1>4 DEF IsNext
<1>9. p.kind \notin {"tei", "malformed"} => Classified(q, p.kind)
  BY <1>1, <1>2, <1>5, <1>6, <1>7, <1>8 DEF Classified
<1> QED
  BY <1>1, <1>5, <1>8, <1>9 DEF q

LEMMA BeforeIs ==
    ASSUME FilterAssumption, FilterIInv, stage = "open", NEW resynchronized \in BOOLEAN
    PROVE  \/ Alike(Before(resynchronized))
           \/ /\ resynchronized /\ required /\ ~filter.raw
              /\ \E h : /\ h.file = filter.file /\ Held(h) = Held(filter)
                        /\ Before(resynchronized) = Fallback(h)
<1> DEFINE h == [filter EXCEPT !.pat = "waiting", !.pmt = "waiting"]
<1>1. filter \in Filters /\ "waiting" \in Collector /\ "waiting" # "partial"
  BY OpenIs DEF Collector
<1>2. Alike(filter)
  BY <1>1 DEF Alike
<1>3. Alike(h) /\ Held(h) = Held(filter) /\ h.file = filter.file /\ h.pending = filter.pending
  BY <1>1 DEF Alike, Filters, Held
<1>4. filter.pending # <<>> => required /\ ~filter.raw
  <2>1. Held(filter) = <<>> => filter.pending = <<>>
    BY OpenIs, HeldIs
  <2> QED
    BY <2>1, OpenIs DEF HeldFits
<1>5. Before(resynchronized) = IF resynchronized
                               THEN IF filter.pending # <<>> THEN Fallback(h) ELSE h
                               ELSE filter
  BY <1>3 DEF Before, Resynchronized
<1> HIDE DEF h
<1> QED
  BY <1>2, <1>3, <1>4, <1>5

\* A filter that writes all, of which only the collectors were reset.
LEMMA RawKeeps ==
    ASSUME FilterAssumption, FilterIInv, stage = "open", Room, filter.raw \/ ~required,
           NEW b, Alike(b), NEW q, IsNext(q)
    PROVE  Good(b, input, switch) /\ Good(Write(b, <<q>>), Append(input, q), switch)
           /\ b.raw = filter.raw /\ Write(b, <<q>>).raw = filter.raw
<1>1. /\ b \in Filters /\ b.file = filter.file /\ b.raw = filter.raw /\ Same(b)
      /\ Held(b) = Held(filter) /\ filter.file \in Seq(Item) /\ Held(filter) = <<>> /\ q \in Item
  BY AlikeIsSame, OpenIs DEF Alike, HeldFits, Filters, IsNext
<1>2. Good(b, input, switch)
  BY <1>1, NothingKeeps
<1> DEFINE w == Write(b, <<q>>)
<1>3. filter.file \o <<q>> \in Seq(Item)
  BY <1>1
<1>4. HasWritten(w, b, <<q>>)
  BY <1>1, <1>3, WriteIs
<1> HIDE DEF w
<1>5. Held(w) = Held(filter) \o <<>> /\ <<>> # <<q>>
  BY <1>1, <1>4 DEF HasWritten, Held
<1>6. w.raw = filter.raw
  BY <1>1, <1>4 DEF HasWritten
<1>7. Grows(w, q, <<q>>, <<>>)
  <2>1. ~(required /\ ~filter.raw)
    BY Zenon
  <2> QED
    BY <1>1, <1>4, <1>5, <1>6, <2>1 DEF Grows, HasWritten
<1>8. Same(w)
  BY <1>1, <1>4 DEF Same, HasWritten
<1>9. Good(w, Append(input, q), switch)
  BY <1>7, <1>8, SameKeeps
<1> QED
  BY <1>1, <1>2, <1>6, <1>9 DEF w

\* A control packet that is faulty, or cannot be read.
LEMMA FaultyKeeps ==
    ASSUME FilterAssumption, FilterIInv, stage = "open", Room, required, ~filter.raw,
           NEW b, Alike(b), NEW q, IsNext(q), NEW pid,
           NEW g, g = IF b.initialized THEN Fallback(b) ELSE Clear(b, pid)
    PROVE  /\ Good(g, input, Switched(filter, g, Len(input)))
           /\ q.class = "tei" => Arrives(g, q)
<1>1. /\ b \in Filters /\ b.file = filter.file /\ b.raw = filter.raw /\ ~b.raw
      /\ Held(b) = Held(filter) /\ b.initialized = filter.initialized
      /\ filter.file \in Seq(Item) /\ Held(filter) \in Seq(Item)
  BY AlikeIsSame, OpenIs, HeldIs DEF Alike
<1>2. CASE b.initialized
  <2>1. g = Fallback(b)
    BY <1>2
  <2>2. Fell(g, <<>>) /\ (q.class = "tei" => Arrives(g, q))
    BY <1>1, <2>1, FallsBack
  <2>3. Good(g, input, Switched(filter, g, Len(input)))
    BY <2>2, FellKeeps
  <2> QED
    BY <2>2, <2>3
<1>3. CASE ~b.initialized
  <2>1. g = Clear(b, pid)
    BY <1>3
  <2>2. Alike(g)
    <3>1. "waiting" \in Collector /\ "waiting" # "partial"
      BY DEF Collector
    <3>2. g = [b EXCEPT !.pat = "waiting"] \/ g = [b EXCEPT !.pmt = "waiting"]
      BY <2>1 DEF Clear
    <3> QED
      BY <1>1, <3>1, <3>2 DEF Alike, Filters
  <2>3. Same(g) /\ g \in Filters /\ g.raw = filter.raw /\ g.file = filter.file
        /\ Held(g) = Held(filter)
    BY <2>2, AlikeIsSame DEF Alike
  <2>4. Good(g, input, switch)
    BY <2>3, NothingKeeps
  <2>5. ~g.raw
    BY <1>1, <2>3
  <2>6. Switched(filter, g, Len(input)) = switch
    BY <2>5 DEF Switched
  <2>7. ASSUME q.class = "tei"
        PROVE  Arrives(g, q)
    <3>1. filter.file \o <<>> = filter.file /\ Held(filter) \o <<>> = Held(filter)
          /\ <<>> # <<q>>
      BY <1>1
    <3>2. LeavesOut(q)
      BY <1>1, <1>3, <2>7 DEF LeavesOut
    <3>3. Grows(g, q, <<>>, <<>>)
      BY <2>3, <3>1, <3>2 DEF Grows
    <3>4. Good(g, Append(input, q), switch)
      BY <2>3, <3>3, SameKeeps
    <3> QED
      BY <2>5, <3>4, StaysOpen
  <2> QED
    BY <2>4, <2>6, <2>7
<1> QED
  BY <1>2, <1>3

\* A step of the filter, whatever the packet.
LEMMA OutcomesKeep ==
    ASSUME FilterAssumption, FilterIInv, NEW p \in Stream, NEW resynchronized \in BOOLEAN,
           Arriving(Before(resynchronized), p, resynchronized),
           NEW g \in Outcomes(Before(resynchronized), p)
    PROVE  Good(g, Numbered(p), Switched(filter, g, Len(Numbered(p))))
<1> DEFINE b == Before(resynchronized)
           q == Received(Len(input) + 1, p)
           kind == p.kind
<1>1. stage = "open" /\ Room
  BY DEF Arriving, Room
<1>2. /\ IsNext(q) /\ q.pid = p.pid /\ (q.class = "tei" <=> kind = "tei")
      /\ kind \notin {"tei", "malformed"} => Classified(q, kind)
  BY <1>1, ReceivedIs
<1>3. Alike(b) \/ (/\ resynchronized /\ required /\ ~filter.raw
                   /\ \E h : h.file = filter.file /\ Held(h) = Held(filter) /\ b = Fallback(h))
  BY <1>1, BeforeIs
<1>4. g \in Process(b, q, kind)
  BY DEF Outcomes
<1>5. resynchronized => kind # "malformed"
  BY DEF Arriving
<1>6. kind = "tei" => Control(b, q.pid)
  BY <1>2 DEF Arriving
<1>7. Numbered(p) = IF kind = "malformed" THEN input ELSE Append(input, q)
  BY DEF Numbered
<1> HIDE DEF b, q, kind
<1>8. SUFFICES /\ kind = "malformed" => Good(g, input, Switched(filter, g, Len(input)))
               /\ kind # "malformed" => Arrives(g, q)
  BY <1>7 DEF Arrives
<1>9. CASE ~Alike(b)
  <2>1. PICK h : h.file = filter.file /\ Held(h) = Held(filter) /\ b = Fallback(h)
    BY <1>3, <1>9
  <2>2. required /\ ~filter.raw /\ kind # "malformed"
    BY <1>3, <1>5, <1>9
  <2>3. b.raw = TRUE
    BY <2>1 DEF Fallback, NewFilter
  <2>4. g \in {IF kind = "malformed" THEN b ELSE Write(b, <<q>>)}
    BY <1>4, <2>3, Zenon DEF Process
  <2>5. g = Write(Fallback(h), <<q>>)
    BY <2>1, <2>2, <2>4
  <2> QED
    BY <1>1, <1>2, <2>1, <2>2, <2>5, FallsBack
<1>10. CASE Alike(b) /\ (filter.raw \/ ~required)
  <2>1. b.raw \/ ~required
    BY <1>10 DEF Alike
  <2>2. g \in {IF kind = "malformed" THEN b ELSE Write(b, <<q>>)}
    BY <1>4, <2>1, Zenon DEF Process
  <2>3. Good(b, input, switch) /\ Good(Write(b, <<q>>), Append(input, q), switch)
        /\ b.raw = filter.raw /\ Write(b, <<q>>).raw = filter.raw
    BY <1>1, <1>2, <1>10, RawKeeps
  <2>4. CASE kind = "malformed"
    <3>1. g = b /\ (filter.raw \/ ~g.raw)
      BY <2>2, <2>3, <2>4
    <3>2. Switched(filter, g, Len(input)) = switch
      BY <3>1 DEF Switched
    <3> QED
      BY <2>3, <2>4, <3>1, <3>2
  <2>5. CASE kind # "malformed"
    <3>1. g = Write(b, <<q>>)
      BY <2>2, <2>5
    <3>2. filter.raw \/ ~g.raw
      BY <2>3, <3>1
    <3>3. Good(g, Append(input, q), switch)
      BY <2>3, <3>1
    <3> QED
      BY <2>5, <3>2, <3>3, StaysOpen
  <2> QED
    BY <2>4, <2>5
<1>11. CASE Alike(b) /\ required /\ ~filter.raw
  <2>1. /\ ~b.raw /\ b.file = filter.file /\ b.initialized = filter.initialized
        /\ b.discovery = filter.discovery /\ b \in Filters /\ b.raw = filter.raw
    BY <1>11 DEF Alike
  <2>2. Same(b) /\ Held(b) = Held(filter)
    BY <1>1, <1>11, AlikeIsSame
  <2>3. CASE kind \in {"malformed", "tei"} /\ Control(b, q.pid)
    <3>1. g \in {IF b.initialized THEN Fallback(b) ELSE Clear(b, q.pid)}
      BY <1>4, <1>11, <2>1, <2>3, Zenon DEF Process
    <3>2. g = IF b.initialized THEN Fallback(b) ELSE Clear(b, q.pid)
      BY <3>1, Zenon
    <3>3. /\ Good(g, input, Switched(filter, g, Len(input)))
          /\ q.class = "tei" => Arrives(g, q)
      BY <1>1, <1>2, <1>11, <3>2, FaultyKeeps
    <3> QED
      BY <1>2, <2>3, <3>3
  <2>4. CASE kind = "malformed" /\ ~Control(b, q.pid)
    <3>1. g \in {b}
      BY <1>4, <1>11, <2>1, <2>4, Zenon DEF Process
    <3>2. g = b
      BY <3>1
    <3>3. Good(g, input, switch)
      BY <1>1, <2>1, <2>2, <3>2, NothingKeeps
    <3>4. Switched(filter, g, Len(input)) = switch
      BY <2>1, <3>2 DEF Switched
    <3> QED
      BY <2>4, <3>3, <3>4
  <2>5. CASE kind \notin {"malformed", "tei"}
    <3>1. g \in (IF b.initialized
                 THEN IF q.pid = "pat" THEN UpdatePAT(b, q, kind) ELSE WriteInitialized(b, q, kind)
                 ELSE IF Len(b.discovery) >= MaxHeld THEN {Write(Fallback(b), <<q>>)}
                 ELSE Discover([b EXCEPT !.discovery = Append(@, q)], q, kind))
      BY <1>4, <1>11, <2>1, <2>5 DEF Process
    <3>2. Classified(q, kind)
      BY <1>2, <2>5
    <3>3. CASE b.initialized /\ q.pid = "pat"
      <4>1. g \in UpdatePAT(b, q, kind)
        BY <3>1, <3>3, Zenon
      <4>2. Arrives(g, q)
        BY <1>1, <1>11, <2>1, <3>2, <3>3, <4>1, UpdatePATKeeps
      <4> QED
        BY <2>5, <4>2
    <3>4. CASE b.initialized /\ q.pid # "pat"
      <4>1. g \in WriteInitialized(b, q, kind)
        BY <3>1, <3>4, Zenon
      <4>2. Arrives(g, q)
        BY <1>1, <1>11, <2>1, <3>2, <3>4, <4>1, WriteInitializedKeeps
      <4> QED
        BY <2>5, <4>2
    <3>5. CASE ~b.initialized /\ Len(b.discovery) >= MaxHeld
      <4>1. g = Write(Fallback(b), <<q>>)
        BY <3>1, <3>5
      <4>2. Arrives(g, q)
        BY <1>1, <1>2, <1>11, <2>1, <2>2, <4>1, FallsBack
      <4> QED
        BY <2>5, <4>2
    <3>6. CASE ~b.initialized /\ ~(Len(b.discovery) >= MaxHeld)
      <4>1. g \in Discover([b EXCEPT !.discovery = Append(@, q)], q, kind)
        BY <3>1, <3>6, Zenon
      <4>2. Len(filter.discovery) < MaxHeld
        BY <1>1, <2>1, <3>6, OpenIs DEF FilterAssumption, Filters
      <4>3. Arrives(g, q)
        BY <1>1, <1>11, <2>1, <3>2, <3>6, <4>1, <4>2, DiscoverKeeps
      <4> QED
        BY <2>5, <4>3
    <3> QED
      BY <3>3, <3>4, <3>5, <3>6
  <2> QED
    BY <1>6, <2>3, <2>4, <2>5
<1> QED
  BY <1>9, <1>10, <1>11

\* A filter that is given up keeps what it has written, or a part of it.
LEMMA CutKeeps ==
    ASSUME FilterAssumption, NEW g, g \in Filters, NEW arrived, NEW sw, Written(g, arrived, sw),
           NEW file \in Seq(Item), ToSet(file) \subseteq ToSet(g.file), InOrder(file),
           NEW n, n = NewFilter(g.raw, file)
    PROVE  IsNew(n, g.raw, file) /\ Held(n) = <<>> /\ Written(n, arrived, sw)
<1>1. g.raw \in BOOLEAN
  BY DEF Filters
<1>2. IsNew(n, g.raw, file)
  BY <1>1, NewIs
<1>3. /\ n.file = file /\ (n.raw <=> g.raw) /\ n.discovery = <<>> /\ n.pending = <<>>
      /\ ~n.initialized /\ n.pmt # "partial" /\ n.firstPMT = 0
  BY <1>1, <1>2 DEF IsNew, Filters
<1>4. Held(n) = <<>> /\ file \o <<>> = file /\ ToSet(<<>>) = {}
  BY <1>3 DEF Held, ToSet
<1>5. InOrder(n.file \o Held(n))
  BY <1>3, <1>4
<1>6. Replaced(n, sw)
  <2>1. \A q : OwnTables(n, q) \subseteq OwnTables(g, q)
    BY <1>3 DEF OwnTables
  <2>2. Replaced(g, sw)
    BY DEF Written
  <2> QED
    BY <1>3, <2>1, <2>2 DEF Replaced
<1>7. ArrivedFits(arrived)
  BY DEF Written
<1>8. FileFits(n, arrived)
  <2>1. FileFits(g, arrived)
    BY DEF Written
  <2> QED
    BY <1>3, <2>1 DEF FileFits
<1>9. HeldFits(n, arrived)
  BY <1>3, <1>4 DEF HeldFits
<1>10. SwitchFits(n, arrived, sw) /\ LengthFits(n, arrived, sw)
  BY <1>3 DEF Written, SwitchFits, LengthFits
<1> QED
  BY <1>2, <1>4, <1>5, <1>6, <1>7, <1>8, <1>9, <1>10 DEF Written

\* Nothing is lost when a filter is given up that holds nothing back.
LEMMA EndKeeps ==
    ASSUME FilterAssumption, NEW g, g \in Filters, NEW arrived, NEW sw, Faithful(g, arrived, sw),
           Held(g) = <<>>, NEW n, n = NewFilter(g.raw, g.file)
    PROVE  IsNew(n, g.raw, g.file) /\ Held(n) = <<>> /\ Faithful(n, arrived, sw)
<1>1. Written(g, arrived, sw) /\ SelectedBy(g, arrived, sw) /\ AllKept(g, arrived, sw)
  BY DEF Faithful
<1>2. g.file \in Seq(Item) /\ InOrder(g.file)
  <2>1. g.file \in Seq(Item) /\ InOrder(g.file \o Held(g))
    BY <1>1 DEF Written, Filters
  <2>2. g.file \o <<>> = g.file
    BY <2>1
  <2> QED
    BY <2>1, <2>2
<1>3. IsNew(n, g.raw, g.file) /\ Held(n) = <<>> /\ Written(n, arrived, sw)
  BY <1>1, <1>2, CutKeeps
<1>4. n.file = g.file
  BY <1>3 DEF IsNew
<1>5. \A q : /\ OwnTables(n, q) = OwnTables(g, q)
             /\ \A t : IsTableOf(n, t, q) <=> IsTableOf(g, t, q)
             /\ Kept(n, q) <=> Kept(g, q)
             /\ Decided(n, q) <=> Decided(g, q)
  BY <1>3, <1>4 DEF OwnTables, IsTableOf, Kept, Decided
<1>6. SelectedBy(n, arrived, sw)
  BY <1>1, <1>5 DEF SelectedBy
<1>7. AllKept(n, arrived, sw)
  BY <1>1, <1>5 DEF AllKept
<1> QED
  BY <1>3, <1>6, <1>7 DEF Faithful
-----------------------------------------------------------------------------
\* The properties read of the state only whether something is to be left out,
\* and some of them the number of the connection.
LEMMA NextIs ==
    ASSUME UNCHANGED required
    PROVE  /\ InOrder(filter'.file \o Held(filter')) => InOrder(filter.file \o Held(filter))'
           /\ Replaced(filter', switch') => Replaced(filter, switch)'
           /\ SelectedBy(filter', input', switch') => SelectedBy(filter, input, switch)'
           /\ AllKept(filter', input', switch') => AllKept(filter, input, switch)'
           /\ SwitchFits(filter', input', switch') => SwitchFits(filter, input, switch)'
           /\ LengthFits(filter', input', switch') => LengthFits(filter, input, switch)'
<1>1. InOrder(filter'.file \o Held(filter')) => InOrder(filter.file \o Held(filter))'
  BY DEF InOrder, Held
<1>2. Replaced(filter', switch') => Replaced(filter, switch)'
  BY DEF Replaced, Selecting, OwnTables
<1>3. SelectedBy(filter', input', switch') => SelectedBy(filter, input, switch)'
  BY DEF SelectedBy, Selecting, OwnTables, IsTableOf, Kept, Decided, Held
<1>4. AllKept(filter', input', switch') => AllKept(filter, input, switch)'
  BY DEF AllKept, Selecting, Kept, Decided, Held
<1>5. SwitchFits(filter', input', switch') => SwitchFits(filter, input, switch)'
  BY DEF SwitchFits, Never
<1>6. LengthFits(filter', input', switch') => LengthFits(filter, input, switch)'
  BY DEF LengthFits
<1> QED
  BY <1>1, <1>2, <1>3, <1>4, <1>5, <1>6

LEMMA InConnection ==
    ASSUME UNCHANGED <<required, connection>>
    PROVE  /\ Written(filter', input', switch') => Written(filter, input, switch)'
           /\ Faithful(filter', input', switch') => Faithful(filter, input, switch)'
           /\ Working(filter', input') => Working(filter, input)'
<1>1. ArrivedFits(input') => ArrivedFits(input)'
  BY DEF ArrivedFits
<1>2. FileFits(filter', input') => FileFits(filter, input)'
  BY DEF FileFits
<1>3. HeldFits(filter', input') => HeldFits(filter, input)'
  BY DEF HeldFits, Held
<1>4. HoldsAll(filter', input') => HoldsAll(filter, input)'
  BY DEF HoldsAll
<1>5. TableFits(filter') => TableFits(filter)'
  BY DEF TableFits
<1>6. Written(filter', input', switch') => Written(filter, input, switch)'
  BY <1>1, <1>2, <1>3, NextIs DEF Written
<1>7. Faithful(filter', input', switch') => Faithful(filter, input, switch)'
  BY <1>6, NextIs DEF Faithful
<1>8. Working(filter', input') => Working(filter, input)'
  BY <1>4, <1>5 DEF Working
<1> QED
  BY <1>6, <1>7, <1>8

LEMMA GoodStep ==
    ASSUME FilterIInv, UNCHANGED <<required, connection, stage, writeFaults>>, stage = "open",
           Good(filter', input', switch')
    PROVE  FilterIInv'
<1>1. /\ filter' \in Filters /\ Len(filter'.discovery) <= MaxHeld
      /\ Len(filter'.pending) <= MaxHeld /\ input' \in Seq(Item) /\ switch' \in Switches
      /\ Faithful(filter', input', switch') /\ Working(filter', input')
      /\ Written(filter', input', switch')
  BY DEF Good, Faithful
<1>2. FilterTypeOK'
  BY <1>1 DEF FilterIInv, FilterTypeOK
<1>3. Written(filter, input, switch)' /\ Faithful(filter, input, switch)'
      /\ Working(filter, input)'
  BY <1>1, InConnection
<1> QED
  BY <1>2, <1>3 DEF FilterIInv

\* ... and a step after which the filter is not used again.
LEMMA LastStep ==
    ASSUME FilterAssumption, FilterIInv, UNCHANGED <<required, connection>>,
           writeFaults' \in 0 .. MaxWriteFaults, stage' \in {"ended", "over"},
           NEW raw, NEW file, IsNew(filter', raw, file), Held(filter') = <<>>,
           input' \in Seq(Item), switch' \in Switches,
           Written(filter', input', switch'),
           stage' = "ended" => Faithful(filter', input', switch')
    PROVE  FilterIInv'
<1>1. /\ filter' \in Filters /\ filter'.discovery = <<>> /\ filter'.pending = <<>>
      /\ ~filter'.initialized
  BY DEF IsNew
<1>2. FilterTypeOK'
  <2>1. Len(filter'.discovery) <= MaxHeld /\ Len(filter'.pending) <= MaxHeld
    BY <1>1 DEF FilterAssumption
  <2> QED
    BY <1>1, <2>1 DEF FilterIInv, FilterTypeOK
<1>3. Written(filter, input, switch)'
      /\ (stage' = "ended" => Faithful(filter, input, switch)')
  BY InConnection
<1>4. (Held(filter) = <<>>)'
  BY DEF Held
<1> QED
  BY <1>1, <1>2, <1>3, <1>4 DEF FilterIInv

LEMMA FilterStarts ==
    ASSUME FilterAssumption, FilterInit
    PROVE  FilterIInv
<1>1. /\ required \in BOOLEAN /\ filter = NewFilter(FALSE, <<>>) /\ input = <<>>
      /\ connection = 1 /\ stage = "open" /\ switch = Never /\ writeFaults = 0
  BY DEF FilterInit
<1>2. <<>> \in Seq(Item) /\ FALSE \in BOOLEAN /\ Len(<<>>) = 0 /\ <<>> \o <<>> = <<>>
      /\ ToSet(<<>>) = {} /\ DOMAIN <<>> = {}
  BY DEF ToSet
<1>3. IsNew(NewFilter(FALSE, <<>>), FALSE, <<>>)
  BY <1>2, NewIs, Zenon
<1>4. IsNew(filter, FALSE, <<>>)
  BY <1>1, <1>3, Zenon
<1>5. /\ filter \in Filters /\ ~filter.raw /\ filter.file = <<>> /\ ~filter.initialized
      /\ filter.discovery = <<>> /\ filter.pending = <<>>
      /\ filter.pmt = "fresh" /\ filter.firstPMT = 0
  BY <1>4 DEF IsNew
<1>6. Held(filter) = <<>>
  BY <1>2, <1>5 DEF Held
<1>7. FilterTypeOK
  <2>1. Never \in Switches
    BY DEF FilterAssumption, Switches, Never
  <2>2. Len(filter.discovery) <= MaxHeld /\ Len(filter.pending) <= MaxHeld
    BY <1>2, <1>5 DEF FilterAssumption
  <2>3. connection \in 1 .. MaxConnections /\ writeFaults \in 0 .. MaxWriteFaults
    BY <1>1 DEF FilterAssumption
  <2> QED
    BY <1>1, <1>2, <1>5, <2>1, <2>2, <2>3 DEF FilterTypeOK
<1>8. InOrder(filter.file \o Held(filter))
  BY <1>2, <1>5, <1>6 DEF InOrder
<1>9. /\ Replaced(filter, switch) /\ ArrivedFits(input) /\ FileFits(filter, input)
      /\ SelectedBy(filter, input, switch) /\ AllKept(filter, input, switch)
  BY <1>1, <1>2, <1>5 DEF Replaced, ArrivedFits, FileFits, SelectedBy, AllKept
<1>10. HeldFits(filter, input)
  BY <1>2, <1>5, <1>6 DEF HeldFits
<1>11. SwitchFits(filter, input, switch) /\ LengthFits(filter, input, switch)
  BY <1>1, <1>2, <1>5 DEF SwitchFits, LengthFits, FilterAssumption
<1>12. Working(filter, input)
  BY <1>1, <1>2, <1>5 DEF Working, HoldsAll, TableFits
<1> QED
  BY <1>1, <1>7, <1>8, <1>9, <1>10, <1>11, <1>12 DEF FilterIInv, Faithful, Written

LEMMA WriteFailsKeeps ==
    ASSUME FilterAssumption, FilterIInv, NEW p \in Stream, NEW resynchronized \in BOOLEAN,
           WriteFails(p, resynchronized)
    PROVE  FilterIInv'
<1>1. /\ Arriving(Before(resynchronized), p, resynchronized)
      /\ writeFaults < MaxWriteFaults /\ writeFaults' = writeFaults + 1 /\ stage' = "over"
      /\ input' = Numbered(p) /\ switch' = Switched(filter, filter', Len(input'))
      /\ UNCHANGED <<required, connection>>
  BY DEF WriteFails
<1>2. PICK g \in Outcomes(Before(resynchronized), p) :
          \E written \in Len(filter.file) .. Len(g.file) - 1 :
             filter' = NewFilter(g.raw, SubSeq(g.file, 1, written))
  BY DEF WriteFails
<1>3. PICK written \in Len(filter.file) .. Len(g.file) - 1 :
          filter' = NewFilter(g.raw, SubSeq(g.file, 1, written))
  BY <1>2
<1>4. stage = "open"
  BY <1>1 DEF Arriving
<1>5. Good(g, input', Switched(filter, g, Len(input')))
  BY <1>1, OutcomesKeep
<1> DEFINE file == SubSeq(g.file, 1, written)
<1>6. g \in Filters /\ g.file \in Seq(Item) /\ InOrder(g.file \o Held(g)) /\ Held(g) \in Seq(Item)
      /\ g.raw \in BOOLEAN
  BY <1>5 DEF Good, Faithful, Written, Filters, Held
<1>7. InOrder(g.file)
  BY <1>6, OrderOf
<1>8. written \in Nat /\ written < Len(g.file)
  BY <1>3, <1>4, <1>6, OpenIs DEF Filters
<1>9. file \in Seq(Item) /\ Len(file) = written /\ \A i \in 1 .. written : file[i] = g.file[i]
  BY <1>6, <1>8
<1> HIDE DEF file
<1>10. ToSet(file) \subseteq ToSet(g.file) /\ InOrder(file)
  <2>1. DOMAIN file = 1 .. written /\ DOMAIN g.file = 1 .. Len(g.file) /\ Len(g.file) \in Nat
    BY <1>6, <1>9
  <2>2. \A i \in 1 .. written : i \in 1 .. Len(g.file)
    BY <1>8, <2>1
  <2>3. ToSet(file) \subseteq ToSet(g.file)
    BY <1>9, <2>1, <2>2 DEF ToSet
  <2>4. InOrder(file)
    BY <1>7, <1>9, <2>1, <2>2 DEF InOrder
  <2> QED
    BY <2>3, <2>4
<1>11. filter' = NewFilter(g.raw, file)
  BY <1>3 DEF file
<1>12. IsNew(filter', g.raw, file) /\ Held(filter') = <<>>
       /\ Written(filter', input', Switched(filter, g, Len(input')))
  <2>1. Written(g, input', Switched(filter, g, Len(input')))
    BY <1>5 DEF Good, Faithful
  <2> QED
    BY <1>6, <1>9, <1>10, <1>11, <2>1, CutKeeps
<1>13. switch' = Switched(filter, g, Len(input'))
  BY <1>1, <1>6, <1>12 DEF Switched, IsNew, Filters
<1>14. writeFaults' \in 0 .. MaxWriteFaults
  BY <1>1 DEF FilterIInv, FilterTypeOK, FilterAssumption
<1>15. input' \in Seq(Item) /\ switch' \in Switches
  BY <1>5, <1>13 DEF Good
<1>16. Written(filter', input', switch')
  BY <1>12, <1>13
<1> HIDE DEF file
<1> QED
  BY <1>1, <1>12, <1>14, <1>15, <1>16, LastStep

LEMMA EndStep ==
    ASSUME FilterAssumption, FilterIInv, End
    PROVE  FilterIInv'
<1> DEFINE g == Finished(filter)
<1>1. /\ stage = "open" /\ stage' = "ended" /\ filter' = NewFilter(g.raw, g.file)
      /\ switch' = Switched(filter, g, Len(input))
      /\ UNCHANGED <<required, input, connection, writeFaults>>
  BY DEF End
<1>2. \E k : /\ k \in Filters /\ k.raw = g.raw /\ k.file = g.file /\ Held(k) = <<>>
             /\ Good(k, input, switch')
  <2>1. CASE required /\ (~filter.initialized \/ filter.pending # <<>>)
    <3> DEFINE file == filter.file \o Held(filter)
    <3>1. filter.file \in Seq(Item) /\ Held(filter) \in Seq(Item)
      BY <1>1, OpenIs, HeldIs
    <3>2. file \in Seq(Item) /\ TRUE \in BOOLEAN /\ file \o <<>> = file
          /\ filter.file \o <<>> = filter.file
      BY <3>1
    <3>3. g = NewFilter(TRUE, file)
      BY <2>1 DEF Finished, Fallback
    <3> HIDE DEF file, g
    <3>4. IsNew(NewFilter(TRUE, file), TRUE, file)
      BY <3>2, NewIs, Zenon
    <3>5. IsNew(g, TRUE, file)
      BY <3>3, <3>4, Zenon
    <3>6. CASE ~filter.raw
      <4>1. Fell(g, <<>>)
        BY <2>1, <3>2, <3>5, <3>6 DEF IsNew, Fell, file
      <4>2. Held(g) = <<>> /\ g \in Filters
        BY <4>1 DEF Fell, Held
      <4>3. Good(g, input, switch')
        BY <1>1, <4>1, FellKeeps
      <4> QED
        BY <4>2, <4>3
    <3>7. CASE filter.raw
      <4>1. Held(filter) = <<>> /\ filter \in Filters /\ Good(filter, input, switch)
            /\ filter.raw = TRUE
        BY <1>1, <3>7, OpenIs DEF HeldFits
      <4>2. g.raw = filter.raw /\ g.file = filter.file
        BY <3>2, <3>5, <4>1 DEF IsNew, file
      <4>3. switch' = switch
        BY <1>1, <3>7 DEF Switched
      <4> QED
        BY <4>1, <4>2, <4>3
    <3> QED
      BY <3>6, <3>7
  <2>2. CASE ~(required /\ (~filter.initialized \/ filter.pending # <<>>))
    <3>1. g = filter
      BY <2>2 DEF Finished
    <3>2. Switched(filter, g, Len(input)) = switch
      BY <3>1 DEF Switched
    <3>3. Held(filter) = <<>>
      BY <1>1, <2>2, OpenIs, HeldIs DEF HeldFits
    <3> QED
      BY <1>1, <3>1, <3>2, <3>3, OpenIs
  <2> QED
    BY <2>1, <2>2
<1> HIDE DEF g
<1>3. PICK k : /\ k \in Filters /\ k.raw = g.raw /\ k.file = g.file /\ Held(k) = <<>>
               /\ Good(k, input, switch')
  BY <1>2
<1>4. Faithful(k, input, switch') /\ switch' \in Switches /\ input \in Seq(Item)
  BY <1>3 DEF Good
<1>5. filter' = NewFilter(k.raw, k.file)
  BY <1>1, <1>3
<1>6. IsNew(filter', k.raw, k.file) /\ Held(filter') = <<>> /\ Faithful(filter', input, switch')
  BY <1>3, <1>4, <1>5, EndKeeps
<1>7. writeFaults' \in 0 .. MaxWriteFaults
  BY <1>1 DEF FilterIInv, FilterTypeOK
<1>8. Written(filter', input', switch') /\ Faithful(filter', input', switch')
  BY <1>1, <1>6 DEF Faithful
<1> QED
  BY <1>1, <1>4, <1>6, <1>7, <1>8, LastStep

LEMMA InterruptStep ==
    ASSUME FilterAssumption, FilterIInv, Interrupt
    PROVE  FilterIInv'
<1>1. /\ stage = "open" /\ stage' = "over" /\ filter' = NewFilter(filter.raw, filter.file)
      /\ UNCHANGED <<required, input, connection, switch, writeFaults>>
  BY DEF Interrupt
<1>2. /\ filter \in Filters /\ filter.file \in Seq(Item) /\ InOrder(filter.file)
      /\ input \in Seq(Item) /\ switch \in Switches /\ Written(filter, input, switch)
      /\ writeFaults \in 0 .. MaxWriteFaults
  BY <1>1, OpenIs, HeldIs DEF FilterIInv, FilterTypeOK
<1>3. IsNew(filter', filter.raw, filter.file) /\ Held(filter') = <<>>
      /\ Written(filter', input, switch)
  BY <1>1, <1>2, CutKeeps
<1> QED
  BY <1>1, <1>2, <1>3, LastStep

LEMMA ReconnectStep ==
    ASSUME FilterAssumption, FilterIInv, Reconnect
    PROVE  FilterIInv'
<1>1. /\ stage = "ended" /\ connection < MaxConnections /\ connection' = connection + 1
      /\ stage' = "open" /\ filter' = NewFilter(filter.raw, filter.file)
      /\ UNCHANGED <<required, input, switch, writeFaults>>
  BY DEF Reconnect
<1>2. /\ FilterTypeOK /\ Faithful(filter, input, switch) /\ Held(filter) = <<>>
      /\ filter \in Filters /\ connection \in 1 .. MaxConnections
  BY <1>1 DEF FilterIInv, FilterTypeOK
<1>3. IsNew(filter', filter.raw, filter.file) /\ Held(filter') = <<>>
      /\ Faithful(filter', input', switch')
  BY <1>1, <1>2, EndKeeps
<1>4. /\ filter' \in Filters /\ filter'.file = filter.file
      /\ filter'.raw = filter.raw /\ ~filter'.initialized /\ filter'.discovery = <<>>
      /\ filter'.pending = <<>> /\ filter'.pmt = "fresh" /\ filter'.firstPMT = 0
  BY <1>3 DEF IsNew
<1>5. connection \in Nat /\ connection' \in 1 .. MaxConnections
  BY <1>1, <1>2 DEF FilterAssumption
<1>6. ArrivedFits(input) /\ FileFits(filter, input)
  BY <1>2 DEF Faithful, Written
<1>7. input \in Seq(Item) /\ \A x \in ToSet(filter.file) \cup ToSet(input) :
                                x.connection \in Nat /\ x.connection <= connection
  <2>1. input \in Seq(Item) /\ filter.file \in Seq(Item)
    BY <1>2 DEF FilterTypeOK, Filters
  <2>2. \A x \in ToSet(filter.file) \cup ToSet(input) : x.connection \in Nat
    <3>1. \A x \in ToSet(filter.file) \cup ToSet(input) : x \in Item
      BY <2>1 DEF ToSet
    <3>2. \A x \in Item : x.connection \in Nat
      BY DEF Item, FilterAssumption
    <3> QED
      BY <3>1, <3>2
  <2>3. \A x \in ToSet(filter.file) \cup ToSet(input) : x.connection <= connection
    BY <1>6 DEF FileFits, ArrivedFits, ToSet
  <2> QED
    BY <2>1, <2>2, <2>3
<1>8. FilterTypeOK'
  <2>1. Len(filter'.discovery) <= MaxHeld /\ Len(filter'.pending) <= MaxHeld
    BY <1>4 DEF FilterAssumption
  <2> QED
    BY <1>1, <1>2, <1>4, <1>5, <2>1 DEF FilterTypeOK
<1>9. ArrivedFits(input)'
  <2>1. \A i \in DOMAIN input : input[i] \in ToSet(input)
    BY DEF ToSet
  <2> QED
    BY <1>1, <1>5, <1>6, <1>7, <2>1 DEF ArrivedFits
<1>10. FileFits(filter, input)'
  BY <1>1, <1>4, <1>5, <1>6, <1>7 DEF FileFits
<1>11. HeldFits(filter, input)'
  <2>1. (Held(filter) = <<>>)' /\ ToSet(<<>>) = {}
    BY <1>3 DEF Held, ToSet
  <2> QED
    BY <1>4, <2>1 DEF HeldFits
<1>12. Working(filter, input)'
  <2>1. \A x \in ToSet(filter.file) \cup ToSet(input) : x.connection # connection'
    BY <1>1, <1>5, <1>7
  <2>2. HoldsAll(filter, input)'
    BY <1>1, <1>4, <2>1 DEF HoldsAll
  <2>3. TableFits(filter)'
    BY <1>4 DEF TableFits
  <2> QED
    BY <2>2, <2>3 DEF Working
<1>13. /\ (InOrder(filter.file \o Held(filter)))' /\ Replaced(filter, switch)'
       /\ SwitchFits(filter, input, switch)' /\ LengthFits(filter, input, switch)'
       /\ SelectedBy(filter, input, switch)' /\ AllKept(filter, input, switch)'
  BY <1>1, <1>3, NextIs DEF Faithful, Written
<1>14. Written(filter, input, switch)' /\ Faithful(filter, input, switch)'
  BY <1>9, <1>10, <1>11, <1>13 DEF Written, Faithful
<1> QED
  BY <1>1, <1>8, <1>12, <1>14 DEF FilterIInv

\* The invariant says in particular what is to be shown.
LEMMA FilterIInvSays ==
    ASSUME FilterIInv
    PROVE  FilterFaithful
BY DEF FilterIInv, FilterFaithful, OnceInOrder, SelectedByTable, TableReplaced,
       FallbackKeepsAll, Written, Faithful

LEMMA FilterSteps ==
    ASSUME FilterAssumption, FilterIInv, [FilterNext]_filterVars
    PROVE  FilterIInv'
<1>1. ASSUME NEW p \in Stream, NEW resynchronized \in BOOLEAN, ArrivePacket(p, resynchronized)
      PROVE  FilterIInv'
  <2>1. /\ Arriving(Before(resynchronized), p, resynchronized)
        /\ filter' \in Outcomes(Before(resynchronized), p) /\ input' = Numbered(p)
        /\ switch' = Switched(filter, filter', Len(input'))
        /\ UNCHANGED <<required, connection, stage, writeFaults>>
    BY <1>1 DEF ArrivePacket
  <2>2. stage = "open"
    BY <2>1 DEF Arriving
  <2>3. Good(filter', input', switch')
    BY <2>1, OutcomesKeep
  <2> QED
    BY <2>1, <2>2, <2>3, GoodStep
<1>2. ASSUME NEW p \in Stream, NEW resynchronized \in BOOLEAN, WriteFails(p, resynchronized)
      PROVE  FilterIInv'
  BY <1>2, WriteFailsKeeps
<1>3. CASE UNCHANGED filterVars
  <2>1. UNCHANGED <<required, filter, input, connection, stage, switch, writeFaults>>
    BY <1>3 DEF filterVars
  <2>2. /\ Written(filter, input, switch) => Written(filter, input, switch)'
        /\ Faithful(filter, input, switch) => Faithful(filter, input, switch)'
        /\ Working(filter, input) => Working(filter, input)'
    BY <2>1, InConnection
  <2>3. FilterTypeOK'
    BY <2>1 DEF FilterIInv, FilterTypeOK
  <2>4. (Held(filter) = <<>>) => (Held(filter) = <<>>)'
    BY <2>1 DEF Held
  <2> QED
    BY <2>1, <2>2, <2>3, <2>4 DEF FilterIInv
<1> QED
  BY <1>1, <1>2, <1>3, EndStep, InterruptStep, ReconnectStep DEF FilterNext

\* Every state of the filter satisfies FilterIInv: what it holds back is all that
\* arrived since the beginning of a table, an initialized filter works with the
\* last table that it wrote, and the fallback is remembered over the connections.
THEOREM FilterInductive ==
    ASSUME FilterAssumption
    PROVE  FilterSpec => []FilterIInv
<1>1. FilterInit => FilterIInv
  BY FilterStarts
<1>2. FilterIInv /\ [FilterNext]_filterVars => FilterIInv'
  BY FilterSteps
<1> QED
  BY <1>1, <1>2, PTL DEF FilterSpec

\* The file holds the stream once and in order; while the filter selects, exactly
\* the packets are left out that the table of their time drops, and nothing of an
\* original table follows a new one; from the fallback on all is kept
\* (writeInitialized, replay and fallback of tsComponentFilter).
THEOREM FilterIsFaithful ==
    ASSUME FilterAssumption
    PROVE  FilterSpec => []FilterFaithful
<1>1. FilterIInv => FilterFaithful
  BY FilterIInvSays
<1> QED
  BY <1>1, FilterInductive, PTL
=============================================================================
