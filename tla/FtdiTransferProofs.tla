------------------------- MODULE FtdiTransferProofs -------------------------
(***************************************************************************)
(* Theorems about FtdiTransfer: for every packet and chunk size, every     *)
(* number of bytes and failures and every order of calls and callbacks,    *)
(* the application gets the chip's bytes as ByteStream says, and a control *)
(* block is freed when libusb has given its transfer back.                 *)
(***************************************************************************)
EXTENDS FtdiTransfer, SequenceTheorems, RecursionLemmas, TLAPS

-----------------------------------------------------------------------------
(* Division, by the size of a packet.                                      *)

LEMMA DivMod ==
    ASSUME NEW m \in Nat \ {0}, NEW q \in Nat, NEW e \in 0..m - 1
    PROVE  (q * m + e) \div m = q /\ (q * m + e) % m = e
OBVIOUS

LEMMA DivModParts ==
    ASSUME NEW m \in Nat \ {0}, NEW a \in Nat
    PROVE  a \div m \in Nat /\ a % m \in 0..m - 1 /\ a = (a \div m) * m + (a % m)
OBVIOUS

LEMMA TimesMonotone ==
    ASSUME NEW m \in Nat, NEW p \in Nat, NEW q \in Nat
    PROVE  /\ p * m \in Nat /\ (p <= q => p * m <= q * m) /\ (p < q => p * m + m <= q * m)
           /\ (p + 1) * m = p * m + m /\ m * p = p * m /\ 0 * m = 0 /\ 1 * m = m
OBVIOUS

-----------------------------------------------------------------------------
(* Sequences of bytes.                                                     *)

Chip == 0..MaxBytes
BufferOf(C) == [0..C - 1 -> Chip]
Run(a, n) == [j \in 1..n |-> a + j]

LEMMA ConcatIs ==
    ASSUME NEW S, NEW m \in Nat, NEW n \in Nat, NEW a, NEW b, NEW c,
           a \in Seq(S) /\ Len(a) = m, b \in Seq(S) /\ Len(b) = n, c \in Seq(S) /\ Len(c) = m + n,
           \A k \in 1..m : c[k] = a[k], \A k \in 1..n : c[k + m] = b[k]
    PROVE  a \o b = c
<1>1. \A k \in 1..m + n : (a \o b)[k] = c[k]
  <2>. SUFFICES ASSUME NEW k \in 1..m + n PROVE (a \o b)[k] = c[k]
    OBVIOUS
  <2>1. CASE k <= m
    BY <2>1
  <2>2. CASE k > m
    <3>1. k - m \in 1..n /\ (k - m) + m = k
      BY <2>2
    <3>2. c[(k - m) + m] = b[k - m]
      BY <3>1
    <3>. QED BY <2>2, <3>1, <3>2
  <2>. QED BY <2>1, <2>2
<1>2. a \o b \in Seq(S) /\ Len(a \o b) = m + n
  OBVIOUS
<1>3. c \in Seq(S) /\ Len(a \o b) = Len(c) /\ \A k \in 1..Len(a \o b) : (a \o b)[k] = c[k]
  BY <1>1, <1>2
<1>. QED BY <1>2, <1>3, SeqEqual

\* What is handed over of a buffer of C bytes.
LEMMA BytesIsSeq ==
    ASSUME NEW C \in Nat, NEW rb \in BufferOf(C),
           NEW start \in Nat, NEW count \in Nat, start + count <= C
    PROVE  /\ Bytes(rb, start, count) \in Seq(Chip) /\ Len(Bytes(rb, start, count)) = count
           /\ \A k \in 1..count : Bytes(rb, start, count)[k] = rb[start + k - 1]
<1>1. \A k \in 1..count : rb[start + k - 1] \in Chip
  <2>. SUFFICES ASSUME NEW k \in 1..count PROVE rb[start + k - 1] \in Chip
    OBVIOUS
  <2>1. start + k - 1 \in 0..C - 1
    OBVIOUS
  <2>. QED BY <2>1 DEF BufferOf
<1>. QED BY <1>1 DEF Bytes

LEMMA NoBytes ==
    ASSUME NEW rb, NEW start
    PROVE  Bytes(rb, start, 0) = <<>>
BY DEF Bytes

LEMMA BytesSplit ==
    ASSUME NEW C \in Nat, NEW rb \in BufferOf(C),
           NEW start \in Nat, NEW m \in Nat, NEW n \in Nat, start + m + n <= C
    PROVE  Bytes(rb, start, m + n) = Bytes(rb, start, m) \o Bytes(rb, start + m, n)
<1>. DEFINE a == Bytes(rb, start, m)
            b == Bytes(rb, start + m, n)
            c == Bytes(rb, start, m + n)
<1>1. a \in Seq(Chip) /\ Len(a) = m /\ \A k \in 1..m : a[k] = rb[start + k - 1]
  BY BytesIsSeq
<1>2. b \in Seq(Chip) /\ Len(b) = n /\ \A k \in 1..n : b[k] = rb[(start + m) + k - 1]
  <2>1. start + m \in Nat /\ (start + m) + n <= C
    OBVIOUS
  <2>. QED BY <2>1, BytesIsSeq
<1>3. c \in Seq(Chip) /\ Len(c) = m + n /\ \A k \in 1..m + n : c[k] = rb[start + k - 1]
  <2>. DEFINE total == m + n
  <2>1. total \in Nat /\ start + total <= C
    OBVIOUS
  <2>. HIDE DEF total
  <2>2. /\ Bytes(rb, start, total) \in Seq(Chip) /\ Len(Bytes(rb, start, total)) = total
        /\ \A k \in 1..total : Bytes(rb, start, total)[k] = rb[start + k - 1]
    BY <2>1, BytesIsSeq
  <2>. QED BY <2>2 DEF total
<1>. HIDE DEF a, b, c
<1>4. \A k \in 1..m : c[k] = a[k]
  BY <1>1, <1>3
<1>5. \A k \in 1..n : c[k + m] = b[k]
  <2>. SUFFICES ASSUME NEW k \in 1..n PROVE c[k + m] = b[k]
    OBVIOUS
  <2>1. k + m \in 1..m + n /\ start + (k + m) - 1 = (start + m) + k - 1
    OBVIOUS
  <2>. QED BY <1>2, <1>3, <2>1
<1>6. a \o b = c
  BY <1>1, <1>2, <1>3, <1>4, <1>5, ConcatIs
<1>. QED BY <1>6 DEF a, b, c

\* The first k of n bytes, and the others.
LEMMA BytesPart ==
    ASSUME NEW C \in Nat, NEW rb \in BufferOf(C), NEW start \in Nat, NEW n \in Nat, start + n <= C,
           NEW k \in 0..n, NEW mid, mid = start + k, NEW m, m = n - k
    PROVE  Bytes(rb, start, n) = Bytes(rb, start, k) \o Bytes(rb, mid, m)
<1>1. k \in Nat /\ m \in Nat /\ k + m = n /\ start + k + m <= C
  OBVIOUS
<1>2. Bytes(rb, start, k + m) = Bytes(rb, start, k) \o Bytes(rb, start + k, m)
  BY <1>1, BytesSplit
<1>. QED BY <1>1, <1>2

LEMMA RunIsSeq ==
    ASSUME NEW a \in Nat, NEW n \in Nat
    PROVE  Run(a, n) \in Seq(Nat) /\ Len(Run(a, n)) = n
BY DEF Run

-----------------------------------------------------------------------------
(* The packets of a bulk read.                                             *)

\* actual bytes are n data bytes: in q whole packets and, after them, e bytes of a
\* packet that has at least its two status bytes.
InPackets(actual, n, q, e) ==
    /\ q \in Nat /\ e \in 0..max_packet_size - 1 /\ e # 1
    /\ actual = q * max_packet_size + e
    /\ n = q * PayloadSize + (IF e = 0 THEN 0 ELSE e - 2)
Packed(actual, n) == \E q, e : InPackets(actual, n, q, e)

LEMMA PacketSizes ==
    /\ max_packet_size \in Nat \ {0} /\ PayloadSize \in Nat \ {0}
    /\ max_packet_size = PayloadSize + 2
BY TransferAssumption DEF PayloadSize

LEMMA PacketsPayload ==
    ASSUME NEW q \in Nat
    PROVE  /\ q * max_packet_size = q * PayloadSize + 2 * q
           /\ q * max_packet_size \in Nat /\ q * PayloadSize \in Nat
BY PacketSizes

\* The chunk size is a number of whole packets.
LEMMA ChunkSizes ==
    ASSUME readbuffer_chunksize \in ReadChunks
    PROVE  LET packets == readbuffer_chunksize \div max_packet_size
           IN  /\ readbuffer_chunksize \in Nat /\ packets \in Nat \ {0}
               /\ readbuffer_chunksize = packets * max_packet_size
               /\ MaxPayload = packets * PayloadSize /\ MaxPayload \in Nat
               /\ MaxPayload + 2 <= readbuffer_chunksize
<1>. DEFINE packets == readbuffer_chunksize \div max_packet_size
<1>1. /\ readbuffer_chunksize \in Nat /\ readbuffer_chunksize > 0
      /\ readbuffer_chunksize % max_packet_size = 0
  BY TransferAssumption
<1>2. packets \in Nat /\ readbuffer_chunksize = packets * max_packet_size
  <2>1. readbuffer_chunksize = packets * max_packet_size + (readbuffer_chunksize % max_packet_size)
        /\ packets \in Nat
    BY <1>1, PacketSizes, DivModParts
  <2>. HIDE DEF packets
  <2>2. packets * max_packet_size \in Nat
    BY <2>1, PacketsPayload
  <2>. QED BY <1>1, <2>1, <2>2
<1>3. MaxPayload = packets * PayloadSize
  BY DEF MaxPayload
<1>. HIDE DEF packets
<1>4. packets # 0
  BY <1>1, <1>2, PacketSizes, TimesMonotone
<1>5. packets * PayloadSize \in Nat /\ packets * max_packet_size = packets * PayloadSize + 2 * packets
  BY <1>2, PacketsPayload
<1>. QED BY <1>1, <1>2, <1>3, <1>4, <1>5 DEF packets

\* What the chip sends, whether the bulk read ends by itself or is broken off.
LEMMA BulkIsPacked ==
    ASSUME readbuffer_chunksize \in ReadChunks, NEW n \in 0..MaxPayload
    PROVE  /\ Packed(Whole(n), n) /\ Whole(n) \in 0..readbuffer_chunksize
           /\ Packed(Broken(n), n) /\ Broken(n) \in 0..readbuffer_chunksize
<1>. DEFINE packets == readbuffer_chunksize \div max_packet_size
            q == n \div PayloadSize
            r == n % PayloadSize
<1>1. /\ packets \in Nat \ {0} /\ readbuffer_chunksize = packets * max_packet_size
      /\ MaxPayload = packets * PayloadSize /\ MaxPayload \in Nat
  BY ChunkSizes
<1>2. n \in Nat /\ q \in Nat /\ r \in 0..PayloadSize - 1 /\ n = q * PayloadSize + r
  <2>1. n \in Nat
    BY <1>1
  <2>. QED BY <2>1, PacketSizes, DivModParts
<1>. HIDE DEF packets, q, r
<1>3. /\ q * max_packet_size = q * PayloadSize + 2 * q /\ q * PayloadSize \in Nat
      /\ packets * max_packet_size = packets * PayloadSize + 2 * packets
  BY <1>1, <1>2, PacketsPayload
<1>4. q <= packets /\ (q = packets => r = 0)
      /\ (q < packets => q * max_packet_size + max_packet_size <= readbuffer_chunksize)
      /\ q * max_packet_size <= readbuffer_chunksize
  BY <1>1, <1>2, <1>3, PacketSizes, TimesMonotone
<1>5. n = MaxPayload <=> q = packets
  BY <1>1, <1>2, <1>4, PacketSizes, TimesMonotone
<1>6. Packed(Whole(n), n) /\ Whole(n) \in 0..readbuffer_chunksize
  <2>1. CASE n = MaxPayload
    <3>1. Whole(n) = q * max_packet_size + 0 /\ r = 0
      BY <1>2, <1>3, <1>4, <1>5, <2>1 DEF Whole, q
    <3>2. InPackets(Whole(n), n, q, 0)
      BY <1>2, <3>1, PacketSizes DEF InPackets
    <3>. QED BY <1>1, <1>2, <1>3, <1>4, <3>1, <3>2 DEF Packed
  <2>2. CASE n # MaxPayload
    <3>1. Whole(n) = q * max_packet_size + (r + 2)
      BY <1>2, <1>3, <2>2 DEF Whole, q
    <3>2. InPackets(Whole(n), n, q, r + 2)
      BY <1>2, <3>1, PacketSizes DEF InPackets
    <3>. QED BY <1>1, <1>2, <1>3, <1>4, <1>5, <2>2, <3>1, <3>2, PacketSizes DEF Packed
  <2>. QED BY <2>1, <2>2
<1>7. Packed(Broken(n), n) /\ Broken(n) \in 0..readbuffer_chunksize
  <2>1. CASE r = 0
    <3>1. n + PayloadSize - 1 = q * PayloadSize + (PayloadSize - 1)
      BY <1>2, <2>1, PacketSizes
    <3>2. (n + PayloadSize - 1) \div PayloadSize = q
      BY <1>2, <3>1, PacketSizes, DivMod
    <3>3. Broken(n) = q * max_packet_size + 0
      BY <1>2, <1>3, <2>1, <3>2 DEF Broken
    <3>4. InPackets(Broken(n), n, q, 0)
      BY <1>2, <2>1, <3>3, PacketSizes DEF InPackets
    <3>. QED BY <1>1, <1>2, <1>3, <1>4, <3>3, <3>4 DEF Packed
  <2>2. CASE r > 0
    <3>1. n + PayloadSize - 1 = (q + 1) * PayloadSize + (r - 1) /\ q + 1 \in Nat
      BY <1>2, PacketSizes, TimesMonotone
    <3>2. (n + PayloadSize - 1) \div PayloadSize = q + 1
      <4>1. r - 1 \in 0..PayloadSize - 1
        BY <1>2, <2>2, PacketSizes
      <4>. HIDE DEF q, r
      <4>. QED BY <3>1, <4>1, PacketSizes, DivMod
    <3>3. Broken(n) = q * max_packet_size + (r + 2)
      BY <1>2, <1>3, <3>2 DEF Broken
    <3>4. InPackets(Broken(n), n, q, r + 2)
      BY <1>2, <3>3, PacketSizes DEF InPackets
    <3>. QED BY <1>1, <1>2, <1>3, <1>4, <2>2, <3>3, <3>4, PacketSizes DEF Packed
  <2>. QED BY <1>2, <2>1, <2>2
<1>. QED BY <1>6, <1>7

LEMMA PacketsDivide ==
    ASSUME NEW actual, NEW n, NEW q, NEW e, InPackets(actual, n, q, e)
    PROVE  /\ actual \in Nat /\ n \in Nat /\ actual \div max_packet_size = q
           /\ actual % max_packet_size = e /\ q * max_packet_size = q * PayloadSize + 2 * q
           /\ q * PayloadSize \in Nat
<1>1. q \in Nat /\ e \in 0..max_packet_size - 1 /\ actual = q * max_packet_size + e
  BY DEF InPackets
<1>2. q * PayloadSize \in Nat /\ q * max_packet_size = q * PayloadSize + 2 * q
  BY <1>1, PacketsPayload
<1>3. actual \div max_packet_size = q /\ actual % max_packet_size = e
  BY <1>1, PacketSizes, DivMod
<1>. QED BY <1>1, <1>2, <1>3, PacketSizes DEF InPackets

\* The code's arithmetic counts the data bytes.
LEMMA DataLengthCounts ==
    ASSUME NEW actual, NEW n, Packed(actual, n)
    PROVE  DataLength(actual) = n
<1>1. PICK q, e : InPackets(actual, n, q, e)
  BY DEF Packed
<1>2. /\ actual \in Nat /\ n \in Nat /\ actual \div max_packet_size = q
      /\ actual % max_packet_size = e /\ q * max_packet_size = q * PayloadSize + 2 * q
      /\ q * PayloadSize \in Nat
  BY <1>1, PacketsDivide
<1>3. /\ q \in Nat /\ e \in 0..max_packet_size - 1 /\ e # 1
      /\ actual = q * PayloadSize + 2 * q + e
      /\ n = q * PayloadSize + (IF e = 0 THEN 0 ELSE e - 2)
  BY <1>1, <1>2 DEF InPackets
<1>4. CASE q = 0
  <2>1. actual = e /\ n = IF e = 0 THEN 0 ELSE e - 2
    BY <1>3, <1>4, PacketSizes, TimesMonotone
  <2>. QED BY <1>2, <1>3, <2>1, PacketSizes DEF DataLength
<1>5. CASE q = 1
  <2>1. q * PayloadSize = PayloadSize
    BY <1>5, PacketSizes, TimesMonotone
  <2>. QED BY <1>2, <1>3, <1>5, <2>1, PacketSizes DEF DataLength
<1>6. CASE q > 1
  <2>1. q * PayloadSize >= 2 * PayloadSize
    BY <1>3, <1>6, PacketSizes, TimesMonotone
  <2>. QED BY <1>2, <1>3, <1>6, <2>1, PacketSizes DEF DataLength
<1>. QED BY <1>3, <1>4, <1>5, <1>6

-----------------------------------------------------------------------------
(* What is in the readbuffer after a bulk read, and after the loop that    *)
(* takes the status bytes out.                                             *)

\* Where a byte lies among the packets.
LEMMA PacketOrder ==
    ASSUME NEW p \in Nat, NEW q \in Nat
    PROVE  /\ p < q => /\ p * max_packet_size + max_packet_size <= q * max_packet_size
                       /\ p * PayloadSize + PayloadSize <= q * PayloadSize
           /\ (p + 1) * PayloadSize = p * PayloadSize + PayloadSize
           /\ (p + 1) * max_packet_size = p * max_packet_size + max_packet_size
           /\ PayloadSize * p = p * PayloadSize
BY PacketSizes, TimesMonotone

LEMMA ReceivedIs ==
    ASSUME readbuffer_chunksize \in Nat, readbuffer \in BufferOf(readbuffer_chunksize), sent \in Nat,
           NEW actual, NEW n, NEW q, NEW e, InPackets(actual, n, q, e), sent + n <= MaxBytes
    PROVE  /\ Received(actual) \in BufferOf(readbuffer_chunksize)
           /\ \A p \in Nat, j \in 2..max_packet_size - 1 :
                p * max_packet_size + j < actual /\ p * max_packet_size + j < readbuffer_chunksize =>
                  Received(actual)[p * max_packet_size + j] = sent + p * PayloadSize + j - 1
<1>1. /\ q \in Nat /\ e \in 0..max_packet_size - 1 /\ actual = q * max_packet_size + e
      /\ n = q * PayloadSize + (IF e = 0 THEN 0 ELSE e - 2) /\ e # 1
      /\ q * max_packet_size \in Nat /\ q * PayloadSize \in Nat /\ MaxBytes \in Nat
  BY PacketsPayload, TransferAssumption DEF InPackets
<1>2. ASSUME NEW p \in Nat, NEW j \in 2..max_packet_size - 1, p * max_packet_size + j < actual
      PROVE  sent + p * PayloadSize + j - 1 \in Chip
  <2>1. p * PayloadSize \in Nat /\ p * max_packet_size \in Nat
    BY PacketsPayload
  <2>2. p <= q
    <3>. SUFFICES ASSUME q < p PROVE FALSE
      BY <1>1
    <3>. QED BY <1>1, <1>2, <2>1, PacketOrder, PacketSizes
  <2>3. p * PayloadSize + j - 1 <= n
    <3>1. CASE p = q
      BY <1>1, <1>2, <2>1, <3>1, PacketSizes
    <3>2. CASE p < q
      <4>1. p * PayloadSize + PayloadSize <= q * PayloadSize
        BY <1>1, <3>2, PacketOrder
      <4>. QED BY <1>1, <2>1, <4>1, PacketSizes
    <3>. QED BY <1>1, <2>2, <3>1, <3>2
  <2>. QED BY <1>1, <2>1, <2>3, PacketSizes DEF Chip
<1>3. Received(actual) \in BufferOf(readbuffer_chunksize)
  <2>. SUFFICES ASSUME NEW i \in 0..readbuffer_chunksize - 1
                PROVE  Received(actual)[i] \in Chip /\ DOMAIN readbuffer = 0..readbuffer_chunksize - 1
    BY DEF Received, BufferOf
  <2>1. DOMAIN readbuffer = 0..readbuffer_chunksize - 1 /\ readbuffer[i] \in Chip
    BY DEF BufferOf
  <2>. DEFINE p == i \div max_packet_size
              j == i % max_packet_size
  <2>2. p \in Nat /\ j \in 0..max_packet_size - 1 /\ i = p * max_packet_size + j
    <3>1. i \in Nat /\ max_packet_size \in Nat \ {0}
      BY PacketSizes
    <3>. QED BY <3>1, DivModParts
  <2>3. Received(actual)[i] = IF i >= actual THEN readbuffer[i]
                              ELSE IF j < 2 THEN 0 ELSE sent + p * PayloadSize + j - 1
    BY <2>1 DEF Received
  <2>. HIDE DEF p, j
  <2>4. 0 \in Chip
    BY <1>1 DEF Chip
  <2>5. CASE i >= actual
    BY <2>1, <2>3, <2>5
  <2>6. CASE i < actual /\ j < 2
    BY <1>1, <2>1, <2>3, <2>4, <2>6
  <2>7. CASE i < actual /\ j >= 2
    <3>1. j \in 2..max_packet_size - 1 /\ p * max_packet_size + j < actual
      BY <2>2, <2>7, PacketSizes
    <3>2. sent + p * PayloadSize + j - 1 \in Chip
      BY <1>2, <2>2, <3>1
    <3>. QED BY <1>1, <2>1, <2>2, <2>3, <2>7, <3>2, PacketSizes
  <2>. QED BY <1>1, <2>2, <2>5, <2>6, <2>7, PacketSizes
<1>4. ASSUME NEW p \in Nat, NEW j \in 2..max_packet_size - 1,
             p * max_packet_size + j < actual, p * max_packet_size + j < readbuffer_chunksize
      PROVE  Received(actual)[p * max_packet_size + j] = sent + p * PayloadSize + j - 1
  <2>. DEFINE i == p * max_packet_size + j
  <2>1. p * max_packet_size \in Nat /\ j \in 0..max_packet_size - 1
    BY PacketsPayload, PacketSizes
  <2>2. i \div max_packet_size = p /\ i % max_packet_size = j
    BY <2>1, PacketSizes, DivMod
  <2>3. i \in 0..readbuffer_chunksize - 1 /\ ~ (i >= actual) /\ ~ (j < 2)
    BY <1>1, <1>4, <2>1, PacketSizes
  <2>4. i \in DOMAIN readbuffer
    BY <2>3 DEF BufferOf
  <2>. HIDE DEF i
  <2>5. Received(actual)[i] = sent + p * PayloadSize + j - 1
    BY <2>2, <2>3, <2>4 DEF Received
  <2>. QED BY <2>5 DEF i
<1>. QED BY <1>3, <1>4

LEMMA MemmoveIs ==
    ASSUME NEW C \in Nat, NEW rb \in BufferOf(C),
           NEW i \in Nat, NEW count \in Nat, 2 + i * max_packet_size + count <= C
    PROVE  /\ Memmove(rb, 2, i, count) \in BufferOf(C)
           /\ \A k \in 0..C - 1 :
                Memmove(rb, 2, i, count)[k] = IF k >= 2 + i * PayloadSize /\ k < 2 + i * PayloadSize + count
                                           THEN rb[k + 2 * i] ELSE rb[k]
<1>1. /\ i * PayloadSize \in Nat /\ i * max_packet_size = i * PayloadSize + 2 * i
      /\ PayloadSize * i = i * PayloadSize
  BY PacketsPayload, PacketOrder
<1>2. DOMAIN rb = 0..C - 1 /\ \A k \in 0..C - 1 : rb[k] \in Chip
  BY DEF BufferOf
<1>3. ASSUME NEW k \in 0..C - 1
      PROVE  Memmove(rb, 2, i, count)[k] = IF k >= 2 + i * PayloadSize /\ k < 2 + i * PayloadSize + count
                                        THEN rb[k + 2 * i] ELSE rb[k]
  BY <1>1, <1>2 DEF Memmove
<1>4. ASSUME NEW k \in 0..C - 1
      PROVE  Memmove(rb, 2, i, count)[k] \in Chip
  <2>1. CASE k >= 2 + i * PayloadSize /\ k < 2 + i * PayloadSize + count
    <3>1. k + 2 * i \in 0..C - 1
      BY <1>1, <2>1
    <3>. QED BY <1>2, <1>3, <2>1, <3>1
  <2>2. CASE ~ (k >= 2 + i * PayloadSize /\ k < 2 + i * PayloadSize + count)
    BY <1>2, <1>3, <2>2
  <2>. QED BY <2>1, <2>2
<1>5. DOMAIN Memmove(rb, 2, i, count) = 0..C - 1 /\ Memmove(rb, 2, i, count) = [k \in 0..C - 1 |-> Memmove(rb, 2, i, count)[k]]
  BY <1>2 DEF Memmove
<1>. QED BY <1>3, <1>4, <1>5 DEF BufferOf

\* The loop is well-defined: each round moves a packet of the buffer before it.
LEMMA MovedDef ==
    ASSUME NEW C \in Nat, NEW rb \in BufferOf(C),
           NEW last \in Nat, last * max_packet_size + max_packet_size <= C
    PROVE  /\ Moved(rb, 2, last)[0] = rb
           /\ \A i \in 1..last : Moved(rb, 2, last)[i] = Memmove(Moved(rb, 2, last)[i - 1], 2, i, PayloadSize)
<1>. DEFINE F == [i \in 1..last |-> [b \in BufferOf(C) |-> Memmove(b, 2, i, PayloadSize)]]
            Loop(g) == [i \in 0..last |-> IF i = 0 THEN rb ELSE Memmove(g[i - 1], 2, i, PayloadSize)]
<1>1. ASSUME NEW i \in 1..last, NEW b \in BufferOf(C)
      PROVE  Memmove(b, 2, i, PayloadSize) \in BufferOf(C)
  <2>1. 2 + i * max_packet_size + PayloadSize <= C
    <3>1. i \in Nat /\ i * max_packet_size \in Nat /\ last * max_packet_size \in Nat
      BY PacketsPayload
    <3>2. i * max_packet_size <= last * max_packet_size
      BY <3>1, PacketSizes, TimesMonotone
    <3>. QED BY <3>1, <3>2, PacketSizes
  <2>. QED BY <2>1, PacketSizes, MemmoveIs
<1>2. F \in [1..last -> [BufferOf(C) -> BufferOf(C)]]
  BY <1>1
<1>3. PICK g : IsLoop(g, last, BufferOf(C), rb, F)
  <2>. HIDE DEF F
  <2>. QED BY <1>2, LoopExists
<1>4. g = Loop(g)
  <2>1. ASSUME NEW i \in 1..last
        PROVE  g[i] = Memmove(g[i - 1], 2, i, PayloadSize)
    <3>1. g[i - 1] \in BufferOf(C)
      BY <1>3 DEF IsLoop
    <3>2. F[i][g[i - 1]] = Memmove(g[i - 1], 2, i, PayloadSize)
      BY <3>1
    <3>. HIDE DEF F
    <3>. QED BY <1>3, <3>2 DEF IsLoop
  <2>2. ASSUME NEW i \in 0..last
        PROVE  g[i] = Loop(g)[i]
    <3>1. CASE i = 0
      BY <1>3, <3>1 DEF IsLoop
    <3>2. CASE i \in 1..last
      BY <2>1, <3>2
    <3>. QED BY <3>1, <3>2
  <2>. QED BY <1>3, <2>2 DEF IsLoop
<1>5. Moved(rb, 2, last) = CHOOSE moved : moved = Loop(moved)
  BY DEF Moved
<1>6. Moved(rb, 2, last) = Loop(Moved(rb, 2, last))
  <2>. HIDE DEF Loop
  <2>. QED BY <1>4, <1>5
<1>7. 0 \in 0..last /\ \A i \in 1..last : i \in 0..last /\ i # 0
  OBVIOUS
<1>. QED BY <1>6, <1>7, Zenon

\* After the rounds up to i, the data bytes of the packets up to i lie one after the
\* other; what follows is where it was.
MovedUpTo(b, rb, C, i) ==
    /\ b \in BufferOf(C)
    /\ \A p \in 0..i, j \in 0..PayloadSize - 1 :
         b[2 + p * PayloadSize + j] = rb[2 + p * max_packet_size + j]
    /\ \A k \in 0..C - 1 : k >= 2 + i * PayloadSize + PayloadSize => b[k] = rb[k]

LEMMA MovedStep ==
    ASSUME NEW C \in Nat, NEW rb \in BufferOf(C), NEW b, NEW i \in Nat,
           MovedUpTo(b, rb, C, i), (i + 1) * max_packet_size + max_packet_size <= C
    PROVE  MovedUpTo(Memmove(b, 2, i + 1, PayloadSize), rb, C, i + 1)
<1>. DEFINE m == Memmove(b, 2, i + 1, PayloadSize)
<1>1. /\ (i + 1) * PayloadSize \in Nat /\ i * PayloadSize \in Nat
      /\ (i + 1) * max_packet_size = (i + 1) * PayloadSize + 2 * (i + 1)
      /\ (i + 1) * PayloadSize = i * PayloadSize + PayloadSize
  BY PacketsPayload, PacketOrder
<1>2. b \in BufferOf(C) /\ 2 + (i + 1) * max_packet_size + PayloadSize <= C
  BY <1>1, PacketSizes DEF MovedUpTo
<1>3. /\ m \in BufferOf(C)
      /\ \A k \in 0..C - 1 :
           m[k] = IF k >= 2 + (i + 1) * PayloadSize /\ k < 2 + (i + 1) * PayloadSize + PayloadSize
                  THEN b[k + 2 * (i + 1)] ELSE b[k]
  BY <1>2, PacketSizes, MemmoveIs
<1>. HIDE DEF m
<1>4. ASSUME NEW p \in 0..i + 1, NEW j \in 0..PayloadSize - 1
      PROVE  m[2 + p * PayloadSize + j] = rb[2 + p * max_packet_size + j]
  <2>1. /\ p \in Nat /\ p * PayloadSize \in Nat /\ j \in Nat
        /\ p * max_packet_size = p * PayloadSize + 2 * p
    BY PacketsPayload, PacketSizes
  <2>2. CASE p = i + 1
    <3>1. 2 + p * PayloadSize + j \in 0..C - 1
      BY <1>1, <1>2, <2>1, <2>2, PacketSizes
    <3>2. m[2 + p * PayloadSize + j] = b[2 + p * PayloadSize + j + 2 * (i + 1)]
      BY <1>1, <1>3, <2>1, <2>2, <3>1, PacketSizes
    <3>3. 2 + p * PayloadSize + j + 2 * (i + 1) = 2 + p * max_packet_size + j
      BY <2>1, <2>2
    <3>4. /\ 2 + p * max_packet_size + j \in 0..C - 1
          /\ 2 + p * max_packet_size + j >= 2 + i * PayloadSize + PayloadSize
      BY <1>1, <1>2, <2>1, <2>2, PacketSizes
    <3>. QED BY <3>2, <3>3, <3>4 DEF MovedUpTo
  <2>3. CASE p # i + 1
    <3>1. p \in 0..i /\ p < i + 1
      BY <2>3
    <3>2. p * PayloadSize + PayloadSize <= (i + 1) * PayloadSize
      BY <2>1, <3>1, PacketOrder
    <3>3. /\ 2 + p * PayloadSize + j \in 0..C - 1
          /\ ~ (2 + p * PayloadSize + j >= 2 + (i + 1) * PayloadSize)
      BY <1>1, <1>2, <2>1, <3>2, PacketSizes
    <3>4. m[2 + p * PayloadSize + j] = b[2 + p * PayloadSize + j]
      BY <1>3, <3>3
    <3>. QED BY <3>1, <3>4 DEF MovedUpTo
  <2>. QED BY <2>2, <2>3
<1>5. ASSUME NEW k \in 0..C - 1, k >= 2 + (i + 1) * PayloadSize + PayloadSize
      PROVE  m[k] = rb[k]
  <2>1. m[k] = b[k]
    BY <1>1, <1>3, <1>5, PacketSizes
  <2>2. k >= 2 + i * PayloadSize + PayloadSize
    BY <1>1, <1>5, PacketSizes
  <2>. QED BY <2>1, <2>2 DEF MovedUpTo
<1>. QED BY <1>3, <1>4, <1>5 DEF MovedUpTo, m

\* The loop over the packets, by induction over its rounds.
LEMMA MovedIs ==
    ASSUME NEW C \in Nat, NEW rb \in BufferOf(C),
           NEW last \in Nat, last * max_packet_size + max_packet_size <= C
    PROVE  MovedUpTo(Moved(rb, 2, last)[last], rb, C, last)
<1>. DEFINE M == Moved(rb, 2, last)
            S == {i \in Nat : i <= last => MovedUpTo(M[i], rb, C, i)}
<1>1. M[0] = rb /\ \A i \in 1..last : M[i] = Memmove(M[i - 1], 2, i, PayloadSize)
  BY MovedDef
<1>. HIDE DEF M
<1>2. 0 \in S
  <2>1. \A p \in 0..0, j \in 0..PayloadSize - 1 : p = 0 /\ p * PayloadSize = 0 /\ p * max_packet_size = 0
    BY PacketSizes, TimesMonotone
  <2>2. MovedUpTo(rb, rb, C, 0)
    BY <2>1 DEF MovedUpTo
  <2>. QED BY <1>1, <2>2
<1>3. ASSUME NEW i \in Nat, i \in S
      PROVE  i + 1 \in S
  <2>. SUFFICES ASSUME i + 1 <= last
                PROVE  MovedUpTo(M[i + 1], rb, C, i + 1)
    OBVIOUS
  <2>1. MovedUpTo(M[i], rb, C, i) /\ i + 1 \in 1..last /\ (i + 1) - 1 = i
    BY <1>3
  <2>2. M[i + 1] = Memmove(M[i], 2, i + 1, PayloadSize)
    BY <1>1, <2>1
  <2>3. (i + 1) * max_packet_size + max_packet_size <= C
    <3>1. (i + 1) * max_packet_size <= last * max_packet_size
      BY PacketSizes, TimesMonotone
    <3>2. (i + 1) * max_packet_size \in Nat /\ last * max_packet_size \in Nat
      BY PacketsPayload
    <3>. QED BY <3>1, <3>2, PacketSizes
  <2>. QED BY <2>1, <2>2, <2>3, MovedStep
<1>4. Nat \subseteq S
  <2>. HIDE DEF S
  <2>. QED BY <1>2, <1>3, InductionBySet
<1>. QED BY <1>4 DEF M

\* The data bytes of a readbuffer with actual bytes, one after the other.
LEMMA StripIs ==
    ASSUME NEW C \in Nat, NEW rb \in BufferOf(C),
           NEW actual \in 0..C, NEW n, NEW q, NEW e, InPackets(actual, n, q, e)
    PROVE  /\ Strip(rb, 2, actual) \in BufferOf(C)
           /\ \A p \in Nat, j \in 0..PayloadSize - 1 : p * PayloadSize + j < n =>
                Strip(rb, 2, actual)[2 + p * PayloadSize + j] = rb[2 + p * max_packet_size + j]
<1>1. /\ q \in Nat /\ e \in 0..max_packet_size - 1 /\ e # 1
      /\ actual = q * max_packet_size + e
      /\ n = q * PayloadSize + (IF e = 0 THEN 0 ELSE e - 2)
      /\ actual \div max_packet_size = q /\ actual % max_packet_size = e
      /\ q * max_packet_size = q * PayloadSize + 2 * q /\ q * PayloadSize \in Nat
  BY PacketsDivide DEF InPackets
<1>2. CASE actual <= max_packet_size
  <2>1. Strip(rb, 2, actual) = rb
    BY <1>2 DEF Strip
  <2>2. n <= PayloadSize
    <3>1. CASE q = 0
      BY <1>1, <3>1, PacketSizes
    <3>2. CASE q = 1
      <4>1. q * PayloadSize = PayloadSize
        BY <3>2, PacketSizes, TimesMonotone
      <4>. QED BY <1>1, <1>2, <3>2, <4>1, PacketSizes
    <3>3. CASE q > 1
      <4>1. 2 * PayloadSize <= q * PayloadSize
        BY <1>1, <3>3, PacketSizes, TimesMonotone
      <4>. QED BY <1>1, <1>2, <3>3, <4>1, PacketSizes
    <3>. QED BY <1>1, <3>1, <3>2, <3>3
  <2>3. ASSUME NEW p \in Nat, NEW j \in 0..PayloadSize - 1, p * PayloadSize + j < n
        PROVE  p = 0
    <3>1. p > 0 => PayloadSize <= p * PayloadSize
      BY PacketSizes, TimesMonotone
    <3>2. p * PayloadSize \in Nat
      BY PacketsPayload
    <3>. QED BY <1>1, <2>2, <2>3, <3>1, <3>2, PacketSizes
  <2>4. 0 * PayloadSize = 0 /\ 0 * max_packet_size = 0
    BY PacketSizes, TimesMonotone
  <2>. QED BY <2>1, <2>3, <2>4
<1>3. CASE actual > max_packet_size
  <2>. DEFINE b == Moved(rb, 2, q - 1)[q - 1]
  <2>1. q >= 1 /\ q - 1 \in Nat /\ (q - 1) * max_packet_size + max_packet_size = q * max_packet_size
    <3>1. q # 0
      BY <1>1, <1>3, PacketSizes
    <3>2. q - 1 \in Nat /\ (q - 1) + 1 = q
      BY <1>1, <3>1
    <3>. QED BY <1>1, <3>1, <3>2, PacketOrder
  <2>2. (q - 1) * PayloadSize + PayloadSize = q * PayloadSize
    <3>1. (q - 1) + 1 = q
      BY <1>1
    <3>. QED BY <2>1, <3>1, PacketOrder
  <2>3. (q - 1) * max_packet_size + max_packet_size <= C
    BY <1>1, <2>1
  <2>4. MovedUpTo(b, rb, C, q - 1)
    BY <2>1, <2>3, MovedIs
  <2>5. Strip(rb, 2, actual) = IF e > 2 THEN Memmove(b, 2, q, e - 2) ELSE b
    BY <1>1, <1>3, PacketSizes DEF Strip
  <2>. HIDE DEF b
  <2>6. /\ b \in BufferOf(C)
        /\ \A p \in 0..q - 1, j \in 0..PayloadSize - 1 :
             b[2 + p * PayloadSize + j] = rb[2 + p * max_packet_size + j]
        /\ \A k \in 0..C - 1 : k >= 2 + q * PayloadSize => b[k] = rb[k]
    BY <1>1, <2>1, <2>2, <2>4, PacketsPayload, PacketSizes DEF MovedUpTo
  <2>7. CASE e <= 2
    <3>1. n = q * PayloadSize /\ Strip(rb, 2, actual) = b
      BY <1>1, <2>5, <2>7
    <3>2. ASSUME NEW p \in Nat, NEW j \in 0..PayloadSize - 1, p * PayloadSize + j < n
          PROVE  p \in 0..q - 1
      <4>1. p >= q => q * PayloadSize <= p * PayloadSize
        BY <1>1, PacketSizes, TimesMonotone
      <4>2. p * PayloadSize \in Nat
        BY PacketsPayload
      <4>. QED BY <1>1, <3>1, <3>2, <4>1, <4>2, PacketSizes
    <3>. QED BY <2>6, <3>1, <3>2
  <2>8. CASE e > 2
    <3>. DEFINE m == Memmove(b, 2, q, e - 2)
    <3>1. e - 2 \in Nat /\ 2 + q * max_packet_size + (e - 2) <= C
      BY <1>1, <2>8
    <3>2. /\ m \in BufferOf(C)
          /\ \A k \in 0..C - 1 :
               m[k] = IF k >= 2 + q * PayloadSize /\ k < 2 + q * PayloadSize + (e - 2)
                      THEN b[k + 2 * q] ELSE b[k]
      BY <1>1, <2>6, <3>1, MemmoveIs
    <3>3. Strip(rb, 2, actual) = m /\ n = q * PayloadSize + (e - 2)
      BY <1>1, <2>5, <2>8
    <3>. HIDE DEF m
    <3>4. ASSUME NEW p \in Nat, NEW j \in 0..PayloadSize - 1, p * PayloadSize + j < n
          PROVE  m[2 + p * PayloadSize + j] = rb[2 + p * max_packet_size + j]
      <4>1. p * PayloadSize \in Nat /\ p * max_packet_size = p * PayloadSize + 2 * p
        BY PacketsPayload
      <4>2. CASE p < q
        <5>1. p * PayloadSize + PayloadSize <= q * PayloadSize
          BY <1>1, <4>2, PacketOrder
        <5>2. /\ 2 + p * PayloadSize + j \in 0..C - 1
              /\ ~ (2 + p * PayloadSize + j >= 2 + q * PayloadSize)
          BY <1>1, <3>1, <4>1, <5>1, PacketSizes
        <5>3. m[2 + p * PayloadSize + j] = b[2 + p * PayloadSize + j]
          BY <3>2, <5>2
        <5>4. p \in 0..q - 1
          BY <1>1, <4>2
        <5>. QED BY <2>6, <5>3, <5>4
      <4>3. CASE p = q
        <5>1. j < e - 2 /\ j \in Nat
          BY <1>1, <3>3, <3>4, <4>3, PacketSizes
        <5>2. /\ 2 + p * PayloadSize + j \in 0..C - 1
              /\ 2 + p * PayloadSize + j >= 2 + q * PayloadSize
              /\ 2 + p * PayloadSize + j < 2 + q * PayloadSize + (e - 2)
          BY <1>1, <3>1, <4>1, <4>3, <5>1
        <5>3. m[2 + p * PayloadSize + j] = b[2 + p * PayloadSize + j + 2 * q]
          BY <3>2, <5>2
        <5>4. 2 + p * PayloadSize + j + 2 * q = 2 + p * max_packet_size + j
          BY <1>1, <4>1, <4>3, <5>1
        <5>5. /\ 2 + p * max_packet_size + j \in 0..C - 1
              /\ 2 + p * max_packet_size + j >= 2 + q * PayloadSize
          BY <1>1, <3>1, <4>1, <4>3, <5>1
        <5>. QED BY <2>6, <5>3, <5>4, <5>5
      <4>4. CASE p > q
        <5>1. q * PayloadSize + PayloadSize <= p * PayloadSize
          BY <1>1, <4>4, PacketOrder
        <5>. QED BY <1>1, <3>3, <3>4, <4>1, <5>1, PacketSizes
      <4>. QED BY <1>1, <4>2, <4>3, <4>4
    <3>. QED BY <3>2, <3>3, <3>4
  <2>. QED BY <1>1, <2>7, <2>8
<1>. QED BY <1>1, <1>2, <1>3, PacketSizes

\* ftdi_read_data and ftdi_read_data_cb: of a bulk read of n data bytes, whole or broken
\* off, exactly those n are found, and in their order.
LEMMA StrippedBytes ==
    ASSUME readbuffer_chunksize \in Nat, readbuffer \in BufferOf(readbuffer_chunksize),
           sent \in Nat, NEW n \in Nat, sent + n <= MaxBytes,
           NEW actual \in 0..readbuffer_chunksize, Packed(actual, n)
    PROVE  /\ Received(actual) \in BufferOf(readbuffer_chunksize)
           /\ Strip(Received(actual), 2, actual) \in BufferOf(readbuffer_chunksize)
           /\ Bytes(Strip(Received(actual), 2, actual), 2, n) = Run(sent, n)
<1>. DEFINE C == readbuffer_chunksize
            rb == Received(actual)
            s == Strip(rb, 2, actual)
<1>1. PICK q, e : InPackets(actual, n, q, e)
  BY DEF Packed
<1>2. /\ q \in Nat /\ e \in 0..max_packet_size - 1 /\ e # 1
      /\ actual = q * max_packet_size + e
      /\ n = q * PayloadSize + (IF e = 0 THEN 0 ELSE e - 2)
      /\ q * max_packet_size = q * PayloadSize + 2 * q /\ q * PayloadSize \in Nat
  BY <1>1, PacketsPayload DEF InPackets
<1>3. /\ rb \in BufferOf(C)
      /\ \A p \in Nat, j \in 2..max_packet_size - 1 :
           p * max_packet_size + j < actual /\ p * max_packet_size + j < C =>
             rb[p * max_packet_size + j] = sent + p * PayloadSize + j - 1
  BY <1>1, ReceivedIs
<1>. HIDE DEF rb
<1>4. /\ s \in BufferOf(C)
      /\ \A p \in Nat, j \in 0..PayloadSize - 1 : p * PayloadSize + j < n =>
           s[2 + p * PayloadSize + j] = rb[2 + p * max_packet_size + j]
  BY <1>1, <1>3, StripIs
<1>. HIDE DEF s
<1>5. ASSUME NEW k \in 1..n
      PROVE  s[2 + k - 1] = sent + k
  <2>. DEFINE p == (k - 1) \div PayloadSize
              j == (k - 1) % PayloadSize
  <2>1. p \in Nat /\ j \in 0..PayloadSize - 1 /\ k - 1 = p * PayloadSize + j
    <3>1. k - 1 \in Nat
      OBVIOUS
    <3>. QED BY <3>1, PacketSizes, DivModParts
  <2>. HIDE DEF p, j
  <2>2. p * PayloadSize \in Nat /\ p * max_packet_size = p * PayloadSize + 2 * p
    BY <2>1, PacketsPayload
  <2>3. p * PayloadSize + j < n /\ 2 + k - 1 = 2 + p * PayloadSize + j
    BY <2>1, <2>2
  <2>4. s[2 + k - 1] = rb[2 + p * max_packet_size + j]
    BY <1>4, <2>1, <2>3
  <2>5. j + 2 \in 2..max_packet_size - 1 /\ 2 + p * max_packet_size + j = p * max_packet_size + (j + 2)
    BY <2>1, <2>2, PacketSizes
  <2>6. p * max_packet_size + (j + 2) < actual
    <3>1. CASE p < q
      <4>1. p * max_packet_size + max_packet_size <= q * max_packet_size
        BY <1>2, <2>1, <3>1, PacketOrder
      <4>. QED BY <1>2, <2>1, <2>2, <2>5, <4>1, PacketSizes
    <3>2. CASE p = q
      BY <1>2, <2>1, <2>2, <2>3, <3>2, PacketSizes
    <3>3. CASE p > q
      <4>1. q * PayloadSize + PayloadSize <= p * PayloadSize
        BY <1>2, <2>1, <3>3, PacketOrder
      <4>. QED BY <1>2, <2>1, <2>2, <2>3, <4>1, PacketSizes
    <3>. QED BY <1>2, <2>1, <3>1, <3>2, <3>3
  <2>7. p * max_packet_size + (j + 2) < C
    BY <1>2, <2>1, <2>2, <2>6, PacketSizes
  <2>8. rb[p * max_packet_size + (j + 2)] = sent + p * PayloadSize + (j + 2) - 1
    BY <1>3, <2>1, <2>5, <2>6, <2>7
  <2>. QED BY <2>1, <2>2, <2>4, <2>5, <2>8
<1>6. Bytes(s, 2, n) = Run(sent, n)
  BY <1>5 DEF Bytes, Run
<1>. QED BY <1>3, <1>4, <1>6 DEF s, rb

-----------------------------------------------------------------------------
(* The inductive invariant: who has the control blocks and transfers, what *)
(* the read side holds of the stream, and how far the write side is.       *)

ControlType ==
    /\ pc \in Handling \cup {"idle"} /\ cur \in Dirs
    /\ size \in [Dirs -> ReadSizes \cup WriteSizes \cup {0}]
    /\ live \in [Dirs -> BOOLEAN] /\ completed \in [Dirs -> BOOLEAN]
    /\ usb \in [Dirs -> {"none", "inflight", "cancelling", "expired", "returned"}]
    /\ status \in [Dirs -> Statuses] /\ actual_length \in [Dirs -> Nat]
    /\ dangling \in BOOLEAN /\ faults \in 0..MaxFaults

\* A control block is there as long as libusb has its transfer or a call waits for it;
\* a completed one has its transfer back.
ControlAt(d) ==
    /\ usb[d] # "none" => live[d]
    /\ completed[d] => live[d] /\ usb[d] = "none"
    /\ pc \in {"done", "done_error", "cancel"} /\ cur = d => live[d]
Control ==
    /\ ControlType /\ \A d \in Dirs : ControlAt(d)
    /\ "events" \notin FaultKinds => ~dangling

ReadType ==
    /\ readbuffer_chunksize \in ReadChunks
    /\ readbuffer \in BufferOf(readbuffer_chunksize)
    /\ readbuffer_offset \in Nat /\ readbuffer_remaining \in Nat
    /\ readbuffer_offset + readbuffer_remaining <= readbuffer_chunksize
    /\ buf \in Seq(Chip) /\ got \in Seq(Chip) /\ Len(buf) <= size["r"]
    /\ report \in BOOLEAN /\ sent \in 0..MaxBytes

\* What a returned transfer brought: the last bytes the chip sent.
ReturnedInv ==
    usb["r"] = "returned" =>
        /\ Count \in 0..MaxPayload /\ Count <= sent
        /\ Stripped \in BufferOf(readbuffer_chunksize)
        /\ Data(Count) = Run(sent - Count, Count)

\* While a read is under way the readbuffer is empty; without one there is no buf.
ReadInv ==
    /\ pc = "read_data" => ~live["r"]
    /\ pc # "read_data" /\ ~live["r"] => buf = <<>>
    /\ pc = "read_data" \/ usb["r"] # "none" => readbuffer_offset = 0 /\ readbuffer_remaining = 0
    /\ ReturnedInv

\* A read that is completed without a failure has all its bytes.
ReadWhole ==
    completed["r"] /\ status["r"] = "COMPLETED" /\ faults = MaxFaults => Len(buf) = size["r"]
ReadSide == ReadType /\ ReadInv /\ ReadWhole

WriteType ==
    /\ offset \in Nat /\ from \in Nat /\ len \in Nat
    /\ taken \in Seq(Nat) /\ offset <= size["w"]

\* The transfer libusb has is the next piece.
WriteInv ==
    /\ pc = "write_data" => ~live["w"]
    /\ WriteCounted
    /\ usb["w"] \in {"inflight", "cancelling", "expired"} => from = offset
WriteWhole ==
    completed["w"] /\ status["w"] = "COMPLETED" /\ faults = MaxFaults => offset = size["w"]
WriteSide == WriteType /\ WriteInv /\ WriteWhole

IInv == Control /\ ReadSide /\ WriteSide

LEMMA TypeSplits == IInv => TypeOK
BY DEF IInv, Control, ControlType, ReadSide, ReadType, WriteSide, WriteType, TypeOK, BufferOf, Chip

-----------------------------------------------------------------------------
(* Control blocks and transfers.                                           *)

LEMMA FaultCounts ==
    ASSUME Control, UNCHANGED faults \/ \E k \in AllFaults : Fault(k)
    PROVE  faults' \in 0..MaxFaults /\ (faults' = MaxFaults => faults = MaxFaults /\ UNCHANGED faults)
BY TransferAssumption DEF Control, ControlType, Fault

\* Steps that have no transfer given or taken: only the caller's place changes.
LEMMA CallerControl ==
    ASSUME Control, UNCHANGED <<live, completed, usb, dangling>>,
           pc' \in Handling \cup {"idle"}, cur' \in Dirs,
           pc' \in {"done", "done_error", "cancel"} => live[cur'],
           size' \in [Dirs -> ReadSizes \cup WriteSizes \cup {0}],
           status' \in [Dirs -> Statuses], actual_length' \in [Dirs -> Nat],
           faults' \in 0..MaxFaults
    PROVE  Control'
BY DEF Control, ControlType, ControlAt

LEMMA SubmittedControl ==
    ASSUME Control, NEW d \in Dirs, NEW n \in ReadSizes \cup WriteSizes, pc = "idle",
           Submitted(d, n), UNCHANGED <<pc, cur, faults>>
    PROVE  Control'
BY DEF Control, ControlType, ControlAt, Submitted, Dirs

\* libusb keeps the transfer, under another name or not.
LEMMA UsbControl ==
    ASSUME Control, NEW d \in Dirs, usb[d] # "none", NEW u, u # "none",
           usb' = [usb EXCEPT ![d] = u], usb' \in [Dirs -> {"none", "inflight", "cancelling", "expired", "returned"}],
           status' \in [Dirs -> Statuses], actual_length' \in [Dirs -> Nat],
           pc' \in Handling \cup {"idle"},
           pc' \in {"done", "done_error", "cancel"} => pc \in {"done", "done_error", "cancel"},
           UNCHANGED <<cur, size, live, completed, dangling>>, faults' \in 0..MaxFaults
    PROVE  Control'
<1>1. ASSUME NEW e \in Dirs
      PROVE  ControlAt(e)'
  <2>1. CASE e = d
    BY <2>1 DEF Control, ControlType, ControlAt
  <2>2. CASE e # d
    BY <2>2 DEF Control, ControlType, ControlAt
  <2>. QED BY <2>1, <2>2
<1>. QED BY <1>1 DEF Control, ControlType

LEMMA CompletesControl ==
    ASSUME Control, NEW d \in Dirs, usb[d] = "returned", Completes(d),
           UNCHANGED <<pc, cur, size, live, status, actual_length, dangling>>,
           faults' \in 0..MaxFaults
    PROVE  Control'
BY DEF Control, ControlType, ControlAt, Completes, Dirs

LEMMA ResubmitControl ==
    ASSUME Control, NEW d \in Dirs, usb[d] = "returned", Resubmit(d),
           UNCHANGED <<pc, cur, size, live, status, actual_length, dangling>>
    PROVE  Control'
<1>1. CASE Completes(d) /\ (UNCHANGED faults \/ Fault("submit"))
  BY <1>1, FaultCounts, CompletesControl DEF AllFaults
<1>2. CASE usb' = [usb EXCEPT ![d] = "inflight"] /\ UNCHANGED <<completed, faults>>
  BY <1>2, UsbControl DEF Control, ControlType
<1>. QED BY <1>1, <1>2 DEF Resubmit

LEMMA CancelControl ==
    ASSUME Control, NEW d \in Dirs, live[d], CancelTransfer(d), cur' = d,
           pc' \in {"done_error", "cancel"}, faults' \in 0..MaxFaults,
           UNCHANGED <<size, live, completed, actual_length, dangling>>
    PROVE  Control'
BY DEF Control, ControlType, ControlAt, CancelTransfer, Dirs, Statuses, Handling

LEMMA FreeControl ==
    ASSUME Control, NEW success, pc \in {"done", "done_error", "cancel"}, pc' = "idle", cur' = cur,
           Free(cur, success), faults' \in 0..MaxFaults,
           completed[cur] \/ "events" \in FaultKinds
    PROVE  Control'
<1>1. ControlType'
  BY DEF Control, ControlType, Free
<1>2. ASSUME NEW e \in Dirs
      PROVE  ControlAt(e)'
  BY <1>2 DEF Control, ControlType, ControlAt, Free
<1>3. "events" \notin FaultKinds => ~dangling'
  BY DEF Control, ControlType, ControlAt, Free
<1>. QED BY <1>1, <1>2, <1>3 DEF Control

-----------------------------------------------------------------------------
(* The steps of ByteStream, by the parts of what is on its way.            *)

LEMMA ConcatParts ==
    ASSUME NEW a \in Seq(Chip), NEW b \in Seq(Chip)
    PROVE  /\ a \o b \in Seq(Chip) /\ Len(a \o b) = Len(a) + Len(b)
           /\ a \o <<>> = a /\ <<>> \o a = a
           /\ SubSeq(a \o b, 1, Len(a)) = a
           /\ SubSeq(a \o b, Len(a) + 1, Len(a) + Len(b)) = b
<1>1. a \o b \in Seq(Chip) /\ Len(a \o b) = Len(a) + Len(b) /\ Len(a) \in Nat /\ Len(b) \in Nat
      /\ \A i \in 1..Len(a) + Len(b) : (a \o b)[i] = IF i <= Len(a) THEN a[i] ELSE b[i - Len(a)]
  BY ConcatProperties
<1>2. a \o <<>> = a /\ <<>> \o a = a
  BY ConcatEmptySeq
<1>. DEFINE ab == a \o b
<1>3. /\ \A i \in 1..Len(a) : ab[i] = a[i]
      /\ \A i \in 1..Len(b) : ab[(Len(a) + 1) + i - 1] = b[i]
  BY <1>1
<1>. HIDE DEF ab
<1>4. SubSeq(ab, 1, Len(a)) = a
  <2>1. \A i \in 1..Len(a) : ab[i] \in Chip
    BY <1>1, <1>3
  <2>2. /\ SubSeq(ab, 1, Len(a)) \in Seq(Chip) /\ Len(SubSeq(ab, 1, Len(a))) = Len(a)
        /\ \A i \in 1..Len(a) : SubSeq(ab, 1, Len(a))[i] = ab[i]
    BY <1>1, <2>1, SubSeqProperties
  <2>. QED BY <1>3, <2>2, SeqEqual
<1>5. SubSeq(ab, Len(a) + 1, Len(a) + Len(b)) = b
  <2>. DEFINE t == SubSeq(ab, Len(a) + 1, Len(a) + Len(b))
  <2>1. \A i \in Len(a) + 1..Len(a) + Len(b) : ab[i] \in Chip
    BY <1>1 DEF ab
  <2>2. /\ t \in Seq(Chip) /\ Len(t) = Len(b)
        /\ \A i \in 1..Len(b) : t[i] = ab[(Len(a) + 1) + i - 1]
    BY <1>1, <2>1, SubSeqProperties
  <2>. HIDE DEF t
  <2>3. t = b
    BY <1>3, <2>2, SeqEqual
  <2>. QED BY <2>3 DEF t
<1>. QED BY <1>1, <1>2, <1>4, <1>5 DEF ab

LEMMA ConcatAssoc ==
    ASSUME NEW a \in Seq(Chip), NEW b \in Seq(Chip), NEW c \in Seq(Chip)
    PROVE  a \o (b \o c) = (a \o b) \o c
BY ConcatAssociative, SMTT(30)

LEMMA RunInChip ==
    ASSUME NEW a \in Nat, NEW n \in Nat, a + n <= MaxBytes
    PROVE  Run(a, n) \in Seq(Chip) /\ Len(Run(a, n)) = n
<1>1. MaxBytes \in Nat
  BY TransferAssumption
<1>2. \A j \in 1..n : a + j \in Chip
  BY <1>1 DEF Chip
<1>. QED BY <1>2 DEF Run

\* On its way, with what the chip sends in this step.
Coming == Pending \o Run(sent, sent' - sent)
StreamStep == [Reads!Next]_<<sent, Pending, got, report>>

LEMMA NothingComing ==
    ASSUME Pending \in Seq(Chip), sent \in Nat, sent' = sent
    PROVE  Coming = Pending
<1>1. Run(sent, sent' - sent) = <<>>
  BY DEF Run
<1>. QED BY <1>1, ConcatEmptySeq DEF Coming

LEMMA SentIsComing == Reads!Sent(sent') = Coming
BY DEF Reads!Sent, Coming, Run

LEMMA SendStep ==
    ASSUME sent' > sent, Pending' = Coming, UNCHANGED <<got, report>>
    PROVE  StreamStep
BY SentIsComing DEF StreamStep, Reads!Next, Reads!Send

LEMMA ReceiveStep ==
    ASSUME sent' >= sent, NEW a \in Seq(Chip), NEW b \in Seq(Chip), Coming = a \o b,
           got' = got \o a, Pending' = b, report' = report
    PROVE  StreamStep
<1>1. /\ Len(a) \in 0..Len(Coming) /\ Len(Coming) = Len(a) + Len(b)
      /\ SubSeq(Coming, 1, Len(a)) = a /\ SubSeq(Coming, Len(a) + 1, Len(Coming)) = b
  BY ConcatParts
<1>2. Reads!Receive
  BY <1>1, SentIsComing DEF Reads!Receive
<1>. QED BY <1>2 DEF StreamStep, Reads!Next

LEMMA LoseStep ==
    ASSUME sent' >= sent, NEW a \in Seq(Chip), NEW b \in Seq(Chip), NEW c \in Seq(Chip),
           Coming = (a \o b) \o c, Pending' = a \o c, report' = ~report, got' = got
    PROVE  StreamStep
<1>1. a \o b \in Seq(Chip) /\ Len(a \o b) = Len(a) + Len(b) /\ Len(a) \in Nat /\ Len(b) \in Nat
  BY ConcatParts
<1>2. /\ Len(a \o b) \in 0..Len(Coming) /\ Len(a) \in 0..Len(a \o b)
      /\ Len(Coming) = Len(a \o b) + Len(c)
      /\ SubSeq(Coming, Len(a \o b) + 1, Len(Coming)) = c
  BY <1>1, ConcatParts
<1>3. SubSeq(Coming, 1, Len(a)) = a
  <2>1. b \o c \in Seq(Chip)
    BY ConcatParts, SMT
  <2>2. a \o (b \o c) = (a \o b) \o c
    BY ConcatAssoc, ZenonT(60)
  <2>3. Coming = a \o (b \o c)
    BY <2>2
  <2>4. SubSeq(a \o (b \o c), 1, Len(a)) = a
    BY <2>1, ConcatParts, SMT
  <2>. QED BY <2>3, <2>4
<1>4. Reads!Lose
  BY <1>2, <1>3, SentIsComing DEF Reads!Lose
<1>. QED BY <1>4 DEF StreamStep, Reads!Next

-----------------------------------------------------------------------------
(* What is on its way, wherever the read side is.                          *)

ReadControl == Control /\ ReadSide
ReadStep == ReadSide' /\ StreamStep

LEMMA BufferFacts ==
    ASSUME ReadControl
    PROVE  /\ readbuffer_chunksize \in Nat /\ readbuffer \in BufferOf(readbuffer_chunksize)
           /\ Announced \in Seq(Chip) /\ Len(Announced) = readbuffer_remaining
           /\ buf \in Seq(Chip) /\ got \in Seq(Chip) /\ sent \in Nat
           /\ buf \o Announced \in Seq(Chip) /\ MaxBytes \in Nat
<1>1. readbuffer_chunksize \in Nat
  BY ChunkSizes DEF ReadControl, ReadSide, ReadType
<1>2. Announced \in Seq(Chip) /\ Len(Announced) = readbuffer_remaining
  BY <1>1, BytesIsSeq DEF ReadControl, ReadSide, ReadType, Announced
<1>. QED BY <1>1, <1>2, ConcatParts, TransferAssumption DEF ReadControl, ReadSide, ReadType

LEMMA SizeFacts ==
    ASSUME ReadControl
    PROVE  size["r"] \in Nat /\ Len(buf) \in Nat /\ Len(buf) <= size["r"]
<1>1. size["r"] \in ReadSizes \cup WriteSizes \cup {0}
  BY DEF ReadControl, Control, ControlType, Dirs
<1>2. buf \in Seq(Chip) /\ Len(buf) <= size["r"]
  BY DEF ReadControl, ReadSide, ReadType
<1>3. ReadSizes \cup WriteSizes \cup {0} \subseteq Nat
  BY TransferAssumption
<1>4. size["r"] \in Nat
  BY <1>1, <1>3
<1>5. Len(buf) \in Nat
  BY <1>2
<1>. QED BY <1>2, <1>4, <1>5

\* Of more bytes than asked for, those that are.
LEMMA PartFits ==
    ASSUME NEW s \in Nat, NEW l \in Nat, l <= s, NEW n \in Nat, l + n > s,
           NEW C \in Nat, 2 + n <= C
    PROVE  /\ s - l \in Nat /\ n - (s - l) \in Nat /\ (s - l) + (n - (s - l)) = n
           /\ 2 + (s - l) + (n - (s - l)) <= C /\ 2 + (s - l) \in Nat /\ 2 + (s - l) <= C
OBVIOUS

\* Nothing is in the hands of libusb but what the chip has yet to send.
LEMMA PendingHere ==
    ASSUME ReadControl, usb["r"] # "returned"
    PROVE  Pending = buf \o Announced /\ Pending \in Seq(Chip)
BY BufferFacts, ConcatParts DEF Pending

\* A callback is to run.
LEMMA ReturnedFacts ==
    ASSUME ReadControl, usb["r"] = "returned"
    PROVE  /\ readbuffer_offset = 0 /\ readbuffer_remaining = 0 /\ live["r"] /\ pc # "read_data"
           /\ Count \in Nat /\ 2 + Count <= readbuffer_chunksize
           /\ Stripped \in BufferOf(readbuffer_chunksize)
           /\ \A n \in 0..Count : /\ Data(n) = Bytes(Stripped, 2, n)
                                  /\ Data(n) \in Seq(Chip) /\ Len(Data(n)) = n
           /\ Data(Count) = Run(sent - Count, Count)
           /\ Pending = buf \o Data(Count) /\ Pending \in Seq(Chip)
<1>1. /\ readbuffer_offset = 0 /\ readbuffer_remaining = 0 /\ live["r"] /\ pc # "read_data"
      /\ Count \in 0..MaxPayload /\ Stripped \in BufferOf(readbuffer_chunksize)
      /\ Data(Count) = Run(sent - Count, Count)
  BY DEF ReadControl, ReadSide, ReadInv, ReturnedInv, Control, ControlAt, Dirs
<1>2. readbuffer_chunksize \in Nat /\ MaxPayload \in Nat /\ MaxPayload + 2 <= readbuffer_chunksize
  BY ChunkSizes DEF ReadControl, ReadSide, ReadType
<1>3. ASSUME NEW n \in 0..Count
      PROVE  /\ Data(n) = Bytes(Stripped, 2, n)
             /\ Data(n) \in Seq(Chip) /\ Len(Data(n)) = n
  <2>1. Data(n) = Bytes(Stripped, 2, n)
    BY <1>1 DEF Data
  <2>2. n \in Nat /\ 2 + n <= readbuffer_chunksize
    BY <1>1, <1>2
  <2>. QED BY <1>1, <1>2, <2>1, <2>2, BytesIsSeq
<1>4. Announced = <<>>
  BY <1>1, NoBytes DEF Announced
<1>5. buf \o <<>> = buf /\ buf \in Seq(Chip)
  BY BufferFacts, ConcatParts
<1>6. Data(Count) \in Seq(Chip)
  BY <1>1, <1>2, <1>3
<1>7. Pending = buf \o Data(Count) /\ Pending \in Seq(Chip)
  BY <1>4, <1>5, <1>6, ConcatParts DEF Pending
<1>. QED BY <1>1, <1>2, <1>3, <1>7

LEMMA PendingIsSeq ==
    ASSUME ReadControl
    PROVE  Pending \in Seq(Chip)
BY PendingHere, ReturnedFacts

\* The write side moves, or a call waits: nothing of the read side changes.
LEMMA ReadFrame ==
    ASSUME ReadControl, UNCHANGED <<buffer, buf, sent, got, report>>,
           size'["r"] = size["r"], actual_length'["r"] = actual_length["r"],
           live["r"] <=> live'["r"],
           completed'["r"] /\ status'["r"] = "COMPLETED" =>
               completed["r"] /\ status["r"] = "COMPLETED",
           usb'["r"] = "returned" <=> usb["r"] = "returned", usb'["r"] = "none" <=> usb["r"] = "none",
           pc' = "read_data" <=> pc = "read_data", faults' = MaxFaults => faults = MaxFaults
    PROVE  ReadStep
<1>1. UNCHANGED <<readbuffer, readbuffer_chunksize, readbuffer_offset, readbuffer_remaining>>
  BY DEF buffer
<1>2. Stripped' = Stripped /\ Count' = Count /\ MaxPayload' = MaxPayload
  BY <1>1 DEF Stripped, Count, MaxPayload
<1>3. Data(Count)' = Data(Count)
  BY <1>1, <1>2 DEF Data
<1>4. Announced' = Announced
  BY <1>1 DEF Announced
<1>5. Pending' = Pending
  BY <1>3, <1>4 DEF Pending
<1>6. ReadType'
  BY <1>1 DEF ReadControl, ReadSide, ReadType
<1>7. ReturnedInv'
  BY <1>1, <1>2, <1>3 DEF ReadControl, ReadSide, ReadInv, ReturnedInv
<1>8. ReadInv' /\ ReadWhole'
  BY <1>1, <1>7 DEF ReadControl, ReadSide, ReadInv, ReadWhole
<1>. QED BY <1>5, <1>6, <1>8 DEF ReadStep, ReadSide, StreamStep

-----------------------------------------------------------------------------
(* ftdi_read_data.                                                         *)

\* Between the calls nothing is in buf.
LEMMA IdleFacts ==
    ASSUME ReadControl, pc # "read_data", ~live["r"]
    PROVE  /\ buf = <<>> /\ usb["r"] = "none" /\ ~completed["r"]
           /\ Pending = Announced /\ Announced \in Seq(Chip)
<1>1. buf = <<>> /\ usb["r"] = "none" /\ ~completed["r"]
  BY DEF ReadControl, ReadSide, ReadInv, Control, ControlAt, Dirs
<1>. QED BY <1>1, BufferFacts, PendingHere, ConcatParts

\* count bytes are taken from the front of the readbuffer.
LEMMA TakeFromBuffer ==
    ASSUME ReadControl, NEW n \in Nat, n <= readbuffer_remaining
    PROVE  LET first == Bytes(readbuffer, readbuffer_offset, n)
               rest == Bytes(readbuffer, readbuffer_offset + n, readbuffer_remaining - n)
           IN  /\ first \in Seq(Chip) /\ Len(first) = n
               /\ rest \in Seq(Chip) /\ Announced = first \o rest
<1>1. /\ readbuffer_offset \in Nat /\ readbuffer_remaining \in Nat /\ n \in 0..readbuffer_remaining
      /\ readbuffer_offset + readbuffer_remaining <= readbuffer_chunksize
      /\ readbuffer_chunksize \in Nat /\ readbuffer \in BufferOf(readbuffer_chunksize)
  BY BufferFacts DEF ReadControl, ReadSide, ReadType
<1>. DEFINE mid == readbuffer_offset + n
            m == readbuffer_remaining - n
            whole == Bytes(readbuffer, readbuffer_offset, readbuffer_remaining)
            first == Bytes(readbuffer, readbuffer_offset, n)
            rest == Bytes(readbuffer, mid, m)
<1>2. mid = readbuffer_offset + n /\ m = readbuffer_remaining - n
  OBVIOUS
<1>. HIDE DEF mid, m
<1>3. mid \in Nat /\ m \in Nat /\ mid + m <= readbuffer_chunksize /\ readbuffer_offset + n <= readbuffer_chunksize
  BY <1>1, <1>2
<1>4. whole = first \o rest
  BY <1>1, <1>2, BytesPart
<1>5. first \in Seq(Chip) /\ Len(first) = n
  BY <1>1, <1>3, BytesIsSeq
<1>6. rest \in Seq(Chip)
  BY <1>1, <1>3, BytesIsSeq
<1>. QED BY <1>2, <1>4, <1>5, <1>6 DEF Announced

LEMMA ReadBufferedStep ==
    ASSUME ReadControl, NEW n \in ReadSizes, ReadBuffered(n)
    PROVE  ReadStep
<1>. DEFINE first == Bytes(readbuffer, readbuffer_offset, n)
            rest == Bytes(readbuffer, readbuffer_offset + n, readbuffer_remaining - n)
<1>1. /\ pc = "idle" /\ ~live["r"] /\ n <= readbuffer_remaining /\ n \in Nat
      /\ got' = got \o first /\ readbuffer_remaining' = readbuffer_remaining - n
      /\ readbuffer_offset' = readbuffer_offset + n
      /\ UNCHANGED <<pc, cur, size, readbuffer, readbuffer_chunksize, buf, live, completed, usb,
                     status, actual_length, faults, sent, report>>
  BY TransferAssumption DEF ReadBuffered, control
<1>2. first \in Seq(Chip) /\ rest \in Seq(Chip) /\ Announced = first \o rest
  BY <1>1, TakeFromBuffer
<1>3. buf = <<>> /\ usb["r"] = "none" /\ ~completed["r"] /\ Pending = Announced
  BY <1>1, IdleFacts
<1>4. Announced' = rest
  BY <1>1 DEF Announced
<1>. HIDE DEF first, rest
<1>5. Pending' = rest
  BY <1>1, <1>2, <1>3, <1>4, ConcatParts, BufferFacts DEF Pending
<1>6. StreamStep
  <2>1. Coming = first \o rest
    BY <1>1, <1>2, <1>3, BufferFacts, PendingIsSeq, NothingComing
  <2>2. sent' >= sent /\ got' = got \o first /\ report' = report
    BY <1>1, BufferFacts
  <2>. QED BY <1>2, <1>5, <2>1, <2>2, ReceiveStep
<1>7. ReadType'
  BY <1>1, <1>2, BufferFacts, ConcatParts DEF ReadControl, ReadSide, ReadType
<1>8. ReadInv' /\ ReadWhole'
  BY <1>1, <1>3 DEF ReadInv, ReturnedInv, ReadWhole
<1>. QED BY <1>6, <1>7, <1>8 DEF ReadStep, ReadSide

\* A read takes what the readbuffer announces, and goes on without it: as ftdi_read_data
\* and ftdi_read_data_submit do.
LEMMA TakeAll ==
    ASSUME ReadControl, pc = "idle", ~live["r"], NEW n \in ReadSizes, n > readbuffer_remaining,
           buf' = Announced, readbuffer_remaining' = 0, readbuffer_offset' = 0,
           size'["r"] = n,
           \/ pc' = "read_data" /\ ~live'["r"] /\ usb'["r"] = "none"
           \/ pc' = "idle" /\ live'["r"] /\ usb'["r"] = "inflight",
           ~completed'["r"],
           UNCHANGED <<readbuffer, readbuffer_chunksize, sent, got, report>>
    PROVE  ReadStep
<1>1. buf = <<>> /\ usb["r"] = "none" /\ Pending = Announced /\ Announced \in Seq(Chip)
      /\ Len(Announced) = readbuffer_remaining
  BY IdleFacts, BufferFacts
<1>2. Announced' = <<>>
  BY NoBytes DEF Announced
<1>3. Pending' = Pending
  BY <1>1, <1>2, ConcatParts DEF Pending
<1>4. ReadType'
  BY <1>1, BufferFacts, TransferAssumption DEF ReadControl, ReadSide, ReadType
<1>5. ReadInv' /\ ReadWhole'
  BY DEF ReadInv, ReturnedInv, ReadWhole
<1>. QED BY <1>3, <1>4, <1>5 DEF ReadStep, ReadSide, StreamStep

LEMMA read_dataStep ==
    ASSUME ReadControl, NEW n \in ReadSizes, read_data(n)
    PROVE  ReadStep
<1>1. /\ pc = "idle" /\ ~live["r"] /\ n > readbuffer_remaining /\ buf' = Announced
      /\ readbuffer_remaining' = 0 /\ readbuffer_offset' = 0 /\ pc' = "read_data"
      /\ size' = [size EXCEPT !["r"] = n]
      /\ UNCHANGED <<readbuffer, readbuffer_chunksize, live, completed, usb, sent, got, report>>
  BY DEF read_data, Announced, control
<1>2. size'["r"] = n
  BY <1>1 DEF ReadControl, Control, ControlType, Dirs
<1>3. usb["r"] = "none" /\ ~completed["r"]
  BY <1>1, IdleFacts
<1>. QED BY <1>1, <1>2, <1>3, TakeAll
\* A read has returned, or was not there: nothing is in buf or with libusb.
LEMMA NoReadSide ==
    ASSUME pc' # "read_data", buf' = <<>>, usb'["r"] = "none", ~completed'["r"],
           readbuffer_chunksize' \in ReadChunks, readbuffer' \in BufferOf(readbuffer_chunksize'),
           readbuffer_offset' \in Nat, readbuffer_remaining' \in Nat,
           readbuffer_offset' + readbuffer_remaining' <= readbuffer_chunksize',
           got' \in Seq(Chip), report' \in BOOLEAN, sent' \in 0..MaxBytes, size'["r"] \in Nat
    PROVE  ReadSide' /\ Pending' = Announced' /\ Announced' \in Seq(Chip)
<1>1. readbuffer_chunksize' \in Nat
  BY TransferAssumption
<1>2. Announced' \in Seq(Chip)
  BY <1>1, BytesIsSeq DEF Announced
<1>3. Pending' = Announced'
  BY <1>2, ConcatParts DEF Pending
<1>4. ReadType'
  BY DEF ReadType
<1>5. ReadInv' /\ ReadWhole'
  BY DEF ReadInv, ReturnedInv, ReadWhole
<1>. QED BY <1>2, <1>3, <1>4, <1>5 DEF ReadSide

\* All that was on its way is lost.
LEMMA LoseAll ==
    ASSUME sent' >= sent, Coming \in Seq(Chip), Pending' = <<>>, report' = ~report, got' = got
    PROVE  StreamStep
<1>1. Coming = (<<>> \o Coming) \o <<>> /\ <<>> = <<>> \o <<>> /\ <<>> \in Seq(Chip)
  BY ConcatParts
<1>. QED BY <1>1, LoseStep

\* What a bulk read may bring while the readbuffer is empty.
LEMMA PayloadFacts ==
    ASSUME ReadControl, NEW n \in Payloads
    PROVE  /\ n \in 0..MaxPayload /\ n \in Nat /\ 2 + n <= readbuffer_chunksize
           /\ sent + n \in 0..MaxBytes
           /\ Run(sent, n) \in Seq(Chip) /\ Len(Run(sent, n)) = n
           /\ \A actual \in {Whole(n), Broken(n)} :
                /\ actual \in 0..readbuffer_chunksize /\ DataLength(actual) = n
                /\ Received(actual) \in BufferOf(readbuffer_chunksize)
                /\ Strip(Received(actual), 2, actual) \in BufferOf(readbuffer_chunksize)
                /\ Bytes(Strip(Received(actual), 2, actual), 2, n) = Run(sent, n)
<1>1. readbuffer_chunksize \in ReadChunks /\ sent \in Nat /\ MaxBytes \in Nat
  BY TransferAssumption DEF ReadControl, ReadSide, ReadType
<1>2. readbuffer_chunksize \in Nat /\ MaxPayload \in Nat /\ MaxPayload + 2 <= readbuffer_chunksize
  BY <1>1, ChunkSizes
<1>3. n \in 0..MaxPayload /\ sent + n <= MaxBytes
  BY DEF Payloads
<1>4. n \in Nat /\ 2 + n <= readbuffer_chunksize /\ sent + n \in 0..MaxBytes
  BY <1>1, <1>2, <1>3
<1>5. Run(sent, n) \in Seq(Chip) /\ Len(Run(sent, n)) = n
  BY <1>1, <1>3, <1>4, RunInChip
<1>6. ASSUME NEW actual \in {Whole(n), Broken(n)}
      PROVE  /\ actual \in 0..readbuffer_chunksize /\ DataLength(actual) = n
             /\ Received(actual) \in BufferOf(readbuffer_chunksize)
             /\ Strip(Received(actual), 2, actual) \in BufferOf(readbuffer_chunksize)
             /\ Bytes(Strip(Received(actual), 2, actual), 2, n) = Run(sent, n)
  <2>1. Packed(actual, n) /\ actual \in 0..readbuffer_chunksize
    BY <1>1, <1>3, BulkIsPacked
  <2>2. readbuffer \in BufferOf(readbuffer_chunksize)
    BY DEF ReadControl, ReadSide, ReadType
  <2>3. DataLength(actual) = n
    BY <2>1, DataLengthCounts
  <2>. QED BY <1>1, <1>2, <1>3, <1>4, <2>1, <2>2, <2>3, StrippedBytes
<1>. QED BY <1>3, <1>4, <1>5, <1>6

LEMMA BulkFacts ==
    ASSUME ReadControl, NEW n \in Payloads, pc = "read_data", sent' = sent + n
    PROVE  /\ readbuffer_offset + 2 = 2 /\ usb["r"] = "none" /\ ~completed["r"] /\ ~live["r"]
           /\ buf \in Seq(Chip) /\ Coming = buf \o Run(sent, n) /\ Coming \in Seq(Chip)
           /\ sent' >= sent /\ sent' \in 0..MaxBytes
<1>1. readbuffer_offset = 0 /\ readbuffer_remaining = 0 /\ usb["r"] = "none" /\ ~completed["r"] /\ ~live["r"]
  BY DEF ReadControl, ReadSide, ReadInv, Control, ControlAt, Dirs
<1>2. Announced = <<>>
  BY <1>1, NoBytes DEF Announced
<1>3. Pending = buf /\ buf \in Seq(Chip)
  BY <1>1, <1>2, BufferFacts, ConcatParts, PendingHere
<1>4. sent \in Nat /\ n \in Nat /\ sent + n \in 0..MaxBytes /\ Run(sent, n) \in Seq(Chip)
  BY BufferFacts, PayloadFacts
<1>5. sent' - sent = n /\ sent' >= sent
  BY <1>4
<1>6. Coming = buf \o Run(sent, n)
  BY <1>3, <1>5 DEF Coming
<1>7. buf \o Run(sent, n) \in Seq(Chip)
  BY <1>3, <1>4, ConcatParts
<1>. QED BY <1>1, <1>3, <1>4, <1>5, <1>6, <1>7

\* The call returns: nothing of the read is left but what is announced.
LEMMA BulkEnds ==
    ASSUME ReadControl, NEW n \in Payloads, pc = "read_data", sent' = sent + n,
           pc' = "idle", buf' = <<>>, size' = [size EXCEPT !["r"] = 0],
           UNCHANGED <<readbuffer_chunksize, control>>, readbuffer' \in BufferOf(readbuffer_chunksize),
           readbuffer_offset' \in Nat, readbuffer_remaining' \in Nat,
           readbuffer_offset' + readbuffer_remaining' <= readbuffer_chunksize,
           got' \in Seq(Chip), report' \in BOOLEAN
    PROVE  ReadSide' /\ Pending' = Announced' /\ Announced' \in Seq(Chip)
<1>1. size'["r"] = 0 /\ readbuffer_chunksize \in ReadChunks
  BY DEF ReadControl, ReadSide, ReadType, Control, ControlType, Dirs
<1>2. usb'["r"] = "none" /\ ~completed'["r"] /\ sent' \in 0..MaxBytes
  BY BulkFacts DEF control
<1>. QED BY <1>1, <1>2, NoReadSide

LEMMA BulkReadNothingStep ==
    ASSUME ReadControl, BulkReadNothing
    PROVE  ReadStep
<1>1. /\ pc = "read_data" /\ sent' = sent + 0
      /\ readbuffer' = Strip(Received(Whole(0)), readbuffer_offset + 2, Whole(0))
      /\ readbuffer_remaining' = 0 /\ readbuffer_offset' = 0 /\ pc' = "idle"
      /\ got' = got \o buf /\ buf' = <<>> /\ size' = [size EXCEPT !["r"] = 0]
      /\ UNCHANGED <<readbuffer_chunksize, control, report>>
  BY DEF BulkReadNothing, BulkReturns, ReadReturns
<1>2. 0 \in Payloads
  BY ChunkSizes DEF Payloads, ReadControl, ReadSide, ReadType
<1>3. /\ readbuffer_offset + 2 = 2 /\ buf \in Seq(Chip) /\ Coming = buf \o Run(sent, 0)
      /\ sent' >= sent
  BY <1>1, <1>2, BulkFacts
<1>4. readbuffer' \in BufferOf(readbuffer_chunksize)
  BY <1>1, <1>2, <1>3, PayloadFacts
<1>5. got \o buf \in Seq(Chip) /\ readbuffer_chunksize \in Nat /\ report \in BOOLEAN
  BY <1>3, BufferFacts, ConcatParts DEF ReadControl, ReadSide, ReadType
<1>6. ReadSide' /\ Pending' = Announced'
  BY <1>1, <1>2, <1>4, <1>5, BulkEnds
<1>7. Announced' = <<>>
  BY <1>1, NoBytes DEF Announced
<1>8. Run(sent, 0) = <<>> /\ <<>> \in Seq(Chip)
  BY DEF Run
<1>9. StreamStep
  BY <1>1, <1>3, <1>6, <1>7, <1>8, ReceiveStep
<1>. QED BY <1>6, <1>9 DEF ReadStep

LEMMA BulkReadFitsStep ==
    ASSUME ReadControl, NEW n \in Payloads, BulkReadFits(n)
    PROVE  ReadStep
<1>. DEFINE all == buf \o Run(sent, n)
<1>1. /\ readbuffer_offset + 2 = 2 /\ buf \in Seq(Chip) /\ Coming = all /\ all \in Seq(Chip)
      /\ sent' >= sent /\ sent' \in 0..MaxBytes /\ pc = "read_data" /\ sent' = sent + n
      /\ usb["r"] = "none" /\ ~live["r"] /\ ~completed["r"]
  BY BulkFacts DEF BulkReadFits, BulkReturns
<1>2. /\ n \in Nat /\ 2 + n <= readbuffer_chunksize /\ DataLength(Whole(n)) = n
      /\ Strip(Received(Whole(n)), 2, Whole(n)) \in BufferOf(readbuffer_chunksize)
      /\ Bytes(Strip(Received(Whole(n)), 2, Whole(n)), 2, n) = Run(sent, n)
      /\ Run(sent, n) \in Seq(Chip) /\ Len(Run(sent, n)) = n
  BY PayloadFacts
<1>3. /\ readbuffer' \in BufferOf(readbuffer_chunksize) /\ Bytes(readbuffer', readbuffer_offset + 2, n) = Run(sent, n)
      /\ n > 0 /\ Len(buf) + n <= size["r"] /\ readbuffer_remaining' = 0
      /\ UNCHANGED <<readbuffer_chunksize, control, faults, report>>
  BY <1>1, <1>2 DEF BulkReadFits, BulkReturns
<1>4. Len(all) = Len(buf) + n
  BY <1>1, <1>2, ConcatParts
<1>5. /\ readbuffer_chunksize \in Nat /\ sent \in Nat /\ got \in Seq(Chip) /\ report \in BOOLEAN
      /\ readbuffer_chunksize \in ReadChunks /\ size["r"] = size["r"]
  BY BufferFacts DEF ReadControl, ReadSide, ReadType
<1>6. Announced' = <<>>
  BY <1>3, NoBytes DEF Announced
<1>7. CASE /\ pc' = "idle" /\ got' = got \o all /\ buf' = <<>>
           /\ size' = [size EXCEPT !["r"] = 0] /\ readbuffer_offset' = readbuffer_offset + 2
  <2>1. got' \in Seq(Chip)
    BY <1>1, <1>5, <1>7, ConcatParts
  <2>2. ReadSide' /\ Pending' = <<>>
    BY <1>1, <1>2, <1>3, <1>5, <1>6, <1>7, <2>1, BulkEnds
  <2>3. all = all \o <<>> /\ <<>> \in Seq(Chip)
    BY <1>1, ConcatParts
  <2>. HIDE DEF all
  <2>4. StreamStep
    BY <1>1, <1>3, <1>7, <2>2, <2>3, ReceiveStep
  <2>. QED BY <2>2, <2>4 DEF ReadStep
<1>8. CASE buf' = all /\ readbuffer_offset' = 0 /\ UNCHANGED <<pc, size, got>>
  <2>1. Pending' = all
    BY <1>1, <1>3, <1>6, <1>8, ConcatParts DEF Pending, control
  <2>2. StreamStep
    BY <1>1, <1>2, <1>3, <1>5, <1>8, <2>1, SendStep
  <2>3. ReadType'
    BY <1>1, <1>3, <1>4, <1>5, <1>8 DEF ReadType
  <2>4. ReadInv' /\ ReadWhole'
    BY <1>1, <1>3, <1>8 DEF ReadInv, ReturnedInv, ReadWhole, control
  <2>. QED BY <2>2, <2>3, <2>4 DEF ReadStep, ReadSide
<1>. QED BY <1>1, <1>2, <1>3, <1>7, <1>8 DEF BulkReadFits, ReadReturns

LEMMA BulkReadExceedsStep ==
    ASSUME ReadControl, NEW n \in Payloads, BulkReadExceeds(n)
    PROVE  ReadStep
<1>. DEFINE part == size["r"] - Len(buf)
            first == Bytes(readbuffer', 2, part)
            rest == Bytes(readbuffer', 2 + part, n - part)
<1>1. /\ readbuffer_offset + 2 = 2 /\ buf \in Seq(Chip) /\ Coming = buf \o Run(sent, n)
      /\ sent' >= sent /\ pc = "read_data" /\ sent' = sent + n
  BY BulkFacts DEF BulkReadExceeds, BulkReturns
<1>2. /\ n \in Nat /\ 2 + n <= readbuffer_chunksize /\ DataLength(Whole(n)) = n
      /\ Strip(Received(Whole(n)), 2, Whole(n)) \in BufferOf(readbuffer_chunksize)
      /\ Bytes(Strip(Received(Whole(n)), 2, Whole(n)), 2, n) = Run(sent, n)
  BY PayloadFacts
<1>3. /\ readbuffer' \in BufferOf(readbuffer_chunksize) /\ Bytes(readbuffer', 2, n) = Run(sent, n)
      /\ Len(buf) + n > size["r"]
      /\ readbuffer_offset' = 2 + part /\ readbuffer_remaining' = n - part
      /\ pc' = "idle" /\ got' = got \o (buf \o first) /\ buf' = <<>>
      /\ size' = [size EXCEPT !["r"] = 0]
      /\ UNCHANGED <<readbuffer_chunksize, control, report>>
  BY <1>1, <1>2 DEF BulkReadExceeds, BulkReturns, ReadReturns
<1>4. /\ readbuffer_chunksize \in Nat /\ got \in Seq(Chip) /\ report \in BOOLEAN
      /\ Len(buf) <= size["r"] /\ size["r"] \in Nat /\ Len(buf) \in Nat
  BY BufferFacts, SizeFacts DEF ReadControl, ReadSide, ReadType
<1>5. part \in Nat /\ n - part \in Nat /\ part + (n - part) = n /\ 2 + part + (n - part) <= readbuffer_chunksize
      /\ 2 + part \in Nat /\ (2 + part) + (n - part) <= readbuffer_chunksize /\ 2 + part <= readbuffer_chunksize
  <2>1. n \in Nat /\ 2 + n <= readbuffer_chunksize
    BY <1>2
  <2>2. Len(buf) + n > size["r"]
    BY <1>3
  <2>3. size["r"] \in Nat /\ Len(buf) \in Nat /\ Len(buf) <= size["r"] /\ readbuffer_chunksize \in Nat
    BY <1>4
  <2>. DEFINE s == size["r"]
              l == Len(buf)
              C == readbuffer_chunksize
  <2>4. s \in Nat /\ l \in Nat /\ l <= s /\ C \in Nat /\ n \in Nat /\ 2 + n <= C /\ l + n > s
    BY <2>1, <2>2, <2>3
  <2>. HIDE DEF s, l, C
  <2>5. /\ s - l \in Nat /\ n - (s - l) \in Nat /\ (s - l) + (n - (s - l)) = n
        /\ 2 + (s - l) + (n - (s - l)) <= C /\ 2 + (s - l) \in Nat /\ 2 + (s - l) <= C
    BY <2>4, PartFits
  <2>. QED BY <2>5 DEF s, l, C
<1>6. Announced' = rest
  BY <1>3 DEF Announced
<1>7. Run(sent, n) = first \o rest /\ first \in Seq(Chip) /\ rest \in Seq(Chip)
  <2>. HIDE DEF part
  <2>1. /\ readbuffer_chunksize \in Nat /\ readbuffer' \in BufferOf(readbuffer_chunksize)
        /\ n \in Nat /\ part \in 0..n /\ 2 + n <= readbuffer_chunksize
    BY <1>2, <1>3, <1>4, <1>5
  <2>. DEFINE mid == 2 + part
              m == n - part
              tail == Bytes(readbuffer', mid, m)
  <2>2. mid = 2 + part /\ m = n - part
    OBVIOUS
  <2>. HIDE DEF mid, m
  <2>3. mid \in Nat /\ m \in Nat /\ mid + m <= readbuffer_chunksize
        /\ part \in Nat /\ 2 + part <= readbuffer_chunksize
    BY <2>1, <2>2
  <2>4. Bytes(readbuffer', 2, n) = first \o tail
    BY <2>1, <2>2, BytesPart, SMTT(30)
  <2>5. first \in Seq(Chip)
    BY <2>1, <2>3, BytesIsSeq
  <2>6. tail \in Seq(Chip)
    BY <2>1, <2>3, BytesIsSeq
  <2>. QED BY <1>3, <2>2, <2>4, <2>5, <2>6
<1>. HIDE DEF part, first, rest
<1>8. buf \o first \in Seq(Chip) /\ got' \in Seq(Chip) /\ Coming = (buf \o first) \o rest
  <2>1. buf \o (first \o rest) = (buf \o first) \o rest
    <3>1. buf \in Seq(Chip) /\ first \in Seq(Chip) /\ rest \in Seq(Chip)
      BY <1>1, <1>7
    <3>. QED BY <3>1, ConcatAssoc
  <2>2. buf \o first \in Seq(Chip)
    BY <1>1, <1>7, ConcatParts
  <2>. QED BY <1>1, <1>3, <1>4, <1>7, <2>1, <2>2, ConcatParts
<1>9. ReadSide' /\ Pending' = rest
  BY <1>1, <1>3, <1>4, <1>5, <1>6, <1>8, BulkEnds
<1>10. StreamStep
  BY <1>1, <1>3, <1>7, <1>8, <1>9, ReceiveStep
<1>. QED BY <1>9, <1>10 DEF ReadStep

LEMMA BulkReadFailsStep ==
    ASSUME ReadControl, NEW n \in Payloads, BulkReadFails(n)
    PROVE  ReadStep
<1>1. /\ pc = "read_data" /\ sent' = sent + n /\ readbuffer' = Received(Broken(n))
      /\ readbuffer_remaining' = 0 /\ readbuffer_offset' = 0 /\ pc' = "idle" /\ buf' = <<>>
      /\ report' = ~report /\ size' = [size EXCEPT !["r"] = 0]
      /\ UNCHANGED <<readbuffer_chunksize, control, got>>
  BY DEF BulkReadFails
<1>2. Coming \in Seq(Chip) /\ sent' >= sent
  BY <1>1, BulkFacts
<1>3. readbuffer' \in BufferOf(readbuffer_chunksize)
  BY <1>1, PayloadFacts
<1>4. readbuffer_chunksize \in Nat /\ got \in Seq(Chip)
  BY BufferFacts
<1>5. ReadSide' /\ Pending' = Announced'
  BY <1>1, <1>3, <1>4, BulkEnds
<1>6. Announced' = <<>>
  BY <1>1, NoBytes DEF Announced
<1>. QED BY <1>1, <1>2, <1>5, <1>6, LoseAll DEF ReadStep

-----------------------------------------------------------------------------
(* ftdi_read_data_submit and ftdi_read_data_cb.                            *)

LEMMA SubmitBufferedStep ==
    ASSUME ReadControl, NEW n \in ReadSizes, SubmitBuffered(n)
    PROVE  ReadStep
<1>. DEFINE first == Bytes(readbuffer, readbuffer_offset, n)
            rest == Bytes(readbuffer, readbuffer_offset + n, readbuffer_remaining - n)
<1>1. /\ pc = "idle" /\ ~live["r"] /\ n <= readbuffer_remaining /\ n \in Nat
      /\ buf' = first /\ readbuffer_remaining' = readbuffer_remaining - n
      /\ readbuffer_offset' = readbuffer_offset + n
      /\ live' = [live EXCEPT !["r"] = TRUE] /\ size' = [size EXCEPT !["r"] = n]
      /\ UNCHANGED <<pc, readbuffer, readbuffer_chunksize, usb, sent, got, report>>
  BY TransferAssumption DEF SubmitBuffered
<1>2. first \in Seq(Chip) /\ Len(first) = n /\ rest \in Seq(Chip) /\ Announced = first \o rest
  BY <1>1, TakeFromBuffer
<1>3. usb["r"] = "none" /\ Pending = Announced
  BY <1>1, IdleFacts
<1>4. Announced' = rest
  BY <1>1 DEF Announced
<1>5. live'["r"] /\ size'["r"] = n
  BY <1>1 DEF ReadControl, Control, ControlType, Dirs
<1>. HIDE DEF first, rest
<1>6. Pending' = Pending
  BY <1>1, <1>2, <1>3, <1>4, ConcatParts DEF Pending
<1>7. ReadType'
  <2>1. readbuffer_offset \in Nat /\ readbuffer_remaining \in Nat
        /\ readbuffer_offset + readbuffer_remaining <= readbuffer_chunksize /\ readbuffer_chunksize \in Nat
    BY BufferFacts DEF ReadControl, ReadSide, ReadType
  <2>2. /\ readbuffer_offset' \in Nat /\ readbuffer_remaining' \in Nat
        /\ readbuffer_offset' + readbuffer_remaining' <= readbuffer_chunksize
    BY <1>1, <2>1
  <2>. QED BY <1>1, <1>2, <1>5, <2>2 DEF ReadControl, ReadSide, ReadType
<1>8. ReadInv' /\ ReadWhole'
  BY <1>1, <1>2, <1>3, <1>5 DEF ReadInv, ReturnedInv, ReadWhole
<1>. QED BY <1>1, <1>6, <1>7, <1>8 DEF ReadStep, ReadSide, StreamStep

LEMMA read_data_submitStep ==
    ASSUME ReadControl, NEW n \in ReadSizes, read_data_submit(n)
    PROVE  ReadStep
<1>1. /\ pc = "idle" /\ pc' = "idle" /\ ~live["r"] /\ n > readbuffer_remaining /\ buf' = Announced
      /\ readbuffer_remaining' = 0 /\ readbuffer_offset' = 0
      /\ UNCHANGED <<readbuffer, readbuffer_chunksize, sent, got, report>>
  BY DEF read_data_submit, Announced
<1>2. size'["r"] = n /\ live'["r"] /\ usb'["r"] = "inflight" /\ ~completed'["r"]
  BY DEF read_data_submit, Submitted, ReadControl, Control, ControlType, Dirs
<1>. QED BY <1>1, <1>2, TakeAll

LEMMA ReadSubmitFailsStep ==
    ASSUME ReadControl, NEW n \in ReadSizes, ReadSubmitFails(n)
    PROVE  ReadStep
<1>1. /\ pc = "idle" /\ ~live["r"]
      /\ UNCHANGED <<pc, cur, size, readbuffer, readbuffer_chunksize, buf, control, sent, got>>
  BY DEF ReadSubmitFails
<1>2. CASE Fault("alloc") /\ UNCHANGED <<readbuffer_offset, readbuffer_remaining, report>>
  <2>1. faults' = MaxFaults => faults = MaxFaults
    BY <1>2, FaultCounts DEF ReadControl, AllFaults
  <2>. QED BY <1>1, <1>2, <2>1, ReadFrame DEF buffer, control
<1>3. CASE readbuffer_remaining' = 0 /\ readbuffer_offset' = 0 /\ report' = ~report
  <2>1. buf = <<>> /\ usb["r"] = "none" /\ ~completed["r"] /\ Pending = Announced /\ Announced \in Seq(Chip)
    BY <1>1, IdleFacts
  <2>2. ReadSide' /\ Pending' = Announced'
    <3>1. readbuffer_chunksize \in Nat /\ readbuffer \in BufferOf(readbuffer_chunksize)
          /\ readbuffer_chunksize \in ReadChunks /\ got \in Seq(Chip) /\ sent \in 0..MaxBytes
      BY BufferFacts DEF ReadControl, ReadSide, ReadType
    <3>. QED BY <1>1, <1>3, <2>1, <3>1, SizeFacts, NoReadSide DEF control
  <2>3. Announced' = <<>>
    BY <1>3, NoBytes DEF Announced
  <2>4. Coming \in Seq(Chip) /\ sent' >= sent
    BY <1>1, <2>1, BufferFacts, NothingComing
  <2>. QED BY <1>1, <1>3, <2>2, <2>3, <2>4, LoseAll DEF ReadStep
<1>. QED BY <1>2, <1>3 DEF ReadSubmitFails

LEMMA ReturnedPart ==
    ASSUME ReadControl, usb["r"] = "returned", NEW k \in 0..Count
    PROVE  LET rest == Bytes(Stripped, 2 + k, Count - k)
           IN  rest \in Seq(Chip) /\ Data(Count) = Data(k) \o rest
<1>. DEFINE mid == 2 + k
            m == Count - k
            tail == Bytes(Stripped, mid, m)
            C == readbuffer_chunksize
<1>1. mid = 2 + k /\ m = Count - k
  OBVIOUS
<1>. HIDE DEF mid, m
<1>2. /\ Stripped \in BufferOf(C) /\ Count \in Nat /\ 2 + Count <= C
      /\ Data(Count) = Bytes(Stripped, 2, Count) /\ Data(k) = Bytes(Stripped, 2, k)
  BY ReturnedFacts
<1>3. C \in Nat
  BY BufferFacts
<1>4. mid \in Nat /\ m \in Nat /\ mid + m <= C
  BY <1>1, <1>2, <1>3
<1>5. Bytes(Stripped, 2, Count) = Bytes(Stripped, 2, k) \o tail
  <2>1. Stripped \in BufferOf(C) /\ Count \in Nat /\ 2 + Count <= C
    BY <1>2
  <2>. QED BY <1>1, <1>3, <2>1, BytesPart, SMTT(30)
<1>6. tail \in Seq(Chip)
  <2>1. Stripped \in BufferOf(C)
    BY <1>2
  <2>. QED BY <1>3, <1>4, <2>1, BytesIsSeq
<1>. QED BY <1>1, <1>2, <1>5, <1>6

\* The callback takes the first k of its data bytes and announces the others, if any.
LEMMA CallbackStep ==
    ASSUME ReadControl, usb["r"] = "returned", NEW k \in 0..Count,
           readbuffer' = Stripped, buf' = buf \o Data(k), Len(buf) + k <= size["r"],
           \/ k = Count /\ readbuffer_offset' = 0 /\ readbuffer_remaining' = 0
              /\ usb'["r"] \in {"none", "inflight"}
           \/ readbuffer_offset' = readbuffer_offset + 2 + k /\ readbuffer_remaining' = Count - k
              /\ usb'["r"] = "none",
           completed'["r"] /\ status'["r"] = "COMPLETED" /\ faults' = MaxFaults =>
               Len(buf) + k = size["r"],
           UNCHANGED <<pc, size, readbuffer_chunksize, live, sent, got, report>>
    PROVE  ReadStep
<1>. DEFINE C == readbuffer_chunksize
            rest == Bytes(Stripped, 2 + k, Count - k)
<1>1. /\ readbuffer_offset = 0 /\ live["r"] /\ pc # "read_data"
      /\ Count \in Nat /\ 2 + Count <= C /\ Stripped \in BufferOf(C)
      /\ Data(Count) = Bytes(Stripped, 2, Count) /\ Data(k) = Bytes(Stripped, 2, k)
      /\ Data(k) \in Seq(Chip) /\ Len(Data(k)) = k
      /\ Pending = buf \o Data(Count)
  BY ReturnedFacts
<1>2. C \in Nat /\ buf \in Seq(Chip) /\ C \in ReadChunks /\ sent \in 0..MaxBytes /\ got \in Seq(Chip)
      /\ report \in BOOLEAN
  BY BufferFacts DEF ReadControl, ReadSide, ReadType
<1>3. k \in Nat /\ k + (Count - k) = Count /\ Count - k \in Nat /\ 2 + k \in Nat /\ 2 + k <= C
      /\ 2 + k + (Count - k) <= C
  <2>1. Count \in Nat /\ 2 + Count <= C /\ C \in Nat
    BY <1>1, <1>2
  <2>. QED BY <2>1
<1>4. rest \in Seq(Chip) /\ Data(Count) = Data(k) \o rest
  BY ReturnedPart
<1>5. Announced' = IF readbuffer_remaining' = 0 THEN <<>> ELSE rest
  <2>1. Announced' = Bytes(Stripped, readbuffer_offset', readbuffer_remaining')
    BY DEF Announced
  <2>2. CASE readbuffer_remaining' = 0
    BY <2>1, <2>2, NoBytes
  <2>3. CASE readbuffer_remaining' # 0
    <3>1. readbuffer_offset' = readbuffer_offset + 2 + k /\ readbuffer_remaining' = Count - k
      BY <2>3
    <3>2. readbuffer_offset + 2 + k = 2 + k
      BY <1>1, <1>3
    <3>. QED BY <2>1, <2>3, <3>1, <3>2
  <2>. QED BY <2>2, <2>3
<1>6. readbuffer_remaining' = Count - k
  BY <1>3
<1>7. rest = <<>> \/ readbuffer_remaining' # 0
  BY <1>6, NoBytes
<1>8. Announced' = rest
  BY <1>5, <1>7
<1>. HIDE DEF rest
<1>9. /\ buf' \in Seq(Chip) /\ Len(buf') = Len(buf) + k
      /\ (buf \o Data(k)) \o rest = buf \o Data(Count)
  <2>1. buf \in Seq(Chip) /\ Data(k) \in Seq(Chip) /\ rest \in Seq(Chip) /\ Len(Data(k)) = k
    BY <1>1, <1>2, <1>4
  <2>2. buf \o (Data(k) \o rest) = (buf \o Data(k)) \o rest
    <3>1. buf \in Seq(Chip) /\ Data(k) \in Seq(Chip) /\ rest \in Seq(Chip)
      BY <2>1
    <3>. QED BY <3>1, ConcatAssoc
  <2>3. buf \o Data(k) \in Seq(Chip) /\ Len(buf \o Data(k)) = Len(buf) + k
    BY <2>1, ConcatParts
  <2>4. buf' = buf \o Data(k)
    OBVIOUS
  <2>. QED BY <1>4, <2>2, <2>3, <2>4
<1>10. Pending' = Pending
  <2>1. usb'["r"] # "returned" /\ buf' \o Announced' = buf \o Data(Count) /\ buf' \o Announced' \in Seq(Chip)
    BY <1>4, <1>8, <1>9, ConcatParts
  <2>2. (buf' \o Announced') \o <<>> = buf' \o Announced'
    BY <2>1, ConcatParts
  <2>. QED BY <1>1, <2>1, <2>2 DEF Pending
<1>11. ReadType'
  <2>1. readbuffer_offset' \in Nat /\ readbuffer_remaining' \in Nat
        /\ readbuffer_offset' + readbuffer_remaining' <= C
    BY <1>1, <1>2, <1>3
  <2>2. Len(buf') <= size'["r"]
    BY <1>9
  <2>. QED BY <1>1, <1>2, <1>9, <2>1, <2>2 DEF ReadType
<1>12. ReadInv'
  BY <1>1 DEF ReadInv, ReturnedInv
<1>13. ReadWhole'
  BY <1>9 DEF ReadWhole
<1>. QED BY <1>10, <1>11, <1>12, <1>13 DEF ReadStep, ReadSide, StreamStep

LEMMA ReadCbCompletesStep ==
    ASSUME ReadControl, ReadCbCompletes
    PROVE  ReadStep
<1>1. /\ usb["r"] = "returned" /\ Len(buf) + Count = size["r"] /\ readbuffer' = Stripped
      /\ buf' = buf \o Data(Count) /\ readbuffer_offset' = 0 /\ readbuffer_remaining' = 0
      /\ UNCHANGED <<pc, size, readbuffer_chunksize, live, sent, got, report>>
  BY DEF ReadCbCompletes, InCallback
<1>2. usb'["r"] = "none"
  BY DEF ReadCbCompletes, Completes, ReadControl, Control, ControlType, Dirs
<1>3. Count \in 0..Count /\ Len(buf) + Count <= size["r"]
  BY <1>1, ReturnedFacts, SizeFacts
<1>. QED BY <1>1, <1>2, <1>3, CallbackStep

LEMMA ReadCbExceedsStep ==
    ASSUME ReadControl, ReadCbExceeds
    PROVE  ReadStep
<1>. DEFINE part == size["r"] - Len(buf)
<1>1. /\ usb["r"] = "returned" /\ Len(buf) + Count > size["r"] /\ readbuffer' = Stripped
      /\ buf' = buf \o Data(part)
      /\ readbuffer_offset' = readbuffer_offset + 2 + part /\ readbuffer_remaining' = Count - part
      /\ UNCHANGED <<pc, size, readbuffer_chunksize, live, sent, got, report>>
  BY DEF ReadCbExceeds, InCallback
<1>2. usb'["r"] = "none"
  BY DEF ReadCbExceeds, Completes, ReadControl, Control, ControlType, Dirs
<1>3. part \in 0..Count /\ Len(buf) + part = size["r"] /\ Len(buf) + part <= size["r"]
  <2>1. Count \in Nat /\ size["r"] \in Nat /\ Len(buf) \in Nat /\ Len(buf) <= size["r"]
    BY <1>1, ReturnedFacts, SizeFacts
  <2>2. Len(buf) + Count > size["r"]
    BY <1>1
  <2>. DEFINE c == Count
              s == size["r"]
              l == Len(buf)
  <2>3. c \in Nat /\ s \in Nat /\ l \in Nat /\ l <= s /\ l + c > s
    BY <2>1, <2>2
  <2>. HIDE DEF c, s, l
  <2>4. s - l \in 0..c /\ l + (s - l) = s /\ l + (s - l) <= s
    BY <2>3
  <2>. QED BY <2>4 DEF c, s, l
<1>. HIDE DEF part
<1>. QED BY <1>1, <1>2, <1>3, CallbackStep

LEMMA ReadCbContinuesStep ==
    ASSUME ReadControl, ReadCbContinues
    PROVE  ReadStep
<1>1. /\ usb["r"] = "returned" /\ Len(buf) + Count < size["r"] /\ readbuffer' = Stripped
      /\ buf' = buf \o Data(Count) /\ Resubmit("r")
      /\ UNCHANGED <<pc, size, readbuffer_chunksize, live, status, sent, got, report>>
  BY DEF ReadCbContinues, InCallback
<1>2. Count \in Nat /\ readbuffer_offset = 0 /\ readbuffer_remaining = 0
  BY <1>1, ReturnedFacts
<1>3. readbuffer_offset' = 0 /\ readbuffer_remaining' = 0
  BY <1>2 DEF ReadCbContinues
<1>4. Count \in 0..Count /\ Len(buf) + Count <= size["r"]
  BY <1>1, <1>2, SizeFacts
<1>5. ~completed["r"] /\ completed \in [Dirs -> BOOLEAN] /\ usb \in [Dirs -> {"none", "inflight", "cancelling", "expired", "returned"}]
  BY <1>1 DEF ReadControl, Control, ControlType, ControlAt, Dirs
<1>6. /\ usb'["r"] \in {"none", "inflight"}
      /\ ~ (completed'["r"] /\ status'["r"] = "COMPLETED" /\ faults' = MaxFaults)
  <2>1. CASE status["r"] = "CANCELLED" /\ Completes("r")
    BY <1>1, <1>5, <2>1 DEF Completes, Dirs
  <2>2. CASE usb' = [usb EXCEPT !["r"] = "inflight"] /\ UNCHANGED <<completed, faults>>
    BY <1>5, <2>2 DEF Dirs
  <2>3. CASE Fault("submit") /\ Completes("r")
    <3>1. faults' # MaxFaults
      BY <2>3, TransferAssumption DEF Fault, ReadControl, Control, ControlType
    <3>. QED BY <1>5, <2>3, <3>1 DEF Completes, Dirs
  <2>. QED BY <1>1, <2>1, <2>2, <2>3 DEF Resubmit
<1>. QED BY <1>1, <1>3, <1>4, <1>6, CallbackStep

-----------------------------------------------------------------------------
(* ftdi_transfer_data_done, ftdi_transfer_data_cancel, and libusb.         *)

\* Where the bytes are while libusb has no data to hand over.
LEMMA QuietFacts ==
    ASSUME ReadControl, usb["r"] # "returned", sent' = sent
    PROVE  /\ Coming = buf \o Announced /\ Coming \in Seq(Chip)
           /\ Coming = (<<>> \o buf) \o Announced /\ Coming = (buf \o Announced) \o <<>>
           /\ <<>> \o Announced = Announced /\ buf \o <<>> = buf
           /\ buf \in Seq(Chip) /\ Announced \in Seq(Chip) /\ <<>> \in Seq(Chip)
<1>1. Pending = buf \o Announced /\ Pending \in Seq(Chip)
  BY PendingHere
<1>2. buf \in Seq(Chip) /\ Announced \in Seq(Chip) /\ sent \in Nat
  BY BufferFacts
<1>3. Coming = Pending
  BY <1>1, <1>2, NothingComing
<1>4. <<>> \o buf = buf /\ (buf \o Announced) \o <<>> = buf \o Announced
      /\ <<>> \o Announced = Announced /\ buf \o <<>> = buf /\ <<>> \in Seq(Chip)
  BY <1>1, <1>2, ConcatParts
<1>. QED BY <1>1, <1>2, <1>3, <1>4

\* The control block of the read is freed.
LEMMA FreeReadStep ==
    ASSUME ReadControl, cur = "r", pc # "read_data", pc' = "idle", NEW success \in BOOLEAN,
           success => completed["r"], Free(cur, success), UNCHANGED <<buffer, sent>>
    PROVE  ReadStep
<1>1. /\ usb'["r"] = "none" /\ ~completed'["r"] /\ size'["r"] = 0 /\ buf' = <<>>
      /\ got' = (IF success THEN got \o buf ELSE got)
      /\ report' = (IF success THEN report ELSE ~report)
  BY DEF Free, ReadControl, Control, ControlType, Dirs
<1>2. UNCHANGED <<readbuffer, readbuffer_chunksize, readbuffer_offset, readbuffer_remaining>>
  BY DEF buffer
<1>3. Announced' = Announced
  BY <1>2 DEF Announced
<1>4. /\ readbuffer_chunksize \in ReadChunks /\ readbuffer \in BufferOf(readbuffer_chunksize)
      /\ readbuffer_offset \in Nat /\ readbuffer_remaining \in Nat
      /\ readbuffer_offset + readbuffer_remaining <= readbuffer_chunksize
      /\ got \in Seq(Chip) /\ buf \in Seq(Chip) /\ report \in BOOLEAN /\ sent \in 0..MaxBytes
      /\ sent \in Nat
  BY BufferFacts DEF ReadControl, ReadSide, ReadType
<1>5. got' \in Seq(Chip) /\ report' \in BOOLEAN
  BY <1>1, <1>4, ConcatParts
<1>6. ReadSide' /\ Pending' = Announced
  BY <1>1, <1>2, <1>3, <1>4, <1>5, NoReadSide
<1>7. StreamStep
  <2>1. CASE success
    <3>1. usb["r"] # "returned"
      BY <2>1 DEF ReadControl, Control, ControlAt, Dirs
    <3>2. Coming = buf \o Announced /\ Announced \in Seq(Chip)
      BY <3>1, QuietFacts
    <3>3. sent' >= sent /\ got' = got \o buf /\ report' = report /\ buf \in Seq(Chip)
      BY <1>1, <1>4, <2>1
    <3>. QED BY <1>6, <3>2, <3>3, ReceiveStep
  <2>2. CASE ~success /\ usb["r"] = "returned"
    <3>1. readbuffer_remaining = 0
      BY <2>2, ReturnedFacts
    <3>2. Announced = <<>>
      BY <3>1, NoBytes DEF Announced
    <3>3. Coming \in Seq(Chip)
      BY <1>4, PendingIsSeq, NothingComing
    <3>. QED BY <1>1, <1>4, <1>6, <2>2, <3>2, <3>3, LoseAll
  <2>3. CASE ~success /\ usb["r"] # "returned"
    <3>1. Coming = (<<>> \o buf) \o Announced /\ Announced \in Seq(Chip) /\ <<>> \in Seq(Chip)
          /\ <<>> \o Announced = Announced
      BY <2>3, QuietFacts
    <3>2. sent' >= sent /\ report' = ~report /\ got' = got /\ buf \in Seq(Chip)
      BY <1>1, <1>4, <2>3
    <3>3. Pending' = <<>> \o Announced
      BY <1>6, <3>1
    <3>. QED BY <3>1, <3>2, <3>3, LoseStep
  <2>. QED BY <2>1, <2>2, <2>3
<1>. QED BY <1>6, <1>7 DEF ReadStep

\* The control block of the write is: no change to the read.
LEMMA FreeWriteFrame ==
    ASSUME ReadControl, cur = "w", pc # "read_data", pc' = "idle", NEW success,
           Free(cur, success), UNCHANGED <<buffer, sent>>, faults' = MaxFaults => faults = MaxFaults
    PROVE  ReadStep
<1>1. /\ usb'["r"] = usb["r"] /\ completed'["r"] = completed["r"] /\ live'["r"] = live["r"]
      /\ size'["r"] = size["r"] /\ UNCHANGED <<buf, got, report, status, actual_length>>
  BY DEF Free, ReadControl, Control, ControlType, Dirs
<1>. QED BY <1>1, ReadFrame

LEMMA FreeStep ==
    ASSUME ReadControl, pc # "read_data", pc' = "idle", NEW success \in BOOLEAN,
           success => completed[cur], Free(cur, success), UNCHANGED <<buffer, sent>>,
           faults' = MaxFaults => faults = MaxFaults
    PROVE  ReadStep
<1>1. cur = "r" \/ cur = "w"
  BY DEF ReadControl, Control, ControlType, Dirs
<1>. QED BY <1>1, FreeReadStep, FreeWriteFrame

LEMMA CancelFrame ==
    ASSUME ReadControl, NEW d \in Dirs, CancelTransfer(d),
           UNCHANGED <<size, buffer, buf, live, completed, actual_length, sent, got, report>>,
           pc # "read_data", pc' # "read_data", faults' = MaxFaults => faults = MaxFaults
    PROVE  ReadStep
<1>1. /\ usb'["r"] = "returned" <=> usb["r"] = "returned"
      /\ usb'["r"] = "none" <=> usb["r"] = "none"
      /\ status'["r"] = "COMPLETED" => status["r"] = "COMPLETED"
  BY DEF CancelTransfer, ReadControl, Control, ControlType, Dirs
<1>. QED BY <1>1, ReadFrame

LEMMA UsbReadDoneStep ==
    ASSUME ReadControl, NEW n \in Payloads, NEW st \in Statuses, UsbReadDone(n, st)
    PROVE  ReadStep
<1>. DEFINE actual == IF st = "COMPLETED" THEN Whole(n) ELSE Broken(n)
<1>1. /\ usb["r"] # "none" /\ usb["r"] # "returned" /\ usb' = [usb EXCEPT !["r"] = "returned"]
      /\ actual_length' = [actual_length EXCEPT !["r"] = actual]
      /\ readbuffer' = Received(actual) /\ sent' = sent + n
      /\ UNCHANGED <<pc, size, readbuffer_chunksize, readbuffer_offset, readbuffer_remaining, buf,
                     live, completed, got, report>>
  BY DEF UsbReadDone, MayReturn, Statuses
<1>2. /\ n \in Nat /\ n \in 0..MaxPayload /\ sent + n \in 0..MaxBytes /\ DataLength(actual) = n
      /\ Received(actual) \in BufferOf(readbuffer_chunksize)
      /\ Strip(Received(actual), 2, actual) \in BufferOf(readbuffer_chunksize)
      /\ Bytes(Strip(Received(actual), 2, actual), 2, n) = Run(sent, n)
      /\ Run(sent, n) \in Seq(Chip)
  BY PayloadFacts
<1>3. /\ usb'["r"] = "returned" /\ actual_length'["r"] = actual
  BY <1>1 DEF ReadControl, Control, ControlType, Dirs
<1>. HIDE DEF actual
<1>4. /\ readbuffer_offset = 0 /\ readbuffer_remaining = 0 /\ readbuffer_offset + 2 = 2
      /\ live["r"] /\ ~completed["r"] /\ pc # "read_data"
  BY <1>1 DEF ReadControl, ReadSide, ReadInv, Control, ControlAt, Dirs
<1>5. readbuffer_offset' + 2 = 2 /\ readbuffer_offset' = 0 /\ readbuffer_remaining' = 0
  BY <1>1, <1>4
<1>6. /\ Stripped' = Strip(Received(actual), 2, actual) /\ Count' = n
  BY <1>1, <1>2, <1>3, <1>5 DEF Stripped, Count
<1>7. Data(Count)' = Run(sent, n)
  BY <1>2, <1>5, <1>6 DEF Data
<1>8. sent \in Nat /\ buf \in Seq(Chip) /\ readbuffer_chunksize \in ReadChunks /\ got \in Seq(Chip)
      /\ report \in BOOLEAN /\ Len(buf) <= size["r"] /\ sent' - n = sent /\ sent' - sent = n /\ n <= sent'
  BY <1>1, <1>2, BufferFacts DEF ReadControl, ReadSide, ReadType
<1>9. Announced = <<>> /\ Announced' = <<>>
  BY <1>4, <1>5, NoBytes DEF Announced
<1>10. buf \o <<>> = buf
  BY <1>8, ConcatParts
<1>11. Pending = buf
  BY <1>1, <1>9, <1>10, PendingHere
<1>12. Coming = buf \o Run(sent, n)
  BY <1>8, <1>11 DEF Coming
<1>13. Pending' = Coming
  BY <1>1, <1>3, <1>7, <1>9, <1>10, <1>12 DEF Pending
<1>14. StreamStep
  <2>1. CASE n > 0
    <3>1. sent' > sent
      BY <1>1, <1>2, <1>8, <2>1
    <3>. QED BY <1>1, <1>13, <3>1, SendStep
  <2>2. CASE n = 0
    <3>1. sent' = sent /\ Run(sent, n) = <<>>
      BY <1>1, <1>8, <2>2 DEF Run
    <3>2. Pending' = Pending
      BY <1>10, <1>11, <1>12, <1>13, <3>1
    <3>. QED BY <1>1, <3>1, <3>2 DEF StreamStep
  <2>. QED BY <1>2, <2>1, <2>2
<1>15. ReadType'
  <2>1. readbuffer_chunksize \in Nat /\ 0 + 0 <= readbuffer_chunksize
    BY BufferFacts
  <2>. QED BY <1>1, <1>2, <1>5, <1>8, <2>1 DEF ReadType
<1>16. ReturnedInv'
  <2>1. MaxPayload' = MaxPayload
    BY <1>1 DEF MaxPayload
  <2>2. Run(sent' - n, n) = Run(sent, n)
    BY <1>8
  <2>. QED BY <1>1, <1>2, <1>6, <1>7, <1>8, <2>1, <2>2 DEF ReturnedInv
<1>17. ReadInv' /\ ReadWhole'
  BY <1>1, <1>4, <1>5, <1>16 DEF ReadInv, ReadWhole
<1>. QED BY <1>14, <1>15, <1>17 DEF ReadStep, ReadSide

LEMMA UsbTimesOutFrame ==
    ASSUME ReadControl, NEW d \in Dirs, UsbTimesOut(d)
    PROVE  ReadStep
<1>1. /\ usb'["r"] = "returned" <=> usb["r"] = "returned"
      /\ usb'["r"] = "none" <=> usb["r"] = "none"
  BY DEF UsbTimesOut, ReadControl, Control, ControlType, Dirs
<1>2. faults' = MaxFaults => faults = MaxFaults
  BY FaultCounts DEF UsbTimesOut, ReadControl, AllFaults
<1>. QED BY <1>1, <1>2, ReadFrame DEF UsbTimesOut

-----------------------------------------------------------------------------
(* The calls that invalidate the readbuffer.                               *)

LEMMA FlushReturnsStep ==
    ASSUME ReadControl, FlushReturns
    PROVE  ReadStep
<1>1. /\ pc = "flush" /\ pc' = "idle" /\ readbuffer_offset' = 0 /\ readbuffer_remaining' = 0
      /\ report' = ~report /\ UNCHANGED <<size, readbuffer, readbuffer_chunksize, buf, live, completed, usb,
                                          status, actual_length, faults, sent, got>>
  BY DEF FlushReturns, control
<1>2. Announced' = <<>>
  BY <1>1, NoBytes DEF Announced
<1>3. sent \in Nat /\ buf \in Seq(Chip) /\ readbuffer_chunksize \in Nat
  BY BufferFacts
<1>4. ReadType'
  BY <1>1, <1>3 DEF ReadControl, ReadSide, ReadType
<1>5. CASE usb["r"] = "returned"
  <2>1. readbuffer_offset = 0 /\ readbuffer_remaining = 0
    BY <1>5, ReturnedFacts
  <2>2. UNCHANGED <<buffer, buf, usb, actual_length>>
    BY <1>1, <2>1 DEF buffer
  <2>3. Stripped' = Stripped /\ Count' = Count /\ Announced' = Announced /\ MaxPayload' = MaxPayload
    BY <2>2 DEF Stripped, Count, Announced, MaxPayload, buffer
  <2>4. Data(Count)' = Data(Count)
    BY <2>2, <2>3 DEF Data, buffer
  <2>5. Pending' = Pending
    BY <2>2, <2>3, <2>4 DEF Pending
  <2>6. ReadInv' /\ ReadWhole'
    BY <1>1, <2>3, <2>4 DEF ReadControl, ReadSide, ReadInv, ReturnedInv, ReadWhole
  <2>7. Coming = Pending /\ Pending \in Seq(Chip)
    BY <1>1, <1>3, PendingIsSeq, NothingComing
  <2>8. Pending = (Pending \o <<>>) \o <<>> /\ Pending = Pending \o <<>> /\ <<>> \in Seq(Chip)
    BY <2>7, ConcatParts
  <2>9. StreamStep
    <3>1. sent' >= sent /\ report' = ~report /\ got' = got
      BY <1>1, <1>3
    <3>2. Coming = (Pending \o <<>>) \o <<>> /\ Pending' = Pending \o <<>> /\ Pending \in Seq(Chip)
      BY <2>5, <2>7, <2>8
    <3>. QED BY <2>8, <3>1, <3>2, LoseStep
  <2>. QED BY <1>4, <2>6, <2>9 DEF ReadStep, ReadSide
<1>6. CASE usb["r"] # "returned"
  <2>1. /\ Coming = (buf \o Announced) \o <<>> /\ Announced \in Seq(Chip) /\ <<>> \in Seq(Chip)
        /\ buf \o <<>> = buf
    BY <1>1, <1>6, QuietFacts
  <2>2. Pending' = buf \o <<>>
    BY <1>1, <1>2, <1>6, <2>1 DEF Pending
  <2>3. StreamStep
    <3>1. sent' >= sent /\ report' = ~report /\ got' = got /\ buf \in Seq(Chip)
      BY <1>1, <1>3
    <3>. QED BY <2>1, <2>2, <3>1, LoseStep
  <2>4. ReadInv' /\ ReadWhole'
    BY <1>1, <1>6 DEF ReadControl, ReadSide, ReadInv, ReturnedInv, ReadWhole
  <2>. QED BY <1>4, <2>3, <2>4 DEF ReadStep, ReadSide
<1>. QED BY <1>5, <1>6

LEMMA read_data_set_chunksizeStep ==
    ASSUME ReadControl, NEW n \in ReadChunks, read_data_set_chunksize(n)
    PROVE  ReadStep
<1>1. /\ pc = "idle" /\ pc' = "idle" /\ ~live["r"] /\ readbuffer_offset' = 0 /\ readbuffer_remaining' = 0
      /\ report' = ~report /\ UNCHANGED <<size, buf, completed, usb, sent, got>>
      /\ \/ /\ readbuffer_chunksize' = n
            /\ readbuffer' = [i \in 0..(n - 1) |->
                                IF i \in DOMAIN readbuffer THEN readbuffer[i] ELSE 0]
         \/ UNCHANGED <<readbuffer, readbuffer_chunksize>>
  BY DEF read_data_set_chunksize, control
<1>2. buf = <<>> /\ usb["r"] = "none" /\ ~completed["r"] /\ Pending = Announced /\ Announced \in Seq(Chip)
  BY <1>1, IdleFacts
<1>3. /\ readbuffer_chunksize \in ReadChunks /\ readbuffer \in BufferOf(readbuffer_chunksize)
      /\ got \in Seq(Chip) /\ sent \in 0..MaxBytes /\ sent \in Nat /\ MaxBytes \in Nat
  BY BufferFacts DEF ReadControl, ReadSide, ReadType
<1>4. readbuffer_chunksize' \in ReadChunks /\ readbuffer' \in BufferOf(readbuffer_chunksize')
  <2>1. CASE UNCHANGED <<readbuffer, readbuffer_chunksize>>
    BY <1>3, <2>1
  <2>2. CASE /\ readbuffer_chunksize' = n
             /\ readbuffer' = [i \in 0..(n - 1) |->
                                 IF i \in DOMAIN readbuffer THEN readbuffer[i] ELSE 0]
    <3>1. \A i \in DOMAIN readbuffer : readbuffer[i] \in Chip
      BY <1>3 DEF BufferOf
    <3>2. 0 \in Chip
      BY <1>3 DEF Chip
    <3>. QED BY <2>2, <3>1, <3>2 DEF BufferOf
  <2>. QED BY <1>1, <2>1, <2>2
<1>5. readbuffer_chunksize' \in Nat /\ 0 + 0 <= readbuffer_chunksize'
  BY <1>4, TransferAssumption
<1>6. ReadSide' /\ Pending' = Announced'
  BY <1>1, <1>2, <1>3, <1>4, <1>5, SizeFacts, NoReadSide
<1>7. Announced' = <<>>
  BY <1>1, NoBytes DEF Announced
<1>8. Coming \in Seq(Chip)
  BY <1>1, <1>2, <1>3, NothingComing
<1>. QED BY <1>1, <1>3, <1>6, <1>7, <1>8, LoseAll DEF ReadStep

-----------------------------------------------------------------------------
(* The write side.                                                         *)

WriteControl == Control /\ WriteSide

LEMMA WriteFacts ==
    ASSUME WriteControl
    PROVE  /\ size["w"] \in Nat /\ offset \in Nat /\ offset <= size["w"] /\ from \in Nat /\ len \in Nat
           /\ taken \in Seq(Nat) /\ writebuffer_chunksize \in Nat /\ actual_length["w"] \in Nat
<1>1. size["w"] \in ReadSizes \cup WriteSizes \cup {0} /\ actual_length["w"] \in Nat
  BY DEF WriteControl, Control, ControlType, Dirs
<1>2. ReadSizes \cup WriteSizes \cup {0} \subseteq Nat /\ writebuffer_chunksize \in Nat
  BY TransferAssumption
<1>3. offset \in Nat /\ offset <= size["w"] /\ from \in Nat /\ len \in Nat /\ taken \in Seq(Nat)
  BY DEF WriteControl, WriteSide, WriteType
<1>. QED BY <1>1, <1>2, <1>3

\* The numbers from 1 to a, and n more.
LEMMA CountOn ==
    ASSUME NEW a \in Nat, NEW n \in Nat, NEW t, t = [i \in 1..a |-> i]
    PROVE  t \o [i \in 1..n |-> a + i] = [i \in 1..a + n |-> i]
<1>. DEFINE b == [i \in 1..n |-> a + i]
            c == [i \in 1..a + n |-> i]
<1>1. a + n \in Nat
  OBVIOUS
<1>2. t \in Seq(Nat) /\ Len(t) = a /\ b \in Seq(Nat) /\ Len(b) = n /\ c \in Seq(Nat) /\ Len(c) = a + n
  BY <1>1
<1>3. \A k \in 1..a : c[k] = t[k]
  OBVIOUS
<1>4. \A k \in 1..n : c[k + a] = b[k]
  OBVIOUS
<1>. HIDE DEF b, c
<1>5. t \o b = c
  BY <1>2, <1>3, <1>4, ConcatIs
<1>. QED BY <1>5 DEF b, c

\* The read side moves, or a call waits: nothing of the write side changes.
LEMMA WriteFrame ==
    ASSUME WriteControl, UNCHANGED writing, size'["w"] = size["w"],
           actual_length'["w"] = actual_length["w"], live'["w"] <=> live["w"],
           completed'["w"] /\ status'["w"] = "COMPLETED" =>
               completed["w"] /\ status["w"] = "COMPLETED",
           usb'["w"] = "returned" <=> usb["w"] = "returned", usb'["w"] = "none" <=> usb["w"] = "none",
           usb' \in [Dirs -> {"none", "inflight", "cancelling", "expired", "returned"}],
           pc' = "write_data" => pc = "write_data", faults' = MaxFaults => faults = MaxFaults
    PROVE  WriteSide'
<1>1. UNCHANGED <<offset, from, len, taken>>
  BY DEF writing
<1>2. WriteType'
  BY <1>1 DEF WriteControl, WriteSide, WriteType
<1>3. WriteCounted'
  BY <1>1 DEF WriteControl, WriteSide, WriteInv, WriteCounted
<1>4. usb'["w"] \in {"inflight", "cancelling", "expired"} => usb["w"] \in {"inflight", "cancelling", "expired"}
  BY DEF WriteControl, Control, ControlType, Dirs
<1>5. WriteInv' /\ WriteWhole'
  BY <1>1, <1>3, <1>4 DEF WriteControl, WriteSide, WriteInv, WriteWhole
<1>. QED BY <1>2, <1>5 DEF WriteSide

\* No asynchronous write is there.
LEMMA NoWriteSide ==
    ASSUME WriteType', ~live'["w"], usb'["w"] = "none", ~completed'["w"]
    PROVE  WriteSide'
BY DEF WriteSide, WriteInv, WriteCounted, WriteWhole

LEMMA IdleWrite ==
    ASSUME WriteControl, ~live["w"] \/ pc = "write_data"
    PROVE  ~live["w"] /\ usb["w"] = "none" /\ ~completed["w"]
BY DEF WriteControl, WriteSide, WriteInv, Control, ControlAt, Dirs

LEMMA write_dataStep ==
    ASSUME WriteControl, NEW n \in WriteSizes, write_data(n)
    PROVE  WriteSide'
<1>1. /\ ~live["w"] /\ size' = [size EXCEPT !["w"] = n] /\ offset' = 0 /\ taken' = <<>>
      /\ UNCHANGED <<from, len, live, completed, usb>>
  BY DEF write_data, control
<1>2. ~live["w"] /\ usb["w"] = "none" /\ ~completed["w"]
  BY <1>1, IdleWrite
<1>3. size'["w"] = n /\ n \in Nat
  BY <1>1, TransferAssumption DEF WriteControl, Control, ControlType, Dirs
<1>4. WriteType'
  BY <1>1, <1>3, WriteFacts DEF WriteType
<1>. QED BY <1>1, <1>2, <1>4, NoWriteSide

\* A chunk of the synchronous write, counted or not.
LEMMA BulkWriteStep ==
    ASSUME WriteControl, pc = "write_data", NEW n \in 0..NextLength, Take(offset, n),
           offset' \in {offset, offset + n},
           UNCHANGED <<size, from, len, live, completed, usb>>
    PROVE  WriteSide'
<1>1. ~live["w"] /\ usb["w"] = "none" /\ ~completed["w"]
  BY IdleWrite
<1>2. NextLength \in Int /\ NextLength <= size["w"] - offset
  BY WriteFacts DEF NextLength, MinOf
<1>3. n \in Nat /\ offset + n <= size["w"]
  BY <1>2, WriteFacts
<1>4. [i \in 1..n |-> offset + i] \in Seq(Nat)
  BY <1>3, WriteFacts
<1>5. taken' \in Seq(Nat)
  BY <1>4, WriteFacts, ConcatProperties DEF Take
<1>6. WriteType'
  BY <1>3, <1>5, WriteFacts DEF WriteType
<1>. QED BY <1>1, <1>6, NoWriteSide

LEMMA write_data_submitStep ==
    ASSUME WriteControl, NEW n \in WriteSizes, write_data_submit(n)
    PROVE  WriteSide'
<1>1. /\ pc = "idle" /\ pc' = "idle" /\ offset' = 0 /\ taken' = <<>> /\ from' = 0
      /\ len' = MinOf(n, writebuffer_chunksize)
  BY DEF write_data_submit
<1>2. size'["w"] = n /\ usb'["w"] = "inflight" /\ ~completed'["w"]
  BY DEF write_data_submit, Submitted, WriteControl, Control, ControlType, Dirs
<1>3. n \in Nat /\ writebuffer_chunksize \in Nat
  BY TransferAssumption
<1>4. len' \in Nat
  BY <1>1, <1>3 DEF MinOf
<1>5. WriteType'
  BY <1>1, <1>2, <1>3, <1>4 DEF WriteType
<1>6. taken' = [i \in 1..Len(taken') |-> i] /\ Len(taken') = 0
  BY <1>1
<1>7. WriteCounted'
  BY <1>1, <1>2, <1>6 DEF WriteCounted
<1>8. WriteInv' /\ WriteWhole'
  BY <1>1, <1>2, <1>7 DEF WriteInv, WriteWhole
<1>. QED BY <1>5, <1>8 DEF WriteSide

\* What the returned transfer moved is counted.
LEMMA WriteCallbackStep ==
    ASSUME WriteControl, usb["w"] = "returned",
           offset' = offset + actual_length["w"], offset' <= size["w"],
           usb'["w"] = "none" \/ (usb'["w"] = "inflight" /\ from' = offset'),
           from' \in Nat, len' \in Nat,
           completed'["w"] /\ status'["w"] = "COMPLETED" /\ faults' = MaxFaults => offset' = size["w"],
           UNCHANGED <<pc, size, live, taken>>
    PROVE  WriteSide'
<1>1. live["w"] /\ taken = [i \in 1..Len(taken) |-> i] /\ Len(taken) = offset + actual_length["w"]
      /\ pc # "write_data"
  BY DEF WriteControl, WriteSide, WriteInv, WriteCounted, Control, ControlAt, Dirs
<1>2. WriteType'
  BY WriteFacts DEF WriteType
<1>3. WriteCounted'
  <2>1. Len(taken) = offset' + 0
    BY <1>1, WriteFacts
  <2>2. usb'["w"] # "returned"
    OBVIOUS
  <2>. QED BY <1>1, <2>1, <2>2 DEF WriteCounted
<1>4. WriteInv' /\ WriteWhole'
  BY <1>1, <1>3 DEF WriteInv, WriteWhole
<1>. QED BY <1>2, <1>4 DEF WriteSide

LEMMA WriteCbCompletesStep ==
    ASSUME WriteControl, WriteCbCompletes
    PROVE  WriteSide'
<1>1. /\ usb["w"] = "returned" /\ offset' = offset + actual_length["w"] /\ offset' = size["w"]
      /\ UNCHANGED <<pc, size, live, taken, from, len>>
  BY DEF WriteCbCompletes, InCallback
<1>2. usb'["w"] = "none"
  BY DEF WriteCbCompletes, Completes, WriteControl, Control, ControlType, Dirs
<1>3. offset' <= size["w"] /\ from' \in Nat /\ len' \in Nat
  BY <1>1, WriteFacts
<1>4. usb'["w"] = "none" \/ (usb'["w"] = "inflight" /\ from' = offset')
  BY <1>2
<1>5. completed'["w"] /\ status'["w"] = "COMPLETED" /\ faults' = MaxFaults => offset' = size["w"]
  <2>1. offset' = size["w"]
    BY <1>1
  <2>. QED BY <2>1
<1>. QED BY <1>1, <1>3, <1>4, <1>5, WriteCallbackStep

LEMMA WriteCbContinuesStep ==
    ASSUME WriteControl, WriteCbContinues
    PROVE  WriteSide'
<1>1. /\ usb["w"] = "returned" /\ offset + actual_length["w"] < size["w"]
      /\ offset' = offset + actual_length["w"] /\ from' = offset'
      /\ len' = MinOf(writebuffer_chunksize, size["w"] - offset') /\ Resubmit("w")
      /\ UNCHANGED <<pc, size, live, status, taken>>
  BY DEF WriteCbContinues, InCallback
<1>2. offset' \in Nat /\ offset' <= size["w"] /\ size["w"] - offset' \in Nat
  <2>1. size["w"] \in Nat /\ offset \in Nat /\ actual_length["w"] \in Nat
    BY WriteFacts
  <2>2. offset' = offset + actual_length["w"] /\ offset + actual_length["w"] < size["w"]
    BY <1>1
  <2>. QED BY <2>1, <2>2
<1>3. len' \in Nat
  BY <1>1, <1>2, WriteFacts DEF MinOf
<1>4. ~completed["w"] /\ completed \in [Dirs -> BOOLEAN]
      /\ usb \in [Dirs -> {"none", "inflight", "cancelling", "expired", "returned"}]
  BY <1>1 DEF WriteControl, Control, ControlType, ControlAt, Dirs
<1>5. /\ usb'["w"] \in {"none", "inflight"}
      /\ ~ (completed'["w"] /\ status'["w"] = "COMPLETED" /\ faults' = MaxFaults)
  <2>1. CASE status["w"] = "CANCELLED" /\ Completes("w")
    BY <1>1, <1>4, <2>1 DEF Completes, Dirs
  <2>2. CASE usb' = [usb EXCEPT !["w"] = "inflight"] /\ UNCHANGED <<completed, faults>>
    BY <1>4, <2>2 DEF Dirs
  <2>3. CASE Fault("submit") /\ Completes("w")
    <3>1. faults' # MaxFaults
      BY <2>3, TransferAssumption DEF Fault, WriteControl, Control, ControlType
    <3>. QED BY <1>4, <2>3, <3>1 DEF Completes, Dirs
  <2>. QED BY <1>1, <2>1, <2>2, <2>3 DEF Resubmit
<1>. QED BY <1>1, <1>2, <1>3, <1>5, WriteCallbackStep

LEMMA FreeWriteStep ==
    ASSUME WriteControl, Free(cur, FALSE) \/ Free(cur, TRUE), pc' = "idle",
           UNCHANGED <<cur, from, len, taken>>, faults' = MaxFaults => faults = MaxFaults
    PROVE  WriteSide'
<1>1. CASE cur = "w"
  <2>1. /\ ~live'["w"] /\ usb'["w"] = "none" /\ ~completed'["w"] /\ size'["w"] = 0 /\ offset' = 0
    BY <1>1 DEF Free, WriteControl, Control, ControlType, Dirs
  <2>2. WriteType'
    BY <2>1, WriteFacts DEF WriteType
  <2>. QED BY <2>1, <2>2, NoWriteSide
<1>2. CASE cur = "r"
  <2>1. /\ usb'["w"] = usb["w"] /\ completed'["w"] = completed["w"] /\ live'["w"] = live["w"]
        /\ size'["w"] = size["w"] /\ UNCHANGED <<status, actual_length, offset>>
        /\ usb' \in [Dirs -> {"none", "inflight", "cancelling", "expired", "returned"}]
    BY <1>2 DEF Free, WriteControl, Control, ControlType, Dirs
  <2>2. UNCHANGED writing
    BY <2>1 DEF writing
  <2>. QED BY <2>1, <2>2, WriteFrame
<1>. QED BY <1>1, <1>2 DEF WriteControl, Control, ControlType, Dirs

LEMMA CancelWriteFrame ==
    ASSUME WriteControl, NEW d \in Dirs, CancelTransfer(d),
           UNCHANGED <<size, writing, live, completed, actual_length>>,
           pc' # "write_data", faults' = MaxFaults => faults = MaxFaults
    PROVE  WriteSide'
<1>1. /\ usb'["w"] = "returned" <=> usb["w"] = "returned"
      /\ usb'["w"] = "none" <=> usb["w"] = "none"
      /\ usb' \in [Dirs -> {"none", "inflight", "cancelling", "expired", "returned"}]
      /\ status'["w"] = "COMPLETED" => status["w"] = "COMPLETED"
  BY DEF CancelTransfer, WriteControl, Control, ControlType, Dirs
<1>. QED BY <1>1, WriteFrame

LEMMA UsbWriteDoneStep ==
    ASSUME WriteControl, NEW n \in 0..writebuffer_chunksize, NEW st \in Statuses, UsbWriteDone(n, st)
    PROVE  WriteSide'
<1>1. /\ usb["w"] \in {"inflight", "cancelling", "expired"} /\ usb' = [usb EXCEPT !["w"] = "returned"]
      /\ actual_length' = [actual_length EXCEPT !["w"] = n] /\ Take(from, n)
      /\ UNCHANGED <<pc, size, offset, from, len, live, completed>>
  BY DEF UsbWriteDone, MayReturn, Statuses
<1>2. usb'["w"] = "returned" /\ actual_length'["w"] = n
  BY <1>1 DEF WriteControl, Control, ControlType, Dirs
<1>3. /\ live["w"] /\ ~completed["w"] /\ pc # "write_data" /\ from = offset
      /\ taken = [i \in 1..Len(taken) |-> i] /\ Len(taken) = offset + 0
  BY <1>1 DEF WriteControl, WriteSide, WriteInv, WriteCounted, Control, ControlAt, Dirs
<1>4. n \in Nat /\ offset \in Nat /\ Len(taken) = offset
  BY <1>3, WriteFacts
<1>5. taken = [i \in 1..offset |-> i]
  BY <1>3, <1>4
<1>6. taken' = [i \in 1..offset + n |-> i]
  BY <1>1, <1>3, <1>4, <1>5, CountOn DEF Take
<1>7. offset + n \in Nat
  BY <1>4
<1>8. taken' \in Seq(Nat) /\ Len(taken') = offset + n
  BY <1>6, <1>7
<1>9. WriteType'
  BY <1>1, <1>8, WriteFacts DEF WriteType
<1>10. WriteCounted'
  BY <1>1, <1>2, <1>6, <1>8 DEF WriteCounted
<1>. QED BY <1>1, <1>2, <1>3, <1>9, <1>10 DEF WriteSide, WriteInv, WriteWhole

-----------------------------------------------------------------------------
(* Every step, both sides and the control blocks together.                 *)

Step == IInv' /\ StreamStep

LEMMA StepParts ==
    ASSUME Control', ReadStep, WriteSide'
    PROVE  Step
BY DEF Step, IInv, ReadStep

LEMMA Sides ==
    ASSUME IInv
    PROVE  Control /\ ReadControl /\ WriteControl
BY DEF IInv, ReadControl, WriteControl

\* Calls that leave all transfers where they are.
LEMMA CallControl ==
    ASSUME Control, UNCHANGED control, pc' \in Handling \cup {"idle"}, cur' \in Dirs,
           pc' \in {"done", "done_error", "cancel"} => live[cur'],
           size' \in [Dirs -> ReadSizes \cup WriteSizes \cup {0}], faults' \in 0..MaxFaults
    PROVE  Control'
BY CallerControl DEF Control, ControlType, control

LEMMA CallWriteFrame ==
    ASSUME WriteControl, UNCHANGED <<writing, control>>, size'["w"] = size["w"],
           pc' = "write_data" => pc = "write_data", faults' = MaxFaults => faults = MaxFaults
    PROVE  WriteSide'
BY WriteFrame DEF control, WriteControl, Control, ControlType

LEMMA CallReadFrame ==
    ASSUME ReadControl, UNCHANGED <<buffer, buf, control, sent, got, report>>, size'["r"] = size["r"],
           pc' = "read_data" <=> pc = "read_data", faults' = MaxFaults => faults = MaxFaults
    PROVE  ReadStep
BY ReadFrame DEF control

\* The sizes of the two directions do not mix.
LEMMA SizeOf ==
    ASSUME Control, NEW d \in Dirs, NEW n \in ReadSizes \cup WriteSizes \cup {0},
           size' = [size EXCEPT ![d] = n]
    PROVE  /\ size' \in [Dirs -> ReadSizes \cup WriteSizes \cup {0}]
           /\ \A e \in Dirs : e # d => size'[e] = size[e]
BY DEF Control, ControlType

\* ftdi_read_data within the library: no transfer is touched.
LEMMA ReadBufferedNext ==
    ASSUME IInv, NEW n \in ReadSizes, ReadBuffered(n)
    PROVE  Step
<1>1. Control /\ ReadStep /\ WriteControl
  BY Sides, ReadBufferedStep
<1>2. UNCHANGED <<pc, cur, size, writing, control, faults>>
  BY DEF ReadBuffered
<1>3. Control'
  BY <1>1, <1>2, CallControl DEF Control, ControlType, ControlAt
<1>4. WriteSide'
  BY <1>1, <1>2, CallWriteFrame
<1>. QED BY <1>1, <1>3, <1>4, StepParts

LEMMA read_dataNext ==
    ASSUME IInv, NEW n \in ReadSizes, read_data(n)
    PROVE  Step
<1>1. Control /\ ReadStep /\ WriteControl
  BY Sides, read_dataStep
<1>2. pc' = "read_data" /\ size' = [size EXCEPT !["r"] = n] /\ UNCHANGED <<cur, writing, control, faults>>
  BY DEF read_data
<1>3. size' \in [Dirs -> ReadSizes \cup WriteSizes \cup {0}] /\ size'["w"] = size["w"]
  BY <1>1, <1>2, SizeOf DEF Dirs
<1>4. Control'
  BY <1>1, <1>2, <1>3, CallControl DEF Control, ControlType, Handling
<1>5. WriteSide'
  BY <1>1, <1>2, <1>3, CallWriteFrame
<1>. QED BY <1>1, <1>4, <1>5, StepParts

LEMMA SubmitBufferedNext ==
    ASSUME IInv, NEW n \in ReadSizes, SubmitBuffered(n)
    PROVE  Step
<1>1. Control /\ ReadStep /\ WriteControl
  BY Sides, SubmitBufferedStep
<1>2. /\ pc = "idle" /\ size' = [size EXCEPT !["r"] = n] /\ live' = [live EXCEPT !["r"] = TRUE]
      /\ completed' = [completed EXCEPT !["r"] = TRUE] /\ status' = [status EXCEPT !["r"] = "COMPLETED"]
      /\ ~live["r"] /\ UNCHANGED <<pc, cur, writing, usb, actual_length, dangling, faults>>
  BY DEF SubmitBuffered
<1>3. size' \in [Dirs -> ReadSizes \cup WriteSizes \cup {0}] /\ size'["w"] = size["w"]
  BY <1>1, <1>2, SizeOf DEF Dirs
<1>4. ControlType'
  BY <1>1, <1>2, <1>3 DEF Control, ControlType, Dirs, Statuses
<1>5. Control'
  BY <1>1, <1>2, <1>4 DEF Control, ControlType, ControlAt, Dirs
<1>6. WriteSide'
  <2>1. /\ live'["w"] = live["w"] /\ completed'["w"] = completed["w"] /\ status'["w"] = status["w"]
        /\ usb \in [Dirs -> {"none", "inflight", "cancelling", "expired", "returned"}]
    BY <1>1, <1>2 DEF Control, ControlType, Dirs
  <2>. QED BY <1>1, <1>2, <1>3, <2>1, WriteFrame
<1>. QED BY <1>1, <1>5, <1>6, StepParts

LEMMA read_data_submitNext ==
    ASSUME IInv, NEW n \in ReadSizes, read_data_submit(n)
    PROVE  Step
<1>1. Control /\ ReadStep /\ WriteControl
  BY Sides, read_data_submitStep
<1>2. pc = "idle" /\ Submitted("r", n) /\ UNCHANGED <<pc, cur, writing, faults>>
  BY DEF read_data_submit
<1>3. Control'
  BY <1>1, <1>2, SubmittedControl DEF Dirs
<1>4. WriteSide'
  <2>1. /\ live'["w"] = live["w"] /\ completed'["w"] = completed["w"] /\ usb'["w"] = usb["w"]
        /\ size'["w"] = size["w"] /\ UNCHANGED <<status, actual_length>>
        /\ usb' \in [Dirs -> {"none", "inflight", "cancelling", "expired", "returned"}]
    BY <1>1, <1>2 DEF Submitted, Control, ControlType, Dirs
  <2>. QED BY <1>1, <1>2, <2>1, WriteFrame
<1>. QED BY <1>1, <1>3, <1>4, StepParts

LEMMA ReadSubmitFailsNext ==
    ASSUME IInv, NEW n \in ReadSizes, ReadSubmitFails(n)
    PROVE  Step
<1>1. Control /\ ReadStep /\ WriteControl
  BY Sides, ReadSubmitFailsStep
<1>2. UNCHANGED <<pc, cur, size, writing, control>> /\ (Fault("alloc") \/ Fault("submit"))
  BY DEF ReadSubmitFails
<1>3. faults' \in 0..MaxFaults /\ (faults' = MaxFaults => faults = MaxFaults)
  BY <1>1, <1>2, FaultCounts DEF AllFaults
<1>4. Control'
  BY <1>1, <1>2, <1>3, CallControl DEF Control, ControlType, ControlAt
<1>5. WriteSide'
  BY <1>1, <1>2, <1>3, CallWriteFrame
<1>. QED BY <1>1, <1>4, <1>5, StepParts

LEMMA write_dataNext ==
    ASSUME IInv, NEW n \in WriteSizes, write_data(n)
    PROVE  Step
<1>1. Control /\ WriteSide' /\ ReadControl
  BY Sides, write_dataStep
<1>2. /\ pc = "idle" /\ pc' = "write_data" /\ size' = [size EXCEPT !["w"] = n]
      /\ UNCHANGED <<cur, buffer, buf, control, faults, sent, got, report>>
  BY DEF write_data
<1>3. size' \in [Dirs -> ReadSizes \cup WriteSizes \cup {0}] /\ size'["r"] = size["r"]
  BY <1>1, <1>2, SizeOf DEF Dirs
<1>4. Control'
  BY <1>1, <1>2, <1>3, CallControl DEF Control, ControlType, Handling
<1>5. ReadStep
  BY <1>1, <1>2, <1>3, CallReadFrame
<1>. QED BY <1>1, <1>4, <1>5, StepParts

LEMMA write_data_submitNext ==
    ASSUME IInv, NEW n \in WriteSizes, write_data_submit(n)
    PROVE  Step
<1>1. Control /\ WriteSide' /\ ReadControl
  BY Sides, write_data_submitStep
<1>2. pc = "idle" /\ Submitted("w", n) /\ UNCHANGED <<pc, cur, buffer, buf, faults, sent, got, report>>
  BY DEF write_data_submit
<1>3. Control'
  BY <1>1, <1>2, SubmittedControl DEF Dirs
<1>4. ReadStep
  <2>1. /\ live'["r"] = live["r"] /\ completed'["r"] = completed["r"] /\ usb'["r"] = usb["r"]
        /\ size'["r"] = size["r"] /\ UNCHANGED <<status, actual_length>>
    BY <1>1, <1>2 DEF Submitted, Control, ControlType, Dirs
  <2>. QED BY <1>1, <1>2, <2>1, ReadFrame
<1>. QED BY <1>1, <1>3, <1>4, StepParts

LEMMA WriteSubmitFailsNext ==
    ASSUME IInv, WriteSubmitFails
    PROVE  Step
<1>1. Control /\ ReadControl /\ WriteControl
  BY Sides
<1>2. /\ UNCHANGED <<pc, cur, size, buffer, buf, writing, control, sent, got, report>>
      /\ Fault("alloc") \/ Fault("submit")
  BY DEF WriteSubmitFails
<1>3. faults' \in 0..MaxFaults /\ (faults' = MaxFaults => faults = MaxFaults)
  BY <1>1, <1>2, FaultCounts DEF AllFaults
<1>4. Control'
  BY <1>1, <1>2, <1>3, CallControl DEF Control, ControlType, ControlAt
<1>5. WriteSide' /\ ReadStep
  BY <1>1, <1>2, <1>3, CallWriteFrame, CallReadFrame
<1>. QED BY <1>4, <1>5, StepParts

\* ftdi_tciflush and the like: on the way, and refused.
LEMMA FlushNext ==
    ASSUME IInv, tciflush \/ FlushFails
    PROVE  Step
<1>1. Control /\ ReadControl /\ WriteControl
  BY Sides
<1>2. /\ UNCHANGED <<cur, size, buffer, buf, writing, control, sent, got, report>>
      /\ UNCHANGED faults \/ Fault("control")
      /\ \/ pc = "idle" /\ pc' = "flush"
         \/ pc = "flush" /\ pc' = "idle"
  BY DEF tciflush, FlushFails
<1>3. faults' \in 0..MaxFaults /\ (faults' = MaxFaults => faults = MaxFaults)
  BY <1>1, <1>2, FaultCounts DEF AllFaults
<1>4. Control'
  BY <1>1, <1>2, <1>3, CallControl DEF Control, ControlType, Handling
<1>5. WriteSide' /\ ReadStep
  BY <1>1, <1>2, <1>3, CallWriteFrame, CallReadFrame
<1>. QED BY <1>4, <1>5, StepParts

LEMMA FlushReturnsNext ==
    ASSUME IInv, FlushReturns
    PROVE  Step
<1>1. Control /\ ReadStep /\ WriteControl
  BY Sides, FlushReturnsStep
<1>2. pc' = "idle" /\ UNCHANGED <<cur, size, writing, control, faults>>
  BY DEF FlushReturns
<1>3. Control'
  BY <1>1, <1>2, CallControl DEF Control, ControlType
<1>4. WriteSide'
  BY <1>1, <1>2, CallWriteFrame
<1>. QED BY <1>1, <1>3, <1>4, StepParts

LEMMA read_data_set_chunksizeNext ==
    ASSUME IInv, NEW n \in ReadChunks, read_data_set_chunksize(n)
    PROVE  Step
<1>1. Control /\ ReadStep /\ WriteControl
  BY Sides, read_data_set_chunksizeStep
<1>2. UNCHANGED <<pc, cur, size, writing, control>> /\ (UNCHANGED faults \/ Fault("alloc"))
  BY DEF read_data_set_chunksize
<1>3. faults' \in 0..MaxFaults /\ (faults' = MaxFaults => faults = MaxFaults)
  BY <1>1, <1>2, FaultCounts DEF AllFaults
<1>4. Control'
  BY <1>1, <1>2, <1>3, CallControl DEF Control, ControlType, ControlAt
<1>5. WriteSide'
  BY <1>1, <1>2, <1>3, CallWriteFrame
<1>. QED BY <1>1, <1>4, <1>5, StepParts

LEMMA transfer_data_doneNext ==
    ASSUME IInv, NEW d \in Dirs, transfer_data_done(d)
    PROVE  Step
<1>1. Control /\ ReadControl /\ WriteControl
  BY Sides
<1>2. /\ pc = "idle" /\ pc' = "done" /\ cur' = d /\ live[d]
      /\ UNCHANGED <<size, buffer, buf, writing, control, faults, sent, got, report>>
  BY DEF transfer_data_done
<1>3. Control'
  BY <1>1, <1>2, CallControl DEF Control, ControlType, Handling
<1>4. WriteSide' /\ ReadStep
  BY <1>1, <1>2, CallWriteFrame, CallReadFrame
<1>. QED BY <1>3, <1>4, StepParts

LEMMA transfer_data_cancelNext ==
    ASSUME IInv, NEW d \in Dirs, transfer_data_cancel(d)
    PROVE  Step
<1>1. Control /\ ReadControl /\ WriteControl
  BY Sides
<1>2. /\ pc = "idle" /\ pc' = "cancel" /\ cur' = d /\ live[d] /\ CancelTransfer(d)
      /\ UNCHANGED <<size, buffer, buf, writing, live, completed, actual_length, dangling,
                     faults, sent, got, report>>
  BY DEF transfer_data_cancel
<1>3. Control'
  BY <1>1, <1>2, CancelControl DEF Control, ControlType
<1>4. ReadStep
  BY <1>1, <1>2, CancelFrame
<1>5. WriteSide'
  BY <1>1, <1>2, CancelWriteFrame
<1>. QED BY <1>3, <1>4, <1>5, StepParts

\* A bulk read: the call goes on or returns.
LEMMA BulkReadNext ==
    ASSUME IInv,
           BulkReadNothing \/ \E n \in Payloads : BulkReadFits(n) \/ BulkReadExceeds(n) \/ BulkReadFails(n)
    PROVE  Step
<1>1. Control /\ ReadControl /\ WriteControl
  BY Sides
<1>2. ReadStep
  BY <1>1, BulkReadNothingStep, BulkReadFitsStep, BulkReadExceedsStep, BulkReadFailsStep
<1>3. /\ pc = "read_data" /\ pc' \in {"read_data", "idle"}
      /\ UNCHANGED <<cur, writing, control>>
      /\ UNCHANGED size \/ size' = [size EXCEPT !["r"] = 0]
      /\ UNCHANGED faults \/ Fault("bulk")
  <2>1. CASE BulkReadNothing
    BY <2>1 DEF BulkReadNothing, BulkReturns, ReadReturns
  <2>2. ASSUME NEW n \in Payloads, BulkReadFits(n) PROVE <1>3!:
    BY <2>2 DEF BulkReadFits, BulkReturns, ReadReturns
  <2>3. ASSUME NEW n \in Payloads, BulkReadExceeds(n) PROVE <1>3!:
    BY <2>3 DEF BulkReadExceeds, BulkReturns, ReadReturns
  <2>4. ASSUME NEW n \in Payloads, BulkReadFails(n) PROVE <1>3!:
    BY <2>4 DEF BulkReadFails
  <2>. QED BY <2>1, <2>2, <2>3, <2>4
<1>4. faults' \in 0..MaxFaults /\ (faults' = MaxFaults => faults = MaxFaults)
  BY <1>1, <1>3, FaultCounts DEF AllFaults
<1>5. size' \in [Dirs -> ReadSizes \cup WriteSizes \cup {0}] /\ size'["w"] = size["w"]
  BY <1>1, <1>3, SizeOf DEF Control, ControlType, Dirs
<1>6. Control'
  BY <1>1, <1>3, <1>4, <1>5, CallControl DEF Control, ControlType, Handling
<1>7. WriteSide'
  BY <1>1, <1>3, <1>4, <1>5, CallWriteFrame
<1>. QED BY <1>2, <1>6, <1>7, StepParts

LEMMA BulkWriteNext ==
    ASSUME IInv, NEW n \in 0..writebuffer_chunksize, BulkWrite(n) \/ BulkWriteFails(n)
    PROVE  Step
<1>1. Control /\ ReadControl /\ WriteControl
  BY Sides
<1>2. /\ pc = "write_data" /\ pc' \in {"write_data", "idle"} /\ Take(offset, n)
      /\ offset' \in {offset, offset + n}
      /\ UNCHANGED <<cur, size, buffer, buf, from, len, control, sent, got, report>>
      /\ UNCHANGED faults \/ Fault("bulk")
  BY DEF BulkWrite, BulkWriteFails
<1>3. n \in 0..NextLength
  <2>1. n \in Nat
    BY <1>1, WriteFacts
  <2>2. n \in 1..NextLength \/ n \in 0..NextLength
    BY DEF BulkWrite, BulkWriteFails
  <2>. QED BY <2>1, <2>2
<1>4. faults' \in 0..MaxFaults /\ (faults' = MaxFaults => faults = MaxFaults)
  BY <1>1, <1>2, FaultCounts DEF AllFaults
<1>5. Control'
  BY <1>1, <1>2, <1>4, CallControl DEF Control, ControlType, Handling
<1>6. ReadStep
  BY <1>1, <1>2, <1>4, CallReadFrame
<1>7. WriteSide'
  BY <1>1, <1>2, <1>3, BulkWriteStep DEF control
<1>. QED BY <1>5, <1>6, <1>7, StepParts

\* ftdi_read_data_cb.
LEMMA ReadCallbackNext ==
    ASSUME IInv, ReadCallback
    PROVE  Step
<1>1. Control /\ ReadControl /\ WriteControl
  BY Sides
<1>2. ReadStep
  BY <1>1, ReadCbCompletesStep, ReadCbExceedsStep, ReadCbContinuesStep DEF ReadCallback
<1>3. /\ usb["r"] = "returned" /\ (Resubmit("r") \/ (Completes("r") /\ UNCHANGED faults))
      /\ UNCHANGED <<pc, cur, size, writing, live, status, actual_length, dangling>>
  BY DEF ReadCallback, ReadCbCompletes, ReadCbExceeds, ReadCbContinues, InCallback
<1>4. Control'
  <2>1. CASE Resubmit("r")
    BY <1>1, <1>3, <2>1, ResubmitControl DEF Dirs
  <2>2. CASE Completes("r") /\ UNCHANGED faults
    BY <1>1, <1>3, <2>2, CompletesControl DEF Dirs, Control, ControlType
  <2>. QED BY <1>3, <2>1, <2>2
<1>5. /\ completed'["w"] = completed["w"] /\ usb'["w"] = usb["w"]
      /\ usb' \in [Dirs -> {"none", "inflight", "cancelling", "expired", "returned"}]
  BY <1>1, <1>3 DEF Resubmit, Completes, Control, ControlType, Dirs
<1>6. faults' = MaxFaults => faults = MaxFaults
  BY <1>1, <1>3, FaultCounts DEF Resubmit, AllFaults
<1>7. WriteSide'
  BY <1>1, <1>3, <1>5, <1>6, WriteFrame
<1>. QED BY <1>2, <1>4, <1>7, StepParts

\* ftdi_write_data_cb.
LEMMA WriteCallbackNext ==
    ASSUME IInv, WriteCallback
    PROVE  Step
<1>1. Control /\ ReadControl /\ WriteControl
  BY Sides
<1>2. WriteSide'
  BY <1>1, WriteCbCompletesStep, WriteCbContinuesStep DEF WriteCallback
<1>3. /\ usb["w"] = "returned" /\ (Resubmit("w") \/ (Completes("w") /\ UNCHANGED faults))
      /\ UNCHANGED <<pc, cur, size, buffer, buf, live, status, actual_length, dangling,
                     sent, got, report>>
  BY DEF WriteCallback, WriteCbCompletes, WriteCbContinues, InCallback
<1>4. Control'
  <2>1. CASE Resubmit("w")
    BY <1>1, <1>3, <2>1, ResubmitControl DEF Dirs
  <2>2. CASE Completes("w") /\ UNCHANGED faults
    BY <1>1, <1>3, <2>2, CompletesControl DEF Dirs, Control, ControlType
  <2>. QED BY <1>3, <2>1, <2>2
<1>5. completed'["r"] = completed["r"] /\ usb'["r"] = usb["r"]
  BY <1>1, <1>3 DEF Resubmit, Completes, Control, ControlType, Dirs
<1>6. faults' = MaxFaults => faults = MaxFaults
  BY <1>1, <1>3, FaultCounts DEF Resubmit, AllFaults
<1>7. ReadStep
  BY <1>1, <1>3, <1>5, <1>6, ReadFrame
<1>. QED BY <1>2, <1>4, <1>7, StepParts

\* The control block is freed: its transfer is back, or handling events has failed.
LEMMA FreeNext ==
    ASSUME IInv, pc \in {"done", "done_error", "cancel"}, pc' = "idle",
           NEW success \in BOOLEAN, Free(cur, success), success => completed[cur],
           \/ completed[cur] /\ UNCHANGED faults
           \/ Fault("events"),
           UNCHANGED <<cur, buffer, from, len, taken, sent>>
    PROVE  Step
<1>1. Control /\ ReadControl /\ WriteControl
  BY Sides
<1>2. faults' \in 0..MaxFaults /\ (faults' = MaxFaults => faults = MaxFaults)
  BY <1>1, FaultCounts DEF AllFaults
<1>3. completed[cur] \/ "events" \in FaultKinds
  BY DEF Fault
<1>4. Control'
  BY <1>1, <1>2, <1>3, FreeControl
<1>5. ReadStep
  <2>1. pc # "read_data"
    OBVIOUS
  <2>. QED BY <1>1, <1>2, <2>1, FreeStep
<1>6. WriteSide'
  <2>1. Free(cur, FALSE) \/ Free(cur, TRUE)
    <3>1. success = TRUE \/ success = FALSE
      OBVIOUS
    <3>. QED BY <3>1
  <2>. QED BY <1>1, <1>2, <2>1, FreeWriteStep
<1>. QED BY <1>4, <1>5, <1>6, StepParts

LEMMA DoneReturnsNext ==
    ASSUME IInv, DoneReturns
    PROVE  Step
<1>1. /\ pc = "done" /\ pc' = "idle" /\ completed[cur] /\ Free(cur, status[cur] = "COMPLETED")
      /\ UNCHANGED <<cur, buffer, from, len, taken, faults, sent>>
  BY DEF DoneReturns
<1>2. (status[cur] = "COMPLETED") \in BOOLEAN
  OBVIOUS
<1>. QED BY <1>1, <1>2, FreeNext

LEMMA DoneEventsFailNext ==
    ASSUME IInv, DoneEventsFail
    PROVE  Step
<1>1. Control /\ ReadControl /\ WriteControl
  BY Sides
<1>2. /\ pc = "done" /\ pc' = "done_error" /\ Fault("events") /\ CancelTransfer(cur)
      /\ UNCHANGED <<cur, size, buffer, buf, writing, live, completed, actual_length, dangling,
                     sent, got, report>>
  BY DEF DoneEventsFail
<1>3. faults' \in 0..MaxFaults /\ (faults' = MaxFaults => faults = MaxFaults)
  BY <1>1, <1>2, FaultCounts DEF AllFaults
<1>4. cur \in Dirs /\ live[cur]
  BY <1>1, <1>2 DEF Control, ControlType, ControlAt
<1>5. Control'
  BY <1>1, <1>2, <1>3, <1>4, CancelControl
<1>6. ReadStep
  BY <1>1, <1>2, <1>3, <1>4, CancelFrame
<1>7. WriteSide'
  BY <1>1, <1>2, <1>3, <1>4, CancelWriteFrame
<1>. QED BY <1>5, <1>6, <1>7, StepParts

LEMMA FailedWaitNext ==
    ASSUME IInv, DoneErrorReturns \/ DoneErrorGivesUp \/ CancelReturns \/ CancelGivesUp
    PROVE  Step
<1>1. /\ pc \in {"done", "done_error", "cancel"} /\ pc' = "idle" /\ Free(cur, FALSE)
      /\ \/ completed[cur] /\ UNCHANGED faults
         \/ Fault("events")
      /\ UNCHANGED <<cur, buffer, from, len, taken, sent>>
  BY DEF DoneErrorReturns, DoneErrorGivesUp, CancelReturns, CancelGivesUp
<1>. QED BY <1>1, FreeNext

LEMMA UsbReadDoneNext ==
    ASSUME IInv, NEW n \in Payloads, NEW st \in Statuses, UsbReadDone(n, st)
    PROVE  Step
<1>1. Control /\ ReadStep /\ WriteControl /\ ReadControl
  BY Sides, UsbReadDoneStep
<1>2. /\ usb["r"] # "none" /\ usb' = [usb EXCEPT !["r"] = "returned"]
      /\ status' = [status EXCEPT !["r"] = st] /\ (UNCHANGED faults \/ Fault("device"))
      /\ actual_length' = [actual_length EXCEPT !["r"] = IF st = "COMPLETED" THEN Whole(n) ELSE Broken(n)]
      /\ UNCHANGED <<pc, cur, size, writing, live, completed, dangling>>
  BY DEF UsbReadDone, MayReturn, Statuses
<1>3. faults' \in 0..MaxFaults /\ (faults' = MaxFaults => faults = MaxFaults)
  BY <1>1, <1>2, FaultCounts DEF AllFaults
<1>4. Whole(n) \in Nat /\ Broken(n) \in Nat
  <2>1. readbuffer_chunksize \in Nat
    BY <1>1, BufferFacts
  <2>2. Whole(n) \in 0..readbuffer_chunksize /\ Broken(n) \in 0..readbuffer_chunksize
    BY <1>1, PayloadFacts
  <2>. QED BY <2>1, <2>2
<1>5. /\ usb' \in [Dirs -> {"none", "inflight", "cancelling", "expired", "returned"}]
      /\ status' \in [Dirs -> Statuses] /\ actual_length' \in [Dirs -> Nat]
      /\ usb'["w"] = usb["w"] /\ status'["w"] = status["w"] /\ actual_length'["w"] = actual_length["w"]
  BY <1>1, <1>2, <1>4 DEF Control, ControlType, Dirs
<1>6. Control'
  BY <1>1, <1>2, <1>3, <1>5, UsbControl DEF Control, ControlType, Dirs
<1>7. WriteSide'
  BY <1>1, <1>2, <1>3, <1>5, WriteFrame
<1>. QED BY <1>1, <1>6, <1>7, StepParts

LEMMA UsbWriteDoneNext ==
    ASSUME IInv, NEW n \in 0..writebuffer_chunksize, NEW st \in Statuses, UsbWriteDone(n, st)
    PROVE  Step
<1>1. Control /\ WriteSide' /\ WriteControl /\ ReadControl
  BY Sides, UsbWriteDoneStep
<1>2. /\ usb["w"] # "none" /\ usb' = [usb EXCEPT !["w"] = "returned"]
      /\ status' = [status EXCEPT !["w"] = st] /\ (UNCHANGED faults \/ Fault("device"))
      /\ actual_length' = [actual_length EXCEPT !["w"] = n]
      /\ UNCHANGED <<pc, cur, size, buffer, buf, live, completed, dangling, sent, got, report>>
  BY DEF UsbWriteDone, MayReturn, Statuses
<1>3. faults' \in 0..MaxFaults /\ (faults' = MaxFaults => faults = MaxFaults)
  BY <1>1, <1>2, FaultCounts DEF AllFaults
<1>4. n \in Nat
  BY <1>1, WriteFacts
<1>5. /\ usb' \in [Dirs -> {"none", "inflight", "cancelling", "expired", "returned"}]
      /\ status' \in [Dirs -> Statuses] /\ actual_length' \in [Dirs -> Nat]
      /\ usb'["r"] = usb["r"] /\ status'["r"] = status["r"] /\ actual_length'["r"] = actual_length["r"]
  BY <1>1, <1>2, <1>4 DEF Control, ControlType, Dirs
<1>6. Control'
  BY <1>1, <1>2, <1>3, <1>5, UsbControl DEF Control, ControlType, Dirs
<1>7. ReadStep
  BY <1>1, <1>2, <1>3, <1>5, ReadFrame
<1>. QED BY <1>1, <1>6, <1>7, StepParts

LEMMA UsbTimesOutNext ==
    ASSUME IInv, NEW d \in Dirs, UsbTimesOut(d)
    PROVE  Step
<1>1. Control /\ ReadStep /\ WriteControl
  BY Sides, UsbTimesOutFrame
<1>2. /\ usb[d] = "inflight" /\ usb' = [usb EXCEPT ![d] = "expired"] /\ Fault("timeout")
      /\ UNCHANGED <<pc, cur, size, buffer, buf, writing, live, completed, status,
                     actual_length, dangling, sent, got, report>>
  BY DEF UsbTimesOut
<1>3. faults' \in 0..MaxFaults /\ (faults' = MaxFaults => faults = MaxFaults)
  BY <1>1, <1>2, FaultCounts DEF AllFaults
<1>4. /\ usb' \in [Dirs -> {"none", "inflight", "cancelling", "expired", "returned"}]
      /\ usb'["w"] = "returned" <=> usb["w"] = "returned"
      /\ usb'["w"] = "none" <=> usb["w"] = "none"
  BY <1>1, <1>2 DEF Control, ControlType, Dirs
<1>5. Control'
  BY <1>1, <1>2, <1>3, <1>4, UsbControl DEF Control, ControlType
<1>6. WriteSide'
  BY <1>1, <1>2, <1>3, <1>4, WriteFrame
<1>. QED BY <1>1, <1>5, <1>6, StepParts

LEMMA StutterNext ==
    ASSUME IInv, UNCHANGED vars
    PROVE  Step
<1>1. Control /\ ReadControl /\ WriteControl
  BY Sides
<1>2. UNCHANGED <<pc, cur, size, buffer, buf, writing, control, faults, sent, got, report>>
  BY DEF vars
<1>3. Control'
  BY <1>1, <1>2, CallControl DEF Control, ControlType, ControlAt
<1>4. ReadStep /\ WriteSide'
  BY <1>1, <1>2, CallReadFrame, CallWriteFrame
<1>. QED BY <1>3, <1>4, StepParts

LEMMA NextStep ==
    ASSUME IInv, [Next]_vars
    PROVE  Step
<1>1. CASE ReadCalls
  BY <1>1, ReadBufferedNext, read_dataNext, SubmitBufferedNext, read_data_submitNext,
     ReadSubmitFailsNext DEF ReadCalls
<1>2. CASE WriteCalls
  BY <1>2, write_dataNext, write_data_submitNext, WriteSubmitFailsNext DEF WriteCalls
<1>3. CASE OtherCalls
  BY <1>3, FlushNext, read_data_set_chunksizeNext, transfer_data_doneNext, transfer_data_cancelNext
     DEF OtherCalls
<1>4. CASE Bulk
  BY <1>4, BulkReadNext, BulkWriteNext DEF Bulk
<1>5. CASE ReadCallback
  BY <1>5, ReadCallbackNext
<1>6. CASE WriteCallback
  BY <1>6, WriteCallbackNext
<1>7. CASE Waiting
  BY <1>7, DoneReturnsNext, DoneEventsFailNext, FailedWaitNext, FlushReturnsNext, FlushNext DEF Waiting
<1>8. CASE Libusb
  BY <1>8, UsbReadDoneNext, UsbWriteDoneNext, UsbTimesOutNext DEF Libusb, UsbDone
<1>9. CASE UNCHANGED vars
  BY <1>9, StutterNext
<1>. QED BY <1>1, <1>2, <1>3, <1>4, <1>5, <1>6, <1>7, <1>8, <1>9 DEF Next

LEMMA InitIInv == Init => IInv /\ Reads!Init
<1>. SUFFICES ASSUME Init PROVE IInv /\ Reads!Init
  OBVIOUS
<1>1. MaxFaults \in Nat /\ MaxBytes \in Nat /\ readbuffer_chunksize \in Nat
  BY TransferAssumption DEF Init
<1>2. Control
  <2>1. /\ size \in [Dirs -> ReadSizes \cup WriteSizes \cup {0}]
        /\ live \in [Dirs -> BOOLEAN] /\ completed \in [Dirs -> BOOLEAN]
        /\ usb \in [Dirs -> {"none", "inflight", "cancelling", "expired", "returned"}]
        /\ status \in [Dirs -> Statuses] /\ actual_length \in [Dirs -> Nat]
    BY DEF Init, Statuses
  <2>2. pc = "idle" /\ cur \in Dirs /\ dangling = FALSE /\ faults \in 0..MaxFaults
    BY <1>1 DEF Init, Dirs
  <2>3. \A d \in Dirs : usb[d] = "none" /\ ~completed[d]
    BY DEF Init
  <2>4. ControlType
    BY <2>1, <2>2 DEF ControlType
  <2>. QED BY <2>2, <2>3, <2>4 DEF Control, ControlAt
<1>3. readbuffer \in BufferOf(readbuffer_chunksize)
  BY <1>1 DEF Init, BufferOf, Chip
<1>4. ReadType
  <2>1. size["r"] = 0 /\ buf = <<>> /\ got = <<>> /\ report = FALSE /\ sent = 0
        /\ readbuffer_offset = 0 /\ readbuffer_remaining = 0 /\ readbuffer_chunksize \in ReadChunks
    BY DEF Init, Dirs
  <2>2. <<>> \in Seq(Chip) /\ Len(<<>>) = 0
    OBVIOUS
  <2>3. buf \in Seq(Chip) /\ got \in Seq(Chip) /\ Len(buf) <= size["r"]
    BY <2>1, <2>2
  <2>4. 0 + 0 <= readbuffer_chunksize /\ 0 \in 0..MaxBytes
    BY <1>1
  <2>5. readbuffer_offset \in Nat /\ readbuffer_remaining \in Nat /\ report \in BOOLEAN
        /\ readbuffer_offset + readbuffer_remaining <= readbuffer_chunksize /\ sent \in 0..MaxBytes
    BY <2>1, <2>4
  <2>. QED BY <1>3, <2>1, <2>3, <2>5 DEF ReadType
<1>5. ReadInv /\ ReadWhole
  BY DEF Init, ReadInv, ReturnedInv, ReadWhole, Dirs
<1>6. WriteType /\ WriteInv /\ WriteWhole
  BY DEF Init, WriteType, WriteInv, WriteCounted, WriteWhole, Dirs
<1>7. IInv
  BY <1>2, <1>4, <1>5, <1>6 DEF IInv, ReadSide, WriteSide
<1>8. Pending = <<>>
  <2>1. readbuffer_remaining = 0 /\ usb["r"] # "returned" /\ buf = <<>>
    BY DEF Init, Dirs
  <2>2. Announced = <<>>
    BY <2>1, NoBytes DEF Announced
  <2>3. <<>> \in Seq(Chip)
    OBVIOUS
  <2>4. <<>> \o <<>> = <<>>
    BY <2>3, ConcatParts
  <2>. QED BY <2>1, <2>2, <2>4 DEF Pending
<1>. QED BY <1>7, <1>8 DEF Reads!Init, Init

\* Everything below rests on this: the invariant holds, and each step is one of ByteStream.
THEOREM Inductive == Spec => []IInv
<1>1. Init => IInv
  BY InitIInv
<1>2. IInv /\ [Next]_vars => IInv'
  BY NextStep DEF Step
<1>. QED BY <1>1, <1>2, PTL DEF Spec

\* The types of all the state, the bounds of the readbuffer among them: for every packet
\* and chunk size, no callback or call leaves the data it announces outside the readbuffer.
THEOREM TypeCorrect == Spec => []TypeOK
<1>1. IInv => TypeOK
  BY TypeSplits
<1>. QED BY <1>1, Inductive, PTL

\* A completed control block has its transfer back, whatever ended it.
THEOREM CompletedAreBack == Spec => []CompletedIsBack
<1>1. IInv => CompletedIsBack
  BY DEF IInv, Control, ControlAt, CompletedIsBack
<1>. QED BY <1>1, Inductive, PTL

\* An asynchronous write gives the chip the bytes in order, without a gap or a repetition.
THEOREM WritesAreCounted == Spec => []WriteCounted
<1>1. IInv => WriteCounted
  BY DEF IInv, WriteSide, WriteInv
<1>. QED BY <1>1, Inductive, PTL

\* While the handling of events does not fail, no transfer is freed that libusb owns: the
\* calls that give up waiting then free it as it is.
THEOREM FreedWhenBack ==
    ASSUME "events" \notin FaultKinds
    PROVE  Spec => []NothingFreedInFlight
<1>1. IInv => NothingFreedInFlight
  BY DEF IInv, Control, NothingFreedInFlight
<1>. QED BY <1>1, Inductive, PTL

\* transfer_data_done ends in one way without a failure: with a completed control block.
LEMMA DoneEnds ==
    ASSUME Next, pc = "done", pc' = "idle"
    PROVE  completed[cur]
<1>1. ~ReadCalls
  BY DEF ReadCalls, ReadBuffered, read_data, SubmitBuffered, read_data_submit, ReadSubmitFails
<1>2. ~WriteCalls
  BY DEF WriteCalls, write_data, write_data_submit, WriteSubmitFails
<1>3. ~OtherCalls
  BY DEF OtherCalls, tciflush, read_data_set_chunksize, transfer_data_done, transfer_data_cancel
<1>4. ~Bulk
  BY DEF Bulk, BulkReadNothing, BulkReadFits, BulkReadExceeds, BulkReadFails, BulkReturns,
         BulkWrite, BulkWriteFails
<1>5. ~ReadCallback
  BY DEF ReadCallback, ReadCbCompletes, ReadCbExceeds, ReadCbContinues
<1>6. ~WriteCallback
  BY DEF WriteCallback, WriteCbCompletes, WriteCbContinues
<1>7. ~Libusb
  BY DEF Libusb, UsbDone, UsbReadDone, UsbWriteDone, UsbTimesOut
<1>8. CASE Waiting
  BY <1>8 DEF Waiting, DoneReturns, DoneEventsFail, DoneErrorReturns, DoneErrorGivesUp,
              CancelReturns, CancelGivesUp, FlushReturns, FlushFails
<1>. QED BY <1>1, <1>2, <1>3, <1>4, <1>5, <1>6, <1>7, <1>8 DEF Next

\* A transfer_data_done that succeeds, with no failure before it, has every byte: the
\* count it returns is the size asked for, over all the transfers it took.
THEOREM DonesAreWhole == Spec => DoneIsWhole
<1>1. ASSUME IInv, [Next]_vars
      PROVE  [pc = "done" /\ pc' = "idle" /\ status[cur] = "COMPLETED" /\ faults = MaxFaults
                => IF cur = "r" THEN Len(buf) = size["r"] ELSE offset = size["w"]]_vars
  <2>. SUFFICES ASSUME Next, pc = "done", pc' = "idle", status[cur] = "COMPLETED", faults = MaxFaults
                PROVE  IF cur = "r" THEN Len(buf) = size["r"] ELSE offset = size["w"]
    BY <1>1
  <2>1. completed[cur]
    BY DoneEnds
  <2>2. cur = "r" \/ cur = "w"
    BY <1>1 DEF IInv, Control, ControlType, Dirs
  <2>. QED BY <1>1, <2>1, <2>2 DEF IInv, ReadSide, ReadWhole, WriteSide, WriteWhole
<1>. QED BY <1>1, Inductive, PTL DEF Spec, DoneIsWhole

\* The reads implement ByteStream: synchronous and asynchronous reads, the rests the
\* readbuffer keeps, flushes and failures together give the application the chip's bytes
\* in order and once, and lose one only when they say so.
THEOREM ReadsImplementStream == Spec => ReadsAreAStream
<1>1. Init => Reads!Init
  BY InitIInv
<1>2. IInv /\ [Next]_vars => [Reads!Next]_Reads!streamVars
  BY NextStep DEF Step, StreamStep, Reads!streamVars
<1>. QED BY <1>1, <1>2, Inductive, PTL DEF Spec, ReadsAreAStream, Reads!Spec
=============================================================================
