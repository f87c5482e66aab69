------------------------- MODULE EepromLayoutProofs -------------------------
(***************************************************************************)
(* Theorems about EepromLayout: no two values of a chip type share a bit   *)
(* of its image, the decoder looks where the builder put them, and so each *)
(* value is read back as it was built, whatever all the others are.        *)
(***************************************************************************)
EXTENDS EepromLayout, RecursionLemmas

-----------------------------------------------------------------------------
(* Numbers in a header.                                                    *)

Power(k) == 2^k
PowersOf2 == {1, 2, 4, 8, 16, 32, 64, 128, 256, 512, 1024, 2048, 4096, 8192, 16384, 32768}

LEMMA Powers ==
    /\ Power(0) = 1 /\ Power(1) = 2 /\ Power(2) = 4 /\ Power(3) = 8 /\ Power(4) = 16
    /\ Power(8) = 256 /\ Power(16) = 65536
    /\ \A k \in 0..15 : Power(k) \in PowersOf2 /\ Power(k) \in Nat /\ Power(k + 1) = 2 * Power(k)
<1>1. /\ Power(0) = 1 /\ Power(1) = 2 /\ Power(2) = 4 /\ Power(3) = 8 /\ Power(4) = 16 /\ Power(5) = 32
      /\ Power(6) = 64 /\ Power(7) = 128 /\ Power(8) = 256 /\ Power(9) = 512 /\ Power(10) = 1024
      /\ Power(11) = 2048 /\ Power(12) = 4096 /\ Power(13) = 8192 /\ Power(14) = 16384
      /\ Power(15) = 32768 /\ Power(16) = 65536
  BY SMT DEF Power
<1>2. ASSUME NEW k \in 0..15 PROVE Power(k) \in PowersOf2 /\ Power(k) \in Nat /\ Power(k + 1) = 2 * Power(k)
  <2>1. k \in {0, 1, 2, 3, 4, 5, 6, 7, 8, 9, 10, 11, 12, 13, 14, 15}
    BY SMT
  <2>. QED BY <1>1, <2>1, SMT DEF PowersOf2
<1>. QED BY <1>1, <1>2, SMT

Widths == {1, 2, 3, 4, 8, 16}

\* The recursion is well-defined: one more bit adds its weight if it is set.
LEMMA LowBitsDef ==
    ASSUME NEW header, NEW place, place[2] \in Widths
    PROVE  /\ LowBits(header, place)[0] = 0
           /\ \A k \in 1..place[2] :
                LowBits(header, place)[k] =
                    LowBits(header, place)[k - 1] + (IF place[1] + k - 1 \in header THEN 2^(k - 1) ELSE 0)
<1>. DEFINE w == place[2]
            F == [k \in 1..w |-> [x \in Nat |-> x + (IF place[1] + k - 1 \in header THEN 2^(k - 1) ELSE 0)]]
            Loop(g) == [k \in 0..w |->
                          IF k = 0 THEN 0
                          ELSE g[k - 1] + (IF place[1] + k - 1 \in header THEN 2^(k - 1) ELSE 0)]
<1>0. w \in Nat /\ \A k \in 1..w : k - 1 \in 0..15
  BY DEF Widths
<1>1. F \in [1..w -> [Nat -> Nat]]
  <2>1. ASSUME NEW k \in 1..w PROVE (IF place[1] + k - 1 \in header THEN 2^(k - 1) ELSE 0) \in Nat
    <3>1. 2^(k - 1) = Power(k - 1) /\ k - 1 \in 0..15
      BY <1>0, Zenon DEF Power
    <3>. QED BY <3>1, Powers
  <2>. HIDE DEF w
  <2>. QED BY <2>1
<1>2. PICK g : IsLoop(g, w, Nat, 0, F)
  <2>. HIDE DEF F, w
  <2>. QED BY <1>0, <1>1, LoopExists
<1>. HIDE DEF w
<1>3. g = Loop(g)
  <2>1. ASSUME NEW k \in 1..w
        PROVE  g[k] = g[k - 1] + (IF place[1] + k - 1 \in header THEN 2^(k - 1) ELSE 0)
    <3>1. g[k - 1] \in Nat
      BY <1>0, <1>2 DEF IsLoop
    <3>2. F[k][g[k - 1]] = g[k - 1] + (IF place[1] + k - 1 \in header THEN 2^(k - 1) ELSE 0)
      BY <3>1
    <3>. HIDE DEF F
    <3>. QED BY <1>2, <3>2 DEF IsLoop
  <2>2. ASSUME NEW k \in 0..w PROVE g[k] = Loop(g)[k]
    <3>1. CASE k = 0
      BY <1>2, <3>1 DEF IsLoop
    <3>2. CASE k \in 1..w
      <4>1. k # 0 /\ k \in 0..w
        BY <3>2, <1>0
      <4>. QED BY <2>1, <3>2, <4>1
    <3>. QED BY <3>1, <3>2, <1>0
  <2>. QED BY <1>2, <2>2 DEF IsLoop
<1>4. LowBits(header, place) = CHOOSE low : low = Loop(low)
  BY DEF LowBits, w
<1>5. LowBits(header, place) = Loop(LowBits(header, place))
  <2>. HIDE DEF Loop
  <2>. QED BY <1>3, <1>4
<1>6. 0 \in 0..w /\ \A k \in 1..w : k \in 0..w /\ k # 0
  BY <1>0
<1>. QED BY <1>5, <1>6, Zenon DEF w

\* The bit that n has at k.
HasBit(n, k) == (n \div Power(k)) % 2 = 1

\* What is above a bit is the bit, and what is above it.
LEMMA OneMoreBit ==
    ASSUME NEW n \in Nat, NEW p \in PowersOf2
    PROVE  n \div p = (2 * (n \div (2 * p))) + ((n \div p) % 2)
<1>1. CASE p = 1
  BY <1>1, SMT
<1>2. CASE p = 2
  BY <1>2, SMT
<1>3. CASE p = 4
  BY <1>3, SMT
<1>4. CASE p = 8
  BY <1>4, SMT
<1>5. CASE p = 16
  BY <1>5, SMT
<1>6. CASE p = 32
  BY <1>6, SMT
<1>7. CASE p = 64
  BY <1>7, SMT
<1>8. CASE p = 128
  BY <1>8, SMT
<1>9. CASE p = 256
  BY <1>9, SMT
<1>10. CASE p = 512
  BY <1>10, SMT
<1>11. CASE p = 1024
  BY <1>11, SMT
<1>12. CASE p = 2048
  BY <1>12, SMT
<1>13. CASE p = 4096
  BY <1>13, SMT
<1>14. CASE p = 8192
  BY <1>14, SMT
<1>15. CASE p = 16384
  BY <1>15, SMT
<1>16. CASE p = 32768
  BY <1>16, SMT
<1>. QED BY <1>1, <1>2, <1>3, <1>4, <1>5, <1>6, <1>7, <1>8, <1>9, <1>10, <1>11, <1>12, <1>13, <1>14, <1>15, <1>16 DEF PowersOf2

\* A number whose bits stand at a place, as many as there are, is read there.
LEMMA NumberIsRead ==
    ASSUME NEW header, NEW place, place[1] \in Nat, place[2] \in Widths, NEW n \in Nat,
           \A k \in 0..place[2] - 1 : place[1] + k \in header <=> HasBit(n, k)
    PROVE  /\ place[2] = 1 /\ n < 2 => NumberAt(header, place) = n
           /\ place[2] = 2 /\ n < 4 => NumberAt(header, place) = n
           /\ place[2] = 3 /\ n < 8 => NumberAt(header, place) = n
           /\ place[2] = 4 /\ n < 16 => NumberAt(header, place) = n
           /\ place[2] = 8 /\ n < 256 => NumberAt(header, place) = n
           /\ place[2] = 16 /\ n < 65536 => NumberAt(header, place) = n
<1>. DEFINE low == LowBits(header, place)
            w == place[2]
            Split(k) == low[k] \in Nat /\ n = low[k] + (Power(k) * (n \div Power(k)))
            S == {k \in Nat : k <= w => Split(k)}
<1>1. w \in Widths /\ w \in Nat /\ \A k \in 0..w - 1 : k \in 0..15 /\ k + 1 \in 1..w
  BY DEF Widths
<1>2. 0 \in S
  <2>1. low[0] = 0
    BY LowBitsDef
  <2>2. Power(0) * (n \div Power(0)) = n
    BY Powers, SMT
  <2>. HIDE DEF low
  <2>. QED BY <2>1, <2>2
<1>3. ASSUME NEW k \in Nat, k \in S PROVE k + 1 \in S
  <2>. SUFFICES ASSUME k + 1 <= w PROVE Split(k + 1)
    OBVIOUS
  <2>1. k \in 0..w - 1 /\ k \in 0..15 /\ k + 1 \in 1..w /\ (k + 1) - 1 = k
    BY <1>1
  <2>2. low[k + 1] = low[k] + (IF HasBit(n, k) THEN Power(k) ELSE 0)
    <3>1. PICK j : j = k + 1 /\ j \in 1..w /\ j - 1 = k
      BY <2>1
    <3>2. low[j] = low[j - 1] + (IF place[1] + j - 1 \in header THEN Power(j - 1) ELSE 0)
      BY <3>1, LowBitsDef, Zenon DEF Power
    <3>3. place[1] + j - 1 \in header <=> HasBit(n, k)
      <4>1. place[1] + j - 1 = place[1] + k
        BY <3>1
      <4>. QED BY <2>1, <4>1
    <3>. HIDE DEF low, w
    <3>4. j - 1 = k /\ j = k + 1
      BY <3>1
    <3>5. low[j] = low[k] + (IF HasBit(n, k) THEN Power(k) ELSE 0)
      <4>1. CASE HasBit(n, k)
        BY <3>2, <3>3, <3>4, <4>1, Zenon
      <4>2. CASE ~HasBit(n, k)
        BY <3>2, <3>3, <3>4, <4>2, Zenon
      <4>. QED BY <4>1, <4>2
    <3>. QED BY <3>4, <3>5, Zenon
  <2>3. Split(k)
    <3>. HIDE DEF Split
    <3>. QED BY <1>1, <1>3, <2>1
  <2>. DEFINE p == Power(k)
              q == n \div p
              q2 == n \div (2 * p)
              b == q % 2
  <2>4. p \in PowersOf2 /\ p \in Nat /\ Power(k + 1) = 2 * p
    BY <2>1, Powers
  <2>5. q = 2 * q2 + b
    <3>. HIDE DEF p
    <3>. QED BY <2>4, OneMoreBit
  <2>6. low[k] \in Nat /\ n = low[k] + (p * q)
    BY <2>3
  <2>7. low[k + 1] = low[k] + (IF b = 1 THEN p ELSE 0)
    BY <2>2 DEF HasBit
  <2>8. q \in Nat /\ q2 \in Nat /\ b \in {0, 1}
    <3>1. p > 0
      BY <2>4 DEF PowersOf2
    <3>. HIDE DEF p
    <3>. QED BY <2>4, <3>1
  <2>. HIDE DEF low, p, q, q2, b
  <2>9. low[k + 1] \in Nat
    BY <2>4, <2>6, <2>7
  <2>10. n = low[k + 1] + ((2 * p) * q2)
    <3>1. CASE b = 0
      <4>1. p * (2 * q2) = (2 * p) * q2
        BY <2>4, <2>8
      <4>. QED BY <2>4, <2>5, <2>6, <2>7, <2>8, <3>1, <4>1
    <3>2. CASE b = 1
      <4>1. p * (2 * q2 + 1) = (2 * p) * q2 + p
        BY <2>4, <2>8
      <4>. QED BY <2>4, <2>5, <2>6, <2>7, <2>8, <3>2, <4>1
    <3>. QED BY <2>8, <3>1, <3>2
  <2>. QED BY <2>4, <2>9, <2>10 DEF low, q2
<1>4. Split(w)
  <2>1. w \in S
    <3>. HIDE DEF S
    <3>. QED BY <1>1, <1>2, <1>3, InductionBySet
  <2>. QED BY <1>1, <2>1
<1>5. NumberAt(header, place) = low[w]
  BY DEF NumberAt
<1>. HIDE DEF low
<1>6. low[w] \in Nat /\ n = low[w] + (Power(w) * (n \div Power(w)))
  BY <1>4
<1>7. ASSUME NEW p \in {2, 4, 8, 16, 256, 65536}, n < p PROVE p * (n \div p) = 0
  BY <1>7, SMT
<1>. DEFINE p == Power(w)
<1>8. p \in {2, 4, 8, 16, 256, 65536} /\ (w = 1 => p = 2) /\ (w = 2 => p = 4) /\ (w = 3 => p = 8)
      /\ (w = 4 => p = 16) /\ (w = 8 => p = 256) /\ (w = 16 => p = 65536)
  BY <1>1, Powers, SMT DEF Widths
<1>. HIDE DEF p
<1>9. n < p => low[w] = n
  BY <1>6, <1>7, <1>8, SMT DEF p
<1>. QED BY <1>5, <1>8, <1>9

-----------------------------------------------------------------------------
(* Building: the places of a chip type are apart.                          *)

\* The bits of a place.  A table's places are apart from each other, and within some bits.
Span(place) == place[1]..place[1] + place[2] - 1
Sits(T, B) ==
    /\ \A f, g \in DOMAIN T : f # g => Span(T[f]) \cap Span(T[g]) = {}
    /\ \A f \in DOMAIN T : T[f][1] \in Nat /\ T[f][2] \in Nat /\ Span(T[f]) \subseteq B

LEMMA SitTogether ==
    ASSUME NEW f, NEW g, NEW A, NEW B, Sits(f, A), Sits(g, B), A \cap B = {}
    PROVE  Sits(f ++ g, A \cup B)
BY DEF Sits, ++

LEMMA SitWithin ==
    ASSUME NEW f, NEW A, NEW B, Sits(f, A), A \subseteq B
    PROVE  Sits(f, B)
BY DEF Sits

\* Pin functions of the same width are one behind the other.
PinRow(byte, width, first, last, from, to) ==
    <<byte, width, first, last, from, to>> \in
        {<<20, 4, 0, 3, 160, 175>>, <<22, 8, 4, 4, 176, 183>>, <<24, 4, 0, 9, 192, 231>>,
         <<26, 8, 0, 6, 208, 263>>}

LEMMA PinsSit ==
    ASSUME NEW byte, NEW width, NEW first, NEW last, NEW from, NEW to,
           PinRow(byte, width, first, last, from, to)
    PROVE  Sits(Pins(byte, width, first, last), from..to)
<1>. DEFINE T == Pins(byte, width, first, last)
<1>0. /\ byte \in Nat /\ width \in {4, 8} /\ first \in 0..9 /\ last \in 0..9 /\ from \in Nat /\ to \in Nat
      /\ from = 8 * byte
      /\ width = 4 => to = from + 4 * (last - first) + 3
      /\ width = 8 => to = from + 8 * (last - first) + 7
  BY SMT DEF PinRow
<1>1. ASSUME NEW f \in DOMAIN T
      PROVE  \E i \in first..last : f = Cbus[i + 1] /\ T[f] = <<8 * byte + width * (i - first), width>>
  <2>1. PICK i \in first..last : f = Cbus[i + 1]
    BY <1>1 DEF Pins
  <2>2. PinOf(f) = i + 1
    <3>1. \A j \in 1..10 : PinOf(Cbus[j]) = j
      BY SMT DEF PinOf, Cbus
    <3>. QED BY <1>0, <2>1, <3>1
  <2>3. T[f] = <<8 * byte + width * (PinOf(f) - 1 - first), width>>
    BY <1>1 DEF Pins
  <2>4. PinOf(f) - 1 - first = i - first
    BY <1>0, <2>2
  <2>. QED BY <2>1, <2>3, <2>4
<1>. HIDE DEF T
<1>2. ASSUME NEW f \in DOMAIN T, NEW g \in DOMAIN T, f # g
      PROVE  Span(T[f]) \cap Span(T[g]) = {}
  <2>1. PICK i \in first..last : T[f] = <<8 * byte + width * (i - first), width>> /\ f = Cbus[i + 1]
    BY <1>1
  <2>2. PICK j \in first..last : T[g] = <<8 * byte + width * (j - first), width>> /\ g = Cbus[j + 1]
    BY <1>1
  <2>3. i # j
    BY <1>0, <1>2, <2>1, <2>2
  <2>4. Span(T[f]) = 8 * byte + width * (i - first)..8 * byte + width * (i - first) + width - 1
    BY <2>1 DEF Span
  <2>5. Span(T[g]) = 8 * byte + width * (j - first)..8 * byte + width * (j - first) + width - 1
    BY <2>2 DEF Span
  <2>6. CASE width = 4
    BY <1>0, <2>3, <2>4, <2>5, <2>6
  <2>7. CASE width = 8
    BY <1>0, <2>3, <2>4, <2>5, <2>7
  <2>. QED BY <1>0, <2>6, <2>7
<1>3. ASSUME NEW f \in DOMAIN T
      PROVE  T[f][1] \in Nat /\ T[f][2] \in Nat /\ Span(T[f]) \subseteq from..to
  <2>1. PICK i \in first..last : T[f] = <<8 * byte + width * (i - first), width>>
    BY <1>1
  <2>2. Span(T[f]) = 8 * byte + width * (i - first)..8 * byte + width * (i - first) + width - 1
    BY <2>1 DEF Span
  <2>3. ASSUME width = 4 PROVE Span(T[f]) \subseteq from..to
    BY <1>0, <2>2, <2>3
  <2>4. ASSUME width = 8 PROVE Span(T[f]) \subseteq from..to
    BY <1>0, <2>2, <2>4
  <2>5. T[f][1] \in Nat /\ T[f][2] \in Nat
    BY <1>0, <2>1, SMT
  <2>. QED BY <1>0, <2>3, <2>4, <2>5
<1>. QED BY <1>2, <1>3 DEF T, Sits

\* Where the parts of the builder's tables are.
LEMMA PartsSit ==
    /\ Sits(Common, (16..63) \cup {69, 70} \cup (72..79))
    /\ Sits(Isochronous, {80, 81}) /\ Sits(PullDowns, {82}) /\ Sits(Serial, {83})
    /\ Sits(UsbVersion, 96..111) /\ Sits(UseUsbVersion, {84})
    /\ Sits(Group01, 96..103) /\ Sits(Group23, 104..111) /\ Sits(Group232H, 96..111)
    /\ Sits(Places2232C, (0..4) \cup (8..12) \cup (160..167))
    /\ Sits(PlacesR, (0..3) \cup (88..95))
    /\ Sits(Places2232H, (0..3) \cup (8..11) \cup {15} \cup (192..199))
    /\ Sits(Places4232H, {3, 7, 11, 15} \cup (92..95) \cup (192..199))
    /\ Sits(Places232H, (0..4) \cup (8..10) \cup {15} \cup (240..247))
    /\ Sits([invert |-> At(11, 0, 8)], 88..95)
    /\ Sits(Pins(20, 4, 0, 3), 160..175) /\ Sits(Pins(22, 8, 4, 4), 176..183)
    /\ Sits(Pins(24, 4, 0, 9), 192..231) /\ Sits(Pins(26, 8, 0, 6), 208..263)
<1>1. Sits(Common, (16..63) \cup {69, 70} \cup (72..79))
  BY SMT DEF Sits, Span, At, Flag, Common
<1>2. Sits(Isochronous, {80, 81}) /\ Sits(PullDowns, {82}) /\ Sits(Serial, {83})
  BY SMT DEF Sits, Span, At, Flag, Isochronous, PullDowns, Serial
<1>3. Sits(UsbVersion, 96..111) /\ Sits(UseUsbVersion, {84})
  BY SMT DEF Sits, Span, At, Flag, UsbVersion, UseUsbVersion
<1>4. Sits(Group01, 96..103)
  BY SMT DEF Sits, Span, At, Flag, Group01
<1>5. Sits(Group23, 104..111)
  BY SMT DEF Sits, Span, At, Flag, Group23
<1>6. Sits(Group232H, 96..111)
  BY SMT DEF Sits, Span, At, Flag, Group232H
<1>7. Sits(Places2232C, (0..4) \cup (8..12) \cup (160..167))
  BY SMT DEF Sits, Span, At, Flag, Places2232C
<1>8. Sits(PlacesR, (0..3) \cup (88..95))
  BY SMT DEF Sits, Span, At, Flag, PlacesR
<1>9. Sits(Places2232H, (0..3) \cup (8..11) \cup {15} \cup (192..199))
  BY SMT DEF Sits, Span, At, Flag, Places2232H
<1>10. Sits(Places4232H, {3, 7, 11, 15} \cup (92..95) \cup (192..199))
  BY SMT DEF Sits, Span, At, Flag, Places4232H
<1>11. Sits(Places232H, (0..4) \cup (8..10) \cup {15} \cup (240..247))
  BY SMT DEF Sits, Span, At, Flag, Places232H
<1>12. Sits([invert |-> At(11, 0, 8)], 88..95)
  BY SMT DEF Sits, Span, At
<1>13. /\ Sits(Pins(20, 4, 0, 3), 160..175) /\ Sits(Pins(22, 8, 4, 4), 176..183)
       /\ Sits(Pins(24, 4, 0, 9), 192..231) /\ Sits(Pins(26, 8, 0, 6), 208..263)
  <2>1. PinRow(20, 4, 0, 3, 160, 175) /\ PinRow(22, 8, 4, 4, 176, 183)
        /\ PinRow(24, 4, 0, 9, 192, 231) /\ PinRow(26, 8, 0, 6, 208, 263)
    BY SMT DEF PinRow
  <2>2. Sits(Pins(20, 4, 0, 3), 160..175)
    <3>1. PICK b, w, x, l, u, v : b = 20 /\ w = 4 /\ x = 0 /\ l = 3 /\ u = 160 /\ v = 175
      OBVIOUS
    <3>2. PinRow(b, w, x, l, u, v)
      BY <2>1, <3>1, SMT
    <3>3. Sits(Pins(b, w, x, l), u..v)
      BY <3>2, PinsSit
    <3>. QED BY <3>1, <3>3, SMT
  <2>3. Sits(Pins(22, 8, 4, 4), 176..183)
    <3>1. PICK b, w, x, l, u, v : b = 22 /\ w = 8 /\ x = 4 /\ l = 4 /\ u = 176 /\ v = 183
      OBVIOUS
    <3>2. PinRow(b, w, x, l, u, v)
      BY <2>1, <3>1, SMT
    <3>3. Sits(Pins(b, w, x, l), u..v)
      BY <3>2, PinsSit
    <3>. QED BY <3>1, <3>3, SMT
  <2>4. Sits(Pins(24, 4, 0, 9), 192..231)
    <3>1. PICK b, w, x, l, u, v : b = 24 /\ w = 4 /\ x = 0 /\ l = 9 /\ u = 192 /\ v = 231
      OBVIOUS
    <3>2. PinRow(b, w, x, l, u, v)
      BY <2>1, <3>1, SMT
    <3>3. Sits(Pins(b, w, x, l), u..v)
      BY <3>2, PinsSit
    <3>. QED BY <3>1, <3>3, SMT
  <2>5. Sits(Pins(26, 8, 0, 6), 208..263)
    <3>1. PICK b, w, x, l, u, v : b = 26 /\ w = 8 /\ x = 0 /\ l = 6 /\ u = 208 /\ v = 263
      OBVIOUS
    <3>2. PinRow(b, w, x, l, u, v)
      BY <2>1, <3>1, SMT
    <3>3. Sits(Pins(b, w, x, l), u..v)
      BY <3>2, PinsSit
    <3>. QED BY <3>1, <3>3, SMT
  <2>. QED BY <2>2, <2>3, <2>4, <2>5
<1>. QED BY <1>1, <1>2, <1>3, <1>4, <1>5, <1>6, <1>7, <1>8, <1>9, <1>10, <1>11, <1>12, <1>13

\* The bits of a chip type's header that depend on the values.
HeaderBits(t) == ((0..111) \cup (160..8 * FreeStart(t) - 1)) \ FixedBits(t)

LEMMA SitBeside ==
    ASSUME NEW f, NEW g, NEW A, NEW B, NEW C, Sits(f, A), Sits(g, B), A \cap B = {}, C = A \cup B
    PROVE  Sits(f ++ g, C)
BY SitTogether

\* Part by part, no two values of a chip type share a bit.
LEMMA BuildSits ==
    ASSUME NEW t \in ChipTypes
    PROVE  Sits(BuildAt(t), HeaderBits(t))
<1>. DEFINE b1 == (16..63) \cup {69, 70} \cup (72..79)
            b2 == {80, 81}
            b3 == {82}
            b4 == {83}
            b5 == 96..111
            b6 == {84}
            b7 == 96..103
            b8 == 104..111
            b9 == 96..111
            b10 == (0..4) \cup (8..12) \cup (160..167)
            b11 == (0..3) \cup (88..95)
            b12 == (0..3) \cup (8..11) \cup {15} \cup (192..199)
            b13 == {3, 7, 11, 15} \cup (92..95) \cup (192..199)
            b14 == (0..4) \cup (8..10) \cup {15} \cup (240..247)
            b15 == 88..95
            b16 == 160..175
            b17 == 176..183
            b18 == 192..231
            b19 == 208..263
            r1 == b1 \cup b2
            r2 == r1 \cup b4
            r3 == r2 \cup b5
            r4 == r3 \cup b6
            r5 == r4 \cup b3
            r6 == r5 \cup b10
            r7 == r3 \cup b3
            r8 == r7 \cup b11
            r9 == r8 \cup b16
            r10 == r9 \cup b17
            r11 == r2 \cup b3
            r12 == r11 \cup b7
            r13 == r12 \cup b8
            r14 == r13 \cup b12
            r15 == r13 \cup b13
            r16 == r11 \cup b9
            r17 == r16 \cup b14
            r18 == r17 \cup b18
            r19 == b1 \cup b4
            r20 == r19 \cup b15
            r21 == r20 \cup b19
<1>1. /\ Sits(Common, b1) /\ Sits(Isochronous, b2) /\ Sits(PullDowns, b3)
      /\ Sits(Serial, b4) /\ Sits(UsbVersion, b5) /\ Sits(UseUsbVersion, b6)
      /\ Sits(Group01, b7) /\ Sits(Group23, b8) /\ Sits(Group232H, b9)
      /\ Sits(Places2232C, b10) /\ Sits(PlacesR, b11) /\ Sits(Places2232H, b12)
      /\ Sits(Places4232H, b13) /\ Sits(Places232H, b14) /\ Sits([invert |-> At(11, 0, 8)], b15)
      /\ Sits(Pins(20, 4, 0, 3), b16) /\ Sits(Pins(22, 8, 4, 4), b17) /\ Sits(Pins(24, 4, 0, 9), b18)
      /\ Sits(Pins(26, 8, 0, 6), b19)
  BY PartsSit
<1>. HIDE DEF b1, b2, b3, b4, b5, b6, b7, b8, b9, b10, b11, b12, b13, b14, b15, b16, b17, b18, b19, r1, r2, r3, r4, r5, r6, r7, r8, r9, r10, r11, r12, r13, r14, r15, r16, r17, r18, r19, r20, r21
<1>2. Sits(Common ++ Isochronous, r1)
  <2>1. b1 \cap b2 = {}
    BY SMT DEF b1, b2, r1
  <2>. QED BY <1>1, <2>1, SitBeside DEF r1
<1>3. Sits(Common ++ Isochronous ++ Serial, r2)
  <2>1. r1 \cap b4 = {}
    BY SMT DEF b1, b2, b4, r1, r2
  <2>. QED BY <1>1, <1>2, <2>1, SitBeside DEF r2
<1>4. Sits(Common ++ Isochronous ++ Serial ++ UsbVersion, r3)
  <2>1. r2 \cap b5 = {}
    BY SMT DEF b1, b2, b4, b5, r1, r2, r3
  <2>. QED BY <1>1, <1>3, <2>1, SitBeside DEF r3
<1>5. Sits(Common ++ Isochronous ++ Serial ++ UsbVersion ++ UseUsbVersion, r4)
  <2>1. r3 \cap b6 = {}
    BY SMT DEF b1, b2, b4, b5, b6, r1, r2, r3, r4
  <2>. QED BY <1>1, <1>4, <2>1, SitBeside DEF r4
<1>6. Sits(Common ++ Isochronous ++ Serial ++ UsbVersion ++ UseUsbVersion ++ PullDowns, r5)
  <2>1. r4 \cap b3 = {}
    BY SMT DEF b1, b2, b3, b4, b5, b6, r1, r2, r3, r4, r5
  <2>. QED BY <1>1, <1>5, <2>1, SitBeside DEF r5
<1>7. Sits(Common ++ Isochronous ++ Serial ++ UsbVersion ++ UseUsbVersion ++ PullDowns ++ Places2232C, r6)
  <2>1. r5 \cap b10 = {}
    BY SMT DEF b1, b2, b3, b4, b5, b6, b10, r1, r2, r3, r4, r5, r6
  <2>. QED BY <1>1, <1>6, <2>1, SitBeside DEF r6
<1>8. Sits(Common ++ Isochronous ++ Serial ++ UsbVersion ++ PullDowns, r7)
  <2>1. r3 \cap b3 = {}
    BY SMT DEF b1, b2, b3, b4, b5, r1, r2, r3, r7
  <2>. QED BY <1>1, <1>4, <2>1, SitBeside DEF r7
<1>9. Sits(Common ++ Isochronous ++ Serial ++ UsbVersion ++ PullDowns ++ PlacesR, r8)
  <2>1. r7 \cap b11 = {}
    BY SMT DEF b1, b2, b3, b4, b5, b11, r1, r2, r3, r7, r8
  <2>. QED BY <1>1, <1>8, <2>1, SitBeside DEF r8
<1>10. Sits(Common ++ Isochronous ++ Serial ++ UsbVersion ++ PullDowns ++ PlacesR ++ Pins(20, 4, 0, 3), r9)
  <2>1. r8 \cap b16 = {}
    BY SMT DEF b1, b2, b3, b4, b5, b11, b16, r1, r2, r3, r7, r8, r9
  <2>. QED BY <1>1, <1>9, <2>1, SitBeside DEF r9
<1>11. Sits(Common ++ Isochronous ++ Serial ++ UsbVersion ++ PullDowns ++ PlacesR ++ Pins(20, 4, 0, 3) ++ Pins(22, 8, 4, 4), r10)
  <2>1. r9 \cap b17 = {}
    BY SMT DEF b1, b2, b3, b4, b5, b11, b16, b17, r1, r2, r3, r7, r8, r9, r10
  <2>. QED BY <1>1, <1>10, <2>1, SitBeside DEF r10
<1>12. Sits(Common ++ Isochronous ++ Serial ++ PullDowns, r11)
  <2>1. r2 \cap b3 = {}
    BY SMT DEF b1, b2, b3, b4, r1, r2, r11
  <2>. QED BY <1>1, <1>3, <2>1, SitBeside DEF r11
<1>13. Sits(Common ++ Isochronous ++ Serial ++ PullDowns ++ Group01, r12)
  <2>1. r11 \cap b7 = {}
    BY SMT DEF b1, b2, b3, b4, b7, r1, r2, r11, r12
  <2>. QED BY <1>1, <1>12, <2>1, SitBeside DEF r12
<1>14. Sits(Common ++ Isochronous ++ Serial ++ PullDowns ++ Group01 ++ Group23, r13)
  <2>1. r12 \cap b8 = {}
    BY SMT DEF b1, b2, b3, b4, b7, b8, r1, r2, r11, r12, r13
  <2>. QED BY <1>1, <1>13, <2>1, SitBeside DEF r13
<1>15. Sits(Common ++ Isochronous ++ Serial ++ PullDowns ++ Group01 ++ Group23 ++ Places2232H, r14)
  <2>1. r13 \cap b12 = {}
    BY SMT DEF b1, b2, b3, b4, b7, b8, b12, r1, r2, r11, r12, r13, r14
  <2>. QED BY <1>1, <1>14, <2>1, SitBeside DEF r14
<1>16. Sits(Common ++ Isochronous ++ Serial ++ PullDowns ++ Group01 ++ Group23 ++ Places4232H, r15)
  <2>1. r13 \cap b13 = {}
    BY SMT DEF b1, b2, b3, b4, b7, b8, b13, r1, r2, r11, r12, r13, r15
  <2>. QED BY <1>1, <1>14, <2>1, SitBeside DEF r15
<1>17. Sits(Common ++ Isochronous ++ Serial ++ PullDowns ++ Group232H, r16)
  <2>1. r11 \cap b9 = {}
    BY SMT DEF b1, b2, b3, b4, b9, r1, r2, r11, r16
  <2>. QED BY <1>1, <1>12, <2>1, SitBeside DEF r16
<1>18. Sits(Common ++ Isochronous ++ Serial ++ PullDowns ++ Group232H ++ Places232H, r17)
  <2>1. r16 \cap b14 = {}
    BY SMT DEF b1, b2, b3, b4, b9, b14, r1, r2, r11, r16, r17
  <2>. QED BY <1>1, <1>17, <2>1, SitBeside DEF r17
<1>19. Sits(Common ++ Isochronous ++ Serial ++ PullDowns ++ Group232H ++ Places232H ++ Pins(24, 4, 0, 9), r18)
  <2>1. r17 \cap b18 = {}
    BY SMT DEF b1, b2, b3, b4, b9, b14, b18, r1, r2, r11, r16, r17, r18
  <2>. QED BY <1>1, <1>18, <2>1, SitBeside DEF r18
<1>20. Sits(Common ++ Serial, r19)
  <2>1. b1 \cap b4 = {}
    BY SMT DEF b1, b4, r19
  <2>. QED BY <1>1, <2>1, SitBeside DEF r19
<1>21. Sits(Common ++ Serial ++ [invert |-> At(11, 0, 8)], r20)
  <2>1. r19 \cap b15 = {}
    BY SMT DEF b1, b4, b15, r19, r20
  <2>. QED BY <1>1, <1>20, <2>1, SitBeside DEF r20
<1>22. Sits(Common ++ Serial ++ [invert |-> At(11, 0, 8)] ++ Pins(26, 8, 0, 6), r21)
  <2>1. r20 \cap b19 = {}
    BY SMT DEF b1, b4, b15, b19, r19, r20, r21
  <2>. QED BY <1>1, <1>21, <2>1, SitBeside DEF r21
<1>23. CASE t = AM
  <2>1. BuildAt(t) = Common
    BY <1>23 DEF BuildAt, AM, BM, C2232, R, H2232, H4232, H232, X230
  <2>2. b1 \subseteq HeaderBits(t)
    BY <1>23, SMT DEF HeaderBits, FixedBits, FreeStart, AM, BM, C2232, R, H2232, H4232, H232, X230, b1
  <2>. QED BY <1>1, <2>1, <2>2, SitWithin
<1>24. CASE t = BM
  <2>1. BuildAt(t) = Common ++ Isochronous ++ Serial ++ UsbVersion ++ UseUsbVersion
    BY <1>24 DEF BuildAt, AM, BM, C2232, R, H2232, H4232, H232, X230
  <2>2. r4 \subseteq HeaderBits(t)
    BY <1>24, SMT DEF HeaderBits, FixedBits, FreeStart, AM, BM, C2232, R, H2232, H4232, H232, X230, b1, b2, b4, b5, b6, r1, r2, r3, r4
  <2>. QED BY <1>5, <2>1, <2>2, SitWithin
<1>25. CASE t = C2232
  <2>1. BuildAt(t) = Common ++ Isochronous ++ Serial ++ UsbVersion ++ UseUsbVersion ++ PullDowns ++ Places2232C
    BY <1>25 DEF BuildAt, AM, BM, C2232, R, H2232, H4232, H232, X230
  <2>2. r6 \subseteq HeaderBits(t)
    BY <1>25, SMT DEF HeaderBits, FixedBits, FreeStart, AM, BM, C2232, R, H2232, H4232, H232, X230, b1, b2, b3, b4, b5, b6, b10, r1, r2, r3, r4, r5, r6
  <2>. QED BY <1>7, <2>1, <2>2, SitWithin
<1>26. CASE t = R
  <2>1. BuildAt(t) = Common ++ Isochronous ++ Serial ++ UsbVersion ++ PullDowns ++ PlacesR ++ Pins(20, 4, 0, 3) ++ Pins(22, 8, 4, 4)
    BY <1>26 DEF BuildAt, AM, BM, C2232, R, H2232, H4232, H232, X230
  <2>2. r10 \subseteq HeaderBits(t)
    BY <1>26, SMT DEF HeaderBits, FixedBits, FreeStart, AM, BM, C2232, R, H2232, H4232, H232, X230, b1, b2, b3, b4, b5, b11, b16, b17, r1, r2, r3, r7, r8, r9, r10
  <2>. QED BY <1>11, <2>1, <2>2, SitWithin
<1>27. CASE t = H2232
  <2>1. BuildAt(t) = Common ++ Isochronous ++ Serial ++ PullDowns ++ Group01 ++ Group23 ++ Places2232H
    BY <1>27 DEF BuildAt, AM, BM, C2232, R, H2232, H4232, H232, X230
  <2>2. r14 \subseteq HeaderBits(t)
    BY <1>27, SMT DEF HeaderBits, FixedBits, FreeStart, AM, BM, C2232, R, H2232, H4232, H232, X230, b1, b2, b3, b4, b7, b8, b12, r1, r2, r11, r12, r13, r14
  <2>. QED BY <1>15, <2>1, <2>2, SitWithin
<1>28. CASE t = H4232
  <2>1. BuildAt(t) = Common ++ Isochronous ++ Serial ++ PullDowns ++ Group01 ++ Group23 ++ Places4232H
    BY <1>28 DEF BuildAt, AM, BM, C2232, R, H2232, H4232, H232, X230
  <2>2. r15 \subseteq HeaderBits(t)
    BY <1>28, SMT DEF HeaderBits, FixedBits, FreeStart, AM, BM, C2232, R, H2232, H4232, H232, X230, b1, b2, b3, b4, b7, b8, b13, r1, r2, r11, r12, r13, r15
  <2>. QED BY <1>16, <2>1, <2>2, SitWithin
<1>29. CASE t = H232
  <2>1. BuildAt(t) = Common ++ Isochronous ++ Serial ++ PullDowns ++ Group232H ++ Places232H ++ Pins(24, 4, 0, 9)
    BY <1>29 DEF BuildAt, AM, BM, C2232, R, H2232, H4232, H232, X230
  <2>2. r18 \subseteq HeaderBits(t)
    BY <1>29, SMT DEF HeaderBits, FixedBits, FreeStart, AM, BM, C2232, R, H2232, H4232, H232, X230, b1, b2, b3, b4, b9, b14, b18, r1, r2, r11, r16, r17, r18
  <2>. QED BY <1>19, <2>1, <2>2, SitWithin
<1>30. CASE t = X230
  <2>1. BuildAt(t) = Common ++ Serial ++ [invert |-> At(11, 0, 8)] ++ Pins(26, 8, 0, 6)
    BY <1>30 DEF BuildAt, AM, BM, C2232, R, H2232, H4232, H232, X230
  <2>2. r21 \subseteq HeaderBits(t)
    BY <1>30, SMT DEF HeaderBits, FixedBits, FreeStart, AM, BM, C2232, R, H2232, H4232, H232, X230, b1, b4, b15, b19, r19, r20, r21
  <2>. QED BY <1>22, <2>1, <2>2, SitWithin
<1>. QED BY <1>23, <1>24, <1>25, <1>26, <1>27, <1>28, <1>29, <1>30 DEF ChipTypes

-----------------------------------------------------------------------------
(* Decoding: the same places.                                              *)

\* The width in which a value is read.
Width(t, f) ==
    CASE f \in Flags -> 1
      [] f \in Drives -> 2
      [] f \in ChannelTypes -> IF t = H232 THEN 4 ELSE 3
      [] f \in CbusFields -> IF t = X230 THEN 8 ELSE 4
      [] f \in {"max_power", "invert", "chip"} -> 8
      [] OTHER -> 16

\* The values of a table are read from where they begin, and no further than they reach.
Reads(t, T, D) ==
    \A f \in DOMAIN T \ Undecoded(t) :
        /\ f \in Fields /\ f \in DOMAIN D
        /\ T[f][1] \in Nat /\ T[f][2] \in Nat
        /\ D[f][1] = T[f][1] /\ D[f][2] = Width(t, f) /\ Width(t, f) <= T[f][2]

LEMMA ReadsBeside ==
    ASSUME NEW t, NEW f, NEW g, NEW D, Reads(t, f, D), Reads(t, g, D)
    PROVE  Reads(t, f ++ g, D)
BY DEF Reads, ++

\* A value that all types decode is decoded from the same place.
LEMMA ReadsFirst ==
    ASSUME NEW t, NEW T, NEW D, NEW E, Reads(t, T, D)
    PROVE  Reads(t, T, D ++ E)
BY DEF Reads, ++

LEMMA ReadsSecond ==
    ASSUME NEW t, NEW T, NEW D, NEW E, Reads(t, T, E), DOMAIN T \cap DOMAIN D = {}
    PROVE  Reads(t, T, D ++ E)
BY DEF Reads, ++

\* The kinds of values are different ones.
LEMMA Kinds ==
    /\ CbusFields = {"cbus_function_0", "cbus_function_1", "cbus_function_2", "cbus_function_3",
                     "cbus_function_4", "cbus_function_5", "cbus_function_6", "cbus_function_7",
                     "cbus_function_8", "cbus_function_9"}
    /\ Flags \cap Drives = {} /\ Flags \cap ChannelTypes = {} /\ Flags \cap CbusFields = {} /\ Flags \cap Numbers = {}
    /\ Drives \cap ChannelTypes = {} /\ Drives \cap CbusFields = {} /\ Drives \cap Numbers = {}
    /\ ChannelTypes \cap CbusFields = {} /\ ChannelTypes \cap Numbers = {} /\ CbusFields \cap Numbers = {}
<1>1. CbusFields = {"cbus_function_0", "cbus_function_1", "cbus_function_2", "cbus_function_3",
                     "cbus_function_4", "cbus_function_5", "cbus_function_6", "cbus_function_7",
                     "cbus_function_8", "cbus_function_9"}
  BY SMT DEF CbusFields, Cbus
<1>2. Flags \cap Drives = {} /\ Flags \cap ChannelTypes = {}
  BY SMT DEF Flags, Drives, ChannelTypes
<1>3. Flags \cap CbusFields = {}
  BY <1>1, SMT DEF Flags
<1>4. Flags \cap Numbers = {}
  BY SMT DEF Flags, Numbers
<1>5. Drives \cap ChannelTypes = {} /\ Drives \cap CbusFields = {} /\ Drives \cap Numbers = {}
  BY <1>1, SMT DEF Drives, ChannelTypes, Numbers
<1>6. ChannelTypes \cap CbusFields = {} /\ ChannelTypes \cap Numbers = {} /\ CbusFields \cap Numbers = {}
  BY <1>1, SMT DEF ChannelTypes, Numbers
<1>. QED BY <1>1, <1>2, <1>3, <1>4, <1>5, <1>6

LEMMA WidthIs ==
    ASSUME NEW t
    PROVE  /\ \A f \in Flags : Width(t, f) = 1
           /\ \A f \in Drives : Width(t, f) = 2
           /\ \A f \in ChannelTypes : Width(t, f) = IF t = H232 THEN 4 ELSE 3
           /\ \A f \in CbusFields : Width(t, f) = IF t = X230 THEN 8 ELSE 4
           /\ \A f \in {"max_power", "invert", "chip"} : Width(t, f) = 8
           /\ \A f \in {"vendor_id", "product_id", "release_number", "usb_version"} : Width(t, f) = 16
<1>1. {"max_power", "invert", "chip"} \subseteq Numbers
  BY Zenon DEF Numbers
<1>2. {"vendor_id", "product_id", "release_number", "usb_version"} \subseteq Numbers
      /\ {"vendor_id", "product_id", "release_number", "usb_version"} \cap {"max_power", "invert", "chip"} = {}
  BY SMT DEF Numbers
<1>3. \A f \in Flags : Width(t, f) = 1
  BY <1>1, Kinds DEF Width
<1>4. \A f \in Drives : Width(t, f) = 2
  BY <1>1, Kinds DEF Width
<1>5. \A f \in ChannelTypes : Width(t, f) = IF t = H232 THEN 4 ELSE 3
  BY <1>1, Kinds DEF Width
<1>6. \A f \in CbusFields : Width(t, f) = IF t = X230 THEN 8 ELSE 4
  BY <1>1, Kinds DEF Width
<1>7. \A f \in {"max_power", "invert", "chip"} : Width(t, f) = 8
  BY <1>1, Kinds DEF Width
<1>8. \A f \in {"vendor_id", "product_id", "release_number", "usb_version"} : Width(t, f) = 16
  BY <1>2, Kinds DEF Width
<1>. QED BY <1>3, <1>4, <1>5, <1>6, <1>7, <1>8

LEMMA CommonRead ==
    ASSUME NEW t \in ChipTypes
    PROVE  /\ Reads(t, Common, DecodeCommon) /\ Reads(t, Isochronous, DecodeCommon)
           /\ Reads(t, Serial, DecodeCommon) /\ Reads(t, PullDowns, DecodeCommon)
           /\ Reads(t, UsbVersion, DecodeCommon) /\ Reads(t, UseUsbVersion, DecodeCommon)
<1>0. /\ {"vendor_id", "product_id", "release_number", "usb_version", "max_power", "invert", "chip"} \subseteq Fields
      /\ Flags \subseteq Fields /\ Drives \subseteq Fields /\ ChannelTypes \subseteq Fields /\ CbusFields \subseteq Fields
  BY Zenon DEF Fields, Numbers
<1>1. Reads(t, Common, DecodeCommon)
  BY <1>0, WidthIs, SMT DEF Reads, Common, DecodeCommon, At, Flag, Flags
<1>2. Reads(t, Isochronous, DecodeCommon) /\ Reads(t, Serial, DecodeCommon) /\ Reads(t, PullDowns, DecodeCommon)
  BY <1>0, WidthIs, SMT DEF Reads, Isochronous, Serial, PullDowns, DecodeCommon, At, Flag, Flags
<1>3. Reads(t, UsbVersion, DecodeCommon) /\ Reads(t, UseUsbVersion, DecodeCommon)
  BY <1>0, WidthIs, SMT DEF Reads, UsbVersion, UseUsbVersion, DecodeCommon, At, Flag, Flags
<1>. QED BY <1>1, <1>2, <1>3

\* T has the pin functions first..last, of so many bits each, from a byte on.
HasPins(T, byte, width, first, last) ==
    /\ \A f : f \in DOMAIN T <=> \E i \in first..last : f = Cbus[i + 1]
    /\ \A i \in first..last : T[Cbus[i + 1]][1] = 8 * byte + width * (i - first) /\ T[Cbus[i + 1]][2] = width

LEMMA PinsAre ==
    ASSUME NEW byte \in Nat, NEW width \in {4, 8}, NEW first \in 0..9, NEW last \in 0..9
    PROVE  HasPins(Pins(byte, width, first, last), byte, width, first, last)
<1>1. \A j \in 1..10 : PinOf(Cbus[j]) = j
  BY SMT DEF PinOf, Cbus
<1>2. ASSUME NEW i \in first..last
      PROVE  /\ Pins(byte, width, first, last)[Cbus[i + 1]][1] = 8 * byte + width * (i - first)
             /\ Pins(byte, width, first, last)[Cbus[i + 1]][2] = width
  <2>1. PinOf(Cbus[i + 1]) - 1 - first = i - first
    BY <1>1
  <2>2. Pins(byte, width, first, last)[Cbus[i + 1]] = <<8 * byte + width * (PinOf(Cbus[i + 1]) - 1 - first), width>>
    BY DEF Pins
  <2>. QED BY <2>1, <2>2
<1>3. \A f : f \in DOMAIN Pins(byte, width, first, last) <=> \E i \in first..last : f = Cbus[i + 1]
  BY DEF Pins
<1>. QED BY <1>2, <1>3 DEF HasPins

\* The pins of one row that are read lie where those of another one do.
PinsMeet(t, byte, width, first, last, byte2, width2, first2, last2) ==
    \A i \in first..last : Cbus[i + 1] \notin Undecoded(t) =>
        i \in first2..last2 /\ 8 * byte + width * (i - first) = 8 * byte2 + width2 * (i - first2)

\* Whose pins are read from the same places.
LEMMA PinsRead ==
    ASSUME NEW t \in ChipTypes,
           NEW T, NEW byte \in Nat, NEW width \in {4, 8}, NEW first \in 0..9, NEW last \in 0..9,
           HasPins(T, byte, width, first, last),
           NEW D, NEW byte2 \in Nat, NEW width2 \in {4, 8}, NEW first2 \in 0..9, NEW last2 \in 0..9,
           HasPins(D, byte2, width2, first2, last2),
           width2 = IF t = X230 THEN 8 ELSE 4, width2 <= width,
           PinsMeet(t, byte, width, first, last, byte2, width2, first2, last2)
    PROVE  Reads(t, T, D)
<1>. SUFFICES ASSUME NEW f \in DOMAIN T \ Undecoded(t)
              PROVE  /\ f \in Fields /\ f \in DOMAIN D
                     /\ T[f][1] \in Nat /\ T[f][2] \in Nat
                     /\ D[f][1] = T[f][1] /\ D[f][2] = Width(t, f) /\ Width(t, f) <= T[f][2]
  BY DEF Reads
<1>1. PICK i \in first..last : f = Cbus[i + 1]
  BY DEF HasPins
<1>2. f \in CbusFields /\ f \in Fields
  <2>1. PICK j \in 1..10 : j = i + 1
    BY SMT
  <2>2. f = Cbus[j]
    BY <1>1, <2>1
  <2>3. f \in CbusFields
    BY <2>2, Zenon DEF CbusFields
  <2>. QED BY <2>3, Zenon DEF Fields
<1>3. Width(t, f) = width2
  BY <1>2, WidthIs
<1>4. i \in first2..last2 /\ 8 * byte + width * (i - first) = 8 * byte2 + width2 * (i - first2)
  BY <1>1 DEF PinsMeet
<1>5. T[f][1] = 8 * byte + width * (i - first) /\ T[f][2] = width
  BY <1>1 DEF HasPins
<1>6. f \in DOMAIN D /\ D[f][1] = 8 * byte2 + width2 * (i - first2) /\ D[f][2] = width2
  BY <1>1, <1>4 DEF HasPins
<1>7. 8 * byte + width * (i - first) \in Nat
  BY <1>1, SMT
<1>. QED BY <1>2, <1>3, <1>4, <1>5, <1>6, <1>7

LEMMA GroupsAre ==
    /\ \A byte, shift : DOMAIN DecodeGroup(Group0, byte, shift) = {"group0_drive", "group0_slew", "group0_schmitt"}
    /\ \A byte, shift : DOMAIN DecodeGroup(Group1, byte, shift) = {"group1_drive", "group1_slew", "group1_schmitt"}
    /\ \A byte, shift : DOMAIN DecodeGroup(Group2, byte, shift) = {"group2_drive", "group2_slew", "group2_schmitt"}
    /\ \A byte, shift : DOMAIN DecodeGroup(Group3, byte, shift) = {"group3_drive", "group3_slew", "group3_schmitt"}
BY DEF DecodeGroup, Group0, Group1, Group2, Group3

LEMMA GroupsRead ==
    ASSUME NEW t \in ChipTypes
    PROVE  /\ Reads(t, [group0_drive |-> At(12, 0, 2), group0_slew |-> Flag(12, 2), group0_schmitt |-> Flag(12, 3)],
                    DecodeGroup(Group0, 12, 0))
           /\ Reads(t, [group1_drive |-> At(12, 4, 2), group1_slew |-> Flag(12, 6), group1_schmitt |-> Flag(12, 7)],
                    DecodeGroup(Group1, 12, 4))
           /\ Reads(t, [group1_drive |-> At(13, 0, 2), group1_slew |-> Flag(13, 2), group1_schmitt |-> Flag(13, 3)],
                    DecodeGroup(Group1, 13, 0))
           /\ Reads(t, [group2_drive |-> At(13, 0, 2), group2_slew |-> Flag(13, 2), group2_schmitt |-> Flag(13, 3)],
                    DecodeGroup(Group2, 13, 0))
           /\ Reads(t, [group3_drive |-> At(13, 4, 2), group3_slew |-> Flag(13, 6), group3_schmitt |-> Flag(13, 7)],
                    DecodeGroup(Group3, 13, 4))
<1>0. Flags \subseteq Fields /\ Drives \subseteq Fields
  BY Zenon DEF Fields
<1>1. Reads(t, [group0_drive |-> At(12, 0, 2), group0_slew |-> Flag(12, 2), group0_schmitt |-> Flag(12, 3)],
            DecodeGroup(Group0, 12, 0))
  BY <1>0, WidthIs, SMT DEF Reads, DecodeGroup, Group0, At, Flag, Flags, Drives
<1>2. Reads(t, [group1_drive |-> At(12, 4, 2), group1_slew |-> Flag(12, 6), group1_schmitt |-> Flag(12, 7)],
            DecodeGroup(Group1, 12, 4))
  BY <1>0, WidthIs, SMT DEF Reads, DecodeGroup, Group1, At, Flag, Flags, Drives
<1>3. Reads(t, [group1_drive |-> At(13, 0, 2), group1_slew |-> Flag(13, 2), group1_schmitt |-> Flag(13, 3)],
            DecodeGroup(Group1, 13, 0))
  BY <1>0, WidthIs, SMT DEF Reads, DecodeGroup, Group1, At, Flag, Flags, Drives
<1>4. Reads(t, [group2_drive |-> At(13, 0, 2), group2_slew |-> Flag(13, 2), group2_schmitt |-> Flag(13, 3)],
            DecodeGroup(Group2, 13, 0))
  BY <1>0, WidthIs, SMT DEF Reads, DecodeGroup, Group2, At, Flag, Flags, Drives
<1>5. Reads(t, [group3_drive |-> At(13, 4, 2), group3_slew |-> Flag(13, 6), group3_schmitt |-> Flag(13, 7)],
            DecodeGroup(Group3, 13, 4))
  BY <1>0, WidthIs, SMT DEF Reads, DecodeGroup, Group3, At, Flag, Flags, Drives
<1>. QED BY <1>1, <1>2, <1>3, <1>4, <1>5

LEMMA ReadsApart ==
    ASSUME NEW t, NEW T, NEW A, NEW B, NEW D, Reads(t, A, D), Reads(t, B, D),
           \A f \in DOMAIN T : (f \in DOMAIN A /\ T[f] = A[f]) \/ (f \in DOMAIN B /\ T[f] = B[f])
    PROVE  Reads(t, T, D)
BY DEF Reads

LEMMA Subsets ==
    /\ {"vendor_id", "product_id", "release_number", "usb_version", "max_power", "invert", "chip"} \subseteq Fields
    /\ Flags \subseteq Fields /\ Drives \subseteq Fields /\ ChannelTypes \subseteq Fields /\ CbusFields \subseteq Fields
BY Zenon DEF Fields, Numbers

LEMMA Read2232C ==
    ASSUME NEW t, t = C2232
    PROVE  Reads(t, Places2232C, DecodeCommon ++ Decode2232C)
<1>1. Reads(t, Places2232C, Decode2232C)
  BY Subsets, WidthIs, SMT DEF Reads, Places2232C, Decode2232C, At, Flag, Flags, ChannelTypes, C2232, H232
<1>2. DOMAIN Places2232C \cap DOMAIN DecodeCommon = {}
  BY SMT DEF Places2232C, DecodeCommon
<1>. QED BY <1>1, <1>2, ReadsSecond

LEMMA ReadR ==
    ASSUME NEW t, t = R
    PROVE  /\ Reads(t, PlacesR, DecodeCommon ++ DecodeR)
           /\ Reads(t, Pins(20, 4, 0, 3), DecodeCommon ++ DecodeR)
           /\ Reads(t, Pins(22, 8, 4, 4), DecodeCommon ++ DecodeR)
<1>. DEFINE B == [channel_a_driver |-> Flag(0, 3), high_current |-> Flag(0, 2), external_oscillator |-> Flag(0, 1),
                  chip |-> At(22, 0, 8), invert |-> At(11, 0, 8)]
            P == Pins(20, 4, 0, 4)
            P1 == Pins(20, 4, 0, 3)
            P2 == Pins(22, 8, 4, 4)
<1>1. Reads(t, PlacesR, B)
  BY Subsets, WidthIs, SMT DEF Reads, PlacesR, At, Flag, Flags, ChannelTypes, R, H232, X230, Undecoded
<1>2. DOMAIN PlacesR \cap DOMAIN DecodeCommon = {}
  BY SMT DEF PlacesR, DecodeCommon
<1>3. DOMAIN B = {"channel_a_driver", "high_current", "external_oscillator", "chip", "invert"}
  BY SMT
<1>4. HasPins(P, 20, 4, 0, 4) /\ HasPins(P1, 20, 4, 0, 3) /\ HasPins(P2, 22, 8, 4, 4)
  BY PinsAre, SMT
<1>5. DecodeR = B ++ P
  BY DEF DecodeR
<1>. HIDE DEF B, P, P1, P2
<1>6. Reads(t, P1, P) /\ Reads(t, P2, P)
  <2>1. Reads(t, P1, P)
    <3>1. PICK b, w, x, l, c, v, y, m : b = 20 /\ w = 4 /\ x = 0 /\ l = 3 /\ c = 20 /\ v = 4 /\ y = 0 /\ m = 4
      OBVIOUS
    <3>2. HasPins(P1, b, w, x, l) /\ HasPins(P, c, v, y, m)
      BY <1>4, <3>1
    <3>3. /\ b \in Nat /\ w \in {4, 8} /\ x \in 0..9 /\ l \in 0..9
          /\ c \in Nat /\ v \in {4, 8} /\ y \in 0..9 /\ m \in 0..9 /\ v <= w
      BY <3>1, SMT
    <3>4. v = IF t = X230 THEN 8 ELSE 4
      BY <3>1, SMT DEF R, H232, X230
    <3>5. PinsMeet(t, b, w, x, l, c, v, y, m)
      BY <3>1, SMT DEF PinsMeet
    <3>6. t \in ChipTypes
      BY DEF ChipTypes
    <3>. QED BY <3>2, <3>3, <3>4, <3>5, <3>6, PinsRead, ZenonT(60)
  <2>2. Reads(t, P2, P)
    <3>1. PICK b, w, x, l, c, v, y, m : b = 22 /\ w = 8 /\ x = 4 /\ l = 4 /\ c = 20 /\ v = 4 /\ y = 0 /\ m = 4
      OBVIOUS
    <3>2. HasPins(P2, b, w, x, l) /\ HasPins(P, c, v, y, m)
      BY <1>4, <3>1
    <3>3. /\ b \in Nat /\ w \in {4, 8} /\ x \in 0..9 /\ l \in 0..9
          /\ c \in Nat /\ v \in {4, 8} /\ y \in 0..9 /\ m \in 0..9 /\ v <= w
      BY <3>1, SMT
    <3>4. v = IF t = X230 THEN 8 ELSE 4
      BY <3>1, SMT DEF R, H232, X230
    <3>5. PinsMeet(t, b, w, x, l, c, v, y, m)
      BY <3>1, SMT DEF PinsMeet
    <3>6. t \in ChipTypes
      BY DEF ChipTypes
    <3>. QED BY <3>2, <3>3, <3>4, <3>5, <3>6, PinsRead, ZenonT(60)
  <2>. QED BY <2>1, <2>2
<1>7. DOMAIN P1 \subseteq CbusFields /\ DOMAIN P2 \subseteq CbusFields
  BY <1>4 DEF HasPins, CbusFields
<1>8. CbusFields \cap DOMAIN B = {} /\ CbusFields \cap DOMAIN DecodeCommon = {}
  BY <1>3, Kinds, SMT DEF DecodeCommon
<1>9. Reads(t, P1, B ++ P) /\ Reads(t, P2, B ++ P) /\ Reads(t, PlacesR, B ++ P)
  BY <1>1, <1>6, <1>7, <1>8, ReadsFirst, ReadsSecond
<1>. QED BY <1>2, <1>5, <1>7, <1>8, <1>9, ReadsSecond DEF P1, P2

\* The groups of pins of a 2232H and a 4232H.
LEMMA ReadGroups ==
    ASSUME NEW t \in ChipTypes
    PROVE  Reads(t, Group01, DecodeH) /\ Reads(t, Group23, DecodeH)
<1>. DEFINE B == [channel_a_driver |-> Flag(0, 3), channel_b_driver |-> Flag(1, 3), chip |-> At(24, 0, 8)]
            D0 == DecodeGroup(Group0, 12, 0)
            D1 == DecodeGroup(Group1, 12, 4)
            D2 == DecodeGroup(Group2, 13, 0)
            D3 == DecodeGroup(Group3, 13, 4)
            G0 == [group0_drive |-> At(12, 0, 2), group0_slew |-> Flag(12, 2), group0_schmitt |-> Flag(12, 3)]
            G1 == [group1_drive |-> At(12, 4, 2), group1_slew |-> Flag(12, 6), group1_schmitt |-> Flag(12, 7)]
            G2 == [group2_drive |-> At(13, 0, 2), group2_slew |-> Flag(13, 2), group2_schmitt |-> Flag(13, 3)]
            G3 == [group3_drive |-> At(13, 4, 2), group3_slew |-> Flag(13, 6), group3_schmitt |-> Flag(13, 7)]
<1>1. \A f \in DOMAIN Group01 : (f \in DOMAIN G0 /\ Group01[f] = G0[f]) \/ (f \in DOMAIN G1 /\ Group01[f] = G1[f])
  BY SMT DEF Group01
<1>2. \A f \in DOMAIN Group23 : (f \in DOMAIN G2 /\ Group23[f] = G2[f]) \/ (f \in DOMAIN G3 /\ Group23[f] = G3[f])
  BY SMT DEF Group23
<1>3. Reads(t, G0, D0) /\ Reads(t, G1, D1) /\ Reads(t, G2, D2) /\ Reads(t, G3, D3)
  BY GroupsRead
<1>4. /\ DOMAIN B = {"channel_a_driver", "channel_b_driver", "chip"}
      /\ DOMAIN G0 = {"group0_drive", "group0_slew", "group0_schmitt"}
      /\ DOMAIN G1 = {"group1_drive", "group1_slew", "group1_schmitt"}
      /\ DOMAIN G2 = {"group2_drive", "group2_slew", "group2_schmitt"}
      /\ DOMAIN G3 = {"group3_drive", "group3_slew", "group3_schmitt"}
  BY SMT
<1>5. /\ DOMAIN D0 = {"group0_drive", "group0_slew", "group0_schmitt"}
      /\ DOMAIN D1 = {"group1_drive", "group1_slew", "group1_schmitt"}
      /\ DOMAIN D2 = {"group2_drive", "group2_slew", "group2_schmitt"}
      /\ DOMAIN D3 = {"group3_drive", "group3_slew", "group3_schmitt"}
  BY GroupsAre
<1>6. DecodeH = B ++ D0 ++ D1 ++ D2 ++ D3
  BY DEF DecodeH
<1>. HIDE DEF B, D0, D1, D2, D3, G0, G1, G2, G3
<1>7. /\ DOMAIN (B ++ D0) = DOMAIN B \cup DOMAIN D0 /\ DOMAIN (B ++ D0 ++ D1) = DOMAIN (B ++ D0) \cup DOMAIN D1
      /\ DOMAIN (B ++ D0 ++ D1 ++ D2) = DOMAIN (B ++ D0 ++ D1) \cup DOMAIN D2
  BY DEF ++
<1>8. Reads(t, G0, B ++ D0)
  BY <1>3, <1>4, ReadsSecond
<1>9. Reads(t, G0, DecodeH)
  BY <1>6, <1>8, ReadsFirst
<1>10. Reads(t, G1, B ++ D0 ++ D1)
  BY <1>3, <1>4, <1>5, <1>7, ReadsSecond
<1>11. Reads(t, G1, DecodeH)
  BY <1>6, <1>10, ReadsFirst
<1>12. Reads(t, G2, B ++ D0 ++ D1 ++ D2)
  BY <1>3, <1>4, <1>5, <1>7, ReadsSecond
<1>13. Reads(t, G2, DecodeH)
  BY <1>6, <1>12, ReadsFirst
<1>14. Reads(t, G3, DecodeH)
  BY <1>3, <1>4, <1>5, <1>6, <1>7, ReadsSecond
<1>15. Reads(t, Group01, DecodeH)
  BY <1>1, <1>9, <1>11, ReadsApart
<1>16. Reads(t, Group23, DecodeH)
  BY <1>2, <1>13, <1>14, ReadsApart
<1>. QED BY <1>15, <1>16

LEMMA Read2232H ==
    ASSUME NEW t, t = H2232
    PROVE  /\ Reads(t, Places2232H, DecodeCommon ++ DecodeH ++ Decode2232H)
           /\ Reads(t, Group01, DecodeCommon ++ DecodeH ++ Decode2232H)
           /\ Reads(t, Group23, DecodeCommon ++ DecodeH ++ Decode2232H)
<1>. DEFINE B == [channel_a_driver |-> Flag(0, 3), channel_b_driver |-> Flag(1, 3), chip |-> At(24, 0, 8)]
            D0 == DecodeGroup(Group0, 12, 0)
            D1 == DecodeGroup(Group1, 12, 4)
            D2 == DecodeGroup(Group2, 13, 0)
            D3 == DecodeGroup(Group3, 13, 4)
            E == [channel_a_type |-> At(0, 0, 3), channel_b_type |-> At(1, 0, 3), suspend_dbus7 |-> Flag(1, 7)]
<1>1. DecodeH = B ++ D0 ++ D1 ++ D2 ++ D3
  BY DEF DecodeH
<1>2. Reads(t, B, B) /\ Reads(t, E, Decode2232H)
  BY Subsets, WidthIs, SMT DEF Reads, Decode2232H, At, Flag, Flags, ChannelTypes, H232, H2232, H4232
<1>3. DOMAIN E \cap DOMAIN DecodeCommon = {} /\ DOMAIN B \cap DOMAIN DecodeCommon = {}
  BY SMT DEF DecodeCommon
<1>4. DOMAIN E \cap DOMAIN B = {}
  BY SMT
<1>5. \A f \in DOMAIN Places2232H : (f \in DOMAIN B /\ Places2232H[f] = B[f]) \/ (f \in DOMAIN E /\ Places2232H[f] = E[f])
  BY SMT DEF Places2232H
<1>6. (DOMAIN D0 \cup DOMAIN D1 \cup DOMAIN D2 \cup DOMAIN D3) \cap DOMAIN E = {}
  BY GroupsAre, SMT
<1>7. (DOMAIN Group01 \cup DOMAIN Group23) \cap DOMAIN DecodeCommon = {}
  BY SMT DEF Group01, Group23, DecodeCommon
<1>. HIDE DEF B, D0, D1, D2, D3, E
<1>8. Reads(t, B, DecodeH)
  <2>1. Reads(t, B, B ++ D0 ++ D1)
    BY <1>2, ReadsFirst
  <2>. QED BY <1>1, <2>1, ReadsFirst
<1>9. DOMAIN E \cap DOMAIN (DecodeCommon ++ DecodeH) = {}
  BY <1>1, <1>3, <1>4, <1>6 DEF ++
<1>10. Reads(t, E, DecodeCommon ++ DecodeH ++ Decode2232H)
  BY <1>2, <1>9, ReadsSecond
<1>11. Reads(t, B, DecodeCommon ++ DecodeH ++ Decode2232H)
  BY <1>3, <1>8, ReadsFirst, ReadsSecond
<1>12. Reads(t, Places2232H, DecodeCommon ++ DecodeH ++ Decode2232H)
  BY <1>5, <1>10, <1>11, ReadsApart
<1>13. Reads(t, Group01, DecodeH) /\ Reads(t, Group23, DecodeH)
  BY ReadGroups DEF ChipTypes
<1>14. Reads(t, Group01, DecodeCommon ++ DecodeH ++ Decode2232H)
  BY <1>7, <1>13, ReadsFirst, ReadsSecond
<1>15. Reads(t, Group23, DecodeCommon ++ DecodeH ++ Decode2232H)
  BY <1>7, <1>13, ReadsFirst, ReadsSecond
<1>. QED BY <1>12, <1>14, <1>15

LEMMA Read4232H ==
    ASSUME NEW t, t = H4232
    PROVE  /\ Reads(t, Places4232H, DecodeCommon ++ DecodeH ++ Decode4232H)
           /\ Reads(t, Group01, DecodeCommon ++ DecodeH ++ Decode4232H)
           /\ Reads(t, Group23, DecodeCommon ++ DecodeH ++ Decode4232H)
<1>. DEFINE B == [channel_a_driver |-> Flag(0, 3), channel_b_driver |-> Flag(1, 3), chip |-> At(24, 0, 8)]
            D0 == DecodeGroup(Group0, 12, 0)
            D1 == DecodeGroup(Group1, 12, 4)
            D2 == DecodeGroup(Group2, 13, 0)
            D3 == DecodeGroup(Group3, 13, 4)
            E == [channel_c_driver |-> Flag(0, 7), channel_d_driver |-> Flag(1, 7),
                   channel_a_rs485enable |-> Flag(11, 4), channel_b_rs485enable |-> Flag(11, 5),
                   channel_c_rs485enable |-> Flag(11, 6), channel_d_rs485enable |-> Flag(11, 7)]
<1>1. DecodeH = B ++ D0 ++ D1 ++ D2 ++ D3
  BY DEF DecodeH
<1>2. Reads(t, B, B) /\ Reads(t, E, Decode4232H)
  BY Subsets, WidthIs, SMT DEF Reads, Decode4232H, At, Flag, Flags, ChannelTypes, H232, H2232, H4232
<1>3. DOMAIN E \cap DOMAIN DecodeCommon = {} /\ DOMAIN B \cap DOMAIN DecodeCommon = {}
  BY SMT DEF DecodeCommon
<1>4. DOMAIN E \cap DOMAIN B = {}
  BY SMT
<1>5. \A f \in DOMAIN Places4232H : (f \in DOMAIN B /\ Places4232H[f] = B[f]) \/ (f \in DOMAIN E /\ Places4232H[f] = E[f])
  BY SMT DEF Places4232H
<1>6. (DOMAIN D0 \cup DOMAIN D1 \cup DOMAIN D2 \cup DOMAIN D3) \cap DOMAIN E = {}
  BY GroupsAre, SMT
<1>7. (DOMAIN Group01 \cup DOMAIN Group23) \cap DOMAIN DecodeCommon = {}
  BY SMT DEF Group01, Group23, DecodeCommon
<1>. HIDE DEF B, D0, D1, D2, D3, E
<1>8. Reads(t, B, DecodeH)
  <2>1. Reads(t, B, B ++ D0 ++ D1)
    BY <1>2, ReadsFirst
  <2>. QED BY <1>1, <2>1, ReadsFirst
<1>9. DOMAIN E \cap DOMAIN (DecodeCommon ++ DecodeH) = {}
  BY <1>1, <1>3, <1>4, <1>6 DEF ++
<1>10. Reads(t, E, DecodeCommon ++ DecodeH ++ Decode4232H)
  BY <1>2, <1>9, ReadsSecond
<1>11. Reads(t, B, DecodeCommon ++ DecodeH ++ Decode4232H)
  BY <1>3, <1>8, ReadsFirst, ReadsSecond
<1>12. Reads(t, Places4232H, DecodeCommon ++ DecodeH ++ Decode4232H)
  BY <1>5, <1>10, <1>11, ReadsApart
<1>13. Reads(t, Group01, DecodeH) /\ Reads(t, Group23, DecodeH)
  BY ReadGroups DEF ChipTypes
<1>14. Reads(t, Group01, DecodeCommon ++ DecodeH ++ Decode4232H)
  BY <1>7, <1>13, ReadsFirst, ReadsSecond
<1>15. Reads(t, Group23, DecodeCommon ++ DecodeH ++ Decode4232H)
  BY <1>7, <1>13, ReadsFirst, ReadsSecond
<1>. QED BY <1>12, <1>14, <1>15

LEMMA Read232H ==
    ASSUME NEW t, t = H232
    PROVE  /\ Reads(t, Group232H, DecodeCommon ++ Decode232H)
           /\ Reads(t, Places232H, DecodeCommon ++ Decode232H)
           /\ Reads(t, Pins(24, 4, 0, 9), DecodeCommon ++ Decode232H)
<1>. DEFINE B == Places232H
            D0 == DecodeGroup(Group0, 12, 0)
            D1 == DecodeGroup(Group1, 13, 0)
            G0 == [group0_drive |-> At(12, 0, 2), group0_slew |-> Flag(12, 2), group0_schmitt |-> Flag(12, 3)]
            G1 == [group1_drive |-> At(13, 0, 2), group1_slew |-> Flag(13, 2), group1_schmitt |-> Flag(13, 3)]
            P == Pins(24, 4, 0, 9)
<1>0. t \in ChipTypes
  BY DEF ChipTypes
<1>1. Decode232H = B ++ D0 ++ D1 ++ P
  BY DEF Decode232H, Places232H
<1>2. Reads(t, B, B)
  BY Subsets, WidthIs, SMT DEF Reads, Places232H, At, Flag, Flags, ChannelTypes, H232
<1>3. Reads(t, G0, D0) /\ Reads(t, G1, D1)
  BY <1>0, GroupsRead
<1>4. /\ DOMAIN G0 = {"group0_drive", "group0_slew", "group0_schmitt"}
      /\ DOMAIN G1 = {"group1_drive", "group1_slew", "group1_schmitt"}
  BY SMT
<1>5. /\ DOMAIN D0 = {"group0_drive", "group0_slew", "group0_schmitt"}
      /\ DOMAIN D1 = {"group1_drive", "group1_slew", "group1_schmitt"}
  BY GroupsAre
<1>6. /\ DOMAIN B \cap DOMAIN DecodeCommon = {} /\ DOMAIN B \cap DOMAIN G0 = {} /\ DOMAIN B \cap DOMAIN G1 = {}
      /\ (DOMAIN G0 \cup DOMAIN G1) \cap DOMAIN DecodeCommon = {} /\ DOMAIN Group232H \cap DOMAIN DecodeCommon = {}
  BY SMT DEF Places232H, DecodeCommon, Group232H
<1>7. \A f \in DOMAIN Group232H : (f \in DOMAIN G0 /\ Group232H[f] = G0[f]) \/ (f \in DOMAIN G1 /\ Group232H[f] = G1[f])
  BY SMT DEF Group232H
<1>8. HasPins(P, 24, 4, 0, 9)
  BY PinsAre, SMT
<1>9. CbusFields \cap (DOMAIN B \cup DOMAIN G0 \cup DOMAIN G1 \cup DOMAIN DecodeCommon) = {}
  BY <1>4, Kinds, SMT DEF DecodeCommon, Places232H
<1>. HIDE DEF B, D0, D1, G0, G1, P
<1>10. Reads(t, P, P)
  <2>1. PICK b, w, x, l, c, v, y, m : b = 24 /\ w = 4 /\ x = 0 /\ l = 9 /\ c = 24 /\ v = 4 /\ y = 0 /\ m = 9
    OBVIOUS
  <2>2. HasPins(P, b, w, x, l) /\ HasPins(P, c, v, y, m)
    BY <1>8, <2>1
  <2>3. /\ b \in Nat /\ w \in {4, 8} /\ x \in 0..9 /\ l \in 0..9
        /\ c \in Nat /\ v \in {4, 8} /\ y \in 0..9 /\ m \in 0..9 /\ v <= w
    BY <2>1, SMT
  <2>4. v = IF t = X230 THEN 8 ELSE 4
    BY <2>1, SMT DEF R, H232, X230
  <2>5. PinsMeet(t, b, w, x, l, c, v, y, m)
    BY <2>1, SMT DEF PinsMeet
  <2>6. t \in ChipTypes
    BY DEF ChipTypes
  <2>. QED BY <2>2, <2>3, <2>4, <2>5, <2>6, PinsRead, ZenonT(60)
<1>11. DOMAIN P \subseteq CbusFields
  BY <1>8 DEF HasPins, CbusFields
<1>12. DOMAIN (B ++ D0) = DOMAIN B \cup DOMAIN D0 /\ DOMAIN (B ++ D0 ++ D1) = DOMAIN B \cup DOMAIN D0 \cup DOMAIN D1
  BY DEF ++
<1>13. Reads(t, B, Decode232H)
  <2>1. Reads(t, B, B ++ D0 ++ D1)
    BY <1>2, ReadsFirst
  <2>. QED BY <1>1, <2>1, ReadsFirst
<1>14. Reads(t, G0, Decode232H)
  <2>1. Reads(t, G0, B ++ D0)
    BY <1>3, <1>6, ReadsSecond
  <2>2. Reads(t, G0, B ++ D0 ++ D1)
    BY <2>1, ReadsFirst
  <2>. QED BY <1>1, <2>2, ReadsFirst
<1>15. Reads(t, G1, Decode232H)
  <2>1. DOMAIN G1 \cap DOMAIN (B ++ D0) = {}
    BY <1>4, <1>5, <1>6, <1>12
  <2>2. Reads(t, G1, B ++ D0 ++ D1)
    BY <1>3, <2>1, ReadsSecond
  <2>. QED BY <1>1, <2>2, ReadsFirst
<1>16. Reads(t, P, Decode232H)
  <2>1. DOMAIN P \cap DOMAIN (B ++ D0 ++ D1) = {}
    BY <1>4, <1>5, <1>9, <1>11, <1>12
  <2>. QED BY <1>1, <1>10, <2>1, ReadsSecond
<1>17. Reads(t, Group232H, Decode232H)
  BY <1>7, <1>14, <1>15, ReadsApart
<1>18. DOMAIN P \cap DOMAIN DecodeCommon = {}
  BY <1>9, <1>11
<1>. QED BY <1>6, <1>13, <1>16, <1>17, <1>18, ReadsSecond DEF B, P

LEMMA Read230X ==
    ASSUME NEW t, t = X230
    PROVE  /\ Reads(t, [invert |-> At(11, 0, 8)], DecodeCommon ++ Decode230X)
           /\ Reads(t, Pins(26, 8, 0, 6), DecodeCommon ++ Decode230X)
<1>. DEFINE B == [invert |-> At(11, 0, 8)]
            D0 == DecodeGroup(Group0, 12, 0)
            D1 == DecodeGroup(Group1, 12, 4)
            P == Pins(26, 8, 0, 6)
            Q == Pins(26, 8, 0, 3)
<1>1. Decode230X = B ++ D0 ++ D1 ++ Q
  BY DEF Decode230X
<1>2. Reads(t, B, B)
  BY Subsets, WidthIs, SMT DEF Reads, At
<1>3. /\ DOMAIN D0 = {"group0_drive", "group0_slew", "group0_schmitt"}
      /\ DOMAIN D1 = {"group1_drive", "group1_slew", "group1_schmitt"}
  BY GroupsAre
<1>4. DOMAIN B = {"invert"} /\ DOMAIN B \cap DOMAIN DecodeCommon = {}
  BY SMT DEF DecodeCommon
<1>5. HasPins(P, 26, 8, 0, 6) /\ HasPins(Q, 26, 8, 0, 3)
  BY PinsAre, SMT
<1>6. CbusFields \cap (DOMAIN B \cup DOMAIN D0 \cup DOMAIN D1 \cup DOMAIN DecodeCommon) = {}
  BY <1>3, <1>4, Kinds, SMT DEF DecodeCommon
<1>. HIDE DEF B, D0, D1, P, Q
<1>7. Reads(t, P, Q)
  <2>1. PICK b, w, x, l, c, v, y, m : b = 26 /\ w = 8 /\ x = 0 /\ l = 6 /\ c = 26 /\ v = 8 /\ y = 0 /\ m = 3
    OBVIOUS
  <2>2. HasPins(P, b, w, x, l) /\ HasPins(Q, c, v, y, m)
    BY <1>5, <2>1
  <2>3. /\ b \in Nat /\ w \in {4, 8} /\ x \in 0..9 /\ l \in 0..9
        /\ c \in Nat /\ v \in {4, 8} /\ y \in 0..9 /\ m \in 0..9 /\ v <= w
    BY <2>1, SMT
  <2>4. v = IF t = X230 THEN 8 ELSE 4
    BY <2>1, SMT DEF R, H232, X230
  <2>5. PinsMeet(t, b, w, x, l, c, v, y, m)
    BY <2>1, SMT DEF PinsMeet, Undecoded, Cbus, R, X230
  <2>6. t \in ChipTypes
    BY DEF ChipTypes
  <2>. QED BY <2>2, <2>3, <2>4, <2>5, <2>6, PinsRead, ZenonT(60)
<1>8. DOMAIN P \subseteq CbusFields
  BY <1>5 DEF HasPins, CbusFields
<1>9. Reads(t, B, Decode230X)
  <2>1. Reads(t, B, B ++ D0 ++ D1)
    BY <1>2, ReadsFirst
  <2>. QED BY <1>1, <2>1, ReadsFirst
<1>10. Reads(t, P, Decode230X)
  <2>1. DOMAIN P \cap DOMAIN (B ++ D0 ++ D1) = {}
    BY <1>6, <1>8 DEF ++
  <2>. QED BY <1>1, <1>7, <2>1, ReadsSecond
<1>11. DOMAIN P \cap DOMAIN DecodeCommon = {}
  BY <1>6, <1>8
<1>. QED BY <1>4, <1>9, <1>10, <1>11, ReadsSecond DEF B, P

\* What the builder stores of a chip type, the decoder finds where it is.
LEMMA BuildRead ==
    ASSUME NEW t \in ChipTypes
    PROVE  Reads(t, BuildAt(t), DecodeAt(t))
<1>1. CASE t = AM
  <2>. DEFINE D == DecodeCommon
  <2>1. DecodeAt(t) = D /\ BuildAt(t) = Common
    BY <1>1 DEF DecodeAt, BuildAt, AM, BM, C2232, R, H2232, H4232, H232, X230
  <2>2. Reads(t, Common, D)
    BY CommonRead
  <2>. HIDE DEF D
  <2>. QED BY <2>1, <2>2, ReadsBeside
<1>2. CASE t = BM
  <2>. DEFINE D == DecodeCommon
  <2>1. DecodeAt(t) = D /\ BuildAt(t) = Common ++ Isochronous ++ Serial ++ UsbVersion ++ UseUsbVersion
    BY <1>2 DEF DecodeAt, BuildAt, AM, BM, C2232, R, H2232, H4232, H232, X230
  <2>2. Reads(t, Common, D) /\ Reads(t, Isochronous, D) /\ Reads(t, Serial, D) /\ Reads(t, UsbVersion, D) /\ Reads(t, UseUsbVersion, D)
    BY CommonRead
  <2>. HIDE DEF D
  <2>3. Reads(t, Common ++ Isochronous, D)
    BY <2>2, ReadsBeside
  <2>4. Reads(t, Common ++ Isochronous ++ Serial, D)
    BY <2>2, <2>3, ReadsBeside
  <2>5. Reads(t, Common ++ Isochronous ++ Serial ++ UsbVersion, D)
    BY <2>2, <2>4, ReadsBeside
  <2>. QED BY <2>1, <2>2, <2>5, ReadsBeside
<1>3. CASE t = C2232
  <2>. DEFINE D == DecodeCommon ++ Decode2232C
  <2>1. DecodeAt(t) = D /\ BuildAt(t) = Common ++ Isochronous ++ Serial ++ UsbVersion ++ UseUsbVersion ++ PullDowns ++ Places2232C
    BY <1>3 DEF DecodeAt, BuildAt, AM, BM, C2232, R, H2232, H4232, H232, X230
  <2>2. Reads(t, Common, D) /\ Reads(t, Isochronous, D) /\ Reads(t, Serial, D) /\ Reads(t, UsbVersion, D) /\ Reads(t, UseUsbVersion, D) /\ Reads(t, PullDowns, D)
    BY CommonRead, ReadsFirst
  <2>3. Reads(t, Places2232C, D)
    BY <1>3, Read2232C
  <2>. HIDE DEF D
  <2>4. Reads(t, Common ++ Isochronous, D)
    BY <2>2, <2>3, ReadsBeside
  <2>5. Reads(t, Common ++ Isochronous ++ Serial, D)
    BY <2>2, <2>3, <2>4, ReadsBeside
  <2>6. Reads(t, Common ++ Isochronous ++ Serial ++ UsbVersion, D)
    BY <2>2, <2>3, <2>5, ReadsBeside
  <2>7. Reads(t, Common ++ Isochronous ++ Serial ++ UsbVersion ++ UseUsbVersion, D)
    BY <2>2, <2>3, <2>6, ReadsBeside
  <2>8. Reads(t, Common ++ Isochronous ++ Serial ++ UsbVersion ++ UseUsbVersion ++ PullDowns, D)
    BY <2>2, <2>3, <2>7, ReadsBeside
  <2>. QED BY <2>1, <2>2, <2>3, <2>8, ReadsBeside
<1>4. CASE t = R
  <2>. DEFINE D == DecodeCommon ++ DecodeR
  <2>1. DecodeAt(t) = D /\ BuildAt(t) = Common ++ Isochronous ++ Serial ++ UsbVersion ++ PullDowns ++ PlacesR ++ Pins(20, 4, 0, 3) ++ Pins(22, 8, 4, 4)
    BY <1>4 DEF DecodeAt, BuildAt, AM, BM, C2232, R, H2232, H4232, H232, X230
  <2>2. Reads(t, Common, D) /\ Reads(t, Isochronous, D) /\ Reads(t, Serial, D) /\ Reads(t, UsbVersion, D) /\ Reads(t, PullDowns, D)
    BY CommonRead, ReadsFirst
  <2>3. Reads(t, PlacesR, D) /\ Reads(t, Pins(20, 4, 0, 3), D) /\ Reads(t, Pins(22, 8, 4, 4), D)
    BY <1>4, ReadR
  <2>. HIDE DEF D
  <2>4. Reads(t, Common ++ Isochronous, D)
    BY <2>2, <2>3, ReadsBeside
  <2>5. Reads(t, Common ++ Isochronous ++ Serial, D)
    BY <2>2, <2>3, <2>4, ReadsBeside
  <2>6. Reads(t, Common ++ Isochronous ++ Serial ++ UsbVersion, D)
    BY <2>2, <2>3, <2>5, ReadsBeside
  <2>7. Reads(t, Common ++ Isochronous ++ Serial ++ UsbVersion ++ PullDowns, D)
    BY <2>2, <2>3, <2>6, ReadsBeside
  <2>8. Reads(t, Common ++ Isochronous ++ Serial ++ UsbVersion ++ PullDowns ++ PlacesR, D)
    BY <2>2, <2>3, <2>7, ReadsBeside
  <2>9. Reads(t, Common ++ Isochronous ++ Serial ++ UsbVersion ++ PullDowns ++ PlacesR ++ Pins(20, 4, 0, 3), D)
    BY <2>2, <2>3, <2>8, ReadsBeside
  <2>. QED BY <2>1, <2>2, <2>3, <2>9, ReadsBeside
<1>5. CASE t = H2232
  <2>. DEFINE D == DecodeCommon ++ DecodeH ++ Decode2232H
  <2>1. DecodeAt(t) = D /\ BuildAt(t) = Common ++ Isochronous ++ Serial ++ PullDowns ++ Group01 ++ Group23 ++ Places2232H
    BY <1>5 DEF DecodeAt, BuildAt, AM, BM, C2232, R, H2232, H4232, H232, X230
  <2>2. Reads(t, Common, D) /\ Reads(t, Isochronous, D) /\ Reads(t, Serial, D) /\ Reads(t, PullDowns, D)
    BY CommonRead, ReadsFirst
  <2>3. Reads(t, Group01, D) /\ Reads(t, Group23, D) /\ Reads(t, Places2232H, D)
    BY <1>5, Read2232H
  <2>. HIDE DEF D
  <2>4. Reads(t, Common ++ Isochronous, D)
    BY <2>2, <2>3, ReadsBeside
  <2>5. Reads(t, Common ++ Isochronous ++ Serial, D)
    BY <2>2, <2>3, <2>4, ReadsBeside
  <2>6. Reads(t, Common ++ Isochronous ++ Serial ++ PullDowns, D)
    BY <2>2, <2>3, <2>5, ReadsBeside
  <2>7. Reads(t, Common ++ Isochronous ++ Serial ++ PullDowns ++ Group01, D)
    BY <2>2, <2>3, <2>6, ReadsBeside
  <2>8. Reads(t, Common ++ Isochronous ++ Serial ++ PullDowns ++ Group01 ++ Group23, D)
    BY <2>2, <2>3, <2>7, ReadsBeside
  <2>. QED BY <2>1, <2>2, <2>3, <2>8, ReadsBeside
<1>6. CASE t = H4232
  <2>. DEFINE D == DecodeCommon ++ DecodeH ++ Decode4232H
  <2>1. DecodeAt(t) = D /\ BuildAt(t) = Common ++ Isochronous ++ Serial ++ PullDowns ++ Group01 ++ Group23 ++ Places4232H
    BY <1>6 DEF DecodeAt, BuildAt, AM, BM, C2232, R, H2232, H4232, H232, X230
  <2>2. Reads(t, Common, D) /\ Reads(t, Isochronous, D) /\ Reads(t, Serial, D) /\ Reads(t, PullDowns, D)
    BY CommonRead, ReadsFirst
  <2>3. Reads(t, Group01, D) /\ Reads(t, Group23, D) /\ Reads(t, Places4232H, D)
    BY <1>6, Read4232H
  <2>. HIDE DEF D
  <2>4. Reads(t, Common ++ Isochronous, D)
    BY <2>2, <2>3, ReadsBeside
  <2>5. Reads(t, Common ++ Isochronous ++ Serial, D)
    BY <2>2, <2>3, <2>4, ReadsBeside
  <2>6. Reads(t, Common ++ Isochronous ++ Serial ++ PullDowns, D)
    BY <2>2, <2>3, <2>5, ReadsBeside
  <2>7. Reads(t, Common ++ Isochronous ++ Serial ++ PullDowns ++ Group01, D)
    BY <2>2, <2>3, <2>6, ReadsBeside
  <2>8. Reads(t, Common ++ Isochronous ++ Serial ++ PullDowns ++ Group01 ++ Group23, D)
    BY <2>2, <2>3, <2>7, ReadsBeside
  <2>. QED BY <2>1, <2>2, <2>3, <2>8, ReadsBeside
<1>7. CASE t = H232
  <2>. DEFINE D == DecodeCommon ++ Decode232H
  <2>1. DecodeAt(t) = D /\ BuildAt(t) = Common ++ Isochronous ++ Serial ++ PullDowns ++ Group232H ++ Places232H ++ Pins(24, 4, 0, 9)
    BY <1>7 DEF DecodeAt, BuildAt, AM, BM, C2232, R, H2232, H4232, H232, X230
  <2>2. Reads(t, Common, D) /\ Reads(t, Isochronous, D) /\ Reads(t, Serial, D) /\ Reads(t, PullDowns, D)
    BY CommonRead, ReadsFirst
  <2>3. Reads(t, Group232H, D) /\ Reads(t, Places232H, D) /\ Reads(t, Pins(24, 4, 0, 9), D)
    BY <1>7, Read232H
  <2>. HIDE DEF D
  <2>4. Reads(t, Common ++ Isochronous, D)
    BY <2>2, <2>3, ReadsBeside
  <2>5. Reads(t, Common ++ Isochronous ++ Serial, D)
    BY <2>2, <2>3, <2>4, ReadsBeside
  <2>6. Reads(t, Common ++ Isochronous ++ Serial ++ PullDowns, D)
    BY <2>2, <2>3, <2>5, ReadsBeside
  <2>7. Reads(t, Common ++ Isochronous ++ Serial ++ PullDowns ++ Group232H, D)
    BY <2>2, <2>3, <2>6, ReadsBeside
  <2>8. Reads(t, Common ++ Isochronous ++ Serial ++ PullDowns ++ Group232H ++ Places232H, D)
    BY <2>2, <2>3, <2>7, ReadsBeside
  <2>. QED BY <2>1, <2>2, <2>3, <2>8, ReadsBeside
<1>8. CASE t = X230
  <2>. DEFINE D == DecodeCommon ++ Decode230X
  <2>1. DecodeAt(t) = D /\ BuildAt(t) = Common ++ Serial ++ [invert |-> At(11, 0, 8)] ++ Pins(26, 8, 0, 6)
    BY <1>8 DEF DecodeAt, BuildAt, AM, BM, C2232, R, H2232, H4232, H232, X230
  <2>2. Reads(t, Common, D) /\ Reads(t, Serial, D)
    BY CommonRead, ReadsFirst
  <2>3. Reads(t, [invert |-> At(11, 0, 8)], D) /\ Reads(t, Pins(26, 8, 0, 6), D)
    BY <1>8, Read230X
  <2>. HIDE DEF D
  <2>4. Reads(t, Common ++ Serial, D)
    BY <2>2, <2>3, ReadsBeside
  <2>5. Reads(t, Common ++ Serial ++ [invert |-> At(11, 0, 8)], D)
    BY <2>2, <2>3, <2>4, ReadsBeside
  <2>. QED BY <2>1, <2>2, <2>3, <2>5, ReadsBeside
<1>. QED BY <1>1, <1>2, <1>3, <1>4, <1>5, <1>6, <1>7, <1>8 DEF ChipTypes

-----------------------------------------------------------------------------
(* Coding: what fits, and survives.                                        *)

\* A number of so many bits.
Fits(n, w) ==
    \/ w = 1 /\ n < 2
    \/ w = 2 /\ n < 4
    \/ w = 3 /\ n < 8
    \/ w = 4 /\ n < 16
    \/ w = 8 /\ n < 256
    \/ w = 16 /\ n < 65536

LEMMA LegalIs ==
    ASSUME NEW t
    PROVE  /\ \A f \in Flags : Legal(t, f) = {0, 1}
           /\ \A f \in Drives : Legal(t, f) = {0, 1, 2, 3}
           /\ \A f \in ChannelTypes :
                Legal(t, f) = IF t = H232 THEN {0, 1, 2, 4, 8} ELSE IF t = R THEN {0, 1} ELSE {0, 1, 2, 4}
           /\ Legal(t, "max_power") = {0, 90, 256, 510}
           /\ \A f \in {"invert", "chip"} : Legal(t, f) = {0, 70, 129, 255}
           /\ \A f \in {"vendor_id", "product_id", "release_number", "usb_version"} :
                Legal(t, f) = {0, 255, 32769, 65535}
<1>1. /\ "max_power" \in Numbers /\ {"invert", "chip"} \subseteq Numbers
      /\ {"vendor_id", "product_id", "release_number", "usb_version"} \subseteq Numbers
  BY Zenon DEF Numbers
<1>2. /\ "max_power" \notin {"invert", "chip"}
      /\ "max_power" \notin {"vendor_id", "product_id", "release_number", "usb_version"}
      /\ {"invert", "chip"} \cap {"vendor_id", "product_id", "release_number", "usb_version"} = {}
  BY SMT
<1>3. \A f \in Flags : Legal(t, f) = {0, 1}
  BY <1>1, Kinds DEF Legal
<1>4. \A f \in Drives : Legal(t, f) = {0, 1, 2, 3}
  BY <1>1, Kinds DEF Legal
<1>5. \A f \in ChannelTypes :
        Legal(t, f) = IF t = H232 THEN {0, 1, 2, 4, 8} ELSE IF t = R THEN {0, 1} ELSE {0, 1, 2, 4}
  BY <1>1, Kinds DEF Legal
<1>7. Legal(t, "max_power") = {0, 90, 256, 510}
  BY <1>1, <1>2, Kinds DEF Legal
<1>8. \A f \in {"invert", "chip"} : Legal(t, f) = {0, 70, 129, 255}
  BY <1>1, <1>2, Kinds DEF Legal
<1>9. \A f \in {"vendor_id", "product_id", "release_number", "usb_version"} : Legal(t, f) = {0, 255, 32769, 65535}
  BY <1>1, <1>2, Kinds DEF Legal
<1>. QED BY <1>3, <1>4, <1>5, <1>7, <1>8, <1>9

LEMMA LegalOfPins ==
    ASSUME NEW t, NEW f \in CbusFields
    PROVE  \/ t = X230 /\ Legal(t, f) = {0, 9, 21}
           \/ t = R /\ f = Cbus[5] /\ Legal(t, f) = {0, 9}
           \/ t # X230 /\ ~(t = R /\ f = Cbus[5]) /\ Legal(t, f) = {0, 5, 12}
<1>1. /\ f \notin Flags /\ f \notin ChannelTypes /\ f \notin Drives /\ f # "max_power"
      /\ f \notin {"invert", "chip"} /\ f \notin {"vendor_id", "product_id", "release_number", "usb_version"}
  BY Kinds, SMT
<1>2. Legal(t, f) = CASE t = X230 -> {0, 9, 21} [] t = R /\ f = Cbus[5] -> {0, 9} [] OTHER -> {0, 5, 12}
  BY <1>1 DEF Legal
<1>. QED BY <1>2, SMT DEF X230, R

\* A value that can be stored fits into where it is read, and survives the coding.
LEMMA CodedFits ==
    ASSUME NEW t \in ChipTypes, NEW f \in Fields, f \notin Undecoded(t), NEW v \in Legal(t, f)
    PROVE  /\ Coded(t, f, v) \in Nat /\ Fits(Coded(t, f, v), Width(t, f))
           /\ Decoded(t, f, Coded(t, f, v)) = v
<1>1. CASE f \in Flags
  <2>0. Legal(t, f) = {0, 1}
    BY <1>1, LegalIs
  <2>1. v \in {0, 1} /\ Width(t, f) = 1
    BY <1>1, <2>0, WidthIs
  <2>2. Coded(t, f, v) = IF (v = 0) <=> Inverted(t, f) THEN 1 ELSE 0
    BY <1>1, Kinds DEF Coded, Numbers
  <2>3. ASSUME NEW n PROVE Decoded(t, f, n) = IF Inverted(t, f) THEN 1 - n ELSE n
    BY <1>1, Kinds DEF Decoded, Numbers, Inverted
  <2>. QED BY <2>1, <2>2, <2>3 DEF Fits
<1>2. CASE f \in Drives
  <2>0. Legal(t, f) = {0, 1, 2, 3}
    BY <1>2, LegalIs
  <2>1. v \in {0, 1, 2, 3} /\ Width(t, f) = 2
    BY <1>2, <2>0, WidthIs
  <2>2. Coded(t, f, v) = v
    BY <1>2, <2>1, Kinds DEF Coded, Numbers
  <2>3. Decoded(t, f, v) = v
    BY <1>2, Kinds, SMT DEF Decoded, Numbers, Inverted, Drives
  <2>. QED BY <2>1, <2>2, <2>3 DEF Fits
<1>3. CASE f \in ChannelTypes
  <2>1. Legal(t, f) = IF t = H232 THEN {0, 1, 2, 4, 8} ELSE IF t = R THEN {0, 1} ELSE {0, 1, 2, 4}
    BY <1>3, LegalIs
  <2>2. /\ t = H232 => v \in {0, 1, 2, 4, 8} /\ Width(t, f) = 4
        /\ t # H232 => v \in {0, 1, 2, 4} /\ Width(t, f) = 3
        /\ t = R => v \in {0, 1}
    BY <1>3, <2>1, WidthIs, SMT DEF R, H232
  <2>3. Coded(t, f, v) = v
    <3>1. Coded(t, f, v) = type2bit(t, v)
      BY <1>3, Kinds DEF Coded, Numbers
    <3>. QED BY <2>2, <3>1, SMT DEF type2bit, R, H232
  <2>4. Decoded(t, f, v) = v
    <3>1. ~Inverted(t, f) /\ f # "max_power"
      BY <1>3, Kinds, SMT DEF Inverted, Numbers, ChannelTypes
    <3>2. bit2type(v) = v
      BY <2>2 DEF bit2type
    <3>. QED BY <1>3, <3>1, <3>2 DEF Decoded
  <2>. QED BY <2>2, <2>3, <2>4 DEF Fits
<1>4. CASE f \in CbusFields
  <2>1. /\ t = X230 => v \in {0, 9, 21} /\ Width(t, f) = 8
        /\ t # X230 => v \in {0, 5, 9, 12} /\ Width(t, f) = 4
        /\ t = R /\ f = Cbus[5] => v \in {0, 9}
    BY <1>4, LegalOfPins, WidthIs, SMT DEF R, X230
  <2>2. Coded(t, f, v) = v
    <3>1. Coded(t, f, v) = PinFunction(t, f, v)
      BY <1>4, Kinds DEF Coded, Numbers
    <3>. QED BY <2>1, <3>1, SMT DEF PinFunction, R, H232, X230, Cbus
  <2>3. Decoded(t, f, v) = v
    <3>1. ~Inverted(t, f) /\ f # "max_power" /\ f \notin ChannelTypes
      BY <1>4, Kinds, SMT DEF Inverted, Numbers
    <3>. QED BY <3>1 DEF Decoded
  <2>. QED BY <2>1, <2>2, <2>3 DEF Fits
<1>5. CASE f = "max_power"
  <2>1. v \in {0, 90, 256, 510} /\ Width(t, f) = 8
    BY <1>5, LegalIs, WidthIs
  <2>2. f \in Numbers
    BY <1>5, Zenon DEF Numbers
  <2>3. Coded(t, f, v) = v \div 2
    BY <1>5, <2>2, Kinds DEF Coded
  <2>4. ASSUME NEW n PROVE Decoded(t, f, n) = 2 * n
    <3>1. ~Inverted(t, f)
      BY <1>5, SMT DEF Inverted
    <3>. QED BY <1>5, <2>2, <3>1, Kinds DEF Decoded
  <2>. QED BY <2>1, <2>3, <2>4, SMT DEF Fits
<1>6. CASE f \in Numbers \ {"max_power"}
  <2>1. Coded(t, f, v) = v
    BY <1>6, Kinds DEF Coded
  <2>2. Decoded(t, f, v) = v
    <3>1. ~Inverted(t, f)
      BY <1>6, SMT DEF Inverted, Numbers
    <3>. QED BY <1>6, <3>1, Kinds DEF Decoded
  <2>3. CASE f \in {"invert", "chip"}
    <3>1. v \in {0, 70, 129, 255} /\ Width(t, f) = 8
      BY <2>3, LegalIs, WidthIs
    <3>. QED BY <2>1, <2>2, <3>1, SMT DEF Fits
  <2>4. CASE f \in {"vendor_id", "product_id", "release_number", "usb_version"}
    <3>1. v \in {0, 255, 32769, 65535} /\ Width(t, f) = 16
      BY <2>4, LegalIs, WidthIs
    <3>. QED BY <2>1, <2>2, <3>1, SMT DEF Fits
  <2>. QED BY <1>6, <2>3, <2>4 DEF Numbers
<1>. QED BY <1>1, <1>2, <1>3, <1>4, <1>5, <1>6 DEF Fields

LEMMA BitsAre ==
    ASSUME NEW place, place[1] \in Nat, place[2] \in Nat, NEW n
    PROVE  /\ \A b : b \in BitsOf(place, n) <=> \E k \in 0..place[2] - 1 : b = place[1] + k /\ HasBit(n, k)
           /\ BitsOf(place, n) \subseteq Span(place)
<1>1. BitsOf(place, n) = {place[1] + k : k \in {j \in 0..place[2] - 1 : HasBit(n, j)}}
  BY Zenon DEF BitsOf, HasBit, Power
<1>2. \A b : b \in BitsOf(place, n) <=> \E k \in 0..place[2] - 1 : b = place[1] + k /\ HasBit(n, k)
  BY <1>1
<1>3. BitsOf(place, n) \subseteq Span(place)
  BY <1>2 DEF Span
<1>. QED BY <1>2, <1>3

\* Every value that the decoder reads comes back as it was built, whatever the others are.
LEMMA FieldRead ==
    ASSUME NEW t \in ChipTypes, NEW values, NEW f \in DOMAIN BuildAt(t) \ Undecoded(t),
           values[f] \in Legal(t, f)
    PROVE  ReadField(t, Header(t, values), f) = values[f]
<1>. DEFINE T == BuildAt(t)
            D == DecodeAt(t)
            n == Coded(t, f, values[f])
            h == Header(t, values)
<1>1. f \in DOMAIN T /\ f \notin Undecoded(t)
  OBVIOUS
<1>2. /\ f \in Fields /\ T[f][1] \in Nat /\ T[f][2] \in Nat
      /\ D[f][1] = T[f][1] /\ D[f][2] = Width(t, f) /\ Width(t, f) <= T[f][2]
  BY <1>1, BuildRead DEF Reads
<1>3. n \in Nat /\ Fits(n, Width(t, f)) /\ Decoded(t, f, n) = values[f]
  BY <1>1, <1>2, CodedFits
<1>4. Sits(T, HeaderBits(t))
  BY BuildSits
<1>5. \A b : b \in h <=> b \in FixedBits(t) \/ \E g \in DOMAIN T : b \in BitsOf(T[g], Coded(t, g, values[g]))
  BY DEF Header
<1>. HIDE DEF T, D, n, h
<1>6. Width(t, f) \in {1, 2, 3, 4, 8, 16}
  BY <1>3 DEF Fits
<1>7. ASSUME NEW k \in 0..D[f][2] - 1 PROVE D[f][1] + k \in h <=> HasBit(n, k)
  <2>. DEFINE b == D[f][1] + k
  <2>1. b \in Span(T[f]) /\ b = T[f][1] + k /\ k \in 0..T[f][2] - 1
    BY <1>2, <1>6 DEF Span
  <2>2. b \in BitsOf(T[f], n) <=> HasBit(n, k)
    <3>1. b \in BitsOf(T[f], n) <=> \E j \in 0..T[f][2] - 1 : b = T[f][1] + j /\ HasBit(n, j)
      BY <1>2, BitsAre
    <3>2. ASSUME NEW j \in 0..T[f][2] - 1, b = T[f][1] + j PROVE j = k
      BY <1>2, <2>1, <3>2
    <3>. QED BY <2>1, <3>1, <3>2
  <2>3. b \notin FixedBits(t)
    BY <1>1, <1>4, <2>1 DEF Sits, HeaderBits
  <2>4. ASSUME NEW g \in DOMAIN T, g # f PROVE b \notin BitsOf(T[g], Coded(t, g, values[g]))
    <3>1. Span(T[g]) \cap Span(T[f]) = {} /\ T[g][1] \in Nat /\ T[g][2] \in Nat
      BY <1>1, <1>4, <2>4 DEF Sits
    <3>2. BitsOf(T[g], Coded(t, g, values[g])) \subseteq Span(T[g])
      BY <3>1, BitsAre
    <3>. QED BY <2>1, <3>1, <3>2
  <2>. QED BY <1>1, <1>5, <2>2, <2>3, <2>4 DEF n
<1>8. NumberAt(h, D[f]) = n
  <2>1. D[f][1] \in Nat /\ D[f][2] \in Widths
    BY <1>2, <1>6 DEF Widths
  <2>. QED BY <1>2, <1>3, <1>7, <2>1, NumberIsRead DEF Fits
<1>. QED BY <1>3, <1>8 DEF ReadField, D, h

\* The others are not in the decoder's table.
LEMMA UndecodedAre ==
    ASSUME NEW t \in ChipTypes, NEW f \in Undecoded(t)
    PROVE  /\ f \in Fields /\ f \notin DOMAIN DecodeAt(t) /\ f # "chip"
           /\ (t = R /\ f = "channel_a_type") \/ (t = X230 /\ f # "channel_a_type")
<1>1. CASE t = R
  <2>1. f = "channel_a_type"
    BY <1>1, SMT DEF Undecoded, R, X230
  <2>2. f \in ChannelTypes
    BY <2>1 DEF ChannelTypes
  <2>3. DecodeAt(t) = DecodeCommon ++ DecodeR
    BY <1>1, SMT DEF DecodeAt, AM, BM, C2232, R, H2232, H4232, H232, X230
  <2>4. f \notin DOMAIN DecodeR
    <3>. DEFINE B == [channel_a_driver |-> Flag(0, 3), high_current |-> Flag(0, 2), external_oscillator |-> Flag(0, 1),
                      chip |-> At(22, 0, 8), invert |-> At(11, 0, 8)]
                P == Pins(20, 4, 0, 4)
    <3>1. f \notin DOMAIN B
      BY <2>1, SMT
    <3>2. HasPins(P, 20, 4, 0, 4)
      BY PinsAre, SMT
    <3>. HIDE DEF P
    <3>3. DOMAIN P \subseteq CbusFields
      BY <3>2 DEF HasPins, CbusFields
    <3>4. f \notin CbusFields
      BY <2>2, Kinds
    <3>5. DecodeR = B ++ P
      BY DEF DecodeR, P
    <3>. QED BY <3>1, <3>3, <3>4, <3>5 DEF ++
  <2>5. f \notin DOMAIN DecodeCommon
    BY <2>1, SMT DEF DecodeCommon
  <2>6. f \in Fields
    BY <2>2 DEF Fields
  <2>. QED BY <1>1, <2>1, <2>3, <2>4, <2>5, <2>6 DEF ++
<1>2. CASE t = X230
  <2>1. f \in {Cbus[5], Cbus[6], Cbus[7]}
    BY <1>2, SMT DEF Undecoded, R, X230
  <2>2. f \in CbusFields
    BY <2>1, SMT DEF CbusFields
  <2>3. DecodeAt(t) = DecodeCommon ++ Decode230X
    BY <1>2, SMT DEF DecodeAt, AM, BM, C2232, R, H2232, H4232, H232, X230
  <2>4. f \notin DOMAIN Decode230X
    <3>. DEFINE B == [invert |-> At(11, 0, 8)]
                D0 == DecodeGroup(Group0, 12, 0)
                D1 == DecodeGroup(Group1, 12, 4)
                Q == Pins(26, 8, 0, 3)
    <3>1. /\ DOMAIN D0 = {"group0_drive", "group0_slew", "group0_schmitt"}
          /\ DOMAIN D1 = {"group1_drive", "group1_slew", "group1_schmitt"}
          /\ DOMAIN B = {"invert"}
      BY GroupsAre
    <3>2. CbusFields \cap (DOMAIN B \cup DOMAIN D0 \cup DOMAIN D1) = {}
      BY <3>1, Kinds, SMT
    <3>3. HasPins(Q, 26, 8, 0, 3)
      BY PinsAre, SMT
    <3>4. Decode230X = B ++ D0 ++ D1 ++ Q
      BY DEF Decode230X
    <3>. HIDE DEF B, D0, D1, Q
    <3>5. f \notin DOMAIN Q
      <4>1. ASSUME NEW i \in 0..3 PROVE f # Cbus[i + 1]
        BY <2>1, SMT DEF Cbus
      <4>. QED BY <3>3, <4>1 DEF HasPins
    <3>. QED BY <2>2, <3>2, <3>4, <3>5 DEF ++
  <2>5. f \notin DOMAIN DecodeCommon /\ f \in Fields /\ f # "channel_a_type" /\ f # "chip"
    BY <2>2, Kinds, SMT DEF DecodeCommon, Fields
  <2>. QED BY <1>2, <2>3, <2>4, <2>5 DEF ++
<1>3. CASE t \notin {R, X230}
  BY <1>3, SMT DEF Undecoded
<1>. QED BY <1>1, <1>2, <1>3

\* What a decode makes of each value that was built, read or not.
LEMMA ValueRead ==
    ASSUME NEW t \in ChipTypes, NEW values, NEW old, NEW f \in DOMAIN BuildAt(t),
           values[f] \in Legal(t, f)
    PROVE  DecodedValues(t, Header(t, values), old)[f] = ReadAs(t, f, values[f], old[f])
<1>1. CASE f \notin Undecoded(t)
  <2>1. f \in Fields /\ f \in DOMAIN DecodeAt(t)
    BY <1>1, BuildRead DEF Reads
  <2>2. DecodedValues(t, Header(t, values), old)[f] = ReadField(t, Header(t, values), f)
    BY <2>1 DEF DecodedValues
  <2>. QED BY <1>1, <2>2, FieldRead DEF ReadAs
<1>2. CASE f \in Undecoded(t)
  <2>1. f \in Fields /\ f \notin DOMAIN DecodeAt(t) /\ f # "chip"
    BY <1>2, UndecodedAre
  <2>. QED BY <1>2, <2>1 DEF DecodedValues, ReadAs
<1>. QED BY <1>1, <1>2

\* The header leaves out what follows it, and the bytes of a 230X and others that are not its own.
LEMMA HeaderWithin ==
    ASSUME NEW t \in ChipTypes, NEW values, NEW b \in Header(t, values)
    PROVE  b \in Nat /\ b < 8 * FreeStart(t) /\ b \div 8 \notin 14..19
<1>1. CASE b \in FixedBits(t)
  BY <1>1, SMT DEF FixedBits, FreeStart, ChipTypes, AM, BM, C2232, R, H2232, H4232, H232, X230
<1>2. ASSUME NEW g \in DOMAIN BuildAt(t), b \in BitsOf(BuildAt(t)[g], Coded(t, g, values[g]))
      PROVE  b \in Nat /\ b < 8 * FreeStart(t) /\ b \div 8 \notin 14..19
  <2>1. b \in HeaderBits(t)
    <3>. DEFINE p == BuildAt(t)[g]
    <3>1. p[1] \in Nat /\ p[2] \in Nat /\ Span(p) \subseteq HeaderBits(t)
      BY BuildSits DEF Sits
    <3>. HIDE DEF p
    <3>2. BitsOf(p, Coded(t, g, values[g])) \subseteq Span(p)
      BY <3>1, BitsAre
    <3>. QED BY <1>2, <3>1, <3>2 DEF p
  <2>2. FreeStart(t) \in 20..33
    BY SMT DEF FreeStart, ChipTypes, AM, BM, C2232, R, H2232, H4232, H232, X230
  <2>. QED BY <2>1, <2>2, SMT DEF HeaderBits
<1>. QED BY <1>1, <1>2 DEF Header

-----------------------------------------------------------------------------
(* What the two tables promise together.                                   *)

LEMMA MaxOfLegal ==
    ASSUME NEW t, NEW f \in Fields
    PROVE  0 \in Legal(t, f) /\ Max(Legal(t, f)) \in Legal(t, f)
<1>1. ASSUME NEW S, NEW m \in S, \A y \in S : m >= y PROVE Max(S) \in S
  BY <1>1 DEF Max
<1>. DEFINE S == Legal(t, f)
<1>2. CASE f \in Flags
  <2>1. S = {0, 1}
    BY <1>2, LegalIs
  <2>. QED BY <1>1, <2>1
<1>3. CASE f \in Drives
  <2>1. S = {0, 1, 2, 3}
    BY <1>3, LegalIs
  <2>. QED BY <1>1, <2>1
<1>4. CASE f \in ChannelTypes
  <2>1. S = IF t = H232 THEN {0, 1, 2, 4, 8} ELSE IF t = R THEN {0, 1} ELSE {0, 1, 2, 4}
    BY <1>4, LegalIs
  <2>. QED BY <1>1, <2>1
<1>5. CASE f \in CbusFields
  <2>1. \/ S = {0, 9, 21}
        \/ S = {0, 9}
        \/ S = {0, 5, 12}
    BY <1>5, LegalOfPins
  <2>. QED BY <1>1, <2>1
<1>6. CASE f \in Numbers
  <2>1. \/ S = {0, 90, 256, 510}
        \/ S = {0, 70, 129, 255}
        \/ S = {0, 255, 32769, 65535}
    BY <1>6, LegalIs DEF Numbers
  <2>. HIDE DEF S
  <2>2. 0 \in S /\ Max(S) \in S
    BY <1>1, <2>1, SMT
  <2>. QED BY <2>2 DEF S
<1>. QED BY <1>2, <1>3, <1>4, <1>5, <1>6 DEF Fields

\* Values and fixed bits of every chip type, whatever the corners.
LEMMA ValuesKept ==
    ASSUME NEW t \in ChipTypes
    PROVE  KeepsValues(t)
<1>. SUFFICES ASSUME NEW high \in BOOLEAN, NEW f \in DOMAIN BuildAt(t), NEW v \in Legal(t, f)
              PROVE  LET values == [Corner(t, high) EXCEPT ![f] = v]
                         old == Corner(t, ~high)
                         header == Header(t, values)
                         read == DecodedValues(t, header, old)
                     IN  /\ \A g \in DOMAIN BuildAt(t) : read[g] = ReadAs(t, g, values[g], old[g])
                         /\ \A bit \in header : bit < 8 * FreeStart(t) /\ bit \div 8 \notin 14..19
  BY DEF KeepsValues
<1>1. PICK values, old : values = [Corner(t, high) EXCEPT ![f] = v] /\ old = Corner(t, ~high)
  OBVIOUS
<1>2. DOMAIN BuildAt(t) \subseteq Fields
  BY BuildRead, UndecodedAre DEF Reads
<1>3. ASSUME NEW g \in DOMAIN BuildAt(t) PROVE values[g] \in Legal(t, g)
  <2>1. g \in Fields
    BY <1>2
  <2>2. CASE g = f
    BY <1>1, <2>1, <2>2 DEF Corner
  <2>3. CASE g # f
    BY <1>1, <2>1, <2>3, MaxOfLegal DEF Corner
  <2>. QED BY <2>2, <2>3
<1>4. ASSUME NEW g \in DOMAIN BuildAt(t)
      PROVE  DecodedValues(t, Header(t, values), old)[g] = ReadAs(t, g, values[g], old[g])
  BY <1>3, ValueRead
<1>. QED BY <1>1, <1>4, HeaderWithin

\* Strings as long as the builder accepts them, between header and checksum; and what is
\* behind them.
LEMMA StringsKept ==
    ASSUME NEW t \in ChipTypes
    PROVE  KeepsStrings(t)
<1>. SUFFICES ASSUME NEW size \in IF t = X230 THEN {256} ELSE {128, 256},
                     NEW chars \in 0..UserArea(t) \div 2
              PROVE  LET free == FreeStart(t)..size - 3
                         pnp == PnpBytes(t, chars, size)
                     IN  /\ StringBytes(t, chars, size) \subseteq free
                         /\ pnp \cap StringBytes(t, chars, size) = {}
                         /\ pnp \subseteq free \cup AssignedLast(t, size)
                         /\ pnp # {} => /\ PnpAt(t, chars, size) \in pnp
                                        /\ PnpAt(t, chars, size) \in AssignedLast(t, size) <=>
                                            (t = R /\ chars >= 47) \/ (t = X230 /\ chars >= 43)
  BY DEF KeepsStrings
<1>1. PICK area, at, free : UserArea(t) = area /\ StringsAt(t) = at /\ FreeStart(t) = free
  OBVIOUS
<1>2. \/ t \in {AM, BM} /\ area = 96 /\ at = 148 /\ free = 20
      \/ t = C2232 /\ area = 90 /\ at = 150 /\ free = 21
      \/ t = R /\ area = 96 /\ at = 152 /\ free = 23
      \/ t \in {H2232, H4232} /\ area = 86 /\ at = 154 /\ free = 25
      \/ t = H232 /\ area = 80 /\ at = 160 /\ free = 31
      \/ t = X230 /\ area = 88 /\ at = 160 /\ free = 33 /\ size = 256
  BY <1>1, SMT DEF ChipTypes, UserArea, StringsAt, FreeStart, AM, BM, C2232, R, H2232, H4232, H232, X230
<1>3. size \in {128, 256} /\ chars \in 0..(area \div 2)
  BY <1>1
\* The m-th byte of the strings and of the three behind them, counted from 0.
<1>. DEFINE B(m) == (at + m) % size
<1>4. PICK off : off = IF size = 128 THEN 128 ELSE 0
  OBVIOUS
<1>5. ASSUME NEW m \in 0..2 * chars + 8
      PROVE  /\ B(m) = IF at + m < 256 THEN at + m - off ELSE 0
             /\ at + m <= 256 /\ at + m - off >= free
  <2>1. at + m \in Nat /\ at + m <= 256 /\ (size = 128 => at + m >= 128 + free) /\ at + m >= free
    BY <1>2, <1>3, SMT
  <2>2. CASE size = 128
    <3>1. at + m < 256 => (at + m) % 128 = at + m - 128
      BY <2>1, <2>2, <1>2, SMT
    <3>2. at + m = 256 => (at + m) % 128 = 0
      BY <2>1, SMT
    <3>3. at + m < 256 \/ at + m = 256
      BY <2>1, SMT
    <3>4. off = 128
      BY <1>4, <2>2
    <3>5. B(m) = (at + m) % 128
      BY <2>2
    <3>. HIDE DEF B
    <3>6. B(m) = IF at + m < 256 THEN at + m - off ELSE 0
      BY <3>1, <3>2, <3>3, <3>4, <3>5, <2>1, SMT
    <3>. QED BY <1>2, <2>2, <2>1, <3>4, <3>6, SMT
  <2>3. CASE size = 256
    <3>1. at + m < 256 => (at + m) % 256 = at + m
      BY <2>1, SMT
    <3>2. at + m = 256 => (at + m) % 256 = 0
      BY <2>1, SMT
    <3>3. at + m < 256 \/ at + m = 256
      BY <2>1, SMT
    <3>4. off = 0
      BY <1>4, <2>3
    <3>5. B(m) = (at + m) % 256
      BY <2>3
    <3>. HIDE DEF B
    <3>6. B(m) = IF at + m < 256 THEN at + m - off ELSE 0
      BY <3>1, <3>2, <3>3, <3>4, <3>5, <2>1, SMT
    <3>. QED BY <1>2, <2>3, <2>1, <3>4, <3>6, SMT
  <2>. QED BY <1>3, <2>2, <2>3
<1>6. /\ StringBytes(t, chars, size) = {B(n) : n \in 0..2 * chars + 5}
      /\ PnpBytes(t, chars, size) = IF t \in {AM, BM} THEN {} ELSE {B(2 * chars + 6 + k) : k \in 0..2}
      /\ PnpAt(t, chars, size) = B(2 * chars + 8)
  <2>1. \A k \in 0..2 : at + 2 * chars + 6 + k = at + (2 * chars + 6 + k)
    BY <1>2, <1>3, SMT
  <2>2. at + 2 * chars + 8 = at + (2 * chars + 8)
    BY <1>2, <1>3, SMT
  <2>. QED BY <1>1, <2>1, <2>2 DEF StringBytes, PnpBytes, PnpAt
<1>7. AssignedLast(t, size) = {size - 2, size - 1} \cup (IF t \in {AM, BM, H4232} THEN {} ELSE {0})
  BY DEF AssignedLast
<1>. HIDE DEF B
<1>8. ASSUME NEW n \in 0..2 * chars + 5
      PROVE  B(n) = at + n - off /\ B(n) \in free..size - 3 /\ at + n <= 253
  <2>1. n \in 0..2 * chars + 8 /\ at + n <= 253
    BY <1>2, <1>3, SMT
  <2>. QED BY <1>2, <1>3, <1>4, <1>5, <2>1, SMT
<1>9. ASSUME NEW k \in 0..2, t \notin {AM, BM}
      PROVE  /\ B(2 * chars + 6 + k) \in (free..size - 3) \cup AssignedLast(t, size)
             /\ \A n \in 0..2 * chars + 5 : B(n) # B(2 * chars + 6 + k)
  <2>. DEFINE m == 2 * chars + 6 + k
  <2>1. m \in 0..2 * chars + 8 /\ m \in Int
    BY <1>2, <1>3, SMT
  <2>2. /\ B(m) = IF at + m < 256 THEN at + m - off ELSE 0
        /\ at + m <= 256 /\ at + m - off >= free
    BY <1>5, <2>1
  <2>3. at + m = 256 => t \in {R, X230}
    BY <1>2, <1>3, SMT
  <2>4. B(m) \in (free..size - 3) \cup AssignedLast(t, size)
    <3>1. at + m = 256 => 0 \in AssignedLast(t, size)
      BY <1>7, <2>3, SMT DEF AM, BM, H4232, R, X230
    <3>2. \/ at + m <= 253 /\ B(m) \in free..size - 3
          \/ at + m \in {254, 255} /\ B(m) \in {size - 2, size - 1}
          \/ at + m = 256 /\ B(m) = 0
      BY <1>2, <1>3, <1>4, <2>1, <2>2, SMT
    <3>. QED BY <1>7, <3>1, <3>2
  <2>5. ASSUME NEW n \in 0..2 * chars + 5 PROVE B(n) # B(m)
    <3>1. B(n) = at + n - off /\ at + n - off >= free /\ n < m /\ n \in Int
      BY <1>2, <1>3, <1>4, <1>8, SMT
    <3>. QED BY <1>2, <1>4, <2>1, <2>2, <3>1, SMT
  <2>. QED BY <2>4, <2>5
<1>10. ASSUME t \notin {AM, BM}
       PROVE  B(2 * chars + 8) \in AssignedLast(t, size) <=>
                (t = R /\ chars >= 47) \/ (t = X230 /\ chars >= 43)
  <2>. DEFINE m == 2 * chars + 8
  <2>1. m \in 0..2 * chars + 8 /\ m \in Int
    BY <1>2, <1>3, SMT
  <2>2. /\ B(m) = IF at + m < 256 THEN at + m - off ELSE 0
        /\ at + m <= 256 /\ at + m - off >= free
    BY <1>5, <2>1
  <2>3. at + m >= 254 <=> (t = R /\ chars >= 47) \/ (t = X230 /\ chars >= 43)
    BY <1>2, <1>3, <1>10, SMT DEF AM, BM, C2232, R, H2232, H4232, H232, X230
  <2>4. at + m < 254 => B(m) \notin {size - 2, size - 1, 0}
    BY <1>2, <1>3, <1>4, <2>1, <2>2, SMT
  <2>5. at + m >= 254 => \/ B(m) \in {size - 2, size - 1}
                         \/ B(m) = 0 /\ at + m = 256
    BY <1>2, <1>3, <1>4, <2>1, <2>2, SMT
  <2>6. at + m >= 254 => t \notin {AM, BM, H4232}
    BY <2>3, SMT DEF AM, BM, H4232, R, X230
  <2>7. at + m < 254 \/ at + m >= 254
    BY <1>2, <2>1, SMT
  <2>. QED BY <1>7, <2>3, <2>4, <2>5, <2>6, <2>7
<1>11. 2 * chars + 6 + 2 = 2 * chars + 8
  BY <1>2, <1>3, SMT
<1>12. CASE t \in {AM, BM}
  BY <1>1, <1>6, <1>8, <1>12
<1>13. CASE t \notin {AM, BM}
  <2>1. StringBytes(t, chars, size) \subseteq FreeStart(t)..size - 3
    BY <1>1, <1>6, <1>8
  <2>2. PnpBytes(t, chars, size) = {B(2 * chars + 6 + k) : k \in 0..2}
    BY <1>6, <1>13
  <2>3. PnpBytes(t, chars, size) \cap StringBytes(t, chars, size) = {}
    BY <1>6, <1>9, <1>13, <2>2
  <2>4. PnpBytes(t, chars, size) \subseteq (FreeStart(t)..size - 3) \cup AssignedLast(t, size)
    BY <1>1, <1>9, <1>13, <2>2
  <2>5. B(2 * chars + 8) \in PnpBytes(t, chars, size)
    <3>1. 2 \in 0..2
      BY SMT
    <3>. QED BY <1>11, <2>2, <3>1
  <2>. QED BY <1>6, <1>10, <1>13, <2>1, <2>3, <2>4, <2>5
<1>. QED BY <1>12, <1>13
=============================================================================
