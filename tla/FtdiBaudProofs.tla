--------------------------- MODULE FtdiBaudProofs ---------------------------
(***************************************************************************)
(* Theorems about FtdiBaud, for every set of rates: whatever an            *)
(* application asks for, the chip runs at the rate the driver believes.    *)
(***************************************************************************)
EXTENDS FtdiBaud, TLAPS

-----------------------------------------------------------------------------
(* Division.                                                               *)

LEMMA DivIs ==
    ASSUME NEW n \in Nat, NEW d \in Nat \ {0}
    PROVE  /\ n \div d \in Nat /\ n % d \in 0..(d - 1)
           /\ n = d * (n \div d) + (n % d)
BY Z3

LEMMA TimesMonotonic ==
    ASSUME NEW a \in Nat, NEW b \in Nat, NEW c \in Nat, NEW d \in Nat, a <= c, b <= d
    PROVE  a * b <= c * d
<1>1. a * b <= c * b
  BY Z3
<1>2. c * b <= c * d
  BY Z3
<1>3. a * b \in Int /\ c * b \in Int /\ c * d \in Int
  OBVIOUS
<1>. QED BY <1>1, <1>2, <1>3

\* The quotient is the number that leaves a remainder.
LEMMA DivIsUnique ==
    ASSUME NEW n \in Nat, NEW d \in Nat \ {0}, NEW k \in Nat, NEW r \in 0..(d - 1), n = d * k + r
    PROVE  n \div d = k
<1> DEFINE q == n \div d
           s == n % d
<1>1. q \in Nat /\ s \in 0..(d - 1) /\ n = d * q + s
  BY DivIs
<1>. HIDE DEF q, s
<1>2. ~(q < k)
  <2>. SUFFICES ASSUME q + 1 <= k PROVE FALSE
    BY <1>1
  <2>1. d * (q + 1) <= d * k
    BY <1>1, TimesMonotonic
  <2>2. d * (q + 1) = d * q + d
    BY <1>1
  <2>. QED BY <1>1, <2>1, <2>2
<1>3. ~(k < q)
  <2>. SUFFICES ASSUME k + 1 <= q PROVE FALSE
    BY <1>1
  <2>1. d * (k + 1) <= d * q
    BY <1>1, TimesMonotonic
  <2>2. d * (k + 1) = d * k + d
    OBVIOUS
  <2>. QED BY <1>1, <2>1, <2>2
<1>. QED BY <1>1, <1>2, <1>3 DEF q

\* Rounding the last bit of a doubled quotient rounds the quotient to the nearest.
LEMMA RoundHalfRounds ==
    ASSUME NEW base \in Nat, NEW total \in Nat, total = 2 * base, NEW d \in Nat \ {0}
    PROVE  RoundHalf(total \div d) = (base + (d \div 2)) \div d
<1> DEFINE q == total \div d
           r == total % d
           h == d \div 2
           e == d % 2
<1>1. q \in Nat /\ r \in 0..(d - 1) /\ 2 * base = d * q + r
  BY DivIs
<1>2. h \in Nat /\ e \in {0, 1} /\ d = 2 * h + e
  BY DivIs
<1>. HIDE DEF q, r, h, e
<1>3. PICK k \in Nat : q = 2 * k \/ q = 2 * k + 1
  <2>1. q = 2 * (q \div 2) + (q % 2) /\ q % 2 \in {0, 1} /\ q \div 2 \in Nat
    BY <1>1, DivIs
  <2>. QED BY <2>1, <1>1
<1> DEFINE p == d * k
<1>4. p \in Nat
  BY <1>3
<1>5. CASE q = 2 * k
  <2>1. d * q = 2 * p
    BY <1>5, <1>3
  <2>. HIDE DEF p
  <2> DEFINE x == base + h - p
  <2>2. 2 * base = 2 * p + r
    BY <1>1, <2>1
  <2>3. x \in 0..(d - 1) /\ base + h = p + x
    BY <1>1, <1>2, <1>4, <2>2
  <2>. HIDE DEF x
  <2>4. base + h = d * k + x /\ base + h \in Nat
    BY <2>3, <1>2 DEF p
  <2>5. (base + h) \div d = k
    BY <2>3, <2>4, <1>3, DivIsUnique
  <2>6. RoundHalf(q) = k
    BY <1>5, <1>3 DEF RoundHalf
  <2>. QED BY <2>5, <2>6 DEF q, h
<1>6. CASE q = 2 * k + 1
  <2>1. d * q = 2 * p + d
    BY <1>6, <1>3
  <2>. HIDE DEF p
  <2> DEFINE x == base + h - p - d
  <2>2. 2 * base = 2 * p + d + r
    BY <1>1, <2>1
  <2>3. x \in 0..(d - 1) /\ base + h = p + d + x
    BY <1>1, <1>2, <1>4, <2>2
  <2>. HIDE DEF x
  <2>4. base + h = d * (k + 1) + x /\ base + h \in Nat /\ k + 1 \in Nat
    BY <2>3, <1>2, <1>3 DEF p
  <2>5. (base + h) \div d = k + 1
    BY <2>3, <2>4, DivIsUnique
  <2>6. RoundHalf(q) = k + 1
    BY <1>6, <1>3 DEF RoundHalf
  <2>. QED BY <2>5, <2>6 DEF q, h
<1>. QED BY <1>3, <1>5, <1>6

\* The divisor it gives is the one closest to base / b.
LEMMA RoundHalfIsClosest ==
    ASSUME NEW base \in Nat, NEW total \in Nat, total = 2 * base, NEW b \in Nat \ {0}
    PROVE  LET d == RoundHalf(total \div b) IN d \in Nat /\ 2 * Abs(base - d * b) <= b
<1> DEFINE q == total \div b
           r == total % b
<1>1. q \in Nat /\ r \in 0..(b - 1) /\ 2 * base = b * q + r
  BY DivIs
<1>. HIDE DEF q, r
<1>3. PICK k \in Nat : q = 2 * k \/ q = 2 * k + 1
  <2>1. q = 2 * (q \div 2) + (q % 2) /\ q % 2 \in {0, 1} /\ q \div 2 \in Nat
    BY <1>1, DivIs
  <2>. QED BY <2>1, <1>1
<1> DEFINE p == b * k
<1>4. p \in Nat
  BY <1>3
<1>5. CASE q = 2 * k
  <2>1. b * q = 2 * p /\ k * b = p
    BY <1>5, <1>3
  <2>. HIDE DEF p
  <2>2. 2 * Abs(base - p) <= b
    BY <1>1, <1>4, <2>1 DEF Abs
  <2>3. RoundHalf(q) = k
    BY <1>5, <1>3 DEF RoundHalf
  <2>. QED BY <1>3, <2>1, <2>2, <2>3 DEF q
<1>6. CASE q = 2 * k + 1
  <2>1. b * q = 2 * p + b /\ (k + 1) * b = p + b
    BY <1>6, <1>3
  <2>. HIDE DEF p
  <2>2. 2 * Abs(base - (p + b)) <= b
    BY <1>1, <1>4, <2>1 DEF Abs
  <2>3. RoundHalf(q) = k + 1
    BY <1>6, <1>3 DEF RoundHalf
  <2>. QED BY <1>3, <2>1, <2>2, <2>3 DEF q
<1>. QED BY <1>3, <1>5, <1>6

-----------------------------------------------------------------------------
(* Coding.                                                                 *)

\* The divisors the functions below choose among, in eighths.
Divisors == {8, 12} \cup {d \in Nat : 16 <= d /\ d <= 131071}

CodeOf(d) == IF d = 8 THEN Encode(0, 0) ELSE IF d = 12 THEN Encode(1, 0) ELSE EncodeDivisor(d)

\* The rate a divisor gives.
RateOf(base, d) == (base + (d \div 2)) \div d

\* No divisor is coded in more than 14 and 3 bits, and none as another.
LEMMA FractionCodes ==
    ASSUME NEW f \in 0..7
    PROVE  LET c == (<<0, 3, 2, 4, 1, 5, 6, 7>>)[f + 1] IN c \in 0..7 /\ Eighths(c) = f
<1>1. f = 0 \/ f = 1 \/ f = 2 \/ f = 3 \/ f = 4 \/ f = 5 \/ f = 6 \/ f = 7
  BY SMT
<1>. QED BY <1>1, SMT DEF Eighths

LEMMA FractionalCodeFits ==
    ASSUME NEW d \in Nat, 16 <= d, d <= 131071
    PROVE  /\ EncodeDivisor(d).low \in Nat /\ 2 <= EncodeDivisor(d).low /\ EncodeDivisor(d).low <= 16383 /\ EncodeDivisor(d).frac \in 0..7
           /\ d = 8 * EncodeDivisor(d).low + Eighths(EncodeDivisor(d).frac)
<1> DEFINE w == d \div 8
           f == d % 8
           c == frac_code(d)
<1>1. w \in Nat /\ 2 <= w /\ w <= 16383 /\ f \in 0..7 /\ d = 8 * w + f
  BY SMT
<1>2. c = (<<0, 3, 2, 4, 1, 5, 6, 7>>)[f + 1]
  BY SMT DEF frac_code
<1>3. EncodeDivisor(d) = [low |-> w % 16384, frac |-> c + (w \div 16384)]
  BY SMT DEF EncodeDivisor, Encode
<1>. HIDE DEF w, f, c
<1>4. c \in 0..7 /\ Eighths(c) = f
  BY <1>1, <1>2, FractionCodes, SMT
<1>5. w % 16384 = w /\ w \div 16384 = 0
  BY <1>1, SMT
<1>6. EncodeDivisor(d) = [low |-> w, frac |-> c]
  BY <1>3, <1>4, <1>5, SMT
<1>. QED BY <1>1, <1>4, <1>6, SMT

LEMMA CodeFits ==
    ASSUME NEW d \in Divisors
    PROVE  /\ CodeOf(d).low \in Nat /\ CodeOf(d).low <= 16383 /\ CodeOf(d).frac \in 0..7
           /\ d = 8 => CodeOf(d) = [low |-> 0, frac |-> 0]
           /\ d = 12 => CodeOf(d) = [low |-> 1, frac |-> 0]
           /\ d \notin {8, 12} => CodeOf(d).low >= 2
           /\ d \notin {8, 12} => d = 8 * CodeOf(d).low + Eighths(CodeOf(d).frac)
<1>1. CASE d = 8
  BY <1>1, SMT DEF CodeOf, Encode
<1>2. CASE d = 12
  BY <1>2, SMT DEF CodeOf, Encode
<1>3. CASE d \in Nat /\ 16 <= d /\ d <= 131071
  <2>1. CodeOf(d) = EncodeDivisor(d)
    BY <1>3, SMT DEF CodeOf
  <2>2. /\ EncodeDivisor(d).low \in Nat /\ 2 <= EncodeDivisor(d).low /\ EncodeDivisor(d).low <= 16383 /\ EncodeDivisor(d).frac \in 0..7
        /\ d = 8 * EncodeDivisor(d).low + Eighths(EncodeDivisor(d).frac)
    BY <1>3, FractionalCodeFits, SMT
  <2>3. d # 8 /\ d # 12
    BY <1>3, SMT
  <2>. QED BY <2>1, <2>2, <2>3, SMT
<1>. QED BY <1>1, <1>2, <1>3, SMT DEF Divisors

\* What the chip makes of a request is what was meant by it.
LEMMA ChipDecodes ==
    ASSUME NEW d \in Divisors, NEW b, FastClock(b) \in BOOLEAN, chip = Request(b, CodeOf(d))
    PROVE  /\ chip.value \in Nat /\ chip.value <= 65535 /\ chip.index \in Nat /\ chip.index <= 65535 
           /\ chip # NoRequest
           /\ ChipDivisor = d
           /\ ChipBase = IF FastClock(b) THEN 96000000 ELSE 24000000
<1> DEFINE low == CodeOf(d).low
           frac == CodeOf(d).frac
           a == frac % 4
           top == frac \div 4
           fast == IF FastClock(b) THEN 2 ELSE 0
<1>1. low \in Nat /\ low <= 16383 /\ frac \in 0..7
  BY CodeFits, SMT
<1>2. a \in 0..3 /\ top \in {0, 1} /\ frac = 4 * top + a /\ fast \in {0, 2}
  BY <1>1, SMT
<1>3. chip = [value |-> low + 16384 * a, index |-> IF type \in HTypes THEN 256 * (top + fast) ELSE top + fast]
  BY SMT DEF Request
<1>4. d = 8 => low = 0 /\ frac = 0
  BY CodeFits, SMT
<1>5. d = 12 => low = 1 /\ frac = 0
  BY CodeFits, SMT
<1>6. d \notin {8, 12} => low >= 2 /\ d = 8 * low + Eighths(frac)
  BY CodeFits, SMT
<1>7. fast = 2 <=> FastClock(b)
  BY SMT
<1>. HIDE DEF low, frac, a, top, fast
<1>8. chip.value % 16384 = low /\ chip.value \div 16384 = a
  BY <1>1, <1>2, <1>3, SMT
<1>9. High(chip.index) = top + fast
  <2>1. (256 * (top + fast)) \div 256 = top + fast
    BY <1>2, SMT
  <2>. QED BY <1>3, <2>1, SMT DEF High
<1>10. High(chip.index) % 2 = top /\ (High(chip.index) >= 2 <=> FastClock(b))
  BY <1>2, <1>7, <1>9, SMT
<1>11. ChipDivisor = d
  <2>1. ChipDivisor = IF frac = 0 /\ low = 0 THEN 8 ELSE IF frac = 0 /\ low = 1 THEN 12 ELSE 8 * low + Eighths(frac)
    <3>1. chip.value \div 16384 + 4 * (High(chip.index) % 2) = frac
      BY <1>2, <1>8, <1>10, SMT
    <3>. QED BY <1>8, <3>1, SMT DEF ChipDivisor
  <2>. QED BY <2>1, <1>1, <1>4, <1>5, <1>6, SMT
<1>12. ChipBase = IF FastClock(b) THEN 96000000 ELSE 24000000
  BY <1>10, SMT DEF ChipBase
<1>13. chip.value \in Nat /\ chip.value <= 65535 /\ chip.index \in Nat /\ chip.index <= 65535
  BY <1>1, <1>2, <1>3, SMT
<1>14. chip # NoRequest
  <2>1. chip.value >= 0
    BY <1>1, <1>2, <1>3, SMT
  <2>. QED BY <2>1, SMT DEF NoRequest
<1>. QED BY <1>11, <1>12, <1>13, <1>14, SMT

-----------------------------------------------------------------------------
(* The choice of a divisor.                                                *)

\* A choice is good if the chip, given its code, makes the rate that came with it.
GoodChoice(choice, base, b) ==
    \E d \in Divisors :
        /\ choice.encoded = CodeOf(d) /\ choice.baud = RateOf(base, d)
        /\ d > 16 /\ d < 131071 => 2 * Abs(base - d * b) <= b

LEMMA GoodDivisor ==
    ASSUME NEW base, NEW b, NEW d \in Divisors, NEW encoded, encoded = CodeOf(d), NEW baud, baud = RateOf(base, d),
           d > 16 /\ d < 131071 => 2 * Abs(base - d * b) <= b
    PROVE  GoodChoice(Choice(encoded, baud), base, b)
BY SMT DEF GoodChoice, Choice

LEMMA RoundsToRate ==
    ASSUME NEW base \in Nat, NEW total \in Nat, total = 2 * base, NEW d \in Nat \ {0}
    PROVE  RoundHalf(total \div d) = RateOf(base, d)
BY RoundHalfRounds DEF RateOf

\* No rate is so low that it would round to 131072 eighths, the only divisor whose
\* code would run into the fraction: for either clock there is a gap there.
LEMMA NotCoded ==
    ASSUME NEW total \in Nat, NEW b \in Nat, NEW q \in Nat, NEW r \in Nat, NEW s \in Nat,
           total = b * q + r, r < b, q = 262143 \/ q = 262144,
           262145 * s <= total, total < 262143 * (s + 1)
    PROVE  FALSE
<1>1. CASE b <= s
  <2>1. q + 1 <= 262145
    BY SMT
  <2>2. b * (q + 1) <= s * 262145
    BY <1>1, <2>1, TimesMonotonic, SMT
  <2>3. b * (q + 1) = b * q + b
    BY SMT
  <2>. QED BY <2>2, <2>3, SMT
<1>2. CASE s + 1 <= b
  <2>1. (s + 1) * 262143 <= b * q
    BY <1>2, TimesMonotonic, SMT
  <2>. QED BY <2>1, SMT
<1>. QED BY <1>1, <1>2, SMT

\* The divisor in general: rounded to the closest, and not beyond the last.
LEMMA GoodQuotient ==
    ASSUME NEW base \in Nat, NEW total \in Nat, total = 2 * base, NEW b \in Nat, b > 0, 16 * b < base,
           NEW s \in Nat, 262145 * s <= total, total < 262143 * (s + 1)
    PROVE  LET rounded == RoundHalf(total \div b)
               d == IF rounded > 131072 THEN 131071 ELSE rounded
           IN  GoodChoice(Choice(EncodeDivisor(d), RoundHalf(total \div d)), base, b)
<1> DEFINE q == total \div b
           r == total % b
           rounded == RoundHalf(q)
           d == IF rounded > 131072 THEN 131071 ELSE rounded
<1>1. q \in Nat /\ r \in Nat /\ r < b /\ total = b * q + r
  BY DivIs, SMT
<1>2. rounded \in Nat /\ 2 * Abs(base - rounded * b) <= b
  BY RoundHalfIsClosest, SMT
<1>3. q = 262143 \/ q = 262144 <=> rounded = 131072
  <2>. HIDE DEF q
  <2>. QED BY <1>1, SMT DEF RoundHalf
<1>4. 32 <= q
  <2>. SUFFICES ASSUME q + 1 <= 32 PROVE FALSE
    BY <1>1, SMT
  <2>. HIDE DEF q, r
  <2>1. b * (q + 1) <= b * 32
    BY <1>1, TimesMonotonic, SMT
  <2>2. b * (q + 1) = b * q + b
    BY <1>1, SMT
  <2>. QED BY <1>1, <2>1, <2>2, SMT
<1>5. 16 <= rounded
  <2>. HIDE DEF q
  <2>. QED BY <1>1, <1>4, SMT DEF RoundHalf
<1>. HIDE DEF q, r
<1>6. rounded # 131072
  BY <1>1, <1>3, NotCoded, SMT
<1>. HIDE DEF rounded
<1>7. d \in Nat /\ 16 <= d /\ d <= 131071 /\ d \in Divisors
  BY <1>2, <1>5, <1>6, SMT DEF Divisors
<1>8. EncodeDivisor(d) = CodeOf(d)
  <2>1. d # 8 /\ d # 12
    BY <1>7, SMT
  <2>. HIDE DEF d
  <2>. QED BY <2>1, SMT DEF CodeOf
<1>9. RoundHalf(total \div d) = RateOf(base, d)
  <2>. HIDE DEF d
  <2>1. d \in Nat \ {0}
    BY <1>7, SMT
  <2>. QED BY <2>1, RoundsToRate
<1>10. d > 16 /\ d < 131071 => 2 * Abs(base - d * b) <= b
  BY <1>2, <1>6, SMT
<1>11. GoodChoice(Choice(EncodeDivisor(d), RoundHalf(total \div d)), base, b)
  <2>. HIDE DEF d
  <2>. QED BY <1>7, <1>8, <1>9, <1>10, GoodDivisor, SMT
<1>. QED BY <1>11, SMT DEF d, rounded, q

\* What the choice needs of a clock: base is 8 times clk / clk_div, the special divisors
\* give what is returned for them, and s and s + 1 enclose the gap above.
ClockFits(clk, clk_div, base, s) ==
    /\ base \in Nat /\ s \in Nat
    /\ clk \div clk_div \in Nat /\ RateOf(base, 8) = clk \div clk_div
    /\ clk \div (clk_div + (clk_div \div 2)) \in Nat
    /\ RateOf(base, 12) = clk \div (clk_div + (clk_div \div 2))
    /\ clk \div (2 * clk_div) \in Nat /\ RateOf(base, 16) = clk \div (2 * clk_div)
    /\ 16 * (clk \div (2 * clk_div)) <= base
    /\ (clk * 16) \div clk_div = 2 * base
    /\ 262145 * s <= 2 * base /\ 2 * base < 262143 * (s + 1)

\* ftdi_to_clkbits.
LEMMA GoodClkbits ==
    ASSUME NEW b \in Nat, b > 0, NEW clk, NEW clk_div, NEW base, NEW s, ClockFits(clk, clk_div, base, s)
    PROVE  GoodChoice(to_clkbits(b, clk, clk_div), base, b)
<1> DEFINE top == clk \div clk_div
           second == clk \div (clk_div + (clk_div \div 2))
           third == clk \div (2 * clk_div)
           total == (clk * 16) \div clk_div
           rounded == RoundHalf(total \div b)
           d == IF rounded > 131072 THEN 131071 ELSE rounded
           general == Choice(EncodeDivisor(d), RoundHalf(total \div d))
           choice == to_clkbits(b, clk, clk_div)
<1>1. choice = IF b >= top THEN Choice(Encode(0, 0), top)
               ELSE IF b >= second THEN Choice(Encode(1, 0), second)
               ELSE IF b >= third THEN Choice(Encode(2, 0), third)
               ELSE general
  BY SMT DEF to_clkbits
<1>0. /\ base \in Nat /\ s \in Nat
      /\ top \in Nat /\ RateOf(base, 8) = top
      /\ second \in Nat /\ RateOf(base, 12) = second
      /\ third \in Nat /\ RateOf(base, 16) = third /\ 16 * third <= base
      /\ total \in Nat /\ total = 2 * base
      /\ 262145 * s <= total /\ total < 262143 * (s + 1)
  BY SMT DEF ClockFits
<1>. HIDE DEF top, second, third, total
<1>2. 8 \in Divisors /\ 12 \in Divisors /\ 16 \in Divisors
  BY SMT DEF Divisors
<1>3. Encode(0, 0) = CodeOf(8) /\ Encode(1, 0) = CodeOf(12) /\ Encode(2, 0) = CodeOf(16)
  BY SMT DEF CodeOf, EncodeDivisor, Encode, frac_code
<1>4. GoodChoice(Choice(Encode(0, 0), top), base, b)
  BY <1>0, <1>2, <1>3, GoodDivisor, SMT
<1>5. GoodChoice(Choice(Encode(1, 0), second), base, b)
  BY <1>0, <1>2, <1>3, GoodDivisor, SMT
<1>6. GoodChoice(Choice(Encode(2, 0), third), base, b)
  BY <1>0, <1>2, <1>3, GoodDivisor, SMT
<1>7. ~(b >= third) => GoodChoice(general, base, b)
  <2>1. ~(b >= third) => 16 * b < base
    BY <1>0, SMT
  <2>. QED BY <1>0, <2>1, GoodQuotient, SMT
<1>. HIDE DEF general, choice
<1>8. GoodChoice(choice, base, b)
  BY <1>1, <1>4, <1>5, <1>6, <1>7, SMT
<1>. QED BY <1>8 DEF choice

\* The 120 MHz clock of an H type chip, and the 48 MHz of the others.
LEMMA GoodFastChoice ==
    ASSUME NEW b \in Nat, b > 0
    PROVE  GoodChoice(to_clkbits(b, 120000000, 10), 96000000, b)
<1> DEFINE clk == 120000000
           clk_div == 10
           base == 96000000
           s == 732
<1>1. ClockFits(clk, clk_div, base, s)
  BY SMT DEF ClockFits, RateOf
<1>. HIDE DEF clk, clk_div, base, s
<1>2. GoodChoice(to_clkbits(b, clk, clk_div), base, b)
  BY <1>1, GoodClkbits
<1>. QED BY <1>2, SMT DEF clk, clk_div, base

LEMMA GoodSlowChoice ==
    ASSUME NEW b \in Nat, b > 0
    PROVE  GoodChoice(to_clkbits(b, 48000000, 16), 24000000, b)
<1> DEFINE clk == 48000000
           clk_div == 16
           base == 24000000
           s == 183
<1>1. ClockFits(clk, clk_div, base, s)
  BY SMT DEF ClockFits, RateOf
<1>. HIDE DEF clk, clk_div, base, s
<1>2. GoodChoice(to_clkbits(b, clk, clk_div), base, b)
  BY <1>1, GoodClkbits
<1>. QED BY <1>2, SMT DEF clk, clk_div, base

\* ftdi_to_clkbits_AM: besides, the divisor is one an AM chip has.
LEMMA GoodAMDivisor ==
    ASSUME NEW n \in Nat, NEW i \in {0, 1}
    PROVE  LET d == TryDivisor(AdjustDown(n), i) IN
           /\ d \in Divisors /\ (d = 8 \/ d >= 16)
           /\ d % 8 \in {0, 1, 2, 4}
<1> DEFINE m == AdjustDown(n)
           x == m + i
           u == AdjustUp(x)
           d == TryDivisor(m, i)
<1>1. m \in Nat
  <2> DEFINE f == n % 8
  <2>1. f \in 0..7 /\ f <= n
    BY SMT
  <2>2. m = n - (<<0, 0, 0, 1, 0, 1, 2, 3>>)[f + 1]
    BY SMT DEF AdjustDown
  <2>. HIDE DEF f, m
  <2>3. f = 0 \/ f = 1 \/ f = 2 \/ f = 3 \/ f = 4 \/ f = 5 \/ f = 6 \/ f = 7
    BY <2>1, SMT
  <2>. QED BY <2>1, <2>2, <2>3, SMT
<1>. HIDE DEF m
<1>2. x \in Nat
  BY <1>1, SMT
<1>. HIDE DEF x
<1>3. u \in Nat /\ u >= x /\ u % 8 \in {0, 1, 2, 4}
  <2> DEFINE f == x % 8
             w == x \div 8
  <2>1. f \in 0..7 /\ w \in Nat /\ x = 8 * w + f
    BY <1>2, SMT
  <2>2. u = x + (<<0, 0, 0, 1, 0, 3, 2, 1>>)[f + 1]
    BY SMT DEF AdjustUp
  <2>. HIDE DEF f, u, w
  <2>3. f = 0 \/ f = 1 \/ f = 2 \/ f = 3 \/ f = 4 \/ f = 5 \/ f = 6 \/ f = 7
    BY <2>1, SMT
  <2>4. u = 8 * w \/ u = 8 * w + 1 \/ u = 8 * w + 2 \/ u = 8 * w + 4 \/ u = 8 * w + 8
    BY <2>1, <2>2, <2>3, SMT
  <2>5. u % 8 \in {0, 1, 2, 4}
    BY <2>1, <2>4, SMT
  <2>. QED BY <2>1, <2>2, <2>3, <2>5, SMT
<1>. HIDE DEF u
<1>4. d = IF x <= 8 THEN 8 ELSE IF m < 16 THEN 16 ELSE IF u > 131064 THEN 131064 ELSE u
  BY SMT DEF TryDivisor, u, x
<1>5. m >= 16 => x >= 16
  BY <1>1, SMT DEF x
<1>. HIDE DEF d
<1>6. d \in Nat /\ (d = 8 \/ (16 <= d /\ d <= 131064))
  BY <1>1, <1>2, <1>3, <1>4, <1>5, SMT
<1>7. d \in Divisors /\ (d = 8 \/ d >= 16)
  BY <1>6, SMT DEF Divisors
<1>8. d % 8 \in {0, 1, 2, 4}
  <2>1. 8 % 8 = 0 /\ 16 % 8 = 0 /\ 131064 % 8 = 0
    BY SMT
  <2>2. d = 8 \/ d = 16 \/ d = 131064 \/ d = u
    BY <1>4, SMT
  <2>. QED BY <1>3, <2>1, <2>2, SMT
<1>. QED BY <1>7, <1>8 DEF d, m

LEMMA GoodAMChoice ==
    ASSUME NEW b \in Nat, b > 0
    PROVE  \E d \in Divisors :
              /\ to_clkbits_AM(b) = Choice(CodeOf(d), RateOf(24000000, d))
              /\ d = 8 \/ d >= 16
              /\ d % 8 \in {0, 1, 2, 4}
<1> DEFINE n == 24000000 \div b
           first == TryDivisor(AdjustDown(n), 0)
           second == TryDivisor(AdjustDown(n), 1)
           best == IF Abs(EstimateAM(second) - b) < Abs(EstimateAM(first) - b) THEN second ELSE first
<1>1. n \in Nat
  BY SMT
<1>. HIDE DEF n
<1>2. best \in {first, second}
  OBVIOUS
<1>3. to_clkbits_AM(b) = Choice(IF best = 8 THEN Encode(0, 0)
                                ELSE IF best = 12 THEN Encode(1, 0) ELSE EncodeDivisor(best),
                                EstimateAM(best))
  BY SMT DEF to_clkbits_AM, n
<1>. HIDE DEF best
<1>4. EstimateAM(best) = RateOf(24000000, best)
  BY SMT DEF EstimateAM, RateOf
<1>5. to_clkbits_AM(b) = Choice(CodeOf(best), RateOf(24000000, best))
  BY <1>3, <1>4, SMT DEF CodeOf
<1>6. first \in Divisors /\ (first = 8 \/ first >= 16) /\ first % 8 \in {0, 1, 2, 4}
  BY <1>1, GoodAMDivisor
<1>7. second \in Divisors /\ (second = 8 \/ second >= 16) /\ second % 8 \in {0, 1, 2, 4}
  BY <1>1, GoodAMDivisor
<1>. HIDE DEF first, second
<1>8. best \in Divisors /\ (best = 8 \/ best >= 16) /\ best % 8 \in {0, 1, 2, 4}
  BY <1>2, <1>6, <1>7
<1>. QED BY <1>5, <1>8, SMT

-----------------------------------------------------------------------------
(* ftdi_convert_baudrate, and the chip that gets its result.               *)

ClockOf(b) == IF FastClock(b) THEN 96000000 ELSE 24000000

LEMMA Converts ==
    ASSUME NEW b \in Nat, b > 0
    PROVE  \E d \in Divisors :
              /\ convert_baudrate(b).encoded = CodeOf(d) /\ convert_baudrate(b).baud = RateOf(ClockOf(b), d)
              /\ type # AMType /\ d > 16 /\ d < 131071 => 2 * Abs(ClockOf(b) - d * b) <= b
              /\ type = AMType => (d = 8 \/ d >= 16) /\ d % 8 \in {0, 1, 2, 4}
<1> DEFINE choice == convert_baudrate(b)
<1>1. CASE FastClock(b)
  <2>1. choice = to_clkbits(b, 120000000, 10)
    BY <1>1, SMT DEF convert_baudrate
  <2>2. GoodChoice(choice, 96000000, b)
    BY <2>1, GoodFastChoice, SMT
  <2>3. type # AMType
    BY <1>1 DEF FastClock, HTypes, AMType
  <2>. HIDE DEF choice
  <2>4. ClockOf(b) = 96000000
    BY <1>1, SMT DEF ClockOf
  <2>5. GoodChoice(choice, ClockOf(b), b)
    BY <2>2, <2>4, SMT
  <2>. QED BY <2>3, <2>5, SMT DEF GoodChoice, choice
<1>2. CASE ~FastClock(b) /\ type = AMType
  <2>1. choice = to_clkbits_AM(b)
    BY <1>2, SMT DEF convert_baudrate
  <2>2. PICK d \in Divisors :
            /\ choice = Choice(CodeOf(d), RateOf(24000000, d))
            /\ d = 8 \/ d >= 16
            /\ d % 8 \in {0, 1, 2, 4}
    BY <2>1, GoodAMChoice, SMT
  <2>. HIDE DEF choice
  <2>3. ClockOf(b) = 24000000
    BY <1>2, SMT DEF ClockOf
  <2>4. choice.encoded = CodeOf(d) /\ choice.baud = RateOf(ClockOf(b), d)
    BY <2>2, <2>3, SMT DEF Choice
  <2>. QED BY <1>2, <2>2, <2>4, SMT DEF choice
<1>3. CASE ~FastClock(b) /\ type # AMType
  <2>1. choice = to_clkbits(b, 48000000, 16)
    BY <1>3, SMT DEF convert_baudrate
  <2>2. GoodChoice(choice, 24000000, b)
    BY <2>1, GoodSlowChoice, SMT
  <2>. HIDE DEF choice
  <2>3. ClockOf(b) = 24000000
    BY <1>3, SMT DEF ClockOf
  <2>4. GoodChoice(choice, ClockOf(b), b)
    BY <2>2, <2>3, SMT
  <2>. QED BY <1>3, <2>4, SMT DEF GoodChoice, choice
<1>. QED BY <1>1, <1>2, <1>3

\* What the chip makes of a rate it was given: a code as wide as its request, a
\* divisor that it has, the closest one, and the rate that the driver was told.
Obeys(b) ==
    /\ chip # NoRequest
    /\ chip.value \in Nat /\ chip.value <= 65535 /\ chip.index \in Nat /\ chip.index <= 65535
    /\ ChipRate = convert_baudrate(b).baud
    /\ type # AMType /\ ChipDivisor > 16 /\ ChipDivisor < 131071 =>
            2 * Abs(ChipBase - ChipDivisor * b) <= b
    /\ type = AMType => (ChipDivisor = 8 \/ ChipDivisor >= 16) /\ ChipDivisor % 8 \in {0, 1, 2, 4}

LEMMA ChipObeys ==
    ASSUME NEW b \in Nat, b > 0, chip = Request(b, convert_baudrate(b).encoded)
    PROVE  Obeys(b)
<1>1. PICK d \in Divisors :
        /\ convert_baudrate(b).encoded = CodeOf(d) /\ convert_baudrate(b).baud = RateOf(ClockOf(b), d)
        /\ type # AMType /\ d > 16 /\ d < 131071 => 2 * Abs(ClockOf(b) - d * b) <= b
        /\ type = AMType => (d = 8 \/ d >= 16) /\ d % 8 \in {0, 1, 2, 4}
  BY Converts
<1>2. FastClock(b) \in BOOLEAN
  BY SMT DEF FastClock
<1>3. chip = Request(b, CodeOf(d))
  BY <1>1
<1>4. /\ chip.value \in Nat /\ chip.value <= 65535 /\ chip.index \in Nat /\ chip.index <= 65535
      /\ chip # NoRequest /\ ChipDivisor = d /\ ChipBase = ClockOf(b)
  BY <1>2, <1>3, ChipDecodes, SMT DEF ClockOf
<1>5. ChipRate = RateOf(ClockOf(b), d)
  BY <1>4 DEF ChipRate, RateOf
<1>. QED BY <1>1, <1>4, <1>5, SMT DEF Obeys

-----------------------------------------------------------------------------
(* The inductive invariant.                                                *)

\* The chip has the request that some rate was turned into ...
Asked(b) == b \in Nat /\ b > 0 /\ chip = Request(b, convert_baudrate(b).encoded)

RateTyped == baudrate = -1 \/ \E b \in Bauds \cup {OpenRate} : b > 0 /\ baudrate \in {b, 4 * b}

BaudInv ==
    /\ type \in Types /\ open \in BOOLEAN /\ bitbang_enabled \in BOOLEAN
    /\ mode \in {"serial", "bitbang"} /\ forgot \in BOOLEAN
    /\ RateTyped
    /\ chip = NoRequest \/ \E b \in Nat : Asked(b)
    \* ... and while a device is open, the one of the rate that is remembered.
    /\ open => Asked(baudrate) /\ Accepted(baudrate)
    /\ BitbangIsKnown

\* The conversion depends on nothing but the chip's type.
LEMMA ConversionFrame ==
    ASSUME type' = type, NEW b
    PROVE  /\ convert_baudrate(b)' = convert_baudrate(b) /\ Accepted(b)' = Accepted(b)
           /\ \A e : Request(b, e)' = Request(b, e)
<1>1. FastClock(b)' = FastClock(b)
  BY SMT DEF FastClock
<1>2. convert_baudrate(b)' = convert_baudrate(b)
  BY <1>1, SMT DEF convert_baudrate
<1>3. Accepted(b)' = Accepted(b)
  BY <1>2 DEF Accepted
<1>4. \A e : Request(b, e)' = Request(b, e)
  BY <1>1, SMT DEF Request
<1>. QED BY <1>2, <1>3, <1>4

LEMMA AskedFrame ==
    ASSUME type' = type, chip' = chip, NEW b
    PROVE  Asked(b)' <=> Asked(b)
BY ConversionFrame DEF Asked

\* ftdi_set_baudrate with a rate that is accepted.
LEMMA SetRateAsks ==
    ASSUME BaudInv, type' = type, NEW b \in Bauds \cup {OpenRate}, SetRate(b)
    PROVE  /\ RateTyped' /\ Asked(baudrate)' /\ Accepted(baudrate)'
           /\ \E c \in Nat : Asked(c)'
<1>0. PICK c : c = Scaled(b)
  OBVIOUS
<1>1. b \in Int
  BY BaudAssumption, SMT DEF OpenRate
<1>2. c = b \/ c = 4 * b
  BY <1>0, <1>1, SMT DEF Scaled
<1>3. c > 0 /\ Accepted(c)
  BY <1>0 DEF SetRate, Accepted
<1>4. chip' = Request(c, convert_baudrate(c).encoded) /\ baudrate' = c
  BY <1>0 DEF SetRate
<1>5. c \in Nat /\ b > 0
  BY <1>1, <1>2, <1>3, SMT
<1>6. RateTyped'
  BY <1>2, <1>4, <1>5 DEF RateTyped
<1>7. Asked(c)'
  BY <1>3, <1>4, <1>5, ConversionFrame DEF Asked
<1>8. Accepted(c)'
  BY <1>3, ConversionFrame
<1>9. Asked(baudrate)' /\ Accepted(baudrate)'
  BY <1>4, <1>7, <1>8 DEF Asked, Accepted
<1>. QED BY <1>5, <1>6, <1>7, <1>9

\* A call that leaves rate and chip alone.
LEMMA KeepsRate ==
    ASSUME BaudInv, UNCHANGED <<type, baudrate, chip>>
    PROVE  /\ RateTyped'
           /\ (chip = NoRequest \/ \E b \in Nat : Asked(b))'
           /\ open => Asked(baudrate)' /\ Accepted(baudrate)'
<1>1. RateTyped'
  BY DEF BaudInv, RateTyped
<1>2. (chip = NoRequest \/ \E b \in Nat : Asked(b))'
  BY AskedFrame DEF BaudInv
<1>3. open => Asked(baudrate)' /\ Accepted(baudrate)'
  <2>1. Asked(baudrate)' <=> Asked(baudrate)
    BY DEF Asked, convert_baudrate, Request, FastClock
  <2>2. Accepted(baudrate)' <=> Accepted(baudrate)
    BY DEF Accepted, convert_baudrate, FastClock
  <2>. QED BY <2>1, <2>2 DEF BaudInv
<1>. QED BY <1>1, <1>2, <1>3

LEMMA BaudInit == Init => BaudInv
BY DEF Init, BaudInv, RateTyped, BitbangIsKnown

LEMMA BaudStep == BaudInv /\ [Next]_vars => BaudInv'
<1>. SUFFICES ASSUME BaudInv, [Next]_vars PROVE BaudInv'
  OBVIOUS
<1>0. type \in Types /\ open \in BOOLEAN /\ bitbang_enabled \in BOOLEAN
      /\ mode \in {"serial", "bitbang"} /\ forgot \in BOOLEAN /\ BitbangIsKnown
  BY DEF BaudInv
<1>1. CASE UNCHANGED vars
  BY <1>0, <1>1, KeepsRate DEF vars, BaudInv, BitbangIsKnown
<1>2. ASSUME NEW b \in Bauds, set_baudrate(b)
      PROVE  BaudInv'
  BY <1>0, <1>2, SetRateAsks DEF set_baudrate, BaudInv, BitbangIsKnown
<1>3. ASSUME NEW b \in Bauds, SetBaudrateFails(b) \/ SetBaudrateRejects(b)
      PROVE  BaudInv'
  BY <1>0, <1>3, KeepsRate DEF SetBaudrateFails, SetBaudrateRejects, vars, BaudInv, BitbangIsKnown
<1>4. ASSUME NEW m \in {"serial", "bitbang"}, set_bitmode(m)
      PROVE  BaudInv'
  BY <1>0, <1>4, KeepsRate DEF set_bitmode, BaudInv, BitbangIsKnown
<1>5. CASE disable_bitbang
  BY <1>0, <1>5, KeepsRate DEF disable_bitbang, BaudInv, BitbangIsKnown
<1>6. CASE usb_open
  BY <1>0, <1>6, SetRateAsks DEF usb_open, BaudInv, BitbangIsKnown
<1>7. CASE usb_close
  BY <1>0, <1>7, KeepsRate DEF usb_close, BaudInv, BitbangIsKnown
<1>8. CASE PowerCycle
  <2>1. RateTyped'
    BY <1>8 DEF PowerCycle, BaudInv, RateTyped
  <2>. QED BY <1>0, <1>8, <2>1 DEF PowerCycle, BaudInv, BitbangIsKnown
<1>. QED BY <1>1, <1>2, <1>3, <1>4, <1>5, <1>6, <1>7, <1>8 DEF Next

-----------------------------------------------------------------------------
(* The theorems.                                                           *)

\* Whatever rates are asked for, accepted, rejected or failed.
THEOREM Invariance == Spec => []BaudInv
<1>. QED BY BaudInit, BaudStep, PTL DEF Spec

\* Every request fits into its two 16-bit fields, and the rate remembered is one the
\* application asked for or the one of an open, as such or scaled for bitbang mode.
THEOREM TypeCorrect == Spec => []TypeOK
<1>1. BaudInv => TypeOK
  <2>. SUFFICES ASSUME BaudInv PROVE TypeOK
    OBVIOUS
  <2>1. ASSUME NEW b \in Nat, Asked(b)
        PROVE  chip.value \in Word /\ chip.index \in Word
    <3>1. chip.value \in Nat /\ chip.value <= 65535 /\ chip.index \in Nat /\ chip.index <= 65535
      BY <2>1, ChipObeys, SMT DEF Obeys, Asked
    <3>. QED BY <3>1, SMT DEF Word
  <2>. QED BY <2>1, SMT DEF BaudInv, TypeOK, RateTyped
<1>. QED BY <1>1, Invariance, PTL

\* For every rate: an open chip runs at the rate the driver has stored, within the
\* tolerance of ftdi_set_baudrate (ftdi_convert_baudrate and its encodings).
THEOREM ChipRuns == Spec => []ChipAtBaudrate
<1>1. BaudInv => ChipAtBaudrate
  <2>. SUFFICES ASSUME BaudInv, open
                PROVE  /\ baudrate > 0
                       /\ 21 * ChipRate >= 20 * baudrate /\ 21 * baudrate >= 20 * ChipRate
    BY DEF ChipAtBaudrate
  <2>1. Asked(baudrate) /\ Accepted(baudrate)
    BY DEF BaudInv
  <2>2. ChipRate = convert_baudrate(baudrate).baud
    BY <2>1, ChipObeys DEF Obeys, Asked
  <2>3. baudrate \in Nat /\ baudrate > 0 /\ InTolerance(ChipRate, baudrate)
    BY <2>1, <2>2, SMT DEF Asked, Accepted
  <2>4. ChipRate \in Int
    <3>1. PICK d \in Divisors : convert_baudrate(baudrate).baud = RateOf(ClockOf(baudrate), d)
      BY <2>3, Converts
    <3>2. d \in Int /\ ClockOf(baudrate) \in Int /\ d > 0
      BY SMT DEF Divisors, ClockOf
    <3>. QED BY <2>2, <3>1, <3>2, SMT DEF RateOf
  <2>. HIDE DEF ChipRate
  <2>. QED BY <2>3, <2>4, SMT DEF InTolerance
<1>. QED BY <1>1, Invariance, PTL

\* The rates are scaled exactly when the chip is in bitbang mode or has lost it with its
\* power and was not told a mode since (ftdi_set_bitmode, ftdi_disable_bitbang, which set
\* flag and mode, ftdi_usb_close, which leaves the flag).
THEOREM ModeIsKnown == Spec => []BitbangIsKnown
<1>1. BaudInv => BitbangIsKnown
  BY DEF BaudInv
<1>. QED BY <1>1, Invariance, PTL

\* For every rate: an AM chip gets a divisor that it has (ftdi_to_clkbits_AM).
THEOREM AMDivisors == Spec => []AMDivisorExists
<1>1. BaudInv => AMDivisorExists
  BY ChipObeys DEF BaudInv, AMDivisorExists, Obeys, Asked
<1>. QED BY <1>1, Invariance, PTL

\* For every rate: the divisor is the closest one, in half eighths (ftdi_to_clkbits).
THEOREM DivisorsAreClosest == Spec => []DivisorIsClosest
<1>1. BaudInv => DivisorIsClosest
  BY ChipObeys DEF BaudInv, DivisorIsClosest, Obeys, Asked
<1>. QED BY <1>1, Invariance, PTL
=============================================================================
