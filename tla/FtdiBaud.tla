------------------------------ MODULE FtdiBaud ------------------------------
(***************************************************************************)
(* Baud rates of the C library, src/src/ftdi.c: ftdi_convert_baudrate with *)
(* ftdi_to_clkbits and ftdi_to_clkbits_AM, ftdi_set_baudrate, and the      *)
(* bitbang mode that scales it.                                            *)
(*                                                                         *)
(* The chip divides its clock by a divisor in eighths, coded as in AN120:  *)
(* 14 bits of whole divisor, 3 bits of fraction (frac_code), 1 bit that    *)
(* selects the fast clock of an H type chip.  A divisor below is always in *)
(* eighths: 8 is clk/1.                                                    *)
(***************************************************************************)
EXTENDS Integers

CONSTANTS
    Types,          \* chip types
    Bauds,          \* rates the application asks for
    ControlFails    \* control requests may fail

HTypes == {"2232H", "4232H", "232H"}
BMTypes == {"BM", "2232C", "R", "230X"}
AMType == "AM"

\* The rates stay below the point where baudrate*10, the largest product the
\* code forms, leaves an int.
ASSUME BaudAssumption ==
    /\ Types \subseteq HTypes \cup BMTypes \cup {AMType}
    /\ \A b \in Bauds : b \in Int /\ 4 * b < 214748364
    /\ ControlFails \in BOOLEAN

VARIABLES
    type,               \* the chip's, which ftdi_usb_open_dev guesses right
    open,               \* ftdi->usb_dev # NULL, after a successful open
    bitbang_enabled,
    baudrate,           \* ftdi->baudrate, -1 before the first success
    chip,               \* the divisor request the chip has, or NoRequest
    mode,               \* the mode the chip is in
    forgot              \* has a loss of power ended the bitbang mode last asked for?
                        \* (for BitbangIsKnown: no action reads it)

vars == <<type, open, bitbang_enabled, baudrate, chip, mode, forgot>>

NoRequest == [value |-> -1, index |-> -1]
OpenRate == 9600

Word == {n \in Nat : n < 65536}

TypeOK ==
    /\ type \in Types /\ open \in BOOLEAN /\ bitbang_enabled \in BOOLEAN
    /\ baudrate = -1 \/ \E b \in Bauds \cup {OpenRate} : b > 0 /\ baudrate \in {b, 4 * b}
    /\ chip = NoRequest \/ (chip.value \in Word /\ chip.index \in Word)
    /\ mode \in {"serial", "bitbang"} /\ forgot \in BOOLEAN

Init ==
    /\ type \in Types /\ open = FALSE /\ bitbang_enabled = FALSE
    /\ baudrate = -1 /\ chip = NoRequest /\ mode = "serial" /\ forgot = FALSE

Abs(n) == IF n < 0 THEN -n ELSE n

-----------------------------------------------------------------------------
(* Encoding.                                                               *)

frac_code(d) == LET code == <<0, 3, 2, 4, 1, 5, 6, 7>> IN code[(d % 8) + 1]

\* encoded_divisor, its low 14 bits and the fraction code above them kept apart: a
\* whole part of 15 bits runs into the fraction code (0 for the only such divisor).
Encode(whole, frac) == [low |-> whole % 16384, frac |-> frac + whole \div 16384]
EncodeDivisor(d) == Encode(d \div 8, frac_code(d))

\* What both functions return: the coded divisor and the rate it gives.
Choice(encoded, best_baud) == [encoded |-> encoded, baud |-> best_baud]

\* Mutant: always rounded down.
RoundDown(n) == n \div 2
\* "Decide if to round up or down": the last bit is the half.
RoundHalf(n) == IF n % 2 = 1 THEN n \div 2 + 1 ELSE n \div 2

\* The best divisor of clk / clk_div.  clk * 16 is unsigned and fits.
to_clkbits(b, clk, clk_div) ==
    IF b >= clk \div clk_div THEN Choice(Encode(0, 0), clk \div clk_div)
    ELSE IF b >= clk \div (clk_div + clk_div \div 2)
    THEN Choice(Encode(1, 0), clk \div (clk_div + clk_div \div 2))
    ELSE IF b >= clk \div (2 * clk_div) THEN Choice(Encode(2, 0), clk \div (2 * clk_div))
    ELSE LET rounded == RoundHalf(((clk * 16) \div clk_div) \div b)
             best_divisor == IF rounded > 131072 THEN 131071 ELSE rounded
         IN  Choice(EncodeDivisor(best_divisor),
                    RoundHalf(((clk * 16) \div clk_div) \div best_divisor))

\* The AM divisors: 8, 16, then eighths of which only 0, 1, 2 and 4 exist.
AdjustUp(d) == LET up == <<0, 0, 0, 1, 0, 3, 2, 1>> IN d + up[(d % 8) + 1]
AdjustDown(d) == LET dn == <<0, 0, 0, 1, 0, 1, 2, 3>> IN d - dn[(d % 8) + 1]

\* Mutant: the divisors that do not exist are tried.
TryUnadjusted(divisor, i) == IF divisor + i <= 8 THEN 8 ELSE divisor + i

TryDivisor(divisor, i) ==
    IF divisor + i <= 8 THEN 8
    ELSE IF divisor < 16 THEN 16
    ELSE IF AdjustUp(divisor + i) > 131064 THEN 131064
    ELSE AdjustUp(divisor + i)

EstimateAM(d) == (24000000 + d \div 2) \div d

to_clkbits_AM(b) ==
    LET divisor == AdjustDown(24000000 \div b)
        first == TryDivisor(divisor, 0)
        second == TryDivisor(divisor, 1)
        best == IF Abs(EstimateAM(second) - b) < Abs(EstimateAM(first) - b)
                THEN second ELSE first
        encoded == EncodeDivisor(best)
    IN  Choice(IF best = 8 THEN Encode(0, 0)
               ELSE IF best = 12 THEN Encode(1, 0) ELSE encoded,
               EstimateAM(best))

\* Whether an H type chip is run from its 120 MHz clock.
FastClock(b) == type \in HTypes /\ b * 10 > 120000000 \div 16383

convert_baudrate(b) ==
    IF FastClock(b) THEN to_clkbits(b, 120000000, 10)
    ELSE IF type = AMType THEN to_clkbits_AM(b)
    ELSE to_clkbits(b, 48000000, 16)

\* value and index of the request: value holds the whole divisor and two fraction
\* bits, index the third and, on an H type, the clock bit.  The port number an
\* H type has in the low byte of index is left out.
Request(b, encoded) ==
    LET high == encoded.frac \div 4 + (IF FastClock(b) THEN 2 ELSE 0)
    IN  [value |-> encoded.low + 16384 * (encoded.frac % 4),
         index |-> IF type \in HTypes THEN 256 * high ELSE high]

-----------------------------------------------------------------------------
(* Operations.                                                             *)

\* Mutant: the bitbang clock is taken for sixteen times the rate.
ScaledSixteen(b) == IF bitbang_enabled THEN b * 16 ELSE b

Scaled(b) == IF bitbang_enabled THEN b * 4 ELSE b

InTolerance(actual, b) ==
    /\ ~(actual * 2 < b)
    /\ IF actual < b THEN ~(actual * 21 < b * 20) ELSE ~(b * 21 < actual * 20)

Accepted(b) == b > 0 /\ InTolerance(convert_baudrate(b).baud, b)

\* The request is made with the coded divisor, and the rate remembered.
SetRate(b) ==
    /\ Accepted(Scaled(b))
    /\ chip' = Request(Scaled(b), convert_baudrate(Scaled(b)).encoded)
    /\ baudrate' = Scaled(b)

set_baudrate(b) ==
    /\ open
    /\ SetRate(b)
    /\ UNCHANGED <<type, open, bitbang_enabled, mode, forgot>>

\* Mutant: the new rate is remembered before the request is made.
SetBaudrateFailsLate(b) ==
    /\ open /\ Accepted(Scaled(b)) /\ ControlFails
    /\ baudrate' = Scaled(b)
    /\ UNCHANGED <<type, open, bitbang_enabled, chip, mode, forgot>>

\* -2: the request was made and failed; nothing is remembered.
SetBaudrateFails(b) ==
    /\ open /\ Accepted(Scaled(b)) /\ ControlFails
    /\ UNCHANGED vars

\* -1: rejected before any request.
SetBaudrateRejects(b) ==
    /\ open /\ ~Accepted(Scaled(b))
    /\ UNCHANGED vars

\* Mutant: the flag is set before the request is made, which then fails.
SetBitmodeEarly(m) ==
    /\ open
    /\ bitbang_enabled' = (m = "bitbang")
    /\ mode' \in IF ControlFails THEN {m, mode} ELSE {m}
    /\ forgot' = (forgot /\ mode' # m)
    /\ UNCHANGED <<type, open, baudrate, chip>>

\* "bitbang" is any mode but BITMODE_RESET.  A failed request changes nothing.
set_bitmode(m) ==
    /\ open
    /\ mode' = m /\ bitbang_enabled' = (m = "bitbang") /\ forgot' = FALSE
    /\ UNCHANGED <<type, open, baudrate, chip>>

\* Mutant: the mode is left and the flag stays.
DisableKeepsFlag ==
    /\ open
    /\ mode' = "serial" /\ forgot' = FALSE
    /\ UNCHANGED <<type, open, bitbang_enabled, baudrate, chip>>

disable_bitbang ==
    /\ open
    /\ mode' = "serial" /\ bitbang_enabled' = FALSE /\ forgot' = FALSE
    /\ UNCHANGED <<type, open, baudrate, chip>>

\* The end of ftdi_usb_open_dev: 9600 baud, scaled by a bitbang_enabled that an
\* earlier session may have left set.
usb_open ==
    /\ ~open /\ open' = TRUE
    /\ SetRate(OpenRate)
    /\ UNCHANGED <<type, bitbang_enabled, mode, forgot>>

\* ftdi_usb_close leaves bitbang_enabled and baudrate as they are.
usb_close ==
    /\ open /\ open' = FALSE
    /\ UNCHANGED <<type, bitbang_enabled, baudrate, chip, mode, forgot>>

\* A closed device is unplugged and plugged in again.
PowerCycle ==
    /\ ~open
    /\ chip' = NoRequest /\ mode' = "serial" /\ forgot' = (forgot \/ mode = "bitbang")
    /\ UNCHANGED <<type, open, bitbang_enabled, baudrate>>

Next ==
    \/ \E b \in Bauds : set_baudrate(b) \/ SetBaudrateFails(b) \/ SetBaudrateRejects(b)
    \/ \E m \in {"serial", "bitbang"} : set_bitmode(m)
    \/ disable_bitbang \/ usb_open \/ usb_close \/ PowerCycle

Spec == Init /\ [][Next]_vars
-----------------------------------------------------------------------------
(* Decoding, as AN120 has it (the chip's side).                            *)

\* Fraction codes 0..7 in eighths.
Eighths(frac) == LET eighths == <<0, 4, 2, 1, 3, 5, 6, 7>> IN eighths[frac + 1]

High(index) == IF type \in HTypes THEN index \div 256 ELSE index
ChipBase == IF High(chip.index) >= 2 THEN 96000000 ELSE 24000000
ChipDivisor ==
    LET whole == chip.value % 16384
        frac == chip.value \div 16384 + 4 * (High(chip.index) % 2)
    IN  IF frac = 0 /\ whole = 0 THEN 8
        ELSE IF frac = 0 /\ whole = 1 THEN 12
        ELSE 8 * whole + Eighths(frac)
ChipRate == (ChipBase + ChipDivisor \div 2) \div ChipDivisor

(***************************************************************************)
(* Properties.                                                             *)
(***************************************************************************)

\* The chip runs, within the tolerance of 5%, at the rate the driver has stored:
\* whatever was asked for since, accepted, rejected or failed, in this session or
\* in an earlier one.
ChipAtBaudrate ==
    open =>
        /\ baudrate > 0
        /\ 21 * ChipRate >= 20 * baudrate /\ 21 * baudrate >= 20 * ChipRate

\* The driver's flag is the chip's mode after any accepted and failed calls, closes and
\* opens, so that the rates are scaled exactly when the chip is in bitbang mode, with one
\* exception: a chip that lost this mode with its power, and was not told a mode since, is
\* taken for one that is still in it (the next open then asks it for 38400 baud).
BitbangIsKnown ==
    /\ bitbang_enabled <=> mode = "bitbang" \/ forgot
    /\ ~(mode = "bitbang" /\ forgot)

\* An AM chip knows neither the divisors 9 to 15 nor all the fractions: it is
\* never given another.
AMDivisorExists ==
    chip # NoRequest /\ type = AMType =>
        /\ ChipDivisor = 8 \/ ChipDivisor >= 16
        /\ ChipDivisor % 8 \in {0, 1, 2, 4}

\* Among the fractional divisors of the other chips the chip has the one closest
\* to the clock divided by the rate: less than half an eighth off.
DivisorIsClosest ==
    open /\ type # AMType /\ ChipDivisor > 16 /\ ChipDivisor < 131071 =>
        2 * Abs(ChipBase - ChipDivisor * baudrate) <= baudrate
=============================================================================
