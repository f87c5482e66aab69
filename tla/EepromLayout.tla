---------------------------- MODULE EepromLayout ----------------------------
(***************************************************************************)
(* Where an EEPROM image keeps what, for each chip type: the tables behind *)
(* ftdi_eeprom_build and ftdi_eeprom_decode in src/src/ftdi.c, read off    *)
(* the one and the other separately, and the arithmetic of the strings.    *)
(*                                                                         *)
(* A header is the set of the numbers of its bits that are 1: bit b of     *)
(* byte a is number 8 * a + b, and numbers of several bytes are little     *)
(* endian, as in the image.  A place is <<first bit, width>>.              *)
(***************************************************************************)
EXTENDS Integers, FiniteSets, Sequences, FiniteSetsExt

AM == "AM"
BM == "BM"
C2232 == "2232C"
R == "R"
H2232 == "2232H"
H4232 == "4232H"
H232 == "232H"
X230 == "230X"
ChipTypes == {AM, BM, C2232, R, H2232, H4232, H232, X230}

\* The names of the decoded values, as in enum ftdi_eeprom_value.
Cbus == <<"cbus_function_0", "cbus_function_1", "cbus_function_2", "cbus_function_3",
          "cbus_function_4", "cbus_function_5", "cbus_function_6", "cbus_function_7",
          "cbus_function_8", "cbus_function_9">>
CbusFields == {Cbus[i] : i \in 1..10}
PinOf(f) == CHOOSE i \in 1..10 : Cbus[i] = f
ChannelTypes == {"channel_a_type", "channel_b_type"}
Drives == {"group0_drive", "group1_drive", "group2_drive", "group3_drive"}
Numbers == {"vendor_id", "product_id", "release_number", "usb_version", "max_power", "invert", "chip"}
Flags == {"self_powered", "remote_wakeup", "is_not_pnp", "suspend_dbus7", "in_is_isochronous",
          "out_is_isochronous", "suspend_pull_downs", "use_serial", "use_usb_version",
          "channel_a_driver", "channel_b_driver", "channel_c_driver", "channel_d_driver",
          "channel_a_rs485enable", "channel_b_rs485enable", "channel_c_rs485enable",
          "channel_d_rs485enable", "high_current", "high_current_a", "high_current_b",
          "group0_schmitt", "group0_slew", "group1_schmitt", "group1_slew", "group2_schmitt",
          "group2_slew", "group3_schmitt", "group3_slew", "powersave", "clock_polarity",
          "data_order", "flow_control", "external_oscillator"}
Fields == CbusFields \cup ChannelTypes \cup Drives \cup Numbers \cup Flags

\* Two tables in one; the first has precedence.
f ++ g == [x \in DOMAIN f \cup DOMAIN g |-> IF x \in DOMAIN f THEN f[x] ELSE g[x]]

At(byte, bit, width) == <<8 * byte + bit, width>>
Flag(byte, bit) == At(byte, bit, 1)

-----------------------------------------------------------------------------
(* Building.                                                               *)

Common == [vendor_id |-> At(2, 0, 16), product_id |-> At(4, 0, 16),
           release_number |-> At(6, 0, 16), self_powered |-> Flag(8, 6),
           remote_wakeup |-> Flag(8, 5), max_power |-> At(9, 0, 8)]
Isochronous == [in_is_isochronous |-> Flag(10, 0), out_is_isochronous |-> Flag(10, 1)]
PullDowns == [suspend_pull_downs |-> Flag(10, 2)]
Serial == [use_serial |-> Flag(10, 3)]
UsbVersion == [usb_version |-> At(12, 0, 16)]
UseUsbVersion == [use_usb_version |-> Flag(10, 4)]
Group01 == [group0_drive |-> At(12, 0, 2), group0_slew |-> Flag(12, 2), group0_schmitt |-> Flag(12, 3),
            group1_drive |-> At(12, 4, 2), group1_slew |-> Flag(12, 6), group1_schmitt |-> Flag(12, 7)]
Group23 == [group2_drive |-> At(13, 0, 2), group2_slew |-> Flag(13, 2), group2_schmitt |-> Flag(13, 3),
            group3_drive |-> At(13, 4, 2), group3_slew |-> Flag(13, 6), group3_schmitt |-> Flag(13, 7)]
\* A 232H has its second group in the second byte.
Group232H == [group0_drive |-> At(12, 0, 2), group0_slew |-> Flag(12, 2), group0_schmitt |-> Flag(12, 3),
              group1_drive |-> At(13, 0, 2), group1_slew |-> Flag(13, 2), group1_schmitt |-> Flag(13, 3)]
\* The pin functions first..last, width bits each, from a byte on.
Pins(byte, width, first, last) ==
    [f \in {Cbus[i + 1] : i \in first..last} |-> <<8 * byte + width * (PinOf(f) - 1 - first), width>>]

Places2232C ==
    [channel_a_type |-> At(0, 0, 3), channel_a_driver |-> Flag(0, 3), high_current_a |-> Flag(0, 4),
     channel_b_type |-> At(1, 0, 3), channel_b_driver |-> Flag(1, 3), high_current_b |-> Flag(1, 4),
     chip |-> At(20, 0, 8)]
PlacesR ==
    [channel_a_type |-> Flag(0, 0), external_oscillator |-> Flag(0, 1), high_current |-> Flag(0, 2),
     channel_a_driver |-> Flag(0, 3), invert |-> At(11, 0, 8)]
Places2232H ==
    [channel_a_type |-> At(0, 0, 3), channel_a_driver |-> Flag(0, 3), channel_b_type |-> At(1, 0, 3),
     channel_b_driver |-> Flag(1, 3), suspend_dbus7 |-> Flag(1, 7), chip |-> At(24, 0, 8)]
Places4232H ==
    [channel_a_driver |-> Flag(0, 3), channel_b_driver |-> Flag(1, 3), channel_c_driver |-> Flag(0, 7),
     channel_d_driver |-> Flag(1, 7), channel_a_rs485enable |-> Flag(11, 4),
     channel_b_rs485enable |-> Flag(11, 5), channel_c_rs485enable |-> Flag(11, 6),
     channel_d_rs485enable |-> Flag(11, 7), chip |-> At(24, 0, 8)]
Places232H ==
    [channel_a_type |-> At(0, 0, 4), channel_a_driver |-> Flag(0, 4), clock_polarity |-> Flag(1, 0),
     data_order |-> Flag(1, 1), flow_control |-> Flag(1, 2), powersave |-> Flag(1, 7),
     chip |-> At(30, 0, 8)]

\* Where ftdi_eeprom_build puts the values of a chip type; the others are not stored.
\* (is_not_pnp goes behind the strings, see PnpBytes, and is never read.)
BuildAt(type) ==
    CASE type = AM -> Common
      [] type = BM -> Common ++ Isochronous ++ Serial ++ UsbVersion ++ UseUsbVersion
      [] type = C2232 -> Common ++ Isochronous ++ Serial ++ UsbVersion ++ UseUsbVersion
                         ++ PullDowns ++ Places2232C
      [] type = R -> Common ++ Isochronous ++ Serial ++ UsbVersion ++ PullDowns ++ PlacesR
                     ++ Pins(20, 4, 0, 3) ++ Pins(22, 8, 4, 4)
      [] type = H2232 -> Common ++ Isochronous ++ Serial ++ PullDowns ++ Group01 ++ Group23 ++ Places2232H
      [] type = H4232 -> Common ++ Isochronous ++ Serial ++ PullDowns ++ Group01 ++ Group23 ++ Places4232H
      [] type = H232 -> Common ++ Isochronous ++ Serial ++ PullDowns ++ Group232H ++ Places232H
                        ++ Pins(24, 4, 0, 9)
      [] type = X230 -> Common ++ Serial ++ [invert |-> At(11, 0, 8)] ++ Pins(26, 8, 0, 6)

\* type2bit.
type2bit(type, v) ==
    CASE type = H232 -> IF v \in {1, 2, 4, 8} THEN v ELSE 0
      [] type = R -> IF v = 1 THEN 1 ELSE 0
      [] OTHER -> IF v \in {1, 2, 4} THEN v ELSE 0

\* A pin function that the pin cannot have becomes its default.
PinFunction(type, f, v) ==
    CASE type = R /\ f = Cbus[1] -> IF v > 12 THEN 3 ELSE v
      [] type = R /\ f = Cbus[2] -> IF v > 12 THEN 2 ELSE v
      [] type = R /\ f = Cbus[3] -> IF v > 12 THEN 0 ELSE v
      [] type = R /\ f = Cbus[4] -> IF v > 12 THEN 1 ELSE v
      [] type = R /\ f = Cbus[5] -> IF v > 9 THEN 5 ELSE v
      [] type = H232 -> IF v > 12 THEN 0 ELSE v
      [] OTHER -> v

\* Mutant: the inverted flag of a TYPE_R is stored as it is.
CodedNotInverted(type, f, v) ==
    CASE f \in Flags -> IF v = 0 THEN 0 ELSE 1
      [] f \in ChannelTypes -> type2bit(type, v)
      [] f \in CbusFields -> PinFunction(type, f, v)
      [] f \in Drives -> IF v > 3 THEN 3 ELSE v
      [] f = "max_power" -> v \div 2
      [] OTHER -> v

\* The one flag that is stored inverted.
Inverted(type, f) == type = R /\ f = "channel_a_driver"

\* What is stored of a value, in as many bits as there are.
Coded(type, f, v) ==
    CASE f \in Flags -> IF (v = 0) <=> Inverted(type, f) THEN 1 ELSE 0
      [] f \in ChannelTypes -> type2bit(type, v)
      [] f \in CbusFields -> PinFunction(type, f, v)
      [] f \in Drives -> IF v > 3 THEN 3 ELSE v
      [] f = "max_power" -> v \div 2
      [] OTHER -> v

BitsOf(place, n) == {place[1] + k : k \in {j \in 0..place[2] - 1 : (n \div 2^j) % 2 = 1}}

\* Bits that are 1 whatever the values: bit 7 of byte 8; the end point size of a
\* TYPE_R; byte 0 of a 230X.
FixedBits(type) ==
    {8 * 8 + 7} \cup (IF type = R THEN {8 * 1 + 6} ELSE {}) \cup (IF type = X230 THEN {7} ELSE {})

Header(type, values) ==
    FixedBits(type) \cup
    UNION {BitsOf(BuildAt(type)[f], Coded(type, f, values[f])) : f \in DOMAIN BuildAt(type)}

-----------------------------------------------------------------------------
(* Decoding.                                                               *)

\* Before the checksum is looked at, whatever the type.
DecodeCommon ==
    [vendor_id |-> At(2, 0, 16), product_id |-> At(4, 0, 16), release_number |-> At(6, 0, 16),
     self_powered |-> Flag(8, 6), remote_wakeup |-> Flag(8, 5), max_power |-> At(9, 0, 8),
     in_is_isochronous |-> Flag(10, 0), out_is_isochronous |-> Flag(10, 1),
     suspend_pull_downs |-> Flag(10, 2), use_serial |-> Flag(10, 3), use_usb_version |-> Flag(10, 4),
     usb_version |-> At(12, 0, 16)]

\* A group of pins in the low or the high half of a byte.
DecodeGroup(g, byte, shift) ==
    [f \in {g[1], g[2], g[3]} |->
        CASE f = g[1] -> At(byte, shift, 2) [] f = g[2] -> Flag(byte, shift + 2) [] f = g[3] -> Flag(byte, shift + 3)]
Group0 == <<"group0_drive", "group0_slew", "group0_schmitt">>
Group1 == <<"group1_drive", "group1_slew", "group1_schmitt">>
Group2 == <<"group2_drive", "group2_slew", "group2_schmitt">>
Group3 == <<"group3_drive", "group3_slew", "group3_schmitt">>

Decode2232C ==
    [channel_a_type |-> At(0, 0, 3), channel_a_driver |-> Flag(0, 3), high_current_a |-> Flag(0, 4),
     channel_b_type |-> At(1, 0, 3), channel_b_driver |-> Flag(1, 3), high_current_b |-> Flag(1, 4),
     chip |-> At(20, 0, 8)]
\* A TYPE_R gets its chip from the byte of its fifth pin function.
DecodeR ==
    [channel_a_driver |-> Flag(0, 3), high_current |-> Flag(0, 2), external_oscillator |-> Flag(0, 1),
     chip |-> At(22, 0, 8), invert |-> At(11, 0, 8)] ++ Pins(20, 4, 0, 4)
DecodeH ==
    [channel_a_driver |-> Flag(0, 3), channel_b_driver |-> Flag(1, 3), chip |-> At(24, 0, 8)]
    ++ DecodeGroup(Group0, 12, 0) ++ DecodeGroup(Group1, 12, 4)
    ++ DecodeGroup(Group2, 13, 0) ++ DecodeGroup(Group3, 13, 4)
Decode2232H ==
    [channel_a_type |-> At(0, 0, 3), channel_b_type |-> At(1, 0, 3), suspend_dbus7 |-> Flag(1, 7)]
\* Mutant: the masks of channels C and D without their shift.
Decode4232HUnshifted ==
    [channel_c_driver |-> Flag(0, 3), channel_d_driver |-> Flag(1, 3),
     channel_a_rs485enable |-> Flag(11, 4), channel_b_rs485enable |-> Flag(11, 5),
     channel_c_rs485enable |-> Flag(11, 6), channel_d_rs485enable |-> Flag(11, 7)]
Decode4232H ==
    [channel_c_driver |-> Flag(0, 7), channel_d_driver |-> Flag(1, 7),
     channel_a_rs485enable |-> Flag(11, 4), channel_b_rs485enable |-> Flag(11, 5),
     channel_c_rs485enable |-> Flag(11, 6), channel_d_rs485enable |-> Flag(11, 7)]
Decode232H ==
    [channel_a_type |-> At(0, 0, 4), channel_a_driver |-> Flag(0, 4), clock_polarity |-> Flag(1, 0),
     data_order |-> Flag(1, 1), flow_control |-> Flag(1, 2), powersave |-> Flag(1, 7),
     chip |-> At(30, 0, 8)]
    ++ DecodeGroup(Group0, 12, 0) ++ DecodeGroup(Group1, 13, 0) ++ Pins(24, 4, 0, 9)
Decode230X ==
    [invert |-> At(11, 0, 8)] ++ DecodeGroup(Group0, 12, 0) ++ DecodeGroup(Group1, 12, 4)
    ++ Pins(26, 8, 0, 3)

\* With what follows the checksum.
DecodeAt(type) ==
    CASE type \in {AM, BM} -> DecodeCommon
      [] type = C2232 -> DecodeCommon ++ Decode2232C
      [] type = R -> DecodeCommon ++ DecodeR
      [] type = H2232 -> DecodeCommon ++ DecodeH ++ Decode2232H
      [] type = H4232 -> DecodeCommon ++ DecodeH ++ Decode4232H
      [] type = H232 -> DecodeCommon ++ Decode232H
      [] type = X230 -> DecodeCommon ++ Decode230X

\* The number in the lowest bits of a place, for each number of them.
LowBits(header, place) ==
    LET low[k \in 0..place[2]] ==
            IF k = 0 THEN 0 ELSE low[k - 1] + (IF place[1] + k - 1 \in header THEN 2^(k - 1) ELSE 0)
    IN  low
NumberAt(header, place) == LowBits(header, place)[place[2]]

\* bit2type, which a 2232C's channel B and a 232H do without.
bit2type(v) == IF v \in {1, 2, 4, 8} THEN v ELSE 0
RawType(type, f) == type = H232 \/ (type = C2232 /\ f = "channel_b_type")

Decoded(type, f, n) ==
    CASE Inverted(type, f) -> 1 - n
      [] f = "max_power" -> 2 * n
      [] f \in ChannelTypes /\ ~RawType(type, f) -> bit2type(n)
      [] OTHER -> n

ReadField(type, header, f) == Decoded(type, f, NumberAt(header, DecodeAt(type)[f]))

\* The values after a decode that fails at the checksum, and after one that succeeds.
DecodedCommon(type, header, old) ==
    [f \in Fields |-> IF f \in DOMAIN DecodeCommon THEN ReadField(type, header, f) ELSE old[f]]
DecodedValues(type, header, old) ==
    [f \in Fields |->
        IF f \in DOMAIN DecodeAt(type) THEN ReadField(type, header, f)
        ELSE IF f = "channel_a_type" THEN 0
        ELSE IF f = "chip" /\ type \in {AM, BM} THEN -1
        ELSE old[f]]

-----------------------------------------------------------------------------
(* Defaults and sizes.                                                     *)

ProductId(type) ==
    CASE type \in {AM, BM, R} -> 24577 [] type = H4232 -> 24593 [] type = H232 -> 24596
      [] type = X230 -> 24597 [] OTHER -> 24592

Release(type) ==
    CASE type = AM -> 512 [] type = BM -> 1024 [] type = C2232 -> 1280 [] type = R -> 1536
      [] type = H2232 -> 1792 [] type = H4232 -> 2048 [] type = H232 -> 2304 [] type = X230 -> 4096

\* The pin functions of a TYPE_R and a 230X.
DefaultPins(type) ==
    CASE type = R -> <<3, 2, 0, 1, 5, 0, 0, 0, 0, 0>>
      [] type = X230 -> <<9, 2, 1, 5, 0, 0, 0, 0, 0, 0>>
      [] OTHER -> <<0, 0, 0, 0, 0, 0, 0, 0, 0, 0>>

Zeros == [f \in Fields |-> 0]

\* ftdi_eeprom_initdefaults.  chip is among the values that become 0.
Defaults(type) ==
    [f \in CbusFields |-> DefaultPins(type)[PinOf(f)]]
    ++ [vendor_id |-> 1027, use_serial |-> 1, product_id |-> ProductId(type),
        usb_version |-> IF type = AM THEN 257 ELSE 512,
        max_power |-> IF type \in {R, X230} THEN 90 ELSE 100, release_number |-> Release(type)]
    ++ Zeros

DefaultSize(type) == CASE type = R -> 128 [] type = X230 -> 256 [] OTHER -> -1

\* Bytes for the strings' characters, which take two each.
UserArea(type) ==
    CASE type \in {AM, BM, R} -> 96 [] type = C2232 -> 90 [] type = X230 -> 88
      [] type \in {H2232, H4232} -> 86 [] type = H232 -> 80

\* Where the strings begin, before the address wraps around at the size.
StringsAt(type) ==
    CASE type \in {AM, BM} -> 148 [] type = C2232 -> 150 [] type = R -> 152
      [] type \in {H2232, H4232} -> 154 [] type \in {H232, X230} -> 160

\* The first byte behind the header.
FreeStart(type) ==
    CASE type \in {AM, BM} -> 20 [] type = C2232 -> 21 [] type = R -> 23
      [] type \in {H2232, H4232} -> 25 [] type = H232 -> 31 [] type = X230 -> 33

\* The bytes three strings of so many characters take, each behind two bytes of its
\* descriptor, in an image of a size.
StringBytes(type, chars, size) == {(StringsAt(type) + n) % size : n \in 0..2 * chars + 5}

\* Mutant: the three bytes go over the end of the serial string.
PnpBytesEarly(type, chars, size) ==
    IF type \in {AM, BM} THEN {} ELSE {(StringsAt(type) + 2 * chars + 5 + n) % size : n \in 0..2}

\* Where is_not_pnp goes: the last of three bytes that chips newer than a BM have right
\* behind the strings.
PnpAt(type, chars, size) == (StringsAt(type) + 2 * chars + 8) % size
PnpBytes(type, chars, size) ==
    IF type \in {AM, BM} THEN {} ELSE {(StringsAt(type) + 2 * chars + 6 + n) % size : n \in 0..2}

\* What is assigned, not only changed, after the strings: the checksum, and byte 0 by all
\* types that have settings in it but a 4232H.
AssignedLast(type, size) ==
    {size - 2, size - 1} \cup (IF type \in {AM, BM, H4232} THEN {} ELSE {0})

-----------------------------------------------------------------------------
(* What the two tables promise together.                                   *)

\* The values a program can store of a field, by their corners.
Legal(type, f) ==
    CASE f \in Flags -> {0, 1}
      [] f \in ChannelTypes ->
            IF type = H232 THEN {0, 1, 2, 4, 8} ELSE IF type = R THEN {0, 1} ELSE {0, 1, 2, 4}
      [] f \in Drives -> {0, 1, 2, 3}
      [] f = "max_power" -> {0, 90, 256, 510}
      [] f \in {"vendor_id", "product_id", "release_number", "usb_version"} -> {0, 255, 32769, 65535}
      [] f \in {"invert", "chip"} -> {0, 70, 129, 255}
      [] f \in CbusFields ->
            CASE type = X230 -> {0, 9, 21} [] type = R /\ f = Cbus[5] -> {0, 9} [] OTHER -> {0, 5, 12}

\* What is built and not decoded: the channel type of a TYPE_R, which the decoder clears
\* and does not read, and the last three pin functions of a 230X, of which it reads four.
Undecoded(type) ==
    CASE type = R -> {"channel_a_type"} [] type = X230 -> {Cbus[5], Cbus[6], Cbus[7]} [] OTHER -> {}

\* What a decode makes of a value that was built as v, in a structure that had old.
ReadAs(type, f, v, old) ==
    IF f \notin Undecoded(type) THEN v ELSE IF f = "channel_a_type" THEN 0 ELSE old

\* All values as small or as large as they can be.
Corner(type, high) ==
    [g \in Fields |-> IF g \in DOMAIN BuildAt(type) /\ high THEN Max(Legal(type, g)) ELSE 0]

\* Each value that is built reads back as it was, but for the Undecoded ones, whichever
\* one of them leaves the corner and whatever was decoded before: no two share a bit, and
\* the decoder looks where the builder put it.  The bits stay out of the strings'
\* addresses and of what is behind the header.
KeepsValues(type) ==
    \A high \in BOOLEAN, f \in DOMAIN BuildAt(type) : \A v \in Legal(type, f) :
        LET values == [Corner(type, high) EXCEPT ![f] = v]
            old == Corner(type, ~high)
            header == Header(type, values)
            read == DecodedValues(type, header, old)
        IN  /\ \A g \in DOMAIN BuildAt(type) : read[g] = ReadAs(type, g, values[g], old[g])
            /\ \A bit \in header : bit < 8 * FreeStart(type) /\ bit \div 8 \notin 14..19

\* Strings that ftdi_eeprom_build accepts reach neither the header nor the checksum,
\* whether or not their addresses wrap around.  The three bytes behind them do, as the user
\* areas leave no room for them, but spoil nothing: they touch no string, and elsewhere
\* only what is assigned after them.  What is lost is is_not_pnp itself, and only where a
\* TYPE_R has 47 characters or more, and a 230X 43.
KeepsStrings(type) ==
    \A size \in IF type = X230 THEN {256} ELSE {128, 256}, chars \in 0..UserArea(type) \div 2 :
        LET free == FreeStart(type)..size - 3
            pnp == PnpBytes(type, chars, size)
        IN  /\ StringBytes(type, chars, size) \subseteq free
            /\ pnp \cap StringBytes(type, chars, size) = {}
            /\ pnp \subseteq free \cup AssignedLast(type, size)
            /\ pnp # {} => /\ PnpAt(type, chars, size) \in pnp
                           /\ PnpAt(type, chars, size) \in AssignedLast(type, size) <=>
                                (type = R /\ chars >= 47) \/ (type = X230 /\ chars >= 43)
=============================================================================
