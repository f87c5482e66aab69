----------------------------- MODULE FtdiEeprom -----------------------------
(***************************************************************************)
(* The EEPROM calls of the C library, src/src/ftdi.c 2555-4735, on one     *)
(* context that opens and closes several devices of one chip type, and     *)
(* beside them the line settings (a write leaves its mark on one of them). *)
(*                                                                         *)
(* An EEPROM is a sequence of blocks of 64 bytes, and addresses wrap       *)
(* around at its end: 2 blocks in a 93x46, 4 in a 93x56, 8 in a 93x66, of  *)
(* which the library uses 4.  An image is made of parts, one per block;    *)
(* its checksum, in the last, is taken to tell any two images apart, so it *)
(* is modelled by what it was summed from.  A block is written or not.     *)
(***************************************************************************)
EXTENDS FtdiLine, EepromLayout, Sequences

CONSTANTS
    Families,       \* the chip types to try
    External,       \* the EEPROM each device has, if its type needs one: 46, 56, 66, or 0 for none
    SetCalls,       \* the <<value name, value>> a program may set
    UserStrings,    \* its strings: manufacturer, product and serial as one
    UserEnds,       \* where its data at USER_DATA_ADDR ends; 0 is none
    MaxCalls,       \* how many such calls it makes for each type (bound)
    LineFamilies,   \* with which types it makes line calls, too (bound)
    MaxFaults,      \* failing requests (bound)
    BuildsClosed    \* does it call ftdi_eeprom_build without a device, too?

NoStrings == [name |-> "none", chars |-> 0]
\* What a decoder takes for strings where there are none, short or long.
Junk == {[name |-> "junk", chars |-> 2], [name |-> "junk", chars |-> 126]}

ASSUME EepromAssumption ==
    /\ Families \subseteq ChipTypes
    /\ External \in [Families -> [Devices -> {0, 46, 56, 66}]]
    /\ \A call \in SetCalls : call \in Fields \X Int
    /\ LineFamilies \subseteq Families /\ UserEnds \subseteq Nat /\ MaxCalls \in [Families -> Nat] /\ MaxFaults \in Nat /\ BuildsClosed \in BOOLEAN

VARIABLES
    family,         \* the chip type of the devices
    type,           \* ftdi->type
    rom,            \* the blocks of each device's EEPROM
    eeprom,         \* ftdi->eeprom
    built,          \* what the last ftdi_eeprom_build put into buf, if it is still all there
    meant,          \* what the EEPROM of each device was completely written with, if so
    calls, faults

eepromVars == <<family, type, rom, eeprom, built, meant, calls, faults>>
vars == <<lineVars, eepromVars>>

-----------------------------------------------------------------------------
(* Blocks and images.                                                      *)

Block(what) == [what |-> what, part |-> 0, header |-> {}, strings |-> NoStrings,
                user |-> 0, factory |-> NULL, sum |-> <<>>]
Blank == Block("blank")
Zero == Block("zero")
Magic == Block("magic")

LastPart(size) == IF size \in {0, -1} THEN 0 ELSE size \div 64

\* An image's i-th part.  The strings of 128 bytes begin right behind the header,
\* those of 256 in the third part; the header has their lengths.
Part(m, i) ==
    [what |-> "part", part |-> i,
     header |-> IF i = 1 THEN m.header ELSE {},
     strings |-> IF m.size < 256 \/ i \in {3, 4} THEN m.strings
                 ELSE IF i = 1 THEN [NoStrings EXCEPT !.chars = m.strings.chars] ELSE NoStrings,
     user |-> IF i = 2 THEN m.user ELSE 0, factory |-> NULL, sum |-> <<>>]

\* A 230X sums up neither the second block nor the checksum.
Covered(t, b) == [b EXCEPT !.sum = <<>>, !.user = IF t = X230 THEN 0 ELSE @]
CoveredBy(t, blocks, size) == [i \in 1..LastPart(size) |-> Covered(t, blocks[i])]

\* Does ftdi_eeprom_decode find the checksum it computes?
Valid(t, blocks, size) ==
    LastPart(size) > 0 /\ blocks[LastPart(size)].sum = CoveredBy(t, blocks, size)

RomBlocks(t, d) ==
    CASE t = R -> 2
      [] t = X230 -> 4
      [] OTHER -> CASE External[t][d] = 0 -> 0 [] External[t][d] = 46 -> 2
                    [] External[t][d] = 56 -> 4 [] External[t][d] = 66 -> 8
\* Of which the library uses so many bytes.
RomSize(d) == 64 * Min({4, RomBlocks(family, d)})

\* What a chip answers for the i-th block, counted from 0.
Answer(d, i) == IF rom[d] = <<>> THEN Blank ELSE rom[d][(i % Len(rom[d])) + 1]
Answers(d) == [i \in 1..4 |-> Answer(d, i - 1)]

\* The third block of a 230X begins with the factory's own data, which a write spares.
Stored(d, i, b) == IF family = X230 /\ i = 3 THEN [b EXCEPT !.factory = d] ELSE b

\* The EEPROM of d after the first k blocks of buf were written to it.
Written(d, k) ==
    [j \in DOMAIN rom[d] |->
        LET here == {i \in 1..k : ((i - 1) % Len(rom[d])) + 1 = j}
        IN  IF here = {} THEN rom[d][j] ELSE Stored(d, Max(here), eeprom.buf[Max(here)])]

Erased(d) == [j \in DOMAIN rom[d] |-> Blank]
\* The first word of a block that an address wraps around to.
Marked(blocks, i) ==
    [j \in DOMAIN blocks |-> IF j = (i % Len(blocks)) + 1 THEN Magic ELSE blocks[j]]

\* Nothing: also where what was built is not all there any more.
NotBuilt == [on |-> NULL, size |-> 0, values |-> Zeros, strings |-> NoStrings]

Clobbered == [built EXCEPT !.size = 0]

FreshEeprom == [size |-> 0, values |-> Zeros, strings |-> NoStrings, user |-> 0,
                buf |-> [i \in 1..4 |-> Zero], initialized |-> FALSE]

EepromInit ==
    /\ family \in Families
    /\ type = BM
    /\ rom = [d \in Devices |->
                [i \in 1..RomBlocks(family, d) |->
                    IF family = X230 /\ i = 3 THEN [Blank EXCEPT !.factory = d] ELSE Blank]]
    /\ eeprom = FreshEeprom /\ built = NotBuilt /\ meant = [d \in Devices |-> NotBuilt]
    /\ calls = 0 /\ faults = 0

Init == LineInit /\ EepromInit

-----------------------------------------------------------------------------
(* A session.                                                              *)

Call == calls < MaxCalls[family] /\ calls' = calls + 1
MayFail == faults < MaxFaults /\ faults' = faults + 1

\* The end of ftdi_usb_open_dev.
usb_open(d) ==
    /\ Call
    /\ usb_dev = NULL
    /\ usb_dev' = d /\ type' = family
    /\ UNCHANGED <<index, regs, asked, lineCalls>>
    /\ UNCHANGED <<family, rom, eeprom, built, meant, faults>>

\* Mutant: closing leaves initialized_for_connected_device as it is.
UsbCloseKeepsFlag ==
    /\ Call
    /\ usb_dev # NULL
    /\ usb_dev' = NULL
    /\ UNCHANGED <<index, regs, asked, lineCalls>>
    /\ UNCHANGED <<family, type, rom, eeprom, built, meant, faults>>

\* ftdi_usb_close_internal.
usb_close ==
    /\ Call
    /\ usb_dev # NULL
    /\ usb_dev' = NULL
    /\ eeprom' = [eeprom EXCEPT !.initialized = FALSE]
    /\ UNCHANGED <<index, regs, asked, lineCalls>>
    /\ UNCHANGED <<family, type, rom, built, meant, faults>>

\* A call that changes the library's structure only.
Keeps == UNCHANGED <<lineVars, family, type, rom, meant>>

\* ftdi_eeprom_initdefaults: all of the structure becomes 0, its buffer and size
\* and the chip found by an erase included, and only then a device is asked for.
eeprom_initdefaults(strings) ==
    /\ Call
    /\ eeprom' = IF usb_dev = NULL THEN FreshEeprom
                 ELSE [FreshEeprom EXCEPT !.values = Defaults(type), !.size = DefaultSize(type),
                                          !.strings = strings]
    /\ built' = NotBuilt
    /\ Keeps /\ UNCHANGED faults

eeprom_set_strings(strings) ==
    /\ Call
    /\ usb_dev # NULL
    /\ eeprom' = [eeprom EXCEPT !.strings = strings, !.values["use_serial"] = 1]
    /\ Keeps /\ UNCHANGED <<built, faults>>

set_eeprom_value(call) ==
    /\ Call
    /\ eeprom' = [eeprom EXCEPT !.values[call[1]] = call[2], !.initialized = FALSE]
    /\ Keeps /\ UNCHANGED <<built, faults>>

set_eeprom_user_data(end) ==
    /\ Call
    /\ eeprom' = [eeprom EXCEPT !.user = end]
    /\ Keeps /\ UNCHANGED <<built, faults>>

\* The same data elsewhere: USER_DATA_ADDR, which is set like any other value.
set_user_data_addr(end) ==
    /\ Call
    /\ eeprom' = [eeprom EXCEPT !.user = end, !.initialized = FALSE]
    /\ Keeps /\ UNCHANGED <<built, faults>>

\* ftdi_set_eeprom_buf, with an image saved from the EEPROM of d.
set_eeprom_buf(d) ==
    /\ Call
    /\ eeprom' = [eeprom EXCEPT !.buf = Answers(d)]
    /\ built' = Clobbered
    /\ Keeps /\ UNCHANGED faults

-----------------------------------------------------------------------------
(* ftdi_eeprom_build.                                                      *)

\* The size of an EEPROM whose chip is known, if only by an erase.
SizeToBuild ==
    IF eeprom.size # -1 THEN eeprom.size
    ELSE IF eeprom.values["chip"] \in {86, 102} THEN 256 ELSE 128

\* The image, without its checksum.  What precedes the strings of a 230X in the
\* third block is not cleared.
Body(size) ==
    LET m == [size |-> IF size = 0 THEN 256 ELSE size, header |-> Header(type, eeprom.values),
              strings |-> eeprom.strings, user |-> eeprom.user]
    IN  [i \in 1..4 |->
            LET part == IF i <= LastPart(m.size) THEN Part(m, i) ELSE Zero
            IN  IF type = X230 /\ i = 3 THEN [part EXCEPT !.factory = eeprom.buf[3].factory] ELSE part]

\* Mutant: the checksum is over the factory's data as the buffer happens to have it.
SummedStale(body, size, factory) ==
    IF LastPart(size) = 0 THEN body
    ELSE [body EXCEPT ![LastPart(size)].sum = CoveredBy(type, body, size)]

\* With the checksum over what is there, the factory's data of a 230X as the device
\* answers it: where the device does not, over nothing of it.
Summed(body, size, factory) ==
    IF LastPart(size) = 0 THEN body
    ELSE [body EXCEPT ![LastPart(size)].sum =
            CoveredBy(type, IF type = X230 THEN [body EXCEPT ![3].factory = factory] ELSE body, size)]

\* A size of 0 puts the checksum in front of the buffer, into chip's upper half.
ChipAfter(size) == IF size = 0 THEN (eeprom.values["chip"] % 65536) - 1431699456 ELSE eeprom.values["chip"]

eeprom_build(factory) ==
    /\ Call
    /\ usb_dev # NULL \/ BuildsClosed
    /\ eeprom.values["chip"] # -1
    /\ IF type = X230 /\ usb_dev # NULL THEN
            (factory = usb_dev /\ UNCHANGED faults) \/ (factory = NULL /\ MayFail)
       ELSE factory = NULL /\ UNCHANGED faults
    /\ LET size == SizeToBuild IN
       CASE 2 * eeprom.strings.chars > UserArea(type) ->
                eeprom' = [eeprom EXCEPT !.size = size] /\ UNCHANGED built
         [] 2 * eeprom.strings.chars <= UserArea(type) /\ eeprom.user > size ->
                eeprom' = [eeprom EXCEPT !.size = size, !.buf = Body(size)] /\ built' = Clobbered
         [] OTHER ->
                /\ eeprom' = [eeprom EXCEPT !.size = size, !.buf = Summed(Body(size), size, factory),
                                            !.values["chip"] = ChipAfter(size), !.initialized = TRUE]
                /\ built' = [on |-> usb_dev, size |-> IF type = X230 /\ factory = NULL THEN 0 ELSE size,
                             values |-> eeprom.values, strings |-> eeprom.strings]
    /\ Keeps

-----------------------------------------------------------------------------
(* Reading and decoding.                                                   *)

\* The bits of the header that a decoder sees in a block.
HeaderIn(b) ==
    CASE b.what \in {"blank", "magic"} -> 0..(64 * 8 - 1)
      [] OTHER -> b.header

StringsIn(blocks, size) ==
    CASE blocks[1].what = "zero" -> {NoStrings}
      [] blocks[1].what = "part" /\ Valid(type, blocks, size) -> {blocks[LastPart(size)].strings}
      [] OTHER -> Junk \cup {blocks[1].strings, blocks[3].strings}

\* ftdi_eeprom_decode: what all types have, and the strings, are taken over before
\* the checksum is compared.
eeprom_decode ==
    /\ Call
    /\ \E strings \in StringsIn(eeprom.buf, eeprom.size) :
        eeprom' = [eeprom EXCEPT
            !.strings = strings,
            !.values = IF Valid(type, eeprom.buf, eeprom.size)
                       THEN DecodedValues(type, HeaderIn(eeprom.buf[1]), @)
                       ELSE DecodedCommon(type, HeaderIn(eeprom.buf[1]), @)]
    /\ Keeps /\ UNCHANGED <<built, faults>>

\* A string without a 0 whose last byte is the last 0xff: a blank buffer, unless the
\* search runs on into release_number, which follows it, and meets another.
LooksBlank(blocks, release) ==
    /\ \A i \in 1..4 : blocks[i].what \in {"blank", "magic"}
    /\ release % 256 # 255
    /\ release % 256 = 0 \/ release \div 256 # 255

\* Mutant: the whole of a 93x66.
GuessedSizeFull(t, blocks, release) ==
    IF t = R THEN 128
    ELSE IF LooksBlank(blocks, release) THEN -1
    ELSE IF <<blocks[1], blocks[2]>> = <<blocks[3], blocks[4]>> THEN 128
    ELSE 512

GuessedSize(t, blocks, release) ==
    IF t = R THEN 128
    ELSE IF LooksBlank(blocks, release) THEN -1
    ELSE IF <<blocks[1], blocks[2]>> = <<blocks[3], blocks[4]>> THEN 128
    ELSE IF blocks[1] = blocks[2] THEN 64
    ELSE 256

read_eeprom ==
    /\ Call
    /\ usb_dev # NULL
    /\ eeprom' = [eeprom EXCEPT !.buf = Answers(usb_dev),
                    !.size = GuessedSize(type, Answers(usb_dev), eeprom.values["release_number"])]
    /\ built' = Clobbered
    /\ Keeps /\ UNCHANGED faults

\* A request fails after k blocks.
ReadEepromFails(k) ==
    /\ Call
    /\ usb_dev # NULL /\ MayFail
    /\ eeprom' = [eeprom EXCEPT !.buf = [i \in 1..4 |-> IF i <= k THEN Answer(usb_dev, i - 1) ELSE @[i]]]
    /\ built' = Clobbered
    /\ Keeps

-----------------------------------------------------------------------------
(* Writing and erasing.                                                    *)

\* The latency timer that was traced while running MProg.
SetsLatency == regs' = [regs EXCEPT ![usb_dev][index].latency = WriteLatency]

Write(k) ==
    /\ Call
    /\ usb_dev # NULL /\ eeprom.initialized
    /\ SetsLatency
    /\ rom' = [rom EXCEPT ![usb_dev] = Written(usb_dev, k)]
    /\ UNCHANGED <<usb_dev, index, asked, lineCalls, family, type, eeprom, built>>

\* ftdi_write_eeprom.  With a size of 0 or -1 it writes nothing, and succeeds.
write_eeprom ==
    /\ Write(LastPart(eeprom.size))
    /\ meant' = IF LastPart(eeprom.size) = 0 THEN meant ELSE [meant EXCEPT ![usb_dev] = built]
    /\ UNCHANGED faults

\* A request fails after k blocks.
WriteEepromFails(k) ==
    /\ MayFail /\ k < LastPart(eeprom.size)
    /\ Write(k)
    /\ meant' = [meant EXCEPT ![usb_dev] = NotBuilt]

\* The chip that ftdi_erase_eeprom finds by where its mark, written to word 192, shows.
Mark == 6
FirstWordIsMagic(blocks, i) == blocks # <<>> /\ blocks[(i % Len(blocks)) + 1] = Magic

\* Mutant: the second question is about word 0xc0 (block 6) instead of 0x40.
FoundChipLate(blocks) ==
    IF FirstWordIsMagic(blocks, 0) THEN 70
    ELSE IF FirstWordIsMagic(blocks, 6) THEN 86
    ELSE -1

FoundChip(blocks) ==
    IF FirstWordIsMagic(blocks, 0) THEN 70
    ELSE IF FirstWordIsMagic(blocks, 2) THEN 86
    ELSE IF FirstWordIsMagic(blocks, 6) THEN 102
    ELSE -1

EraseChanges(blocks, chip) ==
    /\ rom' = [rom EXCEPT ![usb_dev] = blocks]
    /\ eeprom' = [eeprom EXCEPT !.values["chip"] = chip]
    /\ meant' = [meant EXCEPT ![usb_dev] = NotBuilt]

erase_eeprom ==
    /\ Call
    /\ usb_dev # NULL
    /\ IF type \in {R, X230} THEN
            eeprom' = [eeprom EXCEPT !.values["chip"] = 0] /\ UNCHANGED <<rom, meant>>
       ELSE EraseChanges(Erased(usb_dev), FoundChip(Marked(Erased(usb_dev), Mark)))
    /\ UNCHANGED <<lineVars, family, type, built, faults>>

\* A request fails: to write the mark, to read it, to erase it.
EraseEepromFails ==
    /\ Call
    /\ usb_dev # NULL /\ type \notin {R, X230} /\ MayFail
    /\ LET marked == Marked(Erased(usb_dev), Mark) IN
        \/ EraseChanges(Erased(usb_dev), eeprom.values["chip"])
        \/ EraseChanges(marked, eeprom.values["chip"])
        \/ EraseChanges(marked, FoundChip(marked))
    /\ UNCHANGED <<lineVars, family, type, built>>

\* ftdi_write_eeprom_location: word 128, the first it allows, where the image says
\* that the chip is a 93x66.
ChipByte(d) == NumberAt(HeaderIn(Answer(d, 0)),
                        IF type = H232 THEN At(30, 0, 8) ELSE
                        IF type \in {H2232, H4232} THEN At(24, 0, 8) ELSE At(20, 0, 8))
write_eeprom_location ==
    /\ Call
    /\ usb_dev # NULL /\ type \notin {AM, R, X230}
    /\ ChipByte(usb_dev) = 102 /\ rom[usb_dev] # <<>>
    /\ LET i == (4 % Len(rom[usb_dev])) + 1 IN
        /\ rom' = [rom EXCEPT ![usb_dev][i].what = "patched"]
        /\ meant' = IF i > 4 THEN meant ELSE [meant EXCEPT ![usb_dev] = NotBuilt]
    /\ UNCHANGED <<lineVars, family, type, eeprom, built, faults>>

-----------------------------------------------------------------------------
LineStep ==
    /\ family \in LineFamilies
    /\ (\E c \in LineCalls : LineCall(c)) \/ (\E i \in Indexes : set_interface(i))
    /\ UNCHANGED eepromVars

Next ==
    \/ LineStep
    \/ (\E d \in Devices : usb_open(d) \/ set_eeprom_buf(d)) \/ usb_close
    \/ \E s \in UserStrings : eeprom_initdefaults(s) \/ eeprom_set_strings(s)
    \/ \E call \in SetCalls : set_eeprom_value(call)
    \/ \E end \in UserEnds : set_eeprom_user_data(end) \/ set_user_data_addr(end)
    \/ (\E factory \in Devices \cup {NULL} : eeprom_build(factory)) \/ eeprom_decode
    \/ read_eeprom \/ write_eeprom
    \/ \E k \in 0..3 : ReadEepromFails(k) \/ WriteEepromFails(k)
    \/ erase_eeprom \/ EraseEepromFails \/ write_eeprom_location

Spec == Init /\ [][Next]_vars

-----------------------------------------------------------------------------
(***************************************************************************)
(* Properties.                                                             *)
(***************************************************************************)

Blocks == [what : {"blank", "zero", "magic", "part", "patched"}, part : 0..4]

TypeOK ==
    /\ LineTypeOK
    /\ family \in Families /\ type \in {BM, family}
    /\ \A d \in Devices : Len(rom[d]) = RomBlocks(family, d)
    /\ eeprom.size \in {-1, 0, 64, 128, 256} /\ eeprom.initialized \in BOOLEAN
    /\ DOMAIN eeprom.values = Fields /\ DOMAIN eeprom.buf = 1..4
    /\ \A d \in Devices : \A b \in {eeprom.buf[i] : i \in 1..4} \cup {rom[d][i] : i \in DOMAIN rom[d]} :
        [what |-> b.what, part |-> b.part] \in Blocks
    /\ calls \in 0..MaxCalls[family] /\ faults \in 0..MaxFaults

\* "Was the eeprom structure initialized for the actual connected device?": an image
\* that ftdi_write_eeprom would accept was built with this very device open, with its
\* type, its chip and its factory data; never for one that was open before.
InitializedForThisDevice ==
    eeprom.initialized /\ usb_dev # NULL => built.on = usb_dev

\* A complete image of the EEPROM's own size is what the next reader gets: the size
\* guessed from nothing but its halves is right (whatever that reader has decoded
\* before), the checksum matches, and strings and values are those it was built from,
\* the Undecoded ones alone excepted.
ReadBack ==
    \A d \in Devices : rom[d] # <<>> /\ meant[d].size = RomSize(d) =>
        /\ \A release \in {0, 255, 65535} : GuessedSize(family, Answers(d), release) = RomSize(d)
        /\ Valid(family, Answers(d), RomSize(d))
        /\ Answers(d)[LastPart(RomSize(d))].strings = meant[d].strings
        /\ LET read == DecodedValues(family, HeaderIn(Answers(d)[1]), Zeros)
           IN  \A f \in DOMAIN BuildAt(family) : meant[d].values[f] \in Legal(family, f) =>
                    read[f] = ReadAs(family, f, meant[d].values[f], 0)

\* 0x46, 0x56 and 0x66.
ChipOf(external) == IF external = 0 THEN -1 ELSE 70 + 16 * ((external - 46) \div 10)

\* An erase that succeeds has found the size of the EEPROM by where addresses wrap
\* around, and has left nothing behind, its own mark included.
EraseFindsChip ==
    [][ erase_eeprom /\ family \notin {R, X230} =>
            /\ eeprom'.values["chip"] = ChipOf(External[family][usb_dev])
            /\ \A i \in 1..4 : Answers(usb_dev)'[i] = Blank ]_vars

AtStart == usb_dev = NULL /\ type = BM /\ eeprom = FreshEeprom

\* For every chip type: the decoder finds each value that the builder stored where it put
\* it, but for the four it does not read (Undecoded); values, strings and checksum do not
\* overlap.  The PnP bytes behind the strings are overwritten by checksum and byte 0 of a
\* TYPE_R and a 230X whose strings are (almost) as long as they may be, never the reverse.
TablesAgree == AtStart => KeepsValues(family) /\ KeepsStrings(family)
=============================================================================
