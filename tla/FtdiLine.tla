------------------------------ MODULE FtdiLine ------------------------------
(***************************************************************************)
(* The line settings of the C library, src/src/ftdi.c 1484-1570 and        *)
(* 2242-2575: each call packs its arguments into the value and the index   *)
(* of one control request.  The low byte of index names the port of the    *)
(* chip, the rest is the library's side of an encoding whose other side,   *)
(* the chip's (ChipTakes), is modelled from the comments of ftdi.h.        *)
(*                                                                         *)
(* Numbers are used as the code forms them; a | of parts that have no bit  *)
(* in common is a sum.                                                     *)
(***************************************************************************)
EXTENDS Integers, FiniteSets

CONSTANTS
    Devices,        \* the chips a program may open
    Indexes,        \* INTERFACE_A and on: ftdi->index
    LineCalls,      \* the calls the program makes, with their arguments
    MaxLineCalls    \* how many of them (bound)

NULL == "none"

Bit == 0..1
Byte == 0..255

AllCalls ==
    [name : {"set_line_property2"}, bits : {7, 8}, parity : 0..4, sbit : 0..2, break : Bit]
    \cup [name : {"setflowctrl"}, flowctrl : {0, 256, 512}]
    \cup [name : {"setflowctrl_xonxoff"}, xon : Byte, xoff : Byte]
    \cup [name : {"setdtr", "setrts"}, state : Bit]
    \cup [name : {"setdtr_rts"}, dtr : Bit, rts : Bit]
    \cup [name : {"set_event_char", "set_error_char"}, ch : Byte, enable : Bit]
    \cup [name : {"set_latency_timer"}, latency : Byte]

ASSUME LineAssumption ==
    /\ NULL \notin Devices
    /\ Indexes \subseteq 1..4 /\ 1 \in Indexes
    /\ MaxLineCalls \in Nat
    /\ \A call \in LineCalls : call \in AllCalls

VARIABLES
    usb_dev,        \* the open device, or NULL
    index,          \* ftdi->index
    regs,           \* the line registers of each port of each chip
    asked,          \* the settings the program has asked for, by successful calls
    lineCalls

lineVars == <<usb_dev, index, regs, asked, lineCalls>>

\* A chip after power-up.  data is bits, parity, stop bits, break; a character is
\* <<character, enabled>>.
PowerUp == [data |-> <<8, 0, 0, 0>>, flow |-> 0, xonxoff |-> <<0, 0>>, dtr |-> 0, rts |-> 0,
            event |-> <<0, 0>>, error |-> <<0, 0>>, latency |-> 16]

Settings == [data : Byte \X (0..7) \X (0..7) \X Bit, flow : Byte, xonxoff : Byte \X Byte,
             dtr : Bit, rts : Bit, event : Byte \X Bit, error : Byte \X Bit, latency : Byte]

LineTypeOK ==
    /\ usb_dev \in Devices \cup {NULL}
    /\ index \in Indexes
    /\ regs \in [Devices -> [Indexes -> Settings]] /\ asked \in [Devices -> [Indexes -> Settings]]
    /\ lineCalls \in 0..MaxLineCalls

LineInit ==
    /\ usb_dev = NULL /\ index = 1
    /\ regs = [d \in Devices |-> [i \in Indexes |-> PowerUp]]
    /\ asked = regs /\ lineCalls = 0

-----------------------------------------------------------------------------
(* The request of each call: SIO_SET_..._REQUEST, value, index.            *)

Ask(request, value, high) == [request |-> request, value |-> value, index |-> high + index]

\* Mutant: the stop bits one bit too low.
DataValueLow(c) == c.bits + 256 * c.parity + 1024 * c.sbit + 16384 * c.break
DataValue(c) == c.bits + 256 * c.parity + 2048 * c.sbit + 16384 * c.break

\* SIO_SET_DTR_HIGH and the like: a mask in the high byte says which line is meant.
DtrValue(state) == state + 256
RtsValue(state) == 2 * state + 512
CharValue(c) == c.ch + 256 * c.enable

Request(c) ==
    CASE c.name = "set_line_property2" -> Ask("data", DataValue(c), 0)
      [] c.name = "setflowctrl" -> Ask("flow", 0, c.flowctrl)
      [] c.name = "setflowctrl_xonxoff" -> Ask("flow", c.xon + 256 * c.xoff, 1024)
      [] c.name = "setdtr" -> Ask("modem", DtrValue(c.state), 0)
      [] c.name = "setrts" -> Ask("modem", RtsValue(c.state), 0)
      [] c.name = "setdtr_rts" -> Ask("modem", DtrValue(c.dtr) + RtsValue(c.rts), 0)
      [] c.name = "set_event_char" -> Ask("event", CharValue(c), 0)
      [] c.name = "set_error_char" -> Ask("error", CharValue(c), 0)
      [] c.name = "set_latency_timer" -> Ask("latency", c.latency, 0)

\* What the chip makes of it, at the port that index names.
Field(value, unit, range) == (value \div unit) % range
Line(value, unit, old) == IF Field(value, 256 * unit, 2) = 1 THEN Field(value, unit, 2) ELSE old

ChipSets(r, q) ==
    CASE q.request = "data" ->
            [r EXCEPT !.data = <<Field(q.value, 1, 256), Field(q.value, 256, 8),
                                 Field(q.value, 2048, 8), Field(q.value, 16384, 2)>>]
      [] q.request = "flow" ->
            [r EXCEPT !.flow = q.index \div 256,
                      !.xonxoff = <<Field(q.value, 1, 256), Field(q.value, 256, 256)>>]
      [] q.request = "modem" ->
            [r EXCEPT !.dtr = Line(q.value, 1, r.dtr), !.rts = Line(q.value, 2, r.rts)]
      [] q.request = "event" -> [r EXCEPT !.event = <<Field(q.value, 1, 256), Field(q.value, 256, 2)>>]
      [] q.request = "error" -> [r EXCEPT !.error = <<Field(q.value, 1, 256), Field(q.value, 256, 2)>>]
      [] q.request = "latency" -> [r EXCEPT !.latency = q.value]

ChipTakes(q) == regs' = [regs EXCEPT ![usb_dev][q.index % 256] = ChipSets(@, q)]

\* What the program meant by a call.
Meant(r, c) ==
    CASE c.name = "set_line_property2" -> [r EXCEPT !.data = <<c.bits, c.parity, c.sbit, c.break>>]
      [] c.name = "setflowctrl" -> [r EXCEPT !.flow = c.flowctrl \div 256, !.xonxoff = <<0, 0>>]
      [] c.name = "setflowctrl_xonxoff" -> [r EXCEPT !.flow = 4, !.xonxoff = <<c.xon, c.xoff>>]
      [] c.name = "setdtr" -> [r EXCEPT !.dtr = c.state]
      [] c.name = "setrts" -> [r EXCEPT !.rts = c.state]
      [] c.name = "setdtr_rts" -> [r EXCEPT !.dtr = c.dtr, !.rts = c.rts]
      [] c.name = "set_event_char" -> [r EXCEPT !.event = <<c.ch, c.enable>>]
      [] c.name = "set_error_char" -> [r EXCEPT !.error = <<c.ch, c.enable>>]
      [] c.name = "set_latency_timer" -> [r EXCEPT !.latency = c.latency]

\* A successful call.  Without a device, with a latency of 0 or when the request
\* fails, a call changes nothing.
LineCall(c) ==
    /\ usb_dev # NULL /\ lineCalls < MaxLineCalls
    /\ c.name = "set_latency_timer" => c.latency > 0
    /\ ChipTakes(Request(c))
    /\ asked' = [asked EXCEPT ![usb_dev][index] = Meant(@, c)]
    /\ lineCalls' = lineCalls + 1
    /\ UNCHANGED <<usb_dev, index>>

\* ftdi_set_interface: not with a device open.
set_interface(i) ==
    /\ usb_dev = NULL
    /\ index' = i
    /\ UNCHANGED <<usb_dev, regs, asked, lineCalls>>

-----------------------------------------------------------------------------
(***************************************************************************)
(* Properties.                                                             *)
(***************************************************************************)

\* What ftdi_write_eeprom sets the latency timer to, "traced while running MProg".
WriteLatency == 119

\* Every port of every chip has the settings last asked for on it: no call disturbs
\* another setting (DTR and RTS share a request, flow control and its characters
\* another) or another port.  The latency may also be what an EEPROM write left.
LineAsAsked ==
    \A d \in Devices, i \in Indexes :
        /\ regs[d][i].latency \in {asked[d][i].latency, WriteLatency}
        /\ [regs[d][i] EXCEPT !.latency = 0] = [asked[d][i] EXCEPT !.latency = 0]
=============================================================================
