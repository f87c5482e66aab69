----------------------------- MODULE FtdiDevice -----------------------------
(***************************************************************************)
(* The life of devices in the C library: src/src/ftdi.c 57-971 and 1199,   *)
(* src/src/ftdi_ex.h.  A struct ftdi_context finds devices, opens one and  *)
(* closes it; libusb keeps the contexts, handles and device references     *)
(* behind it, and the claims of interfaces.                                *)
(*                                                                         *)
(* Each call is one action: the library is called from one thread, and no  *)
(* call can be interrupted by another.  A failing call of libusb is a      *)
(* fault, taken from a budget.  The caller is a careful one: it looks at   *)
(* return codes, and closes a context after a failed call before it opens  *)
(* it again.                                                               *)
(***************************************************************************)
EXTENDS Naturals, Sequences, SequencesExt, Functions

CONSTANTS
    Contexts,       \* the ftdi_contexts a program has
    Bus,            \* the devices libusb lists, in order
    Product,        \* their vendor and product id
    Ports,          \* interfaces of a device, 0 for A
    AppUsb,         \* the program calls libusb_init itself
    MaxFaults

NULL == "none"
App == "app"
NoPort == 255
LibusbContexts == Contexts \cup {App}

ASSUME DeviceAssumption ==
    /\ Bus \in Seq(ToSet(Bus)) /\ IsInjective(Bus)
    /\ 0 \in Ports /\ NoPort \notin Ports
    /\ AppUsb \in BOOLEAN /\ MaxFaults \in Nat
    /\ {NULL, App} \cap (Contexts \cup ToSet(Bus)) = {}

VARIABLES
    ftdi,           \* the struct ftdi_context of each context, NoFtdi without one
    list,           \* the device list the caller has from ftdi_usb_find_all
    session,        \* what the caller knows: closed, open, or failed and not yet closed
    libusb,         \* the libusb contexts that exist, named for who made them
    fallback,       \* what libusb takes for a NULL context
    lost,           \* handles opened and never closed that nothing points to
    faults

deviceVars == <<ftdi, list, session, libusb, fallback, lost, faults>>

\* A device as libusb_get_device_list gives it, and a handle of one: both belong to
\* the libusb context they come from, NULL when NULL was asked and no context is left.
Handles == [dev : ToSet(Bus), on : LibusbContexts \cup {NULL}]
NoHandle == [dev |-> NULL, on |-> NULL]

NewFtdi(usb_ctx) == [usb_ctx |-> usb_ctx, interface |-> 0, usb_dev |-> NoHandle, claim |-> NoPort]
NoFtdi == [NewFtdi(NULL) EXCEPT !.interface = NoPort]
Live(c) == ftdi[c].interface # NoPort

DeviceTypeOK ==
    /\ ftdi \in [Contexts -> [usb_ctx : LibusbContexts \cup {NULL}, interface : Ports \cup {NoPort},
                              usb_dev : Handles \cup {NoHandle}, claim : Ports \cup {NoPort}]]
    /\ list \in [Contexts -> Seq(Handles)]
    /\ session \in [Contexts -> {"closed", "open", "failed"}]
    /\ libusb \subseteq LibusbContexts
    /\ fallback \in libusb \cup {NULL}
    /\ lost \subseteq Handles
    /\ faults \in 0..MaxFaults

DeviceInit ==
    /\ ftdi = [c \in Contexts |-> NoFtdi]
    /\ list = [c \in Contexts |-> <<>>]
    /\ session = [c \in Contexts |-> "closed"]
    /\ libusb = IF AppUsb THEN {App} ELSE {}
    /\ fallback = IF AppUsb THEN App ELSE NULL
    /\ lost = {} /\ faults = 0

-----------------------------------------------------------------------------
(* libusb.                                                                 *)

\* libusb_init into a pointer: the first context is also the fallback for NULL.
LibusbInit(c) ==
    /\ libusb' = libusb \cup {c}
    /\ fallback' = IF fallback = NULL THEN c ELSE fallback

LibusbExit(contexts) ==
    /\ libusb' = libusb \ contexts
    /\ fallback' = IF fallback \in contexts THEN NULL ELSE fallback

Resolve(usb_ctx) == IF usb_ctx = NULL THEN fallback ELSE usb_ctx

\* An interface is claimed by one handle only.
Claimable(c, dev) ==
    \A o \in Contexts \ {c} : ftdi[o].usb_dev.dev = dev => ftdi[o].claim # ftdi[c].interface

Fault == faults < MaxFaults /\ faults' = faults + 1
NoFault == UNCHANGED faults

\* libusb_get_device_list, and the loop over it that appends each device with the
\* wanted product: what it has after the first k devices, and at its end.
Devices(c) == [i \in DOMAIN Bus |-> [dev |-> Bus[i], on |-> Resolve(ftdi[c].usb_ctx)]]
MatchingUpTo(c, p) ==
    LET found[k \in 0..Len(Bus)] ==
            IF k = 0 THEN <<>>
            ELSE IF Product[Bus[k]] = p THEN Append(found[k - 1], Devices(c)[k])
            ELSE found[k - 1]
    IN  found
Matching(c, p) == MatchingUpTo(c, p)[Len(Bus)]

-----------------------------------------------------------------------------
(* What the functions do to a struct ftdi_context.                         *)

\* ftdi_usb_close_internal; closing a handle releases its claim.
Closed(f) == [f EXCEPT !.usb_dev = NoHandle, !.claim = NoPort]

\* libusb_open into usb_dev, whatever it held.
Opened(f, h) == [f EXCEPT !.usb_dev = h, !.claim = NoPort]
Overwrites(f) == IF f.usb_dev = NoHandle THEN {} ELSE {f.usb_dev}

Set(c, f) == ftdi' = [ftdi EXCEPT ![c] = f]

\* ftdi_usb_open_dev returns 0: opened, claimed, reset, set to 9600 baud.
OpenDev(c, h) ==
    /\ Claimable(c, h.dev)
    /\ Set(c, [Opened(ftdi[c], h) EXCEPT !.claim = ftdi[c].interface])
    /\ lost' = lost \cup Overwrites(ftdi[c])
    /\ NoFault

\* It fails: libusb_open (-4) leaves usb_dev as it was; reading the device's
\* descriptors or its configuration (-9, -10, -12) leaves it open; the others
\* (-3, -5, -6, -7, -8) close it.
OpenDevFails(c, h) ==
    \/ UNCHANGED <<ftdi, lost>> /\ Fault
    \/ /\ Set(c, Opened(ftdi[c], h)) /\ Fault
       /\ lost' = lost \cup Overwrites(ftdi[c])
    \/ /\ Set(c, Closed(ftdi[c])) /\ (IF Claimable(c, h.dev) THEN Fault ELSE NoFault)
       /\ lost' = lost \cup Overwrites(ftdi[c])

-----------------------------------------------------------------------------
(* The caller's operations.                                                *)

SessionBecomes(c, s) == session' = [session EXCEPT ![c] = s]

\* ftdi_new, ftdi_init: with a libusb context of its own.
new(c) ==
    /\ ~Live(c)
    /\ Set(c, NewFtdi(c)) /\ LibusbInit(c)
    /\ UNCHANGED <<list, session, lost, faults>>

\* ftdi_free, ftdi_deinit.
free(c) ==
    /\ Live(c) /\ list[c] = <<>>
    /\ Set(c, NoFtdi) /\ LibusbExit({ftdi[c].usb_ctx})
    /\ SessionBecomes(c, "closed")
    /\ UNCHANGED <<list, lost, faults>>

\* Mutant: the port of an open device changes too.
SetInterfaceAnytime(c, port) ==
    /\ Live(c)
    /\ Set(c, [ftdi[c] EXCEPT !.interface = port])
    /\ UNCHANGED <<list, session, libusb, fallback, lost, faults>>

\* -3 with a device open, unless it is the port the context has.
set_interface(c, port) ==
    /\ Live(c)
    /\ ftdi[c].usb_dev = NoHandle \/ port = ftdi[c].interface
    /\ Set(c, [ftdi[c] EXCEPT !.interface = port])
    /\ UNCHANGED <<list, session, libusb, fallback, lost, faults>>

\* A reference to each device of the list is taken; a failure at some device leaves
\* the list with those before it, for the caller to free.
find_all(c, p) ==
    /\ Live(c) /\ list[c] = <<>>
    /\ \/ list' = [list EXCEPT ![c] = Matching(c, p)] /\ NoFault
       \/ \E k \in DOMAIN Bus :
            list' = [list EXCEPT ![c] = MatchingUpTo(c, p)[k - 1]] /\ Fault
    /\ UNCHANGED <<ftdi, session, libusb, fallback, lost>>

list_free(c) ==
    /\ list[c] # <<>>
    /\ list' = [list EXCEPT ![c] = <<>>]
    /\ UNCHANGED <<ftdi, session, libusb, fallback, lost, faults>>

\* ftdi_usb_open_dev with a device of the list.
open_dev(c) ==
    /\ Live(c) /\ session[c] = "closed"
    /\ \E h \in ToSet(list[c]) :
         \/ OpenDev(c, h) /\ SessionBecomes(c, "open")
         \/ OpenDevFails(c, h) /\ SessionBecomes(c, "failed")
    /\ UNCHANGED <<list, libusb, fallback>>

\* ftdi_usb_open_bus_addr, and ftdi_usb_open_string of the form d:.
open_bus_addr(c) ==
    /\ Live(c) /\ session[c] = "closed"
    /\ \E h \in Range(Devices(c)) :
         \/ OpenDev(c, h) /\ SessionBecomes(c, "open")
         \/ OpenDevFails(c, h) /\ SessionBecomes(c, "failed")
    /\ UNCHANGED <<list, libusb, fallback>>

\* ftdi_usb_open_desc_index, and through it ftdi_usb_open, ftdi_usb_open_desc and
\* ftdi_usb_open_string: the matching devices up to the wanted one are opened, to
\* look at their strings, and closed again, whatever comes of it (-3, -4, -8, -9,
\* -13); then the wanted one is opened.
open_desc_index(c, p, index) ==
    /\ Live(c) /\ session[c] = "closed"
    /\ LET found == Matching(c, p)
       IN  IF index + 1 \in DOMAIN found
           THEN \/ OpenDev(c, found[index + 1]) /\ SessionBecomes(c, "open")
                \/ OpenDevFails(c, found[index + 1]) /\ SessionBecomes(c, "failed")
           ELSE /\ Set(c, IF found = <<>> THEN ftdi[c] ELSE Closed(ftdi[c]))
                /\ lost' = lost \cup IF found = <<>> THEN {} ELSE Overwrites(ftdi[c])
                /\ SessionBecomes(c, "failed") /\ NoFault
    /\ UNCHANGED <<list, libusb, fallback>>

\* ftdi_usb_close: the handle is closed even when the release fails (-1).
usb_close(c) ==
    /\ Live(c)
    /\ Set(c, Closed(ftdi[c])) /\ SessionBecomes(c, "closed")
    /\ UNCHANGED <<list, libusb, fallback, lost, faults>>

\* A context without a device opens it for its strings.  -4: not opened; -11: opened,
\* and left so; -7, -8, -9: closed, even if it was open before.
StringsFail(c, h) ==
    /\ \/ ftdi[c].usb_dev = NoHandle /\ ftdi' = ftdi
       \/ Set(c, IF ftdi[c].usb_dev = NoHandle THEN Opened(ftdi[c], h) ELSE ftdi[c])
       \/ Set(c, Closed(ftdi[c]))
    /\ SessionBecomes(c, "failed") /\ Fault

\* Mutant: the device is left open.
GetStringsKeepsOpen(c) ==
    /\ Live(c) /\ session[c] # "failed"
    /\ \E h \in ToSet(list[c]) :
         /\ Set(c, IF ftdi[c].usb_dev = NoHandle THEN Opened(ftdi[c], h) ELSE ftdi[c])
         /\ SessionBecomes(c, "closed") /\ NoFault
    /\ UNCHANGED <<list, libusb, fallback, lost>>

\* ftdi_usb_get_strings: closes the device in any case but -11.
get_strings(c) ==
    /\ Live(c) /\ session[c] # "failed"
    /\ \E h \in ToSet(list[c]) :
         \/ Set(c, Closed(ftdi[c])) /\ SessionBecomes(c, "closed") /\ NoFault
         \/ StringsFail(c, h)
    /\ UNCHANGED <<list, libusb, fallback, lost>>

\* ftdi_usb_get_strings2, and ftdi_usb_get_strings_ex which fails less: without a
\* failure the context is left as it was.
GetStrings2Fails(c) ==
    /\ Live(c) /\ session[c] # "failed"
    /\ \E h \in ToSet(list[c]) : StringsFail(c, h)
    /\ UNCHANGED <<list, libusb, fallback, lost>>

\* What the program does with a struct ftdi_context it has.
Use(c) ==
    \/ \E port \in Ports : set_interface(c, port)
    \/ \E p \in Range(Product) : find_all(c, p)
    \/ \E p \in Range(Product), index \in 0..Len(Bus) : open_desc_index(c, p, index)
    \/ list_free(c) \/ open_dev(c) \/ open_bus_addr(c) \/ usb_close(c)
    \/ get_strings(c) \/ GetStrings2Fails(c)

-----------------------------------------------------------------------------
(***************************************************************************)
(* Properties.                                                             *)
(***************************************************************************)

\* No handle is opened into a usb_dev that still holds another, which nobody could
\* close any more: in whatever order a careful caller lists, opens, asks for strings
\* and closes, and whatever fails.
NoHandleLost == lost = {}

\* A caller that has a device open talks to the interface its handle has claimed, and
\* shares it with nobody; one that knows its context closed has no handle.
SessionHoldsClaim ==
    \A c \in Contexts :
        /\ session[c] = "closed" => ftdi[c].usb_dev = NoHandle
        /\ session[c] = "open" =>
             /\ ftdi[c].usb_dev # NoHandle /\ ftdi[c].claim = ftdi[c].interface
             /\ \A o \in Contexts \ {c} :
                  ftdi[o].usb_dev.dev = ftdi[c].usb_dev.dev => ftdi[o].claim # ftdi[c].claim

\* A libusb context is destroyed only after every handle and device reference that
\* came from it is given back.
ExitIsLast ==
    \A c \in Contexts :
        /\ ftdi[c].usb_dev # NoHandle => ftdi[c].usb_dev.on \in libusb
        /\ \A h \in ToSet(list[c]) : h.on \in libusb
=============================================================================
