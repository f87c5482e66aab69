----------------------------- MODULE FtdiContext ----------------------------
(***************************************************************************)
(* The C++ wrapper, src/src/FtdiContext.cpp: an FtdiContext makes a struct *)
(* ftdi_context, opens the first device of its configuration that is there *)
(* and sets it up; clear and the destructor take everything back.  A       *)
(* program may also use the C library on the wrapper's ftdi_context, and   *)
(* on others it made with ftdi_new.                                        *)
(*                                                                         *)
(* init is cut where calls of libusb fail; an exception at any cut goes    *)
(* through init's handler, in the same action.                             *)
(***************************************************************************)
EXTENDS FtdiDevice, FiniteSets

CONSTANTS
    Wrappers,       \* FtdiContext objects, named as the ftdi_context they make
    Creating,       \* those constructed with create_libusb_context
    ConfigPort,     \* _config.ftdi_port of each, when it is one
    UsbDevices      \* _config.usb_devices: product and device index, in order

ASSUME ContextAssumption ==
    /\ Creating \subseteq Wrappers /\ Wrappers \subseteq Contexts
    /\ ConfigPort \in [Wrappers -> Ports]
    /\ UsbDevices \in Seq(ToSet(UsbDevices)) /\ \A e \in ToSet(UsbDevices) : e.index \in Nat

VARIABLES
    pc,             \* where init is, or idle
    entry,          \* the element of usb_devices that init looks at
    given,          \* the libusb context init was called with, NULL for none
    created         \* the wrappers with _libusb_context_created

contextVars == <<pc, entry, given, created>>
vars == <<deviceVars, contextVars>>

TypeOK ==
    /\ DeviceTypeOK
    /\ pc \in [Wrappers -> {"idle", "start", "find", "open", "params"}]
    /\ entry \in [Wrappers -> 1..Len(UsbDevices) + 1]
    /\ given \in [Wrappers -> {NULL, App}]
    /\ created \subseteq Wrappers

Init ==
    /\ DeviceInit
    /\ pc = [w \in Wrappers |-> "idle"]
    /\ entry = [w \in Wrappers |-> 1]
    /\ given = [w \in Wrappers |-> NULL]
    /\ created = {}

Goto(w, where) == pc' = [pc EXCEPT ![w] = where]

\* init is over, and with it its local variables.
Returns(w) ==
    /\ Goto(w, "idle")
    /\ entry' = [entry EXCEPT ![w] = 1] /\ given' = [given EXCEPT ![w] = NULL]
Wanted(w) == UsbDevices[entry[w]]

\* Mutant: a device is counted whatever its product.
FoundAnyProduct(w) == Devices(w)
Found(w) == Matching(w, Wanted(w).product)

-----------------------------------------------------------------------------

\* Mutant: the libusb context is forgotten.
ReleaseKeepsUsb(w) ==
    Set(w, NoFtdi) /\ SessionBecomes(w, "closed") /\ UNCHANGED <<libusb, fallback>>

\* Mutant: ftdi_free for ftdi_free_ex, which leaves the libusb context alone.
ReleaseByFtdiFree(w) ==
    Set(w, NoFtdi) /\ SessionBecomes(w, "closed") /\ LibusbExit({ftdi[w].usb_ctx, w})

\* What clear and init's handler do: ftdi_free_ex closes the device, and the wrapper's
\* own libusb context is destroyed.
Release(w) ==
    /\ Set(w, NoFtdi) /\ SessionBecomes(w, "closed")
    /\ LibusbExit(IF w \in created THEN {w} ELSE {})

\* An exception in init: its handler, with the device list freed before.
Throws(w) ==
    /\ Release(w) /\ Returns(w)
    /\ list' = [list EXCEPT ![w] = <<>>]
    /\ UNCHANGED <<lost, created>>

\* clear, and the destructor.
clear(w) ==
    /\ list[w] = <<>> /\ Release(w)
    /\ UNCHANGED <<list, lost, faults, contextVars>>

\* Mutant: the configured devices are counted from 0.
InitFromZero(w, usb_ctx) ==
    /\ list[w] = <<>> /\ Release(w)
    /\ Goto(w, "start") /\ given' = [given EXCEPT ![w] = usb_ctx]
    /\ entry' = [entry EXCEPT ![w] = 0]
    /\ UNCHANGED <<list, lost, faults, created>>

\* init clears first.
init(w, usb_ctx) ==
    /\ list[w] = <<>> /\ Release(w)
    /\ Goto(w, "start") /\ given' = [given EXCEPT ![w] = usb_ctx]
    /\ UNCHANGED <<list, lost, faults, entry, created>>

\* Without a libusb context one is created, but ftdi_new_ex gets the NULL that init
\* was given.
InitStarts(w) ==
    /\ pc[w] = "start" /\ Goto(w, "find")
    /\ IF given[w] = NULL
       THEN w \in Creating /\ LibusbInit(w) /\ created' = created \cup {w}
       ELSE UNCHANGED <<libusb, fallback, created>>
    /\ Set(w, [NewFtdi(given[w]) EXCEPT !.interface = ConfigPort[w]])
    /\ UNCHANGED <<list, session, lost, faults, entry, given>>

\* No context is given and none is to be created, or libusb_init fails.
InitHasNoUsb(w) ==
    /\ pc[w] = "start" /\ given[w] = NULL
    /\ Throws(w)
    /\ IF w \in Creating THEN Fault ELSE NoFault

\* A program may have set a port in get_config () that no chip has.
InitPortIsBad(w) ==
    /\ pc[w] = "find" /\ entry[w] = 1
    /\ Throws(w) /\ NoFault

\* The device list of the next element; one without the wanted device is freed.
InitFinds(w) ==
    /\ pc[w] = "find" /\ entry[w] <= Len(UsbDevices)
    /\ IF Wanted(w).index + 1 \in DOMAIN Found(w)
       THEN list' = [list EXCEPT ![w] = Found(w)] /\ Goto(w, "open") /\ UNCHANGED entry
       ELSE entry' = [entry EXCEPT ![w] = @ + 1] /\ UNCHANGED <<list, pc>>
    /\ UNCHANGED <<ftdi, session, libusb, fallback, lost, faults, given, created>>

\* ftdi_usb_find_all fails, or no element has its device.
InitFindsNothing(w) ==
    /\ pc[w] = "find" /\ Throws(w)
    /\ IF entry[w] <= Len(UsbDevices) THEN Fault ELSE NoFault

InitOpens(w) ==
    /\ pc[w] = "open" /\ Goto(w, "params")
    /\ OpenDev(w, list[w][Wanted(w).index + 1]) /\ SessionBecomes(w, "open")
    /\ list' = [list EXCEPT ![w] = <<>>]
    /\ UNCHANGED <<libusb, fallback, entry, given, created>>

\* ftdi_usb_open_dev fails, however it leaves usb_dev, or the descriptor cannot be
\* read after it.
InitOpenFails(w) ==
    /\ pc[w] = "open" /\ Throws(w)
    /\ IF Claimable(w, list[w][Wanted(w).index + 1].dev) THEN Fault ELSE NoFault

\* set_ftdi_params: reset, rate, line properties, flow control.
InitSetsParams(w) ==
    /\ pc[w] = "params" /\ Returns(w)
    /\ UNCHANGED <<ftdi, list, session, libusb, fallback, lost, faults, created>>
InitParamsFail(w) == pc[w] = "params" /\ Throws(w) /\ Fault

InitGoesOn(w) ==
    \/ InitStarts(w) \/ InitHasNoUsb(w) \/ InitPortIsBad(w)
    \/ InitFinds(w) \/ InitFindsNothing(w)
    \/ InitOpens(w) \/ InitOpenFails(w)
    \/ InitSetsParams(w) \/ InitParamsFail(w)

\* One thread: a call begins when no init is under way.
Idle == \A w \in Wrappers : pc[w] = "idle"

Next ==
    \/ \E w \in Wrappers : InitGoesOn(w)
    \/ \E w \in Wrappers : Idle /\ clear(w)
    \/ \E w \in Wrappers, usb_ctx \in {NULL} \cup (libusb \cap {App}) : Idle /\ init(w, usb_ctx)
    \/ \E c \in Contexts \ Wrappers : Idle /\ (new(c) \/ free(c)) /\ UNCHANGED contextVars
    \/ \E c \in Contexts : Idle /\ Use(c) /\ UNCHANGED contextVars

Spec == Init /\ [][Next]_vars

-----------------------------------------------------------------------------
(***************************************************************************)
(* Properties.                                                             *)
(***************************************************************************)

\* "Will destroy ftdi context and also libusb context, if created": a wrapper without
\* an ftdi_context, never initialised, cleared or thrown out of init at any step, has
\* no libusb context and no device list, and an earlier init's is gone when the next
\* begins.
NothingLeftBehind ==
    \A w \in Wrappers :
        ~Live(w) => w \notin libusb /\ list[w] = <<>> /\ ftdi[w].usb_dev = NoHandle

\* The device an entry of the configuration names: the one that as many of its product
\* come before as its index says.
Before(i) == {j \in 1..i - 1 : Product[Bus[j]] = Product[Bus[i]]}
Chosen(e) ==
    {Bus[i] : i \in {j \in DOMAIN Bus : /\ Product[Bus[j]] = UsbDevices[e].product
                                       /\ Cardinality(Before(j)) = UsbDevices[e].index}}

\* init opens the first configured device that is there, by its index among the
\* devices of that product.
FirstDeviceOpened ==
    \A w \in Wrappers : pc[w] = "params" =>
        \E e \in DOMAIN UsbDevices :
            ftdi[w].usb_dev.dev \in Chosen(e) /\ \A f \in 1..e - 1 : Chosen(f) = {}
=============================================================================
