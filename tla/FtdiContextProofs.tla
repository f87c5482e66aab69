-------------------------- MODULE FtdiContextProofs -------------------------
(***************************************************************************)
(* Theorems about FtdiContext and the device life of the C library under   *)
(* it, for every number of contexts, wrappers, devices and failing calls,  *)
(* every configuration and every order of calls.                           *)
(***************************************************************************)
EXTENDS FtdiContext, FiniteSetTheorems, RecursionLemmas

-----------------------------------------------------------------------------
(* The inductive invariant.                                                *)

\* A context that does not exist has nothing.
NothingInDead ==
    \A c \in Contexts :
        ~Live(c) => ftdi[c] = NoFtdi /\ list[c] = <<>> /\ session[c] = "closed"

\* Where init is tells what it has made so far, and which entries it has seen to be
\* missing.
InitAt(w) ==
    /\ pc[w] \in {"idle", "start"} => entry[w] = 1
    /\ pc[w] = "start" => ~Live(w)
    /\ pc[w] \in {"find", "open"} => Live(w) /\ session[w] = "closed"
    /\ pc[w] \in {"open", "params"} => entry[w] \in DOMAIN UsbDevices
    /\ pc[w] = "open" =>
         /\ Wanted(w).index + 1 \in DOMAIN list[w]
         /\ list[w][Wanted(w).index + 1].dev \in Chosen(entry[w])
    /\ pc[w] = "params" => ftdi[w].usb_dev.dev \in Chosen(entry[w])
    /\ \A f \in 1..entry[w] - 1 : Chosen(f) = {}
InitInv == \A w \in Wrappers : InitAt(w)

\* A libusb context of a wrapper goes with its ftdi_context.
OwnUsbInv == \A w \in Wrappers : w \in libusb => Live(w) /\ w \in created

DeviceInv == DeviceTypeOK /\ NothingInDead /\ SessionHoldsClaim /\ NoHandleLost
IInv == TypeOK /\ DeviceInv /\ InitInv /\ OwnUsbInv

\* Who may make a libusb context: the wrappers that create one, and ftdi_new.
Owners == Creating \cup (Contexts \ Wrappers)

\* The program made a libusb context, or only one of the others can.
OneFallback == AppUsb \/ \A c, o \in Owners : c = o

\* Under that condition everybody uses a libusb context that only he can destroy.
UsesOwn(c, h) == h.on \in {App, c} \cap libusb
UsbAt(c) ==
    /\ c \in libusb => Live(c)
    /\ Live(c) => /\ Resolve(ftdi[c].usb_ctx) \in {App, c} \cap libusb
                  /\ c \notin Wrappers => ftdi[c].usb_ctx = c
    /\ ftdi[c].usb_dev # NoHandle => UsesOwn(c, ftdi[c].usb_dev)
    /\ \A h \in ToSet(list[c]) : UsesOwn(c, h)
FallbackInv ==
    IF AppUsb THEN App \in libusb /\ fallback = App
    ELSE libusb \subseteq Owners /\ (libusb # {} => fallback # NULL)
GivenInv == \A w \in Wrappers : given[w] = App => AppUsb
UsbInv == FallbackInv /\ GivenInv /\ \A c \in Contexts : UsbAt(c)

-----------------------------------------------------------------------------
(* What the operators on a struct ftdi_context do to its fields.           *)

Structs == [usb_ctx : LibusbContexts \cup {NULL}, interface : Ports \cup {NoPort},
            usb_dev : Handles \cup {NoHandle}, claim : Ports \cup {NoPort}]

LEMMA NoHandleIsNone == NoHandle \notin Handles
BY DeviceAssumption DEF NoHandle, Handles

LEMMA NewFtdiFields ==
    ASSUME NEW u
    PROVE  /\ NewFtdi(u).usb_ctx = u /\ NewFtdi(u).interface = 0
           /\ NewFtdi(u).usb_dev = NoHandle /\ NewFtdi(u).claim = NoPort
           /\ u \in LibusbContexts \cup {NULL} => NewFtdi(u) \in Structs
BY DeviceAssumption DEF NewFtdi, Structs

LEMMA NoFtdiFields ==
    /\ NoFtdi \in Structs
    /\ NoFtdi.interface = NoPort /\ NoFtdi.usb_dev = NoHandle /\ NoFtdi.claim = NoPort
BY DEF NoFtdi, NewFtdi, Structs

LEMMA ClosedFields ==
    ASSUME NEW f \in Structs
    PROVE  /\ Closed(f) \in Structs
           /\ Closed(f).usb_ctx = f.usb_ctx /\ Closed(f).interface = f.interface
           /\ Closed(f).usb_dev = NoHandle /\ Closed(f).claim = NoPort
BY DEF Closed, Structs

LEMMA OpenedFields ==
    ASSUME NEW f \in Structs, NEW h \in Handles
    PROVE  /\ Opened(f, h) \in Structs
           /\ Opened(f, h).usb_ctx = f.usb_ctx /\ Opened(f, h).interface = f.interface
           /\ Opened(f, h).usb_dev = h /\ Opened(f, h).claim = NoPort
BY DEF Opened, Structs

-----------------------------------------------------------------------------
(* What the loop over the device list finds.                               *)

LEMMA BusIsSeq ==
    /\ Len(Bus) \in Nat /\ DOMAIN Bus = 1..Len(Bus)
    /\ \A i \in DOMAIN Bus : Bus[i] \in ToSet(Bus)
BY DeviceAssumption DEF ToSet

LEMMA DevicesAreHandles ==
    ASSUME TypeOK, NEW c \in Contexts, NEW i \in DOMAIN Bus
    PROVE  /\ Devices(c)[i] \in Handles
           /\ Devices(c)[i].dev = Bus[i] /\ Devices(c)[i].on = Resolve(ftdi[c].usb_ctx)
<1>1. Resolve(ftdi[c].usb_ctx) \in LibusbContexts \cup {NULL}
  BY DEF TypeOK, DeviceTypeOK, Resolve
<1>. QED BY <1>1, BusIsSeq DEF Devices, Handles

\* The recursion is well-defined: the list after k devices is the one before, with the
\* device k when it matches.
LEMMA MatchingUpToDef ==
    ASSUME TypeOK, NEW c \in Contexts, NEW p
    PROVE  /\ MatchingUpTo(c, p)[0] = <<>>
           /\ \A k \in 1..Len(Bus) :
                MatchingUpTo(c, p)[k] = IF Product[Bus[k]] = p
                                        THEN Append(MatchingUpTo(c, p)[k - 1], Devices(c)[k])
                                        ELSE MatchingUpTo(c, p)[k - 1]
<1>. DEFINE F == [k \in 1..Len(Bus) |-> [s \in Seq(Handles) |->
                    IF Product[Bus[k]] = p THEN Append(s, Devices(c)[k]) ELSE s]]
            Loop(g) == [k \in 0..Len(Bus) |->
                         IF k = 0 THEN <<>>
                         ELSE IF Product[Bus[k]] = p THEN Append(g[k - 1], Devices(c)[k])
                         ELSE g[k - 1]]
<1>1. F \in [1..Len(Bus) -> [Seq(Handles) -> Seq(Handles)]]
  BY DevicesAreHandles, BusIsSeq
<1>2. PICK g : IsLoop(g, Len(Bus), Seq(Handles), <<>>, F)
  <2>1. <<>> \in Seq(Handles) /\ Len(Bus) \in Nat
    BY BusIsSeq
  <2>. HIDE DEF F
  <2>. QED BY <1>1, <2>1, LoopExists
<1>3. g = Loop(g)
  <2>1. ASSUME NEW k \in 1..Len(Bus)
        PROVE  g[k] = IF Product[Bus[k]] = p THEN Append(g[k - 1], Devices(c)[k]) ELSE g[k - 1]
    <3>1. g[k - 1] \in Seq(Handles)
      BY <1>2, BusIsSeq DEF IsLoop
    <3>2. F[k][g[k - 1]] = IF Product[Bus[k]] = p THEN Append(g[k - 1], Devices(c)[k])
                           ELSE g[k - 1]
      BY <3>1
    <3>. HIDE DEF F
    <3>. QED BY <1>2, <3>2 DEF IsLoop
  <2>2. ASSUME NEW k \in 0..Len(Bus)
        PROVE  g[k] = Loop(g)[k]
    <3>1. CASE k = 0
      BY <1>2, <3>1 DEF IsLoop
    <3>2. CASE k \in 1..Len(Bus)
      <4>1. k # 0 /\ k \in 0..Len(Bus)
        BY <3>2, BusIsSeq
      <4>. QED BY <2>1, <3>2, <4>1
    <3>. QED BY <3>1, <3>2, BusIsSeq
  <2>. QED BY <1>2, <2>2 DEF IsLoop
<1>4. MatchingUpTo(c, p) = CHOOSE found : found = Loop(found)
  BY DEF MatchingUpTo
<1>5. MatchingUpTo(c, p) = Loop(MatchingUpTo(c, p))
  <2>. HIDE DEF Loop
  <2>. QED BY <1>3, <1>4
<1>6. 0 \in 0..Len(Bus) /\ \A k \in 1..Len(Bus) : k \in 0..Len(Bus) /\ k # 0
  BY BusIsSeq
<1>. QED BY <1>5, <1>6, Zenon

\* The first n devices that have the wanted product, and what a list of them is: one
\* handle for each, in their order.
Places(p, n) == {i \in 1..n : Product[Bus[i]] = p}
ListsPlaces(m, c, p, n) ==
    /\ m \in Seq(Handles) /\ Len(m) = Cardinality(Places(p, n))
    /\ \A k \in 1..Len(m) :
         \E i \in Places(p, n) : m[k] = Devices(c)[i] /\ Cardinality(Before(i)) = k - 1

LEMMA PlacesFinite ==
    ASSUME NEW p, NEW n \in Nat
    PROVE  IsFiniteSet(Places(p, n)) /\ Cardinality(Places(p, n)) \in Nat
<1>1. IsFiniteSet(1..n)
  BY FS_Interval
<1>2. Places(p, n) \in SUBSET (1..n)
  BY DEF Places
<1>. QED BY <1>1, <1>2, FS_Subset, FS_CardinalityType

\* The loop over the device list finds what it should: the induction is over the
\* number of devices looked at.
LEMMA MatchingContents ==
    ASSUME TypeOK, NEW c \in Contexts, NEW p
    PROVE  \A n \in 0..Len(Bus) : ListsPlaces(MatchingUpTo(c, p)[n], c, p, n)
<1>. DEFINE M == MatchingUpTo(c, p)
            S == {n \in Nat : n <= Len(Bus) => ListsPlaces(M[n], c, p, n)}
<1>0. M[0] = <<>> /\ \A k \in 1..Len(Bus) :
        M[k] = IF Product[Bus[k]] = p THEN Append(M[k - 1], Devices(c)[k]) ELSE M[k - 1]
  BY MatchingUpToDef
<1>. HIDE DEF M
<1>1. 0 \in S
  <2>1. Places(p, 0) = {}
    BY DEF Places
  <2>2. Len(<<>>) = 0 /\ <<>> \in Seq(Handles) /\ 1..0 = {}
    OBVIOUS
  <2>. QED BY <1>0, <2>1, <2>2, FS_EmptySet DEF ListsPlaces
<1>2. ASSUME NEW n \in Nat, n \in S
      PROVE  n + 1 \in S
  <2>. SUFFICES ASSUME n + 1 <= Len(Bus)
                PROVE  ListsPlaces(M[n + 1], c, p, n + 1)
    BY BusIsSeq
  <2>1. ListsPlaces(M[n], c, p, n) /\ n + 1 \in DOMAIN Bus /\ n + 1 \in 1..Len(Bus)
    BY <1>2, BusIsSeq
  <2>2. Places(p, n) \subseteq Places(p, n + 1) /\ n + 1 \notin Places(p, n)
    BY DEF Places
  <2>3. CASE Product[Bus[n + 1]] # p
    <3>1. Places(p, n + 1) = Places(p, n)
      BY <2>3 DEF Places
    <3>2. M[n + 1] = M[n]
      BY <1>0, <2>1, <2>3
    <3>. QED BY <2>1, <3>1, <3>2 DEF ListsPlaces
  <2>4. CASE Product[Bus[n + 1]] = p
    <3>. DEFINE m == M[n]
                d == Devices(c)[n + 1]
    <3>1. M[n + 1] = Append(m, d)
      <4>1. (n + 1) - 1 = n
        OBVIOUS
      <4>. QED BY <1>0, <2>1, <2>4, <4>1
    <3>2. d \in Handles /\ m \in Seq(Handles)
      BY <2>1, DevicesAreHandles DEF ListsPlaces
    <3>3. Places(p, n + 1) = Places(p, n) \cup {n + 1}
      BY <2>4 DEF Places
    <3>4. Cardinality(Places(p, n + 1)) = Cardinality(Places(p, n)) + 1
      BY <2>2, <3>3, PlacesFinite, FS_AddElement
    <3>5. Before(n + 1) = Places(p, n)
      BY <2>4 DEF Before, Places
    <3>. HIDE DEF m, d
    <3>6. /\ Append(m, d) \in Seq(Handles) /\ Len(Append(m, d)) = Len(m) + 1
          /\ Append(m, d)[Len(m) + 1] = d
          /\ \A k \in 1..Len(m) : Append(m, d)[k] = m[k]
      BY <3>2
    <3>7. Len(m) = Cardinality(Places(p, n)) /\ Len(m) \in Nat
      BY <2>1, <3>2 DEF ListsPlaces, m
    <3>8. ASSUME NEW k \in 1..Len(Append(m, d))
          PROVE  \E i \in Places(p, n + 1) :
                   Append(m, d)[k] = Devices(c)[i] /\ Cardinality(Before(i)) = k - 1
      <4>1. CASE k = Len(m) + 1
        <5>1. n + 1 \in Places(p, n + 1)
          BY <3>3
        <5>2. Append(m, d)[k] = Devices(c)[n + 1] /\ Cardinality(Before(n + 1)) = k - 1
          BY <3>5, <3>6, <3>7, <4>1 DEF d
        <5>. QED BY <5>1, <5>2
      <4>2. CASE k \in 1..Len(m)
        <5>1. PICK i \in Places(p, n) : m[k] = Devices(c)[i] /\ Cardinality(Before(i)) = k - 1
          BY <2>1, <4>2 DEF ListsPlaces, m
        <5>. QED BY <2>2, <3>6, <4>2, <5>1
      <4>. QED BY <3>6, <3>7, <4>1, <4>2
    <3>. QED BY <3>1, <3>4, <3>6, <3>7, <3>8 DEF ListsPlaces
  <2>. QED BY <2>3, <2>4
<1>3. Nat \subseteq S
  <2>. HIDE DEF S
  <2>. QED BY <1>1, <1>2, InductionBySet
<1>. QED BY <1>3, BusIsSeq DEF M

\* Any list the library makes: handles of the libusb context that the context uses.
LEMMA ListedHandles ==
    ASSUME TypeOK, NEW c \in Contexts, NEW p, NEW n \in 0..Len(Bus)
    PROVE  /\ MatchingUpTo(c, p)[n] \in Seq(Handles)
           /\ \A h \in ToSet(MatchingUpTo(c, p)[n]) : h.on = Resolve(ftdi[c].usb_ctx)
<1>. DEFINE m == MatchingUpTo(c, p)[n]
<1>1. ListsPlaces(m, c, p, n)
  BY MatchingContents
<1>. HIDE DEF m
<1>2. \A i \in Places(p, n) : i \in DOMAIN Bus
  BY BusIsSeq DEF Places
<1>3. \A k \in 1..Len(m) : m[k].on = Resolve(ftdi[c].usb_ctx)
  BY <1>1, <1>2, DevicesAreHandles DEF ListsPlaces
<1>. QED BY <1>1, <1>3 DEF ListsPlaces, ToSet, m

LEMMA MatchingHandles ==
    ASSUME TypeOK, NEW c \in Contexts, NEW p
    PROVE  /\ Matching(c, p) \in Seq(Handles)
           /\ \A h \in ToSet(Matching(c, p)) : h.on = Resolve(ftdi[c].usb_ctx)
<1>1. Len(Bus) \in 0..Len(Bus)
  BY BusIsSeq
<1>. QED BY <1>1, ListedHandles DEF Matching

\* The element of the list at the configured index is the configured device, and the
\* list is too short exactly when there is no such device.
LEMMA FoundIsChosen ==
    ASSUME TypeOK, NEW w \in Wrappers, entry[w] \in DOMAIN UsbDevices
    PROVE  LET k == Wanted(w).index + 1
           IN  /\ k \in DOMAIN Found(w) => Found(w)[k].dev \in Chosen(entry[w])
               /\ k \notin DOMAIN Found(w) => Chosen(entry[w]) = {}
<1>. DEFINE p == Wanted(w).product
            k == Wanted(w).index + 1
            m == Found(w)
<1>1. w \in Contexts /\ Wanted(w).index \in Nat /\ Len(Bus) \in Nat
  BY ContextAssumption, BusIsSeq DEF Wanted, ToSet
<1>2. ListsPlaces(m, w, p, Len(Bus))
  BY <1>1, MatchingContents DEF Found, Matching
<1>3. Places(p, Len(Bus)) = {j \in DOMAIN Bus : Product[Bus[j]] = p}
  BY BusIsSeq DEF Places
<1>4. Chosen(entry[w]) = {Bus[i] : i \in {j \in Places(p, Len(Bus)) :
                                          Cardinality(Before(j)) = Wanted(w).index}}
  BY <1>3 DEF Chosen, Wanted
<1>5. DOMAIN m = 1..Len(m) /\ Len(m) = Cardinality(Places(p, Len(Bus)))
  BY <1>2 DEF ListsPlaces
<1>. HIDE DEF m, p
<1>6. ASSUME k \in DOMAIN m
      PROVE  m[k].dev \in Chosen(entry[w])
  <2>1. PICK i \in Places(p, Len(Bus)) : m[k] = Devices(w)[i] /\ Cardinality(Before(i)) = k - 1
    BY <1>2, <1>5, <1>6 DEF ListsPlaces
  <2>2. k - 1 = Wanted(w).index
    BY <1>1
  <2>3. m[k].dev = Bus[i]
    BY <1>1, <1>3, <2>1, DevicesAreHandles
  <2>. QED BY <1>4, <2>1, <2>2, <2>3
<1>7. ASSUME Chosen(entry[w]) # {}
      PROVE  k \in DOMAIN m
  <2>1. PICK i \in Places(p, Len(Bus)) : Cardinality(Before(i)) = Wanted(w).index
    BY <1>4, <1>7
  <2>2. i \in Nat /\ i \in 1..Len(Bus)
    BY DEF Places
  <2>3. Before(i) \subseteq Places(p, Len(Bus)) /\ i \notin Before(i)
    BY <1>1, <2>1, <2>2 DEF Before, Places
  <2>4. IsFiniteSet(Before(i)) /\ IsFiniteSet(Before(i) \cup {i})
        /\ Cardinality(Before(i) \cup {i}) = Wanted(w).index + 1
    BY <1>1, <2>1, <2>3, PlacesFinite, FS_Subset, FS_AddElement
  <2>5. Wanted(w).index + 1 <= Cardinality(Places(p, Len(Bus)))
    BY <1>1, <2>1, <2>3, <2>4, PlacesFinite, FS_Subset
  <2>. QED BY <1>1, <1>5, <2>5, PlacesFinite
<1>. QED BY <1>6, <1>7 DEF m

-----------------------------------------------------------------------------
(* The C library's operations preserve DeviceInv.                          *)

\* Nobody else who has a device open has the claim that c is to have in f.
ClaimFree(c, f) ==
    \A o \in Contexts \ {c} :
        session[o] = "open" /\ ftdi[o].usb_dev.dev = f.usb_dev.dev => ftdi[o].claim # f.claim

\* f has a device open whose claim nobody else has at all.
OpenAlone(c, f) ==
    /\ f.usb_dev # NoHandle /\ f.claim = f.interface
    /\ \A o \in Contexts \ {c} : ftdi[o].usb_dev.dev = f.usb_dev.dev => ftdi[o].claim # f.claim

\* What every change of one context has to respect.
LEMMA ContextStep ==
    ASSUME DeviceInv, NEW c \in Contexts, NEW f \in Structs,
           NEW s \in {"closed", "open", "failed"},
           Set(c, f), SessionBecomes(c, s), lost' = lost,
           s = "closed" => f.usb_dev = NoHandle,
           s = "open" => OpenAlone(c, f),
           ClaimFree(c, f)
    PROVE  /\ ftdi' \in [Contexts -> Structs] /\ ftdi'[c] = f
           /\ session' \in [Contexts -> {"closed", "open", "failed"}] /\ session'[c] = s
           /\ \A o \in Contexts \ {c} : ftdi'[o] = ftdi[o] /\ session'[o] = session[o]
           /\ SessionHoldsClaim' /\ NoHandleLost'
<1>1. ftdi \in [Contexts -> Structs] /\ session \in [Contexts -> {"closed", "open", "failed"}]
  BY DEF DeviceInv, DeviceTypeOK, Structs
<1>2. ftdi' \in [Contexts -> Structs] /\ ftdi'[c] = f
  BY <1>1 DEF Set
<1>3. session' \in [Contexts -> {"closed", "open", "failed"}] /\ session'[c] = s
  BY <1>1 DEF SessionBecomes
<1>4. \A o \in Contexts \ {c} : ftdi'[o] = ftdi[o] /\ session'[o] = session[o]
  BY <1>1 DEF Set, SessionBecomes
<1>5. SessionHoldsClaim'
  <2>. SUFFICES ASSUME NEW o \in Contexts
                PROVE  /\ session'[o] = "closed" => ftdi'[o].usb_dev = NoHandle
                       /\ session'[o] = "open" =>
                            /\ ftdi'[o].usb_dev # NoHandle
                            /\ ftdi'[o].claim = ftdi'[o].interface
                            /\ \A q \in Contexts \ {o} :
                                 ftdi'[q].usb_dev.dev = ftdi'[o].usb_dev.dev
                                   => ftdi'[q].claim # ftdi'[o].claim
    BY DEF SessionHoldsClaim
  <2>1. CASE o = c
    BY <1>2, <1>3, <1>4, <2>1 DEF OpenAlone
  <2>2. CASE o # c
    <3>1. ftdi'[o] = ftdi[o] /\ session'[o] = session[o]
      BY <1>4, <2>2
    <3>2. ASSUME session[o] = "open", NEW q \in Contexts \ {o},
                 ftdi'[q].usb_dev.dev = ftdi[o].usb_dev.dev
          PROVE  ftdi'[q].claim # ftdi[o].claim
      <4>1. CASE q = c
        BY <1>2, <2>2, <3>2, <4>1 DEF ClaimFree
      <4>2. CASE q # c
        BY <1>4, <3>2, <4>2 DEF DeviceInv, SessionHoldsClaim
      <4>. QED BY <4>1, <4>2
    <3>. QED BY <3>1, <3>2 DEF DeviceInv, SessionHoldsClaim
  <2>. QED BY <2>1, <2>2
<1>6. NoHandleLost'
  BY DEF DeviceInv, NoHandleLost
<1>. QED BY <1>2, <1>3, <1>4, <1>5, <1>6

\* A context without a claim is in nobody's way, and neither is one that keeps its own.
LEMMA NoClaimIsFree ==
    ASSUME DeviceInv, NEW c \in Contexts, NEW f, f.claim = NoPort
    PROVE  ClaimFree(c, f)
<1>. SUFFICES ASSUME NEW o \in Contexts, session[o] = "open"
              PROVE  ftdi[o].claim # NoPort
  BY DEF ClaimFree
<1>1. ftdi[o].claim = ftdi[o].interface /\ Live(o)
  BY DEF DeviceInv, SessionHoldsClaim, NothingInDead
<1>. QED BY <1>1 DEF Live

LEMMA KeptClaimIsFree ==
    ASSUME DeviceInv, NEW c \in Contexts, NEW f,
           f.usb_dev = ftdi[c].usb_dev, f.claim = ftdi[c].claim
    PROVE  ClaimFree(c, f)
BY DEF DeviceInv, SessionHoldsClaim, ClaimFree

\* An operation on a context that exists and goes on existing.
SameContexts == \A o \in Contexts : Live(o)' <=> Live(o)

LEMMA FaultType ==
    ASSUME DeviceInv, Fault \/ NoFault
    PROVE  faults' \in 0..MaxFaults
BY DeviceAssumption DEF Fault, NoFault, DeviceInv, DeviceTypeOK

LEMMA LiveStep ==
    ASSUME DeviceInv, NEW c \in Contexts, Live(c), NEW f \in Structs,
           NEW s \in {"closed", "open", "failed"},
           Set(c, f), SessionBecomes(c, s), lost' = lost, f.interface # NoPort,
           s = "closed" => f.usb_dev = NoHandle,
           s = "open" => OpenAlone(c, f),
           ClaimFree(c, f),
           list' = list, UNCHANGED <<libusb, fallback>>, Fault \/ NoFault
    PROVE  DeviceInv' /\ SameContexts
<1>1. /\ ftdi' \in [Contexts -> Structs] /\ ftdi'[c] = f
      /\ session' \in [Contexts -> {"closed", "open", "failed"}]
      /\ \A o \in Contexts \ {c} : ftdi'[o] = ftdi[o] /\ session'[o] = session[o]
      /\ SessionHoldsClaim' /\ NoHandleLost'
  BY ContextStep
<1>2. faults' \in 0..MaxFaults
  BY FaultType
<1>3. DeviceTypeOK'
  BY <1>1, <1>2 DEF DeviceInv, DeviceTypeOK, Structs
<1>4. SameContexts
  BY <1>1 DEF SameContexts, Live
<1>5. NothingInDead'
  BY <1>1, <1>4 DEF DeviceInv, NothingInDead, SameContexts, Live
<1>. QED BY <1>1, <1>3, <1>4, <1>5 DEF DeviceInv

\* An operation that touches only the device list of its caller.
LEMMA ListStep ==
    ASSUME DeviceInv, NEW c \in Contexts, Live(c), NEW m \in Seq(Handles),
           list' = [list EXCEPT ![c] = m], Fault \/ NoFault,
           UNCHANGED <<ftdi, session, libusb, fallback, lost>>
    PROVE  DeviceInv' /\ SameContexts
<1>1. faults' \in 0..MaxFaults
  BY FaultType
<1>2. list' \in [Contexts -> Seq(Handles)] /\ \A o \in Contexts \ {c} : list'[o] = list[o]
  BY DEF DeviceInv, DeviceTypeOK
<1>3. DeviceTypeOK'
  BY <1>1, <1>2 DEF DeviceInv, DeviceTypeOK
<1>4. SameContexts
  BY DEF SameContexts, Live
<1>5. NothingInDead'
  BY <1>2 DEF DeviceInv, NothingInDead, Live
<1>6. SessionHoldsClaim' /\ NoHandleLost'
  BY DEF DeviceInv, SessionHoldsClaim, NoHandleLost
<1>. QED BY <1>3, <1>4, <1>5, <1>6 DEF DeviceInv

\* ftdi_usb_open_dev of a context without a device, both ways.
LEMMA OpenDevStep ==
    ASSUME DeviceInv, NEW c \in Contexts, Live(c), session[c] = "closed", NEW h \in Handles,
           OpenDev(c, h), SessionBecomes(c, "open"), UNCHANGED <<list, libusb, fallback>>
    PROVE  DeviceInv' /\ SameContexts
<1>. DEFINE f == [Opened(ftdi[c], h) EXCEPT !.claim = ftdi[c].interface]
<1>1. ftdi[c] \in Structs /\ ftdi[c].usb_dev = NoHandle
  BY DEF DeviceInv, DeviceTypeOK, Structs, SessionHoldsClaim
<1>2. /\ f \in Structs /\ f.interface = ftdi[c].interface
      /\ f.usb_dev = h /\ f.claim = ftdi[c].interface
  BY <1>1, OpenedFields DEF Structs
<1>3. lost' = lost
  BY <1>1 DEF OpenDev, Overwrites
<1>. HIDE DEF f
<1>4. OpenAlone(c, f) /\ ClaimFree(c, f)
  BY <1>2, NoHandleIsNone DEF OpenAlone, ClaimFree, OpenDev, Claimable
<1>5. Set(c, f) /\ NoFault
  BY DEF OpenDev, f
<1>. QED BY <1>2, <1>3, <1>4, <1>5, LiveStep DEF Live

LEMMA OpenDevFailsStep ==
    ASSUME DeviceInv, NEW c \in Contexts, Live(c), session[c] = "closed", NEW h \in Handles,
           OpenDevFails(c, h), SessionBecomes(c, "failed"), UNCHANGED <<list, libusb, fallback>>
    PROVE  DeviceInv' /\ SameContexts
<1>1. ftdi[c] \in Structs /\ ftdi[c].usb_dev = NoHandle
  BY DEF DeviceInv, DeviceTypeOK, Structs, SessionHoldsClaim
<1>2. lost' = lost /\ (Fault \/ NoFault)
  BY <1>1 DEF OpenDevFails, Overwrites
<1>3. CASE ftdi' = ftdi
  <2>1. Set(c, ftdi[c])
    BY <1>3 DEF Set, DeviceInv, DeviceTypeOK
  <2>2. ClaimFree(c, ftdi[c])
    BY KeptClaimIsFree
  <2>. QED BY <1>1, <1>2, <2>1, <2>2, LiveStep DEF Live
<1>4. CASE Set(c, Opened(ftdi[c], h))
  <2>1. ClaimFree(c, Opened(ftdi[c], h))
    BY <1>1, OpenedFields, NoClaimIsFree
  <2>. QED BY <1>1, <1>2, <1>4, <2>1, OpenedFields, LiveStep DEF Live
<1>5. CASE Set(c, Closed(ftdi[c]))
  <2>1. ClaimFree(c, Closed(ftdi[c]))
    BY <1>1, ClosedFields, NoClaimIsFree
  <2>. QED BY <1>1, <1>2, <1>5, <2>1, ClosedFields, LiveStep DEF Live
<1>. QED BY <1>3, <1>4, <1>5 DEF OpenDevFails

LEMMA set_interfaceStep ==
    ASSUME DeviceInv, NEW c \in Contexts, NEW port \in Ports, set_interface(c, port)
    PROVE  DeviceInv' /\ SameContexts
<1>. DEFINE f == [ftdi[c] EXCEPT !.interface = port]
<1>1. /\ ftdi[c] \in Structs /\ f \in Structs /\ f.interface = port
      /\ f.usb_dev = ftdi[c].usb_dev /\ f.claim = ftdi[c].claim
  BY DEF DeviceInv, DeviceTypeOK, Structs
<1>. HIDE DEF f
<1>2. Live(c) /\ Set(c, f) /\ port # NoPort
  BY DeviceAssumption DEF set_interface, f
<1>3. session[c] \in {"closed", "open", "failed"} /\ SessionBecomes(c, session[c])
  BY DEF DeviceInv, DeviceTypeOK, SessionBecomes, set_interface
<1>4. ClaimFree(c, f)
  BY <1>1, KeptClaimIsFree
<1>5. session[c] = "closed" => f.usb_dev = NoHandle
  BY <1>1 DEF DeviceInv, SessionHoldsClaim
<1>6. session[c] = "open" => OpenAlone(c, f)
  BY <1>1 DEF DeviceInv, SessionHoldsClaim, OpenAlone, set_interface
<1>7. NoFault /\ UNCHANGED <<list, libusb, fallback, lost>>
  BY DEF set_interface, NoFault
<1>. QED BY <1>1, <1>2, <1>3, <1>4, <1>5, <1>6, <1>7, LiveStep

LEMMA find_allStep ==
    ASSUME TypeOK, DeviceInv, NEW c \in Contexts, NEW p, find_all(c, p)
    PROVE  DeviceInv' /\ SameContexts
<1>1. Live(c) /\ UNCHANGED <<ftdi, session, libusb, fallback, lost>>
  BY DEF find_all
<1>2. CASE list' = [list EXCEPT ![c] = Matching(c, p)] /\ NoFault
  BY <1>1, <1>2, MatchingHandles, ListStep
<1>3. ASSUME NEW k \in DOMAIN Bus,
             list' = [list EXCEPT ![c] = MatchingUpTo(c, p)[k - 1]], Fault
      PROVE  DeviceInv' /\ SameContexts
  <2>1. k - 1 \in 0..Len(Bus)
    BY BusIsSeq
  <2>. QED BY <1>1, <1>3, <2>1, ListedHandles, ListStep
<1>. QED BY <1>2, <1>3 DEF find_all

LEMMA list_freeStep ==
    ASSUME DeviceInv, NEW c \in Contexts, list_free(c)
    PROVE  DeviceInv' /\ SameContexts
<1>1. Live(c)
  BY DEF DeviceInv, NothingInDead, list_free
<1>2. <<>> \in Seq(Handles)
  OBVIOUS
<1>. QED BY <1>1, <1>2, ListStep DEF list_free, NoFault

LEMMA open_devStep ==
    ASSUME DeviceInv, NEW c \in Contexts, open_dev(c)
    PROVE  DeviceInv' /\ SameContexts
<1>1. \A h \in ToSet(list[c]) : h \in Handles
  BY DEF DeviceInv, DeviceTypeOK, ToSet
<1>. QED BY <1>1, OpenDevStep, OpenDevFailsStep DEF open_dev

LEMMA open_bus_addrStep ==
    ASSUME TypeOK, DeviceInv, NEW c \in Contexts, open_bus_addr(c)
    PROVE  DeviceInv' /\ SameContexts
<1>1. \A h \in Range(Devices(c)) : h \in Handles
  BY DevicesAreHandles DEF Range, Devices
<1>. QED BY <1>1, OpenDevStep, OpenDevFailsStep DEF open_bus_addr

LEMMA open_desc_indexStep ==
    ASSUME TypeOK, DeviceInv, NEW c \in Contexts, NEW p, NEW index, open_desc_index(c, p, index)
    PROVE  DeviceInv' /\ SameContexts
<1>. DEFINE found == Matching(c, p)
<1>1. found \in Seq(Handles)
  BY MatchingHandles
<1>2. Live(c) /\ session[c] = "closed" /\ UNCHANGED <<list, libusb, fallback>>
  BY DEF open_desc_index
<1>3. CASE index + 1 \in DOMAIN found
  <2>1. found[index + 1] \in Handles
    BY <1>1, <1>3
  <2>2. \/ OpenDev(c, found[index + 1]) /\ SessionBecomes(c, "open")
        \/ OpenDevFails(c, found[index + 1]) /\ SessionBecomes(c, "failed")
    BY <1>3 DEF open_desc_index
  <2>. QED BY <1>2, <2>1, <2>2, OpenDevStep, OpenDevFailsStep
<1>4. CASE index + 1 \notin DOMAIN found
  <2>. DEFINE f == IF found = <<>> THEN ftdi[c] ELSE Closed(ftdi[c])
  <2>1. ftdi[c] \in Structs /\ ftdi[c].usb_dev = NoHandle
    BY <1>2 DEF DeviceInv, DeviceTypeOK, Structs, SessionHoldsClaim
  <2>2. f \in Structs /\ f.interface = ftdi[c].interface
    BY <2>1, ClosedFields
  <2>3. Set(c, f) /\ SessionBecomes(c, "failed") /\ lost' = lost /\ NoFault
    BY <1>4, <2>1 DEF open_desc_index, Overwrites
  <2>4. ClaimFree(c, f)
    <3>1. ClaimFree(c, ftdi[c])
      BY KeptClaimIsFree
    <3>2. ClaimFree(c, Closed(ftdi[c]))
      BY <2>1, ClosedFields, NoClaimIsFree
    <3>. QED BY <3>1, <3>2
  <2>. HIDE DEF f
  <2>. QED BY <1>2, <2>2, <2>3, <2>4, LiveStep DEF Live
<1>. QED BY <1>3, <1>4

LEMMA usb_closeStep ==
    ASSUME DeviceInv, NEW c \in Contexts, usb_close(c)
    PROVE  DeviceInv' /\ SameContexts
<1>1. ftdi[c] \in Structs
  BY DEF DeviceInv, DeviceTypeOK, Structs
<1>2. ClaimFree(c, Closed(ftdi[c]))
  BY <1>1, ClosedFields, NoClaimIsFree
<1>. QED BY <1>1, <1>2, ClosedFields, LiveStep DEF usb_close, Live, NoFault

LEMMA StringsFailStep ==
    ASSUME DeviceInv, NEW c \in Contexts, Live(c), NEW h \in Handles,
           StringsFail(c, h), UNCHANGED <<list, libusb, fallback, lost>>
    PROVE  DeviceInv' /\ SameContexts
<1>1. ftdi[c] \in Structs
  BY DEF DeviceInv, DeviceTypeOK, Structs
<1>2. SessionBecomes(c, "failed") /\ Fault
  BY DEF StringsFail
<1>3. ClaimFree(c, ftdi[c]) /\ ClaimFree(c, Closed(ftdi[c])) /\ ClaimFree(c, Opened(ftdi[c], h))
  BY <1>1, ClosedFields, OpenedFields, NoClaimIsFree, KeptClaimIsFree
<1>4. PICK f \in {ftdi[c], Closed(ftdi[c]), Opened(ftdi[c], h)} : Set(c, f)
  <2>1. ftdi' = ftdi => Set(c, ftdi[c])
    BY DEF Set, DeviceInv, DeviceTypeOK
  <2>. QED BY <2>1 DEF StringsFail
<1>5. f \in Structs /\ f.interface = ftdi[c].interface /\ ClaimFree(c, f)
  BY <1>1, <1>3, ClosedFields, OpenedFields
<1>. QED BY <1>2, <1>4, <1>5, LiveStep DEF Live

LEMMA get_stringsStep ==
    ASSUME DeviceInv, NEW c \in Contexts, get_strings(c) \/ GetStrings2Fails(c)
    PROVE  DeviceInv' /\ SameContexts
<1>1. ftdi[c] \in Structs
  BY DEF DeviceInv, DeviceTypeOK, Structs
<1>2. PICK h \in ToSet(list[c]) :
        \/ Set(c, Closed(ftdi[c])) /\ SessionBecomes(c, "closed") /\ NoFault
        \/ StringsFail(c, h)
  BY DEF get_strings, GetStrings2Fails
<1>3. h \in Handles /\ Live(c) /\ UNCHANGED <<list, libusb, fallback, lost>>
  BY DEF DeviceInv, DeviceTypeOK, ToSet, get_strings, GetStrings2Fails
<1>4. CASE Set(c, Closed(ftdi[c])) /\ SessionBecomes(c, "closed") /\ NoFault
  <2>1. ClaimFree(c, Closed(ftdi[c]))
    BY <1>1, ClosedFields, NoClaimIsFree
  <2>. QED BY <1>1, <1>3, <1>4, <2>1, ClosedFields, LiveStep DEF Live
<1>. QED BY <1>2, <1>3, <1>4, StringsFailStep

LEMMA UseStep ==
    ASSUME TypeOK, DeviceInv, NEW c \in Contexts, Use(c)
    PROVE  DeviceInv' /\ SameContexts
BY set_interfaceStep, find_allStep, list_freeStep, open_devStep, open_bus_addrStep,
   open_desc_indexStep, usb_closeStep, get_stringsStep DEF Use

-----------------------------------------------------------------------------
(* Contexts that come and go.                                              *)

OthersLive(c) == \A o \in Contexts \ {c} : Live(o)' <=> Live(o)

LEMMA ContextBecomes ==
    ASSUME DeviceInv, NEW c \in Contexts, NEW f \in Structs, Set(c, f),
           NEW s \in {"closed", "open", "failed"}, SessionBecomes(c, s),
           f.interface = NoPort => f = NoFtdi /\ s = "closed" /\ list'[c] = <<>>,
           s = "closed" => f.usb_dev = NoHandle,
           s = "open" => OpenAlone(c, f),
           ClaimFree(c, f), lost' = lost,
           list' \in [Contexts -> Seq(Handles)],
           \A o \in Contexts \ {c} : list'[o] = list[o],
           libusb' \subseteq LibusbContexts, fallback' \in libusb' \cup {NULL},
           faults' \in 0..MaxFaults
    PROVE  /\ DeviceInv' /\ OthersLive(c)
           /\ ftdi'[c] = f /\ session'[c] = s
           /\ \A o \in Contexts \ {c} : ftdi'[o] = ftdi[o] /\ session'[o] = session[o]
<1>1. /\ ftdi' \in [Contexts -> Structs] /\ ftdi'[c] = f
      /\ session' \in [Contexts -> {"closed", "open", "failed"}] /\ session'[c] = s
      /\ \A o \in Contexts \ {c} : ftdi'[o] = ftdi[o] /\ session'[o] = session[o]
      /\ SessionHoldsClaim' /\ NoHandleLost'
  BY ContextStep
<1>2. DeviceTypeOK'
  BY <1>1 DEF DeviceInv, DeviceTypeOK, Structs, NoHandleLost
<1>3. OthersLive(c)
  BY <1>1 DEF OthersLive, Live
<1>4. NothingInDead'
  BY <1>1, <1>3 DEF DeviceInv, NothingInDead, OthersLive, Live
<1>. QED BY <1>1, <1>2, <1>3, <1>4 DEF DeviceInv

LEMMA LibusbType ==
    ASSUME DeviceInv, NEW c \in Contexts, NEW S, LibusbInit(c) \/ LibusbExit(S)
    PROVE  libusb' \subseteq LibusbContexts /\ fallback' \in libusb' \cup {NULL}
BY DEF DeviceInv, DeviceTypeOK, LibusbInit, LibusbExit, LibusbContexts

LEMMA newStep ==
    ASSUME DeviceInv, NEW c \in Contexts, new(c)
    PROVE  DeviceInv' /\ OthersLive(c)
<1>1. /\ Set(c, NewFtdi(c)) /\ LibusbInit(c) /\ ~Live(c)
      /\ UNCHANGED <<list, session, lost, faults>>
  BY DEF new
<1>2. session[c] = "closed" /\ SessionBecomes(c, "closed")
  BY <1>1 DEF DeviceInv, DeviceTypeOK, NothingInDead, SessionBecomes
<1>3. NewFtdi(c) \in Structs /\ NewFtdi(c).interface # NoPort /\ NewFtdi(c).usb_dev = NoHandle
      /\ NewFtdi(c).claim = NoPort
  BY DeviceAssumption, NewFtdiFields DEF LibusbContexts
<1>4. ClaimFree(c, NewFtdi(c))
  BY <1>3, NoClaimIsFree
<1>5. list' \in [Contexts -> Seq(Handles)] /\ faults' \in 0..MaxFaults
  BY <1>1 DEF DeviceInv, DeviceTypeOK
<1>. QED BY <1>1, <1>2, <1>3, <1>4, <1>5, LibusbType, ContextBecomes

\* ftdi_free, and the wrapper's Release: nothing of the context is left.
LEMMA GoneStep ==
    ASSUME DeviceInv, NEW c \in Contexts, Set(c, NoFtdi), SessionBecomes(c, "closed"),
           NEW S, LibusbExit(S), lost' = lost, faults' \in 0..MaxFaults,
           list' = [list EXCEPT ![c] = <<>>]
    PROVE  /\ DeviceInv' /\ OthersLive(c)
           /\ ftdi'[c] = NoFtdi /\ session'[c] = "closed" /\ list'[c] = <<>> /\ ~Live(c)'
           /\ \A o \in Contexts \ {c} :
                ftdi'[o] = ftdi[o] /\ session'[o] = session[o] /\ list'[o] = list[o]
<1>1. ClaimFree(c, NoFtdi)
  BY NoFtdiFields, NoClaimIsFree
<1>2. /\ list' \in [Contexts -> Seq(Handles)] /\ list'[c] = <<>>
      /\ \A o \in Contexts \ {c} : list'[o] = list[o]
  BY DEF DeviceInv, DeviceTypeOK
<1>3. /\ DeviceInv' /\ OthersLive(c)
      /\ ftdi'[c] = NoFtdi /\ session'[c] = "closed"
      /\ \A o \in Contexts \ {c} : ftdi'[o] = ftdi[o] /\ session'[o] = session[o]
  BY <1>1, <1>2, NoFtdiFields, LibusbType, ContextBecomes
<1>4. ~Live(c)'
  BY <1>3, NoFtdiFields DEF Live
<1>. QED BY <1>2, <1>3, <1>4

LEMMA EmptyStaysEmpty ==
    ASSUME DeviceInv, NEW c \in Contexts, list[c] = <<>>, list' = list
    PROVE  list' = [list EXCEPT ![c] = <<>>]
BY DEF DeviceInv, DeviceTypeOK

LEMMA freeStep ==
    ASSUME DeviceInv, NEW c \in Contexts, free(c)
    PROVE  DeviceInv' /\ OthersLive(c)
<1>1. list' = [list EXCEPT ![c] = <<>>]
  BY EmptyStaysEmpty DEF free
<1>2. faults' \in 0..MaxFaults
  BY DEF free, DeviceInv, DeviceTypeOK
<1>. QED BY <1>1, <1>2, GoneStep DEF free

-----------------------------------------------------------------------------
(* Between the calls of init: what is true of the other wrappers stays so. *)

ContextTypeOK ==
    /\ pc \in [Wrappers -> {"idle", "start", "find", "open", "params"}]
    /\ entry \in [Wrappers -> 1..Len(UsbDevices) + 1]
    /\ given \in [Wrappers -> {NULL, App}]
    /\ created \subseteq Wrappers

LEMMA TypeSplits ==
    /\ TypeOK <=> DeviceTypeOK /\ ContextTypeOK
    /\ TypeOK' <=> DeviceTypeOK' /\ ContextTypeOK'
BY DEF TypeOK, ContextTypeOK

LEMMA UsbDevicesIsSeq ==
    Len(UsbDevices) \in Nat /\ DOMAIN UsbDevices = 1..Len(UsbDevices)
BY ContextAssumption

LEMMA InitFrame ==
    ASSUME InitInv, NEW v \in Wrappers, pc'[v] = pc[v], entry'[v] = entry[v],
           ftdi'[v] = ftdi[v], session'[v] = session[v], list'[v] = list[v]
    PROVE  InitAt(v)'
BY ZenonT(40) DEF InitInv, InitAt, Live, Wanted, Chosen, Before

\* Operations of the program between two inits.
LEMMA IdleStep ==
    ASSUME IInv, Idle, UNCHANGED contextVars
    PROVE  ContextTypeOK' /\ InitInv'
<1>1. ContextTypeOK'
  BY TypeSplits DEF IInv, ContextTypeOK, contextVars
<1>2. \A w \in Wrappers : pc'[w] = "idle" /\ entry'[w] = 1
  BY DEF IInv, InitInv, InitAt, Idle, contextVars
<1>3. InitInv'
  BY <1>2 DEF InitInv, InitAt
<1>. QED BY <1>1, <1>3

LEMMA UseInvariant ==
    ASSUME IInv, Idle, UNCHANGED contextVars, NEW c \in Contexts, Use(c)
    PROVE  IInv'
<1>1. DeviceInv' /\ SameContexts
  BY UseStep DEF IInv
<1>2. libusb' = libusb
  BY DEF Use, set_interface, find_all, open_desc_index, list_free, open_dev, open_bus_addr,
         usb_close, get_strings, GetStrings2Fails
<1>3. OwnUsbInv'
  BY <1>1, <1>2, ContextAssumption DEF IInv, OwnUsbInv, SameContexts, contextVars
<1>. QED BY <1>1, <1>3, IdleStep, TypeSplits DEF IInv, DeviceInv

LEMMA OthersInvariant ==
    ASSUME IInv, Idle, UNCHANGED contextVars, NEW c \in Contexts \ Wrappers, new(c) \/ free(c)
    PROVE  IInv'
<1>1. DeviceInv' /\ OthersLive(c)
  BY newStep, freeStep DEF IInv
<1>2. libusb' \subseteq libusb \cup {c}
  BY DEF new, free, LibusbInit, LibusbExit
<1>3. OwnUsbInv'
  <2>1. \A w \in Wrappers : w \in Contexts \ {c} /\ (w \in libusb' => w \in libusb)
    BY <1>2, ContextAssumption
  <2>. QED BY <1>1, <2>1 DEF IInv, OwnUsbInv, OthersLive, contextVars
<1>. QED BY <1>1, <1>3, IdleStep, TypeSplits DEF IInv, DeviceInv

-----------------------------------------------------------------------------
(* The steps of init, and clear.                                           *)

\* One wrapper moves: its own part of the invariant, and nothing else, is to be shown.
LEMMA WrapperStep ==
    ASSUME IInv, NEW w \in Wrappers, DeviceInv', ContextTypeOK', InitAt(w)',
           \A v \in Wrappers \ {w} :
             /\ pc'[v] = pc[v] /\ entry'[v] = entry[v] /\ (v \in created' <=> v \in created)
             /\ ftdi'[v] = ftdi[v] /\ session'[v] = session[v] /\ list'[v] = list[v],
           libusb' \subseteq libusb \cup {w}, w \in libusb' => Live(w)' /\ w \in created'
    PROVE  IInv'
<1>1. InitInv'
  BY InitFrame DEF IInv, InitInv
<1>2. OwnUsbInv'
  <2>1. \A v \in Wrappers \ {w} : Live(v)' <=> Live(v)
    BY DEF Live
  <2>2. \A v \in Wrappers \ {w} : v \in libusb' => v \in libusb
    OBVIOUS
  <2>. QED BY <2>1, <2>2 DEF IInv, OwnUsbInv
<1>. QED BY <1>1, <1>2, TypeSplits DEF IInv, DeviceInv

LEMMA ReleaseStep ==
    ASSUME IInv, NEW w \in Wrappers, Release(w), UNCHANGED <<lost, created>>,
           faults' \in 0..MaxFaults, list' = [list EXCEPT ![w] = <<>>]
    PROVE  /\ DeviceInv' /\ ~Live(w)' /\ list'[w] = <<>> /\ w \notin libusb'
           /\ libusb' \subseteq libusb
           /\ \A v \in Wrappers \ {w} : /\ ftdi'[v] = ftdi[v] /\ session'[v] = session[v]
                                        /\ list'[v] = list[v] /\ (v \in created' <=> v \in created)
<1>1. w \in Contexts
  BY ContextAssumption
<1>2. /\ DeviceInv' /\ ~Live(w)' /\ list'[w] = <<>>
      /\ \A v \in Contexts \ {w} :
           ftdi'[v] = ftdi[v] /\ session'[v] = session[v] /\ list'[v] = list[v]
  BY <1>1, GoneStep DEF IInv, Release
<1>3. w \notin libusb' /\ libusb' \subseteq libusb
  BY DEF IInv, OwnUsbInv, Release, LibusbExit
<1>. QED BY <1>2, <1>3, ContextAssumption

\* Where init goes next, for the wrapper and for the others.
LEMMA GotoStep ==
    ASSUME IInv, NEW w \in Wrappers, NEW where \in {"idle", "start", "find", "open", "params"},
           Goto(w, where)
    PROVE  /\ pc' \in [Wrappers -> {"idle", "start", "find", "open", "params"}]
           /\ pc'[w] = where /\ \A v \in Wrappers \ {w} : pc'[v] = pc[v]
BY TypeSplits DEF IInv, ContextTypeOK, Goto

LEMMA ReturnsStep ==
    ASSUME IInv, NEW w \in Wrappers, Returns(w), created' = created
    PROVE  /\ ContextTypeOK' /\ pc'[w] = "idle" /\ entry'[w] = 1
           /\ \A v \in Wrappers \ {w} : pc'[v] = pc[v] /\ entry'[v] = entry[v]
<1>1. ContextTypeOK
  BY TypeSplits DEF IInv
<1>2. 1 \in 1..Len(UsbDevices) + 1
  BY UsbDevicesIsSeq
<1>. QED BY <1>1, <1>2, GotoStep DEF ContextTypeOK, Returns

LEMMA ThrowsInvariant ==
    ASSUME IInv, NEW w \in Wrappers, Throws(w), Fault \/ NoFault
    PROVE  IInv'
<1>1. faults' \in 0..MaxFaults
  BY FaultType DEF IInv
<1>2. /\ DeviceInv' /\ ~Live(w)' /\ w \notin libusb' /\ libusb' \subseteq libusb
      /\ \A v \in Wrappers \ {w} : /\ ftdi'[v] = ftdi[v] /\ session'[v] = session[v]
                                   /\ list'[v] = list[v] /\ (v \in created' <=> v \in created)
  BY <1>1, ReleaseStep DEF Throws
<1>3. /\ ContextTypeOK' /\ pc'[w] = "idle" /\ entry'[w] = 1
      /\ \A v \in Wrappers \ {w} : pc'[v] = pc[v] /\ entry'[v] = entry[v]
  BY ReturnsStep DEF Throws
<1>4. InitAt(w)'
  BY <1>3 DEF InitAt
<1>. QED BY <1>2, <1>3, <1>4, WrapperStep

LEMMA clearInvariant ==
    ASSUME IInv, Idle, NEW w \in Wrappers, clear(w)
    PROVE  IInv'
<1>1. w \in Contexts /\ faults' \in 0..MaxFaults
  BY ContextAssumption DEF IInv, DeviceInv, DeviceTypeOK, clear
<1>2. list' = [list EXCEPT ![w] = <<>>]
  BY <1>1, EmptyStaysEmpty DEF IInv, clear
<1>3. /\ DeviceInv' /\ w \notin libusb' /\ libusb' \subseteq libusb
  BY <1>1, <1>2, ReleaseStep DEF clear, contextVars
<1>4. ContextTypeOK' /\ InitInv'
  BY IdleStep DEF clear
<1>5. OwnUsbInv'
  <2>1. \A v \in Wrappers \ {w} : ftdi'[v] = ftdi[v] /\ (v \in created' <=> v \in created)
    BY <1>1, <1>2, ReleaseStep DEF clear, contextVars
  <2>2. \A v \in Wrappers \ {w} : Live(v)' <=> Live(v)
    BY <2>1 DEF Live
  <2>3. \A v \in Wrappers : v \in libusb' => v \in libusb /\ v # w
    BY <1>3
  <2>. QED BY <2>1, <2>2, <2>3 DEF IInv, OwnUsbInv
<1>. QED BY <1>3, <1>4, <1>5, TypeSplits DEF IInv, DeviceInv

LEMMA initInvariant ==
    ASSUME IInv, Idle, NEW w \in Wrappers, NEW usb_ctx \in {NULL, App}, init(w, usb_ctx)
    PROVE  IInv'
<1>1. w \in Contexts /\ faults' \in 0..MaxFaults
  BY ContextAssumption DEF IInv, DeviceInv, DeviceTypeOK, init
<1>2. list' = [list EXCEPT ![w] = <<>>]
  BY <1>1, EmptyStaysEmpty DEF IInv, init
<1>3. /\ DeviceInv' /\ ~Live(w)' /\ w \notin libusb' /\ libusb' \subseteq libusb
      /\ \A v \in Wrappers \ {w} : /\ ftdi'[v] = ftdi[v] /\ session'[v] = session[v]
                                   /\ list'[v] = list[v] /\ (v \in created' <=> v \in created)
  BY <1>1, <1>2, ReleaseStep DEF init
<1>4. /\ pc' \in [Wrappers -> {"idle", "start", "find", "open", "params"}]
      /\ pc'[w] = "start" /\ \A v \in Wrappers \ {w} : pc'[v] = pc[v]
  BY GotoStep DEF init
<1>5. ContextTypeOK'
  BY <1>4, TypeSplits DEF IInv, ContextTypeOK, init
<1>6. entry' = entry /\ entry[w] = 1
  BY DEF IInv, InitInv, InitAt, Idle, init
<1>7. InitAt(w)'
  BY <1>3, <1>4, <1>6 DEF InitAt
<1>. QED BY <1>3, <1>4, <1>5, <1>6, <1>7, WrapperStep

LEMMA InitStartsInvariant ==
    ASSUME IInv, NEW w \in Wrappers, InitStarts(w)
    PROVE  IInv'
<1>. DEFINE f == [NewFtdi(given[w]) EXCEPT !.interface = ConfigPort[w]]
<1>1. /\ w \in Contexts /\ ~Live(w) /\ session[w] = "closed" /\ entry[w] = 1
      /\ given[w] \in {NULL, App} /\ ConfigPort[w] \in Ports
  BY ContextAssumption, TypeSplits
  DEF IInv, DeviceInv, NothingInDead, InitInv, InitAt, InitStarts, ContextTypeOK
<1>2. /\ f \in Structs /\ f.interface = ConfigPort[w] /\ f.interface # NoPort
      /\ f.usb_dev = NoHandle /\ f.claim = NoPort
  BY <1>1, DeviceAssumption, NewFtdiFields DEF Structs, LibusbContexts
<1>3. Set(w, f)
  BY DEF InitStarts
<1>. HIDE DEF f
<1>4. SessionBecomes(w, "closed") /\ ClaimFree(w, f)
  BY <1>1, <1>2, NoClaimIsFree
  DEF IInv, DeviceInv, DeviceTypeOK, SessionBecomes, InitStarts
<1>5. /\ libusb' \subseteq LibusbContexts /\ fallback' \in libusb' \cup {NULL}
      /\ libusb' \subseteq libusb \cup {w}
  BY <1>1, LibusbType DEF IInv, DeviceInv, DeviceTypeOK, InitStarts, LibusbInit
<1>6. list' = list /\ list' \in [Contexts -> Seq(Handles)] /\ lost' = lost /\ faults' \in 0..MaxFaults
  BY DEF IInv, DeviceInv, DeviceTypeOK, InitStarts
<1>7. /\ DeviceInv' /\ ftdi'[w] = f /\ session'[w] = "closed"
      /\ \A v \in Contexts \ {w} : ftdi'[v] = ftdi[v] /\ session'[v] = session[v]
  BY <1>1, <1>2, <1>3, <1>4, <1>5, <1>6, ContextBecomes DEF IInv
<1>8. /\ pc' \in [Wrappers -> {"idle", "start", "find", "open", "params"}]
      /\ pc'[w] = "find" /\ \A v \in Wrappers \ {w} : pc'[v] = pc[v]
  BY GotoStep DEF InitStarts
<1>9. created' \in {created, created \cup {w}} /\ entry' = entry /\ given' = given
  BY DEF InitStarts
<1>10. ContextTypeOK'
  BY <1>8, <1>9, TypeSplits DEF IInv, ContextTypeOK
<1>11. Live(w)'
  BY <1>2, <1>7 DEF Live
<1>12. InitAt(w)'
  BY <1>1, <1>7, <1>8, <1>9, <1>11 DEF InitAt
<1>13. w \in libusb' => w \in created'
  BY DEF IInv, OwnUsbInv, InitStarts
<1>. QED BY <1>5, <1>6, <1>7, <1>8, <1>9, <1>10, <1>11, <1>12, <1>13, ContextAssumption, WrapperStep

LEMMA InitFindsInvariant ==
    ASSUME IInv, NEW w \in Wrappers, InitFinds(w)
    PROVE  IInv'
<1>. DEFINE k == Wanted(w).index + 1
<1>1. /\ w \in Contexts /\ Live(w) /\ session[w] = "closed" /\ pc[w] = "find"
      /\ entry[w] \in DOMAIN UsbDevices /\ TypeOK /\ DeviceInv /\ ContextTypeOK
  BY ContextAssumption, TypeSplits, UsbDevicesIsSeq
  DEF IInv, InitInv, InitAt, InitFinds, ContextTypeOK
<1>2. UNCHANGED <<ftdi, session, libusb, fallback, lost, faults, given, created>>
  BY DEF InitFinds
<1>3. CASE k \in DOMAIN Found(w)
  <2>1. list' = [list EXCEPT ![w] = Found(w)] /\ Goto(w, "open") /\ entry' = entry
    BY <1>3 DEF InitFinds
  <2>2. /\ pc' \in [Wrappers -> {"idle", "start", "find", "open", "params"}]
        /\ pc'[w] = "open" /\ \A v \in Wrappers \ {w} : pc'[v] = pc[v]
    BY <2>1, GotoStep
  <2>3. Found(w) \in Seq(Handles)
    BY <1>1, MatchingHandles DEF Found
  <2>4. DeviceInv'
    BY <1>1, <1>2, <2>1, <2>3, ListStep DEF NoFault
  <2>5. list'[w] = Found(w) /\ \A v \in Contexts \ {w} : list'[v] = list[v]
    BY <1>1, <2>1 DEF DeviceInv, DeviceTypeOK
  <2>6. ContextTypeOK'
    BY <1>1, <1>2, <2>1, <2>2 DEF ContextTypeOK
  <2>7. Found(w)[k].dev \in Chosen(entry[w])
    BY <1>1, <1>3, FoundIsChosen
  <2>8. InitAt(w)'
    <3>1. \A f \in 1..entry[w] - 1 : Chosen(f) = {}
      BY DEF IInv, InitInv, InitAt
    <3>2. Live(w)' /\ Wanted(w)' = Wanted(w)
      BY <1>1, <1>2, <2>1 DEF Live, Wanted
    <3>. QED BY <1>1, <1>2, <1>3, <2>1, <2>2, <2>5, <2>7, <3>1, <3>2 DEF InitAt, Chosen, Before
  <2>9. w \in libusb' => Live(w)' /\ w \in created'
    BY <1>2 DEF IInv, OwnUsbInv, Live
  <2>. QED BY <1>2, <2>1, <2>2, <2>4, <2>5, <2>6, <2>8, <2>9, ContextAssumption, WrapperStep
<1>4. CASE k \notin DOMAIN Found(w)
  <2>1. entry' = [entry EXCEPT ![w] = @ + 1] /\ UNCHANGED <<list, pc>>
    BY <1>4 DEF InitFinds
  <2>2. entry[w] \in Nat /\ entry'[w] = entry[w] + 1 /\ \A v \in Wrappers \ {w} : entry'[v] = entry[v]
    BY <1>1, <2>1, UsbDevicesIsSeq DEF ContextTypeOK
  <2>3. ContextTypeOK'
    BY <1>1, <1>2, <2>1, <2>2, UsbDevicesIsSeq DEF ContextTypeOK
  <2>4. DeviceInv'
    BY <1>1, <1>2, <2>1
    DEF DeviceInv, DeviceTypeOK, NothingInDead, SessionHoldsClaim, NoHandleLost, Live
  <2>5. Chosen(entry[w]) = {}
    BY <1>1, <1>4, FoundIsChosen
  <2>6. InitAt(w)'
    <3>1. \A f \in 1..entry'[w] - 1 : Chosen(f) = {}
      <4>1. \A f \in 1..entry[w] - 1 : Chosen(f) = {}
        BY DEF IInv, InitInv, InitAt
      <4>2. \A f \in 1..entry'[w] - 1 : f = entry[w] \/ f \in 1..entry[w] - 1
        BY <2>2
      <4>. QED BY <2>5, <4>1, <4>2
    <3>2. Live(w)' /\ pc'[w] = "find" /\ session'[w] = "closed"
      BY <1>1, <1>2, <2>1 DEF Live
    <3>. QED BY <3>1, <3>2 DEF InitAt, Chosen, Before
  <2>7. w \in libusb' => Live(w)' /\ w \in created'
    BY <1>2 DEF IInv, OwnUsbInv, Live
  <2>. QED BY <1>2, <2>1, <2>2, <2>3, <2>4, <2>6, <2>7, WrapperStep
<1>. QED BY <1>3, <1>4

LEMMA InitOpensInvariant ==
    ASSUME IInv, NEW w \in Wrappers, InitOpens(w)
    PROVE  IInv'
<1>. DEFINE h == list[w][Wanted(w).index + 1]
            f == [Opened(ftdi[w], h) EXCEPT !.claim = ftdi[w].interface]
<1>1. /\ w \in Contexts /\ Live(w) /\ session[w] = "closed" /\ DeviceInv /\ ContextTypeOK
      /\ entry[w] \in DOMAIN UsbDevices /\ h.dev \in Chosen(entry[w])
      /\ h \in Handles /\ \A e \in 1..entry[w] - 1 : Chosen(e) = {}
  BY ContextAssumption, TypeSplits DEF IInv, DeviceInv, DeviceTypeOK, InitInv, InitAt, InitOpens
<1>2. UNCHANGED <<libusb, fallback, entry, given, created>>
  BY DEF InitOpens
<1>3. ftdi[w] \in Structs /\ ftdi[w].usb_dev = NoHandle
  BY <1>1 DEF DeviceInv, DeviceTypeOK, Structs, SessionHoldsClaim
<1>4. /\ f \in Structs /\ f.interface = ftdi[w].interface
      /\ f.usb_dev = h /\ f.claim = ftdi[w].interface
  BY <1>1, <1>3, OpenedFields DEF Structs
<1>. HIDE DEF h
<1>5. OpenDev(w, h) /\ Set(w, f) /\ SessionBecomes(w, "open") /\ lost' = lost
  BY <1>3 DEF InitOpens, OpenDev, Overwrites, h
<1>. HIDE DEF f
<1>6. OpenAlone(w, f) /\ ClaimFree(w, f)
  BY <1>1, <1>4, <1>5, NoHandleIsNone DEF OpenAlone, ClaimFree, OpenDev, Claimable
<1>7. /\ list' \in [Contexts -> Seq(Handles)] /\ faults' \in 0..MaxFaults
      /\ \A v \in Contexts \ {w} : list'[v] = list[v]
  BY <1>1, <1>5 DEF DeviceInv, DeviceTypeOK, InitOpens, OpenDev, NoFault
<1>8. libusb' \subseteq LibusbContexts /\ fallback' \in libusb' \cup {NULL}
  BY <1>1, <1>2 DEF DeviceInv, DeviceTypeOK
<1>9. /\ DeviceInv' /\ ftdi'[w] = f /\ session'[w] = "open"
      /\ \A v \in Contexts \ {w} : ftdi'[v] = ftdi[v] /\ session'[v] = session[v]
  BY <1>1, <1>4, <1>5, <1>6, <1>7, <1>8, ContextBecomes DEF Live
<1>10. /\ pc' \in [Wrappers -> {"idle", "start", "find", "open", "params"}]
       /\ pc'[w] = "params" /\ \A v \in Wrappers \ {w} : pc'[v] = pc[v]
  BY GotoStep DEF InitOpens
<1>11. ContextTypeOK'
  BY <1>1, <1>2, <1>10 DEF ContextTypeOK
<1>12. InitAt(w)'
  BY <1>1, <1>2, <1>4, <1>9, <1>10 DEF InitAt, Chosen, Before
<1>13. w \in libusb' => Live(w)' /\ w \in created'
  BY <1>1, <1>2, <1>4, <1>9 DEF IInv, OwnUsbInv, Live
<1>. QED BY <1>2, <1>7, <1>9, <1>10, <1>11, <1>12, <1>13, ContextAssumption, WrapperStep

LEMMA InitSetsParamsInvariant ==
    ASSUME IInv, NEW w \in Wrappers, InitSetsParams(w)
    PROVE  IInv'
<1>1. UNCHANGED deviceVars /\ created' = created
  BY DEF InitSetsParams, deviceVars
<1>2. /\ ContextTypeOK' /\ pc'[w] = "idle" /\ entry'[w] = 1
      /\ \A v \in Wrappers \ {w} : pc'[v] = pc[v] /\ entry'[v] = entry[v]
  BY <1>1, ReturnsStep DEF InitSetsParams
<1>3. DeviceInv'
  BY <1>1 DEF IInv, DeviceInv, DeviceTypeOK, NothingInDead, SessionHoldsClaim, NoHandleLost, Live,
              deviceVars
<1>4. InitAt(w)'
  BY <1>2 DEF InitAt
<1>5. w \in libusb' => Live(w)' /\ w \in created'
  BY <1>1 DEF IInv, OwnUsbInv, Live, deviceVars
<1>. QED BY <1>1, <1>2, <1>3, <1>4, <1>5, WrapperStep DEF deviceVars

LEMMA InitGoesOnInvariant ==
    ASSUME IInv, NEW w \in Wrappers, InitGoesOn(w)
    PROVE  IInv'
<1>1. CASE InitStarts(w)
  BY <1>1, InitStartsInvariant
<1>2. CASE InitFinds(w)
  BY <1>2, InitFindsInvariant
<1>3. CASE InitOpens(w)
  BY <1>3, InitOpensInvariant
<1>4. CASE InitSetsParams(w)
  BY <1>4, InitSetsParamsInvariant
<1>5. CASE \/ InitHasNoUsb(w) \/ InitPortIsBad(w) \/ InitFindsNothing(w) \/ InitOpenFails(w)
           \/ InitParamsFail(w)
  <2>1. Throws(w) /\ (Fault \/ NoFault)
    BY <1>5 DEF InitHasNoUsb, InitPortIsBad, InitFindsNothing, InitOpenFails, InitParamsFail
  <2>. QED BY <2>1, ThrowsInvariant
<1>. QED BY <1>1, <1>2, <1>3, <1>4, <1>5 DEF InitGoesOn

LEMMA InitEstablishes == Init => IInv
<1>. SUFFICES ASSUME Init PROVE IInv
  OBVIOUS
<1>1. NoFtdi \in Structs /\ NoFtdi.interface = NoPort /\ NoFtdi.usb_dev = NoHandle
  BY NoFtdiFields
<1>2. <<>> \in Seq(Handles) /\ 1 \in 1..Len(UsbDevices) + 1
  BY UsbDevicesIsSeq
<1>3. \A c \in Contexts : ftdi[c] = NoFtdi /\ ~Live(c)
  BY <1>1 DEF Init, DeviceInit, Live
<1>4. DeviceTypeOK
  BY <1>1, <1>2, DeviceAssumption DEF Init, DeviceInit, DeviceTypeOK, Structs, LibusbContexts
<1>5. ContextTypeOK
  BY <1>2 DEF Init, ContextTypeOK
<1>6. NothingInDead /\ SessionHoldsClaim /\ NoHandleLost
  BY <1>1, <1>3 DEF Init, DeviceInit, NothingInDead, SessionHoldsClaim, NoHandleLost
<1>7. InitInv
  BY <1>3, ContextAssumption DEF Init, InitInv, InitAt
<1>8. OwnUsbInv
  BY DeviceAssumption, ContextAssumption DEF Init, DeviceInit, OwnUsbInv
<1>. QED BY <1>4, <1>5, <1>6, <1>7, <1>8, TypeSplits DEF IInv, DeviceInv

LEMMA NextPreserves == IInv /\ [Next]_vars => IInv'
<1>. SUFFICES ASSUME IInv, [Next]_vars PROVE IInv'
  OBVIOUS
<1>1. ASSUME NEW w \in Wrappers, InitGoesOn(w)
      PROVE  IInv'
  BY <1>1, InitGoesOnInvariant
<1>2. ASSUME NEW w \in Wrappers, Idle, clear(w)
      PROVE  IInv'
  BY <1>2, clearInvariant
<1>3. ASSUME NEW w \in Wrappers, NEW usb_ctx \in {NULL} \cup (libusb \cap {App}),
             Idle, init(w, usb_ctx)
      PROVE  IInv'
  BY <1>3, initInvariant
<1>4. ASSUME NEW c \in Contexts \ Wrappers, Idle, new(c) \/ free(c), UNCHANGED contextVars
      PROVE  IInv'
  BY <1>4, OthersInvariant
<1>5. ASSUME NEW c \in Contexts, Idle, Use(c), UNCHANGED contextVars
      PROVE  IInv'
  BY <1>5, UseInvariant
<1>6. CASE UNCHANGED vars
  BY <1>6, ZenonT(40) DEF vars, deviceVars, contextVars, IInv, TypeOK, DeviceInv, DeviceTypeOK, NothingInDead,
     SessionHoldsClaim, NoHandleLost, InitInv, InitAt, OwnUsbInv, Live, Wanted, Chosen, Before
<1>. QED BY <1>1, <1>2, <1>3, <1>4, <1>5, <1>6 DEF Next

LEMMA Invariant == Spec => []IInv
BY InitEstablishes, NextPreserves, PTL DEF Spec

-----------------------------------------------------------------------------
(* UsbInv: whose libusb context everything comes from.                     *)

LEMMA OwnersAreContexts ==
    /\ Owners \subseteq Contexts /\ App \notin Contexts /\ NULL \notin Contexts /\ App # NULL
    /\ AppUsb \in BOOLEAN
BY DeviceAssumption, ContextAssumption DEF Owners, App, NULL

\* A libusb context is made: nobody else notices, because there is the program's or
\* nobody else has any.
LEMMA JoinStep ==
    ASSUME DeviceTypeOK, OneFallback, UsbInv, NEW c \in Owners, ~Live(c), LibusbInit(c),
           \A o \in Contexts \ {c} : ftdi'[o] = ftdi[o] /\ list'[o] = list[o]
    PROVE  /\ FallbackInv' /\ c \in libusb' /\ fallback' \in {App, c} \cap libusb'
           /\ \A o \in Contexts \ {c} : UsbAt(o)'
<1>1. c \in Contexts /\ c \notin libusb /\ c # App /\ c # NULL
  BY OwnersAreContexts DEF UsbInv, UsbAt
<1>2. libusb' = libusb \cup {c} /\ fallback' = IF fallback = NULL THEN c ELSE fallback
  BY DEF LibusbInit
<1>3. CASE AppUsb
  <2>1. fallback' = fallback /\ fallback = App /\ App \in libusb
    BY <1>2, <1>3, OwnersAreContexts DEF UsbInv, FallbackInv
  <2>2. ASSUME NEW o \in Contexts \ {c}
        PROVE  UsbAt(o)'
    BY <1>2, <2>1, <2>2 DEF UsbInv, UsbAt, UsesOwn, Resolve, Live
  <2>. QED BY <1>2, <1>3, <2>1, <2>2 DEF FallbackInv
<1>4. CASE ~AppUsb
  <2>1. libusb = {}
    BY <1>1, <1>4 DEF UsbInv, FallbackInv, OneFallback
  <2>2. fallback' = c
    BY <1>2, <2>1 DEF DeviceTypeOK
  <2>3. ASSUME NEW o \in Contexts \ {c}
        PROVE  UsbAt(o)'
    <3>1. ~Live(o) /\ ftdi[o].usb_dev = NoHandle /\ ToSet(list[o]) = {}
      BY <2>1 DEF UsbInv, UsbAt, UsesOwn
    <3>2. ~Live(o)' /\ ftdi'[o].usb_dev = NoHandle /\ ToSet(list'[o]) = {} /\ o \notin libusb'
      BY <1>2, <2>1, <3>1 DEF Live
    <3>. QED BY <3>2 DEF UsbAt
  <2>4. FallbackInv'
    BY <1>1, <1>2, <1>4, <2>1, <2>2 DEF FallbackInv
  <2>. QED BY <1>2, <2>2, <2>3, <2>4
<1>. QED BY <1>3, <1>4, OwnersAreContexts

\* A libusb context is destroyed by the only one who uses it.
LEMMA LeaveStep ==
    ASSUME DeviceTypeOK, OneFallback, UsbInv, NEW c \in Contexts, NEW S \in SUBSET {c},
           LibusbExit(S),
           \A o \in Contexts \ {c} : ftdi'[o] = ftdi[o] /\ list'[o] = list[o]
    PROVE  FallbackInv' /\ \A o \in Contexts \ {c} : UsbAt(o)'
<1>1. /\ libusb' = libusb \ S /\ fallback' = IF fallback \in S THEN NULL ELSE fallback
      /\ c # App /\ c # NULL /\ fallback \in libusb \cup {NULL}
  BY OwnersAreContexts DEF LibusbExit, DeviceTypeOK
<1>2. CASE c \notin libusb \/ S = {}
  <2>1. libusb' = libusb /\ fallback' = fallback
    BY <1>1, <1>2
  <2>2. ASSUME NEW o \in Contexts \ {c}
        PROVE  UsbAt(o)'
    BY <2>1, <2>2 DEF UsbInv, UsbAt, UsesOwn, Resolve, Live
  <2>. QED BY <2>1, <2>2 DEF UsbInv, FallbackInv
<1>3. CASE c \in libusb /\ S = {c} /\ AppUsb
  <2>1. fallback' = fallback /\ fallback = App /\ App \in libusb' /\ libusb' = libusb \ {c}
    BY <1>1, <1>3 DEF UsbInv, FallbackInv
  <2>2. ASSUME NEW o \in Contexts \ {c}
        PROVE  UsbAt(o)'
    BY <1>1, <2>1, <2>2 DEF UsbInv, UsbAt, UsesOwn, Resolve, Live
  <2>. QED BY <1>3, <2>1, <2>2 DEF FallbackInv
<1>4. CASE c \in libusb /\ S = {c} /\ ~AppUsb
  <2>1. libusb = {c}
    BY <1>4 DEF UsbInv, FallbackInv, OneFallback
  <2>2. libusb' = {}
    BY <1>1, <1>4, <2>1
  <2>3. ASSUME NEW o \in Contexts \ {c}
        PROVE  UsbAt(o)'
    <3>1. o # App
      BY OwnersAreContexts
    <3>2. ~Live(o) /\ ftdi[o].usb_dev = NoHandle /\ ToSet(list[o]) = {}
      BY <1>1, <2>1, <3>1 DEF UsbInv, UsbAt, UsesOwn
    <3>3. ~Live(o)' /\ ftdi'[o].usb_dev = NoHandle /\ ToSet(list'[o]) = {} /\ o \notin libusb'
      BY <2>2, <3>2 DEF Live
    <3>. QED BY <3>3 DEF UsbAt
  <2>. QED BY <1>4, <2>2, <2>3 DEF FallbackInv
<1>. QED BY <1>2, <1>3, <1>4, OwnersAreContexts

\* Who keeps his libusb context may list and open devices in it.
LEMMA StayStep ==
    ASSUME UsbInv, NEW c \in Contexts, UNCHANGED <<libusb, fallback>>, Live(c), Live(c)',
           ftdi'[c].usb_ctx = ftdi[c].usb_ctx,
           ftdi'[c].usb_dev # NoHandle => UsesOwn(c, ftdi'[c].usb_dev),
           \A h \in ToSet(list'[c]) : UsesOwn(c, h),
           \A o \in Contexts \ {c} : ftdi'[o] = ftdi[o] /\ list'[o] = list[o]
    PROVE  FallbackInv' /\ \A o \in Contexts : UsbAt(o)'
<1>1. FallbackInv'
  BY DEF UsbInv, FallbackInv
<1>2. UsbAt(c)'
  BY DEF UsbInv, UsbAt, UsesOwn, Resolve
<1>3. ASSUME NEW o \in Contexts \ {c}
      PROVE  UsbAt(o)'
  BY <1>3 DEF UsbInv, UsbAt, UsesOwn, Resolve, Live
<1>. QED BY <1>1, <1>2, <1>3

\* What an operation of c may hold afterwards: what it had, or what its libusb context
\* gives it.
FromOwn(c, h) ==
    h \in {NoHandle, ftdi[c].usb_dev} \cup ToSet(list[c]) \/ h.on = Resolve(ftdi[c].usb_ctx)
Keeps(c) ==
    /\ UNCHANGED <<libusb, fallback>> /\ Live(c)
    /\ ftdi'[c].usb_ctx = ftdi[c].usb_ctx /\ FromOwn(c, ftdi'[c].usb_dev)
    /\ \A h \in ToSet(list'[c]) : FromOwn(c, h)
    /\ \A o \in Contexts \ {c} : ftdi'[o] = ftdi[o] /\ list'[o] = list[o]

LEMMA SetKeeps ==
    ASSUME DeviceInv, NEW c \in Contexts, Live(c), NEW f, Set(c, f),
           f.usb_ctx = ftdi[c].usb_ctx, FromOwn(c, f.usb_dev),
           UNCHANGED <<list, libusb, fallback>>
    PROVE  Keeps(c)
<1>1. ftdi'[c] = f /\ \A o \in Contexts \ {c} : ftdi'[o] = ftdi[o]
  BY DEF Set, DeviceInv, DeviceTypeOK
<1>2. \A h \in ToSet(list'[c]) : FromOwn(c, h)
  BY DEF FromOwn
<1>. QED BY <1>1, <1>2 DEF Keeps

LEMMA ListKeeps ==
    ASSUME DeviceInv, NEW c \in Contexts, Live(c), NEW m, list' = [list EXCEPT ![c] = m],
           \A h \in ToSet(m) : h.on = Resolve(ftdi[c].usb_ctx),
           UNCHANGED <<ftdi, libusb, fallback>>
    PROVE  Keeps(c)
<1>1. list'[c] = m /\ \A o \in Contexts \ {c} : list'[o] = list[o]
  BY DEF DeviceInv, DeviceTypeOK
<1>. QED BY <1>1 DEF Keeps, FromOwn

LEMMA OpenKeeps ==
    ASSUME DeviceInv, NEW c \in Contexts, Live(c), NEW h \in Handles, FromOwn(c, h),
           OpenDev(c, h) \/ OpenDevFails(c, h), UNCHANGED <<list, libusb, fallback>>
    PROVE  Keeps(c)
<1>1. ftdi[c] \in Structs
  BY DEF DeviceInv, DeviceTypeOK, Structs
<1>2. ftdi' = ftdi => Set(c, ftdi[c])
  BY DEF Set, DeviceInv, DeviceTypeOK
<1>. DEFINE f == [Opened(ftdi[c], h) EXCEPT !.claim = ftdi[c].interface]
<1>3. f.usb_ctx = ftdi[c].usb_ctx /\ f.usb_dev = h
  BY <1>1, OpenedFields DEF Structs
<1>4. \/ Set(c, f) \/ Set(c, ftdi[c]) \/ Set(c, Opened(ftdi[c], h)) \/ Set(c, Closed(ftdi[c]))
  BY <1>2 DEF OpenDev, OpenDevFails
<1>5. FromOwn(c, NoHandle) /\ FromOwn(c, ftdi[c].usb_dev)
  BY DEF FromOwn
<1>. HIDE DEF f
<1>. QED BY <1>1, <1>3, <1>4, <1>5, OpenedFields, ClosedFields, SetKeeps

LEMMA StringsKeep ==
    ASSUME DeviceInv, NEW c \in Contexts, get_strings(c) \/ GetStrings2Fails(c)
    PROVE  Keeps(c)
<1>1. ftdi[c] \in Structs
  BY DEF DeviceInv, DeviceTypeOK, Structs
<1>2. ftdi' = ftdi => Set(c, ftdi[c])
  BY DEF Set, DeviceInv, DeviceTypeOK
<1>3. Live(c) /\ UNCHANGED <<list, libusb, fallback>>
  BY DEF get_strings, GetStrings2Fails
<1>4. PICK h \in ToSet(list[c]) :
        \/ Set(c, ftdi[c]) \/ Set(c, Opened(ftdi[c], h)) \/ Set(c, Closed(ftdi[c]))
  BY <1>2 DEF get_strings, GetStrings2Fails, StringsFail
<1>5. h \in Handles /\ FromOwn(c, h) /\ FromOwn(c, NoHandle) /\ FromOwn(c, ftdi[c].usb_dev)
  BY DEF FromOwn, DeviceInv, DeviceTypeOK, ToSet
<1>. QED BY <1>1, <1>3, <1>4, <1>5, OpenedFields, ClosedFields, SetKeeps

LEMMA DescIndexKeeps ==
    ASSUME TypeOK, DeviceInv, NEW c \in Contexts, NEW p, NEW index, open_desc_index(c, p, index)
    PROVE  Keeps(c)
<1>. DEFINE found == Matching(c, p)
<1>1. found \in Seq(Handles) /\ \A h \in ToSet(found) : h.on = Resolve(ftdi[c].usb_ctx)
  BY MatchingHandles
<1>2. Live(c) /\ UNCHANGED <<list, libusb, fallback>>
  BY DEF open_desc_index
<1>3. CASE index + 1 \in DOMAIN found
  <2>1. found[index + 1] \in Handles /\ FromOwn(c, found[index + 1])
    BY <1>1, <1>3 DEF ToSet, FromOwn
  <2>2. OpenDev(c, found[index + 1]) \/ OpenDevFails(c, found[index + 1])
    BY <1>3 DEF open_desc_index
  <2>. QED BY <1>2, <2>1, <2>2, OpenKeeps
<1>4. CASE index + 1 \notin DOMAIN found
  <2>1. ftdi[c] \in Structs
    BY DEF DeviceInv, DeviceTypeOK, Structs
  <2>2. Set(c, ftdi[c]) \/ Set(c, Closed(ftdi[c]))
    BY <1>4 DEF open_desc_index
  <2>3. FromOwn(c, NoHandle) /\ FromOwn(c, ftdi[c].usb_dev)
    BY DEF FromOwn
  <2>. QED BY <1>2, <2>1, <2>2, <2>3, ClosedFields, SetKeeps
<1>. QED BY <1>3, <1>4

LEMMA FindKeeps ==
    ASSUME TypeOK, DeviceInv, NEW c \in Contexts, NEW p, find_all(c, p)
    PROVE  Keeps(c)
<1>1. Live(c) /\ UNCHANGED <<ftdi, libusb, fallback>>
  BY DEF find_all
<1>2. CASE list' = [list EXCEPT ![c] = Matching(c, p)]
  BY <1>1, <1>2, MatchingHandles, ListKeeps
<1>3. ASSUME NEW k \in DOMAIN Bus, list' = [list EXCEPT ![c] = MatchingUpTo(c, p)[k - 1]]
      PROVE  Keeps(c)
  <2>1. k - 1 \in 0..Len(Bus)
    BY BusIsSeq
  <2>. QED BY <1>1, <1>3, <2>1, ListedHandles, ListKeeps, ZenonT(40)
<1>. QED BY <1>2, <1>3 DEF find_all

LEMMA UseKeeps ==
    ASSUME TypeOK, DeviceInv, NEW c \in Contexts, Use(c)
    PROVE  Keeps(c)
<1>1. ftdi[c] \in Structs
  BY DEF DeviceInv, DeviceTypeOK, Structs
<1>2. FromOwn(c, NoHandle) /\ FromOwn(c, ftdi[c].usb_dev) /\ \A h \in ToSet(list[c]) : FromOwn(c, h)
  BY DEF FromOwn
<1>3. ASSUME NEW port \in Ports, set_interface(c, port)
      PROVE  Keeps(c)
  <2>. DEFINE f == [ftdi[c] EXCEPT !.interface = port]
  <2>1. f.usb_ctx = ftdi[c].usb_ctx /\ f.usb_dev = ftdi[c].usb_dev
    BY <1>1 DEF Structs
  <2>. HIDE DEF f
  <2>2. Set(c, f)
    BY <1>3 DEF set_interface, f
  <2>. QED BY <1>2, <1>3, <2>1, <2>2, SetKeeps DEF set_interface
<1>4. CASE list_free(c)
  <2>1. Live(c)
    BY <1>4 DEF DeviceInv, NothingInDead, list_free
  <2>2. ToSet(<<>>) = {}
    BY DEF ToSet
  <2>. QED BY <1>4, <2>1, <2>2, ListKeeps DEF list_free
<1>5. CASE open_dev(c)
  <2>1. \A h \in ToSet(list[c]) : h \in Handles
    BY DEF DeviceInv, DeviceTypeOK, ToSet
  <2>. QED BY <1>2, <1>5, <2>1, OpenKeeps DEF open_dev
<1>6. CASE open_bus_addr(c)
  <2>1. \A h \in Range(Devices(c)) : h \in Handles /\ FromOwn(c, h)
    BY DevicesAreHandles DEF Range, Devices, FromOwn
  <2>. QED BY <1>6, <2>1, OpenKeeps DEF open_bus_addr
<1>7. CASE usb_close(c)
  BY <1>1, <1>2, <1>7, ClosedFields, SetKeeps DEF usb_close
<1>8. CASE get_strings(c) \/ GetStrings2Fails(c)
  BY <1>8, StringsKeep
<1>. QED BY <1>3, <1>4, <1>5, <1>6, <1>7, <1>8, FindKeeps, DescIndexKeeps DEF Use

LEMMA KeepsUsb ==
    ASSUME UsbInv, NEW c \in Contexts, Keeps(c), Live(c)', DeviceInv'
    PROVE  FallbackInv' /\ \A o \in Contexts : UsbAt(o)'
<1>1. \A h : FromOwn(c, h) => h = NoHandle \/ UsesOwn(c, h)
  BY DEF UsbInv, UsbAt, UsesOwn, FromOwn, Keeps
<1>2. \A h \in ToSet(list'[c]) : h # NoHandle
  BY NoHandleIsNone DEF DeviceInv, DeviceTypeOK, ToSet
<1>3. \A h \in ToSet(list'[c]) : UsesOwn(c, h)
  BY <1>1, <1>2 DEF Keeps
<1>. QED BY <1>1, <1>3, StayStep DEF Keeps

LEMMA GivenFrame ==
    ASSUME UsbInv, UNCHANGED given
    PROVE  GivenInv'
BY DEF UsbInv, GivenInv

\* A context that is no more: it has nothing to keep a libusb context for.
LEMMA GoneUses ==
    ASSUME NEW c \in Contexts, ftdi'[c] = NoFtdi, list'[c] = <<>>, c \notin libusb'
    PROVE  UsbAt(c)'
<1>1. ftdi'[c].usb_dev = NoHandle /\ ~Live(c)' /\ ToSet(list'[c]) = {}
  BY NoFtdiFields DEF Live, ToSet
<1>. QED BY <1>1 DEF UsbAt

LEMMA UseUsb ==
    ASSUME IInv, UsbInv, NEW c \in Contexts, Use(c), UNCHANGED contextVars
    PROVE  UsbInv'
<1>1. DeviceInv' /\ Live(c)' /\ Keeps(c)
  BY UseStep, UseKeeps DEF IInv, SameContexts, Keeps
<1>2. GivenInv'
  BY GivenFrame DEF contextVars
<1>. QED BY <1>1, <1>2, KeepsUsb DEF UsbInv

LEMMA newUsb ==
    ASSUME IInv, UsbInv, OneFallback, NEW c \in Contexts \ Wrappers, new(c),
           UNCHANGED contextVars
    PROVE  UsbInv'
<1>1. /\ Set(c, NewFtdi(c)) /\ LibusbInit(c) /\ ~Live(c) /\ list' = list /\ c \in Owners
      /\ DeviceTypeOK /\ list[c] = <<>>
  BY DEF new, Owners, IInv, DeviceInv, NothingInDead
<1>2. ftdi'[c] = NewFtdi(c) /\ \A o \in Contexts \ {c} : ftdi'[o] = ftdi[o] /\ list'[o] = list[o]
  BY <1>1 DEF Set, DeviceTypeOK
<1>3. FallbackInv' /\ c \in libusb' /\ \A o \in Contexts \ {c} : UsbAt(o)'
  BY <1>1, <1>2, JoinStep
<1>4. UsbAt(c)'
  <2>1. /\ ftdi'[c].usb_ctx = c /\ ftdi'[c].usb_dev = NoHandle /\ Live(c)'
        /\ ToSet(list'[c]) = {} /\ c # NULL
    BY <1>1, <1>2, NewFtdiFields, OwnersAreContexts, DeviceAssumption DEF Live, ToSet
  <2>. QED BY <1>3, <2>1 DEF UsbAt, Resolve
<1>5. GivenInv'
  BY GivenFrame DEF contextVars
<1>. QED BY <1>3, <1>4, <1>5 DEF UsbInv

\* ftdi_free, clear and the handler of init.
LEMMA GoneUsb ==
    ASSUME IInv, UsbInv, OneFallback, NEW c \in Contexts, Set(c, NoFtdi),
           list' = [list EXCEPT ![c] = <<>>], NEW S \in SUBSET {c}, LibusbExit(S),
           c \in libusb => c \in S, GivenInv'
    PROVE  UsbInv'
<1>1. DeviceTypeOK
  BY DEF IInv, DeviceInv
<1>2. /\ ftdi'[c] = NoFtdi /\ list'[c] = <<>>
      /\ \A o \in Contexts \ {c} : ftdi'[o] = ftdi[o] /\ list'[o] = list[o]
  BY <1>1 DEF Set, DeviceTypeOK
<1>3. FallbackInv' /\ \A o \in Contexts \ {c} : UsbAt(o)'
  BY <1>1, <1>2, LeaveStep
<1>4. UsbAt(c)'
  BY <1>2, GoneUses DEF LibusbExit
<1>. QED BY <1>3, <1>4 DEF UsbInv

LEMMA freeUsb ==
    ASSUME IInv, UsbInv, OneFallback, NEW c \in Contexts \ Wrappers, free(c),
           UNCHANGED contextVars
    PROVE  UsbInv'
<1>1. ftdi[c].usb_ctx = c
  BY DEF UsbInv, UsbAt, free
<1>2. list' = [list EXCEPT ![c] = <<>>]
  BY EmptyStaysEmpty DEF free, IInv
<1>3. GivenInv'
  BY GivenFrame DEF contextVars
<1>. QED BY <1>1, <1>2, <1>3, GoneUsb DEF free

LEMMA ReleaseUsb ==
    ASSUME IInv, UsbInv, OneFallback, NEW w \in Wrappers, Release(w),
           list' = [list EXCEPT ![w] = <<>>], GivenInv'
    PROVE  UsbInv'
<1>1. w \in Contexts /\ (w \in libusb => w \in created)
  BY ContextAssumption DEF IInv, OwnUsbInv
<1>. QED BY <1>1, GoneUsb DEF Release

LEMMA InitStartsUsb ==
    ASSUME IInv, UsbInv, OneFallback, NEW w \in Wrappers, InitStarts(w)
    PROVE  UsbInv'
<1>. DEFINE f == [NewFtdi(given[w]) EXCEPT !.interface = ConfigPort[w]]
<1>1. /\ w \in Contexts /\ ~Live(w) /\ list[w] = <<>> /\ DeviceTypeOK
      /\ given[w] \in {NULL, App} /\ ConfigPort[w] \in Ports
  BY ContextAssumption, TypeSplits
  DEF IInv, DeviceInv, NothingInDead, InitInv, InitAt, InitStarts, ContextTypeOK
<1>2. f.interface # NoPort /\ f.usb_dev = NoHandle /\ f.usb_ctx = given[w]
  BY <1>1, DeviceAssumption, NewFtdiFields DEF Structs, LibusbContexts
<1>3. Set(w, f) /\ UNCHANGED <<list, given>>
  BY DEF InitStarts
<1>. HIDE DEF f
<1>4. ftdi'[w] = f /\ \A o \in Contexts \ {w} : ftdi'[o] = ftdi[o] /\ list'[o] = list[o]
  BY <1>1, <1>3 DEF Set, DeviceTypeOK
<1>5. Live(w)' /\ ToSet(list'[w]) = {} /\ ftdi'[w].usb_dev = NoHandle /\ ftdi'[w].usb_ctx = given[w]
  BY <1>1, <1>2, <1>3, <1>4 DEF Live, ToSet
<1>6. GivenInv'
  BY <1>3, GivenFrame
<1>7. CASE given[w] = NULL
  <2>1. w \in Owners /\ LibusbInit(w)
    BY <1>7 DEF Owners, InitStarts
  <2>2. /\ FallbackInv' /\ fallback' \in {App, w} \cap libusb'
        /\ \A o \in Contexts \ {w} : UsbAt(o)'
    BY <1>1, <1>4, <2>1, JoinStep
  <2>3. UsbAt(w)'
    BY <1>5, <1>7, <2>2 DEF UsbAt, Resolve
  <2>. QED BY <1>6, <2>2, <2>3 DEF UsbInv
<1>8. CASE given[w] = App
  <2>1. AppUsb /\ App \in libusb /\ App # NULL /\ UNCHANGED <<libusb, fallback>>
    BY <1>8, OwnersAreContexts DEF UsbInv, GivenInv, FallbackInv, InitStarts
  <2>2. FallbackInv'
    BY <2>1 DEF UsbInv, FallbackInv
  <2>3. ASSUME NEW o \in Contexts \ {w}
        PROVE  UsbAt(o)'
    BY <1>4, <2>1, <2>3 DEF UsbInv, UsbAt, UsesOwn, Resolve, Live
  <2>4. UsbAt(w)'
    BY <1>5, <1>8, <2>1 DEF UsbAt, Resolve
  <2>. QED BY <1>6, <2>2, <2>3, <2>4 DEF UsbInv
<1>. QED BY <1>1, <1>7, <1>8

LEMMA InitGoesOnUsb ==
    ASSUME IInv, UsbInv, OneFallback, NEW w \in Wrappers, InitGoesOn(w)
    PROVE  UsbInv'
<1>1. w \in Contexts /\ TypeOK /\ DeviceInv /\ DeviceInv'
  BY InitGoesOnInvariant, ContextAssumption DEF IInv
<1>2. CASE Throws(w)
  <2>1. GivenInv'
    BY <1>2, OwnersAreContexts, TypeSplits DEF Throws, Returns, UsbInv, GivenInv, IInv, ContextTypeOK
  <2>. QED BY <1>2, <2>1, ReleaseUsb DEF Throws
<1>3. CASE InitFinds(w)
  <2>1. Live(w) /\ Live(w)' /\ UNCHANGED <<ftdi, libusb, fallback, given>>
    BY <1>3 DEF InitFinds, IInv, InitInv, InitAt, Live
  <2>2. list' = list \/ list' = [list EXCEPT ![w] = Found(w)]
    BY <1>3 DEF InitFinds
  <2>3. CASE list' = list
    BY <2>1, <2>3, GivenFrame DEF UsbInv, UsbAt, UsesOwn, FallbackInv, Resolve, Live
  <2>4. CASE list' = [list EXCEPT ![w] = Found(w)]
    <3>1. \A h \in ToSet(Found(w)) : h.on = Resolve(ftdi[w].usb_ctx)
      BY <1>1, MatchingHandles DEF Found
    <3>2. Keeps(w)
      BY <1>1, <2>1, <2>4, <3>1, ListKeeps
    <3>. QED BY <1>1, <2>1, <3>2, KeepsUsb, GivenFrame DEF UsbInv
  <2>. QED BY <2>2, <2>3, <2>4
<1>4. CASE InitOpens(w)
  <2>. DEFINE h == list[w][Wanted(w).index + 1]
              f == [Opened(ftdi[w], h) EXCEPT !.claim = ftdi[w].interface]
  <2>1. h \in ToSet(list[w]) /\ h \in Handles /\ ftdi[w] \in Structs /\ Live(w)
    BY <1>1, <1>4 DEF InitOpens, IInv, InitInv, InitAt, DeviceInv, DeviceTypeOK, ToSet, Structs
  <2>2. f.usb_ctx = ftdi[w].usb_ctx /\ f.usb_dev = h /\ f.interface = ftdi[w].interface
    BY <2>1, OpenedFields DEF Structs
  <2>3. Set(w, f) /\ list' = [list EXCEPT ![w] = <<>>] /\ UNCHANGED <<libusb, fallback, given>>
    BY <1>4 DEF InitOpens, OpenDev
  <2>. HIDE DEF f, h
  <2>4. /\ ftdi'[w] = f /\ list'[w] = <<>>
        /\ \A o \in Contexts \ {w} : ftdi'[o] = ftdi[o] /\ list'[o] = list[o]
    BY <1>1, <2>3 DEF Set, DeviceInv, DeviceTypeOK
  <2>5. Live(w)' /\ ToSet(list'[w]) = {} /\ UsesOwn(w, ftdi'[w].usb_dev)
    BY <1>1, <2>1, <2>2, <2>4 DEF Live, ToSet, UsbInv, UsbAt
  <2>. QED BY <1>1, <2>1, <2>2, <2>3, <2>4, <2>5, StayStep, GivenFrame DEF UsbInv
<1>5. CASE InitSetsParams(w)
  <2>1. UNCHANGED <<ftdi, list, libusb, fallback>> /\ Returns(w)
    BY <1>5 DEF InitSetsParams
  <2>2. GivenInv'
    BY <2>1, OwnersAreContexts, TypeSplits DEF Returns, UsbInv, GivenInv, IInv, ContextTypeOK
  <2>. QED BY <2>1, <2>2 DEF UsbInv, UsbAt, UsesOwn, FallbackInv, Resolve, Live
<1>6. InitGoesOn(w) => InitStarts(w) \/ Throws(w) \/ InitFinds(w) \/ InitOpens(w) \/ InitSetsParams(w)
  BY DEF InitGoesOn, InitHasNoUsb, InitPortIsBad, InitFindsNothing, InitOpenFails, InitParamsFail
<1>. QED BY <1>2, <1>3, <1>4, <1>5, <1>6, InitStartsUsb

LEMMA UsbNextPreserves ==
    ASSUME IInv, UsbInv, OneFallback, [Next]_vars
    PROVE  UsbInv'
<1>1. ASSUME NEW w \in Wrappers, clear(w)
      PROVE  UsbInv'
  <2>1. list' = [list EXCEPT ![w] = <<>>]
    BY <1>1, EmptyStaysEmpty, ContextAssumption DEF clear, IInv
  <2>. QED BY <1>1, <2>1, ReleaseUsb, GivenFrame DEF clear, contextVars
<1>2. ASSUME NEW w \in Wrappers, NEW usb_ctx \in {NULL} \cup (libusb \cap {App}), init(w, usb_ctx)
      PROVE  UsbInv'
  <2>1. list' = [list EXCEPT ![w] = <<>>]
    BY <1>2, EmptyStaysEmpty, ContextAssumption DEF init, IInv
  <2>2. usb_ctx = App => AppUsb
    BY OwnersAreContexts DEF UsbInv, FallbackInv
  <2>3. GivenInv'
    BY <1>2, <2>2, TypeSplits DEF init, UsbInv, GivenInv, IInv, ContextTypeOK
  <2>. QED BY <1>2, <2>1, <2>3, ReleaseUsb DEF init
<1>3. CASE UNCHANGED vars
  BY <1>3 DEF vars, deviceVars, contextVars, UsbInv, UsbAt, UsesOwn, FallbackInv, GivenInv, Resolve, Live
<1>. QED BY <1>1, <1>2, <1>3, InitGoesOnUsb, newUsb, freeUsb, UseUsb DEF Next

LEMMA UsbInitEstablishes ==
    ASSUME Init
    PROVE  UsbInv
<1>1. \A c \in Contexts : ftdi[c] = NoFtdi /\ list[c] = <<>> /\ c # App
  BY OwnersAreContexts DEF Init, DeviceInit
<1>2. \A c \in Contexts : ftdi[c].usb_dev = NoHandle /\ ~Live(c) /\ ToSet(list[c]) = {} /\ c \notin libusb
  BY <1>1, NoFtdiFields DEF Live, ToSet, Init, DeviceInit
<1>3. FallbackInv
  BY OwnersAreContexts DEF Init, DeviceInit, FallbackInv
<1>4. GivenInv
  BY OwnersAreContexts DEF Init, GivenInv
<1>. QED BY <1>2, <1>3, <1>4 DEF UsbInv, UsbAt

-----------------------------------------------------------------------------
(* The theorems.                                                           *)

\* Every variable keeps its type, whatever the program does and whatever fails.
THEOREM TypeCorrect == Spec => []TypeOK
<1>1. IInv => TypeOK
  BY DEF IInv
<1>. QED BY <1>1, Invariant, PTL

\* ftdi_usb_open_dev and all that call it: no handle is ever opened into a usb_dev that
\* still holds one, also after the failures that leave the device open.
THEOREM HandlesAreClosed == Spec => []NoHandleLost
<1>1. IInv => NoHandleLost
  BY DEF IInv, DeviceInv
<1>. QED BY <1>1, Invariant, PTL

\* ftdi_set_interface, ftdi_usb_open_dev, ftdi_usb_get_strings2: who has a device open
\* talks to the interface his own handle claimed, alone.
THEOREM SessionsAreSafe == Spec => []SessionHoldsClaim
<1>1. IInv => SessionHoldsClaim
  BY DEF IInv, DeviceInv
<1>. QED BY <1>1, Invariant, PTL

\* FtdiContext::clear and the handler of init: nothing of an init is left behind.
THEOREM InitCleansUp == Spec => []NothingLeftBehind
<1>1. IInv => NothingLeftBehind
  <2>. SUFFICES ASSUME IInv, NEW w \in Wrappers, ~Live(w)
                PROVE  w \notin libusb /\ list[w] = <<>> /\ ftdi[w].usb_dev = NoHandle
    BY DEF NothingLeftBehind
  <2>1. ftdi[w] = NoFtdi /\ list[w] = <<>>
    BY ContextAssumption DEF IInv, DeviceInv, NothingInDead
  <2>2. w \notin libusb
    BY DEF IInv, OwnUsbInv
  <2>. QED BY <2>1, <2>2, NoFtdiFields
<1>. QED BY <1>1, Invariant, PTL

\* FtdiContext::init over ftdi_usb_find_all: the device it opens is the first configured
\* one that is there, counted by its product, for every bus and configuration.
THEOREM OpensTheFirst == Spec => []FirstDeviceOpened
<1>1. IInv => FirstDeviceOpened
  BY DEF IInv, InitInv, InitAt, FirstDeviceOpened
<1>. QED BY <1>1, Invariant, PTL

\* ftdi_free and FtdiContext's clear: as long as the program makes a libusb context
\* itself, or one of its contexts at most does, a libusb context outlives all that came
\* from it.  Without that, v_context shows how it does not.
THEOREM UsbOutlivesHandles ==
    ASSUME OneFallback
    PROVE  Spec => []ExitIsLast
<1>1. Init => UsbInv
  BY UsbInitEstablishes
<1>2. IInv /\ UsbInv /\ [Next]_vars => UsbInv'
  BY UsbNextPreserves
<1>3. UsbInv => ExitIsLast
  BY DEF UsbInv, UsbAt, UsesOwn, ExitIsLast
<1>. QED BY <1>1, <1>2, <1>3, Invariant, PTL DEF Spec
=============================================================================
