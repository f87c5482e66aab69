# libsgftdi: a TLA+ model of the library

libsgftdi is libftdi1 (the C library `src/src/ftdi.c`) with a C++ streaming engine on
top of it. This directory holds TLA+ modules that model the code, TLC configurations
that check them on small instances, and proofs checked by TLAPS. `PROJECT.json` maps
every definition to its source lines and lists the runs, the mutants that show each
property able to fail, the findings, the hazards and the theorems.

    tlc -config stream_faults.cfg MCFtdiStream      # any run: <cfg> <module>
    tlapm FtdiStreamProofs.tla

## Inventory

| Part | Code | State it keeps | Operations | Correct when |
|---|---|---|---|---|
| Streaming engine | `FtdiStreamStatic.cpp`, `FtdiStreamState.cpp`, `internal.h` | `should_run`, `should_cancel`, `is_started_*`; `streamstates` (a libusb transfer each, with `enabled`); request lists; epoll, event and timer descriptors; `cancel_counter`; `ts_now`, `ts_activity`; `error_spsc` | `process_init`, `process_step` (`event_notice`, `event_timer`), `read_callback`, `write_callback`, `submit`, `cancel`, `process_cleanup` | every transfer is accounted for, no wake-up is lost, each chunk is sent once, an end is explained and visible |
| Public interface | `FtdiStream.cpp`, end of `FtdiStreamStatic.cpp` | `_mutex`, `_thr` | `start_thread`, `stop_thread`, `start_poll`, `poll`, `stop_poll`, `enable_reading`, `disable_reading`, `reset_stream`, `get_errors`, `is_ending` | the two modes exclude each other, a stop returns, the last request wins |
| Stream entries | `FtdiStreamEntry.cpp` | configuration of one stream, user callbacks | setters | (configuration only) |
| Context wrapper | `FtdiContext.cpp` | `_ctx`, `_usb_ctx`, `_libusb_context_created`, configuration | `init`, `clear`, configuration parsing | `init` opens the right device or leaves nothing behind; only what is its own is destroyed, and last |
| C library: device life | `ftdi.c` 57-971, 1199, `ftdi_ex.h` | `struct ftdi_context`: `usb_ctx`, `usb_dev`, `interface` | find, list, open, strings, close, create, destroy | no handle is lost; requests go to the interface that was claimed |
| C library: data | `ftdi.c` 1585-2161 | readbuffer, transfers in flight | synchronous and asynchronous reads and writes, done, cancel, flushes | the chip's bytes reach the reader in order and once, and the writer's the chip |
| C library: baud rate and bit mode | `ftdi.c` 1215-1481, 2180-2229 | `baudrate`, `bitbang_enabled` | `ftdi_set_baudrate`, `ftdi_set_bitmode`, `ftdi_disable_bitbang` | chip and driver agree on rate and mode; the divisor exists and is the closest |
| C library: other line settings | `ftdi.c` 163-205, 1484-1570, 2268-2575, constants of `ftdi.h` | `index`; the registers are the chip's | one control request each, packed into value and index | a setting reaches the port it is meant for and disturbs no other |
| C library: EEPROM | `ftdi.c` 2581-4732, `ftdi_i.h` | image, decoded values, `size`, `initialized_for_connected_device` | defaults, strings, values, build, decode, read, write, erase, single location | what is completely written is what the next reader finds; an image is written only to the device it was built for |

**How they interact.** The application makes an `FtdiContext` (or an `ftdi_context`),
which opens a device through the C library. Streams are `FtdiStreamEntry` objects on
such contexts; all streams of one `FtdiStream` share one libusb context. `start_thread`
runs the engine in a thread of its own; `start_poll` and `poll` run it in the caller's.
Other threads reach the engine through atomics (`should_cancel`), lists under
`list_mutex`, and an eventfd that wakes it. The engine reaches the device through
libusb, whose callbacks run inside `libusb_handle_events`, and hands data to the
application through user callbacks, under no lock but inside the engine's step.
The C library's own reads and writes do not use the engine; their callbacks too run
inside whatever call handles libusb events.

**What is hard here.** Requests and stops against the engine's step (a lost wake-up, a
stop that never returns, a deadlock with a user callback); the one flag `enabled` as the
only record of who owns a transfer, through failing submits, cancels and resets that
dispatch callbacks on their own; a shutdown bounded in steps with a device that answers
late; asynchronous C transfers completed by callbacks inside other calls, with timeouts
and cancels that race; partial failures of long constructions (`init`, `open`, a write of
128 words); an EEPROM whose size can only be guessed and whose layout is written out by hand
twice for each of eight chips; integer arithmetic at the ends of its range. `PROJECT.json` lists these as hazards, each at its
line, with the properties aimed at it.

## The modules

| Module | Models | Composition |
|---|---|---|
| `FtdiStream` | engine and public interface | one state machine: callers, engine, libusb, kernel |
| `MCFtdiStream` | instances of it | extends `FtdiStream` |
| `StreamLife` | what the public interface promises over several engines: started, running, asked to end, ended, stopped; chunks taken and confirmed | abstract; `FtdiStream` refines it |
| `FtdiTransfer` | C data transfers and the readbuffer | refines `ByteStream` |
| `ByteStream` | what reading promises: a stream that only drops what is reported | abstract |
| `FtdiBaud`, `MCFtdiBaud` | rate conversion, `ftdi_set_baudrate`, bit mode | alone |
| `FtdiDevice` | contexts, lists, handles, claims in the C library | operators and actions |
| `FtdiContext`, `MCFtdiContext` | the wrapper, with the C library's calls beside it | extends `FtdiDevice` |
| `FtdiLine` | line settings, requests on one side and the chip's registers on the other | operators and actions |
| `EepromLayout` | where an image keeps what, per chip type, in the builder and in the decoder; the defaults | operators only |
| `FtdiEeprom`, `MCFtdiEeprom` | the EEPROM calls on devices that are opened and closed | extends `FtdiLine`, `EepromLayout` |

The proofs are in modules of their own:

| Module | Proves | Composition |
|---|---|---|
| `FtdiStreamProofs` | the safety invariants of `FtdiStream` | extends `FtdiStream` |
| `StreamLifeProofs` | the refinement of `StreamLife` | extends `FtdiStreamProofs` |
| `FtdiTransferProofs` | the invariants of `FtdiTransfer` and the refinement of `ByteStream` | extends `FtdiTransfer`, `RecursionLemmas` |
| `FtdiBaudProofs` | the rates, for every number an application may ask for | extends `FtdiBaud` |
| `FtdiContextProofs` | handles, claims, libusb contexts of `FtdiContext` and `FtdiDevice` | extends `FtdiContext`, `RecursionLemmas` |
| `EepromLayoutProofs` | the two tables of the EEPROM's layout against each other | extends `EepromLayout`, `RecursionLemmas` |
| `FtdiEepromProofs` | line settings and EEPROM calls | extends `FtdiEeprom`, `EepromLayoutProofs` |
| `RecursionLemmas` | induction over the numbers by sets; loops compute something | none of the model's |

### FtdiStream

Variables carry the names of the fields they model; `epc` is where the engine is
(`wait` in `epoll_wait`, `batch` between its events, `usb`, `reset` and `tail` inside a call
that dispatches libusb callbacks, `callback` and `resume` inside a user callback that makes
a request), `cpc` what each caller does. Each operation is one action unless another
thread can act in its middle:

- A request (`Request`) holds `_mutex` and `list_mutex` over the lists and writes the
  eventfd after it has released both (`issue_notice`); both locks are taken by `std::lock`
  and the section has no wait in it, so it is one step.
- A start runs `process_init` under `_mutex` and is one step; it succeeds, misses a source
  whose `epoll_ctl` fails, or throws after some transfers.
- A stop is `stop_thread`, the notice, the join; or `stop_poll`, whose steps are engine
  steps under `_mutex`.
- `epoll_wait` returns a batch; each event is handled by an action of its own, and every
  returned transfer by an action of its own (`read_callback`, `write_callback`) while the
  engine is in a dispatching call.

`usb[t]` is where libusb has transfer `t`: `idle` means it is the library's own. Nothing is
modelled after a transfer was freed in flight (`dangling`): the C++ program has no
defined behaviour there. `poll` is not thread safe, so one caller, `Poller`, uses the
polling interface; it may still use the rest, as may the others.

Left out: the data itself, statistics and counters, logging, wording of errors, the
user's reset callback, read callbacks of the `READ_GET_FD` kind after the start.
External and modelled from their use: libusb, epoll, eventfd, timerfd, the application's
write buffers.

### StreamLife

Four variables: the mode, the phase of the one engine, and for each stream the chunks the
application holds and whether the device has taken the first. `FtdiStream` maps `is_started_*`
to the mode, `should_run` and `should_cancel` to the phase (`Mode`, `Phase`), and its write
queues to themselves. What is not obvious: an engine that has stopped running without
`should_cancel` would have the phase "hidden", which `StreamLife` does not know; a stop is only
possible from "ended"; and of the three callback paths of a write only the one of a running
engine may move the buffer. A chunk that was taken by an engine which then ended is still in
the buffer: the next engine sends it again, and the specification allows that, as the code
does (a hazard in `PROJECT.json`).

### FtdiTransfer and ByteStream

One context used by one thread, with at most one read and one write in progress.
`Strip` removes the status bytes of each packet in place; both callbacks, both submits,
`ftdi_transfer_data_done` and `_cancel`, `ftdi_tciflush` and
`ftdi_read_data_set_chunksize` are actions. A byte is named by its position in the stream
(0 for a status byte), so order, loss and repetition are visible. libusb behaves as its
Linux backend: a cancelled transfer that was already back becomes `CANCELLED`, an expired one
stays `TIMED_OUT`. `readbuffer_chunksize` is a multiple of the packet size (the library
keeps to that by default; other sizes break packets up) and sizes are positive.

`ByteStream` is the abstract specification: bytes are sent, handed over in order, or
dropped from the end of what is pending with a report. `ReadsAreAStream` instantiates it
with `Pending`, the concatenation of everything that holds data on its way.

### FtdiBaud

The code's integer arithmetic, division by division, and beside it the chip's side: what
divisor and rate a request means according to AN120 (`ChipDivisor`, `ChipRate`). Sessions
open and close, requests fail, a closed device may lose its power. `forgot` remembers, for
the properties alone, that a loss of power ended the bitbang mode last asked for:
`BitbangIsKnown` says in both directions when the driver's flag is right, and that this is
the one case in which it is not (the next open then asks for 38400 baud). The port number in
`index` is left out; rates stay below the overflow of an `int` (`BaudAssumption`).

### FtdiDevice and FtdiContext

A `struct ftdi_context` is a record of `usb_ctx`, `interface`, `usb_dev` and the interface
its handle has claimed. libusb contexts, handles and device lists are kept in the model
with the context they come from, so that a handle overwritten in `usb_dev` (`lost`) or one
whose context is gone is seen. Each C call is one action with its failing variants; the
program is single-threaded and careful: it closes after a failed call before it opens
again, and frees a list before it clears the context. `FtdiContext::init` is cut at every
call that can fail; an exception goes through its handler in the same action. `NULL` for a
libusb context means libusb's fallback, the first context created.

Left out: failing `malloc`, the kernel driver's detachment (it only selects among error
codes), the packet size, `ftdi_set_usbdev`, the strings, and the device references that a
half-failed `ftdi_usb_find_all` leaves to nobody. `populate_config` runs before `init` and is a
constant, a port that does not exist included.

### FtdiLine

A call is a record of its name and arguments; `Request` is the value and index it packs them
into, as the code computes them. `ChipSets` and `ChipTakes` are the other side, read off the
comments of `ftdi.h`: the bits of a value, and the port that the low byte of an index names.
`asked` remembers what the program's successful calls asked for, so that `LineAsAsked`
compares two independent readings of the encoding, over two devices and two ports, with
`ftdi_write_eeprom` setting a latency of its own in between. `ftdi_set_interface` changes
ports while nothing is open.

### EepromLayout and FtdiEeprom

`EepromLayout` is arithmetic. `BuildAt(type)` and `DecodeAt(type)` are two tables of places
(first bit, width), written from `ftdi_eeprom_build` and `ftdi_eeprom_decode`; `Coded` and
`Decoded` are what the code does to a value on the way (`type2bit`, `bit2type`, drives, bits
that are stored inverted). A header is the set of its 1 bits, so places that overlap are
seen. `KeepsValues` says that every value that is built decodes to itself, all others being
at one end of their range and the structure holding the other end before, with the
exceptions the code has: `Undecoded` names the four values that are stored and never read
(`channel_a_type` of a TYPE_R, which the decoder sets to 0 at `ftdi.c:3703`, and the
functions of the 230X's pins 4 to 6, which `:3804` does not reach) and `ReadAs` what a decode
makes of them. `KeepsStrings` says, for every length of the strings that the builder accepts, that
they stay clear of header and checksum, also where addresses wrap around; and where the three PnP
bytes behind them (`PnpBytes`) go, for which the user areas leave too little room: never into a
string, and outside the free area only onto bytes that are assigned after them
(`AssignedLast`). There `is_not_pnp` is lost, for a TYPE_R from 47 characters on and
a 230X from 43, and nowhere else.

`FtdiEeprom` keeps an EEPROM as blocks of 64 bytes: no code path treats two words of a block
differently except by failing between them, which a write of the first `k` blocks covers.
Addresses wrap around at the EEPROM's end (2, 4 or 8 blocks), which both the size guess of
`ftdi_read_eeprom` and the mark of `ftdi_erase_eeprom` rely on. The checksum is modelled by
what it was summed from: two images have the same one only if they are the same. Each call is
one action; reads, writes and erases have variants that fail in the middle. One program uses
one context with several devices of one chip type; `meant` and `built` remember what it has
built and completely written, and no action reads them.

Left out of both: the printing decode, the getters, `ftdi_read_chipid`, the factory words of
a 230X beyond their taking part in the checksum. A `strrchr` in `ftdi_read_eeprom` runs past
its buffer into `release_number`; the model gives it every value of that field that can end the
search (`LooksBlank`).

## The runs

| Run | Asks | Bounds |
|---|---|---|
| `stream_faults` | does the bookkeeping of transfers survive one failure of any kind but an interrupted `epoll_wait`, is an end explained, is a chunk sent once | 2 callers, a read and a write transfer, 1 failure, 1 start, 2 chunks |
| `stream_restart` | modes, wake-ups, whose request wins, graceful end over two runs of the engine in either mode, and that all of it implements `StreamLife` | 2 callers, 2 starts, 3 cancel loops as in the code, no failure |
| `stream_timeout` | types, the activity timeout, requests made by user callbacks, with `epoll_wait` and descriptor reads failing | 1 read transfer, 1 s timeout, 4 clock values, 1 failure |
| `stream_liveness` | do stops return, are requests served and writes not forgotten | as `stream_restart`, 1 start, 2 loops |
| `transfer_reads` | reads as a byte stream under two failures of any kind | packets of 4, chunks of 1 and 3 packets, reads of 1 and 4, 5 bytes |
| `transfer_cancel` | writes over several transfers, frees, the end of a cancel | chunk 2, a write of 3, 1 failure (no expired timeout, events are handled) |
| `baud` | rates on an AM, a BM and a 232H chip | about 250 rates from -1 to 13 MBaud, no bound on sessions |
| `context` | handles, claims, libusb contexts, `init` failing anywhere | 2 wrappers, 1 plain context, 3 devices of 2 products, 2 ports, 1 failure |
| `eeprom` | is what was written what is read, never from a stale image; does an erase find the size; do the tables agree; do line settings keep apart | 8 chip types, 2 devices with EEPROMs of different size, 1 failure, 4 to 7 calls that prepare an image, 2 line calls |
| `v_disable`, `v_lock`, `v_context` | the findings below | the smallest that show them |

The bounds keep what the hazards need: two callers are enough for every race on the lists
and locks, as a third would wait for the same mutex; one transfer of each direction shows
both callbacks and the interplay through the shared application buffer; one failure at any
moment reaches every error path, and two in the transfers one path from within another.
Three packets in a chunk are one, two and more than two; five bytes fill a chunk and leave a
rest. Two wrappers and a plain context are one user each of a shared, an own and a
fallback libusb context. Two devices are what it takes to write to the wrong one, and 46, 56,
66 and none are all the EEPROMs there are. `transfer_reads` switches the deadlock check off
because nothing is modelled after a transfer was freed in flight, and `eeprom` because a
program may have used up its calls; every other run checks it.

The `eeprom` run takes a program that builds its image with the device open
(`BuildsClosed = FALSE`), and `ReadBack` speaks of images of the EEPROM's own size; the
constants and actions for the others are in the model.

**Fairness.** `stream_liveness` assumes weak fairness of what the kernel and libusb do by
themselves: threads run, the timer ticks each second, `epoll_wait` returns when something
is ready, `libusb_handle_events` with its zero timeout returns, the engine's own steps go
on. Nothing is assumed of the device or of the application. `transfer_cancel` assumes that
a call which handles events goes on doing so, and that libusb gives back a transfer which is
being cancelled or has expired: the backend's contract. There is no other fairness.

## The proofs

Every safety invariant, action property and refinement that a passing run checks is also
proved, for every value of the constants. The assumptions are the named `ASSUME`s of the
modules, which TLC evaluates in every run; six theorems have a condition of their own,
stated with them and explained here, because without it the code does not keep the property.

### The streaming engine

`FtdiStreamProofs` proves, for any number of callers, streams, transfers and any bounds, that
`IInv` is inductive, and from it `TypeCorrect`, `TransfersAccounted`, `RequestsReach`,
`LastRequestCounts`, `EngineOwnsState`, `GracefulShutdown` and `WatchdogHolds`. The safety properties are not
inductive by themselves:

- `EnabledIsInFlight` holds only while the engine runs, and a callback in the middle of a
  request must know that its transfer is still its own: `CallbackPending`, `PhaseInv`.
- `NoLostRequest` needs to know who holds the locks and where the engine is: `RunnerInv`.
- `EngineHasState` needs that only the holder of `_mutex` is stopping: `StopHoldsMutex`.
- `LastRequestWins` is about the step that serves the lists. It needs that the lists hold the
  last request for each descriptor (`ListsAreLast`, against the history variable `asked`), and
  of the transfers that those enabled are exactly those with libusb.
- Callbacks confirm only what the application still holds (`WriterHasData`, without which a
  queue could underflow and `TypeOK` fail); this needs at most one write transfer per stream,
  which the constructor of `FtdiStream` enforces (`OneWriterAssumption`).

So `IInv` is `TypeOK`, `RunnerInv` (who runs the engine and holds the lock), `TransferInv`
(where every transfer is), `RequestInv` (which wake-ups are pending), `GracefulEnd` and
`Watchdog`. Each part has a step lemma with one case per action, and a frame lemma for the
actions that do not touch it; `NextInvariant` puts them together.

Two properties need more than `IInv`:

- `EndsAreExplained` (`NoSilentEnd`). `QuietInv` adds that a transfer is only ever being
  cancelled, or back as `CANCELLED`, when there is an explanation, since that status ends the
  engine. Conditions: nobody disables a stream (`v_disable` is the counterexample) and
  `epoll_wait` does not fail (the engine then calls `cancel ()` and says nothing).
- `FirstRunSendsOnce` (`SentOnce` until the engine is started a second time, whatever fails) and
  `ChunksSentOnce` (always, for a program that starts it once). `SentInv` adds that while the
  engine runs, a chunk the device has taken is in a returned transfer, so nothing can submit
  it. A second run sends again what was taken while the first was stopping.

`StreamLifeProofs` proves `ImplementsLife`: every behaviour of `FtdiStream`, with any failures,
is one of `StreamLife` (`Spec => LivesAsPromised`). `IInv` is not enough for it. `Confirm` maps to
a step of `StreamLife` only if the device has taken what a returned write carries, and nobody
else's confirmation has taken that away (`MovedIsTaken`, with one writer per stream); a join
maps to `Stop` only if a thread that destroyed its state has seen the end (`EndedThread`).
Four lemmas say how a group of actions looks from outside (`Stutters`, `Ends`, `Starts`,
`Asks`), and `LifeStep` takes every action through one of them. TLC checks the same refinement
in `stream_restart`, without failures; the theorem has them.

### The C library's transfers

`FtdiTransferProofs` has the invariant in three parts. `Control` says who owns a control block
and its transfer; `ReadSide` that a read under way finds the readbuffer empty, that what is in
the readbuffer lies inside it, and that a returned transfer brought the last bytes the chip
sent; `WriteSide` that the transfer libusb has is the next piece. The hard part is arithmetic:
that `Strip`, moving the payload of each packet over the status bytes before it, leaves
exactly the chip's bytes, for every packet size and count (`Packed`, `StrippedBytes`). With that every action is a step of `ByteStream` or none: `Coming` is what is pending
together with what the chip sends in the step, and each read action is shown to send, receive
from the front of it, or lose the end of it with a report (`ReadsImplementStream`). From the same
invariant: `TypeCorrect`, `CompletedAreBack`, `WritesAreCounted`, `DonesAreWhole`, and
`FreedWhenBack` for a libusb whose event handling does not fail. Where it fails, `ftdi.c` gives
up waiting and frees the transfer as it is.

### Rates

`FtdiBaudProofs` is about every rate, not the 250 of the run. Lemmas on division give the
nearest divisor of `ftdi_to_clkbits` and the adjustments of `ftdi_to_clkbits_AM`; each divisor's
code is taken apart again by the chip's side (`ChipDecodes`), so that a chip given the request
for a rate `Obeys` it. `ModeIsKnown` is the bitbang flag in both directions. `BaudInv` then only has to say that an open chip has the request for the
rate the driver remembers. `BaudAssumption` keeps the rates below an `int`'s overflow.

### Devices and wrappers

`FtdiContextProofs` covers any number of wrappers, contexts, devices and failing calls. `IInv`
adds to the properties what `init` has made at each of its steps (`InitAt`), which is what its
handler and `clear` have to undo, and that contexts that do not exist hold nothing.
`FirstDeviceOpened` needs that the n-th handle of a list is the n-th device of its product on
the bus (`MatchingContents`, `FoundIsChosen`, by induction over the bus). `UsbOutlivesHandles` (`ExitIsLast`) is for programs with
`OneFallback`: the application has a libusb context that was created first, or only one of its
contexts ever makes one. Without that, `NULL` means somebody else's context; `v_context`.

### EEPROM and line settings

`EepromLayoutProofs` compares the tables for arbitrary values. A table of places `Sits` in a set
of bits when its fields keep apart there; the parts of each type's table sit in sets that do not
meet (`BuildSits`), and the decoder's table has the same places (`BuildRead`). A coded value fits
its place and survives its decoding (`CodedFits`). A place reads a number back if nothing else of
the image touches it (`NumberIsRead`, by induction over its bits), so each value is read as it was
built whatever the others are (`FieldRead`); the others come out as `ReadAs` says
(`UndecodedAre`, `ValueRead`). That is `KeepsValues`; `KeepsStrings` is about the addresses of
the strings and of the PnP bytes behind them.

`FtdiEepromProofs` has four layers, each resting on the one before:

- `LineInv`: each port's registers `Agree` with what was asked of them; the core is
  `RequestMeans`, that what the chip unpacks from a request is what the call packed.
- `TypeInv`, for images, EEPROMs and all that was built.
- `Own`: a flag that is set names the device that was open (`ImagesAreOwn`), for programs that
  build with the device open. `ErasesFindTheChip` is about one action: where the mark shows, as
  addresses wrap, tells the sizes apart (`MarkShows`).
- `BufferHolds` and `RomHolds`: buffer and EEPROM are `Whole` images of what was built and
  meant. Writes carry the first over to the second, failures and other devices notwithstanding,
  the size guess of a read finds the image again, and the tables give back its values:
  `ImagesReadBack`.

### Technique

Induction needs an operator argument where the library states it, which the provers cannot
instantiate. `RecursionLemmas` restates it for a set: a set with 0 and with each number the
next holds all numbers; for loops (`Strip`, `LowBits`, the walk over the bus) the set is that of
the indices up to which the claim holds. The functions that the models define by recursion are
first shown to exist (`LoopExists`). Where a proof
showed a model to be vague, the model was changed: type invariants that allowed more than
they said, and a `CASE` of `EepromLayout` whose guards overlapped, so that its value was TLC's
choice.

Only model-checked: liveness (`StopReturns`, `RequestServed`, `WriteNotForgotten`, `CancelEnds`),
which is out of the prover's reach as it needs `ENABLED`, and the findings, which are
counterexamples.

## Findings

- `v_disable`: `disable_reading` cancels the transfers of one stream to submit them again
  later, but `read_callback` takes `LIBUSB_TRANSFER_CANCELLED` for the end of the engine and
  stops it, silently and for all streams.
- `v_lock`: a user callback that calls `enable_reading` waits for `_mutex`, which
  `stop_thread` holds while it joins the thread the callback runs in.
- `v_context`: `FtdiContext::init` creates a libusb context and gives the C library `nullptr`;
  two wrappers then work in the first one's context, and its `clear` destroys it under the
  second.

Known from the model and kept as hazards, not as runs: a transfer whose timeout has run out
comes back as `TIMED_OUT` and not `CANCELLED`, the callbacks submit it again, and
`ftdi_transfer_data_cancel` waits for ever (add `"timeout"` to `FaultKinds` in
`transfer_cancel.cfg`); an image built with no device open is written to whichever is opened
next (`BuildsClosed = TRUE` in `eeprom.cfg` violates `InitializedForThisDevice`); new defaults
forget the EEPROM's size, and images of a wrong size are read back as something else; an image that was
read, or whose build failed half-way, is written without a checksum; a shutdown that uses up its loops
frees transfers that libusb has (`GracefulEnd` is what holds instead); a decode sets
the `channel_a_type` of a TYPE_R to 0 and leaves out pins 4 to 6 of a 230X, so that an image
read, decoded and built again is another one; `is_not_pnp` falls on the checksum or on byte 0
behind long strings, where the comments at `ftdi.c:2956` and `:2959` count 4 bytes for it; the activity timeout
can be raised early after a stall; event handling that fails during a cancel frees the
transfer in flight; `bitbang_enabled` outlives a session; `ftdi_usb_open_dev`,
`ftdi_usb_get_strings` and `_strings2` leave a device open or close one against their
comments.

## Not modelled, and the plan

Not modelled: stream entries and configuration parsing (they run before an engine or an
`init` and keep no state of their own beyond a record that is a constant here), the getters
and printing functions, headers, the version functions, the build files, and `test/main.cpp`,
which starts googletest and holds no test. Of the C library's device life `ftdi_set_usbdev`
and the kernel driver's detachment are missing; within the data transfers a second read
beside one in flight, which takes the readbuffer from under the first (a hazard without a
property: nothing in the code survives it).

What is left to do: the theorems could drop conditions where the code is repaired
(`UsbOutlivesHandles` once `init` hands its own libusb context to the C library,
`EndsAreExplained` once a disabled transfer no longer ends the engine); a second read beside one
in flight could be modelled once the library defines what it should do.
