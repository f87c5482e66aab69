----------------------------- MODULE FtdiStream -----------------------------
(***************************************************************************)
(* The streaming engine of libsgftdi: src/src/FtdiStreamStatic.cpp,        *)
(* FtdiStream.cpp, FtdiStreamState.cpp, internal.h.                        *)
(*                                                                         *)
(* One engine (the thread made by start_thread, or the caller inside poll  *)
(* and stop_poll) repeats process_step: it waits on an epoll set, handles  *)
(* the ready sources one by one and, once should_run is false, cancels     *)
(* every enabled transfer until all have come back or the cancel loops are *)
(* used up.  Callers on other threads start and stop it and leave requests *)
(* (enable, disable, reset) in lists that the engine serves when the       *)
(* notice eventfd wakes it.  libusb owns a submitted transfer until it     *)
(* hands it back to read_callback or write_callback.                       *)
(***************************************************************************)
EXTENDS Integers

CONSTANTS
    Callers,            \* application threads using one FtdiStream object
    Poller,             \* the one of them that uses start_poll, poll, stop_poll
    NoOne,              \* not a caller: _mutex is free
    Streams,            \* FtdiStreamEntry objects
    NumTransfers,       \* libusb transfers, numbered in creation order
    stream_id,          \* transfer -> its stream
    is_reading,         \* transfer -> BOOLEAN
    read_start_enabled, \* stream -> BOOLEAN
    read_fd,            \* stream -> what its READ_GET_FD callback returns
    write_fd,           \* stream -> what its WRITE_GET_FD callback returns
    CancelLoops,        \* cancel_counter after process_init (3 in the code)
    timeout,            \* seconds without activity, 0 for none
    Requests,           \* the requests this application makes
    CallbackCalls,      \* do user callbacks make requests themselves?
    FaultKinds,         \* the failures the environment may produce ...
    MaxFaults,          \* ... and how many of them (bound)
    MaxStarts,          \* successful or failed starts (bound)
    MaxQueue,           \* chunks an application holds ready to write (bound)
    MaxClock,           \* seconds of monotonic time told apart (bound)
    ErrorCapacity       \* size of error_spsc (64 in the code)

Transfers == 1..NumTransfers
AllRequests == {"enable", "disable", "reset"}
AllFaults == {"init", "epoll_add", "epoll_wait", "read", "submit", "device",
              "usb", "reset"}
\* The key of a transfer in the streamstates multimap.
eventfd == [t \in Transfers |->
              IF is_reading[t] THEN read_fd[stream_id[t]] ELSE write_fd[stream_id[t]]]
Fds == {eventfd[t] : t \in Transfers} \cup {read_fd[s] : s \in Streams}
WriteFds == {eventfd[t] : t \in {u \in Transfers : ~is_reading[u]}}
OwnSources == {"usb", "notice", "timer"}
Sources == OwnSources \cup WriteFds

ASSUME CallersAssumption == Poller \in Callers /\ NoOne \notin Callers
ASSUME TransfersAssumption ==
    /\ NumTransfers \in Nat
    /\ stream_id \in [Transfers -> Streams]
    /\ is_reading \in [Transfers -> BOOLEAN]
    /\ read_start_enabled \in [Streams -> BOOLEAN]
\* The constructor refuses more than one write transfer per stream.
ASSUME OneWriterAssumption ==
    \A t, u \in Transfers :
        ~is_reading[t] /\ ~is_reading[u] /\ stream_id[t] = stream_id[u] => t = u
\* A descriptor belongs to one stream; the engine's own are never the application's.
ASSUME FdsAssumption ==
    /\ \A s, r \in Streams : write_fd[s] = write_fd[r] => s = r
    /\ Fds \cap OwnSources = {}
ASSUME BoundsAssumption ==
    /\ CancelLoops \in Nat /\ timeout \in Nat /\ ErrorCapacity \in Nat \ {0}
    /\ MaxFaults \in Nat /\ MaxStarts \in Nat /\ MaxQueue \in Nat /\ MaxClock \in Nat
    /\ Requests \subseteq AllRequests
    /\ FaultKinds \subseteq AllFaults
    /\ CallbackCalls \in BOOLEAN

VARIABLES
    is_started_thr, is_started_poll,
    mutex,              \* holder of FtdiStream::_mutex
    cpc,                \* what each caller is doing
    should_run, should_cancel,
    notice,             \* notice_event_fd is readable
    cancel_counter,
    errors,             \* strings in error_spsc
    list_enable, list_disable, list_reset,
    alive,              \* streamstates # nullptr
    enabled,            \* FtdiStreamStaticState::enabled
    usb,                \* where libusb has the transfer
    moved,              \* a returned transfer carries data
    dangling,           \* a transfer was freed while libusb still owned it
    watched,            \* sources registered in epoll_fd
    epc,                \* where the engine is
    batch,              \* events of this epoll_wait still to handle
    cb, cbfrom,         \* transfer whose user callback makes a request, and where from
    wqueue,             \* stream -> chunks the application has ready to write
    taken,              \* stream -> the device took the front chunk, unconfirmed
    timer,              \* timer_fd is readable
    clock, ts_now, ts_activity,
    faults, starts,     \* budgets left
    \* History, read by no action:
    explained,          \* since the start, a stop was asked for or a failure reported
    asked               \* descriptor -> the last request for it not yet served

control == <<should_run, should_cancel, notice, errors, explained>>
lists == <<list_enable, list_disable, list_reset, asked>>
modes == <<is_started_thr, is_started_poll, mutex, starts>>
transfers == <<enabled, usb, moved>>
memory == <<alive, dangling, watched>>
engine == <<epc, batch, cb, cbfrom>>
times == <<timer, clock, ts_now, ts_activity>>
app == <<wqueue, taken>>
vars == <<control, lists, modes, transfers, memory, engine, times, app,
          cpc, cancel_counter, faults>>

NothingAsked == [fd \in Fds |-> "none"]

CallerPCs == {"idle", "notify", "stop_notice", "join", "poll", "stop_poll"}
EnginePCs == {"none", "wait", "batch", "usb", "reset", "tail", "cleanup",
              "callback", "resume"}
\* idle: ours; inflight, cancelling: libusb's; the others: returned, callback due.
Returned == {"COMPLETED", "ERROR", "CANCELLED"}
UsbStates == {"idle", "inflight", "cancelling"} \cup Returned

\* The type invariant, in parts that follow the groups of variables.
ControlOK ==
    /\ should_run \in BOOLEAN /\ should_cancel \in BOOLEAN
    /\ notice \in BOOLEAN /\ explained \in BOOLEAN
    /\ errors \in 0..ErrorCapacity
ListsOK ==
    /\ list_enable \subseteq Fds /\ list_disable \subseteq Fds /\ list_reset \subseteq Streams
    /\ asked \in [Fds -> {"none", "enable", "disable"}]
ModesOK ==
    /\ is_started_thr \in BOOLEAN /\ is_started_poll \in BOOLEAN
    /\ mutex \in Callers \cup {NoOne}
    /\ starts \in 0..MaxStarts
TransfersOK ==
    /\ enabled \in [Transfers -> BOOLEAN]
    /\ usb \in [Transfers -> UsbStates]
    /\ moved \in [Transfers -> BOOLEAN]
MemoryOK == alive \in BOOLEAN /\ dangling \in BOOLEAN /\ watched \subseteq Sources
EngineOK ==
    /\ epc \in EnginePCs /\ batch \subseteq Sources
    /\ cb \in 0..NumTransfers /\ cbfrom \in {"none", "usb", "reset", "tail"}
TimesOK ==
    /\ timer \in BOOLEAN
    /\ clock \in 0..MaxClock /\ ts_now \in 0..MaxClock
    /\ ts_activity \in 0..MaxClock
AppOK == wqueue \in [Streams -> 0..MaxQueue] /\ taken \in [Streams -> BOOLEAN]

TypeOK ==
    /\ ControlOK /\ ListsOK /\ ModesOK /\ TransfersOK
    /\ MemoryOK /\ EngineOK /\ TimesOK /\ AppOK
    /\ cpc \in [Callers -> CallerPCs]
    /\ cancel_counter \in -1..CancelLoops
    /\ faults \in 0..MaxFaults

Init ==
    /\ is_started_thr = FALSE /\ is_started_poll = FALSE
    /\ mutex = NoOne
    /\ cpc = [c \in Callers |-> "idle"]
    /\ should_run = TRUE /\ should_cancel = FALSE
    /\ notice = FALSE /\ explained = FALSE
    /\ cancel_counter = CancelLoops
    /\ errors = 0
    /\ list_enable = {} /\ list_disable = {} /\ list_reset = {}
    /\ asked = NothingAsked
    /\ alive = FALSE /\ dangling = FALSE
    /\ watched = {} /\ batch = {}
    /\ enabled = [t \in Transfers |-> FALSE]
    /\ usb = [t \in Transfers |-> "idle"]
    /\ moved = [t \in Transfers |-> FALSE]
    /\ epc = "none" /\ cb = 0 /\ cbfrom = "none"
    /\ wqueue \in [Streams -> 0..MaxQueue]
    /\ taken = [s \in Streams |-> FALSE]
    /\ timer = FALSE
    /\ clock = 0 /\ ts_now = 0 /\ ts_activity = 0
    /\ faults = MaxFaults /\ starts = MaxStarts

-----------------------------------------------------------------------------
(* Helpers shared by the actions.                                          *)

\* The environment spends one failure of kind k.
Fault(k) == k \in FaultKinds /\ faults > 0 /\ faults' = faults - 1

\* Mutant: cancel forgets to publish should_cancel.
CancelUnpublished ==
    /\ should_run' = FALSE /\ notice' = TRUE
    /\ UNCHANGED <<should_cancel, errors, explained>>

\* cancel (state).
Cancel ==
    /\ should_run' = FALSE /\ should_cancel' = TRUE /\ notice' = TRUE
    /\ UNCHANGED <<errors, explained>>

\* error (state, ...): cancel, then push_back, which a full queue refuses.
\* Mutant: the error queue is never full.
PushErrorUnbounded == errors + 1
PushError == IF errors < ErrorCapacity THEN errors + 1 ELSE errors
Error ==
    /\ should_run' = FALSE /\ should_cancel' = TRUE /\ notice' = TRUE
    /\ errors' = PushError
    /\ explained' = TRUE

\* event_notice holds list_mutex, a user callback running inside it included.
ListLocked == epc = "reset" \/ (epc \in {"callback", "resume"} /\ cbfrom = "reset")

\* Whose process_step is running: poll (), otherwise the thread or stop_poll ().
Polling == cpc[Poller] = "poll"
StopPolling == cpc[Poller] = "stop_poll"

\* process_step returns: the loops of process_loop_thread and stop_poll go on
\* while it returns true and clean up after; poll () hands it to its caller.
StepReturns(more) ==
    /\ epc' = IF Polling THEN "none" ELSE IF more THEN "wait" ELSE "cleanup"
    /\ cpc' = IF Polling THEN [cpc EXCEPT ![Poller] = "idle"] ELSE cpc
    /\ batch' = {}
    /\ UNCHANGED <<cb, cbfrom, modes>>

\* process_step throws: it has called cancel (state).  The thread queues the
\* error and cleans up; poll and stop_poll pass the exception to their caller,
\* stop_poll releasing _mutex with is_started_poll still set.
StepThrows ==
    /\ should_run' = FALSE /\ should_cancel' = TRUE /\ notice' = TRUE
    /\ errors' = IF is_started_thr THEN PushError ELSE errors
    /\ explained' = TRUE
    /\ epc' = IF is_started_thr THEN "cleanup" ELSE "none"
    /\ cpc' = IF is_started_thr THEN cpc ELSE [cpc EXCEPT ![Poller] = "idle"]
    /\ mutex' = IF StopPolling THEN NoOne ELSE mutex
    /\ batch' = {}
    /\ UNCHANGED <<cb, cbfrom, is_started_thr, is_started_poll, starts>>

-----------------------------------------------------------------------------
(* process_init, and the starts that call it.                              *)

\* init () and submit () of every transfer; S are the ones that still found
\* should_run true.  A write transfer with nothing to send is disabled by its
\* submit (); without should_run the submit () returns before that.
InitTransfers(S) ==
    /\ enabled' = [t \in Transfers |->
                     IF is_reading[t] THEN read_start_enabled[stream_id[t]]
                     ELSE t \notin S \/ wqueue[stream_id[t]] > 0]
    /\ usb' = [t \in Transfers |->
                 IF t \in S /\ (IF is_reading[t] THEN read_start_enabled[stream_id[t]]
                                ELSE wqueue[stream_id[t]] > 0)
                 THEN "inflight" ELSE "idle"]
    /\ moved' = [t \in Transfers |-> FALSE]

\* Everything process_init sets whatever happens later; notice_event_fd keeps
\* its count from an earlier run, timer_fd expires at once.
InitCommon ==
    /\ cancel_counter' = CancelLoops
    /\ list_enable' = {} /\ list_disable' = {} /\ list_reset' = {}
    /\ asked' = NothingAsked
    /\ ts_now' = clock /\ ts_activity' = clock
    /\ UNCHANGED <<clock, app>>

InitSucceeds ==
    /\ InitTransfers(Transfers)
    /\ alive' = TRUE /\ watched' = Sources /\ timer' = TRUE
    /\ should_run' = TRUE /\ should_cancel' = FALSE /\ explained' = FALSE
    /\ UNCHANGED <<notice, errors, dangling, faults>>

\* add_to_epoll fails for source x: error () is called but nothing throws, so
\* the engine starts with should_run already false.  x itself is never watched;
\* only the transfers created before x was added were submitted.
InitMissesSource(x) ==
    /\ Fault("epoll_add")
    /\ InitTransfers({t \in Transfers : x \in WriteFds /\
                        \A u \in 1..t : is_reading[u] \/ eventfd[u] # x})
    /\ alive' = TRUE /\ watched' = Sources \ {x} /\ timer' = TRUE
    /\ Error
    /\ UNCHANGED dangling

\* process_init throws after k transfers, or std::thread does after all of
\* them: process_cleanup destroys what exists, submitted or not.
InitThrows(k) ==
    /\ Fault("init")
    /\ dangling' = \E t \in 1..k : IF is_reading[t] THEN read_start_enabled[stream_id[t]]
                                   ELSE wqueue[stream_id[t]] > 0
    /\ Error
    /\ UNCHANGED <<transfers, alive, watched, timer>>

\* Mutant: start_thread does not look at is_started_poll.
CanStartAnyMode(c) ==
    /\ cpc[c] = "idle" /\ mutex = NoOne
    /\ ~is_started_thr
    /\ starts > 0 /\ ~dangling
    /\ starts' = starts - 1
    /\ UNCHANGED <<cpc, mutex, batch, cb, cbfrom>>

\* After a transfer was freed in flight the behaviour is undefined: no model
\* of a further start.
CanStart(c) ==
    /\ cpc[c] = "idle" /\ mutex = NoOne
    /\ ~is_started_thr /\ ~is_started_poll
    /\ starts > 0 /\ ~dangling
    /\ starts' = starts - 1
    /\ UNCHANGED <<cpc, mutex, batch, cb, cbfrom>>

start_thread(c) ==
    /\ CanStart(c)
    /\ InitCommon
    /\ \/ /\ InitSucceeds \/ \E x \in Sources : InitMissesSource(x)
          /\ is_started_thr' = TRUE /\ epc' = "wait"
       \/ /\ \E k \in 0..NumTransfers : InitThrows(k)
          /\ UNCHANGED <<is_started_thr, epc>>
    /\ UNCHANGED is_started_poll

start_poll ==
    /\ CanStart(Poller)
    /\ InitCommon
    /\ \/ /\ InitSucceeds \/ \E x \in Sources : InitMissesSource(x)
          /\ is_started_poll' = TRUE
       \/ /\ \E k \in 0..(NumTransfers - 1) : InitThrows(k)
          /\ UNCHANGED is_started_poll
    /\ UNCHANGED <<is_started_thr, epc>>

-----------------------------------------------------------------------------
(* The other public methods.                                               *)

\* The last request for a stream's descriptor is the one that counts.
Ask(op, s) ==
    asked' = IF op = "reset" THEN asked ELSE [asked EXCEPT ![read_fd[s]] = op]

\* Mutant: enabling does not take the descriptor out of list_disable.
EnlistBoth(op, s) ==
    /\ list_enable' = IF op = "enable" THEN list_enable \cup {read_fd[s]}
                      ELSE IF op = "disable" THEN list_enable \ {read_fd[s]}
                      ELSE list_enable
    /\ list_disable' = IF op = "disable" THEN list_disable \cup {read_fd[s]} ELSE list_disable
    /\ list_reset' = IF op = "reset" THEN list_reset \cup {s} ELSE list_reset
    /\ Ask(op, s)

\* What a request leaves in the lists.
Enlist(op, s) ==
    /\ list_enable' = IF op = "enable" THEN list_enable \cup {read_fd[s]}
                      ELSE IF op = "disable" THEN list_enable \ {read_fd[s]}
                      ELSE list_enable
    /\ list_disable' = IF op = "enable" THEN list_disable \ {read_fd[s]}
                       ELSE IF op = "disable" THEN list_disable \cup {read_fd[s]}
                       ELSE list_disable
    /\ list_reset' = IF op = "reset" THEN list_reset \cup {s} ELSE list_reset
    /\ Ask(op, s)

\* Mutant: no notice after the request.
RequestUnnoticed(c, op, s) ==
    /\ cpc[c] = "idle" /\ mutex = NoOne /\ ~ListLocked
    /\ is_started_thr \/ is_started_poll
    /\ ~should_cancel
    /\ Enlist(op, s)
    /\ UNCHANGED <<control, modes, transfers, memory, engine, times, app, cpc,
                   cancel_counter, faults>>

\* enable_reading, disable_reading, reset_stream: std::lock takes both mutexes
\* or waits holding neither; nothing happens unless started and not ending.
\* The notice follows after both are released.
Request(c, op, s) ==
    /\ cpc[c] = "idle" /\ mutex = NoOne /\ ~ListLocked
    /\ is_started_thr \/ is_started_poll
    /\ ~should_cancel
    /\ Enlist(op, s)
    /\ cpc' = [cpc EXCEPT ![c] = "notify"]
    /\ UNCHANGED <<control, modes, transfers, memory, engine, times, app,
                   cancel_counter, faults>>

issue_notice(c) ==
    /\ cpc[c] = "notify"
    /\ notice' = TRUE
    /\ cpc' = [cpc EXCEPT ![c] = "idle"]
    /\ UNCHANGED <<should_run, should_cancel, errors, explained, lists, modes, transfers,
                   memory, engine, times, app, cancel_counter, faults>>

\* stop_thread up to its store to should_cancel; _mutex is held until the end.
stop_thread(c) ==
    /\ cpc[c] = "idle" /\ mutex = NoOne
    /\ is_started_thr
    /\ mutex' = c
    /\ should_cancel' = TRUE /\ explained' = TRUE
    /\ cpc' = [cpc EXCEPT ![c] = "stop_notice"]
    /\ UNCHANGED <<should_run, notice, errors, is_started_thr, is_started_poll, starts,
                   lists, transfers, memory, engine, times, app, cancel_counter, faults>>

StopNotice(c) ==
    /\ cpc[c] = "stop_notice"
    /\ notice' = TRUE
    /\ cpc' = [cpc EXCEPT ![c] = "join"]
    /\ UNCHANGED <<should_run, should_cancel, errors, explained, modes, lists, transfers,
                   memory, engine, times, app, cancel_counter, faults>>

\* _thr.join () returns once the thread has left process_loop_thread; the
\* second process_cleanup finds nothing left but cancels again.
Join(c) ==
    /\ cpc[c] = "join" /\ epc = "none"
    /\ Cancel
    /\ is_started_thr' = FALSE /\ mutex' = NoOne
    /\ cpc' = [cpc EXCEPT ![c] = "idle"]
    /\ UNCHANGED <<is_started_poll, starts, lists, transfers, memory, engine, times, app,
                   cancel_counter, faults>>

\* poll (): one process_step in the calling thread, without taking _mutex.
poll ==
    /\ cpc[Poller] = "idle" /\ is_started_poll /\ alive
    /\ cpc' = [cpc EXCEPT ![Poller] = "poll"]
    /\ epc' = "wait"
    /\ UNCHANGED <<control, modes, lists, transfers, memory, batch, cb, cbfrom, times, app,
                   cancel_counter, faults>>

\* stop_poll (): asks for the end and runs the engine itself until it is there.
stop_poll ==
    /\ cpc[Poller] = "idle" /\ mutex = NoOne /\ is_started_poll
    /\ mutex' = Poller
    /\ should_cancel' = TRUE /\ notice' = TRUE /\ explained' = TRUE
    /\ cpc' = [cpc EXCEPT ![Poller] = "stop_poll"]
    /\ epc' = "wait"
    /\ UNCHANGED <<should_run, errors, is_started_thr, is_started_poll, starts, lists,
                   transfers, memory, batch, cb, cbfrom, times, app, cancel_counter, faults>>

get_errors ==
    /\ errors > 0
    /\ errors' = 0
    /\ UNCHANGED <<should_run, should_cancel, notice, explained, modes, lists, transfers,
                   memory, engine, times, app, cpc, cancel_counter, faults>>

-----------------------------------------------------------------------------
(* The environment: the application's buffers, the clock, libusb.          *)

\* The application has one more chunk to write: its WRITE_GET_FD descriptor is
\* readable while there is any.
AppWrite(s) ==
    /\ wqueue[s] < MaxQueue
    /\ wqueue' = [wqueue EXCEPT ![s] = @ + 1]
    /\ UNCHANGED <<control, modes, lists, transfers, memory, engine, times, taken, cpc,
                   cancel_counter, faults>>

\* A second passes: timer_fd, while it exists, becomes readable.
Tick ==
    /\ clock' = IF clock < MaxClock THEN clock + 1 ELSE clock
    /\ timer' = alive
    /\ UNCHANGED <<control, modes, lists, transfers, memory, engine, ts_now, ts_activity,
                   app, cpc, cancel_counter, faults>>

\* libusb has a transfer to give back.  A cancelled one may still have completed,
\* and a failed one may have moved some of its data.
UsbDone(t, status, data) ==
    /\ usb[t] \in {"inflight", "cancelling"}
    /\ usb[t] = "inflight" => status # "CANCELLED"
    /\ ~is_reading[t] /\ status = "COMPLETED" => data
    /\ IF status = "ERROR" THEN Fault("device") ELSE UNCHANGED faults
    /\ usb' = [usb EXCEPT ![t] = status]
    /\ moved' = [moved EXCEPT ![t] = data]
    /\ taken' = IF data /\ ~is_reading[t] THEN [taken EXCEPT ![stream_id[t]] = TRUE] ELSE taken
    /\ UNCHANGED <<control, modes, lists, enabled, memory, engine, times, wqueue, cpc,
                   cancel_counter>>

-----------------------------------------------------------------------------
(* process_step.                                                           *)

Ready(src) ==
    CASE src = "usb" -> \E t \in Transfers : usb[t] \in Returned
      [] src = "notice" -> notice
      [] src = "timer" -> timer
      [] OTHER -> \E s \in Streams : write_fd[s] = src /\ wqueue[s] > 0

\* epoll_wait reports every watched source that is ready.
EpollWait ==
    /\ epc = "wait"
    /\ \E src \in watched : Ready(src)
    /\ batch' = {src \in watched : Ready(src)}
    /\ epc' = "batch"
    /\ UNCHANGED <<control, modes, lists, transfers, memory, cb, cbfrom, times, app, cpc,
                   cancel_counter, faults>>

\* poll (timeout): nothing happened in time, process_step returns true.
EpollTimesOut ==
    /\ epc = "wait" /\ Polling
    /\ ~\E src \in watched : Ready(src)
    /\ StepReturns(TRUE)
    /\ UNCHANGED <<control, lists, transfers, memory, times, app, cancel_counter, faults>>

\* epoll_wait fails (EINTR included): cancel and return false at once.
EpollFails ==
    /\ epc = "wait"
    /\ Fault("epoll_wait")
    /\ Cancel
    /\ StepReturns(FALSE)
    /\ UNCHANGED <<lists, transfers, memory, times, app, cancel_counter>>

\* The loop picks the next event; epoll promises no order.
Handle(src) == epc = "batch" /\ src \in batch /\ batch' = batch \ {src}

\* libusb_handle_events_timeout: callbacks until it returns.
HandleUsb ==
    /\ Handle("usb")
    /\ epc' = "usb"
    /\ UNCHANGED <<control, modes, lists, transfers, memory, cb, cbfrom, times, app, cpc,
                   cancel_counter, faults>>

HandleUsbReturns ==
    /\ epc = "usb"
    /\ epc' = "batch"
    /\ UNCHANGED <<control, modes, lists, transfers, memory, batch, cb, cbfrom, times, app,
                   cpc, cancel_counter, faults>>

HandleUsbFails ==
    /\ epc = "usb"
    /\ Fault("usb")
    /\ StepThrows
    /\ UNCHANGED <<lists, transfers, memory, times, app, cancel_counter>>

\* A read of notice_event_fd or timer_fd fails with a real error: no throw.
EventReadFails(src) ==
    /\ src \in {"notice", "timer"}
    /\ Handle(src)
    /\ Fault("read")
    /\ Error
    /\ UNCHANGED <<modes, lists, transfers, memory, epc, cb, cbfrom, times, app, cpc,
                   cancel_counter>>

\* Mutant: the timeout is judged by the ts_now of the last timer event.
EventTimerLate ==
    /\ Handle("timer")
    /\ timer' = FALSE
    /\ ts_now' = IF timeout = 0 THEN ts_now ELSE clock
    /\ IF timeout # 0 /\ ts_activity + timeout < ts_now THEN Error ELSE UNCHANGED control
    /\ UNCHANGED <<modes, lists, transfers, memory, epc, cb, cbfrom, clock, ts_activity,
                   app, cpc, cancel_counter, faults>>

\* event_timer: ts_now is set here only, and only with a timeout.
event_timer ==
    /\ Handle("timer")
    /\ timer' = FALSE
    /\ ts_now' = IF timeout = 0 THEN ts_now ELSE clock
    /\ IF timeout # 0 /\ ts_activity + timeout < clock THEN Error ELSE UNCHANGED control
    /\ UNCHANGED <<modes, lists, transfers, memory, epc, cb, cbfrom, clock, ts_activity,
                   app, cpc, cancel_counter, faults>>

\* Mutant: event_notice does not look at should_cancel.
EventNoticeListsOnly ==
    /\ Handle("notice")
    /\ notice' = FALSE
    /\ epc' = IF should_run THEN "reset" ELSE "batch"
    /\ UNCHANGED <<should_run, should_cancel, errors, explained, modes, lists, transfers,
                   memory, cb, cbfrom, times, app, cpc, cancel_counter, faults>>

\* event_notice up to list_mutex.
event_notice ==
    /\ Handle("notice")
    /\ notice' = FALSE
    /\ should_run' = (should_run /\ ~should_cancel)
    /\ epc' = IF should_run /\ ~should_cancel THEN "reset" ELSE "batch"
    /\ UNCHANGED <<should_cancel, errors, explained, modes, lists, transfers, memory, cb,
                   cbfrom, times, app, cpc, cancel_counter, faults>>

\* submit () of every transfer of S, none of which is in flight, succeeds.
Submit(S) ==
    /\ enabled' = [t \in Transfers |-> IF t \in S
                     THEN ~should_run \/ is_reading[t] \/ wqueue[stream_id[t]] > 0
                     ELSE enabled[t]]
    /\ usb' = [t \in Transfers |-> IF t \in S /\ should_run
                                      /\ (is_reading[t] \/ wqueue[stream_id[t]] > 0)
                                   THEN "inflight" ELSE usb[t]]
    /\ UNCHANGED moved

\* submit () of the transfers before x succeeds, that of x throws: x keeps
\* enabled, the later ones are not reached.
SubmitFailsAt(S, x) ==
    /\ should_run
    /\ Fault("submit")
    /\ \E D \in SUBSET (S \ {x}) :
          /\ enabled' = [t \in Transfers |->
                           IF t \in D THEN is_reading[t] \/ wqueue[stream_id[t]] > 0
                           ELSE enabled[t] \/ t = x]
          /\ usb' = [t \in Transfers |->
                       IF t \in D /\ (is_reading[t] \/ wqueue[stream_id[t]] > 0)
                       THEN "inflight" ELSE usb[t]]
    /\ UNCHANGED moved

\* The disabled transfers registered under one of the descriptors F.
DisabledAt(F) == {t \in Transfers : eventfd[t] \in F /\ ~enabled[t]}

\* libusb_cancel_transfer of the enabled transfers of S; one that is not in
\* flight is left alone by libusb.
CancelTransfers(S) ==
    [t \in Transfers |->
       IF t \in S /\ enabled[t] /\ usb[t] = "inflight" THEN "cancelling" ELSE usb[t]]

\* The rest of event_notice under list_mutex: resets, then the enable list,
\* then the disable list.
ApplyLists ==
    /\ epc = "reset"
    /\ list_enable' = {} /\ list_disable' = {} /\ list_reset' = {}
    /\ asked' = NothingAsked
    /\ LET S == DisabledAt(list_enable)
           C == {t \in Transfers : eventfd[t] \in list_disable}
       IN  /\ enabled' = [t \in Transfers |-> IF t \in S
                            THEN ~should_run \/ is_reading[t] \/ wqueue[stream_id[t]] > 0
                            ELSE enabled[t]]
           /\ usb' = [t \in Transfers |->
                        IF t \in S /\ should_run /\ (is_reading[t] \/ wqueue[stream_id[t]] > 0)
                        THEN "inflight" ELSE CancelTransfers(C)[t]]
    /\ epc' = "batch"
    /\ UNCHANGED <<control, modes, moved, memory, batch, cb, cbfrom, times, app, cpc,
                   cancel_counter, faults>>

\* A reset throws: list_reset and the other lists stay as they are.
ResetThrows ==
    /\ epc = "reset" /\ list_reset # {}
    /\ Fault("reset")
    /\ StepThrows
    /\ UNCHANGED <<lists, transfers, memory, times, app, cancel_counter>>

\* A submit () of the enable list throws: list_enable and list_disable stay.
EnableThrows ==
    /\ epc = "reset"
    /\ \E x \in DisabledAt(list_enable) : SubmitFailsAt(DisabledAt(list_enable), x)
    /\ StepThrows
    /\ list_reset' = {}
    /\ UNCHANGED <<list_enable, list_disable, asked, memory, times, app, cancel_counter>>

\* An application descriptor is readable: wake the transfers it belongs to.
HandleFd(fd) ==
    /\ Handle(fd)
    /\ Submit(DisabledAt({fd}))
    /\ UNCHANGED <<control, modes, lists, memory, epc, cb, cbfrom, times, app, cpc,
                   cancel_counter, faults>>

HandleFdThrows(fd) ==
    /\ epc = "batch" /\ fd \in batch
    /\ \E x \in DisabledAt({fd}) : SubmitFailsAt(DisabledAt({fd}), x)
    /\ StepThrows
    /\ UNCHANGED <<lists, memory, times, app, cancel_counter>>

\* All events handled.  While should_run holds the step is over ...
StepDone ==
    /\ epc = "batch" /\ batch = {} /\ should_run
    /\ StepReturns(TRUE)
    /\ UNCHANGED <<control, lists, transfers, memory, times, app, cancel_counter, faults>>

\* ... otherwise every stream is reset first (callbacks may run meanwhile) ...
ShutdownReset ==
    /\ epc = "batch" /\ batch = {} /\ ~should_run
    /\ epc' = "tail"
    /\ UNCHANGED <<control, modes, lists, transfers, memory, batch, cb, cbfrom, times, app,
                   cpc, cancel_counter, faults>>

\* Mutant: a cancelled transfer counts as disabled at once.
ShutdownCancelForgets ==
    /\ epc = "tail"
    /\ usb' = CancelTransfers(Transfers)
    /\ enabled' = [t \in Transfers |-> FALSE]
    /\ cancel_counter' = IF cancel_counter < 0 THEN cancel_counter ELSE cancel_counter - 1
    /\ StepReturns((\E t \in Transfers : enabled[t]) /\ cancel_counter > 0)
    /\ UNCHANGED <<control, lists, moved, memory, times, app, faults>>

\* Mutant: the shutdown waits for every transfer, however many loops it takes.
ShutdownCancelWaits ==
    /\ epc = "tail"
    /\ usb' = CancelTransfers(Transfers)
    /\ StepReturns(\E t \in Transfers : enabled[t])
    /\ UNCHANGED <<control, lists, enabled, moved, memory, times, app, faults,
                   cancel_counter>>

\* ... and the enabled transfers are cancelled, as often as the counter allows.
ShutdownCancel ==
    /\ epc = "tail"
    /\ usb' = CancelTransfers(Transfers)
    /\ cancel_counter' = IF cancel_counter < 0 THEN cancel_counter ELSE cancel_counter - 1
    /\ StepReturns((\E t \in Transfers : enabled[t]) /\ cancel_counter > 0)
    /\ UNCHANGED <<control, lists, enabled, moved, memory, times, app, faults>>

\* process_cleanup, by the thread or by stop_poll: destroys every transfer,
\* whether libusb is done with it or not.
process_cleanup ==
    /\ epc = "cleanup"
    /\ Cancel
    /\ alive' = FALSE /\ watched' = {} /\ timer' = FALSE
    /\ dangling' = (dangling \/ \E t \in Transfers : usb[t] # "idle")
    /\ enabled' = [t \in Transfers |-> FALSE]
    /\ usb' = [t \in Transfers |-> "idle"]
    /\ moved' = [t \in Transfers |-> FALSE]
    /\ epc' = "none"
    /\ is_started_poll' = FALSE
    /\ mutex' = IF StopPolling THEN NoOne ELSE mutex
    /\ cpc' = IF StopPolling THEN [cpc EXCEPT ![Poller] = "idle"] ELSE cpc
    /\ UNCHANGED <<is_started_thr, starts, lists, batch, cb, cbfrom, clock, ts_now,
                   ts_activity, app, cancel_counter, faults>>

-----------------------------------------------------------------------------
(* libusb callbacks, in the engine's thread: from handle_events, or while a *)
(* reset waits for its control transfers.                                   *)

HandlesEvents == epc \in {"usb", "tail"} \/ (epc = "reset" /\ list_reset # {})

\* Transfer t is given to its callback, or the callback goes on after the
\* request it made.
InCallback(t) ==
    /\ \/ HandlesEvents /\ usb[t] \in Returned
       \/ epc = "resume" /\ cb = t
    /\ epc' = IF epc = "resume" THEN cbfrom ELSE epc
    /\ cb' = 0 /\ cbfrom' = "none"
    /\ UNCHANGED <<batch, modes, lists, memory, cpc, cancel_counter>>

\* Mutant: the callback disables the entry and forgets that it submitted it.
GiveDisabled(t, where, on) ==
    /\ usb' = [usb EXCEPT ![t] = where]
    /\ moved' = [moved EXCEPT ![t] = FALSE]
    /\ enabled' = [enabled EXCEPT ![t] = FALSE]

\* Mutant: the callback keeps enabled although nothing was submitted.
GiveEnabled(t, where, on) ==
    /\ usb' = [usb EXCEPT ![t] = where]
    /\ moved' = [moved EXCEPT ![t] = FALSE]
    /\ UNCHANGED enabled

\* transfer t is back with us (or with libusb, if it goes inflight again).
Give(t, where, on) ==
    /\ usb' = [usb EXCEPT ![t] = where]
    /\ moved' = [moved EXCEPT ![t] = FALSE]
    /\ enabled' = [enabled EXCEPT ![t] = on]

\* Mutant: a write that comes back at the end is confirmed, moved or not.
CallbackEndsConfirms(t) ==
    /\ InCallback(t)
    /\ ~enabled[t] \/ usb[t] = "CANCELLED" \/ ~should_run
    /\ Give(t, "idle", FALSE)
    /\ IF enabled[t] THEN Cancel ELSE UNCHANGED control
    /\ wqueue' = IF is_reading[t] THEN wqueue ELSE [wqueue EXCEPT ![stream_id[t]] = @ - 1]
    /\ UNCHANGED <<taken, times, faults>>

\* Both callbacks: a disabled transfer is ignored; a cancelled one, or any one
\* during the shutdown, is disabled and ends the engine.  What a write had
\* moved is not confirmed.
CallbackEnds(t) ==
    /\ InCallback(t)
    /\ ~enabled[t] \/ usb[t] = "CANCELLED" \/ ~should_run
    /\ Give(t, "idle", FALSE)
    /\ IF enabled[t] THEN Cancel ELSE UNCHANGED control
    /\ UNCHANGED <<times, app, faults>>

Served(t) == InCallback(t) /\ enabled[t] /\ usb[t] # "CANCELLED" /\ should_run

Activity(t) ==
    /\ ts_activity' = IF moved[t] THEN ts_now ELSE ts_activity
    /\ UNCHANGED <<timer, clock, ts_now>>

\* read_callback: hand the data over and submit again.
read_callback(t) ==
    /\ is_reading[t] /\ usb[t] = "COMPLETED"
    /\ Served(t)
    /\ Activity(t)
    /\ Give(t, "inflight", TRUE)
    /\ UNCHANGED <<control, app, faults>>

\* read_callback: the submit fails (or the user's callback throws).
ReadResubmitFails(t) ==
    /\ is_reading[t] /\ usb[t] = "COMPLETED"
    /\ Served(t)
    /\ Fault("submit")
    /\ Activity(t)
    /\ Give(t, "idle", FALSE)
    /\ Error
    /\ UNCHANGED app

\* Mutant: a failed transfer ends the engine without an error string.
ReadFailsSilently(t) ==
    /\ is_reading[t] /\ usb[t] = "ERROR"
    /\ Served(t)
    /\ Give(t, "idle", FALSE)
    /\ Cancel
    /\ UNCHANGED <<times, app, faults>>

\* read_callback: any other status.
ReadFails(t) ==
    /\ is_reading[t] /\ usb[t] = "ERROR"
    /\ Served(t)
    /\ Give(t, "idle", FALSE)
    /\ Error
    /\ UNCHANGED <<times, app, faults>>

\* write_callback's WRITE_CONFIRM_TRANSFER: the front chunk is gone.
Confirmed(t) == IF moved[t] THEN [wqueue EXCEPT ![stream_id[t]] = @ - 1] ELSE wqueue
\* Mutant: WRITE_CONFIRM_TRANSFER is not called.
ConfirmNothing(t) == UNCHANGED <<wqueue, taken>>

Confirm(t) ==
    /\ wqueue' = Confirmed(t)
    /\ taken' = IF moved[t] THEN [taken EXCEPT ![stream_id[t]] = FALSE] ELSE taken

\* write_callback, whatever the status: confirm, fill, submit again or, with
\* nothing to send, disable.
write_callback(t) ==
    /\ ~is_reading[t]
    /\ Served(t)
    /\ Confirm(t)
    /\ LET more == Confirmed(t)[stream_id[t]] > 0
       IN  Give(t, IF more THEN "inflight" ELSE "idle", more)
    /\ UNCHANGED <<control, times, faults>>

\* write_callback: the submit fails (or a user callback reports an error).
WriteResubmitFails(t) ==
    /\ ~is_reading[t]
    /\ Served(t)
    /\ Confirm(t)
    /\ Confirmed(t)[stream_id[t]] > 0
    /\ Fault("submit")
    /\ Give(t, "idle", FALSE)
    /\ Error
    /\ UNCHANGED times

\* The user's callback calls enable_reading, disable_reading or reset_stream:
\* it now waits for both mutexes.
CallbackCallsOut(t) ==
    /\ CallbackCalls
    /\ HandlesEvents
    /\ usb[t] \in {"COMPLETED", "ERROR"} /\ enabled[t] /\ should_run
    /\ is_reading[t] => usb[t] = "COMPLETED" /\ moved[t]
    /\ epc' = "callback" /\ cb' = t /\ cbfrom' = epc
    /\ UNCHANGED <<control, modes, lists, transfers, memory, batch, times, app, cpc,
                   cancel_counter, faults>>

\* Mutant: a callback's request is not noticed, "we are in the engine anyway".
CallbackRequestUnnoticed(op, s) ==
    /\ epc = "callback" /\ mutex = NoOne /\ ~ListLocked
    /\ IF should_cancel THEN UNCHANGED lists ELSE Enlist(op, s)
    /\ epc' = "resume"
    /\ UNCHANGED <<control, modes, transfers, memory, batch, cb, cbfrom, times, app, cpc,
                   cancel_counter, faults>>

CallbackRequest(op, s) ==
    /\ epc = "callback" /\ mutex = NoOne /\ ~ListLocked
    /\ IF should_cancel THEN UNCHANGED <<lists, notice>>
       ELSE Enlist(op, s) /\ notice' = TRUE
    /\ epc' = "resume"
    /\ UNCHANGED <<should_run, should_cancel, errors, explained, modes, transfers, memory,
                   batch, cb, cbfrom, times, app, cpc, cancel_counter, faults>>

-----------------------------------------------------------------------------
CallerStep(c) == StopNotice(c) \/ issue_notice(c) \/ Join(c)

CallerCalls(c) ==
    \/ start_thread(c) \/ stop_thread(c)
    \/ \E op \in Requests, s \in Streams : Request(c, op, s)

PollerCalls == start_poll \/ poll \/ stop_poll

Callback(t) ==
    \/ CallbackEnds(t)
    \/ read_callback(t) \/ ReadResubmitFails(t) \/ ReadFails(t)
    \/ write_callback(t) \/ WriteResubmitFails(t)
    \/ CallbackCallsOut(t)

Dispatch ==
    \/ HandleUsb \/ event_timer \/ event_notice
    \/ \E src \in OwnSources : EventReadFails(src)
    \/ \E fd \in WriteFds : HandleFd(fd) \/ HandleFdThrows(fd)

EngineStep ==
    \/ EpollWait \/ EpollTimesOut \/ EpollFails
    \/ Dispatch
    \/ HandleUsbReturns \/ HandleUsbFails
    \/ ApplyLists \/ ResetThrows \/ EnableThrows
    \/ StepDone \/ ShutdownReset \/ ShutdownCancel
    \/ process_cleanup
    \/ \E t \in Transfers : Callback(t)
    \/ \E op \in Requests, s \in Streams : CallbackRequest(op, s)

Environment ==
    \/ Tick
    \/ \E s \in Streams : AppWrite(s)
    \/ \E t \in Transfers, status \in Returned, data \in BOOLEAN : UsbDone(t, status, data)

Next ==
    \/ \E c \in Callers : CallerStep(c) \/ CallerCalls(c)
    \/ PollerCalls \/ get_errors
    \/ EngineStep
    \/ Environment

Spec == Init /\ [][Next]_vars

(***************************************************************************)
(* Properties.                                                             *)
(***************************************************************************)

\* A transfer libusb owns (or has just returned) is marked enabled.  So submit
\* is never called on a transfer in flight - every submit is behind a test of
\* enabled - and the "callback disabled" early return of read_callback and
\* write_callback, which would drop a returned transfer, is never taken.
InFlightIsEnabled == \A t \in Transfers : usb[t] # "idle" => enabled[t]

\* While the engine runs, an enabled transfer really is with libusb.  An enabled
\* but idle one would never be submitted again: HandleFd and the enable list
\* skip it.
EnabledIsInFlight ==
    alive /\ should_run => \A t \in Transfers : enabled[t] => usb[t] # "idle"

\* process_step runs only while streamstates exist and exactly one mode is
\* started; between a stop and the next start nothing of the engine is left, so
\* process_init never finds "State wasn't properly destroyed".
EngineHasState ==
    /\ epc # "none" => alive
    /\ alive => is_started_thr \/ is_started_poll
    /\ ~(is_started_thr /\ is_started_poll)
    /\ is_started_poll => alive

\* _mutex is held over a whole stop: by the joiner in thread mode, by the
\* Poller in stop_poll, and by nobody else; so no second stop or start
\* interleaves with the first.
StopHoldsMutex ==
    \A c \in Callers :
        mutex = c <=> cpc[c] \in {"stop_notice", "join", "stop_poll"}

\* An entry in a list is always followed by a wake-up the engine has not used
\* yet: the eventfd is readable, the caller is about to write it, or the engine
\* is inside event_notice and will serve it.
NoLostRequest ==
    alive /\ should_run /\ (list_enable \cup list_disable # {} \/ list_reset # {}) =>
        notice \/ ListLocked \/ \E c \in Callers : cpc[c] = "notify"

\* The same for should_cancel: the engine either has seen it (should_run is
\* false) or is going to be woken for it.
NoLostCancel ==
    alive /\ should_cancel /\ should_run =>
        notice \/ \E c \in Callers : cpc[c] = "stop_notice"

\* Once the engine has decided to end, every caller can see it (is_ending) and
\* requests are refused.
EndingIsVisible == ~should_run => should_cancel

\* The last of enable_reading and disable_reading wins, whatever callers and
\* the engine interleave: when event_notice has served the lists, every read
\* transfer of a descriptor whose last request was to enable it is with libusb
\* and this step has not cancelled it, and none of a descriptor that was last
\* disabled is left in flight.
LastRequestWins ==
    [][epc = "reset" /\ epc' = "batch" /\ should_run =>
         \A t \in {u \in Transfers : is_reading[u]} :
            /\ asked[eventfd[t]] = "enable" =>
                   enabled'[t] /\ usb'[t] = IF usb[t] = "idle" THEN "inflight" ELSE usb[t]
            /\ asked[eventfd[t]] = "disable" => usb'[t] # "inflight"]_vars

\* The engine gives up only after a stop was asked for or after it reported a
\* failure, by a string for get_errors or by an exception out of poll ().
NoSilentEnd == alive /\ ~should_run => explained

\* The watchdog: a running engine has seen activity at most timeout seconds
\* before the last time it looked at the clock.
Watchdog == alive /\ should_run /\ timeout # 0 => ts_now <= ts_activity + timeout

\* A chunk the device has taken is not handed to it a second time.
SentOnce ==
    \A t \in Transfers :
        ~is_reading[t] /\ usb[t] \in {"inflight", "cancelling"} => ~taken[stream_id[t]]

\* The public interface as a whole (StreamLife): an engine that has ended shows it
\* (is_ending), ends only once, is stopped before another is started in either
\* mode, and moves the application's buffer on only past a chunk that the device
\* has taken.
Mode == IF is_started_thr THEN "thread" ELSE IF is_started_poll THEN "poll" ELSE "none"
Phase ==
    IF Mode = "none" THEN "stopped"
    ELSE IF ~should_run THEN (IF should_cancel THEN "ended" ELSE "hidden")
    ELSE IF should_cancel THEN "ending" ELSE "running"
Life == INSTANCE StreamLife WITH mode <- Mode, phase <- Phase, queue <- wqueue
LivesAsPromised == Life!Spec

\* A shutdown that ended without using up the cancel loops, and without a
\* failure, has got every transfer back before process_cleanup destroys them.
GracefulEnd ==
    epc = "cleanup" /\ cancel_counter >= 0 /\ faults = MaxFaults =>
        \A t \in Transfers : usb[t] = "idle"

\* "Lock both at the same time, avoid deadlock": a callback waiting for the
\* mutexes never waits for a thread that waits for the engine, nor for itself.
NoLockCycle ==
    epc = "callback" => ~ListLocked /\ (mutex # NoOne => cpc[mutex] # "join" /\ ~StopPolling)

-----------------------------------------------------------------------------
(* The inductive invariant: the safety properties above, and what else the  *)
(* engine relies on to keep them.                                           *)

\* Who runs the engine, and who holds _mutex: the Poller alone polls; a stop
\* belongs to its mode; an exited thread has destroyed its state.
RunnerInv ==
    /\ EngineHasState
    /\ StopHoldsMutex
    /\ \A c \in Callers : cpc[c] \in {"poll", "stop_poll"} => c = Poller
    /\ \A c \in Callers : cpc[c] \in {"stop_notice", "join"} => is_started_thr
    /\ Polling \/ StopPolling => is_started_poll /\ epc # "none"
    /\ epc # "none" => is_started_thr \/ Polling \/ StopPolling
    /\ is_started_thr /\ epc = "none" => ~alive
    /\ epc = "cleanup" => ~Polling

\* A user callback that is making a request belongs to a transfer that came
\* back with data while the engine was running, and is still in its hands.
CallbackPending ==
    epc \in {"callback", "resume"} =>
        /\ cb \in Transfers /\ usb[cb] \in {"COMPLETED", "ERROR"} /\ enabled[cb]
        /\ should_run /\ cbfrom \in {"usb", "reset"}

\* WRITE_CONFIRM_TRANSFER is only called for data the application still holds:
\* a write transfer in flight was filled from a non-empty buffer, so moving the
\* front never underflows it.
WriterHasData ==
    \A t \in Transfers : ~is_reading[t] /\ usb[t] # "idle" => wqueue[stream_id[t]] > 0

\* Where every transfer is.
FlightInv ==
    /\ InFlightIsEnabled /\ EnabledIsInFlight /\ WriterHasData
    /\ ~alive => \A t \in Transfers : usb[t] = "idle"

\* What is known of should_run in the phases that depend on it.
PhaseInv ==
    /\ CallbackPending
    /\ epc \in {"tail", "cleanup"} => ~should_run

TransferInv == FlightInv /\ PhaseInv

\* The lists hold the last request for each descriptor, so none is in both.
ListsAreLast ==
    /\ list_enable = {fd \in Fds : asked[fd] = "enable"}
    /\ list_disable = {fd \in Fds : asked[fd] = "disable"}

RequestInv == NoLostRequest /\ NoLostCancel /\ EndingIsVisible /\ ListsAreLast

IInv == TypeOK /\ RunnerInv /\ TransferInv /\ RequestInv /\ GracefulEnd /\ Watchdog

-----------------------------------------------------------------------------
(* Liveness.  The kernel runs every thread, timer_fd expires every second,  *)
(* epoll_wait returns when something is ready, and libusb_handle_events     *)
(* returns (its timeout is zero).  Nothing is assumed of the device.        *)

Fairness ==
    /\ WF_vars(Tick)
    /\ \A c \in Callers : WF_vars(CallerStep(c))
    /\ WF_vars(EpollWait) /\ WF_vars(EpollTimesOut)
    /\ WF_vars(HandleUsb) /\ WF_vars(event_timer) /\ WF_vars(event_notice)
    /\ \A fd \in WriteFds : WF_vars(HandleFd(fd))
    /\ WF_vars(HandleUsbReturns) /\ WF_vars(ApplyLists)
    /\ WF_vars(StepDone) /\ WF_vars(ShutdownReset) /\ WF_vars(ShutdownCancel)
    /\ WF_vars(process_cleanup)

FairSpec == Spec /\ Fairness

\* stop_thread and stop_poll return, even if the device never gives a cancelled
\* transfer back.
StopReturns ==
    \A c \in Callers :
        cpc[c] \in {"stop_notice", "join", "stop_poll"} ~> cpc[c] = "idle"

\* What a caller asked of a running engine thread is done, or the engine ends.
RequestServed ==
    \A fd \in Fds :
        is_started_thr /\ fd \in list_enable \cup list_disable
            ~> fd \notin list_enable \cup list_disable \/ ~should_run

\* Data the application has ready to write is given to libusb, or the engine
\* thread ends: the wake-up of a disabled writer is never missed.
WriteNotForgotten ==
    \A t \in {u \in Transfers : ~is_reading[u]} :
        is_started_thr /\ wqueue[stream_id[t]] > 0
            ~> usb[t] # "idle" \/ ~should_run

=============================================================================
