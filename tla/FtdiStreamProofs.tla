-------------------------- MODULE FtdiStreamProofs --------------------------
(***************************************************************************)
(* Theorems about FtdiStream, for every number of callers, streams and     *)
(* transfers and every value of the bounds: type correctness, and the      *)
(* safety invariants that make requests, stops and transfers safe; at the  *)
(* end two that hold under conditions the code needs: no silent end, and   *)
(* nothing is sent twice.                                                  *)
(***************************************************************************)
EXTENDS FtdiStream, TLAPS

USE DEF Transfers, AllRequests, CallerPCs, EnginePCs, Returned, UsbStates, OwnSources, Sources

-----------------------------------------------------------------------------
(* What the helpers do to the types.                                       *)

\* A part of TypeOK whose variables do not change goes on holding.
LEMMA Frame ==
    ASSUME TypeOK
    PROVE  /\ UNCHANGED control => ControlOK'
           /\ UNCHANGED lists => ListsOK'
           /\ UNCHANGED modes => ModesOK'
           /\ UNCHANGED transfers => TransfersOK'
           /\ UNCHANGED memory => MemoryOK'
           /\ UNCHANGED engine => EngineOK'
           /\ UNCHANGED times => TimesOK'
           /\ UNCHANGED app => AppOK'
<1>1. UNCHANGED control => ControlOK'
  BY DEF TypeOK, ControlOK, control
<1>2. UNCHANGED lists => ListsOK'
  BY DEF TypeOK, ListsOK, lists
<1>3. UNCHANGED modes => ModesOK'
  BY DEF TypeOK, ModesOK, modes
<1>4. UNCHANGED transfers => TransfersOK'
  BY DEF TypeOK, TransfersOK, transfers
<1>5. UNCHANGED memory => MemoryOK'
  BY DEF TypeOK, MemoryOK, memory
<1>6. UNCHANGED engine => EngineOK'
  BY DEF TypeOK, EngineOK, engine
<1>7. UNCHANGED times => TimesOK'
  BY DEF TypeOK, TimesOK, times
<1>8. UNCHANGED app => AppOK'
  BY DEF TypeOK, AppOK, app
<1>. QED BY <1>1, <1>2, <1>3, <1>4, <1>5, <1>6, <1>7, <1>8

\* Every form of submit () and of giving a transfer on keeps the transfers typed.
LEMMA InitTransfersType ==
    ASSUME TypeOK, NEW S, InitTransfers(S)
    PROVE  TransfersOK'
BY TransfersAssumption DEF InitTransfers, TypeOK, TransfersOK, AppOK

LEMMA SubmitType ==
    ASSUME TypeOK, NEW S, Submit(S)
    PROVE  TransfersOK'
BY TransfersAssumption DEF Submit, TypeOK, TransfersOK, ControlOK, AppOK

LEMMA SubmitFailsType ==
    ASSUME TypeOK, NEW S, NEW x, SubmitFailsAt(S, x)
    PROVE  TransfersOK' /\ faults' \in 0..MaxFaults
<1>1. faults' \in 0..MaxFaults
  BY BoundsAssumption DEF SubmitFailsAt, Fault, TypeOK
<1>2. PICK D \in SUBSET (S \ {x}) :
        /\ enabled' = [t \in Transfers |->
                         IF t \in D THEN is_reading[t] \/ wqueue[stream_id[t]] > 0
                         ELSE enabled[t] \/ t = x]
        /\ usb' = [t \in Transfers |->
                     IF t \in D /\ (is_reading[t] \/ wqueue[stream_id[t]] > 0)
                     THEN "inflight" ELSE usb[t]]
  BY DEF SubmitFailsAt
<1>3. moved' = moved
  BY DEF SubmitFailsAt
<1>4. enabled' \in [Transfers -> BOOLEAN]
  BY <1>2, TransfersAssumption DEF TypeOK, TransfersOK
<1>5. usb' \in [Transfers -> UsbStates]
  BY <1>2, TransfersAssumption DEF TypeOK, TransfersOK
<1>. QED BY <1>1, <1>3, <1>4, <1>5 DEF TypeOK, TransfersOK

LEMMA CancelTransfersType ==
    ASSUME TypeOK, NEW S
    PROVE  CancelTransfers(S) \in [Transfers -> UsbStates]
BY DEF CancelTransfers, TypeOK, TransfersOK

LEMMA GiveType ==
    ASSUME TypeOK, NEW t \in Transfers, NEW where \in UsbStates, NEW on \in BOOLEAN,
           Give(t, where, on)
    PROVE  TransfersOK'
BY DEF Give, TypeOK, TransfersOK

\* cancel (state) and error (state, ...).
LEMMA PushErrorType ==
    ASSUME TypeOK
    PROVE  PushError \in 0..ErrorCapacity
<1>1. ErrorCapacity \in Nat \ {0} /\ errors \in 0..ErrorCapacity
  BY BoundsAssumption DEF TypeOK, ControlOK
<1>. QED BY <1>1 DEF PushError

LEMMA ControlType ==
    ASSUME TypeOK, Cancel \/ Error
    PROVE  ControlOK'
<1>1. CASE Cancel
  BY <1>1 DEF Cancel, TypeOK, ControlOK
<1>2. CASE Error
  BY <1>2, PushErrorType DEF Error, TypeOK, ControlOK
<1>. QED BY <1>1, <1>2

LEMMA FaultType ==
    ASSUME TypeOK, NEW k, Fault(k)
    PROVE  faults' \in 0..MaxFaults
BY BoundsAssumption DEF Fault, TypeOK

\* The end of process_step, by return and by exception.
LEMMA StepReturnsType ==
    ASSUME TypeOK, NEW more, StepReturns(more)
    PROVE  EngineOK' /\ ModesOK' /\ cpc' \in [Callers -> CallerPCs]
<1>1. EngineOK'
  BY DEF StepReturns, TypeOK, EngineOK
<1>2. ModesOK'
  BY Frame DEF StepReturns
<1>3. cpc' \in [Callers -> CallerPCs]
  BY CallersAssumption DEF StepReturns, TypeOK
<1>. QED BY <1>1, <1>2, <1>3

LEMMA StepThrowsType ==
    ASSUME TypeOK, StepThrows
    PROVE  ControlOK' /\ EngineOK' /\ ModesOK' /\ cpc' \in [Callers -> CallerPCs]
<1>1. ControlOK'
  BY PushErrorType DEF StepThrows, TypeOK, ControlOK
<1>2. EngineOK'
  BY DEF StepThrows, TypeOK, EngineOK
<1>3. ModesOK'
  BY CallersAssumption DEF StepThrows, TypeOK, ModesOK
<1>4. cpc' \in [Callers -> CallerPCs]
  BY CallersAssumption DEF StepThrows, TypeOK
<1>. QED BY <1>1, <1>2, <1>3, <1>4

\* A libusb callback: where the engine goes, and what is left to write.
LEMMA InCallbackType ==
    ASSUME TypeOK, NEW t \in Transfers, InCallback(t)
    PROVE  EngineOK' /\ UNCHANGED <<modes, lists, memory, cpc, cancel_counter>>
<1>1. EngineOK'
  BY TransfersAssumption DEF InCallback, TypeOK, EngineOK, HandlesEvents
<1>. QED BY <1>1 DEF InCallback

LEMMA ReturnedInCallback ==
    ASSUME CallbackPending, NEW t \in Transfers, InCallback(t)
    PROVE  usb[t] \in Returned
BY DEF InCallback, CallbackPending

LEMMA ConfirmType ==
    ASSUME TypeOK, WriterHasData, NEW t \in Transfers, ~is_reading[t], usb[t] # "idle"
    PROVE  Confirmed(t) \in [Streams -> 0..MaxQueue] /\ (Confirm(t) => AppOK')
<1>. USE TransfersAssumption, BoundsAssumption
<1>1. stream_id[t] \in Streams /\ wqueue[stream_id[t]] \in 1..MaxQueue
  BY DEF WriterHasData, TypeOK, AppOK
<1>2. wqueue[stream_id[t]] - 1 \in 0..MaxQueue
  BY <1>1
<1>3. Confirmed(t) \in [Streams -> 0..MaxQueue]
  BY <1>2 DEF Confirmed, TypeOK, AppOK
<1>. QED BY <1>3 DEF Confirm, TypeOK, AppOK

-----------------------------------------------------------------------------
(* Every step keeps the types.                                             *)

LEMMA CallbackType ==
    ASSUME TypeOK, WriterHasData, CallbackPending, NEW t \in Transfers, Callback(t)
    PROVE  TypeOK'
<1>. USE TransfersAssumption, BoundsAssumption
<1>1. CASE CallbackEnds(t)
  <2>1. TransfersOK'
    BY <1>1, GiveType DEF CallbackEnds
  <2>2. ControlOK'
    BY <1>1, ControlType, Frame DEF CallbackEnds
  <2>. QED BY <1>1, <2>1, <2>2, Frame, InCallbackType DEF CallbackEnds, TypeOK
<1>2. CASE read_callback(t)
  <2>1. TransfersOK'
    BY <1>2, GiveType DEF read_callback
  <2>2. TimesOK'
    BY <1>2 DEF read_callback, Activity, TypeOK, TimesOK
  <2>. QED BY <1>2, <2>1, <2>2, Frame, InCallbackType DEF read_callback, Served, TypeOK
<1>3. CASE ReadResubmitFails(t)
  <2>1. TransfersOK'
    BY <1>3, GiveType DEF ReadResubmitFails
  <2>2. TimesOK'
    BY <1>3 DEF ReadResubmitFails, Activity, TypeOK, TimesOK
  <2>. QED BY <1>3, <2>1, <2>2, Frame, InCallbackType, ControlType, FaultType DEF ReadResubmitFails, Served, TypeOK
<1>4. CASE ReadFails(t)
  <2>1. TransfersOK'
    BY <1>4, GiveType DEF ReadFails
  <2>. QED BY <1>4, <2>1, Frame, InCallbackType, ControlType DEF ReadFails, Served, TypeOK
<1>5. CASE write_callback(t)
  <2> DEFINE more == Confirmed(t)[stream_id[t]] > 0
  <2>1. usb[t] # "idle"
    BY <1>5, ReturnedInCallback DEF write_callback, Served
  <2>2. Give(t, IF more THEN "inflight" ELSE "idle", more)
    BY <1>5 DEF write_callback
  <2>3. more \in BOOLEAN /\ (IF more THEN "inflight" ELSE "idle") \in UsbStates
    OBVIOUS
  <2>. HIDE DEF more
  <2>4. TransfersOK'
    BY <2>2, <2>3, GiveType
  <2>5. AppOK'
    BY <1>5, <2>1, ConfirmType DEF write_callback
  <2>. QED BY <1>5, <2>4, <2>5, Frame, InCallbackType DEF write_callback, Served, TypeOK
<1>6. CASE WriteResubmitFails(t)
  <2>1. usb[t] # "idle"
    BY <1>6, ReturnedInCallback DEF WriteResubmitFails, Served
  <2>2. TransfersOK'
    BY <1>6, GiveType DEF WriteResubmitFails
  <2>3. AppOK'
    BY <1>6, <2>1, ConfirmType DEF WriteResubmitFails
  <2>. QED BY <1>6, <2>1, <2>2, <2>3, Frame, InCallbackType, ControlType, FaultType DEF WriteResubmitFails, Served, TypeOK
<1>7. CASE CallbackCallsOut(t)
  <2>1. EngineOK'
    BY <1>7 DEF CallbackCallsOut, HandlesEvents, TypeOK, EngineOK, ControlOK
  <2>. QED BY <1>7, <2>1, Frame DEF CallbackCallsOut, TypeOK
<1>. QED BY <1>1, <1>2, <1>3, <1>4, <1>5, <1>6, <1>7 DEF Callback

\* A descriptor that READ_GET_FD returns can be asked for, and asking keeps the
\* lists typed.
LEMMA ReadFdKnown ==
    ASSUME NEW s \in Streams
    PROVE  read_fd[s] \in Fds
BY DEF Fds

LEMMA EnlistType ==
    ASSUME ListsOK, NEW op \in Requests, NEW s \in Streams, Enlist(op, s)
    PROVE  ListsOK'
<1>1. op \in {"enable", "disable", "reset"}
  BY BoundsAssumption DEF AllRequests
<1>2. read_fd[s] \in Fds
  BY ReadFdKnown
<1>3. asked' \in [Fds -> {"none", "enable", "disable"}]
  BY <1>1 DEF Enlist, Ask, ListsOK
<1>4. list_enable' \subseteq Fds /\ list_disable' \subseteq Fds /\ list_reset' \subseteq Streams
  BY <1>1, <1>2 DEF Enlist, ListsOK
<1>. QED BY <1>3, <1>4 DEF ListsOK

LEMMA TypeStep ==
    ASSUME TypeOK, WriterHasData, CallbackPending, [Next]_vars
    PROVE  TypeOK'
<1>. USE CallersAssumption, TransfersAssumption, BoundsAssumption
<1>1. CASE UNCHANGED vars
  BY <1>1, Frame DEF vars, TypeOK
<1>2. ASSUME NEW c \in Callers, CallerStep(c) \/ CallerCalls(c)
      PROVE  TypeOK'
  <2>1. CASE StopNotice(c)
    <3>1. ControlOK'
      BY <2>1 DEF StopNotice, TypeOK, ControlOK
    <3>2. cpc' \in [Callers -> CallerPCs]
      BY <2>1 DEF StopNotice, TypeOK
    <3>. QED BY <2>1, <3>1, <3>2, Frame DEF StopNotice, TypeOK
  <2>2. CASE issue_notice(c)
    <3>1. ControlOK'
      BY <2>2 DEF issue_notice, TypeOK, ControlOK
    <3>2. cpc' \in [Callers -> CallerPCs]
      BY <2>2 DEF issue_notice, TypeOK
    <3>. QED BY <2>2, <3>1, <3>2, Frame DEF issue_notice, TypeOK
  <2>3. CASE Join(c)
    <3>1. ControlOK'
      BY <2>3, ControlType DEF Join
    <3>2. cpc' \in [Callers -> CallerPCs]
      BY <2>3 DEF Join, TypeOK
    <3>3. ModesOK'
      BY <2>3 DEF Join, TypeOK, ModesOK
    <3>. QED BY <2>3, <3>1, <3>2, <3>3, Frame DEF Join, TypeOK
  <2>4. CASE start_thread(c)
    <3>1. ModesOK' /\ ListsOK' /\ TimesOK' /\ AppOK'
      <4>1. ModesOK'
        <5>1. starts' \in 0..MaxStarts
          BY <2>4 DEF start_thread, CanStart, InitCommon, TypeOK, ModesOK
        <5>2. is_started_thr' \in BOOLEAN /\ is_started_poll' \in BOOLEAN
          BY <2>4 DEF start_thread, TypeOK, ModesOK
        <5>. QED BY <2>4, <5>1, <5>2 DEF start_thread, CanStart, InitCommon, TypeOK, ModesOK
      <4>2. ListsOK'
        BY <2>4 DEF start_thread, CanStart, InitCommon, ListsOK, NothingAsked
      <4>3. clock' \in 0..MaxClock /\ ts_now' \in 0..MaxClock /\ ts_activity' \in 0..MaxClock
        BY <2>4 DEF start_thread, CanStart, InitCommon, TypeOK, TimesOK
      <4>4. timer' \in BOOLEAN
        BY <2>4 DEF start_thread, CanStart, InitCommon, InitSucceeds, InitMissesSource, InitThrows, TypeOK, TimesOK
      <4>. QED BY <2>4, <4>1, <4>2, <4>3, <4>4, Frame DEF start_thread, CanStart, InitCommon, TimesOK
    <3>2. EngineOK' /\ cpc' \in [Callers -> CallerPCs] /\ cancel_counter' \in -1..CancelLoops
      BY <2>4 DEF start_thread, CanStart, InitCommon, TypeOK, EngineOK
    <3>3. CASE InitSucceeds
      <4>1. ControlOK' /\ MemoryOK'
        BY <3>3 DEF InitSucceeds, TypeOK, ControlOK, MemoryOK
      <4>. QED BY <3>1, <3>2, <3>3, <4>1, InitTransfersType DEF InitSucceeds, TypeOK
    <3>4. ASSUME NEW x \in Sources, InitMissesSource(x)
          PROVE  TypeOK'
      <4>1. MemoryOK'
        BY <3>4 DEF InitMissesSource, TypeOK, MemoryOK
      <4>. QED BY <3>1, <3>2, <3>4, <4>1, InitTransfersType, ControlType, FaultType
           DEF InitMissesSource, TypeOK
    <3>5. ASSUME NEW k \in 0..NumTransfers, InitThrows(k)
          PROVE  TypeOK'
      <4>1. MemoryOK'
        BY <3>5 DEF InitThrows, TypeOK, MemoryOK
      <4>. QED BY <3>1, <3>2, <3>5, <4>1, Frame, ControlType, FaultType DEF InitThrows, TypeOK
    <3>. QED BY <2>4, <3>3, <3>4, <3>5 DEF start_thread
  <2>5. CASE stop_thread(c)
    <3>1. ControlOK'
      BY <2>5 DEF stop_thread, TypeOK, ControlOK
    <3>2. cpc' \in [Callers -> CallerPCs]
      BY <2>5 DEF stop_thread, TypeOK
    <3>3. ModesOK'
      BY <2>5 DEF stop_thread, TypeOK, ModesOK
    <3>. QED BY <2>5, <3>1, <3>2, <3>3, Frame DEF stop_thread, TypeOK
  <2>6. ASSUME NEW op \in Requests, NEW s \in Streams, Request(c, op, s)
        PROVE  TypeOK'
    <3>1. ListsOK'
      BY <2>6, EnlistType DEF Request, TypeOK
    <3>2. cpc' \in [Callers -> CallerPCs]
      BY <2>6 DEF Request, TypeOK
    <3>. QED BY <2>6, <3>1, <3>2, Frame DEF Request, TypeOK
  <2>. QED BY <1>2, <2>1, <2>2, <2>3, <2>4, <2>5, <2>6 DEF CallerStep, CallerCalls
<1>3. CASE PollerCalls \/ get_errors
  <2>1. CASE start_poll
    <3>1. ModesOK' /\ ListsOK' /\ TimesOK' /\ AppOK'
      <4>1. ModesOK'
        <5>1. starts' \in 0..MaxStarts
          BY <2>1 DEF start_poll, CanStart, InitCommon, TypeOK, ModesOK
        <5>2. is_started_thr' \in BOOLEAN /\ is_started_poll' \in BOOLEAN
          BY <2>1 DEF start_poll, TypeOK, ModesOK
        <5>. QED BY <2>1, <5>1, <5>2 DEF start_poll, CanStart, InitCommon, TypeOK, ModesOK
      <4>2. ListsOK'
        BY <2>1 DEF start_poll, CanStart, InitCommon, ListsOK, NothingAsked
      <4>3. clock' \in 0..MaxClock /\ ts_now' \in 0..MaxClock /\ ts_activity' \in 0..MaxClock
        BY <2>1 DEF start_poll, CanStart, InitCommon, TypeOK, TimesOK
      <4>4. timer' \in BOOLEAN
        BY <2>1 DEF start_poll, CanStart, InitCommon, InitSucceeds, InitMissesSource, InitThrows, TypeOK, TimesOK
      <4>. QED BY <2>1, <4>1, <4>2, <4>3, <4>4, Frame DEF start_poll, CanStart, InitCommon, TimesOK
    <3>2. EngineOK' /\ cpc' \in [Callers -> CallerPCs] /\ cancel_counter' \in -1..CancelLoops
      BY <2>1 DEF start_poll, CanStart, InitCommon, TypeOK, EngineOK
    <3>3. CASE InitSucceeds
      <4>1. ControlOK' /\ MemoryOK'
        BY <3>3 DEF InitSucceeds, TypeOK, ControlOK, MemoryOK
      <4>. QED BY <3>1, <3>2, <3>3, <4>1, InitTransfersType DEF InitSucceeds, TypeOK
    <3>4. ASSUME NEW x \in Sources, InitMissesSource(x)
          PROVE  TypeOK'
      <4>1. MemoryOK'
        BY <3>4 DEF InitMissesSource, TypeOK, MemoryOK
      <4>. QED BY <3>1, <3>2, <3>4, <4>1, InitTransfersType, ControlType, FaultType
           DEF InitMissesSource, TypeOK
    <3>5. ASSUME NEW k \in 0..(NumTransfers - 1), InitThrows(k)
          PROVE  TypeOK'
      <4>1. MemoryOK'
        BY <3>5 DEF InitThrows, TypeOK, MemoryOK
      <4>. QED BY <3>1, <3>2, <3>5, <4>1, Frame, ControlType, FaultType DEF InitThrows, TypeOK
    <3>. QED BY <2>1, <3>3, <3>4, <3>5 DEF start_poll
  <2>2. CASE poll
    <3>1. EngineOK'
      BY <2>2 DEF poll, TypeOK, EngineOK
    <3>2. cpc' \in [Callers -> CallerPCs]
      BY <2>2 DEF poll, TypeOK
    <3>. QED BY <2>2, <3>1, <3>2, Frame DEF poll, TypeOK
  <2>3. CASE stop_poll
    <3>1. EngineOK'
      BY <2>3 DEF stop_poll, TypeOK, EngineOK
    <3>2. cpc' \in [Callers -> CallerPCs]
      BY <2>3 DEF stop_poll, TypeOK
    <3>3. ControlOK'
      BY <2>3 DEF stop_poll, TypeOK, ControlOK
    <3>4. ModesOK'
      BY <2>3 DEF stop_poll, TypeOK, ModesOK
    <3>. QED BY <2>3, <3>1, <3>2, <3>3, <3>4, Frame DEF stop_poll, TypeOK
  <2>4. CASE get_errors
    <3>1. ControlOK'
      BY <2>4 DEF get_errors, TypeOK, ControlOK
    <3>. QED BY <2>4, <3>1, Frame DEF get_errors, TypeOK
  <2>. QED BY <1>3, <2>1, <2>2, <2>3, <2>4 DEF PollerCalls
<1>4. CASE EngineStep
  <2>1. CASE EpollWait
    <3>1. EngineOK'
      BY <2>1 DEF EpollWait, MemoryOK, TypeOK, EngineOK
    <3>. QED BY <2>1, <3>1, Frame DEF EpollWait, TypeOK
  <2>2. CASE EpollTimesOut
    <3>. QED BY <2>2, Frame, StepReturnsType DEF EpollTimesOut, TypeOK
  <2>3. CASE EpollFails
    <3>. QED BY <2>3, Frame, StepReturnsType, ControlType, FaultType DEF EpollFails, TypeOK
  <2>4. CASE HandleUsb
    <3>1. EngineOK'
      BY <2>4 DEF HandleUsb, Handle, TypeOK, EngineOK
    <3>. QED BY <2>4, <3>1, Frame DEF HandleUsb, TypeOK
  <2>5. CASE event_timer
    <3>1. EngineOK'
      BY <2>5 DEF event_timer, Handle, TypeOK, EngineOK
    <3>2. TimesOK'
      BY <2>5 DEF event_timer, TypeOK, TimesOK
    <3>3. ControlOK'
      BY <2>5, ControlType, Frame DEF event_timer
    <3>. QED BY <2>5, <3>1, <3>2, <3>3, Frame DEF event_timer, TypeOK
  <2>6. CASE event_notice
    <3>1. EngineOK'
      BY <2>6 DEF event_notice, Handle, TypeOK, EngineOK
    <3>2. ControlOK'
      BY <2>6 DEF event_notice, TypeOK, ControlOK
    <3>. QED BY <2>6, <3>1, <3>2, Frame DEF event_notice, TypeOK
  <2>7. ASSUME NEW src \in OwnSources, EventReadFails(src)
        PROVE  TypeOK'
    <3>1. EngineOK'
      BY <2>7 DEF EventReadFails, Handle, TypeOK, EngineOK
    <3>. QED BY <2>7, <3>1, Frame, ControlType, FaultType DEF EventReadFails, TypeOK
  <2>8. ASSUME NEW fd \in WriteFds, HandleFd(fd)
        PROVE  TypeOK'
    <3>1. EngineOK'
      BY <2>8 DEF HandleFd, Handle, TypeOK, EngineOK
    <3>. QED BY <2>8, <3>1, Frame, SubmitType DEF HandleFd, TypeOK
  <2>9. ASSUME NEW fd \in WriteFds, HandleFdThrows(fd)
        PROVE  TypeOK'
    <3>. QED BY <2>9, Frame, SubmitFailsType, StepThrowsType DEF HandleFdThrows, TypeOK
  <2>10. CASE HandleUsbReturns
    <3>1. EngineOK'
      BY <2>10 DEF HandleUsbReturns, TypeOK, EngineOK
    <3>. QED BY <2>10, <3>1, Frame DEF HandleUsbReturns, TypeOK
  <2>11. CASE HandleUsbFails
    <3>. QED BY <2>11, Frame, StepThrowsType, FaultType DEF HandleUsbFails, TypeOK
  <2>12. CASE ApplyLists
    <3>1. PICK S, C :
            /\ enabled' = [t \in Transfers |-> IF t \in S
                             THEN ~should_run \/ is_reading[t] \/ wqueue[stream_id[t]] > 0
                             ELSE enabled[t]]
            /\ usb' = [t \in Transfers |->
                         IF t \in S /\ should_run /\ (is_reading[t] \/ wqueue[stream_id[t]] > 0)
                         THEN "inflight" ELSE CancelTransfers(C)[t]]
      BY <2>12, ZenonT(40) DEF ApplyLists
    <3>2. enabled' \in [Transfers -> BOOLEAN]
      BY <3>1 DEF TypeOK, TransfersOK, ControlOK, AppOK
    <3>3. usb' \in [Transfers -> UsbStates]
      BY <3>1, CancelTransfersType
    <3>4. TransfersOK'
      BY <2>12, <3>2, <3>3 DEF ApplyLists, TypeOK, TransfersOK
    <3>5. ListsOK' /\ EngineOK'
      BY <2>12 DEF ApplyLists, TypeOK, ListsOK, EngineOK, NothingAsked
    <3>. QED BY <2>12, <3>4, <3>5, Frame DEF ApplyLists, TypeOK
  <2>13. CASE ResetThrows
    <3>. QED BY <2>13, Frame, StepThrowsType, FaultType DEF ResetThrows, TypeOK
  <2>14. CASE EnableThrows
    <3>1. ListsOK'
      BY <2>14 DEF EnableThrows, TypeOK, ListsOK
    <3>. QED BY <2>14, <3>1, Frame, SubmitFailsType, StepThrowsType DEF EnableThrows, TypeOK
  <2>15. CASE StepDone
    <3>. QED BY <2>15, Frame, StepReturnsType DEF StepDone, TypeOK
  <2>16. CASE ShutdownReset
    <3>1. EngineOK'
      BY <2>16 DEF ShutdownReset, TypeOK, EngineOK
    <3>. QED BY <2>16, <3>1, Frame DEF ShutdownReset, TypeOK
  <2>17. CASE ShutdownCancel
    <3>1. TransfersOK'
      BY <2>17, CancelTransfersType DEF ShutdownCancel, TypeOK, TransfersOK
    <3>2. cancel_counter' \in -1..CancelLoops
      BY <2>17 DEF ShutdownCancel, TypeOK
    <3>. QED BY <2>17, <3>1, <3>2, Frame, StepReturnsType DEF ShutdownCancel, TypeOK
  <2>18. CASE process_cleanup
    <3>1. ModesOK'
      BY <2>18 DEF process_cleanup, TypeOK, ModesOK
    <3>2. TransfersOK'
      BY <2>18 DEF process_cleanup, TransfersOK
    <3>3. MemoryOK'
      BY <2>18 DEF process_cleanup, TypeOK, MemoryOK
    <3>4. EngineOK'
      BY <2>18 DEF process_cleanup, TypeOK, EngineOK
    <3>5. TimesOK'
      BY <2>18 DEF process_cleanup, TypeOK, TimesOK
    <3>6. cpc' \in [Callers -> CallerPCs]
      BY <2>18 DEF process_cleanup, TypeOK
    <3>. QED BY <2>18, <3>1, <3>2, <3>3, <3>4, <3>5, <3>6, Frame, ControlType DEF process_cleanup, TypeOK
  <2>19. ASSUME NEW t \in Transfers, Callback(t)
        PROVE  TypeOK'
    BY <2>19, CallbackType
  <2>20. ASSUME NEW op \in Requests, NEW s \in Streams, CallbackRequest(op, s)
        PROVE  TypeOK'
    <3>1. ListsOK'
      BY <2>20, EnlistType, Frame DEF CallbackRequest, TypeOK
    <3>2. ControlOK'
      BY <2>20 DEF CallbackRequest, TypeOK, ControlOK
    <3>3. EngineOK'
      BY <2>20 DEF CallbackRequest, TypeOK, EngineOK
    <3>. QED BY <2>20, <3>1, <3>2, <3>3, Frame DEF CallbackRequest, TypeOK
  <2>. QED BY <1>4, <2>1, <2>2, <2>3, <2>4, <2>5, <2>6, <2>7, <2>8, <2>9, <2>10, <2>11, <2>12, <2>13, <2>14, <2>15, <2>16, <2>17, <2>18, <2>19, <2>20 DEF EngineStep, Dispatch
<1>5. CASE Environment
  <2>1. CASE Tick
    <3>1. TimesOK'
      BY <2>1 DEF Tick, TypeOK, TimesOK, MemoryOK
    <3>. QED BY <2>1, <3>1, Frame DEF Tick, TypeOK
  <2>2. ASSUME NEW s \in Streams, AppWrite(s)
        PROVE  TypeOK'
    <3>1. AppOK'
      BY <2>2 DEF AppWrite, TypeOK, AppOK
    <3>. QED BY <2>2, <3>1, Frame DEF AppWrite, TypeOK
  <2>3. ASSUME NEW t \in Transfers, NEW status \in Returned, NEW data \in BOOLEAN,
               UsbDone(t, status, data)
        PROVE  TypeOK'
    <3>1. TransfersOK'
      BY <2>3 DEF UsbDone, TypeOK, TransfersOK
    <3>2. AppOK'
      BY <2>3 DEF UsbDone, TypeOK, AppOK
    <3>3. faults' \in 0..MaxFaults
      BY <2>3, FaultType DEF UsbDone, TypeOK
    <3>. QED BY <2>3, <3>1, <3>2, <3>3, Frame DEF UsbDone, TypeOK
  <2>. QED BY <1>5, <2>1, <2>2, <2>3 DEF Environment
<1>. QED BY <1>1, <1>2, <1>3, <1>4, <1>5 DEF Next

-----------------------------------------------------------------------------
(* Who runs the engine.                                                    *)

\* Moving the engine inside process_step concerns nobody else.
LEMMA RunnerFrame ==
    ASSUME RunnerInv, UNCHANGED <<is_started_thr, is_started_poll, mutex, cpc, alive>>,
           epc' = epc \/ (epc # "none" /\ epc' \notin {"none", "cleanup"})
    PROVE  RunnerInv'
BY CallersAssumption DEF RunnerInv, EngineHasState, StopHoldsMutex, Polling, StopPolling

LEMMA RunnerReturns ==
    ASSUME TypeOK, RunnerInv, epc \notin {"none", "cleanup"}, NEW more, StepReturns(more),
           alive' = alive
    PROVE  RunnerInv'
<1>. USE CallersAssumption DEF StepReturns, modes
<1>1. cpc \in [Callers -> CallerPCs]
  BY DEF TypeOK
<1>2. CASE Polling
  BY <1>1, <1>2 DEF RunnerInv, EngineHasState, StopHoldsMutex, Polling, StopPolling
<1>3. CASE ~Polling
  BY <1>1, <1>3 DEF RunnerInv, EngineHasState, StopHoldsMutex, Polling, StopPolling
<1>. QED BY <1>2, <1>3

LEMMA RunnerThrows ==
    ASSUME TypeOK, RunnerInv, epc \notin {"none", "cleanup"}, StepThrows, alive' = alive
    PROVE  RunnerInv'
<1>. USE CallersAssumption DEF StepThrows
<1>1. cpc \in [Callers -> CallerPCs]
  BY DEF TypeOK
<1>2. CASE is_started_thr
  BY <1>1, <1>2 DEF RunnerInv, EngineHasState, StopHoldsMutex, Polling, StopPolling
<1>3. CASE ~is_started_thr
  BY <1>1, <1>3 DEF RunnerInv, EngineHasState, StopHoldsMutex, Polling, StopPolling
<1>. QED BY <1>2, <1>3

LEMMA RunnerStep ==
    ASSUME IInv, [Next]_vars
    PROVE  RunnerInv'
<1>. USE CallersAssumption
<1>. TypeOK /\ RunnerInv
  BY DEF IInv
<1>0. cpc \in [Callers -> CallerPCs] /\ mutex \in Callers \cup {NoOne}
  BY DEF TypeOK, ModesOK
<1>1. CASE UNCHANGED vars
  BY <1>1, RunnerFrame DEF vars, modes, memory, engine
<1>2. ASSUME NEW c \in Callers, CallerStep(c) \/ CallerCalls(c)
      PROVE  RunnerInv'
  <2>1. CASE StopNotice(c)
    BY <2>1, <1>0 DEF StopNotice, modes, memory, engine, RunnerInv, EngineHasState, StopHoldsMutex, Polling, StopPolling
  <2>2. CASE issue_notice(c)
    BY <2>2, <1>0 DEF issue_notice, modes, memory, engine, RunnerInv, EngineHasState, StopHoldsMutex, Polling, StopPolling
  <2>3. CASE Join(c)
    BY <2>3, <1>0 DEF Join, memory, engine, RunnerInv, EngineHasState, StopHoldsMutex, Polling, StopPolling
  <2>4. CASE start_thread(c)
    <3>1. ~is_started_thr /\ ~is_started_poll /\ UNCHANGED <<cpc, mutex, is_started_poll>>
      BY <2>4 DEF start_thread, CanStart
    <3>2. \/ alive' = TRUE /\ is_started_thr' = TRUE /\ epc' = "wait"
          \/ UNCHANGED <<alive, is_started_thr, epc>>
      BY <2>4 DEF start_thread, InitSucceeds, InitMissesSource, InitThrows, memory
    <3>3. epc = "none" /\ ~alive /\ mutex = NoOne
      BY <2>4, <3>1, <1>0 DEF start_thread, CanStart, RunnerInv, EngineHasState, StopHoldsMutex, Polling, StopPolling
    <3>. QED BY <3>1, <3>2, <3>3, <1>0 DEF RunnerInv, EngineHasState, StopHoldsMutex, Polling, StopPolling
  <2>5. CASE stop_thread(c)
    BY <2>5, <1>0 DEF stop_thread, memory, engine, RunnerInv, EngineHasState, StopHoldsMutex, Polling, StopPolling
  <2>6. ASSUME NEW op \in Requests, NEW s \in Streams, Request(c, op, s)
        PROVE  RunnerInv'
    BY <2>6, <1>0 DEF Request, modes, memory, engine, RunnerInv, EngineHasState, StopHoldsMutex, Polling, StopPolling
  <2>. QED BY <1>2, <2>1, <2>2, <2>3, <2>4, <2>5, <2>6 DEF CallerStep, CallerCalls
<1>3. CASE PollerCalls \/ get_errors
  <2>1. CASE start_poll
    <3>1. ~is_started_thr /\ ~is_started_poll /\ UNCHANGED <<cpc, mutex, is_started_thr>>
      BY <2>1 DEF start_poll, CanStart
    <3>2. \/ alive' = TRUE /\ is_started_poll' = TRUE /\ epc' = epc
          \/ UNCHANGED <<alive, is_started_poll, epc>>
      BY <2>1 DEF start_poll, InitSucceeds, InitMissesSource, InitThrows, memory
    <3>3. epc = "none" /\ ~alive /\ mutex = NoOne
      BY <2>1, <3>1, <1>0 DEF start_poll, CanStart, RunnerInv, EngineHasState, StopHoldsMutex, Polling, StopPolling
    <3>. QED BY <3>1, <3>2, <3>3, <1>0 DEF RunnerInv, EngineHasState, StopHoldsMutex, Polling, StopPolling
  <2>2. CASE poll
    BY <2>2, <1>0 DEF poll, modes, memory, RunnerInv, EngineHasState, StopHoldsMutex, Polling, StopPolling
  <2>3. CASE stop_poll
    BY <2>3, <1>0 DEF stop_poll, memory, RunnerInv, EngineHasState, StopHoldsMutex, Polling, StopPolling
  <2>4. CASE get_errors
    BY <2>4, RunnerFrame DEF get_errors, modes, memory, engine
  <2>. QED BY <1>3, <2>1, <2>2, <2>3, <2>4 DEF PollerCalls
<1>4. CASE EngineStep
  <2>1. CASE EpollWait
    BY <2>1, RunnerFrame DEF EpollWait, modes, memory, engine
  <2>2. CASE EpollTimesOut
    BY <2>2, RunnerReturns DEF EpollTimesOut, modes, memory, engine
  <2>3. CASE EpollFails
    BY <2>3, RunnerReturns DEF EpollFails, modes, memory, engine
  <2>4. CASE HandleUsb
    BY <2>4, RunnerFrame DEF HandleUsb, Handle, modes, memory, engine
  <2>5. CASE event_timer
    BY <2>5, RunnerFrame DEF event_timer, modes, memory, engine
  <2>6. CASE event_notice
    BY <2>6, RunnerFrame DEF event_notice, Handle, modes, memory, engine
  <2>7. ASSUME NEW src \in OwnSources, EventReadFails(src)
        PROVE  RunnerInv'
    BY <2>7, RunnerFrame DEF EventReadFails, modes, memory, engine
  <2>8. ASSUME NEW fd \in WriteFds, HandleFd(fd)
        PROVE  RunnerInv'
    BY <2>8, RunnerFrame DEF HandleFd, modes, memory, engine
  <2>9. ASSUME NEW fd \in WriteFds, HandleFdThrows(fd)
        PROVE  RunnerInv'
    BY <2>9, RunnerThrows DEF HandleFdThrows, modes, memory, engine
  <2>10. CASE HandleUsbReturns
    BY <2>10, RunnerFrame DEF HandleUsbReturns, modes, memory, engine
  <2>11. CASE HandleUsbFails
    BY <2>11, RunnerThrows DEF HandleUsbFails, modes, memory, engine
  <2>12. CASE ApplyLists
    BY <2>12, RunnerFrame DEF ApplyLists, modes, memory, engine
  <2>13. CASE ResetThrows
    BY <2>13, RunnerThrows DEF ResetThrows, modes, memory, engine
  <2>14. CASE EnableThrows
    BY <2>14, RunnerThrows DEF EnableThrows, modes, memory, engine
  <2>15. CASE StepDone
    BY <2>15, RunnerReturns DEF StepDone, modes, memory, engine
  <2>16. CASE ShutdownReset
    BY <2>16, RunnerFrame DEF ShutdownReset, modes, memory, engine
  <2>17. CASE ShutdownCancel
    BY <2>17, RunnerReturns DEF ShutdownCancel, modes, memory, engine
  <2>18. CASE process_cleanup
    BY <2>18, <1>0 DEF process_cleanup, RunnerInv, EngineHasState, StopHoldsMutex, Polling, StopPolling
  <2>19. ASSUME NEW t \in Transfers, Callback(t)
        PROVE  RunnerInv'
    <3>1. UNCHANGED <<modes, memory, cpc>>
      BY <2>19 DEF Callback, CallbackEnds, read_callback, ReadResubmitFails, ReadFails, write_callback, WriteResubmitFails, Served, InCallback, HandlesEvents, CallbackCallsOut, modes, memory
    <3>2. epc' = epc \/ (epc # "none" /\ epc' \notin {"none", "cleanup"})
      BY <2>19 DEF Callback, CallbackEnds, read_callback, ReadResubmitFails, ReadFails, write_callback, WriteResubmitFails, Served, InCallback, HandlesEvents, CallbackCallsOut, IInv, TransferInv, PhaseInv, CallbackPending
    <3>. QED BY <3>1, <3>2, RunnerFrame DEF modes, memory
  <2>20. ASSUME NEW op \in Requests, NEW s \in Streams, CallbackRequest(op, s)
        PROVE  RunnerInv'
    BY <2>20, RunnerFrame DEF CallbackRequest, modes, memory, engine
  <2>. QED BY <1>4, <2>1, <2>2, <2>3, <2>4, <2>5, <2>6, <2>7, <2>8, <2>9, <2>10, <2>11, <2>12, <2>13, <2>14, <2>15, <2>16, <2>17, <2>18, <2>19, <2>20 DEF EngineStep, Dispatch
<1>5. CASE Environment
  BY <1>5, RunnerFrame DEF Environment, Tick, AppWrite, UsbDone, modes, memory, engine
<1>. QED BY <1>1, <1>2, <1>3, <1>4, <1>5 DEF Next

-----------------------------------------------------------------------------
(* Where the transfers are.                                                *)

LEMMA FlightFrame ==
    ASSUME FlightInv, UNCHANGED <<transfers, alive, wqueue>>, should_run' => should_run
    PROVE  FlightInv'
BY DEF FlightInv, InFlightIsEnabled, EnabledIsInFlight, WriterHasData, transfers

\* After a start: what was submitted is enabled and has data.
LEMMA FlightInit ==
    ASSUME TypeOK, NEW S \in SUBSET Transfers, InitTransfers(S), S = Transfers \/ ~should_run',
           alive', UNCHANGED wqueue
    PROVE  FlightInv'
<1>. USE TransfersAssumption DEF TypeOK, AppOK
<1>1. InFlightIsEnabled'
  BY DEF InitTransfers, InFlightIsEnabled
<1>2. EnabledIsInFlight'
  BY DEF InitTransfers, EnabledIsInFlight
<1>3. WriterHasData'
  BY DEF InitTransfers, WriterHasData
<1>. QED BY <1>1, <1>2, <1>3 DEF FlightInv

\* submit () of disabled transfers, all of it or up to an exception.
LEMMA FlightSubmit ==
    ASSUME TypeOK, FlightInv, NEW S \in SUBSET Transfers, Submit(S),
           \A t \in S : ~enabled[t], UNCHANGED <<alive, wqueue, should_run>>, alive
    PROVE  FlightInv'
<1>. USE TransfersAssumption DEF TypeOK, AppOK, TransfersOK
<1>1. InFlightIsEnabled'
  BY DEF Submit, FlightInv, InFlightIsEnabled
<1>2. EnabledIsInFlight'
  BY DEF Submit, FlightInv, EnabledIsInFlight
<1>3. WriterHasData'
  BY DEF Submit, FlightInv, WriterHasData
<1>. QED BY <1>1, <1>2, <1>3 DEF FlightInv

LEMMA FlightSubmitFails ==
    ASSUME TypeOK, FlightInv, NEW S \in SUBSET Transfers, NEW x \in S, SubmitFailsAt(S, x),
           \A t \in S : ~enabled[t], UNCHANGED <<alive, wqueue>>, alive, ~should_run'
    PROVE  FlightInv'
<1>. USE TransfersAssumption DEF TypeOK, AppOK, TransfersOK
<1>1. PICK D \in SUBSET (S \ {x}) :
        /\ enabled' = [t \in Transfers |->
                         IF t \in D THEN is_reading[t] \/ wqueue[stream_id[t]] > 0
                         ELSE enabled[t] \/ t = x]
        /\ usb' = [t \in Transfers |->
                     IF t \in D /\ (is_reading[t] \/ wqueue[stream_id[t]] > 0)
                     THEN "inflight" ELSE usb[t]]
  BY DEF SubmitFailsAt
<1>2. InFlightIsEnabled'
  BY <1>1 DEF FlightInv, InFlightIsEnabled
<1>3. EnabledIsInFlight'
  BY DEF EnabledIsInFlight
<1>4. WriterHasData'
  BY <1>1 DEF FlightInv, WriterHasData
<1>. QED BY <1>2, <1>3, <1>4 DEF FlightInv

\* libusb_cancel_transfer moves nothing in or out of flight.
LEMMA CancelKeepsFlight ==
    ASSUME TypeOK, NEW S, NEW t \in Transfers
    PROVE  CancelTransfers(S)[t] = "idle" <=> usb[t] = "idle"
BY DEF CancelTransfers

\* A callback hands its transfer on: in flight and enabled, or idle and disabled.
LEMMA FlightGive ==
    ASSUME TypeOK, FlightInv, NEW t \in Transfers, NEW on \in BOOLEAN,
           Give(t, IF on THEN "inflight" ELSE "idle", on),
           usb[t] # "idle", alive' = alive, should_run' => should_run,
           wqueue' \in [Streams -> Nat],
           ~is_reading[t] /\ on => wqueue'[stream_id[t]] > 0,
           \A u \in Transfers \ {t} : ~is_reading[u] /\ wqueue[stream_id[u]] > 0
                                      => wqueue'[stream_id[u]] > 0
    PROVE  FlightInv'
<1>. USE TransfersAssumption DEF TypeOK, AppOK, TransfersOK
<1>1. InFlightIsEnabled'
  BY DEF Give, FlightInv, InFlightIsEnabled
<1>2. EnabledIsInFlight'
  BY DEF Give, FlightInv, EnabledIsInFlight
<1>3. WriterHasData'
  BY DEF Give, FlightInv, WriterHasData
<1>. QED BY <1>1, <1>2, <1>3 DEF FlightInv

LEMMA FlightStep ==
    ASSUME IInv, [Next]_vars
    PROVE  FlightInv'
<1>. TypeOK /\ FlightInv
  BY DEF IInv, TransferInv
<1>0. (epc # "none" => alive) /\ CallbackPending
  BY DEF IInv, RunnerInv, EngineHasState, TransferInv, PhaseInv
<1>1. CASE UNCHANGED vars
  BY <1>1, FlightFrame DEF vars, control, modes, memory, transfers, app
<1>2. ASSUME NEW c \in Callers, CallerStep(c) \/ CallerCalls(c)
      PROVE  FlightInv'
  <2>1. CASE StopNotice(c)
    BY <2>1, FlightFrame DEF StopNotice, control, modes, memory, transfers, app
  <2>2. CASE issue_notice(c)
    BY <2>2, FlightFrame DEF issue_notice, control, modes, memory, transfers, app
  <2>3. CASE Join(c)
    BY <2>3, FlightFrame DEF Join, Cancel, control, modes, memory, transfers, app
  <2>4. CASE start_thread(c)
    <3>1. CASE InitSucceeds
      BY <2>4, <3>1, FlightInit DEF start_thread, InitCommon, InitSucceeds, app
    <3>2. ASSUME NEW x \in Sources, InitMissesSource(x)
          PROVE  FlightInv'
      BY <2>4, <3>2, FlightInit DEF start_thread, InitCommon, InitMissesSource, Error, app
    <3>3. ASSUME NEW k \in 0..NumTransfers, InitThrows(k)
          PROVE  FlightInv'
      BY <2>4, <3>3, FlightFrame DEF start_thread, InitCommon, InitThrows, Error, app
    <3>. QED BY <2>4, <3>1, <3>2, <3>3 DEF start_thread
  <2>5. CASE stop_thread(c)
    BY <2>5, FlightFrame DEF stop_thread, control, modes, memory, transfers, app
  <2>6. ASSUME NEW op \in Requests, NEW s \in Streams, Request(c, op, s)
        PROVE  FlightInv'
    BY <2>6, FlightFrame DEF Request, control, modes, memory, transfers, app
  <2>. QED BY <1>2, <2>1, <2>2, <2>3, <2>4, <2>5, <2>6 DEF CallerStep, CallerCalls
<1>3. CASE PollerCalls \/ get_errors
  <2>1. CASE start_poll
    <3>1. CASE InitSucceeds
      BY <2>1, <3>1, FlightInit DEF start_poll, InitCommon, InitSucceeds, app
    <3>2. ASSUME NEW x \in Sources, InitMissesSource(x)
          PROVE  FlightInv'
      BY <2>1, <3>2, FlightInit DEF start_poll, InitCommon, InitMissesSource, Error, app
    <3>3. ASSUME NEW k \in 0..(NumTransfers - 1), InitThrows(k)
          PROVE  FlightInv'
      BY <2>1, <3>3, FlightFrame DEF start_poll, InitCommon, InitThrows, Error, app
    <3>. QED BY <2>1, <3>1, <3>2, <3>3 DEF start_poll
  <2>2. CASE poll
    BY <2>2, FlightFrame DEF poll, control, modes, memory, transfers, app
  <2>3. CASE stop_poll
    BY <2>3, FlightFrame DEF stop_poll, control, modes, memory, transfers, app
  <2>4. CASE get_errors
    BY <2>4, FlightFrame DEF get_errors, control, modes, memory, transfers, app
  <2>. QED BY <1>3, <2>1, <2>2, <2>3, <2>4 DEF PollerCalls
<1>4. CASE EngineStep
  <2>1. CASE EpollWait
    BY <2>1, FlightFrame DEF EpollWait, control, modes, memory, transfers, app
  <2>2. CASE EpollTimesOut
    BY <2>2, FlightFrame DEF EpollTimesOut, control, modes, memory, transfers, app
  <2>3. CASE EpollFails
    BY <2>3, FlightFrame DEF EpollFails, Cancel, control, modes, memory, transfers, app
  <2>4. CASE HandleUsb
    BY <2>4, FlightFrame DEF HandleUsb, control, modes, memory, transfers, app
  <2>5. CASE event_timer
    BY <2>5, FlightFrame DEF event_timer, Error, control, modes, memory, transfers, app
  <2>6. CASE event_notice
    BY <2>6, FlightFrame DEF event_notice, control, modes, memory, transfers, app
  <2>7. ASSUME NEW src \in OwnSources, EventReadFails(src)
        PROVE  FlightInv'
    BY <2>7, FlightFrame DEF EventReadFails, Error, control, modes, memory, transfers, app
  <2>8. ASSUME NEW fd \in WriteFds, HandleFd(fd)
        PROVE  FlightInv'
    <3>1. alive
      BY <2>8, <1>0 DEF HandleFd, Handle
    <3>. QED BY <2>8, <3>1, FlightSubmit DEF HandleFd, DisabledAt, control, memory, app
  <2>9. ASSUME NEW fd \in WriteFds, HandleFdThrows(fd)
        PROVE  FlightInv'
    <3>1. alive
      BY <2>9, <1>0 DEF HandleFdThrows
    <3>2. PICK x \in DisabledAt({fd}) : SubmitFailsAt(DisabledAt({fd}), x)
      BY <2>9 DEF HandleFdThrows
    <3>. QED BY <2>9, <3>1, <3>2, FlightSubmitFails DEF HandleFdThrows, StepThrows, DisabledAt, memory, app
  <2>10. CASE HandleUsbReturns
    BY <2>10, FlightFrame DEF HandleUsbReturns, control, modes, memory, transfers, app
  <2>11. CASE HandleUsbFails
    BY <2>11, FlightFrame DEF HandleUsbFails, StepThrows, control, modes, memory, transfers, app
  <2>12. CASE ApplyLists
    <3> DEFINE S == DisabledAt(list_enable)
               C == {t \in Transfers : eventfd[t] \in list_disable}
    <3>1. /\ enabled' = [t \in Transfers |-> IF t \in S
                          THEN ~should_run \/ is_reading[t] \/ wqueue[stream_id[t]] > 0
                          ELSE enabled[t]]
          /\ usb' = [t \in Transfers |->
                       IF t \in S /\ should_run /\ (is_reading[t] \/ wqueue[stream_id[t]] > 0)
                       THEN "inflight" ELSE CancelTransfers(C)[t]]
          /\ UNCHANGED <<alive, wqueue, should_run>>
      BY <2>12 DEF ApplyLists, control, memory, app
    <3>2. \A t \in Transfers : t \in S => ~enabled[t]
      BY DEF DisabledAt
    <3>3. \A t \in Transfers : CancelTransfers(C)[t] = "idle" <=> usb[t] = "idle"
      BY CancelKeepsFlight
    <3>4. alive
      BY <2>12, <1>0 DEF ApplyLists
    <3>. HIDE DEF S, C
    <3>5. InFlightIsEnabled'
      BY <3>1, <3>2, <3>3 DEF FlightInv, InFlightIsEnabled
    <3>6. EnabledIsInFlight'
      BY <3>1, <3>2, <3>3, TransfersAssumption DEF FlightInv, EnabledIsInFlight
    <3>7. WriterHasData'
      BY <3>1, <3>2, <3>3 DEF FlightInv, WriterHasData
    <3>. QED BY <3>1, <3>4, <3>5, <3>6, <3>7 DEF FlightInv
  <2>13. CASE ResetThrows
    BY <2>13, FlightFrame DEF ResetThrows, StepThrows, control, modes, memory, transfers, app
  <2>14. CASE EnableThrows
    <3>1. alive
      BY <2>14, <1>0 DEF EnableThrows
    <3>2. PICK x \in DisabledAt(list_enable) : SubmitFailsAt(DisabledAt(list_enable), x)
      BY <2>14 DEF EnableThrows
    <3>. QED BY <2>14, <3>1, <3>2, FlightSubmitFails DEF EnableThrows, StepThrows, DisabledAt, memory, app
  <2>15. CASE StepDone
    BY <2>15, FlightFrame DEF StepDone, control, modes, memory, transfers, app
  <2>16. CASE ShutdownReset
    BY <2>16, FlightFrame DEF ShutdownReset, control, modes, memory, transfers, app
  <2>17. CASE ShutdownCancel
    <3>1. usb' = CancelTransfers(Transfers) /\ UNCHANGED <<enabled, alive, wqueue, should_run>>
      BY <2>17 DEF ShutdownCancel, control, memory, app
    <3>2. \A t \in Transfers : usb'[t] = "idle" <=> usb[t] = "idle"
      BY <3>1, CancelKeepsFlight
    <3>. QED BY <3>1, <3>2 DEF FlightInv, InFlightIsEnabled, EnabledIsInFlight, WriterHasData
  <2>18. CASE process_cleanup
    BY <2>18 DEF process_cleanup, FlightInv, InFlightIsEnabled, EnabledIsInFlight, WriterHasData
  <2>19. ASSUME NEW t \in Transfers, CallbackEnds(t)
        PROVE  FlightInv'
    <3>1. usb[t] # "idle"
      BY <2>19, <1>0, ReturnedInCallback DEF CallbackEnds, Served
    <3>2. Give(t, IF FALSE THEN "inflight" ELSE "idle", FALSE)
      BY <2>19 DEF CallbackEnds
    <3>3. alive' = alive /\ (should_run' => should_run)
      BY <2>19 DEF CallbackEnds, Served, InCallback, Cancel, Error, control, memory
    <3>4. wqueue' = wqueue /\ wqueue \in [Streams -> Nat]
      BY <2>19, BoundsAssumption DEF CallbackEnds, app, TypeOK, AppOK
    <3>5. ~is_reading[t] /\ FALSE => wqueue'[stream_id[t]] > 0
      BY <2>19, <3>4 DEF CallbackEnds
    <3>. QED BY <3>1, <3>2, <3>3, <3>4, <3>5, FlightGive
  <2>20. ASSUME NEW t \in Transfers, read_callback(t)
        PROVE  FlightInv'
    <3>1. usb[t] # "idle"
      BY <2>20, <1>0, ReturnedInCallback DEF read_callback, Served
    <3>2. Give(t, IF TRUE THEN "inflight" ELSE "idle", TRUE)
      BY <2>20 DEF read_callback
    <3>3. alive' = alive /\ (should_run' => should_run)
      BY <2>20 DEF read_callback, Served, InCallback, Cancel, Error, control, memory
    <3>4. wqueue' = wqueue /\ wqueue \in [Streams -> Nat]
      BY <2>20, BoundsAssumption DEF read_callback, app, TypeOK, AppOK
    <3>5. ~is_reading[t] /\ TRUE => wqueue'[stream_id[t]] > 0
      BY <2>20, <3>4 DEF read_callback
    <3>. QED BY <3>1, <3>2, <3>3, <3>4, <3>5, FlightGive
  <2>21. ASSUME NEW t \in Transfers, ReadResubmitFails(t)
        PROVE  FlightInv'
    <3>1. usb[t] # "idle"
      BY <2>21, <1>0, ReturnedInCallback DEF ReadResubmitFails, Served
    <3>2. Give(t, IF FALSE THEN "inflight" ELSE "idle", FALSE)
      BY <2>21 DEF ReadResubmitFails
    <3>3. alive' = alive /\ (should_run' => should_run)
      BY <2>21 DEF ReadResubmitFails, Served, InCallback, Cancel, Error, control, memory
    <3>4. wqueue' = wqueue /\ wqueue \in [Streams -> Nat]
      BY <2>21, BoundsAssumption DEF ReadResubmitFails, app, TypeOK, AppOK
    <3>5. ~is_reading[t] /\ FALSE => wqueue'[stream_id[t]] > 0
      BY <2>21, <3>4 DEF ReadResubmitFails
    <3>. QED BY <3>1, <3>2, <3>3, <3>4, <3>5, FlightGive
  <2>22. ASSUME NEW t \in Transfers, ReadFails(t)
        PROVE  FlightInv'
    <3>1. usb[t] # "idle"
      BY <2>22, <1>0, ReturnedInCallback DEF ReadFails, Served
    <3>2. Give(t, IF FALSE THEN "inflight" ELSE "idle", FALSE)
      BY <2>22 DEF ReadFails
    <3>3. alive' = alive /\ (should_run' => should_run)
      BY <2>22 DEF ReadFails, Served, InCallback, Cancel, Error, control, memory
    <3>4. wqueue' = wqueue /\ wqueue \in [Streams -> Nat]
      BY <2>22, BoundsAssumption DEF ReadFails, app, TypeOK, AppOK
    <3>5. ~is_reading[t] /\ FALSE => wqueue'[stream_id[t]] > 0
      BY <2>22, <3>4 DEF ReadFails
    <3>. QED BY <3>1, <3>2, <3>3, <3>4, <3>5, FlightGive
  <2>23. ASSUME NEW t \in Transfers, write_callback(t)
        PROVE  FlightInv'
    <3> DEFINE more == Confirmed(t)[stream_id[t]] > 0
    <3>1. usb[t] # "idle" /\ ~is_reading[t]
      BY <2>23, <1>0, ReturnedInCallback DEF write_callback, Served
    <3>2. Give(t, IF more THEN "inflight" ELSE "idle", more)
      BY <2>23 DEF write_callback
    <3>3. alive' = alive /\ (should_run' => should_run)
      BY <2>23 DEF write_callback, Served, InCallback, Error, control, memory
    <3>4. wqueue' = Confirmed(t) /\ wqueue' \in [Streams -> 0..MaxQueue]
      BY <2>23, <1>0, <3>1, ConfirmType DEF write_callback, Confirm, FlightInv
    <3>5. \A u \in Transfers \ {t} : ~is_reading[u] => wqueue'[stream_id[u]] = wqueue[stream_id[u]]
      BY <3>1, <3>4, OneWriterAssumption, TransfersAssumption DEF Confirmed, TypeOK, AppOK
    <3>6. wqueue' \in [Streams -> Nat]
      BY <3>4, BoundsAssumption
    <3>7. more \in BOOLEAN /\ (more => wqueue'[stream_id[t]] > 0)
      BY <3>4
    <3>. HIDE DEF more
    <3>. QED BY <3>1, <3>2, <3>3, <3>5, <3>6, <3>7, FlightGive
  <2>24. ASSUME NEW t \in Transfers, WriteResubmitFails(t)
        PROVE  FlightInv'
    <3>1. usb[t] # "idle" /\ ~is_reading[t]
      BY <2>24, <1>0, ReturnedInCallback DEF WriteResubmitFails, Served
    <3>2. Give(t, IF FALSE THEN "inflight" ELSE "idle", FALSE)
      BY <2>24 DEF WriteResubmitFails
    <3>3. alive' = alive /\ (should_run' => should_run)
      BY <2>24 DEF WriteResubmitFails, Served, InCallback, Error, control, memory
    <3>4. wqueue' = Confirmed(t) /\ wqueue' \in [Streams -> 0..MaxQueue]
      BY <2>24, <1>0, <3>1, ConfirmType DEF WriteResubmitFails, Confirm, FlightInv
    <3>5. \A u \in Transfers \ {t} : ~is_reading[u] => wqueue'[stream_id[u]] = wqueue[stream_id[u]]
      BY <3>1, <3>4, OneWriterAssumption, TransfersAssumption DEF Confirmed, TypeOK, AppOK
    <3>6. wqueue' \in [Streams -> Nat]
      BY <3>4, BoundsAssumption
    <3>7. FALSE \in BOOLEAN /\ (FALSE => wqueue'[stream_id[t]] > 0)
      BY <3>4
    <3>. QED BY <3>1, <3>2, <3>3, <3>5, <3>6, FlightGive
  <2>25. ASSUME NEW t \in Transfers, CallbackCallsOut(t)
        PROVE  FlightInv'
    BY <2>25, FlightFrame DEF CallbackCallsOut, control, modes, memory, transfers, app
  <2>26. ASSUME NEW op \in Requests, NEW s \in Streams, CallbackRequest(op, s)
        PROVE  FlightInv'
    BY <2>26, FlightFrame DEF CallbackRequest, control, modes, memory, transfers, app
  <2>. QED BY <1>4, <2>1, <2>2, <2>3, <2>4, <2>5, <2>6, <2>7, <2>8, <2>9, <2>10, <2>11, <2>12, <2>13, <2>14, <2>15, <2>16, <2>17, <2>18, <2>19, <2>20, <2>21, <2>22, <2>23, <2>24, <2>25, <2>26 DEF EngineStep, Dispatch, Callback
<1>5. CASE Environment
  <2>1. CASE Tick
    BY <2>1, FlightFrame DEF Tick, control, modes, memory, transfers, app
  <2>2. ASSUME NEW s \in Streams, AppWrite(s)
        PROVE  FlightInv'
    <3>1. \A u \in Streams : wqueue[u] > 0 => wqueue'[u] > 0
      BY <2>2, BoundsAssumption DEF AppWrite, TypeOK, AppOK
    <3>2. UNCHANGED <<transfers, alive, should_run>>
      BY <2>2 DEF AppWrite, control, memory
    <3>. QED BY <3>1, <3>2, TransfersAssumption
         DEF FlightInv, InFlightIsEnabled, EnabledIsInFlight, WriterHasData, transfers
  <2>3. ASSUME NEW t \in Transfers, NEW status \in Returned, NEW data \in BOOLEAN,
               UsbDone(t, status, data)
        PROVE  FlightInv'
    BY <2>3 DEF UsbDone, FlightInv, InFlightIsEnabled, EnabledIsInFlight, WriterHasData, TypeOK, TransfersOK, control, memory
  <2>. QED BY <1>5, <2>1, <2>2, <2>3 DEF Environment
<1>. QED BY <1>1, <1>2, <1>3, <1>4, <1>5 DEF Next

LEMMA PhaseStep ==
    ASSUME IInv, [Next]_vars
    PROVE  PhaseInv'
<1>. TypeOK /\ PhaseInv
  BY DEF IInv, TransferInv
<1>1. CASE UNCHANGED vars
  BY <1>1 DEF vars, PhaseInv, CallbackPending, control, transfers, engine
<1>2. ASSUME NEW c \in Callers, CallerStep(c) \/ CallerCalls(c)
      PROVE  PhaseInv'
  <2>1. CASE StopNotice(c)
    BY <2>1 DEF StopNotice, PhaseInv, CallbackPending, control, transfers, engine
  <2>2. CASE issue_notice(c)
    BY <2>2 DEF issue_notice, PhaseInv, CallbackPending, control, transfers, engine
  <2>3. CASE Join(c)
    BY <2>3 DEF Join, PhaseInv, CallbackPending, engine
  <2>4. CASE start_thread(c)
    <3>1. epc = "none"
      BY <2>4 DEF start_thread, CanStart, IInv, RunnerInv, EngineHasState
    <3>. QED BY <2>4, <3>1 DEF start_thread, CanStart, PhaseInv, CallbackPending
  <2>5. CASE stop_thread(c)
    BY <2>5 DEF stop_thread, PhaseInv, CallbackPending, control, transfers, engine
  <2>6. ASSUME NEW op \in Requests, NEW s \in Streams, Request(c, op, s)
        PROVE  PhaseInv'
    BY <2>6 DEF Request, PhaseInv, CallbackPending, control, transfers, engine
  <2>. QED BY <1>2, <2>1, <2>2, <2>3, <2>4, <2>5, <2>6 DEF CallerStep, CallerCalls
<1>3. CASE PollerCalls \/ get_errors
  <2>1. CASE start_poll
    <3>1. epc = "none"
      BY <2>1 DEF start_poll, CanStart, IInv, RunnerInv, EngineHasState
    <3>. QED BY <2>1, <3>1 DEF start_poll, CanStart, PhaseInv, CallbackPending
  <2>2. CASE poll
    BY <2>2 DEF poll, PhaseInv, CallbackPending
  <2>3. CASE stop_poll
    BY <2>3 DEF stop_poll, PhaseInv, CallbackPending
  <2>4. CASE get_errors
    BY <2>4 DEF get_errors, PhaseInv, CallbackPending, control, transfers, engine
  <2>. QED BY <1>3, <2>1, <2>2, <2>3, <2>4 DEF PollerCalls
<1>4. CASE EngineStep
  <2>1. CASE EpollWait
    BY <2>1 DEF EpollWait, PhaseInv, CallbackPending
  <2>2. CASE EpollTimesOut
    BY <2>2 DEF EpollTimesOut, StepReturns, PhaseInv, CallbackPending
  <2>3. CASE EpollFails
    BY <2>3 DEF EpollFails, Cancel, StepReturns, PhaseInv, CallbackPending
  <2>4. CASE HandleUsb
    BY <2>4 DEF HandleUsb, PhaseInv, CallbackPending
  <2>5. CASE event_timer
    BY <2>5 DEF event_timer, Handle, PhaseInv, CallbackPending
  <2>6. CASE event_notice
    BY <2>6 DEF event_notice, PhaseInv, CallbackPending
  <2>7. ASSUME NEW src \in OwnSources, EventReadFails(src)
        PROVE  PhaseInv'
    BY <2>7 DEF EventReadFails, Handle, PhaseInv, CallbackPending
  <2>8. ASSUME NEW fd \in WriteFds, HandleFd(fd)
        PROVE  PhaseInv'
    BY <2>8 DEF HandleFd, Handle, PhaseInv, CallbackPending
  <2>9. ASSUME NEW fd \in WriteFds, HandleFdThrows(fd)
        PROVE  PhaseInv'
    BY <2>9 DEF HandleFdThrows, StepThrows, PhaseInv, CallbackPending
  <2>10. CASE HandleUsbReturns
    BY <2>10 DEF HandleUsbReturns, PhaseInv, CallbackPending
  <2>11. CASE HandleUsbFails
    BY <2>11 DEF HandleUsbFails, StepThrows, PhaseInv, CallbackPending
  <2>12. CASE ApplyLists
    BY <2>12 DEF ApplyLists, PhaseInv, CallbackPending
  <2>13. CASE ResetThrows
    BY <2>13 DEF ResetThrows, StepThrows, PhaseInv, CallbackPending
  <2>14. CASE EnableThrows
    BY <2>14 DEF EnableThrows, StepThrows, PhaseInv, CallbackPending
  <2>15. CASE StepDone
    BY <2>15 DEF StepDone, StepReturns, PhaseInv, CallbackPending
  <2>16. CASE ShutdownReset
    BY <2>16 DEF ShutdownReset, PhaseInv, CallbackPending, control
  <2>17. CASE ShutdownCancel
    BY <2>17 DEF ShutdownCancel, control, StepReturns, PhaseInv, CallbackPending
  <2>18. CASE process_cleanup
    BY <2>18 DEF process_cleanup, PhaseInv, CallbackPending
  <2>19. ASSUME NEW t \in Transfers, CallbackEnds(t)
        PROVE  PhaseInv'
    BY <2>19 DEF CallbackEnds, Cancel, InCallback, HandlesEvents, PhaseInv, CallbackPending, control
  <2>20. ASSUME NEW t \in Transfers, read_callback(t)
        PROVE  PhaseInv'
    BY <2>20 DEF read_callback, Served, InCallback, HandlesEvents, PhaseInv, CallbackPending, control
  <2>21. ASSUME NEW t \in Transfers, ReadResubmitFails(t)
        PROVE  PhaseInv'
    BY <2>21 DEF ReadResubmitFails, Served, Error, InCallback, HandlesEvents, PhaseInv, CallbackPending, control
  <2>22. ASSUME NEW t \in Transfers, ReadFails(t)
        PROVE  PhaseInv'
    BY <2>22 DEF ReadFails, Served, Error, InCallback, HandlesEvents, PhaseInv, CallbackPending, control
  <2>23. ASSUME NEW t \in Transfers, write_callback(t)
        PROVE  PhaseInv'
    BY <2>23 DEF write_callback, Served, InCallback, HandlesEvents, PhaseInv, CallbackPending, control
  <2>24. ASSUME NEW t \in Transfers, WriteResubmitFails(t)
        PROVE  PhaseInv'
    BY <2>24 DEF WriteResubmitFails, Served, Error, InCallback, HandlesEvents, PhaseInv, CallbackPending, control
  <2>25. ASSUME NEW t \in Transfers, CallbackCallsOut(t)
        PROVE  PhaseInv'
    BY <2>25 DEF CallbackCallsOut, HandlesEvents, PhaseInv, CallbackPending, control, transfers
  <2>26. ASSUME NEW op \in Requests, NEW s \in Streams, CallbackRequest(op, s)
        PROVE  PhaseInv'
    BY <2>26 DEF CallbackRequest, PhaseInv, CallbackPending, transfers
  <2>. QED BY <1>4, <2>1, <2>2, <2>3, <2>4, <2>5, <2>6, <2>7, <2>8, <2>9, <2>10, <2>11, <2>12, <2>13, <2>14, <2>15, <2>16, <2>17, <2>18, <2>19, <2>20, <2>21, <2>22, <2>23, <2>24, <2>25, <2>26 DEF EngineStep, Dispatch, Callback
<1>5. CASE Environment
  <2>1. CASE Tick
    BY <2>1 DEF Tick, PhaseInv, CallbackPending, control, transfers, engine
  <2>2. ASSUME NEW s \in Streams, AppWrite(s)
        PROVE  PhaseInv'
    BY <2>2 DEF AppWrite, PhaseInv, CallbackPending, control, transfers, engine
  <2>3. ASSUME NEW t \in Transfers, NEW status \in Returned, NEW data \in BOOLEAN,
               UsbDone(t, status, data)
        PROVE  PhaseInv'
    BY <2>3 DEF UsbDone, PhaseInv, CallbackPending, TypeOK, TransfersOK, control, engine
  <2>. QED BY <1>5, <2>1, <2>2, <2>3 DEF Environment
<1>. QED BY <1>1, <1>2, <1>3, <1>4, <1>5 DEF Next

-----------------------------------------------------------------------------
(* Requests and stops are not lost.                                        *)

\* Nothing is taken from the lists, no wake-up is used, and the engine does not
\* leave event_notice.
LEMMA RequestFrame ==
    ASSUME RequestInv, UNCHANGED <<lists, should_run, should_cancel>>,
           notice => notice', alive' => alive, ListLocked => ListLocked',
           \A c \in Callers : cpc[c] \in {"notify", "stop_notice"} => cpc'[c] = cpc[c]
    PROVE  RequestInv'
BY DEF RequestInv, NoLostRequest, NoLostCancel, EndingIsVisible, ListsAreLast, lists

\* Once the engine is ending there is nothing to lose.
LEMMA RequestEnds ==
    ASSUME RequestInv, ~should_run', should_cancel', UNCHANGED <<list_enable, list_disable, asked>>
    PROVE  RequestInv'
BY DEF RequestInv, NoLostRequest, NoLostCancel, EndingIsVisible, ListsAreLast

\* The lists were emptied, by a start or by event_notice.
LEMMA RequestEmpty ==
    ASSUME list_enable' = {}, list_disable' = {}, list_reset' = {}, asked' = NothingAsked,
           ~should_run' => should_cancel',
           alive' /\ should_cancel' /\ should_run' =>
               notice' \/ \E c \in Callers : cpc'[c] = "stop_notice"
    PROVE  RequestInv'
BY DEF RequestInv, NoLostRequest, NoLostCancel, EndingIsVisible, ListsAreLast, NothingAsked

LEMMA EnlistLast ==
    ASSUME ListsOK, ListsAreLast, NEW op \in Requests, NEW s \in Streams, Enlist(op, s)
    PROVE  ListsAreLast'
<1>1. op \in {"enable", "disable", "reset"}
  BY BoundsAssumption DEF AllRequests
<1>2. read_fd[s] \in Fds
  BY ReadFdKnown
<1>3. asked \in [Fds -> {"none", "enable", "disable"}]
  BY DEF ListsOK
<1>4. CASE op = "enable"
  BY <1>2, <1>3, <1>4 DEF ListsAreLast, Enlist, Ask
<1>5. CASE op = "disable"
  BY <1>2, <1>3, <1>5 DEF ListsAreLast, Enlist, Ask
<1>6. CASE op = "reset"
  BY <1>6 DEF ListsAreLast, Enlist, Ask
<1>. QED BY <1>1, <1>4, <1>5, <1>6

\* Only poll () and stop_poll () change their caller's state when a step ends.
LEMMA StepReturnsKeepsCallers ==
    ASSUME TypeOK, NEW more, StepReturns(more)
    PROVE  \A c \in Callers : cpc[c] \in {"notify", "stop_notice"} => cpc'[c] = cpc[c]
BY CallersAssumption DEF StepReturns, Polling, TypeOK

LEMMA RequestStep ==
    ASSUME IInv, [Next]_vars
    PROVE  RequestInv'
<1>. TypeOK /\ RequestInv
  BY DEF IInv
<1>1. CASE UNCHANGED vars
  BY <1>1, RequestFrame DEF vars, control, memory, engine, ListLocked
<1>2. ASSUME NEW c \in Callers, CallerStep(c) \/ CallerCalls(c)
      PROVE  RequestInv'
  <2>1. CASE StopNotice(c)
    BY <2>1, CallersAssumption DEF StopNotice, RequestInv, NoLostRequest, NoLostCancel, EndingIsVisible, ListsAreLast, TypeOK, lists, memory, engine, ListLocked
  <2>2. CASE issue_notice(c)
    BY <2>2, CallersAssumption DEF issue_notice, RequestInv, NoLostRequest, NoLostCancel, EndingIsVisible, ListsAreLast, TypeOK, lists, memory, engine, ListLocked
  <2>3. CASE Join(c)
    BY <2>3, RequestEnds DEF Join, Cancel, lists
  <2>4. CASE start_thread(c)
    <3>1. list_enable' = {} /\ list_disable' = {} /\ list_reset' = {} /\ asked' = NothingAsked
      BY <2>4 DEF start_thread, InitCommon
    <3>2. \/ should_run' = TRUE /\ should_cancel' = FALSE
          \/ should_run' = FALSE /\ should_cancel' = TRUE
      BY <2>4 DEF start_thread, InitSucceeds, InitMissesSource, InitThrows, Error
    <3>. QED BY <3>1, <3>2, RequestEmpty
  <2>5. CASE stop_thread(c)
    BY <2>5, CallersAssumption DEF stop_thread, RequestInv, NoLostRequest, NoLostCancel, EndingIsVisible, ListsAreLast, TypeOK, lists, memory, engine, ListLocked
  <2>6. ASSUME NEW op \in Requests, NEW s \in Streams, Request(c, op, s)
        PROVE  RequestInv'
    <3>1. ListsAreLast'
      BY <2>6, EnlistLast DEF Request, RequestInv, TypeOK
    <3>2. cpc'[c] = "notify" /\ ~should_cancel' /\ should_run' = should_run
      BY <2>6 DEF Request, TypeOK, control
    <3>3. NoLostRequest'
      BY <3>2 DEF NoLostRequest
    <3>4. NoLostCancel'
      BY <3>2 DEF NoLostCancel
    <3>5. EndingIsVisible'
      BY <2>6, <3>2 DEF Request, RequestInv, EndingIsVisible
    <3>. QED BY <3>1, <3>3, <3>4, <3>5 DEF RequestInv
  <2>. QED BY <1>2, <2>1, <2>2, <2>3, <2>4, <2>5, <2>6 DEF CallerStep, CallerCalls
<1>3. CASE PollerCalls \/ get_errors
  <2>1. CASE start_poll
    <3>1. list_enable' = {} /\ list_disable' = {} /\ list_reset' = {} /\ asked' = NothingAsked
      BY <2>1 DEF start_poll, InitCommon
    <3>2. \/ should_run' = TRUE /\ should_cancel' = FALSE
          \/ should_run' = FALSE /\ should_cancel' = TRUE
      BY <2>1 DEF start_poll, InitSucceeds, InitMissesSource, InitThrows, Error
    <3>. QED BY <3>1, <3>2, RequestEmpty
  <2>2. CASE poll
    <3>1. epc = "none"
      BY <2>2 DEF poll, IInv, RunnerInv, EngineHasState, Polling, StopPolling
    <3>2. \A c \in Callers : cpc[c] \in {"notify", "stop_notice"} => cpc'[c] = cpc[c]
      BY <2>2, CallersAssumption DEF poll, TypeOK
    <3>. QED BY <2>2, <3>1, <3>2, RequestFrame DEF poll, control, memory, ListLocked
  <2>3. CASE stop_poll
    BY <2>3 DEF stop_poll, RequestInv, NoLostRequest, NoLostCancel, EndingIsVisible, ListsAreLast, lists
  <2>4. CASE get_errors
    BY <2>4, RequestFrame DEF get_errors, control, memory, engine, ListLocked
  <2>. QED BY <1>3, <2>1, <2>2, <2>3, <2>4 DEF PollerCalls
<1>4. CASE EngineStep
  <2>1. CASE EpollWait
    BY <2>1, RequestFrame DEF EpollWait, control, memory, engine, ListLocked
  <2>2. CASE EpollTimesOut
    BY <2>2, RequestFrame, StepReturnsKeepsCallers DEF EpollTimesOut, control, memory, engine, ListLocked
  <2>3. CASE EpollFails
    BY <2>3, RequestEnds DEF EpollFails, Cancel, lists
  <2>4. CASE HandleUsb
    BY <2>4, RequestFrame DEF HandleUsb, Handle, control, memory, engine, ListLocked
  <2>5. CASE event_timer
    <3>1. CASE Error
      BY <2>5, <3>1, RequestEnds DEF event_timer, Error, lists
    <3>2. CASE UNCHANGED control
      BY <2>5, <3>2, RequestFrame DEF event_timer, control, memory, engine, ListLocked
    <3>. QED BY <2>5, <3>1, <3>2 DEF event_timer
  <2>6. CASE event_notice
    BY <2>6 DEF event_notice, Handle, RequestInv, NoLostRequest, NoLostCancel, EndingIsVisible, ListsAreLast, lists, memory, ListLocked, TypeOK, ControlOK
  <2>7. ASSUME NEW src \in OwnSources, EventReadFails(src)
        PROVE  RequestInv'
    BY <2>7, RequestEnds DEF EventReadFails, Error, lists
  <2>8. ASSUME NEW fd \in WriteFds, HandleFd(fd)
        PROVE  RequestInv'
    BY <2>8, RequestFrame DEF HandleFd, Handle, control, memory, engine, ListLocked
  <2>9. ASSUME NEW fd \in WriteFds, HandleFdThrows(fd)
        PROVE  RequestInv'
    BY <2>9, RequestEnds DEF HandleFdThrows, StepThrows, lists
  <2>10. CASE HandleUsbReturns
    BY <2>10, RequestFrame DEF HandleUsbReturns, control, memory, engine, ListLocked
  <2>11. CASE HandleUsbFails
    BY <2>11, RequestEnds DEF HandleUsbFails, StepThrows, lists
  <2>12. CASE ApplyLists
    BY <2>12, RequestEmpty DEF ApplyLists, RequestInv, NoLostRequest, NoLostCancel, EndingIsVisible, ListsAreLast, control, memory
  <2>13. CASE ResetThrows
    BY <2>13, RequestEnds DEF ResetThrows, StepThrows, lists
  <2>14. CASE EnableThrows
    BY <2>14, RequestEnds DEF EnableThrows, StepThrows, lists
  <2>15. CASE StepDone
    BY <2>15, RequestFrame, StepReturnsKeepsCallers DEF StepDone, control, memory, engine, ListLocked
  <2>16. CASE ShutdownReset
    BY <2>16, RequestFrame DEF ShutdownReset, control, memory, engine, ListLocked
  <2>17. CASE ShutdownCancel
    BY <2>17, RequestFrame, StepReturnsKeepsCallers DEF ShutdownCancel, control, memory, engine, ListLocked
  <2>18. CASE process_cleanup
    BY <2>18, RequestEnds DEF process_cleanup, Cancel, lists
  <2>19. ASSUME NEW t \in Transfers, CallbackEnds(t)
        PROVE  RequestInv'
    <3>1. ListLocked => ListLocked'
      BY <2>19 DEF CallbackEnds, InCallback, HandlesEvents, ListLocked
    <3>2. CASE Cancel
      BY <2>19, <3>2, RequestEnds DEF CallbackEnds, InCallback, Cancel, lists
    <3>3. CASE UNCHANGED control
      BY <2>19, <3>1, <3>3, RequestFrame DEF CallbackEnds, InCallback, control, memory
    <3>. QED BY <2>19, <3>2, <3>3 DEF CallbackEnds
  <2>20. ASSUME NEW t \in Transfers, read_callback(t)
        PROVE  RequestInv'
    <3>1. ListLocked => ListLocked'
      BY <2>20 DEF read_callback, Served, InCallback, HandlesEvents, ListLocked
    <3>. QED BY <2>20, <3>1, RequestFrame DEF read_callback, Served, InCallback, control, memory
  <2>21. ASSUME NEW t \in Transfers, ReadResubmitFails(t)
        PROVE  RequestInv'
    BY <2>21, RequestEnds DEF ReadResubmitFails, Served, InCallback, Error, lists
  <2>22. ASSUME NEW t \in Transfers, ReadFails(t)
        PROVE  RequestInv'
    BY <2>22, RequestEnds DEF ReadFails, Served, InCallback, Error, lists
  <2>23. ASSUME NEW t \in Transfers, write_callback(t)
        PROVE  RequestInv'
    <3>1. ListLocked => ListLocked'
      BY <2>23 DEF write_callback, Served, InCallback, HandlesEvents, ListLocked
    <3>. QED BY <2>23, <3>1, RequestFrame DEF write_callback, Served, InCallback, control, memory
  <2>24. ASSUME NEW t \in Transfers, WriteResubmitFails(t)
        PROVE  RequestInv'
    BY <2>24, RequestEnds DEF WriteResubmitFails, Served, InCallback, Error, lists
  <2>25. ASSUME NEW t \in Transfers, CallbackCallsOut(t)
        PROVE  RequestInv'
    BY <2>25, RequestFrame DEF CallbackCallsOut, HandlesEvents, control, memory, engine, ListLocked
  <2>26. ASSUME NEW op \in Requests, NEW s \in Streams, CallbackRequest(op, s)
        PROVE  RequestInv'
    <3>1. CASE should_cancel
      BY <2>26, <3>1, RequestFrame DEF CallbackRequest, memory, ListLocked
    <3>2. CASE ~should_cancel
      <4>1. ListsAreLast'
        BY <2>26, <3>2, EnlistLast DEF CallbackRequest, RequestInv, TypeOK
      <4>. QED BY <2>26, <3>2, <4>1 DEF CallbackRequest, RequestInv, NoLostRequest, NoLostCancel, EndingIsVisible, ListsAreLast
    <3>. QED BY <3>1, <3>2
  <2>. QED BY <1>4, <2>1, <2>2, <2>3, <2>4, <2>5, <2>6, <2>7, <2>8, <2>9, <2>10, <2>11, <2>12, <2>13, <2>14, <2>15, <2>16, <2>17, <2>18, <2>19, <2>20, <2>21, <2>22, <2>23, <2>24, <2>25, <2>26 DEF EngineStep, Dispatch, Callback
<1>5. CASE Environment
  <2>1. CASE Tick
    BY <2>1, RequestFrame DEF Tick, control, memory, engine, ListLocked
  <2>2. ASSUME NEW s \in Streams, AppWrite(s)
        PROVE  RequestInv'
    BY <2>2, RequestFrame DEF AppWrite, control, memory, engine, ListLocked
  <2>3. ASSUME NEW t \in Transfers, NEW status \in Returned, NEW data \in BOOLEAN,
               UsbDone(t, status, data)
        PROVE  RequestInv'
    BY <2>3, RequestFrame DEF UsbDone, control, memory, engine, ListLocked
  <2>. QED BY <1>5, <2>1, <2>2, <2>3 DEF Environment
<1>. QED BY <1>1, <1>2, <1>3, <1>4, <1>5 DEF Next

\* Only the end of event_notice takes the engine from the lists to the rest of
\* its batch.
LEMMA ServesLists ==
    ASSUME IInv, [Next]_vars, epc = "reset", epc' = "batch"
    PROVE  ApplyLists
<1>1. ~UNCHANGED vars
  BY DEF vars, engine
<1>2. ASSUME NEW c \in Callers, CallerStep(c) \/ CallerCalls(c)
      PROVE  FALSE
  BY <1>2 DEF CallerStep, CallerCalls, StopNotice, issue_notice, Join, start_thread, stop_thread,
              Request, CanStart, InitCommon, engine
<1>3. ~(PollerCalls \/ get_errors)
  BY DEF PollerCalls, start_poll, poll, stop_poll, get_errors, InitCommon, engine
<1>4. ~Environment
  BY DEF Environment, Tick, AppWrite, UsbDone, engine
<1>5. ~Dispatch
  BY DEF Dispatch, HandleUsb, event_timer, event_notice, EventReadFails, HandleFd, HandleFdThrows, Handle
<1>6. ASSUME NEW t \in Transfers, Callback(t)
      PROVE  FALSE
  BY <1>6 DEF Callback, CallbackEnds, read_callback, ReadResubmitFails, ReadFails, write_callback,
              WriteResubmitFails, CallbackCallsOut, Served, InCallback
<1>7. ASSUME NEW op \in Requests, NEW s \in Streams, CallbackRequest(op, s)
      PROVE  FALSE
  BY <1>7 DEF CallbackRequest
<1>8. ApplyLists \/ ResetThrows \/ EnableThrows
  BY <1>1, <1>2, <1>3, <1>4, <1>5, <1>6, <1>7
     DEF Next, EngineStep, EpollWait, EpollTimesOut, EpollFails, HandleUsbReturns, HandleUsbFails,
         StepDone, ShutdownReset, ShutdownCancel, process_cleanup
<1>. QED BY <1>8 DEF ResetThrows, EnableThrows, StepThrows

-----------------------------------------------------------------------------
(* A shutdown that is not forced gets every transfer back.                 *)

LEMMA GracefulStep ==
    ASSUME IInv, [Next]_vars
    PROVE  GracefulEnd'
<1>. TypeOK /\ GracefulEnd
  BY DEF IInv
<1>0. CallbackPending
  BY DEF IInv, TransferInv, PhaseInv
<1>1. CASE UNCHANGED vars
  BY <1>1 DEF vars, GracefulEnd, transfers, engine
<1>2. ASSUME NEW c \in Callers, CallerStep(c) \/ CallerCalls(c)
      PROVE  GracefulEnd'
  <2>1. CASE StopNotice(c)
    BY <2>1 DEF StopNotice, GracefulEnd, transfers, engine
  <2>2. CASE issue_notice(c)
    BY <2>2 DEF issue_notice, GracefulEnd, transfers, engine
  <2>3. CASE Join(c)
    BY <2>3 DEF Join, GracefulEnd, transfers, engine
  <2>4. CASE start_thread(c)
    <3>1. epc # "cleanup"
      BY <2>4 DEF start_thread, CanStart, IInv, RunnerInv, EngineHasState
    <3>. QED BY <2>4, <3>1 DEF start_thread, GracefulEnd
  <2>5. CASE stop_thread(c)
    BY <2>5 DEF stop_thread, GracefulEnd, transfers, engine
  <2>6. ASSUME NEW op \in Requests, NEW s \in Streams, Request(c, op, s)
        PROVE  GracefulEnd'
    BY <2>6 DEF Request, GracefulEnd, transfers, engine
  <2>. QED BY <1>2, <2>1, <2>2, <2>3, <2>4, <2>5, <2>6 DEF CallerStep, CallerCalls
<1>3. CASE PollerCalls \/ get_errors
  <2>1. CASE start_poll
    <3>1. epc # "cleanup"
      BY <2>1 DEF start_poll, CanStart, IInv, RunnerInv, EngineHasState
    <3>. QED BY <2>1, <3>1 DEF start_poll, GracefulEnd
  <2>2. CASE poll
    BY <2>2 DEF poll, GracefulEnd
  <2>3. CASE stop_poll
    BY <2>3 DEF stop_poll, GracefulEnd
  <2>4. CASE get_errors
    BY <2>4 DEF get_errors, GracefulEnd, transfers, engine
  <2>. QED BY <1>3, <2>1, <2>2, <2>3, <2>4 DEF PollerCalls
<1>4. CASE EngineStep
  <2>1. CASE EpollWait
    BY <2>1 DEF EpollWait, GracefulEnd
  <2>2. CASE EpollTimesOut
    BY <2>2 DEF EpollTimesOut, StepReturns, GracefulEnd
  <2>3. CASE EpollFails
    <3>1. faults' # MaxFaults
      BY <2>3, BoundsAssumption DEF EpollFails, SubmitFailsAt, Fault, TypeOK
    <3>. QED BY <3>1 DEF GracefulEnd
  <2>4. CASE HandleUsb
    BY <2>4 DEF HandleUsb, GracefulEnd
  <2>5. CASE event_timer
    BY <2>5 DEF event_timer, Handle, GracefulEnd
  <2>6. CASE event_notice
    BY <2>6 DEF event_notice, GracefulEnd
  <2>7. ASSUME NEW src \in OwnSources, EventReadFails(src)
        PROVE  GracefulEnd'
    BY <2>7 DEF EventReadFails, Handle, GracefulEnd
  <2>8. ASSUME NEW fd \in WriteFds, HandleFd(fd)
        PROVE  GracefulEnd'
    BY <2>8 DEF HandleFd, Handle, GracefulEnd
  <2>9. ASSUME NEW fd \in WriteFds, HandleFdThrows(fd)
        PROVE  GracefulEnd'
    <3>1. faults' # MaxFaults
      BY <2>9, BoundsAssumption DEF HandleFdThrows, SubmitFailsAt, Fault, TypeOK
    <3>. QED BY <3>1 DEF GracefulEnd
  <2>10. CASE HandleUsbReturns
    BY <2>10 DEF HandleUsbReturns, GracefulEnd
  <2>11. CASE HandleUsbFails
    <3>1. faults' # MaxFaults
      BY <2>11, BoundsAssumption DEF HandleUsbFails, SubmitFailsAt, Fault, TypeOK
    <3>. QED BY <3>1 DEF GracefulEnd
  <2>12. CASE ApplyLists
    BY <2>12 DEF ApplyLists, GracefulEnd
  <2>13. CASE ResetThrows
    <3>1. faults' # MaxFaults
      BY <2>13, BoundsAssumption DEF ResetThrows, SubmitFailsAt, Fault, TypeOK
    <3>. QED BY <3>1 DEF GracefulEnd
  <2>14. CASE EnableThrows
    <3>1. faults' # MaxFaults
      BY <2>14, BoundsAssumption DEF EnableThrows, SubmitFailsAt, Fault, TypeOK
    <3>. QED BY <3>1 DEF GracefulEnd
  <2>15. CASE StepDone
    BY <2>15 DEF StepDone, StepReturns, GracefulEnd
  <2>16. CASE ShutdownReset
    BY <2>16 DEF ShutdownReset, GracefulEnd
  <2>17. CASE ShutdownCancel
    <3>1. CASE epc' = "cleanup" /\ cancel_counter' >= 0
      <4>1. cancel_counter > 0
        BY <2>17, <3>1 DEF ShutdownCancel, TypeOK
      <4>2. \A t \in Transfers : ~enabled[t]
        BY <2>17, <3>1, <4>1 DEF ShutdownCancel, StepReturns
      <4>3. \A t \in Transfers : usb[t] = "idle"
        BY <4>2 DEF IInv, TransferInv, FlightInv, InFlightIsEnabled
      <4>. QED BY <2>17, <4>3, CancelKeepsFlight DEF ShutdownCancel, GracefulEnd
    <3>. QED BY <3>1 DEF GracefulEnd
  <2>18. CASE process_cleanup
    BY <2>18 DEF process_cleanup, GracefulEnd
  <2>19. ASSUME NEW t \in Transfers, CallbackEnds(t)
        PROVE  GracefulEnd'
    <3>1. epc' # "cleanup"
      BY <2>19, <1>0 DEF CallbackEnds, InCallback, HandlesEvents, CallbackPending
    <3>. QED BY <3>1 DEF GracefulEnd
  <2>20. ASSUME NEW t \in Transfers, read_callback(t)
        PROVE  GracefulEnd'
    <3>1. epc' # "cleanup"
      BY <2>20, <1>0 DEF read_callback, Served, InCallback, HandlesEvents, CallbackPending
    <3>. QED BY <3>1 DEF GracefulEnd
  <2>21. ASSUME NEW t \in Transfers, ReadResubmitFails(t)
        PROVE  GracefulEnd'
    <3>1. epc' # "cleanup"
      BY <2>21, <1>0 DEF ReadResubmitFails, Served, InCallback, HandlesEvents, CallbackPending
    <3>. QED BY <3>1 DEF GracefulEnd
  <2>22. ASSUME NEW t \in Transfers, ReadFails(t)
        PROVE  GracefulEnd'
    <3>1. epc' # "cleanup"
      BY <2>22, <1>0 DEF ReadFails, Served, InCallback, HandlesEvents, CallbackPending
    <3>. QED BY <3>1 DEF GracefulEnd
  <2>23. ASSUME NEW t \in Transfers, write_callback(t)
        PROVE  GracefulEnd'
    <3>1. epc' # "cleanup"
      BY <2>23, <1>0 DEF write_callback, Served, InCallback, HandlesEvents, CallbackPending
    <3>. QED BY <3>1 DEF GracefulEnd
  <2>24. ASSUME NEW t \in Transfers, WriteResubmitFails(t)
        PROVE  GracefulEnd'
    <3>1. epc' # "cleanup"
      BY <2>24, <1>0 DEF WriteResubmitFails, Served, InCallback, HandlesEvents, CallbackPending
    <3>. QED BY <3>1 DEF GracefulEnd
  <2>25. ASSUME NEW t \in Transfers, CallbackCallsOut(t)
        PROVE  GracefulEnd'
    BY <2>25 DEF CallbackCallsOut, GracefulEnd
  <2>26. ASSUME NEW op \in Requests, NEW s \in Streams, CallbackRequest(op, s)
        PROVE  GracefulEnd'
    BY <2>26 DEF CallbackRequest, GracefulEnd
  <2>. QED BY <1>4, <2>1, <2>2, <2>3, <2>4, <2>5, <2>6, <2>7, <2>8, <2>9, <2>10, <2>11, <2>12, <2>13, <2>14, <2>15, <2>16, <2>17, <2>18, <2>19, <2>20, <2>21, <2>22, <2>23, <2>24, <2>25, <2>26 DEF EngineStep, Dispatch, Callback
<1>5. CASE Environment
  <2>1. CASE Tick
    BY <2>1 DEF Tick, GracefulEnd, transfers, engine
  <2>2. ASSUME NEW s \in Streams, AppWrite(s)
        PROVE  GracefulEnd'
    BY <2>2 DEF AppWrite, GracefulEnd, transfers, engine
  <2>3. ASSUME NEW t \in Transfers, NEW status \in Returned, NEW data \in BOOLEAN,
               UsbDone(t, status, data)
        PROVE  GracefulEnd'
    <3>1. cancel_counter' = cancel_counter /\ epc' = epc /\ usb[t] # "idle"
      BY <2>3 DEF UsbDone, engine
    <3>2. faults' = MaxFaults => faults = MaxFaults
      BY <2>3, BoundsAssumption DEF UsbDone, Fault, TypeOK
    <3>. QED BY <3>1, <3>2 DEF GracefulEnd
  <2>. QED BY <1>5, <2>1, <2>2, <2>3 DEF Environment
<1>. QED BY <1>1, <1>2, <1>3, <1>4, <1>5 DEF Next

-----------------------------------------------------------------------------
(* The activity timeout.                                                   *)

\* The clock is looked at only in event_timer, which ends the engine when the
\* last activity is too old; activity only moves forward to ts_now.
LEMMA WatchdogFrame ==
    ASSUME Watchdog, UNCHANGED <<ts_now, ts_activity>>, alive' => alive, should_run' => should_run
    PROVE  Watchdog'
BY DEF Watchdog

LEMMA WatchdogEnds ==
    ASSUME ~should_run'
    PROVE  Watchdog'
BY DEF Watchdog

LEMMA WatchdogStep ==
    ASSUME IInv, [Next]_vars
    PROVE  Watchdog'
<1>. TypeOK /\ Watchdog
  BY DEF IInv
<1>1. CASE UNCHANGED vars
  BY <1>1, WatchdogFrame DEF vars, control, memory, times
<1>2. ASSUME NEW c \in Callers, CallerStep(c) \/ CallerCalls(c)
      PROVE  Watchdog'
  <2>1. CASE StopNotice(c)
    BY <2>1, WatchdogFrame DEF StopNotice, control, memory, times
  <2>2. CASE issue_notice(c)
    BY <2>2, WatchdogFrame DEF issue_notice, control, memory, times
  <2>3. CASE Join(c)
    BY <2>3, WatchdogFrame DEF Join, Cancel, control, memory, times
  <2>4. CASE start_thread(c)
    BY <2>4, BoundsAssumption DEF start_thread, InitCommon, Watchdog, TypeOK, TimesOK
  <2>5. CASE stop_thread(c)
    BY <2>5, WatchdogFrame DEF stop_thread, control, memory, times
  <2>6. ASSUME NEW op \in Requests, NEW s \in Streams, Request(c, op, s)
        PROVE  Watchdog'
    BY <2>6, WatchdogFrame DEF Request, control, memory, times
  <2>. QED BY <1>2, <2>1, <2>2, <2>3, <2>4, <2>5, <2>6 DEF CallerStep, CallerCalls
<1>3. CASE PollerCalls \/ get_errors
  <2>1. CASE start_poll
    BY <2>1, BoundsAssumption DEF start_poll, InitCommon, Watchdog, TypeOK, TimesOK
  <2>2. CASE poll
    BY <2>2, WatchdogFrame DEF poll, control, memory, times
  <2>3. CASE stop_poll
    BY <2>3, WatchdogFrame DEF stop_poll, control, memory, times
  <2>4. CASE get_errors
    BY <2>4, WatchdogFrame DEF get_errors, control, memory, times
  <2>. QED BY <1>3, <2>1, <2>2, <2>3, <2>4 DEF PollerCalls
<1>4. CASE EngineStep
  <2>1. CASE EpollWait
    BY <2>1, WatchdogFrame DEF EpollWait, control, memory, times
  <2>2. CASE EpollTimesOut
    BY <2>2, WatchdogFrame DEF EpollTimesOut, control, memory, times
  <2>3. CASE EpollFails
    BY <2>3, WatchdogFrame DEF EpollFails, Cancel, control, memory, times
  <2>4. CASE HandleUsb
    BY <2>4, WatchdogFrame DEF HandleUsb, control, memory, times
  <2>5. CASE event_timer
    <3>1. CASE timeout # 0 /\ ts_activity + timeout < clock
      BY <2>5, <3>1, WatchdogEnds DEF event_timer, Error
    <3>2. CASE timeout # 0 /\ ~(ts_activity + timeout < clock)
      BY <2>5, <3>2, BoundsAssumption DEF event_timer, Watchdog, TypeOK, TimesOK
    <3>3. CASE timeout = 0
      BY <2>5, <3>3 DEF Watchdog
    <3>. QED BY <3>1, <3>2, <3>3
  <2>6. CASE event_notice
    BY <2>6, WatchdogFrame DEF event_notice, control, memory, times
  <2>7. ASSUME NEW src \in OwnSources, EventReadFails(src)
        PROVE  Watchdog'
    BY <2>7, WatchdogFrame DEF EventReadFails, Error, control, memory, times
  <2>8. ASSUME NEW fd \in WriteFds, HandleFd(fd)
        PROVE  Watchdog'
    BY <2>8, WatchdogFrame DEF HandleFd, control, memory, times
  <2>9. ASSUME NEW fd \in WriteFds, HandleFdThrows(fd)
        PROVE  Watchdog'
    BY <2>9, WatchdogFrame DEF HandleFdThrows, StepThrows, control, memory, times
  <2>10. CASE HandleUsbReturns
    BY <2>10, WatchdogFrame DEF HandleUsbReturns, control, memory, times
  <2>11. CASE HandleUsbFails
    BY <2>11, WatchdogFrame DEF HandleUsbFails, StepThrows, control, memory, times
  <2>12. CASE ApplyLists
    BY <2>12, WatchdogFrame DEF ApplyLists, control, memory, times
  <2>13. CASE ResetThrows
    BY <2>13, WatchdogFrame DEF ResetThrows, StepThrows, control, memory, times
  <2>14. CASE EnableThrows
    BY <2>14, WatchdogFrame DEF EnableThrows, StepThrows, control, memory, times
  <2>15. CASE StepDone
    BY <2>15, WatchdogFrame DEF StepDone, control, memory, times
  <2>16. CASE ShutdownReset
    BY <2>16, WatchdogFrame DEF ShutdownReset, control, memory, times
  <2>17. CASE ShutdownCancel
    BY <2>17, WatchdogFrame DEF ShutdownCancel, control, memory, times
  <2>18. CASE process_cleanup
    BY <2>18, WatchdogFrame DEF process_cleanup, Cancel, control, memory, times
  <2>19. ASSUME NEW t \in Transfers, CallbackEnds(t)
        PROVE  Watchdog'
    BY <2>19, WatchdogFrame DEF CallbackEnds, InCallback, Cancel, control, memory, times
  <2>20. ASSUME NEW t \in Transfers, read_callback(t)
        PROVE  Watchdog'
    <3>1. ts_now' = ts_now /\ ts_activity' \in {ts_now, ts_activity}
      BY <2>20 DEF read_callback, Activity
    <3>2. alive' = alive /\ should_run' = should_run
      BY <2>20 DEF read_callback, Served, InCallback, control, memory
    <3>3. timeout \in Nat /\ ts_now \in Nat /\ ts_activity \in Nat
      BY BoundsAssumption DEF TypeOK, TimesOK
    <3>5. CASE ts_activity' = ts_activity
      BY <3>2, <3>1, <3>5 DEF Watchdog
    <3>6. CASE ts_activity' = ts_now
      <4>1. ts_now <= ts_now + timeout
        BY <3>3
      <4>. QED BY <3>1, <3>2, <3>6, <4>1 DEF Watchdog
    <3>. QED BY <3>1, <3>5, <3>6
  <2>21. ASSUME NEW t \in Transfers, ReadResubmitFails(t)
        PROVE  Watchdog'
    BY <2>21, WatchdogEnds DEF ReadResubmitFails, Error
  <2>22. ASSUME NEW t \in Transfers, ReadFails(t)
        PROVE  Watchdog'
    BY <2>22, WatchdogFrame DEF ReadFails, Served, InCallback, Error, control, memory, times
  <2>23. ASSUME NEW t \in Transfers, write_callback(t)
        PROVE  Watchdog'
    BY <2>23, WatchdogFrame DEF write_callback, Served, InCallback, control, memory, times
  <2>24. ASSUME NEW t \in Transfers, WriteResubmitFails(t)
        PROVE  Watchdog'
    BY <2>24, WatchdogFrame DEF WriteResubmitFails, Served, InCallback, Error, control, memory, times
  <2>25. ASSUME NEW t \in Transfers, CallbackCallsOut(t)
        PROVE  Watchdog'
    BY <2>25, WatchdogFrame DEF CallbackCallsOut, control, memory, times
  <2>26. ASSUME NEW op \in Requests, NEW s \in Streams, CallbackRequest(op, s)
        PROVE  Watchdog'
    BY <2>26, WatchdogFrame DEF CallbackRequest, control, memory, times
  <2>. QED BY <1>4, <2>1, <2>2, <2>3, <2>4, <2>5, <2>6, <2>7, <2>8, <2>9, <2>10, <2>11, <2>12, <2>13, <2>14, <2>15, <2>16, <2>17, <2>18, <2>19, <2>20, <2>21, <2>22, <2>23, <2>24, <2>25, <2>26 DEF EngineStep, Dispatch, Callback
<1>5. CASE Environment
  <2>1. CASE Tick
    BY <2>1, WatchdogFrame DEF Tick, control, memory, times
  <2>2. ASSUME NEW s \in Streams, AppWrite(s)
        PROVE  Watchdog'
    BY <2>2, WatchdogFrame DEF AppWrite, control, memory, times
  <2>3. ASSUME NEW t \in Transfers, NEW status \in Returned, NEW data \in BOOLEAN,
               UsbDone(t, status, data)
        PROVE  Watchdog'
    BY <2>3, WatchdogFrame DEF UsbDone, control, memory, times
  <2>. QED BY <1>5, <2>1, <2>2, <2>3 DEF Environment
<1>. QED BY <1>1, <1>2, <1>3, <1>4, <1>5 DEF Next
-----------------------------------------------------------------------------
(* The theorems.                                                           *)

LEMMA InitInvariant == Init => IInv
<1>. SUFFICES ASSUME Init PROVE IInv
  OBVIOUS
<1>1. ControlOK /\ ListsOK /\ ModesOK
  <2>1. ControlOK
    <3>1. errors \in 0..ErrorCapacity
      <4>1. errors = 0
        BY DEF Init
      <4>. QED BY <4>1, BoundsAssumption
    <3>2. /\ should_run \in BOOLEAN /\ should_cancel \in BOOLEAN
          /\ notice \in BOOLEAN /\ explained \in BOOLEAN
      BY DEF Init
    <3>. QED BY <3>1, <3>2 DEF ControlOK
  <2>2. ListsOK
    BY DEF ListsOK, Init, NothingAsked
  <2>3. ModesOK
    <3>1. starts \in 0..MaxStarts
      <4>1. starts = MaxStarts
        BY DEF Init
      <4>. QED BY <4>1, BoundsAssumption
    <3>2. /\ is_started_thr \in BOOLEAN /\ is_started_poll \in BOOLEAN
          /\ mutex \in Callers \cup {NoOne}
      BY DEF Init
    <3>. QED BY <3>1, <3>2 DEF ModesOK
  <2>. QED BY <2>1, <2>2, <2>3
<1>2. TransfersOK /\ MemoryOK /\ EngineOK /\ TimesOK /\ AppOK
  <2>1. TransfersOK /\ MemoryOK
    BY DEF TransfersOK, MemoryOK, UsbStates, Init
  <2>2. EngineOK
    <3>1. epc = "none" /\ batch = {} /\ cb = 0 /\ cbfrom = "none"
      BY DEF Init
    <3>2. 0 \in 0..NumTransfers
      BY TransfersAssumption
    <3>. QED BY <3>1, <3>2 DEF EngineOK, EnginePCs
  <2>3. TimesOK
    <3>1. timer = FALSE /\ clock = 0 /\ ts_now = 0 /\ ts_activity = 0
      BY DEF Init
    <3>2. 0 \in 0..MaxClock
      BY BoundsAssumption
    <3>. QED BY <3>1, <3>2 DEF TimesOK
  <2>4. AppOK
    BY DEF AppOK, Init
  <2>. QED BY <2>1, <2>2, <2>3, <2>4
<1>3. TypeOK
  <2>1. cpc \in [Callers -> CallerPCs]
    BY DEF Init, CallerPCs
  <2>2. cancel_counter \in -1..CancelLoops /\ faults \in 0..MaxFaults
    <3>1. cancel_counter = CancelLoops /\ faults = MaxFaults
      BY DEF Init
    <3>. QED BY <3>1, BoundsAssumption
  <2>. QED BY <1>1, <1>2, <2>1, <2>2 DEF TypeOK
<1>4. RunnerInv
  BY CallersAssumption DEF Init, RunnerInv, EngineHasState, StopHoldsMutex, Polling, StopPolling
<1>5. TransferInv
  BY DEF Init, TransferInv, FlightInv, InFlightIsEnabled, EnabledIsInFlight, WriterHasData, PhaseInv,
         CallbackPending
<1>6. RequestInv /\ GracefulEnd /\ Watchdog
  BY DEF Init, RequestInv, NoLostRequest, NoLostCancel, EndingIsVisible, ListsAreLast, NothingAsked, GracefulEnd,
         Watchdog
<1>. QED BY <1>3, <1>4, <1>5, <1>6 DEF IInv

LEMMA NextInvariant == IInv /\ [Next]_vars => IInv'
<1>. SUFFICES ASSUME IInv, [Next]_vars PROVE IInv'
  OBVIOUS
<1>1. TypeOK /\ WriterHasData /\ CallbackPending
  BY DEF IInv, TransferInv, FlightInv, PhaseInv
<1>2. TypeOK'
  BY <1>1, TypeStep
<1>. QED BY <1>2, RunnerStep, FlightStep, PhaseStep, RequestStep, GracefulStep, WatchdogStep
     DEF IInv, TransferInv

\* The inductive invariant holds in every reachable state of FtdiStream.
THEOREM Invariance == Spec => []IInv
<1>. QED BY InitInvariant, NextInvariant, PTL DEF Spec

\* Every variable keeps its type: no underflow of the application's write
\* queues, no error queue beyond its capacity.
THEOREM TypeCorrect == Spec => []TypeOK
<1>1. IInv => TypeOK
  BY DEF IInv
<1>. QED BY <1>1, Invariance, PTL

\* submit () is never called on a transfer libusb owns, no returned transfer is
\* dropped by its callback, none is enabled but forgotten, and a write transfer
\* in flight is backed by data the application still holds (FtdiStreamStatic.cpp,
\* submit, read_callback, write_callback).
THEOREM TransfersAccounted ==
    Spec => [](InFlightIsEnabled /\ EnabledIsInFlight /\ WriterHasData)
<1>1. IInv => InFlightIsEnabled /\ EnabledIsInFlight /\ WriterHasData
  BY DEF IInv, TransferInv, FlightInv
<1>. QED BY <1>1, Invariance, PTL

\* No request and no stop is lost between a caller's list or flag and the
\* engine's wake-up; the lists hold the last request for each descriptor; an
\* ending engine is seen to be ending (FtdiStream.cpp, event_notice).
THEOREM RequestsReach ==
    Spec => [](NoLostRequest /\ NoLostCancel /\ ListsAreLast /\ EndingIsVisible)
<1>1. IInv => NoLostRequest /\ NoLostCancel /\ ListsAreLast /\ EndingIsVisible
  BY DEF IInv, RequestInv
<1>. QED BY <1>1, Invariance, PTL

\* event_notice serves the last of enable_reading and disable_reading, whoever
\* made the ones before it: nothing enabled stays behind, nothing disabled stays
\* in flight (FtdiStream.cpp, enable_reading, disable_reading, event_notice).
THEOREM LastRequestCounts == Spec => LastRequestWins
<1>1. ASSUME IInv, IInv', [Next]_vars
      PROVE  [epc = "reset" /\ epc' = "batch" /\ should_run =>
                \A t \in {u \in Transfers : is_reading[u]} :
                   /\ asked[eventfd[t]] = "enable" =>
                          enabled'[t] /\ usb'[t] = IF usb[t] = "idle" THEN "inflight" ELSE usb[t]
                   /\ asked[eventfd[t]] = "disable" => usb'[t] # "inflight"]_vars
  <2>. SUFFICES ASSUME epc = "reset", epc' = "batch", should_run,
                       NEW t \in Transfers, is_reading[t]
                PROVE  /\ asked[eventfd[t]] = "enable" =>
                              enabled'[t] /\ usb'[t] = IF usb[t] = "idle" THEN "inflight" ELSE usb[t]
                       /\ asked[eventfd[t]] = "disable" => usb'[t] # "inflight"
    OBVIOUS
  <2>1. ApplyLists
    BY <1>1, ServesLists
  <2>2. /\ usb[t] # "idle" => enabled[t]
        /\ enabled[t] => usb[t] # "idle"
    BY <1>1 DEF IInv, TransferInv, FlightInv, InFlightIsEnabled, EnabledIsInFlight, RunnerInv, EngineHasState
  <2>3. eventfd[t] \in Fds
    BY DEF Fds
  <2>4. /\ asked[eventfd[t]] = "enable" <=> eventfd[t] \in list_enable
        /\ asked[eventfd[t]] = "disable" <=> eventfd[t] \in list_disable
    BY <1>1, <2>3 DEF IInv, RequestInv, ListsAreLast
  <2>5. PICK S, C :
           /\ S = {u \in Transfers : eventfd[u] \in list_enable /\ ~enabled[u]}
           /\ C = {u \in Transfers : eventfd[u] \in list_disable}
           /\ enabled' = [u \in Transfers |-> IF u \in S
                            THEN ~should_run \/ is_reading[u] \/ wqueue[stream_id[u]] > 0
                            ELSE enabled[u]]
           /\ usb' = [u \in Transfers |->
                        IF u \in S /\ should_run /\ (is_reading[u] \/ wqueue[stream_id[u]] > 0)
                        THEN "inflight" ELSE CancelTransfers(C)[u]]
    BY <2>1, ZenonT(40) DEF ApplyLists, DisabledAt
  <2>6. usb'[t] = IF t \in S THEN "inflight" ELSE CancelTransfers(C)[t]
    BY <2>5
  <2>7. enabled'[t] <=> t \in S \/ enabled[t]
    BY <2>5
  <2>8. CancelTransfers(C)[t] =
            IF t \in C /\ enabled[t] /\ usb[t] = "inflight" THEN "cancelling" ELSE usb[t]
    BY DEF CancelTransfers
  <2>. HIDE DEF eventfd
  <2>9. /\ t \in S <=> asked[eventfd[t]] = "enable" /\ ~enabled[t]
        /\ t \in C <=> asked[eventfd[t]] = "disable"
    BY <2>4, <2>5
  <2>10. CASE asked[eventfd[t]] = "enable"
    BY <2>2, <2>6, <2>7, <2>8, <2>9, <2>10
  <2>11. CASE asked[eventfd[t]] = "disable"
    BY <2>2, <2>6, <2>8, <2>9, <2>11
  <2>. QED BY <2>10, <2>11
<1>. QED BY <1>1, Invariance, PTL DEF Spec, LastRequestWins

\* process_step never runs without streamstates, the two modes exclude each
\* other, and nothing of an engine survives its stop (start_*, stop_*, poll).
THEOREM EngineOwnsState == Spec => []EngineHasState
<1>1. IInv => EngineHasState
  BY DEF IInv, RunnerInv
<1>. QED BY <1>1, Invariance, PTL

\* Without a failure of the environment and without a forced exit, no transfer
\* is in flight when process_cleanup frees them.
THEOREM GracefulShutdown == Spec => []GracefulEnd
<1>1. IInv => GracefulEnd
  BY DEF IInv
<1>. QED BY <1>1, Invariance, PTL

\* A running engine never outlives its activity timeout (event_timer).
THEOREM WatchdogHolds == Spec => []Watchdog
<1>1. IInv => Watchdog
  BY DEF IInv
<1>. QED BY <1>1, Invariance, PTL

-----------------------------------------------------------------------------
(* No silent end.  A CANCELLED status ends the engine, so every            *)
(* cancellation must have a reason, too.                                   *)

QuietInv ==
    /\ list_disable = {}
    /\ alive /\ (~should_run \/ should_cancel) => explained
    /\ \A t \in Transfers : usb[t] \in {"cancelling", "CANCELLED"} => explained

LEMMA QuietFrame ==
    ASSUME QuietInv, UNCHANGED <<list_disable, explained>>, alive' => alive,
           alive' /\ ~should_run' => ~should_run \/ should_cancel \/ explained,
           alive' /\ should_cancel' => ~should_run \/ should_cancel \/ explained,
           \A t \in Transfers : usb'[t] \in {"cancelling", "CANCELLED"} =>
              usb[t] \in {"cancelling", "CANCELLED"}
    PROVE  QuietInv'
BY DEF QuietInv

\* A failure is an explanation.
LEMMA QuietExplained ==
    ASSUME explained', list_disable' = {}
    PROVE  QuietInv'
BY DEF QuietInv

\* A request puts nothing on the disable list.
LEMMA QuietEnlist ==
    ASSUME "disable" \notin Requests, QuietInv, NEW op \in Requests, NEW s, Enlist(op, s)
    PROVE  list_disable' = {}
BY DEF Enlist, QuietInv

LEMMA QuietStart ==
    ASSUME TypeOK, IInv, QuietInv, InitCommon, ~alive,
           \/ InitSucceeds
           \/ \E x \in Sources : InitMissesSource(x)
           \/ \E k \in Nat : InitThrows(k)
    PROVE  QuietInv'
<1>1. list_disable' = {}
  BY DEF InitCommon
<1>2. CASE InitSucceeds
  BY <1>1, <1>2 DEF InitSucceeds, InitTransfers, QuietInv
<1>3. ASSUME NEW x \in Sources, InitMissesSource(x)
      PROVE  QuietInv'
  BY <1>1, <1>3, QuietExplained DEF InitMissesSource, Error
<1>4. ASSUME NEW k \in Nat, InitThrows(k)
      PROVE  QuietInv'
  BY <1>1, <1>4, QuietExplained DEF InitThrows, Error
<1>. QED BY <1>2, <1>3, <1>4

LEMMA QuietSubmit ==
    ASSUME TypeOK, QuietInv, NEW S, Submit(S), UNCHANGED <<control, list_disable, alive>>
    PROVE  QuietInv'
<1>1. \A t \in Transfers : usb'[t] \in {"cancelling", "CANCELLED"} => usb'[t] = usb[t]
  BY DEF Submit
<1>. QED BY <1>1 DEF QuietInv, control

LEMMA QuietStep ==
    ASSUME "disable" \notin Requests, "epoll_wait" \notin FaultKinds, IInv, QuietInv, [Next]_vars
    PROVE  QuietInv'
<1>. TypeOK /\ RunnerInv /\ FlightInv /\ PhaseInv
  BY DEF IInv, TransferInv
<1>0. (epc # "none" => alive) /\ InFlightIsEnabled /\ list_disable = {}
  BY DEF RunnerInv, EngineHasState, FlightInv, QuietInv
<1>1. CASE UNCHANGED vars
  BY <1>1, QuietFrame DEF vars, control, memory, transfers, lists
<1>2. ASSUME NEW c \in Callers, CallerStep(c) \/ CallerCalls(c)
      PROVE  QuietInv'
  <2>1. CASE StopNotice(c)
    BY <2>1, QuietFrame DEF StopNotice, memory, transfers, lists
  <2>2. CASE issue_notice(c)
    BY <2>2, QuietFrame DEF issue_notice, memory, transfers, lists
  <2>3. CASE Join(c)
    <3>1. ~alive
      BY <2>3 DEF Join, RunnerInv
    <3>. QED BY <2>3, <3>1, QuietFrame DEF Join, Cancel, memory, transfers, lists
  <2>4. CASE start_thread(c)
    <3>1. ~alive
      BY <2>4 DEF start_thread, CanStart, RunnerInv, EngineHasState
    <3>. QED BY <2>4, <3>1, QuietStart DEF start_thread
  <2>5. CASE stop_thread(c)
    BY <2>5, <1>0, QuietExplained DEF stop_thread, lists
  <2>6. ASSUME NEW op \in Requests, NEW s \in Streams, Request(c, op, s)
        PROVE  QuietInv'
    <3>1. list_disable' = {}
      BY <2>6, QuietEnlist DEF Request
    <3>. QED BY <2>6, <3>1 DEF Request, QuietInv, control, memory, transfers
  <2>. QED BY <1>2, <2>1, <2>2, <2>3, <2>4, <2>5, <2>6 DEF CallerStep, CallerCalls
<1>3. CASE PollerCalls \/ get_errors
  <2>1. CASE start_poll
    <3>1. ~alive
      BY <2>1 DEF start_poll, CanStart, RunnerInv, EngineHasState
    <3>. QED BY <2>1, <3>1, QuietStart, TransfersAssumption DEF start_poll
  <2>2. CASE poll
    BY <2>2, QuietFrame DEF poll, control, memory, transfers, lists
  <2>3. CASE stop_poll
    BY <2>3, <1>0, QuietExplained DEF stop_poll, lists
  <2>4. CASE get_errors
    BY <2>4, QuietFrame DEF get_errors, memory, transfers, lists
  <2>. QED BY <1>3, <2>1, <2>2, <2>3, <2>4 DEF PollerCalls
<1>4. CASE EngineStep
  <2>1. CASE EpollWait
    BY <2>1, QuietFrame DEF EpollWait, control, memory, transfers, lists
  <2>2. CASE EpollTimesOut
    BY <2>2, QuietFrame DEF EpollTimesOut, control, memory, transfers, lists
  <2>3. CASE EpollFails
    BY <2>3 DEF EpollFails, Fault
  <2>4. CASE HandleUsb
    BY <2>4, QuietFrame DEF HandleUsb, control, memory, transfers, lists
  <2>5. CASE event_timer
    <3>1. CASE Error
      BY <2>5, <3>1, <1>0, QuietExplained DEF event_timer, Error, lists
    <3>2. CASE UNCHANGED control
      BY <2>5, <3>2, QuietFrame DEF event_timer, control, memory, transfers, lists
    <3>. QED BY <2>5, <3>1, <3>2 DEF event_timer
  <2>6. CASE event_notice
    BY <2>6, QuietFrame DEF event_notice, memory, transfers, lists
  <2>7. ASSUME NEW src \in OwnSources, EventReadFails(src)
        PROVE  QuietInv'
    BY <2>7, <1>0, QuietExplained DEF EventReadFails, Error, lists
  <2>8. ASSUME NEW fd \in WriteFds, HandleFd(fd)
        PROVE  QuietInv'
    BY <2>8, QuietSubmit DEF HandleFd, memory, lists
  <2>9. ASSUME NEW fd \in WriteFds, HandleFdThrows(fd)
        PROVE  QuietInv'
    BY <2>9, <1>0, QuietExplained DEF HandleFdThrows, StepThrows, lists
  <2>10. CASE HandleUsbReturns
    BY <2>10, QuietFrame DEF HandleUsbReturns, control, memory, transfers, lists
  <2>11. CASE HandleUsbFails
    BY <2>11, <1>0, QuietExplained DEF HandleUsbFails, StepThrows, lists
  <2>12. CASE ApplyLists
    <3>1. \A t \in Transfers : t \notin {u \in Transfers : eventfd[u] \in list_disable}
      BY <1>0
    <3>2. \A t \in Transfers : usb'[t] \in {"cancelling", "CANCELLED"} => usb'[t] = usb[t]
      BY <2>12, <3>1 DEF ApplyLists, CancelTransfers
    <3>. QED BY <2>12, <3>2, <1>0 DEF ApplyLists, QuietInv, control, memory
  <2>13. CASE ResetThrows
    BY <2>13, <1>0, QuietExplained DEF ResetThrows, StepThrows, lists
  <2>14. CASE EnableThrows
    BY <2>14, <1>0, QuietExplained DEF EnableThrows, StepThrows, lists
  <2>15. CASE StepDone
    BY <2>15, QuietFrame DEF StepDone, control, memory, transfers, lists
  <2>16. CASE ShutdownReset
    BY <2>16, QuietFrame DEF ShutdownReset, control, memory, transfers, lists
  <2>17. CASE ShutdownCancel
    <3>1. explained
      BY <2>17, <1>0 DEF ShutdownCancel, PhaseInv, QuietInv
    <3>. QED BY <2>17, <3>1, <1>0, QuietExplained DEF ShutdownCancel, control, lists
  <2>18. CASE process_cleanup
    BY <2>18, <1>0 DEF process_cleanup, QuietInv, lists
  <2>19. ASSUME NEW t \in Transfers, Callback(t)
        PROVE  QuietInv'
    <3>0. UNCHANGED <<list_disable, alive>>
      BY <2>19 DEF Callback, CallbackEnds, read_callback, ReadResubmitFails, ReadFails, write_callback, WriteResubmitFails, CallbackCallsOut, Served, InCallback, lists, memory
    <3>1. CASE CallbackEnds(t)
      <4>1. enabled[t] => explained \/ UNCHANGED control
        <5>1. epc # "none"
          BY <3>1 DEF CallbackEnds, InCallback, HandlesEvents
        <5>. QED BY <3>1, <5>1, <1>0 DEF CallbackEnds, QuietInv
      <4>2. usb' = [usb EXCEPT ![t] = "idle"]
        BY <3>1 DEF CallbackEnds, Give
      <4>3. explained' = explained
        BY <3>1 DEF CallbackEnds, Cancel, control
      <4>4. CASE explained
        BY <4>3, <4>4, <3>0, <1>0, QuietExplained
      <4>5. CASE UNCHANGED control
        BY <4>2, <4>5, <3>0 DEF QuietInv, control, TypeOK, TransfersOK
      <4>. QED BY <3>1, <4>1, <4>4, <4>5 DEF CallbackEnds
    <3>2. CASE read_callback(t)
      <4>1. usb' = [usb EXCEPT ![t] = "inflight"] /\ UNCHANGED control
        BY <3>2 DEF read_callback, Give
      <4>. QED BY <4>1, <3>0 DEF QuietInv, control, TypeOK, TransfersOK
    <3>3. CASE write_callback(t)
      <4>1. UNCHANGED control
        BY <3>3 DEF write_callback
      <4>2. PICK where \in {"inflight", "idle"} : usb' = [usb EXCEPT ![t] = where]
        BY <3>3 DEF write_callback, Give
      <4>. QED BY <4>1, <4>2, <3>0 DEF QuietInv, control, TypeOK, TransfersOK
    <3>4. CASE ReadResubmitFails(t) \/ ReadFails(t) \/ WriteResubmitFails(t)
      BY <3>4, <3>0, <1>0, QuietExplained DEF ReadResubmitFails, ReadFails, WriteResubmitFails, Error
    <3>5. CASE CallbackCallsOut(t)
      BY <3>5, <3>0, QuietFrame DEF CallbackCallsOut, control, transfers
    <3>. QED BY <2>19, <3>1, <3>2, <3>3, <3>4, <3>5 DEF Callback
  <2>20. ASSUME NEW op \in Requests, NEW s \in Streams, CallbackRequest(op, s)
        PROVE  QuietInv'
    <3>1. list_disable' = {}
      BY <2>20, <1>0, QuietEnlist DEF CallbackRequest, lists
    <3>. QED BY <2>20, <3>1 DEF CallbackRequest, QuietInv, memory, transfers
  <2>. QED BY <1>4, <2>1, <2>2, <2>3, <2>4, <2>5, <2>6, <2>7, <2>8, <2>9, <2>10, <2>11, <2>12, <2>13, <2>14, <2>15, <2>16, <2>17, <2>18, <2>19, <2>20 DEF EngineStep, Dispatch
<1>5. CASE Environment
  <2>1. CASE Tick
    BY <2>1, QuietFrame DEF Tick, control, memory, transfers, lists
  <2>2. ASSUME NEW s \in Streams, AppWrite(s)
        PROVE  QuietInv'
    BY <2>2, QuietFrame DEF AppWrite, control, memory, transfers, lists
  <2>3. ASSUME NEW t \in Transfers, NEW status \in Returned, NEW data \in BOOLEAN,
               UsbDone(t, status, data)
        PROVE  QuietInv'
    BY <2>3, QuietFrame DEF UsbDone, control, memory, lists, TypeOK, TransfersOK
  <2>. QED BY <1>5, <2>1, <2>2, <2>3 DEF Environment
<1>. QED BY <1>1, <1>2, <1>3, <1>4, <1>5 DEF Next

\* If nobody disables a stream and epoll_wait does not fail (EINTR included), an
\* engine that gives up was asked to, or has reported a failure
\* (FtdiStreamStatic.cpp, process_step and the two callbacks).  Both conditions are
\* needed: a disabled transfer comes back CANCELLED and ends the engine, and a
\* failed epoll_wait calls cancel () only.
THEOREM EndsAreExplained ==
    ASSUME "disable" \notin Requests, "epoll_wait" \notin FaultKinds
    PROVE  Spec => []NoSilentEnd
<1>1. Init => QuietInv
  BY DEF Init, QuietInv
<1>2. IInv /\ QuietInv /\ [Next]_vars => QuietInv'
  BY QuietStep
<1>3. QuietInv => NoSilentEnd
  BY DEF QuietInv, NoSilentEnd
<1>. QED BY <1>1, <1>2, <1>3, Invariance, PTL DEF Spec
-----------------------------------------------------------------------------
(* Nothing is sent twice.  A chunk the device has taken is confirmed by the *)
(* callback before the next fill; what was taken while the engine was       *)
(* stopping is not, but then nothing more is submitted.                     *)

SentInv ==
    /\ SentOnce
    /\ alive /\ should_run =>
        \A t \in Transfers : ~is_reading[t] /\ taken[stream_id[t]] => usb[t] \in Returned /\ moved[t]
    /\ starts = MaxStarts => ~alive /\ \A s \in Streams : ~taken[s]

LEMMA SentFrame ==
    ASSUME SentInv, UNCHANGED <<transfers, taken, starts, alive>>, should_run' => should_run
    PROVE  SentInv'
BY DEF SentInv, SentOnce, transfers

\* What submit () gives to libusb, it gives while the engine runs.
LEMMA SentSubmit ==
    ASSUME TypeOK, FlightInv, SentInv, alive, UNCHANGED <<taken, starts, alive, moved>>,
           should_run' => should_run,
           \A t \in Transfers :
              \/ usb'[t] = usb[t]
              \/ usb[t] = "inflight" /\ usb'[t] = "cancelling"
              \/ should_run /\ ~enabled[t] /\ usb'[t] = "inflight"
    PROVE  SentInv'
<1>1. \A t \in Transfers : ~enabled[t] => usb[t] = "idle"
  BY DEF FlightInv, InFlightIsEnabled
<1>2. SentOnce'
  BY <1>1 DEF SentInv, SentOnce
<1>3. alive' /\ should_run' =>
        \A t \in Transfers : ~is_reading[t] /\ taken'[stream_id[t]] => usb'[t] \in Returned /\ moved'[t]
  <2>. SUFFICES ASSUME should_run', NEW t \in Transfers, ~is_reading[t], taken[stream_id[t]]
                PROVE  usb'[t] \in Returned /\ moved'[t]
    OBVIOUS
  <2>1. usb[t] \in Returned /\ moved[t]
    BY DEF SentInv
  <2>. QED BY <2>1, <1>1
<1>. QED BY <1>2, <1>3 DEF SentInv

\* A callback that hands its transfer on, after confirming what it moved.
LEMMA SentGive ==
    ASSUME TypeOK, SentInv, NEW t \in Transfers, NEW where \in {"idle", "inflight"}, NEW on,
           Give(t, where, on), UNCHANGED <<starts, alive>>, alive, should_run' => should_run,
           taken' = taken \/ (~is_reading[t] /\ taken' = [taken EXCEPT ![stream_id[t]] = FALSE]),
           ~is_reading[t] /\ (where = "inflight" \/ should_run') => ~taken'[stream_id[t]]
    PROVE  SentInv'
<1>. USE TransfersAssumption DEF TypeOK, AppOK, TransfersOK
<1>1. \A u \in Transfers \ {t} : usb'[u] = usb[u] /\ moved'[u] = moved[u]
  BY DEF Give
<1>2. \A s \in Streams : taken'[s] => taken[s]
  OBVIOUS
<1>3. usb'[t] = where
  BY DEF Give
<1>4. SentOnce'
  BY <1>1, <1>2, <1>3 DEF SentInv, SentOnce
<1>5. alive' /\ should_run' =>
        \A u \in Transfers : ~is_reading[u] /\ taken'[stream_id[u]] => usb'[u] \in Returned /\ moved'[u]
  BY <1>1, <1>2 DEF SentInv
<1>. QED BY <1>2, <1>4, <1>5 DEF SentInv

\* The engine was started once, or not yet.
FirstRun == MaxStarts - starts <= 1

\* The first start finds nothing taken.
LEMMA SentStart ==
    ASSUME FirstRun', TypeOK, SentInv, ~alive, starts > 0, starts' = starts - 1, taken' = taken,
           \/ InitSucceeds
           \/ \E x \in Sources : InitMissesSource(x)
           \/ FlightInv /\ \E k \in Nat : InitThrows(k)
    PROVE  SentInv'
<1>. USE TransfersAssumption, BoundsAssumption
<1>1. starts = MaxStarts /\ starts' # MaxStarts
  BY DEF TypeOK, ModesOK, FirstRun
<1>2. \A t \in Transfers : ~taken'[stream_id[t]]
  BY <1>1 DEF SentInv
<1>. QED BY <1>1, <1>2 DEF SentInv, SentOnce

LEMMA SentStep ==
    ASSUME FirstRun', IInv, SentInv, [Next]_vars
    PROVE  SentInv'
<1>. TypeOK /\ RunnerInv /\ FlightInv /\ PhaseInv
  BY DEF IInv, TransferInv
<1>0. /\ epc # "none" => alive
      /\ InFlightIsEnabled
      /\ ~alive => \A t \in Transfers : usb[t] = "idle"
  BY DEF RunnerInv, EngineHasState, FlightInv
<1>1. CASE UNCHANGED vars
  BY <1>1, SentFrame DEF vars, control, memory, modes, app
<1>2. ASSUME NEW c \in Callers, CallerStep(c) \/ CallerCalls(c)
      PROVE  SentInv'
  <2>1. CASE StopNotice(c)
    BY <2>1, SentFrame DEF StopNotice, memory, modes, app
  <2>2. CASE issue_notice(c)
    BY <2>2, SentFrame DEF issue_notice, memory, modes, app
  <2>3. CASE Join(c)
    BY <2>3, SentFrame DEF Join, Cancel, memory, app
  <2>4. CASE start_thread(c)
    <3>1. ~alive /\ starts > 0 /\ starts' = starts - 1 /\ taken' = taken
      BY <2>4 DEF start_thread, CanStart, InitCommon, app, RunnerInv, EngineHasState
    <3>. QED BY <2>4, <3>1, SentStart DEF start_thread
  <2>5. CASE stop_thread(c)
    BY <2>5, SentFrame DEF stop_thread, memory, app
  <2>6. ASSUME NEW op \in Requests, NEW s \in Streams, Request(c, op, s)
        PROVE  SentInv'
    BY <2>6, SentFrame DEF Request, control, memory, modes, app
  <2>. QED BY <1>2, <2>1, <2>2, <2>3, <2>4, <2>5, <2>6 DEF CallerStep, CallerCalls
<1>3. CASE PollerCalls \/ get_errors
  <2>1. CASE start_poll
    <3>1. ~alive /\ starts > 0 /\ starts' = starts - 1 /\ taken' = taken
      BY <2>1 DEF start_poll, CanStart, InitCommon, app, RunnerInv, EngineHasState
    <3>. QED BY <2>1, <3>1, SentStart, TransfersAssumption DEF start_poll
  <2>2. CASE poll
    BY <2>2, SentFrame DEF poll, control, memory, modes, app
  <2>3. CASE stop_poll
    BY <2>3, SentFrame DEF stop_poll, memory, app
  <2>4. CASE get_errors
    BY <2>4, SentFrame DEF get_errors, memory, modes, app
  <2>. QED BY <1>3, <2>1, <2>2, <2>3, <2>4 DEF PollerCalls
<1>4. CASE EngineStep
  <2>1. CASE EpollWait
    BY <2>1, SentFrame DEF EpollWait, control, memory, modes, app
  <2>2. CASE EpollTimesOut
    BY <2>2, SentFrame DEF EpollTimesOut, StepReturns, control, memory, modes, app
  <2>3. CASE EpollFails
    BY <2>3, SentFrame DEF EpollFails, Cancel, StepReturns, memory, modes, app
  <2>4. CASE HandleUsb
    BY <2>4, SentFrame DEF HandleUsb, control, memory, modes, app
  <2>5. CASE event_timer
    BY <2>5, SentFrame DEF event_timer, Error, control, memory, modes, app
  <2>6. CASE event_notice
    BY <2>6, SentFrame DEF event_notice, memory, modes, app
  <2>7. ASSUME NEW src \in OwnSources, EventReadFails(src)
        PROVE  SentInv'
    BY <2>7, SentFrame DEF EventReadFails, Error, memory, modes, app
  <2>8. ASSUME NEW fd \in WriteFds, HandleFd(fd)
        PROVE  SentInv'
    <3>1. alive
      BY <2>8, <1>0 DEF HandleFd, Handle
    <3>2. \A t \in Transfers :
              usb'[t] = usb[t] \/ (should_run /\ ~enabled[t] /\ usb'[t] = "inflight")
      BY <2>8 DEF HandleFd, Submit, DisabledAt, TypeOK, TransfersOK
    <3>. QED BY <2>8, <3>1, <3>2, SentSubmit DEF HandleFd, Submit, control, memory, modes, app
  <2>9. ASSUME NEW fd \in WriteFds, HandleFdThrows(fd)
        PROVE  SentInv'
    <3>1. alive
      BY <2>9, <1>0 DEF HandleFdThrows
    <3>2. PICK x \in DisabledAt({fd}) : SubmitFailsAt(DisabledAt({fd}), x)
      BY <2>9 DEF HandleFdThrows
    <3>3. \A t \in Transfers :
              usb'[t] = usb[t] \/ (should_run /\ ~enabled[t] /\ usb'[t] = "inflight")
      BY <3>2 DEF SubmitFailsAt, DisabledAt, TypeOK, TransfersOK
    <3>. QED BY <2>9, <3>1, <3>2, <3>3, SentSubmit DEF HandleFdThrows, SubmitFailsAt, StepThrows, memory, app
  <2>10. CASE HandleUsbReturns
    BY <2>10, SentFrame DEF HandleUsbReturns, control, memory, modes, app
  <2>11. CASE HandleUsbFails
    BY <2>11, SentFrame DEF HandleUsbFails, StepThrows, memory, app
  <2>12. CASE ApplyLists
    <3>1. alive
      BY <2>12, <1>0 DEF ApplyLists
    <3>2. \A t \in Transfers :
              \/ usb'[t] = usb[t]
              \/ usb[t] = "inflight" /\ usb'[t] = "cancelling"
              \/ should_run /\ ~enabled[t] /\ usb'[t] = "inflight"
      BY <2>12 DEF ApplyLists, CancelTransfers, DisabledAt, TypeOK, TransfersOK
    <3>. QED BY <2>12, <3>1, <3>2, SentSubmit DEF ApplyLists, control, memory, modes, app
  <2>13. CASE ResetThrows
    BY <2>13, SentFrame DEF ResetThrows, StepThrows, memory, app
  <2>14. CASE EnableThrows
    <3>1. alive
      BY <2>14, <1>0 DEF EnableThrows
    <3>2. PICK x \in DisabledAt(list_enable) : SubmitFailsAt(DisabledAt(list_enable), x)
      BY <2>14 DEF EnableThrows
    <3>3. \A t \in Transfers :
              usb'[t] = usb[t] \/ (should_run /\ ~enabled[t] /\ usb'[t] = "inflight")
      BY <3>2 DEF SubmitFailsAt, DisabledAt, TypeOK, TransfersOK
    <3>. QED BY <2>14, <3>1, <3>2, <3>3, SentSubmit DEF EnableThrows, SubmitFailsAt, StepThrows, memory, app
  <2>15. CASE StepDone
    BY <2>15, SentFrame DEF StepDone, StepReturns, control, memory, modes, app
  <2>16. CASE ShutdownReset
    BY <2>16, SentFrame DEF ShutdownReset, control, memory, modes, app
  <2>17. CASE ShutdownCancel
    <3>1. alive /\ ~should_run
      BY <2>17, <1>0 DEF ShutdownCancel, PhaseInv
    <3>2. \A t \in Transfers :
              usb'[t] = usb[t] \/ (usb[t] = "inflight" /\ usb'[t] = "cancelling")
      BY <2>17 DEF ShutdownCancel, CancelTransfers, TypeOK, TransfersOK
    <3>. QED BY <2>17, <3>1, <3>2, SentSubmit DEF ShutdownCancel, StepReturns, control, memory, modes, app
  <2>18. CASE process_cleanup
    BY <2>18, <1>0 DEF process_cleanup, SentInv, SentOnce, app
  <2>19. ASSUME NEW t \in Transfers, Callback(t)
        PROVE  SentInv'
    <3>0. UNCHANGED <<starts, alive>> /\ alive
      BY <2>19, <1>0 DEF Callback, CallbackEnds, read_callback, ReadResubmitFails, ReadFails, write_callback, WriteResubmitFails, CallbackCallsOut, Served, InCallback, HandlesEvents, modes, memory
    <3>1. CASE CallbackEnds(t)
      <4>1. ~should_run'
        <5>1. usb[t] # "idle"
          BY <3>1 DEF CallbackEnds, InCallback, PhaseInv, CallbackPending
        <5>2. enabled[t]
          BY <5>1, <1>0 DEF InFlightIsEnabled
        <5>. QED BY <3>1, <5>2 DEF CallbackEnds, Cancel
      <4>. QED BY <3>0, <3>1, <4>1, SentGive DEF CallbackEnds, app
    <3>2. CASE read_callback(t)
      <4>1. Give(t, "inflight", TRUE) /\ UNCHANGED <<control, app>> /\ is_reading[t]
        BY <3>2 DEF read_callback
      <4>. QED BY <3>0, <4>1, SentGive DEF control, app
    <3>3. CASE ReadResubmitFails(t) \/ ReadFails(t)
      <4>1. Give(t, "idle", FALSE) /\ UNCHANGED app /\ is_reading[t] /\ ~should_run'
        BY <3>3 DEF ReadResubmitFails, ReadFails, Error
      <4>. QED BY <3>0, <4>1, SentGive DEF app
    <3>4. CASE write_callback(t) \/ WriteResubmitFails(t)
      <4>1. ~is_reading[t] /\ should_run /\ Confirm(t) /\ (should_run' => should_run)
        BY <3>4 DEF write_callback, WriteResubmitFails, Served
      <4>2. PICK where \in {"idle", "inflight"}, on \in BOOLEAN : Give(t, where, on)
        <5>1. CASE write_callback(t)
          <6> DEFINE more == Confirmed(t)[stream_id[t]] > 0
          <6>1. Give(t, IF more THEN "inflight" ELSE "idle", more) /\ more \in BOOLEAN
            BY <5>1 DEF write_callback
          <6>. HIDE DEF more
          <6>. QED BY <6>1
        <5>2. CASE WriteResubmitFails(t)
          BY <5>2 DEF WriteResubmitFails
        <5>. QED BY <3>4, <5>1, <5>2
      <4>3. taken' = taken \/ taken' = [taken EXCEPT ![stream_id[t]] = FALSE]
        BY <4>1 DEF Confirm
      <4>4. ~taken'[stream_id[t]]
        <5>1. CASE moved[t]
          BY <4>1, <5>1, TransfersAssumption DEF Confirm, TypeOK, AppOK
        <5>2. CASE ~moved[t]
          BY <4>1, <5>2, <3>0 DEF Confirm, SentInv
        <5>. QED BY <5>1, <5>2
      <4>. QED BY <3>0, <4>1, <4>2, <4>3, <4>4, SentGive
    <3>5. CASE CallbackCallsOut(t)
      BY <3>5, SentFrame DEF CallbackCallsOut, control, memory, modes, app
    <3>. QED BY <2>19, <3>1, <3>2, <3>3, <3>4, <3>5 DEF Callback
  <2>20. ASSUME NEW op \in Requests, NEW s \in Streams, CallbackRequest(op, s)
        PROVE  SentInv'
    BY <2>20, SentFrame DEF CallbackRequest, memory, modes, app
  <2>. QED BY <1>4, <2>1, <2>2, <2>3, <2>4, <2>5, <2>6, <2>7, <2>8, <2>9, <2>10, <2>11, <2>12, <2>13, <2>14, <2>15, <2>16, <2>17, <2>18, <2>19, <2>20 DEF EngineStep, Dispatch
<1>5. CASE Environment
  <2>1. CASE Tick
    BY <2>1, SentFrame DEF Tick, control, memory, modes, app
  <2>2. ASSUME NEW s \in Streams, AppWrite(s)
        PROVE  SentInv'
    BY <2>2, SentFrame DEF AppWrite, control, memory, modes
  <2>3. ASSUME NEW t \in Transfers, NEW status \in Returned, NEW data \in BOOLEAN,
               UsbDone(t, status, data)
        PROVE  SentInv'
    <3>0. \A u \in Transfers \ {t} : ~is_reading[t] /\ ~is_reading[u] => stream_id[u] # stream_id[t]
      BY OneWriterAssumption
    <3>. USE TransfersAssumption DEF TypeOK, AppOK, TransfersOK
    <3>1. usb' = [usb EXCEPT ![t] = status] /\ moved' = [moved EXCEPT ![t] = data]
      BY <2>3 DEF UsbDone
    <3>2. taken' = IF data /\ ~is_reading[t] THEN [taken EXCEPT ![stream_id[t]] = TRUE] ELSE taken
      BY <2>3 DEF UsbDone
    <3>3. UNCHANGED <<should_run, alive, starts>> /\ alive
      BY <2>3, <1>0 DEF UsbDone, control, memory, modes
    <3>4. \A u \in Transfers \ {t} :
              ~is_reading[u] => usb'[u] = usb[u] /\ moved'[u] = moved[u] /\ taken'[stream_id[u]] = taken[stream_id[u]]
      <4>. SUFFICES ASSUME NEW u \in Transfers \ {t}, ~is_reading[u]
                    PROVE  usb'[u] = usb[u] /\ moved'[u] = moved[u] /\ taken'[stream_id[u]] = taken[stream_id[u]]
        OBVIOUS
      <4>2. stream_id[u] \in Streams /\ stream_id[t] \in Streams
        OBVIOUS
      <4>3. taken'[stream_id[u]] = taken[stream_id[u]]
        BY <3>0, <3>2, <4>2
      <4>. QED BY <3>1, <4>3
    <3>5. ~is_reading[t] => (taken'[stream_id[t]] => data)
      BY <2>3, <3>2 DEF UsbDone, SentInv, SentOnce
    <3>6. usb'[t] = status /\ moved'[t] = data
      BY <3>1
    <3>7. SentOnce'
      BY <3>4, <3>6 DEF SentInv, SentOnce
    <3>8. alive' /\ should_run' =>
            \A u \in Transfers : ~is_reading[u] /\ taken'[stream_id[u]] => usb'[u] \in Returned /\ moved'[u]
      BY <3>3, <3>4, <3>5, <3>6 DEF SentInv
    <3>. QED BY <3>3, <3>7, <3>8 DEF SentInv
  <2>. QED BY <1>5, <2>1, <2>2, <2>3 DEF Environment
<1>. QED BY <1>1, <1>2, <1>3, <1>4, <1>5 DEF Next

\* Starts only add up.
LEMMA StartsCount ==
    ASSUME starts \in Nat, [Next]_vars
    PROVE  starts' \in {starts, starts - 1}
<1>1. CASE UNCHANGED vars
  BY <1>1 DEF vars, modes
<1>2. ASSUME NEW c \in Callers, CallerStep(c) \/ CallerCalls(c)
      PROVE  starts' \in {starts, starts - 1}
  <2>1. CASE start_thread(c)
    BY <2>1 DEF start_thread, CanStart
  <2>2. CASE StopNotice(c) \/ issue_notice(c) \/ Join(c) \/ stop_thread(c)
    BY <2>2 DEF StopNotice, issue_notice, Join, stop_thread, modes
  <2>3. ASSUME NEW op \in Requests, NEW s \in Streams, Request(c, op, s)
        PROVE  starts' = starts
    BY <2>3 DEF Request, modes
  <2>. QED BY <1>2, <2>1, <2>2, <2>3 DEF CallerStep, CallerCalls
<1>3. CASE PollerCalls \/ get_errors
  BY <1>3 DEF PollerCalls, start_poll, CanStart, poll, stop_poll, get_errors, modes
<1>4. CASE EngineStep
  <2>1. CASE EpollWait \/ EpollTimesOut \/ EpollFails
    BY <2>1 DEF EpollWait, EpollTimesOut, EpollFails, StepReturns, modes
  <2>2. CASE Dispatch
    BY <2>2 DEF Dispatch, HandleUsb, event_timer, event_notice, EventReadFails, HandleFd,
       HandleFdThrows, StepThrows, modes
  <2>3. CASE HandleUsbReturns \/ HandleUsbFails \/ ApplyLists \/ ResetThrows \/ EnableThrows
    BY <2>3 DEF HandleUsbReturns, HandleUsbFails, ApplyLists, ResetThrows, EnableThrows,
       StepThrows, modes
  <2>4. CASE StepDone \/ ShutdownReset \/ ShutdownCancel \/ process_cleanup
    BY <2>4 DEF StepDone, ShutdownReset, ShutdownCancel, process_cleanup, StepReturns, modes
  <2>5. ASSUME NEW t \in Transfers, Callback(t)
        PROVE  starts' = starts
    BY <2>5 DEF Callback, CallbackEnds, read_callback, ReadResubmitFails, ReadFails,
       write_callback, WriteResubmitFails, CallbackCallsOut, Served, InCallback, HandlesEvents, modes
  <2>6. ASSUME NEW op \in Requests, NEW s \in Streams, CallbackRequest(op, s)
        PROVE  starts' = starts
    BY <2>6 DEF CallbackRequest, modes
  <2>. QED BY <1>4, <2>1, <2>2, <2>3, <2>4, <2>5, <2>6 DEF EngineStep
<1>5. CASE Environment
  BY <1>5 DEF Environment, Tick, AppWrite, UsbDone, modes
<1>. QED BY <1>1, <1>2, <1>3, <1>4, <1>5 DEF Next

\* Until the engine is started a second time, a chunk that the device has taken is
\* never handed to it again, whatever fails (FtdiStreamStatic.cpp, write_callback and
\* submit).
THEOREM FirstRunSendsOnce == Spec => [](FirstRun => SentOnce)
<1>. DEFINE Inv == FirstRun => SentInv
<1>1. Init => Inv
  BY DEF Init, SentInv, SentOnce
<1>2. IInv /\ Inv /\ [Next]_vars => Inv'
  <2>. SUFFICES ASSUME IInv, Inv, [Next]_vars, FirstRun'
                PROVE  SentInv'
    OBVIOUS
  <2>1. starts \in Nat /\ MaxStarts \in Nat
    BY BoundsAssumption DEF IInv, TypeOK, ModesOK
  <2>2. starts' = starts \/ starts' = starts - 1
    BY <2>1, StartsCount
  <2>3. MaxStarts - starts' <= 1
    BY DEF FirstRun
  <2>4. MaxStarts - starts <= 1
    BY <2>1, <2>2, <2>3, SMT
  <2>5. FirstRun
    BY <2>4 DEF FirstRun
  <2>. QED BY <2>5, SentStep
<1>3. Inv => (FirstRun => SentOnce)
  BY DEF SentInv
<1>. HIDE DEF Inv
<1>. QED BY <1>1, <1>2, <1>3, Invariance, PTL DEF Spec

\* So in a program that starts its engine once nothing is ever sent twice.  A second
\* start may: a chunk taken while the first engine was stopping is not confirmed, and
\* the application keeps it.
THEOREM ChunksSentOnce ==
    ASSUME MaxStarts <= 1
    PROVE  Spec => []SentOnce
<1>1. IInv => FirstRun
  BY BoundsAssumption DEF IInv, TypeOK, ModesOK, FirstRun
<1>. QED BY <1>1, Invariance, FirstRunSendsOnce, PTL
=============================================================================
