-------------------------- MODULE StreamLifeProofs --------------------------
(***************************************************************************)
(* FtdiStream implements StreamLife, for every number of callers, streams  *)
(* and transfers.  Beyond FtdiStream's inductive invariant the refinement  *)
(* needs two facts: what a returned write carries the device has taken,    *)
(* and a thread that destroyed its state has seen the end.                 *)
(***************************************************************************)
EXTENDS FtdiStreamProofs

USE DEF Transfers, AllRequests, CallerPCs, EnginePCs, Returned, UsbStates, OwnSources, Sources

MovedIsTaken == \A t \in Transfers : ~is_reading[t] /\ moved[t] => taken[stream_id[t]]
EndedThread == is_started_thr /\ ~alive => ~should_run

-----------------------------------------------------------------------------
(* The two additional invariants.                                          *)

LEMMA EndedThreadStep ==
    ASSUME IInv, EndedThread, [Next]_vars
    PROVE  EndedThread'
<1>. TypeOK /\ RunnerInv
  BY DEF IInv
<1>1. CASE UNCHANGED vars
  BY <1>1 DEF vars, control, modes, memory, EndedThread
<1>2. ASSUME NEW c \in Callers, CallerStep(c) \/ CallerCalls(c)
      PROVE  EndedThread'
  <2>1. CASE Join(c)
    BY <2>1 DEF Join, EndedThread
  <2>2. CASE start_thread(c)
    BY <2>2 DEF start_thread, CanStart, InitSucceeds, InitMissesSource, InitThrows, EndedThread
  <2>3. CASE StopNotice(c) \/ issue_notice(c) \/ stop_thread(c)
    BY <2>3 DEF StopNotice, issue_notice, stop_thread, modes, memory, EndedThread
  <2>4. ASSUME NEW op \in Requests, NEW s \in Streams, Request(c, op, s)
        PROVE  EndedThread'
    BY <2>4 DEF Request, control, modes, memory, EndedThread
  <2>. QED BY <1>2, <2>1, <2>2, <2>3, <2>4 DEF CallerStep, CallerCalls
<1>3. CASE PollerCalls \/ get_errors
  <2>1. CASE start_poll
    BY <2>1 DEF start_poll, CanStart, EndedThread
  <2>2. CASE poll \/ stop_poll \/ get_errors
    BY <2>2 DEF poll, stop_poll, get_errors, control, modes, memory, EndedThread
  <2>. QED BY <1>3, <2>1, <2>2 DEF PollerCalls
<1>4. CASE EngineStep
  <2>1. CASE process_cleanup
    BY <2>1 DEF process_cleanup, Cancel, EndedThread
  <2>2. CASE EpollWait \/ EpollTimesOut \/ EpollFails \/ Dispatch
    BY <2>2 DEF EpollWait, EpollTimesOut, EpollFails, Dispatch, HandleUsb, event_timer, event_notice,
                EventReadFails, HandleFd, HandleFdThrows, StepReturns, StepThrows, Error, Cancel,
                control, modes, memory, EndedThread
  <2>3. CASE \/ HandleUsbReturns \/ HandleUsbFails \/ ApplyLists \/ ResetThrows \/ EnableThrows
             \/ StepDone \/ ShutdownReset \/ ShutdownCancel
    BY <2>3 DEF HandleUsbReturns, HandleUsbFails, ApplyLists, ResetThrows, EnableThrows, StepDone,
                ShutdownReset, ShutdownCancel, StepReturns, StepThrows, control, modes, memory,
                EndedThread
  <2>4. ASSUME NEW t \in Transfers, Callback(t)
        PROVE  EndedThread'
    BY <2>4 DEF Callback, CallbackEnds, read_callback, ReadResubmitFails, ReadFails, write_callback,
                WriteResubmitFails, CallbackCallsOut, Served, InCallback, Error, Cancel, control,
                modes, memory, EndedThread
  <2>5. ASSUME NEW op \in Requests, NEW s \in Streams, CallbackRequest(op, s)
        PROVE  EndedThread'
    BY <2>5 DEF CallbackRequest, modes, memory, EndedThread
  <2>. QED BY <1>4, <2>1, <2>2, <2>3, <2>4, <2>5 DEF EngineStep
<1>5. CASE Environment
  BY <1>5 DEF Environment, Tick, AppWrite, UsbDone, control, modes, memory, EndedThread
<1>. QED BY <1>1, <1>2, <1>3, <1>4, <1>5 DEF Next

LEMMA MovedFrame ==
    ASSUME MovedIsTaken, UNCHANGED <<moved, taken>>
    PROVE  MovedIsTaken'
BY DEF MovedIsTaken

\* A transfer in our hands again carries nothing.
LEMMA MovedGive ==
    ASSUME TypeOK, MovedIsTaken, NEW t \in Transfers, NEW where, NEW on,
           Give(t, where, on), UNCHANGED taken
    PROVE  MovedIsTaken'
BY DEF Give, MovedIsTaken, TypeOK, TransfersOK

\* The other transfers of its stream are reads.
LEMMA MovedConfirm ==
    ASSUME TypeOK, MovedIsTaken, NEW t \in Transfers, ~is_reading[t], NEW where, NEW on,
           Give(t, where, on), Confirm(t)
    PROVE  MovedIsTaken'
<1>. SUFFICES ASSUME NEW u \in Transfers, ~is_reading[u], moved'[u]
              PROVE  taken'[stream_id[u]]
  BY DEF MovedIsTaken
<1>1. u # t /\ moved[u]
  BY DEF Give, TypeOK, TransfersOK
<1>2. stream_id[u] # stream_id[t] /\ stream_id[u] \in Streams /\ stream_id[t] \in Streams
  BY <1>1, OneWriterAssumption, TransfersAssumption
<1>3. taken'[stream_id[u]] = taken[stream_id[u]]
  BY <1>2 DEF Confirm, TypeOK, AppOK
<1>. QED BY <1>1, <1>3 DEF MovedIsTaken

LEMMA MovedIsTakenStep ==
    ASSUME IInv, MovedIsTaken, [Next]_vars
    PROVE  MovedIsTaken'
<1>. TypeOK
  BY DEF IInv
<1>1. CASE UNCHANGED vars
  BY <1>1, MovedFrame DEF vars, transfers, app
<1>2. ASSUME NEW c \in Callers, CallerStep(c) \/ CallerCalls(c)
      PROVE  MovedIsTaken'
  <2>1. CASE start_thread(c)
    <3>1. moved' = moved \/ moved' = [t \in Transfers |-> FALSE]
      BY <2>1 DEF start_thread, InitSucceeds, InitMissesSource, InitThrows, InitTransfers, transfers
    <3>2. taken' = taken
      BY <2>1 DEF start_thread, InitCommon, app
    <3>. QED BY <3>1, <3>2 DEF MovedIsTaken
  <2>2. CASE Join(c) \/ StopNotice(c) \/ issue_notice(c) \/ stop_thread(c)
    BY <2>2, MovedFrame DEF Join, StopNotice, issue_notice, stop_thread, transfers, app
  <2>3. ASSUME NEW op \in Requests, NEW s \in Streams, Request(c, op, s)
        PROVE  MovedIsTaken'
    BY <2>3, MovedFrame DEF Request, transfers, app
  <2>. QED BY <1>2, <2>1, <2>2, <2>3 DEF CallerStep, CallerCalls
<1>3. CASE PollerCalls \/ get_errors
  <2>1. CASE start_poll
    <3>1. moved' = moved \/ moved' = [t \in Transfers |-> FALSE]
      BY <2>1 DEF start_poll, InitSucceeds, InitMissesSource, InitThrows, InitTransfers, transfers
    <3>2. taken' = taken
      BY <2>1 DEF start_poll, InitCommon, app
    <3>. QED BY <3>1, <3>2 DEF MovedIsTaken
  <2>2. CASE poll \/ stop_poll \/ get_errors
    BY <2>2, MovedFrame DEF poll, stop_poll, get_errors, transfers, app
  <2>. QED BY <1>3, <2>1, <2>2 DEF PollerCalls
<1>4. CASE EngineStep
  <2>1. CASE process_cleanup
    BY <2>1 DEF process_cleanup, MovedIsTaken, app
  <2>2. CASE EpollWait \/ EpollTimesOut \/ EpollFails \/ Dispatch
    BY <2>2, MovedFrame DEF EpollWait, EpollTimesOut, EpollFails, Dispatch, HandleUsb, event_timer,
       event_notice, EventReadFails, HandleFd, HandleFdThrows, Submit, SubmitFailsAt, transfers, app
  <2>3. CASE \/ HandleUsbReturns \/ HandleUsbFails \/ ApplyLists \/ ResetThrows \/ EnableThrows
             \/ StepDone \/ ShutdownReset \/ ShutdownCancel
    BY <2>3, MovedFrame DEF HandleUsbReturns, HandleUsbFails, ApplyLists, ResetThrows, EnableThrows,
       StepDone, ShutdownReset, ShutdownCancel, SubmitFailsAt, transfers, app
  <2>4. ASSUME NEW t \in Transfers,
               CallbackEnds(t) \/ read_callback(t) \/ ReadResubmitFails(t) \/ ReadFails(t)
        PROVE  MovedIsTaken'
    BY <2>4, MovedGive DEF CallbackEnds, read_callback, ReadResubmitFails, ReadFails, app
  <2>5. ASSUME NEW t \in Transfers, write_callback(t) \/ WriteResubmitFails(t)
        PROVE  MovedIsTaken'
    BY <2>5, MovedConfirm DEF write_callback, WriteResubmitFails
  <2>6. ASSUME NEW t \in Transfers, CallbackCallsOut(t)
        PROVE  MovedIsTaken'
    BY <2>6, MovedFrame DEF CallbackCallsOut, transfers, app
  <2>7. ASSUME NEW op \in Requests, NEW s \in Streams, CallbackRequest(op, s)
        PROVE  MovedIsTaken'
    BY <2>7, MovedFrame DEF CallbackRequest, transfers, app
  <2>. QED BY <1>4, <2>1, <2>2, <2>3, <2>4, <2>5, <2>6, <2>7 DEF EngineStep, Callback
<1>5. CASE Environment
  <2>1. CASE Tick \/ \E s \in Streams : AppWrite(s)
    BY <2>1, MovedFrame DEF Tick, AppWrite, transfers, app
  <2>2. ASSUME NEW t \in Transfers, NEW status \in Returned, NEW data \in BOOLEAN,
               UsbDone(t, status, data)
        PROVE  MovedIsTaken'
    <3>1. stream_id \in [Transfers -> Streams]
      BY TransfersAssumption
    <3>. QED BY <2>2, <3>1 DEF UsbDone, MovedIsTaken, TypeOK, TransfersOK, AppOK
  <2>. QED BY <1>5, <2>1, <2>2 DEF Environment
<1>. QED BY <1>1, <1>2, <1>3, <1>4, <1>5 DEF Next

-----------------------------------------------------------------------------
(* How a step looks from outside.                                          *)

LEMMA Stutters ==
    ASSUME UNCHANGED <<is_started_thr, is_started_poll, should_run, should_cancel, wqueue, taken>>
    PROVE  UNCHANGED Life!lifeVars
BY DEF Mode, Phase, Life!lifeVars

\* However an engine ends, its mode stays until the stop.
LEMMA Ends ==
    ASSUME TypeOK, EndingIsVisible, ~should_run', should_cancel',
           UNCHANGED <<is_started_thr, is_started_poll, wqueue, taken>>
    PROVE  Life!End \/ UNCHANGED Life!lifeVars
BY DEF TypeOK, ControlOK, ModesOK, EndingIsVisible, Mode, Phase, Life!End, Life!lifeVars

\* What process_init leaves, whichever mode called it.
LEMMA Starts ==
    ASSUME Mode = "none", Mode' \in {"thread", "poll"}, UNCHANGED <<wqueue, taken>>,
           \/ should_run' = TRUE /\ should_cancel' = FALSE
           \/ should_run' = FALSE /\ should_cancel' = TRUE
    PROVE  Life!Start
BY DEF Phase, Life!Start

\* A stop asks an engine to end, if nothing else has ended it.
LEMMA Asks ==
    ASSUME TypeOK, EndingIsVisible, should_cancel' = TRUE,
           UNCHANGED <<is_started_thr, is_started_poll, should_run, wqueue, taken>>
    PROVE  Life!AskToEnd \/ UNCHANGED Life!lifeVars
BY DEF TypeOK, ControlOK, ModesOK, EndingIsVisible, Mode, Phase, Life!AskToEnd, Life!lifeVars

-----------------------------------------------------------------------------
(* Every step maps to a step or a stutter.                                 *)

\* Callbacks run in an engine that some mode has started.
LEMMA CallbackHasMode ==
    ASSUME IInv, NEW t \in Transfers, InCallback(t)
    PROVE  Mode # "none"
<1>1. epc # "none"
  BY DEF InCallback, HandlesEvents
<1>. QED BY <1>1 DEF IInv, RunnerInv, EngineHasState, Mode

\* write_callback confirms what the device has taken, while should_run holds.
LEMMA Confirms ==
    ASSUME IInv, MovedIsTaken, NEW t \in Transfers, ~is_reading[t], moved[t], Served(t), Confirm(t),
           Mode' = Mode, Phase' \in {Phase, "ended"}
    PROVE  Life!Confirm(stream_id[t])
<1>1. Phase \in {"running", "ending"}
  BY CallbackHasMode DEF Served, Phase
<1>2. taken[stream_id[t]]
  BY DEF MovedIsTaken
<1>. QED BY <1>1, <1>2 DEF Confirm, Confirmed, Life!Confirm

LEMMA LifeStep ==
    ASSUME IInv, MovedIsTaken, EndedThread, [Next]_vars
    PROVE  Life!Next \/ UNCHANGED Life!lifeVars
<1>. TypeOK /\ RunnerInv /\ EngineHasState /\ EndingIsVisible
  BY DEF IInv, RunnerInv, RequestInv
<1>. USE DEF Life!Next
<1>1. CASE UNCHANGED vars
  BY <1>1, Stutters DEF vars, control, modes, app
<1>2. ASSUME NEW c \in Callers, CallerStep(c) \/ CallerCalls(c)
      PROVE  Life!Next \/ UNCHANGED Life!lifeVars
  <2>1. CASE start_thread(c)
    <3>1. UNCHANGED <<wqueue, taken, is_started_poll>> /\ ~is_started_thr /\ ~is_started_poll
      BY <2>1 DEF start_thread, CanStart, InitCommon, app
    <3>2. \/ should_run' = TRUE /\ should_cancel' = FALSE
          \/ should_run' = FALSE /\ should_cancel' = TRUE
      BY <2>1 DEF start_thread, InitSucceeds, InitMissesSource, InitThrows, Error
    <3>3. CASE is_started_thr' = TRUE
      BY <3>1, <3>2, <3>3, Starts DEF Mode
    <3>4. CASE is_started_thr' = is_started_thr
      BY <3>1, <3>4 DEF Mode, Phase, Life!lifeVars
    <3>. QED BY <2>1, <3>3, <3>4 DEF start_thread
  <2>2. CASE stop_thread(c)
    BY <2>2, Asks DEF stop_thread, app
  <2>3. CASE Join(c)
    <3>1. is_started_thr /\ ~is_started_poll /\ ~should_run /\ should_cancel
      BY <2>3 DEF Join, EndedThread, EndingIsVisible, RunnerInv, EngineHasState
    <3>. QED BY <2>3, <3>1 DEF Join, Mode, Phase, Life!Stop, app
  <2>4. CASE StopNotice(c) \/ issue_notice(c)
    BY <2>4, Stutters DEF StopNotice, issue_notice, modes, app
  <2>5. ASSUME NEW op \in Requests, NEW s \in Streams, Request(c, op, s)
        PROVE  Life!Next \/ UNCHANGED Life!lifeVars
    BY <2>5, Stutters DEF Request, control, modes, app
  <2>. QED BY <1>2, <2>1, <2>2, <2>3, <2>4, <2>5 DEF CallerStep, CallerCalls
<1>3. CASE PollerCalls \/ get_errors
  <2>1. CASE start_poll
    <3>1. UNCHANGED <<wqueue, taken, is_started_thr>> /\ ~is_started_thr /\ ~is_started_poll
      BY <2>1 DEF start_poll, CanStart, InitCommon, app
    <3>2. \/ should_run' = TRUE /\ should_cancel' = FALSE
          \/ should_run' = FALSE /\ should_cancel' = TRUE
      BY <2>1 DEF start_poll, InitSucceeds, InitMissesSource, InitThrows, Error
    <3>3. CASE is_started_poll' = TRUE
      BY <3>1, <3>2, <3>3, Starts DEF Mode
    <3>4. CASE is_started_poll' = is_started_poll
      BY <3>1, <3>4 DEF Mode, Phase, Life!lifeVars
    <3>. QED BY <2>1, <3>3, <3>4 DEF start_poll
  <2>2. CASE stop_poll
    BY <2>2, Asks DEF stop_poll, app
  <2>3. CASE poll \/ get_errors
    BY <2>3, Stutters DEF poll, get_errors, control, modes, app
  <2>. QED BY <1>3, <2>1, <2>2, <2>3 DEF PollerCalls
<1>4. CASE EngineStep
  <2>1. CASE \/ EpollWait \/ EpollTimesOut \/ HandleUsb \/ HandleUsbReturns \/ ApplyLists
             \/ StepDone \/ ShutdownReset \/ ShutdownCancel
    BY <2>1, Stutters DEF EpollWait, EpollTimesOut, HandleUsb, HandleUsbReturns, ApplyLists, StepDone,
       ShutdownReset, ShutdownCancel, StepReturns, control, modes, app
  <2>2. CASE EpollFails \/ HandleUsbFails \/ ResetThrows \/ EnableThrows
    BY <2>2, Ends DEF EpollFails, HandleUsbFails, ResetThrows, EnableThrows, StepReturns, StepThrows,
       Cancel, modes, app
  <2>3. CASE event_timer
    <3>1. CASE Error
      BY <2>3, <3>1, Ends DEF event_timer, Error, modes, app
    <3>2. CASE UNCHANGED control
      BY <2>3, <3>2, Stutters DEF event_timer, control, modes, app
    <3>. QED BY <2>3, <3>1, <3>2 DEF event_timer
  <2>4. CASE event_notice
    <3>1. CASE should_run /\ ~should_cancel
      BY <2>4, <3>1, Stutters DEF event_notice, modes, app, TypeOK, ControlOK
    <3>2. CASE ~(should_run /\ ~should_cancel)
      BY <2>4, <3>2, Ends DEF event_notice, modes, app, EndingIsVisible
    <3>. QED BY <3>1, <3>2
  <2>5. ASSUME NEW src \in OwnSources, EventReadFails(src)
        PROVE  Life!Next \/ UNCHANGED Life!lifeVars
    BY <2>5, Ends DEF EventReadFails, Error, modes, app
  <2>6. ASSUME NEW fd \in WriteFds, HandleFd(fd)
        PROVE  Life!Next \/ UNCHANGED Life!lifeVars
    BY <2>6, Stutters DEF HandleFd, control, modes, app
  <2>7. ASSUME NEW fd \in WriteFds, HandleFdThrows(fd)
        PROVE  Life!Next \/ UNCHANGED Life!lifeVars
    BY <2>7, Ends DEF HandleFdThrows, StepThrows, app
  <2>8. CASE process_cleanup
    <3>1. ~should_run /\ should_cancel
      BY <2>8 DEF process_cleanup, IInv, TransferInv, PhaseInv, EndingIsVisible
    <3>2. UNCHANGED <<wqueue, taken, is_started_thr>> /\ ~is_started_poll'
          /\ should_run' = FALSE /\ should_cancel' = TRUE
      BY <2>8 DEF process_cleanup, Cancel, app
    <3>3. CASE is_started_thr
      BY <3>1, <3>2, <3>3 DEF Mode, Phase, Life!lifeVars
    <3>4. CASE ~is_started_thr
      <4>1. is_started_poll
        BY <2>8, <3>4 DEF process_cleanup, EngineHasState
      <4>. QED BY <3>1, <3>2, <3>4, <4>1 DEF Mode, Phase, Life!Stop
    <3>. QED BY <3>3, <3>4
  <2>9. ASSUME NEW t \in Transfers, CallbackEnds(t)
        PROVE  Life!Next \/ UNCHANGED Life!lifeVars
    <3>1. UNCHANGED <<modes, app>>
      BY <2>9 DEF CallbackEnds, InCallback
    <3>2. CASE Cancel
      BY <3>1, <3>2, Ends DEF Cancel, modes, app
    <3>3. CASE UNCHANGED control
      BY <3>1, <3>3, Stutters DEF control, modes, app
    <3>. QED BY <2>9, <3>2, <3>3 DEF CallbackEnds
  <2>10. ASSUME NEW t \in Transfers, read_callback(t) \/ CallbackCallsOut(t)
         PROVE  Life!Next \/ UNCHANGED Life!lifeVars
    BY <2>10, Stutters DEF read_callback, Served, InCallback, CallbackCallsOut, control, modes, app
  <2>11. ASSUME NEW t \in Transfers, ReadResubmitFails(t) \/ ReadFails(t)
         PROVE  Life!Next \/ UNCHANGED Life!lifeVars
    BY <2>11, Ends DEF ReadResubmitFails, ReadFails, Served, InCallback, Error, modes, app
  <2>12. ASSUME NEW t \in Transfers, write_callback(t)
         PROVE  Life!Next \/ UNCHANGED Life!lifeVars
    <3>1. UNCHANGED <<modes, control>> /\ ~is_reading[t] /\ Served(t) /\ Confirm(t)
      BY <2>12 DEF write_callback, Served, InCallback
    <3>2. UNCHANGED <<Mode, Phase>>
      BY <3>1 DEF Mode, Phase, modes, control
    <3>3. CASE moved[t]
      BY <3>1, <3>2, <3>3, Confirms, TransfersAssumption
    <3>4. CASE ~moved[t]
      BY <3>1, <3>2, <3>4 DEF Confirm, Confirmed, Life!lifeVars
    <3>. QED BY <3>3, <3>4
  <2>13. ASSUME NEW t \in Transfers, WriteResubmitFails(t)
         PROVE  Life!Next \/ UNCHANGED Life!lifeVars
    <3>1. UNCHANGED modes /\ Error /\ ~is_reading[t] /\ Served(t) /\ Confirm(t)
      BY <2>13 DEF WriteResubmitFails, Served, InCallback
    <3>2. Mode' = Mode /\ Mode # "none" /\ Phase' = "ended"
      BY <3>1, CallbackHasMode DEF Mode, Phase, modes, Error, Served
    <3>3. CASE moved[t]
      BY <3>1, <3>2, <3>3, Confirms, TransfersAssumption
    <3>4. CASE ~moved[t]
      BY <3>1, <3>4, Ends DEF Confirm, Confirmed, Error, modes
    <3>. QED BY <3>3, <3>4
  <2>14. ASSUME NEW op \in Requests, NEW s \in Streams, CallbackRequest(op, s)
         PROVE  Life!Next \/ UNCHANGED Life!lifeVars
    BY <2>14, Stutters DEF CallbackRequest, modes, app
  <2>. QED BY <1>4, <2>1, <2>2, <2>3, <2>4, <2>5, <2>6, <2>7, <2>8, <2>9, <2>10, <2>11, <2>12, <2>13,
              <2>14 DEF EngineStep, Dispatch, Callback
<1>5. CASE Environment
  <2>1. CASE Tick
    BY <2>1, Stutters DEF Tick, control, modes, app
  <2>2. ASSUME NEW s \in Streams, AppWrite(s)
        PROVE  Life!Next \/ UNCHANGED Life!lifeVars
    <3>1. UNCHANGED <<Mode, Phase>>
      BY <2>2 DEF AppWrite, Mode, Phase, control, modes
    <3>. QED BY <2>2, <3>1 DEF AppWrite, Life!Write
  <2>3. ASSUME NEW t \in Transfers, NEW status \in Returned, NEW data \in BOOLEAN,
               UsbDone(t, status, data)
        PROVE  Life!Next \/ UNCHANGED Life!lifeVars
    <3>1. UNCHANGED <<Mode, Phase, wqueue>>
      BY <2>3 DEF UsbDone, Mode, Phase, control, modes
    <3>2. CASE data /\ ~is_reading[t]
      <4>1. usb[t] # "idle"
        BY <2>3 DEF UsbDone
      <4>2. wqueue[stream_id[t]] > 0
        BY <3>2, <4>1 DEF IInv, TransferInv, FlightInv, WriterHasData
      <4>3. Phase # "stopped"
        BY <4>1 DEF IInv, TransferInv, FlightInv, EngineHasState, Mode, Phase
      <4>4. Life!Take(stream_id[t])
        BY <2>3, <3>1, <3>2, <4>2, <4>3 DEF UsbDone, Life!Take
      <4>. QED BY <4>4, TransfersAssumption
    <3>3. CASE ~(data /\ ~is_reading[t])
      BY <2>3, <3>1, <3>3 DEF UsbDone, Life!lifeVars
    <3>. QED BY <3>2, <3>3
  <2>. QED BY <1>5, <2>1, <2>2, <2>3 DEF Environment
<1>. QED BY <1>1, <1>2, <1>3, <1>4, <1>5 DEF Next

\* Whatever callers, engine and device do, and in either mode, FtdiStream shows
\* its users the life of StreamLife: one engine at a time, an end that shows and
\* is final until the stop, a buffer that moves on only past what the device took.
THEOREM ImplementsLife == Spec => LivesAsPromised
<1>1. Init => Life!Init /\ MovedIsTaken /\ EndedThread
  <2>1. Init => Life!Init
    BY BoundsAssumption DEF Init, Life!Init, Mode, Phase
  <2>2. Init => MovedIsTaken /\ EndedThread
    BY DEF Init, MovedIsTaken, EndedThread
  <2>. QED BY <2>1, <2>2
<1>2. IInv /\ MovedIsTaken /\ EndedThread /\ [Next]_vars => (MovedIsTaken /\ EndedThread)'
  BY MovedIsTakenStep, EndedThreadStep
<1>3. IInv /\ MovedIsTaken /\ EndedThread /\ [Next]_vars => [Life!Next]_(Life!lifeVars)
  BY LifeStep
<1>. QED BY <1>1, <1>2, <1>3, Invariance, PTL DEF Spec, LivesAsPromised, Life!Spec
=============================================================================
