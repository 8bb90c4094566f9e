-------------------------- MODULE AsyncEngineProofs --------------------------
(***************************************************************************)
(* AsyncEngine keeps its inductive invariant, for every number of          *)
(* transfers and every kind and number of faults; and on a healthy bus a   *)
(* stronger one, from which follows that no transfer is lost or freed in   *)
(* flight.                                                                 *)
(***************************************************************************)
EXTENDS AsyncEngineInv, TLAPS

USE NAssumption, EngineAssumption

(* The typing invariant is inductive together with the ranges of the loop   *)
(* indices.  A step that sets a Boolean names it first: the SMT backend does *)
(* not see by itself that FALSE is in BOOLEAN.                              *)
LEMMA TypeStep == TypeOK /\ RangeInv /\ [Next]_vars => TypeOK' /\ RangeInv'
<1> SUFFICES ASSUME TypeOK /\ RangeInv, [Next]_vars PROVE TypeOK' /\ RangeInv'
  OBVIOUS
<1> USE DEF TypeOK, UsbTypeOK, XferStatus, Flags, AsyncStatus, ReaderPc, CmdPc,
            RangeInv, StoppedPc,
            Xfers, Threads, NoCallback, NoExpiry, ListFree, usbVars, devVars, readerVars, cmdVars,
            envVars, engineVars, Fault, ReaderGoto, CmdGoto, FreeXfers,
            CanSubmit, Submitted, Cancelled, CallbackReturns
<1>0. plan.retunes \in Nat
  BY DEF FaultPlan
<1>1. CASE Reader
  <2>1. CASE Prepare
    BY <2>1 DEF Prepare
  <2>2. CASE SubmitNext
    BY <2>2 DEF SubmitNext
  <2>3. CASE SubmitFails
    BY <2>3 DEF SubmitFails
  <2>4. CASE IsoDrained
    BY <2>4 DEF IsoDrained
  <2>5. CASE IsoFallBack
    <3>1. alloc' \in BOOLEAN
      BY <2>5, Zenon DEF IsoFallBack
    <3> QED
      BY <2>5, <3>1 DEF IsoFallBack
  <2>6. CASE StartStream
    BY <2>6 DEF StartStream
  <2>7. CASE SetRunning
    BY <2>7 DEF SetRunning
  <2>8. CASE EventsReturn
    BY <2>8 DEF EventsReturn
  <2>9. CASE EventsFail
    BY <2>9 DEF EventsFail
  <2>10. CASE CheckStreaming
    BY <2>10 DEF CheckStreaming
  <2>11. CASE CheckFailed
    BY <2>11 DEF CheckFailed
  <2>12. CASE CancelRest
    BY <2>12 DEF CancelRest
  <2>13. CASE CancelDone
    BY <2>13 DEF CancelDone
  <2>14. CASE LastEvents
    BY <2>14 DEF LastEvents
  <2>15. CASE CancelFree
    <3>1. alloc' \in BOOLEAN
      BY <2>15, Zenon DEF CancelFree
    <3> QED
      BY <2>15, <3>1 DEF CancelFree
  <2>16. CASE StopStream
    <3>1. streaming' \in BOOLEAN
      BY <2>16, Zenon DEF StopStream
    <3> QED
      BY <2>16, <3>1 DEF StopStream
  <2>17. CASE Fail
    BY <2>17 DEF Fail
  <2>18. CASE DrainCheck
    BY <2>18 DEF DrainCheck
  <2>19. CASE DrainEvents
    BY <2>19 DEF DrainEvents
  <2>20. CASE FailFree
    <3>1. alloc' \in BOOLEAN
      BY <2>20, Zenon DEF FailFree
    <3> QED
      BY <2>20, <3>1 DEF FailFree
  <2>21. CASE FailStop
    <3>1. streaming' \in BOOLEAN
      BY <2>21, Zenon DEF FailStop
    <3> QED
      BY <2>21, <3>1 DEF FailStop
  <2>22. CASE FailReturn
    BY <2>22 DEF FailReturn
  <2>23. CASE Close
    BY <2>23 DEF Close
  <2>24. CASE CloseTimeout
    BY SMTT(30), <2>24 DEF CloseTimeout
  <2> QED
    BY <1>1, <2>1, <2>2, <2>3, <2>4, <2>5, <2>6, <2>7, <2>8, <2>9, <2>10, <2>11, <2>12, <2>13, <2>14, <2>15, <2>16, <2>17, <2>18, <2>19, <2>20, <2>21, <2>22, <2>23, <2>24 DEF Reader
<1>2. CASE Cmd
  <2>3. CASE SetHard
    BY <1>0, <2>3 DEF SetHard
  <2>4. CASE StopScan
    BY <2>4 DEF StopScan
  <2>5. CASE StopEvents
    BY <2>5 DEF StopEvents
  <2>6. CASE StopEventsFail
    BY <2>6 DEF StopEventsFail
  <2>7. CASE StopCheck
    BY <2>7 DEF StopCheck
  <2>8. CASE StopStreamCmd
    <3>1. streaming' \in BOOLEAN
      BY <2>8, Zenon DEF StopStreamCmd
    <3> QED
      BY <2>8, <3>1 DEF StopStreamCmd
  <2>9. CASE SetPaused
    BY <2>9 DEF SetPaused
  <2>10. CASE WriteRegs
    BY <2>10 DEF WriteRegs
  <2>11. CASE StartAsync
    BY <1>0, <2>11 DEF StartAsync
  <2>12. CASE Resubmit
    BY <2>12 DEF Resubmit
  <2>13. CASE ResubmitFails
    BY SMTT(30), <2>13 DEF ResubmitFails
  <2>14. CASE Recheck
    BY <2>14 DEF Recheck
  <2>15. CASE StartStreamCmd
    BY <2>15 DEF StartStreamCmd
  <2>16. CASE SetRunningAgain
    BY <2>16 DEF SetRunningAgain
  <2> QED
    BY <1>2, <2>3, <2>4, <2>5, <2>6, <2>7, <2>8, <2>9, <2>10, <2>11, <2>12, <2>13, <2>14, <2>15, <2>16 DEF Cmd
<1>3. CASE Usb
  <2>1. CASE \E i \in Xfers, t \in Threads :
               Data(i, t) \/ Broken(i, t) \/ TimeOut(i, t) \/ Discarded(i, t) \/ Gone(i, t)
    <3> PICK i \in Xfers, t \in Threads :
           Data(i, t) \/ Broken(i, t) \/ TimeOut(i, t) \/ Discarded(i, t) \/ Gone(i, t)
      BY <2>1
    <3>1. CASE Data(i, t)
      BY <3>1 DEF Data, ReapData, Reap
    <3>2. CASE Broken(i, t)
      BY <3>2 DEF Broken, ReapBroken, Reap
    <3>3. CASE TimeOut(i, t)
      BY <3>3 DEF TimeOut, Discard
    <3>4. CASE Discarded(i, t)
      BY <3>4 DEF Discarded, ReapDiscarded, Reap
    <3>5. CASE Gone(i, t)
      BY <3>5 DEF Gone, ReapGone, Reap
    <3> QED
      BY <3>1, <3>2, <3>3, <3>4, <3>5
  <2>2. CASE \E t \in Threads : Overtaken(t)
    <3>1. expiry \in [x : Xfers, on : Threads, read : BOOLEAN]
      BY <2>2 DEF Overtaken, ReadFlags
    <3>2. expiry' = [expiry EXCEPT !.read = TRUE] /\ TRUE \in BOOLEAN
      BY <2>2, Zenon DEF Overtaken, ReadFlags
    <3>3. expiry' \in [x : Xfers, on : Threads, read : BOOLEAN]
      BY <3>1, <3>2, Zenon
    <3> QED
      BY <2>2, <3>3 DEF Overtaken, ReadFlags
  <2>3. CASE TimedOut
    BY <2>3 DEF TimedOut, Mark
  <2> QED
    BY <1>3, <2>1, <2>2, <2>3 DEF Usb
<1>4. CASE Callback
  <2>1. CASE CallbackResubmits
    BY <2>1 DEF CallbackResubmits
  <2>2. CASE CallbackFails
    BY <2>2 DEF CallbackFails
  <2>3. CASE CallbackCancelled
    BY <2>3 DEF CallbackCancelled
  <2> QED
    BY <1>4, <2>1, <2>2, <2>3 DEF Callback
<1>5. CASE Cancel
  BY <1>5 DEF Cancel
<1>6. CASE Unplug
  <2>1. plugged' \in BOOLEAN
    BY <1>6, Zenon DEF Unplug
  <2> QED
    BY <1>6, <2>1 DEF Unplug
<1>7. CASE Ended
  BY <1>7 DEF Ended, vars
<1>8. CASE UNCHANGED vars
  BY SMTT(30), <1>8 DEF vars
<1> QED
  BY SMTT(30), <1>1, <1>2, <1>3, <1>4, <1>5, <1>6, <1>7, <1>8 DEF Next

-----------------------------------------------------------------------------
(* The rest of the inductive invariant, one step per action.               *)
LEMMA InvStep == IInv /\ [Next]_vars => (CallbackInv /\ ExpiryInv /\ StartInv /\ CancelInv /\ FreshInv /\ StopInv /\ RestartInv)'
<1> SUFFICES ASSUME IInv, [Next]_vars PROVE (CallbackInv /\ ExpiryInv /\ StartInv /\ CancelInv /\ FreshInv /\ StopInv /\ RestartInv)'
  BY SMTT(30)
<1> USE DEF IInv, RangeInv, CallbackInv, ExpiryInv, StartInv, CancelInv, FreshInv, StopInv, RestartInv,
            TypeOK, UsbTypeOK, XferStatus, Flags, AsyncStatus, ReaderPc, CmdPc,
            StartingPc, CancelledPc, EndingPc, RetunePc, StoppedPc,
            InEvents, CanReturn, AllCancelled,
            Xfers, Threads, NoCallback, NoExpiry, ListFree, usbVars, devVars, readerVars, cmdVars,
            envVars, engineVars, Fault, ReaderGoto, CmdGoto, FreeXfers,
            CanSubmit, Submitted, Cancelled, CallbackReturns
<1>1. CASE Reader
  <2>1. CASE Prepare
    BY SMTT(30), <2>1 DEF Prepare
  <2>2. CASE SubmitNext
    BY <2>2 DEF SubmitNext
  <2>3. CASE SubmitFails
    BY <2>3 DEF SubmitFails
  <2>4. CASE IsoDrained
    BY <2>4 DEF IsoDrained
  <2>5. CASE IsoFallBack
    BY <2>5 DEF IsoFallBack
  <2>6. CASE StartStream
    BY <2>6 DEF StartStream
  <2>7. CASE SetRunning
    BY <2>7 DEF SetRunning
  <2>8. CASE EventsReturn
    BY <2>8 DEF EventsReturn
  <2>9. CASE EventsFail
    BY <2>9 DEF EventsFail
  <2>10. CASE CheckStreaming
    BY <2>10 DEF CheckStreaming
  <2>11. CASE CheckFailed
    BY <2>11 DEF CheckFailed
  <2>12. CASE CancelRest
    BY <2>12 DEF CancelRest
  <2>13. CASE CancelDone
    BY <2>13 DEF CancelDone
  <2>14. CASE LastEvents
    BY <2>14 DEF LastEvents
  <2>15. CASE CancelFree
    BY <2>15 DEF CancelFree
  <2>16. CASE StopStream
    BY <2>16 DEF StopStream
  <2>17. CASE Fail
    BY <2>17 DEF Fail
  <2>18. CASE DrainCheck
    BY <2>18 DEF DrainCheck
  <2>19. CASE DrainEvents
    BY <2>19 DEF DrainEvents
  <2>20. CASE FailFree
    BY <2>20 DEF FailFree
  <2>21. CASE FailStop
    BY <2>21 DEF FailStop
  <2>22. CASE FailReturn
    BY <2>22 DEF FailReturn
  <2>23. CASE Close
    BY <2>23 DEF Close
  <2>24. CASE CloseTimeout
    BY SMTT(30), <2>24 DEF CloseTimeout
  <2> QED
    BY <1>1, <2>1, <2>2, <2>3, <2>4, <2>5, <2>6, <2>7, <2>8, <2>9, <2>10, <2>11, <2>12, <2>13, <2>14, <2>15, <2>16, <2>17, <2>18, <2>19, <2>20, <2>21, <2>22, <2>23, <2>24 DEF Reader
<1>2. CASE Cmd
  <2>3. CASE SetHard
    BY <2>3 DEF SetHard
  <2>4. CASE StopScan
    BY <2>4 DEF StopScan
  <2>5. CASE StopEvents
    BY <2>5 DEF StopEvents
  <2>6. CASE StopEventsFail
    BY <2>6 DEF StopEventsFail
  <2>7. CASE StopCheck
    BY <2>7 DEF StopCheck
  <2>8. CASE StopStreamCmd
    BY <2>8 DEF StopStreamCmd
  <2>9. CASE SetPaused
    BY <2>9 DEF SetPaused
  <2>10. CASE WriteRegs
    BY <2>10 DEF WriteRegs
  <2>11. CASE StartAsync
    BY <2>11 DEF StartAsync
  <2>12. CASE Resubmit
    BY <2>12 DEF Resubmit
  <2>13. CASE ResubmitFails
    BY <2>13 DEF ResubmitFails
  <2>14. CASE Recheck
    BY <2>14 DEF Recheck
  <2>15. CASE StartStreamCmd
    BY <2>15 DEF StartStreamCmd
  <2>16. CASE SetRunningAgain
    BY <2>16 DEF SetRunningAgain
  <2> QED
    BY <1>2, <2>3, <2>4, <2>5, <2>6, <2>7, <2>8, <2>9, <2>10, <2>11, <2>12, <2>13, <2>14, <2>15, <2>16 DEF Cmd
<1>3. CASE Usb
  <2>1. CASE \E i \in Xfers, t \in Threads :
               Data(i, t) \/ Broken(i, t) \/ TimeOut(i, t) \/ Discarded(i, t) \/ Gone(i, t)
    <3> PICK i \in Xfers, t \in Threads :
           Data(i, t) \/ Broken(i, t) \/ TimeOut(i, t) \/ Discarded(i, t) \/ Gone(i, t)
      BY <2>1
    <3>1. CASE Data(i, t)
      BY <3>1 DEF Data, ReapData, Reap
    <3>2. CASE Broken(i, t)
      BY <3>2 DEF Broken, ReapBroken, Reap
    <3>3. CASE TimeOut(i, t)
      BY <3>3 DEF TimeOut, Discard
    <3>4. CASE Discarded(i, t)
      BY <3>4 DEF Discarded, ReapDiscarded, Reap
    <3>5. CASE Gone(i, t)
      BY <3>5 DEF Gone, ReapGone, Reap
    <3> QED
      BY <3>1, <3>2, <3>3, <3>4, <3>5
  <2>2. CASE \E t \in Threads : Overtaken(t)
    BY <2>2 DEF Overtaken, ReadFlags
  <2>3. CASE TimedOut
    BY <2>3 DEF TimedOut, Mark
  <2> QED
    BY <1>3, <2>1, <2>2, <2>3 DEF Usb
<1>4. CASE Callback
  <2>1. CASE CallbackResubmits
    BY <2>1 DEF CallbackResubmits
  <2>2. CASE CallbackFails
    BY <2>2 DEF CallbackFails
  <2>3. CASE CallbackCancelled
    BY <2>3 DEF CallbackCancelled
  <2> QED
    BY <1>4, <2>1, <2>2, <2>3 DEF Callback
<1>5. CASE Cancel
  BY <1>5 DEF Cancel
<1>6. CASE Unplug
  BY <1>6 DEF Unplug
<1>7. CASE Ended
  BY <1>7 DEF Ended, vars
<1>8. CASE UNCHANGED vars
  BY <1>8 DEF vars
<1> QED
  BY <1>1, <1>2, <1>3, <1>4, <1>5, <1>6, <1>7, <1>8 DEF Next

LEMMA InitInv == Init => IInv
<1> SUFFICES ASSUME Init PROVE IInv
  OBVIOUS
<1>0. plan.retunes \in Nat
  BY DEF Init, FaultPlan
<1>1. alloc \in BOOLEAN /\ streaming \in BOOLEAN /\ plugged \in BOOLEAN
  BY Zenon DEF Init, UsbInit
<1>2. TypeOK /\ RangeInv
  BY <1>0, <1>1 DEF Init, UsbInit, TypeOK, UsbTypeOK, Xfers, Threads, XferStatus, Flags,
     AsyncStatus, ReaderPc, CmdPc, NoCallback, RangeInv, StoppedPc
<1>3. CallbackInv /\ ExpiryInv /\ CancelInv /\ RestartInv
  BY DEF Init, UsbInit, CallbackInv, ExpiryInv, CancelInv, RestartInv, CancelledPc
<1>4. StartInv /\ FreshInv /\ StopInv
  BY DEF Init, UsbInit, StartInv, FreshInv, StopInv, RetunePc, CmdPc, StartingPc,
     CancelledPc, StoppedPc, Xfers
<1> QED
  BY <1>2, <1>3, <1>4 DEF IInv

\* The driver's state stays well-typed: in particular the loop indices of the
\* submission loops and the drain counter never leave their range.
THEOREM TypeCorrect == Spec => []TypeOK
<1>1. Init => TypeOK /\ RangeInv
  BY InitInv DEF IInv
<1>2. TypeOK /\ RangeInv /\ [Next]_vars => TypeOK' /\ RangeInv'
  BY TypeStep
<1> QED
  BY <1>1, <1>2, PTL DEF Spec

\* The inductive invariant holds in every reachable state.
THEOREM InductiveInvariant == Spec => []IInv
<1>1. IInv /\ [Next]_vars => IInv'
  <2> SUFFICES ASSUME IInv, [Next]_vars PROVE IInv'
    OBVIOUS
  <2>1. TypeOK' /\ RangeInv'
    BY TypeStep DEF IInv
  <2> QED
    BY <2>1, InvStep DEF IInv
<1> QED
  BY <1>1, InitInv, PTL DEF Spec

\* The free at the end of a cancelled stream (async.c:559) is safe as long as the
\* stream has not been restarted, for every number of transfers, every fault and
\* every interleaving of the threads.
THEOREM CancelPathIsQuiet == Spec => []CancelPathQuiet
<1>1. IInv => CancelPathQuiet
  <2> SUFFICES ASSUME IInv, rpc = "free", restarts = 0
               PROVE  Quiet /\ cb = NoCallback
    BY DEF CancelPathQuiet
  <2>1. AllCancelled /\ cb = NoCallback
    BY DEF IInv, StopInv, CancelledPc
  <2>2. Quiet
    BY <2>1 DEF IInv, FreshInv, AllCancelled, Quiet
  <2> QED
    BY <2>1, <2>2
<1> QED
  BY <1>1, InductiveInvariant, PTL

\* The first change of the sample rate writes the rate registers (hard.c:34 and
\* 172-173) only after every transfer has come back.
THEOREM FirstStopIsQuiet == Spec => []FirstStopQuiet
<1>1. IInv => FirstStopQuiet
  BY DEF IInv, FirstStopQuiet, FreshInv, StopInv, StoppedPc, AllCancelled, Quiet
<1> QED
  BY <1>1, InductiveInvariant, PTL

\* Neither the free of a cancelled stream nor the first change of the sample rate
\* meets a transfer in flight, for every number of transfers and every fault.
THEOREM StopsAreQuiet == Spec => []QuietStops
<1>1. CancelPathQuiet /\ FirstStopQuiet => QuietStops
  BY DEF QuietStops
<1> QED
  BY <1>1, CancelPathIsQuiet, FirstStopIsQuiet, PTL

-----------------------------------------------------------------------------
(* A healthy bus: libusb accepts every submission, its event loop does not   *)
(* fail, and the device stays plugged in.                                    *)

\* The streams that HealthInv is about.
HealthyRun == Healthy /\ plan.retunes <= 1

HealthyParts == PlacesInv /\ BusInv /\ AliveInv /\ FreedInv

\* No call fails, and there is one restart at most.
LEMMA HealthyBounds ==
  ASSUME IInv, HealthyRun
  PROVE  /\ {"submit", "events", "unplug"} \cap plan.faults = {}
         /\ retunes <= plan.retunes /\ plan.retunes <= 1 /\ retunes \in Nat /\ restarts \in Nat
<1>1. {"submit", "events", "unplug"} \cap plan.faults = {}
  BY DEF HealthyRun, Healthy, Hiccups
<1>2. plan.retunes \in Nat /\ retunes \in 0 .. plan.retunes /\ restarts \in 0 .. plan.retunes
  BY DEF IInv, TypeOK, FaultPlan
<1>3. plan.retunes <= 1
  BY DEF HealthyRun
<1> QED
  BY <1>1, <1>2, <1>3

\* The status and the places of the threads.
LEMMA PlacesStep ==
  ASSUME IInv, HealthyRun, HealthyParts, [Next]_vars PROVE PlacesInv'
<1> USE DEF HealthyParts, PlacesInv, BusInv,
            IInv, RangeInv, CallbackInv, ExpiryInv, StartInv, CancelInv, FreshInv, StopInv, RestartInv,
            TypeOK, UsbTypeOK,
            StartingPc, CancelledPc, EndingPc, RetunePc, CmdPc, StoppedPc,
            StreamPc, HealthyPc, ResumingPc, PausedPc,
            InEvents, CanReturn, AllCancelled,
            Xfers, Threads, NoCallback, NoExpiry, ListFree, usbVars, devVars, readerVars, cmdVars,
            envVars, engineVars, Fault, ReaderGoto, CmdGoto, FreeXfers,
            CanSubmit, Submitted, Cancelled, CallbackReturns
<1>0. /\ {"submit", "events", "unplug"} \cap plan.faults = {}
      /\ retunes <= plan.retunes /\ plan.retunes <= 1 /\ retunes \in Nat /\ restarts \in Nat
  BY HealthyBounds
<1>1. CASE Reader
  <2>1. CASE Prepare
    BY <1>0, <2>1 DEF Prepare
  <2>2. CASE SubmitNext
    BY <1>0, <2>2 DEF SubmitNext
  <2>3. CASE SubmitFails
    BY <1>0, <2>3 DEF SubmitFails
  <2>4. CASE IsoDrained
    BY <1>0, <2>4 DEF IsoDrained
  <2>5. CASE IsoFallBack
    BY <1>0, <2>5 DEF IsoFallBack
  <2>6. CASE StartStream
    BY <1>0, <2>6 DEF StartStream
  <2>7. CASE SetRunning
    BY <1>0, <2>7 DEF SetRunning
  <2>8. CASE EventsReturn
    BY <1>0, <2>8 DEF EventsReturn
  <2>9. CASE EventsFail
    BY <1>0, <2>9 DEF EventsFail
  <2>10. CASE CheckStreaming
    BY <1>0, <2>10 DEF CheckStreaming
  <2>11. CASE CheckFailed
    BY <1>0, <2>11 DEF CheckFailed
  <2>12. CASE CancelRest
    BY <1>0, <2>12 DEF CancelRest
  <2>13. CASE CancelDone
    BY <1>0, <2>13 DEF CancelDone
  <2>14. CASE LastEvents
    BY <1>0, <2>14 DEF LastEvents
  <2>15. CASE CancelFree
    BY <1>0, <2>15 DEF CancelFree
  <2>16. CASE StopStream
    BY <1>0, <2>16 DEF StopStream
  <2>17. CASE Fail
    BY <1>0, <2>17 DEF Fail
  <2>18. CASE DrainCheck
    BY <1>0, <2>18 DEF DrainCheck
  <2>19. CASE DrainEvents
    BY <1>0, <2>19 DEF DrainEvents
  <2>20. CASE FailFree
    BY <1>0, <2>20 DEF FailFree
  <2>21. CASE FailStop
    BY <1>0, <2>21 DEF FailStop
  <2>22. CASE FailReturn
    BY <1>0, <2>22 DEF FailReturn
  <2>23. CASE Close
    BY <1>0, <2>23 DEF Close
  <2>24. CASE CloseTimeout
    BY SMTT(30), <1>0, <2>24 DEF CloseTimeout
  <2> QED
    BY <1>1, <2>1, <2>2, <2>3, <2>4, <2>5, <2>6, <2>7, <2>8, <2>9, <2>10, <2>11, <2>12, <2>13, <2>14, <2>15, <2>16, <2>17, <2>18, <2>19, <2>20, <2>21, <2>22, <2>23, <2>24 DEF Reader
<1>2. CASE Cmd
  <2>3. CASE SetHard
    BY <1>0, <2>3 DEF SetHard
  <2>4. CASE StopScan
    BY <1>0, <2>4 DEF StopScan
  <2>5. CASE StopEvents
    BY <1>0, <2>5 DEF StopEvents
  <2>6. CASE StopEventsFail
    BY <1>0, <2>6 DEF StopEventsFail
  <2>7. CASE StopCheck
    BY <1>0, <2>7 DEF StopCheck
  <2>8. CASE StopStreamCmd
    BY <1>0, <2>8 DEF StopStreamCmd
  <2>9. CASE SetPaused
    BY <1>0, <2>9 DEF SetPaused
  <2>10. CASE WriteRegs
    BY <1>0, <2>10 DEF WriteRegs
  <2>11. CASE StartAsync
    BY <1>0, <2>11 DEF StartAsync
  <2>12. CASE Resubmit
    BY <1>0, <2>12 DEF Resubmit, AliveInv
  <2>13. CASE ResubmitFails
    BY <1>0, <2>13 DEF ResubmitFails
  <2>14. CASE Recheck
    BY <1>0, <2>14 DEF Recheck
  <2>15. CASE StartStreamCmd
    BY <1>0, <2>15 DEF StartStreamCmd
  <2>16. CASE SetRunningAgain
    BY <1>0, <2>16 DEF SetRunningAgain
  <2> QED
    BY <1>2, <2>3, <2>4, <2>5, <2>6, <2>7, <2>8, <2>9, <2>10, <2>11, <2>12, <2>13, <2>14, <2>15, <2>16 DEF Cmd
<1>3. CASE Usb
  <2>1. CASE \E i \in Xfers, t \in Threads :
               Data(i, t) \/ Broken(i, t) \/ TimeOut(i, t) \/ Discarded(i, t) \/ Gone(i, t)
    <3> PICK i \in Xfers, t \in Threads :
           Data(i, t) \/ Broken(i, t) \/ TimeOut(i, t) \/ Discarded(i, t) \/ Gone(i, t)
      BY <2>1
    <3>1. CASE Data(i, t)
      BY <1>0, <3>1 DEF Data, ReapData, Reap
    <3>2. CASE Broken(i, t)
      BY <1>0, <3>2 DEF Broken, ReapBroken, Reap
    <3>3. CASE TimeOut(i, t)
      BY <1>0, <3>3 DEF TimeOut, Discard
    <3>4. CASE Discarded(i, t)
      BY <1>0, <3>4 DEF Discarded, ReapDiscarded, Reap
    <3>5. CASE Gone(i, t)
      BY <1>0, <3>5 DEF Gone, ReapGone, Reap
    <3> QED
      BY <3>1, <3>2, <3>3, <3>4, <3>5
  <2>2. CASE \E t \in Threads : Overtaken(t)
    BY <1>0, <2>2 DEF Overtaken, ReadFlags
  <2>3. CASE TimedOut
    BY <1>0, <2>3 DEF TimedOut, Mark
  <2> QED
    BY <1>3, <2>1, <2>2, <2>3 DEF Usb
<1>4. CASE Callback
  <2>1. CASE CallbackResubmits
    BY <1>0, <2>1 DEF CallbackResubmits
  <2>2. CASE CallbackFails
    BY <1>0, <2>2 DEF CallbackFails
  <2>3. CASE CallbackCancelled
    BY <1>0, <2>3 DEF CallbackCancelled
  <2> QED
    BY <1>4, <2>1, <2>2, <2>3 DEF Callback
<1>5. CASE Cancel
  BY <1>0, <1>5 DEF Cancel
<1>6. CASE Unplug
  BY <1>0, <1>6 DEF Unplug
<1>7. CASE Ended
  BY <1>0, <1>7 DEF Ended, vars
<1>8. CASE UNCHANGED vars
  BY <1>0, <1>8 DEF vars
<1> QED
  BY <1>1, <1>2, <1>3, <1>4, <1>5, <1>6, <1>7, <1>8 DEF Next

\* The bus and the callbacks.
LEMMA BusStep ==
  ASSUME IInv, HealthyRun, HealthyParts, [Next]_vars PROVE BusInv'
<1> USE DEF HealthyParts, PlacesInv, BusInv,
            IInv, RangeInv, CallbackInv, ExpiryInv, StartInv, CancelInv, FreshInv, StopInv, RestartInv,
            TypeOK, UsbTypeOK,
            StartingPc, CancelledPc, EndingPc, RetunePc, CmdPc, StoppedPc,
            StreamPc, HealthyPc, ResumingPc, PausedPc,
            InEvents, CanReturn, AllCancelled,
            Xfers, Threads, NoCallback, NoExpiry, ListFree, usbVars, devVars, readerVars, cmdVars,
            envVars, engineVars, Fault, ReaderGoto, CmdGoto, FreeXfers,
            CanSubmit, Submitted, Cancelled, CallbackReturns
<1>0. /\ {"submit", "events", "unplug"} \cap plan.faults = {}
      /\ retunes <= plan.retunes /\ plan.retunes <= 1 /\ retunes \in Nat /\ restarts \in Nat
  BY HealthyBounds
<1>1. CASE Reader
  <2>1. CASE Prepare
    BY <1>0, <2>1 DEF Prepare
  <2>2. CASE SubmitNext
    BY <1>0, <2>2 DEF SubmitNext
  <2>3. CASE SubmitFails
    BY <1>0, <2>3 DEF SubmitFails
  <2>4. CASE IsoDrained
    BY <1>0, <2>4 DEF IsoDrained
  <2>5. CASE IsoFallBack
    BY <1>0, <2>5 DEF IsoFallBack
  <2>6. CASE StartStream
    BY <1>0, <2>6 DEF StartStream
  <2>7. CASE SetRunning
    BY <1>0, <2>7 DEF SetRunning
  <2>8. CASE EventsReturn
    BY <1>0, <2>8 DEF EventsReturn
  <2>9. CASE EventsFail
    BY <1>0, <2>9 DEF EventsFail
  <2>10. CASE CheckStreaming
    BY <1>0, <2>10 DEF CheckStreaming
  <2>11. CASE CheckFailed
    BY <1>0, <2>11 DEF CheckFailed
  <2>12. CASE CancelRest
    BY <1>0, <2>12 DEF CancelRest
  <2>13. CASE CancelDone
    BY <1>0, <2>13 DEF CancelDone
  <2>14. CASE LastEvents
    BY <1>0, <2>14 DEF LastEvents
  <2>15. CASE CancelFree
    BY <1>0, <2>15 DEF CancelFree
  <2>16. CASE StopStream
    BY <1>0, <2>16 DEF StopStream
  <2>17. CASE Fail
    BY <1>0, <2>17 DEF Fail
  <2>18. CASE DrainCheck
    BY <1>0, <2>18 DEF DrainCheck
  <2>19. CASE DrainEvents
    BY <1>0, <2>19 DEF DrainEvents
  <2>20. CASE FailFree
    BY <1>0, <2>20 DEF FailFree
  <2>21. CASE FailStop
    BY <1>0, <2>21 DEF FailStop
  <2>22. CASE FailReturn
    BY <1>0, <2>22 DEF FailReturn
  <2>23. CASE Close
    BY <1>0, <2>23 DEF Close
  <2>24. CASE CloseTimeout
    BY <1>0, <2>24 DEF CloseTimeout
  <2> QED
    BY <1>1, <2>1, <2>2, <2>3, <2>4, <2>5, <2>6, <2>7, <2>8, <2>9, <2>10, <2>11, <2>12, <2>13, <2>14, <2>15, <2>16, <2>17, <2>18, <2>19, <2>20, <2>21, <2>22, <2>23, <2>24 DEF Reader
<1>2. CASE Cmd
  <2>3. CASE SetHard
    BY <1>0, <2>3 DEF SetHard
  <2>4. CASE StopScan
    BY <1>0, <2>4 DEF StopScan
  <2>5. CASE StopEvents
    BY <1>0, <2>5 DEF StopEvents
  <2>6. CASE StopEventsFail
    BY <1>0, <2>6 DEF StopEventsFail
  <2>7. CASE StopCheck
    BY <1>0, <2>7 DEF StopCheck
  <2>8. CASE StopStreamCmd
    BY <1>0, <2>8 DEF StopStreamCmd
  <2>9. CASE SetPaused
    BY <1>0, <2>9 DEF SetPaused
  <2>10. CASE WriteRegs
    BY <1>0, <2>10 DEF WriteRegs
  <2>11. CASE StartAsync
    BY <1>0, <2>11 DEF StartAsync
  <2>12. CASE Resubmit
    BY <1>0, <2>12 DEF Resubmit, AliveInv
  <2>13. CASE ResubmitFails
    BY <1>0, <2>13 DEF ResubmitFails
  <2>14. CASE Recheck
    BY <1>0, <2>14 DEF Recheck
  <2>15. CASE StartStreamCmd
    BY <1>0, <2>15 DEF StartStreamCmd
  <2>16. CASE SetRunningAgain
    BY <1>0, <2>16 DEF SetRunningAgain
  <2> QED
    BY <1>2, <2>3, <2>4, <2>5, <2>6, <2>7, <2>8, <2>9, <2>10, <2>11, <2>12, <2>13, <2>14, <2>15, <2>16 DEF Cmd
<1>3. CASE Usb
  <2>1. CASE \E i \in Xfers, t \in Threads :
               Data(i, t) \/ Broken(i, t) \/ TimeOut(i, t) \/ Discarded(i, t) \/ Gone(i, t)
    <3> PICK i \in Xfers, t \in Threads :
           Data(i, t) \/ Broken(i, t) \/ TimeOut(i, t) \/ Discarded(i, t) \/ Gone(i, t)
      BY <2>1
    <3>1. CASE Data(i, t)
      BY <1>0, <3>1 DEF Data, ReapData, Reap
    <3>2. CASE Broken(i, t)
      BY <1>0, <3>2 DEF Broken, ReapBroken, Reap
    <3>3. CASE TimeOut(i, t)
      BY <1>0, <3>3 DEF TimeOut, Discard
    <3>4. CASE Discarded(i, t)
      <4>1. cb' = [x |-> i, on |-> t] /\ fly' = [fly EXCEPT ![i] = "idle"] /\ UNCHANGED plugged
            /\ (xst' = [xst EXCEPT ![i] = "CANCELLED"] \/ xst' = [xst EXCEPT ![i] = "TIMED_OUT"])
        BY <3>4 DEF Discarded, ReapDiscarded, Reap
      <4>2. \A j \in Xfers : xst'[j] # "NO_DEVICE"
        BY <4>1
      <4>3. fly'[cb'.x] = "idle"
        BY <4>1
      <4> QED
        BY <4>1, <4>2, <4>3
    <3>5. CASE Gone(i, t)
      BY <1>0, <3>5 DEF Gone, ReapGone, Reap
    <3> QED
      BY <3>1, <3>2, <3>3, <3>4, <3>5
  <2>2. CASE \E t \in Threads : Overtaken(t)
    BY <1>0, <2>2 DEF Overtaken, ReadFlags
  <2>3. CASE TimedOut
    BY <1>0, <2>3 DEF TimedOut, Mark
  <2> QED
    BY <1>3, <2>1, <2>2, <2>3 DEF Usb
<1>4. CASE Callback
  <2>1. CASE CallbackResubmits
    BY <1>0, <2>1 DEF CallbackResubmits
  <2>2. CASE CallbackFails
    BY <1>0, <2>2 DEF CallbackFails
  <2>3. CASE CallbackCancelled
    BY <1>0, <2>3 DEF CallbackCancelled
  <2> QED
    BY <1>4, <2>1, <2>2, <2>3 DEF Callback
<1>5. CASE Cancel
  BY <1>0, <1>5 DEF Cancel
<1>6. CASE Unplug
  BY <1>0, <1>6 DEF Unplug
<1>7. CASE Ended
  BY <1>0, <1>7 DEF Ended, vars
<1>8. CASE UNCHANGED vars
  BY <1>0, <1>8 DEF vars
<1> QED
  BY <1>1, <1>2, <1>3, <1>4, <1>5, <1>6, <1>7, <1>8 DEF Next

\* No transfer is lost.
LEMMA AliveStep ==
  ASSUME IInv, HealthyRun, HealthyParts, [Next]_vars PROVE AliveInv'
<1> USE DEF HealthyParts, PlacesInv, BusInv, AliveInv, Alive,
            IInv, RangeInv, CallbackInv, ExpiryInv, StartInv, CancelInv, FreshInv, StopInv, RestartInv,
            TypeOK, UsbTypeOK,
            StartingPc, CancelledPc, EndingPc, RetunePc, CmdPc, StoppedPc,
            StreamPc, HealthyPc, ResumingPc, PausedPc,
            InEvents, CanReturn, AllCancelled,
            Xfers, Threads, NoCallback, NoExpiry, ListFree, usbVars, devVars, readerVars, cmdVars,
            envVars, engineVars, Fault, ReaderGoto, CmdGoto, FreeXfers,
            CanSubmit, Submitted, Cancelled, CallbackReturns
<1>0. /\ {"submit", "events", "unplug"} \cap plan.faults = {}
      /\ retunes <= plan.retunes /\ plan.retunes <= 1 /\ retunes \in Nat /\ restarts \in Nat
  BY HealthyBounds
<1>1. CASE Reader
  <2>1. CASE Prepare
    BY <1>0, <2>1 DEF Prepare
  <2>2. CASE SubmitNext
    BY <1>0, <2>2 DEF SubmitNext
  <2>3. CASE SubmitFails
    BY <1>0, <2>3 DEF SubmitFails
  <2>4. CASE IsoDrained
    BY <1>0, <2>4 DEF IsoDrained
  <2>5. CASE IsoFallBack
    BY <1>0, <2>5 DEF IsoFallBack
  <2>6. CASE StartStream
    BY <1>0, <2>6 DEF StartStream
  <2>7. CASE SetRunning
    BY <1>0, <2>7 DEF SetRunning
  <2>8. CASE EventsReturn
    BY <1>0, <2>8 DEF EventsReturn
  <2>9. CASE EventsFail
    BY <1>0, <2>9 DEF EventsFail
  <2>10. CASE CheckStreaming
    BY <1>0, <2>10 DEF CheckStreaming
  <2>11. CASE CheckFailed
    BY <1>0, <2>11 DEF CheckFailed
  <2>12. CASE CancelRest
    BY <1>0, <2>12 DEF CancelRest
  <2>13. CASE CancelDone
    BY <1>0, <2>13 DEF CancelDone
  <2>14. CASE LastEvents
    BY <1>0, <2>14 DEF LastEvents
  <2>15. CASE CancelFree
    BY <1>0, <2>15 DEF CancelFree
  <2>16. CASE StopStream
    BY <1>0, <2>16 DEF StopStream
  <2>17. CASE Fail
    BY <1>0, <2>17 DEF Fail
  <2>18. CASE DrainCheck
    BY <1>0, <2>18 DEF DrainCheck
  <2>19. CASE DrainEvents
    BY <1>0, <2>19 DEF DrainEvents
  <2>20. CASE FailFree
    BY <1>0, <2>20 DEF FailFree
  <2>21. CASE FailStop
    BY <1>0, <2>21 DEF FailStop
  <2>22. CASE FailReturn
    BY <1>0, <2>22 DEF FailReturn
  <2>23. CASE Close
    BY <1>0, <2>23 DEF Close
  <2>24. CASE CloseTimeout
    BY SMTT(30), <1>0, <2>24 DEF CloseTimeout
  <2> QED
    BY <1>1, <2>1, <2>2, <2>3, <2>4, <2>5, <2>6, <2>7, <2>8, <2>9, <2>10, <2>11, <2>12, <2>13, <2>14, <2>15, <2>16, <2>17, <2>18, <2>19, <2>20, <2>21, <2>22, <2>23, <2>24 DEF Reader
<1>2. CASE Cmd
  <2>3. CASE SetHard
    BY <1>0, <2>3 DEF SetHard
  <2>4. CASE StopScan
    BY <1>0, <2>4 DEF StopScan
  <2>5. CASE StopEvents
    BY <1>0, <2>5 DEF StopEvents
  <2>6. CASE StopEventsFail
    BY <1>0, <2>6 DEF StopEventsFail
  <2>7. CASE StopCheck
    BY <1>0, <2>7 DEF StopCheck
  <2>8. CASE StopStreamCmd
    BY <1>0, <2>8 DEF StopStreamCmd
  <2>9. CASE SetPaused
    BY <1>0, <2>9 DEF SetPaused
  <2>10. CASE WriteRegs
    BY <1>0, <2>10 DEF WriteRegs
  <2>11. CASE StartAsync
    <3>1. cpc = "startasync" /\ status = "paused"
      BY <2>11 DEF StartAsync
    <3>2. restarts < retunes
      BY <3>1
    <3>3. restarts = 0
      <4> HIDE DEF IInv, TypeOK, UsbTypeOK, AliveInv, PlacesInv, BusInv, HealthyParts
      <4>1. retunes \in Nat /\ restarts \in Nat /\ plan.retunes \in Nat
        BY <1>0 DEF IInv, TypeOK, FaultPlan
      <4> QED
        BY <1>0, <3>2, <4>1
    <3>4. \A i \in Xfers : xst[i] = "CANCELLED"
      BY <3>1, <3>3
    <3>5. \A i \in Xfers : fly[i] = "idle"
      BY <3>3, <3>4
    <3>6. cpc' = "resubmit" /\ ci' = 1 /\ UNCHANGED <<usbVars, devVars, readerVars>>
      BY <3>1, <2>11 DEF StartAsync
    <3>7. rpc \in StreamPc
      BY <3>1
    <3> QED
      BY <3>1, <3>4, <3>5, <3>6, <3>7 DEF AliveInv
  <2>12. CASE Resubmit
    BY <1>0, <2>12 DEF Resubmit
  <2>13. CASE ResubmitFails
    BY <1>0, <2>13 DEF ResubmitFails
  <2>14. CASE Recheck
    BY <1>0, <2>14 DEF Recheck
  <2>15. CASE StartStreamCmd
    BY <1>0, <2>15 DEF StartStreamCmd
  <2>16. CASE SetRunningAgain
    BY <1>0, <2>16 DEF SetRunningAgain
  <2> QED
    BY <1>2, <2>3, <2>4, <2>5, <2>6, <2>7, <2>8, <2>9, <2>10, <2>11, <2>12, <2>13, <2>14, <2>15, <2>16 DEF Cmd
<1>3. CASE Usb
  <2>1. CASE \E i \in Xfers, t \in Threads :
               Data(i, t) \/ Broken(i, t) \/ TimeOut(i, t) \/ Discarded(i, t) \/ Gone(i, t)
    <3> PICK i \in Xfers, t \in Threads :
           Data(i, t) \/ Broken(i, t) \/ TimeOut(i, t) \/ Discarded(i, t) \/ Gone(i, t)
      BY <2>1
    <3>1. CASE Data(i, t)
      BY <1>0, <3>1 DEF Data, ReapData, Reap
    <3>2. CASE Broken(i, t)
      BY <1>0, <3>2 DEF Broken, ReapBroken, Reap
    <3>3. CASE TimeOut(i, t)
      BY <1>0, <3>3 DEF TimeOut, Discard
    <3>4. CASE Discarded(i, t)
      <4>1. /\ cb = NoCallback /\ expiry = NoExpiry
            /\ cb' = [x |-> i, on |-> t] /\ fly' = [fly EXCEPT ![i] = "idle"]
            /\ \/ fly[i] = "canceling" /\ xst' = [xst EXCEPT ![i] = "CANCELLED"]
               \/ fly[i] = "expiring" /\ xst' = [xst EXCEPT ![i] = "TIMED_OUT"]
            /\ UNCHANGED <<devVars, readerVars, cmdVars>>
        BY <3>4 DEF Discarded, ReapDiscarded, Reap
      <4>2. ASSUME NEW j \in Xfers, Alive(j) PROVE Alive(j)'
        <5>1. fly[j] \in {"flying", "expiring"}
          BY <4>1, <4>2 DEF Alive
        <5>2. CASE j = i
          BY <4>1, <5>1, <5>2 DEF Alive
        <5>3. CASE j # i
          BY <4>1, <5>1, <5>3 DEF Alive
        <5> QED
          BY <5>2, <5>3
      <4>3. cpc = "resubmit" => i \notin ci .. N
        BY <4>1 DEF AliveInv
      <4> HIDE DEF Alive
      <4> QED
        BY <4>1, <4>2, <4>3 DEF AliveInv
    <3>5. CASE Gone(i, t)
      BY <1>0, <3>5 DEF Gone, ReapGone, Reap
    <3> QED
      BY <3>1, <3>2, <3>3, <3>4, <3>5
  <2>2. CASE \E t \in Threads : Overtaken(t)
    BY <1>0, <2>2 DEF Overtaken, ReadFlags
  <2>3. CASE TimedOut
    BY <1>0, <2>3 DEF TimedOut, Mark
  <2> QED
    BY <1>3, <2>1, <2>2, <2>3 DEF Usb
<1>4. CASE Callback
  <2>1. CASE CallbackResubmits
    BY <1>0, <2>1 DEF CallbackResubmits
  <2>2. CASE CallbackFails
    BY <1>0, <2>2 DEF CallbackFails
  <2>3. CASE CallbackCancelled
    BY <1>0, <2>3 DEF CallbackCancelled
  <2> QED
    BY <1>4, <2>1, <2>2, <2>3 DEF Callback
<1>5. CASE Cancel
  BY <1>0, <1>5 DEF Cancel
<1>6. CASE Unplug
  BY <1>0, <1>6 DEF Unplug
<1>7. CASE Ended
  BY <1>0, <1>7 DEF Ended, vars
<1>8. CASE UNCHANGED vars
  BY <1>0, <1>8 DEF vars
<1> QED
  BY <1>1, <1>2, <1>3, <1>4, <1>5, <1>6, <1>7, <1>8 DEF Next

\* A transfer is freed only once it is back.
LEMMA FreedStep ==
  ASSUME IInv, HealthyRun, HealthyParts, [Next]_vars PROVE FreedInv'
<1> USE DEF HealthyParts, PlacesInv, BusInv, FreedInv, LegalFree, Quiet,
            IInv, RangeInv, CallbackInv, ExpiryInv, StartInv, CancelInv, FreshInv, StopInv, RestartInv,
            TypeOK, UsbTypeOK,
            StartingPc, CancelledPc, EndingPc, RetunePc, CmdPc, StoppedPc,
            StreamPc, HealthyPc, ResumingPc, PausedPc,
            InEvents, CanReturn, AllCancelled,
            Xfers, Threads, NoCallback, NoExpiry, ListFree, usbVars, devVars, readerVars, cmdVars,
            envVars, engineVars, Fault, ReaderGoto, CmdGoto, FreeXfers,
            CanSubmit, Submitted, Cancelled, CallbackReturns
<1>0. /\ {"submit", "events", "unplug"} \cap plan.faults = {}
      /\ retunes <= plan.retunes /\ plan.retunes <= 1 /\ retunes \in Nat /\ restarts \in Nat
  BY HealthyBounds
<1>1. CASE Reader
  <2>1. CASE Prepare
    BY <1>0, <2>1 DEF Prepare
  <2>2. CASE SubmitNext
    BY <1>0, <2>2 DEF SubmitNext
  <2>3. CASE SubmitFails
    BY <1>0, <2>3 DEF SubmitFails
  <2>4. CASE IsoDrained
    BY <1>0, <2>4 DEF IsoDrained
  <2>5. CASE IsoFallBack
    BY <1>0, <2>5 DEF IsoFallBack
  <2>6. CASE StartStream
    BY <1>0, <2>6 DEF StartStream
  <2>7. CASE SetRunning
    BY <1>0, <2>7 DEF SetRunning
  <2>8. CASE EventsReturn
    BY <1>0, <2>8 DEF EventsReturn
  <2>9. CASE EventsFail
    BY <1>0, <2>9 DEF EventsFail
  <2>10. CASE CheckStreaming
    BY <1>0, <2>10 DEF CheckStreaming
  <2>11. CASE CheckFailed
    BY <1>0, <2>11 DEF CheckFailed
  <2>12. CASE CancelRest
    BY <1>0, <2>12 DEF CancelRest
  <2>13. CASE CancelDone
    BY <1>0, <2>13 DEF CancelDone
  <2>14. CASE LastEvents
    BY <1>0, <2>14 DEF LastEvents
  <2>15. CASE CancelFree
    BY <1>0, <2>15 DEF CancelFree
  <2>16. CASE StopStream
    BY <1>0, <2>16 DEF StopStream
  <2>17. CASE Fail
    BY <1>0, <2>17 DEF Fail
  <2>18. CASE DrainCheck
    BY <1>0, <2>18 DEF DrainCheck
  <2>19. CASE DrainEvents
    BY <1>0, <2>19 DEF DrainEvents
  <2>20. CASE FailFree
    BY <1>0, <2>20 DEF FailFree
  <2>21. CASE FailStop
    BY <1>0, <2>21 DEF FailStop
  <2>22. CASE FailReturn
    BY <1>0, <2>22 DEF FailReturn
  <2>23. CASE Close
    BY <1>0, <2>23 DEF Close
  <2>24. CASE CloseTimeout
    BY <1>0, <2>24 DEF CloseTimeout
  <2> QED
    BY <1>1, <2>1, <2>2, <2>3, <2>4, <2>5, <2>6, <2>7, <2>8, <2>9, <2>10, <2>11, <2>12, <2>13, <2>14, <2>15, <2>16, <2>17, <2>18, <2>19, <2>20, <2>21, <2>22, <2>23, <2>24 DEF Reader
<1>2. CASE Cmd
  <2>3. CASE SetHard
    BY <1>0, <2>3 DEF SetHard
  <2>4. CASE StopScan
    BY <1>0, <2>4 DEF StopScan
  <2>5. CASE StopEvents
    BY <1>0, <2>5 DEF StopEvents
  <2>6. CASE StopEventsFail
    BY <1>0, <2>6 DEF StopEventsFail
  <2>7. CASE StopCheck
    BY <1>0, <2>7 DEF StopCheck
  <2>8. CASE StopStreamCmd
    BY <1>0, <2>8 DEF StopStreamCmd
  <2>9. CASE SetPaused
    BY <1>0, <2>9 DEF SetPaused
  <2>10. CASE WriteRegs
    BY <1>0, <2>10 DEF WriteRegs
  <2>11. CASE StartAsync
    BY <1>0, <2>11 DEF StartAsync
  <2>12. CASE Resubmit
    BY <1>0, <2>12 DEF Resubmit
  <2>13. CASE ResubmitFails
    BY <1>0, <2>13 DEF ResubmitFails
  <2>14. CASE Recheck
    BY <1>0, <2>14 DEF Recheck
  <2>15. CASE StartStreamCmd
    BY <1>0, <2>15 DEF StartStreamCmd
  <2>16. CASE SetRunningAgain
    BY <1>0, <2>16 DEF SetRunningAgain
  <2> QED
    BY <1>2, <2>3, <2>4, <2>5, <2>6, <2>7, <2>8, <2>9, <2>10, <2>11, <2>12, <2>13, <2>14, <2>15, <2>16 DEF Cmd
<1>3. CASE Usb
  <2>1. CASE \E i \in Xfers, t \in Threads :
               Data(i, t) \/ Broken(i, t) \/ TimeOut(i, t) \/ Discarded(i, t) \/ Gone(i, t)
    <3> PICK i \in Xfers, t \in Threads :
           Data(i, t) \/ Broken(i, t) \/ TimeOut(i, t) \/ Discarded(i, t) \/ Gone(i, t)
      BY <2>1
    <3>1. CASE Data(i, t)
      BY <1>0, <3>1 DEF Data, ReapData, Reap
    <3>2. CASE Broken(i, t)
      BY <1>0, <3>2 DEF Broken, ReapBroken, Reap
    <3>3. CASE TimeOut(i, t)
      BY <1>0, <3>3 DEF TimeOut, Discard
    <3>4. CASE Discarded(i, t)
      BY <1>0, <3>4 DEF Discarded, ReapDiscarded, Reap
    <3>5. CASE Gone(i, t)
      BY <1>0, <3>5 DEF Gone, ReapGone, Reap
    <3> QED
      BY <3>1, <3>2, <3>3, <3>4, <3>5
  <2>2. CASE \E t \in Threads : Overtaken(t)
    BY <1>0, <2>2 DEF Overtaken, ReadFlags
  <2>3. CASE TimedOut
    BY <1>0, <2>3 DEF TimedOut, Mark
  <2> QED
    BY <1>3, <2>1, <2>2, <2>3 DEF Usb
<1>4. CASE Callback
  <2>1. CASE CallbackResubmits
    BY <1>0, <2>1 DEF CallbackResubmits
  <2>2. CASE CallbackFails
    BY <1>0, <2>2 DEF CallbackFails
  <2>3. CASE CallbackCancelled
    BY <1>0, <2>3 DEF CallbackCancelled
  <2> QED
    BY <1>4, <2>1, <2>2, <2>3 DEF Callback
<1>5. CASE Cancel
  BY <1>0, <1>5 DEF Cancel
<1>6. CASE Unplug
  BY <1>0, <1>6 DEF Unplug
<1>7. CASE Ended
  BY <1>0, <1>7 DEF Ended, vars
<1>8. CASE UNCHANGED vars
  BY <1>0, <1>8 DEF vars
<1> QED
  BY <1>1, <1>2, <1>3, <1>4, <1>5, <1>6, <1>7, <1>8 DEF Next

\* The plan of a run never changes, so that a run is healthy or not from its start.
LEMMA PlanStep == ASSUME [Next]_vars PROVE plan' = plan
<1> USE DEF envVars, engineVars, Fault, ReaderGoto, CmdGoto, FreeXfers
<1>1. CASE Reader
  BY <1>1 DEF Reader, Prepare, SubmitNext, SubmitFails, IsoDrained, IsoFallBack, StartStream,
     SetRunning, EventsReturn, EventsFail, CheckStreaming, CheckFailed, CancelRest,
     CancelDone, LastEvents, CancelFree, StopStream, Fail, DrainCheck, DrainEvents, FailFree,
     FailStop, FailReturn, Close, CloseTimeout
<1>2. CASE Cmd
  BY <1>2 DEF Cmd, SetHard, StopScan, StopEvents, StopEventsFail,
     StopCheck, StopStreamCmd, SetPaused, WriteRegs, StartAsync, Resubmit, ResubmitFails,
     Recheck, StartStreamCmd, SetRunningAgain
<1>3. CASE Usb
  BY <1>3 DEF Usb, Data, Broken, TimeOut, Discarded, Gone, Overtaken, TimedOut
<1>4. CASE Callback
  BY <1>4 DEF Callback, CallbackResubmits, CallbackFails, CallbackCancelled, CallbackReturns
<1>5. CASE Cancel \/ Unplug \/ Ended \/ UNCHANGED vars
  BY <1>5 DEF Cancel, Unplug, Ended, vars
<1> QED
  BY <1>1, <1>2, <1>3, <1>4, <1>5 DEF Next

LEMMA InitHealth == Init => HealthInv
<1> SUFFICES ASSUME Init PROVE HealthyParts
  BY DEF HealthInv, HealthyParts
<1> USE DEF Init, UsbInit
<1>1. PlacesInv
  BY DEF PlacesInv, HealthyPc, StreamPc, CancelledPc, RetunePc, CmdPc, PausedPc, ResumingPc
<1>2. BusInv /\ FreedInv
  BY DEF BusInv, NoCallback, FreedInv, LegalFree, Quiet
<1>3. AliveInv
  BY DEF AliveInv, ResumingPc
<1> QED
  BY <1>1, <1>2, <1>3 DEF HealthyParts

\* On a healthy bus, with at most one change of rate, the places of the threads, the
\* status and what each transfer does stay consistent.
THEOREM HealthInvariant == Spec => []HealthInv
<1>1. IInv /\ HealthInv /\ [Next]_vars => HealthInv'
  <2> SUFFICES ASSUME IInv, HealthInv, [Next]_vars, HealthyRun'
               PROVE  (PlacesInv /\ BusInv /\ AliveInv /\ FreedInv)'
    BY DEF HealthInv, HealthyRun
  <2>1. HealthyRun
    BY PlanStep DEF HealthyRun, Healthy
  <2>2. HealthyParts
    BY <2>1 DEF HealthInv, HealthyRun, HealthyParts
  <2> QED
    BY <2>1, <2>2, PlacesStep, BusStep, AliveStep, FreedStep
<1> QED
  BY <1>1, InitHealth, InductiveInvariant, PTL DEF Spec

\* A stream whose rate is never changed is never restarted.
LEMMA NeverRestarted ==
  ASSUME IInv, HealthInv, Healthy, plan.retunes = 0
  PROVE  restarts = 0 /\ HealthyParts
<1>1. retunes \in Nat /\ restarts \in Nat /\ retunes <= plan.retunes
  BY DEF IInv, TypeOK
<1>2. restarts <= retunes
  BY DEF IInv, RangeInv
<1> QED
  BY <1>1, <1>2 DEF HealthInv, HealthyParts

\* No transfer that libusb owns is freed, on any path through msisdr_read_async, by
\* a stream on a healthy bus whose rate is not changed: for every number of
\* transfers, and also when BULK replaces an ISOC that is not available.
THEOREM FreedIsQuiet == Spec => []FreedQuiet
<1>1. IInv /\ HealthInv => FreedQuiet
  BY NeverRestarted DEF FreedQuiet, HealthyParts, FreedInv
<1> QED
  BY <1>1, InductiveInvariant, HealthInvariant, PTL

\* On a healthy bus, with at most one change of rate, the command thread never works on
\* transfers that the reader has freed.
THEOREM NobodyRunsWild == Spec => []NoWildAccess
<1>1. HealthInv => NoWildAccess
  BY DEF NoWildAccess, HealthInv, PlacesInv
<1> QED
  BY <1>1, HealthInvariant, PTL

\* A stream on a healthy bus that reads RUNNING has lost none of its transfers, for
\* every number of them: not in _libusb_callback, not in the stop and the restart of
\* one change of rate, and not to a timeout whose handling is overtaken.
THEOREM StreamStaysAlive == Spec => []StreamAlive
<1>1. IInv /\ HealthInv => StreamAlive
  <2> SUFFICES ASSUME IInv, HealthInv, Healthy, plan.retunes <= 1,
                      status = "running", cpc = "idle", NEW i \in Xfers
               PROVE  fly[i] # "idle" \/ cb.x = i
    BY DEF StreamAlive
  <2>1. Alive(i)
    BY DEF HealthInv, AliveInv, RetunePc
  <2> QED
    BY <2>1 DEF Alive, IInv, ExpiryInv, NoExpiry, Xfers
<1> QED
  BY <1>1, InductiveInvariant, HealthInvariant, PTL

=============================================================================
