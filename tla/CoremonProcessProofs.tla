------------------------ MODULE CoremonProcessProofs ------------------------
(***************************************************************************)
(* A shutdown loses nothing unless the closer of the watcher gave up, for  *)
(* any number of blocks and of points per block, and with a signal between *)
(* any two steps.                                                          *)
(***************************************************************************)
EXTENDS CoremonProcess, TLAPS

\* The start binds the closers in their order.
StartInv ==
  /\ "influx" \in bound => mainPc \notin {"bindCancel", "newInflux", "bindInflux"}
  /\ (process = "up" /\ influxEnabled
        /\ mainPc \notin {"bindCancel", "newInflux", "bindInflux"}) => "influx" \in bound
  /\ "watcher" \in bound /\ influxEnabled => "influx" \in bound
  /\ influx # "none" <=> influxEnabled /\ mainPc \notin {"bindCancel", "newInflux"}
  /\ "influx" \in bound \/ mainPc = "bindInflux" => influxEnabled
  /\ process = "up" => todo = {} /\ influx # "closed" /\ ~waiting /\ lost = 0 /\ ~abandoned

\* A running handler call is where its variables say it is.
CallInv ==
  /\ call # "idle" <=> handling
  /\ left > 0 => call = "write"
  /\ handling => Watching /\ phase # "ended"
  /\ phase = "closing" => ~handling
  /\ isDone => phase = "ended"
  /\ influx = "none" => buffered = 0 /\ lost = 0
  /\ influx = "closed" => buffered = 0

\* What the closers that have been called leave behind.
CloseInv ==
  /\ waiting => "watcher" \in bound \ todo
  /\ abandoned => "watcher" \in bound \ todo /\ ~waiting
  /\ (process \in {"closing", "exited"} /\ "watcher" \in bound \ todo /\ ~waiting)
       => phase = "ended" \/ abandoned
  /\ influx = "closed" => "watcher" \notin todo /\ ~waiting
  /\ (influx = "closed" /\ "watcher" \in bound) => phase = "ended" \/ abandoned
  /\ (process \in {"closing", "exited"} /\ "influx" \in bound \ todo) => influx = "closed"
  /\ process = "exited" => todo = {} /\ ~waiting

LossInv ==
  /\ lost > 0 => Unattended
  /\ influxEnabled /\ process = "panicked" => Unattended

\* After its Close the watcher runs at most one more call, and only this call can write
\* to a closed client.
LastCallInv ==
  /\ waiting \/ abandoned => phase # "open"
  /\ "watcher" \in bound /\ lost > 0 =>
       /\ phase \in {"last", "ended"}
       /\ call # "work"
       /\ lost + left <= MaxPoints

SysInv ==
  /\ sysLate => cancelled
  /\ sysPc = "report" => ~sysLate

ProcessInv ==
  TypeOK /\ StartInv /\ CallInv /\ CloseInv /\ LossInv /\ LastCallInv /\ SysInv


LEMMA InitInv == Init => ProcessInv
  <1> SUFFICES ASSUME Init PROVE ProcessInv
    OBVIOUS
  <1> USE DEF Init, Unattended, MainPcs, Closers, Feed!FeedInit, Watching
  <1>1. TypeOK
    <2>1. frontier \in 0 .. MaxHeight /\ left \in 0 .. MaxPoints
      BY ProcessAssumption
    <2>2. bound \subseteq Closers /\ todo \subseteq bound
      OBVIOUS
    <2> QED
      BY <2>1, <2>2 DEF TypeOK
  <1>2. StartInv
    BY DEF StartInv
  <1>3. CallInv
    BY DEF CallInv
  <1>4. CloseInv
    BY DEF CloseInv
  <1>5. LossInv
    BY DEF LossInv
  <1>6. LastCallInv
    BY DEF LastCallInv
  <1>7. SysInv
    BY DEF SysInv
  <1> QED
    BY <1>1, <1>2, <1>3, <1>4, <1>5, <1>6, <1>7 DEF ProcessInv

\* The steps of processCmd: a closer is only bound while nothing is closing.
LEMMA MainKeepsInv ==
  ASSUME ProcessInv, Alive, MainStep
  PROVE  ProcessInv'
  <1> USE DEF ProcessInv, TypeOK, StartInv, CallInv, CloseInv, LossInv,
              LastCallInv, SysInv, Unattended, options, feedVars, handlerVars, clientVars,
              closeVars, sysVars, Alive
  <1>1. CASE BindCancel
    BY <1>1, ProcessAssumption DEF BindCancel, Bind, MainPcs, Closers, Watching
  <1>2. CASE NewInflux
    BY <1>2, ProcessAssumption DEF NewInflux, MainPcs, Closers, Watching
  <1>3. CASE BindInflux
    BY <1>3, ProcessAssumption DEF BindInflux, Bind, MainPcs, Closers, Watching
  <1>4. CASE NewWatcher
    BY <1>4, ProcessAssumption DEF NewWatcher, MainPcs, Closers, Watching
  <1>5. CASE NewWatcherFails
    <2>1. CASE Shutdown
      BY <1>5, <2>1, ProcessAssumption DEF NewWatcherFails, Shutdown, MainPcs, Closers, Watching
    <2>2. CASE process = "closing" /\ UNCHANGED <<process, todo>>
      BY <1>5, <2>2, ProcessAssumption DEF NewWatcherFails, MainPcs, Closers, Watching
    <2> QED
      BY <1>5, <2>1, <2>2 DEF NewWatcherFails
  <1>6. CASE StartWatcher
    BY <1>6, ProcessAssumption DEF StartWatcher, MainPcs, Closers, Watching
  <1>7. CASE BindWatcher
    <2>1. TypeOK'
      BY <1>7, ProcessAssumption DEF BindWatcher, Bind, MainPcs, Closers, Watching
    <2>2. StartInv'
      BY <1>7, ProcessAssumption DEF BindWatcher, Bind, MainPcs, Closers, Watching
    <2>3. CallInv'
      BY <1>7, ProcessAssumption DEF BindWatcher, Bind, MainPcs, Closers, Watching
    <2>4. CloseInv'
      BY <1>7, ProcessAssumption DEF BindWatcher, Bind, MainPcs, Closers, Watching
    <2>5. LossInv'
      BY <1>7, ProcessAssumption DEF BindWatcher, Bind, MainPcs, Closers, Watching
    <2>6. SysInv'
      BY <1>7, ProcessAssumption DEF BindWatcher, Bind, MainPcs, Closers, Watching
    <2>7. LastCallInv'
      BY <1>7, ProcessAssumption DEF BindWatcher, Bind, MainPcs, Closers, Watching
    <2> QED
      BY <2>1, <2>2, <2>3, <2>4, <2>5, <2>6, <2>7
  <1>8. CASE StartSysWatcher
    BY <1>8, ProcessAssumption DEF StartSysWatcher, MainPcs, Closers, Watching
  <1>9. CASE BindSysWatcher
    BY <1>9, ProcessAssumption DEF BindSysWatcher, Bind, MainPcs, Closers, Watching
  <1> HIDE DEF ProcessInv
  <1> QED
    BY <1>1, <1>2, <1>3, <1>4, <1>5, <1>6, <1>7, <1>8, <1>9 DEF MainStep

\* The closers run against whatever the other goroutines do.
LEMMA CloserKeepsInv ==
  ASSUME ProcessInv, Alive, CloserStep
  PROVE  ProcessInv'
  <1> USE DEF ProcessInv, TypeOK, StartInv, CallInv, CloseInv, LossInv,
              LastCallInv, SysInv, Unattended, options, feedVars, handlerVars, clientVars,
              closeVars, sysVars, Alive
  <1>1. CASE CancelRoot
    BY <1>1, ProcessAssumption DEF CancelRoot, Calls, Rank, Closers, Watching
  <1>2. CASE CloseInflux
    <2>1. TypeOK'
      BY <1>2, ProcessAssumption DEF CloseInflux, Calls, Rank, Closers, Watching
    <2>2. StartInv'
      BY <1>2, ProcessAssumption DEF CloseInflux, Calls, Rank, Closers, Watching
    <2>3. CallInv'
      BY <1>2, ProcessAssumption DEF CloseInflux, Calls, Rank, Closers, Watching
    <2>4. CloseInv'
      BY <1>2, ProcessAssumption DEF CloseInflux, Calls, Rank, Closers, Watching
    <2>5. LossInv'
      BY <1>2, ProcessAssumption DEF CloseInflux, Calls, Rank, Closers, Watching
    <2>6. SysInv'
      BY <1>2, ProcessAssumption DEF CloseInflux, Calls, Rank, Closers, Watching
    <2>7. LastCallInv'
      BY <1>2, ProcessAssumption DEF CloseInflux, Calls, Rank, Closers, Watching
    <2> QED
      BY <2>1, <2>2, <2>3, <2>4, <2>5, <2>6, <2>7
  <1>3. CASE CloseSysWatcher
    BY <1>3, ProcessAssumption DEF CloseSysWatcher, Calls, Rank, Closers, Watching
  <1>4. CASE CloseWatcher
    BY <1>4, ProcessAssumption DEF CloseWatcher, Calls, Rank, Feed!AskToClose, Closers, Watching
  <1>5. CASE CloseSeesDone
    BY <1>5, ProcessAssumption DEF CloseSeesDone, Closers, Watching
  <1>6. CASE CloseGivesUp
    <2>1. TypeOK'
      BY <1>6, ProcessAssumption DEF CloseGivesUp, Closers, Watching
    <2>2. StartInv'
      BY <1>6, ProcessAssumption DEF CloseGivesUp, Closers, Watching
    <2>3. CallInv'
      BY <1>6, ProcessAssumption DEF CloseGivesUp, Closers, Watching
    <2>4. CloseInv'
      BY <1>6, ProcessAssumption DEF CloseGivesUp, Closers, Watching
    <2>5. LossInv'
      BY <1>6, ProcessAssumption DEF CloseGivesUp, Closers, Watching
    <2>6. SysInv'
      BY <1>6, ProcessAssumption DEF CloseGivesUp, Closers, Watching
    <2>7. LastCallInv'
      BY <1>6, ProcessAssumption DEF CloseGivesUp, Closers, Watching
    <2> QED
      BY <2>1, <2>2, <2>3, <2>4, <2>5, <2>6, <2>7
  <1>7. CASE Exit
    BY <1>7, ProcessAssumption DEF Exit, Closers, Watching
  <1> HIDE DEF ProcessInv
  <1> QED
    BY <1>1, <1>2, <1>3, <1>4, <1>5, <1>6, <1>7 DEF CloserStep

\* The block watcher and its handler.
LEMMA WatcherKeepsInv ==
  ASSUME ProcessInv, Alive, WatcherStep
  PROVE  ProcessInv'
  <1> USE DEF ProcessInv, TypeOK, StartInv, CallInv, CloseInv, LossInv,
              LastCallInv, SysInv, Unattended, options, feedVars, handlerVars, clientVars,
              closeVars, sysVars, Alive
  <1>a. Watching
    BY DEF WatcherStep
  <1>1. CASE FirstBlock
    BY <1>1, <1>a, ProcessAssumption DEF FirstBlock, Feed!First, Feed!InReach, Watching
  <1>2. CASE HandlerCalled
    <2>1. TypeOK'
      BY <1>2, <1>a, ProcessAssumption DEF HandlerCalled, Feed!Handle, Feed!Onward, Watching
    <2>2. StartInv'
      BY <1>2, <1>a, ProcessAssumption DEF HandlerCalled, Feed!Handle, Feed!Onward, Watching
    <2>3. CallInv'
      BY <1>2, <1>a, ProcessAssumption DEF HandlerCalled, Feed!Handle, Feed!Onward, Watching
    <2>4. CloseInv'
      BY <1>2, <1>a, ProcessAssumption DEF HandlerCalled, Feed!Handle, Feed!Onward, Watching
    <2>5. LossInv'
      BY <1>2, <1>a, ProcessAssumption DEF HandlerCalled, Feed!Handle, Feed!Onward, Watching
    <2>6. SysInv'
      BY <1>2, <1>a, ProcessAssumption DEF HandlerCalled, Feed!Handle, Feed!Onward, Watching
    <2>7. LastCallInv'
      BY <1>2, <1>a, ProcessAssumption DEF HandlerCalled, Feed!Handle, Feed!Onward, Watching
    <2> QED
      BY <2>1, <2>2, <2>3, <2>4, <2>5, <2>6, <2>7
  <1>3. CASE PointsReady
    <2>1. TypeOK'
      BY <1>3, <1>a, ProcessAssumption DEF PointsReady, Watching
    <2>2. StartInv'
      BY <1>3, <1>a, ProcessAssumption DEF PointsReady, Watching
    <2>3. CallInv'
      BY <1>3, <1>a, ProcessAssumption DEF PointsReady, Watching
    <2>4. CloseInv'
      BY <1>3, <1>a, ProcessAssumption DEF PointsReady, Watching
    <2>5. LossInv'
      BY <1>3, <1>a, ProcessAssumption DEF PointsReady, Watching
    <2>6. SysInv'
      BY <1>3, <1>a, ProcessAssumption DEF PointsReady, Watching
    <2>7. LastCallInv'
      BY <1>3, <1>a, ProcessAssumption DEF PointsReady, Watching
    <2> QED
      BY <2>1, <2>2, <2>3, <2>4, <2>5, <2>6, <2>7
  <1>4. CASE WatcherFails
    <2>1. TypeOK'
      BY <1>4, <1>a, ProcessAssumption DEF WatcherFails, Feed!Fail, Watching
    <2>2. StartInv'
      BY <1>4, <1>a, ProcessAssumption DEF WatcherFails, Feed!Fail, Watching
    <2>3. CallInv'
      BY <1>4, <1>a, ProcessAssumption DEF WatcherFails, Feed!Fail, Watching
    <2>4. CloseInv'
      BY <1>4, <1>a, ProcessAssumption DEF WatcherFails, Feed!Fail, Watching
    <2>5. LossInv'
      BY <1>4, <1>a, ProcessAssumption DEF WatcherFails, Feed!Fail, Watching
    <2>6. SysInv'
      BY <1>4, <1>a, ProcessAssumption DEF WatcherFails, Feed!Fail, Watching
    <2>7. LastCallInv'
      BY <1>4, <1>a, ProcessAssumption DEF WatcherFails, Feed!Fail, Watching
    <2> QED
      BY <2>1, <2>2, <2>3, <2>4, <2>5, <2>6, <2>7
  <1>5. CASE WritePoint
    BY <1>5, <1>a, ProcessAssumption DEF WritePoint, Watching
  <1>6. CASE WriteToClosed
    BY <1>6, <1>a, ProcessAssumption DEF WriteToClosed, Watching
  <1>7. CASE WriteToNone
    BY <1>7, <1>a, ProcessAssumption DEF WriteToNone, Watching
  <1>8. CASE Flush
    BY <1>8, <1>a, ProcessAssumption DEF Flush, Watching
  <1>9. CASE HandlerReturns
    <2>1. TypeOK'
      BY <1>9, <1>a, ProcessAssumption DEF HandlerReturns, Feed!Finish, Watching
    <2>2. StartInv'
      BY <1>9, <1>a, ProcessAssumption DEF HandlerReturns, Feed!Finish, Watching
    <2>3. CallInv'
      BY <1>9, <1>a, ProcessAssumption DEF HandlerReturns, Feed!Finish, Watching
    <2>4. CloseInv'
      BY <1>9, <1>a, ProcessAssumption DEF HandlerReturns, Feed!Finish, Watching
    <2>5. LossInv'
      BY <1>9, <1>a, ProcessAssumption DEF HandlerReturns, Feed!Finish, Watching
    <2>6. SysInv'
      BY <1>9, <1>a, ProcessAssumption DEF HandlerReturns, Feed!Finish, Watching
    <2>7. LastCallInv'
      BY <1>9, <1>a, ProcessAssumption DEF HandlerReturns, Feed!Finish, Watching
    <2> QED
      BY <2>1, <2>2, <2>3, <2>4, <2>5, <2>6, <2>7
  <1>10. CASE LoopStops
    <2>1. TypeOK'
      BY <1>10, <1>a, ProcessAssumption DEF LoopStops, Feed!Stop, Watching
    <2>2. StartInv'
      BY <1>10, <1>a, ProcessAssumption DEF LoopStops, Feed!Stop, Watching
    <2>3. CallInv'
      BY <1>10, <1>a, ProcessAssumption DEF LoopStops, Feed!Stop, Watching
    <2>4. CloseInv'
      BY <1>10, <1>a, ProcessAssumption DEF LoopStops, Feed!Stop, Watching
    <2>5. LossInv'
      BY <1>10, <1>a, ProcessAssumption DEF LoopStops, Feed!Stop, Watching
    <2>6. SysInv'
      BY <1>10, <1>a, ProcessAssumption DEF LoopStops, Feed!Stop, Watching
    <2>7. LastCallInv'
      BY <1>10, <1>a, ProcessAssumption DEF LoopStops, Feed!Stop, Watching
    <2> QED
      BY <2>1, <2>2, <2>3, <2>4, <2>5, <2>6, <2>7
  <1> HIDE DEF ProcessInv
  <1> QED
    BY <1>1, <1>2, <1>3, <1>4, <1>5, <1>6, <1>7, <1>8, <1>9, <1>10 DEF WatcherStep

\* The goroutine of the system watcher.
LEMMA SysKeepsInv ==
  ASSUME ProcessInv, SysStep
  PROVE  ProcessInv'
  <1> UNCHANGED <<options, mainPc, process, handlerVars, clientVars, closeVars>>
    BY DEF SysStep
  <1>1. /\ sysPc' \in {"none", "wait", "mem", "disk", "du", "report", "ended"}
        /\ sysLate' \in BOOLEAN
        /\ SysInv'
    BY DEF SysStep, MeasureStarts, SysWatcherStops, MeasureFails, PartMeasured, Reported,
       ProcessInv, TypeOK, SysInv, closeVars
  <1>2. TypeOK' /\ StartInv' /\ CallInv' /\ CloseInv' /\ LossInv' /\ LastCallInv'
    BY <1>1 DEF ProcessInv, TypeOK, StartInv, CallInv, CloseInv, LossInv, LastCallInv, Unattended,
       Watching, options, feedVars, handlerVars, clientVars, closeVars
  <1> QED
    BY <1>1, <1>2 DEF ProcessInv

LEMMA NextKeepsInv == ProcessInv /\ [Next]_vars => ProcessInv'
  <1> SUFFICES ASSUME ProcessInv, [Next]_vars PROVE ProcessInv'
    OBVIOUS
  <1>1. CASE UNCHANGED vars
    BY <1>1 DEF vars, ProcessInv, TypeOK, StartInv, CallInv, CloseInv, LossInv,
       LastCallInv, SysInv, Unattended, Watching, options, feedVars, handlerVars, clientVars,
       closeVars, sysVars
  <1>2. CASE Alive /\ Signal
    BY <1>2 DEF Signal, Shutdown, ProcessInv, TypeOK, StartInv, CallInv, CloseInv, LossInv,
       LastCallInv, SysInv, Unattended, Watching, options, feedVars, handlerVars, clientVars,
       closeVars, sysVars
  <1>3. CASE Alive /\ ClientSends
    BY <1>3 DEF ClientSends, ProcessInv, TypeOK, StartInv, CallInv, CloseInv, LossInv,
       LastCallInv, SysInv, Unattended, Watching, options, feedVars, handlerVars, closeVars, sysVars
  <1>4. CASE Alive /\ (MainStep \/ CloserStep \/ WatcherStep \/ SysStep)
    BY <1>4, MainKeepsInv, CloserKeepsInv, WatcherKeepsInv, SysKeepsInv
  <1> QED
    BY <1>1, <1>2, <1>3, <1>4 DEF Next

LEMMA ProcessInvariance == Spec => []ProcessInv
  BY InitInv, NextKeepsInv, PTL DEF Spec

\* The variables keep their types, and only bound closers are called.
THEOREM ProcessTypes == Spec => []TypeOK
  <1>1. ProcessInv => TypeOK
    BY DEF ProcessInv
  <1> QED
    BY <1>1, ProcessInvariance, PTL

\* The closers and the goroutines they close meet in an order that loses no point and
\* panics nowhere, unless Close gave up on a handler call or the signal came before
\* the watcher was bound (cmd_process.go 82-205).
THEOREM ExitLosesNothing == Spec => []NothingLostAtExit
  <1>1. ProcessInv => NothingLostAtExit
    <2> SUFFICES ASSUME ProcessInv, process = "exited", ~Unattended
                 PROVE  lost = 0 /\ buffered = 0 /\ left = 0
      BY DEF NothingLostAtExit, ProcessInv, LossInv
    <2>1. lost = 0
      BY DEF ProcessInv, LossInv, TypeOK
    <2>2. phase = "ended"
      BY DEF ProcessInv, CloseInv, Unattended
    <2>3. left = 0
      BY <2>2, ProcessAssumption DEF ProcessInv, CallInv, TypeOK
    <2>4. buffered = 0
      BY DEF ProcessInv, StartInv, CallInv, CloseInv, Unattended, TypeOK
    <2> QED
      BY <2>1, <2>3, <2>4
  <1> QED
    BY <1>1, ProcessInvariance, PTL

\* A Close that gives up on a handler call costs no more than the points of this call:
\* no other call runs after it (block_watcher.go 111-140, cmd_process.go 110-135).
THEOREM LossStaysBounded == Spec => []LossBounded
  <1>1. ProcessInv => LossBounded
    <2> SUFFICES ASSUME ProcessInv, "watcher" \in bound
                 PROVE  lost + left <= MaxPoints /\ (process = "exited" => buffered = 0)
      BY DEF LossBounded
    <2>1. lost + left <= MaxPoints
      BY ProcessAssumption DEF ProcessInv, LastCallInv, TypeOK
    <2>2. ASSUME process = "exited" PROVE buffered = 0
      BY <2>2 DEF ProcessInv, StartInv, CallInv, CloseInv, TypeOK
    <2> QED
      BY <2>1, <2>2
  <1> QED
    BY <1>1, ProcessInvariance, PTL

\* A measurement that began after the cancel is killed before its report
\* (sys_watcher.go 49-119).
THEOREM LateMeasurementsEnd == Spec => []NoLateReport
  <1>1. ProcessInv => NoLateReport
    BY DEF ProcessInv, SysInv, NoLateReport
  <1> QED
    BY <1>1, ProcessInvariance, PTL

=============================================================================
