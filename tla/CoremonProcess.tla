--------------------------- MODULE CoremonProcess ---------------------------
(***************************************************************************)
(* The process command of cmd/coremon/cmd_process.go: it starts the Influx *)
(* client, the block watcher and the system watcher, binds a closer for    *)
(* each, and runs the closers on a signal.  All of them meet in a shutdown *)
(* while the block handler may still be writing.                           *)
(*                                                                         *)
(* The block handler is called the way BlockFeed says.  The closer library *)
(* runs the bound closers one by one, the last bound first, and exits.     *)
(***************************************************************************)
EXTENDS Integers

CONSTANTS
  MaxHeight,  \* bound: blocks of the chain
  MaxPoints   \* bound: points of one handler call

ASSUME ProcessAssumption == MaxHeight \in Nat /\ MaxPoints \in Nat

VARIABLES
  influxEnabled, sysEnabled,  \* options
  mainPc,     \* where processCmd is
  process,    \* "up", "closing", or how it ended
  bound,      \* closers bound before the shutdown
  todo,       \* closers the shutdown still has to call
  backward, frontier, handling, phase, \* the feed of blocks, see BlockFeed
  call,       \* where the running handler call is
  left,       \* points it still has to write
  waiting,    \* tmBlockWatcher.Close waits for isDone or its timer
  isDone,     \* closed after the last handled pair
  abandoned,  \* history: Close gave up while the loop had not ended
  influx,     \* the client: "none", "open" or "closed"
  buffered,   \* points the client has not sent
  lost,       \* history: points passed to a closed client
  cancelled,  \* rootCtx
  sysPc,      \* where sysWatcher is
  sysLate     \* history: its measurement began after the cancel

options == <<influxEnabled, sysEnabled>>
feedVars == <<backward, frontier, handling, phase>>
handlerVars == <<feedVars, call, left, isDone>>
clientVars == <<influx, buffered, lost>>
closeVars == <<bound, todo, waiting, abandoned, cancelled>>
sysVars == <<sysPc, sysLate>>
vars == <<options, mainPc, process, handlerVars, clientVars, closeVars, sysVars>>

Feed == INSTANCE BlockFeed WITH Blocks <- 1 .. MaxHeight, LowestHeight <- 1

Closers == {"cancel", "influx", "watcher", "sys"}

MainPcs == {"bindCancel", "newInflux", "bindInflux", "newWatcher", "watch",
            "bindWatcher", "newSys", "bindSys", "hold", "panic"}

Alive == process \in {"up", "closing"}

\* StartWatching runs in its goroutine.
Watching == mainPc \in {"bindWatcher", "newSys", "bindSys", "hold"}

-----------------------------------------------------------------------------
(* processCmd.  A shutdown may begin between any two of its steps. *)

\* Bind: closers bound once the shutdown runs are not called any more.
Bind(closer, after) ==
  /\ mainPc' = after
  /\ bound' = IF process = "up" THEN bound \cup {closer} ELSE bound
  /\ UNCHANGED <<options, process, handlerVars, clientVars, todo, waiting,
                 abandoned, cancelled, sysVars>>

BindCancel == mainPc = "bindCancel" /\ Bind("cancel", "newInflux")

NewInflux ==
  /\ mainPc = "newInflux"
  /\ IF influxEnabled
     THEN influx' = "open" /\ mainPc' = "bindInflux"
     ELSE mainPc' = "newWatcher" /\ UNCHANGED influx
  /\ UNCHANGED <<options, process, handlerVars, buffered, lost, closeVars, sysVars>>

BindInflux == mainPc = "bindInflux" /\ Bind("influx", "newWatcher")

Shutdown ==
  /\ process = "up"
  /\ process' = "closing"
  /\ todo' = bound

NewWatcher ==
  /\ mainPc = "newWatcher"
  /\ mainPc' = "watch"
  /\ UNCHANGED <<options, process, handlerVars, clientVars, closeVars, sysVars>>

\* Its error is a panic, which runs into the deferred closer.Close.
NewWatcherFails ==
  /\ mainPc = "newWatcher"
  /\ mainPc' = "panic"
  /\ Shutdown \/ (process = "closing" /\ UNCHANGED <<process, todo>>)
  /\ UNCHANGED <<options, handlerVars, clientVars, bound, waiting, abandoned,
                 cancelled, sysVars>>

StartWatcher ==
  /\ mainPc = "watch"
  /\ mainPc' = "bindWatcher"
  /\ UNCHANGED <<options, process, handlerVars, clientVars, closeVars, sysVars>>

BindWatcher == mainPc = "bindWatcher" /\ Bind("watcher", "newSys")

StartSysWatcher ==
  /\ mainPc = "newSys"
  /\ IF sysEnabled
     THEN sysPc' = "wait" /\ mainPc' = "bindSys"
     ELSE mainPc' = "hold" /\ UNCHANGED sysPc
  /\ UNCHANGED <<options, process, handlerVars, clientVars, closeVars, sysLate>>

BindSysWatcher == mainPc = "bindSys" /\ Bind("sys", "hold")

MainStep ==
  \/ BindCancel \/ NewInflux \/ BindInflux
  \/ NewWatcher \/ NewWatcherFails \/ StartWatcher \/ BindWatcher
  \/ StartSysWatcher \/ BindSysWatcher

-----------------------------------------------------------------------------
(* The shutdown. *)

Signal ==
  /\ Shutdown
  /\ UNCHANGED <<options, mainPc, handlerVars, clientVars, bound, waiting,
                 abandoned, cancelled, sysVars>>

\* The closers in the order they are bound.
Rank(closer) == CASE closer = "cancel" -> 1
                  [] closer = "influx" -> 2
                  [] closer = "watcher" -> 3
                  [] closer = "sys" -> 4

\* Mutant: the closers run in the order they were bound.
CallsFirstBound(closer) ==
  /\ process = "closing" /\ ~waiting
  /\ closer \in todo /\ \A other \in todo : Rank(closer) <= Rank(other)
  /\ todo' = todo \ {closer}

\* The closer library calls the closer that was bound last.
Calls(closer) ==
  /\ process = "closing" /\ ~waiting
  /\ closer \in todo /\ \A other \in todo : Rank(other) <= Rank(closer)
  /\ todo' = todo \ {closer}

CancelRoot ==
  /\ Calls("cancel")
  /\ cancelled' = TRUE
  /\ UNCHANGED <<options, mainPc, process, handlerVars, clientVars, bound, waiting,
                 abandoned, sysVars>>

\* The Influx client sends what it has, then it is closed for good.
CloseInflux ==
  /\ Calls("influx")
  /\ influx' = "closed"
  /\ buffered' = 0
  /\ UNCHANGED <<options, mainPc, process, handlerVars, lost, bound, waiting,
                 abandoned, cancelled, sysVars>>

\* sysWatcher.Close does nothing.
CloseSysWatcher ==
  /\ Calls("sys")
  /\ UNCHANGED <<options, mainPc, process, handlerVars, clientVars, bound, waiting,
                 abandoned, cancelled, sysVars>>

CloseWatcher ==
  /\ Calls("watcher")
  /\ Feed!AskToClose
  /\ waiting' = TRUE
  /\ UNCHANGED <<options, mainPc, process, call, left, isDone, clientVars, bound,
                 abandoned, cancelled, sysVars>>

CloseSeesDone ==
  /\ process = "closing" /\ waiting /\ isDone
  /\ waiting' = FALSE
  /\ UNCHANGED <<options, mainPc, process, handlerVars, clientVars, bound, todo,
                 abandoned, cancelled, sysVars>>

\* Mutant: Close has no timer.
CloseWaitsOn == FALSE

\* The 3s timer of Close.
CloseGivesUp ==
  /\ process = "closing" /\ waiting
  /\ waiting' = FALSE
  /\ abandoned' = (phase # "ended")
  /\ UNCHANGED <<options, mainPc, process, handlerVars, clientVars, bound, todo,
                 cancelled, sysVars>>

\* All closers have run: the closer library exits.
Exit ==
  /\ process = "closing" /\ todo = {} /\ ~waiting
  /\ process' = "exited"
  /\ UNCHANGED <<options, mainPc, handlerVars, clientVars, closeVars, sysVars>>

CloserStep ==
  \/ CancelRoot \/ CloseInflux \/ CloseSysWatcher \/ CloseWatcher
  \/ CloseSeesDone \/ CloseGivesUp \/ Exit

-----------------------------------------------------------------------------
(* The goroutine of the block watcher and its handler. *)

FirstBlock ==
  /\ Feed!First
  /\ UNCHANGED <<options, mainPc, process, call, left, isDone, clientVars,
                 closeVars, sysVars>>

HandlerCalled ==
  /\ Feed!Handle
  /\ call' = "work"
  /\ UNCHANGED <<options, mainPc, process, left, isDone, clientVars, closeVars,
                 sysVars>>

\* The points of the pair are ready; without any nothing is written.
PointsReady ==
  /\ call = "work"
  /\ left' \in 0 .. MaxPoints
  /\ call' = IF left' = 0 THEN "return" ELSE "write"
  /\ UNCHANGED <<options, mainPc, process, feedVars, isDone, clientVars, closeVars,
                 sysVars>>

\* The handler fails, or the chain cannot be read at the start: logger.Fatal.
WatcherFails ==
  /\ call \in {"idle", "work"}
  /\ Feed!Fail
  /\ call' = "idle"
  /\ process' = "fatal"
  /\ UNCHANGED <<options, mainPc, left, isDone, clientVars, closeVars, sysVars>>

\* Mutant: one point more than there are.
WritePointMore ==
  /\ call = "write"
  /\ influx = "open"
  /\ left' = left - 1
  /\ buffered' = buffered + 1
  /\ UNCHANGED <<options, mainPc, process, feedVars, call, isDone, influx, lost,
                 closeVars, sysVars>>

WritePoint ==
  /\ call = "write" /\ left > 0
  /\ influx = "open"
  /\ left' = left - 1
  /\ buffered' = buffered + 1
  /\ UNCHANGED <<options, mainPc, process, feedVars, call, isDone, influx, lost,
                 closeVars, sysVars>>

\* A closed client drops the point or panics, as its channels are closed.
WriteToClosed ==
  /\ call = "write" /\ left > 0
  /\ influx = "closed"
  /\ left' = left - 1
  /\ lost' = lost + 1
  /\ process' \in {process, "panicked"}
  /\ UNCHANGED <<options, mainPc, feedVars, call, isDone, influx, buffered,
                 closeVars, sysVars>>

\* Without Influx the write API is a nil interface.
WriteToNone ==
  /\ call = "write"
  /\ influx = "none"
  /\ process' = "panicked"
  /\ UNCHANGED <<options, mainPc, handlerVars, clientVars, closeVars, sysVars>>

\* The deferred Flush of writeInfluxPoints.
Flush ==
  /\ call = "write" /\ left = 0
  /\ influx # "none"
  /\ call' = "return"
  /\ process' \in IF influx = "closed" THEN {process, "panicked"} ELSE {process}
  /\ UNCHANGED <<options, mainPc, feedVars, left, isDone, clientVars, closeVars,
                 sysVars>>

\* Mutant: the end of a call does not look at isClosing.
HandlerReturnsOn ==
  /\ call = "return"
  /\ handling' = FALSE
  /\ phase' = IF phase = "last" THEN "closing" ELSE phase
  /\ call' = "idle"
  /\ UNCHANGED <<options, mainPc, process, backward, frontier, left, isDone, clientVars,
                 closeVars, sysVars>>

HandlerReturns ==
  /\ call = "return"
  /\ Feed!Finish
  /\ isDone' = (phase = "last")
  /\ call' = "idle"
  /\ UNCHANGED <<options, mainPc, process, left, clientVars, closeVars, sysVars>>

LoopStops ==
  /\ Feed!Stop
  /\ UNCHANGED <<options, mainPc, process, call, left, isDone, clientVars,
                 closeVars, sysVars>>

\* The client sends in the background.
ClientSends ==
  /\ influx = "open" /\ buffered > 0
  /\ buffered' = buffered - 1
  /\ UNCHANGED <<options, mainPc, process, handlerVars, influx, lost, closeVars,
                 sysVars>>

WatcherStep ==
  /\ Watching
  /\ \/ FirstBlock \/ HandlerCalled \/ PointsReady \/ WatcherFails
     \/ WritePoint \/ WriteToClosed \/ WriteToNone \/ Flush
     \/ HandlerReturns \/ LoopStops

-----------------------------------------------------------------------------
(* The goroutine of the system watcher. *)

\* The timer fires; when rootCtx is cancelled as well the select picks either.
MeasureStarts ==
  /\ sysPc = "wait"
  /\ sysPc' = "mem"
  /\ sysLate' = cancelled

SysWatcherStops ==
  /\ sysPc = "wait" /\ cancelled
  /\ sysPc' = "ended"
  /\ UNCHANGED sysLate

\* Mutant: the timer is set again only after a report.
MeasureFailsForGood ==
  /\ sysPc \in {"mem", "disk", "du"}
  /\ sysPc' = "ended"
  /\ UNCHANGED sysLate

\* An error or a timeout of 10s of one part gives up the measurement.
MeasureFails ==
  /\ sysPc \in {"mem", "disk", "du"}
  /\ sysPc' = "wait"
  /\ UNCHANGED sysLate

\* Mutant: the du command is not run under the root context.
PartMeasuredUncancelled ==
  /\ \/ sysPc = "mem" /\ sysPc' = "disk"
     \/ sysPc = "disk" /\ sysPc' = "du"
     \/ sysPc = "du" /\ sysPc' = "report"
  /\ UNCHANGED sysLate

\* Memory and file system are read without looking at the context; the du command
\* is killed by its cancel.
PartMeasured ==
  /\ \/ sysPc = "mem" /\ sysPc' = "disk"
     \/ sysPc = "disk" /\ sysPc' = "du"
     \/ sysPc = "du" /\ ~cancelled /\ sysPc' = "report"
  /\ UNCHANGED sysLate

Reported ==
  /\ sysPc = "report"
  /\ sysPc' = "wait"
  /\ UNCHANGED sysLate

SysStep ==
  /\ MeasureStarts \/ SysWatcherStops \/ MeasureFails \/ PartMeasured \/ Reported
  /\ UNCHANGED <<options, mainPc, process, handlerVars, clientVars, closeVars>>

-----------------------------------------------------------------------------

Init ==
  /\ influxEnabled \in BOOLEAN
  /\ sysEnabled \in BOOLEAN
  /\ mainPc = "bindCancel"
  /\ process = "up"
  /\ bound = {}
  /\ todo = {}
  /\ Feed!FeedInit
  /\ call = "idle"
  /\ left = 0
  /\ waiting = FALSE
  /\ isDone = FALSE
  /\ abandoned = FALSE
  /\ influx = "none"
  /\ buffered = 0
  /\ lost = 0
  /\ cancelled = FALSE
  /\ sysPc = "none"
  /\ sysLate = FALSE

Next ==
  /\ Alive
  /\ \/ MainStep
     \/ Signal
     \/ CloserStep
     \/ WatcherStep
     \/ ClientSends
     \/ SysStep

Spec == Init /\ [][Next]_vars

\* The goroutines of main, of the closer library and of the system watcher are
\* scheduled, and what the closers call returns.  Nothing is assumed of the
\* handler, which may be stuck for ever, nor of the chain or of a signal.
FairSpec ==
  /\ Spec
  /\ WF_vars(Alive /\ MainStep)
  /\ WF_vars(Alive /\ CloserStep)
  /\ WF_vars(Alive /\ SysStep)

-----------------------------------------------------------------------------
(* Properties. *)

TypeOK ==
  /\ influxEnabled \in BOOLEAN /\ sysEnabled \in BOOLEAN
  /\ mainPc \in MainPcs
  /\ process \in {"up", "closing", "exited", "panicked", "fatal"}
  /\ bound \subseteq Closers /\ todo \subseteq bound
  /\ backward \in BOOLEAN /\ frontier \in 0 .. MaxHeight /\ handling \in BOOLEAN
  /\ phase \in {"open", "closing", "last", "ended"}
  /\ call \in {"idle", "work", "write", "return"}
  /\ left \in 0 .. MaxPoints
  /\ waiting \in BOOLEAN /\ isDone \in BOOLEAN /\ abandoned \in BOOLEAN
  /\ influx \in {"none", "open", "closed"}
  /\ buffered \in Nat /\ lost \in Nat
  /\ cancelled \in BOOLEAN
  /\ sysPc \in {"none", "wait", "mem", "disk", "du", "report", "ended"}
  /\ sysLate \in BOOLEAN

\* Close of the watcher could not account for the loop: it gave up on it, or the
\* signal came before it was bound.
Unattended == abandoned \/ "watcher" \notin bound

\* Closers and goroutines meet in an order that loses nothing: a process that exits
\* has sent every point of every call that returned or was waited for, and no call
\* meets a client that was closed under it, unless Close gave up on the call.
NothingLostAtExit ==
  /\ influxEnabled /\ process = "panicked" => Unattended
  /\ process = "exited" /\ ~Unattended => lost = 0 /\ buffered = 0 /\ left = 0

\* Once the watcher is bound, a shutdown costs at most the points of one handler call,
\* also when Close gives up on a call: the client is closed under this call only,
\* however many blocks there are, and what was written before it is sent.
LossBounded ==
  "watcher" \in bound =>
    /\ lost + left <= MaxPoints
    /\ process = "exited" => buffered = 0

\* A measurement of the system that begins after the cancel is never reported,
\* although the select may prefer the timer over the cancelled context.
NoLateReport == sysPc = "report" => ~sysLate

\* A signal at any moment, also during the start, ends the process, even when a
\* handler call is stuck for ever.
ShutdownEnds == process = "closing" ~> ~Alive

\* A measurement that failed in one of its parts does not end the measuring.
MeasuresAgain == sysPc = "du" ~> (sysPc = "mem" \/ cancelled \/ ~Alive)

-----------------------------------------------------------------------------
(* A statement of an option that the code does not keep. *)

\* The option "Enables InfluxDB adapter and reporting": without it the process runs
\* on, only the reporting is off.
RunsWithoutInflux == ~influxEnabled => process # "panicked"

=============================================================================
