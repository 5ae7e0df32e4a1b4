---------------------------- MODULE BlockWatcher ----------------------------
(***************************************************************************)
(* The tmBlockWatcher of pkg/coremon/block_watcher.go around its           *)
(* blockGetter: StartWatching reads the height of the chain, creates the   *)
(* getter, and then pairs the blocks it receives and hands each pair to    *)
(* the block handler; Close runs in another goroutine at any time.         *)
(*                                                                         *)
(* logger.Fatalf ends the process: nothing moves in "fatal" and "mismatch".*)
(***************************************************************************)
EXTENDS BlockGetter

CONSTANT RewindFroms  \* REWIND_FROM arguments the process may be started with

ASSUME WatcherAssumption == RewindFroms \subseteq Nat

VARIABLES
  rewindTo,          \* the argument of StartWatching, 0 when not rewinding
  watchPc,           \* where StartWatching is
  held,              \* height of the block kept for the next pair, 0 if none
  taken,             \* height of the block received last for a pair, 0 if none
  latestSyncedBlock,
  isSynced, isClosing, isDone, \* the three channels: TRUE once closed
  closePc            \* progress of tmBlockWatcher.Close

watchVars == <<rewindTo, watchPc, held, taken, latestSyncedBlock, isSynced,
               isClosing, isDone, closePc>>

watcherVars == <<getterVars, watchVars>>

WatchPcs == {"start", "begin", "select", "handle", "exited", "fatal", "mismatch"}

Running == watchPc \notin {"fatal", "mismatch"}

-----------------------------------------------------------------------------
(* StartWatching, up to its loop. *)

\* runInitialSync: an RPC failure is fatal; otherwise latestSyncedBlock is the
\* height of the chain, unless the rewind height is at or above it.
RunInitialSync ==
  /\ watchPc = "start"
  /\ \/ /\ watchPc' = "fatal"
        /\ UNCHANGED latestSyncedBlock
     \/ /\ watchPc' = "begin"
        /\ latestSyncedBlock' = IF rewindTo >= tip THEN latestSyncedBlock ELSE tip
  /\ UNCHANGED <<getterVars, rewindTo, held, taken, isSynced, isClosing, isDone,
                 closePc>>

BeginWatching ==
  /\ watchPc = "begin"
  /\ latestSyncedBlock' = IF rewindTo # 0 THEN rewindTo - 1 ELSE latestSyncedBlock
  /\ InitBlockGetter(latestSyncedBlock' + 1)
  /\ isSynced' = TRUE
  /\ watchPc' = "select"
  /\ UNCHANGED <<rewindTo, held, taken, isClosing, isDone, closePc>>

-----------------------------------------------------------------------------
(* The loop of StartWatching. *)

\* Mutant: the loop does not watch isClosing.
SelectStopNot ==
  /\ watchPc = "select"
  /\ isDone \/ (newBlocksClosed /\ newBlocksC = <<>>)
  /\ watchPc' = "exited"
  /\ UNCHANGED <<getterVars, rewindTo, held, taken, latestSyncedBlock, isSynced,
                 isClosing, isDone, closePc>>

\* The select leaves the loop.  When a block is there too, Go chooses at random.
SelectStop ==
  /\ watchPc = "select"
  /\ isClosing \/ isDone \/ (newBlocksClosed /\ newBlocksC = <<>>)
  /\ watchPc' = "exited"
  /\ UNCHANGED <<getterVars, rewindTo, held, taken, latestSyncedBlock, isSynced,
                 isClosing, isDone, closePc>>

Adjacent(kept, block) == block = Step(kept)

\* The loop receives a block: it keeps the first one and calls the handler for
\* every later one, after checking that it is adjacent to the one kept.
SelectBlock ==
  /\ watchPc = "select"
  /\ Receive
  /\ LET block == Head(newBlocksC) IN
       \/ /\ held = 0
          /\ held' = block
          /\ UNCHANGED <<watchPc, taken>>
       \/ /\ held # 0
          /\ Adjacent(held, block)
          /\ taken' = block
          /\ watchPc' = "handle"
          /\ UNCHANGED held
       \/ /\ held # 0
          /\ ~Adjacent(held, block)
          /\ watchPc' = "mismatch"
          /\ UNCHANGED <<held, taken>>
  /\ UNCHANGED <<rewindTo, latestSyncedBlock, isSynced, isClosing, isDone, closePc>>

\* Mutant: the handler's end does not look at isClosing.
HandlerReturnsOn ==
  /\ watchPc = "handle"
  /\ latestSyncedBlock' = IF Forward THEN taken ELSE held
  /\ held' = taken
  /\ watchPc' = "select"
  /\ UNCHANGED <<getterVars, rewindTo, taken, isSynced, isClosing, isDone, closePc>>

\* handleNewBlockData after the handler succeeded: the higher block of the pair
\* is synced; after Close this was the last pair, else the loop keeps the block.
HandlerReturns ==
  /\ watchPc = "handle"
  /\ latestSyncedBlock' = IF Forward THEN taken ELSE held
  /\ IF isClosing
     THEN /\ isDone' = TRUE
          /\ watchPc' = "exited"
          /\ UNCHANGED held
     ELSE /\ held' = taken
          /\ watchPc' = "select"
          /\ UNCHANGED isDone
  /\ UNCHANGED <<getterVars, rewindTo, taken, isSynced, isClosing, closePc>>

\* An error of the handler is fatal.
HandlerFails ==
  /\ watchPc = "handle"
  /\ watchPc' = "fatal"
  /\ UNCHANGED <<getterVars, rewindTo, held, taken, latestSyncedBlock, isSynced,
                 isClosing, isDone, closePc>>

-----------------------------------------------------------------------------
(* Close; handlerWG.Wait returns at once, as nothing is ever added to it. *)

CloseStarts ==
  /\ closePc = "idle"
  /\ isClosing' = TRUE
  /\ closePc' = "waiting"
  /\ UNCHANGED <<getterVars, rewindTo, watchPc, held, taken, latestSyncedBlock,
                 isSynced, isDone>>

CloseSeesDone ==
  /\ closePc = "waiting"
  /\ isDone
  /\ closePc' = "returned"
  /\ UNCHANGED <<getterVars, rewindTo, watchPc, held, taken, latestSyncedBlock,
                 isSynced, isClosing, isDone>>

\* The 3s timer; how far the loop gets in 3s is not bounded.
CloseDeadline ==
  /\ closePc = "waiting"
  /\ closePc' = "returned"
  /\ UNCHANGED <<getterVars, rewindTo, watchPc, held, taken, latestSyncedBlock,
                 isSynced, isClosing, isDone>>

-----------------------------------------------------------------------------

WatcherInit ==
  /\ GetterInit
  /\ rewindTo \in RewindFroms
  /\ watchPc = "start"
  /\ held = 0
  /\ taken = 0
  /\ latestSyncedBlock = 0
  /\ isSynced = FALSE
  /\ isClosing = FALSE
  /\ isDone = FALSE
  /\ closePc = "idle"

StartStep == RunInitialSync \/ BeginWatching

LoopStep ==
  \/ SelectStop
  \/ SelectBlock
  \/ HandlerReturns
  \/ HandlerFails

CloseStep == CloseStarts \/ CloseSeesDone \/ CloseDeadline

WatcherNext ==
  /\ Running
  /\ \/ StartStep
     \/ LoopStep
     \/ CloseStep
     \/ GetterStep /\ UNCHANGED watchVars

WatcherSpec == WatcherInit /\ [][WatcherNext]_watcherVars

Surround(A) == Running /\ A /\ UNCHANGED watchVars

\* Goroutines are scheduled fairly, the handler returns, and a fetch of a height the
\* node serves does not fail for ever (the job retries until it succeeds).  Nothing
\* forces a Close, and the select is not fair between its ready cases.
FairWatcherSpec ==
  /\ WatcherSpec
  /\ WF_watcherVars(Running /\ StartStep)
  /\ WF_watcherVars(Running /\ LoopStep)
  /\ WF_watcherVars(Surround(ChainGrows))
  /\ WF_watcherVars(Surround(AnnouncerStep))
  /\ \A j \in Jobs :
       /\ WF_watcherVars(Surround(GetHeightToFetch(j)))
       /\ WF_watcherVars(Surround(CheckClosed(j)))
       /\ WF_watcherVars(Surround(FetchFails(j) \/ FetchSucceeds(j)))
       /\ SF_watcherVars(Surround(FetchSucceeds(j)))
       /\ WF_watcherVars(Surround(PostBlock(j)))
       /\ WF_watcherVars(Surround(BacklogDrained(j)))

-----------------------------------------------------------------------------
(* Invariants. *)

\* Every variable of the watcher keeps its type: latestSyncedBlock, an unsigned
\* height computed as rewindTo - 1, does not wrap.
WatcherTypeOK ==
  /\ GetterTypeOK
  /\ rewindTo \in RewindFroms
  /\ watchPc \in WatchPcs
  /\ held \in Nat
  /\ taken \in Nat
  /\ latestSyncedBlock \in Nat
  /\ isSynced \in BOOLEAN
  /\ isClosing \in BOOLEAN
  /\ isDone \in BOOLEAN
  /\ closePc \in {"idle", "waiting", "returned"}

\* The sequential height checks of the loop (lines 242 and 283) never fail,
\* whatever the order in which the jobs post and whatever was still queued.
NoMismatch == watchPc # "mismatch"

\* LastSyncedBlock reports the higher block of the last handled pair; before the
\* first pair it reports the height below the one the getter started with.
SyncedIsHandled ==
  watchPc \in {"select", "handle"} =>
    latestSyncedBlock =
      IF held \in {0, FirstAnnounced(initHeight)} THEN initHeight - 1
      ELSE IF Forward THEN held ELSE held + 1

-----------------------------------------------------------------------------
(* Refinement: the watcher implements BlockFeed. *)

\* The furthest height that reached the loop.
frontier == IF taken # 0 THEN taken ELSE held

handling == watchPc = "handle"

phase == IF watchPc \in {"exited", "fatal", "mismatch"} THEN "ended"
         ELSE IF ~isClosing THEN "open"
         ELSE IF handling THEN "last"
         ELSE "closing"

Feed == INSTANCE BlockFeed WITH backward <- ~Forward, Blocks <- Nat \ {0}

\* The handler is fed the way BlockFeed promises: adjacent pairs, each once and in
\* order, one at a time, none below the stop height, and after Close at most one
\* more call ends, whichever ready case the select prefers.
FeedsInOrder == Feed!FeedSpec

-----------------------------------------------------------------------------
(* The inductive invariant behind NoMismatch and FeedsInOrder. *)

\* The next height the loop will receive: sending and receiving cancel out.
Expected == IF Forward THEN Unsent - Len(newBlocksC) ELSE Unsent + Len(newBlocksC)

\* Nothing is received before the loop starts; once it runs the getter exists.
Beginning ==
  /\ watchPc \in {"start", "begin"} => annPc = "unborn" /\ held = 0 /\ taken = 0
  /\ watchPc = "start" => latestSyncedBlock = 0
  /\ watchPc \in {"select", "handle"} => annPc # "unborn" /\ initHeight >= 1
  /\ isDone => watchPc = "exited"

\* The block that is kept is the one before the next to be received.
HeldNext ==
  /\ watchPc = "select" =>
       IF held = 0 THEN taken = 0 /\ Expected = FirstAnnounced(initHeight)
                   ELSE taken \in {0, held} /\ Expected = Step(held)
  /\ watchPc = "handle" => held # 0 /\ taken # 0 /\ taken = Step(held) /\ Expected = Step(taken)
  /\ held # 0 => IF Forward THEN held >= initHeight ELSE held < initHeight

\* Backward, nothing below the lowest height is handed out or announced.
Reach ==
  ~Forward =>
    /\ annPc # "unborn" /\ height < initHeight => height + 1 >= LowestHeight
    /\ \A i \in 1 .. Len(newBlocksC) : newBlocksC[i] >= LowestHeight

WatcherInv ==
  /\ GetterInv
  /\ WatcherTypeOK
  /\ Beginning
  /\ HeldNext
  /\ Reach
  /\ NoMismatch
  /\ SyncedIsHandled

-----------------------------------------------------------------------------
(* Liveness. *)

Ended == watchPc \in {"exited", "fatal", "mismatch"}

\* A forward run hands every block of the chain above its first one to the handler,
\* unless it is closed or logger.Fatalf ends the process: it never falls silent and
\* its loop never ends by itself.
EveryBlockHandled ==
  \A h \in 1 .. MaxHeight :
    (annPc # "unborn" /\ Base <= initHeight /\ initHeight < h /\ h <= tip)
      ~> (latestSyncedBlock >= h \/ isClosing \/ watchPc = "fatal")

Idle == watchPc = "select" /\ latestSyncedBlock = LowestHeight + 1

\* A backward run hands the handler everything down to the stop height (or to
\* genesis) and idles there for good, unless it is closed or logger.Fatalf ends the
\* process: the announcer that has stopped does not end the loop.
BackwardHandled ==
  (annPc # "unborn" /\ Base <= LowestHeight /\ LowestHeight + 1 < initHeight)
    ~> [](Idle \/ isClosing \/ watchPc = "fatal")

\* After Close the loop ends, even when Close came before it started.
ClosingEndsLoop == isClosing ~> Ended

=============================================================================
