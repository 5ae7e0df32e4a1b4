---------------------------- MODULE BlockGetter ----------------------------
(***************************************************************************)
(* The blockGetter of pkg/coremon/block_watcher.go: parallel jobs fetch    *)
(* blocks from a CometBFT node and post them, out of order, into           *)
(* newBlocksMap; one announcer goroutine waits on a condition variable for *)
(* the next height, takes it from the map and sends it on newBlocksC.      *)
(*                                                                         *)
(* A block is identified by its height: the node answers a request for a   *)
(* height with the block of that height.  Everything done between a Lock   *)
(* and its Unlock is one step.                                             *)
(***************************************************************************)
EXTENDS Integers, Sequences, FiniteSets

CONSTANTS
  Jobs,         \* the fetching goroutines, parallelBlockFetchJobs of them
  Direction,    \* "forward" or "backward"
  StopHeight,   \* WatcherOptions.StopHeight, 0 when unset
  StartHeights, \* initial heights the getter may be created with
  ChanCap,      \* capacity of newBlocksC (100 per job in the code)
  MaxBacklog,   \* backlog above which a job sleeps (1024 per job)
  Base,         \* lowest height the node still serves
  InitTip,      \* height of the chain when the model starts
  MaxHeight,    \* bound: the chain grows no further in the model
  GetterCloses  \* whether somebody calls blockGetter.Close

ASSUME GetterAssumption ==
  /\ IsFiniteSet(Jobs) /\ Jobs # {}
  /\ Direction \in {"forward", "backward"}
  /\ StopHeight \in Nat
  /\ StartHeights \subseteq Nat \ {0}
  /\ ChanCap \in Nat \ {0}
  /\ MaxBacklog \in Nat \ {0}
  /\ Base \in Nat \ {0}
  /\ InitTip \in Nat
  /\ MaxHeight \in Nat
  /\ GetterCloses \in BOOLEAN

VARIABLES
  tip,          \* latest height of the chain (the node, external)
  initHeight,   \* the height the getter was created with
  height,       \* next height to hand to a job
  jobPc,        \* where each job is
  jobHeight,    \* the height each job works on
  newBlocksMap, \* heights fetched and not yet announced
  newBlocksC,   \* the channel to the watcher
  annPc,        \* where the announcer is
  annHeight,    \* the height the announcer wants next
  closeCall     \* progress of a blockGetter.Close call

getterVars == <<tip, initHeight, height, jobPc, jobHeight, newBlocksMap,
                newBlocksC, annPc, annHeight, closeCall>>

JobPcs == {"unborn", "assign", "check", "fetch", "post", "backlog", "done"}

\* "idle" is the end of a backward run, with the channel left open; "stopped"
\* and "leaked" are the two returns that close the channel, the second one
\* with jobCond.L still locked.
AnnPcs == {"unborn", "select", "lock", "waiting", "woken", "send",
           "idle", "stopped", "leaked"}

Forward == Direction = "forward"

-----------------------------------------------------------------------------
(* Heights. *)

\* Mutant: no floor at height 1, so that backward jobs run below genesis.
LowestHeightUnfloored == IF StopHeight > 1 THEN StopHeight - 1 ELSE 0

\* The last height announced in backward direction.
LowestHeight == IF StopHeight > 1 THEN StopHeight - 1 ELSE 1

Step(h) == IF Forward THEN h + 1 ELSE h - 1

FirstAnnounced(h) == IF Forward THEN h ELSE h - 1

\* No height is left to hand to a job.
Exhausted(h) == ~Forward /\ h < LowestHeight

\* The node serves heights from its pruning base up to its tip (external).
Available(h) == Base <= h /\ h <= tip

-----------------------------------------------------------------------------
(* Synchronisation primitives. *)

closeC == closeCall = "closed"

newBlocksClosed == annPc \in {"stopped", "leaked"}

\* jobCond.L is free: only a return of the announcer can leave it locked.
LockFree == annPc # "leaked"

\* Mutant: the condition variable is never signalled.
SignalNobody(pc) == pc

\* jobCond.Signal(): the announcer is the only goroutine that ever waits.
Signal(pc) == IF pc = "waiting" THEN "woken" ELSE pc

-----------------------------------------------------------------------------
(* initBlockGetter: creates the getter and starts its goroutines. *)

InitBlockGetter(h) ==
  /\ annPc = "unborn"
  /\ initHeight' = h
  /\ height' = h
  /\ jobPc' = [j \in Jobs |-> "assign"]
  /\ annPc' = "select"
  /\ annHeight' = FirstAnnounced(h)
  /\ UNCHANGED <<tip, jobHeight, newBlocksMap, newBlocksC, closeCall>>

-----------------------------------------------------------------------------
(* pullBlocks: the loop of one job. *)

\* Mutant: jobMux does not cover the increment, a job may read a stale height.
GetHeightUnlocked(j) ==
  /\ jobPc[j] = "assign"
  /\ ~Exhausted(height)
  /\ \E next \in {height, Step(height)} : height' = next
  /\ jobHeight' = [jobHeight EXCEPT ![j] = height]
  /\ jobPc' = [jobPc EXCEPT ![j] = "check"]
  /\ UNCHANGED <<tip, initHeight, newBlocksMap, newBlocksC, annPc, annHeight,
                 closeCall>>

\* getHeightToFetch, under jobMux; the job returns when nothing is left.
GetHeightToFetch(j) ==
  /\ jobPc[j] = "assign"
  /\ \/ /\ Exhausted(height)
        /\ jobPc' = [jobPc EXCEPT ![j] = "done"]
        /\ UNCHANGED <<height, jobHeight>>
     \/ /\ ~Exhausted(height)
        /\ jobHeight' = [jobHeight EXCEPT ![j] = height]
        /\ height' = Step(height)
        /\ jobPc' = [jobPc EXCEPT ![j] = "check"]
  /\ UNCHANGED <<tip, initHeight, newBlocksMap, newBlocksC, annPc, annHeight,
                 closeCall>>

\* The select at the top of the job loop.
CheckClosed(j) ==
  /\ jobPc[j] = "check"
  /\ jobPc' = [jobPc EXCEPT ![j] = IF closeC THEN "done" ELSE "fetch"]
  /\ UNCHANGED <<tip, initHeight, height, jobHeight, newBlocksMap, newBlocksC,
                 annPc, annHeight, closeCall>>

\* Mutant: a job that failed to fetch a height moves on to another one.
FetchFailsSkip(j) ==
  /\ jobPc[j] = "fetch"
  /\ jobPc' = [jobPc EXCEPT ![j] = "assign"]
  /\ UNCHANGED <<tip, initHeight, height, jobHeight, newBlocksMap, newBlocksC,
                 annPc, annHeight, closeCall>>

\* fetchBlockByNum gives up: the job sleeps for 1s and retries the same height.
FetchFails(j) ==
  /\ jobPc[j] = "fetch"
  /\ jobPc' = [jobPc EXCEPT ![j] = "check"]
  /\ UNCHANGED <<tip, initHeight, height, jobHeight, newBlocksMap, newBlocksC,
                 annPc, annHeight, closeCall>>

FetchSucceeds(j) ==
  /\ jobPc[j] = "fetch"
  /\ Available(jobHeight[j])
  /\ jobPc' = [jobPc EXCEPT ![j] = "post"]
  /\ UNCHANGED <<tip, initHeight, height, jobHeight, newBlocksMap, newBlocksC,
                 annPc, annHeight, closeCall>>

TooFarFromHead(blocks) == Cardinality(blocks) > MaxBacklog

\* Mutant: a job never notices the backlog.
PostBlockUnbounded(j) ==
  /\ jobPc[j] = "post"
  /\ LockFree
  /\ newBlocksMap' = newBlocksMap \union {jobHeight[j]}
  /\ annPc' = Signal(annPc)
  /\ jobPc' = [jobPc EXCEPT ![j] = "assign"]
  /\ UNCHANGED <<tip, initHeight, height, jobHeight, newBlocksC, annHeight,
                 closeCall>>

\* The job stores the block, signals the announcer and measures the backlog.
PostBlock(j) ==
  /\ jobPc[j] = "post"
  /\ LockFree
  /\ newBlocksMap' = newBlocksMap \union {jobHeight[j]}
  /\ annPc' = Signal(annPc)
  /\ jobPc' = [jobPc EXCEPT ![j] =
                 IF TooFarFromHead(newBlocksMap') THEN "backlog" ELSE "assign"]
  /\ UNCHANGED <<tip, initHeight, height, jobHeight, newBlocksC, annHeight,
                 closeCall>>

\* A sleeping job finds the backlog drained and goes on.
BacklogDrained(j) ==
  /\ jobPc[j] = "backlog"
  /\ LockFree
  /\ ~TooFarFromHead(newBlocksMap)
  /\ jobPc' = [jobPc EXCEPT ![j] = "assign"]
  /\ UNCHANGED <<tip, initHeight, height, jobHeight, newBlocksMap, newBlocksC,
                 annPc, annHeight, closeCall>>

-----------------------------------------------------------------------------
(* announceBlocks. *)

AnnounceSelect ==
  /\ annPc = "select"
  /\ annPc' = IF closeC THEN "stopped" ELSE "lock"
  /\ UNCHANGED <<tip, initHeight, height, jobPc, jobHeight, newBlocksMap,
                 newBlocksC, annHeight, closeCall>>

\* Mutant: the announcer takes whichever block is there.
TakeAny ==
  IF newBlocksMap # {}
  THEN \E h \in newBlocksMap : /\ newBlocksMap' = newBlocksMap \ {h}
                               /\ annHeight' = h
                               /\ annPc' = "send"
  ELSE /\ annPc' = "waiting"
       /\ UNCHANGED <<newBlocksMap, annHeight>>

\* With the lock held: take the wanted block, or release the lock and wait.
TakeOrWait ==
  /\ IF annHeight \in newBlocksMap
     THEN /\ newBlocksMap' = newBlocksMap \ {annHeight}
          /\ annPc' = "send"
     ELSE /\ annPc' = "waiting"
          /\ UNCHANGED newBlocksMap
  /\ UNCHANGED annHeight

AnnounceLook ==
  /\ annPc = "lock"
  /\ TakeOrWait
  /\ UNCHANGED <<tip, initHeight, height, jobPc, jobHeight, newBlocksC,
                 closeCall>>

\* Back from jobCond.Wait(), with the lock held again.  The return on closeC
\* leaves it locked.
AnnounceWake ==
  /\ annPc = "woken"
  /\ IF closeC
     THEN /\ annPc' = "leaked"
          /\ UNCHANGED <<newBlocksMap, annHeight>>
     ELSE TakeOrWait
  /\ UNCHANGED <<tip, initHeight, height, jobPc, jobHeight, newBlocksC,
                 closeCall>>

BackwardDone(h) == ~Forward /\ h <= LowestHeight

\* Mutant: the channel is closed at the end of a backward run.
AnnounceSendCloses ==
  /\ annPc = "send"
  /\ Len(newBlocksC) < ChanCap
  /\ newBlocksC' = Append(newBlocksC, annHeight)
  /\ IF BackwardDone(annHeight)
     THEN /\ annPc' = "stopped"
          /\ UNCHANGED annHeight
     ELSE /\ annPc' = "select"
          /\ annHeight' = Step(annHeight)
  /\ UNCHANGED <<tip, initHeight, height, jobPc, jobHeight, newBlocksMap,
                 closeCall>>

\* The send blocks while the channel is full; then the next height, or the
\* end of a backward run.
AnnounceSend ==
  /\ annPc = "send"
  /\ Len(newBlocksC) < ChanCap
  /\ newBlocksC' = Append(newBlocksC, annHeight)
  /\ IF BackwardDone(annHeight)
     THEN /\ annPc' = "idle"
          /\ UNCHANGED annHeight
     ELSE /\ annPc' = "select"
          /\ annHeight' = Step(annHeight)
  /\ UNCHANGED <<tip, initHeight, height, jobPc, jobHeight, newBlocksMap,
                 closeCall>>

-----------------------------------------------------------------------------
(* blockGetter.Close: signals first, closes the channel afterwards. *)

CloseSignals ==
  /\ GetterCloses
  /\ annPc # "unborn"
  /\ closeCall = "none"
  /\ closeCall' = "signalled"
  /\ annPc' = Signal(annPc)
  /\ UNCHANGED <<tip, initHeight, height, jobPc, jobHeight, newBlocksMap,
                 newBlocksC, annHeight>>

CloseCloses ==
  /\ closeCall = "signalled"
  /\ closeCall' = "closed"
  /\ UNCHANGED <<tip, initHeight, height, jobPc, jobHeight, newBlocksMap,
                 newBlocksC, annPc, annHeight>>

-----------------------------------------------------------------------------
(* The environment. *)

\* The watcher receives a block (the consumer end of newBlocksC).
Receive ==
  /\ newBlocksC # <<>>
  /\ newBlocksC' = Tail(newBlocksC)
  /\ UNCHANGED <<tip, initHeight, height, jobPc, jobHeight, newBlocksMap,
                 annPc, annHeight, closeCall>>

\* The chain produces a block (external).
ChainGrows ==
  /\ tip < MaxHeight
  /\ tip' = tip + 1
  /\ UNCHANGED <<initHeight, height, jobPc, jobHeight, newBlocksMap,
                 newBlocksC, annPc, annHeight, closeCall>>

-----------------------------------------------------------------------------

GetterInit ==
  /\ tip = InitTip
  /\ initHeight = 0
  /\ height = 0
  /\ jobPc = [j \in Jobs |-> "unborn"]
  /\ jobHeight = [j \in Jobs |-> 0]
  /\ newBlocksMap = {}
  /\ newBlocksC = <<>>
  /\ annPc = "unborn"
  /\ annHeight = 0
  /\ closeCall = "none"

JobStep(j) ==
  \/ GetHeightToFetch(j)
  \/ CheckClosed(j)
  \/ FetchFails(j)
  \/ FetchSucceeds(j)
  \/ PostBlock(j)
  \/ BacklogDrained(j)

AnnouncerStep ==
  \/ AnnounceSelect
  \/ AnnounceLook
  \/ AnnounceWake
  \/ AnnounceSend

\* Everything that happens around a getter once it exists, except the
\* reading of its channel.
GetterStep ==
  \/ \E j \in Jobs : JobStep(j)
  \/ AnnouncerStep
  \/ CloseSignals
  \/ CloseCloses
  \/ ChainGrows

GetterNext ==
  \/ \E h \in StartHeights : InitBlockGetter(h)
  \/ GetterStep
  \/ Receive

GetterSpec == GetterInit /\ [][GetterNext]_getterVars

-----------------------------------------------------------------------------
(* Invariants. *)

\* Every variable keeps its type; in particular the unsigned heights never
\* run below zero, whatever the stop height (b.height is a uint64).
GetterTypeOK ==
  /\ tip \in Nat
  /\ initHeight \in Nat
  /\ height \in Nat
  /\ jobPc \in [Jobs -> JobPcs]
  /\ jobHeight \in [Jobs -> Nat]
  /\ newBlocksMap \in SUBSET Nat
  /\ newBlocksC \in Seq(Nat)
  /\ annPc \in AnnPcs
  /\ annHeight \in Nat
  /\ closeCall \in {"none", "signalled", "closed"}

\* A job is responsible for the height it works on until it posts the block.
Responsible(j) == jobPc[j] \in {"check", "fetch", "post"}

\* Heights handed to jobs that the announcer has still to announce.
Window == IF Forward THEN annHeight .. (height - 1)
                     ELSE (height + 1) .. annHeight

\* The announcer has the block in hand, or it was the last of a backward run.
Taken(h) == h = annHeight /\ annPc \in {"send", "idle"}

\* A backward run fetches the height it was created with and never announces
\* it: the first announced height is the one below.
Unannounced(h) == ~Forward /\ h = initHeight /\ height < initHeight

\* Handed to a job, and not yet in the hands of the announcer.
Outstanding(h) == (h \in Window /\ ~Taken(h)) \/ Unannounced(h)

\* The next height that will enter newBlocksC.
Unsent == IF annPc = "idle" THEN annHeight - 1 ELSE annHeight

\* The announcer never sleeps on jobCond while the block it wants lies in
\* newBlocksMap: the look-up and the Wait are under the lock that every post
\* holds when it stores the block and signals (lines 411-417 and 515-517).
NoLostWakeup == annPc = "waiting" => annHeight \notin newBlocksMap

\* Until somebody closes the getter, every height handed to a job and not yet
\* announced is with a job that will fetch it until it succeeds, in newBlocksMap,
\* or with the announcer.  No failed fetch, backlog sleep or end of the backward
\* run drops a height.
NothingLost ==
  ~closeC =>
    \A h \in Window :
      \/ Taken(h)
      \/ h \in newBlocksMap
      \/ \E j \in Jobs : Responsible(j) /\ jobHeight[j] = h

\* No height is worked on twice: two jobs never have the same height, and a height
\* is not with a job once it is posted or announced; newBlocksMap holds only
\* heights still to be announced (and the initial height of a backward run).
PlacedOnce ==
  /\ \A h \in newBlocksMap : Outstanding(h)
  /\ \A j \in Jobs : Responsible(j) =>
       /\ Outstanding(jobHeight[j])
       /\ jobHeight[j] \notin newBlocksMap
       /\ \A k \in Jobs \ {j} : Responsible(k) => jobHeight[k] # jobHeight[j]

\* Whatever the order in which the jobs post, newBlocksC holds consecutive
\* heights in the direction of the run, ending with the last one announced.
ChannelOrdered ==
  \A i \in 1 .. Len(newBlocksC) :
    newBlocksC[i] = IF Forward THEN Unsent - 1 - (Len(newBlocksC) - i)
                               ELSE Unsent + 1 + (Len(newBlocksC) - i)

Sleepers == {j \in Jobs : jobPc[j] = "backlog"}

\* The backlog exceeds its limit by at most one block per sleeping job, so by
\* the number of jobs: memory stays bounded while the watcher is slow.
BacklogBounded ==
  Cardinality(newBlocksMap) <= MaxBacklog + Cardinality(Sleepers)

\* Before the getter exists nothing has happened.
Newborn ==
  annPc = "unborn" =>
    /\ height = 0 /\ annHeight = 0
    /\ newBlocksMap = {}
    /\ newBlocksC = <<>>
    /\ jobPc = [j \in Jobs |-> "unborn"]

\* The jobs stay ahead of the announcer, which never passes them: it announces
\* only heights that were handed out, and a backward run hands out no height twice.
Ahead ==
  annPc # "unborn" =>
    /\ Forward => annHeight <= height
    /\ ~Forward => /\ annHeight < initHeight
                   /\ \/ height = initHeight /\ annHeight = initHeight - 1
                      \/ height < initHeight /\ height <= annHeight
    /\ annPc \in {"send", "idle"} => annHeight \in Window
    /\ annPc = "idle" => ~Forward

\* Why the invariants above hold: their conjunction with the two facts below them
\* is preserved by every step (it is proved in BlockWatcherProofs).
GetterInv ==
  /\ GetterTypeOK
  /\ Newborn
  /\ Ahead
  /\ NoLostWakeup
  /\ NothingLost
  /\ PlacedOnce
  /\ ChannelOrdered

=============================================================================
