------------------------- MODULE BlockWatcherProofs -------------------------
(***************************************************************************)
(* The getter loses no height and keeps the order, for any number of jobs, *)
(* capacity, backlog limit, stop height and chain; the watcher on top of   *)
(* it never meets two blocks that are not adjacent, and feeds its handler  *)
(* the way BlockFeed promises, for any rewind height as well.              *)
(*                                                                         *)
(* Each action of the getter is shown to preserve GetterInv in a lemma of  *)
(* its own, which the composed system uses again.                          *)
(***************************************************************************)
EXTENDS BlockWatcher, FiniteSetTheorems, TLAPS

-----------------------------------------------------------------------------
(* The getter. *)

USE GetterAssumption

\* The lowest height is at least 1.
LEMMA LowestHeightPositive == LowestHeight \in Nat \ {0}
  BY DEF LowestHeight

\* The initial state satisfies the inductive invariant.
LEMMA GetterInitInv == GetterInit => GetterInv
  <1> SUFFICES ASSUME GetterInit PROVE GetterInv
    OBVIOUS
  <1> USE DEF GetterInit
  <1>1. GetterTypeOK
    BY DEF GetterTypeOK, JobPcs, AnnPcs
  <1>2. Newborn /\ Ahead /\ NoLostWakeup
    BY DEF Newborn, Ahead, NoLostWakeup
  <1>3. NothingLost /\ PlacedOnce
    BY DEF NothingLost, PlacedOnce, Window, Responsible, Outstanding, Forward
  <1>4. ChannelOrdered
    BY DEF ChannelOrdered
  <1> QED
    BY <1>1, <1>2, <1>3, <1>4 DEF GetterInv

\* Creating the getter preserves the inductive invariant.
LEMMA InitBlockGetterInv ==
  ASSUME GetterInv, NEW h \in Nat \ {0}, InitBlockGetter(h)
  PROVE  GetterInv'
  <1> USE DEF GetterInv, InitBlockGetter, FirstAnnounced
  <1>1. GetterTypeOK'
    BY DEF GetterTypeOK, JobPcs, AnnPcs
  <1>2. Newborn' /\ Ahead' /\ NoLostWakeup'
    BY DEF Newborn, Ahead, NoLostWakeup, Forward, GetterTypeOK
  <1>3. NothingLost'
    BY DEF NothingLost, Window, Forward, GetterTypeOK
  <1>4. PlacedOnce'
    BY DEF PlacedOnce, Responsible, Newborn
  <1>5. ChannelOrdered'
    BY DEF ChannelOrdered, Newborn
  <1> QED
    BY <1>1, <1>2, <1>3, <1>4, <1>5

\* Handing out a height preserves the inductive invariant: the height is new.
LEMMA GetHeightToFetchInv ==
  ASSUME GetterInv, NEW j \in Jobs, GetHeightToFetch(j)
  PROVE  GetterInv'
  <1> USE DEF GetterInv, GetHeightToFetch
  <1>1. annPc # "unborn"
    BY DEF Newborn
  <1>2. CASE Exhausted(height)
    <2>1. GetterTypeOK'
      BY <1>2 DEF GetterTypeOK, JobPcs
    <2>2. Newborn' /\ Ahead' /\ NoLostWakeup' /\ ChannelOrdered'
      BY <1>1, <1>2 DEF Newborn, Ahead, NoLostWakeup, ChannelOrdered, Window, Unsent
    <2>3. NothingLost' /\ PlacedOnce'
      BY <1>2 DEF NothingLost, PlacedOnce, Window, Responsible, Outstanding, Taken,
                  Unannounced, closeC, GetterTypeOK
    <2> QED
      BY <2>1, <2>2, <2>3
  <1>3. CASE ~Exhausted(height)
    <2> USE <1>3
    <2>1. GetterTypeOK'
      <3>1. height' \in Nat
        BY LowestHeightPositive DEF GetterTypeOK, Step, Exhausted
      <3>2. jobPc' \in [Jobs -> JobPcs] /\ jobHeight' \in [Jobs -> Nat]
        BY DEF GetterTypeOK, JobPcs
      <3> QED
        BY <3>1, <3>2 DEF GetterTypeOK
    <2>2. Newborn' /\ NoLostWakeup' /\ ChannelOrdered'
      BY <1>1 DEF Newborn, NoLostWakeup, ChannelOrdered, Unsent
    <2>3. Ahead'
      BY <1>1 DEF Ahead, Window, Step, Forward, GetterTypeOK
    <2>4. \/ height \in Window' /\ ~(height = annHeight /\ annPc \in {"send", "idle"})
          \/ ~Forward /\ height = initHeight /\ height' < initHeight
      <3>1. CASE Forward
        BY <1>1, <3>1 DEF Ahead, Window, Step, GetterTypeOK
      <3>2. CASE ~Forward
        BY <1>1, <3>2 DEF Ahead, Window, Step, GetterTypeOK
      <3> QED
        BY <3>1, <3>2
    <2>5. \A h : Outstanding(h) => h # height /\ Outstanding(h)'
      BY <1>1 DEF Ahead, Window, Step, Forward, GetterTypeOK, Outstanding, Taken, Unannounced
    <2>6. \A h : h \in Window' => h = height \/ h \in Window
      BY <1>1 DEF Ahead, Window, Step, Forward, GetterTypeOK
    <2>7. NothingLost'
      BY <2>6 DEF NothingLost, Responsible, Taken, closeC, GetterTypeOK
    <2>8. \A h : h = height => Outstanding(h)'
      BY <2>4 DEF Outstanding, Taken, Unannounced
    <2>9. PlacedOnce'
      <3>1. \A k \in Jobs : Responsible(k)' =>
               \/ k = j /\ jobHeight'[k] = height
               \/ k # j /\ Responsible(k) /\ jobHeight'[k] = jobHeight[k]
        BY DEF Responsible, GetterTypeOK
      <3>2. \A h \in newBlocksMap' : Outstanding(h)' /\ h # height
        BY <2>5 DEF PlacedOnce
      <3>3. ASSUME NEW k \in Jobs, Responsible(k)'
            PROVE  /\ Outstanding(jobHeight[k])'
                   /\ jobHeight'[k] \notin newBlocksMap'
                   /\ \A i \in Jobs \ {k} : Responsible(i)' => jobHeight'[i] # jobHeight'[k]
        BY <2>5, <2>8, <3>1, <3>2, <3>3 DEF PlacedOnce
      <3> QED
        BY <3>2, <3>3 DEF PlacedOnce
    <2> QED
      BY <2>1, <2>2, <2>3, <2>7, <2>9
  <1> QED
    BY <1>2, <1>3

\* A step that only moves a job keeps the inductive invariant, as long as the job
\* stays responsible for its height or the getter is closed.
LEMMA JobMovesInv ==
  ASSUME GetterInv, NEW j \in Jobs, NEW pc \in JobPcs,
         jobPc' = [jobPc EXCEPT ![j] = pc],
         jobPc[j] # "unborn",
         pc \in {"check", "fetch", "post"} => Responsible(j),
         Responsible(j) => pc \in {"check", "fetch", "post"} \/ closeC,
         UNCHANGED <<tip, initHeight, height, jobHeight, newBlocksMap, newBlocksC,
                     annPc, annHeight, closeCall>>
  PROVE  GetterInv'
  <1> USE DEF GetterInv
  <1>1. annPc # "unborn"
    BY DEF Newborn
  <1>2. GetterTypeOK'
    BY DEF GetterTypeOK
  <1>3. Newborn' /\ Ahead' /\ NoLostWakeup' /\ ChannelOrdered'
    BY <1>1 DEF Newborn, Ahead, NoLostWakeup, ChannelOrdered, Window, Unsent
  <1>4. \A k \in Jobs : /\ Responsible(k)' => Responsible(k)
                        /\ Responsible(k) => Responsible(k)' \/ closeC
    BY DEF Responsible, GetterTypeOK
  <1>5. NothingLost'
    <2>1. closeC' = closeC /\ Window' = Window /\ \A h : Taken(h)' <=> Taken(h)
      BY DEF closeC, Window, Taken
    <2>2. jobHeight' = jobHeight /\ newBlocksMap' = newBlocksMap
      OBVIOUS
    <2> SUFFICES ASSUME ~closeC, NEW h \in Window
                 PROVE  \/ Taken(h) \/ h \in newBlocksMap
                        \/ \E k \in Jobs : Responsible(k)' /\ jobHeight[k] = h
      BY <2>1, <2>2 DEF NothingLost
    <2> QED
      BY <1>4 DEF NothingLost
  <1>6. PlacedOnce'
    <2>1. \A h : Outstanding(h)' <=> Outstanding(h)
      BY DEF Outstanding, Window, Taken, Unannounced
    <2> QED
      BY <1>4, <2>1 DEF PlacedOnce
  <1> QED
    BY <1>2, <1>3, <1>5, <1>6

\* The four job steps of that kind.
LEMMA JobMoveStepsInv ==
  ASSUME GetterInv, NEW j \in Jobs,
         CheckClosed(j) \/ FetchFails(j) \/ FetchSucceeds(j) \/ BacklogDrained(j)
  PROVE  GetterInv'
  <1>1. CASE CheckClosed(j)
    <2> DEFINE pc == IF closeC THEN "done" ELSE "fetch"
    <2>1. /\ pc \in JobPcs
          /\ jobPc' = [jobPc EXCEPT ![j] = pc]
          /\ jobPc[j] # "unborn"
          /\ pc \in {"check", "fetch", "post"} => Responsible(j)
          /\ Responsible(j) => pc \in {"check", "fetch", "post"} \/ closeC
      BY <1>1 DEF CheckClosed, JobPcs, Responsible
    <2> HIDE DEF pc
    <2> QED
      BY <1>1, <2>1, JobMovesInv DEF CheckClosed
  <1>2. CASE FetchFails(j)
    BY <1>2, JobMovesInv DEF FetchFails, JobPcs, Responsible
  <1>3. CASE FetchSucceeds(j)
    BY <1>3, JobMovesInv DEF FetchSucceeds, JobPcs, Responsible
  <1>4. CASE BacklogDrained(j)
    BY <1>4, JobMovesInv DEF BacklogDrained, JobPcs, Responsible
  <1> QED
    BY <1>1, <1>2, <1>3, <1>4

\* Posting a block preserves the inductive invariant: the height passes from the
\* job to newBlocksMap, and a sleeping announcer is woken.
LEMMA PostBlockInv ==
  ASSUME GetterInv, NEW j \in Jobs, PostBlock(j)
  PROVE  GetterInv'
  <1> USE DEF GetterInv, PostBlock
  <1>1. annPc # "unborn" /\ Responsible(j)
    BY DEF Newborn, Responsible
  <1>2. jobHeight[j] \in Nat
    BY DEF GetterTypeOK
  <1>3. GetterTypeOK'
    BY <1>2 DEF GetterTypeOK, JobPcs, AnnPcs, Signal
  <1>4. annPc' # "waiting" /\ (annPc' \in {"send", "idle", "unborn"} <=> annPc \in {"send", "idle", "unborn"})
        /\ (annPc' = "idle" <=> annPc = "idle") /\ annPc' # "unborn"
    BY <1>1 DEF Signal
  <1>5. Newborn' /\ Ahead' /\ NoLostWakeup' /\ ChannelOrdered'
    BY <1>1, <1>4 DEF Newborn, Ahead, NoLostWakeup, ChannelOrdered, Window, Unsent
  <1>6. \A k \in Jobs : Responsible(k)' <=> Responsible(k) /\ k # j
    BY DEF Responsible, GetterTypeOK
  <1>7. \A h : (Taken(h)' <=> Taken(h)) /\ (Outstanding(h)' <=> Outstanding(h))
    BY <1>1, <1>4 DEF Taken, Outstanding, Window, Unannounced
  <1>8. NothingLost'
    BY <1>6, <1>7 DEF NothingLost, Window, closeC
  <1>9. PlacedOnce'
    <2>1. \A h \in newBlocksMap' : Outstanding(h)'
      BY <1>1, <1>7 DEF PlacedOnce
    <2>2. \A k \in Jobs : Responsible(k)' =>
            /\ Outstanding(jobHeight[k])'
            /\ jobHeight'[k] \notin newBlocksMap'
            /\ \A i \in Jobs \ {k} : Responsible(i)' => jobHeight'[i] # jobHeight'[k]
      BY <1>1, <1>6, <1>7 DEF PlacedOnce
    <2> QED
      BY <2>1, <2>2 DEF PlacedOnce
  <1> QED
    BY <1>3, <1>5, <1>8, <1>9

\* The announcer takes the block it wants, or goes to sleep because it is not there.
LEMMA TakeOrWaitInv ==
  ASSUME GetterInv, annPc \in {"lock", "woken"}, TakeOrWait,
         UNCHANGED <<tip, initHeight, height, jobPc, jobHeight, newBlocksC, closeCall>>
  PROVE  GetterInv'
  <1> USE DEF GetterInv, TakeOrWait
  <1>1. GetterTypeOK'
    BY DEF GetterTypeOK, AnnPcs
  <1>2. annPc \notin {"unborn", "send", "idle"} /\ annPc' \notin {"unborn", "idle"}
    OBVIOUS
  <1>3. annHeight \in newBlocksMap => annHeight \in Window
    <2>1. annHeight \in newBlocksMap => Outstanding(annHeight)
      BY DEF PlacedOnce
    <2> QED
      BY <1>2, <2>1 DEF Outstanding, Unannounced, Ahead, GetterTypeOK
  <1>4. Newborn' /\ Ahead' /\ NoLostWakeup' /\ ChannelOrdered'
    BY <1>2, <1>3 DEF Newborn, Ahead, NoLostWakeup, ChannelOrdered, Window, Unsent
  <1>5. \A h : Taken(h)' <=> (h = annHeight /\ annHeight \in newBlocksMap)
    BY DEF Taken
  <1>6. \A j \in Jobs : (Responsible(j)' <=> Responsible(j))
    BY DEF Responsible
  <1>7. \A h \in Window' : h \in Window
    BY DEF Window
  <1>8. NothingLost'
    BY <1>2, <1>5, <1>6, <1>7 DEF NothingLost, closeC, Taken
  <1>9. \A h : Outstanding(h) => Outstanding(h)' \/ (h = annHeight /\ annHeight \in newBlocksMap)
    BY <1>5 DEF Outstanding, Window, Unannounced
  <1>10. PlacedOnce'
    BY <1>6, <1>9 DEF PlacedOnce
  <1> QED
    BY <1>1, <1>4, <1>8, <1>10

\* Sending a block preserves the inductive invariant: it is the next height of the
\* channel's sequence, and the announcer never runs below the lowest height.
LEMMA AnnounceSendInv ==
  ASSUME GetterInv, AnnounceSend
  PROVE  GetterInv'
  <1> USE DEF GetterInv, AnnounceSend
  <1>1. annHeight \in Window /\ annPc' \in {"idle", "select"}
    BY DEF Ahead
  <1>2. GetterTypeOK'
    <2>1. annHeight' \in Nat
      BY LowestHeightPositive DEF GetterTypeOK, Step, BackwardDone
    <2> QED
      BY <1>1, <2>1 DEF GetterTypeOK, AnnPcs
  <1>3. Newborn' /\ NoLostWakeup'
    BY <1>1 DEF Newborn, NoLostWakeup
  <1>4. Ahead'
    <2>1. CASE Forward
      BY <1>1, <2>1 DEF Ahead, Window, Step, BackwardDone, GetterTypeOK
    <2>2. CASE ~Forward
      BY <1>1, <2>2 DEF Ahead, Window, Step, BackwardDone, GetterTypeOK
    <2> QED
      BY <2>1, <2>2
  <1>5. \A h \in Window' : h \in Window /\ (h # annHeight \/ Taken(h)')
    BY <1>1 DEF Window, Step, Taken, GetterTypeOK, BackwardDone
  <1>6. \A j \in Jobs : (Responsible(j)' <=> Responsible(j))
    BY DEF Responsible
  <1>7. NothingLost'
    BY <1>5, <1>6 DEF NothingLost, closeC, Taken
  <1>8. \A h : Outstanding(h) => Outstanding(h)'
    <2>1. CASE Forward
      BY <1>1, <2>1 DEF Outstanding, Window, Step, Taken, Unannounced, GetterTypeOK, BackwardDone
    <2>2. CASE ~Forward
      BY <1>1, <2>2 DEF Outstanding, Window, Step, Taken, Unannounced, GetterTypeOK, BackwardDone
    <2> QED
      BY <2>1, <2>2
  <1>9. PlacedOnce'
    BY <1>6, <1>8 DEF PlacedOnce
  <1>10. ChannelOrdered'
    <2>1. Unsent' = Step(annHeight) /\ Unsent = annHeight
      BY DEF Unsent, Step, BackwardDone
    <2>2. Len(newBlocksC') = Len(newBlocksC) + 1 /\ newBlocksC'[Len(newBlocksC) + 1] = annHeight
          /\ \A i \in 1 .. Len(newBlocksC) : newBlocksC'[i] = newBlocksC[i]
      BY DEF GetterTypeOK
    <2>3. Len(newBlocksC) \in Nat /\ annHeight \in Nat
      BY DEF GetterTypeOK
    <2> QED
      BY <2>1, <2>2, <2>3 DEF ChannelOrdered, Step
  <1> QED
    BY <1>2, <1>3, <1>4, <1>7, <1>9, <1>10

\* Steps that change no height and no block keep the inductive invariant.
LEMMA QuietStepInv ==
  ASSUME GetterInv,
         tip' \in Nat, annPc' \in AnnPcs, closeCall' \in {"none", "signalled", "closed"},
         \/ annPc' = annPc
         \/ /\ annPc \notin {"unborn", "idle", "send"}
            /\ annPc' \notin {"unborn", "idle", "send", "waiting"},
         closeC => closeC',
         UNCHANGED <<initHeight, height, jobPc, jobHeight, newBlocksMap, newBlocksC,
                     annHeight>>
  PROVE  GetterInv'
  <1> USE DEF GetterInv
  <1>1. GetterTypeOK'
    BY DEF GetterTypeOK
  <1>2. Newborn' /\ Ahead' /\ NoLostWakeup' /\ ChannelOrdered'
    BY DEF Newborn, Ahead, NoLostWakeup, ChannelOrdered, Window, Unsent
  <1>3. \A h : (Taken(h)' <=> Taken(h)) /\ (Outstanding(h)' <=> Outstanding(h))
    BY DEF Taken, Outstanding, Window, Unannounced
  <1>4. \A j \in Jobs : Responsible(j)' <=> Responsible(j)
    BY DEF Responsible
  <1>5. NothingLost'
    BY <1>3, <1>4 DEF NothingLost, Window
  <1>6. PlacedOnce'
    BY <1>3, <1>4 DEF PlacedOnce
  <1> QED
    BY <1>1, <1>2, <1>5, <1>6

\* Receiving a block keeps the inductive invariant: the rest of the channel is
\* still in order.
LEMMA ReceiveInv ==
  ASSUME GetterInv, Receive
  PROVE  GetterInv'
  <1> USE DEF GetterInv, Receive
  <1>1. /\ Tail(newBlocksC) \in Seq(Nat)
        /\ Len(newBlocksC) \in Nat \ {0}
        /\ Len(Tail(newBlocksC)) = Len(newBlocksC) - 1
        /\ \A i \in 1 .. Len(newBlocksC) - 1 : Tail(newBlocksC)[i] = newBlocksC[i + 1]
    BY DEF GetterTypeOK
  <1>2. GetterTypeOK'
    BY <1>1 DEF GetterTypeOK
  <1>3. Newborn' /\ Ahead' /\ NoLostWakeup'
    BY DEF Newborn, Ahead, NoLostWakeup, Window
  <1>4. NothingLost' /\ PlacedOnce'
    BY DEF NothingLost, PlacedOnce, Window, Taken, Outstanding, Unannounced, Responsible, closeC
  <1>5. ChannelOrdered'
    <2>1. Unsent' = Unsent /\ Unsent \in Int
      BY DEF Unsent, GetterTypeOK
    <2> QED
      BY <1>1, <2>1 DEF ChannelOrdered
  <1> QED
    BY <1>2, <1>3, <1>4, <1>5

\* Every step around an existing getter preserves the inductive invariant.
LEMMA GetterStepInv ==
  ASSUME GetterInv, GetterStep
  PROVE  GetterInv'
  <1>1. ASSUME NEW j \in Jobs, JobStep(j) PROVE GetterInv'
    BY <1>1, GetHeightToFetchInv, JobMoveStepsInv, PostBlockInv DEF JobStep
  <1>2. CASE AnnounceSelect
    BY <1>2, QuietStepInv DEF AnnounceSelect, AnnPcs, GetterInv, GetterTypeOK, closeC
  <1>3. CASE AnnounceLook
    BY <1>3, TakeOrWaitInv DEF AnnounceLook
  <1>4. CASE AnnounceWake
    <2>1. CASE closeC
      BY <1>4, <2>1, QuietStepInv DEF AnnounceWake, AnnPcs, GetterInv, GetterTypeOK, closeC
    <2>2. CASE ~closeC
      BY <1>4, <2>2, TakeOrWaitInv DEF AnnounceWake
    <2> QED
      BY <2>1, <2>2
  <1>5. CASE AnnounceSend
    BY <1>5, AnnounceSendInv
  <1>6. CASE CloseSignals
    BY <1>6, QuietStepInv DEF CloseSignals, Signal, AnnPcs, GetterInv, GetterTypeOK, closeC
  <1>7. CASE CloseCloses
    BY <1>7, QuietStepInv DEF CloseCloses, GetterInv, GetterTypeOK, closeC
  <1>8. CASE ChainGrows
    BY <1>8, QuietStepInv DEF ChainGrows, GetterInv, GetterTypeOK, closeC
  <1> QED
    BY <1>1, <1>2, <1>3, <1>4, <1>5, <1>6, <1>7, <1>8 DEF GetterStep, AnnouncerStep

\* A stuttering step preserves the inductive invariant.
LEMMA GetterStutterInv ==
  ASSUME GetterInv, UNCHANGED getterVars
  PROVE  GetterInv'
  BY QuietStepInv DEF getterVars, GetterInv, GetterTypeOK, closeC

-----------------------------------------------------------------------------

\* GetterInv is an invariant of the getter.
THEOREM GetterInvariance == GetterSpec => []GetterInv
  <1>1. GetterInit => GetterInv
    BY GetterInitInv
  <1>2. GetterInv /\ [GetterNext]_getterVars => GetterInv'
    <2> SUFFICES ASSUME GetterInv, [GetterNext]_getterVars
                 PROVE  GetterInv'
      OBVIOUS
    <2>1. ASSUME NEW h \in StartHeights, InitBlockGetter(h) PROVE GetterInv'
      BY <2>1, InitBlockGetterInv
    <2>2. CASE GetterStep
      BY <2>2, GetterStepInv
    <2>3. CASE Receive
      BY <2>3, ReceiveInv
    <2>4. CASE UNCHANGED getterVars
      BY <2>4, GetterStutterInv
    <2> QED
      BY <2>1, <2>2, <2>3, <2>4 DEF GetterNext
  <1> QED
    BY <1>1, <1>2, PTL DEF GetterSpec

\* The types hold: no unsigned height of the getter ever runs below zero, for any
\* stop height and any number of jobs (lines 365-368, 436-442, 474-478).
THEOREM GetterTypes == GetterSpec => []GetterTypeOK
  BY GetterInvariance, PTL DEF GetterInv

\* The announcer never sleeps through the block it waits for (lines 411-417, 515-517).
THEOREM WakeupsArrive == GetterSpec => []NoLostWakeup
  BY GetterInvariance, PTL DEF GetterInv

\* No height is dropped between a job and the channel (lines 487-537).
THEOREM HeightsKept == GetterSpec => []NothingLost
  BY GetterInvariance, PTL DEF GetterInv

\* No height is fetched or stored twice (lines 465-484 and 516).
THEOREM HeightsUnique == GetterSpec => []PlacedOnce
  BY GetterInvariance, PTL DEF GetterInv

\* The channel delivers consecutive heights whatever the order of the posts
\* (lines 405-448).
THEOREM OrderRestored == GetterSpec => []ChannelOrdered
  BY GetterInvariance, PTL DEF GetterInv

-----------------------------------------------------------------------------
(* The bound on the backlog, which needs a finite newBlocksMap. *)

BacklogInv == IsFiniteSet(newBlocksMap) /\ BacklogBounded

\* Sets of jobs are finite.
LEMMA SleepersFinite == IsFiniteSet(Sleepers) /\ Cardinality(Sleepers) \in Nat
  <1>1. Sleepers \in SUBSET Jobs /\ IsFiniteSet(Jobs)
    BY DEF Sleepers
  <1> QED
    BY <1>1, FS_Subset, FS_CardinalityType

\* Taking blocks from the map, with the same jobs asleep, keeps the bound.
LEMMA BacklogShrinks ==
  ASSUME BacklogInv, newBlocksMap' \in SUBSET newBlocksMap, Sleepers' = Sleepers
  PROVE  BacklogInv'
  <1>1. /\ IsFiniteSet(newBlocksMap')
        /\ Cardinality(newBlocksMap') <= Cardinality(newBlocksMap)
    BY FS_Subset DEF BacklogInv
  <1>2. Cardinality(newBlocksMap') \in Nat /\ Cardinality(newBlocksMap) \in Nat
    BY <1>1, FS_CardinalityType DEF BacklogInv
  <1> QED
    BY <1>1, <1>2, SleepersFinite DEF BacklogInv, BacklogBounded

\* A post that makes the backlog too large puts its own job to sleep.
LEMMA PostBlockBacklog ==
  ASSUME GetterTypeOK, BacklogInv, NEW j \in Jobs, PostBlock(j)
  PROVE  BacklogInv'
  <1>1. /\ IsFiniteSet(newBlocksMap')
        /\ Cardinality(newBlocksMap') \in {Cardinality(newBlocksMap), Cardinality(newBlocksMap) + 1}
    BY FS_AddElement DEF PostBlock, BacklogInv
  <1>2. Cardinality(newBlocksMap') \in Nat /\ Cardinality(newBlocksMap) \in Nat
    BY <1>1, FS_CardinalityType DEF BacklogInv
  <1>3. CASE TooFarFromHead(newBlocksMap')
    <2>1. Sleepers' = Sleepers \union {j} /\ j \notin Sleepers
      BY <1>3 DEF PostBlock, Sleepers, GetterTypeOK
    <2>2. Cardinality(Sleepers') = Cardinality(Sleepers) + 1
      BY <2>1, SleepersFinite, FS_AddElement
    <2> QED
      BY <1>1, <1>2, <2>2, SleepersFinite DEF BacklogInv, BacklogBounded
  <1>4. CASE ~TooFarFromHead(newBlocksMap')
    <2>1. Sleepers' = Sleepers
      BY <1>4 DEF PostBlock, Sleepers, GetterTypeOK
    <2> QED
      BY <1>1, <1>2, <1>4, <2>1, SleepersFinite DEF BacklogInv, BacklogBounded, TooFarFromHead
  <1> QED
    BY <1>3, <1>4

\* A job wakes up only when the backlog is within its limit.
LEMMA BacklogDrainedBacklog ==
  ASSUME GetterTypeOK, BacklogInv, NEW j \in Jobs, BacklogDrained(j)
  PROVE  BacklogInv'
  <1>1. newBlocksMap' = newBlocksMap /\ Cardinality(newBlocksMap) \in Nat
    BY FS_CardinalityType DEF BacklogDrained, BacklogInv
  <1>2. Sleepers' = Sleepers \ {j}
    BY DEF BacklogDrained, Sleepers, GetterTypeOK
  <1>3. Cardinality(Sleepers') \in Nat
    BY <1>2, SleepersFinite, FS_RemoveElement, FS_CardinalityType
  <1> QED
    BY <1>1, <1>3 DEF BacklogInv, BacklogBounded, BacklogDrained, TooFarFromHead

\* The backlog exceeds its limit by at most one block per job (lines 519-531).
THEOREM BacklogLimited == GetterSpec => []BacklogBounded
  <1>1. GetterInit => BacklogInv
    BY SleepersFinite, FS_EmptySet DEF GetterInit, BacklogInv, BacklogBounded
  <1>2. GetterInv /\ BacklogInv /\ [GetterNext]_getterVars => BacklogInv'
    <2> SUFFICES ASSUME GetterInv, BacklogInv, [GetterNext]_getterVars
                 PROVE  BacklogInv'
      OBVIOUS
    <2> GetterTypeOK
      BY DEF GetterInv
    <2>1. ASSUME NEW h \in StartHeights, InitBlockGetter(h) PROVE BacklogInv'
      BY <2>1, BacklogShrinks DEF InitBlockGetter, Sleepers, GetterInv, Newborn
    <2>2. ASSUME NEW j \in Jobs, JobStep(j) PROVE BacklogInv'
      <3>1. ASSUME GetHeightToFetch(j) \/ CheckClosed(j) \/ FetchFails(j) \/ FetchSucceeds(j)
            PROVE  BacklogInv'
        BY <3>1, BacklogShrinks DEF GetHeightToFetch, CheckClosed, FetchFails,
             FetchSucceeds, Sleepers, GetterTypeOK
      <3> QED
        BY <2>2, <3>1, PostBlockBacklog, BacklogDrainedBacklog DEF JobStep
    <2>3. CASE AnnouncerStep \/ CloseSignals \/ CloseCloses \/ ChainGrows \/ Receive
      BY <2>3, BacklogShrinks DEF AnnouncerStep, AnnounceSelect, AnnounceLook, AnnounceWake,
           AnnounceSend, TakeOrWait, CloseSignals, CloseCloses, ChainGrows, Receive, Sleepers
    <2>4. CASE UNCHANGED getterVars
      BY <2>4, BacklogShrinks DEF getterVars, Sleepers
    <2> QED
      BY <2>1, <2>2, <2>3, <2>4 DEF GetterNext, GetterStep
  <1>3. BacklogInv => BacklogBounded
    BY DEF BacklogInv
  <1> QED
    BY <1>1, <1>2, <1>3, GetterInvariance, PTL DEF GetterSpec

-----------------------------------------------------------------------------
(* The watcher. *)

USE WatcherAssumption

\* The steps around the getter change neither its initial height nor the next
\* height the loop will receive.
LEMMA GetterStepExpected ==
  ASSUME GetterInv, GetterStep
  PROVE  Expected' = Expected /\ initHeight' = initHeight
         /\ (annPc = "unborn" <=> annPc' = "unborn")
  <1> USE DEF GetterInv
  <1>1. CASE AnnounceSend
    <2>1. annPc # "unborn" /\ annPc' # "unborn" /\ initHeight' = initHeight
      BY <1>1 DEF AnnounceSend
    <2>2. Unsent' = Step(annHeight) /\ Unsent = annHeight
      BY <1>1 DEF AnnounceSend, Unsent, Step, BackwardDone
    <2>3. Len(newBlocksC') = Len(newBlocksC) + 1 /\ Len(newBlocksC) \in Nat /\ annHeight \in Nat
      BY <1>1 DEF AnnounceSend, GetterTypeOK
    <2> QED
      BY <2>1, <2>2, <2>3 DEF Expected, Step
  <1>2. ASSUME NEW j \in Jobs, JobStep(j)
        PROVE  Expected' = Expected /\ initHeight' = initHeight
               /\ (annPc = "unborn" <=> annPc' = "unborn")
    BY <1>2 DEF JobStep, GetHeightToFetch, CheckClosed, FetchFails, FetchSucceeds, PostBlock,
                BacklogDrained, Signal, Expected, Unsent
  <1>3. CASE AnnounceSelect \/ AnnounceLook \/ AnnounceWake
    BY <1>3 DEF AnnounceSelect, AnnounceLook, AnnounceWake, TakeOrWait, Expected, Unsent
  <1>4. CASE CloseSignals \/ CloseCloses \/ ChainGrows
    BY <1>4 DEF CloseSignals, CloseCloses, ChainGrows, Signal, Expected, Unsent
  <1> QED
    BY <1>1, <1>2, <1>3, <1>4 DEF GetterStep, AnnouncerStep

\* The head of the channel is the expected height, which is at least 1.
LEMMA HeadExpected ==
  ASSUME GetterInv, Receive, annPc # "unborn", initHeight >= 1,
         Forward => Expected >= initHeight
  PROVE  /\ Head(newBlocksC) = Expected
         /\ Expected \in Nat \ {0}
         /\ Expected' = Step(Expected)
  <1> USE DEF GetterInv, Receive
  <1>1. /\ Len(newBlocksC) \in Nat \ {0}
        /\ Head(newBlocksC) = newBlocksC[1]
        /\ Len(Tail(newBlocksC)) = Len(newBlocksC) - 1
    BY DEF GetterTypeOK
  <1>2. Unsent' = Unsent /\ Unsent \in Int
    BY DEF Unsent, GetterTypeOK
  <1>3. Head(newBlocksC) = Expected
    BY <1>1, <1>2 DEF ChannelOrdered, Expected
  <1>4. ~Forward => Unsent >= 0
    BY DEF Unsent, Ahead, Window, GetterTypeOK
  <1>5. Expected \in Nat \ {0}
    <2>1. initHeight \in Nat
      BY DEF GetterTypeOK
    <2>2. CASE Forward
      <3>1. Expected \in Int
        BY <1>1, <1>2, <2>2 DEF Expected
      <3>2. Expected >= initHeight
        BY <2>2
      <3> HIDE DEF GetterInv, Receive
      <3> QED
        BY <2>1, <3>1, <3>2
    <2>3. CASE ~Forward
      BY <1>1, <1>2, <1>4, <2>3 DEF Expected
    <2> QED
      BY <2>2, <2>3
  <1>6. Expected' = Step(Expected)
    BY <1>1, <1>2 DEF Expected, Step
  <1> QED
    BY <1>3, <1>5, <1>6

\* The steps around the getter keep backward heights in reach.
LEMMA GetterStepReach ==
  ASSUME GetterInv, Reach, GetterStep
  PROVE  Reach'
  <1> SUFFICES ASSUME ~Forward PROVE Reach'
    BY DEF Reach
  <1> USE DEF GetterInv
  <1>1. LowestHeight \in Nat \ {0} /\ LowestHeight' = LowestHeight
    BY LowestHeightPositive DEF LowestHeight
  <1>2. CASE AnnounceSend
    <2>1. annHeight \in Window /\ annPc # "unborn"
      BY <1>2 DEF AnnounceSend, Ahead
    <2>2. annHeight >= LowestHeight
      BY <1>1, <2>1 DEF Reach, Window, Ahead, GetterTypeOK
    <2>3. /\ Len(newBlocksC) \in Nat
          /\ Len(newBlocksC') = Len(newBlocksC) + 1
          /\ newBlocksC'[Len(newBlocksC) + 1] = annHeight
          /\ \A i \in 1 .. Len(newBlocksC) : newBlocksC'[i] = newBlocksC[i]
      BY <1>2 DEF AnnounceSend, GetterTypeOK
    <2>4. \A i \in 1 .. Len(newBlocksC') : newBlocksC'[i] >= LowestHeight
      BY <2>2, <2>3 DEF Reach
    <2>5. height' = height /\ initHeight' = initHeight
      BY <1>2 DEF AnnounceSend
    <2> QED
      BY <1>1, <2>1, <2>4, <2>5 DEF Reach
  <1>3. ASSUME NEW j \in Jobs, GetHeightToFetch(j) PROVE Reach'
    BY <1>1, <1>3 DEF Reach, GetHeightToFetch, Exhausted, Step, GetterTypeOK
  <1>4. ASSUME NEW j \in Jobs, JobStep(j), ~GetHeightToFetch(j) PROVE Reach'
    BY <1>1, <1>4 DEF Reach, JobStep, CheckClosed, FetchFails, FetchSucceeds, PostBlock,
                      BacklogDrained, Signal
  <1>5. CASE AnnounceSelect \/ AnnounceLook \/ AnnounceWake
    BY <1>1, <1>5 DEF Reach, AnnounceSelect, AnnounceLook, AnnounceWake, TakeOrWait
  <1>6. CASE CloseSignals \/ CloseCloses \/ ChainGrows
    BY <1>1, <1>6 DEF Reach, CloseSignals, CloseCloses, ChainGrows
  <1> QED
    BY <1>2, <1>3, <1>4, <1>5, <1>6 DEF GetterStep, AnnouncerStep

\* The initial state satisfies the inductive invariant of the watcher.
LEMMA WatcherInitInv == WatcherInit => WatcherInv
  <1> SUFFICES ASSUME WatcherInit PROVE WatcherInv
    OBVIOUS
  <1>1. GetterInv
    BY GetterInitInv DEF WatcherInit
  <1>2. WatcherTypeOK
    BY <1>1 DEF WatcherInit, WatcherTypeOK, WatchPcs, GetterInv
  <1>3. Beginning /\ HeldNext /\ Reach /\ NoMismatch /\ SyncedIsHandled
    BY DEF WatcherInit, GetterInit, Beginning, HeldNext, Reach, NoMismatch, SyncedIsHandled
  <1> QED
    BY <1>1, <1>2, <1>3 DEF WatcherInv

\* Reading the height of the chain keeps the invariant.
LEMMA RunInitialSyncInv == ASSUME WatcherInv, RunInitialSync PROVE WatcherInv'
  <1> USE DEF WatcherInv, RunInitialSync
  <1>1. GetterInv'
    BY GetterStutterInv
  <1>2. WatcherTypeOK'
    BY <1>1 DEF GetterInv, WatcherTypeOK, WatchPcs, GetterTypeOK
  <1>3. Beginning' /\ HeldNext' /\ NoMismatch' /\ SyncedIsHandled'
    BY DEF Beginning, HeldNext, NoMismatch, SyncedIsHandled, getterVars
  <1>4. Reach'
    BY DEF Reach, getterVars, LowestHeight
  <1> QED
    BY <1>1, <1>2, <1>3, <1>4

\* Creating the getter keeps the invariant: it starts one above latestSyncedBlock.
LEMMA BeginWatchingInv == ASSUME WatcherInv, BeginWatching PROVE WatcherInv'
  <1> USE DEF WatcherInv, BeginWatching
  <1>1. latestSyncedBlock' \in Nat /\ latestSyncedBlock' + 1 \in Nat \ {0}
    BY DEF WatcherTypeOK
  <1>2. GetterInv'
    BY <1>1, InitBlockGetterInv
  <1>3. WatcherTypeOK'
    BY <1>1, <1>2 DEF GetterInv, WatcherTypeOK, WatchPcs
  <1>4. Newborn /\ annPc = "unborn" /\ held = 0 /\ taken = 0 /\ ~isDone'
    BY DEF GetterInv, Beginning, WatcherTypeOK
  <1>5. Beginning'
    BY <1>1, <1>4 DEF Beginning, InitBlockGetter
  <1>6. /\ initHeight' = latestSyncedBlock' + 1 /\ height' = initHeight'
        /\ annHeight' = FirstAnnounced(initHeight')
        /\ annPc' = "select" /\ newBlocksC' = <<>>
    BY <1>4 DEF InitBlockGetter, Newborn, FirstAnnounced
  <1>7. Expected' = FirstAnnounced(initHeight')
    BY <1>1, <1>6 DEF Expected, Unsent, FirstAnnounced
  <1>8. HeldNext'
    BY <1>4, <1>7 DEF HeldNext, FirstAnnounced
  <1>9. Reach'
    BY <1>1, <1>6 DEF Reach
  <1>10. NoMismatch' /\ SyncedIsHandled'
    BY <1>1, <1>4, <1>6 DEF NoMismatch, SyncedIsHandled
  <1> QED
    BY <1>2, <1>3, <1>5, <1>8, <1>9, <1>10

\* Leaving the loop, and a failing handler, keep the invariant.
LEMMA LoopEndsInv == ASSUME WatcherInv, SelectStop \/ HandlerFails PROVE WatcherInv'
  <1> USE DEF WatcherInv, SelectStop, HandlerFails
  <1>1. UNCHANGED <<getterVars, rewindTo, held, taken, latestSyncedBlock, isSynced, isDone,
                    isClosing, closePc>> /\ watchPc' \in {"exited", "fatal"}
    OBVIOUS
  <1>2. GetterInv'
    BY <1>1, GetterStutterInv
  <1>3. WatcherTypeOK' /\ NoMismatch' /\ SyncedIsHandled' /\ Reach'
    BY <1>1, <1>2 DEF GetterInv, WatcherTypeOK, WatchPcs, NoMismatch, SyncedIsHandled, Reach,
         getterVars, LowestHeight
  <1>4. Beginning' /\ HeldNext'
    BY <1>1 DEF Beginning, HeldNext, getterVars
  <1> QED
    BY <1>2, <1>3, <1>4

\* Receiving a block keeps the invariant: it is adjacent to the block that is kept.
LEMMA SelectBlockInv ==
  ASSUME WatcherInv, SelectBlock
  PROVE  /\ WatcherInv'
         /\ Expected \in Nat \ {0} /\ Head(newBlocksC) = Expected
         /\ \/ held = 0 /\ held' = Expected /\ UNCHANGED <<watchPc, taken>>
            \/ held # 0 /\ taken' = Expected /\ watchPc' = "handle" /\ UNCHANGED held
  <1> USE DEF WatcherInv, SelectBlock
  <1>1. annPc # "unborn" /\ initHeight >= 1 /\ (Forward => Expected >= initHeight)
    <2>1. annPc # "unborn" /\ initHeight >= 1
      BY DEF Beginning
    <2>2. held \in Nat /\ initHeight \in Nat
      BY DEF WatcherTypeOK, GetterTypeOK
    <2>3. ASSUME Forward PROVE Expected >= initHeight
      <3>1. CASE held = 0
        BY <2>2, <2>3, <3>1 DEF HeldNext, FirstAnnounced
      <3>2. CASE held # 0
        <4>1. Expected = held + 1 /\ held >= initHeight
          BY <2>3, <3>2 DEF HeldNext, Step
        <4> QED
          BY <2>2, <4>1
      <3> QED
        BY <3>1, <3>2
    <2> QED
      BY <2>1, <2>3
  <1>2. /\ Head(newBlocksC) = Expected
        /\ Expected \in Nat \ {0}
        /\ Expected' = Step(Expected)
    BY <1>1, HeadExpected
  <1>3. GetterInv'
    BY ReceiveInv
  <1>4. \/ held = 0 /\ held' = Expected /\ UNCHANGED <<watchPc, taken>>
        \/ held # 0 /\ taken' = Expected /\ watchPc' = "handle" /\ UNCHANGED held
    BY <1>2 DEF HeldNext, Adjacent
  <1>5. UNCHANGED <<tip, initHeight, height, annPc, annHeight>>
    BY DEF Receive
  <1>6. WatcherTypeOK' /\ NoMismatch'
    BY <1>2, <1>3, <1>4 DEF GetterInv, WatcherTypeOK, WatchPcs, NoMismatch
  <1>7. Beginning'
    BY <1>1, <1>4, <1>5 DEF Beginning
  <1>8. HeldNext'
    <2>1. CASE held = 0
      BY <1>1, <1>2, <1>4, <1>5, <2>1 DEF HeldNext, FirstAnnounced, WatcherTypeOK, GetterTypeOK
    <2>2. CASE held # 0
      BY <1>2, <1>4, <1>5, <2>2 DEF HeldNext
    <2> QED
      BY <2>1, <2>2
  <1>9. Reach'
    <2>1. /\ Len(newBlocksC) \in Nat \ {0}
          /\ Len(newBlocksC') = Len(newBlocksC) - 1
          /\ \A i \in 1 .. Len(newBlocksC) - 1 : newBlocksC'[i] = newBlocksC[i + 1]
      BY DEF Receive, GetterInv, GetterTypeOK
    <2> QED
      BY <1>5, <2>1 DEF Reach, LowestHeight
  <1>10. SyncedIsHandled'
    BY <1>2, <1>4, <1>5 DEF SyncedIsHandled, HeldNext, FirstAnnounced
  <1> QED
    BY <1>2, <1>3, <1>4, <1>6, <1>7, <1>8, <1>9, <1>10

\* The end of a handler call keeps the invariant.
LEMMA HandlerReturnsInv == ASSUME WatcherInv, HandlerReturns PROVE WatcherInv'
  <1> USE DEF WatcherInv, HandlerReturns
  <1>1. /\ held \in Nat \ {0} /\ taken \in Nat \ {0} /\ taken = Step(held)
        /\ Expected = Step(taken)
        /\ IF Forward THEN held >= initHeight ELSE held < initHeight
        /\ initHeight \in Nat
    BY DEF HeldNext, WatcherTypeOK, GetterTypeOK
  <1>2. GetterInv'
    BY GetterStutterInv
  <1>3. UNCHANGED <<annPc, initHeight, height, newBlocksC, Expected>>
    BY DEF getterVars, Expected, Unsent
  <1>4. WatcherTypeOK' /\ NoMismatch'
    BY <1>1, <1>2 DEF GetterInv, WatcherTypeOK, WatchPcs, NoMismatch
  <1>5. Beginning'
    BY <1>3 DEF Beginning
  <1>6. HeldNext'
    BY <1>1, <1>3 DEF HeldNext, Step
  <1>7. Reach'
    BY <1>3 DEF Reach, LowestHeight
  <1>8. SyncedIsHandled'
    <2> SUFFICES ASSUME watchPc' = "select"
                 PROVE  /\ held' \notin {0, FirstAnnounced(initHeight)}
                        /\ latestSyncedBlock' = IF Forward THEN held' ELSE held' + 1
      BY <1>3 DEF SyncedIsHandled, FirstAnnounced
    <2>1. held' = taken /\ latestSyncedBlock' = IF Forward THEN taken ELSE held
      OBVIOUS
    <2> HIDE DEF WatcherInv, HandlerReturns
    <2>2. CASE Forward
      BY <1>1, <2>1, <2>2 DEF Step, FirstAnnounced
    <2>3. CASE ~Forward
      BY <1>1, <2>1, <2>3 DEF Step, FirstAnnounced
    <2> QED
      BY <2>2, <2>3
  <1> QED
    BY <1>2, <1>4, <1>5, <1>6, <1>7, <1>8

\* Close touches nothing the invariant is about.
LEMMA CloseStepInv ==
  ASSUME WatcherInv,
         UNCHANGED <<getterVars, rewindTo, watchPc, held, taken, latestSyncedBlock, isSynced,
                     isDone>>,
         isClosing' \in BOOLEAN, closePc' \in {"idle", "waiting", "returned"}
  PROVE  WatcherInv'
  <1> USE DEF WatcherInv
  <1>1. GetterInv'
    BY GetterStutterInv
  <1>2. UNCHANGED <<annPc, initHeight, height, newBlocksC, Expected>>
    BY DEF getterVars, Expected, Unsent
  <1>3. WatcherTypeOK' /\ NoMismatch' /\ Beginning' /\ HeldNext' /\ Reach' /\ SyncedIsHandled'
    BY <1>1, <1>2 DEF GetterInv, WatcherTypeOK, NoMismatch, Beginning, HeldNext, Reach,
         LowestHeight, SyncedIsHandled
  <1> QED
    BY <1>1, <1>3

\* The getter moves under the loop without disturbing the invariant.
LEMMA GetterStepWatcherInv ==
  ASSUME WatcherInv, GetterStep, UNCHANGED watchVars
  PROVE  WatcherInv'
  <1> USE DEF WatcherInv, watchVars
  <1>1. GetterInv'
    BY GetterStepInv
  <1>2. Expected' = Expected /\ initHeight' = initHeight /\ (annPc = "unborn" <=> annPc' = "unborn")
    BY GetterStepExpected
  <1>3. WatcherTypeOK' /\ NoMismatch'
    BY <1>1 DEF GetterInv, WatcherTypeOK, NoMismatch
  <1>4. Beginning' /\ HeldNext' /\ SyncedIsHandled'
    BY <1>2 DEF Beginning, HeldNext, SyncedIsHandled
  <1>5. Reach'
    BY GetterStepReach
  <1> QED
    BY <1>1, <1>3, <1>4, <1>5

-----------------------------------------------------------------------------

\* Every step of the watcher preserves its inductive invariant.
LEMMA WatcherNextInv == WatcherInv /\ [WatcherNext]_watcherVars => WatcherInv'
  <1> SUFFICES ASSUME WatcherInv, [WatcherNext]_watcherVars
               PROVE  WatcherInv'
    OBVIOUS
  <1>1. CASE StartStep
    BY <1>1, RunInitialSyncInv, BeginWatchingInv DEF StartStep
  <1>2. CASE LoopStep
    BY <1>2, LoopEndsInv, SelectBlockInv, HandlerReturnsInv DEF LoopStep
  <1>3. CASE CloseStep
    BY <1>3, CloseStepInv DEF CloseStep, CloseStarts, CloseSeesDone, CloseDeadline, WatcherInv,
         WatcherTypeOK
  <1>4. CASE GetterStep /\ UNCHANGED watchVars
    BY <1>4, GetterStepWatcherInv
  <1>5. CASE UNCHANGED watcherVars
    BY <1>5, CloseStepInv DEF watcherVars, watchVars, WatcherInv, WatcherTypeOK
  <1> QED
    BY <1>1, <1>2, <1>3, <1>4, <1>5 DEF WatcherNext

\* WatcherInv is an invariant of the watcher and its getter.
THEOREM WatcherInvariance == WatcherSpec => []WatcherInv
  BY WatcherInitInv, WatcherNextInv, PTL DEF WatcherSpec

\* The types hold; latestSyncedBlock and the getter's heights never wrap.
THEOREM WatcherTypes == WatcherSpec => []WatcherTypeOK
  BY WatcherInvariance, PTL DEF WatcherInv

\* The sequential height checks never end the process (lines 242 and 283).
THEOREM NeverMismatched == WatcherSpec => []NoMismatch
  BY WatcherInvariance, PTL DEF WatcherInv

\* LastSyncedBlock is the higher block of the last pair handled (lines 200-206, 326-328).
THEOREM SyncedCorrect == WatcherSpec => []SyncedIsHandled
  BY WatcherInvariance, PTL DEF WatcherInv

-----------------------------------------------------------------------------
(* The refinement of BlockFeed, for a getter that nobody closes: no call of *)
(* blockGetter.Close exists in the program.                                 *)

NeverClosed == closeCall = "none" /\ annPc \notin {"stopped", "leaked"}

\* A getter that nobody closes keeps its channel open.
LEMMA NeverClosedInv ==
  ASSUME ~GetterCloses, NeverClosed, [WatcherNext]_watcherVars
  PROVE  NeverClosed'
  <1>1. CASE StartStep
    BY <1>1 DEF StartStep, RunInitialSync, BeginWatching, InitBlockGetter, getterVars, NeverClosed
  <1>2. CASE LoopStep \/ CloseStep \/ UNCHANGED watcherVars
    BY <1>2 DEF LoopStep, SelectStop, SelectBlock, Receive, HandlerReturns, HandlerFails,
         CloseStep, CloseStarts, CloseSeesDone, CloseDeadline, watcherVars, getterVars, NeverClosed
  <1>3. CASE GetterStep
    <2>1. ASSUME NEW j \in Jobs, JobStep(j) PROVE NeverClosed'
      BY <2>1 DEF JobStep, GetHeightToFetch, CheckClosed, FetchFails, FetchSucceeds, PostBlock,
           BacklogDrained, Signal, NeverClosed
    <2>2. CASE AnnouncerStep
      BY <2>2 DEF AnnouncerStep, AnnounceSelect, AnnounceLook, AnnounceWake, AnnounceSend,
           TakeOrWait, NeverClosed, closeC
    <2>3. CASE CloseSignals \/ CloseCloses \/ ChainGrows
      BY <2>3 DEF CloseSignals, CloseCloses, ChainGrows, NeverClosed
    <2> QED
      BY <1>3, <2>1, <2>2, <2>3 DEF GetterStep
  <1> QED
    BY <1>1, <1>2, <1>3 DEF WatcherNext

\* A received block is within the reach of the run.
LEMMA ReceivedReachable ==
  ASSUME GetterInv, Reach, Receive, Head(newBlocksC) = Expected, Expected \in Nat \ {0}
  PROVE  Feed!InReach(Expected)
  <1>1. Len(newBlocksC) \in Nat \ {0} /\ Head(newBlocksC) = newBlocksC[1]
    BY DEF Receive, GetterInv, GetterTypeOK
  <1> QED
    BY <1>1 DEF Reach, Feed!InReach

\* Every step of the watcher is a step of BlockFeed or leaves it unchanged.
LEMMA FeedStep ==
  ASSUME WatcherInv, NeverClosed, WatcherNext
  PROVE  [Feed!FeedNext]_Feed!feedVars
  <1> USE DEF Feed!feedVars, frontier, handling, phase
  <1>1. CASE RunInitialSync
    BY <1>1 DEF RunInitialSync, Feed!FeedNext, Feed!Fail, WatcherInv, Beginning
  <1>2. CASE BeginWatching
    BY <1>2 DEF BeginWatching
  <1>3. CASE SelectStop
    <2>1. isClosing
      BY <1>3 DEF SelectStop, WatcherInv, Beginning, NeverClosed, newBlocksClosed
    <2>2. Feed!Stop
      BY <1>3, <2>1 DEF SelectStop, Feed!Stop
    <2> QED
      BY <2>2 DEF Feed!FeedNext
  <1>4. CASE SelectBlock
    <2>1. Expected \in Nat \ {0} /\ Head(newBlocksC) = Expected
      BY <1>4, SelectBlockInv
    <2>2. Feed!InReach(Expected)
      BY <1>4, <2>1, ReceivedReachable DEF SelectBlock, WatcherInv
    <2>3. watchPc = "select" /\ UNCHANGED isClosing
      BY <1>4 DEF SelectBlock
    <2>4. CASE held = 0
      <3>1. held' = Expected /\ UNCHANGED <<watchPc, taken>> /\ taken = 0
        BY <1>4, <2>3, <2>4, SelectBlockInv DEF WatcherInv, HeldNext
      <3>2. Feed!First
        BY <2>1, <2>2, <2>3, <2>4, <3>1 DEF Feed!First
      <3> QED
        BY <3>2 DEF Feed!FeedNext
    <2>5. CASE held # 0
      <3>1. taken' = Expected /\ watchPc' = "handle" /\ UNCHANGED held
        BY <1>4, <2>5, SelectBlockInv
      <3>2. Expected = Feed!Onward(held) /\ taken \in {0, held}
        BY <2>3, <2>5 DEF WatcherInv, HeldNext, Step, Feed!Onward
      <3>3. Feed!Handle
        BY <2>1, <2>2, <2>3, <2>5, <3>1, <3>2 DEF Feed!Handle
      <3> QED
        BY <3>3 DEF Feed!FeedNext
    <2> QED
      BY <2>4, <2>5
  <1>5. CASE HandlerReturns
    BY <1>5 DEF HandlerReturns, Feed!FeedNext, Feed!Finish, WatcherInv, HeldNext
  <1>6. CASE HandlerFails
    BY <1>6 DEF HandlerFails, Feed!FeedNext, Feed!Fail
  <1>7. CASE CloseStep
    BY <1>7 DEF CloseStep, CloseStarts, CloseSeesDone, CloseDeadline, Feed!FeedNext, Feed!AskToClose,
         WatcherInv, WatcherTypeOK, WatchPcs
  <1>8. CASE UNCHANGED watchVars
    BY <1>8 DEF watchVars
  <1> QED
    BY <1>1, <1>2, <1>3, <1>4, <1>5, <1>6, <1>7, <1>8 DEF WatcherNext, StartStep, LoopStep

\* The watcher implements BlockFeed: adjacent pairs, each once and in order, one
\* handler call at a time, none below the stop height, and after Close at most one
\* more call ends (lines 219-301 and 321-340).
THEOREM WatcherImplementsFeed ==
  ASSUME ~GetterCloses
  PROVE  WatcherSpec => FeedsInOrder
  <1>1. WatcherInit => Feed!FeedInit
    BY DEF WatcherInit, Feed!FeedInit, frontier, handling, phase
  <1>2. WatcherInit => NeverClosed
    BY DEF WatcherInit, GetterInit, NeverClosed
  <1>3. NeverClosed /\ [WatcherNext]_watcherVars => NeverClosed'
    BY NeverClosedInv
  <1>4. WatcherInv /\ NeverClosed /\ [WatcherNext]_watcherVars => [Feed!FeedNext]_Feed!feedVars
    <2>1. UNCHANGED watcherVars => UNCHANGED Feed!feedVars
      BY DEF watcherVars, watchVars, Feed!feedVars, frontier, handling, phase
    <2> QED
      BY <2>1, FeedStep
  <1> QED
    BY <1>1, <1>2, <1>3, <1>4, WatcherInvariance, PTL DEF WatcherSpec, FeedsInOrder, Feed!FeedSpec

=============================================================================
