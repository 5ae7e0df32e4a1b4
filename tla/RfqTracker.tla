----------------------------- MODULE RfqTracker -----------------------------
(***************************************************************************)
(* The rfqTracker of pkg/coremon/rfq_points.go inside the block handler of *)
(* pkg/coremon/rfq_handler.go.  Every RFQ transaction gets one point; for  *)
(* each client timestamp the point waits until the block times known to    *)
(* the cache tell how many blocks the transaction missed, or until they    *)
(* cannot tell any more.                                                   *)
(*                                                                         *)
(* The handler is called the way BlockFeed says, which the block watcher   *)
(* is shown to implement.  Its other points (quotes, wasm errors) are      *)
(* written in the call that makes them and keep no state.  The cache of    *)
(* BlockTimeCache is rfqTracker.blockTimes.                                *)
(***************************************************************************)
EXTENDS BlockTimeCache

CONSTANTS
  StopHeight,  \* RFQConfig.StopHeight, 0 for none
  Stamps,      \* client timestamps that occur
  MaxTxs       \* bound: RFQ transactions in a run

ASSUME TrackerAssumption ==
  /\ CacheSize > 1  \* a pair of blocks fits in the cache
  /\ StopHeight \in Nat
  /\ Stamps \subseteq Nat
  /\ MaxTxs \in Nat

VARIABLES
  reverse,  \* RFQConfig.Reverse
  frontier, handling, phase, \* the feed of blocks, see BlockFeed
  first,    \* history: the first block that was fed, 0 if none was
  pending,  \* rfqTracker.pending, the order of its points abstracted
  written,  \* points passed to the Influx write API
  handled   \* history: the RFQ transactions that were seen

trackerVars == <<cache, pending, written, handled>>

vars == <<reverse, frontier, handling, phase, first, trackerVars>>

\* The lowest block the watcher announces in backward direction.
LowestHeight == IF StopHeight > 1 THEN StopHeight - 1 ELSE 1

Feed == INSTANCE BlockFeed WITH backward <- reverse, Blocks <- Heights

-----------------------------------------------------------------------------
(* Points. *)

\* The two fields that count missed blocks, by the timestamp they start from.
Fields == {"rfq_id", "memo"}

\* The timestamps a transaction carries: none, one or both.
Stampings == UNION {[F -> Stamps] : F \in SUBSET Fields}

Id(p) == <<p.height, p.tx>>

Ids(points) == {Id(p) : p \in points}

NewPoint(h, tx, stamps) ==
  [height |-> h, tx |-> tx, stamps |-> stamps,
   missing |-> DOMAIN stamps, missed |-> [f \in {} |-> 0]]

\* TxPoints, for all RFQ transactions of a block.
TxPoints(h, txs) == {NewPoint(h, i, txs[i]) : i \in DOMAIN txs}

\* ObserveBlocks: both blocks of the pair, the one that continues the cache first.
ObserveBlocks(prev, next) ==
  IF reverse THEN Add(Add(cache, next, BlockTime[next]), prev, BlockTime[prev])
             ELSE Add(Add(cache, prev, BlockTime[prev]), next, BlockTime[next])

\* Mutant: one more block is expected below the last one.
CanGoLowerBelow(c) == reverse /\ (StopHeight = 0 \/ Lowest(c) >= StopHeight - 1)

\* Backward, earlier blocks keep coming until the stop height is reached.
CanGoLower(c) == reverse /\ (StopHeight = 0 \/ Lowest(c) >= StopHeight)

\* Mutant: a timestamp is given up one block before the cache forgets it.
StillInWindowShort(c, h) == h - Lowest(c) < CacheSize - 1

\* Mutant: a timestamp is waited for without a limit.
StillInWindowAlways(c, h) == TRUE

StillInWindow(c, h) == h - Lowest(c) < CacheSize

\* Mutant: the block of the timestamp counts as missed.
BlocksMissedInclusive(c, h, ts) == h - FloorHeight(c, ts)

BlocksMissed(c, h, ts) == h - (FloorHeight(c, ts) + 1)

\* Flush, for one point: covered timestamps are resolved, of the others only those
\* that later blocks may still cover are waited for.
Settle(c, p) ==
  LET covered == {f \in p.missing : Covers(c, p.stamps[f])}
  IN [p EXCEPT
       !.missing = {f \in p.missing \ covered : CanGoLower(c) /\ StillInWindow(c, p.height)},
       !.missed = [f \in DOMAIN p.missed \cup covered |->
                     IF f \in covered THEN BlocksMissed(c, p.height, p.stamps[f])
                     ELSE p.missed[f]]]

\* Mutant: completed points stay in the list.
KeptAll(points) == points

Kept(points) == {p \in points : p.missing # {}}

Ready(points) == {p \in points : p.missing = {}}

-----------------------------------------------------------------------------
(* The block handler. *)

\* The pair of the call that is running.
PrevBlock == IF reverse THEN frontier ELSE frontier - 1

NextBlock == IF reverse THEN frontier + 1 ELSE frontier

\* The RFQ transactions of a block, within the bound.
BlockTxs == UNION {[1 .. n -> Stampings] : n \in 0 .. (MaxTxs - Cardinality(handled))}

\* The call went through: its transactions join the pending points, then Flush.
HandlePair(txs) ==
  LET c == ObserveBlocks(PrevBlock, NextBlock)
      new == TxPoints(NextBlock, txs)
      settled == {Settle(c, p) : p \in pending \cup new}
  IN /\ cache' = c
     /\ pending' = Kept(settled)
     /\ written' = written \cup Ready(settled)
     /\ handled' = handled \cup Ids(new)

\* A transaction cannot be decoded: those before it are pending, nothing is flushed.
DecodeFails(txs) ==
  LET new == TxPoints(NextBlock, txs)
  IN /\ cache' = ObserveBlocks(PrevBlock, NextBlock)
     /\ pending' = pending \cup new
     /\ handled' = handled \cup Ids(new)
     /\ UNCHANGED written

-----------------------------------------------------------------------------
(* The handler at the end of the feed. *)

Init ==
  /\ Feed!FeedInit
  /\ first = 0
  /\ CacheInit
  /\ pending = {}
  /\ written = {}
  /\ handled = {}

FirstBlock ==
  /\ Feed!First
  /\ first' = frontier'
  /\ UNCHANGED trackerVars

HandlerCalled == Feed!Handle /\ UNCHANGED <<first, trackerVars>>

HandlerReturns ==
  /\ Feed!Finish
  /\ \E txs \in BlockTxs : HandlePair(txs)
  /\ UNCHANGED first

HandlerFails ==
  /\ handling
  /\ Feed!Fail
  /\ \E txs \in BlockTxs : DecodeFails(txs)
  /\ UNCHANGED first

FeedFails ==
  /\ ~handling
  /\ Feed!Fail
  /\ UNCHANGED <<first, trackerVars>>

CloseAsked == (Feed!AskToClose \/ Feed!Stop) /\ UNCHANGED <<first, trackerVars>>

Next ==
  \/ FirstBlock
  \/ HandlerCalled
  \/ HandlerReturns
  \/ HandlerFails
  \/ FeedFails
  \/ CloseAsked

Spec == Init /\ [][Next]_vars

-----------------------------------------------------------------------------
(* Properties. *)

\* Every RFQ transaction has exactly one point, pending or written: no flush loses
\* one or writes it a second time, which would count the transaction twice.
OnePointEach ==
  /\ Ids(pending) \cup Ids(written) = handled
  /\ Ids(pending) \cap Ids(written) = {}
  /\ \A p, q \in pending \cup written : Id(p) = Id(q) => p = q

\* A count of missed blocks is the one the whole chain would give, although only the
\* cached part of it was looked at, in either direction and after any trimming; the
\* timestamp must be before the block after the transaction's, as the code takes the
\* transaction's own block for any later one.
MissedExact ==
  \A p \in pending \cup written : \A f \in DOMAIN p.missed :
    LatestCommitted(p.stamps[f]) <= p.height
      => p.missed[f] = p.height - (LatestCommitted(p.stamps[f]) + 1)

\* The oldest block whose time is looked up for a transaction at height h.
WindowBottom(h) ==
  LET oldest == IF reverse THEN h - CacheSize ELSE h - CacheSize + 1
      lowest == IF reverse THEN LowestHeight ELSE first
  IN IF oldest > lowest THEN oldest ELSE lowest

\* A written point has a count for every timestamp within the window: Flush does not
\* give up while a block that the run still visits could answer.
ResolvedInWindow ==
  \A p \in written : \A f \in DOMAIN p.stamps :
    p.stamps[f] >= BlockTime[WindowBottom(p.height)] => f \in DOMAIN p.missed

\* The last block whose time was recorded.
LastSeen == IF ~handling THEN frontier ELSE IF reverse THEN NextBlock ELSE PrevBlock

\* Once blocks down to "low" are known a point needs no more of them: all its
\* timestamps are reached, the cache forgets its block, or no block follows.
WaitEnds(p, low) ==
  \/ \A f \in DOMAIN p.stamps : BlockTime[low] <= p.stamps[f]
  \/ p.height - low >= CacheSize
  \/ StopHeight # 0 /\ low < StopHeight

\* Forward nothing waits for a later call; backward a point waits exactly as long as
\* the blocks that were handled leave something open: which points Flush keeps depends
\* on how far down the run is and not on the calls that led there.
PendingExact ==
  phase # "ended" =>
    \A p \in pending \cup written : p \in pending <=> reverse /\ ~WaitEnds(p, LastSeen)

\* The lowest block has been handled.
BackwardEnd == reverse /\ frontier = LowestHeight /\ ~handling /\ phase # "ended"

\* A backfill with a stop height leaves no point behind when it reaches it.
NothingLeft == (BackwardEnd /\ StopHeight > 1) => pending = {}

-----------------------------------------------------------------------------
(* The inductive invariant behind these properties (RfqTrackerProofs). *)

\* The blocks that are fed are blocks of the chain, in the reach of the run.
FeedInChain ==
  /\ reverse \in BOOLEAN /\ handling \in BOOLEAN
  /\ frontier \in Heights \cup {0} /\ first \in Heights \cup {0}
  /\ handling => phase \in {"open", "last"} /\ PrevBlock \in Heights /\ NextBlock \in Heights
  /\ frontier = 0 => ~handling /\ cache = NewCache /\ handled = {} /\ pending = {} /\ written = {}
  /\ frontier # 0 => first # 0 /\ (IF reverse THEN frontier >= LowestHeight ELSE first <= LastSeen)

\* The transactions of the pair that is handled are new.
HandledBehind ==
  \A id \in handled :
    id[1] \in Heights /\ (IF reverse THEN id[1] > LastSeen ELSE id[1] <= LastSeen)

\* The cache ends at the last block that was recorded and holds all that fits of the
\* blocks since the first one.
CacheFollows ==
  /\ Consistent(cache)
  /\ cache \in [heights : Seq(Heights), times : Seq(Nat)]
  /\ phase # "ended" =>
       /\ cache.heights = <<>> => pending = {} /\ (frontier # 0 => LastSeen = first)
       /\ cache.heights # <<>> =>
            IF reverse THEN Lowest(cache) = LastSeen
            ELSE /\ Highest(cache) = LastSeen
                 /\ Lowest(cache) = first \/ Len(cache.heights) = CacheSize

PointShaped(p) ==
  /\ p = [height |-> p.height, tx |-> p.tx, stamps |-> p.stamps, missing |-> p.missing,
          missed |-> p.missed]
  /\ p.height \in Heights
  /\ p.stamps \in Stampings
  /\ p.missing \subseteq DOMAIN p.stamps

\* Every timestamp within the window is counted or waited for.
InWindowKept(p) ==
  \A f \in DOMAIN p.stamps :
    p.stamps[f] >= BlockTime[WindowBottom(p.height)] => f \in DOMAIN p.missed \cup p.missing

PointsKept ==
  /\ \A p \in pending \cup written : PointShaped(p) /\ InWindowKept(p)
  /\ \A p \in written : p.missing = {}
  /\ \A p \in pending : phase # "ended" => CanGoLower(cache)

\* Points are pending only backward, for timestamps below the cache, and for fewer
\* blocks than the cache holds.
PendingBounded ==
  phase # "ended" =>
    \A p \in pending :
      /\ reverse
      /\ p.missing # {}
      /\ p.height - Lowest(cache) < CacheSize
      /\ \A f \in p.missing : ~Covers(cache, p.stamps[f])

TrackerInv ==
  /\ FeedInChain
  /\ HandledBehind
  /\ CacheFollows
  /\ PointsKept
  /\ OnePointEach
  /\ MissedExact
  /\ PendingBounded

\* What is not missing any more is covered by the cache for good, as it goes on to
\* grow at the lower end.
WaitInv ==
  phase # "ended" /\ reverse =>
    /\ \A p \in pending : \A f \in DOMAIN p.stamps \ p.missing : Covers(cache, p.stamps[f])
    /\ \A p \in written : WaitEnds(p, LastSeen)

-----------------------------------------------------------------------------
(* A statement of the documentation that the code does not keep. *)

\* "one point per RFQ tx": a backfill down to genesis has written all its points
\* when it idles.
OneWrittenEach == BackwardEnd => Ids(written) = handled

=============================================================================
