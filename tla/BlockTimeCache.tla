--------------------------- MODULE BlockTimeCache ---------------------------
(***************************************************************************)
(* The block time cache on its own: blocks are added in any order, as the  *)
(* runs of both directions and a start at another height would.            *)
(***************************************************************************)
EXTENDS BlockTimes

VARIABLE cache

CacheInit == cache = NewCache

CacheAdd(h) == cache' = Add(cache, h, BlockTime[h])

CacheNext == \E h \in Heights : CacheAdd(h)

CacheSpec == CacheInit /\ [][CacheNext]_cache

-----------------------------------------------------------------------------
(* Properties. *)

CacheTypeOK == cache \in [heights : Seq(Heights), times : Seq(Nat)]

\* The representation of the cache survives every order of heights.
CacheConsistent == Consistent(cache)

\* Whatever was added before, any block that is added now is in the cache: trimming
\* never drops the end that grew (rfq.go 88-106).
NewestKept == \A h \in Heights : Known(Add(cache, h, BlockTime[h]), h)

\* A covered time that is before the next block above the cache is resolved to the
\* latest block of the whole chain that was committed at that time.
FloorExact ==
  \A ts \in 0 .. BlockTime[Len(BlockTime)] :
    (Covers(cache, ts) /\ LatestCommitted(ts) <= Highest(cache))
      => FloorHeight(cache, ts) = LatestCommitted(ts)

=============================================================================
