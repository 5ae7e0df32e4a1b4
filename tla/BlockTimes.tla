----------------------------- MODULE BlockTimes ------------------------------
(***************************************************************************)
(* The blockTimeCache of pkg/coremon/rfq.go: the heights and times of a    *)
(* contiguous range of recent blocks, used to find the latest block that   *)
(* was committed at the moment a client stamped a transaction.             *)
(*                                                                         *)
(* A cache is a record of two sequences, as in the code; its operations    *)
(* are functions of it, so that a handler can add two blocks in one step.  *)
(***************************************************************************)
EXTENDS Integers, Sequences, FiniteSets

CONSTANTS
  CacheSize,  \* blockTimeCacheSize
  BlockTime   \* the time of every block of the chain, by height (external)

\* Block times grow with the height.
ASSUME CacheAssumption ==
  /\ CacheSize \in Nat \ {0}
  /\ BlockTime \in Seq(Nat)
  /\ \A g, h \in 1 .. Len(BlockTime) : g < h => BlockTime[g] < BlockTime[h]

Heights == 1 .. Len(BlockTime)

NewCache == [heights |-> <<>>, times |-> <<>>]

-----------------------------------------------------------------------------
(* Operations. *)

Lowest(c) == c.heights[1]

Highest(c) == c.heights[Len(c.heights)]

Known(c, h) == Lowest(c) <= h /\ h <= Highest(c)

Only(h, t) == [heights |-> <<h>>, times |-> <<t>>]

\* The newest entries of a sequence that outgrew the cache.
DropLowest(s) == IF Len(s) > CacheSize THEN SubSeq(s, Len(s) - CacheSize + 1, Len(s)) ELSE s

\* Mutant: the end that grew is trimmed.
DropHighestLow(s) == IF Len(s) > CacheSize THEN SubSeq(s, 2, CacheSize + 1) ELSE s

\* Its oldest entries.
DropHighest(s) == IF Len(s) > CacheSize THEN SubSeq(s, 1, CacheSize) ELSE s

AddAbove(c, h, t) == [heights |-> DropLowest(Append(c.heights, h)),
                      times   |-> DropLowest(Append(c.times, t))]

\* Mutant: the times are trimmed at the wrong end.
AddBelowWrongEnd(c, h, t) == [heights |-> DropHighest(<<h>> \o c.heights),
                              times   |-> DropLowest(<<t>> \o c.times)]

AddBelow(c, h, t) == [heights |-> DropHighest(<<h>> \o c.heights),
                      times   |-> DropHighest(<<t>> \o c.times)]

\* Mutant: a height that does not continue the range is appended all the same.
AddGap(c, h, t) ==
  IF c.heights = <<>> THEN Only(h, t)
  ELSE IF Known(c, h) THEN c
  ELSE IF h = Lowest(c) - 1 THEN AddBelow(c, h, t)
  ELSE AddAbove(c, h, t)

\* Add: a height next to either end extends the range, a known one changes
\* nothing, any other one starts over.
Add(c, h, t) ==
  IF c.heights = <<>> THEN Only(h, t)
  ELSE IF Known(c, h) THEN c
  ELSE IF h = Highest(c) + 1 THEN AddAbove(c, h, t)
  ELSE IF h = Lowest(c) - 1 THEN AddBelow(c, h, t)
  ELSE Only(h, t)

\* The cache reaches back to a time.
Covers(c, ts) == c.times # <<>> /\ c.times[1] <= ts

\* The entries the binary search leaves below its answer; times are sorted.
NotAfter(c, ts) == {i \in 1 .. Len(c.times) : c.times[i] <= ts}

\* The latest cached block not after a time the cache covers.
FloorHeight(c, ts) == c.heights[Cardinality(NotAfter(c, ts))]

-----------------------------------------------------------------------------
(* Notions the properties use. *)

\* The two slices stay parallel, contiguous, within the size, and each entry is the
\* time of its block, whichever end the cache is extended and trimmed at.
Consistent(c) ==
  /\ Len(c.heights) = Len(c.times)
  /\ Len(c.heights) <= CacheSize
  /\ \A i \in 1 .. Len(c.heights) : /\ c.heights[i] = c.heights[1] + i - 1
                                    /\ c.times[i] = BlockTime[c.heights[i]]

\* The latest block of the chain not after ts; 0 when there is none.
LatestCommitted(ts) == Cardinality({h \in Heights : BlockTime[h] <= ts})

=============================================================================
