-------------------------- MODULE RfqTrackerProofs --------------------------
(***************************************************************************)
(* Adding a block keeps the block time cache a contiguous range of the     *)
(* chain, and a look-up in it answers for the whole chain; so the RFQ      *)
(* tracker keeps one point for every transaction and counts its missed     *)
(* blocks exactly, for every chain, cache size, stop height and sequence   *)
(* of transactions, in both directions.                                    *)
(***************************************************************************)
EXTENDS RfqTracker, MinMaxTheorems

-----------------------------------------------------------------------------
(* The cache. *)

Caches == [heights : Seq(Heights), times : Seq(Nat)]

\* A cache that holds blocks of the chain.
Sound(c) == c \in Caches /\ Consistent(c)

LEMMA TimesAreNat ==
  ASSUME NEW h \in Heights
  PROVE  BlockTime[h] \in Nat /\ h \in Nat /\ Len(BlockTime) \in Nat
  BY CacheAssumption DEF Heights

\* A cache of one block.
LEMMA OnlySound ==
  ASSUME NEW h \in Heights
  PROVE  Sound(Only(h, BlockTime[h])) /\ Known(Only(h, BlockTime[h]), h)
  BY CacheAssumption, TimesAreNat DEF Sound, Caches, Only, Consistent, Known, Lowest, Highest, Heights

\* What trimming keeps of a sequence that has outgrown the cache by one.
LEMMA DropLowestKeeps ==
  ASSUME NEW S, NEW s \in Seq(S), Len(s) <= CacheSize + 1
  PROVE  /\ DropLowest(s) \in Seq(S)
         /\ Len(DropLowest(s)) = IF Len(s) > CacheSize THEN CacheSize ELSE Len(s)
         /\ \A i \in 1 .. Len(DropLowest(s)) :
              DropLowest(s)[i] = IF Len(s) > CacheSize THEN s[i + 1] ELSE s[i]
  BY CacheAssumption DEF DropLowest

LEMMA DropHighestKeeps ==
  ASSUME NEW S, NEW s \in Seq(S), Len(s) <= CacheSize + 1
  PROVE  /\ DropHighest(s) \in Seq(S)
         /\ Len(DropHighest(s)) = IF Len(s) > CacheSize THEN CacheSize ELSE Len(s)
         /\ \A i \in 1 .. Len(DropHighest(s)) : DropHighest(s)[i] = s[i]
  BY CacheAssumption DEF DropHighest

\* Two parallel sequences hold the blocks from lo on.
Holds(hs, ts, lo) ==
  /\ hs \in Seq(Heights) /\ ts \in Seq(Nat)
  /\ Len(hs) = Len(ts)
  /\ \A i \in 1 .. Len(hs) : hs[i] = lo + i - 1 /\ ts[i] = BlockTime[hs[i]]

LEMMA SoundHolds ==
  ASSUME NEW c, Sound(c), c.heights # <<>>
  PROVE  /\ Holds(c.heights, c.times, Lowest(c))
         /\ Lowest(c) \in Int
         /\ Highest(c) = Lowest(c) + Len(c.heights) - 1
         /\ Len(c.heights) \in 1 .. CacheSize
  <1>1. c.heights \in Seq(Heights) /\ c.times \in Seq(Nat) /\ Len(c.heights) = Len(c.times)
    BY DEF Sound, Caches, Consistent
  <1>2. Len(c.heights) \in 1 .. CacheSize
    BY <1>1, CacheAssumption DEF Sound, Consistent
  <1>3. \A i \in 1 .. Len(c.heights) : /\ c.heights[i] = Lowest(c) + i - 1
                                       /\ c.times[i] = BlockTime[c.heights[i]]
    BY DEF Sound, Consistent, Lowest
  <1>4. Lowest(c) \in Heights
    BY <1>1, <1>2 DEF Lowest
  <1>5. Lowest(c) \in Int
    BY <1>4, TimesAreNat
  <1>6. Highest(c) = Lowest(c) + Len(c.heights) - 1
    BY <1>2, <1>3 DEF Highest
  <1> QED
    BY <1>1, <1>2, <1>3, <1>5, <1>6 DEF Holds

LEMMA HoldsSound ==
  ASSUME NEW hs, NEW ts, NEW lo \in Int, Holds(hs, ts, lo), Len(hs) \in 1 .. CacheSize
  PROVE  /\ Sound([heights |-> hs, times |-> ts])
         /\ Lowest([heights |-> hs, times |-> ts]) = lo
         /\ Highest([heights |-> hs, times |-> ts]) = lo + Len(hs) - 1
  <1>1. Len(hs) \in Nat /\ hs[1] = lo /\ hs[Len(hs)] = lo + Len(hs) - 1
    BY CacheAssumption DEF Holds
  <1>2. \A i \in 1 .. Len(hs) : hs[i] = hs[1] + i - 1 /\ ts[i] = BlockTime[hs[i]]
    BY <1>1 DEF Holds
  <1> QED
    BY <1>1, <1>2, CacheAssumption DEF Holds, Sound, Caches, Consistent, Lowest, Highest

LEMMA HoldsAppend ==
  ASSUME NEW hs, NEW ts, NEW lo \in Int, Holds(hs, ts, lo),
         NEW h \in Heights, h = lo + Len(hs)
  PROVE  Holds(Append(hs, h), Append(ts, BlockTime[h]), lo) /\ Len(Append(hs, h)) = Len(hs) + 1
  BY TimesAreNat DEF Holds

LEMMA HoldsPrepend ==
  ASSUME NEW hs, NEW ts, NEW lo \in Int, Holds(hs, ts, lo),
         NEW h \in Heights, h = lo - 1
  PROVE  Holds(<<h>> \o hs, <<BlockTime[h]>> \o ts, h) /\ Len(<<h>> \o hs) = Len(hs) + 1
  <1> DEFINE n == Len(hs)
             HS == <<h>> \o hs
             TS == <<BlockTime[h]>> \o ts
  <1>1. hs \in Seq(Heights) /\ ts \in Seq(Nat) /\ Len(ts) = n /\ n \in Nat
    BY DEF Holds
  <1>2. /\ HS \in Seq(Heights) /\ Len(HS) = n + 1
        /\ TS \in Seq(Nat) /\ Len(TS) = n + 1
    BY <1>1, TimesAreNat
  <1>3. HS[1] = h /\ TS[1] = BlockTime[h]
    BY <1>1
  <1>4. ASSUME NEW i \in 1 .. n + 1, i # 1
        PROVE  HS[i] = hs[i - 1] /\ TS[i] = ts[i - 1] /\ i - 1 \in 1 .. n
    BY <1>1, <1>4
  <1>5. ASSUME NEW i \in 1 .. n + 1
        PROVE  HS[i] = h + i - 1 /\ TS[i] = BlockTime[HS[i]]
    <2>1. CASE i = 1
      BY <1>3, <2>1, TimesAreNat
    <2>2. CASE i # 1
      <3>1. HS[i] = hs[i - 1] /\ TS[i] = ts[i - 1] /\ i - 1 \in 1 .. n
        BY <1>4, <2>2
      <3>2. hs[i - 1] = lo + (i - 1) - 1 /\ ts[i - 1] = BlockTime[hs[i - 1]]
        BY <3>1 DEF Holds
      <3> HIDE DEF HS, TS
      <3> QED
        BY <3>1, <3>2
    <2> QED
      BY <2>1, <2>2
  <1> HIDE DEF HS, TS
  <1> QED
    BY <1>2, <1>5 DEF Holds, HS, TS

LEMMA HoldsDropLowest ==
  ASSUME NEW hs, NEW ts, NEW lo \in Int, Holds(hs, ts, lo), Len(hs) \in 1 .. CacheSize + 1
  PROVE  \E low \in Int :
           /\ Holds(DropLowest(hs), DropLowest(ts), low)
           /\ Len(DropLowest(hs)) \in 1 .. CacheSize
           /\ low + Len(DropLowest(hs)) = lo + Len(hs)
           /\ low = lo \/ Len(DropLowest(hs)) = CacheSize
  <1>1. hs \in Seq(Heights) /\ ts \in Seq(Nat) /\ Len(hs) = Len(ts)
    BY DEF Holds
  <1>2. Len(hs) <= CacheSize + 1 /\ Len(ts) <= CacheSize + 1 /\ CacheSize \in Nat \ {0}
    BY <1>1, CacheAssumption
  <1>3. CASE Len(hs) > CacheSize
    <2>1. Len(hs) = CacheSize + 1
      BY <1>2, <1>3
    <2>2. Holds(DropLowest(hs), DropLowest(ts), lo + 1)
      <3>1. /\ DropLowest(hs) \in Seq(Heights) /\ Len(DropLowest(hs)) = CacheSize
            /\ \A i \in 1 .. CacheSize : DropLowest(hs)[i] = hs[i + 1]
        BY <1>1, <1>2, <1>3, DropLowestKeeps
      <3>2. /\ DropLowest(ts) \in Seq(Nat) /\ Len(DropLowest(ts)) = CacheSize
            /\ \A i \in 1 .. CacheSize : DropLowest(ts)[i] = ts[i + 1]
        BY <1>1, <1>2, <1>3, DropLowestKeeps
      <3>3. ASSUME NEW i \in 1 .. CacheSize
            PROVE  /\ DropLowest(hs)[i] = lo + 1 + i - 1
                   /\ DropLowest(ts)[i] = BlockTime[DropLowest(hs)[i]]
        <4>1. i + 1 \in 1 .. Len(hs)
          BY <1>2, <2>1
        <4>2. hs[i + 1] = lo + (i + 1) - 1 /\ ts[i + 1] = BlockTime[hs[i + 1]]
          BY <4>1 DEF Holds
        <4> QED
          BY <3>1, <3>2, <4>2
      <3> QED
        BY <3>1, <3>2, <3>3 DEF Holds
    <2>3. Len(DropLowest(hs)) = CacheSize
      BY <1>1, <1>2, <1>3, DropLowestKeeps
    <2> QED
      BY <1>2, <2>1, <2>2, <2>3
  <1>4. CASE Len(hs) <= CacheSize
    <2>1. DropLowest(hs) = hs /\ DropLowest(ts) = ts
      BY <1>1, <1>2, <1>4 DEF DropLowest
    <2> QED
      BY <1>4, <2>1, <1>2
  <1> QED
    BY <1>1, <1>2, <1>3, <1>4

LEMMA HoldsDropHighest ==
  ASSUME NEW hs, NEW ts, NEW lo \in Int, Holds(hs, ts, lo), Len(hs) \in 1 .. CacheSize + 1
  PROVE  /\ Holds(DropHighest(hs), DropHighest(ts), lo)
         /\ Len(DropHighest(hs)) \in 1 .. CacheSize
  <1>1. hs \in Seq(Heights) /\ ts \in Seq(Nat) /\ Len(hs) = Len(ts)
    BY DEF Holds
  <1>2. Len(hs) <= CacheSize + 1 /\ Len(ts) <= CacheSize + 1 /\ CacheSize \in Nat \ {0}
    BY <1>1, CacheAssumption
  <1>3. Len(DropHighest(hs)) \in 1 .. CacheSize
    BY <1>1, <1>2, DropHighestKeeps
  <1>4. Holds(DropHighest(hs), DropHighest(ts), lo)
    <2> DEFINE n == Len(DropHighest(hs))
    <2>1. /\ DropHighest(hs) \in Seq(Heights) /\ n \in Nat /\ n <= Len(hs)
          /\ \A i \in 1 .. n : DropHighest(hs)[i] = hs[i]
      BY <1>1, <1>2, DropHighestKeeps
    <2>2. /\ DropHighest(ts) \in Seq(Nat) /\ Len(DropHighest(ts)) = n
          /\ \A i \in 1 .. n : DropHighest(ts)[i] = ts[i]
      BY <1>1, <1>2, DropHighestKeeps
    <2>3. \A i \in 1 .. n : hs[i] = lo + i - 1 /\ ts[i] = BlockTime[hs[i]]
      BY <1>1, <2>1 DEF Holds
    <2> QED
      BY <2>1, <2>2, <2>3 DEF Holds
  <1> QED
    BY <1>3, <1>4

\* A height above the range becomes its highest.
LEMMA AddAboveSound ==
  ASSUME NEW c, Sound(c), c.heights # <<>>, NEW h \in Heights, h = Highest(c) + 1,
         NEW d, d = AddAbove(c, h, BlockTime[h])
  PROVE  /\ Sound(d) /\ d.heights # <<>>
         /\ Known(d, h) /\ Highest(d) = h
         /\ Lowest(d) = Lowest(c) \/ Len(d.heights) = CacheSize
         /\ Len(c.heights) = CacheSize => Len(d.heights) = CacheSize
  <1> DEFINE hs == Append(c.heights, h)
             ts == Append(c.times, BlockTime[h])
  <1>0. h \in Int /\ CacheSize \in Nat \ {0}
    BY TimesAreNat, CacheAssumption
  <1>1. /\ Holds(c.heights, c.times, Lowest(c)) /\ Lowest(c) \in Int
        /\ h = Lowest(c) + Len(c.heights) /\ Len(c.heights) \in 1 .. CacheSize
    BY <1>0, SoundHolds
  <1>2. Holds(hs, ts, Lowest(c)) /\ Len(hs) = Len(c.heights) + 1 /\ hs \in Seq(Heights)
    <2>1. Holds(hs, ts, Lowest(c)) /\ Len(hs) = Len(c.heights) + 1
      BY <1>1, HoldsAppend
    <2> HIDE DEF hs, ts
    <2> QED
      BY <2>1 DEF Holds
  <1>3. d = [heights |-> DropLowest(hs), times |-> DropLowest(ts)]
    BY DEF AddAbove
  <1> HIDE DEF hs, ts
  <1>4. PICK low \in Int : /\ Holds(DropLowest(hs), DropLowest(ts), low)
                           /\ Len(DropLowest(hs)) \in 1 .. CacheSize
                           /\ low + Len(DropLowest(hs)) = Lowest(c) + Len(hs)
                           /\ low = Lowest(c) \/ Len(DropLowest(hs)) = CacheSize
    <2>1. Len(hs) \in 1 .. CacheSize + 1
      BY <1>0, <1>1, <1>2
    <2> QED
      BY <1>1, <1>2, <2>1, HoldsDropLowest
  <1>5. Sound(d) /\ Lowest(d) = low /\ Highest(d) = low + Len(DropLowest(hs)) - 1
        /\ d.heights = DropLowest(hs)
    BY <1>3, <1>4, HoldsSound
  <1>6. Highest(d) = h /\ low <= h
    BY <1>0, <1>1, <1>2, <1>4, <1>5
  <1>7. d.heights # <<>>
    BY <1>4, <1>5, CacheAssumption
  <1>8. ASSUME Len(c.heights) = CacheSize PROVE Len(d.heights) = CacheSize
    <2>1. Len(hs) = CacheSize + 1 /\ Len(hs) > CacheSize /\ Len(hs) <= CacheSize + 1
      BY <1>0, <1>2, <1>8
    <2> QED
      BY <1>2, <1>5, <2>1, DropLowestKeeps
  <1> QED
    BY <1>0, <1>4, <1>5, <1>6, <1>7, <1>8 DEF Known

\* A height below the range becomes its lowest.
LEMMA AddBelowSound ==
  ASSUME NEW c, Sound(c), c.heights # <<>>, NEW h \in Heights, h = Lowest(c) - 1,
         NEW d, d = AddBelow(c, h, BlockTime[h])
  PROVE  /\ Sound(d) /\ d.heights # <<>>
         /\ Known(d, h) /\ Lowest(d) = h
         /\ CacheSize > 1 => Known(d, h + 1)
  <1> DEFINE hs == <<h>> \o c.heights
             ts == <<BlockTime[h]>> \o c.times
  <1>0. h \in Int /\ CacheSize \in Nat \ {0}
    BY TimesAreNat, CacheAssumption
  <1>1. /\ Holds(c.heights, c.times, Lowest(c)) /\ Lowest(c) \in Int
        /\ Len(c.heights) \in 1 .. CacheSize
    BY <1>0, SoundHolds
  <1>2. Holds(hs, ts, h) /\ Len(hs) = Len(c.heights) + 1 /\ hs \in Seq(Heights)
    <2>1. Holds(hs, ts, h) /\ Len(hs) = Len(c.heights) + 1
      BY <1>1, HoldsPrepend
    <2> HIDE DEF hs, ts
    <2> QED
      BY <2>1 DEF Holds
  <1>3. d = [heights |-> DropHighest(hs), times |-> DropHighest(ts)]
    BY DEF AddBelow
  <1> HIDE DEF hs, ts
  <1>4. /\ Holds(DropHighest(hs), DropHighest(ts), h)
        /\ Len(DropHighest(hs)) \in 1 .. CacheSize
        /\ CacheSize > 1 => Len(DropHighest(hs)) > 1
    <2>1. Len(hs) \in 2 .. CacheSize + 1
      BY <1>0, <1>1, <1>2
    <2>2. Holds(DropHighest(hs), DropHighest(ts), h) /\ Len(DropHighest(hs)) \in 1 .. CacheSize
      BY <1>0, <1>2, <2>1, HoldsDropHighest
    <2>3. CacheSize > 1 => Len(DropHighest(hs)) > 1
      BY <1>0, <1>2, <2>1, DropHighestKeeps
    <2> QED
      BY <2>2, <2>3
  <1>5. Sound(d) /\ Lowest(d) = h /\ Highest(d) = h + Len(DropHighest(hs)) - 1
        /\ d.heights = DropHighest(hs)
    BY <1>0, <1>3, <1>4, HoldsSound
  <1>6. d.heights # <<>>
    BY <1>4, <1>5
  <1> QED
    BY <1>0, <1>4, <1>5, <1>6 DEF Known

\* Add keeps the cache sound and has the block that was added.
LEMMA AddSound ==
  ASSUME NEW c, Sound(c), NEW h \in Heights
  PROVE  /\ Sound(Add(c, h, BlockTime[h]))
         /\ Add(c, h, BlockTime[h]).heights # <<>>
         /\ Known(Add(c, h, BlockTime[h]), h)
  <1> DEFINE t == BlockTime[h]
             d == Add(c, h, t)
  <1>1. CASE d = Only(h, t)
    BY <1>1, OnlySound DEF Only
  <1>2. CASE c.heights # <<>> /\ Known(c, h) /\ d = c
    BY <1>2
  <1>3. CASE c.heights # <<>> /\ h = Highest(c) + 1 /\ d = AddAbove(c, h, t)
    BY <1>3, AddAboveSound
  <1>4. CASE c.heights # <<>> /\ h = Lowest(c) - 1 /\ d = AddBelow(c, h, t)
    BY <1>4, AddBelowSound
  <1> QED
    BY <1>1, <1>2, <1>3, <1>4 DEF Add

-----------------------------------------------------------------------------
(* Looking up a time. *)

\* A set of numbers from 1 to L without gaps below its members is an interval.
LEMMA InitialSegment ==
  ASSUME NEW L \in Nat, NEW H \in SUBSET (1 .. L),
         \A i \in H : \A j \in 1 .. L : j <= i => j \in H
  PROVE  Cardinality(H) \in Nat /\ H = 1 .. Cardinality(H)
  <1> DEFINE m == Cardinality(H)
  <1>1. IsFiniteSet(H) /\ m \in Nat
    <2>1. IsFiniteSet(1 .. L)
      BY FS_Interval
    <2>2. IsFiniteSet(H)
      BY <2>1, FS_Subset
    <2> QED
      BY <2>2, FS_CardinalityType
  <1>2. ASSUME NEW x \in H PROVE x <= m
    <2>1. x \in Nat \ {0} /\ 1 .. x \in SUBSET H
      OBVIOUS
    <2>2. Cardinality(1 .. x) = x
      BY <2>1, FS_Interval
    <2> QED
      BY <1>1, <2>1, <2>2, FS_Subset
  <1>3. H \in SUBSET (1 .. m)
    BY <1>1, <1>2
  <1>4. IsFiniteSet(1 .. m) /\ Cardinality(1 .. m) = m
    BY <1>1, FS_Interval
  <1> QED
    BY <1>1, <1>3, <1>4, FS_Subset

\* The blocks of the chain not after a time.
LEMMA CommittedInterval ==
  ASSUME NEW ts \in Int
  PROVE  /\ LatestCommitted(ts) \in Nat
         /\ \A h \in Heights : BlockTime[h] <= ts <=> h <= LatestCommitted(ts)
  <1> DEFINE H == {h \in Heights : BlockTime[h] <= ts}
  <1>1. H \in SUBSET (1 .. Len(BlockTime)) /\ Len(BlockTime) \in Nat
    BY CacheAssumption DEF Heights
  <1>2. \A i \in H : \A j \in 1 .. Len(BlockTime) : j <= i => j \in H
    BY <1>1, CacheAssumption, TimesAreNat DEF Heights
  <1>3. LatestCommitted(ts) = Cardinality(H)
    BY DEF LatestCommitted
  <1> HIDE DEF H
  <1>4. LatestCommitted(ts) \in Nat /\ H = 1 .. LatestCommitted(ts)
    BY <1>1, <1>2, <1>3, InitialSegment
  <1>5. \A h \in Heights : h \in H <=> BlockTime[h] <= ts
    BY DEF H
  <1> QED
    BY <1>4, <1>5, TimesAreNat, <1>1 DEF Heights

LEMMA FloorIsLatest ==
  ASSUME NEW c, Sound(c), NEW ts \in Int, Covers(c, ts), LatestCommitted(ts) <= Highest(c)
  PROVE  FloorHeight(c, ts) = LatestCommitted(ts)
  <1> DEFINE n == Len(c.times)
             lo == Lowest(c)
             k == Cardinality(NotAfter(c, ts))
             m == LatestCommitted(ts)
  <1>1. /\ Holds(c.heights, c.times, lo) /\ lo \in Int /\ n \in Nat \ {0} /\ Len(c.heights) = n
        /\ Highest(c) = lo + n - 1
    <2>1. c.heights # <<>> /\ Len(c.heights) = n
      BY DEF Covers, Sound, Caches, Consistent
    <2> QED
      BY <2>1, SoundHolds, CacheAssumption
  <1>2. \A i \in 1 .. n : /\ c.heights[i] = lo + i - 1 /\ c.heights[i] \in Heights
                          /\ c.times[i] = BlockTime[c.heights[i]]
    BY <1>1 DEF Holds
  <1>3. m \in Nat /\ \A h \in Heights : BlockTime[h] <= ts <=> h <= m
    BY CommittedInterval
  <1>4. \A i \in 1 .. n : i \in NotAfter(c, ts) <=> lo + i - 1 <= m
    BY <1>2, <1>3 DEF NotAfter
  <1>5. k \in Nat /\ NotAfter(c, ts) = 1 .. k
    <2>1. NotAfter(c, ts) \in SUBSET (1 .. n)
      BY DEF NotAfter
    <2>2. \A i \in NotAfter(c, ts) : \A j \in 1 .. n : j <= i => j \in NotAfter(c, ts)
      BY <1>1, <1>3, <1>4, <2>1
    <2> QED
      BY <1>1, <2>1, <2>2, InitialSegment
  <1>6. 1 \in NotAfter(c, ts) /\ k <= n
    <2>1. 1 \in NotAfter(c, ts)
      BY <1>1 DEF NotAfter, Covers
    <2>2. k \in NotAfter(c, ts)
      BY <1>5, <2>1
    <2> QED
      BY <2>1, <2>2, <1>1 DEF NotAfter
  <1>7. k >= 1
    BY <1>5, <1>6
  <1>8. lo + k - 1 <= m
    BY <1>4, <1>5, <1>6, <1>7
  <1>9. m <= lo + k - 1
    <2>1. CASE k = n
      BY <1>1, <2>1
    <2>2. CASE k < n
      <3>1. k + 1 \in 1 .. n /\ k + 1 \notin NotAfter(c, ts)
        BY <1>1, <1>5, <2>2
      <3> QED
        BY <1>1, <1>3, <1>4, <1>5, <3>1
    <2> QED
      BY <1>1, <1>5, <1>6, <2>1, <2>2
  <1>10. c.heights[k] = lo + k - 1
    BY <1>2, <1>5, <1>6, <1>7, <1>1
  <1> QED
    BY <1>1, <1>3, <1>5, <1>8, <1>9, <1>10 DEF FloorHeight

-----------------------------------------------------------------------------
(* Any sequence of additions. *)

CacheInv == Sound(cache)

LEMMA CacheInitInv == CacheInit => CacheInv
  BY CacheAssumption DEF CacheInit, CacheInv, NewCache, Sound, Caches, Consistent

LEMMA CacheNextInv == CacheInv /\ [CacheNext]_cache => CacheInv'
  <1> SUFFICES ASSUME CacheInv, [CacheNext]_cache PROVE CacheInv'
    OBVIOUS
  <1>1. ASSUME NEW h \in Heights, CacheAdd(h) PROVE CacheInv'
    BY <1>1, AddSound DEF CacheInv, CacheAdd
  <1>2. CASE UNCHANGED cache
    BY <1>2 DEF CacheInv
  <1> QED
    BY <1>1, <1>2 DEF CacheNext

THEOREM CacheInvariance == CacheSpec => []CacheInv
  BY CacheInitInv, CacheNextInv, PTL DEF CacheSpec

\* Heights and times stay parallel, contiguous and true to the chain over every
\* sequence of additions (rfq.go 73-107).
THEOREM CacheStaysConsistent == CacheSpec => []CacheConsistent
  <1>1. CacheInv => CacheConsistent
    BY DEF CacheInv, Sound, CacheConsistent
  <1> QED
    BY <1>1, CacheInvariance, PTL

\* Trimming never drops the block that was just added (rfq.go 85-101).
THEOREM NewestStaysKept == CacheSpec => []NewestKept
  <1>1. CacheInv => NewestKept
    BY AddSound DEF CacheInv, NewestKept
  <1> QED
    BY <1>1, CacheInvariance, PTL

\* The binary search of the cached part answers what the whole chain would
\* (rfq.go 109-134), unless the time is later than the next block of the chain.
THEOREM FloorStaysExact == CacheSpec => []FloorExact
  <1>1. ASSUME CacheInv PROVE FloorExact
    <2> SUFFICES ASSUME NEW ts \in 0 .. BlockTime[Len(BlockTime)],
                        Covers(cache, ts), LatestCommitted(ts) <= Highest(cache)
                 PROVE  FloorHeight(cache, ts) = LatestCommitted(ts)
      BY DEF FloorExact
    <2>1. Sound(cache)
      BY <1>1 DEF CacheInv
    <2>2. BlockTime[Len(BlockTime)] \in Nat
      <3>1. cache.heights # <<>> /\ cache.heights \in Seq(Heights)
        BY <2>1 DEF Covers, Sound, Caches, Consistent
      <3>2. cache.heights[1] \in Heights
        BY <3>1
      <3> QED
        BY <3>2, CacheAssumption DEF Heights
    <2> QED
      BY <2>1, <2>2, FloorIsLatest
  <1> QED
    BY <1>1, CacheInvariance, PTL

-----------------------------------------------------------------------------
(* The tracker. *)

LEMMA HeightsAreNat == \A h \in Heights : h \in Nat \ {0}
  BY TimesAreNat DEF Heights

LEMMA HeightsBelow ==
  ASSUME NEW h \in Heights, NEW g \in 1 .. h
  PROVE  g \in Heights
  BY TimesAreNat DEF Heights

LEMMA TimesGrow ==
  ASSUME NEW g \in Heights, NEW h \in Heights, g <= h
  PROVE  BlockTime[g] \in Nat /\ BlockTime[h] \in Nat /\ BlockTime[g] <= BlockTime[h]
  BY CacheAssumption, TimesAreNat DEF Heights

LEMMA LowestHeightIsNat ==
  LowestHeight \in Nat \ {0} /\ (StopHeight > 1 => LowestHeight = StopHeight - 1)
  BY TrackerAssumption DEF LowestHeight

-----------------------------------------------------------------------------
(* The cache after the two blocks of a pair. *)

LEMMA CacheSound ==
  ASSUME CacheFollows
  PROVE  Sound(cache)
  BY DEF CacheFollows, Sound, Caches

\* Both blocks of the pair are recorded; backward the range now ends at the lower
\* one, forward at the higher one and reaches back as far as it can.
LEMMA ObservedCache ==
  ASSUME FeedInChain, CacheFollows, handling,
         NEW c, c = ObserveBlocks(PrevBlock, NextBlock)
  PROVE  /\ Sound(c) /\ c.heights # <<>>
         /\ Known(c, NextBlock)
         /\ reverse => Lowest(c) = PrevBlock
         /\ ~reverse => /\ Highest(c) = NextBlock
                        /\ Lowest(c) = first \/ Len(c.heights) = CacheSize
  <1>1. /\ phase # "ended" /\ PrevBlock \in Heights /\ NextBlock \in Heights
        /\ frontier \in Heights /\ NextBlock = PrevBlock + 1 /\ PrevBlock \in Int
    BY HeightsAreNat DEF FeedInChain, PrevBlock, NextBlock
  <1>2. Sound(cache)
    BY CacheSound
  <1>3. CASE reverse
    <2> DEFINE b == Add(cache, NextBlock, BlockTime[NextBlock])
    <2>1. Sound(b) /\ b.heights # <<>> /\ Lowest(b) = NextBlock /\ Known(b, NextBlock)
      <3>1. CASE cache.heights = <<>>
        <4>1. b = Only(NextBlock, BlockTime[NextBlock])
          BY <3>1 DEF Add
        <4> QED
          BY <1>1, <4>1, OnlySound DEF Only, Lowest
      <3>2. CASE cache.heights # <<>>
        <4>1. Lowest(cache) = NextBlock
          BY <1>1, <1>3, <3>2 DEF CacheFollows, LastSeen
        <4>2. Known(cache, NextBlock)
          BY <1>1, <1>2, <3>2, <4>1, SoundHolds, CacheAssumption DEF Known
        <4> QED
          BY <1>2, <3>2, <4>1, <4>2 DEF Add
      <3> QED
        BY <3>1, <3>2
    <2> HIDE DEF b
    <2>2. c = Add(b, PrevBlock, BlockTime[PrevBlock])
      BY <1>3 DEF ObserveBlocks, b
    <2>3. c = AddBelow(b, PrevBlock, BlockTime[PrevBlock])
      <3>1. Highest(b) \in Int /\ Highest(b) >= NextBlock
        BY <1>1, <2>1, SoundHolds, CacheAssumption
      <3>2. ~Known(b, PrevBlock) /\ PrevBlock # Highest(b) + 1 /\ PrevBlock = Lowest(b) - 1
        BY <1>1, <2>1, <3>1 DEF Known
      <3> QED
        BY <2>1, <2>2, <3>2 DEF Add
    <2>4. PrevBlock = Lowest(b) - 1
      BY <1>1, <2>1
    <2> QED
      BY <1>1, <1>3, <2>1, <2>3, <2>4, AddBelowSound, TrackerAssumption
  <1>4. CASE ~reverse
    <2> DEFINE b == Add(cache, PrevBlock, BlockTime[PrevBlock])
    <2>1. /\ Sound(b) /\ b.heights # <<>> /\ Highest(b) = PrevBlock
          /\ Lowest(b) = first \/ Len(b.heights) = CacheSize
      <3>1. CASE cache.heights = <<>>
        <4>1. b = Only(PrevBlock, BlockTime[PrevBlock]) /\ PrevBlock = first
          BY <1>1, <1>4, <3>1, HeightsAreNat DEF Add, CacheFollows, LastSeen
        <4> QED
          BY <1>1, <4>1, OnlySound DEF Only, Lowest, Highest
      <3>2. CASE cache.heights # <<>>
        <4>1. /\ Highest(cache) = PrevBlock
              /\ Lowest(cache) = first \/ Len(cache.heights) = CacheSize
          BY <1>1, <1>4, <3>2 DEF CacheFollows, LastSeen
        <4>2. Known(cache, PrevBlock)
          BY <1>1, <1>2, <3>2, <4>1, SoundHolds, CacheAssumption DEF Known
        <4> QED
          BY <1>2, <3>2, <4>1, <4>2 DEF Add
      <3> QED
        BY <3>1, <3>2
    <2> HIDE DEF b
    <2>2. c = Add(b, NextBlock, BlockTime[NextBlock])
      BY <1>4 DEF ObserveBlocks, b
    <2>3. c = AddAbove(b, NextBlock, BlockTime[NextBlock])
      BY <1>1, <2>1, <2>2 DEF Add, Known
    <2>4. NextBlock = Highest(b) + 1
      BY <1>1, <2>1
    <2> QED
      BY <1>1, <1>4, <2>1, <2>3, <2>4, AddAboveSound
  <1> QED
    BY <1>3, <1>4

-----------------------------------------------------------------------------
(* One point through Flush. *)

LEMMA SettleFields ==
  ASSUME NEW c, NEW p, PointShaped(p), NEW q, q = Settle(c, p)
  PROVE  /\ PointShaped(q) /\ Id(q) = Id(p)
         /\ q.height = p.height /\ q.stamps = p.stamps
         /\ \A f : f \in q.missing <=> /\ f \in p.missing /\ ~Covers(c, p.stamps[f])
                                       /\ CanGoLower(c) /\ StillInWindow(c, p.height)
         /\ \A f : f \in DOMAIN q.missed <=>
                     f \in DOMAIN p.missed \/ (f \in p.missing /\ Covers(c, p.stamps[f]))
         /\ \A f \in DOMAIN q.missed :
              q.missed[f] = IF f \in p.missing /\ Covers(c, p.stamps[f])
                            THEN BlocksMissed(c, p.height, p.stamps[f]) ELSE p.missed[f]
  <1> DEFINE covered == {f \in p.missing : Covers(c, p.stamps[f])}
             missing == {f \in p.missing \ covered : CanGoLower(c) /\ StillInWindow(c, p.height)}
             missed == [f \in DOMAIN p.missed \cup covered |->
                          IF f \in covered THEN BlocksMissed(c, p.height, p.stamps[f])
                          ELSE p.missed[f]]
  <1>1. q = [p EXCEPT !.missing = missing, !.missed = missed]
    BY DEF Settle
  <1> HIDE DEF missing, missed
  <1>2. /\ p = [height |-> p.height, tx |-> p.tx, stamps |-> p.stamps, missing |-> p.missing,
                missed |-> p.missed]
    BY DEF PointShaped
  <1>3. q = [height |-> p.height, tx |-> p.tx, stamps |-> p.stamps, missing |-> missing,
             missed |-> missed]
    BY <1>1, <1>2
  <1>4. /\ q.height = p.height /\ q.tx = p.tx /\ q.stamps = p.stamps
        /\ q.missing = missing /\ q.missed = missed
    BY <1>3
  <1>5. PointShaped(q)
    BY <1>3, <1>4 DEF PointShaped, missing
  <1>6. Id(q) = Id(p)
    BY <1>4 DEF Id
  <1> QED
    BY <1>4, <1>5, <1>6 DEF missing, missed

-----------------------------------------------------------------------------
(* The points a call looks at. *)

LEMMA NewPointFields ==
  ASSUME NEW h \in Heights, NEW txs \in BlockTxs, NEW p \in TxPoints(h, txs)
  PROVE  /\ PointShaped(p) /\ p.height = h /\ p.missing = DOMAIN p.stamps
         /\ DOMAIN p.missed = {}
         /\ \E i \in DOMAIN txs : Id(p) = <<h, i>> /\ p = NewPoint(h, i, txs[i])
  <1>1. PICK i \in DOMAIN txs : p = NewPoint(h, i, txs[i])
    BY DEF TxPoints
  <1>2. txs[i] \in Stampings
    BY DEF BlockTxs
  <1>3. /\ p.height = h /\ p.tx = i /\ p.stamps = txs[i] /\ p.missing = DOMAIN txs[i]
        /\ p.missed = [f \in {} |-> 0]
    BY <1>1 DEF NewPoint
  <1>4. PointShaped(p)
    BY <1>1, <1>2, <1>3 DEF PointShaped, NewPoint
  <1> QED
    BY <1>1, <1>3, <1>4 DEF Id

\* Stamps are numbers.
LEMMA StampIsInt ==
  ASSUME NEW p, PointShaped(p), NEW f \in DOMAIN p.stamps
  PROVE  p.stamps[f] \in Int
  BY TrackerAssumption DEF PointShaped, Stampings

\* A transaction of the pair has not been handled before.
LEMMA NewIds ==
  ASSUME TrackerInv, handling, NEW txs \in BlockTxs
  PROVE  Ids(TxPoints(NextBlock, txs)) \cap handled = {}
  <1>1. NextBlock \in Heights /\ PrevBlock \in Heights
    BY DEF TrackerInv, FeedInChain
  <1>2. ASSUME NEW id \in handled PROVE id[1] # NextBlock
    <2>1. id[1] \in Nat /\ (IF reverse THEN id[1] > NextBlock ELSE id[1] <= PrevBlock)
      BY HeightsAreNat DEF TrackerInv, HandledBehind, LastSeen
    <2>2. NextBlock \in Nat /\ (~reverse => PrevBlock = NextBlock - 1)
      BY <1>1, HeightsAreNat DEF NextBlock, PrevBlock
    <2> QED
      BY <2>1, <2>2
  <1>3. \A id \in Ids(TxPoints(NextBlock, txs)) : id[1] = NextBlock
    BY <1>1, NewPointFields DEF Ids
  <1> QED
    BY <1>2, <1>3

\* What holds of every point of the call before Flush.
LEMMA PairPoint ==
  ASSUME TrackerInv, handling, NEW txs \in BlockTxs,
         NEW p \in pending \cup TxPoints(NextBlock, txs)
  PROVE  /\ PointShaped(p) /\ InWindowKept(p)
         /\ IF reverse THEN p.height >= NextBlock ELSE p.height = NextBlock
  <1>1. NextBlock \in Heights
    BY DEF TrackerInv, FeedInChain
  <1>2. CASE p \in pending
    <2>1. PointShaped(p) /\ InWindowKept(p)
      BY <1>2 DEF TrackerInv, PointsKept
    <2>2. reverse
      BY <1>2 DEF TrackerInv, PendingBounded, FeedInChain
    <2>3. Id(p) \in handled /\ Id(p)[1] = p.height
      BY <1>2 DEF TrackerInv, OnePointEach, Ids, Id
    <2>4. p.height \in Heights /\ p.height > NextBlock
      BY <2>2, <2>3 DEF TrackerInv, HandledBehind, LastSeen
    <2>5. p.height >= NextBlock
      BY <1>1, <2>4, HeightsAreNat
    <2> QED
      BY <2>1, <2>2, <2>5
  <1>3. CASE p \in TxPoints(NextBlock, txs)
    <2>1. PointShaped(p) /\ p.height = NextBlock /\ p.missing = DOMAIN p.stamps
      BY <1>1, <1>3, NewPointFields
    <2> QED
      BY <1>1, <2>1, HeightsAreNat DEF InWindowKept
  <1> QED
    BY <1>2, <1>3

\* The window of a point is a block of the chain.
LEMMA WindowInChain ==
  ASSUME FeedInChain, handling, NEW h \in Heights,
         IF reverse THEN h >= NextBlock ELSE h = NextBlock
  PROVE  /\ WindowBottom(h) \in Heights
         /\ reverse => WindowBottom(h) >= LowestHeight /\ WindowBottom(h) >= h - CacheSize
         /\ ~reverse => WindowBottom(h) >= first /\ WindowBottom(h) >= h - CacheSize + 1
  <1>1. /\ frontier \in Heights /\ first \in Heights /\ h \in Nat \ {0} /\ frontier \in Nat \ {0}
        /\ first \in Nat \ {0} /\ CacheSize \in Nat \ {0} /\ LowestHeight \in Nat \ {0}
    BY HeightsAreNat, CacheAssumption, LowestHeightIsNat DEF FeedInChain, PrevBlock, NextBlock
  <1>2. CASE reverse
    <2>1. LowestHeight <= h
      BY <1>1, <1>2 DEF FeedInChain, NextBlock
    <2>2. /\ WindowBottom(h) \in 1 .. h
          /\ WindowBottom(h) >= LowestHeight /\ WindowBottom(h) >= h - CacheSize
      BY <1>1, <1>2, <2>1 DEF WindowBottom
    <2> QED
      BY <1>2, <2>2, HeightsBelow
  <1>3. CASE ~reverse
    <2>1. first <= h
      BY <1>1, <1>3 DEF FeedInChain, NextBlock, PrevBlock, LastSeen
    <2>2. /\ WindowBottom(h) \in 1 .. h
          /\ WindowBottom(h) >= first /\ WindowBottom(h) >= h - CacheSize + 1
      BY <1>1, <1>3, <2>1 DEF WindowBottom
    <2> QED
      BY <1>3, <2>2, HeightsBelow
  <1> QED
    BY <1>2, <1>3

\* A timestamp the cache does not reach is before its lowest block.
LEMMA NotCovered ==
  ASSUME NEW c, Sound(c), c.heights # <<>>, NEW ts \in Int
  PROVE  /\ Lowest(c) \in Heights
         /\ Covers(c, ts) <=> BlockTime[Lowest(c)] <= ts
  <1>1. Holds(c.heights, c.times, Lowest(c)) /\ Len(c.heights) \in Nat \ {0}
    BY SoundHolds, CacheAssumption
  <1>2. Lowest(c) \in Heights /\ c.times[1] = BlockTime[Lowest(c)]
    BY <1>1 DEF Holds, Lowest
  <1>3. c.times # <<>>
    BY <1>1 DEF Holds
  <1> QED
    BY <1>2, <1>3 DEF Covers

-----------------------------------------------------------------------------
(* One call of the handler. *)

\* A timestamp that a call resolves lies below the highest block of the cache, or
\* above the transaction.
LEMMA ResolvableBelowHighest ==
  ASSUME TrackerInv, handling, NEW txs \in BlockTxs,
         NEW p \in pending \cup TxPoints(NextBlock, txs), NEW f \in p.missing,
         NEW c, c = ObserveBlocks(PrevBlock, NextBlock),
         LatestCommitted(p.stamps[f]) <= p.height
  PROVE  LatestCommitted(p.stamps[f]) <= Highest(c)
  <1> DEFINE ts == p.stamps[f]
  <1>0. NextBlock \in Heights /\ NextBlock \in Int /\ phase # "ended"
    BY HeightsAreNat DEF TrackerInv, FeedInChain
  <1>1. PointShaped(p)
    BY PairPoint
  <1>2. f \in DOMAIN p.stamps /\ ts \in Int
    BY <1>1, StampIsInt DEF PointShaped
  <1>3. LatestCommitted(ts) \in Nat /\ \A h \in Heights : BlockTime[h] <= ts <=> h <= LatestCommitted(ts)
    BY <1>2, CommittedInterval
  <1>4. Highest(c) \in Int /\ NextBlock <= Highest(c)
    <2>1. Sound(c) /\ c.heights # <<>> /\ Known(c, NextBlock)
      BY ObservedCache DEF TrackerInv
    <2> QED
      BY <2>1, SoundHolds, CacheAssumption DEF Known
  <1>5. CASE p \in TxPoints(NextBlock, txs)
    <2>1. p.height = NextBlock
      BY <1>0, <1>5, NewPointFields
    <2> QED
      BY <1>0, <1>3, <1>4, <2>1
  <1>6. CASE p \in pending
    <2>1. reverse /\ ~Covers(cache, ts) /\ cache.heights # <<>>
      BY <1>0, <1>6 DEF TrackerInv, PendingBounded, CacheFollows
    <2>2. Lowest(cache) = NextBlock
      BY <1>0, <2>1 DEF TrackerInv, CacheFollows, LastSeen
    <2>3. ~(BlockTime[NextBlock] <= ts)
      BY <1>2, <2>1, <2>2, NotCovered, CacheSound DEF TrackerInv
    <2>4. LatestCommitted(ts) <= NextBlock
      BY <1>0, <1>3, <2>3
    <2> QED
      BY <1>0, <1>3, <1>4, <2>4
  <1> QED
    BY <1>5, <1>6

\* A count that Flush adds is the one of the whole chain.
LEMMA SettleExact ==
  ASSUME TrackerInv, handling, NEW txs \in BlockTxs,
         NEW p \in pending \cup TxPoints(NextBlock, txs),
         NEW c, c = ObserveBlocks(PrevBlock, NextBlock),
         NEW q, q = Settle(c, p), NEW f \in DOMAIN q.missed,
         LatestCommitted(q.stamps[f]) <= q.height
  PROVE  q.missed[f] = q.height - (LatestCommitted(q.stamps[f]) + 1)
  <1>1. PointShaped(p)
    BY PairPoint
  <1>2. q.height = p.height /\ q.stamps = p.stamps
    BY <1>1, SettleFields
  <1>3. CASE f \in p.missing /\ Covers(c, p.stamps[f])
    <2>1. q.missed[f] = BlocksMissed(c, p.height, p.stamps[f])
      BY <1>1, <1>3, SettleFields
    <2>2. p.stamps[f] \in Int
      BY <1>1, <1>3, StampIsInt DEF PointShaped
    <2>3. Sound(c)
      BY ObservedCache DEF TrackerInv
    <2>4. LatestCommitted(p.stamps[f]) <= Highest(c)
      BY <1>2, <1>3, ResolvableBelowHighest
    <2>5. FloorHeight(c, p.stamps[f]) = LatestCommitted(p.stamps[f])
      BY <1>3, <2>2, <2>3, <2>4, FloorIsLatest
    <2> QED
      BY <1>2, <2>1, <2>5 DEF BlocksMissed
  <1>4. CASE ~(f \in p.missing /\ Covers(c, p.stamps[f]))
    <2>1. q.missed[f] = p.missed[f] /\ f \in DOMAIN p.missed
      BY <1>1, <1>4, SettleFields
    <2>2. p \notin TxPoints(NextBlock, txs)
      BY <2>1, NewPointFields DEF TrackerInv, FeedInChain
    <2> QED
      BY <1>2, <2>1, <2>2 DEF TrackerInv, MissedExact
  <1> QED
    BY <1>3, <1>4

\* Flush gives up only timestamps outside the window.
LEMMA SettleKeepsWindow ==
  ASSUME TrackerInv, handling, NEW txs \in BlockTxs,
         NEW p \in pending \cup TxPoints(NextBlock, txs),
         NEW c, c = ObserveBlocks(PrevBlock, NextBlock),
         NEW q, q = Settle(c, p)
  PROVE  InWindowKept(q)
  <1>1. /\ PointShaped(p) /\ InWindowKept(p)
        /\ IF reverse THEN p.height >= NextBlock ELSE p.height = NextBlock
    BY PairPoint
  <1>2. q.height = p.height /\ q.stamps = p.stamps
    BY <1>1, SettleFields
  <1> SUFFICES ASSUME NEW f \in DOMAIN p.stamps, f \in p.missing, ~Covers(c, p.stamps[f]),
                      p.stamps[f] >= BlockTime[WindowBottom(p.height)]
               PROVE  f \in q.missing
    BY <1>1, <1>2, SettleFields DEF InWindowKept
  <1> DEFINE w == WindowBottom(p.height)
  <1>3. /\ w \in Heights /\ p.height \in Heights
        /\ reverse => w >= LowestHeight /\ w >= p.height - CacheSize
        /\ ~reverse => w >= first /\ w >= p.height - CacheSize + 1
    BY <1>1, WindowInChain DEF TrackerInv, PointShaped
  <1> HIDE DEF w
  <1>4. /\ Sound(c) /\ c.heights # <<>>
        /\ ~reverse => /\ Highest(c) = NextBlock
                       /\ Lowest(c) = first \/ Len(c.heights) = CacheSize
    BY ObservedCache DEF TrackerInv
  <1>5. Lowest(c) \in Heights /\ ~(BlockTime[Lowest(c)] <= p.stamps[f])
    BY <1>1, <1>4, NotCovered, StampIsInt
  <1>6. w < Lowest(c) /\ w \in Nat /\ Lowest(c) \in Nat /\ p.height \in Nat
    <2>1. p.stamps[f] \in Int /\ p.stamps[f] >= BlockTime[w]
      BY <1>1, StampIsInt DEF w
    <2>2. BlockTime[w] \in Nat /\ BlockTime[Lowest(c)] \in Nat
      BY <1>3, <1>5, TimesAreNat
    <2>3. ~(Lowest(c) <= w)
      <3>1. Lowest(c) <= w => BlockTime[Lowest(c)] <= BlockTime[w]
        BY <1>3, <1>5, TimesGrow
      <3> QED
        BY <1>5, <2>1, <2>2, <3>1
    <2> QED
      BY <1>3, <1>5, <2>3, HeightsAreNat
  <1>7. reverse
    <2> SUFFICES ASSUME ~reverse PROVE FALSE
      BY DEF TrackerInv, FeedInChain
    <2>1. /\ w >= first /\ w >= p.height - CacheSize + 1 /\ p.height = NextBlock
          /\ Highest(c) = NextBlock
          /\ Lowest(c) = first \/ Len(c.heights) = CacheSize
      BY <1>1, <1>3, <1>4
    <2>2. Highest(c) = Lowest(c) + Len(c.heights) - 1
      BY <1>4, SoundHolds
    <2>3. CASE Lowest(c) = first
      BY <1>6, <2>1, <2>3
    <2>4. CASE Len(c.heights) = CacheSize
      <3>1. CacheSize \in Nat
        BY CacheAssumption
      <3>2. Lowest(c) = p.height - CacheSize + 1
        BY <1>6, <2>1, <2>2, <2>4, <3>1
      <3> QED
        BY <1>6, <2>1, <3>1, <3>2
    <2> QED
      BY <2>1, <2>3, <2>4
  <1>8. StillInWindow(c, p.height)
    BY <1>3, <1>6, <1>7, CacheAssumption DEF StillInWindow
  <1>9. CanGoLower(c)
    BY <1>3, <1>6, <1>7, LowestHeightIsNat, TrackerAssumption DEF CanGoLower
  <1> QED
    BY <1>1, <1>8, <1>9, SettleFields

\* A successful call keeps the invariant.
LEMMA HandlerReturnsInv ==
  ASSUME TrackerInv, HandlerReturns
  PROVE  TrackerInv'
  <1>1. /\ handling /\ handling' = FALSE /\ UNCHANGED <<reverse, frontier, first>>
        /\ phase # "ended" /\ frontier # 0 /\ reverse \in BOOLEAN
        /\ PrevBlock \in Heights /\ NextBlock \in Heights
    BY HeightsAreNat DEF HandlerReturns, Feed!Finish, TrackerInv, FeedInChain, PrevBlock, NextBlock
  <1>2. PICK txs \in BlockTxs : HandlePair(txs)
    BY DEF HandlerReturns
  <1> DEFINE c == ObserveBlocks(PrevBlock, NextBlock)
             new == TxPoints(NextBlock, txs)
             Q == {Settle(c, p) : p \in pending \cup new}
  <1>3. /\ cache' = c /\ pending' = Kept(Q) /\ written' = written \cup Ready(Q)
        /\ handled' = handled \cup Ids(new)
    BY <1>2 DEF HandlePair
  <1>4. LastSeen' = frontier
    BY <1>1 DEF LastSeen
  <1>5. /\ Sound(c) /\ c.heights # <<>>
        /\ reverse => Lowest(c) = PrevBlock
        /\ ~reverse => /\ Highest(c) = NextBlock
                       /\ Lowest(c) = first \/ Len(c.heights) = CacheSize
    BY <1>1, ObservedCache DEF TrackerInv
  <1> HIDE DEF c, new, Q
  <1>6. \A q \in Q : \E p \in pending \cup new :
          q = Settle(c, p) /\ PointShaped(p) /\ Id(q) = Id(p)
    BY <1>1, PairPoint, SettleFields DEF Q, new
  <1>7. Ids(Q) = Ids(pending) \cup Ids(new)
    <2>1. \A p \in pending \cup new : Settle(c, p) \in Q /\ Id(Settle(c, p)) = Id(p)
      BY <1>1, PairPoint, SettleFields DEF Q, new
    <2> QED
      BY <1>6, <2>1 DEF Ids
  <1>8. FeedInChain'
    <2>1. ~reverse => first <= frontier
      BY <1>1, HeightsAreNat DEF TrackerInv, FeedInChain, LastSeen, PrevBlock
    <2> QED
      BY <1>1, <1>4, <2>1 DEF TrackerInv, FeedInChain
  <1>9. HandledBehind'
    <2>1. frontier \in Nat /\ NextBlock \in Nat
          /\ (IF reverse THEN NextBlock = frontier + 1 /\ LastSeen = NextBlock
              ELSE NextBlock = frontier /\ LastSeen = frontier - 1)
      BY <1>1, HeightsAreNat DEF NextBlock, PrevBlock, LastSeen
    <2>2. ASSUME NEW id \in handled
          PROVE  id[1] \in Heights /\ (IF reverse THEN id[1] > frontier ELSE id[1] <= frontier)
      <3>1. id[1] \in Heights /\ id[1] \in Nat
            /\ (IF reverse THEN id[1] > LastSeen ELSE id[1] <= LastSeen)
        BY HeightsAreNat DEF TrackerInv, HandledBehind
      <3> QED
        BY <2>1, <3>1
    <2>3. \A id \in Ids(new) : id[1] = NextBlock
      BY <1>1, NewPointFields DEF Ids, new
    <2> QED
      BY <1>1, <1>3, <1>4, <2>1, <2>2, <2>3 DEF HandledBehind
  <1>10. CacheFollows'
    <2>1. Consistent(c) /\ c \in [heights : Seq(Heights), times : Seq(Nat)]
      BY <1>5 DEF Sound, Caches
    <2>2. IF reverse THEN Lowest(c) = frontier
          ELSE Highest(c) = frontier /\ (Lowest(c) = first \/ Len(c.heights) = CacheSize)
      BY <1>1, <1>5 DEF PrevBlock, NextBlock
    <2> QED
      BY <1>1, <1>3, <1>4, <1>5, <2>1, <2>2 DEF CacheFollows
  <1>11. \A p \in pending' \cup written' : p \in Q \/ p \in written
    BY <1>3 DEF Kept, Ready
  <1>12. PointsKept'
    <2>1. \A h : WindowBottom(h)' = WindowBottom(h)
      BY <1>1 DEF WindowBottom
    <2>2. \A p \in Q : PointShaped(p) /\ InWindowKept(p)
      BY <1>1, PairPoint, SettleFields, SettleKeepsWindow DEF Q, c, new
    <2>3. \A p \in written : PointShaped(p) /\ InWindowKept(p) /\ p.missing = {}
      BY DEF TrackerInv, PointsKept
    <2>4. \A p \in pending' \cup written' : PointShaped(p) /\ InWindowKept(p)'
      BY <1>11, <2>1, <2>2, <2>3 DEF InWindowKept
    <2>5. \A p \in written' : p.missing = {}
      BY <1>3, <2>3 DEF Ready
    <2>6. \A p \in pending' : CanGoLower(c)
      BY <1>1, <1>3, PairPoint, SettleFields DEF Kept, Q, new
    <2>7. CanGoLower(cache)' <=> CanGoLower(c)
      BY <1>1, <1>3 DEF CanGoLower
    <2> QED
      BY <2>4, <2>5, <2>6, <2>7 DEF PointsKept
  <1>13. OnePointEach'
    <2>1. Ids(pending') \cup Ids(written') = handled'
      <3>1. Ids(pending') \cup Ids(written') = Ids(Q) \cup Ids(written)
        BY <1>3 DEF Ids, Kept, Ready
      <3> QED
        BY <1>3, <1>7, <3>1 DEF TrackerInv, OnePointEach
    <2>2. Ids(Q) \cap Ids(written) = {}
      BY <1>1, <1>7, NewIds DEF TrackerInv, OnePointEach, new
    <2>3. \A p, q \in pending \cup new : Id(p) = Id(q) => p = q
      <3>1. \A p, q \in new : Id(p) = Id(q) => p = q
        BY <1>1, NewPointFields DEF new
      <3>2. Ids(new) \cap Ids(pending) = {}
        BY <1>1, NewIds DEF TrackerInv, OnePointEach, new
      <3> QED
        BY <3>1, <3>2 DEF TrackerInv, OnePointEach, Ids
    <2>4. \A p, q \in Q : Id(p) = Id(q) => p = q
      BY <1>6, <2>3
    <2>5. \A p, q \in Q \cup written : Id(p) = Id(q) => p = q
      BY <2>2, <2>4 DEF Ids, TrackerInv, OnePointEach
    <2>6. \A p \in Kept(Q) : \A q \in Ready(Q) : Id(p) # Id(q)
      BY <2>4 DEF Kept, Ready
    <2>7. Ids(pending') \cap Ids(written') = {}
      BY <1>3, <2>2, <2>6 DEF Ids, Kept
    <2> QED
      BY <1>11, <2>1, <2>5, <2>7 DEF OnePointEach, Ids
  <1>14. MissedExact'
    <2>1. ASSUME NEW q \in Q, NEW f \in DOMAIN q.missed, LatestCommitted(q.stamps[f]) <= q.height
          PROVE  q.missed[f] = q.height - (LatestCommitted(q.stamps[f]) + 1)
      BY <1>1, <2>1, SettleExact DEF Q, c, new
    <2> QED
      BY <1>11, <2>1 DEF TrackerInv, MissedExact
  <1>15. PendingBounded'
    <2>1. ASSUME NEW q \in Kept(Q)
          PROVE  /\ reverse /\ q.missing # {} /\ q.height - Lowest(c) < CacheSize
                 /\ \A f \in q.missing : ~Covers(c, q.stamps[f])
      <3>1. PICK p \in pending \cup new : q = Settle(c, p) /\ PointShaped(p)
        BY <1>6 DEF Kept
      <3>2. /\ q.height = p.height /\ q.stamps = p.stamps /\ q.missing # {}
            /\ \A f \in q.missing : /\ ~Covers(c, p.stamps[f])
                                    /\ CanGoLower(c) /\ StillInWindow(c, p.height)
        BY <3>1, SettleFields DEF Kept
      <3> QED
        BY <3>2 DEF CanGoLower, StillInWindow
    <2> QED
      BY <1>1, <1>3, <2>1 DEF PendingBounded
  <1> QED
    BY <1>8, <1>9, <1>10, <1>12, <1>13, <1>14, <1>15 DEF TrackerInv

\* A failed call keeps the invariant: its transactions are pending, and nothing
\* follows.
LEMMA HandlerFailsInv ==
  ASSUME TrackerInv, HandlerFails
  PROVE  TrackerInv'
  <1>1. /\ handling /\ handling' = FALSE /\ UNCHANGED <<reverse, frontier, first>>
        /\ phase' = "ended" /\ frontier # 0 /\ reverse \in BOOLEAN
        /\ PrevBlock \in Heights /\ NextBlock \in Heights
    BY HeightsAreNat DEF HandlerFails, Feed!Fail, TrackerInv, FeedInChain, PrevBlock, NextBlock
  <1>2. PICK txs \in BlockTxs : DecodeFails(txs)
    BY DEF HandlerFails
  <1> DEFINE c == ObserveBlocks(PrevBlock, NextBlock)
             new == TxPoints(NextBlock, txs)
  <1>3. /\ cache' = c /\ pending' = pending \cup new /\ written' = written
        /\ handled' = handled \cup Ids(new)
    BY <1>2 DEF DecodeFails
  <1>4. LastSeen' = frontier
    BY <1>1 DEF LastSeen
  <1>5. Sound(c)
    BY <1>1, ObservedCache DEF TrackerInv
  <1> HIDE DEF c, new
  <1>6. \A p \in new : PointShaped(p) /\ p.height = NextBlock /\ DOMAIN p.missed = {}
                       /\ p.missing = DOMAIN p.stamps
    BY <1>1, NewPointFields DEF new
  <1>8. FeedInChain'
    <2>1. ~reverse => first <= frontier
      BY <1>1, HeightsAreNat DEF TrackerInv, FeedInChain, LastSeen, PrevBlock
    <2> QED
      BY <1>1, <1>4, <2>1 DEF TrackerInv, FeedInChain
  <1>9. HandledBehind'
    <2>1. frontier \in Nat /\ NextBlock \in Nat
          /\ (IF reverse THEN NextBlock = frontier + 1 /\ LastSeen = NextBlock
              ELSE NextBlock = frontier /\ LastSeen = frontier - 1)
      BY <1>1, HeightsAreNat DEF NextBlock, PrevBlock, LastSeen
    <2>2. ASSUME NEW id \in handled
          PROVE  id[1] \in Heights /\ (IF reverse THEN id[1] > frontier ELSE id[1] <= frontier)
      <3>1. id[1] \in Heights /\ id[1] \in Nat
            /\ (IF reverse THEN id[1] > LastSeen ELSE id[1] <= LastSeen)
        BY HeightsAreNat DEF TrackerInv, HandledBehind
      <3> QED
        BY <2>1, <3>1
    <2>3. \A id \in Ids(new) : id[1] = NextBlock
      BY <1>6 DEF Ids, Id
    <2> QED
      BY <1>1, <1>3, <1>4, <2>1, <2>2, <2>3 DEF HandledBehind
  <1>10. CacheFollows'
    BY <1>1, <1>3, <1>5 DEF CacheFollows, Sound, Caches
  <1>11. PointsKept'
    <2>1. \A h : WindowBottom(h)' = WindowBottom(h)
      BY <1>1 DEF WindowBottom
    <2>2. \A p \in pending \cup written : PointShaped(p) /\ InWindowKept(p)
      BY DEF TrackerInv, PointsKept
    <2>3. \A p \in pending' \cup written' : PointShaped(p) /\ InWindowKept(p)'
      BY <1>3, <1>6, <2>1, <2>2 DEF InWindowKept
    <2> QED
      BY <1>1, <1>3, <2>3 DEF TrackerInv, PointsKept
  <1>12. OnePointEach'
    <2>1. Ids(new) \cap handled = {}
      BY <1>1, NewIds DEF new
    <2>2. \A p, q \in new : Id(p) = Id(q) => p = q
      BY <1>1, NewPointFields DEF new
    <2>3. Ids(pending') = Ids(pending) \cup Ids(new) /\ Ids(written') = Ids(written)
      BY <1>3 DEF Ids
    <2>4. \A p, q \in pending' \cup written' : Id(p) = Id(q) => p = q
      BY <1>3, <2>1, <2>2 DEF TrackerInv, OnePointEach, Ids
    <2> QED
      BY <1>3, <2>1, <2>3, <2>4 DEF TrackerInv, OnePointEach
  <1>13. MissedExact'
    BY <1>3, <1>6 DEF TrackerInv, MissedExact
  <1>14. PendingBounded'
    BY <1>1 DEF PendingBounded
  <1> QED
    BY <1>8, <1>9, <1>10, <1>11, <1>12, <1>13, <1>14 DEF TrackerInv

-----------------------------------------------------------------------------
(* The steps of the feed, which leave the tracker alone. *)

LEMMA TrackerUntouched ==
  ASSUME TrackerInv, UNCHANGED <<reverse, trackerVars>>, phase = "ended" => phase' = "ended",
         first' = first \/ (pending = {} /\ written = {})
  PROVE  OnePointEach' /\ MissedExact' /\ PendingBounded' /\ PointsKept'
  <1>1. OnePointEach' /\ MissedExact'
    BY DEF TrackerInv, OnePointEach, MissedExact, trackerVars
  <1>2. PendingBounded'
    BY DEF TrackerInv, PendingBounded, trackerVars
  <1>3. PointsKept'
    <2>1. CASE first' = first
      <3>1. \A h : WindowBottom(h)' = WindowBottom(h)
        BY <2>1 DEF WindowBottom
      <3>2. CanGoLower(cache)' <=> CanGoLower(cache)
        BY DEF CanGoLower, trackerVars
      <3> QED
        BY <3>1, <3>2 DEF TrackerInv, PointsKept, InWindowKept, trackerVars
    <2>2. CASE pending = {} /\ written = {}
      BY <2>2 DEF PointsKept, trackerVars
    <2> QED
      BY <2>1, <2>2
  <1> QED
    BY <1>1, <1>2, <1>3

\* The first block: nothing has happened before.
LEMMA FirstBlockInv ==
  ASSUME TrackerInv, FirstBlock
  PROVE  TrackerInv'
  <1>1. /\ frontier = 0 /\ phase # "ended" /\ frontier' \in Heights /\ first' = frontier'
        /\ (reverse => frontier' >= LowestHeight) /\ UNCHANGED <<reverse, handling, phase>>
        /\ UNCHANGED trackerVars
    BY DEF FirstBlock, Feed!First, Feed!InReach
  <1>2. ~handling /\ cache = NewCache /\ handled = {} /\ pending = {} /\ written = {}
        /\ reverse \in BOOLEAN /\ handling \in BOOLEAN
    BY <1>1 DEF TrackerInv, FeedInChain
  <1>3. LastSeen' = frontier' /\ frontier' \in Nat \ {0}
    BY <1>1, <1>2, HeightsAreNat DEF LastSeen
  <1>4. FeedInChain'
    BY <1>1, <1>2, <1>3 DEF FeedInChain
  <1>5. HandledBehind'
    BY <1>1, <1>2 DEF HandledBehind, trackerVars
  <1>6. CacheFollows'
    BY <1>1, <1>2, <1>3 DEF TrackerInv, CacheFollows, NewCache, trackerVars
  <1>7. OnePointEach' /\ MissedExact' /\ PendingBounded' /\ PointsKept'
    BY <1>1, <1>2, TrackerUntouched
  <1> QED
    BY <1>4, <1>5, <1>6, <1>7 DEF TrackerInv

\* The call of the handler: its pair starts at the last block seen.
LEMMA HandlerCalledInv ==
  ASSUME TrackerInv, HandlerCalled
  PROVE  TrackerInv'
  <1>1. /\ frontier # 0 /\ ~handling /\ phase # "ended" /\ phase' \in {"open", "last"} /\ handling'
        /\ handling' \in BOOLEAN
        /\ frontier' = (IF reverse THEN frontier - 1 ELSE frontier + 1) /\ frontier' \in Heights
        /\ (reverse => frontier' >= LowestHeight)
        /\ UNCHANGED <<reverse, first>> /\ UNCHANGED trackerVars
    BY DEF HandlerCalled, Feed!Handle, Feed!InReach, Feed!Onward
  <1>2. frontier \in Heights /\ frontier \in Nat \ {0} /\ frontier' \in Nat \ {0}
        /\ reverse \in BOOLEAN
    BY <1>1, HeightsAreNat DEF TrackerInv, FeedInChain
  <1>3. LastSeen = frontier /\ LastSeen' = frontier
    BY <1>1, <1>2 DEF LastSeen, NextBlock, PrevBlock
  <1>4. FeedInChain'
    <2>1. PrevBlock' \in Heights /\ NextBlock' \in Heights
      BY <1>1, <1>2 DEF PrevBlock, NextBlock
    <2> QED
      BY <1>1, <1>2, <1>3, <2>1 DEF TrackerInv, FeedInChain
  <1>5. HandledBehind'
    BY <1>1, <1>3 DEF TrackerInv, HandledBehind, trackerVars
  <1>6. CacheFollows'
    BY <1>1, <1>2, <1>3 DEF TrackerInv, CacheFollows, trackerVars
  <1>7. OnePointEach' /\ MissedExact' /\ PendingBounded' /\ PointsKept'
    BY <1>1, TrackerUntouched
  <1> QED
    BY <1>4, <1>5, <1>6, <1>7 DEF TrackerInv

\* The ends of the feed outside a call, and a request to close at any time.
LEMMA FeedEndsInv ==
  ASSUME TrackerInv, FeedFails \/ CloseAsked \/ UNCHANGED vars
  PROVE  TrackerInv'
  <1>1. handling \in BOOLEAN
    BY DEF TrackerInv, FeedInChain
  <1>2. /\ UNCHANGED <<reverse, frontier, handling, first>> /\ UNCHANGED trackerVars
        /\ phase = "ended" => phase' = "ended"
        /\ handling => phase' \in {"open", "last"}
    <2>1. CASE FeedFails
      BY <1>1, <2>1 DEF FeedFails, Feed!Fail
    <2>2. CASE CloseAsked
      BY <2>2 DEF CloseAsked, Feed!AskToClose, Feed!Stop, TrackerInv, FeedInChain
    <2>3. CASE UNCHANGED vars
      BY <2>3 DEF vars, TrackerInv, FeedInChain
    <2> QED
      BY <2>1, <2>2, <2>3
  <1>3. LastSeen' = LastSeen /\ PrevBlock' = PrevBlock /\ NextBlock' = NextBlock
    BY <1>2 DEF LastSeen, PrevBlock, NextBlock
  <1>4. FeedInChain'
    BY <1>2, <1>3 DEF TrackerInv, FeedInChain, trackerVars
  <1>5. HandledBehind'
    BY <1>2, <1>3 DEF TrackerInv, HandledBehind, trackerVars
  <1>6. CacheFollows'
    BY <1>2, <1>3 DEF TrackerInv, CacheFollows, trackerVars
  <1>7. OnePointEach' /\ MissedExact' /\ PendingBounded' /\ PointsKept'
    BY <1>2, TrackerUntouched
  <1> QED
    BY <1>4, <1>5, <1>6, <1>7 DEF TrackerInv

-----------------------------------------------------------------------------

LEMMA TrackerInitInv == Init => TrackerInv
  <1> SUFFICES ASSUME Init PROVE TrackerInv
    OBVIOUS
  <1>1. /\ reverse \in BOOLEAN /\ frontier = 0 /\ handling = FALSE /\ phase = "open" /\ first = 0
        /\ cache = NewCache /\ pending = {} /\ written = {} /\ handled = {}
    BY DEF Init, Feed!FeedInit, CacheInit
  <1>2. CacheFollows
    BY <1>1, CacheAssumption DEF CacheFollows, NewCache, Consistent
  <1>3. FeedInChain /\ HandledBehind
    BY <1>1 DEF FeedInChain, HandledBehind
  <1>4. OnePointEach /\ MissedExact /\ PendingBounded /\ PointsKept
    BY <1>1 DEF OnePointEach, Ids, MissedExact, PendingBounded, PointsKept
  <1> QED
    BY <1>2, <1>3, <1>4 DEF TrackerInv

LEMMA TrackerNextInv == TrackerInv /\ [Next]_vars => TrackerInv'
  BY FirstBlockInv, HandlerCalledInv, HandlerReturnsInv, HandlerFailsInv, FeedEndsInv DEF Next

THEOREM TrackerInvariance == Spec => []TrackerInv
  BY TrackerInitInv, TrackerNextInv, PTL DEF Spec

\* Every RFQ transaction has one point, pending or written (rfq_points.go 63-107).
THEOREM PointsStayUnique == Spec => []OnePointEach
  BY TrackerInvariance, PTL DEF TrackerInv

\* Every count of missed blocks is the one of the whole chain (rfq_points.go 76-87
\* with rfq.go 73-134).
THEOREM CountsStayExact == Spec => []MissedExact
  BY TrackerInvariance, PTL DEF TrackerInv

\* A point is written without a count only when its timestamp is outside the window
\* (rfq_points.go 73-95).
THEOREM NothingGivenUpEarly == Spec => []ResolvedInWindow
  <1>1. TrackerInv => ResolvedInWindow
    BY DEF TrackerInv, PointsKept, InWindowKept, ResolvedInWindow
  <1> QED
    BY <1>1, TrackerInvariance, PTL

\* A backfill with a stop height has written every point when it reaches it
\* (rfq_points.go 73 against block_watcher.go 365-368).
THEOREM NothingStaysPending == Spec => []NothingLeft
  <1>1. ASSUME TrackerInv PROVE NothingLeft
    <2> SUFFICES ASSUME BackwardEnd, StopHeight > 1, pending # {} PROVE FALSE
      BY DEF NothingLeft
    <2>1. CanGoLower(cache) /\ cache.heights # <<>>
      BY <1>1 DEF BackwardEnd, TrackerInv, PointsKept, CacheFollows
    <2>2. Lowest(cache) = LowestHeight
      BY <1>1, <2>1 DEF BackwardEnd, TrackerInv, CacheFollows, LastSeen
    <2> QED
      BY <2>1, <2>2, LowestHeightIsNat, TrackerAssumption DEF CanGoLower
  <1> QED
    BY <1>1, TrackerInvariance, PTL

-----------------------------------------------------------------------------
(* How long points wait. *)

\* What ends a wait is not undone by further blocks below.
LEMMA WaitEndsStays ==
  ASSUME NEW p, PointShaped(p), NEW low \in Heights, NEW g \in Heights, g <= low,
         WaitEnds(p, low)
  PROVE  WaitEnds(p, g)
  <1>1. /\ p.height \in Nat /\ low \in Nat /\ g \in Nat /\ CacheSize \in Nat /\ StopHeight \in Nat
        /\ BlockTime[low] \in Nat /\ BlockTime[g] \in Nat /\ BlockTime[g] <= BlockTime[low]
    BY HeightsAreNat, CacheAssumption, TrackerAssumption, TimesGrow DEF PointShaped
  <1>2. CASE \A f \in DOMAIN p.stamps : BlockTime[low] <= p.stamps[f]
    <2>1. \A f \in DOMAIN p.stamps : p.stamps[f] \in Int
      BY StampIsInt
    <2>2. \A f \in DOMAIN p.stamps : BlockTime[g] <= p.stamps[f]
      BY <1>1, <1>2, <2>1
    <2> QED
      BY <2>2 DEF WaitEnds
  <1>3. CASE p.height - low >= CacheSize
    BY <1>1, <1>3 DEF WaitEnds
  <1>4. CASE StopHeight # 0 /\ low < StopHeight
    BY <1>1, <1>4 DEF WaitEnds
  <1> QED
    BY <1>2, <1>3, <1>4 DEF WaitEnds

\* What the cache covered before a call backward it covers after it.
LEMMA CoveredStays ==
  ASSUME TrackerInv, handling, reverse, cache.heights # <<>>, NEW ts \in Int, Covers(cache, ts),
         NEW c, c = ObserveBlocks(PrevBlock, NextBlock)
  PROVE  Covers(c, ts)
  <1>1. /\ phase # "ended" /\ PrevBlock \in Heights /\ NextBlock \in Heights /\ PrevBlock <= NextBlock
    BY HeightsAreNat DEF TrackerInv, FeedInChain, PrevBlock, NextBlock
  <1>2. Lowest(cache) = NextBlock
    BY <1>1 DEF TrackerInv, CacheFollows, LastSeen
  <1>3. BlockTime[NextBlock] <= ts
    BY <1>2, NotCovered, CacheSound DEF TrackerInv
  <1>4. Sound(c) /\ c.heights # <<>> /\ Lowest(c) = PrevBlock
    BY ObservedCache DEF TrackerInv
  <1>5. BlockTime[PrevBlock] <= ts
    <2>1. BlockTime[PrevBlock] \in Nat /\ BlockTime[NextBlock] \in Nat
          /\ BlockTime[PrevBlock] <= BlockTime[NextBlock]
      BY <1>1, TimesGrow
    <2> QED
      BY <1>3, <2>1
  <1> QED
    BY <1>4, <1>5, NotCovered

\* Every timestamp that a point does not miss before Flush is covered after the call.
LEMMA NotMissingIsCovered ==
  ASSUME TrackerInv, WaitInv, handling, reverse, NEW txs \in BlockTxs,
         NEW p \in pending \cup TxPoints(NextBlock, txs),
         NEW f \in DOMAIN p.stamps, f \notin p.missing,
         NEW c, c = ObserveBlocks(PrevBlock, NextBlock)
  PROVE  Covers(c, p.stamps[f])
  <1>1. NextBlock \in Heights /\ phase # "ended"
    BY DEF TrackerInv, FeedInChain
  <1>2. p \in pending
    BY <1>1, NewPointFields
  <1>3. cache.heights # <<>>
    BY <1>1, <1>2 DEF TrackerInv, CacheFollows
  <1>4. Covers(cache, p.stamps[f])
    BY <1>1, <1>2 DEF WaitInv
  <1>5. p.stamps[f] \in Int
    BY PairPoint, StampIsInt
  <1> QED
    BY <1>3, <1>4, <1>5, CoveredStays

LEMMA HandlerReturnsWait ==
  ASSUME TrackerInv, WaitInv, HandlerReturns
  PROVE  WaitInv'
  <1> SUFFICES ASSUME reverse
               PROVE  /\ \A p \in pending' : \A f \in DOMAIN p.stamps \ p.missing :
                           Covers(cache', p.stamps[f])
                      /\ \A p \in written' : WaitEnds(p, LastSeen')
    BY DEF WaitInv, WaitEnds, HandlerReturns, Feed!Finish
  <1>1. /\ handling /\ handling' = FALSE /\ UNCHANGED <<reverse, frontier>>
        /\ phase # "ended" /\ PrevBlock = frontier /\ NextBlock = frontier + 1
        /\ frontier \in Heights /\ NextBlock \in Heights
    BY DEF HandlerReturns, Feed!Finish, TrackerInv, FeedInChain, PrevBlock, NextBlock
  <1>2. PICK txs \in BlockTxs : HandlePair(txs)
    BY DEF HandlerReturns
  <1> DEFINE c == ObserveBlocks(PrevBlock, NextBlock)
             new == TxPoints(NextBlock, txs)
             Q == {Settle(c, p) : p \in pending \cup new}
  <1>3. cache' = c /\ pending' = Kept(Q) /\ written' = written \cup Ready(Q)
    BY <1>2 DEF HandlePair
  <1>4. LastSeen' = frontier /\ LastSeen = NextBlock
    BY <1>1 DEF LastSeen
  <1>5. Sound(c) /\ c.heights # <<>> /\ Lowest(c) = frontier
    BY <1>1, ObservedCache DEF TrackerInv
  <1>6. ASSUME NEW p \in pending \cup new
        PROVE  /\ PointShaped(p)
               /\ \A f \in DOMAIN p.stamps \ p.missing : Covers(c, p.stamps[f])
    <2>1. PointShaped(p)
      BY <1>1, PairPoint
    <2> QED
      BY <1>1, <2>1, NotMissingIsCovered
  <1>7. /\ \A q \in Kept(Q) : q \in Q /\ q.missing # {}
        /\ \A q \in Ready(Q) : q \in Q /\ q.missing = {}
    BY DEF Kept, Ready
  <1> HIDE DEF c, new
  <1>8. ASSUME NEW q \in Kept(Q), NEW f \in DOMAIN q.stamps \ q.missing
        PROVE  Covers(c, q.stamps[f])
    <2>1. PICK p \in pending \cup new : q = Settle(c, p)
      BY <1>7
    <2>2. PointShaped(p) /\ (f \notin p.missing => Covers(c, p.stamps[f])) /\ q.stamps = p.stamps
      BY <1>6, <2>1, SettleFields
    <2>3. CanGoLower(c) /\ StillInWindow(c, p.height)
      BY <1>7, <2>1, <2>2, SettleFields
    <2> QED
      BY <2>1, <2>2, <2>3, SettleFields
  <1>9. ASSUME NEW q \in Ready(Q)
        PROVE  WaitEnds(q, frontier)
    <2>1. PICK p \in pending \cup new : q = Settle(c, p)
      BY <1>7
    <2>2. PointShaped(p) /\ q.missing = {}
      BY <1>6, <1>7, <2>1
    <2>3. q.height = p.height /\ q.stamps = p.stamps
      BY <2>1, <2>2, SettleFields
    <2>4. CASE \A f \in p.missing : Covers(c, p.stamps[f])
      <3>1. \A f \in DOMAIN p.stamps : Covers(c, p.stamps[f]) /\ p.stamps[f] \in Int
        BY <1>6, <2>2, <2>4, StampIsInt
      <3>2. \A f \in DOMAIN p.stamps : BlockTime[frontier] <= p.stamps[f]
        BY <1>5, <3>1, NotCovered
      <3> QED
        BY <2>3, <3>2 DEF WaitEnds
    <2>5. CASE ~\A f \in p.missing : Covers(c, p.stamps[f])
      <3>1. ~(CanGoLower(c) /\ StillInWindow(c, p.height))
        BY <2>1, <2>2, <2>5, SettleFields
      <3>2. p.height \in Nat /\ frontier \in Nat /\ CacheSize \in Nat /\ StopHeight \in Nat
        BY <1>1, <2>2, HeightsAreNat, CacheAssumption, TrackerAssumption DEF PointShaped
      <3> QED
        BY <1>5, <2>3, <3>1, <3>2 DEF CanGoLower, StillInWindow, WaitEnds
    <2> QED
      BY <2>4, <2>5
  <1>10. ASSUME NEW p \in written
         PROVE  WaitEnds(p, frontier)
    <2>1. PointShaped(p)
      BY DEF TrackerInv, PointsKept
    <2>2. WaitEnds(p, NextBlock)
      BY <1>1, <1>4 DEF WaitInv
    <2>3. frontier <= NextBlock
      BY <1>1, HeightsAreNat
    <2> QED
      BY <1>1, <2>1, <2>2, <2>3, WaitEndsStays
  <1> QED
    BY <1>3, <1>4, <1>8, <1>9, <1>10

\* The other steps keep the points and the last block seen.
LEMMA OtherStepsWait ==
  ASSUME TrackerInv, WaitInv,
         FirstBlock \/ HandlerCalled \/ HandlerFails \/ FeedFails \/ CloseAsked \/ UNCHANGED vars
  PROVE  WaitInv'
  <1>1. CASE HandlerFails
    BY <1>1 DEF HandlerFails, Feed!Fail, WaitInv
  <1>2. CASE FirstBlock
    <2>1. pending = {} /\ written = {} /\ UNCHANGED <<pending, written>>
      BY <1>2 DEF FirstBlock, Feed!First, TrackerInv, FeedInChain, trackerVars
    <2> QED
      BY <2>1 DEF WaitInv
  <1>3. CASE HandlerCalled \/ FeedFails \/ CloseAsked \/ UNCHANGED vars
    <2>1. UNCHANGED <<reverse, pending, written, cache>> /\ (phase = "ended" => phase' = "ended")
      BY <1>3 DEF HandlerCalled, Feed!Handle, FeedFails, Feed!Fail, CloseAsked, Feed!AskToClose,
                  Feed!Stop, vars, trackerVars
    <2>2. phase' # "ended" /\ reverse => LastSeen' = LastSeen
      <3>1. CASE HandlerCalled
        <4>1. ~handling /\ handling' /\ frontier # 0 /\ UNCHANGED reverse
              /\ frontier' = (IF reverse THEN frontier - 1 ELSE frontier + 1)
          BY <3>1 DEF HandlerCalled, Feed!Handle, Feed!Onward
        <4>2. frontier \in Int
          BY <4>1, HeightsAreNat DEF TrackerInv, FeedInChain
        <4> QED
          BY <4>1, <4>2 DEF LastSeen, NextBlock
      <3>2. CASE FeedFails \/ CloseAsked \/ UNCHANGED vars
        <4>1. UNCHANGED <<reverse, frontier>> /\ (handling' = handling \/ phase' = "ended")
          BY <3>2 DEF FeedFails, Feed!Fail, CloseAsked, Feed!AskToClose, Feed!Stop, vars
        <4> QED
          BY <4>1 DEF LastSeen, NextBlock, PrevBlock
      <3> QED
        BY <1>3, <3>1, <3>2
    <2> QED
      BY <2>1, <2>2 DEF WaitInv
  <1> QED
    BY <1>1, <1>2, <1>3

LEMMA WaitInvariance == Spec => []WaitInv
  <1>1. Init => WaitInv
    BY DEF Init, WaitInv
  <1>2. TrackerInv /\ WaitInv /\ [Next]_vars => WaitInv'
    BY HandlerReturnsWait, OtherStepsWait DEF Next
  <1> QED
    BY <1>1, <1>2, TrackerInvariance, PTL DEF Spec

LEMMA WaitsAreExact ==
  ASSUME TrackerInv, WaitInv
  PROVE  PendingExact
  <1> SUFFICES ASSUME phase # "ended", NEW p \in pending \cup written
               PROVE  p \in pending <=> reverse /\ ~WaitEnds(p, LastSeen)
    BY DEF PendingExact
  <1>1. CASE p \in pending
    <2>1. /\ reverse /\ cache.heights # <<>> /\ CanGoLower(cache)
          /\ p.height - Lowest(cache) < CacheSize
      BY <1>1 DEF TrackerInv, PendingBounded, CacheFollows, PointsKept
    <2>2. Lowest(cache) = LastSeen /\ Sound(cache) /\ PointShaped(p)
      BY <1>1, <2>1, CacheSound DEF TrackerInv, CacheFollows, PointsKept
    <2>3. PICK f \in p.missing : ~Covers(cache, p.stamps[f])
      BY <1>1 DEF TrackerInv, PendingBounded
    <2>4. f \in DOMAIN p.stamps /\ p.stamps[f] \in Int
      BY <2>2, StampIsInt DEF PointShaped
    <2>5. ~(BlockTime[LastSeen] <= p.stamps[f]) /\ LastSeen \in Heights
      BY <2>1, <2>2, <2>3, <2>4, NotCovered
    <2>6. /\ p.height \in Nat /\ LastSeen \in Nat /\ CacheSize \in Nat /\ StopHeight \in Nat
      BY <2>2, <2>5, HeightsAreNat, CacheAssumption, TrackerAssumption DEF PointShaped
    <2>7. ~(p.height - LastSeen >= CacheSize) /\ ~(StopHeight # 0 /\ LastSeen < StopHeight)
      BY <2>1, <2>2, <2>6 DEF CanGoLower
    <2> QED
      BY <1>1, <2>1, <2>4, <2>5, <2>7 DEF WaitEnds
  <1>2. CASE p \in written
    <2>1. p \notin pending
      BY <1>2 DEF TrackerInv, PendingBounded, PointsKept
    <2> QED
      BY <1>2, <2>1 DEF WaitInv
  <1> QED
    BY <1>1, <1>2

\* Which points Flush keeps depends on how far down the run is and not on the calls
\* that led there (rfq_points.go 70-107).
THEOREM WaitsStayExact == Spec => []PendingExact
  BY WaitsAreExact, TrackerInvariance, WaitInvariance, PTL

\* The number of blocks below its own pair that a point waits for: the last of them is
\* the first that reaches all its timestamps, or the last that the cache holds with it.
Lag(h, stamps) ==
  CHOOSE n \in 0 .. CacheSize - 1 :
    \A low \in Heights : low < h =>
      (h - 1 - n >= low <=> \/ \A f \in DOMAIN stamps : BlockTime[low] <= stamps[f]
                            \/ h - low >= CacheSize)

LEMMA LagEndsWait ==
  ASSUME NEW p, PointShaped(p)
  PROVE  /\ Lag(p.height, p.stamps) \in 0 .. CacheSize - 1
         /\ \A low \in Heights : low < p.height =>
              (WaitEnds(p, low) <=> \/ p.height - 1 - Lag(p.height, p.stamps) >= low
                                    \/ StopHeight # 0 /\ low < StopHeight)
  <1> DEFINE h == p.height
             Reached(low) == \A f \in DOMAIN p.stamps : BlockTime[low] <= p.stamps[f]
             Lags == {n \in Nat : n >= CacheSize - 1 \/ (h - 1 - n >= 1 /\ Reached(h - 1 - n))}
  <1>1. h \in Nat /\ h \in Heights /\ CacheSize \in Nat \ {0} /\ StopHeight \in Nat
    BY HeightsAreNat, CacheAssumption, TrackerAssumption DEF PointShaped
  <1>2. PICK lag \in Lags : \A n \in Lags : lag <= n
    <2>1. CacheSize - 1 \in Lags
      BY <1>1
    <2>2. Lags \in SUBSET Nat
      OBVIOUS
    <2> HIDE DEF Lags
    <2> QED
      BY <2>1, <2>2, LeastNat
  <1>3. lag \in 0 .. CacheSize - 1
    <2>1. CacheSize - 1 \in Lags
      BY <1>1
    <2> QED
      BY <1>1, <1>2, <2>1
  <1>4. ASSUME NEW low \in Heights, low < h
        PROVE  Reached(low) \/ h - low >= CacheSize <=> h - 1 - low >= lag
    <2>1. low \in Nat \ {0} /\ h - 1 - low \in Nat /\ h - 1 - (h - 1 - low) = low
      BY <1>1, <1>4, HeightsAreNat
    <2>2. Reached(low) \/ h - low >= CacheSize <=> h - 1 - low \in Lags
      BY <1>1, <2>1
    <2>3. ASSUME h - 1 - low >= lag PROVE h - 1 - low \in Lags
      <3>1. CASE lag >= CacheSize - 1
        BY <1>1, <1>3, <2>1, <2>3, <3>1
      <3>2. CASE h - 1 - lag >= 1 /\ Reached(h - 1 - lag)
        <4>1. h - 1 - lag \in Heights /\ low <= h - 1 - lag
          BY <1>1, <1>3, <2>1, <2>3, <3>2, HeightsBelow
        <4>2. /\ BlockTime[low] \in Nat /\ BlockTime[h - 1 - lag] \in Nat
              /\ BlockTime[low] <= BlockTime[h - 1 - lag]
          BY <1>4, <4>1, TimesGrow
        <4>3. \A f \in DOMAIN p.stamps : p.stamps[f] \in Int
          BY StampIsInt
        <4>4. Reached(low)
          BY <3>2, <4>2, <4>3
        <4> QED
          BY <2>2, <4>4
      <3> QED
        BY <1>2, <3>1, <3>2
    <2> QED
      BY <1>2, <2>2, <2>3
  <1> DEFINE Fits(n) ==
               \A low \in Heights : low < h =>
                 (h - 1 - n >= low <=> \/ \A f \in DOMAIN p.stamps : BlockTime[low] <= p.stamps[f]
                                       \/ h - low >= CacheSize)
  <1>5. Fits(lag)
    <2>1. \A low \in Heights : h - 1 - low >= lag <=> h - 1 - lag >= low
      BY <1>1, <1>3, HeightsAreNat
    <2> QED
      BY <1>4, <2>1
  <1>6. Lag(h, p.stamps) \in 0 .. CacheSize - 1 /\ Fits(Lag(h, p.stamps))
    <2>1. Lag(h, p.stamps) = CHOOSE n \in 0 .. CacheSize - 1 : Fits(n)
      BY DEF Lag
    <2> HIDE DEF Fits
    <2> QED
      BY <1>3, <1>5, <2>1
  <1> QED
    BY <1>6 DEF WaitEnds

\* What BlockHandler takes for granted of Flush in a backfill: a transaction is pending
\* until as many blocks below its own pair are known as it carries timestamps for.
PendingByLag ==
  phase # "ended" /\ reverse =>
    pending = {p \in pending \cup written :
                 ~(\/ p.height - 1 - Lag(p.height, p.stamps) >= LastSeen
                   \/ StopHeight # 0 /\ LastSeen < StopHeight)}

LEMMA LagsFit ==
  ASSUME TrackerInv, PendingExact
  PROVE  PendingByLag
  <1> SUFFICES ASSUME phase # "ended", reverse, NEW p \in pending \cup written
               PROVE  p \in pending <=> ~(\/ p.height - 1 - Lag(p.height, p.stamps) >= LastSeen
                                          \/ StopHeight # 0 /\ LastSeen < StopHeight)
    BY DEF PendingByLag
  <1>1. PointShaped(p) /\ Id(p) \in handled /\ Id(p)[1] = p.height
    BY DEF TrackerInv, PointsKept, OnePointEach, Ids, Id
  <1>2. LastSeen \in Heights /\ LastSeen < p.height
    <2>1. frontier \in Heights
      BY <1>1 DEF TrackerInv, FeedInChain
    <2>2. LastSeen \in Heights
      BY <2>1 DEF TrackerInv, FeedInChain, LastSeen
    <2>3. p.height \in Heights /\ p.height > LastSeen
      BY <1>1 DEF TrackerInv, HandledBehind
    <2> QED
      BY <2>2, <2>3, HeightsAreNat
  <1> QED
    BY <1>1, <1>2, LagEndsWait DEF PendingExact

\* A backfill keeps its transactions pending the way HandleBackward of BlockHandler
\* does (rfq_points.go 70-107).
THEOREM PendingFollowsLag == Spec => []PendingByLag
  BY LagsFit, WaitsStayExact, TrackerInvariance, PTL

=============================================================================
