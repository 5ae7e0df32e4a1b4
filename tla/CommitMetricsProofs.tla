------------------------ MODULE CommitMetricsProofs ------------------------
(***************************************************************************)
(* The computations over the signatures of a commit agree with one         *)
(* another, for every set of validators and every timestamps.              *)
(***************************************************************************)
EXTENDS CommitMetrics, MinMaxTheorems

-----------------------------------------------------------------------------
(* The invariant: the report is the one of some earliest signature. *)

CommitTypeOK ==
  /\ DOMAIN signatures \subseteq Validators /\ activeSet \subseteq Validators
  /\ signatures \in [DOMAIN signatures -> Signature]

ReportOf(first) ==
  /\ Signed # {}
  /\ Others # {} => first \in Earliest
  /\ DOMAIN report = Present \cup activeSet
  /\ \A v \in Present :
       /\ report[v].status = signatures[v].flag
       /\ report[v].relative = RelativeDelay(v)
       /\ report[v].absolute = Time(v) - FirstTime
       /\ report[v].distance = Distance(v)
       /\ v = proposer /\ Others # {} => report[v].proposerDelay = Time(v) - Time(first)
       /\ report[v].reaction = IF v \in {proposer, first} \/ Others = {} THEN 0
                               ELSE Time(v) - Time(first)
  /\ \A v \in activeSet \ Present : report[v].status = "absent"

CommitInv == CommitTypeOK /\ (report = <<>> \/ \E first : ReportOf(first))

LEMMA CommitInvariance == CommitSpec => []CommitInv
  <1>1. CommitInit => CommitInv
    BY DEF CommitInit, CommitInv, CommitTypeOK
  <1>2. CommitInv /\ [Report]_commitVars => CommitInv'
    <2> SUFFICES ASSUME CommitInv, [Report]_commitVars PROVE CommitInv'
      OBVIOUS
    <2>1. /\ UNCHANGED <<signatures, proposer, activeSet>>
          /\ Signed' = Signed /\ Present' = Present /\ Others' = Others /\ FirstTime' = FirstTime
          /\ Earliest' = Earliest
          /\ \A v : Time(v)' = Time(v) /\ RelativeDelay(v)' = RelativeDelay(v)
      BY DEF commitVars, Report, Signed, Present, Others, FirstTime, Earliest, Time, RelativeDelay
    <2>2. \A v : Distance(v)' = Distance(v)
      <3>1. Delayed' = Delayed
        BY <2>1 DEF Delayed
      <3>2. DelaySum' = DelaySum
        BY <2>1, <3>1 DEF DelaySum
      <3>3. Spread' = Spread
        BY <2>1, <3>1, <3>2 DEF Spread
      <3> QED
        BY <2>1, <3>1, <3>2, <3>3 DEF Distance
    <2>3. CASE UNCHANGED report
      BY <2>1, <2>2, <2>3 DEF CommitInv, CommitTypeOK, ReportOf
    <2>4. CASE Report
      <3>1. PICK first : /\ Signed # {} /\ (Others # {} => first \in Earliest)
                         /\ report' = [v \in Present \cup activeSet |->
                                         IF v \in Present THEN Metrics(v, first) ELSE Missing]
        BY <2>4 DEF Report
      <3>2. ReportOf(first)'
        BY <2>1, <2>2, <3>1 DEF ReportOf, Metrics, Missing
      <3> QED
        BY <2>1, <3>2 DEF CommitInv, CommitTypeOK
    <2> QED
      BY <2>3, <2>4 DEF commitVars
  <1> QED
    BY <1>1, <1>2, PTL DEF CommitSpec

-----------------------------------------------------------------------------

\* Once something is reported, it is the report of some earliest signature.
LEMMA SomeReport ==
  ASSUME CommitInv, Reported
  PROVE  \E first : ReportOf(first)
  <1>1. DOMAIN <<>> = {}
    OBVIOUS
  <1> QED
    BY <1>1 DEF CommitInv, Reported

LEMMA TimesAreInt ==
  ASSUME CommitTypeOK
  PROVE  /\ \A v \in DOMAIN signatures : Time(v) \in Int
         /\ Signed \subseteq Present /\ Present \subseteq DOMAIN signatures
  BY CommitAssumption DEF CommitTypeOK, Signature, Time, Signed, Present

\* The first and the last signature exist.
LEMMA SignedTimes ==
  ASSUME CommitTypeOK, Signed # {}
  PROVE  LET T == {Time(v) : v \in Signed}
         IN /\ T \in SUBSET Int /\ T # {}
            /\ IsLeast(FirstTime, T) /\ FirstTime \in Int
            /\ IsGreatest(Max(T), T) /\ Max(T) \in Int
  <1> DEFINE T == {Time(v) : v \in Signed}
  <1>1. T \in SUBSET Int /\ T # {}
    BY TimesAreInt
  <1>2. IsFiniteSet(T)
    <2>1. IsFiniteSet(Signed)
      BY CommitAssumption, TimesAreInt, FS_Subset DEF CommitTypeOK
    <2>2. [v \in Signed |-> Time(v)] \in Surjection(Signed, T)
      BY DEF Surjection
    <2> QED
      BY <2>1, <2>2, FS_Surjection
  <1>3. IsLeast(FirstTime, T)
    <2>1. PICK m : IsLeast(m, T)
      <3> HIDE DEF T
      <3> QED
        BY <1>1, <1>2, FiniteHasLeast
    <2>2. Min(T) = m
      <3> HIDE DEF T
      <3> QED
        BY <1>1, <2>1, LeastIsMin
    <2> QED
      BY <2>1, <2>2 DEF FirstTime
  <1>4. IsGreatest(Max(T), T)
    <2> HIDE DEF T
    <2>1. PICK m : IsGreatest(m, T)
      BY <1>1, <1>2, FiniteHasGreatest
    <2> QED
      BY <1>1, <2>1, GreatestIsMax
  <1> QED
    BY <1>1, <1>3, <1>4 DEF IsLeast, IsGreatest

-----------------------------------------------------------------------------
(* Sums over finite sets.  A sum is a recursive function, of which the     *)
(* provers know nothing until it is shown to exist; there is no smallest   *)
(* size of sets for which it would not.                                    *)

Pick(S) == CHOOSE x \in S : TRUE

Rest(S) == S \ {Pick(S)}

\* What the sum over a set is, given the sums over smaller ones.
SumStep(f, g, S) == IF S = {} THEN 0 ELSE f[Pick(S)] + g[Rest(S)]

IsSum(g, f, D) == g = [S \in SUBSET D |-> SumStep(f, g, S)]

UpTo(D, n) == {S \in SUBSET D : Cardinality(S) <= n}

LEMMA RestSmaller ==
  ASSUME NEW D, IsFiniteSet(D), NEW S \in SUBSET D, S # {}
  PROVE  /\ Pick(S) \in S /\ Rest(S) \in SUBSET D /\ S = Rest(S) \cup {Pick(S)}
         /\ Pick(S) \notin Rest(S)
         /\ Cardinality(S) \in Nat /\ Cardinality(Rest(S)) = Cardinality(S) - 1
         /\ Cardinality(Rest(S)) \in Nat
  <1>1. Pick(S) \in S
    BY DEF Pick
  <1>2. IsFiniteSet(S) /\ IsFiniteSet(Rest(S))
    BY FS_Subset DEF Rest
  <1>3. Cardinality(Rest(S)) = Cardinality(S) - 1
    BY <1>1, <1>2, FS_RemoveElement DEF Rest
  <1> QED
    BY <1>1, <1>2, <1>3, FS_CardinalityType DEF Rest

LEMMA SumExists ==
  ASSUME NEW D, IsFiniteSet(D), NEW f
  PROVE  \E g : IsSum(g, f, D)
  <1> DEFINE Defined(n) == \E g : g = [S \in UpTo(D, n) |-> SumStep(f, g, S)]
             Bad == {n \in Nat : ~Defined(n)}
  <1>1. Bad = {}
    <2> SUFFICES ASSUME Bad # {} PROVE FALSE
      OBVIOUS
    <2>1. PICK n \in Bad : \A k \in Bad : n <= k
      <3> HIDE DEF Bad
      <3>1. Bad \in SUBSET Nat
        BY DEF Bad
      <3> QED
        BY <3>1, LeastNat
    <2>2. CASE n = 0
      <3> DEFINE g == [S \in UpTo(D, n) |-> 0]
      <3>1. ASSUME NEW S \in UpTo(D, n) PROVE S = {}
        BY <2>2, <3>1, RestSmaller DEF UpTo
      <3>2. g = [S \in UpTo(D, n) |-> SumStep(f, g, S)]
        BY <3>1 DEF SumStep
      <3> QED
        BY <3>2
    <2>3. CASE n # 0
      <3>1. n - 1 \in Nat /\ Defined(n - 1)
        BY <2>1, <2>3
      <3>2. PICK g : g = [S \in UpTo(D, n - 1) |-> SumStep(f, g, S)]
        BY <3>1
      <3> DEFINE h == [S \in UpTo(D, n) |-> SumStep(f, g, S)]
      <3>3. ASSUME NEW S \in UpTo(D, n), S # {} PROVE h[Rest(S)] = g[Rest(S)]
        <4>1. Rest(S) \in UpTo(D, n - 1) /\ Rest(S) \in UpTo(D, n)
          BY <3>3, RestSmaller DEF UpTo
        <4>2. g[Rest(S)] = SumStep(f, g, Rest(S))
          BY <3>2, <4>1, Zenon
        <4> QED
          BY <4>1, <4>2
      <3>4. h = [S \in UpTo(D, n) |-> SumStep(f, h, S)]
        <4>1. ASSUME NEW S \in UpTo(D, n) PROVE SumStep(f, g, S) = SumStep(f, h, S)
          BY <3>3 DEF SumStep
        <4> HIDE DEF h
        <4>2. h = [S \in UpTo(D, n) |-> SumStep(f, g, S)]
          BY DEF h
        <4> QED
          BY <4>1, <4>2, Zenon
      <3> QED
        BY <3>4
    <2> QED
      BY <2>2, <2>3
  <1>2. Cardinality(D) \in Nat /\ UpTo(D, Cardinality(D)) = SUBSET D
    BY FS_CardinalityType, FS_Subset DEF UpTo
  <1>3. Defined(Cardinality(D))
    BY <1>1, <1>2
  <1> QED
    BY <1>2, <1>3 DEF IsSum

\* The function that FoldFunction chooses.
SumUp(f) == CHOOSE g : IsSum(g, f, DOMAIN f)

LEMMA SumUnfolds ==
  ASSUME NEW f, IsFiniteSet(DOMAIN f)
  PROVE  /\ SumOf(f) = SumUp(f)[DOMAIN f]
         /\ \A S \in SUBSET DOMAIN f : SumUp(f)[S] = SumStep(f, SumUp(f), S)
  <1>1. IsSum(SumUp(f), f, DOMAIN f)
    BY SumExists DEF SumUp
  <1>2. SumOf(f) = SumUp(f)[DOMAIN f]
    BY DEF SumOf, FoldFunction, FoldFunctionOnSet, MapThenFoldSet, SumUp, IsSum, SumStep, Rest, Pick
  <1> QED
    BY <1>1, <1>2, Zenon DEF IsSum

LEMMA SumLinear ==
  ASSUME NEW f, IsFiniteSet(DOMAIN f), \A x \in DOMAIN f : f[x] \in Int, NEW a \in Int, NEW c \in Int
  PROVE  /\ SumOf(f) \in Int
         /\ SumOf([x \in DOMAIN f |-> a * f[x] - c]) = a * SumOf(f) - c * Cardinality(DOMAIN f)
  <1> DEFINE D == DOMAIN f
             F == [x \in D |-> a * f[x] - c]
             g == SumUp(f)
             G == SumUp(F)
             Fits(S) == g[S] \in Int /\ G[S] = a * g[S] - c * Cardinality(S)
             Bad == {n \in Nat : \E S \in SUBSET D : Cardinality(S) = n /\ ~Fits(S)}
  <1>1. /\ SumOf(f) = g[D] /\ SumOf(F) = G[D]
        /\ \A S \in SUBSET D : g[S] = SumStep(f, g, S) /\ G[S] = SumStep(F, G, S)
    <2>1. DOMAIN F = D
      OBVIOUS
    <2> HIDE DEF F
    <2> QED
      BY <2>1, SumUnfolds
  <1>2. Bad = {}
    <2> SUFFICES ASSUME Bad # {} PROVE FALSE
      OBVIOUS
    <2>1. PICK n \in Bad : \A k \in Bad : n <= k
      <3> HIDE DEF Bad
      <3>1. Bad \in SUBSET Nat
        BY DEF Bad
      <3> QED
        BY <3>1, LeastNat
    <2>2. PICK S \in SUBSET D : Cardinality(S) = n /\ ~Fits(S)
      BY <2>1
    <2>3. CASE S = {}
      <3>1. g[S] = 0 /\ G[S] = 0 /\ Cardinality(S) = 0
        BY <1>1, <2>3, FS_EmptySet DEF SumStep
      <3> QED
        BY <2>2, <3>1
    <2>4. CASE S # {}
      <3>1. /\ Pick(S) \in D /\ Rest(S) \in SUBSET D
            /\ n \in Nat /\ Cardinality(Rest(S)) = n - 1 /\ n - 1 \in Nat
        BY <2>2, <2>4, RestSmaller
      <3>2. Fits(Rest(S))
        <4>1. n - 1 \notin Bad
          BY <2>1, <3>1
        <4> QED
          BY <3>1, <4>1
      <3>3. g[S] = f[Pick(S)] + g[Rest(S)] /\ G[S] = (a * f[Pick(S)] - c) + G[Rest(S)]
        BY <1>1, <2>4, <3>1 DEF SumStep
      <3> DEFINE x == f[Pick(S)]
                 y == g[Rest(S)]
      <3>4. x \in Int /\ y \in Int /\ G[Rest(S)] = a * y - c * (n - 1)
        BY <3>1, <3>2
      <3>5. a * (x + y) - c * n = (a * x - c) + (a * y - c * (n - 1))
        <4> HIDE DEF x, y
        <4> QED
          BY <3>1, <3>4
      <3> QED
        BY <2>2, <3>1, <3>3, <3>4, <3>5
    <2> QED
      BY <2>3, <2>4
  <1>3. Fits(D)
    BY <1>2, FS_CardinalityType
  <1> QED
    BY <1>1, <1>3

-----------------------------------------------------------------------------
(* Theorems. *)

LEMMA DisjointSizes ==
  ASSUME NEW S, IsFiniteSet(S), NEW T, IsFiniteSet(T), S \cap T = {}
  PROVE  Cardinality(S \cup T) = Cardinality(S) + Cardinality(T)
  <1>1. Cardinality(S \cup T) = Cardinality(S) + Cardinality(T) - Cardinality(S \cap T)
    BY FS_Union, Zenon
  <1>2. Cardinality(S \cap T) = 0
    BY FS_EmptySet
  <1> QED
    BY <1>1, <1>2, FS_CardinalityType

\* The per-validator points and the totals of a block count the same votes, up to the
\* absent ones that joined or left in between (block_handler.go 735-753, 962-1013).
THEOREM CountsOfStatusesAgree == CommitSpec => []StatusesAgree
  <1>1. ASSUME CommitInv PROVE StatusesAgree
    <2> SUFFICES ASSUME Reported
                 PROVE  /\ \A flag \in {"commit", "nil"} : StatusCount(flag) = FlagCount(flag)
                        /\ StatusCount("absent") + Cardinality(LeftAbsent)
                             = FlagCount("absent") + Cardinality(Joined)
      BY DEF StatusesAgree
    <2>1. PICK first : ReportOf(first)
      BY <1>1, SomeReport
    <2>2. /\ DOMAIN report = Present \cup activeSet
          /\ \A v \in Present : report[v].status = signatures[v].flag
          /\ \A v \in activeSet \ Present : report[v].status = "absent"
          /\ Present = {v \in DOMAIN signatures : signatures[v].flag # "absent"}
      BY <2>1 DEF ReportOf, Present
    <2>3. ASSUME NEW flag \in {"commit", "nil"} PROVE StatusCount(flag) = FlagCount(flag)
      <3>1. {v \in DOMAIN report : report[v].status = flag}
              = {v \in DOMAIN signatures : signatures[v].flag = flag}
        BY <2>2
      <3> QED
        BY <3>1 DEF StatusCount, FlagCount
    <2>4. StatusCount("absent") + Cardinality(LeftAbsent) = FlagCount("absent") + Cardinality(Joined)
      <3> DEFINE stayed == {v \in activeSet \cap DOMAIN signatures : signatures[v].flag = "absent"}
      <3>1. /\ {v \in DOMAIN report : report[v].status = "absent"} = stayed \cup Joined
            /\ {v \in DOMAIN signatures : signatures[v].flag = "absent"} = stayed \cup LeftAbsent
            /\ stayed \cap Joined = {} /\ stayed \cap LeftAbsent = {}
        BY <2>2 DEF Joined, LeftAbsent
      <3>2. IsFiniteSet(stayed) /\ IsFiniteSet(Joined) /\ IsFiniteSet(LeftAbsent)
        <4>1. stayed \subseteq Validators /\ Joined \subseteq Validators /\ LeftAbsent \subseteq Validators
          BY <1>1 DEF CommitInv, CommitTypeOK, Joined, LeftAbsent
        <4> QED
          BY <4>1, CommitAssumption, FS_Subset
      <3>3. /\ StatusCount("absent") = Cardinality(stayed) + Cardinality(Joined)
            /\ FlagCount("absent") = Cardinality(stayed) + Cardinality(LeftAbsent)
            /\ Cardinality(stayed) \in Nat /\ Cardinality(Joined) \in Nat
            /\ Cardinality(LeftAbsent) \in Nat
        <4> HIDE DEF stayed
        <4>1. Cardinality(stayed \cup Joined) = Cardinality(stayed) + Cardinality(Joined)
          BY <3>1, <3>2, DisjointSizes
        <4>2. Cardinality(stayed \cup LeftAbsent) = Cardinality(stayed) + Cardinality(LeftAbsent)
          BY <3>1, <3>2, DisjointSizes
        <4> QED
          BY <3>1, <3>2, <4>1, <4>2, FS_CardinalityType DEF StatusCount, FlagCount
      <3> QED
        BY <3>3
    <2> QED
      BY <2>3, <2>4
  <1> QED
    BY <1>1, CommitInvariance, PTL

\* The round lasts as long as the slowest signer is late, and some signer is not late
\* at all (block_handler.go 695-733, 841-857).
THEOREM SlowestEndsRound == CommitSpec => []RoundIsLargestDelay
  <1>1. ASSUME CommitInv PROVE RoundIsLargestDelay
    <2> SUFFICES ASSUME Reported
                 PROVE  LET delays == {report[v].relative : v \in Signed}
                        IN Min(delays) = 0 /\ Max(delays) = RoundDuration
      BY DEF RoundIsLargestDelay
    <2> DEFINE delays == {report[v].relative : v \in Signed}
               T == {Time(v) : v \in Signed}
    <2>1. PICK first : ReportOf(first)
      BY <1>1, SomeReport
    <2>2. /\ Signed # {} /\ T \in SUBSET Int
          /\ IsLeast(FirstTime, T) /\ FirstTime \in Int
          /\ IsGreatest(Max(T), T) /\ Max(T) \in Int
      BY <1>1, <2>1, SignedTimes DEF ReportOf, CommitInv
    <2>3. \A v \in Signed : report[v].relative = Time(v) - FirstTime /\ Time(v) \in Int
      BY <1>1, <2>1, TimesAreInt DEF ReportOf, RelativeDelay, CommitInv
    <2>4. delays \in SUBSET Int
      BY <2>2, <2>3
    <2>5. IsLeast(0, delays)
      BY <2>2, <2>3 DEF IsLeast
    <2>6. RoundDuration = Max(T) - FirstTime
      BY <2>2 DEF RoundDuration
    <2>7. IsGreatest(Max(T) - FirstTime, delays)
      <3>1. PICK last \in Signed : Time(last) = Max(T)
        BY <2>2 DEF IsGreatest
      <3>2. Max(T) - FirstTime \in delays
        BY <2>3, <3>1
      <3>3. \A v \in Signed : Time(v) <= Max(T)
        BY <2>2 DEF IsGreatest
      <3>4. \A v \in Signed : report[v].relative <= Max(T) - FirstTime
        <4> HIDE DEF T
        <4> QED
          BY <2>2, <2>3, <3>3
      <3> QED
        BY <3>2, <3>4 DEF IsGreatest
    <2> QED
      <3> HIDE DEF delays
      <3> QED
        BY <2>4, <2>5, <2>6, <2>7, LeastIsMin, GreatestIsMax DEF delays
  <1> QED
    BY <1>1, CommitInvariance, PTL

\* Reaction times and delays differ by the lead of the proposer, whichever of several
\* earliest signatures the sort puts first (block_handler.go 944-1000).
THEOREM ReactionsAddUp == CommitSpec => []DelaysAddUp
  <1>1. ASSUME CommitInv PROVE DelaysAddUp
    <2> DEFINE lead == IF proposer \in Signed /\ report[proposer].proposerDelay < 0
                       THEN -report[proposer].proposerDelay ELSE 0
    <2> SUFFICES ASSUME Reported, Others # {}, NEW v \in Others
                 PROVE  report[v].reaction >= 0 /\ report[v].absolute = report[v].reaction + lead
      BY DEF DelaysAddUp
    <2>1. PICK first : ReportOf(first)
      BY <1>1, SomeReport
    <2>2. /\ first \in Others /\ first # proposer /\ v # proposer
          /\ \A w \in Others : Time(first) <= Time(w)
      BY <2>1 DEF ReportOf, Earliest, Others
    <2>3. Signed \subseteq Present /\ \A w \in Signed : Time(w) \in Int
      BY <1>1, TimesAreInt DEF CommitInv
    <2>4. /\ FirstTime \in Int
          /\ \E w \in Signed : FirstTime = Time(w)
          /\ \A w \in Signed : FirstTime <= Time(w)
      BY <1>1, <2>1, SignedTimes DEF ReportOf, CommitInv, IsLeast
    <2>5. /\ report[v].reaction = Time(v) - Time(first)
          /\ report[v].absolute = Time(v) - FirstTime
      BY <2>1, <2>2, <2>3 DEF ReportOf, Others
    <2>6. proposer \in Signed => report[proposer].proposerDelay = Time(proposer) - Time(first)
      BY <2>1, <2>3 DEF ReportOf
    <2>7. lead = Time(first) - FirstTime
      BY <2>2, <2>3, <2>4, <2>6 DEF Others
    <2> QED
      BY <2>2, <2>3, <2>4, <2>5, <2>7 DEF Others
  <1> QED
    BY <1>1, CommitInvariance, PTL

\* The distances from the mean cancel out over the delayed signers, and a later signer
\* is never reported as closer to the early end (block_handler.go 859-942).
THEOREM DistancesCancel == CommitSpec => []DistancesBalance
  <1>1. ASSUME CommitInv PROVE DistancesBalance
    <2> DEFINE late == {v \in Signed : report[v].absolute > 0}
               delays == [v \in Delayed |-> RelativeDelay(v)]
               n == Cardinality(Delayed)
    <2> SUFFICES ASSUME Reported
                 PROVE  /\ SumOf([v \in late |-> report[v].distance]) = 0
                        /\ \A v, w \in Signed :
                             report[v].absolute < report[w].absolute
                               => report[v].distance <= report[w].distance
      BY DEF DistancesBalance
    <2>1. PICK first : ReportOf(first)
      BY <1>1, SomeReport
    <2>2. /\ Signed \subseteq Present /\ IsFiniteSet(Signed)
          /\ FirstTime \in Int /\ \A w \in Signed : Time(w) \in Int /\ FirstTime <= Time(w)
      <3>1. IsFiniteSet(Signed)
        BY <1>1, CommitAssumption, TimesAreInt, FS_Subset DEF CommitTypeOK, CommitInv
      <3> QED
        BY <1>1, <2>1, <3>1, TimesAreInt, SignedTimes DEF ReportOf, CommitInv, IsLeast
    <2>3. \A v \in Signed : /\ report[v].absolute = RelativeDelay(v) /\ RelativeDelay(v) \in Nat
                            /\ report[v].distance = Distance(v)
      BY <2>1, <2>2 DEF ReportOf, RelativeDelay
    <2>4. late = Delayed /\ IsFiniteSet(Delayed) /\ DOMAIN delays = Delayed
          /\ \A v \in Delayed : delays[v] = RelativeDelay(v) /\ delays[v] \in Int
      <3>1. late = Delayed
        BY <2>3 DEF Delayed
      <3> QED
        BY <2>2, <2>3, <3>1, FS_Subset DEF Delayed
    <2>5. /\ DelaySum \in Int /\ n \in Nat
          /\ \A a, c \in Int : SumOf([v \in Delayed |-> a * delays[v] - c]) = a * DelaySum - c * n
      <3>1. DelaySum = SumOf(delays)
        BY DEF DelaySum
      <3>2. /\ SumOf(delays) \in Int
            /\ \A a, c \in Int : SumOf([v \in DOMAIN delays |-> a * delays[v] - c])
                                 = a * SumOf(delays) - c * Cardinality(DOMAIN delays)
        <4> HIDE DEF delays
        <4>1. IsFiniteSet(DOMAIN delays) /\ \A v \in DOMAIN delays : delays[v] \in Int
          BY <2>4
        <4>2. 0 \in Int
          OBVIOUS
        <4> QED
          BY <4>1, <4>2, SumLinear, Zenon
      <3>3. n \in Nat
        BY <2>4, FS_CardinalityType
      <3> HIDE DEF delays, n
      <3>4. DOMAIN delays = Delayed /\ Cardinality(DOMAIN delays) = n
        BY <2>4 DEF n
      <3> QED
        BY <3>1, <3>2, <3>3, <3>4, Zenon
    <2>6. CASE Spread = 0
      <3>1. \A v \in Signed : report[v].distance = 0
        BY <2>3, <2>6 DEF Distance
      <3>2. [v \in late |-> report[v].distance] = [v \in Delayed |-> 0 * delays[v] - 0]
        BY <2>4, <3>1 DEF Delayed
      <3>3. SumOf([v \in Delayed |-> 0 * delays[v] - 0]) = 0 * DelaySum - 0 * n
        BY <2>5
      <3>4. 0 * DelaySum - 0 * n = 0
        BY <2>5
      <3>5. SumOf([v \in late |-> report[v].distance]) = 0
        BY <3>2, <3>3, <3>4, Zenon
      <3> QED
        BY <3>1, <3>5
    <2>7. CASE Spread # 0
      <3>1. \A v \in Signed : report[v].distance = n * RelativeDelay(v) - DelaySum
        BY <2>3, <2>7 DEF Distance
      <3>2. [v \in late |-> report[v].distance] = [v \in Delayed |-> n * delays[v] - DelaySum]
        BY <2>4, <3>1 DEF Delayed
      <3>3. SumOf([v \in Delayed |-> n * delays[v] - DelaySum]) = n * DelaySum - DelaySum * n
        BY <2>5
      <3>4. ASSUME NEW v \in Signed, NEW w \in Signed, report[v].absolute < report[w].absolute
            PROVE  report[v].distance <= report[w].distance
        <4>1. RelativeDelay(v) \in Nat /\ RelativeDelay(w) \in Nat /\ RelativeDelay(v) <= RelativeDelay(w)
          BY <2>3, <3>4
        <4>2. n * RelativeDelay(v) <= n * RelativeDelay(w)
          BY <2>5, <4>1
        <4> QED
          BY <2>5, <3>1, <4>1, <4>2
      <3>5. n * DelaySum - DelaySum * n = 0
        BY <2>5
      <3>6. SumOf([v \in late |-> report[v].distance]) = 0
        BY <3>2, <3>3, <3>5, Zenon
      <3> QED
        BY <3>4, <3>6
    <2> QED
      BY <2>6, <2>7
  <1> QED
    BY <1>1, CommitInvariance, PTL

=============================================================================
