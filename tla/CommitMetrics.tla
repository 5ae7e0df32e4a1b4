---------------------------- MODULE CommitMetrics ----------------------------
(***************************************************************************)
(* lastCommitMetrics and its helpers in pkg/coremon/block_handler.go: what *)
(* is reported of every validator from the signatures of the last commit   *)
(* of a block, and of the block as a whole.                                *)
(*                                                                         *)
(* Times are integers.  Standard deviations are kept scaled by n, the      *)
(* number of delays they are taken of, to stay within the integers: Spread *)
(* is n^2 times the variance, a distance is n * stdDev times the code's.   *)
(***************************************************************************)
EXTENDS Integers, FiniteSetsExt

CONSTANTS
  Validators,
  Times        \* timestamps of the signatures

ASSUME CommitAssumption == IsFiniteSet(Validators) /\ Times \subseteq Int

VARIABLES
  signatures, \* LastCommit.Signatures by validator of the previous height
  proposer,   \* Header.ProposerAddress
  activeSet,  \* the validators at the height of the block
  report      \* the map that lastCommitMetrics returns

commitVars == <<signatures, proposer, activeSet, report>>

Signature == [flag : {"commit", "nil"}, time : Times] \cup {[flag |-> "absent", time |-> 0]}

Time(v) == signatures[v].time

-----------------------------------------------------------------------------
(* Delays. *)

\* The validators of computeSortedValidatorSigs.
Signed == {v \in DOMAIN signatures : signatures[v].flag = "commit"}

\* Mutant: nil votes are left out like absent ones.
PresentSigned == Signed

Present == {v \in DOMAIN signatures : signatures[v].flag # "absent"}

FirstTime == Min({Time(v) : v \in Signed})

\* computeRelativeDelays; a validator missing in the map has delay 0.
RelativeDelay(v) == IF v \in Signed THEN Time(v) - FirstTime ELSE 0

\* Mutant: the zero delays are not left out.
DelayedAll == Signed

Delayed == {v \in Signed : RelativeDelay(v) # 0}

SumOf(f) == FoldFunction(+, 0, f)

DelaySum == SumOf([v \in Delayed |-> RelativeDelay(v)])

\* computeStdDevOfDelays: zero for fewer than two delays.
Spread ==
  LET n == Cardinality(Delayed)
      squares == [v \in Delayed |-> RelativeDelay(v) * RelativeDelay(v)]
  IN IF n < 2 THEN 0 ELSE n * SumOf(squares) - DelaySum * DelaySum

\* computeStdDevDistance.
Distance(v) == IF Spread = 0 THEN 0 ELSE Cardinality(Delayed) * RelativeDelay(v) - DelaySum

\* Mutant: votes for nil count.
RoundDurationAll ==
  IF Present = {} THEN 0 ELSE Max({Time(v) : v \in Present}) - Min({Time(v) : v \in Present})

\* lastCommitRoundDuration.
RoundDuration == IF Signed = {} THEN 0 ELSE Max({Time(v) : v \in Signed}) - FirstTime

\* blockSignaturesStats.
FlagCount(flag) == Cardinality({v \in DOMAIN signatures : signatures[v].flag = flag})

-----------------------------------------------------------------------------
(* lastCommitMetrics. *)

\* Mutant: the proposer is taken for one of the others.
OthersAll == Signed

Others == Signed \ {proposer}

\* The signature the reactions are measured from.  The sort is not stable, so any of
\* the earliest ones may come first.
Earliest == {v \in Others : \A w \in Others : Time(v) <= Time(w)}

Unset == "unset"

\* What is reported of a validator that signed, or voted for nil.
Metrics(v, first) ==
  [status        |-> signatures[v].flag,
   relative      |-> RelativeDelay(v),
   absolute      |-> Time(v) - FirstTime,
   distance      |-> Distance(v),
   isProposer    |-> v = proposer,
   proposerDelay |-> IF v = proposer /\ Others # {} THEN Time(v) - Time(first) ELSE Unset,
   reaction      |-> IF v \in {proposer, first} \/ Others = {} THEN 0
                     ELSE Time(v) - Time(first)]

Missing ==
  [status |-> "absent", relative |-> 0, absolute |-> 0, distance |-> 0,
   isProposer |-> FALSE, proposerDelay |-> Unset, reaction |-> 0]

\* Nothing at all is reported when nobody signed.
Report ==
  /\ report = <<>>
  /\ Signed # {}
  /\ \E first \in (IF Others # {} THEN Earliest ELSE {proposer}) :
       report' = [v \in Present \cup activeSet |->
                    IF v \in Present THEN Metrics(v, first) ELSE Missing]
  /\ UNCHANGED <<signatures, proposer, activeSet>>

\* Any commit of the previous validators, none at the first block.
CommitInit ==
  /\ \E V \in SUBSET Validators : signatures \in [V -> Signature]
  /\ proposer \in Validators
  /\ activeSet \in SUBSET Validators
  /\ report = <<>>

CommitSpec == CommitInit /\ [][Report]_commitVars

-----------------------------------------------------------------------------
(* Properties. *)

Reported == DOMAIN report # {}

StatusCount(flag) == Cardinality({v \in DOMAIN report : report[v].status = flag})

\* The validators of the commit and those of the block, which is one height later.
Joined == activeSet \ DOMAIN signatures
LeftAbsent == {v \in DOMAIN signatures \ activeSet : signatures[v].flag = "absent"}

\* The per-validator points and the totals of the block count the same votes.  The
\* absent ones differ by exactly those whom a change of the validator set between the
\* two blocks adds (reported as absent, never asked to sign) or hides (gone).
StatusesAgree ==
  Reported =>
    /\ \A flag \in {"commit", "nil"} : StatusCount(flag) = FlagCount(flag)
    /\ StatusCount("absent") + Cardinality(LeftAbsent)
         = FlagCount("absent") + Cardinality(Joined)

\* The duration of the round is the largest delay reported of a signer, and some
\* signer has no delay: three computations over the same signatures agree.
RoundIsLargestDelay ==
  Reported =>
    LET delays == {report[v].relative : v \in Signed}
    IN Min(delays) = 0 /\ Max(delays) = RoundDuration

\* The delay of a signer is its reaction time after the first of the others, plus the
\* lead of the proposer if the proposer was first; this does not depend on which of
\* several earliest signatures the sort puts first.
DelaysAddUp ==
  (Reported /\ Others # {}) =>
    LET lead == IF proposer \in Signed /\ report[proposer].proposerDelay < 0
                THEN -report[proposer].proposerDelay ELSE 0
    IN \A v \in Others : /\ report[v].reaction >= 0
                         /\ report[v].absolute = report[v].reaction + lead

\* Distances are taken from the mean of the delayed signers: they cancel out, and a
\* later signer is never reported as closer to the early end.
DistancesBalance ==
  Reported =>
    LET late == {v \in Signed : report[v].absolute > 0}
    IN /\ SumOf([v \in late |-> report[v].distance]) = 0
       /\ \A v, w \in Signed :
            report[v].absolute < report[w].absolute => report[v].distance <= report[w].distance

=============================================================================
