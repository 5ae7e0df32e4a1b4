-------------------------- MODULE BlockFetchProofs --------------------------
(***************************************************************************)
(* A fetched block is complete, whatever the number of attempts.           *)
(***************************************************************************)
EXTENDS BlockFetch, TLAPS

\* Initially nothing is sent, closed or collected.
LEMMA FetchInitInv == FetchInit => FetchInv
  <1> SUFFICES ASSUME FetchInit PROVE FetchInv
    OBVIOUS
  <1> USE DEF FetchInit
  <1>1. FetchTypeOK
    BY DEF FetchTypeOK, Parts, PartPcs, CallPcs
  <1>2. \A p \in Parts : pc[p] = IF p = "validators" /\ skipValidators THEN "returning" ELSE "asking"
    OBVIOUS
  <1>3. Collected = {}
    BY DEF Collected
  <1>4. Accounted
    BY <1>2, <1>3 DEF Accounted, Wanted
  <1>5. NoPanic /\ AllOrNothing
    BY <1>2 DEF NoPanic, AllOrNothing
  <1> QED
    BY <1>1, <1>4, <1>5 DEF FetchInv

\* A goroutine that asks has neither sent nor closed anything, before and after.
LEMMA AskingInv ==
  ASSUME FetchInv, NEW p \in Parts, Reply(p) \/ NoReply(p)
  PROVE  FetchInv'
  <1> USE DEF FetchInv
  <1>1. CASE Reply(p)
    <2>1. p \in Wanted /\ p \notin sent /\ p \notin closed /\ p \in Parts
      BY <1>1 DEF Reply, Accounted
    <2>2. FetchTypeOK'
      BY <1>1 DEF Reply, FetchTypeOK, PartPcs
    <2>3. NoPanic'
      BY <1>1 DEF Reply, FetchTypeOK, NoPanic
    <2>4. AllOrNothing'
      BY <1>1 DEF Reply, AllOrNothing, Wanted
    <2>5. Accounted'
      BY <1>1, <2>1 DEF Reply, FetchTypeOK, Accounted, Wanted, Collected
    <2> QED
      BY <2>2, <2>3, <2>4, <2>5
  <1>2. CASE NoReply(p)
    <2>1. FetchTypeOK'
      <3>1. tries' \in [Parts -> Nat]
        BY <1>2 DEF NoReply, FetchTypeOK
      <3> QED
        BY <1>2, <3>1 DEF NoReply, FetchTypeOK, PartPcs
    <2>2. NoPanic'
      BY <1>2 DEF NoReply, FetchTypeOK, NoPanic
    <2>3. AllOrNothing'
      BY <1>2 DEF NoReply, AllOrNothing, Wanted
    <2>4. Accounted'
      BY <1>2 DEF NoReply, FetchTypeOK, Accounted, Wanted, Collected
    <2> QED
      BY <2>1, <2>2, <2>3, <2>4
  <1> QED
    BY <1>1, <1>2

\* An error is reported before errC can be closed, as its channel is still open.
LEMMA ReturningInv ==
  ASSUME FetchInv, NEW p \in Parts, ReportError(p) \/ Return(p)
  PROVE  FetchInv'
  <1> USE DEF FetchInv
  <1>1. CASE ReportError(p)
    <2>1. ~errClosed
      <3>1. p \in Wanted /\ p \notin got
        BY <1>1 DEF ReportError, Accounted
      <3> QED
        BY <3>1 DEF Accounted, AllOrNothing
    <2>2. pc' = [pc EXCEPT ![p] = "returning"] /\ errors' = errors + 1
      BY <1>1, <2>1 DEF ReportError
    <2>3. FetchTypeOK'
      BY <1>1, <2>2 DEF ReportError, FetchTypeOK, PartPcs
    <2>4. NoPanic'
      BY <2>2 DEF FetchTypeOK, NoPanic
    <2>5. AllOrNothing'
      BY <1>1 DEF ReportError, AllOrNothing, Wanted
    <2>6. Accounted'
      <3>1. errors' > 0 /\ UNCHANGED <<sent, closed, got, errClosed, callPc, skipValidators>>
            /\ pc[p] = "erring" /\ callPc # "ok"
        BY <1>1, <2>1, <2>2 DEF ReportError, FetchTypeOK, Accounted
      <3>2. Wanted' = Wanted /\ Collected' = Collected
        BY <3>1 DEF Wanted, Collected
      <3>3. \A q \in Parts : pc'[q] = IF q = p THEN "returning" ELSE pc[q]
        BY <2>2 DEF FetchTypeOK
      <3>4. p \in Collected => p \in sent
        BY <3>1 DEF Accounted
      <3> QED
        BY <3>1, <3>2, <3>3, <3>4 DEF Accounted
    <2> QED
      BY <2>3, <2>4, <2>5, <2>6
  <1>2. CASE Return(p)
    <2>1. FetchTypeOK'
      BY <1>2 DEF Return, FetchTypeOK, PartPcs
    <2>2. NoPanic'
      BY <1>2 DEF Return, FetchTypeOK, NoPanic
    <2>3. AllOrNothing'
      BY <1>2 DEF Return, AllOrNothing, Wanted
    <2>4. Accounted'
      BY <1>2 DEF Return, FetchTypeOK, Accounted, Wanted, Collected
    <2> QED
      BY <2>1, <2>2, <2>3, <2>4
  <1> QED
    BY <1>1, <1>2

\* A closed channel without a value belongs to a goroutine that has reported an error.
LEMMA CallInv ==
  ASSUME FetchInv, CallStep
  PROVE  FetchInv'
  <1> USE DEF FetchInv
  <1>1. ASSUME NEW p \in Parts, Collect(p)
        PROVE  FetchInv'
    <2>1. FetchTypeOK'
      BY <1>1 DEF Collect, After, FetchTypeOK, CallPcs, Parts
    <2>2. NoPanic'
      BY <1>1 DEF Collect, NoPanic
    <2>3. callPc # "ok" /\ callPc' \notin {"ok", "failed"} /\ callPc # "failed"
      BY <1>1 DEF Collect, After, Parts
    <2>4. AllOrNothing'
      BY <2>3 DEF AllOrNothing
    <2>5. Collected' = Collected \cup {p}
      BY <1>1 DEF Collect, After, Collected, Parts
    <2>6. Accounted'
      <3>1. UNCHANGED <<pc, sent, closed, errors, errClosed, skipValidators>>
        BY <1>1 DEF Collect
      <3>2. Wanted' = Wanted
        BY <3>1 DEF Wanted
      <3>3. IF p \in sent THEN got' = got \cup {p} ELSE got' = got /\ pc[p] = "done"
        BY <1>1 DEF Collect, Accounted
      <3>4. \A q \in Parts : q \in Collected' => IF q \in sent THEN q \in got' ELSE pc[q] = "done"
        BY <2>5, <3>3 DEF Accounted
      <3>5. got' \subseteq sent
        BY <3>3 DEF Accounted
      <3>6. ~errClosed
        BY <2>3 DEF Accounted
      <3> QED
        BY <2>3, <3>1, <3>2, <3>4, <3>5, <3>6 DEF Accounted
    <2> QED
      BY <2>1, <2>2, <2>4, <2>6
  <1>2. CASE SelectErrors
    <2>1. FetchTypeOK'
      <3>1. errors' \in Nat
        BY <1>2 DEF SelectErrors, FetchTypeOK
      <3>2. errClosed' \in BOOLEAN /\ callPc' \in CallPcs
        BY <1>2 DEF SelectErrors, FetchTypeOK, CallPcs
      <3>3. UNCHANGED <<skipValidators, pc, tries, sent, closed, got>>
        BY <1>2 DEF SelectErrors
      <3> QED
        BY <3>1, <3>2, <3>3 DEF FetchTypeOK
    <2>2. NoPanic'
      BY <1>2 DEF SelectErrors, NoPanic
    <2>3. Collected = Parts /\ Collected' = Parts
      BY <1>2 DEF SelectErrors, Collected
    <2>4. CASE errors > 0
      <3>1. callPc' = "failed" /\ UNCHANGED <<errClosed, pc, sent, closed, got, skipValidators>>
        BY <1>2, <2>4 DEF SelectErrors
      <3>2. ~errClosed
        BY <1>2 DEF SelectErrors, Accounted
      <3> QED
        BY <2>1, <2>2, <2>3, <3>1, <3>2 DEF Accounted, AllOrNothing, Wanted
    <2>5. CASE ~(errors > 0)
      <3>1. callPc' = "ok" /\ errClosed' /\ errors = 0 /\ errors' = 0
             /\ UNCHANGED <<pc, sent, closed, got, skipValidators>> /\ callPc = "select"
        BY <1>2, <2>5 DEF SelectErrors, FetchTypeOK
      <3>2. \A p \in Wanted : p \in got
        BY <2>3, <3>1 DEF Accounted, Wanted
      <3>3. got = Wanted
        BY <3>2 DEF Accounted
      <3> QED
        BY <2>1, <2>2, <2>3, <3>1, <3>3 DEF Accounted, AllOrNothing, Wanted, FetchTypeOK
    <2> QED
      BY <2>4, <2>5
  <1> QED
    BY <1>1, <1>2 DEF CallStep

\* The invariant of a call holds in every interleaving of its goroutines.
THEOREM FetchInvariance == FetchSpec => []FetchInv
  <1>1. FetchInv /\ [FetchNext]_fetchVars => FetchInv'
    <2> SUFFICES ASSUME FetchInv, [FetchNext]_fetchVars PROVE FetchInv'
      OBVIOUS
    <2>1. CASE \E p \in Parts : PartStep(p)
      BY <2>1, AskingInv, ReturningInv DEF PartStep
    <2>2. CASE CallStep
      BY <2>2, CallInv
    <2>3. CASE UNCHANGED fetchVars
      BY <2>3
      DEF fetchVars, FetchInv, FetchTypeOK, Accounted, NoPanic, AllOrNothing, Wanted, Collected
    <2> QED
      BY <2>1, <2>2, <2>3 DEF FetchNext
  <1> QED
    BY <1>1, FetchInitInv, PTL DEF FetchSpec

\* fetchBlockByNum returns a block with all its parts or an error.
THEOREM BlocksComplete == FetchSpec => []AllOrNothing
  <1>1. FetchInv => AllOrNothing
    BY DEF FetchInv
  <1> QED
    BY <1>1, FetchInvariance, PTL

\* No goroutine of fetchBlockByNum sends on the closed errC.
THEOREM NeverPanics == FetchSpec => []NoPanic
  <1>1. FetchInv => NoPanic
    BY DEF FetchInv
  <1> QED
    BY <1>1, FetchInvariance, PTL

=============================================================================
