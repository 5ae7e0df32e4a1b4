----------------------------- MODULE BlockFetch -----------------------------
(***************************************************************************)
(* One call of blockGetter.fetchBlockByNum (pkg/coremon/block_watcher.go): *)
(* three goroutines fetch the block, its results and its validator set,    *)
(* each with retries of its own; each hands over what it got through a     *)
(* channel that it closes when it returns, and reports an error on errC.   *)
(* The call collects the three channels and then looks at errC.            *)
(*                                                                         *)
(* BlockGetter sees only the outcome: FetchFails or FetchSucceeds.         *)
(***************************************************************************)
EXTENDS Integers

CONSTANT Attempts  \* retry.Attempts, 10 in the code

ASSUME FetchAssumption == Attempts \in Nat \ {0}

VARIABLES
  skipValidators, \* the option of the getter
  pc,             \* where each goroutine is
  tries,          \* failed attempts of each goroutine
  sent,           \* the channels that hold or held a value
  closed,         \* the channels that are closed
  errors,         \* errors waiting in errC (a buffer for four)
  errClosed,      \* errC is closed
  callPc,         \* where the call is
  got             \* the parts the call received, as opposed to nil

fetchVars == <<skipValidators, pc, tries, sent, closed, errors, errClosed, callPc, got>>

Parts == {"block", "results", "validators"}

\* "panicked" is a send on the closed errC.
PartPcs == {"asking", "erring", "returning", "done", "panicked"}

\* The channel the call waits on next, "select" for the look at errC.
CallPcs == Parts \cup {"select", "ok", "failed"}

-----------------------------------------------------------------------------
(* A fetching goroutine. *)

\* The node replies: the part goes into the channel, which has room for it.
Reply(p) ==
  /\ pc[p] = "asking"
  /\ pc' = [pc EXCEPT ![p] = "returning"]
  /\ sent' = sent \cup {p}
  /\ UNCHANGED <<skipValidators, tries, closed, errors, errClosed, callPc, got>>

\* Mutant: the goroutine never gives up.
NoReplyForever(p) ==
  /\ pc[p] = "asking"
  /\ tries' = [tries EXCEPT ![p] = IF tries[p] + 1 < Attempts THEN tries[p] + 1 ELSE 0]
  /\ UNCHANGED <<skipValidators, pc, sent, closed, errors, errClosed, callPc, got>>

\* An error or an empty reply: another attempt, or the end of the retries.
NoReply(p) ==
  /\ pc[p] = "asking"
  /\ tries' = [tries EXCEPT ![p] = @ + 1]
  /\ pc' = [pc EXCEPT ![p] = IF tries[p] + 1 < Attempts THEN "asking" ELSE "erring"]
  /\ UNCHANGED <<skipValidators, sent, closed, errors, errClosed, callPc, got>>

\* Mutant: the channel is closed before the error is sent.
ReportErrorLate(p) ==
  /\ pc[p] = "erring"
  /\ IF p \notin closed
     THEN /\ closed' = closed \cup {p}
          /\ UNCHANGED <<pc, errors>>
     ELSE /\ pc' = [pc EXCEPT ![p] = IF errClosed THEN "panicked" ELSE "returning"]
          /\ errors' = IF errClosed THEN errors ELSE errors + 1
          /\ UNCHANGED closed
  /\ UNCHANGED <<skipValidators, tries, sent, errClosed, callPc, got>>

ReportError(p) ==
  /\ pc[p] = "erring"
  /\ pc' = [pc EXCEPT ![p] = IF errClosed THEN "panicked" ELSE "returning"]
  /\ errors' = IF errClosed THEN errors ELSE errors + 1
  /\ UNCHANGED <<skipValidators, tries, sent, closed, errClosed, callPc, got>>

\* The deferred close.
Return(p) ==
  /\ pc[p] = "returning"
  /\ pc' = [pc EXCEPT ![p] = "done"]
  /\ closed' = closed \cup {p}
  /\ UNCHANGED <<skipValidators, tries, sent, errors, errClosed, callPc, got>>

-----------------------------------------------------------------------------
(* The call. *)

After(p) == CASE p = "block" -> "results"
              [] p = "results" -> "validators"
              [] p = "validators" -> "select"

\* A receive returns the value of the channel, or nil once it is closed and empty.
Collect(p) ==
  /\ callPc = p
  /\ p \in sent \cup closed
  /\ got' = IF p \in sent THEN got \cup {p} ELSE got
  /\ callPc' = After(p)
  /\ UNCHANGED <<skipValidators, pc, tries, sent, closed, errors, errClosed>>

\* Mutant: errC is not looked at.
SelectNoErrors ==
  /\ callPc = "select"
  /\ callPc' = "ok"
  /\ errClosed' = TRUE
  /\ UNCHANGED <<skipValidators, pc, tries, sent, closed, errors, got>>

\* The first error fails the call; without one errC is closed.
SelectErrors ==
  /\ callPc = "select"
  /\ IF errors > 0
     THEN /\ callPc' = "failed"
          /\ errors' = errors - 1
          /\ UNCHANGED errClosed
     ELSE /\ callPc' = "ok"
          /\ errClosed' = TRUE
          /\ UNCHANGED errors
  /\ UNCHANGED <<skipValidators, pc, tries, sent, closed, got>>

-----------------------------------------------------------------------------

\* With skipValidators the third goroutine returns at once.
FetchInit ==
  /\ skipValidators \in BOOLEAN
  /\ pc = [p \in Parts |-> IF p = "validators" /\ skipValidators THEN "returning" ELSE "asking"]
  /\ tries = [p \in Parts |-> 0]
  /\ sent = {}
  /\ closed = {}
  /\ errors = 0
  /\ errClosed = FALSE
  /\ callPc = "block"
  /\ got = {}

PartStep(p) == Reply(p) \/ NoReply(p) \/ ReportError(p) \/ Return(p)

CallStep == (\E p \in Parts : Collect(p)) \/ SelectErrors

FetchNext == (\E p \in Parts : PartStep(p)) \/ CallStep

FetchSpec == FetchInit /\ [][FetchNext]_fetchVars

\* Goroutines are scheduled fairly and every request to the node ends (its client
\* has a timeout of 10s).
FairFetchSpec ==
  /\ FetchSpec
  /\ \A p \in Parts : WF_fetchVars(PartStep(p))
  /\ WF_fetchVars(CallStep)

-----------------------------------------------------------------------------
(* Properties. *)

FetchTypeOK ==
  /\ skipValidators \in BOOLEAN
  /\ pc \in [Parts -> PartPcs]
  /\ tries \in [Parts -> Nat]
  /\ sent \subseteq Parts
  /\ closed \subseteq Parts
  /\ errors \in Nat
  /\ errClosed \in BOOLEAN
  /\ callPc \in CallPcs
  /\ got \subseteq Parts

Wanted == IF skipValidators THEN Parts \ {"validators"} ELSE Parts

\* A block is complete or the call fails: no interleaving of a goroutine that gives
\* up with the call that reads its closed channel yields a block with a missing part,
\* which the handler would dereference (block_watcher.go lines 547-562 and 614-633).
AllOrNothing == callPc = "ok" => got = Wanted

\* Nothing is sent on errC once the call has closed it, which would end the process.
NoPanic == \A p \in Parts : pc[p] # "panicked"

\* The call and its goroutines end: no channel blocks one of them for ever.
CallEnds == <>(callPc \in {"ok", "failed"} /\ \A p \in Parts : pc[p] = "done")

-----------------------------------------------------------------------------
(* The inductive invariant behind AllOrNothing and NoPanic. *)

\* The channels the call has collected so far.
Collected ==
  CASE callPc = "block" -> {}
    [] callPc = "results" -> {"block"}
    [] callPc = "validators" -> {"block", "results"}
    [] callPc \in {"select", "ok", "failed"} -> Parts

\* A channel is closed only by the return of its goroutine, which has then sent the
\* part, reported an error, or had nothing to fetch; and a collected part that is
\* missing was one of the last two.
Accounted ==
  /\ \A p \in Parts :
       /\ p \in closed <=> pc[p] = "done"
       /\ pc[p] \in {"asking", "erring"} => p \in Wanted /\ p \notin sent
       /\ pc[p] \in {"returning", "done"} =>
            p \in sent \/ p \notin Wanted \/ errors > 0 \/ callPc = "failed"
       /\ p \in Collected =>
            IF p \in sent THEN p \in got ELSE pc[p] = "done"
  /\ sent \subseteq Wanted
  /\ got \subseteq sent
  /\ errClosed <=> callPc = "ok"
  /\ callPc = "ok" => errors = 0

FetchInv ==
  /\ FetchTypeOK
  /\ Accounted
  /\ NoPanic
  /\ AllOrNothing

=============================================================================
