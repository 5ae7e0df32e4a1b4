----------------------------- MODULE RfqActions -----------------------------
(***************************************************************************)
(* What rfqTracker.TxPoints of pkg/coremon/rfq_points.go makes of one      *)
(* transaction: findRFQTx, parseRFQMemo, firstWasmExec and the quote       *)
(* results of pkg/coremon/rfq.go, and the tags of the points.  The same    *)
(* transaction is handled twice, as in a backfill over blocks that were    *)
(* handled before; Go's maps are iterated in another order each time.      *)
(*                                                                         *)
(* A JSON document is the set of the key paths of its nested objects, its  *)
(* keys being numbers in the order of their names.                         *)
(***************************************************************************)
EXTENDS RfqErrors

CONSTANTS
  Contracts, ProxyContracts,  \* RFQConfig
  Keys,                       \* keys of JSON objects, a set of positive numbers
  AcceptQuote, SignedIntent,  \* two of them
  MaxDepth,                   \* depth of the search, 6 in the code
  MinId, MaxId,               \* request ids that are plausible times
  Buckets,                    \* bounds of the latency buckets
  BlockTime,                  \* time of the block
  Txs                         \* transactions to handle

ASSUME ActionsAssumption ==
  /\ IsFiniteSet(Keys) /\ Keys \subseteq Nat \ {0} /\ {AcceptQuote, SignedIntent} \subseteq Keys
  /\ MaxDepth \in Nat
  /\ MinId \in Nat \ {0} /\ MaxId \in Nat
  /\ Buckets \subseteq Nat /\ BlockTime \in Nat

VARIABLES
  tx,      \* the transaction
  calls,   \* how often it was handled
  points   \* the points written so far

vars == <<tx, calls, points>>

\* Orders in which a map may be iterated.
Orders == {order \in [1 .. Cardinality(Keys) -> Keys] : IsInjective(order)}

-----------------------------------------------------------------------------
(* Messages. *)

\* Messages inside an authz MsgExec take its place.
Unwrap(raw) == FlattenSeq(raw)

Children(doc, at) == {k \in Keys : at \o <<k>> \in doc}

NotFound == <<>>

\* Mutant: the keys are visited in the order of the map.
FirstVisitedUnsorted(ks, order) == order[Min({i \in DOMAIN order : order[i] \in ks})]

\* The keys of an object are sorted before they are visited.
FirstVisited(ks, order) == Min(ks)

\* What a search finds below each object, given what it finds with one level less: the
\* object's own key, or the first answer below one of its other keys.
Deeper(doc, key, order, found) ==
  [at \in doc \cup {<<>>} |->
     IF at \o <<key>> \in doc THEN at \o <<key>>
     ELSE LET hits == {k \in Children(doc, at) : found[at \o <<k>>] # NotFound}
          IN IF hits = {} THEN NotFound ELSE found[at \o <<FirstVisited(hits, order)>>]]

\* findJSONKey: the path of the value below an object, with so many levels left.
Found(doc, key, order) ==
  LET Search[depth \in 0 .. MaxDepth] ==
        IF depth = 0 THEN [at \in doc \cup {<<>>} |-> NotFound]
        ELSE Deeper(doc, key, order, Search[depth - 1])
  IN Search

\* Mutant: one level less is searched.
FindKeyShallow(doc, key, order) == Found(doc, key, order)[MaxDepth - 1][<<>>]

FindKey(doc, key, order) == Found(doc, key, order)[MaxDepth][<<>>]

\* A call of an RFQ contract or proxy with an action in it.
IsAction(m) ==
  /\ m.exec /\ m.parses
  /\ \/ m.contract \in ProxyContracts
     \/ m.contract \in Contracts /\ {<<AcceptQuote>>, <<SignedIntent>>} \cap m.doc # {}

Kind(m) ==
  IF m.contract \in ProxyContracts THEN "atomic_exec"
  ELSE IF <<AcceptQuote>> \in m.doc THEN "accept_quote"
  ELSE "signed_intent"

\* Where the arguments of the action are, NotFound if nowhere.
ArgsPath(m, order) ==
  CASE Kind(m) = "atomic_exec"   -> FindKey(m.doc, AcceptQuote, order)
    [] Kind(m) = "accept_quote"  -> <<AcceptQuote>>
    [] Kind(m) = "signed_intent" -> <<SignedIntent>>

NoArgs == [parses |-> FALSE, id |-> 0, quotes |-> 0]

\* The request id and the number of quotes, as far as the arguments can be read.
Args(m, order) ==
  LET path == ArgsPath(m, order)
  IN IF path # NotFound /\ m.args[path].parses THEN m.args[path]
     ELSE NoArgs

\* rfqIDToTime; 0 is the zero time.
IdTime(id) == IF id \in MinId .. MaxId THEN id ELSE 0

\* findRFQTx: the messages that are actions, of which the first is taken.
Actions(msgs) == {i \in DOMAIN msgs : IsAction(msgs[i])}

\* firstWasmExec: the contract, and the key that the map happens to yield first.
WasmExecs(msgs) == {i \in DOMAIN msgs : msgs[i].exec}

Method(m, order) ==
  LET top == IF m.parses THEN Children(m.doc, <<>>) ELSE {}
  IN IF top = {} THEN 0 ELSE order[Min({i \in DOMAIN order : order[i] \in top})]

-----------------------------------------------------------------------------
(* Memo. *)

\* parseRFQMemo; without the token of an official client the time is not used.
ParseMemo(m) ==
  IF m.form = "empty" THEN [format |-> "none", official |-> FALSE, source |-> "", sentAt |-> 0]
  ELSE IF m.form = "broken" \/ ~m.token
  THEN [format |-> "other", official |-> FALSE, source |-> "", sentAt |-> 0]
  ELSE [format   |-> IF m.form = "json" THEN "json" ELSE "token",
        official |-> TRUE,
        source   |-> IF m.sources = <<>> THEN "" ELSE Last(m.sources),
        sentAt   |-> IF m.form = "json" /\ m.t > 0 THEN m.t ELSE 0]

-----------------------------------------------------------------------------
(* Points. *)

\* latencyBucket: the labels sort in the order of latencies.
Bucket(latency) == Cardinality({b \in Buckets : b <= latency})

\* The timestamp closest to signing that is known, 0 if none is.
BestTime(info, memo) == IF memo.sentAt # 0 THEN memo.sentAt ELSE IdTime(info.id)

TimeSource(info, memo) ==
  IF memo.sentAt # 0 THEN "memo" ELSE IF IdTime(info.id) # 0 THEN "rfq_id" ELSE "none"

BucketTag(info, memo) ==
  IF BestTime(info, memo) = 0 THEN "" ELSE ToString(Bucket(BlockTime - BestTime(info, memo)))

MemoTags(memo) == <<memo.official, memo.source>>

ErrorTags(err) == <<err.class, err.key>>

Fine == [class |-> "none", key |-> "none", stale |-> FALSE]

NoLate == [found |-> FALSE, by |-> 0]

\* The n-th point of a measurement; the fields are those that are not counts.
Point(measurement, n, tags, args, stale, late) ==
  [measurement |-> measurement, n |-> n, tags |-> tags,
   fields |-> [args |-> args, stale |-> stale, late |-> late]]

Failed == tx.codespace # ""

\* Whether the last failed check would have passed a little earlier.
LateBy(err, log, info) == IF err.stale THEN StaleLateBy(log, info.id) ELSE NoLate

WasmErrorPoints(msgs, order) ==
  LET execs == WasmExecs(msgs)
      m == msgs[Min(execs)]
      call == IF execs = {} THEN <<"", 0>> ELSE <<m.contract, Method(m, order)>>
      rfq == Actions(msgs) # {}
  IN IF tx.codespace # "wasm" THEN {}
     ELSE {Point("coremon_wasm_errors", 0,
                 <<call, ErrorTemplate(tx.log), rfq,
                   IF rfq THEN MemoTags(ParseMemo(tx.memo)) \o ErrorTags(Classify(tx.log))
                   ELSE <<>> >>,
                 NoArgs, FALSE, NoLate)}

RfqPoint(m, order) ==
  LET info == Args(m, order)
      memo == ParseMemo(tx.memo)
      err == IF Failed THEN ClassifyFailure(tx.codespace, tx.log) ELSE Fine
  IN Point("coremon_rfq_txs", 0,
           <<MemoTags(memo), memo.format, Kind(m), m.sender, TimeSource(info, memo),
             BucketTag(info, memo), Failed, ErrorTags(err)>>,
           info, err.stale, LateBy(err, tx.log, info))

\* parseRFQQuoteResults: the results of all accept events of the transaction.
QuoteResults == FlattenSeq(tx.results)

QuotePoints(m, order) ==
  LET info == Args(m, order)
      memo == ParseMemo(tx.memo)
  IN {LET q == QuoteResults[n]
          err == IF q.rejected THEN Classify(q.log) ELSE Fine
      IN Point("coremon_rfq_quotes", n,
               <<MemoTags(memo), Kind(m), q.maker, q.rejected, ErrorTags(err),
                 BucketTag(info, memo)>>,
               NoArgs, err.stale, LateBy(err, q.log, info)) : n \in DOMAIN QuoteResults}

\* Bound: how often the transaction is handled.
MaxCalls == 2

\* TxPoints of one call; the order is that of the maps in this call.
TxPoints(order) ==
  /\ calls < MaxCalls
  /\ LET msgs == Unwrap(tx.msgs)
         actions == Actions(msgs)
         m == msgs[Min(actions)]
     IN points' = points \cup WasmErrorPoints(msgs, order)
                    \cup IF actions = {} THEN {}
                         ELSE {RfqPoint(m, order)} \cup QuotePoints(m, order)
  /\ calls' = calls + 1
  /\ UNCHANGED tx

-----------------------------------------------------------------------------
(* What is assumed of a transaction. *)

\* A document holds every object on the way to an object.
IsDoc(doc) ==
  \A path \in doc : /\ path \in Seq(Keys) \ {<<>>}
                    /\ \A n \in 1 .. Len(path) : SubSeq(path, 1, n) \in doc

IsLimit(limit) ==
  \/ limit.kind = "expiry" /\ limit.until \in Int /\ limit.current \in Int
  \/ limit.kind = "window" /\ limit.from \in Int /\ limit.until \in Int /\ limit.from <= limit.until

\* Limits are part of the texts of stale errors.  Only the first window of a text is
\* looked at; the contract names one.
IsLog(log) ==
  /\ DOMAIN log = {"says", "limits", "quoted"} /\ log.says \in Seq(STRING)
  /\ IsFiniteSet(Limits(log)) /\ \A limit \in Limits(log) : IsLimit(limit)
  /\ \A m, n \in Limits(log) : m.kind = "window" /\ n.kind = "window" => m = n
  /\ log.limits # {} => \E i \in DOMAIN StalePatterns : StalePatterns[i].on \cap ToSet(log.says) # {}

\* Request ids are unsigned; a quote that was filled has no error.
IsTx(t) ==
  /\ t.msgs \in Seq(Seq(ToSet(Unwrap(t.msgs))))
  /\ \A m \in ToSet(Unwrap(t.msgs)) :
       /\ IsDoc(m.doc)
       /\ m.args \in [m.doc -> [parses : BOOLEAN, id : Nat, quotes : Nat]]
  /\ IsLog(t.log)
  /\ \A q \in ToSet(FlattenSeq(t.results)) : IsLog(q.log) /\ (~q.rejected => q.log.limits = {})

ASSUME TxsAssumption == \A t \in Txs : IsTx(t)

-----------------------------------------------------------------------------

Init ==
  /\ tx \in Txs
  /\ calls = 0
  /\ points = {}

Next == \E order \in Orders : TxPoints(order)

Spec == Init /\ [][Next]_vars

-----------------------------------------------------------------------------
(* Properties. *)

Messages == Unwrap(tx.msgs)

\* The payload of the first wasm call names one method, as the contracts demand.
OneMethod ==
  WasmExecs(Messages) # {} =>
    Cardinality(Children(Messages[Min(WasmExecs(Messages))].doc, <<>>)) <= 1

\* A transaction that is handled again writes the rows and the values it wrote before,
\* although the search walks maps; only the method of a failed call may differ, when
\* its message has several keys.
RerunsAgree ==
  \A p, q \in points :
    (p.measurement = q.measurement /\ p.n = q.n) =>
      p = q \/ (p.measurement = "coremon_wasm_errors" /\ ~OneMethod)

\* Paths the search may answer with.
Candidates(doc, key) ==
  {path \in doc : Last(path) = key /\ Len(path) <= MaxDepth}

\* Where the two paths part, this one ends or takes the smaller key.
Before(path, other) ==
  \E i \in DOMAIN path \cap DOMAIN other :
    /\ \A j \in 1 .. (i - 1) : path[j] = other[j]
    /\ path[i] # other[i]
    /\ i = Len(path) \/ (i # Len(other) /\ path[i] < other[i])

\* The nested search of a proxy call answers with the accept_quote that comes first,
\* the outermost of nested ones, and misses none within its depth: no smaller key that
\* leads nowhere hides it.
FindsFirst ==
  \A i \in Actions(Messages) : \A order \in Orders :
    LET m == Messages[i]
        found == FindKey(m.doc, AcceptQuote, order)
        candidates == Candidates(m.doc, AcceptQuote)
    IN /\ found = NotFound <=> candidates = {}
       /\ \A path \in candidates \ {found} :
            found \in candidates /\ (Before(found, path) \/ IsPrefix(found, path))

Logs == {tx.log} \cup {QuoteResults[n].log : n \in DOMAIN QuoteResults}

\* "Errors are nested, so the inner reason must win over the wrapper": a rejection in a
\* wrapper has the class it has without.  The validation errors are the exception, as
\* they are looked for after the wrapper.
InnerReasonWins ==
  \A log \in Logs :
    LET inner == [log EXCEPT !.says = Tail(log.says)]
    IN log.says # <<>> /\ Head(log.says) = "No_quote_was_filled" =>
         \/ Classify(log) = Classify(inner)
         \/ Classify(inner).class \in {"input", "chain", "other"}

\* A limit would have been met by a transaction that lands that much sooner.
Meets(limit, id, sooner) ==
  IF limit.kind = "expiry" THEN limit.current - sooner <= limit.until
  ELSE limit.from - sooner <= id /\ id <= limit.until - sooner

LogOf(p) == IF p.measurement = "coremon_rfq_quotes" THEN QuoteResults[p.n].log ELSE tx.log

\* Rejected by the contract, a quote or the whole transaction.
ByContract(p) ==
  p.measurement = "coremon_rfq_quotes" \/ (p.measurement = "coremon_rfq_txs" /\ tx.codespace = "wasm")

\* "How much sooner the tx had to land": with late_by as its lead one of the limits is
\* met, with less none that was missed.  And whenever a limit that was missed is the
\* contract's own reason, late_by is there: the patterns of the classification, with
\* whatever other reasons are in the log, agree with those of staleLateBy.
LeastLate ==
  \A p, q \in points : q.measurement = "coremon_rfq_txs" =>
    LET id == q.fields.args.id
        late == p.fields.late
        missed(limits) == {limit \in limits : Lateness(limit, id) # {}}
        all == missed(Limits(LogOf(p)))
    IN /\ late.found => /\ \E limit \in all : Meets(limit, id, late.by)
                       /\ \A limit \in all, sooner \in 0 .. late.by - 1 : ~Meets(limit, id, sooner)
       /\ ByContract(p) /\ missed(LogOf(p).limits) # {} => late.found

=============================================================================
