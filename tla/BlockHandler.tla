---------------------------- MODULE BlockHandler ----------------------------
(***************************************************************************)
(* The points the block handlers write to InfluxDB over several runs of    *)
(* the process: with the full handler of pkg/coremon/block_handler.go or   *)
(* the RFQ-only one of rfq_handler.go, forward or backward, from the tip   *)
(* or from REWIND_FROM; a run ends at any moment.  The Influx client       *)
(* queues the points of a handler call in memory, and the database keeps   *)
(* one row for all points with the same measurement, tags and timestamp.   *)
(*                                                                         *)
(* A block is what the rows of its points depend on: events by type, keys  *)
(* of attributes and the fields with an arity, messages by name and the    *)
(* fields with an arity, transactions by their code, quotes by maker.      *)
(***************************************************************************)
EXTENDS Integers, Sequences, FiniteSets

CONSTANTS
  Validators,    \* validators reported for a block
  Blocks,        \* the chain: events and transactions, by height (external)
  BlockNanos,    \* the time of a block in ns, by height (external)
  Micro,         \* ns in a microsecond, 1000 in the code
  InitTip,       \* height of the chain when the model starts
  RewindFroms,   \* values of REWIND_FROM, 0 for none
  StopHeight,    \* --stop-height, for runs backward
  MaxRuns        \* bound: starts of the process

Heights == 1 .. Len(Blocks)

TxIds == UNION {{<<h, i>> : i \in DOMAIN Blocks[h].txs} : h \in Heights}

Tx(id) == Blocks[id[1]].txs[id[2]]

\* A list as the code holds it, of anything.
IsList(s) == Len(s) \in Nat /\ DOMAIN s = 1 .. Len(s)

\* Block times grow (BFT time does); a quote index stays below a microsecond, the
\* transactions of a block below the distance to the next one.
ASSUME HandlerAssumption ==
  /\ Micro \in Nat \ {0}
  /\ IsList(Blocks)
  /\ \A h \in Heights : IsList(Blocks[h].txs)
  /\ \A id \in TxIds : IsList(Tx(id).quotes) /\ Len(Tx(id).quotes) <= Micro
  /\ \A h \in Heights : BlockNanos[h] \in Nat
  /\ \A g, h \in Heights : g < h =>
       /\ BlockNanos[g] < BlockNanos[h]
       /\ BlockNanos[g] + Micro * Len(Blocks[g].txs) <= BlockNanos[h]
  /\ InitTip \in Heights
  /\ StopHeight \in Heights \ {1}
  /\ RewindFroms \subseteq Heights \cup {0}

VARIABLES
  tip,       \* height of the chain (external)
  runs,      \* starts so far
  mode,      \* "full", "rfq" or "down"
  backward,  \* the direction of the run
  start,     \* the first block of the run
  held,      \* the block kept for the next pair
  pending,   \* RFQ transactions whose point is deferred
  queue,     \* points of handler calls waiting in the Influx client (external)
  lossy,     \* the client has dropped points in this run (external)
  delivered  \* points that reached the database (external)

vars == <<tip, runs, mode, backward, start, held, pending, queue, lossy, delivered>>

run == <<runs, mode, backward, start>>

-----------------------------------------------------------------------------
(* Points.  "of" and "n" tell which item of the transaction or block it is. *)

Point(measurement, tags, nanos, of, n) ==
  [measurement |-> measurement, tags |-> tags, nanos |-> nanos, of |-> of, n |-> n]

\* What the database tells points apart by.
Row(p) == <<p.measurement, p.tags, p.nanos>>

ValidatorPoints(h) ==
  {Point("coremon_validator_report", {v}, BlockNanos[h], <<h, v>>, 0) : v \in Validators}

\* Where an event of a block or a transaction, its attributes and its repeated fields
\* that are not empty are written to.
BlockMeasurements ==
  [event |-> "coremon_block_events", attr |-> "coremon_block_events_attrs",
   arity |-> "coremon_block_event_arity"]

TxMeasurements ==
  [event |-> "coremon_tx_events", attr |-> "coremon_tx_events_attrs",
   arity |-> "coremon_tx_event_arity"]

EventPoints(to, event, nanos, of) ==
  {Point(to.event, {event.type}, nanos, of, 0)}
    \cup {Point(to.attr, {event.type, event.attrs[a]}, nanos, of, a) : a \in DOMAIN event.attrs}
    \cup {Point(to.arity, {event.type, field}, nanos, of, 0) : field \in event.arity}

BaseFeePoints(event, nanos, of) ==
  IF event.type = "txfees" THEN {Point("coremon_txfees_basefee", {}, nanos, of, 0)} ELSE {}

BlockEventPoints(h) ==
  UNION {EventPoints(BlockMeasurements, Blocks[h].events[n], BlockNanos[h], <<h, n>>)
           \cup BaseFeePoints(Blocks[h].events[n], BlockNanos[h], <<h, n>>) :
           n \in DOMAIN Blocks[h].events}

TxEventPoints(id) ==
  UNION {EventPoints(TxMeasurements, Tx(id).events[n], BlockNanos[id[1]], id \o <<n>>) :
           n \in DOMAIN Tx(id).events}

\* A message and its repeated fields that are not empty.
OneMsgPoints(msg, nanos, of) ==
  {Point("coremon_tx_msgs", {msg.name}, nanos, of, 0)}
    \cup {Point("coremon_tx_msg_arity", {msg.name, field}, nanos, of, 0) : field \in msg.arity}

MsgPoints(id) ==
  UNION {OneMsgPoints(Tx(id).msgs[n], BlockNanos[id[1]], id \o <<n>>) : n \in DOMAIN Tx(id).msgs}

\* The name of the message is a tag if there is only one.
TxTags(id) ==
  LET msgs == Tx(id).msgs
  IN {Tx(id).code} \cup IF Len(msgs) = 1 THEN {msgs[1].name} ELSE {}

TxPoint(id) == Point("coremon_txs", TxTags(id), BlockNanos[id[1]], id, 0)

BlockPoint(h) == Point("coremon_block_report", {}, BlockNanos[h], <<h>>, 0)

\* Mutant: RFQ points have the time of the block.
TxNanosOfBlock(id) == BlockNanos[id[1]]

\* Points about one transaction are apart by a microsecond per index.
TxNanos(id) == BlockNanos[id[1]] + (id[2] - 1) * Micro

WasmErrorPoints(id) ==
  IF Tx(id).wasmFailed
  THEN {Point("coremon_wasm_errors", {Tx(id).code}, TxNanos(id), id, 0)} ELSE {}

\* And its quotes by a nanosecond.
QuotePoints(id) ==
  {Point("coremon_rfq_quotes", {Tx(id).quotes[n]}, TxNanos(id) + n - 1, id, n) :
     n \in DOMAIN Tx(id).quotes}

RfqPoint(id) == Point("coremon_rfq_txs", {Tx(id).code}, TxNanos(id), id, 0)

-----------------------------------------------------------------------------
(* The handlers. *)

TxsOf(h) == {id \in TxIds : id[1] = h}

RfqTxs == {id \in TxIds : Tx(id).rfq}

\* Points of TxPoints that are not deferred.
ImmediateRfqPoints(h) == UNION {WasmErrorPoints(id) \cup QuotePoints(id) : id \in TxsOf(h)}

\* Every other point of the full handler.
OwnPoints(h) ==
  ValidatorPoints(h) \cup BlockEventPoints(h) \cup {BlockPoint(h)}
    \cup UNION {TxEventPoints(id) \cup MsgPoints(id) \cup {TxPoint(id)} : id \in TxsOf(h)}

\* What a call writes at once.
HandlerPoints(h) == ImmediateRfqPoints(h) \cup IF mode = "full" THEN OwnPoints(h) ELSE {}

\* Forward: nothing stays pending.
HandleForward ==
  /\ mode # "down"
  /\ ~backward
  /\ held < tip
  /\ LET next == held + 1
     IN queue' = queue \cup {HandlerPoints(next)
                              \cup {RfqPoint(id) : id \in TxsOf(next) \cap RfqTxs}}
  /\ held' = held + 1
  /\ UNCHANGED <<tip, run, pending, lossy, delivered>>

\* Deferred transactions that Flush completes once the pair down to block prev is
\* known: the timestamps of a transaction reach "lag" blocks below its own pair, and
\* nothing waits past the stop height (PendingFollowsLag of RfqTrackerProofs).
Resolved(ids, prev) ==
  {id \in ids : id[1] - 1 - Tx(id).lag >= prev \/ prev < StopHeight}

\* Mutant: what is not resolved at once is forgotten.
HandleBackwardForgets ==
  /\ mode # "down"
  /\ backward
  /\ StopHeight <= held /\ held <= tip
  /\ LET ready == Resolved(TxsOf(held) \cap RfqTxs, held - 1)
     IN queue' = queue \cup {HandlerPoints(held) \cup {RfqPoint(id) : id \in ready}}
  /\ held' = held - 1
  /\ UNCHANGED <<tip, run, pending, lossy, delivered>>

\* Backward, down to the block below the stop height.
HandleBackward ==
  /\ mode # "down"
  /\ backward
  /\ StopHeight <= held /\ held <= tip
  /\ LET waiting == pending \cup (TxsOf(held) \cap RfqTxs)
         ready == Resolved(waiting, held - 1)
     IN /\ queue' = queue \cup {HandlerPoints(held) \cup {RfqPoint(id) : id \in ready}}
        /\ pending' = waiting \ ready
  /\ held' = held - 1
  /\ UNCHANGED <<tip, run, lossy, delivered>>

-----------------------------------------------------------------------------
(* Runs of the process. *)

\* The block that is kept for the first pair: forward REWIND_FROM or the next block
\* of the chain, backward the one below.
FirstKept(b, rewindFrom) ==
  LET init == IF rewindFrom = 0 THEN tip + 1 ELSE rewindFrom
  IN IF b THEN init - 1 ELSE init

\* Any handler, in any direction.
StartRun(m, b, rewindFrom) ==
  /\ mode = "down"
  /\ runs < MaxRuns
  /\ runs' = runs + 1
  /\ mode' = m
  /\ backward' = b
  /\ start' = FirstKept(b, rewindFrom)
  /\ held' = FirstKept(b, rewindFrom)
  /\ pending' = {}
  /\ lossy' = FALSE
  /\ UNCHANGED <<tip, queue, delivered>>

\* A handler error, a signal or a crash: what is in memory is gone.
RunEnds ==
  /\ mode # "down"
  /\ mode' = "down"
  /\ pending' = {}
  /\ queue' = {}
  /\ UNCHANGED <<tip, runs, backward, start, held, lossy, delivered>>

-----------------------------------------------------------------------------
(* The environment. *)

ChainGrows ==
  /\ tip + 1 \in Heights
  /\ tip' = tip + 1
  /\ UNCHANGED <<run, held, pending, queue, lossy, delivered>>

\* A queued batch reaches the database; the client may fail to notice and retry it.
Deliver(batch) ==
  /\ batch \in queue
  /\ delivered' = delivered \cup batch
  /\ queue' \in {queue, queue \ {batch}}
  /\ UNCHANGED <<tip, run, held, pending, lossy>>

\* The client gives up on a batch.
Drop(batch) ==
  /\ batch \in queue
  /\ queue' = queue \ {batch}
  /\ lossy' = TRUE
  /\ UNCHANGED <<tip, run, held, pending, delivered>>

-----------------------------------------------------------------------------

Init ==
  /\ tip = InitTip
  /\ runs = 0
  /\ mode = "down"
  /\ backward = FALSE
  /\ start = 0
  /\ held = 0
  /\ pending = {}
  /\ queue = {}
  /\ lossy = FALSE
  /\ delivered = {}

Next ==
  \/ HandleForward
  \/ HandleBackward
  \/ \E m \in {"full", "rfq"}, b \in BOOLEAN, rewindFrom \in RewindFroms :
       StartRun(m, b, rewindFrom)
  \/ RunEnds
  \/ ChainGrows
  \/ \E batch \in queue : Deliver(batch) \/ Drop(batch)

Spec == Init /\ [][Next]_vars

-----------------------------------------------------------------------------
(* Properties. *)

RowsExact(measurements) ==
  \A p, q \in delivered :
    (p.measurement \in measurements /\ Row(p) = Row(q)) => p = q

\* Points of these measurements never replace one another, neither within a block
\* nor across blocks, runs and directions, and a point that is written again by a
\* later run or a retry falls on its own row: counts over the rows are exact.
CountsExact ==
  RowsExact({"coremon_rfq_txs", "coremon_rfq_quotes", "coremon_wasm_errors",
             "coremon_validator_report", "coremon_block_report"})

\* Once a run has written out what it handled and lost nothing, every RFQ transaction
\* from its first pair on is in the database, whatever earlier runs missed; backward
\* this is so when the run idles below the stop height.
RunComplete ==
  (mode # "down" /\ queue = {} /\ ~lossy /\ (backward => held < StopHeight)) =>
    LET handled == IF backward THEN (held + 1) .. start ELSE (start + 1) .. held
    IN \A id \in RfqTxs : id[1] \in handled => RfqPoint(id) \in delivered

=============================================================================
