------------------------- MODULE BlockHandlerProofs -------------------------
(***************************************************************************)
(* Rows of different items never meet, and a run that lost nothing is      *)
(* complete, for every chain, every number of runs and every order in      *)
(* which batches are delivered, retried or dropped.                        *)
(***************************************************************************)
EXTENDS BlockHandler, TLAPS

\* Everything a handler may write.
RfqPoints == {RfqPoint(id) : id \in RfqTxs}

HandlerWrites == UNION {ImmediateRfqPoints(h) \cup OwnPoints(h) : h \in Heights}

Points == RfqPoints \cup HandlerWrites

\* What is on its way or has arrived is about the blocks of the chain.
PointsInv == delivered \cup UNION queue \subseteq Points

\* Blocks the run has handled.
Handled == IF backward THEN (held + 1) .. start ELSE (start + 1) .. held

\* While nothing was dropped, what was handled is delivered, queued or waits.
KeptInv ==
  (mode # "down" /\ ~lossy) =>
    \A id \in RfqTxs :
      id[1] \in Handled => RfqPoint(id) \in delivered \cup UNION queue \/ id \in pending

\* Points wait only backward, above the stop height.
WaitInv ==
  /\ pending \subseteq RfqTxs
  /\ pending # {} => backward /\ held >= StopHeight

PositionInv == tip \in Heights /\ held \in Nat /\ start \in Nat /\ backward \in BOOLEAN

HandlerInv == PointsInv /\ KeptInv /\ WaitInv /\ PositionInv

-----------------------------------------------------------------------------
(* Rows. *)

LEMMA HeightsAreNat == ASSUME NEW h \in Heights PROVE h \in Nat \ {0}
  BY HandlerAssumption DEF Heights, IsList

\* A transaction is told by its block and its place in it.
LEMMA IdFields ==
  ASSUME NEW id \in TxIds
  PROVE  /\ id = <<id[1], id[2]>>
         /\ id[1] \in Heights /\ id[1] \in Nat
         /\ id[2] \in Nat \ {0} /\ id[2] <= Len(Blocks[id[1]].txs)
         /\ Len(Blocks[id[1]].txs) \in Nat
         /\ BlockNanos[id[1]] \in Nat
  <1>1. PICK h \in Heights : id \in {<<h, i>> : i \in DOMAIN Blocks[h].txs}
    BY DEF TxIds
  <1>2. PICK i \in DOMAIN Blocks[h].txs : id = <<h, i>>
    BY <1>1
  <1>3. i \in 1 .. Len(Blocks[h].txs) /\ Len(Blocks[h].txs) \in Nat
    BY <1>2, HandlerAssumption DEF IsList
  <1> QED
    BY <1>2, <1>3, HeightsAreNat, HandlerAssumption

LEMMA ProductIsNat == ASSUME NEW m \in Nat, NEW n \in Nat PROVE m * n \in Nat
  OBVIOUS

\* Whole microseconds are apart by at least one.
LEMMA MicrosApart ==
  ASSUME NEW m \in Nat, NEW a \in Nat, NEW b \in Nat, a < b
  PROVE  a * m + m <= b * m /\ a * m \in Nat /\ b * m \in Nat
  <1>1. PICK d \in Nat : b = a + 1 + d
    <2>1. b - a - 1 \in Nat /\ b = a + 1 + (b - a - 1)
      OBVIOUS
    <2> QED
      BY <2>1
  <1>2. b * m = a * m + m + d * m
    BY <1>1
  <1>3. d * m \in Nat /\ a * m \in Nat
    OBVIOUS
  <1> QED
    BY <1>2, <1>3

\* Sums over whole microseconds, as sums of numbers.
LEMMA WithinRange ==
  ASSUME NEW base \in Nat, NEW x \in Nat, NEW y \in Nat, NEW m \in Nat, NEW n \in Nat,
         n < m, x + m <= y
  PROVE  base + x \in Nat /\ base <= base + x /\ base + x + n < base + y
  OBVIOUS

LEMMA RangesApart ==
  ASSUME NEW s \in Nat, NEW t \in Nat, NEW k \in Nat, NEW l \in Nat, NEW end \in Nat,
         NEW base \in Nat, s + k < end, end <= base, base <= t
  PROVE  s + k # t + l
  OBVIOUS

LEMMA OffsetsApart ==
  ASSUME NEW x \in Nat, NEW y \in Nat, NEW unit \in Nat, NEW m \in Nat, NEW n \in Nat,
         m < unit, x + unit <= y
  PROVE  x + m # y + n
  OBVIOUS

\* The range of nanoseconds that belongs to a transaction: less than a microsecond
\* from its own time, and before the next block.
LEMMA TxRange ==
  ASSUME NEW id \in TxIds, NEW n \in Nat, n < Micro
  PROVE  /\ TxNanos(id) \in Nat
         /\ BlockNanos[id[1]] <= TxNanos(id)
         /\ TxNanos(id) + n < BlockNanos[id[1]] + Micro * Len(Blocks[id[1]].txs)
  <1> DEFINE len == Len(Blocks[id[1]].txs)
             i == id[2] - 1
  <1>1. i \in Nat /\ len \in Nat /\ i < len /\ BlockNanos[id[1]] \in Nat
    BY IdFields
  <1>2. i * Micro + Micro <= len * Micro /\ i * Micro \in Nat
    BY <1>1, MicrosApart, HandlerAssumption
  <1>3. len * Micro = Micro * len
    BY <1>1, HandlerAssumption
  <1>4. TxNanos(id) = BlockNanos[id[1]] + i * Micro
    BY DEF TxNanos
  <1>5. len * Micro \in Nat /\ Micro \in Nat
    BY <1>1, HandlerAssumption
  <1>6. /\ BlockNanos[id[1]] + i * Micro \in Nat
        /\ BlockNanos[id[1]] <= BlockNanos[id[1]] + i * Micro
        /\ BlockNanos[id[1]] + i * Micro + n < BlockNanos[id[1]] + len * Micro
    BY <1>1, <1>2, <1>5, WithinRange
  <1> QED
    BY <1>3, <1>4, <1>6

\* Equal times within these ranges are of the same transaction and offset.
LEMMA NanosApart ==
  ASSUME NEW id \in TxIds, NEW jd \in TxIds, NEW m \in Nat, NEW n \in Nat, m < Micro, n < Micro,
         TxNanos(id) + m = TxNanos(jd) + n
  PROVE  id = jd /\ m = n
  <1>1. id[1] = jd[1]
    <2>1. ASSUME NEW x \in TxIds, NEW y \in TxIds, NEW k \in Nat, NEW l \in Nat, k < Micro,
                 l < Micro, TxNanos(x) + k = TxNanos(y) + l
          PROVE  ~(x[1] < y[1])
      <3>1. SUFFICES ASSUME x[1] < y[1] PROVE FALSE
        OBVIOUS
      <3>2. BlockNanos[x[1]] + Micro * Len(Blocks[x[1]].txs) <= BlockNanos[y[1]]
        BY <3>1, IdFields, HandlerAssumption
      <3>3. TxNanos(x) + k < BlockNanos[x[1]] + Micro * Len(Blocks[x[1]].txs)
        BY <2>1, TxRange
      <3>4. BlockNanos[y[1]] <= TxNanos(y) /\ TxNanos(y) \in Nat /\ TxNanos(x) \in Nat
        BY <2>1, TxRange
      <3>5. /\ BlockNanos[x[1]] \in Nat /\ BlockNanos[y[1]] \in Nat
            /\ Micro * Len(Blocks[x[1]].txs) \in Nat
        BY IdFields, ProductIsNat, HandlerAssumption
      <3>6. BlockNanos[x[1]] + Micro * Len(Blocks[x[1]].txs) \in Nat
        BY <3>5
      <3> DEFINE end == BlockNanos[x[1]] + Micro * Len(Blocks[x[1]].txs)
      <3>7. TxNanos(x) + k < end /\ end <= BlockNanos[y[1]] /\ end \in Nat
        BY <3>2, <3>3, <3>6
      <3> HIDE DEF end
      <3>8. TxNanos(x) + k # TxNanos(y) + l
        BY <3>4, <3>5, <3>7, RangesApart
      <3> QED
        BY <2>1, <3>8
    <2>2. ~(id[1] < jd[1]) /\ ~(jd[1] < id[1])
      BY <2>1
    <2> QED
      BY <2>2, IdFields
  <1> DEFINE i == id[2] - 1
             j == jd[2] - 1
  <1>2. i \in Nat /\ j \in Nat /\ BlockNanos[id[1]] \in Nat
    BY IdFields
  <1>3. i * Micro + m = j * Micro + n /\ i * Micro \in Nat /\ j * Micro \in Nat
    <2>1. i * Micro \in Nat /\ j * Micro \in Nat
      BY <1>2, HandlerAssumption
    <2> QED
      BY <1>1, <1>2, <2>1 DEF TxNanos
  <1>4. ~(i < j) /\ ~(j < i)
    <2>1. CASE i < j
      <3>1. i * Micro + Micro <= j * Micro
        BY <1>2, <2>1, MicrosApart, HandlerAssumption
      <3> QED
        BY <3>1, <1>3, HandlerAssumption, OffsetsApart
    <2>2. CASE j < i
      <3>1. j * Micro + Micro <= i * Micro
        BY <1>2, <2>2, MicrosApart, HandlerAssumption
      <3> QED
        BY <3>1, <1>3, HandlerAssumption, OffsetsApart
    <2> QED
      BY <2>1, <2>2
  <1>5. i = j
    BY <1>2, <1>4
  <1>6. id[2] = jd[2]
    BY <1>5, IdFields
  <1>7. m = n
    BY <1>3, <1>5
  <1> QED
    BY <1>1, <1>6, <1>7, IdFields

-----------------------------------------------------------------------------
(* Points. *)

Exact == {"coremon_rfq_txs", "coremon_rfq_quotes", "coremon_wasm_errors",
          "coremon_validator_report", "coremon_block_report"}

\* A point of a measurement.
IsOf(p, measurement) == \E tags, nanos, of, n : p = Point(measurement, tags, nanos, of, n)

LEMMA MeasurementOf ==
  ASSUME NEW p, NEW measurement, IsOf(p, measurement)
  PROVE  p.measurement = measurement
  BY DEF IsOf, Point

LEMMA MeasuredTx ==
  ASSUME NEW p \in RfqPoints
  PROVE  \E id \in TxIds : p = Point("coremon_rfq_txs", {Tx(id).code}, TxNanos(id), id, 0)
  BY DEF RfqPoints, RfqPoint, RfqTxs

\* Of what a handler writes at once, the measurements that are to be exact.
LEMMA MeasuredWrites ==
  ASSUME NEW p \in HandlerWrites
  PROVE  \/ p.measurement \notin Exact
         \/ \E id \in TxIds :
              p = Point("coremon_wasm_errors", {Tx(id).code}, TxNanos(id), id, 0)
         \/ \E id \in TxIds : \E n \in DOMAIN Tx(id).quotes :
              p = Point("coremon_rfq_quotes", {Tx(id).quotes[n]}, TxNanos(id) + n - 1, id, n)
         \/ \E h \in Heights, v \in Validators :
              p = Point("coremon_validator_report", {v}, BlockNanos[h], <<h, v>>, 0)
         \/ \E h \in Heights : p = Point("coremon_block_report", {}, BlockNanos[h], <<h>>, 0)
  <1>1. PICK h \in Heights : p \in ImmediateRfqPoints(h) \cup OwnPoints(h)
    BY DEF HandlerWrites
  <1>2. \A id \in TxsOf(h) : id \in TxIds
    BY DEF TxsOf
  <1>3. CASE p \in ImmediateRfqPoints(h)
    <2>1. PICK id \in TxsOf(h) : p \in WasmErrorPoints(id) \cup QuotePoints(id)
      BY <1>3 DEF ImmediateRfqPoints
    <2>2. CASE p \in WasmErrorPoints(id)
      BY <1>2, <2>1, <2>2 DEF WasmErrorPoints
    <2>3. CASE p \in QuotePoints(id)
      BY <1>2, <2>1, <2>3 DEF QuotePoints
    <2> QED
      BY <2>1, <2>2, <2>3
  <1>4. CASE p \in ValidatorPoints(h)
    BY <1>4 DEF ValidatorPoints
  <1>5. CASE p = BlockPoint(h)
    BY <1>5 DEF BlockPoint
  <1>6. CASE p \in BlockEventPoints(h)
    BY <1>6 DEF BlockEventPoints, EventPoints, BlockMeasurements, BaseFeePoints, Point, Exact
  <1>7. ASSUME NEW id \in TxsOf(h), p \in TxEventPoints(id) \cup MsgPoints(id) \cup {TxPoint(id)}
        PROVE  p.measurement \notin Exact
    <2>1. CASE p \in TxEventPoints(id)
      <3>1. PICK n \in DOMAIN Tx(id).events :
              p \in EventPoints(TxMeasurements, Tx(id).events[n], BlockNanos[id[1]], id \o <<n>>)
        BY <2>1, Zenon DEF TxEventPoints
      <3>2. \/ IsOf(p, TxMeasurements.event) \/ IsOf(p, TxMeasurements.attr)
            \/ IsOf(p, TxMeasurements.arity)
        BY <3>1, Zenon DEF EventPoints, IsOf
      <3>3. p.measurement \in {TxMeasurements.event, TxMeasurements.attr, TxMeasurements.arity}
        BY <3>2, MeasurementOf
      <3> QED
        BY <3>3 DEF TxMeasurements, Exact
    <2>2. CASE p \in MsgPoints(id)
      <3>1. PICK n \in DOMAIN Tx(id).msgs :
              p \in OneMsgPoints(Tx(id).msgs[n], BlockNanos[id[1]], id \o <<n>>)
        BY <2>2, Zenon DEF MsgPoints
      <3>2. IsOf(p, "coremon_tx_msgs") \/ IsOf(p, "coremon_tx_msg_arity")
        BY <3>1, Zenon DEF OneMsgPoints, IsOf
      <3>3. p.measurement \in {"coremon_tx_msgs", "coremon_tx_msg_arity"}
        BY <3>2, MeasurementOf
      <3> QED
        BY <3>3 DEF Exact
    <2>3. CASE p = TxPoint(id)
      <3>1. IsOf(p, "coremon_txs")
        BY <2>3, Zenon DEF TxPoint, IsOf
      <3>2. p.measurement = "coremon_txs"
        BY <3>1, MeasurementOf
      <3> QED
        BY <3>2 DEF Exact
    <2> QED
      BY <1>7, <2>1, <2>2, <2>3
  <1> QED
    BY <1>1, <1>3, <1>4, <1>5, <1>6, <1>7 DEF OwnPoints

\* The points of the exact measurements, by measurement.
LEMMA Shapes ==
  ASSUME NEW p \in Points
  PROVE  /\ p.measurement = "coremon_rfq_txs" =>
              \E id \in TxIds : p = Point("coremon_rfq_txs", {Tx(id).code}, TxNanos(id), id, 0)
         /\ p.measurement = "coremon_wasm_errors" =>
              \E id \in TxIds : p = Point("coremon_wasm_errors", {Tx(id).code}, TxNanos(id), id, 0)
         /\ p.measurement = "coremon_rfq_quotes" =>
              \E id \in TxIds : \E n \in DOMAIN Tx(id).quotes :
                p = Point("coremon_rfq_quotes", {Tx(id).quotes[n]}, TxNanos(id) + n - 1, id, n)
         /\ p.measurement = "coremon_validator_report" =>
              \E h \in Heights, v \in Validators :
                p = Point("coremon_validator_report", {v}, BlockNanos[h], <<h, v>>, 0)
         /\ p.measurement = "coremon_block_report" =>
              \E h \in Heights : p = Point("coremon_block_report", {}, BlockNanos[h], <<h>>, 0)
  <1>1. CASE p \in RfqPoints
    BY <1>1, MeasuredTx DEF Point
  <1>2. CASE p \in HandlerWrites
    BY <1>2, MeasuredWrites DEF Point, Exact
  <1> QED
    BY <1>1, <1>2 DEF Points

\* Two blocks have two times.
LEMMA BlocksApart ==
  ASSUME NEW g \in Heights, NEW h \in Heights, BlockNanos[g] = BlockNanos[h]
  PROVE  g = h
  BY HeightsAreNat, HandlerAssumption

LEMMA PointFields ==
  ASSUME NEW measurement, NEW tags, NEW nanos, NEW of, NEW n
  PROVE  LET p == Point(measurement, tags, nanos, of, n)
         IN p.measurement = measurement /\ p.tags = tags /\ p.nanos = nanos
  BY DEF Point

LEMMA RowFields ==
  ASSUME NEW p, NEW q, Row(p) = Row(q)
  PROVE  p.measurement = q.measurement /\ p.tags = q.tags /\ p.nanos = q.nanos
  BY DEF Row

\* No two points of the exact measurements share a row.
LEMMA RowsApart ==
  ASSUME NEW p \in Points, NEW q \in Points, p.measurement \in Exact, Row(p) = Row(q)
  PROVE  p = q
  <1>1. q.measurement = p.measurement /\ p.tags = q.tags /\ p.nanos = q.nanos
    BY RowFields
  <1>2. CASE p.measurement = "coremon_rfq_txs"
    <2>1. PICK id \in TxIds : p = Point("coremon_rfq_txs", {Tx(id).code}, TxNanos(id), id, 0)
      BY <1>2, Shapes
    <2>2. PICK jd \in TxIds : q = Point("coremon_rfq_txs", {Tx(jd).code}, TxNanos(jd), jd, 0)
      BY <1>1, <1>2, Shapes
    <2>3. TxNanos(id) = TxNanos(jd)
      BY <1>1, <2>1, <2>2, PointFields
    <2>4. id = jd
      BY <2>3, NanosApart, TxRange, HandlerAssumption
    <2> QED
      BY <2>1, <2>2, <2>4
  <1>3. CASE p.measurement = "coremon_wasm_errors"
    <2>1. PICK id \in TxIds : p = Point("coremon_wasm_errors", {Tx(id).code}, TxNanos(id), id, 0)
      BY <1>3, Shapes
    <2>2. PICK jd \in TxIds : q = Point("coremon_wasm_errors", {Tx(jd).code}, TxNanos(jd), jd, 0)
      BY <1>1, <1>3, Shapes
    <2>3. TxNanos(id) = TxNanos(jd)
      BY <1>1, <2>1, <2>2, PointFields
    <2>4. id = jd
      BY <2>3, NanosApart, TxRange, HandlerAssumption
    <2> QED
      BY <2>1, <2>2, <2>4
  <1>4. CASE p.measurement = "coremon_rfq_quotes"
    <2>1. PICK id \in TxIds : \E n \in DOMAIN Tx(id).quotes :
            p = Point("coremon_rfq_quotes", {Tx(id).quotes[n]}, TxNanos(id) + n - 1, id, n)
      BY <1>4, Shapes
    <2>2. PICK jd \in TxIds : \E n \in DOMAIN Tx(jd).quotes :
            q = Point("coremon_rfq_quotes", {Tx(jd).quotes[n]}, TxNanos(jd) + n - 1, jd, n)
      BY <1>1, <1>4, Shapes
    <2>3. PICK m \in DOMAIN Tx(id).quotes :
            p = Point("coremon_rfq_quotes", {Tx(id).quotes[m]}, TxNanos(id) + m - 1, id, m)
      BY <2>1
    <2>4. PICK n \in DOMAIN Tx(jd).quotes :
            q = Point("coremon_rfq_quotes", {Tx(jd).quotes[n]}, TxNanos(jd) + n - 1, jd, n)
      BY <2>2
    <2>5. TxNanos(id) + m - 1 = TxNanos(jd) + n - 1
      BY <1>1, <2>3, <2>4, PointFields
    <2>6. m - 1 \in Nat /\ n - 1 \in Nat /\ m - 1 < Micro /\ n - 1 < Micro /\ m \in Nat /\ n \in Nat
      BY HandlerAssumption DEF IsList
    <2>7. TxNanos(id) \in Nat /\ TxNanos(jd) \in Nat
      BY <2>6, TxRange
    <2>8. TxNanos(id) + (m - 1) = TxNanos(jd) + (n - 1)
      BY <2>5, <2>6, <2>7
    <2>9. id = jd /\ m - 1 = n - 1
      BY <2>6, <2>8, NanosApart
    <2> QED
      BY <2>3, <2>4, <2>6, <2>9
  <1>5. CASE p.measurement = "coremon_validator_report"
    <2>1. PICK g \in Heights, v \in Validators :
            p = Point("coremon_validator_report", {v}, BlockNanos[g], <<g, v>>, 0)
      BY <1>5, Shapes
    <2>2. PICK h \in Heights, w \in Validators :
            q = Point("coremon_validator_report", {w}, BlockNanos[h], <<h, w>>, 0)
      BY <1>1, <1>5, Shapes
    <2>3. {v} = {w} /\ BlockNanos[g] = BlockNanos[h]
      BY <1>1, <2>1, <2>2, PointFields
    <2>4. v = w /\ g = h
      BY <2>3, BlocksApart
    <2> QED
      BY <2>1, <2>2, <2>4
  <1>6. CASE p.measurement = "coremon_block_report"
    <2>1. PICK g \in Heights : p = Point("coremon_block_report", {}, BlockNanos[g], <<g>>, 0)
      BY <1>6, Shapes
    <2>2. PICK h \in Heights : q = Point("coremon_block_report", {}, BlockNanos[h], <<h>>, 0)
      BY <1>1, <1>6, Shapes
    <2>3. g = h
      BY <1>1, <2>1, <2>2, PointFields, BlocksApart
    <2> QED
      BY <2>1, <2>2, <2>3
  <1> QED
    BY <1>2, <1>3, <1>4, <1>5, <1>6 DEF Exact

-----------------------------------------------------------------------------
(* The invariant. *)

LEMMA WritesArePoints ==
  ASSUME NEW h \in Heights, NEW ids, ids \subseteq RfqTxs
  PROVE  HandlerPoints(h) \cup {RfqPoint(id) : id \in ids} \subseteq Points
  BY DEF HandlerPoints, HandlerWrites, RfqPoints, Points

LEMMA InitInv == Init => HandlerInv
  <1> SUFFICES ASSUME Init PROVE HandlerInv
    OBVIOUS
  <1>1. PointsInv
    BY DEF Init, PointsInv
  <1>2. KeptInv /\ WaitInv
    BY DEF Init, KeptInv, WaitInv
  <1>3. PositionInv
    BY HandlerAssumption DEF Init, PositionInv
  <1> QED
    BY <1>1, <1>2, <1>3 DEF HandlerInv

LEMMA ForwardKeepsInv == ASSUME HandlerInv, HandleForward PROVE HandlerInv'
  <1> DEFINE next == held + 1
             batch == HandlerPoints(next) \cup {RfqPoint(id) : id \in TxsOf(next) \cap RfqTxs}
  <1>1. /\ ~backward /\ mode # "down" /\ held < tip
        /\ held' = next /\ queue' = queue \cup {batch}
        /\ UNCHANGED <<tip, mode, backward, start, pending, lossy, delivered>>
    BY DEF HandleForward, run
  <1>2. next \in Heights /\ next \in Nat
    <2>1. tip \in 1 .. Len(Blocks) /\ Len(Blocks) \in Nat /\ held \in Nat
      BY HandlerAssumption DEF HandlerInv, PositionInv, Heights, IsList
    <2> QED
      BY <1>1, <2>1 DEF Heights
  <1>3. batch \subseteq Points
    BY <1>2, WritesArePoints
  <1>4. ASSUME NEW id \in RfqTxs, id[1] = next PROVE RfqPoint(id) \in batch
    BY <1>4 DEF TxsOf, RfqTxs
  <1> HIDE DEF batch
  <1>5. PointsInv'
    BY <1>1, <1>3 DEF HandlerInv, PointsInv
  <1>6. KeptInv'
    <2> SUFFICES ASSUME ~lossy, NEW id \in RfqTxs, id[1] \in Handled'
                 PROVE  RfqPoint(id) \in delivered \cup UNION queue' \/ id \in pending
      BY <1>1 DEF KeptInv
    <2>1. id[1] \in Handled \/ id[1] = next
      BY <1>1, IdFields DEF Handled, HandlerInv, PositionInv, RfqTxs
    <2>2. CASE id[1] \in Handled
      BY <1>1, <2>2 DEF HandlerInv, KeptInv
    <2>3. CASE id[1] = next
      BY <1>1, <1>4, <2>3
    <2> QED
      BY <2>1, <2>2, <2>3
  <1>7. WaitInv' /\ PositionInv'
    BY <1>1, <1>2 DEF HandlerInv, WaitInv, PositionInv
  <1> QED
    BY <1>5, <1>6, <1>7 DEF HandlerInv

LEMMA BackwardKeepsInv == ASSUME HandlerInv, HandleBackward PROVE HandlerInv'
  <1> DEFINE waiting == pending \cup (TxsOf(held) \cap RfqTxs)
             ready == Resolved(waiting, held - 1)
             batch == HandlerPoints(held) \cup {RfqPoint(id) : id \in ready}
  <1>1. /\ backward /\ mode # "down" /\ StopHeight <= held /\ held <= tip
        /\ held' = held - 1 /\ queue' = queue \cup {batch} /\ pending' = waiting \ ready
        /\ UNCHANGED <<tip, mode, backward, start, lossy, delivered>>
    BY DEF HandleBackward, run
  <1>2. held \in Heights /\ held \in Nat /\ held - 1 \in Nat /\ StopHeight \in Nat
    <2>1. /\ tip \in 1 .. Len(Blocks) /\ Len(Blocks) \in Nat /\ held \in Nat
          /\ StopHeight \in 1 .. Len(Blocks)
      BY HandlerAssumption DEF HandlerInv, PositionInv, Heights, IsList
    <2> QED
      BY <1>1, <2>1 DEF Heights
  <1>3. waiting \subseteq RfqTxs /\ ready \subseteq waiting
    BY DEF HandlerInv, WaitInv, Resolved
  <1>4. batch \subseteq Points
    BY <1>2, <1>3, WritesArePoints
  <1>5. \A id \in ready : RfqPoint(id) \in batch
    OBVIOUS
  <1>6. \A id \in RfqTxs : id[1] = held => id \in waiting
    BY DEF TxsOf, RfqTxs
  <1>7. held - 1 < StopHeight => waiting \subseteq ready
    BY DEF Resolved
  <1>8. pending \subseteq waiting
    OBVIOUS
  <1> HIDE DEF waiting, ready, batch
  <1>9. PointsInv'
    BY <1>1, <1>4 DEF HandlerInv, PointsInv
  <1>10. KeptInv'
    <2> SUFFICES ASSUME ~lossy, NEW id \in RfqTxs, id[1] \in Handled'
                 PROVE  RfqPoint(id) \in delivered \cup UNION queue' \/ id \in pending'
      BY <1>1 DEF KeptInv
    <2>1. id[1] \in Handled \/ id[1] = held
      BY <1>1, <1>2, IdFields DEF Handled, HandlerInv, PositionInv, RfqTxs
    <2>2. CASE id \in waiting
      BY <1>1, <1>5, <2>2
    <2>3. CASE RfqPoint(id) \in delivered \cup UNION queue
      BY <1>1, <2>3
    <2>4. CASE id[1] \in Handled
      <3>1. RfqPoint(id) \in delivered \cup UNION queue \/ id \in pending
        BY <1>1, <2>4 DEF HandlerInv, KeptInv
      <3> QED
        BY <1>8, <2>2, <2>3, <3>1
    <2> QED
      BY <1>6, <2>1, <2>2, <2>4
  <1>11. WaitInv'
    BY <1>1, <1>2, <1>3, <1>7 DEF WaitInv
  <1>12. PositionInv'
    BY <1>1, <1>2 DEF HandlerInv, PositionInv
  <1> QED
    BY <1>9, <1>10, <1>11, <1>12 DEF HandlerInv

LEMMA StartKeepsInv ==
  ASSUME HandlerInv, NEW m, NEW b \in BOOLEAN, NEW rewindFrom \in RewindFroms,
         StartRun(m, b, rewindFrom)
  PROVE  HandlerInv'
  <1>1. FirstKept(b, rewindFrom) \in Nat
    <2>1. tip \in Nat \ {0} /\ rewindFrom \in Nat
      BY HandlerAssumption, HeightsAreNat DEF HandlerInv, PositionInv
    <2> QED
      BY <2>1 DEF FirstKept
  <1>2. /\ backward' = b /\ start' = FirstKept(b, rewindFrom) /\ held' = start' /\ pending' = {}
        /\ UNCHANGED <<tip, queue, delivered>>
    BY DEF StartRun
  <1>3. \A h \in Nat : h \notin Handled'
    BY <1>1, <1>2 DEF Handled
  <1>4. KeptInv'
    BY <1>3, IdFields DEF KeptInv, RfqTxs
  <1>5. PointsInv' /\ WaitInv' /\ PositionInv'
    BY <1>1, <1>2 DEF HandlerInv, PointsInv, WaitInv, PositionInv
  <1> QED
    BY <1>4, <1>5 DEF HandlerInv

LEMMA EndKeepsInv == ASSUME HandlerInv, RunEnds PROVE HandlerInv'
  BY DEF RunEnds, HandlerInv, PointsInv, KeptInv, WaitInv, PositionInv

LEMMA GrowthKeepsInv == ASSUME HandlerInv, ChainGrows PROVE HandlerInv'
  BY DEF ChainGrows, run, HandlerInv, PointsInv, KeptInv, Handled, WaitInv, PositionInv

LEMMA DeliverKeepsInv ==
  ASSUME HandlerInv, NEW batch \in queue, Deliver(batch)
  PROVE  HandlerInv'
  <1>1. /\ delivered' = delivered \cup batch /\ queue' \in {queue, queue \ {batch}}
        /\ UNCHANGED <<tip, mode, backward, start, held, pending, lossy>>
    BY DEF Deliver, run
  <1>2. delivered' \cup UNION queue' = delivered \cup UNION queue
    BY <1>1
  <1>3. Handled' = Handled
    BY <1>1 DEF Handled
  <1> QED
    BY <1>1, <1>2, <1>3 DEF HandlerInv, PointsInv, KeptInv, WaitInv, PositionInv

LEMMA DropKeepsInv ==
  ASSUME HandlerInv, NEW batch \in queue, Drop(batch)
  PROVE  HandlerInv'
  BY DEF Drop, run, HandlerInv, PointsInv, KeptInv, WaitInv, PositionInv

LEMMA NextInv == HandlerInv /\ [Next]_vars => HandlerInv'
  <1> SUFFICES ASSUME HandlerInv, [Next]_vars PROVE HandlerInv'
    OBVIOUS
  <1>1. CASE UNCHANGED vars
    BY <1>1 DEF vars, run, HandlerInv, PointsInv, KeptInv, Handled, WaitInv, PositionInv
  <1> QED
    BY <1>1, ForwardKeepsInv, BackwardKeepsInv, StartKeepsInv, EndKeepsInv, GrowthKeepsInv,
       DeliverKeepsInv, DropKeepsInv DEF Next

THEOREM HandlerInvariance == Spec => []HandlerInv
  BY InitInv, NextInv, PTL DEF Spec

\* Counts over the rows of these measurements are exact over every sequence of runs:
\* the offsets of rfq_points.go 124-126 and 263 keep transactions and quotes apart.
THEOREM CountsStayExact == Spec => []CountsExact
  <1>1. HandlerInv => CountsExact
    BY RowsApart DEF HandlerInv, PointsInv, CountsExact, RowsExact, Exact
  <1> QED
    BY <1>1, HandlerInvariance, PTL

\* A run that lost nothing has written every RFQ transaction from its first pair on,
\* whatever was pending in between (rfq_points.go 63-107).
THEOREM RunsAreComplete == Spec => []RunComplete
  <1>1. ASSUME HandlerInv PROVE RunComplete
    <2> SUFFICES ASSUME mode # "down", queue = {}, ~lossy, backward => held < StopHeight,
                        NEW id \in RfqTxs, id[1] \in Handled
                 PROVE  RfqPoint(id) \in delivered
      BY DEF RunComplete, Handled
    <2>1. RfqPoint(id) \in delivered \/ id \in pending
      BY <1>1 DEF HandlerInv, KeptInv
    <2>2. pending = {}
      BY <1>1, HandlerAssumption, HeightsAreNat DEF HandlerInv, WaitInv, PositionInv
    <2> QED
      BY <2>1, <2>2
  <1> QED
    BY <1>1, HandlerInvariance, PTL

=============================================================================
