--------------------------- MODULE MCBlockHandler ---------------------------
(***************************************************************************)
(* Model checking of the written points on a chain of six blocks.          *)
(***************************************************************************)
EXTENDS BlockHandler

Event(type, attrs, arity) == [type |-> type, attrs |-> attrs, arity |-> arity]

Msg(name, arity) == [name |-> name, arity |-> arity]

Transfer == Event("transfer", <<"amount", "amount">>, {})

\* A plain transaction, and RFQ ones with equal tags whose timestamps reach back.
Plain == [code |-> "ok", rfq |-> FALSE, quotes |-> <<>>, wasmFailed |-> FALSE, lag |-> 0,
          events |-> <<Transfer, Transfer>>,
          msgs |-> <<Msg("send", {}), Msg("update", {"cancel", "create"})>>]

Rfq(lag) == [code |-> "ok", rfq |-> TRUE, quotes |-> <<"m1", "m1">>, wasmFailed |-> FALSE,
             lag |-> lag, events |-> <<Event("wasm", <<"results">>, {})>>,
             msgs |-> <<Msg("accept", {})>>]

FailedRfq(lag) == [code |-> "wasm", rfq |-> TRUE, quotes |-> <<>>, wasmFailed |-> TRUE,
                   lag |-> lag, events |-> <<>>, msgs |-> <<Msg("accept", {})>>]

Trades == Event("trades", <<"trades">>, {"trades"})

Fees == Event("txfees", <<"base_fee">>, {})

Empty == [events |-> <<Fees>>, txs |-> <<>>]

MCBlocks ==
  <<Empty,
    [events |-> <<Fees, Trades>>, txs |-> <<Rfq(0)>>],
    [events |-> <<Fees>>, txs |-> <<Rfq(2), Rfq(0)>>],
    [events |-> <<Fees>>, txs |-> <<FailedRfq(1), FailedRfq(0), Plain, Plain>>],
    [events |-> <<Fees>>, txs |-> <<Plain, Rfq(1)>>],
    Empty>>

MCBlockNanos == <<10, 20, 30, 40, 50, 60>>

=============================================================================
