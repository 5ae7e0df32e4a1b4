----------------------------- MODULE RfqErrors -----------------------------
(***************************************************************************)
(* The classification of RFQ errors of pkg/coremon/rfq.go.  A log is what  *)
(* the patterns tell apart: the phrases it consists of, from the outermost *)
(* wrapper to the innermost reason ("says"), the limits in time that they  *)
(* name with numbers ("limits"), and those named in the text of the        *)
(* execute message that the chain quotes in the log ("quoted").            *)
(***************************************************************************)
EXTENDS Integers, FiniteSetsExt, SequencesExt

Pattern(on, class, key) == [on |-> on, class |-> class, key |-> key]

StalePatterns ==
  <<Pattern({"quote_expired"}, "stale", "quote_expired"),
    Pattern({"nonce_outside_window"}, "stale", "rfq_id_outside_window"),
    Pattern({"nonce_too_old"}, "stale", "maker_nonce_too_old"),
    Pattern({"signed_intent_deadline_has_passed"}, "stale", "intent_deadline_passed")>>

ClockPatterns == <<Pattern({"nonce_far_into_the_future"}, "clock", "nonce_in_future")>>

ReplayPatterns ==
  <<Pattern({"nonce_already_used"}, "replay", "nonce_already_used"),
    Pattern({"nonce_too_low"}, "replay", "nonce_too_low"),
    Pattern({"quote_duplicated"}, "replay", "quote_duplicated"),
    Pattern({"Stale_signed_intent_epoch"}, "intent", "stale_epoch"),
    Pattern({"Stale_signed_intent_lane_version"}, "intent", "stale_lane_version")>>

SignaturePatterns ==
  <<Pattern({"signature_verification_failed", "invalid_signature_length", "invalid_pubkey"},
            "signature", "invalid_signature")>>

PricePatterns ==
  <<Pattern({"outside_mark_price_band"}, "price", "mark_price_band"),
    Pattern({"is_worse_than_worst_price"}, "price", "worse_than_worst_price"),
    Pattern({"trigger_not_satisfied"}, "price", "trigger_not_satisfied"),
    Pattern({"multiple_of_market_minimum_price_tick"}, "price", "price_tick")>>

FillPatterns ==
  <<Pattern({"below_min_total_fill_quantity"}, "fill", "min_total_fill"),
    Pattern({"fill_below_maker_min_fill_quantity"}, "fill", "maker_min_fill"),
    Pattern({"below_market_min_notional"}, "fill", "min_notional"),
    Pattern({"multiple_of_market_minimum_quantity_tick"}, "fill", "quantity_tick"),
    Pattern({"reduce_only_quantity"}, "fill", "reduce_only_quantity"),
    Pattern({"insufficient_balance_to_fill_minimum_quantity"}, "funds", "maker_insufficient_balance")>>

FundsPatterns ==
  <<Pattern({"margin_ratio_is_below"}, "margin", "margin_below_required"),
    Pattern({"insufficient_funds", "exceeds_available_balance",
             "insufficient_balance_to_fill_minimum_quantity"}, "funds", "insufficient_funds")>>

MakerPatterns ==
  <<Pattern({"AuthZ"}, "authz", "maker_authz_grant"),
    Pattern({"Maker_not_registered"}, "maker", "not_registered")>>

SettlementPatterns ==
  <<Pattern({"settlement_subaccount_already_has_an_open_position"}, "settlement", "open_position"),
    Pattern({"settlement_failed", "settlement_subaccount_already_has_an_open_position"},
            "settlement", "other")>>

IntentPatterns ==
  <<Pattern({"signed_intent_mismatch", "signed_intent_deadline_has_passed",
             "Stale_signed_intent_epoch", "Stale_signed_intent_lane_version"},
            "intent", "invalid_intent"),
    Pattern({"atomic_order_partially_filled"}, "proxy", "atomic_order_partial_fill")>>

WrapperPatterns == <<Pattern({"No_quote_was_filled"}, "fill", "no_quote_filled")>>

OtherPatterns ==
  <<Pattern({"Unauthorized"}, "input", "unauthorized"),
    Pattern({"must_be_positive", "invalid_signature_length", "invalid_pubkey",
             "exceeds_available_balance"}, "input", "invalid_input"),
    Pattern({"out_of_gas"}, "chain", "out_of_gas")>>

\* Mutant: the wrapper is looked for before what may be inside of it.
ErrPatternsWrapperFirst ==
  StalePatterns \o ClockPatterns \o ReplayPatterns \o WrapperPatterns \o SignaturePatterns
    \o PricePatterns \o FillPatterns \o FundsPatterns \o MakerPatterns
    \o SettlementPatterns \o IntentPatterns \o OtherPatterns

\* rfqErrPatterns, in the order in which they are tried.
ErrPatterns ==
  StalePatterns \o ClockPatterns \o ReplayPatterns \o SignaturePatterns \o PricePatterns
    \o FillPatterns \o FundsPatterns \o MakerPatterns \o SettlementPatterns
    \o IntentPatterns \o WrapperPatterns \o OtherPatterns

Phrases == UNION {ErrPatterns[i].on : i \in DOMAIN ErrPatterns}

Matching(log) == {i \in DOMAIN ErrPatterns : ErrPatterns[i].on \cap ToSet(log.says) # {}}

\* classifyRFQError: the first pattern that matches, outside the quoted message.
Classify(log) ==
  IF Matching(log) = {} THEN [class |-> "other", key |-> "unknown", stale |-> FALSE]
  ELSE LET p == ErrPatterns[Min(Matching(log))]
       IN [class |-> p.class, key |-> p.key, stale |-> p.class = "stale"]

\* classifyRFQTxFailure: outside of the contract the codespace is the class.
ClassifyFailure(codespace, log) ==
  IF codespace = "wasm" THEN Classify(log)
  ELSE [class |-> codespace, key |-> codespace, stale |-> FALSE]

\* wasmErrorTemplate: the innermost reason, without its numbers.
ErrorTemplate(log) == IF log.says = <<>> THEN "unknown" ELSE Last(log.says)

-----------------------------------------------------------------------------
(* staleLateBy. *)

\* A quote or an intent that ended at "until", or the window for request ids.  All of
\* them, and the ids, are milliseconds that fit into 63 bits.
Expiry(until, current) == [kind |-> "expiry", until |-> until, current |-> current]
Window(from, until) == [kind |-> "window", from |-> from, until |-> until]

\* What one limit considers; an id within its window considers nothing.
Lateness(limit, id) ==
  IF limit.kind = "expiry" THEN {limit.current - limit.until}
  ELSE IF id = 0 THEN {}
  ELSE IF id < limit.from THEN {limit.from - id}
  ELSE IF id > limit.until THEN {limit.until - id}
  ELSE {}

\* The text is searched as it is, with the message it quotes.
Limits(log) == log.limits \cup log.quoted

Latenesses(log, id) == UNION {Lateness(limit, id) : limit \in Limits(log)}

\* Mutant: the most late limit decides.
LatestOf(lates) == Max(lates)

\* Of several limits the least late one decides.
LeastOf(lates) == Min(lates)

StaleLateBy(log, id) ==
  LET lates == Latenesses(log, id)
  IN [found |-> lates # {}, by |-> IF lates = {} THEN 0 ELSE LeastOf(lates)]

=============================================================================
