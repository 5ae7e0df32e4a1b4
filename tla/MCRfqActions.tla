---------------------------- MODULE MCRfqActions ----------------------------
(***************************************************************************)
(* Model checking of the RFQ transactions: every small document, every log *)
(* of two reasons in a wrapper, and memos.  Each set varies one part of    *)
(* the transaction and keeps the others at a default.                      *)
(***************************************************************************)
EXTENDS RfqActions

MCBuckets == {0, 1, 2, 3, 5, 10, 30, 60}

-----------------------------------------------------------------------------
(* Messages. *)

Paths == UNION {[1 .. n -> Keys] : n \in 1 .. 3}

Objects(path) == Prefixes(path) \ {<<>>}

\* Documents with at most two leaves.
SmallDocs == {Objects(p) \cup Objects(q) : p, q \in Paths} \cup {{}}

\* The arguments differ with the place they are found at.
IdAt(path) == BlockTime - FoldLeft(LAMBDA id, k : 4 * id + k, 0, path)

ArgsOf(doc) ==
  [path \in doc |-> [parses |-> Len(path) # 3 \/ path[1] # 3, id |-> IdAt(path), quotes |-> Len(path)]]

Call(contract, doc) ==
  [exec |-> TRUE, parses |-> TRUE, contract |-> contract, sender |-> "taker",
   doc |-> doc, args |-> ArgsOf(doc)]

Unparsed(contract) == [Call(contract, {}) EXCEPT !.parses = FALSE]

Send == [Call("none", {}) EXCEPT !.exec = FALSE]

Accept(id) ==
  [Call("rfq", {<<AcceptQuote>>}) EXCEPT
     !.args = [path \in {<<AcceptQuote>>} |-> [parses |-> TRUE, id |-> id, quotes |-> 1]]]

\* One call, or calls next to others and inside of an authz message.
Messagings ==
  {<<<<Call(contract, doc)>>>> : contract \in {"rfq", "proxy"}, doc \in SmallDocs}
    \cup {<<<<a>>, <<b, c>>>> :
            a \in {Send, Unparsed("proxy"), Call("other", {<<1>>})},
            b \in {Send, Call("rfq", {<<1>>}), Call("rfq", {<<AcceptQuote>>, <<SignedIntent>>}),
                   Call("proxy", {<<1>>, <<SignedIntent>>})},
            c \in {Call("rfq", {<<SignedIntent>>}), Accept(0)}}

-----------------------------------------------------------------------------
(* Logs. *)

Log(says) == [says |-> says, limits |-> {}, quoted |-> {}]

Wrapper == "No_quote_was_filled"

\* One or two quotes rejected for any reason, in the wrapper and on their own.
ReasonLogs ==
  LET reasons == {<<>>} \cup [1 .. 1 -> Phrases] \cup [1 .. 2 -> Phrases]
  IN {Log(says) : says \in reasons} \cup {Log(<<Wrapper>> \o says) : says \in reasons}

Expiries == {Expiry(BlockTime - 1, BlockTime), Expiry(BlockTime - 4, BlockTime)}

\* A log with limits says so, next to another reason; the quoted message may hold the
\* text of an expiry as well.
TimedLogs ==
  {[says |-> says, limits |-> limits, quoted |-> quoted] :
     says \in {<<Wrapper, "nonce_far_into_the_future", "quote_expired">>,
               <<Wrapper, "quote_expired", "outside_mark_price_band">>},
     limits \in SUBSET Expiries \ {{}},
     quoted \in {{}, {Expiry(BlockTime - 2, BlockTime)}}}
    \cup {[says |-> <<phrase>>, limits |-> {limit}, quoted |-> quoted] :
            phrase \in {"nonce_outside_window"}, limit \in {Window(BlockTime - 3, BlockTime + 3)},
            quoted \in {{}, {Expiry(BlockTime - 2, BlockTime)}}}
    \cup {[says |-> <<"settlement_failed", "signed_intent_deadline_has_passed">>,
           limits |-> {limit}, quoted |-> {}] : limit \in Expiries}

Ids == {0} \cup (BlockTime - 6) .. (BlockTime + 6)

-----------------------------------------------------------------------------
(* Memos. *)

NoMemo == [form |-> "empty", token |-> FALSE, sources |-> <<>>, t |-> 0]

Memos ==
  [form : {"empty", "text", "json", "broken"}, token : BOOLEAN,
   sources : {<<>>, <<"w">>, <<"m", "w">>}, t : {0, BlockTime - 4, BlockTime + 2}]

-----------------------------------------------------------------------------

Tx(msgs, memo, codespace, log, results) ==
  [msgs |-> msgs, memo |-> memo, codespace |-> codespace, log |-> log, results |-> results]

Filled == [maker |-> "m1", rejected |-> FALSE, log |-> Log(<<>>)]

Rejected(log) == [maker |-> "m2", rejected |-> TRUE, log |-> log]

MCTxs ==
  {Tx(msgs, NoMemo, codespace, Log(<<"quote_expired">>), <<>>) :
     msgs \in Messagings, codespace \in {"", "wasm"}}
    \cup {Tx(<<<<Accept(BlockTime - 5)>>>>, NoMemo, "wasm", log, <<>>) : log \in ReasonLogs}
    \cup {Tx(<<<<Accept(id)>>>>, NoMemo, codespace, log, <<>>) :
            id \in Ids, codespace \in {"wasm", "sdk"}, log \in TimedLogs}
    \cup {Tx(<<<<Accept(id)>>>>, NoMemo, "", Log(<<>>),
             <<<<Rejected(log), Filled>>, <<Rejected(Log(<<"nonce_too_old">>))>>>>) :
            id \in Ids, log \in TimedLogs}
    \cup {Tx(<<<<Accept(id)>>>>, memo, "", Log(<<>>), <<<<Filled>>>>) :
            id \in {0, BlockTime - 8}, memo \in Memos}

=============================================================================
