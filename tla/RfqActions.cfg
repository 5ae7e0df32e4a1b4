SPECIFICATION Spec

CONSTANTS
  Contracts = {"rfq"}
  ProxyContracts = {"proxy"}
  Keys = {1, 2, 3}
  AcceptQuote = 2
  SignedIntent = 3
  MaxDepth = 2
  MinId = 10
  MaxId = 300
  Buckets <- MCBuckets
  BlockTime = 200
  Txs <- MCTxs

INVARIANTS
  RerunsAgree
  FindsFirst
  InnerReasonWins
  LeastLate

CHECK_DEADLOCK FALSE
