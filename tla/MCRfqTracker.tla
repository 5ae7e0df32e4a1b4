---------------------------- MODULE MCRfqTracker ----------------------------
(***************************************************************************)
(* Model checking of the RFQ tracker on a chain of seven blocks.           *)
(***************************************************************************)
EXTENDS RfqTracker

\* The chain, with an uneven pace.
MCBlockTime == <<2, 4, 6, 9, 11, 13, 16>>

=============================================================================
