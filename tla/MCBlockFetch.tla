---------------------------- MODULE MCBlockFetch ----------------------------
(***************************************************************************)
(* Model checking of one call of fetchBlockByNum.                          *)
(***************************************************************************)
EXTENDS BlockFetch

=============================================================================
