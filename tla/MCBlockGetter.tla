--------------------------- MODULE MCBlockGetter ---------------------------
(***************************************************************************)
(* Model checking of BlockGetter on its own, with a consumer that receives  *)
(* whenever it likes.                                                      *)
(***************************************************************************)
EXTENDS BlockGetter

\* The getter starts at the height of the chain or at the one to come.
MCStartHeights == {InitTip, InitTip + 1}

=============================================================================
