--------------------------- MODULE MCBlockWatcher ---------------------------
(***************************************************************************)
(* Model checking of the watcher together with its getter.                 *)
(***************************************************************************)
EXTENDS BlockWatcher

\* No rewind, and a rewind to the genesis block, to the height of the chain and
\* above it.
MCRewindFroms == {0, 1, InitTip, InitTip + 1}

=============================================================================
