-------------------------- MODULE MCBlockTimeCache --------------------------
(***************************************************************************)
(* Model checking of the cache with blocks added in any order.             *)
(***************************************************************************)
EXTENDS BlockTimeCache

\* A chain whose block times are two or three units apart, so that there are
\* timestamps on a block and between blocks.
MCBlockTime == [h \in 1 .. 40 |-> 2 * h + (h \div 4)]

=============================================================================
