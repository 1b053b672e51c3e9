---- MODULE MCHeaderStore ----
(***************************************************************************)
(* Instances of HeaderStore for TLC.  Two branches leave genesis: a1, a2    *)
(* and b1; x has a bad proof of work.                                       *)
(***************************************************************************)
EXTENDS HeaderStore, TLC

CONSTANTS a1, a2, b1, x, genesis

MCHeaders  == {a1, a2, b1, x}
MCValidPoW == {a1, a2, b1}
MCPrevOf   == (a1 :> genesis) @@ (a2 :> a1) @@ (b1 :> genesis) @@ (x :> a2)

\* Every list of one to three headers, repeats and disorder included.
AllBatches == UNION {[1 .. n -> MCHeaders] : n \in 1 .. 3}

\* What peers on either branch answer to the genesis locator.
HonestBatches == {<<a1>>, <<a1, a2>>, <<b1>>}
====
