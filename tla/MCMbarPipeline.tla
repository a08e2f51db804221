---- MODULE MCMbarPipeline ----
(* MbarPipeline on a small instance: two threads on each side, a ring of     *)
(* two stages and enough items to reuse every stage twice, so that parities  *)
(* repeat.                                                                   *)
EXTENDS MbarPipeline
====
