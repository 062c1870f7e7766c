----------------------------- MODULE MCBatcher -----------------------------
(* Batcher on small instances.  Producers differ only in name.              *)
EXTENDS Batcher, TLC

ProducerSymmetry == Permutations(Producers)
=============================================================================
