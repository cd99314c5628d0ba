---------------------------- MODULE MCTxFetcher ----------------------------
(* Instances of TxFetcher for TLC. *)
EXTENDS TxFetcher, TLC

Symmetry == Permutations(Peers) \cup Permutations(Hashes)
=============================================================================
