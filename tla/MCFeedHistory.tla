---------------------------- MODULE MCFeedHistory ---------------------------
(* Model-checking instance of FeedHistory: the prices are interchangeable. *)
EXTENDS FeedHistory, TLC

Symmetry == Permutations(Prices)
=============================================================================
