---------------------------- MODULE MCCorrelator ----------------------------
(* Model-checking instance of Correlator: the prices are interchangeable.  *)
EXTENDS CorrelatorStream, TLC

Symmetry == Permutations(Prices)
=============================================================================
