----------------------------- MODULE MCExchange -----------------------------
(* Small instances of Exchange for TLC. Exchanges are interchangeable.     *)
EXTENDS Exchange, TLC

Symmetry == Permutations(Exchanges)
=============================================================================
