-------------------------- MODULE MCExchangeStore ---------------------------
(* Small instances of ExchangeStore for TLC.                               *)
EXTENDS ExchangeStore, TLC

(* The store orders exchanges by arrival, never by their ids.              *)
Symmetry == Permutations(Ids)
=============================================================================
