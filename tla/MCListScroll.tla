---------------------------- MODULE MCListScroll ----------------------------
(* Small instances of ListScroll for TLC.                                  *)
EXTENDS ListScroll
=============================================================================
