----------------------------- MODULE MCMonitors -----------------------------
(* The small instance of Monitors for TLC.                                 *)
EXTENDS Monitors
=============================================================================
