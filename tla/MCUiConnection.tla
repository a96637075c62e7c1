--------------------------- MODULE MCUiConnection ---------------------------
(* Small instances of UiConnection for TLC.                                *)
EXTENDS UiConnection
=============================================================================
