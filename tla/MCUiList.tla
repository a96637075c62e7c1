------------------------------ MODULE MCUiList ------------------------------
(* Small instances of UiList for TLC.                                      *)
EXTENDS UiList

KindsMC == {[path |-> "p", trace |-> "t"], [path |-> "p", trace |-> "u"],
            [path |-> "q", trace |-> "none"]}
=============================================================================
