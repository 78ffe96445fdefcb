--------------------------- MODULE MCQ931Global ---------------------------
(* Model values for checking Q931Global.                                   *)
EXTENDS Q931Global

CONSTANTS b1, b2, b3

\* Three channels of the interface; b3 is in maintenance.
MCChans == {b1, b2, b3}
MCUnrestartable == {b3}
=============================================================================
