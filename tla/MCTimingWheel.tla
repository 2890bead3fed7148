--------------------------- MODULE MCTimingWheel ---------------------------
(***************************************************************************)
(* Three wheels of 4, 2 and 2 slots: delays up to 16 ticks, every cascade  *)
(* (3 to 2, 3 to 1, 2 to 1) and more than one turn of wheel 1 happen.      *)
(***************************************************************************)
EXTENDS TimingWheel

ThreeWheels == <<4, 2, 2>>
=============================================================================
