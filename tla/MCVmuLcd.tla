------------------------------ MODULE MCVmuLcd ------------------------------
(* An animation and a logo, for model checking VmuLcd.                      *)
EXTENDS VmuLcd

MCUsers == {"anim", "logo"}
MCAnimators == {"anim"}
MCFlips == {TRUE}
=============================================================================
