----------------------------- MODULE MCConsoles -----------------------------
(* Process numbers for model checking Consoles.                            *)
EXTENDS Consoles

MCFewPids == 2..4
=============================================================================
