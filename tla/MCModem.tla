------------------------------ MODULE MCModem ------------------------------
(* Telephone numbers for model checking Modem.                             *)
EXTENDS Modem

\* A digit the engine sends, and one the transmit interrupt sends.
MCNumber == {<<1, 2>>}
=============================================================================
