---------------------------- MODULE MCLanAdapter ----------------------------
(* An EEPROM for model checking LanAdapter: no two bytes are equal, and no  *)
(* byte is its own reverse.                                                 *)
EXTENDS LanAdapter, TLC

MCRom == (0 :> <<0, 208>>) @@ (1 :> <<241, 2>>) @@ (2 :> <<35, 135>>)
=============================================================================
