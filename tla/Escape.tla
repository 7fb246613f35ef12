------------------------------- MODULE Escape -------------------------------
(***************************************************************************)
(* The escape detection of the modem driver's data mode.                   *)
(***************************************************************************)
EXTENDS Naturals

\* dcm_tty_write's count of the plus signs seen, after one more byte: the
\* first one counts only after a guard time without data.
PlusAfter(count, silent, byte) ==
  IF byte = "+" /\ count < 3 /\ (count > 0 \/ silent) THEN count + 1 ELSE 0

\* dcm_poll's condition for going to on-line command mode.
Escapes(count, silent) == count = 3 /\ silent
=============================================================================
