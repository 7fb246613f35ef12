----------------------------- MODULE CallService ----------------------------
(***************************************************************************)
(* What the modem driver promises to whoever supervises a call: a line     *)
(* that is on hook, being called, connected or being released, and a       *)
(* buffer of bytes that belongs to one connection.                         *)
(***************************************************************************)
EXTENDS Naturals

CONSTANT BufferSize

VARIABLES phase, transparent, buffered

vars == <<phase, transparent, buffered>>

Phase == {"onhook", "calling", "connected", "releasing"}

TypeOK == /\ phase \in Phase
          /\ transparent \in BOOLEAN
          /\ buffered \in 0..BufferSize

Init == phase = "onhook" /\ transparent = FALSE /\ buffered = 0

Call == /\ phase = "onhook"
        /\ phase' = "calling"
        /\ UNCHANGED <<transparent, buffered>>

\* A connection starts in data mode, with nothing left over to send.
Connect == /\ phase = "calling"
           /\ phase' = "connected"
           /\ transparent' = TRUE
           /\ UNCHANGED buffered

\* Our side hangs up a connection: it takes no more data while it is released.
Release == /\ phase = "connected"
           /\ phase' = "releasing"
           /\ transparent' = FALSE
           /\ UNCHANGED buffered

\* The call ends; what was not sent is discarded.
End == /\ phase # "onhook"
       /\ phase' = "onhook"
       /\ transparent' = FALSE
       /\ buffered' = 0

\* Change between data mode and on-line command mode; the buffer drains.
Transfer ==
  /\ phase = "connected"
  /\ buffered' \in 0..buffered
  /\ transparent' \in BOOLEAN
  /\ UNCHANGED phase

Accept ==
  /\ phase = "connected" /\ transparent
  /\ buffered' \in 0..BufferSize
  /\ UNCHANGED <<phase, transparent>>

Next == Call \/ Connect \/ Release \/ End \/ Transfer \/ Accept

\* Neither calling nor releasing lasts for ever.
Fairness == WF_vars(phase = "calling" /\ (Connect \/ End))
            /\ WF_vars(phase = "releasing" /\ End)

SafeSpec == Init /\ [][Next]_vars
Spec == SafeSpec /\ Fairness
=============================================================================
