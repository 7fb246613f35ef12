---------------------------- MODULE ModemProofs -----------------------------
(***************************************************************************)
(* Proofs about Modem, for any telephone numbers, any FIFO and command     *)
(* buffer sizes and both settings of CLOCAL: the variables keep their      *)
(* types; the inductive invariant IInv and the properties that follow from *)
(* it; and that the driver implements the safety part of CallService.      *)
(***************************************************************************)
EXTENDS Modem, TLAPS

-----------------------------------------------------------------------------
(* Types: every index stays inside its buffer.                             *)

LEMMA InitTypes == Init => TypeOK
<1> SUFFICES ASSUME Init PROVE TypeOK
  OBVIOUS
<1> USE DEF Init
<1>1. FlagsOK
  BY DEF FlagsOK
<1>2. ValuesOK
  BY ModemAssumption DEF ValuesOK, State, Request
<1>3. QED
  BY <1>1, <1>2 DEF TypeOK

\* dcm_dial_next keeps the number and the position in it well-typed.
LEMMA DialNextType ==
  ASSUME TypeOK, DialNext
  PROVE  digits' \in Seq(Nat) /\ digit_pos' \in Nat /\ dialled' \in Seq(Nat)
<1>1. CASE digit_pos < Len(digits)
  <2>1. digits[digit_pos + 1] \in Nat
    BY <1>1 DEF TypeOK, ValuesOK
  <2>2. /\ dialled' = Append(dialled, digits[digit_pos + 1])
        /\ digit_pos' = digit_pos + 1
        /\ digits' = digits
    BY <1>1 DEF DialNext
  <2>3. QED
    BY <2>1, <2>2 DEF TypeOK, ValuesOK
<1>2. CASE ~(digit_pos < Len(digits))
  BY <1>2 DEF DialNext, dialVars, TypeOK, ValuesOK
<1>3. QED
  BY <1>1, <1>2

\* A request stays a set of request bits, however it comes about.
LEMMA RequestType ==
  ASSUME TypeOK,
         \/ \E r \in SUBSET Request : DoRequest(r)
         \/ NoRequest \/ AtAbort \/ AtNothing \/ DropDtr
  PROVE  req' \in SUBSET Request /\ pending' \in BOOLEAN
<1>1. ASSUME NEW r \in SUBSET Request, DoRequest(r)
      PROVE  req' \in SUBSET Request /\ pending' \in BOOLEAN
  BY <1>1 DEF DoRequest, TypeOK, ValuesOK
<1>2. ASSUME NoRequest PROVE req' \in SUBSET Request /\ pending' \in BOOLEAN
  BY <1>2 DEF NoRequest, TypeOK, ValuesOK, FlagsOK
<1>3. QED
  BY <1>1, <1>2 DEF AtAbort, AtNothing, DropDtr, Request

\* dcm_tx only drains the FIFO.
LEMMA TxType ==
  ASSUME NEW have \in Nat, NEW waits \in BOOLEAN, Tx(have, waits)
  PROVE  txfifo' \in 0..have /\ blocked' \in BOOLEAN
<1> PICK n \in 0..have : txfifo' = have - n /\ blocked' = (waits /\ n = 0)
  BY DEF Tx
<1>1. txfifo' \in 0..have
  OBVIOUS
<1>2. blocked' \in BOOLEAN
  BY Zenon
<1>3. QED
  BY <1>1, <1>2

\* The flags a poll changes keep their types.
LEMMA PollFlags ==
  ASSUME TypeOK, Poll
  PROVE  /\ expired' \in BOOLEAN /\ data_mode' \in BOOLEAN /\ guard' \in BOOLEAN
         /\ ra' \in BOOLEAN /\ tdbie' \in BOOLEAN /\ blocked' \in BOOLEAN
         /\ hup' \in BOOLEAN /\ owed' \in BOOLEAN
<1> USE ModemAssumption DEF TypeOK, FlagsOK, ValuesOK, State
<1> USE DEF Keep, Stay, StillOwed, Enter, dialVars, escVars
<1>1. CASE PollIdle
  BY <1>1 DEF PollIdle
<1>2. CASE PollDialPause
  BY <1>2 DEF PollDialPause, DialNext
<1>3. CASE PollWaitAnswer
  BY <1>3 DEF PollWaitAnswer, CallEnded, DropLine
<1>4. CASE PollAnswerHold
  BY <1>4 DEF PollAnswerHold
<1>5. CASE PollTraining
  BY <1>5, ZenonT(30) DEF PollTraining, CallEnded, DropLine
<1>6. CASE PollSettle
  BY <1>6 DEF PollSettle, GoOnline, CallEnded, DropLine
<1>7. CASE PollOnline
  <2>1. CASE CallEnded
    BY <2>1 DEF CallEnded, DropLine
  <2>2. CASE PollData
    <3>1. txfifo \in Nat /\ blocked \in BOOLEAN
      OBVIOUS
    <3>2. blocked' \in BOOLEAN
      BY <2>2, <3>1, TxType DEF PollData
    <3>3. QED
      BY <2>2, <3>2 DEF PollData
  <2>3. QED
    BY <1>7, <2>1, <2>2 DEF PollOnline
<1>8. QED
  BY <1>1, <1>2, <1>3, <1>4, <1>5, <1>6, <1>7 DEF Poll

LEMMA FlagsStep == TypeOK /\ [Next]_vars => FlagsOK'
<1> SUFFICES ASSUME TypeOK, [Next]_vars PROVE FlagsOK'
  OBVIOUS
<1> USE ModemAssumption DEF TypeOK, FlagsOK, ValuesOK, State
<1> USE DEF callVars, dialVars, escVars, workVars, ttyVars
<1>1. CASE WorkTake
  BY <1>1 DEF WorkTake
<1>2. CASE HangupOnline
  BY <1>2 DEF HangupOnline, Enter
<1>3. CASE HangupOffline
  BY <1>3 DEF HangupOffline, DropLine, AfterHangup
<1>4. CASE HangupDone
  BY <1>4 DEF HangupDone, DropLine, AfterHangup
<1>5. CASE StartOffHook
  BY <1>5 DEF StartOffHook
<1>6. CASE StartDialPause
  BY <1>6 DEF StartDialPause, Enter
<1>7. CASE WorkFinish
  BY <1>7, PollFlags DEF WorkFinish
<1>8. CASE Interrupt
  <2>1. UNCHANGED <<expired, data_mode, guard, ra, rlsd, open, hup, owed>>
    BY <1>8 DEF Interrupt
  <2>2. tdbie' \in BOOLEAN
    BY <1>8 DEF Interrupt, DialNext
  <2>3. txfifo \in Nat /\ blocked \in BOOLEAN
    OBVIOUS
  <2>4. blocked' \in BOOLEAN
    BY <1>8, <2>3, TxType DEF Interrupt
  <2>5. pending' \in BOOLEAN
    BY <1>8 DEF Interrupt
  <2>6. QED
    BY <2>1, <2>2, <2>4, <2>5
<1>9. CASE Open
  BY <1>9 DEF Open
<1>10. CASE Close
  BY <1>10, RequestType DEF Close, DropDtr
<1>11. CASE ClearDtr
  BY <1>11, RequestType DEF ClearDtr, DropDtr
<1>12. CASE WriterInterrupted
  BY <1>12 DEF WriterInterrupted
<1>13. ASSUME NEW byte \in {"+", "x"}, WriteData(byte) PROVE FlagsOK'
  BY <1>13 DEF WriteData, Tx, PlusAfter
<1>14. CASE AtLine
  <2>1. CASE AtAbort
    BY <1>14, <2>1, RequestType DEF AtLine, AtAbort
  <2>2. CASE AtNothing
    BY <1>14, <2>2, RequestType, ModemAssumption DEF AtLine, AtNothing
  <2>3. ASSUME NEW number \in Numbers, AtDial(number) PROVE FlagsOK'
    <3>1. req' \in SUBSET Request /\ pending' \in BOOLEAN
      BY <2>3, RequestType DEF AtDial, Request
    <3>2. QED
      BY <1>14, <2>3, <3>1, ZenonT(30) DEF AtLine, AtDial
  <2>4. CASE AtHangup
    <3>1. req' \in SUBSET Request /\ pending' \in BOOLEAN
      BY <2>4, RequestType DEF AtHangup, Request
    <3>2. QED
      BY <1>14, <2>4, <3>1, ModemAssumption DEF AtLine, AtHangup
  <2>5. CASE AtOnline
    <3>1. req' \in SUBSET Request /\ pending' \in BOOLEAN
      BY <2>5, RequestType DEF AtOnline
    <3>2. QED
      BY <1>14, <2>5, <3>1, ModemAssumption DEF AtLine, AtOnline
  <2>6. QED
    BY <1>14, <2>1, <2>2, <2>3, <2>4, <2>5 DEF AtLine
<1>15. CASE AtKey
  <2>1. req' \in SUBSET Request /\ pending' \in BOOLEAN
    BY <1>15, RequestType DEF AtKey
  <2>2. cmd_len' \in 0..CmdMax
    BY <1>15, ModemAssumption DEF AtKey, AtAbort
  <2>3. QED
    BY <1>15, <2>1, <2>2 DEF AtKey, AtAbort, AtNothing
<1>16. CASE AtErase
  <2>1. req' \in SUBSET Request /\ pending' \in BOOLEAN
    BY <1>16, RequestType DEF AtErase
  <2>2. cmd_len' \in 0..CmdMax
    BY <1>16, ModemAssumption DEF AtErase, AtAbort
  <2>3. QED
    BY <1>16, <2>1, <2>2 DEF AtErase, AtAbort, AtNothing
<1>17. CASE AtLineEnd
  <2>1. req' \in SUBSET Request /\ pending' \in BOOLEAN
    BY <1>17, RequestType DEF AtLineEnd
  <2>2. QED
    BY <1>17, <2>1, ModemAssumption DEF AtLineEnd, AtNothing
<1>18. CASE TtyHangup
  BY <1>18, RequestType DEF TtyHangup, DropDtr
<1>19. CASE CarrierUp \/ CarrierDown
  <2>1. CASE CarrierUp
    BY <2>1 DEF CarrierUp
  <2>2. CASE CarrierDown
    BY <2>2 DEF CarrierDown
  <2>3. QED
    BY <1>19, <2>1, <2>2
<1>20. CASE DeadlinePasses
  BY <1>20 DEF DeadlinePasses
<1>21. CASE RetrainOverdue
  BY <1>21 DEF RetrainOverdue
<1>22. CASE GuardPasses
  BY <1>22 DEF GuardPasses
<1>23. CASE UNCHANGED vars
  BY <1>23 DEF vars
<1>24. QED
  BY <1>1, <1>2, <1>3, <1>4, <1>5, <1>6, <1>7, <1>8, <1>9, <1>10, <1>11,
     <1>12, <1>13, <1>14, <1>15, <1>16, <1>17, <1>18, <1>19, <1>20, <1>21,
     <1>22, <1>23 DEF Next, Work, Others, User, Clock

\* The other variables a poll changes keep their types.
LEMMA PollValues ==
  ASSUME TypeOK, Poll
  PROVE  /\ state' \in State
         /\ retrain' \in {"none", "running", "overdue"}
         /\ digits' \in Seq(Nat) /\ digit_pos' \in Nat /\ dialled' \in Seq(Nat)
         /\ plus_count' \in 0..3
         /\ txfifo' \in 0..TxFifoSize
<1> USE ModemAssumption DEF TypeOK, FlagsOK, ValuesOK, State
<1> USE DEF Keep, Stay, StillOwed, Enter, dialVars, escVars
<1>1. CASE PollIdle
  BY <1>1 DEF PollIdle
<1>2. CASE PollDialPause
  BY <1>2, DialNextType DEF PollDialPause
<1>3. CASE PollWaitAnswer
  BY <1>3 DEF PollWaitAnswer, CallEnded, DropLine
<1>4. CASE PollAnswerHold
  BY <1>4 DEF PollAnswerHold
<1>5. CASE PollTraining
  BY <1>5 DEF PollTraining, CallEnded, DropLine
<1>6. CASE PollSettle
  BY <1>6 DEF PollSettle, GoOnline, CallEnded, DropLine
<1>7. CASE PollOnline
  BY <1>7 DEF PollOnline, PollData, Tx, CallEnded, DropLine
<1>8. QED
  BY <1>1, <1>2, <1>3, <1>4, <1>5, <1>6, <1>7 DEF Poll

LEMMA ValuesStep == TypeOK /\ [Next]_vars => ValuesOK'
<1> SUFFICES ASSUME TypeOK, [Next]_vars PROVE ValuesOK'
  OBVIOUS
<1> USE ModemAssumption DEF TypeOK, FlagsOK, ValuesOK, State
<1> USE DEF callVars, dialVars, escVars, workVars, ttyVars
<1>1. CASE WorkTake
  BY <1>1 DEF WorkTake
<1>2. CASE HangupOnline
  BY <1>2 DEF HangupOnline, Enter
<1>3. CASE HangupOffline
  BY <1>3 DEF HangupOffline, DropLine, AfterHangup
<1>4. CASE HangupDone
  BY <1>4 DEF HangupDone, DropLine, AfterHangup
<1>5. CASE StartOffHook
  BY <1>5 DEF StartOffHook
<1>6. CASE StartDialPause
  BY <1>6 DEF StartDialPause, Enter
<1>7. CASE WorkFinish
  BY <1>7, PollValues DEF WorkFinish
<1>8. CASE Interrupt
  BY <1>8, DialNextType DEF Interrupt, Tx
<1>9. CASE Open
  BY <1>9 DEF Open
<1>10. CASE Close
  BY <1>10, RequestType DEF Close, DropDtr
<1>11. CASE ClearDtr
  BY <1>11, RequestType DEF ClearDtr, DropDtr
<1>12. CASE WriterInterrupted
  BY <1>12 DEF WriterInterrupted
<1>13. ASSUME NEW byte \in {"+", "x"}, WriteData(byte) PROVE ValuesOK'
  BY <1>13 DEF WriteData, Tx, PlusAfter
<1>14. CASE AtLine
  <2>0. cmd_len' \in 0..CmdMax
    BY <1>14, ModemAssumption DEF AtLine, AtAbort
  <2>1. CASE AtAbort
    BY <1>14, <2>1, RequestType DEF AtLine, AtAbort
  <2>2. CASE AtNothing
    BY <1>14, <2>0, <2>2, RequestType DEF AtLine, AtNothing
  <2>3. ASSUME NEW number \in Numbers, AtDial(number) PROVE ValuesOK'
    <3>1. req' \in SUBSET Request /\ pending' \in BOOLEAN
      BY <2>3, RequestType DEF AtDial, Request
    <3>2. QED
      BY <1>14, <2>0, <2>3, <3>1 DEF AtLine, AtDial
  <2>4. CASE AtHangup
    <3>1. req' \in SUBSET Request /\ pending' \in BOOLEAN
      BY <2>4, RequestType DEF AtHangup, Request
    <3>2. QED
      BY <1>14, <2>0, <2>4, <3>1 DEF AtLine, AtHangup
  <2>5. CASE AtOnline
    <3>1. req' \in SUBSET Request /\ pending' \in BOOLEAN
      BY <2>5, RequestType DEF AtOnline
    <3>2. QED
      BY <1>14, <2>0, <2>5, <3>1 DEF AtLine, AtOnline
  <2>6. QED
    BY <1>14, <2>1, <2>2, <2>3, <2>4, <2>5 DEF AtLine
<1>15. CASE AtKey
  <2>1. req' \in SUBSET Request /\ pending' \in BOOLEAN
    BY <1>15, RequestType DEF AtKey
  <2>2. cmd_len' \in 0..CmdMax
    BY <1>15, ModemAssumption DEF AtKey, AtAbort
  <2>3. QED
    BY <1>15, <2>1, <2>2 DEF AtKey, AtAbort, AtNothing
<1>16. CASE AtErase
  <2>1. req' \in SUBSET Request /\ pending' \in BOOLEAN
    BY <1>16, RequestType DEF AtErase
  <2>2. cmd_len' \in 0..CmdMax
    BY <1>16, ModemAssumption DEF AtErase, AtAbort
  <2>3. QED
    BY <1>16, <2>1, <2>2 DEF AtErase, AtAbort, AtNothing
<1>17. CASE AtLineEnd
  <2>1. req' \in SUBSET Request /\ pending' \in BOOLEAN
    BY <1>17, RequestType DEF AtLineEnd
  <2>2. QED
    BY <1>17, <2>1, ModemAssumption DEF AtLineEnd, AtNothing
<1>18. CASE TtyHangup
  BY <1>18, RequestType DEF TtyHangup, DropDtr
<1>19. CASE CarrierUp \/ CarrierDown
  <2>1. CASE CarrierUp
    BY <2>1 DEF CarrierUp
  <2>2. CASE CarrierDown
    BY <2>2 DEF CarrierDown
  <2>3. QED
    BY <1>19, <2>1, <2>2
<1>20. CASE DeadlinePasses
  BY <1>20 DEF DeadlinePasses
<1>21. CASE RetrainOverdue
  BY <1>21 DEF RetrainOverdue
<1>22. CASE GuardPasses
  BY <1>22 DEF GuardPasses
<1>23. CASE UNCHANGED vars
  BY <1>23 DEF vars
<1>24. QED
  BY <1>1, <1>2, <1>3, <1>4, <1>5, <1>6, <1>7, <1>8, <1>9, <1>10, <1>11,
     <1>12, <1>13, <1>14, <1>15, <1>16, <1>17, <1>18, <1>19, <1>20, <1>21,
     <1>22, <1>23 DEF Next, Work, Others, User, Clock

\* Whatever is typed, written, interrupted or timed out, and in whatever order,
\* the driver's counters and indices stay inside their buffers.
THEOREM TypeCorrect == Spec => []TypeOK
<1>1. TypeOK /\ [Next]_vars => TypeOK'
  BY FlagsStep, ValuesStep DEF TypeOK
<1>2. QED
  BY InitTypes, <1>1, PTL DEF Spec

-----------------------------------------------------------------------------
(* The inductive invariant.                                                *)

\* dcm_dial_next extends what went out on the line by the next digit.
LEMMA AppendNext ==
  ASSUME NEW d \in Seq(Nat), NEW p \in Nat, p < Len(d)
  PROVE  Append(SubSeq(d, 1, p), d[p + 1]) = SubSeq(d, 1, p + 1)
OBVIOUS

LEMMA InitInv == Init => IInv
<1> SUFFICES ASSUME Init PROVE IInv
  OBVIOUS
<1>1. TypeOK
  BY InitTypes
<1> USE DEF Init
<1>2. EngineInv /\ DialRequestInv /\ DataModeOnlyOnline /\ LineReleased
  BY DEF EngineInv, DialRequestInv, DataModeOnlyOnline, LineReleased
<1>3. DialInv /\ WriterInv
  BY DEF DialInv, NumberDialled, DialInterruptQuiet, WriterInv, WriterWillWake
<1>4. NoStaleData /\ EngineAwake /\ RetrainOnlyOnline
  BY DEF NoStaleData, EngineAwake, RetrainOnlyOnline
<1>5. QED
  BY <1>1, <1>2, <1>3, <1>4 DEF IInv, ControlInv, BufferInv

-----------------------------------------------------------------------------
(* What the other actors may do between the engine's sections.             *)

\* They move neither the call nor the engine, raise no dial request but with
\* the line on hook and no writer asleep, and queue the engine for whatever
\* they request.
LEMMA OthersFrame ==
  ASSUME TypeOK, DataModeOnlyOnline, Others \/ UNCHANGED vars
  PROVE  /\ state' = state /\ wpc' = wpc /\ taken' = taken /\ ra' = ra
         /\ retrain' = "none" <=> retrain = "none"
         /\ data_mode' => data_mode \/ state = "ONLINE"
         /\ "DIAL" \in req' => "DIAL" \in req \/ (state = "IDLE" /\ ~blocked)
         /\ req' = req \/ pending'
         /\ pending => pending'
         /\ blocked' => blocked \/ state = "ONLINE"
<1> USE DEF callVars, dialVars, escVars, workVars, ttyVars, DataModeOnlyOnline
<1>1. CASE Interrupt
  <2>1. UNCHANGED <<state, wpc, taken, ra, retrain, data_mode, req>>
    BY <1>1 DEF Interrupt
  <2>2. blocked' => blocked
    BY <1>1 DEF Interrupt, Tx
  <2>3. pending => pending'
    <3>1. CASE state = "ONLINE"
      BY <1>1, <3>1 DEF Interrupt, TypeOK, FlagsOK
    <3>2. CASE state # "ONLINE"
      BY <1>1, <3>2 DEF Interrupt, TypeOK, FlagsOK
    <3>3. QED
      BY <3>1, <3>2
  <2>4. QED
    BY <2>1, <2>2, <2>3
<1>2. CASE Open
  BY <1>2 DEF Open
<1>3. CASE Close
  BY <1>3 DEF Close, DropDtr, DoRequest, NoRequest
<1>4. CASE ClearDtr
  BY <1>4 DEF ClearDtr, DropDtr, DoRequest, NoRequest
<1>5. CASE WriterInterrupted
  BY <1>5 DEF WriterInterrupted
<1>6. ASSUME NEW byte \in {"+", "x"}, WriteData(byte)
      PROVE  /\ UNCHANGED <<state, wpc, taken, ra, retrain, data_mode, req, pending>>
             /\ state = "ONLINE"
  BY <1>6 DEF WriteData
<1>7. CASE AtLine
  <2>1. UNCHANGED <<state, wpc, taken, ra, retrain, blocked>> /\ ~blocked
    BY <1>7 DEF AtLine, CanWrite
  <2>2. CASE AtAbort
    BY <2>1, <2>2 DEF AtAbort, DoRequest
  <2>3. CASE AtNothing
    BY <2>1, <2>3 DEF AtNothing, NoRequest
  <2>4. ASSUME NEW number \in Numbers, AtDial(number)
        PROVE  /\ "DIAL" \in req' => "DIAL" \in req \/ state = "IDLE"
               /\ req' = req \/ pending'
               /\ pending => pending'
               /\ data_mode' = data_mode
    BY <2>4 DEF AtDial, DoRequest, NoRequest
  <2>5. CASE AtHangup
    BY <2>1, <2>5 DEF AtHangup, DoRequest
  <2>6. CASE AtOnline
    BY <2>1, <2>6 DEF AtOnline, NoRequest
  <2>7. QED
    BY <1>7, <2>1, <2>2, <2>3, <2>4, <2>5, <2>6 DEF AtLine
<1>8. CASE AtKey
  BY <1>8 DEF AtKey, AtAbort, AtNothing, DoRequest, NoRequest
<1>9. CASE AtErase
  BY <1>9 DEF AtErase, AtAbort, AtNothing, DoRequest, NoRequest
<1>10. CASE AtLineEnd
  BY <1>10 DEF AtLineEnd, AtNothing, NoRequest
<1>11. CASE TtyHangup
  BY <1>11 DEF TtyHangup, DropDtr, DoRequest, NoRequest
<1>12. CASE CarrierUp \/ CarrierDown
  BY <1>12 DEF CarrierUp, CarrierDown
<1>13. CASE Clock
  BY <1>13 DEF Clock, DeadlinePasses, RetrainOverdue, GuardPasses
<1>14. CASE UNCHANGED vars
  BY <1>14 DEF vars
<1>15. QED
  BY <1>1, <1>2, <1>3, <1>4, <1>5, <1>6, <1>7, <1>8, <1>9, <1>10, <1>11,
     <1>12, <1>13, <1>14 DEF Others, User

\* They leave the control part of the invariant alone.
LEMMA OthersControl ==
  ASSUME TypeOK, ControlInv, Others \/ UNCHANGED vars
  PROVE  ControlInv'
<1> USE OthersFrame DEF ControlInv
<1>1. EngineInv'
  BY DEF EngineInv
<1>2. DialRequestInv'
  BY DEF DialRequestInv
<1>3. DataModeOnlyOnline' /\ LineReleased' /\ RetrainOnlyOnline'
  BY DEF DataModeOnlyOnline, LineReleased, RetrainOnlyOnline
<1>4. EngineAwake'
  BY DEF EngineAwake
<1>5. QED
  BY <1>1, <1>2, <1>3, <1>4

\* dcm_dial_next, run by the interrupt handler or the engine, sends the next
\* digit of the number.
LEMMA DialNextSends ==
  ASSUME TypeOK, DialNext,
         dialled = SubSeq(digits, 1, digit_pos),
         ~tdbie => digit_pos = 0 \/ digit_pos = Len(digits),
         tdbie => digit_pos < Len(digits)
  PROVE  /\ digits' = digits
         /\ dialled' = SubSeq(digits', 1, digit_pos')
         /\ ~tdbie' => digit_pos' = Len(digits')
         /\ tdbie' => digit_pos' < Len(digits')
<1> USE DEF TypeOK, FlagsOK, ValuesOK
<1>1. CASE digit_pos < Len(digits)
  <2>1. /\ dialled' = Append(dialled, digits[digit_pos + 1])
        /\ digit_pos' = digit_pos + 1
        /\ digits' = digits
    BY <1>1 DEF DialNext
  <2>2. dialled' = SubSeq(digits', 1, digit_pos')
    BY <1>1, <2>1, AppendNext
  <2>3. CASE digit_pos + 1 < Len(digits)
    <3>1. tdbie'
      BY <1>1, <2>3 DEF DialNext
    <3>2. QED
      BY <2>1, <2>2, <2>3, <3>1
  <2>4. CASE ~(digit_pos + 1 < Len(digits))
    <3>1. ~tdbie'
      BY <1>1, <2>4 DEF DialNext
    <3>2. digit_pos' = Len(digits')
      BY <1>1, <2>1, <2>4
    <3>3. QED
      BY <2>1, <2>2, <3>1, <3>2
  <2>5. QED
    BY <2>3, <2>4
<1>2. CASE ~(digit_pos < Len(digits))
  <2>1. UNCHANGED dialVars
    BY <1>2 DEF DialNext
  <2>2. ~tdbie
    BY <1>2
  <2>3. digit_pos = Len(digits)
    BY <1>2, <2>2
  <2>4. QED
    BY <2>1, <2>2, <2>3 DEF dialVars
<1>3. QED
  BY <1>1, <1>2

\* They dial only what is asked for, and only while the number is dialled.
LEMMA OthersDial ==
  ASSUME TypeOK, ControlInv, DialInv, Others \/ UNCHANGED vars
  PROVE  DialInv'
<1>0. state' = state /\ wpc' = wpc
  BY OthersFrame DEF ControlInv
<1>1. CASE UNCHANGED dialVars
  BY <1>0, <1>1 DEF dialVars, DialInv, NumberDialled, DialInterruptQuiet
<1>2. CASE Interrupt
  <2>1. CASE tdbie' = FALSE /\ UNCHANGED <<digits, digit_pos, dialled>>
             /\ state # "WAIT_ANSWER"
    BY <1>0, <2>1 DEF DialInv, NumberDialled, DialInterruptQuiet
  <2>2. CASE tdbie /\ state = "WAIT_ANSWER" /\ DialNext
    <3>1. /\ digits' = digits
          /\ dialled' = SubSeq(digits', 1, digit_pos')
          /\ ~tdbie' => digit_pos' = Len(digits')
          /\ tdbie' => digit_pos' < Len(digits')
      BY <2>2, DialNextSends DEF DialInv, NumberDialled, DialInterruptQuiet
    <3>2. wpc # "offhook"
      BY <2>2 DEF ControlInv, EngineInv
    <3>3. QED
      BY <1>0, <2>2, <3>1, <3>2 DEF DialInv, NumberDialled, DialInterruptQuiet
  <2>3. QED
    BY <1>1, <1>2, <2>1, <2>2 DEF Interrupt
<1>3. CASE state = "IDLE" /\ UNCHANGED <<digit_pos, dialled, tdbie>>
  BY <1>0, <1>3 DEF DialInv, NumberDialled, DialInterruptQuiet
<1>4. CASE AtLine
  <2>1. UNCHANGED <<digit_pos, dialled, tdbie>>
    BY <1>4 DEF AtLine
  <2>2. UNCHANGED digits \/ state = "IDLE"
    BY <1>4 DEF AtLine, AtAbort, AtNothing, AtDial, AtHangup, AtOnline
  <2>3. QED
    BY <1>1, <1>3, <2>1, <2>2 DEF dialVars
<1>5. CASE AtKey \/ AtErase \/ AtLineEnd
  BY <1>1, <1>5 DEF AtKey, AtErase, AtLineEnd, AtAbort, AtNothing, dialVars
<1>6. CASE Open \/ Close \/ ClearDtr \/ WriterInterrupted \/ TtyHangup
  BY <1>1, <1>6 DEF Open, Close, ClearDtr, WriterInterrupted, TtyHangup
<1>7. ASSUME NEW byte \in {"+", "x"}, WriteData(byte) PROVE DialInv'
  BY <1>1, <1>7 DEF WriteData
<1>8. CASE CarrierUp \/ CarrierDown \/ Clock
  BY <1>1, <1>8 DEF CarrierUp, CarrierDown, Clock, DeadlinePasses,
                    RetrainOverdue, GuardPasses
<1>9. CASE UNCHANGED vars
  BY <1>1, <1>9 DEF vars
<1>10. QED
  BY <1>2, <1>4, <1>5, <1>6, <1>7, <1>8, <1>9 DEF Others, User

\* dcm_tx never wakes a writer for nothing, nor leaves one asleep on an empty
\* FIFO.
LEMMA TxFifo ==
  ASSUME NEW have \in Nat, NEW waits \in BOOLEAN, waits => have > 0,
         Tx(have, waits)
  PROVE  /\ txfifo' \in 0..have
         /\ blocked' => waits
         /\ blocked' => txfifo' > 0
<1> PICK n \in 0..have : txfifo' = have - n /\ blocked' = (waits /\ n = 0)
  BY DEF Tx
<1>1. txfifo' \in 0..have
  OBVIOUS
<1>2. blocked' => waits /\ n = 0
  BY Zenon
<1>3. n = 0 => txfifo' = have
  OBVIOUS
<1>4. QED
  BY <1>1, <1>2, <1>3

\* They fill the FIFO, and put a writer to sleep on it, on line only.
LEMMA OthersBuffer ==
  ASSUME TypeOK, ControlInv, BufferInv, Others \/ UNCHANGED vars
  PROVE  BufferInv'
<1> USE OthersFrame DEF ControlInv, BufferInv
<1> SUFFICES /\ txfifo' > 0 => txfifo > 0 \/ state = "ONLINE"
             /\ blocked' /\ state = "ONLINE" => txfifo' > 0
  <2>1. WriterInv'
    <3>1. ASSUME blocked'
          PROVE  /\ "DIAL" \notin req' \union taken'
                 /\ state' \in {"IDLE", "ONLINE"} \/ wpc' = "cleardown"
      <4>1. CASE blocked
        BY <4>1 DEF WriterInv
      <4>2. CASE state = "ONLINE"
        BY <4>2 DEF DialRequestInv, EngineInv
      <4>3. QED
        BY <3>1, <4>1, <4>2
    <3>2. WriterWillWake'
      BY DEF WriterWillWake
    <3>3. QED
      BY <3>1, <3>2 DEF WriterInv
  <2>2. NoStaleData'
    BY DEF NoStaleData
  <2>3. QED
    BY <2>1, <2>2
<1>1. CASE UNCHANGED txfifo /\ (blocked' => blocked)
  BY <1>1 DEF WriterInv, WriterWillWake
<1>2. CASE Interrupt
  <2>1. CASE state = "ONLINE"
    <3>1. Tx(txfifo, blocked)
      BY <1>2, <2>1 DEF Interrupt
    <3>2. txfifo \in Nat /\ blocked \in BOOLEAN /\ (blocked => txfifo > 0)
      BY <2>1, ModemAssumption DEF TypeOK, FlagsOK, ValuesOK, WriterInv, WriterWillWake
    <3>3. QED
      BY <2>1, <3>1, <3>2, TxFifo
  <2>2. CASE state # "ONLINE"
    BY <1>1, <1>2, <2>2 DEF Interrupt
  <2>3. QED
    BY <2>1, <2>2
<1>3. ASSUME NEW byte \in {"+", "x"}, WriteData(byte)
      PROVE  /\ txfifo' > 0 => txfifo > 0 \/ state = "ONLINE"
             /\ blocked' /\ state = "ONLINE" => txfifo' > 0
  <2>1. state = "ONLINE"
    BY <1>3 DEF WriteData, DataModeOnlyOnline
  <2>2. txfifo \in Nat /\ txfifo + 1 \in Nat
    BY ModemAssumption DEF TypeOK, ValuesOK
  <2>3. CASE txfifo < TxFifoSize
    <3>1. Tx(txfifo + 1, FALSE)
      BY <1>3, <2>3 DEF WriteData
    <3>2. QED
      BY <2>1, <2>2, <3>1, TxFifo
  <2>4. CASE ~(txfifo < TxFifoSize)
    <3>1. Tx(txfifo, TRUE)
      BY <1>3, <2>4 DEF WriteData
    <3>2. txfifo > 0
      BY <2>4, ModemAssumption DEF TypeOK, ValuesOK
    <3>3. QED
      BY <2>1, <2>2, <3>1, <3>2, TxFifo
  <2>5. QED
    BY <2>3, <2>4
<1>4. CASE AtLine
  BY <1>1, <1>4 DEF AtLine
<1>5. CASE AtKey \/ AtErase \/ AtLineEnd
  BY <1>1, <1>5 DEF AtKey, AtErase, AtLineEnd
<1>6. CASE Open \/ Close \/ ClearDtr \/ WriterInterrupted \/ TtyHangup
  BY <1>1, <1>6 DEF Open, Close, ClearDtr, WriterInterrupted, TtyHangup, ttyVars
<1>7. CASE CarrierUp \/ CarrierDown \/ Clock
  BY <1>1, <1>7 DEF CarrierUp, CarrierDown, Clock, DeadlinePasses,
                    RetrainOverdue, GuardPasses, ttyVars
<1>8. CASE UNCHANGED vars
  BY <1>1, <1>8 DEF vars, ttyVars
<1>9. QED
  BY <1>2, <1>3, <1>4, <1>5, <1>6, <1>7, <1>8 DEF Others, User

-----------------------------------------------------------------------------
(* The engine's sections.                                                  *)

LEMMA WorkControl ==
  ASSUME TypeOK, ControlInv, Work
  PROVE  ControlInv'
<1> USE DEF ControlInv, EngineInv, DialRequestInv, DataModeOnlyOnline,
            LineReleased, EngineAwake, RetrainOnlyOnline
<1> USE DEF callVars, dialVars, escVars, workVars, ttyVars
<1>1. CASE WorkTake
  BY <1>1 DEF WorkTake
<1>2. CASE HangupOnline
  BY <1>2 DEF HangupOnline, Enter
<1>3. CASE HangupOffline
  BY <1>3 DEF HangupOffline, DropLine, AfterHangup
<1>4. CASE HangupDone
  BY <1>4 DEF HangupDone, DropLine, AfterHangup
<1>5. CASE StartOffHook
  BY <1>5 DEF StartOffHook
<1>6. CASE StartDialPause
  BY <1>6 DEF StartDialPause, Enter
<1>7. CASE WorkFinish
  <2>1. /\ wpc = "finish" /\ wpc' = "rest" /\ taken' = {} /\ req' = req
        /\ state' # "IDLE" \/ req' # {} => pending'
    BY <1>7 DEF WorkFinish
  <2>2. /\ data_mode' => state' = "ONLINE"
        /\ ra' => state' # "IDLE"
        /\ retrain' # "none" => state' = "ONLINE"
        /\ state' = state \/ state' = "IDLE" \/ state \notin {"IDLE", "DIAL_PAUSE"}
                          \/ (state = "DIAL_PAUSE" /\ state' = "WAIT_ANSWER")
    <3> USE <2>1 DEF Keep, Stay, Enter
    <3>0. CASE CallEnded
      BY <3>0 DEF CallEnded, DropLine
    <3>1. CASE PollIdle
      BY <3>1 DEF PollIdle
    <3>2. CASE PollDialPause
      BY <3>2 DEF PollDialPause
    <3>3. CASE PollWaitAnswer
      BY <3>0, <3>3 DEF PollWaitAnswer
    <3>4. CASE PollAnswerHold
      BY <3>4 DEF PollAnswerHold
    <3>5. CASE PollTraining
      BY <3>0, <3>5 DEF PollTraining
    <3>6. CASE PollSettle
      BY <3>0, <3>6 DEF PollSettle, GoOnline
    <3>7. CASE PollOnline
      BY <3>0, <3>7 DEF PollOnline, PollData
    <3>8. QED
      BY <1>7, <3>1, <3>2, <3>3, <3>4, <3>5, <3>6, <3>7 DEF WorkFinish, Poll
  <2>3. QED
    BY <2>1, <2>2
<1>8. QED
  BY <1>1, <1>2, <1>3, <1>4, <1>5, <1>6, <1>7 DEF Work

LEMMA WorkDial ==
  ASSUME TypeOK, ControlInv, DialInv, Work
  PROVE  DialInv'
<1> USE DEF DialInv, NumberDialled, DialInterruptQuiet
<1> USE DEF callVars, dialVars, escVars, workVars, ttyVars
<1>1. CASE WorkTake
  BY <1>1 DEF WorkTake
<1>2. CASE HangupOnline
  BY <1>2 DEF HangupOnline, Enter
<1>3. CASE HangupOffline
  BY <1>3 DEF HangupOffline, DropLine, AfterHangup
<1>4. CASE HangupDone
  BY <1>4 DEF HangupDone, DropLine, AfterHangup
<1>5. CASE StartOffHook
  BY <1>5 DEF StartOffHook, ControlInv, EngineInv
<1>6. CASE StartDialPause
  BY <1>6 DEF StartDialPause, Enter, ControlInv, EngineInv
<1>7. CASE WorkFinish
  <2>1. wpc' = "rest" /\ Poll
    BY <1>7 DEF WorkFinish
  <2>2. CASE state' \notin {"DIAL_PAUSE", "WAIT_ANSWER"} /\ ~tdbie'
    BY <2>1, <2>2
  <2>3. CASE state' = state /\ UNCHANGED dialVars
    BY <2>1, <2>3
  <2>4. CASE CallEnded
    BY <2>2, <2>4 DEF CallEnded, DropLine
  <2>5. CASE PollIdle
    BY <2>3, <2>5 DEF PollIdle, Stay
  <2>6. CASE PollDialPause
    <3>1. ASSUME Enter("WAIT_ANSWER"), DialNext PROVE DialInv'
      <4>1. dialled = SubSeq(digits, 1, digit_pos) /\ digit_pos = 0 /\ ~tdbie
        BY <2>6 DEF PollDialPause, TypeOK, ValuesOK
      <4>2. /\ dialled' = SubSeq(digits', 1, digit_pos')
            /\ ~tdbie' => digit_pos' = Len(digits')
            /\ tdbie' => digit_pos' < Len(digits')
        BY <3>1, <4>1, DialNextSends
      <4>3. QED
        BY <2>1, <3>1, <4>2 DEF Enter
    <3>2. QED
      BY <2>3, <2>6, <3>1 DEF PollDialPause, Stay
  <2>7. CASE PollWaitAnswer
    BY <2>2, <2>3, <2>4, <2>7 DEF PollWaitAnswer, Enter, Stay
  <2>8. CASE PollAnswerHold
    BY <2>2, <2>3, <2>8 DEF PollAnswerHold, Enter, Stay
  <2>9. CASE PollTraining
    BY <2>2, <2>3, <2>4, <2>9 DEF PollTraining, Enter, Stay
  <2>10. CASE PollSettle
    BY <2>2, <2>3, <2>4, <2>10 DEF PollSettle, GoOnline, Stay
  <2>11. CASE PollOnline
    BY <2>3, <2>4, <2>11 DEF PollOnline, PollData
  <2>12. QED
    BY <2>1, <2>5, <2>6, <2>7, <2>8, <2>9, <2>10, <2>11 DEF Poll
<1>8. QED
  BY <1>1, <1>2, <1>3, <1>4, <1>5, <1>6, <1>7 DEF Work

LEMMA WorkBuffer ==
  ASSUME TypeOK, ControlInv, BufferInv, Work
  PROVE  BufferInv'
<1> USE DEF BufferInv, WriterInv, WriterWillWake, NoStaleData, ControlInv,
            EngineInv, DialRequestInv
<1> USE DEF callVars, dialVars, escVars, workVars, ttyVars
<1>1. CASE WorkTake
  BY <1>1 DEF WorkTake
<1>2. CASE HangupOnline
  BY <1>2 DEF HangupOnline, Enter
<1>3. CASE HangupOffline
  BY <1>3 DEF HangupOffline, DropLine
<1>4. CASE HangupDone
  BY <1>4 DEF HangupDone, DropLine
<1>5. CASE StartOffHook
  BY <1>5 DEF StartOffHook
<1>6. CASE StartDialPause
  BY <1>6 DEF StartDialPause, Enter
<1>7. CASE WorkFinish
  <2>1. wpc = "finish" /\ wpc' = "rest" /\ taken' = {} /\ req' = req /\ Poll
    BY <1>7 DEF WorkFinish
  <2>2. CASE state' = "IDLE" /\ txfifo' = 0 /\ UNCHANGED blocked
    BY <2>1, <2>2
  <2>3. CASE state # "ONLINE" /\ UNCHANGED <<txfifo, blocked>>
    <3>1. txfifo = 0
      BY <2>1, <2>3, ModemAssumption DEF TypeOK, ValuesOK
    <3>2. ~blocked \/ state = "IDLE"
      BY <2>1, <2>3
    <3>3. state = "IDLE" => PollIdle
      BY <2>1 DEF Poll, PollDialPause, PollWaitAnswer, PollAnswerHold,
                  PollTraining, PollSettle, PollOnline
    <3>4. QED
      BY <2>1, <2>3, <3>1, <3>2, <3>3 DEF PollIdle, Stay
  <2>4. CASE CallEnded
    BY <2>2, <2>4 DEF CallEnded, DropLine
  <2>5. CASE PollIdle \/ PollDialPause \/ PollAnswerHold
    BY <2>3, <2>5 DEF PollIdle, PollDialPause, PollAnswerHold, Stay, Keep
  <2>6. CASE PollWaitAnswer \/ PollTraining \/ PollSettle
    BY <2>3, <2>4, <2>6 DEF PollWaitAnswer, PollTraining, PollSettle, GoOnline,
                            Stay, Keep
  <2>7. CASE PollOnline
    <3>1. ASSUME PollData PROVE BufferInv'
      <4>1. state = "ONLINE" /\ state' = "ONLINE" /\ Tx(txfifo, blocked)
        BY <2>7, <3>1 DEF PollOnline, PollData
      <4>2. txfifo \in Nat /\ blocked \in BOOLEAN /\ (blocked => txfifo > 0)
        BY <4>1, ModemAssumption DEF TypeOK, FlagsOK, ValuesOK
      <4>3. (blocked' => blocked) /\ (blocked' => txfifo' > 0)
        BY <4>1, <4>2, TxFifo
      <4>4. QED
        BY <2>1, <4>1, <4>3
    <3>2. QED
      BY <2>4, <2>7, <3>1 DEF PollOnline
  <2>8. QED
    BY <2>1, <2>5, <2>6, <2>7 DEF Poll
<1>8. QED
  BY <1>1, <1>2, <1>3, <1>4, <1>5, <1>6, <1>7 DEF Work

-----------------------------------------------------------------------------
(* The theorems.                                                           *)

LEMMA Step == IInv /\ [Next]_vars => IInv'
<1> SUFFICES ASSUME IInv, [Next]_vars PROVE IInv'
  OBVIOUS
<1>1. TypeOK'
  BY FlagsStep, ValuesStep DEF IInv, TypeOK
<1>2. Work \/ Others \/ UNCHANGED vars
  BY DEF Next
<1>3. ControlInv' /\ DialInv' /\ BufferInv'
  BY <1>2, WorkControl, WorkDial, WorkBuffer, OthersControl, OthersDial,
     OthersBuffer DEF IInv
<1>4. QED
  BY <1>1, <1>3 DEF IInv

\* The state of call, engine, relay, number, FIFO and writer always agree as
\* IInv says, whichever sections of the driver interleave.
THEOREM Invariance == Spec => []IInv
BY InitInv, Step, PTL DEF Spec

\* No byte written is taken as data, and no AT command swallowed, off line.
THEOREM DataOnlyOnline == Spec => []DataModeOnlyOnline
<1>1. IInv => DataModeOnlyOnline
  BY DEF IInv, ControlInv
<1>2. QED
  BY Invariance, <1>1, PTL

\* An idle driver leaves the telephone line on hook.
THEOREM LineIsReleased == Spec => []LineReleased
<1>1. IInv => LineReleased
  BY DEF IInv, ControlInv
<1>2. QED
  BY Invariance, <1>1, PTL

\* What is dialled is the number asked for, of whatever length, and the
\* transmit interrupt that clocks the digits out is on only meanwhile.
THEOREM NumberIsDialled == Spec => [](NumberDialled /\ DialInterruptQuiet)
<1>1. IInv => NumberDialled /\ DialInterruptQuiet
  BY DEF IInv, DialInv
<1>2. QED
  BY Invariance, <1>1, PTL

\* A call never sends what an earlier one left in the FIFO, for any FIFO size.
THEOREM FifoOfOneCall == Spec => []NoStaleData
<1>1. IInv => NoStaleData
  BY DEF IInv, BufferInv
<1>2. QED
  BY Invariance, <1>1, PTL

\* A writer that sleeps during a call has its wake-up coming.
THEOREM WriterIsWoken == Spec => []WriterWillWake
<1>1. IInv => WriterWillWake
  BY DEF IInv, BufferInv, WriterInv
<1>2. QED
  BY Invariance, <1>1, PTL

\* No request is lost and no call unsupervised, and a retrain is timed only
\* within its call.
THEOREM EngineSupervises == Spec => [](EngineAwake /\ RetrainOnlyOnline)
<1>1. IInv => EngineAwake /\ RetrainOnlyOnline
  BY DEF IInv, ControlInv
<1>2. QED
  BY Invariance, <1>1, PTL

-----------------------------------------------------------------------------
(* The phases of CallService come in order, data enters the buffer of a     *)
(* connection in data mode only, and leaves with it.                       *)

LEMMA InitService == Init => Service!Init
BY DEF Init, Service!Init, Phase

\* The engine's sections are service steps, or none.
LEMMA WorkService ==
  ASSUME IInv, Work
  PROVE  [Service!Next]_(Service!vars)
<1> USE DEF Service!Next, Service!vars, Phase
<1> USE DEF callVars, dialVars, escVars, workVars, ttyVars
<1>0. /\ data_mode => state = "ONLINE"
      /\ wpc = "cleardown" => state = "SETTLE"
  BY DEF IInv, ControlInv, EngineInv, DataModeOnlyOnline
<1>1. CASE WorkTake
  BY <1>1 DEF WorkTake
<1>2. CASE HangupOnline
  BY <1>2 DEF HangupOnline, Enter, Service!Release
<1>3. CASE HangupOffline
  <2>1. CASE state = "IDLE"
    <3>1. txfifo = 0 /\ data_mode \in BOOLEAN
      BY <1>3, <2>1, ModemAssumption
         DEF HangupOffline, IInv, BufferInv, NoStaleData, TypeOK, FlagsOK, ValuesOK
    <3>2. UNCHANGED <<txfifo, data_mode, state>> /\ wpc' # "cleardown"
      BY <1>0, <1>3, <2>1, <3>1 DEF HangupOffline, DropLine, AfterHangup
    <3>3. QED
      BY <1>3, <2>1, <3>2 DEF HangupOffline
  <2>2. CASE state # "IDLE"
    BY <1>3, <2>2 DEF HangupOffline, DropLine, Service!End
  <2>3. QED
    BY <2>1, <2>2
<1>4. CASE HangupDone
  BY <1>0, <1>4 DEF HangupDone, DropLine, Service!End
<1>5. CASE StartOffHook
  BY <1>5 DEF StartOffHook
<1>6. CASE StartDialPause
  <2>1. state = "IDLE"
    BY <1>6 DEF StartDialPause, IInv, ControlInv, EngineInv
  <2>2. QED
    BY <1>6, <2>1 DEF StartDialPause, Enter, Service!Call
<1>7. CASE WorkFinish
  <2>1. wpc = "finish" /\ wpc' = "rest" /\ Poll
    BY <1>7 DEF WorkFinish
  <2>2. CASE CallEnded /\ state # "IDLE"
    BY <2>1, <2>2 DEF CallEnded, DropLine, Service!End
  <2>3. CASE UNCHANGED <<data_mode, txfifo>>
             /\ \/ state' = state
                \/ state \notin {"IDLE", "ONLINE"} /\ state' \notin {"IDLE", "ONLINE"}
    BY <2>1, <2>3
  <2>4. CASE PollIdle \/ PollDialPause \/ PollAnswerHold
    BY <2>3, <2>4 DEF PollIdle, PollDialPause, PollAnswerHold, Stay, Keep, Enter
  <2>5. CASE PollWaitAnswer
    BY <2>2, <2>3, <2>5 DEF PollWaitAnswer, Stay, Keep, Enter
  <2>6. CASE PollTraining
    BY <2>2, <2>3, <2>6 DEF PollTraining, Stay, Keep, Enter
  <2>7. CASE PollSettle
    <3>1. ASSUME GoOnline PROVE Service!Connect
      BY <2>1, <2>7, <3>1 DEF PollSettle, GoOnline, Service!Connect
    <3>2. QED
      BY <2>2, <2>3, <2>7, <3>1 DEF PollSettle, Stay, Keep
  <2>8. CASE PollOnline
    <3>1. ASSUME PollData PROVE Service!Transfer
      <4>1. state = "ONLINE" /\ state' = "ONLINE" /\ Tx(txfifo, blocked)
        BY <2>8, <3>1 DEF PollOnline, PollData
      <4>2. txfifo \in Nat /\ blocked \in BOOLEAN
        BY ModemAssumption DEF IInv, TypeOK, FlagsOK, ValuesOK
      <4>3. txfifo' \in 0..txfifo
        BY <4>1, <4>2, TxType
      <4>4. data_mode' \in BOOLEAN
        BY <2>1, PollFlags DEF IInv
      <4>5. QED
        BY <2>1, <4>1, <4>3, <4>4 DEF Service!Transfer
    <3>2. QED
      BY <2>2, <2>8, <3>1 DEF PollOnline
  <2>9. QED
    BY <2>1, <2>4, <2>5, <2>6, <2>7, <2>8 DEF Poll
<1>8. QED
  BY <1>1, <1>2, <1>3, <1>4, <1>5, <1>6, <1>7 DEF Work

\* The other actors move data within the connection, or do nothing the
\* service could see.
LEMMA OthersService ==
  ASSUME IInv, Others \/ UNCHANGED vars
  PROVE  [Service!Next]_(Service!vars)
<1> USE DEF Service!Next, Service!vars
<1>0. TypeOK /\ DataModeOnlyOnline /\ (wpc = "cleardown" => state = "SETTLE")
  BY DEF IInv, ControlInv, EngineInv
<1>1. state' = state /\ wpc' = wpc /\ Phase' = Phase
  BY <1>0, OthersFrame DEF Phase
<1>2. state = "ONLINE" => Phase = "connected"
  BY <1>0 DEF Phase
<1>3. CASE UNCHANGED <<data_mode, txfifo>>
  BY <1>1, <1>3
<1>4. CASE Interrupt
  <2>1. CASE state = "ONLINE"
    <3>1. Tx(txfifo, blocked) /\ UNCHANGED data_mode
      BY <1>4, <2>1 DEF Interrupt
    <3>2. txfifo \in Nat /\ blocked \in BOOLEAN /\ data_mode \in BOOLEAN
      BY <1>0, ModemAssumption DEF TypeOK, FlagsOK, ValuesOK
    <3>3. txfifo' \in 0..txfifo
      BY <3>1, <3>2, TxType
    <3>4. QED
      BY <1>1, <1>2, <2>1, <3>1, <3>2, <3>3 DEF Service!Transfer
  <2>2. CASE state # "ONLINE"
    BY <1>3, <1>4, <2>2 DEF Interrupt
  <2>3. QED
    BY <2>1, <2>2
<1>5. ASSUME NEW byte \in {"+", "x"}, WriteData(byte)
      PROVE  [Service!Next]_(Service!vars)
  <2>1. data_mode /\ UNCHANGED data_mode /\ Phase = "connected"
    BY <1>0, <1>2, <1>5 DEF WriteData, DataModeOnlyOnline
  <2>2. txfifo' \in 0..TxFifoSize
    BY <1>5, <1>0, ValuesStep DEF Next, Others, User, ValuesOK
  <2>3. QED
    BY <1>1, <2>1, <2>2 DEF Service!Accept
<1>6. CASE AtLine
  <2>1. UNCHANGED txfifo /\ data_mode' \in BOOLEAN
    BY <1>6, <1>0, FlagsStep DEF AtLine, Next, Others, User, FlagsOK
  <2>2. CASE state = "ONLINE"
    <3>1. txfifo' \in 0..txfifo
      BY <1>0, <2>1, ModemAssumption DEF TypeOK, ValuesOK
    <3>2. QED
      BY <1>1, <1>2, <2>1, <2>2, <3>1 DEF Service!Transfer
  <2>3. CASE state # "ONLINE"
    <3>1. UNCHANGED data_mode
      BY <1>6, <2>3 DEF AtLine, AtAbort, AtNothing, AtDial, AtHangup, AtOnline
    <3>2. QED
      BY <1>3, <2>1, <3>1
  <2>4. QED
    BY <2>2, <2>3
<1>7. CASE AtKey \/ AtErase \/ AtLineEnd
  BY <1>3, <1>7 DEF AtKey, AtErase, AtLineEnd, AtAbort, AtNothing
<1>8. CASE Open \/ Close \/ ClearDtr \/ WriterInterrupted \/ TtyHangup
  BY <1>3, <1>8 DEF Open, Close, ClearDtr, WriterInterrupted, TtyHangup
<1>9. CASE CarrierUp \/ CarrierDown \/ Clock
  BY <1>3, <1>9 DEF CarrierUp, CarrierDown, Clock, DeadlinePasses,
                    RetrainOverdue, GuardPasses
<1>10. CASE UNCHANGED vars
  BY <1>3, <1>10 DEF vars
<1>11. QED
  BY <1>4, <1>5, <1>6, <1>7, <1>8, <1>9, <1>10 DEF Others, User

\* Calls go through their phases in order, and data is taken by a connection
\* in data mode only and dropped with it, for any FIFO size.
THEOREM Implements == Spec => Service!SafeSpec
<1>1. IInv /\ [Next]_vars => [Service!Next]_(Service!vars)
  BY WorkService, OthersService DEF Next
<1>2. QED
  BY InitService, Invariance, <1>1, PTL DEF Spec, Service!SafeSpec
=============================================================================
