------------------------------- MODULE Modem -------------------------------
(***************************************************************************)
(* The Dreamcast modem driver (drivers/tty/dcmodem.c, added by             *)
(* patches/0017-dreamcast-modem.patch).                                    *)
(*                                                                         *)
(* Four actors share struct dcm and take its spinlock in turn:             *)
(*   - the tty side: open, close, TIOCMBIC, write (AT commands or data);   *)
(*   - the interrupt handler dcm_interrupt;                                *)
(*   - the call engine, a delayed work item that never runs twice at once, *)
(*     one action per section it executes under the lock;                  *)
(*   - the line, the far end and the clock, which the driver only reads.   *)
(*                                                                         *)
(* Time is abstracted to three facts the code compares jiffies for: the    *)
(* deadline of the call state, the length of a retrain and the guard time  *)
(* of the "+++" escape.  Of the written text the model keeps which of the  *)
(* interpreter's commands a line holds; of the data, how many bytes wait   *)
(* in the transmit FIFO.                                                   *)
(***************************************************************************)
EXTENDS Escape, Sequences, FiniteSets

CONSTANTS
  Numbers,     \* telephone numbers ATD may be given: sequences of DTMF codes
  TxFifoSize,  \* DCM_TXFIFO_SIZE
  CmdMax,      \* DCM_CMD_MAX - 1, the characters kept of an unfinished line
  Clocal       \* the CLOCAL flag of the tty's termios

ASSUME ModemAssumption ==
  /\ \A n \in Numbers : n \in Seq(Nat)
  /\ TxFifoSize \in Nat \ {0}
  /\ CmdMax \in Nat \ {0}
  /\ Clocal \in BOOLEAN

VARIABLES
  state,      \* dcm->state
  expired,    \* jiffies has reached dcm->deadline
  retrain,    \* dcm->retrain_since: "none", "running", or "overdue" by now
  req,        \* dcm->req
  data_mode,  \* dcm->data_mode
  digits,     \* dcm->digits[0 .. ndigits - 1]
  digit_pos,  \* dcm->digit_pos
  plus_count, \* dcm->plus_count
  guard,      \* DCM_ESC_GUARD has passed since dcm->last_tx
  txfifo,     \* number of bytes in dcm->txfifo
  cmd_len,    \* dcm->cmd_len, of a line that is not a command so far
  pending,    \* dcm->work is queued or its timer is running
  wpc,        \* where the running dcm_work stands, "rest" when it does not run
  taken,      \* its local variable req
  ra,         \* register 07, relay A: the line is off hook
  tdbie,      \* register 1E, transmit-buffer-empty interrupt enabled
  rlsd,       \* register 0F, carrier
  open,       \* the port is open
  blocked,    \* a writer sleeps until tty_wakeup: write() accepted nothing
  hup,        \* tty_hangup's work is queued
  dialled,    \* history: the digits put on the line since it went off hook
  owed        \* history: a command still waits for the engine's result code

callVars == <<state, expired, retrain>>
dialVars == <<digits, digit_pos, dialled, tdbie>>
escVars  == <<plus_count, guard>>
workVars == <<wpc, taken>>
ttyVars  == <<cmd_len, open, blocked, hup>>
vars == <<callVars, dialVars, escVars, workVars, ttyVars, req, data_mode,
          txfifo, pending, ra, rlsd, owed>>

State == {"IDLE", "DIAL_PAUSE", "WAIT_ANSWER", "ANSWER_HOLD", "TRAINING",
          "SETTLE", "ONLINE"}
Request == {"HANGUP", "DIAL", "OK", "ABORT"}
InProgress == State \ {"IDLE", "ONLINE"}

FlagsOK ==
  /\ expired \in BOOLEAN /\ data_mode \in BOOLEAN /\ guard \in BOOLEAN
  /\ pending \in BOOLEAN /\ ra \in BOOLEAN /\ tdbie \in BOOLEAN
  /\ rlsd \in BOOLEAN /\ open \in BOOLEAN /\ blocked \in BOOLEAN
  /\ hup \in BOOLEAN /\ owed \in BOOLEAN

ValuesOK ==
  /\ state \in State
  /\ retrain \in {"none", "running", "overdue"}
  /\ req \in SUBSET Request
  /\ digits \in Seq(Nat)
  /\ digit_pos \in Nat
  /\ dialled \in Seq(Nat)
  /\ plus_count \in 0..3
  /\ txfifo \in 0..TxFifoSize
  /\ cmd_len \in 0..CmdMax
  /\ wpc \in {"rest", "hangup", "cleardown", "reset", "offhook", "finish"}
  /\ taken \in SUBSET Request

\* Every variable has its type: the indices stay inside their buffers.
TypeOK == FlagsOK /\ ValuesOK

\* A zeroed struct dcm after dcm_probe, the port closed, the line on hook.
Init ==
  /\ state = "IDLE" /\ expired = FALSE /\ retrain = "none"
  /\ req = {} /\ data_mode = FALSE
  /\ digits = <<>> /\ digit_pos = 0 /\ dialled = <<>> /\ tdbie = FALSE
  /\ plus_count = 0 /\ guard = FALSE
  /\ txfifo = 0 /\ cmd_len = 0
  /\ pending = FALSE /\ wpc = "rest" /\ taken = {}
  /\ ra = FALSE /\ rlsd = FALSE
  /\ open = FALSE /\ blocked = FALSE /\ hup = FALSE /\ owed = FALSE

-----------------------------------------------------------------------------
(* Helpers the sections below call with the lock held.  A definition whose  *)
(* comment begins with "Fault:" is a wrong variant of the one after it; no  *)
(* action uses it, it only serves to show that a property can fail.         *)

\* dcm_request: note the request and start the engine at once.
DoRequest(r) == req' = req \union r /\ pending' = TRUE

NoRequest == UNCHANGED <<req, pending>>

\* dcm_dial_next: send the next digit; ask for an interrupt if more follow.
DialNext ==
  IF digit_pos < Len(digits)
  THEN /\ digit_pos' = digit_pos + 1
       /\ dialled' = Append(dialled, digits[digit_pos + 1])
       /\ IF digit_pos + 1 < Len(digits) THEN tdbie' = TRUE ELSE tdbie' = FALSE
       /\ UNCHANGED digits
  ELSE UNCHANGED dialVars

\* Fault: a writer waiting for room is not woken.
TxNoWakeup(have, waits) ==
  \E n \in 0..have : txfifo' = have - n /\ blocked' = waits

\* dcm_tx with `have` bytes to send: the chip takes some of them, none
\* without CTS, and a byte taken wakes a writer that was waiting for room.
Tx(have, waits) ==
  \E n \in 0..have :
    /\ txfifo' = have - n
    /\ blocked' = (waits /\ n = 0)

\* Faults: dcm_drop_line leaves the relay closed, or the FIFO filled.
DropLineOffHook ==
  /\ state' = "IDLE" /\ data_mode' = FALSE /\ retrain' = "none"
  /\ txfifo' = 0 /\ tdbie' = FALSE
  /\ UNCHANGED <<ra, expired, digits, digit_pos, dialled>>

DropLineKeepsFifo ==
  /\ state' = "IDLE" /\ data_mode' = FALSE /\ retrain' = "none"
  /\ tdbie' = FALSE /\ ra' = FALSE
  /\ UNCHANGED <<txfifo, expired, digits, digit_pos, dialled>>

\* dcm_drop_line: on hook, data path off, transmit FIFO emptied.
DropLine ==
  /\ state' = "IDLE"
  /\ data_mode' = FALSE
  /\ retrain' = "none"
  /\ txfifo' = 0
  /\ tdbie' = FALSE
  /\ ra' = FALSE
  /\ UNCHANGED <<expired, digits, digit_pos, dialled>>

\* dcm_call_ended: drop the line, report why, and hang up the tty of a call
\* that was on line unless CLOCAL is set.
CallEnded ==
  /\ DropLine
  /\ owed' = FALSE
  /\ hup' = (hup \/ (state = "ONLINE" /\ ~Clocal /\ open))
  /\ UNCHANGED <<plus_count, guard, blocked>>

\* Enter a call state with a fresh deadline.
Enter(s) == state' = s /\ expired' = FALSE

-----------------------------------------------------------------------------
(* The call engine: dcm_work and the functions it runs.                    *)

\* Fault: only a dial request makes the engine hang up first.
WorkTakeDialOnly ==
  /\ wpc = "rest" /\ pending
  /\ pending' = FALSE
  /\ taken' = req
  /\ req' = {}
  /\ wpc' = IF "DIAL" \in req THEN "hangup" ELSE "finish"
  /\ UNCHANGED <<callVars, dialVars, escVars, ttyVars, data_mode, txfifo, ra,
                 rlsd, owed>>

\* dcm_work's first section takes all the requests at once.
WorkTake ==
  /\ wpc = "rest" /\ pending
  /\ pending' = FALSE
  /\ taken' = req
  /\ req' = {}
  /\ wpc' = IF req \intersect {"HANGUP", "DIAL"} # {} THEN "hangup" ELSE "finish"
  /\ UNCHANGED <<callVars, dialVars, escVars, ttyVars, data_mode, txfifo, ra,
                 rlsd, owed>>

\* Where dcm_work goes once dcm_hangup has returned.
AfterHangup == IF "DIAL" \in taken THEN "reset" ELSE "finish"

\* Fault: the data path survives until the line drops.
HangupOnlineKeepsData ==
  /\ wpc = "hangup" /\ state = "ONLINE"
  /\ wpc' = "cleardown"
  /\ UNCHANGED <<callVars, req, data_mode, dialVars, escVars, txfifo, ttyVars,
                 pending, taken, ra, rlsd, owed>>

\* dcm_hangup, first section, with a call up: start a V.34 cleardown and let
\* go of the lock to wait for it.
HangupOnline ==
  /\ wpc = "hangup" /\ state = "ONLINE"
  /\ Enter("SETTLE")
  /\ data_mode' = FALSE
  /\ wpc' = "cleardown"
  /\ UNCHANGED <<retrain, req, dialVars, escVars, txfifo, ttyVars, pending,
                 taken, ra, rlsd, owed>>

\* dcm_hangup without a call up: drop the line in the same section.
HangupOffline ==
  /\ wpc = "hangup" /\ state # "ONLINE"
  /\ DropLine
  /\ wpc' = AfterHangup
  /\ UNCHANGED <<req, escVars, ttyVars, pending, taken, rlsd, owed>>

\* dcm_hangup, second section: the cleardown was answered, the carrier went
\* or two seconds have passed.
HangupDone ==
  /\ wpc = "cleardown"
  /\ DropLine
  /\ wpc' = AfterHangup
  /\ UNCHANGED <<req, escVars, ttyVars, pending, taken, rlsd, owed>>

\* dcm_start_call up to its first unlock: soft reset without the lock, then
\* the set-up that takes the line off hook.
StartOffHook ==
  /\ wpc = "reset"
  /\ ra' = TRUE
  /\ rlsd' \in {rlsd, FALSE}
  /\ dialled' = <<>>
  /\ wpc' = "offhook"
  /\ UNCHANGED <<callVars, digits, digit_pos, tdbie, escVars, ttyVars, req, data_mode,
                 txfifo, pending, taken, owed>>

\* Fault: the position in the number is not reset.
StartDialPauseKeepsPos ==
  /\ wpc = "offhook"
  /\ Enter("DIAL_PAUSE")
  /\ wpc' = "finish"
  /\ UNCHANGED <<retrain, dialVars, escVars, ttyVars, req, data_mode, txfifo,
                 pending, taken, ra, rlsd, owed>>

\* dcm_start_call, second section.
StartDialPause ==
  /\ wpc = "offhook"
  /\ digit_pos' = 0
  /\ Enter("DIAL_PAUSE")
  /\ wpc' = "finish"
  /\ UNCHANGED <<retrain, digits, dialled, tdbie, escVars, ttyVars, req,
                 data_mode, txfifo, pending, taken, ra, rlsd, owed>>

\* Fault: the OK of a hang-up is not sent.
StillOwedOk == owed /\ "ABORT" \notin taken

\* dcm_work's replies to the requests it took leave a command still waiting
\* for the outcome of its call only if it asked for no reply.
StillOwed == owed /\ taken \intersect {"OK", "ABORT"} = {}

\* What a poll leaves alone unless the call ends or goes on line.
Keep == /\ UNCHANGED <<retrain, data_mode, escVars, txfifo, ra, blocked, hup>>
        /\ owed' = StillOwed

Stay == UNCHANGED <<state, expired, dialVars>> /\ Keep

PollIdle == state = "IDLE" /\ Stay

\* Blind dialling when the pause is over, or sooner on a dial tone.
PollDialPause ==
  /\ state = "DIAL_PAUSE"
  /\ \E tone \in BOOLEAN :
       IF expired \/ tone THEN Enter("WAIT_ANSWER") /\ DialNext /\ Keep
                          ELSE Stay

PollWaitAnswer ==
  /\ state = "WAIT_ANSWER"
  /\ \E answer \in BOOLEAN :
       IF answer
       THEN /\ Enter("ANSWER_HOLD")
            /\ tdbie' = FALSE
            /\ UNCHANGED <<digits, digit_pos, dialled>>
            /\ Keep
       ELSE IF expired THEN CallEnded ELSE Stay

PollAnswerHold ==
  /\ state = "ANSWER_HOLD"
  /\ IF expired THEN Enter("TRAINING") /\ UNCHANGED dialVars /\ Keep ELSE Stay

\* Fault: a handshake without carrier is not timed out.
PollTrainingNoTimeout ==
  /\ state = "TRAINING"
  /\ \E noPhase \in BOOLEAN :
       IF noPhase THEN CallEnded
       ELSE IF rlsd THEN Enter("SETTLE") /\ UNCHANGED dialVars /\ Keep
       ELSE Stay

PollTraining ==
  /\ state = "TRAINING"
  /\ \E noPhase \in BOOLEAN :
       IF noPhase \/ expired THEN CallEnded
       ELSE IF rlsd THEN Enter("SETTLE") /\ UNCHANGED dialVars /\ Keep
       ELSE Stay

GoOnline ==
  /\ state' = "ONLINE"
  /\ data_mode' = TRUE
  /\ plus_count' = 0
  /\ guard' = FALSE
  /\ owed' = FALSE
  /\ UNCHANGED <<expired, retrain, dialVars, txfifo, ra, blocked, hup>>

PollSettle ==
  /\ state = "SETTLE"
  /\ IF ~rlsd THEN CallEnded ELSE IF expired THEN GoOnline ELSE Stay

\* A poll of a call that stays up: leave data mode after "+++", pass data.
PollData ==
  /\ IF data_mode /\ Escapes(plus_count, guard)
     THEN data_mode' = FALSE /\ plus_count' = 0
     ELSE UNCHANGED <<data_mode, plus_count>>
  /\ Tx(txfifo, blocked)
  /\ owed' = StillOwed
  /\ UNCHANGED <<state, expired, guard, dialVars, ra, hup>>

\* Faults: the carrier is not looked at; a retrain is never given up.
PollOnlineNoCarrierCheck ==
  /\ state = "ONLINE"
  /\ \E cleared, rtdet, speed \in BOOLEAN :
       IF cleared THEN CallEnded
       ELSE IF rtdet /\ retrain = "none" THEN retrain' = "running" /\ PollData
       ELSE IF retrain # "none" /\ speed THEN retrain' = "none" /\ PollData
       ELSE IF retrain = "overdue" THEN CallEnded
       ELSE UNCHANGED retrain /\ PollData

PollOnlineNoRetrainLimit ==
  /\ state = "ONLINE"
  /\ \E cleared, rtdet, speed \in BOOLEAN :
       IF cleared \/ ~rlsd THEN CallEnded
       ELSE IF rtdet /\ retrain = "none" THEN retrain' = "running" /\ PollData
       ELSE IF retrain # "none" /\ speed THEN retrain' = "none" /\ PollData
       ELSE UNCHANGED retrain /\ PollData

\* The far end is gone if it cleared down or dropped the carrier, or if a
\* retrain does not bring a new speed in time.
PollOnline ==
  /\ state = "ONLINE"
  /\ \E cleared, rtdet, speed \in BOOLEAN :
       IF cleared \/ ~rlsd THEN CallEnded
       ELSE IF rtdet /\ retrain = "none" THEN retrain' = "running" /\ PollData
       ELSE IF retrain # "none" /\ speed THEN retrain' = "none" /\ PollData
       ELSE IF retrain = "overdue" THEN CallEnded
       ELSE UNCHANGED retrain /\ PollData

Poll == \/ PollIdle \/ PollDialPause \/ PollWaitAnswer \/ PollAnswerHold
        \/ PollTraining \/ PollSettle \/ PollOnline

\* Fault: the engine runs again for a request only.
WorkFinishNoRepeat ==
  /\ wpc = "finish"
  /\ Poll
  /\ pending' = (pending \/ req # {})
  /\ wpc' = "rest"
  /\ taken' = {}
  /\ UNCHANGED <<req, cmd_len, open, rlsd>>

\* dcm_work's last section: reply, advance the call, and run again while
\* there is a call or a request.
WorkFinish ==
  /\ wpc = "finish"
  /\ Poll
  /\ pending' = (pending \/ state' # "IDLE" \/ req # {})
  /\ wpc' = "rest"
  /\ taken' = {}
  /\ UNCHANGED <<req, cmd_len, open, rlsd>>

Work == \/ WorkTake \/ HangupOnline \/ HangupOffline \/ HangupDone
        \/ StartOffHook \/ StartDialPause \/ WorkFinish

-----------------------------------------------------------------------------
(* The interrupt handler.                                                  *)

\* A status change, or the transmit buffer ran empty with TDBIE set.
Interrupt ==
  \E tdbia \in BOOLEAN :
    /\ tdbia => tdbie
    /\ IF ~tdbia THEN UNCHANGED dialVars
       ELSE IF state = "WAIT_ANSWER" THEN DialNext
       ELSE tdbie' = FALSE /\ UNCHANGED <<digits, digit_pos, dialled>>
    /\ IF state = "ONLINE"
       THEN /\ Tx(txfifo, blocked)
            /\ pending' = (pending \/ ~rlsd)
       ELSE /\ UNCHANGED <<txfifo, blocked>>
            /\ pending' = (pending \/ state # "IDLE")
    /\ UNCHANGED <<callVars, escVars, workVars, cmd_len, open, hup, req,
                   data_mode, ra, rlsd, owed>>

-----------------------------------------------------------------------------
(* The tty side.                                                           *)

\* tty_port_open of a closed port runs dcm_port_activate.
Open ==
  /\ ~open
  /\ open' = TRUE
  /\ cmd_len' = 0
  /\ UNCHANGED <<callVars, dialVars, escVars, workVars, blocked, hup, req,
                 data_mode, txfifo, pending, ra, rlsd, owed>>

\* dcm_port_dtr_rts(false); the caller no longer waits for a reply.
DropDtr ==
  /\ IF state # "IDLE" THEN DoRequest({"HANGUP"}) ELSE NoRequest
  /\ owed' = FALSE

\* The last close; HUPCL makes the tty layer drop DTR.
Close ==
  /\ open /\ ~blocked
  /\ open' = FALSE
  /\ DropDtr
  /\ UNCHANGED <<callVars, dialVars, escVars, workVars, cmd_len, blocked, hup,
                 data_mode, txfifo, ra, rlsd>>

\* dcm_tty_tiocmset clearing TIOCM_DTR.
ClearDtr ==
  /\ open
  /\ DropDtr
  /\ UNCHANGED <<callVars, dialVars, escVars, workVars, ttyVars, data_mode,
                 txfifo, ra, rlsd>>

\* The work tty_hangup queued: writers are woken, the port is shut down.
TtyHangup ==
  /\ hup
  /\ hup' = FALSE
  /\ open' = FALSE
  /\ blocked' = FALSE
  /\ IF open THEN DropDtr ELSE NoRequest /\ UNCHANGED owed
  /\ UNCHANGED <<callVars, dialVars, escVars, workVars, cmd_len, data_mode,
                 txfifo, ra, rlsd>>

\* A signal ends a sleeping writer's write.
WriterInterrupted ==
  /\ blocked
  /\ blocked' = FALSE
  /\ UNCHANGED <<callVars, dialVars, escVars, workVars, cmd_len, open, hup, req,
                 data_mode, txfifo, pending, ra, rlsd, owed>>

CanWrite == open /\ ~blocked

\* dcm_tty_write in data mode, one byte at a time: a full FIFO takes nothing
\* and leaves the writer asleep, unless the chip takes data right away.
WriteData(byte) ==
  /\ CanWrite /\ data_mode
  /\ LET room == txfifo < TxFifoSize IN
     IF room
     THEN /\ plus_count' = PlusAfter(plus_count, guard, byte)
          /\ guard' = FALSE
          /\ Tx(txfifo + 1, FALSE)
     ELSE Tx(txfifo, TRUE) /\ UNCHANGED escVars
  /\ UNCHANGED <<callVars, dialVars, workVars, cmd_len, open, hup, req, data_mode,
                 pending, ra, rlsd, owed>>

\* dcm_at_exec, by the command that ends the line: dial, hang up or reset,
\* go back to data mode, or anything that only sets options or fails.
AtDial(number) ==
  /\ IF state = "IDLE"
     THEN digits' = number /\ DoRequest({"DIAL"}) /\ owed' = TRUE
     ELSE NoRequest /\ UNCHANGED <<digits, owed>>
  /\ UNCHANGED <<data_mode, plus_count>>

AtHangup ==
  /\ DoRequest({"HANGUP", "OK"})
  /\ owed' = TRUE
  /\ UNCHANGED <<digits, data_mode, plus_count>>

AtOnline ==
  /\ IF state = "ONLINE" THEN data_mode' = TRUE /\ plus_count' = 0
                         ELSE UNCHANGED <<data_mode, plus_count>>
  /\ NoRequest /\ UNCHANGED <<digits, owed>>

AtNothing == NoRequest /\ UNCHANGED <<digits, data_mode, plus_count, owed>>

\* dcm_at_input while a call is being set up: any key aborts it.
AtAbort == /\ DoRequest({"HANGUP", "ABORT"})
           /\ UNCHANGED <<digits, data_mode, plus_count, owed, cmd_len>>

\* dcm_at_input of a whole command line; one that follows other characters
\* is an ERROR.
AtLine ==
  /\ CanWrite /\ ~data_mode
  /\ IF state \in InProgress THEN AtAbort
     ELSE /\ cmd_len' = 0
          /\ IF cmd_len > 0 THEN AtNothing
             ELSE \/ \E number \in Numbers : AtDial(number)
                  \/ AtHangup \/ AtOnline \/ AtNothing
  /\ UNCHANGED <<callVars, digit_pos, dialled, tdbie, guard, workVars, open,
                 blocked, hup, txfifo, ra, rlsd>>

\* dcm_at_input of a character that neither ends the line nor erases: what
\* does not fit is dropped.
AtKey ==
  /\ CanWrite /\ ~data_mode
  /\ IF state \in InProgress THEN AtAbort
     ELSE /\ cmd_len' = IF cmd_len < CmdMax THEN cmd_len + 1 ELSE cmd_len
          /\ AtNothing
  /\ UNCHANGED <<callVars, digit_pos, dialled, tdbie, guard, workVars, open,
                 blocked, hup, txfifo, ra, rlsd>>

\* dcm_at_input of a backspace or a delete.
AtErase ==
  /\ CanWrite /\ ~data_mode
  /\ IF state \in InProgress THEN AtAbort
     ELSE /\ cmd_len' = IF cmd_len > 0 THEN cmd_len - 1 ELSE 0
          /\ AtNothing
  /\ UNCHANGED <<callVars, digit_pos, dialled, tdbie, guard, workVars, open,
                 blocked, hup, txfifo, ra, rlsd>>

\* dcm_at_input of a line end after what is no command.
AtLineEnd ==
  /\ CanWrite /\ ~data_mode
  /\ cmd_len' = IF state \in InProgress THEN cmd_len ELSE 0
  /\ AtNothing
  /\ UNCHANGED <<callVars, digit_pos, dialled, tdbie, guard, workVars, open,
                 blocked, hup, txfifo, ra, rlsd>>

-----------------------------------------------------------------------------
(* The line, the far end and the clock.                                    *)

\* The data pump raises carrier during the handshake, and again after an
\* interruption of a call that is up.
CarrierUp ==
  /\ ~rlsd /\ state \in {"TRAINING", "SETTLE", "ONLINE"}
  /\ rlsd' = TRUE
  /\ UNCHANGED <<callVars, dialVars, escVars, workVars, ttyVars, req, data_mode,
                 txfifo, pending, ra, owed>>

CarrierDown ==
  /\ rlsd
  /\ rlsd' = FALSE
  /\ UNCHANGED <<callVars, dialVars, escVars, workVars, ttyVars, req, data_mode,
                 txfifo, pending, ra, owed>>

DeadlinePasses ==
  /\ ~expired /\ state \in InProgress
  /\ expired' = TRUE
  /\ UNCHANGED <<state, retrain, dialVars, escVars, workVars, ttyVars, req,
                 data_mode, txfifo, pending, ra, rlsd, owed>>

RetrainOverdue ==
  /\ retrain = "running"
  /\ retrain' = "overdue"
  /\ UNCHANGED <<state, expired, dialVars, escVars, workVars, ttyVars, req,
                 data_mode, txfifo, pending, ra, rlsd, owed>>

GuardPasses ==
  /\ ~guard /\ data_mode
  /\ guard' = TRUE
  /\ UNCHANGED <<callVars, dialVars, plus_count, workVars, ttyVars, req,
                 data_mode, txfifo, pending, ra, rlsd, owed>>

-----------------------------------------------------------------------------
User == \/ Open \/ Close \/ ClearDtr \/ WriterInterrupted
        \/ \E byte \in {"+", "x"} : WriteData(byte)
        \/ AtLine \/ AtKey \/ AtErase \/ AtLineEnd

Clock == DeadlinePasses \/ RetrainOverdue \/ GuardPasses

\* What happens between the sections the engine executes.
Others == Interrupt \/ User \/ TtyHangup \/ CarrierUp \/ CarrierDown \/ Clock

Next == Work \/ Others

\* The workqueue runs what is queued and timeouts come; nothing else is
\* promised: not interrupts, not the far end, not the user.
Fairness == /\ WF_vars(Work)
            /\ WF_vars(TtyHangup)
            /\ WF_vars(DeadlinePasses)
            /\ WF_vars(RetrainOverdue)

Spec == Init /\ [][Next]_vars
FairSpec == Spec /\ Fairness

-----------------------------------------------------------------------------
(* Safety properties.                                                      *)

\* Writes are data only while a call is on line: every way a call can end
\* (poll, hang-up, cleardown with the lock dropped) also leaves data mode, so
\* no AT command is ever swallowed as data on a dead line.
DataModeOnlyOnline == data_mode => state = "ONLINE"

\* The line is never left off hook by an idle driver: the relay is closed only
\* during a call, or between dcm_start_call's two sections.
LineReleased == ra => state # "IDLE" \/ wpc = "offhook"

\* What went out on the line is a prefix of the number asked for, in order,
\* through any interleaving of polls, interrupts and further ATD commands;
\* and dialling stops only when the number is complete.
NumberDialled ==
  state = "WAIT_ANSWER" =>
    /\ dialled = SubSeq(digits, 1, digit_pos)
    /\ ~tdbie => digit_pos = Len(digits)

\* The transmit interrupt is enabled only while a digit is left to send:
\* enabled otherwise it would fire for ever, or send a digit after the answer.
DialInterruptQuiet ==
  tdbie => state = "WAIT_ANSWER" /\ digit_pos < Len(digits)

\* Bytes wait for transmission only while their own call is up or being
\* cleared down; the next call never sends what the last one left behind.
NoStaleData == txfifo > 0 => state = "ONLINE" \/ wpc = "cleardown"

\* The engine is queued or running whenever there is a call to supervise or a
\* request to serve: no request raised while it runs, and no call, is lost.
EngineAwake == state # "IDLE" \/ req # {} => pending \/ wpc # "rest"

\* A retrain is timed only within its own call: a leftover retrain_since would
\* make the next call end at its first poll.
RetrainOnlyOnline == retrain # "none" => state = "ONLINE" \/ wpc = "cleardown"

\* No wake-up is lost while the call lasts: a writer sleeps only if there are
\* bytes in the FIFO whose transmission will wake it.
WriterWillWake == blocked /\ state = "ONLINE" => txfifo > 0

-----------------------------------------------------------------------------
(* The inductive invariant behind the safety properties.                   *)

\* Where the engine stands and what the state may be meanwhile.
EngineInv ==
  /\ wpc = "rest" => taken = {}
  /\ wpc = "cleardown" => state = "SETTLE"
  /\ wpc \in {"reset", "offhook"} => state = "IDLE" /\ "DIAL" \in taken

\* A dial request is raised on hook only, and served before the call it may
\* have overtaken gets beyond the dialling of its first digit.
DialRequestInv ==
  /\ "DIAL" \in req =>
       \/ state = "IDLE"
       \/ state = "DIAL_PAUSE" /\ wpc \in {"finish", "rest"}
       \/ state = "WAIT_ANSWER" /\ wpc = "rest"
  /\ "DIAL" \in taken =>
       \/ wpc = "hangup" /\ state \in {"IDLE", "DIAL_PAUSE", "WAIT_ANSWER"}
       \/ wpc \in {"reset", "offhook"}
       \/ wpc = "finish" /\ state = "DIAL_PAUSE"

\* The position in the number before and while it is dialled.
DialInv ==
  /\ wpc = "offhook" => dialled = <<>>
  /\ state = "DIAL_PAUSE" => dialled = <<>> /\ digit_pos = 0
  /\ NumberDialled
  /\ DialInterruptQuiet

\* A sleeping writer belongs to the call that is up, or to none: no call can
\* be started past it.
WriterInv ==
  /\ blocked => /\ "DIAL" \notin req \union taken
                /\ state \in {"IDLE", "ONLINE"} \/ wpc = "cleardown"
  /\ WriterWillWake

\* The engine, the line, the number, the FIFO and the writer always agree in
\* this way, from any point of any interleaving on.
ControlInv == /\ EngineInv
              /\ DialRequestInv
              /\ DataModeOnlyOnline
              /\ LineReleased
              /\ EngineAwake
              /\ RetrainOnlyOnline

BufferInv == WriterInv /\ NoStaleData

IInv == TypeOK /\ ControlInv /\ DialInv /\ BufferInv

-----------------------------------------------------------------------------
(* Liveness properties, under Fairness.                                    *)

\* Setting up a call always comes to an end, however the far end behaves.
CallSetupEnds == state \in InProgress ~> state \notin InProgress

\* A hang-up request puts the line on hook.
HangupServed == "HANGUP" \in req ~> state = "IDLE"

\* ATD and ATH get a result code, unless DTR is dropped meanwhile or the user
\* keeps dialling again while the last dial request is being carried out.
CommandAnswered == <>[]("DIAL" \notin req) => (owed ~> ~owed)

\* A call whose carrier has gone does not stay on line.
CarrierLossNoticed == state = "ONLINE" /\ ~rlsd ~> state # "ONLINE" \/ rlsd

\* A retrain ends, with a new speed or with the call.
RetrainEnds == retrain # "none" ~> retrain = "none"

-----------------------------------------------------------------------------
(* The service the driver implements.                                      *)

Phase ==
  IF state = "IDLE" THEN "onhook"
  ELSE IF wpc = "cleardown" THEN "releasing"
  ELSE IF state = "ONLINE" THEN "connected"
  ELSE "calling"

Service == INSTANCE CallService
  WITH phase <- Phase, transparent <- data_mode, buffered <- txfifo,
       BufferSize <- TxFifoSize

\* The driver is a CallService: calls go through their phases in order, data
\* is taken only by a connection and dropped with it, and neither calling nor
\* releasing lasts for ever.
ImplementsService == Service!Spec

-----------------------------------------------------------------------------
(* What comments of the driver say, and the code does not do.              *)

\* "Dropping DTR hangs up, as with AT&D2": no call is set up on a port that
\* has been closed.
NoCallOnClosedPort ==
  [][state = "IDLE" /\ state' # "IDLE" => open]_vars

=============================================================================
