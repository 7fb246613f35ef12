---------------------------- MODULE VmuBusProofs ----------------------------
(***************************************************************************)
(* Proofs about VmuBus, for any set of memory card blocks, with one driver *)
(* or both, and with allocations that fail or do not.                      *)
(***************************************************************************)
EXTENDS VmuBus, TLAPS

USE DEF busVars, hwVars, workVars, cardVars, vars, Drivers, Packets,
        NONE, BADCMD, DEVINFO, OK, DATATRF

\* The invariant holds of an enumerated, idle device.
LEMMA InitInv == Init => IInv
<1> SUFFICES ASSUME Init PROVE IInv  OBVIOUS
<1> USE DEF Init
<1>1. FlagsOK  BY Zenon DEF FlagsOK
<1>2. ValuesOK  BY VmuAssumption DEF ValuesOK
<1>3. OneQueue /\ BusyIsOwned /\ CoreWakesWaiters
  BY DEF OneQueue, BusyIsOwned, CoreWakesWaiters, CanGoOn
<1>4. RecvOK /\ SentOK /\ ReadOK /\ Alone
  BY DEF RecvOK, SentOK, ReadOK, Alone
<1> QED  BY <1>1, <1>2, <1>3, <1>4 DEF IInv, TypeOK

\* The bottom halves of the Maple core and the hardware keep it.
LEMMA CoreStep ==
  ASSUME IInv, BottomHalf \/ Hardware PROVE IInv'
<1> USE DEF IInv, TypeOK, OneQueue, BusyIsOwned, CoreWakesWaiters,
        CanGoOn, RecvOK, SentOK, ReadOK, Alone
<1> DEFINE Rest == OneQueue /\ BusyIsOwned /\ CoreWakesWaiters
                   /\ RecvOK /\ SentOK /\ ReadOK /\ Alone
<1>1. CASE StartDma
  <2>1. FlagsOK'  BY <1>1, Zenon DEF FlagsOK, StartDma
  <2> USE <1>1 DEF StartDma
  <2>2. ValuesOK' /\ Rest'  BY VmuAssumption DEF ValuesOK
  <2> QED  BY <2>1, <2>2
<1>2. CASE StartVblank
  <2>1. FlagsOK'  BY <1>2, Zenon DEF FlagsOK, StartVblank
  <2> USE <1>2 DEF StartVblank
  <2>2. ValuesOK' /\ Rest'  BY VmuAssumption DEF ValuesOK
  <2> QED  BY <2>1, <2>2
<1>3. CASE DmaCheck
  <2>1. FlagsOK'  BY <1>3, Zenon DEF FlagsOK, DmaCheck
  <2> USE <1>3 DEF DmaCheck, Transferred
  <2>2. ValuesOK' /\ Rest'  BY VmuAssumption DEF ValuesOK
  <2> QED  BY <2>1, <2>2
<1>4. CASE DmaUnlink
  <2>1. FlagsOK'  BY <1>4, Zenon DEF FlagsOK, DmaUnlink
  <2> USE <1>4 DEF DmaUnlink
  <2>2. ValuesOK'  BY VmuAssumption DEF ValuesOK
  <2>3. (OneQueue /\ BusyIsOwned /\ CoreWakesWaiters /\ RecvOK /\ SentOK)'
    BY VmuAssumption DEF ValuesOK
  <2>4. ReadOK'  BY DEF ValuesOK
  <2>5. Alone'
    <3>1. links' = {} /\ links # {}  BY DEF ValuesOK
    <3>2. pc' = pc /\ shared' = shared /\ bh' = "reply"  OBVIOUS
    <3> QED  BY <3>1, <3>2
  <2> QED  BY <2>1, <2>2, <2>3, <2>4, <2>5
<1>5. CASE DmaReply
  <2>1. FlagsOK'  BY <1>5, Zenon DEF FlagsOK, DmaReply
  <2> USE <1>5 DEF DmaReply, Code, ForThisRead, AfterClear
  <2>2. ValuesOK' /\ Rest'  BY VmuAssumption DEF ValuesOK
  <2> QED  BY <2>1, <2>2
<1>6. CASE DmaWake
  <2>1. FlagsOK'  BY <1>6, Zenon DEF FlagsOK, DmaWake
  <2> USE <1>6 DEF DmaWake, WakeUp, Woken
  <2>2. ValuesOK' /\ Rest'  BY VmuAssumption DEF ValuesOK
  <2> QED  BY <2>1, <2>2
<1>7. CASE Send
  <2>1. FlagsOK'  BY <1>7, Zenon DEF FlagsOK, Send
  <2>2. links \in SUBSET {"wait", "sent"} /\ packet \in Packets
        /\ onwire \in Packets
    BY Zenon DEF ValuesOK
  <2>3. \/ links' = {"sent"} /\ onwire' = packet
        \/ links' = links /\ onwire' = onwire
    BY <1>7, Zenon DEF Send
  <2>4. links' \in SUBSET {"wait", "sent"} /\ onwire' \in Packets
    <3>1. {"sent"} \in SUBSET {"wait", "sent"}  OBVIOUS
    <3>2. CASE links' = {"sent"} /\ onwire' = packet
      BY <2>2, <3>1, <3>2, Zenon
    <3>3. CASE links' = links /\ onwire' = onwire
      BY <2>2, <3>3, Zenon
    <3> QED  BY <2>3, <3>2, <3>3, Zenon
  <2> USE <1>7 DEF Send
  <2>5. hw' \in {"off", "armed", "running"} /\ bh' = "rest"
    BY DEF ValuesOK
  <2>6. ValuesOK'  BY <2>4, <2>5 DEF ValuesOK, workVars, cardVars
  <2>7. Rest'  BY VmuAssumption DEF ValuesOK
  <2> QED  BY <2>1, <2>6, <2>7
<1>8. CASE VblankCheck
  <2>1. FlagsOK'  BY <1>8, Zenon DEF FlagsOK, VblankCheck
  <2> USE <1>8 DEF VblankCheck
  <2>2. ValuesOK' /\ Rest'  BY VmuAssumption DEF ValuesOK
  <2> QED  BY <2>1, <2>2
<1>9. CASE PollSet
  <2>1. FlagsOK'  BY <1>9, Zenon DEF FlagsOK, PollSet, Taken
  <2> USE <1>9 DEF PollSet, Taken
  <2>2. ValuesOK' /\ Rest'  BY VmuAssumption DEF ValuesOK
  <2> QED  BY <2>1, <2>2
<1>10. CASE PollAdd
  <2>1. FlagsOK'  BY <1>10, Zenon DEF FlagsOK, PollAdd
  <2> USE <1>10 DEF PollAdd, PacketFree, Enqueue
  <2>2. ValuesOK'
    <3>0. links \in SUBSET {"wait", "sent"} /\ packet \in Packets
      BY Zenon DEF ValuesOK
    <3>1. links' \in SUBSET {"wait", "sent"} /\ packet' \in Packets
      BY <3>0 DEF Packets, busVars
    <3>2. onwire' = onwire /\ bh' = "send"
      BY DEF busVars
    <3> QED  BY <3>1, <3>2 DEF ValuesOK, hwVars, workVars, cardVars
  <2>3. Rest'  BY VmuAssumption DEF ValuesOK
  <2> QED  BY <2>1, <2>2, <2>3
<1>11. CASE Vblank
  <2>1. FlagsOK'  BY <1>11, Zenon DEF FlagsOK, Vblank
  <2> USE <1>11 DEF Vblank
  <2>2. ValuesOK' /\ Rest'  BY VmuAssumption DEF ValuesOK
  <2> QED  BY <2>1, <2>2
<1>12. CASE TransferDone
  <2>1. FlagsOK'  BY <1>12, Zenon DEF FlagsOK, TransferDone
  <2> USE <1>12 DEF TransferDone, Answers
  <2>2. ValuesOK' /\ Rest'  BY VmuAssumption DEF ValuesOK
  <2> QED  BY <2>1, <2>2
<1> QED
  BY <1>1, <1>2, <1>3, <1>4, <1>5, <1>6, <1>7, <1>8, <1>9, <1>10, <1>11,
     <1>12 DEF BottomHalf, Dispatch, Hardware

\* A draw of vmu-lcd keeps it.
LEMMA DrawInv ==
  ASSUME IInv, Draw PROVE IInv'
<1> USE DEF IInv, TypeOK, OneQueue, BusyIsOwned, CoreWakesWaiters,
        CanGoOn, RecvOK, SentOK, ReadOK, Alone
<1> DEFINE Rest == OneQueue /\ BusyIsOwned /\ CoreWakesWaiters
                   /\ RecvOK /\ SentOK /\ ReadOK /\ Alone
<1>1. CASE Begin("lcd")
  <2>1. FlagsOK'  BY <1>1, Zenon DEF FlagsOK, Begin
  <2> USE <1>1 DEF Begin
  <2>2. ValuesOK' /\ Rest'  BY VmuAssumption DEF ValuesOK
  <2> QED  BY <2>1, <2>2
<1>2. CASE PreWait("lcd")
  <2>1. FlagsOK'  BY <1>2, Zenon DEF FlagsOK, PreWait
  <2> USE <1>2 DEF PreWait, Goto
  <2>2. ValuesOK' /\ Rest'  BY VmuAssumption DEF ValuesOK
  <2> QED  BY <2>1, <2>2
<1>3. CASE PreDone("lcd")
  <2>1. FlagsOK'  BY <1>3, Zenon DEF FlagsOK, PreDone
  <2> USE <1>3 DEF PreDone, Goto, Fail, Succeed
  <2>2. ValuesOK'
    <3>1. done' \in {done, done \union {"lcd"}, done \ {"lcd"}}  OBVIOUS
    <3>2. done' \in SUBSET Drivers  BY <3>1 DEF ValuesOK
    <3> QED  BY <3>2, VmuAssumption DEF ValuesOK
  <2>3. Rest'  BY VmuAssumption DEF ValuesOK
  <2> QED  BY <2>1, <2>2, <2>3
<1>4. CASE SetBusy("lcd")
  <2>1. FlagsOK'  BY <1>4, Zenon DEF FlagsOK, SetBusy, Taken
  <2> USE <1>4 DEF SetBusy, Goto, Taken
  <2>2. ValuesOK' /\ Rest'  BY VmuAssumption DEF ValuesOK
  <2> QED  BY <2>1, <2>2
<1>5. CASE AddFails("lcd")
  <2>1. FlagsOK'  BY <1>5, Zenon DEF FlagsOK, AddFails
  <2> USE <1>5 DEF AddFails, Goto, Fail, Succeed
  <2>2. ValuesOK' /\ Rest'  BY VmuAssumption DEF ValuesOK
  <2> QED  BY <2>1, <2>2
<1>6. CASE AddRejected("lcd")
  <2>1. FlagsOK'  BY <1>6, Zenon DEF FlagsOK, AddRejected
  <2> USE <1>6 DEF AddRejected, PacketFree, Goto, Fail, Succeed
  <2>2. ValuesOK' /\ Rest'  BY VmuAssumption DEF ValuesOK
  <2> QED  BY <2>1, <2>2
<1>7. CASE Add("lcd")
  <2>1. FlagsOK'  BY <1>7, Zenon DEF FlagsOK, Add
  <2> USE <1>7 DEF Add, PacketFree, Enqueue, Goto
  <2>2. ValuesOK' /\ Rest'  BY VmuAssumption DEF ValuesOK
  <2> QED  BY <2>1, <2>2
<1>8. CASE Wait("lcd")
  <2>1. FlagsOK'  BY <1>8, Zenon DEF FlagsOK, Wait
  <2> USE <1>8 DEF Wait, Goto
  <2>2. ValuesOK' /\ Rest'  BY VmuAssumption DEF ValuesOK
  <2> QED  BY <2>1, <2>2
<1>9. CASE Timeout("lcd")
  <2>1. FlagsOK'  BY <1>9, Zenon DEF FlagsOK, Timeout
  <2> USE <1>9 DEF Timeout, Goto
  <2>2. ValuesOK' /\ Rest'  BY VmuAssumption DEF ValuesOK
  <2> QED  BY <2>1, <2>2
<1>10. CASE NoAnswer("lcd")
  <2>1. FlagsOK'  BY <1>10, Zenon DEF FlagsOK, NoAnswer
  <2> USE <1>10 DEF NoAnswer, Goto
  <2>2. ValuesOK' /\ Rest'  BY VmuAssumption DEF ValuesOK
  <2> QED  BY <2>1, <2>2
<1>11. CASE DrawClearBusy
  <2>1. FlagsOK'  BY <1>11, Zenon DEF FlagsOK, DrawClearBusy, ClearBusy
  <2> USE <1>11 DEF DrawClearBusy, ClearBusy, Goto, Fail
  <2>2. ValuesOK' /\ Rest'  BY VmuAssumption DEF ValuesOK
  <2> QED  BY <2>1, <2>2
<1>12. CASE DrawEnd
  <2>1. FlagsOK'  BY <1>12, Zenon DEF FlagsOK, DrawEnd
  <2> USE <1>12 DEF DrawEnd, Goto, Fail, Succeed
  <2>2. ValuesOK'
    <3>1. done' \in {done, done \union {"lcd"}, done \ {"lcd"}}  OBVIOUS
    <3>2. done' \in SUBSET Drivers  BY <3>1 DEF ValuesOK
    <3> QED  BY <3>2, VmuAssumption DEF ValuesOK
  <2>3. Rest'  BY VmuAssumption DEF ValuesOK
  <2> QED  BY <2>1, <2>2, <2>3
<1> QED
  BY <1>1, <1>2, <1>3, <1>4, <1>5, <1>6, <1>7, <1>8, <1>9, <1>10, <1>11,
     <1>12 DEF Draw, DrawStep

\* A block read of vmu-flash keeps it.
LEMMA ReadInv ==
  ASSUME IInv, Read PROVE IInv'
<1> USE DEF IInv, TypeOK, OneQueue, BusyIsOwned, CoreWakesWaiters,
        CanGoOn, RecvOK, SentOK, ReadOK, Alone
<1> DEFINE Rest == OneQueue /\ BusyIsOwned /\ CoreWakesWaiters
                   /\ RecvOK /\ SentOK /\ ReadOK /\ Alone
<1>1. CASE Begin("flash")
  <2>1. FlagsOK'  BY <1>1, Zenon DEF FlagsOK, Begin
  <2> USE <1>1 DEF Begin
  <2>2. ValuesOK' /\ Rest'  BY VmuAssumption DEF ValuesOK
  <2> QED  BY <2>1, <2>2
<1>2. CASE PreWait("flash")
  <2>1. FlagsOK'  BY <1>2, Zenon DEF FlagsOK, PreWait
  <2> USE <1>2 DEF PreWait, Goto
  <2>2. ValuesOK' /\ Rest'  BY VmuAssumption DEF ValuesOK
  <2> QED  BY <2>1, <2>2
<1>3. CASE PreDone("flash")
  <2>1. FlagsOK'  BY <1>3, Zenon DEF FlagsOK, PreDone
  <2> USE <1>3 DEF PreDone, Goto, Fail, Succeed
  <2>2. ValuesOK'
    <3>1. done' \in {done, done \union {"flash"}, done \ {"flash"}}  OBVIOUS
    <3>2. done' \in SUBSET Drivers  BY <3>1 DEF ValuesOK
    <3> QED  BY <3>2, VmuAssumption DEF ValuesOK
  <2>3. Rest'  BY VmuAssumption DEF ValuesOK
  <2> QED  BY <2>1, <2>2, <2>3
<1>4. CASE SetBusy("flash")
  <2>1. FlagsOK'  BY <1>4, Zenon DEF FlagsOK, SetBusy, Taken
  <2> USE <1>4 DEF SetBusy, Goto, Taken
  <2>2. ValuesOK' /\ Rest'  BY VmuAssumption DEF ValuesOK
  <2> QED  BY <2>1, <2>2
<1>5. CASE ReadPrepare
  <2>1. FlagsOK'  BY <1>5, Zenon DEF FlagsOK, ReadPrepare
  <2> USE <1>5 DEF ReadPrepare
  <2>2. ValuesOK' /\ Rest'  BY VmuAssumption DEF ValuesOK
  <2> QED  BY <2>1, <2>2
<1>6. CASE ReadAdd
  <2>1. FlagsOK'  BY <1>6, Zenon DEF FlagsOK, ReadAdd, Add
  <2> USE <1>6 DEF ReadAdd, Add, PacketFree, Enqueue, Goto
  <2>2. ValuesOK' /\ Rest'  BY VmuAssumption DEF ValuesOK
  <2> QED  BY <2>1, <2>2
<1>7. CASE ReadAddRejected
  <2>1. FlagsOK'  BY <1>7, Zenon DEF FlagsOK, ReadAddRejected
  <2> USE <1>7 DEF ReadAddRejected, PacketFree, Goto, Fail, Succeed
  <2>2. ValuesOK'
    <3>1. done' \in {done, done \union {"flash"}, done \ {"flash"}}  OBVIOUS
    <3>2. done' \in SUBSET Drivers  BY <3>1 DEF ValuesOK
    <3> QED  BY <3>2, VmuAssumption DEF ValuesOK
  <2>3. Rest'  BY VmuAssumption DEF ValuesOK
  <2> QED  BY <2>1, <2>2, <2>3
<1>8. CASE Wait("flash")
  <2>1. FlagsOK'  BY <1>8, Zenon DEF FlagsOK, Wait
  <2> USE <1>8 DEF Wait, Goto
  <2>2. ValuesOK' /\ Rest'  BY VmuAssumption DEF ValuesOK
  <2> QED  BY <2>1, <2>2
<1>9. CASE Timeout("flash")
  <2>1. FlagsOK'  BY <1>9, Zenon DEF FlagsOK, Timeout
  <2> USE <1>9 DEF Timeout, Goto
  <2>2. ValuesOK' /\ Rest'  BY VmuAssumption DEF ValuesOK
  <2> QED  BY <2>1, <2>2
<1>10. CASE NoAnswer("flash")
  <2>1. FlagsOK'  BY <1>10, Zenon DEF FlagsOK, NoAnswer
  <2> USE <1>10 DEF NoAnswer, Goto
  <2>2. ValuesOK' /\ Rest'  BY VmuAssumption DEF ValuesOK
  <2> QED  BY <2>1, <2>2
<1>11. CASE ReadClearBusy
  <2>1. FlagsOK'  BY <1>11, Zenon DEF FlagsOK, ReadClearBusy, ClearBusy
  <2> USE <1>11 DEF ReadClearBusy, ClearBusy, Goto, Fail
  <2>2. ValuesOK' /\ Rest'  BY VmuAssumption DEF ValuesOK
  <2> QED  BY <2>1, <2>2
<1>12. CASE ReadGiveUp
  <2>1. FlagsOK'  BY <1>12, Zenon DEF FlagsOK, ReadGiveUp
  <2> USE <1>12 DEF ReadGiveUp, Goto, Fail
  <2>2. ValuesOK' /\ Rest'  BY VmuAssumption DEF ValuesOK
  <2> QED  BY <2>1, <2>2
<1>13. CASE ReadEnd
  <2>1. FlagsOK'  BY <1>13, Zenon DEF FlagsOK, ReadEnd
  <2> USE <1>13 DEF ReadEnd, Goto, Fail, Succeed
  <2>2. ValuesOK'
    <3>1. done' \in {done, done \union {"flash"}, done \ {"flash"}}  OBVIOUS
    <3>2. done' \in SUBSET Drivers  BY <3>1 DEF ValuesOK
    <3> QED  BY <3>2, VmuAssumption DEF ValuesOK
  <2>3. Rest'  BY VmuAssumption DEF ValuesOK
  <2> QED  BY <2>1, <2>2, <2>3
<1> QED
  BY <1>1, <1>2, <1>3, <1>4, <1>5, <1>6, <1>7, <1>8, <1>9, <1>10, <1>11,
     <1>12, <1>13 DEF Read, ReadStep

\* Every step keeps it.
LEMMA Step == IInv /\ [Next]_vars => IInv'
<1> SUFFICES ASSUME IInv, [Next]_vars PROVE IInv'  OBVIOUS
<1>1. CASE BottomHalf \/ Hardware  BY <1>1, CoreStep
<1>2. CASE Draw  BY <1>2, DrawInv
<1>3. CASE Read  BY <1>3, ReadInv
<1>4. CASE UNCHANGED vars
  <2>1. FlagsOK'  BY <1>4, Zenon DEF FlagsOK, IInv, TypeOK
  <2>2. ValuesOK'  BY <1>4 DEF ValuesOK, IInv, TypeOK
  <2>3. (OneQueue /\ BusyIsOwned /\ CoreWakesWaiters)'
    BY <1>4 DEF IInv, OneQueue, BusyIsOwned, CoreWakesWaiters, CanGoOn
  <2>4. (RecvOK /\ SentOK /\ ReadOK /\ Alone)'
    BY <1>4 DEF IInv, RecvOK, SentOK, ReadOK, Alone
  <2> QED  BY <2>1, <2>2, <2>3, <2>4 DEF IInv, TypeOK
<1> QED  BY <1>1, <1>2, <1>3, <1>4 DEF Next

\* All parts of the invariant hold in every reachable state.
THEOREM Invariance == Spec => []IInv
  BY InitInv, Step, PTL DEF Spec

\* The types of the state: the variables keep to them.
THEOREM TypeCorrect == Spec => []TypeOK
  BY Invariance, PTL DEF IInv

\* maple_add_packet never links a device's one packet into both queues.
THEOREM PacketOnOneQueue == Spec => []OneQueue
  BY Invariance, PTL DEF IInv

\* The busy flag never outlives everything that would clear it.
THEOREM BusyHasOwner == Spec => []BusyIsOwned
  BY Invariance, PTL DEF IInv

\* The core's wake-ups are not lost, whichever reply makes the device idle.
THEOREM CoreWakes == Spec => []CoreWakesWaiters
  BY Invariance, PTL DEF IInv

\* maple_dma_handler dispatches the answer to the packet it takes off the sent
\* queue.
THEOREM RepliesAreFresh == Spec => NoStaleReply
<1>1. ASSUME IInv, [Next]_vars
      PROVE [bh = "unlink" /\ bh' = "reply" => recv.to = packet /\ newIrq]_vars
  BY <1>1 DEF IInv, SentOK
<1> QED  BY <1>1, Invariance, PTL DEF Spec, NoStaleReply

\* A block read that reports success hands out the block it asked for.
THEOREM ReadsHaveData == Spec => ReadHasData
<1>1. ASSUME IInv, [Next]_vars
      PROVE [pc["flash"] = "woken" /\ pc'["flash"] = "rest"
             /\ "flash" \in done' => got = wanted]_vars
  <2> SUFFICES ASSUME Next, pc["flash"] = "woken", pc'["flash"] = "rest",
                      "flash" \in done'
               PROVE got = wanted
    BY <1>1
  <2> USE <1>1 DEF IInv, TypeOK, ValuesOK, Goto, Fail
  <2>1. CASE BottomHalf \/ Hardware
    BY <2>1 DEF BottomHalf, Hardware, Dispatch, StartDma, StartVblank, DmaCheck,
       DmaUnlink, DmaReply, DmaWake, WakeUp, Woken, Send, VblankCheck, PollSet,
       PollAdd, Vblank, TransferDone
  <2>2. CASE Draw
    BY <2>2 DEF Draw, DrawStep, Begin, PreWait, PreDone, SetBusy, AddFails,
       AddRejected, Add, Wait, Timeout, NoAnswer, DrawClearBusy, ClearBusy,
       DrawEnd,
       Succeed
  <2>3. CASE Read
    <3>1. ReadEnd
      BY <2>3 DEF Read, ReadStep, Begin, PreWait, PreDone, SetBusy, ReadPrepare,
         ReadAdd, Add, ReadAddRejected, Wait, Timeout, NoAnswer,
         ReadClearBusy, ClearBusy, ReadGiveUp
    <3>2. got # "nothing"
      BY <3>1 DEF ReadEnd
    <3> QED  BY <3>2 DEF ReadOK
  <2> QED  BY <2>1, <2>2, <2>3 DEF Next
<1> QED  BY <1>1, Invariance, PTL DEF Spec, ReadHasData

\* A device whose packet is queued stays busy until its own answer comes or the
\* packet is taken away.  The reply to another packet makes it idle only if two
\* users had taken the device at once (Alone says that otherwise no reply is
\* dispatched while a packet is queued), and a driver only if it had found no
\* answer before, or had no memory for its packet.
THEOREM BusyIsKept == Spec => BusyBelongsToPacket
<1>1. ASSUME IInv, [Next]_vars
      PROVE [busy = 1 /\ busy' = 0 /\ links # {} =>
               \/ links' = {}
               \/ bh = "reply" /\ shared
               \/ \E d \in Drivers : pc[d] = "clear" /\ pc'[d] = "rest"
               \/ \E d \in OutOfMemory : pc[d] = "add" /\ pc'[d] = "rest"]_vars
  <2> DEFINE Owned == \/ links' = {}
                      \/ bh = "reply" /\ shared
                      \/ \E d \in Drivers : pc[d] = "clear" /\ pc'[d] = "rest"
                      \/ \E d \in OutOfMemory : pc[d] = "add" /\ pc'[d] = "rest"
  <2> SUFFICES ASSUME Next, busy = 1, busy' = 0, links # {}
               PROVE Owned
    BY <1>1
  <2>0. pc \in [Drivers -> {"rest", "pre", "presleep", "predone", "set", "add",
                            "wait", "sleep", "woken", "late", "clear"}]
    BY <1>1 DEF IInv, TypeOK, ValuesOK
  <2>1. CASE BottomHalf \/ Hardware
    <3>1. DmaReply
      BY <2>1 DEF BottomHalf, Hardware, Dispatch, StartDma, StartVblank,
         DmaCheck, DmaUnlink, DmaWake, Send, VblankCheck, PollSet, PollAdd,
         Vblank, TransferDone
    <3>2. bh = "reply"
      BY <3>1 DEF DmaReply
    <3>3. shared
      BY <1>1, <3>2 DEF IInv, Alone
    <3> QED  BY <3>2, <3>3
  <2>2. CASE Draw
    BY <2>0, <2>2 DEF Draw, DrawStep, Begin, PreWait, PreDone, SetBusy, AddFails,
       AddRejected, Add, Wait, Timeout, NoAnswer, DrawClearBusy, ClearBusy,
       DrawEnd, Goto, Fail
  <2>3. CASE Read
    BY <2>0, <2>3 DEF Read, ReadStep, Begin, PreWait, PreDone, SetBusy,
       ReadPrepare, ReadAdd, Add, ReadAddRejected, Wait, Timeout, NoAnswer,
       ReadClearBusy, ClearBusy, ReadGiveUp, ReadEnd, Goto, Fail
  <2> QED  BY <2>1, <2>2, <2>3 DEF Next
<1> QED  BY <1>1, Invariance, PTL DEF Spec, BusyBelongsToPacket

=============================================================================
