------------------------------- MODULE VmuBus -------------------------------
(***************************************************************************)
(* A VMU on the Maple bus, and the two drivers that share its one packet.  *)
(*                                                                         *)
(* Three threads and the hardware touch struct maple_device:               *)
(*   - the Maple core's bottom halves, maple_dma_handler and               *)
(*     maple_vblank_handler, which run one at a time on system_wq;         *)
(*   - vmu-lcd: vmu_lcd_draw, one at a time under lcd->lock;               *)
(*   - vmu-flash: block reads, one at a time (writes are left out);        *)
(*   - the DMA engine and its end interrupt.                               *)
(* The kernel is built with CONFIG_PREEMPT, so the threads interleave      *)
(* between any two accesses to the busy flag and to the packet.            *)
(*                                                                         *)
(* The patches change maple.c and vmu-flash.c in places; the parts of      *)
(* these files the patches do not show are modelled from how the patched   *)
(* code uses them.                                                         *)
(***************************************************************************)
EXTENDS Integers

CONSTANTS
  Blocks,  \* the memory card blocks that are read
  Active,  \* the drivers that use the VMU
  OutOfMemory \* the drivers whose allocations may fail

\* The names of the blocks are no other packet's, nor the empty buffer's.
ASSUME VmuAssumption ==
  /\ Blocks \intersect {"lcd", "devinfo", "nothing"} = {}
  /\ Active \subseteq {"lcd", "flash"}
  /\ OutOfMemory \subseteq {"lcd", "flash"}

VARIABLES
  busy,      \* mdev->busy: 0 idle, 1 in use, 2 the device did not answer
  links,     \* the queues mdev->mq->list is linked into
  packet,    \* mq->command and its data
  onwire,    \* the packet the DMA send buffer was built from
  recv,      \* mq->recvbuf: which packet it answers, with which code byte
  hw,        \* the DMA engine: "off", "armed" for VBLANK, or "running"
  newIrq,    \* maple_dma_irqs has moved on since maple_dma_armed was taken
  dmaWork,   \* maple_dma_process is queued
  vblWork,   \* maple_vblank_process is queued
  bh,        \* where the running bottom half stands
  pc,        \* where each driver stands
  done,      \* the drivers whose last operation reported success
  wanted,    \* the block vmu-flash is reading
  blockread, \* card->blockread is set
  readloc,   \* card->readloc
  got,       \* what card->read and the buffer hold: "nothing" or a block
  byDriver,  \* history: busy was last cleared by a driver, not by the core
  shared     \* history: the device was already taken when busy was last set

busVars   == <<links, packet>>
hwVars    == <<onwire, recv, hw, newIrq>>
workVars  == <<dmaWork, vblWork>>
cardVars  == <<wanted, blockread, readloc, got>>
vars == <<busy, busVars, hwVars, workVars, bh, pc, done, cardVars,
          byDriver, shared>>

Drivers == {"lcd", "flash"}
Packets == Blocks \union {"lcd", "devinfo"}

\* enum maple_code, as signed values.
NONE == -1
BADCMD == -3
DEVINFO == 5
OK == 7
DATATRF == 8

FlagsOK ==
  /\ newIrq \in BOOLEAN /\ dmaWork \in BOOLEAN /\ vblWork \in BOOLEAN
  /\ blockread \in BOOLEAN /\ byDriver \in BOOLEAN /\ shared \in BOOLEAN

ValuesOK ==
  /\ busy \in 0..2
  /\ links \in SUBSET {"wait", "sent"}
  /\ packet \in Packets /\ onwire \in Packets
  /\ recv \in [to : Packets, byte : 0..255]
  /\ hw \in {"off", "armed", "running"}
  /\ bh \in {"rest", "dma", "unlink", "reply", "wake", "send", "vblank",
             "pollset", "polladd"}
  /\ pc \in [Drivers -> {"rest", "pre", "presleep", "predone", "set", "add",
                         "wait", "sleep", "woken", "late", "clear"}]
  /\ done \in SUBSET Drivers
  /\ wanted \in Blocks /\ readloc \in Blocks
  /\ got \in Blocks \union {"nothing"}

TypeOK == ValuesOK /\ FlagsOK

\* An idle device that has been enumerated: its last packet was a DEVINFO.
Init ==
  /\ busy = 0 /\ links = {} /\ packet = "devinfo" /\ onwire = "devinfo"
  /\ recv = [to |-> "devinfo", byte |-> DEVINFO]
  /\ hw = "off" /\ newIrq = FALSE /\ dmaWork = FALSE /\ vblWork = FALSE
  /\ bh = "rest"
  /\ pc = [d \in Drivers |-> "rest"]
  /\ done = {}
  /\ wanted \in Blocks /\ readloc = wanted
  /\ blockread = FALSE /\ got = "nothing"
  /\ byDriver = FALSE /\ shared = FALSE

-----------------------------------------------------------------------------
(* maple_add_packet, and the helpers below it.  A definition whose comment  *)
(* begins with "Fault:" is a wrong variant of the one after it, there to    *)
(* show that a property can fail.                                           *)

\* Fault: the packet is queued wherever it is (before patch 0016).
PacketFreeAlways == TRUE

\* maple_add_packet rejects the packet while it is on either queue.
PacketFree == links = {}

Enqueue(p) == links' = links \union {"wait"} /\ packet' = p

\* A packet is under way, or someone who has set busy is about to queue one.
Taken == \/ links # {} \/ bh \in {"reply", "polladd"}
         \/ \E d \in Drivers : pc[d] = "add"

\* wake_up(&mdev->maple_wait): sleepers check their condition again.
Woken(d) == CASE pc[d] = "presleep" -> "pre"
              [] pc[d] = "sleep" -> "wait"
              [] OTHER -> pc[d]
WakeUp == pc' = [d \in Drivers |-> Woken(d)]

Goto(d, place) == pc' = [pc EXCEPT ![d] = place]

\* The operation returns an error, or reports success.
Fail(d)    == Goto(d, "rest") /\ done' = done \ {d}
Succeed(d) == Goto(d, "rest") /\ done' = done \union {d}

-----------------------------------------------------------------------------
(* The core's bottom halves.                                               *)

StartDma ==
  /\ bh = "rest" /\ dmaWork
  /\ dmaWork' = FALSE
  /\ bh' = "dma"
  /\ UNCHANGED <<busy, busVars, hwVars, vblWork, pc, done, cardVars,
                 byDriver, shared>>

StartVblank ==
  /\ bh = "rest" /\ vblWork
  /\ vblWork' = FALSE
  /\ bh' = "vblank"
  /\ UNCHANGED <<busy, busVars, hwVars, dmaWork, pc, done, cardVars,
                 byDriver, shared>>

\* Fault: an idle engine is taken for a finished transfer (before patch 0033).
TransferredIfIdle == hw # "running"

\* maple_dma_handler goes on if the engine is idle and has interrupted since
\* the sent queue was built.
Transferred == hw # "running" /\ ("sent" \in links => newIrq)

DmaCheck ==
  /\ bh = "dma"
  /\ IF Transferred
     THEN hw' = "off" /\ bh' = IF "sent" \in links THEN "unlink" ELSE "send"
     ELSE bh' = "rest" /\ UNCHANGED hw
  /\ UNCHANGED <<busy, busVars, onwire, recv, newIrq, workVars, pc, done,
                 cardVars, byDriver, shared>>

\* list_del_init: the packet is free again before its reply is looked at.
DmaUnlink ==
  /\ bh = "unlink"
  /\ links' = links \ {"sent"}
  /\ bh' = "reply"
  /\ UNCHANGED <<busy, packet, hwVars, workVars, pc, done, cardVars,
                 byDriver, shared>>

\* Fault: 0xff is not a code (before patch 0002).
CodeUnsigned == recv.byte

\* The response code, a signed byte.
Code == IF recv.byte > 127 THEN recv.byte - 256 ELSE recv.byte

\* Fault: any data is taken for the block that is read (before patch 0034).
ForThisReadAny == blockread

\* vmu_blockread accepts the memory card's reply for the block asked for.
ForThisRead == blockread /\ recv.to = readloc

\* Fault: a reply to the core's own poll wakes nobody (before patch 0036).
AfterClearQuiet == IF Code = DEVINFO THEN "send" ELSE "wake"

\* Every reply that makes the device idle wakes the waiters.
AfterClear == "wake"

\* The replies of the dispatch: data goes to vmu-flash's callback; a VMU that
\* did not answer is marked, as vmu_can_unload refuses to let it go; after any
\* other known code the device is idle.
DmaReply ==
  /\ bh = "reply"
  /\ CASE Code = NONE -> busy' = 2 /\ bh' = "wake"
       [] Code \in {DEVINFO, OK, DATATRF, BADCMD} -> busy' = 0 /\ bh' = AfterClear
       [] OTHER -> bh' = "send" /\ UNCHANGED busy
  /\ got' = IF Code = DATATRF /\ ForThisRead THEN recv.to ELSE got
  /\ byDriver' = FALSE
  /\ UNCHANGED <<busVars, hwVars, workVars, pc, done, wanted, blockread,
                 readloc, shared>>

DmaWake ==
  /\ bh = "wake"
  /\ WakeUp
  /\ bh' = "send"
  /\ UNCHANGED <<busy, busVars, hwVars, workVars, done, cardVars,
                 byDriver, shared>>

\* maple_send: with no packet in flight build the sent queue from the wait
\* queue and note the interrupt count; in any case arm the engine.
Send ==
  /\ bh = "send"
  /\ bh' = "rest"
  /\ hw' = IF hw = "running" THEN hw ELSE "armed"
  /\ \/ /\ hw # "running" /\ links = {"wait"}
        /\ links' = {"sent"} /\ onwire' = packet /\ newIrq' = FALSE
     \/ /\ hw = "running" \/ links # {"wait"}
        /\ UNCHANGED <<links, onwire, newIrq>>
  /\ UNCHANGED <<busy, packet, recv, workVars, pc, done, cardVars,
                 byDriver, shared>>

\* maple_vblank_handler: unless a packet is in flight, poll an idle device
\* for its DEVINFO once per MAPLE_PNP_INTERVAL.
VblankCheck ==
  /\ bh = "vblank"
  /\ IF hw = "running" THEN bh' = "rest" /\ UNCHANGED hw
     ELSE /\ hw' = "off"
          /\ \/ bh' = "send"
             \/ "sent" \notin links /\ busy = 0 /\ bh' = "pollset"
  /\ UNCHANGED <<busy, busVars, onwire, recv, newIrq, workVars, pc, done,
                 cardVars, byDriver, shared>>

PollSet ==
  /\ bh = "pollset"
  /\ busy' = 1 /\ shared' = Taken
  /\ bh' = "polladd"
  /\ UNCHANGED <<busVars, hwVars, workVars, pc, done, cardVars, byDriver>>

PollAdd ==
  /\ bh = "polladd"
  /\ \/ PacketFree /\ Enqueue("devinfo")
     \/ ~PacketFree /\ UNCHANGED busVars
  /\ bh' = "send"
  /\ UNCHANGED <<busy, hwVars, workVars, pc, done, cardVars, byDriver, shared>>

-----------------------------------------------------------------------------
(* The hardware.                                                           *)

\* The VBLANK starts an armed engine, and its interrupt queues the work.
Vblank ==
  /\ hw' = IF hw = "armed" THEN "running" ELSE hw
  /\ vblWork' = TRUE
  /\ UNCHANGED <<busy, busVars, onwire, recv, newIrq, dmaWork, bh, pc, done,
                 cardVars, byDriver, shared>>

\* What the device may answer: what it was asked for, an error to a read, or
\* nothing, which reads as all ones.
Answers(p) == {255} \union
  CASE p = "devinfo" -> {DEVINFO}
    [] p = "lcd"     -> {OK}
    [] OTHER         -> {DATATRF, 256 + BADCMD}

\* The transfer ends; maple_dma_interrupt counts it and queues the work.
TransferDone ==
  /\ hw = "running"
  /\ hw' = "off"
  /\ \E b \in Answers(onwire) : recv' = [to |-> onwire, byte |-> b]
  /\ newIrq' = TRUE
  /\ dmaWork' = TRUE
  /\ UNCHANGED <<busy, busVars, onwire, vblWork, bh, pc, done, cardVars,
                 byDriver, shared>>

-----------------------------------------------------------------------------
(* The protocol both drivers follow with busy and the packet.              *)

\* vmu_lcd_draw or a block read begins: an operation in flight is waited for.
Begin(d) ==
  /\ d \in Active /\ pc[d] = "rest"
  /\ pc' = [pc EXCEPT ![d] = IF busy = 1 THEN "pre" ELSE "set"]
  /\ done' = done \ {d}
  /\ IF d = "flash" THEN wanted' \in Blocks ELSE UNCHANGED wanted
  /\ UNCHANGED <<busy, busVars, hwVars, workVars, bh, blockread, readloc, got,
                 byDriver, shared>>

\* wait_event_interruptible_timeout on the device becoming idle.
PreWait(d) ==
  /\ pc[d] = "pre"
  /\ Goto(d, IF busy = 0 THEN "predone" ELSE "presleep")
  /\ UNCHANGED <<busy, busVars, hwVars, workVars, bh, done, cardVars,
                 byDriver, shared>>

\* The wait is over, or its time is, for a sleeper.
PreDone(d) ==
  /\ pc[d] \in {"presleep", "predone"}
  /\ \/ busy = 1 /\ Fail(d)
     \/ busy # 1 /\ Goto(d, "set") /\ UNCHANGED done
  /\ UNCHANGED <<busy, busVars, hwVars, workVars, bh, cardVars, byDriver, shared>>

SetBusy(d) ==
  /\ pc[d] = "set"
  /\ busy' = 1 /\ shared' = Taken
  /\ Goto(d, "add")
  /\ UNCHANGED <<busVars, hwVars, workVars, bh, done, cardVars, byDriver>>

\* maple_add_packet fails for want of memory, before it looks at the queues:
\* busy is cleared.
AddFails(d) ==
  /\ pc[d] = "add" /\ d \in OutOfMemory
  /\ busy' = 0 /\ byDriver' = TRUE
  /\ Fail(d)
  /\ UNCHANGED <<busVars, hwVars, workVars, bh, cardVars, shared>>

\* Fault: busy is cleared although it belongs to the queued packet.
AddRejectedClears(d) ==
  /\ pc[d] = "add" /\ ~PacketFree
  /\ busy' = 0 /\ byDriver' = TRUE
  /\ Fail(d)
  /\ UNCHANGED <<busVars, hwVars, workVars, bh, cardVars, shared>>

\* -EBUSY: the queued packet owns busy.
AddRejected(d) ==
  /\ pc[d] = "add" /\ ~PacketFree
  /\ Fail(d)
  /\ UNCHANGED <<busy, busVars, hwVars, workVars, bh, cardVars, byDriver, shared>>

Add(d) ==
  /\ pc[d] = "add" /\ PacketFree
  /\ Enqueue(IF d = "lcd" THEN "lcd" ELSE readloc)
  /\ Goto(d, "wait")
  /\ UNCHANGED <<busy, hwVars, workVars, bh, done, cardVars, byDriver, shared>>

Wait(d) ==
  /\ pc[d] = "wait"
  /\ Goto(d, IF busy = 1 THEN "sleep" ELSE "woken")
  /\ UNCHANGED <<busy, busVars, hwVars, workVars, bh, done, cardVars,
                 byDriver, shared>>

\* Fault: the wait has no timeout.
TimeoutNever(d) == FALSE /\ UNCHANGED vars

\* The wait for the answer times out, or a signal ends it; the condition is
\* looked at once more.
Timeout(d) ==
  /\ pc[d] = "sleep"
  /\ Goto(d, IF busy = 1 THEN "late" ELSE "woken")
  /\ UNCHANGED <<busy, busVars, hwVars, workVars, bh, done, cardVars,
                 byDriver, shared>>

\* The device is found not to have answered, and then made idle.
NoAnswer(d) ==
  /\ pc[d] \in {"woken", "late"} /\ busy = 2
  /\ Goto(d, "clear")
  /\ UNCHANGED <<busy, busVars, hwVars, workVars, bh, done, cardVars,
                 byDriver, shared>>

ClearBusy(d) ==
  /\ pc[d] = "clear"
  /\ busy' = 0 /\ byDriver' = TRUE
  /\ Fail(d)
  /\ UNCHANGED <<busVars, hwVars, workVars, bh, shared>>

-----------------------------------------------------------------------------
(* vmu-lcd.                                                                *)

DrawClearBusy == ClearBusy("lcd") /\ UNCHANGED cardVars

\* A draw that timed out leaves its packet queued and busy set.
DrawEnd ==
  /\ pc["lcd"] \in {"woken", "late"} /\ busy # 2
  /\ \/ pc["lcd"] = "woken" /\ Succeed("lcd")
     \/ pc["lcd"] = "late" /\ Fail("lcd")
  /\ UNCHANGED <<busy, busVars, hwVars, workVars, bh, cardVars, byDriver, shared>>

DrawStep == \/ PreWait("lcd") \/ PreDone("lcd") \/ SetBusy("lcd")
            \/ AddFails("lcd") \/ AddRejected("lcd") \/ Add("lcd")
            \/ Wait("lcd") \/ Timeout("lcd") \/ NoAnswer("lcd")
            \/ DrawClearBusy \/ DrawEnd

Draw == Begin("lcd") \/ DrawStep

-----------------------------------------------------------------------------
(* vmu-flash.                                                              *)

\* The read buffer and its location are set up, then the packet is queued.
ReadPrepare ==
  /\ pc["flash"] = "add" /\ ~blockread
  /\ blockread' = TRUE /\ readloc' = wanted /\ got' = "nothing"
  /\ UNCHANGED <<busy, busVars, hwVars, workVars, bh, pc, done, wanted,
                 byDriver, shared>>

ReadAdd ==
  /\ blockread
  /\ Add("flash")

\* maple_add_packet failed or found the packet queued.
ReadAddRejected ==
  /\ pc["flash"] = "add" /\ blockread
  /\ blockread' = FALSE
  /\ \/ /\ ~PacketFree
        /\ Fail("flash")
        /\ UNCHANGED <<busy, byDriver, shared>>
     \/ /\ "flash" \in OutOfMemory
        /\ Fail("flash")
        /\ busy' = 0 /\ byDriver' = TRUE
  /\ UNCHANGED <<busVars, hwVars, workVars, bh, wanted, readloc, got, shared>>

\* Fault: the packet is dequeued and the device left busy.
ReadGiveUpStaysBusy ==
  /\ pc["flash"] = "late" /\ busy # 2 /\ bh = "rest"
  /\ Fail("flash")
  /\ blockread' = FALSE
  /\ links' = {}
  /\ UNCHANGED <<busy, packet, hwVars, workVars, bh, wanted, readloc, got,
                 byDriver, shared>>

\* A read that timed out takes its packet off the queue.  That this is done
\* without the bus's lock is not modelled: it does not fall into a run of a
\* bottom half here.
ReadGiveUp ==
  /\ pc["flash"] = "late" /\ busy # 2 /\ bh = "rest"
  /\ Fail("flash")
  /\ blockread' = FALSE
  /\ busy' = 0 /\ byDriver' = TRUE
  /\ links' = {}
  /\ UNCHANGED <<packet, hwVars, workVars, bh, wanted, readloc, got, shared>>

ReadClearBusy ==
  /\ ClearBusy("flash")
  /\ blockread' = FALSE
  /\ UNCHANGED <<wanted, readloc, got>>

\* The device went idle: hand out the block if it arrived.
ReadEnd ==
  /\ pc["flash"] = "woken" /\ busy # 2
  /\ \/ got # "nothing" /\ Succeed("flash")
     \/ got = "nothing" /\ Fail("flash")
  /\ blockread' = FALSE
  /\ UNCHANGED <<busy, busVars, hwVars, workVars, bh, wanted, readloc, got,
                 byDriver, shared>>

ReadStep == \/ PreWait("flash") \/ PreDone("flash") \/ SetBusy("flash")
            \/ ReadPrepare \/ ReadAdd \/ ReadAddRejected \/ Wait("flash")
            \/ Timeout("flash") \/ NoAnswer("flash") \/ ReadClearBusy
            \/ ReadGiveUp \/ ReadEnd

Read == Begin("flash") \/ ReadStep

DriverStep(d) == (d = "lcd" /\ DrawStep) \/ (d = "flash" /\ ReadStep)

-----------------------------------------------------------------------------
Dispatch == DmaCheck \/ DmaUnlink \/ DmaReply \/ DmaWake

BottomHalf == \/ StartDma \/ StartVblank \/ Dispatch \/ Send
              \/ VblankCheck \/ PollSet \/ PollAdd

Hardware == Vblank \/ TransferDone

Next == BottomHalf \/ Hardware \/ Draw \/ Read

\* The workqueue runs what is queued, the VBLANK comes with every field and the
\* engine ends what it started; the bottom halves are short against a field, so
\* not every VBLANK falls into one of them; a driver that has begun is scheduled,
\* and its timer is not stopped by a wake-up that came too early.
Fairness ==
  /\ WF_vars(BottomHalf) /\ SF_vars(StartVblank)
  /\ SF_vars(StartDma /\ hw # "running")
  /\ WF_vars(Vblank) /\ WF_vars(TransferDone)
  /\ SF_vars(Vblank /\ hw = "armed") /\ SF_vars(DmaCheck /\ hw # "running")
  /\ \A d \in Active : /\ WF_vars(DriverStep(d))
                      /\ SF_vars(PreDone(d)) /\ SF_vars(Timeout(d))
  /\ \A d \in Active \ {"lcd"} : SF_vars(ReadGiveUp)

Spec == Init /\ [][Next]_vars
FairSpec == Spec /\ Fairness

-----------------------------------------------------------------------------
(* Properties.                                                             *)

\* A packet is on one queue at a time: one that is on both would link the
\* wait queue into the sent queue.
OneQueue == ~({"wait", "sent"} \subseteq links)

\* A reply is dispatched only for the packet it answers, never the reply the
\* receive buffer still holds from the packet before.
NoStaleReply == [][bh = "unlink" /\ bh' = "reply" => recv.to = packet /\ newIrq]_vars

\* A busy device has a packet that will make it idle again, or someone who is
\* about to queue one or to clear the flag: it is never busy for ever.
BusyIsOwned ==
  busy = 1 => \/ links # {} \/ bh \in {"reply", "polladd"}
              \/ \E d \in Drivers : pc[d] = "add"

\* A read that succeeds returns the block it asked for, though the replies to
\* earlier reads, polls and LCD writes may come in between.
ReadHasData == [][pc["flash"] = "woken" /\ pc'["flash"] = "rest"
                  /\ "flash" \in done' => got = wanted]_vars

\* What a driver waits for.
CanGoOn(d) == \/ pc[d] = "presleep" /\ busy = 0
              \/ pc[d] = "sleep" /\ busy # 1

\* When the core makes a device idle, no driver sleeps on for its time-out.
CoreWakesWaiters ==
  \A d \in Drivers : CanGoOn(d) /\ ~byDriver => bh = "wake"

\* "The queued packet owns busy": while a packet is queued, only taking it off its
\* queue makes a busy device idle, neither the reply to another packet nor a driver
\* that was turned away.  Left out are a reply when two users had taken the device
\* at once (QueuedOwnsBusy says so of every reply, and fails), a driver that found
\* no answer and clears the flag that is another packet's by then, and one whose
\* allocation failed.
BusyBelongsToPacket ==
  [][busy = 1 /\ busy' = 0 /\ links # {} =>
       \/ links' = {}
       \/ bh = "reply" /\ shared
       \/ \E d \in Drivers : pc[d] = "clear" /\ pc'[d] = "rest"
       \/ \E d \in OutOfMemory : pc[d] = "add" /\ pc'[d] = "rest"]_vars

\* The comment in vmu_lcd_draw taken by its word: as long as a packet is queued no
\* reply makes a busy device idle.  A packet is unlinked before its own reply is
\* looked at: the reply is another's, and the draw it wakes returns success though
\* its picture was not sent.
QueuedOwnsBusy == [][bh = "reply" /\ busy = 1 /\ busy' = 0 => links = {}]_vars

\* A busy device becomes idle.
BusyEnds == busy = 1 ~> busy # 1

\* An operation of a driver ends, whatever the bus does.
OperationsEnd == \A d \in Drivers : pc[d] # "rest" ~> pc[d] = "rest"

-----------------------------------------------------------------------------
(* The inductive invariant that the proofs rest on.                        *)

\* The code bytes a device can answer with.
RecvOK == recv.byte \in {255, 256 + BADCMD, DEVINFO, OK, DATATRF}

\* The sent packet is the one on the wire, and once the interrupt came the
\* receive buffer answers it.
SentOK == /\ "sent" \in links => onwire = packet
          /\ "sent" \in links /\ newIrq => recv.to = onwire
          /\ bh = "unlink" => "sent" \in links /\ newIrq

\* The read buffer is set exactly while a read may be answered, and holds
\* nothing but the block of this read.
ReadOK == /\ blockread => readloc = wanted /\ got \in {"nothing", readloc}
          /\ pc["flash"] \in {"wait", "sleep", "woken"} => blockread
          /\ blockread => pc["flash"] \in {"add", "wait", "sleep", "woken",
                                          "late", "clear"}

\* If busy was set when the device was free, one user has it: a queued packet, a
\* reply that is dispatched, the poll or a driver.
Alone == ~shared =>
  /\ links # {} => bh \notin {"reply", "polladd"} /\ \A d \in Drivers : pc[d] # "add"
  /\ bh \in {"reply", "polladd"} => \A d \in Drivers : pc[d] # "add"
  /\ pc["lcd"] = "add" => pc["flash"] # "add"

\* All that is proved of the bus, made inductive.
IInv == TypeOK /\ OneQueue /\ BusyIsOwned /\ CoreWakesWaiters
        /\ RecvOK /\ SentOK /\ ReadOK /\ Alone

=============================================================================
