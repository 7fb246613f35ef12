----------------------------- MODULE LanAdapter -----------------------------
(***************************************************************************)
(* The driver of the SEGA LAN adapter HIT-0300 (lan_adapter 0.0.8), from   *)
(* the loading of the module to its removal, and the MB86967 it drives.    *)
(*                                                                         *)
(* The kernel runs on one processor: the interrupt handler runs between    *)
(* any two steps of the rest and to its end.  The chip goes on receiving   *)
(* while the handler reads.                                                *)
(*                                                                         *)
(* The receive buffer is a stream of bytes that is read through one port:  *)
(* status, a spare byte, two bytes of length, and the frame.  A byte is    *)
(* the pair of its place and the number of its frame's bytes.              *)
(***************************************************************************)
EXTENDS Integers, Sequences

CONSTANTS
  Rom,       \* the words of the EEPROM, each a pair of bytes
  FrameMax,  \* stands for the 1514 bytes of the longest frame
  PortMax    \* bound: bytes in the receive buffer

\* The EEPROM holds the three words of the station address; the buffer has
\* room for a frame longer than the driver takes.
ASSUME LanAssumption ==
  /\ Rom \in [0..2 -> (0..255) \X (0..255)]
  /\ FrameMax \in Nat \ {0} /\ PortMax \in Nat /\ PortMax >= 5 + FrameMax

VARIABLES
  mode,    \* DLCR5: which frames the receiver takes: "none", "other", "prom"
  bank,    \* DLCR7: which registers the numbers 8 to 15 reach
  power,   \* DLCR7: not in stand-by
  enabled, \* DLCR6: receiver and transmitter run
  rxMask,  \* DLCR3: a frame raises the interrupt
  rxReady, \* DLCR1: a frame has arrived since this was acknowledged
  port,    \* the receive buffer, from the byte the port gives next
  txBusy,  \* BMPR10: a packet is being sent
  pc,      \* where loading or unloading the module stands
  priv,    \* dev->priv: "none", "new", "detected" (status), or "freed"
  region,  \* the I/O region is the driver's
  irqHeld, \* the interrupt is the driver's
  addr,    \* dev->dev_addr
  hnd,     \* the interrupt handler: "idle", "rx" in net_rx, "unmask" after it
  iface,   \* the interface: "down", "opening" (before the list), "up"
  mcast,   \* dev->mc_count # 0, or IFF_ALLMULTI
  promisc, \* dev->flags & IFF_PROMISC
  held,    \* the packet the kernel must offer again: "none", "fits", "long"
  restarted, \* history: net_timeout ran since the list was last set
  refused,   \* history: net_rx left a frame's bytes unread since the reset
  garbled    \* history: something else than a frame was passed on

chipVars == <<mode, bank, power, enabled, rxMask, rxReady, port>>
lifeVars == <<pc, priv, region, irqHeld, addr>>
listVars == <<mcast, promisc, restarted>>
history  == <<refused, garbled>>
vars == <<chipVars, txBusy, lifeVars, hnd, iface, listVars, held, history>>

NoAddr == <<>>

\* A byte of the stream: place "at" of the "of" bytes of header and frame.
Bytes(n) == [i \in 1..n |-> [at |-> i, of |-> n]]
FrameLengths == 1..(FrameMax + 1)

FlagsOK ==
  /\ power \in BOOLEAN /\ enabled \in BOOLEAN /\ rxMask \in BOOLEAN
  /\ rxReady \in BOOLEAN /\ txBusy \in BOOLEAN /\ region \in BOOLEAN
  /\ irqHeld \in BOOLEAN /\ mcast \in BOOLEAN /\ promisc \in BOOLEAN
  /\ restarted \in BOOLEAN /\ refused \in BOOLEAN /\ garbled \in BOOLEAN

ValuesOK ==
  /\ mode \in {"none", "other", "prom"} /\ bank \in 0..3
  /\ pc \in {"out", "region", "detect", "setup", "irq", "ready", "in", "exit",
             "kfree", "freeirq", "release"}
  /\ priv \in {"none", "new", "detected", "freed"}
  /\ hnd \in {"idle", "rx", "unmask"} /\ iface \in {"down", "opening", "up"}
  /\ held \in {"none", "fits", "long"}

TypeOK == FlagsOK /\ ValuesOK

\* The adapter is as the program that started the kernel left it: it may have
\* loaded the kernel over the net.
Init ==
  /\ mode \in {"none", "other", "prom"} /\ bank \in 0..3
  /\ power \in BOOLEAN /\ enabled \in BOOLEAN /\ rxMask \in BOOLEAN
  /\ rxReady = FALSE /\ port = <<>> /\ txBusy = FALSE
  /\ pc = "out" /\ priv = "none" /\ region = FALSE /\ irqHeld = FALSE
  /\ addr = NoAddr /\ hnd = "idle" /\ iface = "down"
  /\ mcast = FALSE /\ promisc = FALSE /\ held = "none"
  /\ restarted = FALSE /\ refused = FALSE /\ garbled = FALSE

\* A step of the kernel outside the interrupt handler.
Kernel == hnd = "idle"

-----------------------------------------------------------------------------
(* The EEPROM.  The bits of a byte go most significant first.              *)

Weight == <<128, 64, 32, 16, 8, 4, 2, 1>>
Bits(v) == [i \in 1..8 |-> (v \div Weight[i]) % 2]

\* The byte in the eight bits after the first o.
Byte(b, o) == 128 * b[o + 1] + 64 * b[o + 2] + 32 * b[o + 3] + 16 * b[o + 4]
              + 8 * b[o + 5] + 4 * b[o + 6] + 2 * b[o + 7] + b[o + 8]

\* What is strobed out to read word n: a start bit and 0x80 | n.
Command(n) == [i \in 1..9 |-> IF i = 1 THEN 1 ELSE Bits(128 + n)[i - 1]]

\* The serial EEPROM: the start bit and the command 10 are followed by an
\* address of six bits; it shifts out the two bytes of the word there.
Shifted(c) ==
  LET a == 32 * c[4] + 16 * c[5] + 8 * c[6] + 4 * c[7] + 2 * c[8] + c[9]
  IN  [i \in 1..16 |-> IF ~(c[1] = 1 /\ c[2] = 1 /\ c[3] = 0 /\ a \in 0..2) THEN 1
                       ELSE IF i <= 8 THEN Bits(Rom[a][1])[i]
                       ELSE Bits(Rom[a][2])[i - 8]]

EepromWord(n) == LET in == Shifted(Command(n)) IN <<Byte(in, 0), Byte(in, 8)>>

Mac == [n \in 0..2 |-> EepromWord(n)]

-----------------------------------------------------------------------------
(* Loading the module: register_netdev calls init_HIT.                     *)

\* Every failure leaves the module unloaded.
LoadFails == pc' = "out" /\ UNCHANGED <<priv, irqHeld, addr>>

AllocPriv ==
  /\ Kernel /\ pc = "out"
  /\ pc' = "region" /\ priv' = "new"
  /\ UNCHANGED <<chipVars, txBusy, region, irqHeld, addr, hnd, iface, listVars,
                 held, history>>

RequestRegion ==
  /\ Kernel /\ pc = "region"
  /\ \/ region' = TRUE /\ pc' = "detect" /\ UNCHANGED <<priv, irqHeld, addr>>
     \/ region' = FALSE /\ LoadFails
  /\ UNCHANGED <<chipVars, txBusy, hnd, iface, listVars, held, history>>

\* The reset of the G2 bus.
Reset ==
  /\ mode' = "none" /\ bank' = 0 /\ power' = TRUE /\ enabled' = FALSE
  /\ rxMask' = FALSE /\ rxReady' = FALSE /\ port' = <<>> /\ txBusy' = FALSE
  /\ refused' = FALSE /\ garbled' = FALSE

\* The slot is reset; it may be empty or hold the modem.
Detect ==
  /\ Kernel /\ pc = "detect"
  /\ Reset
  /\ \/ pc' = "setup" /\ UNCHANGED <<priv, region, irqHeld, addr>>
     \/ region' = FALSE /\ LoadFails
  /\ UNCHANGED <<hnd, iface, listVars, held>>

\* The chip is acknowledged, switched on with its data link control off, given
\* the station address and no multicast addresses, and left in bank 2.
SetUp ==
  /\ Kernel /\ pc = "setup"
  /\ rxReady' = FALSE /\ power' = TRUE /\ enabled' = FALSE
  /\ addr' = Mac /\ bank' = 2 /\ mode' = "other"
  /\ pc' = "irq"
  /\ UNCHANGED <<rxMask, port, txBusy, priv, region, irqHeld, hnd, iface,
                 listVars, held, history>>

RequestIrq ==
  /\ Kernel /\ pc = "irq"
  /\ \/ irqHeld' = TRUE /\ pc' = "ready" /\ UNCHANGED <<priv, region, addr>>
     \/ region' = FALSE /\ LoadFails
  /\ UNCHANGED <<chipVars, txBusy, hnd, iface, listVars, held, history>>

\* The lock, the handlers and the status are set, and only then the interrupt,
\* the receiver and the transmitter enabled.
Ready ==
  /\ Kernel /\ pc = "ready"
  /\ priv' = "detected" /\ rxMask' = TRUE /\ enabled' = TRUE
  /\ pc' = "in"
  /\ UNCHANGED <<mode, bank, power, rxReady, port, txBusy, region, irqHeld,
                 addr, hnd, iface, listVars, held, history>>

-----------------------------------------------------------------------------
(* Unloading it.  The kernel keeps the module while the interface is up.   *)

Unregister ==
  /\ Kernel /\ pc = "in" /\ iface = "down"
  /\ pc' = "exit"
  /\ UNCHANGED <<chipVars, txBusy, priv, region, irqHeld, addr, hnd, iface,
                 listVars, held, history>>

\* Fault: the status is compared the wrong way round, the chip stays on.
ExitHITAwake ==
  /\ Kernel /\ pc = "exit"
  /\ pc' = "kfree"
  /\ UNCHANGED <<chipVars, txBusy, priv, region, irqHeld, addr, hnd, iface,
                 listVars, held, history>>

\* Only a detected chip is sent to stand-by: from then on it is silent, which
\* the interrupt handler needs, as it stays registered while priv is freed.
ExitHIT ==
  /\ Kernel /\ pc = "exit"
  /\ power' = (priv # "detected" /\ power)
  /\ pc' = "kfree"
  /\ UNCHANGED <<mode, bank, enabled, rxMask, rxReady, port, txBusy, priv,
                 region, irqHeld, addr, hnd, iface, listVars, held, history>>

FreePriv ==
  /\ Kernel /\ pc = "kfree"
  /\ priv' = "freed" /\ pc' = "freeirq"
  /\ UNCHANGED <<chipVars, txBusy, region, irqHeld, addr, hnd, iface, listVars,
                 held, history>>

FreeIrq ==
  /\ Kernel /\ pc = "freeirq"
  /\ irqHeld' = FALSE /\ pc' = "release"
  /\ UNCHANGED <<chipVars, txBusy, priv, region, addr, hnd, iface, listVars,
                 held, history>>

ReleaseRegion ==
  /\ Kernel /\ pc = "release"
  /\ region' = FALSE /\ pc' = "out" /\ priv' = "none"
  /\ UNCHANGED <<chipVars, txBusy, irqHeld, addr, hnd, iface, listVars, held,
                 history>>

-----------------------------------------------------------------------------
(* The interface.                                                          *)

\* net_open: the normal receive mode.
Opened == bank' = 2 /\ mode' = "other"

IfUp ==
  /\ Kernel /\ pc = "in" /\ iface = "down"
  /\ Opened
  /\ iface' = "opening"
  /\ UNCHANGED <<power, enabled, rxMask, rxReady, port, txBusy, lifeVars, hnd,
                 listVars, held, history>>

\* Fault: the kernel is not told of the promiscuous mode.
SetListQuietly(m, p) ==
  /\ mcast' = m /\ promisc' = p /\ restarted' = FALSE
  /\ mode' = IF m \/ p THEN "prom" ELSE "other"

\* set_multicast_list: any multicast address asks for every frame, and the
\* kernel is told by a flag that nothing of the driver takes back.
SetMulticastList(m, p) ==
  /\ mcast' = m /\ promisc' = (m \/ p) /\ restarted' = FALSE
  /\ mode' = IF m \/ p THEN "prom" ELSE "other"

\* dev_open sets the list after net_open.
Upload ==
  /\ Kernel /\ iface = "opening"
  /\ SetMulticastList(mcast, promisc)
  /\ iface' = "up"
  /\ UNCHANGED <<bank, power, enabled, rxMask, rxReady, port, txBusy, lifeVars,
                 hnd, held, history>>

\* An address comes or goes, or promiscuity is switched: a driver that is up is
\* told.
ChangeList(m, p) ==
  /\ Kernel /\ pc = "in" /\ (m = mcast \/ p = promisc)
  /\ \/ iface = "up" /\ SetMulticastList(m, p)
     \/ /\ iface = "down" /\ mcast' = m /\ promisc' = p
        /\ UNCHANGED <<mode, restarted>>
  /\ UNCHANGED <<bank, power, enabled, rxMask, rxReady, port, txBusy, lifeVars,
                 hnd, iface, held, history>>

\* net_close: the receive mode is cleared; the interrupt stays enabled, and
\* what the buffer holds stays there.
Close ==
  /\ Kernel /\ iface = "up"
  /\ mode' = "none" /\ iface' = "down" /\ held' = "none"
  /\ UNCHANGED <<bank, power, enabled, rxMask, rxReady, port, txBusy, lifeVars,
                 hnd, listVars, history>>

\* net_send_packet: a packet that is too long, or finds the transmitter busy
\* for the whole wait, is handed back and will be offered again.
NetSendPacket(packet) ==
  /\ Kernel /\ iface = "up"
  /\ \/ packet = "fits" /\ ~txBusy /\ txBusy' = TRUE /\ held' = "none"
     \/ (packet = "long" \/ txBusy) /\ held' = packet /\ UNCHANGED txBusy
  /\ UNCHANGED <<chipVars, lifeVars, hnd, iface, listVars, history>>

Send == \E packet \in {"fits", "long"} :
          held \in {"none", packet} /\ NetSendPacket(packet)

\* net_timeout: the data link control is restarted, which empties the buffer,
\* and the adapter opened again, but the list is not set.
NetTimeout ==
  /\ Kernel /\ iface = "up"
  /\ port' = <<>> /\ txBusy' = FALSE /\ enabled' = TRUE
  /\ Opened
  /\ restarted' = TRUE /\ refused' = FALSE /\ garbled' = FALSE
  /\ UNCHANGED <<power, rxMask, rxReady, lifeVars, hnd, iface, mcast, promisc,
                 held>>

-----------------------------------------------------------------------------
(* The interrupt handler.                                                  *)

Asserted == irqHeld /\ power /\ rxMask /\ rxReady

\* The interrupt is acknowledged before the buffer is read, and masked.
NetInterrupt ==
  /\ hnd = "idle" /\ Asserted
  /\ rxReady' = FALSE /\ rxMask' = FALSE
  /\ hnd' = "rx"
  /\ UNCHANGED <<mode, bank, power, enabled, port, txBusy, lifeVars, iface,
                 listVars, held, history>>

\* The bytes the port gives from the i-th to the j-th, and those after n.
Taken(i, j) == SubSeq(port, i, IF j < Len(port) THEN j ELSE Len(port))
Rest(n) == SubSeq(port, n + 1, Len(port))
Whole(s) == s # <<>> /\ s = SubSeq(Bytes(Len(s) + 4), 5, Len(s) + 4)

\* What the four header bytes say: a status is good or not; the two bytes of
\* the length are taken for it, whatever they are.
Lengths == IF Head(port).at = 1 THEN {Head(port).of - 4} ELSE 0..(FrameMax + 1)

\* The buffer is empty.
RxDone ==
  /\ hnd = "rx" /\ port = <<>>
  /\ hnd' = "unmask"
  /\ UNCHANGED <<chipVars, txBusy, lifeVars, iface, listVars, held, history>>

\* A bad status, a frame too long, no memory: the loop is left after the header.
RxRefuse ==
  /\ hnd = "rx" /\ port # <<>>
  /\ port' = Rest(4)
  /\ refused' = TRUE
  /\ hnd' = "unmask"
  /\ UNCHANGED <<mode, bank, power, enabled, rxMask, rxReady, txBusy, lifeVars,
                 iface, listVars, held, garbled>>

\* The frame is read and passed on, and the loop goes on.
RxFrame ==
  /\ hnd = "rx" /\ port # <<>>
  /\ \E len \in Lengths :
       /\ len <= FrameMax
       /\ port' = Rest(4 + len)
       /\ garbled' = (garbled \/ ~Whole(Taken(5, 4 + len)))
  /\ UNCHANGED <<mode, bank, power, enabled, rxMask, rxReady, txBusy, lifeVars,
                 hnd, iface, listVars, held, refused>>

\* Fault: the interrupt is acknowledged when the buffer has been read.
RxUnmaskAck ==
  /\ hnd = "unmask"
  /\ rxMask' = TRUE /\ rxReady' = FALSE
  /\ hnd' = "idle"
  /\ UNCHANGED <<mode, bank, power, enabled, port, txBusy, lifeVars, iface,
                 listVars, held, history>>

\* The interrupt is enabled again.
RxUnmask ==
  /\ hnd = "unmask"
  /\ rxMask' = TRUE
  /\ hnd' = "idle"
  /\ UNCHANGED <<mode, bank, power, enabled, rxReady, port, txBusy, lifeVars,
                 iface, listVars, held, history>>

-----------------------------------------------------------------------------
(* The chip.                                                               *)

\* A frame arrives.
Receive ==
  /\ power /\ enabled /\ mode # "none"
  /\ \E len \in FrameLengths :
       /\ Len(port) + 4 + len <= PortMax
       /\ port' = port \o Bytes(4 + len)
  /\ rxReady' = TRUE
  /\ UNCHANGED <<mode, bank, power, enabled, rxMask, txBusy, lifeVars, hnd,
                 iface, listVars, held, history>>

TxDone ==
  /\ txBusy
  /\ txBusy' = FALSE
  /\ UNCHANGED <<chipVars, lifeVars, hnd, iface, listVars, held, history>>

Load == AllocPriv \/ RequestRegion \/ Detect \/ SetUp \/ RequestIrq \/ Ready
Unload == Unregister \/ ExitHIT \/ FreePriv \/ FreeIrq \/ ReleaseRegion
Stack == \/ IfUp \/ Upload \/ Close \/ Send \/ NetTimeout
         \/ \E m, p \in BOOLEAN : ChangeList(m, p)
Handler == NetInterrupt \/ RxDone \/ RxRefuse \/ RxFrame \/ RxUnmask
Chip == Receive \/ TxDone

Next == Load \/ Unload \/ Stack \/ Handler \/ Chip

Spec == Init /\ [][Next]_vars

-----------------------------------------------------------------------------
(* Properties.                                                             *)

AtHeader == port # <<>> => Head(port).at = 1
Announced == port # <<>> => rxReady \/ hnd = "rx"

\* Since the last reset of the chip, and until net_rx refused a frame, the port
\* stands at a header, only whole frames were passed on, and no frame lies in
\* the buffer without an interrupt, to come or being served.
FramesInStep == ~refused => AtHeader /\ Announced /\ ~garbled

\* The handler, and every call of the stack, find an adapter that is set up:
\* private data that was initialised and not freed (cleanup_module_HIT frees it
\* before the interrupt), the buffer's registers in reach, the station address
\* read from the EEPROM.
ReadyToServe ==
  hnd # "idle" \/ iface # "down" =>
    /\ priv = "detected" /\ irqHeld /\ bank = 2
    /\ addr = Rom

\* "We must the kernel realise we had to move into promiscuous mode": while the
\* interface is up the adapter takes every frame only if the kernel's flag says
\* so, and a wish for multicast is not lost, but for a restart by net_timeout.
KernelKnows ==
  iface = "up" => /\ mode = "prom" => promisc
                  /\ mcast /\ ~restarted => mode = "prom"
=============================================================================
