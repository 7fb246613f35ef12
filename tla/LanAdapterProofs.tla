-------------------------- MODULE LanAdapterProofs --------------------------
(***************************************************************************)
(* What the runs of LanAdapter check, for every EEPROM, every length of    *)
(* frame and every size of the receive buffer.                             *)
(***************************************************************************)
EXTENDS LanAdapter, SequenceTheorems, TLAPS

\* The life of the module: who may be called, and what is set up by then.
LifeInv ==
  /\ pc \in {"ready", "in", "exit", "kfree", "freeirq"} => irqHeld = TRUE
  /\ pc \in {"out", "region", "detect", "setup", "irq", "release"}
       => irqHeld = FALSE
  /\ pc \in {"in", "exit", "kfree"} => priv = "detected"
  /\ pc \in {"setup", "irq", "ready"} => rxMask = FALSE
  /\ pc = "setup" => port = <<>> /\ mode = "none"
  /\ pc \in {"kfree", "freeirq"} => power = FALSE
  /\ pc \in {"irq", "ready", "in", "exit"} => bank = 2 /\ addr = Mac
  /\ hnd # "idle" => pc \in {"in", "exit"}
  /\ iface # "down" => pc = "in"

\* The buffer is a row of whole frames: round every byte stand all the bytes of
\* its frame.
Framed(s) ==
  \A i \in 1..Len(s) :
    /\ s[i].at \in 1..s[i].of /\ s[i].of \in Nat /\ s[i].of >= 5
    /\ s[i].at <= i /\ i - s[i].at + s[i].of <= Len(s)
    /\ \A j \in 1..s[i].of : s[i - s[i].at + j] = [at |-> j, of |-> s[i].of]

PortType == port \in Seq([at : Nat, of : Nat])

StreamInv ==
  refused = FALSE => Framed(port) /\ Announced /\ garbled = FALSE

IInv == TypeOK /\ PortType /\ LifeInv /\ KernelKnows /\ StreamInv

-----------------------------------------------------------------------------
(* The EEPROM.                                                             *)

\* The bits of a byte give the byte.
LEMMA BitsOfByte ==
  ASSUME NEW v \in 0..255, NEW b, NEW o \in {0, 8},
         \A i \in 1..8 : b[o + i] = Bits(v)[i]
  PROVE  Byte(b, o) = v
<1> DEFINE w == Bits(v)
<1>1. /\ w[1] = (v \div 128) % 2 /\ w[2] = (v \div 64) % 2
      /\ w[3] = (v \div 32) % 2 /\ w[4] = (v \div 16) % 2
      /\ w[5] = (v \div 8) % 2 /\ w[6] = (v \div 4) % 2
      /\ w[7] = (v \div 2) % 2 /\ w[8] = v % 2
  BY DEF Bits, Weight
<1>2. v = 128 * ((v \div 128) % 2) + 64 * ((v \div 64) % 2)
          + 32 * ((v \div 32) % 2) + 16 * ((v \div 16) % 2)
          + 8 * ((v \div 8) % 2) + 4 * ((v \div 4) % 2)
          + 2 * ((v \div 2) % 2) + (v % 2)
  <2>1. v = 2 * (v \div 2) + (v % 2)
    OBVIOUS
  <2>2. v \div 2 = 2 * (v \div 4) + ((v \div 2) % 2)
    OBVIOUS
  <2>3. v \div 4 = 2 * (v \div 8) + ((v \div 4) % 2)
    OBVIOUS
  <2>4. v \div 8 = 2 * (v \div 16) + ((v \div 8) % 2)
    OBVIOUS
  <2>5. v \div 16 = 2 * (v \div 32) + ((v \div 16) % 2)
    OBVIOUS
  <2>6. v \div 32 = 2 * (v \div 64) + ((v \div 32) % 2)
    OBVIOUS
  <2>7. v \div 64 = 2 * (v \div 128) + ((v \div 64) % 2)
    OBVIOUS
  <2>8. v \div 128 = (v \div 128) % 2
    OBVIOUS
  <2> QED BY <2>1, <2>2, <2>3, <2>4, <2>5, <2>6, <2>7, <2>8
<1>3. /\ b[o + 1] = w[1] /\ b[o + 2] = w[2] /\ b[o + 3] = w[3]
      /\ b[o + 4] = w[4] /\ b[o + 5] = w[5] /\ b[o + 6] = w[6]
      /\ b[o + 7] = w[7] /\ b[o + 8] = w[8]
  OBVIOUS
<1> QED BY <1>1, <1>2, <1>3 DEF Byte

\* The command strobed out for word n is that for reading word n.
LEMMA CommandReads ==
  ASSUME NEW n \in 0..2
  PROVE  LET c == Command(n)
         IN  /\ c[1] = 1 /\ c[2] = 1 /\ c[3] = 0
             /\ 32 * c[4] + 16 * c[5] + 8 * c[6] + 4 * c[7] + 2 * c[8] + c[9] = n
<1> DEFINE w == Bits(128 + n)
<1> DEFINE c == Command(n)
<1>1. /\ c[1] = 1 /\ c[2] = w[1] /\ c[3] = w[2] /\ c[4] = w[3] /\ c[5] = w[4]
      /\ c[6] = w[5] /\ c[7] = w[6] /\ c[8] = w[7] /\ c[9] = w[8]
  BY DEF Command
<1>2. /\ w[1] = ((128 + n) \div 128) % 2 /\ w[2] = ((128 + n) \div 64) % 2
      /\ w[3] = ((128 + n) \div 32) % 2 /\ w[4] = ((128 + n) \div 16) % 2
      /\ w[5] = ((128 + n) \div 8) % 2 /\ w[6] = ((128 + n) \div 4) % 2
      /\ w[7] = ((128 + n) \div 2) % 2 /\ w[8] = (128 + n) % 2
  BY DEF Bits, Weight
<1> HIDE DEF w, c
<1>3. n = 0 \/ n = 1 \/ n = 2
  OBVIOUS
<1> QED BY <1>1, <1>2, <1>3 DEF c

\* The address the driver reads is the one in the EEPROM.
LEMMA MacIsRom == Mac = Rom
<1>1. ASSUME NEW n \in 0..2 PROVE EepromWord(n) = Rom[n]
  <2> DEFINE in == Shifted(Command(n))
  <2>1. in = [i \in 1..16 |-> IF i <= 8 THEN Bits(Rom[n][1])[i]
                              ELSE Bits(Rom[n][2])[i - 8]]
    BY CommandReads DEF Shifted
  <2>2. Rom[n] \in (0..255) \X (0..255)
    BY LanAssumption
  <2>3. Rom[n] = <<Rom[n][1], Rom[n][2]>> /\ Rom[n][1] \in 0..255
        /\ Rom[n][2] \in 0..255
    BY <2>2
  <2>4. \A i \in 1..8 : in[0 + i] = Bits(Rom[n][1])[i]
    BY <2>1
  <2>5. \A i \in 1..8 : in[8 + i] = Bits(Rom[n][2])[i]
    BY <2>1
  <2> HIDE DEF in
  <2>6. Byte(in, 0) = Rom[n][1]
    BY <2>3, <2>4, BitsOfByte
  <2>7. Byte(in, 8) = Rom[n][2]
    BY <2>3, <2>5, BitsOfByte
  <2> QED BY <2>3, <2>6, <2>7 DEF EepromWord, in
<1>2. Rom = [n \in 0..2 |-> Rom[n]]
  BY LanAssumption
<1> QED BY <1>1, <1>2 DEF Mac
-----------------------------------------------------------------------------
(* The rows of frames.                                                     *)

\* A row of frames begins with a frame: its first n bytes, n at least 5, are
\* the bytes of a frame of n, and what follows them is a row of frames.
LEMMA FirstFrame ==
  ASSUME NEW s \in Seq([at : Nat, of : Nat]), Framed(s), s # <<>>
  PROVE  LET n == s[1].of
         IN  /\ s[1].at = 1 /\ n \in Nat /\ n >= 5 /\ n <= Len(s)
             /\ \A j \in 1..n : s[j] = [at |-> j, of |-> n]
             /\ Framed(SubSeq(s, n + 1, Len(s)))
<1> DEFINE n == s[1].of
           t == SubSeq(s, n + 1, Len(s))
<1>1. Len(s) \in Nat /\ 1 \in 1..Len(s)
  OBVIOUS
<1>2. /\ s[1].at \in 1..n /\ n \in Nat /\ n >= 5 /\ s[1].at <= 1
      /\ 1 - s[1].at + n <= Len(s)
      /\ \A j \in 1..n : s[1 - s[1].at + j] = [at |-> j, of |-> n]
  BY <1>1 DEF Framed
<1>3. s[1].at = 1
  BY <1>2
<1>4. n <= Len(s) /\ \A j \in 1..n : s[j] = [at |-> j, of |-> n]
  <2>1. \A j \in 1..n : 1 - 1 + j = j
    BY <1>2
  <2> QED BY <1>2, <1>3, <1>1, <2>1
<1> HIDE DEF n
<1>5. /\ Len(t) = Len(s) - n
      /\ \A i \in 1..(Len(s) - n) : t[i] = s[n + i]
  <2>1. n + 1 \in 1..Len(s)+1 /\ Len(s) \in n..Len(s)
    BY <1>1, <1>2, <1>4
  <2>2. /\ Len(t) = Len(s) - (n + 1) + 1
        /\ \A i \in 1..(Len(s) - (n + 1) + 1) : t[i] = s[(n + 1) + i - 1]
    BY <2>1, <1>1, <1>2, SubSeqProperties
  <2>3. Len(s) - (n + 1) + 1 = Len(s) - n
    BY <1>1, <1>2
  <2>4. ASSUME NEW i \in 1..(Len(s) - n) PROVE t[i] = s[n + i]
    <3>1. i \in 1..(Len(s) - (n + 1) + 1)
      BY <2>3
    <3>2. t[i] = s[(n + 1) + i - 1]
      BY <3>1, <2>2
    <3>3. (n + 1) + i - 1 = n + i
      BY <1>1, <1>2
    <3> QED BY <3>2, <3>3
  <2> QED BY <2>2, <2>3, <2>4
<1> HIDE DEF t
<1>6. ASSUME NEW i \in 1..Len(t)
      PROVE  /\ t[i].at \in 1..t[i].of /\ t[i].of \in Nat /\ t[i].of >= 5
             /\ t[i].at <= i /\ i - t[i].at + t[i].of <= Len(t)
             /\ \A j \in 1..t[i].of :
                  t[i - t[i].at + j] = [at |-> j, of |-> t[i].of]
  <2> DEFINE a == t[i].at
             m == t[i].of
             k == n + i
  <2>n. n \in Nat /\ Len(s) \in Nat
    BY <1>1, <1>2
  <2>0. i \in 1..(Len(s) - n)
    BY <1>5
  <2>1. k \in 1..Len(s) /\ t[i] = s[k]
    <3>1. t[i] = s[n + i]
      BY <2>0, <1>5
    <3>2. n + i \in 1..Len(s)
      BY <2>0, <2>n, SMTT(30)
    <3> QED BY <3>1, <3>2
  <2>2. /\ a \in 1..m /\ m \in Nat /\ m >= 5 /\ a <= k /\ k - a + m <= Len(s)
        /\ \A j \in 1..m : s[k - a + j] = [at |-> j, of |-> m]
    BY <2>1 DEF Framed
  <2> HIDE DEF a, m
  \* A frame that began in the first n bytes would be the first frame.
  <2>3. a <= i
    <3> SUFFICES ASSUME a > i PROVE FALSE
      BY <2>2
    <3> DEFINE p == k - a + 1
    <3>1. p \in 1..n
      BY <2>2, <1>2
    <3>2. s[p] = [at |-> 1, of |-> m]
      BY <2>2
    <3>3. s[p] = [at |-> p, of |-> n]
      BY <3>1, <1>4
    <3>4. p = 1 /\ m = n
      <4>1. [at |-> 1, of |-> m].at = 1 /\ [at |-> p, of |-> n].at = p
        OBVIOUS
      <4>2. [at |-> 1, of |-> m].of = m /\ [at |-> p, of |-> n].of = n
        OBVIOUS
      <4> QED BY <3>2, <3>3, <4>1, <4>2
    <3> QED BY <3>4, <2>2, <1>2
  <2>4. i - a + m <= Len(t)
    BY <2>2, <1>5, <1>1, <1>2
  <2>5. ASSUME NEW j \in 1..m PROVE t[i - a + j] = [at |-> j, of |-> m]
    <3>1. i - a + j \in 1..(Len(s) - n)
      BY <2>2, <2>3, <2>n, SMTT(30)
    <3>2. t[i - a + j] = s[n + (i - a + j)]
      BY <1>5, <3>1
    <3>3. n + (i - a + j) = k - a + j
      BY <2>2, <1>2
    <3> QED BY <3>2, <3>3, <2>2
  <2> QED BY <2>2, <2>3, <2>4, <2>5 DEF a, m
<1>7. Framed(t)
  BY <1>6 DEF Framed
<1> QED BY <1>2, <1>3, <1>4, <1>7 DEF t, n

LEMMA BytesType ==
  ASSUME NEW n \in Nat
  PROVE  Bytes(n) \in Seq([at : Nat, of : Nat])
BY DEF Bytes

\* A frame that arrives makes a row of frames longer.
LEMMA LastFrame ==
  ASSUME NEW s \in Seq([at : Nat, of : Nat]), Framed(s), NEW n \in Nat, n >= 5
  PROVE  Framed(s \o Bytes(n)) /\ s \o Bytes(n) \in Seq([at : Nat, of : Nat])
<1> DEFINE b == Bytes(n)
           t == s \o b
<1>0. Len(s) \in Nat
  OBVIOUS
<1>1. /\ b \in Seq([at : Nat, of : Nat]) /\ Len(b) = n
      /\ \A j \in 1..n : b[j] = [at |-> j, of |-> n]
  BY DEF Bytes
<1> HIDE DEF b
<1>2. /\ t \in Seq([at : Nat, of : Nat]) /\ Len(t) = Len(s) + n
      /\ \A i \in 1..Len(s) : t[i] = s[i]
      /\ \A j \in 1..n : t[Len(s) + j] = b[j]
  <2>1. t \in Seq([at : Nat, of : Nat]) /\ Len(t) = Len(s) + n
    BY <1>1, ConcatProperties
  <2>2. ASSUME NEW i \in 1..Len(s) PROVE t[i] = s[i]
    BY <1>1, <1>0
  <2>3. ASSUME NEW j \in 1..n PROVE t[Len(s) + j] = b[j]
    BY <1>1, <1>0
  <2> QED BY <2>1, <2>2, <2>3
<1> HIDE DEF t
<1>3. Len(s) \in Nat
  OBVIOUS
<1>4. ASSUME NEW i \in 1..Len(t)
      PROVE  /\ t[i].at \in 1..t[i].of /\ t[i].of \in Nat /\ t[i].of >= 5
             /\ t[i].at <= i /\ i - t[i].at + t[i].of <= Len(t)
             /\ \A j \in 1..t[i].of :
                  t[i - t[i].at + j] = [at |-> j, of |-> t[i].of]
  <2>0. i \in Nat /\ i >= 1 /\ i <= Len(s) + n
    BY <1>2, <1>3
  <2>1. CASE i <= Len(s)
    <3> DEFINE a == s[i].at
               m == s[i].of
    <3>1. i \in 1..Len(s) /\ t[i] = s[i]
      <4>1. i \in 1..Len(s)
        BY <1>3, <2>0, <2>1
      <4> QED BY <4>1, <1>2
    <3>2. /\ a \in 1..m /\ m \in Nat /\ m >= 5 /\ a <= i
          /\ i - a + m <= Len(s)
          /\ \A j \in 1..m : s[i - a + j] = [at |-> j, of |-> m]
      BY <3>1 DEF Framed
    <3> HIDE DEF a, m
    <3>3. ASSUME NEW j \in 1..m PROVE t[i - a + j] = [at |-> j, of |-> m]
      <4>1. i - a + j \in 1..Len(s)
        BY <3>2, <1>3
      <4> QED BY <4>1, <1>2, <3>2
    <3>4. i - a + m <= Len(t)
      BY <3>2, <1>2, <1>3
    <3> QED BY <3>1, <3>2, <3>3, <3>4 DEF a, m
  <2>2. CASE i > Len(s)
    <3> DEFINE k == i - Len(s)
    <3>1. k \in 1..n /\ Len(s) + k = i
      BY <2>0, <1>3, <2>2
    <3>2. t[i] = [at |-> k, of |-> n]
      BY <3>1, <1>2, <1>1
    <3>3. t[i].at = k /\ t[i].of = n
      BY <3>2
    <3>4. ASSUME NEW j \in 1..n PROVE t[i - k + j] = [at |-> j, of |-> n]
      <4>1. i - k + j = Len(s) + j
        BY <1>3, <3>1
      <4> QED BY <4>1, <1>1, <1>2
    <3>5. k <= i /\ i - k + n <= Len(t)
      BY <1>2, <1>3, <3>1
    <3> QED BY <3>1, <3>3, <3>4, <3>5
  <2> QED BY <2>0, <2>1, <2>2, <1>3
<1>5. Framed(t)
  BY <1>4 DEF Framed
<1> QED BY <1>2, <1>5 DEF t, b
-----------------------------------------------------------------------------
(* The invariant.                                                          *)

LEMMA InitInv == Init => IInv
<1> SUFFICES ASSUME Init PROVE IInv
  OBVIOUS
<1>1. FlagsOK
  BY DEF Init, FlagsOK
<1>2. ValuesOK
  BY DEF Init, ValuesOK
<1>3. LifeInv
  BY DEF Init, LifeInv
<1>4. KernelKnows
  BY DEF Init, KernelKnows
<1>5. PortType
  BY DEF Init, PortType
<1>6. StreamInv
  BY DEF Init, StreamInv, Framed, Announced
<1> QED BY <1>1, <1>2, <1>3, <1>4, <1>5, <1>6 DEF IInv, TypeOK

\* The flags stay flags.
LEMMA FlagsStep ==
  ASSUME FlagsOK, ValuesOK, [Next]_vars
  PROVE  FlagsOK'
<1>1. CASE AllocPriv
  BY <1>1 DEF AllocPriv, Kernel, FlagsOK, chipVars, lifeVars, listVars, history
<1>2. CASE RequestRegion
  BY <1>2, ZenonT(30) DEF RequestRegion, LoadFails, FlagsOK, chipVars, lifeVars, listVars, history
<1>3. CASE Detect
  BY <1>3 DEF Detect, Reset, LoadFails, Kernel, FlagsOK, chipVars, lifeVars, listVars, history
<1>4. CASE SetUp
  BY <1>4 DEF SetUp, Kernel, FlagsOK, chipVars, lifeVars, listVars, history
<1>5. CASE RequestIrq
  BY <1>5, ZenonT(30) DEF RequestIrq, LoadFails, FlagsOK, chipVars, lifeVars, listVars, history
<1>6. CASE Ready
  BY <1>6 DEF Ready, Kernel, FlagsOK, chipVars, lifeVars, listVars, history
<1>7. CASE Unregister
  BY <1>7 DEF Unregister, Kernel, FlagsOK, chipVars, lifeVars, listVars, history
<1>8. CASE ExitHIT
  BY <1>8 DEF ExitHIT, Kernel, FlagsOK, chipVars, lifeVars, listVars, history
<1>9. CASE FreePriv
  BY <1>9 DEF FreePriv, Kernel, FlagsOK, chipVars, lifeVars, listVars, history
<1>10. CASE FreeIrq
  BY <1>10 DEF FreeIrq, Kernel, FlagsOK, chipVars, lifeVars, listVars, history
<1>11. CASE ReleaseRegion
  BY <1>11 DEF ReleaseRegion, Kernel, FlagsOK, chipVars, lifeVars, listVars, history
<1>12. CASE IfUp
  BY <1>12 DEF IfUp, Opened, Kernel, FlagsOK, chipVars, lifeVars, listVars, history
<1>13. CASE Upload
  BY <1>13 DEF Upload, SetMulticastList, Kernel, FlagsOK, chipVars, lifeVars, listVars, history
<1>14. CASE Close
  BY <1>14 DEF Close, Kernel, FlagsOK, chipVars, lifeVars, listVars, history
<1>15. CASE Send
  <2> PICK packet \in {"fits", "long"} : NetSendPacket(packet)
    BY <1>15 DEF Send
  <2>1. txBusy' \in BOOLEAN
    BY DEF NetSendPacket, FlagsOK
  <2> QED BY <2>1 DEF NetSendPacket, FlagsOK, chipVars, lifeVars, listVars, history
<1>16. CASE NetTimeout
  BY <1>16 DEF NetTimeout, Opened, Kernel, FlagsOK, chipVars, lifeVars, listVars, history
<1>17. CASE (\E m, p \in BOOLEAN : ChangeList(m, p))
  <2> PICK m \in BOOLEAN, p \in BOOLEAN : ChangeList(m, p)
    BY <1>17
  <2>1. mcast' \in BOOLEAN /\ promisc' \in BOOLEAN /\ restarted' \in BOOLEAN
    BY Zenon DEF ChangeList, SetMulticastList, FlagsOK
  <2> QED BY <2>1 DEF ChangeList, FlagsOK, chipVars, lifeVars, history
<1>18. CASE NetInterrupt
  BY <1>18 DEF NetInterrupt, Asserted, FlagsOK, chipVars, lifeVars, listVars, history
<1>19. CASE RxDone
  BY <1>19 DEF RxDone, FlagsOK, chipVars, lifeVars, listVars, history
<1>20. CASE RxRefuse
  BY <1>20 DEF RxRefuse, Rest, FlagsOK, chipVars, lifeVars, listVars, history
<1>21. CASE RxFrame
  BY <1>21 DEF RxFrame, Rest, FlagsOK, chipVars, lifeVars, listVars, history
<1>22. CASE RxUnmask
  BY <1>22 DEF RxUnmask, FlagsOK, chipVars, lifeVars, listVars, history
<1>23. CASE Receive
  BY <1>23 DEF Receive, FlagsOK, chipVars, lifeVars, listVars, history
<1>24. CASE TxDone
  BY <1>24 DEF TxDone, FlagsOK, chipVars, lifeVars, listVars, history
<1>25. CASE UNCHANGED vars
  BY <1>25 DEF vars, FlagsOK, chipVars, lifeVars, listVars, history
<1> QED
  BY <1>1, <1>2, <1>3, <1>4, <1>5, <1>6, <1>7, <1>8, <1>9, <1>10, <1>11, <1>12, <1>13, <1>14, <1>15, <1>16, <1>17, <1>18, <1>19, <1>20, <1>21, <1>22, <1>23, <1>24, <1>25
  DEF Next, Load, Unload, Stack, Handler, Chip

\* The other variables keep to their values.
LEMMA ValuesStep ==
  ASSUME ValuesOK, [Next]_vars
  PROVE  ValuesOK'
<1>1. CASE AllocPriv
  BY <1>1 DEF AllocPriv, Kernel, ValuesOK, chipVars, lifeVars, listVars, history
<1>2. CASE RequestRegion
  BY <1>2 DEF RequestRegion, LoadFails, Kernel, ValuesOK, chipVars, lifeVars, listVars, history
<1>3. CASE Detect
  BY <1>3 DEF Detect, Reset, LoadFails, Kernel, ValuesOK, chipVars, lifeVars, listVars, history
<1>4. CASE SetUp
  BY <1>4 DEF SetUp, Kernel, ValuesOK, chipVars, lifeVars, listVars, history
<1>5. CASE RequestIrq
  BY <1>5 DEF RequestIrq, LoadFails, Kernel, ValuesOK, chipVars, lifeVars, listVars, history
<1>6. CASE Ready
  BY <1>6 DEF Ready, Kernel, ValuesOK, chipVars, lifeVars, listVars, history
<1>7. CASE Unregister
  BY <1>7 DEF Unregister, Kernel, ValuesOK, chipVars, lifeVars, listVars, history
<1>8. CASE ExitHIT
  BY <1>8 DEF ExitHIT, Kernel, ValuesOK, chipVars, lifeVars, listVars, history
<1>9. CASE FreePriv
  BY <1>9 DEF FreePriv, Kernel, ValuesOK, chipVars, lifeVars, listVars, history
<1>10. CASE FreeIrq
  BY <1>10 DEF FreeIrq, Kernel, ValuesOK, chipVars, lifeVars, listVars, history
<1>11. CASE ReleaseRegion
  BY <1>11 DEF ReleaseRegion, Kernel, ValuesOK, chipVars, lifeVars, listVars, history
<1>12. CASE IfUp
  BY <1>12 DEF IfUp, Opened, Kernel, ValuesOK, chipVars, lifeVars, listVars, history
<1>13. CASE Upload
  BY <1>13 DEF Upload, SetMulticastList, Kernel, ValuesOK, chipVars, lifeVars, listVars, history
<1>14. CASE Close
  BY <1>14 DEF Close, Kernel, ValuesOK, chipVars, lifeVars, listVars, history
<1>15. CASE Send
  BY <1>15 DEF Send, NetSendPacket, Kernel, ValuesOK, chipVars, lifeVars, listVars, history
<1>16. CASE NetTimeout
  BY <1>16 DEF NetTimeout, Opened, Kernel, ValuesOK, chipVars, lifeVars, listVars, history
<1>17. CASE (\E m, p \in BOOLEAN : ChangeList(m, p))
  BY <1>17 DEF ChangeList, SetMulticastList, Kernel, ValuesOK, chipVars, lifeVars, listVars, history
<1>18. CASE NetInterrupt
  BY <1>18 DEF NetInterrupt, Asserted, ValuesOK, chipVars, lifeVars, listVars, history
<1>19. CASE RxDone
  BY <1>19 DEF RxDone, ValuesOK, chipVars, lifeVars, listVars, history
<1>20. CASE RxRefuse
  BY <1>20 DEF RxRefuse, Rest, ValuesOK, chipVars, lifeVars, listVars, history
<1>21. CASE RxFrame
  BY <1>21 DEF RxFrame, Rest, ValuesOK, chipVars, lifeVars, listVars, history
<1>22. CASE RxUnmask
  BY <1>22 DEF RxUnmask, ValuesOK, chipVars, lifeVars, listVars, history
<1>23. CASE Receive
  BY <1>23 DEF Receive, ValuesOK, chipVars, lifeVars, listVars, history
<1>24. CASE TxDone
  BY <1>24 DEF TxDone, ValuesOK, chipVars, lifeVars, listVars, history
<1>25. CASE UNCHANGED vars
  BY <1>25 DEF vars, ValuesOK, chipVars, lifeVars, listVars, history
<1> QED
  BY <1>1, <1>2, <1>3, <1>4, <1>5, <1>6, <1>7, <1>8, <1>9, <1>10, <1>11, <1>12, <1>13, <1>14, <1>15, <1>16, <1>17, <1>18, <1>19, <1>20, <1>21, <1>22, <1>23, <1>24, <1>25
  DEF Next, Load, Unload, Stack, Handler, Chip

\* What is set up stays set up while it may be used: the chip is put to sleep
\* before the private data goes, and everything but the handler waits for it.
LEMMA LifeStep ==
  ASSUME FlagsOK, ValuesOK, LifeInv, [Next]_vars
  PROVE  LifeInv'
<1>1. CASE AllocPriv
  BY <1>1 DEF AllocPriv, Kernel, LifeInv, FlagsOK, ValuesOK, chipVars, lifeVars, listVars, history
<1>2. CASE RequestRegion
  BY <1>2 DEF RequestRegion, LoadFails, Kernel, LifeInv, FlagsOK, ValuesOK, chipVars, lifeVars, listVars, history
<1>3. CASE Detect
  BY <1>3 DEF Detect, Reset, LoadFails, Kernel, LifeInv, FlagsOK, ValuesOK, chipVars, lifeVars, listVars, history
<1>4. CASE SetUp
  BY <1>4 DEF SetUp, Kernel, LifeInv, FlagsOK, ValuesOK, chipVars, lifeVars, listVars, history
<1>5. CASE RequestIrq
  BY <1>5 DEF RequestIrq, LoadFails, Kernel, LifeInv, FlagsOK, ValuesOK, chipVars, lifeVars, listVars, history
<1>6. CASE Ready
  BY <1>6 DEF Ready, Kernel, LifeInv, FlagsOK, ValuesOK, chipVars, lifeVars, listVars, history
<1>7. CASE Unregister
  BY <1>7 DEF Unregister, Kernel, LifeInv, FlagsOK, ValuesOK, chipVars, lifeVars, listVars, history
<1>8. CASE ExitHIT
  BY <1>8 DEF ExitHIT, Kernel, LifeInv, FlagsOK, ValuesOK, chipVars, lifeVars, listVars, history
<1>9. CASE FreePriv
  BY <1>9 DEF FreePriv, Kernel, LifeInv, FlagsOK, ValuesOK, chipVars, lifeVars, listVars, history
<1>10. CASE FreeIrq
  BY <1>10 DEF FreeIrq, Kernel, LifeInv, FlagsOK, ValuesOK, chipVars, lifeVars, listVars, history
<1>11. CASE ReleaseRegion
  BY <1>11 DEF ReleaseRegion, Kernel, LifeInv, FlagsOK, ValuesOK, chipVars, lifeVars, listVars, history
<1>12. CASE IfUp
  BY <1>12 DEF IfUp, Opened, Kernel, LifeInv, FlagsOK, ValuesOK, chipVars, lifeVars, listVars, history
<1>13. CASE Upload
  BY <1>13 DEF Upload, SetMulticastList, Kernel, LifeInv, FlagsOK, ValuesOK, chipVars, lifeVars, listVars, history
<1>14. CASE Close
  BY <1>14 DEF Close, Kernel, LifeInv, FlagsOK, ValuesOK, chipVars, lifeVars, listVars, history
<1>15. CASE Send
  BY <1>15 DEF Send, NetSendPacket, Kernel, LifeInv, FlagsOK, ValuesOK, chipVars, lifeVars, listVars, history
<1>16. CASE NetTimeout
  BY <1>16 DEF NetTimeout, Opened, Kernel, LifeInv, FlagsOK, ValuesOK, chipVars, lifeVars, listVars, history
<1>17. CASE (\E m, p \in BOOLEAN : ChangeList(m, p))
  BY <1>17 DEF ChangeList, SetMulticastList, Kernel, LifeInv, FlagsOK, ValuesOK, chipVars, lifeVars, listVars, history
<1>18. CASE NetInterrupt
  BY <1>18 DEF NetInterrupt, Asserted, LifeInv, FlagsOK, ValuesOK, chipVars, lifeVars, listVars, history
<1>19. CASE RxDone
  BY <1>19 DEF RxDone, LifeInv, FlagsOK, ValuesOK, chipVars, lifeVars, listVars, history
<1>20. CASE RxRefuse
  BY <1>20 DEF RxRefuse, Rest, LifeInv, FlagsOK, ValuesOK, chipVars, lifeVars, listVars, history
<1>21. CASE RxFrame
  BY <1>21 DEF RxFrame, Rest, LifeInv, FlagsOK, ValuesOK, chipVars, lifeVars, listVars, history
<1>22. CASE RxUnmask
  BY <1>22 DEF RxUnmask, LifeInv, FlagsOK, ValuesOK, chipVars, lifeVars, listVars, history
<1>23. CASE Receive
  BY <1>23 DEF Receive, LifeInv, FlagsOK, ValuesOK, chipVars, lifeVars, listVars, history
<1>24. CASE TxDone
  BY <1>24 DEF TxDone, LifeInv, FlagsOK, ValuesOK, chipVars, lifeVars, listVars, history
<1>25. CASE UNCHANGED vars
  BY <1>25 DEF vars, LifeInv, FlagsOK, ValuesOK, chipVars, lifeVars, listVars, history
<1> QED
  BY <1>1, <1>2, <1>3, <1>4, <1>5, <1>6, <1>7, <1>8, <1>9, <1>10, <1>11, <1>12, <1>13, <1>14, <1>15, <1>16, <1>17, <1>18, <1>19, <1>20, <1>21, <1>22, <1>23, <1>24, <1>25
  DEF Next, Load, Unload, Stack, Handler, Chip

\* The receive mode follows the kernel's flag.
LEMMA KnowsStep ==
  ASSUME FlagsOK, ValuesOK, LifeInv, KernelKnows, [Next]_vars
  PROVE  KernelKnows'
<1>1. CASE AllocPriv
  BY <1>1 DEF AllocPriv, Kernel, KernelKnows, FlagsOK, ValuesOK, chipVars, lifeVars, listVars, history
<1>2. CASE RequestRegion
  BY <1>2 DEF RequestRegion, LoadFails, Kernel, KernelKnows, FlagsOK, ValuesOK, chipVars, lifeVars, listVars, history
<1>3. CASE Detect
  BY <1>3 DEF Detect, Reset, LoadFails, Kernel, KernelKnows, LifeInv, FlagsOK, ValuesOK, chipVars, lifeVars, listVars, history
<1>4. CASE SetUp
  BY <1>4 DEF SetUp, Kernel, KernelKnows, LifeInv, FlagsOK, ValuesOK, chipVars, lifeVars, listVars, history
<1>5. CASE RequestIrq
  BY <1>5 DEF RequestIrq, LoadFails, Kernel, KernelKnows, FlagsOK, ValuesOK, chipVars, lifeVars, listVars, history
<1>6. CASE Ready
  BY <1>6 DEF Ready, Kernel, KernelKnows, FlagsOK, ValuesOK, chipVars, lifeVars, listVars, history
<1>7. CASE Unregister
  BY <1>7 DEF Unregister, Kernel, KernelKnows, FlagsOK, ValuesOK, chipVars, lifeVars, listVars, history
<1>8. CASE ExitHIT
  BY <1>8 DEF ExitHIT, Kernel, KernelKnows, FlagsOK, ValuesOK, chipVars, lifeVars, listVars, history
<1>9. CASE FreePriv
  BY <1>9 DEF FreePriv, Kernel, KernelKnows, FlagsOK, ValuesOK, chipVars, lifeVars, listVars, history
<1>10. CASE FreeIrq
  BY <1>10 DEF FreeIrq, Kernel, KernelKnows, FlagsOK, ValuesOK, chipVars, lifeVars, listVars, history
<1>11. CASE ReleaseRegion
  BY <1>11 DEF ReleaseRegion, Kernel, KernelKnows, FlagsOK, ValuesOK, chipVars, lifeVars, listVars, history
<1>12. CASE IfUp
  BY <1>12 DEF IfUp, Opened, Kernel, KernelKnows, FlagsOK, ValuesOK, chipVars, lifeVars, listVars, history
<1>13. CASE Upload
  BY <1>13 DEF Upload, SetMulticastList, Kernel, KernelKnows, FlagsOK, ValuesOK, chipVars, lifeVars, listVars, history
<1>14. CASE Close
  BY <1>14 DEF Close, Kernel, KernelKnows, FlagsOK, ValuesOK, chipVars, lifeVars, listVars, history
<1>15. CASE Send
  BY <1>15 DEF Send, NetSendPacket, Kernel, KernelKnows, FlagsOK, ValuesOK, chipVars, lifeVars, listVars, history
<1>16. CASE NetTimeout
  BY <1>16 DEF NetTimeout, Opened, Kernel, KernelKnows, FlagsOK, ValuesOK, chipVars, lifeVars, listVars, history
<1>17. CASE (\E m, p \in BOOLEAN : ChangeList(m, p))
  BY <1>17 DEF ChangeList, SetMulticastList, Kernel, KernelKnows, FlagsOK, ValuesOK, chipVars, lifeVars, listVars, history
<1>18. CASE NetInterrupt
  BY <1>18 DEF NetInterrupt, Asserted, KernelKnows, FlagsOK, ValuesOK, chipVars, lifeVars, listVars, history
<1>19. CASE RxDone
  BY <1>19 DEF RxDone, KernelKnows, FlagsOK, ValuesOK, chipVars, lifeVars, listVars, history
<1>20. CASE RxRefuse
  BY <1>20 DEF RxRefuse, Rest, KernelKnows, FlagsOK, ValuesOK, chipVars, lifeVars, listVars, history
<1>21. CASE RxFrame
  BY <1>21 DEF RxFrame, Rest, KernelKnows, FlagsOK, ValuesOK, chipVars, lifeVars, listVars, history
<1>22. CASE RxUnmask
  BY <1>22 DEF RxUnmask, KernelKnows, FlagsOK, ValuesOK, chipVars, lifeVars, listVars, history
<1>23. CASE Receive
  BY <1>23 DEF Receive, KernelKnows, FlagsOK, ValuesOK, chipVars, lifeVars, listVars, history
<1>24. CASE TxDone
  BY <1>24 DEF TxDone, KernelKnows, FlagsOK, ValuesOK, chipVars, lifeVars, listVars, history
<1>25. CASE UNCHANGED vars
  BY <1>25 DEF vars, KernelKnows, FlagsOK, ValuesOK, chipVars, lifeVars, listVars, history
<1> QED
  BY <1>1, <1>2, <1>3, <1>4, <1>5, <1>6, <1>7, <1>8, <1>9, <1>10, <1>11, <1>12, <1>13, <1>14, <1>15, <1>16, <1>17, <1>18, <1>19, <1>20, <1>21, <1>22, <1>23, <1>24, <1>25
  DEF Next, Load, Unload, Stack, Handler, Chip

\* What is left in the buffer is a stream of bytes.
LEMMA RestType ==
  ASSUME PortType, NEW n \in Nat
  PROVE  Rest(n) \in Seq([at : Nat, of : Nat])
<1>1. \A i \in (n + 1)..Len(port) : port[i] \in [at : Nat, of : Nat]
  <2>1. ASSUME NEW i \in (n + 1)..Len(port) PROVE port[i] \in [at : Nat, of : Nat]
    <3>1. i \in 1..Len(port)
      BY DEF PortType
    <3> QED BY <3>1, ElementOfSeq DEF PortType
  <2> QED BY <2>1
<1>2. n + 1 \in Int /\ Len(port) \in Int
  BY DEF PortType
<1> QED BY <1>1, <1>2, SubSeqProperties DEF Rest

\* No byte is a row of no frames.
LEMMA EmptyRow == Framed(<<>>) /\ <<>> \in Seq([at : Nat, of : Nat])
BY DEF Framed

\* What is taken after the header of the first frame is that frame.
LEMMA WholeFrame ==
  ASSUME NEW s \in Seq([at : Nat, of : Nat]), NEW n \in Nat, n >= 5, n <= Len(s),
         \A j \in 1..n : s[j] = [at |-> j, of |-> n]
  PROVE  Whole(SubSeq(s, 5, IF n < Len(s) THEN n ELSE Len(s)))
<1> DEFINE t == SubSeq(s, 5, n)
           u == SubSeq(Bytes(n), 5, n)
<1>1. (IF n < Len(s) THEN n ELSE Len(s)) = n
  OBVIOUS
<1>2. \A j \in 5..n : s[j] \in [at : Nat, of : Nat] /\ Bytes(n)[j] = s[j]
  BY DEF Bytes
<1>3. /\ t \in Seq([at : Nat, of : Nat]) /\ Len(t) = n - 4
      /\ \A i \in 1..(n - 4) : t[i] = s[i + 4]
  <2>1. /\ t \in Seq([at : Nat, of : Nat])
        /\ Len(t) = n - 5 + 1 /\ \A i \in 1..(n - 5 + 1) : t[i] = s[5 + i - 1]
    BY <1>2, SubSeqProperties
  <2>2. n - 5 + 1 = n - 4 /\ \A i \in 1..(n - 4) : 5 + i - 1 = i + 4
    OBVIOUS
  <2> QED BY <2>1, <2>2
<1>4. /\ u \in Seq([at : Nat, of : Nat]) /\ Len(u) = n - 4
      /\ \A i \in 1..(n - 4) : u[i] = Bytes(n)[i + 4]
  <2>1. /\ u \in Seq([at : Nat, of : Nat])
        /\ Len(u) = n - 5 + 1 /\ \A i \in 1..(n - 5 + 1) : u[i] = Bytes(n)[5 + i - 1]
    <3>1. \A j \in 5..n : Bytes(n)[j] \in [at : Nat, of : Nat]
      BY <1>2
    <3> QED BY <3>1, SubSeqProperties, SMTT(30)
  <2>2. n - 5 + 1 = n - 4 /\ \A i \in 1..(n - 4) : 5 + i - 1 = i + 4
    OBVIOUS
  <2> QED BY <2>1, <2>2
<1> HIDE DEF t, u
<1>5. \A i \in 1..(n - 4) : t[i] = u[i]
  <2>1. ASSUME NEW i \in 1..(n - 4) PROVE t[i] = u[i]
    <3>1. i + 4 \in 5..n
      OBVIOUS
    <3> QED BY <3>1, <1>2, <1>3, <1>4
  <2> QED BY <2>1
<1>6. t = u /\ t # <<>>
  <2>1. t = u
    BY <1>3, <1>4, <1>5
  <2>2. Len(t) > 0
    BY <1>3
  <2> QED BY <2>1, <2>2
<1>7. Len(t) + 4 = n
  BY <1>3
<1> QED BY <1>1, <1>6, <1>7 DEF Whole, t, u

\* The buffer stays a row of frames, each announced, until net_rx refuses one.
LEMMA StreamStep ==
  ASSUME FlagsOK, ValuesOK, LifeInv, PortType, StreamInv, [Next]_vars
  PROVE  StreamInv' /\ PortType'
<1>1. CASE AllocPriv
  BY <1>1 DEF AllocPriv, StreamInv, Announced, PortType, chipVars, history
<1>2. CASE RequestRegion
  BY <1>2 DEF RequestRegion, LoadFails, StreamInv, Announced, PortType, chipVars, history
<1>3. CASE Detect
  BY <1>3, EmptyRow DEF Detect, Reset, LoadFails, StreamInv, Announced, PortType
<1>4. CASE SetUp
  BY <1>4 DEF SetUp, StreamInv, Announced, PortType, chipVars, history, LifeInv
<1>5. CASE RequestIrq
  BY <1>5 DEF RequestIrq, LoadFails, StreamInv, Announced, PortType, chipVars, history
<1>6. CASE Ready
  BY <1>6 DEF Ready, StreamInv, Announced, PortType, chipVars, history
<1>7. CASE Unregister
  BY <1>7 DEF Unregister, StreamInv, Announced, PortType, chipVars, history
<1>8. CASE ExitHIT
  BY <1>8 DEF ExitHIT, StreamInv, Announced, PortType, chipVars, history
<1>9. CASE FreePriv
  BY <1>9 DEF FreePriv, StreamInv, Announced, PortType, chipVars, history
<1>10. CASE FreeIrq
  BY <1>10 DEF FreeIrq, StreamInv, Announced, PortType, chipVars, history
<1>11. CASE ReleaseRegion
  BY <1>11 DEF ReleaseRegion, StreamInv, Announced, PortType, chipVars, history
<1>12. CASE IfUp
  BY <1>12 DEF IfUp, Opened, StreamInv, Announced, PortType, chipVars, history
<1>13. CASE Upload
  BY <1>13 DEF Upload, SetMulticastList, StreamInv, Announced, PortType, chipVars, history
<1>14. CASE Close
  BY <1>14 DEF Close, StreamInv, Announced, PortType, chipVars, history
<1>15. CASE Send
  BY <1>15 DEF Send, NetSendPacket, StreamInv, Announced, PortType, chipVars, history
<1>16. CASE NetTimeout
  BY <1>16, EmptyRow DEF NetTimeout, Opened, StreamInv, Announced, PortType
<1>17. CASE (\E m, p \in BOOLEAN : ChangeList(m, p))
  BY <1>17 DEF ChangeList, SetMulticastList, StreamInv, Announced, PortType, chipVars, history
<1>18. CASE NetInterrupt
  BY <1>18 DEF NetInterrupt, Asserted, StreamInv, Announced, PortType, chipVars, history
<1>19. CASE RxDone
  BY <1>19 DEF RxDone, StreamInv, Announced, PortType, chipVars, history
<1>20. CASE RxRefuse
  <2>1. refused' = TRUE /\ port' = Rest(4)
    BY <1>20 DEF RxRefuse
  <2>2. PortType'
    BY <2>1, RestType DEF PortType
  <2> QED BY <2>1, <2>2 DEF StreamInv
<1>21. CASE RxFrame
  <2>1. PICK len \in Lengths :
            /\ len <= FrameMax
            /\ port' = Rest(4 + len)
            /\ garbled' = (garbled \/ ~Whole(Taken(5, 4 + len)))
    BY <1>21 DEF RxFrame
  <2>2. port # <<>> /\ hnd' = "rx" /\ refused' = refused
    BY <1>21 DEF RxFrame, history
  <2>3. PortType'
    <3>1. 4 + len \in Nat
      <4>1. CASE Head(port).at = 1
        <5>1. Head(port) \in [at : Nat, of : Nat]
          <6>1. Len(port) \in Nat /\ Len(port) > 0 /\ Head(port) = port[1]
            BY <2>2 DEF PortType
          <6>2. port[1] \in [at : Nat, of : Nat]
            <7>1. 1 \in 1..Len(port)
              BY <6>1
            <7> QED BY <7>1, ElementOfSeq DEF PortType
          <6> QED BY <6>1, <6>2
        <5>2. len = Head(port).of - 4
          BY <2>1, <4>1 DEF Lengths
        <5> QED BY <5>1, <5>2
      <4>2. CASE Head(port).at # 1
        BY <4>2, <2>1, LanAssumption DEF Lengths
      <4> QED BY <4>1, <4>2
    <3> QED BY <3>1, <2>1, RestType DEF PortType
  <2>4. ASSUME refused = FALSE
        PROVE  Framed(port') /\ garbled' = FALSE
    <3> DEFINE n == port[1].of
    <3>1. Framed(port) /\ garbled = FALSE
      BY <2>4 DEF StreamInv
    <3>2. /\ port[1].at = 1 /\ n \in Nat /\ n >= 5 /\ n <= Len(port)
          /\ \A j \in 1..n : port[j] = [at |-> j, of |-> n]
          /\ Framed(SubSeq(port, n + 1, Len(port)))
      BY <3>1, <2>2, FirstFrame DEF PortType
    <3>3. Head(port) = port[1]
      BY <2>2 DEF PortType
    <3> HIDE DEF n
    <3>4. len = n - 4
      BY <3>2, <3>3, <2>1 DEF Lengths, n
    <3>5. 4 + len = n
      BY <3>4, <3>2
    <3>6. Framed(port')
      BY <3>5, <3>2, <2>1 DEF Rest
    <3>7. Whole(Taken(5, 4 + len))
      BY <3>5, <3>2, WholeFrame DEF PortType, Taken
    <3> QED BY <3>1, <3>6, <3>7, <2>1
  <2> QED BY <2>2, <2>3, <2>4 DEF StreamInv, Announced
<1>22. CASE RxUnmask
  BY <1>22 DEF RxUnmask, StreamInv, Announced, PortType, chipVars, history
<1>23. CASE Receive
  <2>1. PICK len \in FrameLengths : port' = port \o Bytes(4 + len)
    BY <1>23 DEF Receive
  <2>2. rxReady' = TRUE /\ refused' = refused /\ garbled' = garbled
    BY <1>23 DEF Receive, history
  <2>3. 4 + len \in Nat /\ 4 + len >= 5
    BY LanAssumption DEF FrameLengths
  <2>4. PortType'
    <3>1. Bytes(4 + len) \in Seq([at : Nat, of : Nat])
      BY <2>3, BytesType
    <3> QED BY <3>1, <2>1 DEF PortType
  <2>5. Framed(port) => Framed(port')
    BY <2>1, <2>3, LastFrame DEF PortType
  <2> QED BY <2>2, <2>4, <2>5 DEF StreamInv, Announced
<1>24. CASE TxDone
  BY <1>24 DEF TxDone, StreamInv, Announced, PortType, chipVars, history
<1>25. CASE UNCHANGED vars
  BY <1>25 DEF vars, StreamInv, Announced, PortType, chipVars, history
<1> QED
  BY <1>1, <1>2, <1>3, <1>4, <1>5, <1>6, <1>7, <1>8, <1>9, <1>10, <1>11, <1>12, <1>13, <1>14, <1>15, <1>16, <1>17, <1>18, <1>19, <1>20, <1>21, <1>22, <1>23, <1>24, <1>25
  DEF Next, Load, Unload, Stack, Handler, Chip

LEMMA Step == IInv /\ [Next]_vars => IInv'
BY FlagsStep, ValuesStep, LifeStep, KnowsStep, StreamStep DEF IInv, TypeOK

-----------------------------------------------------------------------------
(* The theorems.                                                           *)

\* Every variable keeps to its values.
THEOREM TypeCorrect == Spec => []TypeOK
<1>1. IInv => TypeOK
  BY DEF IInv
<1> QED BY <1>1, InitInv, Step, PTL DEF Spec

\* net_rx passes on whole frames, whatever their number and lengths, and leaves
\* none in the buffer unannounced, until it refuses one.
THEOREM InStep == Spec => []FramesInStep
<1>1. IInv => FramesInStep
  <2> SUFFICES ASSUME IInv, ~refused PROVE AtHeader /\ Announced /\ ~garbled
    BY DEF FramesInStep
  <2>1. refused = FALSE
    BY DEF IInv, TypeOK, FlagsOK
  <2>2. Framed(port) /\ Announced /\ garbled = FALSE
    BY <2>1 DEF IInv, StreamInv
  <2>3. AtHeader
    BY <2>2, FirstFrame DEF AtHeader, IInv, PortType
  <2> QED BY <2>2, <2>3
<1> QED BY <1>1, InitInv, Step, PTL DEF Spec

\* The handler and the calls of the stack find an adapter that is set up, with
\* the address of its EEPROM, whatever address that is.
THEOREM Readiness == Spec => []ReadyToServe
<1>1. IInv => ReadyToServe
  BY MacIsRom DEF IInv, TypeOK, ValuesOK, LifeInv, ReadyToServe
<1> QED BY <1>1, InitInv, Step, PTL DEF Spec

\* The receive mode is promiscuous only if the kernel's flag says so.
THEOREM Knowing == Spec => []KernelKnows
<1>1. IInv => KernelKnows
  BY DEF IInv
<1> QED BY <1>1, InitInv, Step, PTL DEF Spec
=============================================================================
