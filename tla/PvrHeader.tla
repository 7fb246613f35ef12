----------------------------- MODULE PvrHeader -----------------------------
(***************************************************************************)
(* The polygon headers of libpvr: pvr_poly_compile puts a context into four *)
(* words, from which the tile accelerator and the texture unit read it.     *)
(*                                                                         *)
(* A word is the set of its bits that are set: | is union, a shift moves    *)
(* every bit.                                                               *)
(***************************************************************************)
EXTENDS Integers

\* A number as a word, and shifted to a field that begins at bit s.
Bits(n) == {b \in 0..30 : (n \div 2^b) % 2 = 1}
Field(n, s) == {b + s : b \in Bits(n)}
Flag(x, s) == IF x THEN {s} ELSE {}

OP_POLY == 0
OP_MOD == 1
TR_POLY == 2

\* What the fields of a context may hold, as far as the contexts below use it.
CLRFMT_ARGBPACKED == 0
DEPTHCMP_GREATER == 4
CULLING_CCW == 2
BLEND_ZERO == 0
BLEND_ONE == 1
BLEND_SRCALPHA == 4
BLEND_INVSRCALPHA == 5
FOG_DISABLE == 2
TXRENV_MODULATE == 1
TXRENV_MODULATEALPHA == 3
MIPBIAS_NORMAL == 4

\* PVR_CMD_POLYHDR is 0x80840000.
POLYHDR == {31, 23, 18}

VramSize == 8 * 1024 * 1024

\* The exponent of a power of two: __builtin_ctz.
Ctz(n) == CHOOSE k \in 0..30 : 2^k = n

-----------------------------------------------------------------------------
(* The contexts.                                                           *)

NoTexture == [filter |-> 0, env |-> 0, bias |-> 0, width |-> 0, height |-> 0,
              format |-> {}, base |-> 0]

\* A context of a list, without a texture.  The fields that neither context sets
\* to anything but zero are left out.
CxtCol(list) ==
  [list |-> list, color |-> CLRFMT_ARGBPACKED, shading |-> TRUE, uv |-> FALSE,
   specular |-> FALSE, compare |-> DEPTHCMP_GREATER, culling |-> CULLING_CCW,
   write |-> FALSE, src |-> IF list > OP_MOD THEN BLEND_SRCALPHA ELSE BLEND_ONE,
   dst |-> IF list > OP_MOD THEN BLEND_INVSRCALPHA ELSE BLEND_ZERO,
   fog |-> FOG_DISABLE, clamp |-> FALSE, alpha |-> list > OP_MOD,
   textured |-> FALSE, txr |-> NoTexture]

\* A context with a texture.
CxtTxr(list, fmt, tw, th, addr, flt) ==
  [CxtCol(list) EXCEPT
     !.textured = TRUE,
     !.txr = [filter |-> flt, bias |-> MIPBIAS_NORMAL,
              env |-> IF list > OP_MOD THEN TXRENV_MODULATEALPHA ELSE TXRENV_MODULATE,
              width |-> tw, height |-> th, format |-> fmt, base |-> addr]]

\* The address of a texture in units of eight bytes, within the memory.
ToTxrPtr(base) == (base % VramSize) \div 8

-----------------------------------------------------------------------------
(* The header.                                                             *)

Cmd(c) ==
  POLYHDR \cup Flag(c.textured, 3) \cup Field(c.list, 24) \cup Field(c.color, 4)
    \cup Flag(c.shading, 1) \cup Flag(c.uv, 0) \cup Flag(c.specular, 2)

Mode1(c) ==
  Field(c.compare, 29) \cup Field(c.culling, 27) \cup Flag(c.write, 26)
    \cup Flag(c.textured, 25)

Mode2(c) ==
  Field(c.src, 29) \cup Field(c.dst, 26) \cup Field(c.fog, 22)
    \cup Flag(c.clamp, 21) \cup Flag(c.alpha, 20)
    \cup IF ~c.textured THEN {}
         ELSE Field(c.txr.filter, 13) \cup Field(c.txr.bias, 8)
                \cup Field(c.txr.env, 6) \cup Field(Ctz(c.txr.width) - 3, 3)
                \cup Field(Ctz(c.txr.height) - 3, 0)

\* Fault: the address is not brought to units of eight bytes.
Mode3InBytes(c) ==
  IF ~c.textured THEN {} ELSE c.txr.format \cup Field(c.txr.base % VramSize, 0)

Mode3(c) ==
  IF ~c.textured THEN {} ELSE c.txr.format \cup Field(ToTxrPtr(c.txr.base), 0)

PolyCompile(c) ==
  [cmd |-> Cmd(c), mode1 |-> Mode1(c), mode2 |-> Mode2(c), mode3 |-> Mode3(c)]

-----------------------------------------------------------------------------
(* What the hardware reads in a header.                                    *)

\* The number in the n bits of a word from bit s, the highest first.
Read(word, s, n) ==
  LET value[k \in 0..n] ==
        IF k = 0 THEN 0
        ELSE 2 * value[k - 1] + (IF s + n - k \in word THEN 1 ELSE 0)
  IN  value[n]

\* The texture's address, size and format.
TextureRead(h) ==
  [base |-> 8 * Read(h.mode3, 0, 21), format |-> h.mode3 \cap (26..30),
   width |-> 8 * 2^Read(h.mode2, 3, 3), height |-> 8 * 2^Read(h.mode2, 0, 3),
   filter |-> Read(h.mode2, 13, 2), bias |-> Read(h.mode2, 8, 4),
   env |-> Read(h.mode2, 6, 2)]

\* The context that a header stands for.
HeaderRead(h) ==
  [list |-> Read(h.cmd, 24, 3), color |-> Read(h.cmd, 4, 2),
   shading |-> 1 \in h.cmd, uv |-> 0 \in h.cmd, specular |-> 2 \in h.cmd,
   compare |-> Read(h.mode1, 29, 3), culling |-> Read(h.mode1, 27, 2),
   write |-> 26 \in h.mode1,
   src |-> Read(h.mode2, 29, 3), dst |-> Read(h.mode2, 26, 3),
   fog |-> Read(h.mode2, 22, 2), clamp |-> 21 \in h.mode2,
   alpha |-> 20 \in h.mode2, textured |-> 3 \in h.cmd /\ 25 \in h.mode1,
   txr |-> IF 3 \in h.cmd THEN TextureRead(h) ELSE NoTexture]

\* A word is 32 bits wide.
IsHeader(h) ==
  /\ Read(h.cmd, 29, 3) = 4
  /\ h.cmd \cup h.mode1 \cup h.mode2 \cup h.mode3 \subseteq 0..31
=============================================================================
