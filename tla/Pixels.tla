------------------------------- MODULE Pixels -------------------------------
(***************************************************************************)
(* The picture that /dev/vmu_lcd takes, vmu_lcd.h's helpers for it, and the  *)
(* font that the two programs that write text share.                       *)
(***************************************************************************)
EXTENDS Integers, Sequences

LCD_W == 48
LCD_H == 32
LCD_STRIDE == LCD_W \div 8

\* The bits that are set in a byte or in a row of a glyph; bit 0 is worth one.
BitsSet(n) == {b \in 0..7 : (n \div (2 ^ b)) % 2 = 1}

\* A picture is the set of its bits that are set, each a byte's place and a bit.
OnScreen(x, y) == x \in 0..(LCD_W - 1) /\ y \in 0..(LCD_H - 1)
At(x, y) == <<(y * LCD_STRIDE) + (x \div 8), 7 - (x % 8)>>

GetPixel(fb, x, y) == OnScreen(x, y) /\ At(x, y) \in fb

\* vmu_lcd_set_pixel, for every pixel of a set.
SetPixels(fb, pixels) ==
  fb \cup {At(q[1], q[2]) : q \in {q \in pixels : OnScreen(q[1], q[2])}}

Flip180(fb) ==
  SetPixels({}, {<<LCD_W - 1 - q[1], LCD_H - 1 - q[2]>> :
                   q \in {q \in (0..(LCD_W - 1)) \X (0..(LCD_H - 1)) :
                            GetPixel(fb, q[1], q[2])}})

\* How a display reads a picture: row by row, the next byte at every eighth pixel.
Lit(fb, i, j) == <<(j * LCD_STRIDE) + (i \div 8), 7 - (i % 8)>> \in fb

-----------------------------------------------------------------------------
(* Glyphs: seven rows, the first of them empty in every letter and digit.   *)

ALPHABET == <<
  <<0,6,9,9,15,9,9>>, <<0,14,9,10,13,9,14>>, <<0,6,9,8,8,9,6>>, <<0,14,9,9,9,9,14>>,
  <<0,15,8,8,14,8,15>>, <<0,15,8,8,14,8,8>>, <<0,6,9,8,11,9,6>>, <<0,9,9,9,15,9,9>>,
  <<0,15,4,4,4,4,15>>, <<0,15,1,1,1,9,6>>, <<0,9,9,10,14,10,9>>, <<0,8,8,8,8,8,15>>,
  <<0,5,10,11,9,9,9>>, <<0,9,13,13,11,11,9>>, <<0,6,9,9,9,9,6>>, <<0,14,9,9,14,8,8>>,
  <<0,6,9,9,9,10,5>>, <<0,14,9,9,14,10,9>>, <<0,6,9,12,2,9,6>>, <<0,15,4,4,4,4,4>>,
  <<0,9,9,9,9,9,6>>, <<0,9,9,9,9,6,2>>, <<0,9,9,9,11,10,5>>, <<0,9,9,6,6,9,9>>,
  <<0,9,9,5,2,2,2>>, <<0,15,1,2,4,8,15>> >>

DIGITS == <<
  <<0,6,9,11,13,9,6>>, <<0,2,6,2,2,2,7>>, <<0,6,9,1,6,8,15>>, <<0,14,1,6,1,9,6>>,
  <<0,2,6,10,15,2,2>>, <<0,15,8,14,1,9,6>>, <<0,6,8,14,9,9,6>>, <<0,15,1,2,4,4,4>>,
  <<0,6,9,6,9,9,6>>, <<0,6,9,9,7,1,6>> >>

BLANK == <<0,0,0,0,0,0,0>>
=============================================================================
