------------------------------ MODULE Pictures ------------------------------
(***************************************************************************)
(* The programs that compose pictures for a VMU's display: vmu_lcd_text,    *)
(* which writes a text of several lines, mlcd's text2lcd, which packs a text *)
(* into bytes bit by bit, and the bouncing ball of vmu_lcd_anim.            *)
(*                                                                         *)
(* Each runs its own loop; loop holds its variables, under their names, and  *)
(* pc the loop it is in.  Characters are their codes.                       *)
(***************************************************************************)
EXTENDS Pixels, FiniteSets

CONSTANTS Texts,   \* what vmu_lcd_text is given
          Words    \* what text2lcd is given

LetterCodes == 65..90
Space == 32
Newline == 10

\* text2lcd is for capital letters and spaces; for others it repeats a row of the
\* character before.
ASSUME PicturesAssumption ==
  /\ Texts \subseteq Seq(1..255)
  /\ Words \subseteq Seq(LetterCodes \cup {Space})

VARIABLES fb,    \* the picture
          loop   \* the variables of the program's loop

vars == <<fb, loop>>

-----------------------------------------------------------------------------
(* vmu_lcd_text.                                                           *)

GLYPH_W == 4
GLYPH_H == 7
CHAR_ADV == 5
LINE_ADV == 8
COLS == LCD_W \div CHAR_ADV
ROWS == LCD_H \div LINE_ADV

Toupper(c) == IF c \in 97..122 THEN c - 32 ELSE c

Punctuation(c) ==   \* ' + , - . / : = ! ?
  CASE c = 39 -> <<0,2,2,0,0,0,0>>   [] c = 43 -> <<0,0,2,2,15,2,2>>
    [] c = 44 -> <<0,0,0,0,0,2,4>>   [] c = 45 -> <<0,0,0,15,0,0,0>>
    [] c = 46 -> <<0,0,0,0,0,0,2>>   [] c = 47 -> <<0,1,1,2,4,8,8>>
    [] c = 58 -> <<0,0,2,0,0,2,0>>   [] c = 61 -> <<0,0,15,0,15,0,0>>
    [] c = 33 -> <<0,2,2,2,2,0,2>>   [] c = 63 -> <<0,6,9,1,2,0,2>>
    [] OTHER  -> BLANK

Glyph(char) ==
  LET c == Toupper(char) IN
  CASE c \in LetterCodes -> ALPHABET[c - 64]
    [] c \in 48..57 -> DIGITS[c - 47]
    [] OTHER -> Punctuation(c)

DrawGlyph(picture, g, x0, y0) ==
  SetPixels(picture,
    {<<x0 + q[1], y0 + q[2]>> :
       q \in {q \in (0..(GLYPH_W - 1)) \X (0..(GLYPH_H - 1)) :
                GLYPH_W - 1 - q[1] \in BitsSet(g[q[2] + 1])}})

StartText ==
  \E text \in Texts, flip \in BOOLEAN :
    loop = [pc |-> "text", text |-> text, flip |-> flip, p |-> 1, col |-> 0, row |-> 0]

\* Fault: a line takes a character more.
PlaceLate(l) ==
  IF l.col > COLS THEN [l EXCEPT !.col = 0, !.row = @ + 1] ELSE l

\* A full line is left when the next character comes.
Place(l) ==
  IF l.col >= COLS THEN [l EXCEPT !.col = 0, !.row = @ + 1] ELSE l

InText == loop.pc = "text" /\ loop.p <= Len(loop.text)

TextNewline ==
  /\ InText /\ loop.text[loop.p] = Newline
  /\ loop' = [loop EXCEPT !.p = @ + 1, !.col = 0, !.row = @ + 1]
  /\ UNCHANGED fb

TextGlyph ==
  LET l == Place(loop) IN
  /\ InText /\ loop.text[loop.p] # Newline
  /\ l.row < ROWS
  /\ fb' = DrawGlyph(fb, Glyph(l.text[l.p]), l.col * CHAR_ADV, l.row * LINE_ADV)
  /\ loop' = [l EXCEPT !.p = @ + 1, !.col = @ + 1]

\* At the end of the text, or of the display.
TextEnds ==
  /\ loop.pc = "text"
  /\ \/ ~InText
     \/ InText /\ loop.text[loop.p] # Newline /\ Place(loop).row >= ROWS
  /\ fb' = IF loop.flip THEN Flip180(fb) ELSE fb
  /\ loop' = [loop EXCEPT !.pc = "text written"]

-----------------------------------------------------------------------------
(* text2lcd: rows of 48 bits, in which characters of five bits are packed.  *)

StartWord ==
  \E word \in Words :
    loop = [pc |-> "word", word |-> word, i |-> 0, j |-> 0, rel_char_pos |-> -1,
            stop_pos |-> -1, byte |-> 0, printed |-> 0]

\* The bitmap row of a character.
RowOf(char, j) ==
  IF char = Space THEN BLANK[(j % 7) + 1] ELSE ALPHABET[char - 64][(j % 7) + 1]

\* What the mask keeps of a character at place i: its upper bits, so many as fit into
\* the byte.
Kept(character, i) ==
  IF 8 - (i % 8) > 4 THEN character
  ELSE LET low == 2 ^ ((i % 8) - 3) IN (character \div low) * low

\* Fault: the lower bits are shifted by their number alone.
RestShort(character, i) ==
  (character - Kept(character, i)) * (2 ^ ((i % 8) - 3))

\* The lower bits of a character, at the left of the next byte.
Rest(character, i) ==
  (character - Kept(character, i)) * (2 ^ (8 - ((i % 8) - 3)))

PutByte(byte) == fb' = fb \cup {<<loop.printed, b>> : b \in BitsSet(byte % 256)}

\* One round of the inner loop.
WordStep ==
  LET i == loop.i
      rel == IF i % 5 = 0 /\ i < 45 THEN (loop.rel_char_pos + 1) % 9
             ELSE loop.rel_char_pos
      abs == rel + ((loop.j \div 7) * 9)
      stop == IF loop.stop_pos = -1 /\ abs = Len(loop.word) THEN abs ELSE loop.stop_pos
      character == IF (stop = -1 \/ abs < stop) /\ i < 45
                   THEN RowOf(loop.word[abs + 1], loop.j) ELSE 0
      old_i == (i % 8) - 3
      split == old_i > 0
      byte == loop.byte + (IF i <= 40 THEN (Kept(character, i) * 8) \div (2 ^ (i % 8))
                           ELSE 0)
      next == i + (IF split THEN 8 - (i % 8) ELSE 5)
      full == next % 8 = 0
      rest == IF split /\ i <= 40 THEN Rest(character, i) ELSE 0
  IN
  /\ loop.pc = "word" /\ loop.j < 32 /\ i < 48
  /\ IF full THEN PutByte(byte) ELSE UNCHANGED fb
  /\ loop' = [loop EXCEPT !.rel_char_pos = rel, !.stop_pos = stop,
                          !.byte = (IF full THEN 0 ELSE byte) + rest,
                          !.printed = @ + (IF full THEN 1 ELSE 0),
                          !.i = next + (IF split THEN old_i ELSE 0)]

WordRow ==
  /\ loop.pc = "word" /\ loop.j < 32 /\ loop.i >= 48
  /\ loop' = [loop EXCEPT !.i = 0, !.j = @ + 1,
                          !.pc = IF loop.j = 31 THEN "word written" ELSE "word"]
  /\ UNCHANGED fb

-----------------------------------------------------------------------------
(* run_ball: places and speeds are in 256ths of a pixel.                     *)

Radius == 4
Pixel == 256

\* The loop's variables before the first frame.
StartBall ==
  loop = [pc |-> "ball", px |-> (LCD_W \div 2) * Pixel, py |-> (LCD_H \div 2) * Pixel,
          vx |-> 137, vy |-> 91]

\* Fault: the speed is turned, the place is not corrected.
BouncedLoose(p, v, size) ==
  IF p < Radius * Pixel \/ p > (size - 1 - Radius) * Pixel THEN <<p, -v>> ELSE <<p, v>>

\* A coordinate and its speed when the walls at both sides have been looked at.
Bounced(p, v, size) ==
  IF p < Radius * Pixel THEN <<Radius * Pixel, -v>>
  ELSE IF p > (size - 1 - Radius) * Pixel THEN <<(size - 1 - Radius) * Pixel, -v>>
  ELSE <<p, v>>

Disc == {q \in ((-Radius)..Radius) \X ((-Radius)..Radius) :
           (q[1] * q[1]) + (q[2] * q[2]) <= Radius * Radius}

FillDisc(picture, cx, cy) == SetPixels(picture, {<<cx + q[1], cy + q[2]>> : q \in Disc})

Border == {q \in (0..(LCD_W - 1)) \X (0..(LCD_H - 1)) :
             q[1] \in {0, LCD_W - 1} \/ q[2] \in {0, LCD_H - 1}}

BallFrame ==
  LET x == Bounced(loop.px + loop.vx, loop.vx, LCD_W)
      y == Bounced(loop.py + loop.vy, loop.vy, LCD_H) IN
  /\ loop.pc = "ball"
  /\ loop' = [loop EXCEPT !.px = x[1], !.vx = x[2], !.py = y[1], !.vy = y[2]]
  /\ fb' = FillDisc(SetPixels({}, Border), x[1] \div Pixel, y[1] \div Pixel)

-----------------------------------------------------------------------------

Init == fb = {} /\ (StartText \/ StartWord \/ StartBall)

Next == TextNewline \/ TextGlyph \/ TextEnds \/ WordStep \/ WordRow \/ BallFrame

Spec == Init /\ [][Next]_vars

-----------------------------------------------------------------------------
(* Properties.                                                             *)

\* The newlines before a place of the text, and where its piece begins.
Before(text, p) == {q \in 1..(p - 1) : text[q] = Newline}
Begin(text, p) ==
  CHOOSE b \in 1..p : b - 1 \in {0} \cup Before(text, p)
                      /\ \A q \in Before(text, p) : q < b

\* The places up to p where a line begins: behind a newline, and after every nine
\* characters of a piece.
Breaks(text, p) ==
  {q \in 2..p : \/ text[q - 1] = Newline
                \/ /\ text[q] # Newline /\ q > Begin(text, q)
                   /\ (q - Begin(text, q)) % COLS = 0}

\* The line and the column of a character.
LineOf(text, p) == Cardinality(Breaks(text, p))
ColumnOf(text, p) == (p - Begin(text, p)) % COLS

\* What is dark for a character, and for the characters of a text that are displayed.
CharDark(text, p) ==
  UNION {{<<(ColumnOf(text, p) * 5) + 3 - b, (LineOf(text, p) * 8) + r - 1>> :
            b \in BitsSet(Glyph(text[p])[r])} : r \in 1..7}
Dark(text) ==
  UNION {CharDark(text, p) :
           p \in {p \in 1..Len(text) : text[p] # Newline /\ LineOf(text, p) < 4}}

\* A text is shown as laid out, upright or turned: a pixel is lit exactly if a
\* character of the first four lines has it in its glyph.  (vmu_lcd_text's loop.)
TextAsLaidOut ==
  loop.pc = "text written" =>
    LET dark == Dark(loop.text)
    IN \A x \in 0..(LCD_W - 1), y \in 0..(LCD_H - 1) :
         Lit(fb, x, y) <=>
           (IF loop.flip THEN <<LCD_W - 1 - x, LCD_H - 1 - y>> ELSE <<x, y>>) \in dark

\* The bytes that text2lcd prints are as many as the display takes, and show in every
\* cell of five by seven pixels the character whose place in the word it is.
WordAsBitmap ==
  loop.pc = "word written" =>
    /\ loop.printed = LCD_STRIDE * LCD_H
    /\ \A x \in 0..(LCD_W - 1), y \in 0..(LCD_H - 1) :
         LET p == ((y \div 7) * 9) + (x \div 5) + 1 IN
         Lit(fb, x, y) <=>
           /\ x < 45 /\ p <= Len(loop.word)
           /\ 4 - (x % 5) \in BitsSet(RowOf(loop.word[p], y))

\* Every frame shows the border and the whole disc around the ball's place.
BallOnScreen ==
  loop.pc = "ball" /\ fb # {} =>
    LET cx == loop.px \div Pixel
        cy == loop.py \div Pixel IN
    /\ \A q \in Disc : OnScreen(cx + q[1], cy + q[2])
    /\ \A x \in 0..(LCD_W - 1), y \in 0..(LCD_H - 1) :
         Lit(fb, x, y) <=> <<x, y>> \in Border \/ <<x - cx, y - cy>> \in Disc

\* Every program composes the picture it was asked for.
PictureRight == TextAsLaidOut /\ WordAsBitmap /\ BallOnScreen
=============================================================================
