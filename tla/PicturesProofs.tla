--------------------------- MODULE PicturesProofs ---------------------------
(* Proof that every program composes the picture it was asked for.          *)
EXTENDS Pictures, FiniteSetTheorems, SequenceTheorems, TLAPS

-----------------------------------------------------------------------------
(* Pixels.                                                                 *)

Columns == 0..47
Rows == 0..31
Pairs == Int \X Int

LEMMA PlaceOnce ==
  ASSUME NEW x \in Columns, NEW y \in Rows, NEW u \in Columns, NEW v \in Rows,
         At(x, y) = At(u, v)
  PROVE  x = u /\ y = v
<1>1. /\ (y * 6) + (x \div 8) = (v * 6) + (u \div 8)
      /\ 7 - (x % 8) = 7 - (u % 8)
  BY DEF At, LCD_STRIDE, LCD_W
<1>2. x \div 8 \in 0..5 /\ u \div 8 \in 0..5 /\ y \in Int /\ v \in Int
  BY DEF Columns, Rows
<1>3. y = v /\ x \div 8 = u \div 8
  BY <1>1, <1>2
<1>4. x = 8 * (x \div 8) + (x % 8) /\ u = 8 * (u \div 8) + (u % 8)
  BY DEF Columns
<1>5. x \div 8 \in Int /\ u \div 8 \in Int /\ x % 8 \in Int /\ u % 8 \in Int
  BY DEF Columns
<1>6. x % 8 = u % 8
  BY <1>1, <1>5
<1> QED
  BY <1>3, <1>4, <1>6

LEMMA LitIs ==
  ASSUME NEW f, NEW x, NEW y
  PROVE  Lit(f, x, y) <=> At(x, y) \in f
BY DEF Lit, At

\* What is lit when pixels are set.
LEMMA LitMore ==
  ASSUME NEW f, NEW S \in SUBSET Pairs, NEW x \in Columns, NEW y \in Rows
  PROVE  Lit(SetPixels(f, S), x, y) <=> Lit(f, x, y) \/ <<x, y>> \in S
<1>1. \A u, v : OnScreen(u, v) <=> u \in Columns /\ v \in Rows
  BY DEF OnScreen, LCD_W, LCD_H, Columns, Rows
<1>2. At(x, y) \in SetPixels(f, S) <=>
        At(x, y) \in f \/ \E q \in S : OnScreen(q[1], q[2]) /\ At(x, y) = At(q[1], q[2])
  BY DEF SetPixels
<1>3. ASSUME NEW q \in S, OnScreen(q[1], q[2]), At(x, y) = At(q[1], q[2])
      PROVE  <<x, y>> \in S
  <2>1. PICK u \in Columns, v \in Rows : u = q[1] /\ v = q[2]
    BY <1>1, <1>3
  <2>3. At(x, y) = At(u, v)
    BY <1>3, <2>1
  <2>4. x = u /\ y = v
    BY <2>3, PlaceOnce
  <2>2. q = <<q[1], q[2]>>
    BY DEF Pairs
  <2> QED
    BY <2>1, <2>2, <2>4
<1>4. ASSUME <<x, y>> \in S
      PROVE  \E q \in S : OnScreen(q[1], q[2]) /\ At(x, y) = At(q[1], q[2])
  <2>1. <<x, y>>[1] = x /\ <<x, y>>[2] = y
    OBVIOUS
  <2> QED
    BY <1>1, <1>4, <2>1
<1> QED
  BY <1>2, <1>3, <1>4, LitIs

LEMMA LitNothing == ASSUME NEW x, NEW y PROVE ~Lit({}, x, y)
  BY DEF Lit

-----------------------------------------------------------------------------
(* Glyphs.                                                                 *)

Nibble == 0..15
GlyphRows == [1..7 -> Nibble]

LEMMA Nibbles ==
  /\ 0 \in Nibble /\ 1 \in Nibble /\ 2 \in Nibble /\ 3 \in Nibble /\ 4 \in Nibble
  /\ 5 \in Nibble /\ 6 \in Nibble /\ 7 \in Nibble /\ 8 \in Nibble /\ 9 \in Nibble
  /\ 10 \in Nibble /\ 11 \in Nibble /\ 12 \in Nibble /\ 13 \in Nibble /\ 14 \in Nibble
  /\ 15 \in Nibble
BY DEF Nibble

LEMMA SevenRows ==
  \A a, b, c, d, e, f, g \in Nibble : <<a, b, c, d, e, f, g>> \in GlyphRows
BY DEF GlyphRows

LEMMA BlankIs == BLANK \in GlyphRows
BY SevenRows, Nibbles, Zenon DEF BLANK

LEMMA LettersAre == \A k \in 1..26 : ALPHABET[k] \in GlyphRows
<1>1. /\ ALPHABET[1] \in GlyphRows /\ ALPHABET[2] \in GlyphRows /\ ALPHABET[3] \in GlyphRows
      /\ ALPHABET[4] \in GlyphRows /\ ALPHABET[5] \in GlyphRows /\ ALPHABET[6] \in GlyphRows
      /\ ALPHABET[7] \in GlyphRows /\ ALPHABET[8] \in GlyphRows /\ ALPHABET[9] \in GlyphRows
  BY SevenRows, Nibbles, Zenon DEF ALPHABET
<1>2. /\ ALPHABET[10] \in GlyphRows /\ ALPHABET[11] \in GlyphRows
      /\ ALPHABET[12] \in GlyphRows /\ ALPHABET[13] \in GlyphRows
      /\ ALPHABET[14] \in GlyphRows /\ ALPHABET[15] \in GlyphRows
      /\ ALPHABET[16] \in GlyphRows /\ ALPHABET[17] \in GlyphRows
  BY SevenRows, Nibbles, Zenon DEF ALPHABET
<1>3. /\ ALPHABET[18] \in GlyphRows /\ ALPHABET[19] \in GlyphRows
      /\ ALPHABET[20] \in GlyphRows /\ ALPHABET[21] \in GlyphRows
      /\ ALPHABET[22] \in GlyphRows /\ ALPHABET[23] \in GlyphRows
      /\ ALPHABET[24] \in GlyphRows /\ ALPHABET[25] \in GlyphRows
      /\ ALPHABET[26] \in GlyphRows
  BY SevenRows, Nibbles, Zenon DEF ALPHABET
<1> QED
  BY <1>1, <1>2, <1>3

LEMMA DigitsAre == \A k \in 1..10 : DIGITS[k] \in GlyphRows
<1>1. /\ DIGITS[1] \in GlyphRows /\ DIGITS[2] \in GlyphRows /\ DIGITS[3] \in GlyphRows
      /\ DIGITS[4] \in GlyphRows /\ DIGITS[5] \in GlyphRows /\ DIGITS[6] \in GlyphRows
      /\ DIGITS[7] \in GlyphRows /\ DIGITS[8] \in GlyphRows /\ DIGITS[9] \in GlyphRows
      /\ DIGITS[10] \in GlyphRows
  BY SevenRows, Nibbles, Zenon DEF DIGITS
<1> QED
  BY <1>1

LEMMA GlyphIs == ASSUME NEW c \in 1..255 PROVE Glyph(c) \in GlyphRows
<1>1. ASSUME NEW p \in Int PROVE Punctuation(p) \in GlyphRows
  <2>1. /\ <<0,2,2,0,0,0,0>> \in GlyphRows /\ <<0,0,2,2,15,2,2>> \in GlyphRows
        /\ <<0,0,0,0,0,2,4>> \in GlyphRows /\ <<0,0,0,15,0,0,0>> \in GlyphRows
        /\ <<0,0,0,0,0,0,2>> \in GlyphRows /\ <<0,1,1,2,4,8,8>> \in GlyphRows
        /\ <<0,0,2,0,0,2,0>> \in GlyphRows /\ <<0,0,15,0,15,0,0>> \in GlyphRows
        /\ <<0,2,2,2,2,0,2>> \in GlyphRows /\ <<0,6,9,1,2,0,2>> \in GlyphRows
    BY SevenRows, Nibbles, Zenon
  <2> QED
    BY <2>1, BlankIs, Zenon DEF Punctuation
<1>2. PICK u \in Int : u = Toupper(c)
  BY DEF Toupper
<1>3. u \in LetterCodes => u - 64 \in 1..26
  BY DEF LetterCodes
<1>4. u \in 48..57 => u - 47 \in 1..10
  OBVIOUS
<1> QED
  BY <1>1, <1>2, <1>3, <1>4, LettersAre, DigitsAre DEF Glyph

\* A row of a glyph has four bits.
LEMMA FourBits == \A n \in Nibble : BitsSet(n) \subseteq 0..3
<1> SUFFICES ASSUME NEW n \in 0..15, NEW b \in BitsSet(n) PROVE b \in 0..3
  BY DEF Nibble
<1>1. b \in 0..7 /\ (n \div (2^b)) % 2 = 1
  BY DEF BitsSet
<1>2. b # 4 /\ b # 5 /\ b # 6 /\ b # 7
  <2>1. /\ (n \div (2^4)) % 2 # 1 /\ (n \div (2^5)) % 2 # 1
        /\ (n \div (2^6)) % 2 # 1 /\ (n \div (2^7)) % 2 # 1
    OBVIOUS
  <2> QED
    BY <1>1, <2>1, Zenon
<1> QED
  BY <1>1, <1>2

-----------------------------------------------------------------------------
(* Texts: the piece, the line and the column of a place.                   *)

IsText(text) == text \in Seq(1..255)

IsBegin(text, p, b) ==
  /\ b \in 1..p
  /\ b - 1 \in {0} \cup Before(text, p)
  /\ \A q \in Before(text, p) : q < b

LEMMA BeginIs ==
  ASSUME NEW text, NEW p \in Nat, NEW b, IsBegin(text, p, b)
  PROVE  Begin(text, p) = b
<1>1. ASSUME NEW c, IsBegin(text, p, c) PROVE c = b
  <2>1. b \in 1..p /\ c \in 1..p
    BY <1>1 DEF IsBegin
  <2>2. c - 1 = 0 \/ c - 1 < b
    BY <1>1 DEF IsBegin
  <2>3. b - 1 = 0 \/ b - 1 < c
    BY <1>1 DEF IsBegin
  <2> QED
    BY <2>1, <2>2, <2>3
<1>2. Begin(text, p) = CHOOSE c \in 1..p : IsBegin(text, p, c)
  BY DEF Begin, IsBegin
<1>3. b \in 1..p
  BY DEF IsBegin
<1> HIDE DEF IsBegin
<1> QED
  BY <1>1, <1>2, <1>3

\* The next place is in the same piece, or begins one.
LEMMA BeginNext ==
  ASSUME NEW text, NEW p \in Nat \ {0}, NEW b, IsBegin(text, p, b)
  PROVE  IF text[p] = Newline THEN IsBegin(text, p + 1, p + 1) ELSE IsBegin(text, p + 1, b)
<1>1. Before(text, p + 1) = IF text[p] = Newline THEN Before(text, p) \cup {p}
                            ELSE Before(text, p)
  BY DEF Before
<1>2. \A q \in Before(text, p) : q \in 1..(p - 1)
  BY DEF Before
<1>3. b \in 1..p /\ b \in 1..(p + 1) /\ p + 1 \in 1..(p + 1) /\ (p + 1) - 1 = p
  BY DEF IsBegin
<1>4. CASE text[p] = Newline
  <2>1. \A q \in Before(text, p + 1) : q < p + 1
    BY <1>1, <1>2, <1>4
  <2> QED
    BY <1>1, <1>3, <1>4, <2>1 DEF IsBegin
<1>5. CASE text[p] # Newline
  BY <1>1, <1>3, <1>5 DEF IsBegin
<1> QED
  BY <1>4, <1>5

IsBreak(text, q) ==
  \/ text[q - 1] = Newline
  \/ text[q] # Newline /\ q > Begin(text, q) /\ (q - Begin(text, q)) % COLS = 0

LEMMA LineNat ==
  ASSUME NEW text, NEW p \in Nat
  PROVE  IsFiniteSet(Breaks(text, p)) /\ LineOf(text, p) \in Nat
<1>1. IsFiniteSet(2..p) /\ Breaks(text, p) \subseteq 2..p
  BY FS_Interval DEF Breaks
<1> QED
  BY <1>1, FS_Subset, FS_CardinalityType DEF LineOf

LEMMA LineNext ==
  ASSUME NEW text, NEW p \in Nat \ {0}
  PROVE  LineOf(text, p + 1) = LineOf(text, p) + IF IsBreak(text, p + 1) THEN 1 ELSE 0
<1>1. Breaks(text, p + 1) = IF IsBreak(text, p + 1) THEN Breaks(text, p) \cup {p + 1}
                            ELSE Breaks(text, p)
  <2>1. Breaks(text, p + 1) = {q \in 2..(p + 1) : IsBreak(text, q)}
    BY DEF Breaks, IsBreak
  <2>2. Breaks(text, p) = {q \in 2..p : IsBreak(text, q)}
    BY DEF Breaks, IsBreak
  <2>3. 2..(p + 1) = (2..p) \cup {p + 1}
    OBVIOUS
  <2> HIDE DEF IsBreak
  <2> QED
    BY <2>1, <2>2, <2>3
<1>2. p + 1 \notin Breaks(text, p)
  BY DEF Breaks
<1>3. IsFiniteSet(Breaks(text, p)) /\ LineOf(text, p) \in Nat
  BY LineNat
<1> HIDE DEF IsBreak
<1>4. CASE IsBreak(text, p + 1)
  <2>1. Cardinality(Breaks(text, p) \cup {p + 1}) = Cardinality(Breaks(text, p)) + 1
    BY <1>2, <1>3, FS_AddElement
  <2> QED
    BY <1>1, <1>4, <2>1 DEF LineOf
<1>5. CASE ~IsBreak(text, p + 1)
  BY <1>1, <1>3, <1>5 DEF LineOf
<1> QED
  BY <1>4, <1>5

LEMMA LineGrows ==
  ASSUME NEW text, NEW p \in Nat, NEW q \in Nat, p <= q
  PROVE  LineOf(text, p) <= LineOf(text, q)
<1>1. Breaks(text, p) \subseteq Breaks(text, q)
  <2>1. 2..p \subseteq 2..q
    OBVIOUS
  <2> QED
    BY <2>1 DEF Breaks
<1>2. IsFiniteSet(Breaks(text, q))
  BY LineNat
<1> QED
  BY <1>1, <1>2, FS_Subset DEF LineOf

\* Where the cursor is when the characters before p are drawn: at the beginning of
\* a piece, or behind the last character, which may be the ninth.
Cursor(text, p, col, row) ==
  \E b \in 1..p :
    /\ IsBegin(text, p, b)
    /\ IF b = p THEN col = 0 /\ row = LineOf(text, p)
       ELSE col = ((p - b - 1) % 9) + 1 /\ row = LineOf(text, p - 1)

LEMMA CursorStarts == ASSUME NEW text PROVE Cursor(text, 1, 0, 0)
<1>1. IsBegin(text, 1, 1)
  BY DEF IsBegin, Before
<1>2. LineOf(text, 1) = 0
  <2>1. Breaks(text, 1) = {}
    BY DEF Breaks
  <2> QED
    BY <2>1, FS_EmptySet DEF LineOf
<1> QED
  BY <1>1, <1>2 DEF Cursor

\* The character at p goes where Place puts the cursor.
LEMMA PlaceIs ==
  ASSUME NEW text, NEW p \in Nat \ {0}, NEW col, NEW row,
         Cursor(text, p, col, row), text[p] # Newline
  PROVE  /\ ColumnOf(text, p) = IF col >= 9 THEN 0 ELSE col
         /\ LineOf(text, p) = IF col >= 9 THEN row + 1 ELSE row
         /\ ColumnOf(text, p) \in 0..8
         /\ Cursor(text, p + 1, ColumnOf(text, p) + 1, LineOf(text, p))
<1>1. PICK b \in 1..p :
        /\ IsBegin(text, p, b)
        /\ IF b = p THEN col = 0 /\ row = LineOf(text, p)
           ELSE col = ((p - b - 1) % 9) + 1 /\ row = LineOf(text, p - 1)
  BY DEF Cursor
<1>2. Begin(text, p) = b /\ ColumnOf(text, p) = (p - b) % 9
  BY <1>1, BeginIs DEF ColumnOf, COLS, LCD_W, CHAR_ADV
<1>3. /\ ColumnOf(text, p) = IF col >= 9 THEN 0 ELSE col
      /\ LineOf(text, p) = IF col >= 9 THEN row + 1 ELSE row
  <2>1. CASE b = p
    BY <1>1, <1>2, <2>1
  <2>2. CASE b # p
    <3>1. p - 1 \in Nat \ {0} /\ (p - 1) + 1 = p
      BY <2>2
    <3>2. text[p - 1] # Newline
      <4>1. text[p - 1] = Newline => p - 1 \in Before(text, p)
        BY <3>1 DEF Before
      <4>2. p - 1 \in Before(text, p) => p - 1 < b
        BY <1>1 DEF IsBegin
      <4> QED
        BY <2>2, <4>1, <4>2
    <3>3. IsBreak(text, p) <=> (p - b) % 9 = 0
      BY <1>2, <2>2, <3>2 DEF IsBreak, COLS, LCD_W, CHAR_ADV
    <3>4. LineOf(text, p) = LineOf(text, p - 1) + IF IsBreak(text, p) THEN 1 ELSE 0
      BY <3>1, LineNext
    <3>5. LineOf(text, p - 1) \in Nat
      BY <3>1, LineNat
    <3>6. PICK k \in Nat : k = p - b - 1
      BY <2>2
    <3>7. p - b = k + 1 /\ col = (k % 9) + 1 /\ row = LineOf(text, p - 1)
      BY <1>1, <2>2, <3>6
    <3>8. /\ k % 9 = 8 => (k + 1) % 9 = 0
          /\ k % 9 # 8 => (k + 1) % 9 = (k % 9) + 1
          /\ k % 9 \in 0..8
      OBVIOUS
    <3> HIDE DEF IsBreak
    <3> QED
      BY <1>2, <3>3, <3>4, <3>5, <3>7, <3>8
  <2> QED
    BY <2>1, <2>2
<1>4. ColumnOf(text, p) \in 0..8
  BY <1>2
<1>5. Cursor(text, p + 1, ColumnOf(text, p) + 1, LineOf(text, p))
  <2>1. IsBegin(text, p + 1, b)
    BY <1>1, BeginNext
  <2>2. b \in 1..(p + 1) /\ b # p + 1 /\ (p + 1) - b - 1 = p - b /\ (p + 1) - 1 = p
    OBVIOUS
  <2> QED
    BY <1>2, <2>1, <2>2 DEF Cursor
<1> QED
  BY <1>3, <1>4, <1>5

LEMMA NewlineIs ==
  ASSUME NEW text, NEW p \in Nat \ {0}, NEW col, NEW row,
         Cursor(text, p, col, row), text[p] = Newline
  PROVE  Cursor(text, p + 1, 0, row + 1)
<1>1. PICK b \in 1..p :
        /\ IsBegin(text, p, b)
        /\ IF b = p THEN col = 0 /\ row = LineOf(text, p)
           ELSE col = ((p - b - 1) % 9) + 1 /\ row = LineOf(text, p - 1)
  BY DEF Cursor
<1>2. row = LineOf(text, p)
  <2>1. CASE b = p
    BY <1>1, <2>1
  <2>2. CASE b # p
    <3>1. p - 1 \in Nat \ {0} /\ (p - 1) + 1 = p
      BY <2>2
    <3>2. text[p - 1] # Newline
      <4>1. text[p - 1] = Newline => p - 1 \in Before(text, p)
        BY <3>1 DEF Before
      <4>2. p - 1 \in Before(text, p) => p - 1 < b
        BY <1>1 DEF IsBegin
      <4> QED
        BY <2>2, <4>1, <4>2
    <3>3. ~IsBreak(text, p)
      BY <3>2 DEF IsBreak
    <3>4. LineOf(text, p) = LineOf(text, p - 1) + IF IsBreak(text, p) THEN 1 ELSE 0
      BY <3>1, LineNext
    <3>5. LineOf(text, p - 1) \in Nat
      BY <3>1, LineNat
    <3> HIDE DEF IsBreak
    <3> QED
      BY <1>1, <2>2, <3>3, <3>4, <3>5
  <2> QED
    BY <2>1, <2>2
<1>3. LineOf(text, p + 1) = row + 1
  <2>1. IsBreak(text, p + 1)
    BY DEF IsBreak
  <2> QED
    BY <1>2, <2>1, LineNext
<1>4. IsBegin(text, p + 1, p + 1)
  BY <1>1, BeginNext
<1> QED
  BY <1>3, <1>4 DEF Cursor

-----------------------------------------------------------------------------
(* Texts: the picture.                                                     *)

\* draw_glyph sets what is dark for the character.
LEMMA GlyphDark ==
  ASSUME NEW text, NEW p, Glyph(text[p]) \in GlyphRows,
         ColumnOf(text, p) \in Int, LineOf(text, p) \in Int, NEW f
  PROVE  /\ CharDark(text, p) \in SUBSET Pairs
         /\ DrawGlyph(f, Glyph(text[p]), ColumnOf(text, p) * CHAR_ADV,
                      LineOf(text, p) * LINE_ADV)
              = SetPixels(f, CharDark(text, p))
<1> DEFINE g == Glyph(text[p])
           x0 == ColumnOf(text, p) * 5
           y0 == LineOf(text, p) * 8
           Set == {<<x0 + q[1], y0 + q[2]>> :
                     q \in {q \in (0..(GLYPH_W - 1)) \X (0..(GLYPH_H - 1)) :
                              GLYPH_W - 1 - q[1] \in BitsSet(g[q[2] + 1])}}
<1>1. x0 \in Int /\ y0 \in Int
  OBVIOUS
<1>2. GLYPH_W - 1 = 3 /\ GLYPH_H - 1 = 6
  BY DEF GLYPH_W, GLYPH_H
<1>3. CharDark(text, p) = UNION {{<<x0 + 3 - b, y0 + r - 1>> : b \in BitsSet(g[r])} : r \in 1..7}
  BY DEF CharDark
<1>4. \A r \in 1..7 : BitsSet(g[r]) \subseteq 0..3
  BY FourBits DEF GlyphRows
<1> HIDE DEF g, x0, y0
<1>5. ASSUME NEW d \in CharDark(text, p) PROVE d \in Set /\ d \in Pairs
  <2>1. PICK r \in 1..7 : \E b \in BitsSet(g[r]) : d = <<x0 + 3 - b, y0 + r - 1>>
    BY <1>3, <1>5
  <2>7. PICK b \in BitsSet(g[r]) : d = <<x0 + 3 - b, y0 + r - 1>>
    BY <2>1
  <2>2. b \in 0..3
    BY <1>4, <2>7
  <2> DEFINE q == <<3 - b, r - 1>>
  <2>3. q \in (0..3) \X (0..6)
    BY <2>2
  <2>4. q[1] = 3 - b /\ q[2] = r - 1 /\ 3 - q[1] = b /\ q[2] + 1 = r
    BY <2>2
  <2>5. d = <<x0 + q[1], y0 + q[2]>>
    BY <1>1, <2>7, <2>2, <2>4
  <2>6. d \in Pairs
    BY <1>1, <2>7, <2>2 DEF Pairs
  <2> HIDE DEF q
  <2> QED
    BY <1>2, <2>7, <2>3, <2>4, <2>5, <2>6
<1>6. ASSUME NEW d \in Set PROVE d \in CharDark(text, p)
  <2>1. PICK q \in (0..3) \X (0..6) :
          3 - q[1] \in BitsSet(g[q[2] + 1]) /\ d = <<x0 + q[1], y0 + q[2]>>
    BY <1>2, <1>6
  <2>2. PICK b \in 0..3, r \in 1..7 : b = 3 - q[1] /\ r = q[2] + 1
    BY <2>1
  <2>3. x0 + q[1] = x0 + 3 - b /\ y0 + q[2] = y0 + r - 1
    BY <1>1, <2>1, <2>2
  <2> QED
    BY <1>3, <2>1, <2>2, <2>3
<1>7. CharDark(text, p) = Set
  BY <1>5, <1>6
<1>8. CharDark(text, p) \in SUBSET Pairs
  BY <1>5
<1>9. ColumnOf(text, p) * CHAR_ADV = x0 /\ LineOf(text, p) * LINE_ADV = y0
  BY DEF x0, y0, CHAR_ADV, LINE_ADV
<1> HIDE DEF Set
<1>10. DrawGlyph(f, g, x0, y0) = SetPixels(f, Set)
  BY DEF DrawGlyph, Set
<1> QED
  BY <1>7, <1>8, <1>9, <1>10 DEF g

\* What is dark for the first n characters.
DarkTo(text, n) ==
  UNION {CharDark(text, p) :
           p \in {p \in 1..n : text[p] # Newline /\ LineOf(text, p) < 4}}

Shows(f, S) == \A x \in Columns, y \in Rows : Lit(f, x, y) <=> <<x, y>> \in S

LEMMA ShowsMore ==
  ASSUME NEW f, NEW S, Shows(f, S), NEW T \in SUBSET Pairs
  PROVE  Shows(SetPixels(f, T), S \cup T)
BY LitMore DEF Shows

LEMMA ShowsTurned ==
  ASSUME NEW f, NEW S, Shows(f, S), NEW x \in Columns, NEW y \in Rows
  PROVE  Lit(Flip180(f), x, y) <=> <<LCD_W - 1 - x, LCD_H - 1 - y>> \in S
<1> DEFINE On == {q \in (0..(LCD_W - 1)) \X (0..(LCD_H - 1)) : GetPixel(f, q[1], q[2])}
           Turned == {<<LCD_W - 1 - q[1], LCD_H - 1 - q[2]>> : q \in On}
<1>1. LCD_W - 1 = 47 /\ LCD_H - 1 = 31 /\ Columns = 0..47 /\ Rows = 0..31
  BY DEF LCD_W, LCD_H, Columns, Rows
<1>2. \A q \in Columns \X Rows : q \in On <=> q \in S
  <2> SUFFICES ASSUME NEW u \in Columns, NEW v \in Rows
               PROVE  <<u, v>> \in On <=> <<u, v>> \in S
    OBVIOUS
  <2>1. <<u, v>> \in On <=> GetPixel(f, u, v)
    BY <1>1
  <2>2. GetPixel(f, u, v) <=> Lit(f, u, v)
    BY <1>1, LitIs DEF GetPixel, OnScreen
  <2> QED
    BY <2>1, <2>2 DEF Shows
<1>3. \A q \in On : q \in Columns \X Rows
  BY <1>1
<1> DEFINE u == 47 - x
           v == 31 - y
<1>4. u \in Columns /\ v \in Rows /\ 47 - u = x /\ 31 - v = y
  BY <1>1
<1>5. <<x, y>> \in Turned <=> <<u, v>> \in On
  <2>1. ASSUME NEW q \in On, <<x, y>> = <<47 - q[1], 31 - q[2]>>
        PROVE  q = <<u, v>>
    <3>1. PICK a \in Columns, b \in Rows : q = <<a, b>>
      BY <1>3
    <3>2. x = 47 - a /\ y = 31 - b
      BY <2>1, <3>1
    <3>3. a = u /\ b = v
      BY <1>1, <3>2
    <3> QED
      BY <3>1, <3>3
  <2>2. ASSUME <<u, v>> \in On PROVE <<x, y>> \in Turned
    <3>1. <<u, v>>[1] = u /\ <<u, v>>[2] = v
      OBVIOUS
    <3> HIDE DEF On, u, v
    <3> QED
      BY <1>1, <1>4, <2>2, <3>1
  <2> HIDE DEF On, u, v
  <2>3. ASSUME <<x, y>> \in Turned PROVE <<u, v>> \in On
    <3>1. PICK q \in On : <<x, y>> = <<47 - q[1], 31 - q[2]>>
      BY <1>1, <2>3
    <3> QED
      BY <2>1, <3>1
  <2> QED
    BY <2>2, <2>3
<1>6. Turned \in SUBSET Pairs
  <2>1. ASSUME NEW q \in On PROVE <<47 - q[1], 31 - q[2]>> \in Pairs
    BY <1>1, <1>3 DEF Pairs
  <2> HIDE DEF On
  <2> QED
    BY <1>1, <2>1
<1>7. Flip180(f) = SetPixels({}, Turned)
  BY DEF Flip180
<1> HIDE DEF Turned, On
<1>8. Lit(Flip180(f), x, y) <=> <<x, y>> \in Turned
  BY <1>6, <1>7, LitMore, LitNothing
<1>9. <<u, v>> \in On <=> <<u, v>> \in S
  <2>1. <<u, v>> \in Columns \X Rows
    BY <1>4
  <2> QED
    BY <1>2, <2>1
<1> QED
  BY <1>1, <1>5, <1>8, <1>9 DEF u, v

TextLoop ==
  [pc : {"text", "text written"}, text : Texts, flip : BOOLEAN, p : Nat \ {0}, col : Nat,
   row : Nat]

TextInv ==
  /\ loop \in TextLoop
  /\ loop.pc = "text" =>
       /\ loop.p <= Len(loop.text) + 1
       /\ Cursor(loop.text, loop.p, loop.col, loop.row)
       /\ Shows(fb, DarkTo(loop.text, loop.p - 1))
  /\ TextAsLaidOut

LEMMA TextStarts == fb = {} /\ StartText => TextInv
<1> SUFFICES ASSUME fb = {}, NEW text \in Texts, NEW flip \in BOOLEAN,
                    loop = [pc |-> "text", text |-> text, flip |-> flip, p |-> 1,
                            col |-> 0, row |-> 0]
             PROVE  TextInv
  BY DEF StartText
<1>1. loop \in TextLoop
  BY DEF TextLoop
<1>2. loop.pc = "text" /\ loop.text = text /\ loop.p = 1 /\ loop.col = 0 /\ loop.row = 0
  OBVIOUS
<1>3. Len(text) \in Nat
  BY PicturesAssumption
<1>4. Shows({}, DarkTo(text, 0))
  <2>1. DarkTo(text, 0) = {}
    BY DEF DarkTo
  <2> QED
    BY <2>1, LitNothing DEF Shows
<1> QED
  BY <1>1, <1>2, <1>3, <1>4, CursorStarts DEF TextInv, TextAsLaidOut

\* What one more character adds.
LEMMA DarkNext ==
  ASSUME NEW text, NEW p \in Nat \ {0}
  PROVE  DarkTo(text, p) = IF text[p] # Newline /\ LineOf(text, p) < 4
                           THEN DarkTo(text, p - 1) \cup CharDark(text, p)
                           ELSE DarkTo(text, p - 1)
<1>1. 1..p = (1..(p - 1)) \cup {p}
  OBVIOUS
<1> DEFINE Shown(q) == text[q] # Newline /\ LineOf(text, q) < 4
<1>2. DarkTo(text, p) = UNION {CharDark(text, q) : q \in {q \in 1..p : Shown(q)}}
  BY DEF DarkTo
<1>3. DarkTo(text, p - 1) = UNION {CharDark(text, q) : q \in {q \in 1..(p - 1) : Shown(q)}}
  BY DEF DarkTo
<1> HIDE DEF Shown
<1>4. Shown(p) => DarkTo(text, p) = DarkTo(text, p - 1) \cup CharDark(text, p)
  BY <1>1, <1>2, <1>3
<1>5. ~Shown(p) => DarkTo(text, p) = DarkTo(text, p - 1)
  BY <1>1, <1>2, <1>3
<1> QED
  BY <1>4, <1>5 DEF Shown

\* Behind the last line nothing is displayed.
LEMMA DarkAll ==
  ASSUME NEW text \in Seq(1..255), NEW p \in Nat \ {0},
         p = Len(text) + 1 \/ (p <= Len(text) /\ LineOf(text, p) >= 4)
  PROVE  Dark(text) = DarkTo(text, p - 1)
<1> DEFINE Shown == {q \in 1..Len(text) : text[q] # Newline /\ LineOf(text, q) < 4}
           Drawn == {q \in 1..(p - 1) : text[q] # Newline /\ LineOf(text, q) < 4}
<1>1. Len(text) \in Nat
  OBVIOUS
<1>2. ASSUME NEW q \in 1..Len(text), LineOf(text, q) < 4
      PROVE  q \in 1..(p - 1)
  <2>1. p <= q => LineOf(text, p) <= LineOf(text, q)
    BY LineGrows
  <2>2. LineOf(text, p) \in Nat /\ LineOf(text, q) \in Nat
    BY LineNat
  <2> QED
    BY <1>1, <1>2, <2>1, <2>2
<1>3. \A q \in 1..(p - 1) : q \in 1..Len(text)
  BY <1>1
<1>4. Shown = Drawn
  BY <1>2, <1>3
<1>5. Dark(text) = UNION {CharDark(text, q) : q \in Shown}
  BY DEF Dark
<1>6. DarkTo(text, p - 1) = UNION {CharDark(text, q) : q \in Drawn}
  BY DEF DarkTo
<1> HIDE DEF Shown, Drawn
<1> QED
  BY <1>4, <1>5, <1>6

LEMMA TextKeeps == ASSUME TextInv, [Next]_vars PROVE TextInv'
<1> DEFINE text == loop.text
           p == loop.p
           flip == loop.flip
           Loop(pc, q, col, row) ==
             [pc |-> pc, text |-> text, flip |-> flip, p |-> q, col |-> col, row |-> row]
<1>0. flip \in BOOLEAN
  BY DEF TextInv, TextLoop
<1>15. loop.pc \in {"text", "text written"}
  BY DEF TextInv, TextLoop
<1>1. /\ text \in Texts /\ p \in Nat \ {0} /\ loop.col \in Nat /\ loop.row \in Nat
  BY DEF TextInv, TextLoop
<1>14. loop = Loop(loop.pc, p, loop.col, loop.row)
  BY DEF TextInv, TextLoop
<1>13. ASSUME NEW pc \in {"text", "text written"}, NEW q \in Nat \ {0}, NEW col \in Nat,
              NEW row \in Nat
       PROVE  Loop(pc, q, col, row) \in TextLoop
  <2> HIDE DEF text, flip
  <2> QED
    BY <1>0, <1>1, Zenon DEF TextLoop
<1>2. text \in Seq(1..255) /\ Len(text) \in Nat
  BY <1>1, PicturesAssumption
<1>3. ASSUME loop.pc = "text"
      PROVE  /\ p <= Len(text) + 1
             /\ Cursor(text, p, loop.col, loop.row)
             /\ Shows(fb, DarkTo(text, p - 1))
  BY <1>3 DEF TextInv
<1>4. p + 1 \in Nat \ {0} /\ (p + 1) - 1 = p /\ (p <= Len(text) => p + 1 <= Len(text) + 1)
  BY <1>1, <1>2
<1>5. InText <=> loop.pc = "text" /\ p <= Len(text)
  BY DEF InText
<1>6. Place(loop).row = (IF loop.col >= 9 THEN loop.row + 1 ELSE loop.row)
  <2>1. loop.col >= 9 =>
          Place(loop) = [loop EXCEPT !.col = 0, !.row = loop.row + 1]
    BY DEF Place, COLS, LCD_W, CHAR_ADV
  <2>2. ~(loop.col >= 9) => Place(loop) = loop
    BY DEF Place, COLS, LCD_W, CHAR_ADV
  <2> QED
    BY <1>14, <2>1, <2>2
<1>7. ASSUME InText, text[p] # Newline
      PROVE  /\ ColumnOf(text, p) = IF loop.col >= 9 THEN 0 ELSE loop.col
             /\ LineOf(text, p) = Place(loop).row
             /\ ColumnOf(text, p) \in 0..8 /\ LineOf(text, p) \in Nat
             /\ Cursor(text, p + 1, ColumnOf(text, p) + 1, LineOf(text, p))
  <2> HIDE DEF text, p
  <2> QED
    BY <1>1, <1>3, <1>5, <1>6, <1>7, PlaceIs, LineNat
<1>8. CASE TextNewline
  <2>1. InText /\ text[p] = Newline /\ loop.pc = "text"
    BY <1>8 DEF TextNewline, InText
  <2> DEFINE new == Loop("text", p + 1, 0, loop.row + 1)
  <2>2. loop' = new /\ fb' = fb
    BY <1>14, <1>8, <2>1 DEF TextNewline
  <2>3. new \in TextLoop
    <3> HIDE DEF p, Loop
    <3>1. 0 \in Nat /\ loop.row + 1 \in Nat
      BY <1>1
    <3> QED
      BY <1>4, <1>13, <3>1
  <2>4. Cursor(text, p + 1, 0, loop.row + 1)
    <3> HIDE DEF text, p
    <3> QED
      BY <1>1, <1>3, <2>1, NewlineIs
  <2>5. DarkTo(text, p) = DarkTo(text, p - 1)
    <3> HIDE DEF text, p
    <3> QED
      BY <1>1, <2>1, DarkNext
  <2>6. /\ loop'.pc = "text" /\ loop'.text = text /\ loop'.p = p + 1
        /\ loop'.col = 0 /\ loop'.row = loop.row + 1 /\ loop' \in TextLoop
    BY <2>2, <2>3
  <2> HIDE DEF new, text, p
  <2> QED
    BY <1>3, <1>4, <1>5, <2>1, <2>2, <2>4, <2>5, <2>6 DEF TextInv, TextAsLaidOut
<1>9. CASE TextGlyph
  <2>1. InText /\ text[p] # Newline /\ loop.pc = "text" /\ Place(loop).row < 4
    BY <1>9 DEF TextGlyph, InText, ROWS, LCD_H, LINE_ADV
  <2> DEFINE new == Loop("text", p + 1, ColumnOf(text, p) + 1, LineOf(text, p))
  <2>2. /\ Place(loop).col = ColumnOf(text, p) /\ Place(loop).row = LineOf(text, p)
        /\ Place(loop).text = text /\ Place(loop).p = p
        /\ Place(loop) = Loop("text", p, ColumnOf(text, p), LineOf(text, p))
    <3>1. Place(loop) = Loop("text", p, IF loop.col >= 9 THEN 0 ELSE loop.col,
                             IF loop.col >= 9 THEN loop.row + 1 ELSE loop.row)
      <4>1. Place(loop) = IF loop.col >= 9 THEN [loop EXCEPT !.col = 0, !.row = loop.row + 1]
                          ELSE loop
        BY DEF Place, COLS, LCD_W, CHAR_ADV
      <4> QED
        BY <1>14, <2>1, <4>1
    <3>2. /\ ColumnOf(text, p) = IF loop.col >= 9 THEN 0 ELSE loop.col
          /\ LineOf(text, p) = IF loop.col >= 9 THEN loop.row + 1 ELSE loop.row
      BY <1>6, <1>7, <2>1
    <3> QED
      BY <3>1, <3>2
  <2>3. loop' = new
    <3>1. loop' = [Place(loop) EXCEPT !.p = Place(loop).p + 1, !.col = Place(loop).col + 1]
      BY <1>9 DEF TextGlyph
    <3> DEFINE c == ColumnOf(text, p)
               r == LineOf(text, p)
    <3>2. Place(loop) = Loop("text", p, c, r) /\ Place(loop).p = p /\ Place(loop).col = c
      BY <2>2
    <3> HIDE DEF c, r, text, p, flip
    <3>3. loop' = [Loop("text", p, c, r) EXCEPT !.p = p + 1, !.col = c + 1]
      BY <3>1, <3>2
    <3>4. loop' = Loop("text", p + 1, c + 1, r)
      BY <3>3
    <3> QED
      BY <3>4 DEF c, r
  <2>4. fb' = DrawGlyph(fb, Glyph(text[p]), ColumnOf(text, p) * CHAR_ADV,
                        LineOf(text, p) * LINE_ADV)
    BY <1>9, <2>2 DEF TextGlyph
  <2>5. new \in TextLoop
    <3> HIDE DEF p, Loop
    <3>1. ColumnOf(text, p) + 1 \in Nat /\ LineOf(text, p) \in Nat
      BY <1>7, <2>1
    <3> QED
      BY <1>4, <1>13, <3>1
  <2>6. Glyph(text[p]) \in GlyphRows
    <3>1. text[p] \in 1..255
      <4> HIDE DEF text, p
      <4>1. p \in 1..Len(text)
        BY <1>1, <1>2, <1>5, <2>1
      <4> QED
        BY <1>2, <4>1, ElementOfSeq
    <3> QED
      BY <3>1, GlyphIs
  <2>7. /\ CharDark(text, p) \in SUBSET Pairs
        /\ fb' = SetPixels(fb, CharDark(text, p))
    <3> HIDE DEF text, p
    <3>1. ColumnOf(text, p) \in Int /\ LineOf(text, p) \in Int
      BY <1>7, <2>1
    <3> QED
      BY <2>4, <2>6, <3>1, GlyphDark
  <2>8. DarkTo(text, p) = DarkTo(text, p - 1) \cup CharDark(text, p)
    <3>1. LineOf(text, p) < 4
      BY <2>1, <2>2
    <3> HIDE DEF text, p
    <3> QED
      BY <1>1, <2>1, <3>1, DarkNext
  <2>9. Shows(fb', DarkTo(text, p))
    BY <1>3, <2>1, <2>7, <2>8, ShowsMore
  <2>10. /\ loop'.pc = "text" /\ loop'.text = text /\ loop'.p = p + 1
         /\ loop'.col = ColumnOf(text, p) + 1 /\ loop'.row = LineOf(text, p)
         /\ loop' \in TextLoop
    BY <2>3, <2>5
  <2> HIDE DEF new, text, p
  <2>11. Cursor(text, p + 1, ColumnOf(text, p) + 1, LineOf(text, p))
    BY <1>7, <2>1
  <2> QED
    BY <1>4, <1>5, <2>1, <2>9, <2>10, <2>11 DEF TextInv, TextAsLaidOut
<1>10. CASE TextEnds
  <2>1. loop.pc = "text"
    BY <1>10 DEF TextEnds
  <2> DEFINE new == Loop("text written", p, loop.col, loop.row)
  <2>2. loop' = new /\ fb' = IF loop.flip THEN Flip180(fb) ELSE fb
    BY <1>14, <1>10 DEF TextEnds
  <2>3. new \in TextLoop
    <3> HIDE DEF p, Loop
    <3> QED
      BY <1>1, <1>13
  <2>4. p = Len(text) + 1 \/ (p <= Len(text) /\ LineOf(text, p) >= 4)
    <3>1. CASE ~InText
      <4>1. p <= Len(text) + 1 /\ ~(p <= Len(text))
        BY <1>3, <1>5, <2>1, <3>1
      <4> HIDE DEF text, p
      <4> QED
        BY <1>1, <1>2, <4>1
    <3>2. CASE InText /\ text[p] # Newline /\ Place(loop).row >= ROWS
      BY <1>5, <1>7, <3>2 DEF ROWS, LCD_H, LINE_ADV
    <3> QED
      BY <1>10, <3>1, <3>2 DEF TextEnds
  <2>5. Dark(text) = DarkTo(text, p - 1)
    <3> HIDE DEF text, p
    <3> QED
      BY <1>1, <1>2, <2>4, DarkAll
  <2>6. Shows(fb, Dark(text))
    BY <1>3, <2>1, <2>5
  <2>7. /\ loop'.pc = "text written" /\ loop'.text = text /\ loop'.flip = loop.flip
        /\ loop' \in TextLoop
    BY <2>2, <2>3
  <2> HIDE DEF new, text, p
  <2>8. 0..(LCD_W - 1) = Columns /\ 0..(LCD_H - 1) = Rows
    BY DEF LCD_W, LCD_H, Columns, Rows
  <2>9. ASSUME NEW x \in Columns, NEW y \in Rows
        PROVE  Lit(fb', x, y) <=>
                 (IF loop.flip THEN <<LCD_W - 1 - x, LCD_H - 1 - y>> ELSE <<x, y>>) \in Dark(text)
    <3>1. CASE loop.flip
      BY <2>2, <2>6, <3>1, ShowsTurned
    <3>2. CASE ~loop.flip
      BY <2>2, <2>6, <3>2 DEF Shows
    <3> QED
      BY <3>1, <3>2
  <2>10. TextAsLaidOut'
    BY <2>7, <2>8, <2>9 DEF TextAsLaidOut
  <2> QED
    BY <2>7, <2>10 DEF TextInv
<1>11. CASE UNCHANGED vars
  BY <1>11 DEF TextInv, TextAsLaidOut, vars
<1>12. CASE WordStep \/ WordRow \/ BallFrame
  BY <1>15, <1>12 DEF WordStep, WordRow, BallFrame
<1> QED
  BY <1>8, <1>9, <1>10, <1>11, <1>12 DEF Next

-----------------------------------------------------------------------------
(* Words: how nine rows of characters are packed into six bytes.           *)

NineRows == [0..8 -> Nibble]

Byte(c, m) ==
  CASE m = 0 -> (c[0] * 8) + (c[1] \div 4)
    [] m = 1 -> ((c[1] % 4) * 64) + (c[2] * 2)
    [] m = 2 -> (c[3] * 16) + (c[4] \div 2)
    [] m = 3 -> ((c[4] % 2) * 128) + (c[5] * 4) + (c[6] \div 8)
    [] m = 4 -> ((c[6] % 8) * 32) + c[7]
    [] OTHER -> c[8] * 8

\* What bit b of a number is.
Odd(n, b) == (n \div (2^b)) % 2 = 1

LEMMA BitIs == \A n \in Nat, b \in 0..7 : b \in BitsSet(n) <=> Odd(n, b)
BY DEF BitsSet, Odd

\* The bit at place x of a row, in the byte and in the character.
Same(c, x) ==
  7 - (x % 8) \in BitsSet(Byte(c, x \div 8)) <=>
    x < 45 /\ 4 - (x % 5) \in BitsSet(c[x \div 5])

LEMMA PlacesSame == ASSUME NEW c \in NineRows, NEW x \in 0..47 PROVE Same(c, x)
<1>1. /\ c[0] \in 0..15 /\ c[1] \in 0..15 /\ c[2] \in 0..15 /\ c[3] \in 0..15
      /\ c[4] \in 0..15 /\ c[5] \in 0..15 /\ c[6] \in 0..15 /\ c[7] \in 0..15
      /\ c[8] \in 0..15
  BY DEF NineRows, Nibble
<1>2. /\ c[0] \in Nat /\ c[1] \in Nat /\ c[2] \in Nat /\ c[3] \in Nat /\ c[4] \in Nat
      /\ c[5] \in Nat /\ c[6] \in Nat /\ c[7] \in Nat /\ c[8] \in Nat
  BY <1>1
<1>3. /\ Same(c, 0) /\ Same(c, 1) /\ Same(c, 2) /\ Same(c, 3)
      /\ Same(c, 4) /\ Same(c, 5) /\ Same(c, 6) /\ Same(c, 7)
  <2> DEFINE B == (c[0] * 8) + (c[1] \div 4)
  <2>1. B \in Nat /\ Byte(c, 0) = B
    BY <1>1 DEF Byte
  <2>2. /\ Odd(B, 7) <=> Odd(c[0], 4)
        /\ Odd(B, 6) <=> Odd(c[0], 3)
        /\ Odd(B, 5) <=> Odd(c[0], 2)
        /\ Odd(B, 4) <=> Odd(c[0], 1)
        /\ Odd(B, 3) <=> Odd(c[0], 0)
        /\ Odd(B, 2) <=> Odd(c[1], 4)
        /\ Odd(B, 1) <=> Odd(c[1], 3)
        /\ Odd(B, 0) <=> Odd(c[1], 2)
    BY <1>1 DEF Odd
  <2> HIDE DEF B
  <2>3. /\ 7 \in BitsSet(B) <=> 4 \in BitsSet(c[0])
        /\ 6 \in BitsSet(B) <=> 3 \in BitsSet(c[0])
        /\ 5 \in BitsSet(B) <=> 2 \in BitsSet(c[0])
        /\ 4 \in BitsSet(B) <=> 1 \in BitsSet(c[0])
        /\ 3 \in BitsSet(B) <=> 0 \in BitsSet(c[0])
        /\ 2 \in BitsSet(B) <=> 4 \in BitsSet(c[1])
        /\ 1 \in BitsSet(B) <=> 3 \in BitsSet(c[1])
        /\ 0 \in BitsSet(B) <=> 2 \in BitsSet(c[1])
    BY <1>2, <2>1, <2>2, BitIs, SMT
  <2> QED
    BY <2>1, <2>3 DEF Same
<1>4. /\ Same(c, 8) /\ Same(c, 9) /\ Same(c, 10) /\ Same(c, 11)
      /\ Same(c, 12) /\ Same(c, 13) /\ Same(c, 14) /\ Same(c, 15)
  <2> DEFINE B == ((c[1] % 4) * 64) + (c[2] * 2)
  <2>1. B \in Nat /\ Byte(c, 1) = B
    BY <1>1 DEF Byte
  <2>2. /\ Odd(B, 7) <=> Odd(c[1], 1)
        /\ Odd(B, 6) <=> Odd(c[1], 0)
        /\ Odd(B, 5) <=> Odd(c[2], 4)
        /\ Odd(B, 4) <=> Odd(c[2], 3)
        /\ Odd(B, 3) <=> Odd(c[2], 2)
        /\ Odd(B, 2) <=> Odd(c[2], 1)
        /\ Odd(B, 1) <=> Odd(c[2], 0)
        /\ Odd(B, 0) <=> Odd(c[3], 4)
    BY <1>1 DEF Odd
  <2> HIDE DEF B
  <2>3. /\ 7 \in BitsSet(B) <=> 1 \in BitsSet(c[1])
        /\ 6 \in BitsSet(B) <=> 0 \in BitsSet(c[1])
        /\ 5 \in BitsSet(B) <=> 4 \in BitsSet(c[2])
        /\ 4 \in BitsSet(B) <=> 3 \in BitsSet(c[2])
        /\ 3 \in BitsSet(B) <=> 2 \in BitsSet(c[2])
        /\ 2 \in BitsSet(B) <=> 1 \in BitsSet(c[2])
        /\ 1 \in BitsSet(B) <=> 0 \in BitsSet(c[2])
        /\ 0 \in BitsSet(B) <=> 4 \in BitsSet(c[3])
    BY <1>2, <2>1, <2>2, BitIs, SMT
  <2> QED
    BY <2>1, <2>3 DEF Same
<1>5. /\ Same(c, 16) /\ Same(c, 17) /\ Same(c, 18) /\ Same(c, 19)
      /\ Same(c, 20) /\ Same(c, 21) /\ Same(c, 22) /\ Same(c, 23)
  <2> DEFINE B == (c[3] * 16) + (c[4] \div 2)
  <2>1. B \in Nat /\ Byte(c, 2) = B
    BY <1>1 DEF Byte
  <2>2. /\ Odd(B, 7) <=> Odd(c[3], 3)
        /\ Odd(B, 6) <=> Odd(c[3], 2)
        /\ Odd(B, 5) <=> Odd(c[3], 1)
        /\ Odd(B, 4) <=> Odd(c[3], 0)
        /\ Odd(B, 3) <=> Odd(c[4], 4)
        /\ Odd(B, 2) <=> Odd(c[4], 3)
        /\ Odd(B, 1) <=> Odd(c[4], 2)
        /\ Odd(B, 0) <=> Odd(c[4], 1)
    BY <1>1 DEF Odd
  <2> HIDE DEF B
  <2>3. /\ 7 \in BitsSet(B) <=> 3 \in BitsSet(c[3])
        /\ 6 \in BitsSet(B) <=> 2 \in BitsSet(c[3])
        /\ 5 \in BitsSet(B) <=> 1 \in BitsSet(c[3])
        /\ 4 \in BitsSet(B) <=> 0 \in BitsSet(c[3])
        /\ 3 \in BitsSet(B) <=> 4 \in BitsSet(c[4])
        /\ 2 \in BitsSet(B) <=> 3 \in BitsSet(c[4])
        /\ 1 \in BitsSet(B) <=> 2 \in BitsSet(c[4])
        /\ 0 \in BitsSet(B) <=> 1 \in BitsSet(c[4])
    BY <1>2, <2>1, <2>2, BitIs, SMT
  <2> QED
    BY <2>1, <2>3 DEF Same
<1>6. /\ Same(c, 24) /\ Same(c, 25) /\ Same(c, 26) /\ Same(c, 27)
      /\ Same(c, 28) /\ Same(c, 29) /\ Same(c, 30) /\ Same(c, 31)
  <2> DEFINE B == ((c[4] % 2) * 128) + (c[5] * 4) + (c[6] \div 8)
  <2>1. B \in Nat /\ Byte(c, 3) = B
    BY <1>1 DEF Byte
  <2>2. /\ Odd(B, 7) <=> Odd(c[4], 0)
        /\ Odd(B, 6) <=> Odd(c[5], 4)
        /\ Odd(B, 5) <=> Odd(c[5], 3)
        /\ Odd(B, 4) <=> Odd(c[5], 2)
        /\ Odd(B, 3) <=> Odd(c[5], 1)
        /\ Odd(B, 2) <=> Odd(c[5], 0)
        /\ Odd(B, 1) <=> Odd(c[6], 4)
        /\ Odd(B, 0) <=> Odd(c[6], 3)
    BY <1>1 DEF Odd
  <2> HIDE DEF B
  <2>3. /\ 7 \in BitsSet(B) <=> 0 \in BitsSet(c[4])
        /\ 6 \in BitsSet(B) <=> 4 \in BitsSet(c[5])
        /\ 5 \in BitsSet(B) <=> 3 \in BitsSet(c[5])
        /\ 4 \in BitsSet(B) <=> 2 \in BitsSet(c[5])
        /\ 3 \in BitsSet(B) <=> 1 \in BitsSet(c[5])
        /\ 2 \in BitsSet(B) <=> 0 \in BitsSet(c[5])
        /\ 1 \in BitsSet(B) <=> 4 \in BitsSet(c[6])
        /\ 0 \in BitsSet(B) <=> 3 \in BitsSet(c[6])
    BY <1>2, <2>1, <2>2, BitIs, SMT
  <2> QED
    BY <2>1, <2>3 DEF Same
<1>7. /\ Same(c, 32) /\ Same(c, 33) /\ Same(c, 34) /\ Same(c, 35)
      /\ Same(c, 36) /\ Same(c, 37) /\ Same(c, 38) /\ Same(c, 39)
  <2> DEFINE B == ((c[6] % 8) * 32) + c[7]
  <2>1. B \in Nat /\ Byte(c, 4) = B
    BY <1>1 DEF Byte
  <2>2. /\ Odd(B, 7) <=> Odd(c[6], 2)
        /\ Odd(B, 6) <=> Odd(c[6], 1)
        /\ Odd(B, 5) <=> Odd(c[6], 0)
        /\ Odd(B, 4) <=> Odd(c[7], 4)
        /\ Odd(B, 3) <=> Odd(c[7], 3)
        /\ Odd(B, 2) <=> Odd(c[7], 2)
        /\ Odd(B, 1) <=> Odd(c[7], 1)
        /\ Odd(B, 0) <=> Odd(c[7], 0)
    BY <1>1 DEF Odd
  <2> HIDE DEF B
  <2>3. /\ 7 \in BitsSet(B) <=> 2 \in BitsSet(c[6])
        /\ 6 \in BitsSet(B) <=> 1 \in BitsSet(c[6])
        /\ 5 \in BitsSet(B) <=> 0 \in BitsSet(c[6])
        /\ 4 \in BitsSet(B) <=> 4 \in BitsSet(c[7])
        /\ 3 \in BitsSet(B) <=> 3 \in BitsSet(c[7])
        /\ 2 \in BitsSet(B) <=> 2 \in BitsSet(c[7])
        /\ 1 \in BitsSet(B) <=> 1 \in BitsSet(c[7])
        /\ 0 \in BitsSet(B) <=> 0 \in BitsSet(c[7])
    BY <1>2, <2>1, <2>2, BitIs, SMT
  <2> QED
    BY <2>1, <2>3 DEF Same
<1>8. /\ Same(c, 40) /\ Same(c, 41) /\ Same(c, 42) /\ Same(c, 43)
      /\ Same(c, 44) /\ Same(c, 45) /\ Same(c, 46) /\ Same(c, 47)
  <2> DEFINE B == c[8] * 8
  <2>1. B \in Nat /\ Byte(c, 5) = B
    BY <1>1 DEF Byte
  <2>2. /\ Odd(B, 7) <=> Odd(c[8], 4)
        /\ Odd(B, 6) <=> Odd(c[8], 3)
        /\ Odd(B, 5) <=> Odd(c[8], 2)
        /\ Odd(B, 4) <=> Odd(c[8], 1)
        /\ Odd(B, 3) <=> Odd(c[8], 0)
        /\ ~Odd(B, 2)
        /\ ~Odd(B, 1)
        /\ ~Odd(B, 0)
    BY <1>1 DEF Odd
  <2> HIDE DEF B
  <2>3. /\ 7 \in BitsSet(B) <=> 4 \in BitsSet(c[8])
        /\ 6 \in BitsSet(B) <=> 3 \in BitsSet(c[8])
        /\ 5 \in BitsSet(B) <=> 2 \in BitsSet(c[8])
        /\ 4 \in BitsSet(B) <=> 1 \in BitsSet(c[8])
        /\ 3 \in BitsSet(B) <=> 0 \in BitsSet(c[8])
        /\ 2 \notin BitsSet(B)
        /\ 1 \notin BitsSet(B)
        /\ 0 \notin BitsSet(B)
    BY <1>2, <2>1, <2>2, BitIs, SMT
  <2> QED
    BY <2>1, <2>3 DEF Same
<1> QED
  BY <1>3, <1>4, <1>5, <1>6, <1>7, <1>8

-----------------------------------------------------------------------------
(* Words: one round of the inner loop.                                     *)

Places == {0, 5, 10, 15, 20, 25, 30, 35, 40, 45}

\* What byte holds when the loop comes to place i.
Partial(c, i) ==
  CASE i = 5 -> c[0] * 8
    [] i = 10 -> (c[1] % 4) * 64
    [] i = 15 -> ((c[1] % 4) * 64) + (c[2] * 2)
    [] i = 20 -> c[3] * 16
    [] i = 25 -> (c[4] % 2) * 128
    [] i = 30 -> ((c[4] % 2) * 128) + (c[5] * 4)
    [] i = 35 -> (c[6] % 8) * 32
    [] i = 45 -> c[8] * 8
    [] OTHER -> 0

\* WordStep's numbers, under the names they have there.
Old(i) == (i % 8) - 3
After(i) == i + (IF Old(i) > 0 THEN 8 - (i % 8) ELSE 5)
Full(i) == After(i) % 8 = 0
Put(ch, i, byte) ==
  byte + (IF i <= 40 THEN (Kept(ch, i) * 8) \div (2 ^ (i % 8)) ELSE 0)
Left(ch, i) == IF Old(i) > 0 /\ i <= 40 THEN Rest(ch, i) ELSE 0
Following(i) == After(i) + (IF Old(i) > 0 THEN Old(i) ELSE 0)

LEMMA FollowingIs ==
  /\ \A i \in Places : Following(i) = i + 5
  /\ \A i \in Places : Full(i) <=> i \in {5, 15, 20, 30, 35, 45}
  /\ \A i \in Places : IF Full(i) THEN (i + 5) \div 8 = (i \div 8) + 1
                       ELSE (i + 5) \div 8 = i \div 8
BY DEF Places, Following, Full, After, Old

LEMMA KeptIs ==
  ASSUME NEW ch \in Nibble
  PROVE  /\ Kept(ch, 0) = ch /\ Kept(ch, 10) = ch /\ Kept(ch, 25) = ch
         /\ Kept(ch, 35) = ch /\ Kept(ch, 40) = ch
         /\ Kept(ch, 5) = (ch \div 4) * 4 /\ Kept(ch, 15) = (ch \div 16) * 16
         /\ Kept(ch, 20) = (ch \div 2) * 2 /\ Kept(ch, 30) = (ch \div 8) * 8
<1>1. /\ 8 - (0 % 8) > 4 /\ 8 - (10 % 8) > 4 /\ 8 - (25 % 8) > 4 /\ 8 - (35 % 8) > 4
      /\ 8 - (40 % 8) > 4
      /\ ~(8 - (5 % 8) > 4) /\ ~(8 - (15 % 8) > 4) /\ ~(8 - (20 % 8) > 4)
      /\ ~(8 - (30 % 8) > 4)
  OBVIOUS
<1>2. /\ (5 % 8) - 3 = 2 /\ (15 % 8) - 3 = 4 /\ (20 % 8) - 3 = 1 /\ (30 % 8) - 3 = 3
      /\ 2^2 = 4 /\ 2^4 = 16 /\ 2^1 = 2 /\ 2^3 = 8
  OBVIOUS
<1> QED
  BY <1>1, <1>2, Zenon DEF Kept

LEMMA PutIs ==
  ASSUME NEW ch \in Nibble, NEW byte \in Nat
  PROVE  /\ Put(ch, 0, byte) = byte + ch * 8
         /\ Put(ch, 5, byte) = byte + ch \div 4
         /\ Put(ch, 10, byte) = byte + ch * 2
         /\ Put(ch, 15, byte) = byte
         /\ Put(ch, 20, byte) = byte + ch \div 2
         /\ Put(ch, 25, byte) = byte + ch * 4
         /\ Put(ch, 30, byte) = byte + ch \div 8
         /\ Put(ch, 35, byte) = byte + ch
         /\ Put(ch, 40, byte) = byte + ch * 8
         /\ Put(ch, 45, byte) = byte
<1>1. Put(ch, 0, byte) = byte + ch * 8
  <2>1. 0 % 8 = 0 /\ 2^0 = 1 /\ 0 <= 40
    OBVIOUS
  <2>2. (ch * 8) \div 1 = ch * 8 /\ byte + 0 = byte
    BY DEF Nibble
  <2>3. Kept(ch, 0) = ch
    BY KeptIs
  <2> QED
    BY <2>1, <2>2, <2>3, Zenon DEF Put
<1>2. Put(ch, 5, byte) = byte + ch \div 4
  <2>1. 5 % 8 = 5 /\ 2^5 = 32 /\ 5 <= 40
    OBVIOUS
  <2>2. (((ch \div 4) * 4) * 8) \div 32 = ch \div 4 /\ byte + 0 = byte
    BY DEF Nibble
  <2>3. Kept(ch, 5) = (ch \div 4) * 4
    BY KeptIs
  <2> QED
    BY <2>1, <2>2, <2>3, Zenon DEF Put
<1>3. Put(ch, 10, byte) = byte + ch * 2
  <2>1. 10 % 8 = 2 /\ 2^2 = 4 /\ 10 <= 40
    OBVIOUS
  <2>2. (ch * 8) \div 4 = ch * 2 /\ byte + 0 = byte
    BY DEF Nibble
  <2>3. Kept(ch, 10) = ch
    BY KeptIs
  <2> QED
    BY <2>1, <2>2, <2>3, Zenon DEF Put
<1>4. Put(ch, 15, byte) = byte
  <2>1. 15 % 8 = 7 /\ 2^7 = 128 /\ 15 <= 40
    OBVIOUS
  <2>2. (((ch \div 16) * 16) * 8) \div 128 = 0 /\ byte + 0 = byte
    BY DEF Nibble
  <2>3. Kept(ch, 15) = (ch \div 16) * 16
    BY KeptIs
  <2> QED
    BY <2>1, <2>2, <2>3, Zenon DEF Put
<1>5. Put(ch, 20, byte) = byte + ch \div 2
  <2>1. 20 % 8 = 4 /\ 2^4 = 16 /\ 20 <= 40
    OBVIOUS
  <2>2. (((ch \div 2) * 2) * 8) \div 16 = ch \div 2 /\ byte + 0 = byte
    BY DEF Nibble
  <2>3. Kept(ch, 20) = (ch \div 2) * 2
    BY KeptIs
  <2> QED
    BY <2>1, <2>2, <2>3, Zenon DEF Put
<1>6. Put(ch, 25, byte) = byte + ch * 4
  <2>1. 25 % 8 = 1 /\ 2^1 = 2 /\ 25 <= 40
    OBVIOUS
  <2>2. (ch * 8) \div 2 = ch * 4 /\ byte + 0 = byte
    BY DEF Nibble
  <2>3. Kept(ch, 25) = ch
    BY KeptIs
  <2> QED
    BY <2>1, <2>2, <2>3, Zenon DEF Put
<1>7. Put(ch, 30, byte) = byte + ch \div 8
  <2>1. 30 % 8 = 6 /\ 2^6 = 64 /\ 30 <= 40
    OBVIOUS
  <2>2. (((ch \div 8) * 8) * 8) \div 64 = ch \div 8 /\ byte + 0 = byte
    BY DEF Nibble
  <2>3. Kept(ch, 30) = (ch \div 8) * 8
    BY KeptIs
  <2> QED
    BY <2>1, <2>2, <2>3, Zenon DEF Put
<1>8. Put(ch, 35, byte) = byte + ch
  <2>1. 35 % 8 = 3 /\ 2^3 = 8 /\ 35 <= 40
    OBVIOUS
  <2>2. (ch * 8) \div 8 = ch /\ byte + 0 = byte
    BY DEF Nibble
  <2>3. Kept(ch, 35) = ch
    BY KeptIs
  <2> QED
    BY <2>1, <2>2, <2>3, Zenon DEF Put
<1>9. Put(ch, 40, byte) = byte + ch * 8
  <2>1. 40 % 8 = 0 /\ 2^0 = 1 /\ 40 <= 40
    OBVIOUS
  <2>2. (ch * 8) \div 1 = ch * 8 /\ byte + 0 = byte
    BY DEF Nibble
  <2>3. Kept(ch, 40) = ch
    BY KeptIs
  <2> QED
    BY <2>1, <2>2, <2>3, Zenon DEF Put
<1>10. Put(ch, 45, byte) = byte
  BY DEF Put
<1> QED
  BY <1>1, <1>2, <1>3, <1>4, <1>5, <1>6, <1>7, <1>8, <1>9, <1>10

LEMMA LeftIs ==
  ASSUME NEW ch \in Nibble
  PROVE  /\ Left(ch, 0) = 0 /\ Left(ch, 10) = 0 /\ Left(ch, 25) = 0 /\ Left(ch, 35) = 0
         /\ Left(ch, 40) = 0 /\ Left(ch, 45) = 0
         /\ Left(ch, 5) = (ch % 4) * 64 /\ Left(ch, 15) = ch * 16
         /\ Left(ch, 20) = (ch % 2) * 128 /\ Left(ch, 30) = (ch % 8) * 32
<1>1. /\ ~(Old(0) > 0) /\ ~(Old(10) > 0) /\ ~(Old(25) > 0) /\ ~(Old(35) > 0)
      /\ ~(Old(40) > 0) /\ Old(5) > 0 /\ Old(15) > 0 /\ Old(20) > 0 /\ Old(30) > 0
      /\ ~(45 <= 40) /\ 5 <= 40 /\ 15 <= 40 /\ 20 <= 40 /\ 30 <= 40
  BY DEF Old
<1>2. Rest(ch, 5) = (ch % 4) * 64
  <2>1. Kept(ch, 5) = (ch \div 4) * 4
    BY KeptIs
  <2>2. 8 - ((5 % 8) - 3) = 6 /\ 2^6 = 64
    OBVIOUS
  <2>3. (ch - ((ch \div 4) * 4)) * 64 = (ch % 4) * 64
    BY DEF Nibble
  <2> QED
    BY <2>1, <2>2, <2>3, Zenon DEF Rest
<1>3. Rest(ch, 15) = ch * 16
  <2>1. Kept(ch, 15) = (ch \div 16) * 16
    BY KeptIs
  <2>2. 8 - ((15 % 8) - 3) = 4 /\ 2^4 = 16
    OBVIOUS
  <2>3. (ch - ((ch \div 16) * 16)) * 16 = ch * 16
    BY DEF Nibble
  <2> QED
    BY <2>1, <2>2, <2>3, Zenon DEF Rest
<1>4. Rest(ch, 20) = (ch % 2) * 128
  <2>1. Kept(ch, 20) = (ch \div 2) * 2
    BY KeptIs
  <2>2. 8 - ((20 % 8) - 3) = 7 /\ 2^7 = 128
    OBVIOUS
  <2>3. (ch - ((ch \div 2) * 2)) * 128 = (ch % 2) * 128
    BY DEF Nibble
  <2> QED
    BY <2>1, <2>2, <2>3, Zenon DEF Rest
<1>5. Rest(ch, 30) = (ch % 8) * 32
  <2>1. Kept(ch, 30) = (ch \div 8) * 8
    BY KeptIs
  <2>2. 8 - ((30 % 8) - 3) = 5 /\ 2^5 = 32
    OBVIOUS
  <2>3. (ch - ((ch \div 8) * 8)) * 32 = (ch % 8) * 32
    BY DEF Nibble
  <2> QED
    BY <2>1, <2>2, <2>3, Zenon DEF Rest
<1> QED
  BY <1>1, <1>2, <1>3, <1>4, <1>5, Zenon DEF Left

LEMMA PartialNat == ASSUME NEW c \in NineRows, NEW i PROVE Partial(c, i) \in Nat
<1>1. /\ c[0] \in 0..15 /\ c[1] \in 0..15 /\ c[2] \in 0..15 /\ c[3] \in 0..15
      /\ c[4] \in 0..15 /\ c[5] \in 0..15 /\ c[6] \in 0..15 /\ c[8] \in 0..15
  BY DEF NineRows, Nibble
<1>2. /\ c[0] * 8 \in Nat /\ (c[1] % 4) * 64 \in Nat /\ c[3] * 16 \in Nat
      /\ ((c[1] % 4) * 64) + (c[2] * 2) \in Nat /\ (c[4] % 2) * 128 \in Nat
      /\ ((c[4] % 2) * 128) + (c[5] * 4) \in Nat /\ (c[6] % 8) * 32 \in Nat
      /\ c[8] * 8 \in Nat /\ 0 \in Nat
  <2>1. /\ c[0] \in Nat /\ c[1] % 4 \in Nat /\ c[2] \in Nat /\ c[3] \in Nat
        /\ c[4] % 2 \in Nat /\ c[5] \in Nat /\ c[6] % 8 \in Nat /\ c[8] \in Nat
    BY <1>1
  <2>2. /\ (c[1] % 4) * 64 \in Nat /\ (c[4] % 2) * 128 \in Nat /\ (c[6] % 8) * 32 \in Nat
        /\ c[0] * 8 \in Nat /\ c[3] * 16 \in Nat /\ c[8] * 8 \in Nat /\ c[2] * 2 \in Nat
        /\ c[5] * 4 \in Nat
    BY <2>1
  <2> QED
    BY <2>2
<1> QED
  BY <1>2, Zenon DEF Partial

\* What the round at place i prints and keeps.
LEMMA PackIs ==
  ASSUME NEW c \in NineRows, NEW i \in Places, NEW ch \in Nibble,
         i < 45 => ch = c[i \div 5]
  PROVE  LET put == Put(ch, i, Partial(c, i)) IN
         IF Full(i) THEN /\ put = Byte(c, i \div 8) /\ put \in 0..255
                         /\ Left(ch, i) = Partial(c, i + 5)
         ELSE put + Left(ch, i) = Partial(c, i + 5)
<1>1. /\ c[0] \in 0..15 /\ c[1] \in 0..15 /\ c[2] \in 0..15 /\ c[3] \in 0..15
      /\ c[4] \in 0..15 /\ c[5] \in 0..15 /\ c[6] \in 0..15 /\ c[7] \in 0..15
      /\ c[8] \in 0..15
  BY DEF NineRows, Nibble
<1> DEFINE byte == Partial(c, i)
<1>2. byte \in Nat
  BY PartialNat
<1>3. Full(i) <=> i \in {5, 15, 20, 30, 35, 45}
  BY FollowingIs
<1>4. CASE i = 0
  BY <1>1, <1>2, <1>3, <1>4, PutIs, LeftIs DEF Partial
<1>5. CASE i = 5
  BY <1>1, <1>2, <1>3, <1>5, PutIs, LeftIs DEF Partial, Byte
<1>6. CASE i = 10
  BY <1>1, <1>2, <1>3, <1>6, PutIs, LeftIs DEF Partial
<1>7. CASE i = 15
  BY <1>1, <1>2, <1>3, <1>7, PutIs, LeftIs DEF Partial, Byte
<1>8. CASE i = 20
  BY <1>1, <1>2, <1>3, <1>8, PutIs, LeftIs DEF Partial, Byte
<1>9. CASE i = 25
  BY <1>1, <1>2, <1>3, <1>9, PutIs, LeftIs DEF Partial
<1>10. CASE i = 30
  BY <1>1, <1>2, <1>3, <1>10, PutIs, LeftIs DEF Partial, Byte
<1>11. CASE i = 35
  BY <1>1, <1>2, <1>3, <1>11, PutIs, LeftIs DEF Partial, Byte
<1>12. CASE i = 40
  BY <1>1, <1>2, <1>3, <1>12, PutIs, LeftIs DEF Partial
<1>13. CASE i = 45
  BY <1>1, <1>2, <1>3, <1>13, PutIs, LeftIs DEF Partial, Byte
<1> QED
  BY <1>4, <1>5, <1>6, <1>7, <1>8, <1>9, <1>10, <1>11, <1>12, <1>13 DEF Places

-----------------------------------------------------------------------------
(* Words: the rows.                                                        *)

IsWord(word) == word \in Seq(LetterCodes \cup {Space})

\* The rows of the nine characters that row j of the picture shows.
Chars(word, j) ==
  [k \in 0..8 |-> LET q == ((j \div 7) * 9) + k + 1
                  IN  IF q <= Len(word) THEN RowOf(word[q], j) ELSE 0]

LEMMA CharsAre ==
  ASSUME NEW word, IsWord(word), NEW j \in Nat
  PROVE  Chars(word, j) \in NineRows
<1> SUFFICES ASSUME NEW k \in 0..8
             PROVE  (LET q == ((j \div 7) * 9) + k + 1
                     IN  IF q <= Len(word) THEN RowOf(word[q], j) ELSE 0) \in Nibble
  BY DEF Chars, NineRows
<1> DEFINE q == ((j \div 7) * 9) + k + 1
<1>1. q \in Nat \ {0} /\ (j % 7) + 1 \in 1..7 /\ 0 \in Nibble
  BY DEF Nibble
<1>2. ASSUME q <= Len(word) PROVE RowOf(word[q], j) \in Nibble
  <2>1. word[q] \in LetterCodes \cup {Space}
    <3>1. q \in 1..Len(word)
      BY <1>1, <1>2 DEF IsWord
    <3> HIDE DEF q
    <3> QED
      BY <3>1, ElementOfSeq DEF IsWord
  <2> HIDE DEF q
  <2>2. CASE word[q] = Space
    BY <1>1, <2>2, BlankIs DEF RowOf, GlyphRows
  <2>3. CASE word[q] # Space
    <3>1. word[q] - 64 \in 1..26
      BY <2>1, <2>3 DEF LetterCodes
    <3>2. ALPHABET[word[q] - 64] \in GlyphRows
      BY <3>1, LettersAre
    <3> QED
      BY <1>1, <2>3, <3>2 DEF RowOf, GlyphRows
  <2> QED
    BY <2>2, <2>3
<1> QED
  BY <1>1, <1>2

ByteAt(word, k) == Byte(Chars(word, k \div 6), k % 6)

\* The first n bytes are there and nothing else.
Filled(f, word, n) ==
  \A k \in Nat, b \in 0..7 : <<k, b>> \in f <=> k < n /\ b \in BitsSet(ByteAt(word, k))

LEMMA FilledMore ==
  ASSUME NEW f, NEW word, NEW n \in Nat, Filled(f, word, n)
  PROVE  Filled(f \cup {<<n, b>> : b \in BitsSet(ByteAt(word, n))}, word, n + 1)
<1> DEFINE More == {<<n, b>> : b \in BitsSet(ByteAt(word, n))}
<1> SUFFICES ASSUME NEW k \in Nat, NEW b \in 0..7
             PROVE  <<k, b>> \in f \cup More <=> k < n + 1 /\ b \in BitsSet(ByteAt(word, k))
  BY DEF Filled
<1>1. <<k, b>> \in More <=> k = n /\ b \in BitsSet(ByteAt(word, n))
  OBVIOUS
<1>2. <<k, b>> \in f <=> k < n /\ b \in BitsSet(ByteAt(word, k))
  BY DEF Filled
<1>3. k < n + 1 <=> k < n \/ k = n
  OBVIOUS
<1> HIDE DEF More
<1> QED
  BY <1>1, <1>2, <1>3

\* The characters that were looked for so far, in this row and those above.
Seen(i, j) ==
  ((j \div 7) * 9) + (IF j % 7 = 0 /\ i < 45 THEN i \div 5 ELSE 9)

\* Where the word ends, once it was seen.
Scanned(word, i, j, rel, stop) ==
  /\ stop \in {-1, Len(word)}
  /\ stop = -1 => Seen(i, j) <= Len(word)
  /\ rel = IF i = 0 THEN (IF j = 0 THEN -1 ELSE 8)
           ELSE IF i < 45 THEN (i \div 5) - 1 ELSE 8

NextRel(i, rel) == IF i % 5 = 0 /\ i < 45 THEN (rel + 1) % 9 ELSE rel
Absolute(i, j, rel) == NextRel(i, rel) + ((j \div 7) * 9)
NextStop(word, i, j, rel, stop) ==
  IF stop = -1 /\ Absolute(i, j, rel) = Len(word) THEN Absolute(i, j, rel) ELSE stop
Character(word, i, j, rel, stop) ==
  IF (NextStop(word, i, j, rel, stop) = -1
        \/ Absolute(i, j, rel) < NextStop(word, i, j, rel, stop)) /\ i < 45
  THEN RowOf(word[Absolute(i, j, rel) + 1], j) ELSE 0

LEMMA ScanStep ==
  ASSUME NEW word, IsWord(word), NEW i \in Places, NEW j \in Nat, NEW rel, NEW stop,
         Scanned(word, i, j, rel, stop)
  PROVE  /\ Scanned(word, i + 5, j, NextRel(i, rel), NextStop(word, i, j, rel, stop))
         /\ Character(word, i, j, rel, stop) \in Nibble
         /\ i < 45 => Character(word, i, j, rel, stop) = Chars(word, j)[i \div 5]
<1> DEFINE abs == Absolute(i, j, rel)
           stop2 == NextStop(word, i, j, rel, stop)
           base == (j \div 7) * 9
<1>1. Len(word) \in Nat /\ base \in Nat
  BY DEF IsWord
<1>2. /\ i + 5 \in Nat /\ (i + 5) \div 5 = (i \div 5) + 1 /\ i + 5 # 0 /\ i \in Nat
      /\ i < 45 => i \div 5 \in 0..8
      /\ i < 45 /\ ~(i + 5 < 45) => i \div 5 = 8
      /\ ~(i < 45) => ~(i + 5 < 45)
  BY DEF Places
<1>3. NextRel(i, rel) = IF i < 45 THEN i \div 5 ELSE 8
  <2>1. i % 5 = 0
    BY DEF Places
  <2>2. ASSUME i < 45 PROVE (rel + 1) % 9 = i \div 5
    BY <1>2, <2>2 DEF Scanned, Places
  <2>3. ASSUME ~(i < 45) PROVE rel = 8
    BY <1>2, <2>3 DEF Scanned, Places
  <2> QED
    BY <2>1, <2>2, <2>3 DEF NextRel
<1>4. abs = base + IF i < 45 THEN i \div 5 ELSE 8
  BY <1>1, <1>2, <1>3 DEF Absolute
<1>5. abs \in Nat
  BY <1>1, <1>2, <1>4
<1>6. stop = -1 => Seen(i, j) <= Len(word)
  BY DEF Scanned
<1>7. stop \in {-1, Len(word)}
  BY DEF Scanned
<1>8. stop2 = IF stop = -1 /\ abs = Len(word) THEN abs ELSE stop
  BY DEF NextStop
<1>9. Seen(i, j) = base + (IF j % 7 = 0 /\ i < 45 THEN i \div 5 ELSE 9)
  BY DEF Seen
<1>10. Seen(i + 5, j) = base + (IF j % 7 = 0 /\ i + 5 < 45 THEN (i \div 5) + 1 ELSE 9)
  BY <1>2 DEF Seen
<1> HIDE DEF abs, stop2, base
<1>11. stop2 \in {-1, Len(word)}
  BY <1>7, <1>8
<1>12. stop2 = -1 => abs < Len(word) /\ Seen(i + 5, j) <= Len(word)
  BY <1>1, <1>2, <1>4, <1>5, <1>6, <1>7, <1>8, <1>9, <1>10
<1>13. Scanned(word, i + 5, j, NextRel(i, rel), stop2)
  <2>1. NextRel(i, rel) = IF i + 5 = 0 THEN (IF j = 0 THEN -1 ELSE 8)
                          ELSE IF i + 5 < 45 THEN ((i + 5) \div 5) - 1 ELSE 8
    BY <1>2, <1>3
  <2> QED
    BY <1>11, <1>12, <2>1 DEF Scanned
<1>14. Character(word, i, j, rel, stop)
         = IF (stop2 = -1 \/ abs < stop2) /\ i < 45 THEN RowOf(word[abs + 1], j) ELSE 0
  BY DEF Character, abs, stop2
<1>15. ASSUME i < 45
       PROVE  /\ Character(word, i, j, rel, stop) = Chars(word, j)[i \div 5]
              /\ Chars(word, j)[i \div 5] \in Nibble
  <2>1. Chars(word, j)[i \div 5]
          = IF abs + 1 <= Len(word) THEN RowOf(word[abs + 1], j) ELSE 0
    <3>1. i \div 5 \in 0..8 /\ base + (i \div 5) + 1 = abs + 1
      BY <1>1, <1>2, <1>4, <1>15
    <3> QED
      BY <3>1 DEF Chars, base
  <2>2. (stop2 = -1 \/ abs < stop2) <=> abs + 1 <= Len(word)
    BY <1>1, <1>5, <1>11, <1>12
  <2>3. Chars(word, j)[i \div 5] \in Nibble
    BY <1>2, <1>15, CharsAre DEF NineRows
  <2> QED
    BY <1>14, <1>15, <2>1, <2>2, <2>3
<1>16. ASSUME ~(i < 45) PROVE Character(word, i, j, rel, stop) \in Nibble
  BY <1>14, <1>16 DEF Nibble
<1> QED
  BY <1>13, <1>15, <1>16 DEF stop2

-----------------------------------------------------------------------------
(* Words: the picture.                                                     *)

WordLoop ==
  [pc : {"word", "word written"}, word : Words, i : Places \cup {50}, j : 0..32,
   rel_char_pos : Int, stop_pos : Int, byte : Nat, printed : Nat]

WordInv ==
  /\ loop \in WordLoop
  /\ loop.pc = "word" => loop.j \in 0..31
  /\ loop.pc = "word written" => loop.j = 32 /\ loop.i = 0
  /\ Scanned(loop.word, loop.i, loop.j, loop.rel_char_pos, loop.stop_pos)
  /\ loop.byte = Partial(Chars(loop.word, loop.j), loop.i)
  /\ loop.printed = (6 * loop.j) + (loop.i \div 8)
  /\ Filled(fb, loop.word, loop.printed)

LEMMA WordStarts == fb = {} /\ StartWord => WordInv
<1> SUFFICES ASSUME fb = {}, NEW word \in Words,
                    loop = [pc |-> "word", word |-> word, i |-> 0, j |-> 0,
                            rel_char_pos |-> -1, stop_pos |-> -1, byte |-> 0, printed |-> 0]
             PROVE  WordInv
  BY DEF StartWord
<1>1. /\ loop.pc = "word" /\ loop.word = word /\ loop.i = 0 /\ loop.j = 0
      /\ loop.rel_char_pos = -1 /\ loop.stop_pos = -1 /\ loop.byte = 0 /\ loop.printed = 0
  OBVIOUS
<1>2. loop \in WordLoop
  <2>1. 0 \in Places \cup {50} /\ 0 \in 0..32 /\ -1 \in Int /\ 0 \in Nat
    BY DEF Places
  <2> QED
    BY <2>1, Zenon DEF WordLoop
<1>3. Len(word) \in Nat
  BY PicturesAssumption
<1>4. Scanned(word, 0, 0, -1, -1)
  BY <1>3 DEF Scanned, Seen
<1>5. Partial(Chars(word, 0), 0) = 0
  BY DEF Partial
<1>6. Filled({}, word, 0)
  BY DEF Filled
<1>7. 0 = (6 * 0) + (0 \div 8) /\ 0 \in 0..31
  OBVIOUS
<1> QED
  BY <1>1, <1>2, <1>4, <1>5, <1>6, <1>7, Zenon DEF WordInv

\* WordStep, with its numbers under names.
LEMMA StepIs ==
  ASSUME WordStep
  PROVE  LET ch == Character(loop.word, loop.i, loop.j, loop.rel_char_pos, loop.stop_pos)
             put == Put(ch, loop.i, loop.byte)
         IN  /\ loop.i < 48 /\ loop.pc = "word"
             /\ IF Full(loop.i) THEN PutByte(put) ELSE UNCHANGED fb
             /\ loop' = [loop EXCEPT
                  !.rel_char_pos = NextRel(loop.i, loop.rel_char_pos),
                  !.stop_pos = NextStop(loop.word, loop.i, loop.j, loop.rel_char_pos,
                                        loop.stop_pos),
                  !.byte = (IF Full(loop.i) THEN 0 ELSE put) + Left(ch, loop.i),
                  !.printed = loop.printed + (IF Full(loop.i) THEN 1 ELSE 0),
                  !.i = Following(loop.i)]
BY Zenon DEF WordStep, Character, Put, Full, NextRel, NextStop, Absolute, Left, Following,
   After, Old

LEMMA WordKeeps == ASSUME WordInv, [Next]_vars PROVE WordInv'
<1> DEFINE word == loop.word
           i == loop.i
           j == loop.j
           rel == loop.rel_char_pos
           stop == loop.stop_pos
           byte == loop.byte
           printed == loop.printed
           c == Chars(word, j)
           Loop(pc, i2, j2, rel2, stop2, byte2, printed2) ==
             [pc |-> pc, word |-> word, i |-> i2, j |-> j2, rel_char_pos |-> rel2,
              stop_pos |-> stop2, byte |-> byte2, printed |-> printed2]
<1>1. /\ word \in Words /\ i \in Places \cup {50} /\ j \in 0..32 /\ rel \in Int
      /\ stop \in Int /\ byte \in Nat /\ printed \in Nat
  BY DEF WordInv, WordLoop
<1>2. loop.pc \in {"word", "word written"}
  BY DEF WordInv, WordLoop
<1>3. loop = Loop(loop.pc, i, j, rel, stop, byte, printed)
  BY DEF WordInv, WordLoop
<1>4. loop.pc = "word" => j \in 0..31
  BY DEF WordInv
<1>5. /\ Scanned(word, i, j, rel, stop)
      /\ byte = Partial(c, i)
      /\ printed = (6 * j) + (i \div 8)
      /\ Filled(fb, word, printed)
  BY DEF WordInv
<1>6. IsWord(word) /\ Len(word) \in Nat
  BY <1>1, PicturesAssumption DEF IsWord
<1>7. j \in Nat /\ c \in NineRows
  <2>1. j \in Nat
    BY <1>1
  <2> QED
    BY <1>6, <2>1, CharsAre
<1>8. CASE WordStep
  <2> DEFINE ch == Character(word, i, j, rel, stop)
             put == Put(ch, i, byte)
             rel2 == NextRel(i, rel)
             stop2 == NextStop(word, i, j, rel, stop)
             byte2 == (IF Full(i) THEN 0 ELSE put) + Left(ch, i)
             printed2 == printed + (IF Full(i) THEN 1 ELSE 0)
  <2>1. /\ i < 48 /\ loop.pc = "word"
        /\ IF Full(i) THEN PutByte(put) ELSE UNCHANGED fb
        /\ loop' = [loop EXCEPT !.rel_char_pos = rel2, !.stop_pos = stop2, !.byte = byte2,
                                !.printed = printed2, !.i = Following(i)]
    BY <1>8, StepIs
  <2>2. i \in Places /\ i \in Nat
    <3>1. i # 50
      BY <2>1
    <3> QED
      BY <1>1, <3>1 DEF Places
  <2>3. Following(i) = i + 5 /\ i + 5 \in Places \cup {50}
    BY <2>2, FollowingIs DEF Places
  <2>4. /\ Scanned(word, i + 5, j, rel2, stop2)
        /\ ch \in Nibble /\ (i < 45 => ch = c[i \div 5])
    <3> HIDE DEF word, i, j, rel, stop
    <3> QED
      BY <1>5, <1>6, <1>7, <2>2, ScanStep
  <2>5. IF Full(i) THEN /\ put = Byte(c, i \div 8) /\ put \in 0..255
                        /\ Left(ch, i) = Partial(c, i + 5)
        ELSE put + Left(ch, i) = Partial(c, i + 5)
    <3> HIDE DEF i, c, ch, byte
    <3> QED
      BY <1>5, <1>7, <2>2, <2>4, PackIs
  <2>6. Partial(c, i + 5) \in Nat
    <3> HIDE DEF i, c
    <3> QED
      BY <1>7, <2>3, PartialNat
  <2>7. byte2 = Partial(c, i + 5) /\ byte2 \in Nat
    BY <2>5, <2>6
  <2>8. printed2 = (6 * j) + ((i + 5) \div 8) /\ printed2 \in Nat
    <3>1. IF Full(i) THEN (i + 5) \div 8 = (i \div 8) + 1 ELSE (i + 5) \div 8 = i \div 8
      BY <2>2, FollowingIs
    <3>2. i \div 8 \in Nat
      BY <2>2
    <3> HIDE DEF i, j
    <3> QED
      BY <1>1, <1>5, <1>7, <3>1, <3>2
  <2>9. Filled(fb', word, printed2)
    <3>1. CASE Full(i)
      <4>1. put % 256 = put /\ put = Byte(c, i \div 8)
        BY <2>5, <3>1
      <4>2. printed \div 6 = j /\ printed % 6 = i \div 8
        <5>1. i \div 8 \in 0..5
          BY <2>2 DEF Places
        <5> HIDE DEF i, j
        <5> QED
          BY <1>5, <1>7, <5>1
      <4>3. put = ByteAt(word, printed)
        BY <4>1, <4>2 DEF ByteAt
      <4>4. fb' = fb \cup {<<printed, b>> : b \in BitsSet(ByteAt(word, printed))}
        <5> HIDE DEF put
        <5>1. fb' = fb \cup {<<printed, b>> : b \in BitsSet(put % 256)}
          BY <2>1, <3>1 DEF PutByte
        <5> QED
          BY <4>1, <4>3, <5>1
      <4> HIDE DEF word, printed
      <4> QED
        BY <1>1, <1>5, <3>1, <4>4, FilledMore
    <3>2. CASE ~Full(i)
      <4>1. printed2 = printed
        BY <1>1, <3>2
      <4> QED
        BY <1>5, <2>1, <3>2, <4>1
    <3> QED
      BY <3>1, <3>2
  <2>10. rel2 \in Int /\ stop2 \in Int
    BY <1>6, <2>3, <2>4 DEF Scanned, Places
  <2> HIDE DEF ch, put, rel2, stop2, byte2, printed2
  <2>11. loop' = Loop("word", i + 5, j, rel2, stop2, byte2, printed2)
    <3>1. loop = Loop("word", i, j, rel, stop, byte, printed)
      BY <1>3, <2>1
    <3> HIDE DEF word, i, j, rel, stop, byte, printed
    <3> QED
      BY <2>1, <2>3, <3>1
  <2>12. loop' \in WordLoop
    <3> DEFINE i2 == i + 5
    <3>1. i2 \in Places \cup {50} /\ loop' = Loop("word", i2, j, rel2, stop2, byte2, printed2)
      BY <2>3, <2>11
    <3>2. "word" \in {"word", "word written"}
      OBVIOUS
    <3> HIDE DEF word, i, j, i2
    <3> QED
      BY <1>1, <2>7, <2>8, <2>10, <3>1, <3>2, Zenon DEF WordLoop
  <2>13. /\ loop'.pc = "word" /\ loop'.word = word /\ loop'.i = i + 5 /\ loop'.j = j
         /\ loop'.rel_char_pos = rel2 /\ loop'.stop_pos = stop2 /\ loop'.byte = byte2
         /\ loop'.printed = printed2
    BY <2>11
  <2> HIDE DEF Loop, word, i, j
  <2> QED
    BY <1>4, <2>1, <2>4, <2>7, <2>8, <2>9, <2>12, <2>13 DEF WordInv, c
<1>9. CASE WordRow
  <2> DEFINE pc2 == IF j = 31 THEN "word written" ELSE "word"
  <2>1. loop.pc = "word" /\ i >= 48 /\ fb' = fb
    BY <1>9 DEF WordRow
  <2>2. i = 50
    BY <1>1, <2>1 DEF Places
  <2>3. loop' = Loop(pc2, 0, j + 1, rel, stop, byte, printed)
    <3>1. loop' = [loop EXCEPT !.i = 0, !.j = j + 1, !.pc = pc2]
      BY <1>9 DEF WordRow
    <3> DEFINE pc == loop.pc
               j2 == j + 1
    <3>2. loop = Loop(pc, i, j, rel, stop, byte, printed)
      BY <1>3
    <3> HIDE DEF pc, pc2, j2, word, i, j, rel, stop, byte, printed
    <3>3. loop' = [Loop(pc, i, j, rel, stop, byte, printed) EXCEPT !.i = 0, !.j = j2, !.pc = pc2]
      BY <3>1, <3>2 DEF j2
    <3>4. loop' = Loop(pc2, 0, j2, rel, stop, byte, printed)
      BY <3>3
    <3> QED
      BY <3>4 DEF j2
  <2>4. /\ j + 1 \in 0..32 /\ j + 1 # 0 /\ (j # 31 => j + 1 \in 0..31)
        /\ pc2 \in {"word", "word written"} /\ 0 \in Places \cup {50}
    BY <1>4, <2>1 DEF Places
  <2>5. loop' \in WordLoop
    <3> DEFINE j2 == j + 1
    <3>1. j2 \in 0..32 /\ 0 \in Places \cup {50} /\ pc2 \in {"word", "word written"}
      BY <2>4
    <3>2. loop' = Loop(pc2, 0, j2, rel, stop, byte, printed)
      BY <2>3
    <3> HIDE DEF word, j, rel, stop, byte, printed, pc2, j2
    <3> QED
      BY <1>1, <3>1, <3>2, Zenon DEF WordLoop
  <2>6. Scanned(word, 0, j + 1, rel, stop)
    <3>1. Seen(0, j + 1) = Seen(50, j)
      <4>1. IF (j + 1) % 7 = 0 THEN (j + 1) \div 7 = (j \div 7) + 1
            ELSE (j + 1) \div 7 = j \div 7
        BY <1>7
      <4>2. j \div 7 \in Nat /\ 0 \div 5 = 0
        BY <1>7
      <4> HIDE DEF j
      <4> QED
        BY <4>1, <4>2 DEF Seen
    <3> HIDE DEF word, i, j, rel, stop
    <3> QED
      BY <1>5, <2>2, <2>4, <3>1 DEF Scanned
  <2>7. byte = Partial(Chars(word, j + 1), 0)
    BY <1>5, <2>2 DEF Partial
  <2>8. printed = (6 * (j + 1)) + (0 \div 8)
    BY <1>5, <1>7, <2>2
  <2>9. /\ loop'.pc = pc2 /\ loop'.word = word /\ loop'.i = 0 /\ loop'.j = j + 1
        /\ loop'.rel_char_pos = rel /\ loop'.stop_pos = stop /\ loop'.byte = byte
        /\ loop'.printed = printed
    BY <2>3
  <2>10. /\ pc2 = "word" => j + 1 \in 0..31
         /\ pc2 = "word written" => j + 1 = 32
    BY <2>4
  <2> HIDE DEF Loop, word, i, j, rel, stop, byte, printed, pc2
  <2> QED
    BY <1>5, <2>1, <2>5, <2>6, <2>7, <2>8, <2>9, <2>10 DEF WordInv
<1>10. CASE UNCHANGED vars
  BY <1>10 DEF WordInv, vars
<1>11. CASE TextNewline \/ TextGlyph \/ TextEnds \/ BallFrame
  BY <1>2, <1>11 DEF TextNewline, TextGlyph, TextEnds, BallFrame, InText
<1> QED
  BY <1>8, <1>9, <1>10, <1>11 DEF Next

Written == loop.pc = "word written"

\* A pixel shows the bit of the character whose cell it is in.
PixelRight(x, y) ==
  LET p == ((y \div 7) * 9) + (x \div 5) + 1 IN
  Lit(fb, x, y) <=>
    /\ x < 45 /\ p <= Len(loop.word)
    /\ 4 - (x % 5) \in BitsSet(RowOf(loop.word[p], y))

LEMMA WordShown == WordInv => WordAsBitmap
<1> SUFFICES ASSUME WordInv, Written
             PROVE  /\ loop.printed = LCD_STRIDE * LCD_H
                    /\ \A x \in 0..(LCD_W - 1), y \in 0..(LCD_H - 1) : PixelRight(x, y)
  BY Zenon DEF WordAsBitmap, Written, PixelRight
<1>1. loop.printed = 192
  <2>1. loop.j = 32 /\ loop.i = 0 /\ loop.printed = (6 * loop.j) + (loop.i \div 8)
    BY DEF WordInv, Written
  <2> QED
    BY <2>1
<1>2. LCD_STRIDE * LCD_H = 192
  BY DEF LCD_STRIDE, LCD_W, LCD_H
<1>3. IsWord(loop.word)
  BY PicturesAssumption DEF WordInv, WordLoop, IsWord
<1>4. ASSUME NEW x \in 0..47, NEW y \in 0..31
      PROVE  PixelRight(x, y)
  <2> DEFINE p == ((y \div 7) * 9) + (x \div 5) + 1
             k == (y * 6) + (x \div 8)
             c == Chars(loop.word, y)
  <2>1. /\ k \in Nat /\ k < 192 /\ k \div 6 = y /\ k % 6 = x \div 8 /\ 7 - (x % 8) \in 0..7
        /\ y \in Nat
    OBVIOUS
  <2>2. Lit(fb, x, y) <=> <<k, 7 - (x % 8)>> \in fb
    BY DEF Lit, LCD_STRIDE, LCD_W
  <2>3. ByteAt(loop.word, k) = Byte(c, x \div 8)
    BY <2>1 DEF ByteAt
  <2>4. Filled(fb, loop.word, 192)
    BY <1>1 DEF WordInv
  <2> HIDE DEF k
  <2>5. Lit(fb, x, y) <=> 7 - (x % 8) \in BitsSet(Byte(c, x \div 8))
    BY <2>1, <2>2, <2>3, <2>4 DEF Filled
  <2>6. c \in NineRows
    BY <1>3, <2>1, CharsAre
  <2> HIDE DEF c
  <2>7. Lit(fb, x, y) <=> x < 45 /\ 4 - (x % 5) \in BitsSet(c[x \div 5])
    BY <2>5, <2>6, PlacesSame DEF Same
  <2>8. x < 45 => c[x \div 5] = IF p <= Len(loop.word) THEN RowOf(loop.word[p], y) ELSE 0
    <3>1. x < 45 => x \div 5 \in 0..8
      OBVIOUS
    <3> QED
      BY <3>1 DEF Chars, c
  <2>9. BitsSet(0) = {}
    <3>1. 0 \in 0..15 /\ \A b \in 0..7 : (0 \div (2^b)) % 2 # 1
      <4>1. \A b \in 0..3 : b = 0 \/ b = 1 \/ b = 2 \/ b = 3
        OBVIOUS
      <4> QED
        BY <4>1
    <3> QED
      BY <3>1 DEF BitsSet
  <2> HIDE DEF p
  <2>10. Lit(fb, x, y) <=>
           /\ x < 45 /\ p <= Len(loop.word)
           /\ 4 - (x % 5) \in BitsSet(RowOf(loop.word[p], y))
    BY <2>7, <2>8, <2>9
  <2> QED
    BY <2>10 DEF p, PixelRight
<1>5. LCD_W - 1 = 47 /\ LCD_H - 1 = 31
  BY DEF LCD_W, LCD_H
<1>6. 0..(LCD_W - 1) = 0..47 /\ 0..(LCD_H - 1) = 0..31
  BY <1>5
<1> QED
  BY <1>1, <1>2, <1>4, <1>6

-----------------------------------------------------------------------------
(* The ball.                                                               *)

BallLoop == [pc : {"ball"}, px : Int, py : Int, vx : Int, vy : Int]

Between(n, low, high) == n \in Int /\ low * 256 <= n /\ n <= high * 256

BallInv ==
  /\ loop \in BallLoop
  /\ fb = {} \/ /\ Between(loop.px, 4, 43) /\ Between(loop.py, 4, 27)
                /\ fb = FillDisc(SetPixels({}, Border), loop.px \div 256, loop.py \div 256)

LEMMA BallStarts == fb = {} /\ StartBall => BallInv
  BY DEF StartBall, BallInv, BallLoop, LCD_W, LCD_H, Pixel

LEMMA BouncedIs ==
  ASSUME NEW p \in Int, NEW v \in Int
  PROVE  /\ Between(Bounced(p, v, LCD_W)[1], 4, 43)
         /\ Bounced(p, v, LCD_W)[2] \in Int
         /\ Between(Bounced(p, v, LCD_H)[1], 4, 27)
         /\ Bounced(p, v, LCD_H)[2] \in Int
BY DEF Bounced, Radius, Pixel, LCD_W, LCD_H, Between

LEMMA BallKeeps == ASSUME BallInv, [Next]_vars PROVE BallInv'
<1>1. loop \in BallLoop /\ loop.pc = "ball"
  BY DEF BallInv, BallLoop
<1>2. CASE BallFrame
  <2> DEFINE x == Bounced(loop.px + loop.vx, loop.vx, LCD_W)
             y == Bounced(loop.py + loop.vy, loop.vy, LCD_H)
  <2>1. /\ Between(x[1], 4, 43) /\ x[2] \in Int
        /\ Between(y[1], 4, 27) /\ y[2] \in Int
    <3>1. /\ loop.px + loop.vx \in Int /\ loop.vx \in Int
          /\ loop.py + loop.vy \in Int /\ loop.vy \in Int
      BY <1>1 DEF BallLoop
    <3>2. /\ Between(x[1], 4, 43) /\ x[2] \in Int
      BY <3>1, BouncedIs, Zenon
    <3>3. /\ Between(y[1], 4, 27) /\ y[2] \in Int
      BY <3>1, BouncedIs, Zenon
    <3> QED
      BY <3>2, <3>3
  <2>2. /\ loop' = [loop EXCEPT !.px = x[1], !.vx = x[2], !.py = y[1], !.vy = y[2]]
        /\ fb' = FillDisc(SetPixels({}, Border), x[1] \div Pixel, y[1] \div Pixel)
    BY <1>2 DEF BallFrame
  <2> HIDE DEF x, y
  <2>3. loop' \in BallLoop /\ loop'.px = x[1] /\ loop'.py = y[1]
    <3> DEFINE new == [pc |-> "ball", px |-> x[1], py |-> y[1], vx |-> x[2], vy |-> y[2]]
    <3>1. loop' = new
      BY <1>1, <2>2 DEF BallLoop
    <3>2. x[1] \in Int /\ y[1] \in Int
      BY <2>1 DEF Between
    <3>3. new \in BallLoop
      BY <2>1, <3>2, Zenon DEF BallLoop
    <3>4. new.px = x[1] /\ new.py = y[1]
      BY Zenon
    <3> QED
      BY <3>1, <3>3, <3>4
  <2> QED
    BY <2>1, <2>2, <2>3 DEF BallInv, Pixel
<1>3. CASE UNCHANGED vars
  BY <1>3 DEF BallInv, vars
<1>4. CASE TextNewline \/ TextGlyph \/ TextEnds \/ WordStep \/ WordRow
  BY <1>1, <1>4 DEF TextNewline, TextGlyph, TextEnds, WordStep, WordRow, InText
<1> QED
  BY <1>2, <1>3, <1>4 DEF Next

\* Nothing of the disc is beyond the display, and it is drawn with the border.
LEMMA BallShown == BallInv => BallOnScreen
<1> SUFFICES ASSUME BallInv, fb # {}
             PROVE  LET cx == loop.px \div Pixel
                        cy == loop.py \div Pixel IN
                    /\ \A q \in Disc : OnScreen(cx + q[1], cy + q[2])
                    /\ \A x \in 0..(LCD_W - 1), y \in 0..(LCD_H - 1) :
                         Lit(fb, x, y) <=> <<x, y>> \in Border \/ <<x - cx, y - cy>> \in Disc
  BY DEF BallOnScreen
<1> DEFINE cx == loop.px \div Pixel
           cy == loop.py \div Pixel
<1>1. /\ cx \in 4..43 /\ cy \in 4..27
      /\ fb = FillDisc(SetPixels({}, Border), cx, cy)
  <2>1. /\ Between(loop.px, 4, 43) /\ Between(loop.py, 4, 27)
        /\ fb = FillDisc(SetPixels({}, Border), loop.px \div 256, loop.py \div 256)
    BY DEF BallInv
  <2>2. \A n \in Int : n >= 4 * 256 /\ n <= 43 * 256 => n \div 256 \in 4..43
    OBVIOUS
  <2>3. \A n \in Int : n >= 4 * 256 /\ n <= 27 * 256 => n \div 256 \in 4..27
    OBVIOUS
  <2>4. /\ loop.px \div 256 \in 4..43 /\ loop.py \div 256 \in 4..27
    <3>1. /\ loop.px \in Int /\ loop.px >= 4 * 256 /\ loop.px <= 43 * 256
          /\ loop.py \in Int /\ loop.py >= 4 * 256 /\ loop.py <= 27 * 256
      BY <2>1 DEF Between
    <3> QED
      BY <2>2, <2>3, <3>1
  <2>5. cx = loop.px \div 256 /\ cy = loop.py \div 256
    BY DEF Pixel
  <2> QED
    BY <2>1, <2>4, <2>5
<1> HIDE DEF cx, cy
<1>2. /\ Disc \subseteq (-4..4) \X (-4..4)
      /\ \A a, b \in Int : <<a, b>> \in Disc => a \in -4..4 /\ b \in -4..4
  BY DEF Disc, Radius
<1>3. ASSUME NEW q \in Disc PROVE OnScreen(cx + q[1], cy + q[2])
  <2>1. q[1] \in -4..4 /\ q[2] \in -4..4
    BY <1>2
  <2> QED
    BY <1>1, <2>1 DEF OnScreen, LCD_W, LCD_H
<1>4. ASSUME NEW x \in Columns, NEW y \in Rows
      PROVE  Lit(fb, x, y) <=> <<x, y>> \in Border \/ <<x - cx, y - cy>> \in Disc
  <2> DEFINE S == {<<cx + q[1], cy + q[2]>> : q \in Disc}
  <2>1. S \in SUBSET Pairs
    BY <1>1, <1>2 DEF Pairs
  <2>2. <<x, y>> \in S <=> <<x - cx, y - cy>> \in Disc
    <3>1. ASSUME NEW q \in Disc, <<x, y>> = <<cx + q[1], cy + q[2]>>
          PROVE  <<x - cx, y - cy>> = q
      <4>1. q = <<q[1], q[2]>> /\ q[1] \in Int /\ q[2] \in Int
        BY <1>2
      <4>2. x = cx + q[1] /\ y = cy + q[2]
        BY <3>1
      <4> QED
        BY <1>1, <4>1, <4>2
    <3>2. /\ <<x - cx, y - cy>>[1] = x - cx /\ <<x - cx, y - cy>>[2] = y - cy
          /\ cx + (x - cx) = x /\ cy + (y - cy) = y
      BY <1>1 DEF Columns, Rows
    <3> QED
      BY <3>1, <3>2
  <2>3. fb = SetPixels(SetPixels({}, Border), S)
    BY <1>1 DEF FillDisc
  <2> HIDE DEF S
  <2>4. Border \in SUBSET Pairs
    BY DEF Border, Pairs, LCD_W, LCD_H
  <2>5. Lit(fb, x, y) <=> Lit(SetPixels({}, Border), x, y) \/ <<x, y>> \in S
    BY <2>1, <2>3, LitMore
  <2>6. Lit(SetPixels({}, Border), x, y) <=> <<x, y>> \in Border
    BY <2>4, LitMore, LitNothing
  <2> QED
    BY <2>2, <2>5, <2>6
<1>5. 0..(LCD_W - 1) = Columns /\ 0..(LCD_H - 1) = Rows
  BY DEF LCD_W, LCD_H, Columns, Rows
<1> QED
  BY <1>3, <1>4, <1>5 DEF cx, cy

-----------------------------------------------------------------------------

\* Of the three programs, one runs, and keeps its invariant.
PictureInv == TextInv \/ WordInv \/ BallInv

THEOREM PictureInvHolds == Spec => []PictureInv
<1>1. Init => PictureInv
  BY TextStarts, WordStarts, BallStarts DEF Init, PictureInv
<1>2. PictureInv /\ [Next]_vars => PictureInv'
  BY TextKeeps, WordKeeps, BallKeeps DEF PictureInv
<1> QED
  BY <1>1, <1>2, PTL DEF Spec

\* PictureRight: every program composes the picture it was asked for.
THEOREM PictureRightHolds == Spec => []PictureRight
<1>1. ASSUME TextInv PROVE PictureRight
  <2>1. loop.pc \in {"text", "text written"}
    BY <1>1 DEF TextInv, TextLoop
  <2> QED
    BY <1>1, <2>1 DEF TextInv, PictureRight, WordAsBitmap, BallOnScreen
<1>2. ASSUME WordInv PROVE PictureRight
  <2>1. loop.pc \in {"word", "word written"}
    BY <1>2 DEF WordInv, WordLoop
  <2> QED
    BY <1>2, <2>1, WordShown DEF PictureRight, TextAsLaidOut, BallOnScreen
<1>3. ASSUME BallInv PROVE PictureRight
  <2>1. loop.pc = "ball"
    BY <1>3 DEF BallInv, BallLoop
  <2> QED
    BY <1>3, <2>1, BallShown DEF PictureRight, TextAsLaidOut, WordAsBitmap
<1>4. PictureInv => PictureRight
  BY <1>1, <1>2, <1>3 DEF PictureInv
<1> QED
  BY <1>4, PictureInvHolds, PTL
=============================================================================
