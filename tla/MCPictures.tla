----------------------------- MODULE MCPictures -----------------------------
(* Texts for model checking Pictures.                                       *)
EXTENDS Pictures, SequencesExt

\* Letters of both cases, digits, signs and some that have no glyph.
Cast == [n \in 1..26 |-> 64 + n] \o [n \in 1..10 |-> 47 + n]
        \o <<97, 122, 46, 44, 45, 43, 58, 33, 63, 47, 61, 39, 32, 42, 126, 200>>

\* Pieces of given lengths with newlines between them; each begins elsewhere in the
\* cast.
Piece(n, from) == [i \in 1..n |-> Cast[((i + from) % Len(Cast)) + 1]]
Text(lengths) ==
  FlattenSeq([k \in 1..Len(lengths) |->
                (IF k = 1 THEN <<>> ELSE <<Newline>>) \o Piece(lengths[k], 13 * k)])

MCTexts == {Text(<<n>>) : n \in {0, 1, 9, 10, 35, 36, 37, 45}}
           \cup {Text(<<m, n>>) : m \in {0, 9, 10, 27}, n \in {0, 9, 10, 27}}
           \cup {Text(<<k, m, n, 3>>) : k \in {0, 9}, m \in {8, 18}, n \in {0, 10}}
           \cup {Text(<<1, 1, 1, 9, 1>>), Text(<<0, 0, 0, 0, 4>>)}

MCWords == {[i \in 1..n |-> IF i = 7 THEN Space ELSE 64 + ((i - 1) % 26) + 1] :
              n \in {0, 1, 8, 9, 10, 26, 36, 44, 45, 46, 50}}
=============================================================================
