------------------------------- MODULE MCGLdc -------------------------------
(* Modes, textures and vertex vectors for model checking GLdc.             *)
EXTENDS GLdc, TLC

\* 640x480 in 16 and in 32 bits.
MCModes == {[x |-> 319, y |-> 479, depth |-> 1], [x |-> 639, y |-> 479, depth |-> 3]}
MCTextures == {[width |-> 1024, height |-> 1024, format |-> {27}, filter |-> 1],
               [width |-> 8, height |-> 64, format |-> {28, 26}, filter |-> 0]}
MCProbes == {16 * 1024 * 1024, 17 * 1024 * 1024 + 4096}

\* A strip of n corners from the k-th on.
Strip(k, n) == [m \in 1..n |-> Corner(k + m - 1, IF m = n THEN "eol" ELSE "vertex")]
Op == <<Header(OP_POLY)>>

\* Strips of three to five corners with any corners visible, and two short ones;
\* a translucent triangle that is visible or not.
MCVectors ==
  OP_POLY :> (UNION {{Op \o Strip(1, n)} \X SUBSET (1..n) : n \in 3..5}
              \cup ({Op \o Strip(1, 3) \o Strip(4, 3),
                     Op \o Strip(1, 3) \o Op \o Strip(4, 3)}
                    \X {s \cup t : s \in SUBSET (1..3), t \in {{5}, 4..6}}))
  @@ TR_POLY :> {<<<<Header(TR_POLY)>> \o Strip(1, 3), s>> : s \in {{}, 1..3}}
=============================================================================
