-------------------------------- MODULE GLdc --------------------------------
(***************************************************************************)
(* The GLdc port: frames of OpenGL drawn through libpvr.  SceneListSubmit   *)
(* walks a list of headers and triangle strips, clips every triangle at the *)
(* near plane, and submits strips again.                                   *)
(*                                                                         *)
(* The corners of the strips are numbers; the point where the edge from j   *)
(* to k meets the near plane is <<j, k>>, j < k, and the corner k itself is *)
(* <<k, k>>.                                                               *)
(***************************************************************************)
EXTENDS PvrScene

CONSTANT
  Vectors  \* for a list, the vertex vectors that GLdc may have built, each with
           \* the corners that are before the near plane

VARIABLES
  verts,   \* the vertices, which are changed in place
  seen,    \* the corners before the near plane: z >= -w
  i,       \* where the loop stands
  mask,    \* visible_mask: which corners of the last triangle are visible
  queued,  \* qv, if queued_vertex points to it
  given    \* history: the vertices before they were changed

clipVars == <<verts, seen, i, mask, queued, given>>
libpvrVars == <<deviceVars, libVars, heapVars, gpuVars, waitVars>>
vars == <<sceneVars, clipVars>>

NoVertex == [kind |-> "none"]
Header(list) == [kind |-> "header", list |-> list]
Corner(k, flags) == [kind |-> flags, p |-> <<k, k>>, divided |-> 0]

\* What GLdc draws: a header of the list and three vertices at least, and strips of
\* more than one vertex: by the assertion in SceneListSubmit no header follows the first.
Drawable(list, v) ==
  /\ Len(v) \in Nat /\ v = [n \in 1..Len(v) |-> v[n]]
  /\ Len(v) >= 4 /\ v[1] = Header(list)
  /\ \A n \in 1..Len(v) :
       \/ v[n] = Header(list)
       \/ v[n].kind \in {"vertex", "eol"} /\ v[n].p[1] \in Nat
          /\ v[n] = Corner(v[n].p[1], v[n].kind)
  /\ \A n \in 2..(Len(v) - 1) :
       v[n - 1].kind # "vertex" /\ v[n].kind # "header"
         => v[n].kind = "vertex" /\ v[n + 1].kind # "header"

ASSUME GLdcAssumption ==
  \A list \in Lists : \A v \in Vectors[list] : Drawable(list, v[1])

Init ==
  /\ SceneInit
  /\ verts = <<>> /\ seen = {} /\ i = 0 /\ mask = {} /\ queued = NoVertex
  /\ given = <<>>

-----------------------------------------------------------------------------
(* Vertices.                                                               *)

\* _glPerspectiveDivideVertex.
Divided(v) == [v EXCEPT !.divided = @ + 1]

Flagged(v, flags) == [v EXCEPT !.kind = flags]

\* _glClipEdge, for two corners that were not divided yet; then the flags are
\* set, and the point divided.
Edge(v, w, flags) ==
  [kind |-> flags, divided |-> 1 + v.divided + w.divided,
   p |-> IF v.p[1] < w.p[1] THEN <<v.p[1], w.p[1]>> ELSE <<w.p[1], v.p[1]>>]

IsHeaderAt(k) == verts[k].kind = "header"
Visible(v) == v.p[1] \in seen

\* SUBMIT_QUEUED_VERTEX, and other vertices after it.
Queued(flags) == IF queued = NoVertex THEN <<>> ELSE <<Flagged(queued, flags)>>
AsQueued == IF queued = NoVertex THEN <<>> ELSE <<queued>>

-----------------------------------------------------------------------------
(* SceneListSubmit.                                                        *)

SubmitStart(v, visible) ==
  /\ pc = "list"
  /\ verts' = v /\ given' = v /\ seen' = visible
  /\ i' = 1 /\ mask' = {} /\ queued' = NoVertex
  /\ pc' = IF Len(v) < 4 THEN "submitted" ELSE "strips"
  /\ UNCHANGED <<libpvrVars, listVars>>

\* The loop goes on; after its end the vertex that is queued is submitted.
Continue(step, ps) ==
  /\ i' = i + step
  /\ IF i + step <= Len(verts) - 1
     THEN submit' = Prims(submit, ps) /\ pc' = "strips"
     ELSE /\ submit' = Prims(submit, ps \o IF queued' = NoVertex THEN <<>>
                                           ELSE <<Flagged(queued', "eol")>>)
          /\ pc' = "submitted"
  /\ UNCHANGED <<libpvrVars, open, closed, seen, given>>

HeaderStep ==
  /\ pc = "strips" /\ IsHeaderAt(i)
  /\ mask' = {}
  /\ UNCHANGED <<verts, queued>>
  /\ Continue(1, <<verts[i]>>)

Trailing == \/ verts[i + 1].kind = "eol"
            \/ i + 2 \in DOMAIN verts => IsHeaderAt(i + 2)

\* Fault: the strip's last two vertices are submitted after a clipped triangle too.
TrailingAlways ==
  /\ pc = "strips" /\ ~IsHeaderAt(i) /\ Trailing
  /\ mask' = {} /\ queued' = NoVertex
  /\ UNCHANGED verts
  /\ Continue(2, AsQueued \o <<Divided(verts[i]), Flagged(Divided(verts[i + 1]), "eol")>>)

\* The end of a strip: its last two vertices are submitted if the last triangle
\* was not clipped; the strip that is being submitted ends.
TrailingStep ==
  /\ pc = "strips" /\ ~IsHeaderAt(i) /\ Trailing
  /\ mask' = {} /\ queued' = NoVertex
  /\ \/ /\ mask = {1, 2, 3}
        /\ LET v0 == Divided(verts[i])
               v1 == Flagged(Divided(verts[i + 1]), "eol")
           IN  /\ verts' = [verts EXCEPT ![i] = v0, ![i + 1] = v1]
               /\ Continue(2, AsQueued \o <<v0, v1>>)
     \/ /\ mask # {1, 2, 3}
        /\ UNCHANGED verts
        /\ Continue(2, Queued("eol"))

VisibleMask == {k \in 1..3 : Visible(verts[i + k - 1])}

\* The vertices that are submitted for a triangle of which the corners m are
\* visible, and at the end the one that is queued.
Clipped(m, v0, v1, v2) ==
  LET c1 == Divided(v1)
      c2 == Divided(v2)
      e01 == Edge(v0, v1, "vertex")
      e12 == Edge(v1, v2, "vertex")
      e20 == Edge(v2, v0, "vertex")
  IN  CASE m = {1, 2, 3} -> <<Divided(v0)>>
        [] m = {} -> <<>>
        [] m = {1} -> <<Divided(v0), e01, e20, e20>>
        [] m = {2} -> <<e01, c1, Edge(v1, v2, v2.kind)>>
        [] m = {3} -> <<e12, e20, c2>>
        [] m = {1, 2} -> <<Divided(v0), c1, e20, c1, Edge(v1, v2, v2.kind)>>
        [] m = {2, 3} -> <<e01, c1, e20, c1, c2>>
        [] m = {1, 3} -> LET c == Flagged(c2, "vertex")
                         IN  <<Divided(v0), e01, c, e12, c>>

\* A triangle: the strip that is being submitted ends if nothing is visible.
TriangleStep ==
  /\ pc = "strips" /\ ~IsHeaderAt(i) /\ ~Trailing
  /\ mask' = VisibleMask
  /\ LET ps == Clipped(VisibleMask, verts[i], verts[i + 1], verts[i + 2])
     IN  /\ queued' = IF ps = <<>> THEN NoVertex ELSE Last(ps)
         /\ verts' = IF 1 \in VisibleMask THEN [verts EXCEPT ![i] = Divided(@)]
                     ELSE verts
         /\ Continue(1, IF ps = <<>> THEN Queued("eol") ELSE AsQueued \o Front(ps))

Submit == \/ \E list \in open : \E v \in Vectors[list] : SubmitStart(v[1], v[2])
          \/ HeaderStep \/ TrailingStep \/ TriangleStep

\* The vertices are forgotten when the frame is over.
Forget == verts' = <<>> /\ seen' = {} /\ i' = 0 /\ mask' = {} /\ queued' = NoVertex
          /\ given' = <<>>

Next == \/ Submit
        \/ ListFinish /\ Forget
        \/ (LibStep \/ Hardware) /\ UNCHANGED clipVars

Spec == Init /\ [][Next]_vars
FairSpec == Spec /\ WF_vars(RenderEnd /\ UNCHANGED clipVars)
                 /\ WF_vars((WaitRender \/ WaitEnds) /\ UNCHANGED clipVars)

-----------------------------------------------------------------------------
(* Properties.                                                             *)

\* The triangles of the strips of s, as triples of points.  The facing of every
\* second triangle of a strip is turned.
IsVertex(v) == v.kind \in {"vertex", "eol"}
StripStart(s, k) == Max({j \in 1..k : j = 1 \/ s[j - 1].kind # "vertex"})
Triples(s) ==
  {k \in 1..(Len(s) - 2) : /\ s[k].kind = "vertex" /\ s[k + 1].kind = "vertex"
                           /\ IsVertex(s[k + 2])}
TriangleAt(s, k) ==
  IF (k - StripStart(s, k)) % 2 = 0 THEN <<s[k].p, s[k + 1].p, s[k + 2].p>>
  ELSE <<s[k + 1].p, s[k].p, s[k + 2].p>>
Triangles(s) == {TriangleAt(s, k) : k \in Triples(s)}

\* Two corners and a point between them make no triangle, nor do two points.
Flat(t) == \/ Cardinality({t[1], t[2], t[3]}) < 3
           \/ Cardinality(UNION {{t[n][1], t[n][2]} : n \in 1..3}) < 3

\* Such a triangle lies in the near plane.
Near(t) == \A n \in 1..3 : t[n][1] # t[n][2]

\* What is to be seen of a triangle: the points round it, in order.
Cut(a, b) == IF a < b THEN <<a, b>> ELSE <<b, a>>
Outline(t) ==
  LET From(n) == LET a == t[n][1]
                     b == t[(n % 3) + 1][1]
                 IN  (IF a \in seen THEN <<<<a, a>>>> ELSE <<>>)
                     \o IF (a \in seen) = (b \in seen) THEN <<>> ELSE <<Cut(a, b)>>
  IN  From(1) \o From(2) \o From(3)

Points(s) == {s[n] : n \in DOMAIN s}

\* The triangles of D have the three points of t, and its facing if that matters.
Has(D, t, facing) ==
  \E d \in D : /\ Points(d) = Points(t)
               /\ facing => d \in {t, <<t[2], t[3], t[1]>>, <<t[3], t[1], t[2]>>}

Filled(o, D, facing) ==
  \/ Len(o) = 3 /\ Has(D, o, facing)
  \/ /\ Len(o) = 4
     /\ \/ Has(D, <<o[1], o[2], o[3]>>, facing) /\ Has(D, <<o[1], o[3], o[4]>>, facing)
        \/ Has(D, <<o[1], o[2], o[4]>>, facing) /\ Has(D, <<o[2], o[3], o[4]>>, facing)

\* A triangle of which only the last corner is visible: the strip comes into sight.
Appears(k) == /\ {given[k].p[1], given[k + 1].p[1]} \cap seen = {}
              /\ given[k + 2].p[1] \in seen

\* The vertices that SceneListSubmit has submitted for the list.
Submitted ==
  LET ends == {k \in DOMAIN submit.params : submit.params[k].kind = "end"}
  IN  SubSeq(submit.params, IF ends = {} THEN 1 ELSE Max(ends) + 1, Len(submit.params))

\* No triangle of the strip appears, up to the k-th of what is given.
Upright(k) == \A j \in Triples(given) :
  j <= k /\ StripStart(given, j) = StripStart(given, k) => ~Appears(j)

\* SceneListSubmit draws what is to be seen of every triangle and nothing else but
\* triangles in the near plane; every vertex is divided once, and every strip
\* ended.  Every part is drawn with its facing, unless the strip came into sight
\* with the last corner of that triangle or of one before it.
PartsDrawn ==
  pc = "submitted" /\ ~submit.lost =>
    LET D == Triangles(Submitted)
        asked == Triangles(given)
    IN  /\ \A k \in DOMAIN Submitted : LET v == Submitted[k] IN
             IsVertex(v) => /\ v.divided = 1
                            /\ v.kind = "vertex" => /\ k < Len(Submitted)
                                                    /\ IsVertex(Submitted[k + 1])
        /\ \A k \in Triples(given) : LET o == Outline(TriangleAt(given, k)) IN
             o # <<>> => Filled(o, D, Upright(k))
        /\ \A d \in D : \/ Flat(d) \/ Near(d)
                        \/ \E t \in asked : Points(d) \subseteq Points(Outline(t))
=============================================================================
