----------------------------- MODULE GLdcProofs -----------------------------
(* Proofs of what PvrScene and GLdc state: a render reads a whole scene, for *)
(* every program that draws strips as GLdc does; the hardware reads in a    *)
(* header what its context says, and textures and buffers share no byte of  *)
(* the memory; and SceneListSubmit draws what is to be seen of every        *)
(* triangle.                                                                *)
EXTENDS GLdc, TLAPS, NaturalsInduction, WellFoundedInduction, FiniteSetTheorems,
        SequenceTheorems

-----------------------------------------------------------------------------
(* The invariant.                                                          *)

Vertices == [kind : {"vertex", "eol"}, p : Nat \X Nat, divided : Nat]
Headers(S) == {Header(list) : list \in S}
Params == Vertices \cup Headers(Lists) \cup {EndOfList}
Submission == [params : Seq(Params), len : Nat, lost : BOOLEAN]

\* What was submitted is as long as submit_len says, and fits.
SubmitOK(s) == s \in Submission /\ s.len = Units(s.params) /\ s.len <= SubmitMax

TypeOK ==
  /\ pc \in {"idle", "vsync", "scene", "list", "strips", "submitted", "flushed",
             "started", "wait"}
  /\ open \in SUBSET Lists /\ closed \in SUBSET Lists
  /\ SubmitOK(submit)
  /\ ta \in Seq(Params) /\ bkg \in Nat
  /\ gpu \in {"idle", "busy"} /\ ended \in BOOLEAN /\ intr \in BOOLEAN

\* Where the loop of SceneListSubmit stands, and what it has before it: the kinds
\* of the vertices that are still to come are those that were given.
Before ==
  /\ i \in 1..(Len(verts) - 1) /\ Len(verts) = Len(given)
  /\ \A n \in i..Len(verts) : verts[n].kind = given[n].kind
  /\ \A n \in 2..(Len(given) - 1) :
       given[n - 1].kind # "vertex" /\ given[n].kind # "header"
         => given[n + 1].kind # "header"
  /\ ~IsHeaderAt(i) => ~IsHeaderAt(i + 1)

LoopInv ==
  pc = "strips" =>
    /\ Before
    /\ \A list \in open : /\ verts \in Seq(Vertices \cup {Header(list)})
                          /\ i = 1 => verts[1] = Header(list)
    /\ queued \in Vertices \cup {NoVertex}

Drawing == {"list", "strips", "submitted"}

\* The list that is open is one that was not closed.
OpenInv ==
  /\ pc = "scene" => open = {}
  /\ pc \in Drawing => \E list \in Lists \ closed : open = {list}
  /\ pc \in {"scene"} \cup Drawing => ta = <<>>

Ends(s) == {k \in DOMAIN s : s[k].kind = "end"}

\* The ends in s are those of the lists C, one of each.
Closes(s, C) ==
  /\ \A k \in Ends(s) : \E list \in C : ListAt(s, k) = {list}
  /\ \A j, k \in Ends(s) : ListAt(s, j) = ListAt(s, k) => j = k
  /\ \A list \in C : \E k \in Ends(s) : ListAt(s, k) = {list}

ListInv ==
  pc \in {"scene"} \cup Drawing /\ ~submit.lost =>
    /\ Closes(submit.params, closed)
    /\ pc = "scene" => submit.params = <<>> \/ Len(submit.params) \in Ends(submit.params)
    /\ pc = "submitted" \/ (pc = "strips" /\ i > 1) =>
         ListAt(submit.params, Len(submit.params)) = open

\* What was written to the tile accelerator, from its end on.
FlushInv ==
  pc \in {"flushed", "started", "wait"} /\ ~submit.lost =>
    Whole(ta) /\ bkg = Units(ta) /\ bkg <= SubmitMax

\* A render that no signal left alone is being waited for.
GpuInv ==
  /\ gpu = "busy" /\ ~intr => pc \in {"started", "wait"}
  /\ pc = "wait" /\ ended => gpu = "idle"

SceneInv == TypeOK /\ LoopInv /\ OpenInv /\ ListInv /\ FlushInv /\ GpuInv

-----------------------------------------------------------------------------
(* Recursion along a sequence.                                             *)

\* A set of naturals has a least element, wherever an induction is needed.
LEMMA LeastElement ==
  ASSUME NEW T \in SUBSET Nat, T # {}
  PROVE  \E m \in T : \A k \in T : m <= k
<1>1. PICK m \in T : \A k \in T : ~(<<k, m>> \in OpToRel(<, Nat))
  BY NatLessThanWellFounded, WFMin
<1>2. \A k \in T : ~(k < m)
  BY <1>1 DEF OpToRel
<1>3. \A k \in T : k \in Int
  OBVIOUS
<1> QED
  BY <1>2, <1>3

\* What holds of 0, and of the next number with each, holds of all.
LEMMA Induction ==
  ASSUME NEW N \in Nat, NEW S, 0 \in S,
         \A n \in 1..N : n - 1 \in S => n \in S
  PROVE  \A n \in 0..N : n \in S
<1> DEFINE T == {n \in Nat : n \in 0..N /\ n \notin S}
<1>1. ASSUME T # {} PROVE FALSE
  <2>1. PICK m \in T : \A k \in T : m <= k
    BY <1>1, LeastElement
  <2>2. m \in 0..N /\ m \notin S /\ m # 0
    OBVIOUS
  <2>3. m \in 1..N /\ m - 1 \in 0..N /\ m - 1 \in Nat /\ ~(m <= m - 1)
    BY <2>2
  <2>4. m - 1 \in S
    BY <2>1, <2>3
  <2> QED
    BY <2>2, <2>3, <2>4
<1>2. \A n \in 0..N : n \in Nat
  OBVIOUS
<1> QED
  BY <1>1, <1>2

\* f goes from a by the steps of g.
Follows(f, a, g, N) ==
  f = [n \in 0..N |-> IF n = 0 THEN a ELSE g[<<f[n - 1], n>>]]

LEMMA FollowsExists ==
  ASSUME NEW D, NEW a \in D, NEW N \in Nat, NEW g \in [D \X (1..N) -> D]
  PROVE  \E f \in [0..N -> D] : Follows(f, a, g, N)
<1> DEFINE S == {n \in Nat : \E f \in [0..n -> D] : Follows(f, a, g, n)}
<1>1. 0 \in S
  <2> DEFINE f == [n \in 0..0 |-> a]
  <2>1. f \in [0..0 -> D] /\ Follows(f, a, g, 0)
    BY DEF Follows
  <2> QED
    BY <2>1
<1>2. ASSUME NEW m \in 1..N, m - 1 \in S PROVE m \in S
  <2>1. PICK f \in [0..(m - 1) -> D] : Follows(f, a, g, m - 1)
    BY <1>2
  <2>2. f = [n \in 0..(m - 1) |-> IF n = 0 THEN a ELSE g[<<f[n - 1], n>>]]
    BY <2>1 DEF Follows
  <2> DEFINE h == [n \in 0..m |-> IF n = m THEN g[<<f[m - 1], m>>] ELSE f[n]]
  <2>3. m - 1 \in 0..(m - 1) /\ m \in Nat
    BY <1>2
  <2>4. g[<<f[m - 1], m>>] \in D
    BY <2>3
  <2>5. h \in [0..m -> D]
    BY <2>3, <2>4
  <2>6. ASSUME NEW n \in 0..m PROVE h[n] = IF n = 0 THEN a ELSE g[<<h[n - 1], n>>]
    <3>1. CASE n = m
      <4>1. n # 0 /\ n - 1 \in 0..m /\ n - 1 # m
        BY <3>1, <2>3
      <4>2. h[n - 1] = f[m - 1]
        BY <4>1, <3>1
      <4> QED
        BY <4>1, <4>2, <3>1
    <3>2. CASE n # m /\ n = 0
      <4>1. n \in 0..(m - 1) /\ h[n] = f[n]
        BY <3>2, <2>3
      <4> QED
        BY <4>1, <3>2, <2>2
    <3>3. CASE n # m /\ n # 0
      <4>1. n \in 0..(m - 1) /\ n - 1 \in 0..m /\ n - 1 # m /\ h[n] = f[n]
        BY <3>3, <2>3
      <4>2. h[n - 1] = f[n - 1]
        BY <4>1
      <4>3. f[n] = g[<<f[n - 1], n>>]
        BY <4>1, <3>3, <2>2
      <4> QED
        BY <4>1, <4>2, <4>3, <3>3
    <3> QED
      BY <3>1, <3>2, <3>3
  <2> HIDE DEF h
  <2>7. Follows(h, a, g, m)
    <3>1. h = [n \in 0..m |-> h[n]]
      BY <2>5
    <3> QED
      BY <2>6, <3>1 DEF Follows
  <2> QED
    BY <2>3, <2>5, <2>7
<1>3. N \in S
  <2> HIDE DEF S
  <2>1. \A n \in 0..N : n \in S
    BY <1>1, <1>2, Induction
  <2> QED
    BY <2>1
<1> QED
  BY <1>3

-----------------------------------------------------------------------------
(* What Prims and Units compute.                                           *)

LEMMA SizeNat == \A p : Size(p) \in Nat /\ Size(p) >= 1
  BY DEF Size

UnitsStep(s, u) == [n \in 0..Len(s) |-> IF n = 0 THEN 0 ELSE u[n - 1] + Size(s[n])]
SentStep(s, ps, u) == [n \in 0..Len(ps) |-> IF n = 0 THEN s ELSE Prim(u[n - 1], ps[n])]

LEMMA UnitsIs ==
  ASSUME NEW s, Len(s) \in Nat
  PROVE  \E u \in [0..Len(s) -> Nat] :
           /\ u[0] = 0 /\ \A n \in 1..Len(s) : u[n] = u[n - 1] + Size(s[n])
           /\ Units(s) = u[Len(s)]
<1> DEFINE N == Len(s)
           w == CHOOSE u : u = UnitsStep(s, u)
           g == [x \in Nat \X (1..N) |-> x[1] + Size(s[x[2]])]
<1>1. \E u : u = UnitsStep(s, u)
  <2>1. g \in [Nat \X (1..N) -> Nat]
    BY SizeNat
  <2> HIDE DEF g
  <2>2. PICK f \in [0..N -> Nat] : Follows(f, 0, g, N)
    BY <2>1, FollowsExists
  <2>3. ASSUME NEW n \in 0..N
        PROVE  f[n] = IF n = 0 THEN 0 ELSE f[n - 1] + Size(s[n])
    <3>1. f[n] = IF n = 0 THEN 0 ELSE g[<<f[n - 1], n>>]
      BY <2>2 DEF Follows
    <3>2. n # 0 => g[<<f[n - 1], n>>] = f[n - 1] + Size(s[n])
      <4>1. ASSUME n # 0 PROVE n \in 1..N /\ f[n - 1] \in Nat
        BY <4>1
      <4>2. ASSUME n # 0 PROVE <<f[n - 1], n>> \in Nat \X (1..N)
        BY <4>1, <4>2
      <4> QED
        BY <4>2 DEF g
    <3> QED
      BY <3>1, <3>2
  <2>4. f = UnitsStep(s, f)
    BY <2>2, <2>3 DEF UnitsStep
  <2> QED
    BY <2>4
<1>2. w = UnitsStep(s, w)
  BY <1>1
<1>3. Units(s) = w[N]
  BY DEF Units, UnitsStep
<1> HIDE DEF w
<1>4. /\ w[0] = 0 /\ \A n \in 1..N : w[n] = w[n - 1] + Size(s[n])
      /\ w = [n \in 0..N |-> w[n]]
  <2>1. \A n \in 0..N : w[n] = IF n = 0 THEN 0 ELSE w[n - 1] + Size(s[n])
    BY <1>2 DEF UnitsStep
  <2>2. 0 \in 0..N /\ \A n \in 1..N : n \in 0..N /\ n # 0
    OBVIOUS
  <2>3. w = [n \in 0..N |-> w[n]]
    BY <1>2 DEF UnitsStep
  <2> QED
    BY <2>1, <2>2, <2>3
<1>5. \A n \in 0..N : w[n] \in Nat
  <2> DEFINE S == {n \in Nat : w[n] \in Nat}
  <2>1. 0 \in S /\ \A n \in 1..N : n - 1 \in S => n \in S
    BY <1>4, SizeNat
  <2> HIDE DEF S
  <2>2. \A n \in 0..N : n \in S
    BY <2>1, Induction
  <2> QED
    BY <2>2 DEF S
<1> QED
  BY <1>3, <1>4, <1>5

LEMMA UnitsEmpty == Units(<<>>) = 0
<1>1. Len(<<>>) = 0
  OBVIOUS
<1> QED
  BY <1>1, UnitsIs

LEMMA UnitsAppend ==
  ASSUME NEW S, NEW s \in Seq(S), NEW p \in S
  PROVE  Units(s) \in Nat /\ Units(Append(s, p)) = Units(s) + Size(p)
<1> DEFINE t == Append(s, p)
<1>1. /\ Len(s) \in Nat /\ Len(t) = Len(s) + 1 /\ t[Len(t)] = p
      /\ \A n \in 1..Len(s) : t[n] = s[n]
  OBVIOUS
<1> HIDE DEF t
<1>2. PICK u \in [0..Len(s) -> Nat] :
        /\ u[0] = 0 /\ \A n \in 1..Len(s) : u[n] = u[n - 1] + Size(s[n])
        /\ Units(s) = u[Len(s)]
  BY <1>1, UnitsIs
<1>3. PICK v \in [0..Len(t) -> Nat] :
        /\ v[0] = 0 /\ \A n \in 1..Len(t) : v[n] = v[n - 1] + Size(t[n])
        /\ Units(t) = v[Len(t)]
  BY <1>1, UnitsIs
<1>4. \A n \in 0..Len(s) : u[n] = v[n]
  <2> DEFINE T == {n \in Nat : u[n] = v[n]}
  <2>1. 0 \in T
    BY <1>2, <1>3
  <2>2. ASSUME NEW n \in 1..Len(s), n - 1 \in T PROVE n \in T
    <3>1. n \in 1..Len(t) /\ t[n] = s[n] /\ n \in Nat
      BY <1>1
    <3>2. u[n] = u[n - 1] + Size(s[n]) /\ v[n] = v[n - 1] + Size(s[n])
      BY <3>1, <1>2, <1>3
    <3> QED
      BY <2>2, <3>1, <3>2
  <2> HIDE DEF T
  <2>3. \A n \in 0..Len(s) : n \in T
    BY <1>1, <2>1, <2>2, Induction
  <2> QED
    BY <2>3 DEF T
<1>5. Len(s) \in 0..Len(s) /\ Len(t) \in 1..Len(t) /\ Len(t) - 1 = Len(s)
  BY <1>1
<1>6. v[Len(t)] = v[Len(s)] + Size(p) /\ u[Len(s)] = v[Len(s)] /\ u[Len(s)] \in Nat
  BY <1>1, <1>2, <1>3, <1>4, <1>5
<1> QED
  BY <1>2, <1>3, <1>6 DEF t

LEMMA ConcatAppend ==
  ASSUME NEW s \in Seq(Params), NEW t \in Seq(Params), NEW p \in Params
  PROVE  Append(s \o t, p) = s \o Append(t, p)
<1> DEFINE x == Append(s \o t, p)
           u == Append(t, p)
           y == s \o u
<1>1. /\ s \o t \in Seq(Params) /\ Len(s \o t) = Len(s) + Len(t) /\ Len(s) \in Nat /\ Len(t) \in Nat
      /\ \A k \in 1..(Len(s) + Len(t)) : (s \o t)[k] = IF k <= Len(s) THEN s[k] ELSE t[k - Len(s)]
  OBVIOUS
<1>2. /\ x \in Seq(Params) /\ Len(x) = Len(s) + Len(t) + 1 /\ x[Len(s) + Len(t) + 1] = p
      /\ \A k \in 1..(Len(s) + Len(t)) : x[k] = (s \o t)[k]
  BY <1>1
<1>3. /\ u \in Seq(Params) /\ Len(u) = Len(t) + 1 /\ u[Len(t) + 1] = p
      /\ \A k \in 1..Len(t) : u[k] = t[k]
  OBVIOUS
<1> HIDE DEF x, u
<1>4. /\ y \in Seq(Params) /\ Len(y) = Len(s) + Len(t) + 1
      /\ \A k \in 1..(Len(s) + Len(t) + 1) : y[k] = IF k <= Len(s) THEN s[k] ELSE u[k - Len(s)]
  <2>1. /\ y \in Seq(Params) /\ Len(y) = Len(s) + Len(u)
        /\ \A k \in 1..(Len(s) + Len(u)) : y[k] = IF k <= Len(s) THEN s[k] ELSE u[k - Len(s)]
    BY <1>3, ConcatProperties
  <2> QED
    BY <2>1, <1>1, <1>3
<1> HIDE DEF y
<1>5. ASSUME NEW k \in 1..(Len(s) + Len(t) + 1) PROVE x[k] = y[k]
  <2>1. CASE k = Len(s) + Len(t) + 1
    <3>1. ~(k <= Len(s)) /\ k - Len(s) = Len(t) + 1
      BY <1>1, <2>1
    <3> QED
      BY <2>1, <3>1, <1>2, <1>3, <1>4
  <2>2. CASE k # Len(s) + Len(t) + 1
    <3>1. k \in 1..(Len(s) + Len(t)) /\ (~(k <= Len(s)) => k - Len(s) \in 1..Len(t))
      BY <1>1, <2>2
    <3> QED
      BY <3>1, <1>1, <1>2, <1>3, <1>4
  <2> QED
    BY <2>1, <2>2
<1>6. x = y
  BY <1>2, <1>4, <1>5, SeqEqual
<1> QED
  BY <1>6 DEF x, y, u

\* One parameter is submitted or dropped.
LEMMA PrimIs ==
  ASSUME NEW s, SubmitOK(s), NEW p \in Params
  PROVE  /\ SubmitOK(Prim(s, p))
         /\ ~Prim(s, p).lost => ~s.lost /\ Prim(s, p).params = Append(s.params, p)
<1>0. /\ s \in Submission /\ s.params \in Seq(Params) /\ s.len \in Nat /\ s.lost \in BOOLEAN
      /\ s.len = Units(s.params) /\ s.len <= SubmitMax
  BY DEF SubmitOK, Submission
<1>1. SubmitMax \in Nat /\ Size(p) \in Nat
  BY PvrAssumption, SizeNat
<1>2. CASE s.len + Size(p) > SubmitMax
  <2>1. Prim(s, p) = [s EXCEPT !.lost = TRUE]
    BY <1>2 DEF Prim
  <2> QED
    BY <1>0, <2>1 DEF SubmitOK, Submission
<1>3. CASE ~(s.len + Size(p) > SubmitMax)
  <2>1. Prim(s, p) = [s EXCEPT !.params = Append(@, p), !.len = @ + Size(p)]
    BY <1>3 DEF Prim
  <2>2. /\ Prim(s, p) \in Submission /\ Prim(s, p).lost = s.lost
        /\ Prim(s, p).params = Append(s.params, p) /\ Prim(s, p).len = s.len + Size(p)
    <3> DEFINE q == Append(s.params, p)
               n == s.len + Size(p)
    <3>1. q \in Seq(Params) /\ n \in Nat
      BY <1>0, <1>1
    <3>2. Prim(s, p) = [s EXCEPT !.params = q, !.len = n]
      BY <2>1
    <3> HIDE DEF q, n
    <3>3. Prim(s, p) = [params |-> q, len |-> n, lost |-> s.lost]
      BY <1>0, <3>2 DEF Submission
    <3> QED
      BY <1>0, <3>1, <3>3 DEF Submission, q, n
  <2>3. Units(Append(s.params, p)) = s.len + Size(p)
    BY <1>0, UnitsAppend
  <2>4. s.len + Size(p) <= SubmitMax
    BY <1>0, <1>1, <1>3
  <2> QED
    BY <1>0, <2>2, <2>3, <2>4 DEF SubmitOK
<1> QED
  BY <1>2, <1>3

\* So are several; they are there in their order unless one was dropped.
LEMMA PrimsIs ==
  ASSUME NEW s, SubmitOK(s), NEW ps \in Seq(Params)
  PROVE  /\ SubmitOK(Prims(s, ps))
         /\ ~Prims(s, ps).lost => ~s.lost /\ Prims(s, ps).params = s.params \o ps
<1> DEFINE N == Len(ps)
           D == {r \in Submission : SubmitOK(r)}
           w == CHOOSE u : u = SentStep(s, ps, u)
           g == [x \in D \X (1..N) |-> Prim(x[1], ps[x[2]])]
<1>0. N \in Nat /\ \A n \in 1..N : ps[n] \in Params
  OBVIOUS
<1>d. \A r : r \in D <=> SubmitOK(r)
  BY DEF SubmitOK
<1> HIDE DEF D
<1>1. \E u : u = SentStep(s, ps, u)
  <2>1. g \in [D \X (1..N) -> D]
    <3>1. ASSUME NEW x \in D \X (1..N) PROVE Prim(x[1], ps[x[2]]) \in D
      <4>1. x[1] \in D /\ x[2] \in 1..N
        OBVIOUS
      <4>2. SubmitOK(x[1]) /\ ps[x[2]] \in Params
        BY <4>1, <1>0, <1>d
      <4> QED
        BY <4>2, <1>d, PrimIs
    <3> QED
      BY <3>1
  <2> HIDE DEF g
  <2>2. PICK f \in [0..N -> D] : Follows(f, s, g, N)
    <3>1. s \in D
      BY <1>d
    <3> QED
      BY <1>0, <2>1, <3>1, FollowsExists
  <2>3. ASSUME NEW n \in 0..N
        PROVE  f[n] = IF n = 0 THEN s ELSE Prim(f[n - 1], ps[n])
    <3>1. f[n] = IF n = 0 THEN s ELSE g[<<f[n - 1], n>>]
      BY <2>2 DEF Follows
    <3>2. n # 0 => g[<<f[n - 1], n>>] = Prim(f[n - 1], ps[n])
      <4>1. ASSUME n # 0 PROVE n \in 1..N /\ f[n - 1] \in D
        BY <4>1, <1>0
      <4>2. ASSUME n # 0 PROVE <<f[n - 1], n>> \in D \X (1..N)
        BY <4>1, <4>2
      <4> QED
        BY <4>2 DEF g
    <3> QED
      BY <3>1, <3>2
  <2>4. f = SentStep(s, ps, f)
    BY <2>2, <2>3 DEF SentStep
  <2> QED
    BY <2>4
<1>2. w = SentStep(s, ps, w)
  BY <1>1
<1>3. Prims(s, ps) = w[N]
  BY DEF Prims, SentStep
<1> HIDE DEF w
<1>4. w[0] = s /\ \A n \in 1..N : w[n] = Prim(w[n - 1], ps[n])
  <2>1. \A n \in 0..N : w[n] = IF n = 0 THEN s ELSE Prim(w[n - 1], ps[n])
    BY <1>2 DEF SentStep
  <2>2. 0 \in 0..N /\ \A n \in 1..N : n \in 0..N /\ n # 0
    BY <1>0
  <2> QED
    BY <2>1, <2>2
<1> DEFINE T == {n \in Nat : /\ SubmitOK(w[n])
                             /\ ~w[n].lost => /\ ~s.lost
                                              /\ w[n].params = s.params \o SubSeq(ps, 1, n)}
<1>5. s.params \in Seq(Params) /\ s.params \o <<>> = s.params /\ SubSeq(ps, 1, 0) = <<>>
  BY DEF SubmitOK, Submission
<1>6. 0 \in T
  BY <1>4, <1>5
<1>7. ASSUME NEW n \in 1..N, n - 1 \in T PROVE n \in T
  <2>1. /\ SubmitOK(w[n - 1]) /\ ps[n] \in Params /\ w[n] = Prim(w[n - 1], ps[n])
        /\ ~w[n - 1].lost => /\ ~s.lost
                             /\ w[n - 1].params = s.params \o SubSeq(ps, 1, n - 1)
    BY <1>0, <1>4, <1>7
  <2>2. /\ SubmitOK(w[n])
        /\ ~w[n].lost => ~w[n - 1].lost /\ w[n].params = Append(w[n - 1].params, ps[n])
    <3> DEFINE r == w[n - 1]
               p == ps[n]
    <3>1. SubmitOK(r) /\ p \in Params /\ w[n] = Prim(r, p)
      BY <2>1
    <3> HIDE DEF r, p
    <3>2. /\ SubmitOK(Prim(r, p))
          /\ ~Prim(r, p).lost => ~r.lost /\ Prim(r, p).params = Append(r.params, p)
      BY <3>1, PrimIs
    <3> QED
      BY <3>1, <3>2 DEF r, p
  <2>3. Append(s.params \o SubSeq(ps, 1, n - 1), ps[n]) = s.params \o SubSeq(ps, 1, n)
    <3> DEFINE a == SubSeq(ps, 1, n - 1)
               b == SubSeq(ps, 1, n)
    <3>1. /\ a \in Seq(Params) /\ Len(a) = n - 1 /\ \A k \in 1..(n - 1) : a[k] = ps[k]
          /\ b \in Seq(Params) /\ Len(b) = n /\ \A k \in 1..n : b[k] = ps[k]
      BY <1>0
    <3> HIDE DEF a, b
    <3>2. b = Append(a, ps[n])
      <4>1. Append(a, ps[n]) \in Seq(Params) /\ Len(Append(a, ps[n])) = n
        BY <1>0, <3>1
      <4>2. \A k \in 1..n : b[k] = Append(a, ps[n])[k]
        BY <1>0, <3>1
      <4> QED
        BY <3>1, <4>1, <4>2, SeqEqual
    <3>3. Append(s.params \o a, ps[n]) = s.params \o Append(a, ps[n])
      <4>1. ps[n] \in Params
        BY <1>0
      <4>2. s.params \in Seq(Params) /\ a \in Seq(Params)
        BY <1>5, <3>1
      <4> QED
        BY <4>1, <4>2, ConcatAppend
    <3> QED
      BY <3>2, <3>3 DEF a, b
  <2>4. ~w[n].lost => ~s.lost /\ w[n].params = s.params \o SubSeq(ps, 1, n)
    BY <2>1, <2>2, <2>3
  <2> QED
    BY <1>0, <2>2, <2>4
<1> HIDE DEF T
<1>8. N \in T
  <2>1. \A n \in 0..N : n \in T
    BY <1>0, <1>6, <1>7, Induction
  <2> QED
    BY <1>0, <2>1
<1>9. SubSeq(ps, 1, N) = ps
  BY SubSeqFull
<1> QED
  BY <1>3, <1>8, <1>9 DEF T

-----------------------------------------------------------------------------
(* The list that a parameter belongs to.                                   *)

LEMMA MaxIs ==
  ASSUME NEW k \in Nat, NEW T \in SUBSET (1..k), T # {}
  PROVE  Max(T) \in T /\ \A x \in T : x <= Max(T)
<1>1. \E m \in T : \A x \in T : m >= x
  <2> DEFINE D == {k - x : x \in T}
  <2>0. \A x \in T : x \in 1..k
    OBVIOUS
  <2>1. D \in SUBSET Nat /\ D # {}
    <3>1. \A x \in T : k - x \in Nat
      BY <2>0
    <3>2. PICK y \in T : TRUE
      OBVIOUS
    <3>3. k - y \in D
      BY <3>2
    <3> QED
      BY <3>1, <3>3
  <2> HIDE DEF D
  <2>2. PICK d \in D : \A e \in D : d <= e
    BY <2>1, LeastElement
  <2>3. PICK m \in T : d = k - m
    BY <2>2 DEF D
  <2>4. ASSUME NEW x \in T PROVE m >= x
    <3>1. k - x \in D
      BY DEF D
    <3>2. k - m <= k - x
      BY <2>2, <2>3, <3>1
    <3> QED
      BY <3>2, <2>0
  <2> QED
    BY <2>3, <2>4
<1>2. Max(T) \in T /\ \A x \in T : Max(T) >= x
  BY <1>1 DEF Max
<1>3. \A x \in T : x \in Nat
  OBVIOUS
<1> QED
  BY <1>2, <1>3

\* The last header in s up to k is at h.
LastHeader(s, k, h) ==
  /\ h \in 1..k /\ s[h].kind = "header"
  /\ \A j \in (h + 1)..k : s[j].kind # "header"

LEMMA ListAtIs ==
  ASSUME NEW s, NEW k \in Nat, NEW h, LastHeader(s, k, h)
  PROVE  ListAt(s, k) = {s[h].list}
<1> DEFINE T == {j \in 1..k : s[j].kind = "header"}
<1>1. h \in T
  BY DEF LastHeader
<1>2. T \in SUBSET (1..k) /\ T # {}
  BY <1>1
<1>3. Max(T) \in T /\ h <= Max(T)
  BY <1>1, <1>2, MaxIs
<1>4. Max(T) = h
  BY <1>1, <1>3 DEF LastHeader
<1>5. ListAt(s, k) = IF T = {} THEN {} ELSE {s[Max(T)].list}
  BY DEF ListAt
<1> QED
  BY <1>2, <1>4, <1>5

LEMMA ListAtHeader ==
  ASSUME NEW s, NEW k \in Nat, ListAt(s, k) # {}
  PROVE  \E h : LastHeader(s, k, h)
<1> DEFINE T == {j \in 1..k : s[j].kind = "header"}
<1>1. ListAt(s, k) = IF T = {} THEN {} ELSE {s[Max(T)].list}
  BY DEF ListAt
<1>2. T \in SUBSET (1..k) /\ T # {}
  BY <1>1
<1>3. Max(T) \in T /\ \A x \in T : x <= Max(T)
  BY <1>2, MaxIs
<1>4. LastHeader(s, k, Max(T))
  <2>1. ASSUME NEW j \in (Max(T) + 1)..k PROVE s[j].kind # "header"
    <3>1. j \in 1..k /\ ~(j <= Max(T))
      BY <1>3
    <3> QED
      BY <1>3, <3>1
  <2> QED
    BY <1>3, <2>1 DEF LastHeader
<1> QED
  BY <1>4

LEMMA ListAtSame ==
  ASSUME NEW s, NEW t, NEW k \in Nat, \A j \in 1..k : s[j] = t[j]
  PROVE  ListAt(s, k) = ListAt(t, k)
<1> DEFINE T == {j \in 1..k : s[j].kind = "header"}
           U == {j \in 1..k : t[j].kind = "header"}
<1>1. T = U
  OBVIOUS
<1>2. /\ ListAt(s, k) = IF T = {} THEN {} ELSE {s[Max(T)].list}
      /\ ListAt(t, k) = IF U = {} THEN {} ELSE {t[Max(U)].list}
  BY DEF ListAt
<1>3. T # {} => Max(T) \in 1..k
  <2>1. T \in SUBSET (1..k)
    OBVIOUS
  <2> QED
    BY <2>1, MaxIs
<1> HIDE DEF T, U
<1>4. T # {} => s[Max(T)] = t[Max(T)]
  BY <1>3
<1> QED
  BY <1>1, <1>2, <1>4

\* What follows in the list that is open, headers of it or vertices, is in it.
Within(list, p) == p \in Vertices \/ p = Header(list)

LEMMA KindsOf ==
  /\ \A p \in Vertices : p.kind # "header" /\ p.kind # "end"
  /\ \A list : Header(list).kind = "header" /\ Header(list).list = list
  /\ EndOfList.kind = "end"
  BY DEF Vertices, Header, EndOfList

LEMMA ListStays ==
  ASSUME NEW s \in Seq(Params), NEW t \in Seq(Params), NEW list,
         \A n \in 1..Len(t) : Within(list, t[n]),
         \/ Len(s) > 0 /\ ListAt(s, Len(s)) = {list}
         \/ Len(t) > 0 /\ t[1] = Header(list)
  PROVE  ListAt(s \o t, Len(s \o t)) = {list}
<1> DEFINE u == s \o t
<1>1. /\ Len(s) \in Nat /\ Len(t) \in Nat /\ Len(u) = Len(s) + Len(t) /\ Len(u) \in Nat
      /\ \A n \in 1..Len(s) : u[n] = s[n]
      /\ \A n \in 1..Len(t) : u[Len(s) + n] = t[n]
  OBVIOUS
<1> HIDE DEF u
<1>2. \E h \in 1..Len(u) :
        /\ u[h].kind = "header" /\ u[h].list = list
        /\ h > Len(s) \/ LastHeader(s, Len(s), h)
  <2>1. CASE Len(s) > 0 /\ ListAt(s, Len(s)) = {list}
    <3>1. PICK h : LastHeader(s, Len(s), h)
      BY <1>1, <2>1, ListAtHeader
    <3>2. ListAt(s, Len(s)) = {s[h].list}
      BY <1>1, <3>1, ListAtIs
    <3>3. s[h].list = list
      BY <2>1, <3>2
    <3>4. h \in 1..Len(s) /\ h \in 1..Len(u) /\ u[h] = s[h] /\ s[h].kind = "header"
      BY <1>1, <3>1 DEF LastHeader
    <3> QED
      BY <3>1, <3>3, <3>4
  <2>2. CASE Len(t) > 0 /\ t[1] = Header(list)
    <3>1. 1 \in 1..Len(t) /\ Len(s) + 1 \in 1..Len(u)
      BY <1>1, <2>2
    <3>2. u[Len(s) + 1] = Header(list) /\ Len(s) + 1 > Len(s)
      BY <1>1, <2>2, <3>1
    <3> QED
      BY <3>1, <3>2, KindsOf
  <2> QED
    BY <2>1, <2>2
<1>3. \E h : LastHeader(u, Len(u), h)
  <2> DEFINE T == {j \in 1..Len(u) : u[j].kind = "header"}
  <2>1. T # {}
    BY <1>2
  <2>2. ListAt(u, Len(u)) # {}
    BY <2>1 DEF ListAt
  <2> QED
    BY <1>1, <2>2, ListAtHeader
<1>4. PICK h : LastHeader(u, Len(u), h)
  BY <1>3
<1>5. u[h].list = list
  <2>1. h \in 1..Len(u) /\ u[h].kind = "header" /\ \A j \in (h + 1)..Len(u) : u[j].kind # "header"
    BY <1>4 DEF LastHeader
  <2>2. CASE h > Len(s)
    <3>1. h - Len(s) \in 1..Len(t) /\ Len(s) + (h - Len(s)) = h
      BY <1>1, <2>1, <2>2
    <3>2. u[h] = t[h - Len(s)] /\ Within(list, t[h - Len(s)])
      BY <1>1, <3>1
    <3> QED
      BY <2>1, <3>2, KindsOf DEF Within
  <2>3. CASE ~(h > Len(s))
    <3>1. PICK g \in 1..Len(u) :
            /\ u[g].kind = "header" /\ u[g].list = list
            /\ g > Len(s) \/ LastHeader(s, Len(s), g)
      BY <1>2
    <3>2. ~(g > h)
      <4> SUFFICES ASSUME g > h PROVE FALSE
        OBVIOUS
      <4>1. g \in (h + 1)..Len(u)
        BY <1>1, <2>1
      <4> QED
        BY <2>1, <3>1, <4>1
    <3>3. LastHeader(s, Len(s), g) /\ h \in 1..Len(s) /\ s[h].kind = "header"
      BY <1>1, <2>1, <2>3, <3>1, <3>2
    <3>4. ~(h > g)
      <4> SUFFICES ASSUME h > g PROVE FALSE
        OBVIOUS
      <4>1. h \in (g + 1)..Len(s)
        BY <1>1, <3>1, <3>3
      <4> QED
        BY <3>3, <4>1 DEF LastHeader
    <3>5. g = h
      BY <1>1, <2>1, <3>1, <3>2, <3>4
    <3> QED
      BY <3>1, <3>5
  <2> QED
    BY <2>2, <2>3
<1>6. ListAt(u, Len(u)) = {list}
  <2>1. ListAt(u, Len(u)) = {u[h].list}
    BY <1>1, <1>4, ListAtIs
  <2> QED
    BY <1>5, <2>1
<1> QED
  BY <1>6 DEF u

\* The ends stay where they are when more follows.
LEMMA ClosesMore ==
  ASSUME NEW s \in Seq(Params), NEW t \in Seq(Params), NEW list, NEW C,
         \A n \in 1..Len(t) : Within(list, t[n]), Closes(s, C)
  PROVE  Closes(s \o t, C)
<1> DEFINE u == s \o t
<1>1. /\ Len(s) \in Nat /\ Len(t) \in Nat /\ Len(u) = Len(s) + Len(t) /\ Len(u) \in Nat
      /\ DOMAIN s = 1..Len(s) /\ DOMAIN u = 1..Len(u)
      /\ \A n \in 1..Len(s) : u[n] = s[n]
      /\ \A n \in 1..Len(t) : u[Len(s) + n] = t[n]
  OBVIOUS
<1> HIDE DEF u
<1>2. ASSUME NEW k \in 1..Len(u), k > Len(s) PROVE u[k].kind # "end"
  <2>1. k - Len(s) \in 1..Len(t) /\ Len(s) + (k - Len(s)) = k
    BY <1>1, <1>2
  <2>2. u[k] = t[k - Len(s)] /\ Within(list, t[k - Len(s)])
    BY <1>1, <2>1
  <2> QED
    BY <2>2, KindsOf DEF Within
<1>3. Ends(u) = Ends(s)
  <2>1. \A k \in 1..Len(u) : k > Len(s) \/ k \in 1..Len(s)
    BY <1>1
  <2>2. \A k \in 1..Len(s) : k \in 1..Len(u)
    BY <1>1
  <2> QED
    BY <1>1, <1>2, <2>1, <2>2 DEF Ends
<1>4. \A k \in Ends(s) : ListAt(u, k) = ListAt(s, k)
  <2> TAKE k \in Ends(s)
  <2>1. k \in 1..Len(s)
    BY <1>1 DEF Ends
  <2>2. k \in Nat /\ \A j \in 1..k : u[j] = s[j]
    BY <1>1, <2>1
  <2> QED
    BY <2>2, ListAtSame
<1>5. Closes(u, C)
  BY <1>3, <1>4 DEF Closes
<1> QED
  BY <1>5 DEF u

\* The end of the list that is open.
LEMMA ClosesOne ==
  ASSUME NEW s \in Seq(Params), NEW list, NEW C,
         Closes(s, C), list \notin C, ListAt(s, Len(s)) = {list}
  PROVE  LET u == Append(s, EndOfList)
         IN  Closes(u, C \cup {list}) /\ Len(u) \in Ends(u)
<1> DEFINE u == Append(s, EndOfList)
           e == Len(u)
<1>1. /\ Len(s) \in Nat /\ e = Len(s) + 1 /\ e \in Nat
      /\ DOMAIN s = 1..Len(s) /\ DOMAIN u = 1..e
      /\ \A n \in 1..Len(s) : u[n] = s[n]
      /\ u[e] = EndOfList
  BY DEF Params
<1> HIDE DEF u
<1>2. Ends(u) = Ends(s) \cup {e}
  <2>1. \A k \in 1..e : k = e \/ k \in 1..Len(s)
    BY <1>1
  <2>2. \A k \in 1..Len(s) : k \in 1..e
    BY <1>1
  <2>3. e \in Ends(u)
    BY <1>1, KindsOf DEF Ends
  <2> QED
    BY <1>1, <2>1, <2>2, <2>3 DEF Ends
<1>3. \A k \in Ends(s) : ListAt(u, k) = ListAt(s, k)
  <2> TAKE k \in Ends(s)
  <2>1. k \in 1..Len(s)
    BY <1>1 DEF Ends
  <2>2. k \in Nat /\ \A j \in 1..k : u[j] = s[j]
    BY <1>1, <2>1
  <2> QED
    BY <2>2, ListAtSame
<1>4. ListAt(u, e) = {list}
  <2>1. PICK h : LastHeader(s, Len(s), h)
    BY <1>1, ListAtHeader
  <2>2. s[h].list = list
    <3>1. ListAt(s, Len(s)) = {s[h].list}
      BY <1>1, <2>1, ListAtIs
    <3> QED
      BY <3>1
  <2>3. LastHeader(u, e, h)
    <3>1. h \in 1..Len(s) /\ h \in 1..e /\ u[h].kind = "header"
      BY <1>1, <2>1 DEF LastHeader
    <3>2. ASSUME NEW j \in (h + 1)..e PROVE u[j].kind # "header"
      <4>1. CASE j = e
        BY <1>1, <4>1, KindsOf
      <4>2. CASE j # e
        <5>1. j \in (h + 1)..Len(s) /\ j \in 1..Len(s)
          BY <1>1, <3>1, <4>2
        <5> QED
          BY <1>1, <2>1, <5>1 DEF LastHeader
      <4> QED
        BY <4>1, <4>2
    <3> QED
      BY <3>1, <3>2 DEF LastHeader
  <2>4. u[h] = s[h]
    BY <1>1, <2>1 DEF LastHeader
  <2> QED
    BY <1>1, <2>2, <2>3, <2>4, ListAtIs
<1>5. e \notin Ends(s)
  BY <1>1 DEF Ends
<1>6. Closes(u, C \cup {list})
  <2>1. \A k \in Ends(u) : \E m \in C \cup {list} : ListAt(u, k) = {m}
    BY <1>2, <1>3, <1>4 DEF Closes
  <2>2. \A k \in Ends(s) : ListAt(u, k) # ListAt(u, e)
    <3> TAKE k \in Ends(s)
    <3>1. PICK m \in C : ListAt(s, k) = {m}
      BY DEF Closes
    <3> QED
      BY <1>3, <1>4, <3>1
  <2>3. \A j, k \in Ends(u) : ListAt(u, j) = ListAt(u, k) => j = k
    BY <1>2, <1>3, <2>2 DEF Closes
  <2>4. \A m \in C \cup {list} : \E k \in Ends(u) : ListAt(u, k) = {m}
    BY <1>2, <1>3, <1>4 DEF Closes
  <2> QED
    BY <2>1, <2>3, <2>4 DEF Closes
<1> QED
  BY <1>2, <1>6 DEF u

LEMMA ClosesWhole ==
  ASSUME NEW s \in Seq(Params), NEW C, Closes(s, C), OP_POLY \in C, Len(s) \in Ends(s)
  PROVE  Whole(s)
<1> DEFINE E == {k \in DOMAIN s : s[k].kind = "end"}
<1>1. E = Ends(s)
  BY DEF Ends
<1>2. Len(s) \in E /\ \A j, k \in E : ListAt(s, j) = ListAt(s, k) => j = k
  BY <1>1 DEF Closes
<1>3. \E k \in E : ListAt(s, k) = {OP_POLY}
  BY <1>1 DEF Closes
<1> QED
  BY <1>2, <1>3 DEF Whole

LEMMA ClosesNothing == Closes(<<>>, {})
<1>1. Ends(<<>>) = {}
  BY DEF Ends
<1> QED
  BY <1>1 DEF Closes

-----------------------------------------------------------------------------
(* What SceneListSubmit makes of vertices.                                 *)

LEMMA DividedIs ==
  ASSUME NEW v \in Vertices
  PROVE  Divided(v) \in Vertices /\ Divided(v).kind = v.kind
<1>1. v = [kind |-> v.kind, p |-> v.p, divided |-> v.divided]
      /\ v.kind \in {"vertex", "eol"} /\ v.p \in Nat \X Nat /\ v.divided \in Nat
  BY DEF Vertices
<1>2. Divided(v) = [kind |-> v.kind, p |-> v.p, divided |-> v.divided + 1]
  BY <1>1 DEF Divided
<1>3. v.divided + 1 \in Nat
  BY <1>1
<1> QED
  BY <1>1, <1>2, <1>3 DEF Vertices

LEMMA FlaggedIs ==
  ASSUME NEW v \in Vertices, NEW flags \in {"vertex", "eol"}
  PROVE  Flagged(v, flags) \in Vertices
<1>1. v = [kind |-> v.kind, p |-> v.p, divided |-> v.divided]
      /\ v.p \in Nat \X Nat /\ v.divided \in Nat
  BY DEF Vertices
<1>2. Flagged(v, flags) = [kind |-> flags, p |-> v.p, divided |-> v.divided]
  BY <1>1 DEF Flagged
<1> QED
  BY <1>1, <1>2 DEF Vertices

LEMMA EdgeIs ==
  ASSUME NEW v \in Vertices, NEW w \in Vertices, NEW flags \in {"vertex", "eol"}
  PROVE  Edge(v, w, flags) \in Vertices
<1> DEFINE d == 1 + v.divided + w.divided
           q == IF v.p[1] < w.p[1] THEN <<v.p[1], w.p[1]>> ELSE <<w.p[1], v.p[1]>>
<1>1. v.p \in Nat \X Nat /\ w.p \in Nat \X Nat /\ v.divided \in Nat /\ w.divided \in Nat
  BY DEF Vertices
<1>2. d \in Nat
  BY <1>1
<1>3. q \in Nat \X Nat
  BY <1>1
<1>4. Edge(v, w, flags) = [kind |-> flags, divided |-> d, p |-> q]
  BY DEF Edge
<1> HIDE DEF d, q
<1> QED
  BY <1>2, <1>3, <1>4 DEF Vertices

\* A triangle becomes vertices.
LEMMA ClippedIs ==
  ASSUME NEW m \in SUBSET (1..3), NEW v0 \in Vertices, NEW v1 \in Vertices, NEW v2 \in Vertices
  PROVE  Clipped(m, v0, v1, v2) \in Seq(Vertices)
<1> DEFINE c0 == Divided(v0)
           c1 == Divided(v1)
           c2 == Divided(v2)
           e01 == Edge(v0, v1, "vertex")
           e12 == Edge(v1, v2, "vertex")
           e20 == Edge(v2, v0, "vertex")
           f12 == Edge(v1, v2, v2.kind)
           c == Flagged(c2, "vertex")
<1>1. /\ c0 \in Vertices /\ c1 \in Vertices /\ c2 \in Vertices /\ c \in Vertices
      /\ e01 \in Vertices /\ e12 \in Vertices /\ e20 \in Vertices /\ f12 \in Vertices
  <2>1. c0 \in Vertices /\ c1 \in Vertices /\ c2 \in Vertices
    BY DividedIs
  <2>2. e01 \in Vertices /\ e12 \in Vertices /\ e20 \in Vertices
    BY EdgeIs
  <2>3. v2.kind \in {"vertex", "eol"}
    BY DEF Vertices
  <2>4. f12 \in Vertices
    BY <2>3, EdgeIs
  <2> HIDE DEF c2
  <2>5. c \in Vertices
    BY <2>1, FlaggedIs
  <2> QED
    BY <2>1, <2>2, <2>4, <2>5 DEF c2
<1>2. m \in {{}, {1}, {2}, {3}, {1, 2}, {2, 3}, {1, 3}, {1, 2, 3}}
  <2>1. \A x \in m : x = 1 \/ x = 2 \/ x = 3
    OBVIOUS
  <2> QED
    BY <2>1, Zenon
<1>3. Clipped(m, v0, v1, v2) =
        CASE m = {1, 2, 3} -> <<c0>>
          [] m = {} -> <<>>
          [] m = {1} -> <<c0, e01, e20, e20>>
          [] m = {2} -> <<e01, c1, f12>>
          [] m = {3} -> <<e12, e20, c2>>
          [] m = {1, 2} -> <<c0, c1, e20, c1, f12>>
          [] m = {2, 3} -> <<e01, c1, e20, c1, c2>>
          [] m = {1, 3} -> <<c0, e01, c, e12, c>>
  BY DEF Clipped
<1> HIDE DEF c0, c1, c2, e01, e12, e20, f12, c
<1>4. /\ <<c0>> \in Seq(Vertices) /\ <<>> \in Seq(Vertices)
      /\ <<c0, e01, e20, e20>> \in Seq(Vertices) /\ <<e01, c1, f12>> \in Seq(Vertices)
      /\ <<e12, e20, c2>> \in Seq(Vertices) /\ <<c0, c1, e20, c1, f12>> \in Seq(Vertices)
      /\ <<e01, c1, e20, c1, c2>> \in Seq(Vertices) /\ <<c0, e01, c, e12, c>> \in Seq(Vertices)
  BY <1>1
<1> QED
  BY <1>2, <1>3, <1>4

\* A sequence of what may be submitted for a list.
Sendable(list, ps) ==
  ps \in Seq(Params) /\ \A n \in 1..Len(ps) : Within(list, ps[n])

LEMMA SendableVertices ==
  ASSUME NEW ps \in Seq(Vertices), NEW list
  PROVE  Sendable(list, ps)
<1>1. \A n \in 1..Len(ps) : ps[n] \in Vertices /\ ps[n] \in Params
  BY DEF Params
<1>2. Len(ps) \in Nat /\ ps = [n \in 1..Len(ps) |-> ps[n]]
  OBVIOUS
<1>3. ps \in Seq(Params)
  BY <1>1, <1>2
<1> QED
  BY <1>1, <1>3 DEF Sendable, Within

LEMMA SendableBoth ==
  ASSUME NEW ps, NEW qs, NEW list, Sendable(list, ps), Sendable(list, qs)
  PROVE  Sendable(list, ps \o qs) /\ (Len(ps) > 0 => Len(ps \o qs) > 0 /\ (ps \o qs)[1] = ps[1])
<1>1. ps \in Seq(Params) /\ qs \in Seq(Params) /\ Len(ps) \in Nat /\ Len(qs) \in Nat
  BY DEF Sendable
<1>2. /\ ps \o qs \in Seq(Params) /\ Len(ps \o qs) = Len(ps) + Len(qs)
      /\ \A n \in 1..(Len(ps) + Len(qs)) :
           (ps \o qs)[n] = IF n <= Len(ps) THEN ps[n] ELSE qs[n - Len(ps)]
  BY <1>1, ConcatProperties
<1>3. ASSUME NEW n \in 1..(Len(ps) + Len(qs)) PROVE Within(list, (ps \o qs)[n])
  <2>1. CASE n <= Len(ps)
    <3>1. n \in 1..Len(ps) /\ (ps \o qs)[n] = ps[n]
      BY <1>1, <1>2, <2>1
    <3> QED
      BY <3>1 DEF Sendable
  <2>2. CASE ~(n <= Len(ps))
    <3>1. n - Len(ps) \in 1..Len(qs) /\ (ps \o qs)[n] = qs[n - Len(ps)]
      BY <1>1, <1>2, <2>2
    <3> QED
      BY <3>1 DEF Sendable
  <2> QED
    BY <2>1, <2>2
<1>4. Len(ps) > 0 => Len(ps) + Len(qs) > 0 /\ 1 \in 1..(Len(ps) + Len(qs)) /\ 1 <= Len(ps)
  BY <1>1
<1> QED
  BY <1>1, <1>2, <1>3, <1>4 DEF Sendable

\* The list that is open stays open, whatever is submitted for it.
LEMMA Sends ==
  ASSUME NEW s, SubmitOK(s), NEW list, NEW C, NEW ps, Sendable(list, ps),
         ~s.lost => /\ Closes(s.params, C)
                    /\ \/ ListAt(s.params, Len(s.params)) = {list}
                       \/ Len(ps) > 0 /\ ps[1] = Header(list)
  PROVE  LET r == Prims(s, ps)
         IN  /\ SubmitOK(r)
             /\ ~r.lost => Closes(r.params, C) /\ ListAt(r.params, Len(r.params)) = {list}
<1> DEFINE r == Prims(s, ps)
<1>1. /\ ps \in Seq(Params) /\ s.params \in Seq(Params)
      /\ \A n \in 1..Len(ps) : Within(list, ps[n])
  BY DEF Sendable, SubmitOK, Submission
<1>2. SubmitOK(r) /\ (~r.lost => ~s.lost /\ r.params = s.params \o ps)
  BY <1>1, PrimsIs
<1> HIDE DEF r
<1>3. ASSUME ~r.lost
      PROVE  Closes(r.params, C) /\ ListAt(r.params, Len(r.params)) = {list}
  <2> DEFINE t == s.params
  <2>1. /\ t \in Seq(Params) /\ r.params = t \o ps /\ Closes(t, C)
        /\ ListAt(t, Len(t)) = {list} \/ (Len(ps) > 0 /\ ps[1] = Header(list))
    BY <1>1, <1>2, <1>3
  <2> HIDE DEF t
  <2>2. Closes(t \o ps, C)
    BY <1>1, <2>1, ClosesMore
  <2>3. ListAt(t, Len(t)) = {list} => Len(t) > 0
    <3> SUFFICES ASSUME ListAt(t, Len(t)) = {list} PROVE Len(t) > 0
      OBVIOUS
    <3>1. Len(t) \in Nat
      BY <2>1
    <3>2. PICK h : LastHeader(t, Len(t), h)
      BY <3>1, ListAtHeader
    <3> QED
      BY <3>1, <3>2 DEF LastHeader
  <2>4. ListAt(t \o ps, Len(t \o ps)) = {list}
    BY <1>1, <2>1, <2>3, ListStays
  <2> QED
    BY <2>1, <2>2, <2>4
<1> QED
  BY <1>2, <1>3 DEF r

\* The loop goes on, or the list is submitted.
LEMMA ContinueIs ==
  ASSUME SubmitOK(submit), NEW list, NEW C, NEW ps, Sendable(list, ps), NEW step,
         ~submit.lost => /\ Closes(submit.params, C)
                         /\ \/ ListAt(submit.params, Len(submit.params)) = {list}
                            \/ Len(ps) > 0 /\ ps[1] = Header(list),
         Continue(step, ps), queued' \in Vertices \cup {NoVertex}
  PROVE  /\ SubmitOK(submit')
         /\ ~submit'.lost => /\ Closes(submit'.params, C)
                             /\ ListAt(submit'.params, Len(submit'.params)) = {list}
<1> DEFINE q == IF queued' = NoVertex THEN <<>> ELSE <<Flagged(queued', "eol")>>
<1>1. Sendable(list, q)
  <2>1. q \in Seq(Vertices)
    <3>1. CASE queued' = NoVertex
      BY <3>1
    <3>2. CASE queued' # NoVertex
      <4>1. Flagged(queued', "eol") \in Vertices
        BY <3>2, FlaggedIs
      <4>2. q = <<Flagged(queued', "eol")>>
        BY <3>2
      <4> HIDE DEF q
      <4> QED
        BY <4>1, <4>2
    <3> QED
      BY <3>1, <3>2
  <2> HIDE DEF q
  <2> QED
    BY <2>1, SendableVertices
<1>2. submit' = Prims(submit, ps) \/ submit' = Prims(submit, ps \o q)
  BY DEF Continue
<1> HIDE DEF q
<1>3. CASE submit' = Prims(submit, ps)
  BY <1>3, Sends
<1>4. CASE submit' = Prims(submit, ps \o q)
  <2> DEFINE both == ps \o q
  <2>1. Sendable(list, both) /\ (Len(ps) > 0 => Len(both) > 0 /\ both[1] = ps[1])
    BY <1>1, SendableBoth
  <2>2. submit' = Prims(submit, both)
    BY <1>4
  <2> HIDE DEF both
  <2>3. ~submit.lost => /\ Closes(submit.params, C)
                        /\ \/ ListAt(submit.params, Len(submit.params)) = {list}
                           \/ Len(both) > 0 /\ both[1] = Header(list)
    BY <2>1
  <2> QED
    BY <2>1, <2>2, <2>3, Sends
<1> QED
  BY <1>2, <1>3, <1>4

-----------------------------------------------------------------------------
(* The loop of SceneListSubmit.                                            *)

LEMMA LoopStep ==
  ASSUME SceneInv, pc = "strips", NEW list, list \in Lists, list \notin closed, open = {list},
         NEW ps, Sendable(list, ps), NEW step \in {1, 2}, Continue(step, ps),
         queued' \in Vertices \cup {NoVertex},
         i > 1 \/ (Len(ps) > 0 /\ ps[1] = Header(list)),
         verts' \in Seq(Vertices \cup {Header(list)}), Len(verts') = Len(verts),
         \A n \in (i + step)..Len(verts) : verts'[n].kind = verts[n].kind,
         i + step <= Len(verts) - 1 /\ verts[i + step].kind # "header"
           => verts[i + step + 1].kind # "header"
  PROVE  SceneInv'
<1>1. /\ UNCHANGED <<open, closed, ta, bkg, gpu, ended, intr, given>>
      /\ i' = i + step
      /\ pc' = "submitted" \/ (pc' = "strips" /\ i + step <= Len(verts) - 1)
  BY DEF Continue, libpvrVars, deviceVars, libVars, heapVars, gpuVars, waitVars
<1>2. Before /\ TypeOK /\ OpenInv /\ ListInv /\ GpuInv
  BY DEF SceneInv, LoopInv
<1>3. /\ SubmitOK(submit')
      /\ ~submit'.lost => /\ Closes(submit'.params, closed)
                          /\ ListAt(submit'.params, Len(submit'.params)) = {list}
  <2>1. SubmitOK(submit)
    BY <1>2 DEF TypeOK
  <2>2. ~submit.lost => /\ Closes(submit.params, closed)
                        /\ \/ ListAt(submit.params, Len(submit.params)) = {list}
                           \/ Len(ps) > 0 /\ ps[1] = Header(list)
    BY <1>2 DEF ListInv, Drawing
  <2> QED
    BY <2>1, <2>2, ContinueIs
<1>4. TypeOK'
  BY <1>1, <1>2, <1>3 DEF TypeOK
<1>5. LoopInv'
  <2> SUFFICES ASSUME pc' = "strips" PROVE LoopInv'
    BY DEF LoopInv
  <2>1. /\ i \in 1..(Len(verts) - 1) /\ Len(verts) = Len(given) /\ Len(verts) \in Nat
        /\ i + step \in 1..(Len(verts) - 1) /\ i + step # 1
    <3>1. Len(verts) \in Nat
      <4>1. verts \in Seq(Vertices \cup {Header(list)})
        BY DEF SceneInv, LoopInv
      <4> QED
        BY <4>1
    <3> QED
      BY <1>1, <1>2, <3>1 DEF Before
  <2>2. \A n \in (i + step)..Len(verts) : n \in i..Len(verts)
    BY <2>1
  <2>3. \A n \in (i + step)..Len(verts) : verts'[n].kind = given[n].kind
    BY <1>2, <2>2 DEF Before
  <2>4. verts'[i + step].kind = verts[i + step].kind
        /\ verts'[i + step + 1].kind = verts[i + step + 1].kind
    <3>1. i + step \in (i + step)..Len(verts) /\ i + step + 1 \in (i + step)..Len(verts)
      BY <2>1
    <3> QED
      BY <3>1
  <2>5. Before'
    BY <1>1, <1>2, <2>1, <2>3, <2>4 DEF Before, IsHeaderAt
  <2> QED
    BY <1>1, <2>1, <2>5 DEF LoopInv
<1>6. OpenInv' /\ ListInv' /\ FlushInv' /\ GpuInv'
  <2>1. OpenInv'
    BY <1>1, <1>2 DEF OpenInv, Drawing
  <2>2. ListInv'
    BY <1>1, <1>3 DEF ListInv
  <2>3. FlushInv' /\ GpuInv'
    BY <1>1, <1>2 DEF FlushInv, GpuInv
  <2> QED
    BY <2>1, <2>2, <2>3
<1> QED
  BY <1>4, <1>5, <1>6 DEF SceneInv

\* What every step of the loop begins with.
LEMMA LoopFacts ==
  ASSUME SceneInv, pc = "strips"
  PROVE  \E list \in Lists \ closed :
           /\ open = {list}
           /\ verts \in Seq(Vertices \cup {Header(list)})
           /\ i = 1 => verts[1] = Header(list)
           /\ Len(verts) \in Nat /\ i \in 1..(Len(verts) - 1)
           /\ \A n \in 1..Len(verts) :
                IF verts[n].kind = "header" THEN verts[n] = Header(list) ELSE verts[n] \in Vertices
           /\ queued \in Vertices \cup {NoVertex}
<1>1. PICK list \in Lists \ closed : open = {list}
  BY DEF SceneInv, OpenInv, Drawing
<1>2. /\ verts \in Seq(Vertices \cup {Header(list)})
      /\ i = 1 => verts[1] = Header(list)
      /\ queued \in Vertices \cup {NoVertex} /\ i \in 1..(Len(verts) - 1)
  BY <1>1 DEF SceneInv, LoopInv, Before
<1>3. Len(verts) \in Nat /\ \A n \in 1..Len(verts) : verts[n] \in Vertices \cup {Header(list)}
  BY <1>2
<1>4. \A n \in 1..Len(verts) :
        IF verts[n].kind = "header" THEN verts[n] = Header(list) ELSE verts[n] \in Vertices
  BY <1>3, KindsOf
<1> QED
  BY <1>1, <1>2, <1>3, <1>4

\* What was given from the place of the loop on is what is there.
LEMMA KindsAhead ==
  ASSUME SceneInv, pc = "strips", NEW n \in Nat, n > i, n <= Len(verts) - 1, Len(verts) \in Nat,
         verts[n - 1].kind # "vertex", verts[n].kind # "header"
  PROVE  verts[n + 1].kind # "header"
<1>1. Before
  BY DEF SceneInv, LoopInv
<1>2. i \in 1..(Len(verts) - 1) /\ Len(given) = Len(verts)
  BY <1>1 DEF Before
<1>3. /\ n \in 2..(Len(given) - 1)
      /\ n - 1 \in i..Len(verts) /\ n \in i..Len(verts) /\ n + 1 \in i..Len(verts)
  BY <1>2
<1>4. /\ verts[n - 1].kind = given[n - 1].kind /\ verts[n].kind = given[n].kind
      /\ verts[n + 1].kind = given[n + 1].kind
  BY <1>1, <1>3 DEF Before
<1> QED
  BY <1>1, <1>3, <1>4 DEF Before

LEMMA HeaderKeeps == ASSUME SceneInv, HeaderStep PROVE SceneInv'
<1>1. pc = "strips" /\ verts[i].kind = "header"
  BY DEF HeaderStep, IsHeaderAt
<1>2. PICK list \in Lists \ closed :
        /\ open = {list}
        /\ verts \in Seq(Vertices \cup {Header(list)})
        /\ Len(verts) \in Nat /\ i \in 1..(Len(verts) - 1)
        /\ \A n \in 1..Len(verts) :
             IF verts[n].kind = "header" THEN verts[n] = Header(list) ELSE verts[n] \in Vertices
        /\ queued \in Vertices \cup {NoVertex}
  BY <1>1, LoopFacts
<1>3. i \in 1..Len(verts) /\ verts[i] = Header(list)
  BY <1>1, <1>2
<1> DEFINE ps == <<Header(list)>>
<1>4. Sendable(list, ps) /\ Len(ps) > 0 /\ ps[1] = Header(list)
  <2>1. Header(list) \in Params
    BY DEF Params, Headers
  <2> QED
    BY <2>1 DEF Sendable, Within
<1>5. Continue(1, ps) /\ verts' = verts /\ queued' = queued
  BY <1>3 DEF HeaderStep
<1>6. i + 1 <= Len(verts) - 1 /\ verts[i + 1].kind # "header" => verts[i + 1 + 1].kind # "header"
  <2> SUFFICES ASSUME i + 1 <= Len(verts) - 1, verts[i + 1].kind # "header"
               PROVE  verts[i + 1 + 1].kind # "header"
    OBVIOUS
  <2> DEFINE n == i + 1
  <2>1. n \in Nat /\ n > i /\ n <= Len(verts) - 1 /\ n - 1 = i
    BY <1>2
  <2>2. verts[n - 1].kind # "vertex"
    BY <1>1, <2>1
  <2> HIDE DEF n
  <2> QED
    BY <1>1, <1>2, <2>1, <2>2, KindsAhead DEF n
<1> HIDE DEF ps
<1> QED
  BY <1>1, <1>2, <1>4, <1>5, <1>6, LoopStep

\* The vertex that is queued is submitted first.
LEMMA QueuedIs ==
  ASSUME queued \in Vertices \cup {NoVertex}
  PROVE  AsQueued \in Seq(Vertices) /\ Queued("eol") \in Seq(Vertices)
<1>1. CASE queued = NoVertex
  BY <1>1 DEF AsQueued, Queued
<1>2. CASE queued # NoVertex
  <2>1. queued \in Vertices /\ Flagged(queued, "eol") \in Vertices
    BY <1>2, FlaggedIs
  <2> QED
    BY <1>2, <2>1 DEF AsQueued, Queued
<1> QED
  BY <1>1, <1>2

LEMMA BothVertices ==
  ASSUME NEW s \in Seq(Vertices), NEW t \in Seq(Vertices)
  PROVE  s \o t \in Seq(Vertices)
  BY ConcatProperties

LEMMA TrailingKeeps == ASSUME SceneInv, TrailingStep PROVE SceneInv'
<1>1. pc = "strips" /\ verts[i].kind # "header" /\ Trailing /\ queued' = NoVertex
  BY DEF TrailingStep, IsHeaderAt
<1>2. PICK list \in Lists \ closed :
        /\ open = {list}
        /\ verts \in Seq(Vertices \cup {Header(list)})
        /\ i = 1 => verts[1] = Header(list)
        /\ Len(verts) \in Nat /\ i \in 1..(Len(verts) - 1)
        /\ \A n \in 1..Len(verts) :
             IF verts[n].kind = "header" THEN verts[n] = Header(list) ELSE verts[n] \in Vertices
        /\ queued \in Vertices \cup {NoVertex}
  BY <1>1, LoopFacts
<1>3. i > 1
  BY <1>1, <1>2, KindsOf
<1>4. verts[i + 1].kind # "header"
  BY <1>1 DEF SceneInv, LoopInv, Before, IsHeaderAt
<1>5. /\ i \in 1..Len(verts) /\ i + 1 \in 1..Len(verts) /\ DOMAIN verts = 1..Len(verts)
      /\ verts[i] \in Vertices /\ verts[i + 1] \in Vertices
  BY <1>1, <1>2, <1>4
<1> DEFINE v0 == Divided(verts[i])
           v1 == Flagged(Divided(verts[i + 1]), "eol")
<1>6. v0 \in Vertices /\ v1 \in Vertices
  BY <1>5, DividedIs, FlaggedIs
<1>7. i + 2 <= Len(verts) - 1 /\ verts[i + 2].kind # "header" => verts[i + 2 + 1].kind # "header"
  <2> SUFFICES ASSUME i + 2 <= Len(verts) - 1, verts[i + 2].kind # "header"
               PROVE  verts[i + 2 + 1].kind # "header"
    OBVIOUS
  <2> DEFINE n == i + 2
  <2>1. n \in Nat /\ n > i /\ n <= Len(verts) - 1 /\ n - 1 = i + 1 /\ n \in 1..Len(verts)
    BY <1>2
  <2>2. verts[n - 1].kind # "vertex"
    BY <1>1, <1>5, <2>1 DEF Trailing, IsHeaderAt
  <2> HIDE DEF n
  <2> QED
    BY <1>1, <1>2, <2>1, <2>2, KindsAhead DEF n
<1>8. CASE mask = {1, 2, 3}
  <2>1. /\ verts' = [verts EXCEPT ![i] = v0, ![i + 1] = v1]
        /\ Continue(2, AsQueued \o <<v0, v1>>)
    BY <1>8 DEF TrailingStep
  <2> HIDE DEF v0, v1
  <2>2. Sendable(list, AsQueued \o <<v0, v1>>)
    <3>1. <<v0, v1>> \in Seq(Vertices) /\ AsQueued \in Seq(Vertices)
      BY <1>2, <1>6, QueuedIs
    <3> DEFINE ps == AsQueued \o <<v0, v1>>
    <3>2. ps \in Seq(Vertices)
      BY <3>1, BothVertices
    <3> HIDE DEF ps
    <3>3. Sendable(list, ps)
      BY <3>2, SendableVertices
    <3> QED
      BY <3>3 DEF ps
  <2>3. verts' \in Seq(Vertices \cup {Header(list)}) /\ Len(verts') = Len(verts)
    BY <1>2, <1>5, <1>6, <2>1
  <2>4. \A n \in (i + 2)..Len(verts) : verts'[n].kind = verts[n].kind
    <3> TAKE n \in (i + 2)..Len(verts)
    <3>1. n \in 1..Len(verts) /\ n # i /\ n # i + 1
      BY <1>2
    <3> QED
      BY <1>5, <2>1, <3>1
  <2> QED
    BY <1>1, <1>2, <1>3, <1>7, <2>1, <2>2, <2>3, <2>4, LoopStep
<1>9. CASE mask # {1, 2, 3}
  <2>1. verts' = verts /\ Continue(2, Queued("eol"))
    BY <1>9 DEF TrailingStep
  <2>2. Sendable(list, Queued("eol"))
    BY <1>2, QueuedIs, SendableVertices
  <2> QED
    BY <1>1, <1>2, <1>3, <1>7, <2>1, <2>2, LoopStep
<1> QED
  BY <1>8, <1>9

LEMMA TriangleKeeps == ASSUME SceneInv, TriangleStep PROVE SceneInv'
<1>1. pc = "strips" /\ verts[i].kind # "header" /\ ~Trailing
  BY DEF TriangleStep, IsHeaderAt
<1>2. PICK list \in Lists \ closed :
        /\ open = {list}
        /\ verts \in Seq(Vertices \cup {Header(list)})
        /\ i = 1 => verts[1] = Header(list)
        /\ Len(verts) \in Nat /\ i \in 1..(Len(verts) - 1)
        /\ \A n \in 1..Len(verts) :
             IF verts[n].kind = "header" THEN verts[n] = Header(list) ELSE verts[n] \in Vertices
        /\ queued \in Vertices \cup {NoVertex}
  BY <1>1, LoopFacts
<1>3. i > 1
  BY <1>1, <1>2, KindsOf
<1>4. verts[i + 1].kind # "header"
  BY <1>1 DEF SceneInv, LoopInv, Before, IsHeaderAt
<1>5. /\ DOMAIN verts = 1..Len(verts)
      /\ i \in 1..Len(verts) /\ i + 1 \in 1..Len(verts) /\ i + 2 \in 1..Len(verts)
      /\ verts[i + 2].kind # "header"
  BY <1>1, <1>2 DEF Trailing, IsHeaderAt
<1>6. verts[i] \in Vertices /\ verts[i + 1] \in Vertices /\ verts[i + 2] \in Vertices
  BY <1>1, <1>2, <1>4, <1>5
<1> DEFINE c == Clipped(VisibleMask, verts[i], verts[i + 1], verts[i + 2])
           ps == IF c = <<>> THEN Queued("eol") ELSE AsQueued \o Front(c)
<1>7. c \in Seq(Vertices)
  <2>1. VisibleMask \in SUBSET (1..3)
    BY DEF VisibleMask
  <2> QED
    BY <1>6, <2>1, ClippedIs
<1>8. /\ queued' = IF c = <<>> THEN NoVertex ELSE Last(c)
      /\ verts' = IF 1 \in VisibleMask THEN [verts EXCEPT ![i] = Divided(@)] ELSE verts
      /\ Continue(1, ps)
  BY DEF TriangleStep
<1> HIDE DEF c
<1>9. c # <<>> => Last(c) \in Vertices /\ Front(c) \in Seq(Vertices)
  <2> SUFFICES ASSUME c # <<>> PROVE Last(c) \in Vertices /\ Front(c) \in Seq(Vertices)
    OBVIOUS
  <2>1. Len(c) \in Nat /\ Len(c) # 0
    BY <1>7
  <2>2. \A n \in 1..(Len(c) - 1) : c[n] \in Vertices
    BY <1>7
  <2>3. SubSeq(c, 1, Len(c) - 1) \in Seq(Vertices)
    BY <1>7, <2>1, <2>2, SubSeqProperties
  <2> QED
    BY <1>7, <2>1, <2>3 DEF Last, Front
<1>10. queued' \in Vertices \cup {NoVertex}
  BY <1>8, <1>9
<1>11. Sendable(list, ps)
  <2>1. ps \in Seq(Vertices)
    BY <1>2, <1>9, QueuedIs, BothVertices
  <2> HIDE DEF ps
  <2> QED
    BY <2>1, SendableVertices
<1>12. /\ verts' \in Seq(Vertices \cup {Header(list)}) /\ Len(verts') = Len(verts)
       /\ \A n \in (i + 1)..Len(verts) : verts'[n].kind = verts[n].kind
  <2> DEFINE d == Divided(verts[i])
  <2>1. d \in Vertices
    BY <1>6, DividedIs
  <2>2. verts' = verts \/ verts' = [verts EXCEPT ![i] = d]
    BY <1>8
  <2> HIDE DEF d
  <2>3. \A n \in (i + 1)..Len(verts) : n \in 1..Len(verts) /\ n # i
    BY <1>2
  <2>4. CASE verts' = [verts EXCEPT ![i] = d]
    <3>1. verts' \in Seq(Vertices \cup {Header(list)}) /\ Len(verts') = Len(verts)
      BY <1>2, <1>5, <2>1, <2>4
    <3>2. \A n \in (i + 1)..Len(verts) : verts'[n] = verts[n]
      BY <1>5, <2>3, <2>4
    <3> QED
      BY <3>1, <3>2
  <2>5. CASE verts' = verts
    BY <1>2, <2>5
  <2> QED
    BY <2>2, <2>4, <2>5
<1>13. i + 1 <= Len(verts) - 1 /\ verts[i + 1].kind # "header" => verts[i + 1 + 1].kind # "header"
  <2>1. i + 1 + 1 = i + 2
    BY <1>2
  <2> QED
    BY <1>5, <2>1
<1> HIDE DEF ps
<1> QED
  BY <1>1, <1>2, <1>3, <1>8, <1>10, <1>11, <1>12, <1>13, LoopStep

-----------------------------------------------------------------------------
(* A frame.                                                                *)

LEMMA StartKeeps ==
  ASSUME SceneInv, NEW list \in open, NEW v \in Vectors[list], SubmitStart(v[1], v[2])
  PROVE  SceneInv'
<1>1. pc = "list" /\ open = {list} /\ list \in Lists \ closed
  BY DEF SubmitStart, SceneInv, OpenInv, Drawing
<1> DEFINE s == v[1]
<1>2. Drawable(list, s)
  BY <1>1, GLdcAssumption
<1>3. /\ verts' = s /\ given' = s /\ i' = 1 /\ queued' = NoVertex
      /\ pc' = IF Len(s) < 4 THEN "submitted" ELSE "strips"
      /\ UNCHANGED <<open, closed, submit, ta, bkg, gpu, ended, intr>>
  BY DEF SubmitStart, libpvrVars, deviceVars, libVars, heapVars, gpuVars, waitVars, listVars
<1> HIDE DEF s
<1>4. /\ Len(s) \in Nat /\ s = [n \in 1..Len(s) |-> s[n]] /\ Len(s) >= 4 /\ s[1] = Header(list)
      /\ \A n \in 1..Len(s) :
           s[n] = Header(list) \/ (/\ s[n].kind \in {"vertex", "eol"} /\ s[n].p[1] \in Nat
                                   /\ s[n] = Corner(s[n].p[1], s[n].kind))
      /\ \A n \in 2..(Len(s) - 1) :
           s[n - 1].kind # "vertex" /\ s[n].kind # "header" => s[n + 1].kind # "header"
  BY <1>2 DEF Drawable
<1>5. \A k \in Nat, flags \in {"vertex", "eol"} : Corner(k, flags) \in Vertices
  BY DEF Corner, Vertices
<1>6. \A n \in 1..Len(s) : s[n] \in Vertices \cup {Header(list)}
  BY <1>4, <1>5
<1>7. s \in Seq(Vertices \cup {Header(list)})
  BY <1>4, <1>6
<1>8. Before'
  <2>1. 1 \in 1..(Len(s) - 1) /\ 1 \in 1..Len(s)
    BY <1>4
  <2>2. s[1].kind = "header"
    BY <1>4, KindsOf
  <2> QED
    BY <1>3, <1>4, <2>1, <2>2 DEF Before, IsHeaderAt
<1>9. LoopInv'
  BY <1>1, <1>3, <1>4, <1>7, <1>8 DEF LoopInv
<1>10. pc' = "strips"
  BY <1>3, <1>4
<1>11. TypeOK' /\ OpenInv' /\ ListInv' /\ FlushInv' /\ GpuInv'
  <2>1. TypeOK'
    BY <1>3, <1>10 DEF SceneInv, TypeOK
  <2>2. OpenInv' /\ ListInv'
    BY <1>1, <1>3, <1>10 DEF SceneInv, OpenInv, ListInv, Drawing
  <2>3. FlushInv' /\ GpuInv'
    BY <1>1, <1>3, <1>10 DEF SceneInv, FlushInv, GpuInv
  <2> QED
    BY <2>1, <2>2, <2>3
<1> QED
  BY <1>9, <1>11 DEF SceneInv

LEMMA FinishKeeps == ASSUME SceneInv, ListFinish, Forget PROVE SceneInv'
<1>1. /\ pc = "submitted" /\ pc' = "scene" /\ open' = {} /\ closed' = closed \cup open
      /\ submit' = Prim(submit, EndOfList)
      /\ UNCHANGED <<ta, bkg, gpu, ended, intr>>
  BY DEF ListFinish, deviceVars, libVars, heapVars, gpuVars, waitVars
<1>2. PICK list \in Lists \ closed : open = {list}
  BY <1>1 DEF SceneInv, OpenInv, Drawing
<1>3. /\ SubmitOK(submit) /\ submit.params \in Seq(Params)
      /\ ~submit.lost => /\ Closes(submit.params, closed)
                         /\ ListAt(submit.params, Len(submit.params)) = {list}
  BY <1>1, <1>2 DEF SceneInv, TypeOK, SubmitOK, Submission, ListInv, Drawing
<1>4. EndOfList \in Params
  BY DEF Params
<1>5. /\ SubmitOK(submit')
      /\ ~submit'.lost => ~submit.lost /\ submit'.params = Append(submit.params, EndOfList)
  BY <1>1, <1>3, <1>4, PrimIs
<1>6. ~submit'.lost => /\ Closes(submit'.params, closed \cup {list})
                       /\ Len(submit'.params) \in Ends(submit'.params)
  <2> SUFFICES ASSUME ~submit'.lost
               PROVE  /\ Closes(submit'.params, closed \cup {list})
                      /\ Len(submit'.params) \in Ends(submit'.params)
    OBVIOUS
  <2>1. /\ Closes(submit.params, closed) /\ list \notin closed
        /\ ListAt(submit.params, Len(submit.params)) = {list}
        /\ submit'.params = Append(submit.params, EndOfList)
    BY <1>2, <1>3, <1>5
  <2> QED
    BY <1>3, <2>1, ClosesOne
<1>7. TypeOK'
  BY <1>1, <1>5 DEF SceneInv, TypeOK
<1>8. LoopInv' /\ OpenInv' /\ FlushInv' /\ GpuInv'
  BY <1>1 DEF SceneInv, LoopInv, OpenInv, FlushInv, GpuInv, Drawing
<1>9. ListInv'
  BY <1>1, <1>2, <1>6 DEF ListInv
<1> QED
  BY <1>7, <1>8, <1>9 DEF SceneInv

\* The lists that were not drawn are closed before everything is written.
LEMMA FlushKeeps == ASSUME SceneInv, SceneFinish, UNCHANGED clipVars PROVE SceneInv'
<1> DEFINE s == IF Blanks = {} THEN submit ELSE Prims(submit, <<Blank(OP_POLY), EndOfList>>)
<1>1. /\ pc = "scene" /\ pc' = "flushed"
      /\ ta' = ta \o s.params /\ bkg' = s.len
      /\ submit' = [s EXCEPT !.params = <<>>, !.len = 0]
      /\ UNCHANGED <<open, closed, gpu, ended, intr>>
  BY DEF SceneFinish, deviceVars, libVars, heapVars, waitVars
<1>2. /\ SubmitOK(submit) /\ submit.params \in Seq(Params) /\ ta = <<>>
      /\ ~submit.lost => /\ Closes(submit.params, closed)
                         /\ \/ submit.params = <<>>
                            \/ Len(submit.params) \in Ends(submit.params)
  BY <1>1 DEF SceneInv, TypeOK, SubmitOK, Submission, ListInv, OpenInv
<1>3. SubmitOK(s) /\ (~s.lost => Whole(s.params))
  <2>1. CASE Blanks = {}
    <3>1. s = submit
      BY <2>1
    <3>2. OP_POLY \in closed
      BY <2>1 DEF Blanks, LISTS_ENABLED
    <3>3. ASSUME ~submit.lost PROVE Whole(submit.params)
      <4>1. PICK k \in Ends(submit.params) : ListAt(submit.params, k) = {OP_POLY}
        BY <1>2, <3>2, <3>3 DEF Closes
      <4>2. submit.params # <<>>
        BY <4>1 DEF Ends
      <4> QED
        BY <1>2, <3>2, <3>3, <4>2, ClosesWhole
    <3> QED
      BY <1>2, <3>1, <3>3
  <2>2. CASE Blanks # {}
    <3> DEFINE p == submit.params
               h == Blank(OP_POLY)
    <3>1. OP_POLY \notin closed /\ h = Header(OP_POLY) /\ OP_POLY \in Lists
      BY <2>2 DEF Blanks, LISTS_ENABLED, Blank, Header, Lists
    <3>2. h \in Params /\ EndOfList \in Params
      BY <3>1 DEF Params, Headers
    <3>3. <<h, EndOfList>> \in Seq(Params) /\ p \in Seq(Params)
      BY <1>2, <3>2
    <3>4. s = Prims(submit, <<h, EndOfList>>)
      BY <2>2
    <3> HIDE DEF s, h
    <3>5. SubmitOK(s) /\ (~s.lost => ~submit.lost /\ s.params = p \o <<h, EndOfList>>)
      BY <1>2, <3>3, <3>4, PrimsIs
    <3>6. p \o <<h, EndOfList>> = Append(p \o <<h>>, EndOfList)
      <4>1. <<h>> \in Seq(Params) /\ Append(<<h>>, EndOfList) = <<h, EndOfList>>
        <5> DEFINE x == Append(<<h>>, EndOfList)
                   y == <<h, EndOfList>>
        <5>1. <<h>> \in Seq(Params) /\ Len(<<h>>) = 1 /\ <<h>>[1] = h
          BY <3>2
        <5>2. x \in Seq(Params) /\ Len(x) = 2 /\ x[1] = h /\ x[2] = EndOfList
          BY <3>2, <5>1
        <5>3. y \in Seq(Params) /\ Len(y) = 2 /\ y[1] = h /\ y[2] = EndOfList
          BY <3>2
        <5> HIDE DEF x, y
        <5>4. \A n \in 1..2 : x[n] = y[n]
          BY <5>2, <5>3
        <5>5. x = y
          BY <5>2, <5>3, <5>4, SeqEqual
        <5> QED
          BY <5>1, <5>5 DEF x, y
      <4> HIDE DEF p
      <4> QED
        BY <3>2, <3>3, <4>1, ConcatAppend
    <3>7. ASSUME ~s.lost PROVE Whole(s.params)
      <4> DEFINE q == p \o <<h>>
                 t == <<h>>
      <4>1. /\ t \in Seq(Params) /\ Len(t) = 1 /\ t[1] = Header(OP_POLY)
            /\ \A n \in 1..Len(t) : Within(OP_POLY, t[n])
        BY <3>1, <3>2 DEF Within
      <4>2. Closes(p, closed)
        BY <1>2, <3>5, <3>7
      <4> HIDE DEF p, t
      <4>3. Closes(p \o t, closed)
        BY <3>3, <4>1, <4>2, ClosesMore
      <4>4. ListAt(p \o t, Len(p \o t)) = {OP_POLY}
        BY <3>3, <4>1, ListStays
      <4>5. p \o t \in Seq(Params) /\ q = p \o t
        BY <3>3, <4>1 DEF t
      <4> HIDE DEF q
      <4>6. /\ Closes(Append(q, EndOfList), closed \cup {OP_POLY})
            /\ Len(Append(q, EndOfList)) \in Ends(Append(q, EndOfList))
        BY <3>1, <4>3, <4>4, <4>5, ClosesOne
      <4>7. Append(q, EndOfList) \in Seq(Params) /\ s.params = Append(q, EndOfList)
        BY <3>2, <3>5, <3>6, <3>7, <4>5 DEF q
      <4> QED
        BY <4>6, <4>7, ClosesWhole
    <3> QED
      BY <3>5, <3>7
  <2> QED
    BY <2>1, <2>2
<1> HIDE DEF s
<1>4. s \in Submission /\ s.params \in Seq(Params) /\ s.len \in Nat /\ s.lost \in BOOLEAN
      /\ s.len = Units(s.params) /\ s.len <= SubmitMax
  BY <1>3 DEF SubmitOK, Submission
<1>5. ta' = s.params
  BY <1>1, <1>2, <1>4
<1>6. submit' = [params |-> <<>>, len |-> 0, lost |-> s.lost]
  BY <1>1, <1>4 DEF Submission
<1>7. SubmitOK(submit')
  <2>1. submit'.params = <<>> /\ submit'.len = 0 /\ submit' \in Submission
    BY <1>4, <1>6 DEF Submission
  <2> QED
    BY <2>1, UnitsEmpty, PvrAssumption DEF SubmitOK
<1>8. TypeOK'
  BY <1>1, <1>4, <1>5, <1>7 DEF SceneInv, TypeOK
<1>9. FlushInv'
  <2>1. submit'.lost = s.lost
    BY <1>6
  <2> QED
    BY <1>1, <1>3, <1>4, <1>5, <2>1 DEF FlushInv
<1>10. LoopInv' /\ OpenInv' /\ ListInv' /\ GpuInv'
  BY <1>1 DEF SceneInv, LoopInv, OpenInv, ListInv, GpuInv, Drawing
<1> QED
  BY <1>8, <1>9, <1>10 DEF SceneInv

LEMMA BeginKeeps == ASSUME SceneInv, SceneBegin, UNCHANGED clipVars PROVE SceneInv'
<1>1. pc = "vsync" /\ UNCHANGED <<bkg, gpu, ended, intr>>
  BY DEF SceneBegin
<1>2. CASE lib = "ready"
  <2>1. /\ pc' = "scene" /\ open' = {} /\ closed' = {} /\ submit' = NoSubmit /\ ta' = <<>>
    BY <1>2 DEF SceneBegin, TaRegSetup
  <2>2. NoSubmit.params = <<>> /\ NoSubmit.len = 0 /\ NoSubmit \in Submission
    BY DEF NoSubmit, Submission
  <2>3. SubmitOK(submit')
    BY <2>1, <2>2, UnitsEmpty, PvrAssumption DEF SubmitOK
  <2>4. TypeOK'
    BY <1>1, <2>1, <2>3 DEF SceneInv, TypeOK
  <2>5. ListInv'
    BY <2>1, <2>2, ClosesNothing DEF ListInv
  <2>6. LoopInv' /\ OpenInv' /\ FlushInv' /\ GpuInv'
    BY <1>1, <2>1 DEF SceneInv, LoopInv, OpenInv, FlushInv, GpuInv, Drawing
  <2> QED
    BY <2>4, <2>5, <2>6 DEF SceneInv
<1>3. CASE lib # "ready"
  <2>1. pc' = "idle" /\ UNCHANGED <<open, closed, submit, ta>>
    BY <1>3 DEF SceneBegin, listVars
  <2>2. TypeOK'
    BY <1>1, <2>1 DEF SceneInv, TypeOK
  <2>3. LoopInv' /\ OpenInv' /\ ListInv' /\ FlushInv' /\ GpuInv'
    BY <1>1, <2>1 DEF SceneInv, LoopInv, OpenInv, ListInv, FlushInv, GpuInv, Drawing
  <2> QED
    BY <2>2, <2>3 DEF SceneInv
<1> QED
  BY <1>2, <1>3

\* Steps that leave the scene, the lists and the render alone.
LEMMA SceneSame ==
  ASSUME SceneInv, UNCHANGED <<pc, listVars, ta, bkg, gpu, ended, intr, clipVars>>
  PROVE  SceneInv'
<1>1. UNCHANGED <<pc, open, closed, submit, ta, bkg, gpu, ended, intr, verts, i, queued, given>>
  BY DEF listVars, clipVars
<1>2. TypeOK'
  BY <1>1 DEF SceneInv, TypeOK
<1>3. LoopInv'
  BY <1>1 DEF SceneInv, LoopInv, Before, IsHeaderAt
<1>4. OpenInv' /\ ListInv' /\ FlushInv' /\ GpuInv'
  BY <1>1 DEF SceneInv, OpenInv, ListInv, FlushInv, GpuInv, Drawing
<1> QED
  BY <1>2, <1>3, <1>4 DEF SceneInv

LEMMA LibKeeps == ASSUME SceneInv, LibStep, UNCHANGED clipVars PROVE SceneInv'
<1> USE DEF deviceVars, libVars, heapVars, listVars, gpuVars, waitVars
<1>1. CASE PvrInit
  <2>1. /\ pc = "idle" /\ gpu' \in {gpu, "idle"} /\ ta' \in {ta, <<>>}
        /\ UNCHANGED <<pc, open, closed, submit, bkg, ended, intr>>
    BY <1>1 DEF PvrInit, TaRegSetup
  <2>2. TypeOK'
    <3>1. gpu' \in {"idle", "busy"} /\ ta' \in Seq(Params)
      <4>1. gpu \in {"idle", "busy"} /\ ta \in Seq(Params)
        BY DEF SceneInv, TypeOK
      <4>2. <<>> \in Seq(Params)
        OBVIOUS
      <4> QED
        BY <2>1, <4>1, <4>2
    <3> QED
      BY <2>1, <3>1 DEF SceneInv, TypeOK
  <2>3. LoopInv' /\ OpenInv' /\ ListInv' /\ FlushInv' /\ GpuInv'
    BY <2>1 DEF SceneInv, LoopInv, OpenInv, ListInv, FlushInv, GpuInv, Drawing
  <2> QED
    BY <2>2, <2>3 DEF SceneInv
<1>2. CASE PvrShutdown
  BY <1>2, SceneSame DEF PvrShutdown
<1>3. CASE \E t \in Textures, l \in Lists : LoadTexture(t, l)
  BY <1>3, SceneSame DEF LoadTexture
<1>4. CASE \E l \in Lists : PlainHeader(l)
  BY <1>4, SceneSame DEF PlainHeader
<1>5. CASE \E l \in Lists : ListBegin(l)
  <2>1. PICK list \in Lists : ListBegin(list)
    BY <1>5
  <2>2. /\ pc = "scene" /\ pc' = "list" /\ open' = {list} /\ list \notin closed
        /\ UNCHANGED <<closed, submit, ta, bkg, gpu, ended, intr>>
    <3>1. list \in Int
      BY DEF Lists, OP_POLY, TR_POLY
    <3>2. pc = "scene" /\ \A l \in closed : l < list
      BY <2>1 DEF ListBegin
    <3>3. list \notin closed
      BY <3>1, <3>2
    <3> QED
      BY <2>1, <3>3 DEF ListBegin
  <2>3. TypeOK'
    BY <2>2 DEF SceneInv, TypeOK
  <2>4. OpenInv' /\ ListInv'
    BY <2>2 DEF SceneInv, OpenInv, ListInv, Drawing
  <2>5. LoopInv' /\ FlushInv' /\ GpuInv'
    BY <2>2 DEF SceneInv, LoopInv, FlushInv, GpuInv
  <2> QED
    BY <2>3, <2>4, <2>5 DEF SceneInv
<1>6. CASE WaitReady
  <2>1. /\ pc = "idle" /\ pc' = "vsync"
        /\ UNCHANGED <<open, closed, submit, ta, bkg, gpu, ended, intr>>
    BY <1>6 DEF WaitReady
  <2>2. TypeOK'
    BY <2>1 DEF SceneInv, TypeOK
  <2>3. LoopInv' /\ OpenInv' /\ ListInv' /\ FlushInv' /\ GpuInv'
    BY <2>1 DEF SceneInv, LoopInv, OpenInv, ListInv, FlushInv, GpuInv, Drawing
  <2> QED
    BY <2>2, <2>3 DEF SceneInv
<1>7. CASE SceneFinish
  BY <1>7, FlushKeeps
<1>8. CASE Render
  <2>1. /\ pc = "flushed" /\ pc' = "started" /\ gpu' = "busy"
        /\ intr' = (intr /\ gpu = "busy")
        /\ bkg' = IF bkg <= VertBuf - 2 THEN bkg ELSE Fallback
        /\ UNCHANGED <<open, closed, submit, ta, ended>>
    BY <1>8 DEF Render
  <2>2. TypeOK'
    <3>1. bkg' \in Nat /\ intr' \in BOOLEAN
      BY <2>1, PvrAssumption DEF SceneInv, TypeOK
    <3> QED
      BY <2>1, <3>1 DEF SceneInv, TypeOK
  <2>3. FlushInv'
    <3>1. bkg <= SubmitMax => bkg' = bkg
      BY <2>1, PvrAssumption DEF SceneInv, TypeOK
    <3> QED
      BY <2>1, <3>1 DEF SceneInv, FlushInv
  <2>4. LoopInv' /\ OpenInv' /\ ListInv' /\ GpuInv'
    BY <2>1 DEF SceneInv, LoopInv, OpenInv, ListInv, GpuInv, Drawing
  <2> QED
    BY <2>2, <2>3, <2>4 DEF SceneInv
<1>9. CASE WaitRender
  <2>1. /\ pc = "started" /\ pc' = "wait" /\ ended' = FALSE
        /\ UNCHANGED <<open, closed, submit, ta, bkg, gpu, intr>>
    BY <1>9 DEF WaitRender
  <2>2. TypeOK'
    BY <2>1 DEF SceneInv, TypeOK
  <2>3. LoopInv' /\ OpenInv' /\ ListInv' /\ FlushInv' /\ GpuInv'
    BY <2>1 DEF SceneInv, LoopInv, OpenInv, ListInv, FlushInv, GpuInv, Drawing
  <2> QED
    BY <2>2, <2>3 DEF SceneInv
<1>10. CASE WaitEnds
  <2>1. /\ pc = "wait" /\ ended /\ pc' = "idle" /\ ended' = FALSE
        /\ UNCHANGED <<open, closed, submit, ta, bkg, gpu, intr>>
    BY <1>10 DEF WaitEnds
  <2>2. TypeOK'
    BY <2>1 DEF SceneInv, TypeOK
  <2>3. LoopInv' /\ OpenInv' /\ ListInv' /\ FlushInv' /\ GpuInv'
    BY <2>1 DEF SceneInv, LoopInv, OpenInv, ListInv, FlushInv, GpuInv, Drawing
  <2> QED
    BY <2>2, <2>3 DEF SceneInv
<1>11. CASE ReadyEnds \/ (pc = "vsync" /\ ~vsync /\ SceneBegin)
  BY <1>11, BeginKeeps DEF ReadyEnds
<1>12. CASE Signal /\ pc = "wait"
  <2>1. /\ pc = "wait"
        /\ \/ pc' = "started" /\ UNCHANGED intr
           \/ pc' = "idle" /\ intr' = (gpu = "busy")
        /\ UNCHANGED <<open, closed, submit, ta, bkg, gpu, ended>>
    BY <1>12 DEF Signal
  <2>2. TypeOK'
    BY <2>1 DEF SceneInv, TypeOK
  <2>3. LoopInv' /\ OpenInv' /\ ListInv' /\ FlushInv' /\ GpuInv'
    BY <2>1 DEF SceneInv, LoopInv, OpenInv, ListInv, FlushInv, GpuInv, Drawing
  <2> QED
    BY <2>2, <2>3 DEF SceneInv
<1>13. Signal => (Signal /\ pc = "wait") \/ (pc = "vsync" /\ ~vsync /\ SceneBegin)
  BY DEF Signal
<1> QED
  BY <1>1, <1>2, <1>3, <1>4, <1>5, <1>6, <1>7, <1>8, <1>9, <1>10, <1>11, <1>12, <1>13
     DEF LibStep

LEMMA HardwareKeeps == ASSUME SceneInv, Hardware, UNCHANGED clipVars PROVE SceneInv'
<1> USE DEF deviceVars, libVars, heapVars, listVars, gpuVars, waitVars
<1>1. CASE RenderEnd
  <2>1. /\ gpu' = "idle" /\ ended' = (pc = "wait") /\ intr' = FALSE
        /\ UNCHANGED <<pc, open, closed, submit, ta, bkg>>
    BY <1>1 DEF RenderEnd
  <2>2. TypeOK'
    <3>1. ended' \in BOOLEAN /\ intr' \in BOOLEAN
      BY <2>1
    <3> QED
      BY <2>1, <3>1 DEF SceneInv, TypeOK
  <2>3. LoopInv' /\ OpenInv' /\ ListInv' /\ FlushInv' /\ GpuInv'
    <3>1. LoopInv'
      BY <2>1 DEF SceneInv, LoopInv, Before, IsHeaderAt, clipVars
    <3>2. OpenInv' /\ ListInv'
      BY <2>1 DEF SceneInv, OpenInv, ListInv, Drawing, clipVars
    <3>3. FlushInv' /\ GpuInv'
      BY <2>1 DEF SceneInv, FlushInv, GpuInv
    <3> QED
      BY <3>1, <3>2, <3>3
  <2> QED
    BY <2>2, <2>3 DEF SceneInv
<1>2. CASE Vsync
  BY <1>2, SceneSame DEF Vsync
<1> QED
  BY <1>1, <1>2 DEF Hardware

LEMMA SceneInvInit == Init => SceneInv
<1> SUFFICES ASSUME Init PROVE SceneInv
  OBVIOUS
<1>1. /\ pc = "idle" /\ open = {} /\ closed = {} /\ submit = NoSubmit
      /\ ta = <<>> /\ bkg = 0 /\ gpu = "idle" /\ ended = FALSE /\ intr = FALSE
  BY DEF Init, SceneInit
<1>2. SubmitOK(submit)
  <2>1. NoSubmit.params = <<>> /\ NoSubmit.len = 0 /\ NoSubmit \in Submission
    BY DEF NoSubmit, Submission
  <2> QED
    BY <1>1, <2>1, UnitsEmpty, PvrAssumption DEF SubmitOK
<1>3. TypeOK
  <2>1. ta \in Seq(Params) /\ bkg \in Nat
    BY <1>1
  <2> QED
    BY <1>1, <1>2, <2>1 DEF TypeOK
<1> QED
  BY <1>1, <1>3 DEF SceneInv, LoopInv, OpenInv, ListInv, FlushInv, GpuInv, Drawing

LEMMA SceneInvNext == SceneInv /\ [Next]_vars => SceneInv'
<1> SUFFICES ASSUME SceneInv, [Next]_vars PROVE SceneInv'
  OBVIOUS
<1>1. CASE Submit
  BY <1>1, StartKeeps, HeaderKeeps, TrailingKeeps, TriangleKeeps DEF Submit
<1>2. CASE ListFinish /\ Forget
  BY <1>2, FinishKeeps
<1>3. CASE (LibStep \/ Hardware) /\ UNCHANGED clipVars
  BY <1>3, LibKeeps, HardwareKeeps
<1>4. CASE UNCHANGED vars
  BY <1>4, SceneSame
     DEF vars, sceneVars, listVars, gpuVars, waitVars, clipVars
<1> QED
  BY <1>1, <1>2, <1>3, <1>4 DEF Next

-----------------------------------------------------------------------------
(* Theorems.                                                               *)

\* A list that is open has no end yet and one header at least, the lists that are
\* closed have one end each, and what was written is such a scene from pvr_scene_finish
\* to the end of the render that is waited for.
THEOREM SceneInvHolds == Spec => []SceneInv
  BY SceneInvInit, SceneInvNext, PTL DEF Spec

\* Whatever strips GLdc was given, and whatever of them is clipped, dropped or not
\* drawn, pvr_scene_finish renders a whole scene, unless a parameter was dropped or a
\* signal ended the wait.
THEOREM RenderReadsSceneHolds == Spec => []RenderReadsScene
<1>1. SceneInv => RenderReadsScene
  <2> SUFFICES ASSUME SceneInv, gpu = "busy", ~intr, ~submit.lost
               PROVE  Whole(ta) /\ bkg >= Units(ta)
    BY DEF RenderReadsScene
  <2>1. Whole(ta) /\ bkg = Units(ta) /\ bkg \in Nat
    BY DEF SceneInv, GpuInv, FlushInv, TypeOK
  <2> QED
    BY <2>1
<1> QED
  BY <1>1, SceneInvHolds, PTL

-----------------------------------------------------------------------------
(* Powers of two.                                                          *)

LEMMA PowStep ==
  ASSUME NEW b \in 0..30
  PROVE  2^(b + 1) = 2 * 2^b
<1>1. /\ 2^(0 + 1) = 2 * 2^0 /\ 2^(1 + 1) = 2 * 2^1 /\ 2^(2 + 1) = 2 * 2^2
      /\ 2^(3 + 1) = 2 * 2^3 /\ 2^(4 + 1) = 2 * 2^4 /\ 2^(5 + 1) = 2 * 2^5
      /\ 2^(6 + 1) = 2 * 2^6 /\ 2^(7 + 1) = 2 * 2^7 /\ 2^(8 + 1) = 2 * 2^8
      /\ 2^(9 + 1) = 2 * 2^9 /\ 2^(10 + 1) = 2 * 2^10 /\ 2^(11 + 1) = 2 * 2^11
      /\ 2^(12 + 1) = 2 * 2^12 /\ 2^(13 + 1) = 2 * 2^13 /\ 2^(14 + 1) = 2 * 2^14
      /\ 2^(15 + 1) = 2 * 2^15 /\ 2^(16 + 1) = 2 * 2^16 /\ 2^(17 + 1) = 2 * 2^17
      /\ 2^(18 + 1) = 2 * 2^18 /\ 2^(19 + 1) = 2 * 2^19 /\ 2^(20 + 1) = 2 * 2^20
      /\ 2^(21 + 1) = 2 * 2^21 /\ 2^(22 + 1) = 2 * 2^22 /\ 2^(23 + 1) = 2 * 2^23
      /\ 2^(24 + 1) = 2 * 2^24 /\ 2^(25 + 1) = 2 * 2^25 /\ 2^(26 + 1) = 2 * 2^26
      /\ 2^(27 + 1) = 2 * 2^27 /\ 2^(28 + 1) = 2 * 2^28 /\ 2^(29 + 1) = 2 * 2^29
      /\ 2^(30 + 1) = 2 * 2^30
  OBVIOUS
<1>2. \/ b = 0 \/ b = 1 \/ b = 2 \/ b = 3 \/ b = 4 \/ b = 5 \/ b = 6 \/ b = 7
      \/ b = 8 \/ b = 9 \/ b = 10 \/ b = 11 \/ b = 12 \/ b = 13 \/ b = 14 \/ b = 15
      \/ b = 16 \/ b = 17 \/ b = 18 \/ b = 19 \/ b = 20 \/ b = 21 \/ b = 22 \/ b = 23
      \/ b = 24 \/ b = 25 \/ b = 26 \/ b = 27 \/ b = 28 \/ b = 29 \/ b = 30
  OBVIOUS
<1> QED
  BY <1>1, <1>2, Zenon

LEMMA PowIs ==
  /\ \A b \in 0..31 : 2^b \in Nat \ {0}
  /\ \A b \in 0..31 : \A n \in 0..b : 2^n <= 2^b
<1> DEFINE S == {b \in Nat : b \in 0..31 => /\ 2^b \in Nat \ {0}
                                            /\ \A n \in 0..b : 2^n <= 2^b}
<1>1. 0 \in S
  <2>1. ASSUME NEW n \in 0..0 PROVE 2^n <= 2^0
    <3>1. n = 0 /\ 2^0 <= 2^0
      OBVIOUS
    <3> QED
      BY <3>1, Zenon
  <2>2. 2^0 \in Nat \ {0} /\ 0 \in Nat
    OBVIOUS
  <2> QED
    BY <2>1, <2>2
<1>2. ASSUME NEW b \in 1..31, b - 1 \in S PROVE b \in S
  <2>1. b - 1 \in 0..30 /\ (b - 1) + 1 = b /\ b - 1 \in 0..31
    OBVIOUS
  <2>2. 2^b = 2 * 2^(b - 1)
    BY <2>1, PowStep
  <2>3. 2^(b - 1) \in Nat \ {0} /\ \A n \in 0..(b - 1) : 2^n <= 2^(b - 1)
    BY <1>2, <2>1
  <2>4. \A n \in 0..b : n = b \/ n \in 0..(b - 1)
    OBVIOUS
  <2>5. ASSUME NEW n \in 0..b PROVE 2^n <= 2^b
    <3>1. CASE n = b
      BY <3>1, <2>2, <2>3
    <3>2. CASE n \in 0..(b - 1)
      <4>1. PICK p : p = 2^(b - 1)
        OBVIOUS
      <4>2. PICK q : q = 2^n
        OBVIOUS
      <4>3. n \in Nat /\ 2^n \in Int
        BY <3>2
      <4> QED
        BY <4>1, <4>2, <4>3, <3>2, <2>2, <2>3
    <3> QED
      BY <3>1, <3>2, <2>4
  <2>6. 2^b \in Nat \ {0}
    BY <2>2, <2>3
  <2> QED
    BY <2>5, <2>6
<1> HIDE DEF S
<1>3. \A b \in 0..31 : b \in S
  BY <1>1, <1>2, Induction
<1> QED
  BY <1>3 DEF S

\* Halving.
LEMMA Halves2 ==
  ASSUME NEW x \in Nat, NEW b \in 0..30
  PROVE  /\ x \div 2^b \in Nat
         /\ x \div 2^b = 2 * (x \div 2^(b + 1)) + ((x \div 2^b) % 2)
         /\ (x \div 2^b) % 2 \in {0, 1}
<1>1. PICK p : p = 2^b
  OBVIOUS
<1>2. p \in Nat \ {0} /\ 2^(b + 1) = 2 * p
  <2>1. b \in 0..31
    OBVIOUS
  <2>2. 2^b \in Nat \ {0}
    BY <2>1, PowIs, Zenon
  <2>3. 2^(b + 1) = 2 * 2^b
    BY PowStep, Zenon
  <2> QED
    BY <1>1, <2>2, <2>3
<1>3. (x \div p) \div 2 = x \div (2 * p) /\ x \div p \in Nat
  BY <1>2
<1>4. PICK y : y = x \div p
  OBVIOUS
<1>5. y = 2 * (y \div 2) + (y % 2) /\ y % 2 \in {0, 1}
  BY <1>3, <1>4
<1> QED
  BY <1>1, <1>2, <1>3, <1>4, <1>5

LEMMA Small ==
  ASSUME NEW b \in 0..31, NEW n \in 0..b, NEW x \in Nat, x < 2^n
  PROVE  x \div 2^b = 0
<1>1. 2^n <= 2^b /\ 2^b \in Nat \ {0} /\ 2^n \in Nat \ {0}
  <2>1. n \in 0..31
    OBVIOUS
  <2> QED
    BY <2>1, PowIs, Zenon
<1>2. PICK p : p = 2^b
  OBVIOUS
<1>3. x < p /\ p \in Nat \ {0}
  BY <1>1, <1>2
<1>4. x \div p = 0
  BY <1>3
<1> QED
  BY <1>2, <1>4

-----------------------------------------------------------------------------
(* Fields.                                                                 *)

ValueStep(word, s, n, f) ==
  [k \in 0..n |-> IF k = 0 THEN 0
                  ELSE 2 * f[k - 1] + (IF s + n - k \in word THEN 1 ELSE 0)]

\* The bits of a number are read as the number.
LEMMA ReadIs ==
  ASSUME NEW word, NEW s \in Nat, NEW n \in 0..31, NEW x \in Nat, x < 2^n,
         \A b \in 0..(n - 1) : s + b \in word <=> (x \div 2^b) % 2 = 1
  PROVE  Read(word, s, n) = x
<1> DEFINE w == CHOOSE w : w = ValueStep(word, s, n, w)
           bit(k) == IF s + n - k \in word THEN 1 ELSE 0
<1>0. n \in Nat
  OBVIOUS
<1>1. \E f : f = ValueStep(word, s, n, f)
  <2> DEFINE g == [p \in Nat \X (1..n) |-> 2 * p[1] + bit(p[2])]
  <2>1. g \in [Nat \X (1..n) -> Nat]
    OBVIOUS
  <2> HIDE DEF g
  <2>2. PICK f \in [0..n -> Nat] : Follows(f, 0, g, n)
    BY <1>0, <2>1, FollowsExists
  <2>3. ASSUME NEW k \in 0..n
        PROVE  f[k] = IF k = 0 THEN 0 ELSE 2 * f[k - 1] + bit(k)
    <3>1. f[k] = IF k = 0 THEN 0 ELSE g[<<f[k - 1], k>>]
      BY <2>2 DEF Follows
    <3>2. k # 0 => g[<<f[k - 1], k>>] = 2 * f[k - 1] + bit(k)
      <4>1. ASSUME k # 0 PROVE k \in 1..n /\ f[k - 1] \in Nat
        BY <4>1
      <4>2. ASSUME k # 0 PROVE <<f[k - 1], k>> \in Nat \X (1..n)
        BY <4>1, <4>2
      <4> QED
        BY <4>2 DEF g
    <3> QED
      BY <3>1, <3>2
  <2>4. f = ValueStep(word, s, n, f)
    BY <2>2, <2>3 DEF ValueStep
  <2> QED
    BY <2>4
<1>2. w = ValueStep(word, s, n, w)
  BY <1>1
<1>3. Read(word, s, n) = w[n]
  BY DEF Read, ValueStep
<1> HIDE DEF w
<1>4. w[0] = 0 /\ \A k \in 1..n : w[k] = 2 * w[k - 1] + bit(k)
  <2>1. \A k \in 0..n : w[k] = IF k = 0 THEN 0 ELSE 2 * w[k - 1] + bit(k)
    BY <1>2 DEF ValueStep
  <2> QED
    BY <2>1
<1> DEFINE T == {k \in Nat : w[k] = x \div 2^(n - k)}
<1>5. 0 \in T
  <2>1. x \div 2^n = 0
    BY Small
  <2>2. n - 0 = n
    OBVIOUS
  <2> QED
    BY <1>4, <2>1, <2>2
<1>6. ASSUME NEW k \in 1..n, k - 1 \in T PROVE k \in T
  <2>1. n - k \in 0..30 /\ n - k \in 0..(n - 1) /\ n - (k - 1) = (n - k) + 1
        /\ s + (n - k) = s + n - k /\ k \in Nat
    OBVIOUS
  <2>2. w[k - 1] = x \div 2^((n - k) + 1)
    BY <1>6, <2>1
  <2>3. bit(k) = (x \div 2^(n - k)) % 2
    <3>1. (x \div 2^(n - k)) % 2 \in {0, 1}
      BY <2>1, Halves2
    <3> QED
      BY <2>1, <3>1
  <2>4. x \div 2^(n - k) = 2 * (x \div 2^((n - k) + 1)) + ((x \div 2^(n - k)) % 2)
    BY <2>1, Halves2
  <2>5. w[k] = 2 * w[k - 1] + bit(k)
    BY <1>4
  <2> HIDE DEF bit
  <2>6. w[k] = x \div 2^(n - k)
    BY <2>2, <2>3, <2>4, <2>5
  <2> QED
    BY <2>1, <2>6
<1> HIDE DEF T
<1>7. n \in T
  <2>1. \A k \in 0..n : k \in T
    BY <1>0, <1>5, <1>6, Induction
  <2> QED
    BY <2>1, <1>0
<1>8. x \div 2^(n - n) = x
  <2>1. n - n = 0 /\ 2^0 = 1 /\ x \div 1 = x
    OBVIOUS
  <2> QED
    BY <2>1
<1> QED
  BY <1>3, <1>7, <1>8 DEF T

\* The bits of a field, and that no others are set.
LEMMA FieldIs ==
  ASSUME NEW n \in 0..31, NEW x \in Nat, x < 2^n, NEW s \in Nat
  PROVE  /\ Field(x, s) \subseteq s..(s + n - 1)
         /\ \A b \in 0..30 : s + b \in Field(x, s) <=> (x \div 2^b) % 2 = 1
<1>1. ASSUME NEW b \in Bits(x) PROVE b < n
  <2> SUFFICES ASSUME ~(b < n) PROVE FALSE
    OBVIOUS
  <2>1. b \in 0..30 /\ (x \div 2^b) % 2 = 1
    BY DEF Bits
  <2>2. b \in 0..31 /\ n \in 0..b
    BY <2>1
  <2>3. x \div 2^b = 0
    BY <2>2, Small
  <2>4. (x \div 2^b) % 2 = 0
    BY <2>3
  <2> QED
    BY <2>1, <2>4
<1>2. Bits(x) \subseteq 0..30
  BY DEF Bits
<1>3. Field(x, s) \subseteq s..(s + n - 1)
  BY <1>1, <1>2 DEF Field
<1>4. ASSUME NEW b \in 0..30
      PROVE  s + b \in Field(x, s) <=> b \in Bits(x)
  <2>1. \A a \in Bits(x) : a + s = s + b => a = b
    BY <1>2
  <2>2. b + s = s + b
    OBVIOUS
  <2> QED
    BY <2>1, <2>2 DEF Field
<1> QED
  BY <1>3, <1>4 DEF Bits

\* A field is read where nothing else is in its bits.
LEMMA FieldRead ==
  ASSUME NEW n \in 0..31, NEW x \in Nat, x < 2^n, NEW s \in Nat, NEW word,
         \A e \in s..(s + n - 1) : e \in word <=> e \in Field(x, s)
  PROVE  Read(word, s, n) = x
<1>1. ASSUME NEW b \in 0..(n - 1)
      PROVE  s + b \in word <=> (x \div 2^b) % 2 = 1
  <2>1. s + b \in s..(s + n - 1) /\ b \in 0..30
    OBVIOUS
  <2> QED
    BY <2>1, FieldIs
<1> QED
  BY <1>1, ReadIs

-----------------------------------------------------------------------------
(* Headers.                                                                *)

\* The contexts that the fields of a header can say.
TextureFields ==
  [filter : 0..3, env : 0..3, bias : 0..15, width : Sides, height : Sides,
   format : SUBSET (26..30), base : Nat]
ContextFields ==
  [list : 0..7, color : 0..3, shading : BOOLEAN, uv : BOOLEAN, specular : BOOLEAN,
   compare : 0..7, culling : 0..3, write : BOOLEAN, src : 0..7, dst : 0..7, fog : 0..3,
   clamp : BOOLEAN, alpha : BOOLEAN, textured : BOOLEAN,
   txr : TextureFields \cup {NoTexture}]
Context(c) ==
  c \in ContextFields /\ IF c.textured THEN c.txr \in TextureFields ELSE c.txr = NoTexture

\* Fields of two, three, four and twenty-one bits.
LEMMA Two ==
  ASSUME NEW x \in 0..3, NEW s \in Nat
  PROVE  /\ Field(x, s) \subseteq s..(s + 1)
         /\ \A w : (\A e \in s..(s + 1) : e \in w <=> e \in Field(x, s)) => Read(w, s, 2) = x
<1>1. x \in Nat /\ x < 2^2 /\ 2 \in 0..31 /\ s + 2 - 1 = s + 1
  OBVIOUS
<1>2. Field(x, s) \subseteq s..(s + 2 - 1)
  BY <1>1, FieldIs
<1> QED
  BY <1>1, <1>2, FieldRead

LEMMA Three ==
  ASSUME NEW x \in 0..7, NEW s \in Nat
  PROVE  /\ Field(x, s) \subseteq s..(s + 2)
         /\ \A w : (\A e \in s..(s + 2) : e \in w <=> e \in Field(x, s)) => Read(w, s, 3) = x
<1>1. x \in Nat /\ x < 2^3 /\ 3 \in 0..31 /\ s + 3 - 1 = s + 2
  OBVIOUS
<1>2. Field(x, s) \subseteq s..(s + 3 - 1)
  BY <1>1, FieldIs
<1> QED
  BY <1>1, <1>2, FieldRead

LEMMA Four ==
  ASSUME NEW x \in 0..15, NEW s \in Nat
  PROVE  /\ Field(x, s) \subseteq s..(s + 3)
         /\ \A w : (\A e \in s..(s + 3) : e \in w <=> e \in Field(x, s)) => Read(w, s, 4) = x
<1>1. x \in Nat /\ x < 2^4 /\ 4 \in 0..31 /\ s + 4 - 1 = s + 3
  OBVIOUS
<1>2. Field(x, s) \subseteq s..(s + 4 - 1)
  BY <1>1, FieldIs
<1> QED
  BY <1>1, <1>2, FieldRead

LEMMA TwentyOne ==
  ASSUME NEW x \in Nat, x < 2^21, NEW s \in Nat
  PROVE  /\ Field(x, s) \subseteq s..(s + 20)
         /\ \A w : (\A e \in s..(s + 20) : e \in w <=> e \in Field(x, s)) => Read(w, s, 21) = x
<1>1. 21 \in 0..31 /\ s + 21 - 1 = s + 20
  OBVIOUS
<1>2. Field(x, s) \subseteq s..(s + 21 - 1)
  BY <1>1, FieldIs
<1> QED
  BY <1>1, <1>2, FieldRead

LEMMA CmdIs ==
  ASSUME NEW c, Context(c)
  PROVE  /\ Cmd(c) \subseteq 0..31
         /\ Read(Cmd(c), 29, 3) = 4
         /\ Read(Cmd(c), 24, 3) = c.list /\ Read(Cmd(c), 4, 2) = c.color
         /\ 0 \in Cmd(c) <=> c.uv
         /\ 1 \in Cmd(c) <=> c.shading
         /\ 2 \in Cmd(c) <=> c.specular
         /\ 3 \in Cmd(c) <=> c.textured
<1> DEFINE A == Field(c.list, 24)
           B == Field(c.color, 4)
           D == Field(4, 29)
<1>1. c.list \in 0..7 /\ c.color \in 0..3
  BY DEF Context, ContextFields
<1>2. A \subseteq 24..26 /\ B \subseteq 4..5
  <2>1. A \subseteq 24..(24 + 2)
    BY <1>1, Three
  <2>2. B \subseteq 4..(4 + 1)
    BY <1>1, Two
  <2> QED
    BY <2>1, <2>2
<1>3. \A e \in 29..31 : e \in D <=> e = 31
  <2>1. \A b \in 0..30 : 29 + b \in D <=> (4 \div 2^b) % 2 = 1
    BY 4 \in Nat /\ 4 < 2^3 /\ 3 \in 0..31, FieldIs
  <2>2. 29 + 0 \in D <=> (4 \div 2^0) % 2 = 1
    BY <2>1
  <2>3. 29 + 1 \in D <=> (4 \div 2^1) % 2 = 1
    BY <2>1
  <2>4. 29 + 2 \in D <=> (4 \div 2^2) % 2 = 1
    BY <2>1
  <2>5. (4 \div 2^0) % 2 = 0 /\ (4 \div 2^1) % 2 = 0 /\ (4 \div 2^2) % 2 = 1
    OBVIOUS
  <2> HIDE DEF D
  <2>6. \A e \in 29..31 : e = 29 + 0 \/ e = 29 + 1 \/ e = 29 + 2
    OBVIOUS
  <2> QED
    BY <2>2, <2>3, <2>4, <2>5, <2>6
<1>4. /\ \A e : e \in Cmd(c) <=> \/ e \in {31, 23, 18} \/ (c.textured /\ e = 3) \/ e \in A
                                \/ e \in B \/ (c.shading /\ e = 1) \/ (c.uv /\ e = 0)
                                \/ (c.specular /\ e = 2)
  BY DEF Cmd, POLYHDR, Flag
<1> HIDE DEF A, B, D
<1>5. Cmd(c) \subseteq 0..31
  <2>1. (\A e \in A : e \in 0..31) /\ (\A e \in B : e \in 0..31)
    BY <1>2
  <2> QED
    BY <2>1, <1>4
<1>6. \A e \in 29..31 : e \in Cmd(c) <=> e \in D
  BY <1>2, <1>3, <1>4
<1>7. \A e \in 24..26 : e \in Cmd(c) <=> e \in A
  BY <1>2, <1>4
<1>8. \A e \in 4..5 : e \in Cmd(c) <=> e \in B
  BY <1>2, <1>4
<1>9. /\ 0 \in Cmd(c) <=> c.uv
      /\ 1 \in Cmd(c) <=> c.shading
      /\ 2 \in Cmd(c) <=> c.specular
      /\ 3 \in Cmd(c) <=> c.textured
  BY <1>2, <1>4
<1>10. Read(Cmd(c), 29, 3) = 4
  <2>1. \A e \in 29..(29 + 2) : e \in Cmd(c) <=> e \in Field(4, 29)
    BY <1>6 DEF D
  <2> QED
    BY <2>1, 4 \in 0..7, 29 \in Nat, Three, Zenon
<1>11. Read(Cmd(c), 24, 3) = c.list
  <2>1. \A e \in 24..(24 + 2) : e \in Cmd(c) <=> e \in Field(c.list, 24)
    BY <1>7 DEF A
  <2> QED
    BY <1>1, <2>1, 24 \in Nat, Three, Zenon
<1>12. Read(Cmd(c), 4, 2) = c.color
  <2>1. \A e \in 4..(4 + 1) : e \in Cmd(c) <=> e \in Field(c.color, 4)
    BY <1>8 DEF B
  <2> QED
    BY <1>1, <2>1, 4 \in Nat, Two, Zenon
<1> QED
  BY <1>5, <1>9, <1>10, <1>11, <1>12

LEMMA Mode1Is ==
  ASSUME NEW c, Context(c)
  PROVE  /\ Mode1(c) \subseteq 0..31
         /\ Read(Mode1(c), 29, 3) = c.compare /\ Read(Mode1(c), 27, 2) = c.culling
         /\ 26 \in Mode1(c) <=> c.write
         /\ 25 \in Mode1(c) <=> c.textured
<1> DEFINE A == Field(c.compare, 29)
           B == Field(c.culling, 27)
<1>1. c.compare \in 0..7 /\ c.culling \in 0..3
  BY DEF Context, ContextFields
<1>2. A \subseteq 29..31 /\ B \subseteq 27..28
  <2>1. A \subseteq 29..(29 + 2)
    BY <1>1, Three
  <2>2. B \subseteq 27..(27 + 1)
    BY <1>1, Two
  <2> QED
    BY <2>1, <2>2
<1>3. \A e : e \in Mode1(c) <=> \/ e \in A \/ e \in B \/ (c.write /\ e = 26)
                               \/ (c.textured /\ e = 25)
  BY DEF Mode1, Flag
<1> HIDE DEF A, B
<1>4. /\ Mode1(c) \subseteq 0..31
      /\ 26 \in Mode1(c) <=> c.write
      /\ 25 \in Mode1(c) <=> c.textured
  <2>1. (\A e \in A : e \in 29..31) /\ (\A e \in B : e \in 27..28)
    BY <1>2
  <2>2. Mode1(c) \subseteq 0..31
    BY <2>1, <1>3
  <2>3. 25 \notin A /\ 25 \notin B /\ 26 \notin A /\ 26 \notin B
    BY <2>1
  <2> QED
    BY <2>2, <2>3, <1>3
<1>5. \A e \in 29..31 : e \in Mode1(c) <=> e \in A
  BY <1>2, <1>3
<1>6. \A e \in 27..28 : e \in Mode1(c) <=> e \in B
  BY <1>2, <1>3
<1>7. Read(Mode1(c), 29, 3) = c.compare
  <2>1. \A e \in 29..(29 + 2) : e \in Mode1(c) <=> e \in Field(c.compare, 29)
    BY <1>5 DEF A
  <2> QED
    BY <1>1, <2>1, 29 \in Nat, Three, Zenon
<1>8. Read(Mode1(c), 27, 2) = c.culling
  <2>1. \A e \in 27..(27 + 1) : e \in Mode1(c) <=> e \in Field(c.culling, 27)
    BY <1>6 DEF B
  <2> QED
    BY <1>1, <2>1, 27 \in Nat, Two, Zenon
<1> QED
  BY <1>4, <1>7, <1>8

\* A power of two has one exponent.
LEMMA PowOnce ==
  ASSUME NEW j \in 0..30, NEW k \in 0..30, 2^j = 2^k
  PROVE  j = k
<1>1. ASSUME NEW a \in 0..30, NEW b \in 0..30, a < b PROVE 2^a # 2^b
  <2>1. a + 1 \in 0..b /\ b \in 0..31 /\ a \in 0..31
    BY <1>1
  <2>2. 2^(a + 1) <= 2^b /\ 2^a \in Nat \ {0} /\ 2^b \in Nat \ {0}
    BY <2>1, PowIs, Zenon
  <2>3. 2^(a + 1) = 2 * 2^a
    BY PowStep, Zenon
  <2> QED
    BY <2>2, <2>3
<1>2. j < k \/ k < j \/ j = k
  OBVIOUS
<1> QED
  BY <1>1, <1>2, Zenon

\* A side of a texture is read from three bits.
LEMMA SideIs ==
  ASSUME NEW w \in Sides
  PROVE  Ctz(w) - 3 \in 0..7 /\ 8 * 2^(Ctz(w) - 3) = w /\ w \in Nat \ {0}
<1>1. PICK k \in 3..10 : w = 2^k
  BY DEF Sides
<1>2. k \in 0..30 /\ k \in 0..31
  OBVIOUS
<1>3. Ctz(w) = k
  <2>1. \A j \in 0..30 : 2^j = w => j = k
    BY <1>1, <1>2, PowOnce, Zenon
  <2> QED
    BY <2>1, <1>1, <1>2, Zenon DEF Ctz
<1>4. 8 * 2^(k - 3) = 2^k
  <2>1. /\ 8 * 2^(3 - 3) = 2^3 /\ 8 * 2^(4 - 3) = 2^4 /\ 8 * 2^(5 - 3) = 2^5
        /\ 8 * 2^(6 - 3) = 2^6 /\ 8 * 2^(7 - 3) = 2^7 /\ 8 * 2^(8 - 3) = 2^8
        /\ 8 * 2^(9 - 3) = 2^9 /\ 8 * 2^(10 - 3) = 2^10
    OBVIOUS
  <2>2. k = 3 \/ k = 4 \/ k = 5 \/ k = 6 \/ k = 7 \/ k = 8 \/ k = 9 \/ k = 10
    OBVIOUS
  <2> QED
    BY <2>1, <2>2, Zenon
<1>5. w \in Nat \ {0}
  BY <1>1, <1>2, PowIs, Zenon
<1> QED
  BY <1>1, <1>3, <1>4, <1>5

\* The fields of mode2 that every context has.
LEMMA Mode2Is ==
  ASSUME NEW c, Context(c)
  PROVE  /\ Mode2(c) \subseteq 0..31
         /\ Read(Mode2(c), 29, 3) = c.src /\ Read(Mode2(c), 26, 3) = c.dst
         /\ Read(Mode2(c), 22, 2) = c.fog
         /\ 21 \in Mode2(c) <=> c.clamp
         /\ 20 \in Mode2(c) <=> c.alpha
         /\ c.textured =>
              /\ Read(Mode2(c), 13, 2) = c.txr.filter /\ Read(Mode2(c), 8, 4) = c.txr.bias
              /\ Read(Mode2(c), 6, 2) = c.txr.env
              /\ 8 * 2^Read(Mode2(c), 3, 3) = c.txr.width
              /\ 8 * 2^Read(Mode2(c), 0, 3) = c.txr.height
<1> DEFINE A == Field(c.src, 29)
           B == Field(c.dst, 26)
           F == Field(c.fog, 22)
           T(S) == IF c.textured THEN S ELSE {}
           G == T(Field(c.txr.filter, 13))
           H == T(Field(c.txr.bias, 8))
           J == T(Field(c.txr.env, 6))
           V == T(Field(Ctz(c.txr.width) - 3, 3))
           W == T(Field(Ctz(c.txr.height) - 3, 0))
<1>1. c.src \in 0..7 /\ c.dst \in 0..7 /\ c.fog \in 0..3
  BY DEF Context, ContextFields
<1>2. ASSUME c.textured
      PROVE  /\ c.txr.filter \in 0..3 /\ c.txr.bias \in 0..15 /\ c.txr.env \in 0..3
             /\ c.txr.width \in Sides /\ c.txr.height \in Sides
             /\ Ctz(c.txr.width) - 3 \in 0..7 /\ Ctz(c.txr.height) - 3 \in 0..7
  <2>1. c.txr \in TextureFields
    BY <1>2 DEF Context
  <2>2. c.txr.width \in Sides /\ c.txr.height \in Sides
    BY <2>1 DEF TextureFields
  <2> QED
    BY <2>1, <2>2, SideIs DEF TextureFields
<1>3. /\ \A e \in A : e \in 29..31
      /\ \A e \in B : e \in 26..28
      /\ \A e \in F : e \in 22..23
  BY <1>1, Two, Three, 29 + 2 = 31, 26 + 2 = 28, 22 + 1 = 23
<1>4. /\ \A e \in G : e \in 13..14
      /\ \A e \in H : e \in 8..11
      /\ \A e \in J : e \in 6..7
      /\ \A e \in V : e \in 3..5
      /\ \A e \in W : e \in 0..2
  <2>1. CASE c.textured
    BY <1>2, <2>1, Two, Three, Four, 13 + 1 = 14, 8 + 3 = 11, 6 + 1 = 7, 3 + 2 = 5, 0 + 2 = 2
  <2> QED
    BY <2>1
<1>5. \A e : e \in Mode2(c) <=>
        \/ e \in A \/ e \in B \/ e \in F \/ (c.clamp /\ e = 21) \/ (c.alpha /\ e = 20)
        \/ e \in G \/ e \in H \/ e \in J \/ e \in V \/ e \in W
  BY DEF Mode2, Flag
<1>6. c.textured => /\ G = Field(c.txr.filter, 13) /\ H = Field(c.txr.bias, 8)
                    /\ J = Field(c.txr.env, 6) /\ V = Field(Ctz(c.txr.width) - 3, 3)
                    /\ W = Field(Ctz(c.txr.height) - 3, 0)
  OBVIOUS
<1> HIDE DEF G, H, J, V, W
<1>7. A = Field(c.src, 29) /\ B = Field(c.dst, 26) /\ F = Field(c.fog, 22)
  OBVIOUS
<1> HIDE DEF A, B, F
<1>8. Mode2(c) \subseteq 0..31
  BY <1>3, <1>4, <1>5
<1>9. /\ 21 \in Mode2(c) <=> c.clamp
      /\ 20 \in Mode2(c) <=> c.alpha
  BY <1>3, <1>4, <1>5
<1>10. Read(Mode2(c), 29, 3) = c.src
  <2>1. \A e \in 29..31 : e \in Mode2(c) <=> e \in A
    BY <1>3, <1>4, <1>5
  <2>2. \A e \in 29..(29 + 2) : e \in Mode2(c) <=> e \in Field(c.src, 29)
    BY <1>7, <2>1
  <2> QED
    BY <1>1, <2>2, 29 \in Nat, Three, Zenon
<1>11. Read(Mode2(c), 26, 3) = c.dst
  <2>1. \A e \in 26..28 : e \in Mode2(c) <=> e \in B
    BY <1>3, <1>4, <1>5
  <2>2. \A e \in 26..(26 + 2) : e \in Mode2(c) <=> e \in Field(c.dst, 26)
    BY <1>7, <2>1
  <2> QED
    BY <1>1, <2>2, 26 \in Nat, Three, Zenon
<1>12. Read(Mode2(c), 22, 2) = c.fog
  <2>1. \A e \in 22..23 : e \in Mode2(c) <=> e \in F
    BY <1>3, <1>4, <1>5
  <2>2. \A e \in 22..(22 + 1) : e \in Mode2(c) <=> e \in Field(c.fog, 22)
    BY <1>7, <2>1
  <2> QED
    BY <1>1, <2>2, 22 \in Nat, Two, Zenon
<1>13. ASSUME c.textured
       PROVE  /\ Read(Mode2(c), 13, 2) = c.txr.filter /\ Read(Mode2(c), 8, 4) = c.txr.bias
              /\ Read(Mode2(c), 6, 2) = c.txr.env
              /\ 8 * 2^Read(Mode2(c), 3, 3) = c.txr.width
              /\ 8 * 2^Read(Mode2(c), 0, 3) = c.txr.height
  <2>1. Read(Mode2(c), 13, 2) = c.txr.filter
    <3>1. \A e \in 13..14 : e \in Mode2(c) <=> e \in G
      BY <1>3, <1>4, <1>5
    <3>2. c.txr.filter \in 0..3 /\ G = Field(c.txr.filter, 13)
      BY <1>2, <1>6, <1>13
    <3>3. \A e \in 13..(13 + 1) : e \in Mode2(c) <=> e \in Field(c.txr.filter, 13)
      BY <3>1, <3>2
    <3> QED
      BY <3>2, <3>3, 13 \in Nat, Two, Zenon
  <2>2. Read(Mode2(c), 8, 4) = c.txr.bias
    <3>1. \A e \in 8..11 : e \in Mode2(c) <=> e \in H
      BY <1>3, <1>4, <1>5
    <3>2. c.txr.bias \in 0..15 /\ H = Field(c.txr.bias, 8)
      BY <1>2, <1>6, <1>13
    <3>3. \A e \in 8..(8 + 3) : e \in Mode2(c) <=> e \in Field(c.txr.bias, 8)
      BY <3>1, <3>2
    <3> QED
      BY <3>2, <3>3, 8 \in Nat, Four, Zenon
  <2>3. Read(Mode2(c), 6, 2) = c.txr.env
    <3>1. \A e \in 6..7 : e \in Mode2(c) <=> e \in J
      BY <1>3, <1>4, <1>5
    <3>2. c.txr.env \in 0..3 /\ J = Field(c.txr.env, 6)
      BY <1>2, <1>6, <1>13
    <3>3. \A e \in 6..(6 + 1) : e \in Mode2(c) <=> e \in Field(c.txr.env, 6)
      BY <3>1, <3>2
    <3> QED
      BY <3>2, <3>3, 6 \in Nat, Two, Zenon
  <2>4. Read(Mode2(c), 3, 3) = Ctz(c.txr.width) - 3
    <3>1. \A e \in 3..5 : e \in Mode2(c) <=> e \in V
      BY <1>3, <1>4, <1>5
    <3>2. Ctz(c.txr.width) - 3 \in 0..7 /\ V = Field(Ctz(c.txr.width) - 3, 3)
      BY <1>2, <1>6, <1>13
    <3>3. \A e \in 3..(3 + 2) : e \in Mode2(c) <=> e \in Field(Ctz(c.txr.width) - 3, 3)
      BY <3>1, <3>2
    <3> QED
      BY <3>2, <3>3, 3 \in Nat, Three, Zenon
  <2>5. Read(Mode2(c), 0, 3) = Ctz(c.txr.height) - 3
    <3>1. \A e \in 0..2 : e \in Mode2(c) <=> e \in W
      BY <1>3, <1>4, <1>5
    <3>2. Ctz(c.txr.height) - 3 \in 0..7 /\ W = Field(Ctz(c.txr.height) - 3, 0)
      BY <1>2, <1>6, <1>13
    <3>3. \A e \in 0..(0 + 2) : e \in Mode2(c) <=> e \in Field(Ctz(c.txr.height) - 3, 0)
      BY <3>1, <3>2
    <3> QED
      BY <3>2, <3>3, 0 \in Nat, Three, Zenon
  <2>6. /\ 8 * 2^(Ctz(c.txr.width) - 3) = c.txr.width
        /\ 8 * 2^(Ctz(c.txr.height) - 3) = c.txr.height
    BY <1>2, <1>13, SideIs, Zenon
  <2> QED
    BY <2>1, <2>2, <2>3, <2>4, <2>5, <2>6, Zenon
<1> QED
  BY <1>8, <1>9, <1>10, <1>11, <1>12, <1>13

\* The word with the texture's address.
LEMMA Mode3Is ==
  ASSUME NEW c, Context(c)
  PROVE  /\ Mode3(c) \subseteq 0..31
         /\ c.textured => /\ Mode3(c) \cap (26..30) = c.txr.format
                          /\ Read(Mode3(c), 0, 21) = ToTxrPtr(c.txr.base)
<1>1. CASE ~c.textured
  BY <1>1 DEF Mode3
<1>2. CASE c.textured
  <2> DEFINE A == Field(ToTxrPtr(c.txr.base), 0)
  <2>1. c.txr.format \subseteq 26..30 /\ c.txr.base \in Nat
    BY <1>2 DEF Context, TextureFields
  <2>2. ToTxrPtr(c.txr.base) \in Nat /\ ToTxrPtr(c.txr.base) < 2^21
    <3>1. PICK x \in Nat : x = c.txr.base % VramSize /\ x < 8 * 1024 * 1024
      BY <2>1 DEF VramSize
    <3>2. x \div 8 \in Nat /\ x \div 8 < 2^21
      BY <3>1
    <3> QED
      BY <3>1, <3>2 DEF ToTxrPtr
  <2>3. \A e \in A : e \in 0..20
    BY <2>2, 0 \in Nat, 0 + 20 = 20, TwentyOne
  <2>4. \A e : e \in Mode3(c) <=> e \in c.txr.format \/ e \in A
    BY <1>2 DEF Mode3
  <2>5. A = Field(ToTxrPtr(c.txr.base), 0)
    OBVIOUS
  <2> HIDE DEF A
  <2>6. Mode3(c) \subseteq 0..31 /\ Mode3(c) \cap (26..30) = c.txr.format
    BY <2>1, <2>3, <2>4
  <2>7. \A e \in 0..20 : e \in Mode3(c) <=> e \in A
    BY <2>1, <2>3, <2>4
  <2>8. Read(Mode3(c), 0, 21) = ToTxrPtr(c.txr.base)
    <3>1. \A e \in 0..(0 + 20) : e \in Mode3(c) <=> e \in Field(ToTxrPtr(c.txr.base), 0)
      BY <2>5, <2>7
    <3>2. 0 \in Nat
      OBVIOUS
    <3> QED
      BY <2>2, <3>1, <3>2, TwentyOne, Zenon
  <2> QED
    BY <2>6, <2>8
<1> QED
  BY <1>1, <1>2

\* A context whose texture lies within the memory, at a multiple of eight bytes.
Addressed(c) == c.textured => c.txr.base < VramSize /\ c.txr.base % 8 = 0

\* pvr_poly_compile: the hardware reads in the four words what the context says.
THEOREM CompileIsRead ==
  ASSUME NEW c, Context(c)
  PROVE  /\ IsHeader(PolyCompile(c))
         /\ Addressed(c) => HeaderRead(PolyCompile(c)) = c
<1> DEFINE h == PolyCompile(c)
<1>1. h.cmd = Cmd(c) /\ h.mode1 = Mode1(c) /\ h.mode2 = Mode2(c) /\ h.mode3 = Mode3(c)
  BY DEF PolyCompile
<1> HIDE DEF h
<1>2. IsHeader(h)
  BY <1>1, CmdIs, Mode1Is, Mode2Is, Mode3Is DEF IsHeader
<1>3. ASSUME Addressed(c), c.textured PROVE TextureRead(h) = c.txr
  <2>1. c.txr \in TextureFields
    BY <1>3 DEF Context
  <2>2. c.txr.base \in Nat /\ c.txr.base < VramSize /\ c.txr.base % 8 = 0
    BY <1>3, <2>1 DEF Addressed, TextureFields
  <2>3. 8 * ToTxrPtr(c.txr.base) = c.txr.base
    <3>1. c.txr.base % VramSize = c.txr.base
      BY <2>2 DEF VramSize
    <3> QED
      BY <2>2, <3>1 DEF ToTxrPtr
  <2>4. /\ Read(Mode2(c), 13, 2) = c.txr.filter /\ Read(Mode2(c), 8, 4) = c.txr.bias
        /\ Read(Mode2(c), 6, 2) = c.txr.env
        /\ 8 * 2^Read(Mode2(c), 3, 3) = c.txr.width
        /\ 8 * 2^Read(Mode2(c), 0, 3) = c.txr.height
    BY <1>3, Mode2Is
  <2>5. Mode3(c) \cap (26..30) = c.txr.format /\ Read(Mode3(c), 0, 21) = ToTxrPtr(c.txr.base)
    BY <1>3, Mode3Is
  <2>6. TextureRead(h) =
          [base |-> c.txr.base, format |-> c.txr.format, width |-> c.txr.width,
           height |-> c.txr.height, filter |-> c.txr.filter, bias |-> c.txr.bias,
           env |-> c.txr.env]
    BY <1>1, <2>3, <2>4, <2>5, Zenon DEF TextureRead
  <2> QED
    BY <2>1, <2>6 DEF TextureFields
<1>4. ASSUME Addressed(c) PROVE HeaderRead(h) = c
  <2>1. c \in ContextFields
    BY DEF Context
  <2>2. (IF 3 \in h.cmd THEN TextureRead(h) ELSE NoTexture) = c.txr
    BY <1>1, <1>3, <1>4, CmdIs DEF Context
  <2>3. /\ Read(h.cmd, 24, 3) = c.list /\ Read(h.cmd, 4, 2) = c.color
        /\ Read(h.mode1, 29, 3) = c.compare /\ Read(h.mode1, 27, 2) = c.culling
        /\ Read(h.mode2, 29, 3) = c.src /\ Read(h.mode2, 26, 3) = c.dst
        /\ Read(h.mode2, 22, 2) = c.fog
    BY <1>1, CmdIs, Mode1Is, Mode2Is
  <2>4. /\ (0 \in h.cmd) = c.uv /\ (1 \in h.cmd) = c.shading /\ (2 \in h.cmd) = c.specular
        /\ (26 \in h.mode1) = c.write
        /\ (21 \in h.mode2) = c.clamp /\ (20 \in h.mode2) = c.alpha
        /\ (3 \in h.cmd /\ 25 \in h.mode1) = c.textured
    <3>1. /\ c.uv \in BOOLEAN /\ c.shading \in BOOLEAN /\ c.specular \in BOOLEAN
          /\ c.write \in BOOLEAN /\ c.clamp \in BOOLEAN /\ c.alpha \in BOOLEAN
          /\ c.textured \in BOOLEAN
      BY <2>1 DEF ContextFields
    <3>2. /\ 0 \in h.cmd <=> c.uv
          /\ 1 \in h.cmd <=> c.shading
          /\ 2 \in h.cmd <=> c.specular
          /\ 3 \in h.cmd <=> c.textured
          /\ 26 \in h.mode1 <=> c.write
          /\ 25 \in h.mode1 <=> c.textured
          /\ 21 \in h.mode2 <=> c.clamp
          /\ 20 \in h.mode2 <=> c.alpha
      BY <1>1, CmdIs, Mode1Is, Mode2Is
    <3> QED
      BY <3>1, <3>2
  <2>5. HeaderRead(h) =
          [list |-> c.list, color |-> c.color, shading |-> c.shading, uv |-> c.uv,
           specular |-> c.specular, compare |-> c.compare, culling |-> c.culling,
           write |-> c.write, src |-> c.src, dst |-> c.dst, fog |-> c.fog,
           clamp |-> c.clamp, alpha |-> c.alpha, textured |-> c.textured, txr |-> c.txr]
    BY <2>2, <2>3, <2>4, Zenon DEF HeaderRead
  <2> QED
    BY <2>1, <2>5 DEF ContextFields
<1> QED
  BY <1>2, <1>4 DEF h

-----------------------------------------------------------------------------
(* The memory.                                                             *)

\* What is compiled is a context that a header can say.
LEMMA ColIs ==
  ASSUME NEW list \in Lists
  PROVE  Context(CxtCol(list)) /\ ~CxtCol(list).textured
<1>1. list \in {0, 2}
  BY DEF Lists, OP_POLY, TR_POLY
<1>2. CxtCol(list) \in ContextFields
  BY <1>1 DEF CxtCol, ContextFields, OP_MOD, CLRFMT_ARGBPACKED, DEPTHCMP_GREATER,
     CULLING_CCW, BLEND_ZERO, BLEND_ONE, BLEND_SRCALPHA, BLEND_INVSRCALPHA, FOG_DISABLE
<1> QED
  BY <1>2 DEF Context, CxtCol

LEMMA TxrIs ==
  ASSUME NEW list \in Lists, NEW t \in Textures, NEW addr \in Nat
  PROVE  LET c == CxtTxr(list, t.format, t.width, t.height, addr, t.filter)
         IN  Context(c) /\ c.textured /\ c.txr.base = addr
<1> DEFINE r == [filter |-> t.filter, bias |-> MIPBIAS_NORMAL,
                 env |-> IF list > OP_MOD THEN TXRENV_MODULATEALPHA ELSE TXRENV_MODULATE,
                 width |-> t.width, height |-> t.height, format |-> t.format, base |-> addr]
           c == CxtTxr(list, t.format, t.width, t.height, addr, t.filter)
<1>1. r \in TextureFields /\ r.base = addr
  BY MemoryAssumption
     DEF TextureFields, MIPBIAS_NORMAL, TXRENV_MODULATEALPHA, TXRENV_MODULATE
<1>2. c = [CxtCol(list) EXCEPT !.textured = TRUE, !.txr = r]
  BY DEF CxtTxr
<1> HIDE DEF r, c
<1>3. CxtCol(list) \in ContextFields
  BY ColIs DEF Context
<1>4. c \in ContextFields /\ c.textured = TRUE /\ c.txr = r
  BY <1>1, <1>2, <1>3 DEF ContextFields
<1>5. Context(c) /\ c.textured /\ c.txr.base = addr
  BY <1>1, <1>4 DEF Context
<1> QED
  BY <1>5 DEF c

Compiled ==
  {[cxt |-> c, hdr |-> PolyCompile(c), size |-> n, fits |-> f] :
     c \in ContextFields, n \in Nat, f \in BOOLEAN}

LEMMA CompiledIs ==
  ASSUME NEW c \in ContextFields, NEW n \in Nat, NEW f \in BOOLEAN
  PROVE  [cxt |-> c, hdr |-> PolyCompile(c), size |-> n, fits |-> f] \in Compiled
BY DEF Compiled

\* A texture lies in the heap, on a boundary of 32 bytes, and in the memory if
\* there was room for it.
Placed(h, end) ==
  /\ Context(h.cxt)
  /\ h.cxt.textured =>
       LET base == h.cxt.txr.base
       IN  /\ base \in Nat /\ base % 32 = 0 /\ base >= OFF_TEXHEAP
           /\ h.size > 0 /\ base + h.size <= end
           /\ h.fits => base + h.size <= VramSize

\* The second of two textures lies behind the first.
InOrder(hs) ==
  \A j, k \in DOMAIN hs :
    j < k /\ hs[j].cxt.textured /\ hs[k].cxt.textured
      => hs[j].cxt.txr.base + hs[j].size <= hs[k].cxt.txr.base

HeapOK(end, hs) ==
  /\ end \in Nat /\ end % 32 = 0 /\ end >= OFF_TEXHEAP
  /\ hs \in Seq(Compiled)
  /\ \A k \in DOMAIN hs : Placed(hs[k], end)
  /\ InOrder(hs)

MemoryInv ==
  /\ mode \in Modes
  /\ lib = "ready" => width = Screen(mode).w /\ height = Screen(mode).h
  /\ HeapOK(heap, headers)

LEMMA HeapEmpty == HeapOK(OFF_TEXHEAP, <<>>)
<1>1. <<>> \in Seq(Compiled) /\ DOMAIN <<>> = {}
  OBVIOUS
<1>2. OFF_TEXHEAP \in Nat /\ OFF_TEXHEAP % 32 = 0 /\ OFF_TEXHEAP >= OFF_TEXHEAP
  BY DEF OFF_TEXHEAP
<1> QED
  BY <1>1, <1>2 DEF HeapOK, InOrder

\* A header more, with or without a texture at the heap's end.
LEMMA HeapAppend ==
  ASSUME NEW end, NEW hs, HeapOK(end, hs), NEW h \in Compiled, NEW next \in Nat,
         next % 32 = 0, end <= next, Placed(h, next),
         h.cxt.textured => h.cxt.txr.base = end
  PROVE  HeapOK(next, Append(hs, h))
<1> DEFINE as == Append(hs, h)
<1>1. /\ end \in Nat /\ end >= OFF_TEXHEAP /\ hs \in Seq(Compiled) /\ Len(hs) \in Nat
      /\ DOMAIN hs = 1..Len(hs) /\ InOrder(hs) /\ OFF_TEXHEAP \in Nat
      /\ \A k \in 1..Len(hs) : Placed(hs[k], end)
  BY DEF HeapOK, OFF_TEXHEAP
<1>2. /\ as \in Seq(Compiled) /\ DOMAIN as = 1..(Len(hs) + 1) /\ as[Len(hs) + 1] = h
      /\ \A k \in 1..Len(hs) : as[k] = hs[k]
  BY <1>1
<1> HIDE DEF as
<1>3. \A k \in 1..(Len(hs) + 1) : k \in 1..Len(hs) \/ k = Len(hs) + 1
  BY <1>1
<1>4. ASSUME NEW k \in 1..Len(hs)
      PROVE  /\ Placed(hs[k], next)
             /\ hs[k].cxt.textured => hs[k].cxt.txr.base + hs[k].size <= end
  <2>1. Placed(hs[k], end) /\ hs[k] \in Compiled
    BY <1>1
  <2>2. hs[k].size \in Nat
    BY <2>1 DEF Compiled
  <2>3. CASE ~hs[k].cxt.textured
    BY <2>1, <2>3 DEF Placed
  <2>4. CASE hs[k].cxt.textured
    <3>1. /\ Context(hs[k].cxt) /\ hs[k].cxt.txr.base \in Nat
          /\ hs[k].cxt.txr.base % 32 = 0 /\ hs[k].cxt.txr.base >= OFF_TEXHEAP
          /\ hs[k].size > 0 /\ hs[k].cxt.txr.base + hs[k].size <= end
          /\ hs[k].fits => hs[k].cxt.txr.base + hs[k].size <= VramSize
      BY <2>1, <2>4 DEF Placed
    <3>2. PICK n \in Int : n = hs[k].cxt.txr.base + hs[k].size
      BY <2>2, <3>1
    <3>3. n <= next
      BY <1>1, <3>1, <3>2
    <3> QED
      BY <3>1, <3>2, <3>3, Zenon DEF Placed
  <2> QED
    BY <2>3, <2>4
<1>5. \A k \in DOMAIN as : Placed(as[k], next)
  BY <1>2, <1>3, <1>4
<1>6. ASSUME NEW j \in DOMAIN as, NEW k \in DOMAIN as, j < k,
             as[j].cxt.textured, as[k].cxt.textured
      PROVE  as[j].cxt.txr.base + as[j].size <= as[k].cxt.txr.base
  <2>1. j \in 1..Len(hs)
    BY <1>1, <1>2, <1>6
  <2>2. CASE k \in 1..Len(hs)
    BY <1>1, <1>2, <1>6, <2>1, <2>2 DEF InOrder
  <2>3. CASE k = Len(hs) + 1
    BY <1>2, <1>4, <1>6, <2>1, <2>3
  <2> QED
    BY <1>2, <1>3, <2>2, <2>3
<1>7. InOrder(as)
  BY <1>6 DEF InOrder
<1>8. next >= OFF_TEXHEAP
  BY <1>1
<1> QED
  BY <1>2, <1>5, <1>7, <1>8 DEF HeapOK, as

\* pvr_init and what the program loads.
LEMMA InitKeeps == ASSUME MemoryInv, PvrInit PROVE MemoryInv'
<1>1. mode' = mode
  BY DEF PvrInit, deviceVars
<1>2. CASE lib' = "failed" /\ UNCHANGED <<width, height, heapVars, ta, gpu>>
  BY <1>1, <1>2 DEF MemoryInv, heapVars
<1>3. CASE /\ width' = Screen(mode).w /\ height' = Screen(mode).h
           /\ heap' = OFF_TEXHEAP /\ headers' = <<>>
  BY <1>1, <1>3, HeapEmpty DEF MemoryInv
<1> QED
  BY <1>2, <1>3 DEF PvrInit

LEMMA LoadKeeps ==
  ASSUME MemoryInv, NEW t \in Textures, NEW list \in Lists, LoadTexture(t, list)
  PROVE  MemoryInv'
<1> DEFINE size == 2 * t.width * t.height
           c == CxtTxr(list, t.format, t.width, t.height, heap, t.filter)
           fits == size <= MemAvailable
           h == [cxt |-> c, hdr |-> PolyCompile(c), size |-> size, fits |-> fits]
           next == heap + 32 * ((size + 31) \div 32)
<1>1. HeapOK(heap, headers) /\ heap \in Nat /\ heap % 32 = 0 /\ heap >= OFF_TEXHEAP
  BY DEF MemoryInv, HeapOK
<1>2. size \in Nat /\ size > 0
  <2>1. t.width \in Nat \ {0} /\ t.height \in Nat \ {0}
    BY MemoryAssumption, SideIs
  <2> QED
    BY <2>1
<1>3. Context(c) /\ c.textured /\ c.txr.base = heap
  BY <1>1, TxrIs
<1>4. headers' = Append(headers, h) /\ heap' = next
  BY DEF LoadTexture, Malloc
<1>5. fits \in BOOLEAN
  OBVIOUS
<1>6. fits => heap + size <= VramSize
  <2>1. VramSize \in Nat
    BY DEF VramSize
  <2> HIDE DEF size
  <2> QED
    BY <1>1, <1>2, <2>1 DEF MemAvailable
<1> HIDE DEF size, c, fits
<1>7. h \in Compiled /\ h.cxt = c /\ h.size = size /\ h.fits = fits
  BY <1>2, <1>3, <1>5 DEF Compiled, Context
<1>8. next \in Nat /\ next % 32 = 0 /\ heap <= next /\ heap + size <= next
  BY <1>1, <1>2
<1> HIDE DEF h, next
<1>9. Placed(h, next)
  BY <1>1, <1>2, <1>3, <1>6, <1>7, <1>8 DEF Placed
<1>10. HeapOK(heap', headers')
  BY <1>1, <1>3, <1>4, <1>7, <1>8, <1>9, HeapAppend
<1> QED
  BY <1>10 DEF MemoryInv, LoadTexture, deviceVars, libVars

LEMMA PlainKeeps ==
  ASSUME MemoryInv, NEW list \in Lists, PlainHeader(list)
  PROVE  MemoryInv'
<1> DEFINE c == CxtCol(list)
           h == [cxt |-> c, hdr |-> PolyCompile(c), size |-> 0, fits |-> TRUE]
<1>1. HeapOK(heap, headers) /\ heap \in Nat /\ heap % 32 = 0
  BY DEF MemoryInv, HeapOK
<1>2. Context(c) /\ ~c.textured
  BY ColIs
<1>3. headers' = Append(headers, h) /\ heap' = heap
  BY DEF PlainHeader
<1> HIDE DEF c
<1>4. h \in Compiled /\ h.cxt = c
  <2>1. c \in ContextFields /\ 0 \in Nat /\ TRUE \in BOOLEAN
    BY <1>2 DEF Context
  <2> QED
    BY <2>1, CompiledIs
<1> HIDE DEF h
<1>5. Placed(h, heap)
  BY <1>2, <1>4 DEF Placed
<1>6. HeapOK(heap', headers')
  BY <1>1, <1>2, <1>3, <1>4, <1>5, HeapAppend
<1> QED
  BY <1>6 DEF MemoryInv, PlainHeader, deviceVars, libVars

\* No other step moves the memory, and none makes the library ready.
LEMMA MemorySame ==
  ASSUME MemoryInv, UNCHANGED <<mode, width, height, heap, headers>>,
         lib' = "ready" => lib = "ready"
  PROVE  MemoryInv'
BY DEF MemoryInv

LEMMA BeginMemory ==
  ASSUME MemoryInv, SceneBegin
  PROVE  MemoryInv'
BY MemorySame DEF SceneBegin, deviceVars, heapVars

LEMMA MemoryInvInit == Init => MemoryInv
  BY HeapEmpty DEF Init, SceneInit, MemoryInv

LEMMA MemoryInvNext == MemoryInv /\ [Next]_vars => MemoryInv'
<1> SUFFICES ASSUME MemoryInv, [Next]_vars PROVE MemoryInv'
  OBVIOUS
<1>1. CASE Submit
  <2>1. UNCHANGED libpvrVars
    BY <1>1 DEF Submit, SubmitStart, HeaderStep, TrailingStep, TriangleStep, Continue
  <2> QED
    BY <2>1, MemorySame DEF libpvrVars, deviceVars, libVars, heapVars
<1>2. CASE ListFinish
  BY <1>2, MemorySame DEF ListFinish, deviceVars, libVars, heapVars
<1>3. CASE LibStep
  <2>1. CASE PvrInit
    BY <2>1, InitKeeps
  <2>2. CASE PvrShutdown
    BY <2>2, MemorySame DEF PvrShutdown, deviceVars, heapVars
  <2>3. CASE \E t \in Textures, l \in Lists : LoadTexture(t, l)
    BY <2>3, LoadKeeps
  <2>4. CASE \E l \in Lists : PlainHeader(l)
    BY <2>4, PlainKeeps
  <2>5. CASE \E l \in Lists : ListBegin(l)
    BY <2>5, MemorySame DEF ListBegin, deviceVars, libVars, heapVars
  <2>6. CASE WaitReady \/ SceneFinish \/ Render
    BY <2>6, MemorySame DEF WaitReady, SceneFinish, Render, deviceVars, libVars, heapVars
  <2>7. CASE ReadyEnds
    BY <2>7, BeginMemory DEF ReadyEnds
  <2>8. CASE WaitRender \/ WaitEnds
    BY <2>8, MemorySame DEF WaitRender, WaitEnds, deviceVars, libVars, heapVars
  <2>9. CASE Signal
    BY <2>9, BeginMemory, MemorySame DEF Signal, deviceVars, libVars, heapVars
  <2> QED
    BY <1>3, <2>1, <2>2, <2>3, <2>4, <2>5, <2>6, <2>7, <2>8, <2>9 DEF LibStep
<1>4. CASE Hardware
  BY <1>4, MemorySame DEF Hardware, RenderEnd, Vsync, deviceVars, libVars, heapVars
<1>5. CASE UNCHANGED vars
  BY <1>5, MemorySame DEF vars, sceneVars, deviceVars, libVars, heapVars
<1> QED
  BY <1>1, <1>2, <1>3, <1>4, <1>5 DEF Next

\* In every state the heap is above the buffers, and textures follow each other.
THEOREM MemoryInvHolds == Spec => []MemoryInv
<1> QED
  BY MemoryInvInit, MemoryInvNext, PTL DEF Spec

\* The buffers are apart from each other, and end below the heap's halves.
LEMMA BuffersApart ==
  ASSUME width \in 0..640, height \in 0..512
  PROVE  /\ \A a, b \in Buffers : a # b => Apart(a, b)
         /\ \A b \in Buffers : b.to \in Nat /\ b.to <= OFF_TEXHEAP \div 2
<1>1. 2 * width * height \in Nat /\ 2 * width * height <= OFF_VERTBUF
  <2>1. width * height <= 640 * height /\ width * height \in Nat
    OBVIOUS
  <2>2. 2 * width * height = 2 * (width * height) /\ 2 * (640 * 512) <= 1024 * 1024
    OBVIOUS
  <2> QED
    BY <2>1, <2>2 DEF OFF_VERTBUF
<1>2. Tiles \in Nat /\ Tiles <= 20 * 16
  <2>1. PICK x \in 0..20 : x = width \div 32
    OBVIOUS
  <2>2. PICK y \in 0..16 : y = (height + 31) \div 32
    OBVIOUS
  <2>3. x * y <= 20 * y /\ x * y \in Nat
    OBVIOUS
  <2> QED
    BY <2>1, <2>2, <2>3 DEF Tiles
<1> DEFINE fb == FrameBuffer
           vb == VertexBuffer
           ob == ObjectBlocks
           ra == RegionArray
<1>3. /\ fb.from = 0 /\ fb.to \in Nat /\ fb.to <= vb.from
      /\ vb.from = 1024 * 1024 /\ vb.to = 2048 * 1024
  BY <1>1 DEF FrameBuffer, VertexBuffer, Span, OFF_VERTBUF, SZ_VERTBUF
<1>4. ob.from = 2048 * 1024 /\ ob.to \in Nat /\ ob.to <= 2128 * 1024
  BY <1>2 DEF ObjectBlocks, Span, OFF_OPB, OpbTotal, OPB_SIZE_OP, OPB_OVERFLOW
<1>5. ra.from = 2200 * 1024 /\ ra.to \in Nat /\ ra.to <= 2208 * 1024
  BY <1>2 DEF RegionArray, Span, OFF_REGION, OFF_OPB, TILEMAT_HDR
<1>6. Buffers = {fb, vb, ob, ra}
  BY DEF Buffers
<1> HIDE DEF fb, vb, ob, ra
<1>7. ASSUME NEW a \in Buffers, NEW b \in Buffers, a # b PROVE Apart(a, b)
  BY <1>3, <1>4, <1>5, <1>6, <1>7 DEF Apart
<1>8. \A b \in Buffers : b.to \in Nat /\ b.to <= OFF_TEXHEAP \div 2
  BY <1>3, <1>4, <1>5, <1>6 DEF OFF_TEXHEAP
<1> QED
  BY <1>7, <1>8

\* The low bits of the CPU's pointer, wherever the memory is mapped.
LEMMA PointerIs ==
  ASSUME NEW off \in Nat, off < VramSize, NEW probe \in Nat
  PROVE  VramPtr(off, probe) % Mb16 = off
<1>1. PICK q \in Nat : q = (probe + 16777216 - 1) \div 16777216
  OBVIOUS
<1>2. VramPtr(off, probe) = 16777216 * q + off
  BY <1>1 DEF VramPtr, Mb16
<1>3. (16777216 * q + off) % 16777216 = off
  BY DEF VramSize
<1> QED
  BY <1>2, <1>3 DEF Mb16

\* TexturesIntact: the hardware reads in every header what its context says; the
\* textures that fit share no byte with each other or with the buffers.
THEOREM TexturesIntactHolds == Spec => []TexturesIntact
<1>1. MemoryInv => TexturesIntact
  <2> SUFFICES ASSUME MemoryInv, lib = "ready"
               PROVE  TexturesIntact
    BY DEF TexturesIntact
  <2>1. width \in 0..640 /\ height \in 0..512
    BY MemoryAssumption DEF MemoryInv
  <2>2. ASSUME NEW k \in DOMAIN headers
        PROVE  /\ headers[k] \in Compiled /\ Placed(headers[k], heap)
               /\ headers[k].hdr = PolyCompile(headers[k].cxt)
               /\ Context(headers[k].cxt) /\ headers[k].size \in Nat
    BY DEF MemoryInv, HeapOK, Compiled, Placed
  <2>3. ASSUME NEW k \in DOMAIN headers
        PROVE  /\ IsHeader(headers[k].hdr)
               /\ ~headers[k].cxt.textured \/ InMemory(headers[k])
                    => HeaderRead(headers[k].hdr) = headers[k].cxt
    <3>1. ~headers[k].cxt.textured \/ InMemory(headers[k]) => Addressed(headers[k].cxt)
      <4> SUFFICES ASSUME InMemory(headers[k]), headers[k].cxt.textured
                   PROVE  /\ headers[k].cxt.txr.base < VramSize
                          /\ headers[k].cxt.txr.base % 8 = 0
        BY DEF Addressed
      <4>1. PICK b \in Nat : b = headers[k].cxt.txr.base
        BY <2>2 DEF Placed
      <4>2. b % 32 = 0 /\ b + headers[k].size <= VramSize /\ headers[k].size > 0
        BY <2>2, <4>1 DEF Placed, InMemory
      <4> QED
        BY <2>2, <4>1, <4>2 DEF VramSize
    <3> QED
      BY <2>2, <3>1, CompileIsRead
  <2>4. ASSUME NEW k \in DOMAIN headers, InMemory(headers[k])
        PROVE  /\ \A probe \in Probes :
                    VramPtr(headers[k].cxt.txr.base, probe) % Mb16
                      = TextureRead(headers[k].hdr).base
               /\ \A half \in Halves(headers[k]), b \in Buffers : Apart(half, b)
               /\ \A j \in DOMAIN headers \ {k} :
                    headers[j].cxt.textured =>
                      Apart(Span(headers[k].cxt.txr.base, headers[k].size),
                            Span(headers[j].cxt.txr.base, headers[j].size))
    <3> DEFINE h == headers[k]
    <3>1. /\ h.cxt.textured /\ h.cxt.txr.base \in Nat /\ h.cxt.txr.base >= OFF_TEXHEAP
          /\ h.cxt.txr.base < VramSize /\ h.size \in Nat
      BY <2>2, <2>4 DEF Placed, InMemory, VramSize
    <3>2. TextureRead(h.hdr).base = h.cxt.txr.base
      <4>1. HeaderRead(h.hdr) = h.cxt
        BY <2>3, <2>4
      <4>2. 3 \in h.hdr.cmd
        <5>1. h.hdr.cmd = Cmd(h.cxt)
          <6>1. h.hdr = PolyCompile(h.cxt)
            BY <2>2
          <6> HIDE DEF h
          <6> QED
            BY <6>1 DEF PolyCompile
        <5> QED
          BY <2>2, <3>1, <5>1, CmdIs
      <4>3. HeaderRead(h.hdr).txr = TextureRead(h.hdr)
        BY <4>2 DEF HeaderRead
      <4> QED
        BY <4>1, <4>3
    <3>3. ASSUME NEW probe \in Probes
          PROVE  VramPtr(h.cxt.txr.base, probe) % Mb16 = TextureRead(h.hdr).base
      BY <3>1, <3>2, PointerIs, MemoryAssumption
    <3>4. ASSUME NEW half \in Halves(h), NEW b \in Buffers PROVE Apart(half, b)
      <4>1. half.from \in Int /\ half.from >= OFF_TEXHEAP \div 2
        <5>1. PICK bank \in {0, 1} :
                half = Span(h.cxt.txr.base \div 2 + bank * (VramSize \div 2), h.size \div 2)
          BY <3>4 DEF Halves
        <5>2. half.from = h.cxt.txr.base \div 2 + bank * (VramSize \div 2)
          BY <5>1 DEF Span
        <5>3. bank * (VramSize \div 2) >= 0 /\ bank * (VramSize \div 2) \in Int
          BY DEF VramSize
        <5> QED
          BY <3>1, <5>2, <5>3 DEF OFF_TEXHEAP
      <4>2. b.to \in Nat /\ b.to <= OFF_TEXHEAP \div 2
        BY <2>1, BuffersApart
      <4>3. OFF_TEXHEAP \div 2 \in Int
        BY DEF OFF_TEXHEAP
      <4>4. b.to <= half.from
        BY <4>1, <4>2, <4>3
      <4> QED
        BY <4>4 DEF Apart
    <3>5. ASSUME NEW j \in DOMAIN headers \ {k}, headers[j].cxt.textured
          PROVE  Apart(Span(h.cxt.txr.base, h.size),
                       Span(headers[j].cxt.txr.base, headers[j].size))
      <4>1. j \in Int /\ k \in Int /\ j # k /\ InOrder(headers)
        BY DEF MemoryInv, HeapOK
      <4>2. j < k \/ k < j
        BY <4>1
      <4> QED
        BY <3>1, <3>5, <4>1, <4>2 DEF InOrder, Apart, Span
    <3> QED
      BY <3>3, <3>4, <3>5
  <2>5. \A a, b \in Buffers : a # b => Apart(a, b)
    BY <2>1, BuffersApart
  <2> QED
    BY <2>3, <2>4, <2>5 DEF TexturesIntact
<1> QED
  BY <1>1, MemoryInvHolds, PTL

-----------------------------------------------------------------------------
(* Sequences of a few elements.                                            *)

\* A sequence and one element more.
LEMMA OneMore ==
  ASSUME NEW S, NEW s \in Seq(S), NEW x \in S, NEW u \in Seq(S), Len(u) = Len(s) + 1,
         \A n \in 1..Len(s) : u[n] = s[n], u[Len(u)] = x
  PROVE  s \o <<x>> = u
<1> DEFINE t == <<x>>
<1>1. t \in Seq(S) /\ Len(t) = 1 /\ t[1] = x /\ Len(s) \in Nat
  OBVIOUS
<1> HIDE DEF t
<1>2. /\ s \o t \in Seq(S) /\ Len(s \o t) = Len(s) + 1
      /\ \A n \in 1..(Len(s) + 1) : (s \o t)[n] = IF n <= Len(s) THEN s[n] ELSE t[n - Len(s)]
  BY <1>1, ConcatProperties
<1>3. ASSUME NEW n \in 1..(Len(s) + 1) PROVE (s \o t)[n] = u[n]
  <2>1. CASE n <= Len(s)
    BY <1>1, <1>2, <2>1
  <2>2. CASE ~(n <= Len(s))
    <3>1. n = Len(s) + 1 /\ n - Len(s) = 1
      BY <1>1, <2>2
    <3> QED
      BY <1>1, <1>2, <2>2, <3>1
  <2> QED
    BY <2>1, <2>2
<1>4. s \o t = u
  BY <1>2, <1>3, SeqEqual
<1> QED
  BY <1>4 DEF t

SnocsOf(a, b, c, d) ==
  /\ <<a>> \o <<b>> = <<a, b>>
  /\ <<a, b>> \o <<c>> = <<a, b, c>>
  /\ <<a, b, c>> \o <<d>> = <<a, b, c, d>>

LEMMA Snocs ==
  ASSUME NEW a, NEW b, NEW c, NEW d
  PROVE  SnocsOf(a, b, c, d)
<1> DEFINE S == {a, b, c, d}
<1>1. a \in S /\ b \in S /\ c \in S /\ d \in S
  OBVIOUS
<1> HIDE DEF S
<1>2. <<a>> \o <<b>> = <<a, b>>
  <2> DEFINE s == <<a>>
             u == <<a, b>>
  <2>1. /\ s \in Seq(S) /\ u \in Seq(S) /\ Len(s) = 1 /\ Len(u) = Len(s) + 1
        /\ u[Len(u)] = b
    BY <1>1
  <2>2. \A n \in 1..Len(s) : u[n] = s[n]
    <3>1. Len(s) = 1 /\ \A n \in 1..1 : n = 1
      OBVIOUS
    <3>2. u[1] = s[1]
      OBVIOUS
    <3> HIDE DEF s, u
    <3> QED
      BY <3>1, <3>2
  <2> HIDE DEF s, u
  <2>3. s \o <<b>> = u
    BY <1>1, <2>1, <2>2, OneMore
  <2> QED
    BY <2>3 DEF s, u
<1>3. <<a, b>> \o <<c>> = <<a, b, c>>
  <2> DEFINE s == <<a, b>>
             u == <<a, b, c>>
  <2>1. /\ s \in Seq(S) /\ u \in Seq(S) /\ Len(s) = 2 /\ Len(u) = Len(s) + 1
        /\ u[Len(u)] = c
    BY <1>1
  <2>2. \A n \in 1..Len(s) : u[n] = s[n]
    <3>1. Len(s) = 2 /\ \A n \in 1..2 : n = 1 \/ n = 2
      OBVIOUS
    <3>2. u[1] = s[1] /\ u[2] = s[2]
      OBVIOUS
    <3> HIDE DEF s, u
    <3> QED
      BY <3>1, <3>2
  <2> HIDE DEF s, u
  <2>3. s \o <<c>> = u
    BY <1>1, <2>1, <2>2, OneMore
  <2> QED
    BY <2>3 DEF s, u
<1>4. <<a, b, c>> \o <<d>> = <<a, b, c, d>>
  <2> DEFINE s == <<a, b, c>>
             u == <<a, b, c, d>>
  <2>1. /\ s \in Seq(S) /\ u \in Seq(S) /\ Len(s) = 3 /\ Len(u) = Len(s) + 1
        /\ u[Len(u)] = d
    BY <1>1
  <2>2. \A n \in 1..Len(s) : u[n] = s[n]
    <3>1. Len(s) = 3 /\ \A n \in 1..3 : n = 1 \/ n = 2 \/ n = 3
      OBVIOUS
    <3>2. u[1] = s[1] /\ u[2] = s[2] /\ u[3] = s[3]
      OBVIOUS
    <3> HIDE DEF s, u
    <3> QED
      BY <3>1, <3>2
  <2> HIDE DEF s, u
  <2>3. s \o <<d>> = u
    BY <1>1, <2>1, <2>2, OneMore
  <2> QED
    BY <2>3 DEF s, u
<1> QED
  BY <1>2, <1>3, <1>4 DEF SnocsOf

LEMMA Joined3 ==
  ASSUME NEW a, NEW b, NEW c
  PROVE  /\ <<a>> \o <<b>> \o <<c>> = <<a, b, c>>
         /\ <<a, b>> \o <<>> \o <<c>> = <<a, b, c>>
         /\ <<a>> \o <<b, c>> \o <<>> = <<a, b, c>>
         /\ <<>> \o <<a>> \o <<b, c>> = <<a, b, c>>
<1>1. /\ <<a>> \o <<b>> = <<a, b>> /\ <<b>> \o <<c>> = <<b, c>>
      /\ <<a, b>> \o <<c>> = <<a, b, c>>
  <2>1. SnocsOf(a, b, c, c) /\ SnocsOf(b, c, c, c)
    BY Snocs
  <2> QED
    BY <2>1 DEF SnocsOf
<1>2. <<a, b>> \o <<>> = <<a, b>> /\ <<a, b, c>> \o <<>> = <<a, b, c>> /\ <<>> \o <<a>> = <<a>>
  OBVIOUS
<1>3. <<a>> \o <<b, c>> = <<a, b, c>>
  <2>1. <<a>> \in Seq({a, b, c}) /\ <<b>> \in Seq({a, b, c}) /\ <<c>> \in Seq({a, b, c})
    OBVIOUS
  <2>2. (<<a>> \o <<b>>) \o <<c>> = <<a>> \o (<<b>> \o <<c>>)
    BY <2>1, ConcatAssociative
  <2> QED
    BY <1>1, <2>2
<1> QED
  BY <1>1, <1>2, <1>3

LEMMA Joined4 ==
  ASSUME NEW a, NEW b, NEW c, NEW d
  PROVE  /\ <<a>> \o <<b, c>> \o <<d>> = <<a, b, c, d>>
         /\ <<a>> \o <<b>> \o <<c, d>> = <<a, b, c, d>>
         /\ <<a, b>> \o <<c>> \o <<d>> = <<a, b, c, d>>
<1>0. <<c>> \o <<d>> = <<c, d>>
  <2>1. SnocsOf(c, d, d, d)
    BY Snocs
  <2> QED
    BY <2>1 DEF SnocsOf
<1>1. /\ <<a>> \o <<b>> = <<a, b>>
      /\ <<a, b>> \o <<c>> = <<a, b, c>> /\ <<a, b, c>> \o <<d>> = <<a, b, c, d>>
  <2>1. SnocsOf(a, b, c, d)
    BY Snocs
  <2> QED
    BY <2>1 DEF SnocsOf
<1>2. <<a>> \o <<b, c>> = <<a, b, c>>
  <2>1. <<a>> \o <<b, c>> \o <<>> = <<a, b, c>>
    BY Joined3
  <2>2. <<a>> \o <<b, c>> \in Seq({a, b, c})
    <3>1. <<a>> \in Seq({a, b, c}) /\ <<b, c>> \in Seq({a, b, c})
      OBVIOUS
    <3> QED
      BY <3>1, ConcatProperties
  <2>3. (<<a>> \o <<b, c>>) \o <<>> = <<a>> \o <<b, c>>
    BY <2>2, ConcatEmptySeq
  <2> QED
    BY <2>1, <2>3
<1>3. <<a, b>> \o <<c, d>> = <<a, b, c, d>>
  <2>1. /\ <<a, b>> \in Seq({a, b, c, d}) /\ <<c>> \in Seq({a, b, c, d})
        /\ <<d>> \in Seq({a, b, c, d})
    OBVIOUS
  <2>2. (<<a, b>> \o <<c>>) \o <<d>> = <<a, b>> \o (<<c>> \o <<d>>)
    BY <2>1, ConcatAssociative
  <2> QED
    BY <1>0, <1>1, <2>2
<1> QED
  BY <1>1, <1>2, <1>3

LEMMA Snoc5 ==
  ASSUME NEW a, NEW b, NEW c, NEW d, NEW e
  PROVE  <<a, b, c, d>> \o <<e>> = <<a, b, c, d, e>>
<1> DEFINE S == {a, b, c, d, e}
<1>1. a \in S /\ b \in S /\ c \in S /\ d \in S /\ e \in S
  OBVIOUS
<1> HIDE DEF S
<1>2. <<a, b, c, d>> \o <<e>> = <<a, b, c, d, e>>
  <2> DEFINE s == <<a, b, c, d>>
             u == <<a, b, c, d, e>>
  <2>1. /\ s \in Seq(S) /\ u \in Seq(S) /\ Len(s) = 4 /\ Len(u) = Len(s) + 1
        /\ u[Len(u)] = e
    BY <1>1
  <2>2. \A n \in 1..Len(s) : u[n] = s[n]
    <3>1. Len(s) = 4 /\ \A n \in 1..4 : n = 1 \/ n = 2 \/ n = 3 \/ n = 4
      OBVIOUS
    <3>2. u[1] = s[1] /\ u[2] = s[2] /\ u[3] = s[3] /\ u[4] = s[4]
      OBVIOUS
    <3> HIDE DEF s, u
    <3> QED
      BY <3>1, <3>2
  <2> HIDE DEF s, u
  <2>3. s \o <<e>> = u
    BY <1>1, <2>1, <2>2, OneMore
  <2> QED
    BY <2>3 DEF s, u
<1> QED
  BY <1>2

-----------------------------------------------------------------------------
(* Triangles and what is to be seen of them.                               *)

\* The m-th triangle of a strip.
Turn(m, a, b, c) == IF m % 2 = 0 THEN <<a, b, c>> ELSE <<b, a, c>>

Fits(d) == \/ Flat(d) \/ Near(d)
           \/ \E t \in Triangles(given) : Points(d) \subseteq Points(Outline(t))
Drawn(D, k) ==
  LET o == Outline(TriangleAt(given, k)) IN o # <<>> => Filled(o, D, Upright(k))

\* Three points that may be a triangle of what is submitted, in any order.
Lies(a, b, c) ==
  \/ a = b \/ b = c \/ a = c
  \/ a[1] # a[2] /\ b[1] # b[2] /\ c[1] # c[2]
  \/ \E t \in Triangles(given) : {a, b, c} \subseteq Points(Outline(t))

LEMMA PointsOf ==
  /\ \A a, b, c : Points(<<a, b, c>>) = {a, b, c}
  /\ \A a, b, c, d : Points(<<a, b, c, d>>) = {a, b, c, d}
<1>1. ASSUME NEW a, NEW b, NEW c PROVE Points(<<a, b, c>>) = {a, b, c}
  <2>1. DOMAIN <<a, b, c>> = {1, 2, 3}
    OBVIOUS
  <2> QED
    BY <2>1 DEF Points
<1>2. ASSUME NEW a, NEW b, NEW c, NEW d PROVE Points(<<a, b, c, d>>) = {a, b, c, d}
  <2>1. DOMAIN <<a, b, c, d>> = {1, 2, 3, 4}
    OBVIOUS
  <2> QED
    BY <2>1 DEF Points
<1> QED
  BY <1>1, <1>2

LEMMA TurnIs ==
  ASSUME NEW m, NEW a, NEW b, NEW c
  PROVE  /\ Points(Turn(m, a, b, c)) = {a, b, c}
         /\ \/ Turn(m, a, b, c) = <<a, b, c>>
            \/ Turn(m, a, b, c) = <<b, a, c>>
<1>1. Turn(m, a, b, c) = <<a, b, c>> \/ Turn(m, a, b, c) = <<b, a, c>>
  BY DEF Turn
<1>2. {b, a, c} = {a, b, c}
  OBVIOUS
<1> QED
  BY <1>1, <1>2, PointsOf

LEMMA Pair ==
  ASSUME NEW a, NEW b
  PROVE  Cardinality({a, b}) < 3
<1>1. IsFiniteSet({a}) /\ Cardinality({a}) = 1
  BY FS_Singleton
<1>2. /\ IsFiniteSet({a} \cup {b})
      /\ Cardinality({a} \cup {b}) = IF b \in {a} THEN Cardinality({a}) ELSE Cardinality({a}) + 1
  BY <1>1, FS_AddElement
<1>3. {a} \cup {b} = {a, b}
  OBVIOUS
<1> QED
  BY <1>1, <1>2, <1>3

LEMMA LiesFits ==
  ASSUME NEW m, NEW a, NEW b, NEW c, Lies(a, b, c)
  PROVE  Fits(Turn(m, a, b, c))
<1> DEFINE d == Turn(m, a, b, c)
<1>1. Points(d) = {a, b, c} /\ (d = <<a, b, c>> \/ d = <<b, a, c>>)
  BY TurnIs
<1>2. {d[1], d[2], d[3]} = {a, b, c}
  BY <1>1
<1> HIDE DEF d
<1>3. CASE a = b \/ b = c \/ a = c
  <2>1. {a, b, c} = {a, b} \/ {a, b, c} = {b, c} \/ {a, b, c} = {a, c}
    BY <1>3
  <2>2. Cardinality({a, b, c}) < 3
    BY <2>1, Pair
  <2> QED
    BY <1>2, <2>2 DEF Fits, Flat, d
<1>4. CASE a[1] # a[2] /\ b[1] # b[2] /\ c[1] # c[2]
  <2>1. d[1] \in {a, b, c} /\ d[2] \in {a, b, c} /\ d[3] \in {a, b, c}
    BY <1>2
  <2>2. \A n \in 1..3 : n = 1 \/ n = 2 \/ n = 3
    OBVIOUS
  <2>3. \A n \in 1..3 : d[n][1] # d[n][2]
    BY <1>4, <2>1, <2>2
  <2> QED
    BY <2>3 DEF Fits, Near, d
<1>5. CASE \E t \in Triangles(given) : {a, b, c} \subseteq Points(Outline(t))
  BY <1>1, <1>5 DEF Fits, d
<1> QED
  BY <1>3, <1>4, <1>5 DEF Lies

LEMMA CutIs ==
  ASSUME NEW x \in Nat, NEW y \in Nat
  PROVE  Cut(x, y) = Cut(y, x) /\ (x # y => Cut(x, y)[1] # Cut(x, y)[2])
  BY DEF Cut

\* What is to be seen between a corner and the next.
Part(x, y) == (IF x \in seen THEN <<<<x, x>>>> ELSE <<>>)
              \o (IF (x \in seen) = (y \in seen) THEN <<>> ELSE <<Cut(x, y)>>)

LEMMA PartIs ==
  ASSUME NEW x, NEW y
  PROVE  /\ x \in seen /\ y \in seen => Part(x, y) = <<<<x, x>>>>
         /\ x \in seen /\ y \notin seen => Part(x, y) = <<<<x, x>>, Cut(x, y)>>
         /\ x \notin seen /\ y \in seen => Part(x, y) = <<Cut(x, y)>>
         /\ x \notin seen /\ y \notin seen => Part(x, y) = <<>>
<1> DEFINE p == <<x, x>>
           c == Cut(x, y)
<1>1. Part(x, y) = (IF x \in seen THEN <<p>> ELSE <<>>)
                   \o (IF (x \in seen) = (y \in seen) THEN <<>> ELSE <<c>>)
  BY DEF Part
<1> HIDE DEF p, c
<1>2. <<p>> \o <<>> = <<p>> /\ <<p>> \o <<c>> = <<p, c>> /\ <<>> \o <<c>> = <<c>>
      /\ <<>> \o <<>> = <<>>
  <2>1. <<p>> \o <<c>> = <<p, c>>
    <3>1. SnocsOf(p, c, c, c)
      BY Snocs
    <3> QED
      BY <3>1 DEF SnocsOf
  <2> QED
    BY <2>1
<1>3. CASE x \in seen
  <2>1. CASE y \in seen
    BY <1>1, <1>2, <1>3, <2>1 DEF p, c
  <2>2. CASE y \notin seen
    <3>1. ~((x \in seen) = (y \in seen))
      BY <1>3, <2>2
    <3> QED
      BY <1>1, <1>2, <1>3, <2>2, <3>1 DEF p, c
  <2> QED
    BY <2>1, <2>2
<1>4. CASE x \notin seen
  <2>1. CASE y \in seen
    <3>1. ~((x \in seen) = (y \in seen))
      BY <1>4, <2>1
    <3> QED
      BY <1>1, <1>2, <1>4, <2>1, <3>1 DEF p, c
  <2>2. CASE y \notin seen
    <3>1. (x \in seen) = (y \in seen)
      BY <1>4, <2>2
    <3> QED
      BY <1>1, <1>2, <1>4, <2>2, <3>1 DEF p, c
  <2> QED
    BY <2>1, <2>2
<1> QED
  BY <1>3, <1>4

LEMMA OutlineParts ==
  ASSUME NEW x, NEW y, NEW z
  PROVE  Outline(<<<<x, x>>, <<y, y>>, <<z, z>>>>) = Part(x, y) \o Part(y, z) \o Part(z, x)
<1> DEFINE t == <<<<x, x>>, <<y, y>>, <<z, z>>>>
<1>1. /\ t[1][1] = x /\ t[2][1] = y /\ t[3][1] = z
      /\ (1 % 3) + 1 = 2 /\ (2 % 3) + 1 = 3 /\ (3 % 3) + 1 = 1
  OBVIOUS
<1> HIDE DEF t
<1> DEFINE From(n) == LET a == t[n][1]
                          b == t[(n % 3) + 1][1]
                      IN  (IF a \in seen THEN <<<<a, a>>>> ELSE <<>>)
                          \o IF (a \in seen) = (b \in seen) THEN <<>> ELSE <<Cut(a, b)>>
<1>2. Outline(t) = From(1) \o From(2) \o From(3)
  BY DEF Outline
<1>3. From(1) = Part(x, y) /\ From(2) = Part(y, z) /\ From(3) = Part(z, x)
  BY <1>1 DEF Part
<1> HIDE DEF From
<1>4. Outline(t) = Part(x, y) \o Part(y, z) \o Part(z, x)
  BY <1>2, <1>3
<1> QED
  BY <1>4 DEF t

\* What is to be seen of a triangle, by the corners that are before the near plane.
LEMMA OutlineIs ==
  ASSUME NEW x, NEW y, NEW z
  PROVE  LET o == Outline(<<<<x, x>>, <<y, y>>, <<z, z>>>>)
             X == x \in seen
             Y == y \in seen
             Z == z \in seen
         IN  /\ X /\ Y /\ Z => o = <<<<x, x>>, <<y, y>>, <<z, z>>>>
             /\ X /\ ~Y /\ ~Z => o = <<<<x, x>>, Cut(x, y), Cut(z, x)>>
             /\ ~X /\ Y /\ ~Z => o = <<Cut(x, y), <<y, y>>, Cut(y, z)>>
             /\ ~X /\ ~Y /\ Z => o = <<Cut(y, z), <<z, z>>, Cut(z, x)>>
             /\ X /\ Y /\ ~Z => o = <<<<x, x>>, <<y, y>>, Cut(y, z), Cut(z, x)>>
             /\ ~X /\ Y /\ Z => o = <<Cut(x, y), <<y, y>>, <<z, z>>, Cut(z, x)>>
             /\ X /\ ~Y /\ Z => o = <<<<x, x>>, Cut(x, y), Cut(y, z), <<z, z>>>>
             /\ ~X /\ ~Y /\ ~Z => o = <<>>
<1> DEFINE p == <<x, x>>
           q == <<y, y>>
           r == <<z, z>>
           u == Cut(x, y)
           v == Cut(y, z)
           w == Cut(z, x)
           f == Part(x, y)
           g == Part(y, z)
           h == Part(z, x)
           o == Outline(<<p, q, r>>)
<1>1. o = f \o g \o h
  BY OutlineParts
<1>2. /\ x \in seen /\ y \in seen => f = <<p>>
      /\ x \in seen /\ y \notin seen => f = <<p, u>>
      /\ x \notin seen /\ y \in seen => f = <<u>>
      /\ x \notin seen /\ y \notin seen => f = <<>>
  BY PartIs
<1>3. /\ y \in seen /\ z \in seen => g = <<q>>
      /\ y \in seen /\ z \notin seen => g = <<q, v>>
      /\ y \notin seen /\ z \in seen => g = <<v>>
      /\ y \notin seen /\ z \notin seen => g = <<>>
  BY PartIs
<1>4. /\ z \in seen /\ x \in seen => h = <<r>>
      /\ z \in seen /\ x \notin seen => h = <<r, w>>
      /\ z \notin seen /\ x \in seen => h = <<w>>
      /\ z \notin seen /\ x \notin seen => h = <<>>
  BY PartIs
<1>5. <<>> \o <<>> \o <<>> = <<>>
  OBVIOUS
<1> HIDE DEF p, q, r, u, v, w, f, g, h, o
<1>6. /\ x \in seen /\ y \in seen /\ z \in seen => o = <<p, q, r>>
      /\ x \in seen /\ y \notin seen /\ z \notin seen => o = <<p, u, w>>
      /\ x \notin seen /\ y \in seen /\ z \notin seen => o = <<u, q, v>>
      /\ x \notin seen /\ y \notin seen /\ z \in seen => o = <<v, r, w>>
  BY <1>1, <1>2, <1>3, <1>4, Joined3, ZenonT(30)
<1>7. x \in seen /\ y \in seen /\ z \notin seen => o = <<p, q, v, w>>
  <2>1. <<p>> \o <<q, v>> \o <<w>> = <<p, q, v, w>>
    BY Joined4
  <2> QED
    BY <1>1, <1>2, <1>3, <1>4, <2>1
<1>8. x \notin seen /\ y \in seen /\ z \in seen => o = <<u, q, r, w>>
  <2>1. <<u>> \o <<q>> \o <<r, w>> = <<u, q, r, w>>
    BY Joined4
  <2> QED
    BY <1>1, <1>2, <1>3, <1>4, <2>1
<1>9. x \in seen /\ y \notin seen /\ z \in seen => o = <<p, u, v, r>>
  <2>1. <<p, u>> \o <<v>> \o <<r>> = <<p, u, v, r>>
    BY Joined4
  <2> QED
    BY <1>1, <1>2, <1>3, <1>4, <2>1
<1>10. x \notin seen /\ y \notin seen /\ z \notin seen => o = <<>>
  BY <1>1, <1>2, <1>3, <1>4, <1>5
<1> QED
  BY <1>6, <1>7, <1>8, <1>9, <1>10 DEF p, q, r, u, v, w, o

\* The same of the m-th triangle of a strip.
OutlineOf(m, x, y, z) ==
  LET p == <<x, x>>
      q == <<y, y>>
      r == <<z, z>>
      u == Cut(x, y)
      v == Cut(y, z)
      w == Cut(z, x)
      o == Outline(Turn(m, p, q, r))
  IN  /\ x \in seen /\ y \in seen /\ z \in seen
           => o = IF m % 2 = 0 THEN <<p, q, r>> ELSE <<q, p, r>>
      /\ x \in seen /\ y \notin seen /\ z \notin seen
           => o = IF m % 2 = 0 THEN <<p, u, w>> ELSE <<u, p, w>>
      /\ x \notin seen /\ y \in seen /\ z \notin seen
           => o = IF m % 2 = 0 THEN <<u, q, v>> ELSE <<q, u, v>>
      /\ x \notin seen /\ y \notin seen /\ z \in seen
           => o = IF m % 2 = 0 THEN <<v, r, w>> ELSE <<w, r, v>>
      /\ x \in seen /\ y \in seen /\ z \notin seen
           => o = IF m % 2 = 0 THEN <<p, q, v, w>> ELSE <<q, p, w, v>>
      /\ x \notin seen /\ y \in seen /\ z \in seen
           => o = IF m % 2 = 0 THEN <<u, q, r, w>> ELSE <<q, u, w, r>>
      /\ x \in seen /\ y \notin seen /\ z \in seen
           => o = IF m % 2 = 0 THEN <<p, u, v, r>> ELSE <<u, p, r, v>>
      /\ x \notin seen /\ y \notin seen /\ z \notin seen => o = <<>>

LEMMA OutlineTurned ==
  ASSUME NEW m \in Nat, NEW x \in Nat, NEW y \in Nat, NEW z \in Nat
  PROVE  OutlineOf(m, x, y, z)
<1> DEFINE t == Turn(m, <<x, x>>, <<y, y>>, <<z, z>>)
<1>1. CASE m % 2 = 0
  <2>1. t = <<<<x, x>>, <<y, y>>, <<z, z>>>>
    BY <1>1 DEF Turn
  <2> QED
    BY <1>1, <2>1, OutlineIs DEF OutlineOf
<1>2. CASE m % 2 # 0
  <2>1. t = <<<<y, y>>, <<x, x>>, <<z, z>>>>
    BY <1>2 DEF Turn
  <2>2. Cut(x, y) = Cut(y, x) /\ Cut(y, z) = Cut(z, y) /\ Cut(z, x) = Cut(x, z)
    BY CutIs
  <2> QED
    BY <1>2, <2>1, <2>2, OutlineIs DEF OutlineOf
<1> QED
  BY <1>1, <1>2

LEMMA HasTurn ==
  ASSUME NEW D, NEW F, NEW m, NEW a, NEW b, NEW c, Turn(m, a, b, c) \in D,
         NEW p, NEW q, NEW r, {a, b, c} = {p, q, r},
         F => Turn(m, a, b, c) \in {<<p, q, r>>, <<q, r, p>>, <<r, p, q>>}
  PROVE  Has(D, <<p, q, r>>, F)
<1> DEFINE d == Turn(m, a, b, c)
           t == <<p, q, r>>
<1>1. Points(d) = {a, b, c} /\ Points(t) = {p, q, r}
  BY TurnIs, PointsOf
<1>2. t[1] = p /\ t[2] = q /\ t[3] = r
  OBVIOUS
<1>3. d \in D /\ (F => d \in {t, <<q, r, p>>, <<r, p, q>>})
  OBVIOUS
<1> HIDE DEF d, t
<1>4. Has(D, t, F)
  BY <1>1, <1>2, <1>3 DEF Has
<1> QED
  BY <1>4 DEF t

\* What is to be seen of a triangle is filled by what is submitted for it, with the
\* facing of the strip that it becomes.
LEMMA FilledIs ==
  ASSUME NEW m \in Nat, NEW n \in Nat, NEW x \in Nat, NEW y \in Nat, NEW z \in Nat,
         NEW D, NEW F, F => n % 2 = m % 2
  PROVE  LET p == <<x, x>>
             q == <<y, y>>
             r == <<z, z>>
             u == Cut(x, y)
             v == Cut(y, z)
             w == Cut(z, x)
             o == Outline(Turn(m, p, q, r))
         IN  /\ o # <<>>
             /\ x \in seen /\ y \in seen /\ z \in seen => Turn(n, p, q, r) \in D
             /\ x \in seen /\ y \notin seen /\ z \notin seen => Turn(n, p, u, w) \in D
             /\ x \notin seen /\ y \in seen /\ z \notin seen => Turn(n, u, q, v) \in D
             /\ x \notin seen /\ y \notin seen /\ z \in seen => Turn(n, v, w, r) \in D /\ ~F
             /\ x \in seen /\ y \in seen /\ z \notin seen
                  => Turn(n, p, q, w) \in D /\ Turn(n, w, q, v) \in D
             /\ x \notin seen /\ y \in seen /\ z \in seen
                  => Turn(n, u, q, w) \in D /\ Turn(n, w, q, r) \in D
             /\ x \in seen /\ y \notin seen /\ z \in seen
                  => Turn(n, p, u, r) \in D /\ Turn(n + 1, u, r, v) \in D
             => Filled(o, D, F)
<1> DEFINE p == <<x, x>>
           q == <<y, y>>
           r == <<z, z>>
           u == Cut(x, y)
           v == Cut(y, z)
           w == Cut(z, x)
           o == Outline(Turn(m, p, q, r))
<1> SUFFICES
      ASSUME o # <<>>,
             x \in seen /\ y \in seen /\ z \in seen => Turn(n, p, q, r) \in D,
             x \in seen /\ y \notin seen /\ z \notin seen => Turn(n, p, u, w) \in D,
             x \notin seen /\ y \in seen /\ z \notin seen => Turn(n, u, q, v) \in D,
             x \notin seen /\ y \notin seen /\ z \in seen => Turn(n, v, w, r) \in D /\ ~F,
             x \in seen /\ y \in seen /\ z \notin seen
               => Turn(n, p, q, w) \in D /\ Turn(n, w, q, v) \in D,
             x \notin seen /\ y \in seen /\ z \in seen
               => Turn(n, u, q, w) \in D /\ Turn(n, w, q, r) \in D,
             x \in seen /\ y \notin seen /\ z \in seen
               => Turn(n, p, u, r) \in D /\ Turn(n + 1, u, r, v) \in D
      PROVE  Filled(o, D, F)
  BY Zenon
<1>0. n % 2 \in {0, 1} /\ (n % 2 = 0 <=> (n + 1) % 2 # 0)
  OBVIOUS
<1>9. /\ x \in seen /\ y \in seen /\ z \in seen
           => o = IF m % 2 = 0 THEN <<p, q, r>> ELSE <<q, p, r>>
      /\ x \in seen /\ y \notin seen /\ z \notin seen
           => o = IF m % 2 = 0 THEN <<p, u, w>> ELSE <<u, p, w>>
      /\ x \notin seen /\ y \in seen /\ z \notin seen
           => o = IF m % 2 = 0 THEN <<u, q, v>> ELSE <<q, u, v>>
      /\ x \notin seen /\ y \notin seen /\ z \in seen
           => o = IF m % 2 = 0 THEN <<v, r, w>> ELSE <<w, r, v>>
      /\ x \in seen /\ y \in seen /\ z \notin seen
           => o = IF m % 2 = 0 THEN <<p, q, v, w>> ELSE <<q, p, w, v>>
      /\ x \notin seen /\ y \in seen /\ z \in seen
           => o = IF m % 2 = 0 THEN <<u, q, r, w>> ELSE <<q, u, w, r>>
      /\ x \in seen /\ y \notin seen /\ z \in seen
           => o = IF m % 2 = 0 THEN <<p, u, v, r>> ELSE <<u, p, r, v>>
      /\ x \notin seen /\ y \notin seen /\ z \notin seen => o = <<>>
  <2>1. OutlineOf(m, x, y, z)
    BY OutlineTurned
  <2> QED
    BY <2>1 DEF OutlineOf
<1> HIDE DEF p, q, r, u, v, w, o
<1>1. CASE x \in seen /\ y \in seen /\ z \in seen
  <2>1. Turn(n, p, q, r) \in D
    BY <1>1
  <2>2. o = IF m % 2 = 0 THEN <<p, q, r>> ELSE <<q, p, r>>
    BY <1>1, <1>9
  <2>3. CASE m % 2 = 0
    <3>1. F => Turn(n, p, q, r) = <<p, q, r>>
      BY <1>0, <2>1, <2>3 DEF Turn
    <3>2. Has(D, <<p, q, r>>, F)
      <4>1. {p, q, r} = {p, q, r}
        OBVIOUS
      <4> QED
        BY <2>1, <3>1, <4>1, HasTurn
    <3>3. o = <<p, q, r>> /\ Len(<<p, q, r>>) = 3
      BY <2>2, <2>3
    <3> QED
      BY <3>2, <3>3 DEF Filled
  <2>4. CASE m % 2 # 0
    <3>1. F => Turn(n, p, q, r) = <<q, p, r>>
      BY <1>0, <2>1, <2>4 DEF Turn
    <3>2. Has(D, <<q, p, r>>, F)
      <4>1. {p, q, r} = {q, p, r}
        OBVIOUS
      <4> QED
        BY <2>1, <3>1, <4>1, HasTurn
    <3>3. o = <<q, p, r>> /\ Len(<<q, p, r>>) = 3
      BY <2>2, <2>4
    <3> QED
      BY <3>2, <3>3 DEF Filled
  <2> QED
    BY <2>3, <2>4
<1>2. CASE x \in seen /\ y \notin seen /\ z \notin seen
  <2>1. Turn(n, p, u, w) \in D
    BY <1>2
  <2>2. o = IF m % 2 = 0 THEN <<p, u, w>> ELSE <<u, p, w>>
    BY <1>2, <1>9
  <2>3. CASE m % 2 = 0
    <3>1. F => Turn(n, p, u, w) = <<p, u, w>>
      BY <1>0, <2>1, <2>3 DEF Turn
    <3>2. Has(D, <<p, u, w>>, F)
      <4>1. {p, u, w} = {p, u, w}
        OBVIOUS
      <4> QED
        BY <2>1, <3>1, <4>1, HasTurn
    <3>3. o = <<p, u, w>> /\ Len(<<p, u, w>>) = 3
      BY <2>2, <2>3
    <3> QED
      BY <3>2, <3>3 DEF Filled
  <2>4. CASE m % 2 # 0
    <3>1. F => Turn(n, p, u, w) = <<u, p, w>>
      BY <1>0, <2>1, <2>4 DEF Turn
    <3>2. Has(D, <<u, p, w>>, F)
      <4>1. {p, u, w} = {u, p, w}
        OBVIOUS
      <4> QED
        BY <2>1, <3>1, <4>1, HasTurn
    <3>3. o = <<u, p, w>> /\ Len(<<u, p, w>>) = 3
      BY <2>2, <2>4
    <3> QED
      BY <3>2, <3>3 DEF Filled
  <2> QED
    BY <2>3, <2>4
<1>3. CASE x \notin seen /\ y \in seen /\ z \notin seen
  <2>1. Turn(n, u, q, v) \in D
    BY <1>3
  <2>2. o = IF m % 2 = 0 THEN <<u, q, v>> ELSE <<q, u, v>>
    BY <1>3, <1>9
  <2>3. CASE m % 2 = 0
    <3>1. F => Turn(n, u, q, v) = <<u, q, v>>
      BY <1>0, <2>1, <2>3 DEF Turn
    <3>2. Has(D, <<u, q, v>>, F)
      <4>1. {u, q, v} = {u, q, v}
        OBVIOUS
      <4> QED
        BY <2>1, <3>1, <4>1, HasTurn
    <3>3. o = <<u, q, v>> /\ Len(<<u, q, v>>) = 3
      BY <2>2, <2>3
    <3> QED
      BY <3>2, <3>3 DEF Filled
  <2>4. CASE m % 2 # 0
    <3>1. F => Turn(n, u, q, v) = <<q, u, v>>
      BY <1>0, <2>1, <2>4 DEF Turn
    <3>2. Has(D, <<q, u, v>>, F)
      <4>1. {u, q, v} = {q, u, v}
        OBVIOUS
      <4> QED
        BY <2>1, <3>1, <4>1, HasTurn
    <3>3. o = <<q, u, v>> /\ Len(<<q, u, v>>) = 3
      BY <2>2, <2>4
    <3> QED
      BY <3>2, <3>3 DEF Filled
  <2> QED
    BY <2>3, <2>4
<1>4. CASE x \notin seen /\ y \notin seen /\ z \in seen
  <2>1. Turn(n, v, w, r) \in D /\ ~F
    BY <1>4
  <2>2. o = IF m % 2 = 0 THEN <<v, r, w>> ELSE <<w, r, v>>
    BY <1>4, <1>9
  <2>3. CASE m % 2 = 0
    <3>1. F => Turn(n, v, w, r) = <<v, r, w>>
      BY <1>0, <2>1, <2>3 DEF Turn
    <3>2. Has(D, <<v, r, w>>, F)
      <4>1. {v, w, r} = {v, r, w}
        OBVIOUS
      <4> QED
        BY <2>1, <3>1, <4>1, HasTurn
    <3>3. o = <<v, r, w>> /\ Len(<<v, r, w>>) = 3
      BY <2>2, <2>3
    <3> QED
      BY <3>2, <3>3 DEF Filled
  <2>4. CASE m % 2 # 0
    <3>1. F => Turn(n, v, w, r) = <<w, r, v>>
      BY <1>0, <2>1, <2>4 DEF Turn
    <3>2. Has(D, <<w, r, v>>, F)
      <4>1. {v, w, r} = {w, r, v}
        OBVIOUS
      <4> QED
        BY <2>1, <3>1, <4>1, HasTurn
    <3>3. o = <<w, r, v>> /\ Len(<<w, r, v>>) = 3
      BY <2>2, <2>4
    <3> QED
      BY <3>2, <3>3 DEF Filled
  <2> QED
    BY <2>3, <2>4
<1>5. CASE x \in seen /\ y \in seen /\ z \notin seen
  <2>1. Turn(n, p, q, w) \in D /\ Turn(n, w, q, v) \in D
    BY <1>5
  <2>2. o = IF m % 2 = 0 THEN <<p, q, v, w>> ELSE <<q, p, w, v>>
    BY <1>5, <1>9
  <2>3. CASE m % 2 = 0
    <3>1. F => Turn(n, p, q, w) \in {<<p, q, w>>, <<q, w, p>>, <<w, p, q>>}
      BY <1>0, <2>3 DEF Turn
    <3>2. F => Turn(n, w, q, v) \in {<<q, v, w>>, <<v, w, q>>, <<w, q, v>>}
      BY <1>0, <2>3 DEF Turn
    <3>3. Has(D, <<p, q, w>>, F)
      <4>1. {p, q, w} = {p, q, w}
        OBVIOUS
      <4> QED
        BY <2>1, <3>1, <4>1, HasTurn
    <3>4. Has(D, <<q, v, w>>, F)
      <4>1. {w, q, v} = {q, v, w}
        OBVIOUS
      <4> QED
        BY <2>1, <3>2, <4>1, HasTurn
    <3>5. o = <<p, q, v, w>> /\ Len(<<p, q, v, w>>) = 4
      BY <2>2, <2>3
    <3>6. o[1] = p /\ o[2] = q /\ o[3] = v /\ o[4] = w
      BY <3>5
    <3> QED
      BY <3>3, <3>4, <3>5, <3>6 DEF Filled
  <2>4. CASE m % 2 # 0
    <3>1. F => Turn(n, p, q, w) \in {<<q, p, w>>, <<p, w, q>>, <<w, q, p>>}
      BY <1>0, <2>4 DEF Turn
    <3>2. F => Turn(n, w, q, v) \in {<<q, w, v>>, <<w, v, q>>, <<v, q, w>>}
      BY <1>0, <2>4 DEF Turn
    <3>3. Has(D, <<q, p, w>>, F)
      <4>1. {p, q, w} = {q, p, w}
        OBVIOUS
      <4> QED
        BY <2>1, <3>1, <4>1, HasTurn
    <3>4. Has(D, <<q, w, v>>, F)
      <4>1. {w, q, v} = {q, w, v}
        OBVIOUS
      <4> QED
        BY <2>1, <3>2, <4>1, HasTurn
    <3>5. o = <<q, p, w, v>> /\ Len(<<q, p, w, v>>) = 4
      BY <2>2, <2>4
    <3>6. o[1] = q /\ o[2] = p /\ o[3] = w /\ o[4] = v
      BY <3>5
    <3> QED
      BY <3>3, <3>4, <3>5, <3>6 DEF Filled
  <2> QED
    BY <2>3, <2>4
<1>6. CASE x \notin seen /\ y \in seen /\ z \in seen
  <2>1. Turn(n, u, q, w) \in D /\ Turn(n, w, q, r) \in D
    BY <1>6
  <2>2. o = IF m % 2 = 0 THEN <<u, q, r, w>> ELSE <<q, u, w, r>>
    BY <1>6, <1>9
  <2>3. CASE m % 2 = 0
    <3>1. F => Turn(n, u, q, w) \in {<<u, q, w>>, <<q, w, u>>, <<w, u, q>>}
      BY <1>0, <2>3 DEF Turn
    <3>2. F => Turn(n, w, q, r) \in {<<q, r, w>>, <<r, w, q>>, <<w, q, r>>}
      BY <1>0, <2>3 DEF Turn
    <3>3. Has(D, <<u, q, w>>, F)
      <4>1. {u, q, w} = {u, q, w}
        OBVIOUS
      <4> QED
        BY <2>1, <3>1, <4>1, HasTurn
    <3>4. Has(D, <<q, r, w>>, F)
      <4>1. {w, q, r} = {q, r, w}
        OBVIOUS
      <4> QED
        BY <2>1, <3>2, <4>1, HasTurn
    <3>5. o = <<u, q, r, w>> /\ Len(<<u, q, r, w>>) = 4
      BY <2>2, <2>3
    <3>6. o[1] = u /\ o[2] = q /\ o[3] = r /\ o[4] = w
      BY <3>5
    <3> QED
      BY <3>3, <3>4, <3>5, <3>6 DEF Filled
  <2>4. CASE m % 2 # 0
    <3>1. F => Turn(n, u, q, w) \in {<<q, u, w>>, <<u, w, q>>, <<w, q, u>>}
      BY <1>0, <2>4 DEF Turn
    <3>2. F => Turn(n, w, q, r) \in {<<q, w, r>>, <<w, r, q>>, <<r, q, w>>}
      BY <1>0, <2>4 DEF Turn
    <3>3. Has(D, <<q, u, w>>, F)
      <4>1. {u, q, w} = {q, u, w}
        OBVIOUS
      <4> QED
        BY <2>1, <3>1, <4>1, HasTurn
    <3>4. Has(D, <<q, w, r>>, F)
      <4>1. {w, q, r} = {q, w, r}
        OBVIOUS
      <4> QED
        BY <2>1, <3>2, <4>1, HasTurn
    <3>5. o = <<q, u, w, r>> /\ Len(<<q, u, w, r>>) = 4
      BY <2>2, <2>4
    <3>6. o[1] = q /\ o[2] = u /\ o[3] = w /\ o[4] = r
      BY <3>5
    <3> QED
      BY <3>3, <3>4, <3>5, <3>6 DEF Filled
  <2> QED
    BY <2>3, <2>4
<1>7. CASE x \in seen /\ y \notin seen /\ z \in seen
  <2>1. Turn(n, p, u, r) \in D /\ Turn(n + 1, u, r, v) \in D
    BY <1>7
  <2>2. o = IF m % 2 = 0 THEN <<p, u, v, r>> ELSE <<u, p, r, v>>
    BY <1>7, <1>9
  <2>3. CASE m % 2 = 0
    <3>1. F => Turn(n, p, u, r) \in {<<p, u, r>>, <<u, r, p>>, <<r, p, u>>}
      BY <1>0, <2>3 DEF Turn
    <3>2. F => Turn(n + 1, u, r, v) \in {<<u, v, r>>, <<v, r, u>>, <<r, u, v>>}
      BY <1>0, <2>3 DEF Turn
    <3>3. Has(D, <<p, u, r>>, F)
      <4>1. {p, u, r} = {p, u, r}
        OBVIOUS
      <4> QED
        BY <2>1, <3>1, <4>1, HasTurn
    <3>4. Has(D, <<u, v, r>>, F)
      <4>1. {u, r, v} = {u, v, r}
        OBVIOUS
      <4> QED
        BY <2>1, <3>2, <4>1, HasTurn
    <3>5. o = <<p, u, v, r>> /\ Len(<<p, u, v, r>>) = 4
      BY <2>2, <2>3
    <3>6. o[1] = p /\ o[2] = u /\ o[3] = v /\ o[4] = r
      BY <3>5
    <3> QED
      BY <3>3, <3>4, <3>5, <3>6 DEF Filled
  <2>4. CASE m % 2 # 0
    <3>1. F => Turn(n, p, u, r) \in {<<u, p, r>>, <<p, r, u>>, <<r, u, p>>}
      BY <1>0, <2>4 DEF Turn
    <3>2. F => Turn(n + 1, u, r, v) \in {<<u, r, v>>, <<r, v, u>>, <<v, u, r>>}
      BY <1>0, <2>4 DEF Turn
    <3>3. Has(D, <<u, p, r>>, F)
      <4>1. {p, u, r} = {u, p, r}
        OBVIOUS
      <4> QED
        BY <2>1, <3>1, <4>1, HasTurn
    <3>4. Has(D, <<u, r, v>>, F)
      <4>1. {u, r, v} = {u, r, v}
        OBVIOUS
      <4> QED
        BY <2>1, <3>2, <4>1, HasTurn
    <3>5. o = <<u, p, r, v>> /\ Len(<<u, p, r, v>>) = 4
      BY <2>2, <2>4
    <3>6. o[1] = u /\ o[2] = p /\ o[3] = r /\ o[4] = v
      BY <3>5
    <3> QED
      BY <3>3, <3>4, <3>5, <3>6 DEF Filled
  <2> QED
    BY <2>3, <2>4
<1>8. CASE x \notin seen /\ y \notin seen /\ z \notin seen
  BY <1>8, <1>9
<1> QED
  BY <1>1, <1>2, <1>3, <1>4, <1>5, <1>6, <1>7, <1>8

-----------------------------------------------------------------------------
(* The strips of a sequence, and its end.                                  *)

LEMMA StripStartAt ==
  ASSUME NEW s, NEW k \in Nat, NEW h \in 1..k, h = 1 \/ s[h - 1].kind # "vertex",
         \A j \in (h + 1)..k : s[j - 1].kind = "vertex"
  PROVE  StripStart(s, k) = h
<1> DEFINE T == {j \in 1..k : j = 1 \/ s[j - 1].kind # "vertex"}
<1>1. h \in T /\ T \in SUBSET (1..k)
  OBVIOUS
<1>2. \A j \in T : j <= h
  <2>1. ASSUME NEW j \in T, ~(j <= h) PROVE FALSE
    <3>1. j \in (h + 1)..k /\ j # 1
      BY <2>1
    <3> QED
      BY <3>1
  <2> QED
    BY <2>1
<1>3. Max(T) \in T /\ h <= Max(T)
  BY <1>1, MaxIs
<1>4. StripStart(s, k) = Max(T)
  BY DEF StripStart
<1>5. \A j \in T : j \in Nat
  OBVIOUS
<1> DEFINE x == Max(T)
<1>6. x \in T /\ h <= x
  BY <1>3
<1> HIDE DEF T, x
<1>7. x <= h /\ x \in Nat
  BY <1>2, <1>5, <1>6
<1>8. x = h
  BY <1>6, <1>7
<1> QED
  BY <1>4, <1>8 DEF x

LEMMA StripStartIs ==
  ASSUME NEW s, NEW k \in Nat, k >= 1
  PROVE  /\ StripStart(s, k) \in 1..k
         /\ StripStart(s, k) = 1 \/ s[StripStart(s, k) - 1].kind # "vertex"
         /\ \A j \in (StripStart(s, k) + 1)..k : s[j - 1].kind = "vertex"
<1> DEFINE T == {j \in 1..k : j = 1 \/ s[j - 1].kind # "vertex"}
<1>1. T # {} /\ T \in SUBSET (1..k)
  <2>1. 1 \in T
    OBVIOUS
  <2> QED
    BY <2>1
<1>2. Max(T) \in T /\ \A j \in T : j <= Max(T)
  BY <1>1, MaxIs
<1>3. StripStart(s, k) = Max(T)
  BY DEF StripStart
<1>4. ASSUME NEW j \in (Max(T) + 1)..k PROVE s[j - 1].kind = "vertex"
  <2>1. j \in 1..k /\ ~(j <= Max(T))
    BY <1>2
  <2> QED
    BY <1>2, <2>1
<1>5. Max(T) \in 1..k /\ (Max(T) = 1 \/ s[Max(T) - 1].kind # "vertex")
  BY <1>2
<1> QED
  BY <1>3, <1>4, <1>5

LEMMA StripStartSame ==
  ASSUME NEW s, NEW t, NEW k \in Nat, \A j \in 1..(k - 1) : s[j] = t[j]
  PROVE  StripStart(s, k) = StripStart(t, k)
<1> DEFINE T == {j \in 1..k : j = 1 \/ s[j - 1].kind # "vertex"}
           U == {j \in 1..k : j = 1 \/ t[j - 1].kind # "vertex"}
<1>1. ASSUME NEW j \in 1..k, j # 1 PROVE s[j - 1] = t[j - 1]
  <2>1. j - 1 \in 1..(k - 1)
    BY <1>1
  <2> QED
    BY <2>1
<1>2. T = U
  BY <1>1
<1> HIDE DEF T, U
<1>3. Max(T) = Max(U)
  BY <1>2
<1> QED
  BY <1>3 DEF StripStart, T, U

LEMMA StripStartNext ==
  ASSUME NEW s, NEW k \in Nat, k >= 1
  PROVE  /\ s[k].kind = "vertex" => StripStart(s, k + 1) = StripStart(s, k)
         /\ s[k].kind # "vertex" => StripStart(s, k + 1) = k + 1
<1> DEFINE h == StripStart(s, k)
<1>1. /\ h \in 1..k /\ (h = 1 \/ s[h - 1].kind # "vertex")
      /\ \A j \in (h + 1)..k : s[j - 1].kind = "vertex"
  BY StripStartIs
<1> HIDE DEF h
<1>2. ASSUME s[k].kind = "vertex" PROVE StripStart(s, k + 1) = h
  <2>1. ASSUME NEW j \in (h + 1)..(k + 1) PROVE s[j - 1].kind = "vertex"
    <3>1. j \in (h + 1)..k \/ j - 1 = k
      BY <1>1
    <3> QED
      BY <1>1, <1>2, <3>1
  <2>2. k + 1 \in Nat /\ h \in 1..(k + 1)
    BY <1>1
  <2> QED
    BY <1>1, <2>1, <2>2, StripStartAt
<1>3. ASSUME s[k].kind # "vertex" PROVE StripStart(s, k + 1) = k + 1
  <2>1. /\ k + 1 \in Nat /\ k + 1 \in 1..(k + 1) /\ k + 1 - 1 = k
        /\ \A j \in (k + 1 + 1)..(k + 1) : s[j - 1].kind = "vertex"
    OBVIOUS
  <2>2. s[k + 1 - 1].kind # "vertex"
    BY <1>3, <2>1
  <2> QED
    BY <2>1, <2>2, StripStartAt
<1> QED
  BY <1>2, <1>3 DEF h

\* The last n elements of s are a strip, which may go on if its last vertex does not
\* end it.
Run(s, n) ==
  /\ n \in 0..Len(s)
  /\ \A k \in (Len(s) - n + 1)..Len(s) :
       IsVertex(s[k]) /\ (k < Len(s) => s[k].kind = "vertex")
  /\ n < Len(s) => s[Len(s) - n].kind # "vertex"

\* Every vertex was divided once, and a strip that does not end goes on.
Clean(s) ==
  \A k \in DOMAIN s :
    IsVertex(s[k]) => /\ s[k].divided = 1
                      /\ s[k].kind = "vertex" /\ k < Len(s) => IsVertex(s[k + 1])

\* s ends with a strip of n vertices, the last two at a and b.
Sketch(s, n, a, b, flags) ==
  /\ s \in Seq(Params) /\ Run(s, n) /\ Clean(s)
  /\ n > 0 => s[Len(s)].p = b /\ s[Len(s)].kind = flags
  /\ n > 1 => s[Len(s) - 1].p = a

LEMMA AppendIs ==
  ASSUME NEW s \in Seq(Params), NEW x \in Params
  PROVE  /\ Len(s) \in Nat /\ DOMAIN s = 1..Len(s)
         /\ s \o <<x>> \in Seq(Params) /\ Len(s \o <<x>>) = Len(s) + 1
         /\ DOMAIN (s \o <<x>>) = 1..(Len(s) + 1)
         /\ \A k \in 1..Len(s) : (s \o <<x>>)[k] = s[k]
         /\ (s \o <<x>>)[Len(s) + 1] = x
<1> DEFINE t == <<x>>
           u == s \o t
<1>1. t \in Seq(Params) /\ Len(t) = 1 /\ t[1] = x /\ Len(s) \in Nat
  OBVIOUS
<1> HIDE DEF t
<1>2. /\ u \in Seq(Params) /\ Len(u) = Len(s) + 1
      /\ \A k \in 1..(Len(s) + 1) : u[k] = IF k <= Len(s) THEN s[k] ELSE t[k - Len(s)]
  <2>1. /\ u \in Seq(Params) /\ Len(u) = Len(s) + Len(t)
        /\ \A k \in 1..(Len(s) + Len(t)) : u[k] = IF k <= Len(s) THEN s[k] ELSE t[k - Len(s)]
    BY <1>1, ConcatProperties
  <2> HIDE DEF u
  <2> QED
    BY <1>1, <2>1
<1> HIDE DEF u
<1>3. Len(s) + 1 \in 1..(Len(s) + 1) /\ Len(s) + 1 - Len(s) = 1 /\ ~(Len(s) + 1 <= Len(s))
  BY <1>1
<1>4. u[Len(s) + 1] = x
  BY <1>1, <1>2, <1>3
<1>5. \A k \in 1..Len(s) : u[k] = s[k]
  BY <1>1, <1>2
<1>6. DOMAIN s = 1..Len(s) /\ DOMAIN u = 1..(Len(s) + 1)
  BY <1>2
<1> QED
  BY <1>1, <1>2, <1>4, <1>5, <1>6 DEF t, u

\* The triangles that were there stay.
LEMMA TriplesStay ==
  ASSUME NEW s \in Seq(Params), NEW x \in Params
  PROVE  LET u == s \o <<x>>
         IN  /\ Triples(s) = {k \in Triples(u) : k # Len(s) - 1}
             /\ \A k \in Triples(s) : TriangleAt(u, k) = TriangleAt(s, k)
<1> DEFINE u == s \o <<x>>
<1>1. /\ Len(s) \in Nat /\ Len(u) = Len(s) + 1
      /\ \A k \in 1..Len(s) : u[k] = s[k]
  BY AppendIs
<1> HIDE DEF u
<1>2. ASSUME NEW k \in 1..(Len(s) - 2)
      PROVE  u[k] = s[k] /\ u[k + 1] = s[k + 1] /\ u[k + 2] = s[k + 2]
  <2>1. k \in 1..Len(s) /\ k + 1 \in 1..Len(s) /\ k + 2 \in 1..Len(s)
    BY <1>1
  <2> QED
    BY <1>1, <2>1
<1>3. ASSUME NEW k PROVE k \in Triples(s) <=> k \in Triples(u) /\ k # Len(s) - 1
  <2>1. k \in 1..(Len(s) - 2) <=> k \in 1..(Len(u) - 2) /\ k # Len(s) - 1
    BY <1>1
  <2> QED
    BY <1>2, <2>1 DEF Triples
<1>4. ASSUME NEW k \in Triples(s) PROVE TriangleAt(u, k) = TriangleAt(s, k)
  <2>1. k \in 1..(Len(s) - 2)
    BY DEF Triples
  <2>2. \A j \in 1..(k - 1) : u[j] = s[j]
    BY <1>1, <2>1
  <2>3. StripStart(u, k) = StripStart(s, k)
    BY <2>1, <2>2, StripStartSame
  <2>4. u[k] = s[k] /\ u[k + 1] = s[k + 1] /\ u[k + 2] = s[k + 2]
    BY <1>2, <2>1
  <2> QED
    BY <2>3, <2>4 DEF TriangleAt
<1> QED
  BY <1>3, <1>4 DEF u

\* A vertex more makes one triangle more, if the strip had two.
LEMMA Grow ==
  ASSUME NEW s, NEW n \in Nat, NEW a, NEW b, NEW flags, Sketch(s, n, a, b, flags),
         n > 0 => flags = "vertex", NEW x \in Vertices, x.divided = 1
  PROVE  /\ Sketch(s \o <<x>>, n + 1, b, x.p, x.kind)
         /\ Triangles(s \o <<x>>) =
              Triangles(s) \cup (IF n >= 2 THEN {Turn(n, a, b, x.p)} ELSE {})
<1> DEFINE L == Len(s)
           u == s \o <<x>>
<1>1. s \in Seq(Params) /\ x \in Params /\ Run(s, n) /\ Clean(s)
  BY DEF Sketch, Params
<1>2. /\ L \in Nat /\ DOMAIN s = 1..L
      /\ u \in Seq(Params) /\ Len(u) = L + 1 /\ DOMAIN u = 1..(L + 1)
      /\ \A k \in 1..L : u[k] = s[k]
      /\ u[L + 1] = x
  BY <1>1, AppendIs
<1>3. /\ n \in 0..L
      /\ \A k \in (L - n + 1)..L : IsVertex(s[k]) /\ (k < L => s[k].kind = "vertex")
      /\ n < L => s[L - n].kind # "vertex"
  BY <1>1 DEF Run
<1>4. n > 0 => s[L].p = b /\ s[L].kind = "vertex"
  BY DEF Sketch
<1>5. n > 1 => s[L - 1].p = a
  BY DEF Sketch
<1>6. x.kind \in {"vertex", "eol"} /\ IsVertex(x)
  BY DEF Vertices, IsVertex
<1>7. /\ Triples(s) = {k \in Triples(u) : k # L - 1}
      /\ \A k \in Triples(s) : TriangleAt(u, k) = TriangleAt(s, k)
  BY <1>1, TriplesStay
<1> HIDE DEF u, L
<1>8. ASSUME NEW k \in (L - n + 1)..L PROVE k \in 1..L /\ u[k] = s[k] /\ s[k].kind = "vertex"
  <2>1. k \in 1..L /\ (k = L => n > 0) /\ (k = L \/ k < L)
    BY <1>2, <1>3
  <2> QED
    BY <1>2, <1>3, <1>4, <2>1
<1>9. Run(u, n + 1)
  <2>1. n + 1 \in 0..Len(u) /\ Len(u) - (n + 1) + 1 = L - n + 1
    BY <1>2, <1>3
  <2>2. ASSUME NEW k \in (L - n + 1)..(L + 1)
        PROVE  IsVertex(u[k]) /\ (k < L + 1 => u[k].kind = "vertex")
    <3>1. CASE k = L + 1
      BY <1>2, <1>6, <3>1
    <3>2. CASE k # L + 1
      <4>1. k \in (L - n + 1)..L
        BY <1>2, <1>3, <3>2
      <4> QED
        BY <1>3, <1>8, <4>1
    <3> QED
      BY <3>1, <3>2
  <2>3. ASSUME n + 1 < L + 1 PROVE u[L + 1 - (n + 1)].kind # "vertex"
    <3>1. L + 1 - (n + 1) = L - n /\ L - n \in 1..L /\ n < L
      BY <1>2, <1>3, <2>3
    <3> QED
      BY <1>2, <1>3, <3>1
  <2> QED
    BY <1>2, <2>1, <2>2, <2>3 DEF Run
<1>10. Clean(u)
  <2>1. ASSUME NEW k \in 1..(L + 1), IsVertex(u[k])
        PROVE  /\ u[k].divided = 1
               /\ u[k].kind = "vertex" /\ k < L + 1 => IsVertex(u[k + 1])
    <3>1. CASE k = L + 1
      BY <1>2, <3>1
    <3>2. CASE k = L
      <4>1. k \in DOMAIN s /\ u[k] = s[k] /\ u[k + 1] = x
        BY <1>2, <2>1, <3>2
      <4> QED
        BY <1>1, <1>6, <2>1, <4>1 DEF Clean
    <3>3. CASE k # L /\ k # L + 1
      <4>1. k \in DOMAIN s /\ k + 1 \in 1..L /\ k < L
        BY <1>2, <2>1, <3>3
      <4>2. u[k] = s[k] /\ u[k + 1] = s[k + 1]
        BY <1>2, <4>1
      <4> QED
        BY <1>1, <2>1, <4>1, <4>2 DEF Clean, L
    <3> QED
      BY <3>1, <3>2, <3>3
  <2> QED
    BY <1>2, <2>1 DEF Clean
<1>11. Sketch(u, n + 1, b, x.p, x.kind)
  <2>1. u[Len(u)] = x
    BY <1>2
  <2>2. ASSUME n + 1 > 1 PROVE u[Len(u) - 1].p = b
    <3>1. n > 0 /\ L \in 1..L /\ Len(u) - 1 = L
      BY <1>2, <1>3, <2>2
    <3> QED
      BY <1>2, <1>4, <3>1
  <2> QED
    BY <1>2, <1>9, <1>10, <2>1, <2>2 DEF Sketch
<1>12. CASE n >= 2
  <2>1. L - 1 \in 1..(Len(u) - 2) /\ L - 1 \in (L - n + 1)..L /\ L \in (L - n + 1)..L
    BY <1>2, <1>3, <1>12
  <2>2. /\ u[L - 1] = s[L - 1] /\ u[L] = s[L]
        /\ s[L - 1].kind = "vertex" /\ s[L].kind = "vertex"
    BY <1>8, <2>1
  <2>3. L - 1 + 1 = L /\ L - 1 + 2 = L + 1
    BY <1>2
  <2>4. L - 1 \in Triples(u)
    BY <1>2, <1>6, <2>1, <2>2, <2>3 DEF Triples
  <2>5. StripStart(u, L - 1) = L - n + 1
    <3> DEFINE h == L - n + 1
    <3>1. h \in 1..(L - 1) /\ L - 1 \in Nat
      BY <1>2, <1>3, <1>12
    <3>2. h = 1 \/ u[h - 1].kind # "vertex"
      <4>1. h = 1 \/ (n < L /\ h - 1 = L - n /\ L - n \in 1..L)
        BY <1>2, <1>3
      <4> HIDE DEF h
      <4> QED
        BY <1>2, <1>3, <4>1
    <3>3. ASSUME NEW j \in (h + 1)..(L - 1) PROVE u[j - 1].kind = "vertex"
      <4>1. j - 1 \in (L - n + 1)..L
        BY <1>2, <1>3
      <4> QED
        BY <1>8, <4>1
    <3> HIDE DEF h
    <3>4. StripStart(u, L - 1) = h
      BY <3>1, <3>2, <3>3, StripStartAt
    <3> QED
      BY <3>4 DEF h
  <2>6. (L - 1 - (L - n + 1)) % 2 = n % 2
    <3>1. L - 1 - (L - n + 1) = n - 2 /\ (n - 2) % 2 = n % 2
      BY <1>2
    <3> QED
      BY <3>1
  <2>7. /\ u[L - 1].p = a /\ u[L - 1 + 1].p = b /\ u[L - 1 + 2].p = x.p
    BY <1>2, <1>4, <1>5, <1>12, <2>2, <2>3
  <2>8. TriangleAt(u, L - 1) = Turn(n, a, b, x.p)
    <3>1. TriangleAt(u, L - 1) =
            IF (L - 1 - StripStart(u, L - 1)) % 2 = 0
            THEN <<u[L - 1].p, u[L - 1 + 1].p, u[L - 1 + 2].p>>
            ELSE <<u[L - 1 + 1].p, u[L - 1].p, u[L - 1 + 2].p>>
      BY DEF TriangleAt
    <3> QED
      BY <2>5, <2>6, <2>7, <3>1 DEF Turn
  <2>9. Triangles(u) = Triangles(s) \cup {Turn(n, a, b, x.p)}
    <3>1. Triples(u) = Triples(s) \cup {L - 1}
      BY <1>7, <2>4
    <3> QED
      BY <1>7, <2>8, <3>1 DEF Triangles
  <2> QED
    BY <1>11, <1>12, <2>9 DEF u
<1>13. CASE ~(n >= 2)
  <2>1. L - 1 \notin Triples(u)
    <3> SUFFICES ASSUME L - 1 \in Triples(u) PROVE FALSE
      OBVIOUS
    <3>1. L - 1 \in 1..L /\ L \in 1..L /\ L - 1 + 1 = L
      BY <1>2 DEF Triples
    <3>2. u[L - 1].kind = "vertex" /\ u[L].kind = "vertex"
      BY <3>1 DEF Triples
    <3>3. s[L - 1].kind = "vertex" /\ s[L].kind = "vertex"
      BY <1>2, <3>1, <3>2
    <3>4. n = 0 \/ n = 1
      BY <1>13
    <3>5. CASE n = 0
      <4>1. n < L /\ L - n = L
        BY <3>1, <3>5
      <4> QED
        BY <1>3, <3>3, <4>1
    <3>6. CASE n = 1
      <4>1. n < L /\ L - n = L - 1
        BY <3>1, <3>6
      <4> QED
        BY <1>3, <3>3, <4>1
    <3> QED
      BY <3>4, <3>5, <3>6
  <2>2. Triples(u) = Triples(s)
    BY <1>7, <2>1
  <2>3. Triangles(u) = Triangles(s)
    BY <1>7, <2>2 DEF Triangles
  <2> QED
    BY <1>11, <1>13, <2>3 DEF u
<1> QED
  BY <1>12, <1>13

-----------------------------------------------------------------------------
(* What is submitted for a triangle.                                       *)

\* s ends with a strip of n vertices, and has no triangle but such as may be.
Good(s, n, a, b, flags) ==
  Sketch(s, n, a, b, flags) /\ \A d \in Triangles(s) : Fits(d)

LEMMA GrowGood ==
  ASSUME NEW s, NEW n \in Nat, NEW a, NEW b, NEW flags, Good(s, n, a, b, flags),
         n > 0 => flags = "vertex", NEW x \in Vertices, x.divided = 1,
         n >= 2 => Lies(a, b, x.p)
  PROVE  /\ Good(s \o <<x>>, n + 1, b, x.p, x.kind)
         /\ Triangles(s) \subseteq Triangles(s \o <<x>>)
         /\ n >= 2 => Turn(n, a, b, x.p) \in Triangles(s \o <<x>>)
<1>1. Sketch(s, n, a, b, flags) /\ \A d \in Triangles(s) : Fits(d)
  BY DEF Good
<1> DEFINE u == s \o <<x>>
           p == x.p
<1>2. /\ Sketch(u, n + 1, b, p, x.kind)
      /\ Triangles(u) = Triangles(s) \cup (IF n >= 2 THEN {Turn(n, a, b, p)} ELSE {})
  BY <1>1, Grow
<1>3. n >= 2 => Fits(Turn(n, a, b, p))
  BY LiesFits
<1> HIDE DEF u, p
<1>4. \A d \in Triangles(u) : Fits(d)
  <2>1. CASE n >= 2
    BY <1>1, <1>2, <1>3, <2>1
  <2>2. CASE ~(n >= 2)
    BY <1>1, <1>2, <2>2
  <2> QED
    BY <2>1, <2>2
<1>5. Triangles(s) \subseteq Triangles(u) /\ (n >= 2 => Turn(n, a, b, p) \in Triangles(u))
  <2>1. Triangles(s) \subseteq Triangles(u)
    BY <1>2
  <2>2. n >= 2 => Turn(n, a, b, p) \in Triangles(u)
    BY <1>2
  <2> QED
    BY <2>1, <2>2
<1> QED
  BY <1>2, <1>4, <1>5 DEF Good, u, p

\* The first two vertices that are submitted for a triangle.
LEMMA GrowHead ==
  ASSUME NEW s, NEW n \in Nat, NEW a, NEW b, NEW flags, Good(s, n, a, b, flags),
         NEW x \in Vertices, x.divided = 1, x.kind = "vertex",
         NEW y \in Vertices, y.divided = 1,
         n = 0 \/ (n >= 2 /\ flags = "vertex" /\ Lies(a, b, x.p) /\ Lies(b, x.p, y.p))
  PROVE  LET u == s \o <<x>> \o <<y>>
         IN  Good(u, n + 2, x.p, y.p, y.kind) /\ Triangles(s) \subseteq Triangles(u)
<1> DEFINE t == s \o <<x>>
           u == t \o <<y>>
<1>1. n > 0 => flags = "vertex"
  OBVIOUS
<1>2. n >= 2 => Lies(a, b, x.p)
  OBVIOUS
<1>3. Good(t, n + 1, b, x.p, x.kind) /\ Triangles(s) \subseteq Triangles(t)
  BY <1>1, <1>2, GrowGood
<1> HIDE DEF t
<1>4. n + 1 \in Nat /\ n + 1 + 1 = n + 2 /\ (n + 1 >= 2 => n >= 2)
  <2>1. n + 1 \in Nat /\ n + 1 + 1 = n + 2
    OBVIOUS
  <2>2. n = 0 \/ n >= 2
    OBVIOUS
  <2>3. n + 1 >= 2 => n >= 2
    BY <2>2
  <2> QED
    BY <2>1, <2>3
<1>5. n + 1 >= 2 => Lies(b, x.p, y.p)
  BY <1>4
<1>6. Good(u, n + 1 + 1, x.p, y.p, y.kind) /\ Triangles(t) \subseteq Triangles(u)
  BY <1>3, <1>4, <1>5, GrowGood
<1> HIDE DEF u
<1>7. Good(u, n + 2, x.p, y.p, y.kind) /\ Triangles(s) \subseteq Triangles(u)
  BY <1>3, <1>4, <1>6
<1> QED
  BY <1>7 DEF t, u

\* And those that follow: one, two or three.
LEMMA GrowOne ==
  ASSUME NEW s, NEW n \in Nat, n >= 2, NEW a, NEW b, Good(s, n, a, b, "vertex"),
         NEW x \in Vertices, x.divided = 1, Lies(a, b, x.p)
  PROVE  LET u == s \o <<x>>
         IN  /\ Good(u, n + 1, b, x.p, x.kind) /\ Triangles(s) \subseteq Triangles(u)
             /\ Turn(n, a, b, x.p) \in Triangles(u)
  BY GrowGood

LEMMA GrowTwo ==
  ASSUME NEW s, NEW n \in Nat, n >= 2, NEW a, NEW b, Good(s, n, a, b, "vertex"),
         NEW x \in Vertices, x.divided = 1, Lies(a, b, x.p), x.kind = "vertex",
         NEW y \in Vertices, y.divided = 1, Lies(b, x.p, y.p)
  PROVE  LET u == s \o <<x>> \o <<y>>
         IN  /\ Good(u, n + 2, x.p, y.p, y.kind) /\ Triangles(s) \subseteq Triangles(u)
             /\ Turn(n, a, b, x.p) \in Triangles(u)
             /\ Turn(n + 1, b, x.p, y.p) \in Triangles(u)
<1> DEFINE t == s \o <<x>>
           u == t \o <<y>>
<1>1. /\ Good(t, n + 1, b, x.p, "vertex") /\ Triangles(s) \subseteq Triangles(t)
      /\ Turn(n, a, b, x.p) \in Triangles(t)
  BY GrowOne
<1> HIDE DEF t
<1>2. n + 1 \in Nat /\ n + 1 + 1 = n + 2 /\ n + 1 >= 2
  OBVIOUS
<1>3. /\ Good(u, n + 1 + 1, x.p, y.p, y.kind) /\ Triangles(t) \subseteq Triangles(u)
      /\ Turn(n + 1, b, x.p, y.p) \in Triangles(u)
  BY <1>1, <1>2, GrowOne
<1> HIDE DEF u
<1>4. Good(u, n + 2, x.p, y.p, y.kind)
  BY <1>2, <1>3
<1>5. /\ Triangles(s) \subseteq Triangles(u) /\ Turn(n, a, b, x.p) \in Triangles(u)
      /\ Turn(n + 1, b, x.p, y.p) \in Triangles(u)
  BY <1>1, <1>3
<1> QED
  BY <1>4, <1>5 DEF t, u

LEMMA GrowThree ==
  ASSUME NEW s, NEW n \in Nat, n >= 2, NEW a, NEW b, Good(s, n, a, b, "vertex"),
         NEW x \in Vertices, x.divided = 1, Lies(a, b, x.p), x.kind = "vertex",
         NEW y \in Vertices, y.divided = 1, Lies(b, x.p, y.p), y.kind = "vertex",
         NEW z \in Vertices, z.divided = 1, Lies(x.p, y.p, z.p)
  PROVE  LET u == s \o <<x>> \o <<y>> \o <<z>>
         IN  /\ Good(u, n + 3, y.p, z.p, z.kind) /\ Triangles(s) \subseteq Triangles(u)
             /\ Turn(n, a, b, x.p) \in Triangles(u)
             /\ Turn(n + 1, b, x.p, y.p) \in Triangles(u)
             /\ Turn(n, x.p, y.p, z.p) \in Triangles(u)
<1> DEFINE t == s \o <<x>> \o <<y>>
           u == t \o <<z>>
<1>1. /\ Good(t, n + 2, x.p, y.p, "vertex") /\ Triangles(s) \subseteq Triangles(t)
      /\ Turn(n, a, b, x.p) \in Triangles(t)
      /\ Turn(n + 1, b, x.p, y.p) \in Triangles(t)
  BY GrowTwo
<1> HIDE DEF t
<1>2. n + 2 \in Nat /\ n + 2 + 1 = n + 3 /\ n + 2 >= 2 /\ (n + 2) % 2 = n % 2
  OBVIOUS
<1>3. /\ Good(u, n + 2 + 1, y.p, z.p, z.kind) /\ Triangles(t) \subseteq Triangles(u)
      /\ Turn(n + 2, x.p, y.p, z.p) \in Triangles(u)
  BY <1>1, <1>2, GrowOne
<1>4. Turn(n + 2, x.p, y.p, z.p) = Turn(n, x.p, y.p, z.p)
  BY <1>2 DEF Turn
<1> HIDE DEF u
<1>5. Good(u, n + 3, y.p, z.p, z.kind)
  BY <1>2, <1>3
<1>6. /\ Triangles(s) \subseteq Triangles(u) /\ Turn(n, a, b, x.p) \in Triangles(u)
      /\ Turn(n + 1, b, x.p, y.p) \in Triangles(u)
      /\ Turn(n, x.p, y.p, z.p) \in Triangles(u)
  BY <1>1, <1>3, <1>4
<1> QED
  BY <1>5, <1>6 DEF t, u

-----------------------------------------------------------------------------
(* Where a strip goes on.                                                  *)

\* The last two points a and b of what is submitted, when the loop comes to a triangle
\* that begins with the corners x and y.
Joins(a, b, x, y) ==
  /\ x \in seen /\ y \in seen => a = <<x, x>> /\ b = <<y, y>>
  /\ x \in seen /\ y \notin seen => a = <<x, x>> /\ b = Cut(x, y)
  /\ x \notin seen /\ y \in seen => b = <<y, y>> /\ Lies(a, b, Cut(x, y))
  /\ x \notin seen /\ y \notin seen => a = b /\ a[1] # a[2]

\* Two corners that are not both visible, and not both hidden, differ.
LEMMA CutLies ==
  ASSUME NEW x \in Nat, NEW y \in Nat, ~((x \in seen) <=> (y \in seen))
  PROVE  Cut(x, y)[1] # Cut(x, y)[2]
<1>1. x # y
  OBVIOUS
<1> QED
  BY <1>1, CutIs

LEMMA HeadLies ==
  ASSUME NEW x \in Nat, NEW y \in Nat, NEW z \in Nat, NEW a, NEW b, Joins(a, b, x, y)
  PROVE  LET p == <<x, x>>
             q == <<y, y>>
             u == Cut(x, y)
             v == Cut(y, z)
             w == Cut(z, x)
         IN  /\ x \in seen /\ y \in seen => Lies(a, b, p) /\ Lies(b, p, q)
             /\ x \in seen /\ y \notin seen => Lies(a, b, p) /\ Lies(b, p, u)
             /\ x \notin seen /\ y \in seen => Lies(a, b, u) /\ Lies(b, u, q)
             /\ x \notin seen /\ y \notin seen /\ z \in seen => Lies(a, b, v) /\ Lies(b, v, w)
<1> DEFINE p == <<x, x>>
           q == <<y, y>>
           u == Cut(x, y)
           v == Cut(y, z)
           w == Cut(z, x)
<1>1. /\ x \in seen /\ y \in seen => a = p /\ b = q
      /\ x \in seen /\ y \notin seen => a = p /\ b = u
      /\ x \notin seen /\ y \in seen => b = q /\ Lies(a, b, u)
      /\ x \notin seen /\ y \notin seen => a = b /\ a[1] # a[2]
  BY DEF Joins
<1>2. /\ y \notin seen /\ z \in seen => v[1] # v[2]
      /\ z \in seen /\ x \notin seen => w[1] # w[2]
  BY CutLies
<1> HIDE DEF p, q, u, v, w
<1>3. ASSUME x \in seen, y \in seen PROVE Lies(a, b, p) /\ Lies(b, p, q)
  BY <1>1, <1>3 DEF Lies
<1>4. ASSUME x \in seen, y \notin seen PROVE Lies(a, b, p) /\ Lies(b, p, u)
  BY <1>1, <1>4 DEF Lies
<1>5. ASSUME x \notin seen, y \in seen PROVE Lies(a, b, u) /\ Lies(b, u, q)
  <2>1. Lies(a, b, u) /\ b = q
    BY <1>1, <1>5
  <2>2. Lies(b, u, q)
    BY <2>1 DEF Lies
  <2> QED
    BY <2>1, <2>2
<1>6. ASSUME x \notin seen, y \notin seen, z \in seen PROVE Lies(a, b, v) /\ Lies(b, v, w)
  BY <1>1, <1>2, <1>6 DEF Lies
<1> QED
  BY <1>3, <1>4, <1>5, <1>6 DEF p, q, u, v, w

\* Points of the outline of a triangle that was given.
LEMMA SeenLies ==
  ASSUME NEW m \in Nat, NEW x \in Nat, NEW y \in Nat, NEW z \in Nat,
         Turn(m, <<x, x>>, <<y, y>>, <<z, z>>) \in Triangles(given)
  PROVE  LET p == <<x, x>>
             q == <<y, y>>
             r == <<z, z>>
             u == Cut(x, y)
             v == Cut(y, z)
             w == Cut(z, x)
         IN  /\ x \in seen /\ y \in seen /\ z \in seen => Lies(p, q, r)
             /\ x \in seen /\ y \notin seen /\ z \notin seen => Lies(p, u, w)
             /\ x \notin seen /\ y \in seen /\ z \notin seen => Lies(u, q, v)
             /\ x \notin seen /\ y \notin seen /\ z \in seen => Lies(v, w, r) /\ Lies(w, r, v)
             /\ x \in seen /\ y \in seen /\ z \notin seen => Lies(p, q, w) /\ Lies(w, q, v)
             /\ x \notin seen /\ y \in seen /\ z \in seen => Lies(u, q, w) /\ Lies(w, q, r)
             /\ x \in seen /\ y \notin seen /\ z \in seen => Lies(p, u, r) /\ Lies(u, r, v)
<1> DEFINE p == <<x, x>>
           q == <<y, y>>
           r == <<z, z>>
           u == Cut(x, y)
           v == Cut(y, z)
           w == Cut(z, x)
           t == Turn(m, p, q, r)
           o == Outline(t)
<1>1. /\ x \in seen /\ y \in seen /\ z \in seen
           => o = IF m % 2 = 0 THEN <<p, q, r>> ELSE <<q, p, r>>
      /\ x \in seen /\ y \notin seen /\ z \notin seen
           => o = IF m % 2 = 0 THEN <<p, u, w>> ELSE <<u, p, w>>
      /\ x \notin seen /\ y \in seen /\ z \notin seen
           => o = IF m % 2 = 0 THEN <<u, q, v>> ELSE <<q, u, v>>
      /\ x \notin seen /\ y \notin seen /\ z \in seen
           => o = IF m % 2 = 0 THEN <<v, r, w>> ELSE <<w, r, v>>
      /\ x \in seen /\ y \in seen /\ z \notin seen
           => o = IF m % 2 = 0 THEN <<p, q, v, w>> ELSE <<q, p, w, v>>
      /\ x \notin seen /\ y \in seen /\ z \in seen
           => o = IF m % 2 = 0 THEN <<u, q, r, w>> ELSE <<q, u, w, r>>
      /\ x \in seen /\ y \notin seen /\ z \in seen
           => o = IF m % 2 = 0 THEN <<p, u, v, r>> ELSE <<u, p, r, v>>
  <2>1. OutlineOf(m, x, y, z)
    BY OutlineTurned
  <2> QED
    BY <2>1 DEF OutlineOf
<1>2. t \in Triangles(given)
  OBVIOUS
<1> HIDE DEF p, q, r, u, v, w, t
<1>3. ASSUME NEW a, NEW b, NEW c, {a, b, c} \subseteq Points(o) PROVE Lies(a, b, c)
  BY <1>2, <1>3 DEF Lies
<1> HIDE DEF o
<1>4. ASSUME x \in seen, y \in seen, z \in seen PROVE Lies(p, q, r)
  <2>1. o = <<p, q, r>> \/ o = <<q, p, r>>
    BY <1>1, <1>4
  <2>2. Points(o) = {p, q, r}
    BY <2>1, PointsOf
  <2> QED
    BY <1>3, <2>2
<1>5. ASSUME x \in seen, y \notin seen, z \notin seen PROVE Lies(p, u, w)
  <2>1. o = <<p, u, w>> \/ o = <<u, p, w>>
    BY <1>1, <1>5
  <2>2. Points(o) = {p, u, w}
    BY <2>1, PointsOf
  <2> QED
    BY <1>3, <2>2
<1>6. ASSUME x \notin seen, y \in seen, z \notin seen PROVE Lies(u, q, v)
  <2>1. o = <<u, q, v>> \/ o = <<q, u, v>>
    BY <1>1, <1>6
  <2>2. Points(o) = {u, q, v}
    BY <2>1, PointsOf
  <2> QED
    BY <1>3, <2>2
<1>7. ASSUME x \notin seen, y \notin seen, z \in seen PROVE Lies(v, w, r) /\ Lies(w, r, v)
  <2>1. o = <<v, r, w>> \/ o = <<w, r, v>>
    BY <1>1, <1>7
  <2>2. Points(o) = {v, r, w}
    BY <2>1, PointsOf
  <2>3. {v, w, r} \subseteq Points(o) /\ {w, r, v} \subseteq Points(o)
    BY <2>2
  <2> QED
    BY <1>3, <2>3
<1>8. ASSUME x \in seen, y \in seen, z \notin seen PROVE Lies(p, q, w) /\ Lies(w, q, v)
  <2>1. o = <<p, q, v, w>> \/ o = <<q, p, w, v>>
    BY <1>1, <1>8
  <2>2. Points(o) = {p, q, v, w}
    BY <2>1, PointsOf
  <2>3. {p, q, w} \subseteq Points(o) /\ {w, q, v} \subseteq Points(o)
    BY <2>2
  <2> QED
    BY <1>3, <2>3
<1>9. ASSUME x \notin seen, y \in seen, z \in seen PROVE Lies(u, q, w) /\ Lies(w, q, r)
  <2>1. o = <<u, q, r, w>> \/ o = <<q, u, w, r>>
    BY <1>1, <1>9
  <2>2. Points(o) = {u, q, r, w}
    BY <2>1, PointsOf
  <2>3. {u, q, w} \subseteq Points(o) /\ {w, q, r} \subseteq Points(o)
    BY <2>2
  <2> QED
    BY <1>3, <2>3
<1>10. ASSUME x \in seen, y \notin seen, z \in seen PROVE Lies(p, u, r) /\ Lies(u, r, v)
  <2>1. o = <<p, u, v, r>> \/ o = <<u, p, r, v>>
    BY <1>1, <1>10
  <2>2. Points(o) = {p, u, v, r}
    BY <2>1, PointsOf
  <2>3. {p, u, r} \subseteq Points(o) /\ {u, r, v} \subseteq Points(o)
    BY <2>2
  <2> QED
    BY <1>3, <2>3
<1> QED
  BY <1>4, <1>5, <1>6, <1>7, <1>8, <1>9, <1>10 DEF p, q, r, u, v, w

-----------------------------------------------------------------------------
(* What is submitted for a triangle, by the corners that are visible.      *)

\* A vertex that was divided once.
Point(p, flags) == [kind |-> flags, p |-> p, divided |-> 1]

LEMMA PointIs ==
  ASSUME NEW p \in Nat \X Nat, NEW flags \in {"vertex", "eol"}
  PROVE  /\ Point(p, flags) \in Vertices /\ Point(p, flags).divided = 1
         /\ Point(p, flags).p = p /\ Point(p, flags).kind = flags
  BY DEF Point, Vertices

LEMMA CornersAre ==
  ASSUME NEW x \in Nat, NEW y \in Nat, NEW k, NEW l, NEW flags
  PROVE  LET v == Corner(x, k)
             w == Corner(y, l)
         IN  /\ Divided(v) = Point(<<x, x>>, k)
             /\ Edge(v, w, flags) = Point(Cut(x, y), flags)
             /\ Flagged(Divided(v), flags) = Point(<<x, x>>, flags)
             /\ <<x, x>> \in Nat \X Nat /\ Cut(x, y) \in Nat \X Nat
<1> DEFINE v == Corner(x, k)
           w == Corner(y, l)
<1>1. v = [kind |-> k, p |-> <<x, x>>, divided |-> 0] /\ w.p[1] = y /\ w.divided = 0
      /\ v.p[1] = x /\ v.divided = 0
  BY DEF Corner
<1> HIDE DEF v, w
<1>2. Divided(v) = Point(<<x, x>>, k)
  BY <1>1 DEF Divided, Point
<1>3. Edge(v, w, flags) = Point(Cut(x, y), flags)
  <2>1. 1 + v.divided + w.divided = 1
    BY <1>1
  <2>2. (IF v.p[1] < w.p[1] THEN <<v.p[1], w.p[1]>> ELSE <<w.p[1], v.p[1]>>) = Cut(x, y)
    BY <1>1 DEF Cut
  <2> QED
    BY <2>1, <2>2 DEF Edge, Point
<1>4. Flagged(Divided(v), flags) = Point(<<x, x>>, flags)
  BY <1>2 DEF Flagged, Point
<1>5. <<x, x>> \in Nat \X Nat /\ Cut(x, y) \in Nat \X Nat
  BY DEF Cut
<1> QED
  BY <1>2, <1>3, <1>4, <1>5 DEF v, w

\* u is s and what was submitted for the m-th triangle of a strip, which is given at the
\* place at, with the corners x, y and z, the last with the flags k.
Follows3(s, u, at, m, x, y, z, k) ==
  \E n \in Nat : \E a, b, flags :
    /\ n >= 2 /\ Good(u, n, a, b, flags) /\ (k = "vertex" => flags = "vertex")
    /\ Joins(a, b, y, z)
    /\ Upright(at) /\ (y \in seen \/ z \in seen) => n % 2 = (m + 1) % 2
    /\ Triangles(s) \subseteq Triangles(u)
    /\ LET o == Outline(Turn(m, <<x, x>>, <<y, y>>, <<z, z>>))
       IN  o # <<>> => Filled(o, Triangles(u), Upright(at))

\* Of the corners, x, y and z are visible.
LEMMA AllSeen ==
  ASSUME NEW at, NEW m \in Nat, NEW x \in Nat, NEW y \in Nat, NEW z \in Nat,
         NEW k \in {"vertex", "eol"}, NEW s, NEW n \in Nat, n >= 2,
         Turn(m, <<x, x>>, <<y, y>>, <<z, z>>) \in Triangles(given),
         Upright(at) => n % 2 = m % 2, x \in seen, y \in seen, z \in seen,
         Good(s, n, <<x, x>>, <<y, y>>, "vertex")
  PROVE  Follows3(s, s \o <<Point(<<z, z>>, k)>>, at, m, x, y, z, k)
<1> DEFINE p == <<x, x>>
           q == <<y, y>>
           r == <<z, z>>
           u == Cut(x, y)
           v == Cut(y, z)
           w == Cut(z, x)
           X1 == Point(r, k)
           t == s \o <<X1>>
<1>1. p \in Nat \X Nat /\ q \in Nat \X Nat /\ r \in Nat \X Nat
      /\ u \in Nat \X Nat /\ v \in Nat \X Nat /\ w \in Nat \X Nat
  BY CornersAre
<1>2. Lies(p, q, r)
  BY SeenLies
<1>3. Good(s, n, p, q, "vertex")
  OBVIOUS
<1> HIDE DEF p, q, r, u, v, w
<1>x1. X1 \in Vertices /\ X1.divided = 1 /\ X1.p = r /\ X1.kind = k
  BY <1>1, PointIs
<1> HIDE DEF X1
<1>4. Lies(p, q, X1.p)
  BY <1>2, <1>x1
<1>5. /\ Good(t, n + 1, q, X1.p, X1.kind) /\ Triangles(s) \subseteq Triangles(t)
      /\ Turn(n, p, q, X1.p) \in Triangles(t)
  BY <1>3, <1>4, <1>x1, GrowOne
<1> HIDE DEF t
<1>6. /\ Good(t, n + 1, q, r, k) /\ Triangles(s) \subseteq Triangles(t)
      /\ Turn(n, p, q, r) \in Triangles(t)
  BY <1>5, <1>x1
<1>7. Joins(q, r, y, z)
  BY DEF Joins, q, r, v
<1>8. Upright(at) => (n + 1) % 2 = (m + 1) % 2
  <2>1. n % 2 = m % 2 => (n + 1) % 2 = (m + 1) % 2
    OBVIOUS
  <2> QED
    BY <2>1
<1>9. LET o == Outline(Turn(m, p, q, r)) IN o # <<>> => Filled(o, Triangles(t), Upright(at))
  <2> DEFINE D == Triangles(t)
  <2>1. Turn(n, p, q, r) \in D
    BY <1>6
  <2> HIDE DEF D
  <2> QED
    BY <2>1, FilledIs DEF p, q, r, u, v, w, D
<1>10. n + 1 \in Nat /\ n + 1 >= 2
  OBVIOUS
<1> DEFINE N == n + 1
<1> HIDE DEF N
<1>11. /\ N \in Nat /\ N >= 2 /\ Good(t, N, q, r, k) /\ Joins(q, r, y, z)
       /\ Upright(at) /\ (y \in seen \/ z \in seen) => N % 2 = (m + 1) % 2
  BY <1>6, <1>7, <1>8, <1>10 DEF N
<1>12. k = "vertex" => k = "vertex"
  OBVIOUS
<1>13. LET o == Outline(Turn(m, <<x, x>>, <<y, y>>, <<z, z>>))
       IN  o # <<>> => Filled(o, Triangles(t), Upright(at))
  BY <1>9 DEF p, q, r
<1>14. Follows3(s, t, at, m, x, y, z, k)
  BY <1>6, <1>11, <1>12, <1>13 DEF Follows3
<1> QED
  BY <1>14 DEF t, X1, p, q, r, u, v, w

\* Of the corners, x only are visible.
LEMMA FirstSeen ==
  ASSUME NEW at, NEW m \in Nat, NEW x \in Nat, NEW y \in Nat, NEW z \in Nat,
         NEW k \in {"vertex", "eol"}, NEW s, NEW n \in Nat, n >= 2,
         Turn(m, <<x, x>>, <<y, y>>, <<z, z>>) \in Triangles(given),
         Upright(at) => n % 2 = m % 2, x \in seen, y \notin seen, z \notin seen,
         Good(s, n, <<x, x>>, Cut(x, y), "vertex")
  PROVE  Follows3(s, s \o <<Point(Cut(z, x), "vertex")>> \o <<Point(Cut(z, x), "vertex")>>,
                  at, m, x, y, z, k)
<1> DEFINE p == <<x, x>>
           q == <<y, y>>
           r == <<z, z>>
           u == Cut(x, y)
           v == Cut(y, z)
           w == Cut(z, x)
           X1 == Point(w, "vertex")
           X2 == Point(w, "vertex")
           t == s \o <<X1>> \o <<X2>>
<1>1. p \in Nat \X Nat /\ q \in Nat \X Nat /\ r \in Nat \X Nat
      /\ u \in Nat \X Nat /\ v \in Nat \X Nat /\ w \in Nat \X Nat
  BY CornersAre
<1>2. Lies(p, u, w) /\ Lies(u, w, w)
  <2>1. Lies(p, u, w)
    BY SeenLies
  <2> HIDE DEF p, q, r, u, v, w
  <2>2. Lies(u, w, w)
    BY DEF Lies
  <2> QED
    BY <2>1, <2>2
<1>3. Good(s, n, p, u, "vertex")
  OBVIOUS
<1> HIDE DEF p, q, r, u, v, w
<1>x1. X1 \in Vertices /\ X1.divided = 1 /\ X1.p = w /\ X1.kind = "vertex"
  BY <1>1, PointIs
<1>x2. X2 \in Vertices /\ X2.divided = 1 /\ X2.p = w /\ X2.kind = "vertex"
  BY <1>1, PointIs
<1> HIDE DEF X1, X2
<1>4. Lies(p, u, X1.p) /\ Lies(u, X1.p, X2.p)
  BY <1>2, <1>x1, <1>x2
<1>5. /\ Good(t, n + 2, X1.p, X2.p, X2.kind) /\ Triangles(s) \subseteq Triangles(t)
      /\ Turn(n, p, u, X1.p) \in Triangles(t)
      /\ Turn(n + 1, u, X1.p, X2.p) \in Triangles(t)
  BY <1>3, <1>4, <1>x1, <1>x2, GrowTwo
<1> HIDE DEF t
<1>6. /\ Good(t, n + 2, w, w, "vertex") /\ Triangles(s) \subseteq Triangles(t)
      /\ Turn(n, p, u, w) \in Triangles(t)
      /\ Turn(n + 1, u, w, w) \in Triangles(t)
  BY <1>5, <1>x1, <1>x2
<1>7. Joins(w, w, y, z)
  <2>1. w[1] # w[2]
    BY CutLies DEF w
  <2> QED
    BY <2>1 DEF Joins
<1>8. ~(y \in seen \/ z \in seen)
  OBVIOUS
<1>9. LET o == Outline(Turn(m, p, q, r)) IN o # <<>> => Filled(o, Triangles(t), Upright(at))
  <2> DEFINE D == Triangles(t)
  <2>1. Turn(n, p, u, w) \in D /\ Turn(n + 1, u, w, w) \in D
    BY <1>6
  <2> HIDE DEF D
  <2> QED
    BY <2>1, FilledIs DEF p, q, r, u, v, w, D
<1>10. n + 2 \in Nat /\ n + 2 >= 2
  OBVIOUS
<1> DEFINE N == n + 2
<1> HIDE DEF N
<1>11. /\ N \in Nat /\ N >= 2 /\ Good(t, N, w, w, "vertex") /\ Joins(w, w, y, z)
       /\ Upright(at) /\ (y \in seen \/ z \in seen) => N % 2 = (m + 1) % 2
  BY <1>6, <1>7, <1>8, <1>10 DEF N
<1>12. k = "vertex" => "vertex" = "vertex"
  OBVIOUS
<1>13. LET o == Outline(Turn(m, <<x, x>>, <<y, y>>, <<z, z>>))
       IN  o # <<>> => Filled(o, Triangles(t), Upright(at))
  BY <1>9 DEF p, q, r
<1>14. Follows3(s, t, at, m, x, y, z, k)
  BY <1>6, <1>11, <1>12, <1>13 DEF Follows3
<1> QED
  BY <1>14 DEF t, X1, X2, p, q, r, u, v, w

\* Of the corners, y only are visible.
LEMMA SecondSeen ==
  ASSUME NEW at, NEW m \in Nat, NEW x \in Nat, NEW y \in Nat, NEW z \in Nat,
         NEW k \in {"vertex", "eol"}, NEW s, NEW n \in Nat, n >= 2,
         Turn(m, <<x, x>>, <<y, y>>, <<z, z>>) \in Triangles(given),
         Upright(at) => n % 2 = m % 2, x \notin seen, y \in seen, z \notin seen,
         Good(s, n, Cut(x, y), <<y, y>>, "vertex")
  PROVE  Follows3(s, s \o <<Point(Cut(y, z), k)>>, at, m, x, y, z, k)
<1> DEFINE p == <<x, x>>
           q == <<y, y>>
           r == <<z, z>>
           u == Cut(x, y)
           v == Cut(y, z)
           w == Cut(z, x)
           X1 == Point(v, k)
           t == s \o <<X1>>
<1>1. p \in Nat \X Nat /\ q \in Nat \X Nat /\ r \in Nat \X Nat
      /\ u \in Nat \X Nat /\ v \in Nat \X Nat /\ w \in Nat \X Nat
  BY CornersAre
<1>2. Lies(u, q, v)
  BY SeenLies
<1>3. Good(s, n, u, q, "vertex")
  OBVIOUS
<1> HIDE DEF p, q, r, u, v, w
<1>x1. X1 \in Vertices /\ X1.divided = 1 /\ X1.p = v /\ X1.kind = k
  BY <1>1, PointIs
<1> HIDE DEF X1
<1>4. Lies(u, q, X1.p)
  BY <1>2, <1>x1
<1>5. /\ Good(t, n + 1, q, X1.p, X1.kind) /\ Triangles(s) \subseteq Triangles(t)
      /\ Turn(n, u, q, X1.p) \in Triangles(t)
  BY <1>3, <1>4, <1>x1, GrowOne
<1> HIDE DEF t
<1>6. /\ Good(t, n + 1, q, v, k) /\ Triangles(s) \subseteq Triangles(t)
      /\ Turn(n, u, q, v) \in Triangles(t)
  BY <1>5, <1>x1
<1>7. Joins(q, v, y, z)
  BY DEF Joins, q, r, v
<1>8. Upright(at) => (n + 1) % 2 = (m + 1) % 2
  <2>1. n % 2 = m % 2 => (n + 1) % 2 = (m + 1) % 2
    OBVIOUS
  <2> QED
    BY <2>1
<1>9. LET o == Outline(Turn(m, p, q, r)) IN o # <<>> => Filled(o, Triangles(t), Upright(at))
  <2> DEFINE D == Triangles(t)
  <2>1. Turn(n, u, q, v) \in D
    BY <1>6
  <2> HIDE DEF D
  <2> QED
    BY <2>1, FilledIs DEF p, q, r, u, v, w, D
<1>10. n + 1 \in Nat /\ n + 1 >= 2
  OBVIOUS
<1> DEFINE N == n + 1
<1> HIDE DEF N
<1>11. /\ N \in Nat /\ N >= 2 /\ Good(t, N, q, v, k) /\ Joins(q, v, y, z)
       /\ Upright(at) /\ (y \in seen \/ z \in seen) => N % 2 = (m + 1) % 2
  BY <1>6, <1>7, <1>8, <1>10 DEF N
<1>12. k = "vertex" => k = "vertex"
  OBVIOUS
<1>13. LET o == Outline(Turn(m, <<x, x>>, <<y, y>>, <<z, z>>))
       IN  o # <<>> => Filled(o, Triangles(t), Upright(at))
  BY <1>9 DEF p, q, r
<1>14. Follows3(s, t, at, m, x, y, z, k)
  BY <1>6, <1>11, <1>12, <1>13 DEF Follows3
<1> QED
  BY <1>14 DEF t, X1, p, q, r, u, v, w

\* Of the corners, z only are visible.
LEMMA ThirdSeen ==
  ASSUME NEW at, NEW m \in Nat, NEW x \in Nat, NEW y \in Nat, NEW z \in Nat,
         NEW k \in {"vertex", "eol"}, NEW s, NEW n \in Nat, n >= 2,
         Turn(m, <<x, x>>, <<y, y>>, <<z, z>>) \in Triangles(given),
         Upright(at) => n % 2 = m % 2, x \notin seen, y \notin seen, z \in seen,
         ~Upright(at), Good(s, n, Cut(y, z), Cut(z, x), "vertex")
  PROVE  Follows3(s, s \o <<Point(<<z, z>>, k)>>, at, m, x, y, z, k)
<1> DEFINE p == <<x, x>>
           q == <<y, y>>
           r == <<z, z>>
           u == Cut(x, y)
           v == Cut(y, z)
           w == Cut(z, x)
           X1 == Point(r, k)
           t == s \o <<X1>>
<1>1. p \in Nat \X Nat /\ q \in Nat \X Nat /\ r \in Nat \X Nat
      /\ u \in Nat \X Nat /\ v \in Nat \X Nat /\ w \in Nat \X Nat
  BY CornersAre
<1>2. Lies(v, w, r) /\ Lies(w, r, v)
  BY SeenLies
<1>3. Good(s, n, v, w, "vertex")
  OBVIOUS
<1> HIDE DEF p, q, r, u, v, w
<1>x1. X1 \in Vertices /\ X1.divided = 1 /\ X1.p = r /\ X1.kind = k
  BY <1>1, PointIs
<1> HIDE DEF X1
<1>4. Lies(v, w, X1.p)
  BY <1>2, <1>x1
<1>5. /\ Good(t, n + 1, w, X1.p, X1.kind) /\ Triangles(s) \subseteq Triangles(t)
      /\ Turn(n, v, w, X1.p) \in Triangles(t)
  BY <1>3, <1>4, <1>x1, GrowOne
<1> HIDE DEF t
<1>6. /\ Good(t, n + 1, w, r, k) /\ Triangles(s) \subseteq Triangles(t)
      /\ Turn(n, v, w, r) \in Triangles(t)
  BY <1>5, <1>x1
<1>7. Joins(w, r, y, z)
  <2>1. r = <<z, z>> /\ v = Cut(y, z)
    BY DEF r, v
  <2> QED
    BY <1>2, <2>1 DEF Joins
<1>8. Upright(at) => (n + 1) % 2 = (m + 1) % 2
  OBVIOUS
<1>9. LET o == Outline(Turn(m, p, q, r)) IN o # <<>> => Filled(o, Triangles(t), Upright(at))
  <2> DEFINE D == Triangles(t)
  <2>1. Turn(n, v, w, r) \in D
    BY <1>6
  <2> HIDE DEF D
  <2> QED
    BY <2>1, FilledIs DEF p, q, r, u, v, w, D
<1>10. n + 1 \in Nat /\ n + 1 >= 2
  OBVIOUS
<1> DEFINE N == n + 1
<1> HIDE DEF N
<1>11. /\ N \in Nat /\ N >= 2 /\ Good(t, N, w, r, k) /\ Joins(w, r, y, z)
       /\ Upright(at) /\ (y \in seen \/ z \in seen) => N % 2 = (m + 1) % 2
  BY <1>6, <1>7, <1>8, <1>10 DEF N
<1>12. k = "vertex" => k = "vertex"
  OBVIOUS
<1>13. LET o == Outline(Turn(m, <<x, x>>, <<y, y>>, <<z, z>>))
       IN  o # <<>> => Filled(o, Triangles(t), Upright(at))
  BY <1>9 DEF p, q, r
<1>14. Follows3(s, t, at, m, x, y, z, k)
  BY <1>6, <1>11, <1>12, <1>13 DEF Follows3
<1> QED
  BY <1>14 DEF t, X1, p, q, r, u, v, w

\* Of the corners, x and y are visible.
LEMMA FirstTwoSeen ==
  ASSUME NEW at, NEW m \in Nat, NEW x \in Nat, NEW y \in Nat, NEW z \in Nat,
         NEW k \in {"vertex", "eol"}, NEW s, NEW n \in Nat, n >= 2,
         Turn(m, <<x, x>>, <<y, y>>, <<z, z>>) \in Triangles(given),
         Upright(at) => n % 2 = m % 2, x \in seen, y \in seen, z \notin seen,
         Good(s, n, <<x, x>>, <<y, y>>, "vertex")
  PROVE  Follows3(s, s
                     \o <<Point(Cut(z, x), "vertex")>> \o <<Point(<<y, y>>, "vertex")>>
                     \o <<Point(Cut(y, z), k)>>,
                  at, m, x, y, z, k)
<1> DEFINE p == <<x, x>>
           q == <<y, y>>
           r == <<z, z>>
           u == Cut(x, y)
           v == Cut(y, z)
           w == Cut(z, x)
           X1 == Point(w, "vertex")
           X2 == Point(q, "vertex")
           X3 == Point(v, k)
           t == s \o <<X1>> \o <<X2>> \o <<X3>>
<1>1. p \in Nat \X Nat /\ q \in Nat \X Nat /\ r \in Nat \X Nat
      /\ u \in Nat \X Nat /\ v \in Nat \X Nat /\ w \in Nat \X Nat
  BY CornersAre
<1>2. Lies(p, q, w) /\ Lies(q, w, q) /\ Lies(w, q, v)
  <2>1. Lies(p, q, w) /\ Lies(w, q, v)
    BY SeenLies
  <2> HIDE DEF p, q, r, u, v, w
  <2>2. Lies(q, w, q)
    BY DEF Lies
  <2> QED
    BY <2>1, <2>2
<1>3. Good(s, n, p, q, "vertex")
  OBVIOUS
<1> HIDE DEF p, q, r, u, v, w
<1>x1. X1 \in Vertices /\ X1.divided = 1 /\ X1.p = w /\ X1.kind = "vertex"
  BY <1>1, PointIs
<1>x2. X2 \in Vertices /\ X2.divided = 1 /\ X2.p = q /\ X2.kind = "vertex"
  BY <1>1, PointIs
<1>x3. X3 \in Vertices /\ X3.divided = 1 /\ X3.p = v /\ X3.kind = k
  BY <1>1, PointIs
<1> HIDE DEF X1, X2, X3
<1>4. Lies(p, q, X1.p) /\ Lies(q, X1.p, X2.p) /\ Lies(X1.p, X2.p, X3.p)
  BY <1>2, <1>x1, <1>x2, <1>x3
<1>5. /\ Good(t, n + 3, X2.p, X3.p, X3.kind) /\ Triangles(s) \subseteq Triangles(t)
      /\ Turn(n, p, q, X1.p) \in Triangles(t)
      /\ Turn(n + 1, q, X1.p, X2.p) \in Triangles(t)
      /\ Turn(n, X1.p, X2.p, X3.p) \in Triangles(t)
  BY <1>3, <1>4, <1>x1, <1>x2, <1>x3, GrowThree
<1> HIDE DEF t
<1>6. /\ Good(t, n + 3, q, v, k) /\ Triangles(s) \subseteq Triangles(t)
      /\ Turn(n, p, q, w) \in Triangles(t)
      /\ Turn(n + 1, q, w, q) \in Triangles(t)
      /\ Turn(n, w, q, v) \in Triangles(t)
  BY <1>5, <1>x1, <1>x2, <1>x3
<1>7. Joins(q, v, y, z)
  BY DEF Joins, q, r, v
<1>8. Upright(at) => (n + 3) % 2 = (m + 1) % 2
  <2>1. n % 2 = m % 2 => (n + 3) % 2 = (m + 1) % 2
    OBVIOUS
  <2> QED
    BY <2>1
<1>9. LET o == Outline(Turn(m, p, q, r)) IN o # <<>> => Filled(o, Triangles(t), Upright(at))
  <2> DEFINE D == Triangles(t)
  <2>1. Turn(n, p, q, w) \in D /\ Turn(n + 1, q, w, q) \in D /\ Turn(n, w, q, v) \in D
    BY <1>6
  <2> HIDE DEF D
  <2> QED
    BY <2>1, FilledIs DEF p, q, r, u, v, w, D
<1>10. n + 3 \in Nat /\ n + 3 >= 2
  OBVIOUS
<1> DEFINE N == n + 3
<1> HIDE DEF N
<1>11. /\ N \in Nat /\ N >= 2 /\ Good(t, N, q, v, k) /\ Joins(q, v, y, z)
       /\ Upright(at) /\ (y \in seen \/ z \in seen) => N % 2 = (m + 1) % 2
  BY <1>6, <1>7, <1>8, <1>10 DEF N
<1>12. k = "vertex" => k = "vertex"
  OBVIOUS
<1>13. LET o == Outline(Turn(m, <<x, x>>, <<y, y>>, <<z, z>>))
       IN  o # <<>> => Filled(o, Triangles(t), Upright(at))
  BY <1>9 DEF p, q, r
<1>14. Follows3(s, t, at, m, x, y, z, k)
  BY <1>6, <1>11, <1>12, <1>13 DEF Follows3
<1> QED
  BY <1>14 DEF t, X1, X2, X3, p, q, r, u, v, w

\* Of the corners, y and z are visible.
LEMMA LastTwoSeen ==
  ASSUME NEW at, NEW m \in Nat, NEW x \in Nat, NEW y \in Nat, NEW z \in Nat,
         NEW k \in {"vertex", "eol"}, NEW s, NEW n \in Nat, n >= 2,
         Turn(m, <<x, x>>, <<y, y>>, <<z, z>>) \in Triangles(given),
         Upright(at) => n % 2 = m % 2, x \notin seen, y \in seen, z \in seen,
         Good(s, n, Cut(x, y), <<y, y>>, "vertex")
  PROVE  Follows3(s, s
                     \o <<Point(Cut(z, x), "vertex")>> \o <<Point(<<y, y>>, "vertex")>>
                     \o <<Point(<<z, z>>, k)>>,
                  at, m, x, y, z, k)
<1> DEFINE p == <<x, x>>
           q == <<y, y>>
           r == <<z, z>>
           u == Cut(x, y)
           v == Cut(y, z)
           w == Cut(z, x)
           X1 == Point(w, "vertex")
           X2 == Point(q, "vertex")
           X3 == Point(r, k)
           t == s \o <<X1>> \o <<X2>> \o <<X3>>
<1>1. p \in Nat \X Nat /\ q \in Nat \X Nat /\ r \in Nat \X Nat
      /\ u \in Nat \X Nat /\ v \in Nat \X Nat /\ w \in Nat \X Nat
  BY CornersAre
<1>2. Lies(u, q, w) /\ Lies(q, w, q) /\ Lies(w, q, r)
  <2>1. Lies(u, q, w) /\ Lies(w, q, r)
    BY SeenLies
  <2> HIDE DEF p, q, r, u, v, w
  <2>2. Lies(q, w, q)
    BY DEF Lies
  <2> QED
    BY <2>1, <2>2
<1>3. Good(s, n, u, q, "vertex")
  OBVIOUS
<1> HIDE DEF p, q, r, u, v, w
<1>x1. X1 \in Vertices /\ X1.divided = 1 /\ X1.p = w /\ X1.kind = "vertex"
  BY <1>1, PointIs
<1>x2. X2 \in Vertices /\ X2.divided = 1 /\ X2.p = q /\ X2.kind = "vertex"
  BY <1>1, PointIs
<1>x3. X3 \in Vertices /\ X3.divided = 1 /\ X3.p = r /\ X3.kind = k
  BY <1>1, PointIs
<1> HIDE DEF X1, X2, X3
<1>4. Lies(u, q, X1.p) /\ Lies(q, X1.p, X2.p) /\ Lies(X1.p, X2.p, X3.p)
  BY <1>2, <1>x1, <1>x2, <1>x3
<1>5. /\ Good(t, n + 3, X2.p, X3.p, X3.kind) /\ Triangles(s) \subseteq Triangles(t)
      /\ Turn(n, u, q, X1.p) \in Triangles(t)
      /\ Turn(n + 1, q, X1.p, X2.p) \in Triangles(t)
      /\ Turn(n, X1.p, X2.p, X3.p) \in Triangles(t)
  BY <1>3, <1>4, <1>x1, <1>x2, <1>x3, GrowThree
<1> HIDE DEF t
<1>6. /\ Good(t, n + 3, q, r, k) /\ Triangles(s) \subseteq Triangles(t)
      /\ Turn(n, u, q, w) \in Triangles(t)
      /\ Turn(n + 1, q, w, q) \in Triangles(t)
      /\ Turn(n, w, q, r) \in Triangles(t)
  BY <1>5, <1>x1, <1>x2, <1>x3
<1>7. Joins(q, r, y, z)
  BY DEF Joins, q, r, v
<1>8. Upright(at) => (n + 3) % 2 = (m + 1) % 2
  <2>1. n % 2 = m % 2 => (n + 3) % 2 = (m + 1) % 2
    OBVIOUS
  <2> QED
    BY <2>1
<1>9. LET o == Outline(Turn(m, p, q, r)) IN o # <<>> => Filled(o, Triangles(t), Upright(at))
  <2> DEFINE D == Triangles(t)
  <2>1. Turn(n, u, q, w) \in D /\ Turn(n + 1, q, w, q) \in D /\ Turn(n, w, q, r) \in D
    BY <1>6
  <2> HIDE DEF D
  <2> QED
    BY <2>1, FilledIs DEF p, q, r, u, v, w, D
<1>10. n + 3 \in Nat /\ n + 3 >= 2
  OBVIOUS
<1> DEFINE N == n + 3
<1> HIDE DEF N
<1>11. /\ N \in Nat /\ N >= 2 /\ Good(t, N, q, r, k) /\ Joins(q, r, y, z)
       /\ Upright(at) /\ (y \in seen \/ z \in seen) => N % 2 = (m + 1) % 2
  BY <1>6, <1>7, <1>8, <1>10 DEF N
<1>12. k = "vertex" => k = "vertex"
  OBVIOUS
<1>13. LET o == Outline(Turn(m, <<x, x>>, <<y, y>>, <<z, z>>))
       IN  o # <<>> => Filled(o, Triangles(t), Upright(at))
  BY <1>9 DEF p, q, r
<1>14. Follows3(s, t, at, m, x, y, z, k)
  BY <1>6, <1>11, <1>12, <1>13 DEF Follows3
<1> QED
  BY <1>14 DEF t, X1, X2, X3, p, q, r, u, v, w

\* Of the corners, x and z are visible.
LEMMA FirstLastSeen ==
  ASSUME NEW at, NEW m \in Nat, NEW x \in Nat, NEW y \in Nat, NEW z \in Nat,
         NEW k \in {"vertex", "eol"}, NEW s, NEW n \in Nat, n >= 2,
         Turn(m, <<x, x>>, <<y, y>>, <<z, z>>) \in Triangles(given),
         Upright(at) => n % 2 = m % 2, x \in seen, y \notin seen, z \in seen,
         Good(s, n, <<x, x>>, Cut(x, y), "vertex")
  PROVE  Follows3(s, s
                     \o <<Point(<<z, z>>, "vertex")>> \o <<Point(Cut(y, z), "vertex")>>
                     \o <<Point(<<z, z>>, "vertex")>>,
                  at, m, x, y, z, k)
<1> DEFINE p == <<x, x>>
           q == <<y, y>>
           r == <<z, z>>
           u == Cut(x, y)
           v == Cut(y, z)
           w == Cut(z, x)
           X1 == Point(r, "vertex")
           X2 == Point(v, "vertex")
           X3 == Point(r, "vertex")
           t == s \o <<X1>> \o <<X2>> \o <<X3>>
<1>1. p \in Nat \X Nat /\ q \in Nat \X Nat /\ r \in Nat \X Nat
      /\ u \in Nat \X Nat /\ v \in Nat \X Nat /\ w \in Nat \X Nat
  BY CornersAre
<1>2. Lies(p, u, r) /\ Lies(u, r, v) /\ Lies(r, v, r)
  <2>1. Lies(p, u, r) /\ Lies(u, r, v)
    BY SeenLies
  <2> HIDE DEF p, q, r, u, v, w
  <2>2. Lies(r, v, r)
    BY DEF Lies
  <2> QED
    BY <2>1, <2>2
<1>3. Good(s, n, p, u, "vertex")
  OBVIOUS
<1> HIDE DEF p, q, r, u, v, w
<1>x1. X1 \in Vertices /\ X1.divided = 1 /\ X1.p = r /\ X1.kind = "vertex"
  BY <1>1, PointIs
<1>x2. X2 \in Vertices /\ X2.divided = 1 /\ X2.p = v /\ X2.kind = "vertex"
  BY <1>1, PointIs
<1>x3. X3 \in Vertices /\ X3.divided = 1 /\ X3.p = r /\ X3.kind = "vertex"
  BY <1>1, PointIs
<1> HIDE DEF X1, X2, X3
<1>4. Lies(p, u, X1.p) /\ Lies(u, X1.p, X2.p) /\ Lies(X1.p, X2.p, X3.p)
  BY <1>2, <1>x1, <1>x2, <1>x3
<1>5. /\ Good(t, n + 3, X2.p, X3.p, X3.kind) /\ Triangles(s) \subseteq Triangles(t)
      /\ Turn(n, p, u, X1.p) \in Triangles(t)
      /\ Turn(n + 1, u, X1.p, X2.p) \in Triangles(t)
      /\ Turn(n, X1.p, X2.p, X3.p) \in Triangles(t)
  BY <1>3, <1>4, <1>x1, <1>x2, <1>x3, GrowThree
<1> HIDE DEF t
<1>6. /\ Good(t, n + 3, v, r, "vertex") /\ Triangles(s) \subseteq Triangles(t)
      /\ Turn(n, p, u, r) \in Triangles(t)
      /\ Turn(n + 1, u, r, v) \in Triangles(t)
      /\ Turn(n, r, v, r) \in Triangles(t)
  BY <1>5, <1>x1, <1>x2, <1>x3
<1>7. Joins(v, r, y, z)
  <2>1. r = <<z, z>> /\ v = Cut(y, z) /\ Lies(v, r, v)
    BY DEF r, v, Lies
  <2> QED
    BY <2>1 DEF Joins
<1>8. Upright(at) => (n + 3) % 2 = (m + 1) % 2
  <2>1. n % 2 = m % 2 => (n + 3) % 2 = (m + 1) % 2
    OBVIOUS
  <2> QED
    BY <2>1
<1>9. LET o == Outline(Turn(m, p, q, r)) IN o # <<>> => Filled(o, Triangles(t), Upright(at))
  <2> DEFINE D == Triangles(t)
  <2>1. Turn(n, p, u, r) \in D /\ Turn(n + 1, u, r, v) \in D /\ Turn(n, r, v, r) \in D
    BY <1>6
  <2> HIDE DEF D
  <2> QED
    BY <2>1, FilledIs DEF p, q, r, u, v, w, D
<1>10. n + 3 \in Nat /\ n + 3 >= 2
  OBVIOUS
<1> DEFINE N == n + 3
<1> HIDE DEF N
<1>11. /\ N \in Nat /\ N >= 2 /\ Good(t, N, v, r, "vertex") /\ Joins(v, r, y, z)
       /\ Upright(at) /\ (y \in seen \/ z \in seen) => N % 2 = (m + 1) % 2
  BY <1>6, <1>7, <1>8, <1>10 DEF N
<1>12. k = "vertex" => "vertex" = "vertex"
  OBVIOUS
<1>13. LET o == Outline(Turn(m, <<x, x>>, <<y, y>>, <<z, z>>))
       IN  o # <<>> => Filled(o, Triangles(t), Upright(at))
  BY <1>9 DEF p, q, r
<1>14. Follows3(s, t, at, m, x, y, z, k)
  BY <1>6, <1>11, <1>12, <1>13 DEF Follows3
<1> QED
  BY <1>14 DEF t, X1, X2, X3, p, q, r, u, v, w

-----------------------------------------------------------------------------
(* The vertices of a list.                                                 *)

\* What follows the last end of a list.
SinceEnd(s) ==
  LET ends == {k \in DOMAIN s : s[k].kind = "end"}
  IN  SubSeq(s, IF ends = {} THEN 1 ELSE Max(ends) + 1, Len(s))

LEMMA SinceEndEmpty ==
  /\ SinceEnd(<<>>) = <<>>
  /\ \A s \in Seq(Params) : Len(s) \in Ends(s) => SinceEnd(s) = <<>>
<1>1. SinceEnd(<<>>) = <<>>
  <2> DEFINE s == <<>>
             ends == {k \in DOMAIN s : s[k].kind = "end"}
  <2>1. Len(s) = 0 /\ ends = {}
    OBVIOUS
  <2>2. SubSeq(s, 1, 0) = <<>>
    BY SubSeqEmpty
  <2>3. SinceEnd(s) = SubSeq(s, IF ends = {} THEN 1 ELSE Max(ends) + 1, Len(s))
    BY DEF SinceEnd
  <2> HIDE DEF s, ends
  <2>4. SinceEnd(s) = <<>>
    BY <2>1, <2>2, <2>3
  <2> QED
    BY <2>4 DEF s
<1>2. ASSUME NEW s \in Seq(Params), Len(s) \in Ends(s) PROVE SinceEnd(s) = <<>>
  <2> DEFINE e == Ends(s)
  <2>1. Len(s) \in Nat /\ e \in SUBSET (1..Len(s)) /\ e # {}
    BY <1>2 DEF Ends
  <2>2. Max(e) \in e /\ \A x \in e : x <= Max(e)
    BY <2>1, MaxIs
  <2>3. SinceEnd(s) = SubSeq(s, IF e = {} THEN 1 ELSE Max(e) + 1, Len(s))
    BY DEF SinceEnd, Ends
  <2>4. Len(s) \in e
    BY <1>2
  <2> DEFINE m == Max(e)
  <2>5. m \in e /\ Len(s) <= m
    BY <2>2, <2>4
  <2>6. SinceEnd(s) = SubSeq(s, m + 1, Len(s))
    BY <2>1, <2>3
  <2> HIDE DEF m, e
  <2>7. m \in 1..Len(s)
    BY <2>1, <2>5
  <2>8. m + 1 \in Int /\ Len(s) \in Int /\ Len(s) < m + 1
    BY <2>1, <2>5, <2>7
  <2>9. SubSeq(s, m + 1, Len(s)) = <<>>
    BY <2>8, SubSeqEmpty
  <2> QED
    BY <2>6, <2>9
<1> QED
  BY <1>1, <1>2

LEMMA SinceEndIs ==
  ASSUME NEW s \in Seq(Params)
  PROVE  \E e \in 1..(Len(s) + 1) :
           /\ SinceEnd(s) = SubSeq(s, e, Len(s)) /\ SinceEnd(s) \in Seq(Params)
           /\ e = IF Ends(s) = {} THEN 1 ELSE Max(Ends(s)) + 1
<1> DEFINE ends == Ends(s)
           e == IF ends = {} THEN 1 ELSE Max(ends) + 1
<1>1. Len(s) \in Nat /\ ends \in SUBSET (1..Len(s)) /\ \A n \in 1..Len(s) : s[n] \in Params
  BY DEF Ends
<1>2. SinceEnd(s) = SubSeq(s, e, Len(s))
  BY DEF SinceEnd, Ends
<1> HIDE DEF ends
<1>3. e \in 1..(Len(s) + 1)
  <2>1. CASE ends = {}
    BY <1>1, <2>1
  <2>2. CASE ends # {}
    <3>1. Max(ends) \in ends
      BY <1>1, <2>2, MaxIs
    <3>2. Max(ends) \in 1..Len(s)
      BY <1>1, <3>1
    <3> QED
      BY <1>1, <2>2, <3>2
  <2> QED
    BY <2>1, <2>2
<1> HIDE DEF e
<1>4. \A n \in e..Len(s) : s[n] \in Params
  <2>1. \A n \in e..Len(s) : n \in 1..Len(s)
    BY <1>3
  <2> QED
    BY <1>1, <2>1
<1>5. e \in Int /\ Len(s) \in Int
  BY <1>1, <1>3
<1>6. SubSeq(s, e, Len(s)) \in Seq(Params)
  BY <1>4, <1>5, SubSeqProperties
<1> QED
  BY <1>2, <1>3, <1>6 DEF e, ends

LEMMA SinceEndMore ==
  ASSUME NEW s \in Seq(Params), NEW ps \in Seq(Params),
         \A n \in 1..Len(ps) : ps[n].kind # "end"
  PROVE  SinceEnd(s \o ps) = SinceEnd(s) \o ps
<1> DEFINE t == s \o ps
           L == Len(s)
           N == Len(ps)
<1>1. L \in Nat /\ N \in Nat
  OBVIOUS
<1>2. t \in Seq(Params) /\ Len(t) = L + N
      /\ \A n \in 1..(L + N) : t[n] = IF n <= L THEN s[n] ELSE ps[n - L]
  BY ConcatProperties
<1> HIDE DEF t
<1>3. Ends(t) = Ends(s)
  <2>1. DOMAIN t = 1..(L + N) /\ DOMAIN s = 1..L
    BY <1>2
  <2>2. ASSUME NEW k, k \in Ends(t) PROVE k \in Ends(s)
    <3>1. k \in 1..(L + N) /\ t[k].kind = "end"
      BY <2>1, <2>2 DEF Ends
    <3>2. k <= L
      <4> SUFFICES ASSUME ~(k <= L) PROVE FALSE
        OBVIOUS
      <4>1. k - L \in 1..N /\ t[k] = ps[k - L]
        BY <1>1, <1>2, <3>1
      <4> QED
        BY <3>1, <4>1
    <3>3. k \in 1..L /\ t[k] = s[k]
      BY <1>1, <1>2, <3>1, <3>2
    <3> QED
      BY <2>1, <3>1, <3>3 DEF Ends
  <2>3. ASSUME NEW k, k \in Ends(s) PROVE k \in Ends(t)
    <3>1. k \in 1..L /\ s[k].kind = "end"
      BY <2>1, <2>3 DEF Ends
    <3>2. k \in 1..(L + N) /\ k <= L
      BY <1>1, <3>1
    <3>3. t[k] = s[k]
      BY <1>2, <3>2
    <3> QED
      BY <2>1, <3>1, <3>2, <3>3 DEF Ends
  <2> QED
    BY <2>2, <2>3
<1>4. PICK e \in 1..(L + 1) :
        /\ SinceEnd(s) = SubSeq(s, e, L) /\ SinceEnd(s) \in Seq(Params)
        /\ e = IF Ends(s) = {} THEN 1 ELSE Max(Ends(s)) + 1
  BY SinceEndIs
<1>5. SinceEnd(t) = SubSeq(t, e, L + N) /\ SinceEnd(t) \in Seq(Params)
  <2>1. PICK f \in 1..(Len(t) + 1) :
          /\ SinceEnd(t) = SubSeq(t, f, Len(t)) /\ SinceEnd(t) \in Seq(Params)
          /\ f = IF Ends(t) = {} THEN 1 ELSE Max(Ends(t)) + 1
    BY <1>2, SinceEndIs
  <2>2. f = e
    BY <1>3, <1>4, <2>1
  <2> QED
    BY <1>2, <2>1, <2>2
<1> DEFINE S == SinceEnd(s)
           T == SinceEnd(t)
           u == S \o ps
<1>6. S \in Seq(Params) /\ Len(S) = L - e + 1 /\ \A n \in 1..(L - e + 1) : S[n] = s[e + n - 1]
  <2>1. \A n \in e..L : s[n] \in Params
    <3>1. \A n \in e..L : n \in 1..L
      BY <1>1, <1>4
    <3> QED
      BY <3>1
  <2>2. /\ Len(SubSeq(s, e, L)) = IF e <= L THEN L - e + 1 ELSE 0
        /\ \A n \in 1..(L - e + 1) : SubSeq(s, e, L)[n] = s[e + n - 1]
    BY <1>1, <2>1, SubSeqProperties
  <2> HIDE DEF L
  <2>3. (IF e <= L THEN L - e + 1 ELSE 0) = L - e + 1
    BY <1>1, <1>4
  <2> QED
    BY <1>4, <2>2, <2>3
<1>7. T \in Seq(Params) /\ Len(T) = L + N - e + 1
      /\ \A n \in 1..(L + N - e + 1) : T[n] = t[e + n - 1]
  <2>1. \A n \in e..(L + N) : t[n] \in Params
    <3>1. \A n \in e..(L + N) : n \in 1..Len(t)
      BY <1>1, <1>2, <1>4
    <3> QED
      BY <1>2, <3>1
  <2>2. /\ Len(SubSeq(t, e, L + N)) = IF e <= L + N THEN L + N - e + 1 ELSE 0
        /\ \A n \in 1..(L + N - e + 1) : SubSeq(t, e, L + N)[n] = t[e + n - 1]
    <3>1. e \in Int /\ L + N \in Int
      BY <1>1, <1>4
    <3> QED
      BY <2>1, <3>1, SubSeqProperties
  <2> HIDE DEF L, N
  <2>3. (IF e <= L + N THEN L + N - e + 1 ELSE 0) = L + N - e + 1
    <3>1. L \in Nat /\ N \in Nat
      BY <1>1
    <3>2. e \in Nat /\ e <= L + N + 1
      BY <1>4, <3>1
    <3> QED
      BY <3>1, <3>2
  <2> QED
    BY <1>5, <2>2, <2>3
<1> HIDE DEF S, T, L
<1>8. u \in Seq(Params) /\ Len(u) = Len(S) + N
      /\ \A n \in 1..(Len(S) + N) : u[n] = IF n <= Len(S) THEN S[n] ELSE ps[n - Len(S)]
  BY <1>6, ConcatProperties
<1> HIDE DEF u, N
<1>9. Len(u) = L + N - e + 1 /\ Len(S) + N = L + N - e + 1
  BY <1>1, <1>4, <1>6, <1>8
<1>10. ASSUME NEW n \in 1..(L + N - e + 1) PROVE T[n] = u[n]
  <2> DEFINE m == e + n - 1
  <2>1. T[n] = t[m]
    BY <1>7
  <2>2. n \in Int /\ e \in Int /\ 1 <= n /\ n <= L + N - e + 1 /\ 1 <= e
    <3>1. L \in Nat /\ N \in Nat
      BY <1>1
    <3>2. e \in Nat /\ 1 <= e
      BY <1>4, <3>1
    <3> QED
      BY <3>1, <3>2
  <2>3. m = e + n - 1 /\ m \in 1..(L + N)
    BY <1>1, <2>2
  <2> HIDE DEF m
  <2>4. CASE n <= Len(S)
    <3>1. n \in 1..(L - e + 1) /\ m <= L
      BY <1>1, <1>6, <2>2, <2>3, <2>4
    <3>2. S[n] = s[m] /\ t[m] = s[m]
      <4>1. S[n] = s[m]
        BY <1>6, <2>3, <3>1
      <4>2. t[m] = s[m]
        BY <1>2, <2>3, <3>1
      <4> QED
        BY <4>1, <4>2
    <3>3. u[n] = S[n]
      BY <1>8, <1>9, <2>4
    <3> QED
      BY <2>1, <3>2, <3>3
  <2>5. CASE ~(n <= Len(S))
    <3>1. ~(m <= L) /\ n - Len(S) = m - L
      BY <1>1, <1>6, <2>2, <2>3, <2>5
    <3>2. t[m] = ps[m - L]
      BY <1>2, <2>3, <3>1
    <3>3. u[n] = ps[n - Len(S)]
      BY <1>8, <1>9, <2>5
    <3> QED
      BY <2>1, <3>1, <3>2, <3>3
  <2> QED
    BY <2>4, <2>5
<1>11. T = u
  BY <1>7, <1>8, <1>9, <1>10, SeqEqual
<1> QED
  BY <1>11 DEF T, t, u, S

-----------------------------------------------------------------------------
(* Sequences put together.                                                 *)

LEMMA FrontLastIs ==
  ASSUME NEW S, NEW s \in Seq(S), s # <<>>
  PROVE  Front(s) \in Seq(S) /\ Last(s) \in S /\ Front(s) \o <<Last(s)>> = s
<1> DEFINE f == SubSeq(s, 1, Len(s) - 1)
           x == s[Len(s)]
<1>1. Len(s) \in Nat /\ Len(s) >= 1 /\ \A n \in 1..Len(s) : s[n] \in S
  BY EmptySeq
<1>2. x \in S
  BY <1>1
<1>3. \A n \in 1..(Len(s) - 1) : n \in 1..Len(s) /\ s[n] \in S
  BY <1>1
<1>4. /\ f \in Seq(S) /\ Len(f) = IF 1 <= Len(s) - 1 THEN Len(s) - 1 - 1 + 1 ELSE 0
      /\ \A n \in 1..(Len(s) - 1 - 1 + 1) : f[n] = s[1 + n - 1]
  <2>1. 1 \in Int /\ Len(s) - 1 \in Int
    BY <1>1
  <2> QED
    BY <1>3, <2>1, SubSeqProperties
<1> HIDE DEF f, x
<1>5. Len(f) = Len(s) - 1 /\ \A n \in 1..Len(f) : f[n] = s[n]
  <2>0. Len(s) \in Nat /\ Len(s) >= 1
    BY <1>1
  <2>1. Len(f) = Len(s) - 1
    <3>1. Len(f) = IF 1 <= Len(s) - 1 THEN Len(s) - 1 - 1 + 1 ELSE 0
      BY <1>4
    <3> DEFINE l == Len(f)
               N == Len(s)
    <3>2. l = (IF 1 <= N - 1 THEN N - 1 - 1 + 1 ELSE 0) /\ N \in Nat /\ N >= 1
      BY <2>0, <3>1
    <3> HIDE DEF l, N
    <3>3. l = N - 1
      BY <3>2
    <3> QED
      BY <3>3 DEF l, N
  <2>2. ASSUME NEW n \in 1..Len(f) PROVE f[n] = s[n]
    <3>1. n \in 1..(Len(s) - 1 - 1 + 1)
      BY <1>1, <2>1
    <3>2. f[n] = s[1 + n - 1]
      BY <1>4, <3>1
    <3>3. 1 + n - 1 = n
      OBVIOUS
    <3> QED
      BY <3>2, <3>3
  <2> QED
    BY <2>1, <2>2
<1>6. Len(s) = Len(f) + 1 /\ s[Len(s)] = x /\ \A n \in 1..Len(f) : s[n] = f[n]
  BY <1>1, <1>5 DEF x
<1>7. f \o <<x>> = s
  BY <1>2, <1>4, <1>6, OneMore
<1> QED
  BY <1>2, <1>4, <1>7 DEF Front, Last, f, x

\* One after the other.
ChainOf(s, a, b, c, d, e) ==
  /\ s \o <<a, b>> = s \o <<a>> \o <<b>>
  /\ s \o <<a, b, c>> = s \o <<a>> \o <<b>> \o <<c>>
  /\ s \o <<a, b, c, d>> = s \o <<a>> \o <<b>> \o <<c>> \o <<d>>
  /\ s \o <<a, b, c, d, e>> = s \o <<a>> \o <<b>> \o <<c>> \o <<d>> \o <<e>>

LEMMA ChainIs ==
  ASSUME NEW S, NEW s \in Seq(S), NEW a \in S, NEW b \in S, NEW c \in S, NEW d \in S, NEW e \in S
  PROVE  ChainOf(s, a, b, c, d, e)
<1>0. SnocsOf(a, b, c, d) /\ <<a, b, c, d>> \o <<e>> = <<a, b, c, d, e>>
  BY Snocs, Snoc5
<1> DEFINE A == <<a>>
           B == <<b>>
           C == <<c>>
           D == <<d>>
           E == <<e>>
           AB == <<a, b>>
           ABC == <<a, b, c>>
           ABCD == <<a, b, c, d>>
           ABCDE == <<a, b, c, d, e>>
<1>1. /\ A \in Seq(S) /\ B \in Seq(S) /\ C \in Seq(S) /\ D \in Seq(S)
      /\ E \in Seq(S) /\ AB \in Seq(S) /\ ABC \in Seq(S) /\ ABCD \in Seq(S)
  OBVIOUS
<1>2. A \o B = AB /\ AB \o C = ABC /\ ABC \o D = ABCD /\ ABCD \o E = ABCDE
  BY <1>0 DEF SnocsOf
<1> HIDE DEF A, B, C, D, E, AB, ABC, ABCD, ABCDE
<1>3. s \o AB = s \o A \o B
  <2>1. (s \o A) \o B = s \o (A \o B)
    <3>1. s \in Seq(S) /\ A \in Seq(S) /\ B \in Seq(S)
      BY <1>1
    <3> QED
      BY <3>1, ConcatAssociative, SMTT(30)
  <2> QED
    BY <1>2, <2>1
<1>4. s \o ABC = s \o A \o B \o C
  <2>1. (s \o AB) \o C = s \o (AB \o C)
    <3>1. s \in Seq(S) /\ AB \in Seq(S) /\ C \in Seq(S)
      BY <1>1
    <3> QED
      BY <3>1, ConcatAssociative, SMTT(30)
  <2> QED
    BY <1>2, <2>1, <1>3
<1>5. s \o ABCD = s \o A \o B \o C \o D
  <2>1. (s \o ABC) \o D = s \o (ABC \o D)
    <3>1. s \in Seq(S) /\ ABC \in Seq(S) /\ D \in Seq(S)
      BY <1>1
    <3> QED
      BY <3>1, ConcatAssociative, SMTT(30)
  <2> QED
    BY <1>2, <2>1, <1>4
<1>6. s \o ABCDE = s \o A \o B \o C \o D \o E
  <2>1. (s \o ABCD) \o E = s \o (ABCD \o E)
    <3>1. s \in Seq(S) /\ ABCD \in Seq(S) /\ E \in Seq(S)
      BY <1>1
    <3> QED
      BY <3>1, ConcatAssociative, SMTT(30)
  <2> QED
    BY <1>2, <2>1, <1>5
<1> QED
  BY <1>3, <1>4, <1>5, <1>6 DEF ChainOf, A, B, C, D, E, AB, ABC, ABCD, ABCDE

-----------------------------------------------------------------------------
(* The end of a strip.                                                     *)

\* A header follows a strip that ended.
LEMMA HeaderGood ==
  ASSUME NEW s, NEW a, NEW b, NEW flags, Good(s, 0, a, b, flags),
         NEW x \in Params, x.kind = "header"
  PROVE  LET u == s \o <<x>>
         IN  Good(u, 0, a, b, flags) /\ Triangles(u) = Triangles(s)
<1> DEFINE L == Len(s)
           u == s \o <<x>>
<1>1. /\ s \in Seq(Params) /\ Run(s, 0) /\ Clean(s)
      /\ \A d \in Triangles(s) : Fits(d)
  BY DEF Good, Sketch
<1>2. /\ L \in Nat /\ DOMAIN s = 1..L
      /\ u \in Seq(Params) /\ Len(u) = L + 1 /\ DOMAIN u = 1..(L + 1)
      /\ \A k \in 1..L : u[k] = s[k]
      /\ u[L + 1] = x
  BY <1>1, AppendIs
<1>3. /\ Triples(s) = {k \in Triples(u) : k # L - 1}
      /\ \A k \in Triples(s) : TriangleAt(u, k) = TriangleAt(s, k)
  BY <1>1, TriplesStay
<1>4. 0 < L => s[L].kind # "vertex"
  <2>1. L - 0 = L
    BY <1>2
  <2> QED
    BY <1>1, <2>1 DEF Run
<1> HIDE DEF u, L
<1>5. Triangles(u) = Triangles(s)
  <2>1. L - 1 \notin Triples(u)
    <3> SUFFICES ASSUME L - 1 \in Triples(u) PROVE FALSE
      OBVIOUS
    <3>1. L - 1 + 2 = L + 1 /\ IsVertex(u[L - 1 + 2])
      BY <1>2 DEF Triples
    <3>2. IsVertex(x)
      BY <1>2, <3>1
    <3> QED
      BY <3>2 DEF IsVertex
  <2>2. Triples(u) = Triples(s)
    BY <1>3, <2>1
  <2> QED
    BY <1>3, <2>2 DEF Triangles
<1>6. Run(u, 0)
  <2>1. /\ 0 \in 0..Len(u) /\ \A k \in (Len(u) - 0 + 1)..Len(u) : FALSE
        /\ Len(u) - 0 = L + 1
    BY <1>2
  <2> QED
    BY <1>2, <2>1 DEF Run
<1>7. Clean(u)
  <2>1. ASSUME NEW k \in 1..(L + 1), IsVertex(u[k])
        PROVE  /\ u[k].divided = 1
               /\ u[k].kind = "vertex" /\ k < L + 1 => IsVertex(u[k + 1])
    <3>1. k # L + 1
      BY <1>2, <2>1 DEF IsVertex
    <3>2. k \in 1..L /\ k \in DOMAIN s /\ u[k] = s[k] /\ (k = L \/ k < L)
      BY <1>2, <3>1
    <3>3. /\ u[k].divided = 1
          /\ u[k].kind = "vertex" /\ k < L => IsVertex(s[k + 1])
      BY <1>1, <2>1, <3>2 DEF Clean, L
    <3>4. k = L => u[k].kind # "vertex"
      BY <1>2, <1>4, <3>2
    <3>5. k < L => u[k + 1] = s[k + 1]
      BY <1>2, <3>2
    <3> QED
      BY <3>2, <3>3, <3>4, <3>5
  <2> QED
    BY <1>2, <2>1 DEF Clean
<1>8. Good(u, 0, a, b, flags)
  BY <1>1, <1>2, <1>5, <1>6, <1>7 DEF Good, Sketch
<1> QED
  BY <1>5, <1>8 DEF u

\* The last vertex is flagged: the strip ends.
LEMMA EndGood ==
  ASSUME NEW s \in Seq(Params), NEW x \in Vertices, NEW n, NEW a, NEW b, NEW flags,
         Good(s \o <<x>>, n, a, b, flags)
  PROVE  LET u == s \o <<Flagged(x, "eol")>>
         IN  Good(u, 0, a, b, flags) /\ Triangles(u) = Triangles(s \o <<x>>)
<1> DEFINE L == Len(s)
           y == Flagged(x, "eol")
           t == s \o <<x>>
           u == s \o <<y>>
<1>0. /\ x \in Params /\ y \in Params /\ y \in Vertices
      /\ y.kind = "eol" /\ y.p = x.p /\ y.divided = x.divided
      /\ IsVertex(x) /\ IsVertex(y)
  <2>1. y \in Vertices
    BY FlaggedIs
  <2>2. y.kind = "eol" /\ y.p = x.p /\ y.divided = x.divided
    BY DEF Flagged, Vertices
  <2> QED
    BY <2>1, <2>2 DEF Params, IsVertex, Vertices
<1> HIDE DEF y
<1>1. Clean(t) /\ \A d \in Triangles(t) : Fits(d)
  BY DEF Good, Sketch
<1>2. /\ L \in Nat
      /\ t \in Seq(Params) /\ Len(t) = L + 1 /\ DOMAIN t = 1..(L + 1)
      /\ \A k \in 1..L : t[k] = s[k]
      /\ t[L + 1] = x
  BY <1>0, AppendIs
<1>3. /\ u \in Seq(Params) /\ Len(u) = L + 1 /\ DOMAIN u = 1..(L + 1)
      /\ \A k \in 1..L : u[k] = s[k]
      /\ u[L + 1] = y
  BY <1>0, AppendIs
<1> HIDE DEF u, t, L
<1>4. \A k \in 1..L : u[k] = t[k]
  BY <1>2, <1>3
<1>5. ASSUME NEW k \in 1..(L + 1 - 2)
      PROVE  /\ u[k] = t[k] /\ u[k + 1] = t[k + 1]
             /\ u[k + 2].p = t[k + 2].p /\ (IsVertex(u[k + 2]) <=> IsVertex(t[k + 2]))
  <2>1. k \in 1..L /\ k + 1 \in 1..L /\ (k + 2 \in 1..L \/ k + 2 = L + 1)
    BY <1>2
  <2>2. u[k] = t[k] /\ u[k + 1] = t[k + 1]
    BY <1>4, <2>1
  <2>3. CASE k + 2 \in 1..L
    <3>1. u[k + 2] = t[k + 2]
      BY <1>4, <2>3
    <3> QED
      BY <2>2, <3>1
  <2>4. CASE k + 2 = L + 1
    <3>1. u[k + 2] = y /\ t[k + 2] = x
      BY <1>2, <1>3, <2>4
    <3> QED
      BY <1>0, <2>2, <3>1
  <2> QED
    BY <2>1, <2>3, <2>4
<1>6. Triples(u) = Triples(t)
  BY <1>2, <1>3, <1>5 DEF Triples
<1>7. ASSUME NEW k \in Triples(t) PROVE TriangleAt(u, k) = TriangleAt(t, k)
  <2>1. k \in 1..(L + 1 - 2)
    BY <1>2 DEF Triples
  <2>2. \A j \in 1..(k - 1) : u[j] = t[j]
    <3>1. \A j \in 1..(k - 1) : j \in 1..L
      BY <1>2, <2>1
    <3> QED
      BY <1>4, <3>1
  <2>3. StripStart(u, k) = StripStart(t, k)
    BY <2>1, <2>2, StripStartSame
  <2>4. /\ u[k] = t[k] /\ u[k + 1] = t[k + 1] /\ u[k + 2].p = t[k + 2].p
    BY <1>5, <2>1
  <2> QED
    BY <2>3, <2>4 DEF TriangleAt
<1>8. Triangles(u) = Triangles(t)
  BY <1>6, <1>7 DEF Triangles
<1>9. Run(u, 0)
  <2>1. /\ 0 \in 0..Len(u) /\ \A k \in (Len(u) - 0 + 1)..Len(u) : FALSE
        /\ Len(u) - 0 = L + 1
    BY <1>2, <1>3
  <2> QED
    BY <1>0, <1>3, <2>1 DEF Run
<1>10. Clean(u)
  <2>1. ASSUME NEW k \in 1..(L + 1), IsVertex(u[k])
        PROVE  /\ u[k].divided = 1
               /\ u[k].kind = "vertex" /\ k < L + 1 => IsVertex(u[k + 1])
    <3>1. CASE k = L + 1
      <4>1. x.divided = 1
        <5>1. L + 1 \in DOMAIN t /\ IsVertex(t[L + 1])
          BY <1>0, <1>2
        <5> QED
          BY <1>1, <1>2, <5>1 DEF Clean
      <4> QED
        BY <1>0, <1>3, <3>1, <4>1
    <3>2. CASE k # L + 1
      <4>1. k \in 1..L /\ k \in DOMAIN t /\ k < Len(t) /\ u[k] = t[k]
        BY <1>2, <1>4, <3>2
      <4>2. /\ u[k].divided = 1
            /\ u[k].kind = "vertex" => IsVertex(t[k + 1])
        BY <1>1, <2>1, <4>1 DEF Clean
      <4>3. IsVertex(t[k + 1]) => IsVertex(u[k + 1])
        <5>1. CASE k = L
          BY <1>0, <1>3, <5>1
        <5>2. CASE k # L
          <6>1. k + 1 \in 1..L
            BY <1>2, <4>1, <5>2
          <6> QED
            BY <1>4, <6>1
        <5> QED
          BY <5>1, <5>2
      <4> QED
        BY <4>2, <4>3
    <3> QED
      BY <3>1, <3>2
  <2> QED
    BY <1>3, <2>1 DEF Clean
<1>11. Good(u, 0, a, b, flags)
  BY <1>1, <1>3, <1>8, <1>9, <1>10 DEF Good, Sketch
<1> QED
  BY <1>8, <1>11 DEF u, t, y

\* What is submitted for a triangle, with the vertices that are still to be.
Block(m, v0, v1, v2) ==
  IF m = {1, 2, 3} THEN <<Divided(v0), Divided(v1), Divided(v2)>> ELSE Clipped(m, v0, v1, v2)

\* The corners that are visible.
Corners(m, x, y, z) ==
  m \in SUBSET (1..3) /\ (1 \in m <=> x \in seen) /\ (2 \in m <=> y \in seen)
                      /\ (3 \in m <=> z \in seen)

BlockOf(m, x, y, z, k) ==
         LET p == <<x, x>>
             q == <<y, y>>
             r == <<z, z>>
             u == Cut(x, y)
             v == Cut(y, z)
             w == Cut(z, x)
             B == Block(m, Corner(x, "vertex"), Corner(y, "vertex"), Corner(z, k))
         IN  /\ x \in seen /\ y \in seen /\ z \in seen
                  => B = <<Point(p, "vertex"), Point(q, "vertex"), Point(r, k)>>
             /\ x \in seen /\ y \notin seen /\ z \notin seen
                  => B = <<Point(p, "vertex"), Point(u, "vertex"), Point(w, "vertex"),
                           Point(w, "vertex")>>
             /\ x \notin seen /\ y \in seen /\ z \notin seen
                  => B = <<Point(u, "vertex"), Point(q, "vertex"), Point(v, k)>>
             /\ x \notin seen /\ y \notin seen /\ z \in seen
                  => B = <<Point(v, "vertex"), Point(w, "vertex"), Point(r, k)>>
             /\ x \in seen /\ y \in seen /\ z \notin seen
                  => B = <<Point(p, "vertex"), Point(q, "vertex"), Point(w, "vertex"),
                           Point(q, "vertex"), Point(v, k)>>
             /\ x \notin seen /\ y \in seen /\ z \in seen
                  => B = <<Point(u, "vertex"), Point(q, "vertex"), Point(w, "vertex"),
                           Point(q, "vertex"), Point(r, k)>>
             /\ x \in seen /\ y \notin seen /\ z \in seen
                  => B = <<Point(p, "vertex"), Point(u, "vertex"), Point(r, "vertex"),
                           Point(v, "vertex"), Point(r, "vertex")>>
             /\ m = {} => Clipped(m, Corner(x, "vertex"), Corner(y, "vertex"), Corner(z, k)) = <<>>

LEMMA BlockIs ==
  ASSUME NEW x \in Nat, NEW y \in Nat, NEW z \in Nat, NEW k \in {"vertex", "eol"},
         NEW m, Corners(m, x, y, z)
  PROVE  BlockOf(m, x, y, z, k)
<1> DEFINE p == <<x, x>>
           q == <<y, y>>
           r == <<z, z>>
           u == Cut(x, y)
           v == Cut(y, z)
           w == Cut(z, x)
           v0 == Corner(x, "vertex")
           v1 == Corner(y, "vertex")
           v2 == Corner(z, k)
           B == Block(m, v0, v1, v2)
           C == Clipped(m, v0, v1, v2)
<1>1. /\ Divided(v0) = Point(p, "vertex") /\ Divided(v1) = Point(q, "vertex")
      /\ Divided(v2) = Point(r, k) /\ Flagged(Divided(v2), "vertex") = Point(r, "vertex")
      /\ Edge(v0, v1, "vertex") = Point(u, "vertex") /\ Edge(v1, v2, "vertex") = Point(v, "vertex")
      /\ Edge(v2, v0, "vertex") = Point(w, "vertex") /\ Edge(v1, v2, v2.kind) = Point(v, k)
  <2>1. v2.kind = k
    BY DEF Corner
  <2>2. Divided(v0) = Point(p, "vertex") /\ Edge(v0, v1, "vertex") = Point(u, "vertex")
    BY CornersAre
  <2>3. /\ Divided(v1) = Point(q, "vertex") /\ Edge(v1, v2, "vertex") = Point(v, "vertex")
        /\ Edge(v1, v2, k) = Point(v, k)
    BY CornersAre
  <2>4. /\ Divided(v2) = Point(r, k) /\ Flagged(Divided(v2), "vertex") = Point(r, "vertex")
        /\ Edge(v2, v0, "vertex") = Point(w, "vertex")
    BY CornersAre
  <2> QED
    BY <2>1, <2>2, <2>3, <2>4
<1>2. /\ m \in SUBSET (1..3) /\ (1 \in m <=> x \in seen) /\ (2 \in m <=> y \in seen)
      /\ (3 \in m <=> z \in seen)
  BY DEF Corners
<1> DEFINE c == Flagged(Divided(v2), "vertex")
<1>3. C = CASE m = {1, 2, 3} -> <<Divided(v0)>>
            [] m = {} -> <<>>
            [] m = {1} -> <<Divided(v0), Edge(v0, v1, "vertex"), Edge(v2, v0, "vertex"),
                            Edge(v2, v0, "vertex")>>
            [] m = {2} -> <<Edge(v0, v1, "vertex"), Divided(v1), Edge(v1, v2, v2.kind)>>
            [] m = {3} -> <<Edge(v1, v2, "vertex"), Edge(v2, v0, "vertex"), Divided(v2)>>
            [] m = {1, 2} -> <<Divided(v0), Divided(v1), Edge(v2, v0, "vertex"), Divided(v1),
                               Edge(v1, v2, v2.kind)>>
            [] m = {2, 3} -> <<Edge(v0, v1, "vertex"), Divided(v1), Edge(v2, v0, "vertex"),
                               Divided(v1), Divided(v2)>>
            [] m = {1, 3} -> <<Divided(v0), Edge(v0, v1, "vertex"), c, Edge(v1, v2, "vertex"), c>>
  BY DEF Clipped
<1>4. B = IF m = {1, 2, 3} THEN <<Divided(v0), Divided(v1), Divided(v2)>> ELSE C
  BY DEF Block
<1> HIDE DEF p, q, r, u, v, w, v0, v1, v2, B, C
<1> DEFINE P(k1) == Point(k1, "vertex")
<1>5. C = CASE m = {1, 2, 3} -> <<P(p)>>
            [] m = {} -> <<>>
            [] m = {1} -> <<P(p), P(u), P(w), P(w)>>
            [] m = {2} -> <<P(u), P(q), Point(v, k)>>
            [] m = {3} -> <<P(v), P(w), Point(r, k)>>
            [] m = {1, 2} -> <<P(p), P(q), P(w), P(q), Point(v, k)>>
            [] m = {2, 3} -> <<P(u), P(q), P(w), P(q), Point(r, k)>>
            [] m = {1, 3} -> <<P(p), P(u), P(r), P(v), P(r)>>
  BY <1>1, <1>3
<1>6. \A n \in m : n = 1 \/ n = 2 \/ n = 3
  BY <1>2
<1> HIDE DEF P
<1>10. ASSUME x \in seen, y \in seen, z \in seen
       PROVE B = <<Point(p, "vertex"), Point(q, "vertex"), Point(r, k)>>
  <2>1. m = {1, 2, 3}
    BY <1>2, <1>6, <1>10
  <2>3. 1 \in m /\ 2 \in m /\ 3 \in m
    BY <1>2, <1>10
  <2>2. m # {} /\ m # {1} /\ m # {2} /\ m # {3} /\ m # {1, 2} /\ m # {2, 3} /\ m # {1, 3}
    BY <2>3
  <2> QED
    BY <1>1, <1>4, <2>1
<1>11. ASSUME x \in seen, y \notin seen, z \notin seen
       PROVE B = <<Point(p, "vertex"), Point(u, "vertex"), Point(w, "vertex"), Point(w, "vertex")>>
  <2>1. m = {1}
    BY <1>2, <1>6, <1>11
  <2>3. 1 \in m /\ 2 \notin m /\ 3 \notin m
    BY <1>2, <1>11
  <2>2. m # {1, 2, 3} /\ m # {} /\ m # {2} /\ m # {3} /\ m # {1, 2} /\ m # {2, 3} /\ m # {1, 3}
    BY <2>3
  <2>4. B = C
    BY <1>4, <2>2
  <2>5. C = <<Point(p, "vertex"), Point(u, "vertex"), Point(w, "vertex"), Point(w, "vertex")>>
    BY <1>5, <2>1, <2>2 DEF P
  <2> QED
    BY <2>4, <2>5
<1>12. ASSUME x \notin seen, y \in seen, z \notin seen
       PROVE B = <<Point(u, "vertex"), Point(q, "vertex"), Point(v, k)>>
  <2>1. m = {2}
    BY <1>2, <1>6, <1>12
  <2>3. 1 \notin m /\ 2 \in m /\ 3 \notin m
    BY <1>2, <1>12
  <2>2. m # {1, 2, 3} /\ m # {} /\ m # {1} /\ m # {3} /\ m # {1, 2} /\ m # {2, 3} /\ m # {1, 3}
    BY <2>3
  <2>4. B = C
    BY <1>4, <2>2
  <2>5. C = <<Point(u, "vertex"), Point(q, "vertex"), Point(v, k)>>
    BY <1>5, <2>1, <2>2 DEF P
  <2> QED
    BY <2>4, <2>5
<1>13. ASSUME x \notin seen, y \notin seen, z \in seen
       PROVE B = <<Point(v, "vertex"), Point(w, "vertex"), Point(r, k)>>
  <2>1. m = {3}
    BY <1>2, <1>6, <1>13
  <2>3. 1 \notin m /\ 2 \notin m /\ 3 \in m
    BY <1>2, <1>13
  <2>2. m # {1, 2, 3} /\ m # {} /\ m # {1} /\ m # {2} /\ m # {1, 2} /\ m # {2, 3} /\ m # {1, 3}
    BY <2>3
  <2>4. B = C
    BY <1>4, <2>2
  <2>5. C = <<Point(v, "vertex"), Point(w, "vertex"), Point(r, k)>>
    BY <1>5, <2>1, <2>2 DEF P
  <2> QED
    BY <2>4, <2>5
<1>14. ASSUME x \in seen, y \in seen, z \notin seen
       PROVE B = <<Point(p, "vertex"), Point(q, "vertex"), Point(w, "vertex"),
                   Point(q, "vertex"), Point(v, k)>>
  <2>1. m = {1, 2}
    BY <1>2, <1>6, <1>14
  <2>3. 1 \in m /\ 2 \in m /\ 3 \notin m
    BY <1>2, <1>14
  <2>2. m # {1, 2, 3} /\ m # {} /\ m # {1} /\ m # {2} /\ m # {3} /\ m # {2, 3} /\ m # {1, 3}
    BY <2>3
  <2>4. B = C
    BY <1>4, <2>2
  <2>5. C = <<Point(p, "vertex"), Point(q, "vertex"), Point(w, "vertex"), Point(q, "vertex"),
              Point(v, k)>>
    BY <1>5, <2>1, <2>2 DEF P
  <2> QED
    BY <2>4, <2>5
<1>15. ASSUME x \notin seen, y \in seen, z \in seen
       PROVE B = <<Point(u, "vertex"), Point(q, "vertex"), Point(w, "vertex"),
                   Point(q, "vertex"), Point(r, k)>>
  <2>1. m = {2, 3}
    BY <1>2, <1>6, <1>15
  <2>3. 1 \notin m /\ 2 \in m /\ 3 \in m
    BY <1>2, <1>15
  <2>2. m # {1, 2, 3} /\ m # {} /\ m # {1} /\ m # {2} /\ m # {3} /\ m # {1, 2} /\ m # {1, 3}
    BY <2>3
  <2>4. B = C
    BY <1>4, <2>2
  <2>5. C = <<Point(u, "vertex"), Point(q, "vertex"), Point(w, "vertex"), Point(q, "vertex"),
              Point(r, k)>>
    BY <1>5, <2>1, <2>2 DEF P
  <2> QED
    BY <2>4, <2>5
<1>16. ASSUME x \in seen, y \notin seen, z \in seen
       PROVE B = <<Point(p, "vertex"), Point(u, "vertex"), Point(r, "vertex"),
                   Point(v, "vertex"), Point(r, "vertex")>>
  <2>1. m = {1, 3}
    BY <1>2, <1>6, <1>16
  <2>3. 1 \in m /\ 2 \notin m /\ 3 \in m
    BY <1>2, <1>16
  <2>2. m # {1, 2, 3} /\ m # {} /\ m # {1} /\ m # {2} /\ m # {3} /\ m # {1, 2} /\ m # {2, 3}
    BY <2>3
  <2>4. B = C
    BY <1>4, <2>2
  <2>5. C = <<Point(p, "vertex"), Point(u, "vertex"), Point(r, "vertex"), Point(v, "vertex"),
              Point(r, "vertex")>>
    BY <1>5, <2>1, <2>2 DEF P
  <2> QED
    BY <2>4, <2>5
<1>17. ASSUME m = {} PROVE C = <<>>
  <2>1. m # {1, 2, 3} /\ m # {1} /\ m # {2} /\ m # {3} /\ m # {1, 2} /\ m # {2, 3} /\ m # {1, 3}
    BY <1>17
  <2> QED
    BY <1>5, <1>17, <2>1
<1> QED
  BY <1>10, <1>11, <1>12, <1>13, <1>14, <1>15, <1>16, <1>17
     DEF BlockOf, p, q, r, u, v, w, v0, v1, v2, B, C

\* The first two points that are submitted for a triangle.
Head1(x, y, z) ==
  IF x \in seen THEN <<x, x>> ELSE IF y \in seen THEN Cut(x, y) ELSE Cut(y, z)
Head2(x, y, z) ==
  IF y \in seen THEN <<y, y>> ELSE IF x \in seen THEN Cut(x, y) ELSE Cut(z, x)

LEMMA HeadGood ==
  ASSUME NEW x \in Nat, NEW y \in Nat, NEW z \in Nat, x \in seen \/ y \in seen \/ z \in seen,
         NEW s, NEW n \in Nat, NEW a, NEW b, NEW flags, Good(s, n, a, b, flags),
         n = 0 \/ (n >= 2 /\ flags = "vertex" /\ Joins(a, b, x, y))
  PROVE  LET h == Head1(x, y, z)
             g == Head2(x, y, z)
             t == s \o <<Point(h, "vertex")>> \o <<Point(g, "vertex")>>
         IN  Good(t, n + 2, h, g, "vertex") /\ Triangles(s) \subseteq Triangles(t)
<1> DEFINE h == Head1(x, y, z)
           g == Head2(x, y, z)
           X == Point(h, "vertex")
           Y == Point(g, "vertex")
           t == s \o <<X>> \o <<Y>>
<1>1. h \in Nat \X Nat /\ g \in Nat \X Nat
  <2>1. /\ <<x, x>> \in Nat \X Nat /\ <<y, y>> \in Nat \X Nat /\ Cut(x, y) \in Nat \X Nat
        /\ Cut(y, z) \in Nat \X Nat /\ Cut(z, x) \in Nat \X Nat
    BY CornersAre
  <2> QED
    BY <2>1 DEF Head1, Head2
<1>2. n >= 2 => Lies(a, b, h) /\ Lies(b, h, g)
  <2> SUFFICES ASSUME n >= 2 PROVE Lies(a, b, h) /\ Lies(b, h, g)
    OBVIOUS
  <2>1. Joins(a, b, x, y)
    OBVIOUS
  <2>2. /\ x \in seen /\ y \in seen => Lies(a, b, <<x, x>>) /\ Lies(b, <<x, x>>, <<y, y>>)
        /\ x \in seen /\ y \notin seen => Lies(a, b, <<x, x>>) /\ Lies(b, <<x, x>>, Cut(x, y))
        /\ x \notin seen /\ y \in seen => Lies(a, b, Cut(x, y)) /\ Lies(b, Cut(x, y), <<y, y>>)
        /\ x \notin seen /\ y \notin seen /\ z \in seen
             => Lies(a, b, Cut(y, z)) /\ Lies(b, Cut(y, z), Cut(z, x))
    BY <2>1, HeadLies
  <2> QED
    BY <2>2 DEF Head1, Head2
<1> HIDE DEF h, g
<1>3. /\ X \in Vertices /\ X.divided = 1 /\ X.kind = "vertex" /\ X.p = h
      /\ Y \in Vertices /\ Y.divided = 1 /\ Y.kind = "vertex" /\ Y.p = g
  BY <1>1, PointIs
<1> HIDE DEF X, Y
<1>4. n = 0 \/ (n >= 2 /\ flags = "vertex" /\ Lies(a, b, X.p) /\ Lies(b, X.p, Y.p))
  BY <1>2, <1>3
<1>5. Good(t, n + 2, X.p, Y.p, Y.kind) /\ Triangles(s) \subseteq Triangles(t)
  BY <1>3, <1>4, GrowHead
<1> HIDE DEF t
<1>6. Good(t, n + 2, h, g, "vertex") /\ Triangles(s) \subseteq Triangles(t)
  BY <1>3, <1>5
<1> QED
  BY <1>6 DEF h, g, X, Y, t

LEMMA FollowsFrom ==
  ASSUME NEW s, NEW t, NEW u, NEW at, NEW m, NEW x, NEW y, NEW z, NEW k,
         Triangles(s) \subseteq Triangles(t), Follows3(t, u, at, m, x, y, z, k)
  PROVE  Follows3(s, u, at, m, x, y, z, k)
<1>1. Triangles(t) \subseteq Triangles(u) => Triangles(s) \subseteq Triangles(u)
  OBVIOUS
<1> QED
  BY <1>1 DEF Follows3

\* What was submitted goes on for a triangle of which something is visible.
LEMMA BlockGood ==
  ASSUME NEW at, NEW g \in Nat, NEW x \in Nat, NEW y \in Nat, NEW z \in Nat,
         NEW k \in {"vertex", "eol"}, NEW m, Corners(m, x, y, z),
         x \in seen \/ y \in seen \/ z \in seen,
         Turn(g, <<x, x>>, <<y, y>>, <<z, z>>) \in Triangles(given),
         x \notin seen /\ y \notin seen => ~Upright(at),
         NEW s \in Seq(Params), NEW n \in Nat, n >= 2, Upright(at) => n % 2 = g % 2,
         Good(s \o <<Point(Head1(x, y, z), "vertex")>> \o <<Point(Head2(x, y, z), "vertex")>>, n,
              Head1(x, y, z), Head2(x, y, z), "vertex")
  PROVE  LET v0 == Corner(x, "vertex")
             v1 == Corner(y, "vertex")
             v2 == Corner(z, k)
         IN  Follows3(s \o <<Point(Head1(x, y, z), "vertex")>>
                        \o <<Point(Head2(x, y, z), "vertex")>>,
                      s \o Block(m, v0, v1, v2), at, g, x, y, z, k)
<1> DEFINE p == <<x, x>>
           q == <<y, y>>
           r == <<z, z>>
           u == Cut(x, y)
           v == Cut(y, z)
           w == Cut(z, x)
           V(a) == Point(a, "vertex")
           B == Block(m, Corner(x, "vertex"), Corner(y, "vertex"), Corner(z, k))
           h == Head1(x, y, z)
           i2 == Head2(x, y, z)
           t == s \o <<V(h)>> \o <<V(i2)>>
           Goal == Follows3(t, s \o B, at, g, x, y, z, k)
<1>1. /\ x \in seen => h = p
      /\ x \notin seen /\ y \in seen => h = u
      /\ x \notin seen /\ y \notin seen => h = v
      /\ y \in seen => i2 = q
      /\ y \notin seen /\ x \in seen => i2 = u
      /\ x \notin seen /\ y \notin seen => i2 = w
  BY DEF Head1, Head2
<1>2. Good(t, n, h, i2, "vertex")
  OBVIOUS
<1>3. /\ V(p) \in Params /\ V(q) \in Params /\ V(r) \in Params /\ V(u) \in Params
      /\ V(v) \in Params /\ V(w) \in Params /\ Point(r, k) \in Params /\ Point(v, k) \in Params
  <2>1. /\ p \in Nat \X Nat /\ q \in Nat \X Nat /\ r \in Nat \X Nat
        /\ u \in Nat \X Nat /\ v \in Nat \X Nat /\ w \in Nat \X Nat
    BY CornersAre
  <2> HIDE DEF p, q, r, u, v, w
  <2>2. /\ V(p) \in Vertices /\ V(q) \in Vertices /\ V(r) \in Vertices /\ V(u) \in Vertices
        /\ V(v) \in Vertices /\ V(w) \in Vertices
        /\ Point(r, k) \in Vertices /\ Point(v, k) \in Vertices
    BY <2>1, PointIs
  <2> HIDE DEF V
  <2> QED
    BY <2>2 DEF Params
<1>4. BlockOf(m, x, y, z, k)
  BY BlockIs
<1> SUFFICES Goal
  OBVIOUS
<1> HIDE DEF B
<1>10. CASE x \in seen /\ y \in seen /\ z \in seen
  <2>1. B = <<V(p), V(q), Point(r, k)>>
    BY <1>4, <1>10 DEF BlockOf, B
  <2>2. h = p /\ i2 = q
    BY <1>1, <1>10
  <2> DEFINE t0 == s \o <<V(p)>> \o <<V(q)>>
  <2>3. t = t0 /\ Good(t0, n, p, q, "vertex")
    BY <1>2, <2>2
  <2>4. Follows3(t0, t0 \o <<Point(r, k)>>, at, g, x, y, z, k)
    BY <1>10, <2>3, AllSeen, ZenonT(30)
  <2> HIDE DEF p, q, r, u, v, w, V
  <2>5. s \o <<V(p), V(q), Point(r, k)>> = s \o <<V(p)>> \o <<V(q)>> \o <<Point(r, k)>>
    <3>1. ChainOf(s, V(p), V(q), Point(r, k), V(p), V(p))
      BY <1>3, ChainIs
    <3> QED
      BY <3>1 DEF ChainOf
  <2>6. s \o B = s \o <<V(p)>> \o <<V(q)>> \o <<Point(r, k)>>
    BY <2>1, <2>5
  <2> HIDE DEF h, i2, t, t0
  <2> QED
    BY <2>3, <2>4, <2>6 DEF t0
<1>11. CASE x \in seen /\ y \notin seen /\ z \notin seen
  <2>1. B = <<V(p), V(u), V(w), V(w)>>
    BY <1>4, <1>11 DEF BlockOf, B
  <2>2. h = p /\ i2 = u
    BY <1>1, <1>11
  <2> DEFINE t0 == s \o <<V(p)>> \o <<V(u)>>
  <2>3. t = t0 /\ Good(t0, n, p, u, "vertex")
    BY <1>2, <2>2
  <2>4. Follows3(t0, t0 \o <<V(w)>> \o <<V(w)>>, at, g, x, y, z, k)
    BY <1>11, <2>3, FirstSeen, ZenonT(30)
  <2> HIDE DEF p, q, r, u, v, w, V
  <2>5. s \o <<V(p), V(u), V(w), V(w)>> = s \o <<V(p)>> \o <<V(u)>> \o <<V(w)>> \o <<V(w)>>
    <3>1. ChainOf(s, V(p), V(u), V(w), V(w), V(p))
      BY <1>3, ChainIs
    <3> QED
      BY <3>1 DEF ChainOf
  <2>6. s \o B = s \o <<V(p)>> \o <<V(u)>> \o <<V(w)>> \o <<V(w)>>
    BY <2>1, <2>5
  <2> HIDE DEF h, i2, t, t0
  <2> QED
    BY <2>3, <2>4, <2>6 DEF t0
<1>12. CASE x \notin seen /\ y \in seen /\ z \notin seen
  <2>1. B = <<V(u), V(q), Point(v, k)>>
    BY <1>4, <1>12 DEF BlockOf, B
  <2>2. h = u /\ i2 = q
    BY <1>1, <1>12
  <2> DEFINE t0 == s \o <<V(u)>> \o <<V(q)>>
  <2>3. t = t0 /\ Good(t0, n, u, q, "vertex")
    BY <1>2, <2>2
  <2>4. Follows3(t0, t0 \o <<Point(v, k)>>, at, g, x, y, z, k)
    BY <1>12, <2>3, SecondSeen, ZenonT(30)
  <2> HIDE DEF p, q, r, u, v, w, V
  <2>5. s \o <<V(u), V(q), Point(v, k)>> = s \o <<V(u)>> \o <<V(q)>> \o <<Point(v, k)>>
    <3>1. ChainOf(s, V(u), V(q), Point(v, k), V(p), V(p))
      BY <1>3, ChainIs
    <3> QED
      BY <3>1 DEF ChainOf
  <2>6. s \o B = s \o <<V(u)>> \o <<V(q)>> \o <<Point(v, k)>>
    BY <2>1, <2>5
  <2> HIDE DEF h, i2, t, t0
  <2> QED
    BY <2>3, <2>4, <2>6 DEF t0
<1>13. CASE x \notin seen /\ y \notin seen /\ z \in seen
  <2>1. B = <<V(v), V(w), Point(r, k)>>
    BY <1>4, <1>13 DEF BlockOf, B
  <2>2. h = v /\ i2 = w
    BY <1>1, <1>13
  <2> DEFINE t0 == s \o <<V(v)>> \o <<V(w)>>
  <2>3. t = t0 /\ Good(t0, n, v, w, "vertex")
    BY <1>2, <2>2
  <2>4. Follows3(t0, t0 \o <<Point(r, k)>>, at, g, x, y, z, k)
    BY <1>13, <2>3, ThirdSeen, ZenonT(30)
  <2> HIDE DEF p, q, r, u, v, w, V
  <2>5. s \o <<V(v), V(w), Point(r, k)>> = s \o <<V(v)>> \o <<V(w)>> \o <<Point(r, k)>>
    <3>1. ChainOf(s, V(v), V(w), Point(r, k), V(p), V(p))
      BY <1>3, ChainIs
    <3> QED
      BY <3>1 DEF ChainOf
  <2>6. s \o B = s \o <<V(v)>> \o <<V(w)>> \o <<Point(r, k)>>
    BY <2>1, <2>5
  <2> HIDE DEF h, i2, t, t0
  <2> QED
    BY <2>3, <2>4, <2>6 DEF t0
<1>14. CASE x \in seen /\ y \in seen /\ z \notin seen
  <2>1. B = <<V(p), V(q), V(w), V(q), Point(v, k)>>
    BY <1>4, <1>14 DEF BlockOf, B
  <2>2. h = p /\ i2 = q
    BY <1>1, <1>14
  <2> DEFINE t0 == s \o <<V(p)>> \o <<V(q)>>
  <2>3. t = t0 /\ Good(t0, n, p, q, "vertex")
    BY <1>2, <2>2
  <2>4. Follows3(t0, t0 \o <<V(w)>> \o <<V(q)>> \o <<Point(v, k)>>, at, g, x, y, z, k)
    BY <1>14, <2>3, FirstTwoSeen, ZenonT(30)
  <2> HIDE DEF p, q, r, u, v, w, V
  <2>5. s \o <<V(p), V(q), V(w), V(q), Point(v, k)>>
          = s \o <<V(p)>> \o <<V(q)>> \o <<V(w)>> \o <<V(q)>> \o <<Point(v, k)>>
    <3>1. ChainOf(s, V(p), V(q), V(w), V(q), Point(v, k))
      BY <1>3, ChainIs
    <3> QED
      BY <3>1 DEF ChainOf
  <2>6. s \o B = s \o <<V(p)>> \o <<V(q)>> \o <<V(w)>> \o <<V(q)>> \o <<Point(v, k)>>
    BY <2>1, <2>5
  <2> HIDE DEF h, i2, t, t0
  <2> QED
    BY <2>3, <2>4, <2>6 DEF t0
<1>15. CASE x \notin seen /\ y \in seen /\ z \in seen
  <2>1. B = <<V(u), V(q), V(w), V(q), Point(r, k)>>
    BY <1>4, <1>15 DEF BlockOf, B
  <2>2. h = u /\ i2 = q
    BY <1>1, <1>15
  <2> DEFINE t0 == s \o <<V(u)>> \o <<V(q)>>
  <2>3. t = t0 /\ Good(t0, n, u, q, "vertex")
    BY <1>2, <2>2
  <2>4. Follows3(t0, t0 \o <<V(w)>> \o <<V(q)>> \o <<Point(r, k)>>, at, g, x, y, z, k)
    BY <1>15, <2>3, LastTwoSeen, ZenonT(30)
  <2> HIDE DEF p, q, r, u, v, w, V
  <2>5. s \o <<V(u), V(q), V(w), V(q), Point(r, k)>>
          = s \o <<V(u)>> \o <<V(q)>> \o <<V(w)>> \o <<V(q)>> \o <<Point(r, k)>>
    <3>1. ChainOf(s, V(u), V(q), V(w), V(q), Point(r, k))
      BY <1>3, ChainIs
    <3> QED
      BY <3>1 DEF ChainOf
  <2>6. s \o B = s \o <<V(u)>> \o <<V(q)>> \o <<V(w)>> \o <<V(q)>> \o <<Point(r, k)>>
    BY <2>1, <2>5
  <2> HIDE DEF h, i2, t, t0
  <2> QED
    BY <2>3, <2>4, <2>6 DEF t0
<1>16. CASE x \in seen /\ y \notin seen /\ z \in seen
  <2>1. B = <<V(p), V(u), V(r), V(v), V(r)>>
    BY <1>4, <1>16 DEF BlockOf, B
  <2>2. h = p /\ i2 = u
    BY <1>1, <1>16
  <2> DEFINE t0 == s \o <<V(p)>> \o <<V(u)>>
  <2>3. t = t0 /\ Good(t0, n, p, u, "vertex")
    BY <1>2, <2>2
  <2>4. Follows3(t0, t0 \o <<V(r)>> \o <<V(v)>> \o <<V(r)>>, at, g, x, y, z, k)
    BY <1>16, <2>3, FirstLastSeen, ZenonT(30)
  <2> HIDE DEF p, q, r, u, v, w, V
  <2>5. s \o <<V(p), V(u), V(r), V(v), V(r)>>
          = s \o <<V(p)>> \o <<V(u)>> \o <<V(r)>> \o <<V(v)>> \o <<V(r)>>
    <3>1. ChainOf(s, V(p), V(u), V(r), V(v), V(r))
      BY <1>3, ChainIs
    <3> QED
      BY <3>1 DEF ChainOf
  <2>6. s \o B = s \o <<V(p)>> \o <<V(u)>> \o <<V(r)>> \o <<V(v)>> \o <<V(r)>>
    BY <2>1, <2>5
  <2> HIDE DEF h, i2, t, t0
  <2> QED
    BY <2>3, <2>4, <2>6 DEF t0
<1> HIDE DEF Goal
<1> QED
  BY <1>10, <1>11, <1>12, <1>13, <1>14, <1>15, <1>16

-----------------------------------------------------------------------------
(* The invariant of the loop.                                              *)

\* What GLdc gave: headers and corners, in strips of more than one vertex.
GivenInv ==
  /\ \A n \in 1..Len(given) :
       \/ given[n].kind = "header"
       \/ /\ given[n].kind \in {"vertex", "eol"} /\ given[n].p[1] \in Nat
          /\ given[n] = Corner(given[n].p[1], given[n].kind)
  /\ \A n \in 2..(Len(given) - 1) :
       given[n - 1].kind # "vertex" /\ given[n].kind # "header"
         => given[n].kind = "vertex" /\ given[n + 1].kind # "header"

\* Where the loop stands in the strips, and what the last triangle left.
PlaceInv ==
  /\ \A n \in i..Len(verts) : verts[n] = given[n]
  /\ ~IsHeaderAt(i) => given[i].kind = "vertex" /\ IsVertex(given[i + 1])
  /\ mask = {} =>
       /\ queued = NoVertex
       /\ \/ IsHeaderAt(i) \/ given[i - 1].kind # "vertex"
          \/ {given[i].p[1], given[i + 1].p[1]} \cap seen = {}
  /\ mask # {} =>
       /\ ~IsHeaderAt(i) /\ given[i - 1].kind = "vertex" /\ queued # NoVertex
       /\ mask \in SUBSET (1..3)
       /\ 2 \in mask <=> given[i].p[1] \in seen
       /\ 3 \in mask <=> given[i + 1].p[1] \in seen

\* What was submitted, the vertex that is queued, and the two that will follow if the
\* strip ends here.
Base == Submitted \o AsQueued
Pending == IF mask = {1, 2, 3} THEN <<Divided(verts[i]), Divided(verts[i + 1])>> ELSE <<>>
Made == Base \o Pending

\* How the strip of n vertices at the end of what was made goes on.
Joint(n, a, b, flags) ==
  IF mask = {} THEN n = 0
  ELSE /\ n >= 2 /\ (given[i + 1].kind = "vertex" => flags = "vertex")
       /\ Joins(a, b, given[i].p[1], given[i + 1].p[1])
       /\ Upright(i) /\ {given[i].p[1], given[i + 1].p[1]} \cap seen # {}
            => n % 2 = (i - StripStart(given, i)) % 2

StripsInv ==
  /\ \E n \in Nat : \E a, b, flags : Good(Made, n, a, b, flags) /\ Joint(n, a, b, flags)
  /\ \A k \in Triples(given) : k < i => Drawn(Triangles(Made), k)

PartsInv ==
  /\ pc = "list" /\ ~submit.lost => Submitted = <<>>
  /\ pc = "strips" => GivenInv /\ PlaceInv
  /\ pc = "strips" /\ ~submit.lost => StripsInv
  /\ pc = "submitted" /\ ~submit.lost =>
       /\ \E a, b, flags : Good(Submitted, 0, a, b, flags)
       /\ \A k \in Triples(given) : Drawn(Triangles(Submitted), k)

LEMMA PartsDrawnIs == SceneInv /\ PartsInv => PartsDrawn
<1> SUFFICES ASSUME SceneInv, PartsInv, pc = "submitted", ~submit.lost PROVE PartsDrawn
  BY DEF PartsDrawn
<1> DEFINE s == Submitted
           D == Triangles(s)
<1>1. PICK a, b, flags : Good(s, 0, a, b, flags)
  BY DEF PartsInv
<1>2. \A k \in Triples(given) : Drawn(D, k)
  BY DEF PartsInv
<1>3. s \in Seq(Params) /\ Run(s, 0) /\ Clean(s) /\ \A d \in D : Fits(d)
  BY <1>1 DEF Good, Sketch
<1> DEFINE asked == Triangles(given)
<1>4. \A k \in DOMAIN s : IsVertex(s[k]) =>
        /\ s[k].divided = 1
        /\ s[k].kind = "vertex" => k < Len(s) /\ IsVertex(s[k + 1])
  <2> HIDE DEF s, D
  <2> SUFFICES ASSUME NEW k \in DOMAIN s, IsVertex(s[k])
               PROVE  /\ s[k].divided = 1
                      /\ s[k].kind = "vertex" => k < Len(s) /\ IsVertex(s[k + 1])
    OBVIOUS
  <2>1. Len(s) \in Nat /\ k \in 1..Len(s) /\ Len(s) - 0 = Len(s)
    BY <1>3
  <2>2. s[Len(s)].kind # "vertex"
    BY <1>3, <2>1 DEF Run
  <2>3. s[k].kind = "vertex" => k < Len(s)
    BY <2>1, <2>2
  <2> QED
    BY <1>3, <2>3 DEF Clean
<1>5. \A k \in Triples(given) : LET o == Outline(TriangleAt(given, k)) IN
        o # <<>> => Filled(o, D, Upright(k))
  BY <1>2 DEF Drawn
<1>6. \A d \in D : \/ Flat(d) \/ Near(d)
                   \/ \E t \in asked : Points(d) \subseteq Points(Outline(t))
  BY <1>3 DEF Fits
<1> HIDE DEF s
<1>7. /\ \A k \in DOMAIN s : LET v == s[k] IN
           IsVertex(v) => /\ v.divided = 1
                          /\ v.kind = "vertex" => /\ k < Len(s)
                                                  /\ IsVertex(s[k + 1])
      /\ \A k \in Triples(given) : LET o == Outline(TriangleAt(given, k)) IN
           o # <<>> => Filled(o, D, Upright(k))
      /\ \A d \in D : \/ Flat(d) \/ Near(d)
                      \/ \E t \in asked : Points(d) \subseteq Points(Outline(t))
  BY <1>4, <1>5, <1>6
<1> QED
  BY <1>7 DEF PartsDrawn, s

-----------------------------------------------------------------------------
(* What a step of the loop begins with.                                    *)

\* The corners at the loop's place.
LEMMA PlaceFacts ==
  ASSUME SceneInv, PartsInv, pc = "strips", ~IsHeaderAt(i)
  PROVE  LET x == given[i].p[1]
             y == given[i + 1].p[1]
         IN  /\ Len(verts) \in Nat /\ Len(given) = Len(verts) /\ i \in 2..(Len(verts) - 1)
             /\ DOMAIN verts = 1..Len(verts)
             /\ verts[i] = given[i] /\ verts[i + 1] = given[i + 1]
             /\ x \in Nat /\ given[i] = Corner(x, "vertex") /\ given[i].kind = "vertex"
             /\ y \in Nat /\ given[i + 1] = Corner(y, given[i + 1].kind)
             /\ given[i + 1].kind \in {"vertex", "eol"}
<1>1. PICK list \in Lists \ closed :
        /\ verts \in Seq(Vertices \cup {Header(list)})
        /\ i = 1 => verts[1] = Header(list)
        /\ Len(verts) \in Nat /\ i \in 1..(Len(verts) - 1)
  BY LoopFacts
<1>2. i # 1
  BY <1>1, KindsOf DEF IsHeaderAt
<1>3. Len(given) = Len(verts) /\ GivenInv /\ PlaceInv
  BY DEF SceneInv, LoopInv, Before, PartsInv
<1>4. i \in 2..(Len(verts) - 1) /\ i \in i..Len(verts) /\ i + 1 \in i..Len(verts)
      /\ i \in 1..Len(verts) /\ i + 1 \in 1..Len(verts)
  BY <1>1, <1>2
<1>5. /\ verts[i] = given[i] /\ verts[i + 1] = given[i + 1]
      /\ given[i].kind = "vertex" /\ IsVertex(given[i + 1])
  BY <1>3, <1>4 DEF PlaceInv
<1>6. given[i].kind # "header" /\ given[i + 1].kind \in {"vertex", "eol"}
      /\ given[i + 1].kind # "header"
  BY <1>5 DEF IsVertex
<1>7. /\ given[i].p[1] \in Nat /\ given[i] = Corner(given[i].p[1], given[i].kind)
      /\ given[i + 1].p[1] \in Nat /\ given[i + 1] = Corner(given[i + 1].p[1], given[i + 1].kind)
  BY <1>3, <1>4, <1>6 DEF GivenInv
<1>8. DOMAIN verts = 1..Len(verts)
  BY <1>1
<1> QED
  BY <1>1, <1>3, <1>4, <1>5, <1>6, <1>7, <1>8

\* And the third of a triangle.
LEMMA TriangleFacts ==
  ASSUME SceneInv, PartsInv, pc = "strips", ~IsHeaderAt(i), ~Trailing
  PROVE  LET z == given[i + 2].p[1]
         IN  /\ i + 2 <= Len(verts) /\ given[i + 1].kind = "vertex"
             /\ verts[i + 2] = given[i + 2]
             /\ z \in Nat /\ given[i + 2] = Corner(z, given[i + 2].kind)
             /\ given[i + 2].kind \in {"vertex", "eol"}
             /\ i \in Triples(given)
<1>1. /\ Len(verts) \in Nat /\ Len(given) = Len(verts) /\ i \in 2..(Len(verts) - 1)
      /\ DOMAIN verts = 1..Len(verts) /\ verts[i + 1] = given[i + 1]
      /\ given[i].kind = "vertex" /\ given[i + 1].kind \in {"vertex", "eol"}
  BY PlaceFacts
<1>2. GivenInv /\ PlaceInv
  BY DEF PartsInv
<1>3. i + 2 \in DOMAIN verts /\ ~IsHeaderAt(i + 2) /\ verts[i + 1].kind # "eol"
  BY DEF Trailing
<1>4. i + 2 \in 1..Len(verts) /\ i + 2 \in i..Len(verts)
  BY <1>1, <1>3
<1>5. verts[i + 2] = given[i + 2] /\ given[i + 2].kind # "header" /\ given[i + 1].kind = "vertex"
  BY <1>1, <1>2, <1>3, <1>4 DEF PlaceInv, IsHeaderAt
<1>6. /\ given[i + 2].kind \in {"vertex", "eol"} /\ given[i + 2].p[1] \in Nat
      /\ given[i + 2] = Corner(given[i + 2].p[1], given[i + 2].kind)
  BY <1>1, <1>2, <1>4, <1>5 DEF GivenInv
<1>7. i \in 1..(Len(given) - 2) /\ IsVertex(given[i + 2])
  BY <1>1, <1>4, <1>6 DEF IsVertex
<1>8. i \in Triples(given)
  BY <1>1, <1>5, <1>7 DEF Triples
<1> QED
  BY <1>1, <1>4, <1>5, <1>6, <1>8

LEMMA SubmittedIs ==
  /\ Submitted = SinceEnd(submit.params)
  /\ SceneInv => Submitted \in Seq(Params)
<1>1. Submitted = SinceEnd(submit.params)
  BY DEF Submitted, SinceEnd
<1>2. SceneInv => submit.params \in Seq(Params)
  BY DEF SceneInv, TypeOK, SubmitOK, Submission
<1> QED
  BY <1>1, <1>2, SinceEndIs

LEMMA SubmittedMore ==
  ASSUME SceneInv, NEW ps \in Seq(Params), \A n \in 1..Len(ps) : ps[n].kind # "end",
         submit' = Prims(submit, ps), ~submit'.lost
  PROVE  ~submit.lost /\ Submitted' = Submitted \o ps
<1>1. SubmitOK(submit) /\ submit.params \in Seq(Params)
  BY DEF SceneInv, TypeOK, SubmitOK, Submission
<1>2. ~submit.lost /\ submit'.params = submit.params \o ps
  BY <1>1, PrimsIs
<1>3. SinceEnd(submit.params \o ps) = SinceEnd(submit.params) \o ps
  BY <1>1, SinceEndMore
<1>4. Submitted' = SinceEnd(submit'.params)
  BY DEF Submitted, SinceEnd
<1> QED
  BY <1>2, <1>3, <1>4, SubmittedIs

\* The corners that were before the near plane are the same, and what was given.
LEMMA SeenSame ==
  ASSUME given' = given, seen' = seen
  PROVE  /\ \A t : Outline(t)' = Outline(t)
         /\ \A k : Upright(k)' <=> Upright(k)
         /\ \A d : Fits(d)' <=> Fits(d)
         /\ \A s, n, a, b, flags : Good(s, n, a, b, flags)' <=> Good(s, n, a, b, flags)
         /\ \A D, k : Drawn(D, k)' <=> Drawn(D, k)
         /\ \A a, b, x, y : Joins(a, b, x, y)' <=> Joins(a, b, x, y)
<1>1. \A t : Outline(t)' = Outline(t)
  BY DEF Outline
<1>2. \A k : Upright(k)' <=> Upright(k)
  BY DEF Upright, Appears, Triples, IsVertex, StripStart
<1>3. \A d : Fits(d)' <=> Fits(d)
  BY <1>1 DEF Fits
<1>4. \A s, n, a, b, flags : Good(s, n, a, b, flags)' <=> Good(s, n, a, b, flags)
  BY <1>3 DEF Good
<1>5. \A D, k : Drawn(D, k)' <=> Drawn(D, k)
  BY <1>1, <1>2 DEF Drawn
<1>6. \A a, b, c : Lies(a, b, c)' <=> Lies(a, b, c)
  BY <1>1 DEF Lies
<1>7. \A a, b, x, y : Joins(a, b, x, y)' <=> Joins(a, b, x, y)
  BY <1>6 DEF Joins
<1> QED
  BY <1>1, <1>2, <1>3, <1>4, <1>5, <1>7

-----------------------------------------------------------------------------
(* What the steps of the loop send.                                        *)

LEMMA DrawnMore ==
  ASSUME NEW D, NEW E, D \subseteq E, NEW k, Drawn(D, k)
  PROVE  Drawn(E, k)
<1>1. ASSUME NEW t, NEW f, Has(D, t, f) PROVE Has(E, t, f)
  BY <1>1 DEF Has
<1>2. ASSUME NEW o, NEW f, Filled(o, D, f) PROVE Filled(o, E, f)
  BY <1>1, <1>2 DEF Filled
<1> QED
  BY <1>2 DEF Drawn

LEMMA VerticesSent ==
  ASSUME NEW ps \in Seq(Vertices)
  PROVE  ps \in Seq(Params) /\ \A n \in 1..Len(ps) : ps[n].kind # "end"
<1>1. Sendable(OP_POLY, ps)
  BY SendableVertices
<1>2. \A n \in 1..Len(ps) : ps[n] \in Vertices
  OBVIOUS
<1> QED
  BY <1>1, <1>2, KindsOf DEF Sendable

\* The loop goes on or ends, and nothing is queued at the end.
LEMMA ContinueParts ==
  ASSUME SceneInv, NEW step, NEW ps \in Seq(Params), \A n \in 1..Len(ps) : ps[n].kind # "end",
         Continue(step, ps), i + step <= Len(verts) - 1 \/ queued' = NoVertex
  PROVE  /\ given' = given /\ seen' = seen /\ i' = i + step
         /\ pc' = IF i + step <= Len(verts) - 1 THEN "strips" ELSE "submitted"
         /\ ~submit'.lost => ~submit.lost /\ Submitted' = Submitted \o ps
<1>1. /\ given' = given /\ seen' = seen /\ i' = i + step
      /\ pc' = IF i + step <= Len(verts) - 1 THEN "strips" ELSE "submitted"
  BY DEF Continue
<1>2. submit' = Prims(submit, ps)
  <2>1. CASE i + step <= Len(verts) - 1
    BY <2>1 DEF Continue
  <2>2. CASE ~(i + step <= Len(verts) - 1)
    <3>1. submit' = Prims(submit, ps \o <<>>)
      BY <2>2 DEF Continue
    <3>2. ps \o <<>> = ps
      BY ConcatEmptySeq
    <3> QED
      BY <3>1, <3>2
  <2> QED
    BY <2>1, <2>2
<1> QED
  BY <1>1, <1>2, SubmittedMore

\* After a step that leaves nothing queued, what was submitted ends with the end of a
\* strip or a header.
LEMMA StripEnds ==
  ASSUME SceneInv, PartsInv, pc = "strips", given' = given, seen' = seen,
         mask' = {}, queued' = NoVertex, NEW step \in Nat, i' = i + step,
         pc' = IF i + step <= Len(verts) - 1 THEN "strips" ELSE "submitted",
         pc' = "strips" => PlaceInv',
         NEW W,
         ~submit'.lost => /\ ~submit.lost /\ Submitted' = W
                          /\ \E a, b, flags : Good(W, 0, a, b, flags)
                          /\ Triangles(W) = Triangles(Made),
         \A k \in Triples(given) :
           k \in i..(i + step - 1) => Outline(TriangleAt(given, k)) = <<>>,
         i \in Nat, Len(given) = Len(verts), Len(verts) \in Nat
  PROVE  PartsInv'
<1>1. /\ \A s, n, a, b, flags : Good(s, n, a, b, flags)' <=> Good(s, n, a, b, flags)
      /\ \A D, k : Drawn(D, k)' <=> Drawn(D, k)
  BY SeenSame
<1>2. GivenInv'
  <2>1. GivenInv
    BY DEF PartsInv
  <2> QED
    BY <2>1 DEF GivenInv
<1>3. ASSUME ~submit'.lost
      PROVE  /\ \E a, b, flags : Good(W, 0, a, b, flags)
             /\ \A k \in Triples(given) : k < i + step => Drawn(Triangles(W), k)
  <2>1. StripsInv /\ Triangles(W) = Triangles(Made)
    BY <1>3 DEF PartsInv
  <2>2. ASSUME NEW k \in Triples(given), k < i + step PROVE Drawn(Triangles(W), k)
    <3>1. CASE k < i
      BY <2>1, <3>1 DEF StripsInv
    <3>2. CASE ~(k < i)
      <4>1. k \in Nat
        BY DEF Triples
      <4>2. k \in i..(i + step - 1)
        BY <2>2, <3>2, <4>1
      <4> QED
        BY <4>2 DEF Drawn
    <3> QED
      BY <3>1, <3>2
  <2> QED
    BY <1>3, <2>2
<1>4. CASE i + step <= Len(verts) - 1
  <2>1. pc' = "strips" /\ PlaceInv'
    BY <1>4
  <2>2. ASSUME ~submit'.lost PROVE StripsInv'
    <3>1. PICK a, b, flags : Good(W, 0, a, b, flags)
      BY <1>3, <2>2
    <3>2. W \in Seq(Params)
      BY <3>1 DEF Good, Sketch
    <3>3. Submitted' = W
      BY <2>2
    <3>4. AsQueued' = <<>> /\ Pending' = <<>>
      <4>1. 1 \notin mask' /\ mask' # {1, 2, 3}
        OBVIOUS
      <4> QED
        BY <4>1 DEF AsQueued, Pending
    <3>5. Made' = W
      <4>1. W \o <<>> = W
        BY <3>2, ConcatEmptySeq
      <4>2. Made' = Submitted' \o AsQueued' \o Pending'
        BY DEF Made, Base
      <4> QED
        BY <3>3, <3>4, <4>1, <4>2
    <3>6. Good(Made', 0, a, b, flags)
      BY <3>1, <3>5
    <3>7. Good(Made, 0, a, b, flags)' /\ Joint(0, a, b, flags)'
      BY <1>1, <3>6 DEF Joint
    <3>8. \A k \in Triples(given) : k < i' => Drawn(Triangles(Made'), k)
      BY <1>3, <2>2, <3>5
    <3>9. \A k \in Triples(given) : k < i' => Drawn(Triangles(Made), k)'
      BY <1>1, <3>8
    <3> QED
      BY <3>7, <3>9 DEF StripsInv
  <2> QED
    BY <1>2, <2>1, <2>2 DEF PartsInv
<1>5. CASE ~(i + step <= Len(verts) - 1)
  <2>1. pc' = "submitted"
    BY <1>5
  <2>2. ASSUME ~submit'.lost
        PROVE  /\ \E a, b, flags : Good(Submitted, 0, a, b, flags)'
               /\ \A k \in Triples(given) : Drawn(Triangles(Submitted), k)'
    <3>1. Submitted' = W
      BY <2>2
    <3>2. PICK a, b, flags : Good(W, 0, a, b, flags)
      BY <1>3, <2>2
    <3>3. Good(Submitted', 0, a, b, flags)
      BY <3>1, <3>2
    <3>4. Good(Submitted, 0, a, b, flags)'
      BY <1>1, <3>3
    <3>5. ASSUME NEW k \in Triples(given) PROVE Drawn(Triangles(Submitted'), k)
      <4>1. k \in 1..(Len(given) - 2)
        BY DEF Triples
      <4>2. k < i + step
        BY <1>5, <4>1
      <4> QED
        BY <1>3, <2>2, <3>1, <4>2
    <3>6. \A k \in Triples(given) : Drawn(Triangles(Submitted), k)'
      BY <1>1, <3>5
    <3> QED
      BY <3>4, <3>6
  <2> QED
    BY <1>2, <2>1, <2>2 DEF PartsInv
<1> QED
  BY <1>4, <1>5

\* A strip that begins has two vertices.
LEMMA StripBegins ==
  ASSUME GivenInv, Len(given) \in Nat, NEW m \in 2..(Len(given) - 1),
         given[m - 1].kind # "vertex", given[m].kind # "header"
  PROVE  given[m].kind = "vertex" /\ IsVertex(given[m + 1])
<1>1. given[m].kind = "vertex" /\ given[m + 1].kind # "header"
  BY DEF GivenInv
<1>2. m + 1 \in 1..Len(given)
  OBVIOUS
<1>3. given[m + 1].kind \in {"vertex", "eol"}
  BY <1>1, <1>2 DEF GivenInv
<1> QED
  BY <1>1, <1>3 DEF IsVertex

\* The loop's place after the end of a strip or after a header.
LEMMA PlaceBegins ==
  ASSUME GivenInv, Len(given) \in Nat, NEW m \in 2..(Len(given) - 1),
         given[m - 1].kind # "vertex" \/ given[m].kind = "header", given' = given, i' = m,
         mask' = {},
         queued' = NoVertex, Len(verts') = Len(given),
         \A n \in m..Len(given) : verts'[n] = given[n]
  PROVE  PlaceInv'
<1>1. verts'[m] = given[m]
  BY m \in m..Len(given)
<1>2. verts'[i'].kind # "header" => given'[i'].kind = "vertex" /\ IsVertex(given'[i' + 1])
  BY <1>1, StripBegins
<1>3. \A n \in i'..Len(verts') : verts'[n] = given'[n]
  OBVIOUS
<1>4. verts'[i'].kind = "header" \/ given'[i' - 1].kind # "vertex"
  BY <1>1
<1>5. /\ (IsHeaderAt(i) <=> verts[i].kind = "header")'
      /\ (IsVertex(given[i + 1]))' = IsVertex(given'[i' + 1])
  BY DEF IsHeaderAt, IsVertex
<1> QED
  BY <1>2, <1>3, <1>4, <1>5 DEF PlaceInv

LEMMA HeaderParts == ASSUME SceneInv, PartsInv, HeaderStep PROVE PartsInv'
<1>1. pc = "strips" /\ IsHeaderAt(i) /\ mask' = {} /\ verts' = verts /\ queued' = queued
  BY DEF HeaderStep
<1>2. PICK list \in Lists \ closed :
        /\ Len(verts) \in Nat /\ i \in 1..(Len(verts) - 1)
        /\ \A n \in 1..Len(verts) :
             IF verts[n].kind = "header" THEN verts[n] = Header(list) ELSE verts[n] \in Vertices
  BY <1>1, LoopFacts
<1>3. i \in 1..Len(verts) /\ verts[i] = Header(list) /\ verts[i].kind = "header"
  BY <1>1, <1>2 DEF IsHeaderAt
<1>4. GivenInv /\ PlaceInv /\ Len(given) = Len(verts)
  BY <1>1 DEF PartsInv, SceneInv, LoopInv, Before
<1>5. mask = {} /\ queued = NoVertex /\ queued' = NoVertex
  BY <1>1, <1>4 DEF PlaceInv
<1> DEFINE x == verts[i]
           ps == <<x>>
           W == Submitted \o ps
<1>6. x \in Params /\ x.kind = "header" /\ x.kind # "end"
  BY <1>3 DEF Params, Headers
<1>7. ps \in Seq(Params) /\ \A n \in 1..Len(ps) : ps[n].kind # "end"
  BY <1>6
<1>8. Continue(1, ps)
  BY DEF HeaderStep
<1> HIDE DEF x, ps
<1>9. /\ given' = given /\ seen' = seen /\ i' = i + 1
      /\ pc' = IF i + 1 <= Len(verts) - 1 THEN "strips" ELSE "submitted"
      /\ ~submit'.lost => ~submit.lost /\ Submitted' = W
  BY <1>5, <1>7, <1>8, ContinueParts
<1>10. ASSUME ~submit'.lost
       PROVE  /\ ~submit.lost /\ Submitted' = W
              /\ \E a, b, flags : Good(W, 0, a, b, flags)
              /\ Triangles(W) = Triangles(Made)
  <2>1. ~submit.lost /\ Submitted' = W
    BY <1>9, <1>10
  <2>2. StripsInv
    BY <1>1, <2>1 DEF PartsInv
  <2>3. PICK n \in Nat : \E a, b, flags : Good(Made, n, a, b, flags) /\ Joint(n, a, b, flags)
    BY <2>2 DEF StripsInv
  <2>4. PICK a, b, flags : Good(Made, n, a, b, flags) /\ Joint(n, a, b, flags)
    BY <2>3
  <2>5. n = 0
    BY <1>5, <2>4 DEF Joint
  <2>6. Made = Submitted
    <3>1. AsQueued = <<>> /\ Pending = <<>>
      <4>1. 1 \notin mask /\ mask # {1, 2, 3}
        BY <1>5
      <4> QED
        BY <1>5, <4>1 DEF AsQueued, Pending
    <3>2. Submitted \o <<>> = Submitted
      BY SubmittedIs, ConcatEmptySeq
    <3> QED
      BY <3>1, <3>2 DEF Made, Base
  <2>7. Good(Submitted, 0, a, b, flags)
    BY <2>4, <2>5, <2>6
  <2>8. Good(W, 0, a, b, flags) /\ Triangles(W) = Triangles(Submitted)
    BY <1>6, <2>7, HeaderGood DEF ps
  <2> QED
    BY <2>1, <2>6, <2>8
<1>11. given[i] = verts[i]
  <2>1. i \in i..Len(verts)
    BY <1>2
  <2> QED
    BY <1>4, <2>1 DEF PlaceInv
<1>12. ASSUME NEW k \in Triples(given), k \in i..(i + 1 - 1)
       PROVE Outline(TriangleAt(given, k)) = <<>>
  <2>1. k = i
    BY <1>2, <1>12
  <2>2. given[i].kind = "vertex"
    BY <2>1 DEF Triples
  <2> QED
    BY <1>3, <1>11, <2>2
<1>13. ASSUME pc' = "strips" PROVE PlaceInv'
  <2> DEFINE m == i + 1
  <2>1. m \in 2..(Len(given) - 1) /\ m - 1 = i /\ i' = m
    BY <1>2, <1>4, <1>9, <1>13
  <2>2. \A n \in m..Len(given) : verts'[n] = given[n]
    <3>1. \A n \in m..Len(given) : n \in i..Len(verts)
      BY <1>2, <1>4
    <3> QED
      BY <1>1, <1>4, <3>1 DEF PlaceInv
  <2>3. given[m - 1].kind # "vertex"
    BY <1>3, <1>11, <2>1
  <2> HIDE DEF m
  <2>4. Len(given) \in Nat /\ Len(verts') = Len(given)
    BY <1>1, <1>2, <1>4
  <2> QED
    BY <1>1, <1>4, <1>5, <1>9, <2>1, <2>2, <2>3, <2>4, PlaceBegins
<1> HIDE DEF W
<1>14. i \in Nat /\ 1 \in Nat
  BY <1>2
<1> QED
  BY <1>1, <1>2, <1>4, <1>5, <1>9, <1>10, <1>12, <1>13, <1>14, StripEnds

-----------------------------------------------------------------------------
(* The end of a strip.                                                     *)

\* The vertex that is queued ends its strip, if the last triangle was clipped.
LEMMA QueuedEnds ==
  ASSUME SceneInv, PartsInv, pc = "strips", ~submit.lost, mask # {1, 2, 3}
  PROVE  LET W == Submitted \o Queued("eol")
         IN  /\ \E a, b, flags : Good(W, 0, a, b, flags)
             /\ Triangles(W) = Triangles(Made)
<1> DEFINE W == Submitted \o Queued("eol")
<1>1. PlaceInv /\ StripsInv
  BY DEF PartsInv
<1>2. PICK n \in Nat : \E a, b, flags : Good(Made, n, a, b, flags) /\ Joint(n, a, b, flags)
  BY <1>1 DEF StripsInv
<1>3. PICK a, b, flags : Good(Made, n, a, b, flags) /\ Joint(n, a, b, flags)
  BY <1>2
<1>4. Submitted \in Seq(Params)
  BY SubmittedIs
<1>5. queued \in Vertices \cup {NoVertex}
  BY LoopFacts
<1>6. Pending = <<>>
  BY DEF Pending
<1>7. CASE queued = NoVertex
  <2>1. n = 0
    BY <1>1, <1>3, <1>7 DEF PlaceInv, Joint
  <2>2. AsQueued = <<>> /\ Queued("eol") = <<>>
    BY <1>7 DEF AsQueued, Queued
  <2>3. Submitted \o <<>> = Submitted
    BY <1>4, ConcatEmptySeq
  <2>4. Made = Submitted /\ W = Submitted
    BY <1>6, <2>2, <2>3 DEF Made, Base
  <2> QED
    BY <1>3, <2>1, <2>4
<1>8. CASE queued # NoVertex
  <2>1. queued \in Vertices /\ queued \in Params
    BY <1>5, <1>8 DEF Params
  <2>2. AsQueued = <<queued>> /\ Queued("eol") = <<Flagged(queued, "eol")>>
    BY <1>8 DEF AsQueued, Queued
  <2>3. Submitted \o <<queued>> \in Seq(Params)
    BY <1>4, <2>1, AppendIs
  <2>4. (Submitted \o <<queued>>) \o <<>> = Submitted \o <<queued>>
    BY <2>3, ConcatEmptySeq
  <2>5. Made = Submitted \o <<queued>>
    BY <1>6, <2>2, <2>4 DEF Made, Base
  <2>6. Good(Submitted \o <<queued>>, n, a, b, flags)
    BY <1>3, <2>5
  <2> DEFINE U == Submitted \o <<Flagged(queued, "eol")>>
  <2>7. Good(U, 0, a, b, flags) /\ Triangles(U) = Triangles(Submitted \o <<queued>>)
    BY <1>4, <2>1, <2>6, EndGood
  <2>8. W = U
    BY <2>2
  <2> QED
    BY <2>5, <2>7, <2>8
<1> QED
  BY <1>7, <1>8

\* A strip that was not clipped ends with its last two vertices.
LEMMA PairEnds ==
  ASSUME SceneInv, PartsInv, pc = "strips", ~submit.lost, mask = {1, 2, 3},
         verts[i] \in Vertices, verts[i + 1] \in Vertices
  PROVE  LET d0 == Divided(verts[i])
             d1 == Divided(verts[i + 1])
             W == Submitted \o (AsQueued \o <<d0, Flagged(d1, "eol")>>)
         IN  /\ \E a, b, flags : Good(W, 0, a, b, flags)
             /\ Triangles(W) = Triangles(Made)
<1> DEFINE d0 == Divided(verts[i])
           d1 == Divided(verts[i + 1])
           e1 == Flagged(d1, "eol")
           W == Submitted \o (AsQueued \o <<d0, e1>>)
<1>1. StripsInv
  BY DEF PartsInv
<1>2. PICK n \in Nat : \E a, b, flags : Good(Made, n, a, b, flags)
  BY <1>1 DEF StripsInv
<1>3. PICK a, b, flags : Good(Made, n, a, b, flags)
  BY <1>2
<1>4. d0 \in Vertices /\ d1 \in Vertices
  BY DividedIs
<1>5. e1 \in Vertices
  BY <1>4, FlaggedIs
<1>6. Pending = <<d0, d1>>
  BY DEF Pending
<1> HIDE DEF d0, d1
<1>7. d0 \in Params /\ d1 \in Params /\ e1 \in Params
  BY <1>4, <1>5 DEF Params
<1>8. Submitted \in Seq(Params)
  BY SubmittedIs
<1>9. AsQueued \in Seq(Params)
  <2>1. AsQueued \in Seq(Vertices)
    BY LoopFacts, QueuedIs
  <2> QED
    BY <2>1, VerticesSent
<1>10. Base \in Seq(Params)
  BY <1>8, <1>9, ConcatProperties DEF Base
<1>11. <<d0, e1>> \in Seq(Params)
  BY <1>7
<1>12. W = Base \o <<d0, e1>>
  <2>1. Submitted \in Seq(Params) /\ AsQueued \in Seq(Params) /\ <<d0, e1>> \in Seq(Params)
    BY <1>8, <1>9, <1>11
  <2> HIDE DEF e1
  <2> QED
    BY <2>1, ConcatAssociative DEF Base
<1> DEFINE s == Base \o <<d0>>
<1>13. s \in Seq(Params)
  BY <1>7, <1>10, AppendIs
<1>14. Base \o <<d0, d1>> = s \o <<d1>> /\ Base \o <<d0, e1>> = s \o <<e1>>
  <2>1. ChainOf(Base, d0, d1, d1, d1, d1) /\ ChainOf(Base, d0, e1, e1, e1, e1)
    BY <1>7, <1>10, ChainIs
  <2> QED
    BY <2>1 DEF ChainOf
<1>15. Made = s \o <<d1>>
  BY <1>6, <1>14 DEF Made
<1>16. W = s \o <<e1>>
  BY <1>12, <1>14
<1> HIDE DEF s
<1>17. Good(s \o <<d1>>, n, a, b, flags)
  BY <1>3, <1>15
<1>18. Good(s \o <<e1>>, 0, a, b, flags) /\ Triangles(s \o <<e1>>) = Triangles(s \o <<d1>>)
  BY <1>4, <1>13, <1>17, EndGood
<1> HIDE DEF W
<1>19. Good(W, 0, a, b, flags) /\ Triangles(W) = Triangles(Made)
  BY <1>15, <1>16, <1>18
<1> QED
  BY <1>19 DEF W, e1, d0, d1

LEMMA TrailingParts == ASSUME SceneInv, PartsInv, TrailingStep PROVE PartsInv'
<1>1. pc = "strips" /\ ~IsHeaderAt(i) /\ Trailing /\ mask' = {} /\ queued' = NoVertex
  BY DEF TrailingStep
<1> DEFINE x == given[i].p[1]
           y == given[i + 1].p[1]
           d0 == Divided(verts[i])
           d1 == Flagged(Divided(verts[i + 1]), "eol")
           pair == AsQueued \o <<d0, d1>>
           whole == mask = {1, 2, 3}
           ps == IF whole THEN pair ELSE Queued("eol")
           W == Submitted \o ps
<1>2. /\ Len(verts) \in Nat /\ Len(given) = Len(verts) /\ i \in 2..(Len(verts) - 1)
      /\ DOMAIN verts = 1..Len(verts) /\ verts[i] = given[i] /\ verts[i + 1] = given[i + 1]
      /\ x \in Nat /\ given[i] = Corner(x, "vertex")
      /\ y \in Nat /\ given[i + 1] = Corner(y, given[i + 1].kind)
      /\ given[i + 1].kind \in {"vertex", "eol"}
  BY <1>1, PlaceFacts
<1>3. verts[i] \in Vertices /\ verts[i + 1] \in Vertices
  BY <1>2 DEF Corner, Vertices
<1>4. GivenInv /\ PlaceInv
  BY <1>1 DEF PartsInv
<1> HIDE DEF x, y
<1>5. AsQueued \in Seq(Vertices) /\ Queued("eol") \in Seq(Vertices)
  BY <1>1, LoopFacts, QueuedIs
<1>6. ps \in Seq(Vertices)
  <2>1. d0 \in Vertices /\ d1 \in Vertices
    BY <1>3, DividedIs, FlaggedIs
  <2> HIDE DEF d0, d1
  <2>2. <<d0, d1>> \in Seq(Vertices)
    BY <2>1
  <2>3. pair \in Seq(Vertices)
    BY <1>5, <2>2, ConcatProperties
  <2> QED
    BY <1>5, <2>3
<1>7. ps \in Seq(Params) /\ \A n \in 1..Len(ps) : ps[n].kind # "end"
  BY <1>6, VerticesSent
<1>8. Continue(2, ps) /\ Len(verts') = Len(verts)
      /\ \A n \in (i + 2)..Len(verts) : verts'[n] = verts[n]
  <2>1. CASE whole
    <3>1. verts' = [verts EXCEPT ![i] = d0, ![i + 1] = d1] /\ Continue(2, pair)
      BY <2>1 DEF TrailingStep
    <3> HIDE DEF d0, d1
    <3>2. DOMAIN verts' = 1..Len(verts)
      BY <1>2, <3>1
    <3>3. \E S : verts \in Seq(S)
      BY <1>1, LoopFacts
    <3>4. Len(verts') = Len(verts)
      BY <3>1, <3>3
    <3>5. \A n \in (i + 2)..Len(verts) : n # i /\ n # i + 1 /\ n \in DOMAIN verts
      BY <1>2
    <3>6. \A n \in (i + 2)..Len(verts) : verts'[n] = verts[n]
      BY <3>1, <3>5
    <3> HIDE DEF pair
    <3> QED
      BY <2>1, <3>1, <3>4, <3>6
  <2>2. CASE ~whole
    <3>1. verts' = verts /\ Continue(2, Queued("eol"))
      BY <2>2 DEF TrailingStep
    <3> HIDE DEF pair
    <3> QED
      BY <2>2, <3>1
  <2> QED
    BY <2>1, <2>2
<1> HIDE DEF ps
<1>9. /\ given' = given /\ seen' = seen /\ i' = i + 2
      /\ pc' = IF i + 2 <= Len(verts) - 1 THEN "strips" ELSE "submitted"
      /\ ~submit'.lost => ~submit.lost /\ Submitted' = W
  BY <1>1, <1>7, <1>8, ContinueParts
<1>10. ASSUME ~submit'.lost
       PROVE  /\ ~submit.lost /\ Submitted' = W
              /\ \E a, b, flags : Good(W, 0, a, b, flags)
              /\ Triangles(W) = Triangles(Made)
  <2>1. ~submit.lost /\ Submitted' = W
    BY <1>9, <1>10
  <2>2. CASE whole
    <3>1. W = Submitted \o pair
      BY <2>2 DEF ps
    <3>2. /\ \E a, b, flags : Good(Submitted \o pair, 0, a, b, flags)
          /\ Triangles(Submitted \o pair) = Triangles(Made)
      BY <1>1, <1>3, <2>1, <2>2, PairEnds
    <3> HIDE DEF W, pair
    <3> QED
      BY <2>1, <3>1, <3>2
  <2>3. CASE ~whole
    <3>1. W = Submitted \o Queued("eol")
      BY <2>3 DEF ps
    <3>2. /\ \E a, b, flags : Good(Submitted \o Queued("eol"), 0, a, b, flags)
          /\ Triangles(Submitted \o Queued("eol")) = Triangles(Made)
      BY <1>1, <2>1, <2>3, QueuedEnds
    <3> HIDE DEF W
    <3> QED
      BY <2>1, <3>1, <3>2
  <2> QED
    BY <2>2, <2>3
<1> HIDE DEF W
<1>11. \A n \in (i + 2)..Len(verts) : verts[n] = given[n]
  <2>1. \A n \in (i + 2)..Len(verts) : n \in i..Len(verts)
    BY <1>2
  <2> QED
    BY <1>4, <2>1 DEF PlaceInv
<1>12. i + 2 <= Len(verts) => given[i + 1].kind = "eol" \/ given[i + 2].kind = "header"
  <2> SUFFICES ASSUME i + 2 <= Len(verts), given[i + 1].kind # "eol"
               PROVE  given[i + 2].kind = "header"
    OBVIOUS
  <2>1. i + 2 \in DOMAIN verts /\ i + 2 \in (i + 2)..Len(verts)
    BY <1>2
  <2>2. verts[i + 2].kind = "header"
    BY <1>1, <1>2, <2>1 DEF Trailing, IsHeaderAt
  <2> QED
    BY <1>11, <2>1, <2>2
<1>13. ASSUME NEW k \in Triples(given), k \in i..(i + 2 - 1)
       PROVE Outline(TriangleAt(given, k)) = <<>>
  <2>1. k \in 1..(Len(given) - 2) /\ given[k].kind = "vertex" /\ given[k + 1].kind = "vertex"
        /\ given[k + 2].kind \in {"vertex", "eol"}
    BY DEF Triples, IsVertex
  <2>2. i + 2 <= Len(verts)
    BY <1>2, <1>13, <2>1
  <2>3. k = i \/ k = i + 1
    BY <1>2, <1>13
  <2>4. CASE k = i
    BY <1>12, <2>1, <2>2, <2>4
  <2>5. CASE k = i + 1
    <3>1. k + 1 = i + 2
      BY <1>2, <2>5
    <3> QED
      BY <1>12, <2>1, <2>2, <2>5, <3>1
  <2> QED
    BY <2>3, <2>4, <2>5
<1>14. ASSUME pc' = "strips" PROVE PlaceInv'
  <2> DEFINE m == i + 2
  <2>1. m \in 2..(Len(given) - 1) /\ i' = m /\ i + 2 <= Len(verts) /\ m - 1 = i + 1
    BY <1>2, <1>9, <1>14
  <2>2. \A n \in m..Len(given) : verts'[n] = given[n]
    BY <1>2, <1>8, <1>11
  <2>3. given[m - 1].kind # "vertex" \/ given[m].kind = "header"
    BY <1>12, <2>1
  <2> HIDE DEF m
  <2>4. Len(given) \in Nat /\ Len(verts') = Len(given)
    BY <1>2, <1>8
  <2> QED
    BY <1>1, <1>4, <1>9, <2>1, <2>2, <2>3, <2>4, PlaceBegins
<1>15. i \in Nat /\ 2 \in Nat
  BY <1>2
<1> QED
  BY <1>1, <1>2, <1>9, <1>10, <1>13, <1>14, <1>15, StripEnds

-----------------------------------------------------------------------------
(* A triangle.                                                             *)

LEMMA ClippedSome ==
  ASSUME NEW m \in SUBSET (1..3), m # {}, NEW v0, NEW v1, NEW v2
  PROVE  Clipped(m, v0, v1, v2) # <<>>
<1> DEFINE c0 == Divided(v0)
           c1 == Divided(v1)
           c2 == Divided(v2)
           e01 == Edge(v0, v1, "vertex")
           e12 == Edge(v1, v2, "vertex")
           e20 == Edge(v2, v0, "vertex")
           f12 == Edge(v1, v2, v2.kind)
           c == Flagged(c2, "vertex")
<1>1. m \in {{}, {1}, {2}, {3}, {1, 2}, {2, 3}, {1, 3}, {1, 2, 3}}
  <2>1. \A x \in m : x = 1 \/ x = 2 \/ x = 3
    OBVIOUS
  <2> QED
    BY <2>1, Zenon
<1>2. Clipped(m, v0, v1, v2) =
        CASE m = {1, 2, 3} -> <<c0>>
          [] m = {} -> <<>>
          [] m = {1} -> <<c0, e01, e20, e20>>
          [] m = {2} -> <<e01, c1, f12>>
          [] m = {3} -> <<e12, e20, c2>>
          [] m = {1, 2} -> <<c0, c1, e20, c1, f12>>
          [] m = {2, 3} -> <<e01, c1, e20, c1, c2>>
          [] m = {1, 3} -> <<c0, e01, c, e12, c>>
  BY DEF Clipped
<1> HIDE DEF c0, c1, c2, e01, e12, e20, f12, c
<1>3. /\ <<c0>> # <<>> /\ <<c0, e01, e20, e20>> # <<>> /\ <<e01, c1, f12>> # <<>>
      /\ <<e12, e20, c2>> # <<>> /\ <<c0, c1, e20, c1, f12>> # <<>>
      /\ <<e01, c1, e20, c1, c2>> # <<>> /\ <<c0, e01, c, e12, c>> # <<>>
  OBVIOUS
<1> QED
  BY <1>1, <1>2, <1>3

\* The triangle at the loop's place.
ShapeOf(x, y, z, k) ==
  /\ verts[i] = Corner(x, "vertex") /\ verts[i + 1] = Corner(y, "vertex")
  /\ verts[i + 2] = Corner(z, k) /\ x \in Nat /\ y \in Nat /\ z \in Nat
  /\ k \in {"vertex", "eol"} /\ given[i].p[1] = x /\ given[i + 1].p[1] = y
  /\ given[i + 2].p[1] = z /\ given[i].kind = "vertex" /\ given[i + 1].kind = "vertex"
  /\ given[i + 2].kind = k
  /\ Len(verts) \in Nat /\ Len(given) = Len(verts) /\ i \in 2..(Len(verts) - 2)
  /\ DOMAIN verts = 1..Len(verts) /\ i \in Triples(given)
  /\ Corners(VisibleMask, x, y, z)
  /\ StripStart(given, i) \in 1..i
  /\ TriangleAt(given, i) = Turn(i - StripStart(given, i), <<x, x>>, <<y, y>>, <<z, z>>)
  /\ TriangleAt(given, i) \in Triangles(given)

LEMMA TriangleShape ==
  ASSUME SceneInv, PartsInv, pc = "strips", ~IsHeaderAt(i), ~Trailing
  PROVE  \E x, y, z, k : ShapeOf(x, y, z, k)
<1> DEFINE x == given[i].p[1]
           y == given[i + 1].p[1]
           z == given[i + 2].p[1]
           k == given[i + 2].kind
<1>1. /\ Len(verts) \in Nat /\ Len(given) = Len(verts) /\ i \in 2..(Len(verts) - 1)
      /\ DOMAIN verts = 1..Len(verts)
      /\ verts[i] = given[i] /\ verts[i + 1] = given[i + 1]
      /\ x \in Nat /\ given[i] = Corner(x, "vertex") /\ given[i].kind = "vertex"
      /\ y \in Nat /\ given[i + 1] = Corner(y, given[i + 1].kind)
  BY PlaceFacts
<1>2. /\ i + 2 <= Len(verts) /\ given[i + 1].kind = "vertex"
      /\ verts[i + 2] = given[i + 2]
      /\ z \in Nat /\ given[i + 2] = Corner(z, k) /\ k \in {"vertex", "eol"}
      /\ i \in Triples(given)
  BY TriangleFacts
<1> HIDE DEF x, y, z, k
<1>3. Corners(VisibleMask, x, y, z)
  <2>1. i + 1 - 1 = i /\ i + 2 - 1 = i + 1 /\ i + 3 - 1 = i + 2
    BY <1>1
  <2>2. verts[i].p[1] = x /\ verts[i + 1].p[1] = y /\ verts[i + 2].p[1] = z
    BY <1>1, <1>2 DEF x, y, z
  <2>3. /\ 1 \in VisibleMask <=> x \in seen
        /\ 2 \in VisibleMask <=> y \in seen
        /\ 3 \in VisibleMask <=> z \in seen
    BY <2>1, <2>2 DEF VisibleMask, Visible
  <2>4. VisibleMask \in SUBSET (1..3)
    BY DEF VisibleMask
  <2> QED
    BY <2>3, <2>4 DEF Corners
<1>4. StripStart(given, i) \in 1..i
  BY <1>1, StripStartIs
<1>5. given[i].p = <<x, x>> /\ given[i + 1].p = <<y, y>> /\ given[i + 2].p = <<z, z>>
  BY <1>1, <1>2 DEF Corner
<1>6. TriangleAt(given, i) = Turn(i - StripStart(given, i), <<x, x>>, <<y, y>>, <<z, z>>)
  BY <1>5 DEF TriangleAt, Turn
<1>7. TriangleAt(given, i) \in Triangles(given)
  BY <1>2 DEF Triangles
<1>8. i \in 2..(Len(verts) - 2)
  BY <1>1, <1>2
<1>9. ShapeOf(x, y, z, k)
  BY <1>1, <1>2, <1>3, <1>4, <1>6, <1>7, <1>8 DEF ShapeOf, x, y, z, k
<1> QED
  BY <1>9

\* Where the strip comes into sight with the last corner, the facing is not kept.
LEMMA ComesIntoSight ==
  ASSUME NEW x, NEW y, NEW z, NEW k, ShapeOf(x, y, z, k),
         x \in seen \/ y \in seen \/ z \in seen, x \notin seen, y \notin seen
  PROVE  ~Upright(i)
<1>1. Appears(i) /\ i \in Triples(given) /\ i <= i
  BY DEF ShapeOf, Appears
<1> QED
  BY <1>1 DEF Upright

\* A strip that keeps its facing kept it before.
LEMMA UprightBefore ==
  ASSUME NEW k \in Nat, StripStart(given, k + 1) = StripStart(given, k), Upright(k + 1)
  PROVE  Upright(k)
<1> SUFFICES ASSUME NEW j \in Triples(given), j <= k, StripStart(given, j) = StripStart(given, k)
             PROVE  ~Appears(j)
  BY DEF Upright
<1>1. j \in Nat
  BY DEF Triples
<1>2. j <= k + 1
  BY <1>1
<1> QED
  BY <1>2 DEF Upright

Headed(s, x, y, z) ==
  s \o <<Point(Head1(x, y, z), "vertex")>> \o <<Point(Head2(x, y, z), "vertex")>>

Begun(at, g, x, y, z, k, m, s, n) ==
  /\ g \in Nat /\ x \in Nat /\ y \in Nat /\ z \in Nat /\ k \in {"vertex", "eol"}
  /\ Corners(m, x, y, z) /\ (x \in seen \/ y \in seen \/ z \in seen)
  /\ Turn(g, <<x, x>>, <<y, y>>, <<z, z>>) \in Triangles(given)
  /\ x \notin seen /\ y \notin seen => ~Upright(at)
  /\ s \in Seq(Params) /\ n \in Nat /\ n >= 2 /\ (Upright(at) => n % 2 = g % 2)
  /\ Good(Headed(s, x, y, z), n, Head1(x, y, z), Head2(x, y, z), "vertex")

LEMMA BlockFollows ==
  ASSUME NEW at, NEW g, NEW x, NEW y, NEW z, NEW k, NEW m, NEW s, NEW n,
         Begun(at, g, x, y, z, k, m, s, n)
  PROVE  Follows3(Headed(s, x, y, z),
                  s \o Block(m, Corner(x, "vertex"), Corner(y, "vertex"), Corner(z, k)),
                  at, g, x, y, z, k)
<1>1. /\ g \in Nat /\ x \in Nat /\ y \in Nat /\ z \in Nat /\ k \in {"vertex", "eol"}
      /\ Corners(m, x, y, z) /\ (x \in seen \/ y \in seen \/ z \in seen)
      /\ Turn(g, <<x, x>>, <<y, y>>, <<z, z>>) \in Triangles(given)
      /\ x \notin seen /\ y \notin seen => ~Upright(at)
      /\ s \in Seq(Params) /\ n \in Nat /\ n >= 2 /\ (Upright(at) => n % 2 = g % 2)
  BY DEF Begun
<1>2. Good(s \o <<Point(Head1(x, y, z), "vertex")>> \o <<Point(Head2(x, y, z), "vertex")>>, n,
           Head1(x, y, z), Head2(x, y, z), "vertex")
  BY DEF Begun, Headed
<1>3. Follows3(s \o <<Point(Head1(x, y, z), "vertex")>> \o <<Point(Head2(x, y, z), "vertex")>>,
               s \o Block(m, Corner(x, "vertex"), Corner(y, "vertex"), Corner(z, k)),
               at, g, x, y, z, k)
  BY <1>1, <1>2, BlockGood, ZenonT(60)
<1> QED
  BY <1>3 DEF Headed

\* The vertices of a triangle follow those of the strip.
LEMMA TriangleFollows ==
  ASSUME SceneInv, PartsInv, pc = "strips", ~IsHeaderAt(i), ~submit.lost,
         NEW x, NEW y, NEW z, NEW k, ShapeOf(x, y, z, k),
         x \in seen \/ y \in seen \/ z \in seen
  PROVE  LET B == Block(VisibleMask, Corner(x, "vertex"), Corner(y, "vertex"), Corner(z, k))
         IN  Follows3(Made, Base \o B, i, i - StripStart(given, i), x, y, z, k)
<1> DEFINE g == i - StripStart(given, i)
           m == VisibleMask
           h1 == Head1(x, y, z)
           h2 == Head2(x, y, z)
           B == Block(m, Corner(x, "vertex"), Corner(y, "vertex"), Corner(z, k))
           t == Headed(Base, x, y, z)
<1>1. PlaceInv /\ StripsInv
  BY DEF PartsInv
<1>2. PICK n \in Nat : \E a, b, flags : Good(Made, n, a, b, flags) /\ Joint(n, a, b, flags)
  BY <1>1 DEF StripsInv
<1>3. PICK a, b, flags : Good(Made, n, a, b, flags) /\ Joint(n, a, b, flags)
  BY <1>2
<1>4. /\ x \in Nat /\ y \in Nat /\ z \in Nat /\ k \in {"vertex", "eol"}
      /\ Corners(m, x, y, z) /\ g \in Nat
      /\ Turn(g, <<x, x>>, <<y, y>>, <<z, z>>) \in Triangles(given)
      /\ given[i + 1].kind = "vertex" /\ given[i].p[1] = x /\ given[i + 1].p[1] = y
      /\ i \in Nat /\ i >= 2
  BY DEF ShapeOf
<1>5. x \notin seen /\ y \notin seen => ~Upright(i)
  BY ComesIntoSight
<1>6. Base \in Seq(Params)
  <2>1. Submitted \in Seq(Params)
    BY SubmittedIs
  <2>2. AsQueued \in Seq(Vertices)
    BY LoopFacts, QueuedIs
  <2>3. AsQueued \in Seq(Params)
    BY <2>2, VerticesSent
  <2> QED
    BY <2>1, <2>3, ConcatProperties DEF Base
<1>7. mask # {} => /\ n >= 2 /\ flags = "vertex" /\ Joins(a, b, x, y)
                   /\ Upright(i) /\ (x \in seen \/ y \in seen) => n % 2 = g % 2
  BY <1>3, <1>4 DEF Joint
<1>8. mask = {} => n = 0 /\ (x \in seen \/ y \in seen => g = 0)
  <2> SUFFICES ASSUME mask = {} PROVE n = 0 /\ (x \in seen \/ y \in seen => g = 0)
    OBVIOUS
  <2>1. n = 0
    BY <1>3 DEF Joint
  <2>2. given[i - 1].kind # "vertex" \/ (x \notin seen /\ y \notin seen)
    BY <1>1, <1>4 DEF PlaceInv
  <2>3. ASSUME given[i - 1].kind # "vertex" PROVE g = 0
    <3>1. i \in 1..i /\ \A j \in (i + 1)..i : given[j - 1].kind = "vertex"
      BY <1>4
    <3>2. StripStart(given, i) = i
      BY <1>4, <2>3, <3>1, StripStartAt
    <3> QED
      BY <1>4, <3>2
  <2> QED
    BY <2>1, <2>2, <2>3
<1> HIDE DEF g, m
<1>9. CASE mask = {1, 2, 3}
  <2>1. mask # {}
    BY <1>9
  <2>2. x \in seen /\ y \in seen
    <3>1. 2 \in mask /\ 3 \in mask
      BY <1>9
    <3> QED
      BY <1>1, <1>4, <2>1, <3>1 DEF PlaceInv
  <2>3. a = <<x, x>> /\ b = <<y, y>> /\ h1 = <<x, x>> /\ h2 = <<y, y>>
    BY <1>7, <2>1, <2>2 DEF Joins, Head1, Head2
  <2> DEFINE p == Point(h1, "vertex")
             q == Point(h2, "vertex")
  <2>4. Divided(verts[i]) = p /\ Divided(verts[i + 1]) = q
    <3>1. verts[i] = Corner(x, "vertex") /\ verts[i + 1] = Corner(y, "vertex")
      BY DEF ShapeOf
    <3> QED
      BY <1>4, <2>3, <3>1, CornersAre
  <2>5. p \in Vertices /\ q \in Vertices
    <3>1. h1 \in Nat \X Nat /\ h2 \in Nat \X Nat
      BY <1>4, <2>3
    <3> QED
      BY <3>1, PointIs
  <2>6. Pending = <<p, q>>
    BY <1>9, <2>4 DEF Pending
  <2> HIDE DEF p, q
  <2>7. Made = Base \o <<p>> \o <<q>>
    <3>1. p \in Params /\ q \in Params
      BY <2>5 DEF Params
    <3>2. ChainOf(Base, p, q, q, q, q)
      BY <1>6, <3>1, ChainIs
    <3> QED
      BY <2>6, <3>2 DEF ChainOf, Made
  <2>8. Made = t
    BY <2>7 DEF p, q, Headed
  <2> HIDE DEF t
  <2>9. Good(t, n, h1, h2, "vertex") /\ n >= 2 /\ (Upright(i) => n % 2 = g % 2)
    BY <1>3, <1>7, <2>1, <2>2, <2>3, <2>8
  <2> HIDE DEF h1, h2, B
  <2>10. Follows3(t, Base \o B, i, g, x, y, z, k)
    <3>1. Begun(i, g, x, y, z, k, m, Base, n)
      BY <1>4, <1>5, <1>6, <2>9 DEF Begun, t, h1, h2
    <3> QED
      BY <3>1, BlockFollows DEF t, B
  <2> QED
    BY <2>8, <2>10 DEF g, m, B
<1>10. CASE mask # {1, 2, 3}
  <2>1. Made = Base
    <3>1. Pending = <<>>
      BY <1>10 DEF Pending
    <3>2. Base \o <<>> = Base
      BY <1>6, ConcatEmptySeq
    <3> QED
      BY <3>1, <3>2 DEF Made
  <2>2. n = 0 \/ (n >= 2 /\ flags = "vertex" /\ Joins(a, b, x, y))
    BY <1>7, <1>8
  <2>3. Upright(i) => (n + 2) % 2 = g % 2
    <3> SUFFICES ASSUME Upright(i) PROVE (n + 2) % 2 = g % 2
      OBVIOUS
    <3>1. x \in seen \/ y \in seen
      BY <1>5
    <3>2. (n = 0 /\ g = 0) \/ n % 2 = g % 2
      BY <1>7, <1>8, <3>1
    <3> QED
      BY <1>4, <3>2
  <2>4. Good(Base, n, a, b, flags)
    BY <1>3, <2>1
  <2> HIDE DEF t, h1, h2, B
  <2>5. Good(t, n + 2, h1, h2, "vertex") /\ Triangles(Base) \subseteq Triangles(t)
    BY <1>4, <2>2, <2>4, HeadGood DEF t, h1, h2, Headed
  <2>6. Follows3(t, Base \o B, i, g, x, y, z, k)
    <3>1. n + 2 \in Nat /\ n + 2 >= 2
      OBVIOUS
    <3>2. Begun(i, g, x, y, z, k, m, Base, n + 2)
      BY <1>4, <1>5, <1>6, <2>3, <2>5, <3>1 DEF Begun, t, h1, h2
    <3> QED
      BY <3>2, BlockFollows DEF t, B
  <2>7. Follows3(Made, Base \o B, i, g, x, y, z, k)
    BY <2>1, <2>5, <2>6, FollowsFrom
  <2> QED
    BY <2>7 DEF g, m, B
<1> QED
  BY <1>9, <1>10

\* What a triangle's step leaves, whether something is visible or not.
Moved(x, y, z, k) ==
  LET C == Clipped(VisibleMask, Corner(x, "vertex"), Corner(y, "vertex"), Corner(z, k))
  IN  /\ given' = given /\ seen' = seen /\ i' = i + 1 /\ pc' = "strips"
      /\ mask' = VisibleMask /\ Len(verts') = Len(verts)
      /\ \A n \in (i + 1)..Len(verts) : verts'[n] = verts[n]
      /\ C \in Seq(Vertices)
      /\ queued' = IF C = <<>> THEN NoVertex ELSE Last(C)
      /\ ~submit'.lost =>
           /\ ~submit.lost
           /\ Submitted' = Submitted \o IF C = <<>> THEN Queued("eol") ELSE AsQueued \o Front(C)

LEMMA TriangleMoves ==
  ASSUME SceneInv, PartsInv, TriangleStep, NEW x, NEW y, NEW z, NEW k, ShapeOf(x, y, z, k)
  PROVE  Moved(x, y, z, k)
<1> DEFINE v0 == Corner(x, "vertex")
           v1 == Corner(y, "vertex")
           v2 == Corner(z, k)
           C == Clipped(VisibleMask, v0, v1, v2)
           ps == IF C = <<>> THEN Queued("eol") ELSE AsQueued \o Front(C)
<1>1. /\ verts[i] = v0 /\ verts[i + 1] = v1 /\ verts[i + 2] = v2
      /\ x \in Nat /\ y \in Nat /\ z \in Nat /\ k \in {"vertex", "eol"}
      /\ Len(verts) \in Nat /\ i \in 2..(Len(verts) - 2) /\ DOMAIN verts = 1..Len(verts)
  BY DEF ShapeOf
<1>2. v0 \in Vertices /\ v1 \in Vertices /\ v2 \in Vertices
  BY <1>1 DEF Corner, Vertices
<1> HIDE DEF v0, v1, v2
<1>3. C \in Seq(Vertices)
  <2>1. VisibleMask \in SUBSET (1..3)
    BY DEF VisibleMask
  <2> QED
    BY <1>2, <2>1, ClippedIs
<1>4. /\ pc = "strips" /\ mask' = VisibleMask
      /\ queued' = IF C = <<>> THEN NoVertex ELSE Last(C)
      /\ verts' = IF 1 \in VisibleMask THEN [verts EXCEPT ![i] = Divided(@)] ELSE verts
      /\ Continue(1, ps)
  BY <1>1 DEF TriangleStep
<1> HIDE DEF C
<1>5. ps \in Seq(Vertices)
  <2>1. AsQueued \in Seq(Vertices) /\ Queued("eol") \in Seq(Vertices)
    BY <1>4, LoopFacts, QueuedIs
  <2>2. C # <<>> => Front(C) \in Seq(Vertices)
    BY <1>3, FrontLastIs
  <2> QED
    BY <2>1, <2>2, BothVertices
<1>6. ps \in Seq(Params) /\ \A n \in 1..Len(ps) : ps[n].kind # "end"
  BY <1>5, VerticesSent
<1> HIDE DEF ps
<1>7. i + 1 <= Len(verts) - 1
  BY <1>1
<1>8. /\ given' = given /\ seen' = seen /\ i' = i + 1 /\ pc' = "strips"
      /\ ~submit'.lost => ~submit.lost /\ Submitted' = Submitted \o ps
  BY <1>4, <1>6, <1>7, ContinueParts
<1>9. Len(verts') = Len(verts) /\ \A n \in (i + 1)..Len(verts) : verts'[n] = verts[n]
  <2> DEFINE d == Divided(verts[i])
  <2>1. verts' = verts \/ verts' = [verts EXCEPT ![i] = d]
    BY <1>4
  <2> HIDE DEF d
  <2>2. \A n \in (i + 1)..Len(verts) : n \in 1..Len(verts) /\ n # i
    BY <1>1
  <2>3. \E S : verts \in Seq(S)
    BY <1>4, LoopFacts
  <2>4. Len(verts') = Len(verts)
    BY <2>1, <2>3
  <2>5. \A n \in (i + 1)..Len(verts) : verts'[n] = verts[n]
    BY <1>1, <2>1, <2>2
  <2> QED
    BY <2>4, <2>5
<1> QED
  BY <1>3, <1>4, <1>8, <1>9 DEF Moved, C, ps, v0, v1, v2

LEMMA TrianglePlace ==
  ASSUME SceneInv, PartsInv, TriangleStep, NEW x, NEW y, NEW z, NEW k, ShapeOf(x, y, z, k),
         Moved(x, y, z, k)
  PROVE  PlaceInv'
<1> DEFINE C == Clipped(VisibleMask, Corner(x, "vertex"), Corner(y, "vertex"), Corner(z, k))
           m == VisibleMask
           j == i + 1
<1>1. /\ given' = given /\ seen' = seen /\ i' = j
      /\ mask' = m /\ Len(verts') = Len(verts)
      /\ \A n \in j..Len(verts) : verts'[n] = verts[n]
      /\ C \in Seq(Vertices)
      /\ queued' = IF C = <<>> THEN NoVertex ELSE Last(C)
  BY DEF Moved
<1>2. /\ verts[j] = Corner(y, "vertex") /\ x \in Nat /\ y \in Nat /\ z \in Nat
      /\ k \in {"vertex", "eol"} /\ given[i].kind = "vertex"
      /\ given[j].p[1] = y /\ given[j].kind = "vertex"
      /\ Len(verts) \in Nat /\ i \in 2..(Len(verts) - 2) /\ Corners(m, x, y, z)
  BY DEF ShapeOf
<1>3. given[j + 1].p[1] = z /\ given[j + 1].kind = k /\ j - 1 = i
  <2>1. j + 1 = i + 2 /\ j - 1 = i
    BY <1>2
  <2> QED
    BY <2>1 DEF ShapeOf
<1>4. m \in SUBSET (1..3) /\ (1 \in m <=> x \in seen) /\ (2 \in m <=> y \in seen)
      /\ (3 \in m <=> z \in seen)
  BY <1>2 DEF Corners
<1>5. m = {} => C = <<>>
  <2>1. BlockOf(m, x, y, z, k)
    BY <1>2, BlockIs
  <2> QED
    BY <2>1 DEF BlockOf
<1>6. m # {} => C # <<>>
  BY <1>4, ClippedSome
<1> HIDE DEF m, C
<1>7. m # {} => queued' # NoVertex
  <2> SUFFICES ASSUME m # {} PROVE queued' # NoVertex
    OBVIOUS
  <2>1. C # <<>> /\ queued' = Last(C)
    BY <1>1, <1>6
  <2>2. Last(C) \in Vertices
    BY <1>1, <2>1, FrontLastIs
  <2> QED
    BY <2>1, <2>2 DEF Vertices, NoVertex
<1>8. m = {} => queued' = NoVertex /\ {y, z} \cap seen = {}
  BY <1>1, <1>4, <1>5
<1>9. \A n \in j..Len(verts) : verts'[n] = given[n]
  <2>1. PlaceInv
    BY DEF PartsInv, TriangleStep
  <2>2. \A n \in j..Len(verts) : n \in i..Len(verts)
    BY <1>2
  <2> QED
    BY <1>1, <2>1, <2>2 DEF PlaceInv
<1>10. j \in j..Len(verts)
  BY <1>2
<1> HIDE DEF j
<1>11. verts'[j].kind = "vertex"
  BY <1>2, <1>9, <1>10
<1>12. \A n \in i'..Len(verts') : verts'[n] = given'[n]
  BY <1>1, <1>9
<1>13. given'[i'].kind = "vertex" /\ IsVertex(given'[i' + 1])
  BY <1>1, <1>2, <1>3 DEF IsVertex
<1>14. mask' = {} => queued' = NoVertex /\ {given'[i'].p[1], given'[i' + 1].p[1]} \cap seen' = {}
  BY <1>1, <1>2, <1>3, <1>8
<1>15. mask' # {} =>
         /\ verts'[i'].kind # "header" /\ given'[i' - 1].kind = "vertex" /\ queued' # NoVertex
         /\ mask' \in SUBSET (1..3)
         /\ 2 \in mask' <=> given'[i'].p[1] \in seen'
         /\ 3 \in mask' <=> given'[i' + 1].p[1] \in seen'
  BY <1>1, <1>2, <1>3, <1>4, <1>7, <1>11
<1>16. /\ (IsHeaderAt(i) <=> verts[i].kind = "header")'
       /\ (IsVertex(given[i + 1]))' = IsVertex(given'[i' + 1])
  BY DEF IsHeaderAt, IsVertex
<1> QED
  BY <1>12, <1>13, <1>14, <1>15, <1>16 DEF PlaceInv

LEMMA WholeIs ==
  ASSUME NEW v0, NEW v1, NEW v2
  PROVE  Clipped({1, 2, 3}, v0, v1, v2) = <<Divided(v0)>>
<1> DEFINE c0 == Divided(v0)
           c1 == Divided(v1)
           c2 == Divided(v2)
           e01 == Edge(v0, v1, "vertex")
           e12 == Edge(v1, v2, "vertex")
           e20 == Edge(v2, v0, "vertex")
           f12 == Edge(v1, v2, v2.kind)
           c == Flagged(c2, "vertex")
           m == {1, 2, 3}
<1>1. Clipped(m, v0, v1, v2) =
        CASE m = {1, 2, 3} -> <<c0>>
          [] m = {} -> <<>>
          [] m = {1} -> <<c0, e01, e20, e20>>
          [] m = {2} -> <<e01, c1, f12>>
          [] m = {3} -> <<e12, e20, c2>>
          [] m = {1, 2} -> <<c0, c1, e20, c1, f12>>
          [] m = {2, 3} -> <<e01, c1, e20, c1, c2>>
          [] m = {1, 3} -> <<c0, e01, c, e12, c>>
  BY DEF Clipped
<1>2. /\ m # {} /\ m # {1} /\ m # {2} /\ m # {3} /\ m # {1, 2} /\ m # {2, 3} /\ m # {1, 3}
      /\ m = {1, 2, 3}
  <2>1. 1 \in m /\ 2 \in m /\ 3 \in m
    OBVIOUS
  <2> QED
    BY <2>1
<1> HIDE DEF c0, c1, c2, e01, e12, e20, f12, c, m
<1>3. Clipped(m, v0, v1, v2) = <<c0>>
  BY <1>1, <1>2
<1> QED
  BY <1>3 DEF m, c0

\* What was submitted, what is queued and what is pending are the strip before the
\* triangle and the triangle.
LEMMA TriangleMade ==
  ASSUME SceneInv, PartsInv, TriangleStep, NEW x, NEW y, NEW z, NEW k, ShapeOf(x, y, z, k),
         Moved(x, y, z, k), VisibleMask # {}, ~submit'.lost
  PROVE  Made' = Base \o Block(VisibleMask, Corner(x, "vertex"), Corner(y, "vertex"), Corner(z, k))
<1> DEFINE v0 == Corner(x, "vertex")
           v1 == Corner(y, "vertex")
           v2 == Corner(z, k)
           m == VisibleMask
           C == Clipped(m, v0, v1, v2)
           B == Block(m, v0, v1, v2)
<1>1. /\ x \in Nat /\ y \in Nat /\ z \in Nat /\ k \in {"vertex", "eol"}
      /\ verts[i + 1] = v1 /\ verts[i + 2] = v2
      /\ Len(verts) \in Nat /\ i \in 2..(Len(verts) - 2)
  BY DEF ShapeOf
<1>2. C # <<>>
  <2>1. m \in SUBSET (1..3)
    BY DEF VisibleMask
  <2> QED
    BY <2>1, ClippedSome
<1>3. /\ C \in Seq(Vertices) /\ queued' = Last(C) /\ mask' = m /\ i' = i + 1
      /\ Submitted' = Submitted \o (AsQueued \o Front(C))
      /\ \A n \in (i + 1)..Len(verts) : verts'[n] = verts[n]
  BY <1>2 DEF Moved
<1>4. v0 \in Vertices /\ v1 \in Vertices /\ v2 \in Vertices
  BY <1>1 DEF Corner, Vertices
<1>5. verts'[i' + 1] = v2 /\ verts'[i'] = v1
  <2>1. i + 1 \in (i + 1)..Len(verts) /\ i + 2 \in (i + 1)..Len(verts) /\ i' + 1 = i + 2
    BY <1>1, <1>3
  <2> QED
    BY <1>1, <1>3, <2>1
<1> HIDE DEF v0, v1, v2, m
<1>6. m = {1, 2, 3} => C = <<Divided(v0)>> /\ B = <<Divided(v0), Divided(v1), Divided(v2)>>
  BY WholeIs DEF Block
<1>7. m # {1, 2, 3} => B = C
  BY DEF Block
<1> HIDE DEF C, B
<1>8. Front(C) \in Seq(Params) /\ <<Last(C)>> \in Seq(Params) /\ Front(C) \o <<Last(C)>> = C
      /\ Last(C) \in Vertices /\ C \in Seq(Params)
  <2>1. Front(C) \in Seq(Vertices) /\ Last(C) \in Vertices /\ Front(C) \o <<Last(C)>> = C
    BY <1>2, <1>3, FrontLastIs
  <2>2. Front(C) \in Seq(Params) /\ C \in Seq(Params)
    BY <1>3, <2>1, VerticesSent
  <2>3. Last(C) \in Params
    BY <2>1 DEF Params
  <2> QED
    BY <2>1, <2>2, <2>3
<1>9. Submitted \in Seq(Params) /\ AsQueued \in Seq(Params)
  <2>1. AsQueued \in Seq(Vertices)
    BY LoopFacts, QueuedIs DEF TriangleStep
  <2> QED
    BY <2>1, SubmittedIs, VerticesSent
<1>10. Base \in Seq(Params)
  BY <1>9, ConcatProperties DEF Base
<1>11. Submitted' = Base \o Front(C)
  <2>1. Submitted \in Seq(Params) /\ AsQueued \in Seq(Params) /\ Front(C) \in Seq(Params)
    BY <1>8, <1>9
  <2>2. Submitted \o (AsQueued \o Front(C)) = (Submitted \o AsQueued) \o Front(C)
    BY <2>1, ConcatAssociative
  <2> QED
    BY <1>3, <2>2 DEF Base
<1>12. AsQueued' = <<Last(C)>>
  <2>1. queued' # NoVertex
    BY <1>3, <1>8 DEF Vertices, NoVertex
  <2> QED
    BY <1>3, <2>1 DEF AsQueued
<1>13. Base' = Base \o C
  <2>1. Base \in Seq(Params) /\ Front(C) \in Seq(Params) /\ <<Last(C)>> \in Seq(Params)
    BY <1>8, <1>10
  <2>2. Base \o (Front(C) \o <<Last(C)>>) = (Base \o Front(C)) \o <<Last(C)>>
    BY <2>1, ConcatAssociative
  <2>3. Base' = Submitted' \o AsQueued'
    BY DEF Base
  <2> QED
    BY <1>8, <1>11, <1>12, <2>2, <2>3
<1>14. Made' = Base' \o Pending'
  BY DEF Made
<1>15. CASE m = {1, 2, 3}
  <2> DEFINE c0 == Divided(v0)
             c1 == Divided(v1)
             c2 == Divided(v2)
  <2>1. Pending' = <<c1, c2>>
    BY <1>3, <1>5, <1>15 DEF Pending
  <2>2. C = <<c0>> /\ B = <<c0, c1, c2>>
    BY <1>6, <1>15
  <2>3. c0 \in Params /\ c1 \in Params /\ c2 \in Params
    BY <1>4, DividedIs DEF Params
  <2> HIDE DEF c0, c1, c2
  <2>4. Base \o <<c0>> \in Seq(Params)
    BY <1>10, <2>3, AppendIs
  <2>5. ChainOf(Base, c0, c1, c2, c2, c2) /\ ChainOf(Base \o <<c0>>, c1, c2, c2, c2, c2)
    BY <1>10, <2>3, <2>4, ChainIs
  <2>6. Base \o <<c0, c1, c2>> = (Base \o <<c0>>) \o <<c1, c2>>
    BY <2>5 DEF ChainOf
  <2> QED
    BY <1>13, <1>14, <2>1, <2>2, <2>6 DEF B, m, v0, v1, v2
<1>16. CASE m # {1, 2, 3}
  <2>1. Pending' = <<>>
    BY <1>3, <1>16 DEF Pending
  <2>2. Base \o C \in Seq(Params)
    BY <1>8, <1>10, ConcatProperties
  <2>3. (Base \o C) \o <<>> = Base \o C
    BY <2>2, ConcatEmptySeq
  <2>4. Made' = Base \o B
    BY <1>7, <1>13, <1>14, <1>16, <2>1, <2>3
  <2> QED
    BY <2>4 DEF B, m, v0, v1, v2
<1> QED
  BY <1>15, <1>16

\* A triangle of which nothing is visible.
LEMMA HiddenParts ==
  ASSUME SceneInv, PartsInv, TriangleStep, NEW x, NEW y, NEW z, NEW k, ShapeOf(x, y, z, k),
         Moved(x, y, z, k), VisibleMask = {}, PlaceInv'
  PROVE  PartsInv'
<1> DEFINE W == Submitted \o Queued("eol")
           C == Clipped(VisibleMask, Corner(x, "vertex"), Corner(y, "vertex"), Corner(z, k))
<1>1. /\ x \in Nat /\ y \in Nat /\ z \in Nat /\ k \in {"vertex", "eol"}
      /\ given[i].p[1] = x
      /\ Len(verts) \in Nat /\ Len(given) = Len(verts) /\ i \in 2..(Len(verts) - 2)
      /\ Corners(VisibleMask, x, y, z) /\ StripStart(given, i) \in 1..i
      /\ TriangleAt(given, i) = Turn(i - StripStart(given, i), <<x, x>>, <<y, y>>, <<z, z>>)
  BY DEF ShapeOf
<1>2. x \notin seen /\ y \notin seen /\ z \notin seen
  BY <1>1 DEF Corners
<1>3. C = <<>>
  <2>1. BlockOf(VisibleMask, x, y, z, k)
    BY <1>1, BlockIs
  <2> QED
    BY <2>1 DEF BlockOf
<1> HIDE DEF C
<1>4. /\ given' = given /\ seen' = seen /\ i' = i + 1 /\ pc' = "strips" /\ mask' = {}
      /\ queued' = NoVertex
      /\ ~submit'.lost => ~submit.lost /\ Submitted' = W
  BY <1>3 DEF Moved, C
<1>5. pc = "strips"
  BY DEF TriangleStep
<1>6. mask # {1, 2, 3}
  <2> SUFFICES ASSUME mask = {1, 2, 3} PROVE FALSE
    OBVIOUS
  <2>1. 2 \in mask /\ mask # {}
    OBVIOUS
  <2>2. PlaceInv
    BY <1>5 DEF PartsInv
  <2> QED
    BY <1>1, <1>2, <2>1, <2>2 DEF PlaceInv
<1>7. ASSUME ~submit'.lost
      PROVE  /\ ~submit.lost /\ Submitted' = W
             /\ \E a, b, flags : Good(W, 0, a, b, flags)
             /\ Triangles(W) = Triangles(Made)
  <2>1. ~submit.lost /\ Submitted' = W
    BY <1>4, <1>7
  <2> QED
    BY <1>5, <1>6, <2>1, QueuedEnds
<1> HIDE DEF W
<1>8. ASSUME NEW l \in Triples(given), l \in i..(i + 1 - 1)
      PROVE Outline(TriangleAt(given, l)) = <<>>
  <2>1. l = i
    BY <1>1, <1>8
  <2> DEFINE g == i - StripStart(given, i)
  <2>2. g \in Nat /\ TriangleAt(given, i) = Turn(g, <<x, x>>, <<y, y>>, <<z, z>>)
    BY <1>1
  <2> HIDE DEF g
  <2>3. OutlineOf(g, x, y, z)
    BY <1>1, <2>2, OutlineTurned
  <2> QED
    BY <1>2, <2>1, <2>2, <2>3 DEF OutlineOf
<1>9. i \in Nat /\ 1 \in Nat
      /\ pc' = IF i + 1 <= Len(verts) - 1 THEN "strips" ELSE "submitted"
  BY <1>1, <1>4
<1> QED
  BY <1>1, <1>4, <1>5, <1>7, <1>8, <1>9, StripEnds

\* A triangle of which something is visible.
LEMMA VisibleParts ==
  ASSUME SceneInv, PartsInv, TriangleStep, NEW x, NEW y, NEW z, NEW k, ShapeOf(x, y, z, k),
         Moved(x, y, z, k), VisibleMask # {}, PlaceInv'
  PROVE  PartsInv'
<1> DEFINE g == i - StripStart(given, i)
           B == Block(VisibleMask, Corner(x, "vertex"), Corner(y, "vertex"), Corner(z, k))
<1>1. /\ x \in Nat /\ y \in Nat /\ z \in Nat /\ k \in {"vertex", "eol"}
      /\ given[i + 1].p[1] = y /\ given[i].kind = "vertex"
      /\ given[i + 2].p[1] = z /\ given[i + 2].kind = k
      /\ Len(verts) \in Nat /\ Len(given) = Len(verts) /\ i \in 2..(Len(verts) - 2)
      /\ Corners(VisibleMask, x, y, z) /\ StripStart(given, i) \in 1..i
      /\ TriangleAt(given, i) = Turn(g, <<x, x>>, <<y, y>>, <<z, z>>)
  BY DEF ShapeOf
<1>2. x \in seen \/ y \in seen \/ z \in seen
  <2>1. VisibleMask \in SUBSET (1..3)
    BY DEF VisibleMask
  <2>2. 1 \in VisibleMask \/ 2 \in VisibleMask \/ 3 \in VisibleMask
    <3>1. PICK e : e \in VisibleMask
      OBVIOUS
    <3> QED
      BY <2>1, <3>1
  <2> QED
    BY <1>1, <2>2 DEF Corners
<1>3. /\ given' = given /\ seen' = seen /\ i' = i + 1 /\ pc' = "strips"
      /\ mask' = VisibleMask
      /\ ~submit'.lost => ~submit.lost
  BY DEF Moved
<1>4. pc = "strips" /\ ~IsHeaderAt(i)
  BY DEF TriangleStep
<1>5. GivenInv'
  <2>1. GivenInv
    BY <1>4 DEF PartsInv
  <2> QED
    BY <1>3, <2>1 DEF GivenInv
<1>6. ASSUME ~submit'.lost PROVE StripsInv'
  <2>1. Made' = Base \o B
    BY <1>6, TriangleMade
  <2>2. Follows3(Made, Base \o B, i, g, x, y, z, k)
    BY <1>2, <1>3, <1>4, <1>6, TriangleFollows, ZenonT(30)
  <2>3. StripStart(given, i + 1) = StripStart(given, i)
    BY <1>1, StripStartNext
  <2>4. g \in Nat /\ (i + 1) - StripStart(given, i + 1) = g + 1
    BY <1>1, <2>3
  <2> HIDE DEF g, B
  <2> DEFINE U == Base \o B
             t == Turn(g, <<x, x>>, <<y, y>>, <<z, z>>)
  <2>5. Follows3(Made, U, i, g, x, y, z, k) /\ Made' = U
    BY <2>1, <2>2
  <2> HIDE DEF U
  <2>6. PICK n \in Nat : \E a, b, flags :
          /\ n >= 2 /\ Good(U, n, a, b, flags) /\ (k = "vertex" => flags = "vertex")
          /\ Joins(a, b, y, z)
          /\ Upright(i) /\ (y \in seen \/ z \in seen) => n % 2 = (g + 1) % 2
          /\ Triangles(Made) \subseteq Triangles(U)
          /\ Outline(t) # <<>> => Filled(Outline(t), Triangles(U), Upright(i))
    BY <2>5 DEF Follows3
  <2>7. PICK a, b, flags :
          /\ n >= 2 /\ Good(U, n, a, b, flags) /\ (k = "vertex" => flags = "vertex")
          /\ Joins(a, b, y, z)
          /\ Upright(i) /\ (y \in seen \/ z \in seen) => n % 2 = (g + 1) % 2
          /\ Triangles(Made) \subseteq Triangles(U)
          /\ Outline(t) # <<>> => Filled(Outline(t), Triangles(U), Upright(i))
    BY <2>6
  <2>8. /\ \A s, l, c, d, f : Good(s, l, c, d, f)' <=> Good(s, l, c, d, f)
        /\ \A D, l : Drawn(D, l)' <=> Drawn(D, l)
        /\ \A c, d, v, w : Joins(c, d, v, w)' <=> Joins(c, d, v, w)
        /\ \A l : Upright(l)' <=> Upright(l)
    BY <1>3, SeenSame
  <2>9. Good(Made, n, a, b, flags)'
    <3>1. Good(Made', n, a, b, flags)
      BY <2>5, <2>7
    <3> QED
      BY <2>8, <3>1
  <2>10. i' + 1 = i + 2 /\ given'[i'].p[1] = y /\ given'[i' + 1].p[1] = z
         /\ given'[i' + 1].kind = k
    <3>1. i' + 1 = i + 2
      BY <1>1, <1>3
    <3> QED
      BY <1>1, <1>3, <3>1
  <2>11. Joint(n, a, b, flags)'
    <3>1. mask' # {}
      BY <1>3
    <3>2. Joins(a, b, given'[i'].p[1], given'[i' + 1].p[1])
      BY <2>7, <2>10
    <3>3. Joins(a, b, given[i].p[1], given[i + 1].p[1])'
      BY <2>8, <3>2
    <3>4. StripStart(given, i)' = StripStart(given', i')
      BY DEF StripStart
    <3>5. i' - StripStart(given', i') = g + 1
      BY <1>3, <2>4
    <3>6. Upright(i)' => Upright(i)
      <4>1. Upright(i') => Upright(i)
        BY <1>1, <1>3, <2>3, UprightBefore
      <4> QED
        BY <2>8, <4>1
    <3>7. Upright(i)' /\ {given'[i'].p[1], given'[i' + 1].p[1]} \cap seen' # {}
            => n % 2 = (g + 1) % 2
      BY <1>3, <2>7, <2>10, <3>6
    <3> QED
      BY <2>7, <2>10, <3>1, <3>3, <3>4, <3>5, <3>7 DEF Joint
  <2>12. ASSUME NEW l \in Triples(given), l < i + 1 PROVE Drawn(Triangles(U), l)
    <3>1. l \in Nat
      BY DEF Triples
    <3>2. CASE l < i
      <4>1. Drawn(Triangles(Made), l)
        BY <1>3, <1>4, <1>6, <3>2 DEF PartsInv, StripsInv
      <4> QED
        BY <2>7, <4>1, DrawnMore
    <3>3. CASE ~(l < i)
      <4>1. l = i
        BY <1>1, <2>12, <3>1, <3>3
      <4>2. TriangleAt(given, l) = t
        BY <1>1, <4>1 DEF g
      <4> HIDE DEF t
      <4> QED
        BY <2>7, <4>1, <4>2 DEF Drawn
    <3> QED
      BY <3>2, <3>3
  <2>13. \A l \in Triples(given') : l < i' => Drawn(Triangles(Made), l)'
    BY <1>3, <2>5, <2>8, <2>12
  <2> QED
    BY <2>9, <2>11, <2>13 DEF StripsInv
<1> QED
  BY <1>3, <1>5, <1>6 DEF PartsInv

LEMMA TriangleParts == ASSUME SceneInv, PartsInv, TriangleStep PROVE PartsInv'
<1>1. pc = "strips" /\ ~IsHeaderAt(i) /\ ~Trailing
  BY DEF TriangleStep
<1>2. PICK x, y, z, k : ShapeOf(x, y, z, k)
  BY <1>1, TriangleShape
<1>3. Moved(x, y, z, k)
  BY <1>2, TriangleMoves
<1>4. PlaceInv'
  BY <1>2, <1>3, TrianglePlace
<1> QED
  BY <1>2, <1>3, <1>4, HiddenParts, VisibleParts

-----------------------------------------------------------------------------
(* The first step.                                                         *)

LEMMA NothingGood ==
  ASSUME NEW a, NEW b, NEW flags
  PROVE  Good(<<>>, 0, a, b, flags) /\ Triangles(<<>>) = {}
<1>1. Len(<<>>) = 0 /\ DOMAIN <<>> = {} /\ <<>> \in Seq(Params)
  OBVIOUS
<1>2. Triples(<<>>) = {}
  BY <1>1 DEF Triples
<1>3. Triangles(<<>>) = {}
  BY <1>2 DEF Triangles
<1>4. Run(<<>>, 0) /\ Clean(<<>>)
  BY <1>1 DEF Run, Clean
<1> QED
  BY <1>1, <1>3, <1>4 DEF Good, Sketch

\* The loop begins at the header of the list.
LEMMA StartParts ==
  ASSUME SceneInv, PartsInv, NEW list \in open, NEW v \in Vectors[list], SubmitStart(v[1], v[2])
  PROVE  PartsInv'
<1>1. pc = "list" /\ open = {list} /\ list \in Lists \ closed
  BY DEF SubmitStart, SceneInv, OpenInv, Drawing
<1> DEFINE s == v[1]
<1>2. Drawable(list, s)
  BY <1>1, GLdcAssumption
<1>3. /\ verts' = s /\ given' = s /\ i' = 1 /\ mask' = {} /\ queued' = NoVertex
      /\ pc' = IF Len(s) < 4 THEN "submitted" ELSE "strips"
      /\ submit' = submit
  BY DEF SubmitStart, listVars
<1> HIDE DEF s
<1>4. /\ Len(s) \in Nat /\ Len(s) >= 4 /\ s[1] = Header(list)
      /\ \A n \in 1..Len(s) :
           s[n] = Header(list) \/ (/\ s[n].kind \in {"vertex", "eol"} /\ s[n].p[1] \in Nat
                                   /\ s[n] = Corner(s[n].p[1], s[n].kind))
      /\ \A n \in 2..(Len(s) - 1) :
           s[n - 1].kind # "vertex" /\ s[n].kind # "header"
             => s[n].kind = "vertex" /\ s[n + 1].kind # "header"
  BY <1>2 DEF Drawable
<1>5. pc' = "strips"
  BY <1>3, <1>4
<1>6. GivenInv'
  <2>1. \A n \in 1..Len(s) :
          s[n].kind = "header" \/ (/\ s[n].kind \in {"vertex", "eol"} /\ s[n].p[1] \in Nat
                                   /\ s[n] = Corner(s[n].p[1], s[n].kind))
    BY <1>4, KindsOf
  <2> QED
    BY <1>3, <1>4, <2>1 DEF GivenInv
<1>7. PlaceInv'
  <2>1. verts'[i'].kind = "header"
    BY <1>3, <1>4, KindsOf
  <2>2. \A n \in i'..Len(verts') : verts'[n] = given'[n]
    BY <1>3
  <2>3. IsHeaderAt(i)'
    BY <2>1 DEF IsHeaderAt
  <2> QED
    BY <1>3, <2>2, <2>3 DEF PlaceInv
<1>8. ASSUME ~submit'.lost PROVE StripsInv'
  <2>1. Submitted' = <<>>
    <3>1. Submitted' = Submitted
      BY <1>3 DEF Submitted
    <3> QED
      BY <1>1, <1>3, <1>8, <3>1 DEF PartsInv
  <2>2. AsQueued' = <<>> /\ Pending' = <<>>
    <3>1. mask' # {1, 2, 3}
      <4>1. 1 \notin mask'
        BY <1>3
      <4> QED
        BY <4>1
    <3> QED
      BY <1>3, <3>1 DEF AsQueued, Pending
  <2>3. Made' = <<>>
    <3>1. <<>> \in Seq(Params) /\ <<>> \o <<>> = <<>>
      BY ConcatEmptySeq
    <3> QED
      BY <2>1, <2>2, <3>1 DEF Made, Base
  <2>4. Good(<<>>, 0, 0, 0, 0)'
    BY NothingGood DEF Good, Sketch, Run, Clean
  <2>5. Good(Made, 0, 0, 0, 0)' /\ Joint(0, 0, 0, 0)'
    BY <1>3, <2>3, <2>4 DEF Joint, Good
  <2>6. \A k \in Triples(given') : ~(k < i')
    BY <1>3 DEF Triples
  <2> QED
    BY <2>5, <2>6 DEF StripsInv
<1> QED
  BY <1>5, <1>6, <1>7, <1>8 DEF PartsInv

-----------------------------------------------------------------------------
(* The other steps, and the theorems.                                      *)

\* Steps that leave the lists and the loop alone, and those outside of the lists.
LEMMA PartsSame ==
  ASSUME PartsInv, UNCHANGED <<pc, submit, clipVars>>
  PROVE  PartsInv'
<1>1. UNCHANGED <<pc, submit, verts, seen, i, mask, queued, given>>
  BY DEF clipVars
<1>2. Submitted' = Submitted
  BY <1>1 DEF Submitted
<1>3. Made' = Made
  BY <1>1, <1>2 DEF Made, Base, AsQueued, Pending
<1>4. /\ \A s, n, a, b, flags : Good(s, n, a, b, flags)' <=> Good(s, n, a, b, flags)
      /\ \A D, k : Drawn(D, k)' <=> Drawn(D, k)
      /\ \A a, b, x, y : Joins(a, b, x, y)' <=> Joins(a, b, x, y)
      /\ \A k : Upright(k)' <=> Upright(k)
  BY <1>1, SeenSame
<1>5. GivenInv' <=> GivenInv
  BY <1>1 DEF GivenInv
<1>6. PlaceInv' <=> PlaceInv
  BY <1>1 DEF PlaceInv, IsHeaderAt
<1>7. ASSUME StripsInv PROVE StripsInv'
  <2>1. PICK n \in Nat : \E a, b, flags : Good(Made, n, a, b, flags) /\ Joint(n, a, b, flags)
    BY <1>7 DEF StripsInv
  <2>2. PICK a, b, flags : Good(Made, n, a, b, flags) /\ Joint(n, a, b, flags)
    BY <2>1
  <2>3. Good(Made', n, a, b, flags)
    BY <1>3, <2>2
  <2>4. Good(Made, n, a, b, flags)'
    BY <1>4, <2>3
  <2>5. Joint(n, a, b, flags)'
    <3>1. StripStart(given, i)' = StripStart(given, i)
      BY <1>1 DEF StripStart
    <3>2. Joins(a, b, given[i].p[1], given[i + 1].p[1])'
            <=> Joins(a, b, given[i].p[1], given[i + 1].p[1])
      <4>1. Joins(a, b, given'[i'].p[1], given'[i' + 1].p[1])
              <=> Joins(a, b, given[i].p[1], given[i + 1].p[1])
        BY <1>1
      <4> QED
        BY <1>4, <4>1
    <3> QED
      BY <1>1, <1>4, <2>2, <3>1, <3>2 DEF Joint
  <2>6. \A k \in Triples(given) : k < i => Drawn(Triangles(Made'), k)
    BY <1>3, <1>7 DEF StripsInv
  <2>7. \A k \in Triples(given') : k < i' => Drawn(Triangles(Made), k)'
    BY <1>1, <1>4, <2>6
  <2> QED
    BY <2>4, <2>5, <2>7 DEF StripsInv
<1>8. ASSUME pc = "submitted", ~submit.lost
      PROVE  /\ \E a, b, flags : Good(Submitted, 0, a, b, flags)'
             /\ \A k \in Triples(given') : Drawn(Triangles(Submitted), k)'
  <2>1. PICK a, b, flags : Good(Submitted', 0, a, b, flags)
    BY <1>2, <1>8 DEF PartsInv
  <2>2. Good(Submitted, 0, a, b, flags)'
    BY <1>4, <2>1
  <2>3. \A k \in Triples(given) : Drawn(Triangles(Submitted'), k)
    BY <1>2, <1>8 DEF PartsInv
  <2>4. \A k \in Triples(given') : Drawn(Triangles(Submitted), k)'
    BY <1>1, <1>4, <2>3
  <2> QED
    BY <2>2, <2>4
<1> QED
  BY <1>1, <1>2, <1>5, <1>6, <1>7, <1>8 DEF PartsInv

LEMMA PartsAway ==
  ASSUME pc' \notin {"list", "strips", "submitted"}
  PROVE  PartsInv'
  BY DEF PartsInv

\* Nothing of a list was submitted when it is begun.
LEMMA BeginParts ==
  ASSUME SceneInv, PartsInv, NEW list \in Lists, ListBegin(list)
  PROVE  PartsInv'
<1>1. pc = "scene" /\ pc' = "list" /\ submit' = submit
  BY DEF ListBegin
<1>2. ASSUME ~submit'.lost PROVE Submitted' = <<>>
  <2> DEFINE s == submit.params
  <2>1. s \in Seq(Params) /\ (s = <<>> \/ Len(s) \in Ends(s))
    BY <1>1, <1>2 DEF SceneInv, TypeOK, SubmitOK, Submission, ListInv
  <2>2. Submitted' = SinceEnd(s)
    BY <1>1 DEF Submitted, SinceEnd
  <2> HIDE DEF s
  <2> QED
    BY <2>1, <2>2, SinceEndEmpty
<1> QED
  BY <1>1, <1>2 DEF PartsInv

LEMMA LibParts == ASSUME SceneInv, PartsInv, LibStep, UNCHANGED clipVars PROVE PartsInv'
<1>1. CASE PvrInit \/ PvrShutdown
  BY <1>1, PartsAway DEF PvrInit, PvrShutdown
<1>2. CASE \E t \in Textures, l \in Lists : LoadTexture(t, l)
  BY <1>2, PartsAway DEF LoadTexture
<1>3. CASE \E l \in Lists : PlainHeader(l)
  BY <1>3, PartsAway DEF PlainHeader
<1>4. CASE \E l \in Lists : ListBegin(l)
  BY <1>4, BeginParts
<1>5. CASE WaitReady \/ SceneFinish \/ Render \/ WaitRender \/ WaitEnds
  BY <1>5, PartsAway DEF WaitReady, SceneFinish, Render, WaitRender, WaitEnds
<1>6. CASE SceneBegin
  BY <1>6, PartsAway DEF SceneBegin
<1>7. CASE Signal
  <2>1. pc' \notin {"list", "strips", "submitted"}
    BY <1>7 DEF Signal, SceneBegin
  <2> QED
    BY <2>1, PartsAway
<1>8. ReadyEnds => SceneBegin
  BY DEF ReadyEnds
<1> QED
  BY <1>1, <1>2, <1>3, <1>4, <1>5, <1>6, <1>7, <1>8 DEF LibStep

LEMMA HardwareParts == ASSUME PartsInv, Hardware, UNCHANGED clipVars PROVE PartsInv'
<1>1. UNCHANGED <<pc, submit>>
  BY DEF Hardware, RenderEnd, Vsync, listVars
<1> QED
  BY <1>1, PartsSame

LEMMA PartsInvInit == Init => PartsInv
  BY DEF Init, SceneInit, PartsInv

LEMMA PartsInvNext == SceneInv /\ PartsInv /\ [Next]_vars => PartsInv'
<1> SUFFICES ASSUME SceneInv, PartsInv, [Next]_vars PROVE PartsInv'
  OBVIOUS
<1>1. CASE Submit
  <2>1. CASE \E list \in open : \E v \in Vectors[list] : SubmitStart(v[1], v[2])
    BY <2>1, StartParts
  <2> QED
    BY <1>1, <2>1, HeaderParts, TrailingParts, TriangleParts DEF Submit
<1>2. CASE ListFinish /\ Forget
  BY <1>2, PartsAway DEF ListFinish
<1>3. CASE (LibStep \/ Hardware) /\ UNCHANGED clipVars
  BY <1>3, LibParts, HardwareParts
<1>4. CASE UNCHANGED vars
  BY <1>4, PartsSame DEF vars, sceneVars, listVars
<1> QED
  BY <1>1, <1>2, <1>3, <1>4 DEF Next

\* What was submitted, with the vertex that is queued and the two that would follow if
\* the strip ended here, always holds what is to be seen of the triangles the loop has
\* passed, and nothing else but triangles in the near plane.
THEOREM PartsInvHolds == Spec => []PartsInv
<1>1. Init => PartsInv
  BY PartsInvInit
<1>2. SceneInv /\ PartsInv /\ [Next]_vars => PartsInv'
  BY PartsInvNext
<1> QED
  BY <1>1, <1>2, SceneInvHolds, PTL DEF Spec

\* PartsDrawn, for strips of any length and number, and any of their corners before the
\* near plane: SceneListSubmit draws what is to be seen of every triangle, turned only
\* where its strip came into sight with the last corner of a triangle, and nothing else
\* but triangles in the near plane; it divides every vertex once and ends every strip.
THEOREM PartsDrawnHolds == Spec => []PartsDrawn
  BY PartsDrawnIs, SceneInvHolds, PartsInvHolds, PTL
=============================================================================
