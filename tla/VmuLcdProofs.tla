---------------------------- MODULE VmuLcdProofs ----------------------------
(* Proofs about VmuLcd: nobody has a display that was freed, and a frame    *)
(* that is counted was shown.                                               *)
EXTENDS VmuLcd, FiniteSetTheorems, SequenceTheorems, TLAPS

-----------------------------------------------------------------------------
(* Types.                                                                  *)

Lcds == [state : {"none", "live", "freed"}, minor : Minors, ref : Nat, connected : BOOLEAN]
Progs == [pc : {"rest", "next", "counted", "write", "draw", "close"}, fd : Vmus \cup {0},
          flip : BOOLEAN, n : {0, 1}, turned : BOOLEAN, attempts : Nat, stop : BOOLEAN]

LcdOK ==
  /\ mdev \in [Vmus -> {"none", "here", "gone"}]
  /\ lcd \in [Vmus -> Lcds]
  /\ table \in [Minors -> Vmus \cup {0}]
  /\ ida \in SUBSET Minors /\ nodes \in SUBSET Minors
  /\ core \in [pc : {"rest", "register", "lock", "cancel"}, k : Vmus \cup {0}]
ThreadsOK ==
  /\ queue \in Seq(Vmus)
  /\ worker \in [pc : {"rest", "lock", "draw"}, k : Vmus \cup {0}]
  /\ prog \in [Users -> Progs]
DrawOK ==
  /\ lock \in [Vmus -> Threads \cup {"free"}]
  /\ draw \in [Threads -> {"no", "begin", "sent", "painted", "early", "unanswered"}]
  /\ DOMAIN shown = Vmus /\ late \in [Vmus -> BOOLEAN]
TypeOK == LcdOK /\ ThreadsOK /\ DrawOK

-----------------------------------------------------------------------------
(* The invariant: who has a reference, or need not have one because the     *)
(* core has not given its own back.                                         *)

Holding(k) == Live(k) /\ mdev[k] = "here"
Holders(k) == {u \in Users : prog[u].fd = k}

RefInv ==
  \A k \in Vmus :
    /\ IsFiniteSet(Holders(k))
    /\ lcd[k].ref = Cardinality(Holders(k)) + (IF Holding(k) THEN 1 ELSE 0)
    /\ Live(k) <=> lcd[k].ref # 0
    /\ mdev[k] = "none" => lcd[k] = NoLcd
    /\ lcd[k].connected => Holding(k)
CoreInv ==
  /\ core.pc # "rest" => core.k \in Vmus /\ Holding(core.k)
  /\ core.pc \in {"lock", "cancel"} => \A m \in Minors : table[m] # core.k
  /\ core.pc = "cancel" => ~lcd[core.k].connected
TableInv ==
  /\ \A m \in Minors : table[m] # 0 => Holding(table[m]) /\ lcd[table[m]].minor = m
  /\ \A k \in Vmus :
       Holding(k) /\ (core.pc = "rest" \/ core.k # k) => table[lcd[k].minor] = k
MinorInv ==
  /\ \A k \in Vmus : Live(k) => lcd[k].minor \in ida
  /\ \A j, k \in Vmus : Live(j) /\ Live(k) /\ lcd[j].minor = lcd[k].minor => j = k
  /\ \A m \in nodes : \E k \in Vmus : Holding(k) /\ lcd[k].minor = m
WorkInv ==
  /\ \A n \in DOMAIN queue :
       /\ Holding(queue[n]) /\ (core.pc = "register" => core.k # queue[n])
       /\ \A l \in DOMAIN queue : queue[l] = queue[n] => l = n
  /\ IF worker.pc = "rest" THEN worker.k = 0 ELSE worker.k \in Vmus /\ Holding(worker.k)
FdInv == \A u \in Users : prog[u].pc = "rest" <=> prog[u].fd = 0

LifeInv == RefInv /\ CoreInv /\ TableInv /\ MinorInv /\ WorkInv /\ FdInv

\* Whose the lock is, and what it keeps in place.
Drawing(a) ==
  draw[a] # "no" =>
    /\ lock[Display(a)] = a /\ lcd[Display(a)].connected
    /\ draw[a] # "begin" => ~late[Display(a)]
    /\ draw[a] = "painted" => shown[Display(a)] = Picture(a)
PcInv ==
  /\ draw["worker"] # "no" <=> worker.pc = "draw"
  /\ \A u \in Users : /\ draw[u] # "no" <=> prog[u].pc = "draw"
                      /\ prog[u].pc \in {"write", "draw"} => prog[u].turned = prog[u].flip

DrawInv == PcInv /\ \A a \in Threads : Drawing(a)

\* The inductive invariant.
LcdInv == TypeOK /\ LifeInv /\ DrawInv

-----------------------------------------------------------------------------
(* References.                                                             *)

LEMMA VmusNat == Vmus \subseteq Nat \ {0} /\ 0 \notin Vmus
  BY LcdAssumption DEF Vmus

\* What a reference given back does.
LEMMA PutIs ==
  ASSUME TypeOK, NEW k \in Vmus, lcd[k].ref # 0, Live(k), Put(k)
  PROVE  /\ lcd' \in [Vmus -> Lcds] /\ ida' \in SUBSET Minors
         /\ \A j \in Vmus \ {k} : lcd'[j] = lcd[j]
         /\ lcd'[k].ref = lcd[k].ref - 1 /\ lcd'[k].ref \in Nat
         /\ lcd'[k].minor = lcd[k].minor /\ lcd'[k].connected = lcd[k].connected
         /\ lcd'[k].state = "live" <=> lcd'[k].ref # 0
         /\ ida' = IF lcd[k].ref = 1 THEN ida \ {lcd[k].minor} ELSE ida
<1>1. lcd \in [Vmus -> Lcds] /\ ida \in SUBSET Minors /\ lcd[k] \in Lcds /\ lcd[k].ref \in Nat
  BY DEF TypeOK, LcdOK, Lcds
<1>2. CASE lcd[k].ref = 1
  <2> DEFINE r == [[lcd[k] EXCEPT !.ref = 0] EXCEPT !.state = "freed"]
  <2>1. lcd' = [lcd EXCEPT ![k] = r] /\ ida' = ida \ {lcd[k].minor}
    BY <1>1, <1>2 DEF Put
  <2>2. /\ r \in Lcds /\ r.ref = 0 /\ r.state = "freed" /\ r.minor = lcd[k].minor
        /\ r.connected = lcd[k].connected
    BY <1>1 DEF Lcds
  <2> HIDE DEF r
  <2> QED
    BY <1>1, <1>2, <2>1, <2>2
<1>3. CASE lcd[k].ref # 1
  <2> DEFINE r == [lcd[k] EXCEPT !.ref = lcd[k].ref - 1]
  <2>1. lcd' = [lcd EXCEPT ![k] = r] /\ ida' = ida
    BY <1>1, <1>3 DEF Put
  <2>2. lcd[k].ref - 1 \in Nat /\ lcd[k].ref - 1 # 0
    BY <1>1, <1>3
  <2>3. /\ r \in Lcds /\ r.ref = lcd[k].ref - 1 /\ r.state = "live" /\ r.minor = lcd[k].minor
        /\ r.connected = lcd[k].connected
    BY <1>1, <2>2 DEF Lcds, Live
  <2> HIDE DEF r
  <2> QED
    BY <1>1, <1>3, <2>1, <2>2, <2>3
<1> QED
  BY <1>2, <1>3

\* A program that has a display open keeps it alive.
LEMMA OpenIsLive ==
  ASSUME TypeOK, RefInv, FdInv, NEW u \in Users, prog[u].pc # "rest"
  PROVE  prog[u].fd \in Vmus /\ Live(prog[u].fd) /\ lcd[prog[u].fd].ref # 0
<1> DEFINE k == prog[u].fd
<1>1. k \in Vmus
  <2>1. prog[u] \in Progs
    BY DEF TypeOK, ThreadsOK
  <2> QED
    BY <2>1 DEF Progs, FdInv
<1>2. u \in Holders(k)
  BY DEF Holders
<1>3. IsFiniteSet(Holders(k)) /\ lcd[k].ref = Cardinality(Holders(k)) + (IF Holding(k) THEN 1 ELSE 0)
  BY <1>1 DEF RefInv
<1>4. Cardinality(Holders(k)) \in Nat /\ Cardinality(Holders(k)) # 0
  BY <1>2, <1>3, FS_CardinalityType, FS_EmptySet
<1> HIDE DEF k
<1>5. lcd[k].ref # 0
  BY <1>3, <1>4
<1> QED
  BY <1>1, <1>5 DEF RefInv, k

\* Where nobody has opened, given back or lost anything, nothing changes.
LEMMA LifeSame ==
  ASSUME LifeInv, UNCHANGED coreVars, WorkInv',
         \A u \in Users : /\ prog'[u].fd = prog[u].fd
                          /\ prog'[u].pc = "rest" <=> prog[u].pc = "rest"
  PROVE  LifeInv'
<1>1. \A k \in Vmus : Holders(k)' = Holders(k) /\ (Holding(k)' <=> Holding(k)) /\ (Live(k)' <=> Live(k))
  BY DEF Holders, Holding, Live, coreVars
<1>2. RefInv'
  BY <1>1 DEF LifeInv, RefInv, coreVars, Vmus, Holding, Live
<1>3. CoreInv'
  BY DEF LifeInv, CoreInv, coreVars, Holding, Live, Vmus, Minors
<1>4. TableInv'
  BY DEF LifeInv, TableInv, coreVars, Holding, Live, Vmus, Minors
<1>5. MinorInv'
  BY DEF LifeInv, MinorInv, coreVars, Holding, Live, Vmus, Minors
<1>6. FdInv'
  BY DEF LifeInv, FdInv
<1> QED
  BY <1>2, <1>3, <1>4, <1>5, <1>6 DEF LifeInv

\* The queue without a work that is in it once.
LEMMA WithoutIs ==
  ASSUME NEW q \in Seq(Vmus), NEW k
  PROVE  /\ Without(q, k) \in Seq(Vmus)
         /\ (\A n, l \in DOMAIN q : q[n] = q[l] => n = l) =>
              \A n \in DOMAIN Without(q, k) :
                /\ Without(q, k)[n] # k
                /\ \E l \in DOMAIN q : Without(q, k)[n] = q[l]
                /\ \A l \in DOMAIN Without(q, k) : Without(q, k)[l] = Without(q, k)[n] => l = n
<1> DEFINE pending == {n \in DOMAIN q : q[n] = k}
<1>1. CASE pending = {}
  BY <1>1 DEF Without
<1>2. CASE pending # {}
  <2> DEFINE c == CHOOSE n \in pending : TRUE
             w == RemoveAt(q, c)
             at(n) == IF n < c THEN n ELSE n + 1
  <2>1. c \in pending /\ Without(q, k) = w
    BY <1>2 DEF Without
  <2>2. c \in DOMAIN q /\ q[c] = k
    BY <2>1
  <2> HIDE DEF c
  <2>3. c \in 1..Len(q) /\ Len(q) \in Nat /\ DOMAIN q = 1..Len(q) /\ \A n \in 1..Len(q) : q[n] \in Vmus
    BY <2>2
  <2> DEFINE u == SubSeq(q, 1, c - 1)
             v == SubSeq(q, c + 1, Len(q))
  <2>4. u \in Seq(Vmus) /\ Len(u) = c - 1 /\ \A n \in 1..(c - 1) : u[n] = q[n]
    BY <2>3, SubSeqProperties
  <2>5. /\ v \in Seq(Vmus) /\ Len(v) = Len(q) - c
        /\ \A n \in 1..(Len(q) - c) : v[n] = q[c + n]
    <3>1. /\ v \in Seq(Vmus)
          /\ Len(v) = IF c + 1 <= Len(q) THEN Len(q) - (c + 1) + 1 ELSE 0
          /\ \A n \in 1..(Len(q) - (c + 1) + 1) : v[n] = q[c + 1 + n - 1]
      BY <2>3, SubSeqProperties
    <3> HIDE DEF v
    <3>2. Len(v) = Len(q) - c
      <4>1. c \in Int /\ Len(q) \in Int /\ c <= Len(q)
        BY <2>3
      <4>2. CASE c + 1 <= Len(q)
        <5>1. Len(v) = Len(q) - (c + 1) + 1
          BY <3>1, <4>2
        <5> QED
          BY <4>1, <5>1
      <4>3. CASE ~(c + 1 <= Len(q))
        <5>1. Len(v) = 0
          BY <3>1, <4>3
        <5> QED
          BY <4>1, <4>3, <5>1
      <4> QED
        BY <4>2, <4>3
    <3>3. ASSUME NEW n \in 1..(Len(q) - c) PROVE v[n] = q[c + n]
      <4>1. n \in 1..(Len(q) - (c + 1) + 1) /\ c + 1 + n - 1 = c + n
        BY <2>3
      <4> QED
        BY <3>1, <4>1
    <3> QED
      BY <3>1, <3>2, <3>3
  <2>6. w = u \o v
    BY DEF RemoveAt
  <2> HIDE DEF u, v, w
  <2>7. /\ w \in Seq(Vmus) /\ Len(w) = Len(u) + Len(v)
        /\ \A n \in 1..(Len(u) + Len(v)) : w[n] = IF n <= Len(u) THEN u[n] ELSE v[n - Len(u)]
    BY <2>4, <2>5, <2>6, ConcatProperties
  <2>8. DOMAIN w = 1..(Len(q) - 1) /\ Len(u) + Len(v) = Len(q) - 1 /\ Len(u) = c - 1
    BY <2>3, <2>4, <2>5, <2>7
  <2>9. ASSUME NEW n \in DOMAIN w PROVE n \in Nat /\ at(n) \in DOMAIN q /\ at(n) # c /\ w[n] = q[at(n)]
    <3>1. CASE n < c
      <4>1. n \in 1..(Len(q) - 1) /\ n \in 1..(c - 1) /\ n <= Len(u) /\ n \in 1..Len(q) /\ n # c
        BY <2>3, <2>8, <3>1
      <4>2. w[n] = q[n]
        BY <2>4, <2>7, <2>8, <4>1
      <4> QED
        BY <2>3, <3>1, <4>1, <4>2
    <3>2. CASE ~(n < c)
      <4>1. n - Len(u) \in 1..(Len(q) - c) /\ c + (n - Len(u)) = n + 1 /\ ~(n <= Len(u))
        BY <2>3, <2>8, <3>2
      <4>2. w[n] = q[n + 1]
        BY <2>5, <2>7, <2>8, <4>1
      <4> QED
        BY <2>3, <2>8, <3>2, <4>2
    <3> QED
      BY <3>1, <3>2
  <2>10. \A n, l \in DOMAIN w : at(n) = at(l) => n = l
    BY <2>3, <2>9
  <2> HIDE DEF at
  <2> QED
    BY <2>1, <2>2, <2>7, <2>9, <2>10
<1> QED
  BY <1>1, <1>2

-----------------------------------------------------------------------------
(* Types, action by action.                                                *)

\* What a thread that draws has at hand.
LEMMA DisplayIs ==
  ASSUME LcdInv, NEW a \in Threads, draw[a] # "no"
  PROVE  Display(a) \in Vmus /\ Live(Display(a))
<1>1. CASE a = "worker"
  BY <1>1 DEF LcdInv, DrawInv, PcInv, LifeInv, WorkInv, Display, Holding
<1>2. CASE a # "worker"
  <2>1. a \in Users /\ prog[a].pc = "draw"
    BY <1>2 DEF Threads, LcdInv, DrawInv, PcInv
  <2>2. prog[a].fd \in Vmus /\ Live(prog[a].fd)
    BY <2>1, OpenIsLive DEF LcdInv, LifeInv
  <2> QED
    BY <1>2, <2>2 DEF Display
<1> QED
  BY <1>1, <1>2

LEMMA TypeCore ==
  ASSUME LcdInv, Core
  PROVE  TypeOK'
<1> USE DEF TypeOK
<1>1. /\ core.pc # "rest" => core.k \in Vmus /\ Live(core.k)
      /\ LcdOK /\ ThreadsOK /\ DrawOK
  BY DEF LcdInv, LifeInv, CoreInv, Holding
<1>2. ASSUME Registered PROVE TypeOK'
  <2>1. core.k \in Vmus
    BY <1>1, <1>2 DEF Registered
  <2>2. table' \in [Minors -> Vmus \cup {0}] /\ core' = [pc |-> "rest", k |-> 0]
    BY <1>1, <1>2, <2>1 DEF Registered, LcdOK
  <2>3. queue' \in Seq(Vmus)
    BY <1>1, <1>2, <2>1 DEF Registered, ThreadsOK
  <2> QED
    BY <1>1, <1>2, <2>2, <2>3 DEF Registered, LcdOK, ThreadsOK, DrawOK
<1>3. ASSUME Disconnect PROVE TypeOK'
  <2>1. core.k \in Vmus /\ lcd[core.k] \in Lcds
    BY <1>1, <1>3 DEF Disconnect, LcdOK
  <2>2. [lcd[core.k] EXCEPT !.connected = FALSE] \in Lcds
    BY <2>1 DEF Lcds
  <2>3. /\ lcd' \in [Vmus -> Lcds]
        /\ core' \in [pc : {"rest", "register", "lock", "cancel"}, k : Vmus \cup {0}]
    BY <1>1, <1>3, <2>2 DEF Disconnect, LcdOK
  <2> QED
    BY <1>1, <1>3, <2>3 DEF Disconnect, LcdOK, ThreadsOK, DrawOK
<1>4. ASSUME Unregistered PROVE TypeOK'
  <2>1. core.k \in Vmus /\ Live(core.k) /\ Put(core.k)
    BY <1>1, <1>4 DEF Unregistered
  <2>2. lcd[core.k].ref # 0
    BY <2>1 DEF LcdInv, LifeInv, RefInv
  <2>3. lcd' \in [Vmus -> Lcds] /\ ida' \in SUBSET Minors
    BY <2>1, <2>2, PutIs DEF LcdInv
  <2>4. queue' \in Seq(Vmus)
    BY <1>1, <1>4, WithoutIs DEF Unregistered, ThreadsOK
  <2>5. LcdOK'
    BY <1>1, <1>4, <2>3 DEF Unregistered, LcdOK
  <2>6. ThreadsOK' /\ DrawOK'
    BY <1>1, <1>4, <2>4 DEF Unregistered, ThreadsOK, DrawOK
  <2> QED
    BY <2>5, <2>6
<1> QED
  BY <1>2, <1>3, <1>4 DEF Core

LEMMA TypePlug ==
  ASSUME LcdInv, NEW k \in Vmus, Register(k) \/ Unregister(k) \/ Lands(k)
  PROVE  TypeOK'
<1> USE DEF TypeOK
<1>0. LcdOK /\ ThreadsOK /\ DrawOK
  BY DEF LcdInv
<1>1. ASSUME Register(k) PROVE TypeOK'
  <2>1. mdev' \in [Vmus -> {"none", "here", "gone"}]
    BY <1>0, <1>1 DEF Register, LcdOK
  <2>2. CASE UNCHANGED <<lcd, ida, nodes, core>>
    BY <1>0, <1>1, <2>1, <2>2 DEF Register, LcdOK, ThreadsOK, DrawOK
  <2>3. ASSUME NEW m \in Minors,
               lcd' = [lcd EXCEPT ![k] = [state |-> "live", minor |-> m, ref |-> 1,
                                          connected |-> TRUE]],
               ida' = ida \cup {m}, nodes' = nodes \cup {m},
               core' = [pc |-> "register", k |-> k]
        PROVE  TypeOK'
    <3>1. lcd' \in [Vmus -> Lcds]
      BY <1>0, <2>3 DEF LcdOK, Lcds
    <3>2. LcdOK'
      BY <1>0, <1>1, <2>1, <2>3, <3>1 DEF LcdOK, Register
    <3> QED
      BY <1>0, <1>1, <3>2 DEF Register, ThreadsOK, DrawOK
  <2> QED
    BY <1>1, <2>2, <2>3 DEF Register
<1>2. ASSUME Unregister(k) PROVE TypeOK'
  <2>1. UNCHANGED <<lcd, ida, nodes, lock, queue, worker, prog, draw, shown, late>>
    BY <1>2 DEF Unregister
  <2>2. /\ mdev' \in [Vmus -> {"none", "here", "gone"}]
        /\ table' \in [Minors -> Vmus \cup {0}]
        /\ core' \in [pc : {"rest", "register", "lock", "cancel"}, k : Vmus \cup {0}]
    BY <1>0, <1>2 DEF Unregister, LcdOK
  <2> QED
    BY <1>0, <2>1, <2>2 DEF LcdOK, ThreadsOK, DrawOK
<1>3. ASSUME Lands(k) PROVE TypeOK'
  BY <1>0, <1>3 DEF Lands, coreVars, LcdOK, ThreadsOK, DrawOK
<1> QED
  BY <1>1, <1>2, <1>3

LEMMA TypeDraw ==
  ASSUME LcdInv, NEW a \in Threads,
         \/ Send(a) \/ Painted(a) \/ Early(a) \/ Unanswered(a)
         \/ /\ Returns(a) /\ UNCHANGED coreVars /\ UNCHANGED queue
            /\ ThreadsOK'
  PROVE  TypeOK'
<1> USE DEF TypeOK
<1>0. LcdOK /\ ThreadsOK /\ DrawOK
  BY DEF LcdInv
<1>1. CASE Send(a)
  BY <1>0, <1>1 DEF Send, coreVars, LcdOK, ThreadsOK, DrawOK
<1>2. CASE Painted(a)
  BY <1>0, <1>2 DEF Painted, coreVars, LcdOK, ThreadsOK, DrawOK
<1>3. CASE Unanswered(a)
  BY <1>0, <1>3 DEF Unanswered, Queued, coreVars, LcdOK, ThreadsOK, DrawOK
<1>4. CASE Returns(a) /\ UNCHANGED coreVars /\ UNCHANGED queue /\ ThreadsOK'
  <2>1. LcdOK'
    BY <1>0, <1>4 DEF coreVars, LcdOK
  <2>2. DrawOK'
    BY <1>0, <1>4 DEF Returns, DrawOK
  <2> QED
    BY <1>4, <2>1, <2>2
<1>5. CASE Early(a)
  BY <1>0, <1>5 DEF Early, coreVars, LcdOK, ThreadsOK, DrawOK
<1> QED
  BY <1>1, <1>2, <1>3, <1>4, <1>5

LEMMA TypeWorker ==
  ASSUME LcdInv, Worker
  PROVE  TypeOK'
<1> USE DEF TypeOK
<1>0. LcdOK /\ ThreadsOK /\ DrawOK /\ "worker" \in Threads
  BY DEF LcdInv, Threads
<1>1. ASSUME SplashStarts PROVE TypeOK'
  <2>1. queue \in Seq(Vmus) /\ queue # <<>>
    BY <1>0, <1>1 DEF SplashStarts, ThreadsOK
  <2>2. Head(queue) \in Vmus /\ Tail(queue) \in Seq(Vmus)
    BY <2>1
  <2>3. UNCHANGED <<coreVars, lock, prog, draw, shown, late>>
    BY <1>1 DEF SplashStarts
  <2>4. ThreadsOK'
    BY <1>0, <1>1, <2>2 DEF SplashStarts, ThreadsOK
  <2> QED
    BY <1>0, <2>3, <2>4 DEF coreVars, LcdOK, DrawOK
<1>2. ASSUME SplashLocks PROVE TypeOK'
  <2>1. UNCHANGED <<coreVars, queue, prog, shown, late>>
    BY <1>2 DEF SplashLocks
  <2>2. worker' \in [pc : {"rest", "lock", "draw"}, k : Vmus \cup {0}]
    BY <1>0, <1>2 DEF SplashLocks, ThreadsOK
  <2>3. /\ lock' \in [Vmus -> Threads \cup {"free"}]
        /\ draw' \in [Threads -> {"no", "begin", "sent", "painted", "early", "unanswered"}]
    BY <1>0, <1>2 DEF SplashLocks, DrawOK
  <2> QED
    BY <1>0, <2>1, <2>2, <2>3 DEF coreVars, LcdOK, ThreadsOK, DrawOK
<1>3. ASSUME SplashEnds PROVE TypeOK'
  <2>1. ThreadsOK'
    BY <1>0, <1>3 DEF SplashEnds, ThreadsOK
  <2> QED
    BY <1>0, <1>3, <2>1, TypeDraw DEF SplashEnds
<1>4. ASSUME Send("worker") PROVE TypeOK'
  BY <1>0, <1>4, TypeDraw
<1> QED
  BY <1>1, <1>2, <1>3, <1>4 DEF Worker

\* What a program's record becomes.
LEMMA ProgIs ==
  ASSUME NEW p \in Progs
  PROVE  /\ Ending(p) \in Progs /\ Ending(p).pc = "close" /\ Ending(p).fd = p.fd
         /\ \A result : /\ AfterWrite(p, result) \in Progs
                        /\ AfterWrite(p, result).fd = p.fd
                        /\ AfterWrite(p, result).pc \in {"counted", "write", "next", "close"}
                        /\ AfterWrite(p, result).pc = "counted" => result = "ok"
                        /\ AfterWrite(p, result).turned = p.turned
                        /\ AfterWrite(p, result).flip = p.flip
<1>1. Ending(p) \in Progs /\ Ending(p).pc = "close" /\ Ending(p).fd = p.fd
      /\ Ending(p).turned = p.turned /\ Ending(p).flip = p.flip
  BY DEF Ending, Progs
<1>2. /\ Again(p) \in Progs /\ Again(p).pc = "write" /\ Again(p).fd = p.fd
      /\ Again(p).turned = p.turned /\ Again(p).flip = p.flip
  <2>1. p.attempts + 1 \in Nat
    BY DEF Progs
  <2> QED
    BY <2>1 DEF Again, Progs
<1>3. \A c \in {"counted", "write", "next"} :
        LET q == [p EXCEPT !.pc = c]
        IN  q \in Progs /\ q.pc = c /\ q.fd = p.fd /\ q.turned = p.turned /\ q.flip = p.flip
  BY DEF Progs
<1> HIDE DEF Ending, Again
<1>4. ASSUME NEW result
      PROVE  LET q == AfterWrite(p, result)
             IN  \/ q = [p EXCEPT !.pc = "counted"] /\ result = "ok"
                 \/ q = [p EXCEPT !.pc = "write"] \/ q = [p EXCEPT !.pc = "next"]
                 \/ q = Again(p) \/ q = Ending(p)
  BY DEF AfterWrite
<1>5. ASSUME NEW result
      PROVE  LET q == AfterWrite(p, result)
             IN  /\ q \in Progs /\ q.fd = p.fd /\ q.turned = p.turned /\ q.flip = p.flip
                 /\ q.pc \in {"counted", "write", "next", "close"}
                 /\ q.pc = "counted" => result = "ok"
  BY <1>1, <1>2, <1>3, <1>4
<1> QED
  BY <1>1, <1>5

\* The last action of a program's that changes nothing but its record.
LEMMA TypeProg ==
  ASSUME LcdInv, NEW u \in Users,
         \/ NextFrame(u) \/ OnSignal(u) \/ Write(u) \/ Send(u) \/ WriteReturns(u) \/ Close(u)
         \/ \E m \in Minors, flip \in Flips : Open(u, m, flip)
  PROVE  TypeOK'
<1> USE DEF TypeOK
<1>0. /\ LcdOK /\ ThreadsOK /\ DrawOK /\ u \in Threads
      /\ prog[u] \in Progs /\ prog \in [Users -> Progs]
      /\ RefInv /\ FdInv /\ TableInv
  BY DEF LcdInv, LifeInv, ThreadsOK, Threads
<1>1. ASSUME NextFrame(u) PROVE TypeOK'
  <2>1. [prog[u] EXCEPT !.pc = "write", !.n = 1 - @, !.turned = prog[u].flip, !.attempts = 0] \in Progs
    <3>1. prog[u].n \in {0, 1} /\ prog[u].flip \in BOOLEAN
      BY <1>0 DEF Progs
    <3>2. 1 - prog[u].n \in {0, 1} /\ 0 \in Nat
      BY <3>1
    <3> HIDE DEF TypeOK
    <3> QED
      BY <1>0, <3>1, <3>2 DEF Progs
  <2>2. ThreadsOK'
    BY <1>0, <1>1, <2>1 DEF NextFrame, ThreadsOK
  <2> QED
    BY <1>0, <1>1, <2>2 DEF NextFrame, coreVars, LcdOK, DrawOK
<1>2. ASSUME OnSignal(u) PROVE TypeOK'
  <2>1. [prog[u] EXCEPT !.stop = TRUE] \in Progs
    BY <1>0 DEF Progs
  <2>2. ThreadsOK'
    BY <1>0, <1>2, <2>1 DEF OnSignal, ThreadsOK
  <2> QED
    BY <1>0, <1>2, <2>2 DEF OnSignal, coreVars, LcdOK, DrawOK
<1>3. ASSUME Write(u) PROVE TypeOK'
  <2>1. [prog[u] EXCEPT !.pc = "draw"] \in Progs /\ Ending(prog[u]) \in Progs
    BY <1>0, ProgIs DEF Progs
  <2>2. \/ /\ prog' = [prog EXCEPT ![u] = [prog[u] EXCEPT !.pc = "draw"]]
           /\ lock' = [lock EXCEPT ![prog[u].fd] = u]
           /\ draw' = [draw EXCEPT ![u] = "begin"]
        \/ prog' = [prog EXCEPT ![u] = Ending(prog[u])] /\ UNCHANGED <<lock, draw>>
    BY <1>0, <1>3 DEF Write
  <2>3. prog' \in [Users -> Progs]
    BY <1>0, <2>1, <2>2
  <2>4. DrawOK'
    BY <1>0, <1>3, <2>2 DEF Write, DrawOK
  <2> QED
    BY <1>0, <1>3, <2>3, <2>4 DEF Write, coreVars, LcdOK, ThreadsOK
<1>4. ASSUME Send(u) PROVE TypeOK'
  BY <1>0, <1>4, TypeDraw
<1>5. ASSUME WriteReturns(u) PROVE TypeOK'
  <2>1. \E result : prog' = [prog EXCEPT ![u] = AfterWrite(prog[u], result)]
                    \/ prog' = [prog EXCEPT ![u] = Ending(prog[u])]
    BY <1>0, <1>5 DEF WriteReturns
  <2>2. prog' \in [Users -> Progs]
    BY <1>0, <2>1, ProgIs
  <2>3. Returns(u) /\ UNCHANGED <<coreVars, queue, worker>>
    BY <1>5 DEF WriteReturns
  <2>4. ThreadsOK'
    BY <1>0, <2>2, <2>3 DEF ThreadsOK
  <2> QED
    BY <1>0, <2>3, <2>4, TypeDraw
<1>6. ASSUME Close(u) PROVE TypeOK'
  <2>1. prog[u].fd \in Vmus /\ Live(prog[u].fd) /\ lcd[prog[u].fd].ref # 0
    BY <1>0, <1>6, OpenIsLive DEF Close, Between
  <2>2. lcd' \in [Vmus -> Lcds] /\ ida' \in SUBSET Minors
    BY <1>0, <1>6, <2>1, PutIs DEF Close
  <2>3. NoProg \in Progs
    BY DEF NoProg, Progs
  <2>4. prog' \in [Users -> Progs]
    BY <1>0, <1>6, <2>3 DEF Close
  <2> QED
    BY <1>0, <1>6, <2>2, <2>4 DEF Close, LcdOK, ThreadsOK, DrawOK
<1>7. ASSUME NEW m \in Minors, NEW flip \in Flips, Open(u, m, flip) PROVE TypeOK'
  <2>1. table[m] \in Vmus /\ lcd[table[m]] \in Lcds /\ flip \in BOOLEAN
    BY <1>0, <1>7, LcdAssumption DEF Open, LcdOK
  <2>2. [lcd[table[m]] EXCEPT !.ref = @ + 1] \in Lcds
    BY <2>1 DEF Lcds
  <2>3. [NoProg EXCEPT !.pc = "next", !.fd = table[m], !.flip = flip] \in Progs
    BY <2>1 DEF NoProg, Progs
  <2>4. prog' \in [Users -> Progs]
    BY <1>0, <1>7, <2>3 DEF Open
  <2>5. lcd' \in [Vmus -> Lcds]
    BY <1>0, <1>7, <2>1, <2>2 DEF Open, LcdOK
  <2> QED
    BY <1>0, <1>7, <2>4, <2>5 DEF Open, LcdOK, ThreadsOK, DrawOK
<1> QED
  BY <1>1, <1>2, <1>3, <1>4, <1>5, <1>6, <1>7

LEMMA TypeInit == Init => TypeOK
<1>1. NoProg \in Progs /\ NoLcd \in Lcds
  BY LcdAssumption DEF NoProg, Progs, NoLcd, Lcds, Minors
<1> QED
  BY <1>1 DEF Init, TypeOK, LcdOK, ThreadsOK, DrawOK

LEMMA TypeNext == LcdInv /\ [Next]_vars => TypeOK'
<1> SUFFICES ASSUME LcdInv, [Next]_vars PROVE TypeOK'
  OBVIOUS
<1>1. CASE UNCHANGED vars
  BY <1>1 DEF LcdInv, TypeOK, LcdOK, ThreadsOK, DrawOK, vars, coreVars
<1>2. ASSUME NEW a \in Threads, Painted(a) \/ Early(a) \/ Unanswered(a) PROVE TypeOK'
  BY <1>2, TypeDraw
<1>3. CASE Next
  BY <1>2, <1>3, TypeCore, TypeWorker, TypePlug, TypeProg DEF Next, InKernel
<1> QED
  BY <1>1, <1>3

-----------------------------------------------------------------------------
(* References, action by action.                                           *)

\* The splash's worker goes on with a work, or is done with it.
LEMMA WorkSame ==
  ASSUME WorkInv, UNCHANGED coreVars, UNCHANGED queue,
         \/ UNCHANGED worker
         \/ worker' = [pc |-> "rest", k |-> 0]
         \/ worker.pc # "rest" /\ worker'.pc # "rest" /\ worker'.k = worker.k
  PROVE  WorkInv'
<1>1. \A n \in DOMAIN queue' :
       /\ Holding(queue[n])' /\ (core'.pc = "register" => core'.k # queue'[n])
       /\ \A l \in DOMAIN queue' : queue'[l] = queue'[n] => l = n
  BY DEF WorkInv, coreVars, Holding, Live
<1>2. IF worker'.pc = "rest" THEN worker'.k = 0 ELSE worker'.k \in Vmus /\ (Holding(worker.k))'
  BY DEF WorkInv, coreVars, Holding, Live
<1> QED
  BY <1>1, <1>2 DEF WorkInv, Vmus

\* Nobody whose splash is pending or running is gone.
LEMMA WorkKept ==
  ASSUME TypeOK, WorkInv, UNCHANGED queue, UNCHANGED worker,
         UNCHANGED core \/ core'.pc # "register",
         \A j \in Vmus : Holding(j) => Holding(j)'
  PROVE  WorkInv'
<1>1. \A n \in DOMAIN queue : queue[n] \in Vmus /\ Holding(queue[n])
  BY DEF TypeOK, ThreadsOK, WorkInv
<1>2. worker.pc # "rest" => worker.k \in Vmus /\ Holding(worker.k)
  BY DEF WorkInv
<1>3. \A n \in DOMAIN queue' : Holding(queue[n])'
  BY <1>1 DEF Holding, Live
<1>4. worker.pc # "rest" => (Holding(worker.k))'
  BY <1>2 DEF Holding, Live
<1>5. \A n \in DOMAIN queue' : core'.pc = "register" => core'.k # queue'[n]
  BY DEF WorkInv
<1>6. \A n, l \in DOMAIN queue' : queue'[l] = queue'[n] => l = n
  BY DEF WorkInv
<1>7. IF worker'.pc = "rest" THEN worker'.k = 0 ELSE worker'.k \in Vmus /\ (Holding(worker.k))'
  BY <1>4 DEF WorkInv
<1> QED
  BY <1>3, <1>5, <1>6, <1>7 DEF WorkInv, Vmus

\* The steps that take and give back no reference.
LEMMA LifeDraws ==
  ASSUME LcdInv, NEW a \in Threads, Send(a) \/ Painted(a) \/ Early(a) \/ Unanswered(a)
  PROVE  LifeInv'
<1>1. UNCHANGED coreVars /\ UNCHANGED queue /\ UNCHANGED worker /\ UNCHANGED prog
  BY DEF Send, Painted, Early, Queued, Unanswered
<1>2. LifeInv /\ WorkInv
  BY DEF LcdInv, LifeInv
<1>3. WorkInv'
  BY <1>1, <1>2, WorkSame
<1> QED
  BY <1>1, <1>2, <1>3, LifeSame

LEMMA LifeLands ==
  ASSUME LcdInv, NEW k \in Vmus, Lands(k)
  PROVE  LifeInv'
<1>1. UNCHANGED coreVars /\ UNCHANGED queue /\ UNCHANGED worker /\ UNCHANGED prog
  BY DEF Lands
<1>2. LifeInv /\ WorkInv
  BY DEF LcdInv, LifeInv
<1>3. WorkInv'
  BY <1>1, <1>2, WorkSame
<1> QED
  BY <1>1, <1>2, <1>3, LifeSame

\* What a program does between open and close, and how its record changes.
LEMMA ProgStep ==
  ASSUME LcdInv, NEW u \in Users, NextFrame(u) \/ OnSignal(u) \/ Write(u) \/ WriteReturns(u)
  PROVE  /\ UNCHANGED coreVars /\ UNCHANGED queue /\ UNCHANGED worker
         /\ \A v \in Users \ {u} : prog'[v] = prog[v]
         /\ prog[u].pc # "rest" /\ prog'[u].pc # "rest" /\ prog'[u].fd = prog[u].fd
<1>1. UNCHANGED coreVars /\ UNCHANGED queue /\ UNCHANGED worker
  BY DEF NextFrame, OnSignal, Write, WriteReturns
<1>2. prog \in [Users -> Progs] /\ prog[u] \in Progs
  BY DEF LcdInv, TypeOK, ThreadsOK
<1>3. \E p : /\ prog' = [prog EXCEPT ![u] = p] /\ prog[u].pc # "rest"
             /\ p.pc # "rest" /\ p.fd = prog[u].fd
  <2>1. CASE NextFrame(u)
    <3> DEFINE p == [prog[u] EXCEPT !.pc = "write", !.n = 1 - @, !.turned = prog[u].flip, !.attempts = 0]
    <3>1. prog' = [prog EXCEPT ![u] = p] /\ prog[u].pc # "rest"
      BY <2>1 DEF NextFrame, Between
    <3>2. p.pc # "rest" /\ p.fd = prog[u].fd
      BY <1>2 DEF Progs
    <3> QED
      BY <3>1, <3>2
  <2>2. CASE OnSignal(u)
    <3> DEFINE p == [prog[u] EXCEPT !.stop = TRUE]
    <3>1. prog' = [prog EXCEPT ![u] = p] /\ prog[u].pc # "rest"
      BY <2>2 DEF OnSignal
    <3>2. p.pc = prog[u].pc /\ p.fd = prog[u].fd
      BY <1>2 DEF Progs
    <3> QED
      BY <3>1, <3>2
  <2>3. CASE Write(u)
    <3> DEFINE p == [prog[u] EXCEPT !.pc = "draw"]
               e == Ending(prog[u])
    <3>1. (prog' = [prog EXCEPT ![u] = p] \/ prog' = [prog EXCEPT ![u] = e]) /\ prog[u].pc # "rest"
      BY <2>3 DEF Write
    <3>2. p.pc # "rest" /\ p.fd = prog[u].fd
      BY <1>2 DEF Progs
    <3>3. e.pc # "rest" /\ e.fd = prog[u].fd
      BY <1>2, ProgIs
    <3> HIDE DEF p, e
    <3> QED
      BY <3>1, <3>2, <3>3
  <2>4. CASE WriteReturns(u)
    <3>1. prog[u].pc # "rest"
      BY <2>4 DEF WriteReturns
    <3>2. \E result : prog' = [prog EXCEPT ![u] = AfterWrite(prog[u], result)]
                      \/ prog' = [prog EXCEPT ![u] = Ending(prog[u])]
      BY <1>2, <2>4 DEF WriteReturns
    <3>3. /\ Ending(prog[u]).pc # "rest" /\ Ending(prog[u]).fd = prog[u].fd
          /\ \A result : /\ AfterWrite(prog[u], result).pc # "rest"
                         /\ AfterWrite(prog[u], result).fd = prog[u].fd
      BY <1>2, ProgIs
    <3> QED
      BY <3>1, <3>2, <3>3
  <2> QED
    BY <2>1, <2>2, <2>3, <2>4
<1> QED
  BY <1>1, <1>2, <1>3

LEMMA LifeProgs ==
  ASSUME LcdInv, NEW u \in Users, NextFrame(u) \/ OnSignal(u) \/ Write(u) \/ WriteReturns(u)
  PROVE  LifeInv'
<1>1. /\ UNCHANGED coreVars /\ UNCHANGED queue /\ UNCHANGED worker
      /\ \A v \in Users \ {u} : prog'[v] = prog[v]
      /\ prog[u].pc # "rest" /\ prog'[u].pc # "rest" /\ prog'[u].fd = prog[u].fd
  BY ProgStep
<1>2. LifeInv /\ WorkInv
  BY DEF LcdInv, LifeInv
<1>3. WorkInv'
  BY <1>1, <1>2, WorkSame
<1>4. \A v \in Users : /\ prog'[v].fd = prog[v].fd
                       /\ prog'[v].pc = "rest" <=> prog[v].pc = "rest"
  BY <1>1
<1> QED
  BY <1>1, <1>2, <1>3, <1>4, LifeSame

LEMMA LifeWorker ==
  ASSUME LcdInv, Worker
  PROVE  LifeInv'
<1>0. LifeInv /\ WorkInv /\ "worker" \in Threads /\ ThreadsOK
  BY DEF LcdInv, LifeInv, Threads, TypeOK
<1>1. UNCHANGED coreVars /\ UNCHANGED prog
  BY DEF Worker, SplashStarts, SplashLocks, SplashEnds, Send
<1>2. WorkInv'
  <2>1. CASE SplashStarts
    <3>1. queue \in Seq(Vmus) /\ queue # <<>> /\ Len(queue) \in Nat
      BY <1>0, <2>1 DEF SplashStarts, ThreadsOK
    <3>2. /\ Head(queue) = queue[1] /\ 1 \in DOMAIN queue /\ queue[1] \in Vmus
          /\ Tail(queue) \in Seq(Vmus) /\ DOMAIN Tail(queue) = 1..(Len(queue) - 1)
      BY <3>1
    <3>3. \A n \in DOMAIN Tail(queue) :
            n \in Nat /\ n + 1 \in DOMAIN queue /\ Tail(queue)[n] = queue[n + 1]
      BY <3>1
    <3>4. queue' = Tail(queue) /\ worker' = [pc |-> "lock", k |-> queue[1]]
      BY <2>1, <3>2 DEF SplashStarts
    <3>5. ASSUME NEW n \in DOMAIN queue'
          PROVE  /\ Holding(queue[n])' /\ (core'.pc = "register" => core'.k # queue'[n])
                 /\ \A l \in DOMAIN queue' : queue'[l] = queue'[n] => l = n
      <4>1. Holding(queue[n + 1]) /\ (core.pc = "register" => core.k # queue[n + 1])
        BY <1>0, <3>3, <3>4 DEF WorkInv
      <4>2. ASSUME NEW l \in DOMAIN queue', queue'[l] = queue'[n] PROVE l = n
        <5>1. queue[l + 1] = queue[n + 1] /\ l + 1 \in DOMAIN queue /\ n + 1 \in DOMAIN queue
          BY <3>3, <3>4, <4>2
        <5>2. l + 1 = n + 1
          BY <1>0, <5>1 DEF WorkInv
        <5> QED
          BY <3>3, <3>4, <5>2
      <4>3. queue'[n] = queue[n + 1]
        BY <3>3, <3>4
      <4>4. Holding(queue[n])'
        BY <1>1, <4>1, <4>3 DEF Holding, Live, coreVars
      <4>5. core'.pc = "register" => core'.k # queue'[n]
        BY <1>1, <4>1, <4>3 DEF coreVars
      <4> QED
        BY <4>2, <4>4, <4>5
    <3>6. worker'.pc # "rest" /\ worker'.k \in Vmus /\ (Holding(worker.k))'
      <4>1. Holding(queue[1]) /\ queue[1] \in Vmus
        BY <1>0, <3>2 DEF WorkInv
      <4> QED
        BY <1>1, <3>4, <4>1 DEF Holding, Live, coreVars
    <3> QED
      BY <3>5, <3>6 DEF WorkInv, Vmus
  <2>2. CASE SplashLocks
    <3>1. worker.pc # "rest" /\ UNCHANGED queue
      BY <2>2 DEF SplashLocks
    <3>2. worker' = [worker EXCEPT !.pc = "draw"] \/ worker' = [pc |-> "rest", k |-> 0]
      BY <2>2 DEF SplashLocks
    <3>3. (worker'.pc # "rest" /\ worker'.k = worker.k) \/ worker' = [pc |-> "rest", k |-> 0]
      BY <1>0, <3>2 DEF ThreadsOK
    <3> QED
      BY <1>0, <1>1, <3>1, <3>3, WorkSame
  <2>3. CASE SplashEnds
    BY <1>0, <1>1, <2>3, WorkSame DEF SplashEnds
  <2>4. CASE Send("worker")
    BY <1>0, <1>1, <2>4, WorkSame DEF Send
  <2> QED
    BY <2>1, <2>2, <2>3, <2>4 DEF Worker
<1> QED
  BY <1>0, <1>1, <1>2, LifeSame

\* A display that nobody has, and one that is new.
LEMMA NoHolders ==
  ASSUME TypeOK, RefInv, NEW k \in Vmus, ~Live(k)
  PROVE  Holders(k) = {} /\ lcd[k].ref = 0
<1>1. /\ IsFiniteSet(Holders(k)) /\ lcd[k].ref = 0
      /\ lcd[k].ref = Cardinality(Holders(k)) + (IF Holding(k) THEN 1 ELSE 0)
  BY DEF RefInv
<1>2. Cardinality(Holders(k)) = 0
  <2>1. ~Holding(k) /\ Cardinality(Holders(k)) \in Nat
    BY <1>1, FS_CardinalityType DEF Holding
  <2> HIDE DEF Holders
  <2> QED
    BY <1>1, <2>1
<1> QED
  BY <1>1, <1>2, FS_EmptySet

\* A VMU is plugged in.
LEMMA LifeRegister ==
  ASSUME LcdInv, NEW k \in Vmus, Register(k)
  PROVE  LifeInv'
<1>0. /\ LcdOK /\ RefInv /\ CoreInv /\ TableInv /\ MinorInv /\ WorkInv /\ FdInv /\ TypeOK
      /\ core.pc = "rest" /\ mdev[k] = "none"
      /\ UNCHANGED <<table, queue, worker, prog>>
      /\ mdev' = [mdev EXCEPT ![k] = "here"]
  BY DEF LcdInv, LifeInv, TypeOK, Register, Pluggable
<1>1. lcd[k] = NoLcd /\ ~Live(k) /\ ~Holding(k)
  BY <1>0 DEF RefInv, Live, NoLcd, Holding
<1>2. Holders(k) = {} /\ \A j \in Vmus : Holders(j)' = Holders(j)
  BY <1>0, <1>1, NoHolders DEF Holders
<1>3. \A j \in Vmus \ {k} : mdev'[j] = mdev[j]
  BY <1>0 DEF LcdOK
<1>4. mdev'[k] = "here"
  BY <1>0 DEF LcdOK
<1>5. CASE UNCHANGED <<lcd, ida, nodes, core>>
  <2>1. \A j \in Vmus : (Holding(j)' <=> Holding(j)) /\ (Live(j)' <=> Live(j))
    BY <1>1, <1>3, <1>5 DEF Holding, Live
  <2>2. RefInv'
    BY <1>0, <1>1, <1>2, <1>3, <1>4, <1>5, <2>1 DEF RefInv, Vmus
  <2>3. CoreInv'
    BY <1>0, <1>5 DEF CoreInv
  <2>4. TableInv'
    BY <1>0, <1>5, <2>1 DEF TableInv, LcdOK, Vmus, Minors
  <2>5. MinorInv'
    BY <1>0, <1>5, <2>1 DEF MinorInv, Vmus
  <2>6. WorkInv'
    <3>1. \A n \in DOMAIN queue : queue[n] \in Vmus
      BY DEF LcdInv, TypeOK, ThreadsOK
    <3> QED
      BY <1>0, <1>5, <2>1, <3>1 DEF WorkInv, Vmus
  <2>7. FdInv'
    BY <1>0 DEF FdInv
  <2> QED
    BY <2>2, <2>3, <2>4, <2>5, <2>6, <2>7 DEF LifeInv
<1>6. ASSUME NEW m \in Minors \ ida,
             lcd' = [lcd EXCEPT ![k] = [state |-> "live", minor |-> m, ref |-> 1,
                                        connected |-> TRUE]],
             ida' = ida \cup {m}, nodes' = nodes \cup {m},
             core' = [pc |-> "register", k |-> k]
      PROVE  LifeInv'
  <2>1. /\ lcd'[k].state = "live" /\ lcd'[k].minor = m /\ lcd'[k].ref = 1
        /\ \A j \in Vmus \ {k} : lcd'[j] = lcd[j]
    BY <1>0, <1>6 DEF LcdOK
  <2>2. /\ \A j \in Vmus \ {k} : (Holding(j)' <=> Holding(j)) /\ (Live(j)' <=> Live(j))
        /\ Holding(k)' /\ Live(k)'
    BY <1>3, <1>4, <2>1 DEF Holding, Live
  <2>3. RefInv'
    <3>1. ASSUME NEW j \in Vmus
          PROVE  /\ IsFiniteSet(Holders(j))'
                 /\ (lcd[j].ref = Cardinality(Holders(j)) + (IF Holding(j) THEN 1 ELSE 0))'
                 /\ (Live(j) <=> lcd[j].ref # 0)'
                 /\ (mdev[j] = "none" => lcd[j] = NoLcd)'
                 /\ (lcd[j].connected => Holding(j))'
      <4>1. CASE j = k
        BY <1>2, <1>4, <2>1, <2>2, <4>1, FS_EmptySet
      <4>2. CASE j # k
        BY <1>0, <1>2, <1>3, <2>1, <2>2, <4>2 DEF RefInv
      <4> QED
        BY <4>1, <4>2
    <3> QED
      BY <3>1 DEF RefInv, Vmus
  <2>4. CoreInv'
    BY <1>6, <2>2 DEF CoreInv, Vmus
  <2>5. TableInv'
    <3>1. ASSUME NEW l \in Minors, table[l] # 0
          PROVE  Holding(table[l])' /\ lcd'[table[l]].minor = l
      <4>1. Holding(table[l]) /\ lcd[table[l]].minor = l /\ table[l] \in Vmus
        BY <1>0, <3>1 DEF TableInv, LcdOK
      <4> QED
        BY <1>0, <1>1, <2>1, <2>2, <4>1
    <3>2. ASSUME NEW j \in Vmus, Holding(j)', j # k
          PROVE  table[lcd'[j].minor] = j
      BY <1>0, <2>1, <2>2, <3>2 DEF TableInv
    <3> QED
      BY <1>0, <1>6, <3>1, <3>2 DEF TableInv, Vmus, Minors
  <2>6. MinorInv'
    <3>1. \A j \in Vmus : Live(j)' => lcd'[j].minor \in ida'
      BY <1>0, <1>6, <2>1, <2>2 DEF MinorInv
    <3>2. ASSUME NEW i \in Vmus, NEW j \in Vmus, Live(i)', Live(j)', lcd'[i].minor = lcd'[j].minor
          PROVE  i = j
      BY <1>0, <1>6, <2>1, <2>2, <3>2 DEF MinorInv
    <3>3. ASSUME NEW l \in nodes' PROVE \E j \in Vmus : Holding(j)' /\ lcd'[j].minor = l
      <4>1. CASE l = m
        BY <2>1, <2>2, <4>1
      <4>2. CASE l # m
        <5>1. PICK j \in Vmus : Holding(j) /\ lcd[j].minor = l
          BY <1>0, <1>6, <4>2 DEF MinorInv
        <5> QED
          BY <1>1, <2>1, <2>2, <5>1
      <4> QED
        BY <4>1, <4>2
    <3> QED
      BY <3>1, <3>2, <3>3 DEF MinorInv, Vmus
  <2>7. WorkInv'
    <3>1. \A n \in DOMAIN queue : queue[n] \in Vmus /\ Holding(queue[n])
      BY <1>0 DEF TypeOK, ThreadsOK, WorkInv
    <3>2. \A n \in DOMAIN queue : queue[n] # k
      BY <1>1, <3>1
    <3>3. \A n \in DOMAIN queue' : Holding(queue[n])' /\ k # queue'[n]
      BY <1>0, <2>2, <3>1, <3>2 DEF Holding, Live
    <3>4. worker.pc # "rest" => worker.k \in Vmus /\ Holding(worker.k) /\ worker.k # k
      BY <1>0, <1>1 DEF WorkInv
    <3>5. worker.pc # "rest" => (Holding(worker.k))'
      BY <1>0, <2>2, <3>4 DEF Holding, Live
    <3>6. core'.k = k
      BY <1>6
    <3>7. \A n, l \in DOMAIN queue' : queue'[l] = queue'[n] => l = n
      BY <1>0 DEF WorkInv
    <3>8. IF worker'.pc = "rest" THEN worker'.k = 0 ELSE worker'.k \in Vmus /\ (Holding(worker.k))'
      BY <1>0, <3>5 DEF WorkInv
    <3> QED
      BY <3>3, <3>6, <3>7, <3>8 DEF WorkInv, Vmus
  <2>8. FdInv'
    BY <1>0 DEF FdInv
  <2> QED
    BY <2>3, <2>4, <2>5, <2>6, <2>7, <2>8 DEF LifeInv
<1> QED
  BY <1>5, <1>6 DEF Register

\* It can be opened.
LEMMA LifeRegistered ==
  ASSUME LcdInv, Registered
  PROVE  LifeInv'
<1> DEFINE k == core.k
<1>0. /\ LcdOK /\ RefInv /\ CoreInv /\ TableInv /\ MinorInv /\ WorkInv /\ FdInv /\ TypeOK
      /\ UNCHANGED <<mdev, lcd, ida, nodes, worker, prog>>
      /\ core.pc = "register" /\ core' = [pc |-> "rest", k |-> 0]
      /\ table' = [table EXCEPT ![lcd[k].minor] = k] /\ queue' = Append(queue, k)
  BY DEF LcdInv, LifeInv, TypeOK, Registered
<1>1. k \in Vmus /\ Holding(k) /\ Live(k) /\ lcd[k].minor \in Minors
  BY <1>0 DEF CoreInv, LcdOK, Holding, Lcds
<1>2. \A j : (Holding(j)' <=> Holding(j)) /\ (Live(j)' <=> Live(j)) /\ Holders(j)' = Holders(j)
  BY <1>0 DEF Holding, Live, Holders
<1> HIDE DEF k
<1>3. RefInv'
  BY <1>0, <1>2 DEF RefInv, Vmus
<1>4. CoreInv'
  BY <1>0 DEF CoreInv
<1>5. TableInv'
  <2>1. table'[lcd[k].minor] = k /\ \A l \in Minors \ {lcd[k].minor} : table'[l] = table[l]
    BY <1>0, <1>1 DEF LcdOK
  <2>2. ASSUME NEW l \in Minors, table'[l] # 0
        PROVE  Holding(table[l])' /\ lcd'[table'[l]].minor = l
    <3>1. Holding(table'[l]) /\ lcd[table'[l]].minor = l
      BY <1>0, <1>1, <2>1, <2>2 DEF TableInv
    <3> QED
      BY <1>0, <3>1 DEF Holding, Live
  <2>3. ASSUME NEW j \in Vmus, Holding(j)'
        PROVE  table'[lcd'[j].minor] = j
    <3>1. CASE j = k
      BY <1>0, <2>1, <3>1
    <3>2. CASE j # k
      <4>1. Live(j) /\ lcd[j].minor # lcd[k].minor /\ lcd[j].minor \in Minors
        BY <1>0, <1>1, <1>2, <2>3, <3>2 DEF MinorInv, Holding, LcdOK, Lcds
      <4>2. table[lcd[j].minor] = j
        BY <1>0, <1>2, <2>3, <3>2 DEF TableInv, k
      <4> QED
        BY <1>0, <2>1, <4>1, <4>2
    <3> QED
      BY <3>1, <3>2
  <2> QED
    BY <1>0, <2>2, <2>3 DEF TableInv, Vmus, Minors
<1>6. MinorInv'
  BY <1>0, <1>2 DEF MinorInv, Vmus
<1>7. WorkInv'
  <2>1. queue \in Seq(Vmus)
    BY <1>0 DEF TypeOK, ThreadsOK
  <2>2. /\ Len(queue) \in Nat /\ DOMAIN queue = 1..Len(queue) /\ DOMAIN queue' = 1..(Len(queue) + 1)
        /\ queue'[Len(queue) + 1] = k /\ \A n \in DOMAIN queue : queue'[n] = queue[n]
    BY <1>0, <1>1, <2>1
  <2>3. \A n \in DOMAIN queue' : n \in DOMAIN queue \/ n = Len(queue) + 1
    BY <2>2
  <2>4. \A n \in DOMAIN queue : /\ Holding(queue[n]) /\ queue[n] # k
                                /\ \A l \in DOMAIN queue : queue[l] = queue[n] => l = n
    BY <1>0 DEF WorkInv, k
  <2>5. ASSUME NEW n \in DOMAIN queue'
        PROVE  /\ Holding(queue[n])'
               /\ \A l \in DOMAIN queue' : queue'[l] = queue'[n] => l = n
    <3>1. Holding(queue'[n])
      BY <1>1, <2>2, <2>3, <2>4
    <3>2. Holding(queue[n])'
      BY <1>0, <3>1 DEF Holding, Live
    <3> QED
      BY <2>2, <2>3, <2>4, <3>2
  <2>6. core'.pc # "register"
    BY <1>0
  <2>7. IF worker'.pc = "rest" THEN worker'.k = 0 ELSE worker'.k \in Vmus /\ (Holding(worker.k))'
    BY <1>0 DEF WorkInv, Holding, Live
  <2> QED
    BY <2>5, <2>6, <2>7 DEF WorkInv, Vmus
<1>8. FdInv'
  BY <1>0 DEF FdInv
<1> QED
  BY <1>3, <1>4, <1>5, <1>6, <1>7, <1>8 DEF LifeInv

\* The core finds it gone.
LEMMA LifeUnregister ==
  ASSUME LcdInv, NEW k \in Vmus, Unregister(k)
  PROVE  LifeInv'
<1>0. /\ LcdOK /\ RefInv /\ CoreInv /\ TableInv /\ MinorInv /\ WorkInv /\ FdInv /\ TypeOK
      /\ core.pc = "rest" /\ mdev[k] = "here"
      /\ UNCHANGED <<lcd, ida, nodes, queue, worker, prog>>
  BY DEF LcdInv, LifeInv, TypeOK, Unregister
<1>1. \A j : (Live(j)' <=> Live(j)) /\ Holders(j)' = Holders(j)
  BY <1>0 DEF Live, Holders
<1>2. FdInv'
  BY <1>0 DEF FdInv
<1>3. ASSUME \A j \in Vmus : Holding(j)' <=> Holding(j), core'.pc # "register"
      PROVE  MinorInv' /\ WorkInv'
  <2>1. MinorInv'
    BY <1>0, <1>1, <1>3 DEF MinorInv, Vmus
  <2>2. WorkInv'
    BY <1>0, <1>3, WorkKept
  <2> QED
    BY <2>1, <2>2
<1>4. ASSUME \A m \in Minors : table[m] # k, mdev' = [mdev EXCEPT ![k] = "gone"],
             UNCHANGED <<table, core>>
      PROVE  LifeInv'
  <2>1. ~Holding(k)
    BY <1>0, <1>4 DEF TableInv, LcdOK, Lcds
  <2>2. mdev'[k] = "gone" /\ \A j \in Vmus \ {k} : mdev'[j] = mdev[j]
    BY <1>0, <1>4 DEF LcdOK
  <2>3. \A j \in Vmus : Holding(j)' <=> Holding(j)
    BY <1>1, <2>1, <2>2 DEF Holding
  <2>4. RefInv'
    BY <1>0, <1>1, <2>2, <2>3 DEF RefInv, Vmus
  <2>5. CoreInv'
    BY <1>0, <1>4 DEF CoreInv
  <2>6. \A m \in Minors : table[m] # 0 => table[m] \in Vmus
    BY <1>0 DEF LcdOK
  <2>7. TableInv'
    BY <1>0, <1>4, <2>3, <2>6 DEF TableInv, Vmus, Minors
  <2> QED
    BY <1>0, <1>2, <1>3, <1>4, <2>3, <2>4, <2>5, <2>7 DEF LifeInv
<1>5. ASSUME NEW m \in Minors, table[m] = k, table' = [table EXCEPT ![m] = 0],
             core' = [pc |-> "lock", k |-> k], UNCHANGED mdev
      PROVE  LifeInv'
  <2>1. Holding(k) /\ lcd[k].minor = m
    <3>1. table[m] # 0
      BY <1>5, VmusNat
    <3> QED
      BY <1>0, <1>5, <3>1 DEF TableInv
  <2>2. \A j : Holding(j)' <=> Holding(j)
    BY <1>0, <1>5 DEF Holding, Live
  <2>3. table'[m] = 0 /\ \A l \in Minors \ {m} : table'[l] = table[l] /\ table[l] # k
    <3>1. \A l \in Minors : table[l] # k \/ l = m
      BY <1>0, <2>1, VmusNat DEF TableInv
    <3> QED
      BY <1>0, <1>5, <3>1 DEF LcdOK
  <2>4. RefInv'
    BY <1>0, <1>1, <1>5, <2>2 DEF RefInv, Vmus
  <2>5. CoreInv'
    <3>1. \A l \in Minors : table'[l] # k
      BY <2>3, VmusNat
    <3> QED
      BY <1>5, <2>1, <2>2, <3>1 DEF CoreInv, Vmus, Minors
  <2>6. TableInv'
    <3>1. ASSUME NEW l \in Minors, table'[l] # 0
          PROVE  Holding(table[l])' /\ lcd'[table'[l]].minor = l
      <4>1. table'[l] = table[l] /\ Holding(table[l]) /\ lcd[table[l]].minor = l
        BY <1>0, <2>3, <3>1 DEF TableInv
      <4> QED
        BY <1>0, <1>5, <4>1 DEF Holding, Live
    <3>2. ASSUME NEW j \in Vmus, Holding(j), j # k
          PROVE  table'[lcd'[j].minor] = j
      <4>1. table[lcd[j].minor] = j /\ lcd[j].minor \in Minors
        BY <1>0, <3>2 DEF TableInv, LcdOK, Lcds
      <4>2. lcd[j].minor # m
        BY <1>5, <3>2, <4>1
      <4> QED
        BY <1>0, <2>3, <4>1, <4>2
    <3> QED
      BY <1>5, <2>2, <3>1, <3>2 DEF TableInv, Vmus, Minors
  <2> QED
    BY <1>2, <1>3, <1>5, <2>2, <2>4, <2>5, <2>6 DEF LifeInv
<1> QED
  BY <1>4, <1>5 DEF Unregister

\* It draws no more.
LEMMA LifeDisconnect ==
  ASSUME LcdInv, Disconnect
  PROVE  LifeInv'
<1> DEFINE k == core.k
<1>0. /\ LcdOK /\ RefInv /\ CoreInv /\ TableInv /\ MinorInv /\ WorkInv /\ FdInv /\ TypeOK
      /\ UNCHANGED <<mdev, table, ida, nodes, queue, worker, prog>>
      /\ core.pc = "lock" /\ core' = [core EXCEPT !.pc = "cancel"]
      /\ lcd' = [lcd EXCEPT ![k].connected = FALSE]
  BY DEF LcdInv, LifeInv, TypeOK, Disconnect
<1>1. k \in Vmus /\ Holding(k) /\ lcd[k] \in Lcds /\ core'.k = k /\ core'.pc = "cancel"
  BY <1>0 DEF CoreInv, LcdOK
<1> HIDE DEF k
<1> DEFINE r == [lcd[k] EXCEPT !.connected = FALSE]
<1>2. lcd'[k] = r /\ \A j \in Vmus \ {k} : lcd'[j] = lcd[j]
  BY <1>0, <1>1 DEF LcdOK
<1>3. r.state = lcd[k].state /\ r.minor = lcd[k].minor /\ r.ref = lcd[k].ref /\ ~r.connected
  BY <1>1 DEF Lcds
<1> HIDE DEF r
<1>4. \A j \in Vmus : /\ lcd'[j].state = lcd[j].state /\ lcd'[j].minor = lcd[j].minor
                      /\ lcd'[j].ref = lcd[j].ref /\ (lcd'[j].connected => lcd[j].connected)
                      /\ (Live(j)' <=> Live(j)) /\ (Holding(j)' <=> Holding(j))
                      /\ Holders(j)' = Holders(j)
  BY <1>0, <1>2, <1>3 DEF Live, Holding, Holders
<1>5. RefInv'
  <2>1. \A j \in Vmus : mdev'[j] = "none" => lcd'[j] = NoLcd
    BY <1>0, <1>1, <1>2 DEF RefInv, Holding
  <2> QED
    BY <1>0, <1>4, <2>1 DEF RefInv, Vmus
<1>6. CoreInv'
  <2>1. \A m \in Minors : table'[m] # k
    BY <1>0 DEF CoreInv, k
  <2> QED
    BY <1>1, <1>2, <1>3, <1>4, <2>1 DEF CoreInv, Vmus, Minors
<1>7. TableInv'
  <2>1. \A m \in Minors : table[m] # 0 => table[m] \in Vmus
    BY <1>0 DEF LcdOK
  <2>2. \A m \in Minors : table'[m] # 0 => Holding(table[m])' /\ lcd'[table'[m]].minor = m
    BY <1>0, <1>4, <2>1 DEF TableInv, Holding, Live
  <2>3. \A j \in Vmus : Holding(j) /\ j # k => table'[lcd'[j].minor] = j
    BY <1>0, <1>4 DEF TableInv, k
  <2> QED
    BY <1>1, <1>4, <2>2, <2>3 DEF TableInv, Vmus, Minors
<1>8. MinorInv'
  BY <1>0, <1>4 DEF MinorInv, Vmus
<1>9. WorkInv'
  BY <1>0, <1>1, <1>4, WorkKept
<1>10. FdInv'
  BY <1>0 DEF FdInv
<1> QED
  BY <1>5, <1>6, <1>7, <1>8, <1>9, <1>10 DEF LifeInv

\* A display is opened.
LEMMA LifeOpen ==
  ASSUME LcdInv, NEW u \in Users, NEW m \in Minors, NEW flip \in Flips, Open(u, m, flip)
  PROVE  LifeInv'
<1> SUFFICES ASSUME NEW k, k = table[m] PROVE LifeInv'
  OBVIOUS
<1> DEFINE p == [NoProg EXCEPT !.pc = "next", !.fd = k, !.flip = flip]
           r == [lcd[k] EXCEPT !.ref = @ + 1]
<1>0. /\ LcdOK /\ RefInv /\ CoreInv /\ TableInv /\ MinorInv /\ WorkInv /\ FdInv /\ TypeOK
      /\ UNCHANGED <<mdev, table, ida, nodes, core, queue, worker>>
      /\ prog[u].pc = "rest" /\ table[m] # 0
      /\ prog' = [prog EXCEPT ![u] = p] /\ lcd' = [lcd EXCEPT ![k] = r]
      /\ prog \in [Users -> Progs]
  BY DEF LcdInv, LifeInv, TypeOK, ThreadsOK, Open
<1>1. k \in Vmus /\ Holding(k) /\ lcd[k] \in Lcds /\ k # 0
  BY <1>0, VmusNat DEF TableInv, LcdOK
<1>2. p.fd = k /\ p.pc # "rest"
  BY DEF NoProg
<1>3. /\ r.state = lcd[k].state /\ r.minor = lcd[k].minor /\ r.ref = lcd[k].ref + 1
      /\ r.connected = lcd[k].connected
  BY <1>1 DEF Lcds
<1> HIDE DEF p, r
<1>4. /\ prog'[u] = p /\ \A v \in Users \ {u} : prog'[v] = prog[v]
      /\ lcd'[k] = r /\ \A j \in Vmus \ {k} : lcd'[j] = lcd[j]
  BY <1>0, <1>1 DEF LcdOK
<1>5. \A j \in Vmus : /\ lcd'[j].state = lcd[j].state /\ lcd'[j].minor = lcd[j].minor
                      /\ lcd'[j].connected = lcd[j].connected
                      /\ (Live(j)' <=> Live(j)) /\ (Holding(j)' <=> Holding(j))
  BY <1>0, <1>3, <1>4 DEF Live, Holding
<1>6. prog[u].fd = 0 /\ u \notin Holders(k)
  BY <1>0, <1>1 DEF FdInv, Holders
<1>7. Holders(k)' = Holders(k) \cup {u} /\ \A j \in Vmus \ {k} : Holders(j)' = Holders(j)
  BY <1>2, <1>4, <1>6, VmusNat DEF Holders
<1>8. RefInv'
  <2>1. ASSUME NEW j \in Vmus
        PROVE  /\ IsFiniteSet(Holders(j))'
               /\ (lcd[j].ref = Cardinality(Holders(j)) + (IF Holding(j) THEN 1 ELSE 0))'
               /\ (Live(j) <=> lcd[j].ref # 0)'
               /\ (mdev[j] = "none" => lcd[j] = NoLcd)'
               /\ (lcd[j].connected => Holding(j))'
    <3>1. CASE j = k
      <4>1. /\ IsFiniteSet(Holders(k)) /\ lcd[k].ref = Cardinality(Holders(k)) + 1
            /\ lcd[k].connected => Holding(k)
        BY <1>0, <1>1 DEF RefInv
      <4>2. /\ IsFiniteSet(Holders(k) \cup {u})
            /\ Cardinality(Holders(k) \cup {u}) = Cardinality(Holders(k)) + 1
            /\ Cardinality(Holders(k)) \in Nat
        BY <1>6, <4>1, FS_AddElement, FS_CardinalityType
      <4>3. lcd'[k].ref = Cardinality(Holders(k)) + 1 + 1
        BY <1>3, <1>4, <4>1
      <4>4. lcd'[k].ref # 0
        BY <4>2, <4>3
      <4>5. Holding(k)' /\ Live(k)' /\ mdev'[k] # "none"
        BY <1>0, <1>1, <1>5 DEF Holding
      <4> QED
        BY <1>7, <3>1, <4>2, <4>3, <4>4, <4>5
    <3>2. CASE j # k
      BY <1>0, <1>4, <1>5, <1>7, <3>2 DEF RefInv
    <3> QED
      BY <3>1, <3>2
  <2> QED
    BY <2>1 DEF RefInv, Vmus
<1>9. CoreInv'
  BY <1>0, <1>5 DEF CoreInv, Vmus, Minors
<1>10. TableInv'
  <2>1. \A l \in Minors : table[l] # 0 => table[l] \in Vmus
    BY <1>0 DEF LcdOK
  <2>2. \A l \in Minors : table'[l] # 0 => Holding(table[l])' /\ lcd'[table'[l]].minor = l
    BY <1>0, <1>5, <2>1 DEF TableInv, Holding, Live
  <2>3. \A j \in Vmus : Holding(j) /\ (core.pc = "rest" \/ core.k # j) => table'[lcd'[j].minor] = j
    BY <1>0, <1>5 DEF TableInv
  <2> QED
    BY <1>0, <1>5, <2>2, <2>3 DEF TableInv, Vmus, Minors
<1>11. MinorInv'
  BY <1>0, <1>5 DEF MinorInv, Vmus
<1>12. WorkInv'
  BY <1>0, <1>5, WorkKept
<1>13. FdInv'
  BY <1>0, <1>1, <1>2, <1>4 DEF FdInv
<1> QED
  BY <1>8, <1>9, <1>10, <1>11, <1>12, <1>13 DEF LifeInv

\* A program closes it.  The core's reference outlives this one while it is plugged in.
LEMMA LifeClose ==
  ASSUME LcdInv, NEW u \in Users, Close(u)
  PROVE  LifeInv'
<1> SUFFICES ASSUME NEW k, k = prog[u].fd PROVE LifeInv'
  OBVIOUS
<1>0. /\ LcdOK /\ RefInv /\ CoreInv /\ TableInv /\ MinorInv /\ WorkInv /\ FdInv /\ TypeOK
      /\ UNCHANGED <<mdev, table, nodes, core, queue, worker>>
      /\ prog[u].pc # "rest" /\ Put(k) /\ prog' = [prog EXCEPT ![u] = NoProg]
      /\ prog \in [Users -> Progs]
  BY DEF LcdInv, LifeInv, TypeOK, ThreadsOK, Close, Between
<1>1. k \in Vmus /\ Live(k) /\ lcd[k].ref # 0 /\ k # 0 /\ u \in Holders(k)
  BY <1>0, OpenIsLive, VmusNat DEF Holders
<1>2. /\ \A j \in Vmus \ {k} : lcd'[j] = lcd[j]
      /\ lcd'[k].ref = lcd[k].ref - 1 /\ lcd'[k].ref \in Nat
      /\ lcd'[k].minor = lcd[k].minor /\ lcd'[k].connected = lcd[k].connected
      /\ lcd'[k].state = "live" <=> lcd'[k].ref # 0
      /\ ida' = IF lcd[k].ref = 1 THEN ida \ {lcd[k].minor} ELSE ida
  BY <1>0, <1>1, PutIs
<1>3. /\ prog'[u].fd = 0 /\ prog'[u].pc = "rest" /\ \A v \in Users \ {u} : prog'[v] = prog[v]
  BY <1>0 DEF NoProg
<1>4. Holders(k)' = Holders(k) \ {u} /\ \A j \in Vmus \ {k} : Holders(j)' = Holders(j)
  BY <1>1, <1>3, VmusNat DEF Holders
<1>5. /\ IsFiniteSet(Holders(k) \ {u}) /\ Cardinality(Holders(k) \ {u}) \in Nat
      /\ Cardinality(Holders(k)) = Cardinality(Holders(k) \ {u}) + 1
      /\ lcd[k].ref = Cardinality(Holders(k)) + (IF Holding(k) THEN 1 ELSE 0)
  <2>1. /\ IsFiniteSet(Holders(k))
        /\ lcd[k].ref = Cardinality(Holders(k)) + (IF Holding(k) THEN 1 ELSE 0)
    BY <1>0, <1>1 DEF RefInv
  <2>2. /\ IsFiniteSet(Holders(k) \ {u}) /\ Cardinality(Holders(k)) \in Nat
        /\ Cardinality(Holders(k) \ {u}) = Cardinality(Holders(k)) - 1
        /\ Cardinality(Holders(k) \ {u}) \in Nat
    BY <1>1, <2>1, FS_RemoveElement, FS_CardinalityType
  <2> QED
    BY <2>1, <2>2
<1>6. lcd'[k].ref = Cardinality(Holders(k) \ {u}) + (IF Holding(k) THEN 1 ELSE 0)
  <2> DEFINE c == Cardinality(Holders(k) \ {u})
             d == Cardinality(Holders(k))
  <2>1. c \in Nat /\ d = c + 1 /\ lcd[k].ref = d + (IF Holding(k) THEN 1 ELSE 0)
    BY <1>5
  <2> HIDE DEF c, d
  <2>2. lcd'[k].ref = c + (IF Holding(k) THEN 1 ELSE 0)
    BY <1>2, <2>1
  <2> QED
    BY <2>2 DEF c
<1>7. Holding(k)' <=> Holding(k)
  <2>1. CASE Holding(k)
    <3> DEFINE c == Cardinality(Holders(k) \ {u})
    <3>1. c \in Nat /\ lcd'[k].ref = c + 1
      BY <1>5, <1>6, <2>1
    <3> HIDE DEF c
    <3>2. lcd'[k].ref # 0
      BY <3>1
    <3> QED
      BY <1>0, <1>2, <2>1, <3>2 DEF Holding, Live
  <2>2. CASE ~Holding(k)
    BY <1>0, <1>1, <2>2 DEF Holding, Live
  <2> QED
    BY <2>1, <2>2
<1>8. \A j \in Vmus : /\ lcd'[j].minor = lcd[j].minor /\ lcd'[j].connected = lcd[j].connected
                      /\ (Live(j)' => Live(j)) /\ (Holding(j)' <=> Holding(j))
  BY <1>0, <1>1, <1>2, <1>7 DEF Live, Holding
<1>9. RefInv'
  <2>1. ASSUME NEW j \in Vmus
        PROVE  /\ IsFiniteSet(Holders(j))'
               /\ (lcd[j].ref = Cardinality(Holders(j)) + (IF Holding(j) THEN 1 ELSE 0))'
               /\ (Live(j) <=> lcd[j].ref # 0)'
               /\ (mdev[j] = "none" => lcd[j] = NoLcd)'
               /\ (lcd[j].connected => Holding(j))'
    <3>1. CASE j = k
      <4>1. mdev[k] # "none" /\ (lcd[k].connected => Holding(k))
        BY <1>0, <1>1 DEF RefInv, Live, NoLcd
      <4>2. Live(k)' <=> lcd'[k].ref # 0
        BY <1>2 DEF Live
      <4> QED
        BY <1>0, <1>2, <1>4, <1>5, <1>6, <1>7, <3>1, <4>1, <4>2
    <3>2. CASE j # k
      <4>1. lcd'[j] = lcd[j] /\ (Live(j)' <=> Live(j))
        BY <1>2, <3>2 DEF Live
      <4> QED
        BY <1>0, <1>4, <1>8, <3>2, <4>1 DEF RefInv
    <3> QED
      BY <3>1, <3>2
  <2> QED
    BY <2>1 DEF RefInv, Vmus
<1>10. CoreInv'
  BY <1>0, <1>8 DEF CoreInv, Vmus, Minors
<1>11. TableInv'
  <2>1. \A l \in Minors : table[l] # 0 => table[l] \in Vmus
    BY <1>0 DEF LcdOK
  <2>2. ASSUME NEW l \in Minors, table[l] # 0
        PROVE  Holding(table[l])' /\ lcd'[table'[l]].minor = l
    <3>1. table[l] \in Vmus /\ Holding(table[l]) /\ lcd[table[l]].minor = l
      BY <1>0, <2>1, <2>2 DEF TableInv
    <3> QED
      BY <1>0, <1>8, <3>1 DEF Holding, Live
  <2>3. \A j \in Vmus : Holding(j) /\ (core.pc = "rest" \/ core.k # j) => table'[lcd'[j].minor] = j
    BY <1>0, <1>8 DEF TableInv
  <2> QED
    BY <1>0, <1>8, <2>2, <2>3 DEF TableInv, Vmus, Minors
<1>12. MinorInv'
  <2>1. ASSUME NEW j \in Vmus, Live(j)' PROVE lcd'[j].minor \in ida'
    <3>1. lcd[j].minor \in ida /\ Live(j)
      BY <1>0, <1>8, <2>1 DEF MinorInv
    <3>2. CASE lcd[k].ref = 1
      <4>1. j # k
        BY <1>2, <2>1, <3>2 DEF Live
      <4>2. lcd[j].minor # lcd[k].minor
        BY <1>0, <1>1, <3>1, <4>1 DEF MinorInv
      <4> QED
        BY <1>2, <1>8, <3>1, <3>2, <4>2
    <3>3. CASE lcd[k].ref # 1
      BY <1>2, <1>8, <3>1, <3>3
    <3> QED
      BY <3>2, <3>3
  <2>2. \A i, j \in Vmus : Live(i)' /\ Live(j)' /\ lcd'[i].minor = lcd'[j].minor => i = j
    BY <1>0, <1>8 DEF MinorInv
  <2>3. \A l \in nodes' : \E j \in Vmus : Holding(j)' /\ lcd'[j].minor = l
    BY <1>0, <1>8 DEF MinorInv
  <2> QED
    BY <2>1, <2>2, <2>3 DEF MinorInv, Vmus
<1>13. WorkInv'
  BY <1>0, <1>8, WorkKept
<1>14. FdInv'
  BY <1>0, <1>3 DEF FdInv
<1> QED
  BY <1>9, <1>10, <1>11, <1>12, <1>13, <1>14 DEF LifeInv

\* The core gives its reference back, and a splash that is pending goes with it.
LEMMA LifeUnregistered ==
  ASSUME LcdInv, Unregistered
  PROVE  LifeInv'
<1> SUFFICES ASSUME NEW k, k = core.k PROVE LifeInv'
  OBVIOUS
<1>0. /\ LcdOK /\ RefInv /\ CoreInv /\ TableInv /\ MinorInv /\ WorkInv /\ FdInv /\ TypeOK
      /\ UNCHANGED <<table, worker, prog>>
      /\ core.pc = "cancel" /\ worker.k # k /\ Put(k)
      /\ queue' = Without(queue, k) /\ nodes' = nodes \ {lcd[k].minor}
      /\ mdev' = [mdev EXCEPT ![k] = "gone"] /\ core' = [pc |-> "rest", k |-> 0]
  BY DEF LcdInv, LifeInv, TypeOK, Unregistered
<1>1. /\ k \in Vmus /\ Holding(k) /\ Live(k) /\ ~lcd[k].connected /\ lcd[k].ref # 0
      /\ \A m \in Minors : table[m] # k
  <2>1. k \in Vmus /\ Holding(k) /\ ~lcd[k].connected /\ \A m \in Minors : table[m] # k
    BY <1>0 DEF CoreInv
  <2> QED
    BY <1>0, <2>1 DEF Holding, RefInv
<1>2. /\ \A j \in Vmus \ {k} : lcd'[j] = lcd[j] /\ mdev'[j] = mdev[j]
      /\ lcd'[k].ref = lcd[k].ref - 1 /\ lcd'[k].ref \in Nat
      /\ lcd'[k].minor = lcd[k].minor /\ lcd'[k].connected = lcd[k].connected
      /\ lcd'[k].state = "live" <=> lcd'[k].ref # 0
      /\ ida' = IF lcd[k].ref = 1 THEN ida \ {lcd[k].minor} ELSE ida
      /\ mdev'[k] = "gone"
  BY <1>0, <1>1, PutIs DEF LcdOK
<1>3. \A j : Holders(j)' = Holders(j)
  BY <1>0 DEF Holders
<1>4. /\ ~Holding(k)' /\ \A j \in Vmus \ {k} : (Holding(j)' <=> Holding(j)) /\ (Live(j)' <=> Live(j))
  BY <1>2 DEF Holding, Live
<1>5. RefInv'
  <2>1. ASSUME NEW j \in Vmus
        PROVE  /\ IsFiniteSet(Holders(j))'
               /\ (lcd[j].ref = Cardinality(Holders(j)) + (IF Holding(j) THEN 1 ELSE 0))'
               /\ (Live(j) <=> lcd[j].ref # 0)'
               /\ (mdev[j] = "none" => lcd[j] = NoLcd)'
               /\ (lcd[j].connected => Holding(j))'
    <3>1. CASE j = k
      <4>1. IsFiniteSet(Holders(k)) /\ lcd[k].ref = Cardinality(Holders(k)) + 1
        BY <1>0, <1>1 DEF RefInv
      <4>2. Cardinality(Holders(k)) \in Nat
        BY <4>1, FS_CardinalityType
      <4> DEFINE c == Cardinality(Holders(k))
      <4> HIDE DEF c
      <4>3. lcd'[k].ref = c + 0
        BY <1>2, <4>1, <4>2 DEF c
      <4>4. Live(k)' <=> lcd'[k].ref # 0
        BY <1>2 DEF Live
      <4> QED
        BY <1>1, <1>2, <1>3, <1>4, <3>1, <4>1, <4>3, <4>4 DEF c
    <3>2. CASE j # k
      BY <1>0, <1>2, <1>3, <1>4, <3>2 DEF RefInv
    <3> QED
      BY <3>1, <3>2
  <2> QED
    BY <2>1 DEF RefInv, Vmus
<1>6. CoreInv'
  BY <1>0 DEF CoreInv
<1>7. TableInv'
  <2>1. \A m \in Minors : table[m] # 0 => table[m] \in Vmus \ {k}
    BY <1>0, <1>1 DEF LcdOK
  <2>2. ASSUME NEW m \in Minors, table[m] # 0
        PROVE  Holding(table[m])' /\ lcd'[table'[m]].minor = m
    <3>1. table[m] \in Vmus \ {k} /\ Holding(table[m]) /\ lcd[table[m]].minor = m
      BY <1>0, <2>1, <2>2 DEF TableInv
    <3> QED
      BY <1>0, <1>2, <3>1 DEF Holding, Live
  <2>3. \A j \in Vmus : Holding(j)' => table'[lcd'[j].minor] = j
    BY <1>0, <1>2, <1>4 DEF TableInv
  <2> QED
    BY <1>0, <2>2, <2>3 DEF TableInv, Vmus, Minors
<1>8. MinorInv'
  <2>1. ASSUME NEW j \in Vmus, Live(j)' PROVE Live(j) /\ lcd'[j].minor \in ida'
    <3>1. Live(j) /\ lcd[j].minor \in ida
      BY <1>0, <1>1, <1>4, <2>1 DEF MinorInv
    <3>2. CASE lcd[k].ref = 1
      <4>1. j # k
        BY <1>2, <2>1, <3>2 DEF Live
      <4>2. lcd[j].minor # lcd[k].minor
        BY <1>0, <1>1, <3>1, <4>1 DEF MinorInv
      <4> QED
        BY <1>2, <3>1, <3>2, <4>1, <4>2
    <3>3. CASE lcd[k].ref # 1
      BY <1>2, <3>1, <3>3
    <3> QED
      BY <3>2, <3>3
  <2>2. \A i, j \in Vmus : Live(i)' /\ Live(j)' /\ lcd'[i].minor = lcd'[j].minor => i = j
    <3>1. \A j \in Vmus : lcd'[j].minor = lcd[j].minor
      BY <1>2
    <3> QED
      BY <1>0, <2>1, <3>1 DEF MinorInv
  <2>3. ASSUME NEW l \in nodes' PROVE \E j \in Vmus : Holding(j)' /\ lcd'[j].minor = l
    <3>1. l \in nodes /\ l # lcd[k].minor
      BY <1>0
    <3>2. PICK j \in Vmus : Holding(j) /\ lcd[j].minor = l
      BY <1>0, <3>1 DEF MinorInv
    <3>3. j # k
      BY <3>1, <3>2
    <3> QED
      BY <1>2, <1>4, <3>2, <3>3
  <2> QED
    BY <2>1, <2>2, <2>3 DEF MinorInv, Vmus
<1>9. WorkInv'
  <2>1. /\ queue \in Seq(Vmus) /\ \A n, l \in DOMAIN queue : queue[n] = queue[l] => n = l
        /\ \A n \in DOMAIN queue : queue[n] \in Vmus /\ Holding(queue[n])
    BY <1>0 DEF TypeOK, ThreadsOK, WorkInv
  <2>2. \A n \in DOMAIN queue' :
          /\ queue'[n] # k /\ \E l \in DOMAIN queue : queue'[n] = queue[l]
          /\ \A l \in DOMAIN queue' : queue'[l] = queue'[n] => l = n
    BY <1>0, <2>1, WithoutIs
  <2>3. \A n \in DOMAIN queue' : queue'[n] \in Vmus \ {k} /\ Holding(queue'[n])
    BY <2>1, <2>2
  <2>4. \A n \in DOMAIN queue' : Holding(queue[n])'
    BY <1>2, <2>3 DEF Holding, Live
  <2>5. worker.pc # "rest" => worker.k \in Vmus \ {k} /\ Holding(worker.k)
    BY <1>0 DEF WorkInv
  <2>6. worker.pc # "rest" => (Holding(worker.k))'
    BY <1>0, <1>2, <2>5 DEF Holding, Live
  <2>7. IF worker'.pc = "rest" THEN worker'.k = 0 ELSE worker'.k \in Vmus /\ (Holding(worker.k))'
    BY <1>0, <2>6 DEF WorkInv
  <2>8. core'.pc # "register"
    BY <1>0
  <2> QED
    BY <2>2, <2>4, <2>7, <2>8 DEF WorkInv, Vmus
<1>10. FdInv'
  BY <1>0 DEF FdInv
<1> QED
  BY <1>5, <1>6, <1>7, <1>8, <1>9, <1>10 DEF LifeInv

LEMMA LifeInit == Init => LifeInv
<1> SUFFICES ASSUME Init PROVE LifeInv
  OBVIOUS
<1>1. /\ \A k \in Vmus : lcd[k] = NoLcd /\ mdev[k] = "none"
      /\ \A m \in Minors : table[m] = 0
      /\ nodes = {} /\ core = [pc |-> "rest", k |-> 0] /\ queue = <<>>
      /\ worker = [pc |-> "rest", k |-> 0] /\ \A u \in Users : prog[u] = NoProg
  BY DEF Init
<1>2. \A k \in Vmus : ~Live(k) /\ ~Holding(k) /\ Holders(k) = {}
  <2>1. NoLcd.state = "none" /\ NoProg.fd = 0
    BY DEF NoLcd, NoProg
  <2>2. \A k \in Vmus : ~Live(k) /\ ~Holding(k)
    BY <1>1, <2>1 DEF Live, Holding
  <2>3. \A k \in Vmus : Holders(k) = {}
    BY <1>1, <2>1, VmusNat DEF Holders
  <2> QED
    BY <2>2, <2>3
<1>3. RefInv
  <2>1. IsFiniteSet({}) /\ Cardinality({}) = 0
    BY FS_EmptySet
  <2>2. ASSUME NEW k \in Vmus
        PROVE  /\ IsFiniteSet(Holders(k))
               /\ lcd[k].ref = Cardinality(Holders(k)) + (IF Holding(k) THEN 1 ELSE 0)
               /\ Live(k) <=> lcd[k].ref # 0
               /\ mdev[k] = "none" => lcd[k] = NoLcd
               /\ lcd[k].connected => Holding(k)
    <3>1. lcd[k].ref = 0 /\ ~lcd[k].connected /\ lcd[k] = NoLcd
      BY <1>1 DEF NoLcd
    <3>2. Cardinality(Holders(k)) = 0 /\ IsFiniteSet(Holders(k)) /\ ~Live(k) /\ ~Holding(k)
      BY <1>2, <2>1
    <3>3. 0 = 0 + 0
      OBVIOUS
    <3> QED
      BY <3>1, <3>2, <3>3
  <2> QED
    BY <2>2 DEF RefInv
<1>4. CoreInv /\ TableInv /\ MinorInv
  BY <1>1, <1>2 DEF CoreInv, TableInv, MinorInv
<1>5. WorkInv /\ FdInv
  BY <1>1 DEF WorkInv, FdInv, NoProg
<1> QED
  BY <1>3, <1>4, <1>5 DEF LifeInv

LEMMA LifeNext == LcdInv /\ [Next]_vars => LifeInv'
<1> SUFFICES ASSUME LcdInv, [Next]_vars PROVE LifeInv'
  OBVIOUS
<1>1. CASE UNCHANGED vars
  <2>1. UNCHANGED coreVars /\ UNCHANGED queue /\ UNCHANGED worker /\ UNCHANGED prog
    BY <1>1 DEF vars
  <2>2. LifeInv /\ WorkInv
    BY DEF LcdInv, LifeInv
  <2>3. WorkInv'
    BY <2>1, <2>2, WorkSame
  <2> QED
    BY <2>1, <2>2, <2>3, LifeSame
<1>2. CASE Core
  BY <1>2, LifeRegistered, LifeDisconnect, LifeUnregistered DEF Core
<1>3. CASE Worker
  BY <1>3, LifeWorker
<1>4. ASSUME NEW k \in Vmus, Register(k) \/ Unregister(k) \/ Lands(k) PROVE LifeInv'
  BY <1>4, LifeRegister, LifeUnregister, LifeLands
<1>5. ASSUME NEW a \in Threads, Painted(a) \/ Early(a) \/ Unanswered(a) PROVE LifeInv'
  BY <1>5, LifeDraws
<1>6. ASSUME NEW u \in Users, InKernel(u) \/ NextFrame(u) \/ OnSignal(u) \/ Close(u) PROVE LifeInv'
  <2>1. u \in Threads
    BY DEF Threads
  <2> QED
    BY <1>6, <2>1, LifeDraws, LifeProgs, LifeClose DEF InKernel
<1>7. ASSUME NEW u \in Users, NEW m \in Minors, NEW flip \in Flips, Open(u, m, flip) PROVE LifeInv'
  BY <1>7, LifeOpen
<1> QED
  BY <1>1, <1>2, <1>3, <1>4, <1>5, <1>6, <1>7 DEF Next

-----------------------------------------------------------------------------
(* Who draws, action by action.                                            *)

\* A thread that draws has its display to itself.
LEMMA OtherDisplay ==
  ASSUME NEW a \in Threads, NEW b \in Threads, b # a, Drawing(b), draw[b] # "no",
         NEW k, lock[k] = a \/ lock[k] = "free"
  PROVE  Display(b) # k
<1>1. "free" \notin Threads
  BY LcdAssumption DEF Threads
<1> QED
  BY <1>1 DEF Drawing

LEMMA DrawFacts ==
  ASSUME LcdInv
  PROVE  /\ LcdOK /\ ThreadsOK /\ DrawOK /\ PcInv
         /\ "worker" \in Threads /\ Users \subseteq Threads /\ "worker" \notin Users
         /\ \A a \in Threads : Drawing(a)
  BY LcdAssumption DEF LcdInv, TypeOK, DrawInv, Threads

\* The core plugs and unplugs while others draw.
LEMMA DrawPlug ==
  ASSUME LcdInv, Core \/ \E k \in Vmus : Register(k) \/ Unregister(k)
  PROVE  DrawInv'
<1>0. /\ LcdOK /\ DrawOK /\ PcInv /\ RefInv /\ \A a \in Threads : Drawing(a)
      /\ UNCHANGED <<lock, worker, prog, draw, shown>>
      /\ \A k \in Vmus : late'[k] => late[k]
  <2>1. UNCHANGED <<lock, worker, prog, draw, shown>>
    BY DEF Core, Registered, Disconnect, Unregistered, Register, Unregister
  <2>2. late \in [Vmus -> BOOLEAN]
    BY DrawFacts DEF DrawOK
  <2>3. late' = late \/ late' = [late EXCEPT ![core.k] = FALSE]
    BY DEF Core, Registered, Disconnect, Unregistered, Register, Unregister
  <2>4. \A k \in Vmus : late'[k] => late[k]
    BY <2>2, <2>3
  <2> QED
    BY <2>1, <2>4, DrawFacts DEF LcdInv, LifeInv
<1>1. ASSUME NEW a \in Threads, draw[a] # "no"
      PROVE  lcd'[Display(a)].connected
  <2>0. /\ Display(a) \in Vmus /\ Live(Display(a)) /\ lcd[Display(a)].connected
        /\ lock[Display(a)] = a
    BY <1>0, <1>1, DisplayIs DEF Drawing
  <2> SUFFICES ASSUME NEW d, d = Display(a) PROVE lcd'[d].connected
    OBVIOUS
  <2>1. ASSUME NEW k \in Vmus, Register(k) PROVE lcd'[d].connected
    <3>1. ~lcd[k].connected
      BY <1>0, <2>1 DEF Register, Pluggable, RefInv, NoLcd
    <3>2. lcd'[d] = lcd[d]
      <4>1. d # k
        BY <2>0, <3>1
      <4> QED
        BY <1>0, <2>0, <2>1, <4>1 DEF Register, LcdOK
    <3> QED
      BY <2>0, <3>2
  <2>2. ASSUME NEW k \in Vmus, Unregister(k) PROVE lcd'[d].connected
    BY <2>0, <2>2 DEF Unregister
  <2>3. CASE Registered
    BY <2>0, <2>3 DEF Registered
  <2>4. CASE Disconnect
    <3>1. core.k # d
      <4>1. "free" \notin Threads
        BY LcdAssumption DEF Threads
      <4> QED
        BY <2>0, <2>4, <4>1 DEF Disconnect
    <3> QED
      BY <1>0, <2>0, <2>4, <3>1 DEF Disconnect, LcdOK
  <2>5. CASE Unregistered
    <3>1. core.k \in Vmus /\ Live(core.k) /\ lcd[core.k].ref # 0 /\ Put(core.k) /\ TypeOK
      BY <2>5 DEF Unregistered, LcdInv, LifeInv, CoreInv, Holding, RefInv
    <3>2. \A j \in Vmus : lcd'[j].connected = lcd[j].connected
      BY <3>1, PutIs
    <3> QED
      BY <2>0, <3>2
  <2> QED
    BY <2>1, <2>2, <2>3, <2>4, <2>5 DEF Core
<1>2. PcInv'
  BY <1>0 DEF PcInv
<1>3. ASSUME NEW a \in Threads PROVE Drawing(a)'
  <2>1. draw[a] # "no" => Display(a) \in Vmus
    BY <1>3, DisplayIs
  <2>2. Display(a)' = Display(a) /\ Picture(a)' = Picture(a)
    BY <1>0 DEF Display, Picture
  <2> QED
    BY <1>0, <1>1, <1>3, <2>1, <2>2 DEF Drawing
<1> QED
  BY <1>2, <1>3 DEF DrawInv

\* A program opens or closes a display: it does not draw, and nobody's display changes
\* but its own.
LEMMA DrawOpenClose ==
  ASSUME LcdInv, NEW u \in Users,
         Close(u) \/ \E m \in Minors, flip \in Flips : Open(u, m, flip)
  PROVE  DrawInv'
<1>0. /\ LcdOK /\ ThreadsOK /\ PcInv /\ RefInv /\ FdInv /\ TypeOK
      /\ Users \subseteq Threads /\ "worker" \notin Users
      /\ \A a \in Threads : Drawing(a)
      /\ UNCHANGED <<lock, worker, draw, shown, late>> /\ prog[u].pc # "draw"
  BY DrawFacts DEF LcdInv, LifeInv, Close, Open, Between
<1>1. \A k \in Vmus : lcd'[k].connected = lcd[k].connected
  <2>1. CASE Close(u)
    <3>1. prog[u].fd \in Vmus /\ Live(prog[u].fd) /\ lcd[prog[u].fd].ref # 0 /\ Put(prog[u].fd)
      BY <1>0, <2>1, OpenIsLive DEF Close, Between
    <3> QED
      BY <1>0, <3>1, PutIs
  <2>2. ASSUME NEW m \in Minors, NEW flip \in Flips, Open(u, m, flip)
        PROVE  \A k \in Vmus : lcd'[k].connected = lcd[k].connected
    <3> DEFINE r == [lcd[table[m]] EXCEPT !.ref = @ + 1]
    <3>1. table[m] \in Vmus /\ lcd[table[m]] \in Lcds /\ lcd' = [lcd EXCEPT ![table[m]] = r]
      BY <1>0, <2>2 DEF Open, LcdOK
    <3>2. r.connected = lcd[table[m]].connected
      BY <3>1 DEF Lcds
    <3> HIDE DEF r
    <3> QED
      BY <1>0, <3>1, <3>2 DEF LcdOK
  <2> QED
    BY <2>1, <2>2
<1>2. \E p : /\ prog' = [prog EXCEPT ![u] = p] /\ p.pc \notin {"write", "draw"}
  <2>1. CASE Close(u)
    <3>1. prog' = [prog EXCEPT ![u] = NoProg] /\ NoProg.pc = "rest"
      BY <2>1 DEF Close, NoProg
    <3> QED
      BY <3>1
  <2>2. ASSUME NEW m \in Minors, NEW flip \in Flips, Open(u, m, flip)
        PROVE  \E p : prog' = [prog EXCEPT ![u] = p] /\ p.pc \notin {"write", "draw"}
    <3> DEFINE p == [NoProg EXCEPT !.pc = "next", !.fd = table[m], !.flip = flip]
    <3>1. prog' = [prog EXCEPT ![u] = p]
      BY <2>2 DEF Open
    <3>2. p.pc = "next"
      BY DEF NoProg
    <3> QED
      BY <3>1, <3>2
  <2> QED
    BY <2>1, <2>2
<1>3. prog'[u].pc \notin {"write", "draw"} /\ \A v \in Users \ {u} : prog'[v] = prog[v]
  BY <1>0, <1>2 DEF ThreadsOK
<1>4. draw[u] = "no"
  BY <1>0 DEF PcInv
<1>5. PcInv'
  BY <1>0, <1>3, <1>4 DEF PcInv
<1>6. ASSUME NEW a \in Threads, a # u PROVE Drawing(a)'
  <2>1. Display(a)' = Display(a) /\ Picture(a)' = Picture(a)
    BY <1>0, <1>3, <1>6 DEF Display, Picture, Threads
  <2>2. draw[a] # "no" => Display(a) \in Vmus
    BY <1>6, DisplayIs
  <2> QED
    BY <1>0, <1>1, <2>1, <2>2 DEF Drawing
<1>7. Drawing(u)'
  BY <1>0, <1>4 DEF Drawing
<1> QED
  BY <1>5, <1>6, <1>7 DEF DrawInv

\* A packet is queued, painted, not answered, or late.
LEMMA DrawPacket ==
  ASSUME LcdInv, NEW a \in Threads, Send(a) \/ Painted(a) \/ Early(a) \/ Unanswered(a)
  PROVE  DrawInv'
<1>0. /\ DrawOK /\ PcInv /\ (\A b \in Threads : Drawing(b))
      /\ UNCHANGED <<coreVars, lock, worker, prog, late>> /\ draw[a] # "no"
      /\ \A b : Display(b)' = Display(b) /\ Picture(b)' = Picture(b)
  BY DrawFacts DEF Send, Painted, Early, Queued, Unanswered, Display, Picture
<1> SUFFICES ASSUME NEW k, k = Display(a) PROVE DrawInv'
  OBVIOUS
<1>1. /\ k \in Vmus /\ lock[k] = a /\ lcd[k].connected /\ (draw[a] # "begin" => ~late[k])
  BY <1>0, DisplayIs DEF Drawing
<1>2. /\ \A b \in Threads \ {a} : draw'[b] = draw[b]
      /\ draw'[a] \in {"sent", "painted", "early", "unanswered"}
  BY <1>0 DEF DrawOK, Send, Painted, Early, Queued, Unanswered
<1>3. ~late[k]
  BY <1>0, <1>1 DEF Send, Painted, Early, Queued, Unanswered
<1>4. /\ \A j \in Vmus \ {k} : shown'[j] = shown[j]
      /\ draw'[a] = "painted" => shown'[k] = Picture(a)
  <2>1. CASE Painted(a)
    BY <1>0, <1>1, <2>1 DEF Painted, Queued, DrawOK
  <2>2. CASE Send(a) \/ Early(a) \/ Unanswered(a)
    <3>1. shown' = shown /\ draw'[a] # "painted"
      BY <1>0, <2>2 DEF Send, Early, Queued, Unanswered, DrawOK
    <3> QED
      BY <3>1
  <2> QED
    BY <2>1, <2>2
<1>5. PcInv'
  <2>1. \A b \in Threads : draw'[b] # "no" <=> draw[b] # "no"
    BY <1>0, <1>2
  <2> QED
    BY <1>0, <2>1, DrawFacts DEF PcInv
<1>6. ASSUME NEW b \in Threads, b # a PROVE Drawing(b)'
  <2>1. draw[b] # "no" => Display(b) # k /\ Display(b) \in Vmus
    BY <1>0, <1>1, <1>6, OtherDisplay, DisplayIs
  <2> QED
    BY <1>0, <1>2, <1>4, <1>6, <2>1 DEF Drawing, coreVars
<1>7. Drawing(a)'
  <2>1. Display(a)' = k /\ Picture(a)' = Picture(a)
    BY <1>0
  <2>2. lock'[k] = a /\ lcd'[k].connected /\ ~late'[k]
    BY <1>0, <1>1, <1>3 DEF coreVars
  <2> QED
    BY <1>4, <2>1, <2>2 DEF Drawing
<1> QED
  BY <1>5, <1>6, <1>7 DEF DrawInv

LEMMA DrawLands ==
  ASSUME LcdInv, NEW k \in Vmus, Lands(k)
  PROVE  DrawInv'
<1>0. /\ DrawOK /\ PcInv /\ (\A b \in Threads : Drawing(b))
      /\ UNCHANGED <<coreVars, lock, worker, prog, draw>> /\ late[k]
      /\ \A b : Display(b)' = Display(b) /\ Picture(b)' = Picture(b)
  BY DrawFacts DEF Lands, Display, Picture
<1>1. PcInv'
  BY <1>0 DEF PcInv
<1>2. \A j \in Vmus : /\ late'[j] => late[j]
                      /\ j # k => shown'[j] = shown[j]
  BY <1>0 DEF Lands, DrawOK
<1>3. ASSUME NEW b \in Threads PROVE Drawing(b)'
  <2>1. draw[b] # "no" => Display(b) \in Vmus
    BY <1>3, DisplayIs
  <2>2. draw[b] \notin {"no", "begin"} => Display(b) # k
    BY <1>0 DEF Drawing
  <2> QED
    BY <1>0, <1>2, <2>1, <2>2 DEF Drawing, coreVars
<1> QED
  BY <1>1, <1>3 DEF DrawInv

\* A thread that has the lock, or takes it, leaves the others' displays alone.
LEMMA OthersDraw ==
  ASSUME LcdInv, NEW a \in Threads, NEW k, lock[k] = a \/ lock[k] = "free",
         UNCHANGED coreVars,
         \A b \in Threads \ {a} : /\ draw'[b] = draw[b] /\ Display(b)' = Display(b)
                                  /\ Picture(b)' = Picture(b),
         \A j \in Vmus \ {k} : lock'[j] = lock[j] /\ late'[j] = late[j] /\ shown'[j] = shown[j]
  PROVE  \A b \in Threads \ {a} : Drawing(b)'
<1> SUFFICES ASSUME NEW b \in Threads \ {a} PROVE Drawing(b)'
  OBVIOUS
<1>1. Drawing(b)
  BY DrawFacts
<1>2. draw[b] # "no" => Display(b) # k /\ Display(b) \in Vmus
  BY <1>1, OtherDisplay, DisplayIs
<1> QED
  BY <1>1, <1>2 DEF Drawing, coreVars

\* A thread that does not draw takes a lock that is free.
LEMMA DrawLocks ==
  ASSUME LcdInv, NEW a \in Threads, NEW k \in Vmus, draw[a] = "no", lock[k] = "free",
         lcd[k].connected, UNCHANGED <<coreVars, shown, late>>,
         lock' = [lock EXCEPT ![k] = a], draw' = [draw EXCEPT ![a] = "begin"],
         Display(a)' = k,
         \A b \in Threads \ {a} : Display(b)' = Display(b) /\ Picture(b)' = Picture(b)
  PROVE  /\ \A b \in Threads : Drawing(b)'
         /\ draw'[a] = "begin" /\ \A b \in Threads \ {a} : draw'[b] = draw[b]
<1>1. /\ draw'[a] = "begin" /\ \A b \in Threads \ {a} : draw'[b] = draw[b]
      /\ lock'[k] = a /\ \A j \in Vmus \ {k} : lock'[j] = lock[j]
  BY DrawFacts DEF DrawOK
<1>2. \A b \in Threads \ {a} : Drawing(b)'
  BY <1>1, OthersDraw
<1>3. Drawing(a)'
  BY <1>1 DEF Drawing, coreVars
<1> QED
  BY <1>1, <1>2, <1>3

\* The one that draws gives it back.
LEMMA DrawReturns ==
  ASSUME LcdInv, NEW a \in Threads, draw[a] # "no", Returns(a), UNCHANGED coreVars,
         \A b \in Threads \ {a} : Display(b)' = Display(b) /\ Picture(b)' = Picture(b)
  PROVE  /\ \A b \in Threads : Drawing(b)'
         /\ draw'[a] = "no" /\ \A b \in Threads \ {a} : draw'[b] = draw[b]
<1> SUFFICES ASSUME NEW k, k = Display(a)
             PROVE  /\ \A b \in Threads : Drawing(b)'
                    /\ draw'[a] = "no" /\ \A b \in Threads \ {a} : draw'[b] = draw[b]
  OBVIOUS
<1>1. k \in Vmus /\ lock[k] = a
  BY DisplayIs, DrawFacts DEF Drawing
<1>2. /\ draw' = [draw EXCEPT ![a] = "no"] /\ lock' = [lock EXCEPT ![k] = "free"]
      /\ late' = IF draw[a] \in Queued THEN [late EXCEPT ![k] = TRUE] ELSE late
      /\ shown' = [shown EXCEPT ![k] = NoPicture]
  BY DEF Returns
<1>3. draw'[a] = "no" /\ \A b \in Threads \ {a} : draw'[b] = draw[b]
  BY <1>2, DrawFacts DEF DrawOK
<1>4. \A j \in Vmus \ {k} : lock'[j] = lock[j] /\ late'[j] = late[j] /\ shown'[j] = shown[j]
  BY <1>1, <1>2, DrawFacts DEF DrawOK
<1>5. \A b \in Threads \ {a} : Drawing(b)'
  BY <1>1, <1>3, <1>4, OthersDraw
<1>6. Drawing(a)'
  BY <1>3 DEF Drawing
<1> QED
  BY <1>3, <1>5, <1>6

LEMMA DrawWorker ==
  ASSUME LcdInv, SplashStarts \/ SplashLocks \/ SplashEnds
  PROVE  DrawInv'
<1>0. /\ PcInv /\ DrawOK /\ ThreadsOK
      /\ "worker" \in Threads /\ Users \subseteq Threads /\ "worker" \notin Users
      /\ (\A b \in Threads : Drawing(b)) /\ UNCHANGED <<coreVars, prog>>
      /\ \A b \in Threads \ {"worker"} : Display(b)' = Display(b) /\ Picture(b)' = Picture(b)
  BY DrawFacts DEF SplashStarts, SplashLocks, SplashEnds, Display, Picture
<1>1. ASSUME worker.pc # "draw", worker'.pc # "draw", UNCHANGED <<lock, draw, shown, late>>
      PROVE  DrawInv'
  <2>1. draw["worker"] = "no"
    BY <1>0, <1>1 DEF PcInv
  <2>2. PcInv'
    BY <1>0, <1>1 DEF PcInv
  <2>3. \A b \in Threads \ {"worker"} : Drawing(b)'
    BY <1>0, <1>1 DEF Drawing, coreVars
  <2>4. Drawing("worker")'
    BY <1>1, <2>1 DEF Drawing
  <2> QED
    BY <2>2, <2>3, <2>4 DEF DrawInv
<1>2. CASE SplashStarts
  BY <1>1, <1>2 DEF SplashStarts
<1>3. CASE SplashLocks
  <2>1. CASE worker' = [pc |-> "rest", k |-> 0] /\ UNCHANGED <<lock, draw>>
    BY <1>1, <1>3, <2>1 DEF SplashLocks
  <2>2. CASE /\ lcd[worker.k].connected
             /\ lock' = [lock EXCEPT ![worker.k] = "worker"]
             /\ draw' = [draw EXCEPT !["worker"] = "begin"]
             /\ worker' = [worker EXCEPT !.pc = "draw"]
    <3>1. /\ worker.k \in Vmus /\ draw["worker"] = "no" /\ lock[worker.k] = "free"
          /\ UNCHANGED <<coreVars, shown, late>>
      BY <1>0, <1>3 DEF SplashLocks, LcdInv, LifeInv, WorkInv, PcInv
    <3>2. Display("worker")' = worker.k /\ worker'.pc = "draw"
      BY <1>0, <2>2 DEF Display, ThreadsOK
    <3>3. /\ \A b \in Threads : Drawing(b)'
          /\ draw'["worker"] = "begin" /\ \A b \in Threads \ {"worker"} : draw'[b] = draw[b]
      <4> SUFFICES ASSUME NEW k, k = worker.k
                   PROVE  /\ \A b \in Threads : Drawing(b)'
                          /\ draw'["worker"] = "begin"
                          /\ \A b \in Threads \ {"worker"} : draw'[b] = draw[b]
        OBVIOUS
      <4> QED
        BY <1>0, <2>2, <3>1, <3>2, DrawLocks
    <3>4. PcInv'
      BY <1>0, <3>2, <3>3 DEF PcInv
    <3> QED
      BY <3>3, <3>4 DEF DrawInv
  <2> QED
    BY <1>3, <2>1, <2>2 DEF SplashLocks
<1>4. CASE SplashEnds
  <2>1. draw["worker"] # "no" /\ Returns("worker") /\ worker'.pc = "rest"
    BY <1>0, <1>4 DEF SplashEnds, PcInv
  <2>2. /\ \A b \in Threads : Drawing(b)'
        /\ draw'["worker"] = "no" /\ \A b \in Threads \ {"worker"} : draw'[b] = draw[b]
    BY <1>0, <2>1, DrawReturns
  <2>3. PcInv'
    BY <1>0, <2>1, <2>2 DEF PcInv
  <2> QED
    BY <2>2, <2>3 DEF DrawInv
<1> QED
  BY <1>2, <1>3, <1>4

LEMMA DrawProgs ==
  ASSUME LcdInv, NEW u \in Users, NextFrame(u) \/ OnSignal(u) \/ Write(u) \/ WriteReturns(u)
  PROVE  DrawInv'
<1>0. /\ PcInv /\ DrawOK /\ prog \in [Users -> Progs] /\ prog[u] \in Progs
      /\ "worker" \in Threads /\ u \in Threads /\ Users \subseteq Threads /\ "worker" \notin Users
      /\ \A b \in Threads : Drawing(b)
  BY DrawFacts DEF ThreadsOK
<1>1. /\ UNCHANGED coreVars /\ UNCHANGED queue /\ UNCHANGED worker
      /\ \A v \in Users \ {u} : prog'[v] = prog[v]
      /\ prog[u].pc # "rest" /\ prog'[u].pc # "rest" /\ prog'[u].fd = prog[u].fd
  BY ProgStep
<1>2. \A b \in Threads \ {u} : Display(b)' = Display(b) /\ Picture(b)' = Picture(b)
  BY <1>1 DEF Display, Picture, Threads
<1>3. ASSUME UNCHANGED <<lock, draw, shown, late>>,
             prog'[u].pc = "draw" <=> prog[u].pc = "draw",
             prog'[u].pc \in {"write", "draw"} => prog'[u].turned = prog'[u].flip,
             draw[u] # "no" => Display(u)' = Display(u) /\ Picture(u)' = Picture(u)
      PROVE  DrawInv'
  <2>1. PcInv'
    BY <1>0, <1>1, <1>3 DEF PcInv
  <2>2. \A b \in Threads : Drawing(b)'
    BY <1>0, <1>1, <1>2, <1>3 DEF Drawing, coreVars
  <2> QED
    BY <2>1, <2>2 DEF DrawInv
<1>4. CASE NextFrame(u)
  <2> DEFINE p == [prog[u] EXCEPT !.pc = "write", !.n = 1 - @, !.turned = prog[u].flip, !.attempts = 0]
  <2>1. /\ prog' = [prog EXCEPT ![u] = p] /\ prog[u].pc # "draw"
        /\ UNCHANGED <<lock, draw, shown, late>>
    BY <1>4 DEF NextFrame, Between
  <2>2. p.pc = "write" /\ p.turned = prog[u].flip /\ p.flip = prog[u].flip
    BY <1>0 DEF Progs
  <2> HIDE DEF p
  <2>3. prog'[u] = p /\ draw[u] = "no"
    BY <1>0, <2>1 DEF PcInv
  <2> QED
    BY <1>3, <2>1, <2>2, <2>3
<1>5. CASE OnSignal(u)
  <2> DEFINE p == [prog[u] EXCEPT !.stop = TRUE]
  <2>1. prog' = [prog EXCEPT ![u] = p] /\ UNCHANGED <<lock, draw, shown, late>>
    BY <1>5 DEF OnSignal
  <2>2. /\ p.pc = prog[u].pc /\ p.turned = prog[u].turned /\ p.flip = prog[u].flip
        /\ p.fd = prog[u].fd /\ p.n = prog[u].n
    BY <1>0 DEF Progs
  <2> HIDE DEF p
  <2>3. prog'[u] = p
    BY <1>0, <2>1
  <2>4. Display(u)' = Display(u) /\ Picture(u)' = Picture(u)
    BY <1>0, <2>2, <2>3 DEF Display, Picture
  <2>5. prog'[u].pc \in {"write", "draw"} => prog'[u].turned = prog'[u].flip
    BY <1>0, <2>2, <2>3 DEF PcInv
  <2> QED
    BY <1>3, <2>1, <2>2, <2>3, <2>4, <2>5
<1>6. CASE Write(u)
  <2>1. /\ prog[u].pc = "write" /\ lock[prog[u].fd] = "free" /\ UNCHANGED <<coreVars, shown, late>>
        /\ prog[u].fd \in Vmus /\ draw[u] = "no" /\ prog[u].turned = prog[u].flip
    <3>1. /\ prog[u].pc = "write" /\ lock[prog[u].fd] = "free" /\ UNCHANGED <<coreVars, shown, late>>
      BY <1>6 DEF Write
    <3>2. prog[u].fd \in Vmus
      BY <1>1, OpenIsLive DEF LcdInv, LifeInv
    <3> QED
      BY <1>0, <3>1, <3>2 DEF PcInv
  <2>2. CASE /\ lcd[prog[u].fd].connected /\ lock' = [lock EXCEPT ![prog[u].fd] = u]
             /\ draw' = [draw EXCEPT ![u] = "begin"] /\ prog' = [prog EXCEPT ![u].pc = "draw"]
    <3> DEFINE p == [prog[u] EXCEPT !.pc = "draw"]
    <3>1. p.pc = "draw" /\ p.turned = prog[u].turned /\ p.flip = prog[u].flip
      BY <1>0 DEF Progs
    <3>2. prog' = [prog EXCEPT ![u] = p]
      BY <2>2
    <3> HIDE DEF p
    <3>3. prog'[u] = p /\ Display(u)' = prog[u].fd
      BY <1>0, <1>1, <3>2 DEF Display
    <3>4. /\ \A b \in Threads : Drawing(b)'
          /\ draw'[u] = "begin" /\ \A b \in Threads \ {u} : draw'[b] = draw[b]
      <4> SUFFICES ASSUME NEW k, k = prog[u].fd
                   PROVE  /\ \A b \in Threads : Drawing(b)'
                          /\ draw'[u] = "begin" /\ \A b \in Threads \ {u} : draw'[b] = draw[b]
        OBVIOUS
      <4> QED
        BY <1>0, <1>2, <2>1, <2>2, <3>3, DrawLocks
    <3>5. PcInv'
      BY <1>0, <1>1, <2>1, <3>1, <3>3, <3>4 DEF PcInv
    <3> QED
      BY <3>4, <3>5 DEF DrawInv
  <2>3. CASE prog' = [prog EXCEPT ![u] = Ending(@)] /\ UNCHANGED <<lock, draw>>
    <3>1. prog'[u].pc = "close"
      BY <1>0, <2>3, ProgIs
    <3> QED
      BY <1>3, <2>1, <2>3, <3>1
  <2> QED
    BY <1>6, <2>2, <2>3 DEF Write
<1>7. CASE WriteReturns(u)
  <2>1. /\ draw[u] # "no" /\ Returns(u) /\ prog[u].turned = prog[u].flip
    BY <1>0, <1>7 DEF WriteReturns, PcInv
  <2>2. \E result : prog' = [prog EXCEPT ![u] = AfterWrite(prog[u], result)]
                    \/ prog' = [prog EXCEPT ![u] = Ending(prog[u])]
    BY <1>0, <1>7 DEF WriteReturns
  <2>3. /\ prog'[u].pc # "draw"
        /\ prog'[u].pc = "write" => prog'[u].turned = prog'[u].flip
    <3>1. /\ Ending(prog[u]).pc = "close"
          /\ \A result : /\ AfterWrite(prog[u], result).pc # "draw"
                         /\ AfterWrite(prog[u], result).turned = prog[u].turned
                         /\ AfterWrite(prog[u], result).flip = prog[u].flip
      BY <1>0, ProgIs
    <3> QED
      BY <1>0, <2>1, <2>2, <3>1
  <2>4. /\ \A b \in Threads : Drawing(b)'
        /\ draw'[u] = "no" /\ \A b \in Threads \ {u} : draw'[b] = draw[b]
    BY <1>0, <1>1, <1>2, <2>1, DrawReturns
  <2>5. PcInv'
    BY <1>0, <1>1, <2>3, <2>4 DEF PcInv
  <2> QED
    BY <2>4, <2>5 DEF DrawInv
<1> QED
  BY <1>4, <1>5, <1>6, <1>7

LEMMA DrawInit == Init => DrawInv
  BY DEF Init, DrawInv, PcInv, Drawing, NoProg, Threads

LEMMA DrawNext == LcdInv /\ [Next]_vars => DrawInv'
<1> SUFFICES ASSUME LcdInv, [Next]_vars PROVE DrawInv'
  OBVIOUS
<1>1. CASE UNCHANGED vars
  BY <1>1 DEF LcdInv, DrawInv, PcInv, Drawing, Display, Picture, vars, coreVars
<1>2. CASE Core
  BY <1>2, DrawPlug
<1>3. CASE Worker
  <2>1. "worker" \in Threads
    BY DEF Threads
  <2> QED
    BY <1>3, <2>1, DrawWorker, DrawPacket DEF Worker
<1>4. ASSUME NEW k \in Vmus, Register(k) \/ Unregister(k) \/ Lands(k) PROVE DrawInv'
  BY <1>4, DrawPlug, DrawLands
<1>5. ASSUME NEW a \in Threads, Painted(a) \/ Early(a) \/ Unanswered(a) PROVE DrawInv'
  BY <1>5, DrawPacket
<1>6. ASSUME NEW u \in Users, InKernel(u) \/ NextFrame(u) \/ OnSignal(u) \/ Close(u) PROVE DrawInv'
  <2>1. u \in Threads
    BY DEF Threads
  <2> QED
    BY <1>6, <2>1, DrawPacket, DrawProgs, DrawOpenClose DEF InKernel
<1>7. ASSUME NEW u \in Users, NEW m \in Minors, NEW flip \in Flips, Open(u, m, flip) PROVE DrawInv'
  BY <1>7, DrawOpenClose
<1> QED
  BY <1>1, <1>2, <1>3, <1>4, <1>5, <1>6, <1>7 DEF Next

-----------------------------------------------------------------------------
(* Theorems.                                                               *)

\* The references, the table, the queue, the node and the lock of every display fit
\* together, however VMUs are plugged in and pulled while programs and the splash
\* use them (vmu_lcd_register to vmu_lcd_close).
THEOREM LcdInvHolds == Spec => []LcdInv
<1>1. Init => LcdInv
  BY TypeInit, LifeInit, DrawInit DEF LcdInv
<1>2. LcdInv /\ [Next]_vars => LcdInv'
  BY TypeNext, LifeNext, DrawNext DEF LcdInv
<1> QED
  BY <1>1, <1>2, PTL DEF Spec

\* Nobody has a display that was freed, and nobody draws on a VMU that is gone.
THEOREM LcdAliveHolds == Spec => []LcdAlive
<1>1. LcdInv => LcdAlive
  <2> SUFFICES ASSUME LcdInv PROVE LcdAlive
    OBVIOUS
  <2>0. TypeOK /\ RefInv /\ TableInv /\ MinorInv /\ WorkInv /\ FdInv
    BY DEF LcdInv, LifeInv
  <2>1. \A m \in Minors : table[m] # 0 => Live(table[m]) /\ lcd[table[m]].minor = m
    BY <2>0 DEF TableInv, Holding
  <2>2. /\ \A n \in DOMAIN queue : Live(queue[n])
        /\ worker.pc # "rest" => Live(worker.k)
    BY <2>0 DEF WorkInv, Holding
  <2>3. \A u \in Users : prog[u].pc # "rest" => Live(prog[u].fd)
    BY <2>0, OpenIsLive
  <2>4. \A j, k \in Vmus : Live(j) /\ Live(k) /\ lcd[j].minor = lcd[k].minor => j = k
    BY <2>0 DEF MinorInv
  <2>5. nodes \subseteq ida
    BY <2>0 DEF MinorInv, Holding
  <2>6. ASSUME NEW a \in Threads, draw[a] # "no" PROVE mdev[Display(a)] = "here"
    <3>1. Display(a) \in Vmus /\ lcd[Display(a)].connected
      BY <2>6, DisplayIs, DrawFacts DEF Drawing
    <3> QED
      BY <2>0, <3>1 DEF RefInv, Holding
  <2> QED
    BY <2>1, <2>2, <2>3, <2>4, <2>5, <2>6 DEF LcdAlive
<1> QED
  BY <1>1, LcdInvHolds, PTL

\* When vmu_lcd_anim counts a frame, the display got it last, the right way up.
THEOREM FrameShownHolds == Spec => FrameShown
<1> DEFINE Counted == \A u \in Users :
                        prog[u].pc = "draw" /\ prog'[u].pc = "counted" =>
                          \/ draw[u] \in {"unanswered", "early"}
                          \/ shown[prog[u].fd] = Frame(u, prog[u].n, prog[u].flip)
<1>1. LcdInv /\ [Next]_vars => Counted
  <2> SUFFICES ASSUME LcdInv, [Next]_vars, NEW u \in Users,
                      prog[u].pc = "draw", prog'[u].pc = "counted"
               PROVE  \/ draw[u] \in {"unanswered", "early"}
                      \/ shown[prog[u].fd] = Frame(u, prog[u].n, prog[u].flip)
    OBVIOUS
  <2>0. /\ PcInv /\ Drawing(u) /\ u # "worker" /\ u \in Threads /\ DrawOK
        /\ prog \in [Users -> Progs] /\ prog[u] \in Progs
    BY DrawFacts DEF ThreadsOK
  <2>1. WriteReturns(u)
    <3>1. prog' # prog
      OBVIOUS
    <3>2. ASSUME NEW v \in Users, NextFrame(v) \/ OnSignal(v) \/ Write(v) \/ WriteReturns(v)
          PROVE  WriteReturns(u)
      <4>1. v = u
        BY <3>2, ProgStep
      <4>2. ~NextFrame(u) /\ ~Write(u)
        BY DEF NextFrame, Write, Between
      <4>3. ~OnSignal(u)
        <5>1. [prog[u] EXCEPT !.stop = TRUE].pc = prog[u].pc
          BY <2>0 DEF Progs
        <5> QED
          BY <2>0, <5>1 DEF OnSignal
      <4> QED
        BY <3>2, <4>1, <4>2, <4>3
    <3>3. ASSUME NEW v \in Users, Close(v) \/ \E m \in Minors, flip \in Flips : Open(v, m, flip)
          PROVE  FALSE
      <4>1. \E p : prog' = [prog EXCEPT ![v] = p] /\ p.pc # "counted"
        <5>1. /\ NoProg.pc = "rest"
              /\ \A k, flip :
                   [NoProg EXCEPT !.pc = "next", !.fd = k, !.flip = flip].pc = "next"
          BY DEF NoProg
        <5>2. CASE Close(v)
          BY <5>1, <5>2 DEF Close
        <5>3. ASSUME NEW m \in Minors, NEW flip \in Flips, Open(v, m, flip)
              PROVE  \E p : prog' = [prog EXCEPT ![v] = p] /\ p.pc # "counted"
          BY <5>1, <5>3 DEF Open
        <5> QED
          BY <3>3, <5>2, <5>3
      <4> QED
        BY <2>0, <4>1
    <3>4. ~UNCHANGED vars /\ ~Core
      BY <3>1 DEF vars, Core, Registered, Disconnect, Unregistered
    <3>5. ~Worker
      BY <3>1 DEF Worker, SplashStarts, SplashLocks, SplashEnds, Send
    <3>6. /\ \A k \in Vmus : ~Register(k) /\ ~Unregister(k) /\ ~Lands(k)
          /\ \A a \in Threads : ~Painted(a) /\ ~Early(a) /\ ~Unanswered(a) /\ ~Send(a)
      BY <3>1 DEF Register, Unregister, Lands, Painted, Early, Queued, Unanswered, Send
    <3> QED
      BY <2>0, <3>2, <3>3, <3>4, <3>5, <3>6, DrawFacts DEF Next, InKernel
  <2>2. "ok" \in Results(u)
    <3>1. PICK result \in Results(u) :
            prog' = [prog EXCEPT ![u] = IF u \in Animators THEN AfterWrite(prog[u], result)
                                        ELSE Ending(prog[u])]
      BY <2>1 DEF WriteReturns
    <3>2. prog'[u] = IF u \in Animators THEN AfterWrite(prog[u], result) ELSE Ending(prog[u])
      BY <2>0, <3>1
    <3>3. AfterWrite(prog[u], result).pc = "counted"
      BY <2>0, <3>2, ProgIs
    <3>4. result = "ok"
      BY <2>0, <3>3, ProgIs
    <3> QED
      BY <3>1, <3>4
  <2>3. draw[u] \in {"painted", "early", "unanswered"}
    <3>1. draw[u] \in {"no", "begin", "sent", "painted", "early", "unanswered"} /\ draw[u] # "no"
      BY <2>0 DEF PcInv, DrawOK
    <3>2. draw[u] # "begin" /\ draw[u] # "sent"
      BY <2>2 DEF Results
    <3> QED
      BY <3>1, <3>2
  <2>4. draw[u] = "painted" => shown[prog[u].fd] = Frame(u, prog[u].n, prog[u].flip)
    BY <2>0 DEF Drawing, Display, Picture, PcInv
  <2> QED
    BY <2>3, <2>4
<1>2. LcdInv /\ [Next]_vars => [Counted]_vars
  BY <1>1
<1> QED
  BY <1>2, LcdInvHolds, PTL DEF Spec, FrameShown
=============================================================================
