------------------------------- MODULE VmuLcd -------------------------------
(***************************************************************************)
(* vmu-lcd: a display is registered when a VMU is plugged in and            *)
(* unregistered when it is pulled, while a splash is drawn on it and         *)
(* programs have it open and write pictures.                               *)
(*                                                                         *)
(* A VMU is the number of its plugging; its struct vmu_lcd and its Maple     *)
(* device have the same number.  How a draw uses the bus is VmuBus's        *)
(* subject: here a packet is painted, not answered, or late.                *)
(***************************************************************************)
EXTENDS Naturals, FiniteSets, SequencesExt

CONSTANTS
  Users,          \* processes that run programs
  Animators,      \* those that run vmu_lcd_anim, and no program that writes once
  Flips,          \* whether programs are told to rotate their pictures
  Plugs,          \* bound: how often a VMU is plugged in
  MaxDevs,        \* VMU_LCD_MAX_DEVS
  FRAME_RETRY_MAX \* how often a frame is sent again

ASSUME LcdAssumption ==
  /\ {"worker", "core", "free"} \cap Users = {}
  /\ Animators \subseteq Users /\ Flips \subseteq BOOLEAN
  /\ Plugs \in Nat /\ MaxDevs \in Nat \ {0} /\ FRAME_RETRY_MAX \in Nat

VARIABLES
  mdev,    \* the Maple device: "none", "here", or "gone" and freed
  lcd,     \* struct vmu_lcd: state, minor, references, connected
  lock,    \* lcd->lock: who holds it
  table,   \* vmu_lcd_table: per minor a VMU, or 0
  ida,     \* vmu_lcd_ida: the minors that are taken
  nodes,   \* the minors that have a device node
  core,    \* the Maple core: what it does, and for which VMU
  queue,   \* vmu_lcd_wq: splash works that are pending
  worker,  \* its worker: what it does, and for which VMU
  prog,    \* per user: the program that runs
  draw,    \* per thread: "no", or how far the packet that it draws with is
  shown,   \* what was painted last since the lock was taken
  late     \* whether the packet of a draw that timed out is still queued

coreVars == <<mdev, lcd, table, ida, nodes, core>>
vars == <<coreVars, lock, queue, worker, prog, draw, shown, late>>

Vmus == 1..Plugs
Minors == 0..(MaxDevs - 1)
Threads == Users \cup {"worker"}

NoPicture == [by |-> "nobody"]
OldPicture == [by |-> "late"]
Splash == [by |-> "splash"]
Frame(u, n, turned) == [by |-> u, n |-> n, turned |-> turned]

NoLcd == [state |-> "none", minor |-> 0, ref |-> 0, connected |-> FALSE]
NoProg == [pc |-> "rest", fd |-> 0, flip |-> FALSE, n |-> 0,
           turned |-> FALSE, attempts |-> 0, stop |-> FALSE]

Init ==
  /\ mdev = [k \in Vmus |-> "none"] /\ lcd = [k \in Vmus |-> NoLcd]
  /\ lock = [k \in Vmus |-> "free"]
  /\ table = [m \in Minors |-> 0] /\ ida = {} /\ nodes = {}
  /\ core = [pc |-> "rest", k |-> 0]
  /\ queue = <<>> /\ worker = [pc |-> "rest", k |-> 0]
  /\ prog = [u \in Users |-> NoProg] /\ draw = [a \in Threads |-> "no"]
  /\ shown = [k \in Vmus |-> NoPicture] /\ late = [k \in Vmus |-> FALSE]

-----------------------------------------------------------------------------
(* vmu_lcd_register and vmu_lcd_unregister, in the Maple core's bottom half. *)

Pluggable(k) == mdev[k] = "none" /\ \A j \in 1..(k - 1) : mdev[j] # "none"

\* vmu_lcd_register up to device_create: the smallest minor that is free.  Without
\* a minor, or without the device, the VMU has no display.
Register(k) ==
  /\ core.pc = "rest" /\ Pluggable(k)
  /\ mdev' = [mdev EXCEPT ![k] = "here"]
  /\ \/ UNCHANGED <<lcd, ida, nodes, core>>
     \/ \E m \in Minors \ ida :
          /\ \A l \in Minors \ ida : m <= l
          /\ lcd' = [lcd EXCEPT ![k] = [state |-> "live", minor |-> m, ref |-> 1,
                                        connected |-> TRUE]]
          /\ ida' = ida \cup {m} /\ nodes' = nodes \cup {m}
          /\ core' = [pc |-> "register", k |-> k]
  /\ UNCHANGED <<lock, table, queue, worker, prog, draw, shown, late>>

\* The display can be opened, and the splash is queued.
Registered ==
  /\ core.pc = "register"
  /\ table' = [table EXCEPT ![lcd[core.k].minor] = core.k]
  /\ queue' = Append(queue, core.k)
  /\ core' = [pc |-> "rest", k |-> 0]
  /\ UNCHANGED <<mdev, lcd, ida, nodes, lock, worker, prog, draw, shown, late>>

\* The core finds the VMU gone: the display can no longer be opened.
Unregister(k) ==
  /\ core.pc = "rest" /\ mdev[k] = "here"
  /\ \/ /\ \A m \in Minors : table[m] # k
        /\ mdev' = [mdev EXCEPT ![k] = "gone"]
        /\ UNCHANGED <<table, core>>
     \/ \E m \in Minors :
          /\ table[m] = k
          /\ table' = [table EXCEPT ![m] = 0]
          /\ core' = [pc |-> "lock", k |-> k]
          /\ UNCHANGED mdev
  /\ UNCHANGED <<lcd, ida, nodes, lock, queue, worker, prog, draw, shown, late>>

\* Once no draw is running, the display is disconnected.
Disconnect ==
  /\ core.pc = "lock" /\ lock[core.k] = "free"
  /\ lcd' = [lcd EXCEPT ![core.k].connected = FALSE]
  /\ core' = [core EXCEPT !.pc = "cancel"]
  /\ UNCHANGED <<mdev, table, ida, nodes, lock, queue, worker, prog, draw, shown, late>>

\* kref_put; the last reference frees the minor and the structure.
Put(k) ==
  IF lcd[k].ref = 1
  THEN /\ lcd' = [lcd EXCEPT ![k].ref = 0, ![k].state = "freed"]
       /\ ida' = ida \ {lcd[k].minor}
  ELSE lcd' = [lcd EXCEPT ![k].ref = @ - 1] /\ UNCHANGED ida

\* Fault: the splash is not cancelled.
UnregisteredUncancelled ==
  /\ core.pc = "cancel"
  /\ nodes' = nodes \ {lcd[core.k].minor}
  /\ Put(core.k)
  /\ mdev' = [mdev EXCEPT ![core.k] = "gone"]
  /\ core' = [pc |-> "rest", k |-> 0]
  /\ UNCHANGED <<table, queue, lock, worker, prog, draw, shown, late>>

\* A work is in the queue once, if at all.
Without(q, k) ==
  LET pending == {n \in DOMAIN q : q[n] = k}
  IN  IF pending = {} THEN q ELSE RemoveAt(q, CHOOSE n \in pending : TRUE)

\* cancel_work_sync takes a pending splash from the queue and waits for a running
\* one; then the node goes, the reference, and the Maple device.
Unregistered ==
  /\ core.pc = "cancel" /\ worker.k # core.k
  /\ queue' = Without(queue, core.k)
  /\ nodes' = nodes \ {lcd[core.k].minor}
  /\ Put(core.k)
  /\ mdev' = [mdev EXCEPT ![core.k] = "gone"]
  /\ core' = [pc |-> "rest", k |-> 0]
  /\ late' = [late EXCEPT ![core.k] = FALSE]
  /\ UNCHANGED <<table, lock, worker, prog, draw, shown>>

Core == Registered \/ Disconnect \/ Unregistered

-----------------------------------------------------------------------------
(* vmu_lcd_draw.                                                           *)

\* The display that a thread has at hand, and its picture.
Display(a) == IF a = "worker" THEN worker.k ELSE prog[a].fd
Picture(a) ==
  IF a = "worker" THEN Splash ELSE Frame(a, prog[a].n, prog[a].turned)

\* The device is idle, and the packet is queued.
Send(a) ==
  /\ draw[a] = "begin" /\ ~late[Display(a)]
  /\ draw' = [draw EXCEPT ![a] = "sent"]
  /\ UNCHANGED <<coreVars, lock, queue, worker, prog, shown, late>>

\* The bus moves on while the core is not held up in its bottom half.
BusRuns == core.pc = "rest"

\* The packet is queued, or on the wire.
Queued == {"sent", "early"}

Painted(a) ==
  /\ draw[a] \in Queued /\ BusRuns
  /\ draw' = [draw EXCEPT ![a] = "painted"]
  /\ shown' = [shown EXCEPT ![Display(a)] = Picture(a)]
  /\ UNCHANGED <<coreVars, lock, queue, worker, prog, late>>

Unanswered(a) ==
  /\ draw[a] \in Queued /\ BusRuns
  /\ draw' = [draw EXCEPT ![a] = "unanswered"]
  /\ UNCHANGED <<coreVars, lock, queue, worker, prog, shown, late>>

\* The reply to another packet makes the device idle while this one is queued: the
\* core's poll, or a block read, had taken the device at the same time.
Early(a) ==
  /\ draw[a] = "sent" /\ BusRuns
  /\ draw' = [draw EXCEPT ![a] = "early"]
  /\ UNCHANGED <<coreVars, lock, queue, worker, prog, shown, late>>

\* A packet that was late is painted, or not answered.
Lands(k) ==
  /\ late[k] /\ BusRuns /\ mdev[k] = "here"
  /\ late' = [late EXCEPT ![k] = FALSE]
  /\ \/ lock[k] # "free" /\ shown' = [shown EXCEPT ![k] = OldPicture]
     \/ UNCHANGED shown
  /\ UNCHANGED <<coreVars, lock, queue, worker, prog, draw>>

\* The flag says how the packet ended; but if vmu-flash has begun a block read with
\* busy = 1 before the draw looks, it speaks of that.
AfterEnd == {"ok", "ENXIO", "EIO", "ERESTARTSYS"}

\* Fault: a draw waits for the end of its packet, however long it takes.
ResultsUntimed(a) ==
  CASE draw[a] = "begin" -> {"EBUSY", "ENOMEM"}
    [] draw[a] = "sent" -> {}
    [] OTHER -> AfterEnd

\* What vmu_lcd_draw may return: another packet occupies the device or there is no
\* memory for this one; it times out, or a signal comes; or it is painted or not
\* answered, or the reply to another packet is taken for its own.
Results(a) ==
  CASE draw[a] = "begin" -> {"EBUSY", "ENOMEM"}
    [] draw[a] = "sent" -> {"EIO", "ERESTARTSYS"}
    [] OTHER -> AfterEnd

\* It returns, and the lock is given back.  A packet that was not sent stays queued.
Returns(a) ==
  /\ draw' = [draw EXCEPT ![a] = "no"]
  /\ lock' = [lock EXCEPT ![Display(a)] = "free"]
  /\ late' = IF draw[a] \in Queued THEN [late EXCEPT ![Display(a)] = TRUE] ELSE late
  /\ shown' = [shown EXCEPT ![Display(a)] = NoPicture]

-----------------------------------------------------------------------------
(* vmu_lcd_splash_work.                                                    *)

SplashStarts ==
  /\ worker.pc = "rest" /\ queue # <<>>
  /\ worker' = [pc |-> "lock", k |-> Head(queue)] /\ queue' = Tail(queue)
  /\ UNCHANGED <<coreVars, lock, prog, draw, shown, late>>

SplashLocks ==
  /\ worker.pc = "lock" /\ lock[worker.k] = "free"
  /\ \/ /\ lcd[worker.k].connected
        /\ lock' = [lock EXCEPT ![worker.k] = "worker"]
        /\ draw' = [draw EXCEPT !["worker"] = "begin"]
        /\ worker' = [worker EXCEPT !.pc = "draw"]
     \/ /\ ~lcd[worker.k].connected
        /\ worker' = [pc |-> "rest", k |-> 0]
        /\ UNCHANGED <<lock, draw>>
  /\ UNCHANGED <<coreVars, queue, prog, shown, late>>

SplashEnds ==
  /\ worker.pc = "draw" /\ Results("worker") \ {"ERESTARTSYS"} # {}
  /\ Returns("worker")
  /\ worker' = [pc |-> "rest", k |-> 0]
  /\ UNCHANGED <<coreVars, queue, prog>>

Worker == SplashStarts \/ SplashLocks \/ SplashEnds \/ Send("worker")

-----------------------------------------------------------------------------
(* The programs: vmu_lcd_anim, and those that write one picture.            *)

\* vmu_lcd_open, through a node.
Open(u, m, flip) ==
  /\ prog[u].pc = "rest" /\ m \in nodes
  /\ table[m] # 0
  /\ lcd' = [lcd EXCEPT ![table[m]].ref = @ + 1]
  /\ prog' = [prog EXCEPT ![u] = [NoProg EXCEPT !.pc = "next", !.fd = table[m],
                                                !.flip = flip]]
  /\ UNCHANGED <<mdev, table, ida, nodes, core, lock, queue, worker, draw, shown, late>>

\* Between two frames: the last one was counted, or there is none.
Between == {"next", "counted"}

\* The next frame is read or composed, and rotated if the VMU sits in a controller.
NextFrame(u) ==
  /\ prog[u].pc \in Between /\ ~prog[u].stop
  /\ prog' = [prog EXCEPT ![u].pc = "write", ![u].n = 1 - @,
                          ![u].turned = prog[u].flip, ![u].attempts = 0]
  /\ UNCHANGED <<coreVars, lock, queue, worker, draw, shown, late>>

Ending(p) == [p EXCEPT !.pc = "close"]

\* vmu_lcd_write: the lock is taken, if the display is still there.
Write(u) ==
  LET k == prog[u].fd IN
  /\ prog[u].pc = "write" /\ lock[k] = "free"
  /\ \/ /\ lcd[k].connected
        /\ lock' = [lock EXCEPT ![k] = u]
        /\ draw' = [draw EXCEPT ![u] = "begin"]
        /\ prog' = [prog EXCEPT ![u].pc = "draw"]
     \/ /\ ~lcd[k].connected
        /\ prog' = [prog EXCEPT ![u] = Ending(@)]
        /\ UNCHANGED <<lock, draw>>
  /\ UNCHANGED <<coreVars, queue, worker, shown, late>>

\* Fault: the frame is rotated whenever it is sent.
AgainRotated(p) ==
  [p EXCEPT !.pc = "write", !.attempts = @ + 1, !.turned = (@ # p.flip)]

\* The frame is sent again.
Again(p) == [p EXCEPT !.pc = "write", !.attempts = @ + 1]

\* put_frame, when write has returned: the frame is counted, dropped, sent again,
\* or the program ends.  A signal that is handled restarts the write.
AfterWrite(p, result) ==
  CASE result = "ok" -> [p EXCEPT !.pc = "counted"]
    [] result = "ERESTARTSYS" -> [p EXCEPT !.pc = "write"]
    [] result \in {"EBUSY", "ENXIO"} ->
         IF p.stop \/ p.attempts + 1 > FRAME_RETRY_MAX THEN [p EXCEPT !.pc = "next"]
         ELSE Again(p)
    [] OTHER -> Ending(p)

\* The other programs write once, and end.
WriteReturns(u) ==
  /\ prog[u].pc = "draw"
  /\ \E result \in Results(u) :
       /\ u \in Animators /\ result = "ERESTARTSYS" => prog[u].stop
       /\ prog' = [prog EXCEPT ![u] =
                     IF u \in Animators THEN AfterWrite(@, result) ELSE Ending(@)]
  /\ Returns(u)
  /\ UNCHANGED <<coreVars, queue, worker>>

\* A signal comes; between two frames it ends the program, as the end of the
\* stream does.
OnSignal(u) ==
  /\ prog[u].pc \in {"write", "draw"} /\ ~prog[u].stop /\ u \in Animators
  /\ prog' = [prog EXCEPT ![u].stop = TRUE]
  /\ UNCHANGED <<coreVars, lock, queue, worker, draw, shown, late>>

\* The stream is at its end, or the program failed: vmu_lcd_close.
Close(u) ==
  /\ prog[u].pc \in Between \cup {"close"}
  /\ Put(prog[u].fd)
  /\ prog' = [prog EXCEPT ![u] = NoProg]
  /\ UNCHANGED <<mdev, table, nodes, core, lock, queue, worker, draw, shown, late>>

InKernel(u) == Write(u) \/ Send(u) \/ WriteReturns(u)

-----------------------------------------------------------------------------

Next ==
  \/ Core \/ Worker
  \/ \E k \in Vmus : Register(k) \/ Unregister(k) \/ Lands(k)
  \/ \E a \in Threads : Painted(a) \/ Early(a) \/ Unanswered(a)
  \/ \E u \in Users :
       \/ InKernel(u) \/ NextFrame(u) \/ OnSignal(u) \/ Close(u)
       \/ \E m \in Minors, flip \in Flips : Open(u, m, flip)

Spec == Init /\ [][Next]_vars

\* A thread in the kernel goes on, and the one that waits for a lock that is given
\* back again and again has it in the end.
FairSpec == /\ Spec
            /\ SF_vars(Core) /\ WF_vars(SplashEnds) /\ WF_vars(SplashLocks)
            /\ \A u \in Users : WF_vars(WriteReturns(u))

-----------------------------------------------------------------------------
(* Properties.                                                             *)

\* The structure is there.
Live(k) == lcd[k].state = "live"

\* Nobody has a display that was freed: neither the table, nor a pending or
\* running splash, nor a program; a live display has its minor alone, and no
\* node leads to a minor that is given away; and nobody draws on a VMU that the
\* core took for gone and freed.
LcdAlive ==
  /\ \A m \in Minors : table[m] # 0 => Live(table[m]) /\ lcd[table[m]].minor = m
  /\ \A n \in DOMAIN queue : Live(queue[n])
  /\ worker.pc # "rest" => Live(worker.k)
  /\ \A u \in Users : prog[u].pc # "rest" => Live(prog[u].fd)
  /\ \A j, k \in Vmus : Live(j) /\ Live(k) /\ lcd[j].minor = lcd[k].minor => j = k
  /\ nodes \subseteq ida
  /\ \A a \in Threads : draw[a] # "no" => mdev[Display(a)] = "here"

\* When a frame is counted the display got it last, the right way up, however often
\* it was sent; unless a block read hid that the VMU did not answer, or the reply to
\* another packet ended the draw before its own was sent.
FrameShown ==
  [][\A u \in Users :
       prog[u].pc = "draw" /\ prog'[u].pc = "counted" =>
         \/ draw[u] \in {"unanswered", "early"}
         \/ shown[prog[u].fd] = Frame(u, prog[u].n, prog[u].flip)]_vars

\* The core gets through the removal of a display, although the draw that it waits
\* for waits for the core.
RemovalEnds == core.pc # "rest" ~> core.pc = "rest"
=============================================================================
