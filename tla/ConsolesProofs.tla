--------------------------- MODULE ConsolesProofs ---------------------------
(***************************************************************************)
(* Proofs about Consoles: for any number of consoles and of processes, a   *)
(* console has one manager, the one PID 1 has recorded, and this manager   *)
(* runs one shell at a time.                                               *)
(***************************************************************************)
EXTENDS Consoles, TLAPS

LEMMA ConstantFacts ==
  /\ Consoles \subseteq Nat /\ 1 \in Consoles
  /\ \A p \in Pids : p \in Nat /\ p # Init1 /\ p # NoPid
  /\ Pids \union {NoPid, Init1} \subseteq Int
  /\ \A c \in Consoles : c \in 1..(NR_CONSOLES + 1)
  /\ \A c \in Consoles : c + 1 \in 1..(NR_CONSOLES + 1)
  /\ 1 \in 1..(NR_CONSOLES + 1)
BY ConsolesAssumption DEF Consoles, Init1, NoPid

\* PID 1 forks a manager for a console that has none.
LEMMA StartManagerInv ==
  ASSUME IInv, cur \in Consoles, StartManager(cur), UNCHANGED zombies,
         \A p \in Pids : job[p] = "manager" => line[p] # cur,
         main' \in {"launch", "wait"}, cur' \in 1..(NR_CONSOLES + 1),
         main' = "launch" => main = "launch" /\ cur' = cur + 1
  PROVE IInv'
<1> USE ConstantFacts DEF IInv, TypeOK, Fork, Lives
<1>1. CASE \E p \in Pids :
             /\ Fork(Init1, p, "manager", cur)
             /\ place' = [place EXCEPT ![p] = "open"]
             /\ pid' = [pid EXCEPT ![cur] = p]
  <2> PICK p \in Pids :
             /\ Fork(Init1, p, "manager", cur)
             /\ place' = [place EXCEPT ![p] = "open"]
             /\ pid' = [pid EXCEPT ![cur] = p]
    BY <1>1
  <2>1. TypeOK'
    OBVIOUS
  <2>2. PidsAreManagers'
    BY DEF PidsAreManagers
  <2>3. OneManager'
    BY DEF OneManager
  <2>4. QED
    BY <2>1, <2>2, <2>3 DEF Consoles
<1>2. CASE /\ pid' = [pid EXCEPT ![cur] = NoPid]
           /\ UNCHANGED <<job, line, ppid, place>>
  <2>1. TypeOK'
    BY <1>2
  <2>2. PidsAreManagers'
    BY <1>2 DEF PidsAreManagers
  <2>3. OneManager'
    BY <1>2 DEF OneManager
  <2>4. QED
    BY <1>2, <2>1, <2>2, <2>3 DEF Consoles
<1>3. QED
  BY <1>1, <1>2 DEF StartManager

LEMMA InitInv == Init => IInv
BY ConstantFacts DEF Init, IInv, TypeOK, PidsAreManagers, OneManager

LEMMA Pid1Inv == IInv /\ Pid1 => IInv'
<1> SUFFICES ASSUME IInv, Pid1 PROVE IInv'
  OBVIOUS
<1> USE ConstantFacts
<1>1. CASE Launch
  <2>1. CASE StartManager(cur)
    <3>1. \A p \in Pids : job[p] = "manager" => line[p] # cur
      BY <1>1 DEF Launch, IInv, TypeOK, Consoles
    <3>2. QED
      BY <1>1, <2>1, <3>1, StartManagerInv DEF Launch
  <2>2. CASE UNCHANGED <<pid, job, line, ppid, place>>
    BY <1>1, <2>2 DEF Launch, IInv, TypeOK, PidsAreManagers, OneManager, Consoles
  <2>3. QED
    BY <1>1, <2>1, <2>2 DEF Launch
<1>2. CASE LaunchDone
  BY <1>2 DEF LaunchDone, procVars, IInv, TypeOK, PidsAreManagers, OneManager
<1>3. CASE Restart
  BY <1>3, StartManagerInv DEF Restart, IInv
<1>4. ASSUME NEW p \in Pids, Reap(p) PROVE IInv'
  <2> USE <1>4 DEF Reap, Release, IInv
  <2>1. TypeOK'
    BY DEF TypeOK
  <2>2. CASE \E c \in Consoles :
               pid[c] = p /\ main' = "restart" /\ cur' = c
    <3> PICK c \in Consoles : pid[c] = p /\ main' = "restart" /\ cur' = c
      BY <2>2
    <3>1. job[p] = "manager" /\ line[p] = c
      BY DEF PidsAreManagers, TypeOK
    <3>2. \A q \in Pids \ {p} : job[q] = "manager" => line[q] # c
      BY DEF OneManager, TypeOK
    <3>3. PidsAreManagers'
      BY <3>1 DEF PidsAreManagers, TypeOK
    <3>4. OneManager'
      BY <3>2 DEF OneManager, TypeOK
    <3>5. QED
      BY <2>1, <3>2, <3>3, <3>4 DEF TypeOK
  <2>3. CASE /\ \A c \in Consoles : pid[c] # p
             /\ UNCHANGED <<main, cur>>
    <3>1. PidsAreManagers'
      BY <2>3 DEF PidsAreManagers, TypeOK
    <3>2. OneManager'
      BY <2>3 DEF OneManager, TypeOK
    <3>3. QED
      BY <2>1, <2>3, <3>1, <3>2 DEF TypeOK
  <2>4. QED
    BY <2>2, <2>3
<1>5. QED
  BY <1>1, <1>2, <1>3, <1>4 DEF Pid1

\* Nothing that a manager, a shell or the end of a process does disturbs it.
LEMMA ProcessInv ==
  ASSUME IInv, NEW m \in Pids, Manager(m) \/ Daemonise(m) \/ Exit(m)
  PROVE IInv'
<1> USE ConstantFacts DEF Lives
<1>1. CASE OpenTty(m) \/ ReadEnter(m) \/ ReadFails(m)
  <2> USE <1>1 DEF OpenTty, ReadEnter, ReadFails, IInv
  <2>1. TypeOK'
    <3>1. UNCHANGED <<main, cur, pid, job, line, ppid, zombies>>
      OBVIOUS
    <3>2. place' \in [Pids -> {"open", "read", "fork", "wait"}]
      BY DEF TypeOK
    <3>3. QED
      BY <3>1, <3>2 DEF TypeOK
  <2>2. QED
    BY <2>1 DEF PidsAreManagers, OneManager
<1>2. CASE ForkShell(m)
  <2>1. CASE \E p \in Pids : /\ Fork(m, p, "shell", line[m])
                             /\ place' = [place EXCEPT ![m] = "wait"]
    <3> PICK p \in Pids : /\ Fork(m, p, "shell", line[m])
                          /\ place' = [place EXCEPT ![m] = "wait"]
      BY <2>1
    <3> USE <1>2 DEF ForkShell, Fork, IInv
    <3>1. TypeOK'
      BY DEF TypeOK
    <3>2. PidsAreManagers'
      BY DEF PidsAreManagers, TypeOK
    <3>3. OneManager'
      BY DEF OneManager, TypeOK
    <3>4. QED
      BY <3>1, <3>2, <3>3 DEF TypeOK
  <2>2. CASE /\ place' = [place EXCEPT ![m] = "open"]
             /\ UNCHANGED <<job, line, ppid>>
    BY <1>2, <2>2 DEF ForkShell, IInv, TypeOK, PidsAreManagers, OneManager
  <2>3. QED
    BY <1>2, <2>1, <2>2 DEF ForkShell
<1>3. CASE Collect(m)
  <2> PICK p \in zombies : job[p] = "shell" /\ ppid[p] = m /\ Release(p)
    BY <1>3 DEF Collect
  <2> USE <1>3 DEF Collect, Release, IInv
  <2>1. TypeOK'
    BY DEF TypeOK
  <2>2. PidsAreManagers'
    BY DEF PidsAreManagers, TypeOK
  <2>3. OneManager'
    BY DEF OneManager, TypeOK
  <2>4. QED
    BY <2>1, <2>2, <2>3 DEF TypeOK
<1>4. CASE Daemonise(m)
  <2> PICK p \in Pids : Fork(Init1, p, "other", line[m])
    BY <1>4 DEF Daemonise
  <2> USE <1>4 DEF Daemonise, Fork, IInv
  <2>1. TypeOK'
    BY DEF TypeOK
  <2>2. PidsAreManagers'
    BY DEF PidsAreManagers, TypeOK
  <2>3. OneManager'
    BY DEF OneManager, TypeOK
  <2>4. QED
    BY <2>1, <2>2, <2>3 DEF TypeOK
<1>5. CASE Exit(m)
  <2> USE <1>5 DEF Exit, IInv
  <2>1. TypeOK'
    BY DEF TypeOK
  <2>2. QED
    BY <2>1 DEF TypeOK, PidsAreManagers, OneManager
<1>6. QED
  BY <1>1, <1>2, <1>3, <1>4, <1>5 DEF Manager

\* The inductive invariant holds in every state of PID 1 and its processes.
THEOREM Invariant == Spec => []IInv
<1>1. IInv /\ [Next]_vars => IInv'
  <2> SUFFICES ASSUME IInv, [Next]_vars PROVE IInv'
    OBVIOUS
  <2>1. CASE Pid1
    BY <2>1, Pid1Inv
  <2>2. ASSUME NEW p \in Pids, Manager(p) \/ Daemonise(p) \/ Exit(p)
        PROVE IInv'
    BY <2>2, ProcessInv
  <2>3. CASE UNCHANGED vars
    BY <2>3 DEF vars, procVars, IInv, TypeOK, PidsAreManagers, OneManager
  <2>4. QED
    BY <2>1, <2>2, <2>3 DEF Next
<1>2. QED
  BY <1>1, InitInv, PTL DEF Spec

\* What PID 1 compares with the result of wait is never a number that has been
\* given to another process (init.c:271-276).
THEOREM PidsAreManagersHolds == Spec => []PidsAreManagers
<1>1. IInv => PidsAreManagers
  BY DEF IInv
<1>2. QED
  BY <1>1, Invariant, PTL

\* However forks fail and processes die, no console gets a second manager
\* (start_manager, init.c:169-185).
THEOREM OneManagerHolds == Spec => []OneManager
<1>1. IInv => OneManager
  BY DEF IInv
<1>2. QED
  BY <1>1, Invariant, PTL

-----------------------------------------------------------------------------
(* One shell at a time.                                                    *)

\* A new manager is nobody's parent yet.
LEMMA ShellPid1 ==
  ASSUME IInv, ShellInv, Pid1 PROVE ShellInv'
<1> USE ConstantFacts DEF IInv, TypeOK, Lives
<1>1. ASSUME NEW c \in Consoles, StartManager(c), UNCHANGED zombies
      PROVE ShellInv'
  <2>1. CASE \E p \in Pids :
               /\ Fork(Init1, p, "manager", c)
               /\ place' = [place EXCEPT ![p] = "open"]
    <3> PICK p \in Pids :
               /\ Fork(Init1, p, "manager", c)
               /\ place' = [place EXCEPT ![p] = "open"]
      BY <2>1
    <3> QED
      BY <1>1 DEF Fork, ShellInv
  <2>2. CASE UNCHANGED <<job, line, ppid, place>>
    BY <1>1, <2>2 DEF ShellInv
  <2>3. QED
    BY <1>1, <2>1, <2>2 DEF StartManager
<1>2. ASSUME NEW p \in Pids, Reap(p) PROVE ShellInv'
  BY <1>2 DEF Reap, Release, ShellInv
<1>3. CASE Launch
  <2>1. cur \in Consoles /\ UNCHANGED zombies
    BY <1>3 DEF Launch
  <2>2. CASE UNCHANGED <<pid, job, line, ppid, place>>
    BY <2>1, <2>2 DEF ShellInv
  <2>3. QED
    BY <1>1, <1>3, <2>1, <2>2 DEF Launch
<1>4. CASE LaunchDone
  BY <1>4 DEF LaunchDone, procVars, ShellInv
<1>5. CASE Restart
  BY <1>1, <1>5 DEF Restart
<1>6. QED
  BY <1>2, <1>3, <1>4, <1>5 DEF Pid1

\* A manager that forks a shell has none; one that collects its shell has none
\* left.
LEMMA ShellProcesses ==
  ASSUME IInv, ShellInv,
         NEW m \in Pids, Manager(m) \/ Daemonise(m) \/ Exit(m)
  PROVE ShellInv'
<1> USE ConstantFacts DEF IInv, TypeOK, Lives
<1>1. CASE OpenTty(m) \/ ReadEnter(m) \/ ReadFails(m)
  BY <1>1 DEF OpenTty, ReadEnter, ReadFails, ShellInv
<1>2. CASE ForkShell(m)
  <2>1. \A q \in Pids :
          job[q] = "shell" /\ ppid[q] # Init1 => line[q] # line[m]
    BY <1>2 DEF ForkShell, ShellInv, OneManager
  <2>2. CASE \E p \in Pids : /\ Fork(m, p, "shell", line[m])
                             /\ place' = [place EXCEPT ![m] = "wait"]
    <3> PICK p \in Pids : /\ Fork(m, p, "shell", line[m])
                          /\ place' = [place EXCEPT ![m] = "wait"]
      BY <2>2
    <3> QED
      BY <1>2, <2>1 DEF ForkShell, Fork, ShellInv
  <2>3. CASE /\ place' = [place EXCEPT ![m] = "open"]
             /\ UNCHANGED <<job, line, ppid>>
    BY <1>2, <2>1, <2>3 DEF ForkShell, ShellInv
  <2>4. QED
    BY <1>2, <2>2, <2>3 DEF ForkShell
<1>3. CASE Collect(m)
  <2> PICK p \in zombies : job[p] = "shell" /\ ppid[p] = m /\ Release(p)
    BY <1>3 DEF Collect
  <2>1. \A q \in Pids : job[q] = "shell" /\ ppid[q] = m => q = p
    BY DEF ShellInv
  <2>2. QED
    BY <1>3, <2>1 DEF Collect, Release, ShellInv
<1>4. CASE Daemonise(m)
  <2> PICK p \in Pids : Fork(Init1, p, "other", line[m])
    BY <1>4 DEF Daemonise
  <2> QED
    BY <1>4 DEF Daemonise, Fork, ShellInv
<1>5. CASE Exit(m)
  BY <1>5 DEF Exit, ShellInv
<1>6. QED
  BY <1>1, <1>2, <1>3, <1>4, <1>5 DEF Manager

\* Two shells whose managers live never read the same line (run_shell_once
\* waits for the shell it has forked, init.c:144-145).
THEOREM OneShellHolds == Spec => []OneShell
<1>1. Init => ShellInv
  BY DEF Init, ShellInv
<1>2. IInv /\ ShellInv /\ [Next]_vars => ShellInv'
  <2> SUFFICES ASSUME IInv, ShellInv, [Next]_vars PROVE ShellInv'
    OBVIOUS
  <2>1. CASE Pid1
    BY <2>1, ShellPid1
  <2>2. ASSUME NEW p \in Pids, Manager(p) \/ Daemonise(p) \/ Exit(p)
        PROVE ShellInv'
    BY <2>2, ShellProcesses
  <2>3. CASE UNCHANGED vars
    BY <2>3 DEF vars, procVars, ShellInv, Lives
  <2>4. QED
    BY <2>1, <2>2, <2>3 DEF Next
<1>3. ShellInv => OneShell
  BY DEF ShellInv, OneShell, Lives
<1>4. QED
  BY <1>1, <1>2, <1>3, Invariant, PTL DEF Spec
=============================================================================
