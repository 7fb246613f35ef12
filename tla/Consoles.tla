------------------------------ MODULE Consoles ------------------------------
(***************************************************************************)
(* PID 1 (init/init.c) after it has changed its root: it starts a manager  *)
(* process for each console, the managers run one login shell after the    *)
(* other, and PID 1 reaps what dies and restarts managers.                 *)
(*                                                                         *)
(* Processes are slots of the process table: a process number is free, in  *)
(* use, or belongs to a zombie until its parent has waited for it, and is  *)
(* given out again as soon as it is free.                                  *)
(***************************************************************************)
EXTENDS Integers

CONSTANTS
  NR_CONSOLES,  \* the number of consoles
  Pids          \* process numbers that fork may give out

ASSUME ConsolesAssumption ==
  /\ NR_CONSOLES \in Nat \ {0}
  /\ Pids \subseteq Nat \ {0, 1}

VARIABLES
  main,     \* PID 1: "launch", "wait", or "restart" a manager
  cur,      \* the console it launches or restarts
  pid,      \* consoles[].pid
  job,      \* what a process number is in use for
  line,     \* the console a manager or a shell belongs to
  ppid,     \* the parent of a process
  zombies,  \* processes that have ended and have not been waited for
  place     \* where a manager stands in run_shell_once

procVars == <<job, line, ppid, zombies, place>>
vars == <<main, cur, pid, procVars>>

Consoles == 1..NR_CONSOLES
NoPid == -1
Init1 == 1     \* the process number of PID 1

TypeOK ==
  /\ main \in {"launch", "wait", "restart"}
  /\ cur \in 1..(NR_CONSOLES + 1)
  /\ pid \in [Consoles -> Pids \union {NoPid}]
  /\ job \in [Pids -> {"none", "manager", "shell", "other"}]
  /\ line \in [Pids -> Consoles]
  /\ ppid \in [Pids -> Pids \union {Init1}]
  /\ zombies \in SUBSET Pids
  /\ place \in [Pids -> {"open", "read", "fork", "wait"}]

Init ==
  /\ main = "launch" /\ cur = 1
  /\ pid = [c \in Consoles |-> NoPid]
  /\ job = [p \in Pids |-> "none"]
  /\ line = [p \in Pids |-> 1]
  /\ ppid = [p \in Pids |-> Init1]
  /\ zombies = {}
  /\ place = [p \in Pids |-> "open"]

Lives(p, j) == job[p] = j /\ p \notin zombies

\* fork: the parent's child is p, with a job and a console.
Fork(parent, p, j, c) ==
  /\ job[p] = "none"
  /\ job' = [job EXCEPT ![p] = j]
  /\ line' = [line EXCEPT ![p] = c]
  /\ ppid' = [ppid EXCEPT ![p] = parent]

\* A zombie that has been waited for gives its number back.
Release(p) ==
  /\ job' = [job EXCEPT ![p] = "none"]
  /\ line' = [line EXCEPT ![p] = 1]
  /\ ppid' = [ppid EXCEPT ![p] = Init1]
  /\ zombies' = zombies \ {p}

-----------------------------------------------------------------------------
(* PID 1.                                                                  *)

\* Fault: the manager's number is not recorded.
StartManagerForgets(c) ==
  /\ \E p \in Pids :
       /\ Fork(Init1, p, "manager", c)
       /\ place' = [place EXCEPT ![p] = "open"]
  /\ UNCHANGED pid

\* start_manager: fork works, or fails and nobody manages the console.
StartManager(c) ==
  \/ \E p \in Pids :
       /\ Fork(Init1, p, "manager", c)
       /\ place' = [place EXCEPT ![p] = "open"]
       /\ pid' = [pid EXCEPT ![c] = p]
  \/ /\ pid' = [pid EXCEPT ![c] = NoPid]
     /\ UNCHANGED <<job, line, ppid, place>>

\* The next console, if its device exists.
Launch ==
  /\ main = "launch" /\ cur \in Consoles
  /\ \/ StartManager(cur)
     \/ UNCHANGED <<pid, job, line, ppid, place>>
  /\ cur' = cur + 1
  /\ UNCHANGED <<main, zombies>>

LaunchDone ==
  /\ main = "launch" /\ cur \notin Consoles
  /\ main' = "wait" /\ cur' = 1
  /\ UNCHANGED <<pid, procVars>>

\* Fault: only the managers are waited for.
ReapManagersOnly(p) ==
  /\ main = "wait" /\ p \in zombies /\ ppid[p] = Init1
  /\ Release(p)
  /\ \E c \in Consoles : pid[c] = p /\ main' = "restart" /\ cur' = c
  /\ UNCHANGED <<pid, place>>

\* Fault: the search for the console stops before the last one.
ReapAllButLast(p) ==
  /\ main = "wait" /\ p \in zombies /\ ppid[p] = Init1
  /\ Release(p)
  /\ \/ \E c \in Consoles \ {NR_CONSOLES} :
          /\ pid[c] = p /\ \A d \in 1..(c - 1) : pid[d] # p
          /\ main' = "restart" /\ cur' = c
     \/ /\ \A c \in Consoles \ {NR_CONSOLES} : pid[c] # p
        /\ UNCHANGED <<main, cur>>
  /\ UNCHANGED <<pid, place>>

\* wait(NULL) returns p: a manager of a console is to be restarted.
Reap(p) ==
  /\ main = "wait" /\ p \in zombies /\ ppid[p] = Init1
  /\ Release(p)
  /\ \/ \E c \in Consoles :
          /\ pid[c] = p /\ \A d \in 1..(c - 1) : pid[d] # p
          /\ main' = "restart" /\ cur' = c
     \/ /\ \A c \in Consoles : pid[c] # p
        /\ UNCHANGED <<main, cur>>
  /\ UNCHANGED <<pid, place>>

Restart ==
  /\ main = "restart"
  /\ StartManager(cur)
  /\ main' = "wait" /\ cur' = 1
  /\ UNCHANGED zombies

-----------------------------------------------------------------------------
(* A manager: run_shell_once, again and again.                             *)

\* The device is opened and the prompt written; or it is not ready yet.
OpenTty(m) ==
  /\ Lives(m, "manager") /\ place[m] = "open"
  /\ place' = [place EXCEPT ![m] = "read"]
  /\ UNCHANGED <<main, cur, pid, job, line, ppid, zombies>>

\* Enter is pressed.
ReadEnter(m) ==
  /\ Lives(m, "manager") /\ place[m] = "read"
  /\ place' = [place EXCEPT ![m] = "fork"]
  /\ UNCHANGED <<main, cur, pid, job, line, ppid, zombies>>

\* read reports a hang-up, the end of the file or an error.
ReadFails(m) ==
  /\ Lives(m, "manager") /\ place[m] = "read"
  /\ place' = [place EXCEPT ![m] = "fork"]
  /\ UNCHANGED <<main, cur, pid, job, line, ppid, zombies>>

ForkShell(m) ==
  /\ Lives(m, "manager") /\ place[m] = "fork"
  /\ \/ \E p \in Pids :
          /\ Fork(m, p, "shell", line[m])
          /\ place' = [place EXCEPT ![m] = "wait"]
     \/ /\ place' = [place EXCEPT ![m] = "open"]
        /\ UNCHANGED <<job, line, ppid>>
  /\ UNCHANGED <<main, cur, pid, zombies>>

\* Fault: the manager does not wait for its shell.
CollectAtOnce(m) ==
  /\ Lives(m, "manager") /\ place[m] = "wait"
  /\ place' = [place EXCEPT ![m] = "open"]
  /\ UNCHANGED <<main, cur, pid, job, line, ppid, zombies>>

\* waitpid returns: the shell has ended.
Collect(m) ==
  /\ Lives(m, "manager") /\ place[m] = "wait"
  /\ \E p \in zombies : job[p] = "shell" /\ ppid[p] = m /\ Release(p)
  /\ place' = [place EXCEPT ![m] = "open"]
  /\ UNCHANGED <<main, cur, pid>>

-----------------------------------------------------------------------------
(* What processes do by themselves.                                        *)

\* A shell leaves a process behind that PID 1 becomes the parent of.
Daemonise(s) ==
  /\ Lives(s, "shell")
  /\ \E p \in Pids : Fork(Init1, p, "other", line[s])
  /\ UNCHANGED <<main, cur, pid, zombies, place>>

\* A process ends; PID 1 inherits its children.
Exit(p) ==
  /\ job[p] # "none" /\ p \notin zombies
  /\ zombies' = zombies \union {p}
  /\ ppid' = [q \in Pids |-> IF ppid[q] = p THEN Init1 ELSE ppid[q]]
  /\ place' = [place EXCEPT ![p] = "open"]
  /\ UNCHANGED <<main, cur, pid, job, line>>

-----------------------------------------------------------------------------
Pid1 == Launch \/ LaunchDone \/ Restart \/ \E p \in Pids : Reap(p)

Manager(m) == OpenTty(m) \/ ReadEnter(m) \/ ReadFails(m) \/ ForkShell(m)
              \/ Collect(m)

Next == \/ Pid1
        \/ \E p \in Pids : Manager(p) \/ Daemonise(p) \/ Exit(p)

\* PID 1 and the managers are scheduled.  wait looks through the children in
\* the order in which they became PID 1's, so it comes to every zombie.  Nobody
\* need press a key, and no shell need end.
Fairness ==
  /\ WF_vars(Launch) /\ WF_vars(LaunchDone) /\ WF_vars(Restart)
  /\ \A p \in Pids : SF_vars(Reap(p)) /\ WF_vars(ForkShell(p))
                     /\ WF_vars(OpenTty(p)) /\ WF_vars(Collect(p))

Spec == Init /\ [][Next]_vars
FairSpec == Spec /\ Fairness

-----------------------------------------------------------------------------
(* Properties.                                                             *)

\* A console's pid is that of its manager, dead or alive, unless PID 1 is
\* about to replace it: no number that PID 1 compares with what wait returned
\* has been given to another process in the meantime.
PidsAreManagers ==
  \A c \in Consoles : pid[c] # NoPid /\ (main # "restart" \/ cur # c) =>
    job[pid[c]] = "manager" /\ line[pid[c]] = c

\* A console has one manager, and it is the one PID 1 knows.
OneManager ==
  \A p \in Pids : job[p] = "manager" => pid[line[p]] = p

\* The invariant behind both: managers are children of PID 1, and there is none
\* for a console whose manager is yet to be started.
IInv ==
  /\ TypeOK
  /\ PidsAreManagers
  /\ OneManager
  /\ \A p \in zombies : job[p] # "none"
  /\ \A p \in Pids : job[p] = "manager" => ppid[p] = Init1
  /\ main = "launch" => \A p \in Pids : job[p] = "manager" => line[p] < cur
  /\ main = "restart" =>
       cur \in Consoles /\ \A p \in Pids : job[p] = "manager" => line[p] # cur

\* Two shells read the same line only if the manager of one of them was killed,
\* and the shell left to PID 1.
OneShell ==
  \A p, q \in Pids :
    /\ Lives(p, "shell") /\ Lives(q, "shell") /\ line[p] = line[q]
    /\ ppid[p] # Init1 /\ ppid[q] # Init1
    => p = q

\* Behind it: the parent of a shell that is not an orphan is the manager of its
\* console, which lives and does nothing but wait for this shell.
ShellInv ==
  /\ \A p \in Pids : job[p] = "shell" /\ ppid[p] # Init1 =>
       /\ Lives(ppid[p], "manager")
       /\ line[ppid[p]] = line[p] /\ place[ppid[p]] = "wait"
  /\ \A p, q \in Pids :
       /\ job[p] = "shell" /\ job[q] = "shell" /\ line[p] = line[q]
       /\ ppid[p] # Init1 /\ ppid[q] # Init1
       => p = q

\* A manager that has died is replaced by one that lives, unless fork fails.
ManagerRestarted ==
  \A c \in Consoles :
    pid[c] \in zombies ~> pid[c] = NoPid \/ Lives(pid[c], "manager")

\* "Stray orphans reparented to PID 1 just get reaped."
OrphansReaped == \A p \in Pids : p \in zombies ~> p \notin zombies

=============================================================================
