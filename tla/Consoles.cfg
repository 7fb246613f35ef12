CONSTANTS
  NR_CONSOLES = 2
  Pids <- MCFewPids
SPECIFICATION FairSpec
INVARIANTS OneManager OneShell
PROPERTIES ManagerRestarted OrphansReaped
CHECK_DEADLOCK FALSE
