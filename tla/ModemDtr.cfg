CONSTANTS
  Numbers <- MCNumber
  TxFifoSize = 1
  CmdMax = 1
  Clocal = TRUE
SPECIFICATION Spec
PROPERTIES NoCallOnClosedPort
