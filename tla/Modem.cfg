CONSTANTS
  Numbers <- MCNumber
  TxFifoSize = 2
  CmdMax = 1
  Clocal = FALSE
SPECIFICATION FairSpec
INVARIANTS
  LineReleased NumberDialled NoStaleData EngineAwake WriterWillWake
PROPERTIES
  CallSetupEnds HangupServed CommandAnswered CarrierLossNoticed RetrainEnds
  ImplementsService
