------------------------------ MODULE MCVmuBus ------------------------------
(* The drivers and memory card blocks for model checking VmuBus.           *)
EXTENDS VmuBus

MCOneBlock == {"block0"}
MCTwoBlocks == {"block0", "block1"}
MCFlashOnly == {"flash"}
MCLcdOnly == {"lcd"}
MCNoDriver == {}
=============================================================================
