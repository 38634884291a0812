CONSTANTS
  MAX_PSN = 32
  CtxSlots = 3
  RespInitPsn = 29
  Requests <- Packets
  Refusals = {"REM_ACCESS_ERR"}
  MaxRecvs = 3

SPECIFICATION RespSpec

INVARIANTS
  RespTypeOK
  ExecutesInOrder
  RecvConservation
  DuplicateIsAnswerable

PROPERTIES
  OneRetryNakPending

CHECK_DEADLOCK FALSE
