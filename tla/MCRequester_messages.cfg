CONSTANTS
  MAX_PSN = 32
  MAX_SSN = 8
  MAX_PENDING_REQ_NUM = 2
  max_dest_rd_atomic = 1
  retry_cnt = 2
  rnr_retry = 2
  InitPsn = 0
  WorkReqs <- MessageWrs
  MaxPosts = 3
  NakErrors = {"REM_ACCESS_ERR"}
  RespPsns <- PsnsInPlay

SPECIFICATION Spec

INVARIANTS
  TypeOK
  PendingIsWindow
  PsnIndexConsistent
  RdAtomicCount
  TimerCoversPending
  RetryBudget
  CompletionsInOrder

PROPERTIES
  MpsnAdvances

CHECK_DEADLOCK FALSE
