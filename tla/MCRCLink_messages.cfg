CONSTANTS
  MAX_PSN = 14
  MAX_SSN = 8
  MAX_PENDING_REQ_NUM = 3
  max_dest_rd_atomic = 2
  retry_cnt = 2
  rnr_retry = 2
  InitPsn = 0
  WorkReqs <- MessageWrs
  MaxPosts = 3
  NakErrors = {}
  CtxSlots = 3
  RespInitPsn = 0
  Refusals = {}
  RespPsns = {}
  Requests = {}
  MaxRecvs = 0
  MaxMishaps = 1
  LateAnswers = TRUE
  Patience = 0

SPECIFICATION LinkSpec

INVARIANTS
  ExecutedInOrder
  SuccessMeansExecuted
  WindowHasOwners

PROPERTIES
  ImplementsService

CHECK_DEADLOCK FALSE
