CONSTANTS
  MAX_PSN = 32
  MAX_SSN = 8
  MAX_PENDING_REQ_NUM = 3
  max_dest_rd_atomic = 2
  retry_cnt = 2
  rnr_retry = 2
  InitPsn = 0
  WorkReqs <- SendOnly
  MaxPosts = 2
  NakErrors = {"REM_ACCESS_ERR"}
  CtxSlots = 3
  RespInitPsn = 0
  Refusals = {"REM_ACCESS_ERR"}
  RespPsns = {}
  Requests = {}
  MaxRecvs = 2
  MaxMishaps = 1
  LateAnswers = FALSE
  Patience = 0

SPECIFICATION LinkSpec

INVARIANT
  FlushCompletes

CHECK_DEADLOCK FALSE
