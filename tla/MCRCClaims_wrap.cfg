CONSTANTS
  MAX_PSN = 32
  MAX_SSN = 8
  MAX_PENDING_REQ_NUM = 3
  max_dest_rd_atomic = 2
  retry_cnt = 2
  rnr_retry = 2
  InitPsn = 31
  WorkReqs <- SendTwo
  MaxPosts = 1
  NakErrors = {}
  CtxSlots = 3
  RespInitPsn = 31
  Refusals = {}
  RespPsns = {}
  Requests = {}
  MaxRecvs = 2
  MaxMishaps = 0
  LateAnswers = FALSE
  Patience = 0

SPECIFICATION LinkSpec

PROPERTY
  AckedPsnIsKnown

CHECK_DEADLOCK FALSE
