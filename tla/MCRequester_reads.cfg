CONSTANTS
  MAX_PSN = 32
  MAX_SSN = 8
  MAX_PENDING_REQ_NUM = 3
  max_dest_rd_atomic = 2
  retry_cnt = 2
  rnr_retry = 1
  InitPsn = 31
  WorkReqs <- ReadWrs
  MaxPosts = 2
  NakErrors = {"REM_ACCESS_ERR"}
  RespPsns <- PsnsAtWrap

SPECIFICATION Spec

INVARIANTS
  PsnIndexConsistent
  ReadIndexConsistent
  CompletionsInOrder

CHECK_DEADLOCK FALSE
