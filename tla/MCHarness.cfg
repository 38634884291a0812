CONSTANTS
  Contents = {"00", "ff", "01", "02"}
  Blank = "00"
  Cases <- MCCases
SPECIFICATION FairSpec
INVARIANTS HarnessTypeOK NoLeftovers BarriersPair HandshakePairs FailuresHaveCauses
PROPERTY CasesEnd
CHECK_DEADLOCK FALSE
