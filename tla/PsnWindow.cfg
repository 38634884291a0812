CONSTANT MAX_PSN = 16

SPECIFICATION Spec

INVARIANTS
  WindowOK
  ExpectedIsOutstanding
  UnexpectedIsOutside
