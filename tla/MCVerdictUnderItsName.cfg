CONSTANTS
  Calls = {c1, c2}
  MaxFiles = 2
  MaxId = 2
  None = None  Failed = Failed
SPECIFICATION Spec
INVARIANT VerdictUnderItsName
