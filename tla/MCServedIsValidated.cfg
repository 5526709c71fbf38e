CONSTANTS
  Runs = 2
  Crashes = 0
  Partial = Partial
SPECIFICATION Spec
INVARIANT ServedIsValidated
