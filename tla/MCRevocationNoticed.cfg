CONSTANTS
  Runs = 1
  Crashes = 0
  Partial = Partial
SPECIFICATION Spec
PROPERTY RevocationNoticed
