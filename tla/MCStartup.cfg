CONSTANTS
  Runs = 2
  Crashes = 1
  Partial = Partial
SPECIFICATION Spec
INVARIANT TypeOK StartupInv
PROPERTY ServesEventually
