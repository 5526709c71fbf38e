CONSTANTS
  k1 = k1  k2 = k2  k3 = k3  k4 = k4
  Keys = {k1, k2, k3, k4}
  Missing = Missing
  Partial = Partial
  ReadOnly = FALSE
SPECIFICATION Spec
SYMMETRY Symmetry
INVARIANT ScriptCreatesKey
