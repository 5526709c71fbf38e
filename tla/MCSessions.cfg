CONSTANTS
  s1 = s1  s2 = s2
  u1 = u1  u2 = u2
  w1 = w1  w2 = w2
  Sids = {s1, s2}
  Keys = {s1, s2}
  Users = {u1, u2}
  Values = {u1, u2}
  Workers = {w1, w2}
  Absent = Absent
  NoToken = NoToken
  TicksPerSecond = 2
  TokenTTL = 2
  SessionTTL = 2
  MaxClock = 4
SPECIFICATION Spec
INVARIANT TypeOK SessionInv ConfirmedSessionUsable
PROPERTY NoAdmissionAfterRemoval ImplementsLifecycle
SYMMETRY Symmetry
