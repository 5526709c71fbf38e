CONSTANTS
  root = root  alice = alice
  pw1 = pw1  pw2 = pw2
  w1 = w1  w2 = w2
  Names = {root, alice}
  Passwords = {pw1, pw2}
  Workers = {w1, w2}
  Admin = root
  AdminPassword = pw1
  MaxId = 4
SPECIFICATION Spec
INVARIANT RegisteredCanLogIn
SYMMETRY Symmetry
