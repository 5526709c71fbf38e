CONSTANTS
  u1 = u1  u2 = u2
  f1 = f1  f2 = f2
  w1 = w1  w2 = w2
  Users = {u1, u2}
  Files = {f1, f2}
  Workers = {w1, w2}
  Nothing = Nothing
  MaxId = 3
SPECIFICATION Spec
INVARIANT TypeOK DocumentsInv ServedOwnDocument AnsweredIsKept
PROPERTY OnlyOwnerDeletes DeletedOnce ImplementsShelf
SYMMETRY Symmetry
