CONSTANTS
  k1 = k1  k2 = k2  k3 = k3  k4 = k4  p1 = p1  p2 = p2
  Keys = {k1, k2, k3}
  Missing = Missing
  Partial = Partial
  ReadOnly = FALSE
  Pdfs = {p1, p2}
  Foreign = Foreign
  OtherType = OtherType
  Text = Text
  Junk = Junk
  Absent = Absent
SPECIFICATION PublicSpec
INVARIANT PublicTypeOK PositiveMeansIssued UnwarnedRecognised AnswersStayTrue
PROPERTY KeyIsNeverReplaced ImplementsAuthority
SYMMETRY Symmetry
