SPECIFICATION Spec
CONSTANTS
  Cases = {c1, c2, c3, c4}
  Products = {p1, p2}
  MaxHistoryTurns = 3
  None = None
SYMMETRY Interchangeable
INVARIANTS
  HistoryOfTheCase
PROPERTIES
  SubjectsStayApart
