SPECIFICATION Spec
CONSTANTS
  Tasks = {"httpd", "compile"}
  Files = {f1, f2}
  Blocks = {b1, b2, b3, b4}
  Pieces = 2
  MaxTexts = 3
  Absent = Absent
  Closed = Closed
SYMMETRY Symmetry
INVARIANTS TypeOK KeptIsStored TornHasCause
PROPERTY FilesAreAtomic
