SPECIFICATION Spec
CONSTANTS
  Document = {d1, d2, d3}
  Content = {x, y}
  None = None
  Uploader = {u1, u2}
  Mortal = {u1, u2}
  Lossy = {u1, u2}
SYMMETRY Interchangeable
INVARIANTS TypeOK LiveContentUnique OriginalKept
