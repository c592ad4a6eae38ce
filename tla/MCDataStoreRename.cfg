SPECIFICATION Spec
CONSTANTS
  Ptrs = {p1, p2, p3}
  Names = {ale, stout}
  NoName = NoName
  Abvs = {0}
  VolMod = 2
  Cap = 3
  Pours = {1}
SYMMETRY Symmetry
VIEW WithoutRequest
PROPERTY RenameRemovesNothing
