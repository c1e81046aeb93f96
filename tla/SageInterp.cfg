CONSTANTS
  o1 = o1
  o2 = o2
  g = g
  e1 = e1
  e2 = e2
  main = main
  other = other
  NULL = NULL
  Objects = {o1, o2}
  Envs = {g, e1, e2}
  Global = g
  Tasks = {main, other}
  AST_GC_TEMP_MAX = 4
  FRAME_LIMIT = 5
  FORM_LIMIT = 3
  Explored <- MCExplored
SYMMETRY Symmetry
SPECIFICATION Spec
CONSTRAINT Telling
INVARIANTS HeldKept Closed RootsBalanced
PROPERTIES SweptExactly ImplementsGc
CHECK_DEADLOCK FALSE
