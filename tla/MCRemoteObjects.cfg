CONSTANTS
  Objects = {o1, o2}
  Backtrace = backtrace
  Console = console
  NoGroup = noGroup
  Primitive = primitive
  MaxId = 2
SYMMETRY Symmetry
SPECIFICATION Spec
INVARIANTS TypeOK GroupsFindMembers FramesAreReleased
PROPERTY ImplementsTable
