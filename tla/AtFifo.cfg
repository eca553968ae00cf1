CONSTANTS
  Items = {a, b}
  Size = 5
  Nest = 3
SPECIFICATION Spec
INVARIANT SlotsOwned
PROPERTY ImplementsQueue
