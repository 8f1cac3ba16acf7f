SPECIFICATION Spec
CONSTANTS
  Daemons = {d1, d2}
  Nobody = Nobody
  MaxHandlers = 2
PROPERTIES
  RemovesOnlyItsOwn
