CONSTANTS
  MaxInverters = 2
SPECIFICATION Spec
INVARIANTS TypeOK OnePressAtATime EditsAreStored LiftEndsDrag
PROPERTIES PressIsNotKept
