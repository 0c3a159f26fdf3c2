CONSTANTS
  Rate = 5
  UsecPerSec = 4
  Scale = 4
  Lengths = {1, 3, 5}
  MaxLength = 5
  MaxSec = 5
SPECIFICATION Spec
INVARIANTS TypeOK SecondBounded LongRunRate 
CHECK_DEADLOCK FALSE
