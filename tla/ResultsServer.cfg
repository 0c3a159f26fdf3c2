CONSTANTS
  Tests <- TestResults
  test = test
  long = long
  short = short
  Post <- Posts
  Length <- Lengths
  MaxLength = 3
  TimeLimit = 2
SPECIFICATION Spec
INVARIANTS
  TypeOK
  OwnFileWhole
  SharedFileStartsWhole
PROPERTY
  PostedIsWritten
CHECK_DEADLOCK FALSE
