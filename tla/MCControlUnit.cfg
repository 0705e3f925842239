SPECIFICATION Spec
CONSTANTS
  Total = 5
  Word = 64
  MaxLen = 5
  Slots = 2
  Renew = Renew
  Format = Format
  Reset = Reset
  Nothing = Nothing
  MaxBytes = 8
  MaxRequests = 1
INVARIANTS
  TypeOK
  AlwaysServes
  RingTrue
  AnswerWhole
PROPERTIES
  EventuallyQuiet
CHECK_DEADLOCK FALSE
