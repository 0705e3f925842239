SPECIFICATION Spec
CONSTANTS
  Slots = {1, 2}
  Contents = {"this", "that"}
  Old = "old"
  Blank = "blank"
  Torn = "torn"
  LongPress = 2
  MaxAsks = 4
  MaxChanges = 1
INVARIANTS
  TypeOK
  BufferWhole
  EepromsAsAsked
PROPERTIES
  EventuallyApplied
  EventuallyAlarmed
CHECK_DEADLOCK FALSE
