SPECIFICATION Spec
CONSTANTS
  Names = {"e", "f", "k"}
  InEeprom = {"e"}
  Colours = {"k"}
  Values = {"e1", "e2", "f1", "f2", "k1", "k2"}
  ValuesOf <- MCValuesOf
  Torn = Torn
  Missing = Missing
  Empty = Empty
  Nothing = Nothing
  Order <- MCOrder
  Factory <- MCFactory
  Slots = 2
  Batches <- MCBatches
  MaxMessages = 3
  MaxCrashes = 1
INVARIANTS
  TypeOK
  StoredAtRest
  Survives
PROPERTIES
  EventuallyAtRest
CHECK_DEADLOCK FALSE
