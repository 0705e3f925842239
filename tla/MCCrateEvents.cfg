SPECIFICATION Spec
CONSTANTS
  N = 2
  Other = 0
  Powers = {2}
  Crates <- MCCrates
  Threshold75 = 1
  Threshold90 = 3
  AutoMode = 0
  Speeds = {30}
  MaxAra = 2
  Delay = 0
  MaxEvents = 2
INVARIANTS
  TypeOK
  ChangesOwed
  FaultsOwed
  SpeedOwed
PROPERTIES
  EventuallyKnown
  EventuallyAnswered
  EventuallyCooled
