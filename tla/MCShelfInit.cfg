SPECIFICATION Spec
CONSTANTS
  NSlots = 2
  NSources = 1
  Power <- MCPower
  Hotswap = {1, 2}
  Eeprom = {1, 2, 3, 4}
  LimitSource = "PSU"
  PowerLimit = 0
  MinReserve = 1
  PowerCU = 1
  FanMaxPower = 2
  SlotMaxPower = 4
  DCLen = 8
  PMLen = 4
  Conf0 <- MCConf0
  MaxEvents = 1
  MaxTimeouts = 0
  PinsMayFail = FALSE
INVARIANTS
  InitAwaitsSignal
