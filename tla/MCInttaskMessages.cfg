SPECIFICATION MCSpec
CONSTANTS
  N = 3
  isr = isr
  pm = pm
  MaxSends = 6
  dc = dc
  request = request
  event = event
  pwrdata = pwrdata
  NoRing = NoRing
  Null = Null
  Senders = {isr, pm}
  Receiver = dc
  Types = {request, event}
  DataRings = {pwrdata}
  Payloads = {p1, p2}
  Prio <- MCPrio
  RingOf <- MCRingOf
  MaySend <- MCMaySend
INVARIANTS
  TypeOK
  MailboxIntact
  PayloadIntact
  WriterOwnsSlot
PROPERTIES
  Delivers
