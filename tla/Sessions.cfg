SPECIFICATION MCSpec
CONSTANTS
  NoRow = NoRow
  NoItem = NoItem
  Requests = {r1, r2, r3}
  Trip = 2
  ProbeBase = 2
  ProbeMax = 3
  Flight = 1
  Cars = {a, b}
  NoCar = NoCar
  Addresses = {m}
  Abouts = {n}
  MaxRows = 2
  MaxAttempts = 2
  Batch = 1
  Owners = {o}
  Threshold = 1
  Window = 1
  Cooldown = 1
  MaxCooldown = 2
  ProbeInterval = 1
  RetryAfters = {0, 3}
  MaxEvents = 4
  BreakerEvents = 3
INVARIANTS
  TypesOK
  HouseholdsWord
  BacksOff
  OutboxHonest
PROPERTIES
  ImplementsRegister
  DeadIsResolved
  CircuitsClose
  PagesSettle
  RowsSettle
CHECK_DEADLOCK FALSE
