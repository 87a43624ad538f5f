SPECIFICATION MCSpec
CONSTANTS
  Owners = {a, b}
  Threshold = 2
  Window = 1
  Cooldown = 2
  MaxCooldown = 3
  ProbeInterval = 1
  RetryAfters = {0, 4}
  MaxEvents = 3
SYMMETRY OwnerSymmetry
INVARIANTS
  TypeOK
  RowIsCurrent
PROPERTIES
  OnlyFreshProbeCloses
  NoStampede
