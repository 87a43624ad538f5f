SPECIFICATION MCSpec
CONSTANTS
  Plates = {a, b}
  Guests = {g}
  NoPlate = NoPlate
  Nothing = Nothing
  Owner = Owner
  Loop = Loop
  Free = Free
  Household = Household
  MaxStreak = 1
  MaxEvents = 3
SYMMETRY PlateSymmetry
INVARIANTS
  TypeOK
  RecordInv
  
  RevokedLinkWritesNothing
  NoWriteInShutWindow
PROPERTIES
  NoPointlessWrite
  
  ImplementsRecord
