SPECIFICATION LiveSpec
CONSTANTS
  Plates = {a, b}
  Guests = {g}
  NoPlate = NoPlate
  Nothing = Nothing
  Owner = Owner
  Loop = Loop
  Free = Free
  Household = Household
  MaxStreak = 1
  MaxEvents = 2
  PassesPerDrift = 2
PROPERTIES
  Converges
  EpisodeEnds
  ClaimReturns
