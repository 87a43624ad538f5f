SPECIFICATION HistorySpec
CONSTANTS
  Plates = {a, b}
  Guests = {}
  NoPlate = NoPlate
  Nothing = Nothing
  Owner = Owner
  Loop = Loop
  Free = Free
  Household = Household
  MaxStreak = 1
  MaxEvents = 3
PROPERTY StaleReadingNeverWins
