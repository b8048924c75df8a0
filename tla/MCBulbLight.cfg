SPECIFICATION BulbSpec
CONSTANTS
  Colors = {red}
  Scenes = {0}
  None = None
  HaLevels <- SomeHaLevels
  Kelvins <- SomeKelvins
  ReadLevels <- SomeReadLevels
  ReadModes <- SomeReadModes
PROPERTIES
  AskedIsShown
  SlidersAreApart
  ResendChangesNothing
