SPECIFICATION FairSpec
CONSTANTS
  Devices = {d1, d2, d3, d4}
  Iot = {d1, d3}
  PageSize = 2
  MaxChanges = 1
INVARIANTS
  OnlyChangesDisturb
  OneAccessoryIsLocal
PROPERTIES
  ListingEnds
