SPECIFICATION Spec
CONSTANTS
  Devices = {d1, d2}
  Iot = {d1}
  PageSize = 2
  MaxChanges = 0
INVARIANTS
  ListingReportsRefusal
