SPECIFICATION FairSpec
CONSTANTS
  d1 = d1
  d2 = d2
  d3 = d3
  recorder = recorder
  camera = camera
  Devices = {d1, d2, d3}
  Groups = {recorder, camera}
  GroupOf <- TwoGroups
  Iot = {d1, d2}
INVARIANTS
  RefusalReachesCaller
PROPERTIES
  OutageMeansAll
  ReturnedWasRead
  NobodyIsForgotten
  PollEnds
