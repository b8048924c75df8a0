SPECIFICATION PushSpec
CONSTANTS
  Tasks = {t1, t2, t3}
  Products = {p1, p2}
  Models = {m1}
  RetrySeconds = 2
  NoTask = NoTask
  NoProduct = NoProduct
  NoModel = NoModel
INVARIANTS
  FailureIsThrottled
PROPERTIES
  EmptyHandedOnlyAfterFailure
  EventuallyCached
  MapsAreSingleFlight
