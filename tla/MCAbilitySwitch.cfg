SPECIFICATION FairSpec
CONSTANTS
  Abilities = {a1, a2}
  Alarm = Alarm
  Pollers = {p1}
  Writers = {w1}
  MaxWrites = 2
  MaxChanges = 1
PROPERTIES
  PollShowsWhatWas
  SuccessWasTaken
  FailureFlipsNothing
  Converges
