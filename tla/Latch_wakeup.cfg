SPECIFICATION MCFairSpec
CONSTANTS
  o1 = o1
  o2 = o2
  s1 = s1
  s2 = s2
  Owner = {o1, o2}
  Setter = {s1, s2}
  MaxSets = 2
INVARIANTS
  NoLostWakeup
  AssertionsHold
PROPERTIES
  WorkGetsDone
