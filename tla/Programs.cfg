SPECIFICATION Spec
CONSTANTS
  OneItems = 12
  OneCapacity = 4
  NumPairs = 2
  Items = 2
  Capacity = 1
  Ratio = 2
  Durations = {1, 4}
  SetStep = 2
  SetPatience = 4
  SetRounds = 2
  SetReported = 2
  SetBehind = 2
  UnsetStep = 1
  UnsetPatience = 3
  UnsetRounds = 2
  UnsetReported = 1
  UnsetBehind = 1
  max_servers = 2
  QuietQueue = 2
  QuietSent = 4
  NoisyQueue = 1
  NoisySent = 3
INVARIANTS TimersSound ServerSound
PROPERTIES ClientSound ThreadsReturn EveryoneServed
CHECK_DEADLOCK FALSE
