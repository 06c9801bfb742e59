SPECIFICATION Spec
CONSTANTS
  NPages <- MCNPages
  Huge <- MCHuge
  GlobalIdx = {2}
  Strategies <- MCStrategies
  Sizes = {1, 2, 3, 4, 5}
  MAX_ALLOCS = 3
INVARIANTS
  EveryPageOwned
  MappedAsAsked
  AvailabilitySound
