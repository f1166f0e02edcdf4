SPECIFICATION Spec
CONSTANT
  Worlds <- MCWorlds
INVARIANTS
  TypeOK
  NothingKept
  FlaggedIsReal
  NothingSilent
  OneFailureIsOneTarget
  GreenIsControlled
  OnlyFaultsThrow
  SkipsEmptyHanded
PROPERTIES
  Terminates
  KeepsContract
CHECK_DEADLOCK FALSE
