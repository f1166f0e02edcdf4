SPECIFICATION Spec
CONSTANT
  Worlds <- KeysOnly
INVARIANT
  ProvenWasProbed
CHECK_DEADLOCK FALSE
