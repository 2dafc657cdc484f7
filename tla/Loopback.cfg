SPECIFICATION Spec
CONSTANTS
  Calls = {c1, c2}
  Closers = {k1, k2}
INVARIANTS ServerIsGone BridgeSound
PROPERTIES LoopbackEnds
CHECK_DEADLOCK FALSE
