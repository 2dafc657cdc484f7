SPECIFICATION FairSpec
CONSTANTS
  k1 = k1
  k2 = k2
  k3 = k3
  Closers <- ThreeClosers
INVARIANTS ShutdownIsNotCrash
PROPERTIES ImplementsTransport TransportEnds
CHECK_DEADLOCK FALSE
