SPECIFICATION WaitRegistrySpec
CONSTANTS
  Fibers = {f1, f2, f3}
  Keys = {k1, k2}
  MaxArms = 2
  MaxNodes = 4
SYMMETRY Symmetry
INVARIANTS
  RegistrySound
PROPERTIES
  ImplementsWaitQueues
