\* A channel that keeps two events, three events in a life of the program.
SPECIFICATION FairSpec
CONSTANTS
  Shares = {s1, s2}
  d = d
  Devices = {d}
  NoDevice = NoDevice
  Jobs = {j1}
  PeerOf <- AllWithD
  Capacity = 2
  MaxEvents = 3
INVARIANTS
  TypeOK
  ChangeIsRemembered
  RevocationIsRemembered
PROPERTIES
  ChangesAreSynced
  RevocationsCascade
