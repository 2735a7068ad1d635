\* Three devices, two commands in flight, three in all.
SPECIFICATION MCSpec
CONSTANTS
  Devices = {a, b, c}
  NoDevice = NoDevice
  Permissions = {"read_write", "read_only"}
  Tasks = {t1, t2}
  Failing = {a, b, c}
  MaxCommands = 3
SYMMETRY Symmetry
INVARIANTS
  TypeOK
  MembersWereOffered
  ListedHasShare
  CreatorKeepsAccess
  MutualOrExcused
