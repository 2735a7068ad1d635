\* Four concurrent pairing calls; every interleaving of their atomics.
SPECIFICATION SwitchSpec
CONSTANT Calls = {a, b, c, d}
INVARIANTS
  SwitchTypeOK
  CountIsGuards
  OffWhenIdle
