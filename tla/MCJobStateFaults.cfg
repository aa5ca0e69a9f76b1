SPECIFICATION FaultSpec
CONSTANTS
  f1 = f1
  f2 = f2
  none = none
  Files = {f1, f2}
  None = none
  MaxWal = 3
SYMMETRY PathSymmetry
INVARIANT
  DamageConfined
