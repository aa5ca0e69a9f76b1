SPECIFICATION Spec
CONSTANTS
  f1 = f1
  f2 = f2
  none = none
  Files = {f1, f2}
  None = none
  MaxWal = 4
INVARIANTS
  TypeOK
  NothingLostWhileOpen
  ReplayIsTheLoop
PROPERTY
  ImplementsLedger
