SPECIFICATION Spec
CONSTANTS
  f1 = f1
  f2 = f2
  none = none
  Files = {f1, f2}
  Trees = {{f1, f2}}
  Empty = {}
  Workers = {1, 2}
  None = none
  Promises = {"no overwrite"}
PROPERTY
  FailedIsRetried
