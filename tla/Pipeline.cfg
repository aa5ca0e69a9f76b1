SPECIFICATION FairSpec
CONSTANTS
  f1 = f1
  f2 = f2
  e = e
  none = none
  Files = {f1, f2, e}
  Trees = {{f1, f2}, {f2, e}}
  Empty = {e}
  Workers = {1, 2}
  None = none
  Promises = {"whole writes", "no overwrite"}
INVARIANTS
  TypeOK
  OneWorkerPerFile
  ReportMatchesLedger
  DeletedOnlyAfterSuccess
  SuccessMeansTranslated
  CleanRunMeansAllTranslated
PROPERTIES
  UnfinishedIsRetried
  ResumeSkipsOnlyTranslated
  FailureNotForgotten
  RunEnds
