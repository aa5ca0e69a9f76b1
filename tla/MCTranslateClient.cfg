SPECIFICATION FairSpec
CONSTANTS
  Hello = Hello
  HELLO = HELLO
  Bye = Bye
  Lines = {Hello, HELLO, Bye}
  Normal <- NormalValue
  Inputs <- InputsValue
  BatchSizes = {1, 2, 3}
  MaxRetries = 1
  None = None
INVARIANTS EveryLineItsTranslation CacheHoldsOwnTranslations FailureIsOfALine RequestsBounded CancelStopsRequests
PROPERTY CallReturns
CHECK_DEADLOCK FALSE
