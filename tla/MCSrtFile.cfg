SPECIFICATION Spec
CONSTANTS
  MaxLines = 7
  Translations = {"blank", "index", "text"}
INVARIANTS
  BlocksAreParagraphs
  LossExplained
  OutputReadsBack
CHECK_DEADLOCK FALSE
