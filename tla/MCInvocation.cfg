SPECIFICATION Spec
CONSTANTS
  MaxAttempts = 2
  HasBackoff = TRUE
  HasTimeout = TRUE
  HelperKinds <- AnyHelpers
INVARIANTS
  CallQuiesces
  OkIsGenuine
PROPERTIES
  AnswerIsFinal
  CallReturns
CHECK_DEADLOCK FALSE
