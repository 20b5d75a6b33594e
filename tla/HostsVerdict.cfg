\* A test of a session in which another has passed, with the default settings.
SPECIFICATION Spec
CONSTANTS
  NumVms = 1
  OnSuccess = TRUE
  OnFailure = FALSE
  TryFinally = FALSE
  Verdicts = {"session"}
  PassedBefore <- LaterTest
  DestroyMayFail = FALSE
  LostAnswers = FALSE
INVARIANTS
  TeardownAsConfigured
CHECK_DEADLOCK FALSE
