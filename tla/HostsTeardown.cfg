\* A fixture with a finally clause, which destroys again after a failed create;
\* only what is taken for a failure is torn down, however that is found out.
SPECIFICATION FairSpec
CONSTANTS
  NumVms = 3
  OnSuccess = FALSE
  OnFailure = TRUE
  TryFinally = TRUE
  Verdicts = {"session", "fixture", "test"}
  PassedBefore <- FirstTest
  DestroyMayFail = TRUE
  LostAnswers = TRUE
INVARIANTS
  ResourcesAreTracked
  InfrastructureOutlivesVms
  CleanReturn
  StraysOnlyWhenGone
PROPERTIES
  OneExecutionAtATime
  CleanIsFinal
  Termination
\* create and destroy end.
CHECK_DEADLOCK FALSE
