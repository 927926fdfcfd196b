\* Three retries, the default; attempts fail, hang, time out, are cancelled; those
\* of an exec have processes, which fail, hang and are killed.
SPECIFICATION ExecFairSpec
CONSTANTS
  Configurations <- RetryConfigurations
  MaxAttempts = 4
  MayCancel = TRUE
INVARIANTS ExecIInv LateAnswersIgnored AllAttemptsMade RunInTime OutputKept
PROPERTIES RunReturns AnswerersEnd ExpiredDies
\* The run may have returned.
CHECK_DEADLOCK FALSE
