CONSTANTS
  service = service
  operator = operator
  Schedulers <- Service
  Operators <- Operator
  ManualNow <- Future
  Days = 2
  Gap = 3
  MaxTime = 2
  MaxAttempts = 2
  SendAttempts = 2
SPECIFICATION Spec
INVARIANTS JobsInv OneExecutorPerRun NoDaySkipped
PROPERTIES SuccessIsFinal ImplementsChain
