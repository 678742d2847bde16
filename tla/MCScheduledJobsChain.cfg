CONSTANTS
  service = service
  operator = operator
  Schedulers <- Service
  Operators <- Nobody
  ManualNow <- Nobody
  Days = 2
  Gap = 2
  MaxTime = 3
  MaxAttempts = 2
  SendAttempts = 2
SPECIFICATION FairSpec
PROPERTY ChainGoesOn
CHECK_DEADLOCK FALSE
