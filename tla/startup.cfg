\* Every command line, configuration file and failure; two signals.
CONSTANTS
  MaxSignals = 2
SPECIFICATION FairSpec
INVARIANTS TypeOK AtMostOneServer SuccessMeansReady FailureMeansNoDaemon
PROPERTIES ParentReturns EarlyStopObeyed
CHECK_DEADLOCK FALSE
