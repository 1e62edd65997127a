\* Every command line, configuration file and failure; no signals.
CONSTANTS
  MaxSignals = 0
SPECIFICATION Spec
INVARIANT ServesAcceptedConfig
CHECK_DEADLOCK FALSE
