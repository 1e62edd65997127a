\* Every command line, configuration file and failure; no signals.
CONSTANTS
  MaxSignals = 0
SPECIFICATION Spec
INVARIANT ErrorIsInChild
CHECK_DEADLOCK FALSE
