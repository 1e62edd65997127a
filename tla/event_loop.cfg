\* Four datagrams, so that the send buffer of two fills up; two signals.
CONSTANTS
  Handled = {"INT", "TERM", "HUP"}
  RcvCap = 2
  SndCap = 2
  MaxDatagrams = 4
  MaxSignals = 2
SPECIFICATION FairSpec
INVARIANTS TypeOK NoLostInput NoStrandedReply InOrder NothingVanishes StopMissedOnlyInWindow
PROPERTIES Served StopServed
CHECK_DEADLOCK FALSE
