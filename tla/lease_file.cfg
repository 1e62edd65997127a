\* Up to two leases, cut anywhere; five binary digits for the clock, six for UINT64_MAX.
CONSTANTS
  Hex = 3
  Dec = 2
  Octets = 2
  Octet = {0, 5}
  Address = {14}
  Radix = 9
  Epoch = 16
  Clock = {16, 17, 18}
  Lifetime = {1}
  UINT64_MAX = 40
  NoLease = NoLease
  NoClient = NoClient
  MaxLeases = 2
SPECIFICATION Spec
INVARIANTS CleanStopReadsBack CutLosesOnlyTheTail
CHECK_DEADLOCK FALSE
