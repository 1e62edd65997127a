\* Three clients, one with a fixed address and one all zero, and every shape of message; expiry, reuse of
\* addresses, restarts and crashes.
CONSTANTS
  HwAddr = {0, 1, 2}
  TailByte = {0}
  Radix = 3
  Subnet = {3, 4, 5}
  range_start = 3
  range_end = 4
  fixed_hosts <- FixedHost
  lease_time_seconds = 2
  OfferHold = 1
  UINT64_MAX = 20
  UINT32_RANGE = 16
  Wire <- EveryWire
  NoLease = NoLease
  NoOption = NoOption
  NoAddress = NoAddress
  NoClient = NoClient
  MaxTime = 3
  MaxPause = 1
  MaxQueue = 1
SPECIFICATION Spec
INVARIANTS TypeOK Honoured NoImmortalLease PoolAvoidsDeclined
PROPERTIES LeaseServiceSpec AdvertisedIsRecorded NoRevival
CHECK_DEADLOCK FALSE
