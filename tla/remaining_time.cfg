\* The clock moves while a discovery is handled.
CONSTANTS
  HwAddr = {1}
  TailByte = {0}
  Radix = 3
  Subnet = {3, 4, 5}
  range_start = 3
  range_end = 5
  fixed_hosts <- NoFixedHosts
  lease_time_seconds = 2
  OfferHold = 1
  UINT64_MAX = 20
  UINT32_RANGE = 16
  Wire <- CiaddrWire
  NoLease = NoLease
  NoOption = NoOption
  NoAddress = NoAddress
  NoClient = NoClient
  MaxTime = 3
  MaxPause = 2
  MaxQueue = 1
SPECIFICATION Spec
PROPERTY OffersRemainingTime
CHECK_DEADLOCK FALSE
