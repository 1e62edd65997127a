\* One client, two values of the byte from_buffer leaves unset.
CONSTANTS
  HwAddr = {1, 2}
  TailByte = {0, 1}
  Radix = 3
  Subnet = {3, 4, 5}
  range_start = 3
  range_end = 5
  fixed_hosts <- NoFixedHosts
  lease_time_seconds = 2
  OfferHold = 1
  UINT64_MAX = 20
  UINT32_RANGE = 16
  Wire <- PlainWire
  NoLease = NoLease
  NoOption = NoOption
  NoAddress = NoAddress
  NoClient = NoClient
  MaxTime = 3
  MaxPause = 1
  MaxQueue = 1
SPECIFICATION Spec
PROPERTY UnknownMeansNoDiscover
CHECK_DEADLOCK FALSE
