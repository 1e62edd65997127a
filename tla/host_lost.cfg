\* All sequences of up to two hosts with addresses of two octets.
CONSTANTS
  ETHER_ADDR_LEN = 2
  Octet = {0, 1, 2}
  Address = {10, 11, 20}
  Subnet = {10, 11}
  Invalid = Invalid
  NotConfigured = NotConfigured
  MaxHosts = 2
SPECIFICATION Spec
INVARIANT EveryHostIsFound
CHECK_DEADLOCK FALSE
