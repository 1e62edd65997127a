\* All sequences of up to four hosts with addresses of two octets.
CONSTANTS
  ETHER_ADDR_LEN = 2
  Octet = {0, 1, 2}
  Address = {10, 11, 20}
  Subnet = {10, 11}
  Invalid = Invalid
  NotConfigured = NotConfigured
  MaxHosts = 4
SPECIFICATION Spec
INVARIANTS TypeOK FindsOnlyTheHostAsked OrderedHostsAreFound
CHECK_DEADLOCK FALSE
