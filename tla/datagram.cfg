\* Messages of up to four options and up to 576 bytes, five configurations, both byte orders.
CONSTANTS
  Message <- MCMessage
  Setting <- MCSetting
  Netmask <- MCNetmask
  LeaseTime <- MCLeaseTime
  ServerAddress <- MCServerAddress
  Offered <- MCOffered
  Remaining <- MCRemaining
  Unset = {0, 9}
SPECIFICATION Spec
INVARIANTS ScanReadsTheOptions ReplyIsRecognised ClientReadsTheReply
CHECK_DEADLOCK FALSE
