SPECIFICATION Spec
CONSTANTS
  a = a
  b = b
  mac_a = mac_a
  mac_b = mac_b
  pa = pa
  pb = pb
  Nothing = Nothing
  ARP = ARP
  BROADCAST = BROADCAST
  BUF_MAX_LEN = 131325
  TableFits = 2
  HoldFits = 1
  ARP_TIMEOUT_SEC = 1
  ARP_MIN_INTERVAL = 1
  BufsA <- MCBufsA
  BufsB <- MCBufsB
PROPERTY GetsThrough
