SPECIFICATION HSpec
CONSTANTS
  p1 = p1
  p2 = p2
  p3 = p3
  a1 = a1
  a2 = a2
  m1 = m1
  m2 = m2
  MY_IP = MY_IP
  MY_MAC = MY_MAC
  BROADCAST = BROADCAST
  Nothing = Nothing
  ARP = ARP
  BUF_MAX_LEN = 131325
  Peers = {a1, a2}
  Senders = {a1, a2}
  Asked = {MY_IP, other}
  Macs = {m1, m2}
  Bufs <- MCBufs
  TableFits = 2
  HoldFits = 2
  ARP_TIMEOUT_SEC = 1
  ARP_MIN_INTERVAL = 1
  MaxTime = 3
INVARIANTS
  TypeOK
  AtMostOnce
  NoSilentLoss
PROPERTIES
  FreshMac
  RequestSpacing
SYMMETRY MCSymm
