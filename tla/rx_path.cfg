SPECIFICATION Spec
CONSTANTS
  q1 = q1
  q2 = q2
  ip = ip
  mac = mac
  Addresses = {ip, mac}
  ArpPackets = {}
  Nothing = Nothing
  BUF_MAX_LEN = 131325
  Ports = {q1, q2, q3}
  UdpFits = 2
  Frames <- MCFrames
  FirstData = 64130
  LastData = 64230
INVARIANTS
  TypeOK
  DeliveredIffOpen
  PayloadExact
  QuotesIpHeader
PROPERTY HeaderComesBack
