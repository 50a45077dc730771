SPECIFICATION SSpec
CONSTANTS
  d1 = d1
  d2 = d2
  a1 = a1
  a2 = a2
  m1 = m1
  q1 = q1
  q2 = q2
  MY_IP = MY_IP
  MY_MAC = MY_MAC
  BROADCAST = BROADCAST
  Nothing = Nothing
  ARP = ARP
  BUF_MAX_LEN = 131325
  Peers = {a1, a2}
  Senders = {a1, a2}
  Asked = {MY_IP}
  Macs = {m1}
  Bufs = {}
  TableFits = 2
  HoldFits = 1
  ARP_TIMEOUT_SEC = 1
  ARP_MIN_INTERVAL = 1
  MaxTime = 3
  Datagrams = {d1, d2}
  Lengths <- MCLengths
  MaxStall = 1
  Ports = {q1, q2}
  UdpFits = 2
  EchoPort = q1
  Frames <- MCFrames
  FirstData = 60000
  LastData = 70000
INVARIANTS
  TilesUnlessAsked
  NoForeignBytesOnWire
  FramesArePieces
PROPERTY AnswersSpec
