SPECIFICATION Spec
CONSTANTS
  q1 = q1
  q2 = q2
  ip = ip
  mac = mac
  Addresses = {ip, mac}
  ArpPackets = {}
  Nothing = Nothing
  BUF_MAX_LEN = 131325
  Ports = {q1}
  UdpFits = 2
  Frames <- MCOneFrame
  FirstData = 0
  LastData = 131325
INVARIANT RxFitsArray
