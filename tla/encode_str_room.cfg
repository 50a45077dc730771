SPECIFICATION Spec
CONSTANTS
  Packets <- MCPackets
  Files <- MCFiles
  SIZE = 4
  CHARS_PER_LINE = 12
  MAX_STRING = 9
  DecodeSize = 5
  MaxFile = 4
  MaxPacket = 0
  WIDTH = 3
  net_if_ip <- MCIp
  Adapters <- MCAdapters
INVARIANT OutputLargeEnough
CHECK_DEADLOCK FALSE
