SPECIFICATION Spec
CONSTANTS
  Packets <- MCPackets
  Files <- MCFiles
  SIZE = 4
  CHARS_PER_LINE = 12
  MAX_STRING = 9
  DecodeSize = 5
  MaxFile = 10
  MaxPacket = 6
  WIDTH = 3
  net_if_ip <- MCIp
  Adapters <- MCAdapters
INVARIANTS
  EncodesFile
  RoundTrip
  StringFits
  IsOnesComplement
  ByteOrderIrrelevant
  LongestPrefix
CHECK_DEADLOCK FALSE
