SPECIFICATION FairSpec
CONSTANTS
  WS_MIN_PACKET_SIZE = 2
  WS_MID_PACKET_SIZE = 3
  WS_SPLICE_PACKET_SIZE = 4
  Senders = {"s1", "s2"}
  Scripts <- TwoScripts
  Keys <- MCKeys
  Segmented <- NoScripts
  Fragile <- NoScripts
INVARIANTS FragmentsTogether
