SPECIFICATION Spec
CONSTANTS
  N = 2
  Ip = {gw, h1, h2}
  NoIp = NoIp
  Remote = {r1}
  Gateway = gw
  Mac = {m1, m2, m3}
  NoMac = NoMac
  MAX_ARP_AGE = 3
  MAX_ARP_RETRANSMISSIONS = 2
  MAX_ARP_AGE_BEFORE_NEW_ARP_REQUEST = 1
  Unknown = Unknown
  Asked = Asked
  MaxQueue = 1
SYMMETRY Symmetry
INVARIANTS
  HitsAreHeard
PROPERTIES
  ExpiresOnlyUnanswered
  ImplementsResolution
