SPECIFICATION Spec
CONSTANTS
  t = t
  v = v
  b = b
  Letter = {t, v, b}
  Names <- MCNames
  authName <- MCauthName
  Peer <- MCPeer
  NoIp = 0
  OtherIp = 200
  MAX_TABLES = 2
  Minute = 2
  Minutes = {1}
  MaxTime = 3
  MaxGrants = 3
  MaxInbox = 1
INVARIANTS
  AdmitsOnlyGranted
  HeardUnderLiveGrant
  ResponseUnderRequestKey
PROPERTY
  KeepsUnexpired
