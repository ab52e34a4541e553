SPECIFICATION FairSpec
CONSTANTS
  a = a  b = b
  Leader = a
  Follower = b
  Pfs = TRUE
  AllowTraffic = TRUE
  MaxDelay = 1
  PrevTtl = 3
  Cooldown = 1
  PendingTimeout = 2
  MaxRequests = 3
  MaxData = 2
  MaxCloses = 1
INVARIANTS
  TransportTypeOK
  KeysAgree
  FramesReadable
  AnsweredInTime
PROPERTIES
  ImplementsSessionKeys
  RekeyEnds
