SPECIFICATION FairSpec
CONSTANTS
  d1 = d1 d2 = d2 A = A B = B H = H G = G S = S
  a1 = a1 a2 = a2 b1 = b1 h1 = h1 h2 = h2 h3 = h3 g2 = g2 s1 = s1 s2 = s2 s3 = s3
  sp = sp sq = sq sr = sr sx = sx sy = sy sz = sz
  Devices = {d1, d2}
  Apps = {A, B, H, G, S}
  Releases = {a1, a2, b1, h1, h2, h3, g2, s1, s2, s3}
  Services = {sp, sq, sr, sx, sy, sz}
  Release <- MCRelease
  App <- MCApp
  CpuArch <- MCCpuArch
  Revision <- MCRevision
  ServicesOf <- MCServices
  ServiceApp <- MCServiceApp
  Undefined = Undefined
  Null = Null
  None = None
  Unparsable = Unparsable
  Requests = {q1}
  Workers = {w1, w2}
  Bodies <- MovePinBodies
  Posts <- MovePosts
  AppBodies <- MoveAppBodies
  InitDevice <- MoveInitDevice
  InitTarget <- MoveTarget
  Withdrawn = {}
  Reporting = {}
  Async = TRUE
  BatchSize = 2
  MaxRequests = 3
  MaxFaults = 1
INVARIANTS FleetInv 
PROPERTY EverythingEnds
CHECK_DEADLOCK FALSE
