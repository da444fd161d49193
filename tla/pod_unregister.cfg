SPECIFICATION Spec
CONSTANTS
  h1 = h1
  h2 = h2
  r1 = r1
  r2 = r2
  r3 = r3
  q1 = q1
  q2 = q2
  Hosts <- MCHosts
  Rules <- MCRules
  SrcHost <- MCSrc
  DstHost <- MCDst
  Requests <- OneRequest
  Req <- MCReq
  Internal <- MCInternal
  Allowed <- Nothing
  MaxLate = 0
PROPERTY UnregisterDeletes
