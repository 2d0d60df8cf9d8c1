\* A gateway network and a plain one share the gateway service.
SPECIFICATION HostSpec
CONSTANTS
  h1 = h1
  h2 = h2
  n1 = n1
  n2 = n2
  b1 = b1
  b2 = b2
  e1 = e1
  e2 = e2
  v1 = v1
  v2 = v2
  Nil = Nil
  Handler = {h1, h2}
  Network = {n1, n2}
  BridgeName = {b1, b2}
  VethName = {v1, v2}
  Endpoint = {}
  VethOf <- SameVeth
  Config <- GatewayAndPlain
  NetOf <- OnFirst
  NetState <- States
  ServiceType = {"sgw", "none"}
  GatewayType = {"sgw"}
  NoType = "none"
  Systemd = TRUE
  Ops = {"CreateNetwork", "DeleteNetwork", "Join", "Leave"}
  Faults = {}
  LinkRetries = 1
  MaxUuid = 8
PROPERTY GatewayStopsForGatewayOnly
CHECK_DEADLOCK FALSE
