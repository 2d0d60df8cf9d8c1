\* The options of two networks name the same bridge.
SPECIFICATION HostSpec
CONSTANTS
  h1 = h1
  h2 = h2
  n1 = n1
  n2 = n2
  b1 = b1
  b2 = b2
  e1 = e1
  e2 = e2
  v1 = v1
  v2 = v2
  Nil = Nil
  Handler = {h1, h2}
  Network = {n1, n2}
  BridgeName = {b1, b2}
  VethName = {v1, v2}
  Endpoint = {}
  VethOf <- SameVeth
  Config <- SharedBridge
  NetOf <- OnFirst
  NetState <- States
  ServiceType = {"none"}
  GatewayType = {}
  NoType = "none"
  Systemd = FALSE
  Ops = {"CreateNetwork", "DeleteNetwork", "Join", "Leave"}
  Faults = {}
  LinkRetries = 1
  MaxUuid = 8
INVARIANT LiveNetworkResolves
CHECK_DEADLOCK FALSE
