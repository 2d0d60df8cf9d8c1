\* Two networks on one bridge are created and deleted while an endpoint joins and leaves, in any
\* order and twice at once.
SPECIFICATION Spec
CONSTANTS
  h1 = h1
  h2 = h2
  n1 = n1
  n2 = n2
  b1 = b1
  e1 = e1
  v1 = v1
  Nil = Nil
  Handler = {h1, h2}
  Network = {n1, n2}
  BridgeName = {b1}
  VethName = {v1}
  Endpoint = {e1}
  VethOf <- SameVeth
  NetState <- Flat
  ServiceType = {"none"}
  GatewayType = {}
  NoType = "none"
  Systemd = FALSE
  Ops = {"CreateNetwork", "DeleteNetwork", "CreateEndpoint", "Join", "Leave"}
  Faults = {"crash", "disconnect"}
  LinkRetries = 1
  MaxUuid = 2
SYMMETRY Symmetry
INVARIANTS RowsAgree InternalPorts CacheComplete UuidsMatchNames IndInv
CHECK_DEADLOCK FALSE
