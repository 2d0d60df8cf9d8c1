\* Every request ends.
SPECIFICATION FairSpec
CONSTANTS
  h1 = h1
  h2 = h2
  n1 = n1
  n2 = n2
  b1 = b1
  e1 = e1
  v1 = v1
  Nil = Nil
  Handler = {h1, h2}
  Network = {n1}
  BridgeName = {b1}
  VethName = {v1}
  Endpoint = {e1}
  VethOf <- SameVeth
  NetState <- NatGateway
  ServiceType = {"sgw", "none"}
  GatewayType = {"sgw"}
  NoType = "none"
  Systemd = TRUE
  Ops = {"CreateNetwork", "DeleteNetwork", "Join", "Leave"}
  Faults = {"disconnect"}
  LinkRetries = 2
  MaxUuid = 1
PROPERTY RequestsEnd
CHECK_DEADLOCK FALSE
