------------------------- MODULE DockerHostOutcomes -------------------------
(* Proofs about DockerHost: an answer "ok" is kept by the database for as   *)
(* long as docker counts on it; and that DockerHost implements              *)
(* NetworkDriver, where bridges and ports have names of their own.          *)
EXTENDS DriverRefinement, DockerHostSafety

-----------------------------------------------------------------------------
(* Who may undo what *)

LEMMA ConfigNames ==
  ASSUME NEW n \in Network
  PROVE  Config[n].name \in BridgeName /\ Config[n].type \in ServiceType
BY ConfigType, NetStateType, Zenon

(* A bridge goes only with the deletion of its own network. *)
LEMMA BridgeKept ==
  ASSUME IndInv, ServesDocker, Faithful, [HostNext]_hostVars, BridgesApart, NEW n \in Network,
         HasBridge(n), ~(dnet[n] = "deleting" /\ Unused(n))
  PROVE  HasBridge(n)'
<1>1. CASE UNCHANGED <<bridges, ports, opts>>
  BY <1>1, Zenon DEF HasBridge
<1>2. ASSUME NEW m \in Network, CreatesBridge(m) PROVE HasBridge(n)'
  BY <1>2, Zenon DEF CreatesBridge, HasBridge
<1>3. ASSUME NEW m \in Network, dnet[m] = "deleting", Unused(m), DropsBridge(m) PROVE HasBridge(n)'
  BY <1>3, Zenon DEF DropsBridge, HasBridge, BridgesApart
<1>4. ASSUME NEW e \in Endpoint, AddsPort(e) \/ DropsPort(e) PROVE HasBridge(n)'
  BY <1>4, Zenon DEF AddsPort, DropsPort, HasBridge
<1> QED BY <1>1, <1>2, <1>3, <1>4, HostTouches, Zenon DEF Touches

(* A network that has no row gets one only by its own creation. *)
LEMMA StaysGone ==
  ASSUME IndInv, ServesDocker, Faithful, [HostNext]_hostVars, NEW n \in Network,
         BridgeNamesOf(n) = {}, dnet[n] # "creating"
  PROVE  BridgeNamesOf(n)' = {}
<1>a. \A o \in opts : o.network # n
  BY DEF BridgeNamesOf
<1>1. CASE UNCHANGED <<bridges, ports, opts>>
  BY <1>1 DEF BridgeNamesOf
<1>2. ASSUME NEW m \in Network, dnet[m] = "creating", CreatesBridge(m) PROVE BridgeNamesOf(n)' = {}
  <2>1. \A o \in opts' : o \in opts \/ o.network = m
    BY <1>2 DEF CreatesBridge
  <2> QED BY <1>a, <1>2, <2>1, Zenon DEF BridgeNamesOf
<1>3. ASSUME NEW m \in Network, DropsBridge(m) PROVE BridgeNamesOf(n)' = {}
  <2>1. opts' \subseteq opts
    BY <1>3, Zenon DEF DropsBridge
  <2> QED BY <1>a, <2>1, Zenon DEF BridgeNamesOf
<1>4. ASSUME NEW e \in Endpoint, AddsPort(e) \/ DropsPort(e) PROVE BridgeNamesOf(n)' = {}
  BY <1>4, Zenon DEF AddsPort, DropsPort, BridgeNamesOf
<1> QED BY <1>1, <1>2, <1>3, <1>4, HostTouches, Zenon DEF Touches

(* A port goes only when its endpoint leaves or its network is deleted. *)
LEMMA PortKept ==
  ASSUME IndInv, ServesDocker, Faithful, [HostNext]_hostVars, BridgesApart, VethsApart,
         NEW e \in Endpoint, HasPort(e), dep[e] \in {"joining", "joined"}
  PROVE  HasPort(e)'
<1>a. NetOf[e] \in Network /\ ~Unused(NetOf[e])
  BY NetOfType, Zenon DEF Unused
<1>b. PICK p \in ports, r \in bridges :
         p.name = VethOf[e] /\ p.bridge = r.uuid /\ r.name = Config[NetOf[e]].name
  BY DEF HasPort
<1>c. p \in ports' /\ r \in bridges' => HasPort(e)'
  BY <1>b DEF HasPort
<1>1. CASE UNCHANGED <<bridges, ports, opts>>
  BY <1>1, <1>c, Zenon
<1>2. ASSUME NEW m \in Network, CreatesBridge(m) PROVE HasPort(e)'
  BY <1>2, <1>c, Zenon DEF CreatesBridge
<1>3. ASSUME NEW m \in Network, Unused(m), DropsBridge(m) PROVE HasPort(e)'
  <2>1. r \in bridges'
    BY <1>3, <1>a, <1>b, Zenon DEF DropsBridge, BridgesApart
  <2>2. p \in ports'
    BY <1>3, <1>b, <2>1, Zenon DEF DropsBridge
  <2> QED BY <1>c, <2>1, <2>2, Zenon
<1>4. ASSUME NEW f \in Endpoint, AddsPort(f) PROVE HasPort(e)'
  BY <1>4, <1>c, Zenon DEF AddsPort
<1>5. ASSUME NEW f \in Endpoint, dep[f] = "leaving", DropsPort(f) PROVE HasPort(e)'
  BY <1>5, <1>b, <1>c, Zenon DEF DropsPort, VethsApart
<1> QED BY <1>1, <1>2, <1>3, <1>4, <1>5, HostTouches, Zenon DEF Touches

(* An endpoint that has no port gets one only by its own Join. *)
LEMMA StaysDetached ==
  ASSUME IndInv, ServesDocker, Faithful, [HostNext]_hostVars, VethsApart,
         NEW e \in Endpoint, ~PortExists(VethOf[e]), dep[e] # "joining"
  PROVE  ~PortExists(VethOf[e])'
<1>a. \A p \in ports : p.name # VethOf[e]
  BY DEF PortExists
<1>1. CASE UNCHANGED <<bridges, ports, opts>>
  BY <1>1, Zenon DEF PortExists
<1>2. ASSUME NEW m \in Network, CreatesBridge(m) PROVE ~PortExists(VethOf[e])'
  <2>1. Config[m].name # VethOf[e]
    BY ConfigNames, VethOfType, NamesDisjoint, Zenon
  <2>2. \A p \in ports' : p \in ports \/ p.name = Config[m].name
    BY <1>2 DEF CreatesBridge
  <2> QED BY <1>a, <2>1, <2>2, Zenon DEF PortExists
<1>3. ASSUME ports' \subseteq ports PROVE ~PortExists(VethOf[e])'
  BY <1>a, <1>3, Zenon DEF PortExists
<1>4. ASSUME NEW f \in Endpoint, dep[f] = "joining", AddsPort(f) PROVE ~PortExists(VethOf[e])'
  <2>1. \A p \in ports' : p \in ports \/ p.name = VethOf[f]
    BY <1>4 DEF AddsPort
  <2> QED BY <1>a, <1>4, <2>1, Zenon DEF PortExists, VethsApart
<1>5. /\ \A m \in Network : DropsBridge(m) => ports' \subseteq ports
      /\ \A f \in Endpoint : DropsPort(f) => ports' \subseteq ports
  BY DEF DropsBridge, DropsPort
<1> QED BY <1>1, <1>2, <1>3, <1>4, <1>5, HostTouches, Zenon DEF Touches

(* The connection comes back only with a new process. *)
LEMMA ConnLost ==
  ASSUME IndInv, ServesDocker, [HostNext]_hostVars, conn'
  PROVE  conn \/ \A h \in Handler : pc'[h] = "idle"
<1>1. ASSUME NEW h \in Handler, HandlerStep(h), UNCHANGED dockerVars PROVE conn
  <2>1. TypeOK /\ LocalsOK
    BY Zenon DEF IndInv
  <2>2. Quiet \/ GetBridgeUUIDForName(h) \/ PortUUIDForName(h) => conn
    BY Zenon DEF Quiet, GetBridgeUUIDForName, PortUUIDForName, ovsdbVars
  <2>3. Exit => ~conn'
    BY DEF Exit
  <2>4. ASSUME NEW ok, NEW B, NEW P, NEW O, NEW touched, NEW fresh, NEW rep,
               Transact(ok, B, P, O, touched, fresh, rep)
        PROVE  conn
    BY <2>4, Zenon DEF Transact
  <2>5. CreateBridgeIface(h) \/ DeleteBridge(h) \/ AddOvsVethPort(h) \/ DeletePort(h) => conn
    BY <2>4, Zenon DEF CreateBridgeIface, DeleteBridge, AddOvsVethPort, DeletePort,
          createOvsdbBridge, deleteBridgeRows, addOvsVethPort, deletePortRows
  <2> QED BY <1>1, <2>1, <2>2, <2>3, <2>5, HandlerKinds, Zenon
<1>2. ASSUME NEW h \in Handler, (\E r \in Request : Receive(h, r)) \/ Answered(h) PROVE conn
  BY <1>2, Zenon DEF Receive, Answered, Return, ovsdbVars
<1>3. ASSUME Environment PROVE conn \/ \A h \in Handler : pc'[h] = "idle"
  BY <1>3, Zenon DEF Environment, PopulateCache, LoseConnection, Disconnect, Crash, Exit, NewDriver, Vswitchd,
              ovsdbVars, ServesDocker
<1>4. UNCHANGED hostVars => conn
  BY DEF hostVars, vars, ovsdbVars
<1> QED BY <1>1, <1>2, <1>3, <1>4, CallIsReceive, Zenon DEF HostNext

-----------------------------------------------------------------------------
(* How a handler gets where it has done its work *)

(* A handler stays, ends, begins, or takes a step of its own. *)
Stays(g) == pc'[g] = pc[g] /\ req'[g] = req[g] /\ type'[g] = type[g]
Ends(g) == pc'[g] = "idle" /\ type'[g] = NoType
Begins(g) == /\ pc[g] = "idle" /\ type'[g] = type[g]
             /\ pc'[g] \in {"CreateNetwork", "DeleteNetwork", "Join", "Leave"}

LEMMA HandlerLife ==
  ASSUME TypeOK, [HostNext]_hostVars, NEW g \in Handler
  PROVE  \/ Stays(g) \/ Ends(g) \/ Begins(g)
         \/ HandlerStep(g) /\ UNCHANGED <<req, dockerVars>>
<1>a. /\ pc \in [Handler -> Label] /\ req \in [Handler -> Request \cup {Nil}]
      /\ type \in [Handler -> ServiceType]
  BY DEF TypeOK, HandlersTypeOK
<1>1. ASSUME NEW h \in Handler, NEW r, Receive(h, r),
             r.op \in {"CreateNetwork", "DeleteNetwork", "Join", "Leave"}
      PROVE  Stays(g) \/ Begins(g)
  BY <1>a, <1>1, Zenon DEF Receive, Goto, At, Stays, Begins
<1>2. ASSUME NEW h \in Handler, NEW n \in Network, CallCreate(h, n) \/ CallDelete(h, n)
      PROVE  Stays(g) \/ Begins(g)
  BY <1>1, <1>2, Fields, Zenon DEF CallCreate, CallDelete
<1>3. ASSUME NEW h \in Handler, NEW e \in Endpoint, CallJoin(h, e) \/ CallLeave(h, e)
      PROVE  Stays(g) \/ Begins(g)
  BY <1>1, <1>3, Fields, Zenon DEF CallJoin, CallLeave
<1>4. ASSUME NEW h \in Handler, Answered(h) PROVE Stays(g) \/ Ends(g)
  BY <1>a, <1>4, Zenon DEF Answered, Return, Goto, Stays, Ends
<1>5. Exit => Ends(g)
  BY DEF Exit, Ends
<1>6. ASSUME NEW h \in Handler, HandlerStep(h), UNCHANGED dockerVars
      PROVE  Stays(g) \/ Ends(g) \/ (HandlerStep(g) /\ UNCHANGED <<req, dockerVars>>)
  <2>1. CASE UNCHANGED <<up, req>> /\ g = h
    BY <1>6, <2>1, Zenon
  <2>2. CASE UNCHANGED <<up, req>> /\ (UNCHANGED pc \/ \E l : Goto(h, l)) /\ g # h
    <3>1. pc'[g] = pc[g] /\ req'[g] = req[g]
      BY <1>a, <2>2, Zenon DEF Goto
    <3>2. Exit \/ type'[g] = type[g]
      <4>1. Exit \/ UNCHANGED type \/ \E t : type' = [type EXCEPT ![h] = t]
        BY <1>6, Flow, Zenon DEF Walks, InitBridge, DeleteNetwork, BridgeForJoin, BridgeForLeave
      <4> QED BY <1>a, <2>2, <4>1, Zenon
    <3> QED BY <1>5, <3>1, <3>2, Zenon DEF Stays
  <2> QED BY <1>5, <1>6, <2>1, <2>2, StepOfServing, Zenon
<1>7. Environment => Exit \/ UNCHANGED <<pc, req, type>>
  BY DEF Environment, PopulateCache, LoseConnection, Crash, NewDriver, Vswitchd, localVars
<1>8. UNCHANGED hostVars => UNCHANGED <<pc, req, type>>
  BY DEF hostVars, vars, localVars
<1>9. UNCHANGED <<pc, req, type>> => Stays(g)
  BY DEF Stays
<1> QED BY <1>2, <1>3, <1>4, <1>5, <1>6, <1>7, <1>8, <1>9, Zenon DEF HostNext

(* The steps by which a handler gets to have done its work *)
Reaches(h) ==
    /\ Created(h)' => Created(h) \/ ((AddBridgeCheck(h) \/ AddBridgeRecheck(h)) /\ PortExists(name[h]))
    /\ Deleted(h)' => Deleted(h) \/ DeleteBridge(h)
    /\ pc'[h] = "addOvsVethPort" => BridgeForJoin(h)
    /\ Joined(h)' => pc[h] = "getIPByInterface" \/ AddOvsVethPort(h)
    /\ Done(h, "Leave")' => DeletePort(h)

(* The label a handler is at tells the request it serves. *)
LEMMA OpAtWork ==
  ASSUME IndInv, ServesDocker, Faithful, NEW h \in Handler
  PROVE  /\ pc[h] \in CreateLabel => req[h].op = "CreateNetwork"
         /\ pc[h] \in DeleteLabel => req[h].op = "DeleteNetwork"
         /\ pc[h] \in JoinLabel => req[h].op = "Join"
         /\ pc[h] \in LeaveLabel => req[h].op = "Leave"
         /\ pc[h] \notin StubLabel
<1>1. LocalsOK /\ Knows(h)
  BY DEF IndInv, Faithful
<1>2. ASSUME pc[h] \in CreateLabel PROVE req[h].op = "CreateNetwork"
  BY <1>1, <1>2, AtWork, Fields
<1>3. ASSUME pc[h] \in DeleteLabel PROVE req[h].op = "DeleteNetwork"
  BY <1>1, <1>3, AtWork, Fields
<1> QED BY <1>1, <1>2, <1>3, Zenon DEF Knows

(* So does the "ok" it is about to answer. *)
LEMMA DoneServes ==
  ASSUME ServesDocker, NEW h \in Handler
  PROVE  /\ Done(h, "CreateNetwork") => \E n \in Network : req[h] = CreateOf(n) /\ dnet[n] = "creating"
         /\ Done(h, "DeleteNetwork") => \E n \in Network : req[h] = DeleteOf(n) /\ dnet[n] = "deleting"
         /\ Done(h, "Join") => \E e \in Endpoint : req[h] = JoinOf(e) /\ dep[e] = "joining"
         /\ Done(h, "Leave") => \E e \in Endpoint : req[h] = LeaveOf(e) /\ dep[e] = "leaving"
<1>1. pc[h] = "ok" => Serves(h)
  BY DEF ServesDocker
<1>2. ASSUME Done(h, "CreateNetwork") PROVE \E n \in Network : req[h] = CreateOf(n) /\ dnet[n] = "creating"
  BY <1>1, <1>2, Fields, Zenon DEF Done, Serves
<1>3. ASSUME Done(h, "DeleteNetwork") PROVE \E n \in Network : req[h] = DeleteOf(n) /\ dnet[n] = "deleting"
  BY <1>1, <1>3, Fields, Zenon DEF Done, Serves
<1>4. ASSUME Done(h, "Join") PROVE \E e \in Endpoint : req[h] = JoinOf(e) /\ dep[e] = "joining"
  BY <1>1, <1>4, Fields, Zenon DEF Done, Serves
<1>5. ASSUME Done(h, "Leave") PROVE \E e \in Endpoint : req[h] = LeaveOf(e) /\ dep[e] = "leaving"
  BY <1>1, <1>5, Fields, Zenon DEF Done, Serves
<1> QED BY <1>2, <1>3, <1>4, <1>5, Zenon

LEMMA Steps ==
  ASSUME IndInv, ServesDocker, Faithful, NEW h \in Handler, HandlerStep(h), UNCHANGED req
  PROVE  Reaches(h)
<1>a. pc \in [Handler -> Label]
  BY DEF IndInv, TypeOK, HandlersTypeOK
<1>b. /\ pc[h] \in CreateLabel => req[h].op = "CreateNetwork"
      /\ pc[h] \in DeleteLabel => req[h].op = "DeleteNetwork"
      /\ pc[h] \in JoinLabel => req[h].op = "Join"
      /\ pc[h] \in LeaveLabel => req[h].op = "Leave"
      /\ pc[h] \notin StubLabel
  BY OpAtWork, Zenon
<1> USE DEF CreateLabel, DeleteLabel, JoinLabel, LeaveLabel, At, Goto, Reaches, Created, Deleted,
            Joined, Done
<1>1. Exit => Reaches(h)
  BY DEF Exit
<1>2. ASSUME \/ CreateNetwork(h) \/ InitBridge(h) \/ AddBridgeCheck(h) \/ CreateBridgeIface(h)
             \/ AddBridgeRecheck(h) \/ InterfaceUp(h) \/ WaitForLink(h)
      PROVE  Reaches(h)
  <2>1. CASE CreateNetwork(h) \/ InitBridge(h) \/ CreateBridgeIface(h)
    BY <1>a, <1>b, <2>1, Zenon DEF CreateNetwork, InitBridge, CreateBridgeIface
  <2>2. CASE AddBridgeCheck(h)
    BY <1>a, <1>b, <2>2, Zenon DEF AddBridgeCheck, AbandonNetwork
  <2>3. CASE AddBridgeRecheck(h)
    BY <1>a, <1>b, <2>3, Zenon DEF AddBridgeRecheck, AbandonNetwork
  <2>4. CASE InterfaceUp(h) \/ WaitForLink(h)
    BY <1>a, <1>b, <2>4, Zenon DEF InterfaceUp, WaitForLink, AbandonNetwork
  <2> QED BY <1>2, <2>1, <2>2, <2>3, <2>4, Zenon
<1>3. ASSUME SetInterfaceIP(h) \/ GetIfaceAddr(h) \/ NatOut(h)
      PROVE  Reaches(h)
  BY <1>a, <1>b, <1>1, <1>3, Zenon DEF SetInterfaceIP, GetIfaceAddr, NatOut
<1>4. ASSUME StartOvsService(h) \/ StopOvsService(h) \/ ForgetNetwork(h)
      PROVE  Reaches(h)
  BY <1>a, <1>b, <1>4, Zenon DEF StartOvsService, StopOvsService, ServiceStep, ForgetNetwork
<1>5. ASSUME \/ DeleteNetwork(h) \/ GetBridgeServiceType(h) \/ GetBridgeUUIDForName(h)
             \/ DeleteBridge(h)
      PROVE  Reaches(h)
  BY <1>a, <1>b, <1>5, Zenon DEF DeleteNetwork, GetBridgeServiceType, GetBridgeUUIDForName, DeleteBridge,
              LookupBridge, LookupUuid
<1>6. ASSUME \/ Join(h) \/ LinkSetUp(h) \/ BridgeForJoin(h) \/ AddOvsVethPort(h) \/ GetIPByInterface(h)
      PROVE  Reaches(h)
  BY <1>a, <1>b, <1>6 DEF Join, LinkSetUp, BridgeForJoin, AddOvsVethPort, GetIPByInterface, LookupBridge
<1>7. ASSUME Leave(h) \/ BridgeForLeave(h) \/ PortUUIDForName(h) \/ DeletePort(h)
      PROVE  Reaches(h)
  BY <1>a, <1>b, <1>7, Zenon DEF Leave, BridgeForLeave, PortUUIDForName, DeletePort, LookupBridge, LookupUuid
<1>8. ~EndpointStub(h)
  BY <1>b, Zenon DEF EndpointStub
<1> QED BY <1>2, <1>3, <1>4, <1>5, <1>6, <1>7, <1>8, Zenon DEF HandlerStep

(* What a reply says of the transaction *)
LEMMA ReplySays ==
  ASSUME NEW ok, NEW B, NEW P, NEW O, NEW touched, NEW fresh, NEW rep,
         Transact(ok, B, P, O, touched, fresh, rep)
  PROVE  /\ rep = "ok" => bridges' = B /\ ports' = P /\ opts' = O
         /\ rep = "none" => ~conn'
BY Zenon DEF Transact

(* The rows of a network: its bridge, and its BridgeOpt row *)
LEMMA Resolves ==
  ASSUME IndInv, Faithful, NEW n \in Network
  PROVE  /\ BridgeNamesOf(n) # {} => HasBridge(n)
         /\ BridgesApart /\ HasBridge(n) => BridgeNamesOf(n) = {Config[n].name}
<1>a. \A x : (\E r \in bridges : r.name = x) <=> (\E o \in opts : o.name = x)
  <2>1. {r.name : r \in bridges} = {o.name : o \in opts}
    BY DEF IndInv, RowsAgree
  <2> QED BY <2>1
<1>b. \A o \in opts : o.network \in Network /\ o.name = Config[o.network].name
  BY DEF IndInv, TypeOK, OvsdbTypeOK, OptRow, Faithful, RowsFaithful
<1>1. BridgeNamesOf(n) # {} => HasBridge(n)
  BY <1>a, <1>b DEF BridgeNamesOf, HasBridge
<1>2. ASSUME BridgesApart, HasBridge(n) PROVE BridgeNamesOf(n) = {Config[n].name}
  <2>1. PICK o \in opts : o.name = Config[n].name
    BY <1>a, <1>2 DEF HasBridge
  <2>2. o.network = n
    BY <1>b, <1>2, <2>1 DEF BridgesApart
  <2>3. Config[n].name \in BridgeNamesOf(n)
    BY <2>1, <2>2, Zenon DEF BridgeNamesOf
  <2> QED BY <2>3, NamesFound, Zenon
<1> QED BY <1>1, <1>2, Zenon

(* CreateNetwork has its bridge once addBridge has seen the port. *)
LEMMA CreatesDoneStep ==
  ASSUME IndInv, ServesDocker, Faithful, CreatesDone, [HostNext]_hostVars, BridgesApart
  PROVE  CreatesDone'
<1> SUFFICES ASSUME NEW g \in Handler, Created(g)' PROVE HasBridge(req[g].net)'
  BY DEF CreatesDone
<1>a. ASSUME Created(g) \/ (pc[g] \in CreateLabel /\ HasBridge(req[g].net)), req'[g] = req[g]
      PROVE  HasBridge(req[g].net)'
  <2>1. HasBridge(req[g].net)
    BY <1>a, Zenon DEF CreatesDone
  <2>2. \E n \in Network : req[g] = CreateOf(n) /\ dnet[n] = "creating"
    <3>1. pc[g] \in CreateLabel \/ Done(g, "CreateNetwork")
      BY <1>a, Zenon DEF Created, CreateLabel
    <3>2. CASE Done(g, "CreateNetwork")
      BY <3>2, DoneServes, Zenon
    <3> QED BY <3>1, <3>2, AtWork, Zenon DEF IndInv, Faithful
  <2>3. PICK n \in Network : req[g].net = n /\ dnet[n] = "creating"
    BY <2>2, Fields
  <2>4. HasBridge(n)'
    BY <2>1, <2>3, BridgeKept, Zenon
  <2> QED BY <1>a, <2>3, <2>4, Zenon DEF HasBridge
<1>1. CASE Stays(g)
  BY <1>1, <1>a, Zenon DEF Stays, Created, Done
<1>2. CASE Ends(g) \/ Begins(g)
  BY <1>2, Zenon DEF Ends, Begins, Created, Done
<1>3. CASE HandlerStep(g) /\ UNCHANGED <<req, dockerVars>>
  <2>1. CASE Created(g)
    BY <1>3, <1>a, <2>1, Zenon
  <2>2. CASE (AddBridgeCheck(g) \/ AddBridgeRecheck(g)) /\ PortExists(name[g])
    <3>1. pc[g] \in {"portExists", "portExistsNow"}
      BY <2>2, Zenon DEF AddBridgeCheck, AddBridgeRecheck, At
    <3>2. name[g] = Config[req[g].net].name /\ name[g] \in BridgeName
      BY <3>1, Zenon DEF Faithful, Knows, NamedLabel, CreateLabel, IndInv, LocalsOK, LocalOK
    <3>3. HasBridge(req[g].net)
      BY <2>2, <3>2 DEF PortExists, IndInv, InternalPorts, HasBridge
    <3> QED BY <1>3, <1>a, <3>1, <3>3, Zenon DEF CreateLabel
  <2> QED BY <1>3, <2>1, <2>2, Steps, Zenon DEF Reaches
<1> QED BY <1>1, <1>2, <1>3, HandlerLife, Zenon DEF IndInv

(* DeleteNetwork has dropped the rows once deleteBridge got its replies. *)
LEMMA DeletesDoneStep ==
  ASSUME IndInv, ServesDocker, Faithful, DeletesDone, [HostNext]_hostVars
  PROVE  DeletesDone'
<1> SUFFICES ASSUME NEW g \in Handler, Deleted(g)', conn' PROVE BridgeNamesOf(req[g].net)' = {}
  BY DEF DeletesDone
<1>a. ASSUME Deleted(g), req'[g] = req[g] PROVE BridgeNamesOf(req[g].net)' = {}
  <2>1. conn
    BY ConnLost, Zenon DEF Deleted, Done
  <2>2. \E n \in Network : req[g] = DeleteOf(n) /\ dnet[n] = "deleting"
    <3>1. pc[g] \in DeleteLabel \/ Done(g, "DeleteNetwork")
      BY <1>a, Zenon DEF Deleted, DeleteLabel
    <3>2. CASE Done(g, "DeleteNetwork")
      BY <3>2, DoneServes, Zenon
    <3> QED BY <3>1, <3>2, AtWork, Zenon DEF IndInv, Faithful
  <2>3. PICK n \in Network : req[g].net = n /\ dnet[n] = "deleting"
    BY <2>2 DEF DeleteOf
  <2>4. BridgeNamesOf(n) = {}
    BY <1>a, <2>1, <2>3, Zenon DEF DeletesDone
  <2>5. BridgeNamesOf(n)' = {}
    BY <2>3, <2>4, StaysGone, Zenon
  <2> QED BY <1>a, <2>3, <2>5, Zenon DEF BridgeNamesOf
<1>1. CASE Stays(g)
  BY <1>1, <1>a, Zenon DEF Stays, Deleted, Done
<1>2. CASE Ends(g) \/ Begins(g)
  BY <1>2, Zenon DEF Ends, Begins, Deleted, Done
<1>3. CASE HandlerStep(g) /\ UNCHANGED <<req, dockerVars>>
  <2>1. CASE Deleted(g)
    BY <1>3, <1>a, <2>1, Zenon
  <2>2. CASE DeleteBridge(g)
    <3>1. PICK n \in Network : req[g] = DeleteOf(n)
      BY <2>2, AtWork, Zenon DEF DeleteBridge, At, DeleteLabel, IndInv, Faithful
    <3>2. req[g].net = n /\ req'[g].net = n /\ name[g] = Config[n].name
      <4>1. pc[g] \in NamedLabel
        BY <2>2, Zenon DEF DeleteBridge, At, NamedLabel, DeleteLabel
      <4> QED BY <1>3, <3>1, <4>1, NameKnown DEF DeleteOf
    <3>3. PICK rep \in Reply : /\ deleteBridgeRows(Config[n].name, uuid[g], rep)
                               /\ Goto(g, IF rep = "error" THEN "error"
                                          ELSE IF type[g] \in GatewayType THEN "stopUnit" ELSE "forget")
      BY <2>2, <3>2, Zenon DEF DeleteBridge
    <3>4. rep # "error"
      BY <3>3, Zenon DEF Goto, Deleted, Done, IndInv, TypeOK, HandlersTypeOK
    <3>5. opts' = {o \in opts : o.name # Config[n].name}
      BY <3>3, <3>4, ReplySays, Zenon DEF deleteBridgeRows, Reply
    <3>6. \A o \in opts' : o.network # n
      BY <3>5, Zenon DEF Faithful, RowsFaithful
    <3> QED BY <3>2, <3>6, Zenon DEF BridgeNamesOf
  <2> QED BY <1>3, <2>1, <2>2, Steps, Zenon DEF Reaches
<1> QED BY <1>1, <1>2, <1>3, HandlerLife, Zenon DEF IndInv

(* Join looks the bridge up before it adds the port, and nobody deletes a  *)
(* network that is being joined.                                           *)
LEMMA JoinsDoneStep ==
  ASSUME IndInv, ServesDocker, Faithful, JoinsDone, [HostNext]_hostVars, BridgesApart, VethsApart
  PROVE  JoinsDone'
<1> SUFFICES ASSUME NEW g \in Handler
             PROVE  /\ pc'[g] = "addOvsVethPort" => HasBridge(req[g].net)'
                    /\ (Joined(g)' /\ conn') => HasPort(req[g].ep)'
  BY Zenon DEF JoinsDone
<1>a. ASSUME pc[g] \in JoinLabel \/ Done(g, "Join")
      PROVE  \E e \in Endpoint : req[g].ep = e /\ req[g].net = NetOf[e] /\ dep[e] = "joining"
  <2>1. CASE Done(g, "Join")
    BY <2>1, DoneServes, Fields
  <2>2. CASE pc[g] \in JoinLabel
    <3>1. \E e \in Endpoint : req[g] = JoinOf(e) /\ dep[e] = "joining"
      BY <2>2, AtWork, Zenon DEF IndInv, Faithful
    <3> QED BY <3>1 DEF JoinOf
  <2> QED BY <1>a, <2>1, <2>2, Zenon
<1>b. ASSUME pc[g] \in {"bridgeForJoin", "addOvsVethPort"}, HasBridge(req[g].net), req'[g] = req[g]
      PROVE  HasBridge(req[g].net)'
  <2>1. PICK e \in Endpoint : req[g].net = NetOf[e] /\ dep[e] = "joining"
    BY <1>a, <1>b, Zenon DEF JoinLabel
  <2>2. NetOf[e] \in Network /\ ~Unused(NetOf[e])
    BY <2>1, NetOfType, Zenon DEF Unused
  <2>3. HasBridge(NetOf[e])'
    BY <1>b, <2>1, <2>2, BridgeKept, Zenon
  <2> QED BY <1>b, <2>1, <2>3, Zenon DEF HasBridge
<1>c. ASSUME Joined(g), conn', pc'[g] # "idle", req'[g] = req[g]
      PROVE  HasPort(req[g].ep)'
  <2>1. PICK e \in Endpoint : req[g].ep = e /\ dep[e] = "joining"
    BY <1>a, <1>c, Zenon DEF Joined, JoinLabel
  <2>2. HasPort(e)
    BY <1>c, <2>1, ConnLost, Zenon DEF JoinsDone
  <2>3. HasPort(e)'
    BY <2>1, <2>2, PortKept, Zenon
  <2> QED BY <1>c, <2>1, <2>3, Zenon DEF HasPort
<1>1. CASE Stays(g)
  <2>1. pc'[g] = "addOvsVethPort" => HasBridge(req[g].net)'
    BY <1>1, <1>b, Zenon DEF Stays, JoinsDone
  <2>2. (Joined(g)' /\ conn') => HasPort(req[g].ep)'
    BY <1>1, <1>c DEF Stays, Joined, Done
  <2> QED BY <2>1, <2>2, Zenon
<1>2. CASE Ends(g) \/ Begins(g)
  BY <1>2 DEF Ends, Begins, Joined, Done
<1>3. CASE HandlerStep(g) /\ UNCHANGED <<req, dockerVars>>
  <2>1. ASSUME pc'[g] = "addOvsVethPort" PROVE HasBridge(req[g].net)'
    <3>1. BridgeForJoin(g)
      BY <1>3, <2>1, Steps DEF Reaches
    <3>2. pc[g] = "bridgeForJoin" /\ BridgeNamesOf(req[g].net) # {}
      BY <2>1, <3>1, Zenon DEF BridgeForJoin, At, LookupBridge, Goto, IndInv, TypeOK, HandlersTypeOK
    <3>3. req[g].net \in Network
      BY <1>a, <3>2, NetOfType, Zenon DEF JoinLabel
    <3> QED BY <1>3, <1>b, <3>2, <3>3, Resolves
  <2>2. ASSUME Joined(g)', conn' PROVE HasPort(req[g].ep)'
    <3>1. CASE pc[g] = "getIPByInterface"
      BY <1>3, <1>c, <2>2, <3>1, Zenon DEF Joined, Done
    <3>2. CASE AddOvsVethPort(g)
      <4>1. pc[g] = "addOvsVethPort"
        BY <3>2, Zenon DEF AddOvsVethPort, At
      <4>2. PICK e \in Endpoint : req[g].ep = e /\ req[g].net = NetOf[e]
        BY <1>a, <4>1, Zenon DEF JoinLabel
      <4>3. name[g] = Config[NetOf[e]].name /\ HasBridge(NetOf[e])
        BY <4>1, <4>2, Zenon DEF Faithful, Knows, NamedLabel, JoinsDone
      <4>4. PICK rep \in Reply : /\ addOvsVethPort(Config[NetOf[e]].name, VethOf[e], rep)
                                 /\ Goto(g, IF rep = "error" THEN "error" ELSE "getIPByInterface")
        BY <3>2, <4>2, <4>3, Zenon DEF AddOvsVethPort
      <4>5. rep = "ok"
        <5>1. rep # "error"
          BY <2>2, <4>4, Zenon DEF Goto, Joined, Done, IndInv, TypeOK, HandlersTypeOK
        <5>2. rep = "none" => ~conn'
          BY <4>4, ReplySays, Zenon DEF addOvsVethPort
        <5> QED BY <2>2, <5>1, <5>2, Zenon DEF Reply
      <4>6. /\ bridges' = bridges
            /\ ports' = ports \cup {[uuid |-> nextUuid, name |-> VethOf[e], bridge |-> r.uuid] :
                                      r \in {q \in bridges : q.name = Config[NetOf[e]].name}}
        BY <4>4, <4>5, ReplySays, Zenon DEF addOvsVethPort
      <4>7. PICK r \in bridges : r.name = Config[NetOf[e]].name
        BY <4>3, Zenon DEF HasBridge
      <4> DEFINE p0 == [uuid |-> nextUuid, name |-> VethOf[e], bridge |-> r.uuid]
      <4>8. p0 \in ports' /\ p0.name = VethOf[e] /\ p0.bridge = r.uuid /\ r \in bridges'
        BY <4>6, <4>7, Zenon
      <4> HIDE DEF p0
      <4>9. HasPort(e)'
        BY <4>7, <4>8 DEF HasPort
      <4> QED BY <1>3, <4>2, <4>9, Zenon DEF HasPort
    <3> QED BY <1>3, <2>2, <3>1, <3>2, Steps, Zenon DEF Reaches
  <2> QED BY <2>1, <2>2
<1> QED BY <1>1, <1>2, <1>3, HandlerLife, Zenon DEF IndInv

(* Leave has dropped the port: deletePort takes missing replies for an     *)
(* error.                                                                  *)
LEMMA LeavesDoneStep ==
  ASSUME IndInv, ServesDocker, Faithful, LeavesDone, [HostNext]_hostVars, VethsApart
  PROVE  LeavesDone'
<1> SUFFICES ASSUME NEW g \in Handler, Done(g, "Leave")' PROVE ~PortExists(VethOf[req[g].ep])'
  BY DEF LeavesDone
<1>1. CASE Stays(g)
  <2>1. Done(g, "Leave") /\ req'[g] = req[g]
    BY <1>1, Zenon DEF Stays, Done
  <2>2. PICK e \in Endpoint : req[g].ep = e /\ dep[e] = "leaving"
    BY <2>1, DoneServes, Fields
  <2>3. ~PortExists(VethOf[e])'
    BY <2>1, <2>2, StaysDetached, Zenon DEF LeavesDone
  <2> QED BY <2>1, <2>2, <2>3, Zenon DEF PortExists
<1>2. CASE Ends(g) \/ Begins(g)
  BY <1>2, Zenon DEF Ends, Begins, Done
<1>3. CASE HandlerStep(g) /\ UNCHANGED <<req, dockerVars>>
  <2>1. DeletePort(g)
    BY <1>3, Steps, Zenon DEF Reaches
  <2>2. PICK rep \in Reply : /\ deletePortRows(name[g], VethOf[req[g].ep], uuid[g], rep)
                             /\ Goto(g, IF rep = "ok" THEN "ok" ELSE "error")
    BY <2>1, Zenon DEF DeletePort
  <2>3. rep = "ok"
    BY <2>2, Zenon DEF Goto, Done, IndInv, TypeOK, HandlersTypeOK
  <2> DEFINE v == VethOf[req[g].ep]
             Unlisted(p) == p.uuid = uuid[g] /\ \E r \in bridges : r.name = name[g] /\ r.uuid = p.bridge
  <2>4. ports' = {p \in ports : p.name # v /\ ~Unlisted(p)}
    BY <2>2, <2>3, ReplySays, Zenon DEF deletePortRows
  <2>5. \A p \in ports' : p.name # v
    BY <2>4, Zenon
  <2> QED BY <1>3, <2>5, Zenon DEF PortExists
<1> QED BY <1>1, <1>2, <1>3, HandlerLife, Zenon DEF IndInv

(* The type that deleteBridge found under the bridge's name is that of the *)
(* network whose deletion was asked for.                                   *)
LEMMA StopsOwnStep ==
  ASSUME IndInv, ServesDocker, Faithful, StopsOwn, [HostNext]_hostVars, BridgesApart
  PROVE  StopsOwn'
<1> DEFINE Early == {"idle", "DeleteNetwork", "getBridgeServiceType"}
           Late == {"getBridgeUUIDForName", "deleteBridge"}
           Own(l, t, n) == /\ l \in Early => t = NoType
                           /\ l \in Late => t \in {NoType, Config[n].type}
                           /\ l = "stopUnit" => Config[n].type \in GatewayType
<1> SUFFICES ASSUME NEW g \in Handler PROVE Own(pc'[g], type'[g], req'[g].net)
  BY Zenon DEF StopsOwn
<1>a. Own(pc[g], type[g], req[g].net)
  BY Zenon DEF StopsOwn
<1>b. pc \in [Handler -> Label] /\ type \in [Handler -> ServiceType]
  BY Zenon DEF IndInv, TypeOK, HandlersTypeOK
<1>1. CASE Stays(g) \/ Ends(g) \/ Begins(g)
  BY <1>1, <1>a, Zenon DEF Stays, Ends, Begins
<1>2. CASE HandlerStep(g) /\ UNCHANGED <<req, dockerVars>>
  <2> USE DEF At, Goto
  <2>1. CASE Exit
    BY <2>1, Zenon DEF Exit
  <2>2. CASE DeleteNetwork(g)
    BY <1>a, <1>b, <2>2, Zenon DEF DeleteNetwork, LookupBridge
  <2>3. CASE GetBridgeServiceType(g)
    <3>1. PICK n \in Network : req[g] = DeleteOf(n)
      BY <2>3, AtWork, Zenon DEF GetBridgeServiceType, DeleteLabel, IndInv, Faithful
    <3>2. req[g].net = n /\ name[g] = Config[n].name
      <4>1. pc[g] \in NamedLabel
        BY <2>3, Zenon DEF GetBridgeServiceType, NamedLabel, DeleteLabel
      <4> QED BY <3>1, <4>1, NameKnown DEF DeleteOf
    <3>3. ServiceTypesOf(name[g]) \subseteq {Config[n].type}
      <4>1. \A o \in opts : o.network \in Network
        BY Zenon DEF IndInv, TypeOK, OvsdbTypeOK, OptRow
      <4>2. \A o \in opts : o.name = Config[o.network].name /\ o.type = Config[o.network].type
        BY Zenon DEF Faithful, RowsFaithful
      <4> QED BY <3>2, <4>1, <4>2 DEF ServiceTypesOf, BridgesApart
    <3> QED BY <1>2, <1>a, <1>b, <2>3, <3>2, <3>3, Zenon DEF GetBridgeServiceType
  <2>4. CASE GetBridgeUUIDForName(g)
    BY <1>2, <1>a, <1>b, <2>4, Zenon DEF GetBridgeUUIDForName, LookupUuid
  <2>5. CASE DeleteBridge(g)
    BY <1>2, <1>a, <1>b, <2>5, ServiceTypes, Zenon DEF DeleteBridge
  <2>6. ASSUME \/ CreateNetwork(g) \/ InitBridge(g) \/ AddBridgeCheck(g) \/ CreateBridgeIface(g)
               \/ AddBridgeRecheck(g) \/ WaitForLink(g) \/ InterfaceUp(g)
        PROVE  pc'[g] \notin Early \cup Late \cup {"stopUnit"}
    BY <1>b, <2>6, Zenon DEF CreateNetwork, InitBridge, AddBridgeCheck, CreateBridgeIface,
                AddBridgeRecheck, WaitForLink, InterfaceUp, AbandonNetwork
  <2>7. ASSUME SetInterfaceIP(g) \/ GetIfaceAddr(g) \/ NatOut(g)
        PROVE  Exit \/ pc'[g] \notin Early \cup Late \cup {"stopUnit"}
    BY <1>b, <2>7, Zenon DEF SetInterfaceIP, GetIfaceAddr, NatOut
  <2>8. ASSUME StartOvsService(g) \/ StopOvsService(g) \/ ForgetNetwork(g) \/ EndpointStub(g)
        PROVE  pc'[g] \notin Early \cup Late \cup {"stopUnit"}
    BY <1>b, <2>8, Zenon DEF StartOvsService, StopOvsService, ServiceStep, ForgetNetwork, EndpointStub
  <2>9. ASSUME \/ Join(g) \/ LinkSetUp(g) \/ BridgeForJoin(g) \/ AddOvsVethPort(g) \/ GetIPByInterface(g)
               \/ Leave(g) \/ BridgeForLeave(g) \/ PortUUIDForName(g) \/ DeletePort(g)
        PROVE  pc'[g] \notin Early \cup Late \cup {"stopUnit"}
    BY <1>b, <2>9, Zenon DEF Join, LinkSetUp, BridgeForJoin, AddOvsVethPort, GetIPByInterface, Leave,
                BridgeForLeave, PortUUIDForName, DeletePort, LookupBridge, LookupUuid
  <2> QED BY <1>2, <2>1, <2>2, <2>3, <2>4, <2>5, <2>6, <2>7, <2>8, <2>9, Zenon DEF HandlerStep
<1> QED BY <1>1, <1>2, HandlerLife, Zenon DEF IndInv

-----------------------------------------------------------------------------
(* What docker believes *)

LEMMA AnswersStill ==
  ASSUME NEW h \in Handler, Answered(h)
  PROVE  pc[h] \in Answer /\ UNCHANGED <<bridges, ports, opts, conn, unit>>
BY DEF Answered, Return, ovsdbVars

(* A view that docker comes to hold, it has from the answer "ok". *)
LEMMA NetworkViews ==
  ASSUME DockerTypeOK, ServesDocker, [HostNext]_hostVars, NEW n \in Network
  PROVE  /\ dnet'[n] = "live" =>
              dnet[n] = "live" \/ \E h \in Handler : Answered(h) /\ pc[h] = "ok" /\ req[h] = CreateOf(n)
         /\ dnet'[n] = "gone" /\ n \in confirmed' =>
              \/ dnet[n] = "gone" /\ n \in confirmed
              \/ \E h \in Handler : Answered(h) /\ pc[h] = "ok" /\ conn /\ req[h] = DeleteOf(n)
<1> USE DEF DockerTypeOK
<1>1. UNCHANGED dockerVars => dnet' = dnet /\ confirmed' = confirmed
  BY DEF dockerVars
<1>2. ASSUME NEW h \in Handler, NEW m \in Network, CallCreate(h, m) \/ CallDelete(h, m)
      PROVE  confirmed' = confirmed /\ dnet'[n] \in {dnet[n], "creating", "deleting"}
  BY <1>2 DEF CallCreate, CallDelete
<1>3. ASSUME NEW h \in Handler, NEW e \in Endpoint, CallJoin(h, e) \/ CallLeave(h, e)
      PROVE  dnet' = dnet /\ confirmed' = confirmed
  BY <1>3, Zenon DEF CallJoin, CallLeave
<1>4. ASSUME NEW h \in Handler, Answered(h), NEW m \in Network, AnswersCreate(h, m)
      PROVE  /\ dnet'[n] = "live" => dnet[n] = "live" \/ (pc[h] = "ok" /\ req[h] = CreateOf(n))
             /\ dnet'[n] = "gone" /\ n \in confirmed' => dnet[n] = "gone" /\ n \in confirmed
  BY <1>4, Zenon DEF AnswersCreate, Confirm
<1>5. ASSUME NEW h \in Handler, Answered(h), NEW m \in Network, AnswersDelete(h, m)
      PROVE  /\ dnet'[n] = "live" => dnet[n] = "live"
             /\ dnet'[n] = "gone" /\ n \in confirmed' =>
                  \/ dnet[n] = "gone" /\ n \in confirmed
                  \/ pc[h] = "ok" /\ conn /\ req[h] = DeleteOf(n)
  BY <1>5, Zenon DEF AnswersDelete, Confirm
<1>6. ASSUME NEW h \in Handler, NEW e \in Endpoint, AnswersJoin(h, e) \/ AnswersLeave(h, e)
      PROVE  dnet' = dnet /\ (n \in confirmed' => n \in confirmed)
  BY <1>6, IdsDisjoint, Zenon DEF AnswersJoin, AnswersLeave, Confirm
<1> QED BY <1>1, <1>2, <1>3, <1>4, <1>5, <1>6, AnswerIs, Zenon DEF HostNext, hostVars

LEMMA EndpointViews ==
  ASSUME DockerTypeOK, ServesDocker, [HostNext]_hostVars, NEW e \in Endpoint
  PROVE  /\ dep'[e] = "joined" /\ e \in confirmed' =>
              \/ dep[e] = "joined" /\ e \in confirmed
              \/ \E h \in Handler : Answered(h) /\ pc[h] = "ok" /\ conn /\ req[h] = JoinOf(e)
         /\ dep'[e] = "left" =>
              dep[e] = "left" \/ \E h \in Handler : Answered(h) /\ pc[h] = "ok" /\ req[h] = LeaveOf(e)
<1> USE DEF DockerTypeOK
<1>1. UNCHANGED dockerVars => dep' = dep /\ confirmed' = confirmed
  BY DEF dockerVars
<1>2. ASSUME NEW h \in Handler, NEW m \in Network, CallCreate(h, m) \/ CallDelete(h, m)
      PROVE  dep' = dep /\ confirmed' = confirmed
  BY <1>2, Zenon DEF CallCreate, CallDelete
<1>3. ASSUME NEW h \in Handler, NEW f \in Endpoint, CallJoin(h, f) \/ CallLeave(h, f)
      PROVE  confirmed' = confirmed /\ dep'[e] \in {dep[e], "joining", "leaving"}
  BY <1>3, Zenon DEF CallJoin, CallLeave
<1>4. ASSUME NEW h \in Handler, NEW m \in Network, AnswersCreate(h, m) \/ AnswersDelete(h, m)
      PROVE  dep' = dep /\ (e \in confirmed' => e \in confirmed)
  BY <1>4, IdsDisjoint, Zenon DEF AnswersCreate, AnswersDelete, Confirm
<1>5. ASSUME NEW h \in Handler, Answered(h), NEW f \in Endpoint, AnswersJoin(h, f)
      PROVE  /\ dep'[e] = "joined" /\ e \in confirmed' =>
                  \/ dep[e] = "joined" /\ e \in confirmed
                  \/ pc[h] = "ok" /\ conn /\ req[h] = JoinOf(e)
             /\ dep'[e] = "left" => dep[e] = "left"
  BY <1>5, Zenon DEF AnswersJoin, Confirm
<1>6. ASSUME NEW h \in Handler, Answered(h), NEW f \in Endpoint, AnswersLeave(h, f)
      PROVE  /\ dep'[e] = "joined" /\ e \in confirmed' => dep[e] = "joined" /\ e \in confirmed
             /\ dep'[e] = "left" => dep[e] = "left" \/ (pc[h] = "ok" /\ req[h] = LeaveOf(e))
  BY <1>6, Zenon DEF AnswersLeave, Confirm
<1> QED BY <1>1, <1>2, <1>3, <1>4, <1>5, <1>6, AnswerIs, Zenon DEF HostNext, hostVars

-----------------------------------------------------------------------------
(* Theorems *)

(* Whatever crashes, breaks and is repeated: a handler serves the one      *)
(* request of its kind that docker waits for, and the map, the BridgeOpt   *)
(* rows and the handlers agree on the options of every network.            *)
THEOREM OptionsFaithful == HostSpec => [](DockerTypeOK /\ ServesDocker /\ Faithful)
<1>1. HostInit => ServesDocker /\ Faithful
  <2>1. "idle" \notin NamedLabel \cup CreateLabel \cup JoinLabel \cup LeaveLabel \cup StubLabel
    BY Zenon DEF NamedLabel, CreateLabel, DeleteLabel, JoinLabel, LeaveLabel, StubLabel
  <2>2. HostInit => ServesDocker
    BY DEF HostInit, Init, ServesDocker
  <2>3. HostInit => Faithful
    BY <2>1 DEF HostInit, Init, OvsdbInit, Faithful, RowsFaithful, Knows
  <2> QED BY <2>2, <2>3, Zenon
<1>2. IndInv /\ DockerTypeOK /\ ServesDocker /\ Faithful /\ [HostNext]_hostVars
        => ServesDocker' /\ Faithful'
  BY ServesStep, FaithfulStep, Zenon DEF IndInv
<1>3. HostTypeOK => DockerTypeOK
  BY DEF HostTypeOK, DockerTypeOK
<1> QED BY <1>1, <1>2, <1>3, HostKeepsDriverInvariant, HostTypeCorrect, PTL DEF HostSpec

(* A network whose deletion was answered "ok" over a live connection has   *)
(* no BridgeOpt row: deleteBridge got its replies, and a stale uuid makes  *)
(* the transaction fail rather than half succeed.                          *)
THEOREM DeletionsHold == HostSpec => []DeletedIsGone
<1>1. HostInit => DeletesDone /\ DeletedIsGone
  BY DEF HostInit, Init, DeletesDone, Deleted, Done, DeletedIsGone
<1>2. ASSUME IndInv, DockerTypeOK, ServesDocker, Faithful, DeletesDone, DeletedIsGone,
             [HostNext]_hostVars
      PROVE  DeletedIsGone'
  <2> SUFFICES ASSUME NEW n \in Network, dnet'[n] = "gone", n \in confirmed'
               PROVE  BridgeNamesOf(n)' = {}
    BY DEF DeletedIsGone
  <2>1. CASE dnet[n] = "gone" /\ n \in confirmed
    BY <1>2, <2>1, StaysGone, Zenon DEF DeletedIsGone
  <2>2. ASSUME NEW h \in Handler, Answered(h), pc[h] = "ok", conn, req[h] = DeleteOf(n)
        PROVE  BridgeNamesOf(n)' = {}
    <3>1. BridgeNamesOf(n) = {}
      <4>1. Deleted(h) /\ req[h].net = n
        BY <2>2 DEF DeleteOf, Deleted, Done
      <4> QED BY <1>2, <2>2, <4>1 DEF DeletesDone
    <3> QED BY <2>2, <3>1, AnswersStill, Zenon DEF BridgeNamesOf
  <2> QED BY <1>2, <2>1, <2>2, NetworkViews, Zenon
<1>3. IndInv /\ DockerTypeOK /\ ServesDocker /\ Faithful /\ DeletesDone /\ DeletedIsGone
        /\ [HostNext]_hostVars => DeletesDone' /\ DeletedIsGone'
  BY <1>2, DeletesDoneStep
<1> QED BY <1>1, <1>3, HostKeepsDriverInvariant, OptionsFaithful, PTL DEF HostSpec

LiveHasBridge == \A n \in Network : dnet[n] = "live" => HasBridge(n)

(* Where every network has a bridge name of its own, a network whose       *)
(* creation was answered "ok" is found in BridgeOpt under that name until  *)
(* its deletion is asked for, across crashes, restarts and lost            *)
(* connections.                                                            *)
THEOREM CreationsHold == ASSUME BridgesApart PROVE HostSpec => []LiveNetworkResolves
<1>1. HostInit => CreatesDone /\ LiveHasBridge
  BY DEF HostInit, Init, CreatesDone, Created, Done, LiveHasBridge
<1>2. ASSUME IndInv, DockerTypeOK, ServesDocker, Faithful, CreatesDone, LiveHasBridge,
             [HostNext]_hostVars
      PROVE  LiveHasBridge'
  <2> SUFFICES ASSUME NEW n \in Network, dnet'[n] = "live" PROVE HasBridge(n)'
    BY DEF LiveHasBridge
  <2>1. CASE dnet[n] = "live"
    BY <1>2, <2>1, BridgeKept DEF LiveHasBridge
  <2>2. ASSUME NEW h \in Handler, Answered(h), pc[h] = "ok", req[h] = CreateOf(n)
        PROVE  HasBridge(n)'
    <3>1. HasBridge(n)
      <4>1. Created(h) /\ req[h].net = n
        BY <2>2, Fields DEF Created, Done
      <4> QED BY <1>2, <2>2, <4>1, Zenon DEF CreatesDone
    <3> QED BY <2>2, <3>1, AnswersStill, Zenon DEF HasBridge
  <2> QED BY <1>2, <2>1, <2>2, NetworkViews, Zenon
<1>3. IndInv /\ DockerTypeOK /\ ServesDocker /\ Faithful /\ CreatesDone /\ LiveHasBridge
        /\ [HostNext]_hostVars => CreatesDone' /\ LiveHasBridge'
  BY <1>2, CreatesDoneStep, Zenon
<1>4. IndInv /\ Faithful /\ LiveHasBridge => LiveNetworkResolves
  BY Resolves DEF LiveHasBridge, LiveNetworkResolves
<1> QED BY <1>1, <1>3, <1>4, HostKeepsDriverInvariant, OptionsFaithful, PTL DEF HostSpec

(* Where bridges and ports have names of their own, an endpoint whose Join *)
(* was answered "ok" over a live connection keeps its port on the bridge   *)
(* of its network until it leaves.                                         *)
THEOREM JoinsHold == ASSUME BridgesApart, VethsApart PROVE HostSpec => []JoinedHasPort
<1>1. HostInit => JoinsDone /\ JoinedHasPort
  BY DEF HostInit, Init, JoinsDone, Joined, Done, JoinedHasPort
<1>2. ASSUME IndInv, DockerTypeOK, ServesDocker, Faithful, JoinsDone, JoinedHasPort,
             [HostNext]_hostVars
      PROVE  JoinedHasPort'
  <2> SUFFICES ASSUME NEW e \in Endpoint, dep'[e] = "joined", e \in confirmed' PROVE HasPort(e)'
    BY DEF JoinedHasPort, HasPort
  <2>1. CASE dep[e] = "joined" /\ e \in confirmed
    <3>1. HasPort(e)
      BY <1>2, <2>1, Zenon DEF JoinedHasPort, HasPort
    <3> QED BY <1>2, <2>1, <3>1, PortKept, Zenon
  <2>2. ASSUME NEW h \in Handler, Answered(h), pc[h] = "ok", conn, req[h] = JoinOf(e)
        PROVE  HasPort(e)'
    <3>1. HasPort(e)
      <4>1. Joined(h) /\ req[h].ep = e
        BY <2>2 DEF JoinOf, Joined, Done
      <4> QED BY <1>2, <2>2, <4>1 DEF JoinsDone
    <3> QED BY <2>2, <3>1, AnswersStill, Zenon DEF HasPort
  <2> QED BY <1>2, <2>1, <2>2, EndpointViews, Zenon
<1>3. IndInv /\ DockerTypeOK /\ ServesDocker /\ Faithful /\ JoinsDone /\ JoinedHasPort
        /\ [HostNext]_hostVars => JoinsDone' /\ JoinedHasPort'
  BY <1>2, JoinsDoneStep
<1> QED BY <1>1, <1>3, HostKeepsDriverInvariant, OptionsFaithful, PTL DEF HostSpec

(* Where ports have names of their own, an endpoint whose Leave was        *)
(* answered "ok" has no port, whether or not the connection broke.         *)
THEOREM LeavesHold == ASSUME VethsApart PROVE HostSpec => []LeftIsDetached
<1>1. HostInit => LeavesDone /\ LeftIsDetached
  BY Zenon DEF HostInit, Init, LeavesDone, Done, LeftIsDetached
<1>2. ASSUME IndInv, DockerTypeOK, ServesDocker, Faithful, LeavesDone, LeftIsDetached,
             [HostNext]_hostVars
      PROVE  LeftIsDetached'
  <2> SUFFICES ASSUME NEW e \in Endpoint, dep'[e] = "left" PROVE ~PortExists(VethOf[e])'
    BY DEF LeftIsDetached
  <2>1. CASE dep[e] = "left"
    BY <1>2, <2>1, StaysDetached, Zenon DEF LeftIsDetached
  <2>2. ASSUME NEW h \in Handler, Answered(h), pc[h] = "ok", req[h] = LeaveOf(e)
        PROVE  ~PortExists(VethOf[e])'
    <3>1. ~PortExists(VethOf[e])
      <4>1. Done(h, "Leave") /\ req[h].ep = e
        BY <2>2, Fields DEF Done
      <4> QED BY <1>2, <4>1, Zenon DEF LeavesDone
    <3> QED BY <2>2, <3>1, AnswersStill, Zenon DEF PortExists
  <2> QED BY <1>2, <2>1, <2>2, EndpointViews, Zenon
<1>3. IndInv /\ DockerTypeOK /\ ServesDocker /\ Faithful /\ LeavesDone /\ LeftIsDetached
        /\ [HostNext]_hostVars => LeavesDone' /\ LeftIsDetached'
  BY <1>2, LeavesDoneStep
<1> QED BY <1>1, <1>3, HostKeepsDriverInvariant, OptionsFaithful, PTL DEF HostSpec

(* Only the step that stops the unit ends the gateway process. *)
LEMMA UnitStops ==
  ASSUME TypeOK, [HostNext]_hostVars, unit.active # Nil, unit'.active = Nil
  PROVE  \E h \in Handler : pc[h] = "stopUnit"
<1>a. unit \in [file : Command \cup {Nil}, loaded : Command \cup {Nil},
                active : Command \cup {Nil}, enabled : BOOLEAN]
  BY DEF TypeOK, UnitTypeOK
<1>b. unit' # unit
  BY Zenon
<1>1. ASSUME NEW h \in Handler, HandlerStep(h) PROVE pc[h] = "stopUnit"
  <2>1. ASSUME \/ CreateNetwork(h) \/ InitBridge(h) \/ AddBridgeCheck(h) \/ CreateBridgeIface(h)
               \/ AddBridgeRecheck(h) \/ WaitForLink(h) \/ InterfaceUp(h) \/ SetInterfaceIP(h)
               \/ GetIfaceAddr(h) \/ NatOut(h) \/ ForgetNetwork(h) \/ EndpointStub(h)
        PROVE  UNCHANGED unit
    BY <2>1, Zenon DEF CreateNetwork, InitBridge, AddBridgeCheck, CreateBridgeIface, AddBridgeRecheck,
                WaitForLink, InterfaceUp, SetInterfaceIP, GetIfaceAddr, NatOut, Exit, ForgetNetwork,
                EndpointStub
  <2>2. ASSUME \/ DeleteNetwork(h) \/ GetBridgeServiceType(h) \/ GetBridgeUUIDForName(h)
               \/ DeleteBridge(h) \/ BridgeForJoin(h) \/ BridgeForLeave(h) \/ PortUUIDForName(h)
               \/ Join(h) \/ LinkSetUp(h) \/ AddOvsVethPort(h) \/ GetIPByInterface(h)
               \/ Leave(h) \/ DeletePort(h)
        PROVE  UNCHANGED unit
    BY <2>2, Zenon DEF DeleteNetwork, GetBridgeServiceType, GetBridgeUUIDForName, DeleteBridge,
                BridgeForJoin, BridgeForLeave, PortUUIDForName, Join, LinkSetUp, AddOvsVethPort,
                GetIPByInterface, Leave, DeletePort
  <2>3. ASSUME StartOvsService(h) PROVE FALSE
    BY <1>a, <1>b, <2>3, Zenon DEF StartOvsService, ServiceStep, WriteUnitFile, ReloadUnit, StartUnit, EnableUnit
  <2>4. ASSUME StopOvsService(h) PROVE pc[h] = "stopUnit"
    BY <1>a, <1>b, <2>4, Zenon DEF StopOvsService, ServiceStep, DisableUnit, RemoveUnitFile, At
  <2> QED BY <1>1, <1>b, <2>1, <2>2, <2>3, <2>4, Zenon DEF HandlerStep
<1>2. ASSUME NEW h \in Handler, (\E r \in Request : Receive(h, r)) \/ Answered(h) PROVE UNCHANGED unit
  BY <1>2, Zenon DEF Receive, Answered, Return
<1>3. Environment => UNCHANGED unit
  BY DEF Environment, PopulateCache, LoseConnection, Crash, Exit, NewDriver, Vswitchd
<1>4. UNCHANGED hostVars => UNCHANGED unit
  BY Zenon DEF hostVars, vars
<1> QED BY <1>1, <1>2, <1>3, <1>4, <1>b, CallIsReceive, Zenon DEF HostNext

(* Where every network has a bridge name of its own, the gateway process   *)
(* is stopped only in the service of a request to delete a gateway         *)
(* network: the type that deleteBridge reads from BridgeOpt before the     *)
(* transaction is still that of the network when it is acted upon.         *)
THEOREM GatewayKeeps == ASSUME BridgesApart PROVE HostSpec => GatewayStopsForGatewayOnly
<1>1. HostInit => StopsOwn
  BY DEF HostInit, Init, StopsOwn
<1>2. IndInv /\ ServesDocker /\ Faithful /\ StopsOwn /\ [HostNext]_hostVars => StopsOwn'
  BY StopsOwnStep, Zenon
<1>3. ASSUME IndInv, StopsOwn, [HostNext]_hostVars
      PROVE  (unit.active # Nil /\ unit'.active = Nil) =>
                \E h \in Handler : /\ pc[h] # "idle" /\ req[h].op = "DeleteNetwork"
                                  /\ Config[req[h].net].type \in GatewayType
  <2>1. \A h \in Handler : pc[h] = "stopUnit" =>
           req[h].op = "DeleteNetwork" /\ Config[req[h].net].type \in GatewayType
    BY <1>3 DEF IndInv, LocalsOK, LocalOK, DeleteLabel, DeleteRequest, StopsOwn
  <2> QED BY <1>3, <2>1, UnitStops, Zenon DEF IndInv
<1>4. IndInv /\ StopsOwn /\ [HostNext]_hostVars =>
        [(unit.active # Nil /\ unit'.active = Nil) =>
           \E h \in Handler : /\ pc[h] # "idle" /\ req[h].op = "DeleteNetwork"
                             /\ Config[req[h].net].type \in GatewayType]_hostVars
  BY <1>3
<1> QED BY <1>1, <1>2, <1>4, HostKeepsDriverInvariant, OptionsFaithful, PTL
        DEF HostSpec, GatewayStopsForGatewayOnly

-----------------------------------------------------------------------------
(* DockerHost implements NetworkDriver *)

(* The networks and endpoints of the abstract driver, told by bridge and   *)
(* port instead of BridgeOpt                                               *)
Present == {n \in Network : HasBridge(n)}
Attached == {e \in Endpoint : HasPort(e)}
Mapped ==
    /\ {n \in Network : BridgeNamesOf(n) # {}} = Present
    /\ {e \in Endpoint : \E p \in ports, r \in bridges :
           p.name = VethOf[e] /\ p.bridge = r.uuid /\ r.name \in BridgeNamesOf(NetOf[e])} = Attached

LEMMA Maps ==
  ASSUME IndInv, Faithful, BridgesApart
  PROVE  Mapped
<1>1. {n \in Network : BridgeNamesOf(n) # {}} = Present
  BY Resolves, Zenon DEF Present
<1>2. ASSUME NEW e \in Endpoint
      PROVE  (\E p \in ports, r \in bridges :
                p.name = VethOf[e] /\ p.bridge = r.uuid /\ r.name \in BridgeNamesOf(NetOf[e]))
             <=> HasPort(e)
  <2>1. NetOf[e] \in Network
    BY NetOfType, Zenon
  <2>2. BridgeNamesOf(NetOf[e]) \subseteq {Config[NetOf[e]].name}
    BY <2>1, NamesFound, Zenon
  <2>3. HasPort(e) => BridgeNamesOf(NetOf[e]) = {Config[NetOf[e]].name}
    BY <2>1, Resolves, Zenon DEF HasPort, HasBridge
  <2> QED BY <2>2, <2>3, Zenon DEF HasPort
<1>3. {e \in Endpoint : \E p \in ports, r \in bridges :
          p.name = VethOf[e] /\ p.bridge = r.uuid /\ r.name \in BridgeNamesOf(NetOf[e])} = Attached
  BY <1>2, Zenon DEF Attached
<1> QED BY <1>1, <1>3, Zenon DEF Mapped

-----------------------------------------------------------------------------
(* What each change of the tables is to the networks and endpoints *)

LEMMA CreateMaps ==
  ASSUME IndInv, Faithful, BridgesApart, NEW n \in Network, CreatesBridge(n)
  PROVE  n \notin Present /\ Present' = Present \cup {n} /\ Attached' = Attached
<1> DEFINE r0 == [uuid |-> nextUuid, name |-> Config[n].name]
           p0 == [uuid |-> nextUuid + 1, name |-> Config[n].name, bridge |-> nextUuid]
<1>1. /\ bridges' = bridges \cup {r0} /\ r0.name = Config[n].name /\ r0.uuid = nextUuid
      /\ ports' = ports \cup {p0} /\ p0.name = Config[n].name /\ ~HasBridge(n)
  BY Zenon DEF CreatesBridge
<1> HIDE DEF r0, p0
<1>2. n \notin Present /\ Present' = Present \cup {n}
  BY <1>1 DEF Present, HasBridge, BridgesApart
<1>3. \A p \in ports : p.bridge # nextUuid
  <2>1. \A r \in bridges : r.uuid \in Nat /\ r.uuid < nextUuid /\ nextUuid \in Nat
    BY RowsAre, Zenon DEF IndInv, RowsIssued, TypeOK, OvsdbTypeOK, BridgeRow
  <2> QED BY <2>1 DEF Faithful, RowsFaithful
<1>4. ASSUME NEW e \in Endpoint PROVE HasPort(e)' <=> HasPort(e)
  <2>1. p0.name # VethOf[e]
    BY <1>1, ConfigNames, VethOfType, NamesDisjoint, Zenon
  <2> QED BY <1>1, <1>3, <2>1, Zenon DEF HasPort
<1> QED BY <1>2, <1>4, Zenon DEF Attached

LEMMA DropMaps ==
  ASSUME IndInv, Faithful, BridgesApart, NEW n \in Network, DropsBridge(n)
  PROVE  Present' = Present \ {n} /\ Attached' = {e \in Attached : NetOf[e] # n}
<1>1. Present' = Present \ {n}
  BY Zenon DEF Present, HasBridge, DropsBridge, BridgesApart
<1>2. ASSUME NEW e \in Endpoint PROVE HasPort(e)' <=> HasPort(e) /\ NetOf[e] # n
  BY NetOfType DEF HasPort, DropsBridge, BridgesApart
<1> QED BY <1>1, <1>2, Zenon DEF Attached

LEMMA AddMaps ==
  ASSUME VethsApart, NEW e \in Endpoint, AddsPort(e), HasBridge(NetOf[e])
  PROVE  e \notin Attached /\ Attached' = Attached \cup {e} /\ Present' = Present
<1>1. Present' = Present
  BY Zenon DEF Present, HasBridge, AddsPort
<1>2. e \notin Attached
  BY Zenon DEF Attached, HasPort, AddsPort, PortExists
<1>3. /\ bridges' = bridges /\ ports \subseteq ports'
      /\ \A p \in ports' : p \in ports \/ p.name = VethOf[e]
  <2>1. bridges' = bridges /\ ports \subseteq ports'
    BY Zenon DEF AddsPort
  <2>2. ASSUME NEW p \in ports', p \notin ports PROVE p.name = VethOf[e]
    <3>1. PICK r \in bridges : p = [uuid |-> nextUuid, name |-> VethOf[e], bridge |-> r.uuid]
      BY <2>2, Zenon DEF AddsPort
    <3> QED BY <3>1, Zenon
  <2> QED BY <2>1, <2>2, Zenon
<1>4. ASSUME NEW f \in Endpoint, f # e PROVE HasPort(f)' <=> HasPort(f)
  BY <1>3, <1>4, Zenon DEF HasPort, VethsApart
<1>5. HasPort(e)'
  <2>1. PICK r \in bridges : r.name = Config[NetOf[e]].name
    BY Zenon DEF HasBridge
  <2> DEFINE p0 == [uuid |-> nextUuid, name |-> VethOf[e], bridge |-> r.uuid]
  <2>2. p0 \in ports' /\ p0.name = VethOf[e] /\ p0.bridge = r.uuid
    BY <2>1, Zenon DEF AddsPort
  <2> HIDE DEF p0
  <2> QED BY <1>3, <2>1, <2>2, Zenon DEF HasPort
<1> QED BY <1>1, <1>2, <1>4, <1>5, Zenon DEF Attached

LEMMA DropPortMaps ==
  ASSUME VethsApart, NEW e \in Endpoint, DropsPort(e)
  PROVE  Attached' = Attached \ {e} /\ Present' = Present
<1>1. Present' = Present
  BY Zenon DEF Present, HasBridge, DropsPort
<1>2. ASSUME NEW f \in Endpoint PROVE HasPort(f)' <=> HasPort(f) /\ f # e
  BY Zenon DEF HasPort, DropsPort, VethsApart
<1> QED BY <1>1, <1>2, Zenon DEF Attached

-----------------------------------------------------------------------------
(* The steps of the abstract driver *)

LEMMA Effects ==
  ASSUME Mapped, Mapped', UNCHANGED dockerVars
  PROVE  /\ \A n \in Network :
              (dnet[n] = "creating" /\ n \notin Present /\ Present' = Present \cup {n} /\ Attached' = Attached)
                => Abstract!Create(n)
         /\ \A n \in Network :
              (/\ dnet[n] = "deleting" /\ n \in Present /\ Present' = Present \ {n}
               /\ Attached' = {e \in Attached : NetOf[e] # n})
                => Abstract!Delete(n)
         /\ \A e \in Endpoint :
              (/\ dep[e] = "joining" /\ e \notin Attached /\ NetOf[e] \in Present
               /\ Attached' = Attached \cup {e} /\ Present' = Present)
                => Abstract!Attach(e)
         /\ \A e \in Endpoint :
              (dep[e] = "leaving" /\ e \in Attached /\ Attached' = Attached \ {e} /\ Present' = Present)
                => Abstract!Detach(e)
         /\ (Present' = Present /\ Attached' = Attached) => UNCHANGED Abstract!vars
<1> USE DEF Mapped, dockerVars, Abstract!views
<1>1. ASSUME NEW n \in Network, dnet[n] = "creating", n \notin Present, Present' = Present \cup {n},
             Attached' = Attached
      PROVE  Abstract!Create(n)
  BY <1>1, Zenon DEF Abstract!Create
<1>2. ASSUME NEW n \in Network, dnet[n] = "deleting", n \in Present, Present' = Present \ {n},
             Attached' = {e \in Attached : NetOf[e] # n}
      PROVE  Abstract!Delete(n)
  BY <1>2, Zenon DEF Abstract!Delete
<1>3. ASSUME NEW e \in Endpoint, dep[e] = "joining", e \notin Attached, NetOf[e] \in Present,
             Attached' = Attached \cup {e}, Present' = Present
      PROVE  Abstract!Attach(e)
  BY <1>3, Zenon DEF Abstract!Attach
<1>4. ASSUME NEW e \in Endpoint, dep[e] = "leaving", e \in Attached, Attached' = Attached \ {e},
             Present' = Present
      PROVE  Abstract!Detach(e)
  BY <1>4, Zenon DEF Abstract!Detach
<1>5. ASSUME Present' = Present, Attached' = Attached PROVE UNCHANGED Abstract!vars
  BY <1>5, Zenon DEF Abstract!vars, Abstract!effects
<1> QED BY <1>1, <1>2, <1>3, <1>4, <1>5

(* A move of docker's view, while the tables stay *)
NetMove(n) ==
    /\ \E v \in Abstract!NetMoves : dnet[n] = v[1] /\ dnet' = [dnet EXCEPT ![n] = v[2]]
    /\ dnet'[n] = "live" => n \in Present
    /\ dnet'[n] = "gone" /\ n \in confirmed' => n \notin Present
    /\ dnet'[n] = "deleting" => Unused(n)
    /\ confirmed' \ {n} = confirmed \ {n} /\ dep' = dep
EpMove(e) ==
    /\ \E v \in Abstract!EpMoves : dep[e] = v[1] /\ dep' = [dep EXCEPT ![e] = v[2]]
    /\ dep'[e] = "joined" /\ e \in confirmed' => e \in Attached
    /\ dep'[e] = "left" => e \notin Attached
    /\ confirmed' \ {e} = confirmed \ {e} /\ dnet' = dnet

LEMMA Moves ==
  ASSUME Mapped, Mapped', UNCHANGED <<bridges, ports>>
  PROVE  /\ Present' = Present /\ Attached' = Attached
         /\ \A n \in Network : NetMove(n) => Abstract!MoveNetwork(n)
         /\ \A e \in Endpoint : EpMove(e) => Abstract!MoveEndpoint(e)
<1>1. Present' = Present /\ Attached' = Attached
  BY Zenon DEF Present, Attached, HasBridge, HasPort
<1> USE DEF Mapped, Abstract!Others, Abstract!effects
<1>2. ASSUME NEW n \in Network, NetMove(n) PROVE Abstract!MoveNetwork(n)
  BY <1>1, <1>2, Zenon DEF NetMove, Abstract!MoveNetwork, Unused
<1>3. ASSUME NEW e \in Endpoint, EpMove(e) PROVE Abstract!MoveEndpoint(e)
  BY <1>1, <1>3, Zenon DEF EpMove, Abstract!MoveEndpoint
<1> QED BY <1>1, <1>2, <1>3, Zenon

-----------------------------------------------------------------------------
(* Every step is a step of the abstract driver *)

LEMMA CallsMove ==
  ASSUME DockerTypeOK, NEW h \in Handler
  PROVE  /\ \A n \in Network : CallCreate(h, n) \/ CallDelete(h, n) => UNCHANGED dockerVars \/ NetMove(n)
         /\ \A e \in Endpoint : CallJoin(h, e) \/ CallLeave(h, e) => UNCHANGED dockerVars \/ EpMove(e)
<1> USE DEF DockerTypeOK, dockerVars
<1>1. ASSUME NEW n \in Network, CallCreate(h, n) PROVE UNCHANGED dockerVars \/ NetMove(n)
  <2>1. CASE dnet[n] = "new"
    <3>1. <<"new", "creating">> \in Abstract!NetMoves
      BY Zenon DEF Abstract!NetMoves
    <3> QED BY <1>1, <2>1, <3>1, Zenon DEF CallCreate, NetMove
  <2> QED BY <1>1, <2>1, Zenon DEF CallCreate
<1>2. ASSUME NEW n \in Network, CallDelete(h, n) PROVE UNCHANGED dockerVars \/ NetMove(n)
  <2>1. CASE dnet[n] = "live"
    <3>1. <<"live", "deleting">> \in Abstract!NetMoves
      BY Zenon DEF Abstract!NetMoves
    <3> QED BY <1>2, <2>1, <3>1, Zenon DEF CallDelete, NetMove
  <2> QED BY <1>2, <2>1, Zenon DEF CallDelete
<1>3. ASSUME NEW e \in Endpoint, CallJoin(h, e) PROVE UNCHANGED dockerVars \/ EpMove(e)
  <2>1. CASE dep[e] = "new"
    <3>1. <<"new", "joining">> \in Abstract!EpMoves
      BY Zenon DEF Abstract!EpMoves
    <3> QED BY <1>3, <2>1, <3>1, Zenon DEF CallJoin, EpMove
  <2> QED BY <1>3, <2>1, Zenon DEF CallJoin
<1>4. ASSUME NEW e \in Endpoint, CallLeave(h, e) PROVE UNCHANGED dockerVars \/ EpMove(e)
  <2>1. CASE dep[e] = "joined"
    <3>1. <<"joined", "leaving">> \in Abstract!EpMoves
      BY Zenon DEF Abstract!EpMoves
    <3> QED BY <1>4, <2>1, <3>1, Zenon DEF CallLeave, EpMove
  <2> QED BY <1>4, <2>1, Zenon DEF CallLeave
<1> QED BY <1>1, <1>2, <1>3, <1>4, Zenon

(* What is served for docker *)
LEMMA ServedFields ==
  ASSUME NEW h
  PROVE  /\ \A n : AnswersCreate(h, n) => req[h].op = "CreateNetwork" /\ req[h].net = n
         /\ \A n : AnswersDelete(h, n) => req[h].op = "DeleteNetwork" /\ req[h].net = n
         /\ \A e : AnswersJoin(h, e) => req[h].op = "Join" /\ req[h].ep = e
         /\ \A e : AnswersLeave(h, e) => req[h].op = "Leave" /\ req[h].ep = e
<1>1. ASSUME NEW n, AnswersCreate(h, n) PROVE req[h].op = "CreateNetwork" /\ req[h].net = n
  <2>1. req[h] = CreateOf(n)
    BY <1>1, Zenon DEF AnswersCreate
  <2> QED BY <2>1 DEF CreateOf
<1>2. ASSUME NEW n, AnswersDelete(h, n) PROVE req[h].op = "DeleteNetwork" /\ req[h].net = n
  <2>1. req[h] = DeleteOf(n)
    BY <1>2, Zenon DEF AnswersDelete
  <2> QED BY <2>1 DEF DeleteOf
<1>3. ASSUME NEW e, AnswersJoin(h, e) PROVE req[h].op = "Join" /\ req[h].ep = e
  <2>1. req[h] = JoinOf(e)
    BY <1>3, Zenon DEF AnswersJoin
  <2> QED BY <2>1 DEF JoinOf
<1>4. ASSUME NEW e, AnswersLeave(h, e) PROVE req[h].op = "Leave" /\ req[h].ep = e
  <2>1. req[h] = LeaveOf(e)
    BY <1>4, Zenon DEF AnswersLeave
  <2> QED BY <2>1 DEF LeaveOf
<1> QED BY <1>1, <1>2, <1>3, <1>4, Zenon

LEMMA JoinFields ==
  ASSUME NEW h, NEW e, req[h] = JoinOf(e)
  PROVE  req[h].net = NetOf[e]
BY DEF JoinOf

(* An answer "ok" is given for an effect that is there. *)
LEMMA AnswersMove ==
  ASSUME IndInv, DockerTypeOK, Faithful, HostInv, BridgesApart, NEW h \in Handler, Answered(h)
  PROVE  \/ UNCHANGED dockerVars
         \/ \E n \in Network : NetMove(n)
         \/ \E e \in Endpoint : EpMove(e)
<1> USE DEF DockerTypeOK
<1>a. ServesDocker /\ CreatesDone /\ DeletesDone /\ JoinsDone /\ LeavesDone
  BY Zenon DEF HostInv
<1>1. ASSUME NEW n \in Network, AnswersCreate(h, n) PROVE NetMove(n)
  <2>1. pc[h] = "ok" => n \in Present
    <3>1. req[h].op = "CreateNetwork" /\ req[h].net = n
      BY <1>1, ServedFields, Zenon
    <3>2. ASSUME pc[h] = "ok" PROVE HasBridge(n)
      BY <1>a, <3>1, <3>2, Zenon DEF CreatesDone, Created, Done
    <3> QED BY <3>2, Zenon DEF Present
  <2>2. <<"creating", "live">> \in Abstract!NetMoves /\ <<"creating", "failed">> \in Abstract!NetMoves
    BY Zenon DEF Abstract!NetMoves
  <2>3. CASE pc[h] = "ok"
    BY <1>1, <2>1, <2>2, <2>3, Zenon DEF AnswersCreate, Confirm, NetMove
  <2>4. CASE pc[h] # "ok"
    BY <1>1, <2>2, <2>4, Zenon DEF AnswersCreate, Confirm, NetMove
  <2> QED BY <2>3, <2>4, Zenon
<1>2. ASSUME NEW n \in Network, AnswersDelete(h, n) PROVE NetMove(n)
  <2>1. pc[h] = "ok" /\ conn => n \notin Present
    <3>1. req[h].op = "DeleteNetwork" /\ req[h].net = n
      BY <1>2, ServedFields, Zenon
    <3>2. ASSUME pc[h] = "ok", conn PROVE BridgeNamesOf(n) = {}
      BY <1>a, <3>1, <3>2, Zenon DEF DeletesDone, Deleted, Done
    <3> QED BY <3>2, Resolves, Zenon DEF Present
  <2>2. <<"deleting", "gone">> \in Abstract!NetMoves /\ <<"deleting", "deleting">> \in Abstract!NetMoves
    BY Zenon DEF Abstract!NetMoves
  <2>3. CASE pc[h] = "ok"
    BY <1>2, <2>1, <2>2, <2>3, Zenon DEF AnswersDelete, Confirm, NetMove
  <2>4. CASE pc[h] # "ok"
    BY <1>2, <2>2, <2>4, Zenon DEF AnswersDelete, Confirm, NetMove
  <2> QED BY <2>3, <2>4, Zenon
<1>3. ASSUME NEW e \in Endpoint, AnswersJoin(h, e) PROVE EpMove(e)
  <2>1. pc[h] = "ok" /\ conn => e \in Attached
    <3>1. req[h].op = "Join" /\ req[h].ep = e
      BY <1>3, ServedFields, Zenon
    <3>2. ASSUME pc[h] = "ok", conn PROVE HasPort(e)
      BY <1>a, <3>1, <3>2, Zenon DEF JoinsDone, Joined, Done
    <3> QED BY <3>2, Zenon DEF Attached
  <2>2. <<"joining", "joined">> \in Abstract!EpMoves /\ <<"joining", "failed">> \in Abstract!EpMoves
    BY Zenon DEF Abstract!EpMoves
  <2>3. CASE pc[h] = "ok"
    BY <1>3, <2>1, <2>2, <2>3, Zenon DEF AnswersJoin, Confirm, EpMove
  <2>4. CASE pc[h] # "ok"
    BY <1>3, <2>2, <2>4, Zenon DEF AnswersJoin, Confirm, EpMove
  <2> QED BY <2>3, <2>4, Zenon
<1>4. ASSUME NEW e \in Endpoint, AnswersLeave(h, e) PROVE EpMove(e)
  <2>1. pc[h] = "ok" => e \notin Attached
    <3>1. pc[h] = "ok" => Done(h, "Leave") /\ req[h].ep = e
      BY <1>4, ServedFields, Zenon DEF Done
    <3>2. ~PortExists(VethOf[e]) => e \notin Attached
      BY Zenon DEF Attached, HasPort, PortExists
    <3> QED BY <1>a, <3>1, <3>2, Zenon DEF LeavesDone
  <2>2. <<"leaving", "left">> \in Abstract!EpMoves /\ <<"leaving", "failed">> \in Abstract!EpMoves
    BY Zenon DEF Abstract!EpMoves
  <2>3. CASE pc[h] = "ok"
    BY <1>4, <2>1, <2>2, <2>3, Zenon DEF AnswersLeave, Confirm, EpMove
  <2>4. CASE pc[h] # "ok"
    BY <1>4, <2>2, <2>4, Zenon DEF AnswersLeave, Confirm, EpMove
  <2> QED BY <2>3, <2>4, Zenon
<1> QED BY <1>a, <1>1, <1>2, <1>3, <1>4, AnswerIs, Zenon

LEMMA EffectStep ==
  ASSUME IndInv, HostInv, Mapped, Mapped', BridgesApart, VethsApart,
         NEW h \in Handler, Touches(h), UNCHANGED dockerVars
  PROVE  [Abstract!Next]_(Abstract!vars)
<1>a. Faithful /\ JoinsDone
  BY Zenon DEF HostInv
<1>1. ASSUME NEW n \in Network, dnet[n] = "creating", CreatesBridge(n) PROVE Abstract!Create(n)
  BY <1>a, <1>1, CreateMaps, Effects, Zenon
<1>2. ASSUME NEW n \in Network, dnet[n] = "deleting", DropsBridge(n)
      PROVE  Abstract!Delete(n) \/ UNCHANGED Abstract!vars
  <2>1. Present' = Present \ {n} /\ Attached' = {e \in Attached : NetOf[e] # n}
    BY <1>a, <1>2, DropMaps, Zenon
  <2>2. CASE n \in Present
    BY <1>2, <2>1, <2>2, Effects, Zenon
  <2>3. CASE n \notin Present
    <3>1. \A e \in Attached : NetOf[e] # n
      BY <2>3, NetOfType, Zenon DEF Attached, HasPort, Present, HasBridge
    <3>2. Present' = Present /\ Attached' = Attached
      BY <2>1, <2>3, <3>1, Zenon
    <3> QED BY <3>2, Effects, Zenon
  <2> QED BY <2>2, <2>3, Zenon
<1>3. ASSUME NEW e \in Endpoint, pc[h] = "addOvsVethPort", req[h] = JoinOf(e), dep[e] = "joining",
             AddsPort(e)
      PROVE  Abstract!Attach(e)
  <2>1. HasBridge(NetOf[e]) /\ NetOf[e] \in Present
    <3>1. req[h].net = NetOf[e] /\ NetOf[e] \in Network
      BY <1>3, JoinFields, NetOfType, Zenon
    <3>2. HasBridge(NetOf[e])
      BY <1>a, <1>3, <3>1, Zenon DEF JoinsDone
    <3> QED BY <3>1, <3>2, Zenon DEF Present
  <2> QED BY <1>3, <2>1, AddMaps, Effects, Zenon
<1>4. ASSUME NEW e \in Endpoint, dep[e] = "leaving", DropsPort(e)
      PROVE  Abstract!Detach(e) \/ UNCHANGED Abstract!vars
  <2>1. Attached' = Attached \ {e} /\ Present' = Present
    BY <1>4, DropPortMaps, Zenon
  <2>2. e \notin Attached => Attached' = Attached
    BY <2>1, Zenon
  <2> QED BY <1>4, <2>1, <2>2, Effects, Zenon
<1> QED BY <1>1, <1>2, <1>3, <1>4, Zenon DEF Touches, Abstract!Next

LEMMA RefinementStep ==
  ASSUME IndInv, DockerTypeOK, HostInv, Mapped, Mapped', BridgesApart, VethsApart, [HostNext]_hostVars
  PROVE  [Abstract!Next]_(Abstract!vars)
<1>a. ServesDocker /\ Faithful
  BY Zenon DEF HostInv
<1>1. CASE UNCHANGED dockerVars /\ \E h \in Handler : Touches(h)
  BY <1>1, EffectStep, Zenon
<1>2. CASE UNCHANGED <<bridges, ports, opts>>
  <2>1. \/ UNCHANGED dockerVars
        \/ \E n \in Network : NetMove(n)
        \/ \E e \in Endpoint : EpMove(e)
    <3>1. UNCHANGED hostVars => UNCHANGED dockerVars
      BY Zenon DEF hostVars
    <3> QED BY <1>a, <3>1, CallsMove, AnswersMove, Zenon DEF HostNext
  <2>2. CASE UNCHANGED dockerVars
    BY <1>2, <2>2, Moves, Effects, Zenon
  <2>3. ASSUME NEW n \in Network, NetMove(n) PROVE Abstract!Next
    BY <1>2, <2>3, Moves, Zenon DEF Abstract!Next
  <2>4. ASSUME NEW e \in Endpoint, EpMove(e) PROVE Abstract!Next
    BY <1>2, <2>4, Moves, Zenon DEF Abstract!Next
  <2> QED BY <2>1, <2>2, <2>3, <2>4, Zenon
<1> QED BY <1>a, <1>1, <1>2, HostTouches, Zenon

-----------------------------------------------------------------------------
(* Theorems *)

(* Where bridges and ports have names of their own, the whole inductive    *)
(* invariant of the host holds: each handler has brought about what its    *)
(* label says it has, whatever the other handlers do meanwhile.            *)
THEOREM HostInvHolds == ASSUME BridgesApart, VethsApart PROVE HostSpec => []HostInv
<1>1. HostInit => CreatesDone /\ DeletesDone /\ JoinsDone /\ LeavesDone /\ StopsOwn
  BY DEF HostInit, Init, CreatesDone, DeletesDone, JoinsDone, LeavesDone, StopsOwn,
         Created, Deleted, Joined, Done
<1>2. IndInv /\ ServesDocker /\ Faithful /\ [HostNext]_hostVars
      /\ CreatesDone /\ DeletesDone /\ JoinsDone /\ LeavesDone /\ StopsOwn
        => CreatesDone' /\ DeletesDone' /\ JoinsDone' /\ LeavesDone' /\ StopsOwn'
  BY CreatesDoneStep, DeletesDoneStep, JoinsDoneStep, LeavesDoneStep, StopsOwnStep
<1> QED BY <1>1, <1>2, HostKeepsDriverInvariant, OptionsFaithful, PTL DEF HostSpec, HostInv

(* Where bridges and ports have names of their own, the driver under       *)
(* docker implements NetworkDriver: every step of a handler, of docker, of *)
(* the database and of a crash is one effect, one call or answer, or       *)
(* nothing, and an "ok" is answered for an effect that is there.           *)
THEOREM DriverImplements == ASSUME BridgesApart, VethsApart PROVE HostSpec => ImplementsDriver
<1>1. HostInit => Abstract!Init
  <2>1. HostInit => opts = {} /\ ports = {} /\ dnet = [n \in Network |-> "new"]
                    /\ dep = [e \in Endpoint |-> "new"] /\ confirmed = {}
    BY DEF HostInit, Init, OvsdbInit
  <2> QED BY <2>1 DEF Abstract!Init, BridgeNamesOf
<1>2. IndInv /\ Faithful => Mapped
  BY Maps
<1>3. IndInv /\ DockerTypeOK /\ HostInv /\ Mapped /\ Mapped' /\ [HostNext]_hostVars
        => [Abstract!Next]_(Abstract!vars)
  BY RefinementStep
<1> QED BY <1>1, <1>2, <1>3, HostKeepsDriverInvariant, OptionsFaithful, HostInvHolds, PTL
        DEF HostSpec, ImplementsDriver, Abstract!Spec
=============================================================================
