----------------------------- MODULE OvsDriver -----------------------------
(***************************************************************************)
(* The network driver: the HTTP handlers CreateNetwork, DeleteNetwork,     *)
(* Join and Leave, each served by a goroutine of its own and without any   *)
(* lock, over the OVS database, the plugin's cache of it, the kernel's     *)
(* links and the gateway service.  One action per stretch of a handler     *)
(* between two points where another goroutine, ovs-vswitchd or             *)
(* ovsdb-server can be seen to act; the label of a handler is the call it  *)
(* makes next.                                                             *)
(*                                                                         *)
(* The client is unconstrained: any request at any time.                   *)
(***************************************************************************)
EXTENDS Ovsdb, GatewayService

CONSTANTS
    Handler,        \* goroutines serving requests
    Endpoint,       \* endpoint ids
    VethOf,         \* port name of an endpoint: prefix and 5 characters of its id
    NetState,       \* what the options of the CreateNetwork requests come to
    GatewayType,    \* the service types sgw and pgw
    NoType,         \* the empty service type
    Systemd,        \* the plugin can reach systemd (not so inside a container)
    Ops,            \* the operations that clients call
    LinkRetries,    \* how often initBridge looks for the bridge's link
    MaxUuid         \* bound: no request is accepted beyond this many rows

Mode == {"nat", "flat"}
Family == {"v4", "v6"}

ASSUME VethOfType == VethOf \in [Endpoint -> VethName]
ASSUME NetStateType ==
    NetState \subseteq [name : BridgeName, mode : Mode, gateway : Family, type : ServiceType]
ASSUME ServiceTypes == GatewayType \subseteq ServiceType /\ NoType \in ServiceType \ GatewayType
ASSUME SystemdType == Systemd \in BOOLEAN
ASSUME LinkRetriesType == LinkRetries \in Nat \ {0}
ASSUME MaxUuidType == MaxUuid \in Nat
ASSUME NilType ==
    /\ Nil \notin BridgeName /\ Nil \notin NetState /\ Nil \notin Nat

VARIABLES
    up,             \* the plugin process runs and serves requests
    networks,       \* d.networks
    cache,          \* ovsdbCache, tables Bridge and Port
    pc, req,        \* per handler: the next call, the request
    name, type,     \* per handler: bridge name and service type
    uuid,           \* per handler: row uuid found in the cache
    tries,          \* per handler: looks for the link so far
    link,           \* links the kernel has
    addr,           \* addresses on bridge links, by family
    nat             \* networks whose gateway has a NAT rule

localVars == <<req, name, type, uuid, tries>>
pluginVars == <<up, networks, cache>>
kernelVars == <<link, addr, nat>>
vars == <<ovsdbVars, pluginVars, pc, localVars, kernelVars, unit>>

Command == [name : BridgeName, type : ServiceType]

(* A request whose options are refused (unknown mode, no gateway, no name  *)
(* for a gateway network) is one without a NetState.                       *)
CreateRequest == [op : {"CreateNetwork"}, net : Network, ns : NetState \cup {Nil}]
DeleteRequest == [op : {"DeleteNetwork"}, net : Network]
PortRequest == [op : {"Join", "Leave"}, net : Network, ep : Endpoint]
StubRequest == [op : {"CreateEndpoint", "DeleteEndpoint", "EndpointInfo"}]
Request == CreateRequest \cup DeleteRequest \cup PortRequest \cup StubRequest

CreateLabel == {"CreateNetwork", "initBridge", "portExists", "createBridgeIface",
                "portExistsNow", "validateIface", "mode", "getIfaceAddr", "natOut",
                "interfaceUp", "writeUnit", "daemonReload", "startUnit", "enableUnit"}
DeleteLabel == {"DeleteNetwork", "getBridgeServiceType", "getBridgeUUIDForName",
                "deleteBridge", "stopUnit", "disableUnit", "removeUnit", "forget"}
JoinLabel == {"Join", "linkSetUp", "bridgeForJoin", "addOvsVethPort", "getIPByInterface"}
LeaveLabel == {"Leave", "bridgeForLeave", "portUUIDForName", "deletePort"}
StubLabel == {"CreateEndpoint", "DeleteEndpoint", "EndpointInfo"}

(* "panic" closes the connection without an answer: net/http recovers it. *)
Answer == {"ok", "error", "panic"}
Label == {"idle"} \cup CreateLabel \cup DeleteLabel \cup JoinLabel \cup LeaveLabel
            \cup StubLabel \cup Answer

PluginTypeOK ==
    /\ up \in BOOLEAN
    /\ networks \in [Network -> NetState \cup {Nil}]
    /\ cache \subseteq CacheRow

HandlersTypeOK ==
    /\ pc \in [Handler -> Label]
    /\ req \in [Handler -> Request \cup {Nil}]
    /\ name \in [Handler -> BridgeName \cup {Nil}]
    /\ type \in [Handler -> ServiceType]
    /\ uuid \in [Handler -> Nat \cup {Nil}]
    /\ tries \in [Handler -> 0 .. LinkRetries]

KernelTypeOK ==
    /\ link \subseteq PortName
    /\ addr \subseteq BridgeName \X Family
    /\ nat \subseteq Network

TypeOK ==
    /\ OvsdbTypeOK
    /\ PluginTypeOK
    /\ HandlersTypeOK
    /\ KernelTypeOK
    /\ UnitTypeOK(Command)

Init ==
    /\ OvsdbInit
    /\ up = TRUE
    /\ networks = [n \in Network |-> Nil]
    /\ cache = {}
    /\ pc = [h \in Handler |-> "idle"]
    /\ req = [h \in Handler |-> Nil]
    /\ name = [h \in Handler |-> Nil]
    /\ type = [h \in Handler |-> NoType]
    /\ uuid = [h \in Handler |-> Nil]
    /\ tries = [h \in Handler |-> 0]
    /\ link = {} /\ addr = {} /\ nat = {}
    /\ UnitInit

-----------------------------------------------------------------------------
At(h, l) == pc[h] = l
Goto(h, l) == pc' = [pc EXCEPT ![h] = l]

(* os.Exit or a crash: the process loses all it holds in memory. *)
Exit ==
    /\ up' = FALSE
    /\ networks' = [n \in Network |-> Nil]
    /\ cache' = {}
    /\ pc' = [h \in Handler |-> "idle"]
    /\ req' = [h \in Handler |-> Nil]
    /\ name' = [h \in Handler |-> Nil]
    /\ type' = [h \in Handler |-> NoType]
    /\ uuid' = [h \in Handler |-> Nil]
    /\ tries' = [h \in Handler |-> 0]
    /\ conn' = FALSE
    /\ notifs' = {}
    /\ UNCHANGED <<dbVars, kernelVars, unit>>

Receive(h, r) ==
    /\ up /\ At(h, "idle") /\ r.op \in Ops /\ nextUuid <= MaxUuid
    /\ Goto(h, r.op)
    /\ req' = [req EXCEPT ![h] = r]
    /\ UNCHANGED <<ovsdbVars, pluginVars, name, type, uuid, tries, kernelVars, unit>>

(* The handler returns; its answer reaches the client. *)
Return(h) ==
    /\ pc[h] \in Answer
    /\ Goto(h, "idle")
    /\ req' = [req EXCEPT ![h] = Nil]
    /\ name' = [name EXCEPT ![h] = Nil]
    /\ type' = [type EXCEPT ![h] = NoType]
    /\ uuid' = [uuid EXCEPT ![h] = Nil]
    /\ tries' = [tries EXCEPT ![h] = 0]
    /\ UNCHANGED <<ovsdbVars, pluginVars, kernelVars, unit>>

-----------------------------------------------------------------------------
(* CreateNetwork *)

(* initBridge failed: forget the network and report the error.  What was   *)
(* put into OVSDB stays there.                                             *)
AbandonNetwork(h) ==
    /\ Goto(h, "error")
    /\ networks' = [networks EXCEPT ![req[h].net] = Nil]

CreateNetwork(h) ==
    /\ At(h, "CreateNetwork")
    /\ \/ /\ req[h].ns = Nil
          /\ \E a \in {"error", "panic"} : Goto(h, a)
          /\ UNCHANGED networks
       \/ /\ req[h].ns # Nil
          /\ networks' = [networks EXCEPT ![req[h].net] = req[h].ns]
          /\ Goto(h, "initBridge")
    /\ UNCHANGED <<ovsdbVars, up, cache, localVars, kernelVars, unit>>

(* initBridge reads the state of the network back from the map, which      *)
(* another handler may have changed or emptied meanwhile.                  *)
InitBridge(h) ==
    /\ At(h, "initBridge")
    /\ LET ns == networks[req[h].net] IN
          \/ ns = Nil /\ Goto(h, "panic") /\ UNCHANGED <<name, type>>
          \/ /\ ns # Nil
             /\ name' = [name EXCEPT ![h] = ns.name]
             /\ type' = [type EXCEPT ![h] = ns.type]
             /\ Goto(h, "portExists")
    /\ UNCHANGED <<ovsdbVars, pluginVars, req, uuid, tries, kernelVars, unit>>

(* addBridge up to its first look at table Port *)
AddBridgeCheck(h) ==
    /\ At(h, "portExists")
    /\ \/ ~conn /\ AbandonNetwork(h)
       \/ /\ conn
          /\ Goto(h, IF PortExists(name[h]) THEN "validateIface" ELSE "createBridgeIface")
          /\ UNCHANGED networks
    /\ UNCHANGED <<ovsdbVars, up, cache, localVars, kernelVars, unit>>

(* createBridgeIface logs and drops whatever the transaction answers. *)
CreateBridgeIface(h) ==
    /\ At(h, "createBridgeIface")
    /\ \E rep \in Reply : createOvsdbBridge(name[h], type[h], req[h].net, rep)
    /\ Goto(h, "portExistsNow")
    /\ UNCHANGED <<pluginVars, localVars, kernelVars, unit>>

(* addBridge's second look *)
AddBridgeRecheck(h) ==
    /\ At(h, "portExistsNow")
    /\ \/ ~(conn /\ PortExists(name[h])) /\ AbandonNetwork(h)
       \/ conn /\ PortExists(name[h]) /\ Goto(h, "validateIface") /\ UNCHANGED networks
    /\ UNCHANGED <<ovsdbVars, up, cache, localVars, kernelVars, unit>>

(* Mutant: the looks are not counted. *)
WaitForLinkForever(h) ==
    /\ At(h, "validateIface")
    /\ \/ name[h] \in link /\ Goto(h, "mode")
       \/ name[h] \notin link /\ UNCHANGED pc
    /\ UNCHANGED <<ovsdbVars, pluginVars, localVars, kernelVars, unit>>

(* One turn of the loop that waits for ovs-vswitchd to make the link. *)
WaitForLink(h) ==
    /\ At(h, "validateIface")
    /\ \/ /\ name[h] \in link /\ tries[h] < LinkRetries
          /\ Goto(h, "mode")
          /\ UNCHANGED <<networks, tries>>
       \/ /\ name[h] \notin link /\ tries[h] < LinkRetries
          /\ tries' = [tries EXCEPT ![h] = @ + 1]
          /\ UNCHANGED <<networks, pc>>
       \/ /\ tries[h] = LinkRetries
          /\ AbandonNetwork(h)
          /\ UNCHANGED tries
    /\ UNCHANGED <<ovsdbVars, up, cache, req, name, type, uuid, kernelVars, unit>>

(* The mode and the gateway are read from the map a second time, after the *)
(* wait.  In NAT mode setInterfaceIP gives the link the gateway address;   *)
(* it ends the process when there is no link, while an address that the    *)
(* kernel refuses is only logged.                                          *)
SetInterfaceIP(h) ==
    /\ At(h, "mode")
    /\ LET ns == networks[req[h].net]
           Next1(l, A) == /\ Goto(h, l) /\ addr' = A
                          /\ UNCHANGED <<ovsdbVars, pluginVars, localVars, link, nat, unit>>
       IN  \/ ns = Nil /\ Next1("panic", addr)
           \/ ns # Nil /\ ns.mode = "flat" /\ Next1("interfaceUp", addr)
           \/ /\ ns # Nil /\ ns.mode = "nat" /\ name[h] \in link
              /\ \E A \in {addr, addr \cup {<<name[h], ns.gateway>>}} : Next1("getIfaceAddr", A)
           \/ ns # Nil /\ ns.mode = "nat" /\ name[h] \notin link /\ Exit

(* log.Fatalf unless the link has an IPv4 address *)
GetIfaceAddr(h) ==
    /\ At(h, "getIfaceAddr")
    /\ \/ /\ name[h] \in link /\ <<name[h], "v4">> \in addr
          /\ Goto(h, "natOut")
          /\ UNCHANGED <<ovsdbVars, pluginVars, localVars, kernelVars, unit>>
       \/ ~(name[h] \in link /\ <<name[h], "v4">> \in addr) /\ Exit

(* log.Fatalf when iptables refuses the rule *)
NatOut(h) ==
    /\ At(h, "natOut")
    /\ \/ /\ nat' = nat \cup {req[h].net}
          /\ Goto(h, "interfaceUp")
          /\ UNCHANGED <<ovsdbVars, pluginVars, localVars, link, addr, unit>>
       \/ Exit

(* The error path of interfaceUp dereferences the link it did not find.    *)
(* A link that comes up may get an IPv6 link-local address.                *)
InterfaceUp(h) ==
    /\ At(h, "interfaceUp")
    /\ \/ name[h] \notin link /\ Goto(h, "panic") /\ UNCHANGED <<networks, addr>>
       \/ name[h] \in link /\ AbandonNetwork(h) /\ UNCHANGED addr
       \/ /\ name[h] \in link
          /\ Goto(h, "writeUnit")
          /\ addr' \in {addr, addr \cup {<<name[h], "v6">>}}
          /\ UNCHANGED networks
    /\ UNCHANGED <<ovsdbVars, up, cache, localVars, link, nat, unit>>

(* runOvsScript, for every type of network.  A step of StartOvsService     *)
(* that fails ends it, and the failure is only logged.                     *)
ServiceStep(h, l, step, next, failed) ==
    /\ At(h, l)
    /\ \/ Systemd /\ step /\ Goto(h, next)
       \/ UNCHANGED unit /\ Goto(h, failed)
    /\ UNCHANGED <<ovsdbVars, pluginVars, localVars, kernelVars>>

StartOvsService(h) ==
    \/ ServiceStep(h, "writeUnit", WriteUnitFile([name |-> name[h], type |-> type[h]]),
                   "daemonReload", "ok")
    \/ ServiceStep(h, "daemonReload", ReloadUnit, "startUnit", "ok")
    \/ ServiceStep(h, "startUnit", StartUnit, "enableUnit", "ok")
    \/ ServiceStep(h, "enableUnit", EnableUnit, "ok", "ok")

-----------------------------------------------------------------------------
(* DeleteNetwork *)

(* getBridgeNameByNetworkId, then on to the next call of the handler *)
LookupBridge(h, next) ==
    \/ /\ ~(conn /\ BridgeNamesOf(req[h].net) # {})
       /\ Goto(h, "error") /\ UNCHANGED name
    \/ /\ conn
       /\ \E b \in BridgeNamesOf(req[h].net) : name' = [name EXCEPT ![h] = b]
       /\ Goto(h, next)

DeleteNetwork(h) ==
    /\ At(h, "DeleteNetwork")
    /\ LookupBridge(h, "getBridgeServiceType")
    /\ UNCHANGED <<ovsdbVars, pluginVars, req, type, uuid, tries, kernelVars, unit>>

(* An error is only logged and leaves the type empty. *)
GetBridgeServiceType(h) ==
    /\ At(h, "getBridgeServiceType")
    /\ \/ conn /\ \E t \in ServiceTypesOf(name[h]) : type' = [type EXCEPT ![h] = t]
       \/ ~(conn /\ ServiceTypesOf(name[h]) # {}) /\ UNCHANGED type
    /\ Goto(h, "getBridgeUUIDForName")
    /\ UNCHANGED <<ovsdbVars, pluginVars, req, name, uuid, tries, kernelVars, unit>>

(* Mutant: the first row of the table, whatever its name. *)
LookupUuidAnyName(h, table, port, next) ==
    LET found == {c \in cache : c.table = table}
    IN  \/ found = {} /\ Goto(h, "error") /\ UNCHANGED uuid
        \/ (\E c \in found : uuid' = [uuid EXCEPT ![h] = c.uuid]) /\ Goto(h, next)

(* The first row of that name in the cache, in map order, or an error *)
LookupUuid(h, table, port, next) ==
    LET found == {c \in cache : c.table = table /\ c.name = port}
    IN  \/ found = {} /\ Goto(h, "error") /\ UNCHANGED uuid
        \/ (\E c \in found : uuid' = [uuid EXCEPT ![h] = c.uuid]) /\ Goto(h, next)

GetBridgeUUIDForName(h) ==
    /\ At(h, "getBridgeUUIDForName")
    /\ LookupUuid(h, "Bridge", name[h], "deleteBridge")
    /\ UNCHANGED <<ovsdbVars, pluginVars, req, name, type, tries, kernelVars, unit>>

(* Mutant: the service type is not looked at. *)
DeleteBridgeStopAlways(h) ==
    /\ At(h, "deleteBridge")
    /\ \E rep \in Reply :
          /\ deleteBridgeRows(name[h], uuid[h], rep)
          /\ Goto(h, IF rep = "error" THEN "error" ELSE "stopUnit")
    /\ UNCHANGED <<pluginVars, localVars, kernelVars, unit>>

(* Missing replies are logged and taken for success. *)
DeleteBridge(h) ==
    /\ At(h, "deleteBridge")
    /\ \E rep \in Reply :
          /\ deleteBridgeRows(name[h], uuid[h], rep)
          /\ Goto(h, IF rep = "error" THEN "error"
                     ELSE IF type[h] \in GatewayType THEN "stopUnit" ELSE "forget")
    /\ UNCHANGED <<pluginVars, localVars, kernelVars, unit>>

(* A stop that fails ends stopOvsService; no failure is reported. *)
StopOvsService(h) ==
    \/ ServiceStep(h, "stopUnit", StopUnit, "disableUnit", "forget")
    \/ ServiceStep(h, "disableUnit", DisableUnit, "removeUnit", "removeUnit")
    \/ ServiceStep(h, "removeUnit", RemoveUnitFile, "forget", "forget")

ForgetNetwork(h) ==
    /\ At(h, "forget")
    /\ networks' = [networks EXCEPT ![req[h].net] = Nil]
    /\ Goto(h, "ok")
    /\ UNCHANGED <<ovsdbVars, up, cache, localVars, kernelVars, unit>>

-----------------------------------------------------------------------------
(* Join and Leave *)

(* LinkAdd of the veth pair: refused when the name is taken *)
Join(h) ==
    /\ At(h, "Join")
    /\ LET veth == VethOf[req[h].ep] IN
          \/ veth \notin link /\ link' = link \cup {veth} /\ Goto(h, "linkSetUp")
          \/ Goto(h, "error") /\ UNCHANGED link
    /\ UNCHANGED <<ovsdbVars, pluginVars, localVars, addr, nat, unit>>

(* From here on an error leaves the veth pair behind. *)
LinkSetUp(h) ==
    /\ At(h, "linkSetUp")
    /\ \/ VethOf[req[h].ep] \in link /\ Goto(h, "bridgeForJoin")
       \/ Goto(h, "error")
    /\ UNCHANGED <<ovsdbVars, pluginVars, localVars, kernelVars, unit>>

BridgeForJoin(h) ==
    /\ At(h, "bridgeForJoin")
    /\ LookupBridge(h, "addOvsVethPort")
    /\ UNCHANGED <<ovsdbVars, pluginVars, req, type, uuid, tries, kernelVars, unit>>

(* Mutant: errors, too, are only logged. *)
AddOvsVethPortNoError(h) ==
    /\ At(h, "addOvsVethPort")
    /\ \E rep \in Reply : addOvsVethPort(name[h], VethOf[req[h].ep], rep)
    /\ Goto(h, "getIPByInterface")
    /\ UNCHANGED <<pluginVars, localVars, kernelVars, unit>>

(* "Silently fails :/": missing replies are logged and taken for success. *)
AddOvsVethPort(h) ==
    /\ At(h, "addOvsVethPort")
    /\ \E rep \in Reply :
          /\ addOvsVethPort(name[h], VethOf[req[h].ep], rep)
          /\ Goto(h, IF rep = "error" THEN "error" ELSE "getIPByInterface")
    /\ UNCHANGED <<pluginVars, localVars, kernelVars, unit>>

(* The gateway of the answer is the first address of the bridge's link,    *)
(* whatever its family; without one Join fails and leaves the veth pair    *)
(* and the port behind.                                                    *)
GetIPByInterface(h) ==
    /\ At(h, "getIPByInterface")
    /\ Goto(h, IF name[h] \in link /\ \E f \in Family : <<name[h], f>> \in addr
               THEN "ok" ELSE "error")
    /\ UNCHANGED <<ovsdbVars, pluginVars, localVars, kernelVars, unit>>

(* LinkDel: a failure is only logged *)
Leave(h) ==
    /\ At(h, "Leave")
    /\ link' \in {link, link \ {VethOf[req[h].ep]}}
    /\ Goto(h, "bridgeForLeave")
    /\ UNCHANGED <<ovsdbVars, pluginVars, localVars, addr, nat, unit>>

BridgeForLeave(h) ==
    /\ At(h, "bridgeForLeave")
    /\ LookupBridge(h, "portUUIDForName")
    /\ UNCHANGED <<ovsdbVars, pluginVars, req, type, uuid, tries, kernelVars, unit>>

PortUUIDForName(h) ==
    /\ At(h, "portUUIDForName")
    /\ LookupUuid(h, "Port", VethOf[req[h].ep], "deletePort")
    /\ UNCHANGED <<ovsdbVars, pluginVars, req, name, type, tries, kernelVars, unit>>

(* Mutant: missing replies are only logged. *)
DeletePortNoReply(h) ==
    /\ At(h, "deletePort")
    /\ \E rep \in Reply :
          /\ deletePortRows(name[h], VethOf[req[h].ep], uuid[h], rep)
          /\ Goto(h, IF rep = "error" THEN "error" ELSE "ok")
    /\ UNCHANGED <<pluginVars, localVars, kernelVars, unit>>

(* Unlike deleteBridge, deletePort takes missing replies for an error. *)
DeletePort(h) ==
    /\ At(h, "deletePort")
    /\ \E rep \in Reply :
          /\ deletePortRows(name[h], VethOf[req[h].ep], uuid[h], rep)
          /\ Goto(h, IF rep = "ok" THEN "ok" ELSE "error")
    /\ UNCHANGED <<pluginVars, localVars, kernelVars, unit>>

(* The endpoint handlers do nothing. *)
EndpointStub(h) ==
    /\ pc[h] \in StubLabel
    /\ Goto(h, "ok")
    /\ UNCHANGED <<ovsdbVars, pluginVars, localVars, kernelVars, unit>>

-----------------------------------------------------------------------------
(* Mutant: rows are deleted from the cache but not entered. *)
PopulateCacheDropNew(u) ==
    /\ up
    /\ cache' = cache \ u.gone
    /\ notifs' = notifs \ {u}
    /\ UNCHANGED <<dbVars, conn, up, networks, pc, localVars, kernelVars, unit>>

(* OvsdbNotifier.Update: rpc2 runs each notification in a goroutine of its *)
(* own, so they are applied in any order.  The update is then handed to    *)
(* monitorBridges, which acts only on a Bridge whose name has changed; in  *)
(* the schema of Open vSwitch that column is immutable.                    *)
PopulateCache(u) ==
    /\ up
    /\ cache' = (cache \ u.gone) \cup u.new
    /\ notifs' = notifs \ {u}
    /\ UNCHANGED <<dbVars, conn, up, networks, pc, localVars, kernelVars, unit>>

LoseConnection ==
    /\ up
    /\ Disconnect
    /\ UNCHANGED <<pluginVars, pc, localVars, kernelVars, unit>>

Crash == up /\ "crash" \in Faults /\ Exit

(* NewDriver and initDBCache: an empty map of networks, and the initial    *)
(* contents of all tables in the cache before the first request.           *)
NewDriver ==
    /\ ~up
    /\ up' = TRUE
    /\ conn' = TRUE
    /\ cache' = RowsOf(bridges, ports)
    /\ UNCHANGED <<dbVars, notifs, networks, pc, localVars, kernelVars, unit>>

(* ovs-vswitchd makes the link of a bridge that has a row, and removes it  *)
(* with its addresses when the row is gone.                                *)
Vswitchd(b) ==
    /\ \/ /\ \E r \in bridges : r.name = b
          /\ b \notin link
          /\ link' = link \cup {b}
          /\ UNCHANGED addr
       \/ /\ \A r \in bridges : r.name # b
          /\ b \in link
          /\ link' = link \ {b}
          /\ addr' = addr \ ({b} \X Family)
    /\ UNCHANGED <<ovsdbVars, pluginVars, pc, localVars, nat, unit>>

-----------------------------------------------------------------------------
HandlerStep(h) ==
    \/ CreateNetwork(h) \/ InitBridge(h) \/ AddBridgeCheck(h) \/ CreateBridgeIface(h)
    \/ AddBridgeRecheck(h) \/ WaitForLink(h) \/ SetInterfaceIP(h) \/ GetIfaceAddr(h)
    \/ NatOut(h) \/ InterfaceUp(h) \/ StartOvsService(h)
    \/ DeleteNetwork(h) \/ GetBridgeServiceType(h) \/ GetBridgeUUIDForName(h)
    \/ DeleteBridge(h) \/ StopOvsService(h) \/ ForgetNetwork(h)
    \/ Join(h) \/ LinkSetUp(h) \/ BridgeForJoin(h) \/ AddOvsVethPort(h)
    \/ GetIPByInterface(h)
    \/ Leave(h) \/ BridgeForLeave(h) \/ PortUUIDForName(h) \/ DeletePort(h)
    \/ EndpointStub(h)

Environment ==
    \/ \E u \in notifs : PopulateCache(u)
    \/ LoseConnection
    \/ Crash
    \/ NewDriver
    \/ \E b \in BridgeName : Vswitchd(b)

Next ==
    \/ \E h \in Handler : \/ \E r \in Request : Receive(h, r)
                          \/ HandlerStep(h)
                          \/ Return(h)
    \/ Environment

Spec == Init /\ [][Next]_vars

(* Goroutines that can run do run; nothing is assumed of the client, of    *)
(* ovs-vswitchd, of the connection or of restarts.                         *)
FairSpec == Spec /\ \A h \in Handler : WF_vars(HandlerStep(h) \/ Return(h))

-----------------------------------------------------------------------------
(* Properties *)

(* addBridge checks for the port and creates the bridge in two calls, drops *)
(* the error of the second, and deleteBridge works with a uuid that may be  *)
(* stale.  All the same each bridge has exactly one BridgeOpt row and each  *)
(* BridgeOpt row has its bridge: a bridge can be attributed to one network, *)
(* and a name found through BridgeOpt is the name of a bridge.              *)
RowsAgree ==
    /\ {r.name : r \in bridges} = {o.name : o \in opts}
    /\ \A o, q \in opts : o.name = q.name => o = q

(* addBridge: "If the bridge has been created, an internal port with the   *)
(* same name will exist", and it takes the port for the bridge: a port     *)
(* with the name of a bridge is the internal port of that bridge.          *)
InternalPorts ==
    /\ \A r \in bridges : \E p \in ports : p.name = r.name /\ p.bridge = r.uuid
    /\ \A p \in ports : p.name \in BridgeName =>
          \E r \in bridges : r.name = p.name /\ r.uuid = p.bridge

(* While the connection lives, a Bridge or Port row in OVSDB is in the     *)
(* cache or in an update that is about to be applied, although updates are *)
(* applied in any order: getBridgeUUIDForName and portUUIDForName can miss *)
(* a row only for a while, never for good.                                 *)
CacheComplete ==
    (up /\ conn) => \A c \in RowsOf(bridges, ports) :
                       c \in cache \/ \E u \in notifs : c \in u.new

(* The uuids that deleteBridge and deletePort take from the cache may be   *)
(* of rows long gone, but never of a row with another name: a transaction  *)
(* with a stale uuid fails, it does not drop someone else's bridge or port.*)
UuidsMatchNames ==
    \A h \in Handler :
        /\ At(h, "deleteBridge") =>
              \A r \in bridges : r.uuid = uuid[h] => r.name = name[h]
        /\ At(h, "deletePort") =>
              \A p \in ports : p.uuid = uuid[h] => p.name = VethOf[req[h].ep]

(* Every request is answered, or its connection closed by a panic or the   *)
(* end of the process: no handler loops or waits for ever.                 *)
RequestsEnd == \A h \in Handler : pc[h] # "idle" ~> pc[h] = "idle"

-----------------------------------------------------------------------------
(* The inductive invariant behind RowsAgree, InternalPorts, CacheComplete  *)
(* and UuidsMatchNames.                                                    *)

(* What a handler has at hand when it reaches a label. *)
NamedLabel == (CreateLabel \ {"CreateNetwork", "initBridge"})
                \cup (DeleteLabel \ {"DeleteNetwork"})
                \cup {"addOvsVethPort", "getIPByInterface", "portUUIDForName", "deletePort"}

LocalOK(l, r, b, u) ==
    /\ l \in CreateLabel => r \in CreateRequest
    /\ l \in DeleteLabel => r \in DeleteRequest
    /\ l \in JoinLabel \cup LeaveLabel => r \in PortRequest
    /\ l \in NamedLabel => b \in BridgeName
    /\ l \in {"deleteBridge", "deletePort"} => u \in Nat

LocalsOK == \A h \in Handler : LocalOK(pc[h], req[h], name[h], uuid[h])

(* Bridges are told apart by name and by uuid, ports of one uuid have one  *)
(* name, and the uuids of rows and those that handlers hold were issued.   *)
Rows == RowsOf(bridges, ports)

RowsUnique ==
    /\ \A r, q \in bridges : (r.name = q.name \/ r.uuid = q.uuid) => r = q
    /\ \A p, q \in ports : p.uuid = q.uuid => p.name = q.name
RowsIssued == \A c \in Rows : c.uuid < nextUuid
HeldIssued ==
    \A h \in Handler : pc[h] \in {"deleteBridge", "deletePort"} => uuid[h] < nextUuid

(* Rows the plugin has been told of, in the cache or on the way to it. *)
ToldRows == cache \cup UNION {u.new \cup u.gone : u \in notifs}

(* A uuid the plugin has been told of keeps its name, and rows reported    *)
(* gone do not come back.                                                  *)
ToldRight ==
    \A c \in ToldRows :
        /\ c.uuid < nextUuid
        /\ \A d \in Rows : (d.table = c.table /\ d.uuid = c.uuid) => d.name = c.name
GoneForGood == \A u \in notifs : u.gone \cap Rows = {}

IndInv ==
    /\ TypeOK /\ LocalsOK
    /\ RowsUnique /\ RowsIssued /\ HeldIssued /\ RowsAgree /\ InternalPorts
    /\ ToldRight /\ GoneForGood /\ CacheComplete /\ UuidsMatchNames
=============================================================================
