---------------------------- MODULE DockerHost -----------------------------
(***************************************************************************)
(* The driver and the docker daemon that calls it.                         *)
(*                                                                         *)
(* The daemon is not part of the repository.  What is modelled of it is    *)
(* the protocol of the driver interface: a network id is created once and  *)
(* with fixed options, used by endpoints only when its creation has been   *)
(* answered, and deleted only when no endpoint uses it; an endpoint joins  *)
(* once and leaves once.  A call that gets no answer, because the handler  *)
(* panicked or the plugin ended, is repeated.                              *)
(***************************************************************************)
EXTENDS OvsDriver

CONSTANTS
    Config,         \* the options each network is created with
    NetOf           \* the network of each endpoint

ASSUME ConfigType == Config \in [Network -> NetState]
ASSUME NetOfType == NetOf \in [Endpoint -> Network]
(* docker's ids are random; the ids of both kinds share one set below. *)
ASSUME IdsDisjoint == Network \cap Endpoint = {}

VARIABLES
    dnet,           \* the daemon's view of each network
    dep,            \* the daemon's view of each endpoint
    confirmed       \* those whose last "ok" came over a live OVSDB connection

dockerVars == <<dnet, dep, confirmed>>
hostVars == <<vars, dockerVars>>

NetView == {"new", "creating", "live", "deleting", "gone", "failed"}
EndpointView == {"new", "joining", "joined", "leaving", "left", "failed"}

HostTypeOK ==
    /\ TypeOK
    /\ dnet \in [Network -> NetView]
    /\ dep \in [Endpoint -> EndpointView]
    /\ confirmed \subseteq Network \cup Endpoint

HostInit ==
    /\ Init
    /\ dnet = [n \in Network |-> "new"]
    /\ dep = [e \in Endpoint |-> "new"]
    /\ confirmed = {}

CreateOf(n) == [op |-> "CreateNetwork", net |-> n, ns |-> Config[n]]
DeleteOf(n) == [op |-> "DeleteNetwork", net |-> n]
JoinOf(e) == [op |-> "Join", net |-> NetOf[e], ep |-> e]
LeaveOf(e) == [op |-> "Leave", net |-> NetOf[e], ep |-> e]

Unused(n) == \A e \in Endpoint : NetOf[e] = n => dep[e] \in {"new", "left", "failed"}

Serving(op, key, x) ==
    \E h \in Handler : pc[h] # "idle" /\ req[h].op = op /\ req[h][key] = x

(* NewNetwork; the call is repeated when it was not answered. *)
CallCreate(h, n) ==
    /\ dnet[n] \in {"new", "creating"} /\ ~Serving("CreateNetwork", "net", n)
    /\ Receive(h, CreateOf(n))
    /\ dnet' = [dnet EXCEPT ![n] = "creating"]
    /\ UNCHANGED <<dep, confirmed>>

CallDelete(h, n) ==
    /\ dnet[n] \in {"live", "deleting"} /\ ~Serving("DeleteNetwork", "net", n)
    /\ Unused(n)
    /\ Receive(h, DeleteOf(n))
    /\ dnet' = [dnet EXCEPT ![n] = "deleting"]
    /\ UNCHANGED <<dep, confirmed>>

CallJoin(h, e) ==
    /\ dep[e] \in {"new", "joining"} /\ ~Serving("Join", "ep", e)
    /\ dnet[NetOf[e]] \in {"live", "deleting"} /\ ~Serving("DeleteNetwork", "net", NetOf[e])
    /\ Receive(h, JoinOf(e))
    /\ dep' = [dep EXCEPT ![e] = "joining"]
    /\ UNCHANGED <<dnet, confirmed>>

CallLeave(h, e) ==
    /\ dep[e] \in {"joined", "leaving"} /\ ~Serving("Leave", "ep", e)
    /\ Receive(h, LeaveOf(e))
    /\ dep' = [dep EXCEPT ![e] = "leaving"]
    /\ UNCHANGED <<dnet, confirmed>>

(* What an answer makes the daemon believe.  A deletion that fails can be  *)
(* tried again; an endpoint whose Leave fails is dropped all the same.     *)
Outcome(op, answer) ==
    CASE op = "CreateNetwork" -> IF answer = "ok" THEN "live" ELSE "failed"
      [] op = "DeleteNetwork" -> IF answer = "ok" THEN "gone" ELSE "deleting"
      [] op = "Join"          -> IF answer = "ok" THEN "joined" ELSE "failed"
      [] op = "Leave"         -> IF answer = "ok" THEN "left" ELSE "failed"

Confirm(x, h) ==
    confirmed' = IF pc[h] = "ok" /\ conn THEN confirmed \cup {x} ELSE confirmed \ {x}

Answered(h) ==
    /\ Return(h)
    /\ \/ pc[h] = "panic" /\ UNCHANGED dockerVars
       \/ /\ pc[h] # "panic" /\ req[h].op \in {"CreateNetwork", "DeleteNetwork"}
          /\ dnet' = [dnet EXCEPT ![req[h].net] = Outcome(req[h].op, pc[h])]
          /\ Confirm(req[h].net, h)
          /\ UNCHANGED dep
       \/ /\ pc[h] # "panic" /\ req[h].op \in {"Join", "Leave"}
          /\ dep' = [dep EXCEPT ![req[h].ep] = Outcome(req[h].op, pc[h])]
          /\ Confirm(req[h].ep, h)
          /\ UNCHANGED dnet

HostNext ==
    \/ \E h \in Handler :
          \/ \E n \in Network : CallCreate(h, n) \/ CallDelete(h, n)
          \/ \E e \in Endpoint : CallJoin(h, e) \/ CallLeave(h, e)
          \/ HandlerStep(h) /\ UNCHANGED dockerVars
          \/ Answered(h)
    \/ Environment /\ UNCHANGED dockerVars

HostSpec == HostInit /\ [][HostNext]_hostVars

-----------------------------------------------------------------------------
(* Properties *)

(* A network whose creation was answered "ok" and whose deletion was never *)
(* asked for is found by getBridgeNameByNetworkId, under the bridge its    *)
(* options name, across crashes and restarts of the plugin: d.networks is  *)
(* lost then, BridgeOpt is not.                                            *)
LiveNetworkResolves ==
    \A n \in Network : dnet[n] = "live" => BridgeNamesOf(n) = {Config[n].name}

(* An endpoint whose Join was answered "ok" while the connection to OVSDB  *)
(* was alive has its port on the bridge of its network, until it leaves.   *)
JoinedHasPort ==
    \A e \in Endpoint : (dep[e] = "joined" /\ e \in confirmed) =>
        \E p \in ports, r \in bridges :
            p.name = VethOf[e] /\ p.bridge = r.uuid /\ r.name = Config[NetOf[e]].name

(* An endpoint whose Leave was answered "ok" has no port in OVSDB, whether *)
(* or not the connection broke: deletePort reports missing replies.        *)
LeftIsDetached ==
    \A e \in Endpoint : dep[e] = "left" => ~PortExists(VethOf[e])

(* A network whose deletion was answered "ok" while the connection was     *)
(* alive has no BridgeOpt row, hence (RowsAgree) no bridge.                *)
DeletedIsGone ==
    \A n \in Network : (dnet[n] = "gone" /\ n \in confirmed) => BridgeNamesOf(n) = {}

(* Deleting a network that is no gateway never stops the gateway process:  *)
(* the service type that deleteBridge looks up by bridge name is that of   *)
(* the network whose deletion was asked for.                               *)
GatewayStopsForGatewayOnly ==
    [][(unit.active # Nil /\ unit'.active = Nil) =>
          \E h \in Handler : /\ pc[h] # "idle" /\ req[h].op = "DeleteNetwork"
                            /\ Config[req[h].net].type \in GatewayType]_hostVars

-----------------------------------------------------------------------------
(* The inductive invariants behind these properties *)

(* What the code does not see to: docker gives each network options that   *)
(* name a bridge of its own, and no two endpoint ids share the characters  *)
(* that name their ports.                                                  *)
BridgesApart == \A n, m \in Network : Config[n].name = Config[m].name => n = m
VethsApart == \A e, f \in Endpoint : VethOf[e] = VethOf[f] => e = f

(* Every request being served is the one request of its kind that docker   *)
(* waits for, and a plugin that does not run serves none.                  *)
Serves(h) ==
    \/ \E n \in Network : req[h] = CreateOf(n) /\ dnet[n] = "creating"
    \/ \E n \in Network : req[h] = DeleteOf(n) /\ dnet[n] = "deleting" /\ Unused(n)
    \/ \E e \in Endpoint : req[h] = JoinOf(e) /\ dep[e] = "joining"
    \/ \E e \in Endpoint : req[h] = LeaveOf(e) /\ dep[e] = "leaving"
ServesDocker ==
    /\ \A h \in Handler : pc[h] # "idle" => Serves(h)
    /\ \A g, h \in Handler : (pc[g] # "idle" /\ pc[h] # "idle" /\ req[g] = req[h]) => g = h
    /\ ~up => \A h \in Handler : pc[h] = "idle"

(* The map, the BridgeOpt rows and the handlers agree with the options the *)
(* network was created with, and every port is listed by a bridge.         *)
RowsFaithful ==
    /\ \A o \in opts : o.name = Config[o.network].name /\ o.type = Config[o.network].type
    /\ \A p \in ports : \E r \in bridges : r.uuid = p.bridge
Knows(h) ==
    /\ pc[h] \in NamedLabel => name[h] = Config[req[h].net].name
    /\ pc[h] \in CreateLabel \cap NamedLabel => type[h] = Config[req[h].net].type
    /\ pc[h] \in JoinLabel => req[h].op = "Join"
    /\ pc[h] \in LeaveLabel => req[h].op = "Leave"
    /\ pc[h] \notin StubLabel
Faithful ==
    /\ \A n \in Network : networks[n] \in {Nil, Config[n]}
    /\ RowsFaithful
    /\ \A h \in Handler : Knows(h)

HasBridge(n) == \E r \in bridges : r.name = Config[n].name
HasPort(e) == \E p \in ports, r \in bridges :
                 p.name = VethOf[e] /\ p.bridge = r.uuid /\ r.name = Config[NetOf[e]].name
Done(h, op) == pc[h] = "ok" /\ req[h].op = op

(* What a handler has brought about when it has reached a label *)
Created(h) == Done(h, "CreateNetwork") \/ pc[h] \in {"validateIface", "mode", "getIfaceAddr",
                "natOut", "interfaceUp", "writeUnit", "daemonReload", "startUnit", "enableUnit"}
Deleted(h) == Done(h, "DeleteNetwork") \/ pc[h] \in {"stopUnit", "disableUnit", "removeUnit", "forget"}
Joined(h) == Done(h, "Join") \/ pc[h] = "getIPByInterface"

CreatesDone == \A h \in Handler : Created(h) => HasBridge(req[h].net)
DeletesDone == \A h \in Handler : (Deleted(h) /\ conn) => BridgeNamesOf(req[h].net) = {}
JoinsDone ==
    \A h \in Handler : /\ pc[h] = "addOvsVethPort" => HasBridge(req[h].net)
                       /\ (Joined(h) /\ conn) => HasPort(req[h].ep)
LeavesDone == \A h \in Handler : Done(h, "Leave") => ~PortExists(VethOf[req[h].ep])

(* A handler that is to stop the gateway found a gateway's type, which is  *)
(* that of its own network.                                                *)
StopsOwn ==
    \A h \in Handler :
        /\ pc[h] \in {"idle", "DeleteNetwork", "getBridgeServiceType"} => type[h] = NoType
        /\ pc[h] \in {"getBridgeUUIDForName", "deleteBridge"} =>
              type[h] \in {NoType, Config[req[h].net].type}
        /\ pc[h] = "stopUnit" => Config[req[h].net].type \in GatewayType

HostInv ==
    /\ ServesDocker /\ Faithful
    /\ CreatesDone /\ DeletesDone /\ JoinsDone /\ LeavesDone /\ StopsOwn

-----------------------------------------------------------------------------
(* Claims of the repository that the code does not keep *)

(* deleteBridge logs "OVSDB delete bridge transaction succesful" and       *)
(* DeleteNetwork answers "ok": then the network's rows are gone.           *)
DeleteOkMeansDeleted ==
    \A n \in Network : dnet[n] = "gone" => BridgeNamesOf(n) = {}
=============================================================================
