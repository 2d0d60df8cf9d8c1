------------------------------- MODULE Ovsdb -------------------------------
(***************************************************************************)
(* The Open vSwitch database as the plugin uses it.                        *)
(*                                                                         *)
(* ovsdb-server is not part of the repository.  What is modelled of it is  *)
(* what the plugin's transactions rely on: a transaction is atomic; Port   *)
(* (with its Interface) and Bridge are indexed by name, so an insert of a  *)
(* name in use fails the whole transaction; a row that is still referenced *)
(* cannot be deleted (referential integrity); a Bridge no longer in        *)
(* Open_vSwitch.bridges, and a Port no longer in the ports of a Bridge,    *)
(* are garbage collected; every committed change is sent to the plugin,    *)
(* which monitors all tables, as one update notification.                  *)
(*                                                                         *)
(* BridgeOpt is the table the plugin adds to the schema to remember which  *)
(* network a bridge belongs to.  It has no index and no references.        *)
(***************************************************************************)
EXTENDS Naturals

CONSTANTS
    BridgeName,     \* names of bridges (and of their internal ports)
    VethName,       \* names of the veth ports of endpoints
    Network,        \* network ids
    ServiceType,    \* values of linker.net.ovs.bridge.type
    Faults          \* what may happen to the plugin: "disconnect", "crash"

(* "ovsbr-..." (or the user's name) and "ovs-veth0-..." never coincide. *)
ASSUME NamesDisjoint == BridgeName \cap VethName = {}

VARIABLES
    bridges,        \* rows of table Bridge
    ports,          \* rows of table Port; "bridge" is the row that lists it
    opts,           \* rows of table BridgeOpt
    nextUuid,       \* row uuids are never used twice
    conn,           \* the plugin's connection to ovsdb-server is alive
    notifs          \* update notifications not yet applied to the cache

dbVars == <<bridges, ports, opts, nextUuid>>
ovsdbVars == <<bridges, ports, opts, nextUuid, conn, notifs>>

PortName == BridgeName \cup VethName
BridgeRow == [uuid : Nat, name : BridgeName]
PortRow == [uuid : Nat, name : PortName, bridge : Nat]
OptRow == [name : BridgeName, network : Network, type : ServiceType]

(* What the plugin keeps of a row in its cache. *)
CacheRow == [table : {"Bridge", "Port"}, uuid : Nat, name : PortName]
Update == [new : SUBSET CacheRow, gone : SUBSET CacheRow]

BridgeRows(B) == {[table |-> "Bridge", uuid |-> r.uuid, name |-> r.name] : r \in B}
PortRows(P) == {[table |-> "Port", uuid |-> r.uuid, name |-> r.name] : r \in P}
RowsOf(B, P) == BridgeRows(B) \cup PortRows(P)

OvsdbTypeOK ==
    /\ bridges \subseteq BridgeRow
    /\ ports \subseteq PortRow
    /\ opts \subseteq OptRow
    /\ nextUuid \in Nat
    /\ conn \in BOOLEAN
    /\ notifs \subseteq Update

OvsdbInit ==
    /\ bridges = {} /\ ports = {} /\ opts = {}
    /\ nextUuid = 0
    /\ conn = TRUE
    /\ notifs = {}

-----------------------------------------------------------------------------
(* The outcome the plugin sees of one Transact call: all operations        *)
(* answered without error, an error in some operation, or too few replies  *)
(* because the connection broke.                                           *)
Reply == {"ok", "error", "none"}

(* The notification of a commit: rows that are new or modified, rows gone. *)
UpdateOf(B, P, touched) ==
    [new  |-> (RowsOf(B, P) \ RowsOf(bridges, ports)) \cup BridgeRows(touched),
     gone |-> RowsOf(bridges, ports) \ RowsOf(B, P)]

(* A transaction that the server accepts iff ok, leaving the tables B, P,  *)
(* O, modifying the Bridge rows touched and using up some fresh uuids.     *)
(* When the connection breaks while the call is pending the transaction    *)
(* may have been committed, and its notification may or may not have been  *)
(* read.                                                                   *)
Transact(ok, B, P, O, touched, fresh, rep) ==
    /\ conn' = (rep # "none")
    /\ (conn /\ rep = "none") => "disconnect" \in Faults
    /\ \/ /\ conn /\ ok /\ rep \in {"ok", "none"}
          /\ bridges' = B /\ ports' = P /\ opts' = O
          /\ nextUuid' = nextUuid + fresh
          /\ LET u == UpdateOf(B, P, touched) IN
                \/ notifs' = IF u.new \cup u.gone = {} THEN notifs ELSE notifs \cup {u}
                \/ rep = "none" /\ notifs' = notifs
       \/ /\ ~(conn /\ ok) /\ rep \in {"error", "none"}
          /\ rep = "error" => conn
          /\ UNCHANGED <<dbVars, notifs>>

(* portExists *)
PortExists(name) == \E p \in ports : p.name = name

(* getBridgeNameByNetworkId: the rows the select can return *)
BridgeNamesOf(net) == {o.name : o \in {q \in opts : q.network = net}}

(* getBridgeServiceType: the rows the select can return *)
ServiceTypesOf(name) == {o.type : o \in {q \in opts : q.name = name}}

(* Mutant: the bridge is inserted without its internal port. *)
createOvsdbBridgeNoPort(name, type, net, rep) ==
    Transact(~PortExists(name) /\ \A r \in bridges : r.name # name,
             bridges \cup {[uuid |-> nextUuid, name |-> name]},
             ports,
             opts \cup {[name |-> name, network |-> net, type |-> type]},
             {}, 2, rep)

(* Mutant: no BridgeOpt row is inserted. *)
createOvsdbBridgeNoOpt(name, type, net, rep) ==
    Transact(~PortExists(name) /\ \A r \in bridges : r.name # name,
             bridges \cup {[uuid |-> nextUuid, name |-> name]},
             ports \cup {[uuid |-> nextUuid + 1, name |-> name, bridge |-> nextUuid]},
             opts,
             {}, 2, rep)

(* Insert Interface, Port, Bridge and BridgeOpt, and add the bridge to the *)
(* root row, in one transaction.                                           *)
createOvsdbBridge(name, type, net, rep) ==
    Transact(~PortExists(name) /\ \A r \in bridges : r.name # name,
             bridges \cup {[uuid |-> nextUuid, name |-> name]},
             ports \cup {[uuid |-> nextUuid + 1, name |-> name, bridge |-> nextUuid]},
             opts \cup {[name |-> name, network |-> net, type |-> type]},
             {}, 2, rep)

(* Mutant: the BridgeOpt row is left behind. *)
deleteBridgeRowsKeepingOpt(name, uuid, rep) ==
    LET left == {r \in bridges : r.name # name /\ r.uuid # uuid}
    IN  Transact(\A r \in bridges : r.name = name => r.uuid = uuid,
                 left,
                 {p \in ports : \E r \in left : r.uuid = p.bridge},
                 opts,
                 {}, 0, rep)

(* Delete the Bridge and the BridgeOpt rows of a name and take uuid out of *)
(* Open_vSwitch.bridges.  A row of that name under another uuid is still   *)
(* listed there, which the server refuses.                                 *)
deleteBridgeRows(name, uuid, rep) ==
    LET left == {r \in bridges : r.name # name /\ r.uuid # uuid}
    IN  Transact(\A r \in bridges : r.name = name => r.uuid = uuid,
                 left,
                 {p \in ports : \E r \in left : r.uuid = p.bridge},
                 {o \in opts : o.name # name},
                 {}, 0, rep)

(* Mutant: the port is inserted but not listed in the bridge. *)
addOvsVethPortUnlisted(bridge, port, rep) ==
    Transact(~PortExists(port), bridges, ports, opts, {}, 1, rep)

(* Insert Interface and Port and list the port in the bridge of that name. *)
(* When there is no such bridge the mutation matches no row, which is no   *)
(* error, and the new port is collected at once.                           *)
addOvsVethPort(bridge, port, rep) ==
    LET owners == {r \in bridges : r.name = bridge}
    IN  Transact(~PortExists(port),
                 bridges,
                 ports \cup {[uuid |-> nextUuid, name |-> port, bridge |-> r.uuid] : r \in owners},
                 opts,
                 owners, 1, rep)

(* Delete the Port of a name and take uuid out of the ports of the bridge. *)
(* A port of that name that is still listed somewhere makes it fail.       *)
deletePortRows(bridge, port, uuid, rep) ==
    LET Unlisted(p) == p.uuid = uuid /\ \E r \in bridges : r.name = bridge /\ r.uuid = p.bridge
    IN  Transact(\A p \in ports : p.name = port => Unlisted(p),
                 bridges,
                 {p \in ports : p.name # port /\ ~Unlisted(p)},
                 opts,
                 {r \in bridges : r.name = bridge /\ \E p \in ports : p.bridge = r.uuid /\ Unlisted(p)},
                 0, rep)

(* The connection breaks: ovsdb-server restarts or the socket is closed.   *)
(* The plugin's Disconnected callback does nothing and nobody reconnects.  *)
Disconnect ==
    /\ conn /\ "disconnect" \in Faults
    /\ conn' = FALSE
    /\ UNCHANGED <<dbVars, notifs>>
=============================================================================
