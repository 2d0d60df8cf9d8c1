---- MODULE NetworkOptions ----
(* What CreateNetwork makes of a request: the options, the gateway and the names of the
   bridge, as the NetworkState it keeps. Values come out of JSON: numbers
   are float64, never int. What initBridge does is the matter
   of OvsDriver; here it succeeds or fails. *)
EXTENDS Naturals, Sequences, FiniteSets, TLC

CONSTANTS Ids,          \* network ids: <<first five characters, the rest>>
          Varied,       \* options the user sets in this instance
          MaxNetworks

VARIABLES networks,    \* d.networks: id |-> NetworkState
          last         \* <<outcome, id, IPv4 gateway>> of the last request

vars == <<networks, last>>

(* A JSON value has a type. *)
Str(v) == [t |-> "string", v |-> v]
Num(v) == [t |-> "float64", v |-> v]
Absent == [t |-> "absent", v |-> ""]
Option(m, key) == IF key \in DOMAIN m THEN m[key] ELSE Absent
As(type, x, default) == IF x.t = type THEN x.v ELSE default

defaultMTU == "1500"
defaultMode == "nat"
validModes == {"nat", "flat"}
bridgePrefix == "ovsbr"
type_sgw == {"sgw", "SGW"}     \* strings.EqualFold
type_pgw == {"pgw", "PGW"}

----------------------------------------------------------------------------
(* Requests. docker puts the options of the user under com.docker.network.generic; another
   client may put them at the top. *)
MayBe(key, values) == {Absent} \cup (IF key \in Varied THEN values ELSE {})
Wishes ==
    [mtu : MayBe("mtu", {Num("9000")}), mode : MayBe("mode", {Str("flat"), Str("vlan")}), name : MayBe("name", {Str("br1")}),
     bind_interface : MayBe("bind_interface", {Str("eth1")}), type : MayBe("type", {Str("sgw"), Str("SGW")}),
     network_name : MayBe("network_name", {Str("prod"), Str("ovsbr")})]
Pools == {<<>>, <<"">>, <<"10.0.0.1/8">>}
Pools6 == {<<>>, <<"fe80::1/64">>}
Request(id, wish, way, v4, v6) ==
    [id |-> id, way |-> way, wish |-> wish, v4 |-> v4, v6 |-> v6,
     top |-> IF way = "top" THEN wish ELSE <<>>, generic |-> IF way = "generic" THEN wish ELSE <<>>]

truncateID(id) == id[1]
getBridgeMTU(r) == As("int", Option(r.top, "mtu"), defaultMTU)
getBridgeMode(r) == As("string", Option(r.top, "mode"), defaultMode)
isValid(mode) == mode \in validModes

(* getGatewayIP: the first pool of either family; IPv4 wins. An address is <<ip, mask>>. *)
SplitGateway(g) == IF g = "10.0.0.1/8" THEN <<"10.0.0.1", "8">> ELSE <<"fe80::1", "64">>
GatewayOf(pool) == IF pool = <<>> THEN "" ELSE pool[1]
gatewayIP(r) == IF GatewayOf(r.v4) # "" THEN GatewayOf(r.v4) ELSE GatewayOf(r.v6)

Generic(r, key) == As("string", Option(r.generic, key), "")
getBindInterface(r) == Generic(r, "bind_interface")
getNetworkName(r) == Generic(r, "network_name")
getNetworkType(r) == Generic(r, "type")

(* The name of the bridge, as the strings it is put together from. *)
NameAlone(r, networkname) == <<networkname>>      \* mutant
DefaultName(r, networkname) == <<IF networkname = "" THEN bridgePrefix ELSE networkname, "-", truncateID(r.id)>>
getBridgeName(r, networkname) ==
    LET name == Option(r.top, "name") IN
    IF name.t = "string" THEN <<name.v>> ELSE DefaultName(r, networkname)

IsGateway(t) == t \in type_sgw \cup type_pgw
checkExecutable(networkType, networkName) == IsGateway(networkType) => networkName # ""

----------------------------------------------------------------------------
NetworkState(r) ==
    [BridgeName |-> getBridgeName(r, getNetworkName(r)), MTU |-> getBridgeMTU(r), Mode |-> getBridgeMode(r),
     Gateway |-> SplitGateway(gatewayIP(r))[1], GatewayMask |-> SplitGateway(gatewayIP(r))[2],
     FlatBindInterface |-> getBindInterface(r), NetworkType |-> getNetworkType(r), NetworkName |-> getNetworkName(r)]

Ok(r) ==
    /\ isValid(getBridgeMode(r))
    /\ gatewayIP(r) # ""
    /\ checkExecutable(getNetworkType(r), getNetworkName(r))

(* docker gives every network an id of its own. served: initBridge returned no error. *)
CreateNetwork(r, served) ==
    /\ Cardinality(DOMAIN networks) < MaxNetworks /\ r.id \notin DOMAIN networks
    /\ networks' = IF Ok(r) /\ served THEN (r.id :> NetworkState(r)) @@ networks ELSE networks
    /\ last' = <<IF Ok(r) /\ served THEN "ok" ELSE "err", r.id, GatewayOf(r.v4)>>

Init == networks = <<>> /\ last = <<"none", <<>>, "">>
Next ==
    \E id \in Ids, wish \in Wishes, way \in {"top", "generic"}, v4 \in Pools, v6 \in Pools6, served \in BOOLEAN :
        CreateNetwork(Request(id, wish, way, v4, v6), served)
Spec == Init /\ [][Next]_vars

----------------------------------------------------------------------------
AskedNames == {<<"br1">>}     \* what Wishes asks for as the name of a bridge

(* What CreateNetwork keeps can be served. Two networks share a bridge only if their ids
   agree in the first five characters, whatever the networks are called, or if getBridgeName
   was given the name of the bridge. "options must specify network name for sgw or pgw type",
   however the type is written. Where docker gives gateways of both families getGatewayIP keeps
   that of IPv4, the only family getIfaceAddr finds on the bridge; and the mode is one that
   initBridge knows. *)
Served ==
    /\ \A i, j \in DOMAIN networks :
          networks[i].BridgeName = networks[j].BridgeName =>
              truncateID(i) = truncateID(j) \/ networks[i].BridgeName \in AskedNames
    /\ \A i \in DOMAIN networks :
          /\ networks[i].NetworkType \in type_sgw \cup type_pgw => networks[i].NetworkName # ""
          /\ networks[i].Mode \in validModes
    /\ last[1] = "ok" /\ last[3] # "" => networks[last[2]].Gateway = "10.0.0.1"
====
