---- MODULE NetlinkAttrs ----
(* What LinkAdd, AddrAdd, RouteAdd and NeighAdd say of an object in attributes, and what
   linkDeserialize, AddrList, deserializeRoute and NeighDeserialize read from the
   attributes the kernel reports. Attributes are a function from their names; the
   bytes are the matter of RtAttr. The kernel (external) keeps what it was told and
   reports its defaults for the rest. Addresses are "v4", "v6" or "none". *)
EXTENDS Naturals, Integers, Sequences, FiniteSets, TLC, Functions

VARIABLES obj,    \* the object given to an operation: [what, ...]
          sent,   \* the attributes of the request, or an error
          got     \* the object read back

vars == <<obj, sent, got>>
None == [what |-> "none"]

Only(S, f) == [x \in S |-> f[x]]
From(attrs, name, default) == IF name \in DOMAIN attrs THEN attrs[name] ELSE default

----------------------------------------------------------------------------
(* Links *)

VxlanBools == {"Learning", "Proxy", "RSC", "L2miss", "L3miss"}
VxlanNums == {"VtepDevIndex", "SrcAddr", "Group", "GBP", "Limit", "Port"}    \* sent unless zero
Width == [f \in {"TTL", "TOS"} |-> 256] @@ [f \in {"Port", "PortLow", "PortHigh"} |-> 65536]

AgeAlways(v) == v.Age       \* mutant: forgets that no ageing is said by 0
Ageing(v) == IF v.NoAge THEN 0 ELSE v.Age

addVxlanAttrs(v) ==
    Only({"VxlanId"} \cup VxlanBools, v)
    @@ [f \in {"TTL", "TOS"} |-> v[f] % Width[f]]
    @@ Only({f \in VxlanNums \ {"Port", "SrcAddr", "Group", "GBP"} : v[f] > 0}, v)
    @@ Only({f \in {"SrcAddr", "Group"} : v[f] # "none"}, v)
    @@ (IF v.GBP THEN "GBP" :> TRUE ELSE <<>>)
    @@ (IF v.NoAge \/ v.Age > 0 THEN "AGEING" :> Ageing(v) ELSE <<>>)
    @@ (IF v.Port > 0 THEN "Port" :> v.Port % 65536 ELSE <<>>)
    @@ (IF v.PortLow > 0 \/ v.PortHigh > 0
        THEN "PORT_RANGE" :> <<v.PortLow % 65536, v.PortHigh % 65536>> ELSE <<>>)

VxlanDefaults ==
    [AGEING |-> 300, Limit |-> 0, Port |-> 8472, PORT_RANGE |-> <<0, 0>>, VtepDevIndex |-> 0,
     SrcAddr |-> "none", Group |-> "none", GBP |-> FALSE]

(* The port range is kept only if binary.Read fails, which it never does. *)
ReadsWell == FALSE
parseVxlanData(d) ==
    Only({"VxlanId", "TTL", "TOS"} \cup VxlanBools \cup VxlanNums, d)
    @@ [Age |-> d.AGEING, NoAge |-> d.AGEING = 0,
        PortLow |-> IF ReadsWell THEN d.PORT_RANGE[1] ELSE 0,
        PortHigh |-> IF ReadsWell THEN d.PORT_RANGE[2] ELSE 0]

(* macvlanModes and its inverse: the kernel's modes are bits. *)
macvlanModes == <<1, 2, 4, 8, 16>>
MacvlanMode(bits) == IF bits \in Range(macvlanModes) THEN Inverse(macvlanModes, DOMAIN macvlanModes, Range(macvlanModes))[bits] ELSE 0

(* The data of each type of link; *Macvtap is not *Macvlan, so it sends none. *)
LinkInfoData(l) ==
    CASE l.type = "vlan" -> "VLAN_ID" :> l.VlanId % 65536
      [] l.type = "veth" -> "PEER" :> l.PeerName
      [] l.type = "vxlan" -> addVxlanAttrs(l.vxlan)
      [] l.type = "ipvlan" -> "IPVLAN_MODE" :> l.Mode
      [] l.type = "macvlan" /\ l.Mode # 0 -> "MACVLAN_MODE" :> macvlanModes[l.Mode]
      [] OTHER -> <<>>

SendsTxQLen(n) == n >= 0

LinkAttrs(l) ==
    IF l.type = "ipvlan" /\ l.ParentIndex = 0 THEN [err |-> "no parent"]
    ELSE [err |-> "nil", IFNAME |-> l.Name, KIND |-> l.type, DATA |-> LinkInfoData(l)]
         @@ (IF l.ParentIndex # 0 THEN "LINK" :> l.ParentIndex ELSE <<>>)
         @@ (IF l.MTU > 0 THEN "MTU" :> l.MTU ELSE <<>>)
         @@ (IF SendsTxQLen(l.TxQLen) THEN "TXQLEN" :> l.TxQLen ELSE <<>>)

KernelData(type, d) ==
    CASE type = "vxlan" -> d @@ VxlanDefaults
      [] type \in {"macvlan", "macvtap"} -> d @@ [MACVLAN_MODE |-> 2]
      [] type = "veth" -> <<>>
      [] OTHER -> d
KernelLink(a) == [a EXCEPT !.DATA = KernelData(a.KIND, a.DATA)] @@ [MTU |-> 1500, TXQLEN |-> 1000, LINK |-> 0]

parseLinkData(type, d) ==
    CASE type = "vlan" -> [VlanId |-> d.VLAN_ID]
      [] type = "vxlan" -> [vxlan |-> parseVxlanData(d)]
      [] type = "ipvlan" -> [Mode |-> d.IPVLAN_MODE]
      [] type \in {"macvlan", "macvtap"} -> [Mode |-> MacvlanMode(d.MACVLAN_MODE)]
      [] OTHER -> <<>>

linkDeserialize(a) ==
    [what |-> "link", type |-> a.KIND, Name |-> a.IFNAME, MTU |-> a.MTU, TxQLen |-> a.TXQLEN,
     ParentIndex |-> a.LINK] @@ parseLinkData(a.KIND, a.DATA)

----------------------------------------------------------------------------
(* Addresses, routes and neighbours *)

addrAttrs(a) == [LOCAL |-> a.IP, ADDRESS |-> a.IP, Prefixlen |-> a.Prefixlen, LABEL |-> a.Label]
AddrAttrs(a) ==
    IF a.Label # "none" /\ ~a.LabelHasName THEN [err |-> "label"]
    ELSE [err |-> "nil", LabelHasName |-> a.LabelHasName] @@ addrAttrs(a)

(* IPv6 addresses are reported without IFA_LOCAL. *)
KernelAddr(a) == Only(DOMAIN a \ (IF a.ADDRESS = "v6" THEN {"LOCAL"} ELSE {}), a)
addrDeserialize(a) ==
    [what |-> "addr", IP |-> From(a, "LOCAL", a.ADDRESS), Prefixlen |-> a.Prefixlen,
     Label |-> a.LABEL, LabelHasName |-> a.LabelHasName]

(* GetIPFamily of the addresses a route has; two of different families are refused. *)
Families(r) == {r[f] : f \in {"Dst", "Src", "Gw"}} \ {"none"}
OneFamily(fs) == Cardinality(fs) = 1

routeHandle(r) ==
    IF Families(r) = {} THEN [err |-> "nothing given"]
    ELSE IF ~OneFamily(Families(r)) THEN [err |-> "family"]
    ELSE [err |-> "nil", Family |-> CHOOSE f \in Families(r) : TRUE, OIF |-> r.LinkIndex, Scope |-> r.Scope]
         @@ Only({f \in {"Dst", "Src", "Gw"} : r[f] # "none"}, r)

(* The kernel refuses a route that is not of its family, or leads nowhere. *)
KernelRefusesRoute(a) == \E f \in DOMAIN a \cap {"Dst", "Src", "Gw"} : a[f] # a.Family
deserializeRoute(a) ==
    [what |-> "route", LinkIndex |-> a.OIF, Scope |-> a.Scope, Dst |-> From(a, "Dst", "none"),
     Src |-> From(a, "Src", "none"), Gw |-> From(a, "Gw", "none")]

Family4Or6(n) == IF n.Family # "none" THEN n.Family ELSE n.IP
neighHandle(n) ==
    [err |-> "nil", Family |-> Family4Or6(n), Index |-> n.LinkIndex, State |-> n.State, DST |-> n.IP, LLADDR |-> n.HardwareAddr]
NeighDeserialize(a) ==
    [what |-> "neigh", LinkIndex |-> a.Index, Family |-> a.Family, State |-> a.State, IP |-> a.DST, HardwareAddr |-> a.LLADDR]

----------------------------------------------------------------------------
(* The objects tried: for a Vxlan every pair of fields with every pair of values. *)
Addresses == {"none", "v4", "v6"}
Plain ==
    [f \in VxlanBools \cup {"GBP", "NoAge"} |-> FALSE] @@ [f \in {"SrcAddr", "Group"} |-> "none"]
    @@ [f \in {"VxlanId", "VtepDevIndex", "TTL", "TOS", "Age", "Limit", "Port", "PortLow", "PortHigh"} |-> 0]
Values ==
    [f \in VxlanBools \cup {"GBP", "NoAge"} |-> {TRUE}] @@ [f \in {"SrcAddr", "Group"} |-> {"v4", "v6"}]
    @@ [f \in {"TTL", "TOS"} |-> {1, 255}] @@ [f \in {"VxlanId", "VtepDevIndex", "Limit"} |-> {7}]
    @@ [f \in {"Port", "PortLow", "PortHigh"} |-> {1, 65535}] @@ [Age |-> {1, 300}]
TwoFields == UNION {UNION {{[Plain EXCEPT ![f] = x, ![g] = y] : y \in Values[g]} : x \in Values[f]} :
                       <<f, g>> \in (DOMAIN Plain) \X (DOMAIN Plain)}

Extra(type) ==
    CASE type = "vlan" -> [VlanId : {0, 1, 4094}]
      [] type = "veth" -> [PeerName : {"peer"}]
      [] type = "vxlan" -> [vxlan : TwoFields]
      [] type \in {"ipvlan"} -> [Mode : 0..1]
      [] type \in {"macvlan", "macvtap"} -> [Mode : 0..5]
      [] OTHER -> {<<>>}
LinkTypes == {"dummy", "ifb", "bridge", "vlan", "veth", "vxlan", "ipvlan", "macvlan", "macvtap"}
Links ==
    UNION {{[what |-> "link", type |-> t, Name |-> "l", MTU |-> m, TxQLen |-> q, ParentIndex |-> i] @@ x :
              <<m, q, i, x>> \in {0, 1400} \X {-1, 0, 500} \X {0, 2} \X Extra(t)} : t \in LinkTypes}
Addrs == [what : {"addr"}, IP : {"v4", "v6"}, Prefixlen : {0, 24}, Label : {"none", "label"}, LabelHasName : BOOLEAN]
Routes == [what : {"route"}, LinkIndex : {0, 2}, Scope : {0, 253}, Dst : Addresses, Src : Addresses, Gw : Addresses]
Neighs == [what : {"neigh"}, LinkIndex : {2}, Family : Addresses, State : {0, 128}, IP : {"v4", "v6"}, HardwareAddr : {"mac"}]

Init ==
    /\ obj \in Links \cup Addrs \cup Routes \cup Neighs
    /\ sent = None
    /\ got = None

Send ==
    /\ sent = None
    /\ sent' = [what |-> obj.what] @@ (CASE obj.what = "link" -> LinkAttrs(obj)
                                        [] obj.what = "addr" -> AddrAttrs(obj)
                                        [] obj.what = "route" -> routeHandle(obj)
                                        [] obj.what = "neigh" -> neighHandle(obj))
    /\ UNCHANGED <<obj, got>>

Report ==
    /\ sent # None /\ got = None /\ sent.err = "nil"
    /\ ~(sent.what = "route" /\ KernelRefusesRoute(sent))
    /\ got' = CASE sent.what = "link" -> linkDeserialize(KernelLink(sent))
               [] sent.what = "addr" -> addrDeserialize(KernelAddr(sent))
               [] sent.what = "route" -> deserializeRoute(sent)
               [] sent.what = "neigh" -> NeighDeserialize(sent)
    /\ UNCHANGED <<obj, sent>>

Next == Send \/ Report
Spec == Init /\ [][Next]_vars

Read(what) == got # None /\ obj.what = what

LinkComesBack ==
    Read("link") =>
        /\ <<got.type, got.Name, got.ParentIndex>> = <<obj.type, obj.Name, obj.ParentIndex>>
        /\ obj.MTU > 0 => got.MTU = obj.MTU
        /\ obj.TxQLen >= 0 => got.TxQLen = obj.TxQLen
        /\ obj.type = "vlan" => got.VlanId = obj.VlanId
        /\ obj.type = "ipvlan" => got.Mode = obj.Mode
        /\ obj.type = "macvlan" /\ obj.Mode # 0 => got.Mode = obj.Mode
VxlanComesBack ==
    Read("link") /\ obj.type = "vxlan" =>
        LET v == obj.vxlan  w == got.vxlan IN
        /\ \A f \in VxlanBools \cup {"GBP", "NoAge", "SrcAddr", "Group", "TTL", "TOS", "VxlanId", "VtepDevIndex", "Limit"} :
              v[f] = w[f]
        /\ v.Port > 0 => w.Port = v.Port
        /\ v.Age > 0 /\ ~v.NoAge => w.Age = v.Age
NeighComesBack ==
    Read("neigh") => /\ [got EXCEPT !.Family = obj.Family] = obj
                     /\ got.Family = IF obj.Family = "none" THEN obj.IP ELSE obj.Family

(* What was added is listed as it was given, for every type of link and both families of
   addresses: a value that was set comes back, ageing that was turned off stays off, whichever
   attributes the kernel reports. A route goes to the kernel only if it is of one family. Left
   out are the ports of a Vxlan's range and the mode of a macvtap, which the code does not
   carry over. *)
ObjectsComeBack ==
    /\ LinkComesBack /\ VxlanComesBack /\ NeighComesBack
    /\ Read("addr") \/ Read("route") => got = obj
    /\ sent # None /\ obj.what = "route" =>
          (sent.err = "nil") = (Families(obj) \in {{"v4"}, {"v6"}})
====
