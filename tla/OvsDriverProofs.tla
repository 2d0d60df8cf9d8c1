-------------------------- MODULE OvsDriverProofs --------------------------
(* Proofs about OvsDriver. *)
EXTENDS OvsDriver, TLAPS

(* What LocalOK asks for, label by label. *)
LEMMA LocalAt ==
  ASSUME NEW r, NEW b, NEW u
  PROVE  /\ \A l \in Answer \cup StubLabel \cup {"idle"} : LocalOK(l, r, b, u)
         /\ \A l \in {"CreateNetwork", "initBridge"} : LocalOK(l, r, b, u) <=> r \in CreateRequest
         /\ \A l \in CreateLabel \ {"CreateNetwork", "initBridge"} :
              LocalOK(l, r, b, u) <=> r \in CreateRequest /\ b \in BridgeName
         /\ LocalOK("DeleteNetwork", r, b, u) <=> r \in DeleteRequest
         /\ \A l \in DeleteLabel \ {"DeleteNetwork", "deleteBridge"} :
              LocalOK(l, r, b, u) <=> r \in DeleteRequest /\ b \in BridgeName
         /\ LocalOK("deleteBridge", r, b, u) <=> r \in DeleteRequest /\ b \in BridgeName /\ u \in Nat
         /\ \A l \in {"Join", "linkSetUp", "bridgeForJoin", "Leave", "bridgeForLeave"} :
              LocalOK(l, r, b, u) <=> r \in PortRequest
         /\ \A l \in {"addOvsVethPort", "getIPByInterface", "portUUIDForName"} :
              LocalOK(l, r, b, u) <=> r \in PortRequest /\ b \in BridgeName
         /\ LocalOK("deletePort", r, b, u) <=> r \in PortRequest /\ b \in BridgeName /\ u \in Nat
<1> USE DEF LocalOK, CreateLabel, DeleteLabel, JoinLabel, LeaveLabel, StubLabel, NamedLabel, Answer
<1>1. \A l \in Answer \cup StubLabel \cup {"idle"} : LocalOK(l, r, b, u)
  OBVIOUS
<1>2. \A l \in {"CreateNetwork", "initBridge"} : LocalOK(l, r, b, u) <=> r \in CreateRequest
  OBVIOUS
<1>3. \A l \in CreateLabel \ {"CreateNetwork", "initBridge"} :
        LocalOK(l, r, b, u) <=> r \in CreateRequest /\ b \in BridgeName
  OBVIOUS
<1>4. LocalOK("DeleteNetwork", r, b, u) <=> r \in DeleteRequest
  OBVIOUS
<1>5. \A l \in DeleteLabel \ {"DeleteNetwork", "deleteBridge"} :
        LocalOK(l, r, b, u) <=> r \in DeleteRequest /\ b \in BridgeName
  OBVIOUS
<1>6. LocalOK("deleteBridge", r, b, u) <=> r \in DeleteRequest /\ b \in BridgeName /\ u \in Nat
  OBVIOUS
<1>7. \A l \in {"Join", "linkSetUp", "bridgeForJoin", "Leave", "bridgeForLeave"} :
        LocalOK(l, r, b, u) <=> r \in PortRequest
  OBVIOUS
<1>8. \A l \in {"addOvsVethPort", "getIPByInterface", "portUUIDForName"} :
        LocalOK(l, r, b, u) <=> r \in PortRequest /\ b \in BridgeName
  OBVIOUS
<1>9. LocalOK("deletePort", r, b, u) <=> r \in PortRequest /\ b \in BridgeName /\ u \in Nat
  OBVIOUS
<1> HIDE DEF LocalOK, CreateLabel, DeleteLabel, JoinLabel, LeaveLabel, StubLabel, NamedLabel, Answer
<1> QED BY <1>1, <1>2, <1>3, <1>4, <1>5, <1>6, <1>7, <1>8, <1>9

-----------------------------------------------------------------------------
(* Type correctness *)

(* A handler that moves to a label where its locals are in order. *)
LEMMA HandlerMoves ==
  ASSUME HandlersTypeOK, LocalsOK, NEW h \in Handler, NEW l \in Label,
         NEW b \in BridgeName \cup {Nil}, NEW u \in Nat \cup {Nil},
         Goto(h, l), UNCHANGED <<req, type, tries>>,
         name' = [name EXCEPT ![h] = b], uuid' = [uuid EXCEPT ![h] = u],
         LocalOK(l, req[h], b, u)
  PROVE  HandlersTypeOK' /\ LocalsOK'
<1>1. HandlersTypeOK'
  BY DEF HandlersTypeOK, Goto
<1>2. ASSUME NEW g \in Handler
      PROVE  LocalOK(pc'[g], req'[g], name'[g], uuid'[g])
  BY DEF LocalsOK, HandlersTypeOK, Goto
<1> QED BY <1>1, <1>2 DEF LocalsOK

LEMMA HandlerGoes ==
  ASSUME HandlersTypeOK, LocalsOK, NEW h \in Handler, NEW l \in Label,
         Goto(h, l), UNCHANGED <<req, name, uuid, type, tries>>,
         LocalOK(l, req[h], name[h], uuid[h])
  PROVE  HandlersTypeOK' /\ LocalsOK'
<1>1. /\ name' = [name EXCEPT ![h] = name[h]] /\ name[h] \in BridgeName \cup {Nil}
      /\ uuid' = [uuid EXCEPT ![h] = uuid[h]] /\ uuid[h] \in Nat \cup {Nil}
  BY DEF HandlersTypeOK
<1> QED BY <1>1, HandlerMoves, Zenon

(* Groups of variables that a step leaves alone keep their types. *)
LEMMA Unchanged ==
  /\ OvsdbTypeOK /\ UNCHANGED ovsdbVars => OvsdbTypeOK'
  /\ PluginTypeOK /\ UNCHANGED pluginVars => PluginTypeOK'
  /\ KernelTypeOK /\ UNCHANGED kernelVars => KernelTypeOK'
  /\ UnitTypeOK(Command) /\ UNCHANGED unit => UnitTypeOK(Command)'
BY DEF OvsdbTypeOK, ovsdbVars, dbVars, PluginTypeOK, pluginVars, KernelTypeOK, kernelVars, UnitTypeOK

LEMMA ExitType ==
  ASSUME TypeOK, Exit
  PROVE  TypeOK' /\ LocalsOK'
<1>1. OvsdbTypeOK' /\ PluginTypeOK' /\ KernelTypeOK' /\ UnitTypeOK(Command)'
  BY Unchanged, Zenon DEF Exit, TypeOK, OvsdbTypeOK, dbVars, PluginTypeOK
<1>2. HandlersTypeOK'
  BY ServiceTypes, LinkRetriesType DEF Exit, HandlersTypeOK, Label
<1>3. LocalsOK'
  BY LocalAt, Zenon DEF Exit, LocalsOK
<1> QED BY <1>1, <1>2, <1>3 DEF TypeOK

(* A transaction between well-typed tables keeps the database well typed. *)
LEMMA TransactType ==
  ASSUME OvsdbTypeOK, NEW ok, NEW B \in SUBSET BridgeRow, NEW P \in SUBSET PortRow,
         NEW O \in SUBSET OptRow, NEW touched \in SUBSET BridgeRow,
         NEW fresh \in Nat, NEW rep, Transact(ok, B, P, O, touched, fresh, rep)
  PROVE  OvsdbTypeOK'
<1>1. \A BB \in SUBSET BridgeRow, PP \in SUBSET PortRow : RowsOf(BB, PP) \subseteq CacheRow
  BY DEF RowsOf, BridgeRows, PortRows, BridgeRow, PortRow, CacheRow, PortName
<1>2. BridgeRows(touched) \subseteq CacheRow
  BY DEF BridgeRows, BridgeRow, CacheRow, PortName
<1>3. UpdateOf(B, P, touched) \in Update
  BY <1>1, <1>2 DEF UpdateOf, Update, OvsdbTypeOK
<1> QED BY <1>3 DEF Transact, OvsdbTypeOK, dbVars

LEMMA CreateBridgeType ==
  ASSUME OvsdbTypeOK, NEW b \in BridgeName, NEW t \in ServiceType, NEW n \in Network,
         NEW rep, createOvsdbBridge(b, t, n, rep)
  PROVE  OvsdbTypeOK'
<1>1. /\ bridges \cup {[uuid |-> nextUuid, name |-> b]} \in SUBSET BridgeRow
      /\ ports \cup {[uuid |-> nextUuid + 1, name |-> b, bridge |-> nextUuid]} \in SUBSET PortRow
      /\ opts \cup {[name |-> b, network |-> n, type |-> t]} \in SUBSET OptRow
  BY DEF OvsdbTypeOK, BridgeRow, PortRow, OptRow, PortName
<1> QED BY <1>1, TransactType DEF createOvsdbBridge

LEMMA DeleteBridgeType ==
  ASSUME OvsdbTypeOK, NEW b, NEW u, NEW rep, deleteBridgeRows(b, u, rep)
  PROVE  OvsdbTypeOK'
<1> DEFINE left == {r \in bridges : r.name # b /\ r.uuid # u}
<1>1. /\ left \in SUBSET BridgeRow
      /\ {p \in ports : \E r \in left : r.uuid = p.bridge} \in SUBSET PortRow
      /\ {o \in opts : o.name # b} \in SUBSET OptRow
  BY DEF OvsdbTypeOK
<1> QED BY <1>1, TransactType, Zenon DEF deleteBridgeRows

LEMMA AddPortType ==
  ASSUME OvsdbTypeOK, NEW b, NEW v \in VethName, NEW rep, addOvsVethPort(b, v, rep)
  PROVE  OvsdbTypeOK'
<1> DEFINE owners == {r \in bridges : r.name = b}
<1>1. /\ owners \in SUBSET BridgeRow
      /\ ports \cup {[uuid |-> nextUuid, name |-> v, bridge |-> r.uuid] : r \in owners} \in SUBSET PortRow
  BY DEF OvsdbTypeOK, BridgeRow, PortRow, PortName
<1>2. bridges \in SUBSET BridgeRow /\ opts \in SUBSET OptRow
  BY DEF OvsdbTypeOK
<1> QED BY <1>1, <1>2, TransactType DEF addOvsVethPort

LEMMA DeletePortType ==
  ASSUME OvsdbTypeOK, NEW b, NEW v, NEW u, NEW rep, deletePortRows(b, v, u, rep)
  PROVE  OvsdbTypeOK'
<1> DEFINE Unlisted(p) == p.uuid = u /\ \E r \in bridges : r.name = b /\ r.uuid = p.bridge
           touched == {r \in bridges : r.name = b /\ \E p \in ports : p.bridge = r.uuid /\ Unlisted(p)}
           left == {p \in ports : p.name # v /\ ~Unlisted(p)}
<1>1. bridges \in SUBSET BridgeRow /\ opts \in SUBSET OptRow
      /\ touched \in SUBSET BridgeRow /\ left \in SUBSET PortRow
  BY DEF OvsdbTypeOK
<1>2. Transact(\A p \in ports : p.name = v => Unlisted(p), bridges, left, opts, touched, 0, rep)
  BY Zenon DEF deletePortRows
<1> HIDE DEF touched, left, Unlisted
<1> QED BY <1>1, <1>2, TransactType, Zenon

(* A set of addresses stays one when a pair of the right kinds is added.   *)
LEMMA AddPair ==
  ASSUME NEW A, NEW B, NEW S, S \subseteq A \X B, NEW a \in A, NEW b \in B
  PROVE  S \cup {<<a, b>>} \subseteq A \X B
<1>1. <<a, b>> \in A \X B
  OBVIOUS
<1> QED BY <1>1

LEMMA AddrAdded ==
  ASSUME KernelTypeOK, NEW b \in BridgeName, NEW f \in Family
  PROVE  addr \cup {<<b, f>>} \subseteq BridgeName \X Family
<1>1. addr \subseteq BridgeName \X Family
  BY DEF KernelTypeOK
<1> QED BY <1>1, AddPair

(* Every step of a handler keeps the types and leaves it well supplied. *)
LEMMA CreateSteps ==
  ASSUME TypeOK, LocalsOK, NEW h \in Handler,
         \/ CreateNetwork(h) \/ InitBridge(h) \/ AddBridgeCheck(h) \/ CreateBridgeIface(h)
         \/ AddBridgeRecheck(h) \/ WaitForLink(h) \/ SetInterfaceIP(h) \/ GetIfaceAddr(h)
         \/ NatOut(h) \/ InterfaceUp(h)
  PROVE  TypeOK' /\ LocalsOK'
<1> USE DEF TypeOK
<1>a. LocalOK(pc[h], req[h], name[h], uuid[h])
  BY DEF LocalsOK
<1>b. CreateLabel \cup Answer \subseteq Label
  BY DEF Label
<1>c. /\ pc[h] \in CreateLabel => req[h] \in CreateRequest /\ req[h].net \in Network
      /\ pc[h] \in CreateLabel \ {"CreateNetwork", "initBridge"} => name[h] \in BridgeName
  BY <1>a DEF LocalOK, CreateRequest, NamedLabel
<1>1. CASE CreateNetwork(h)
  <2>1. req[h] \in CreateRequest /\ req[h].net \in Network
    BY <1>1, <1>c DEF CreateNetwork, At, CreateLabel
  <2>2. PluginTypeOK'
    BY <1>1, <2>1 DEF CreateNetwork, PluginTypeOK, CreateRequest
  <2>3. \E l \in {"error", "panic", "initBridge"} : Goto(h, l)
    BY <1>1 DEF CreateNetwork
  <2>4. HandlersTypeOK' /\ LocalsOK'
    BY <1>1, <1>b, <2>1, <2>3, HandlerGoes, LocalAt DEF CreateNetwork, localVars, Answer, CreateLabel
  <2> QED BY <1>1, <2>2, <2>4, Unchanged DEF CreateNetwork
<1>2. CASE InitBridge(h)
  <2>1. req[h] \in CreateRequest /\ req[h].net \in Network
    BY <1>2, <1>c DEF InitBridge, At, CreateLabel
  <2> DEFINE ns == networks[req[h].net]
  <2>2. ns # Nil => ns.name \in BridgeName /\ ns.type \in ServiceType
    BY <2>1, NetStateType DEF PluginTypeOK
  <2>3. HandlersTypeOK'
    BY <1>2, <1>b, <2>2 DEF InitBridge, HandlersTypeOK, Goto, Answer, CreateLabel
  <2>4. LocalsOK'
    <3> SUFFICES ASSUME NEW g \in Handler
                 PROVE  LocalOK(pc'[g], req'[g], name'[g], uuid'[g])
      BY DEF LocalsOK
    <3>1. CASE g # h
      BY <1>2, <3>1 DEF InitBridge, LocalsOK, HandlersTypeOK, Goto
    <3>2. CASE g = h
      <4>1. \/ pc'[h] = "panic"
            \/ pc'[h] = "portExists" /\ name'[h] \in BridgeName
        BY <1>2, <2>2 DEF InitBridge, HandlersTypeOK, Goto
      <4>2. req'[h] = req[h]
        BY <1>2, Zenon DEF InitBridge
      <4> QED BY <3>2, <4>1, <4>2, <2>1, LocalAt, Zenon DEF Answer, CreateLabel
    <3> QED BY <3>1, <3>2
  <2> QED BY <1>2, <2>3, <2>4, Unchanged DEF InitBridge
<1>3. CASE AddBridgeCheck(h)
  <2>1. req[h] \in CreateRequest /\ req[h].net \in Network /\ name[h] \in BridgeName
    BY <1>3, <1>c, Zenon DEF AddBridgeCheck, At, CreateLabel
  <2>2. PluginTypeOK'
    BY <1>3, <2>1 DEF AddBridgeCheck, AbandonNetwork, PluginTypeOK
  <2>3. \E l \in {"error", "validateIface", "createBridgeIface"} : Goto(h, l)
    BY <1>3 DEF AddBridgeCheck, AbandonNetwork
  <2>4. HandlersTypeOK' /\ LocalsOK'
    BY <1>3, <1>b, <2>1, <2>3, HandlerGoes, LocalAt, Zenon DEF AddBridgeCheck, localVars, Answer, CreateLabel
  <2> QED BY <1>3, <2>2, <2>4, Unchanged DEF AddBridgeCheck
<1>4. CASE CreateBridgeIface(h)
  <2>1. req[h] \in CreateRequest /\ req[h].net \in Network /\ name[h] \in BridgeName
    BY <1>4, <1>c, Zenon DEF CreateBridgeIface, At, CreateLabel
  <2>2. OvsdbTypeOK'
    BY <1>4, <2>1, CreateBridgeType DEF CreateBridgeIface, HandlersTypeOK
  <2>3. \E l \in {"portExistsNow"} : Goto(h, l)
    BY <1>4, Zenon DEF CreateBridgeIface, AbandonNetwork
  <2>4. HandlersTypeOK' /\ LocalsOK'
    BY <1>4, <1>b, <2>1, <2>3, HandlerGoes, LocalAt, Zenon DEF CreateBridgeIface, localVars, Answer, CreateLabel
  <2> QED BY <1>4, <2>2, <2>4, Unchanged, Zenon DEF CreateBridgeIface
<1>5. CASE AddBridgeRecheck(h)
  <2>1. req[h] \in CreateRequest /\ req[h].net \in Network /\ name[h] \in BridgeName
    BY <1>5, <1>c DEF AddBridgeRecheck, At, CreateLabel
  <2>2. PluginTypeOK'
    BY <1>5, <2>1 DEF AddBridgeRecheck, AbandonNetwork, PluginTypeOK
  <2>3. \E l \in {"error", "validateIface"} : Goto(h, l)
    BY <1>5, Zenon DEF AddBridgeRecheck, AbandonNetwork
  <2>4. HandlersTypeOK' /\ LocalsOK'
    BY <1>5, <1>b, <2>1, <2>3, HandlerGoes, LocalAt, Zenon DEF AddBridgeRecheck, localVars, Answer, CreateLabel
  <2> QED BY <1>5, <2>2, <2>4, Unchanged DEF AddBridgeRecheck
<1>6. CASE WaitForLink(h)
  <2>1. req[h] \in CreateRequest /\ req[h].net \in Network /\ name[h] \in BridgeName
    BY <1>6, <1>c, Zenon DEF WaitForLink, At, CreateLabel
  <2>2. PluginTypeOK'
    BY <1>6, <2>1, Zenon DEF WaitForLink, AbandonNetwork, PluginTypeOK
  <2>3. CASE UNCHANGED tries
    <3>1. \E l \in {"error", "mode"} : Goto(h, l)
      BY <1>6, <2>3, LinkRetriesType DEF WaitForLink, AbandonNetwork, HandlersTypeOK
    <3>2. HandlersTypeOK' /\ LocalsOK'
      BY <1>6, <1>b, <2>1, <2>3, <3>1, HandlerGoes, LocalAt, Zenon DEF WaitForLink, Answer, CreateLabel
    <3> QED BY <1>6, <2>2, <3>2, Unchanged DEF WaitForLink
  <2>4. CASE tries[h] < LinkRetries /\ tries' = [tries EXCEPT ![h] = @ + 1] /\ UNCHANGED pc
    <3>1. HandlersTypeOK'
      BY <1>6, <2>4, LinkRetriesType DEF WaitForLink, HandlersTypeOK
    <3>2. LocalsOK'
      BY <1>6, <2>4, Zenon DEF WaitForLink, LocalsOK
    <3> QED BY <1>6, <2>2, <3>1, <3>2, Unchanged DEF WaitForLink
  <2> QED BY <1>6, <2>3, <2>4 DEF WaitForLink
<1>7. CASE SetInterfaceIP(h)
  <2>1. req[h] \in CreateRequest /\ req[h].net \in Network /\ name[h] \in BridgeName
    BY <1>7, <1>c, Zenon DEF SetInterfaceIP, At, CreateLabel
  <2>2. CASE Exit
    BY <2>2, ExitType
  <2>3. CASE ~Exit
    <3>1. UNCHANGED <<ovsdbVars, pluginVars, localVars, link, nat, unit>>
      BY <1>7, <2>3, Zenon DEF SetInterfaceIP
    <3>2. networks[req[h].net] # Nil => networks[req[h].net].gateway \in Family
      BY <2>1, NetStateType, Zenon DEF PluginTypeOK
    <3>a. \/ addr' = addr
          \/ /\ networks[req[h].net] # Nil
             /\ addr' = addr \cup {<<name[h], networks[req[h].net].gateway>>}
      BY <1>7, <2>3, Zenon DEF SetInterfaceIP
    <3>b. addr' \subseteq BridgeName \X Family
      <4>1. CASE addr' = addr
        BY <4>1 DEF KernelTypeOK
      <4>2. CASE networks[req[h].net] # Nil /\ addr' = addr \cup {<<name[h], networks[req[h].net].gateway>>}
        BY <2>1, <3>2, <4>2, AddrAdded
      <4> QED BY <3>a, <4>1, <4>2, Zenon
    <3>3. KernelTypeOK'
      BY <3>1, <3>b DEF KernelTypeOK
    <3>4. \E l \in {"panic", "interfaceUp", "getIfaceAddr"} : Goto(h, l)
      BY <1>7, <2>3, Zenon DEF SetInterfaceIP
    <3>5. HandlersTypeOK' /\ LocalsOK'
      BY <1>b, <2>1, <3>1, <3>4, HandlerGoes, LocalAt, Zenon DEF localVars, Answer, CreateLabel
    <3> QED BY <3>1, <3>3, <3>5, Unchanged
  <2> QED BY <2>2, <2>3
<1>8. CASE GetIfaceAddr(h)
  <2>1. req[h] \in CreateRequest /\ name[h] \in BridgeName
    BY <1>8, <1>c, Zenon DEF GetIfaceAddr, At, CreateLabel
  <2>2. CASE Exit
    BY <2>2, ExitType
  <2>3. CASE Goto(h, "natOut") /\ UNCHANGED <<ovsdbVars, pluginVars, localVars, kernelVars, unit>>
    <3>1. HandlersTypeOK' /\ LocalsOK'
      BY <1>b, <2>1, <2>3, HandlerGoes, LocalAt, Zenon DEF localVars, CreateLabel
    <3> QED BY <2>3, <3>1, Unchanged
  <2> QED BY <1>8, <2>2, <2>3 DEF GetIfaceAddr
<1>9. CASE NatOut(h)
  <2>1. req[h] \in CreateRequest /\ req[h].net \in Network /\ name[h] \in BridgeName
    BY <1>9, <1>c DEF NatOut, At, CreateLabel
  <2>2. CASE Exit
    BY <2>2, ExitType
  <2>3. CASE /\ nat' = nat \cup {req[h].net}
             /\ Goto(h, "interfaceUp")
             /\ UNCHANGED <<ovsdbVars, pluginVars, localVars, link, addr, unit>>
    <3>1. HandlersTypeOK' /\ LocalsOK'
      BY <1>b, <2>1, <2>3, HandlerGoes, LocalAt, Zenon DEF localVars, CreateLabel
    <3>2. KernelTypeOK'
      BY <2>1, <2>3, Zenon DEF KernelTypeOK
    <3> QED BY <2>3, <3>1, <3>2, Unchanged
  <2> QED BY <1>9, <2>2, <2>3 DEF NatOut
<1>10. CASE InterfaceUp(h)
  <2>1. req[h] \in CreateRequest /\ req[h].net \in Network /\ name[h] \in BridgeName
    BY <1>10, <1>c, Zenon DEF InterfaceUp, At, CreateLabel
  <2>2. PluginTypeOK'
    BY <1>10, <2>1, Zenon DEF InterfaceUp, AbandonNetwork, PluginTypeOK
  <2>2a. KernelTypeOK'
    <3>1. addr' \in {addr, addr \cup {<<name[h], "v6">>}} /\ UNCHANGED <<link, nat>>
      BY <1>10 DEF InterfaceUp
    <3>2. "v6" \in Family
      BY DEF Family
    <3>3. name[h] \in BridgeName
      BY <2>1
    <3>4. addr \cup {<<name[h], "v6">>} \subseteq BridgeName \X Family
      BY ONLY KernelTypeOK, <3>2, <3>3, AddrAdded
    <3> QED BY <3>1, <3>4 DEF KernelTypeOK
  <2>3. \E l \in {"panic", "error", "writeUnit"} : Goto(h, l)
    BY <1>10, Zenon DEF InterfaceUp, AbandonNetwork
  <2>4. HandlersTypeOK' /\ LocalsOK'
    BY <1>10, <1>b, <2>1, <2>3, HandlerGoes, LocalAt, Zenon DEF InterfaceUp, localVars, Answer, CreateLabel
  <2> QED BY <1>10, <2>2, <2>2a, <2>4, Unchanged DEF InterfaceUp
<1> QED BY <1>1, <1>2, <1>3, <1>4, <1>5, <1>6, <1>7, <1>8, <1>9, <1>10

LEMMA ServiceSteps ==
  ASSUME TypeOK, LocalsOK, NEW h \in Handler, StartOvsService(h) \/ StopOvsService(h)
  PROVE  TypeOK' /\ LocalsOK'
<1> DEFINE Started == {"daemonReload", "startUnit", "enableUnit", "ok"}
           Stopping == {"disableUnit", "removeUnit", "forget"}
<1>1. /\ pc[h] \in CreateLabel \ {"CreateNetwork", "initBridge"} =>
           req[h] \in CreateRequest /\ name[h] \in BridgeName
      /\ pc[h] \in DeleteLabel \ {"DeleteNetwork", "deleteBridge"} =>
           req[h] \in DeleteRequest /\ name[h] \in BridgeName
  BY LocalAt, Zenon DEF LocalsOK
<1>2. /\ UNCHANGED <<ovsdbVars, pluginVars, localVars, kernelVars>>
      /\ \/ /\ pc[h] \in {"writeUnit", "daemonReload", "startUnit", "enableUnit"}
            /\ \E l \in Started : Goto(h, l)
         \/ /\ pc[h] \in {"stopUnit", "disableUnit", "removeUnit"}
            /\ \E l \in Stopping : Goto(h, l)
  BY Zenon DEF StartOvsService, StopOvsService, ServiceStep, At
<1>3. HandlersTypeOK' /\ LocalsOK'
  <2>1. Started \cup Stopping \subseteq Label
    BY DEF Label, CreateLabel, DeleteLabel, Answer
  <2>2. \E l \in Label : Goto(h, l) /\ LocalOK(l, req[h], name[h], uuid[h])
    <3>1. CASE pc[h] \in {"writeUnit", "daemonReload", "startUnit", "enableUnit"}
      <4>1. req[h] \in CreateRequest /\ name[h] \in BridgeName
        BY <1>1, <3>1 DEF CreateLabel
      <4>2. \A l \in Started : LocalOK(l, req[h], name[h], uuid[h])
        BY <4>1, LocalAt, Zenon DEF CreateLabel, Answer
      <4> QED BY <1>2, <2>1, <3>1, <4>2
    <3>2. CASE pc[h] \in {"stopUnit", "disableUnit", "removeUnit"}
      <4>1. req[h] \in DeleteRequest /\ name[h] \in BridgeName
        BY <1>1, <3>2 DEF DeleteLabel
      <4>2. \A l \in Stopping : LocalOK(l, req[h], name[h], uuid[h])
        BY <4>1, LocalAt, Zenon DEF DeleteLabel
      <4> QED BY <1>2, <2>1, <3>2, <4>2
    <3> QED BY <1>2, <3>1, <3>2, Zenon
  <2> QED BY <1>2, <2>2, HandlerGoes, Zenon DEF TypeOK, localVars
<1>4. UnitTypeOK(Command)'
  <2>1. pc[h] = "writeUnit" => [name |-> name[h], type |-> type[h]] \in Command
    BY <1>1 DEF CreateLabel, Command, TypeOK, HandlersTypeOK
  <2>2. CASE StartOvsService(h)
    BY <2>1, <2>2, Zenon DEF StartOvsService, ServiceStep, At, WriteUnitFile, ReloadUnit, StartUnit,
                      EnableUnit, TypeOK, UnitTypeOK
  <2>3. CASE StopOvsService(h)
    BY <2>3, Zenon DEF StopOvsService, ServiceStep, StopUnit, DisableUnit, RemoveUnitFile, TypeOK, UnitTypeOK
  <2> QED BY <2>2, <2>3
<1> QED BY <1>2, <1>3, <1>4, Unchanged DEF TypeOK

LEMMA LookupBridgeType ==
  ASSUME TypeOK, LocalsOK, NEW h \in Handler, NEW next \in Label, LookupBridge(h, next),
         UNCHANGED <<req, type, uuid, tries>>,
         \A b \in BridgeName : LocalOK(next, req[h], b, uuid[h])
  PROVE  HandlersTypeOK' /\ LocalsOK'
<1>1. BridgeNamesOf(req[h].net) \subseteq BridgeName
  BY DEF BridgeNamesOf, TypeOK, OvsdbTypeOK, OptRow
<1>2. uuid' = [uuid EXCEPT ![h] = uuid[h]] /\ uuid[h] \in Nat \cup {Nil}
  BY DEF TypeOK, HandlersTypeOK
<1>3. CASE Goto(h, "error") /\ UNCHANGED name
  BY <1>3, HandlerGoes, LocalAt DEF TypeOK, Label, Answer
<1>4. CASE \E b \in BridgeNamesOf(req[h].net) : name' = [name EXCEPT ![h] = b] /\ Goto(h, next)
  BY <1>1, <1>2, <1>4, HandlerMoves, Zenon DEF TypeOK
<1> QED BY <1>3, <1>4, Zenon DEF LookupBridge

LEMMA LookupUuidType ==
  ASSUME TypeOK, LocalsOK, NEW h \in Handler, NEW table, NEW port, NEW next \in Label,
         LookupUuid(h, table, port, next), UNCHANGED <<req, name, type, tries>>,
         \A u \in Nat : LocalOK(next, req[h], name[h], u)
  PROVE  HandlersTypeOK' /\ LocalsOK'
<1>1. \A c \in cache : c.uuid \in Nat
  BY DEF TypeOK, PluginTypeOK, CacheRow
<1>2. name' = [name EXCEPT ![h] = name[h]] /\ name[h] \in BridgeName \cup {Nil}
  BY DEF TypeOK, HandlersTypeOK
<1>3. CASE Goto(h, "error") /\ UNCHANGED uuid
  BY <1>3, HandlerGoes, LocalAt DEF TypeOK, Label, Answer
<1>4. CASE \E c \in cache : uuid' = [uuid EXCEPT ![h] = c.uuid] /\ Goto(h, next)
  BY <1>1, <1>2, <1>4, HandlerMoves, Zenon DEF TypeOK
<1> QED BY <1>3, <1>4, Zenon DEF LookupUuid

LEMMA DeleteSteps ==
  ASSUME TypeOK, LocalsOK, NEW h \in Handler,
         \/ DeleteNetwork(h) \/ GetBridgeServiceType(h) \/ GetBridgeUUIDForName(h)
         \/ DeleteBridge(h) \/ ForgetNetwork(h)
  PROVE  TypeOK' /\ LocalsOK'
<1> USE DEF TypeOK
<1>a. LocalOK(pc[h], req[h], name[h], uuid[h])
  BY Zenon DEF LocalsOK
<1>b. DeleteLabel \cup Answer \subseteq Label
  BY DEF Label
<1>c. /\ pc[h] \in DeleteLabel => req[h] \in DeleteRequest
      /\ pc[h] \in DeleteLabel \ {"DeleteNetwork"} => name[h] \in BridgeName
  BY <1>a DEF LocalOK, NamedLabel
<1>d. req[h] \in DeleteRequest => req[h].net \in Network
  BY DEF DeleteRequest
<1>1. CASE DeleteNetwork(h)
  <2>1. req[h] \in DeleteRequest
    BY <1>1, <1>c DEF DeleteNetwork, At, DeleteLabel
  <2>2. \A b \in BridgeName : LocalOK("getBridgeServiceType", req[h], b, uuid[h])
    <3>1. "getBridgeServiceType" \in DeleteLabel \ {"DeleteNetwork", "deleteBridge"}
      BY DEF DeleteLabel
    <3> QED BY <2>1, <3>1, LocalAt, Zenon
  <2>3. HandlersTypeOK' /\ LocalsOK'
    BY <1>1, <1>b, <2>2, LookupBridgeType, Zenon DEF DeleteNetwork, DeleteLabel
  <2> QED BY <1>1, <2>3, Unchanged DEF DeleteNetwork
<1>2. CASE GetBridgeServiceType(h)
  <2>1. req[h] \in DeleteRequest /\ name[h] \in BridgeName
    BY <1>2, <1>c, Zenon DEF GetBridgeServiceType, At, DeleteLabel
  <2>2. \E t \in ServiceType : type' = [type EXCEPT ![h] = t]
    <3>1. ServiceTypesOf(name[h]) \subseteq ServiceType
      BY DEF ServiceTypesOf, OvsdbTypeOK, OptRow
    <3>2. type = [type EXCEPT ![h] = type[h]] /\ type[h] \in ServiceType
      BY DEF HandlersTypeOK
    <3> QED BY <1>2, <3>1, <3>2 DEF GetBridgeServiceType
  <2>3. HandlersTypeOK'
    BY <1>2, <1>b, <2>2 DEF GetBridgeServiceType, HandlersTypeOK, Goto, DeleteLabel
  <2>4. LocalsOK'
    <3> SUFFICES ASSUME NEW g \in Handler
                 PROVE  LocalOK(pc'[g], req'[g], name'[g], uuid'[g])
      BY Zenon DEF LocalsOK
    <3>0. "getBridgeUUIDForName" \in DeleteLabel \ {"DeleteNetwork", "deleteBridge"}
      BY DEF DeleteLabel
    <3>1. LocalOK("getBridgeUUIDForName", req[h], name[h], uuid[h])
      BY <2>1, <3>0, LocalAt, Zenon
    <3> QED BY <1>2, <3>1 DEF GetBridgeServiceType, LocalsOK, HandlersTypeOK, Goto
  <2> QED BY <1>2, <2>3, <2>4, Unchanged DEF GetBridgeServiceType
<1>3. CASE GetBridgeUUIDForName(h)
  <2>1. req[h] \in DeleteRequest /\ name[h] \in BridgeName
    BY <1>3, <1>c, Zenon DEF GetBridgeUUIDForName, At, DeleteLabel
  <2>2. \A u \in Nat : LocalOK("deleteBridge", req[h], name[h], u)
    BY <2>1, LocalAt, Zenon
  <2>3. HandlersTypeOK' /\ LocalsOK'
    BY <1>3, <1>b, <2>2, LookupUuidType, Zenon DEF GetBridgeUUIDForName, DeleteLabel
  <2> QED BY <1>3, <2>3, Unchanged DEF GetBridgeUUIDForName
<1>4. CASE DeleteBridge(h)
  <2>1. req[h] \in DeleteRequest /\ name[h] \in BridgeName
    BY <1>4, <1>c, Zenon DEF DeleteBridge, At, DeleteLabel
  <2>2. OvsdbTypeOK'
    BY <1>4, <1>d, <2>1, DeleteBridgeType DEF DeleteBridge, HandlersTypeOK
  <2>3. \E l \in {"error", "stopUnit", "forget"} : Goto(h, l)
    BY <1>4 DEF DeleteBridge
  <2>4. HandlersTypeOK' /\ LocalsOK'
    BY <1>4, <1>b, <2>1, <2>3, HandlerGoes, LocalAt, Zenon DEF DeleteBridge, localVars, Answer, DeleteLabel
  <2> QED BY <1>4, <2>2, <2>4, Unchanged, Zenon DEF DeleteBridge
<1>5. CASE ForgetNetwork(h)
  <2>1. req[h] \in DeleteRequest
    BY <1>5, <1>c DEF ForgetNetwork, At, DeleteLabel
  <2>2. PluginTypeOK'
    BY <1>5, <1>d, <2>1 DEF ForgetNetwork, PluginTypeOK
  <2>3. \E l \in {"ok"} : Goto(h, l)
    BY <1>5 DEF ForgetNetwork
  <2>4. HandlersTypeOK' /\ LocalsOK'
    BY <1>5, <1>b, <2>1, <2>3, HandlerGoes, LocalAt, Zenon DEF ForgetNetwork, localVars, Answer, DeleteLabel
  <2> QED BY <1>5, <2>2, <2>4, Unchanged DEF ForgetNetwork
<1> QED BY <1>1, <1>2, <1>3, <1>4, <1>5

LEMMA PortSteps ==
  ASSUME TypeOK, LocalsOK, NEW h \in Handler,
         \/ Join(h) \/ LinkSetUp(h) \/ BridgeForJoin(h) \/ AddOvsVethPort(h)
         \/ GetIPByInterface(h) \/ Leave(h) \/ BridgeForLeave(h) \/ PortUUIDForName(h)
         \/ DeletePort(h)
  PROVE  TypeOK' /\ LocalsOK'
<1> USE DEF TypeOK
<1>a. LocalOK(pc[h], req[h], name[h], uuid[h])
  BY Zenon DEF LocalsOK
<1>b. JoinLabel \cup LeaveLabel \cup Answer \subseteq Label
  BY DEF Label
<1>c. /\ pc[h] \in JoinLabel \cup LeaveLabel => req[h] \in PortRequest
      /\ pc[h] \in {"addOvsVethPort", "getIPByInterface", "portUUIDForName", "deletePort"} =>
           name[h] \in BridgeName
  BY <1>a, Zenon DEF LocalOK, NamedLabel
<1>d. req[h] \in PortRequest => VethOf[req[h].ep] \in VethName
  BY VethOfType, Zenon DEF PortRequest
<1>1. CASE Join(h)
  <2>1. req[h] \in PortRequest
    BY <1>1, <1>c, Zenon DEF Join, At, JoinLabel
  <2>2. KernelTypeOK'
    BY <1>1, <1>d, <2>1, Zenon DEF Join, KernelTypeOK, PortName
  <2>3. \E l \in {"linkSetUp", "error"} : Goto(h, l)
    BY <1>1, Zenon DEF Join
  <2>4. HandlersTypeOK' /\ LocalsOK'
    BY <1>1, <1>b, <2>1, <2>3, HandlerGoes, LocalAt, Zenon DEF Join, localVars, Answer, JoinLabel
  <2> QED BY <1>1, <2>2, <2>4, Unchanged, Zenon DEF Join
<1>2. CASE LinkSetUp(h)
  <2>1. req[h] \in PortRequest
    BY <1>2, <1>c, Zenon DEF LinkSetUp, At, JoinLabel
  <2>2. \E l \in {"bridgeForJoin", "error"} : Goto(h, l)
    BY <1>2, Zenon DEF LinkSetUp
  <2>3. HandlersTypeOK' /\ LocalsOK'
    BY <1>2, <1>b, <2>1, <2>2, HandlerGoes, LocalAt, Zenon DEF LinkSetUp, localVars, Answer, JoinLabel
  <2> QED BY <1>2, <2>3, Unchanged, Zenon DEF LinkSetUp
<1>3. CASE BridgeForJoin(h)
  <2>1. req[h] \in PortRequest
    BY <1>3, <1>c, Zenon DEF BridgeForJoin, At, JoinLabel
  <2>2. \A b \in BridgeName : LocalOK("addOvsVethPort", req[h], b, uuid[h])
    BY <2>1, LocalAt, Zenon
  <2>3. HandlersTypeOK' /\ LocalsOK'
    BY <1>3, <1>b, <2>2, LookupBridgeType, Zenon DEF BridgeForJoin, JoinLabel
  <2> QED BY <1>3, <2>3, Unchanged DEF BridgeForJoin
<1>4. CASE AddOvsVethPort(h)
  <2>1. req[h] \in PortRequest /\ name[h] \in BridgeName
    BY <1>4, <1>c, Zenon DEF AddOvsVethPort, At, JoinLabel
  <2>2. OvsdbTypeOK'
    BY <1>4, <1>d, <2>1, AddPortType, Zenon DEF AddOvsVethPort, HandlersTypeOK
  <2>3. \E l \in {"error", "getIPByInterface"} : Goto(h, l)
    BY <1>4, Zenon DEF AddOvsVethPort
  <2>4. HandlersTypeOK' /\ LocalsOK'
    BY <1>4, <1>b, <2>1, <2>3, HandlerGoes, LocalAt, Zenon DEF AddOvsVethPort, localVars, Answer, JoinLabel
  <2> QED BY <1>4, <2>2, <2>4, Unchanged, Zenon DEF AddOvsVethPort
<1>5. CASE GetIPByInterface(h)
  <2>1. req[h] \in PortRequest /\ name[h] \in BridgeName
    BY <1>5, <1>c, Zenon DEF GetIPByInterface, At, JoinLabel
  <2>2. \E l \in {"ok", "error"} : Goto(h, l)
    BY <1>5 DEF GetIPByInterface
  <2>3. HandlersTypeOK' /\ LocalsOK'
    BY <1>5, <1>b, <2>1, <2>2, HandlerGoes, LocalAt, Zenon DEF GetIPByInterface, localVars, Answer, JoinLabel
  <2> QED BY <1>5, <2>3, Unchanged DEF GetIPByInterface
<1>6. CASE Leave(h)
  <2>1. req[h] \in PortRequest
    BY <1>6, <1>c, Zenon DEF Leave, At, LeaveLabel
  <2>2. KernelTypeOK'
    BY <1>6, <1>d, <2>1, Zenon DEF Leave, KernelTypeOK, PortName
  <2>3. \E l \in {"bridgeForLeave"} : Goto(h, l)
    BY <1>6, Zenon DEF Leave
  <2>4. HandlersTypeOK' /\ LocalsOK'
    BY <1>6, <1>b, <2>1, <2>3, HandlerGoes, LocalAt, Zenon DEF Leave, localVars, Answer, LeaveLabel
  <2> QED BY <1>6, <2>2, <2>4, Unchanged, Zenon DEF Leave
<1>7. CASE BridgeForLeave(h)
  <2>1. req[h] \in PortRequest
    BY <1>7, <1>c, Zenon DEF BridgeForLeave, At, LeaveLabel
  <2>2. \A b \in BridgeName : LocalOK("portUUIDForName", req[h], b, uuid[h])
    BY <2>1, LocalAt, Zenon
  <2>3. HandlersTypeOK' /\ LocalsOK'
    BY <1>7, <1>b, <2>2, LookupBridgeType, Zenon DEF BridgeForLeave, LeaveLabel
  <2> QED BY <1>7, <2>3, Unchanged DEF BridgeForLeave
<1>8. CASE PortUUIDForName(h)
  <2>1. req[h] \in PortRequest /\ name[h] \in BridgeName
    BY <1>8, <1>c, Zenon DEF PortUUIDForName, At, LeaveLabel
  <2>2. \A u \in Nat : LocalOK("deletePort", req[h], name[h], u)
    BY <2>1, LocalAt, Zenon
  <2>3. HandlersTypeOK' /\ LocalsOK'
    BY <1>8, <1>b, <2>2, LookupUuidType, Zenon DEF PortUUIDForName, LeaveLabel
  <2> QED BY <1>8, <2>3, Unchanged, Zenon DEF PortUUIDForName
<1>9. CASE DeletePort(h)
  <2>1. req[h] \in PortRequest /\ name[h] \in BridgeName
    BY <1>9, <1>c, Zenon DEF DeletePort, At, LeaveLabel
  <2>2. OvsdbTypeOK'
    BY <1>9, <1>d, <2>1, DeletePortType, Zenon DEF DeletePort, HandlersTypeOK
  <2>3. \E l \in {"ok", "error"} : Goto(h, l)
    BY <1>9, Zenon DEF DeletePort
  <2>4. HandlersTypeOK' /\ LocalsOK'
    BY <1>9, <1>b, <2>1, <2>3, HandlerGoes, LocalAt, Zenon DEF DeletePort, localVars, Answer, LeaveLabel
  <2> QED BY <1>9, <2>2, <2>4, Unchanged, Zenon DEF DeletePort
<1> QED BY <1>1, <1>2, <1>3, <1>4, <1>5, <1>6, <1>7, <1>8, <1>9

LEMMA ClientSteps ==
  ASSUME TypeOK, LocalsOK, NEW h \in Handler,
         (\E r \in Request : Receive(h, r)) \/ Return(h) \/ EndpointStub(h)
  PROVE  TypeOK' /\ LocalsOK'
<1> USE DEF TypeOK
<1>1. CASE \E r \in Request : Receive(h, r)
  <2>1. PICK r \in Request : Receive(h, r)
    BY <1>1
  <2>2. r.op \in Label /\ LocalOK(r.op, r, name[h], uuid[h])
    <3>1. CASE r \in CreateRequest
      BY <3>1, LocalAt, Zenon DEF CreateRequest, Label, CreateLabel
    <3>2. CASE r \in DeleteRequest
      BY <3>2, LocalAt, Zenon DEF DeleteRequest, Label, DeleteLabel
    <3>3. CASE r \in PortRequest
      BY <3>3, LocalAt, Zenon DEF PortRequest, Label, JoinLabel, LeaveLabel
    <3>4. CASE r \in StubRequest
      BY <3>4, LocalAt, Zenon DEF StubRequest, Label, StubLabel
    <3> QED BY <3>1, <3>2, <3>3, <3>4, Zenon DEF Request
  <2>3. HandlersTypeOK'
    BY <2>1, <2>2 DEF Receive, HandlersTypeOK, Goto
  <2>4. LocalsOK'
    <3> SUFFICES ASSUME NEW g \in Handler
                 PROVE  LocalOK(pc'[g], req'[g], name'[g], uuid'[g])
      BY Zenon DEF LocalsOK
    <3> QED BY <2>1, <2>2 DEF Receive, LocalsOK, HandlersTypeOK, Goto
  <2> QED BY <2>1, <2>3, <2>4, Unchanged DEF Receive
<1>2. CASE Return(h)
  <2>1. HandlersTypeOK'
    <3>1. "idle" \in Label /\ NoType \in ServiceType /\ 0 \in 0 .. LinkRetries
      BY ServiceTypes, LinkRetriesType DEF Label
    <3>2. pc' \in [Handler -> Label] /\ req' \in [Handler -> Request \cup {Nil}]
      BY <1>2, <3>1 DEF Return, HandlersTypeOK, Goto
    <3>3. name' \in [Handler -> BridgeName \cup {Nil}] /\ type' \in [Handler -> ServiceType]
      BY <1>2, <3>1 DEF Return, HandlersTypeOK
    <3>4. uuid' \in [Handler -> Nat \cup {Nil}] /\ tries' \in [Handler -> 0 .. LinkRetries]
      BY <1>2, <3>1 DEF Return, HandlersTypeOK
    <3> QED BY <3>2, <3>3, <3>4, Zenon DEF HandlersTypeOK
  <2>2. LocalsOK'
    <3> SUFFICES ASSUME NEW g \in Handler
                 PROVE  LocalOK(pc'[g], req'[g], name'[g], uuid'[g])
      BY Zenon DEF LocalsOK
    <3>1. LocalOK("idle", Nil, Nil, Nil)
      BY LocalAt, Zenon
    <3> QED BY <1>2, <3>1 DEF Return, LocalsOK, HandlersTypeOK, Goto
  <2> QED BY <1>2, <2>1, <2>2, Unchanged DEF Return
<1>3. CASE EndpointStub(h)
  <2>1. "ok" \in Label /\ LocalOK("ok", req[h], name[h], uuid[h])
    BY LocalAt, Zenon DEF Label, Answer
  <2>2. HandlersTypeOK' /\ LocalsOK'
    BY <1>3, <2>1, HandlerGoes, Zenon DEF EndpointStub, localVars
  <2> QED BY <1>3, <2>2, Unchanged DEF EndpointStub
<1> QED BY <1>1, <1>2, <1>3

LEMMA EnvironmentSteps ==
  ASSUME TypeOK, LocalsOK, Environment
  PROVE  TypeOK' /\ LocalsOK'
<1> USE DEF TypeOK
<1>a. UNCHANGED <<pc, localVars>> => HandlersTypeOK' /\ LocalsOK'
  BY DEF localVars, HandlersTypeOK, LocalsOK
<1>1. ASSUME NEW u \in notifs, PopulateCache(u)
      PROVE  TypeOK' /\ LocalsOK'
  <2>1. u.new \subseteq CacheRow
    BY DEF OvsdbTypeOK, Update
  <2>2. PluginTypeOK' /\ OvsdbTypeOK'
    BY <1>1, <2>1 DEF PopulateCache, PluginTypeOK, OvsdbTypeOK, dbVars
  <2> QED BY <1>a, <1>1, <2>2, Unchanged DEF PopulateCache
<1>2. CASE LoseConnection
  <2>1. OvsdbTypeOK'
    BY <1>2, Zenon DEF LoseConnection, Disconnect, OvsdbTypeOK, dbVars
  <2> QED BY <1>a, <1>2, <2>1, Unchanged DEF LoseConnection
<1>3. CASE Crash
  BY <1>3, ExitType DEF Crash
<1>4. CASE NewDriver
  <2>1. RowsOf(bridges, ports) \subseteq CacheRow
    <3>1. BridgeRows(bridges) \subseteq CacheRow
      BY DEF OvsdbTypeOK, BridgeRows, BridgeRow, CacheRow, PortName
    <3>2. PortRows(ports) \subseteq CacheRow
      BY DEF OvsdbTypeOK, PortRows, PortRow, CacheRow, PortName
    <3> QED BY <3>1, <3>2 DEF RowsOf
  <2>2. PluginTypeOK' /\ OvsdbTypeOK'
    BY <1>4, <2>1 DEF NewDriver, PluginTypeOK, OvsdbTypeOK, dbVars
  <2> QED BY <1>a, <1>4, <2>2, Unchanged DEF NewDriver
<1>5. ASSUME NEW b \in BridgeName, Vswitchd(b)
      PROVE  TypeOK' /\ LocalsOK'
  <2>1. KernelTypeOK'
    BY <1>5 DEF Vswitchd, KernelTypeOK, PortName
  <2> QED BY <1>a, <1>5, <2>1, Unchanged DEF Vswitchd
<1> QED BY <1>1, <1>2, <1>3, <1>4, <1>5 DEF Environment

LEMMA TypeInit == Init => TypeOK /\ LocalsOK
<1> SUFFICES ASSUME Init PROVE TypeOK /\ LocalsOK
  OBVIOUS
<1>1. OvsdbTypeOK /\ PluginTypeOK /\ KernelTypeOK /\ UnitTypeOK(Command)
  BY DEF Init, OvsdbInit, OvsdbTypeOK, PluginTypeOK, KernelTypeOK, UnitInit, UnitTypeOK
<1>2. HandlersTypeOK
  BY ServiceTypes, LinkRetriesType DEF Init, HandlersTypeOK, Label
<1>3. LocalsOK
  BY LocalAt, Zenon DEF Init, LocalsOK
<1> QED BY <1>1, <1>2, <1>3 DEF TypeOK

LEMMA TypeStep == TypeOK /\ LocalsOK /\ [Next]_vars => TypeOK' /\ LocalsOK'
<1> SUFFICES ASSUME TypeOK, LocalsOK, [Next]_vars PROVE TypeOK' /\ LocalsOK'
  OBVIOUS
<1>1. ASSUME NEW h \in Handler, HandlerStep(h)
      PROVE  TypeOK' /\ LocalsOK'
  BY <1>1, CreateSteps, ServiceSteps, DeleteSteps, PortSteps, ClientSteps DEF HandlerStep
<1>2. CASE UNCHANGED vars
  <2>1. HandlersTypeOK' /\ LocalsOK'
    BY <1>2 DEF vars, TypeOK, HandlersTypeOK, LocalsOK, localVars
  <2> QED BY <1>2, <2>1, Unchanged DEF vars, TypeOK
<1> QED BY <1>1, <1>2, ClientSteps, EnvironmentSteps DEF Next

(* Whatever requests arrive and however their handlers, the notifications, *)
(* crashes and restarts interleave, the tables, the map of networks, the   *)
(* cache and the locals of the handlers keep their types.  LocalsOK says   *)
(* what a handler has at hand at each label.                               *)
THEOREM TypeCorrect == Spec => [](TypeOK /\ LocalsOK)
BY TypeInit, TypeStep, PTL DEF Spec
=============================================================================
