-------------------------- MODULE OvsDriverSafety --------------------------
(* The inductive invariant of OvsDriver, proved: the tables agree, the     *)
(* cache misses nothing for good, and no stale uuid is another row's.      *)
EXTENDS OvsDriverProofs

-----------------------------------------------------------------------------
(* The tables *)

Tables == RowsUnique /\ RowsIssued /\ RowsAgree /\ InternalPorts

(* What a commit may add to the monitored tables: rows with fresh uuids. *)
Fresh ==
    /\ nextUuid <= nextUuid'
    /\ \A c \in Rows' \ Rows : nextUuid <= c.uuid

LEMMA RowsAre ==
  /\ \A c \in Rows : \/ \E r \in bridges : c = [table |-> "Bridge", uuid |-> r.uuid, name |-> r.name]
                     \/ \E p \in ports : c = [table |-> "Port", uuid |-> p.uuid, name |-> p.name]
  /\ \A r \in bridges : [table |-> "Bridge", uuid |-> r.uuid, name |-> r.name] \in Rows
  /\ \A p \in ports : [table |-> "Port", uuid |-> p.uuid, name |-> p.name] \in Rows
BY Zenon DEF Rows, RowsOf, BridgeRows, PortRows

(* Rows of one table and one uuid have one name. *)
LEMMA RowsNamed ==
  ASSUME RowsUnique, NEW c \in Rows, NEW d \in Rows, c.table = d.table, c.uuid = d.uuid
  PROVE  c.name = d.name
BY RowsAre DEF RowsUnique

LEMMA RowsNamedNext ==
  ASSUME RowsUnique', NEW c \in Rows', NEW d \in Rows', c.table = d.table, c.uuid = d.uuid
  PROVE  c.name = d.name
BY DEF Rows, RowsOf, BridgeRows, PortRows, RowsUnique

LEMMA CreateTables ==
  ASSUME OvsdbTypeOK, Tables, NEW b \in BridgeName, NEW t \in ServiceType, NEW n \in Network,
         ~PortExists(b), \A r \in bridges : r.name # b,
         bridges' = bridges \cup {[uuid |-> nextUuid, name |-> b]},
         ports' = ports \cup {[uuid |-> nextUuid + 1, name |-> b, bridge |-> nextUuid]},
         opts' = opts \cup {[name |-> b, network |-> n, type |-> t]},
         nextUuid' = nextUuid + 2
  PROVE  Tables' /\ Fresh
<1>a. nextUuid \in Nat /\ bridges \subseteq BridgeRow /\ ports \subseteq PortRow
  BY DEF OvsdbTypeOK
<1>b. /\ \A r \in bridges : r.uuid \in Nat /\ r.uuid < nextUuid
      /\ \A p \in ports : p.uuid \in Nat /\ p.uuid < nextUuid
  BY <1>a, RowsAre, Zenon DEF Tables, RowsIssued, BridgeRow, PortRow
<1>1. RowsUnique'
  BY <1>a, <1>b DEF Tables, RowsUnique
<1>2. \A c \in Rows' : \/ c \in Rows
                       \/ c = [table |-> "Bridge", uuid |-> nextUuid, name |-> b]
                       \/ c = [table |-> "Port", uuid |-> nextUuid + 1, name |-> b]
  BY DEF Rows, RowsOf, BridgeRows, PortRows
<1>3. RowsIssued'
  BY <1>a, <1>b, <1>2, RowsAre DEF RowsIssued
<1>4. Fresh
  BY <1>a, <1>2 DEF Fresh
<1>5. RowsAgree'
  <2> DEFINE r0 == [uuid |-> nextUuid, name |-> b]
             o0 == [name |-> b, network |-> n, type |-> t]
  <2>0. /\ {r.name : r \in bridges} = {o.name : o \in opts}
        /\ \A o, q \in opts : o.name = q.name => o = q
    BY DEF Tables, RowsAgree
  <2>a. r0.name = b /\ o0.name = b
    OBVIOUS
  <2>b. bridges' = bridges \cup {r0} /\ opts' = opts \cup {o0}
    OBVIOUS
  <2>1. \A o \in opts : o.name # b
    BY <2>0
  <2> HIDE DEF r0, o0
  <2>2. {r.name : r \in bridges'} = {r.name : r \in bridges} \cup {b}
    BY <2>a, <2>b
  <2>3. {o.name : o \in opts'} = {o.name : o \in opts} \cup {b}
    BY <2>a, <2>b
  <2>4. \A o, q \in opts' : o.name = q.name => o = q
    BY <2>0, <2>1, <2>a, <2>b
  <2> QED BY <2>0, <2>2, <2>3, <2>4 DEF RowsAgree
<1>6. InternalPorts'
  <2> DEFINE r0 == [uuid |-> nextUuid, name |-> b]
             p0 == [uuid |-> nextUuid + 1, name |-> b, bridge |-> nextUuid]
  <2>a. p0.name = r0.name /\ p0.bridge = r0.uuid
    OBVIOUS
  <2>b. bridges' = bridges \cup {r0} /\ ports' = ports \cup {p0}
    OBVIOUS
  <2> HIDE DEF r0, p0
  <2> QED BY <2>a, <2>b DEF Tables, InternalPorts
<1> QED BY <1>1, <1>3, <1>4, <1>5, <1>6 DEF Tables

LEMMA DeleteTables ==
  ASSUME OvsdbTypeOK, Tables, NEW b, NEW u,
         \A r \in bridges : r.name = b <=> r.uuid = u,
         bridges' = {r \in bridges : r.name # b /\ r.uuid # u},
         ports' = {p \in ports : \E r \in bridges' : r.uuid = p.bridge},
         opts' = {o \in opts : o.name # b},
         nextUuid' = nextUuid
  PROVE  Tables' /\ Fresh
<1>1. RowsUnique'
  BY DEF Tables, RowsUnique
<1>2. Rows' \subseteq Rows
  BY DEF Rows, RowsOf, BridgeRows, PortRows
<1>3. RowsIssued' /\ Fresh
  BY <1>2 DEF Tables, RowsIssued, Fresh, OvsdbTypeOK
<1>4. RowsAgree'
  BY DEF Tables, RowsAgree
<1>5. InternalPorts'
  <2>1. \A r \in bridges' : \E p \in ports' : p.name = r.name /\ p.bridge = r.uuid
    BY DEF Tables, InternalPorts
  <2>2. ASSUME NEW p \in ports', p.name \in BridgeName
        PROVE  \E r \in bridges' : r.name = p.name /\ r.uuid = p.bridge
    <3>1. PICK r \in bridges : r.name = p.name /\ r.uuid = p.bridge
      BY <2>2 DEF Tables, InternalPorts
    <3>2. PICK q \in bridges' : q.uuid = p.bridge
      OBVIOUS
    <3>3. q = r
      BY <3>1, <3>2 DEF Tables, RowsUnique
    <3> QED BY <3>1, <3>2, <3>3
  <2> QED BY <2>1, <2>2 DEF InternalPorts
<1> QED BY <1>1, <1>3, <1>4, <1>5 DEF Tables

LEMMA AddPortTables ==
  ASSUME OvsdbTypeOK, Tables, NEW b, NEW v \in VethName,
         UNCHANGED <<bridges, opts>>,
         ports' = ports \cup {[uuid |-> nextUuid, name |-> v, bridge |-> r.uuid] :
                                r \in {q \in bridges : q.name = b}},
         nextUuid' = nextUuid + 1
  PROVE  Tables' /\ Fresh
<1>a. nextUuid \in Nat /\ bridges \subseteq BridgeRow /\ ports \subseteq PortRow
  BY DEF OvsdbTypeOK
<1>b. /\ \A r \in bridges : r.uuid \in Nat /\ r.uuid < nextUuid
      /\ \A p \in ports : p.uuid \in Nat /\ p.uuid < nextUuid
  BY <1>a, RowsAre, Zenon DEF Tables, RowsIssued, BridgeRow, PortRow
<1>1. RowsUnique'
  BY <1>a, <1>b DEF Tables, RowsUnique
<1>2. \A c \in Rows' : c \in Rows \/ c = [table |-> "Port", uuid |-> nextUuid, name |-> v]
  BY DEF Rows, RowsOf, BridgeRows, PortRows
<1>3. RowsIssued' /\ Fresh
  <2>1. \A c \in Rows : c.uuid \in Nat /\ c.uuid < nextUuid
    BY <1>b, RowsAre
  <2> QED BY <1>a, <1>2, <2>1 DEF RowsIssued, Fresh
<1>4. RowsAgree'
  BY Zenon DEF Tables, RowsAgree
<1>5. InternalPorts'
  BY NamesDisjoint DEF Tables, InternalPorts
<1> QED BY <1>1, <1>3, <1>4, <1>5 DEF Tables

LEMMA DeletePortTables ==
  ASSUME OvsdbTypeOK, Tables, NEW v \in VethName,
         UNCHANGED <<bridges, opts>>,
         ports' \subseteq ports, \A p \in ports \ ports' : p.name = v,
         nextUuid' = nextUuid
  PROVE  Tables' /\ Fresh
<1>1. RowsUnique'
  BY DEF Tables, RowsUnique
<1>2. Rows' \subseteq Rows
  BY DEF Rows, RowsOf, BridgeRows, PortRows
<1>3. RowsIssued' /\ Fresh
  BY <1>2 DEF Tables, RowsIssued, Fresh, OvsdbTypeOK
<1>4. RowsAgree'
  BY DEF Tables, RowsAgree
<1>5. InternalPorts'
  <2>1. \A r \in bridges : r.name # v
    BY NamesDisjoint DEF OvsdbTypeOK, BridgeRow
  <2> QED BY <2>1 DEF Tables, InternalPorts
<1> QED BY <1>1, <1>3, <1>4, <1>5 DEF Tables

-----------------------------------------------------------------------------
(* The notifications and the cache *)

Telling == ToldRight /\ GoneForGood /\ CacheComplete

(* What holds of the uuids at hand *)
Held == HeldIssued /\ UuidsMatchNames

LEMMA ToldAre ==
  \A c : c \in ToldRows <=> c \in cache \/ \E u \in notifs : c \in u.new \/ c \in u.gone
BY DEF ToldRows

LEMMA RowTypes ==
  ASSUME TypeOK
  PROVE  /\ nextUuid \in Nat
         /\ \A c \in Rows : c.uuid \in Nat
         /\ \A c \in ToldRows : c.uuid \in Nat
<1>1. nextUuid \in Nat /\ \A c \in Rows : c.uuid \in Nat
  BY RowsAre DEF TypeOK, OvsdbTypeOK, BridgeRow, PortRow
<1>2. \A c \in ToldRows : c \in CacheRow
  BY ToldAre DEF TypeOK, OvsdbTypeOK, PluginTypeOK, Update
<1> QED BY <1>1, <1>2 DEF CacheRow

(* A committed transaction tells of rows it adds and removes; the rows it  *)
(* adds have fresh uuids.                                                  *)
LEMMA TransactTells ==
  ASSUME TypeOK, TypeOK', Tables, Tables', Telling, Fresh,
         NEW ok, NEW B, NEW P, NEW O, NEW touched \in SUBSET B, NEW fresh, NEW rep,
         Transact(ok, B, P, O, touched, fresh, rep), UNCHANGED <<up, cache>>,
         bridges' = B, ports' = P
  PROVE  Telling'
<1> DEFINE u0 == UpdateOf(B, P, touched)
<1>a. /\ Rows' = RowsOf(B, P)
      /\ u0.new \subseteq Rows' /\ Rows' \ Rows \subseteq u0.new
      /\ u0.gone \subseteq Rows /\ u0.gone \cap Rows' = {}
  BY Zenon DEF UpdateOf, Rows, RowsOf, BridgeRows
<1>b. /\ notifs' \subseteq notifs \cup {u0}
      /\ conn' => conn /\ notifs \subseteq notifs'
      /\ conn' /\ Rows' \ Rows # {} => u0 \in notifs'
  <2>1. CASE /\ ~(conn /\ ok) /\ rep \in {"error", "none"} /\ (rep = "error" => conn)
             /\ UNCHANGED <<dbVars, notifs>>
    <3>1. Rows' = Rows
      BY <2>1 DEF dbVars, Rows
    <3> QED BY <2>1, <3>1, Zenon DEF Transact
  <2>2. CASE /\ conn /\ ok /\ rep \in {"ok", "none"}
             /\ \/ notifs' = IF u0.new \cup u0.gone = {} THEN notifs ELSE notifs \cup {u0}
                \/ rep = "none" /\ notifs' = notifs
    <3>1. Rows' \ Rows # {} => u0.new \cup u0.gone # {}
      BY <1>a
    <3> HIDE DEF u0
    <3> QED BY <2>2, <3>1, Zenon DEF Transact
  <2> QED BY <2>1, <2>2 DEF Transact
<1> HIDE DEF u0
<1>c. /\ nextUuid \in Nat /\ nextUuid' \in Nat
      /\ \A c \in Rows \cup Rows' \cup ToldRows : c.uuid \in Nat
      /\ \A c \in ToldRows \cup Rows : c.uuid < nextUuid
  <2>1. nextUuid' \in Nat /\ bridges' \subseteq BridgeRow /\ ports' \subseteq PortRow
    BY DEF TypeOK, OvsdbTypeOK
  <2>2. \A c \in Rows' : c.uuid \in Nat
    BY <2>1 DEF Rows, RowsOf, BridgeRows, PortRows, BridgeRow, PortRow
  <2> QED BY <2>1, <2>2, RowTypes DEF Telling, ToldRight, Tables, RowsIssued
<1>d. \A c \in Rows' \ Rows : nextUuid <= c.uuid
  BY DEF Fresh
<1>1. ToldRight'
  <2>1. \A c \in ToldRows' : c \in ToldRows \/ c \in Rows \/ c \in Rows'
    BY <1>a, <1>b, ToldAre DEF ToldRows
  <2>2. \A c \in ToldRows' : c.uuid < nextUuid'
    BY <1>c, <2>1 DEF Tables, RowsIssued, Fresh
  <2>3. ASSUME NEW c \in ToldRows', NEW d \in Rows', d.table = c.table, d.uuid = c.uuid
        PROVE  d.name = c.name
    <3>1. CASE c \in Rows'
      <4>1. RowsUnique'
        BY DEF Tables
      <4> QED BY <2>3, <3>1, <4>1, RowsNamedNext
    <3>2. CASE c \notin Rows' /\ d \in Rows
      BY <2>1, <2>3, <3>2, RowsNamed DEF Telling, ToldRight, Tables
    <3>3. CASE c \notin Rows' /\ d \notin Rows
      BY <1>c, <1>d, <2>1, <2>3, <3>3
    <3> QED BY <3>1, <3>2, <3>3
  <2> QED BY <2>2, <2>3 DEF ToldRight
<1>2. GoneForGood'
  <2> SUFFICES ASSUME NEW u \in notifs', NEW c \in u.gone, c \in Rows'
               PROVE  FALSE
    BY DEF GoneForGood
  <2>1. u = u0 \/ u \in notifs
    BY <1>b
  <2>2. CASE u = u0
    BY <1>a, <2>2
  <2>3. CASE u \in notifs
    <3>1. c \in ToldRows /\ c \notin Rows
      BY <2>3, ToldAre DEF Telling, GoneForGood
    <3> QED BY <1>c, <1>d, <3>1
  <2> QED BY <2>1, <2>2, <2>3
<1>3. CacheComplete'
  <2> SUFFICES ASSUME up', conn', NEW c \in Rows'
               PROVE  c \in cache' \/ \E u \in notifs' : c \in u.new
    BY DEF CacheComplete, Rows
  <2>1. CASE c \in Rows
    BY <1>b, <2>1 DEF Telling, CacheComplete, Rows
  <2>2. CASE c \notin Rows
    BY <1>a, <1>b, <2>2
  <2> QED BY <2>1, <2>2
<1> QED BY <1>1, <1>2, <1>3 DEF Telling

-----------------------------------------------------------------------------
(* The uuids that handlers hold *)

Holding == {"deleteBridge", "deletePort"}

(* No handler gets hold of a uuid in this step. *)
Keeps ==
    \A g \in Handler : pc'[g] \in Holding =>
        pc'[g] = pc[g] /\ uuid'[g] = uuid[g] /\ name'[g] = name[g] /\ req'[g] = req[g]

Quiet == Keeps /\ UNCHANGED <<ovsdbVars, up, cache>>

LEMMA HeldKept ==
  ASSUME TypeOK, TypeOK', LocalsOK, Held, Fresh, Keeps
  PROVE  Held'
<1>a. /\ nextUuid \in Nat /\ nextUuid' \in Nat /\ nextUuid <= nextUuid'
      /\ bridges' \subseteq BridgeRow /\ ports' \subseteq PortRow
  BY DEF TypeOK, OvsdbTypeOK, Fresh
<1>b. \A h \in Handler : pc[h] \in Holding => uuid[h] \in Nat /\ uuid[h] < nextUuid
  BY DEF LocalsOK, LocalOK, Held, HeldIssued, Holding
<1>1. HeldIssued'
  BY <1>a, <1>b DEF HeldIssued, Keeps, Holding
<1>2. ASSUME NEW h \in Handler, pc'[h] = "deleteBridge", NEW r \in bridges', r.uuid = uuid'[h]
      PROVE  r.name = name'[h]
  <2>1. pc[h] = "deleteBridge" /\ uuid'[h] = uuid[h] /\ name'[h] = name[h]
    BY <1>2 DEF Keeps, Holding
  <2> DEFINE c == [table |-> "Bridge", uuid |-> r.uuid, name |-> r.name]
  <2>2. c \in Rows'
    BY DEF Rows, RowsOf, BridgeRows
  <2>3. c \in Rows
    BY <1>a, <1>b, <1>2, <2>1, <2>2 DEF Fresh, Holding
  <2>4. \E q \in bridges : q.uuid = r.uuid /\ q.name = r.name
    BY <2>3, RowsAre
  <2> QED BY <1>2, <2>1, <2>4 DEF Held, UuidsMatchNames, At
<1>3. ASSUME NEW h \in Handler, pc'[h] = "deletePort", NEW p \in ports', p.uuid = uuid'[h]
      PROVE  p.name = VethOf[req'[h].ep]
  <2>1. pc[h] = "deletePort" /\ uuid'[h] = uuid[h] /\ req'[h] = req[h]
    BY <1>3 DEF Keeps, Holding
  <2> DEFINE c == [table |-> "Port", uuid |-> p.uuid, name |-> p.name]
  <2>2. c \in Rows'
    BY DEF Rows, RowsOf, PortRows
  <2>3. c \in Rows
    BY <1>a, <1>b, <1>3, <2>1, <2>2 DEF Fresh, Holding
  <2>4. \E q \in ports : q.uuid = p.uuid /\ q.name = p.name
    BY <2>3, RowsAre
  <2> QED BY <1>3, <2>1, <2>4 DEF Held, UuidsMatchNames, At
<1> QED BY <1>1, <1>2, <1>3 DEF Held, UuidsMatchNames, At

LEMMA KeepsGoto ==
  ASSUME TypeOK, NEW h \in Handler, \E l : l \notin Holding /\ Goto(h, l),
         UNCHANGED <<req, uuid>>,
         UNCHANGED name \/ \E b \in BridgeName : name' = [name EXCEPT ![h] = b]
  PROVE  Keeps
BY DEF TypeOK, HandlersTypeOK, Goto, Keeps

(* Most steps of a handler touch neither the database nor the cache. *)
LEMMA HandlerKinds ==
  ASSUME TypeOK, LocalsOK, NEW h \in Handler, HandlerStep(h)
  PROVE  \/ Quiet \/ Exit
         \/ CreateBridgeIface(h) \/ DeleteBridge(h) \/ AddOvsVethPort(h) \/ DeletePort(h)
         \/ GetBridgeUUIDForName(h) \/ PortUUIDForName(h)
<1>a. \A n \in Network : BridgeNamesOf(n) \subseteq BridgeName
  BY DEF BridgeNamesOf, TypeOK, OvsdbTypeOK, OptRow
<1>b. /\ pc[h] \in DeleteLabel => req[h].net \in Network
      /\ pc[h] \in JoinLabel \cup LeaveLabel => req[h].net \in Network
      /\ pc[h] = "initBridge" => req[h].net \in Network
  BY DEF LocalsOK, LocalOK, CreateLabel, CreateRequest, DeleteRequest, PortRequest
<1>1. CASE CreateNetwork(h)
  <2>1. /\ UNCHANGED <<ovsdbVars, up, cache, req, name, uuid>>
        /\ \E l : l \notin Holding /\ Goto(h, l)
    BY <1>1 DEF CreateNetwork, localVars, Holding
  <2> QED BY <2>1, KeepsGoto DEF Quiet
<1>2. CASE InitBridge(h)
  <2>1. /\ UNCHANGED <<ovsdbVars, up, cache, req, uuid>>
        /\ \E l : l \notin Holding /\ Goto(h, l)
    BY <1>2 DEF InitBridge, pluginVars, Holding
  <2>2. UNCHANGED name \/ \E b \in BridgeName : name' = [name EXCEPT ![h] = b]
    <3>1. req[h].net \in Network
      BY <1>2, <1>b DEF InitBridge, At
    <3>2. networks[req[h].net] # Nil => networks[req[h].net].name \in BridgeName
      BY <3>1, NetStateType DEF TypeOK, PluginTypeOK
    <3>3. \/ UNCHANGED name
          \/ /\ networks[req[h].net] # Nil
             /\ name' = [name EXCEPT ![h] = networks[req[h].net].name]
      BY <1>2, Zenon DEF InitBridge
    <3> QED BY <3>2, <3>3
  <2> QED BY <2>1, <2>2, KeepsGoto DEF Quiet
<1>3. CASE AddBridgeCheck(h)
  <2>1. /\ UNCHANGED <<ovsdbVars, up, cache, req, name, uuid>>
        /\ \E l : l \notin Holding /\ Goto(h, l)
    BY <1>3, Zenon DEF AddBridgeCheck, pluginVars, localVars, Holding, AbandonNetwork
  <2> QED BY <2>1, KeepsGoto DEF Quiet
<1>4. CASE AddBridgeRecheck(h)
  <2>1. /\ UNCHANGED <<ovsdbVars, up, cache, req, name, uuid>>
        /\ \E l : l \notin Holding /\ Goto(h, l)
    BY <1>4 DEF AddBridgeRecheck, pluginVars, localVars, Holding, AbandonNetwork
  <2> QED BY <2>1, KeepsGoto DEF Quiet
<1>5. CASE InterfaceUp(h)
  <2>1. /\ UNCHANGED <<ovsdbVars, up, cache, req, name, uuid>>
        /\ \E l : l \notin Holding /\ Goto(h, l)
    BY <1>5 DEF InterfaceUp, pluginVars, localVars, Holding, AbandonNetwork
  <2> QED BY <2>1, KeepsGoto DEF Quiet
<1>6. CASE StartOvsService(h)
  <2>1. /\ UNCHANGED <<ovsdbVars, up, cache, req, name, uuid>>
        /\ \E l : l \notin Holding /\ Goto(h, l)
    BY <1>6, Zenon DEF StartOvsService, pluginVars, localVars, Holding, ServiceStep
  <2> QED BY <2>1, KeepsGoto DEF Quiet
<1>7. CASE StopOvsService(h)
  <2>1. /\ UNCHANGED <<ovsdbVars, up, cache, req, name, uuid>>
        /\ \E l : l \notin Holding /\ Goto(h, l)
    BY <1>7 DEF StopOvsService, pluginVars, localVars, Holding, ServiceStep
  <2> QED BY <2>1, KeepsGoto DEF Quiet
<1>8. CASE ForgetNetwork(h)
  <2>1. /\ UNCHANGED <<ovsdbVars, up, cache, req, name, uuid>>
        /\ \E l : l \notin Holding /\ Goto(h, l)
    BY <1>8 DEF ForgetNetwork, pluginVars, localVars, Holding
  <2> QED BY <2>1, KeepsGoto DEF Quiet
<1>9. CASE Join(h)
  <2>1. /\ UNCHANGED <<ovsdbVars, up, cache, req, name, uuid>>
        /\ \E l : l \notin Holding /\ Goto(h, l)
    BY <1>9 DEF Join, pluginVars, localVars, Holding
  <2> QED BY <2>1, KeepsGoto DEF Quiet
<1>10. CASE LinkSetUp(h)
  <2>1. /\ UNCHANGED <<ovsdbVars, up, cache, req, name, uuid>>
        /\ \E l : l \notin Holding /\ Goto(h, l)
    BY <1>10 DEF LinkSetUp, pluginVars, localVars, Holding
  <2> QED BY <2>1, KeepsGoto DEF Quiet
<1>11. CASE GetIPByInterface(h)
  <2>1. /\ UNCHANGED <<ovsdbVars, up, cache, req, name, uuid>>
        /\ \E l : l \notin Holding /\ Goto(h, l)
    BY <1>11 DEF GetIPByInterface, pluginVars, localVars, Holding
  <2> QED BY <2>1, KeepsGoto DEF Quiet
<1>12. CASE Leave(h)
  <2>1. /\ UNCHANGED <<ovsdbVars, up, cache, req, name, uuid>>
        /\ \E l : l \notin Holding /\ Goto(h, l)
    BY <1>12 DEF Leave, pluginVars, localVars, Holding
  <2> QED BY <2>1, KeepsGoto DEF Quiet
<1>13. CASE EndpointStub(h)
  <2>1. /\ UNCHANGED <<ovsdbVars, up, cache, req, name, uuid>>
        /\ \E l : l \notin Holding /\ Goto(h, l)
    BY <1>13 DEF EndpointStub, pluginVars, localVars, Holding
  <2> QED BY <2>1, KeepsGoto DEF Quiet
<1>14. CASE WaitForLink(h)
  <2>1. UNCHANGED <<ovsdbVars, up, cache, req, name, uuid>>
    BY <1>14 DEF WaitForLink
  <2>2. UNCHANGED pc \/ \E l : l \notin Holding /\ Goto(h, l)
    BY <1>14 DEF WaitForLink, AbandonNetwork, Holding
  <2>3. UNCHANGED pc => Keeps
    BY <2>1 DEF Keeps
  <2> QED BY <2>1, <2>2, <2>3, KeepsGoto DEF Quiet
<1>15. CASE SetInterfaceIP(h)
  <2>1. \/ Exit
        \/ /\ UNCHANGED <<ovsdbVars, up, cache, req, name, uuid>>
           /\ \E l : l \notin Holding /\ Goto(h, l)
    BY <1>15, Zenon DEF SetInterfaceIP, pluginVars, localVars, Holding
  <2> QED BY <2>1, KeepsGoto DEF Quiet
<1>16. CASE GetIfaceAddr(h)
  <2>1. \/ Exit
        \/ /\ UNCHANGED <<ovsdbVars, up, cache, req, name, uuid>>
           /\ \E l : l \notin Holding /\ Goto(h, l)
    BY <1>16 DEF GetIfaceAddr, pluginVars, localVars, Holding
  <2> QED BY <2>1, KeepsGoto DEF Quiet
<1>17. CASE NatOut(h)
  <2>1. \/ Exit
        \/ /\ UNCHANGED <<ovsdbVars, up, cache, req, name, uuid>>
           /\ \E l : l \notin Holding /\ Goto(h, l)
    BY <1>17 DEF NatOut, pluginVars, localVars, Holding
  <2> QED BY <2>1, KeepsGoto DEF Quiet
<1>18. CASE DeleteNetwork(h)
  <2>1. /\ UNCHANGED <<ovsdbVars, up, cache, req, uuid>>
        /\ \E l : l \notin Holding /\ Goto(h, l)
    BY <1>18 DEF DeleteNetwork, LookupBridge, pluginVars, Holding
  <2>2. UNCHANGED name \/ \E b \in BridgeName : name' = [name EXCEPT ![h] = b]
    BY <1>18, <1>a, <1>b DEF DeleteNetwork, LookupBridge, At, DeleteLabel
  <2> QED BY <2>1, <2>2, KeepsGoto DEF Quiet
<1>19. CASE BridgeForJoin(h)
  <2>1. /\ UNCHANGED <<ovsdbVars, up, cache, req, uuid>>
        /\ \E l : l \notin Holding /\ Goto(h, l)
    BY <1>19 DEF BridgeForJoin, LookupBridge, pluginVars, Holding
  <2>2. UNCHANGED name \/ \E b \in BridgeName : name' = [name EXCEPT ![h] = b]
    BY <1>19, <1>a, <1>b DEF BridgeForJoin, LookupBridge, At, JoinLabel
  <2> QED BY <2>1, <2>2, KeepsGoto DEF Quiet
<1>20. CASE BridgeForLeave(h)
  <2>1. /\ UNCHANGED <<ovsdbVars, up, cache, req, uuid>>
        /\ \E l : l \notin Holding /\ Goto(h, l)
    BY <1>20 DEF BridgeForLeave, LookupBridge, pluginVars, Holding
  <2>2. UNCHANGED name \/ \E b \in BridgeName : name' = [name EXCEPT ![h] = b]
    BY <1>20, <1>a, <1>b DEF BridgeForLeave, LookupBridge, At, LeaveLabel
  <2> QED BY <2>1, <2>2, KeepsGoto DEF Quiet
<1>21. CASE GetBridgeServiceType(h)
  <2>1. /\ UNCHANGED <<ovsdbVars, up, cache, req, name, uuid>>
        /\ \E l : l \notin Holding /\ Goto(h, l)
    BY <1>21 DEF GetBridgeServiceType, pluginVars, localVars, Holding
  <2> QED BY <2>1, KeepsGoto DEF Quiet
<1> QED BY Zenon, <1>1, <1>2, <1>3, <1>4, <1>5, <1>6, <1>7, <1>8, <1>9, <1>10, <1>11,
            <1>12, <1>13, <1>14, <1>15, <1>16, <1>17, <1>18, <1>19, <1>20, <1>21 DEF HandlerStep

-----------------------------------------------------------------------------
(* The steps *)

(* Nothing happens to the tables and their notifications. *)
LEMMA Still ==
  ASSUME TypeOK, Tables, Telling, UNCHANGED <<dbVars, notifs, up, cache>>, conn' => conn
  PROVE  Tables' /\ Telling' /\ Fresh
<1>1. Rows' = Rows /\ ToldRows' = ToldRows
  BY DEF dbVars, Rows, ToldRows
<1>2. Tables'
  BY <1>1 DEF dbVars, Tables, RowsUnique, RowsIssued, RowsAgree, InternalPorts
<1>3. Telling'
  BY <1>1, Zenon DEF dbVars, Telling, ToldRight, GoneForGood, CacheComplete, Rows
<1>4. Fresh
  BY <1>1 DEF Fresh, dbVars, TypeOK, OvsdbTypeOK
<1> QED BY <1>2, <1>3, <1>4

(* A transaction is refused, or it leaves the tables it was to leave. *)
LEMMA TransactCases ==
  ASSUME NEW ok, NEW B, NEW P, NEW O, NEW touched, NEW fresh, NEW rep,
         Transact(ok, B, P, O, touched, fresh, rep)
  PROVE  \/ UNCHANGED <<dbVars, notifs>> /\ (conn' => conn)
         \/ ok /\ bridges' = B /\ ports' = P /\ opts' = O /\ nextUuid' = nextUuid + fresh
BY Zenon DEF Transact

LEMMA CreateSafe ==
  ASSUME TypeOK, TypeOK', LocalsOK, Tables, Telling, NEW h \in Handler, CreateBridgeIface(h)
  PROVE  Tables' /\ Telling' /\ Fresh
<1> DEFINE b == name[h]
           n == req[h].net
           B == bridges \cup {[uuid |-> nextUuid, name |-> b]}
           P == ports \cup {[uuid |-> nextUuid + 1, name |-> b, bridge |-> nextUuid]}
           O == opts \cup {[name |-> b, network |-> n, type |-> type[h]]}
           ok == ~PortExists(b) /\ \A r \in bridges : r.name # b
<1>1. PICK rep \in Reply : Transact(ok, B, P, O, {}, 2, rep)
  BY Zenon DEF CreateBridgeIface, createOvsdbBridge
<1>2. b \in BridgeName /\ n \in Network /\ type[h] \in ServiceType /\ UNCHANGED <<up, cache>>
  BY Zenon DEF CreateBridgeIface, At, LocalsOK, LocalOK, NamedLabel, CreateLabel, CreateRequest,
         pluginVars, TypeOK, HandlersTypeOK
<1> HIDE DEF b, n
<1>3. CASE UNCHANGED <<dbVars, notifs>> /\ (conn' => conn)
  BY <1>2, <1>3, Still
<1>4. CASE ok /\ bridges' = B /\ ports' = P /\ opts' = O /\ nextUuid' = nextUuid + 2
  <2>1. Tables' /\ Fresh
    BY <1>2, <1>4, CreateTables, Zenon DEF TypeOK
  <2> HIDE DEF B, P, O, ok
  <2>2. Telling'
    BY <1>1, <1>2, <1>4, <2>1, TransactTells, Zenon
  <2> QED BY <2>1, <2>2
<1> HIDE DEF B, P, O, ok
<1> QED BY <1>1, <1>3, <1>4, TransactCases

LEMMA DeleteSafe ==
  ASSUME TypeOK, TypeOK', LocalsOK, Tables, Telling, Held, NEW h \in Handler, DeleteBridge(h)
  PROVE  Tables' /\ Telling' /\ Fresh
<1> DEFINE b == name[h]
           u == uuid[h]
           B == {r \in bridges : r.name # b /\ r.uuid # u}
           P == {p \in ports : \E r \in B : r.uuid = p.bridge}
           O == {o \in opts : o.name # b}
           ok == \A r \in bridges : r.name = b => r.uuid = u
<1>1. PICK rep \in Reply : Transact(ok, B, P, O, {}, 0, rep)
  BY Zenon DEF DeleteBridge, deleteBridgeRows
<1>2. UNCHANGED <<up, cache>> /\ \A r \in bridges : r.uuid = u => r.name = b
  BY Zenon DEF DeleteBridge, At, pluginVars, Held, UuidsMatchNames
<1> HIDE DEF b, u
<1>3. CASE UNCHANGED <<dbVars, notifs>> /\ (conn' => conn)
  BY <1>2, <1>3, Still
<1>4. CASE ok /\ bridges' = B /\ ports' = P /\ opts' = O /\ nextUuid' = nextUuid + 0
  <2>1. nextUuid' = nextUuid
    BY <1>4 DEF TypeOK, OvsdbTypeOK
  <2>2. Tables' /\ Fresh
    BY <1>2, <1>4, <2>1, DeleteTables, Zenon DEF TypeOK
  <2> HIDE DEF B, P, O, ok
  <2>3. Telling'
    BY <1>1, <1>2, <1>4, <2>2, TransactTells, Zenon
  <2> QED BY <2>2, <2>3
<1> HIDE DEF B, P, O, ok
<1> QED BY <1>1, <1>3, <1>4, TransactCases

LEMMA AddPortSafe ==
  ASSUME TypeOK, TypeOK', LocalsOK, Tables, Telling, NEW h \in Handler, AddOvsVethPort(h)
  PROVE  Tables' /\ Telling' /\ Fresh
<1> DEFINE b == name[h]
           v == VethOf[req[h].ep]
           owners == {r \in bridges : r.name = b}
           P == ports \cup {[uuid |-> nextUuid, name |-> v, bridge |-> r.uuid] : r \in owners}
           ok == ~PortExists(v)
<1>1. PICK rep \in Reply : Transact(ok, bridges, P, opts, owners, 1, rep)
  BY Zenon DEF AddOvsVethPort, addOvsVethPort
<1>2. v \in VethName /\ UNCHANGED <<up, cache>>
  BY VethOfType, Zenon DEF AddOvsVethPort, At, LocalsOK, LocalOK, JoinLabel, PortRequest, pluginVars
<1> HIDE DEF b, v
<1>3. CASE UNCHANGED <<dbVars, notifs>> /\ (conn' => conn)
  BY <1>2, <1>3, Still
<1>4. CASE ok /\ bridges' = bridges /\ ports' = P /\ opts' = opts /\ nextUuid' = nextUuid + 1
  <2>1. Tables' /\ Fresh
    BY <1>2, <1>4, AddPortTables, Zenon DEF TypeOK
  <2>2. owners \in SUBSET bridges
    OBVIOUS
  <2> HIDE DEF owners, P, ok
  <2>3. Telling'
    BY <1>1, <1>2, <1>4, <2>1, <2>2, TransactTells, Zenon
  <2> QED BY <2>1, <2>3
<1> HIDE DEF owners, P, ok
<1> QED BY <1>1, <1>3, <1>4, TransactCases

LEMMA DeletePortSafe ==
  ASSUME TypeOK, TypeOK', LocalsOK, Tables, Telling, Held, NEW h \in Handler, DeletePort(h)
  PROVE  Tables' /\ Telling' /\ Fresh
<1> DEFINE b == name[h]
           v == VethOf[req[h].ep]
           u == uuid[h]
           Unlisted(p) == p.uuid = u /\ \E r \in bridges : r.name = b /\ r.uuid = p.bridge
           ok == \A p \in ports : p.name = v => Unlisted(p)
           P == {p \in ports : p.name # v /\ ~Unlisted(p)}
           touched == {r \in bridges : r.name = b /\ \E p \in ports : p.bridge = r.uuid /\ Unlisted(p)}
<1>1. PICK rep \in Reply : Transact(ok, bridges, P, opts, touched, 0, rep)
  BY Zenon DEF DeletePort, deletePortRows
<1>2. /\ v \in VethName /\ UNCHANGED <<up, cache>>
      /\ \A p \in ports : p.uuid = u => p.name = v
  <2>1. v \in VethName
    BY VethOfType, Zenon DEF DeletePort, At, LocalsOK, LocalOK, LeaveLabel, PortRequest
  <2> QED BY <2>1, Zenon DEF DeletePort, At, pluginVars, Held, UuidsMatchNames
<1> HIDE DEF b, v, u
<1>3. CASE UNCHANGED <<dbVars, notifs>> /\ (conn' => conn)
  BY <1>2, <1>3, Still
<1>4. CASE ok /\ bridges' = bridges /\ ports' = P /\ opts' = opts /\ nextUuid' = nextUuid + 0
  <2>1. nextUuid' = nextUuid
    BY <1>4 DEF TypeOK, OvsdbTypeOK
  <2>2. ports' \subseteq ports /\ \A p \in ports \ ports' : p.name = v
    BY <1>2, <1>4
  <2>3. Tables' /\ Fresh
    BY <1>2, <1>4, <2>1, <2>2, DeletePortTables DEF TypeOK
  <2>4. touched \in SUBSET bridges
    OBVIOUS
  <2> HIDE DEF P, ok, touched
  <2>5. Telling'
    BY <1>1, <1>2, <1>4, <2>3, <2>4, TransactTells, Zenon
  <2> QED BY <2>3, <2>5
<1> HIDE DEF P, ok, touched
<1> QED BY <1>1, <1>3, <1>4, TransactCases

LEMMA LookupBridgeSafe ==
  ASSUME TypeOK, TypeOK', LocalsOK, Tables, Telling, Held, NEW h \in Handler, GetBridgeUUIDForName(h)
  PROVE  Tables' /\ Telling' /\ Held'
<1>1. Tables' /\ Telling' /\ Fresh
  BY Still DEF GetBridgeUUIDForName, ovsdbVars, dbVars, pluginVars
<1>2. UNCHANGED <<bridges, ports, nextUuid, cache, name, req>>
  BY DEF GetBridgeUUIDForName, ovsdbVars, pluginVars
<1>3. ASSUME NEW c \in cache, c.table = "Bridge", c.name = name[h],
             uuid' = [uuid EXCEPT ![h] = c.uuid], Goto(h, "deleteBridge")
      PROVE  Held'
  <2>1. /\ pc'[h] = "deleteBridge" /\ uuid'[h] = c.uuid
        /\ \A g \in Handler \ {h} : pc'[g] = pc[g] /\ uuid'[g] = uuid[g]
    BY <1>3, Zenon DEF Goto, TypeOK, HandlersTypeOK
  <2>2. c.uuid < nextUuid /\ \A x \in bridges : x.uuid = c.uuid => x.name = name[h]
    BY <1>3, RowsAre, ToldAre, Zenon DEF Telling, ToldRight
  <2>3. HeldIssued'
    BY <1>2, <2>1, <2>2, Zenon DEF Held, HeldIssued
  <2>4. UuidsMatchNames'
    <3> SUFFICES ASSUME NEW g \in Handler
                 PROVE  /\ pc'[g] = "deleteBridge" =>
                             \A r \in bridges : r.uuid = uuid'[g] => r.name = name[g]
                        /\ pc'[g] = "deletePort" =>
                             \A p \in ports : p.uuid = uuid'[g] => p.name = VethOf[req[g].ep]
      BY <1>2, Zenon DEF UuidsMatchNames, At
    <3>1. CASE g = h
      BY <2>1, <2>2, <3>1, Zenon
    <3>2. CASE g # h
      <4>1. pc'[g] = pc[g] /\ uuid'[g] = uuid[g]
        BY <2>1, <3>2
      <4> QED BY <4>1, Zenon DEF Held, UuidsMatchNames, At
    <3> QED BY <3>1, <3>2, Zenon
  <2> QED BY <2>3, <2>4 DEF Held
<1>4. CASE Goto(h, "error") /\ UNCHANGED uuid
  <2>1. Keeps
    BY <1>2, <1>4, KeepsGoto DEF Holding
  <2> QED BY <1>1, <2>1, HeldKept
<1> QED BY <1>1, <1>3, <1>4, Zenon DEF GetBridgeUUIDForName, LookupUuid

LEMMA LookupPortSafe ==
  ASSUME TypeOK, TypeOK', LocalsOK, Tables, Telling, Held, NEW h \in Handler, PortUUIDForName(h)
  PROVE  Tables' /\ Telling' /\ Held'
<1>1. Tables' /\ Telling' /\ Fresh
  BY Still, Zenon DEF PortUUIDForName, ovsdbVars, dbVars, pluginVars
<1>2. UNCHANGED <<bridges, ports, nextUuid, cache, name, req>>
  BY Zenon DEF PortUUIDForName, ovsdbVars, pluginVars
<1>3. ASSUME NEW c \in cache, c.table = "Port", c.name = VethOf[req[h].ep],
             uuid' = [uuid EXCEPT ![h] = c.uuid], Goto(h, "deletePort")
      PROVE  Held'
  <2>1. /\ pc'[h] = "deletePort" /\ uuid'[h] = c.uuid
        /\ \A g \in Handler \ {h} : pc'[g] = pc[g] /\ uuid'[g] = uuid[g]
    BY <1>3, Zenon DEF Goto, TypeOK, HandlersTypeOK
  <2>2. c.uuid < nextUuid /\ \A x \in ports : x.uuid = c.uuid => x.name = VethOf[req[h].ep]
    BY <1>3, RowsAre, ToldAre, Zenon DEF Telling, ToldRight
  <2>3. HeldIssued'
    BY <1>2, <2>1, <2>2, Zenon DEF Held, HeldIssued
  <2>4. UuidsMatchNames'
    <3> SUFFICES ASSUME NEW g \in Handler
                 PROVE  /\ pc'[g] = "deleteBridge" =>
                             \A r \in bridges : r.uuid = uuid'[g] => r.name = name[g]
                        /\ pc'[g] = "deletePort" =>
                             \A p \in ports : p.uuid = uuid'[g] => p.name = VethOf[req[g].ep]
      BY <1>2, Zenon DEF UuidsMatchNames, At
    <3>1. CASE g = h
      BY <2>1, <2>2, <3>1, Zenon
    <3>2. CASE g # h
      <4>1. pc'[g] = pc[g] /\ uuid'[g] = uuid[g]
        BY <2>1, <3>2
      <4> QED BY <4>1, Zenon DEF Held, UuidsMatchNames, At
    <3> QED BY <3>1, <3>2, Zenon
  <2> QED BY <2>3, <2>4 DEF Held
<1>4. CASE Goto(h, "error") /\ UNCHANGED uuid
  <2>1. Keeps
    BY <1>2, <1>4, KeepsGoto DEF Holding
  <2> QED BY <1>1, <2>1, HeldKept
<1> QED BY <1>1, <1>3, <1>4, Zenon DEF PortUUIDForName, LookupUuid

LEMMA ExitSafe ==
  ASSUME TypeOK, TypeOK', LocalsOK, Tables, Telling, Held, Exit
  PROVE  Tables' /\ Telling' /\ Held'
<1>1. Rows' = Rows /\ ToldRows' = {}
  BY DEF Exit, dbVars, Rows, ToldRows
<1>2. Tables'
  BY <1>1, Zenon DEF Exit, dbVars, Tables, RowsUnique, RowsIssued, RowsAgree, InternalPorts
<1>3. Telling'
  BY <1>1, Zenon DEF Exit, Telling, ToldRight, GoneForGood, CacheComplete
<1>4. Held'
  BY Zenon DEF Exit, Held, HeldIssued, UuidsMatchNames, At
<1> QED BY <1>2, <1>3, <1>4

LEMMA EnvironmentSafe ==
  ASSUME TypeOK, TypeOK', LocalsOK, Tables, Telling, Held, Environment
  PROVE  Tables' /\ Telling' /\ Held'
<1>a. UNCHANGED <<dbVars, pc, localVars>> => Fresh /\ Keeps /\ Rows' = Rows /\ Tables'
  <2> SUFFICES ASSUME UNCHANGED <<dbVars, pc, localVars>>
               PROVE  Fresh /\ Keeps /\ Rows' = Rows /\ Tables'
    OBVIOUS
  <2>1. UNCHANGED <<bridges, ports, opts, nextUuid>> /\ Rows' = Rows
    BY DEF dbVars, Rows
  <2>2. Fresh
    BY <2>1 DEF TypeOK, OvsdbTypeOK, Fresh
  <2>3. Keeps
    BY DEF localVars, Keeps
  <2>4. RowsUnique' /\ RowsIssued'
    BY <2>1 DEF Tables, RowsUnique, RowsIssued
  <2>5. RowsAgree' /\ InternalPorts'
    BY <2>1 DEF Tables, RowsAgree, InternalPorts
  <2> QED BY <2>1, <2>2, <2>3, <2>4, <2>5 DEF Tables
<1>1. ASSUME NEW u \in notifs, PopulateCache(u)
      PROVE  Tables' /\ Telling' /\ Held'
  <2>1. Rows' = Rows /\ Tables' /\ Held'
    BY <1>a, <1>1, HeldKept DEF PopulateCache
  <2>2. /\ cache' = (cache \ u.gone) \cup u.new /\ notifs' = notifs \ {u}
        /\ UNCHANGED <<nextUuid, conn, up>>
    BY <1>1 DEF PopulateCache, dbVars
  <2>3. ToldRows' \subseteq ToldRows
    BY <2>2 DEF ToldRows
  <2>4. ToldRight' /\ GoneForGood'
    BY <2>1, <2>2, <2>3 DEF Telling, ToldRight, GoneForGood
  <2>5. CacheComplete'
    <3> SUFFICES ASSUME up, conn, NEW c \in Rows
                 PROVE  c \in cache' \/ \E w \in notifs' : c \in w.new
      BY <2>1, <2>2, Zenon DEF CacheComplete, Rows
    <3>1. c \notin u.gone
      BY DEF Telling, GoneForGood
    <3>2. c \in cache \/ \E w \in notifs : c \in w.new
      BY DEF Telling, CacheComplete, Rows
    <3> QED BY <2>2, <3>1, <3>2
  <2> QED BY <2>1, <2>4, <2>5 DEF Telling
<1>2. CASE LoseConnection
  <2>1. Tables' /\ Telling'
    BY <1>2, Still DEF LoseConnection, Disconnect, pluginVars
  <2> QED BY <1>a, <1>2, <2>1, HeldKept DEF LoseConnection, Disconnect
<1>3. CASE Crash
  BY <1>3, ExitSafe DEF Crash
<1>4. CASE NewDriver
  <2>1. Rows' = Rows /\ Tables' /\ Held'
    BY <1>a, <1>4, HeldKept DEF NewDriver
  <2>2. cache' = Rows /\ UNCHANGED <<notifs, nextUuid>>
    BY <1>4 DEF NewDriver, dbVars, Rows
  <2>3. \A c \in ToldRows' : c \in Rows \/ c \in ToldRows
    BY <2>2 DEF ToldRows
  <2>4. ToldRight'
    BY <2>1, <2>2, <2>3, RowsNamed DEF Telling, ToldRight, Tables, RowsIssued
  <2>5. GoneForGood' /\ CacheComplete'
    BY <2>1, <2>2 DEF Telling, GoneForGood, CacheComplete, Rows
  <2> QED BY <2>1, <2>4, <2>5 DEF Telling
<1>5. ASSUME NEW b \in BridgeName, Vswitchd(b)
      PROVE  Tables' /\ Telling' /\ Held'
  <2>1. UNCHANGED <<dbVars, notifs, conn, up, cache, pc, localVars>>
    BY <1>5 DEF Vswitchd, ovsdbVars, dbVars, pluginVars
  <2>2. Tables' /\ Telling'
    BY <2>1, Still
  <2> QED BY <1>a, <2>1, <2>2, HeldKept
<1> QED BY <1>1, <1>2, <1>3, <1>4, <1>5 DEF Environment

LEMMA QuietSafe ==
  ASSUME TypeOK, TypeOK', LocalsOK, Tables, Telling, Held, Quiet
  PROVE  Tables' /\ Telling' /\ Held'
<1>1. Tables' /\ Telling' /\ Fresh
  BY Still DEF Quiet, ovsdbVars, dbVars
<1> QED BY <1>1, HeldKept DEF Quiet

LEMMA HandlerSafe ==
  ASSUME TypeOK, TypeOK', LocalsOK, Tables, Telling, Held, NEW h \in Handler, HandlerStep(h)
  PROVE  Tables' /\ Telling' /\ Held'
<1>1. ASSUME CreateBridgeIface(h) \/ DeleteBridge(h) \/ AddOvsVethPort(h) \/ DeletePort(h)
      PROVE  Tables' /\ Telling' /\ Held'
  <2>1. Tables' /\ Telling' /\ Fresh
    BY <1>1, CreateSafe, DeleteSafe, AddPortSafe, DeletePortSafe
  <2>2. UNCHANGED <<req, name, uuid>> /\ \E l : l \notin Holding /\ Goto(h, l)
    BY <1>1, Zenon DEF CreateBridgeIface, DeleteBridge, AddOvsVethPort, DeletePort, localVars, Holding
  <2>3. Keeps
    BY <2>2, KeepsGoto
  <2> QED BY <2>1, <2>3, HeldKept
<1> QED BY <1>1, HandlerKinds, QuietSafe, ExitSafe, LookupBridgeSafe, LookupPortSafe

LEMMA IndInvIs == IndInv <=> TypeOK /\ LocalsOK /\ Tables /\ Telling /\ Held
BY DEF IndInv, Tables, Telling, Held

LEMMA IndInvInit == Init => IndInv
<1> SUFFICES ASSUME Init PROVE IndInv
  OBVIOUS
<1>1. TypeOK /\ LocalsOK
  BY TypeInit
<1>2. Rows = {} /\ ToldRows = {}
  BY Zenon DEF Init, OvsdbInit, Rows, RowsOf, BridgeRows, PortRows, ToldRows
<1>3. Tables
  BY <1>2, Zenon DEF Init, OvsdbInit, Tables, RowsUnique, RowsIssued, RowsAgree, InternalPorts
<1>4. Telling
  BY <1>2, Zenon DEF Init, OvsdbInit, Telling, ToldRight, GoneForGood, CacheComplete, Rows
<1>5. Held
  BY Zenon DEF Init, Held, HeldIssued, UuidsMatchNames, At
<1> QED BY <1>1, <1>3, <1>4, <1>5, IndInvIs

LEMMA IndInvStep == IndInv /\ [Next]_vars => IndInv'
<1> SUFFICES ASSUME TypeOK, LocalsOK, Tables, Telling, Held, [Next]_vars
             PROVE  IndInv'
  BY IndInvIs
<1>1. TypeOK' /\ LocalsOK'
  BY TypeStep
<1>2. ASSUME NEW h \in Handler, (\E r \in Request : Receive(h, r)) \/ Return(h)
      PROVE  Quiet
  <2>1. UNCHANGED <<ovsdbVars, up, cache>>
    BY <1>2 DEF Receive, Return, pluginVars
  <2>2. pc'[h] \notin Holding
    <3>1. \A r \in Request : r.op \notin Holding
      BY Zenon DEF Request, CreateRequest, DeleteRequest, PortRequest, StubRequest, Holding
    <3> QED BY <1>2, <3>1, Zenon DEF Receive, Return, Goto, Holding, TypeOK, HandlersTypeOK
  <2>3. \A g \in Handler \ {h} :
          pc'[g] = pc[g] /\ uuid'[g] = uuid[g] /\ name'[g] = name[g] /\ req'[g] = req[g]
    BY <1>2, Zenon DEF Receive, Return, Goto, TypeOK, HandlersTypeOK
  <2> QED BY <2>1, <2>2, <2>3, Zenon DEF Quiet, Keeps
<1>3. UNCHANGED vars => Quiet
  BY Zenon DEF vars, pluginVars, localVars, Quiet, Keeps
<1>4. Tables' /\ Telling' /\ Held'
  BY <1>1, <1>2, <1>3, QuietSafe, HandlerSafe, EnvironmentSafe DEF Next
<1> QED BY <1>1, <1>4 DEF IndInv, Tables, Telling, Held

(* The whole inductive invariant holds of every behaviour, for any number  *)
(* of concurrent handlers, networks, endpoints, bridge names and retries.  *)
THEOREM IndInvHolds == Spec => []IndInv
BY IndInvInit, IndInvStep, PTL DEF Spec

(* Bridge and BridgeOpt stay in step although addBridge checks and creates *)
(* in two calls and deleteBridge works with a uuid that may be stale.      *)
THEOREM TablesAgree == Spec => []RowsAgree
<1>1. IndInv => RowsAgree
  BY DEF IndInv
<1> QED BY <1>1, IndInvHolds, PTL

(* A port with the name of a bridge is that bridge's internal port: what   *)
(* addBridge infers from portExists is sound.                              *)
THEOREM PortMeansBridge == Spec => []InternalPorts
<1>1. IndInv => InternalPorts
  BY DEF IndInv
<1> QED BY <1>1, IndInvHolds, PTL

(* While the connection lives no row is missing from the cache for good,   *)
(* in whatever order the goroutines of rpc2 apply the updates.             *)
THEOREM CacheCatchesUp == Spec => []CacheComplete
<1>1. IndInv => CacheComplete
  BY DEF IndInv
<1> QED BY <1>1, IndInvHolds, PTL

(* The uuid that deleteBridge or deletePort took from the cache is never   *)
(* that of a live row with another name.                                   *)
THEOREM StaleUuidsHarmless == Spec => []UuidsMatchNames
<1>1. IndInv => UuidsMatchNames
  BY DEF IndInv
<1> QED BY <1>1, IndInvHolds, PTL
=============================================================================
