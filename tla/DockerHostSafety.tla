-------------------------- MODULE DockerHostSafety --------------------------
(* Proofs about DockerHost. Docker is one client of the driver, so all that *)
(* is proved of the driver for any client holds of the host. What docker is *)
(* told holds of the database: the inductive invariants of DockerHost,      *)
(* proved one upon the other.                                               *)
EXTENDS DockerHost, OvsDriverSafety

LEMMA CallIsReceive ==
  ASSUME NEW h \in Handler,
         \/ \E n \in Network : CallCreate(h, n) \/ CallDelete(h, n)
         \/ \E e \in Endpoint : CallJoin(h, e) \/ CallLeave(h, e)
  PROVE  \E r \in Request : Receive(h, r)
<1>1. ASSUME NEW n \in Network
      PROVE  CreateOf(n) \in Request /\ DeleteOf(n) \in Request
  BY ConfigType, Zenon DEF CreateOf, DeleteOf, Request, CreateRequest, DeleteRequest
<1>2. ASSUME NEW e \in Endpoint
      PROVE  JoinOf(e) \in Request /\ LeaveOf(e) \in Request
  BY NetOfType, Zenon DEF JoinOf, LeaveOf, Request, PortRequest
<1>3. ASSUME NEW n \in Network, CallCreate(h, n) \/ CallDelete(h, n)
      PROVE  \E r \in Request : Receive(h, r)
  BY <1>1, <1>3, Zenon DEF CallCreate, CallDelete
<1>4. ASSUME NEW e \in Endpoint, CallJoin(h, e) \/ CallLeave(h, e)
      PROVE  \E r \in Request : Receive(h, r)
  BY <1>2, <1>4, Zenon DEF CallJoin, CallLeave
<1> QED BY <1>3, <1>4, Zenon

LEMMA HostStepIsDriverStep == [HostNext]_hostVars => [Next]_vars
<1> SUFFICES ASSUME [HostNext]_hostVars PROVE [Next]_vars
  BY Zenon
<1>1. ASSUME NEW h \in Handler, Answered(h) PROVE Return(h)
  BY <1>1, Zenon DEF Answered
<1>2. UNCHANGED hostVars => UNCHANGED vars
  BY DEF hostVars
<1> QED BY <1>1, <1>2, CallIsReceive, Zenon DEF HostNext, Next

(* Every behaviour of the driver under docker is one of the driver under   *)
(* an arbitrary client: the protocol only restricts which requests arrive. *)
THEOREM HostImplementsDriver == HostSpec => Spec
<1>1. HostInit => Init
  BY DEF HostInit
<1> QED BY <1>1, HostStepIsDriverStep, PTL DEF HostSpec, Spec

(* So under docker, too, the tables agree and stale uuids are harmless.    *)
THEOREM HostKeepsDriverInvariant == HostSpec => []IndInv
BY HostImplementsDriver, IndInvHolds, PTL

-----------------------------------------------------------------------------
(* The daemon's view *)

DockerTypeOK ==
    /\ dnet \in [Network -> NetView]
    /\ dep \in [Endpoint -> EndpointView]
    /\ confirmed \subseteq Network \cup Endpoint

(* A handler that is not idle serves a request. *)
Busy == \A h \in Handler : pc[h] # "idle" => req[h] \in Request

(* A handler at work keeps its request, and only the end of the process   *)
(* makes another handler move.                                             *)
LEMMA StepOfServing ==
  ASSUME NEW h \in Handler, HandlerStep(h)
  PROVE  Exit \/ (UNCHANGED <<up, req>> /\ pc[h] # "idle" /\ (UNCHANGED pc \/ \E l : Goto(h, l)))
<1>1. ASSUME \/ CreateNetwork(h) \/ InitBridge(h) \/ AddBridgeCheck(h) \/ CreateBridgeIface(h)
             \/ AddBridgeRecheck(h) \/ WaitForLink(h) \/ InterfaceUp(h)
      PROVE  UNCHANGED <<up, req>> /\ pc[h] # "idle" /\ (UNCHANGED pc \/ \E l : Goto(h, l))
  BY <1>1, Zenon DEF CreateNetwork, InitBridge, AddBridgeCheck, CreateBridgeIface, AddBridgeRecheck,
              WaitForLink, InterfaceUp, AbandonNetwork, localVars, pluginVars, At
<1>2. ASSUME SetInterfaceIP(h) \/ GetIfaceAddr(h) \/ NatOut(h)
      PROVE  Exit \/ (UNCHANGED <<up, req>> /\ pc[h] # "idle" /\ \E l : Goto(h, l))
  BY <1>2, Zenon DEF SetInterfaceIP, GetIfaceAddr, NatOut, localVars, pluginVars, At
<1>3. ASSUME StartOvsService(h) \/ StopOvsService(h) \/ ForgetNetwork(h) \/ EndpointStub(h)
      PROVE  UNCHANGED <<up, req>> /\ pc[h] # "idle" /\ \E l : Goto(h, l)
  BY <1>3, Zenon DEF StartOvsService, StopOvsService, ServiceStep, ForgetNetwork, EndpointStub, StubLabel,
              localVars, pluginVars, At
<1>4. ASSUME \/ DeleteNetwork(h) \/ GetBridgeServiceType(h) \/ GetBridgeUUIDForName(h)
             \/ DeleteBridge(h) \/ BridgeForJoin(h) \/ BridgeForLeave(h) \/ PortUUIDForName(h)
      PROVE  UNCHANGED <<up, req>> /\ pc[h] # "idle" /\ \E l : Goto(h, l)
  BY <1>4, Zenon DEF DeleteNetwork, GetBridgeServiceType, GetBridgeUUIDForName, DeleteBridge, BridgeForJoin,
              BridgeForLeave, PortUUIDForName, LookupBridge, LookupUuid, localVars, pluginVars, At
<1>5. ASSUME \/ Join(h) \/ LinkSetUp(h) \/ AddOvsVethPort(h) \/ GetIPByInterface(h)
             \/ Leave(h) \/ DeletePort(h)
      PROVE  UNCHANGED <<up, req>> /\ pc[h] # "idle" /\ \E l : Goto(h, l)
  BY <1>5, Zenon DEF Join, LinkSetUp, AddOvsVethPort, GetIPByInterface, Leave, DeletePort, localVars, pluginVars, At
<1> QED BY <1>1, <1>2, <1>3, <1>4, <1>5, Zenon DEF HandlerStep

LEMMA BusyStep ==
  ASSUME TypeOK, Busy, [Next]_vars
  PROVE  Busy'
<1>a. pc \in [Handler -> Label] /\ req \in [Handler -> Request \cup {Nil}]
  BY Zenon DEF TypeOK, HandlersTypeOK
<1>1. ASSUME NEW h \in Handler, NEW r \in Request, Receive(h, r) PROVE Busy'
  BY <1>a, <1>1, Zenon DEF Receive, Goto, Busy
<1>2. ASSUME NEW h \in Handler, Return(h) PROVE Busy'
  BY <1>a, <1>2, Zenon DEF Return, Goto, Busy
<1>3. Exit => Busy'
  BY Zenon DEF Exit, Busy
<1>4. ASSUME NEW h \in Handler, HandlerStep(h) PROVE Busy'
  <2>1. CASE UNCHANGED <<up, req>> /\ pc[h] # "idle" /\ (UNCHANGED pc \/ \E l : Goto(h, l))
    BY <1>a, <2>1, Zenon DEF Goto, Busy
  <2> QED BY <1>3, <1>4, <2>1, StepOfServing, Zenon
<1>5. UNCHANGED <<pc, req>> => Busy'
  BY Zenon DEF Busy
<1>6. Environment => UNCHANGED <<pc, req>> \/ Exit
  BY Zenon DEF Environment, PopulateCache, LoseConnection, Crash, NewDriver, Vswitchd, localVars
<1>7. UNCHANGED vars => UNCHANGED <<pc, req>>
  BY DEF vars, localVars
<1> QED BY <1>1, <1>2, <1>3, <1>4, <1>5, <1>6, <1>7, Zenon DEF Next

LEMMA OutcomeType ==
  ASSUME NEW answer
  PROVE  /\ \A op \in {"CreateNetwork", "DeleteNetwork"} : Outcome(op, answer) \in NetView
         /\ \A op \in {"Join", "Leave"} : Outcome(op, answer) \in EndpointView
BY DEF Outcome, NetView, EndpointView

LEMMA DockerTypeStep ==
  ASSUME TypeOK, Busy, DockerTypeOK, [HostNext]_hostVars
  PROVE  DockerTypeOK'
<1> USE DEF DockerTypeOK
<1>1. ASSUME NEW n \in Network, NEW h \in Handler, CallCreate(h, n) \/ CallDelete(h, n)
      PROVE  DockerTypeOK'
  BY <1>1, Zenon DEF CallCreate, CallDelete, NetView
<1>2. ASSUME NEW e \in Endpoint, NEW h \in Handler, CallJoin(h, e) \/ CallLeave(h, e)
      PROVE  DockerTypeOK'
  BY <1>2, Zenon DEF CallJoin, CallLeave, EndpointView
<1>3. ASSUME NEW h \in Handler, Answered(h)
      PROVE  DockerTypeOK'
  <2>a. req[h] \in Request
    BY <1>3, Zenon DEF Answered, Return, Answer, Busy
  <2>b. /\ req[h].op \in {"CreateNetwork", "DeleteNetwork"} => req[h].net \in Network
        /\ req[h].op \in {"Join", "Leave"} => req[h].ep \in Endpoint
    BY <2>a, Zenon DEF Request, CreateRequest, DeleteRequest, PortRequest, StubRequest
  <2>1. CASE UNCHANGED dockerVars
    BY <2>1, Zenon DEF dockerVars
  <2>2. CASE /\ req[h].op \in {"CreateNetwork", "DeleteNetwork"}
             /\ dnet' = [dnet EXCEPT ![req[h].net] = Outcome(req[h].op, pc[h])]
             /\ Confirm(req[h].net, h)
             /\ UNCHANGED dep
    BY <2>b, <2>2, OutcomeType, Zenon DEF Confirm
  <2>3. CASE /\ req[h].op \in {"Join", "Leave"}
             /\ dep' = [dep EXCEPT ![req[h].ep] = Outcome(req[h].op, pc[h])]
             /\ Confirm(req[h].ep, h)
             /\ UNCHANGED dnet
    BY <2>b, <2>3, OutcomeType, Zenon DEF Confirm
  <2> QED BY <1>3, <2>1, <2>2, <2>3, Zenon DEF Answered
<1>4. UNCHANGED dockerVars => DockerTypeOK'
  BY DEF dockerVars
<1> QED BY <1>1, <1>2, <1>3, <1>4, Zenon DEF HostNext, hostVars

(* The daemon's view of networks and endpoints keeps its type, as does the *)
(* driver's state: each answer is the outcome of a call the daemon made.   *)
THEOREM HostTypeCorrect == HostSpec => []HostTypeOK
<1>1. HostInit => Busy /\ DockerTypeOK
  BY DEF HostInit, Init, Busy, DockerTypeOK, NetView, EndpointView
<1>2. IndInv /\ Busy /\ DockerTypeOK /\ [HostNext]_hostVars => Busy' /\ DockerTypeOK'
  BY BusyStep, DockerTypeStep, HostStepIsDriverStep, Zenon DEF IndInv
<1>3. IndInv /\ DockerTypeOK => HostTypeOK
  BY Zenon DEF IndInv, DockerTypeOK, HostTypeOK
<1> QED BY <1>1, <1>2, <1>3, HostKeepsDriverInvariant, PTL DEF HostSpec

-----------------------------------------------------------------------------
(* The requests that are served are those docker waits for *)

(* What the requests of docker say *)
LEMMA Fields ==
  /\ \A n \in Network : /\ CreateOf(n).op = "CreateNetwork" /\ CreateOf(n).net = n
                        /\ CreateOf(n).ns = Config[n]
                        /\ DeleteOf(n).op = "DeleteNetwork" /\ DeleteOf(n).net = n
  /\ \A e \in Endpoint : /\ JoinOf(e).op = "Join" /\ JoinOf(e).net = NetOf[e] /\ JoinOf(e).ep = e
                         /\ LeaveOf(e).op = "Leave" /\ LeaveOf(e).net = NetOf[e] /\ LeaveOf(e).ep = e
BY DEF CreateOf, DeleteOf, JoinOf, LeaveOf

(* What is left of the requests when one is answered *)
LEMMA ServesKept ==
  ASSUME DockerTypeOK, ServesDocker, TypeOK,
         \A g \in Handler : pc'[g] # "idle" => pc[g] # "idle" /\ req'[g] = req[g] /\ Serves(g)',
         up' = up \/ \A g \in Handler : pc'[g] = "idle"
  PROVE  ServesDocker'
BY Zenon DEF ServesDocker

LEMMA CallServes ==
  ASSUME TypeOK, DockerTypeOK, ServesDocker, NEW h \in Handler, NEW r, Receive(h, r),
         Serves(h)', \A g \in Handler : pc[g] # "idle" => req[g] # r /\ (req'[g] = req[g] => Serves(g)')
  PROVE  ServesDocker'
<1>1. /\ up' /\ pc[h] = "idle" /\ req'[h] = r
      /\ \A g \in Handler \ {h} : pc'[g] = pc[g] /\ req'[g] = req[g]
  BY Zenon DEF Receive, Goto, At, TypeOK, HandlersTypeOK, pluginVars
<1>2. \A g \in Handler : pc'[g] # "idle" => Serves(g)'
  BY <1>1, Zenon
<1>3. ASSUME NEW f \in Handler, NEW g \in Handler, pc'[f] # "idle", pc'[g] # "idle", req'[f] = req'[g]
      PROVE  f = g
  BY <1>1, <1>3 DEF ServesDocker
<1> QED BY <1>1, <1>2, <1>3, Zenon DEF ServesDocker

LEMMA CreateServes ==
  ASSUME TypeOK, DockerTypeOK, ServesDocker, NEW h \in Handler, NEW n \in Network, CallCreate(h, n)
  PROVE  ServesDocker'
<1>1. /\ dnet[n] \in {"new", "creating"} /\ dnet' = [dnet EXCEPT ![n] = "creating"] /\ dep' = dep
      /\ Receive(h, CreateOf(n)) /\ req'[h] = CreateOf(n)
  BY DEF CallCreate, Receive, TypeOK, HandlersTypeOK
<1>2. dnet'[n] = "creating" /\ \A m \in Network \ {n} : dnet'[m] = dnet[m]
  BY <1>1 DEF DockerTypeOK
<1>3. Serves(h)'
  BY <1>1, <1>2, Zenon DEF Serves
<1>4. ASSUME NEW g \in Handler, pc[g] # "idle"
      PROVE  req[g] # CreateOf(n) /\ (req'[g] = req[g] => Serves(g)')
  <2>1. req[g] # CreateOf(n)
    BY <1>4 DEF CallCreate, Serving, CreateOf
  <2>2. req'[g] = req[g] => Serves(g)'
    BY <1>1, <1>2, <1>4 DEF ServesDocker, Serves, Unused
  <2> QED BY <2>1, <2>2, Zenon
<1> QED BY <1>1, <1>3, <1>4, CallServes, Zenon

LEMMA DeleteServes ==
  ASSUME TypeOK, DockerTypeOK, ServesDocker, NEW h \in Handler, NEW n \in Network, CallDelete(h, n)
  PROVE  ServesDocker'
<1>1. /\ dnet[n] \in {"live", "deleting"} /\ dnet' = [dnet EXCEPT ![n] = "deleting"] /\ dep' = dep
      /\ Unused(n) /\ Receive(h, DeleteOf(n)) /\ req'[h] = DeleteOf(n)
  BY Zenon DEF CallDelete, Receive, TypeOK, HandlersTypeOK
<1>2. dnet'[n] = "deleting" /\ \A m \in Network \ {n} : dnet'[m] = dnet[m]
  BY <1>1, Zenon DEF DockerTypeOK
<1>3. Serves(h)'
  BY <1>1, <1>2, Zenon DEF Serves, Unused
<1>4. ASSUME NEW g \in Handler, pc[g] # "idle"
      PROVE  req[g] # DeleteOf(n) /\ (req'[g] = req[g] => Serves(g)')
  <2>1. req[g] # DeleteOf(n)
    BY <1>4 DEF CallDelete, Serving, DeleteOf
  <2>2. req'[g] = req[g] => Serves(g)'
    BY <1>1, <1>2, <1>4 DEF ServesDocker, Serves, Unused
  <2> QED BY <2>1, <2>2, Zenon
<1> QED BY <1>1, <1>3, <1>4, CallServes, Zenon

LEMMA JoinServes ==
  ASSUME TypeOK, DockerTypeOK, ServesDocker, NEW h \in Handler, NEW e \in Endpoint, CallJoin(h, e)
  PROVE  ServesDocker'
<1>1. /\ dep[e] \in {"new", "joining"} /\ dep' = [dep EXCEPT ![e] = "joining"] /\ dnet' = dnet
      /\ Receive(h, JoinOf(e)) /\ req'[h] = JoinOf(e)
  BY DEF CallJoin, Receive, TypeOK, HandlersTypeOK
<1>2. dep'[e] = "joining" /\ \A f \in Endpoint \ {e} : dep'[f] = dep[f]
  BY <1>1 DEF DockerTypeOK
<1>3. Serves(h)'
  BY <1>1, <1>2, Zenon DEF Serves
<1>4. ASSUME NEW g \in Handler, pc[g] # "idle"
      PROVE  req[g] # JoinOf(e) /\ (req'[g] = req[g] => Serves(g)')
  <2>1. req[g] # JoinOf(e)
    BY <1>4 DEF CallJoin, Serving, JoinOf
  <2>2. req[g] # DeleteOf(NetOf[e])
    BY <1>4 DEF CallJoin, Serving, DeleteOf
  <2>3. \A n \in Network : Unused(n) /\ n # NetOf[e] => Unused(n)'
    BY <1>2, Zenon DEF Unused
  <2>4. req'[g] = req[g] => Serves(g)'
    BY <1>1, <1>2, <1>4, <2>2, <2>3 DEF ServesDocker, Serves
  <2> QED BY <2>1, <2>4, Zenon
<1> QED BY <1>1, <1>3, <1>4, CallServes, Zenon

LEMMA LeaveServes ==
  ASSUME TypeOK, DockerTypeOK, ServesDocker, NEW h \in Handler, NEW e \in Endpoint, CallLeave(h, e)
  PROVE  ServesDocker'
<1>1. /\ dep[e] \in {"joined", "leaving"} /\ dep' = [dep EXCEPT ![e] = "leaving"] /\ dnet' = dnet
      /\ Receive(h, LeaveOf(e)) /\ req'[h] = LeaveOf(e)
  BY DEF CallLeave, Receive, TypeOK, HandlersTypeOK
<1>2. dep'[e] = "leaving" /\ \A f \in Endpoint \ {e} : dep'[f] = dep[f]
  BY <1>1, Zenon DEF DockerTypeOK
<1>3. Serves(h)'
  BY <1>1, <1>2, Zenon DEF Serves
<1>4. ASSUME NEW g \in Handler, pc[g] # "idle"
      PROVE  req[g] # LeaveOf(e) /\ (req'[g] = req[g] => Serves(g)')
  <2>1. req[g] # LeaveOf(e)
    BY <1>4 DEF CallLeave, Serving, LeaveOf
  <2>2. \A n \in Network : Unused(n) => Unused(n)'
    BY <1>1, <1>2, Zenon DEF Unused
  <2>3. req'[g] = req[g] => Serves(g)'
    BY <1>1, <1>2, <1>4, <2>2 DEF ServesDocker, Serves
  <2> QED BY <2>1, <2>3
<1> QED BY <1>1, <1>3, <1>4, CallServes, Zenon

(* What the answer to each kind of request makes docker believe *)
AnswersCreate(h, n) ==
    /\ req[h] = CreateOf(n) /\ dnet[n] = "creating"
    /\ dnet' = [dnet EXCEPT ![n] = IF pc[h] = "ok" THEN "live" ELSE "failed"]
    /\ Confirm(n, h) /\ UNCHANGED dep
AnswersDelete(h, n) ==
    /\ req[h] = DeleteOf(n) /\ dnet[n] = "deleting" /\ Unused(n)
    /\ dnet' = [dnet EXCEPT ![n] = IF pc[h] = "ok" THEN "gone" ELSE "deleting"]
    /\ Confirm(n, h) /\ UNCHANGED dep
AnswersJoin(h, e) ==
    /\ req[h] = JoinOf(e) /\ dep[e] = "joining"
    /\ dep' = [dep EXCEPT ![e] = IF pc[h] = "ok" THEN "joined" ELSE "failed"]
    /\ Confirm(e, h) /\ UNCHANGED dnet
AnswersLeave(h, e) ==
    /\ req[h] = LeaveOf(e) /\ dep[e] = "leaving"
    /\ dep' = [dep EXCEPT ![e] = IF pc[h] = "ok" THEN "left" ELSE "failed"]
    /\ Confirm(e, h) /\ UNCHANGED dnet

LEMMA OutcomeIs ==
  ASSUME NEW a
  PROVE  /\ Outcome("CreateNetwork", a) = IF a = "ok" THEN "live" ELSE "failed"
         /\ Outcome("DeleteNetwork", a) = IF a = "ok" THEN "gone" ELSE "deleting"
         /\ Outcome("Join", a) = IF a = "ok" THEN "joined" ELSE "failed"
         /\ Outcome("Leave", a) = IF a = "ok" THEN "left" ELSE "failed"
BY Zenon DEF Outcome

LEMMA AnswerIs ==
  ASSUME ServesDocker, NEW h \in Handler, Answered(h)
  PROVE  \/ UNCHANGED dockerVars
         \/ \E n \in Network : AnswersCreate(h, n) \/ AnswersDelete(h, n)
         \/ \E e \in Endpoint : AnswersJoin(h, e) \/ AnswersLeave(h, e)
<1>1. pc[h] # "idle" /\ Serves(h)
  BY Zenon DEF Answered, Return, Answer, ServesDocker
<1>2. ASSUME NEW n \in Network, req[h] = CreateOf(n), dnet[n] = "creating"
      PROVE  UNCHANGED dockerVars \/ AnswersCreate(h, n)
  <2>1. req[h].op = "CreateNetwork" /\ req[h].net = n
    BY <1>2 DEF CreateOf
  <2> QED BY <1>2, <2>1, OutcomeIs DEF Answered, AnswersCreate
<1>3. ASSUME NEW n \in Network, req[h] = DeleteOf(n), dnet[n] = "deleting", Unused(n)
      PROVE  UNCHANGED dockerVars \/ AnswersDelete(h, n)
  <2>1. req[h].op = "DeleteNetwork" /\ req[h].net = n
    BY <1>3 DEF DeleteOf
  <2> QED BY <1>3, <2>1, OutcomeIs DEF Answered, AnswersDelete
<1>4. ASSUME NEW e \in Endpoint, req[h] = JoinOf(e), dep[e] = "joining"
      PROVE  UNCHANGED dockerVars \/ AnswersJoin(h, e)
  <2>1. req[h].op = "Join" /\ req[h].ep = e
    BY <1>4 DEF JoinOf
  <2> QED BY <1>4, <2>1, OutcomeIs DEF Answered, AnswersJoin
<1>5. ASSUME NEW e \in Endpoint, req[h] = LeaveOf(e), dep[e] = "leaving"
      PROVE  UNCHANGED dockerVars \/ AnswersLeave(h, e)
  <2>1. req[h].op = "Leave" /\ req[h].ep = e
    BY <1>5 DEF LeaveOf
  <2> QED BY <1>5, <2>1, OutcomeIs DEF Answered, AnswersLeave
<1> QED BY <1>1, <1>2, <1>3, <1>4, <1>5, Zenon DEF Serves

LEMMA AnswerServes ==
  ASSUME TypeOK, DockerTypeOK, ServesDocker, NEW h \in Handler, Answered(h)
  PROVE  ServesDocker'
<1>1. /\ pc[h] # "idle" /\ up' = up /\ pc'[h] = "idle"
      /\ \A g \in Handler \ {h} : pc'[g] = pc[g] /\ req'[g] = req[g]
  BY Zenon DEF Answered, Return, Answer, Goto, TypeOK, HandlersTypeOK, pluginVars
<1>2. ASSUME NEW g \in Handler \ {h}, pc[g] # "idle" PROVE Serves(g)'
  <2>1. Serves(g) /\ req[g] # req[h] /\ req'[g] = req[g]
    BY <1>1, <1>2, Zenon DEF ServesDocker
  <2>2. CASE UNCHANGED dockerVars
    BY <2>1, <2>2 DEF Serves, Unused, dockerVars
  <2>3. ASSUME NEW n \in Network, AnswersCreate(h, n) \/ AnswersDelete(h, n)
        PROVE  Serves(g)'
    <3>1. dep' = dep /\ \A m \in Network \ {n} : dnet'[m] = dnet[m]
      BY <2>3, Zenon DEF AnswersCreate, AnswersDelete, DockerTypeOK
    <3>2. \/ req[h] = CreateOf(n) /\ dnet[n] = "creating"
          \/ req[h] = DeleteOf(n) /\ dnet[n] = "deleting"
      BY <2>3, Zenon DEF AnswersCreate, AnswersDelete
    <3> QED BY <2>1, <3>1, <3>2 DEF Serves, Unused
  <2>4. ASSUME NEW e \in Endpoint, AnswersJoin(h, e) \/ AnswersLeave(h, e)
        PROVE  Serves(g)'
    <3>1. dnet' = dnet /\ \A f \in Endpoint \ {e} : dep'[f] = dep[f]
      BY <2>4, Zenon DEF AnswersJoin, AnswersLeave, DockerTypeOK
    <3>2. \/ req[h] = JoinOf(e) /\ dep[e] = "joining"
          \/ req[h] = LeaveOf(e) /\ dep[e] = "leaving"
      BY <2>4, Zenon DEF AnswersJoin, AnswersLeave
    <3>3. \A n \in Network : Unused(n) => Unused(n)'
      BY <3>1, <3>2 DEF Unused
    <3> QED BY <2>1, <3>1, <3>2, <3>3, Zenon DEF Serves
  <2> QED BY <2>2, <2>3, <2>4, AnswerIs, Zenon
<1> QED BY <1>1, <1>2, ServesKept, Zenon

LEMMA ServesStep ==
  ASSUME TypeOK, DockerTypeOK, ServesDocker, [HostNext]_hostVars
  PROVE  ServesDocker'
<1>1. ASSUME NEW h \in Handler, HandlerStep(h), UNCHANGED dockerVars
      PROVE  ServesDocker'
  <2>1. CASE Exit
    BY <2>1, ServesKept, Zenon DEF Exit
  <2>2. CASE UNCHANGED <<up, req>> /\ pc[h] # "idle" /\ (UNCHANGED pc \/ \E l : Goto(h, l))
    <3>1. \A g \in Handler : pc'[g] # "idle" => pc[g] # "idle"
      BY <2>2, Zenon DEF Goto, TypeOK, HandlersTypeOK
    <3>2. \A g \in Handler : Serves(g) => Serves(g)'
      BY <1>1, <2>2, Zenon DEF Serves, Unused, dockerVars
    <3> QED BY <2>2, <3>1, <3>2, ServesKept, Zenon DEF ServesDocker
  <2> QED BY <1>1, <2>1, <2>2, StepOfServing, Zenon
<1>2. CASE Environment /\ UNCHANGED dockerVars
  <2>1. \/ Exit
        \/ UNCHANGED <<pc, req>> /\ (up' = up \/ ~up)
    BY <1>2, Zenon DEF Environment, PopulateCache, LoseConnection, Crash, NewDriver, Vswitchd,
                localVars, pluginVars
  <2>2. CASE Exit
    BY <2>2, ServesKept, Zenon DEF Exit
  <2>3. CASE UNCHANGED <<pc, req>> /\ (up' = up \/ ~up)
    <3>1. \A g \in Handler : Serves(g) => Serves(g)'
      BY <1>2, <2>3, Zenon DEF Serves, Unused, dockerVars
    <3> QED BY <2>3, <3>1, ServesKept, Zenon DEF ServesDocker
  <2> QED BY <2>1, <2>2, <2>3, Zenon
<1>3. CASE UNCHANGED hostVars
  <2>1. UNCHANGED <<pc, req, up, dnet, dep>>
    BY <1>3, Zenon DEF hostVars, vars, dockerVars, localVars, pluginVars
  <2>2. \A g \in Handler : Serves(g) => Serves(g)'
    BY <2>1 DEF Serves, Unused
  <2> QED BY <2>1, <2>2, ServesKept, Zenon DEF ServesDocker
<1> QED BY <1>1, <1>2, <1>3, CreateServes, DeleteServes, JoinServes, LeaveServes, AnswerServes, Zenon
        DEF HostNext

-----------------------------------------------------------------------------
(* What a step does to the database, told by network and endpoint *)

CreatesBridge(n) ==
    /\ ~PortExists(Config[n].name) /\ ~HasBridge(n)
    /\ bridges' = bridges \cup {[uuid |-> nextUuid, name |-> Config[n].name]}
    /\ ports' = ports \cup {[uuid |-> nextUuid + 1, name |-> Config[n].name, bridge |-> nextUuid]}
    /\ opts' = opts \cup {[name |-> Config[n].name, network |-> n, type |-> Config[n].type]}
DropsBridge(n) ==
    /\ bridges' = {r \in bridges : r.name # Config[n].name}
    /\ ports' = {p \in ports : \E r \in bridges' : r.uuid = p.bridge}
    /\ opts' = {o \in opts : o.name # Config[n].name}
AddsPort(e) ==
    /\ ~PortExists(VethOf[e])
    /\ ports' = ports \cup {[uuid |-> nextUuid, name |-> VethOf[e], bridge |-> r.uuid] :
                              r \in {q \in bridges : q.name = Config[NetOf[e]].name}}
    /\ UNCHANGED <<bridges, opts>>
DropsPort(e) ==
    /\ ports' = {p \in ports : p.name # VethOf[e]}
    /\ UNCHANGED <<bridges, opts>>

(* A handler that is at work on a network or an endpoint *)
LEMMA AtWork ==
  ASSUME LocalsOK, ServesDocker, NEW h \in Handler, Knows(h)
  PROVE  /\ pc[h] \in CreateLabel => \E n \in Network : req[h] = CreateOf(n) /\ dnet[n] = "creating"
         /\ pc[h] \in DeleteLabel =>
              \E n \in Network : req[h] = DeleteOf(n) /\ dnet[n] = "deleting" /\ Unused(n)
         /\ pc[h] \in JoinLabel => \E e \in Endpoint : req[h] = JoinOf(e) /\ dep[e] = "joining"
         /\ pc[h] \in LeaveLabel => \E e \in Endpoint : req[h] = LeaveOf(e) /\ dep[e] = "leaving"
<1>1. LocalOK(pc[h], req[h], name[h], uuid[h])
  BY Zenon DEF LocalsOK
<1>2. \A r \in CreateRequest : r.op = "CreateNetwork"
  BY DEF CreateRequest
<1>3. \A r \in DeleteRequest : r.op = "DeleteNetwork"
  BY Zenon DEF DeleteRequest
<1>4. pc[h] \in CreateLabel \cup DeleteLabel \cup JoinLabel \cup LeaveLabel => Serves(h)
  BY DEF ServesDocker, CreateLabel, DeleteLabel, JoinLabel, LeaveLabel
<1>5. ASSUME pc[h] \in CreateLabel
      PROVE  \E n \in Network : req[h] = CreateOf(n) /\ dnet[n] = "creating"
  BY <1>1, <1>2, <1>4, <1>5, Fields, Zenon DEF LocalOK, Serves
<1>6. ASSUME pc[h] \in DeleteLabel
      PROVE  \E n \in Network : req[h] = DeleteOf(n) /\ dnet[n] = "deleting" /\ Unused(n)
  BY <1>1, <1>3, <1>4, <1>6, Fields, Zenon DEF LocalOK, Serves
<1>7. ASSUME pc[h] \in JoinLabel
      PROVE  \E e \in Endpoint : req[h] = JoinOf(e) /\ dep[e] = "joining"
  BY <1>4, <1>7, Fields, Zenon DEF Knows, Serves
<1>8. ASSUME pc[h] \in LeaveLabel
      PROVE  \E e \in Endpoint : req[h] = LeaveOf(e) /\ dep[e] = "leaving"
  BY <1>4, <1>8, Fields, Zenon DEF Knows, Serves
<1> QED BY <1>5, <1>6, <1>7, <1>8, Zenon

(* The name a handler has looked up *)
LEMMA NameKnown ==
  ASSUME Faithful, NEW h \in Handler, pc[h] \in NamedLabel
  PROVE  name[h] = Config[req[h].net].name
BY DEF Faithful, Knows

(* Each transaction is that of docker's one request for it, or it leaves   *)
(* the tables alone.                                                       *)
Touches(h) ==
    \/ \E n \in Network : req[h] = CreateOf(n) /\ dnet[n] = "creating" /\ CreatesBridge(n)
    \/ \E n \in Network : req[h] = DeleteOf(n) /\ dnet[n] = "deleting" /\ Unused(n) /\ DropsBridge(n)
    \/ \E e \in Endpoint : /\ pc[h] = "addOvsVethPort" /\ req[h] = JoinOf(e) /\ dep[e] = "joining"
                           /\ AddsPort(e)
    \/ \E e \in Endpoint : req[h] = LeaveOf(e) /\ dep[e] = "leaving" /\ DropsPort(e)

LEMMA CreateTouches ==
  ASSUME IndInv, ServesDocker, Faithful, NEW h \in Handler, CreateBridgeIface(h)
  PROVE  UNCHANGED <<bridges, ports, opts>> \/ Touches(h)
<1>1. PICK n \in Network : req[h] = CreateOf(n) /\ dnet[n] = "creating"
  BY AtWork, Zenon DEF CreateBridgeIface, At, CreateLabel, IndInv, Faithful
<1>2. name[h] = Config[n].name /\ type[h] = Config[n].type /\ req[h].net = n
  BY <1>1 DEF CreateBridgeIface, At, CreateLabel, NamedLabel, Faithful, Knows, CreateOf
<1>3. PICK rep \in Reply : createOvsdbBridge(Config[n].name, Config[n].type, n, rep)
  BY <1>2, Zenon DEF CreateBridgeIface
<1>4. UNCHANGED <<bridges, ports, opts>> \/ CreatesBridge(n)
  BY <1>3, TransactCases, Zenon DEF createOvsdbBridge, CreatesBridge, HasBridge, dbVars
<1> QED BY <1>1, <1>4, Zenon DEF Touches

LEMMA DeleteTouches ==
  ASSUME IndInv, ServesDocker, Faithful, NEW h \in Handler, DeleteBridge(h)
  PROVE  UNCHANGED <<bridges, ports, opts>> \/ Touches(h)
<1>1. PICK n \in Network : req[h] = DeleteOf(n) /\ dnet[n] = "deleting" /\ Unused(n)
  BY AtWork, Zenon DEF DeleteBridge, At, DeleteLabel, IndInv, Faithful
<1>2. name[h] = Config[n].name /\ \A r \in bridges : r.uuid = uuid[h] => r.name = name[h]
  <2>1. At(h, "deleteBridge") /\ pc[h] \in NamedLabel
    BY Zenon DEF DeleteBridge, At, NamedLabel, DeleteLabel
  <2>2. name[h] = Config[n].name
    BY <1>1, <2>1, NameKnown, Fields
  <2> QED BY <2>1, <2>2, Zenon DEF IndInv, UuidsMatchNames
<1>3. PICK rep \in Reply : deleteBridgeRows(Config[n].name, uuid[h], rep)
  BY <1>2, Zenon DEF DeleteBridge
<1> DEFINE B == {r \in bridges : r.name # Config[n].name /\ r.uuid # uuid[h]}
<1>4. B = {r \in bridges : r.name # Config[n].name}
  BY <1>2
<1>5. \/ UNCHANGED <<bridges, ports, opts>>
      \/ /\ bridges' = B /\ ports' = {p \in ports : \E r \in B : r.uuid = p.bridge}
         /\ opts' = {o \in opts : o.name # Config[n].name}
  BY <1>3, TransactCases, Zenon DEF deleteBridgeRows, dbVars
<1> HIDE DEF B
<1>6. UNCHANGED <<bridges, ports, opts>> \/ DropsBridge(n)
  BY <1>4, <1>5, Zenon DEF DropsBridge
<1> QED BY <1>1, <1>6, Zenon DEF Touches

LEMMA AddPortTouches ==
  ASSUME IndInv, ServesDocker, Faithful, NEW h \in Handler, AddOvsVethPort(h)
  PROVE  UNCHANGED <<bridges, ports, opts>> \/ Touches(h)
<1>1. PICK e \in Endpoint : req[h] = JoinOf(e) /\ dep[e] = "joining"
  BY AtWork, Zenon DEF AddOvsVethPort, At, JoinLabel, IndInv, Faithful
<1>2. name[h] = Config[NetOf[e]].name /\ req[h].ep = e /\ pc[h] = "addOvsVethPort"
  <2>1. pc[h] = "addOvsVethPort" /\ pc[h] \in NamedLabel
    BY Zenon DEF AddOvsVethPort, At, NamedLabel, JoinLabel
  <2> QED BY <1>1, <2>1, NameKnown, Fields
<1>3. PICK rep \in Reply : addOvsVethPort(Config[NetOf[e]].name, VethOf[e], rep)
  BY <1>2, Zenon DEF AddOvsVethPort
<1>4. UNCHANGED <<bridges, ports, opts>> \/ AddsPort(e)
  BY <1>3, TransactCases, Zenon DEF addOvsVethPort, AddsPort, dbVars
<1> QED BY <1>1, <1>2, <1>4, Zenon DEF Touches

LEMMA DeletePortTouches ==
  ASSUME IndInv, ServesDocker, Faithful, NEW h \in Handler, DeletePort(h)
  PROVE  UNCHANGED <<bridges, ports, opts>> \/ Touches(h)
<1>1. PICK e \in Endpoint : req[h] = LeaveOf(e) /\ dep[e] = "leaving"
  BY AtWork, Zenon DEF DeletePort, At, LeaveLabel, IndInv, Faithful
<1>2. req[h].ep = e /\ \A p \in ports : p.uuid = uuid[h] => p.name = VethOf[e]
  <2>1. At(h, "deletePort") /\ req[h].ep = e
    BY <1>1, Fields DEF DeletePort
  <2> QED BY <2>1, Zenon DEF IndInv, UuidsMatchNames
<1> DEFINE Unlisted(p) == p.uuid = uuid[h] /\ \E r \in bridges : r.name = name[h] /\ r.uuid = p.bridge
           P == {p \in ports : p.name # VethOf[e] /\ ~Unlisted(p)}
<1>3. PICK rep \in Reply : deletePortRows(name[h], VethOf[e], uuid[h], rep)
  BY <1>2, Zenon DEF DeletePort
<1>4. P = {p \in ports : p.name # VethOf[e]}
  BY <1>2, Zenon
<1>5. UNCHANGED <<bridges, ports, opts>> \/ (bridges' = bridges /\ ports' = P /\ opts' = opts)
  BY <1>3, TransactCases, Zenon DEF deletePortRows, dbVars
<1> HIDE DEF P
<1>6. UNCHANGED <<bridges, ports, opts>> \/ DropsPort(e)
  BY <1>4, <1>5, Zenon DEF DropsPort
<1> QED BY <1>1, <1>6, Zenon DEF Touches

LEMMA HandlerTouches ==
  ASSUME IndInv, ServesDocker, Faithful, NEW h \in Handler, HandlerStep(h)
  PROVE  UNCHANGED <<bridges, ports, opts>> \/ Touches(h)
<1>1. Quiet \/ Exit \/ GetBridgeUUIDForName(h) \/ PortUUIDForName(h) => UNCHANGED <<bridges, ports, opts>>
  BY Zenon DEF Quiet, Exit, GetBridgeUUIDForName, PortUUIDForName, ovsdbVars, dbVars
<1>2. TypeOK /\ LocalsOK
  BY DEF IndInv
<1> QED BY <1>1, <1>2, HandlerKinds, CreateTouches, DeleteTouches, AddPortTouches, DeletePortTouches, Zenon

LEMMA HostTouches ==
  ASSUME IndInv, ServesDocker, Faithful, [HostNext]_hostVars
  PROVE  \/ UNCHANGED <<bridges, ports, opts>>
         \/ UNCHANGED dockerVars /\ \E h \in Handler : Touches(h)
<1>1. ASSUME NEW h \in Handler, (\E r \in Request : Receive(h, r)) \/ Answered(h)
      PROVE  UNCHANGED <<bridges, ports, opts>>
  BY <1>1, Zenon DEF Receive, Answered, Return, ovsdbVars
<1>2. Environment => UNCHANGED <<bridges, ports, opts>>
  BY Zenon DEF Environment, PopulateCache, LoseConnection, Disconnect, Crash, Exit, NewDriver, Vswitchd,
         ovsdbVars, dbVars
<1>3. UNCHANGED hostVars => UNCHANGED <<bridges, ports, opts>>
  BY DEF hostVars, vars, ovsdbVars
<1> QED BY <1>1, <1>2, <1>3, CallIsReceive, HandlerTouches, Zenon DEF HostNext

-----------------------------------------------------------------------------
(* The options of a network are those it was created with *)

LEMMA RowsFaithfulStep ==
  ASSUME IndInv, ServesDocker, Faithful, [HostNext]_hostVars
  PROVE  RowsFaithful'
<1>a. RowsFaithful
  BY Zenon DEF Faithful
<1>1. CASE UNCHANGED <<bridges, ports, opts>>
  BY <1>a, <1>1, Zenon DEF RowsFaithful
<1>2. ASSUME NEW n \in Network, CreatesBridge(n) PROVE RowsFaithful'
  <2> DEFINE r0 == [uuid |-> nextUuid, name |-> Config[n].name]
             p0 == [uuid |-> nextUuid + 1, name |-> Config[n].name, bridge |-> nextUuid]
             o0 == [name |-> Config[n].name, network |-> n, type |-> Config[n].type]
  <2>1. /\ bridges' = bridges \cup {r0} /\ ports' = ports \cup {p0} /\ opts' = opts \cup {o0}
        /\ p0.bridge = r0.uuid
        /\ o0.name = Config[o0.network].name /\ o0.type = Config[o0.network].type
    BY <1>2, Zenon DEF CreatesBridge
  <2> HIDE DEF r0, p0, o0
  <2> QED BY <1>a, <2>1, Zenon DEF RowsFaithful
<1>3. ASSUME NEW n \in Network, DropsBridge(n) PROVE RowsFaithful'
  BY <1>a, <1>3, Zenon DEF DropsBridge, RowsFaithful
<1>4. ASSUME NEW e \in Endpoint, AddsPort(e) PROVE RowsFaithful'
  BY <1>a, <1>4 DEF AddsPort, RowsFaithful
<1>5. ASSUME NEW e \in Endpoint, DropsPort(e) PROVE RowsFaithful'
  BY <1>a, <1>5, Zenon DEF DropsPort, RowsFaithful
<1> QED BY <1>1, <1>2, <1>3, <1>4, <1>5, HostTouches, Zenon DEF Touches

LEMMA NamesFound ==
  ASSUME Faithful, NEW n \in Network
  PROVE  BridgeNamesOf(n) \subseteq {Config[n].name}
BY DEF Faithful, RowsFaithful, BridgeNamesOf

(* A handler keeps to the labels of its request, with the name and the     *)
(* type it has, except where it looks them up.                             *)
WalksTo(h, l) ==
    /\ pc' = [pc EXCEPT ![h] = l]
    /\ l \in NamedLabel => pc[h] \in NamedLabel
    /\ l \in CreateLabel \cap NamedLabel => pc[h] \in CreateLabel \cap NamedLabel
    /\ l \in CreateLabel => UNCHANGED type
    /\ l \in JoinLabel => pc[h] \in JoinLabel
    /\ l \in LeaveLabel => pc[h] \in LeaveLabel
    /\ l \notin StubLabel
Walks(h) ==
    /\ UNCHANGED <<req, name>> /\ (UNCHANGED type \/ \E t : type' = [type EXCEPT ![h] = t])
    /\ \E l : WalksTo(h, l)

LEMMA Flow ==
  ASSUME TypeOK, NEW h \in Handler, HandlerStep(h)
  PROVE  \/ Exit \/ InitBridge(h) \/ DeleteNetwork(h) \/ BridgeForJoin(h) \/ BridgeForLeave(h)
         \/ Walks(h)
<1> USE DEF NamedLabel, CreateLabel, DeleteLabel, JoinLabel, LeaveLabel, StubLabel, localVars, At, Goto
<1>1. ASSUME \/ CreateNetwork(h) \/ AddBridgeCheck(h) \/ CreateBridgeIface(h)
             \/ AddBridgeRecheck(h) \/ InterfaceUp(h)
      PROVE  Walks(h)
  <2>1. CASE CreateNetwork(h)
    <3>1. PICK l \in {"error", "panic", "initBridge"} :
               pc[h] = "CreateNetwork" /\ pc' = [pc EXCEPT ![h] = l] /\ UNCHANGED <<req, name, type>>
      BY <2>1, Zenon DEF CreateNetwork
    <3>2. WalksTo(h, l)
      BY <3>1 DEF WalksTo
    <3> QED BY <3>1, <3>2, Zenon DEF Walks
  <2>2. CASE InterfaceUp(h)
    <3>1. PICK l \in {"error", "panic", "writeUnit"} :
               pc[h] = "interfaceUp" /\ pc' = [pc EXCEPT ![h] = l] /\ UNCHANGED <<req, name, type>>
      BY <2>2, Zenon DEF InterfaceUp, AbandonNetwork
    <3>2. WalksTo(h, l)
      BY <3>1 DEF WalksTo
    <3> QED BY <3>1, <3>2, Zenon DEF Walks
  <2>4. CASE AddBridgeCheck(h)
    <3>1. PICK l \in {"error", "validateIface", "createBridgeIface"} :
               pc[h] = "portExists" /\ pc' = [pc EXCEPT ![h] = l] /\ UNCHANGED <<req, name, type>>
      BY <2>4, Zenon DEF AddBridgeCheck, AbandonNetwork
    <3>2. WalksTo(h, l)
      BY <3>1 DEF WalksTo
    <3> QED BY <3>1, <3>2, Zenon DEF Walks
  <2>5. CASE AddBridgeRecheck(h)
    <3>1. PICK l \in {"error", "validateIface"} :
               pc[h] = "portExistsNow" /\ pc' = [pc EXCEPT ![h] = l] /\ UNCHANGED <<req, name, type>>
      BY <2>5, Zenon DEF AddBridgeRecheck, AbandonNetwork
    <3>2. WalksTo(h, l)
      BY <3>1 DEF WalksTo
    <3> QED BY <3>1, <3>2, Zenon DEF Walks
  <2>3. CASE CreateBridgeIface(h)
    <3>1. /\ pc[h] = "createBridgeIface" /\ pc' = [pc EXCEPT ![h] = "portExistsNow"]
          /\ UNCHANGED <<req, name, type>>
      BY <2>3, Zenon DEF CreateBridgeIface
    <3>2. WalksTo(h, "portExistsNow")
      BY <3>1, Zenon DEF WalksTo
    <3> QED BY <3>1, <3>2, Zenon DEF Walks
  <2> QED BY <1>1, <2>1, <2>2, <2>3, <2>4, <2>5, Zenon
<1>2. ASSUME WaitForLink(h) PROVE Walks(h)
  <2>1. UNCHANGED pc => pc' = [pc EXCEPT ![h] = "validateIface"]
    BY <1>2, Zenon DEF WaitForLink, TypeOK, HandlersTypeOK
  <2> QED BY <1>2, <2>1, Zenon DEF WaitForLink, AbandonNetwork, Walks, WalksTo
<1>3. ASSUME SetInterfaceIP(h) \/ GetIfaceAddr(h) \/ NatOut(h)
      PROVE  Exit \/ Walks(h)
  BY <1>3, Zenon DEF SetInterfaceIP, GetIfaceAddr, NatOut, Walks, WalksTo
<1>4. ASSUME StartOvsService(h) \/ StopOvsService(h) \/ ForgetNetwork(h) \/ EndpointStub(h)
      PROVE  Walks(h)
  BY <1>4 DEF StartOvsService, StopOvsService, ServiceStep, ForgetNetwork, EndpointStub, Walks, WalksTo
<1>5. ASSUME \/ GetBridgeServiceType(h) \/ GetBridgeUUIDForName(h) \/ DeleteBridge(h)
             \/ PortUUIDForName(h)
      PROVE  Walks(h)
  <2>1. CASE GetBridgeServiceType(h)
    <3>1. /\ pc[h] = "getBridgeServiceType" /\ pc' = [pc EXCEPT ![h] = "getBridgeUUIDForName"]
          /\ UNCHANGED <<req, name>> /\ (UNCHANGED type \/ \E t : type' = [type EXCEPT ![h] = t])
      BY <2>1, Zenon DEF GetBridgeServiceType
    <3>2. WalksTo(h, "getBridgeUUIDForName")
      BY <3>1, Zenon DEF WalksTo
    <3> QED BY <3>1, <3>2, Zenon DEF Walks
  <2>2. CASE GetBridgeUUIDForName(h) \/ PortUUIDForName(h)
    BY <2>2 DEF GetBridgeUUIDForName, PortUUIDForName, LookupUuid, Walks, WalksTo
  <2>3. CASE DeleteBridge(h)
    <3>1. PICK l \in {"error", "stopUnit", "forget"} :
               pc[h] = "deleteBridge" /\ pc' = [pc EXCEPT ![h] = l] /\ UNCHANGED <<req, name, type>>
      BY <2>3, Zenon DEF DeleteBridge
    <3>2. WalksTo(h, l)
      BY <3>1 DEF WalksTo
    <3> QED BY <3>1, <3>2, Zenon DEF Walks
  <2> QED BY <1>5, <2>1, <2>2, <2>3, Zenon
<1>6. ASSUME \/ Join(h) \/ LinkSetUp(h) \/ AddOvsVethPort(h) \/ GetIPByInterface(h)
             \/ Leave(h) \/ DeletePort(h)
      PROVE  Walks(h)
  <2>1. CASE Join(h) \/ LinkSetUp(h)
    BY <2>1 DEF Join, LinkSetUp, Walks, WalksTo
  <2>2. CASE AddOvsVethPort(h) \/ GetIPByInterface(h)
    BY <2>2 DEF AddOvsVethPort, GetIPByInterface, Walks, WalksTo
  <2>3. CASE Leave(h)
    <3>1. pc[h] = "Leave" /\ pc' = [pc EXCEPT ![h] = "bridgeForLeave"] /\ UNCHANGED <<req, name, type>>
      BY <2>3, Zenon DEF Leave
    <3>2. WalksTo(h, "bridgeForLeave")
      BY <3>1, Zenon DEF WalksTo
    <3> QED BY <3>1, <3>2, Zenon DEF Walks
  <2>4. CASE DeletePort(h)
    BY <2>4, Zenon DEF DeletePort, Walks, WalksTo
  <2> QED BY <1>6, <2>1, <2>2, <2>3, <2>4, Zenon
<1> QED BY <1>1, <1>2, <1>3, <1>4, <1>5, <1>6, Zenon DEF HandlerStep

LEMMA KnowsHandler ==
  ASSUME IndInv, ServesDocker, Faithful, NEW h \in Handler, HandlerStep(h)
  PROVE  \A g \in Handler : Knows(g)'
<1>a. /\ pc \in [Handler -> Label] /\ req \in [Handler -> Request \cup {Nil}]
      /\ name \in [Handler -> BridgeName \cup {Nil}] /\ type \in [Handler -> ServiceType]
  BY DEF IndInv, TypeOK, HandlersTypeOK
<1>b. \A g \in Handler : Knows(g)
  BY DEF Faithful
<1>1. CASE Exit
  BY <1>1 DEF Exit, Knows, NamedLabel, CreateLabel, DeleteLabel, JoinLabel, LeaveLabel, StubLabel
<1>2. CASE InitBridge(h)
  <2>1. PICK n \in Network : req[h] = CreateOf(n)
    <3>1. pc[h] \in CreateLabel
      BY <1>2 DEF InitBridge, At, CreateLabel
    <3> QED BY <1>b, <3>1, AtWork DEF IndInv
  <2>2. req[h].net = n
    BY <2>1 DEF CreateOf
  <2>3. /\ req' = req
        /\ \/ pc' = [pc EXCEPT ![h] = "panic"] /\ UNCHANGED <<name, type>>
           \/ /\ pc' = [pc EXCEPT ![h] = "portExists"]
              /\ name' = [name EXCEPT ![h] = Config[n].name]
              /\ type' = [type EXCEPT ![h] = Config[n].type]
    BY <1>2, <2>2, Zenon DEF InitBridge, Goto, Faithful
  <2>4. /\ "panic" \notin NamedLabel \cup JoinLabel \cup LeaveLabel \cup StubLabel
        /\ "portExists" \notin JoinLabel \cup LeaveLabel \cup StubLabel
    BY Zenon DEF NamedLabel, CreateLabel, DeleteLabel, JoinLabel, LeaveLabel, StubLabel
  <2>5. \A g \in Handler \ {h} : Knows(g)'
    BY <1>a, <1>b, <2>3 DEF Knows
  <2>6. Knows(h)'
    BY <1>a, <2>2, <2>3, <2>4, Zenon DEF Knows
  <2> QED BY <2>5, <2>6, Zenon
<1>3. ASSUME NEW l, LookupBridge(h, l), UNCHANGED <<req, type>>, req[h].net \in Network,
             l \notin CreateLabel \cup StubLabel, l \in JoinLabel => pc[h] \in JoinLabel,
             l \in LeaveLabel => pc[h] \in LeaveLabel
      PROVE  \A g \in Handler : Knows(g)'
  <2>1. "error" \notin NamedLabel \cup JoinLabel \cup LeaveLabel \cup StubLabel
    BY DEF NamedLabel, CreateLabel, DeleteLabel, JoinLabel, LeaveLabel, StubLabel
  <2>2. \/ pc' = [pc EXCEPT ![h] = "error"] /\ UNCHANGED name
        \/ pc' = [pc EXCEPT ![h] = l] /\ name' = [name EXCEPT ![h] = Config[req[h].net].name]
    BY <1>3, NamesFound, Zenon DEF LookupBridge, Goto
  <2>3. \A g \in Handler \ {h} : Knows(g)'
    BY <1>a, <1>b, <1>3, <2>2, Zenon DEF Knows
  <2>4. Knows(h)'
    BY <1>a, <1>b, <1>3, <2>1, <2>2, Zenon DEF Knows
  <2> QED BY <2>3, <2>4, Zenon
<1>4. CASE DeleteNetwork(h) \/ BridgeForJoin(h) \/ BridgeForLeave(h)
  <2>1. req[h].net \in Network
    <3>1. pc[h] \in DeleteLabel \cup JoinLabel \cup LeaveLabel
      BY <1>4, Zenon DEF DeleteNetwork, BridgeForJoin, BridgeForLeave, At, DeleteLabel, JoinLabel, LeaveLabel
    <3>2. CASE pc[h] \in DeleteLabel
      <4>1. PICK n \in Network : req[h] = DeleteOf(n)
        BY <1>b, <3>2, AtWork, Zenon DEF IndInv
      <4> QED BY <4>1 DEF DeleteOf
    <3>3. CASE pc[h] \in JoinLabel \cup LeaveLabel
      <4>1. PICK e \in Endpoint : req[h] = JoinOf(e) \/ req[h] = LeaveOf(e)
        BY <1>b, <3>3, AtWork, Zenon DEF IndInv
      <4>2. req[h].net = NetOf[e]
        BY <4>1 DEF JoinOf, LeaveOf
      <4> QED BY <4>2, NetOfType
    <3> QED BY <3>1, <3>2, <3>3, Zenon
  <2>2. \E l : /\ LookupBridge(h, l) /\ UNCHANGED <<req, type>> /\ l \notin CreateLabel \cup StubLabel
               /\ l \in JoinLabel => pc[h] \in JoinLabel
               /\ l \in LeaveLabel => pc[h] \in LeaveLabel
    BY <1>4 DEF DeleteNetwork, BridgeForJoin, BridgeForLeave, At, CreateLabel, JoinLabel, LeaveLabel, StubLabel
  <2> QED BY <1>3, <2>1, <2>2, Zenon
<1>5. CASE Walks(h)
  <2>1. \A g \in Handler \ {h} : Knows(g)'
    BY <1>a, <1>b, <1>5, Zenon DEF Walks, WalksTo, Knows
  <2>2. Knows(h)'
    BY <1>a, <1>b, <1>5, Zenon DEF Walks, WalksTo, Knows
  <2> QED BY <2>1, <2>2
<1> QED BY <1>1, <1>2, <1>4, <1>5, Flow, Zenon DEF IndInv

(* The map of networks gets an entry from CreateNetwork alone. *)
Forgets(h) ==
    \/ UNCHANGED networks
    \/ networks' = [n \in Network |-> Nil]
    \/ networks' = [networks EXCEPT ![req[h].net] = Nil]

LEMMA MapHandler ==
  ASSUME NEW h \in Handler, HandlerStep(h)
  PROVE  CreateNetwork(h) \/ Forgets(h)
<1>1. ASSUME \/ InitBridge(h) \/ AddBridgeCheck(h) \/ CreateBridgeIface(h) \/ AddBridgeRecheck(h)
             \/ WaitForLink(h) \/ InterfaceUp(h)
      PROVE  Forgets(h)
  BY <1>1, Zenon DEF InitBridge, AddBridgeCheck, CreateBridgeIface, AddBridgeRecheck, WaitForLink,
              InterfaceUp, AbandonNetwork, pluginVars, Forgets
<1>2. ASSUME SetInterfaceIP(h) \/ GetIfaceAddr(h) \/ NatOut(h)
      PROVE  Forgets(h)
  BY <1>2, Zenon DEF SetInterfaceIP, GetIfaceAddr, NatOut, Exit, pluginVars, Forgets
<1>3. ASSUME StartOvsService(h) \/ StopOvsService(h) \/ ForgetNetwork(h) \/ EndpointStub(h)
      PROVE  Forgets(h)
  BY <1>3, Zenon DEF StartOvsService, StopOvsService, ServiceStep, ForgetNetwork, EndpointStub,
              pluginVars, Forgets
<1>4. ASSUME \/ DeleteNetwork(h) \/ GetBridgeServiceType(h) \/ GetBridgeUUIDForName(h)
             \/ DeleteBridge(h) \/ BridgeForJoin(h) \/ BridgeForLeave(h) \/ PortUUIDForName(h)
             \/ Join(h) \/ LinkSetUp(h) \/ AddOvsVethPort(h) \/ GetIPByInterface(h)
             \/ Leave(h) \/ DeletePort(h)
      PROVE  Forgets(h)
  BY <1>4, Zenon DEF DeleteNetwork, GetBridgeServiceType, GetBridgeUUIDForName, DeleteBridge,
              BridgeForJoin, BridgeForLeave, PortUUIDForName, Join, LinkSetUp, AddOvsVethPort,
              GetIPByInterface, Leave, DeletePort, pluginVars, Forgets
<1> QED BY <1>1, <1>2, <1>3, <1>4, Zenon DEF HandlerStep

LEMMA FaithfulStep ==
  ASSUME IndInv, ServesDocker, Faithful, [HostNext]_hostVars
  PROVE  Faithful'
<1>a. /\ pc \in [Handler -> Label] /\ req \in [Handler -> Request \cup {Nil}]
      /\ name \in [Handler -> BridgeName \cup {Nil}] /\ type \in [Handler -> ServiceType]
      /\ networks \in [Network -> NetState \cup {Nil}]
  BY Zenon DEF IndInv, TypeOK, HandlersTypeOK, PluginTypeOK
<1>b. \A g \in Handler : Knows(g)
  BY DEF Faithful
<1>1. \A g \in Handler : Knows(g)'
  <2>1. ASSUME NEW h \in Handler, NEW r, Receive(h, r), r.op \notin NamedLabel \cup StubLabel,
               r.op \in JoinLabel => r.op = "Join", r.op \in LeaveLabel => r.op = "Leave"
        PROVE  \A g \in Handler : Knows(g)'
    BY <1>a, <1>b, <2>1, Zenon DEF Receive, Goto, Knows
  <2>2. ASSUME NEW h \in Handler, Answered(h) PROVE \A g \in Handler : Knows(g)'
    <3>1. "idle" \notin NamedLabel \cup JoinLabel \cup LeaveLabel \cup StubLabel
      BY Zenon DEF NamedLabel, CreateLabel, DeleteLabel, JoinLabel, LeaveLabel, StubLabel
    <3>2. /\ pc' = [pc EXCEPT ![h] = "idle"]
          /\ \A g \in Handler \ {h} : req'[g] = req[g] /\ name'[g] = name[g] /\ type'[g] = type[g]
      BY <1>a, <2>2, Zenon DEF Answered, Return, Goto
    <3>3. pc'[h] = "idle" /\ \A g \in Handler \ {h} : pc'[g] = pc[g]
      BY <1>a, <3>2
    <3>4. Knows(h)'
      BY <3>1, <3>3, Zenon DEF Knows
    <3>5. ASSUME NEW g \in Handler, g # h PROVE Knows(g)'
      <4>1. pc'[g] = pc[g] /\ req'[g] = req[g] /\ name'[g] = name[g] /\ type'[g] = type[g]
        BY <3>2, <3>3, <3>5, Zenon
      <4> QED BY <1>b, <4>1, Zenon DEF Knows
    <3> QED BY <3>4, <3>5, Zenon
  <2>3. UNCHANGED <<pc, req, name, type>> => \A g \in Handler : Knows(g)'
    BY <1>b, Zenon DEF Knows
  <2>4. Exit => \A g \in Handler : Knows(g)'
    <3>1. "idle" \notin NamedLabel \cup JoinLabel \cup LeaveLabel \cup StubLabel
      BY Zenon DEF NamedLabel, CreateLabel, DeleteLabel, JoinLabel, LeaveLabel, StubLabel
    <3>2. Exit => \A g \in Handler : pc'[g] = "idle"
      BY DEF Exit
    <3> QED BY <3>1, <3>2, Zenon DEF Knows
  <2>5. Environment => Exit \/ UNCHANGED <<pc, req, name, type>>
    BY Zenon DEF Environment, PopulateCache, LoseConnection, Crash, NewDriver, Vswitchd, localVars
  <2>6. UNCHANGED hostVars => UNCHANGED <<pc, req, name, type>>
    BY DEF hostVars, vars, localVars
  <2>7. \A op \in {"CreateNetwork", "DeleteNetwork", "Join", "Leave"} :
           /\ op \notin NamedLabel \cup StubLabel
           /\ op \in JoinLabel => op = "Join"
           /\ op \in LeaveLabel => op = "Leave"
    BY Zenon DEF NamedLabel, CreateLabel, DeleteLabel, JoinLabel, LeaveLabel, StubLabel
  <2>8. ASSUME NEW h \in Handler, NEW n \in Network, CallCreate(h, n) \/ CallDelete(h, n)
        PROVE  \A g \in Handler : Knows(g)'
    BY <2>1, <2>7, <2>8, Zenon DEF CallCreate, CallDelete, CreateOf, DeleteOf
  <2>9. ASSUME NEW h \in Handler, NEW e \in Endpoint, CallJoin(h, e) \/ CallLeave(h, e)
        PROVE  \A g \in Handler : Knows(g)'
    BY <2>1, <2>7, <2>9, Zenon DEF CallJoin, CallLeave, JoinOf, LeaveOf
  <2> QED BY <2>2, <2>3, <2>4, <2>5, <2>6, <2>8, <2>9, KnowsHandler, Zenon DEF HostNext
<1>2. \A n \in Network : networks'[n] \in {Nil, Config[n]}
  <2>a. \A n \in Network : networks[n] \in {Nil, Config[n]}
    BY DEF Faithful
  <2>1. \/ \E h \in Handler : CreateNetwork(h) \/ Forgets(h)
        \/ UNCHANGED networks \/ networks' = [n \in Network |-> Nil]
    <3>1. ASSUME NEW h \in Handler, (\E r \in Request : Receive(h, r)) \/ Answered(h)
          PROVE  UNCHANGED networks
      BY <3>1, Zenon DEF Receive, Answered, Return, pluginVars
    <3>2. Environment => UNCHANGED networks \/ networks' = [n \in Network |-> Nil]
      BY Zenon DEF Environment, PopulateCache, LoseConnection, Crash, Exit, NewDriver, Vswitchd, pluginVars
    <3>3. UNCHANGED hostVars => UNCHANGED networks
      BY Zenon DEF hostVars, vars, pluginVars
    <3> QED BY <3>1, <3>2, <3>3, CallIsReceive, MapHandler, Zenon DEF HostNext
  <2>2. ASSUME NEW h \in Handler, CreateNetwork(h)
        PROVE  \A n \in Network : networks'[n] \in {Nil, Config[n]}
    <3>1. PICK n \in Network : req[h] = CreateOf(n)
      BY <1>b, <2>2, AtWork, Zenon DEF CreateNetwork, At, CreateLabel, IndInv
    <3>2. req[h].net = n /\ req[h].ns = Config[n]
      <4>1. CreateOf(n).net = n /\ CreateOf(n).ns = Config[n]
        BY DEF CreateOf
      <4> QED BY <3>1, <4>1, Zenon
    <3>3. UNCHANGED networks \/ networks' = [networks EXCEPT ![n] = Config[n]]
      BY <2>2, <3>2, Zenon DEF CreateNetwork
    <3> QED BY <1>a, <2>a, <3>3, Zenon
  <2>3. ASSUME NEW h \in Handler, Forgets(h)
        PROVE  \A n \in Network : networks'[n] \in {Nil, Config[n]}
    BY <1>a, <2>a, <2>3, Zenon DEF Forgets
  <2> QED BY <2>a, <2>1, <2>2, <2>3, Zenon
<1> QED BY <1>1, <1>2, RowsFaithfulStep, Zenon DEF Faithful
=============================================================================
