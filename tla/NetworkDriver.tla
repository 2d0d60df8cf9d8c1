---- MODULE NetworkDriver ----
(* What docker can rely on in a network driver. A call has at most one effect, between its
   arrival and its answer; "ok" means that the effect is there. Calls may fail with or without
   their effect, and repeating an unanswered call does not repeat it. present and attached are
   the networks and endpoints that exist on the host. *)
CONSTANTS Network, Endpoint, NetOf

VARIABLES dnet, dep,             \* docker's view of each network and endpoint
          confirmed,             \* last answer "ok" and given over a live connection to the database
          present, attached

views == <<dnet, dep, confirmed>>
effects == <<present, attached>>
vars == <<views, effects>>

Init ==
    /\ dnet = [n \in Network |-> "new"] /\ dep = [e \in Endpoint |-> "new"] /\ confirmed = {}
    /\ present = {} /\ attached = {}

(* Effects *)
Create(n) == /\ dnet[n] = "creating" /\ n \notin present /\ present' = present \cup {n}
             /\ UNCHANGED <<views, attached>>
Delete(n) == /\ dnet[n] = "deleting" /\ n \in present /\ present' = present \ {n}
             /\ attached' = {e \in attached : NetOf[e] # n} /\ UNCHANGED views
Attach(e) == /\ dep[e] = "joining" /\ e \notin attached /\ NetOf[e] \in present
             /\ attached' = attached \cup {e} /\ UNCHANGED <<views, present>>
Detach(e) == /\ dep[e] = "leaving" /\ e \in attached
             /\ attached' = attached \ {e} /\ UNCHANGED <<views, present>>

(* Calls and answers *)
NetMoves == {<<"new", "creating">>, <<"live", "deleting">>, <<"creating", "live">>, <<"creating", "failed">>,
             <<"deleting", "gone">>, <<"deleting", "deleting">>}
EpMoves == {<<"new", "joining">>, <<"joined", "leaving">>, <<"joining", "joined">>, <<"joining", "failed">>,
            <<"leaving", "left">>, <<"leaving", "failed">>}
Others(x) == confirmed' \ {x} = confirmed \ {x}
MoveNetwork(n) ==
    /\ \E v \in NetMoves : dnet[n] = v[1] /\ dnet' = [dnet EXCEPT ![n] = v[2]]
    /\ dnet'[n] = "live" => n \in present
    /\ dnet'[n] = "gone" /\ n \in confirmed' => n \notin present
    /\ dnet'[n] = "deleting" => \A e \in Endpoint : NetOf[e] = n => dep[e] \in {"new", "left", "failed"}
    /\ Others(n) /\ UNCHANGED <<dep, effects>>
MoveEndpoint(e) ==
    /\ \E v \in EpMoves : dep[e] = v[1] /\ dep' = [dep EXCEPT ![e] = v[2]]
    /\ dep'[e] = "joined" /\ e \in confirmed' => e \in attached
    /\ dep'[e] = "left" => e \notin attached
    /\ Others(e) /\ UNCHANGED <<dnet, effects>>

Next ==
    \/ \E n \in Network : Create(n) \/ Delete(n) \/ MoveNetwork(n)
    \/ \E e \in Endpoint : Attach(e) \/ Detach(e) \/ MoveEndpoint(e)
Spec == Init /\ [][Next]_vars
====
