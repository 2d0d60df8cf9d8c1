---- MODULE MCServing ----
(* Instances of what surrounds the driver for TLC, side by side: the plugin's server, the lookup
   of its group, the options of a network, and the client of docker. A behaviour chooses a part
   and stays in it, the variables of the other parts keep their first values. *)
EXTENDS Naturals, TLC

VARIABLES part,
    proto, file, umask, pc, starts, fails, ready, client,               \* PluginServer
    passwd, group,                                                      \* UserLookup
    networks, last,                                                     \* NetworkOptions
    op, at, status, text, objects, body, result,                        \* DockerApi
    decoder, relay, wrap, user, item, stream, open, sent,               \* DockerMonitor
    eventStopChan, stopChan, stopped, monitorStats, stat

serverVars == <<proto, file, umask, pc, starts, fails, ready, client>>
userVars == <<passwd, group>>
optionVars == <<networks, last>>
apiVars == <<op, at, status, text, objects, body, result>>
monitorVars == <<decoder, relay, wrap, user, item, stream, open, sent,
                 eventStopChan, stopChan, stopped, monitorStats, stat>>
vars == <<part, serverVars, userVars, optionVars, apiVars, monitorVars>>

(* Clients of every kind, and one client of a server that is started again and again. *)
Group == INSTANCE PluginServer WITH Clients <- {"docker", "ops", "joe"},
    Kinds <- [docker |-> "root", ops |-> "member", joe |-> "other"], MaxStarts <- 3, MaxFails <- 2
Restarts == INSTANCE PluginServer WITH Clients <- {"docker"}, Kinds <- [docker |-> "root"],
    MaxStarts <- 3, MaxFails <- 2

(* Files of up to three lines. *)
Lookup == INSTANCE UserLookup WITH MaxLines <- 3, maxId <- 500

(* Three networks, two of them with ids that begin alike; one network with every option. *)
ThreeIds == {<<"a1b2c", "x">>, <<"a1b2c", "y">>, <<"d4e5f", "x">>}
Names == INSTANCE NetworkOptions WITH Ids <- ThreeIds, Varied <- {"name", "network_name"}, MaxNetworks <- 3
Values == INSTANCE NetworkOptions WITH Ids <- ThreeIds,
    Varied <- {"mtu", "mode", "bind_interface", "type", "network_name"}, MaxNetworks <- 1

(* Every operation of dockerclient once; one monitor of events and two of statistics. *)
Api == INSTANCE DockerApi WITH pc <- at
Monitors == INSTANCE DockerMonitor WITH Monitor <- {"m1"}, Stat <- {"c1", "c2"}, Events <- 2

Init ==
    /\ part \in {"group", "restarts", "lookup", "names", "values", "api", "monitors"}
    /\ IF part = "restarts" THEN Restarts!Init
       ELSE Group!Init /\ (part # "group" => proto = "unix" /\ file.kind = "none")
    /\ Lookup!Init
    /\ Names!Init
    /\ Api!Init /\ (part = "api" \/ op = Api!Info)
    /\ Monitors!Init
InGroup == part = "group" /\ Group!Next /\ UNCHANGED <<part, userVars, optionVars, apiVars, monitorVars>>
InRestarts == part = "restarts" /\ Restarts!Next /\ UNCHANGED <<part, userVars, optionVars, apiVars, monitorVars>>
InLookup == part = "lookup" /\ Lookup!Next /\ UNCHANGED <<part, serverVars, optionVars, apiVars, monitorVars>>
InNames == part = "names" /\ Names!Next /\ UNCHANGED <<part, serverVars, userVars, apiVars, monitorVars>>
InValues == part = "values" /\ Values!Next /\ UNCHANGED <<part, serverVars, userVars, apiVars, monitorVars>>
InApi == part = "api" /\ Api!Next /\ UNCHANGED <<part, serverVars, userVars, optionVars, monitorVars>>
InMonitors == part = "monitors" /\ Monitors!Next /\ UNCHANGED <<part, serverVars, userVars, optionVars, apiVars>>
Next == InGroup \/ InRestarts \/ InLookup \/ InNames \/ InValues \/ InApi \/ InMonitors
Spec == Init /\ [][Next]_vars

(* The process and each of its handlers go on while it lives, and the operator starts the plugin
   again. The goroutines of a monitor run, and a select that can stop again and again does so at
   last. *)
OfRestarts(A) == part = "restarts" /\ A /\ UNCHANGED <<part, userVars, optionVars, apiVars, monitorVars>>
OfMonitors(A) == part = "monitors" /\ A /\ UNCHANGED <<part, serverVars, userVars, optionVars, apiVars>>
Fairness ==
    /\ WF_vars(OfRestarts(Restarts!Start)) /\ WF_vars(OfRestarts(Restarts!Starting))
    /\ WF_vars(OfRestarts(Restarts!Accept("docker"))) /\ WF_vars(OfRestarts(Restarts!Decode("docker")))
    /\ WF_vars(OfRestarts(Restarts!Call("docker")))
    /\ WF_vars(OfMonitors(Monitors!Step("m1"))) /\ SF_vars(OfMonitors(Monitors!RelayStops("m1")))
    /\ \A c \in {"c1", "c2"} : WF_vars(OfMonitors(Monitors!StatStep(c)))
FairSpec == Spec /\ Fairness

(* NewUnixSocket: nobody but root and, once it has been given to the group, its members connect
   to the plugin's socket, at no step of its creation; no handler runs with the umask of the
   start. *)
OnlyTheGroup == /\ part = "group" => Group!OnlyTheGroup
                /\ part = "restarts" => Restarts!OnlyTheGroup

(* The plugin serves in the end and answers who connects, whatever crashes and failed starts
   left behind. *)
ServesInTheEnd == part = "restarts" => Restarts!ServesInTheEnd

(* A user is found by name and by number alike, and the three ways to find a group agree. *)
LookupsAgree == part = "lookup" => Lookup!NameOrNumber /\ Lookup!GroupLookupsAgree

(* What CreateNetwork keeps of a request can be served, and no two networks share a bridge but
   for the same beginning of their ids or a bridge asked for by name. *)
DistinctBridges == /\ part = "names" => Names!Served
                   /\ part = "values" => Values!Served

(* An operation of dockerclient returns nil only if the daemon did what it was asked, and leaves
   no response open. *)
ApiNilMeansDone == part = "api" => Api!NilMeansDone

(* A monitor that is stopped, or whose daemon is gone, ends with all its goroutines. *)
MonitorEnds == Monitors!MonitorEnds
====
