---- MODULE MCFirewall ----
(* Instances of the iptables package, and of the dbus package through which it talks to
   firewalld, for TLC, side by side: a behaviour chooses a part and stays in it, the variables
   of the other parts keep their first values. *)
EXTENDS Naturals, TLC

CONSTANT Nil

VARIABLES part,
    chains, run, last, result, firewalldRunning, fwUp, signals, failed, started, faults,  \* Iptables
    pc, serial, nextSerial, serialUsed, calls, out, closed, done, outcome, inWorker,      \* DbusConn
    pending, closing, closer, registered, sig, sigClosed, taken, eavesdropped, panicked,
    transport, inbox, atBus, unsent,
    caller, lock, systemBus, open, count, at, attempts, state, cookie, unixFD,            \* DbusAuth
    toBus, toMe, bus,
    handlers, answer, steps                                                               \* DbusExport

tableVars == <<chains, run, last, result, firewalldRunning, fwUp, signals, failed, started, faults>>
connVars == <<pc, serial, nextSerial, serialUsed, calls, out, closed, done, outcome, inWorker,
              pending, closing, closer, registered, sig, sigClosed, taken, eavesdropped, panicked,
              transport, inbox, atBus, unsent>>
authVars == <<caller, lock, systemBus, open, count, at, attempts, state, cookie, unixFD, toBus,
              toMe, bus>>
exportVars == <<handlers, answer, steps>>
vars == <<part, tableVars, connVars, authVars, exportVars>>

----
Call(op, table, hairpin) == [op |-> op, name |-> "DOCKER", table |-> table, hairpin |-> hairpin]
NatCall == [op |-> "natOut", name |-> "cidr", table |-> "nat", hairpin |-> FALSE]
FilterCalls == {Call(op, "filter", FALSE) : op \in {"NewChain", "enable", "disable", "link", "unlink", "Remove"}}
NatChainCalls == {Call(op, "nat", h) : op \in {"NewChain", "enable", "disable"}, h \in BOOLEAN}
                   \cup {Call("Remove", "nat", FALSE)}
ForwardCalls == {Call("NewChain", t, FALSE) : t \in {"nat", "filter"}}
                  \cup {Call(op, "nat", FALSE) : op \in {"forward", "unforward"}}

(* Two handlers create NAT networks with one gateway while firewalld is reloaded and restarted. *)
Gateways == INSTANCE Iptables WITH Proc <- {"p", "q", "h"}, Reloader <- "h", Start <- {NatCall},
    Restore <- NatCall, Firewalld <- TRUE, LongerName <- {}, MaxOps <- 4, MaxFaults <- 2

(* One caller sets up a chain and takes it down, in either table. *)
Chain == INSTANCE Iptables WITH Proc <- {"p"}, Reloader <- "h", Start <- FilterCalls \cup NatChainCalls,
    Restore <- Nil, Firewalld <- FALSE, LongerName <- {}, MaxOps <- 6, MaxFaults <- 0

(* Two callers forward a port in chains of both tables. *)
Ports == INSTANCE Iptables WITH Proc <- {"p", "q"}, Reloader <- "h", Start <- ForwardCalls,
    Restore <- Nil, Firewalld <- FALSE, LongerName <- {}, MaxOps <- 6, MaxFaults <- 0

(* Three calls, two of them made by the handler of signals, with serials that wrap around; a bus
   that may end. *)
Three == {"p1", "p2", "p3"}
Busy == INSTANCE DbusConn WITH Proc <- Three, Kind <- [p \in Three |-> "call"], Fds <- {"p1"},
    Bad <- {}, hasUnixFDs <- FALSE, SerialMod <- 3, OutCap <- 1, SigCap <- 1, Signals <- 2,
    Handlers <- <<"p2", "p3">>, UserCloses <- FALSE, MayEavesdrop <- FALSE, MayDie <- TRUE,
    result <- outcome

(* A call, a call without reply and the answer to a call of somebody else, with Close and an
   eavesdropper. *)
Mixed == [p1 |-> "call", p2 |-> "oneway", p3 |-> "answer"]
Kinds == INSTANCE DbusConn WITH Proc <- DOMAIN Mixed, Kind <- Mixed, Fds <- {"p2"}, Bad <- {},
    hasUnixFDs <- FALSE, SerialMod <- 4, OutCap <- 1, SigCap <- 1, Signals <- 0, Handlers <- <<>>,
    UserCloses <- TRUE, MayEavesdrop <- TRUE, MayDie <- FALSE, result <- outcome

(* Two callers of SystemBus, and what a bus may offer; OK has its one field. *)
Auth == INSTANCE DbusAuth WITH Callers <- {"a", "b"}, UnixFDs <- {TRUE, FALSE}, OkFields <- {1},
    Offers <- {<<>>, <<"ANONYMOUS">>, <<"EXTERNAL", "DBUS_COOKIE_SHA1">>,
               <<"DBUS_COOKIE_SHA1", "ANONYMOUS", "EXTERNAL">>},
    MayFail <- TRUE, pc <- at

(* Paths of up to three elements, two interfaces, methods exported under their own names, or one
   under a new name and the other under the name of the first. *)
Export == INSTANCE DbusExport WITH Paths <- {<<>>, <<"a">>, <<"a", "b">>, <<"a", "b", "c">>},
    Ifaces <- {"i", "j"}, Mappings <- {<<>>, ("Foo" :> "Bar") @@ ("Bar" :> "foo")},
    MaxSteps <- 3, last <- answer

----
Init ==
    /\ part \in {"nat", "chain", "ports", "busy", "kinds", "auth", "export"}
    /\ CASE part = "chain" -> Chain!Init [] part = "ports" -> Ports!Init [] OTHER -> Gateways!Init
    /\ IF part = "kinds" THEN Kinds!Init ELSE Busy!Init
    /\ Auth!Init
    /\ Export!Init
InNat == part = "nat" /\ Gateways!Next /\ UNCHANGED <<part, connVars, authVars, exportVars>>
InChain == part = "chain" /\ Chain!Next /\ UNCHANGED <<part, connVars, authVars, exportVars>>
InPorts == part = "ports" /\ Ports!Next /\ UNCHANGED <<part, connVars, authVars, exportVars>>
InBusy == part = "busy" /\ Busy!Next /\ UNCHANGED <<part, tableVars, authVars, exportVars>>
InKinds == part = "kinds" /\ Kinds!Next /\ UNCHANGED <<part, tableVars, authVars, exportVars>>
InAuth == part = "auth" /\ Auth!Next /\ UNCHANGED <<part, tableVars, connVars, exportVars>>
InExport == part = "export" /\ Export!Next /\ UNCHANGED <<part, tableVars, connVars, authVars>>
Next == InNat \/ InChain \/ InPorts \/ InBusy \/ InKinds \/ InAuth \/ InExport
Spec == Init /\ [][Next]_vars

(* Commands return, signals are read, and systemd restarts firewalld. Goroutines of the dbus
   package that can run do run, and the bus answers what it has got. *)
OfNat(A) == part = "nat" /\ A /\ UNCHANGED <<part, connVars, authVars, exportVars>>
OfBusy(A) == part = "busy" /\ ~panicked /\ A /\ UNCHANGED <<part, tableVars, authVars, exportVars>>
Fairness ==
    /\ \A p \in {"p", "q", "h"} : WF_vars(OfNat(Gateways!Step(p)))
    /\ WF_vars(OfNat(Gateways!signalHandler)) /\ WF_vars(OfNat(Gateways!FirewalldStarts))
    /\ WF_vars(OfBusy(Busy!Worker)) /\ \A p \in Three : WF_vars(OfBusy(Busy!BusMessages(p)))
FairSpec == Spec /\ Fairness

----
(* Copies of the rule of natOut are bounded by the goroutines that run at a time and by the
   checks that were lost, not by the number of networks created. *)
NatBounded == part = "nat" => Gateways!NatBounded

(* What a callback of OnReloaded sets up comes back after every reload and restart of firewalld,
   also when firewalld ends while the callback runs. *)
Restored == <>[](part = "nat" /\ faults > 0 => Gateways!Masquerades(NatCall) > 0)

(* Once all calls of ProgramChain, Forward and Remove are over, the rules are what they left. *)
RulesFollowCalls == /\ part = "chain" => Chain!RulesFollowCalls
                    /\ part = "ports" => Ports!RulesFollowCalls

(* A caller of the bus never gets the reply of another call, though serials are used again. *)
OwnReply == /\ part = "busy" => Busy!OwnReply
            /\ part = "kinds" => Kinds!OwnReply

(* A call that has been queued returns: with its reply, or with an error when the connection
   ends. *)
QueuedCallsReturn ==
    \A c \in Three : (part = "busy" /\ \E i \in DOMAIN out : out[i] = c) ~> (pc[c] = "returned")

(* Auth and the bus stay in step from one mechanism to the next and at BEGIN. *)
AttemptsInStep == part = "auth" => Auth!InStep

(* A call is served by the handler that was exported nearest to its path. *)
NearestServes == part = "export" => Export!NearestServes
====
