---- MODULE MCDatabase ----
(* Instances of the two modules below the driver's connection to ovsdb-server for TLC, side
   by side: the rpc2 client and the start of the plugin. A behaviour chooses a part and stays
   in it, the variables of the other parts keep their first values. *)
EXTENDS Naturals, TLC

CONSTANT Nil

VARIABLES part,
    pc, sending, seq, pending, closing, shutdown, disconnected, result, completions,    \* Rpc2
    reader, codecSeq, codecPending, running, handled,
    conn, toServer, fromServer, serving, answers, unsent,
    main, attempt, link, registered, handlers, watcher, db, monitored, snapshot, cache, \* PluginStart
    updates, monitor, death

rpcVars == <<pc, sending, seq, pending, closing, shutdown, disconnected, result, completions,
             reader, codecSeq, codecPending, running, handled,
             conn, toServer, fromServer, serving, answers, unsent>>
startVars == <<main, attempt, link, registered, handlers, watcher, db, monitored, snapshot, cache,
               updates, monitor, death>>
vars == <<part, rpcVars, startVars>>

Req(n, m, call) == [name |-> n, method |-> m, call |-> call]

(* libovsdb registers echo and update. *)
Handled == {"echo", "update"}

(* Two calls, while the peer sends an update. *)
Calls == INSTANCE Rpc2 WITH Caller <- {"c1", "c2"}, Methods <- Handled,
    Incoming <- {Req("u", "update", FALSE)}

(* One call, while the peer sends two echoes, to be answered under their own ids, or
   a request and a notification that nobody handles. *)
Peer == INSTANCE Rpc2 WITH Caller <- {"c1"}, Methods <- Handled,
    Incoming <- {Req("e1", "echo", TRUE), Req("e2", "echo", TRUE)}
Strange == INSTANCE Rpc2 WITH Caller <- {"c1"}, Methods <- Handled,
    Incoming <- {Req("s", "steal", TRUE), Req("l", "locked", FALSE)}

(* The root row, a bridge of other users and one that monitorBridges may create; two attempts
   to connect, two updates in flight. *)
Rows == {"root", "r1", "r2"}
Start == INSTANCE PluginStart WITH Row <- Rows, Root <- "root", Foreign <- {"root", "r1"},
    Retries <- 2, MayRename <- TRUE, InFlight <- 2, conn <- link

Init ==
    /\ part \in {"calls", "peer", "strange", "start"}
    /\ CASE part = "peer" -> Peer!Init
         [] part = "strange" -> Strange!Init
         [] OTHER -> Calls!Init
    /\ Start!Init
    /\ part = "start" \/ db = [r \in Rows |-> "none"]
InCalls == part = "calls" /\ Calls!Next /\ UNCHANGED <<part, startVars>>
InPeer == part = "peer" /\ Peer!Next /\ UNCHANGED <<part, startVars>>
InStrange == part = "strange" /\ Strange!Next /\ UNCHANGED <<part, startVars>>
InStart == part = "start" /\ Start!Next /\ UNCHANGED <<part, rpcVars>>
Next == InCalls \/ InPeer \/ InStrange \/ InStart
Spec == Init /\ [][Next]_vars

(* Goroutines that can run are scheduled, and a mutex that keeps becoming free is not withheld
   for ever from one of them. The server reads and answers what it was sent, or the connection
   breaks: rpc2 has no timeout. Somebody initialises the database with its root row. *)
OfCalls(A) == part = "calls" /\ A /\ UNCHANGED <<part, startVars>>
OfStart(A) == part = "start" /\ A /\ UNCHANGED <<part, rpcVars>>
Fairness ==
    /\ \A c \in {"c1", "c2"} : SF_vars(OfCalls(Calls!SendLock(c))) /\ WF_vars(OfCalls(Calls!Send(c)))
    /\ SF_vars(OfCalls(Calls!TerminateLock)) /\ WF_vars(OfCalls(Calls!ReadLoop))
    /\ WF_vars(OfCalls(Calls!CloseCodec)) /\ WF_vars(OfCalls(Calls!PeerReads))
    /\ WF_vars(OfCalls(\E m \in serving : Calls!Answers(m)))
    /\ WF_vars(OfStart(Start!Main)) /\ WF_vars(OfStart(Start!recreateBridge))
    /\ WF_vars(OfStart(Start!clearConnection)) /\ WF_vars(OfStart(Start!InsertRow("root")))
    /\ WF_vars(OfStart(\E u \in updates : Start!Goroutine(u)))
FairSpec == Spec /\ Fairness

(* Two concurrent calls of an rpc2.Client see the service of RpcService: one outcome each,
   the reply to the call's own request or an error. *)
ImplementsService == (part = "calls" => Calls!Service!Init)
                     /\ [][part = "calls" => Calls!ServiceStep]_vars

(* The peer gets at most one response to each of its requests, under the id it gave, and none
   to a notification, though handlers finish in any order. *)
AnswersMatch == /\ part = "peer" => Peer!AnswersMatch
                /\ part = "strange" => Strange!AnswersMatch

(* Call returns, although send, the reader and the end of readLoop compete for the client. *)
CallsReturn ==
    LET At(c, p) == part = "calls" /\ pc[c] = p
    IN  \A c \in {"c1", "c2"} : At(c, "lock") ~> At(c, "done")

(* No row is invisible for good once the start has entered the snapshot, though updates
   overtake it. *)
CacheMissesNothing == part = "start" => Start!CacheMissesNothing

(* The start ends, and no update is stuck for good in front of the unbuffered channel. *)
StartEnds == (part = "start" => Start!Ends) /\ Start!UpdatesDrain
====
