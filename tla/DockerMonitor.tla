---- MODULE DockerMonitor ----
(* The monitors of dockerclient: StartMonitorEvents with the goroutines behind it
   (one decodes the stream, one watches the stop channel, one turns results into
   events, one runs the callback), joined by channels without buffer, and
   StartMonitorStats with its common flag. The daemon is external. *)
EXTENDS Naturals, Sequences, SequencesExt, FiniteSets

CONSTANTS
    Monitor,    \* event monitors, each started once
    Stat,       \* containers whose stats are monitored, each started once
    Events      \* bound: events the daemon sends to a monitor

VARIABLES
    decoder,    \* "none" | "decode" | "send" | "ended"
    relay,      \* readJSONStream's goroutine: "none" | "select" | "send" | "drain" | "ended"
    wrap,       \* MonitorEvents' goroutine: "none" | "receive" | "send" | "ended"
    user,       \* StartMonitorEvents' goroutine: "idle" | "get" | "receive" | "call" | "report" | "ended"
    item,       \* per monitor and goroutine: the value it holds
    stream,     \* what the daemon has sent and nobody has decoded
    open,       \* the response body: "open" | "cut" (by the daemon) | "closed"
    sent,       \* number of events the daemon has sent
    eventStopChan,      \* client.eventStopChan: its number, 0 for nil
    stopChan,   \* per monitor: the channel it has been given
    stopped,    \* closed stop channels
    monitorStats, stat  \* the flag; per container: "idle" | "get" | "test" | "decode" | "call" | "ended"

piped == <<decoder, relay, wrap, user, item>>
remote == <<stream, open, sent>>
stops == <<eventStopChan, stopChan, stopped>>
statVars == <<monitorStats, stat>>
vars == <<piped, remote, stops, statVars>>

Fail == Events + 1      \* a decoding error, beside the events 1 .. Events
Place == {"decoder", "relay", "wrap", "user"}

Init ==
    /\ decoder = [m \in Monitor |-> "none"] /\ relay = decoder /\ wrap = decoder
    /\ user = [m \in Monitor |-> "idle"] /\ item = [m \in Monitor |-> [p \in Place |-> 0]]
    /\ stream = [m \in Monitor |-> <<>>]
    /\ open = [m \in Monitor |-> "closed"] /\ sent = [m \in Monitor |-> 0]
    /\ eventStopChan = 0 /\ stopChan = [m \in Monitor |-> 0] /\ stopped = {}
    /\ monitorStats = 0 /\ stat = [c \in Stat |-> "idle"]

Set(f, m, v) == [f EXCEPT ![m] = v]
Give(m, p, v) == [item EXCEPT ![m][p] = v]

----
(* The stop channel is made before the goroutine starts and read inside it. *)
StartMonitorEvents(m) ==
    /\ user[m] = "idle" /\ user' = Set(user, m, "get")
    /\ eventStopChan' = eventStopChan + 1
    /\ UNCHANGED <<decoder, relay, wrap, item, remote, stopChan, stopped, statVars>>

StopAllMonitorEvents ==
    /\ eventStopChan > 0 /\ eventStopChan \notin stopped    \* a second close would panic
    /\ stopped' = stopped \cup {eventStopChan}
    /\ UNCHANGED <<piped, remote, eventStopChan, stopChan, statVars>>

MonitorEvents(m) ==
    /\ user[m] = "get" /\ stopChan' = Set(stopChan, m, eventStopChan)
    /\ decoder' = Set(decoder, m, "decode") /\ relay' = Set(relay, m, "select")
    /\ wrap' = Set(wrap, m, "receive") /\ user' = Set(user, m, "receive")
    /\ open' = Set(open, m, "open")
    /\ UNCHANGED <<item, stream, sent, eventStopChan, stopped, statVars>>
MonitorEventsFails(m) ==
    /\ user[m] = "get" /\ user' = Set(user, m, "report")
    /\ UNCHANGED <<decoder, relay, wrap, item, remote, stops, statVars>>

Decode(m) ==
    /\ decoder[m] = "decode" /\ decoder' = Set(decoder, m, "send")
    /\ IF open[m] # "closed" /\ stream[m] # <<>>
       THEN item' = Give(m, "decoder", Head(stream[m])) /\ stream' = Set(stream, m, Tail(stream[m]))
       ELSE open[m] # "open" /\ item' = Give(m, "decoder", Fail) /\ UNCHANGED stream
    /\ UNCHANGED <<relay, wrap, user, open, sent, stops, statVars>>
DecoderSent(m) == Set(decoder, m, IF item[m].decoder = Fail THEN "ended" ELSE "decode")

(* The select of readJSONStream. *)
RelayReceives(m) ==
    /\ relay[m] = "select" /\ decoder[m] = "send"
    /\ relay' = Set(relay, m, "send") /\ item' = Give(m, "relay", item[m].decoder)
    /\ decoder' = DecoderSent(m)
    /\ UNCHANGED <<wrap, user, remote, stops, statVars>>
StreamLeftOpen(m) == open[m]        \* mutant: the stream is not closed
StreamAfterStop(m) == "closed"
RelayStops(m) ==
    /\ relay[m] = "select" /\ stopChan[m] \in stopped
    /\ relay' = Set(relay, m, "drain") /\ open' = Set(open, m, StreamAfterStop(m))
    /\ UNCHANGED <<decoder, wrap, user, item, stream, sent, stops, statVars>>
RelayDrains(m) ==
    /\ relay[m] = "drain" /\ decoder[m] = "send"
    /\ decoder' = DecoderSent(m)
    /\ UNCHANGED <<relay, wrap, user, item, remote, stops, statVars>>
RelayDrained(m) ==
    /\ relay[m] = "drain" /\ decoder[m] = "ended"
    /\ relay' = Set(relay, m, "ended")
    /\ UNCHANGED <<decoder, wrap, user, item, remote, stops, statVars>>

EndsOnError(v) == v = Fail
RelaySends(m) ==
    /\ relay[m] = "send" /\ wrap[m] = "receive"
    /\ wrap' = Set(wrap, m, "send") /\ item' = Give(m, "wrap", item[m].relay)
    /\ IF EndsOnError(item[m].relay)
       THEN open' = Set(open, m, "closed") /\ relay' = Set(relay, m, "ended")
       ELSE UNCHANGED open /\ relay' = Set(relay, m, "select")
    /\ UNCHANGED <<decoder, user, stream, sent, stops, statVars>>

(* range over decodingResultChan, then close(eventOrErrorChan) *)
WrapSends(m) ==
    /\ wrap[m] = "send" /\ user[m] = "receive"
    /\ wrap' = Set(wrap, m, "receive")
    /\ item' = Give(m, "user", item[m].wrap)
    /\ user' = Set(user, m, IF item[m].wrap = Fail THEN "report" ELSE "call")
    /\ UNCHANGED <<decoder, relay, remote, stops, statVars>>
WrapEnds(m) ==
    /\ wrap[m] = "receive" /\ relay[m] = "ended" /\ wrap' = Set(wrap, m, "ended")
    /\ UNCHANGED <<decoder, relay, user, item, remote, stops, statVars>>

(* The callback returns; ec is nil or somebody receives from it. *)
CallsBack(m) ==
    /\ user[m] = "call" /\ user' = Set(user, m, "receive")
    /\ UNCHANGED <<decoder, relay, wrap, item, remote, stops, statVars>>
UserEnds(m) ==
    /\ user[m] = "report" \/ (user[m] = "receive" /\ wrap[m] = "ended")
    /\ user' = Set(user, m, "ended")
    /\ UNCHANGED <<decoder, relay, wrap, item, remote, stops, statVars>>
----
DaemonSends(m) ==
    /\ open[m] = "open" /\ sent[m] < Events /\ sent' = Set(sent, m, sent[m] + 1)
    /\ stream' = Set(stream, m, Append(stream[m], sent[m] + 1))
    /\ UNCHANGED <<piped, open, stops, statVars>>
DaemonCuts(m) ==
    /\ open[m] = "open" /\ open' = Set(open, m, "cut")
    /\ UNCHANGED <<piped, stream, sent, stops, statVars>>

----
StartMonitorStats(c) ==
    /\ stat[c] = "idle" /\ monitorStats' = 1 /\ stat' = Set(stat, c, "get")
    /\ UNCHANGED <<piped, remote, stops>>
StopAllMonitorStats == monitorStats' = 0 /\ UNCHANGED <<piped, remote, stops, stat>>

(* One step of getStats; the daemon sends stats for ever, until it fails. *)
getStats(c, s) ==
    /\ stat[c] \notin {"idle", "ended"} /\ stat' = Set(stat, c, s)
    /\ CASE stat[c] = "get"    -> s \in {"test", "ended"}
         [] stat[c] = "test"   -> s = IF monitorStats > 0 THEN "decode" ELSE "ended"
         [] stat[c] = "decode" -> s \in {"call", "ended"}
         [] stat[c] = "call"   -> s = "test"
    /\ UNCHANGED <<piped, remote, stops, monitorStats>>

StatStep(c) == \E s \in {"test", "decode", "call", "ended"} : getStats(c, s)
Step(m) ==
    \/ MonitorEvents(m) \/ MonitorEventsFails(m) \/ Decode(m)
    \/ RelayReceives(m) \/ RelayStops(m) \/ RelayDrains(m) \/ RelayDrained(m) \/ RelaySends(m)
    \/ WrapSends(m) \/ WrapEnds(m) \/ CallsBack(m) \/ UserEnds(m)
Next ==
    \/ \E m \in Monitor : Step(m) \/ StartMonitorEvents(m) \/ DaemonSends(m) \/ DaemonCuts(m)
    \/ \E c \in Stat : StartMonitorStats(c) \/ StatStep(c)
    \/ StopAllMonitorEvents \/ StopAllMonitorStats
Spec == Init /\ [][Next]_vars

----
(* Every monitor whose stop channel is closed, or whose daemon ends the stream, ends with all
   its goroutines and closes the response. After StopAllMonitorStats, if no monitor is started
   again, those of statistics end too. *)
MonitorEnds ==
    /\ \A m \in Monitor :
          (user[m] # "idle" /\ (stopChan[m] \in stopped \/ open[m] = "cut"))
          ~> ({decoder[m], relay[m], wrap[m], user[m]} = {"ended"} /\ open[m] = "closed")
    /\ <>[](monitorStats = 0) => <>[](\A c \in Stat : stat[c] \in {"idle", "ended"})
====
