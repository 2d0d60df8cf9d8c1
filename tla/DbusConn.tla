---- MODULE DbusConn ----
(* dbus.Conn after authentication: the goroutines that send messages, inWorker,
   outWorker, the reader of a Signal channel that makes calls itself (as
   firewalld's signalHandler does), and Close. Go's channels and locks block
   here as they do in the code: Send holds outLck while conn.out is full, inWorker
   holds signalsLck while a signal channel is full and callsLck while it ends the
   pending calls. The bus is external. *)
EXTENDS Naturals, Sequences, Functions

CONSTANTS
    Proc,       \* messages this side sends, each by a goroutine of its own, once
    Kind,       \* per message: "call", "oneway" (NoReplyExpected), "emit" or "answer" (handleCall)
    Fds,        \* messages that carry file descriptors
    Bad,        \* messages that EncodeTo refuses
    hasUnixFDs, \* file descriptors were negotiated
    SerialMod,  \* number of serials, 2^32 in the code
    OutCap,     \* capacity of conn.out, 10 in the code
    SigCap,     \* capacity of the registered signal channel, 10 in firewalld
    Signals,    \* number of signals the bus sends
    Handlers,   \* sequence: the call the signal handler makes on its k-th signal
    UserCloses, MayEavesdrop, MayDie    \* Close, Eavesdrop and the end of the bus can happen

DoneCap == 1    \* the channel of Object.Call
Spontaneous == {p \in Proc : Kind[p] # "answer"} \ Range(Handlers)
Calls == {p \in Proc : Kind[p] = "call"}

VARIABLES
    pc,         \* per message: "idle" | "serial" | "register" | "send" | "wait" | "returned"
    serial,     \* per message: msg.serial, 0 before getSerial
    nextSerial, serialUsed, calls,
    out, closed,
    done,       \* per call: how many values its Done channel holds
    result,     \* per call: "none" | "reply" | "foreign" (another call's reply) | "error"
    inWorker,   \* "reading" | "signal" | "deliver" | "close" | "ending" | "ended"
    pending,    \* calls that inWorker still has to end
    closing,    \* Close: "no" | "signals" | "transport" | "finished"
    closer,     \* who runs Close: "none" | "user" | "inWorker"
    registered, sig, sigClosed,     \* the signal channel: passed to Signal, its content, closed
    taken,      \* signals the handler has taken
    eavesdropped,
    panicked,   \* a goroutine has sent on a closed channel
    transport,  \* "open" | "closed"
    inbox,      \* what the bus has sent and ReadMessage has not returned
    atBus,      \* calls the bus has to answer
    unsent      \* signals the bus has not sent

senders == <<pc, serial, nextSerial, serialUsed>>
completion == <<done, result>>
closeVars == <<closing, closer, closed>>
sigVars == <<registered, sig, sigClosed, taken>>
busVars == <<transport, inbox, atBus, unsent>>
vars == <<senders, calls, out, completion, inWorker, pending, closeVars, sigVars,
          eavesdropped, panicked, busVars>>

Init ==
    /\ pc = [p \in Proc |-> "idle"] /\ serial = [p \in Proc |-> 0]
    /\ nextSerial = 1 /\ serialUsed = {0} /\ calls = <<>> /\ out = <<>> /\ closed = FALSE
    /\ done = [c \in Calls |-> 0] /\ result = [c \in Calls |-> "none"]
    /\ inWorker = "reading" /\ pending = {} /\ closing = "no" /\ closer = "none"
    /\ registered = FALSE /\ sig = 0 /\ sigClosed = FALSE /\ taken = 0
    /\ eavesdropped = FALSE /\ panicked = FALSE
    /\ transport = "open" /\ inbox = <<>> /\ unsent = Signals
    /\ atBus = {p \in Proc : Kind[p] = "answer"}    \* calls of others, to be sent to us

----
(* Go, Send, Emit, sendReply and sendError: a serial, then (for a call) its entry
   in calls, then conn.out. *)
Start(p) ==
    /\ pc[p] = "idle" /\ p \in Spontaneous
    /\ pc' = [pc EXCEPT ![p] = "serial"]
    /\ UNCHANGED <<serial, nextSerial, serialUsed, calls, out, completion, inWorker, pending,
                   closeVars, sigVars, eavesdropped, panicked, busVars>>

Wrapped(n) == n % SerialMod

(* The first unused serial from nextSerial on; the counter wraps around. *)
Free0(used) == IF nextSerial = 0 THEN 1 ELSE nextSerial     \* mutant: only skips 0
Free(used) ==
    CHOOSE n \in (0 .. SerialMod - 1) \ used :
        \A m \in (0 .. SerialMod - 1) \ used :
            Wrapped(n + SerialMod - nextSerial) <= Wrapped(m + SerialMod - nextSerial)

getSerial(p) ==
    /\ pc[p] = "serial" /\ serialUsed # 0 .. SerialMod - 1      \* otherwise it looks forever
    /\ LET n == Free(serialUsed) IN
       /\ serial' = [serial EXCEPT ![p] = n]
       /\ serialUsed' = serialUsed \cup {n} /\ nextSerial' = Wrapped(n + 1)
    /\ pc' = [pc EXCEPT ![p] = IF p \in Calls THEN "register" ELSE "send"]
    /\ UNCHANGED <<calls, out, completion, inWorker, pending, closeVars, sigVars, eavesdropped, panicked, busVars>>

Register(p) ==
    /\ pc[p] = "register" /\ inWorker # "ending"
    /\ calls' = [s \in DOMAIN calls \cup {serial[p]} |-> IF s = serial[p] THEN p ELSE calls[s]]
    /\ pc' = [pc EXCEPT ![p] = "send"]
    /\ UNCHANGED <<serial, nextSerial, serialUsed, out, completion, inWorker, pending, closeVars,
                   sigVars, eavesdropped, panicked, busVars>>

Sent(p) == [pc EXCEPT ![p] = IF p \in Calls THEN "wait" ELSE "returned"]

Enqueue(p) ==
    /\ pc[p] = "send" /\ ~closed /\ Len(out) < OutCap
    /\ out' = Append(out, p) /\ pc' = Sent(p)
    /\ UNCHANGED <<serial, nextSerial, serialUsed, calls, completion, inWorker, pending, closeVars,
                   sigVars, eavesdropped, panicked, busVars>>

(* The entry stays in calls. The send on Done blocks when inWorker has just ended
   this call, with nobody to receive: the caller is here. *)
RefusedClosed(p) ==
    /\ pc[p] = "send" /\ closed
    /\ p \in Calls => done[p] < DoneCap
    /\ pc' = Sent(p)
    /\ done' = [c \in Calls |-> done[c] + IF c = p THEN 1 ELSE 0]
    /\ result' = [c \in Calls |-> IF c = p THEN "error" ELSE result[c]]
    /\ UNCHANGED <<serial, nextSerial, serialUsed, calls, out, inWorker, pending, closeVars,
                   sigVars, eavesdropped, panicked, busVars>>

(* Object.Call takes one value from Done. *)
Return(p) ==
    /\ pc[p] = "wait" /\ done[p] > 0
    /\ done' = [done EXCEPT ![p] = @ - 1]
    /\ pc' = [pc EXCEPT ![p] = "returned"]
    /\ UNCHANGED <<serial, nextSerial, serialUsed, calls, out, result, inWorker, pending,
                   closeVars, sigVars, eavesdropped, panicked, busVars>>

----
(* outWorker. SendMessage of the unix transport reports an error only for a
   message with file descriptors: what EncodeTo returns, be it a write error or an
   invalid message, becomes nil. *)
SendFails(p) == p \in Fds /\ (~hasUnixFDs \/ transport = "closed")
Arrives(p) == ~SendFails(p) /\ p \notin Bad /\ transport = "open"

(* Messages but calls give their serial back at once, calls when they are answered. *)
FreesAtOnce(p) == SendFails(p) \/ Kind[p] \in {"emit", "answer"}

outWorker ==
    /\ out # <<>>
    /\ LET p == Head(out)
           c == serial[p]
           fails == SendFails(p) /\ c \in DOMAIN calls
       IN /\ fails => done[calls[c]] < DoneCap
          /\ out' = Tail(out)
          /\ serialUsed' = IF FreesAtOnce(p) THEN serialUsed \ {c} ELSE serialUsed
          /\ done' = IF fails THEN [done EXCEPT ![calls[c]] = @ + 1] ELSE done
          /\ result' = IF fails THEN [result EXCEPT ![calls[c]] = "error"] ELSE result
          /\ atBus' = IF Arrives(p) /\ p \in Calls THEN atBus \cup {p} ELSE atBus
    /\ UNCHANGED <<pc, serial, nextSerial, calls, inWorker, pending, closeVars, sigVars,
                   eavesdropped, panicked, transport, inbox, unsent>>

----
(* inWorker. *)
Reads(k) ==
    /\ inWorker = "reading" /\ transport = "open" /\ inbox # <<>> /\ Head(inbox).kind = k
    /\ inbox' = Tail(inbox)

(* With an eavesdropper every message goes to it, or nowhere. *)
InEavesdropped ==
    /\ eavesdropped
    /\ \E k \in {"reply", "signal", "answer"} : Reads(k)
    /\ UNCHANGED <<senders, calls, out, completion, inWorker, pending, closeVars, sigVars,
                   eavesdropped, panicked, transport, atBus, unsent>>

Forgotten(s) == Restrict(calls, DOMAIN calls \ {s})

InReply ==
    /\ ~eavesdropped /\ Reads("reply")
    /\ LET s == Head(inbox).serial IN
       IF s \in DOMAIN calls
       THEN /\ done[calls[s]] < DoneCap
            /\ done' = [done EXCEPT ![calls[s]] = @ + 1]
            /\ result' = [result EXCEPT ![calls[s]] = IF Head(inbox).to = calls[s] THEN "reply" ELSE "foreign"]
            /\ serialUsed' = serialUsed \ {s}
            /\ calls' = Forgotten(s)
       ELSE UNCHANGED <<completion, serialUsed, calls>>
    /\ UNCHANGED <<pc, serial, nextSerial, out, inWorker, pending, closeVars, sigVars,
                   eavesdropped, panicked, transport, atBus, unsent>>

(* go conn.handleCall(msg) *)
InCall ==
    /\ ~eavesdropped /\ Reads("answer")
    /\ pc' = [pc EXCEPT ![Head(inbox).to] = "serial"]
    /\ UNCHANGED <<serial, nextSerial, serialUsed, calls, out, completion, inWorker, pending,
                   closeVars, sigVars, eavesdropped, panicked, transport, atBus, unsent>>

InSignal ==
    /\ ~eavesdropped /\ Reads("signal")
    /\ inWorker' = "signal"
    /\ UNCHANGED <<senders, calls, out, completion, pending, closeVars, sigVars,
                   eavesdropped, panicked, transport, atBus, unsent>>
LockSignals ==
    /\ inWorker = "signal" /\ inWorker' = "deliver"
    /\ UNCHANGED <<senders, calls, out, completion, pending, closeVars, sigVars,
                   eavesdropped, panicked, busVars>>

(* ch <- signal, for every registered channel. *)
Deliver ==
    /\ inWorker = "deliver"
    /\ (registered /\ ~sigClosed) => sig < SigCap
    /\ inWorker' = "reading"
    /\ panicked' = (registered /\ sigClosed)
    /\ sig' = IF registered /\ ~sigClosed THEN sig + 1 ELSE sig
    /\ UNCHANGED <<senders, calls, out, completion, pending, closeVars, registered, sigClosed,
                   taken, eavesdropped, busVars>>

(* A read error: the bus has ended, or Close has closed the transport. *)
InError ==
    /\ inWorker = "reading" /\ transport = "closed"
    /\ inWorker' = "close"
    /\ UNCHANGED <<senders, calls, out, completion, pending, closeVars, sigVars,
                   eavesdropped, panicked, busVars>>

EndsNone == {}                  \* mutant: nobody is told
EndsAll == Range(calls)

InEnding ==
    /\ inWorker = "close" /\ (closer = "user" \/ closing = "finished")
    /\ inWorker' = "ending" /\ pending' = EndsAll
    /\ UNCHANGED <<senders, calls, out, completion, closeVars, sigVars, eavesdropped, panicked, busVars>>
InEnds(c) ==
    /\ inWorker = "ending" /\ c \in pending /\ done[c] < DoneCap
    /\ result' = [result EXCEPT ![c] = "error"] /\ done' = [done EXCEPT ![c] = @ + 1]
    /\ pending' = pending \ {c}
    /\ UNCHANGED <<senders, calls, out, inWorker, closeVars, sigVars, eavesdropped, panicked, busVars>>
InEnded ==
    /\ inWorker = "ending" /\ pending = {} /\ inWorker' = "ended"
    /\ UNCHANGED <<senders, calls, out, completion, pending, closeVars, sigVars, eavesdropped, panicked, busVars>>

----
(* Close. outLck is free when nobody waits for room in conn.out; the second of two
   callers finds closed set and returns. *)
OutLckFree == \A p \in Proc : pc[p] = "send" => closed \/ Len(out) < OutCap
CloseOut(who) ==
    /\ ~closed /\ OutLckFree
    /\ CASE who = "user" -> UserCloses [] who = "inWorker" -> inWorker = "close"
    /\ closed' = TRUE /\ closing' = "signals" /\ closer' = who
    /\ UNCHANGED <<senders, calls, out, completion, inWorker, pending, sigVars, eavesdropped, panicked, busVars>>
CloseSignals ==
    /\ closing = "signals" /\ inWorker # "deliver"
    /\ closing' = "transport" /\ sigClosed' = registered
    /\ UNCHANGED <<senders, calls, out, completion, inWorker, pending, closer, closed, registered, sig,
                   taken, eavesdropped, panicked, busVars>>
CloseTransport ==
    /\ closing = "transport" /\ closing' = "finished" /\ transport' = "closed"
    /\ UNCHANGED <<senders, calls, out, completion, inWorker, pending, closer, closed, sigVars,
                   eavesdropped, panicked, inbox, atBus, unsent>>

Signal ==
    /\ ~registered /\ inWorker # "deliver" /\ registered' = TRUE
    /\ UNCHANGED <<senders, calls, out, completion, inWorker, pending, closeVars, sig, sigClosed, taken,
                   eavesdropped, panicked, busVars>>
Eavesdrop ==
    /\ MayEavesdrop /\ eavesdropped' = ~eavesdropped
    /\ UNCHANGED <<senders, calls, out, completion, inWorker, pending, closeVars, sigVars, panicked, busVars>>

(* signalHandler: takes a signal when the call for the one before has returned,
   and makes its call, if it makes one for this signal. *)
signalHandler ==
    /\ sig > 0 /\ sig' = sig - 1 /\ taken' = taken + 1
    /\ taken \in DOMAIN Handlers => pc[Handlers[taken]] = "returned"
    /\ pc' = IF taken + 1 \in DOMAIN Handlers THEN [pc EXCEPT ![Handlers[taken + 1]] = "serial"] ELSE pc
    /\ UNCHANGED <<serial, nextSerial, serialUsed, calls, out, completion, inWorker, pending,
                   closeVars, registered, sigClosed, eavesdropped, panicked, busVars>>

----
(* The bus answers the calls it has got in any order, and may end. *)
BusSends(m) ==
    /\ transport = "open" /\ inbox' = Append(inbox, m)
    /\ UNCHANGED <<senders, calls, out, completion, inWorker, pending, closeVars, sigVars,
                   eavesdropped, panicked, transport>>
BusMessages(p) ==
    /\ p \in atBus /\ atBus' = atBus \ {p} /\ UNCHANGED unsent
    /\ BusSends([kind |-> IF p \in Calls THEN "reply" ELSE "answer", serial |-> serial[p], to |-> p])
BusSignals ==
    /\ unsent > 0 /\ unsent' = unsent - 1 /\ UNCHANGED atBus
    /\ BusSends([kind |-> "signal", serial |-> 0, to |-> "all"])
BusDies ==
    /\ MayDie /\ transport = "open" /\ transport' = "closed"
    /\ UNCHANGED <<senders, calls, out, completion, inWorker, pending, closeVars, sigVars,
                   eavesdropped, panicked, inbox, atBus, unsent>>

Worker ==
    \/ outWorker
    \/ InEavesdropped \/ InReply \/ InCall \/ InSignal \/ LockSignals \/ Deliver
    \/ InError \/ InEnding \/ InEnded \/ \E c \in Calls : InEnds(c)
    \/ CloseOut("inWorker") \/ CloseSignals \/ CloseTransport
    \/ signalHandler
    \/ \E p \in Proc : getSerial(p) \/ Register(p) \/ Enqueue(p) \/ RefusedClosed(p) \/ Return(p)
External ==
    \/ \E p \in Proc : Start(p) \/ BusMessages(p)
    \/ BusSignals \/ BusDies
    \/ CloseOut("user") \/ Signal \/ Eavesdrop

(* A panic ends the process. *)
Next == ~panicked /\ (Worker \/ External)
Spec == Init /\ [][Next]_vars

----
(* A caller never gets the reply of another call. *)
OwnReply == \A c \in Calls : result[c] # "foreign"

----
(* The inductive invariant behind it: a serial belongs to one message from getSerial until it
   is given back, and as long as a reply to a call can come the entry of its serial is its own. *)
Serials == 0 .. SerialMod - 1
Messages == [kind : {"reply"}, serial : Serials, to : Calls]
              \cup [kind : {"answer"}, serial : Serials, to : {p \in Proc : Kind[p] = "answer"}]
              \cup [kind : {"signal"}, serial : {0}, to : {"all"}]
ConnTypeOK ==
    /\ pc \in [Proc -> {"idle", "serial", "register", "send", "wait", "returned"}]
    /\ serial \in [Proc -> Serials] /\ nextSerial \in Serials /\ serialUsed \subseteq Serials
    /\ DOMAIN calls \subseteq Serials /\ calls \in [DOMAIN calls -> Calls]
    /\ out \in Seq(Proc) /\ inbox \in Seq(Messages)
    /\ atBus \subseteq {p \in Proc : Kind[p] \in {"call", "answer"}}
    /\ result \in [Calls -> {"none", "reply", "foreign", "error"}] /\ taken \in Nat

(* Where a message is: with its sender, in conn.out, at the bus, or answered. A call of
   somebody else comes from the bus before its answer is sent. *)
Answered(p) == \E i \in DOMAIN inbox : inbox[i].kind # "signal" /\ inbox[i].to = p
QueuedOnce == \A i, j \in DOMAIN out : out[i] = out[j] => i = j
AnsweredOnce ==
    /\ \A i, j \in DOMAIN inbox :
          /\ inbox[i].kind # "signal" /\ inbox[j].kind # "signal"
          /\ inbox[i].to = inbox[j].to
          => i = j
    /\ \A i \in DOMAIN inbox : inbox[i].kind = "reply" => inbox[i].serial = serial[inbox[i].to]
InPlace ==
    /\ \A p \in Proc : pc[p] = "register" => p \in Calls
    /\ \A p \in Proc : p \in Range(out) => pc[p] \in {"wait", "returned"}
    /\ \A p \in Calls : p \in atBus \/ Answered(p) => pc[p] \in {"wait", "returned"} /\ p \notin Range(out)
    /\ \A p \in Proc \ Calls : p \in atBus \/ Answered(p) => pc[p] = "idle"
    /\ \A p \in Proc : ~(p \in atBus /\ Answered(p))
    /\ \A k \in DOMAIN Handlers : taken < k => pc[Handlers[k]] = "idle"

Awaits(p) == p \in Range(out) \/ p \in atBus \/ Answered(p)
Holds(p) == pc[p] \in {"register", "send"} \/ p \in Range(out) \/ (p \in Calls /\ Awaits(p))
SerialsApart ==
    /\ \A p \in Proc : Holds(p) => serial[p] \in serialUsed
    /\ \A p, q \in Proc : Holds(p) /\ Holds(q) /\ serial[p] = serial[q] => p = q
Entered == \A p \in Calls : pc[p] = "send" \/ Awaits(p) =>
              serial[p] \in DOMAIN calls /\ calls[serial[p]] = p
ConnInv == ConnTypeOK /\ QueuedOnce /\ AnsweredOnce /\ InPlace /\ SerialsApart /\ Entered /\ OwnReply

====
