---- MODULE Rpc2 ----
(* rpc2.Client over the JSON codec: one connection, any number of goroutines that
   call, one goroutine that reads (readLoop), one goroutine per request of the
   peer. Mutexes: `sending` is held over a write, so it is state here; `mutex`
   guards single steps. The peer and TCP are external: messages keep their order
   on the wire, the peer answers requests in any order. *)
EXTENDS Integers, Sequences, Functions

CONSTANTS
    Caller,     \* calls (Call objects), each made once
    Incoming,   \* requests and notifications of the peer, each sent once:
                \* [name, method, call (has an id)]
    Methods,    \* the keys of c.handlers
    Nil

VARIABLES
    pc,         \* per call: "idle", then where its goroutine is in Go and send ("lock",
                \* "register", "write", "unregister", "wait"), "done"
    sending,    \* who holds c.sending: a call, "reader" or Nil
    seq,        \* c.seq
    pending,    \* c.pending: sequence number -> call
    closing, shutdown, disconnected,    \* c.closing, c.shutdown, c.disconnect is closed
    result,     \* per call: Nil, "error", or the call whose reply it was given
    completions,\* per call: how often call.done() ran
    reader,     \* readLoop: "read" | "terminate" | "ended"
    codecSeq, codecPending,             \* jsonCodec.seq and .pending: number -> request
    running,    \* goroutines started by readRequest: [req, seq]
    handled,    \* requests whose handler has been called
    conn,       \* "open" | "closed" (by Close) | "broken" (by the peer or the network)
    toServer, fromServer,               \* the two directions of the connection
    serving,    \* the peer: requests it has read and not answered, [id, caller]
    answers,    \* the peer: responses it has got to its own requests
    unsent      \* the peer: what it has not sent yet

clientVars == <<pc, sending, seq, pending, closing, shutdown, disconnected, result, completions>>
codecVars == <<reader, codecSeq, codecPending, running, handled>>
wireVars == <<conn, toServer, fromServer, serving, answers, unsent>>
vars == <<clientVars, codecVars, wireVars>>

(* Sequence number 0 means notification. *)
FirstSeq == 1

NewClientWithCodec ==
    /\ pc = [c \in Caller |-> "idle"] /\ sending = Nil /\ seq = FirstSeq /\ pending = <<>>
    /\ closing = FALSE /\ shutdown = FALSE /\ disconnected = FALSE
    /\ result = [c \in Caller |-> Nil] /\ completions = [c \in Caller |-> 0]
NewJSONCodec ==
    /\ reader = "read" /\ codecSeq = 0 /\ codecPending = <<>> /\ running = {} /\ handled = {}
Dialled ==
    /\ conn = "open" /\ toServer = <<>> /\ fromServer = <<>> /\ serving = {}
    /\ answers = <<>> /\ unsent = Incoming
Init == NewClientWithCodec /\ NewJSONCodec /\ Dialled

----
(* Calls *)

Without(f, x) == [z \in DOMAIN f \ {x} |-> f[z]]
With(f, x, y) == [z \in DOMAIN f \cup {x} |-> IF z = x THEN y ELSE f[z]]

(* The call's Error and Reply are set, then call.done(): the Done channel of Call has
   room for one completion; a further one would be discarded. *)
done(C, res) ==
    /\ result' = [c \in Caller |-> IF c \in C THEN res[c] ELSE result[c]]
    /\ completions' = [c \in Caller |-> completions[c] + IF c \in C THEN 1 ELSE 0]
Fails == [c \in Caller |-> "error"]

Go(c) ==
    /\ pc[c] = "idle"
    /\ pc' = [pc EXCEPT ![c] = "lock"]
    /\ UNCHANGED <<sending, seq, pending, closing, shutdown, disconnected, result, completions,
                   codecVars, wireVars>>

SendLock(c) ==
    /\ pc[c] = "lock" /\ sending = Nil
    /\ sending' = c
    /\ pc' = [pc EXCEPT ![c] = "register"]
    /\ UNCHANGED <<seq, pending, closing, shutdown, disconnected, result, completions, codecVars,
                   wireVars>>

Refuses == shutdown \/ closing

SendRegister(c) ==
    /\ pc[c] = "register"
    /\ \/ /\ Refuses
          /\ done({c}, Fails)
          /\ sending' = Nil
          /\ pc' = [pc EXCEPT ![c] = "wait"]
          /\ UNCHANGED <<seq, pending>>
       \/ /\ ~Refuses
          /\ seq' = seq + 1
          /\ pending' = With(pending, seq, c)
          /\ pc' = [pc EXCEPT ![c] = "write"]
          /\ UNCHANGED <<sending, result, completions>>
    /\ UNCHANGED <<closing, shutdown, disconnected, codecVars, wireVars>>

(* WriteRequest. On a connection that has failed it returns an error, though a
   write to a connection the peer has dropped may still succeed. *)
SendWrite(c) ==
    /\ pc[c] = "write"
    /\ \/ /\ conn # "closed"
          /\ toServer' = Append(toServer, [kind |-> "request", id |-> seq - 1, caller |-> c])
          /\ sending' = Nil
          /\ pc' = [pc EXCEPT ![c] = "wait"]
       \/ /\ conn # "open"
          /\ pc' = [pc EXCEPT ![c] = "unregister"]
          /\ UNCHANGED <<toServer, sending>>
    /\ UNCHANGED <<seq, pending, closing, shutdown, disconnected, result, completions, codecVars,
                   conn, fromServer, serving, answers, unsent>>

SendFailed(c) ==
    /\ pc[c] = "unregister"
    /\ LET s == seq - 1 IN
       IF s \in DOMAIN pending
         THEN done({pending[s]}, Fails) /\ pending' = Without(pending, s)
         ELSE UNCHANGED <<pending, result, completions>>
    /\ sending' = Nil
    /\ pc' = [pc EXCEPT ![c] = "wait"]
    /\ UNCHANGED <<seq, closing, shutdown, disconnected, codecVars, wireVars>>

(* Call returns once something is in the Done channel. *)
Return(c) ==
    /\ pc[c] = "wait" /\ completions[c] > 0
    /\ pc' = [pc EXCEPT ![c] = "done"]
    /\ UNCHANGED <<sending, seq, pending, closing, shutdown, disconnected, result, completions,
                   codecVars, wireVars>>

Close ==
    /\ ~Refuses
    /\ closing' = TRUE
    /\ UNCHANGED <<pc, sending, seq, pending, shutdown, disconnected, result, completions,
                   codecVars, wireVars>>

CloseCodec ==
    /\ closing /\ conn # "closed"
    /\ conn' = "closed"
    /\ UNCHANGED <<clientVars, codecVars, toServer, fromServer, serving, answers, unsent>>

----
(* The reader *)

(* ReadHeader fails: end of file, or the connection was closed. What was received
   before may or may not have been decoded. *)
ReadFails ==
    /\ reader = "read"
    /\ conn = "closed" \/ (conn = "broken" /\ fromServer = <<>>)
    /\ reader' = "terminate"
    /\ UNCHANGED <<clientVars, codecSeq, codecPending, running, handled, wireVars>>

Keep(id) == pending     \* mutant: the call stays in the map
Forget(id) == Without(pending, id)

(* A response. An error that is not a string is "invalid" and ends the loop. *)
readResponse ==
    /\ reader = "read" /\ fromServer # <<>>
    /\ LET m == Head(fromServer) IN
       /\ m.kind = "response"
       /\ \/ /\ m.error = "object"
             /\ reader' = "terminate"
             /\ UNCHANGED <<pending, result, completions>>
          \/ /\ m.error # "object"
             /\ IF m.id \in DOMAIN pending
                  THEN /\ done({pending[m.id]},
                               [c \in Caller |-> IF m.error = "" THEN m.caller ELSE "error"])
                       /\ pending' = Forget(m.id)
                  ELSE UNCHANGED <<pending, result, completions>>
             /\ UNCHANGED reader
    /\ fromServer' = Tail(fromServer)
    /\ UNCHANGED <<pc, sending, seq, closing, shutdown, disconnected, codecSeq, codecPending,
                   running, handled, conn, toServer, serving, answers, unsent>>

CodecSeqStuck == 1      \* mutant: the codec does not count
NextCodecSeq == codecSeq + 1

Answer(req) == Append(toServer, [kind |-> "answer", req |-> req])

(* A request or a notification (no id, sequence number 0). A method nobody handles
   is answered with an error; for a notification there is no id to answer to, and
   that error, like parameters that cannot be decoded (here: of any request that is
   handled), ends the loop. *)
readRequest ==
    /\ reader = "read" /\ fromServer # <<>>
    /\ LET m == Head(fromServer)
           s == IF m.req.call THEN NextCodecSeq ELSE 0
       IN
       /\ m.kind = "request"
       /\ codecSeq' = IF m.req.call THEN s ELSE codecSeq
       /\ \/ /\ m.req.method \notin Methods /\ m.req.call
             /\ \/ conn # "closed" /\ toServer' = Answer(m.req) /\ UNCHANGED reader
                \/ conn # "open" /\ reader' = "terminate" /\ UNCHANGED toServer
             /\ UNCHANGED <<codecPending, running>>
          \/ /\ m.req.method \in Methods \/ ~m.req.call
             /\ reader' = "terminate"
             /\ codecPending' = IF m.req.call THEN With(codecPending, s, m.req) ELSE codecPending
             /\ UNCHANGED <<running, toServer>>
          \/ /\ m.req.method \in Methods
             /\ running' = running \cup {[req |-> m.req, seq |-> s]}
             /\ codecPending' = IF m.req.call THEN With(codecPending, s, m.req) ELSE codecPending
             /\ UNCHANGED <<reader, toServer>>
    /\ fromServer' = Tail(fromServer)
    /\ UNCHANGED <<clientVars, handled, conn, serving, answers, unsent>>

IsNotification(g) == g.seq = 0

(* The goroutine of one request: calls the handler, then answers, if there is an id,
   to the id that the codec kept under its sequence number. *)
handlerRun(g) ==
    /\ g \in running /\ g.req \notin handled
    /\ handled' = handled \cup {g.req}
    /\ running' = IF IsNotification(g) THEN running \ {g} ELSE running
    /\ UNCHANGED <<clientVars, reader, codecSeq, codecPending, wireVars>>

WriteResponse(g) ==
    /\ g \in running /\ g.req \in handled
    /\ running' = running \ {g}
    /\ IF g.seq \in DOMAIN codecPending
         THEN /\ codecPending' = Without(codecPending, g.seq)
              /\ \/ conn # "closed" /\ toServer' = Answer(codecPending[g.seq])
                 \/ conn # "open" /\ UNCHANGED toServer
         ELSE UNCHANGED <<codecPending, toServer>>
    /\ UNCHANGED <<clientVars, reader, codecSeq, handled, conn, fromServer, serving, answers, unsent>>

NoCalls == {}           \* mutant: pending calls are not told
PendingCalls == {pending[s] : s \in DOMAIN pending}

(* The end of readLoop, in two steps: it waits for c.sending, then completes every
   pending call (the map is left as it is). *)
TerminateLock ==
    /\ reader = "terminate" /\ sending = Nil
    /\ sending' = "reader"
    /\ UNCHANGED <<pc, seq, pending, closing, shutdown, disconnected, result, completions,
                   codecVars, wireVars>>

Terminate ==
    /\ reader = "terminate" /\ sending = "reader"
    /\ shutdown' = TRUE
    /\ done(PendingCalls, Fails)
    /\ sending' = Nil
    /\ reader' = "ended"
    /\ UNCHANGED <<pc, seq, pending, closing, disconnected, codecSeq, codecPending, running,
                   handled, wireVars>>

CloseDisconnect ==
    /\ reader = "ended" /\ ~disconnected
    /\ disconnected' = TRUE
    /\ UNCHANGED <<pc, sending, seq, pending, closing, shutdown, result, completions, codecVars,
                   wireVars>>

----
(* The peer and the network (external) *)

PeerReads ==
    /\ conn = "open" /\ toServer # <<>>
    /\ LET m == Head(toServer) IN
       \/ /\ m.kind = "request"
          /\ serving' = serving \cup {m}
          /\ UNCHANGED answers
       \/ /\ m.kind = "answer"
          /\ answers' = Append(answers, m.req)
          /\ UNCHANGED serving
    /\ toServer' = Tail(toServer)
    /\ UNCHANGED <<clientVars, codecVars, conn, fromServer, unsent>>

PeerAnswers(m, e) ==
    /\ conn = "open" /\ m \in serving
    /\ serving' = serving \ {m}
    /\ fromServer' = Append(fromServer,
                       [kind |-> "response", id |-> m.id, caller |-> m.caller, error |-> e])
    /\ UNCHANGED <<clientVars, codecVars, conn, toServer, answers, unsent>>

PeerSends(r) ==
    /\ conn = "open" /\ r \in unsent
    /\ unsent' = unsent \ {r}
    /\ fromServer' = Append(fromServer, [kind |-> "request", req |-> r])
    /\ UNCHANGED <<clientVars, codecVars, conn, toServer, serving, answers>>

Break ==
    /\ conn = "open"
    /\ conn' = "broken"
    /\ UNCHANGED <<clientVars, codecVars, toServer, fromServer, serving, answers, unsent>>

----
Send(c) == SendLock(c) \/ SendRegister(c) \/ SendWrite(c) \/ SendFailed(c) \/ Return(c)
ReadLoop == ReadFails \/ readResponse \/ readRequest \/ TerminateLock \/ Terminate \/ CloseDisconnect
Handlers == \E g \in running : handlerRun(g) \/ WriteResponse(g)
Answers(m) == \E e \in {"", "string", "object"} : PeerAnswers(m, e)

Next ==
    \/ \E c \in Caller : Go(c) \/ Send(c)
    \/ Close \/ CloseCodec
    \/ ReadLoop
    \/ Handlers
    \/ PeerReads
    \/ \E m \in serving : Answers(m)
    \/ \E r \in unsent : PeerSends(r)
    \/ Break

Spec == Init /\ [][Next]_vars

----
(* Properties *)

(* The peer gets at most one response to each of its requests, under the id it gave,
   and none to a notification, though handlers finish in any order. *)
AnswersMatch ==
    /\ \A i, j \in DOMAIN answers : answers[i] = answers[j] => i = j
    /\ \A i \in DOMAIN answers :
          answers[i].call /\ (answers[i].method \in Methods => answers[i] \in handled)

(* The client implements RpcService. *)
OutcomeOf(c) ==
    CASE pc[c] = "idle" -> "none"
      [] pc[c] # "idle" /\ completions[c] = 0 -> "active"
      [] completions[c] > 0 /\ result[c] = c -> "reply"
      [] OTHER -> result[c]
Service == INSTANCE RpcService WITH
    outcome <- [c \in Caller |-> OutcomeOf(c)],
    failed <- conn # "open"
ServiceStep == Service!Next \/ UNCHANGED <<Service!vars>>

----
(* The inductive invariant behind both *)

Request == [kind : {"request"}, id : Nat, caller : Caller]
Response == [kind : {"response"}, id : Nat, caller : Caller, error : {"", "string", "object"}]
PeerRequest == [kind : {"request"}, req : Incoming]
PeerAnswer == [kind : {"answer"}, req : Incoming]
ClientTypeOK ==
    /\ pc \in [Caller -> {"idle", "lock", "register", "write", "unregister", "wait", "done"}]
    /\ sending \in Caller \cup {"reader", Nil}
    /\ seq \in Nat \ {0}
    /\ pending \in [DOMAIN pending -> Caller] /\ DOMAIN pending \subseteq 1..(seq - 1)
    /\ result \in [Caller -> Caller \cup {Nil, "error"}] /\ completions \in [Caller -> Nat]
    /\ reader \in {"read", "terminate", "ended"}
WireTypeOK ==
    /\ conn \in {"open", "closed", "broken"}
    /\ toServer \in Seq(Request \cup PeerAnswer) /\ serving \subseteq Request
    /\ fromServer \in Seq(Response \cup PeerRequest)
    /\ answers \in Seq(Incoming) /\ unsent \subseteq Incoming /\ handled \subseteq Incoming
    /\ running \subseteq [req : Incoming, seq : Nat]
    /\ codecSeq \in Nat
    /\ codecPending \in [DOMAIN codecPending -> Incoming] /\ DOMAIN codecPending \subseteq 1..codecSeq

(* c.sending: its holder is the call that registers or writes, or the end of readLoop, after
   which no call is between the two. *)
OneSends ==
    /\ \A c \in Caller : pc[c] \in {"register", "write", "unregister"} <=> sending = c
    /\ sending = "reader" => reader = "terminate"
    /\ shutdown => reader = "ended" /\ \A c \in Caller : pc[c] \notin {"write", "unregister"}

(* c.pending: a call that waits has one number, and has not been completed unless readLoop is
   over and completed them all; the number of the call that writes is the last. *)
Unregistered == {"idle", "lock", "register"}
PendingWait ==
    /\ \A s, t \in DOMAIN pending : pending[s] = pending[t] => s = t
    /\ \A s \in DOMAIN pending :
          pc[pending[s]] \notin Unregistered /\ (~shutdown => completions[pending[s]] = 0)
    /\ \A c \in Caller :
          /\ pc[c] \in {"write", "unregister"} /\ seq - 1 \in DOMAIN pending => pending[seq - 1] = c
          /\ pc[c] \in Unregistered => completions[c] = 0
          /\ completions[c] > 0 => result[c] \in {c, "error"}

(* A number on the wire is one that was given, and belongs to the call it was given to. *)
Owned(m) == m.id < seq /\ (m.id \in DOMAIN pending => pending[m.id] = m.caller)
RepliesOwned ==
    /\ \A m \in Range(toServer) : m.kind = "request" => Owned(m)
    /\ \A m \in serving : Owned(m)
    /\ \A m \in Range(fromServer) : m.kind = "response" => Owned(m)

(* A request of the peer is in one place: not sent, on its way, in the hands of one goroutine,
   answered on the way back, or answered. *)
OnWay(r) == \E m \in Range(fromServer) : m.kind = "request" /\ m.req = r
InHand(r) == \E g \in running : g.req = r
OnReturn(r) == \E m \in Range(toServer) : m.kind = "answer" /\ m.req = r
Answered(r) == r \in Range(answers)
Once(q, k) == \A i, j \in DOMAIN q :
    q[i].kind = k /\ q[j].kind = k /\ q[i].req = q[j].req => i = j
OnePlace ==
    /\ \A r \in Incoming :
          /\ r \in unsent => ~OnWay(r) /\ ~InHand(r) /\ ~OnReturn(r) /\ ~Answered(r)
          /\ OnWay(r) => ~InHand(r) /\ ~OnReturn(r) /\ ~Answered(r)
          /\ InHand(r) => ~OnReturn(r) /\ ~Answered(r)
          /\ OnReturn(r) => ~Answered(r)
    /\ Once(fromServer, "request") /\ Once(toServer, "answer")
    /\ \A g, h \in running : g.req = h.req => g = h
    /\ \A i, j \in DOMAIN answers : answers[i] = answers[j] => i = j

(* The codec keeps the id of a request under a number of its own until it is answered. *)
Answerable(r) == r.call /\ (r.method \in Methods => r \in handled)
IdsKept ==
    /\ \A g \in running :
          /\ g.seq = 0 <=> ~g.req.call
          /\ g.seq = 0 => g.req \notin handled
          /\ g.seq <= codecSeq
          /\ g.seq \in DOMAIN codecPending => codecPending[g.seq] = g.req
    /\ \A r \in Incoming : OnReturn(r) \/ Answered(r) => Answerable(r)
    /\ \A r \in handled : r \notin unsent /\ ~OnWay(r)

CallsInv == ClientTypeOK /\ WireTypeOK /\ OneSends /\ PendingWait /\ RepliesOwned
PeerInv == OnePlace /\ IdsKept
RpcInv == CallsInv /\ PeerInv
====
