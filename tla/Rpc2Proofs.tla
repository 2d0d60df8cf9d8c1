------------------------------ MODULE Rpc2Proofs ------------------------------
(* rpc2.Client keeps what RpcService promises, and answers the peer's requests once and under
   their own ids, for any number of calls and any requests of the peer. *)
EXTENDS Rpc2, SequenceTheorems, TLAPS

(* Names of calls are neither those of the reader and of errors nor nil. *)
NamesApart == Caller \cap {"reader", "error", Nil} = {} /\ Nil \notin {"reader", "error"}

----
(* A queue after a message is taken from it or put into it. *)

LEMMA Taken ==
    ASSUME NEW S, NEW q \in Seq(S), q # <<>>
    PROVE  /\ Head(q) \in S /\ Head(q) \in Range(q)
           /\ Tail(q) \in Seq(S) /\ Range(Tail(q)) \subseteq Range(q)
           /\ \A m \in Range(q) : m = Head(q) \/ m \in Range(Tail(q))
<1>1. /\ Head(q) \in S /\ Tail(q) \in Seq(S) /\ Len(Tail(q)) = Len(q) - 1
      /\ \A i \in 1..Len(Tail(q)) : Tail(q)[i] = q[i + 1]
    BY HeadTailProperties
<1>2. /\ Len(q) \in Nat \ {0} /\ DOMAIN q = 1..Len(q) /\ DOMAIN Tail(q) = 1..(Len(q) - 1)
      /\ Head(q) = q[1]
    BY <1>1, EmptySeq, LenProperties
<1>3. Range(Tail(q)) \subseteq Range(q)
    BY <1>1, <1>2 DEF Range
<1>4. ASSUME NEW i \in 1..Len(q), i # 1 PROVE q[i] \in Range(Tail(q))
    <2>1. i - 1 \in DOMAIN Tail(q) /\ Tail(q)[i - 1] = q[i]
        BY <1>1, <1>2, <1>4
    <2> QED
        BY <2>1, Zenon DEF Range
<1> QED
    BY <1>1, <1>2, <1>3, <1>4 DEF Range

LEMMA Put ==
    ASSUME NEW S, NEW q \in Seq(S), NEW x \in S
    PROVE  Append(q, x) \in Seq(S) /\ Range(Append(q, x)) = Range(q) \cup {x}
<1>1. /\ Append(q, x) \in Seq(S) /\ Len(q) \in Nat
      /\ DOMAIN q = 1..Len(q) /\ DOMAIN Append(q, x) = 1..(Len(q) + 1)
      /\ \A i \in 1..Len(q) : Append(q, x)[i] = q[i]
      /\ Append(q, x)[Len(q) + 1] = x
    OBVIOUS
<1> QED
    BY <1>1 DEF Range

LEMMA PutAny ==
    ASSUME NEW S, NEW q \in Seq(S)
    PROVE  \A x : Range(Append(q, x)) = Range(q) \cup {x}
<1> TAKE x
<1>1. q \in Seq(S \cup {x})
    BY SeqMonotonic
<1> QED
    BY <1>1, Put

(* The uniqueness of requests in a queue. *)
LEMMA TakenOnce ==
    ASSUME NEW S, NEW q \in Seq(S), q # <<>>, NEW k, Once(q, k)
    PROVE  /\ Once(Tail(q), k)
           /\ Head(q).kind = k => \A m \in Range(Tail(q)) : m.kind = k => m.req # Head(q).req
<1>1. /\ Len(q) \in Nat \ {0} /\ DOMAIN q = 1..Len(q) /\ DOMAIN Tail(q) = 1..(Len(q) - 1)
      /\ Head(q) = q[1]
      /\ \A i \in 1..(Len(q) - 1) : Tail(q)[i] = q[i + 1]
    BY HeadTailProperties, EmptySeq, LenProperties
<1>2. \A i \in 1..(Len(q) - 1) : i + 1 \in 1..Len(q) /\ i + 1 # 1
    BY <1>1
<1> QED
    BY <1>1, <1>2 DEF Once, Range

LEMMA PutOnce ==
    ASSUME NEW S, NEW q \in Seq(S), NEW x \in S, NEW k, Once(q, k),
           x.kind = k => \A m \in Range(q) : m.kind = k => m.req # x.req
    PROVE  Once(Append(q, x), k)
<1>1. /\ Len(q) \in Nat
      /\ DOMAIN q = 1..Len(q) /\ DOMAIN Append(q, x) = 1..(Len(q) + 1)
      /\ \A i \in 1..Len(q) : Append(q, x)[i] = q[i]
      /\ Append(q, x)[Len(q) + 1] = x
    OBVIOUS
<1>2. \A i \in 1..(Len(q) + 1) : i \in 1..Len(q) \/ i = Len(q) + 1
    BY <1>1
<1> QED
    BY <1>1, <1>2 DEF Once, Range

----
(* A client that has just connected. *)
LEMMA RpcInit == ASSUME NamesApart PROVE Init => RpcInv
<1> SUFFICES ASSUME Init PROVE RpcInv
    OBVIOUS
<1> USE DEF Init, NewClientWithCodec, NewJSONCodec, Dialled
<1>1. Range(<<>>) = {} /\ DOMAIN <<>> = {} /\ \A T : <<>> \in [{} -> T] /\ <<>> \in Seq(T)
    BY DEF Range
<1>2. ClientTypeOK
    BY <1>1 DEF ClientTypeOK, FirstSeq
<1>3. WireTypeOK
    BY <1>1 DEF WireTypeOK
<1>4. OneSends /\ PendingWait
    BY <1>1 DEF OneSends, PendingWait, NamesApart, Unregistered
<1>5. RepliesOwned
    BY <1>1 DEF RepliesOwned
<1>6. OnePlace
    BY <1>1 DEF OnePlace, OnWay, InHand, OnReturn, Answered, Once
<1>7. IdsKept
    BY <1>1, Zenon DEF IdsKept, OnReturn, Answered, OnWay
<1> QED
    BY <1>2, <1>3, <1>4, <1>5, <1>6, <1>7 DEF RpcInv, CallsInv, PeerInv

----
(* The calls *)

CallVars == <<pc, sending, seq, pending, result, completions, shutdown>>

(* Every other step leaves the calls alone; readLoop may find its connection gone. *)
Aside == UNCHANGED CallVars /\ (reader' = reader \/ (reader = "read" /\ reader' = "terminate"))

LEMMA CallSteps ==
    ASSUME [Next]_vars
    PROVE  \/ \E c \in Caller : Go(c) \/ Send(c)
           \/ readResponse \/ TerminateLock \/ Terminate
           \/ Aside
<1> USE DEF Aside, CallVars, clientVars, codecVars, wireVars
<1>1. CASE Close \/ CloseCodec \/ Break \/ PeerReads \/ UNCHANGED vars
    BY <1>1 DEF Close, CloseCodec, Break, PeerReads, vars
<1>2. CASE ReadFails \/ CloseDisconnect
    BY <1>2, Zenon DEF ReadFails, CloseDisconnect
<1>3. CASE readRequest
    BY <1>3 DEF readRequest
<1>4. CASE Handlers
    BY <1>4, Zenon DEF Handlers, handlerRun, WriteResponse
<1>5. CASE (\E m \in serving : Answers(m)) \/ (\E r \in unsent : PeerSends(r))
    BY <1>5, Zenon DEF Answers, PeerAnswers, PeerSends
<1> QED
    BY <1>1, <1>2, <1>3, <1>4, <1>5, Zenon DEF Next, ReadLoop

(* call.done() for calls that have not been completed. *)
LEMMA Completed ==
    ASSUME ClientTypeOK, NEW C \in SUBSET Caller, NEW res \in [Caller -> Caller \cup {"error"}], done(C, res)
    PROVE  /\ result' \in [Caller -> Caller \cup {Nil, "error"}] /\ completions' \in [Caller -> Nat]
           /\ \A c \in C : result'[c] = res[c] /\ completions'[c] = completions[c] + 1
           /\ \A c \in Caller \ C : result'[c] = result[c] /\ completions'[c] = completions[c]
    BY DEF ClientTypeOK, done

Serves == ClientTypeOK /\ OneSends /\ PendingWait

LEMMA SendKeeps ==
    ASSUME NamesApart, Serves, NEW c \in Caller, Go(c) \/ SendLock(c) \/ SendWrite(c) \/ Return(c)
    PROVE  Serves'
<1>1. /\ pc' \in [Caller -> {"idle", "lock", "register", "write", "unregister", "wait", "done"}]
      /\ \A d \in Caller \ {c} : pc'[d] = pc[d]
      /\ UNCHANGED <<seq, pending, shutdown, result, completions, reader>>
      /\ sending' \in Caller \cup {"reader", Nil}
    BY DEF Serves, ClientTypeOK, Go, SendLock, SendWrite, Return, codecVars, NamesApart
<1>2. ClientTypeOK'
    BY <1>1 DEF Serves, ClientTypeOK
<1>3. OneSends'
    BY <1>1 DEF Serves, ClientTypeOK, OneSends, Go, SendLock, SendWrite, Return, NamesApart
<1>4. PendingWait'
    BY <1>1 DEF Serves, ClientTypeOK, PendingWait, Unregistered, Go, SendLock, SendWrite, Return
<1> QED
    BY <1>2, <1>3, <1>4, Zenon DEF Serves

LEMMA RegisterKeeps ==
    ASSUME NamesApart, Serves, NEW c \in Caller, SendRegister(c)
    PROVE  Serves'
<1>1. /\ pc[c] = "register" /\ sending = c
      /\ UNCHANGED <<shutdown, reader>>
    BY DEF SendRegister, Serves, OneSends, codecVars
<1>2. CASE Refuses
    <2>1. /\ done({c}, Fails) /\ sending' = Nil /\ pc' = [pc EXCEPT ![c] = "wait"]
          /\ UNCHANGED <<seq, pending>>
        BY <1>2 DEF SendRegister
    <2>2. /\ result' \in [Caller -> Caller \cup {Nil, "error"}] /\ completions' \in [Caller -> Nat]
          /\ result'[c] = "error"
          /\ \A d \in Caller \ {c} : result'[d] = result[d] /\ completions'[d] = completions[d]
        <3>1. Fails \in [Caller -> Caller \cup {"error"}] /\ Fails[c] = "error" /\ {c} \in SUBSET Caller
            BY DEF Fails
        <3>2. ClientTypeOK
            BY DEF Serves
        <3> QED
            BY <2>1, <3>1, <3>2, Completed, Zenon
    <2>3. ClientTypeOK'
        BY <1>1, <2>1, <2>2, Zenon DEF Serves, ClientTypeOK
    <2>4. OneSends'
        BY <1>1, <2>1 DEF Serves, ClientTypeOK, OneSends, NamesApart
    <2>5. \A s \in DOMAIN pending : pending[s] # c
        BY <1>1 DEF Serves, PendingWait, Unregistered
    <2>6. PendingWait'
        BY <1>1, <2>1, <2>2, <2>5 DEF Serves, ClientTypeOK, PendingWait, Unregistered
    <2> QED
        BY <2>3, <2>4, <2>6, Zenon DEF Serves
<1>3. CASE ~Refuses
    <2>1. /\ seq' = seq + 1 /\ pending' = With(pending, seq, c) /\ pc' = [pc EXCEPT ![c] = "write"]
          /\ UNCHANGED <<sending, result, completions>> /\ ~shutdown
        BY <1>3 DEF SendRegister, Refuses
    <2>2. /\ pending' \in [DOMAIN pending \cup {seq} -> Caller] /\ pending'[seq] = c
          /\ \A s \in DOMAIN pending : pending'[s] = pending[s]
          /\ seq \notin DOMAIN pending
          /\ DOMAIN pending' = DOMAIN pending \cup {seq}
        <3>1. pending \in [DOMAIN pending -> Caller] /\ DOMAIN pending \subseteq 1..(seq - 1) /\ seq \in Nat
            BY DEF Serves, ClientTypeOK
        <3>2. seq \notin DOMAIN pending
            BY <3>1
        <3> QED
            BY <2>1, <3>1, <3>2 DEF With
    <2>3. ClientTypeOK'
        BY <1>1, <2>1, <2>2 DEF Serves, ClientTypeOK
    <2>4. OneSends'
        BY <1>1, <2>1, Zenon DEF Serves, ClientTypeOK, OneSends
    <2>5. \A s \in DOMAIN pending : pending[s] # c
        BY <1>1 DEF Serves, PendingWait, Unregistered
    <2>6. PendingWait'
        BY <1>1, <2>1, <2>2, <2>5 DEF Serves, ClientTypeOK, OneSends, PendingWait, Unregistered
    <2> QED
        BY <2>3, <2>4, <2>6 DEF Serves
<1> QED
    BY <1>2, <1>3

(* A waiting call is told its result and leaves the map. *)
LEMMA OneCompleted ==
    ASSUME Serves, ~shutdown, ~shutdown', NEW s \in DOMAIN pending,
           NEW res \in [Caller -> Caller \cup {"error"}], res[pending[s]] \in {pending[s], "error"},
           done({pending[s]}, res), pending' = Without(pending, s),
           \A d \in Caller : pc[d] \notin Unregistered => pc'[d] \notin Unregistered,
           \A d \in Caller : pc'[d] \in Unregistered => pc[d] \in Unregistered,
           \A d \in Caller : pc'[d] \in {"write", "unregister"} => pc[d] \in {"write", "unregister"},
           UNCHANGED seq
    PROVE  /\ pending' \in [DOMAIN pending' -> Caller] /\ DOMAIN pending' \subseteq 1..(seq - 1)
           /\ result' \in [Caller -> Caller \cup {Nil, "error"}] /\ completions' \in [Caller -> Nat]
           /\ PendingWait'
<1> DEFINE d == pending[s]
<1>0. d \in Caller
    BY DEF Serves, ClientTypeOK
<1>1. /\ result' \in [Caller -> Caller \cup {Nil, "error"}] /\ completions' \in [Caller -> Nat]
      /\ result'[d] = res[d]
      /\ \A e \in Caller \ {d} : result'[e] = result[e] /\ completions'[e] = completions[e]
    <2>1. ClientTypeOK /\ done({d}, res)
        BY DEF Serves
    <2> QED
        BY <1>0, <2>1 DEF ClientTypeOK, done
<1>2. /\ pending' \in [DOMAIN pending \ {s} -> Caller] /\ DOMAIN pending' = DOMAIN pending \ {s}
      /\ \A t \in DOMAIN pending \ {s} : pending'[t] = pending[t]
    <2>1. pending \in [DOMAIN pending -> Caller]
        BY DEF Serves, ClientTypeOK
    <2> QED
        BY <2>1 DEF Without
<1>3. \A t \in DOMAIN pending \ {s} : pending[t] # d
    BY DEF Serves, PendingWait
<1>4. pc[d] \notin Unregistered
    BY DEF Serves, PendingWait
<1>5. PendingWait'
    BY <1>0, <1>1, <1>2, <1>3, <1>4 DEF Serves, ClientTypeOK, PendingWait
<1> QED
    BY <1>1, <1>2, <1>5 DEF Serves, ClientTypeOK

LEMMA FailedKeeps ==
    ASSUME NamesApart, Serves, NEW c \in Caller, SendFailed(c)
    PROVE  Serves'
<1>1. /\ pc[c] = "unregister" /\ sending = c /\ ~shutdown
      /\ sending' = Nil /\ pc' = [pc EXCEPT ![c] = "wait"]
      /\ UNCHANGED <<seq, shutdown, reader>>
    BY DEF SendFailed, Serves, OneSends, codecVars
<1>2. OneSends'
    BY <1>1 DEF Serves, ClientTypeOK, OneSends, NamesApart
<1>3. CASE seq - 1 \in DOMAIN pending
    <2>1. done({pending[seq - 1]}, Fails) /\ pending' = Without(pending, seq - 1)
        BY <1>3 DEF SendFailed
    <2>2. /\ Fails \in [Caller -> Caller \cup {"error"}]
          /\ pending[seq - 1] \in Caller /\ Fails[pending[seq - 1]] = "error"
        BY <1>3 DEF Fails, Serves, ClientTypeOK
    <2>3. /\ \A d \in Caller : pc[d] \notin Unregistered <=> pc'[d] \notin Unregistered
          /\ \A d \in Caller : pc'[d] \in {"write", "unregister"} => pc[d] \in {"write", "unregister"}
        BY <1>1 DEF Serves, ClientTypeOK, Unregistered
    <2>4. /\ pending' \in [DOMAIN pending' -> Caller] /\ DOMAIN pending' \subseteq 1..(seq - 1)
          /\ result' \in [Caller -> Caller \cup {Nil, "error"}] /\ completions' \in [Caller -> Nat]
          /\ PendingWait'
        BY <1>1, <1>3, <2>1, <2>2, <2>3, OneCompleted, Zenon
    <2> QED
        BY <1>1, <1>2, <2>4, Zenon DEF Serves, ClientTypeOK
<1>4. CASE seq - 1 \notin DOMAIN pending
    <2>1. UNCHANGED <<pending, result, completions>>
        BY <1>4 DEF SendFailed
    <2> QED
        BY <1>1, <1>2, <2>1 DEF Serves, ClientTypeOK, PendingWait, Unregistered
<1> QED
    BY <1>3, <1>4

(* The response that readLoop takes from the connection. *)
LEMMA ResponseRead ==
    ASSUME CallsInv, readResponse
    PROVE  LET m == Head(fromServer)
               res == [c \in Caller |-> IF m.error = "" THEN m.caller ELSE "error"]
           IN  /\ ~shutdown /\ reader = "read" /\ UNCHANGED <<pc, sending, seq, shutdown>>
               /\ reader' \in {"read", "terminate"}
               /\ \/ UNCHANGED <<pending, result, completions>>
                  \/ /\ m.id \in DOMAIN pending /\ pending[m.id] \in Caller
                     /\ res \in [Caller -> Caller \cup {"error"}]
                     /\ res[pending[m.id]] \in {pending[m.id], "error"}
                     /\ done({pending[m.id]}, res) /\ pending' = Without(pending, m.id)
<1> DEFINE m == Head(fromServer)
           res == [c \in Caller |-> IF m.error = "" THEN m.caller ELSE "error"]
<1>1. /\ reader = "read" /\ fromServer # <<>> /\ m.kind = "response"
      /\ UNCHANGED <<pc, sending, seq, shutdown>>
      /\ reader' \in {"read", "terminate"}
    BY Zenon DEF readResponse
<1>2. m \in Range(fromServer) /\ m \in Response \cup PeerRequest
    BY <1>1, Taken DEF CallsInv, WireTypeOK
<1>3. m \in Response /\ Owned(m)
    BY <1>1, <1>2 DEF PeerRequest, CallsInv, RepliesOwned
<1>4. ~shutdown
    BY <1>1 DEF CallsInv, OneSends
<1>5. \/ UNCHANGED <<pending, result, completions>>
      \/ m.id \in DOMAIN pending /\ done({pending[m.id]}, res) /\ pending' = Without(pending, m.id)
    BY Zenon DEF readResponse, Forget
<1>6. m.caller \in Caller
    BY <1>3, Zenon DEF Response
<1>7. ASSUME m.id \in DOMAIN pending
      PROVE  /\ pending[m.id] \in Caller /\ res \in [Caller -> Caller \cup {"error"}]
             /\ res[pending[m.id]] \in {pending[m.id], "error"}
    BY <1>3, <1>6, <1>7, Zenon DEF Owned, CallsInv, ClientTypeOK
<1> QED
    BY <1>1, <1>4, <1>5, <1>7, Zenon

LEMMA ResponseKeeps == ASSUME CallsInv, readResponse PROVE Serves'
<1> DEFINE m == Head(fromServer)
           res == [c \in Caller |-> IF m.error = "" THEN m.caller ELSE "error"]
<1>1. /\ ~shutdown /\ reader = "read" /\ UNCHANGED <<pc, sending, seq, shutdown>>
      /\ reader' \in {"read", "terminate"}
      /\ \/ UNCHANGED <<pending, result, completions>>
         \/ /\ m.id \in DOMAIN pending /\ pending[m.id] \in Caller
            /\ res \in [Caller -> Caller \cup {"error"}]
            /\ res[pending[m.id]] \in {pending[m.id], "error"}
            /\ done({pending[m.id]}, res) /\ pending' = Without(pending, m.id)
    BY ResponseRead, Zenon
<1> HIDE DEF m, res
<1>2. Serves
    BY Zenon DEF CallsInv, Serves
<1>3. OneSends'
    BY <1>1, <1>2, Zenon DEF Serves, OneSends
<1>4. CASE UNCHANGED <<pending, result, completions>>
    BY <1>1, <1>2, <1>3, <1>4, Zenon DEF Serves, ClientTypeOK, PendingWait
<1>5. CASE /\ m.id \in DOMAIN pending /\ res \in [Caller -> Caller \cup {"error"}]
           /\ res[pending[m.id]] \in {pending[m.id], "error"}
           /\ done({pending[m.id]}, res) /\ pending' = Without(pending, m.id)
    <2>1. /\ pending' \in [DOMAIN pending' -> Caller] /\ DOMAIN pending' \subseteq 1..(seq - 1)
          /\ result' \in [Caller -> Caller \cup {Nil, "error"}] /\ completions' \in [Caller -> Nat]
          /\ PendingWait'
        BY <1>1, <1>2, <1>5, OneCompleted, Zenon
    <2> QED
        BY <1>1, <1>2, <1>3, <2>1, Zenon DEF Serves, ClientTypeOK
<1> QED
    BY <1>1, <1>4, <1>5, Zenon

(* The end of readLoop tells every call that waits. *)
LEMMA EndKeeps == ASSUME NamesApart, Serves, TerminateLock \/ Terminate PROVE Serves'
<1>1. CASE TerminateLock
    BY <1>1 DEF TerminateLock, Serves, ClientTypeOK, OneSends, PendingWait, codecVars, NamesApart
<1>2. CASE Terminate
    <2>1. /\ reader = "terminate" /\ sending = "reader" /\ shutdown' = TRUE /\ sending' = Nil
          /\ reader' = "ended" /\ done(PendingCalls, Fails) /\ UNCHANGED <<pc, seq, pending>>
        BY <1>2 DEF Terminate
    <2>2. ClientTypeOK /\ PendingCalls \in SUBSET Caller /\ Fails \in [Caller -> Caller \cup {"error"}]
        BY DEF PendingCalls, Fails, Serves, ClientTypeOK
    <2>3. /\ result' \in [Caller -> Caller \cup {Nil, "error"}] /\ completions' \in [Caller -> Nat]
          /\ \A c \in PendingCalls : result'[c] = Fails[c] /\ completions'[c] = completions[c] + 1
          /\ \A c \in Caller \ PendingCalls : result'[c] = result[c] /\ completions'[c] = completions[c]
        BY <2>1, <2>2, Completed
    <2>4. \A c \in PendingCalls : pc[c] \notin Unregistered /\ Fails[c] = "error"
        BY DEF PendingCalls, Serves, PendingWait, ClientTypeOK, Fails
    <2>5. ClientTypeOK'
        BY <2>1, <2>2, <2>3 DEF ClientTypeOK
    <2>6. OneSends'
        BY <2>1 DEF Serves, OneSends, NamesApart
    <2>7. PendingWait'
        BY <2>1, <2>3, <2>4 DEF Serves, PendingWait
    <2> QED
        BY <2>5, <2>6, <2>7 DEF Serves
<1> QED
    BY <1>1, <1>2

LEMMA ServesStep == ASSUME NamesApart, CallsInv, [Next]_vars PROVE Serves'
<1>1. Serves
    BY DEF CallsInv, Serves
<1>2. ASSUME NEW c \in Caller, Go(c) \/ Send(c) PROVE Serves'
    BY <1>1, <1>2, SendKeeps, RegisterKeeps, FailedKeeps DEF Send
<1>3. CASE readResponse
    BY <1>3, ResponseKeeps
<1>4. CASE TerminateLock \/ Terminate
    BY <1>1, <1>4, EndKeeps
<1>5. CASE Aside
    BY <1>1, <1>5, Zenon DEF Aside, CallVars, Serves, ClientTypeOK, OneSends, PendingWait
<1> QED
    BY <1>2, <1>3, <1>4, <1>5, CallSteps

----
(* The connection and the requests of the peer *)

PeerVars == <<toServer, fromServer, serving, answers, unsent, running, handled, codecSeq, codecPending>>
LineAside == UNCHANGED PeerVars /\ conn' \in {conn, "closed", "broken"}

LEMMA LineSteps ==
    ASSUME [Next]_vars
    PROVE  \/ \E c \in Caller : SendWrite(c)
           \/ readResponse \/ readRequest \/ PeerReads
           \/ \E g \in running : handlerRun(g) \/ WriteResponse(g)
           \/ \E m \in serving, e \in {"", "string", "object"} : PeerAnswers(m, e)
           \/ \E r \in unsent : PeerSends(r)
           \/ LineAside
<1> USE DEF LineAside, PeerVars, clientVars, codecVars, wireVars
<1>1. ASSUME NEW c \in Caller, Go(c) \/ SendLock(c) \/ SendRegister(c) \/ SendFailed(c) \/ Return(c)
      PROVE  LineAside
    BY <1>1, Zenon DEF Go, SendLock, SendRegister, SendFailed, Return
<1>2. CASE Close \/ CloseCodec \/ Break \/ UNCHANGED vars
    BY <1>2, Zenon DEF Close, CloseCodec, Break, vars
<1>3. CASE ReadFails \/ TerminateLock \/ Terminate \/ CloseDisconnect
    BY <1>3, Zenon DEF ReadFails, TerminateLock, Terminate, CloseDisconnect
<1> QED
    BY <1>1, <1>2, <1>3, Zenon DEF Next, Send, ReadLoop, Handlers, Answers

(* readLoop takes a request of the peer: it is on its way no more. *)
LEMMA RequestRead ==
    ASSUME RpcInv, readRequest
    PROVE  LET m == Head(fromServer) IN
           /\ m \in PeerRequest /\ m.req \in Incoming /\ OnWay(m.req)
           /\ fromServer' \in Seq(Response \cup PeerRequest)
           /\ Range(fromServer') \subseteq Range(fromServer)
           /\ Once(fromServer, "request")'
           /\ \A r \in Incoming : OnWay(r)' => OnWay(r) /\ r # m.req
<1> DEFINE m == Head(fromServer)
<1>1. fromServer # <<>> /\ m.kind = "request" /\ fromServer' = Tail(fromServer)
    BY DEF readRequest
<1>2. fromServer \in Seq(Response \cup PeerRequest) /\ Once(fromServer, "request")
    BY DEF RpcInv, CallsInv, WireTypeOK, PeerInv, OnePlace
<1>3. /\ m \in Response \cup PeerRequest /\ m \in Range(fromServer)
      /\ fromServer' \in Seq(Response \cup PeerRequest)
      /\ Range(fromServer') \subseteq Range(fromServer)
    BY <1>1, <1>2, Taken
<1>4. m \in PeerRequest /\ m.req \in Incoming
    BY <1>1, <1>3, Zenon DEF Response, PeerRequest
<1>5. /\ Once(Tail(fromServer), "request")
      /\ \A x \in Range(Tail(fromServer)) : x.kind = "request" => x.req # m.req
    BY <1>1, <1>2, TakenOnce, Zenon
<1>6. Once(fromServer, "request")'
    BY <1>1, <1>5 DEF Once
<1>7. \A r \in Incoming : OnWay(r)' => OnWay(r) /\ r # m.req
    BY <1>1, <1>3, <1>5 DEF OnWay
<1> QED
    BY <1>1, <1>3, <1>4, <1>6, <1>7, Zenon DEF OnWay

(* The peer puts a response, or a request of its own, on the connection. *)
LEMMA PeerWrites ==
    ASSUME RpcInv, NEW x \in Response \cup PeerRequest, fromServer' = Append(fromServer, x),
           x.kind = "request" => ~OnWay(x.req)
    PROVE  /\ fromServer' \in Seq(Response \cup PeerRequest)
           /\ Range(fromServer') = Range(fromServer) \cup {x}
           /\ Once(fromServer, "request")'
           /\ \A r \in Incoming : OnWay(r)' <=> OnWay(r) \/ (x.kind = "request" /\ r = x.req)
<1>1. fromServer \in Seq(Response \cup PeerRequest) /\ Once(fromServer, "request")
    BY DEF RpcInv, CallsInv, WireTypeOK, PeerInv, OnePlace
<1>2. fromServer' \in Seq(Response \cup PeerRequest) /\ Range(fromServer') = Range(fromServer) \cup {x}
    BY <1>1, Put
<1>3. Once(Append(fromServer, x), "request")
    BY <1>1, PutOnce DEF OnWay
<1> QED
    BY <1>2, <1>3 DEF OnWay, Once

(* A response read or sent leaves the requests on their way where they are. *)
LEMMA ResponseMoves ==
    ASSUME RpcInv, readResponse \/ \E m \in serving, e \in {"", "string", "object"} : PeerAnswers(m, e)
    PROVE  /\ fromServer' \in Seq(Response \cup PeerRequest)
           /\ Once(fromServer, "request")'
           /\ \A r \in Incoming : OnWay(r)' => OnWay(r)
           /\ \A x \in Range(fromServer') : x.kind = "response" =>
                 x \in Range(fromServer) \/ \E m \in serving : x.id = m.id /\ x.caller = m.caller
<1>1. fromServer \in Seq(Response \cup PeerRequest) /\ Once(fromServer, "request")
    BY Zenon DEF RpcInv, CallsInv, WireTypeOK, PeerInv, OnePlace
<1>2. CASE readResponse
    <2>1. fromServer # <<>> /\ fromServer' = Tail(fromServer)
        BY <1>2, Zenon DEF readResponse
    <2>2. /\ fromServer' \in Seq(Response \cup PeerRequest)
          /\ Range(fromServer') \subseteq Range(fromServer)
        BY <1>1, <2>1, Taken, Zenon
    <2>3. Once(Tail(fromServer), "request")
        BY <1>1, <2>1, TakenOnce, Zenon
    <2> QED
        BY <2>1, <2>2, <2>3, Zenon DEF OnWay, Once
<1>3. ASSUME NEW m \in serving, NEW e \in {"", "string", "object"}, PeerAnswers(m, e)
      PROVE  /\ fromServer' \in Seq(Response \cup PeerRequest)
             /\ Once(fromServer, "request")'
             /\ \A r \in Incoming : OnWay(r)' => OnWay(r)
             /\ \A x \in Range(fromServer') : x.kind = "response" =>
                   x \in Range(fromServer) \/ \E n \in serving : x.id = n.id /\ x.caller = n.caller
    <2> DEFINE reply == [kind |-> "response", id |-> m.id, caller |-> m.caller, error |-> e]
    <2>1. fromServer' = Append(fromServer, reply)
        BY <1>3, Zenon DEF PeerAnswers
    <2>2. reply \in Response \cup PeerRequest /\ reply.kind = "response" /\ reply.id = m.id /\ reply.caller = m.caller
        <3>1. m.id \in Nat /\ m.caller \in Caller
            BY Zenon DEF RpcInv, CallsInv, WireTypeOK, Request
        <3> QED
            BY <3>1, Zenon DEF Response
    <2> HIDE DEF reply
    <2>3. /\ fromServer' \in Seq(Response \cup PeerRequest)
          /\ Range(fromServer') = Range(fromServer) \cup {reply}
          /\ Once(fromServer, "request")'
          /\ \A r \in Incoming : OnWay(r)' => OnWay(r)
        BY <2>1, <2>2, PeerWrites, Zenon
    <2> QED
        BY <2>2, <2>3, Zenon
<1> QED
    BY <1>2, <1>3, Zenon

(* The client puts a request of its own, or an answer, on the connection. *)
LEMMA ClientWrites ==
    ASSUME RpcInv, NEW x \in Request \cup PeerAnswer, toServer' = Append(toServer, x),
           x.kind = "answer" => ~OnReturn(x.req)
    PROVE  /\ toServer' \in Seq(Request \cup PeerAnswer) /\ Range(toServer') = Range(toServer) \cup {x}
           /\ Once(toServer, "answer")'
           /\ \A r \in Incoming : OnReturn(r)' <=> OnReturn(r) \/ (x.kind = "answer" /\ r = x.req)
<1>1. toServer \in Seq(Request \cup PeerAnswer) /\ Once(toServer, "answer")
    BY DEF RpcInv, CallsInv, WireTypeOK, PeerInv, OnePlace
<1>2. toServer' \in Seq(Request \cup PeerAnswer) /\ Range(toServer') = Range(toServer) \cup {x}
    BY <1>1, Put
<1>3. Once(Append(toServer, x), "answer")
    BY <1>1, PutOnce DEF OnReturn
<1> QED
    BY <1>2, <1>3 DEF OnReturn, Once

(* The peer takes a message: a request of the client to serve, or an answer. *)
LEMMA PeerTakes ==
    ASSUME RpcInv, PeerReads
    PROVE  LET m == Head(toServer) IN
           /\ m \in Range(toServer) /\ toServer' \in Seq(Request \cup PeerAnswer)
           /\ Range(toServer') \subseteq Range(toServer)
           /\ Once(toServer, "answer")'
           /\ \/ /\ m \in Request /\ serving' = serving \cup {m} /\ UNCHANGED answers
                 /\ \A r \in Incoming : OnReturn(r)' => OnReturn(r)
              \/ /\ m.req \in Incoming /\ OnReturn(m.req) /\ UNCHANGED serving
                 /\ answers' = Append(answers, m.req)
                 /\ \A r \in Incoming : OnReturn(r)' => OnReturn(r) /\ r # m.req
<1> DEFINE m == Head(toServer)
<1>1. /\ toServer # <<>> /\ toServer' = Tail(toServer)
      /\ \/ m.kind = "request" /\ serving' = serving \cup {m} /\ UNCHANGED answers
         \/ m.kind = "answer" /\ answers' = Append(answers, m.req) /\ UNCHANGED serving
    BY DEF PeerReads
<1>2. toServer \in Seq(Request \cup PeerAnswer) /\ Once(toServer, "answer")
    BY DEF RpcInv, CallsInv, WireTypeOK, PeerInv, OnePlace
<1>3. /\ m \in Request \cup PeerAnswer /\ m \in Range(toServer)
      /\ toServer' \in Seq(Request \cup PeerAnswer) /\ Range(toServer') \subseteq Range(toServer)
    BY <1>1, <1>2, Taken
<1>4. /\ Once(Tail(toServer), "answer")
      /\ m.kind = "answer" => \A x \in Range(Tail(toServer)) : x.kind = "answer" => x.req # m.req
    BY <1>1, <1>2, TakenOnce
<1>5. Once(toServer, "answer")'
    BY <1>1, <1>4 DEF Once
<1>6. \A r \in Incoming : OnReturn(r)' => OnReturn(r)
    BY <1>3 DEF OnReturn
<1>7. CASE m.kind = "request"
    <2>1. m \in Request
        BY <1>3, <1>7 DEF PeerAnswer
    <2> QED
        BY <1>1, <1>3, <1>5, <1>6, <1>7, <2>1, Zenon
<1>8. CASE m.kind = "answer"
    <2>1. m.req \in Incoming
        BY <1>3, <1>8 DEF PeerAnswer, Request
    <2>2. OnReturn(m.req)
        BY <1>3, <1>8 DEF OnReturn
    <2>3. \A r \in Incoming : OnReturn(r)' => r # m.req
        BY <1>1, <1>4, <1>8, Zenon DEF OnReturn
    <2> QED
        BY <1>1, <1>3, <1>5, <1>6, <1>8, <2>1, <2>2, <2>3, Zenon
<1> QED
    BY <1>1, <1>7, <1>8

Line == WireTypeOK /\ PeerInv

(* PeerInv in the next state, from where each request is found there. *)
LEMMA AsideKeeps == ASSUME RpcInv, LineAside PROVE Line'
    BY DEF RpcInv, CallsInv, LineAside, PeerVars, Line, WireTypeOK, PeerInv, OnePlace, IdsKept,
        OnWay, InHand, OnReturn, Answered, Once, Answerable

LEMMA ResponsesKeep ==
    ASSUME RpcInv, readResponse \/ \E m \in serving, e \in {"", "string", "object"} : PeerAnswers(m, e)
    PROVE  Line'
<1>1. /\ fromServer' \in Seq(Response \cup PeerRequest)
      /\ Once(fromServer, "request")'
      /\ \A r \in Incoming : OnWay(r)' => OnWay(r)
    BY ResponseMoves, Zenon
<1>2. /\ UNCHANGED <<conn, toServer, answers, unsent, running, handled, codecSeq, codecPending>>
      /\ serving' \subseteq serving
    BY Zenon DEF readResponse, PeerAnswers, clientVars, codecVars
<1>3. WireTypeOK'
    BY <1>1, <1>2, Zenon DEF RpcInv, CallsInv, WireTypeOK
<1>4. \A r \in Incoming : /\ InHand(r)' <=> InHand(r)
                          /\ OnReturn(r)' <=> OnReturn(r)
                          /\ Answered(r)' <=> Answered(r)
    BY <1>2, Zenon DEF InHand, OnReturn, Answered
<1>5. OnePlace'
    BY <1>1, <1>2, <1>4, Zenon DEF RpcInv, PeerInv, OnePlace, Once
<1>6. IdsKept'
    BY <1>1, <1>2, <1>4, Zenon DEF RpcInv, CallsInv, WireTypeOK, PeerInv, IdsKept, Answerable
<1> QED
    BY <1>3, <1>5, <1>6, Zenon DEF Line, PeerInv

LEMMA WriteKeeps == ASSUME RpcInv, NEW c \in Caller, SendWrite(c) PROVE Line'
<1> DEFINE x == [kind |-> "request", id |-> seq - 1, caller |-> c]
<1>1. /\ UNCHANGED <<conn, fromServer, serving, answers, unsent, running, handled, codecSeq, codecPending>>
      /\ toServer' = Append(toServer, x) \/ UNCHANGED toServer
    BY DEF SendWrite, codecVars
<1>2. CASE UNCHANGED toServer
    <2>1. LineAside
        BY <1>1, <1>2 DEF LineAside, PeerVars
    <2> QED
        BY <2>1, AsideKeeps
<1>3. CASE toServer' = Append(toServer, x)
    <2>1. x \in Request \cup PeerAnswer /\ x.kind # "answer"
        BY DEF RpcInv, CallsInv, ClientTypeOK, Request
    <2> HIDE DEF x
    <2>2. /\ toServer' \in Seq(Request \cup PeerAnswer)
          /\ Once(toServer, "answer")'
          /\ \A r \in Incoming : OnReturn(r)' <=> OnReturn(r)
        BY <1>3, <2>1, ClientWrites
    <2>3. WireTypeOK'
        BY <1>1, <2>2 DEF RpcInv, CallsInv, WireTypeOK
    <2>4. \A r \in Incoming : /\ InHand(r)' <=> InHand(r)
                              /\ OnWay(r)' <=> OnWay(r)
                              /\ Answered(r)' <=> Answered(r)
        BY <1>1, Zenon DEF InHand, OnWay, Answered
    <2>5. OnePlace'
        BY <1>1, <2>2, <2>4, Zenon DEF RpcInv, PeerInv, OnePlace, Once
    <2>6. IdsKept'
        BY <1>1, <2>2, <2>4, Zenon DEF RpcInv, CallsInv, WireTypeOK, PeerInv, IdsKept, Answerable
    <2> QED
        BY <2>3, <2>5, <2>6 DEF Line, PeerInv
<1> QED
    BY <1>1, <1>2, <1>3

LEMMA SendsKeep == ASSUME RpcInv, NEW q \in unsent, PeerSends(q) PROVE Line'
<1> DEFINE x == [kind |-> "request", req |-> q]
<1>1. /\ UNCHANGED <<conn, toServer, serving, answers, running, handled, codecSeq, codecPending>>
      /\ fromServer' = Append(fromServer, x) /\ unsent' = unsent \ {q}
    BY DEF PeerSends, codecVars
<1>2. q \in Incoming /\ ~OnWay(q)
    BY DEF RpcInv, CallsInv, WireTypeOK, PeerInv, OnePlace
<1>3. x \in Response \cup PeerRequest /\ x.kind = "request" /\ x.req = q
    BY <1>2 DEF PeerRequest
<1> HIDE DEF x
<1>4. /\ fromServer' \in Seq(Response \cup PeerRequest) /\ Once(fromServer, "request")'
      /\ \A r \in Incoming : OnWay(r)' <=> OnWay(r) \/ r = q
    BY <1>1, <1>2, <1>3, PeerWrites, Zenon
<1>6. \A r \in Incoming : /\ OnWay(r)' <=> OnWay(r) \/ r = q
                          /\ InHand(r)' <=> InHand(r)
                          /\ OnReturn(r)' <=> OnReturn(r)
                          /\ Answered(r)' <=> Answered(r)
    BY <1>1, <1>4 DEF InHand, OnReturn, Answered
<1>7. WireTypeOK'
    BY <1>1, <1>4, Zenon DEF RpcInv, CallsInv, WireTypeOK
<1>8. OnePlace'
    <2>1. Once(fromServer, "request")' /\ Once(toServer, "answer")'
        BY <1>1, <1>4, Zenon DEF RpcInv, PeerInv, OnePlace, Once
    <2> QED
        BY <1>1, <1>2, <1>6, <2>1, Zenon DEF RpcInv, PeerInv, OnePlace
<1>9. IdsKept'
    BY <1>1, <1>2, <1>6 DEF RpcInv, CallsInv, WireTypeOK, PeerInv, IdsKept, Answerable
<1> QED
    BY <1>7, <1>8, <1>9 DEF Line, PeerInv

LEMMA TakesKeep == ASSUME RpcInv, PeerReads PROVE Line'
<1> DEFINE m == Head(toServer)
<1>1. UNCHANGED <<conn, fromServer, unsent, running, handled, codecSeq, codecPending>>
    BY DEF PeerReads, codecVars
<1>2. /\ toServer' \in Seq(Request \cup PeerAnswer) /\ Once(toServer, "answer")'
      /\ \/ /\ m \in Request /\ serving' = serving \cup {m} /\ UNCHANGED answers
            /\ \A r \in Incoming : OnReturn(r)' => OnReturn(r)
         \/ /\ m.req \in Incoming /\ OnReturn(m.req) /\ UNCHANGED serving
            /\ answers' = Append(answers, m.req)
            /\ \A r \in Incoming : OnReturn(r)' => OnReturn(r) /\ r # m.req
    BY PeerTakes
<1> HIDE DEF m
<1>3. \A r \in Incoming : (OnWay(r)' <=> OnWay(r)) /\ (InHand(r)' <=> InHand(r))
    BY <1>1 DEF OnWay, InHand
<1>4. Once(fromServer, "request")'
    BY <1>1 DEF RpcInv, PeerInv, OnePlace, Once
<1>5. CASE /\ m \in Request /\ serving' = serving \cup {m} /\ UNCHANGED answers
           /\ \A r \in Incoming : OnReturn(r)' => OnReturn(r)
    <2>1. WireTypeOK'
        BY <1>1, <1>2, <1>5 DEF RpcInv, CallsInv, WireTypeOK
    <2>2. \A r \in Incoming : Answered(r)' <=> Answered(r)
        BY <1>5 DEF Answered
    <2>3. OnePlace'
        BY <1>1, <1>2, <1>3, <1>4, <1>5, <2>2, Zenon DEF RpcInv, PeerInv, OnePlace
    <2>4. IdsKept'
        BY <1>1, <1>3, <1>5, <2>2, Zenon DEF RpcInv, CallsInv, WireTypeOK, PeerInv, IdsKept, Answerable
    <2> QED
        BY <2>1, <2>3, <2>4 DEF Line, PeerInv
<1>6. CASE /\ m.req \in Incoming /\ OnReturn(m.req) /\ UNCHANGED serving
           /\ answers' = Append(answers, m.req)
           /\ \A r \in Incoming : OnReturn(r)' => OnReturn(r) /\ r # m.req
    <2>1. answers \in Seq(Incoming) /\ ~Answered(m.req) /\ Answerable(m.req)
        BY <1>6 DEF RpcInv, CallsInv, WireTypeOK, PeerInv, OnePlace, IdsKept
    <2>2. /\ Append(answers, m.req) \in Seq(Incoming)
          /\ Range(Append(answers, m.req)) = Range(answers) \cup {m.req}
        BY <1>6, <2>1, Put
    <2>3. WireTypeOK'
        BY <1>1, <1>2, <1>6, <2>2, Zenon DEF RpcInv, CallsInv, WireTypeOK
    <2>4. \A r \in Incoming : Answered(r)' <=> Answered(r) \/ r = m.req
        BY <1>6, <2>2 DEF Answered
    <2>5. \A i, j \in DOMAIN answers' : answers'[i] = answers'[j] => i = j
        <3>1. /\ Len(answers) \in Nat /\ DOMAIN answers = 1..Len(answers)
              /\ DOMAIN answers' = 1..(Len(answers) + 1)
              /\ \A i \in 1..Len(answers) : answers'[i] = answers[i]
              /\ answers'[Len(answers) + 1] = m.req
            BY <1>6, <2>1
        <3>2. \A i \in 1..(Len(answers) + 1) : i \in 1..Len(answers) \/ i = Len(answers) + 1
            BY <3>1
        <3>3. \A i \in 1..Len(answers) : answers[i] # m.req
            BY <2>1, <3>1, Zenon DEF Answered, Range
        <3> QED
            BY <3>1, <3>2, <3>3, Zenon DEF RpcInv, PeerInv, OnePlace
    <2>6. OnePlace'
        BY <1>1, <1>2, <1>3, <1>4, <1>6, <2>4, <2>5, Zenon DEF RpcInv, PeerInv, OnePlace
    <2>7. IdsKept'
        BY <1>1, <1>3, <1>6, <2>1, <2>4, Zenon DEF RpcInv, CallsInv, WireTypeOK, PeerInv, IdsKept, Answerable
    <2> QED
        BY <2>3, <2>6, <2>7 DEF Line, PeerInv
<1> QED
    BY <1>2, <1>5, <1>6, Zenon

(* readRequest: the request goes to a goroutine, or is answered with an error, or is dropped
   with the connection; the codec gives it a number no other request has. *)
LEMMA RequestKeeps == ASSUME RpcInv, readRequest PROVE Line'
<1> DEFINE m == Head(fromServer)
           q == m.req
           n == IF q.call THEN codecSeq + 1 ELSE 0
           kept == IF q.call THEN With(codecPending, n, q) ELSE codecPending
           answer == [kind |-> "answer", req |-> q]
           g == [req |-> q, seq |-> n]
<1>1. /\ codecSeq' = (IF q.call THEN n ELSE codecSeq)
      /\ UNCHANGED <<conn, serving, answers, unsent, handled>>
      /\ \/ /\ q.method \notin Methods /\ q.call /\ toServer' = Append(toServer, answer)
            /\ UNCHANGED <<codecPending, running>>
         \/ UNCHANGED <<codecPending, running, toServer>>
         \/ codecPending' = kept /\ UNCHANGED <<running, toServer>>
         \/ codecPending' = kept /\ running' = running \cup {g} /\ UNCHANGED toServer
    BY DEF readRequest, NextCodecSeq, Answer
<1>2. /\ m \in PeerRequest /\ q \in Incoming /\ OnWay(q)
      /\ fromServer' \in Seq(Response \cup PeerRequest) /\ Once(fromServer, "request")'
      /\ \A r \in Incoming : OnWay(r)' => OnWay(r) /\ r # q
    BY RequestRead
<1> HIDE DEF m, q
<1>3. /\ codecSeq \in Nat /\ codecSeq' \in Nat /\ n \in Nat /\ codecSeq <= codecSeq' /\ n <= codecSeq'
      /\ codecPending \in [DOMAIN codecPending -> Incoming] /\ DOMAIN codecPending \subseteq 1..codecSeq
      /\ n \notin DOMAIN codecPending
    BY <1>1 DEF RpcInv, CallsInv, WireTypeOK
<1>4. /\ kept \in [DOMAIN kept -> Incoming] /\ DOMAIN kept \subseteq 1..codecSeq'
      /\ \A s \in DOMAIN codecPending : s \in DOMAIN kept /\ kept[s] = codecPending[s]
      /\ DOMAIN kept \subseteq DOMAIN codecPending \cup {n}
      /\ n \in DOMAIN kept => kept[n] = q
    <2>1. CASE ~q.call
        BY <1>1, <1>3, <2>1, Zenon
    <2>2. CASE q.call
        <3>1. /\ DOMAIN kept = DOMAIN codecPending \cup {n} /\ n \in 1..codecSeq'
              /\ kept = [z \in DOMAIN codecPending \cup {n} |-> IF z = n THEN q ELSE codecPending[z]]
            BY <1>1, <1>3, <2>2 DEF With
        <3> QED
            BY <1>2, <1>3, <3>1
    <2> QED
        BY <2>1, <2>2, Zenon
<1>5. ~InHand(q) /\ ~OnReturn(q) /\ ~Answered(q) /\ q \notin unsent /\ q \notin handled
    BY <1>2 DEF RpcInv, PeerInv, OnePlace, IdsKept
<1>6. \A r \in Incoming : Answered(r)' <=> Answered(r)
    BY <1>1 DEF Answered
<1>7. CASE /\ q.method \notin Methods /\ q.call /\ toServer' = Append(toServer, answer)
           /\ UNCHANGED <<codecPending, running>>
    <2>1. answer \in Request \cup PeerAnswer /\ answer.kind = "answer" /\ answer.req = q
        BY <1>2 DEF PeerAnswer
    <2> HIDE DEF answer
    <2>2. /\ toServer' \in Seq(Request \cup PeerAnswer) /\ Once(toServer, "answer")'
          /\ \A r \in Incoming : OnReturn(r)' <=> OnReturn(r) \/ r = q
        BY <1>5, <1>7, <2>1, ClientWrites
    <2>3. \A r \in Incoming : InHand(r)' <=> InHand(r)
        BY <1>7, Zenon DEF InHand
    <2>4. WireTypeOK'
        BY <1>1, <1>2, <1>3, <1>7, <2>2 DEF RpcInv, CallsInv, WireTypeOK
    <2>5. OnePlace'
        BY <1>1, <1>2, <1>5, <1>6, <1>7, <2>2, <2>3, Zenon DEF RpcInv, PeerInv, OnePlace
    <2>6. IdsKept'
        BY <1>1, <1>2, <1>3, <1>6, <1>7, <2>2 DEF RpcInv, CallsInv, WireTypeOK, PeerInv, IdsKept, Answerable
    <2> QED
        BY <2>4, <2>5, <2>6, Zenon DEF Line, PeerInv
<1>8. ASSUME UNCHANGED <<running, toServer>>, codecPending' \in {codecPending, kept} PROVE Line'
    <2>1. \A r \in Incoming : (InHand(r)' <=> InHand(r)) /\ (OnReturn(r)' <=> OnReturn(r))
        BY <1>8, Zenon DEF InHand, OnReturn
    <2>2. WireTypeOK'
        BY <1>1, <1>2, <1>3, <1>4, <1>8, Zenon DEF RpcInv, CallsInv, WireTypeOK
    <2>3. OnePlace'
        BY <1>1, <1>2, <1>6, <1>8, <2>1, Zenon DEF RpcInv, PeerInv, OnePlace, Once
    <2>4. \A h \in running : h.seq \in DOMAIN codecPending' => codecPending'[h.seq] = h.req
        <3>1. \A h \in running : h.seq \in Nat /\ h.seq <= codecSeq /\ (h.seq = 0 <=> ~h.req.call)
            BY DEF RpcInv, CallsInv, WireTypeOK, PeerInv, IdsKept
        <3>2. q.call => n = codecSeq + 1
            OBVIOUS
        <3>3. \A h \in running : h.seq \in DOMAIN kept => h.seq \in DOMAIN codecPending
            <4>1. CASE ~q.call
                BY <4>1
            <4>2. CASE q.call
                <5>1. \A h \in running : h.seq # n
                    BY <1>3, <3>1, <3>2, <4>2
                <5> QED
                    BY <1>4, <5>1
            <4> QED
                BY <4>1, <4>2
        <3> QED
            BY <1>4, <1>8, <3>3, Zenon DEF RpcInv, PeerInv, IdsKept
    <2>5. IdsKept'
        <3>1. IdsKept /\ (\A h \in running : h.seq \in Nat) /\ running' = running /\ handled' = handled /\ unsent' = unsent
            BY <1>1, <1>8 DEF RpcInv, CallsInv, WireTypeOK, PeerInv
        <3>2. \A h \in running' : /\ h.seq = 0 <=> ~h.req.call
                                  /\ h.seq = 0 => h.req \notin handled'
                                  /\ h.seq <= codecSeq'
            BY <1>3, <3>1 DEF IdsKept
        <3>3. \A r \in Incoming : OnReturn(r)' \/ Answered(r)' => Answerable(r)'
            BY <1>6, <2>1, <3>1, Zenon DEF IdsKept, Answerable
        <3>4. \A r \in handled' : r \notin unsent' /\ ~OnWay(r)'
            BY <1>2, <3>1 DEF IdsKept, RpcInv, CallsInv, WireTypeOK
        <3> QED
            BY <2>4, <3>1, <3>2, <3>3, <3>4, Zenon DEF IdsKept
    <2> QED
        BY <2>2, <2>3, <2>5 DEF Line, PeerInv
<1>9. CASE codecPending' = kept /\ running' = running \cup {g} /\ UNCHANGED toServer
    <2>1. g.req = q /\ g.seq = n /\ g \in [req : Incoming, seq : Nat]
        BY <1>2, <1>3
    <2>2. n = 0 <=> ~q.call
        BY <1>3
    <2> HIDE DEF g
    <2>3. \A r \in Incoming : (InHand(r)' <=> InHand(r) \/ r = q) /\ (OnReturn(r)' <=> OnReturn(r))
        BY <1>9, <2>1, Zenon DEF InHand, OnReturn
    <2>4. WireTypeOK'
        BY <1>1, <1>2, <1>3, <1>4, <1>9, <2>1, Zenon DEF RpcInv, CallsInv, WireTypeOK
    <2>5. \A h, k \in running' : h.req = k.req => h = k
        BY <1>5, <1>9, <2>1, Zenon DEF RpcInv, PeerInv, OnePlace, InHand
    <2>6. OnePlace'
        BY <1>1, <1>2, <1>5, <1>6, <1>9, <2>3, <2>5, Zenon DEF RpcInv, PeerInv, OnePlace, Once
    <2>7. ASSUME NEW h \in running'
          PROVE  /\ h.seq = 0 <=> ~h.req.call
                 /\ h.seq = 0 => h.req \notin handled
                 /\ h.seq <= codecSeq'
                 /\ h.seq \in DOMAIN kept => kept[h.seq] = h.req
        <3>1. CASE h = g
            BY <1>3, <1>4, <1>5, <2>1, <2>2, <3>1, Zenon
        <3>2. CASE h \in running
            <4>1. h.seq \in Nat /\ h.seq <= codecSeq /\ (h.seq = 0 <=> ~h.req.call) /\ (h.seq = 0 => h.req \notin handled)
                BY <3>2, Zenon DEF RpcInv, CallsInv, WireTypeOK, PeerInv, IdsKept
            <4>2. h.seq \in DOMAIN kept => h.seq \in DOMAIN codecPending
                BY <1>1, <1>3, <1>4, <4>1
            <4> QED
                BY <1>3, <1>4, <3>2, <4>1, <4>2 DEF RpcInv, PeerInv, IdsKept
        <3> QED
            BY <1>9, <2>7, <3>1, <3>2, Zenon
    <2>8. IdsKept'
        BY <1>1, <1>2, <1>6, <1>9, <2>3, <2>7, Zenon DEF RpcInv, CallsInv, WireTypeOK, PeerInv, IdsKept, Answerable
    <2> QED
        BY <2>4, <2>6, <2>8, Zenon DEF Line, PeerInv
<1> QED
    BY <1>1, <1>7, <1>8, <1>9

(* handlerRun: the handler of a notification is called and nothing is left of it; that of a call
   leaves the goroutine to answer. *)
LEMMA HandleKeeps == ASSUME RpcInv, NEW g \in running, handlerRun(g) PROVE Line'
<1>1. /\ UNCHANGED <<conn, toServer, fromServer, serving, answers, unsent, codecSeq, codecPending>>
      /\ handled' = handled \cup {g.req}
      /\ running' = IF g.seq = 0 THEN running \ {g} ELSE running
    BY DEF handlerRun, wireVars, IsNotification
<1>2. g.req \in Incoming /\ InHand(g.req)
    BY DEF RpcInv, CallsInv, WireTypeOK, InHand
<1>3. \A r \in Incoming : /\ OnWay(r)' <=> OnWay(r)
                          /\ InHand(r)' => InHand(r)
                          /\ OnReturn(r)' <=> OnReturn(r)
                          /\ Answered(r)' <=> Answered(r)
    BY <1>1 DEF OnWay, InHand, OnReturn, Answered
<1>4. WireTypeOK'
    BY <1>1, <1>2, Zenon DEF RpcInv, CallsInv, WireTypeOK
<1>5. OnePlace'
    BY <1>1, <1>3, Zenon DEF RpcInv, PeerInv, OnePlace, Once
<1>6. g.req \notin unsent /\ ~OnWay(g.req)
    BY <1>2, Zenon DEF RpcInv, PeerInv, OnePlace
<1>7. \A h \in running' : h.seq = 0 => h.req \notin handled'
    BY <1>1, Zenon DEF RpcInv, PeerInv, OnePlace, IdsKept
<1>8. IdsKept'
    BY <1>1, <1>2, <1>3, <1>4, <1>6, <1>7, Zenon DEF RpcInv, PeerInv, IdsKept, Answerable, WireTypeOK
<1> QED
    BY <1>4, <1>5, <1>8 DEF Line, PeerInv

(* WriteResponse: the answer goes out under the id that the codec kept for this request. *)
LEMMA AnswerKeeps == ASSUME RpcInv, NEW g \in running, WriteResponse(g) PROVE Line'
<1> DEFINE answer == [kind |-> "answer", req |-> codecPending[g.seq]]
<1>1. /\ UNCHANGED <<conn, fromServer, serving, answers, unsent, codecSeq, handled>>
      /\ running' = running \ {g} /\ g.req \in handled
      /\ \/ /\ g.seq \in DOMAIN codecPending /\ codecPending' = Without(codecPending, g.seq)
            /\ toServer' = Append(toServer, answer) \/ UNCHANGED toServer
         \/ UNCHANGED <<codecPending, toServer>>
    BY Zenon DEF WriteResponse, Answer
<1>2. g.req \in Incoming /\ InHand(g.req) /\ g.req.call /\ ~OnReturn(g.req) /\ ~Answered(g.req)
    BY <1>1, Zenon DEF RpcInv, CallsInv, WireTypeOK, InHand, PeerInv, OnePlace, IdsKept
<1>3. g.seq \in DOMAIN codecPending => codecPending[g.seq] = g.req
    BY DEF RpcInv, PeerInv, IdsKept
<1>4. \A r \in Incoming : /\ OnWay(r)' <=> OnWay(r)
                          /\ InHand(r)' => InHand(r) /\ r # g.req
                          /\ Answered(r)' <=> Answered(r)
    BY <1>1 DEF OnWay, InHand, Answered, RpcInv, PeerInv, OnePlace
<1>5. /\ codecPending' \in [DOMAIN codecPending' -> Incoming]
      /\ DOMAIN codecPending' \subseteq DOMAIN codecPending /\ DOMAIN codecPending \subseteq 1..codecSeq
      /\ \A s \in DOMAIN codecPending' : codecPending'[s] = codecPending[s]
    <2>1. codecPending \in [DOMAIN codecPending -> Incoming] /\ DOMAIN codecPending \subseteq 1..codecSeq
        BY DEF RpcInv, CallsInv, WireTypeOK
    <2> QED
        BY <1>1, <2>1 DEF Without
<1>6. /\ toServer' \in Seq(Request \cup PeerAnswer) /\ Once(toServer, "answer")'
      /\ \A r \in Incoming : OnReturn(r)' => OnReturn(r) \/ r = g.req
    <2>1. CASE UNCHANGED toServer
        BY <2>1 DEF RpcInv, CallsInv, WireTypeOK, PeerInv, OnePlace, OnReturn, Once
    <2>2. CASE g.seq \in DOMAIN codecPending /\ toServer' = Append(toServer, answer)
        <3>1. answer \in Request \cup PeerAnswer /\ answer.kind = "answer" /\ answer.req = g.req
            BY <1>2, <1>3, <2>2, Zenon DEF PeerAnswer
        <3> HIDE DEF answer
        <3> QED
            BY <1>2, <2>2, <3>1, ClientWrites, Zenon
    <2> QED
        BY <1>1, <2>1, <2>2, Zenon
<1>7. WireTypeOK'
    BY <1>1, <1>5, <1>6, Zenon DEF RpcInv, CallsInv, WireTypeOK
<1>8. OnePlace'
    BY <1>1, <1>2, <1>4, <1>6, Zenon DEF RpcInv, PeerInv, OnePlace, Once
<1>9. IdsKept'
    BY <1>1, <1>2, <1>4, <1>5, <1>6, <1>7, Zenon DEF RpcInv, PeerInv, IdsKept, Answerable, WireTypeOK
<1> QED
    BY <1>7, <1>8, <1>9, Zenon DEF Line, PeerInv

LEMMA LineStep == ASSUME RpcInv, [Next]_vars PROVE Line'
    BY LineSteps, WriteKeeps, ResponsesKeep, RequestKeeps, TakesKeep, HandleKeeps, AnswerKeeps,
        SendsKeep, AsideKeeps, Zenon, Zenon

----
(* The numbers on the connection *)

(* A number that was given stays with its call as long as it is in the map. *)
LEMMA OwnedStays ==
    ASSUME NamesApart, CallsInv, [Next]_vars, NEW m, m.id \in Nat, Owned(m)
    PROVE  Owned(m)'
<1> DEFINE Numbered ==
             /\ seq' \in {seq, seq + 1}
             /\ \/ UNCHANGED pending
                \/ \E s \in DOMAIN pending : pending' = Without(pending, s)
                \/ \E c \in Caller : pending' = With(pending, seq, c)
<1>1. seq \in Nat /\ Numbered
    <2>1. ASSUME NEW c \in Caller, Go(c) \/ Send(c) PROVE Numbered
        BY <2>1, Zenon DEF Go, Send, SendLock, SendRegister, SendWrite, SendFailed, Return
    <2>2. ASSUME readResponse PROVE Numbered
        BY <2>2, ResponseRead, Zenon
    <2>3. ASSUME TerminateLock \/ Terminate \/ Aside PROVE Numbered
        BY <2>3 DEF TerminateLock, Terminate, Aside, CallVars
    <2> QED
        BY <2>1, <2>2, <2>3, CallSteps, Zenon DEF CallsInv, ClientTypeOK
<1>2. m.id < seq' /\ m.id # seq
    BY <1>1 DEF Owned
<1> QED
    BY <1>1, <1>2, Zenon DEF Owned, With, Without

(* What is new on the connection. *)
LEMMA NewToServer ==
    ASSUME RpcInv, [Next]_vars, NEW m \in Range(toServer'), m \notin Range(toServer), m.kind = "request"
    PROVE  \E c \in Caller : SendWrite(c) /\ m = [kind |-> "request", id |-> seq - 1, caller |-> c]
<1>1. toServer \in Seq(Request \cup PeerAnswer)
    BY DEF RpcInv, CallsInv, WireTypeOK
<1>2. \A x : Range(Append(toServer, x)) = Range(toServer) \cup {x}
    BY <1>1, PutAny
<1>3. ~UNCHANGED toServer
    OBVIOUS
<1>4. ASSUME NEW x, toServer' = Append(toServer, x) PROVE m = x
    BY <1>2, <1>4
<1>a. ASSUME NEW r, toServer' = Append(toServer, [kind |-> "answer", req |-> r]) PROVE FALSE
    BY <1>4, <1>a
<1>5. ASSUME readRequest PROVE FALSE
    <2>1. UNCHANGED toServer \/ \E r : toServer' = Append(toServer, [kind |-> "answer", req |-> r])
        BY <1>5, Zenon DEF readRequest, Answer
    <2> QED
        BY <1>3, <1>a, <2>1, Zenon
<1>6. ASSUME NEW g \in running, handlerRun(g) \/ WriteResponse(g) PROVE FALSE
    <2>1. UNCHANGED toServer \/ \E r : toServer' = Append(toServer, [kind |-> "answer", req |-> r])
        BY <1>6, Zenon DEF handlerRun, WriteResponse, Answer, wireVars
    <2> QED
        BY <1>3, <1>a, <2>1, Zenon
<1>7. ASSUME NEW c \in Caller, SendWrite(c)
      PROVE  m = [kind |-> "request", id |-> seq - 1, caller |-> c]
    BY <1>3, <1>4, <1>7 DEF SendWrite
<1>8. CASE PeerReads
    BY <1>8, PeerTakes
<1>9. ~(readResponse \/ (\E n \in serving, e \in {"", "string", "object"} : PeerAnswers(n, e))
        \/ (\E r \in unsent : PeerSends(r)) \/ LineAside)
    BY <1>3, Zenon DEF readResponse, PeerAnswers, PeerSends, LineAside, PeerVars
<1> QED
    BY <1>5, <1>6, <1>7, <1>8, <1>9, LineSteps, Zenon

LEMMA NewFromServer ==
    ASSUME RpcInv, [Next]_vars, NEW m \in Range(fromServer'), m \notin Range(fromServer),
           m.kind = "response"
    PROVE  \E n \in serving : m.id = n.id /\ m.caller = n.caller
<1>1. ~UNCHANGED fromServer
    OBVIOUS
<1>2. CASE readResponse \/ \E n \in serving, e \in {"", "string", "object"} : PeerAnswers(n, e)
    BY <1>2, ResponseMoves, Zenon
<1>3. CASE readRequest
    BY <1>3, RequestRead
<1>4. ASSUME NEW r \in unsent, PeerSends(r) PROVE FALSE
    <2>1. fromServer \in Seq(Response \cup PeerRequest) /\ fromServer' = Append(fromServer, [kind |-> "request", req |-> r])
        BY <1>4 DEF PeerSends, RpcInv, CallsInv, WireTypeOK
    <2>2. Range(fromServer') = Range(fromServer) \cup {[kind |-> "request", req |-> r]}
        BY <2>1, PutAny, Zenon
    <2> QED
        BY <2>2
<1>5. ~((\E c \in Caller : SendWrite(c)) \/ PeerReads
        \/ (\E g \in running : handlerRun(g) \/ WriteResponse(g)) \/ LineAside)
    BY <1>1, Zenon DEF SendWrite, PeerReads, handlerRun, WriteResponse, LineAside, PeerVars, wireVars
<1> QED
    BY <1>2, <1>3, <1>4, <1>5, LineSteps, Zenon

(* A message keeps the owner it had; a new one carries the number of the call that writes it, or
   that of the request it answers. *)
LEMMA RepliesStep == ASSUME NamesApart, RpcInv, [Next]_vars PROVE RepliesOwned'
<1>0. CallsInv
    BY DEF RpcInv
<1>1. ASSUME NEW m, m.id \in Nat, Owned(m) PROVE Owned(m)'
    BY <1>0, <1>1, OwnedStays
<1>2. /\ \A m \in Range(toServer) : m.kind = "request" => m.id \in Nat
      /\ \A m \in serving : m.id \in Nat
      /\ \A m \in Range(fromServer) : m.kind = "response" => m.id \in Nat
    <2>1. /\ Range(toServer) \subseteq Request \cup PeerAnswer /\ serving \subseteq Request
          /\ Range(fromServer) \subseteq Response \cup PeerRequest
        BY <1>0, LenProperties DEF CallsInv, WireTypeOK, Range
    <2> QED
        BY <2>1, Zenon DEF Request, Response, PeerRequest, PeerAnswer
<1>3. ASSUME NEW m \in Range(toServer), m.kind = "request" PROVE m.id \in Nat /\ Owned(m)'
    BY <1>0, <1>1, <1>2, <1>3, Zenon DEF CallsInv, RepliesOwned
<1>4. ASSUME NEW m \in serving PROVE m.id \in Nat /\ Owned(m)'
    BY <1>0, <1>1, <1>2 DEF CallsInv, RepliesOwned
<1>5. ASSUME NEW m \in Range(fromServer), m.kind = "response" PROVE Owned(m)'
    BY <1>0, <1>1, <1>2, <1>5, Zenon DEF CallsInv, RepliesOwned
<1>6. \A m \in Range(toServer') : m.kind = "request" => Owned(m)'
    <2>1. ASSUME NEW m \in Range(toServer'), m.kind = "request", m \notin Range(toServer)
          PROVE  \E c \in Caller : SendWrite(c) /\ m = [kind |-> "request", id |-> seq - 1, caller |-> c]
        BY <2>1, NewToServer
    <2>2. ASSUME NEW c \in Caller, NEW m, SendWrite(c),
                 m = [kind |-> "request", id |-> seq - 1, caller |-> c]
          PROVE  Owned(m)'
        <3>1. /\ m.id = seq - 1 /\ m.caller = c /\ pc[c] = "write" /\ UNCHANGED <<seq, pending>>
            BY <2>2 DEF SendWrite
        <3> QED
            BY <1>0, <3>1 DEF CallsInv, ClientTypeOK, PendingWait, Owned
    <2> QED
        BY <1>3, <2>1, <2>2, Zenon
<1>7. \A m \in serving' : Owned(m)'
    <2>1. CASE PeerReads
        BY <1>3, <1>4, <2>1, PeerTakes, Zenon DEF Request
    <2>2. CASE ~PeerReads
        <3>1. serving' \subseteq serving
            BY <2>2, LineSteps, Zenon DEF SendWrite, readResponse, readRequest, handlerRun, WriteResponse, PeerAnswers,
                PeerSends, LineAside, PeerVars, wireVars
        <3> QED
            BY <1>4, <3>1, Zenon
    <2> QED
        BY <2>1, <2>2
<1>8. \A m \in Range(fromServer') : m.kind = "response" => Owned(m)'
    <2>1. ASSUME NEW m \in Range(fromServer'), m.kind = "response", m \notin Range(fromServer)
          PROVE  \E n \in serving : m.id = n.id /\ m.caller = n.caller
        BY <2>1, NewFromServer
    <2>2. ASSUME NEW m, NEW n \in serving, m.id = n.id, m.caller = n.caller PROVE Owned(m)'
        BY <1>4, <2>2 DEF Owned
    <2> QED
        BY <1>5, <2>1, <2>2
<1> QED
    BY <1>6, <1>7, <1>8 DEF RepliesOwned

LEMMA RpcStep == ASSUME NamesApart PROVE RpcInv /\ [Next]_vars => RpcInv'
    BY ServesStep, LineStep, RepliesStep DEF RpcInv, CallsInv, Serves, Line

(* The codec and handlerRun: the peer gets at most one response to each of its requests, under
   the id it gave, after its handler was called, and none to a notification. *)
THEOREM PeerAnswered == ASSUME NamesApart PROVE Spec => []AnswersMatch
<1>1. Init => RpcInv
    BY RpcInit
<1>2. RpcInv /\ [Next]_vars => RpcInv'
    BY RpcStep
<1>3. RpcInv => AnswersMatch
    <2>1. ASSUME RpcInv, NEW i \in DOMAIN answers PROVE Answerable(answers[i])
        <3>1. answers[i] \in Incoming /\ Answered(answers[i])
            BY <2>1, LenProperties DEF RpcInv, CallsInv, WireTypeOK, Answered, Range
        <3> QED
            BY <2>1, <3>1 DEF RpcInv, PeerInv, IdsKept
    <2> QED
        BY <2>1 DEF RpcInv, PeerInv, OnePlace, AnswersMatch, Answerable
<1> QED
    BY <1>1, <1>2, <1>3, PTL DEF Spec

----
(* RpcService *)

LEMMA Outcomes ==
    ASSUME RpcInv, NEW c \in Caller
    PROVE  OutcomeOf(c) = IF pc[c] = "idle" THEN "none"
                          ELSE IF completions[c] = 0 THEN "active"
                          ELSE IF result[c] = c THEN "reply" ELSE "error"
<1>1. completions[c] \in Nat /\ (completions[c] > 0 => result[c] \in {c, "error"})
    BY DEF RpcInv, CallsInv, ClientTypeOK, PendingWait
<1>2. CASE pc[c] = "idle"
    <2>1. completions[c] = 0
        BY <1>2 DEF RpcInv, CallsInv, PendingWait, Unregistered
    <2> QED
        BY <1>2, <2>1 DEF OutcomeOf
<1>3. CASE pc[c] # "idle"
    BY <1>1, <1>3 DEF OutcomeOf
<1> QED
    BY <1>2, <1>3

(* The state that the service shows: what each call sees, and what has become of the requests. *)
Shown == \A c \in Caller :
    OutcomeOf(c) = IF pc[c] = "idle" THEN "none"
                   ELSE IF completions[c] = 0 THEN "active"
                   ELSE IF result[c] = c THEN "reply" ELSE "error"

LEMMA ShownHolds == RpcInv => Shown
    BY Outcomes DEF Shown

(* Calls that have begun are completed: with their reply or with an error. *)
LEMMA EndsFail ==
    ASSUME Shown, Shown', NEW C \in SUBSET Caller,
           "error" \notin Caller,
           completions \in [Caller -> Nat],
           \A c \in C : pc[c] # "idle" /\ completions[c] = 0 /\ result'[c] = "error" /\ completions'[c] = 1,
           \A c \in Caller \ C : result'[c] = result[c] /\ completions'[c] = completions[c],
           \A c \in Caller : pc'[c] = "idle" <=> pc[c] = "idle",
           UNCHANGED <<unsent, handled, conn>>
    PROVE  Service!Fail(C)
<1>1. \A c \in C : OutcomeOf(c) = "active" /\ OutcomeOf(c)' = "error"
    BY DEF Shown
<1>2. \A c \in Caller \ C : OutcomeOf(c)' = OutcomeOf(c)
    BY DEF Shown
<1> QED
    BY <1>1, <1>2 DEF Service!Fail

LEMMA EndsReply ==
    ASSUME Shown, Shown', NEW d \in Caller,
           completions \in [Caller -> Nat],
           pc[d] # "idle" /\ completions[d] = 0 /\ result'[d] = d /\ completions'[d] = 1,
           \A c \in Caller \ {d} : result'[c] = result[c] /\ completions'[c] = completions[c],
           \A c \in Caller : pc'[c] = "idle" <=> pc[c] = "idle",
           UNCHANGED <<unsent, handled, conn>>
    PROVE  Service!Reply(d)
<1>1. OutcomeOf(d) = "active" /\ OutcomeOf(d)' = "reply"
    BY DEF Shown
<1>2. \A c \in Caller \ {d} : OutcomeOf(c)' = OutcomeOf(c)
    BY DEF Shown
<1> QED
    BY <1>1, <1>2, Zenon DEF Service!Reply

(* A step that changes no result shows none. *)
LEMMA SameOutcomes ==
    ASSUME Shown, Shown', UNCHANGED <<result, completions>>,
           \A c \in Caller : pc'[c] = "idle" <=> pc[c] = "idle"
    PROVE  [c \in Caller |-> OutcomeOf(c)]' = [c \in Caller |-> OutcomeOf(c)]
<1>1. \A c \in Caller : OutcomeOf(c)' = OutcomeOf(c)
    BY DEF Shown
<1> QED
    BY <1>1

(* The steps of a call. *)
LEMMA CallShows ==
    ASSUME NamesApart, RpcInv, Shown, Shown', NEW c \in Caller, Go(c) \/ Send(c)
    PROVE  [Service!Next]_(Service!vars)
<1> USE DEF codecVars, wireVars
<1>0. /\ pc \in [Caller -> {"idle", "lock", "register", "write", "unregister", "wait", "done"}]
      /\ completions \in [Caller -> Nat] /\ pending \in [DOMAIN pending -> Caller]
      /\ "error" \notin Caller
      /\ \A d \in Caller : pc[d] \in Unregistered => completions[d] = 0
      /\ \A s \in DOMAIN pending : pc[pending[s]] \notin Unregistered /\ (~shutdown => completions[pending[s]] = 0)
    BY DEF RpcInv, CallsInv, ClientTypeOK, PendingWait, NamesApart
<1>1. CASE Go(c)
    <2>1. /\ pc[c] = "idle" /\ pc' = [pc EXCEPT ![c] = "lock"]
          /\ UNCHANGED <<result, completions, unsent, handled, conn>>
        BY <1>1 DEF Go
    <2>2. OutcomeOf(c) = "none" /\ OutcomeOf(c)' = "active"
        BY <1>0, <2>1 DEF Shown, Unregistered
    <2>3. \A d \in Caller \ {c} : OutcomeOf(d)' = OutcomeOf(d)
        BY <1>0, <2>1 DEF Shown
    <2>4. Service!Begin(c)
        BY <2>1, <2>2, <2>3, Zenon DEF Service!Begin
    <2> QED
        BY <2>4 DEF Service!Next
<1>2. ASSUME SendLock(c) \/ SendWrite(c) \/ Return(c) \/ SendRegister(c) \/ SendFailed(c)
      PROVE  /\ \A d \in Caller : pc'[d] = "idle" <=> pc[d] = "idle"
             /\ UNCHANGED <<unsent, handled, conn>>
    BY <1>0, <1>2 DEF SendLock, SendWrite, Return, SendRegister, SendFailed
<1>3. ASSUME SendLock(c) \/ SendWrite(c) \/ Return(c) \/ SendRegister(c) \/ SendFailed(c),
             UNCHANGED <<result, completions>>
      PROVE  [Service!Next]_(Service!vars)
    <2>1. [d \in Caller |-> OutcomeOf(d)]' = [d \in Caller |-> OutcomeOf(d)]
        BY <1>2, <1>3, SameOutcomes
    <2> QED
        BY <1>2, <1>3, <2>1 DEF Service!vars
<1>4. ASSUME SendRegister(c) \/ SendFailed(c), NEW d \in Caller, pc[d] # "idle", completions[d] = 0,
             done({d}, Fails)
      PROVE  [Service!Next]_(Service!vars)
    <2>1. /\ result'[d] = "error" /\ completions'[d] = 1
          /\ \A e \in Caller \ {d} : result'[e] = result[e] /\ completions'[e] = completions[e]
        BY <1>0, <1>4 DEF done, Fails, RpcInv, CallsInv, ClientTypeOK
    <2>2. {d} \in SUBSET Caller
        OBVIOUS
    <2>3. Service!Fail({d})
        BY <1>0, <1>2, <1>4, <2>1, <2>2, EndsFail, Zenon
    <2> QED
        BY <2>2, <2>3, Zenon DEF Service!Next
<1>5. CASE SendLock(c) \/ SendWrite(c) \/ Return(c)
    BY <1>3, <1>5, Zenon DEF SendLock, SendWrite, Return
<1>6. CASE SendRegister(c)
    <2>1. pc[c] = "register" /\ (done({c}, Fails) \/ UNCHANGED <<result, completions>>)
        BY <1>6 DEF SendRegister
    <2>2. pc[c] # "idle" /\ completions[c] = 0
        BY <1>0, <2>1 DEF Unregistered
    <2> QED
        BY <1>3, <1>4, <1>6, <2>1, <2>2, Zenon
<1>7. CASE SendFailed(c)
    <2>1. ~shutdown
        BY <1>7, Zenon DEF SendFailed, RpcInv, CallsInv, OneSends
    <2>2. \/ seq - 1 \in DOMAIN pending /\ done({pending[seq - 1]}, Fails)
          \/ UNCHANGED <<result, completions>>
        BY <1>7, Zenon DEF SendFailed
    <2>3. \A s \in DOMAIN pending : pending[s] \in Caller /\ pc[pending[s]] # "idle" /\ completions[pending[s]] = 0
        BY <1>0, <2>1, Zenon DEF Unregistered
    <2> QED
        BY <1>3, <1>4, <1>7, <2>2, <2>3, Zenon
<1> QED
    BY <1>1, <1>5, <1>6, <1>7, Zenon DEF Send

(* The steps of readLoop that complete calls. *)
LEMMA ReaderShows ==
    ASSUME NamesApart, RpcInv, Shown, Shown', readResponse \/ Terminate
    PROVE  [Service!Next]_(Service!vars)
<1>0. /\ completions \in [Caller -> Nat] /\ pending \in [DOMAIN pending -> Caller] /\ "error" \notin Caller
      /\ \A s \in DOMAIN pending : pc[pending[s]] # "idle" /\ (~shutdown => completions[pending[s]] = 0)
    BY Zenon DEF RpcInv, CallsInv, ClientTypeOK, PendingWait, NamesApart, Unregistered
<1>1. UNCHANGED <<pc, unsent, handled, conn>>
    BY Zenon DEF readResponse, Terminate, wireVars
<1>2. CASE readResponse
    <2> DEFINE m == Head(fromServer)
               res == [c \in Caller |-> IF m.error = "" THEN m.caller ELSE "error"]
    <2>1. /\ ~shutdown
          /\ \/ UNCHANGED <<pending, result, completions>>
             \/ /\ m.id \in DOMAIN pending /\ pending[m.id] \in Caller
                /\ res[pending[m.id]] \in {pending[m.id], "error"}
                /\ done({pending[m.id]}, res)
        BY <1>2, ResponseRead, Zenon DEF RpcInv
    <2> HIDE DEF m, res
    <2>2. CASE UNCHANGED <<pending, result, completions>>
        <3>1. [d \in Caller |-> OutcomeOf(d)]' = [d \in Caller |-> OutcomeOf(d)]
            BY <1>1, <2>2, SameOutcomes
        <3> QED
            BY <1>1, <3>1, Zenon DEF Service!vars
    <2>3. CASE /\ m.id \in DOMAIN pending /\ pending[m.id] \in Caller
               /\ res[pending[m.id]] \in {pending[m.id], "error"}
               /\ done({pending[m.id]}, res)
        <3> DEFINE d == pending[m.id]
        <3>1. /\ d \in Caller /\ pc[d] # "idle" /\ completions[d] = 0
            BY <1>0, <2>1, <2>3, Zenon
        <3>2. /\ result'[d] = res[d] /\ completions'[d] = 1
              /\ \A e \in Caller \ {d} : result'[e] = result[e] /\ completions'[e] = completions[e]
            BY <1>0, <2>3, <3>1 DEF done
        <3>3. res[d] = d \/ res[d] = "error"
            BY <2>3
        <3> HIDE DEF d
        <3>4. CASE res[d] = d
            <4>1. Service!Reply(d)
                BY <1>0, <1>1, <3>1, <3>2, <3>4, EndsReply, Zenon
            <4> QED
                BY <3>1, <4>1 DEF Service!Next
        <3>5. CASE res[d] = "error"
            <4>1. {d} \in SUBSET Caller
                BY <3>1
            <4>2. Service!Fail({d})
                BY <1>0, <1>1, <3>1, <3>2, <3>5, <4>1, EndsFail, Zenon
            <4> QED
                BY <4>1, <4>2 DEF Service!Next
        <3> QED
            BY <3>3, <3>4, <3>5, Zenon
    <2> QED
        BY <2>1, <2>2, <2>3
<1>3. CASE Terminate
    <2>1. ~shutdown /\ done(PendingCalls, Fails)
        BY <1>3 DEF Terminate, RpcInv, CallsInv, OneSends
    <2>2. /\ PendingCalls \in SUBSET Caller
          /\ \A c \in PendingCalls : pc[c] # "idle" /\ completions[c] = 0
        BY <1>0, <2>1 DEF PendingCalls
    <2>3. /\ \A c \in PendingCalls : result'[c] = "error" /\ completions'[c] = 1
          /\ \A c \in Caller \ PendingCalls : result'[c] = result[c] /\ completions'[c] = completions[c]
        BY <1>0, <2>1, <2>2 DEF done, Fails
    <2>4. Service!Fail(PendingCalls)
        BY <1>0, <1>1, <2>2, <2>3, EndsFail, Zenon
    <2> QED
        BY <2>2, <2>4, Zenon DEF Service!Next
<1> QED
    BY <1>2, <1>3

(* The other steps: requests are sent and handled, the connection fails, or nothing shows. *)
LEMMA PeerShows ==
    ASSUME NamesApart, RpcInv, Shown, Shown', Aside \/ TerminateLock, [Next]_vars
    PROVE  [Service!Next]_(Service!vars)
<1> USE DEF clientVars, codecVars, wireVars
<1>1. UNCHANGED <<pc, result, completions>>
    BY DEF Aside, TerminateLock, CallVars
<1>2. [d \in Caller |-> OutcomeOf(d)]' = [d \in Caller |-> OutcomeOf(d)]
    BY <1>1, SameOutcomes
<1>3. ASSUME UNCHANGED <<unsent, handled, conn>> PROVE [Service!Next]_(Service!vars)
    BY <1>2, <1>3 DEF Service!vars
<1>4. ASSUME NEW r \in unsent, PeerSends(r) PROVE [Service!Next]_(Service!vars)
    <2>1. r \in Incoming
        BY DEF RpcInv, CallsInv, WireTypeOK
    <2>2. Service!Send(r)
        BY <1>2, <1>4 DEF PeerSends, Service!Send
    <2> QED
        BY <2>1, <2>2 DEF Service!Next
<1>5. ASSUME NEW g \in running, handlerRun(g) PROVE [Service!Next]_(Service!vars)
    <2>1. g.req \in Incoming /\ g.req \notin unsent
        BY DEF RpcInv, CallsInv, WireTypeOK, PeerInv, OnePlace, InHand
    <2>2. Service!Handle(g.req)
        BY <1>2, <1>5, <2>1 DEF handlerRun, Service!Handle
    <2> QED
        BY <2>1, <2>2, Zenon DEF Service!Next
<1>6. CASE CloseCodec \/ Break
    <2>1. Service!Break
        BY <1>2, <1>6, Zenon DEF CloseCodec, Break, Service!Break
    <2> QED
        BY <2>1 DEF Service!Next
<1>7. CASE \E g \in running : WriteResponse(g)
    BY <1>3, <1>7, Zenon DEF WriteResponse
<1>8. CASE \E m \in serving : Answers(m)
    BY <1>3, <1>8, Zenon DEF Answers, PeerAnswers
<1>9. CASE Close \/ ReadLoop \/ PeerReads \/ UNCHANGED vars
    BY <1>3, <1>9, Zenon DEF Close, ReadLoop, ReadFails, readResponse, readRequest, TerminateLock, Terminate,
        CloseDisconnect, PeerReads, vars
<1>10. ASSUME NEW c \in Caller, Go(c) \/ Send(c) PROVE [Service!Next]_(Service!vars)
    BY <1>10, CallShows
<1> QED
    BY <1>4, <1>5, <1>6, <1>7, <1>8, <1>9, <1>10, Zenon DEF Next, Handlers

LEMMA ServiceShows ==
    ASSUME NamesApart, RpcInv, Shown, Shown', [Next]_vars
    PROVE  [Service!Next]_(Service!vars)
    BY CallSteps, CallShows, ReaderShows, PeerShows

(* rpc2.Client: a call gets exactly one outcome, the reply to its own request or an error,
   whatever calls, replies, Close and the end of the connection do to each other; a request of
   the peer reaches its handler at most once. *)
THEOREM CallsServed == ASSUME NamesApart PROVE Spec => Service!Spec
<1>1. Init => RpcInv
    BY RpcInit
<1>2. RpcInv /\ [Next]_vars => RpcInv'
    BY RpcStep
<1>3. RpcInv => Shown
    BY ShownHolds
<1>4. Init => Service!Init
    <2>1. ASSUME Init PROVE Service!Init
        <3>1. Shown
            BY <1>1, <1>3, <2>1, Zenon
        <3>2. \A c \in Caller : OutcomeOf(c) = "none"
            BY <2>1, <3>1 DEF Shown, Init, NewClientWithCodec
        <3> QED
            BY <2>1, <3>2 DEF Service!Init, Init, NewJSONCodec, Dialled
    <2> QED
        BY <2>1
<1>5. RpcInv /\ Shown /\ Shown' /\ [Next]_vars => [Service!Next]_(Service!vars)
    BY ServiceShows
<1> QED
    BY <1>1, <1>2, <1>3, <1>4, <1>5, PTL DEF Spec, Service!Spec
=============================================================================
