---- MODULE DbusAuth ----
(* SystemBus: how a shared connection to the bus comes about. Callers take turns under
   systemBusLck; the one that finds no connection dials, authenticates (Auth, tryAuth and the
   mechanisms), and says Hello. The bus is external: it follows the authentication protocol
   as far as the client relies on it. A line is <<command, number of further fields>>. *)
EXTENDS Naturals, Sequences

CONSTANTS Callers,      \* goroutines that call SystemBus once
          Offers,       \* lists of mechanisms a bus may offer
          UnixFDs,      \* what transport.SupportsUnixFDs() can return
          OkFields,     \* number of fields the bus may put after OK
          MayFail       \* connections can be refused and lost

VARIABLES caller,       \* caller |-> "idle", "in", "got", "failed"
          lock,         \* holder of systemBusLck, or {}
          systemBus,    \* the shared connection: 0 is nil
          open, count,  \* connections not closed; connections dialled
          pc,           \* where the holder is
          attempts,     \* mechanisms still to try
          state,        \* authState of tryAuth
          cookie,       \* the keyring has the cookie the bus asks for
          unixFD,       \* conn.unixFD
          toBus, toMe,  \* lines under way
          bus           \* [at: state of the bus, offer: its mechanisms, fd: it has agreed to pass descriptors]

auth == <<attempts, state, cookie, unixFD>>
shared == <<caller, lock, systemBus, open, count>>
vars == <<shared, auth, pc, toBus, toMe, bus>>

methods == {"EXTERNAL", "DBUS_COOKIE_SHA1"}
FirstData(m) == IF m = "EXTERNAL" THEN "waitingForOk" ELSE "waitingForData"
HandleData == IF cookie THEN "AuthOk" ELSE "AuthError"

----------------------------------------------------------------------------
(* The holder of the lock returns: with a connection or, after Close, with an error. *)
Return(result, keep) ==
    /\ caller' = [c \in Callers |-> IF c \in lock THEN result ELSE caller[c]]
    /\ lock' = {} /\ systemBus' = keep /\ pc' = "none"
Fail == Return("failed", systemBus) /\ open' = open \ {count}

SystemBus(c) ==
    /\ caller[c] = "idle" /\ lock = {}
    /\ \/ systemBus # 0 /\ caller' = [caller EXCEPT ![c] = "got"] /\ UNCHANGED <<lock, pc>>
       \/ systemBus = 0 /\ caller' = [caller EXCEPT ![c] = "in"] /\ lock' = {c} /\ pc' = "dial"
    /\ UNCHANGED <<systemBus, open, count, auth, toBus, toMe, bus>>
Dial ==
    /\ pc = "dial" /\ pc' = "auth"
    /\ count' = count + 1 /\ open' = open \cup {count'}
    /\ \E offer \in Offers : bus' = [at |-> "auth", offer |-> offer, fd |-> FALSE]
    /\ cookie' \in BOOLEAN /\ attempts' = <<>> /\ unixFD' = FALSE
    /\ toBus' = <<>> /\ toMe' = <<>> /\ UNCHANGED <<caller, lock, systemBus, state>>
DialFails ==
    /\ MayFail /\ pc = "dial" /\ Return("failed", systemBus)
    /\ UNCHANGED <<open, count, auth, toBus, toMe, bus>>
(* A read, a write or the call of Hello fails. *)
Lost ==
    /\ MayFail /\ pc \notin {"none", "dial"} /\ Fail
    /\ UNCHANGED <<count, auth, toBus, toMe, bus>>

authWriteLine(line) == toBus' = Append(toBus, line)
authReadLine == toMe # <<>> /\ toMe' = Tail(toMe)
Cmd == Head(toMe)[1]
Fields == Head(toMe)[2]

(* Auth *)
AskMechanisms ==
    /\ pc = "auth" /\ authWriteLine(<<"AUTH", 0>>) /\ pc' = "list"
    /\ UNCHANGED <<shared, auth, toMe, bus>>
ReadMechanisms ==
    /\ pc = "list" /\ authReadLine
    /\ IF Cmd = "REJECTED" /\ Fields >= 1
       THEN attempts' = bus.offer /\ pc' = "next" /\ UNCHANGED shared
       ELSE Fail /\ UNCHANGED <<count, attempts>>
    /\ UNCHANGED <<state, cookie, unixFD, toBus, bus>>
Unknown ==
    /\ pc = "next" /\ attempts # <<>> /\ Head(attempts) \notin methods
    /\ attempts' = Tail(attempts)
    /\ UNCHANGED <<shared, pc, state, cookie, unixFD, toBus, toMe, bus>>
TryNext ==
    /\ pc = "next" /\ attempts # <<>> /\ Head(attempts) \in methods
    /\ authWriteLine(<<Head(attempts), 1>>) /\ state' = FirstData(Head(attempts))
    /\ attempts' = Tail(attempts) /\ pc' = "try"
    /\ UNCHANGED <<shared, cookie, unixFD, toMe, bus>>
NoneLeft ==
    /\ pc = "next" /\ attempts = <<>> /\ Fail
    /\ UNCHANGED <<count, auth, toBus, toMe, bus>>

(* tryAuth: what it makes of a line, as <<line to write or "", next state, next pc>>. After an
   OK without its one field it writes CANCEL and goes on as if it had not; without any field
   it reads s[1] out of range. *)
DataError == <<"ERROR", "waitingForData", "try">>
NotRead == "next"      \* mutant: does not wait for REJECTED
AfterCancel == "try"
AcceptOk(n) == <<IF n = 1 THEN "" ELSE "CANCEL", "waitingForReject", IF n = 0 THEN "panic" ELSE "ok">>
OnLine(st, cmd, n) ==
    CASE st = "waitingForData" /\ cmd = "DATA" ->
            IF n # 1 THEN <<"ERROR", st, "try">>
            ELSE IF HandleData = "AuthOk" THEN <<"DATA", "waitingForOk", "try">> ELSE DataError
      [] cmd = "REJECTED" -> <<"", st, "next">>
      [] st = "waitingForReject" /\ cmd # "REJECTED" -> <<"", st, "err">>
      [] st # "waitingForReject" /\ cmd = "OK" -> AcceptOk(n)
      [] \/ st = "waitingForData" /\ cmd = "ERROR"
         \/ st = "waitingForOk" /\ cmd \in {"DATA", "ERROR"} -> <<"CANCEL", "waitingForReject", AfterCancel>>
      [] OTHER -> <<"ERROR", st, "try">>
tryAuth ==
    /\ pc = "try" /\ authReadLine
    /\ LET r == OnLine(state, Cmd, Fields) IN
        /\ IF r[1] = "" THEN UNCHANGED toBus ELSE authWriteLine(<<r[1], IF r[1] = "DATA" THEN 1 ELSE 0>>)
        /\ state' = r[2]
        /\ IF r[3] = "err" THEN Fail /\ UNCHANGED count ELSE pc' = r[3] /\ UNCHANGED shared
    /\ UNCHANGED <<attempts, cookie, unixFD, bus>>

Negotiate ==
    /\ pc = "ok"
    /\ \/ TRUE \in UnixFDs /\ authWriteLine(<<"NEGOTIATE_UNIX_FD", 0>>) /\ pc' = "fd"
       \/ FALSE \in UnixFDs /\ pc' = "begin" /\ UNCHANGED toBus
    /\ UNCHANGED <<shared, auth, toMe, bus>>
Agreed(cmd) == cmd = "AGREE_UNIX_FD"
ReadAgreement ==
    /\ pc = "fd" /\ authReadLine
    /\ IF Cmd \in {"AGREE_UNIX_FD", "ERROR"}
       THEN unixFD' = Agreed(Cmd) /\ pc' = "begin" /\ UNCHANGED shared
       ELSE Fail /\ UNCHANGED <<count, unixFD>>
    /\ UNCHANGED <<attempts, state, cookie, toBus, bus>>
Begin ==
    /\ pc = "begin" /\ authWriteLine(<<"BEGIN", 0>>) /\ pc' = "hello"
    /\ UNCHANGED <<shared, auth, toMe, bus>>
Hello ==
    /\ pc = "hello" /\ bus.at = "up" /\ Return("got", count)
    /\ UNCHANGED <<open, count, auth, toBus, toMe, bus>>

----------------------------------------------------------------------------
(* The bus: its answers to a line, as <<line, next state>>; it may refuse any mechanism, ask
   for data, and decline descriptors. *)
Rejected == <<<<"REJECTED", Len(bus.offer)>>, "auth">>
Oks == {<<<<"OK", n>>, "begin">> : n \in OkFields}
Answers(cmd) ==
    CASE cmd \in {"AUTH", "CANCEL", "ERROR"} -> {Rejected}
      [] cmd = "EXTERNAL" -> {Rejected, <<<<"DATA", 0>>, "data">>} \cup Oks
      [] cmd = "DBUS_COOKIE_SHA1" -> {Rejected} \cup {<<<<"DATA", n>>, "data">> : n \in {0, 1}}
      [] cmd = "DATA" -> {Rejected} \cup Oks
      [] cmd = "NEGOTIATE_UNIX_FD" /\ bus.at = "begin" -> {<<<<c, 0>>, "begin">> : c \in {"AGREE_UNIX_FD", "ERROR"}}
      [] OTHER -> {<<<<"ERROR", 0>>, bus.at>>}
BusAnswers ==
    /\ toBus # <<>> /\ Head(toBus)[1] # "BEGIN" /\ toBus' = Tail(toBus)
    /\ \E a \in Answers(Head(toBus)[1]) :
        /\ toMe' = Append(toMe, a[1])
        /\ bus' = [bus EXCEPT !.at = a[2], !.fd = a[1][1] = "AGREE_UNIX_FD"]
    /\ UNCHANGED <<shared, auth, pc>>
BusBegins ==
    /\ toBus # <<>> /\ Head(toBus)[1] = "BEGIN" /\ bus.at = "begin"
    /\ toBus' = Tail(toBus) /\ bus' = [bus EXCEPT !.at = "up"]
    /\ UNCHANGED <<shared, auth, pc, toMe>>

Init ==
    /\ caller = [c \in Callers |-> "idle"] /\ lock = {} /\ systemBus = 0 /\ open = {} /\ count = 0
    /\ pc = "none" /\ attempts = <<>> /\ state = "waitingForData" /\ cookie = FALSE /\ unixFD = FALSE
    /\ toBus = <<>> /\ toMe = <<>>
    /\ bus = [at |-> "auth", offer |-> <<>>, fd |-> FALSE]
Holder == \/ Dial \/ AskMechanisms \/ ReadMechanisms \/ Unknown \/ TryNext \/ NoneLeft \/ tryAuth
          \/ Negotiate \/ ReadAgreement \/ Begin \/ Hello
Bus == BusAnswers \/ BusBegins
Next == Holder \/ Bus \/ DialFails \/ Lost \/ \E c \in Callers : SystemBus(c)
Spec == Init /\ [][Next]_vars
----------------------------------------------------------------------------
(* The two sides stay in step. Auth goes to the next mechanism only when the bus waits for one
   and no line is under way: an answer to one attempt is never read as the answer to another.
   After BEGIN both agree whether descriptors are passed, and `in`, the buffered reader of
   Auth, holds nothing that inWorker would miss. *)
InStep ==
    /\ pc = "next" => bus.at = "auth" /\ toBus = <<>> /\ toMe = <<>>
    /\ pc = "hello" => unixFD = bus.fd /\ toMe = <<>>

----------------------------------------------------------------------------
(* The inductive invariant behind InStep: at most one line is under way, and where the holder
   waits it is the question of this step or the answer to it. *)
Quiet == toBus = <<>> /\ toMe = <<>>
Only(lines, C) == lines # <<>> /\ lines = <<lines[1]>> /\ lines[1][1] \in C
Asked(C) == toMe = <<>> /\ Only(toBus, C)
Told(C) == toBus = <<>> /\ Only(toMe, C)
Listing == bus.at = "auth" /\ (Asked({"AUTH"}) \/ Told({"REJECTED"}))
Asking ==
    \/ state = "waitingForOk" /\ Asked({"EXTERNAL", "DATA"})
    \/ state = "waitingForData" /\ Asked({"DBUS_COOKIE_SHA1", "ERROR"})
    \/ state = "waitingForReject" /\ Asked({"CANCEL"})
Answered ==
    \/ bus.at = "auth" /\ Told({"REJECTED"})
    \/ bus.at = "data" /\ Told({"DATA"}) /\ state # "waitingForReject"
    \/ bus.at = "begin" /\ Told({"OK"}) /\ toMe[1][2] = 1 /\ state # "waitingForReject"
Negotiating ==
    /\ bus.at = "begin"
    /\ Asked({"NEGOTIATE_UNIX_FD"}) \/ Told({IF bus.fd THEN "AGREE_UNIX_FD" ELSE "ERROR"})
AuthInv ==
    /\ pc \in {"none", "dial", "auth", "list", "next", "try", "ok", "fd", "begin", "hello"}
    /\ bus = [at |-> bus.at, offer |-> bus.offer, fd |-> bus.fd] /\ bus.fd \in BOOLEAN /\ unixFD \in BOOLEAN
    /\ pc \in {"auth", "next"} => bus.at = "auth" /\ Quiet
    /\ pc = "list" => Listing
    /\ pc = "try" => state \in {"waitingForData", "waitingForOk", "waitingForReject"} /\ (Asking \/ Answered)
    /\ pc = "ok" => bus.at = "begin" /\ Quiet
    /\ pc \in {"auth", "list", "next", "try", "ok"} => ~unixFD /\ ~bus.fd
    /\ pc = "fd" => Negotiating
    /\ pc = "begin" => bus.at = "begin" /\ Quiet /\ unixFD = bus.fd
    /\ pc = "hello" => toMe = <<>> /\ unixFD = bus.fd /\ (toBus = <<>> \/ Only(toBus, {"BEGIN"}))
====
