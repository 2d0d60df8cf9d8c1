---- MODULE PluginServer ----
(* The plugin as a server: the start of the listener on a unix socket or a TCP address
   (dknet, docker/pkg/sockets, docker/pkg/listenbuffer), the requests it answers, and the
   end and restart of the process. The kernel's sockets and files, the clients and the
   operator who starts the plugin again are external. *)
EXTENDS Naturals, FiniteSets, TLC

CONSTANTS Clients,
          Kinds,        \* Clients -> {"root", "member" of the group, "other"}
          MaxStarts,    \* starts of the process
          MaxFails      \* system calls that fail

VARIABLES proto,     \* "unix" or "tcp"
          file,      \* the socket file, or the spec file of a TCP plugin
          umask,     \* "normal" or "all" (0777)
          pc,        \* where the process is
          starts, fails,
          ready,     \* the listen buffer is active
          client     \* client |-> [at, start, body]: its connection

vars == <<proto, file, umask, pc, starts, fails, ready, client>>

NoFile == [kind |-> "none", start |-> 0, group |-> FALSE, mode |-> "none"]
Idle == [at |-> "idle", start |-> 0, body |-> "good"]
Down == {"down", "crashed"}
Answers == {"200", "400", "500", "eof"}

----------------------------------------------------------------------------
(* The process ends: the kernel closes its connections and a listener's queue. *)
Dropped == [c \in Clients |-> IF client[c].at \in {"queued", "handling", "decoded"} THEN [client[c] EXCEPT !.at = "eof"] ELSE client[c]]
Exit(to) == pc' = to /\ umask' = "normal" /\ ready' = FALSE /\ client' = Dropped /\ UNCHANGED <<proto, starts>>

(* A system call of the start fails: the error goes up to listenAndServe, which returns it,
   and Run ends. With the listener open it is closed, which unlinks its socket. *)
Closes == IF file.kind = "socket" /\ file.start = starts THEN NoFile ELSE file
StartFails ==
    /\ pc \in {"dir", "unlink", "listen", "group", "chmod", "spec"} /\ fails < MaxFails
    /\ fails' = fails + 1
    /\ file' = (IF pc \in {"group", "chmod"} THEN Closes ELSE file)
    /\ Exit("down")

At(a, b) == pc = a /\ pc' = b
Start ==
    /\ starts < MaxStarts /\ starts' = starts + 1
    /\ pc \in Down /\ pc' = (IF proto = "unix" THEN "dir" ELSE "listen")
    /\ UNCHANGED <<proto, file, umask, fails, ready, client>>

(* newUnixListener, NewUnixSocket. *)
Others(v) == UNCHANGED <<proto, starts, fails, client>> /\ UNCHANGED v
MkdirAll == At("dir", "unlink") /\ Others(<<file, umask, ready>>)
NoUnlink == file      \* mutant
Unlinked == NoFile
Unlink == At("unlink", "umask") /\ file' = Unlinked /\ Others(<<umask, ready>>)
KeepUmask == umask      \* mutant
SetUmask == "all"
Umask == At("umask", "listen") /\ umask' = SetUmask /\ Others(<<file, ready>>)
(* Binding to a name that exists fails. *)
ListenUnix ==
    /\ proto = "unix" /\ pc = "listen" /\ UNCHANGED fails
    /\ IF file.kind # "none" THEN UNCHANGED file /\ Exit("down")
       ELSE /\ At("listen", "group")
            /\ file' = [kind |-> "socket", start |-> starts, group |-> FALSE, mode |-> IF umask = "all" THEN "none" ELSE "open"]
            /\ Others(<<umask, ready>>)
setSocketGroup == At("group", "chmod") /\ file' = [file EXCEPT !.group = TRUE] /\ Others(<<umask, ready>>)
Chmod == At("chmod", "restore") /\ file' = [file EXCEPT !.mode = "0660"] /\ Others(<<umask, ready>>)
Restore == At("restore", "activate") /\ umask' = "normal" /\ Others(<<file, ready>>)

(* newTCPListener, writeSpec. *)
ListenTcp == proto = "tcp" /\ At("listen", "spec") /\ Others(<<file, umask, ready>>)
writeSpec ==
    /\ At("spec", "activate")
    /\ file' = [kind |-> "spec", start |-> starts, group |-> FALSE, mode |-> "0644"]
    /\ Others(<<umask, ready>>)

(* listenAndServe closes the channel start, and the first Accept lets the others pass. *)
Activate == At("activate", "serve") /\ ready' = TRUE /\ Others(<<file, umask>>)

(* Serve returns with an error of Accept: the listener closes and the file is removed. *)
ServeEnds ==
    /\ pc = "serve" /\ fails < MaxFails /\ fails' = fails + 1
    /\ file' = NoFile
    /\ Exit("down")
Crash ==
    /\ pc \notin Down /\ fails < MaxFails /\ fails' = fails + 1
    /\ UNCHANGED file
    /\ Exit("crashed")

----------------------------------------------------------------------------
(* Clients. A connection waits in the queue of the listener until it is accepted. *)
Listening == IF proto = "unix" THEN pc \in {"group", "chmod", "restore", "activate", "serve"} ELSE pc \in {"spec", "activate", "serve"}
MayOpen(c) == \/ Kinds[c] = "root" \/ file.mode \in {"open", "0644"}
              \/ file.mode = "0660" /\ file.group /\ Kinds[c] = "member"
Connect(c) ==
    /\ client[c].at \in {"idle", "eof"} /\ Listening
    /\ file.kind \in {"socket", "spec"} /\ file.start = starts /\ MayOpen(c)
    /\ \E b \in {"good", "bad"} : client' = [client EXCEPT ![c] = [at |-> "queued", start |-> starts, body |-> b]]
    /\ UNCHANGED <<proto, file, umask, pc, starts, fails, ready>>

Step(c, from, to) ==
    /\ client[c].at = from /\ client' = [client EXCEPT ![c].at = to]
    /\ UNCHANGED <<proto, file, umask, pc, starts, fails, ready>>
Accept(c) == pc = "serve" /\ ready /\ Step(c, "queued", "handling")

(* The handlers of initMux: a request that does not decode is answered with 400 and goes no
   further; else the driver is called and its error or result is the answer. A panic ends
   the connection: net/http recovers it. *)
Decode(c) == Step(c, "handling", IF client[c].body = "bad" THEN "400" ELSE "decoded")
Answer(r) == CASE r = "ok" -> "200" [] r = "err" -> "500" [] r = "panic" -> "eof"
Call(c) == \E r \in {"ok", "err", "panic"} : Step(c, "decoded", Answer(r))

Init ==
    /\ proto \in {"unix", "tcp"}
    /\ file \in {NoFile, [NoFile EXCEPT !.kind = "plain"]}     \* install.sh touches the socket's name
    /\ umask = "normal" /\ pc = "down" /\ starts = 0 /\ fails = 0 /\ ready = FALSE
    /\ client = [c \in Clients |-> Idle]

Serving == \E c \in Clients : Accept(c) \/ Decode(c) \/ Call(c)
Starting ==
    \/ MkdirAll \/ Unlink \/ Umask \/ ListenUnix \/ setSocketGroup \/ Chmod \/ Restore
    \/ ListenTcp \/ writeSpec \/ Activate
Next ==
    \/ Start \/ Starting \/ StartFails \/ ServeEnds \/ Crash
    \/ \E c \in Clients : Connect(c)
    \/ Serving

Spec == Init /\ [][Next]_vars

----------------------------------------------------------------------------
(* NewUnixSocket: between its creation and the change of its mode the socket can be opened
   by nobody but root, and after it only by members of the group; no handler runs with the
   umask of the start. *)
OnlyTheGroup ==
    /\ proto = "unix" => \A c \in Clients : client[c].at = "queued" /\ Kinds[c] # "root" => Kinds[c] = "member" /\ file.group
    /\ \A c \in Clients : client[c].at \in {"handling", "decoded"} => umask = "normal"

(* The plugin serves in the end, whatever a crash, a failed start or install.sh left at the
   name of its socket, if few enough system calls fail. A client that connects, be it before
   the plugin is ready, gets an answer or sees the end of its connection. *)
ServesInTheEnd ==
    /\ <>[](pc = "serve")
    /\ \A c \in Clients : client[c].at = "queued" ~> client[c].at \in Answers

----------------------------------------------------------------------------
(* The inductive invariant behind OnlyTheGroup: a unix socket is made and opened to the group
   under the umask of the start, and who waits for the listener is gone when it is. *)
Files == [kind : {"none", "plain", "socket", "spec"}, start : Nat, group : BOOLEAN,
          mode : {"none", "open", "0660", "0644"}]
Connections == [at : {"idle", "queued", "handling", "decoded"} \cup Answers, start : Nat, body : {"good", "bad"}]
StartSteps == IF proto = "unix"
              THEN {"dir", "unlink", "umask", "listen", "group", "chmod", "restore", "activate", "serve"}
              ELSE {"listen", "spec", "activate", "serve"}
ServerTypeOK ==
    /\ proto \in {"unix", "tcp"} /\ umask \in {"normal", "all"} /\ starts \in Nat
    /\ pc \in Down \cup StartSteps
    /\ file \in Files /\ client \in [Clients -> Connections]
Masked == umask = IF proto = "unix" /\ pc \in {"listen", "group", "chmod", "restore"} THEN "all" ELSE "normal"
SocketMode ==
    proto = "unix" => /\ file.mode \in {"none", "0660"} /\ (file.mode = "0660" => file.group)
                      /\ pc \in {"chmod", "restore", "activate", "serve"} => file.group
Waiting(c) ==
    /\ client[c].at = "queued" => Listening
    /\ client[c].at \in {"handling", "decoded"} => pc = "serve"
    /\ proto = "unix" /\ client[c].at = "queued" /\ Kinds[c] # "root" => Kinds[c] = "member" /\ file.group
ServerInv == ServerTypeOK /\ Masked /\ SocketMode /\ \A c \in Clients : Waiting(c)
====
