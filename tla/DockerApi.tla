---- MODULE DockerApi ----
(* The requests of dockerclient: what each operation sends, which answers it takes
   for an error, and what becomes of the response body. An operation is a record:
     http     the method
     path     "api" (/v1.15/...), "old" (no version) or "wrong" (no such path)
     sends    its arguments go as JSON ("json"), as a stream or not at all ("none")
     how      "data" (doRequest), "stream" (doStreamRequest, the body is the caller's),
              "raw" (HTTPClient without a look at the status, the body is the caller's),
              "progress" (decodes objects to the end), "checked" (progress, status looked at)
     reply    "json" (decoded), "ignored" (decoded, the error is not looked at) or "none"
   The daemon is external: it may answer anything. *)
EXTENDS Naturals, Sequences, FiniteSets, SequencesExt

Op(http, path, sends, how, reply) ==
    [http |-> http, path |-> path, sends |-> sends, how |-> how, reply |-> reply]

Info == Op("GET", "api", "none", "data", "json")
ListContainers == Op("GET", "api", "none", "data", "json")
InspectContainer == Op("GET", "api", "none", "data", "json")
CreateContainer == Op("POST", "api", "json", "data", "json")
ContainerLogs == Op("GET", "api", "none", "raw", "none")
ContainerChanges == Op("GET", "api", "none", "data", "json")
ExecCreate == Op("POST", "api", "json", "data", "json")
ExecStart == Op("POST", "api", "json", "data", "none")
ExecResize == Op("POST", "wrong", "none", "data", "none")   \* the URL stands twice
AttachContainer == Op("POST", "api", "none", "stream", "none")
StartContainer == Op("POST", "api", "json", "data", "none")
StopContainer == Op("POST", "api", "none", "data", "none")
RestartContainer == Op("POST", "api", "none", "data", "none")
KillContainer == Op("POST", "api", "none", "data", "none")
Wait == Op("POST", "api", "none", "data", "json")
MonitorEvents == Op("GET", "api", "none", "raw", "none")
getStats == Op("GET", "api", "none", "raw", "none")
TagImage == Op("POST", "api", "none", "data", "none")
Version == Op("GET", "api", "none", "data", "json")
PushImage == Op("POST", "api", "none", "progress", "none")
PullImage == Op("POST", "api", "none", "checked", "none")
InspectImage == Op("GET", "api", "none", "data", "json")
LoadImage == Op("POST", "api", "stream", "data", "none")
RemoveContainer == Op("DELETE", "api", "none", "data", "none")
ListImages == Op("GET", "api", "none", "data", "json")
RemoveImage == Op("DELETE", "api", "none", "data", "json")
PauseContainer == Op("POST", "api", "none", "data", "none")
UnpauseContainer == Op("POST", "api", "none", "data", "none")
RenameContainer == Op("POST", "old", "none", "data", "none")
ImportImage == Op("POST", "old", "stream", "stream", "none")
BuildImage == Op("POST", "api", "stream", "stream", "none")
ListVolumes == Op("GET", "api", "none", "data", "json")
RemoveVolume == Op("DELETE", "api", "none", "data", "none")
CreateVolume == Op("POST", "api", "json", "data", "json")
(* With filters the query begins with "&", so it is part of the path. *)
ListNetworks(filters) == Op("GET", IF filters THEN "wrong" ELSE "api", "none", "data", "json")
InspectNetwork == Op("GET", "api", "none", "data", "json")
CreateNetwork == Op("POST", "api", "json", "data", "ignored")
ConnectNetwork == Op("POST", "api", "json", "data", "none")
DisconnectNetwork == Op("POST", "api", "json", "data", "none")
RemoveNetwork == Op("DELETE", "api", "none", "data", "none")

Ops ==
    {Info, ListContainers, InspectContainer, CreateContainer, ContainerLogs, ContainerChanges, ExecCreate,
     ExecStart, ExecResize, AttachContainer, StartContainer, StopContainer, RestartContainer,
     KillContainer, Wait, MonitorEvents, getStats, TagImage, Version, PushImage, PullImage, InspectImage, LoadImage,
     RemoveContainer, ListImages, RemoveImage, PauseContainer, UnpauseContainer, RenameContainer,
     ImportImage, BuildImage, ListVolumes, RemoveVolume, CreateVolume, ListNetworks(TRUE),
     ListNetworks(FALSE), InspectNetwork, CreateNetwork, ConnectNetwork, DisconnectNetwork, RemoveNetwork}

(* Bodies: read errors ("cut"), text, JSON, or the progress objects of a push or
   pull, each with or without a report of an error. *)
Progress == UNION {[1 .. n -> {"status", "error"}] : n \in 0 .. 2}
Text == {"text", "no such image", "json", "cut"}

VARIABLES
    op,         \* the operation that runs
    pc,         \* "idle" | "sent" | "answered" | "returned"
    status,     \* of the answer: 0 (none), 200, 404 or 500
    text, objects,      \* its body: one of Text, or progress objects
    body,       \* the response body: "none" | "open" | "closed" | "handed" to the caller
    result      \* "none" | "ok" | "error" | "not found" | "image not found"
vars == <<op, pc, status, text, objects, body, result>>

Init ==
    /\ op \in Ops /\ pc = "idle" /\ status = 0 /\ text = "cut" /\ objects = <<>>
    /\ body = "none" /\ result = "none"

Send == pc = "idle" /\ pc' = "sent" /\ UNCHANGED <<op, status, text, objects, body, result>>

(* The daemon: a path it does not have is not found. *)
Answer(s, t, os) ==
    /\ pc = "sent" /\ pc' = "answered" /\ body' = "open"
    /\ op.path = "wrong" => s = 404
    /\ (t = "progress") = (op.how \in {"progress", "checked"} /\ s = 200)
    /\ t # "progress" => os = <<>>
    /\ status' = s /\ text' = t /\ objects' = os /\ UNCHANGED <<op, result>>
NoAnswer ==
    /\ pc = "sent" /\ pc' = "returned" /\ result' = "error"
    /\ UNCHANGED <<op, status, text, objects, body>>

Returned(r, b) == pc' = "returned" /\ result' = r /\ body' = b /\ UNCHANGED <<op, status, text, objects>>

----
(* The status test of doStreamRequest, with the body closed on the way out. *)
Refused(s) == s >= 400

NotFound ==
    CASE text = "cut" -> "not found"
      [] text = "no such image" -> "image not found"
      [] OTHER -> "error"
doStreamRequestFails ==
    /\ pc = "answered" /\ op.how \in {"data", "stream"} /\ Refused(status)
    /\ Returned(IF status = 404 THEN NotFound ELSE "error", "closed")
doStreamRequest ==
    /\ pc = "answered" /\ op.how = "stream" /\ ~Refused(status)
    /\ Returned("ok", "handed")

(* doRequest reads the body to the end; the operation decodes it. *)
Decodes == op.reply = "json" => text = "json"
doRequest ==
    /\ pc = "answered" /\ op.how = "data" /\ ~Refused(status)
    /\ Returned(IF text # "cut" /\ Decodes THEN "ok" ELSE "error", "closed")

Raw == pc = "answered" /\ op.how = "raw" /\ Returned("ok", "handed")

(* The objects of a progress stream are decoded into one map, so a key of an
   earlier object is still there in the end. *)
LastReports == objects # <<>> /\ Last(objects) = "error"    \* mutant: a fresh map per object
Reports == \E i \in DOMAIN objects : objects[i] = "error"
pullStatus ==
    /\ pc = "answered" /\ op.how = "checked" /\ status >= 400
    /\ Returned(IF status = 404 THEN "not found" ELSE "error", "closed")
Progresses ==
    /\ pc = "answered" /\ (op.how = "progress" \/ (op.how = "checked" /\ status < 400))
    /\ Returned(IF (text = "progress" /\ ~Reports) \/ text = "json" THEN "ok" ELSE "error", "closed")

Next ==
    \/ Send \/ NoAnswer
    \/ \E s \in {200, 404, 500}, t \in Text \cup {"progress"}, os \in Progress : Answer(s, t, os)
    \/ doStreamRequestFails \/ doStreamRequest \/ doRequest \/ Raw \/ pullStatus \/ Progresses
Spec == Init /\ [][Next]_vars

----
(* An operation returns nil only if the daemon did what it was asked: it accepted the request,
   its answer could be decoded, and no object of a push or pull reports an error. The exceptions
   are the operations that do not look: ContainerLogs and the monitors (status), PushImage
   (status, when the answer is JSON), and CreateNetwork (the decoding). No operation leaves a
   connection behind: the body is closed, or the caller has it. *)
Careless == op.how \in {"raw", "progress"} \/ op.reply = "ignored"
NilMeansDone ==
    /\ result = "ok" /\ ~Careless =>
          status = 200 /\ op.path # "wrong" /\ (op.reply = "json" => text = "json")
    /\ result = "ok" => \A i \in DOMAIN objects : objects[i] # "error"
    /\ pc = "returned" => body # "open"
====
