---- MODULE DbusExport ----
(* The objects a dbus.Conn exports: exportWithMap registers and removes handlers, handleCall, in
   a goroutine per call, looks for the method. A path is the sequence of its elements, the root
   "/" is <<>>. How a call reaches handleCall and its answer the bus is the matter of DbusConn.
   Members are never empty: ReadMessage refuses such messages. *)
EXTENDS Naturals, Sequences, SequencesExt, Functions, FiniteSets, TLC

CONSTANTS Paths, Ifaces, Mappings,  \* Mappings: struct method |-> method on the bus
          MaxSteps                  \* bound: exports and calls

Methods == {"Foo", "Bar"}      \* methods every exported struct has

VARIABLES handlers,    \* conn.handlers: path |-> iface |-> [sub, mapping]
          last,        \* the last call: <<path, iface or "", member, answer, path of the handler, method>>
          steps

vars == <<handlers, last, steps>>
none == <<>>

At(p) == IF p \in DOMAIN handlers THEN handlers[p] ELSE none
Minus(f, x) == [y \in DOMAIN f \ {x} |-> f[y]]
Step == steps < MaxSteps /\ steps' = steps + 1

Export(p, iface, mapping, sub) ==
    /\ Step
    /\ handlers' = (p :> ((iface :> [sub |-> sub, mapping |-> mapping]) @@ At(p))) @@ handlers
    /\ last' = none
Remaining(p, left) == IF left = none THEN Minus(handlers, p) ELSE [handlers EXCEPT ![p] = left]
Unexport(p, iface) ==
    /\ Step
    /\ handlers' = IF p \in DOMAIN handlers THEN Remaining(p, Minus(handlers[p], iface)) ELSE handlers
    /\ last' = none

(* searchHandlers: the path itself, or else the nearest registered path above it, of which the
   handlers for a subtree count. "/" is never above: "/a" is cut to "". *)
Above(p) == {q \in DOMAIN handlers : q # <<>> /\ IsStrictPrefix(q, p)}
Outermost(S) == CHOOSE q \in S : \A r \in S : Len(q) <= Len(r)      \* mutant
Nearest(S) == CHOOSE q \in S : \A r \in S : Len(q) >= Len(r)
Place(p) == IF p \in DOMAIN handlers THEN p ELSE Nearest(Above(p))
Known(p) == p \in DOMAIN handlers \/ Above(p) # {}
searchHandlers(p) ==
    LET h == handlers[Place(p)] IN
    IF p \in DOMAIN handlers THEN h ELSE Restrict(h, {i \in DOMAIN h : h[i].sub})

(* exportedMethod: the methods a member can lead to, "" for none. The loop over the mapping, a
   Go map, is in any order and ends at the first pair with the member on either side. *)
Hits(mapping, member) == {k \in DOMAIN mapping : mapping[k] = member \/ k = member}
exportedMethod(mapping, member) ==
    IF Hits(mapping, member) = {} THEN {IF member \in Methods THEN member ELSE ""}
    ELSE {IF mapping[k] = member THEN k ELSE "" : k \in Hits(mapping, member)}
(* Without an interface the handlers are tried in any order until one has the method. *)
Ways(p, iface, member) ==
    LET hs == searchHandlers(p)
        Of(i) == exportedMethod(hs[i].mapping, member)
    IN  IF iface # "" THEN IF iface \in DOMAIN hs THEN Of(iface) ELSE {""}
        ELSE (UNION {Of(i) : i \in DOMAIN hs} \ {""}) \cup {w \in {""} : \A i \in DOMAIN hs : "" \in Of(i)}

Answer(p, iface, member, a) == Step /\ last' = <<p, iface, member>> \o a /\ UNCHANGED handlers
PeerCall(p, member) ==
    Answer(p, "Peer", member, <<IF member = "Ping" THEN "reply" ELSE "UnknownMethod", p, "">>)
NoObject(p, iface, member) == ~Known(p) /\ Answer(p, iface, member, <<"NoSuchObject", p, "">>)
UnknownMethod(p, iface, member) ==
    Known(p) /\ "" \in Ways(p, iface, member) /\ Answer(p, iface, member, <<"UnknownMethod", p, "">>)
(* The number or types of the arguments do not fit, or they do and the method replies. *)
CallMethod(p, iface, member) ==
    /\ Known(p)
    /\ \E w \in Ways(p, iface, member) \ {""}, a \in {"InvalidArgs", "reply"} :
        Answer(p, iface, member, <<a, Place(p), w>>)

Init == handlers = none /\ last = none /\ steps = 0
Next ==
    \E p \in Paths :
        \/ \E i \in Ifaces : Unexport(p, i) \/ \E m \in Mappings, sub \in BOOLEAN : Export(p, i, m, sub)
        \/ \E member \in {"Ping", "Foo"} : PeerCall(p, member)
        \/ \E i \in Ifaces \cup {""}, member \in Methods \cup {"foo"} :
            NoObject(p, i, member) \/ UnknownMethod(p, i, member) \/ CallMethod(p, i, member)
Spec == Init /\ [][Next]_vars

----------------------------------------------------------------------------
(* "Note that more specific export paths take precedence over less specific": no path between
   the one whose handler is called and the one of the call is registered. "Passing nil as the
   first parameter will cause conn to cease handling calls": where nothing at or above a path
   is registered any more, there is no object. *)
NearestServes ==
    (last # none /\ last[2] # "Peer") =>
        LET upward == {q \in DOMAIN handlers : IsPrefix(q, last[1]) /\ handlers[q] # none} IN
        /\ last[4] \in {"reply", "InvalidArgs"} => \A q \in upward : Len(q) <= Len(last[5])
        /\ last[4] # "NoSuchObject" => upward # {}
====
