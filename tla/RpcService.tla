---- MODULE RpcService ----
(* What the users of an rpc2.Client count on. A call gets exactly one outcome:
   the reply to its own request or an error, never two and never somebody else's.
   What the peer sends on its own initiative reaches its handler at most once, in
   any order, and may be lost once the connection has failed. This is the view of
   the connection that module Ovsdb takes (its three replies and its set of
   notifications). *)
EXTENDS FiniteSets

CONSTANTS
    Caller,     \* calls, each made once
    Incoming    \* requests and notifications of the peer, each sent once

VARIABLES
    outcome,    \* per call: "none" | "active" | "reply" | "error"
    unsent,     \* what the peer has not sent yet
    handled,    \* what the handlers have been called with
    failed      \* the connection has failed or has been closed

vars == <<outcome, unsent, handled, failed>>

Init ==
    /\ outcome = [c \in Caller |-> "none"]
    /\ unsent = Incoming
    /\ handled = {}
    /\ failed = FALSE

Begin(c) ==
    /\ outcome[c] = "none"
    /\ outcome' = [outcome EXCEPT ![c] = "active"]
    /\ UNCHANGED <<unsent, handled, failed>>

Reply(c) ==
    /\ outcome[c] = "active"
    /\ outcome' = [outcome EXCEPT ![c] = "reply"]
    /\ UNCHANGED <<unsent, handled, failed>>

(* The server answered with an error, or the connection failed: then every call
   that is active may end at once. *)
Fail(C) ==
    /\ \A c \in C : outcome[c] = "active"
    /\ outcome' = [c \in Caller |-> IF c \in C THEN "error" ELSE outcome[c]]
    /\ UNCHANGED <<unsent, handled, failed>>

Send(m) ==
    /\ m \in unsent
    /\ unsent' = unsent \ {m}
    /\ UNCHANGED <<outcome, handled, failed>>

Handle(m) ==
    /\ m \in Incoming \ (unsent \cup handled)
    /\ handled' = handled \cup {m}
    /\ UNCHANGED <<outcome, unsent, failed>>

Break == failed' = TRUE /\ UNCHANGED <<outcome, unsent, handled>>

Next ==
    \/ \E c \in Caller : Begin(c) \/ Reply(c)
    \/ \E C \in SUBSET Caller : Fail(C)
    \/ \E m \in Incoming : Send(m) \/ Handle(m)
    \/ Break

Spec == Init /\ [][Next]_vars
====
