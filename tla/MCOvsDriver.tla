---------------------------- MODULE MCOvsDriver ----------------------------
(* Small instances of OvsDriver. *)
EXTENDS OvsDriver, TLC

CONSTANTS h1, h2, n1, n2, b1, e1, v1

(* Every network asks for the same bridge. *)
Flat == {[name |-> b1, mode |-> "flat", gateway |-> "v4", type |-> "none"]}

(* A gateway network in NAT mode takes every branch of the handlers, and a gateway address of
   IPv6 ends the process. *)
NatGateway == {[name |-> b1, mode |-> "nat", gateway |-> g, type |-> "sgw"] : g \in {"v4", "v6"}}

SameVeth == [e \in Endpoint |-> v1]

Symmetry == Permutations(Handler) \cup Permutations(Network)
=============================================================================
