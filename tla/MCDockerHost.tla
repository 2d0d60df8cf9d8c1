---------------------------- MODULE MCDockerHost ---------------------------
(* Small instances of DockerHost, for its own properties and for its refinement of NetworkDriver. *)
EXTENDS DriverRefinement, TLC

CONSTANTS h1, h2, n1, n2, b1, b2, e1, e2, v1, v2

Net(b, m, g, t) == [name |-> b, mode |-> m, gateway |-> g, type |-> t]

(* A flat network and a NAT network with bridges of their own. *)
OwnBridges == (n1 :> Net(b1, "flat", "v4", "none")) @@ (n2 :> Net(b2, "nat", "v4", "none"))
(* A gateway network and a plain one. *)
GatewayAndPlain == (n1 :> Net(b1, "flat", "v4", "sgw")) @@ (n2 :> Net(b2, "flat", "v4", "none"))
(* Two networks whose options name the same bridge. *)
SharedBridge == [n \in Network |-> Net(b1, "flat", "v4", "none")]
OneFlat == n1 :> Net(b1, "flat", "v4", "none")
States == {Config[n] : n \in Network}

(* Port names: one each, or the first five characters of two ids coincide. *)
OwnVeths == (e1 :> v1) @@ (e2 :> v2)
SameVeth == [e \in Endpoint |-> v1]
OnFirst == [e \in Endpoint |-> n1]

HandlerSymmetry == Permutations(Handler)
=============================================================================
