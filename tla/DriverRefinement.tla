---- MODULE DriverRefinement ----
(* DockerHost implements NetworkDriver, for networks with bridges and endpoints with port names
   of their own. A network is present when BridgeOpt names a bridge for it, an endpoint attached
   when that bridge has its port. *)
EXTENDS DockerHost

Abstract == INSTANCE NetworkDriver WITH
    present <- {n \in Network : BridgeNamesOf(n) # {}},
    attached <- {e \in Endpoint : \E p \in ports, r \in bridges :
                    p.name = VethOf[e] /\ p.bridge = r.uuid /\ r.name \in BridgeNamesOf(NetOf[e])}

(* Every step of the handlers, of docker, of the database and of a crash is one effect, one call
   or answer of NetworkDriver, or nothing: a crash, a lost reply or a repeated call never makes
   an effect happen twice, after its answer, or for somebody else. *)
ImplementsDriver == Abstract!Spec
====
