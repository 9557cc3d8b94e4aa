-------------------------- MODULE MCReplicaManager3 --------------------------
(***************************************************************************)
(* Instances of ReplicaManager3 for TLC.                                   *)
(***************************************************************************)
EXTENDS ReplicaManager3

CONSTANTS c1, c2, sv, r1, r2

Links == [p \in Policies |-> IF p = "ClientConstruction" THEN {{c1, sv}, {c2, sv}}
                             ELSE {{c1, sv}}]
Bounds(p) == IF p = "ClientConstruction" THEN <<1, 0, 1>> ELSE <<2, 1, 1>>
BoundsOf == [p \in Policies |-> [x \in Bounded |->
  Bounds(p)[CASE x = "updates" -> 1 [] x = "connects" -> 2 [] x = "faults" -> 3]]]
ByOwner == [p \in Policies |-> r1 :> CASE p = "ServerConstruction" -> {sv}
                                       [] p = "StaticObject" -> {c1, sv}
                                       [] OTHER -> {c1}]
Leaving == [p \in Policies |-> IF p = "ClientConstruction" THEN {c1} ELSE {c1, sv}]
Modes == [p \in Policies |-> [s \in System |->
  CASE p = "SingleOwner"  -> "ConnectionReplicaList"
    [] p = "StaticObject" -> "ReplicaConstruction"
    [] OTHER -> "ReplicaConstructionAndDestruction"]]

=============================================================================
