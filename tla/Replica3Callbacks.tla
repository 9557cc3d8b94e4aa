-------------------------- MODULE Replica3Callbacks --------------------------
(***************************************************************************)
(* The questions ReplicaManager3 asks about a replica, answered the way    *)
(* the helpers of Replica3 answer them for each kind of application: a     *)
(* replica that clients or the server construct, or one that peers share.  *)
(* s is the system that is asked, d the system a connection leads to and   *)
(* creator the replica's creatingSystemGUID.                               *)
(***************************************************************************)
CONSTANTS
  System,
  Server,          \* the server of a client/server application
  Authoritative    \* the systems that a shared replica is authoritative on

Policies == {"ClientConstruction", "ServerConstruction",
             "SingleOwner", "MultiOwner", "StaticObject"}

QueryConstruction(policy, s, creator) ==
  CASE policy = "ClientConstruction" -> IF s \in {creator, Server} THEN "SendConstruction"
                                        ELSE "NeverConstruct"
    [] policy = "ServerConstruction" -> IF s = Server THEN "SendConstruction"
                                        ELSE "NeverConstruct"
    [] policy = "SingleOwner"        -> IF s = creator THEN "SendConstruction"
                                        ELSE "NeverConstruct"
    [] policy = "MultiOwner"         -> IF s \in Authoritative THEN "SendConstruction"
                                        ELSE "AlreadyExists"
    [] policy = "StaticObject"       -> IF s \in Authoritative THEN "AlreadyExists"
                                        ELSE "AlreadyExistsDoNotConstruct"

QueryRemoteConstruction(policy, s) == policy = "ServerConstruction" => s # Server

QuerySerialization(policy, s, d, creator) ==
  CASE policy = "ClientConstruction" ->
         IF s = creator \/ (s = Server /\ d # creator) THEN "CallSerialize"
         ELSE "NeverCallSerialize"
    [] policy = "ServerConstruction" -> IF s = Server THEN "CallSerialize"
                                        ELSE "NeverCallSerialize"
    [] policy = "SingleOwner"        -> IF s = creator THEN "CallSerialize"
                                        ELSE "NeverCallSerialize"
    [] policy \in {"MultiOwner", "StaticObject"} ->
         IF s \in Authoritative THEN "CallSerialize" ELSE "DoNotCallSerialize"

\* Is a replica whose creator's connection is popped destroyed everywhere, or
\* on the system that popped the connection only?
BroadcastsOnPop(policy, s) ==
  policy \in {"ClientConstruction", "ServerConstruction"} /\ s = Server
=============================================================================
