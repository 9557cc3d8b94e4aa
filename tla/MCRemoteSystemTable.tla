------------------------- MODULE MCRemoteSystemTable -------------------------
(***************************************************************************)
(* Instances of RemoteSystemTable for TLC.                                 *)
(***************************************************************************)
EXTENDS RemoteSystemTable, TLC

CONSTANTS a, b, c, d, x, y

\* Three addresses share a chain of the hash table.
Collisions == a :> x @@ b :> x @@ c :> y @@ d :> x

=============================================================================
