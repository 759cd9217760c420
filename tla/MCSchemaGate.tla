---------------------------- MODULE MCSchemaGate ----------------------------
(* Instance of SchemaGate for TLC: four versions, two of them only columns,  *)
(* one of these on a table that a migration creates.                         *)
EXTENDS SchemaGate, TLC

Hosts == 2 :> 1 @@ 4 :> 3
=============================================================================
