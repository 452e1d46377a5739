-------------------------------- MODULE Null --------------------------------
(* The null pointer of the containers. *)
CONSTANT null
=============================================================================
