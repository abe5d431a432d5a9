------------------------------ MODULE MCUplink ------------------------------
(* Model checking of the connection and its threads; see the .cfg files.   *)
EXTENDS Uplink
=============================================================================
