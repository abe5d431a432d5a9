------------------------------ MODULE MCBuffer ------------------------------
(* Model checking of the frame buffer; the values are in the .cfg files.   *)
EXTENDS Buffer
=============================================================================
