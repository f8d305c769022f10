------------------------------ MODULE MCOutputs ------------------------------
(* A screen that changes in width, in height or in both, and two CRTCs. *)
EXTENDS Outputs

MCSizes == {<<1, 1>>, <<1, 2>>, <<2, 2>>}
=============================================================================
