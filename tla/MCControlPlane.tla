--------------------------- MODULE MCControlPlane ---------------------------
(* The control plane on small bounds. *)
EXTENDS ControlPlane
=============================================================================
