-------------------------- MODULE MCRevitEventQueue --------------------------
(* Instances of RevitEventQueue for TLC: the calls are model values.         *)
EXTENDS RevitEventQueue, TLC

CONSTANTS c1, c2, c3
=============================================================================
