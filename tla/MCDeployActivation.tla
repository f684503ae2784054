------------------------- MODULE MCDeployActivation -------------------------
(* Small instances of DeployActivation for TLC. *)
EXTENDS DeployActivation, TLC

CONSTANTS r1, r2, a23, b23, a24, desk

(* a23 and b23 are two add-in profiles of Revit 2023.  The second release  *)
(* replaces the first one's 2023 profile and adds 2024.                    *)
MCYear == [a \in {a23, b23, a24} |-> IF a = a24 THEN 2024 ELSE 2023]
MCSelections == r1 :> {{a23, desk}} @@ r2 :> {{b23, a24}}
=============================================================================
