--------------------------- MODULE DispatchAuthority ---------------------------
(***************************************************************************)
(* What the certified request-family courier promises about one job,       *)
(* without files, processes, requests or time.                             *)
(*                                                                         *)
(* The right to touch Revit is decided once: it is handed out (dispatched) *)
(* or given up for ever (fenced).  Only a dispatched job is started, once. *)
(* There is one terminal truth.  A fenced job's truth is the failure that  *)
(* was reserved together with the fence; a dispatched job either succeeded *)
(* or its outcome is unknown, never "known not to have run".  What readers *)
(* are shown is that truth and nothing else.                               *)
(***************************************************************************)
EXTENDS Naturals

VARIABLES
    authority, \* "open", "dispatched" or "fenced"
    reserved,  \* the failure a fence stands for
    truth,     \* the terminal decision
    shown,     \* the published receipt
    starts     \* how often the native handler was invoked

vars == <<authority, reserved, truth, shown, starts>>

Failures == {"failed_known", "failed_retryable", "failed_unknown"}

Init ==
    /\ authority = "open"
    /\ reserved = "none"
    /\ truth = "none"
    /\ shown = "none"
    /\ starts = 0

Dispatch ==
    /\ authority = "open"
    /\ authority' = "dispatched"
    /\ UNCHANGED <<reserved, truth, shown, starts>>

FenceOff ==
    /\ authority = "open"
    /\ authority' = "fenced"
    /\ reserved' \in Failures
    /\ UNCHANGED <<truth, shown, starts>>

Start ==
    /\ authority = "dispatched"
    /\ starts = 0
    /\ starts' = 1
    /\ UNCHANGED <<authority, reserved, truth, shown>>

Settle ==
    /\ truth = "none"
    /\ \/ authority = "fenced" /\ truth' = reserved
       \/ authority = "dispatched" /\ truth' = "failed_unknown"
       \/ authority = "dispatched" /\ starts = 1 /\ truth' = "succeeded"
    /\ UNCHANGED <<authority, reserved, shown, starts>>

Show ==
    /\ truth # "none"
    /\ shown = "none"
    /\ shown' = truth
    /\ UNCHANGED <<authority, reserved, truth, starts>>

Next == Dispatch \/ FenceOff \/ Start \/ Settle \/ Show

Spec == Init /\ [][Next]_vars
=============================================================================
