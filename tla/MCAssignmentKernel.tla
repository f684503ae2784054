------------------------- MODULE MCAssignmentKernel -------------------------
(***************************************************************************)
(* Instances of AssignmentKernel for TLC.  Each is a small Assignment:     *)
(* the model values w, r, v, u and d are operations; the functions say     *)
(* what they request and how they are related.                             *)
(***************************************************************************)
EXTENDS AssignmentKernel, TLC

CONSTANTS w, r, v, u, d

Alone == [o \in Ops |-> NoOp]
NoChild == [o \in Ops |-> FALSE]
NoInputs == [o \in Ops |-> {}]

\* A write and its retry, a verification of each, and a desired-state read.
RetryEffect == w :> "apply" @@ r :> "apply" @@ v :> "read" @@ u :> "read" @@ d :> "read"
RetryRetryOf == [Alone EXCEPT ![r] = w]
RetryVerifyOf == [Alone EXCEPT ![v] = w, ![u] = r]
AllProve == [o \in Ops |-> Criteria]

\* A desired-state read with a blocking write below it, its verification and
\* input variables.
InputEffect == w :> "apply" @@ v :> "read" @@ d :> "read"
InputParent == [Alone EXCEPT ![w] = d]
InputBlocks == [NoChild EXCEPT ![w] = TRUE]
InputVerifyOf == [Alone EXCEPT ![v] = w]
WriteVars == [o \in Ops |-> IF Effect[o] = "read" THEN {} ELSE Vars]

\* A write, the read that reconciles it and provider calls.
ControlEffect == w :> "apply" @@ d :> "read"
ControlReconcileOf == [Alone EXCEPT ![d] = w]
=============================================================================
