-------------------------- MODULE AssignmentKernel --------------------------
(***************************************************************************)
(* The Assignment Kernel V2 of the operator backend: one Assignment, its   *)
(* operations, evidence, criteria, controls and outcome.                   *)
(*                                                                         *)
(* The durable state is what the reducer (domain/assignment-kernel/        *)
(* reducer.ts) folds out of the event journal.  Every action is one        *)
(* accepted append: the guard joins the reducer's assertions with the      *)
(* conditions of the edge that emits the event.  A rejected event is       *)
(* quarantined and leaves the projection unchanged; it is a step only      *)
(* where its identity is fixed by the operation, because the store then    *)
(* refuses every later event of that identity (refused).                   *)
(* A crash loses no state of this module (all of it is journaled); what a  *)
(* crash loses is the answer of a call, and FailOperation may then happen. *)
(*                                                                         *)
(* Operations are model values with static attributes (what the admission  *)
(* edge stores in OperationV2 and never changes).  native is external:     *)
(* what Revit really did with a write, which the journal only learns of.   *)
(***************************************************************************)
EXTENDS Naturals, FiniteSets

CONSTANTS
    Ops,              \* operations that may be admitted
    Criteria,         \* required criteria of the AssignmentSpecV2
    Vars,             \* input variables, declared or discovered
    Calls,            \* provider calls
    NoOp,             \* absence of an operation
    Effect,           \* requested_effect of an operation
    Parent,           \* parent_operation_id
    Blocks,           \* blocks_parent_settlement
    RetryOf,          \* retry_of_operation_id
    VerifyOf,         \* verification_of_operation_id
    ReconcileOf,      \* reconciliation_of_operation_id
    Eligible,         \* eligible_criterion_ids
    OpVars,           \* input variables of the operation's work unit
    RequiredVars,     \* variables the spec requires and does not know
    DesiredState,     \* criteria with desired_state_comparisons
    AssignmentEffect, \* requested_effect of the Assignment
    CommitLimit,      \* bound on attempts to retain an observation
    CallLimit,        \* provider calls that exhaust the budget
    Stops,            \* interruptions the environment may cause
    Transport         \* "direct" or "courier"

EffectRank == [read |-> 0, preview |-> 1, apply |-> 2]
Effects == DOMAIN EffectRank

Links == {Parent, RetryOf, VerifyOf, ReconcileOf}

ASSUME KernelConstants ==
    /\ NoOp \notin Ops
    /\ Effect \in [Ops -> Effects]
    /\ \A link \in Links : link \in [Ops -> Ops \cup {NoOp}]
    /\ Blocks \in [Ops -> BOOLEAN]
    /\ Eligible \in [Ops -> SUBSET Criteria]
    /\ OpVars \in [Ops -> SUBSET Vars]
    /\ RequiredVars \subseteq Vars
    /\ DesiredState \subseteq Criteria
    /\ AssignmentEffect \in Effects
    /\ CommitLimit \in Nat \ {0}
    /\ CallLimit \in Nat \ {0}
    /\ Stops \subseteq {"pause", "hold", "failure", "budget", "blocker"}
    /\ Transport \in {"direct", "courier"}

\* What admission checks of attributes that never change: the effect stays
\* within the Assignment's, a verification reads what a write left, a retry
\* repeats its predecessor and uses it once, a child proves no more than its
\* parent, and only a child blocks.  Operations of Ops are not equivalent to
\* one another unless one retries or reconciles the other.  The factory binds
\* the input variables to every unit of work but the supporting reads.
WellFormed(o) ==
    /\ EffectRank[Effect[o]] <= EffectRank[AssignmentEffect]
    /\ Effect[o] # "read" => OpVars[o] = Vars
    /\ VerifyOf[o] # NoOp => Effect[o] = "read" /\ Effect[VerifyOf[o]] = "apply"
    /\ ReconcileOf[o] # NoOp => Effect[o] = "read"
    /\ RetryOf[o] # NoOp => RetryOf[o] # o /\ Effect[RetryOf[o]] = Effect[o]
    /\ \A p \in Ops \ {o} : RetryOf[p] = RetryOf[o] => RetryOf[o] = NoOp
    /\ Parent[o] = NoOp => ~Blocks[o]
    /\ Parent[o] # NoOp => Parent[o] # o /\ Eligible[o] \subseteq Eligible[Parent[o]]

ASSUME KernelTopology == \A o \in Ops : WellFormed(o)

VARIABLES
    ops,      \* operations: settlement, dispatch, effect, result
    criteria, \* criteria: evaluation and the observations it has seen
    inputs,   \* input variables
    stale,    \* input_invalidated_operation_ids
    calls,    \* provider calls
    gates,    \* execution control, usage hold, blocker, failure, budget
    terminal, \* outcome of the assignment_terminal event, "none" before it
    calling,  \* courier recovery calls: the dispatch state read before one
    native,   \* external: what Revit did with a write
    knew      \* history: the inputs known when an operation was admitted

kernel == <<ops, criteria, inputs, stale, calls, gates, terminal>>
vars == <<ops, criteria, inputs, stale, calls, gates, terminal, calling, native, knew>>

----------------------------------------------------------------------------
(* State of the projection *)

Settlements == {"absent", "open", "awaiting_result", "retaining_observation",
                "observation_commit_failed", "settled"}
Dispatches == {"not_dispatched", "dispatching", "dispatched"}
PersistentEffects == {"none", "unknown", "applied"}
Statuses == {"none", "succeeded", "failed_before_dispatch",
             "failed_after_dispatch", "completed_without_native_dispatch"}
Authorities == {"none", "native-host", "operator-mcp-transport"}
Identities == {"native-dispatch", "result-failure"}

Operation == [settle : Settlements, dispatch : Dispatches, effect : PersistentEffects,
              status : Statuses, authority : Authorities, attempts : 0 .. CommitLimit,
              observed : BOOLEAN, proven : BOOLEAN, refused : SUBSET Identities]

Absent == [settle |-> "absent", dispatch |-> "not_dispatched", effect |-> "none",
           status |-> "none", authority |-> "none", attempts |-> 0,
           observed |-> FALSE, proven |-> FALSE, refused |-> {}]

Evaluation == [status : {"none", "pass", "uncertain"},
               basis : {"observation", "desired_state_equivalence", "policy"},
               support : SUBSET Ops, seen : SUBSET Ops]

Unevaluated == [status |-> "none", basis |-> "observation", support |-> {}, seen |-> {}]

InputStates == {"undeclared", "pending", "asked", "known"}

\* PROVIDER_STATE_RANK, with 0 for a call that is not admitted yet.
Rank == [absent |-> 0, admitted |-> 1, dispatched |-> 2, response_started |-> 3,
         usage_received |-> 4, completed |-> 5, response_transport_completed |-> 6]

Gates == [paused : BOOLEAN, hold : BOOLEAN, blocker : BOOLEAN, exhausted : BOOLEAN,
          failure : {"none", "blocked", "failed"}]

Successes == {"complete", "verified_noop"}
TerminalOutcomes == Successes \cup {"blocked", "failed"}

Init ==
    /\ ops = [o \in Ops |-> Absent]
    /\ criteria = [c \in Criteria |-> Unevaluated]
    /\ inputs = [x \in Vars |-> IF x \in RequiredVars THEN "pending" ELSE "undeclared"]
    /\ stale = {}
    /\ calls = [c \in Calls |-> Rank.absent]
    /\ gates = [paused |-> FALSE, hold |-> FALSE, blocker |-> FALSE,
                exhausted |-> FALSE, failure |-> "none"]
    /\ terminal = "none"
    /\ calling = [o \in Ops |-> "none"]
    /\ native = [o \in Ops |-> "idle"]
    /\ knew = [o \in Ops |-> {}]

----------------------------------------------------------------------------
(* Derived state: withDerivedState and the pure outcome *)

Admitted(o) == ops[o].settle # "absent"
InFlight == {o \in Ops : ops[o].settle \in {"open", "awaiting_result", "retaining_observation"}}
Unknown == {o \in Ops : ops[o].effect = "unknown"}
CallsInFlight == {c \in Calls : calls[c] \in Rank.admitted .. Rank.usage_received}
Quiescent == InFlight = {} /\ CallsInFlight = {}
BlockingChildren(o) ==
    {c \in Ops : Parent[c] = o /\ Blocks[c] /\ ops[c].settle \notin {"absent", "settled"}}
Known == {x \in Vars : inputs[x] = "known"}
InputPending == \E x \in Vars : inputs[x] \in {"pending", "asked"}
Applied == {o \in Ops : Effect[o] = "apply" /\ ops[o].effect = "applied"}

\* A settled, applied write with a successful retained verification read whose
\* facts prove the postcondition.
Verified(o) ==
    /\ ops[o].settle = "settled" /\ ops[o].effect = "applied"
    /\ \E v \in Ops :
          /\ VerifyOf[v] = o
          /\ ops[v].settle = "settled" /\ ops[v].status = "succeeded"
          /\ ops[v].observed /\ ops[v].proven

Passing == {c \in Criteria : criteria[c].status = "pass"}

\* deriveAssignmentOutcomeV2, in two parts: what a quiescent Assignment without
\* blocker or unknown effect amounts to, and what comes before it.
SettledOutcome ==
    CASE gates.failure # "none" -> gates.failure
      [] gates.failure = "none" /\ gates.exhausted -> "failed"
      [] OTHER ->
         IF gates.hold \/ Criteria = {} \/ Passing # Criteria THEN "active"
         ELSE IF AssignmentEffect # "apply" THEN "complete"
         ELSE IF Applied # {}
              THEN IF \A o \in Applied : Verified(o) THEN "complete" ELSE "active"
         ELSE IF \E c \in Criteria : criteria[c].basis = "desired_state_equivalence"
              THEN "verified_noop" ELSE "active"

\* Mutant: an unknown effect does not keep the Assignment open.
OutcomeMutant ==
    CASE InputPending -> "awaiting_user_input"
      [] ~InputPending /\ ~Quiescent -> "active"
      [] ~InputPending /\ Quiescent /\ gates.blocker -> "blocked"
      [] OTHER -> SettledOutcome
Outcome ==
    CASE InputPending -> "awaiting_user_input"
      [] ~InputPending /\ ~Quiescent -> "active"
      [] ~InputPending /\ Quiescent /\ gates.blocker -> "blocked"
      [] OTHER -> IF Unknown # {} THEN "active" ELSE SettledOutcome

\* operationUsesCurrentInputsV2: neither the operation nor the write it
\* verifies predates an authenticated answer it depends on.
UsesCurrentInputs(o) == o \notin stale /\ VerifyOf[o] \notin stale

\* The single evidence-admission predicate (observationAdmissibilityForCriterionV2).
Admissible(c, o, basis) ==
    /\ UsesCurrentInputs(o)
    /\ ops[o].settle = "settled" /\ ops[o].status = "succeeded" /\ ops[o].observed
    /\ c \in Eligible[o]
    /\ \/ VerifyOf[o] # NoOp
       \/ /\ Effect[o] = AssignmentEffect
          /\ ops[o].effect = (IF AssignmentEffect = "apply" THEN "applied" ELSE "none")
       \/ /\ basis = "desired_state_equivalence" /\ c \in DesiredState
          /\ AssignmentEffect = "apply" /\ Effect[o] = "read" /\ ops[o].effect = "none"

ProgressBasis(c) ==
    IF AssignmentEffect = "apply" /\ c \in DesiredState
    THEN "desired_state_equivalence" ELSE "observation"

\* criteriaPendingEvaluationV2: admissible evidence newer than the evaluation.
PendingEvaluation(c) ==
    \E o \in Ops \ criteria[c].seen : Admissible(c, o, ProgressBasis(c))

----------------------------------------------------------------------------
(* Operations *)

Live == terminal = "none"

\* A usage hold admits children of admitted work and the read that reconciles
\* an operation of unknown effect; a pause admits children only.
HoldAdmits(o) ==
    gates.hold /\ Parent[o] = NoOp =>
        Effect[o] = "read" /\ ReconcileOf[o] \in Unknown
PauseAdmits(o) == gates.paused => Parent[o] # NoOp

\* Mutant: a retry is admitted while its predecessor is still unsettled.
RetryAdmitsMutant(o) == RetryOf[o] # NoOp => ops[RetryOf[o]].effect = "none"
RetryAdmits(o) ==
    RetryOf[o] # NoOp => ops[RetryOf[o]].settle = "settled" /\ ops[RetryOf[o]].effect = "none"

TopologyAdmits(o) ==
    IF Parent[o] = NoOp
    THEN \A c \in Criteria : ~PendingEvaluation(c)
    ELSE Parent[o] \in InFlight

Admit(o) ==
    /\ Live /\ ~Admitted(o) /\ Outcome = "active"
    /\ HoldAdmits(o) /\ PauseAdmits(o)
    /\ Unknown # {} => Effect[o] = "read"
    /\ TopologyAdmits(o)
    /\ RetryAdmits(o)
    /\ ReconcileOf[o] # NoOp => ReconcileOf[o] \in Unknown
    /\ VerifyOf[o] # NoOp =>
          ops[VerifyOf[o]].settle = "settled" /\ ops[VerifyOf[o]].effect = "applied"
    /\ ops' = [ops EXCEPT ![o].settle = "open"]
    /\ knew' = [knew EXCEPT ![o] = Known]
    /\ UNCHANGED <<criteria, inputs, stale, calls, gates, terminal, calling, native>>

\* onMcpAccepted (or the MCP server's dispatch route) precedes the call.
DispatchStarted(o) ==
    /\ Live /\ ops[o].settle = "open" /\ ops[o].dispatch = "not_dispatched"
    /\ ops' = [ops EXCEPT ![o].dispatch = "dispatching", ![o].settle = "awaiting_result"]
    /\ UNCHANGED <<criteria, inputs, stale, calls, gates, terminal, calling, native, knew>>

Handed(o) == Admitted(o) /\ (ops[o].dispatch # "not_dispatched" \/ calling[o] # "none")

\* External: the write reaches Revit some time after it was handed over, even
\* after the journal gave up on it; Revit then commits it or does not.
NativeSend(o) ==
    /\ Effect[o] # "read" /\ native[o] = "idle" /\ Handed(o)
    /\ \/ ops[o].effect # "none"
       \/ ops[o].status = "none"
       \/ calling[o] # "none"
    /\ native' = [native EXCEPT ![o] = "sent"]
    /\ UNCHANGED <<kernel, calling, knew>>

NativeFinish(o) ==
    /\ native[o] = "sent"
    /\ \E end \in {"refused"} \cup (IF Effect[o] = "apply" THEN {"committed"} ELSE {}) :
          native' = [native EXCEPT ![o] = end]
    /\ UNCHANGED <<kernel, calling, knew>>

\* appendCurrentEventsUnderGoalLock: the event of a parent that a blocking child
\* keeps open is quarantined, and with it the event's identity.
Refuse(o, identity) ==
    /\ Live /\ ops[o].settle \in {"open", "awaiting_result"}
    /\ BlockingChildren(o) # {} /\ identity \notin ops[o].refused
    /\ ops' = [ops EXCEPT ![o].refused = @ \cup {identity}]
    /\ UNCHANGED <<criteria, inputs, stale, calls, gates, terminal, calling, native, knew>>

DispatchRefused(o) ==
    /\ Handed(o) /\ ops[o].dispatch # "dispatched"
    /\ Effect[o] # "read" => native[o] # "idle"
    /\ Refuse(o, "native-dispatch")

FailureRefused(o) == Refuse(o, "result-failure")

\* native_dispatch_recorded and operation_dispatch_recorded (reads only, where
\* both leave the same state): the first append of an answer that says the
\* request was dispatched.
DispatchRecorded(o) ==
    /\ Live /\ Handed(o)
    /\ Effect[o] # "read" => native[o] # "idle"
    /\ ops[o].settle \in {"open", "awaiting_result"} /\ ops[o].dispatch # "dispatched"
    /\ BlockingChildren(o) = {} /\ "native-dispatch" \notin ops[o].refused
    /\ ops' = [ops EXCEPT ![o].dispatch = "dispatched", ![o].settle = "awaiting_result",
                          ![o].effect = IF Effect[o] = "read" THEN "none" ELSE "unknown"]
    /\ UNCHANGED <<criteria, inputs, stale, calls, gates, terminal, calling, native, knew>>

\* What a native answer can say: a known effect with an observation, or a
\* transport failure without one, which knows at most that nothing was applied
\* and, at the dispatch boundary, not even that.
NativeTruth(o) ==
    CASE Effect[o] = "read" -> {"none"}
      [] native[o] = "committed" -> {"applied"}
      [] native[o] = "refused" -> {"none"}
      [] OTHER -> {}

Answer(dispatches, effects, statuses, observe) ==
    [dispatch : dispatches, effect : effects, status : statuses,
     authority : {"native-host"}, observe : {observe}]

NativeAnswers(o) ==
    CASE ops[o].dispatch = "dispatched" ->
            Answer({"dispatched"}, NativeTruth(o), {"succeeded", "failed_after_dispatch"}, TRUE)
            \cup Answer({"dispatched"}, NativeTruth(o) \ {"applied"}, {"failed_after_dispatch"}, FALSE)
            \cup Answer({"dispatched"}, {IF Effect[o] = "read" THEN "none" ELSE "unknown"},
                        {"failed_after_dispatch"}, FALSE)
      [] ops[o].dispatch = "dispatching" ->
            Answer({"dispatching"}, {IF Effect[o] = "apply" THEN "unknown" ELSE "none"},
                   {"failed_after_dispatch"}, FALSE)
      [] OTHER -> {}

\* The MCP server answers that it handed nothing to Revit.
UndispatchedAnswers(o) ==
    IF ops[o].dispatch = "dispatched" \/ native[o] # "idle" THEN {}
    ELSE [dispatch : {"not_dispatched"}, effect : {"none"},
          authority : {"operator-mcp-transport"},
          status : {"failed_before_dispatch", "completed_without_native_dispatch"},
          observe : {FALSE}]

\* Mutant: a failure at the dispatch boundary is taken for a failure before it.
TransportAnswerMutant(o, dispatch) ==
    [dispatch |-> dispatch,
     effect |-> IF Effect[o] = "apply" /\ dispatch = "dispatched" THEN "unknown" ELSE "none",
     authority |-> "operator-mcp-transport",
     status |-> IF dispatch = "not_dispatched" THEN "failed_before_dispatch"
                ELSE "failed_after_dispatch",
     observe |-> FALSE]
\* failAssignmentKernelOperationV2: the result of a call whose answer is lost.
TransportAnswer(o, dispatch) ==
    [dispatch |-> dispatch,
     effect |-> IF Effect[o] = "apply" /\ dispatch # "not_dispatched" THEN "unknown" ELSE "none",
     authority |-> "operator-mcp-transport",
     status |-> IF dispatch = "not_dispatched" THEN "failed_before_dispatch"
                ELSE "failed_after_dispatch",
     observe |-> FALSE]

\* Mutant: a result is accepted for an operation that already has one.
RecordMutant(o, r) ==
    /\ Live /\ Admitted(o)
    /\ BlockingChildren(o) = {}
    /\ ops' = [ops EXCEPT ![o].settle = IF r.observe THEN "retaining_observation" ELSE "settled",
                          ![o].dispatch = r.dispatch, ![o].effect = r.effect,
                          ![o].status = r.status, ![o].authority = r.authority]
    /\ UNCHANGED <<criteria, inputs, stale, calls, gates, terminal, native, knew>>
\* operation_result_recorded.
Record(o, r) ==
    /\ Live /\ ops[o].settle \in {"open", "awaiting_result"}
    /\ BlockingChildren(o) = {}
    /\ ops' = [ops EXCEPT ![o].settle = IF r.observe THEN "retaining_observation" ELSE "settled",
                          ![o].dispatch = r.dispatch, ![o].effect = r.effect,
                          ![o].status = r.status, ![o].authority = r.authority]
    /\ UNCHANGED <<criteria, inputs, stale, calls, gates, terminal, native, knew>>

ResultRecorded(o) ==
    /\ \E r \in NativeAnswers(o) \cup UndispatchedAnswers(o) : Record(o, r)
    /\ calling' = [calling EXCEPT ![o] = "none"]

\* The call threw, its deadline passed, or a restart found it not replayable.
\* Mutant: an operation that was never dispatched is not failed.
FailOperationMutant(o) ==
    /\ calling[o] = "none" /\ "result-failure" \notin ops[o].refused
    /\ ops[o].dispatch # "not_dispatched"
    /\ Record(o, TransportAnswer(o, ops[o].dispatch)) /\ UNCHANGED calling
FailOperation(o) ==
    /\ calling[o] = "none" /\ "result-failure" \notin ops[o].refused
    /\ Record(o, TransportAnswer(o, ops[o].dispatch)) /\ UNCHANGED calling

\* recoverAssignmentKernelOperationsV2 over the courier: the tool is called
\* again with the dispatch state that was read before the call ...
RecoverOperation(o) ==
    /\ Live /\ Transport = "courier" /\ ops[o].settle \in {"open", "awaiting_result"}
    /\ calling[o] = "none"
    /\ calling' = [calling EXCEPT ![o] = ops[o].dispatch]
    /\ UNCHANGED <<kernel, native, knew>>

\* ... and a failure of that call is recorded with it.
RecoveryFails(o) ==
    /\ calling[o] # "none" /\ "result-failure" \notin ops[o].refused
    /\ Record(o, TransportAnswer(o, IF ops[o].dispatch = "dispatched" THEN "dispatched"
                                    ELSE calling[o]))
    /\ UNCHANGED calling

\* observation_retained: settles the operation; its facts may prove the
\* postcondition it verifies.  The edge usually writes this event together
\* with the result; when preparation fails, in a journal write of its own.
ObservationRetained(o) ==
    /\ Live /\ ops[o].settle = "retaining_observation"
    /\ \E proven \in {FALSE, VerifyOf[o] # NoOp} :
          ops' = [ops EXCEPT ![o].settle = "settled", ![o].observed = TRUE,
                             ![o].proven = proven]
    /\ UNCHANGED <<criteria, inputs, stale, calls, gates, terminal, calling, native, knew>>

\* Mutant: one attempt too many before giving up.
CommitRetryMutant(o) ==
    /\ Live /\ ops[o].settle = "retaining_observation" /\ ops[o].attempts < CommitLimit
    /\ ops' = [ops EXCEPT ![o].attempts = @ + 1]
    /\ UNCHANGED <<criteria, inputs, stale, calls, gates, terminal, calling, native, knew>>
CommitRetry(o) ==
    /\ Live /\ ops[o].settle = "retaining_observation" /\ ops[o].attempts + 1 < CommitLimit
    /\ ops' = [ops EXCEPT ![o].attempts = @ + 1]
    /\ UNCHANGED <<criteria, inputs, stale, calls, gates, terminal, calling, native, knew>>

\* Mutant: giving up on an observation derives no blocker.
CommitFailedMutant(o) ==
    /\ Live /\ ops[o].settle = "retaining_observation" /\ ops[o].attempts + 1 >= CommitLimit
    /\ ops' = [ops EXCEPT ![o].attempts = @ + 1, ![o].settle = "observation_commit_failed"]
    /\ UNCHANGED <<criteria, inputs, stale, calls, gates, terminal, calling, native, knew>>
CommitFailed(o) ==
    /\ Live /\ ops[o].settle = "retaining_observation" /\ ops[o].attempts + 1 >= CommitLimit
    /\ ops' = [ops EXCEPT ![o].attempts = @ + 1, ![o].settle = "observation_commit_failed"]
    /\ gates' = [gates EXCEPT !.blocker = TRUE]
    /\ UNCHANGED <<criteria, inputs, stale, calls, terminal, calling, native, knew>>

\* recoverLateNativeCompletionV1: the native terminal receipt of a settled
\* operation whose native answer was lost.
NativeCompletionReconciled(o) ==
    /\ Live /\ ops[o].settle = "settled" /\ ops[o].effect = "unknown"
    /\ ops[o].authority = "native-host"
    /\ \E effect \in NativeTruth(o) : ops' = [ops EXCEPT ![o].effect = effect]
    /\ UNCHANGED <<criteria, inputs, stale, calls, gates, terminal, calling, native, knew>>

----------------------------------------------------------------------------
(* Inputs, criteria and evidence *)

\* The spec's question, or one discovered while operations are in flight.
InputRequested(x) ==
    /\ Live /\ inputs[x] \in {"undeclared", "pending"}
    /\ inputs' = [inputs EXCEPT ![x] = "asked"]
    /\ UNCHANGED <<ops, criteria, stale, calls, gates, terminal, calling, native, knew>>

DependentOps(x) == {o \in Ops : Admitted(o) /\ x \in OpVars[o]}

\* Mutant: only results that already settled are invalidated by an answer.
InputSuppliedMutant(x) ==
    /\ Live /\ inputs[x] = "asked"
    /\ inputs' = [inputs EXCEPT ![x] = "known"]
    /\ stale' = stale \cup {o \in DependentOps(x) : ops[o].settle = "settled"}
    /\ criteria' = [c \in Criteria |-> Unevaluated]
    /\ UNCHANGED <<ops, calls, gates, terminal, calling, native, knew>>
\* input_supplied and invalidateDependentInputResultsV2.  Every work unit that
\* the factory writes names every criterion, so each answer resets them all.
InputSupplied(x) ==
    /\ Live /\ inputs[x] = "asked"
    /\ inputs' = [inputs EXCEPT ![x] = "known"]
    /\ stale' = stale \cup DependentOps(x)
    /\ criteria' = [c \in Criteria |-> Unevaluated]
    /\ UNCHANGED <<ops, calls, gates, terminal, calling, native, knew>>

\* mergeEvaluation: a pass contradicted by a later verdict becomes uncertain.
Merge(old, new) ==
    IF old.status = "pass" /\ new.status # "pass"
    THEN [new EXCEPT !.basis = "policy", !.support = old.support \cup new.support]
    ELSE new

\* A quiescent evaluation over the admissible part of the cited observations.
CriterionEvaluated(c) ==
    /\ Live /\ Quiescent
    /\ \E basis \in {"observation", "desired_state_equivalence"}, verdict \in {"pass", "uncertain"} :
         \E support \in SUBSET {o \in Ops : Admissible(c, o, basis)} :
            /\ basis = "desired_state_equivalence" =>
                  AssignmentEffect = "apply" /\ c \in DesiredState /\ ~InputPending
            /\ verdict = "pass" => support # {}
            /\ criteria' = [criteria EXCEPT ![c] =
                  Merge(@, [status |-> verdict, basis |-> basis, support |-> support,
                            seen |-> {o \in Ops : ops[o].observed}])]
    /\ UNCHANGED <<ops, inputs, stale, calls, gates, terminal, calling, native, knew>>

----------------------------------------------------------------------------
(* Provider calls, controls and the terminal event *)

ProviderAdmitted(c) ==
    /\ Live /\ calls[c] = Rank.absent /\ ~gates.hold /\ ~gates.paused
    /\ ~gates.exhausted /\ Outcome = "active" /\ Unknown = {}
    /\ calls' = [calls EXCEPT ![c] = Rank.admitted]
    /\ UNCHANGED <<ops, criteria, inputs, stale, gates, terminal, calling, native, knew>>

\* Later states arrive in any order; the retained state never moves back.
ProviderState(c, state) ==
    /\ Live /\ calls[c] # Rank.absent /\ Rank[state] > calls[c]
    /\ state = "response_transport_completed" => calls[c] = Rank.completed
    /\ calls' = [calls EXCEPT ![c] = Rank[state]]
    /\ UNCHANGED <<ops, criteria, inputs, stale, gates, terminal, calling, native, knew>>

ProviderCompletes(c) == ProviderState(c, "completed")

\* A completed call journaled as one receipt, whatever gate is closed.
ProviderReceipt(c) ==
    /\ Live /\ calls[c] = Rank.absent
    /\ calls' = [calls EXCEPT ![c] = Rank.completed]
    /\ UNCHANGED <<ops, criteria, inputs, stale, gates, terminal, calling, native, knew>>

SetGates(new) ==
    /\ gates' = new
    /\ UNCHANGED <<ops, criteria, inputs, stale, calls, terminal, calling, native, knew>>

Pause == Live /\ "pause" \in Stops /\ SetGates([gates EXCEPT !.paused = TRUE])

\* Mutant: resuming does not wait for unknown effects to be resolved.
ResumeMutant ==
    /\ Live /\ (gates.paused \/ gates.hold)
    /\ Quiescent
    /\ gates.hold => /\ ~InputPending /\ ~gates.blocker
                     /\ ~gates.exhausted /\ gates.failure = "none"
    /\ SetGates([gates EXCEPT !.paused = FALSE, !.hold = FALSE])
\* Resume retires the hold it names and never a failure, blocker or budget.
Resume ==
    /\ Live /\ (gates.paused \/ gates.hold)
    /\ Quiescent /\ Unknown = {}
    /\ gates.hold => /\ ~InputPending /\ ~gates.blocker
                     /\ ~gates.exhausted /\ gates.failure = "none"
    /\ SetGates([gates EXCEPT !.paused = FALSE, !.hold = FALSE])

HoldRecorded ==
    Live /\ "hold" \in Stops /\ ~gates.hold /\ SetGates([gates EXCEPT !.hold = TRUE])

ProgressBlocked ==
    /\ Live /\ "blocker" \in Stops /\ Quiescent /\ ~gates.paused
    /\ SetGates([gates EXCEPT !.blocker = TRUE])

NothingToEvaluate == \A c \in Criteria : ~PendingEvaluation(c)

\* Existing evidence is evaluated first; a derived outcome is never replaced.
ExecutionFailure ==
    /\ Live /\ "failure" \in Stops /\ Outcome \notin TerminalOutcomes
    /\ Quiescent => NothingToEvaluate
    /\ \E class \in {"blocked", "failed"} : SetGates([gates EXCEPT !.failure = class])

BudgetExhausted ==
    /\ Live /\ "budget" \in Stops /\ Outcome = "active" /\ NothingToEvaluate
    /\ Cardinality({c \in Calls : calls[c] # Rank.absent}) >= CallLimit
    /\ SetGates([gates EXCEPT !.exhausted = TRUE])

\* deriveAndSettleAssignmentKernelV2.
Terminal ==
    /\ Live /\ Quiescent /\ Outcome \in TerminalOutcomes
    /\ terminal' = Outcome
    /\ UNCHANGED <<ops, criteria, inputs, stale, calls, gates, calling, native, knew>>

----------------------------------------------------------------------------
OperationStep(o) ==
    \/ Admit(o) \/ DispatchStarted(o) \/ DispatchRecorded(o)
    \/ DispatchRefused(o) \/ FailureRefused(o)
    \/ ResultRecorded(o) \/ FailOperation(o)
    \/ RecoverOperation(o) \/ RecoveryFails(o)
    \/ ObservationRetained(o) \/ CommitRetry(o) \/ CommitFailed(o)
    \/ NativeCompletionReconciled(o)
    \/ NativeSend(o) \/ NativeFinish(o)

Next ==
    \/ \E o \in Ops : OperationStep(o)
    \/ \E x \in Vars : InputRequested(x) \/ InputSupplied(x)
    \/ \E c \in Criteria : CriterionEvaluated(c)
    \/ \E c \in Calls : \/ ProviderAdmitted(c) \/ ProviderReceipt(c)
                        \/ \E state \in DOMAIN Rank : ProviderState(c, state)
    \/ Pause \/ Resume \/ HoldRecorded \/ ProgressBlocked
    \/ ExecutionFailure \/ BudgetExhausted \/ Terminal

Spec == Init /\ [][Next]_vars

\* A call that nobody answers passes its deadline and is failed; an observation
\* is retained or given up on; a provider call returns or throws; progress
\* checkpoints settle a derived outcome unless the user paused the work.
Fairness ==
    /\ \A o \in Ops : /\ WF_vars(FailOperation(o))
                      /\ WF_vars(ObservationRetained(o) \/ CommitRetry(o) \/ CommitFailed(o))
    /\ \A c \in Calls : WF_vars(ProviderCompletes(c))
    /\ WF_vars(Terminal /\ ~gates.paused)

FairSpec == Spec /\ Fairness

----------------------------------------------------------------------------
(* Properties *)

\* Type invariant of the projection and of what surrounds it.
KernelTypeOK ==
    /\ ops \in [Ops -> Operation]
    /\ criteria \in [Criteria -> Evaluation]
    /\ inputs \in [Vars -> InputStates]
    /\ stale \subseteq Ops
    /\ calls \in [Calls -> 0 .. Rank.response_transport_completed]
    /\ gates \in Gates
    /\ terminal \in {"none"} \cup TerminalOutcomes
    /\ calling \in [Ops -> {"none"} \cup Dispatches]
    /\ native \in [Ops -> {"idle", "sent", "refused", "committed"}]
    /\ knew \in [Ops -> SUBSET Vars]

Writes == {o \in Ops : Effect[o] = "apply"}

\* The journal never asserts a persistent effect that Revit contradicts: a
\* write recorded as applied was committed, and a write whose result says that
\* nothing persists never reached Revit or was refused by it, now and later,
\* whatever answers were lost on the way.
EffectTruth ==
    \A o \in Writes :
        /\ ops[o].effect = "applied" => native[o] = "committed"
        /\ ops[o].status # "none" /\ ops[o].effect = "none" =>
              native[o] \in {"idle", "refused"}

\* A write and its retry never both reach the model: a retry is handed to
\* Revit only when its predecessor was never sent or was refused.
RetryAtMostOnce ==
    \A o \in Writes :
        RetryOf[o] # NoOp /\ native[o] # "idle" => native[RetryOf[o]] \in {"idle", "refused"}

\* A successful terminal outcome is never overtaken by the model: no write is
\* still on its way, every committed write is recorded and verified, and a
\* verified no-op is claimed only when nothing was committed.
SuccessIsFinal ==
    terminal \in Successes =>
        \A o \in Writes :
            /\ native[o] # "sent"
            /\ native[o] = "committed" => terminal = "complete" /\ Verified(o)

\* Criteria pass only on current inputs: no operation that supports a passing
\* criterion, and no write that such an operation verifies, was admitted before
\* an answer it depends on.
EvidenceCurrent ==
    \A c \in Passing : \A o \in criteria[c].support :
        \A p \in {o, VerifyOf[o]} \cap Ops : OpVars[p] \cap Known \subseteq knew[p]

\* The first recorded result of an operation stands, whichever of the caller,
\* the recovery and the deadline delivers it: a later step changes at most an
\* unknown effect, and then to what Revit really did.
FirstResultWins ==
    [][\A o \in Ops : ops[o].status # "none" =>
          /\ ops'[o].status = ops[o].status /\ ops'[o].dispatch = ops[o].dispatch
          /\ ops'[o].effect # ops[o].effect =>
                ops[o].effect = "unknown" /\ ops'[o].effect \in NativeTruth(o)]_vars

\* Work is resumed from a pause or a usage hold only at a safe boundary: no
\* write is on its way to Revit, and whatever Revit committed is recorded.
ResumeSafe ==
    [][(gates.paused /\ ~gates'.paused) \/ (gates.hold /\ ~gates'.hold) =>
          \A o \in Writes : /\ native[o] # "sent"
                            /\ native[o] = "committed" => ops[o].effect = "applied"]_vars

\* Giving up on an observation terminalizes the Assignment, unless the user
\* pauses it or is asked a question.
CommitFailureTerminalizes ==
    (\E o \in Ops : ops[o].settle = "observation_commit_failed")
        ~> (terminal # "none" \/ gates.paused \/ InputPending)

\* Pausing drains: admitted work and provider calls come to an end, so that a
\* paused Assignment reaches the safe boundary at which it can be resumed.
PauseDrains == gates.paused ~> (Quiescent \/ terminal # "none")
=============================================================================
