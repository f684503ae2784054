---------------------- MODULE AssignmentEvidenceProofs ----------------------
(***************************************************************************)
(* Proofs about AssignmentKernel over either transport: the projection is  *)
(* well typed, criteria pass only on current inputs, and the first result  *)
(* of an operation stands.                                                 *)
(***************************************************************************)
EXTENDS AssignmentKernel, TLAPS

\* The bound on the attempts to retain an observation is strict until the
\* last attempt fails.
AttemptsBounded ==
    \A o \in Ops :
        ops[o].settle # "observation_commit_failed" => ops[o].attempts < CommitLimit

TypeInv == KernelTypeOK /\ AttemptsBounded

\* Initially nothing is admitted.
LEMMA InitTypeInv == Init => TypeInv
<1> SUFFICES ASSUME Init PROVE TypeInv
  OBVIOUS
<1>1. Absent \in Operation /\ Absent.attempts < CommitLimit
  BY KernelConstants DEF Absent, Operation, Settlements, Dispatches, PersistentEffects,
                         Statuses, Authorities
<1>2. Unevaluated \in Evaluation
  BY DEF Unevaluated, Evaluation
<1>3. calls \in [Calls -> 0 .. Rank.response_transport_completed]
  BY DEF Init, Rank
<1>4. gates \in Gates /\ inputs \in [Vars -> InputStates]
  BY DEF Init, Gates, InputStates
<1>5. KernelTypeOK
  BY <1>1, <1>2, <1>3, <1>4 DEF Init, KernelTypeOK
<1>6. AttemptsBounded
  BY <1>1 DEF Init, AttemptsBounded
<1> QED
  BY <1>5, <1>6 DEF TypeInv

----------------------------------------------------------------------------
(* Steps of one operation *)

\* What a step of operation o makes of it.
Updated(o) ==
    /\ ops' = [ops EXCEPT ![o] = ops'[o]]
    /\ ops'[o] \in Operation
    /\ ops'[o].settle # "observation_commit_failed" => ops'[o].attempts < CommitLimit

\* A step that changes one operation within its type keeps TypeInv.
LEMMA UpdateTypeInv ==
    ASSUME TypeInv, NEW o \in Ops, Updated(o),
           UNCHANGED <<criteria, inputs, stale, calls, terminal, native>>,
           gates' \in Gates, calling' \in [Ops -> {"none"} \cup Dispatches],
           knew' \in [Ops -> SUBSET Vars]
    PROVE  TypeInv'
<1>1. ops' \in [Ops -> Operation] /\ \A q \in Ops \ {o} : ops'[q] = ops[q]
  BY DEF TypeInv, KernelTypeOK, Updated
<1>2. KernelTypeOK'
  BY <1>1 DEF TypeInv, KernelTypeOK
<1>3. AttemptsBounded'
  BY <1>1 DEF TypeInv, AttemptsBounded, Updated
<1> QED
  BY <1>2, <1>3 DEF TypeInv

\* The type of a result.
ResultTyped(r) ==
    /\ r.dispatch \in Dispatches /\ r.effect \in PersistentEffects /\ r.status \in Statuses
    /\ r.authority \in Authorities

\* Whatever is answered is of that type.
LEMMA AnswersTyped ==
    ASSUME TypeInv, NEW o \in Ops, NEW r \in NativeAnswers(o) \cup UndispatchedAnswers(o)
    PROVE  ResultTyped(r)
<1>1. ops[o].dispatch \in Dispatches /\ NativeTruth(o) \subseteq {"none", "applied"}
  BY KernelConstants DEF TypeInv, KernelTypeOK, Operation, NativeTruth, Effects, EffectRank
<1>2. CASE r \in UndispatchedAnswers(o)
  BY <1>2 DEF UndispatchedAnswers, ResultTyped, Dispatches, PersistentEffects, Statuses, Authorities
<1>3. CASE r \in NativeAnswers(o)
  <2>1. /\ r.dispatch \in {"dispatched", "dispatching"} /\ r.effect \in {"none", "unknown", "applied"}
        /\ r.status \in {"succeeded", "failed_after_dispatch"} /\ r.authority = "native-host"
    <3>1. CASE ops[o].dispatch = "dispatched"
      BY <3>1, <1>1, <1>3 DEF NativeAnswers, Answer
    <3>2. CASE ops[o].dispatch = "dispatching"
      BY <3>2, <1>3 DEF NativeAnswers, Answer
    <3>3. CASE ops[o].dispatch = "not_dispatched"
      BY <3>3, <1>3 DEF NativeAnswers
    <3> QED
      BY <1>1, <3>1, <3>2, <3>3 DEF Dispatches
  <2> QED
    BY <2>1 DEF ResultTyped, Dispatches, PersistentEffects, Statuses, Authorities
<1> QED
  BY <1>2, <1>3

\* Recording a typed result updates its operation within its type.
LEMMA RecordUpdates ==
    ASSUME TypeInv, NEW o \in Ops, NEW r, ResultTyped(r), Record(o, r)
    PROVE  Updated(o)
<1>1. PICK s \in {"retaining_observation", "settled"} :
        ops' = [ops EXCEPT ![o].settle = s, ![o].dispatch = r.dispatch, ![o].effect = r.effect,
                           ![o].status = r.status, ![o].authority = r.authority]
  BY DEF Record
<1>2. /\ ops' = [ops EXCEPT ![o] = ops'[o]]
      /\ ops'[o] = [ops[o] EXCEPT !.settle = s, !.dispatch = r.dispatch, !.effect = r.effect,
                                  !.status = r.status, !.authority = r.authority]
  BY <1>1 DEF TypeInv, KernelTypeOK, Operation
<1>3. ops'[o] \in Operation
  <2>1. ops[o] \in Operation /\ s \in Settlements
    BY DEF TypeInv, KernelTypeOK, Settlements
  <2> QED
    BY <1>2, <2>1 DEF Operation, ResultTyped
<1>4. ops[o].settle # "observation_commit_failed" /\ ops[o].attempts < CommitLimit
  BY DEF Record, TypeInv, AttemptsBounded
<1>5. ops'[o].attempts = ops[o].attempts
  BY <1>2 DEF TypeInv, KernelTypeOK, Operation
<1> QED
  BY <1>2, <1>3, <1>4, <1>5 DEF Updated

\* The steps of an operation that are journaled.
Journaled(o) ==
    \/ Admit(o) \/ DispatchStarted(o) \/ DispatchRecorded(o)
    \/ ResultRecorded(o) \/ FailOperation(o) \/ RecoveryFails(o)
    \/ ObservationRetained(o) \/ CommitRetry(o) \/ CommitFailed(o)
    \/ NativeCompletionReconciled(o)
    \/ DispatchRefused(o) \/ FailureRefused(o)

\* Every journaled step of an operation updates it within its type.
LEMMA JournaledUpdates == ASSUME TypeInv, NEW o \in Ops, Journaled(o) PROVE Updated(o)
<1>0. /\ ops \in [Ops -> Operation] /\ calling[o] \in {"none"} \cup Dispatches
      /\ ops[o] \in Operation
      /\ ops[o].settle # "observation_commit_failed" => ops[o].attempts < CommitLimit
  BY DEF TypeInv, KernelTypeOK, AttemptsBounded
<1>1. CASE Admit(o)
  <2>1. /\ ops' = [ops EXCEPT ![o] = ops'[o]]
        /\ ops'[o] = [ops[o] EXCEPT !.settle = "open"] /\ ops[o].settle = "absent"
    BY <1>0, <1>1 DEF Admit, Admitted, Operation
  <2> QED
    BY <1>0, <2>1 DEF Updated, Operation, Settlements
<1>2. CASE DispatchStarted(o)
  <2>1. /\ ops' = [ops EXCEPT ![o] = ops'[o]] /\ ops[o].settle = "open"
        /\ ops'[o] = [ops[o] EXCEPT !.dispatch = "dispatching", !.settle = "awaiting_result"]
    BY <1>0, <1>2 DEF DispatchStarted, Operation
  <2> QED
    BY <1>0, <2>1 DEF Updated, Operation, Settlements, Dispatches
<1>3. CASE DispatchRecorded(o)
  <2>1. PICK e \in {"none", "unknown"} :
          ops' = [ops EXCEPT ![o].dispatch = "dispatched", ![o].settle = "awaiting_result",
                             ![o].effect = e]
    BY <1>3 DEF DispatchRecorded
  <2>2. /\ ops' = [ops EXCEPT ![o] = ops'[o]]
        /\ ops'[o] = [ops[o] EXCEPT !.dispatch = "dispatched", !.settle = "awaiting_result",
                                    !.effect = e]
    BY <1>0, <2>1 DEF Operation
  <2>3. ops[o].settle # "observation_commit_failed"
    BY <1>3 DEF DispatchRecorded
  <2> QED
    BY <1>0, <2>1, <2>2, <2>3 DEF Updated, Operation, Settlements, Dispatches, PersistentEffects
<1>4. CASE ResultRecorded(o)
  BY <1>4, AnswersTyped, RecordUpdates DEF ResultRecorded
<1>5. CASE FailOperation(o) \/ RecoveryFails(o)
  <2>1. PICK d \in Dispatches : Record(o, TransportAnswer(o, d))
    BY <1>0, <1>5 DEF FailOperation, RecoveryFails, Operation, Dispatches
  <2>2. ResultTyped(TransportAnswer(o, d))
    BY DEF ResultTyped, TransportAnswer, Dispatches, PersistentEffects, Statuses, Authorities
  <2> QED
    BY <2>1, <2>2, RecordUpdates
<1>6. CASE ObservationRetained(o)
  <2>1. PICK v \in BOOLEAN :
          ops' = [ops EXCEPT ![o].settle = "settled", ![o].observed = TRUE, ![o].proven = v]
    BY <1>6 DEF ObservationRetained
  <2>2. /\ ops' = [ops EXCEPT ![o] = ops'[o]]
        /\ ops'[o] = [ops[o] EXCEPT !.settle = "settled", !.observed = TRUE, !.proven = v]
    BY <1>0, <2>1 DEF Operation
  <2>3. ops[o].settle # "observation_commit_failed"
    BY <1>6 DEF ObservationRetained
  <2> QED
    BY <1>0, <2>2, <2>3 DEF Updated, Operation, Settlements
<1>7. CASE CommitRetry(o)
  <2>1. /\ ops' = [ops EXCEPT ![o] = ops'[o]] /\ ops[o].attempts + 1 < CommitLimit
        /\ ops'[o] = [ops[o] EXCEPT !.attempts = @ + 1]
    BY <1>0, <1>7 DEF CommitRetry, Operation
  <2>2. ops[o].attempts + 1 \in 0 .. CommitLimit
    BY <1>0, <2>1, KernelConstants DEF Operation
  <2> QED
    BY <1>0, <2>1, <2>2 DEF Updated, Operation
<1>8. CASE CommitFailed(o)
  <2>1. /\ ops' = [ops EXCEPT ![o] = ops'[o]] /\ ops[o].settle = "retaining_observation"
        /\ ops'[o] = [ops[o] EXCEPT !.attempts = @ + 1, !.settle = "observation_commit_failed"]
    BY <1>0, <1>8 DEF CommitFailed, Operation
  <2>2. ops[o].attempts + 1 \in 0 .. CommitLimit
    BY <1>0, <2>1, KernelConstants DEF Operation
  <2> QED
    BY <1>0, <2>1, <2>2 DEF Updated, Operation, Settlements
<1>9. CASE NativeCompletionReconciled(o)
  <2>1. PICK e \in NativeTruth(o) : ops' = [ops EXCEPT ![o].effect = e]
    BY <1>9 DEF NativeCompletionReconciled
  <2>2. e \in PersistentEffects
    BY KernelConstants DEF NativeTruth, Effects, EffectRank, PersistentEffects
  <2>3. ops' = [ops EXCEPT ![o] = ops'[o]] /\ ops'[o] = [ops[o] EXCEPT !.effect = e]
    BY <1>0, <2>1 DEF Operation
  <2>4. ops[o].settle # "observation_commit_failed"
    BY <1>9 DEF NativeCompletionReconciled
  <2> QED
    BY <1>0, <2>2, <2>3, <2>4 DEF Updated, Operation
<1>10. CASE DispatchRefused(o) \/ FailureRefused(o)
  <2>1. PICK identity \in Identities : Refuse(o, identity)
    BY <1>10 DEF DispatchRefused, FailureRefused, Identities
  <2>2. /\ ops' = [ops EXCEPT ![o] = ops'[o]]
        /\ ops'[o] = [ops[o] EXCEPT !.refused = @ \cup {identity}]
    BY <1>0, <2>1 DEF Refuse, Operation
  <2> QED
    BY <1>0, <2>2 DEF Updated, Operation
<1> QED
  BY <1>1, <1>2, <1>3, <1>4, <1>5, <1>6, <1>7, <1>8, <1>9, <1>10 DEF Journaled

\* What a journaled step leaves alone.
LEMMA JournaledFrame ==
    ASSUME NEW o \in Ops, Journaled(o)
    PROVE  /\ UNCHANGED <<criteria, inputs, stale, calls, terminal, native>>
           /\ UNCHANGED gates \/ gates' = [gates EXCEPT !.blocker = TRUE]
           /\ UNCHANGED calling \/ calling' = [calling EXCEPT ![o] = "none"]
           /\ UNCHANGED knew \/ (Admit(o) /\ knew' = [knew EXCEPT ![o] = Known])
<1>1. CASE ResultRecorded(o) \/ FailOperation(o) \/ RecoveryFails(o)
  <2>1. PICK r : Record(o, r)
    BY <1>1 DEF ResultRecorded, FailOperation, RecoveryFails
  <2>2. UNCHANGED calling \/ calling' = [calling EXCEPT ![o] = "none"]
    BY <1>1 DEF ResultRecorded, FailOperation, RecoveryFails
  <2> QED
    BY <2>1, <2>2 DEF Record
<1>2. CASE Admit(o) \/ DispatchStarted(o) \/ DispatchRecorded(o) \/ ObservationRetained(o)
  BY <1>2 DEF Admit, DispatchStarted, DispatchRecorded, ObservationRetained
<1>3. CASE CommitRetry(o) \/ CommitFailed(o) \/ NativeCompletionReconciled(o)
  BY <1>3 DEF CommitRetry, CommitFailed, NativeCompletionReconciled
<1>4. CASE DispatchRefused(o) \/ FailureRefused(o)
  BY <1>4 DEF DispatchRefused, FailureRefused, Refuse
<1> QED
  BY <1>1, <1>2, <1>3, <1>4 DEF Journaled

\* Every step of an operation keeps TypeInv.
LEMMA OperationTypeInv == ASSUME TypeInv, NEW o \in Ops, OperationStep(o) PROVE TypeInv'
<1>1. CASE Journaled(o)
  <2>1. gates' \in Gates
    BY <1>1, JournaledFrame DEF TypeInv, KernelTypeOK, Gates
  <2>2. calling' \in [Ops -> {"none"} \cup Dispatches]
    BY <1>1, JournaledFrame DEF TypeInv, KernelTypeOK
  <2>3. knew' \in [Ops -> SUBSET Vars]
    BY <1>1, JournaledFrame DEF TypeInv, KernelTypeOK, Known
  <2> QED
    BY <1>1, <2>1, <2>2, <2>3, JournaledFrame, JournaledUpdates, UpdateTypeInv
<1>2. CASE RecoverOperation(o)
  <2>1. calling' \in [Ops -> {"none"} \cup Dispatches]
    BY <1>2 DEF RecoverOperation, TypeInv, KernelTypeOK, Operation
  <2> QED
    BY <1>2, <2>1 DEF RecoverOperation, kernel, TypeInv, KernelTypeOK, AttemptsBounded
<1>3. CASE NativeSend(o) \/ NativeFinish(o)
  <2>1. native' \in [Ops -> {"idle", "sent", "refused", "committed"}]
    BY <1>3 DEF NativeSend, NativeFinish, TypeInv, KernelTypeOK
  <2>2. UNCHANGED <<kernel, calling, knew>>
    BY <1>3 DEF NativeSend, NativeFinish
  <2> QED
    BY <2>1, <2>2 DEF kernel, TypeInv, KernelTypeOK, AttemptsBounded
<1> QED
  BY <1>1, <1>2, <1>3 DEF OperationStep, Journaled

----------------------------------------------------------------------------
(* All other steps *)

\* A change of the gates leaves everything else alone.
GateStep ==
    Pause \/ Resume \/ HoldRecorded \/ ProgressBlocked \/ ExecutionFailure \/ BudgetExhausted

\* The gates stay within their type.
LEMMA GateStepTypeInv == ASSUME TypeInv, GateStep PROVE TypeInv'
<1>1. PICK new : SetGates(new)
  BY DEF GateStep, Pause, Resume, HoldRecorded, ProgressBlocked, ExecutionFailure, BudgetExhausted
<1>2. gates' \in Gates
  <2>1. gates \in Gates
    BY DEF TypeInv, KernelTypeOK
  <2>2. CASE Pause \/ Resume \/ HoldRecorded
    BY <2>1, <2>2 DEF Pause, Resume, HoldRecorded, SetGates, Gates
  <2>3. CASE ProgressBlocked \/ ExecutionFailure \/ BudgetExhausted
    BY <2>1, <2>3 DEF ProgressBlocked, ExecutionFailure, BudgetExhausted, SetGates, Gates
  <2> QED
    BY <2>2, <2>3 DEF GateStep
<1> QED
  BY <1>1, <1>2 DEF SetGates, TypeInv, KernelTypeOK, AttemptsBounded

\* A step of a provider call leaves everything else alone.
CallStep ==
    \E c \in Calls : \/ ProviderAdmitted(c) \/ ProviderReceipt(c)
                     \/ \E state \in DOMAIN Rank : ProviderState(c, state)

\* The states of provider calls stay within their type.
LEMMA CallStepTypeInv == ASSUME TypeInv, CallStep PROVE TypeInv'
<1>1. PICK c \in Calls : \/ ProviderAdmitted(c) \/ ProviderReceipt(c)
                         \/ \E state \in DOMAIN Rank : ProviderState(c, state)
  BY DEF CallStep
<1>2. PICK n \in 0 .. 6 : calls' = [calls EXCEPT ![c] = n]
  BY <1>1 DEF ProviderAdmitted, ProviderReceipt, ProviderState, Rank
<1>3. calls' \in [Calls -> 0 .. Rank.response_transport_completed]
  BY <1>2 DEF TypeInv, KernelTypeOK, Rank
<1>4. UNCHANGED <<ops, criteria, inputs, stale, gates, terminal, calling, native, knew>>
  BY <1>1 DEF ProviderAdmitted, ProviderReceipt, ProviderState
<1> QED
  BY <1>3, <1>4 DEF TypeInv, KernelTypeOK, AttemptsBounded

\* Questions and answers stay within their type.
LEMMA InputTypeInv ==
    ASSUME TypeInv, NEW x \in Vars, InputRequested(x) \/ InputSupplied(x) PROVE TypeInv'
<1>1. Unevaluated \in Evaluation
  BY DEF Unevaluated, Evaluation
<1>2. inputs' \in [Vars -> InputStates] /\ stale' \subseteq Ops
  BY DEF InputRequested, InputSupplied, DependentOps, TypeInv, KernelTypeOK, InputStates
<1>3. criteria' \in [Criteria -> Evaluation]
  BY <1>1 DEF InputRequested, InputSupplied, TypeInv, KernelTypeOK
<1>4. UNCHANGED <<ops, calls, gates, terminal, calling, native, knew>>
  BY DEF InputRequested, InputSupplied
<1> QED
  BY <1>2, <1>3, <1>4 DEF TypeInv, KernelTypeOK, AttemptsBounded

\* What an evaluation makes of its criterion: a pass rests on admissible
\* evidence only.
LEMMA Evaluated ==
    ASSUME TypeInv, NEW c \in Criteria, CriterionEvaluated(c)
    PROVE  /\ criteria' = [criteria EXCEPT ![c] = criteria'[c]]
           /\ criteria'[c] \in Evaluation
           /\ criteria'[c].status = "pass" =>
                 \A o \in criteria'[c].support : o \in Ops /\ \E b : Admissible(c, o, b)
<1>0. PICK basis \in {"observation", "desired_state_equivalence"},
           verdict \in {"pass", "uncertain"} :
        \E support \in SUBSET {o \in Ops : Admissible(c, o, basis)} :
          criteria' = [criteria EXCEPT ![c] =
            Merge(@, [status |-> verdict, basis |-> basis, support |-> support,
                      seen |-> {o \in Ops : ops[o].observed}])]
  BY DEF CriterionEvaluated
<1>1. PICK support \in SUBSET {o \in Ops : Admissible(c, o, basis)} :
        criteria' = [criteria EXCEPT ![c] =
            Merge(@, [status |-> verdict, basis |-> basis, support |-> support,
                      seen |-> {o \in Ops : ops[o].observed}])]
  BY <1>0
<1> DEFINE new == [status |-> verdict, basis |-> basis, support |-> support,
                   seen |-> {o \in Ops : ops[o].observed}]
<1>2. criteria[c] \in Evaluation /\ new \in Evaluation
  BY DEF TypeInv, KernelTypeOK, Evaluation
<1>3. criteria'[c] = Merge(criteria[c], new) /\ criteria' = [criteria EXCEPT ![c] = criteria'[c]]
  BY <1>1 DEF TypeInv, KernelTypeOK
<1>4. Merge(criteria[c], new) \in Evaluation
  BY <1>2 DEF Merge, Evaluation
<1>5. Merge(criteria[c], new).status = "pass" => Merge(criteria[c], new).support = support
  BY DEF Merge
<1> QED
  BY <1>3, <1>4, <1>5

\* TypeInv holds in every reachable state.
LEMMA TypeInvHolds == Spec => []TypeInv
<1>1. TypeInv /\ [Next]_vars => TypeInv'
  <2> SUFFICES ASSUME TypeInv, [Next]_vars PROVE TypeInv'
    OBVIOUS
  <2>1. CASE UNCHANGED vars
    BY <2>1 DEF vars, TypeInv, KernelTypeOK, AttemptsBounded
  <2>2. ASSUME NEW o \in Ops, OperationStep(o) PROVE TypeInv'
    BY <2>2, OperationTypeInv
  <2>3. ASSUME NEW x \in Vars, InputRequested(x) \/ InputSupplied(x) PROVE TypeInv'
    BY <2>3, InputTypeInv
  <2>4. ASSUME NEW c \in Criteria, CriterionEvaluated(c) PROVE TypeInv'
    <3>1. UNCHANGED <<ops, inputs, stale, calls, gates, terminal, calling, native, knew>>
      BY <2>4 DEF CriterionEvaluated
    <3>2. criteria' \in [Criteria -> Evaluation]
      BY <2>4, Evaluated DEF TypeInv, KernelTypeOK
    <3> QED
      BY <3>1, <3>2 DEF TypeInv, KernelTypeOK, AttemptsBounded
  <2>5. CASE Terminal
    BY <2>5 DEF Terminal, TypeInv, KernelTypeOK, AttemptsBounded
  <2> QED
    BY <2>1, <2>2, <2>3, <2>4, <2>5, GateStepTypeInv, CallStepTypeInv DEF Next, GateStep, CallStep
<1> QED
  BY <1>1, InitTypeInv, PTL DEF Spec

\* The type invariant of the kernel holds over either transport: whatever is
\* admitted, answered, recovered or given up on (reducer.ts), the projection
\* keeps its shape and an observation is tried at most CommitLimit times.
THEOREM KernelTypeOKHolds == Spec => []KernelTypeOK
<1>1. TypeInv => KernelTypeOK
  BY DEF TypeInv
<1> QED
  BY <1>1, TypeInvHolds, PTL

----------------------------------------------------------------------------
(* Evidence and inputs *)

\* What EvidenceCurrent rests on: an operation that predates an answer it
\* depends on is stale, a verification follows an admitted write, and a passing
\* criterion is supported by admitted operations that are not stale.
StaleMarked ==
    \A o \in Ops : Admitted(o) => o \in stale \/ OpVars[o] \cap Known \subseteq knew[o]

VerifiesAdmitted == \A o \in Ops : Admitted(o) /\ VerifyOf[o] # NoOp => Admitted(VerifyOf[o])

SupportCurrent ==
    \A c \in Passing : \A o \in criteria[c].support : Admitted(o) /\ UsesCurrentInputs(o)

EvidenceInv == StaleMarked /\ VerifiesAdmitted /\ SupportCurrent

\* A journaled step of an operation admits it or leaves the admitted ones.
LEMMA JournaledEvidenceInv ==
    ASSUME TypeInv, EvidenceInv, NEW o \in Ops, Journaled(o) PROVE EvidenceInv'
<1>1. /\ \A q \in Ops \ {o} : ops'[q] = ops[q] /\ knew'[q] = knew[q]
      /\ UNCHANGED <<criteria, inputs, stale>>
  BY JournaledFrame, JournaledUpdates DEF Updated, TypeInv, KernelTypeOK
<1>2. ops'[o].settle # "absent"
  <2>0. ops \in [Ops -> Operation]
    BY DEF TypeInv, KernelTypeOK
  <2>1. CASE ResultRecorded(o) \/ FailOperation(o) \/ RecoveryFails(o)
    <3>1. PICK r : Record(o, r)
      BY <2>1 DEF ResultRecorded, FailOperation, RecoveryFails
    <3> QED
      BY <2>0, <3>1 DEF Record, Operation
  <2>2. CASE Admit(o) \/ DispatchStarted(o) \/ DispatchRecorded(o) \/ ObservationRetained(o)
    BY <2>0, <2>2 DEF Admit, DispatchStarted, DispatchRecorded, ObservationRetained, Operation
  <2>3. CASE CommitRetry(o) \/ CommitFailed(o) \/ NativeCompletionReconciled(o)
    BY <2>0, <2>3 DEF CommitRetry, CommitFailed, NativeCompletionReconciled, Operation
  <2>4. CASE DispatchRefused(o) \/ FailureRefused(o)
    BY <2>0, <2>4 DEF DispatchRefused, FailureRefused, Refuse, Operation
  <2> QED
    BY <2>1, <2>2, <2>3, <2>4 DEF Journaled
<1>3. \A q \in Ops : Admitted(q) => Admitted(q)'
  BY <1>1, <1>2 DEF Admitted
<1>4. \/ Admitted(o) /\ UNCHANGED knew
      \/ knew'[o] = Known /\ (VerifyOf[o] # NoOp => Admitted(VerifyOf[o]))
  <2>1. CASE Admit(o)
    BY <2>1 DEF Admit, Admitted, TypeInv, KernelTypeOK
  <2>2. CASE ~Admit(o)
    <3>1. UNCHANGED knew
      BY <2>2, JournaledFrame
    <3>2. CASE ResultRecorded(o) \/ FailOperation(o) \/ RecoveryFails(o)
      <4>1. PICK r : Record(o, r)
        BY <3>2 DEF ResultRecorded, FailOperation, RecoveryFails
      <4> QED
        BY <3>1, <4>1 DEF Record, Admitted
    <3>3. CASE ~(ResultRecorded(o) \/ FailOperation(o) \/ RecoveryFails(o))
      BY <2>2, <3>1, <3>3
         DEF Journaled, DispatchStarted, DispatchRecorded, ObservationRetained, CommitRetry,
             CommitFailed, NativeCompletionReconciled, DispatchRefused, FailureRefused, Refuse,
             Admitted
    <3> QED
      BY <3>2, <3>3
  <2> QED
    BY <2>1, <2>2
<1>5. StaleMarked'
  <2>1. Known' = Known
    BY <1>1 DEF Known
  <2>2. o \in stale \/ OpVars[o] \cap Known \subseteq knew'[o]
    BY <1>4 DEF EvidenceInv, StaleMarked
  <2>3. \A q \in Ops \ {o} : Admitted(q)' => q \in stale \/ OpVars[q] \cap Known \subseteq knew'[q]
    BY <1>1 DEF EvidenceInv, StaleMarked, Admitted
  <2> QED
    BY <1>1, <2>1, <2>2, <2>3 DEF StaleMarked
<1>6. VerifiesAdmitted'
  <2> SUFFICES ASSUME NEW q \in Ops, Admitted(q)', VerifyOf[q] # NoOp PROVE Admitted(VerifyOf[q])'
    BY DEF VerifiesAdmitted
  <2>1. VerifyOf[q] \in Ops
    BY KernelConstants DEF Links
  <2>2. Admitted(VerifyOf[q])
    <3>1. CASE q = o
      BY <3>1, <1>4 DEF EvidenceInv, VerifiesAdmitted
    <3>2. CASE q # o
      BY <3>2, <1>1 DEF EvidenceInv, VerifiesAdmitted, Admitted
    <3> QED
      BY <3>1, <3>2
  <2> QED
    BY <1>3, <2>1, <2>2
<1>7. SupportCurrent'
  <2>1. Passing' = Passing /\ \A q : UsesCurrentInputs(q)' = UsesCurrentInputs(q)
    BY <1>1 DEF Passing, UsesCurrentInputs
  <2>2. \A c \in Passing : criteria[c].support \subseteq Ops
    BY DEF Passing, TypeInv, KernelTypeOK, Evaluation
  <2> QED
    BY <1>1, <1>3, <2>1, <2>2 DEF EvidenceInv, SupportCurrent
<1> QED
  BY <1>5, <1>6, <1>7 DEF EvidenceInv

\* An answer marks every admitted operation that depends on it and resets the
\* criteria.
LEMMA SuppliedEvidenceInv ==
    ASSUME TypeInv, EvidenceInv, NEW x \in Vars, InputSupplied(x) PROVE EvidenceInv'
<1>1. UNCHANGED <<ops, knew>> /\ stale' = stale \cup DependentOps(x)
  BY DEF InputSupplied
<1>2. Known' \subseteq Known \cup {x}
  BY DEF InputSupplied, Known, TypeInv, KernelTypeOK
<1>3. StaleMarked'
  <2> SUFFICES ASSUME NEW o \in Ops, Admitted(o), o \notin stale'
               PROVE  OpVars[o] \cap Known' \subseteq knew[o]
    BY <1>1 DEF StaleMarked, Admitted
  <2>1. x \notin OpVars[o] /\ o \notin stale
    BY <1>1 DEF DependentOps
  <2>2. OpVars[o] \cap Known \subseteq knew[o]
    BY <2>1 DEF EvidenceInv, StaleMarked
  <2> QED
    BY <2>1, <2>2, <1>2
<1>4. VerifiesAdmitted'
  BY <1>1 DEF EvidenceInv, VerifiesAdmitted, Admitted
<1>5. SupportCurrent'
  <2>1. Passing' = {}
    BY DEF InputSupplied, Passing, Unevaluated
  <2> QED
    BY <2>1 DEF SupportCurrent
<1> QED
  BY <1>3, <1>4, <1>5 DEF EvidenceInv

\* An evaluation admits only current evidence of admitted operations.
LEMMA EvaluatedEvidenceInv ==
    ASSUME TypeInv, EvidenceInv, NEW c \in Criteria, CriterionEvaluated(c) PROVE EvidenceInv'
<1>1. UNCHANGED <<ops, inputs, stale, knew>>
  BY DEF CriterionEvaluated
<1>2. StaleMarked' /\ VerifiesAdmitted'
  BY <1>1 DEF EvidenceInv, StaleMarked, VerifiesAdmitted, Admitted, Known
<1>3. \A d \in Criteria \ {c} : criteria'[d] = criteria[d]
  BY Evaluated DEF TypeInv, KernelTypeOK
<1>4. criteria'[c].status = "pass" =>
        \A o \in criteria'[c].support : Admitted(o) /\ UsesCurrentInputs(o)
  BY Evaluated DEF Admissible, Admitted
<1>5. SupportCurrent'
  <2> SUFFICES ASSUME NEW d \in Criteria, criteria'[d].status = "pass",
                      NEW o \in criteria'[d].support
               PROVE  Admitted(o) /\ UsesCurrentInputs(o)
    BY <1>1 DEF SupportCurrent, Passing, Admitted, UsesCurrentInputs
  <2>1. CASE d = c
    BY <2>1, <1>4
  <2>2. CASE d # c
    BY <2>2, <1>3 DEF EvidenceInv, SupportCurrent, Passing
  <2> QED
    BY <2>1, <2>2
<1> QED
  BY <1>2, <1>5 DEF EvidenceInv

\* Steps that leave evidence, inputs and operations alone.
LEMMA OtherEvidenceInv ==
    ASSUME EvidenceInv, UNCHANGED <<ops, criteria, stale, knew>>, Known' = Known PROVE EvidenceInv'
BY DEF EvidenceInv, StaleMarked, VerifiesAdmitted, SupportCurrent, Passing, Admitted,
       UsesCurrentInputs

\* Criteria pass only on current inputs, over either transport and however
\* answers, admissions, results and evaluations interleave
\* (invalidateDependentInputResultsV2, operationUsesCurrentInputsV2).
THEOREM EvidenceCurrentHolds == Spec => []EvidenceCurrent
<1>1. Init => EvidenceInv
  BY DEF Init, EvidenceInv, StaleMarked, VerifiesAdmitted, SupportCurrent, Admitted, Absent,
         Passing, Unevaluated
<1>2. TypeInv /\ EvidenceInv /\ [Next]_vars => EvidenceInv'
  <2> SUFFICES ASSUME TypeInv, EvidenceInv, [Next]_vars PROVE EvidenceInv'
    OBVIOUS
  <2>1. CASE UNCHANGED vars
    BY <2>1, OtherEvidenceInv DEF vars, Known
  <2>2. ASSUME NEW o \in Ops, OperationStep(o) PROVE EvidenceInv'
    <3>1. CASE Journaled(o)
      BY <3>1, JournaledEvidenceInv
    <3>2. CASE RecoverOperation(o) \/ NativeSend(o) \/ NativeFinish(o)
      BY <3>2, OtherEvidenceInv DEF RecoverOperation, NativeSend, NativeFinish, kernel, Known
    <3> QED
      BY <2>2, <3>1, <3>2 DEF OperationStep, Journaled
  <2>3. ASSUME NEW x \in Vars, InputRequested(x) PROVE EvidenceInv'
    <3>1. Known' = Known
      BY <2>3 DEF InputRequested, Known, TypeInv, KernelTypeOK
    <3> QED
      BY <2>3, <3>1, OtherEvidenceInv DEF InputRequested
  <2>4. ASSUME NEW x \in Vars, InputSupplied(x) PROVE EvidenceInv'
    BY <2>4, SuppliedEvidenceInv
  <2>5. ASSUME NEW c \in Criteria, CriterionEvaluated(c) PROVE EvidenceInv'
    BY <2>5, EvaluatedEvidenceInv
  <2>6. CASE CallStep
    BY <2>6, OtherEvidenceInv
       DEF CallStep, ProviderAdmitted, ProviderReceipt, ProviderState, Known
  <2>7. CASE GateStep
    BY <2>7, OtherEvidenceInv
       DEF GateStep, Pause, Resume, HoldRecorded, ProgressBlocked, ExecutionFailure,
           BudgetExhausted, SetGates, Known
  <2>8. CASE Terminal
    BY <2>8, OtherEvidenceInv DEF Terminal, Known
  <2> QED
    BY <2>1, <2>2, <2>3, <2>4, <2>5, <2>6, <2>7, <2>8 DEF Next, GateStep, CallStep
<1>3. TypeInv /\ EvidenceInv => EvidenceCurrent
  <2> SUFFICES ASSUME TypeInv, EvidenceInv, NEW c \in Passing, NEW o \in criteria[c].support,
                      NEW p \in {o, VerifyOf[o]} \cap Ops
               PROVE  OpVars[p] \cap Known \subseteq knew[p]
    BY DEF EvidenceCurrent
  <2>1. o \in Ops /\ Admitted(o) /\ UsesCurrentInputs(o)
    BY DEF EvidenceInv, SupportCurrent, Passing, TypeInv, KernelTypeOK, Evaluation
  <2>2. Admitted(p) /\ p \notin stale
    BY <2>1, KernelConstants DEF EvidenceInv, VerifiesAdmitted, UsesCurrentInputs
  <2> QED
    BY <2>2 DEF EvidenceInv, StaleMarked
<1> QED
  BY <1>1, <1>2, <1>3, TypeInvHolds, PTL DEF Spec

----------------------------------------------------------------------------
(* First results *)

\* Operations without an answer, and with one.
Unanswered == {"absent", "open", "awaiting_result"}
ResultsRecorded == \A o \in Ops : ops[o].status = "none" <=> ops[o].settle \in Unanswered

\* A step of operation p, seen from operation o.
Stands(o) ==
    ops[o].status # "none" =>
        /\ ops'[o].status = ops[o].status /\ ops'[o].dispatch = ops[o].dispatch
        /\ ops'[o].effect # ops[o].effect =>
              ops[o].effect = "unknown" /\ ops'[o].effect \in NativeTruth(o)
StaysRecorded(o) == ops'[o].status = "none" <=> ops'[o].settle \in Unanswered

\* Every answer has a status.
LEMMA AnswersHaveStatus ==
    ASSUME NEW o \in Ops, NEW r, Record(o, r),
           \/ r \in NativeAnswers(o) \cup UndispatchedAnswers(o)
           \/ \E d : r = TransportAnswer(o, d)
    PROVE  r.status # "none"
<1>1. CASE r \in NativeAnswers(o)
  <2>1. r.status \in {"succeeded", "failed_after_dispatch"}
    <3>1. CASE ops[o].dispatch = "dispatched"
      BY <1>1, <3>1 DEF NativeAnswers, Answer
    <3>2. CASE ops[o].dispatch = "dispatching"
      BY <1>1, <3>2 DEF NativeAnswers, Answer
    <3>3. CASE ops[o].dispatch \notin {"dispatched", "dispatching"}
      BY <1>1, <3>3 DEF NativeAnswers
    <3> QED
      BY <3>1, <3>2, <3>3
  <2> QED
    BY <2>1
<1>2. CASE r \in UndispatchedAnswers(o)
  BY <1>2 DEF UndispatchedAnswers
<1>3. CASE \E d : r = TransportAnswer(o, d)
  BY <1>3 DEF TransportAnswer
<1> QED
  BY <1>1, <1>2, <1>3

\* A recorded result is the first one of its operation, and concerns no other.
LEMMA RecordStands ==
    ASSUME TypeInv, ResultsRecorded, NEW p \in Ops, NEW r, Record(p, r), r.status # "none",
           NEW o \in Ops
    PROVE  Stands(o) /\ StaysRecorded(o)
<1>1. ops \in [Ops -> Operation] /\ ops[p].status = "none"
  BY DEF TypeInv, KernelTypeOK, ResultsRecorded, Record, Unanswered
<1>2. CASE p # o
  <2>1. ops'[o] = ops[o]
    BY <1>1, <1>2 DEF Record
  <2> QED
    BY <2>1 DEF Stands, StaysRecorded, ResultsRecorded
<1>3. CASE p = o
  <2>1. /\ ops'[o].status = r.status
        /\ ops'[o].settle \in {"retaining_observation", "settled"}
    BY <1>1, <1>3 DEF Record, Operation
  <2> QED
    BY <1>1, <1>3, <2>1 DEF Stands, StaysRecorded, Unanswered
<1> QED
  BY <1>2, <1>3

\* Every step of an operation, repeated calls of the courier included, leaves
\* the first results.
LEMMA OperationStands ==
    ASSUME TypeInv, ResultsRecorded, NEW p \in Ops, OperationStep(p), NEW o \in Ops
    PROVE  Stands(o) /\ StaysRecorded(o)
<1>0. ops \in [Ops -> Operation] /\ (ops[o].status = "none" <=> ops[o].settle \in Unanswered)
  BY DEF TypeInv, KernelTypeOK, ResultsRecorded
<1>1. CASE NativeSend(p) \/ NativeFinish(p) \/ RecoverOperation(p)
  BY <1>0, <1>1 DEF NativeSend, NativeFinish, RecoverOperation, kernel, Stands, StaysRecorded
<1>2. CASE Admit(p) \/ DispatchStarted(p)
  BY <1>0, <1>2
     DEF Admit, DispatchStarted, Admitted, Unanswered, Operation, Stands, StaysRecorded
<1>3. CASE DispatchRecorded(p)
  BY <1>0, <1>3 DEF DispatchRecorded, Unanswered, Operation, Stands, StaysRecorded
<1>4. CASE ResultRecorded(p) \/ FailOperation(p) \/ RecoveryFails(p)
  <2>1. PICK r : /\ Record(p, r)
                 /\ \/ r \in NativeAnswers(p) \cup UndispatchedAnswers(p)
                    \/ \E d : r = TransportAnswer(p, d)
    BY <1>4 DEF ResultRecorded, FailOperation, RecoveryFails
  <2>2. r.status # "none"
    BY <2>1, AnswersHaveStatus
  <2> QED
    BY <2>1, <2>2, RecordStands
<1>5. CASE ObservationRetained(p)
  <2>1. PICK proven \in BOOLEAN :
          ops' = [ops EXCEPT ![p].settle = "settled", ![p].observed = TRUE, ![p].proven = proven]
    BY <1>5 DEF ObservationRetained
  <2>2. /\ ops'[o].status = ops[o].status /\ ops'[o].dispatch = ops[o].dispatch
        /\ ops'[o].effect = ops[o].effect
        /\ ops'[o].settle = IF o = p THEN "settled" ELSE ops[o].settle
    BY <1>0, <2>1 DEF Operation
  <2> QED
    BY <1>0, <1>5, <2>2 DEF ObservationRetained, Stands, StaysRecorded, Unanswered
<1>6. CASE CommitRetry(p) \/ CommitFailed(p)
  <2>1. /\ ops'[o].status = ops[o].status /\ ops'[o].dispatch = ops[o].dispatch
        /\ ops'[o].effect = ops[o].effect
        /\ \/ ops'[o].settle = ops[o].settle
           \/ o = p /\ ops'[o].settle = "observation_commit_failed"
    BY <1>0, <1>6 DEF CommitRetry, CommitFailed, Operation
  <2>2. ops[p].settle = "retaining_observation"
    BY <1>6 DEF CommitRetry, CommitFailed
  <2> QED
    BY <1>0, <2>1, <2>2 DEF Stands, StaysRecorded, Unanswered
<1>7. CASE NativeCompletionReconciled(p)
  <2>1. PICK e \in NativeTruth(p) : ops' = [ops EXCEPT ![p].effect = e]
    BY <1>7 DEF NativeCompletionReconciled
  <2>2. /\ ops'[o].status = ops[o].status /\ ops'[o].dispatch = ops[o].dispatch
        /\ ops'[o].settle = ops[o].settle
        /\ ops'[o].effect = IF o = p THEN e ELSE ops[o].effect
    BY <1>0, <2>1 DEF Operation
  <2> QED
    BY <1>0, <1>7, <2>1, <2>2 DEF NativeCompletionReconciled, Stands, StaysRecorded
<1>8. CASE DispatchRefused(p) \/ FailureRefused(p)
  <2>1. PICK identity : ops' = [ops EXCEPT ![p].refused = @ \cup {identity}]
    BY <1>8 DEF DispatchRefused, FailureRefused, Refuse
  <2>2. /\ ops'[o].status = ops[o].status /\ ops'[o].dispatch = ops[o].dispatch
        /\ ops'[o].settle = ops[o].settle /\ ops'[o].effect = ops[o].effect
    BY <1>0, <2>1 DEF Operation
  <2> QED
    BY <1>0, <2>2 DEF Stands, StaysRecorded
<1> QED
  BY <1>1, <1>2, <1>3, <1>4, <1>5, <1>6, <1>7, <1>8 DEF OperationStep

\* Nothing else touches operations.
LEMMA NextStands ==
    ASSUME TypeInv, ResultsRecorded, Next
    PROVE  \A o \in Ops : Stands(o) /\ StaysRecorded(o)
<1>1. CASE \E p \in Ops : OperationStep(p)
  BY <1>1, OperationStands
<1>2. CASE ~\E p \in Ops : OperationStep(p)
  <2>1. UNCHANGED ops
    BY <1>2 DEF Next, InputRequested, InputSupplied, CriterionEvaluated, ProviderAdmitted,
       ProviderReceipt, ProviderState, Terminal, Pause, Resume, HoldRecorded, ProgressBlocked,
       ExecutionFailure, BudgetExhausted, SetGates
  <2> QED
    BY <2>1 DEF Stands, StaysRecorded, ResultsRecorded
<1> QED
  BY <1>1, <1>2

\* The first recorded result of an operation stands, over either transport and
\* whichever of the caller, a repeated call and the deadline delivers it: a
\* later step changes at most an unknown effect, to what Revit did (the
\* reducer's operation_result_recorded and the late native completion).
THEOREM FirstResultWinsHolds == Spec => FirstResultWins
<1>1. Init => ResultsRecorded
  BY DEF Init, Absent, ResultsRecorded, Unanswered
<1>2. TypeInv /\ ResultsRecorded /\ [Next]_vars => ResultsRecorded'
  <2>1. CASE UNCHANGED vars
    BY <2>1 DEF vars, ResultsRecorded
  <2>2. CASE Next
    BY <2>2, NextStands DEF ResultsRecorded, StaysRecorded
  <2> QED
    BY <2>1, <2>2
<1>3. TypeInv /\ ResultsRecorded /\ [Next]_vars =>
        [\A o \in Ops : ops[o].status # "none" =>
           /\ ops'[o].status = ops[o].status /\ ops'[o].dispatch = ops[o].dispatch
           /\ ops'[o].effect # ops[o].effect =>
                 ops[o].effect = "unknown" /\ ops'[o].effect \in NativeTruth(o)]_vars
  BY NextStands DEF Stands
<1> QED
  BY <1>1, <1>2, <1>3, TypeInvHolds, PTL DEF Spec, FirstResultWins
=============================================================================
