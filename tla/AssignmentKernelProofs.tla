----------------------- MODULE AssignmentKernelProofs -----------------------
(***************************************************************************)
(* Proofs about AssignmentKernel over the direct transport, for every set  *)
(* of operations, criteria, inputs and calls: what the journal says about  *)
(* a write is true, a write and its retry never both reach the model, and  *)
(* a successful outcome is never overtaken by the model.                   *)
(*                                                                         *)
(* Each property rests on Consistent, which relates what the journal knows *)
(* of one operation to what Revit did with it: without dispatch nothing    *)
(* reached Revit, a result exists exactly when the operation left its open *)
(* states, and the two effects agree.                                      *)
(***************************************************************************)
EXTENDS AssignmentKernel, TLAPS

Natives == {"idle", "sent", "refused", "committed"}
Unanswered == {"absent", "open", "awaiting_result"}

Typed ==
    /\ ops \in [Ops -> Operation]
    /\ native \in [Ops -> Natives]
    /\ calling = [o \in Ops |-> "none"]
    /\ gates \in Gates

Consistent(o) ==
    /\ native[o] # "idle" =>
          ops[o].dispatch # "not_dispatched" /\ ops[o].settle # "absent"
    /\ ops[o].status = "none" <=> ops[o].settle \in Unanswered
    /\ ops[o].effect = "applied" => native[o] = "committed"
    /\ Effect[o] = "apply" /\ ops[o].status # "none" /\ ops[o].effect = "none" =>
          native[o] \in {"idle", "refused"}
    /\ ops[o].settle # "observation_commit_failed" => ops[o].attempts < CommitLimit

\* An admitted retry has a predecessor that settled without an effect.
RetrySafe ==
    \A o \in Ops : RetryOf[o] # NoOp /\ ops[o].settle # "absent" =>
        ops[RetryOf[o]].settle = "settled" /\ ops[RetryOf[o]].effect = "none"

\* Every lost observation left a blocker.
Blocked == \A o \in Ops : ops[o].settle = "observation_commit_failed" => gates.blocker

KernelInv == Typed /\ (\A o \in Ops : Consistent(o)) /\ RetrySafe /\ Blocked

----------------------------------------------------------------------------
\* Initially nothing is admitted and nothing reached Revit.
LEMMA InitKernelInv == Init => KernelInv
<1> SUFFICES ASSUME Init PROVE KernelInv
  OBVIOUS
<1>1. Absent \in Operation
  BY KernelConstants DEF Absent, Operation, Settlements, Dispatches, PersistentEffects,
                         Statuses, Authorities
<1>2. Typed
  BY <1>1 DEF Init, Typed, Natives, Gates
<1>3. \A o \in Ops : Consistent(o)
  BY KernelConstants DEF Init, Consistent, Absent, Unanswered
<1>4. RetrySafe /\ Blocked
  BY DEF Init, RetrySafe, Blocked, Absent
<1> QED
  BY <1>2, <1>3, <1>4 DEF KernelInv
----------------------------------------------------------------------------
(* Steps of one operation *)

\* What a step of operation o that leaves Revit alone has to respect: r is the
\* operation after it.
Respects(o, r) ==
    /\ r \in Operation
    /\ native[o] # "idle" => r.dispatch # "not_dispatched" /\ r.settle # "absent"
    /\ r.status = "none" <=> r.settle \in Unanswered
    /\ r.effect = "applied" => native[o] = "committed"
    /\ Effect[o] = "apply" /\ r.status # "none" /\ r.effect = "none" =>
          native[o] \in {"idle", "refused"}
    /\ r.settle # "observation_commit_failed" => r.attempts < CommitLimit
    /\ ops[o].settle = "settled" /\ ops[o].effect = "none" =>
          r.settle = "settled" /\ r.effect = "none"
    /\ RetryOf[o] # NoOp /\ ops[o].settle = "absent" /\ r.settle # "absent" =>
          ops[RetryOf[o]].settle = "settled" /\ ops[RetryOf[o]].effect = "none"

\* A step that changes one operation respectfully keeps the invariant.
LEMMA OperationFrame ==
    ASSUME KernelInv, NEW o \in Ops,
           ops' = [ops EXCEPT ![o] = ops'[o]], Respects(o, ops'[o]),
           UNCHANGED <<native, calling>>, gates' \in Gates,
           gates.blocker => gates'.blocker,
           ops'[o].settle = "observation_commit_failed" => gates'.blocker
    PROVE  KernelInv'
<1>1. \A q \in Ops \ {o} : ops'[q] = ops[q]
  BY DEF KernelInv, Typed
<1>2. Typed'
  BY DEF KernelInv, Typed, Respects
<1>3. \A q \in Ops : Consistent(q)'
  <2> SUFFICES ASSUME NEW q \in Ops PROVE Consistent(q)'
    OBVIOUS
  <2>1. CASE q = o
    BY <2>1 DEF Respects, Consistent
  <2>2. CASE q # o
    BY <2>2, <1>1 DEF KernelInv, Consistent
  <2> QED
    BY <2>1, <2>2
<1>4. RetrySafe'
  <2> SUFFICES ASSUME NEW q \in Ops, RetryOf[q] # NoOp, ops'[q].settle # "absent"
               PROVE  /\ ops'[RetryOf[q]].settle = "settled"
                      /\ ops'[RetryOf[q]].effect = "none"
    BY DEF RetrySafe
  <2>1. RetryOf[q] \in Ops /\ RetryOf[q] # q
    BY KernelConstants, KernelTopology DEF Links, WellFormed
  <2>2. ops[RetryOf[q]].settle = "settled" /\ ops[RetryOf[q]].effect = "none"
    <3>1. CASE ops[q].settle # "absent"
      BY <3>1 DEF KernelInv, RetrySafe
    <3>2. CASE ops[q].settle = "absent"
      BY <3>2, <1>1 DEF Respects
    <3> QED
      BY <3>1, <3>2
  <2>3. CASE RetryOf[q] = o
    BY <2>2, <2>3 DEF Respects
  <2>4. CASE RetryOf[q] # o
    BY <2>1, <2>2, <2>4, <1>1
  <2> QED
    BY <2>3, <2>4
<1>5. Blocked'
  BY <1>1 DEF KernelInv, Blocked
<1> QED
  BY <1>2, <1>3, <1>4, <1>5 DEF KernelInv

\* A step that leaves the operations alone keeps the invariant.
LEMMA OtherFrame ==
    ASSUME KernelInv, UNCHANGED <<ops, native, calling>>, gates' \in Gates,
           gates.blocker => gates'.blocker
    PROVE  KernelInv'
BY DEF KernelInv, Typed, Consistent, RetrySafe, Blocked

\* Admission: a retry needs a settled predecessor without effect.
LEMMA AdmitInv == ASSUME KernelInv, NEW o \in Ops, Admit(o) PROVE KernelInv'
<1>1. /\ ops' = [ops EXCEPT ![o] = ops'[o]] /\ ops[o].settle = "absent"
      /\ ops'[o] = [ops[o] EXCEPT !.settle = "open"]
  BY DEF Admit, Admitted, KernelInv, Typed, Operation
<1>2. ops'[o] \in Operation
  BY <1>1 DEF KernelInv, Typed, Operation, Settlements
<1>3. Respects(o, ops'[o])
  BY <1>1, <1>2 DEF Respects, KernelInv, Typed, Operation, Consistent, Unanswered, Admit, RetryAdmits
<1> QED
  BY <1>1, <1>3, OperationFrame DEF Admit, KernelInv, Typed, Operation

\* The start of the dispatch is journaled before the call.
LEMMA DispatchStartedInv == ASSUME KernelInv, NEW o \in Ops, DispatchStarted(o) PROVE KernelInv'
<1>1. /\ ops' = [ops EXCEPT ![o] = ops'[o]] /\ ops[o].settle = "open"
      /\ ops'[o] = [ops[o] EXCEPT !.dispatch = "dispatching", !.settle = "awaiting_result"]
  BY DEF DispatchStarted, KernelInv, Typed, Operation
<1>2. ops'[o] \in Operation
  BY <1>1 DEF KernelInv, Typed, Operation, Settlements, Dispatches
<1>3. Respects(o, ops'[o])
  BY <1>1, <1>2 DEF Respects, KernelInv, Typed, Operation, Consistent, Unanswered
<1> QED
  BY <1>1, <1>3, OperationFrame DEF DispatchStarted, KernelInv, Typed, Operation

\* A recorded dispatch makes the effect of a write unknown.
LEMMA DispatchRecordedInv == ASSUME KernelInv, NEW o \in Ops, DispatchRecorded(o) PROVE KernelInv'
<1>1. PICK e \in {"none", "unknown"} :
        /\ ops' = [ops EXCEPT ![o].dispatch = "dispatched", ![o].settle = "awaiting_result",
                              ![o].effect = e]
        /\ Effect[o] # "read" => e = "unknown"
  BY DEF DispatchRecorded
<1>2. /\ ops' = [ops EXCEPT ![o] = ops'[o]]
      /\ ops'[o] = [ops[o] EXCEPT !.dispatch = "dispatched", !.settle = "awaiting_result",
                                  !.effect = e]
  BY <1>1 DEF KernelInv, Typed, Operation
<1>3. /\ ops[o].settle \in {"open", "awaiting_result"} /\ UNCHANGED <<native, calling, gates>>
  BY DEF DispatchRecorded
<1>4. ops'[o] \in Operation
  BY <1>1, <1>2 DEF KernelInv, Typed, Operation, Settlements, Dispatches, PersistentEffects
<1>5. Respects(o, ops'[o])
  BY <1>1, <1>2, <1>3, <1>4 DEF Respects, KernelInv, Typed, Operation, Consistent, Unanswered
<1>6. /\ ops'[o].settle # "observation_commit_failed" /\ gates' \in Gates
      /\ gates.blocker => gates'.blocker
  BY <1>1, <1>2, <1>3 DEF KernelInv, Typed, Operation
<1>7. UNCHANGED <<native, calling>>
  BY <1>3
<1>8. ops' = [ops EXCEPT ![o] = ops'[o]]
  BY <1>2
<1> QED
  BY <1>5, <1>6, <1>7, <1>8, OperationFrame

\* A refused event changes nothing but what may be recorded later.
LEMMA RefuseInv ==
    ASSUME KernelInv, NEW o \in Ops, DispatchRefused(o) \/ FailureRefused(o) PROVE KernelInv'
<1>1. PICK identity \in Identities : Refuse(o, identity)
  BY DEF DispatchRefused, FailureRefused, Identities
<1>2. /\ ops' = [ops EXCEPT ![o] = ops'[o]]
      /\ ops'[o] = [ops[o] EXCEPT !.refused = @ \cup {identity}]
  BY <1>1 DEF Refuse, KernelInv, Typed, Operation
<1>3. ops[o].settle \in {"open", "awaiting_result"} /\ UNCHANGED <<native, calling, gates>>
  BY <1>1 DEF Refuse
<1>4. ops'[o] \in Operation
  BY <1>2 DEF KernelInv, Typed, Operation
<1>5. Respects(o, ops'[o])
  BY <1>2, <1>3, <1>4 DEF Respects, KernelInv, Typed, Operation, Consistent, Unanswered
<1>6. ops'[o].settle # "observation_commit_failed" /\ gates' \in Gates
  BY <1>2, <1>3 DEF KernelInv, Typed, Operation
<1> QED
  BY <1>2, <1>3, <1>5, <1>6, OperationFrame

\* A result r that tells the truth about what Revit did.
Truthful(o, r) ==
    /\ r.dispatch \in Dispatches /\ r.effect \in PersistentEffects
    /\ r.status \in Statuses \ {"none"} /\ r.authority \in Authorities
    /\ r.observe \in BOOLEAN
    /\ native[o] # "idle" => r.dispatch # "not_dispatched"
    /\ r.effect = "applied" => native[o] = "committed"
    /\ Effect[o] = "apply" /\ r.effect = "none" => native[o] \in {"idle", "refused"}

\* Recording a truthful result keeps the invariant.
LEMMA RecordInv ==
    ASSUME KernelInv, NEW o \in Ops, NEW r, Truthful(o, r), Record(o, r), UNCHANGED calling
    PROVE  KernelInv'
<1>1. PICK s \in {"retaining_observation", "settled"} :
        ops' = [ops EXCEPT ![o].settle = s, ![o].dispatch = r.dispatch, ![o].effect = r.effect,
                           ![o].status = r.status, ![o].authority = r.authority]
  BY DEF Record
<1>2. /\ ops' = [ops EXCEPT ![o] = ops'[o]]
      /\ ops'[o] = [ops[o] EXCEPT !.settle = s, !.dispatch = r.dispatch, !.effect = r.effect,
                                  !.status = r.status, !.authority = r.authority]
  BY <1>1 DEF KernelInv, Typed, Operation
<1>3. /\ ops[o].settle \in {"open", "awaiting_result"} /\ UNCHANGED <<native, calling, gates>>
  BY DEF Record
<1>4. ops'[o] \in Operation
  BY <1>1, <1>2 DEF KernelInv, Typed, Operation, Settlements, Truthful
<1>5. Respects(o, ops'[o])
  BY <1>1, <1>2, <1>3, <1>4
     DEF Respects, KernelInv, Typed, Operation, Consistent, Unanswered, Truthful
<1>6. /\ ops'[o].settle # "observation_commit_failed" /\ gates' \in Gates
      /\ gates.blocker => gates'.blocker
  BY <1>1, <1>2, <1>3 DEF KernelInv, Typed, Operation
<1>7. UNCHANGED <<native, calling>>
  BY <1>3
<1>8. ops' = [ops EXCEPT ![o] = ops'[o]]
  BY <1>2
<1> QED
  BY <1>5, <1>6, <1>7, <1>8, OperationFrame

\* What the MCP server and the native host answer is truthful.
LEMMA AnswersTruthful ==
    ASSUME KernelInv, NEW o \in Ops, NEW r \in NativeAnswers(o) \cup UndispatchedAnswers(o)
    PROVE  Truthful(o, r)
<1>0. Effect[o] \in Effects /\ native[o] \in Natives
  BY KernelConstants DEF KernelInv, Typed
<1>1. \A e \in NativeTruth(o) :
        /\ e \in {"none", "applied"}
        /\ e = "applied" => native[o] = "committed"
        /\ Effect[o] = "apply" /\ e = "none" => native[o] = "refused"
  BY <1>0 DEF NativeTruth, Effects, EffectRank, Natives
<1>2. ASSUME r \in NativeAnswers(o), ops[o].dispatch = "dispatched" PROVE Truthful(o, r)
  <2>1. \/ r \in Answer({"dispatched"}, NativeTruth(o), {"succeeded", "failed_after_dispatch"}, TRUE)
        \/ r \in Answer({"dispatched"}, NativeTruth(o) \ {"applied"}, {"failed_after_dispatch"}, FALSE)
        \/ r \in Answer({"dispatched"}, {IF Effect[o] = "read" THEN "none" ELSE "unknown"},
                        {"failed_after_dispatch"}, FALSE)
    BY <1>2 DEF NativeAnswers
  <2>2. /\ r.dispatch = "dispatched" /\ r.observe \in BOOLEAN /\ r.authority = "native-host"
        /\ r.status \in {"succeeded", "failed_after_dispatch"}
        /\ r.effect \in NativeTruth(o) \/ r.effect = "unknown" \/ (Effect[o] = "read" /\ r.effect = "none")
    BY <2>1 DEF Answer
  <2> QED
    BY <2>2, <1>1 DEF Truthful, Dispatches, PersistentEffects, Statuses, Authorities
<1>3. ASSUME r \in NativeAnswers(o), ops[o].dispatch # "dispatched" PROVE Truthful(o, r)
  <2>1. r \in Answer({"dispatching"}, {IF Effect[o] = "apply" THEN "unknown" ELSE "none"},
                     {"failed_after_dispatch"}, FALSE)
    BY <1>3 DEF NativeAnswers
  <2>2. /\ r.dispatch = "dispatching" /\ r.observe \in BOOLEAN /\ r.authority = "native-host"
        /\ r.status = "failed_after_dispatch"
        /\ r.effect \in {"none", "unknown"} /\ (Effect[o] = "apply" => r.effect = "unknown")
    BY <2>1 DEF Answer
  <2> QED
    BY <2>2 DEF Truthful, Dispatches, PersistentEffects, Statuses, Authorities
<1>4. ASSUME r \in UndispatchedAnswers(o) PROVE Truthful(o, r)
  <2>1. /\ native[o] = "idle" /\ r.dispatch = "not_dispatched" /\ r.effect = "none"
        /\ r.authority = "operator-mcp-transport" /\ r.observe = FALSE
        /\ r.status \in {"failed_before_dispatch", "completed_without_native_dispatch"}
    BY <1>4 DEF UndispatchedAnswers
  <2> QED
    BY <2>1 DEF Truthful, Dispatches, PersistentEffects, Statuses, Authorities
<1> QED
  BY <1>2, <1>3, <1>4

\* A call that is given up with its journaled dispatch state is truthful: before
\* dispatch nothing reached Revit, after it the effect of a write is unknown.
LEMMA TransportTruthful ==
    ASSUME KernelInv, NEW o \in Ops
    PROVE  Truthful(o, TransportAnswer(o, ops[o].dispatch))
<1>1. /\ ops[o].dispatch \in Dispatches /\ Consistent(o)
  BY DEF KernelInv, Typed, Operation
<1>2. CASE ops[o].dispatch = "not_dispatched"
  BY <1>1, <1>2 DEF Truthful, TransportAnswer, Consistent, Dispatches, PersistentEffects,
                    Statuses, Authorities
<1>3. CASE ops[o].dispatch # "not_dispatched"
  BY <1>1, <1>3 DEF Truthful, TransportAnswer, Consistent, Dispatches, PersistentEffects,
                    Statuses, Authorities
<1> QED
  BY <1>2, <1>3

\* A result that somebody delivers.
LEMMA ResultRecordedInv == ASSUME KernelInv, NEW o \in Ops, ResultRecorded(o) PROVE KernelInv'
<1>1. PICK r \in NativeAnswers(o) \cup UndispatchedAnswers(o) : Record(o, r)
  BY DEF ResultRecorded
<1>2. Truthful(o, r)
  BY AnswersTruthful
<1>3. UNCHANGED calling
  BY DEF ResultRecorded, KernelInv, Typed
<1> QED
  BY <1>1, <1>2, <1>3, RecordInv

\* A call that is given up.
LEMMA FailOperationInv == ASSUME KernelInv, NEW o \in Ops, FailOperation(o) PROVE KernelInv'
BY TransportTruthful, RecordInv DEF FailOperation

\* A retained observation settles its operation.
LEMMA ObservationRetainedInv ==
    ASSUME KernelInv, NEW o \in Ops, ObservationRetained(o) PROVE KernelInv'
<1>1. PICK p \in BOOLEAN :
        ops' = [ops EXCEPT ![o].settle = "settled", ![o].observed = TRUE, ![o].proven = p]
  BY DEF ObservationRetained
<1>2. /\ ops' = [ops EXCEPT ![o] = ops'[o]]
      /\ ops'[o] = [ops[o] EXCEPT !.settle = "settled", !.observed = TRUE, !.proven = p]
  BY <1>1 DEF KernelInv, Typed, Operation
<1>3. ops[o].settle = "retaining_observation" /\ UNCHANGED <<native, calling, gates>>
  BY DEF ObservationRetained
<1>4. ops'[o] \in Operation
  BY <1>2 DEF KernelInv, Typed, Operation, Settlements
<1>5. Respects(o, ops'[o])
  BY <1>2, <1>3, <1>4 DEF Respects, KernelInv, Typed, Operation, Consistent, Unanswered
<1>6. ops'[o].settle # "observation_commit_failed" /\ gates' \in Gates
  BY <1>2, <1>3 DEF KernelInv, Typed, Operation
<1> QED
  BY <1>2, <1>3, <1>5, <1>6, OperationFrame

\* A failed attempt to retain an observation that is not the last.
LEMMA CommitRetryInv == ASSUME KernelInv, NEW o \in Ops, CommitRetry(o) PROVE KernelInv'
<1>1. /\ ops[o].settle = "retaining_observation" /\ UNCHANGED <<native, calling, gates>>
      /\ ops[o].attempts + 1 < CommitLimit
      /\ ops' = [ops EXCEPT ![o] = ops'[o]]
      /\ ops'[o] = [ops[o] EXCEPT !.attempts = @ + 1]
  BY DEF CommitRetry, KernelInv, Typed, Operation
<1>2. ops[o].attempts + 1 \in 0 .. CommitLimit
  BY <1>1, KernelConstants DEF KernelInv, Typed, Operation
<1>3. ops'[o] \in Operation
  BY <1>1, <1>2 DEF KernelInv, Typed, Operation
<1>4. Respects(o, ops'[o])
  BY <1>1, <1>3 DEF Respects, KernelInv, Typed, Operation, Consistent, Unanswered
<1>5. ops'[o].settle # "observation_commit_failed" /\ gates' \in Gates
  BY <1>1 DEF KernelInv, Typed, Operation
<1> QED
  BY <1>1, <1>4, <1>5, OperationFrame

\* The last one leaves a blocker and keeps the result.
LEMMA CommitFailedInv == ASSUME KernelInv, NEW o \in Ops, CommitFailed(o) PROVE KernelInv'
<1>1. /\ ops[o].settle = "retaining_observation" /\ UNCHANGED <<native, calling>>
      /\ ops' = [ops EXCEPT ![o] = ops'[o]]
      /\ ops'[o] = [ops[o] EXCEPT !.attempts = @ + 1, !.settle = "observation_commit_failed"]
      /\ gates' = [gates EXCEPT !.blocker = TRUE]
  BY DEF CommitFailed, KernelInv, Typed, Operation
<1>2. ops[o].attempts + 1 \in 0 .. CommitLimit
  <2>1. ops[o].attempts \in 0 .. CommitLimit /\ ops[o].attempts < CommitLimit
    BY <1>1 DEF KernelInv, Typed, Operation, Consistent
  <2> QED
    BY <2>1, KernelConstants
<1>3. ops'[o] \in Operation
  BY <1>1, <1>2 DEF KernelInv, Typed, Operation, Settlements
<1>4. Respects(o, ops'[o])
  BY <1>1, <1>3 DEF Respects, KernelInv, Typed, Operation, Consistent, Unanswered
<1>5. gates' \in Gates /\ gates'.blocker
  BY <1>1 DEF KernelInv, Typed, Gates
<1> QED
  BY <1>1, <1>4, <1>5, OperationFrame

\* A late native receipt replaces an unknown effect by what Revit did.
LEMMA ReconciledInv ==
    ASSUME KernelInv, NEW o \in Ops, NativeCompletionReconciled(o) PROVE KernelInv'
<1>1. PICK e \in NativeTruth(o) : ops' = [ops EXCEPT ![o].effect = e]
  BY DEF NativeCompletionReconciled
<1>2. /\ ops' = [ops EXCEPT ![o] = ops'[o]]
      /\ ops'[o] = [ops[o] EXCEPT !.effect = e]
  BY <1>1 DEF KernelInv, Typed, Operation
<1>3. /\ ops[o].settle = "settled" /\ ops[o].effect = "unknown"
      /\ UNCHANGED <<native, calling, gates>>
  BY DEF NativeCompletionReconciled
<1>4. /\ e \in {"none", "applied"}
      /\ e = "applied" => native[o] = "committed"
      /\ Effect[o] = "apply" /\ e = "none" => native[o] = "refused"
  BY KernelConstants DEF NativeTruth, Effects, EffectRank, KernelInv, Typed, Natives
<1>5. ops'[o] \in Operation
  BY <1>2, <1>4 DEF KernelInv, Typed, Operation, PersistentEffects
<1>6. Respects(o, ops'[o])
  BY <1>2, <1>3, <1>4, <1>5 DEF Respects, KernelInv, Typed, Operation, Consistent, Unanswered
<1>7. ops'[o].settle # "observation_commit_failed" /\ gates' \in Gates
  BY <1>2, <1>3 DEF KernelInv, Typed, Operation
<1> QED
  BY <1>2, <1>3, <1>6, <1>7, OperationFrame

----------------------------------------------------------------------------
(* Steps of Revit and of everything else *)

\* Revit takes a write that is handed over and finishes it.
LEMMA NativeInv ==
    ASSUME KernelInv, NEW o \in Ops, NativeSend(o) \/ NativeFinish(o) PROVE KernelInv'
<1>1. UNCHANGED <<ops, calling, gates>>
  BY DEF NativeSend, NativeFinish, kernel
<1>2. PICK end \in Natives \ {"idle"} : native' = [native EXCEPT ![o] = end]
  BY DEF NativeSend, NativeFinish, Natives
<1>3. Typed'
  BY <1>1, <1>2 DEF KernelInv, Typed
<1>4. \A q \in Ops \ {o} : native'[q] = native[q]
  BY <1>2 DEF KernelInv, Typed
<1>5. Consistent(o) /\ calling[o] = "none" /\ native'[o] = end
  BY <1>2 DEF KernelInv, Typed
<1>6. Consistent(o)'
  <2>1. CASE NativeSend(o)
    BY <2>1, <1>1, <1>5 DEF NativeSend, Handed, Admitted, Consistent
  <2>2. CASE NativeFinish(o)
    BY <2>2, <1>1, <1>5 DEF NativeFinish, Consistent
  <2> QED
    BY <2>1, <2>2
<1>7. \A q \in Ops : Consistent(q)'
  <2> SUFFICES ASSUME NEW q \in Ops, q # o PROVE Consistent(q)'
    BY <1>6
  <2> QED
    BY <1>1, <1>4 DEF KernelInv, Consistent
<1>8. RetrySafe' /\ Blocked'
  BY <1>1 DEF KernelInv, RetrySafe, Blocked
<1> QED
  BY <1>3, <1>7, <1>8 DEF KernelInv

\* The gates: nothing takes a blocker back.
LEMMA GatesInv ==
    ASSUME KernelInv,
           \/ Pause \/ Resume \/ HoldRecorded \/ ProgressBlocked
           \/ ExecutionFailure \/ BudgetExhausted
    PROVE  KernelInv'
<1>1. gates \in Gates
  BY DEF KernelInv, Typed
<1>2. UNCHANGED <<ops, native, calling>>
  BY DEF Pause, Resume, HoldRecorded, ProgressBlocked, ExecutionFailure, BudgetExhausted, SetGates
<1>3. gates' \in Gates /\ (gates.blocker => gates'.blocker)
  <2>1. CASE Pause
    BY <2>1, <1>1 DEF Pause, SetGates, Gates
  <2>2. CASE Resume
    BY <2>2, <1>1 DEF Resume, SetGates, Gates
  <2>3. CASE HoldRecorded
    BY <2>3, <1>1 DEF HoldRecorded, SetGates, Gates
  <2>4. CASE ProgressBlocked
    BY <2>4, <1>1 DEF ProgressBlocked, SetGates, Gates
  <2>5. CASE ExecutionFailure
    BY <2>5, <1>1 DEF ExecutionFailure, SetGates, Gates
  <2>6. CASE BudgetExhausted
    BY <2>6, <1>1 DEF BudgetExhausted, SetGates, Gates
  <2> QED
    BY <2>1, <2>2, <2>3, <2>4, <2>5, <2>6
<1> QED
  BY <1>2, <1>3, OtherFrame

\* Everything that leaves the operations and the gates alone.
Aside ==
    \/ \E x \in Vars : InputRequested(x) \/ InputSupplied(x)
    \/ \E c \in Criteria : CriterionEvaluated(c)
    \/ \E c \in Calls : \/ ProviderAdmitted(c) \/ ProviderReceipt(c)
                        \/ \E state \in DOMAIN Rank : ProviderState(c, state)
    \/ Terminal
    \/ UNCHANGED vars

\* What an Aside step leaves alone.
LEMMA AsideFrame == ASSUME Aside PROVE UNCHANGED <<ops, native, calling, gates>>
BY DEF Aside, InputRequested, InputSupplied, CriterionEvaluated, ProviderAdmitted,
       ProviderReceipt, ProviderState, Terminal, vars

\* Over the direct transport every step keeps the invariant.
LEMMA NextInv == ASSUME Transport = "direct", KernelInv, [Next]_vars PROVE KernelInv'
<1>1. CASE Aside
  BY <1>1, AsideFrame, OtherFrame DEF KernelInv, Typed
<1>2. CASE \/ Pause \/ Resume \/ HoldRecorded \/ ProgressBlocked
           \/ ExecutionFailure \/ BudgetExhausted
  BY <1>2, GatesInv
<1>3. ASSUME NEW o \in Ops, OperationStep(o) PROVE KernelInv'
  <2>1. ~RecoverOperation(o) /\ ~RecoveryFails(o)
    BY DEF RecoverOperation, RecoveryFails, KernelInv, Typed
  <2> QED
    BY <1>3, <2>1, AdmitInv, DispatchStartedInv, DispatchRecordedInv, RefuseInv, ResultRecordedInv,
       FailOperationInv, ObservationRetainedInv, CommitRetryInv, CommitFailedInv,
       ReconciledInv, NativeInv DEF OperationStep
<1> QED
  BY <1>1, <1>2, <1>3 DEF Next, Aside

----------------------------------------------------------------------------
(* What follows from the invariant *)

\* KernelInv holds in every reachable state.
LEMMA KernelInvHolds == ASSUME Transport = "direct" PROVE Spec => []KernelInv
<1>1. Init => KernelInv
  BY InitKernelInv
<1>2. KernelInv /\ [Next]_vars => KernelInv'
  BY NextInv
<1> QED
  BY <1>1, <1>2, PTL DEF Spec

\* Over the direct transport the journal never asserts an effect that Revit
\* contradicts, whatever answers are lost or late (failAssignmentKernelOperationV2,
\* recoverLateNativeCompletionV1).
THEOREM EffectTruthHolds == ASSUME Transport = "direct" PROVE Spec => []EffectTruth
<1>1. KernelInv => EffectTruth
  BY DEF KernelInv, Consistent, EffectTruth, Writes
<1> QED
  BY <1>1, KernelInvHolds, PTL

\* Over the direct transport a write that is retried and its retry never both
\* reach the model (the reducer's retry admission).
THEOREM RetryAtMostOnceHolds == ASSUME Transport = "direct" PROVE Spec => []RetryAtMostOnce
<1>1. KernelInv => RetryAtMostOnce
  <2> SUFFICES ASSUME KernelInv, NEW o \in Writes, RetryOf[o] # NoOp, native[o] # "idle"
               PROVE  native[RetryOf[o]] \in {"idle", "refused"}
    BY DEF RetryAtMostOnce
  <2> DEFINE p == RetryOf[o]
  <2>1. o \in Ops /\ p \in Ops /\ Effect[p] = "apply"
    BY KernelConstants, KernelTopology DEF Links, WellFormed, Writes
  <2>2. ops[o].settle # "absent"
    BY <2>1 DEF KernelInv, Consistent
  <2>3. ops[p].settle = "settled" /\ ops[p].effect = "none"
    BY <2>1, <2>2 DEF KernelInv, RetrySafe
  <2>4. ops[p].status # "none"
    BY <2>1, <2>3 DEF KernelInv, Consistent, Unanswered
  <2> QED
    BY <2>1, <2>3, <2>4 DEF KernelInv, Consistent
<1> QED
  BY <1>1, KernelInvHolds, PTL

\* At a safe boundary the journal knows what Revit did with every write.
LEMMA BoundaryKnown ==
    ASSUME KernelInv, InFlight = {}, Unknown = {}, NEW o \in Writes
    PROVE  /\ native[o] # "sent"
           /\ native[o] = "committed" => ops[o].effect = "applied"
<1>1. o \in Ops /\ Effect[o] = "apply" /\ Consistent(o) /\ ops[o] \in Operation
  BY DEF Writes, KernelInv, Typed
<1>2. ops[o].effect \in {"none", "applied"}
  BY <1>1 DEF Unknown, Operation, PersistentEffects
<1>3. CASE ops[o].settle = "absent"
  BY <1>1, <1>3 DEF Consistent
<1>4. CASE ops[o].settle # "absent"
  <2>1. ops[o].settle \notin Unanswered
    BY <1>1, <1>4 DEF InFlight, Unanswered
  <2> QED
    BY <2>1, <1>1, <1>2 DEF Consistent
<1> QED
  BY <1>3, <1>4

\* Over the direct transport work is resumed from a pause or a usage hold only
\* when no write is on its way and every commit is recorded (the resume edge).
THEOREM ResumeSafeHolds == ASSUME Transport = "direct" PROVE Spec => ResumeSafe
<1> DEFINE Resumed == (gates.paused /\ ~gates'.paused) \/ (gates.hold /\ ~gates'.hold)
<1> DEFINE AllKnown == \A o \in Writes :
                       /\ native[o] # "sent"
                       /\ native[o] = "committed" => ops[o].effect = "applied"
<1>1. ASSUME KernelInv, Next, Resumed PROVE Resume
  <2>0. gates \in Gates
    BY <1>1 DEF KernelInv, Typed
  <2>1. CASE Aside
    BY <2>1, <1>1, AsideFrame
  <2>2. CASE \E o \in Ops : OperationStep(o)
    <3>1. PICK o \in Ops : OperationStep(o)
      BY <2>2
    <3>2. CASE CommitFailed(o)
      BY <3>2, <1>1, <2>0 DEF CommitFailed, Gates
    <3>3. CASE ~CommitFailed(o)
      <4>1. UNCHANGED gates
        BY <3>1, <3>3
           DEF OperationStep, Admit, DispatchStarted, DispatchRecorded, ResultRecorded,
               FailOperation, RecoverOperation, RecoveryFails, Record, ObservationRetained,
               CommitRetry, NativeCompletionReconciled, NativeSend, NativeFinish, kernel,
               DispatchRefused, FailureRefused, Refuse
      <4> QED
        BY <4>1, <1>1
    <3> QED
      BY <3>2, <3>3
  <2>3. CASE Pause \/ HoldRecorded \/ ProgressBlocked \/ ExecutionFailure \/ BudgetExhausted
    BY <2>3, <1>1, <2>0
       DEF Pause, HoldRecorded, ProgressBlocked, ExecutionFailure, BudgetExhausted, SetGates, Gates
  <2> QED
    BY <2>1, <2>2, <2>3, <1>1 DEF Next, Aside
<1>2. ASSUME KernelInv, Resume PROVE AllKnown
  BY <1>2, BoundaryKnown DEF Resume, Quiescent
<1>3. KernelInv /\ [Next]_vars => [Resumed => AllKnown]_vars
  BY <1>1, <1>2
<1>4. KernelInv /\ [Next]_vars =>
        [(gates.paused /\ ~gates'.paused) \/ (gates.hold /\ ~gates'.hold) =>
           \A o \in Writes : /\ native[o] # "sent"
                             /\ native[o] = "committed" => ops[o].effect = "applied"]_vars
  BY <1>3
<1> QED
  BY <1>4, KernelInvHolds, PTL DEF Spec, ResumeSafe

\* What the derivation of a successful outcome has checked, and what no later
\* step changes.
Succeeded ==
    terminal \in Successes =>
        /\ InFlight = {} /\ Unknown = {}
        /\ \A o \in Writes : ops[o].effect = "applied" => terminal = "complete" /\ Verified(o)

\* A derived success: nothing in flight, nothing unknown, every applied write
\* verified.
LEMMA OutcomeSuccess ==
    ASSUME KernelInv, Outcome \in Successes
    PROVE  /\ InFlight = {} /\ Unknown = {}
           /\ \A o \in Writes : ops[o].effect = "applied" => Outcome = "complete" /\ Verified(o)
<1>1. ~InputPending /\ Quiescent /\ ~gates.blocker
  BY DEF Outcome, Successes
<1>2. Unknown = {} /\ Outcome = SettledOutcome
  BY <1>1 DEF Outcome, Successes
<1>3. gates.failure = "none" /\ ~gates.exhausted
  BY <1>2 DEF SettledOutcome, Successes, KernelInv, Typed, Gates
<1>4. ASSUME NEW o \in Writes, ops[o].effect = "applied"
      PROVE  Outcome = "complete" /\ Verified(o)
  <2>1. o \in Ops /\ Effect[o] = "apply" /\ o \in Applied
    BY <1>4 DEF Writes, Applied
  <2>2. AssignmentEffect = "apply"
    BY <2>1, KernelConstants, KernelTopology DEF WellFormed, EffectRank, Effects
  <2>3. /\ \A q \in Applied : Verified(q)
        /\ SettledOutcome = "complete"
    BY <1>2, <1>3, <2>1, <2>2 DEF SettledOutcome, Successes
  <2> QED
    BY <1>2, <2>1, <2>3
<1> QED
  BY <1>1, <1>2, <1>4 DEF Quiescent

\* No operation step ends an Assignment or follows its end.
LEMMA OperationWhileLive ==
    ASSUME NEW o \in Ops, OperationStep(o)
    PROVE  UNCHANGED terminal /\ (Live \/ UNCHANGED ops)
<1>1. CASE NativeSend(o) \/ NativeFinish(o) \/ RecoverOperation(o)
  BY <1>1 DEF NativeSend, NativeFinish, RecoverOperation, kernel
<1>2. CASE ResultRecorded(o) \/ FailOperation(o) \/ RecoveryFails(o)
  <2>1. PICK r : Record(o, r)
    BY <1>2 DEF ResultRecorded, FailOperation, RecoveryFails
  <2> QED
    BY <2>1 DEF Record
<1>3. CASE Admit(o) \/ DispatchStarted(o) \/ DispatchRecorded(o) \/ ObservationRetained(o)
  BY <1>3 DEF Admit, DispatchStarted, DispatchRecorded, ObservationRetained
<1>4. CASE CommitRetry(o) \/ CommitFailed(o) \/ NativeCompletionReconciled(o)
  BY <1>4 DEF CommitRetry, CommitFailed, NativeCompletionReconciled
<1>5. CASE DispatchRefused(o) \/ FailureRefused(o)
  BY <1>5 DEF DispatchRefused, FailureRefused, Refuse
<1> QED
  BY <1>1, <1>2, <1>3, <1>4, <1>5 DEF OperationStep

\* The journal of a terminal Assignment is closed.
LEMMA TerminalFrozen ==
    ASSUME [Next]_vars, terminal # "none" PROVE UNCHANGED <<ops, terminal>>
<1>1. CASE UNCHANGED vars
  BY <1>1 DEF vars
<1>2. CASE \E o \in Ops : OperationStep(o)
  BY <1>2, OperationWhileLive DEF Live
<1>3. CASE \/ \E x \in Vars : InputRequested(x) \/ InputSupplied(x)
           \/ \E c \in Criteria : CriterionEvaluated(c)
           \/ \E c \in Calls : \/ ProviderAdmitted(c) \/ ProviderReceipt(c)
                               \/ \E state \in DOMAIN Rank : ProviderState(c, state)
  BY <1>3 DEF InputRequested, InputSupplied, CriterionEvaluated, ProviderAdmitted,
              ProviderReceipt, ProviderState, Live
<1>4. CASE \/ Pause \/ Resume \/ HoldRecorded \/ ProgressBlocked
           \/ ExecutionFailure \/ BudgetExhausted \/ Terminal
  BY <1>4 DEF Pause, Resume, HoldRecorded, ProgressBlocked, ExecutionFailure,
              BudgetExhausted, Terminal, Live
<1> QED
  BY <1>1, <1>2, <1>3, <1>4 DEF Next

\* Only the terminal event ends an Assignment.
LEMMA OnlyTerminalEnds ==
    ASSUME Next, ~Terminal PROVE UNCHANGED terminal
<1>1. CASE \E o \in Ops : OperationStep(o)
  BY <1>1, OperationWhileLive
<1>2. CASE \/ \E x \in Vars : InputRequested(x) \/ InputSupplied(x)
           \/ \E c \in Criteria : CriterionEvaluated(c)
           \/ \E c \in Calls : \/ ProviderAdmitted(c) \/ ProviderReceipt(c)
                               \/ \E state \in DOMAIN Rank : ProviderState(c, state)
  BY <1>2 DEF InputRequested, InputSupplied, CriterionEvaluated, ProviderAdmitted,
              ProviderReceipt, ProviderState
<1>3. CASE \/ Pause \/ Resume \/ HoldRecorded \/ ProgressBlocked
           \/ ExecutionFailure \/ BudgetExhausted
  BY <1>3 DEF Pause, Resume, HoldRecorded, ProgressBlocked, ExecutionFailure,
              BudgetExhausted, SetGates
<1> QED
  BY <1>1, <1>2, <1>3 DEF Next

\* Over the direct transport a successful terminal outcome is never overtaken
\* by the model: what Revit does after it was decided before it
\* (deriveAssignmentOutcomeV2, deriveAndSettleAssignmentKernelV2).
THEOREM SuccessIsFinalHolds == ASSUME Transport = "direct" PROVE Spec => []SuccessIsFinal
<1>1. Init => Succeeded
  BY DEF Init, Succeeded, Successes
<1>2. KernelInv /\ Succeeded /\ [Next]_vars => Succeeded'
  <2> SUFFICES ASSUME KernelInv, Succeeded, [Next]_vars, terminal' \in Successes
               PROVE  Succeeded'
    BY DEF Succeeded
  <2>1. CASE terminal # "none"
    <3>1. UNCHANGED <<ops, terminal>>
      BY <2>1, TerminalFrozen
    <3> QED
      BY <3>1 DEF Succeeded, InFlight, Unknown, Verified
  <2>2. CASE terminal = "none"
    <3>1. Terminal
      BY <2>2, OnlyTerminalEnds DEF vars, Successes
    <3>2. terminal' = Outcome /\ UNCHANGED ops
      BY <3>1 DEF Terminal
    <3>3. /\ InFlight = {} /\ Unknown = {}
          /\ \A o \in Writes : ops[o].effect = "applied" => terminal' = "complete" /\ Verified(o)
      BY <3>2, OutcomeSuccess
    <3> QED
      BY <3>2, <3>3 DEF Succeeded, InFlight, Unknown, Verified
  <2> QED
    BY <2>1, <2>2
<1>3. KernelInv /\ Succeeded => SuccessIsFinal
  BY BoundaryKnown DEF Succeeded, SuccessIsFinal
<1> QED
  BY <1>1, <1>2, <1>3, KernelInvHolds, PTL DEF Spec
=============================================================================
