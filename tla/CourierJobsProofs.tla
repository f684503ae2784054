-------------------------- MODULE CourierJobsProofs --------------------------
(***************************************************************************)
(* Proofs about CourierJobs for any number of backends and executors, any  *)
(* set of kinds and policies, and any number of restarts.                  *)
(*                                                                         *)
(* TypeOK needs to know who saved a pending completion (OutboxInv).        *)
(* FamilyTruth is not inductive: it needs to know what a handler that is   *)
(* about to write a file carries with it, and that the issued file has one *)
(* of three shapes; FamilyInv says so.  FirstWriterWins holds for v2 jobs  *)
(* because their producer never reaches the steps that overwrite files.    *)
(***************************************************************************)
EXTENDS CourierJobs, TLAPS

Status == {"absent", "pending", "running", "succeeded", "failed"}
Failures == {"failed_known", "failed_retryable", "failed_unknown"}

-----------------------------------------------------------------------------
(* The inductive invariants *)

IssuedWellFormed ==
    /\ issued.type = "none" => issued = NotIssued
    /\ issued.type = "challenge" => issued = Challenge(issued.exec) /\ issued.exec # NoExec
    /\ issued.type = "fence" =>
          /\ issued = Fence(issued.decision)
          /\ issued.decision.hash = "null"
          /\ issued.decision.receipt.outcome \in Failures

\* What a handler knows when it is about to write its next file.
HandlerSound(h) ==
    /\ h.pc = "issue" => h.exec \in Executors /\ h.op = "final" /\ h.answer = "none"
    /\ h.pc = "authorize" => h.op = "final" /\ h.answer = "none"
    /\ h.pc = "fence" => h.dec.hash = "null" /\ h.dec.receipt.outcome \in Failures
    /\ h.pc = "decide" => Causal(h.dec)
    /\ h.pc \in {"consume", "publish"} => h.dec = decision /\ decision # NoDecision
    /\ h.pc = "consume" => decision.receipt.outcome = "succeeded"

FamilyInv ==
    Family =>
        /\ IssuedWellFormed
        /\ FamilyTruth
        /\ \A b \in Backends : HandlerSound(backend[b])
        /\ producer.pc \notin {"overdue", "wrote_job"}

\* What is new about a handler that has just read its request: it holds no
\* authorization, and only a completion lets it decide on success.
Opened(r, h) ==
    /\ HandlerSound(h)
    /\ h.op = r.op
    /\ h.pc # "authorize"
    /\ h.op = "final" => h.answer # "ok"
    /\ h.pc = "decide" /\ h.dec.receipt.outcome = "succeeded" => r.op = "complete"

-----------------------------------------------------------------------------
(* What the helpers make of a handler *)

\* The decision's executor (familyDecisionExecutor) is a process or none.
LEMMA DecisionExecutorType ==
    ASSUME NEW copy \in Job
    PROVE  DecisionExecutor(copy) \in Executor
  BY ConstantsAssumption DEF DecisionExecutor, Executor, Job

\* A handler starts with the request and job.json, and no decision.
LEMMA OpenFacts ==
    ASSUME TypeOK, NEW r \in Request
    PROVE  /\ Open(r) \in Handler
           /\ Open(r).op = r.op /\ Open(r).exec = r.exec /\ Open(r).pc = "reply"
           /\ Open(r).answer = "none"
  BY DEF TypeOK, Open, Handler, Request, Steps, Answers, NoDecision, Decide, Decision,
         NoReceipt, Receipted, Receipt, Outcomes, Codes, Executor

\* Respond ends the handler with an answer.
LEMMA RespondFacts ==
    ASSUME NEW h \in Handler, NEW answer \in Answers
    PROVE  /\ Respond(h, answer) \in Handler
           /\ Respond(h, answer).pc = "reply" /\ Respond(h, answer).op = h.op
           /\ Respond(h, answer).answer = answer
  BY DEF Respond, Handler, Steps

\* Save leaves job.json to be written.
LEMMA SaveFacts ==
    ASSUME NEW h \in Handler, NEW status \in Status, NEW answer \in Answers
    PROVE  /\ Save(h, status, answer) \in Handler
           /\ Save(h, status, answer).pc = "save" /\ Save(h, status, answer).op = h.op
           /\ Save(h, status, answer).answer = answer
  BY DEF Save, Handler, Steps, Job, Status

\* A receipt's status is a job status.
LEMMA StatusOfType ==
    ASSUME NEW receipt
    PROVE  StatusOf(receipt) \in Status
  BY DEF StatusOf, Status

\* reconcileJobWithResult saves job.json or answers at once.
LEMMA ReconcileFacts ==
    ASSUME NEW h \in Handler, NEW receipt \in Receipt, NEW answer \in Answers,
           NEW x \in Reconciled(h, receipt, answer)
    PROVE  x \in Handler /\ x.pc \in {"reply", "save"} /\ x.op = h.op /\ x.answer = answer
<1>1. x = Respond(h, answer) \/ x = Save(h, StatusOf(receipt), answer)
  BY DEF Reconciled
<1> QED  BY <1>1, RespondFacts, SaveFacts, StatusOfType

\* writeTerminal heads for the fence (family) or for the result.
LEMMA WriteTerminalFacts ==
    ASSUME NEW h \in Handler, NEW receipt \in Receipt, NEW answer \in Answers
    PROVE  /\ WriteTerminal(h, receipt, answer) \in Handler
           /\ WriteTerminal(h, receipt, answer).pc = IF Family THEN "fence" ELSE "publish"
           /\ WriteTerminal(h, receipt, answer).op = h.op
           /\ WriteTerminal(h, receipt, answer).answer = answer
           /\ WriteTerminal(h, receipt, answer).dec.hash = "null"
           /\ WriteTerminal(h, receipt, answer).dec.receipt = receipt
<1>1. DecisionExecutor(h.copy) \in Executor
  BY DecisionExecutorType DEF Handler
<1>2. Decide(DecisionExecutor(h.copy), "null", receipt) \in Decision
  BY <1>1 DEF Decide, Decision
<1>3. /\ Decide(DecisionExecutor(h.copy), "null", receipt).hash = "null"
      /\ Decide(DecisionExecutor(h.copy), "null", receipt).receipt = receipt
  BY DEF Decide
<1> QED  BY <1>2, <1>3 DEF WriteTerminal, Handler, Steps

\* A decision that cannot be validated is quarantined or refused.
LEMMA InvalidFacts ==
    ASSUME NEW h \in Handler
    PROVE  /\ Invalid(h) \in Handler
           /\ Invalid(h).pc \in {"reply", "save"} /\ Invalid(h).op = h.op
           /\ Invalid(h).answer \in {"none", "error"}
  BY SaveFacts, RespondFacts DEF Invalid, Answers, Status

\* recoverFamilyCompletionDecision goes on with exactly the decision it read.
LEMMA RecoverFacts ==
    ASSUME NEW h \in Handler, NEW dec \in Decision, NEW answer \in Answers
    PROVE  /\ Recover(h, dec, answer) \in Handler
           /\ Recover(h, dec, answer).op = h.op
           /\ \/ /\ Recover(h, dec, answer).pc \in {"reply", "save"}
                 /\ Recover(h, dec, answer).answer \in {"none", "error"}
              \/ /\ Recover(h, dec, answer).pc = "publish"
                 /\ Recover(h, dec, answer).answer = answer
                 /\ Recover(h, dec, answer).dec = dec
              \/ /\ Recover(h, dec, answer).pc = "consume"
                 /\ dec.receipt.outcome = "succeeded"
                 /\ Recover(h, dec, answer).answer = answer
                 /\ Recover(h, dec, answer).dec = dec
<1> DEFINE x == [h EXCEPT !.pc = IF dec.receipt.outcome = "succeeded" THEN "consume" ELSE "publish",
                          !.dec = dec, !.answer = answer]
<1>1. /\ x \in Handler
      /\ x.op = h.op /\ x.dec = dec /\ x.answer = answer
      /\ x.pc = IF dec.receipt.outcome = "succeeded" THEN "consume" ELSE "publish"
  BY DEF Handler, Steps
<1>2. Recover(h, dec, answer) = x \/ Recover(h, dec, answer) = Invalid(h)
  BY DEF Recover
<1> QED  BY <1>1, <1>2, InvalidFacts

\* recoverTerminalFence goes on with exactly the fence's decision.
LEMMA AdoptFenceFacts ==
    ASSUME TypeOK, NEW h \in Handler, NEW answer \in Answers
    PROVE  /\ AdoptFence(h, answer) \in Handler
           /\ AdoptFence(h, answer).op = h.op
           /\ \/ /\ AdoptFence(h, answer).pc \in {"reply", "save"}
                 /\ AdoptFence(h, answer).answer \in {"none", "error"}
              \/ /\ AdoptFence(h, answer).pc = "decide"
                 /\ AdoptFence(h, answer).answer = answer
                 /\ AdoptFence(h, answer).dec = issued.decision
<1> DEFINE x == [h EXCEPT !.pc = "decide", !.dec = issued.decision, !.answer = answer]
<1>1. issued.decision \in Decision
  BY DEF TypeOK, Issued
<1>2. /\ x \in Handler
      /\ x.op = h.op /\ x.dec = issued.decision /\ x.answer = answer /\ x.pc = "decide"
  BY <1>1 DEF Handler, Steps
<1>3. AdoptFence(h, answer) = x \/ AdoptFence(h, answer) = Invalid(h)
  BY DEF AdoptFence
<1> QED  BY <1>2, <1>3, InvalidFacts

\* A handler that finds terminal truth repeats it.
LEMMA RecallFacts ==
    ASSUME TypeOK, NEW h \in Handler, NEW answer \in Answers, NEW x \in Recalled(h, answer)
    PROVE  /\ x \in Handler /\ x.op = h.op
           /\ x.answer \in {answer, "none", "error"}
           /\ \/ x.pc \in {"reply", "save"}
              \/ x.pc = "publish" /\ Decided /\ x.dec = decision
              \/ /\ x.pc = "consume" /\ Decided /\ x.dec = decision
                 /\ decision.receipt.outcome = "succeeded"
<1>1. CASE Decided
  <2>1. x = Recover(h, decision, answer)
    BY <1>1 DEF Recalled
  <2> QED  BY <1>1, <2>1, RecoverFacts DEF TypeOK
<1>2. CASE ~Decided
  <2>1. x \in Reconciled(h, result, answer)
    BY <1>2 DEF Recalled
  <2> QED  BY <2>1, ReconcileFacts DEF TypeOK
<1> QED  BY <1>1, <1>2

-----------------------------------------------------------------------------
(* Every request leads to a sound handler *)

\* The receipts the handlers write are receipts.
LEMMA ReceiptedType ==
    ASSUME NEW outcome \in Outcomes, NEW code \in Codes
    PROVE  /\ Receipted(outcome, code) \in Receipt
           /\ Receipted(outcome, code).outcome = outcome
  BY DEF Receipted, Receipt

\* A handler that writes a failure is sound.
LEMMA TerminalOpened ==
    ASSUME TypeOK, NEW r \in Request, NEW outcome \in Failures, NEW code \in Codes,
           NEW answer \in Answers, r.op = "final" => answer # "ok"
    PROVE  LET h == WriteTerminal(Open(r), Receipted(outcome, code), answer)
           IN  h \in Handler /\ (Family => Opened(r, h))
<1>1. /\ Receipted(outcome, code) \in Receipt
      /\ Receipted(outcome, code).outcome = outcome
  BY ReceiptedType DEF Failures, Outcomes
<1> QED  BY <1>1, OpenFacts, WriteTerminalFacts DEF Opened, HandlerSound

\* A handler that answers or saves job.json is sound.
LEMMA AnswerOpened ==
    ASSUME NEW r \in Request, NEW h \in Handler, h.pc \in {"reply", "save"}, h.op = r.op,
           r.op = "final" => h.answer # "ok"
    PROVE  Opened(r, h)
  BY DEF Opened, HandlerSound

\* A handler that repeats the terminal truth is sound.
LEMMA RecallOpened ==
    ASSUME TypeOK, NEW r \in Request, NEW answer \in Answers, r.op = "final" => answer # "ok",
           NEW h \in Recalled(Open(r), answer)
    PROVE  h \in Handler /\ (Family => Opened(r, h))
<1>1. /\ h \in Handler /\ h.op = r.op /\ h.answer \in {answer, "none", "error"}
      /\ \/ h.pc \in {"reply", "save"}
         \/ h.pc = "publish" /\ Decided /\ h.dec = decision
         \/ h.pc = "consume" /\ Decided /\ h.dec = decision /\ decision.receipt.outcome = "succeeded"
  BY OpenFacts, RecallFacts
<1> QED  BY <1>1 DEF Opened, HandlerSound, Decided

\* A fence's decision passes its own validation.
LEMMA FenceCausal ==
    ASSUME TypeOK, IssuedWellFormed, issued.type = "fence"
    PROVE  Causal(issued.decision) /\ issued.decision.receipt.outcome \in Failures
  BY DEF Causal, IssuedWellFormed, Failures

\* A handler that adopts the fence is sound.
LEMMA AdoptOpened ==
    ASSUME TypeOK, FamilyInv, Fenced, NEW r \in Request, NEW answer \in Answers,
           r.op = "final" => answer # "ok"
    PROVE  LET h == AdoptFence(Open(r), answer)
           IN  h \in Handler /\ (Family => Opened(r, h))
<1> DEFINE h == AdoptFence(Open(r), answer)
<1>1. /\ h \in Handler /\ h.op = r.op
      /\ \/ h.pc \in {"reply", "save"} /\ h.answer \in {"none", "error"}
         \/ h.pc = "decide" /\ h.answer = answer /\ h.dec = issued.decision
  BY OpenFacts, AdoptFenceFacts
<1>2. Causal(issued.decision) /\ issued.decision.receipt.outcome \in Failures
  BY FenceCausal DEF FamilyInv, Fenced
<1> QED  BY <1>1, <1>2 DEF Opened, HandlerSound, Failures

\* Whatever the request and whatever the files say, serving it starts a
\* handler that is well formed and, for a family job, sound.
LEMMA Served ==
    ASSUME TypeOK, FamilyInv, NEW b \in Backends, NEW r \in requests,
           ClaimNext(b, r) \/ Authorize(b, r) \/ Report(b, r)
    PROVE  \E h \in Handler : Serve(b, r, h) /\ (Family => Opened(r, h))
<1> r \in Request
  BY DEF TypeOK
<1> DEFINE Goal == \E h \in Handler : Serve(b, r, h) /\ (Family => Opened(r, h))
<1> USE DEF Answers, Codes, Failures
<1>0. \A h : h \in Handler /\ Serve(b, r, h) /\ (Family => Opened(r, h)) => Goal
  OBVIOUS
<1> HIDE DEF Goal
<1>1. CASE ClaimRecovers(b, r)
  <2>1. CASE Fenced
    BY <1>0, <1>1, <2>1, AdoptOpened DEF ClaimRecovers
  <2>2. CASE ~Fenced
    BY <1>0, <1>1, <2>2, RecallOpened DEF ClaimRecovers
  <2> QED  BY <2>1, <2>2
<1>2. CASE ClaimRefuses(b, r)
  <2> DEFINE code == IF Withdrawn(b) THEN "route_unsupported" ELSE "admission_invalid"
  <2>1. Serve(b, r, WriteTerminal(Open(r), Receipted("failed_known", code), Ending))
    BY <1>2 DEF ClaimRefuses
  <2>2. code \in Codes /\ Ending \in Answers /\ Ending # "ok"
    BY DEF Ending
  <2> HIDE DEF code
  <2> QED  BY <1>0, <2>1, <2>2, TerminalOpened
<1>3. CASE ClaimEndsLease(b, r)
  BY <1>0, <1>3, TerminalOpened DEF ClaimEndsLease, Ending
<1>4. CASE ClaimExpires(b, r)
  BY <1>0, <1>4, TerminalOpened DEF ClaimExpires, Ending
<1>5. CASE ClaimLeases(b, r)
  <2> DEFINE h == [Open(r) EXCEPT !.pc = "save", !.answer = "job",
                                  !.copy = [status |-> "running", claim |-> r.exec]]
  <2>1. h \in Handler /\ h.pc = "save" /\ h.op = r.op /\ h.answer = "job"
    BY OpenFacts DEF Handler, Steps, Job, Request, Executor
  <2>2. Serve(b, r, h)
    BY <1>5 DEF ClaimLeases
  <2> HIDE DEF h
  <2> QED  BY <1>0, <2>1, <2>2, AnswerOpened
<1>6. CASE ClaimFindsNothing(b, r)
  BY <1>0, <1>6, OpenFacts, AnswerOpened DEF ClaimFindsNothing
<1>7. CASE AuthorizeFindsTruth(b, r)
  BY <1>0, <1>7, RecallOpened DEF AuthorizeFindsTruth
<1>8. CASE AuthorizeThrows(b, r)
  BY <1>0, <1>8, OpenFacts, RespondFacts, AnswerOpened DEF AuthorizeThrows
<1>9. CASE AuthorizeTooLate(b, r)
  BY <1>0, <1>9, TerminalOpened DEF AuthorizeTooLate
<1>10. CASE AuthorizeByPolicy(b, r)
  <2>1. CASE Serve(b, r, Respond(Open(r), "ok"))
    <3>1. Family => r.op # "final"
      BY <1>10 DEF AuthorizeByPolicy
    <3> QED  BY <1>0, <2>1, <3>1, OpenFacts, RespondFacts, AnswerOpened
  <2>2. CASE Serve(b, r, WriteTerminal(Open(r), Receipted("failed_known", "final_denied"), "error"))
    BY <1>0, <2>2, TerminalOpened
  <2> QED  BY <1>10, <2>1, <2>2 DEF AuthorizeByPolicy
<1>11. CASE AuthorizeFamilyFinal(b, r)
  <2> DEFINE h == [Open(r) EXCEPT !.pc = "issue"]
  <2>1. /\ h \in Handler /\ h.pc = "issue" /\ h.op = r.op /\ h.exec = r.exec
        /\ h.answer = "none"
    BY OpenFacts DEF Handler, Steps
  <2>2. Serve(b, r, h) /\ r.op = "final" /\ r.exec \in Executors
    BY <1>11 DEF AuthorizeFamilyFinal, Request
  <2> HIDE DEF h
  <2>3. Opened(r, h)
    BY <2>1, <2>2 DEF Opened, HandlerSound
  <2> QED  BY <1>0, <2>1, <2>2, <2>3
<1>12. CASE FinishThrows(b, r)
  BY <1>0, <1>12, OpenFacts, RespondFacts, AnswerOpened DEF FinishThrows
<1>13. CASE FinishFindsTruth(b, r)
  <2> DEFINE answer == Verdict(r, IF Decided THEN decision.receipt ELSE result)
  <2>1. answer \in Answers /\ r.op # "final" /\ \E h \in Recalled(Open(r), answer) : Serve(b, r, h)
    BY <1>13 DEF FinishFindsTruth, Verdict
  <2> HIDE DEF answer
  <2> QED  BY <1>0, <2>1, RecallOpened
<1>14. CASE CompleteConflicts(b, r)
  BY <1>0, <1>14, OpenFacts, RespondFacts, AnswerOpened DEF CompleteConflicts
<1>15. CASE CompleteNative(b, r)
  <2> DEFINE receipt == IF kind = "lab" /\ r.report = "bad"
                        THEN Receipted("failed_unknown", "receipt_invalid")
                        ELSE Receipted("succeeded", "native_success")
  <2>1. receipt \in Receipt
    BY ReceiptedType DEF Outcomes
  <2>2. Serve(b, r, WriteTerminal(Open(r), receipt, "ok")) /\ ~Family
    BY <1>15 DEF CompleteNative
  <2> HIDE DEF receipt
  <2> QED  BY <1>0, <2>1, <2>2, OpenFacts, WriteTerminalFacts
<1>16. CASE CompleteFamily(b, r)
  <2>1. CASE issued = Challenge(r.exec) /\ r.report = "good"
    <3> DEFINE dec == Decide(r.exec, "challenge", Receipted("succeeded", "native_success"))
               h == [Open(r) EXCEPT !.pc = "decide", !.answer = "ok", !.dec = dec]
    <3>1. Serve(b, r, h) /\ r.op = "complete"
      BY <1>16, <2>1 DEF CompleteFamily
    <3>2. dec \in Decision /\ Causal(dec)
      BY <2>1, ConstantsAssumption, ReceiptedType
      DEF Causal, Decide, Decision, Outcomes, Request, Executor
    <3> HIDE DEF dec
    <3>3. h \in Handler /\ h.pc = "decide" /\ h.op = r.op /\ h.dec = dec /\ h.answer = "ok"
      BY <3>2, OpenFacts DEF Handler, Steps
    <3> HIDE DEF h
    <3>4. Opened(r, h)
      BY <3>1, <3>2, <3>3 DEF Opened, HandlerSound
    <3> QED  BY <1>0, <3>1, <3>3, <3>4
  <2>2. CASE ~(issued = Challenge(r.exec) /\ r.report = "good")
    BY <1>0, <1>16, <2>2, TerminalOpened DEF CompleteFamily
  <2> QED  BY <2>1, <2>2
<1>17. CASE FailReported(b, r)
  <2>1. FailureOutcome(r.report) \in Failures
    BY DEF FailureOutcome
  <2>2. Serve(b, r, WriteTerminal(Open(r), Receipted(FailureOutcome(r.report), "worker_failure"), "ok"))
        /\ r.op = "fail"
    BY <1>17 DEF FailReported
  <2> QED  BY <1>0, <2>1, <2>2, TerminalOpened
<1> QED
  BY <1>1, <1>2, <1>3, <1>4, <1>5, <1>6, <1>7, <1>8, <1>9, <1>10, <1>11, <1>12, <1>13, <1>14,
     <1>15, <1>16, <1>17
  DEF Goal, ClaimNext, Authorize, Report

-----------------------------------------------------------------------------
(* Type correctness *)

\* The constants of the value section have their types.
LEMMA ValueTypes ==
    /\ NoJob \in Job /\ NoReceipt \in Receipt /\ NoDecision \in Decision
    /\ NotIssued \in Issued /\ NoOutbox \in Outbox /\ Idle \in Handler
    /\ \A e \in Executors : Challenge(e) \in Issued
    /\ \A dec \in Decision : Fence(dec) \in Issued
<1>1. NoJob \in Job
  BY DEF NoJob, Job, Executor
<1>2. NoReceipt \in Receipt
  BY DEF NoReceipt, Receipted, Receipt, Outcomes, Codes
<1>3. NoDecision \in Decision
  BY <1>2 DEF NoDecision, Decide, Decision, Executor
<1>4. NotIssued \in Issued
  BY <1>3 DEF NotIssued, Issued, Executor
<1>5. NoOutbox \in Outbox
  BY DEF NoOutbox, Outbox, Executor, Reports
<1>6. Idle \in Handler
  BY <1>1, <1>3 DEF Idle, Handler, Steps, Ops, Answers, Executor
<1>7. \A e \in Executors : Challenge(e) \in Issued
  BY <1>3 DEF Challenge, Issued, Executor
<1>8. \A dec \in Decision : Fence(dec) \in Issued
  BY DEF Fence, Issued, Decision
<1> QED  BY <1>1, <1>2, <1>3, <1>4, <1>5, <1>6, <1>7, <1>8

\* A handler that ends leaves its client in a known step.
LEMMA FinishType ==
    ASSUME TypeOK, NEW b \in Backends, Finish(b)
    PROVE  /\ backend' \in [Backends -> Handler]
           /\ worker' \in [Executors -> WorkerSteps]
           /\ outbox' \in Outbox
<1> DEFINE h == backend[b]
<1>1. backend' \in [Backends -> Handler]
  BY ValueTypes DEF TypeOK, Finish
<1>2. Received(h.op, h.answer) \in WorkerSteps
  BY DEF Received, WorkerSteps
<1>3. worker' \in [Executors -> WorkerSteps]
  BY <1>2 DEF TypeOK, Finish
<1>4. OutboxAfter(h.from, h.answer) \in Outbox
  BY ValueTypes DEF OutboxAfter, TypeOK, Outbox
<1>5. outbox' \in Outbox
  BY <1>4 DEF TypeOK, Finish
<1> QED  BY <1>1, <1>3, <1>5

\* Sending a request keeps the workers and the requests well formed.
LEMMA SendType ==
    ASSUME TypeOK, NEW e \in Executors, NEW step \in WorkerSteps, NEW op \in Ops,
           NEW exec \in Executors, NEW report \in Reports, Send(e, step, op, exec, report)
    PROVE  worker' \in [Executors -> WorkerSteps] /\ requests' \subseteq Request
<1>1. Ask(op, exec, e, report) \in Request
  BY DEF Ask, Request, Executor
<1> QED  BY <1>1 DEF Send, Move, TypeOK

\* Forgetting a client keeps requests and handlers well formed.
LEMMA ForgetType ==
    ASSUME TypeOK, NEW e \in Executors
    PROVE  Unheard(e) \subseteq Request /\ Detached(e) \in [Backends -> Handler]
<1>1. \A r \in Request : [r EXCEPT !.from = NoExec] \in Request
  BY DEF Request, Executor
<1>2. \A h \in Handler : [h EXCEPT !.from = NoExec] \in Handler
  BY DEF Handler, Executor
<1> QED  BY <1>1, <1>2 DEF Unheard, Detached, TypeOK

\* A pending completion record names the process that saved it.
OutboxInv == outbox.state = "pending" => outbox.exec \in Executors

\* The initial state is well typed.
LEMMA TypeInit == Init => TypeOK /\ OutboxInv
<1> SUFFICES ASSUME Init PROVE TypeOK /\ OutboxInv
  OBVIOUS
<1>1. backend \in [Backends -> Handler] /\ policy \in [Backends -> AllPolicies]
  BY ValueTypes DEF Init, AllPolicies
<1>2. worker \in [Executors -> WorkerSteps]
  BY DEF Init, WorkerSteps
<1>3. producer \in [pc: ProducerSteps, copy: Job]
  BY ValueTypes DEF Init, ProducerSteps
<1>4. kind \in AllKinds
  BY ConstantsAssumption DEF Init
<1> QED  BY <1>1, <1>2, <1>3, <1>4, ValueTypes DEF Init, TypeOK, OutboxInv, NoOutbox

\* The handlers' writes keep every variable well typed.
LEMMA WriteStepType ==
    ASSUME TypeOK, FamilyInv, OutboxInv, NEW b \in Backends, WriteStep(b)
    PROVE  TypeOK' /\ OutboxInv'
<1> DEFINE h == backend[b]
<1>h. h \in Handler /\ h.dec \in Decision /\ h.dec.receipt \in Receipt /\ h.copy \in Job
      /\ h.answer \in Answers
  BY DEF TypeOK, Handler, Decision
<1>0. ASSUME NEW x \in Handler, Continue(b, x), UNCHANGED job,
             issued' \in Issued, decision' \in Decision, consumed' \in BOOLEAN, result' \in Receipt
      PROVE  TypeOK' /\ OutboxInv'
  BY <1>0 DEF Continue, TypeOK, OutboxInv, time, station
<1>1. CASE IssueChallenge(b)
  <2> DEFINE t == WriteTerminal(h, Receipted("failed_unknown", "replay_denied"), "error")
  <2>1. [h EXCEPT !.pc = "authorize"] \in Handler
    BY <1>h DEF Handler, Steps
  <2>2. AdoptFence(h, "error") \in Handler
    BY <1>h, AdoptFenceFacts DEF Answers
  <2>3. t \in Handler
    BY <1>h, ReceiptedType, WriteTerminalFacts DEF Answers, Outcomes, Codes
  <2>4. issued' \in Issued
    <3>1. CASE Family
      BY <1>1, <3>1, ValueTypes DEF IssueChallenge, TypeOK, FamilyInv, HandlerSound
    <3>2. CASE ~Family
      BY <1>1, <1>h, <3>2, ValueTypes DEF IssueChallenge, TypeOK, Handler, Challenge, Issued
    <3> QED  BY <3>1, <3>2
  <2>5. \E x \in Handler : Continue(b, x)
    <3>1. CASE issued.type = "none"
      BY <1>1, <2>1, <3>1 DEF IssueChallenge
    <3>2. CASE issued.type = "fence"
      BY <1>1, <2>2, <3>2 DEF IssueChallenge
    <3>3. CASE issued.type = "challenge"
      BY <1>1, <2>3, <3>3 DEF IssueChallenge
    <3> QED  BY <3>1, <3>2, <3>3 DEF TypeOK, Issued
  <2> QED  BY <1>0, <1>1, <2>4, <2>5 DEF IssueChallenge, TypeOK
<1>2. CASE AuthorizeFinal(b)
  <2> DEFINE t == WriteTerminal(h, Receipted("failed_known", "final_denied"), "error")
  <2>1. Respond(h, "ok") \in Handler
    BY <1>h, RespondFacts DEF Answers
  <2>2. t \in Handler
    BY <1>h, ReceiptedType, WriteTerminalFacts DEF Answers, Outcomes, Codes
  <2>3. \E x \in Handler : Continue(b, x)
    BY <1>2, <2>1, <2>2 DEF AuthorizeFinal
  <2> QED  BY <1>0, <1>2, <2>3 DEF AuthorizeFinal, TypeOK, files
<1>3. CASE WriteFence(b)
  <2>1. [h EXCEPT !.pc = "decide"] \in Handler
    BY <1>h DEF Handler, Steps
  <2>2. AdoptFence(h, h.answer) \in Handler
    BY <1>h, AdoptFenceFacts
  <2>3. UnderChallenge(h) \in Handler
    <3> DEFINE d == Decide(issued.exec, "challenge", Receipted("failed_unknown", h.dec.receipt.code))
    <3>1. h.dec.receipt.code \in Codes
      BY <1>h DEF Receipt
    <3>2. d \in Decision
      BY <3>1, ReceiptedType DEF TypeOK, Issued, Decide, Decision, Outcomes
    <3> HIDE DEF d
    <3>3. [h EXCEPT !.pc = "decide", !.dec = d] \in Handler
      BY <1>h, <3>2 DEF Handler, Steps
    <3>4. Respond(h, "error") \in Handler
      BY <1>h, RespondFacts DEF Answers
    <3> QED  BY <3>3, <3>4 DEF UnderChallenge, d
  <2>4. issued' \in Issued
    BY <1>3, <1>h, ValueTypes DEF WriteFence, TypeOK
  <2>5. \E x \in Handler : Continue(b, x)
    <3>1. CASE issued.type = "none"
      BY <1>3, <2>1, <3>1 DEF WriteFence
    <3>2. CASE issued.type = "fence"
      BY <1>3, <2>2, <3>2 DEF WriteFence
    <3>3. CASE issued.type = "challenge"
      BY <1>3, <2>3, <3>3 DEF WriteFence
    <3> QED  BY <3>1, <3>2, <3>3 DEF TypeOK, Issued
  <2> QED  BY <1>0, <1>3, <2>4, <2>5 DEF WriteFence, TypeOK
<1>4. CASE PublishDecision(b)
  <2> DEFINE winner == IF decision = NoDecision THEN h.dec ELSE decision
             answer == IF h.answer = "settled" THEN "none" ELSE h.answer
  <2>1. winner \in Decision /\ answer \in Answers
    BY <1>h DEF TypeOK, Handler, Answers
  <2>2. Recover(h, winner, answer) \in Handler
    BY <1>h, <2>1, RecoverFacts
  <2> QED  BY <1>0, <1>4, <2>1, <2>2 DEF PublishDecision, TypeOK
<1>5. CASE ConsumeChallenge(b)
  <2>1. [h EXCEPT !.pc = "publish"] \in Handler
    BY <1>h DEF Handler, Steps
  <2> QED  BY <1>0, <1>5, <2>1 DEF ConsumeChallenge, TypeOK
<1>6. CASE PublishResult(b)
  <2>1. \E x \in Handler : Continue(b, x)
    BY <1>6, <1>h, ReconcileFacts, SaveFacts, StatusOfType DEF PublishResult, TypeOK
  <2>2. result' \in Receipt
    BY <1>6, <1>h DEF PublishResult, TypeOK
  <2> QED  BY <1>0, <1>6, <2>1, <2>2 DEF PublishResult, TypeOK
<1>7. ASSUME Finish(b)
      PROVE  OutboxInv'
  BY <1>7 DEF Finish, OutboxAfter, OutboxInv, NoOutbox, TypeOK, Outbox
<1>8. CASE SaveJob(b)
  BY <1>8, <1>h, <1>7, FinishType DEF SaveJob, TypeOK
<1>9. CASE Reply(b)
  BY <1>9, <1>7, FinishType DEF Reply, TypeOK, files, time
<1> QED
  BY <1>1, <1>2, <1>3, <1>4, <1>5, <1>6, <1>8, <1>9 DEF WriteStep

\* The workstation's steps keep every variable well typed.
LEMMA WorkerStepType ==
    ASSUME TypeOK, OutboxInv, NEW e \in Executors,
           WorkerStep(e) \/ GiveUp(e) \/ FinalOverruns(e) \/ Die(e)
    PROVE  TypeOK' /\ OutboxInv'
<1> DEFINE Elsewhere == UNCHANGED <<kind, files, time, policy, restarts, producer>>
<1>0. ASSUME Elsewhere, backend' \in [Backends -> Handler], requests' \subseteq Request,
             worker' \in [Executors -> WorkerSteps], UNCHANGED outbox, runs' \in Nat
      PROVE  TypeOK' /\ OutboxInv'
  BY <1>0 DEF TypeOK, OutboxInv, files, time
<1>1. ASSUME NEW step \in WorkerSteps, Move(e, step)
      PROVE  worker' \in [Executors -> WorkerSteps]
  BY <1>1 DEF Move, TypeOK
<1>s. ASSUME NEW step \in WorkerSteps, NEW op \in Ops, NEW exec \in Executors, NEW report \in Reports,
             Send(e, step, op, exec, report), UNCHANGED <<backend, outbox, runs>>, Elsewhere
      PROVE  TypeOK' /\ OutboxInv'
  BY <1>0, <1>s, SendType DEF TypeOK
<1>m. ASSUME NEW step \in WorkerSteps, Move(e, step), UNCHANGED <<backend, requests, outbox, runs>>,
             Elsewhere
      PROVE  TypeOK' /\ OutboxInv'
  BY <1>0, <1>1, <1>m DEF TypeOK
<1> USE DEF WorkerSteps, Ops, Reports
<1>2. CASE PollClaim(e)
  BY <1>2, <1>s DEF PollClaim
<1>3. CASE FlushOutbox(e)
  <2>1. outbox.exec \in Executors /\ outbox.report \in Reports
    BY <1>3 DEF FlushOutbox, OutboxInv, TypeOK, Outbox
  <2> QED  BY <1>3, <1>s, <2>1 DEF FlushOutbox
<1>4. CASE RefuseLocally(e)
  BY <1>4, <1>m DEF RefuseLocally
<1>5. CASE SendPreflight(e)
  BY <1>5, <1>s DEF SendPreflight
<1>6. CASE QueueLegacy(e)
  BY <1>6, <1>m DEF QueueLegacy
<1>7. CASE SendFinal(e)
  BY <1>7, <1>s DEF SendFinal
<1>8. CASE StartNative(e)
  <2>1. worker' \in [Executors -> WorkerSteps] /\ runs' \in Nat
    BY <1>8, <1>1 DEF StartNative, TypeOK
  <2> QED  BY <1>8, <1>0, <2>1 DEF StartNative, TypeOK
<1>9. CASE NativeReturns(e)
  BY <1>9, <1>m DEF NativeReturns
<1>10. CASE ReportRefusal(e)
  BY <1>10, <1>s DEF ReportRefusal
<1>11. CASE ReportBusy(e)
  BY <1>11, <1>s DEF ReportBusy
<1>12. CASE NativeThrows(e)
  <2> PICK report \in {"unknown", "known"} : Send(e, "reporting", "fail", e, report)
    BY <1>12 DEF NativeThrows
  <2> QED  BY <1>12, <1>s DEF NativeThrows
<1>13. CASE NativeOverruns(e)
  BY <1>13, <1>s DEF NativeOverruns
<1>14. CASE OrphanReturns(e)
  BY <1>14, <1>m DEF OrphanReturns
<1>15. CASE SaveAndPost(e)
  <2> PICK report \in {"good", "bad"} :
          /\ outbox' = [state |-> "pending", exec |-> e, report |-> report]
          /\ Send(e, "posting", "complete", e, report)
    BY <1>15 DEF SaveAndPost
  <2>1. outbox' \in Outbox /\ OutboxInv'
    BY DEF Outbox, OutboxInv, Executor
  <2>2. worker' \in [Executors -> WorkerSteps] /\ requests' \subseteq Request
    BY SendType
  <2> QED  BY <1>15, <2>1, <2>2 DEF SaveAndPost, TypeOK, files, time
<1>16. CASE OutboxSaveFails(e)
  BY <1>16, <1>m DEF OutboxSaveFails
<1>17. CASE GiveUp(e)
  <2>1. worker' \in [Executors -> WorkerSteps]
    BY <1>17, <1>1 DEF GiveUp
  <2> QED  BY <1>17, <1>0, <2>1, ForgetType DEF GiveUp, TypeOK
<1>18. CASE FinalOverruns(e)
  <2>1. Ask("fail", e, e, "unknown") \in Request
    BY DEF Ask, Request, Executor
  <2>2. worker' \in [Executors -> WorkerSteps]
    BY <1>18, <1>1 DEF FinalOverruns
  <2> QED  BY <1>18, <1>0, <2>1, <2>2, ForgetType DEF FinalOverruns, TypeOK
<1>19. CASE Die(e)
  <2>1. worker' \in [Executors -> WorkerSteps]
    BY <1>19, <1>1 DEF Die
  <2> QED  BY <1>19, <1>0, <2>1, ForgetType DEF Die, TypeOK
<1> QED
  BY <1>2, <1>3, <1>4, <1>5, <1>6, <1>7, <1>8, <1>9, <1>10, <1>11, <1>12, <1>13, <1>14, <1>15,
     <1>16, <1>17, <1>18, <1>19
  DEF WorkerStep

\* The producer's steps, the clock and a restart keep every variable well typed.
LEMMA OtherStepType ==
    ASSUME TypeOK, OutboxInv,
           \/ ProducerStep \/ ProducerCrash \/ Tick \/ LeaseEnds
           \/ \E b \in Backends : Restart(b)
    PROVE  TypeOK' /\ OutboxInv'
<1> USE DEF files, time, station, OutboxInv
<1>1. CASE Publish
  <2>1. job' \in Job
    BY <1>1 DEF Publish, Job, Executor
  <2>2. producer' \in [pc: ProducerSteps, copy: Job]
    BY <1>1 DEF Publish, TypeOK, ProducerSteps
  <2> QED  BY <1>1, <2>1, <2>2 DEF Publish, TypeOK
<1>2. CASE PollResult \/ TimeoutReadResult \/ ProducerCrash
  <2>1. producer' \in [pc: ProducerSteps, copy: Job]
    BY <1>2 DEF PollResult, TimeoutReadResult, ProducerCrash, TypeOK, ProducerSteps
  <2> QED  BY <1>2, <2>1 DEF PollResult, TimeoutReadResult, ProducerCrash, TypeOK
<1>3. CASE TimeoutReadJob
  <2>1. producer' \in [pc: ProducerSteps, copy: Job]
    BY <1>3 DEF TimeoutReadJob, TypeOK, ProducerSteps
  <2> QED  BY <1>3, <2>1 DEF TimeoutReadJob, TypeOK
<1>4. CASE TimeoutWriteJob
  <2>1. producer' \in [pc: ProducerSteps, copy: Job]
    BY <1>4 DEF TimeoutWriteJob, TypeOK, ProducerSteps
  <2>2. job' \in Job
    BY <1>4 DEF TimeoutWriteJob, TypeOK, Job
  <2> QED  BY <1>4, <2>1, <2>2 DEF TimeoutWriteJob, TypeOK
<1>5. CASE TimeoutWriteResult
  <2>1. producer' \in [pc: ProducerSteps, copy: Job]
    BY <1>5 DEF TimeoutWriteResult, TypeOK, ProducerSteps
  <2>2. result' \in Receipt
    BY <1>5, ReceiptedType DEF TimeoutWriteResult, Outcomes, Codes
  <2> QED  BY <1>5, <2>1, <2>2 DEF TimeoutWriteResult, TypeOK
<1>6. CASE Tick
  BY <1>6 DEF Tick, TypeOK
<1>7. CASE LeaseEnds
  BY <1>7 DEF LeaseEnds, TypeOK
<1>8. CASE \E b \in Backends : Restart(b)
  <2> PICK b \in Backends : Restart(b)
    BY <1>8
  <2>1. backend' \in [Backends -> Handler]
    BY ValueTypes DEF Restart, TypeOK
  <2>2. policy' \in [Backends -> AllPolicies]
    BY ConstantsAssumption DEF Restart, TypeOK
  <2>3. restarts' \in Nat
    BY DEF Restart, TypeOK
  <2> QED  BY <2>1, <2>2, <2>3 DEF Restart, TypeOK
<1> QED
  BY <1>1, <1>2, <1>3, <1>4, <1>5, <1>6, <1>7, <1>8 DEF ProducerStep

-----------------------------------------------------------------------------
(* FamilyInv *)

\* The initial state satisfies FamilyInv.
LEMMA FamilyInit == Init => FamilyInv
  BY DEF Init, FamilyInv, IssuedWellFormed, FamilyTruth, HandlerSound, Published, Decided, Idle,
         NotIssued, NoDecision, Decide, NoReceipt, Receipted

\* No decision passes validation before the issued file exists.
LEMMA NothingCausal ==
    ASSUME issued = NotIssued
    PROVE  \A dec : ~Causal(dec)
  BY DEF Causal, NotIssued, Fence, Challenge

\* The issued file and the decision are written once, so what a handler knows
\* about them stays true.
LEMMA SoundPersists ==
    ASSUME Family, UNCHANGED kind, NEW c \in Backends, HandlerSound(backend[c]),
           issued' = issued \/ issued = NotIssued,
           decision' = decision \/ decision = NoDecision,
           \/ backend'[c] = backend[c]
           \/ backend'[c] = [backend[c] EXCEPT !.from = NoExec] /\ backend[c] \in Handler
           \/ backend'[c] = Idle
    PROVE  HandlerSound(backend[c])'
<1>1. backend[c].pc = "decide" => issued' = issued
  BY NothingCausal DEF HandlerSound
<1>2. backend[c].pc \in {"consume", "publish"} => decision' = decision
  BY DEF HandlerSound
<1>3. \A dec : issued' = issued => Causal(dec)' = Causal(dec)
  BY DEF Causal
<1>4. CASE backend'[c] = backend[c]
  BY <1>1, <1>2, <1>4 DEF HandlerSound, Causal
<1>5. CASE backend'[c] = [backend[c] EXCEPT !.from = NoExec] /\ backend[c] \in Handler
  <2>1. /\ backend'[c].pc = backend[c].pc /\ backend'[c].op = backend[c].op
        /\ backend'[c].exec = backend[c].exec /\ backend'[c].dec = backend[c].dec
        /\ backend'[c].answer = backend[c].answer
    BY <1>5 DEF Handler
  <2> QED  BY <1>1, <1>2, <2>1 DEF HandlerSound, Causal
<1>6. CASE backend'[c] = Idle
  BY <1>6 DEF HandlerSound, Idle
<1> QED  BY <1>4, <1>5, <1>6

\* A step that writes no file of the decision keeps FamilyInv.
LEMMA FamilyFrame ==
    ASSUME TypeOK, FamilyInv, UNCHANGED <<kind, issued, decision, consumed, result>>,
           Family => producer'.pc \notin {"overdue", "wrote_job"},
           \A c \in Backends : \/ backend'[c] = backend[c]
                               \/ backend'[c] = [backend[c] EXCEPT !.from = NoExec]
                               \/ backend'[c] = Idle
    PROVE  FamilyInv'
<1> SUFFICES ASSUME Family PROVE FamilyInv'
  BY DEF FamilyInv, Family
<1>1. ASSUME NEW c \in Backends PROVE HandlerSound(backend[c])'
  <2>1. backend[c] \in Handler
    BY DEF TypeOK
  <2> QED  BY <2>1, SoundPersists DEF FamilyInv
<1>2. IssuedWellFormed'
  BY DEF FamilyInv, IssuedWellFormed
<1>3. FamilyTruth'
  BY DEF FamilyInv, FamilyTruth, Family, Published, Decided, Causal
<1> QED  BY <1>1, <1>2, <1>3 DEF FamilyInv

\* A backend's step on the decision's files keeps FamilyInv when the files are
\* right afterwards and its handler is sound.
LEMMA FamilyWrite ==
    ASSUME TypeOK, FamilyInv, Family, NEW b \in Backends, NEW x, Continue(b, x),
           issued' = issued \/ issued = NotIssued,
           decision' = decision \/ decision = NoDecision,
           IssuedWellFormed', FamilyTruth', HandlerSound(backend[b])'
    PROVE  FamilyInv'
<1>1. ASSUME NEW c \in Backends PROVE HandlerSound(backend[c])'
  <2>1. CASE c = b
    BY <2>1
  <2>2. CASE c # b
    <3>1. backend'[c] = backend[c] /\ UNCHANGED kind
      BY <2>2 DEF Continue, TypeOK
    <3> QED  BY <3>1, SoundPersists DEF FamilyInv
  <2> QED  BY <2>1, <2>2
<1>2. UNCHANGED producer
  BY DEF Continue
<1> QED  BY <1>1, <1>2 DEF FamilyInv

\* Serving a request touches one handler and no file.
LEMMA ServeType ==
    ASSUME TypeOK, OutboxInv, NEW b \in Backends, NEW r \in requests, NEW h \in Handler,
           Serve(b, r, h)
    PROVE  TypeOK' /\ OutboxInv'
  BY DEF Serve, TypeOK, OutboxInv, files, time, station

\* Serving a request with a sound handler keeps FamilyInv.
LEMMA ServeFamily ==
    ASSUME TypeOK, FamilyInv, NEW b \in Backends, NEW r \in requests, NEW h \in Handler,
           Serve(b, r, h), Family => Opened(r, h)
    PROVE  FamilyInv'
<1> UNCHANGED <<kind, job, issued, decision, consumed, result, producer>>
  BY DEF Serve, files
<1> SUFFICES ASSUME Family PROVE FamilyInv'
  BY DEF FamilyInv, Family
<1>1. ASSUME NEW c \in Backends PROVE HandlerSound(backend[c])'
  <2>1. CASE c = b
    <3>1. backend'[c] = h
      BY <2>1 DEF Serve, TypeOK
    <3> QED  BY <3>1 DEF Opened, HandlerSound, Causal
  <2>2. CASE c # b
    <3>1. backend'[c] = backend[c]
      BY <2>2 DEF Serve, TypeOK
    <3> QED  BY <3>1, SoundPersists DEF FamilyInv
  <2> QED  BY <2>1, <2>2
<1>2. IssuedWellFormed'
  BY DEF FamilyInv, IssuedWellFormed
<1>3. FamilyTruth'
  BY DEF FamilyInv, FamilyTruth, Family, Published, Decided, Causal
<1> QED  BY <1>1, <1>2, <1>3 DEF FamilyInv

\* A handler that answers or saves job.json carries no obligation.
LEMMA RestSound ==
    ASSUME NEW h, h.pc \in {"reply", "save"}
    PROVE  HandlerSound(h)'
  BY DEF HandlerSound

\* Files that are left alone stay right.
LEMMA TruthUnchanged ==
    ASSUME FamilyInv, Family, UNCHANGED <<kind, issued, decision, consumed, result>>
    PROVE  IssuedWellFormed' /\ FamilyTruth'
  BY DEF FamilyInv, IssuedWellFormed, FamilyTruth, Family, Published, Decided, Causal

\* A decision that passes validation is one.
LEMMA CausalReal ==
    ASSUME IssuedWellFormed, NEW dec, Causal(dec)
    PROVE  dec # NoDecision
<1> SUFFICES ASSUME dec = NoDecision PROVE FALSE
  OBVIOUS
<1>1. dec.hash = "null" /\ dec.receipt.outcome = "none"
  BY DEF NoDecision, Decide, NoReceipt, Receipted
<1>2. issued = Fence(dec)
  BY <1>1 DEF Causal
<1>3. issued.type = "fence" /\ issued.decision = dec
  BY <1>2 DEF Fence
<1> QED  BY <1>1, <1>3 DEF IssuedWellFormed, Failures

\* The issued file, created as a challenge or a fence, keeps FamilyTruth:
\* nothing was decided before.
LEMMA FirstIssue ==
    ASSUME TypeOK, FamilyInv, Family, issued = NotIssued,
           UNCHANGED <<kind, decision, consumed, result>>
    PROVE  FamilyTruth'
<1>1. decision = NoDecision
  BY NothingCausal DEF FamilyInv, FamilyTruth, Decided
<1>2. ~Decided' /\ ~Published' /\ ~consumed'
  BY <1>1 DEF FamilyInv, FamilyTruth, Decided, Published, NoDecision, Decide, NoReceipt, Receipted
<1> QED  BY <1>2 DEF FamilyTruth

\* A backend's writes to the files of a family job keep FamilyInv.
LEMMA WriteStepFamily ==
    ASSUME TypeOK, FamilyInv, Family, NEW b \in Backends, WriteStep(b)
    PROVE  FamilyInv'
<1> DEFINE h == backend[b]
<1>h. h \in Handler /\ h.dec \in Decision /\ h.copy \in Job /\ h.answer \in Answers
  BY DEF TypeOK, Handler
<1>s. HandlerSound(h) /\ IssuedWellFormed /\ FamilyTruth
  BY DEF FamilyInv
<1>b. ASSUME NEW x, Continue(b, x) PROVE backend'[b] = x /\ UNCHANGED kind
  BY <1>b DEF Continue, TypeOK
<1>a. ASSUME NEW answer \in Answers, issued.type = "fence", Continue(b, AdoptFence(h, answer)),
             UNCHANGED <<issued, decision, consumed, result>>
      PROVE  FamilyInv'
  <2> DEFINE x == AdoptFence(h, answer)
  <2>1. \/ x.pc \in {"reply", "save"}
        \/ x.pc = "decide" /\ x.dec = issued.decision
    BY <1>h, AdoptFenceFacts
  <2>2. Causal(issued.decision)
    BY <1>a, <1>s, FenceCausal
  <2>3. Causal(issued.decision)'
    BY <1>a, <2>2 DEF Causal
  <2>4. Continue(b, x) /\ backend'[b] = x /\ UNCHANGED kind
    BY <1>a, <1>b
  <2> HIDE DEF x
  <2>5. HandlerSound(backend[b])'
    BY <1>a, <2>1, <2>3, <2>4, RestSound DEF HandlerSound
  <2> QED  BY <1>a, <2>4, <2>5, TruthUnchanged, FamilyWrite
<1>t. ASSUME NEW receipt \in Receipt, NEW answer \in Answers, receipt.outcome \in Failures,
             Continue(b, WriteTerminal(h, receipt, answer)),
             UNCHANGED <<issued, decision, consumed, result>>
      PROVE  FamilyInv'
  <2> DEFINE x == WriteTerminal(h, receipt, answer)
  <2>1. x.pc = "fence" /\ x.dec.hash = "null" /\ x.dec.receipt = receipt
    BY <1>h, WriteTerminalFacts
  <2>2. Continue(b, x) /\ backend'[b] = x /\ UNCHANGED kind
    BY <1>t, <1>b
  <2> HIDE DEF x
  <2>3. HandlerSound(backend[b])'
    BY <1>t, <2>1, <2>2 DEF HandlerSound
  <2> QED  BY <1>t, <2>2, <2>3, TruthUnchanged, FamilyWrite
<1>1. CASE IssueChallenge(b)
  <2>1. CASE issued.type = "none"
    <3> DEFINE x == [h EXCEPT !.pc = "authorize"]
    <3>1. issued = NotIssued
      BY <2>1, <1>s DEF IssuedWellFormed
    <3>2. h.exec \in Executors /\ h.op = "final" /\ h.answer = "none"
      BY <1>1, <1>s DEF IssueChallenge, HandlerSound
    <3>3. Continue(b, x) /\ issued' = Challenge(h.exec) /\ UNCHANGED <<decision, consumed, result>>
      BY <1>1, <2>1, <3>1 DEF IssueChallenge
    <3>4. x.pc = "authorize" /\ x.op = "final" /\ x.answer = "none"
      BY <1>h, <3>2 DEF Handler
    <3> HIDE DEF x
    <3>5. HandlerSound(backend[b])'
      BY <1>b, <3>3, <3>4 DEF HandlerSound
    <3>6. IssuedWellFormed'
      BY <3>2, <3>3, ConstantsAssumption DEF IssuedWellFormed, Challenge
    <3> QED  BY <1>b, <3>1, <3>3, <3>5, <3>6, FirstIssue, FamilyWrite
  <2>2. CASE issued.type = "fence"
    BY <1>1, <1>a, <2>2 DEF IssueChallenge, NotIssued, Answers
  <2>3. CASE issued.type = "challenge"
    <3> DEFINE receipt == Receipted("failed_unknown", "replay_denied")
    <3>1. receipt \in Receipt /\ receipt.outcome \in Failures
      BY ReceiptedType DEF Outcomes, Codes, Failures
    <3>2. Continue(b, WriteTerminal(h, receipt, "error")) /\ UNCHANGED <<issued, decision, consumed, result>>
      BY <1>1, <2>3 DEF IssueChallenge, NotIssued
    <3> HIDE DEF receipt
    <3> QED  BY <1>t, <3>1, <3>2 DEF Answers
  <2> QED  BY <2>1, <2>2, <2>3 DEF TypeOK, Issued
<1>2. CASE AuthorizeFinal(b)
  <2>1. CASE Continue(b, Respond(h, "ok"))
    <3> DEFINE x == Respond(h, "ok")
    <3>1. x.pc = "reply" /\ Continue(b, x)
      BY <1>h, <2>1, RespondFacts DEF Answers
    <3> HIDE DEF x
    <3>2. HandlerSound(backend[b])'
      BY <1>b, <3>1, RestSound DEF HandlerSound
    <3> QED  BY <1>2, <1>b, <3>1, <3>2, TruthUnchanged, FamilyWrite DEF AuthorizeFinal, files
  <2>2. CASE Continue(b, WriteTerminal(h, Receipted("failed_known", "final_denied"), "error"))
    <3> DEFINE receipt == Receipted("failed_known", "final_denied")
    <3>1. receipt \in Receipt /\ receipt.outcome \in Failures
      BY ReceiptedType DEF Outcomes, Codes, Failures
    <3>2. Continue(b, WriteTerminal(h, receipt, "error"))
      BY <2>2
    <3> HIDE DEF receipt
    <3> QED  BY <1>2, <1>t, <3>1, <3>2 DEF AuthorizeFinal, files, Answers
  <2> QED  BY <1>2, <2>1, <2>2 DEF AuthorizeFinal
<1>3. CASE WriteFence(b)
  <2>1. CASE issued.type = "none"
    <3> DEFINE x == [h EXCEPT !.pc = "decide"]
    <3>1. issued = NotIssued
      BY <2>1, <1>s DEF IssuedWellFormed
    <3>2. h.dec.hash = "null" /\ h.dec.receipt.outcome \in Failures
      BY <1>3, <1>s DEF WriteFence, HandlerSound
    <3>3. Continue(b, x) /\ issued' = Fence(h.dec) /\ UNCHANGED <<decision, consumed, result>>
      BY <1>3, <2>1, <3>1 DEF WriteFence
    <3>4. x.pc = "decide" /\ x.dec = h.dec
      BY <1>h DEF Handler
    <3> HIDE DEF x
    <3>5. Causal(h.dec)'
      <4>1. h' = x
        BY <1>b, <3>3
      <4> QED  BY <3>2, <3>3, <3>4, <4>1 DEF Causal, Failures
    <3>6. HandlerSound(backend[b])'
      BY <1>b, <3>3, <3>4, <3>5 DEF HandlerSound
    <3>7. IssuedWellFormed'
      BY <3>2, <3>3 DEF IssuedWellFormed, Fence
    <3> QED  BY <1>b, <3>1, <3>3, <3>6, <3>7, FirstIssue, FamilyWrite
  <2>2. CASE issued.type = "fence"
    BY <1>3, <1>a, <1>h, <2>2 DEF WriteFence, NotIssued
  <2>3. CASE issued.type = "challenge"
    <3> DEFINE x == UnderChallenge(h)
               d == Decide(issued.exec, "challenge", Receipted("failed_unknown", h.dec.receipt.code))
    <3>1. Continue(b, x) /\ UNCHANGED <<issued, decision, consumed, result>>
      BY <1>3, <2>3 DEF WriteFence, NotIssued
    <3>2. issued = Challenge(issued.exec) /\ issued.exec # NoExec
      BY <2>3, <1>s DEF IssuedWellFormed
    <3>3. d.hash = "challenge" /\ d.exec = issued.exec /\ d.receipt.outcome = "failed_unknown"
      BY DEF Decide, Receipted
    <3> HIDE DEF d
    <3>4. \/ x.pc = "reply"
          \/ x.pc = "decide" /\ x.dec = d
      BY <1>h, RespondFacts DEF UnderChallenge, d, Answers, Handler
    <3> HIDE DEF x
    <3>5. Causal(d)
      BY <3>2, <3>3 DEF Causal
    <3>6. backend'[b] = x
      BY <1>b, <3>1
    <3>7. HandlerSound(backend[b])'
      <4>1. CASE x.pc = "reply"
        BY <3>6, <4>1 DEF HandlerSound
      <4>2. CASE x.pc = "decide" /\ x.dec = d
        BY <3>1, <3>5, <3>6, <4>2 DEF HandlerSound, Causal
      <4> QED  BY <3>4, <4>1, <4>2
    <3> QED  BY <1>b, <3>1, <3>7, TruthUnchanged, FamilyWrite
  <2> QED  BY <2>1, <2>2, <2>3 DEF TypeOK, Issued
<1>4. CASE PublishDecision(b)
  <2> DEFINE winner == IF decision = NoDecision THEN h.dec ELSE decision
             answer == IF h.answer = "settled" THEN "none" ELSE h.answer
             x == Recover(h, winner, answer)
  <2>a. answer \in Answers
    BY <1>h DEF Handler, Answers
  <2>1. Continue(b, x) /\ decision' = winner /\ UNCHANGED <<issued, consumed, result>>
    BY <1>4 DEF PublishDecision
  <2>2. Causal(winner) /\ winner \in Decision
    BY <1>4, <1>h, <1>s DEF PublishDecision, HandlerSound, FamilyTruth, Decided, TypeOK
  <2>3. winner # NoDecision
    BY <1>s, <2>2, CausalReal
  <2>4. decision = NoDecision \/ winner = decision
    OBVIOUS
  <2>5. \/ x.pc \in {"reply", "save"}
        \/ x.pc = "publish" /\ x.dec = winner
        \/ x.pc = "consume" /\ x.dec = winner /\ winner.receipt.outcome = "succeeded"
    BY <1>h, <2>2, <2>a, RecoverFacts
  <2>6. backend'[b] = x /\ UNCHANGED kind
    BY <1>b, <2>1
  <2> HIDE DEF winner, x
  <2>7. HandlerSound(backend[b])'
    BY <2>1, <2>3, <2>5, <2>6 DEF HandlerSound
  <2>8. IssuedWellFormed'
    BY <1>s, <2>1 DEF IssuedWellFormed
  <2>9. FamilyTruth'
    <3>1. Causal(decision)'
      BY <2>1, <2>2 DEF Causal
    <3>2. decision # NoDecision => decision' = decision
      BY <2>1, <2>4
    <3>3. consumed => decision # NoDecision
      BY <1>s DEF FamilyTruth, NoDecision, Decide, NoReceipt, Receipted
    <3> QED  BY <1>s, <2>1, <2>6, <3>1, <3>2, <3>3 DEF FamilyTruth, Family, Published, Decided
  <2> QED  BY <2>1, <2>4, <2>7, <2>8, <2>9, FamilyWrite
<1>5. CASE ConsumeChallenge(b)
  <2> DEFINE x == [h EXCEPT !.pc = "publish"]
  <2>1. Continue(b, x) /\ consumed' = TRUE /\ UNCHANGED <<issued, decision, result>>
    BY <1>5 DEF ConsumeChallenge
  <2>2. h.dec = decision /\ decision # NoDecision /\ decision.receipt.outcome = "succeeded"
    BY <1>5, <1>s DEF ConsumeChallenge, HandlerSound
  <2>3. x.pc = "publish" /\ x.dec = decision
    BY <1>h, <2>2 DEF Handler
  <2> HIDE DEF x
  <2>4. backend'[b] = x /\ UNCHANGED kind
    BY <1>b, <2>1
  <2>5. HandlerSound(backend[b])'
    BY <2>1, <2>2, <2>3, <2>4 DEF HandlerSound
  <2>6. IssuedWellFormed'
    BY <1>s, <2>1 DEF IssuedWellFormed
  <2>7. FamilyTruth'
    BY <1>s, <2>1, <2>2, <2>4 DEF FamilyTruth, Family, Published, Decided, Causal
  <2> QED  BY <2>1, <2>5, <2>6, <2>7, FamilyWrite
<1>6. CASE PublishResult(b)
  <2> PICK x : x.pc \in {"reply", "save"} /\ Continue(b, x)
    <3>1. CASE Published
      BY <1>6, <1>h, <3>1, ReconcileFacts DEF PublishResult, TypeOK
    <3>2. CASE ~Published
      BY <1>6, <1>h, <3>2, SaveFacts, StatusOfType DEF PublishResult
    <3> QED  BY <3>1, <3>2
  <2>1. UNCHANGED <<issued, decision, consumed>> /\ result' = IF Published THEN result ELSE h.dec.receipt
    BY <1>6 DEF PublishResult
  <2>2. h.dec = decision /\ decision # NoDecision
    BY <1>6, <1>s DEF PublishResult, HandlerSound
  <2>3. backend'[b] = x /\ UNCHANGED kind
    BY <1>b
  <2>4. HandlerSound(backend[b])'
    BY <2>3, RestSound DEF HandlerSound
  <2>5. IssuedWellFormed'
    BY <1>s, <2>1 DEF IssuedWellFormed
  <2>6. FamilyTruth'
    BY <1>s, <2>1, <2>2, <2>3 DEF FamilyTruth, Family, Published, Decided, Causal
  <2> QED  BY <2>1, <2>4, <2>5, <2>6, FamilyWrite
<1>7. CASE SaveJob(b) \/ Reply(b)
  <2>1. /\ UNCHANGED <<kind, issued, decision, consumed, result, producer>>
        /\ backend' = [backend EXCEPT ![b] = Idle]
    BY <1>7 DEF SaveJob, Reply, Finish, files
  <2>2. \A c \in Backends : backend'[c] = backend[c] \/ backend'[c] = Idle
    BY <2>1 DEF TypeOK
  <2> QED  BY <2>1, <2>2, FamilyFrame DEF FamilyInv
<1> QED  BY <1>1, <1>2, <1>3, <1>4, <1>5, <1>6, <1>7 DEF WriteStep

\* No step of the workstation, the producer, the clock or a restart touches
\* the decision's files of a family job: the producer overwrites v1 jobs only.
LEMMA OtherStepFamily ==
    ASSUME TypeOK, FamilyInv, Family,
           \/ \E e \in Executors : WorkerStep(e) \/ GiveUp(e) \/ FinalOverruns(e) \/ Die(e)
           \/ ProducerStep \/ ProducerCrash \/ Tick \/ LeaseEnds
           \/ \E b \in Backends : Restart(b)
    PROVE  FamilyInv'
<1>p. producer.pc \notin {"overdue", "wrote_job"} /\ producer \in [pc: ProducerSteps, copy: Job]
  BY DEF FamilyInv, TypeOK
<1>q. ~V1
  BY DEF Family, V1, V1Kinds
<1>1. CASE \E e \in Executors : WorkerStep(e) \/ GiveUp(e) \/ FinalOverruns(e) \/ Die(e)
  <2> PICK e \in Executors : WorkerStep(e) \/ GiveUp(e) \/ FinalOverruns(e) \/ Die(e)
    BY <1>1
  <2>1. CASE WorkerStep(e)
    <3>1. UNCHANGED <<kind, issued, decision, consumed, result, producer, backend>>
      BY <2>1 DEF WorkerStep, PollClaim, FlushOutbox, RefuseLocally, SendPreflight, QueueLegacy,
                  SendFinal, StartNative, NativeReturns, ReportRefusal, ReportBusy, NativeThrows,
                  NativeOverruns, OrphanReturns, SaveAndPost, OutboxSaveFails, files
    <3> QED  BY <1>p, <3>1, FamilyFrame
  <2>2. CASE GiveUp(e) \/ FinalOverruns(e) \/ Die(e)
    <3>1. /\ UNCHANGED <<kind, issued, decision, consumed, result, producer>>
          /\ backend' = Detached(e)
      BY <2>2 DEF GiveUp, FinalOverruns, Die, files
    <3>2. \A c \in Backends : backend'[c] = backend[c] \/ backend'[c] = [backend[c] EXCEPT !.from = NoExec]
      BY <3>1 DEF Detached
    <3> QED  BY <1>p, <3>1, <3>2, FamilyFrame
  <2> QED  BY <2>1, <2>2
<1>2. CASE Publish \/ PollResult \/ TimeoutReadJob \/ TimeoutReadResult \/ ProducerCrash
  <2>1. UNCHANGED <<kind, issued, decision, consumed, result, backend>>
    BY <1>2 DEF Publish, PollResult, TimeoutReadJob, TimeoutReadResult, ProducerCrash, files
  <2>2. producer'.pc \notin {"overdue", "wrote_job"}
    BY <1>2, <1>p, <1>q
    DEF Publish, PollResult, TimeoutReadJob, TimeoutReadResult, ProducerCrash
  <2> QED  BY <2>1, <2>2, FamilyFrame
<1>3. CASE TimeoutWriteJob \/ TimeoutWriteResult
  BY <1>3, <1>p DEF TimeoutWriteJob, TimeoutWriteResult
<1>4. CASE Tick \/ LeaseEnds
  <2>1. UNCHANGED <<kind, issued, decision, consumed, result, producer, backend>>
    BY <1>4 DEF Tick, LeaseEnds, files
  <2> QED  BY <1>p, <2>1, FamilyFrame
<1>5. CASE \E b \in Backends : Restart(b)
  <2> PICK b \in Backends : Restart(b)
    BY <1>5
  <2>1. /\ UNCHANGED <<kind, issued, decision, consumed, result, producer>>
        /\ backend' = [backend EXCEPT ![b] = Idle]
    BY DEF Restart, files
  <2>2. \A c \in Backends : backend'[c] = backend[c] \/ backend'[c] = Idle
    BY <2>1 DEF TypeOK
  <2> QED  BY <1>p, <2>1, <2>2, FamilyFrame
<1> QED  BY <1>1, <1>2, <1>3, <1>4, <1>5 DEF ProducerStep

\* A job keeps its kind, so FamilyInv says nothing about any other.
LEMMA KindStable ==
    ASSUME TypeOK, FamilyInv, Next
    PROVE  UNCHANGED kind
<1>1. ASSUME NEW b \in Backends, HandleRequest(b) PROVE UNCHANGED kind
  <2> PICK r \in requests : ClaimNext(b, r) \/ Authorize(b, r) \/ Report(b, r)
    BY <1>1 DEF HandleRequest
  <2> QED  BY Served DEF Serve
<1>2. ASSUME NEW b \in Backends, WriteStep(b) \/ Restart(b) PROVE UNCHANGED kind
  BY <1>2 DEF WriteStep, Restart, IssueChallenge, AuthorizeFinal, WriteFence, PublishDecision,
              ConsumeChallenge, PublishResult, SaveJob, Reply, Continue
<1>3. ASSUME NEW e \in Executors, WorkerStep(e) \/ GiveUp(e) \/ FinalOverruns(e) \/ Die(e)
      PROVE  UNCHANGED kind
  BY <1>3 DEF WorkerStep, PollClaim, FlushOutbox, RefuseLocally, SendPreflight, QueueLegacy,
              SendFinal, StartNative, NativeReturns, ReportRefusal, ReportBusy, NativeThrows,
              NativeOverruns, OrphanReturns, SaveAndPost, OutboxSaveFails, GiveUp, FinalOverruns, Die
<1>4. ASSUME ProducerStep \/ ProducerCrash \/ Tick \/ LeaseEnds PROVE UNCHANGED kind
  BY <1>4 DEF ProducerStep, ProducerCrash, Tick, LeaseEnds, Publish, PollResult, TimeoutReadJob,
              TimeoutReadResult, TimeoutWriteJob, TimeoutWriteResult
<1> QED  BY <1>1, <1>2, <1>3, <1>4 DEF Next

-----------------------------------------------------------------------------
(* The theorems *)

Inv == TypeOK /\ OutboxInv /\ FamilyInv

\* Every step keeps the inductive invariant.
LEMMA InvStep == Inv /\ [Next]_vars => Inv'
<1> SUFFICES ASSUME Inv, [Next]_vars PROVE Inv'
  OBVIOUS
<1> USE DEF Inv
<1>1. CASE UNCHANGED vars
  BY <1>1 DEF vars, TypeOK, OutboxInv, FamilyInv, IssuedWellFormed, FamilyTruth, HandlerSound,
              Family, Published, Decided, Causal
<1>2. ASSUME NEW b \in Backends, HandleRequest(b) PROVE Inv'
  <2> PICK r \in requests : ClaimNext(b, r) \/ Authorize(b, r) \/ Report(b, r)
    BY <1>2 DEF HandleRequest
  <2> PICK h \in Handler : Serve(b, r, h) /\ (Family => Opened(r, h))
    BY Served
  <2> QED  BY ServeType, ServeFamily
<1>3. ASSUME NEW b \in Backends, WriteStep(b), UNCHANGED kind PROVE Inv'
  <2>1. TypeOK' /\ OutboxInv'
    BY <1>3, WriteStepType
  <2>2. CASE Family
    BY <1>3, <2>1, <2>2, WriteStepFamily
  <2>3. CASE ~Family
    BY <1>3, <2>1, <2>3 DEF FamilyInv, Family
  <2> QED  BY <2>2, <2>3
<1>4. ASSUME UNCHANGED kind,
             \/ \E e \in Executors : WorkerStep(e) \/ GiveUp(e) \/ FinalOverruns(e) \/ Die(e)
             \/ ProducerStep \/ ProducerCrash \/ Tick \/ LeaseEnds
             \/ \E b \in Backends : Restart(b)
      PROVE  Inv'
  <2>1. TypeOK' /\ OutboxInv'
    BY <1>4, WorkerStepType, OtherStepType
  <2>2. CASE Family
    BY <1>4, <2>1, <2>2, OtherStepFamily
  <2>3. CASE ~Family
    BY <1>4, <2>1, <2>3 DEF FamilyInv, Family
  <2> QED  BY <2>2, <2>3
<1>5. CASE Next
  <2>1. UNCHANGED kind
    BY <1>5, KindStable
  <2> QED  BY <1>2, <1>3, <1>4, <1>5, <2>1 DEF Next
<1> QED  BY <1>1, <1>5

\* The inductive invariant holds in every reachable state.
LEMMA InvHolds == Spec => []Inv
<1>1. Init => Inv
  BY TypeInit, FamilyInit DEF Inv
<1> QED  BY <1>1, InvStep, PTL DEF Spec

\* Every variable keeps the shape of the file, record or local it stands for,
\* for any number of backends, executors and restarts.
THEOREM TypeCorrect == Spec => []TypeOK
<1>1. Inv => TypeOK
  BY DEF Inv
<1> QED  BY <1>1, InvHolds, PTL

\* A certified family job has one terminal truth, however many backends serve
\* it and wherever they crash: result.json repeats the decision, the decision
\* is the fence or answers the issued challenge, and only a success consumes it.
THEOREM FamilyTruthHolds == Spec => []FamilyTruth
<1>1. Inv => FamilyTruth
  BY DEF Inv, FamilyInv, FamilyTruth
<1> QED  BY <1>1, InvHolds, PTL

\* The producer of a v2 job never reaches the steps that overwrite files.
CertifiedInv == Inv /\ Certified /\ producer.pc \notin {"overdue", "wrote_job"}

\* Every step keeps CertifiedInv, and no step replaces a published receipt.
LEMMA CertifiedStep ==
    ASSUME CertifiedInv, [Next]_vars
    PROVE  CertifiedInv' /\ (Published => result' = result)
<1>f. Inv /\ TypeOK /\ FamilyInv /\ ~V1 /\ Certified /\ producer.pc \notin {"overdue", "wrote_job"}
  BY DEF CertifiedInv, Inv, Certified, V1, V1Kinds
<1>1. Inv'
  BY <1>f, InvStep
<1>2. UNCHANGED kind
  <2>1. CASE Next
    BY <1>f, <2>1, KindStable
  <2>2. CASE UNCHANGED vars
    BY <2>2 DEF vars
  <2> QED  BY <2>1, <2>2
<1>3. CASE UNCHANGED vars
  BY <1>f, <1>1, <1>2, <1>3 DEF vars, CertifiedInv, Certified
<1>4. ASSUME NEW b \in Backends, HandleRequest(b) PROVE UNCHANGED <<result, producer>>
  <2> PICK r \in requests : ClaimNext(b, r) \/ Authorize(b, r) \/ Report(b, r)
    BY <1>4 DEF HandleRequest
  <2> PICK h \in Handler : Serve(b, r, h)
    BY <1>f, Served
  <2> QED  BY DEF Serve, files
<1>5. ASSUME NEW b \in Backends, WriteStep(b) \/ Restart(b)
      PROVE  UNCHANGED producer /\ (Published => result' = result)
  BY <1>5 DEF WriteStep, Restart, IssueChallenge, AuthorizeFinal, WriteFence, PublishDecision,
              ConsumeChallenge, PublishResult, SaveJob, Reply, Continue, files
<1>6. ASSUME NEW e \in Executors, WorkerStep(e) \/ GiveUp(e) \/ FinalOverruns(e) \/ Die(e)
      PROVE  UNCHANGED <<result, producer>>
  BY <1>6 DEF WorkerStep, PollClaim, FlushOutbox, RefuseLocally, SendPreflight, QueueLegacy,
              SendFinal, StartNative, NativeReturns, ReportRefusal, ReportBusy, NativeThrows,
              NativeOverruns, OrphanReturns, SaveAndPost, OutboxSaveFails, GiveUp, FinalOverruns,
              Die, files
<1>7. ASSUME ProducerStep \/ ProducerCrash \/ Tick \/ LeaseEnds
      PROVE  UNCHANGED result /\ producer'.pc \notin {"overdue", "wrote_job"}
  <2>1. producer \in [pc: ProducerSteps, copy: Job]
    BY <1>f DEF TypeOK
  <2> QED  BY <1>f, <1>7, <2>1
           DEF ProducerStep, ProducerCrash, Tick, LeaseEnds, Publish, PollResult, TimeoutReadJob,
               TimeoutReadResult, TimeoutWriteJob, TimeoutWriteResult, files
<1>8. CASE Next
  <2>1. producer'.pc \notin {"overdue", "wrote_job"} /\ (Published => result' = result)
    BY <1>f, <1>4, <1>5, <1>6, <1>7, <1>8 DEF Next
  <2> QED  BY <1>f, <1>1, <1>2, <2>1 DEF CertifiedInv, Certified
<1> QED  BY <1>3, <1>8

\* A published receipt of a v2 job is never replaced (publishDurableTerminal),
\* by any number of backends or by the producer's timeout.
THEOREM CertifiedFirstWriterWins == Spec /\ Certified => FirstWriterWins
<1>1. Init /\ Certified => CertifiedInv
  BY TypeInit, FamilyInit DEF CertifiedInv, Inv, Init
<1>2. CertifiedInv /\ [Next]_vars => CertifiedInv' /\ [Published => result' = result]_vars
  BY CertifiedStep
<1> QED  BY <1>1, <1>2, PTL DEF Spec, FirstWriterWins

-----------------------------------------------------------------------------
(* job.json and result.json *)

\* A terminal status is the one that result.json has.
Agrees(status) == status \in {"succeeded", "failed"} => Published /\ status = StatusOf(result)

\* The copy of job.json that a handler carries agrees, and whatever a family's
\* handler is about to write names the executor the job is meant for; only a
\* family has the files of a decision.
HandlerAgrees(h) ==
    /\ Agrees(h.copy.status)
    /\ h.pc = "publish" => h.dec.receipt # NoReceipt
    /\ h.pc \in {"issue", "authorize", "fence", "decide", "consume"} => Family
    /\ Family =>
          /\ h.copy.claim \in {NoExec, Target}
          /\ h.pc \in {"fence", "decide"} => h.dec.exec = Target
          /\ h.pc = "issue" => h.exec = Target

\* A family job names its executor, so that no scan finds a fence or a decision
\* it must quarantine.
OneExecutor ==
    Family =>
        /\ Target # NoExec
        /\ job.claim \in {NoExec, Target}
        /\ issued # NotIssued => issued.exec = Target
        /\ decision # NoDecision => decision.exec = Target

AgreeInv ==
    /\ CertifiedInv
    /\ Agrees(job.status)
    /\ OneExecutor
    /\ \A b \in Backends : HandlerAgrees(backend[b])

\* A decision that passes validation carries a receipt.
LEMMA CausalReceipt ==
    ASSUME IssuedWellFormed, NEW dec, Causal(dec)
    PROVE  dec.receipt # NoReceipt
<1>1. CASE dec.hash = "null"
  <2>1. issued = Fence(dec)
    BY <1>1 DEF Causal
  <2>2. issued.type = "fence" /\ issued.decision = dec
    BY <2>1 DEF Fence
  <2> QED  BY <2>2 DEF IssuedWellFormed, Failures, NoReceipt, Receipted
<1>2. CASE dec.hash # "null"
  BY <1>2 DEF Causal, NoReceipt, Receipted
<1> QED  BY <1>1, <1>2

\* A handler starts with the job.json it read.
LEMMA OpenAgrees ==
    ASSUME AgreeInv, NEW r \in Request
    PROVE  HandlerAgrees(Open(r))
<1>1. Open(r).copy = job /\ Open(r).pc = "reply"
  BY DEF Open
<1> QED  BY <1>1 DEF AgreeInv, OneExecutor, HandlerAgrees

\* An answer changes nothing the handler carries.
LEMMA RespondAgrees ==
    ASSUME NEW h \in Handler, HandlerAgrees(h), NEW answer \in Answers
    PROVE  HandlerAgrees(Respond(h, answer))
<1>1. Respond(h, answer).copy = h.copy /\ Respond(h, answer).pc = "reply"
  BY DEF Respond, Handler
<1> QED  BY <1>1 DEF HandlerAgrees

\* Saving the status of the published receipt agrees with it.
LEMMA SaveAgrees ==
    ASSUME NEW h \in Handler, HandlerAgrees(h), NEW status, Agrees(status), NEW answer \in Answers
    PROVE  HandlerAgrees(Save(h, status, answer))
<1> DEFINE x == Save(h, status, answer)
<1>1. x.copy.status = status /\ x.copy.claim = h.copy.claim /\ x.pc = "save"
  BY DEF Save, Handler, Job
<1> SUFFICES HandlerAgrees(x)
  OBVIOUS
<1> HIDE DEF x
<1> QED  BY <1>1 DEF HandlerAgrees

\* reconcileJobWithResult makes job.json repeat result.json.
LEMMA ReconcileAgrees ==
    ASSUME NEW h \in Handler, HandlerAgrees(h), Published, NEW answer \in Answers,
           NEW x \in Reconciled(h, result, answer)
    PROVE  HandlerAgrees(x)
<1>1. Agrees(StatusOf(result))
  BY DEF Agrees
<1> QED  BY <1>1, RespondAgrees, SaveAgrees DEF Reconciled

\* The executor of a family's decision is the one the job names.
LEMMA DecisionNamesTarget ==
    ASSUME NEW h, HandlerAgrees(h), Family, Target # NoExec
    PROVE  DecisionExecutor(h.copy) = Target
  BY DEF HandlerAgrees, DecisionExecutor

\* writeTerminal carries a receipt, and a family's names the job's executor.
LEMMA WriteTerminalAgrees ==
    ASSUME OneExecutor, NEW h \in Handler, HandlerAgrees(h), NEW receipt \in Receipt,
           receipt.outcome # "none", NEW answer \in Answers
    PROVE  HandlerAgrees(WriteTerminal(h, receipt, answer))
<1> DEFINE x == WriteTerminal(h, receipt, answer)
<1>1. /\ x.copy = h.copy /\ x.dec = Decide(DecisionExecutor(h.copy), "null", receipt)
      /\ x.pc = IF Family THEN "fence" ELSE "publish"
  BY DEF WriteTerminal, Handler
<1>2. x.dec.receipt = receipt /\ x.dec.exec = DecisionExecutor(h.copy)
  BY <1>1 DEF Decide
<1>3. receipt # NoReceipt
  BY DEF NoReceipt, Receipted
<1>4. Family => x.dec.exec = Target
  BY <1>2, DecisionNamesTarget DEF OneExecutor
<1> SUFFICES HandlerAgrees(x)
  OBVIOUS
<1> HIDE DEF x
<1> QED  BY <1>1, <1>2, <1>3, <1>4 DEF HandlerAgrees

\* A family's decision that names the job's executor and passes validation is
\* never quarantined.
LEMMA RecoverAgrees ==
    ASSUME OneExecutor, Family, IssuedWellFormed, NEW h \in Handler, HandlerAgrees(h),
           NEW dec \in Decision, Causal(dec), dec.exec = Target, NEW answer \in Answers
    PROVE  HandlerAgrees(Recover(h, dec, answer))
<1> DEFINE x == Recover(h, dec, answer)
<1>1. DecisionExecutor(h.copy) = Target
  BY DecisionNamesTarget DEF OneExecutor
<1>2. x = [h EXCEPT !.pc = IF dec.receipt.outcome = "succeeded" THEN "consume" ELSE "publish",
                    !.dec = dec, !.answer = answer]
  BY <1>1 DEF Recover
<1>3. x.copy = h.copy /\ x.dec = dec /\ x.pc \in {"consume", "publish"}
  BY <1>2 DEF Handler
<1>4. dec.receipt # NoReceipt
  BY CausalReceipt
<1> SUFFICES HandlerAgrees(x)
  OBVIOUS
<1> HIDE DEF x
<1> QED  BY <1>3, <1>4 DEF HandlerAgrees

\* A fence names the job's executor, so it is adopted.
LEMMA AdoptAgrees ==
    ASSUME OneExecutor, Family, IssuedWellFormed, issued.type = "fence",
           NEW h \in Handler, HandlerAgrees(h), NEW answer \in Answers
    PROVE  HandlerAgrees(AdoptFence(h, answer))
<1> DEFINE x == AdoptFence(h, answer)
<1>1. issued.exec = Target /\ DecisionExecutor(h.copy) = Target
  BY DecisionNamesTarget DEF OneExecutor, NotIssued
<1>2. x = [h EXCEPT !.pc = "decide", !.dec = issued.decision, !.answer = answer]
  BY <1>1 DEF AdoptFence
<1>3. x.copy = h.copy /\ x.dec = issued.decision /\ x.pc = "decide"
  BY <1>2 DEF Handler
<1>4. issued.decision.exec = issued.exec
  <2>1. issued = Fence(issued.decision)
    BY DEF IssuedWellFormed
  <2> QED  BY <2>1 DEF Fence
<1> SUFFICES HandlerAgrees(x)
  OBVIOUS
<1> HIDE DEF x
<1> QED  BY <1>1, <1>3, <1>4 DEF HandlerAgrees

\* Terminal truth that a handler finds is repeated.
LEMMA RecallAgrees ==
    ASSUME AgreeInv, NEW h \in Handler, HandlerAgrees(h), Decided \/ Published,
           NEW answer \in Answers, NEW x \in Recalled(h, answer)
    PROVE  HandlerAgrees(x)
<1>1. CASE Decided
  <2>1. Family /\ Causal(decision) /\ IssuedWellFormed /\ decision \in Decision
    BY <1>1 DEF AgreeInv, CertifiedInv, Inv, FamilyInv, FamilyTruth, Decided, TypeOK
  <2>2. decision.exec = Target /\ OneExecutor
    BY <1>1, <2>1 DEF AgreeInv, OneExecutor, Decided
  <2> QED  BY <1>1, <2>1, <2>2, RecoverAgrees DEF Recalled
<1>2. CASE ~Decided
  BY <1>2, ReconcileAgrees DEF Recalled
<1> QED  BY <1>1, <1>2

\* A handler that writes one of the code's failures agrees.
LEMMA FailureAgrees ==
    ASSUME AgreeInv, NEW h \in Handler, HandlerAgrees(h), NEW outcome \in Outcomes \ {"none"},
           NEW code \in Codes, NEW answer \in Answers
    PROVE  HandlerAgrees(WriteTerminal(h, Receipted(outcome, code), answer))
<1>1. Receipted(outcome, code) \in Receipt /\ Receipted(outcome, code).outcome # "none"
  BY ReceiptedType
<1> QED  BY <1>1, WriteTerminalAgrees DEF AgreeInv

\* Whatever the request and whatever the files say, serving it starts a
\* handler whose copy of job.json agrees with result.json.
LEMMA ServedAgrees ==
    ASSUME AgreeInv, NEW b \in Backends, NEW r \in requests,
           ClaimNext(b, r) \/ Authorize(b, r) \/ Report(b, r)
    PROVE  \E h : Serve(b, r, h) /\ HandlerAgrees(h)
<1>t. TypeOK /\ FamilyInv /\ OneExecutor
  BY DEF AgreeInv, CertifiedInv, Inv
<1>r. r \in Request /\ r.exec \in Executors
  BY <1>t DEF TypeOK, Request
<1>o. Open(r) \in Handler /\ HandlerAgrees(Open(r)) /\ Open(r).exec = r.exec
  BY <1>t, <1>r, OpenFacts, OpenAgrees
<1>c. Family /\ job.claim = r.exec => r.exec = Target
  BY <1>t, <1>r, ConstantsAssumption DEF OneExecutor
<1> DEFINE Goal == \E h : Serve(b, r, h) /\ HandlerAgrees(h)
<1> USE DEF Answers, Codes, Outcomes
<1>0. \A h : Serve(b, r, h) /\ HandlerAgrees(h) => Goal
  OBVIOUS
<1> HIDE DEF Goal
<1>1. CASE ClaimRecovers(b, r)
  <2>1. CASE Fenced
    <3>1. HandlerAgrees(AdoptFence(Open(r), "none"))
      BY <1>t, <1>o, <2>1, AdoptAgrees DEF Fenced, FamilyInv
    <3> QED  BY <1>0, <1>1, <2>1, <3>1 DEF ClaimRecovers
  <2>2. CASE ~Fenced
    <3>1. \A h \in Recalled(Open(r), "none") : HandlerAgrees(h)
      BY <1>1, <1>o, <2>2, RecallAgrees DEF ClaimRecovers, Settled
    <3> QED  BY <1>0, <1>1, <2>2, <3>1 DEF ClaimRecovers
  <2> QED  BY <2>1, <2>2
<1>2. CASE ClaimRefuses(b, r)
  <2> DEFINE code == IF Withdrawn(b) THEN "route_unsupported" ELSE "admission_invalid"
  <2>1. Serve(b, r, WriteTerminal(Open(r), Receipted("failed_known", code), Ending))
    BY <1>2 DEF ClaimRefuses
  <2>2. code \in Codes /\ Ending \in Answers
    BY DEF Ending
  <2> HIDE DEF code
  <2> QED  BY <1>0, <1>o, <2>1, <2>2, FailureAgrees
<1>3. CASE ClaimEndsLease(b, r)
  BY <1>0, <1>3, <1>o, FailureAgrees DEF ClaimEndsLease, Ending
<1>4. CASE ClaimExpires(b, r)
  BY <1>0, <1>4, <1>o, FailureAgrees DEF ClaimExpires, Ending
<1>5. CASE ClaimLeases(b, r)
  <2> DEFINE h == [Open(r) EXCEPT !.pc = "save", !.answer = "job",
                                  !.copy = [status |-> "running", claim |-> r.exec]]
  <2>1. h.pc = "save" /\ h.copy.status = "running" /\ h.copy.claim = r.exec
    BY <1>o DEF Handler
  <2>2. Serve(b, r, h) /\ Target \in {NoExec, r.exec}
    BY <1>5 DEF ClaimLeases, Candidate
  <2> HIDE DEF h
  <2>3. HandlerAgrees(h)
    BY <1>t, <2>1, <2>2 DEF HandlerAgrees, Agrees, OneExecutor
  <2> QED  BY <1>0, <2>2, <2>3
<1>6. CASE ClaimFindsNothing(b, r)
  BY <1>0, <1>6, <1>o DEF ClaimFindsNothing
<1>7. CASE AuthorizeFindsTruth(b, r)
  BY <1>0, <1>7, <1>o, RecallAgrees DEF AuthorizeFindsTruth
<1>8. CASE AuthorizeThrows(b, r)
  BY <1>0, <1>8, <1>o, RespondAgrees DEF AuthorizeThrows
<1>9. CASE AuthorizeTooLate(b, r)
  BY <1>0, <1>9, <1>o, FailureAgrees DEF AuthorizeTooLate
<1>10. CASE AuthorizeByPolicy(b, r)
  BY <1>0, <1>10, <1>o, FailureAgrees, RespondAgrees DEF AuthorizeByPolicy
<1>11. CASE AuthorizeFamilyFinal(b, r)
  <2> DEFINE h == [Open(r) EXCEPT !.pc = "issue"]
  <2>1. h.pc = "issue" /\ h.copy = Open(r).copy /\ h.exec = r.exec
    BY <1>o DEF Handler
  <2>2. Serve(b, r, h) /\ Family /\ job.claim = r.exec
    BY <1>11 DEF AuthorizeFamilyFinal, Authorizable
  <2> HIDE DEF h
  <2>3. HandlerAgrees(h)
    BY <1>o, <1>c, <2>1, <2>2 DEF HandlerAgrees
  <2> QED  BY <1>0, <2>2, <2>3
<1>12. CASE FinishThrows(b, r)
  BY <1>0, <1>12, <1>o, RespondAgrees DEF FinishThrows
<1>13. CASE FinishFindsTruth(b, r)
  <2> DEFINE answer == Verdict(r, IF Decided THEN decision.receipt ELSE result)
  <2>1. answer \in Answers /\ (Decided \/ Published)
        /\ \E h \in Recalled(Open(r), answer) : Serve(b, r, h)
    BY <1>13 DEF FinishFindsTruth, Verdict, Reportable
  <2> HIDE DEF answer
  <2> QED  BY <1>0, <1>o, <2>1, RecallAgrees
<1>14. CASE CompleteConflicts(b, r)
  BY <1>0, <1>14, <1>o, RespondAgrees DEF CompleteConflicts
<1>15. CASE CompleteNative(b, r)
  <2>1. CASE kind = "lab" /\ r.report = "bad"
    BY <1>0, <1>15, <1>o, <2>1, FailureAgrees DEF CompleteNative
  <2>2. CASE ~(kind = "lab" /\ r.report = "bad")
    BY <1>0, <1>15, <1>o, <2>2, FailureAgrees DEF CompleteNative
  <2> QED  BY <2>1, <2>2
<1>16. CASE CompleteFamily(b, r)
  <2>1. CASE issued = Challenge(r.exec) /\ r.report = "good"
    <3> DEFINE dec == Decide(r.exec, "challenge", Receipted("succeeded", "native_success"))
               h == [Open(r) EXCEPT !.pc = "decide", !.answer = "ok", !.dec = dec]
    <3>1. Serve(b, r, h) /\ Family /\ job.claim = r.exec
      BY <1>16, <2>1 DEF CompleteFamily, ClaimedBy
    <3>2. dec.exec = r.exec
      BY DEF Decide
    <3> HIDE DEF dec
    <3>3. h.pc = "decide" /\ h.dec = dec /\ h.copy = Open(r).copy
      BY <1>o DEF Handler
    <3> HIDE DEF h
    <3>4. HandlerAgrees(h)
      BY <1>o, <1>c, <3>1, <3>2, <3>3 DEF HandlerAgrees
    <3> QED  BY <1>0, <3>1, <3>4
  <2>2. CASE ~(issued = Challenge(r.exec) /\ r.report = "good")
    BY <1>0, <1>16, <1>o, <2>2, FailureAgrees DEF CompleteFamily
  <2> QED  BY <2>1, <2>2
<1>17. CASE FailReported(b, r)
  <2>1. FailureOutcome(r.report) \in Outcomes \ {"none"}
    BY DEF FailureOutcome
  <2>2. Serve(b, r, WriteTerminal(Open(r), Receipted(FailureOutcome(r.report), "worker_failure"), "ok"))
    BY <1>17 DEF FailReported
  <2> QED  BY <1>0, <1>o, <2>1, <2>2, FailureAgrees
<1> QED
  BY <1>1, <1>2, <1>3, <1>4, <1>5, <1>6, <1>7, <1>8, <1>9, <1>10, <1>11, <1>12, <1>13, <1>14,
     <1>15, <1>16, <1>17
  DEF Goal, ClaimNext, Authorize, Report

\* A status that agrees goes on agreeing, because a receipt is never replaced.
LEMMA AgreesPersists ==
    ASSUME NEW status, Agrees(status), Published => result' = result
    PROVE  Agrees(status)'
  BY DEF Agrees, Published, StatusOf

\* So does a handler that another process's step leaves alone.
LEMMA HandlerAgreesPersists ==
    ASSUME UNCHANGED kind, Published => result' = result,
           NEW c \in Backends, backend[c] \in Handler, HandlerAgrees(backend[c]),
           \/ backend'[c] = backend[c]
           \/ backend'[c] = [backend[c] EXCEPT !.from = NoExec]
           \/ backend'[c] = Idle
    PROVE  HandlerAgrees(backend[c])'
<1>1. CASE backend'[c] = Idle
  <2>1. backend'[c].copy = NoJob /\ backend'[c].pc = "idle"
    BY <1>1 DEF Idle
  <2> QED  BY <2>1 DEF HandlerAgrees, NoJob, Agrees
<1>2. CASE backend'[c] # Idle
  <2>1. /\ backend'[c].pc = backend[c].pc /\ backend'[c].copy = backend[c].copy
        /\ backend'[c].dec = backend[c].dec /\ backend'[c].exec = backend[c].exec
    BY <1>2 DEF Handler
  <2>2. Agrees(backend[c].copy.status)'
    <3> PICK status : status = backend[c].copy.status
      OBVIOUS
    <3>1. Agrees(status)'
      BY AgreesPersists DEF HandlerAgrees
    <3> QED  BY <2>1, <3>1 DEF Agrees
  <2> QED  BY <2>1, <2>2 DEF HandlerAgrees, Family
<1> QED  BY <1>1, <1>2

\* A handler that agrees before its write, and whose write is not result.json,
\* agrees afterwards; so do the others.
LEMMA ContinueAgrees ==
    ASSUME AgreeInv, NEW b \in Backends, NEW x, Continue(b, x), HandlerAgrees(x),
           UNCHANGED <<job, result>>
    PROVE  Agrees(job.status)' /\ \A c \in Backends : HandlerAgrees(backend[c])'
<1>t. backend \in [Backends -> Handler] /\ UNCHANGED kind
  BY DEF AgreeInv, CertifiedInv, Inv, TypeOK, Continue
<1>1. Agrees(job.status)'
  BY DEF AgreeInv, Agrees, Published
<1>2. ASSUME NEW c \in Backends PROVE HandlerAgrees(backend[c])'
  <2>1. CASE c = b
    <3>1. backend'[c] = x
      BY <1>t, <2>1 DEF Continue
    <3> QED  BY <1>t, <3>1 DEF HandlerAgrees, Agrees, Published, Family
  <2>2. CASE c # b
    <3>1. backend'[c] = backend[c] /\ backend[c] \in Handler /\ HandlerAgrees(backend[c])
      BY <1>t, <2>2 DEF Continue, AgreeInv
    <3> QED  BY <1>t, <3>1, HandlerAgreesPersists
  <2> QED  BY <2>1, <2>2
<1> QED  BY <1>1, <1>2

\* A backend's writes keep job.json and every copy of it in agreement.
LEMMA WriteAgrees ==
    ASSUME AgreeInv, NEW b \in Backends, WriteStep(b)
    PROVE  /\ OneExecutor'
           /\ Agrees(job.status)'
           /\ \A c \in Backends : HandlerAgrees(backend[c])'
<1> DEFINE h == backend[b]
           Copies == Agrees(job.status)' /\ \A c \in Backends : HandlerAgrees(backend[c])'
<1>t. TypeOK /\ FamilyInv /\ OneExecutor /\ backend \in [Backends -> Handler]
  BY DEF AgreeInv, CertifiedInv, Inv, TypeOK
<1>h. h \in Handler /\ h.copy \in Job /\ h.dec \in Decision /\ h.answer \in Answers
  BY <1>t DEF Handler
<1>a. HandlerAgrees(h)
  BY DEF AgreeInv
<1>f. Family => HandlerSound(h) /\ IssuedWellFormed /\ FamilyTruth
  BY <1>t DEF FamilyInv
<1>k. UNCHANGED kind
  BY DEF WriteStep, IssueChallenge, AuthorizeFinal, WriteFence, PublishDecision,
         ConsumeChallenge, PublishResult, SaveJob, Reply, Continue
<1>o. ASSUME UNCHANGED job,
             Family /\ issued' # NotIssued => issued'.exec = Target,
             Family /\ decision' # NoDecision => decision'.exec = Target
      PROVE  OneExecutor'
  BY <1>o, <1>k, <1>t DEF OneExecutor, Family
<1>q. UNCHANGED <<job, issued, decision>> => OneExecutor'
  BY <1>o, <1>t DEF OneExecutor
<1>x. ASSUME NEW x, Continue(b, x), HandlerAgrees(x), UNCHANGED <<job, result>> PROVE Copies
  BY <1>x, ContinueAgrees
<1> HIDE DEF Copies
<1> SUFFICES OneExecutor' /\ Copies
  BY DEF Copies
<1> USE DEF Answers, Outcomes, Codes
<1>1. CASE IssueChallenge(b)
  <2>1. OneExecutor'
    <3>1. Family /\ issued = NotIssued => issued'.exec = Target
      BY <1>1, <1>a DEF IssueChallenge, HandlerAgrees, Challenge
    <3>2. issued # NotIssued => issued' = issued
      BY <1>1 DEF IssueChallenge
    <3> QED  BY <1>1, <1>o, <1>t, <3>1, <3>2 DEF IssueChallenge, OneExecutor
  <2>2. CASE issued.type = "none"
    <3> DEFINE x == [h EXCEPT !.pc = "authorize"]
    <3>1. x.pc = "authorize" /\ x.copy = h.copy
      BY <1>h DEF Handler
    <3>2. Continue(b, x)
      BY <1>1, <2>2 DEF IssueChallenge
    <3> HIDE DEF x
    <3>3. HandlerAgrees(x)
      BY <1>1, <1>a, <3>1 DEF HandlerAgrees, IssueChallenge
    <3> QED  BY <1>1, <1>x, <2>1, <3>2, <3>3 DEF IssueChallenge
  <2>3. CASE issued.type = "challenge"
    <3>1. HandlerAgrees(WriteTerminal(h, Receipted("failed_unknown", "replay_denied"), "error"))
      BY <1>h, <1>a, FailureAgrees
    <3> QED  BY <1>1, <1>x, <2>1, <2>3, <3>1 DEF IssueChallenge
  <2>4. CASE issued.type = "fence"
    <3>1. HandlerAgrees(AdoptFence(h, "error"))
      BY <1>1, <1>h, <1>a, <1>f, <1>t, <2>4, AdoptAgrees DEF IssueChallenge, HandlerAgrees
    <3> QED  BY <1>1, <1>x, <2>1, <2>4, <3>1 DEF IssueChallenge
  <2> QED  BY <2>2, <2>3, <2>4, <1>t DEF TypeOK, Issued
<1>2. CASE AuthorizeFinal(b)
  <2>1. HandlerAgrees(Respond(h, "ok"))
    BY <1>h, <1>a, RespondAgrees
  <2>2. HandlerAgrees(WriteTerminal(h, Receipted("failed_known", "final_denied"), "error"))
    BY <1>h, <1>a, FailureAgrees
  <2> QED  BY <1>2, <1>x, <1>q, <2>1, <2>2 DEF AuthorizeFinal, files
<1>3. CASE WriteFence(b)
  <2>f. Family /\ h.dec.exec = Target /\ IssuedWellFormed
    BY <1>3, <1>a, <1>f DEF WriteFence, HandlerAgrees
  <2>1. OneExecutor'
    <3>1. issued = NotIssued => issued'.exec = Target
      BY <1>3, <2>f DEF WriteFence, Fence
    <3>2. issued # NotIssued => issued' = issued
      BY <1>3 DEF WriteFence
    <3> QED  BY <1>3, <1>o, <1>t, <3>1, <3>2 DEF WriteFence, OneExecutor
  <2>2. CASE issued.type = "none"
    <3> DEFINE x == [h EXCEPT !.pc = "decide"]
    <3>1. x.pc = "decide" /\ x.copy = h.copy /\ x.dec = h.dec
      BY <1>h DEF Handler
    <3>2. Continue(b, x)
      BY <1>3, <2>2 DEF WriteFence
    <3> HIDE DEF x
    <3>3. HandlerAgrees(x)
      BY <1>a, <2>f, <3>1 DEF HandlerAgrees
    <3> QED  BY <1>3, <1>x, <2>1, <3>2, <3>3 DEF WriteFence
  <2>3. CASE issued.type = "challenge"
    <3> DEFINE d == Decide(issued.exec, "challenge", Receipted("failed_unknown", h.dec.receipt.code))
               x == UnderChallenge(h)
    <3>1. d.exec = Target
      BY <1>t, <2>f, <2>3 DEF Decide, OneExecutor, NotIssued
    <3> HIDE DEF d
    <3>2. x = Respond(h, "error") \/ x = [h EXCEPT !.pc = "decide", !.dec = d]
      BY DEF UnderChallenge, d
    <3>3. x.copy = h.copy /\ (x.pc = "reply" \/ (x.pc = "decide" /\ x.dec = d))
      BY <1>h, <3>2 DEF Handler, Respond
    <3>4. Continue(b, x)
      BY <1>3, <2>3 DEF WriteFence
    <3> HIDE DEF x
    <3>5. HandlerAgrees(x)
      BY <1>a, <2>f, <3>1, <3>3 DEF HandlerAgrees
    <3> QED  BY <1>3, <1>x, <2>1, <3>4, <3>5 DEF WriteFence
  <2>4. CASE issued.type = "fence"
    <3>1. HandlerAgrees(AdoptFence(h, h.answer))
      BY <1>h, <1>a, <1>t, <2>f, <2>4, AdoptAgrees
    <3> QED  BY <1>3, <1>x, <2>1, <2>4, <3>1 DEF WriteFence
  <2> QED  BY <2>2, <2>3, <2>4, <1>t DEF TypeOK, Issued
<1>4. CASE PublishDecision(b)
  <2> DEFINE winner == IF decision = NoDecision THEN h.dec ELSE decision
             answer == IF h.answer = "settled" THEN "none" ELSE h.answer
  <2>a. answer \in Answers
    BY <1>h DEF Handler, Answers
  <2>f. Family /\ h.dec.exec = Target /\ IssuedWellFormed /\ HandlerSound(h) /\ FamilyTruth
    BY <1>4, <1>a, <1>f DEF PublishDecision, HandlerAgrees
  <2>1. winner \in Decision /\ winner.exec = Target
    BY <1>h, <1>t, <2>f DEF TypeOK, OneExecutor
  <2>2. Causal(winner)
    BY <1>4, <2>f DEF PublishDecision, HandlerSound, FamilyTruth, Decided
  <2>3. decision' = winner /\ Continue(b, Recover(h, winner, answer)) /\ UNCHANGED <<job, issued, result>>
    BY <1>4 DEF PublishDecision
  <2> HIDE DEF winner, answer
  <2>4. HandlerAgrees(Recover(h, winner, answer))
    BY <1>h, <1>a, <1>t, <2>a, <2>f, <2>1, <2>2, RecoverAgrees
  <2>5. OneExecutor'
    BY <1>o, <1>t, <2>1, <2>3 DEF OneExecutor
  <2> QED  BY <1>x, <2>3, <2>4, <2>5
<1>5. CASE ConsumeChallenge(b)
  <2> DEFINE x == [h EXCEPT !.pc = "publish"]
  <2>1. x.pc = "publish" /\ x.copy = h.copy /\ x.dec = h.dec
    BY <1>h DEF Handler
  <2>2. h.dec.receipt # NoReceipt
    BY <1>5, <1>a, <1>f DEF ConsumeChallenge, HandlerAgrees, HandlerSound, NoReceipt, Receipted
  <2>3. Continue(b, x) /\ UNCHANGED <<job, issued, decision, result>>
    BY <1>5 DEF ConsumeChallenge
  <2> HIDE DEF x
  <2>4. HandlerAgrees(x)
    BY <1>a, <2>1, <2>2 DEF HandlerAgrees
  <2> QED  BY <1>q, <1>x, <2>3, <2>4
<1>6. CASE PublishResult(b)
  <2>1. UNCHANGED <<job, issued, decision>>
    BY <1>6 DEF PublishResult
  <2>2. CASE Published
    <3>1. \A x \in Reconciled(h, result, h.answer) : HandlerAgrees(x)
      BY <1>h, <1>a, <2>2, ReconcileAgrees
    <3> QED  BY <1>6, <1>x, <1>q, <2>1, <2>2, <3>1 DEF PublishResult
  <2>3. CASE ~Published
    <3> DEFINE x == Save(h, StatusOf(h.dec.receipt), h.answer)
    <3>1. x.pc = "save" /\ x.copy.status = StatusOf(h.dec.receipt) /\ x.copy.claim = h.copy.claim
      BY <1>h DEF Save, Handler, Job
    <3>2. Continue(b, x) /\ result' = h.dec.receipt /\ h.dec.receipt # NoReceipt
      BY <1>6, <1>a, <2>3 DEF PublishResult, HandlerAgrees
    <3>3. \A c \in Backends : backend'[c] = IF c = b THEN x ELSE backend[c]
      BY <1>t, <3>2 DEF Continue
    <3> HIDE DEF x
    <3>4. Agrees(job.status)'
      BY <2>1, <2>3 DEF AgreeInv, Agrees
    <3>5. HandlerAgrees(backend[b])'
      BY <1>a, <1>k, <3>1, <3>2, <3>3 DEF HandlerAgrees, Agrees, Published, StatusOf, Family
    <3>6. ASSUME NEW c \in Backends, c # b PROVE HandlerAgrees(backend[c])'
      <4>1. backend'[c] = backend[c] /\ backend[c] \in Handler /\ HandlerAgrees(backend[c])
        BY <1>t, <3>3, <3>6 DEF AgreeInv
      <4> QED  BY <1>k, <2>3, <4>1, HandlerAgreesPersists
    <3> QED  BY <1>q, <2>1, <3>4, <3>5, <3>6 DEF Copies
  <2> QED  BY <2>2, <2>3
<1>7. CASE SaveJob(b) \/ Reply(b)
  <2>1. UNCHANGED <<issued, decision, result>> /\ backend' = [backend EXCEPT ![b] = Idle]
        /\ (job' = h.copy \/ job' = job)
    BY <1>7 DEF SaveJob, Reply, Finish, files
  <2>2. OneExecutor' /\ Agrees(job.status)'
    <3>1. CASE job' = job
      BY <1>q, <2>1, <3>1 DEF AgreeInv, Agrees, Published
    <3>2. CASE job' = h.copy
      <4>1. OneExecutor'
        BY <1>a, <1>k, <1>t, <2>1, <3>2 DEF OneExecutor, HandlerAgrees, Family
      <4>2. Agrees(job.status)'
        BY <1>a, <2>1, <3>2 DEF HandlerAgrees, Agrees, Published
      <4> QED  BY <4>1, <4>2
    <3> QED  BY <2>1, <3>1, <3>2
  <2>3. ASSUME NEW c \in Backends PROVE HandlerAgrees(backend[c])'
    <3>1. /\ backend[c] \in Handler /\ HandlerAgrees(backend[c])
          /\ backend'[c] = backend[c] \/ backend'[c] = Idle
      BY <1>t, <2>1 DEF AgreeInv
    <3> QED  BY <1>k, <2>1, <3>1, HandlerAgreesPersists
  <2> QED  BY <2>2, <2>3 DEF Copies
<1> QED  BY <1>1, <1>2, <1>3, <1>4, <1>5, <1>6, <1>7 DEF WriteStep

\* Every step keeps AgreeInv: no process but a backend writes a terminal status
\* into the job.json of a v2 job.
LEMMA AgreeStep == AgreeInv /\ [Next]_vars => AgreeInv'
<1> SUFFICES ASSUME AgreeInv, [Next]_vars PROVE AgreeInv'
  OBVIOUS
<1>f. CertifiedInv /\ TypeOK /\ FamilyInv /\ OneExecutor /\ backend \in [Backends -> Handler]
  BY DEF AgreeInv, CertifiedInv, Inv, TypeOK
<1>1. CertifiedInv' /\ (Published => result' = result)
  BY <1>f, CertifiedStep
<1>k. UNCHANGED kind
  <2>1. CASE Next
    BY <1>f, <2>1, KindStable
  <2>2. CASE UNCHANGED vars
    BY <2>2 DEF vars
  <2> QED  BY <2>1, <2>2
<1>2. ASSUME UNCHANGED <<issued, decision>>,
             job' = job \/ job' = [status |-> "pending", claim |-> NoExec],
             \A c \in Backends : \/ backend'[c] = backend[c]
                                 \/ backend'[c] = [backend[c] EXCEPT !.from = NoExec]
                                 \/ backend'[c] = Idle
      PROVE  AgreeInv'
  <2>1. Agrees(job.status)'
    <3>1. CASE job' = job
      <4> PICK status : status = job.status
        OBVIOUS
      <4>1. Agrees(status)'
        BY <1>1, AgreesPersists DEF AgreeInv
      <4> QED  BY <3>1, <4>1 DEF Agrees
    <3>2. CASE job' = [status |-> "pending", claim |-> NoExec]
      BY <3>2 DEF Agrees
    <3> QED  BY <1>2, <3>1, <3>2
  <2>2. OneExecutor'
    BY <1>2, <1>f, <1>k DEF OneExecutor, Family
  <2>3. ASSUME NEW c \in Backends PROVE HandlerAgrees(backend[c])'
    <3>1. backend[c] \in Handler /\ HandlerAgrees(backend[c])
      BY <1>f DEF AgreeInv
    <3> QED  BY <1>1, <1>2, <1>k, <3>1, HandlerAgreesPersists
  <2> QED  BY <1>1, <2>1, <2>2, <2>3 DEF AgreeInv
<1>3. CASE UNCHANGED vars
  BY <1>2, <1>3 DEF vars
<1>4. ASSUME NEW b \in Backends, HandleRequest(b) PROVE AgreeInv'
  <2> PICK r \in requests : ClaimNext(b, r) \/ Authorize(b, r) \/ Report(b, r)
    BY <1>4 DEF HandleRequest
  <2> PICK h : Serve(b, r, h) /\ HandlerAgrees(h)
    BY ServedAgrees
  <2>1. UNCHANGED <<job, issued, decision, result>>
        /\ \A c \in Backends : backend'[c] = IF c = b THEN h ELSE backend[c]
    BY <1>f DEF Serve, files
  <2>2. Agrees(job.status)' /\ OneExecutor'
    BY <1>f, <1>k, <2>1 DEF AgreeInv, Agrees, Published, OneExecutor, Family
  <2>3. ASSUME NEW c \in Backends PROVE HandlerAgrees(backend[c])'
    <3>1. HandlerAgrees(backend'[c])
      BY <2>1 DEF AgreeInv
    <3> QED  BY <1>k, <2>1, <3>1 DEF HandlerAgrees, Agrees, Published, Family
  <2> QED  BY <1>1, <2>2, <2>3 DEF AgreeInv
<1>5. ASSUME NEW b \in Backends, WriteStep(b) PROVE AgreeInv'
  BY <1>1, <1>5, WriteAgrees DEF AgreeInv
<1>6. ASSUME NEW b \in Backends, Restart(b) PROVE AgreeInv'
  <2>1. \A c \in Backends : backend'[c] = backend[c] \/ backend'[c] = Idle
    BY <1>6, <1>f DEF Restart
  <2> QED  BY <1>2, <1>6, <2>1 DEF Restart, files
<1>7. ASSUME NEW e \in Executors, WorkerStep(e) \/ GiveUp(e) \/ FinalOverruns(e) \/ Die(e)
      PROVE  AgreeInv'
  <2>1. UNCHANGED files /\ (backend' = backend \/ backend' = Detached(e))
    BY <1>7 DEF WorkerStep, PollClaim, FlushOutbox, RefuseLocally, SendPreflight, QueueLegacy,
                SendFinal, StartNative, NativeReturns, ReportRefusal, ReportBusy, NativeThrows,
                NativeOverruns, OrphanReturns, SaveAndPost, OutboxSaveFails, GiveUp, FinalOverruns, Die
  <2>2. \A c \in Backends : backend'[c] = backend[c] \/ backend'[c] = [backend[c] EXCEPT !.from = NoExec]
    BY <2>1 DEF Detached
  <2> QED  BY <1>2, <2>1, <2>2 DEF files
<1>8. ASSUME ProducerStep \/ ProducerCrash \/ Tick \/ LeaseEnds PROVE AgreeInv'
  <2>1. producer.pc \notin {"overdue", "wrote_job"}
    BY <1>f DEF CertifiedInv
  <2>2. UNCHANGED <<issued, decision, backend>> /\ (job' = job \/ job' = [status |-> "pending", claim |-> NoExec])
    BY <1>8, <2>1 DEF ProducerStep, ProducerCrash, Tick, LeaseEnds, Publish, PollResult,
         TimeoutReadJob, TimeoutReadResult, TimeoutWriteJob, TimeoutWriteResult, files
  <2> QED  BY <1>2, <2>2
<1>9. CASE Next
  BY <1>4, <1>5, <1>6, <1>7, <1>8, <1>9 DEF Next
<1> QED  BY <1>3, <1>9

\* job.json of a v2 job turns terminal only after result.json exists and with
\* its status (reconcileJobWithResult, saveJob), for any number of backends,
\* executors and restarts; a family job must name its executor, or a scan may
\* quarantine a job that was leased after its fence was written.
THEOREM JobAgreesWithResultHolds ==
    Spec /\ Certified /\ (Family => Target # NoExec) => []JobAgreesWithResult
<1>1. Init /\ Certified /\ (Family => Target # NoExec) => AgreeInv
  <2> SUFFICES ASSUME Init, Certified, Family => Target # NoExec PROVE AgreeInv
    OBVIOUS
  <2>1. CertifiedInv
    BY TypeInit, FamilyInit DEF CertifiedInv, Inv, Init
  <2>2. Idle.copy.status = "absent" /\ Idle.copy.claim = NoExec /\ Idle.pc = "idle"
    BY DEF Idle, NoJob
  <2>3. \A b \in Backends : HandlerAgrees(backend[b])
    BY <2>2 DEF Init, HandlerAgrees, Agrees
  <2>4. Agrees(job.status) /\ OneExecutor
    BY DEF Init, Agrees, OneExecutor, NoJob
  <2> QED  BY <2>1, <2>3, <2>4 DEF AgreeInv
<1>2. AgreeInv => JobAgreesWithResult
  BY DEF AgreeInv, Agrees, JobAgreesWithResult
<1> QED  BY <1>1, <1>2, AgreeStep, PTL DEF Spec
=============================================================================
