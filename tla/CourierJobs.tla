----------------------------- MODULE CourierJobs -----------------------------
(***************************************************************************)
(* One durable Revit courier job, from publication to terminal truth.      *)
(*                                                                         *)
(* Four kinds of process share the job's directory or talk about it:       *)
(*   - the MCP producer publishes job.json and waits for result.json;      *)
(*   - backend processes serve claim / authorize / complete / fail, one    *)
(*     synchronous handler at a time, each a sequence of file operations   *)
(*     that a crash can cut anywhere;                                      *)
(*   - Revit processes ("executors", identified by machine and pid) claim  *)
(*     the job, run the native handler and report, and may die;            *)
(*   - the network delays or loses a request, and a handler may still      *)
(*     serve it after its client gave up.                                  *)
(*                                                                         *)
(* Jobs live in directories of their own and no handler relates two of     *)
(* them, so the module follows a single job.  A step of a handler is one   *)
(* file write, with the reads that lead to it: every file but job.json and *)
(* a v1 result.json is written once, so a read that finds it is stable and *)
(* only a read that finds it absent can go stale before the next step.     *)
(***************************************************************************)
EXTENDS Naturals

CONSTANTS
    Backends,         \* backend processes that serve the job directory
    Executors,        \* Revit processes of one workstation user
    NoExec,           \* "no executor": an absent claim, target or client
    Kinds,            \* the kinds of job published
    Target,           \* target_executor_id of the job, or NoExec
    Policies,         \* admission verdicts a restarted backend may come up with
    SkewedClocks,     \* may the workstation's clock lag the backend's?
    Mortal,           \* Revit processes that may end while they work on the job
    ProducerMayCrash, \* may the MCP process end while its call is open?
    MaxRestarts       \* bound: backend restarts in one behaviour

V1Kinds == {"general", "lab", "legacy"}
AllKinds == V1Kinds \cup {"v2", "family"}
AllPolicies == {"ok", "profile_revoked", "route_withdrawn"}

ASSUME ConstantsAssumption ==
    /\ NoExec \notin Executors
    /\ Kinds \subseteq AllKinds
    /\ Target \in Executors \cup {NoExec}
    /\ Policies \subseteq AllPolicies
    /\ SkewedClocks \in BOOLEAN
    /\ Mortal \subseteq Executors
    /\ ProducerMayCrash \in BOOLEAN
    /\ MaxRestarts \in Nat

VARIABLES
    kind,      \* job version and admission: three kinds of v1 job, two of v2
    job,       \* job.json: status and claim
    issued,    \* completion-challenge-issued.v1.json: challenge or terminal fence
    decision,  \* completion-terminal-decision.v1.json
    consumed,  \* completion-challenge-consumed.v1.json exists
    result,    \* result.json
    phase,     \* the job's clock: "fresh", "closing" (last 2 s), "expired"
    leaseOver, \* the claim's lease_expires_at has passed
    policy,    \* what each running backend's profile and inventory admit
    restarts,  \* backend restarts so far
    backend,   \* local state of each backend's handler
    requests,  \* HTTP requests sent and not yet read by a backend
    worker,    \* where each executor is with this job
    outbox,    \* the workstation's durable completion record for this job
    runs,      \* invocations of the native handler
    producer   \* the MCP call that published the job

files == <<job, issued, decision, consumed, result>>
time == <<phase, leaseOver>>
station == <<worker, outbox, runs>>
vars == <<kind, job, issued, decision, consumed, result, phase, leaseOver, policy,
          restarts, backend, requests, worker, outbox, runs, producer>>

-----------------------------------------------------------------------------
(* Values *)

Executor == Executors \cup {NoExec}
Job == [status: {"absent", "pending", "running", "succeeded", "failed"}, claim: Executor]
NoJob == [status |-> "absent", claim |-> NoExec]

\* A receipt's status, outcome_unknown and retryable; unknown is never retryable.
Outcomes == {"none", "succeeded", "failed_known", "failed_retryable", "failed_unknown"}
Codes == {"none", "native_success", "expired_before_claim", "lease_expired",
          "worker_failure", "receipt_invalid", "replay_denied", "final_expired",
          "final_denied", "admission_invalid", "route_unsupported", "producer_timeout"}
Receipt == [outcome: Outcomes, code: Codes]
Receipted(outcome, code) == [outcome |-> outcome, code |-> code]
NoReceipt == Receipted("none", "none")

\* Mutant: the receipt's outcome is copied into job.status.
StatusOfMutant(receipt) == receipt.outcome
StatusOf(receipt) == IF receipt.outcome = "succeeded" THEN "succeeded" ELSE "failed"

\* A decision's completion_challenge_hash is null or the hash of the one
\* challenge that the job's issued file can hold.
Decision == [exec: Executor, hash: {"null", "challenge"}, receipt: Receipt]
Decide(exec, hash, receipt) == [exec |-> exec, hash |-> hash, receipt |-> receipt]
NoDecision == Decide(NoExec, "null", NoReceipt)

Issued == [type: {"none", "challenge", "fence"}, exec: Executor, decision: Decision]
NotIssued == [type |-> "none", exec |-> NoExec, decision |-> NoDecision]
Challenge(exec) == [type |-> "challenge", exec |-> exec, decision |-> NoDecision]
Fence(dec) == [type |-> "fence", exec |-> dec.exec, decision |-> dec]

\* A request names the executor it speaks for and the one that waits for the
\* answer (NoExec once that client gave up).  "report" is the worker's
\* evidence: the native receipt of a completion, the class of a failure.
Ops == {"claim", "preflight", "final", "complete", "fail"}
Reports == {"none", "good", "bad", "known", "retryable", "unknown"}
Request == [op: Ops, exec: Executors, from: Executor, report: Reports]
Ask(op, exec, from, report) == [op |-> op, exec |-> exec, from |-> from, report |-> report]

Steps == {"idle", "issue", "authorize", "fence", "decide", "consume", "publish", "save", "reply"}
\* "settled": no job, and this claim scan is terminating a family job itself.
Answers == {"none", "job", "ok", "conflict", "error", "settled"}
Handler == [pc: Steps, op: Ops \cup {"none"}, exec: Executor, from: Executor, copy: Job,
            dec: Decision, answer: Answers]
Idle == [pc |-> "idle", op |-> "none", exec |-> NoExec, from |-> NoExec, copy |-> NoJob,
         dec |-> NoDecision, answer |-> "none"]

WorkerSteps == {"idle", "claiming", "claimed", "preflight", "queued", "final", "granted",
                "running", "orphaned", "executed", "posting", "flushing", "refused",
                "reporting", "dead"}
Outbox == [state: {"none", "pending", "conflict"}, exec: Executor, report: Reports]
NoOutbox == [state |-> "none", exec |-> NoExec, report |-> "none"]
ProducerSteps == {"unpublished", "polling", "timed_out", "overdue", "wrote_job", "done"}

\* Every variable keeps the shape of the file, record or local it stands for.
TypeOK ==
    /\ kind \in AllKinds
    /\ job \in Job
    /\ issued \in Issued
    /\ decision \in Decision
    /\ consumed \in BOOLEAN
    /\ result \in Receipt
    /\ phase \in {"fresh", "closing", "expired"}
    /\ leaseOver \in BOOLEAN
    /\ policy \in [Backends -> AllPolicies]
    /\ restarts \in Nat
    /\ backend \in [Backends -> Handler]
    /\ requests \subseteq Request
    /\ worker \in [Executors -> WorkerSteps]
    /\ outbox \in Outbox
    /\ runs \in Nat
    /\ producer \in [pc: ProducerSteps, copy: Job]

Init ==
    /\ kind \in Kinds
    /\ job = NoJob
    /\ issued = NotIssued
    /\ decision = NoDecision
    /\ consumed = FALSE
    /\ result = NoReceipt
    /\ phase = "fresh"
    /\ leaseOver = FALSE
    /\ policy = [b \in Backends |-> "ok"]
    /\ restarts = 0
    /\ backend = [b \in Backends |-> Idle]
    /\ requests = {}
    /\ worker = [e \in Executors |-> "idle"]
    /\ outbox = NoOutbox
    /\ runs = 0
    /\ producer = [pc |-> "unpublished", copy |-> NoJob]

-----------------------------------------------------------------------------
(* What a handler knows *)

V1 == kind \in V1Kinds
Family == kind = "family"
Certified == kind \in {"v2", "family"}

\* familyDecisionExecutor
DecisionExecutor(copy) == IF copy.claim # NoExec THEN copy.claim ELSE Target

Fenced == Family /\ issued.type = "fence"
Decided == Family /\ decision # NoDecision
Published == result # NoReceipt

Expired == phase = "expired"
LeaseLapsed == leaseOver \/ Expired

\* validateCompletionDecisionCausality: a decision without a challenge hash is
\* the fence itself, one with a hash answers the issued challenge and, when it
\* fails, admits that the outcome is unknown.
Causal(dec) ==
    IF dec.hash = "null"
    THEN issued = Fence(dec) /\ dec.receipt.outcome # "succeeded"
    ELSE /\ issued = Challenge(dec.exec)
         /\ dec.exec # NoExec
         /\ dec.receipt.outcome \in {"succeeded", "failed_unknown"}

(* The handler's next local state *)

Open(r) == [pc |-> "reply", op |-> r.op, exec |-> r.exec, from |-> r.from, copy |-> job,
            dec |-> NoDecision, answer |-> "none"]

Respond(h, answer) == [h EXCEPT !.pc = "reply", !.answer = answer]

Save(h, status, answer) ==
    [h EXCEPT !.pc = "save", !.copy = [h.copy EXCEPT !.status = status], !.answer = answer]

\* A job may have failed without the receipt it has now, when a scan failed an
\* untargeted family job or the producer replaced a v1 receipt: finished_at and
\* error then differ.
FailuresMayDiffer == V1 \/ (Family /\ Target = NoExec)

\* reconcileJobWithResult: job.json is rewritten only when it disagrees.
Reconciled(h, receipt, answer) ==
    LET status == StatusOf(receipt)
        agrees == h.copy.status = status
    IN  {x \in {Respond(h, answer), Save(h, status, answer)} :
           IF x.pc = "reply" THEN agrees
                             ELSE ~agrees \/ (status = "failed" /\ FailuresMayDiffer)}

\* writeTerminal: a family failure must first win the issued file.
WriteTerminal(h, receipt, answer) ==
    [h EXCEPT !.pc = IF Family THEN "fence" ELSE "publish",
              !.dec = Decide(DecisionExecutor(h.copy), "null", receipt),
              !.answer = answer]

\* A claim scan quarantines a job whose files it cannot recover; every other
\* handler throws, and so does the scan once it writes a terminal of its own.
Invalid(h) ==
    IF h.op = "claim" /\ h.answer # "settled" THEN Save(h, "failed", "none")
                                             ELSE Respond(h, "error")

\* recoverFamilyCompletionDecision, once the decision file exists.
Recover(h, dec, answer) ==
    IF dec.exec = DecisionExecutor(h.copy) /\ Causal(dec)
    THEN [h EXCEPT !.pc = IF dec.receipt.outcome = "succeeded" THEN "consume" ELSE "publish",
                   !.dec = dec, !.answer = answer]
    ELSE Invalid(h)

\* recoverTerminalFence: adopt the fence's decision.
AdoptFence(h, answer) ==
    IF issued.exec = DecisionExecutor(h.copy)
    THEN [h EXCEPT !.pc = "decide", !.dec = issued.decision, !.answer = answer]
    ELSE Invalid(h)

\* What a handler may go on with when terminal truth already exists.
Recalled(h, answer) ==
    IF Decided THEN {Recover(h, decision, answer)} ELSE Reconciled(h, result, answer)

-----------------------------------------------------------------------------
(* Answers reach the client that still waits for them *)

Received(op, answer) ==
    CASE op = "claim" -> IF answer = "job" THEN "claimed" ELSE "idle"
      [] op = "preflight" -> IF answer = "ok" THEN "queued" ELSE "refused"
      [] op = "final" -> IF answer = "ok" THEN "granted" ELSE "refused"
      [] OTHER -> "idle"

\* Mutant: a terminal conflict is retried like any other error.
OutboxAfterMutant(e, answer) == IF answer = "ok" THEN NoOutbox ELSE outbox

\* Acknowledge deletes the record; only a flush moves a refused one to conflict.
OutboxAfter(e, answer) ==
    CASE answer = "ok" -> NoOutbox
      [] answer = "conflict" /\ worker[e] = "flushing" -> [outbox EXCEPT !.state = "conflict"]
      [] OTHER -> outbox

Finish(b) ==
    LET h == backend[b] IN
    /\ backend' = [backend EXCEPT ![b] = Idle]
    /\ worker' = IF h.from \in Executors /\ worker[h.from] # "orphaned"
                 THEN [worker EXCEPT ![h.from] = Received(h.op, h.answer)]
                 ELSE worker
    /\ outbox' = IF h.from \in Executors /\ h.op = "complete"
                 THEN OutboxAfter(h.from, h.answer)
                 ELSE outbox

Reply(b) ==
    /\ backend[b].pc = "reply"
    /\ Finish(b)
    /\ UNCHANGED <<kind, files, time, policy, restarts, requests, runs, producer>>

\* A backend reads a request and runs its handler up to the first write.
Serve(b, r, h) ==
    /\ r \in requests
    /\ backend[b].pc = "idle"
    /\ requests' = requests \ {r}
    /\ backend' = [backend EXCEPT ![b] = h]
    /\ UNCHANGED <<kind, files, time, policy, restarts, station, producer>>

-----------------------------------------------------------------------------
(* claimNextRevitToolJob *)

\* Mutant: the scan only looks at pending jobs.
CandidateMutant(e) == job.status = "pending" /\ Target \in {NoExec, e}

Candidate(e) == job.status \in {"pending", "running"} /\ Target \in {NoExec, e}
Settled == Fenced \/ Decided \/ Published

\* admitCourierJobClaim and validCertifiedJobForClaim: a withdrawn route only
\* terminates a pending job, a profile that lost v1 terminates a running one too.
Withdrawn(b) == policy[b] = "route_withdrawn"
Revoked(b) == V1 /\ policy[b] = "profile_revoked"
Admitted(b) == ~Withdrawn(b) /\ ~Revoked(b)

\* What the scan will answer; a family job's terminal write may still throw.
Ending == IF Family THEN "settled" ELSE "none"

ClaimRecovers(b, r) ==
    /\ r.op = "claim" /\ Candidate(r.exec)
    /\ Settled
    /\ \E h \in IF Fenced THEN {AdoptFence(Open(r), "none")} ELSE Recalled(Open(r), "none") :
         Serve(b, r, h)

ClaimRefuses(b, r) ==
    /\ r.op = "claim" /\ Candidate(r.exec)
    /\ ~Settled
    /\ \/ Withdrawn(b) /\ job.status = "pending"
       \/ Revoked(b)
    /\ Serve(b, r, WriteTerminal(Open(r), Receipted("failed_known",
           IF Withdrawn(b) THEN "route_unsupported" ELSE "admission_invalid"), Ending))

\* Mutant: a lapsed lease is handed to the next worker.
ClaimEndsLeaseMutant(b, r) ==
    /\ r.op = "claim" /\ Candidate(r.exec)
    /\ ~Settled /\ Admitted(b)
    /\ job.status = "running" /\ LeaseLapsed
    /\ Serve(b, r, [Open(r) EXCEPT !.pc = "save", !.answer = "job",
                                   !.copy = [status |-> "running", claim |-> r.exec]])

ClaimEndsLease(b, r) ==
    /\ r.op = "claim" /\ Candidate(r.exec)
    /\ ~Settled /\ Admitted(b)
    /\ job.status = "running" /\ LeaseLapsed
    /\ Serve(b, r, WriteTerminal(Open(r), Receipted("failed_unknown", "lease_expired"), Ending))

ClaimExpires(b, r) ==
    /\ r.op = "claim" /\ Candidate(r.exec)
    /\ ~Settled /\ Admitted(b)
    /\ job.status = "pending" /\ Expired
    /\ Serve(b, r, WriteTerminal(Open(r), Receipted("failed_retryable", "expired_before_claim"), Ending))

ClaimLeases(b, r) ==
    /\ r.op = "claim" /\ Candidate(r.exec)
    /\ ~Settled /\ Admitted(b)
    /\ job.status = "pending" /\ ~Expired
    /\ Serve(b, r, [Open(r) EXCEPT !.pc = "save", !.answer = "job",
                                   !.copy = [status |-> "running", claim |-> r.exec]])

ClaimFindsNothing(b, r) ==
    /\ r.op = "claim"
    /\ \/ ~Candidate(r.exec)
       \/ /\ job.status = "running" /\ ~Settled
          /\ Withdrawn(b) \/ (Admitted(b) /\ ~LeaseLapsed)
    /\ Serve(b, r, Open(r))

ClaimNext(b, r) ==
    \/ ClaimRecovers(b, r)
    \/ ClaimRefuses(b, r)
    \/ ClaimEndsLease(b, r)
    \/ ClaimExpires(b, r)
    \/ ClaimLeases(b, r)
    \/ ClaimFindsNothing(b, r)

-----------------------------------------------------------------------------
(* authorizeRevitToolJobExecution *)

Authorizable(b, r) ==
    /\ ~Decided /\ ~Published
    /\ ~Withdrawn(b)
    /\ job.status = "running" /\ job.claim = r.exec

AuthorizeFindsTruth(b, r) ==
    /\ r.op \in {"preflight", "final"}
    /\ Decided \/ Published
    /\ \E h \in Recalled(Open(r), "error") : Serve(b, r, h)

AuthorizeThrows(b, r) ==
    /\ r.op \in {"preflight", "final"}
    /\ ~Decided /\ ~Published /\ ~Authorizable(b, r)
    /\ Serve(b, r, Respond(Open(r), "error"))

AuthorizeTooLate(b, r) ==
    /\ r.op \in {"preflight", "final"}
    /\ Authorizable(b, r) /\ LeaseLapsed
    /\ Serve(b, r, WriteTerminal(Open(r), Receipted("failed_known", "final_expired"), "error"))

\* The trusted exposure policy is reloaded on every call and may deny any of
\* them; a family's final authorization issues its challenge before it asks.
AuthorizeByPolicy(b, r) ==
    /\ r.op \in {"preflight", "final"}
    /\ Authorizable(b, r) /\ ~LeaseLapsed
    /\ ~(Family /\ r.op = "final")
    /\ \/ Serve(b, r, Respond(Open(r), "ok"))
       \/ Serve(b, r, WriteTerminal(Open(r), Receipted("failed_known", "final_denied"), "error"))

AuthorizeFamilyFinal(b, r) ==
    /\ r.op = "final" /\ Family
    /\ Authorizable(b, r) /\ ~LeaseLapsed
    /\ Serve(b, r, [Open(r) EXCEPT !.pc = "issue"])

Authorize(b, r) ==
    \/ AuthorizeFindsTruth(b, r)
    \/ AuthorizeThrows(b, r)
    \/ AuthorizeTooLate(b, r)
    \/ AuthorizeByPolicy(b, r)
    \/ AuthorizeFamilyFinal(b, r)

-----------------------------------------------------------------------------
(* completeRevitToolJob and failRevitToolJob *)

\* requireClaimedJob
ClaimedBy(e) == job.claim = e
Reportable == ~Decided /\ ~Published

FinishThrows(b, r) ==
    /\ r.op \in {"complete", "fail"}
    /\ ~ClaimedBy(r.exec)
    /\ Serve(b, r, Respond(Open(r), "error"))

\* A terminal failure refuses a late completion; a terminal success refuses a
\* late failure, except that a family job absorbs it.
Verdict(r, receipt) ==
    CASE r.op = "complete" /\ StatusOf(receipt) = "failed" -> "conflict"
      [] r.op = "fail" /\ StatusOf(receipt) = "succeeded" /\ ~Family -> "error"
      [] OTHER -> "ok"

FinishFindsTruth(b, r) ==
    /\ r.op \in {"complete", "fail"}
    /\ ClaimedBy(r.exec) /\ ~Reportable
    /\ LET answer == Verdict(r, IF Decided THEN decision.receipt ELSE result)
       IN  \E h \in Recalled(Open(r), answer) : Serve(b, r, h)

\* job.json says failed and no receipt exists yet.
CompleteConflicts(b, r) ==
    /\ r.op = "complete"
    /\ ClaimedBy(r.exec) /\ Reportable /\ job.status = "failed"
    /\ Serve(b, r, Respond(Open(r), "conflict"))

CompleteNative(b, r) ==
    /\ r.op = "complete" /\ ~Family
    /\ ClaimedBy(r.exec) /\ Reportable /\ job.status = "running"
    /\ Serve(b, r, WriteTerminal(Open(r),
           IF kind = "lab" /\ r.report = "bad" THEN Receipted("failed_unknown", "receipt_invalid")
                                               ELSE Receipted("succeeded", "native_success"), "ok"))

\* A certified success answers the exact challenge that was issued to it.
CompleteFamily(b, r) ==
    /\ r.op = "complete" /\ Family
    /\ ClaimedBy(r.exec) /\ Reportable /\ job.status = "running"
    /\ Serve(b, r,
           IF issued = Challenge(r.exec) /\ r.report = "good"
           THEN [Open(r) EXCEPT !.pc = "decide", !.answer = "ok",
                     !.dec = Decide(r.exec, "challenge", Receipted("succeeded", "native_success"))]
           ELSE WriteTerminal(Open(r), Receipted("failed_unknown", "receipt_invalid"), "ok"))

\* Mutant: the worker's word is taken for a v1 job.
FailureOutcomeMutant(report) ==
    IF (Family /\ issued # NotIssued) \/ report = "unknown"
    THEN "failed_unknown"
    ELSE IF report = "retryable" THEN "failed_retryable" ELSE "failed_known"

\* Which failures cannot prove that nothing was dispatched.
FailureOutcome(report) ==
    IF kind \in {"general", "lab"} \/ (Family /\ issued # NotIssued) \/ report = "unknown"
    THEN "failed_unknown"
    ELSE IF report = "retryable" THEN "failed_retryable" ELSE "failed_known"

FailReported(b, r) ==
    /\ r.op = "fail"
    /\ ClaimedBy(r.exec) /\ Reportable /\ job.status \in {"running", "failed"}
    /\ Serve(b, r, WriteTerminal(Open(r), Receipted(FailureOutcome(r.report), "worker_failure"), "ok"))

Report(b, r) ==
    \/ FinishThrows(b, r)
    \/ FinishFindsTruth(b, r)
    \/ CompleteConflicts(b, r)
    \/ CompleteNative(b, r)
    \/ CompleteFamily(b, r)
    \/ FailReported(b, r)

-----------------------------------------------------------------------------
(* The writes, one file each *)

Continue(b, h) ==
    /\ backend' = [backend EXCEPT ![b] = h]
    /\ UNCHANGED <<kind, time, policy, restarts, requests, station, producer>>

\* issueCompletionChallenge: exclusive creation of the issued file.
IssueChallenge(b) ==
    LET h == backend[b] IN
    /\ h.pc = "issue"
    /\ issued' = IF issued = NotIssued THEN Challenge(h.exec) ELSE issued
    /\ Continue(b, CASE issued.type = "none" -> [h EXCEPT !.pc = "authorize"]
                     [] issued.type = "fence" -> AdoptFence(h, "error")
                     [] OTHER -> WriteTerminal(h, Receipted("failed_unknown", "replay_denied"), "error"))
    /\ UNCHANGED <<job, decision, consumed, result>>

AuthorizeFinal(b) ==
    LET h == backend[b] IN
    /\ h.pc = "authorize"
    /\ \/ Continue(b, Respond(h, "ok"))
       \/ Continue(b, WriteTerminal(h, Receipted("failed_known", "final_denied"), "error"))
    /\ UNCHANGED files

\* A failure of a job whose challenge is out says that its outcome is unknown.
UnderChallenge(h) ==
    IF issued = Challenge(DecisionExecutor(h.copy)) /\ issued.exec # NoExec
    THEN [h EXCEPT !.pc = "decide",
             !.dec = Decide(issued.exec, "challenge", Receipted("failed_unknown", h.dec.receipt.code))]
    ELSE Respond(h, "error")

\* Mutant: the fence is written with an ordinary rename.
WriteFenceMutant(b) ==
    LET h == backend[b] IN
    /\ h.pc = "fence"
    /\ issued' = Fence(h.dec)
    /\ Continue(b, [h EXCEPT !.pc = "decide"])
    /\ UNCHANGED <<job, decision, consumed, result>>

\* The failure half of writeTerminal: exclusive creation of the same file.
WriteFence(b) ==
    LET h == backend[b] IN
    /\ h.pc = "fence"
    /\ issued' = IF issued = NotIssued THEN Fence(h.dec) ELSE issued
    /\ Continue(b, CASE issued.type = "none" -> [h EXCEPT !.pc = "decide"]
                     [] issued.type = "fence" -> AdoptFence(h, h.answer)
                     [] OTHER -> UnderChallenge(h))
    /\ UNCHANGED <<job, decision, consumed, result>>

\* Mutant: the decision is written with an ordinary rename.
PublishDecisionMutant(b) ==
    LET h == backend[b] IN
    /\ h.pc = "decide"
    /\ decision' = h.dec
    /\ Continue(b, Recover(h, h.dec, h.answer))
    /\ UNCHANGED <<job, issued, consumed, result>>

\* publishCompletionDecision, then the validation every recovery starts with.
PublishDecision(b) ==
    LET h == backend[b]
        winner == IF decision = NoDecision THEN h.dec ELSE decision
        answer == IF h.answer = "settled" THEN "none" ELSE h.answer
    IN
    /\ h.pc = "decide"
    /\ decision' = winner
    /\ Continue(b, Recover(h, winner, answer))
    /\ UNCHANGED <<job, issued, consumed, result>>

ConsumeChallenge(b) ==
    LET h == backend[b] IN
    /\ h.pc = "consume"
    /\ consumed' = TRUE
    /\ Continue(b, [h EXCEPT !.pc = "publish"])
    /\ UNCHANGED <<job, issued, decision, result>>

\* Mutants: the result is replaced; the loser keeps its own verdict.
PublishResultOverwrites(b) ==
    LET h == backend[b] IN
    /\ h.pc = "publish"
    /\ result' = h.dec.receipt
    /\ Continue(b, Save(h, StatusOf(h.dec.receipt), h.answer))
    /\ UNCHANGED <<job, issued, decision, consumed>>
PublishResultKeepsVerdict(b) ==
    LET h == backend[b] IN
    /\ h.pc = "publish"
    /\ result' = IF Published THEN result ELSE h.dec.receipt
    /\ Continue(b, Save(h, StatusOf(h.dec.receipt), h.answer))
    /\ UNCHANGED <<job, issued, decision, consumed>>

\* publishDurableTerminal: the first result.json stays; a loser adopts it.
PublishResult(b) ==
    LET h == backend[b] IN
    /\ h.pc = "publish"
    /\ result' = IF Published THEN result ELSE h.dec.receipt
    /\ IF Published THEN \E x \in Reconciled(h, result, h.answer) : Continue(b, x)
                    ELSE Continue(b, Save(h, StatusOf(h.dec.receipt), h.answer))
    /\ UNCHANGED <<job, issued, decision, consumed>>

\* saveJob replaces job.json by the copy this handler has carried since it
\* read the file; a claim starts a lease.
SaveJob(b) ==
    LET h == backend[b] IN
    /\ h.pc = "save"
    /\ job' = h.copy
    /\ leaseOver' = IF h.answer = "job" THEN FALSE ELSE leaseOver
    /\ Finish(b)
    /\ UNCHANGED <<kind, issued, decision, consumed, result, phase, policy, restarts,
                   requests, runs, producer>>

WriteStep(b) ==
    \/ IssueChallenge(b)
    \/ AuthorizeFinal(b)
    \/ WriteFence(b)
    \/ PublishDecision(b)
    \/ ConsumeChallenge(b)
    \/ PublishResult(b)
    \/ SaveJob(b)
    \/ Reply(b)

\* The process dies between two writes and a new one starts, perhaps with
\* another profile or tool inventory.
Restart(b) ==
    /\ restarts < MaxRestarts
    /\ restarts' = restarts + 1
    /\ \E p \in Policies : policy' = [policy EXCEPT ![b] = p]
    /\ backend' = [backend EXCEPT ![b] = Idle]
    /\ UNCHANGED <<kind, files, time, requests, station, producer>>

-----------------------------------------------------------------------------
(* The workstation: OperatorRevitCourierWorker and its outbox *)

Move(e, step) == worker' = [worker EXCEPT ![e] = step]

Send(e, step, op, exec, report) ==
    /\ Move(e, step)
    /\ requests' = requests \cup {Ask(op, exec, e, report)}

\* Mutant: the worker does not look at expires_at.
FreshMutant == TRUE

\* The worker's own clock: two seconds of margin before expires_at.
Fresh == phase = "fresh" \/ SkewedClocks

\* A completed action is acknowledged before the worker accepts more work.
PollClaim(e) ==
    /\ worker[e] = "idle" /\ outbox.state # "pending"
    /\ Send(e, "claiming", "claim", e, "none")
    /\ UNCHANGED <<kind, files, time, policy, restarts, backend, outbox, runs, producer>>

FlushOutbox(e) ==
    /\ worker[e] = "idle" /\ outbox.state = "pending"
    /\ Send(e, "flushing", "complete", outbox.exec, outbox.report)
    /\ UNCHANGED <<kind, files, time, policy, restarts, backend, outbox, runs, producer>>

\* Verification of the claimed job, approval, write grant, target document or
\* time left refuse the job before Revit sees it.
RefuseLocally(e) ==
    /\ worker[e] \in {"claimed", "queued", "granted"}
    /\ Move(e, "refused")
    /\ UNCHANGED <<kind, files, time, policy, restarts, backend, requests, outbox, runs, producer>>

\* A v2 job needs a preflight receipt for every attempt to queue it, a busy
\* ExternalEvent included, and must name this executor as its target.
SendPreflight(e) ==
    /\ worker[e] \in {"claimed", "queued"} /\ Certified
    /\ Target = e /\ Fresh
    /\ Send(e, "preflight", "preflight", e, "none")
    /\ UNCHANGED <<kind, files, time, policy, restarts, backend, outbox, runs, producer>>

QueueLegacy(e) ==
    /\ worker[e] = "claimed" /\ V1 /\ Fresh
    /\ Move(e, "queued")
    /\ UNCHANGED <<kind, files, time, policy, restarts, backend, requests, outbox, runs, producer>>

\* The Revit thread reaches the queued action and asks once more.
SendFinal(e) ==
    /\ worker[e] = "queued" /\ Certified /\ Fresh
    /\ Send(e, "final", "final", e, "none")
    /\ UNCHANGED <<kind, files, time, policy, restarts, backend, outbox, runs, producer>>

StartNative(e) ==
    /\ \/ worker[e] = "queued" /\ V1 /\ Fresh
       \/ worker[e] = "granted"
    /\ Move(e, "running")
    /\ runs' = runs + 1
    /\ UNCHANGED <<kind, files, time, policy, restarts, backend, requests, outbox, producer>>

NativeReturns(e) ==
    /\ worker[e] = "running"
    /\ Move(e, "executed")
    /\ UNCHANGED <<kind, files, time, policy, restarts, backend, requests, outbox, runs, producer>>

ReportRefusal(e) ==
    /\ worker[e] = "refused"
    /\ Send(e, "reporting", "fail", e, "known")
    /\ UNCHANGED <<kind, files, time, policy, restarts, backend, outbox, runs, producer>>

\* Busy after the last retry, or cancelled while still queued.
ReportBusy(e) ==
    /\ worker[e] = "queued"
    /\ Send(e, "reporting", "fail", e, "retryable")
    /\ UNCHANGED <<kind, files, time, policy, restarts, backend, outbox, runs, producer>>

\* A mutation that throws is reported unknown; what fails after the handler
\* returned (a recovered dialog, an attachment) is classified as known.
NativeThrows(e) ==
    /\ worker[e] = "running"
    /\ \E report \in {"unknown", "known"} : Send(e, "reporting", "fail", e, report)
    /\ UNCHANGED <<kind, files, time, policy, restarts, backend, outbox, runs, producer>>

\* The action's deadline passes while Revit still executes it.
NativeOverruns(e) ==
    /\ worker[e] = "running"
    /\ Send(e, "orphaned", "fail", e, "unknown")
    /\ UNCHANGED <<kind, files, time, policy, restarts, backend, outbox, runs, producer>>

OrphanReturns(e) ==
    /\ worker[e] = "orphaned"
    /\ Move(e, "idle")
    /\ UNCHANGED <<kind, files, time, policy, restarts, backend, requests, outbox, runs, producer>>

\* Save the completion durably, then post it.  Only family and laboratory
\* receipts are verified by the backend.
SaveAndPost(e) ==
    /\ worker[e] = "executed"
    /\ \E report \in IF kind \in {"family", "lab"} THEN {"good", "bad"} ELSE {"good"} :
          /\ outbox' = [state |-> "pending", exec |-> e, report |-> report]
          /\ Send(e, "posting", "complete", e, report)
    /\ UNCHANGED <<kind, files, time, policy, restarts, backend, runs, producer>>

OutboxSaveFails(e) ==
    /\ worker[e] = "executed"
    /\ Move(e, "idle")
    /\ UNCHANGED <<kind, files, time, policy, restarts, backend, requests, outbox, runs, producer>>

\* Nobody waits for the answers to e's requests any more.
Unheard(e) == {IF r.from = e THEN [r EXCEPT !.from = NoExec] ELSE r : r \in requests}
Detached(e) == [b \in Backends |-> IF backend[b].from = e
                                   THEN [backend[b] EXCEPT !.from = NoExec]
                                   ELSE backend[b]]

\* A timeout or a broken connection.  The request may still be served.
GiveUp(e) ==
    /\ worker[e] \in {"claiming", "preflight", "final", "posting", "flushing", "reporting"}
    /\ Move(e, IF worker[e] \in {"preflight", "final"} THEN "refused" ELSE "idle")
    /\ requests' = Unheard(e)
    /\ backend' = Detached(e)
    /\ UNCHANGED <<kind, files, time, policy, restarts, outbox, runs, producer>>

\* The deadline passes while the Revit thread waits for its final
\* authorization: the worker cannot tell whether the handler started.
FinalOverruns(e) ==
    /\ worker[e] = "final"
    /\ Move(e, "reporting")
    /\ requests' = Unheard(e) \cup {Ask("fail", e, e, "unknown")}
    /\ backend' = Detached(e)
    /\ UNCHANGED <<kind, files, time, policy, restarts, outbox, runs, producer>>

Die(e) ==
    /\ e \in Mortal
    /\ worker[e] # "dead"
    /\ Move(e, "dead")
    /\ requests' = Unheard(e)
    /\ backend' = Detached(e)
    /\ UNCHANGED <<kind, files, time, policy, restarts, outbox, runs, producer>>

WorkerStep(e) ==
    \/ PollClaim(e) \/ FlushOutbox(e) \/ RefuseLocally(e) \/ SendPreflight(e)
    \/ QueueLegacy(e) \/ SendFinal(e) \/ StartNative(e) \/ NativeReturns(e)
    \/ ReportRefusal(e) \/ ReportBusy(e) \/ NativeThrows(e) \/ NativeOverruns(e)
    \/ OrphanReturns(e) \/ SaveAndPost(e) \/ OutboxSaveFails(e)

-----------------------------------------------------------------------------
(* The producer: callRevitViaCourier *)

Publish ==
    /\ producer.pc = "unpublished"
    /\ job' = [status |-> "pending", claim |-> NoExec]
    /\ producer' = [producer EXCEPT !.pc = "polling"]
    /\ UNCHANGED <<kind, issued, decision, consumed, result, time, policy, restarts,
                   backend, requests, station>>

PollResult ==
    /\ producer.pc = "polling" /\ Published
    /\ producer' = [producer EXCEPT !.pc = "done"]
    /\ UNCHANGED <<kind, files, time, policy, restarts, backend, requests, station>>

\* finalizeTimeout reads job.json, then result.json; for a v1 job it then
\* replaces both, the receipt being derived from the copy it read.
TimeoutReadJob ==
    /\ producer.pc = "polling" /\ Expired
    /\ producer' = [pc |-> "timed_out", copy |-> job]
    /\ UNCHANGED <<kind, files, time, policy, restarts, backend, requests, station>>

TimeoutReadResult ==
    /\ producer.pc = "timed_out"
    /\ producer' = [producer EXCEPT !.pc =
           IF ~Published /\ V1 /\ producer.copy.status \in {"pending", "running"}
           THEN "overdue" ELSE "done"]
    /\ UNCHANGED <<kind, files, time, policy, restarts, backend, requests, station>>

TimeoutWriteJob ==
    /\ producer.pc = "overdue"
    /\ job' = [producer.copy EXCEPT !.status = "failed"]
    /\ producer' = [producer EXCEPT !.pc = "wrote_job"]
    /\ UNCHANGED <<kind, issued, decision, consumed, result, time, policy, restarts,
                   backend, requests, station>>

TimeoutWriteResult ==
    /\ producer.pc = "wrote_job"
    /\ result' = Receipted(IF producer.copy.status = "running" THEN "failed_unknown"
                                                               ELSE "failed_retryable",
                           "producer_timeout")
    /\ producer' = [producer EXCEPT !.pc = "done"]
    /\ UNCHANGED <<kind, job, issued, decision, consumed, time, policy, restarts,
                   backend, requests, station>>

ProducerCrash ==
    /\ ProducerMayCrash
    /\ producer.pc \notin {"unpublished", "done"}
    /\ producer' = [producer EXCEPT !.pc = "done"]
    /\ UNCHANGED <<kind, files, time, policy, restarts, backend, requests, station>>

ProducerStep ==
    \/ Publish \/ PollResult \/ TimeoutReadJob
    \/ TimeoutReadResult \/ TimeoutWriteJob \/ TimeoutWriteResult

-----------------------------------------------------------------------------
(* Time, and the whole system *)

Tick ==
    /\ job.status # "absent"
    /\ phase # "expired"
    /\ phase' = IF phase = "fresh" THEN "closing" ELSE "expired"
    /\ UNCHANGED <<kind, files, leaseOver, policy, restarts, backend, requests, station, producer>>

LeaseEnds ==
    /\ job.status = "running" /\ ~leaseOver
    /\ leaseOver' = TRUE
    /\ UNCHANGED <<kind, files, phase, policy, restarts, backend, requests, station, producer>>

HandleRequest(b) == \E r \in requests : ClaimNext(b, r) \/ Authorize(b, r) \/ Report(b, r)

Next ==
    \/ \E b \in Backends : HandleRequest(b) \/ WriteStep(b) \/ Restart(b)
    \/ \E e \in Executors : WorkerStep(e) \/ GiveUp(e) \/ FinalOverruns(e) \/ Die(e)
    \/ ProducerStep \/ ProducerCrash
    \/ Tick \/ LeaseEnds

Spec == Init /\ [][Next]_vars

\* Timers fire, processes keep running, and no client's request is passed over
\* for ever by the event loop.
Fairness ==
    /\ \A b \in Backends : WF_vars(WriteStep(b))
    /\ \A e \in Executors :
          /\ SF_vars(\E b \in Backends : \E r \in requests :
                        r.from = e /\ (ClaimNext(b, r) \/ Authorize(b, r) \/ Report(b, r)))
          /\ WF_vars(WorkerStep(e))
          /\ WF_vars(GiveUp(e))
    /\ WF_vars(ProducerStep)
    /\ WF_vars(Tick)

\* From some point on the network delivers within the clients' timeouts: they
\* only give up on a request that a restart wiped out.
Outstanding(e) == (\E r \in requests : r.from = e) \/ (\E b \in Backends : backend[b].from = e)
NetworkHeals == <>[][\A e \in Executors : GiveUp(e) => ~Outstanding(e)]_vars

FairSpec == Spec /\ Fairness /\ NetworkHeals

-----------------------------------------------------------------------------
(* Properties *)

\* A certified family job has one terminal truth: result.json only repeats the
\* decision file, the decision is the fence or answers the issued challenge,
\* and only a success consumes the challenge (validateCompletionDecisionCausality,
\* recoverFamilyCompletionDecision), however many backends race.
FamilyTruth ==
    Family =>
        /\ Published => Decided /\ result = decision.receipt
        /\ Decided => Causal(decision)
        /\ consumed => decision.receipt.outcome = "succeeded"

\* A receipt that claims nothing was dispatched (known or retryable failure) is
\* never written for a job whose native handler runs, before or afterwards: the
\* fence excludes dispatch for a family, and failRevitToolJob takes no worker's
\* word for a general or laboratory v1 job.
KnownFailureNeverRan ==
    kind \in {"general", "lab", "family"}
        /\ result.outcome \in {"failed_known", "failed_retryable"} => runs = 0

\* One job invokes the native handler at most once, through lost answers, late
\* requests, dead executors and lapsed leases (claimNextRevitToolJob never
\* leases a running job again).
AtMostOnce == runs <= 1

\* A producer that timed out on a pending job tells its caller to retry
\* (finalizeTimeout: retryable = pending); that call is never executed, even
\* when a claim that was already under way is saved after the producer looked.
RetryAdviceSafe == producer.copy.status = "pending" => runs = 0

\* job.json of a v2 job turns terminal only after result.json exists and with
\* the status result.json has, whichever handler lost the race to publish.
JobAgreesWithResult ==
    Certified /\ job.status \in {"succeeded", "failed"} =>
        Published /\ job.status = StatusOf(result)

\* Terminal truth is first-writer-wins: a published receipt is never replaced
\* (publishDurableTerminal).
FirstWriterWins == [][Published => result' = result]_vars

\* A family job behaves as DispatchAuthority says: the issued file is the
\* authority, the decision file the truth, result.json what is shown.  Other
\* kinds of job have no issued file; what they show and run is not looked at.
Authority == INSTANCE DispatchAuthority WITH
    authority <- CASE issued.type = "none" -> "open"
                   [] issued.type = "challenge" -> "dispatched"
                   [] OTHER -> "fenced",
    reserved <- issued.decision.receipt.outcome,
    truth <- decision.receipt.outcome,
    shown <- IF Family THEN result.outcome ELSE "none",
    starts <- IF Family THEN runs ELSE 0
ImplementsAuthority == Authority!Spec

\* Every published job gets a terminal receipt.
TerminalEventually == (job.status # "absent") ~> Published

\* A completion kept in the workstation's outbox is acknowledged or resolved,
\* so it never starves the jobs behind it.
OutboxDrains == (outbox.state = "pending") ~> (outbox.state # "pending")
=============================================================================
