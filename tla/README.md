# Verification of revit-operator

TLA+ models of the parts of this repository where a mistake costs the most: the path on
which an agent's tool call becomes, once and only once, an action inside Revit, and on
which the answer comes back; the two journals of an Assignment, which decide from such
answers whether work may be retried, resumed or called complete; the batch service that
repeats a task over many items; and the activation of a release on a workstation. The
models are checked with TLC on small instances and, where a result should hold for every
number of processes, proved with TLAPS.

## 1. The system

revit-operator lets a language-model agent operate Autodesk Revit. Five programs matter:

* **operator-backend** (TypeScript): sessions, assignments, provider turns, and the courier
  directory through which work reaches a workstation.
* **mcp-server** (TypeScript): the tools the agent sees. A call either goes straight to the
  add-in over HTTP or, the route modelled here, is published as a *courier job*.
* **revit-bridge-addin** (C#): a Revit add-in. Its courier worker polls the backend, runs
  native actions on Revit's API thread and reports.
* **operator-deploy** (C#): installs, switches, repairs and rolls back releases of the add-in.
* **dynamic-revit-runtime** and the UI packages around them.

### 1.1 Components, their state and operations

| Component | State | Operations | Hard behaviour |
|---|---|---|---|
| Courier job protocol, `courier/revit_tool_jobs.ts` | one directory per job: `job.json`, `result.json`, and for certified families an issued file (challenge or fence), a decision and a consumption marker | claim, preflight and final authorization, complete, fail | several writes per handler, a crash between any two; two backends on one directory; late and duplicate requests |
| Courier producer, `mcp-server/src/lib/revitCourier.ts` | its copy of the job | publish, poll, time out | writes the same files as the backend, without exclusion |
| Courier worker, `OperatorRevitCourierWorker.cs` | current job, durable completion outbox | claim, refuse, preflight, queue, run, report, flush | lost answers, deadlines while Revit is busy, process death |
| Action runner and event service, `OperatorActionRunner.cs`, `RevitEventService.cs` | a queue, a single-flight flag, an execution state per item | Run, raise loop, cancellation, Execute, Idling | lock-free races between three threads |
| Certification, `revit_tool_job_certification.ts` | none (reloads the exposure policy) | final authorization | the policy changes between two calls |
| Active-job index, `courier/active_job_index.ts` | in-memory set of job ids and a root version | refresh, mark known | an unreadable job is forgotten after 5 s |
| Revit host circuit, `OperatorRevitHostCircuit.cs` | closed, open, half open | probe, success, failure | probe races with work |
| Assignment kernel V2, `domain/assignment-kernel/` | event-sourced assignment: operations, effects, observations, criteria, inputs, provider calls, controls | admission, dispatch, settlement, evaluation, pause and resume, outcome | unknown effects, retries, answers that outdate results, parents and children |
| Assignment store and execution, `assignments/` | append-only journal with a quarantine | append under a file lock, recovery after a restart | lost answers, stale reads before a call, refused identities |
| Control plane V1 and settlement barrier, `assignments/control_plane.ts`, `settlement_barrier.ts`, `async_tool_settlement.ts`, `turn_*.ts` | event-sourced Assignment: runs, attempts with dispatch, lease and effect | start a run, open, dispatch and settle an attempt, verify, reconcile, wait for quiescence, cancel, end | messages that supersede a run in flight, late answers, deadlines, failing turns |
| Provider turn queue, `provider_turn_queue.ts` | one promise chain per session | serialize turns | runs are prepared before their turn may start |
| Batch service, `revit_batch/service.ts` | `job.json` with items, claims, receipts, controls | create, approve, pause, resume, cancel, retry, claim, complete, fail, expire | leases that end while an item runs, late and repeated settlements, several writes per handler |
| Batch worker, `OperatorPaneControl.cs` | current item, completion outbox | flush, claim, run, report | Revit or its document goes away, reports are lost |
| operator-deploy, `DeploymentEngine.cs` | release trees, add-in manifests and launchers, `state.json`, an activation journal | install, switch, roll back, recover | crash between any two file operations, also in recovery; third-party edits |
| Persistence manager | JSON stores | atomic replace, recovery | torn writes |
| Native HTTP transport | replay cache | accept, reject | duplicate delivery |

`PROJECT.json` lists all components with their status; the hazards found while reading are
listed there with the line at which they bite and the properties that cover them.

### 1.2 How they interact

The producer writes `job.json`. A worker's *claim* request makes a backend scan the
directory and lease the job to that worker's executor id (machine and process id). Before
a v2 job is queued on Revit's thread the worker asks for a *preflight* authorization, and
once the Revit thread has reached it, for the *final* one. A certified family's final
authorization first creates the issued file with a challenge; the native handler then
produces a receipt bound to it. The worker saves the completion in its outbox and posts
*complete*; a failure is posted as *fail*. Any handler that must end the job
(lapsed lease, expiry, denial, worker failure) writes a terminal receipt, and for a
family it must first create the *same* issued file as a fence, so that authority and
termination exclude each other through one exclusive file creation. The producer polls
for `result.json`.

An Assignment runs under one of two journals. The V2 kernel is an event-sourced reducer with
operations, observations and criteria. The V1 control plane keeps attempts: a message starts a
*run* (a generation), the provider's tool calls open attempts under the run that is current,
the answers settle them, and a turn that ends early waits at the settlement barrier until
nothing is in flight. Both use the courier or a direct call to reach Revit.

A batch job is claimed item by item by the pane of the add-in, under a lease and a fencing
token that only counts up; a success is saved in an outbox before it is posted. A deployment
command first recovers the journal its predecessor left, then moves trees, swaps the controls
one by one and commits `state.json` last.

### 1.3 What makes it correct

* the native handler of one job is invoked at most once;
* a receipt that says "nothing was dispatched" is true;
* a job has one terminal truth, all files agree with it, and it does not change;
* advice to retry is safe;
* every job gets a receipt, and a completed action's record is not replayed for ever;
* on the workstation, a call told that its action never reached Revit is right, every call
  completes and the single-flight slot is given back;
* the Assignment journal never contradicts what Revit did, a write and its retry never both
  reach the model, a success is not overtaken by a late commit, evidence that predates an
  answer proves nothing, and paused work drains and resumes only at a safe boundary;
* the V1 control plane settles as "no effect" only what changes nothing later, calls applied
  and verified only what is in the model, lets one turn change it once, and a turn gets past
  the barrier whatever it left in flight;
* a batch item changes the model at most once, its record is right about Revit, a pause or a
  cancellation stands, and a saved completion is not dropped;
* controls, release tree and `state.json` switch together or not at all, a foreign edit
  survives, and an open activation journal is resolved.

## 2. Modules

| Module | What it is |
|---|---|
| `CourierJobs` | one courier job with its producer, backends, workers, outbox, clock and network |
| `DispatchAuthority` | the abstract promise of a certified family job |
| `MCCourierJobs` | instances for TLC |
| `CourierJobsProofs` | type correctness, terminal truth, first-writer-wins, and agreement of job and receipt, proved |
| `CourierAuthorityProofs` | a family job implements `DispatchAuthority`; one run, safe retry advice and true receipts for the other kinds as well, proved |
| `AssignmentKernel` | one Assignment: the V2 reducer and the edges that emit its events |
| `MCAssignmentKernel` | instances for TLC |
| `AssignmentKernelProofs` | the journal and Revit agree: effects, retries, success, resume, proved |
| `AssignmentEvidenceProofs` | type correctness, currency of evidence and standing first results, proved |
| `RevitEventQueue` | `RevitEventService`: Run, cancellation and Execute on shared state |
| `MCRevitEventQueue` | instances for TLC |
| `RevitEventQueueProofs` | type correctness, and "not dispatched" means never run, proved |
| `ControlPlane` | one Assignment of the V1 control plane: reducer, tool-call handler, barrier, turns |
| `MCControlPlane` | instances for TLC |
| `ControlPlaneProofs` | type correctness, truth of the recorded effects, one change per turn, proved |
| `BatchJobs` | one batch job with its worker, outbox, late requests and user |
| `MCBatchJobs` | instances for TLC |
| `BatchJobsProofs` | type correctness, one change per item, truth of the record, quiet finished jobs, standing controls, kept completions, proved |
| `DeployActivation` | the journaled activation of a release and its recovery |
| `ReleaseSwitch` | the abstract promise of a deployment command |
| `MCDeployActivation` | instances for TLC |
| `DeployActivationProofs` | type correctness, foreign edits, recovery, coherence, commits, rejected admissions, and the refinement of `ReleaseSwitch`, proved |

### 2.1 CourierJobs

*State.* `job`, `issued`, `decision`, `consumed` and `result` are the job's files.
`backend[b]` is the local state of the one synchronous handler a backend process runs: the
file it writes next (`pc`), the copy of `job.json` it read first, the decision it carries
and the answer it will give. `requests` are HTTP requests that no backend has read.
`worker[e]`, `outbox` and `runs` are the workstation; `runs` counts invocations of the
native handler and is the ghost variable the safety properties speak of. `phase` is the
time left until `expires_at`: "fresh", "closing" (the last two seconds, in which the worker
no longer starts anything) and "expired".

*Atomicity.* A handler is split at every file write: the reads that lead to a write
belong to the step before it. The issued, decision and consumed files are created
exclusively and never change, so a read that finds one of them stays true; a read that
finds none can go stale, and the step that writes re-reads through the exclusive creation,
as the code does. `job.json` is replaced by the copy the handler read when it started, so a
handler that was overtaken writes back stale data; this is kept.

*Kinds.* `general`, `lab` and `legacy` are v1 jobs (what a worker's failure report is
believed to say differs, and only a laboratory job's receipt is verified); `v2` is an exact
certified action and `family` a certified request family.

*Actions.* `ClaimNext`, `Authorize` and `Report` are the request handlers, one sub-action
per path through `claimNextRevitToolJob`, `authorizeRevitToolJobExecution`,
`completeRevitToolJob` and `failRevitToolJob`. `WriteStep` is the rest of a handler.
`WorkerStep` is the worker loop and the action runner, `ProducerStep` is
`callRevitViaCourier` with `finalizeTimeout`. `GiveUp` is a client timeout or a broken
connection: the request may still be served, the answer is lost. `FinalOverruns` is the
deadline that passes while the Revit thread awaits its final authorization. `Restart` ends
a backend between any two writes and starts it with a possibly different profile or tool
inventory; `Die` ends a Revit process; `ProducerCrash` ends the MCP process.

*Abstractions.* Payloads, hashes, signatures and times are replaced by what the handlers
compare: a challenge is identified by its executor (a job has one issued file, so one
challenge), a native receipt is "good" or "bad", a failure report "known", "retryable" or
"unknown". `reconcileJobWithResult` also compares the time and the text of a failure, which
the model does not have: where two failures of a job may differ in them (`FailuresMayDiffer`:
a v1 job, an untargeted family job), `Reconciled` lets a job that agrees be saved again.
Jobs have directories of their own and no handler relates two of them, so one job is
followed; other jobs only decide which job a scan takes first.

### 2.2 DispatchAuthority

Five variables: who holds the right to touch Revit (`open`, `dispatched`, `fenced`), the
failure reserved with a fence, the terminal truth, what readers are shown and how often the
handler started. The right is decided once; only a dispatched job starts, once; a fenced
job's truth is the failure reserved with the fence; a dispatched job succeeded after it
started or has an unknown outcome, and is never "known not to have run"; what is shown is
the truth. `CourierJobs!Authority` maps the issued file to `authority` and `reserved`, the
decision to `truth`, `result.json` to `shown`, and `runs` to `starts`.

### 2.3 RevitEventQueue

Each interlocked operation and each operation on the concurrent queue is a step, so that
`Run` (with `MaintainRaiseUntilStartedAsync` and `FailQueuedItem`), `CancelQueuedItem` and
`Execute` interleave as they do on three threads. `_inFlight` is `inFlight`, an item is
named by the call it belongs to, `state` is its `ExecutionState`, `done` what its task
completed with. Raised events coalesce (`signalled`); Revit may deny a raise, and may call
back after the queue was emptied by somebody else. `UiWake` is the dispatcher timer that
raises again while `HasPendingWork`.

### 2.4 AssignmentKernel

*State.* `ops`, `criteria`, `inputs`, `stale`, `calls`, `gates` and `terminal` are the
projection that `reducer.ts` folds out of the journal: per operation its settlement and
dispatch state, persistent effect, result, attempts to retain its observation and the
event identities the store has quarantined; per criterion its evaluation, supporting
operations and the observations it has seen; `gates` are execution control, usage hold,
progress blocker, budget and the last execution failure. `calling` is what a recovery over
the courier read before its call. `native` is external: what Revit did with a write.
`knew` is a history variable, the inputs known when an operation was admitted.

*Actions.* One accepted append each; the guard joins the reducer's assertions with the
conditions of the edge that emits the event:

| Action | Event, edge |
|---|---|
| `Admit` | operation_admitted, `openAssignmentKernelOperationV2` and its child variant |
| `DispatchStarted`, `DispatchRecorded` | operation_dispatch_started; native_ and operation_dispatch_recorded |
| `ResultRecorded`, `FailOperation` | operation_result_recorded, from an answer or from `failAssignmentKernelOperationV2` |
| `DispatchRefused`, `FailureRefused` | the same two events of a parent with an open blocking child: rejected, quarantined, and refused for good under that identity |
| `RecoverOperation`, `RecoveryFails` | `recoverAssignmentKernelOperationsV2` over the courier |
| `ObservationRetained`, `CommitRetry`, `CommitFailed` | observation_retained, observation_commit_retry_recorded, observation_commit_failed |
| `NativeCompletionReconciled` | `recoverLateNativeCompletionV1` |
| `InputRequested`, `InputSupplied` | input_requested; input_supplied with `invalidateDependentInputResultsV2` |
| `CriterionEvaluated` | criterion_evaluated, over admissible evidence, with `mergeEvaluation` |
| `ProviderAdmitted`, `ProviderState`, `ProviderReceipt` | provider_call_state_recorded, provider_call_receipt_recorded |
| `Pause`, `Resume`, `HoldRecorded`, `ProgressBlocked`, `ExecutionFailure`, `BudgetExhausted` | controls and stops |
| `Terminal` | `deriveAndSettleAssignmentKernelV2` |
| `NativeSend`, `NativeFinish` | external: a write that was handed over reaches Revit, perhaps after the journal gave up on it, and is committed or refused |

*Operations* are constants with the attributes that admission stores and never changes
(effect, parent, retry, verification, reconciliation, eligible criteria, inputs);
`WellFormed` is what admission asserts of them. What an answer may say is the set
`NativeAnswers`, `UndispatchedAnswers` or `TransportAnswer`: the first two are true of what
Revit did, the last is computed from the dispatch state alone, as in the code.

*Abstractions.* Payloads, targets and facts are reduced to whether an observation proves
the postcondition it verifies. The verdicts are "pass" and "uncertain". Every work unit
names every criterion, as the factory writes them. An append is atomic, since the store
holds the goal's file lock; result and observation are usually one write in the code and
may be two, which is the case that is kept.

### 2.5 ControlPlane

*State.* `cp` is the projection: the generation, the terminal state and the attempts in the
order in which they were opened, each with its purpose, the attempt it looks at, its lease,
dispatch, effect and the authority of that effect. `call[i]` and `owner[i]` are the pending
tool call of an attempt and the turn that made it, `job[i]` what Revit did with an apply
(external), `turn`, `turnGen` and `waiting` the provider's turns, `gate` what the teammate
loop of a turn knows about its apply.

*The reducer* is a set of operators, one per event kind, from projection to projection:
`RunStarted`, `Opened` (with `OpenOk`), `DispatchRecorded`, `EffectRecorded`,
`LeaseRecorded`, `VerificationRecorded`, `ReconciliationResolved`, `AttemptTerminal`,
`AssignmentTerminal`. A refused event leaves the projection as it is, which is what
quarantine does. `EffectOk` is the table of authorities: a rank per source, and what a
weaker or equal source may not change.

*Actions.* A handler appends its events in one synchronous stretch of the event loop, so it
is one step in which each event is accepted or refused on its own: `OpenCall` and
`OpenRefused` (opening a lease up to the call itself), `ResultArrives` and `ToolError` (the
rest of `handleCodexDynamicToolCall` after the await), `BarrierTimer`
(`settleAssignmentExpiredWork`), `TurnCompletes`, `TurnFails`, `ProviderTimesOut`,
`UserCancels`, `DrainedAfterTimeout`, `DrainedAfterCancel` (the ends of a turn), `PrepareTurn`
and `BeginTurn` (a run begins when its message arrives, the turn when the turn before it is
over), `RevitRuns` (external) and `Crash`.

*Abstractions.* The Assignment asks for one change of one target, so every two applies have
the same signature and target, which is the case in which a replay matters. Only applies have
a `job`; a read or a preview never changes the model, and what it answers is chosen when it
answers. The leases that end an attempt without effect are one value. Deadlines have no
clock: a deadline may pass at any moment in which somebody waits for it. The watchdog's
counters are a choice to stop or not. A call that is not about Revit changes nothing here.

### 2.6 BatchJobs

`job` is `job.json`; `worker`, `outbox` and `access` are the pane, its durable outbox and the
Revit session it looks at; `late` holds requests the worker gave up on. `dispatches[i]` counts
the runs of item `i` that may have changed the model and `returned[i]` the tokens under which
it succeeded; both are ghosts. A handler runs under the job's lock file and is one step; it
writes `job.json` up to three times (expiry, the operation, finalization), and `DieServing`
and `ControlStops` leave any of these writes as the last one (`Partial`). `Reconcile` is
`reconcileExpiredClaims`, which every handler that reads the job performs first.

### 2.7 DeployActivation and ReleaseSwitch

`file[p]` is a control (an add-in manifest or a launcher) or `state.json`, `tree[r]` a release
tree, `staging`, `displaced` and `failed` the other roots of the latest swap; `journal` and
`quarantine` are the journal files, `sideFiles` what a compare-and-swap put aside, by path. The
contents that no release has are the set `Foreign`, so that two edits can be told apart. The
process is a program counter over the phases of an installation or roll back, of
`RecoverPendingActivationJournal` and of `RecoverRejectedAdmissionControls`; each directory move,
file replacement and journal write is a step, after which the process may fail (and unwind
through its `catch`) or die; `SideFileFault` is a failing call on the file a compare-and-swap has
displaced, which the `finally` blocks then delete or keep. `EditControl` and `AlterTree` are a third party at any moment, and
Revit may be open. The list of successful releases in `state.json` repeats no release (it is
checked when it is loaded) and a release is appended anew with every success, so it is modelled as
the stamp of each release's last success; the target of a roll back is the latest one other than
the current. `ReleaseSwitch` sees the installation through the journal: manifests and trees
change in one step, to a whole selection of one release, or not at all, as long as nobody
else has changed a file.

## 3. Runs

| Run | Instance | Shows |
|---|---|---|
| `courier_single` | 1 backend, 1 worker, all kinds, a restart under any policy, worker and producer may die | `TypeOK`, `AtMostOnce`, `RetryAdviceSafe` |
| `courier_race` | 2 backends, a restart, one v2 or family job, a workstation clock that lags | `FamilyTruth`, `JobAgreesWithResult`, `FirstWriterWins`, `ImplementsAuthority` |
| `courier_live` | 1 backend with a restart, 1 worker, all kinds, fairness | `KnownFailureNeverRan`, `TerminalEventually`, `OutboxDrains` |
| `event_queue` | 3 calls, one cancellable, fairness | `NotDispatchedNeverRan`, `TaskCompletes`, `SlotReleased` |
| `kernel_writes` | a write, its retry, a verification of each, a desired-state read; direct transport | `EffectTruth`, `RetryAtMostOnce`, `SuccessIsFinal` |
| `kernel_inputs` | a desired-state read with a blocking write below it, its verification, one required and one discovered input, two attempts per observation; courier with recovery | `KernelTypeOK`, `EvidenceCurrent`, `FirstResultWins` |
| `kernel_live` | a write, the read that reconciles it, a provider call, every interruption, fairness | `ResumeSafe`, `CommitFailureTerminalizes`, `PauseDrains` |
| `control_plane` | one change of one target, 1 read or preview, 2 applies, 2 messages, crashes without bound, fairness | `NoneIsSafe`, `AppliedIsReal`, `OneChangePerTurn`, `DrainsEnd` |
| `batch_jobs` | 2 items of either kind, a loss, an upset, a pause or retry, 2 claims per item, fairness | `TypeOK`, `ChangesOnce`, `RecordTruth`, `FinishedIsQuiet`, `ControlStands`, `CompletionKept`, `ClaimSettles` |
| `deploy_activation` | 2 releases, 3 manifests in 2 years, a launcher, 3 commands, a fault, a third-party edit, fairness | `NoFalseQuarantine`, `Coherent`, `ForeignPreserved`, `RejectedNotLoaded`, `CommitStands`, `SwitchesAtomically`, `PendingResolved` |

`TypeOK` of `RevitEventQueue`, `ControlPlane` and `DeployActivation` states the shape of their
variables; it is not among the properties of the runs, it is proved (section 4). The type
invariants of the other three modules are checked and proved. That a family job's
`KnownFailureNeverRan` holds with several backends is shown by the proof and by
`ImplementsAuthority` in `courier_race`; `courier_live` has the other kinds.

Two runs end in a violation: the code does not do what a comment or a document says.

| Run | Property | What happens |
|---|---|---|
| `control_plane_replay` | `AppliedOnce` | An apply is opened with the effect "none" and keeps it while Revit holds it. A message that supersedes the run, a turn that fails or a backend that dies leaves it so, the late answer is refused as stale, and the same apply is admitted again: both change the model. |
| `batch_outbox` | `BatchOutboxDrains` | A lease ends before the completion of its item arrives. The completion is refused for ever and stays first in the outbox, and the worker, which flushes before it claims, never claims again. |

### 3.1 What the passing instances leave out, and why

The passing runs claim a property only where the code delivers it:

* `finalizeTimeout` of the producer reads `result.json`, finds none and replaces it later
  (`revitCourier.ts:713`), so a v1 success published in between is lost, although
  `publishDurableTerminal` says that a success is never replaced
  (`revit_tool_jobs.ts:681`). `FirstWriterWins` is checked and proved for v2 jobs only.
* A backend that restarts under a profile without v1 settles a *running* v1 job as a known,
  not-dispatched failure (`revit_tool_jobs.ts:958`); the neighbouring check for withdrawn
  routes says why it must not (`revit_tool_job_claim_support.ts:23`).
  `KnownFailureNeverRan` is checked with an unchanged profile.
* Two executors that compete for an untargeted v1 job satisfy `AtMostOnce` and
  `KnownFailureNeverRan` in an instance of their own; it is too large to be joined with the
  faults of `courier_single`, which has one executor.
* A targeted job whose Revit process ended stays running: only a claim by the target looks at
  it, and the successor has another executor id (`revit_tool_jobs.ts:910`). `courier_live`
  has no dying worker; with `Mortal = {e1}` and a second worker `TerminalEventually` fails,
  although the worker relies on "The durable lease will become an outcome-unknown receipt".
* A workstation clock that lags by more than the two seconds' margin breaks v1 jobs: a
  producer that read a pending copy erases the claim, the action runs all the same, and the
  completion is refused for ever with an error the outbox does not resolve. With
  `SkewedClocks = TRUE` `RetryAdviceSafe`, `KnownFailureNeverRan` (v1) and `OutboxDrains`
  fail. `courier_race` keeps the lagging clock: v2 jobs do not depend on it.
* `RevitEventService` can queue two items: a late callback that finds the queue empty clears
  the slot of a call that is admitted but not yet enqueued. What `event_queue` checks holds
  nevertheless.
* A blocking child whose observation is given up on counts as unresolved for ever, so that its
  parent stays in flight (`reducer.ts:468`); `kernel_live` has no children.
* A blocking child may be admitted while its parent retains its observation, which then settles
  the parent without a look at its children (`reducer.ts:366` and `:891`; the documentation
  wants the parent to settle last, `ASSIGNMENT_KERNEL_V2.md:64`).
* The failure of a parent is refused while a blocking child is open and is quarantined under its
  fixed identity (`assignment_kernel_v2_store.ts:306`); when the child has settled, recovery
  cannot record the same failure any more and the parent stays open.
* A recovery call over the courier that reaches Revit and whose answer is lost is recorded with
  the dispatch state read before the call, as a failure before dispatch. The effect
  properties are therefore checked and proved over the direct transport, where no call is
  repeated.
* `NoneIsSafe` speaks of attempts that were settled. The attempts that a new run superseded keep
  the "none" they were opened with; that is the subject of `control_plane_replay`, and the
  reason why `OneChangePerTurn` speaks of one turn.
* `recoverAssignmentToolLeasesAfterRestart` (`async_tool_settlement.ts:480`) is called by tests
  only, so `Crash` leaves the journal as it is; `ASYNC_SETTLEMENT_BARRIER.md:56` describes a
  restart that reconstructs the leases.
* An apply cancelled after dispatch has a lease that `settleAssignmentExpiredWork` does not count
  as possibly dispatched; its attempt to settle it as "none" is refused, so the timer is armed
  again with 0 ms until the call itself ends. `DrainsEnd` holds because calls end, not because
  of the timer, and its fairness says so.
* An "unknown" reported by the native host can never be resolved by a readback: `applyEffect`
  refuses a change of an effect with that authority (`control_plane.ts:467`), although the
  message above it asks for one. Such an Assignment can only end as blocked, failed or
  cancelled.
* The drain of an old turn ends the *current* generation (`codex_brain.ts:1046`, `:1106`), also
  when a newer message has begun it. An Assignment may be verified while a superseded attempt is
  in flight or a preview is unknown. A verification may rest on the change of an older,
  superseded apply, which is why `AppliedIsReal` asks for some apply of this change.
* Recovery of a deployment restores the release tree before it looks for foreign controls
  (`DeploymentEngine.cs:1251`); the documentation says that with a foreign control "recovery
  alters nothing" (`OPERATOR-DEPLOY.md:69`). `ForeignPreserved` is about the controls.
* `ForeignPreserved` follows every content that somebody else gives to a manifest, and names the
  two ways in which the code loses one. `ReplacedByPutBack`: `CasWrite` sees its own bytes, a
  second edit follows, and the put-back of the first one replaces it without a backup
  (`DeploymentEngine.cs:1125` to `:1127`; `CasDelete` moves without overwriting and loses none).
  `LostReadingBack`: an I/O error while the displaced file is hashed leaves through the
  `finally`, which deletes it although it may hold an edit (`:1123`, `:1138`, `:1156`, `:1169`).
  `deploy_activation` has one edit and a fault, so the second way occurs in it. With two edits
  and two foreign contents (two commands, one fault, safety alone) both occur, and TLC reports a
  violation when either exception is taken out of the property.
* Without SafeRead admission no release root is marked unsafe, and a repair of the same version
  reinstates its controls over the altered tree; `RejectedNotLoaded` is about admitted ones.
* `RejectedNotLoaded` rests on `EnsureCompleteActivationSelection` (`DeploymentEngine.cs:789`),
  which `SelectionAssumption` states: of a year, a command selects all profiles of an admitted
  release or none. If it could select a part of them, a repair would put a manifest *of the
  release itself* on the list of obsolete ones, and such a manifest is neither disabled nor
  restored when the admission is rejected. TLC finds that run for selections that are not
  complete; the method is not only a check of the command line.
* A family job that names no executor may be recorded as failed without a receipt: two claim
  scans race, one leases the job and the other, which met the fence of an unknown executor,
  fails it. TLC finds it with two backends; `JobAgreesWithResultHolds` therefore assumes a target
  for a family job, as `courier_race` does.
* `ClaimSettles` is about a bound document that stays open: the executor id is made per process
  (`revit_batch/service.ts:258`), so that a claimed item of an ended Revit process is settled
  only when somebody reads the job. A job whose backend dies between settling and finalizing
  keeps "pausing" or "cancelling" until the user acts.

Hazards that were found while reading and that no instance shows: the stale-lock check of the
batch service can remove a lock that was just taken over (`service.ts:310`); retry-failed
withdraws a pending cancellation (`service.ts:900`); the worker's loop claims the next item
without flushing (`OperatorPaneControl.cs:3752`, against the comment at `:3755`); a failure
report with an unknown effect is not durable, so the rest of the batch goes on until the lease
ends (`service.ts:1171`); an unreadable outbox record pauses the worker
(`OperatorPaneControl.cs:3779`); an item put back into the Revit queue goes to its end
(`RevitEventService.cs:326`).

### 3.2 Bounds

* One or two backends: the races of the protocol are between two writers of one file; a
  third writer meets the same files in one of the states the second one can produce. The
  proofs remove this bound: their number of backends is arbitrary (section 4). Backends are
  symmetric in the run that has two of them.
* One or two executors: a job is claimed once, so at most one executor owns it and the
  other one only scans, competes for the claim or flushes.
* `MaxRestarts` is 0 or 1: a restart keeps only the files, so two restarts in a row are one;
  two separate ones are left to the proofs.
* Three calls of Run: a holder of the slot, a call admitted because the slot was cleared under
  the holder (two calls never get that far), and one that is rejected or takes a foreign item
  off the queue. One of them can be cancelled; each cancellation runs on the item of its own
  call and meets the other two as callers.
* Two to five operations, one criterion: the assertions of the reducer relate at most an
  operation, its predecessor, parent or write, and the set of unknown effects. The proofs
  remove the bound for everything but liveness.
* `CommitLimit` is 1 or 2 (the code's limit is a constant of its own; two is the first limit
  with an attempt that is not the last), `CallLimit` is 1.
* `control_plane`: a change, its replay and one look at it under two messages. The interesting
  cases need an apply that is overtaken and another one after it. Instances with two looks and
  one apply (1.45 million states) and with two looks, two applies and one message pass too;
  they take longer and show the same.
* `batch_jobs`: the second item is the one that must wait, be skipped or be handed out too early.
  Two claims per item reach the limit; one loss is enough for a late request and one upset for a
  crash, an ended Revit or another document. The proofs remove these bounds.
* `deploy_activation`: two commands make and replace an installation, the third one recovers,
  repairs or rolls back. Instances with two faults and two commands under fairness, and with
  three commands and two faults for safety alone, pass too.
* Deadlock is checked where the system cannot stop. It is switched off in `courier_single`,
  where the only worker may be dead and the producer done, in the event queue, where
  every call may have ended, in the kernel, where a terminal Assignment does nothing, in
  `control_plane`, and in `batch_jobs`, where Revit may be gone and the bounds used up.

### 3.3 Fairness

`FairSpec` assumes weak fairness of a backend's own steps (a synchronous handler runs to
its end), of the worker loop, of client timeouts, of the producer's poll loop and of time;
and strong fairness of serving a client's requests: the event loop takes connections in
turn, so a client that asks again and again is not passed over. `NetworkHeals` says that
from some point on a client only gives up on a request that a restart has wiped out; without
it the worker's timeouts could race every answer for ever. Restarts, deaths and crashes are
never assumed to happen.

`RevitEventQueue!FairSpec` assumes that threads are scheduled and that Revit becomes idle again
and again with the Idling handler attached; it does not assume that a raised ExternalEvent
is ever delivered, nor that anybody cancels.

`AssignmentKernel!FairSpec` assumes that an operation nobody answers is failed in the end
(every operation has a deadline, and both the caller and recovery fail it), that an
observation is retained or another attempt is made, that a provider call returns or throws,
and that a progress checkpoint settles a derived outcome unless the user paused the work. It
assumes no answer, no evaluation, no resume and no provider success. A provider call that a
crash of the backend cuts off is outside of it (listed as a hazard).

`ControlPlane!FairSpec` assumes that a tool call ends, which the total time limit of `callTool`
guarantees (`mcp_tool_runtime.ts`, `OPERATOR_MCP_TOOL_TIMEOUT_MS`), and that the turn which
waits for the barrier is resumed when nothing is in flight. Nothing is assumed of the barrier's
timer, of Revit, of answers or of new messages.

`BatchJobs!FairSpec` assumes that the pane's timer keeps the worker going, that a delegated item
ends after its rounds, and that time passes. `DeployActivation!FairSpec` assumes that a running
process takes its steps and that somebody runs a command again and again (a status command is
enough, since each recovers first); `PendingResolved` is about a workstation on which Revit stays
closed from some point on.

## 4. Proofs

The courier theorems hold for any number of backends, executors and restarts, any set of kinds and
policies and either clock assumption, except where a hypothesis of the theorem says otherwise;
`ConstantsAssumption` is all that is used besides.

`CourierJobsProofs`:

* `TypeCorrect`: `Spec => []TypeOK`;
* `FamilyTruthHolds`: `Spec => []FamilyTruth`;
* `CertifiedFirstWriterWins`: `Spec /\ Certified => FirstWriterWins`;
* `JobAgreesWithResultHolds`: `Spec /\ Certified /\ (Family => Target # NoExec) =>
  []JobAgreesWithResult`.

`CourierAuthorityProofs`:

* `FamilyImplementsAuthority`: `Spec /\ Family => ImplementsAuthority`;
* `AtMostOnceHolds`: `Spec /\ (Certified \/ (\A b, c \in Backends : b = c) \/ Target # NoExec) =>
  []AtMostOnce`;
* `KnownFailureNeverRanHolds`: `Spec /\ (Family \/ (Policies \subseteq {"ok"} /\ ~SkewedClocks)) =>
  []KnownFailureNeverRan`;
* `RetryAdviceSafeHolds`: `Spec /\ (Certified \/ ~SkewedClocks) => []RetryAdviceSafe`.

(`Certified` and `Family` are state predicates about the job's kind, which never changes:
the theorems speak of the behaviours that start with such a job.)

**The inductive invariant** is `Inv == TypeOK /\ OutboxInv /\ FamilyInv`. `OutboxInv` says that
a pending completion names the process that saved it, which flushing needs. `FamilyTruth` on
its own is not inductive: a handler about to publish a result could carry anything.
`FamilyInv` adds what each handler knows at its next write (`HandlerSound`): a handler about
to fence carries a failure without a challenge hash, one about to decide carries a decision
that passes `validateCompletionDecisionCausality` against the issued file, one about to
consume or publish carries the decision file itself; and that the issued file is absent, a
challenge for a process, or a fence with a failure (`IssuedWellFormed`), and that the producer
never reaches its overwriting steps for a family job.

**The argument.** The helpers' results are described once (`OpenFacts` to `RecallFacts`);
`Served` shows that every request, whatever the files say, leads to a sound handler;
`SoundPersists` that what a handler knows stays true because the issued and decision files
are written once; `WriteStepFamily` that every write keeps the files right; `InvStep` puts
the actions together.

**Refinement.** Two more invariants are needed. `TokenInv`: the right to dispatch has one
holder at a time, a backend between creating the challenge and answering, or the worker that
got the answer; while somebody holds it the challenge is out and nothing has run; a run spends
it. `EvidenceInv`: a completion in the outbox, on the network or in a handler about to decide
success exists only after a run. With them every step maps to a step of `DispatchAuthority`
(`IssueChallenge` to `Dispatch`, `WriteFence` to `FenceOff`, `StartNative` to `Start`,
`PublishDecision` to `Settle`, `PublishResult` to `Show`) or to a stutter.

**Agreement of job and receipt.** `AgreeInv` follows every copy of `job.json` that a handler is
about to save: a terminal copy of a v2 job agrees with the receipt that is already published. A
family job must name its executor (`OneExecutor`), or a scan may quarantine it while it is leased.

**The other kinds of job.** A v1 job has no issued file; its argument runs through the claim.
`LeaseInv` says what a handler that read `job.json` may save, and that nobody holds a lease
before the job is leased.

* For `RetryAdviceSafe`, `TooLate` is the state in which the advice is given: the job has expired,
  nothing has run and nobody is past the claim. It is stable: the worker's own clock check stops
  whoever is still given the job, or, on a workstation whose clock lags, the authorization of a v2
  job. For a v1 job nobody else does, hence the hypothesis.
* `KnownFailureNeverRan` rests on the same state (`KnownInv`): a failure without dispatch is
  written for a general or laboratory job only when it was too late to start it, provided the
  policy keeps admitting the job. Two of the divergences in section 3.1 are what happens otherwise.
* `AtMostOnce`: before the run (`Ready`) every worker has at most one call out, the one it waits
  for (`OneCall`), so that no answer arrives twice, and at most one executor owns the lease
  (`OneOwner`); after it (`Spent`) nobody owns it or asks for leave to run. The single owner is
  what two backends can break for a v1 job that names no executor: both may scan it as
  pending and lease it to different workers. A v2 job that names no executor is refused before
  it starts (`Unaimed`), and a family job rests on its challenge.

**The Assignment kernel.** `AssignmentKernelProofs`, from `KernelConstants`,
`KernelTopology` and a direct transport: `EffectTruthHolds`, `RetryAtMostOnceHolds`,
`SuccessIsFinalHolds`, `ResumeSafeHolds`. The transport assumption is needed: over the courier a lost answer of a repeated call (section 3.1) breaks what
the journal says. `AssignmentEvidenceProofs`, over either transport: `KernelTypeOKHolds`,
`EvidenceCurrentHolds` and `FirstResultWinsHolds`.

`KernelInv` is the first module's invariant. Its core, `Consistent(o)`, ties the journal to
Revit for one operation: what was never dispatched never reached Revit; a result exists
exactly when the operation left its open states; the two effects agree. `RetrySafe` says that
the predecessor of an admitted retry is settled without effect, which no later step undoes,
and `Blocked` that a lost observation left a blocker. `OperationFrame` reduces a step of one
operation to what it makes of that operation (`Respects`); `AnswersTruthful` and
`TransportTruthful` show that every result that can be recorded is true of Revit
(`Truthful`), a lost answer included, because the dispatch state is journaled before the
call. `SuccessIsFinal` also needs `Succeeded`: what the derivation of the outcome has
checked, and that the journal of a terminal Assignment is closed. `EvidenceCurrent` rests on
`EvidenceInv`: an admitted operation that predates an answer it depends on is stale, a
verification follows an admitted write, and passing criteria are supported by operations
that are not stale; an answer resets all criteria in the step that marks operations stale,
which is why no interleaving breaks it. `FirstResultWins` needs only that an
operation has a result exactly when it left its open states (`ResultsRecorded`), which the
repeated calls of the courier respect: the journal may record a wrong result, but never two.

**The batch service.** `BatchJobsProofs`, from `BatchConstants` alone: `TypeCorrect`,
`ChangesOnceHolds`, `RecordTruthHolds`. `ChangesOnce` is not inductive: a worker that holds an
item, a late request or a saved completion could be about anything. `BatchInv` adds what the
record knows of each item (`ItemInv`: a running item carries the token of its latest claim; one
that has changed the model can neither be pending nor be retried), what a settlement on its way
may claim (`LateInv`: a success names a token that returned, a failure without effect is true or
older than the latest claim), the same for the outbox (`OutboxInv`, `PostInv`), and what the
worker holds (`HoldInv`: a delegated item in its hands is running under its token, or has lapsed
into reconciliation, and no settlement of that token is on its way). The steps of the record are
reduced to `Evolution`, the ways in which one version of `job.json` may follow another, which
keeps all parts but the worker's; a crash is then a shorter evolution.

The same module proves `FinishedIsQuietHolds`, `ControlStandsHolds` and `CompletionKeptHolds`. The
two statements about the record support each other (`Calm`): an expiry under a terminal status
would reopen the job, and only because a finished job has no running item (`Quiet`) it does not
happen. `Calm` is transitive, so that the three writes of a handler are shown one by one.

**The Revit event service.** `RevitEventQueueProofs`, for any set of calls: `QueueTypeCorrect`
and `NotDispatchedNeverRanHolds`. The property is not inductive: a cancelled or refused item could
still be somewhere it can be run from. `QueueInv` follows the item instead. It has one place at a
time (`PlaceInv`): not yet queued, on the queue, in the hands of a `Run` or a `CancelQueuedItem`
that will put it back, with `Execute`, or gone; `Execute` runs only what it holds. Whoever won the
compare-and-swap on the item's state, or took it for good, is therefore right (`ItemInv`). The
single-flight slot plays no part in the argument, which is why a late callback that clears it
under its holder does no harm here.

**The control plane.** `ControlPlaneProofs`, for any number of calls, turns and messages:
`ControlTypeCorrect`, `NoneIsSafeHolds`, `AppliedIsRealHolds`, `OneChangePerTurnHolds`.
`AttemptInv` is about one attempt of the journal: an apply that is still active is either as it
was opened, dispatching, in which case the barrier and a cancellation settle it as unknown, or
unknown on the word of the transport, which no timer and no report of the caller outranks; an apply
that is settled with "none" can no longer take effect. Each reducer operation touches at most one
attempt (`Touches`), and the handlers, the barrier and the ends of a turn are composed of these.
`OneChangePerTurn` needs the turn as well (`TurnInv`, `CallInv`, `CountInv`, `GateInv`):
generations tell the calls of two turns apart, and the gate is free only when no apply of
the turn can still report or take effect. `NoneIsSafe` leaves out an apply that was superseded
before it was settled; `control_plane_replay` shows why it has to.

**Operator deploy.** `DeployActivationProofs`, from `ConstantsAssumption`, `MarkersAssumption`
(the markers for "no file", "no tree", "no journal" and so on are none of the values they stand
beside) and, for the last of the theorems, `SelectionAssumption` (section 3.1), for any number of releases, controls, commands, faults and third-party edits:
`DeployTypeCorrect`, `ForeignPreservedHolds`, `NoFalseQuarantineHolds`, `CoherentHolds`,
`CommitStandsHolds`, `SwitchesAtomicallyHolds` and `RejectedNotLoadedHolds`. The invariant has
three layers.

* `Shape` holds whoever interferes: the types, which journal and command each program counter
  implies, and that a compare-and-swap belongs to a loop over journaled controls and has displaced
  what it expected or what somebody else wrote. `ForeignPreservedHolds` needs no more: it follows one
  content of one manifest path over each step (`SurvivesCasSwap` to `SurvivesOthers`), for any
  number of edits and of contents.
* `Transaction` holds while nobody interferes. `Recoverable` is what recovery can rely on wherever
  the process died: the before images with the before tree are a whole installation, and so are
  the after images once the journal is a commit record (`ImagesOk`); each control has one of its
  two images; the two trees of a swap are at one of five places (`Ready`, `SetAside`, `Placed`,
  `Undone`, `HalfUndone`); and `state.json` is written last, with a stamp of its own, so that it
  tells the two images apart (`StateOk`). `OnCourse` is what the running process relies on in
  addition.
* `Origins` holds whoever interferes and says where contents come from: a compare-and-swap
  exchanges images of the journal (`CasJournaled`), a tree is made of whole parts of its release
  (`Built`), and the journal of an admitted release puts manifests of that release and takes away
  those of others (`JournalTargets`). `Rejection` adds what `RecoverRejectedAdmissionControls`
  has reached: unless the previous tree is in place, a manifest of the rejected release is left
  only where the disabling loop still has to go (`TakenBack`). The claim about the tree is for one
  disturbance; `Transaction` supplies that the first one has already happened when an admission is
  rejected.

`Transaction` and `Origins` need `Shape`; `Rejection`, which completes the third layer, needs all three.

For `SwitchesAtomically` the observer's view is the before images until `state.json` is written
and the files from then on (`ShownFile`, `ShownTree`). A journal begins with what there is
(`BeginShown`), is retired when the images it shows are the files (`RetireShown`), and everything
between changes only what it hides (`OthersShown`), except the one write of `state.json` in the
commit, which is the abstract `SwitchTo` (`CommitSwitches`); a step that disturbs is `Disturb`.

Only model-checked: the liveness properties, which are outside the prover's reach
(`TerminalEventually`, `OutboxDrains`, `TaskCompletes`, `SlotReleased`, `PauseDrains`,
`CommitFailureTerminalizes`, `DrainsEnd`, `ClaimSettles`, `PendingResolved`). Every invariant and
every action property of the passing runs is stated by a theorem, some under the hypotheses given
above; the kernel's claims about Revit are proved, and hold, over the direct transport only.

## 5. What is not modelled

* Session ownership, context-free filtering and the order in which several candidate jobs
  are tried: they choose among jobs and do not change one.
* Envelope parsing, hashing, signatures, Merkle checks: pure and out of TLC's reach. Their
  verdicts are the "good" or "bad" receipt and the policy's answer.
* `publishOrResume` with an existing job directory, an unreadable outbox record, the host
  circuit, the native-program launcher and `StopBackgroundWake`.
* Crash of the producer between its two writes is in `courier_single` but not in
  `courier_live`: nothing in the code repairs it (listed as a hazard).
* A dialog recovered after an exact v2 action ran is reported as a known failure;
  `KnownFailureNeverRan` leaves v2 exact and legacy jobs out, since whether the cancelled
  dialog rolled the action back is decided inside Revit.
* In the kernel: supersession of runs and generations, partial and needs_input verdicts,
  advisory policy, reviews, work plans and result delivery; and four events that no
  production code emits (reconciliation_recorded, provider_call_recorded,
  work_unit_state_changed, observation_retention_failed).
* In the control plane: clarification, review, no-op and read-completion claims, preview-only
  Assignments, several targets and signatures, results of outer actions, the settlement of the
  dynamic runtime, the watchdog's counters, a crash inside a synchronous handler, direct goal
  cancellation, the abort of a waiting turn.
* In the batch service: claims without a token and completions with `ok=false` of older
  executors, synchronisation with the task store, the lock file itself, the order of several
  jobs, the evidence manifest.
* In operator-deploy: packaging, hashing and the admission checks themselves, configuration
  defaults, foreign edits of `state.json`, reparse points, dry runs, machine scope.
* Language-model prompting, geometry, redline and existing-conditions heuristics, benchmarks and
  the tools of the MCP server, which are most of the repository's lines: they are pure
  computations over documents, images and Revit data without a protocol to check.
* The components with status `not_modelled` in `PROJECT.json`.

## 6. Plan

1. `AssignmentJournal`: append under the goal's lock, duplicate delivery, quarantine and replay
   after a crash, shown to implement the reducer.
2. The rest of the kernel: supersession of a run by a new generation, partial verdicts.
3. `ActiveJobIndex`: that a job published while a scan runs is found by a later one
   (`active_job_index.ts:85` gives up on an unreadable job after 5 s).
4. `HostCircuit` and its composition with the worker; producer resume with an existing job.
5. The native transport's replay cache, the batch lock file, the persistence manager.
