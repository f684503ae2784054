------------------------------ MODULE BatchJobs ------------------------------
(***************************************************************************)
(* A Revit batch job: one task repeated over a list of items.  The backend *)
(* keeps the job in job.json and hands items to the add-in under a lease   *)
(* and a fencing token (operator-backend, revit_batch/service.ts); the     *)
(* batch worker of the add-in's pane runs one item at a time inside Revit, *)
(* keeps a successful completion in a durable outbox and reports it        *)
(* (revit-bridge-addin, OperatorPaneControl.cs).  The user approves,       *)
(* pauses, resumes, cancels and retries.                                   *)
(*                                                                         *)
(* A backend handler runs under the job's lock file and is one step; it    *)
(* may write job.json several times, and a crash leaves any of these       *)
(* writes as the last one.  A request that the worker gave up on may still *)
(* be served later.  A lease is not renewed while an item runs.            *)
(***************************************************************************)
EXTENDS Naturals

CONSTANTS
  NumItems,      \* the items are 1..NumItems, in the order of the job's array
  Kinds,         \* job types: "delegated" (effects unknown), "capture" (read only)
  ClaimLimit,    \* max_claim_attempts
  NoClaim, NoReceipt, NoRecord,
  MaxLosses,     \* bound: calls given up on and completions that cannot be saved
  MaxUpsets,     \* bound: backend deaths, Revit ends, document switches
  MaxControls    \* bound: pauses and retries

Items == 1..NumItems
Effects == {"none", "possible"}  \* "possible" is the code's "applied" and "unknown"
Claims == [token : Nat, lapsed : BOOLEAN]
Receipts == [token : Nat, failed : BOOLEAN, effect : Effects]
Records == [token : Nat, effect : Effects]

ASSUME BatchConstants ==
  /\ NumItems \in Nat /\ ClaimLimit \in Nat
  /\ Kinds \subseteq {"delegated", "capture"}
  /\ NoClaim \notin Claims /\ NoReceipt \notin Receipts /\ NoRecord \notin Records
  /\ MaxLosses \in Nat /\ MaxUpsets \in Nat /\ MaxControls \in Nat

VARIABLES
  job,         \* job.json
  worker,      \* the batch worker of the pane
  outbox,      \* outbox[i]: the saved completion of item i, or NoRecord
  late,        \* requests that the worker gave up on
  access,      \* the live Revit session: "match", "other" document, "gone"
  dispatches,  \* dispatches[i]: runs of item i that may have changed the model
  returned,    \* returned[i]: tokens under which item i ran to a success
  losses, upsets, controls  \* how many have happened

world == <<access, dispatches, returned>>
counters == <<losses, upsets, controls>>
vars == <<job, worker, outbox, late, world, counters>>

-----------------------------------------------------------------------------
(* The job record. *)

Item == [status : {"pending", "running", "succeeded", "failed", "skipped"},
         claim : Claims \cup {NoClaim}, attempts : Nat,
         retryable : BOOLEAN, reconcile : BOOLEAN, receipt : Receipts \cup {NoReceipt}]
Terminal == {"cancelled", "failed", "succeeded", "succeeded_with_failures"}
Claimable == {"queued", "running"}
Statuses == Terminal \cup Claimable
              \cup {"awaiting_approval", "pausing", "paused", "cancelling"}
Job == [kind : Kinds, status : Statuses, approved : BOOLEAN, cancel : BOOLEAN,
        pause : BOOLEAN, reconcile : BOOLEAN, items : [Items -> Item]]

(* createRevitBatchJob: a planned item may be listed as failed or done already. *)
NewItem(s) == [status |-> s, claim |-> NoClaim, attempts |-> 0, retryable |-> TRUE,
               reconcile |-> FALSE, receipt |-> NoReceipt]

With(j, s) == \E i \in Items : j.items[i].status = s
Active(j) == With(j, "pending") \/ With(j, "running")
NeedsReconciliation(j) == j.reconcile \/ \E i \in Items : j.items[i].reconcile

(* finalizeJobIfComplete *)
Skip(j) == [i \in Items |-> IF j.items[i].status = "pending"
                            THEN [j.items[i] EXCEPT !.status = "skipped"] ELSE j.items[i]]
FinalStatus(j) ==
  IF ~With(j, "failed") THEN "succeeded"
  ELSE IF With(j, "succeeded") THEN "succeeded_with_failures" ELSE "failed"
FinalizeMutant(j) ==  \* forgets the items that still wait
  IF With(j, "running") THEN j
  ELSE IF j.cancel \/ j.status = "cancelling"
  THEN [j EXCEPT !.status = "cancelled", !.items = Skip(j)]
  ELSE IF j.pause \/ j.status = "pausing" THEN [j EXCEPT !.status = "paused"]
  ELSE [j EXCEPT !.status = FinalStatus(j)]
Finalize(j) ==
  IF With(j, "running") THEN j
  ELSE IF j.cancel \/ j.status = "cancelling"
  THEN [j EXCEPT !.status = "cancelled", !.items = Skip(j)]
  ELSE IF j.pause \/ j.status = "pausing" THEN [j EXCEPT !.status = "paused"]
  ELSE IF With(j, "pending") THEN j
  ELSE [j EXCEPT !.status = FinalStatus(j)]

(* reconcileExpiredClaims.  Only the room capture executor may be replayed. *)
LapsedMutant(j, i) ==  \* looks at claimable jobs only
  /\ j.status \in Claimable
  /\ j.items[i].status = "running" /\ j.items[i].claim.lapsed
Lapsed(j, i) == j.items[i].status = "running" /\ j.items[i].claim.lapsed
Replayable(j, i) == j.kind = "capture" /\ j.items[i].claim.token < ClaimLimit
AfterLapse(j, i) ==
  LET it == j.items[i]
  IN  IF ~Lapsed(j, i) THEN it
      ELSE IF Replayable(j, i) THEN [it EXCEPT !.status = "pending", !.claim = NoClaim]
      ELSE [it EXCEPT !.status = "failed", !.claim = NoClaim, !.retryable = FALSE,
                      !.reconcile = (j.kind # "capture")]
SomeLapsed(j) == \E i \in Items : Lapsed(j, i)
SomeUnknown(j) == j.kind # "capture" /\ SomeLapsed(j)
Expire(j) ==
  LET next == [j EXCEPT !.items = [i \in Items |-> AfterLapse(j, i)]]
      requeued == \E i \in Items : Lapsed(j, i) /\ Replayable(j, i)
  IN  [next EXCEPT
         !.status = IF SomeUnknown(j) THEN (IF Active(next) THEN "paused" ELSE "failed")
                    ELSE IF j.status = "running" /\ requeued THEN "queued" ELSE j.status,
         !.pause = (SomeUnknown(j) /\ Active(next)) \/ j.pause,
         !.reconcile = SomeUnknown(j) \/ j.reconcile]
Reconcile(j) ==
  IF ~SomeLapsed(j) THEN j
  ELSE IF SomeUnknown(j) \/ Active(Expire(j)) THEN Expire(j)
  ELSE Finalize(Expire(j))

-----------------------------------------------------------------------------
(* Handlers of the worker's requests.  Each reconciles expired claims first. *)

(* claimNextRevitBatchItem *)
ClaimedItem(it) ==
  [it EXCEPT !.status = "running", !.attempts = it.attempts + 1,
             !.claim = [token |-> it.attempts + 1, lapsed |-> FALSE]]
Claim(j, i) == [j EXCEPT !.status = "running", !.items[i] = ClaimedItem(j.items[i])]
CanClaim(j) == j.status \in Claimable /\ ~NeedsReconciliation(j)
NextItemMutant(j, i) ==  \* hands a running item out again
  j.items[i].status \in {"pending", "running"}
NextItem(j, i) == /\ j.items[i].status = "pending"
                  /\ \A k \in 1..(i - 1) : j.items[k].status # "pending"
NothingToClaim(j) == IF CanClaim(j) THEN Finalize(j) ELSE j

(* settleClaim, for completeRevitBatchItem and failRevitBatchItem *)
ReceiptMutant(r) == [token |-> r.token, failed |-> r.failed]  \* without the payload
Receipt(r) == [token |-> r.token, failed |-> r.failed, effect |-> r.effect]
Settled(j, i) == j.items[i].status \in {"succeeded", "failed"} /\ j.items[i].receipt # NoReceipt
Settleable(j, r) ==
  /\ ~Settled(j, r.item)
  /\ j.items[r.item].status = "running" /\ j.items[r.item].claim.token = r.token
SettledItemMutant(it, r) ==  \* does not look at the reported effect
  [it EXCEPT !.status = IF r.failed THEN "failed" ELSE "succeeded",
             !.claim = NoClaim, !.receipt = Receipt(r)]
SettledItem(it, r) ==
  [it EXCEPT !.status = IF r.failed THEN "failed" ELSE "succeeded",
             !.claim = NoClaim, !.receipt = Receipt(r),
             !.retryable = IF r.failed THEN r.effect = "none" ELSE @,
             !.reconcile = IF r.failed THEN r.effect # "none" ELSE @]
SettleMutant(j, r) ==  \* forgets a pause or a cancellation
  LET next == [j EXCEPT !.items[r.item] = SettledItem(@, r)]
      unknown == \E i \in Items : next.items[i].reconcile
      pauses == unknown /\ Active(next)
  IN  [next EXCEPT !.status = IF pauses THEN "pausing" ELSE "running",
                   !.pause = pauses \/ j.pause, !.reconcile = unknown \/ j.reconcile]
Settle(j, r) ==
  LET next == [j EXCEPT !.items[r.item] = SettledItem(@, r)]
      unknown == \E i \in Items : next.items[i].reconcile
      pauses == unknown /\ Active(next)
  IN  [next EXCEPT
         !.status = IF pauses THEN (IF With(next, "running") THEN "pausing" ELSE "paused")
                    ELSE IF j.status \in {"cancelling", "pausing", "paused"} THEN j.status
                    ELSE "running",
         !.pause = pauses \/ j.pause,
         !.reconcile = unknown \/ j.reconcile]
SettleClaim(j, r) == IF Settleable(j, r) THEN Finalize(Settle(j, r)) ELSE j

(* The answer is not an error: settled now, or as this very request before. *)
AcceptedMutant(j, r) ==  \* any settled item will do
  Settleable(j, r) \/ j.items[r.item].status \in {"succeeded", "failed"}
Accepted(j, r) ==
  \/ Settleable(j, r)
  \/ /\ Settled(j, r.item) /\ j.items[r.item].receipt = Receipt(r)
     /\ j.items[r.item].status = (IF r.failed THEN "failed" ELSE "succeeded")

ClaimRequest == [kind |-> "claim"]
SettleRequest(i, token, failed, effect) ==
  [kind |-> "settle", item |-> i, token |-> token, failed |-> failed, effect |-> effect]

-----------------------------------------------------------------------------
(* The batch worker of the pane. *)

At(pc) == [worker EXCEPT !.pc = pc]
Without(pc) == [pc |-> pc, item |-> 0, token |-> 0, effect |-> "none"]
Record(i) == SettleRequest(i, outbox[i].token, FALSE, outbox[i].effect)
Failure == SettleRequest(worker.item, worker.token, TRUE, worker.effect)
Pending == {i \in Items : outbox[i] # NoRecord}

(* TryRunRevitBatchWorkerOnceAsync: a pending completion is flushed first, *)
(* in the order of the file names.                                         *)
Tick ==
  /\ worker.pc = "idle"
  /\ \/ \E i \in Pending : /\ \A k \in Pending : i <= k
                           /\ worker' = [At("flush") EXCEPT !.item = i]
     \/ Pending = {} /\ access = "match" /\ worker' = Without("claim")
  /\ UNCHANGED <<job, outbox, late, world, counters>>

(* Its loop goes straight on to the next claim, or ends. *)
Loop ==
  /\ worker.pc = "loop"
  /\ \/ access = "match" /\ worker' = Without("claim")
     \/ worker' = Without("idle")
  /\ UNCHANGED <<job, outbox, late, world, counters>>

ClaimNext ==
  LET j == Reconcile(job)
  IN
  /\ worker.pc = "claim"
  /\ \/ /\ CanClaim(j)
        /\ \E i \in Items :
             /\ NextItem(j, i)
             /\ job' = Claim(j, i)
             /\ worker' = [worker EXCEPT !.pc = "claimed", !.item = i,
                                         !.token = j.items[i].attempts + 1]
     \/ /\ ~(CanClaim(j) /\ With(j, "pending"))
        /\ job' = NothingToClaim(j) /\ worker' = Without("idle")
  /\ UNCHANGED <<outbox, late, world, counters>>

(* ProcessClaimedRevitBatchItemAsync: only delegated items in the bound    *)
(* document are run; anything else fails without an effect.                *)
Begin ==
  /\ worker.pc = "claimed"
  /\ worker' = IF job.kind = "delegated" /\ access = "match" THEN At("run")
               ELSE [At("report") EXCEPT !.effect = "none"]
  /\ UNCHANGED <<job, outbox, late, world, counters>>

(* ExecuteDelegatedRevitBatchItemAsync, up to its first changing action. *)
Dispatch ==
  /\ worker.pc = "run" /\ access = "match"
  /\ dispatches' = [dispatches EXCEPT ![worker.item] = @ + 1]
  /\ worker' = At("touched")
  /\ UNCHANGED <<job, outbox, late, access, returned, counters>>

(* Its outcome: SummarizeDelegatedBatchEffectState, or unknown for an      *)
(* exception after the delegation started.                                 *)
Finish(ok, effect) ==
  /\ \/ worker.pc = "run" /\ (effect = "none" \/ ~ok)
     \/ worker.pc = "touched" /\ effect # "none"
  /\ worker' = [At(IF ok THEN "save" ELSE "report") EXCEPT !.effect = effect]
  /\ returned' = IF ok THEN [returned EXCEPT ![worker.item] = @ \cup {worker.token}] ELSE returned
  /\ UNCHANGED <<job, outbox, late, access, dispatches, counters>>

(* A refused failure report throws, which ends the loop. *)
FailItem ==
  LET j == Reconcile(job)
  IN
  /\ worker.pc = "report"
  /\ job' = SettleClaim(j, Failure)
  /\ worker' = Without(IF Accepted(j, Failure) THEN "loop" ELSE "idle")
  /\ UNCHANGED <<outbox, late, world, counters>>

SaveCompletion ==
  /\ worker.pc = "save"
  /\ \/ /\ outbox' = [outbox EXCEPT ![worker.item] = [token |-> worker.token,
                                                      effect |-> worker.effect]]
        /\ worker' = At("post") /\ UNCHANGED losses
     \/ /\ losses < MaxLosses /\ losses' = losses + 1
        /\ worker' = Without("loop") /\ UNCHANGED outbox
  /\ UNCHANGED <<job, late, world, upsets, controls>>

(* PostAndValidateRevitBatchCompletionAsync, then Acknowledge. *)
AfterPost == IF worker.pc = "post" THEN "loop" ELSE "idle"
CompleteItem ==
  LET j == Reconcile(job)
      r == Record(worker.item)
  IN
  /\ worker.pc \in {"post", "flush"}
  /\ job' = SettleClaim(j, r)
  /\ outbox' = IF Accepted(j, r) THEN [outbox EXCEPT ![worker.item] = NoRecord] ELSE outbox
  /\ worker' = Without(AfterPost)
  /\ UNCHANGED <<late, world, counters>>

(* The call fails or times out at the worker; the request is under way. *)
GiveUp ==
  /\ losses < MaxLosses /\ losses' = losses + 1
  /\ \/ worker.pc = "claim" /\ late' = late \cup {ClaimRequest} /\ worker' = Without("idle")
     \/ worker.pc = "report" /\ late' = late \cup {Failure} /\ worker' = Without("idle")
     \/ /\ worker.pc \in {"post", "flush"}
        /\ late' = late \cup {Record(worker.item)} /\ worker' = Without(AfterPost)
  /\ UNCHANGED <<job, outbox, world, upsets, controls>>

-----------------------------------------------------------------------------
(* A request is served after its caller has gone, perhaps by a backend     *)
(* that dies between two writes.                                           *)

ServeLate(r) ==
  LET j == Reconcile(job)
  IN
  /\ r \in late /\ late' = late \ {r}
  /\ \/ /\ r.kind = "settle" /\ job' = SettleClaim(j, r)
     \/ /\ r.kind = "claim" /\ CanClaim(j)
        /\ \E i \in Items : NextItem(j, i) /\ job' = Claim(j, i)
     \/ /\ r.kind = "claim" /\ ~(CanClaim(j) /\ With(j, "pending"))
        /\ job' = NothingToClaim(j)
  /\ UNCHANGED <<worker, outbox, world, counters>>

Partial(r) ==
  {Expire(job), Reconcile(job)} \cup
  (IF r.kind = "settle" /\ Settleable(Reconcile(job), r)
   THEN {Settle(Reconcile(job), r)} ELSE {})
DieServing(r) ==
  /\ r \in late /\ late' = late \ {r}
  /\ upsets < MaxUpsets /\ upsets' = upsets + 1
  /\ job' \in Partial(r)
  /\ UNCHANGED <<worker, outbox, world, losses, controls>>

-----------------------------------------------------------------------------
(* The user's controls (mutateJob) and reads. *)

Control(j) ==
  /\ access = "match" /\ job' = j
  /\ UNCHANGED <<worker, outbox, late, world, losses, upsets>>
Again == controls < MaxControls /\ controls' = controls + 1

Approve ==
  LET j == Reconcile(job)
  IN  /\ j.status = "awaiting_approval" /\ With(j, "pending")
      /\ Control([j EXCEPT !.status = "queued", !.approved = TRUE]) /\ UNCHANGED controls

Pause ==
  LET j == Reconcile(job)
  IN  /\ \/ j.status = "queued" /\ Control([j EXCEPT !.status = "paused"])
         \/ j.status = "running" /\ Control([j EXCEPT !.status = "pausing", !.pause = TRUE])
      /\ Again

Resume ==
  LET j == Reconcile(job)
  IN  /\ j.status = "paused" /\ ~NeedsReconciliation(j)
      /\ Control([j EXCEPT !.status = "queued", !.pause = FALSE]) /\ UNCHANGED controls

Cancelling(j) == [j EXCEPT !.status = "cancelling", !.cancel = TRUE]
Cancel ==
  LET j == Reconcile(job)
  IN  /\ j.status \notin Terminal
      /\ Control(Finalize(Cancelling(j))) /\ UNCHANGED controls

RetrySafe(it) == it.status = "failed" /\ ~it.reconcile /\ it.retryable
Retried(j) ==
  [j EXCEPT !.status = IF j.approved THEN "queued" ELSE "awaiting_approval",
            !.cancel = FALSE, !.pause = FALSE,
            !.items = [i \in Items |-> IF RetrySafe(j.items[i])
                                       THEN [j.items[i] EXCEPT !.status = "pending", !.claim = NoClaim]
                                       ELSE j.items[i]]]
RetryFailed ==
  LET j == Reconcile(job)
  IN  /\ ~NeedsReconciliation(j) /\ \E i \in Items : RetrySafe(j.items[i])
      /\ Control(Retried(j)) /\ Again

(* The backend dies while it cancels, or a control is refused: the writes  *)
(* before that stand.                                                      *)
ControlStops ==
  \/ /\ Reconcile(job) # job /\ Control(Reconcile(job)) /\ UNCHANGED controls
  \/ /\ Reconcile(job).status \notin Terminal
     /\ Control(Cancelling(Reconcile(job))) /\ UNCHANGED controls

(* getRevitBatchJob, listRevitBatchJobs *)
Read ==
  /\ access = "match" /\ Reconcile(job) # job /\ job' = Reconcile(job)
  /\ UNCHANGED <<worker, outbox, late, world, counters>>

-----------------------------------------------------------------------------
(* The rest of the world. *)

LeaseEnds(i) ==
  /\ job.items[i].status = "running" /\ ~job.items[i].claim.lapsed
  /\ job' = [job EXCEPT !.items[i].claim.lapsed = TRUE]
  /\ UNCHANGED <<worker, outbox, late, world, counters>>

(* Another document becomes the active one, or the bound one again. *)
SwitchDocument ==
  /\ \/ access = "match" /\ access' = "other" /\ upsets < MaxUpsets /\ upsets' = upsets + 1
     \/ access = "other" /\ access' = "match" /\ UNCHANGED upsets
  /\ UNCHANGED <<job, worker, outbox, late, dispatches, returned, losses, controls>>

(* Revit ends.  The next process has another executor id: it flushes the   *)
(* outbox with the saved binding and cannot reach the job otherwise.       *)
RevitEnds ==
  /\ upsets < MaxUpsets /\ upsets' = upsets + 1
  /\ access' = "gone" /\ worker' = Without("idle")
  /\ UNCHANGED <<job, outbox, late, dispatches, returned, losses, controls>>

-----------------------------------------------------------------------------
Init ==
  /\ \E k \in Kinds, first \in {"pending", "failed", "succeeded"}, approved \in BOOLEAN :
       job = [kind |-> k, status |-> IF approved THEN "queued" ELSE "awaiting_approval",
              approved |-> approved, cancel |-> FALSE, pause |-> FALSE, reconcile |-> FALSE,
              items |-> [i \in Items |-> NewItem(IF i = 1 THEN first ELSE "pending")]]
  /\ With(job, "pending")
  /\ worker = Without("idle")
  /\ outbox = [i \in Items |-> NoRecord] /\ late = {}
  /\ access = "match"
  /\ dispatches = [i \in Items |-> 0] /\ returned = [i \in Items |-> {}]
  /\ losses = 0 /\ upsets = 0 /\ controls = 0

WorkerStep ==
  \/ Tick \/ Loop \/ ClaimNext \/ Begin
  \/ \E ok \in BOOLEAN, effect \in Effects : Finish(ok, effect)
  \/ FailItem \/ SaveCompletion \/ CompleteItem

Next ==
  \/ WorkerStep \/ Dispatch \/ GiveUp
  \/ \E r \in late : ServeLate(r) \/ DieServing(r)
  \/ Approve \/ Pause \/ Resume \/ Cancel \/ RetryFailed \/ ControlStops \/ Read
  \/ \E i \in Items : LeaseEnds(i)
  \/ SwitchDocument \/ RevitEnds

Spec == Init /\ [][Next]_vars

(* The pane's timer keeps the worker going, a delegated item ends after    *)
(* its rounds, and time passes.                                            *)
Fairness == WF_vars(WorkerStep) /\ \A i \in Items : WF_vars(LeaseEnds(i))
FairSpec == Spec /\ Fairness

-----------------------------------------------------------------------------
(* Properties. *)

(* The type of every variable. *)
TypeOK ==
  /\ job \in Job
  /\ worker \in [pc : {"idle", "loop", "claim", "claimed", "run", "touched", "report",
                       "save", "post", "flush"},
                 item : Items \cup {0}, token : Nat, effect : Effects]
  /\ outbox \in [Items -> Records \cup {NoRecord}]
  /\ late \subseteq {ClaimRequest} \cup [kind : {"settle"}, item : Items, token : Nat,
                                         failed : BOOLEAN, effect : Effects]
  /\ access \in {"match", "other", "gone"}
  /\ dispatches \in [Items -> Nat] /\ returned \in [Items -> SUBSET Nat]
  /\ losses \in 0..MaxLosses /\ upsets \in 0..MaxUpsets /\ controls \in 0..MaxControls

(* Whatever is lost, late or repeated, an item changes the model at most   *)
(* once: an expired or uncertain run is never repeated.                    *)
ChangesOnce == \A i \in Items : dispatches[i] <= 1

(* The record is right about Revit: an item that is pending, skipped or    *)
(* offered to retry has changed nothing, and a succeeded one that was ever *)
(* claimed was returned as a success under the claim its receipt names.    *)
RecordTruth ==
  \A i \in Items :
    LET it == job.items[i]
    IN  /\ it.status \in {"pending", "skipped"} \/ RetrySafe(it) => dispatches[i] = 0
        /\ it.status = "succeeded" /\ it.attempts > 0 =>
             it.receipt # NoReceipt /\ it.receipt.token \in returned[i]

(* A finished job has no item that waits or runs. *)
FinishedIsQuiet == job.status \in Terminal => ~Active(job)

(* A pause or a cancellation stands until the user withdraws it: whatever  *)
(* the worker, late requests and expired leases do, no further item is     *)
(* handed out.                                                             *)
Stopped(j) == j.status \in Terminal \cup {"pausing", "paused", "cancelling"}
ControlStands ==
  [][Stopped(job) /\ ~Resume /\ ~RetryFailed =>
       /\ Stopped(job')
       /\ \A i \in Items : job'.items[i].attempts = job.items[i].attempts]_vars

(* A saved completion is dropped only when the job has recorded it. *)
CompletionKept ==
  [][\A i \in Items : outbox[i] # NoRecord /\ outbox'[i] = NoRecord =>
       /\ job'.items[i].status = "succeeded"
       /\ job'.items[i].receipt.token = outbox[i].token]_vars

(* While the bound document stays open, whatever has been handed out is    *)
(* settled, by its report or by its lease, and the job comes to rest.      *)
ClaimSettles == With(job, "running") ~> ~With(job, "running") \/ access # "match"

(* OperatorPaneControl.cs: "The durable outbox is reconciled before this   *)
(* worker claims another item or after a Revit restart."  A saved          *)
(* completion leaves the outbox in the end.                                *)
BatchOutboxDrains == \A i \in Items : outbox[i] # NoRecord ~> outbox[i] = NoRecord
=============================================================================
