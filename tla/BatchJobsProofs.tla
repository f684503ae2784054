--------------------------- MODULE BatchJobsProofs ---------------------------
(***************************************************************************)
(* Proofs about BatchJobs, for any number of items, claims, lost requests, *)
(* upsets and controls.                                                    *)
(*                                                                         *)
(* ChangesOnce and RecordTruth are not inductive.  What makes them so is   *)
(* the fencing token: a worker that holds a delegated item has the last    *)
(* token that was given out for it (HoldInv), a request that is under way  *)
(* or saved is about an earlier or the same claim (LateInv, OutboxInv),    *)
(* and an item that may have changed the model can neither wait nor be     *)
(* retried (ItemInv).                                                      *)
(***************************************************************************)
EXTENDS BatchJobs, TLAPS

Worker == [pc : {"idle", "loop", "claim", "claimed", "run", "touched", "report",
                 "save", "post", "flush"},
           item : Items \cup {0}, token : Nat, effect : Effects]
Settlement == [kind : {"settle"}, item : Items, token : Nat,
               failed : BOOLEAN, effect : Effects]
Requests == {ClaimRequest} \cup Settlement
Outboxes == [Items -> Records \cup {NoRecord}]
Counts == [Items -> Nat]
Tokens == [Items -> SUBSET Nat]

Holding == {"claimed", "run", "touched", "report", "save"}

-----------------------------------------------------------------------------
(* The inductive invariant, as operators of a job j, a worker w, late      *)
(* requests l, an outbox b, counts d of changing runs and tokens t of      *)
(* successful runs.                                                        *)

ItemOK(kind, it, d, t) ==
  /\ it.status = "running" => it.claim # NoClaim /\ it.claim.token = it.attempts
  /\ it.reconcile => it.status = "failed"
  /\ d <= 1
  /\ d > 0 => /\ kind = "delegated"
              /\ it.status \in {"running", "succeeded", "failed"}
              /\ ~RetrySafe(it)
  /\ it.status = "succeeded" /\ it.attempts > 0 =>
       it.receipt # NoReceipt /\ it.receipt.token \in t

ItemInv(j, d, t) == \A i \in Items : ItemOK(j.kind, j.items[i], d[i], t[i])

(* What a settlement request may claim about the run it is about. *)
Legit(j, r, d, t) ==
  /\ r.token <= j.items[r.item].attempts
  /\ ~r.failed => r.token \in t[r.item]
  /\ r.failed /\ r.effect = "none" =>
       d[r.item] = 0 \/ r.token < j.items[r.item].attempts

LateInv(j, l, d, t) == \A r \in l : r.kind = "settle" => Legit(j, r, d, t)

OutboxInv(j, b, t) ==
  \A i \in Items : b[i] # NoRecord => b[i].token \in t[i] /\ b[i].token <= j.items[i].attempts

HoldInv(j, w, l, d, t) ==
  w.pc \in Holding =>
    /\ w.item \in Items
    /\ w.token <= j.items[w.item].attempts
    /\ j.kind = "delegated" =>
         /\ w.token = j.items[w.item].attempts
         /\ \/ j.items[w.item].status = "running"
            \/ j.items[w.item].status = "failed" /\ j.items[w.item].reconcile
         /\ \A r \in l : r.kind = "settle" => r.item # w.item \/ r.token # w.token
    /\ w.pc \in {"claimed", "run"} \/ (w.pc = "report" /\ w.effect = "none") => d[w.item] = 0
    /\ w.pc \in {"run", "touched", "save"} => j.kind = "delegated"
    /\ w.pc = "save" => w.token \in t[w.item]

(* The worker holds no delegated item under the claim that r is about. *)
NotHeld(j, w, r) ==
  w.pc \in Holding /\ j.kind = "delegated" => w.item # r.item \/ w.token # r.token

PostInv(w, b) == w.pc \in {"post", "flush"} => w.item \in Items /\ b[w.item] # NoRecord

BatchInv ==
  /\ TypeOK
  /\ ItemInv(job, dispatches, returned)
  /\ LateInv(job, late, dispatches, returned)
  /\ OutboxInv(job, outbox, returned)
  /\ HoldInv(job, worker, late, dispatches, returned)
  /\ PostInv(worker, outbox)

-----------------------------------------------------------------------------
(* Transformations of a job that neither hand out nor settle an item. *)

Evolves(kind, it, new) ==
  /\ new.attempts = it.attempts /\ new.receipt = it.receipt
  /\ \/ new = it
     \/ /\ it.status = "pending" /\ new.status = "skipped" /\ new.reconcile = it.reconcile
     \/ /\ RetrySafe(it) /\ new.status = "pending" /\ ~new.reconcile
     \/ /\ it.status = "running" /\ new.status = "running" /\ new.reconcile = it.reconcile
        /\ new.claim # NoClaim /\ new.claim.token = it.claim.token
     \/ /\ it.status = "running" /\ kind = "capture" /\ new.status \in {"pending", "failed"}
        /\ ~new.reconcile \/ new.reconcile = it.reconcile
     \/ /\ it.status = "running" /\ kind # "capture" /\ new.status = "failed" /\ new.reconcile

Evolution(j, k) ==
  /\ k \in Job /\ k.kind = j.kind
  /\ \A i \in Items : Evolves(j.kind, j.items[i], k.items[i])

(* finalizeJobIfComplete skips what waits under a cancellation and touches *)
(* no other item.                                                          *)
LEMMA FinalizeEvolves ==
  ASSUME NEW j \in Job
  PROVE  Evolution(j, Finalize(j))
<1>1. FinalStatus(j) \in Statuses
  BY DEF FinalStatus, Statuses, Terminal
<1>2. Skip(j) \in [Items -> Item]
  BY DEF Skip, Job, Item
<1>3. Finalize(j) \in Job /\ Finalize(j).kind = j.kind
  BY <1>1, <1>2 DEF Finalize, Job, Statuses, Terminal
<1>4. Finalize(j).items \in {j.items, Skip(j)}
  BY DEF Finalize, Job
<1>5. ASSUME NEW i \in Items
      PROVE  Evolves(j.kind, j.items[i], Finalize(j).items[i])
  BY <1>4 DEF Skip, Evolves, Job, Item
<1> QED
  BY <1>3, <1>5 DEF Evolution

(* reconcileExpiredClaims gives a read-only item back and fails any other  *)
(* one as unknown.                                                         *)
LEMMA ExpireEvolves ==
  ASSUME NEW j \in Job
  PROVE  Evolution(j, Expire(j))
<1> DEFINE its == [i \in Items |-> AfterLapse(j, i)]
<1>0. ASSUME NEW i \in Items
      PROVE  AfterLapse(j, i) \in Item /\ Evolves(j.kind, j.items[i], AfterLapse(j, i))
  <2> DEFINE it == j.items[i]
             lost == (j.kind # "capture")
             back == [it EXCEPT !.status = "pending", !.claim = NoClaim]
             fails == [it EXCEPT !.status = "failed", !.claim = NoClaim, !.retryable = FALSE,
                                 !.reconcile = lost]
  <2>1. it \in Item /\ lost \in BOOLEAN
    BY DEF Job
  <2>2. CASE ~Lapsed(j, i)
    BY <2>1, <2>2 DEF AfterLapse, Evolves
  <2>3. CASE Lapsed(j, i) /\ Replayable(j, i)
    <3>1. AfterLapse(j, i) = back
      BY <2>3 DEF AfterLapse
    <3> QED
      BY <2>1, <2>3, <3>1 DEF Evolves, Lapsed, Replayable, Item
  <2>4. CASE Lapsed(j, i) /\ ~Replayable(j, i)
    <3>1. AfterLapse(j, i) = fails
      BY <2>4 DEF AfterLapse
    <3>2. fails \in Item
      BY <2>1 DEF Item
    <3>3. /\ fails.attempts = it.attempts /\ fails.receipt = it.receipt
          /\ fails.status = "failed" /\ fails.reconcile = lost /\ it.status = "running"
      BY <2>1, <2>4 DEF Item, Lapsed
    <3> QED
      BY <3>1, <3>2, <3>3 DEF Evolves
  <2> QED
    BY <2>2, <2>3, <2>4
<1>1. \A i \in Items : AfterLapse(j, i) \in Item
  BY <1>0
<1>2. /\ Expire(j).items = its /\ Expire(j).kind = j.kind
      /\ Expire(j).status \in Statuses
      /\ Expire(j).pause \in BOOLEAN /\ Expire(j).reconcile \in BOOLEAN
  BY DEF Expire, Job, Statuses, Terminal, Claimable, SomeUnknown, SomeLapsed, Active, With
<1>3. Expire(j) \in Job
  BY <1>1, <1>2 DEF Expire, Job
<1> QED
  BY <1>0, <1>2, <1>3 DEF Evolution

(* An evolution keeps what the invariant says of items, requests, saved    *)
(* completions and the worker's hold.                                      *)
LEMMA EvolutionKeepsItems ==
  ASSUME NEW j \in Job, NEW k, Evolution(j, k),
         NEW d \in Counts, NEW t \in Tokens, ItemInv(j, d, t)
  PROVE  ItemInv(k, d, t)
<1> SUFFICES ASSUME NEW i \in Items
             PROVE  ItemOK(k.kind, k.items[i], d[i], t[i])
  BY DEF ItemInv
<1>1. Evolves(j.kind, j.items[i], k.items[i]) /\ k.kind = j.kind
  BY DEF Evolution
<1>2. ItemOK(j.kind, j.items[i], d[i], t[i])
  BY DEF ItemInv
<1>3. j.items[i] \in Item /\ k.items[i] \in Item /\ d[i] \in Nat
  BY DEF Evolution, Job, Counts
<1> QED
  BY <1>1, <1>2, <1>3 DEF Evolves, ItemOK, RetrySafe, Item

LEMMA SameAttemptsKeepLate ==
  ASSUME NEW j \in Job, NEW k \in Job, \A i \in Items : k.items[i].attempts >= j.items[i].attempts,
         NEW l \in SUBSET Requests, NEW b \in Outboxes, NEW d \in Counts, NEW t \in Tokens
  PROVE  /\ LateInv(j, l, d, t) => LateInv(k, l, d, t)
         /\ OutboxInv(j, b, t) => OutboxInv(k, b, t)
<1>1. \A i \in Items : j.items[i].attempts \in Nat /\ k.items[i].attempts \in Nat
  BY DEF Job, Item
<1>2. ASSUME LateInv(j, l, d, t), NEW r \in l, r.kind = "settle" PROVE Legit(k, r, d, t)
  <2>1. r \in Settlement
    BY <1>2 DEF Requests, ClaimRequest
  <2> QED
    BY <1>1, <1>2, <2>1 DEF LateInv, Legit, Settlement
<1>3. ASSUME OutboxInv(j, b, t), NEW i \in Items, b[i] # NoRecord
      PROVE  b[i].token \in t[i] /\ b[i].token <= k.items[i].attempts
  BY <1>1, <1>3 DEF OutboxInv, Outboxes, Records
<1> QED
  BY <1>2, <1>3 DEF LateInv, OutboxInv

LEMMA EvolutionKeepsHold ==
  ASSUME NEW j \in Job, NEW k, Evolution(j, k), NEW w, NEW l, NEW d, NEW t,
         HoldInv(j, w, l, d, t)
  PROVE  HoldInv(k, w, l, d, t)
<1>1. CASE w.pc \notin Holding
  BY <1>1 DEF HoldInv
<1>2. CASE w.pc \in Holding
  <2>1. w.item \in Items
    BY <1>2 DEF HoldInv
  <2>2. Evolves(j.kind, j.items[w.item], k.items[w.item]) /\ k.kind = j.kind
    BY <2>1 DEF Evolution
  <2> QED
    BY <1>2, <2>1, <2>2 DEF HoldInv, Evolves, RetrySafe
<1> QED
  BY <1>1, <1>2

-----------------------------------------------------------------------------
(* The handlers, one by one. *)

JobInv(j, l, b, d, t) ==
  j \in Job /\ ItemInv(j, d, t) /\ LateInv(j, l, d, t) /\ OutboxInv(j, b, t)

LEMMA EvolutionKeeps ==
  ASSUME NEW j, NEW k, NEW l \in SUBSET Requests, NEW b \in Outboxes, NEW d \in Counts,
         NEW t \in Tokens, JobInv(j, l, b, d, t), Evolution(j, k)
  PROVE  /\ JobInv(k, l, b, d, t)
         /\ \A w : HoldInv(j, w, l, d, t) => HoldInv(k, w, l, d, t)
<1>1. j \in Job /\ k \in Job
  BY DEF JobInv, Evolution
<1>2. \A i \in Items : k.items[i].attempts >= j.items[i].attempts
  BY <1>1 DEF Evolution, Evolves, Job, Item
<1>3. ItemInv(k, d, t)
  BY <1>1, EvolutionKeepsItems DEF JobInv
<1>4. LateInv(k, l, d, t) /\ OutboxInv(k, b, t)
  BY <1>1, <1>2, SameAttemptsKeepLate DEF JobInv
<1>5. \A w : HoldInv(j, w, l, d, t) => HoldInv(k, w, l, d, t)
  BY <1>1, EvolutionKeepsHold
<1> QED
  BY <1>1, <1>3, <1>4, <1>5 DEF JobInv

LEMMA FinalizeKeeps ==
  ASSUME NEW j, NEW l \in SUBSET Requests, NEW b \in Outboxes, NEW d \in Counts,
         NEW t \in Tokens, JobInv(j, l, b, d, t)
  PROVE  /\ JobInv(Finalize(j), l, b, d, t)
         /\ \A w : HoldInv(j, w, l, d, t) => HoldInv(Finalize(j), w, l, d, t)
<1>1. Evolution(j, Finalize(j))
  BY FinalizeEvolves DEF JobInv
<1> QED
  BY <1>1, EvolutionKeeps

LEMMA ReconcileKeeps ==
  ASSUME NEW j, NEW l \in SUBSET Requests, NEW b \in Outboxes, NEW d \in Counts,
         NEW t \in Tokens, JobInv(j, l, b, d, t)
  PROVE  /\ JobInv(Expire(j), l, b, d, t) /\ JobInv(Reconcile(j), l, b, d, t)
         /\ \A w : HoldInv(j, w, l, d, t) =>
              HoldInv(Expire(j), w, l, d, t) /\ HoldInv(Reconcile(j), w, l, d, t)
<1>1. Evolution(j, Expire(j))
  BY ExpireEvolves DEF JobInv
<1>2. /\ JobInv(Expire(j), l, b, d, t)
      /\ \A w : HoldInv(j, w, l, d, t) => HoldInv(Expire(j), w, l, d, t)
  BY <1>1, EvolutionKeeps
<1>3. /\ JobInv(Finalize(Expire(j)), l, b, d, t)
      /\ \A w : HoldInv(Expire(j), w, l, d, t) => HoldInv(Finalize(Expire(j)), w, l, d, t)
  BY <1>2, FinalizeKeeps
<1>4. Reconcile(j) \in {j, Expire(j), Finalize(Expire(j))}
  BY DEF Reconcile
<1> QED
  BY <1>2, <1>3, <1>4

(* claimNextRevitBatchItem: the token that is given out is new, so nothing *)
(* under way or saved is about this claim.                                 *)
LEMMA ClaimKeeps ==
  ASSUME NEW j, NEW l \in SUBSET Requests, NEW b \in Outboxes, NEW d \in Counts,
         NEW t \in Tokens, JobInv(j, l, b, d, t),
         NEW i \in Items, j.items[i].status = "pending"
  PROVE  /\ JobInv(Claim(j, i), l, b, d, t)
         /\ \A w \in Worker : HoldInv(j, w, l, d, t) => HoldInv(Claim(j, i), w, l, d, t)
         /\ \A w \in Worker :
              w.pc = "claimed" /\ w.item = i /\ w.token = j.items[i].attempts + 1
                => HoldInv(Claim(j, i), w, l, d, t)
<1> DEFINE k == Claim(j, i)
           new == j.items[i].attempts + 1
           c == [token |-> new, lapsed |-> FALSE]
           it == ClaimedItem(j.items[i])
<1>1. j \in Job /\ j.items \in [Items -> Item] /\ j.items[i] \in Item
      /\ j.items[i].attempts \in Nat /\ new \in Nat
  BY DEF JobInv, Job, Item
<1>2. /\ it \in Item /\ it.status = "running" /\ it.attempts = new
      /\ it.claim # NoClaim /\ it.claim.token = new /\ it.reconcile = j.items[i].reconcile
  <2> HIDE DEF new
  <2>1. c \in Claims /\ c.token = new
    BY <1>1 DEF Claims
  <2>2. c # NoClaim
    BY <2>1, BatchConstants
  <2>3. it = [j.items[i] EXCEPT !.status = "running", !.attempts = new, !.claim = c]
    BY DEF ClaimedItem, new
  <2> HIDE DEF c, it
  <2> QED
    BY <1>1, <2>1, <2>2, <2>3 DEF Item
<1>3. k.kind = j.kind /\ k.items = [j.items EXCEPT ![i] = it] /\ k \in Job
  <2>1. k = [j EXCEPT !.status = "running", !.items = [j.items EXCEPT ![i] = it]]
    BY <1>1 DEF Claim, Job
  <2> HIDE DEF it, k
  <2> QED
    BY <1>1, <1>2, <2>1 DEF Job, Statuses, Claimable
<1> HIDE DEF it, k
<1>4. /\ k.items[i] = it
      /\ \A n \in Items : n # i => k.items[n] = j.items[n]
  BY <1>1, <1>3
<1>5. \A n \in Items : k.items[n].attempts >= j.items[n].attempts
  BY <1>1, <1>2, <1>4 DEF Item
<1>6. LateInv(k, l, d, t) /\ OutboxInv(k, b, t)
  BY <1>1, <1>3, <1>5, SameAttemptsKeepLate DEF JobInv
<1>7. d[i] = 0
  BY DEF JobInv, ItemInv, ItemOK, Counts
<1>8. ItemInv(k, d, t)
  <2> SUFFICES ASSUME NEW n \in Items PROVE ItemOK(k.kind, k.items[n], d[n], t[n])
    BY DEF ItemInv
  <2>1. ItemOK(j.kind, j.items[n], d[n], t[n])
    BY DEF JobInv, ItemInv
  <2>2. CASE n = i
    BY <1>2, <1>3, <1>4, <1>7, <2>1, <2>2 DEF ItemOK
  <2>3. CASE n # i
    BY <1>3, <1>4, <2>1, <2>3
  <2> QED
    BY <2>2, <2>3
<1>9. ASSUME NEW w \in Worker, HoldInv(j, w, l, d, t)
      PROVE  HoldInv(k, w, l, d, t)
  <2>1. CASE w.pc \notin Holding
    BY <2>1 DEF HoldInv
  <2>2. CASE w.pc \in Holding
    <3>1. w.item \in Items /\ w.token \in Nat
      BY <1>9, <2>2 DEF HoldInv, Worker
    <3>2. j.kind = "delegated" => w.item # i
      BY <1>9, <2>2 DEF HoldInv
    <3>3. w.token <= k.items[w.item].attempts
      BY <1>1, <1>5, <1>9, <2>2, <3>1, <1>3 DEF HoldInv, Item, Job
    <3> QED
      BY <1>3, <1>4, <1>9, <2>2, <3>1, <3>2, <3>3 DEF HoldInv
  <2> QED
    BY <2>1, <2>2
<1>10. ASSUME NEW w \in Worker, w.pc = "claimed", w.item = i,
              w.token = j.items[i].attempts + 1
       PROVE  HoldInv(k, w, l, d, t)
  <2>1. ASSUME NEW r \in l, r.kind = "settle"
        PROVE  r.item # i \/ r.token # w.token
    <3>1. r \in Settlement /\ r.token <= j.items[r.item].attempts
      BY <2>1 DEF JobInv, LateInv, Legit, Requests, ClaimRequest
    <3> QED
      BY <1>1, <1>10, <3>1 DEF Settlement
  <2> QED
    BY <1>1, <1>2, <1>3, <1>4, <1>7, <1>10, <2>1 DEF HoldInv
<1> QED
  BY <1>3, <1>6, <1>8, <1>9, <1>10 DEF JobInv, k

LEMMA SettledItemType ==
  ASSUME NEW j \in Job, NEW r \in Settlement
  PROVE  LET it == SettledItem(j.items[r.item], r)
         IN  /\ it \in Item
             /\ it.attempts = j.items[r.item].attempts
             /\ it.receipt = Receipt(r) /\ it.receipt.token = r.token /\ it.receipt # NoReceipt
             /\ r.failed => it.status = "failed" /\ (it.reconcile <=> r.effect # "none")
             /\ ~r.failed => it.status = "succeeded" /\ it.reconcile = j.items[r.item].reconcile
<1>1. j.items[r.item] \in Item /\ r.token \in Nat /\ r.failed \in BOOLEAN /\ r.effect \in Effects
  BY DEF Job, Settlement
<1>2. Receipt(r) \in Receipts /\ Receipt(r).token = r.token
  BY <1>1 DEF Receipt, Receipts
<1>3. Receipt(r) # NoReceipt
  BY <1>2, BatchConstants
<1>4. CASE r.failed
  BY <1>1, <1>2, <1>3, <1>4 DEF SettledItem, Item
<1>5. CASE ~r.failed
  BY <1>1, <1>2, <1>3, <1>5 DEF SettledItem, Item
<1> QED
  BY <1>4, <1>5

LEMMA SettleType ==
  ASSUME NEW j \in Job, NEW r \in Settlement
  PROVE  /\ Settle(j, r) \in Job /\ Settle(j, r).kind = j.kind
         /\ Settle(j, r).items = [j.items EXCEPT ![r.item] = SettledItem(j.items[r.item], r)]
<1> DEFINE k == Settle(j, r)
           it == SettledItem(j.items[r.item], r)
<1>1. it \in Item
  BY SettledItemType
<1>2. k.kind = j.kind /\ k.items = [j.items EXCEPT ![r.item] = it]
  BY DEF Settle, Job
<1>3. k.status \in Statuses /\ k.pause \in BOOLEAN /\ k.reconcile \in BOOLEAN
  BY DEF Settle, Job, Statuses, Claimable, Active, With
<1> QED
  BY <1>1, <1>2, <1>3 DEF Settle, Job

(* settleClaim: a settlement with the token of the running claim records   *)
(* what the run may have done.                                             *)
LEMMA SettleKeeps ==
  ASSUME NEW j, NEW l \in SUBSET Requests, NEW b \in Outboxes, NEW d \in Counts,
         NEW t \in Tokens, JobInv(j, l, b, d, t),
         NEW r \in Settlement, Legit(j, r, d, t), Settleable(j, r)
  PROVE  /\ JobInv(Settle(j, r), l, b, d, t)
         /\ \A w : HoldInv(j, w, l, d, t) /\ NotHeld(j, w, r) => HoldInv(Settle(j, r), w, l, d, t)
         /\ Settle(j, r).items = [j.items EXCEPT ![r.item] = SettledItem(j.items[r.item], r)]
<1> DEFINE k == Settle(j, r)
           i == r.item
           it == SettledItem(j.items[i], r)
<1>1. j \in Job /\ j.items \in [Items -> Item] /\ j.items[i] \in Item /\ i \in Items
      /\ r.token \in Nat /\ r.failed \in BOOLEAN /\ r.effect \in Effects
  BY DEF JobInv, Job, Settlement
<1>3. /\ it \in Item
      /\ it.attempts = j.items[i].attempts
      /\ it.receipt.token = r.token /\ it.receipt # NoReceipt
      /\ r.failed => it.status = "failed" /\ (it.reconcile <=> r.effect # "none")
      /\ ~r.failed => it.status = "succeeded" /\ it.reconcile = j.items[i].reconcile
  BY <1>1, SettledItemType
<1>4. k.kind = j.kind /\ k.items = [j.items EXCEPT ![i] = it]
  BY <1>1, SettleType
<1>5. k \in Job
  BY <1>1, SettleType
<1>6. /\ k.items[i] = it
      /\ \A n \in Items : n # i => k.items[n] = j.items[n]
  BY <1>1, <1>4
<1>7. \A n \in Items : k.items[n].attempts >= j.items[n].attempts
  BY <1>1, <1>3, <1>6 DEF Item
<1>8. LateInv(k, l, d, t) /\ OutboxInv(k, b, t)
  BY <1>1, <1>5, <1>7, SameAttemptsKeepLate DEF JobInv
<1>9. /\ j.items[i].status = "running" /\ r.token = j.items[i].attempts
      /\ ItemOK(j.kind, j.items[i], d[i], t[i])
  BY <1>1 DEF Settleable, JobInv, ItemInv, ItemOK
<1>10. ItemInv(k, d, t)
  <2> SUFFICES ASSUME NEW n \in Items PROVE ItemOK(k.kind, k.items[n], d[n], t[n])
    BY DEF ItemInv
  <2>1. CASE n # i
    BY <1>4, <1>6, <2>1 DEF JobInv, ItemInv
  <2>2. CASE n = i /\ ~r.failed
    <3>1. r.token \in t[i]
      BY <2>2 DEF Legit
    <3> QED
      BY <1>3, <1>4, <1>6, <1>9, <2>2, <3>1 DEF ItemOK, RetrySafe
  <2>3. CASE n = i /\ r.failed
    <3>1. r.effect = "none" => d[i] = 0
      BY <1>1, <1>9, <2>3 DEF Legit, Item
    <3>2. it.status = "failed" /\ (it.reconcile <=> r.effect # "none")
      BY <1>3, <2>3
    <3>3. d[i] > 0 => j.kind = "delegated" /\ ~RetrySafe(it)
      BY <1>9, <3>1, <3>2 DEF ItemOK, RetrySafe
    <3> QED
      BY <1>4, <1>6, <1>9, <2>3, <3>2, <3>3 DEF ItemOK
  <2> QED
    BY <2>1, <2>2, <2>3
<1>11. ASSUME NEW w, HoldInv(j, w, l, d, t), NotHeld(j, w, r)
       PROVE  HoldInv(k, w, l, d, t)
  <2>1. CASE w.pc \notin Holding
    BY <2>1 DEF HoldInv
  <2>2. CASE w.pc \in Holding
    <3>1. w.item \in Items
      BY <1>11, <2>2 DEF HoldInv
    <3>2. j.kind = "delegated" => w.item # i
      BY <1>9, <1>11, <2>2 DEF HoldInv, NotHeld
    <3>3. w.token <= k.items[w.item].attempts
      BY <1>3, <1>6, <1>11, <2>2, <3>1 DEF HoldInv
    <3> QED
      BY <1>4, <1>6, <1>11, <2>2, <3>1, <3>2, <3>3 DEF HoldInv
  <2> QED
    BY <2>1, <2>2
<1> QED
  BY <1>4, <1>5, <1>8, <1>10, <1>11 DEF JobInv

LEMMA SettleClaimKeeps ==
  ASSUME NEW j, NEW l \in SUBSET Requests, NEW b \in Outboxes, NEW d \in Counts,
         NEW t \in Tokens, JobInv(j, l, b, d, t),
         NEW r \in Settlement, Legit(j, r, d, t)
  PROVE  /\ JobInv(SettleClaim(j, r), l, b, d, t)
         /\ \A w : HoldInv(j, w, l, d, t) /\ NotHeld(j, w, r) => HoldInv(SettleClaim(j, r), w, l, d, t)
<1>1. CASE ~Settleable(j, r)
  BY <1>1 DEF SettleClaim
<1>2. CASE Settleable(j, r)
  <2>1. /\ JobInv(Settle(j, r), l, b, d, t)
        /\ \A w : HoldInv(j, w, l, d, t) /\ NotHeld(j, w, r) => HoldInv(Settle(j, r), w, l, d, t)
    BY <1>2, SettleKeeps
  <2>2. /\ JobInv(Finalize(Settle(j, r)), l, b, d, t)
        /\ \A w : HoldInv(Settle(j, r), w, l, d, t) => HoldInv(Finalize(Settle(j, r)), w, l, d, t)
    BY <2>1, FinalizeKeeps
  <2> QED
    BY <1>2, <2>1, <2>2 DEF SettleClaim
<1> QED
  BY <1>1, <1>2

-----------------------------------------------------------------------------
(* The invariant is inductive: one lemma for each kind of step. *)

Typed(w, l, b, d, t) ==
  w \in Worker /\ l \in SUBSET Requests /\ b \in Outboxes /\ d \in Counts /\ t \in Tokens
Bounded == /\ access \in {"match", "other", "gone"}
           /\ losses \in 0..MaxLosses /\ upsets \in 0..MaxUpsets /\ controls \in 0..MaxControls

LEMMA InvParts ==
  BatchInv <=> /\ Typed(worker, late, outbox, dispatches, returned) /\ Bounded
               /\ JobInv(job, late, outbox, dispatches, returned)
               /\ HoldInv(job, worker, late, dispatches, returned)
               /\ PostInv(worker, outbox)
BY DEF BatchInv, TypeOK, Typed, Bounded, JobInv, Worker, Requests, Settlement, Outboxes,
       Counts, Tokens

LEMMA InvPartsNext ==
  ASSUME Typed(worker', late', outbox', dispatches', returned'), Bounded',
         JobInv(job', late', outbox', dispatches', returned'),
         HoldInv(job', worker', late', dispatches', returned'), PostInv(worker', outbox')
  PROVE  BatchInv'
BY DEF BatchInv, TypeOK, Typed, Bounded, JobInv, Worker, Requests, Settlement, Outboxes,
       Counts, Tokens

(* Every handler first reconciles expired claims. *)
LEMMA AfterReconcile ==
  ASSUME BatchInv
  PROVE  /\ JobInv(Reconcile(job), late, outbox, dispatches, returned)
         /\ HoldInv(Reconcile(job), worker, late, dispatches, returned)
BY InvParts, ReconcileKeeps DEF Typed

LEMMA FreeWorker ==
  ASSUME NEW w \in {"idle", "loop", "claim"}
  PROVE  /\ Without(w) \in Worker /\ PostInv(Without(w), outbox')
         /\ \A j, l, d, t : HoldInv(j, Without(w), l, d, t)
BY DEF Without, Worker, Effects, PostInv, HoldInv, Holding

LEMMA FailureLegit ==
  ASSUME NEW j \in Job, NEW w \in Worker, NEW l, NEW d \in Counts, NEW t,
         HoldInv(j, w, l, d, t), w.pc = "report"
  PROVE  LET r == SettleRequest(w.item, w.token, TRUE, w.effect)
         IN  r \in Settlement /\ Legit(j, r, d, t)
BY DEF HoldInv, Holding, SettleRequest, Settlement, Legit, Worker

LEMMA RecordLegit ==
  ASSUME NEW j \in Job, NEW i \in Items, NEW b \in Outboxes, NEW d, NEW t,
         OutboxInv(j, b, t), b[i] # NoRecord
  PROVE  LET r == SettleRequest(i, b[i].token, FALSE, b[i].effect)
         IN  r \in Settlement /\ Legit(j, r, d, t)
BY DEF OutboxInv, Outboxes, Records, SettleRequest, Settlement, Legit

LEMMA FewerRequests ==
  ASSUME NEW j, NEW w, NEW l, NEW m \in SUBSET l, NEW b, NEW d, NEW t
  PROVE  /\ JobInv(j, l, b, d, t) => JobInv(j, m, b, d, t)
         /\ HoldInv(j, w, l, d, t) => HoldInv(j, w, m, d, t)
BY DEF JobInv, LateInv, HoldInv

LEMMA TickStep == ASSUME BatchInv, Tick \/ Loop PROVE BatchInv'
<1>1. UNCHANGED <<job, outbox, late, world, counters>>
  BY DEF Tick, Loop
<1>2. Bounded' /\ JobInv(job', late', outbox', dispatches', returned')
  BY <1>1, InvParts DEF Bounded, world, counters
<1>3. CASE \E pc \in {"idle", "claim"} : worker' = Without(pc)
  BY <1>1, <1>2, <1>3, FreeWorker, InvParts, InvPartsNext DEF Typed, world
<1>4. CASE \E i \in Pending : worker' = [At("flush") EXCEPT !.item = i]
  <2>1. PICK i \in Pending : worker' = [At("flush") EXCEPT !.item = i]
    BY <1>4
  <2>2. worker \in Worker
    BY InvParts DEF Typed
  <2>3. worker' \in Worker /\ worker'.pc = "flush" /\ worker'.item = i /\ i \in Items
        /\ outbox'[i] # NoRecord
    BY <1>1, <2>1, <2>2 DEF At, Worker, Pending
  <2>4. HoldInv(job', worker', late', dispatches', returned') /\ PostInv(worker', outbox')
    BY <2>3 DEF HoldInv, Holding, PostInv
  <2> QED
    BY <1>1, <1>2, <2>3, <2>4, InvParts, InvPartsNext DEF Typed, world
<1> QED
  BY <1>3, <1>4 DEF Tick, Loop

LEMMA ClaimStep == ASSUME BatchInv, ClaimNext PROVE BatchInv'
<1> DEFINE j == Reconcile(job)
<1>1. UNCHANGED <<outbox, late, world, counters>>
  BY DEF ClaimNext
<1>2. JobInv(j, late, outbox, dispatches, returned)
  BY AfterReconcile
<1>3. /\ worker \in Worker /\ Typed(worker, late', outbox', dispatches', returned') /\ Bounded'
      /\ JobInv(j, late', outbox', dispatches', returned')
  BY <1>1, <1>2, InvParts DEF Bounded, world, counters, Typed
<1>4. CASE \E i \in Items : /\ NextItem(j, i) /\ job' = Claim(j, i)
                            /\ worker' = [worker EXCEPT !.pc = "claimed", !.item = i,
                                                        !.token = j.items[i].attempts + 1]
  <2>1. PICK i \in Items : /\ NextItem(j, i) /\ job' = Claim(j, i)
                           /\ worker' = [worker EXCEPT !.pc = "claimed", !.item = i,
                                                       !.token = j.items[i].attempts + 1]
    BY <1>4
  <2>2. j.items[i].attempts \in Nat /\ j.items[i].status = "pending"
    BY <1>2, <2>1 DEF JobInv, Job, Item, NextItem
  <2>3. /\ worker' \in Worker
        /\ worker'.pc = "claimed" /\ worker'.item = i /\ worker'.token = j.items[i].attempts + 1
    <3> DEFINE n == j.items[i].attempts + 1
    <3>1. n \in Nat /\ worker' = [worker EXCEPT !.pc = "claimed", !.item = i, !.token = n]
      BY <2>1, <2>2
    <3> HIDE DEF n
    <3>2. worker' \in Worker /\ worker'.pc = "claimed" /\ worker'.item = i /\ worker'.token = n
      BY <1>3, <3>1 DEF Worker
    <3> QED
      BY <3>2 DEF n
  <2>4. /\ JobInv(job', late', outbox', dispatches', returned')
        /\ HoldInv(job', worker', late', dispatches', returned')
    BY <1>3, <2>1, <2>2, <2>3, ClaimKeeps DEF Typed
  <2>5. PostInv(worker', outbox')
    BY <2>3 DEF PostInv
  <2> QED
    BY <1>3, <2>3, <2>4, <2>5, InvPartsNext DEF Typed
<1>5. CASE job' = NothingToClaim(j) /\ worker' = Without("idle")
  <2>1. JobInv(job', late', outbox', dispatches', returned')
    BY <1>3, <1>5, FinalizeKeeps DEF NothingToClaim, Typed
  <2> QED
    BY <1>3, <1>5, <2>1, FreeWorker, InvPartsNext DEF Typed
<1> QED
  BY <1>4, <1>5 DEF ClaimNext

LEMMA BeginStep == ASSUME BatchInv, Begin PROVE BatchInv'
<1>1. UNCHANGED <<job, outbox, late, world, counters>> /\ worker.pc = "claimed" /\ worker \in Worker
      /\ HoldInv(job, worker, late, dispatches, returned)
  BY InvParts DEF Begin, Typed
<1>2. /\ worker' \in Worker /\ worker'.item = worker.item /\ worker'.token = worker.token
      /\ \/ worker'.pc = "run" /\ job.kind = "delegated"
         \/ worker'.pc = "report" /\ worker'.effect = "none"
  BY <1>1 DEF Begin, At, Worker, Effects
<1>3. HoldInv(job', worker', late', dispatches', returned') /\ PostInv(worker', outbox')
  BY <1>1, <1>2 DEF HoldInv, Holding, PostInv, world
<1> QED
  BY <1>1, <1>2, <1>3, InvParts, InvPartsNext DEF Typed, Bounded, world, counters

(* The step that changes the model: the hold says that the item has not    *)
(* been touched, is fenced off from retries, and that no request under     *)
(* way knows this claim.                                                   *)
LEMMA DispatchStep == ASSUME BatchInv, Dispatch PROVE BatchInv'
<1> DEFINE i == worker.item
<1>1. /\ UNCHANGED <<job, outbox, late, access, returned, counters>>
      /\ worker.pc = "run" /\ worker' = At("touched")
      /\ dispatches' = [dispatches EXCEPT ![i] = @ + 1]
  BY DEF Dispatch
<1>2. /\ Typed(worker, late, outbox, dispatches, returned)
      /\ JobInv(job, late, outbox, dispatches, returned)
      /\ HoldInv(job, worker, late, dispatches, returned)
  BY InvParts
<1>3. /\ i \in Items /\ dispatches[i] = 0 /\ job.kind = "delegated"
      /\ worker.token = job.items[i].attempts
      /\ \/ job.items[i].status = "running"
         \/ job.items[i].status = "failed" /\ job.items[i].reconcile
      /\ \A r \in late : r.kind = "settle" => r.item # i \/ r.token # worker.token
  BY <1>1, <1>2 DEF HoldInv, Holding
<1>4. /\ worker' \in Worker /\ worker'.pc = "touched"
      /\ worker'.item = i /\ worker'.token = worker.token
  BY <1>1, <1>2 DEF At, Worker, Typed
<1>5. /\ dispatches' \in Counts /\ dispatches'[i] = 1
      /\ \A n \in Items : n # i => dispatches'[n] = dispatches[n]
  BY <1>1, <1>2, <1>3 DEF Counts, Typed
<1>6. ItemInv(job, dispatches', returned)
  <2> SUFFICES ASSUME NEW n \in Items
               PROVE  ItemOK(job.kind, job.items[n], dispatches'[n], returned[n])
    BY DEF ItemInv
  <2>1. ItemOK(job.kind, job.items[n], dispatches[n], returned[n])
    BY <1>2 DEF JobInv, ItemInv
  <2>2. CASE n # i
    BY <1>5, <2>1, <2>2
  <2>3. CASE n = i
    BY <1>3, <1>5, <2>1, <2>3 DEF ItemOK, RetrySafe
  <2> QED
    BY <2>2, <2>3
<1>7. LateInv(job, late, dispatches', returned)
  <2> SUFFICES ASSUME NEW r \in late, r.kind = "settle"
               PROVE  Legit(job, r, dispatches', returned)
    BY DEF LateInv
  <2>1. r \in Settlement /\ Legit(job, r, dispatches, returned)
    BY <1>2 DEF Typed, Requests, ClaimRequest, JobInv, LateInv
  <2>2. job.items[r.item].attempts \in Nat /\ r.token \in Nat /\ r.item \in Items
    BY <1>2, <2>1 DEF JobInv, Job, Item, Settlement
  <2>3. CASE r.item # i
    BY <1>5, <2>1, <2>2, <2>3 DEF Legit
  <2>4. CASE r.item = i
    <3>1. r.token < job.items[r.item].attempts
      BY <1>3, <2>1, <2>2, <2>4 DEF Legit
    <3> QED
      BY <2>1, <3>1 DEF Legit
  <2> QED
    BY <2>3, <2>4
<1>8. HoldInv(job, worker', late, dispatches', returned) /\ PostInv(worker', outbox)
  BY <1>2, <1>3, <1>4, <1>1 DEF HoldInv, Holding, PostInv
<1>9. JobInv(job, late, outbox, dispatches', returned)
  BY <1>2, <1>6, <1>7 DEF JobInv
<1>10. Bounded'
  BY <1>1, InvParts DEF Bounded, counters
<1> QED
  BY <1>1, <1>2, <1>4, <1>5, <1>8, <1>9, <1>10, InvPartsNext DEF Typed

LEMMA FinishStep ==
  ASSUME BatchInv, NEW ok \in BOOLEAN, NEW effect \in Effects, Finish(ok, effect)
  PROVE  BatchInv'
<1> DEFINE i == worker.item
<1>1. UNCHANGED <<job, outbox, late, access, dispatches, counters>>
  BY DEF Finish
<1>2. /\ Typed(worker, late, outbox, dispatches, returned)
      /\ JobInv(job, late, outbox, dispatches, returned)
      /\ HoldInv(job, worker, late, dispatches, returned)
  BY InvParts
<1>3. worker.pc \in {"run", "touched"} /\ i \in Items /\ job.kind = "delegated" /\ worker.token \in Nat
  BY <1>2 DEF Finish, HoldInv, Holding, Typed, Worker
<1>4. /\ worker' \in Worker /\ worker'.item = i /\ worker'.token = worker.token
      /\ worker'.pc = (IF ok THEN "save" ELSE "report") /\ worker'.effect = effect
  BY <1>2 DEF Finish, At, Worker, Typed
<1>5. /\ returned' \in Tokens
      /\ \A n \in Items : returned[n] \subseteq returned'[n]
      /\ ok => worker.token \in returned'[i]
  BY <1>2, <1>3 DEF Finish, Tokens, Typed
<1>6. effect = "none" => worker.pc = "run"
  BY DEF Finish
<1>7. JobInv(job, late, outbox, dispatches, returned')
  <2>1. ItemInv(job, dispatches, returned')
    BY <1>2, <1>5 DEF JobInv, ItemInv, ItemOK
  <2>2. LateInv(job, late, dispatches, returned')
    <3> SUFFICES ASSUME NEW r \in late, r.kind = "settle"
                 PROVE  Legit(job, r, dispatches, returned')
      BY DEF LateInv
    <3>1. r \in Settlement /\ Legit(job, r, dispatches, returned)
      BY <1>2 DEF Typed, Requests, ClaimRequest, JobInv, LateInv
    <3> QED
      BY <1>5, <3>1 DEF Legit, Settlement
  <2>3. OutboxInv(job, outbox, returned')
    BY <1>2, <1>5 DEF JobInv, OutboxInv
  <2> QED
    BY <1>2, <2>1, <2>2, <2>3 DEF JobInv
<1>8. HoldInv(job, worker', late, dispatches, returned') /\ PostInv(worker', outbox)
  <2>1. CASE ok
    BY <1>2, <1>3, <1>4, <1>5, <2>1 DEF HoldInv, Holding, PostInv
  <2>2. CASE ~ok
    BY <1>2, <1>3, <1>4, <1>5, <1>6, <2>2 DEF HoldInv, Holding, PostInv
  <2> QED
    BY <2>1, <2>2
<1>9. Bounded'
  BY <1>1, InvParts DEF Bounded, counters
<1> QED
  BY <1>1, <1>2, <1>4, <1>5, <1>7, <1>8, <1>9, InvPartsNext DEF Typed

LEMMA FailStep == ASSUME BatchInv, FailItem PROVE BatchInv'
<1> DEFINE j == Reconcile(job)
<1>1. UNCHANGED <<outbox, late, world, counters>> /\ worker.pc = "report"
      /\ job' = SettleClaim(j, Failure) /\ \E pc \in {"loop", "idle"} : worker' = Without(pc)
  BY DEF FailItem
<1>2. /\ Typed(worker, late, outbox, dispatches, returned)
      /\ JobInv(j, late, outbox, dispatches, returned)
      /\ HoldInv(j, worker, late, dispatches, returned)
  BY InvParts, AfterReconcile
<1>3. Failure \in Settlement /\ Legit(j, Failure, dispatches, returned)
  BY <1>1, <1>2, FailureLegit DEF Failure, Typed, JobInv
<1>4. JobInv(job', late, outbox, dispatches, returned)
  BY <1>1, <1>2, <1>3, SettleClaimKeeps DEF Typed
<1>5. Bounded'
  BY <1>1, InvParts DEF Bounded, world, counters
<1> QED
  BY <1>1, <1>2, <1>4, <1>5, FreeWorker, InvPartsNext DEF Typed, world

LEMMA SaveStep == ASSUME BatchInv, SaveCompletion PROVE BatchInv'
<1> DEFINE i == worker.item
           record == [token |-> worker.token, effect |-> worker.effect]
<1>1. UNCHANGED <<job, late, world, upsets, controls>> /\ worker.pc = "save"
  BY DEF SaveCompletion
<1>2. /\ Typed(worker, late, outbox, dispatches, returned) /\ Bounded
      /\ JobInv(job, late, outbox, dispatches, returned)
      /\ HoldInv(job, worker, late, dispatches, returned)
  BY InvParts
<1>3. i \in Items /\ worker.token \in returned[i] /\ worker.token <= job.items[i].attempts
  BY <1>1, <1>2 DEF HoldInv, Holding
<1>4. CASE worker' = Without("loop") /\ UNCHANGED outbox /\ losses < MaxLosses /\ losses' = losses + 1
  <2>1. Bounded'
    BY <1>1, <1>2, <1>4, BatchConstants DEF Bounded, world
  <2> QED
    BY <1>1, <1>2, <1>4, <2>1, FreeWorker, InvPartsNext DEF Typed, world
<1>5. CASE outbox' = [outbox EXCEPT ![i] = record] /\ worker' = At("post") /\ UNCHANGED losses
  <2>1. record \in Records /\ record # NoRecord
    <3>1. record \in Records
      BY <1>2 DEF Records, Typed, Worker
    <3> QED
      BY <3>1, BatchConstants
  <2>2. /\ outbox' \in Outboxes /\ outbox'[i] = record
        /\ \A n \in Items : n # i => outbox'[n] = outbox[n]
    BY <1>2, <1>3, <1>5, <2>1 DEF Outboxes, Typed
  <2>3. OutboxInv(job, outbox', returned)
    BY <1>2, <1>3, <2>2 DEF OutboxInv, JobInv
  <2>4. worker' \in Worker /\ worker'.pc = "post" /\ worker'.item = i
    BY <1>2, <1>5 DEF At, Worker, Typed
  <2>5. HoldInv(job, worker', late, dispatches, returned) /\ PostInv(worker', outbox')
    BY <1>3, <2>1, <2>2, <2>4 DEF HoldInv, Holding, PostInv
  <2>6. Bounded' /\ JobInv(job, late, outbox', dispatches, returned)
    BY <1>1, <1>2, <1>5, <2>3 DEF Bounded, world, JobInv
  <2> QED
    BY <1>1, <1>2, <2>2, <2>4, <2>5, <2>6, InvPartsNext DEF Typed, world
<1> QED
  BY <1>4, <1>5 DEF SaveCompletion

LEMMA CompleteStep == ASSUME BatchInv, CompleteItem PROVE BatchInv'
<1> DEFINE j == Reconcile(job)
           i == worker.item
           r == Record(i)
<1>1. /\ UNCHANGED <<late, world, counters>> /\ worker.pc \in {"post", "flush"}
      /\ job' = SettleClaim(j, r)
      /\ outbox' = IF Accepted(j, r) THEN [outbox EXCEPT ![i] = NoRecord] ELSE outbox
      /\ \E pc \in {"loop", "idle"} : worker' = Without(pc)
  BY DEF CompleteItem, AfterPost
<1>2. /\ Typed(worker, late, outbox, dispatches, returned) /\ PostInv(worker, outbox)
      /\ JobInv(j, late, outbox, dispatches, returned)
  BY InvParts, AfterReconcile
<1>3. r \in Settlement /\ Legit(j, r, dispatches, returned)
  BY <1>1, <1>2, RecordLegit DEF Record, Typed, JobInv, PostInv
<1>4. JobInv(job', late, outbox, dispatches, returned)
  BY <1>1, <1>2, <1>3, SettleClaimKeeps DEF Typed
<1>5. outbox' \in Outboxes /\ JobInv(job', late, outbox', dispatches, returned)
  BY <1>1, <1>2, <1>4 DEF Outboxes, Typed, JobInv, OutboxInv
<1>6. Bounded'
  BY <1>1, InvParts DEF Bounded, world, counters
<1> QED
  BY <1>1, <1>2, <1>5, <1>6, FreeWorker, InvPartsNext DEF Typed, world

LEMMA GiveUpStep == ASSUME BatchInv, GiveUp PROVE BatchInv'
<1>1. /\ UNCHANGED <<job, outbox, world, upsets, controls>>
      /\ losses < MaxLosses /\ losses' = losses + 1
      /\ \E pc \in {"loop", "idle"} : worker' = Without(pc)
  BY DEF GiveUp, AfterPost
<1>2. /\ Typed(worker, late, outbox, dispatches, returned) /\ Bounded
      /\ JobInv(job, late, outbox, dispatches, returned)
      /\ HoldInv(job, worker, late, dispatches, returned) /\ PostInv(worker, outbox)
  BY InvParts
<1>3. PICK r \in Requests : /\ late' = late \cup {r}
                            /\ r.kind = "settle" => Legit(job, r, dispatches, returned)
  <2>1. CASE worker.pc = "claim" /\ late' = late \cup {ClaimRequest}
    <3>1. ClaimRequest.kind # "settle" /\ ClaimRequest \in Requests
      BY DEF Requests, ClaimRequest
    <3> QED
      BY <2>1, <3>1
  <2>2. CASE worker.pc = "report" /\ late' = late \cup {Failure}
    BY <1>2, <2>2, FailureLegit DEF Failure, Requests, Typed, JobInv
  <2>3. CASE worker.pc \in {"post", "flush"} /\ late' = late \cup {Record(worker.item)}
    <3>1. /\ Record(worker.item) \in Settlement
          /\ Legit(job, Record(worker.item), dispatches, returned)
      BY <1>2, <2>3, RecordLegit DEF Record, Typed, JobInv, PostInv
    <3> QED
      BY <2>3, <3>1 DEF Requests
  <2> QED
    BY <2>1, <2>2, <2>3 DEF GiveUp
<1>4. late' \in SUBSET Requests /\ JobInv(job, late', outbox, dispatches, returned)
  BY <1>2, <1>3 DEF Typed, JobInv, LateInv
<1>5. Bounded'
  BY <1>1, <1>2, BatchConstants DEF Bounded, world
<1> QED
  BY <1>1, <1>2, <1>4, <1>5, FreeWorker, InvPartsNext DEF Typed, world

(* What is served after its caller has gone, by a backend that may die     *)
(* half way.                                                               *)
LEMMA ServeStep ==
  ASSUME BatchInv, NEW r \in late, ServeLate(r) \/ DieServing(r)
  PROVE  BatchInv'
<1> DEFINE j == Reconcile(job)
<1>1. UNCHANGED <<worker, outbox, world, losses, controls>> /\ late' = late \ {r}
  BY DEF ServeLate, DieServing, counters
<1>2. /\ Typed(worker, late, outbox, dispatches, returned) /\ Bounded /\ PostInv(worker, outbox)
      /\ JobInv(job, late, outbox, dispatches, returned)
      /\ JobInv(j, late, outbox, dispatches, returned)
      /\ HoldInv(job, worker, late, dispatches, returned)
      /\ HoldInv(j, worker, late, dispatches, returned)
  BY InvParts, AfterReconcile
<1>3. Bounded'
  BY <1>1, <1>2, BatchConstants DEF Bounded, world, counters, ServeLate, DieServing
<1>4. r \in Requests /\ (r.kind = "settle" => r \in Settlement /\ Legit(j, r, dispatches, returned))
  BY <1>2 DEF Typed, Requests, ClaimRequest, JobInv, LateInv
<1>5. /\ JobInv(Expire(job), late, outbox, dispatches, returned)
      /\ HoldInv(Expire(job), worker, late, dispatches, returned)
  BY <1>2, ReconcileKeeps DEF Typed
<1>6. ASSUME r.kind = "settle"
      PROVE  /\ JobInv(SettleClaim(j, r), late, outbox, dispatches, returned)
             /\ Settleable(j, r) => JobInv(Settle(j, r), late, outbox, dispatches, returned)
  BY <1>2, <1>4, <1>6, SettleClaimKeeps, SettleKeeps DEF Typed
<1>7. ASSUME r.kind = "settle"
      PROVE  /\ HoldInv(SettleClaim(j, r), worker, late, dispatches, returned)
             /\ Settleable(j, r) => HoldInv(Settle(j, r), worker, late, dispatches, returned)
  <2>1. NotHeld(j, worker, r)
    BY <1>2, <1>7 DEF HoldInv, NotHeld
  <2>2. HoldInv(SettleClaim(j, r), worker, late, dispatches, returned)
    BY <1>2, <1>4, <1>7, <2>1, SettleClaimKeeps DEF Typed
  <2>3. Settleable(j, r) => HoldInv(Settle(j, r), worker, late, dispatches, returned)
    BY <1>2, <1>4, <1>7, <2>1, SettleKeeps DEF Typed
  <2> QED
    BY <2>2, <2>3
<1>8. /\ JobInv(job', late, outbox, dispatches, returned)
      /\ HoldInv(job', worker, late, dispatches, returned)
  <2>1. CASE r.kind = "settle" /\ job' = SettleClaim(j, r)
    BY <1>6, <1>7, <2>1
  <2>2. CASE \E i \in Items : NextItem(j, i) /\ job' = Claim(j, i)
    BY <1>2, <2>2, ClaimKeeps DEF Typed, NextItem
  <2>3. CASE job' = NothingToClaim(j)
    BY <1>2, <2>3, FinalizeKeeps DEF NothingToClaim, Typed
  <2>4. CASE job' \in Partial(r)
    <3>1. job' \in {Expire(job), j} \/ (r.kind = "settle" /\ Settleable(j, r) /\ job' = Settle(j, r))
      BY <2>4 DEF Partial
    <3> QED
      BY <1>2, <1>5, <1>6, <1>7, <3>1
  <2> QED
    BY <2>1, <2>2, <2>3, <2>4 DEF ServeLate, DieServing
<1>9. /\ JobInv(job', late', outbox, dispatches, returned)
      /\ HoldInv(job', worker, late', dispatches, returned)
  BY <1>1, <1>8, FewerRequests
<1> QED
  BY <1>1, <1>2, <1>3, <1>9, InvPartsNext DEF Typed, world

(* The user's controls and the passing of time only evolve the job. *)
LEMMA ControlKeeps ==
  ASSUME BatchInv, NEW k, Evolution(Reconcile(job), k), Control(k), controls' \in 0..MaxControls
  PROVE  BatchInv'
<1>1. /\ job' = k /\ UNCHANGED <<worker, outbox, late, world, losses, upsets>>
  BY DEF Control
<1>2. /\ Typed(worker, late, outbox, dispatches, returned) /\ Bounded /\ PostInv(worker, outbox)
      /\ JobInv(Reconcile(job), late, outbox, dispatches, returned)
      /\ HoldInv(Reconcile(job), worker, late, dispatches, returned)
  BY InvParts, AfterReconcile
<1>3. /\ JobInv(k, late, outbox, dispatches, returned)
      /\ HoldInv(k, worker, late, dispatches, returned)
  BY <1>2, EvolutionKeeps DEF Typed
<1>4. Bounded'
  BY <1>1, <1>2 DEF Bounded, world
<1> QED
  BY <1>1, <1>2, <1>3, <1>4, InvPartsNext DEF Typed, world

LEMMA SelfEvolves == ASSUME NEW j, NEW k \in Job, k.kind = j.kind, k.items = j.items
                     PROVE  Evolution(j, k)
BY DEF Evolution, Evolves

LEMMA FinalizeCancelEvolves ==
  ASSUME NEW j \in Job
  PROVE  Evolution(j, Cancelling(j)) /\ Evolution(j, Finalize(Cancelling(j)))
<1>1. Cancelling(j) \in Job /\ Cancelling(j).kind = j.kind /\ Cancelling(j).items = j.items
  BY DEF Cancelling, Job, Statuses
<1>2. Evolution(Cancelling(j), Finalize(Cancelling(j)))
  BY <1>1, FinalizeEvolves
<1> QED
  BY <1>1, <1>2, SelfEvolves DEF Evolution

LEMMA RetriedEvolves == ASSUME NEW j \in Job PROVE Evolution(j, Retried(j))
<1> DEFINE again(it) == [it EXCEPT !.status = "pending", !.claim = NoClaim]
           its == [i \in Items |-> IF RetrySafe(j.items[i]) THEN again(j.items[i]) ELSE j.items[i]]
<1>1. ASSUME NEW it \in Item
      PROVE  /\ again(it) \in Item
             /\ RetrySafe(it) => Evolves(j.kind, it, again(it))
  BY DEF Item, Evolves, RetrySafe
<1>2. \A i \in Items : j.items[i] \in Item
  BY DEF Job
<1>3. its \in [Items -> Item]
  BY <1>1, <1>2
<1>4. Retried(j).items = its /\ Retried(j).kind = j.kind
  BY DEF Retried, Job
<1>5. Retried(j) \in Job
  BY <1>3 DEF Retried, Job, Statuses, Claimable
<1>6. ASSUME NEW i \in Items PROVE Evolves(j.kind, j.items[i], its[i])
  <2>1. CASE RetrySafe(j.items[i])
    BY <1>1, <1>2, <2>1
  <2>2. CASE ~RetrySafe(j.items[i])
    BY <2>2 DEF Evolves
  <2> QED
    BY <2>1, <2>2
<1> QED
  BY <1>4, <1>5, <1>6 DEF Evolution

LEMMA ControlStep ==
  ASSUME BatchInv, Approve \/ Pause \/ Resume \/ Cancel \/ RetryFailed \/ ControlStops
  PROVE  BatchInv'
<1> DEFINE j == Reconcile(job)
<1>1. j \in Job /\ controls \in 0..MaxControls
  BY AfterReconcile, InvParts DEF JobInv, Bounded
<1>2. controls' \in 0..MaxControls
  BY <1>1, BatchConstants DEF Approve, Pause, Resume, Cancel, RetryFailed, ControlStops, Again
<1>3. ASSUME NEW k \in {[j EXCEPT !.status = "queued", !.approved = TRUE],
                        [j EXCEPT !.status = "paused"],
                        [j EXCEPT !.status = "pausing", !.pause = TRUE],
                        [j EXCEPT !.status = "queued", !.pause = FALSE]}
      PROVE  Evolution(j, k)
  <2>1. k \in Job /\ k.kind = j.kind /\ k.items = j.items
    BY <1>1 DEF Job, Statuses, Claimable
  <2> QED
    BY <2>1, SelfEvolves
<1>4. CASE Approve
  BY <1>2, <1>3, <1>4, ControlKeeps DEF Approve
<1>5. CASE Pause
  BY <1>2, <1>3, <1>5, ControlKeeps DEF Pause
<1>6. CASE Resume
  BY <1>2, <1>3, <1>6, ControlKeeps DEF Resume
<1>7. CASE Cancel
  BY <1>1, <1>2, <1>7, FinalizeCancelEvolves, ControlKeeps DEF Cancel
<1>8. CASE RetryFailed
  BY <1>1, <1>2, <1>8, RetriedEvolves, ControlKeeps DEF RetryFailed
<1>9. CASE ControlStops
  <2>1. Evolution(j, j) /\ Evolution(j, Cancelling(j))
    BY <1>1, SelfEvolves, FinalizeCancelEvolves
  <2> QED
    BY <1>2, <1>9, <2>1, ControlKeeps DEF ControlStops
<1> QED
  BY <1>4, <1>5, <1>6, <1>7, <1>8, <1>9

LEMMA WorldStep ==
  ASSUME BatchInv,
         Read \/ (\E i \in Items : LeaseEnds(i)) \/ SwitchDocument \/ RevitEnds
  PROVE  BatchInv'
<1>1. /\ Typed(worker, late, outbox, dispatches, returned) /\ Bounded
      /\ JobInv(job, late, outbox, dispatches, returned)
      /\ HoldInv(job, worker, late, dispatches, returned) /\ PostInv(worker, outbox)
  BY InvParts
<1>2. CASE Read
  <2>1. Bounded'
    BY <1>1, <1>2 DEF Read, Bounded, world, counters
  <2> QED
    BY <1>1, <1>2, <2>1, AfterReconcile, InvPartsNext DEF Read, Typed, world
<1>3. ASSUME NEW i \in Items, LeaseEnds(i) PROVE BatchInv'
  <2> DEFINE it == job.items[i]
             new == [it EXCEPT !.claim.lapsed = TRUE]
  <2>1. job \in Job /\ it \in Item /\ it.status = "running" /\ it.claim \in Claims
    BY <1>1, <1>3 DEF JobInv, Job, ItemInv, ItemOK, LeaseEnds, Item
  <2>2. new \in Item /\ Evolves(job.kind, it, new)
    <3>1. [it.claim EXCEPT !.lapsed = TRUE] \in Claims /\ [it.claim EXCEPT !.lapsed = TRUE].token = it.claim.token
      BY <2>1 DEF Claims
    <3>2. [it.claim EXCEPT !.lapsed = TRUE] # NoClaim
      BY <3>1, BatchConstants
    <3>3. new = [it EXCEPT !.claim = [it.claim EXCEPT !.lapsed = TRUE]]
      BY <2>1 DEF Item
    <3> QED
      BY <2>1, <3>1, <3>2, <3>3 DEF Item, Evolves
  <2>3. job' = [job EXCEPT !.items = [job.items EXCEPT ![i] = new]]
    BY <1>3, <2>1 DEF LeaseEnds, Job
  <2> HIDE DEF new
  <2>4. Evolution(job, job')
    <3>1. job' \in Job /\ job'.kind = job.kind /\ job'.items = [job.items EXCEPT ![i] = new]
      BY <2>1, <2>2, <2>3 DEF Job
    <3> QED
      BY <2>1, <2>2, <3>1 DEF Evolution, Evolves, Job
  <2>5. /\ JobInv(job', late, outbox, dispatches, returned)
        /\ HoldInv(job', worker, late, dispatches, returned)
    BY <1>1, <2>4, EvolutionKeeps DEF Typed
  <2>6. Bounded' /\ UNCHANGED <<worker, outbox, late, dispatches, returned>>
    BY <1>1, <1>3 DEF LeaseEnds, Bounded, world, counters
  <2> QED
    BY <1>1, <2>5, <2>6, InvPartsNext DEF Typed
<1>4. CASE SwitchDocument
  <2>1. Bounded'
    BY <1>1, <1>4, BatchConstants DEF SwitchDocument, Bounded
  <2> QED
    BY <1>1, <1>4, <2>1, InvPartsNext DEF SwitchDocument, Typed
<1>5. CASE RevitEnds
  <2>1. Bounded'
    BY <1>1, <1>5, BatchConstants DEF RevitEnds, Bounded
  <2> QED
    BY <1>1, <1>5, <2>1, FreeWorker, InvPartsNext DEF RevitEnds, Typed
<1> QED
  BY <1>2, <1>3, <1>4, <1>5

LEMMA InitInv == Init => BatchInv
<1> SUFFICES ASSUME Init PROVE BatchInv
  OBVIOUS
<1>1. PICK k \in Kinds, first \in {"pending", "failed", "succeeded"}, approved \in BOOLEAN :
        job = [kind |-> k, status |-> IF approved THEN "queued" ELSE "awaiting_approval",
               approved |-> approved, cancel |-> FALSE, pause |-> FALSE, reconcile |-> FALSE,
               items |-> [i \in Items |-> NewItem(IF i = 1 THEN first ELSE "pending")]]
  BY DEF Init
<1>2. \A s \in {"pending", "failed", "succeeded"} :
        /\ NewItem(s) \in Item /\ NewItem(s).status = s /\ NewItem(s).attempts = 0
        /\ ~NewItem(s).reconcile
  BY DEF NewItem, Item
<1>3. \A i \in Items : \E s \in {"pending", "failed", "succeeded"} : job.items[i] = NewItem(s)
  BY <1>1
<1>4. job \in Job
  BY <1>1, <1>2 DEF Job, Statuses, Claimable
<1>5. Typed(worker, late, outbox, dispatches, returned) /\ Bounded
  BY BatchConstants DEF Init, Typed, Without, Worker, Effects, Outboxes, Counts, Tokens, Bounded
<1>6. JobInv(job, late, outbox, dispatches, returned)
  BY <1>2, <1>3, <1>4 DEF Init, JobInv, ItemInv, ItemOK, LateInv, OutboxInv
<1>7. HoldInv(job, worker, late, dispatches, returned) /\ PostInv(worker, outbox)
  BY DEF Init, Without, HoldInv, Holding, PostInv
<1> QED
  BY <1>5, <1>6, <1>7, InvParts

LEMMA NextInv == BatchInv /\ [Next]_vars => BatchInv'
<1> SUFFICES ASSUME BatchInv, [Next]_vars PROVE BatchInv'
  OBVIOUS
<1>1. CASE UNCHANGED vars
  BY <1>1, InvParts, InvPartsNext DEF vars, world, counters, Typed, Bounded
<1>2. CASE WorkerStep
  BY <1>2, TickStep, ClaimStep, BeginStep, FinishStep, FailStep, SaveStep, CompleteStep
     DEF WorkerStep
<1>3. CASE Dispatch
  BY <1>3, DispatchStep
<1>4. CASE GiveUp
  BY <1>4, GiveUpStep
<1>5. CASE \E r \in late : ServeLate(r) \/ DieServing(r)
  BY <1>5, ServeStep
<1>6. CASE Approve \/ Pause \/ Resume \/ Cancel \/ RetryFailed \/ ControlStops
  BY <1>6, ControlStep
<1>7. CASE Read \/ (\E i \in Items : LeaseEnds(i)) \/ SwitchDocument \/ RevitEnds
  BY <1>7, WorldStep
<1> QED
  BY <1>1, <1>2, <1>3, <1>4, <1>5, <1>6, <1>7 DEF Next

LEMMA BatchInvHolds == Spec => []BatchInv
BY InitInv, NextInv, PTL DEF Spec

(* Every variable keeps its shape, whatever requests are lost or late. *)
THEOREM TypeCorrect == Spec => []TypeOK
<1>1. BatchInv => TypeOK
  BY DEF BatchInv
<1> QED
  BY <1>1, BatchInvHolds, PTL

(* An item changes the Revit model at most once: neither an expired lease  *)
(* nor a lost or late report nor a retry hands a changing run out again.   *)
THEOREM ChangesOnceHolds == Spec => []ChangesOnce
<1>1. BatchInv => ChangesOnce
  BY DEF BatchInv, ItemInv, ItemOK, ChangesOnce
<1> QED
  BY <1>1, BatchInvHolds, PTL

(* job.json is right about Revit: what waits, was skipped or may be        *)
(* retried has changed nothing, and a success was returned by Revit under  *)
(* the claim that its receipt names.                                       *)
THEOREM RecordTruthHolds == Spec => []RecordTruth
<1>1. BatchInv => RecordTruth
  <2> SUFFICES ASSUME BatchInv, NEW i \in Items
               PROVE  LET it == job.items[i]
                      IN  /\ it.status \in {"pending", "skipped"} \/ RetrySafe(it) => dispatches[i] = 0
                          /\ it.status = "succeeded" /\ it.attempts > 0 =>
                               it.receipt # NoReceipt /\ it.receipt.token \in returned[i]
    BY DEF RecordTruth
  <2>1. ItemOK(job.kind, job.items[i], dispatches[i], returned[i]) /\ dispatches[i] \in Nat
    BY DEF BatchInv, ItemInv, TypeOK
  <2> QED
    BY <2>1 DEF ItemOK
<1> QED
  BY <1>1, BatchInvHolds, PTL

-----------------------------------------------------------------------------
(***************************************************************************)
(* The control of a batch job: a finished job is quiet, a pause or a       *)
(* cancellation stands, and a saved completion is dropped only when the    *)
(* job has recorded it.  The first two go together: a settlement takes a   *)
(* job back to "running" unless it is stopped, which is harmless only      *)
(* because a finished job has no item left to settle.                      *)
(***************************************************************************)

Quiet(j) == j.status \in Terminal => ~Active(j)
SameAttempts(j, k) == \A i \in Items : k.items[i].attempts = j.items[i].attempts
Stands(j, k) == Stopped(j) => Stopped(k) /\ SameAttempts(j, k)
Calm(j, k) == Quiet(k) /\ Stands(j, k)

LEMMA CalmTransitive ==
  ASSUME NEW j, NEW k, NEW m, Calm(j, k), Calm(k, m)
  PROVE  Calm(j, m)
BY DEF Calm, Stands, SameAttempts

LEMMA EvolutionAttempts ==
  ASSUME NEW j, NEW k, Evolution(j, k)
  PROVE  SameAttempts(j, k)
BY DEF Evolution, Evolves, SameAttempts

(* finalizeJobIfComplete ends a job only when nothing waits or runs. *)
LEMMA FinalizeCalm == ASSUME NEW j \in Job, Quiet(j) PROVE Calm(j, Finalize(j))
<1> DEFINE k == Finalize(j)
<1>1. SameAttempts(j, k)
  BY FinalizeEvolves, EvolutionAttempts
<1>2. CASE With(j, "running")
  BY <1>1, <1>2 DEF Finalize, Calm, Stands
<1>3. CASE ~With(j, "running") /\ (j.cancel \/ j.status = "cancelling")
  <2>1. k.status = "cancelled" /\ k.items = Skip(j)
    BY <1>3 DEF Finalize, Job
  <2>2. \A i \in Items : Skip(j)[i].status \notin {"pending", "running"}
    BY <1>3 DEF Skip, With, Job, Item
  <2> QED
    BY <1>1, <2>1, <2>2 DEF Calm, Quiet, Stands, Stopped, Active, With, Terminal
<1>4. CASE /\ ~With(j, "running") /\ ~(j.cancel \/ j.status = "cancelling")
           /\ j.pause \/ j.status = "pausing"
  <2>1. k.status = "paused"
    BY <1>4 DEF Finalize, Job
  <2> QED
    BY <1>1, <2>1 DEF Calm, Quiet, Stands, Stopped, Terminal
<1>5. CASE /\ ~With(j, "running") /\ ~(j.cancel \/ j.status = "cancelling")
           /\ ~(j.pause \/ j.status = "pausing")
  <2>1. CASE With(j, "pending")
    BY <1>1, <1>5, <2>1 DEF Finalize, Calm, Stands
  <2>2. CASE ~With(j, "pending")
    <3>1. k.status = FinalStatus(j) /\ k.items = j.items
      BY <1>5, <2>2 DEF Finalize, Job
    <3>2. ~Active(k)
      BY <1>5, <2>2, <3>1 DEF Active, With
    <3>3. FinalStatus(j) \in Terminal
      BY DEF FinalStatus, Terminal
    <3> QED
      BY <1>1, <3>1, <3>2, <3>3 DEF Calm, Quiet, Stands, Stopped
  <2> QED
    BY <2>1, <2>2
<1> QED
  BY <1>2, <1>3, <1>4, <1>5

(* An expired claim never takes a stopped job on. *)
LEMMA ExpireCalm == ASSUME NEW j \in Job, Quiet(j) PROVE Calm(j, Expire(j))
<1> DEFINE k == Expire(j)
           its == [i \in Items |-> AfterLapse(j, i)]
<1>1. SameAttempts(j, k)
  BY ExpireEvolves, EvolutionAttempts
<1>2. k.items = its
  BY DEF Expire, Job
<1>3. CASE SomeUnknown(j)
  <2>1. k.status \in {"paused", "failed"} /\ (k.status = "failed" => ~Active(k))
    BY <1>2, <1>3 DEF Expire, Job, Active, With
  <2> QED
    BY <1>1, <2>1 DEF Calm, Quiet, Stands, Stopped, Terminal
<1>4. CASE ~SomeUnknown(j)
  <2>1. k.status = j.status \/ (j.status = "running" /\ k.status = "queued")
    BY <1>4 DEF Expire, Job
  <2>2. j.status \in Terminal => ~Active(k)
    <3> SUFFICES ASSUME j.status \in Terminal PROVE \A i \in Items : its[i] = j.items[i]
      BY <1>2 DEF Quiet, Active, With
    <3>1. ~With(j, "running")
      BY DEF Quiet, Active
    <3> QED
      BY <3>1 DEF AfterLapse, Lapsed, With
  <2> QED
    BY <1>1, <2>1, <2>2 DEF Calm, Quiet, Stands, Stopped, Terminal
<1> QED
  BY <1>3, <1>4

LEMMA ReconcileCalm ==
  ASSUME NEW j \in Job, Quiet(j) PROVE Calm(j, Expire(j)) /\ Calm(j, Reconcile(j))
<1>1. Expire(j) \in Job /\ Calm(j, Expire(j))
  BY ExpireEvolves, ExpireCalm DEF Evolution
<1>2. Calm(Expire(j), Finalize(Expire(j)))
  BY <1>1, FinalizeCalm DEF Calm
<1>3. Calm(j, Finalize(Expire(j)))
  BY <1>1, <1>2, CalmTransitive
<1>4. Calm(j, j)
  BY DEF Calm, Stands, SameAttempts
<1> QED
  BY <1>1, <1>3, <1>4 DEF Reconcile

(* A settlement finds its item running, so the job is not finished, and    *)
(* it leaves a pause or a cancellation as it is.                           *)
LEMMA SettleCalm ==
  ASSUME NEW j \in Job, Quiet(j), NEW r \in Settlement
  PROVE  /\ Settleable(j, r) => Settle(j, r) \in Job /\ Calm(j, Settle(j, r))
         /\ Calm(j, SettleClaim(j, r))
<1>1. CASE ~Settleable(j, r)
  BY <1>1 DEF SettleClaim, Calm, Stands, SameAttempts
<1>2. CASE Settleable(j, r)
  <2> DEFINE k == Settle(j, r)
             it == SettledItem(j.items[r.item], r)
  <2>1. j.status \notin Terminal
    BY <1>2 DEF Settleable, Quiet, Active, With, Settlement
  <2>2. it \in Item /\ it.attempts = j.items[r.item].attempts
    BY SettledItemType
  <2>3. k.items = [j.items EXCEPT ![r.item] = it]
    BY DEF Settle, Job
  <2>4. k \in Job
    BY SettleType
  <2>5. /\ k.status \in {"pausing", "paused", "cancelling", "running"}
        /\ j.status \in {"pausing", "paused", "cancelling"} =>
             k.status \in {"pausing", "paused", "cancelling"}
    BY DEF Settle, Job
  <2>6. SameAttempts(j, k)
    BY <2>2, <2>3 DEF SameAttempts, Job, Settlement
  <2>7. Calm(j, k)
    BY <2>1, <2>5, <2>6 DEF Calm, Quiet, Stands, Stopped, Terminal
  <2>8. Calm(k, Finalize(k))
    BY <2>4, <2>7, FinalizeCalm DEF Calm
  <2> QED
    BY <1>2, <2>4, <2>7, <2>8, CalmTransitive DEF SettleClaim
<1> QED
  BY <1>1, <1>2

-----------------------------------------------------------------------------
(* Every step, the user's resumption and retry aside, is calm. *)

(* Claims are handed out by claimable jobs only, which are not stopped. *)
LEMMA ClaimCalm ==
  ASSUME NEW j \in Job, Quiet(j), CanClaim(j), NEW i \in Items
  PROVE  Calm(j, Claim(j, i))
BY DEF Claim, CanClaim, Claimable, Calm, Quiet, Stands, Stopped, Terminal, Job

LEMMA NothingToClaimCalm ==
  ASSUME NEW j \in Job, Quiet(j) PROVE Calm(j, NothingToClaim(j))
<1>1. Calm(j, j)
  BY DEF Calm, Stands, SameAttempts
<1> QED
  BY <1>1, FinalizeCalm DEF NothingToClaim

LEMMA Reconciled ==
  ASSUME BatchInv, FinishedIsQuiet
  PROVE  /\ job \in Job /\ Quiet(job) /\ Reconcile(job) \in Job
         /\ Calm(job, Reconcile(job)) /\ Calm(job, Expire(job)) /\ Quiet(Reconcile(job))
         /\ Typed(worker, late, outbox, dispatches, returned)
<1>1. job \in Job /\ Quiet(job) /\ Reconcile(job) \in Job
      /\ Typed(worker, late, outbox, dispatches, returned)
  BY InvParts, AfterReconcile DEF JobInv, FinishedIsQuiet, Quiet
<1> QED
  BY <1>1, ReconcileCalm DEF Calm

LEMMA RequestCalm ==
  ASSUME BatchInv, FinishedIsQuiet,
         \/ ClaimNext \/ FailItem \/ CompleteItem
         \/ \E r \in late : ServeLate(r) \/ DieServing(r)
  PROVE  Calm(job, job')
<1> DEFINE j == Reconcile(job)
<1>1. j \in Job /\ Quiet(j) /\ Calm(job, j) /\ Calm(job, Expire(job))
      /\ Typed(worker, late, outbox, dispatches, returned)
  BY Reconciled
<1>2. ASSUME NEW i \in Items, CanClaim(j), job' = Claim(j, i)
      PROVE  Calm(job, job')
  BY <1>1, <1>2, ClaimCalm, CalmTransitive
<1>3. ASSUME job' = NothingToClaim(j)
      PROVE  Calm(job, job')
  BY <1>1, <1>3, NothingToClaimCalm, CalmTransitive
<1>4. ASSUME NEW r \in Settlement, job' = SettleClaim(j, r) \/ (Settleable(j, r) /\ job' = Settle(j, r))
      PROVE  Calm(job, job')
  BY <1>1, <1>4, SettleCalm, CalmTransitive
<1>5. CASE ClaimNext
  BY <1>2, <1>3, <1>5 DEF ClaimNext
<1>6. CASE FailItem
  <2>1. Failure \in Settlement
    BY <1>6, InvParts, FailureLegit DEF FailItem, Failure, Typed, JobInv
  <2> QED
    BY <1>4, <1>6, <2>1 DEF FailItem
<1>7. CASE CompleteItem
  <2>1. Record(worker.item) \in Settlement
    BY <1>7, InvParts, RecordLegit DEF CompleteItem, Record, Typed, JobInv, PostInv
  <2> QED
    BY <1>4, <1>7, <2>1 DEF CompleteItem
<1>8. ASSUME NEW r \in late, ServeLate(r) \/ DieServing(r)
      PROVE  Calm(job, job')
  <2>1. r.kind = "settle" => r \in Settlement
    BY <1>1 DEF Typed, Requests, ClaimRequest
  <2>2. CASE ServeLate(r)
    BY <1>2, <1>3, <1>4, <2>1, <2>2 DEF ServeLate
  <2>3. CASE DieServing(r)
    <3>1. \/ job' \in {Expire(job), j}
          \/ r.kind = "settle" /\ Settleable(j, r) /\ job' = Settle(j, r)
      BY <2>3 DEF DieServing, Partial
    <3> QED
      BY <1>1, <1>4, <2>1, <3>1
  <2> QED
    BY <1>8, <2>2, <2>3
<1> QED
  BY <1>5, <1>6, <1>7, <1>8

LEMMA ControlCalm ==
  ASSUME BatchInv, FinishedIsQuiet,
         Approve \/ Pause \/ Cancel \/ ControlStops \/ Read \/ \E i \in Items : LeaseEnds(i)
  PROVE  Calm(job, job')
<1> DEFINE j == Reconcile(job)
<1>1. job \in Job /\ Quiet(job) /\ j \in Job /\ Quiet(j) /\ Calm(job, j)
  BY Reconciled
<1>2. ASSUME Approve \/ Pause PROVE Calm(job, job')
  <2>1. ~Stopped(j) /\ job'.status \notin Terminal
    BY <1>1, <1>2 DEF Approve, Pause, Control, Stopped, Terminal, Job
  <2> QED
    BY <1>1, <2>1 DEF Calm, Quiet, Stands
<1>3. /\ Cancelling(j) \in Job
      /\ j.status \notin Terminal => Calm(j, Cancelling(j))
  BY <1>1 DEF Cancelling, Calm, Quiet, Stands, Stopped, SameAttempts, Terminal, Job, Statuses
<1>4. j.status \notin Terminal =>
        Calm(job, Cancelling(j)) /\ Calm(job, Finalize(Cancelling(j)))
  <2> SUFFICES ASSUME j.status \notin Terminal
               PROVE  Calm(job, Cancelling(j)) /\ Calm(job, Finalize(Cancelling(j)))
    OBVIOUS
  <2>1. Calm(job, Cancelling(j)) /\ Quiet(Cancelling(j))
    BY <1>1, <1>3, CalmTransitive DEF Calm
  <2>2. Calm(Cancelling(j), Finalize(Cancelling(j)))
    BY <1>3, <2>1, FinalizeCalm
  <2> QED
    BY <2>1, <2>2, CalmTransitive
<1>5. CASE Cancel \/ ControlStops \/ Read
  BY <1>1, <1>4, <1>5 DEF Cancel, ControlStops, Read, Control
<1>6. ASSUME NEW i \in Items, LeaseEnds(i) PROVE Calm(job, job')
  <2>1. /\ job'.status = job.status
        /\ \A n \in Items : /\ job'.items[n].status = job.items[n].status
                            /\ job'.items[n].attempts = job.items[n].attempts
    BY <1>1, <1>6 DEF LeaseEnds, Job, Item
  <2> QED
    BY <1>1, <2>1 DEF Calm, Quiet, Stands, Stopped, SameAttempts, Active, With
<1> QED
  BY <1>2, <1>5, <1>6

LEMMA WithdrawalQuiet == ASSUME Resume \/ RetryFailed, BatchInv PROVE Quiet(job')
<1>1. Reconcile(job) \in Job
  BY AfterReconcile DEF JobInv
<1>2. CASE Resume
  BY <1>1, <1>2 DEF Resume, Control, Quiet, Terminal, Job
<1>3. CASE RetryFailed
  <2>1. Retried(Reconcile(job)).status \in {"queued", "awaiting_approval"}
    BY <1>1 DEF Retried, Job
  <2> QED
    BY <1>3, <2>1 DEF RetryFailed, Control, Quiet, Terminal
<1> QED
  BY <1>2, <1>3

LEMMA StepCalm ==
  ASSUME BatchInv, FinishedIsQuiet, [Next]_vars
  PROVE  Quiet(job') /\ (Resume \/ RetryFailed \/ Stands(job, job'))
<1>1. CASE UNCHANGED job
  BY <1>1, Reconciled DEF Stands, SameAttempts
<1>2. CASE Resume \/ RetryFailed
  BY <1>2, WithdrawalQuiet
<1>3. ASSUME \/ ClaimNext \/ FailItem \/ CompleteItem
             \/ \E r \in late : ServeLate(r) \/ DieServing(r)
      PROVE  Calm(job, job')
  BY <1>3, RequestCalm
<1>4. ASSUME Approve \/ Pause \/ Cancel \/ ControlStops \/ Read \/ \E i \in Items : LeaseEnds(i)
      PROVE  Calm(job, job')
  BY <1>4, ControlCalm
<1>5. \/ UNCHANGED job
      \/ Resume \/ RetryFailed
      \/ ClaimNext \/ FailItem \/ CompleteItem
      \/ \E r \in late : ServeLate(r) \/ DieServing(r)
      \/ Approve \/ Pause \/ Cancel \/ ControlStops \/ Read \/ \E i \in Items : LeaseEnds(i)
  <2>1. CASE UNCHANGED vars
    BY <2>1 DEF vars
  <2>2. CASE WorkerStep
    BY <2>2 DEF WorkerStep, Tick, Loop, Begin, Finish, SaveCompletion
  <2>3. CASE Dispatch \/ GiveUp \/ SwitchDocument \/ RevitEnds
    BY <2>3 DEF Dispatch, GiveUp, SwitchDocument, RevitEnds
  <2> QED
    BY <2>1, <2>2, <2>3 DEF Next
<1> QED
  BY <1>1, <1>2, <1>3, <1>4, <1>5 DEF Calm

LEMMA QuietInv == Spec => [](BatchInv /\ FinishedIsQuiet)
<1>1. Init => FinishedIsQuiet
  BY DEF Init, FinishedIsQuiet, Terminal
<1>2. BatchInv /\ FinishedIsQuiet /\ [Next]_vars => FinishedIsQuiet'
  BY StepCalm DEF Quiet, FinishedIsQuiet, Active, With
<1> QED
  BY <1>1, <1>2, BatchInvHolds, PTL DEF Spec

(* A finished job has no item that waits or runs, wherever a backend died  *)
(* between its writes.                                                     *)
THEOREM FinishedIsQuietHolds == Spec => []FinishedIsQuiet
BY QuietInv, PTL

(* A pause or a cancellation stands until the user resumes or retries: no  *)
(* settlement, expiry or late claim hands out another item.                *)
THEOREM ControlStandsHolds == Spec => ControlStands
<1>1. BatchInv /\ FinishedIsQuiet /\ [Next]_vars =>
        [Stopped(job) /\ ~Resume /\ ~RetryFailed =>
           /\ Stopped(job')
           /\ \A i \in Items : job'.items[i].attempts = job.items[i].attempts]_vars
  BY StepCalm DEF Stands, SameAttempts
<1> QED
  BY <1>1, QuietInv, PTL DEF Spec, ControlStands

(* A completion leaves the outbox only when job.json has recorded the item *)
(* as succeeded under the token of that completion.                        *)
THEOREM CompletionKeptHolds == Spec => CompletionKept
<1>1. ASSUME BatchInv, [Next]_vars, NEW i \in Items, outbox[i] # NoRecord, outbox'[i] = NoRecord
      PROVE  job'.items[i].status = "succeeded" /\ job'.items[i].receipt.token = outbox[i].token
  <2> DEFINE j == Reconcile(job)
             r == Record(worker.item)
  <2>1. Typed(worker, late, outbox, dispatches, returned) /\ PostInv(worker, outbox) /\ j \in Job
    BY <1>1, InvParts, AfterReconcile DEF JobInv
  <2>2. ~SaveCompletion
    <3> SUFFICES ASSUME SaveCompletion PROVE FALSE
      OBVIOUS
    <3> DEFINE record == [token |-> worker.token, effect |-> worker.effect]
    <3>1. record \in Records
      BY <2>1 DEF Typed, Worker, Records
    <3>2. record # NoRecord
      BY <3>1, BatchConstants
    <3>3. outbox' = outbox \/ outbox' = [outbox EXCEPT ![worker.item] = record]
      BY DEF SaveCompletion
    <3> HIDE DEF record
    <3> QED
      BY <1>1, <2>1, <3>2, <3>3 DEF Typed, Outboxes
  <2>3. CompleteItem
    BY <1>1, <2>2 DEF Next, WorkerStep, vars, Tick, Loop, ClaimNext, Begin, Finish, FailItem,
       Dispatch, GiveUp, ServeLate, DieServing, Approve, Pause, Resume, Cancel, RetryFailed,
       ControlStops, Control, Read, LeaseEnds, SwitchDocument, RevitEnds
  <2>4. i = worker.item /\ Accepted(j, r) /\ job' = SettleClaim(j, r)
    BY <1>1, <2>1, <2>3 DEF CompleteItem, Typed, Outboxes
  <2>5. r \in Settlement /\ r.item = i /\ r.token = outbox[i].token /\ ~r.failed
    BY <1>1, <2>1, <2>4 DEF Record, SettleRequest, Settlement, Typed, Outboxes, Records
  <2>6. CASE ~Settleable(j, r)
    BY <2>4, <2>5, <2>6 DEF SettleClaim, Accepted, Receipt
  <2>7. CASE Settleable(j, r)
    <3> DEFINE k == Settle(j, r)
               it == SettledItem(j.items[i], r)
    <3>1. it.status = "succeeded" /\ it.receipt.token = r.token
      BY <2>1, <2>5, SettledItemType
    <3>2. k \in Job /\ k.items = [j.items EXCEPT ![i] = it]
      BY <2>1, <2>5, SettleType
    <3>3. k.items[i] = it
      BY <2>1, <3>2 DEF Job
    <3>4. job' = Finalize(k)
      BY <2>4, <2>7 DEF SettleClaim
    <3>5. Finalize(k).items \in {k.items, Skip(k)}
      BY <3>2 DEF Finalize, Job
    <3>6. job'.items[i] = it
      BY <3>1, <3>3, <3>4, <3>5 DEF Skip
    <3> QED
      BY <2>5, <3>1, <3>6
  <2> QED
    BY <2>6, <2>7
<1>2. BatchInv /\ [Next]_vars =>
        [\A i \in Items : outbox[i] # NoRecord /\ outbox'[i] = NoRecord =>
           /\ job'.items[i].status = "succeeded"
           /\ job'.items[i].receipt.token = outbox[i].token]_vars
  BY <1>1
<1> QED
  BY <1>2, BatchInvHolds, PTL DEF Spec, CompletionKept
=============================================================================
