---------------------------- MODULE ControlPlane ----------------------------
(***************************************************************************)
(* The version 1 control plane of one Assignment: the journal of attempts  *)
(* that the reducer projects, the tool-call handler that opens, dispatches *)
(* and settles an attempt, the settlement barrier that waits for, expires  *)
(* and cancels what is in flight, and the turns of the provider that drive *)
(* them.  Revit and the transport to it are external.                      *)
(*                                                                         *)
(* The Assignment asks for one change of one target.  A provider call is a *)
(* read, a preview or the apply of that change, so that every two applies  *)
(* have the same signature and target.  Events that a handler appends in   *)
(* one synchronous stretch are one step; each of them is still accepted or *)
(* refused on its own.                                                     *)
(***************************************************************************)
EXTENDS Naturals, Sequences, FiniteSets, FiniteSetsExt

CONSTANTS MaxLooks,    \* reads and previews the provider calls
          MaxApplies,  \* applies the provider calls
          MaxGen       \* messages that start or resume the Assignment

ASSUME BoundsAssumption ==
  MaxLooks \in Nat /\ MaxApplies \in Nat /\ MaxGen \in Nat

VARIABLES
  cp,       \* the projection: generation, terminal state, attempts in order
  call,     \* the tool call of an attempt: "none", "pending" or "ended"
  owner,    \* the turn that made the call, as the generation it was prepared with
  job,      \* what Revit did with the call of an apply; external
  turn,     \* the provider turn: "idle", "running", "draining" or "canceling"
  turnGen,  \* the generation the turn was prepared with, 0 when idle
  waiting,  \* the prepared message that waits for the turn before it, 0 when none
  gate      \* what the teammate loop of the turn knows about its apply

vars == <<cp, call, owner, job, turn, turnGen, waiting, gate>>

\* Every turn may add one verification attempt to the attempts of the calls.
Ids == 1..(MaxLooks + MaxApplies + MaxGen)
Kinds == {"read", "preview", "apply"}
Purposes == {"action", "reconciliation", "verification"}
\* "settled" stands for every lease that says how an attempt without effect
\* ended: failed_before_dispatch, timed_out_read, canceled_before_dispatch.
Leases == {"dispatching", "dispatched", "retaining_evidence", "settled",
           "effect_unknown", "canceled_after_dispatch"}
Outcomes == {"open", "verified", "blocked", "failed", "canceled"}

Rank == [control_plane |-> 0, caller_report |-> 1,
         admission_policy |-> 2, transport_pre_dispatch |-> 2,
         dispatch_transport |-> 3, worker |-> 3,
         native_host |-> 4, native_transaction |-> 4, native_rollback |-> 4,
         target_readback |-> 5]

Attempts ==
  [kind: Kinds, purpose: Purposes, of: {0} \cup Ids, gen: 1..MaxGen,
   term: {"active", "settled", "superseded", "reconciled"}, lease: Leases,
   dispatch: {"not_dispatched", "acknowledged"},
   state: {"none", "unknown", "applied"}, auth: DOMAIN Rank]

-----------------------------------------------------------------------------
(* What the projection says *)

Where(p, Test(_)) == {i \in DOMAIN p.att : Test(p.att[i])}
InFlight(p) == Where(p, LAMBDA a : a.gen = p.gen /\ a.term = "active")
Quiescent(p) == InFlight(p) = {}
Unknowns(p) == Where(p, LAMBDA a : a.kind # "read" /\ a.state = "unknown")
Applied(p) == Where(p, LAMBDA a : a.state = "applied")
Applies(p) == Where(p, LAMBDA a : a.kind = "apply")

-----------------------------------------------------------------------------
(* The reducer.  An event names the generation it belongs to; a refused    *)
(* event is quarantined and leaves the projection as it is.                *)

Accepts(p, g) == p.term = "open" /\ p.gen = g

\* The rules of the effect an attempt is said to have had.
EffectOk(a, st, src) ==
  /\ st = "applied" => a.kind = "apply" /\ src \in {"native_transaction", "target_readback"}
  /\ Rank[src] >= Rank[a.auth]
  /\ a.state = "applied" => st = "applied"
  /\ a.state = "unknown" /\ st # "unknown" => Rank[src] >= 4
  /\ a.state # st => Rank[a.auth] < 4 /\ Rank[src] # Rank[a.auth]

WithEffect(a, st, src) == [a EXCEPT !.state = st, !.auth = src]

EffectRecorded(p, g, i, st, src, pendingEvidence) ==
  LET b == WithEffect(p.att[i], st, src)
  IN IF ~(Accepts(p, g) /\ EffectOk(p.att[i], st, src)) THEN p
     ELSE [p EXCEPT !.att[i] =
            IF st = "unknown" THEN [b EXCEPT !.lease = "effect_unknown"]
            ELSE IF pendingEvidence THEN b
            ELSE [b EXCEPT !.term = "settled", !.lease = "settled"]]

\* The effect that a dispatch implies for the attempt.
Dispatched(a, st) ==
  IF st = "not_dispatched" THEN [state |-> "none", auth |-> "transport_pre_dispatch"]
  ELSE IF a.kind = "apply" THEN [state |-> "unknown", auth |-> "dispatch_transport"]
  ELSE [state |-> a.state, auth |-> a.auth]

DispatchOk(p, g, i, st) ==
  LET a == p.att[i]
      e == Dispatched(a, st)
  IN /\ Accepts(p, g)
     /\ a.term = "active"
     /\ a.dispatch = "acknowledged" => st = "acknowledged"
     /\ EffectOk(a, e.state, e.auth)

DispatchRecorded(p, i, st) ==
  LET a == p.att[i]
      e == Dispatched(a, st)
      b == [WithEffect(a, e.state, e.auth) EXCEPT !.dispatch = st]
  IN [p EXCEPT !.att[i] =
       IF st = "acknowledged" THEN [b EXCEPT !.lease = "dispatched"]
       ELSE [b EXCEPT !.term = "settled", !.lease = "settled"]]

EndingLeasesMutant == {"settled"}  \* an unknown effect leaves the attempt open

EndingLeases == {"settled", "effect_unknown"}

LeaseRecorded(p, g, i, l) ==
  IF ~Accepts(p, g) THEN p
  ELSE [p EXCEPT !.att[i].lease = l,
                 !.att[i].term = IF l \in EndingLeases THEN "settled" ELSE @]

AttemptTerminal(p, g, i) ==
  IF ~Accepts(p, g) \/ p.att[i].state = "unknown" THEN p
  ELSE [p EXCEPT !.att[i].term = "settled", !.att[i].lease = "settled"]

AssignmentTerminal(p, g, outcome) ==
  IF Accepts(p, g) /\ Quiescent(p) THEN [p EXCEPT !.term = outcome] ELSE p

\* A new run closes the attempts of the old one and keeps their effects.
RunStarted(p) ==
  [p EXCEPT !.gen = @ + 1,
            !.att = [i \in DOMAIN @ |->
                      IF @[i].term = "active" THEN [@[i] EXCEPT !.term = "superseded"]
                      ELSE @[i]]]

\* An attempt may open.  A repeated apply always names its predecessor and
\* a retry delta, which the journal computes.
OpenOk(p, kind, purpose) ==
  /\ p.term = "open"
  /\ Unknowns(p) # {} => purpose = "reconciliation"
  /\ Applied(p) # {} => purpose # "action"
  /\ kind = "apply" /\ Applies(p) # {} => p.att[Max(Applies(p))].state = "none"

Opened(p, kind, purpose, of) ==
  [p EXCEPT !.att = Append(@,
    [kind |-> kind, purpose |-> purpose, of |-> of, gen |-> p.gen,
     term |-> "active", lease |-> "dispatching", dispatch |-> "not_dispatched",
     state |-> "none", auth |-> "control_plane"])]

-----------------------------------------------------------------------------
(* The tool-call handler *)

\* What a call is for: a read looks at an unknown effect before all else.
PurposeOf(p, kind) ==
  IF kind # "read" THEN "action"
  ELSE IF Unknowns(p) # {} THEN "reconciliation"
  ELSE IF Applied(p) # {} THEN "verification" ELSE "action"

RelationOf(p) ==
  IF Unknowns(p) # {} THEN Min(Unknowns(p))
  ELSE IF Applied(p) # {} THEN Max(Applied(p)) ELSE 0

\* What an answer says about the effect when the journal takes it: a native
\* settlement, a report without one, or a refusal before native dispatch.
Answer == {"native", "native_unknown", "report", "refusal"}

Settlement(a, did) ==
  CASE did = "changed" -> [state |-> "applied", auth |-> "native_transaction"]
    [] did = "unchanged" /\ a.kind # "read" -> [state |-> "none", auth |-> "native_rollback"]
    [] OTHER -> [state |-> "none", auth |-> "native_host"]

ToolResultEffectMutant(a, ans, did) ==  \* trusts a caller that reports success
  IF ans = "report" /\ a.kind = "apply" THEN [state |-> "applied", auth |-> "native_transaction"]
  ELSE Settlement(a, did)

ToolResultEffect(a, ans, did) ==
  CASE ans = "native" -> Settlement(a, did)
    [] ans = "native_unknown" -> [state |-> "unknown", auth |-> "native_host"]
    [] ans = "refusal" -> [state |-> "none", auth |-> "transport_pre_dispatch"]
    [] ans = "report" /\ a.kind = "read" -> [state |-> "none", auth |-> "admission_policy"]
    [] OTHER -> [state |-> "unknown", auth |-> "caller_report"]

\* The dispatch and then the effect are journaled; when the dispatch is
\* refused the effect is not looked at.
JournalResult(p, i, ans, did) ==
  LET a == p.att[i]
      st == IF did = "refused" THEN "not_dispatched" ELSE "acknowledged"
      e == ToolResultEffect(a, ans, did)
  IN IF ~DispatchOk(p, a.gen, i, st) THEN p
     ELSE EffectRecorded(DispatchRecorded(p, i, st), a.gen, i, e.state, e.auth, TRUE)

\* The result is recorded again with its evidence, and the attempt ends.
SettleEvidence(p, i) ==
  LET a == p.att[i]
      recorded == EffectRecorded(p, a.gen, i, a.state, a.auth, FALSE)
  IN IF a.state = "unknown" THEN LeaseRecorded(recorded, a.gen, i, "effect_unknown")
     ELSE AttemptTerminal(LeaseRecorded(recorded, a.gen, i, "retaining_evidence"),
                          a.gen, i)

FailEvidence(p, i) ==
  LET a == p.att[i]
  IN IF a.state = "unknown" THEN LeaseRecorded(p, a.gen, i, "effect_unknown")
     ELSE AttemptTerminal(p, a.gen, i)

\* An answer of a call: after the end of the Assignment it is quarantined,
\* after the end of its run it is refused.
NativeResult(p, i, ans, did, retained) ==
  LET a == p.att[i]
      taken == LeaseRecorded(JournalResult(p, i, ans, did), a.gen, i, "retaining_evidence")
  IN IF ~Accepts(p, a.gen) THEN p
     ELSE IF retained THEN SettleEvidence(taken, i) ELSE FailEvidence(taken, i)

\* The call was lost after it had been handed over.
FailAfterDispatch(p, i) ==
  LET a == p.att[i]
      taken == JournalResult(p, i, "report", "lost")
  IN IF ~Accepts(p, a.gen) THEN p
     ELSE IF taken.att[i].state = "unknown" THEN LeaseRecorded(taken, a.gen, i, "effect_unknown")
     ELSE AttemptTerminal(taken, a.gen, i)

-----------------------------------------------------------------------------
(* The settlement barrier *)

MayHaveDispatchedMutant(a) == a.dispatch = "acknowledged"  \* looks at receipts only

MayHaveDispatched(a) ==
  a.dispatch = "acknowledged" \/ a.lease \in {"dispatching", "dispatched", "retaining_evidence"}

\* The deadline of an attempt in flight has passed.
SettleExpired(p, i) ==
  LET a == p.att[i]
      unknown == EffectRecorded(p, p.gen, i, "unknown", "dispatch_transport", TRUE)
      none == EffectRecorded(p, p.gen, i, "none",
                IF MayHaveDispatched(a) THEN "worker" ELSE "transport_pre_dispatch", TRUE)
  IN IF a.kind = "apply" /\ MayHaveDispatched(a)
     THEN LeaseRecorded(unknown, p.gen, i, "effect_unknown")
     ELSE AttemptTerminal(none, p.gen, i)

CancelOne(p, i) ==
  LET a == p.att[i]
  IN IF ~MayHaveDispatched(a)
     THEN LeaseRecorded(EffectRecorded(p, p.gen, i, "none", "transport_pre_dispatch", TRUE),
                        p.gen, i, "settled")
     ELSE IF a.kind = "apply"
     THEN LeaseRecorded(EffectRecorded(p, p.gen, i, "unknown", "dispatch_transport", TRUE),
                        p.gen, i, "canceled_after_dispatch")
     ELSE p

CancelInFlight(p) ==
  [p EXCEPT !.att = [i \in DOMAIN @ |->
     IF i \in InFlight(p) THEN CancelOne(p, i).att[i] ELSE @[i]]]

-----------------------------------------------------------------------------
(* The end of a turn *)

\* The last read that looked at the target after an apply, 0 when none.
LastCheck(p) ==
  LET checks == Where(p, LAMBDA a : a.kind = "read" /\ a.purpose # "action")
  IN IF checks = {} THEN 0 ELSE Max(checks)

\* The readback found the change: the unknown attempt is said to be applied.
ReconciliationResolved(p, r) ==
  LET o == p.att[r].of
  IN IF ~(p.term = "open" /\ o # 0 /\ p.att[o].state = "unknown"
          /\ EffectOk(p.att[o], "applied", "target_readback")) THEN p
     ELSE [p EXCEPT
       !.att[r] = [WithEffect(@, "none", "target_readback") EXCEPT
                    !.term = "reconciled", !.lease = "settled"],
       !.att[o] = [WithEffect(@, "applied", "target_readback") EXCEPT
                    !.term = "reconciled", !.lease = "settled"]]

VerificationRecorded(p, v, applied) ==
  LET bound == Min({applied} \cup ({p.att[v].of} \ {0}))
  IN IF ~(p.term = "open" /\ p.att[bound].state = "applied" /\ InFlight(p) \subseteq {v}) THEN p
     ELSE [p EXCEPT !.term = "verified", !.att[v].term = "settled", !.att[v].lease = "settled"]

CreateVerification(p, applied) ==
  LET v == LastCheck(p)
      new == Len(p.att) + 1
      opened == DispatchRecorded(Opened(p, "read", "verification", applied), new, "acknowledged")
  IN IF v # 0 /\ p.att[v].purpose = "verification" THEN VerificationRecorded(p, v, applied)
     ELSE IF ~OpenOk(p, "read", "verification") THEN p
     ELSE VerificationRecorded(opened, new, applied)

\* The turn reports a verified apply: by its own answer or by a readback.
SettleTurn(p, receipt) ==
  LET applied == Max(Applies(p))
      v == LastCheck(p)
      looked == receipt = "readback" /\ p.att[applied].state = "unknown"
      resolved ==
        IF ~looked THEN p
        ELSE IF v # 0 /\ p.att[v].purpose = "reconciliation" THEN ReconciliationResolved(p, v)
        ELSE EffectRecorded(p, p.gen, applied, "applied", "target_readback", FALSE)
  IN IF receipt \notin {"answer", "readback"} \/ p.term # "open" \/ Applies(p) = {} THEN p
     ELSE IF resolved.att[applied].state # "applied" THEN resolved
     ELSE CreateVerification(resolved, applied)

\* The stagnation watchdog may end the Assignment where nothing is in flight.
Progress(p, stop) == IF stop THEN AssignmentTerminal(p, p.gen, "blocked") ELSE p

-----------------------------------------------------------------------------
Init ==
  /\ cp = [gen |-> 0, term |-> "open", att |-> << >>]
  /\ call = [i \in Ids |-> "none"]
  /\ owner = [i \in Ids |-> 0]
  /\ job = [i \in Ids |-> "none"]
  /\ turn = "idle" /\ turnGen = 0 /\ waiting = 0
  /\ gate = "free"

\* A message of the user arrives.  Its run begins at once, although the turn
\* itself waits for the turn before it.
PrepareTurn ==
  /\ waiting = 0 /\ cp.gen < MaxGen /\ cp.term = "open"
  /\ cp' = RunStarted(cp)
  /\ waiting' = cp.gen + 1
  /\ UNCHANGED <<call, owner, job, turn, turnGen, gate>>

BeginTurn ==
  /\ waiting # 0 /\ turn = "idle"
  /\ turn' = "running" /\ turnGen' = waiting /\ waiting' = 0 /\ gate' = "free"
  /\ UNCHANGED <<cp, call, owner, job>>

GateOpenMutant(kind) == TRUE  \* forgets the apply of the turn

\* The teammate loop lets one apply at a time through and no preview after it.
GateOpen(kind) == kind = "read" \/ gate = "free"

\* Calls of one turn may be pending side by side: the guard against parallel
\* calls is per method and path and knows the generic Revit tool only, so two
\* reads or previews pass it, and a second apply is stopped by the gate.
CallAllowed(kind) ==
  /\ turn # "idle" /\ GateOpen(kind)
  /\ LET calls == {i \in DOMAIN cp.att : call[i] # "none"}
     IN IF kind = "apply" THEN Cardinality(calls \cap Applies(cp)) < MaxApplies
        ELSE Cardinality(calls \ Applies(cp)) < MaxLooks

\* The provider calls a tool: the attempt is opened under the generation that
\* is current now, and the call is on its way to Revit.
OpenCall(kind) ==
  LET n == Len(cp.att) + 1
      purpose == PurposeOf(cp, kind)
  IN /\ CallAllowed(kind)
     /\ OpenOk(cp, kind, purpose)
     /\ cp' = Opened(cp, kind, purpose, RelationOf(cp))
     /\ call' = [call EXCEPT ![n] = "pending"]
     /\ owner' = [owner EXCEPT ![n] = turnGen]
     /\ job' = IF kind = "apply" THEN [job EXCEPT ![n] = "queued"] ELSE job
     /\ gate' = IF kind = "apply" THEN "used" ELSE gate
     /\ UNCHANGED <<turn, turnGen, waiting>>

\* The journal refuses the attempt, and the provider is told.
OpenRefused(kind) ==
  /\ CallAllowed(kind)
  /\ ~OpenOk(cp, kind, PurposeOf(cp, kind))
  /\ kind = "apply"
  /\ gate' = "used"
  /\ UNCHANGED <<cp, call, owner, job, turn, turnGen, waiting>>

\* Revit runs the apply, or it is turned away before it reaches Revit.
RevitRuns(i) ==
  /\ job[i] = "queued"
  /\ \E did \in {"changed", "unchanged", "refused"} : job' = [job EXCEPT ![i] = did]
  /\ UNCHANGED <<cp, call, owner, turn, turnGen, waiting, gate>>

Answered(i) ==
  IF cp.att[i].kind = "apply" THEN {job[i]} \ {"queued"} ELSE {"unchanged", "refused"}

\* What the teammate loop of the turn learns from an answer.
GateAfter(i, did) ==
  LET kind == cp.att[i].kind
  IN IF owner[i] # turnGen THEN {gate}
     ELSE IF kind = "apply" /\ did = "refused" THEN {"free"}
     ELSE IF kind = "apply"
     THEN {gate, "succeeded"} \cup (IF did = "changed" THEN {"answer"} ELSE {})
     ELSE IF kind = "read" /\ did # "refused" /\ gate \in {"succeeded", "answer"}
             /\ \E j \in DOMAIN cp.att : job[j] = "changed"
     THEN {gate, "readback"}
     ELSE {gate}

CallEnds(i) == call[i] = "pending" /\ call' = [call EXCEPT ![i] = "ended"]

\* The answer of a call arrives: its result is journaled, its evidence is
\* retained or not, and the progress of the Assignment is looked at.
ResultArrives(i) ==
  /\ CallEnds(i)
  /\ \E did \in Answered(i), ans \in Answer, retained \in BOOLEAN, stop \in BOOLEAN :
       /\ ans = "refusal" => did = "refused"
       /\ did = "refused" => ans \in {"refusal", "native"}
       /\ ans = "native_unknown" => cp.att[i].kind # "read"
       /\ stop => retained
       /\ cp' = Progress(NativeResult(cp, i, ans, did, retained), stop)
       /\ gate' \in GateAfter(i, did)
  /\ UNCHANGED <<owner, job, turn, turnGen, waiting>>

\* The call fails: its transport broke or its own time limit passed.
ToolError(i) ==
  /\ CallEnds(i)
  /\ cp' = FailAfterDispatch(cp, i)
  /\ UNCHANGED <<owner, job, turn, turnGen, waiting, gate>>

\* A turn that drains waits for the deadlines of what is in flight.  They
\* pass in the order in which the attempts were opened.
BarrierTimer ==
  /\ turn \in {"draining", "canceling"}
  /\ cp.term = "open" /\ ~Quiescent(cp)
  /\ cp' = SettleExpired(cp, Min(InFlight(cp)))
  /\ UNCHANGED <<call, owner, job, turn, turnGen, waiting, gate>>

TurnEnds(p) ==
  /\ turn' = "idle" /\ turnGen' = 0 /\ gate' = "free"
  /\ cp' = p
  /\ UNCHANGED <<call, owner, job, waiting>>

\* The provider has got all its answers and finishes the turn.
TurnCompletes ==
  /\ turn = "running"
  /\ \A i \in Ids : ~(call[i] = "pending" /\ owner[i] = turnGen)
  /\ \E stop \in BOOLEAN : TurnEnds(Progress(SettleTurn(cp, gate), stop))

\* The provider fails.  Only the run the turn was prepared with is failed.
TurnFails ==
  /\ turn = "running"
  /\ TurnEnds(AssignmentTerminal(cp, turnGen, "failed"))

ProviderTimesOut ==
  /\ turn = "running"
  /\ turn' = "draining"
  /\ UNCHANGED <<cp, call, owner, job, turnGen, waiting, gate>>

UserCancels ==
  /\ turn = "running"
  /\ turn' = "canceling"
  /\ cp' = CancelInFlight(cp)
  /\ UNCHANGED <<call, owner, job, turnGen, waiting, gate>>

\* The barrier lets the turn go on: nothing is in flight any more.
Resumes(mode) == turn = mode /\ (Quiescent(cp) \/ cp.term # "open") /\ turn' = "idle"

DrainedAfterTimeout ==
  /\ Resumes("draining")
  /\ LET settled == SettleTurn(cp, gate)
         blocked == AssignmentTerminal(settled, settled.gen, "blocked")
     IN TurnEnds(AssignmentTerminal(blocked, turnGen, "failed"))

DrainedAfterCancel ==
  /\ Resumes("canceling")
  /\ TurnEnds(AssignmentTerminal(cp, cp.gen, "canceled"))

\* The backend process ends: the journal and the jobs of Revit remain.
Crash ==
  /\ turn' = "idle" /\ turnGen' = 0 /\ waiting' = 0 /\ gate' = "free"
  /\ call' = [i \in Ids |-> IF call[i] = "pending" THEN "ended" ELSE call[i]]
  /\ UNCHANGED <<cp, owner, job>>

Next ==
  \/ PrepareTurn \/ BeginTurn
  \/ \E kind \in Kinds : OpenCall(kind) \/ OpenRefused(kind)
  \/ \E i \in Ids : RevitRuns(i) \/ ResultArrives(i) \/ ToolError(i)
  \/ BarrierTimer
  \/ TurnCompletes \/ TurnFails \/ ProviderTimesOut \/ UserCancels
  \/ DrainedAfterTimeout \/ DrainedAfterCancel
  \/ Crash

Spec == Init /\ [][Next]_vars

\* A call ends, at the latest by its own time limit, and the turn that waits
\* for the barrier is resumed.  Nothing is assumed of the barrier's timer.
Fairness ==
  /\ WF_call(\E i \in Ids : CallEnds(i))
  /\ WF_turn(\E mode \in {"draining", "canceling"} : Resumes(mode))

FairSpec == Spec /\ Fairness

-----------------------------------------------------------------------------
(* Properties *)

\* The journal, the calls and the turn keep their types, and an attempt that
\* is still open belongs to the current run: a new run closes all others.
TypeOK ==
  /\ cp \in [gen: 0..MaxGen, term: Outcomes, att: Seq(Attempts)]
  /\ Len(cp.att) <= Cardinality(Ids)
  /\ \A i \in DOMAIN cp.att : cp.att[i].term = "active" => cp.att[i].gen = cp.gen
  /\ call \in [Ids -> {"none", "pending", "ended"}]
  /\ owner \in [Ids -> 0..MaxGen]
  /\ job \in [Ids -> {"none", "queued", "changed", "unchanged", "refused"}]
  /\ turn \in {"idle", "running", "draining", "canceling"}
  /\ turnGen \in 0..MaxGen /\ waiting \in 0..MaxGen
  /\ gate \in {"free", "used", "succeeded", "answer", "readback"}

MayChange(i) == job[i] \in {"queued", "changed"}

\* An apply that the barrier, a cancellation or an answer has settled as
\* without effect has not changed the model and never will: a late Revit can
\* not contradict what a retry of the same apply is admitted on.
NoneIsSafe ==
  \A i \in Applies(cp) :
    cp.att[i].term \in {"settled", "reconciled"} /\ cp.att[i].state = "none" => ~MayChange(i)

\* An effect that the journal calls applied, and the change of an Assignment
\* that ends as verified, is in the model: neither a report of the caller, a
\* resolved unknown nor a readback puts one there that Revit did not make.
AppliedIsReal ==
  Applied(cp) # {} \/ cp.term = "verified" =>
    \E i \in Applies(cp) : job[i] = "changed"

\* One turn of the provider never has two applies that may both change the
\* model, also when a newer message supersedes its run while it goes on.
OneChangePerTurn ==
  \A i, j \in Applies(cp) :
    i # j /\ owner[i] = owner[j] => ~(MayChange(i) /\ MayChange(j))

\* The same apply of the same target does not change the model twice: the
\* journal says that it "cannot be replayed unless the prior effect is
\* authoritatively none".
AppliedOnce ==
  \A i, j \in Applies(cp) : job[i] = "changed" /\ job[j] = "changed" => i = j

\* A turn that timed out or was cancelled gets past the settlement barrier,
\* whatever it left in flight.
DrainsEnd ==
  turn \in {"draining", "canceling"} ~> turn = "idle"
=============================================================================
