------------------------- MODULE ControlPlaneProofs -------------------------
(***************************************************************************)
(* Proofs about the control plane, for any number of calls, turns and      *)
(* messages: what the journal says of an apply is true of Revit, and one   *)
(* turn does not change the model twice.                                   *)
(*                                                                         *)
(* The journal part is about one attempt at a time (AttemptInv): an apply  *)
(* that is still active is either as it was opened, where the barrier and  *)
(* a cancellation still take it for dispatched, or unknown on the word of  *)
(* the transport, which neither a timer nor a report of the caller can     *)
(* turn into "none".  Every operation of the reducer touches at most one   *)
(* attempt and keeps this; the handlers and the end of a turn are composed *)
(* of them.  The other part is about the turn: generations tell the calls  *)
(* of two turns apart, and the gate is free only when no apply of the turn *)
(* can still report or take effect.                                        *)
(***************************************************************************)
EXTENDS ControlPlane, FiniteSetTheorems, WellFoundedInduction, TLAPS

Projections == [gen: 0..MaxGen, term: Outcomes, att: Seq(Attempts)]
States == {"none", "unknown", "applied"}
Sources == DOMAIN Rank

(* Revit may still make the change of an apply, or has made it. *)
Open(w, i) == w[i] \in {"queued", "changed"}

(* What the journal knows of attempt i when w is what Revit did. *)
AttemptInv(p, w, i) ==
  LET a == p.att[i]
  IN /\ a.of < i
     /\ a.term = "active" => a.gen = p.gen
     /\ a.term = "superseded" => a.gen < p.gen
     /\ a.state = "applied" => a.kind = "apply"
     /\ a.kind = "apply" /\ a.term = "active" =>
          \/ a.state = "none" /\ a.auth = "control_plane" /\ a.lease = "dispatching"
          \/ a.state = "unknown" /\ a.auth = "dispatch_transport"
     /\ a.kind = "apply" /\ a.term \in {"settled", "reconciled"} /\ a.state = "none" => ~Open(w, i)

Real(w) == \E i \in Ids : w[i] = "changed"

JournalInv(p, w) ==
  /\ p \in Projections
  /\ Len(p.att) <= MaxLooks + MaxApplies + MaxGen
  /\ \A i \in DOMAIN p.att : AttemptInv(p, w, i)
  /\ Applied(p) # {} \/ p.term = "verified" => Real(w)

(* The journal goes from p to q: attempts are neither lost nor made. *)
SameAttempts(p, q) ==
  /\ q.gen = p.gen
  /\ DOMAIN q.att = DOMAIN p.att /\ Len(q.att) = Len(p.att)
  /\ \A j \in DOMAIN p.att : q.att[j].kind = p.att[j].kind

(* ... and only attempt i is touched. *)
Touches(p, q, i) ==
  /\ q \in Projections /\ q.gen = p.gen /\ q.term = p.term
  /\ DOMAIN q.att = DOMAIN p.att /\ Len(q.att) = Len(p.att)
  /\ \A j \in DOMAIN p.att : j # i => q.att[j] = p.att[j]
  /\ q.att[i].kind = p.att[i].kind /\ q.att[i].of = p.att[i].of
  /\ q.att[i].gen = p.att[i].gen /\ q.att[i].purpose = p.att[i].purpose

-----------------------------------------------------------------------------
(* A set of natural numbers has a least element. *)
LEMMA LeastOf ==
  ASSUME NEW S \in SUBSET Nat, S # {}
  PROVE  \E x \in S : \A y \in S : x <= y
<1>1. PICK x \in S : \A y \in S : ~ (<<y, x>> \in OpToRel(<, Nat))
  BY WFMin, NatLessThanWellFounded
<1>2. \A y \in S : ~ (y < x)
  BY <1>1 DEF OpToRel
<1> QED
  BY <1>2

(* Min and Max of a set of attempt numbers are members of it. *)
LEMMA MinFacts ==
  ASSUME NEW S \in SUBSET Nat, S # {}
  PROVE  Min(S) \in S /\ \A y \in S : Min(S) <= y
BY LeastOf DEF Min

LEMMA MaxFacts ==
  ASSUME NEW n \in Nat, NEW S \in SUBSET (1..n), S # {}
  PROVE  Max(S) \in S /\ \A y \in S : y <= Max(S)
<1> DEFINE Bounds == {u \in Nat : \A y \in S : y <= u}
<1>1. n \in Bounds
  OBVIOUS
<1>2. PICK u \in Bounds : \A v \in Bounds : u <= v
  BY <1>1, LeastOf
<1>3. u \in S
  <2>1. SUFFICES ASSUME u \notin S PROVE u - 1 \in Bounds
    BY <1>2
  <2>2. \A y \in S : y <= u - 1 /\ u - 1 \in Nat
    BY <2>1
  <2> QED
    BY <2>2
<1> QED
  BY <1>2, <1>3 DEF Max

(* One attempt is replaced. *)
LEMMA Put ==
  ASSUME NEW p \in Projections, NEW i \in DOMAIN p.att, NEW a \in Attempts
  PROVE  LET q == [p EXCEPT !.att[i] = a]
         IN /\ q \in Projections /\ q.gen = p.gen /\ q.term = p.term
            /\ DOMAIN q.att = DOMAIN p.att /\ Len(q.att) = Len(p.att)
            /\ q.att[i] = a
            /\ \A j \in DOMAIN p.att : j # i => q.att[j] = p.att[j]
BY DEF Projections

(* Touches composes. *)
LEMMA TouchesSelf ==
  ASSUME NEW p \in Projections, NEW i PROVE Touches(p, p, i)
BY DEF Touches

LEMMA TouchesTwice ==
  ASSUME NEW p, NEW q, NEW r, NEW i \in DOMAIN p.att, Touches(p, q, i), Touches(q, r, i)
  PROVE  Touches(p, r, i)
BY DEF Touches

(* An effect was recorded, a lease was recorded. *)
AfterEffect(a, b, st, src, pend) ==
  /\ b.state = st /\ b.auth = src /\ b.dispatch = a.dispatch
  /\ st = "unknown" => b.lease = "effect_unknown" /\ b.term = a.term
  /\ st # "unknown" /\ pend => b.lease = a.lease /\ b.term = a.term
  /\ st # "unknown" /\ ~pend => b.lease = "settled" /\ b.term = "settled"

AfterLease(a, b, l) ==
  /\ b.lease = l
  /\ b.term = IF l \in {"settled", "effect_unknown"} THEN "settled" ELSE a.term

LEMMA EffectFacts ==
  ASSUME NEW p \in Projections, NEW i \in DOMAIN p.att, NEW g, NEW st \in States,
         NEW src \in Sources, NEW pend \in BOOLEAN,
         NEW q, q = EffectRecorded(p, g, i, st, src, pend)
  PROVE  /\ Touches(p, q, i)
         /\ ~(Accepts(p, g) /\ EffectOk(p.att[i], st, src)) => q = p
         /\ Accepts(p, g) /\ EffectOk(p.att[i], st, src) =>
              AfterEffect(p.att[i], q.att[i], st, src, pend)
<1> DEFINE a == p.att[i]
           new == IF st = "unknown" THEN [WithEffect(a, st, src) EXCEPT !.lease = "effect_unknown"]
                  ELSE IF pend THEN WithEffect(a, st, src)
                  ELSE [WithEffect(a, st, src) EXCEPT !.term = "settled", !.lease = "settled"]
<1>1. a \in Attempts
  BY DEF Projections
<1>2. CASE ~(Accepts(p, g) /\ EffectOk(a, st, src))
  BY <1>2, TouchesSelf DEF EffectRecorded
<1>3. CASE Accepts(p, g) /\ EffectOk(a, st, src)
  <2>1. q = [p EXCEPT !.att[i] = new]
    BY <1>3 DEF EffectRecorded
  <2>2. /\ new \in Attempts
        /\ new.kind = a.kind /\ new.of = a.of /\ new.gen = a.gen /\ new.purpose = a.purpose
        /\ new.state = st /\ new.auth = src /\ new.dispatch = a.dispatch
        /\ st = "unknown" => new.lease = "effect_unknown" /\ new.term = a.term
        /\ st # "unknown" /\ pend => new.lease = a.lease /\ new.term = a.term
        /\ st # "unknown" /\ ~pend => new.lease = "settled" /\ new.term = "settled"
    BY <1>1 DEF WithEffect, Attempts, States, Leases, Sources
  <2>3. Touches(p, q, i) /\ q.att[i] = new
    BY <2>1, <2>2, Put DEF Touches
  <2> QED
    BY <1>3, <2>2, <2>3 DEF AfterEffect
<1> QED
  BY <1>2, <1>3
AfterNoted(a, b, st, src) ==
  /\ b.state = st /\ b.auth = src /\ b.dispatch = a.dispatch
  /\ b.lease = IF st = "unknown" THEN "effect_unknown" ELSE a.lease
  /\ b.term = a.term

AfterConfirmed(a, b, st, src) ==
  /\ b.state = st /\ b.auth = src /\ b.dispatch = a.dispatch
  /\ st = "unknown" => b.lease = "effect_unknown" /\ b.term = a.term
  /\ st # "unknown" => b.lease = "settled" /\ b.term = "settled"

Noted(p, g, i, st, src) == EffectRecorded(p, g, i, st, src, TRUE)

(* An effect is recorded while evidence is still pending, and finally. *)
LEMMA NotedFacts ==
  ASSUME NEW p \in Projections, NEW i \in DOMAIN p.att, NEW g, NEW st \in States, NEW src \in Sources
  PROVE  LET q == Noted(p, g, i, st, src)
         IN /\ Touches(p, q, i)
            /\ ~(Accepts(p, g) /\ EffectOk(p.att[i], st, src)) => q = p
            /\ Accepts(p, g) /\ EffectOk(p.att[i], st, src) =>
                 AfterNoted(p.att[i], q.att[i], st, src)
<1> DEFINE q == Noted(p, g, i, st, src)
<1>1. q = EffectRecorded(p, g, i, st, src, TRUE)
  BY DEF Noted
<1> HIDE DEF q
<1>2. /\ Touches(p, q, i)
      /\ ~(Accepts(p, g) /\ EffectOk(p.att[i], st, src)) => q = p
      /\ Accepts(p, g) /\ EffectOk(p.att[i], st, src) =>
           AfterEffect(p.att[i], q.att[i], st, src, TRUE)
  BY <1>1, EffectFacts, Zenon
<1>3. AfterEffect(p.att[i], q.att[i], st, src, TRUE) => AfterNoted(p.att[i], q.att[i], st, src)
  BY DEF AfterEffect, AfterNoted
<1> QED
  BY <1>2, <1>3 DEF q

Confirmed(p, g, i, st, src) == EffectRecorded(p, g, i, st, src, FALSE)

LEMMA ConfirmedFacts ==
  ASSUME NEW p \in Projections, NEW i \in DOMAIN p.att, NEW g, NEW st \in States, NEW src \in Sources
  PROVE  LET q == Confirmed(p, g, i, st, src)
         IN /\ Touches(p, q, i)
            /\ ~(Accepts(p, g) /\ EffectOk(p.att[i], st, src)) => q = p
            /\ Accepts(p, g) /\ EffectOk(p.att[i], st, src) =>
                 AfterConfirmed(p.att[i], q.att[i], st, src)
<1> DEFINE q == Confirmed(p, g, i, st, src)
<1>1. q = EffectRecorded(p, g, i, st, src, FALSE)
  BY DEF Confirmed
<1> HIDE DEF q
<1>2. /\ Touches(p, q, i)
      /\ ~(Accepts(p, g) /\ EffectOk(p.att[i], st, src)) => q = p
      /\ Accepts(p, g) /\ EffectOk(p.att[i], st, src) =>
           AfterEffect(p.att[i], q.att[i], st, src, FALSE)
  BY <1>1, EffectFacts, Zenon
<1>3. AfterEffect(p.att[i], q.att[i], st, src, FALSE) => AfterConfirmed(p.att[i], q.att[i], st, src)
  BY DEF AfterEffect, AfterConfirmed
<1> QED
  BY <1>2, <1>3 DEF q

(* A lease is recorded; an ending one ends the attempt. *)
LEMMA LeaseFacts ==
  ASSUME NEW p \in Projections, NEW i \in DOMAIN p.att, NEW g, NEW l \in Leases
  PROVE  LET q == LeaseRecorded(p, g, i, l)
             a == p.att[i]
             b == q.att[i]
         IN /\ Touches(p, q, i)
            /\ ~Accepts(p, g) => q = p
            /\ b.state = a.state /\ b.auth = a.auth /\ b.dispatch = a.dispatch
            /\ Accepts(p, g) => AfterLease(a, b, l)
<1> DEFINE a == p.att[i]
           new == [a EXCEPT !.lease = l,
                            !.term = IF l \in {"settled", "effect_unknown"} THEN "settled" ELSE @]
           q == LeaseRecorded(p, g, i, l)
<1>1. a \in Attempts
  BY DEF Projections
<1>2. CASE ~Accepts(p, g)
  BY <1>2, TouchesSelf DEF LeaseRecorded
<1>3. CASE Accepts(p, g)
  <2>1. q = [p EXCEPT !.att[i] = new]
    BY <1>1, <1>3 DEF LeaseRecorded, EndingLeases, Projections, Attempts
  <2>2. /\ new \in Attempts
        /\ new.kind = a.kind /\ new.of = a.of /\ new.gen = a.gen /\ new.purpose = a.purpose
        /\ new.state = a.state /\ new.auth = a.auth /\ new.dispatch = a.dispatch
        /\ new.lease = l
        /\ new.term = IF l \in {"settled", "effect_unknown"} THEN "settled" ELSE a.term
    BY <1>1 DEF Attempts, Leases
  <2>3. Touches(p, q, i) /\ q.att[i] = new
    BY <2>1, <2>2, Put DEF Touches
  <2> QED
    BY <1>3, <2>2, <2>3 DEF AfterLease
<1> QED
  BY <1>2, <1>3

(* The end of an attempt, which an unknown effect does not have. *)
LEMMA TerminalFacts ==
  ASSUME NEW p \in Projections, NEW i \in DOMAIN p.att, NEW g
  PROVE  LET q == AttemptTerminal(p, g, i)
             a == p.att[i]
             b == q.att[i]
         IN /\ Touches(p, q, i)
            /\ ~Accepts(p, g) \/ a.state = "unknown" => q = p
            /\ b.state = a.state /\ b.auth = a.auth /\ b.dispatch = a.dispatch
            /\ Accepts(p, g) /\ a.state # "unknown" => b.lease = "settled" /\ b.term = "settled"
<1> DEFINE a == p.att[i]
           new == [a EXCEPT !.term = "settled", !.lease = "settled"]
           q == AttemptTerminal(p, g, i)
<1>1. a \in Attempts
  BY DEF Projections
<1>2. CASE ~Accepts(p, g) \/ a.state = "unknown"
  BY <1>2, TouchesSelf DEF AttemptTerminal
<1>3. CASE Accepts(p, g) /\ a.state # "unknown"
  <2>1. q = [p EXCEPT !.att[i] = new]
    BY <1>1, <1>3 DEF AttemptTerminal, Projections, Attempts
  <2>2. /\ new \in Attempts
        /\ new.kind = a.kind /\ new.of = a.of /\ new.gen = a.gen /\ new.purpose = a.purpose
        /\ new.state = a.state /\ new.auth = a.auth /\ new.dispatch = a.dispatch
        /\ new.lease = "settled" /\ new.term = "settled"
    BY <1>1 DEF Attempts, Leases
  <2>3. Touches(p, q, i) /\ q.att[i] = new
    BY <2>1, <2>2, Put DEF Touches
  <2> QED
    BY <1>3, <2>2, <2>3
<1> QED
  BY <1>2, <1>3

(* The dispatch and the effect it implies. *)
LEMMA DispatchFacts ==
  ASSUME NEW p \in Projections, NEW i \in DOMAIN p.att,
         NEW st \in {"not_dispatched", "acknowledged"}
  PROVE  LET q == DispatchRecorded(p, i, st)
             a == p.att[i]
             b == q.att[i]
         IN /\ Touches(p, q, i)
            /\ b.state = Dispatched(a, st).state /\ b.auth = Dispatched(a, st).auth
            /\ b.dispatch = st
            /\ st = "acknowledged" => b.lease = "dispatched" /\ b.term = a.term
            /\ st = "not_dispatched" => b.lease = "settled" /\ b.term = "settled"
<1> DEFINE a == p.att[i]
           e == Dispatched(a, st)
           b0 == [WithEffect(a, e.state, e.auth) EXCEPT !.dispatch = st]
           new == IF st = "acknowledged" THEN [b0 EXCEPT !.lease = "dispatched"]
                  ELSE [b0 EXCEPT !.term = "settled", !.lease = "settled"]
           q == DispatchRecorded(p, i, st)
<1>1. a \in Attempts
  BY DEF Projections
<1>2. e.state \in States /\ e.auth \in Sources
  BY <1>1 DEF Dispatched, States, Sources, Attempts, Rank
<1>3. q = [p EXCEPT !.att[i] = new]
  BY DEF DispatchRecorded
<1> HIDE DEF e
<1>4. /\ new \in Attempts
      /\ new.kind = a.kind /\ new.of = a.of /\ new.gen = a.gen /\ new.purpose = a.purpose
      /\ new.state = e.state /\ new.auth = e.auth /\ new.dispatch = st
      /\ st = "acknowledged" => new.lease = "dispatched" /\ new.term = a.term
      /\ st = "not_dispatched" => new.lease = "settled" /\ new.term = "settled"
  BY <1>1, <1>2 DEF WithEffect, Attempts, States, Leases, Sources
<1>5. Touches(p, q, i) /\ q.att[i] = new
  BY <1>3, <1>4, Put DEF Touches
<1> QED
  BY <1>4, <1>5 DEF e
(* The ranks of the sources. *)
LEMMA RankFacts ==
  /\ \A s \in DOMAIN Rank : Rank[s] \in 0..5
  /\ Rank["control_plane"] = 0 /\ Rank["caller_report"] = 1
  /\ Rank["admission_policy"] = 2 /\ Rank["transport_pre_dispatch"] = 2
  /\ Rank["dispatch_transport"] = 3 /\ Rank["worker"] = 3
  /\ Rank["native_host"] = 4 /\ Rank["native_transaction"] = 4 /\ Rank["native_rollback"] = 4
  /\ Rank["target_readback"] = 5
  /\ DOMAIN Rank = {"control_plane", "caller_report", "admission_policy",
                    "transport_pre_dispatch", "dispatch_transport", "worker", "native_host",
                    "native_transaction", "native_rollback", "target_readback"}
BY DEF Rank

(* What a call may answer about attempt i, when w is what Revit did. *)
MayAnswer(p, w, i, ans, did) ==
  /\ ans \in Answer /\ did \in {"changed", "unchanged", "refused", "lost"}
  /\ did = "lost" => ans = "report"
  /\ p.att[i].kind = "apply" /\ did # "lost" => w[i] = did
  /\ p.att[i].kind # "apply" => did # "changed"

(* What the effect of an answer may be. *)
ResultOk(a, w, i, did, e) ==
  /\ e.state \in States /\ e.auth \in Sources
  /\ e.state = "applied" => a.kind = "apply" /\ w[i] = "changed"
  /\ did = "changed" /\ e.state = "none" => e.auth = "transport_pre_dispatch"
  /\ did = "lost" /\ a.kind = "apply" => e.state = "unknown"

(* An answer says "applied" only when Revit made the change. *)
LEMMA ToolResultFacts ==
  ASSUME NEW p \in Projections, NEW w, NEW i \in DOMAIN p.att, NEW ans, NEW did,
         MayAnswer(p, w, i, ans, did)
  PROVE  ResultOk(p.att[i], w, i, did, ToolResultEffect(p.att[i], ans, did))
<1>1. p.att[i] \in Attempts
  BY DEF Projections
<1>2. p.att[i].kind \in Kinds
  BY <1>1 DEF Attempts
<1> QED
  BY <1>2, RankFacts DEF ResultOk, ToolResultEffect, Settlement, MayAnswer, Answer, States, Sources, Kinds

(* After an answer was journaled an apply is "none" only if Revit will not
   make the change: the dispatch first makes the effect unknown, and only a
   native settlement may then make it none. *)
LEMMA JournalResultFacts ==
  ASSUME NEW p \in Projections, NEW w, NEW i \in DOMAIN p.att, AttemptInv(p, w, i),
         Accepts(p, p.att[i].gen), NEW ans, NEW did, MayAnswer(p, w, i, ans, did)
  PROVE  LET q == JournalResult(p, i, ans, did)
             a == p.att[i]
             b == q.att[i]
         IN /\ Touches(p, q, i)
            /\ a.kind = "apply" /\ b.state = "none" => ~Open(w, i)
            /\ b.state = "applied" => a.kind = "apply" /\ (a.state = "applied" \/ w[i] = "changed")
<1> DEFINE a == p.att[i]
           st == IF did = "refused" THEN "not_dispatched" ELSE "acknowledged"
           e == ToolResultEffect(a, ans, did)
           r == DispatchRecorded(p, i, st)
           q == JournalResult(p, i, ans, did)
<1>1. /\ a \in Attempts /\ p.gen \in 0..MaxGen /\ p.gen = a.gen /\ p.term = "open"
      /\ st \in {"not_dispatched", "acknowledged"}
  BY DEF Projections, Accepts
<1>2. a.term # "superseded"
  BY <1>1, BoundsAssumption DEF AttemptInv
<1>3. ResultOk(a, w, i, did, e)
  BY ToolResultFacts
<1>4. CASE ~DispatchOk(p, a.gen, i, st)
  <2>1. q = p
    BY <1>4 DEF JournalResult
  <2>2. CASE a.kind = "apply" /\ a.term = "active" /\ did # "refused"
    <3>1. Dispatched(a, st) = [state |-> "unknown", auth |-> "dispatch_transport"]
      BY <2>2 DEF Dispatched
    <3>2. EffectOk(a, "unknown", "dispatch_transport")
      BY <2>2, RankFacts DEF EffectOk, AttemptInv
    <3> QED
      BY <1>1, <1>4, <2>2, <3>1, <3>2 DEF DispatchOk
  <2>3. CASE a.kind = "apply" /\ did = "refused"
    BY <2>1, <2>3, TouchesSelf DEF Open, MayAnswer, AttemptInv
  <2>4. CASE a.kind # "apply" \/ a.term # "active"
    BY <1>1, <1>2, <2>1, <2>4, TouchesSelf DEF AttemptInv, Attempts
  <2> QED
    BY <2>2, <2>3, <2>4
<1>5. CASE DispatchOk(p, a.gen, i, st)
  <2>1. q = Noted(r, a.gen, i, e.state, e.auth)
    BY <1>5 DEF JournalResult, Noted
  <2>2. /\ Touches(p, r, i)
        /\ r.att[i].state = Dispatched(a, st).state /\ r.att[i].auth = Dispatched(a, st).auth
    BY <1>1, DispatchFacts
  <2>3. r \in Projections /\ i \in DOMAIN r.att /\ r.att[i].kind = a.kind /\ Accepts(r, a.gen)
    BY <1>1, <2>2 DEF Touches, Accepts
  <2> HIDE DEF e, r, q
  <2>4. /\ Touches(r, q, i)
        /\ ~EffectOk(r.att[i], e.state, e.auth) => q = r
        /\ EffectOk(r.att[i], e.state, e.auth) => q.att[i].state = e.state
    <3>1. e.state \in States /\ e.auth \in Sources
      BY <1>3 DEF ResultOk
    <3>2. /\ Touches(r, q, i)
          /\ ~(Accepts(r, a.gen) /\ EffectOk(r.att[i], e.state, e.auth)) => q = r
          /\ Accepts(r, a.gen) /\ EffectOk(r.att[i], e.state, e.auth) =>
               AfterNoted(r.att[i], q.att[i], e.state, e.auth)
      BY <2>1, <2>3, <3>1, NotedFacts
    <3> QED
      BY <2>3, <3>2 DEF AfterNoted
  <2>5. Touches(p, q, i)
    BY <2>2, <2>4, TouchesTwice
  <2>6. /\ Dispatched(a, st).state = "applied" => a.state = "applied" /\ a.kind # "apply"
        /\ a.kind = "apply" /\ did # "refused" =>
             Dispatched(a, st).state = "unknown" /\ Dispatched(a, st).auth = "dispatch_transport"
    BY DEF Dispatched
  <2>7. q.att[i].state = "applied" => a.kind = "apply" /\ (a.state = "applied" \/ w[i] = "changed")
    BY <1>3, <2>2, <2>4, <2>6 DEF AttemptInv, ResultOk
  <2>8. ASSUME a.kind = "apply", q.att[i].state = "none", Open(w, i) PROVE FALSE
    <3>1. did \in {"changed", "lost"}
      BY <2>8 DEF MayAnswer, Open
    <3>2. r.att[i].state = "unknown" /\ r.att[i].auth = "dispatch_transport"
      BY <2>2, <2>6, <2>8, <3>1
    <3>3. e.state = "none" /\ e.auth = "transport_pre_dispatch"
      BY <1>3, <2>4, <2>8, <3>1, <3>2 DEF ResultOk
    <3>4. ~EffectOk(r.att[i], e.state, e.auth)
      BY <3>2, <3>3, RankFacts DEF EffectOk
    <3> QED
      BY <2>4, <2>8, <3>2, <3>4
  <2> QED
    BY <2>5, <2>7, <2>8 DEF q
<1> QED
  BY <1>4, <1>5
(* Attempt i ends as settled and keeps what is known of its effect. *)
Ends(p, q, i) ==
  Touches(p, q, i) /\ q.att[i].term = "settled" /\ q.att[i].state = p.att[i].state

LEMMA TouchedAccepts ==
  ASSUME NEW p, NEW q, NEW i \in DOMAIN p.att, NEW g, Touches(p, q, i)
  PROVE  q \in Projections /\ i \in DOMAIN q.att /\ (Accepts(q, g) <=> Accepts(p, g))
BY DEF Touches, Accepts

LEMMA AttemptFields ==
  ASSUME NEW p \in Projections, NEW i \in DOMAIN p.att
  PROVE  /\ p.att[i] \in Attempts
         /\ p.att[i].state \in States /\ p.att[i].auth \in Sources
         /\ p.att[i].kind \in Kinds /\ p.att[i].lease \in Leases
         /\ p.att[i].gen \in 1..MaxGen /\ p.att[i].of \in {0} \cup Ids
         /\ p.att[i].term \in {"active", "settled", "superseded", "reconciled"}
         /\ p.gen \in 0..MaxGen /\ p.term \in Outcomes
<1>1. p.att[i] \in Attempts /\ p.gen \in 0..MaxGen /\ p.term \in Outcomes
  BY DEF Projections
<1> QED
  BY <1>1 DEF Attempts, States, Sources

(* Evidence, retained or not, ends the attempt and leaves its effect. *)
LEMMA SettleEvidenceFacts ==
  ASSUME NEW p \in Projections, NEW i \in DOMAIN p.att, Accepts(p, p.att[i].gen)
  PROVE  Ends(p, SettleEvidence(p, i), i)
<1> DEFINE a == p.att[i]
           r == Confirmed(p, a.gen, i, a.state, a.auth)
           l == LeaseRecorded(r, a.gen, i, "retaining_evidence")
           q == SettleEvidence(p, i)
<1>1. /\ Touches(p, r, i)
      /\ ~(Accepts(p, a.gen) /\ EffectOk(a, a.state, a.auth)) => r = p
      /\ Accepts(p, a.gen) /\ EffectOk(a, a.state, a.auth) =>
           AfterConfirmed(a, r.att[i], a.state, a.auth)
  BY AttemptFields, ConfirmedFacts
<1>2. /\ r \in Projections /\ i \in DOMAIN r.att /\ Accepts(r, a.gen)
      /\ r.att[i].state = a.state
  BY <1>1, TouchedAccepts DEF AfterConfirmed
<1>3. "effect_unknown" \in Leases /\ "retaining_evidence" \in Leases
  BY DEF Leases
<1>4. q = IF a.state = "unknown" THEN LeaseRecorded(r, a.gen, i, "effect_unknown")
          ELSE AttemptTerminal(l, a.gen, i)
  BY DEF SettleEvidence, Confirmed
<1> HIDE DEF r, q
<1>5. CASE a.state = "unknown"
  <2>1. Touches(r, q, i) /\ q.att[i].state = a.state /\ AfterLease(r.att[i], q.att[i], "effect_unknown")
    BY <1>2, <1>3, <1>4, <1>5, LeaseFacts
  <2> QED
    BY <1>1, <2>1, TouchesTwice DEF Ends, AfterLease, q
<1>6. CASE a.state # "unknown"
  <2>1. Touches(r, l, i) /\ l.att[i].state = a.state
    BY <1>2, <1>3, LeaseFacts
  <2>2. l \in Projections /\ i \in DOMAIN l.att /\ Accepts(l, a.gen)
    BY <1>2, <2>1, TouchedAccepts
  <2> HIDE DEF l
  <2>3. q = AttemptTerminal(l, a.gen, i)
    BY <1>4, <1>6
  <2>4. Touches(l, q, i) /\ q.att[i].state = a.state /\ q.att[i].term = "settled"
    BY <1>6, <2>1, <2>2, <2>3, TerminalFacts
  <2> QED
    BY <1>1, <2>1, <2>4, TouchesTwice DEF Ends, q
<1> QED
  BY <1>5, <1>6

LEMMA FailEvidenceFacts ==
  ASSUME NEW p \in Projections, NEW i \in DOMAIN p.att, NEW g, Accepts(p, g)
  PROVE  Ends(p, IF p.att[i].state = "unknown" THEN LeaseRecorded(p, g, i, "effect_unknown")
                 ELSE AttemptTerminal(p, g, i), i)
<1>1. "effect_unknown" \in Leases
  BY DEF Leases
<1>2. CASE p.att[i].state = "unknown"
  <2> DEFINE q == LeaseRecorded(p, g, i, "effect_unknown")
  <2>1. Touches(p, q, i) /\ q.att[i].state = p.att[i].state
        /\ AfterLease(p.att[i], q.att[i], "effect_unknown")
    BY <1>1, LeaseFacts
  <2> QED
    BY <1>2, <2>1 DEF Ends, AfterLease
<1>3. CASE p.att[i].state # "unknown"
  BY <1>3, TerminalFacts DEF Ends
<1> QED
  BY <1>2, <1>3

(* What an answer leaves of its attempt. *)
Settles(p, q, w, i) ==
  /\ Touches(p, q, i)
  /\ q.att[i].term = "settled"
  /\ p.att[i].kind = "apply" /\ q.att[i].state = "none" => ~Open(w, i)
  /\ q.att[i].state = "applied" =>
       p.att[i].kind = "apply" /\ (p.att[i].state = "applied" \/ w[i] = "changed")

(* An answer is refused as a whole or settles its attempt. *)
LEMMA NativeResultFacts ==
  ASSUME NEW p \in Projections, NEW w, NEW i \in DOMAIN p.att, AttemptInv(p, w, i),
         NEW ans, NEW did, MayAnswer(p, w, i, ans, did), NEW retained \in BOOLEAN,
         NEW q, q = NativeResult(p, i, ans, did, retained)
  PROVE  q = p \/ Settles(p, q, w, i)
<1> DEFINE a == p.att[i]
           j == JournalResult(p, i, ans, did)
           t == LeaseRecorded(j, a.gen, i, "retaining_evidence")
<1>1. CASE ~Accepts(p, a.gen)
  BY <1>1 DEF NativeResult
<1>2. CASE Accepts(p, a.gen)
  <2>1. /\ Touches(p, j, i)
        /\ a.kind = "apply" /\ j.att[i].state = "none" => ~Open(w, i)
        /\ j.att[i].state = "applied" => a.kind = "apply" /\ (a.state = "applied" \/ w[i] = "changed")
    BY <1>2, JournalResultFacts
  <2>2. j \in Projections /\ i \in DOMAIN j.att /\ Accepts(j, a.gen)
    BY <1>2, <2>1, TouchedAccepts
  <2>3. q = IF retained THEN SettleEvidence(t, i) ELSE FailEvidence(t, i)
    BY <1>2 DEF NativeResult
  <2> HIDE DEF j
  <2>4. Touches(j, t, i) /\ t.att[i].state = j.att[i].state
    <3>1. "retaining_evidence" \in Leases
      BY DEF Leases
    <3> QED
      BY <2>2, <3>1, LeaseFacts
  <2>5. t \in Projections /\ i \in DOMAIN t.att /\ Accepts(t, t.att[i].gen)
    <3>1. t.att[i].gen = a.gen
      BY <2>1, <2>4 DEF Touches
    <3> QED
      BY <2>2, <2>4, <3>1, TouchedAccepts
  <2> HIDE DEF t
  <2>6. Ends(t, q, i)
    <3>1. Ends(t, SettleEvidence(t, i), i)
      BY <2>5, SettleEvidenceFacts
    <3>2. Ends(t, FailEvidence(t, i), i)
      BY <2>5, FailEvidenceFacts DEF FailEvidence
    <3> QED
      BY <2>3, <3>1, <3>2
  <2>7. Touches(p, q, i)
    BY <2>1, <2>4, <2>6, TouchesTwice DEF Ends
  <2>8. q.att[i].state = j.att[i].state /\ q.att[i].term = "settled"
    BY <2>4, <2>6 DEF Ends
  <2> QED
    BY <2>1, <2>7, <2>8 DEF Settles
<1> QED
  BY <1>1, <1>2

(* So does a call that was lost after it was handed over. *)
LEMMA FailAfterDispatchFacts ==
  ASSUME NEW p \in Projections, NEW w, NEW i \in DOMAIN p.att, AttemptInv(p, w, i),
         NEW q, q = FailAfterDispatch(p, i)
  PROVE  q = p \/ Settles(p, q, w, i)
<1> DEFINE a == p.att[i]
           j == JournalResult(p, i, "report", "lost")
<1>1. CASE ~Accepts(p, a.gen)
  BY <1>1 DEF FailAfterDispatch
<1>2. CASE Accepts(p, a.gen)
  <2>1. MayAnswer(p, w, i, "report", "lost")
    BY DEF MayAnswer, Answer
  <2>2. /\ Touches(p, j, i)
        /\ a.kind = "apply" /\ j.att[i].state = "none" => ~Open(w, i)
        /\ j.att[i].state = "applied" => a.kind = "apply" /\ (a.state = "applied" \/ w[i] = "changed")
    BY <1>2, <2>1, JournalResultFacts
  <2>3. j \in Projections /\ i \in DOMAIN j.att /\ Accepts(j, a.gen)
    BY <1>2, <2>2, TouchedAccepts
  <2>4. q = IF j.att[i].state = "unknown" THEN LeaseRecorded(j, a.gen, i, "effect_unknown")
            ELSE AttemptTerminal(j, a.gen, i)
    BY <1>2 DEF FailAfterDispatch
  <2> HIDE DEF j
  <2>5. Ends(j, q, i)
    BY <2>3, <2>4, FailEvidenceFacts
  <2>6. Touches(p, q, i)
    BY <2>2, <2>5, TouchesTwice DEF Ends
  <2> QED
    BY <2>2, <2>5, <2>6 DEF Ends, Settles
<1> QED
  BY <1>1, <1>2
-----------------------------------------------------------------------------
(* What the operations of the journal keep *)

Kept(p, q, w) == JournalInv(q, w) /\ SameAttempts(p, q)

LEMMA KeptSelf ==
  ASSUME NEW p, NEW w, JournalInv(p, w) PROVE Kept(p, p, w)
BY DEF Kept, SameAttempts

LEMMA KeptTwice ==
  ASSUME NEW p, NEW q, NEW r, NEW w, Kept(p, q, w), Kept(q, r, w) PROVE Kept(p, r, w)
BY DEF Kept, SameAttempts

(* The attempts are numbered from 1, and applies and applied ones are among them. *)
LEMMA DomainFacts ==
  ASSUME NEW p, NEW w, JournalInv(p, w)
  PROVE  /\ Len(p.att) \in Nat /\ DOMAIN p.att = 1..Len(p.att)
         /\ DOMAIN p.att \subseteq Ids
         /\ Applies(p) \subseteq DOMAIN p.att /\ Applied(p) \subseteq DOMAIN p.att
         /\ \A i : i \in Applies(p) <=> i \in DOMAIN p.att /\ p.att[i].kind = "apply"
         /\ \A i : i \in Applied(p) <=> i \in DOMAIN p.att /\ p.att[i].state = "applied"
<1>1. p.att \in Seq(Attempts) /\ Len(p.att) <= MaxLooks + MaxApplies + MaxGen
  BY DEF JournalInv, Projections
<1>2. Len(p.att) \in Nat /\ DOMAIN p.att = 1..Len(p.att) /\ DOMAIN p.att \subseteq Ids
  BY <1>1, BoundsAssumption DEF Ids
<1> QED
  BY <1>2 DEF Applies, Applied, Where

(* An operation on one attempt keeps the invariant when that attempt does. *)
LEMMA TouchedKept ==
  ASSUME NEW p, NEW q, NEW w, NEW i \in DOMAIN p.att, JournalInv(p, w), Touches(p, q, i),
         AttemptInv(q, w, i),
         q.att[i].state = "applied" => p.att[i].state = "applied" \/ Real(w)
  PROVE  Kept(p, q, w)
<1>1. q \in Projections /\ Len(q.att) <= MaxLooks + MaxApplies + MaxGen
  BY DEF Touches, JournalInv
<1>2. ASSUME NEW j \in DOMAIN q.att PROVE AttemptInv(q, w, j)
  BY <1>2 DEF JournalInv, Touches, AttemptInv
<1>3. Applied(q) # {} \/ q.term = "verified" => Real(w)
  BY DEF Touches, JournalInv, Applied, Where
<1>4. SameAttempts(p, q)
  BY DEF Touches, SameAttempts
<1> QED
  BY <1>1, <1>2, <1>3, <1>4 DEF Kept, JournalInv

LEMMA SettlesKept ==
  ASSUME NEW p, NEW q, NEW w, NEW i \in DOMAIN p.att, JournalInv(p, w),
         q = p \/ Settles(p, q, w, i)
  PROVE  Kept(p, q, w)
<1>1. CASE q = p
  BY <1>1, KeptSelf
<1>2. CASE Settles(p, q, w, i)
  <2>1. AttemptInv(p, w, i) /\ i \in Ids
    BY DomainFacts DEF JournalInv
  <2>2. Touches(p, q, i)
    BY <1>2 DEF Settles
  <2>3. AttemptInv(q, w, i)
    BY <1>2, <2>1 DEF AttemptInv, Settles, Touches
  <2>4. q.att[i].state = "applied" => p.att[i].state = "applied" \/ Real(w)
    BY <1>2, <2>1 DEF Settles, Real
  <2> QED
    BY <2>2, <2>3, <2>4, TouchedKept
<1> QED
  BY <1>1, <1>2

(* An Assignment that ends otherwise than verified keeps its journal. *)
LEMMA TerminalKept ==
  ASSUME NEW p, NEW w, JournalInv(p, w), NEW g, NEW outcome \in {"blocked", "failed", "canceled"}
  PROVE  Kept(p, AssignmentTerminal(p, g, outcome), w)
<1> DEFINE q == AssignmentTerminal(p, g, outcome)
<1>1. CASE q = p
  BY <1>1, KeptSelf
<1>2. CASE q = [p EXCEPT !.term = outcome]
  <2>1. p \in Projections
    BY DEF JournalInv
  <2>2. q \in Projections /\ q.gen = p.gen /\ q.att = p.att /\ q.term # "verified"
    BY <1>2, <2>1 DEF Projections, Outcomes
  <2> HIDE DEF q
  <2>3. \A j \in DOMAIN q.att : AttemptInv(q, w, j)
    BY <2>2 DEF JournalInv, AttemptInv
  <2>4. Applied(q) # {} => Real(w)
    BY <2>2 DEF JournalInv, Applied, Where
  <2>5. SameAttempts(p, q) /\ Len(q.att) <= MaxLooks + MaxApplies + MaxGen
    BY <2>2 DEF SameAttempts, JournalInv
  <2> QED
    BY <2>2, <2>3, <2>4, <2>5 DEF Kept, JournalInv, q
<1> QED
  BY <1>1, <1>2 DEF AssignmentTerminal

LEMMA ProgressKept ==
  ASSUME NEW p, NEW q, NEW w, Kept(p, q, w), NEW stop \in BOOLEAN
  PROVE  Kept(p, Progress(q, stop), w)
<1>1. CASE stop
  <2>1. Kept(q, AssignmentTerminal(q, q.gen, "blocked"), w)
    BY TerminalKept DEF Kept
  <2> QED
    BY <1>1, <2>1, KeptTwice DEF Progress
<1>2. CASE ~stop
  BY <1>2 DEF Progress
<1> QED
  BY <1>1, <1>2

(* A new run closes the attempts of the old one and keeps their effects. *)
LEMMA RunStartedKept ==
  ASSUME NEW p, NEW w, JournalInv(p, w), p.gen < MaxGen,
         NEW q, q = RunStarted(p)
  PROVE  /\ JournalInv(q, w) /\ q.gen = p.gen + 1
         /\ DOMAIN q.att = DOMAIN p.att /\ Len(q.att) = Len(p.att)
         /\ \A j \in DOMAIN p.att : q.att[j].kind = p.att[j].kind
<1> DEFINE new == [i \in DOMAIN p.att |-> IF p.att[i].term = "active"
                     THEN [p.att[i] EXCEPT !.term = "superseded"] ELSE p.att[i]]
<1>1. p \in Projections /\ p.gen \in 0..MaxGen /\ p.att \in Seq(Attempts)
  BY DEF JournalInv, Projections
<1>2. q = [p EXCEPT !.gen = @ + 1, !.att = new]
  BY DEF RunStarted
<1>3. ASSUME NEW i \in DOMAIN p.att
      PROVE  /\ new[i] \in Attempts /\ new[i].kind = p.att[i].kind /\ new[i].of = p.att[i].of
             /\ new[i].gen = p.att[i].gen /\ new[i].state = p.att[i].state
             /\ new[i].term = IF p.att[i].term = "active" THEN "superseded" ELSE p.att[i].term
  BY <1>1, AttemptFields DEF Attempts
<1>4. new \in Seq(Attempts) /\ Len(new) = Len(p.att) /\ DOMAIN new = DOMAIN p.att
  <2>1. Len(p.att) \in Nat /\ DOMAIN p.att = 1..Len(p.att)
    BY DomainFacts
  <2>2. new \in [1..Len(p.att) -> Attempts]
    BY <1>3, <2>1
  <2> QED
    BY <2>1, <2>2
<1> HIDE DEF new
<1>5. q \in Projections /\ q.gen = p.gen + 1 /\ q.term = p.term /\ q.att = new
  <2>1. p.gen + 1 \in 0..MaxGen
    BY <1>1, BoundsAssumption
  <2> QED
    BY <1>1, <1>2, <1>4, <2>1 DEF Projections
<1>6. ASSUME NEW i \in DOMAIN q.att PROVE AttemptInv(q, w, i)
  <2>1. AttemptInv(p, w, i) /\ i \in DOMAIN p.att
    BY <1>4, <1>5 DEF JournalInv
  <2>2. p.att[i].gen \in Nat /\ p.gen \in Nat
    BY <1>1, <2>1, AttemptFields, BoundsAssumption
  <2>3. CASE p.att[i].term = "active"
    BY <1>3, <1>5, <2>1, <2>2, <2>3 DEF AttemptInv
  <2>4. CASE p.att[i].term # "active"
    BY <1>3, <1>5, <2>1, <2>2, <2>4 DEF AttemptInv
  <2> QED
    BY <2>3, <2>4
<1>7. Applied(q) # {} \/ q.term = "verified" => Real(w)
  BY <1>3, <1>4, <1>5 DEF JournalInv, Applied, Where
<1> QED
  BY <1>3, <1>4, <1>5, <1>6, <1>7 DEF JournalInv

(* An attempt is opened. *)
LEMMA OpenedFacts ==
  ASSUME NEW p, NEW w, JournalInv(p, w), p.gen # 0, Len(p.att) < MaxLooks + MaxApplies + MaxGen,
         NEW kind \in Kinds, NEW purpose \in Purposes, NEW of \in 0..Len(p.att),
         NEW q, q = Opened(p, kind, purpose, of)
  PROVE  /\ JournalInv(q, w) /\ q.gen = p.gen /\ q.term = p.term
         /\ Len(q.att) = Len(p.att) + 1 /\ DOMAIN q.att = DOMAIN p.att \cup {Len(p.att) + 1}
         /\ \A j \in DOMAIN p.att : q.att[j] = p.att[j]
         /\ q.att[Len(p.att) + 1].kind = kind /\ q.att[Len(p.att) + 1].purpose = purpose
         /\ q.att[Len(p.att) + 1].of = of
<1> DEFINE n == Len(p.att) + 1
           new == [kind |-> kind, purpose |-> purpose, of |-> of, gen |-> p.gen,
                   term |-> "active", lease |-> "dispatching", dispatch |-> "not_dispatched",
                   state |-> "none", auth |-> "control_plane"]
<1>1. p \in Projections /\ p.gen \in 1..MaxGen /\ p.att \in Seq(Attempts)
      /\ Len(p.att) \in Nat /\ DOMAIN p.att = 1..Len(p.att)
  BY DEF JournalInv, Projections
<1>2. new \in Attempts
  BY <1>1, RankFacts, BoundsAssumption DEF Attempts, Ids, Leases
<1>3. q = [p EXCEPT !.att = Append(@, new)]
  BY DEF Opened
<1> HIDE DEF new
<1>4. /\ q \in Projections /\ q.gen = p.gen /\ q.term = p.term
      /\ Len(q.att) = n /\ DOMAIN q.att = DOMAIN p.att \cup {n}
      /\ q.att[n] = new /\ \A j \in DOMAIN p.att : q.att[j] = p.att[j]
  <2>1. q \in Projections /\ q.gen = p.gen /\ q.term = p.term /\ q.att = Append(p.att, new)
    <3>1. Append(p.att, new) \in Seq(Attempts)
      BY <1>1, <1>2
    <3> QED
      BY <1>1, <1>3, <3>1 DEF Projections
  <2>2. /\ Len(Append(p.att, new)) = n /\ DOMAIN Append(p.att, new) = 1..n
        /\ Append(p.att, new)[n] = new
        /\ \A j \in 1..Len(p.att) : Append(p.att, new)[j] = p.att[j]
    BY <1>1, <1>2
  <2>3. 1..n = 1..Len(p.att) \cup {n}
    BY <1>1
  <2> QED
    BY <1>1, <2>1, <2>2, <2>3
<1>5. ASSUME NEW i \in DOMAIN q.att PROVE AttemptInv(q, w, i)
  <2>1. CASE i = n
    BY <1>1, <1>4, <2>1 DEF AttemptInv, new
  <2>2. CASE i \in DOMAIN p.att
    BY <1>4, <2>2 DEF AttemptInv, JournalInv
  <2> QED
    BY <1>4, <2>1, <2>2
<1>6. Applied(q) # {} \/ q.term = "verified" => Real(w)
  BY <1>4 DEF JournalInv, Applied, Where, new
<1> QED
  BY <1>1, <1>4, <1>5, <1>6, BoundsAssumption DEF JournalInv, new
LEMMA InFlightFacts ==
  ASSUME NEW p, NEW w, JournalInv(p, w), NEW i \in InFlight(p)
  PROVE  /\ i \in DOMAIN p.att /\ p \in Projections /\ AttemptInv(p, w, i)
         /\ p.att[i].term = "active" /\ p.att[i].gen = p.gen
BY DEF InFlight, Where, JournalInv

(* The barrier or a cancellation calls a dispatched apply unknown. *)
LEMMA CalledUnknown ==
  ASSUME NEW p \in Projections, NEW w, NEW i \in DOMAIN p.att, AttemptInv(p, w, i),
         p.att[i].term = "active", p.att[i].kind = "apply", p.term = "open",
         NEW l \in {"effect_unknown", "canceled_after_dispatch"},
         NEW q, q = LeaseRecorded(Noted(p, p.gen, i, "unknown", "dispatch_transport"), p.gen, i, l)
  PROVE  Touches(p, q, i) /\ AttemptInv(q, w, i) /\ q.att[i].state = "unknown"
<1> DEFINE u == Noted(p, p.gen, i, "unknown", "dispatch_transport")
<1>1. "unknown" \in States /\ "dispatch_transport" \in Sources /\ l \in Leases
  BY RankFacts DEF States, Sources, Leases
<1>2. Accepts(p, p.gen) /\ EffectOk(p.att[i], "unknown", "dispatch_transport")
  BY RankFacts DEF Accepts, EffectOk, AttemptInv
<1>3. Touches(p, u, i) /\ AfterNoted(p.att[i], u.att[i], "unknown", "dispatch_transport")
  BY <1>1, <1>2, NotedFacts
<1>4. u \in Projections /\ i \in DOMAIN u.att /\ Accepts(u, p.gen)
  BY <1>2, <1>3, TouchedAccepts
<1> HIDE DEF u
<1>5. Touches(u, q, i) /\ AfterLease(u.att[i], q.att[i], l)
      /\ q.att[i].state = u.att[i].state /\ q.att[i].auth = u.att[i].auth
  BY <1>1, <1>4, LeaseFacts DEF u
<1>6. Touches(p, q, i)
  BY <1>3, <1>5, TouchesTwice
<1>7. /\ q.att[i].state = "unknown" /\ q.att[i].auth = "dispatch_transport"
      /\ q.att[i].term \in {"active", "settled"}
  BY <1>3, <1>5 DEF AfterNoted, AfterLease
<1>8. AttemptInv(q, w, i)
  BY <1>6, <1>7 DEF AttemptInv, Touches
<1> QED
  BY <1>6, <1>7, <1>8

(* The deadline of an attempt passes. *)
LEMMA SettleExpiredKept ==
  ASSUME NEW p, NEW w, JournalInv(p, w), NEW i \in InFlight(p), p.term = "open"
  PROVE  Kept(p, SettleExpired(p, i), w)
<1> DEFINE a == p.att[i]
           src == IF MayHaveDispatched(a) THEN "worker" ELSE "transport_pre_dispatch"
           u == Noted(p, p.gen, i, "none", src)
           q == SettleExpired(p, i)
<1>1. /\ i \in DOMAIN p.att /\ p \in Projections /\ AttemptInv(p, w, i)
      /\ a.term = "active" /\ a.gen = p.gen
  BY InFlightFacts
<1>2. "none" \in States /\ src \in Sources
  BY RankFacts DEF States, Sources
<1>3. /\ Touches(p, u, i)
      /\ ~(Accepts(p, p.gen) /\ EffectOk(a, "none", src)) => u = p
      /\ Accepts(p, p.gen) /\ EffectOk(a, "none", src) => AfterNoted(a, u.att[i], "none", src)
  BY <1>1, <1>2, NotedFacts
<1>4. u \in Projections /\ i \in DOMAIN u.att
  BY <1>1, <1>3, TouchedAccepts
<1>5. CASE a.kind = "apply" /\ MayHaveDispatched(a)
  <2>1. q = LeaseRecorded(Noted(p, p.gen, i, "unknown", "dispatch_transport"), p.gen, i, "effect_unknown")
    BY <1>5 DEF SettleExpired, Noted
  <2> HIDE DEF q
  <2>2. Touches(p, q, i) /\ AttemptInv(q, w, i) /\ q.att[i].state = "unknown"
    BY <1>1, <1>5, <2>1, CalledUnknown
  <2> QED
    BY <1>1, <2>2, TouchedKept DEF q
<1>6. CASE a.kind = "apply" /\ ~MayHaveDispatched(a)
  <2>1. a.state = "unknown" /\ a.auth = "dispatch_transport"
    BY <1>1, <1>6 DEF AttemptInv, MayHaveDispatched
  <2>2. ~EffectOk(a, "none", src)
    BY <1>6, <2>1, RankFacts DEF EffectOk
  <2>3. q = AttemptTerminal(u, p.gen, i)
    BY <1>6 DEF SettleExpired, Noted
  <2>4. u = p
    BY <1>3, <2>2
  <2>5. q = p
    BY <2>1, <2>3, <2>4 DEF AttemptTerminal
  <2> QED
    BY <2>5, KeptSelf
<1>7. CASE a.kind # "apply"
  <2>1. q = AttemptTerminal(u, p.gen, i)
    BY <1>7 DEF SettleExpired, Noted
  <2>2. u.att[i].state # "applied" /\ u.att[i].term = "active"
    BY <1>1, <1>3, <1>7 DEF AttemptInv, AfterNoted
  <2> HIDE DEF u, q
  <2>3. /\ Touches(u, q, i) /\ q.att[i].state = u.att[i].state
        /\ q.att[i].term \in {"active", "settled"}
    BY <1>4, <2>1, <2>2, TerminalFacts
  <2>4. Touches(p, q, i)
    BY <1>1, <1>3, <2>3, TouchesTwice
  <2>5. AttemptInv(q, w, i)
    BY <1>1, <1>7, <2>2, <2>3, <2>4 DEF AttemptInv, Touches
  <2> QED
    BY <1>1, <2>2, <2>3, <2>4, <2>5, TouchedKept DEF q
<1> QED
  BY <1>5, <1>6, <1>7

(* An attempt is cancelled; one that may have been dispatched stays unknown. *)
LEMMA CancelOneFacts ==
  ASSUME NEW p, NEW w, JournalInv(p, w), NEW i \in InFlight(p),
         NEW q, q = CancelOne(p, i)
  PROVE  /\ Touches(p, q, i) /\ AttemptInv(q, w, i)
         /\ q.att[i].state = "applied" => p.att[i].state = "applied"
<1> DEFINE a == p.att[i]
           u == Noted(p, p.gen, i, "none", "transport_pre_dispatch")
<1>1. /\ i \in DOMAIN p.att /\ p \in Projections /\ AttemptInv(p, w, i)
      /\ a.term = "active" /\ a.gen = p.gen
  BY InFlightFacts
<1>2. CASE p.term = "open" /\ a.kind = "apply" /\ MayHaveDispatched(a)
  <2>1. q = LeaseRecorded(Noted(p, p.gen, i, "unknown", "dispatch_transport"), p.gen, i,
                          "canceled_after_dispatch")
    BY <1>2 DEF CancelOne, Noted
  <2> QED
    BY <1>1, <1>2, <2>1, CalledUnknown
<1>3. CASE a.kind # "apply" /\ MayHaveDispatched(a)
  BY <1>1, <1>3, TouchesSelf DEF CancelOne
<1>4. CASE p.term = "open" /\ ~MayHaveDispatched(a)
  <2>1. q = LeaseRecorded(u, p.gen, i, "settled")
    BY <1>4 DEF CancelOne, Noted
  <2>2. "none" \in States /\ "transport_pre_dispatch" \in Sources /\ "settled" \in Leases
    BY RankFacts DEF States, Sources, Leases
  <2>3. /\ Touches(p, u, i)
        /\ ~(Accepts(p, p.gen) /\ EffectOk(a, "none", "transport_pre_dispatch")) => u = p
        /\ Accepts(p, p.gen) /\ EffectOk(a, "none", "transport_pre_dispatch") =>
             AfterNoted(a, u.att[i], "none", "transport_pre_dispatch")
    BY <1>1, <2>2, NotedFacts
  <2>4. u \in Projections /\ i \in DOMAIN u.att /\ Accepts(u, p.gen)
    BY <1>1, <1>4, <2>3, TouchedAccepts DEF Accepts
  <2>5. /\ u.att[i].state = "applied" => a.state = "applied"
        /\ a.kind = "apply" => u.att[i].state = "unknown"
    <3>1. a.kind = "apply" => a.state = "unknown" /\ a.auth = "dispatch_transport"
      BY <1>1, <1>4 DEF AttemptInv, MayHaveDispatched
    <3>2. a.kind = "apply" => ~EffectOk(a, "none", "transport_pre_dispatch")
      BY <3>1, RankFacts DEF EffectOk
    <3> QED
      BY <2>3, <3>1, <3>2 DEF AfterNoted
  <2> HIDE DEF u
  <2>6. /\ Touches(u, q, i) /\ q.att[i].state = u.att[i].state
        /\ AfterLease(u.att[i], q.att[i], "settled")
    BY <2>1, <2>2, <2>4, LeaseFacts
  <2>7. Touches(p, q, i)
    BY <1>1, <2>3, <2>6, TouchesTwice
  <2>8. q.att[i].term = "settled"
    BY <2>6 DEF AfterLease
  <2>9. AttemptInv(q, w, i)
    BY <1>1, <2>5, <2>6, <2>7, <2>8 DEF AttemptInv, Touches
  <2> QED
    BY <2>5, <2>6, <2>7, <2>9
<1>5. CASE p.term # "open"
  <2>1. q = p
    BY <1>5 DEF CancelOne, LeaseRecorded, EffectRecorded, Accepts
  <2> QED
    BY <1>1, <2>1, TouchesSelf
<1> QED
  BY <1>2, <1>3, <1>4, <1>5

LEMMA CancelInFlightKept ==
  ASSUME NEW p, NEW w, JournalInv(p, w), NEW q, q = CancelInFlight(p)
  PROVE  Kept(p, q, w)
<1> DEFINE new == [i \in DOMAIN p.att |->
                     IF i \in InFlight(p) THEN CancelOne(p, i).att[i] ELSE p.att[i]]
<1>1. p \in Projections /\ p.att \in Seq(Attempts)
  BY DEF JournalInv, Projections
<1>2. q = [p EXCEPT !.att = new]
  BY DEF CancelInFlight
<1>3. ASSUME NEW i \in DOMAIN p.att
      PROVE  /\ new[i] \in Attempts /\ new[i].kind = p.att[i].kind
             /\ new[i].state = "applied" => p.att[i].state = "applied"
             /\ \E r : r.gen = p.gen /\ r.att[i] = new[i] /\ AttemptInv(r, w, i)
  <2>1. CASE i \in InFlight(p)
    <3> DEFINE r == CancelOne(p, i)
    <3>1. /\ Touches(p, r, i) /\ AttemptInv(r, w, i)
          /\ r.att[i].state = "applied" => p.att[i].state = "applied"
      BY <2>1, CancelOneFacts
    <3>2. new[i] = r.att[i]
      BY <2>1
    <3> HIDE DEF r, new
    <3>3. r \in Projections /\ i \in DOMAIN r.att /\ r.gen = p.gen /\ r.att[i].kind = p.att[i].kind
      BY <3>1 DEF Touches
    <3> QED
      BY <3>1, <3>2, <3>3, AttemptFields
  <2>2. CASE i \notin InFlight(p)
    <3>1. new[i] = p.att[i]
      BY <2>2
    <3> QED
      BY <1>1, <3>1, AttemptFields DEF JournalInv
  <2> QED
    BY <2>1, <2>2
<1>4. new \in Seq(Attempts) /\ Len(new) = Len(p.att) /\ DOMAIN new = DOMAIN p.att
  <2>1. Len(p.att) \in Nat /\ DOMAIN p.att = 1..Len(p.att)
    BY DomainFacts
  <2>2. DOMAIN new = 1..Len(p.att)
    BY <2>1
  <2>3. new \in [1..Len(p.att) -> Attempts]
    BY <1>3, <2>1
  <2> QED
    BY <2>1, <2>2, <2>3
<1> HIDE DEF new
<1>5. q \in Projections /\ q.gen = p.gen /\ q.term = p.term /\ q.att = new
  BY <1>1, <1>2, <1>4 DEF Projections
<1>6. ASSUME NEW i \in DOMAIN q.att PROVE AttemptInv(q, w, i)
  BY <1>3, <1>4, <1>5 DEF AttemptInv
<1>7. Applied(q) # {} \/ q.term = "verified" => Real(w)
  BY <1>3, <1>4, <1>5 DEF JournalInv, Applied, Where
<1> QED
  BY <1>3, <1>4, <1>5, <1>6, <1>7 DEF JournalInv, Kept, SameAttempts
(* The last check is a read. *)
LEMMA LastCheckFacts ==
  ASSUME NEW p, NEW w, JournalInv(p, w), LastCheck(p) # 0
  PROVE  LastCheck(p) \in DOMAIN p.att /\ p.att[LastCheck(p)].kind = "read"
<1> DEFINE checks == Where(p, LAMBDA a : a.kind = "read" /\ a.purpose # "action")
<1>1. Len(p.att) \in Nat /\ DOMAIN p.att = 1..Len(p.att)
  BY DomainFacts
<1>2. checks = {i \in DOMAIN p.att : p.att[i].kind = "read" /\ p.att[i].purpose # "action"}
  BY DEF Where
<1>3. checks # {} /\ LastCheck(p) = Max(checks)
  BY DEF LastCheck
<1> HIDE DEF checks
<1>4. checks \in SUBSET (1..Len(p.att))
  BY <1>1, <1>2
<1>5. Max(checks) \in checks
  BY <1>1, <1>3, <1>4, MaxFacts
<1> QED
  BY <1>2, <1>3, <1>5

(* A readback that found the change resolves the unknown attempt. *)
LEMMA ReconciliationKept ==
  ASSUME NEW p, NEW w, JournalInv(p, w), Real(w), NEW r \in DOMAIN p.att, p.att[r].kind = "read",
         NEW q, q = ReconciliationResolved(p, r)
  PROVE  Kept(p, q, w)
<1> DEFINE o == p.att[r].of
           x == [WithEffect(p.att[r], "none", "target_readback") EXCEPT
                  !.term = "reconciled", !.lease = "settled"]
           y == [WithEffect(p.att[o], "applied", "target_readback") EXCEPT
                  !.term = "reconciled", !.lease = "settled"]
           q1 == [p EXCEPT !.att[r] = x]
<1>1. CASE q = p
  BY <1>1, KeptSelf
<1>2. CASE /\ p.term = "open" /\ o # 0 /\ p.att[o].state = "unknown"
           /\ EffectOk(p.att[o], "applied", "target_readback")
  <2>1. p \in Projections /\ AttemptInv(p, w, r) /\ Len(p.att) \in Nat /\ DOMAIN p.att = 1..Len(p.att)
    BY DomainFacts DEF JournalInv
  <2>2. o \in DOMAIN p.att /\ o # r
    <3>1. o \in Nat /\ o < r /\ r \in 1..Len(p.att)
      BY <2>1, AttemptFields, BoundsAssumption DEF Ids, AttemptInv
    <3> QED
      BY <1>2, <2>1, <3>1
  <2>3. p.att[o].kind = "apply"
    BY <1>2 DEF EffectOk
  <2>4. p.att[r] \in Attempts /\ p.att[o] \in Attempts
    BY <2>1, <2>2, AttemptFields
  <2>5. /\ x \in Attempts /\ x.kind = p.att[r].kind /\ x.of = p.att[r].of /\ x.gen = p.att[r].gen
        /\ x.purpose = p.att[r].purpose /\ x.term = "reconciled" /\ x.state = "none"
    BY <2>4, RankFacts DEF WithEffect, Attempts, Leases
  <2>6. /\ y \in Attempts /\ y.kind = p.att[o].kind /\ y.of = p.att[o].of /\ y.gen = p.att[o].gen
        /\ y.purpose = p.att[o].purpose /\ y.term = "reconciled" /\ y.state = "applied"
    BY <2>4, RankFacts DEF WithEffect, Attempts, Leases
  <2>7. q = [q1 EXCEPT !.att[o] = y]
    <3>1. q = [p EXCEPT !.att[r] = x, !.att[o] = [WithEffect(@, "applied", "target_readback") EXCEPT
                                                   !.term = "reconciled", !.lease = "settled"]]
      BY <1>2 DEF ReconciliationResolved
    <3>2. q1.att[o] = p.att[o]
      BY <2>1, <2>2, <2>5, Put
    <3> QED
      BY <3>1, <3>2
  <2> HIDE DEF x, y
  <2>8. Touches(p, q1, r) /\ q1.att[r] = x
    BY <2>1, <2>5, Put DEF Touches
  <2>9. AttemptInv(q1, w, r)
    BY <2>1, <2>5, <2>8 DEF AttemptInv, Touches
  <2>10. Kept(p, q1, w)
    BY <2>5, <2>8, <2>9, TouchedKept
  <2>11. /\ q1 \in Projections /\ o \in DOMAIN q1.att /\ q1.att[o] = p.att[o]
         /\ JournalInv(q1, w)
    BY <2>2, <2>8, <2>10 DEF Touches, Kept
  <2> HIDE DEF q1
  <2>12. Touches(q1, q, o) /\ q.att[o] = y
    BY <2>6, <2>7, <2>11, Put DEF Touches
  <2>13. AttemptInv(q, w, o)
    BY <2>3, <2>6, <2>11, <2>12 DEF AttemptInv, Touches, JournalInv
  <2>14. Kept(q1, q, w)
    BY <2>11, <2>12, <2>13, TouchedKept
  <2> QED
    BY <2>10, <2>14, KeptTwice
<1> QED
  BY <1>1, <1>2 DEF ReconciliationResolved

(* A verification is recorded only on an applied attempt. *)
LEMMA VerificationKept ==
  ASSUME NEW p, NEW w, JournalInv(p, w), NEW v \in DOMAIN p.att, p.att[v].kind = "read",
         NEW applied \in DOMAIN p.att, NEW q, q = VerificationRecorded(p, v, applied)
  PROVE  Kept(p, q, w)
<1> DEFINE S == {applied} \cup ({p.att[v].of} \ {0})
           bound == Min(S)
           new == [p.att[v] EXCEPT !.term = "settled", !.lease = "settled"]
           t == [p EXCEPT !.term = "verified"]
<1>1. CASE q = p
  BY <1>1, KeptSelf
<1>2. CASE p.term = "open" /\ p.att[bound].state = "applied" /\ InFlight(p) \subseteq {v}
  <2>1. p \in Projections /\ AttemptInv(p, w, v) /\ Len(p.att) \in Nat /\ DOMAIN p.att = 1..Len(p.att)
    BY DomainFacts DEF JournalInv
  <2>2. S \subseteq DOMAIN p.att /\ S # {} /\ S \in SUBSET Nat
    <3>1. p.att[v].of \in Nat /\ p.att[v].of < v /\ v \in 1..Len(p.att)
      BY <2>1, AttemptFields, BoundsAssumption DEF Ids, AttemptInv
    <3> QED
      BY <2>1, <3>1
  <2>3. bound \in DOMAIN p.att
    BY <2>2, MinFacts
  <2>4. Real(w)
    BY <1>2, <2>3, DomainFacts DEF JournalInv
  <2>5. t \in Projections /\ t.gen = p.gen /\ t.att = p.att /\ t.term = "verified"
    BY <2>1 DEF Projections, Outcomes
  <2>6. /\ new \in Attempts /\ new.kind = p.att[v].kind /\ new.of = p.att[v].of
        /\ new.gen = p.att[v].gen /\ new.state = p.att[v].state /\ new.term = "settled"
        /\ new.purpose = p.att[v].purpose
    BY <2>1, AttemptFields DEF Attempts, Leases
  <2>7. q = [t EXCEPT !.att[v] = new]
    <3>1. q = [p EXCEPT !.term = "verified", !.att[v].term = "settled", !.att[v].lease = "settled"]
      BY <1>2 DEF VerificationRecorded
    <3> QED
      BY <2>1, <3>1, AttemptFields DEF Projections, Attempts
  <2> HIDE DEF new, t
  <2>8. JournalInv(t, w) /\ SameAttempts(p, t)
    BY <2>4, <2>5 DEF JournalInv, AttemptInv, SameAttempts
  <2>9. Touches(t, q, v) /\ q.att[v] = new
    BY <2>5, <2>6, <2>7, Put DEF Touches
  <2>10. AttemptInv(q, w, v)
    BY <2>1, <2>5, <2>6, <2>9 DEF AttemptInv, Touches
  <2>11. Kept(t, q, w)
    BY <2>4, <2>5, <2>8, <2>9, <2>10, TouchedKept
  <2> QED
    BY <2>8, <2>11, KeptTwice DEF Kept
<1> QED
  BY <1>1, <1>2 DEF VerificationRecorded

(* The verification attempt that the end of a turn may add. *)
Extended(p, q, w) ==
  /\ JournalInv(q, w) /\ q.gen = p.gen
  /\ Len(q.att) = Len(p.att) + 1 /\ DOMAIN q.att = DOMAIN p.att \cup {Len(p.att) + 1}
  /\ \A j \in DOMAIN p.att : q.att[j].kind = p.att[j].kind
  /\ q.att[Len(p.att) + 1].kind = "read"

LEMMA KeptThenExtended ==
  ASSUME NEW p, NEW q, NEW r, NEW w, Kept(p, q, w), Extended(q, r, w) PROVE Extended(p, r, w)
BY DEF Kept, SameAttempts, Extended

LEMMA ExtendedThenKept ==
  ASSUME NEW p, NEW q, NEW r, NEW w, Extended(p, q, w), Kept(q, r, w) PROVE Extended(p, r, w)
BY DEF Kept, SameAttempts, Extended

(* The end of a turn keeps the journal or adds one verification attempt. *)
LEMMA CreateVerificationFacts ==
  ASSUME NEW p, NEW w, JournalInv(p, w), p.gen # 0, Len(p.att) < MaxLooks + MaxApplies + MaxGen,
         NEW applied \in DOMAIN p.att, NEW q, q = CreateVerification(p, applied)
  PROVE  Kept(p, q, w) \/ Extended(p, q, w)
<1> DEFINE v == LastCheck(p)
           n == Len(p.att) + 1
           o == Opened(p, "read", "verification", applied)
           d == DispatchRecorded(o, n, "acknowledged")
<1>1. CASE v # 0 /\ p.att[v].purpose = "verification"
  <2>1. q = VerificationRecorded(p, v, applied)
    BY <1>1 DEF CreateVerification
  <2> QED
    BY <1>1, <2>1, LastCheckFacts, VerificationKept
<1>2. CASE q = p
  BY <1>2, KeptSelf
<1>3. CASE q = VerificationRecorded(d, n, applied)
  <2>1. applied \in 0..Len(p.att) /\ "read" \in Kinds /\ "verification" \in Purposes
    BY DomainFacts DEF Kinds, Purposes
  <2>2. /\ JournalInv(o, w) /\ o.gen = p.gen /\ Len(o.att) = n
        /\ DOMAIN o.att = DOMAIN p.att \cup {n} /\ o.att[n].kind = "read"
        /\ \A j \in DOMAIN p.att : o.att[j] = p.att[j]
    BY <2>1, OpenedFacts
  <2>3. Extended(p, o, w) /\ o \in Projections /\ n \in DOMAIN o.att /\ AttemptInv(o, w, n)
    BY <2>2 DEF Extended, JournalInv
  <2> HIDE DEF o
  <2>4. /\ Touches(o, d, n) /\ d.att[n].term = o.att[n].term
        /\ d.att[n].state = Dispatched(o.att[n], "acknowledged").state
    BY <2>3, DispatchFacts
  <2>5. Dispatched(o.att[n], "acknowledged").state = o.att[n].state
    BY <2>2 DEF Dispatched
  <2> HIDE DEF d
  <2>6. AttemptInv(d, w, n)
    BY <2>2, <2>3, <2>4, <2>5 DEF AttemptInv, Touches
  <2>7. Kept(o, d, w)
    BY <2>2, <2>3, <2>4, <2>5, <2>6, TouchedKept
  <2>8. n \in DOMAIN d.att /\ d.att[n].kind = "read" /\ applied \in DOMAIN d.att /\ JournalInv(d, w)
    BY <2>2, <2>7 DEF Kept, SameAttempts
  <2>9. Kept(d, q, w)
    BY <1>3, <2>8, VerificationKept
  <2> QED
    BY <2>3, <2>7, <2>9, KeptTwice, ExtendedThenKept
<1> QED
  BY <1>1, <1>2, <1>3 DEF CreateVerification

LEMMA SettleTurnFacts ==
  ASSUME NEW p, NEW w, JournalInv(p, w), p.gen # 0, Len(p.att) < MaxLooks + MaxApplies + MaxGen,
         NEW receipt, receipt = "readback" => Real(w), NEW q, q = SettleTurn(p, receipt)
  PROVE  Kept(p, q, w) \/ Extended(p, q, w)
<1> DEFINE applied == Max(Applies(p))
           v == LastCheck(p)
           looked == receipt = "readback" /\ p.att[applied].state = "unknown"
           resolved ==
             IF ~looked THEN p
             ELSE IF v # 0 /\ p.att[v].purpose = "reconciliation" THEN ReconciliationResolved(p, v)
             ELSE Confirmed(p, p.gen, applied, "applied", "target_readback")
<1>1. CASE q = p
  BY <1>1, KeptSelf
<1>2. CASE Applies(p) # {} /\ q \in {resolved, CreateVerification(resolved, applied)}
  <2>1. applied \in DOMAIN p.att /\ p.att[applied].kind = "apply" /\ p \in Projections
        /\ AttemptInv(p, w, applied)
    <3>1. Len(p.att) \in Nat /\ Applies(p) \in SUBSET (1..Len(p.att))
      BY DomainFacts
    <3>2. applied \in Applies(p)
      BY <1>2, <3>1, MaxFacts
    <3> QED
      BY <3>2, DomainFacts DEF JournalInv
  <2> HIDE DEF applied, v
  <2>2. Kept(p, resolved, w)
    <3>1. CASE ~looked
      BY <3>1, KeptSelf
    <3>2. CASE looked /\ v # 0 /\ p.att[v].purpose = "reconciliation"
      BY <3>2, LastCheckFacts, ReconciliationKept DEF v
    <3>3. CASE looked /\ ~(v # 0 /\ p.att[v].purpose = "reconciliation")
      <4> DEFINE c == Confirmed(p, p.gen, applied, "applied", "target_readback")
      <4>1. "applied" \in States /\ "target_readback" \in Sources
        BY RankFacts DEF States, Sources
      <4>2. /\ Touches(p, c, applied)
            /\ c = p \/ AfterConfirmed(p.att[applied], c.att[applied], "applied", "target_readback")
        BY <2>1, <4>1, ConfirmedFacts
      <4>3. CASE c = p
        BY <3>3, <4>3, KeptSelf
      <4>4. CASE AfterConfirmed(p.att[applied], c.att[applied], "applied", "target_readback")
        <5> HIDE DEF c
        <5>1. AttemptInv(c, w, applied)
          BY <2>1, <4>2, <4>4 DEF AttemptInv, Touches, AfterConfirmed
        <5>2. Kept(p, c, w)
          BY <2>1, <3>3, <4>2, <5>1, TouchedKept
        <5> QED
          BY <3>3, <5>2 DEF c
      <4> QED
        BY <4>2, <4>3, <4>4
    <3> QED
      BY <3>1, <3>2, <3>3
  <2> HIDE DEF resolved
  <2>3. CASE q = resolved
    BY <2>2, <2>3
  <2>4. CASE q = CreateVerification(resolved, applied)
    <3>1. /\ JournalInv(resolved, w) /\ resolved.gen # 0 /\ applied \in DOMAIN resolved.att
          /\ Len(resolved.att) < MaxLooks + MaxApplies + MaxGen
      BY <2>1, <2>2 DEF Kept, SameAttempts
    <3>2. Kept(resolved, q, w) \/ Extended(resolved, q, w)
      BY <2>4, <3>1, CreateVerificationFacts
    <3> QED
      BY <2>2, <3>2, KeptTwice, KeptThenExtended
  <2> QED
    BY <1>2, <2>3, <2>4
<1> QED
  BY <1>1, <1>2 DEF SettleTurn, Confirmed
-----------------------------------------------------------------------------
(* The inductive invariant *)

Calls == {i \in DOMAIN cp.att : call[i] # "none"}

(* The turns that have ended, or that a crash took away. *)
TurnsOver ==
  IF turn # "idle" THEN turnGen - 1 ELSE IF waiting # 0 THEN waiting - 1 ELSE cp.gen

(* A turn has a generation of its own, and so have its calls. *)
TurnInv ==
  /\ turnGen <= cp.gen /\ waiting <= cp.gen
  /\ turn = "idle" <=> turnGen = 0
  /\ waiting # 0 => turnGen < waiting
  /\ \A i \in Calls : owner[i] \in 1..cp.gen /\ (waiting # 0 => owner[i] < waiting)

(* Every call has an attempt, and every apply has a call and a job. *)
CallInv ==
  \A i \in Ids :
    /\ call[i] # "none" => i \in DOMAIN cp.att
    /\ job[i] # "none" <=> i \in Applies(cp)
    /\ i \in Applies(cp) => call[i] # "none"

(* The attempts fit into Ids: a turn that is over has left at most one
   attempt without a call. *)
CountInv ==
  /\ Cardinality(Calls \cap Applies(cp)) <= MaxApplies
  /\ Cardinality(Calls \ Applies(cp)) <= MaxLooks
  /\ Cardinality(DOMAIN cp.att \ Calls) <= TurnsOver

(* The call of an apply may still report, or its change may still be there. *)
Live(i) == call[i] = "pending" \/ MayChange(i)

(* The gate of the turn is free only when no apply of the turn is live. *)
GateInv ==
  /\ gate = "readback" => Real(job)
  /\ \A i \in Applies(cp) : owner[i] = turnGen /\ gate = "free" => ~Live(i)
  /\ \A i, j \in Applies(cp) : i # j /\ owner[i] = owner[j] => ~(Live(i) /\ Live(j))

StateOk ==
  /\ call \in [Ids -> {"none", "pending", "ended"}]
  /\ owner \in [Ids -> 0..MaxGen]
  /\ job \in [Ids -> {"none", "queued", "changed", "unchanged", "refused"}]
  /\ turn \in {"idle", "running", "draining", "canceling"}
  /\ turnGen \in 0..MaxGen /\ waiting \in 0..MaxGen
  /\ gate \in {"free", "used", "succeeded", "answer", "readback"}

ControlInv ==
  StateOk /\ JournalInv(cp, job) /\ TurnInv /\ CallInv /\ CountInv /\ GateInv

LEMMA IdsFacts ==
  Ids = 1..(MaxLooks + MaxApplies + MaxGen) /\ Cardinality(Ids) = MaxLooks + MaxApplies + MaxGen
<1>1. MaxLooks + MaxApplies + MaxGen \in Nat
  BY BoundsAssumption
<1> QED
  BY <1>1, FS_Interval DEF Ids

(* The attempts are the applies and looks that were called, and the others. *)
LEMMA CountFacts ==
  ASSUME ControlInv
  PROVE  /\ IsFiniteSet(Calls \cap Applies(cp)) /\ IsFiniteSet(Calls \ Applies(cp))
         /\ IsFiniteSet(DOMAIN cp.att \ Calls)
         /\ Cardinality(Calls \cap Applies(cp)) \in Nat
         /\ Cardinality(Calls \ Applies(cp)) \in Nat
         /\ Cardinality(DOMAIN cp.att \ Calls) \in Nat
         /\ Len(cp.att) = Cardinality(Calls \cap Applies(cp)) + Cardinality(Calls \ Applies(cp))
                          + Cardinality(DOMAIN cp.att \ Calls)
<1> DEFINE n == Len(cp.att)
           D == DOMAIN cp.att
<1>1. n \in Nat /\ D = 1..n
  BY DomainFacts DEF ControlInv
<1>2. Calls \subseteq D
  BY DEF Calls
<1> HIDE DEF n, D
<1>3. IsFiniteSet(D) /\ Cardinality(D) = n
  <2>1. n = 0 \/ ~(1 > n)
    BY <1>1
  <2>2. IsFiniteSet(1..n) /\ Cardinality(1..n) = IF 1 > n THEN 0 ELSE n - 1 + 1
    BY <1>1, FS_Interval
  <2> QED
    BY <1>1, <2>1, <2>2
<1>4. IsFiniteSet(Calls)
  BY <1>2, <1>3, FS_Subset
<1>5. D \cap Calls = Calls
  BY <1>2
<1>6. IsFiniteSet(D \ Calls) /\ Cardinality(D \ Calls) = n - Cardinality(Calls)
  BY <1>3, <1>5, FS_Difference
<1>7. /\ IsFiniteSet(Calls \ Applies(cp))
      /\ Cardinality(Calls \ Applies(cp)) = Cardinality(Calls) - Cardinality(Calls \cap Applies(cp))
  BY <1>4, FS_Difference
<1>8. IsFiniteSet(Calls \cap Applies(cp))
  BY <1>4, FS_Intersection
<1>9. /\ Cardinality(Calls) \in Nat /\ Cardinality(Calls \cap Applies(cp)) \in Nat
      /\ Cardinality(Calls \ Applies(cp)) \in Nat /\ Cardinality(D \ Calls) \in Nat
  BY <1>4, <1>6, <1>7, <1>8, FS_CardinalityType
<1>10. n = Cardinality(Calls \cap Applies(cp)) + Cardinality(Calls \ Applies(cp))
           + Cardinality(D \ Calls)
  BY <1>1, <1>6, <1>7, <1>9
<1> QED
  BY <1>6, <1>7, <1>8, <1>9, <1>10 DEF n, D

(* A turn that runs has room for one more attempt. *)
LEMMA RoomLeft ==
  ASSUME ControlInv, turn # "idle"
  PROVE  /\ cp.gen \in 1..MaxGen /\ turnGen \in 1..cp.gen
         /\ Cardinality(DOMAIN cp.att \ Calls) <= turnGen - 1
         /\ Len(cp.att) < MaxLooks + MaxApplies + MaxGen
<1>1. cp.gen \in 0..MaxGen
  BY DEF ControlInv, JournalInv, Projections
<1>2. cp.gen \in 1..MaxGen /\ turnGen \in 1..cp.gen
  BY <1>1, BoundsAssumption DEF ControlInv, TurnInv, StateOk
<1>3. /\ Cardinality(DOMAIN cp.att \ Calls) <= turnGen - 1
      /\ Cardinality(Calls \cap Applies(cp)) <= MaxApplies
      /\ Cardinality(Calls \ Applies(cp)) <= MaxLooks
  BY DEF ControlInv, CountInv, TurnsOver
<1> QED
  BY <1>2, <1>3, CountFacts, BoundsAssumption

(* Revit goes on: nothing that was closed opens again. *)
LEMMA JobsKept ==
  ASSUME NEW p, NEW w, NEW u, JournalInv(p, w), Real(w) => Real(u),
         \A i \in DOMAIN p.att : Open(u, i) => Open(w, i) \/ p.att[i].term = "active"
  PROVE  JournalInv(p, u)
BY DEF JournalInv, AttemptInv

(* The invariant holds initially. *)
LEMMA InvInit == Init => ControlInv
<1> SUFFICES ASSUME Init PROVE ControlInv
  OBVIOUS
<1>1. /\ cp.gen = 0 /\ cp.term = "open" /\ cp.att = << >> /\ DOMAIN cp.att = {} /\ Len(cp.att) = 0
      /\ cp \in Projections
  BY BoundsAssumption DEF Init, Projections, Outcomes
<1>2. Applies(cp) = {} /\ Applied(cp) = {} /\ Calls = {} /\ DOMAIN cp.att \ Calls = {}
  BY <1>1 DEF Applies, Applied, Where, Calls
<1>3. JournalInv(cp, job)
  BY <1>1, <1>2, BoundsAssumption DEF JournalInv
<1>4. StateOk
  BY BoundsAssumption DEF Init, StateOk
<1>5. TurnInv
  BY <1>1, <1>2 DEF Init, TurnInv
<1>6. CallInv
  BY <1>2 DEF Init, CallInv
<1>7. CountInv
  <2>1. Calls \cap Applies(cp) = {} /\ Calls \ Applies(cp) = {}
    BY <1>2
  <2> QED
    BY <1>1, <1>2, <2>1, FS_EmptySet, BoundsAssumption DEF CountInv, Init, TurnsOver
<1>8. GateInv
  BY <1>2 DEF Init, GateInv
<1> QED
  BY <1>3, <1>4, <1>5, <1>6, <1>7, <1>8 DEF ControlInv
-----------------------------------------------------------------------------
(* Every action keeps the invariant *)

LEMMA SameSets ==
  ASSUME NEW p, NEW w, JournalInv(p, w), NEW q, DOMAIN q.att = DOMAIN p.att,
         \A j \in DOMAIN p.att : q.att[j].kind = p.att[j].kind
  PROVE  Applies(q) = Applies(p)
BY DEF Applies, Where

(* The journal goes on while the turn and the calls of it stay. *)
LEMMA KeptStep ==
  ASSUME ControlInv, Kept(cp, cp', job), UNCHANGED <<owner, job, turnGen, waiting>>, StateOk',
         turn' = "idle" <=> turn = "idle",
         \A i \in Ids : /\ call'[i] = "none" <=> call[i] = "none"
                        /\ call'[i] = "pending" => call[i] = "pending",
         gate' = "readback" => Real(job),
         gate' = "free" => gate = "free" \/ \A i \in Applies(cp) : owner[i] = turnGen => ~Live(i)'
  PROVE  ControlInv'
<1>1. JournalInv(cp, job)' /\ DOMAIN cp'.att = DOMAIN cp.att /\ cp'.gen = cp.gen
  BY DEF Kept, SameAttempts
<1>2. Applies(cp') = Applies(cp)
  BY <1>1, SameSets DEF ControlInv, Kept, SameAttempts
<1>3. DOMAIN cp.att \subseteq Ids /\ Applies(cp) \subseteq DOMAIN cp.att
  BY DomainFacts DEF ControlInv
<1>4. Calls' = Calls
  BY <1>1, <1>3 DEF Calls
<1>5. TurnInv'
  BY <1>1, <1>4 DEF ControlInv, TurnInv
<1>6. CallInv'
  BY <1>1, <1>2 DEF ControlInv, CallInv
<1>7. CountInv'
  BY <1>1, <1>2, <1>4 DEF ControlInv, CountInv, TurnsOver
<1>8. GateInv'
  <2>1. \A i \in Applies(cp) : Live(i)' => Live(i)
    BY <1>3 DEF Live, MayChange
  <2> QED
    BY <1>2, <2>1 DEF ControlInv, GateInv
<1> QED
  BY <1>1, <1>5, <1>6, <1>7, <1>8 DEF ControlInv

(* The turn ends, with a verification attempt or without. *)
LEMMA EndStep ==
  ASSUME ControlInv, turn # "idle", NEW q, TurnEnds(q), Kept(cp, q, job) \/ Extended(cp, q, job)
  PROVE  ControlInv'
<1> DEFINE n == Len(cp.att) + 1
<1>1. /\ cp' = q /\ turn' = "idle" /\ turnGen' = 0 /\ gate' = "free"
      /\ UNCHANGED <<call, owner, job, waiting>>
  BY DEF TurnEnds
<1>2. StateOk'
  BY <1>1, BoundsAssumption DEF ControlInv, StateOk
<1>3. /\ JournalInv(cp, job)' /\ cp'.gen = cp.gen /\ cp.gen \in 1..MaxGen
  BY <1>1, RoomLeft DEF Kept, SameAttempts, Extended
<1>4. /\ DOMAIN cp.att \subseteq Ids /\ Applies(cp) \subseteq DOMAIN cp.att
      /\ Len(cp.att) \in Nat /\ DOMAIN cp.att = 1..Len(cp.att)
  BY DomainFacts DEF ControlInv
<1>5. n \notin DOMAIN cp.att /\ n \in Ids
  BY <1>4, RoomLeft, BoundsAssumption DEF Ids
<1>6. call[n] = "none"
  BY <1>5 DEF ControlInv, CallInv
<1>7. /\ Applies(cp') = Applies(cp) /\ Calls' = Calls
      /\ DOMAIN cp'.att = DOMAIN cp.att \/ DOMAIN cp'.att = DOMAIN cp.att \cup {n}
  <2>1. CASE Kept(cp, q, job)
    <3>1. DOMAIN cp'.att = DOMAIN cp.att /\ Applies(cp') = Applies(cp)
      BY <1>1, <2>1, SameSets DEF ControlInv, Kept, SameAttempts
    <3> QED
      BY <1>1, <3>1 DEF Calls
  <2>2. CASE Extended(cp, q, job)
    <3>1. /\ DOMAIN cp'.att = DOMAIN cp.att \cup {n}
          /\ \A j \in DOMAIN cp.att : cp'.att[j].kind = cp.att[j].kind
          /\ cp'.att[n].kind = "read"
      BY <1>1, <2>2 DEF Extended
    <3>2. Applies(cp') = Applies(cp)
      BY <3>1 DEF Applies, Where
    <3> QED
      BY <1>1, <1>6, <3>1, <3>2 DEF Calls
  <2> QED
    BY <2>1, <2>2
<1>8. TurnInv'
  BY <1>1, <1>3, <1>7, BoundsAssumption DEF ControlInv, TurnInv, StateOk
<1>9. CallInv'
  BY <1>1, <1>7 DEF ControlInv, CallInv
<1>10. CountInv'
  <2> DEFINE U == DOMAIN cp.att \ Calls
  <2>1. /\ IsFiniteSet(U) /\ Cardinality(U) \in Nat /\ Cardinality(U) <= turnGen - 1
        /\ turnGen \in 1..cp.gen
    BY CountFacts, RoomLeft
  <2>2. DOMAIN cp'.att \ Calls' = U \/ DOMAIN cp'.att \ Calls' = U \cup {n}
    <3>1. n \notin Calls
      BY <1>5 DEF Calls
    <3> QED
      BY <1>7, <3>1
  <2>3. n \notin U
    BY <1>5
  <2> DEFINE V == DOMAIN cp'.att \ Calls'
  <2> HIDE DEF U, V
  <2>4. Cardinality(U \cup {n}) = Cardinality(U) + 1
    BY <2>1, <2>3, FS_AddElement
  <2>5. V = U \/ V = U \cup {n}
    BY <2>2 DEF V
  <2>6. /\ waiting \in Nat /\ turnGen \in Nat /\ cp.gen \in Nat /\ turnGen <= cp.gen
        /\ (waiting # 0 => turnGen < waiting)
    BY BoundsAssumption, <1>3 DEF ControlInv, TurnInv, StateOk
  <2>7. turnGen <= TurnsOver' /\ TurnsOver' \in Int
    BY <1>1, <1>3, <2>6 DEF TurnsOver
  <2>8. Cardinality(V) <= TurnsOver'
    <3>1. Cardinality(V) \in {Cardinality(U), Cardinality(U) + 1}
      BY <2>4, <2>5
    <3> QED
      BY <2>1, <2>6, <2>7, <3>1
  <2> QED
    BY <1>7, <2>8 DEF ControlInv, CountInv, V
<1>11. GateInv'
  <2>1. \A i \in Applies(cp) : owner[i] # 0 /\ (Live(i)' <=> Live(i))
    <3>1. \A i \in Applies(cp) : i \in Calls
      BY <1>4 DEF ControlInv, CallInv, Calls
    <3> QED
      BY <1>1, <3>1 DEF ControlInv, TurnInv, Live, MayChange
  <2> QED
    BY <1>1, <1>7, <2>1 DEF ControlInv, GateInv
<1> QED
  BY <1>2, <1>3, <1>8, <1>9, <1>10, <1>11 DEF ControlInv

LEMMA PrepareTurnInv == ASSUME ControlInv, PrepareTurn PROVE ControlInv'
<1>1. /\ waiting = 0 /\ cp.gen < MaxGen /\ waiting' = cp.gen + 1
      /\ cp' = RunStarted(cp) /\ UNCHANGED <<call, owner, job, turn, turnGen, gate>>
  BY DEF PrepareTurn
<1>2. /\ JournalInv(cp', job) /\ cp'.gen = cp.gen + 1 /\ DOMAIN cp'.att = DOMAIN cp.att
      /\ \A j \in DOMAIN cp.att : cp'.att[j].kind = cp.att[j].kind
  BY <1>1, RunStartedKept DEF ControlInv
<1>3. Applies(cp') = Applies(cp)
  BY <1>2, SameSets DEF ControlInv
<1>4. Calls' = Calls
  BY <1>1, <1>2 DEF Calls
<1>5. cp.gen \in 0..MaxGen /\ cp.gen \in Nat
  BY BoundsAssumption DEF ControlInv, JournalInv, Projections
<1>6. StateOk'
  BY <1>1, <1>5, BoundsAssumption DEF ControlInv, StateOk
<1>7. TurnInv'
  <2>1. turnGen \in Nat /\ turnGen <= cp.gen
    BY BoundsAssumption DEF ControlInv, TurnInv, StateOk
  <2> QED
    BY <1>1, <1>2, <1>4, <1>5, <2>1 DEF ControlInv, TurnInv
<1>8. CallInv'
  BY <1>1, <1>2, <1>3 DEF ControlInv, CallInv
<1>9. CountInv'
  BY <1>1, <1>2, <1>3, <1>4, <1>5 DEF ControlInv, CountInv, TurnsOver
<1>10. GateInv'
  BY <1>1, <1>3 DEF ControlInv, GateInv, Live, MayChange
<1> QED
  BY <1>1, <1>2, <1>6, <1>7, <1>8, <1>9, <1>10 DEF ControlInv

LEMMA BeginTurnInv == ASSUME ControlInv, BeginTurn PROVE ControlInv'
<1>1. /\ waiting # 0 /\ turn = "idle" /\ turn' = "running" /\ turnGen' = waiting /\ waiting' = 0
      /\ gate' = "free" /\ UNCHANGED <<cp, call, owner, job>>
  BY DEF BeginTurn
<1>2. Calls' = Calls
  BY <1>1 DEF Calls
<1>3. StateOk'
  BY <1>1, BoundsAssumption DEF ControlInv, StateOk
<1>4. TurnInv'
  BY <1>1, <1>2, BoundsAssumption DEF ControlInv, TurnInv, StateOk
<1>5. CallInv'
  BY <1>1 DEF ControlInv, CallInv
<1>6. CountInv'
  BY <1>1, <1>2 DEF ControlInv, CountInv, TurnsOver
<1>7. GateInv'
  <2>1. \A i \in Applies(cp) : i \in Calls
    BY DomainFacts DEF ControlInv, CallInv, Calls
  <2>2. \A i \in Applies(cp) : owner[i] # waiting
    BY <1>1, <2>1, BoundsAssumption DEF ControlInv, TurnInv, StateOk
  <2> QED
    BY <1>1, <2>2 DEF ControlInv, GateInv, Live, MayChange
<1> QED
  BY <1>1, <1>3, <1>4, <1>5, <1>6, <1>7 DEF ControlInv
(* What a new attempt names is an earlier attempt or none. *)
LEMMA RelationFacts ==
  ASSUME NEW p, NEW w, JournalInv(p, w)
  PROVE  RelationOf(p) \in 0..Len(p.att)
<1>1. Len(p.att) \in Nat /\ DOMAIN p.att = 1..Len(p.att) /\ Applied(p) \subseteq DOMAIN p.att
  BY DomainFacts
<1>2. Unknowns(p) \subseteq DOMAIN p.att
  BY DEF Unknowns, Where
<1>3. Unknowns(p) # {} => Min(Unknowns(p)) \in Unknowns(p)
  <2>1. Unknowns(p) \in SUBSET Nat
    BY <1>1, <1>2
  <2> QED
    BY <2>1, MinFacts
<1>4. Applied(p) # {} => Max(Applied(p)) \in Applied(p)
  <2>1. Applied(p) \in SUBSET (1..Len(p.att))
    BY <1>1
  <2> QED
    BY <1>1, <2>1, MaxFacts
<1> QED
  BY <1>1, <1>2, <1>3, <1>4 DEF RelationOf

LEMMA OpenCallInv == ASSUME ControlInv, NEW kind \in Kinds, OpenCall(kind) PROVE ControlInv'
<1> DEFINE n == Len(cp.att) + 1
           purpose == PurposeOf(cp, kind)
<1>1. /\ turn # "idle" /\ GateOpen(kind)
      /\ IF kind = "apply" THEN Cardinality(Calls \cap Applies(cp)) < MaxApplies
         ELSE Cardinality(Calls \ Applies(cp)) < MaxLooks
  BY DEF OpenCall, CallAllowed, Calls
<1>2. /\ cp' = Opened(cp, kind, purpose, RelationOf(cp))
      /\ call' = [call EXCEPT ![n] = "pending"] /\ owner' = [owner EXCEPT ![n] = turnGen]
      /\ job' = IF kind = "apply" THEN [job EXCEPT ![n] = "queued"] ELSE job
      /\ gate' = IF kind = "apply" THEN "used" ELSE gate
      /\ UNCHANGED <<turn, turnGen, waiting>>
  BY DEF OpenCall
<1>3. /\ Len(cp.att) \in Nat /\ DOMAIN cp.att = 1..Len(cp.att) /\ DOMAIN cp.att \subseteq Ids
      /\ Applies(cp) \subseteq DOMAIN cp.att
  BY DomainFacts DEF ControlInv
<1>4. n \notin DOMAIN cp.att /\ n \in Ids
  BY <1>1, <1>3, RoomLeft, BoundsAssumption DEF Ids
<1>5. call[n] = "none" /\ job[n] = "none"
  BY <1>3, <1>4 DEF ControlInv, CallInv
<1>6. /\ JournalInv(cp', job) /\ cp'.gen = cp.gen
      /\ DOMAIN cp'.att = DOMAIN cp.att \cup {n}
      /\ \A j \in DOMAIN cp.att : cp'.att[j] = cp.att[j]
      /\ cp'.att[n].kind = kind
  <2>1. /\ purpose \in Purposes /\ RelationOf(cp) \in 0..Len(cp.att) /\ cp.gen # 0
        /\ Len(cp.att) < MaxLooks + MaxApplies + MaxGen
    BY <1>1, RelationFacts, RoomLeft, BoundsAssumption DEF PurposeOf, Purposes, ControlInv
  <2> HIDE DEF purpose
  <2> QED
    BY <1>2, <2>1, OpenedFacts DEF ControlInv
<1> HIDE DEF n
<1>7. StateOk'
  BY <1>2, <1>4 DEF ControlInv, StateOk
<1>8. Applies(cp') = IF kind = "apply" THEN Applies(cp) \cup {n} ELSE Applies(cp)
  BY <1>4, <1>6 DEF Applies, Where
<1>9. /\ call'[n] = "pending" /\ owner'[n] = turnGen
      /\ kind = "apply" => job'[n] = "queued"
      /\ \A i \in Ids : i # n => call'[i] = call[i] /\ owner'[i] = owner[i] /\ job'[i] = job[i]
      /\ kind # "apply" => job' = job
  BY <1>2, <1>4 DEF ControlInv, StateOk
<1>10. Calls' = Calls \cup {n} /\ n \notin Calls
  BY <1>3, <1>4, <1>6, <1>9 DEF Calls
<1>11. JournalInv(cp, job)'
  <2>1. Real(job) => Real(job')
    BY <1>5, <1>9 DEF Real
  <2>2. ASSUME NEW i \in DOMAIN cp'.att, Open(job', i)
        PROVE  Open(job, i) \/ cp'.att[i].term = "active"
    <3>1. CASE i = n
      BY <1>2, <1>3, <3>1 DEF Opened, n, ControlInv, JournalInv, Projections
    <3>2. CASE i # n
      BY <1>3, <1>6, <1>9, <2>2, <3>2 DEF Open
    <3> QED
      BY <3>1, <3>2
  <2> QED
    BY <1>6, <2>1, <2>2, JobsKept
<1>12. TurnInv'
  <2>1. turnGen \in 1..cp.gen /\ cp.gen \in 1..MaxGen /\ (waiting # 0 => turnGen < waiting)
    BY <1>1, RoomLeft DEF ControlInv, TurnInv
  <2>2. \A i \in Calls : i # n /\ i \in Ids
    BY <1>3, <1>10 DEF Calls
  <2> QED
    BY <1>2, <1>6, <1>9, <1>10, <2>1, <2>2 DEF ControlInv, TurnInv
<1>13. CallInv'
  BY <1>4, <1>5, <1>6, <1>8, <1>9 DEF ControlInv, CallInv
<1>14. CountInv'
  <2> DEFINE A == Calls \cap Applies(cp)
             L == Calls \ Applies(cp)
  <2>1. /\ IsFiniteSet(A) /\ IsFiniteSet(L) /\ Cardinality(A) \in Nat /\ Cardinality(L) \in Nat
    BY CountFacts
  <2>2. n \notin A /\ n \notin L /\ n \notin Applies(cp)
    BY <1>3, <1>4, <1>10
  <2>3. DOMAIN cp'.att \ Calls' = DOMAIN cp.att \ Calls
    BY <1>4, <1>6, <1>10
  <2>4. Cardinality(DOMAIN cp'.att \ Calls') <= TurnsOver'
    BY <1>1, <1>2, <2>3 DEF ControlInv, CountInv, TurnsOver
  <2>5. CASE kind = "apply"
    <3>1. (Calls \cap Applies(cp))' = A \cup {n} /\ (Calls \ Applies(cp))' = L
      BY <1>8, <1>10, <2>2, <2>5
    <3>2. Cardinality(A \cup {n}) = Cardinality(A) + 1
      BY <2>1, <2>2, FS_AddElement
    <3>3. Cardinality(A) + 1 <= MaxApplies
      BY <1>1, <2>1, <2>5, BoundsAssumption
    <3> QED
      BY <2>4, <3>1, <3>2, <3>3 DEF ControlInv, CountInv
  <2>6. CASE kind # "apply"
    <3>1. (Calls \cap Applies(cp))' = A /\ (Calls \ Applies(cp))' = L \cup {n}
      BY <1>8, <1>10, <2>2, <2>6
    <3>2. Cardinality(L \cup {n}) = Cardinality(L) + 1
      BY <2>1, <2>2, FS_AddElement
    <3>3. Cardinality(L) + 1 <= MaxLooks
      BY <1>1, <2>1, <2>6, BoundsAssumption
    <3> QED
      BY <2>4, <3>1, <3>2, <3>3 DEF ControlInv, CountInv
  <2> QED
    BY <2>5, <2>6
<1>15. GateInv'
  <2>1. Real(job) => Real(job')
    BY <1>5, <1>9 DEF Real
  <2>2. \A i \in Applies(cp) : /\ i # n /\ i \in Ids
                               /\ owner'[i] = owner[i] /\ (Live(i)' <=> Live(i))
    BY <1>3, <1>4, <1>9 DEF Live, MayChange
  <2>3. CASE kind = "apply"
    <3>1. gate = "free" /\ gate' = "used"
      BY <1>1, <1>2, <2>3 DEF GateOpen
    <3>2. \A i \in Applies(cp) : owner'[i] = turnGen => ~Live(i)'
      BY <2>2, <3>1 DEF ControlInv, GateInv
    <3> QED
      BY <1>2, <1>8, <1>9, <2>2, <2>3, <3>1, <3>2 DEF ControlInv, GateInv
  <2>4. CASE kind # "apply"
    BY <1>2, <1>8, <2>1, <2>2, <2>4 DEF ControlInv, GateInv
  <2> QED
    BY <2>3, <2>4
<1> QED
  BY <1>7, <1>11, <1>12, <1>13, <1>14, <1>15 DEF ControlInv

LEMMA SameJournal == ASSUME ControlInv, UNCHANGED cp PROVE Kept(cp, cp', job)
BY KeptSelf DEF ControlInv

LEMMA OpenRefusedInv == ASSUME ControlInv, NEW kind \in Kinds, OpenRefused(kind) PROVE ControlInv'
<1>1. gate' = "used" /\ UNCHANGED <<cp, call, owner, job, turn, turnGen, waiting>>
  BY DEF OpenRefused
<1>2. StateOk'
  BY <1>1 DEF ControlInv, StateOk
<1> QED
  BY <1>1, <1>2, SameJournal, KeptStep

LEMMA RevitRunsInv == ASSUME ControlInv, NEW i \in Ids, RevitRuns(i) PROVE ControlInv'
<1>1. PICK did \in {"changed", "unchanged", "refused"} : job' = [job EXCEPT ![i] = did]
  BY DEF RevitRuns
<1>2. job[i] = "queued" /\ UNCHANGED <<cp, call, owner, turn, turnGen, waiting, gate>>
  BY DEF RevitRuns
<1>3. /\ job'[i] = did
      /\ \A j \in Ids : j # i => job'[j] = job[j]
  BY <1>1 DEF ControlInv, StateOk
<1>4. StateOk'
  BY <1>1, <1>2 DEF ControlInv, StateOk
<1>5. Real(job) => Real(job')
  BY <1>2, <1>3 DEF Real
<1>6. DOMAIN cp.att \subseteq Ids /\ Applies(cp) \subseteq DOMAIN cp.att
  BY DomainFacts DEF ControlInv
<1>7. \A j \in DOMAIN cp.att : Open(job', j) => Open(job, j)
  BY <1>2, <1>3, <1>6 DEF Open
<1>8. JournalInv(cp, job)'
  BY <1>2, <1>5, <1>7, JobsKept DEF ControlInv
<1>9. Calls' = Calls
  BY <1>2 DEF Calls
<1>10. TurnInv'
  BY <1>2, <1>9 DEF ControlInv, TurnInv
<1>11. CallInv'
  BY <1>1, <1>2, <1>3 DEF ControlInv, CallInv
<1>12. CountInv'
  BY <1>2, <1>9 DEF ControlInv, CountInv, TurnsOver
<1>13. GateInv'
  <2>1. \A j \in Applies(cp) : Live(j)' => Live(j)
    BY <1>2, <1>6, <1>7 DEF Live, MayChange, Open
  <2> QED
    BY <1>2, <1>5, <2>1 DEF ControlInv, GateInv
<1> QED
  BY <1>4, <1>8, <1>10, <1>11, <1>12, <1>13 DEF ControlInv
(* The call of attempt i ends, and nothing else about the calls changes. *)
LEMMA CallEndsFacts ==
  ASSUME ControlInv, NEW i \in Ids, CallEnds(i)
  PROVE  /\ i \in DOMAIN cp.att /\ cp \in Projections /\ AttemptInv(cp, job, i)
         /\ call[i] = "pending" /\ call'[i] = "ended"
         /\ call' \in [Ids -> {"none", "pending", "ended"}]
         /\ \A j \in Ids : /\ call'[j] = "none" <=> call[j] = "none"
                           /\ call'[j] = "pending" => call[j] = "pending"
<1>1. call \in [Ids -> {"none", "pending", "ended"}] /\ call[i] = "pending"
      /\ call' = [call EXCEPT ![i] = "ended"]
  BY DEF CallEnds, ControlInv, StateOk
<1>2. i \in DOMAIN cp.att
  BY <1>1 DEF ControlInv, CallInv
<1> QED
  BY <1>1, <1>2 DEF ControlInv, JournalInv

LEMMA ResultArrivesInv == ASSUME ControlInv, NEW i \in Ids, ResultArrives(i) PROVE ControlInv'
<1>1. PICK did \in Answered(i), ans \in Answer, retained \in BOOLEAN, stop \in BOOLEAN :
         /\ cp' = Progress(NativeResult(cp, i, ans, did, retained), stop)
         /\ gate' \in GateAfter(i, did)
         /\ ans = "refusal" => did = "refused"
  BY DEF ResultArrives
<1>2. CallEnds(i) /\ UNCHANGED <<owner, job, turn, turnGen, waiting>>
  BY DEF ResultArrives
<1>3. /\ i \in DOMAIN cp.att /\ cp \in Projections /\ AttemptInv(cp, job, i)
      /\ call[i] = "pending" /\ call'[i] = "ended"
      /\ call' \in [Ids -> {"none", "pending", "ended"}]
      /\ \A j \in Ids : /\ call'[j] = "none" <=> call[j] = "none"
                        /\ call'[j] = "pending" => call[j] = "pending"
  BY <1>2, CallEndsFacts
<1>4. /\ cp.att[i].kind = "apply" => i \in Applies(cp) /\ did = job[i]
      /\ cp.att[i].kind # "apply" => did \in {"unchanged", "refused"}
  BY <1>3, DomainFacts DEF Answered, ControlInv
<1>5. MayAnswer(cp, job, i, ans, did)
  <2>1. job[i] \in {"none", "queued", "changed", "unchanged", "refused"}
    BY DEF ControlInv, StateOk
  <2>2. cp.att[i].kind = "apply" => job[i] # "none" /\ job[i] # "queued"
    BY <1>4 DEF ControlInv, CallInv, Answered
  <2> QED
    BY <1>4, <2>1, <2>2 DEF MayAnswer
<1>6. Kept(cp, cp', job)
  <2> DEFINE q == NativeResult(cp, i, ans, did, retained)
  <2>1. q = cp \/ Settles(cp, q, job, i)
    BY <1>3, <1>5, NativeResultFacts
  <2> HIDE DEF q
  <2>2. Kept(cp, q, job)
    BY <1>3, <2>1, SettlesKept DEF ControlInv
  <2>3. Kept(cp, Progress(q, stop), job)
    BY <2>2, ProgressKept
  <2> QED
    BY <1>1, <2>3 DEF q
<1>7. /\ gate' \in {gate, "succeeded", "answer", "readback", "free"}
      /\ gate' = "readback" => gate = "readback" \/ \E j \in DOMAIN cp.att : job[j] = "changed"
      /\ gate' = "free" => \/ gate = "free"
                           \/ owner[i] = turnGen /\ cp.att[i].kind = "apply" /\ did = "refused"
  BY <1>1 DEF GateAfter
<1>8. gate' = "readback" => Real(job)
  BY <1>7, DomainFacts DEF ControlInv, GateInv, Real
<1>9. gate' = "free" => gate = "free" \/ \A j \in Applies(cp) : owner[j] = turnGen => ~Live(j)'
  <2>1. SUFFICES ASSUME owner[i] = turnGen, cp.att[i].kind = "apply", did = "refused",
                        NEW j \in Applies(cp), owner[j] = turnGen
                 PROVE  ~Live(j)'
    BY <1>7
  <2>2. i \in Applies(cp) /\ Live(i) /\ job[i] = "refused"
    BY <1>3, <1>4, <2>1 DEF Live
  <2>3. CASE j = i
    BY <1>2, <1>3, <2>2, <2>3 DEF Live, MayChange
  <2>4. CASE j # i
    <3>1. ~Live(j)
      BY <2>1, <2>2, <2>4 DEF ControlInv, GateInv
    <3>2. j \in Ids
      BY DomainFacts DEF ControlInv
    <3> QED
      BY <1>2, <1>3, <3>1, <3>2 DEF Live, MayChange
  <2> QED
    BY <2>3, <2>4
<1>10. StateOk'
  BY <1>2, <1>3, <1>7 DEF ControlInv, StateOk
<1> QED
  BY <1>2, <1>3, <1>6, <1>8, <1>9, <1>10, KeptStep

LEMMA ToolErrorInv == ASSUME ControlInv, NEW i \in Ids, ToolError(i) PROVE ControlInv'
<1>1. /\ CallEnds(i) /\ cp' = FailAfterDispatch(cp, i)
      /\ UNCHANGED <<owner, job, turn, turnGen, waiting, gate>>
  BY DEF ToolError
<1>2. /\ i \in DOMAIN cp.att /\ cp \in Projections /\ AttemptInv(cp, job, i)
      /\ call' \in [Ids -> {"none", "pending", "ended"}]
      /\ \A j \in Ids : /\ call'[j] = "none" <=> call[j] = "none"
                        /\ call'[j] = "pending" => call[j] = "pending"
  BY <1>1, CallEndsFacts
<1>3. cp' = cp \/ Settles(cp, cp', job, i)
  BY <1>1, <1>2, FailAfterDispatchFacts
<1>4. Kept(cp, cp', job)
  BY <1>2, <1>3, SettlesKept DEF ControlInv
<1>5. StateOk'
  BY <1>1, <1>2 DEF ControlInv, StateOk
<1>6. gate = "readback" => Real(job)
  BY DEF ControlInv, GateInv
<1> QED
  BY <1>1, <1>2, <1>4, <1>5, <1>6, KeptStep

(* The journal goes on and the calls stay as they are. *)
LEMMA JournalStep ==
  ASSUME ControlInv, Kept(cp, cp', job), UNCHANGED <<call, owner, job, turnGen, waiting, gate>>,
         turn # "idle", turn' \in {"running", "draining", "canceling"}
  PROVE  ControlInv'
<1>1. StateOk'
  BY DEF ControlInv, StateOk
<1>2. gate = "readback" => Real(job)
  BY DEF ControlInv, GateInv
<1> QED
  BY <1>1, <1>2, KeptStep

LEMMA BarrierTimerInv == ASSUME ControlInv, BarrierTimer PROVE ControlInv'
<1>1. /\ turn \in {"draining", "canceling"} /\ cp.term = "open" /\ InFlight(cp) # {}
      /\ cp' = SettleExpired(cp, Min(InFlight(cp)))
      /\ UNCHANGED <<call, owner, job, turn, turnGen, waiting, gate>>
  BY DEF BarrierTimer, Quiescent
<1>2. InFlight(cp) \in SUBSET Nat
  <2>1. Len(cp.att) \in Nat /\ DOMAIN cp.att = 1..Len(cp.att)
    BY DomainFacts DEF ControlInv
  <2> QED
    BY <2>1 DEF InFlight, Where
<1>3. Min(InFlight(cp)) \in InFlight(cp)
  BY <1>1, <1>2, MinFacts
<1>4. Kept(cp, cp', job)
  BY <1>1, <1>3, SettleExpiredKept DEF ControlInv
<1> QED
  BY <1>1, <1>4, JournalStep

LEMMA UserCancelsInv == ASSUME ControlInv, UserCancels PROVE ControlInv'
<1>1. Kept(cp, cp', job)
  BY CancelInFlightKept DEF UserCancels, ControlInv
<1> QED
  BY <1>1, JournalStep DEF UserCancels

LEMMA ProviderTimesOutInv == ASSUME ControlInv, ProviderTimesOut PROVE ControlInv'
BY SameJournal, JournalStep DEF ProviderTimesOut

LEMMA TurnSettles ==
  ASSUME ControlInv, turn # "idle"
  PROVE  LET q == SettleTurn(cp, gate) IN Kept(cp, q, job) \/ Extended(cp, q, job)
<1>1. cp.gen # 0 /\ Len(cp.att) < MaxLooks + MaxApplies + MaxGen
  BY RoomLeft, BoundsAssumption
<1>2. gate = "readback" => Real(job)
  BY DEF ControlInv, GateInv
<1> QED
  BY <1>1, <1>2, SettleTurnFacts DEF ControlInv

LEMMA TerminalAfter ==
  ASSUME NEW p, NEW q, NEW w, Kept(p, q, w) \/ Extended(p, q, w), NEW g,
         NEW outcome \in {"blocked", "failed", "canceled"}
  PROVE  LET r == AssignmentTerminal(q, g, outcome) IN Kept(p, r, w) \/ Extended(p, r, w)
<1>1. Kept(q, AssignmentTerminal(q, g, outcome), w)
  BY TerminalKept DEF Kept, Extended
<1> QED
  BY <1>1, KeptTwice, ExtendedThenKept

LEMMA TurnCompletesInv == ASSUME ControlInv, TurnCompletes PROVE ControlInv'
<1> DEFINE s == SettleTurn(cp, gate)
<1>1. PICK stop \in BOOLEAN : TurnEnds(Progress(s, stop))
  BY DEF TurnCompletes
<1>2. turn # "idle"
  BY DEF TurnCompletes
<1>3. Kept(cp, s, job) \/ Extended(cp, s, job)
  BY <1>2, TurnSettles
<1> HIDE DEF s
<1>4. Kept(cp, Progress(s, stop), job) \/ Extended(cp, Progress(s, stop), job)
  <2>1. CASE stop
    BY <1>3, <2>1, TerminalAfter DEF Progress
  <2>2. CASE ~stop
    BY <1>3, <2>2 DEF Progress
  <2> QED
    BY <2>1, <2>2
<1> QED
  BY <1>1, <1>2, <1>4, EndStep

LEMMA TurnFailsInv == ASSUME ControlInv, TurnFails PROVE ControlInv'
<1>1. turn # "idle" /\ TurnEnds(AssignmentTerminal(cp, turnGen, "failed"))
  BY DEF TurnFails
<1>2. Kept(cp, AssignmentTerminal(cp, turnGen, "failed"), job)
  BY TerminalKept DEF ControlInv
<1> QED
  BY <1>1, <1>2, EndStep

LEMMA DrainedAfterTimeoutInv == ASSUME ControlInv, DrainedAfterTimeout PROVE ControlInv'
<1> DEFINE s == SettleTurn(cp, gate)
           b == AssignmentTerminal(s, s.gen, "blocked")
           f == AssignmentTerminal(b, turnGen, "failed")
<1>1. turn # "idle" /\ TurnEnds(f)
  BY DEF DrainedAfterTimeout, Resumes
<1>2. Kept(cp, s, job) \/ Extended(cp, s, job)
  BY <1>1, TurnSettles
<1> HIDE DEF s
<1>3. Kept(cp, b, job) \/ Extended(cp, b, job)
  BY <1>2, TerminalAfter
<1> HIDE DEF b
<1>4. Kept(cp, f, job) \/ Extended(cp, f, job)
  BY <1>3, TerminalAfter
<1> HIDE DEF f
<1> QED
  BY <1>1, <1>4, EndStep

LEMMA DrainedAfterCancelInv == ASSUME ControlInv, DrainedAfterCancel PROVE ControlInv'
<1>1. turn # "idle" /\ TurnEnds(AssignmentTerminal(cp, cp.gen, "canceled"))
  BY DEF DrainedAfterCancel, Resumes
<1>2. Kept(cp, AssignmentTerminal(cp, cp.gen, "canceled"), job)
  BY TerminalKept DEF ControlInv
<1> QED
  BY <1>1, <1>2, EndStep

LEMMA CrashInv == ASSUME ControlInv, Crash PROVE ControlInv'
<1>1. /\ turn' = "idle" /\ turnGen' = 0 /\ waiting' = 0 /\ gate' = "free"
      /\ call' = [i \in Ids |-> IF call[i] = "pending" THEN "ended" ELSE call[i]]
      /\ UNCHANGED <<cp, owner, job>>
  BY DEF Crash
<1>2. cp.gen \in 0..MaxGen /\ turnGen \in 0..MaxGen /\ waiting \in 0..MaxGen
      /\ turnGen <= cp.gen /\ waiting <= cp.gen
  BY DEF ControlInv, JournalInv, Projections, StateOk, TurnInv
<1>3. DOMAIN cp.att \subseteq Ids /\ Applies(cp) \subseteq DOMAIN cp.att
  BY DomainFacts DEF ControlInv
<1>4. \A i \in Ids : /\ call'[i] = "none" <=> call[i] = "none"
                     /\ call'[i] # "pending"
  BY <1>1 DEF ControlInv, StateOk
<1>5. Calls' = Calls
  BY <1>1, <1>3, <1>4 DEF Calls
<1>6. StateOk'
  BY <1>1, BoundsAssumption DEF ControlInv, StateOk
<1>7. TurnInv'
  BY <1>1, <1>2, <1>5, BoundsAssumption DEF ControlInv, TurnInv
<1>8. CallInv'
  BY <1>1, <1>4 DEF ControlInv, CallInv
<1>9. CountInv'
  <2>1. TurnsOver <= TurnsOver' /\ TurnsOver \in Int /\ TurnsOver' \in Int
    BY <1>1, <1>2, BoundsAssumption DEF TurnsOver
  <2>2. Cardinality(DOMAIN cp.att \ Calls) \in Nat
    BY CountFacts
  <2> QED
    BY <1>1, <1>5, <2>1, <2>2 DEF ControlInv, CountInv
<1>10. GateInv'
  <2>1. \A i \in Applies(cp) : owner[i] # 0 /\ (Live(i)' => Live(i))
    <3>1. \A i \in Applies(cp) : i \in Calls /\ i \in Ids
      BY <1>3 DEF ControlInv, CallInv, Calls
    <3> QED
      BY <1>1, <1>4, <3>1 DEF ControlInv, TurnInv, Live, MayChange
  <2> QED
    BY <1>1, <2>1 DEF ControlInv, GateInv
<1> QED
  BY <1>1, <1>6, <1>7, <1>8, <1>9, <1>10 DEF ControlInv

(* Every step keeps the invariant. *)
LEMMA InvStep == ControlInv /\ [Next]_vars => ControlInv'
<1> SUFFICES ASSUME ControlInv, [Next]_vars PROVE ControlInv'
  OBVIOUS
<1>1. CASE PrepareTurn
  BY <1>1, PrepareTurnInv
<1>2. CASE BeginTurn
  BY <1>2, BeginTurnInv
<1>3. CASE \E kind \in Kinds : OpenCall(kind) \/ OpenRefused(kind)
  BY <1>3, OpenCallInv, OpenRefusedInv
<1>4. CASE \E i \in Ids : RevitRuns(i) \/ ResultArrives(i) \/ ToolError(i)
  BY <1>4, RevitRunsInv, ResultArrivesInv, ToolErrorInv
<1>5. CASE BarrierTimer
  BY <1>5, BarrierTimerInv
<1>6. CASE TurnCompletes
  BY <1>6, TurnCompletesInv
<1>7. CASE TurnFails
  BY <1>7, TurnFailsInv
<1>8. CASE ProviderTimesOut
  BY <1>8, ProviderTimesOutInv
<1>9. CASE UserCancels
  BY <1>9, UserCancelsInv
<1>10. CASE DrainedAfterTimeout
  BY <1>10, DrainedAfterTimeoutInv
<1>11. CASE DrainedAfterCancel
  BY <1>11, DrainedAfterCancelInv
<1>12. CASE Crash
  BY <1>12, CrashInv
<1>13. CASE UNCHANGED vars
  BY <1>13 DEF vars, ControlInv, StateOk, TurnInv, CallInv, CountInv, GateInv, Calls, TurnsOver,
               Live, MayChange
<1> QED
  BY <1>1, <1>2, <1>3, <1>4, <1>5, <1>6, <1>7, <1>8, <1>9, <1>10, <1>11, <1>12, <1>13 DEF Next

LEMMA InvHolds == Spec => []ControlInv
BY InvInit, InvStep, PTL DEF Spec

-----------------------------------------------------------------------------
(* Theorems *)

(* The journal, the calls and the turn keep their types; in particular the
   attempts fit the identifiers, and an open attempt is of the current run. *)
THEOREM ControlTypeCorrect == Spec => []TypeOK
<1>1. ControlInv => TypeOK
  <2>1. SUFFICES ASSUME ControlInv PROVE TypeOK
    OBVIOUS
  <2>2. cp \in Projections /\ Len(cp.att) <= Cardinality(Ids)
        /\ \A i \in DOMAIN cp.att : cp.att[i].term = "active" => cp.att[i].gen = cp.gen
    BY <2>1, IdsFacts DEF ControlInv, JournalInv, AttemptInv
  <2> QED
    BY <2>1, <2>2 DEF TypeOK, ControlInv, StateOk, Projections
<1> QED
  BY <1>1, InvHolds, PTL

(* An apply that is settled as without effect has not changed the model and
   never will, whichever of the answer, the lost call, the barrier timer and
   the cancellation settled it and however late Revit is. *)
THEOREM NoneIsSafeHolds == Spec => []NoneIsSafe
<1>1. ControlInv => NoneIsSafe
  BY DEF ControlInv, JournalInv, AttemptInv, NoneIsSafe, Applies, Where, MayChange, Open
<1> QED
  BY <1>1, InvHolds, PTL

(* What the journal calls applied or verified is in the model: only a native
   settlement or a readback after a change puts it there. *)
THEOREM AppliedIsRealHolds == Spec => []AppliedIsReal
<1>1. ControlInv => AppliedIsReal
  BY DEF ControlInv, JournalInv, CallInv, AppliedIsReal, Real
<1> QED
  BY <1>1, InvHolds, PTL

(* The gate of the teammate loop keeps one turn from changing the model twice,
   also when a newer message has superseded its run. *)
THEOREM OneChangePerTurnHolds == Spec => []OneChangePerTurn
<1>1. ControlInv => OneChangePerTurn
  BY DEF ControlInv, GateInv, OneChangePerTurn, Live
<1> QED
  BY <1>1, InvHolds, PTL
=============================================================================
