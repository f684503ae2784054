------------------------ MODULE CourierAuthorityProofs ------------------------
(***************************************************************************)
(* Who may start a courier job, and how often.                             *)
(*                                                                         *)
(* A family job implements DispatchAuthority, for any number of backends,  *)
(* executors and restarts.  TokenInv: the right to dispatch is a token     *)
(* with one holder, a backend between creating the challenge and answering *)
(* or the worker that got the answer; it is spent by the run.              *)
(* EvidenceInv: whoever speaks of a completed action speaks of a run.      *)
(*                                                                         *)
(* For every kind of job, LeaseInv: job.json is pending until the first    *)
(* lease is saved, and until then nobody has been given the job.  On it    *)
(* rest TooLate (an expired job that was never given away stays so),       *)
(* KnownInv (who writes that nothing was dispatched) and OnceInv (one      *)
(* owner and one call per worker before the run, no owner after it).       *)
(***************************************************************************)
EXTENDS CourierJobsProofs

\* A backend that may still say yes to a final authorization.
Authorized(h) == h.pc = "authorize" \/ (h.op = "final" /\ h.answer = "ok")

\* A handler about to decide that the job succeeded.
Succeeding(h) == h.pc = "decide" /\ h.dec.receipt.outcome = "succeeded"

TokenInv ==
    /\ \A b, c \in Backends : Authorized(backend[b]) /\ Authorized(backend[c]) => b = c
    /\ \A d, e \in Executors : worker[d] = "granted" /\ worker[e] = "granted" => d = e
    /\ \A b \in Backends, e \in Executors : ~(Authorized(backend[b]) /\ worker[e] = "granted")
    /\ \A b \in Backends : Authorized(backend[b]) => issued.type = "challenge" /\ runs = 0
    /\ \A e \in Executors : worker[e] = "granted" => issued.type = "challenge" /\ runs = 0
    /\ runs \in {0, 1}
    /\ runs = 1 => issued.type = "challenge"

EvidenceInv ==
    /\ \A r \in requests : r.op = "complete" => runs = 1
    /\ outbox.state = "pending" => runs = 1
    /\ \A e \in Executors : worker[e] \in {"running", "executed"} => runs = 1
    /\ \A b \in Backends : Succeeding(backend[b]) => runs = 1

AuthorityInv == Inv /\ Family /\ TokenInv /\ EvidenceInv

-----------------------------------------------------------------------------
(* Frames *)

\* A step that gives nobody the token and starts no run keeps TokenInv.
LEMMA TokenFrame ==
    ASSUME TokenInv, UNCHANGED runs,
           issued' = issued \/ issued.type # "challenge",
           \A b \in Backends : Authorized(backend'[b]) => Authorized(backend[b]),
           \A e \in Executors : worker'[e] = "granted" => worker[e] = "granted"
    PROVE  TokenInv'
<1>1. \A b \in Backends : Authorized(backend[b])' => Authorized(backend[b])
  BY DEF Authorized
<1>2. issued.type = "challenge" => issued'.type = "challenge"
  OBVIOUS
<1> QED  BY <1>1, <1>2 DEF TokenInv

\* A step after which no new party speaks of a completed action keeps EvidenceInv.
LEMMA EvidenceFrame ==
    ASSUME EvidenceInv, UNCHANGED runs,
           \A r \in requests' : r.op = "complete" => runs = 1,
           outbox'.state = "pending" => runs = 1,
           \A e \in Executors : worker'[e] \in {"running", "executed"} => runs = 1,
           \A b \in Backends : Succeeding(backend'[b]) => Succeeding(backend[b]) \/ runs = 1
    PROVE  EvidenceInv'
<1>1. \A b \in Backends : Succeeding(backend[b])' => runs = 1
  BY DEF EvidenceInv, Succeeding
<1> QED  BY <1>1 DEF EvidenceInv

\* An idle backend holds nothing.
LEMMA IdleHoldsNothing == ~Authorized(Idle) /\ ~Succeeding(Idle)
  BY DEF Authorized, Succeeding, Idle

-----------------------------------------------------------------------------
(* The steps keep both invariants *)

\* A request that was just read gives nobody the token.
LEMMA ServeAuthority ==
    ASSUME AuthorityInv, NEW b \in Backends, NEW r \in requests, NEW h \in Handler,
           Serve(b, r, h), Opened(r, h)
    PROVE  TokenInv' /\ EvidenceInv'
<1>1. ~Authorized(h) /\ (Succeeding(h) => runs = 1)
  BY DEF Opened, Authorized, Succeeding, AuthorityInv, EvidenceInv
<1>2. \A c \in Backends : backend'[c] = IF c = b THEN h ELSE backend[c]
  BY DEF Serve, AuthorityInv, Inv, TypeOK
<1>3. UNCHANGED <<issued, runs, worker, outbox>> /\ requests' \subseteq requests
  BY DEF Serve, files, station
<1>4. TokenInv'
  BY <1>1, <1>2, <1>3, TokenFrame DEF AuthorityInv
<1>5. EvidenceInv'
  <2>1. \A c \in Backends : Succeeding(backend'[c]) => Succeeding(backend[c]) \/ runs = 1
    BY <1>1, <1>2
  <2> QED  BY <1>3, <2>1, EvidenceFrame DEF AuthorityInv, EvidenceInv
<1> QED  BY <1>4, <1>5

\* A write inside a handler keeps its answer or refuses; only the creation of
\* the challenge hands out the token, and no write turns to success.
LEMMA ContinueFacts ==
    ASSUME AuthorityInv, NEW b \in Backends,
           \/ IssueChallenge(b) \/ AuthorizeFinal(b) \/ WriteFence(b) \/ PublishDecision(b)
           \/ ConsumeChallenge(b) \/ PublishResult(b)
    PROVE  \E x : /\ Continue(b, x) /\ ~Succeeding(x)
                  /\ Authorized(x) => \/ Authorized(backend[b])
                                      \/ IssueChallenge(b) /\ issued = NotIssued
<1> USE DEF AuthorityInv, Inv
<1> DEFINE h == backend[b]
           Goal == \E x : /\ Continue(b, x) /\ ~Succeeding(x)
                          /\ Authorized(x) => \/ Authorized(backend[b])
                                              \/ IssueChallenge(b) /\ issued = NotIssued
<1>h. h \in Handler /\ h.dec \in Decision /\ h.copy \in Job /\ h.answer \in Answers
  BY DEF TypeOK, Handler
<1>f. Family
  OBVIOUS
<1>s. HandlerSound(h) /\ IssuedWellFormed /\ FamilyTruth
  BY <1>f DEF FamilyInv
<1>0. ASSUME NEW x, Continue(b, x), ~Succeeding(x), Authorized(x) => Authorized(h) PROVE Goal
  BY <1>0
<1>00. ASSUME NEW x, Continue(b, x), ~Succeeding(x), IssueChallenge(b), issued = NotIssued PROVE Goal
  BY <1>00
<1>e. ASSUME NEW x, Continue(b, x), ~Succeeding(x), x.pc # "authorize", x.op = h.op,
             x.answer \in {h.answer, "none", "error"}
      PROVE  Goal
  <2>1. Authorized(x) => Authorized(h)
    BY <1>e DEF Authorized
  <2> HIDE DEF Goal
  <2> QED  BY <1>0, <1>e, <2>1
<1>a. ASSUME NEW answer \in {h.answer, "error"}, issued.type = "fence", Continue(b, AdoptFence(h, answer))
      PROVE  Goal
  <2> DEFINE x == AdoptFence(h, answer)
  <2>0. answer \in Answers
    BY <1>h DEF Answers
  <2>1. /\ x.op = h.op
        /\ \/ x.pc \in {"reply", "save"} /\ x.answer \in {"none", "error"}
           \/ x.pc = "decide" /\ x.answer = answer /\ x.dec = issued.decision
    BY <1>h, <2>0, AdoptFenceFacts
  <2>2. issued.decision.receipt.outcome # "succeeded"
    BY <1>a, <1>s, FenceCausal DEF Failures
  <2>3. Continue(b, x)
    BY <1>a
  <2> HIDE DEF x, Goal
  <2>4. ~Succeeding(x)
    BY <2>1, <2>2 DEF Succeeding
  <2> QED  BY <1>e, <2>1, <2>3, <2>4
<1>t. ASSUME NEW receipt \in Receipt, Continue(b, WriteTerminal(h, receipt, "error")) PROVE Goal
  <2> DEFINE x == WriteTerminal(h, receipt, "error")
  <2>0. "error" \in Answers
    BY DEF Answers
  <2>1. x.pc \in {"fence", "publish"} /\ x.op = h.op /\ x.answer = "error"
    BY <1>h, <2>0, WriteTerminalFacts
  <2>2. Continue(b, x)
    BY <1>t
  <2> HIDE DEF x, Goal
  <2> QED  BY <1>e, <2>1, <2>2 DEF Succeeding
<1> SUFFICES Goal
  OBVIOUS
<1> HIDE DEF Goal
<1>1. CASE IssueChallenge(b)
  <2>1. CASE issued.type = "none"
    <3> DEFINE x == [h EXCEPT !.pc = "authorize"]
    <3>1. issued = NotIssued
      BY <2>1, <1>s DEF IssuedWellFormed
    <3>2. Continue(b, x) /\ x.pc = "authorize"
      BY <1>1, <1>h, <2>1 DEF IssueChallenge, Handler
    <3> HIDE DEF x
    <3> QED  BY <1>00, <1>1, <3>1, <3>2 DEF Succeeding
  <2>2. CASE issued.type = "fence"
    BY <1>1, <1>a, <2>2 DEF IssueChallenge
  <2>3. CASE issued.type = "challenge"
    <3> DEFINE receipt == Receipted("failed_unknown", "replay_denied")
    <3>1. receipt \in Receipt
      BY ReceiptedType DEF Outcomes, Codes
    <3>2. Continue(b, WriteTerminal(h, receipt, "error"))
      BY <1>1, <2>3 DEF IssueChallenge
    <3> HIDE DEF receipt
    <3> QED  BY <1>t, <3>1, <3>2
  <2> QED  BY <2>1, <2>2, <2>3 DEF TypeOK, Issued
<1>2. CASE AuthorizeFinal(b)
  <2>1. CASE Continue(b, Respond(h, "ok"))
    <3> DEFINE x == Respond(h, "ok")
    <3>1. x.pc = "reply" /\ Continue(b, x) /\ Authorized(h)
      BY <1>2, <1>h, <2>1, RespondFacts DEF Answers, AuthorizeFinal, Authorized
    <3> HIDE DEF x
    <3> QED  BY <1>0, <3>1 DEF Succeeding
  <2>2. CASE Continue(b, WriteTerminal(h, Receipted("failed_known", "final_denied"), "error"))
    <3> DEFINE receipt == Receipted("failed_known", "final_denied")
    <3>1. receipt \in Receipt
      BY ReceiptedType DEF Outcomes, Codes
    <3>2. Continue(b, WriteTerminal(h, receipt, "error"))
      BY <2>2
    <3> HIDE DEF receipt
    <3> QED  BY <1>t, <3>1, <3>2
  <2> QED  BY <1>2, <2>1, <2>2 DEF AuthorizeFinal
<1>3. CASE WriteFence(b)
  <2>1. CASE issued.type = "none"
    <3> DEFINE x == [h EXCEPT !.pc = "decide"]
    <3>1. h.dec.receipt.outcome \in Failures
      BY <1>3, <1>s DEF WriteFence, HandlerSound
    <3>2. Continue(b, x) /\ x.pc = "decide" /\ x.dec = h.dec /\ x.op = h.op /\ x.answer = h.answer
      BY <1>3, <1>h, <2>1 DEF WriteFence, Handler
    <3> HIDE DEF x
    <3> QED  BY <1>e, <3>1, <3>2 DEF Succeeding, Failures
  <2>2. CASE issued.type = "fence"
    BY <1>3, <1>a, <2>2 DEF WriteFence
  <2>3. CASE issued.type = "challenge"
    <3> DEFINE x == UnderChallenge(h)
               d == Decide(issued.exec, "challenge", Receipted("failed_unknown", h.dec.receipt.code))
    <3>1. d.receipt.outcome = "failed_unknown"
      BY DEF Decide, Receipted
    <3> HIDE DEF d
    <3>2. /\ x.op = h.op
          /\ \/ x.pc = "reply" /\ x.answer = "error"
             \/ x.pc = "decide" /\ x.answer = h.answer /\ x.dec = d
      BY <1>h, RespondFacts DEF UnderChallenge, d, Answers, Handler
    <3>3. Continue(b, x)
      BY <1>3, <2>3 DEF WriteFence
    <3> HIDE DEF x
    <3>4. ~Succeeding(x)
      BY <3>1, <3>2 DEF Succeeding
    <3> QED  BY <1>e, <3>2, <3>3, <3>4
  <2> QED  BY <2>1, <2>2, <2>3 DEF TypeOK, Issued
<1>4. CASE PublishDecision(b)
  <2> DEFINE winner == IF decision = NoDecision THEN h.dec ELSE decision
             answer == IF h.answer = "settled" THEN "none" ELSE h.answer
             x == Recover(h, winner, answer)
  <2>1. winner \in Decision /\ answer \in Answers /\ answer \in {h.answer, "none"}
    BY <1>h DEF TypeOK, Handler, Answers
  <2>2. /\ x.op = h.op /\ x.pc \in {"reply", "save", "publish", "consume"}
        /\ x.answer \in {h.answer, "none", "error"}
    BY <1>h, <2>1, RecoverFacts
  <2>3. Continue(b, x)
    BY <1>4 DEF PublishDecision
  <2> HIDE DEF winner, x
  <2> QED  BY <1>e, <2>2, <2>3 DEF Succeeding
<1>5. CASE ConsumeChallenge(b)
  <2> DEFINE x == [h EXCEPT !.pc = "publish"]
  <2>1. Continue(b, x) /\ x.pc = "publish" /\ x.op = h.op /\ x.answer = h.answer
    BY <1>5, <1>h DEF ConsumeChallenge, Handler
  <2> HIDE DEF x
  <2> QED  BY <1>e, <2>1 DEF Succeeding
<1>6. CASE PublishResult(b)
  <2> PICK x : Continue(b, x) /\ x.pc \in {"reply", "save"} /\ x.op = h.op /\ x.answer = h.answer
    <3>1. CASE Published
      BY <1>6, <1>h, <3>1, ReconcileFacts DEF PublishResult, TypeOK
    <3>2. CASE ~Published
      BY <1>6, <1>h, <3>2, SaveFacts, StatusOfType DEF PublishResult
    <3> QED  BY <3>1, <3>2
  <2> QED  BY <1>e DEF Succeeding
<1> QED  BY <1>1, <1>2, <1>3, <1>4, <1>5, <1>6

\* A backend's writes keep the invariants.
LEMMA WriteAuthority ==
    ASSUME AuthorityInv, NEW b \in Backends, WriteStep(b)
    PROVE  TokenInv' /\ EvidenceInv'
<1>f. TypeOK /\ FamilyInv /\ Family /\ TokenInv /\ EvidenceInv
  BY DEF AuthorityInv, Inv
<1>1. CASE \/ IssueChallenge(b) \/ AuthorizeFinal(b) \/ WriteFence(b) \/ PublishDecision(b)
           \/ ConsumeChallenge(b) \/ PublishResult(b)
  <2> PICK x : /\ Continue(b, x) /\ ~Succeeding(x)
               /\ Authorized(x) => \/ Authorized(backend[b])
                                   \/ IssueChallenge(b) /\ issued = NotIssued
    BY <1>1, ContinueFacts
  <2>1. \A c \in Backends : backend'[c] = IF c = b THEN x ELSE backend[c]
    BY <1>f DEF Continue, TypeOK
  <2>2. UNCHANGED <<requests, worker, outbox, runs>>
    BY DEF Continue, station
  <2>3. issued' = issued \/ issued = NotIssued
    BY <1>1 DEF IssueChallenge, AuthorizeFinal, WriteFence, PublishDecision, ConsumeChallenge,
                PublishResult, files
  <2>4. issued' = issued \/ issued.type # "challenge"
    BY <2>3 DEF NotIssued
  <2>5. EvidenceInv'
    <3>1. \A c \in Backends : Succeeding(backend'[c]) => Succeeding(backend[c]) \/ runs = 1
      BY <2>1
    <3> QED  BY <1>f, <2>2, <3>1, EvidenceFrame DEF EvidenceInv
  <2>6. CASE Authorized(x) => Authorized(backend[b])
    <3>1. \A c \in Backends : Authorized(backend'[c]) => Authorized(backend[c])
      BY <2>1, <2>6
    <3> QED  BY <1>f, <2>2, <2>4, <2>5, <3>1, TokenFrame
  <2>7. CASE IssueChallenge(b) /\ issued = NotIssued
    <3>1. issued.type = "none" /\ issued'.type = "challenge"
      BY <2>7 DEF IssueChallenge, NotIssued, Challenge
    <3>2. /\ \A c \in Backends : ~Authorized(backend[c])
          /\ \A e \in Executors : worker[e] # "granted"
          /\ runs = 0
      BY <1>f, <3>1 DEF TokenInv
    <3>3. \A c \in Backends : Authorized(backend[c])' => c = b
      <4>1. \A c \in Backends : c # b => backend'[c] = backend[c]
        BY <2>1
      <4> QED  BY <3>2, <4>1 DEF Authorized
    <3>4. TokenInv'
      BY <2>2, <3>1, <3>2, <3>3 DEF TokenInv
    <3> QED  BY <2>5, <3>4
  <2> QED  BY <2>6, <2>7
<1>2. CASE SaveJob(b) \/ Reply(b)
  <2> DEFINE h == backend[b]
  <2>1. Finish(b) /\ UNCHANGED <<issued, requests, runs>>
    BY <1>2 DEF SaveJob, Reply, files
  <2>2. \A c \in Backends : backend'[c] = IF c = b THEN Idle ELSE backend[c]
    BY <1>f, <2>1 DEF Finish, TypeOK
  <2>3. \A c \in Backends : Authorized(backend'[c]) => c # b /\ Authorized(backend[c])
    BY <2>2, IdleHoldsNothing
  <2>4. \A c \in Backends : Succeeding(backend'[c]) => Succeeding(backend[c]) \/ runs = 1
    BY <2>2, IdleHoldsNothing
  <2>5. Received(h.op, h.answer) \notin {"running", "executed"}
    BY DEF Received
  <2>6. Received(h.op, h.answer) = "granted" => Authorized(h)
    BY DEF Received, Authorized
  <2>7. \A e \in Executors : \/ worker'[e] = worker[e]
                             \/ worker'[e] = Received(h.op, h.answer) /\ e = h.from
    BY <1>f, <2>1 DEF Finish, TypeOK
  <2>8. outbox'.state = "pending" => outbox.state = "pending"
    BY <1>f, <2>1 DEF Finish, OutboxAfter, NoOutbox, TypeOK, Outbox
  <2>9. EvidenceInv'
    <3>1. \A e \in Executors : worker'[e] \in {"running", "executed"} => runs = 1
      BY <1>f, <2>5, <2>7 DEF EvidenceInv
    <3> QED  BY <1>f, <2>1, <2>4, <2>8, <3>1, EvidenceFrame DEF EvidenceInv
  <2>10. CASE \A e \in Executors : worker'[e] = "granted" => worker[e] = "granted"
    BY <1>f, <2>1, <2>3, <2>9, <2>10, TokenFrame
  <2>11. CASE \E e \in Executors : worker'[e] = "granted" /\ worker[e] # "granted"
    <3> PICK e \in Executors : worker'[e] = "granted" /\ worker[e] # "granted"
      BY <2>11
    <3>1. Authorized(h) /\ e = h.from
      BY <2>6, <2>7
    <3>2. \A c \in Backends : ~Authorized(backend[c])'
      <4>1. \A c \in Backends : ~Authorized(backend'[c])
        BY <1>f, <2>3, <3>1 DEF TokenInv
      <4> QED  BY <4>1 DEF Authorized
    <3>3. \A d \in Executors : worker[d] # "granted"
      BY <1>f, <3>1 DEF TokenInv
    <3>4. \A d \in Executors : worker'[d] = "granted" => d = e
      BY <2>7, <3>1, <3>3
    <3>5. issued.type = "challenge" /\ runs = 0
      BY <1>f, <3>1 DEF TokenInv
    <3>6. TokenInv'
      BY <2>1, <3>2, <3>4, <3>5 DEF TokenInv
    <3> QED  BY <2>9, <3>6
  <2> QED  BY <2>10, <2>11
<1> QED  BY <1>1, <1>2 DEF WriteStep

\* The workstation's steps keep the invariants: the run spends the token, and
\* only a run leads to a completion.
LEMMA WorkerAuthority ==
    ASSUME AuthorityInv, NEW e \in Executors,
           WorkerStep(e) \/ GiveUp(e) \/ FinalOverruns(e) \/ Die(e)
    PROVE  TokenInv' /\ EvidenceInv'
<1>f. TypeOK /\ FamilyInv /\ Family /\ TokenInv /\ EvidenceInv
  BY DEF AuthorityInv, Inv
<1>w. \A step : Move(e, step) => \A d \in Executors : worker'[d] = IF d = e THEN step ELSE worker[d]
  BY <1>f DEF Move, TypeOK
<1>0. ASSUME NEW step, Move(e, step), step # "granted", step # "running",
             step = "executed" => worker[e] = "running",
             UNCHANGED <<issued, runs>>, backend' = backend \/ backend' = Detached(e),
             \A r \in requests' : r.op = "complete" =>
                 (\E q \in requests : q.op = "complete") \/ runs = 1,
             outbox'.state = "pending" => outbox.state = "pending" \/ runs = 1
      PROVE  TokenInv' /\ EvidenceInv'
  <2>1. \A b \in Backends : /\ backend'[b].pc = backend[b].pc /\ backend'[b].op = backend[b].op
                            /\ backend'[b].answer = backend[b].answer
                            /\ backend'[b].dec = backend[b].dec
    BY <1>0, <1>f DEF Detached, TypeOK, Handler
  <2>2. \A b \in Backends : /\ Authorized(backend'[b]) => Authorized(backend[b])
                            /\ Succeeding(backend'[b]) => Succeeding(backend[b]) \/ runs = 1
    BY <2>1 DEF Authorized, Succeeding
  <2>3. \A d \in Executors : worker'[d] = "granted" => worker[d] = "granted"
    BY <1>0, <1>w
  <2>4. \A d \in Executors : worker'[d] \in {"running", "executed"} => runs = 1
    BY <1>0, <1>w, <1>f DEF EvidenceInv
  <2>5. \A r \in requests' : r.op = "complete" => runs = 1
    BY <1>0, <1>f DEF EvidenceInv
  <2>6. outbox'.state = "pending" => runs = 1
    BY <1>0, <1>f DEF EvidenceInv
  <2>7. TokenInv'
    BY <1>0, <1>f, <2>2, <2>3, TokenFrame
  <2>8. EvidenceInv'
    BY <1>0, <1>f, <2>2, <2>4, <2>5, <2>6, EvidenceFrame
  <2> QED  BY <2>7, <2>8
<1>s. ASSUME NEW step, NEW op, NEW exec, NEW report, Send(e, step, op, exec, report),
             step # "granted", step # "running", step # "executed",
             op = "complete" => runs = 1,
             UNCHANGED <<issued, backend, runs>>,
             outbox'.state = "pending" => outbox.state = "pending" \/ runs = 1
      PROVE  TokenInv' /\ EvidenceInv'
  <2>1. \A r \in requests' : r.op = "complete" => (\E q \in requests : q.op = "complete") \/ runs = 1
    BY <1>s DEF Send, Ask
  <2>2. Move(e, step)
    BY <1>s DEF Send
  <2> QED  BY <1>0, <1>s, <2>1, <2>2
<1>1. CASE PollClaim(e)
  BY <1>1, <1>s DEF PollClaim, files
<1>2. CASE FlushOutbox(e)
  <2>1. runs = 1
    BY <1>2, <1>f DEF FlushOutbox, EvidenceInv
  <2> QED  BY <1>2, <1>s, <2>1 DEF FlushOutbox, files
<1>3. CASE RefuseLocally(e)
  BY <1>3, <1>0 DEF RefuseLocally, files
<1>4. CASE SendPreflight(e)
  BY <1>4, <1>s DEF SendPreflight, files
<1>5. CASE QueueLegacy(e)
  BY <1>5, <1>0 DEF QueueLegacy, files
<1>6. CASE SendFinal(e)
  BY <1>6, <1>s DEF SendFinal, files
<1>7. CASE StartNative(e)
  <2>1. worker[e] = "granted"
    BY <1>7, <1>f DEF StartNative, Family, V1, V1Kinds
  <2>2. UNCHANGED <<issued, backend, requests, outbox>> /\ runs' = runs + 1 /\ Move(e, "running")
    BY <1>7 DEF StartNative, files
  <2>3. runs = 0 /\ issued.type = "challenge"
    BY <1>f, <2>1 DEF TokenInv
  <2>4. /\ \A b \in Backends : ~Authorized(backend[b])
        /\ \A d \in Executors : d # e => worker[d] # "granted"
    BY <1>f, <2>1 DEF TokenInv
  <2>5. \A d \in Executors : worker'[d] # "granted"
    BY <1>w, <2>2, <2>4
  <2>6. \A b \in Backends : ~Authorized(backend[b])'
    BY <2>2, <2>4 DEF Authorized
  <2>7. runs' = 1
    BY <2>2, <2>3
  <2>8. TokenInv'
    BY <2>2, <2>3, <2>5, <2>6, <2>7 DEF TokenInv
  <2>9. EvidenceInv'
    BY <2>7 DEF EvidenceInv
  <2> QED  BY <2>8, <2>9
<1>8. CASE NativeReturns(e)
  BY <1>8, <1>0 DEF NativeReturns, files
<1>9. CASE ReportRefusal(e)
  BY <1>9, <1>s DEF ReportRefusal, files
<1>10. CASE ReportBusy(e)
  BY <1>10, <1>s DEF ReportBusy, files
<1>11. CASE NativeThrows(e)
  <2> PICK report \in {"unknown", "known"} : Send(e, "reporting", "fail", e, report)
    BY <1>11 DEF NativeThrows
  <2> QED  BY <1>11, <1>s DEF NativeThrows, files
<1>12. CASE NativeOverruns(e)
  BY <1>12, <1>s DEF NativeOverruns, files
<1>13. CASE OrphanReturns(e)
  BY <1>13, <1>0 DEF OrphanReturns, files
<1>14. CASE SaveAndPost(e)
  <2> PICK report : Send(e, "posting", "complete", e, report)
    BY <1>14 DEF SaveAndPost
  <2>1. runs = 1
    BY <1>14, <1>f DEF SaveAndPost, EvidenceInv
  <2> QED  BY <1>14, <1>s, <2>1 DEF SaveAndPost, files
<1>15. CASE OutboxSaveFails(e)
  BY <1>15, <1>0 DEF OutboxSaveFails, files
<1>u. \A r \in Unheard(e) : r.op = "complete" => \E q \in requests : q.op = "complete"
  BY <1>f DEF Unheard, TypeOK, Request
<1>16. CASE GiveUp(e)
  <2> DEFINE step == IF worker[e] \in {"preflight", "final"} THEN "refused" ELSE "idle"
  <2>1. Move(e, step) /\ step \in {"refused", "idle"}
    BY <1>16 DEF GiveUp
  <2> HIDE DEF step
  <2> QED  BY <1>16, <1>0, <1>u, <2>1 DEF GiveUp, files
<1>17. CASE FinalOverruns(e)
  <2>1. Ask("fail", e, e, "unknown").op = "fail"
    BY DEF Ask
  <2>2. \A r \in requests' : r.op = "complete" => \E q \in requests : q.op = "complete"
    BY <1>17, <1>u, <2>1 DEF FinalOverruns
  <2> QED  BY <1>17, <1>0, <2>2 DEF FinalOverruns, files
<1>18. CASE Die(e)
  BY <1>18, <1>0, <1>u DEF Die, files
<1> QED
  BY <1>1, <1>2, <1>3, <1>4, <1>5, <1>6, <1>7, <1>8, <1>9, <1>10, <1>11, <1>12, <1>13, <1>14,
     <1>15, <1>16, <1>17, <1>18
  DEF WorkerStep

\* The producer, the clock and a restart give nobody the token.
LEMMA OtherAuthority ==
    ASSUME AuthorityInv,
           \/ ProducerStep \/ ProducerCrash \/ Tick \/ LeaseEnds
           \/ \E b \in Backends : Restart(b)
    PROVE  TokenInv' /\ EvidenceInv' /\ UNCHANGED <<issued, decision, runs>>
<1>f. TypeOK /\ FamilyInv /\ Family /\ TokenInv /\ EvidenceInv
  BY DEF AuthorityInv, Inv
<1>1. UNCHANGED <<issued, decision, requests, worker, outbox, runs>>
  BY DEF ProducerStep, ProducerCrash, Tick, LeaseEnds, Restart, Publish, PollResult, TimeoutReadJob,
         TimeoutReadResult, TimeoutWriteJob, TimeoutWriteResult, files, station
<1>2. \A c \in Backends : backend'[c] = backend[c] \/ backend'[c] = Idle
  <2>1. CASE \E b \in Backends : Restart(b)
    BY <2>1, <1>f DEF Restart, TypeOK
  <2>2. CASE ProducerStep \/ ProducerCrash \/ Tick \/ LeaseEnds
    BY <2>2 DEF ProducerStep, ProducerCrash, Tick, LeaseEnds, Publish, PollResult, TimeoutReadJob,
                TimeoutReadResult, TimeoutWriteJob, TimeoutWriteResult
  <2> QED  BY <2>1, <2>2
<1>3. \A c \in Backends : /\ Authorized(backend'[c]) => Authorized(backend[c])
                          /\ Succeeding(backend'[c]) => Succeeding(backend[c])
  BY <1>2, IdleHoldsNothing
<1>4. TokenInv'
  BY <1>f, <1>1, <1>3, TokenFrame
<1>5. EvidenceInv'
  BY <1>f, <1>1, <1>3, EvidenceFrame DEF EvidenceInv
<1> QED  BY <1>1, <1>4, <1>5

\* Every step keeps the invariants of a family job.
LEMMA AuthorityStep == AuthorityInv /\ [Next]_vars => AuthorityInv'
<1> SUFFICES ASSUME AuthorityInv, [Next]_vars PROVE AuthorityInv'
  OBVIOUS
<1>f. Inv /\ TypeOK /\ FamilyInv /\ Family /\ TokenInv /\ EvidenceInv
  BY DEF AuthorityInv, Inv
<1>1. Inv'
  BY <1>f, InvStep
<1>2. Family'
  <2>1. CASE Next
    BY <1>f, <2>1, KindStable DEF Family
  <2>2. CASE UNCHANGED vars
    BY <1>f, <2>2 DEF vars, Family
  <2> QED  BY <2>1, <2>2
<1>3. TokenInv' /\ EvidenceInv'
  <2>1. CASE UNCHANGED vars
    BY <1>f, <2>1 DEF vars, TokenInv, EvidenceInv, Authorized, Succeeding
  <2>2. ASSUME NEW b \in Backends, HandleRequest(b) PROVE TokenInv' /\ EvidenceInv'
    <3> PICK r \in requests : ClaimNext(b, r) \/ Authorize(b, r) \/ Report(b, r)
      BY <2>2 DEF HandleRequest
    <3> PICK h \in Handler : Serve(b, r, h) /\ Opened(r, h)
      BY <1>f, Served
    <3> QED  BY ServeAuthority
  <2>3. CASE Next
    BY <2>2, <2>3, WriteAuthority, WorkerAuthority, OtherAuthority DEF Next
  <2> QED  BY <2>1, <2>3
<1> QED  BY <1>1, <1>2, <1>3 DEF AuthorityInv

\* The invariants of a family job hold in every state of its behaviours.
LEMMA AuthorityHolds == Spec /\ Family => []AuthorityInv
<1>1. Init /\ Family => AuthorityInv
  <2> SUFFICES ASSUME Init, Family PROVE AuthorityInv
    OBVIOUS
  <2>1. Inv
    BY TypeInit, FamilyInit DEF Inv
  <2>2. TokenInv
    BY IdleHoldsNothing DEF Init, TokenInv
  <2>3. EvidenceInv
    BY IdleHoldsNothing DEF Init, EvidenceInv, NoOutbox
  <2> QED  BY <2>1, <2>2, <2>3 DEF AuthorityInv
<1> QED  BY <1>1, AuthorityStep, PTL DEF Spec

-----------------------------------------------------------------------------
(* Simulation of DispatchAuthority *)

\* The kind of a job never changes.
LEMMA KindStays == ASSUME AuthorityInv, Next PROVE UNCHANGED kind /\ Family /\ Family'
<1>1. UNCHANGED kind
  BY KindStable DEF AuthorityInv, Inv
<1> QED  BY <1>1 DEF AuthorityInv, Family

\* A step that leaves the issued file, the decision, the result and the run
\* count alone is a stutter of DispatchAuthority.
LEMMA Stutter ==
    ASSUME UNCHANGED <<kind, issued, decision, result, runs>>
    PROVE  UNCHANGED Authority!vars
  BY DEF Authority!vars, Family

\* A decision that passed validation names an outcome.
LEMMA CausalOutcome ==
    ASSUME IssuedWellFormed, NEW dec, Causal(dec)
    PROVE  /\ dec.receipt.outcome # "none"
           /\ \/ /\ issued.type = "fence"
                 /\ dec.receipt.outcome = issued.decision.receipt.outcome
                 /\ dec.receipt.outcome \in Failures
              \/ /\ issued.type = "challenge"
                 /\ dec.receipt.outcome \in {"succeeded", "failed_unknown"}
<1>1. CASE dec.hash = "null"
  <2>1. issued = Fence(dec)
    BY <1>1 DEF Causal
  <2>2. issued.type = "fence" /\ issued.decision = dec
    BY <2>1 DEF Fence
  <2> QED  BY <2>2 DEF IssuedWellFormed, Failures
<1>2. CASE dec.hash # "null"
  <2>1. issued = Challenge(dec.exec) /\ dec.receipt.outcome \in {"succeeded", "failed_unknown"}
    BY <1>2 DEF Causal
  <2>2. issued.type = "challenge"
    BY <2>1 DEF Challenge
  <2> QED  BY <2>1, <2>2
<1> QED  BY <1>1, <1>2

\* Creating the issued file decides the authority, the decision file settles
\* the truth, result.json shows it.
LEMMA WriteSimulates ==
    ASSUME AuthorityInv, NEW b \in Backends, WriteStep(b)
    PROVE  [Authority!Next]_(Authority!vars)
<1> DEFINE h == backend[b]
<1>f. TypeOK /\ FamilyInv /\ Family /\ TokenInv /\ EvidenceInv
  BY DEF AuthorityInv, Inv
<1>s. HandlerSound(h) /\ IssuedWellFormed /\ FamilyTruth
  BY <1>f DEF FamilyInv
<1>k. UNCHANGED kind /\ Family /\ Family'
  BY KindStays DEF Next
<1>u. UNCHANGED runs
  BY DEF WriteStep, IssueChallenge, AuthorizeFinal, WriteFence, PublishDecision, ConsumeChallenge,
         PublishResult, SaveJob, Reply, Continue, station
<1>1. CASE IssueChallenge(b)
  <2>1. CASE issued = NotIssued
    <3>1. /\ issued.type = "none" /\ issued'.type = "challenge"
          /\ issued'.decision.receipt.outcome = issued.decision.receipt.outcome
      BY <1>1, <2>1 DEF IssueChallenge, NotIssued, Challenge
    <3>2. Authority!Dispatch
      BY <1>1, <1>u, <1>k, <3>1 DEF Authority!Dispatch, IssueChallenge
    <3> QED  BY <3>2 DEF Authority!Next
  <2>2. CASE issued # NotIssued
    BY <1>1, <1>u, <1>k, <2>2, Stutter DEF IssueChallenge
  <2> QED  BY <2>1, <2>2
<1>2. CASE WriteFence(b)
  <2>1. CASE issued = NotIssued
    <3>1. h.dec.receipt.outcome \in Failures
      BY <1>2, <1>s DEF WriteFence, HandlerSound
    <3>2. /\ issued.type = "none" /\ issued'.type = "fence"
          /\ issued'.decision = h.dec
      BY <1>2, <2>1 DEF WriteFence, NotIssued, Fence
    <3>3. Authority!FenceOff
      BY <1>2, <1>u, <1>k, <3>1, <3>2 DEF Authority!FenceOff, Authority!Failures, Failures, WriteFence
    <3> QED  BY <3>3 DEF Authority!Next
  <2>2. CASE issued # NotIssued
    BY <1>2, <1>u, <1>k, <2>2, Stutter DEF WriteFence
  <2> QED  BY <2>1, <2>2
<1>3. CASE PublishDecision(b)
  <2>1. CASE decision = NoDecision
    <3>1. Causal(h.dec) /\ decision' = h.dec /\ UNCHANGED <<issued, result>>
      BY <1>3, <1>s, <2>1 DEF PublishDecision, HandlerSound
    <3>2. decision.receipt.outcome = "none"
      BY <2>1 DEF NoDecision, Decide, NoReceipt, Receipted
    <3>3. h.dec.receipt.outcome = "succeeded" => runs = 1
      BY <1>3, <1>f DEF PublishDecision, EvidenceInv, Succeeding
    <3>4. \/ /\ issued.type = "fence"
             /\ h.dec.receipt.outcome = issued.decision.receipt.outcome
          \/ /\ issued.type = "challenge"
             /\ h.dec.receipt.outcome \in {"succeeded", "failed_unknown"}
      BY <1>s, <3>1, CausalOutcome
    <3>5. Authority!Settle
      BY <1>u, <1>k, <3>1, <3>2, <3>3, <3>4 DEF Authority!Settle
    <3> QED  BY <3>5 DEF Authority!Next
  <2>2. CASE decision # NoDecision
    BY <1>3, <1>u, <1>k, <2>2, Stutter DEF PublishDecision
  <2> QED  BY <2>1, <2>2
<1>4. CASE PublishResult(b)
  <2>1. CASE ~Published
    <3>1. h.dec = decision /\ decision # NoDecision
      BY <1>4, <1>s DEF PublishResult, HandlerSound
    <3>2. decision.receipt.outcome # "none"
      BY <1>f, <1>s, <3>1, CausalOutcome DEF FamilyTruth, Decided
    <3>3. result.outcome = "none"
      BY <2>1 DEF Published, NoReceipt, Receipted
    <3>4. result' = decision.receipt /\ UNCHANGED <<issued, decision>>
      BY <1>4, <2>1, <3>1 DEF PublishResult
    <3>5. Authority!Show
      BY <1>u, <1>k, <3>2, <3>3, <3>4 DEF Authority!Show
    <3> QED  BY <3>5 DEF Authority!Next
  <2>2. CASE Published
    BY <1>4, <1>u, <1>k, <2>2, Stutter DEF PublishResult
  <2> QED  BY <2>1, <2>2
<1>5. CASE AuthorizeFinal(b) \/ ConsumeChallenge(b) \/ SaveJob(b) \/ Reply(b)
  BY <1>5, <1>u, <1>k, Stutter DEF AuthorizeFinal, ConsumeChallenge, SaveJob, Reply, files
<1> QED  BY <1>1, <1>2, <1>3, <1>4, <1>5 DEF WriteStep

\* On the workstation only the start of the native handler is visible.
LEMMA WorkerSimulates ==
    ASSUME AuthorityInv, NEW e \in Executors,
           WorkerStep(e) \/ GiveUp(e) \/ FinalOverruns(e) \/ Die(e)
    PROVE  [Authority!Next]_(Authority!vars)
<1>k. UNCHANGED kind /\ Family /\ Family'
  BY KindStays DEF Next
<1>f. TypeOK /\ FamilyInv /\ Family /\ TokenInv /\ EvidenceInv
  BY DEF AuthorityInv, Inv
<1>1. CASE StartNative(e)
  <2>1. worker[e] = "granted"
    BY <1>1, <1>f DEF StartNative, Family, V1, V1Kinds
  <2>2. runs = 0 /\ issued.type = "challenge"
    BY <1>f, <2>1 DEF TokenInv
  <2>3. UNCHANGED <<issued, decision, result>> /\ runs' = 1
    BY <1>1, <2>2 DEF StartNative, files
  <2>4. Authority!Start
    BY <1>k, <2>2, <2>3 DEF Authority!Start
  <2> QED  BY <2>4 DEF Authority!Next
<1>2. CASE ~StartNative(e)
  <2>1. UNCHANGED <<issued, decision, result, runs>>
    BY <1>2 DEF WorkerStep, PollClaim, FlushOutbox, RefuseLocally, SendPreflight, QueueLegacy,
                SendFinal, NativeReturns, ReportRefusal, ReportBusy, NativeThrows, NativeOverruns,
                OrphanReturns, SaveAndPost, OutboxSaveFails, GiveUp, FinalOverruns, Die, files
  <2> QED  BY <1>k, <2>1, Stutter
<1> QED  BY <1>1, <1>2

\* The producer writes the result of v1 jobs only.
LEMMA OtherSimulates ==
    ASSUME AuthorityInv,
           \/ ProducerStep \/ ProducerCrash \/ Tick \/ LeaseEnds
           \/ \E b \in Backends : Restart(b)
    PROVE  [Authority!Next]_(Authority!vars)
<1>k. UNCHANGED kind
  BY KindStays DEF Next
<1>1. producer.pc # "wrote_job"
  BY DEF AuthorityInv, Inv, FamilyInv
<1>2. UNCHANGED result
  BY <1>1 DEF ProducerStep, ProducerCrash, Tick, LeaseEnds, Restart, Publish, PollResult,
              TimeoutReadJob, TimeoutReadResult, TimeoutWriteJob, TimeoutWriteResult, files
<1> QED  BY <1>k, <1>2, OtherAuthority, Stutter

\* Every step of a family job is a step of DispatchAuthority or a stutter.
LEMMA StepSimulates == AuthorityInv /\ [Next]_vars => [Authority!Next]_(Authority!vars)
<1> SUFFICES ASSUME AuthorityInv, [Next]_vars PROVE [Authority!Next]_(Authority!vars)
  OBVIOUS
<1>1. CASE UNCHANGED vars
  BY <1>1, Stutter DEF vars
<1>2. ASSUME NEW b \in Backends, HandleRequest(b) PROVE [Authority!Next]_(Authority!vars)
  <2> PICK r \in requests : ClaimNext(b, r) \/ Authorize(b, r) \/ Report(b, r)
    BY <1>2 DEF HandleRequest
  <2> PICK h \in Handler : Serve(b, r, h)
    BY Served DEF AuthorityInv, Inv
  <2> QED  BY Stutter DEF Serve, files, station
<1>3. CASE Next
  BY <1>2, <1>3, WriteSimulates, WorkerSimulates, OtherSimulates DEF Next
<1> QED  BY <1>1, <1>3

-----------------------------------------------------------------------------
(* The theorems *)

\* A family job behaves as DispatchAuthority says: the right to touch Revit is
\* handed out or fenced once, the handler starts at most once and only after
\* dispatch, and readers are shown the one truth that fits (issued file,
\* decision file, result.json of revit_tool_jobs.ts).
THEOREM FamilyImplementsAuthority == Spec /\ Family => ImplementsAuthority
<1>1. Init => Authority!Init
  BY DEF Init, Authority!Init, Family, NotIssued, NoDecision, Decide, NoReceipt, Receipted
<1>2. AuthorityInv /\ [Next]_vars => [Authority!Next]_(Authority!vars)
  BY StepSimulates
<1> QED  BY <1>1, <1>2, AuthorityHolds, PTL DEF Spec, ImplementsAuthority, Authority!Spec

\* The native handler of a family job runs at most once, through lost answers,
\* late requests, crashes and any number of racing backends.
LEMMA FamilyAtMostOnce == Spec /\ Family => []AtMostOnce
<1>1. AuthorityInv => AtMostOnce
  BY DEF AuthorityInv, TokenInv, AtMostOnce
<1> QED  BY <1>1, AuthorityHolds, PTL

\* A family job's receipt that says nothing was dispatched is true: the fence
\* excludes the challenge, so no handler runs before or afterwards.
LEMMA FamilyKnownFailureNeverRan == Spec /\ Family => []KnownFailureNeverRan
<1>1. AuthorityInv => KnownFailureNeverRan
  <2> SUFFICES ASSUME AuthorityInv, result.outcome \in {"failed_known", "failed_retryable"}
               PROVE  runs = 0
    BY DEF KnownFailureNeverRan
  <2>f. Family /\ FamilyTruth /\ IssuedWellFormed /\ TokenInv
    BY DEF AuthorityInv, Inv, FamilyInv
  <2>1. Published
    BY DEF Published, NoReceipt, Receipted
  <2>2. Causal(decision) /\ result = decision.receipt
    BY <2>f, <2>1 DEF FamilyTruth
  <2>3. issued.type = "fence"
    BY <2>f, <2>2, CausalOutcome
  <2> QED  BY <2>f, <2>3 DEF TokenInv
<1> QED  BY <1>1, AuthorityHolds, PTL

-----------------------------------------------------------------------------
(* The lease: who may be given the job, and when *)

\* What a handler does with the claim: only a lease answers with the job and
\* only while it is being saved, job.json is never put back to pending, and
\* only a family has the files of a decision.
LeaseHandler(h) ==
    /\ h.pc = "save" => h.copy.status \notin {"absent", "pending"}
    /\ h.answer = "job" => h.pc = "save" /\ h.op = "claim"
    /\ h.pc \notin {"idle", "reply"} => job.status # "absent"
    /\ h.pc \in {"issue", "authorize"} => h.op = "final"
    /\ h.pc \in {"issue", "authorize", "fence", "decide", "consume"} => Family

Early == job.status \in {"absent", "pending"}

\* Nobody has been given the job.
Unclaimed ==
    /\ runs = 0
    /\ outbox.state # "pending"
    /\ \A e \in Executors : worker[e] \in {"idle", "claiming", "dead"}
    /\ \A r \in requests : r.op = "claim"
    /\ \A b \in Backends : backend[b].op \in {"none", "claim"}

LeaseInv ==
    /\ producer.pc = "unpublished" <=> job.status = "absent"
    /\ \A b \in Backends : LeaseHandler(backend[b])
    /\ Early => Unclaimed

\* What a handler x made from h keeps and what it may save.
Derived(h, x) ==
    /\ x \in Handler
    /\ x.op = h.op /\ x.from = h.from
    /\ x.pc = "save" => x.copy.status \in {"succeeded", "failed"}
    /\ x.pc \in {"reply", "save"} \/ (Family /\ x.pc \in {"decide", "consume", "publish"})
    /\ x.answer # "job"

\* An answer other than the job.
LEMMA RespondDerived ==
    ASSUME NEW h \in Handler, NEW answer \in Answers \ {"job"}
    PROVE  Derived(h, Respond(h, answer))
<1>1. Respond(h, answer).from = h.from
  BY DEF Respond, Handler
<1> QED  BY <1>1, RespondFacts DEF Derived

\* A terminal status to be saved.
LEMMA SaveDerived ==
    ASSUME NEW h \in Handler, NEW status \in {"succeeded", "failed"}, NEW answer \in Answers \ {"job"}
    PROVE  Derived(h, Save(h, status, answer))
<1>1. Save(h, status, answer).from = h.from /\ Save(h, status, answer).copy.status = status
  BY DEF Save, Handler, Job
<1>2. status \in Status
  BY DEF Status
<1> QED  BY <1>1, <1>2, SaveFacts DEF Derived

\* reconcileJobWithResult saves a terminal status or answers.
LEMMA ReconcileDerived ==
    ASSUME NEW h \in Handler, NEW receipt, NEW answer \in Answers \ {"job"},
           NEW x \in Reconciled(h, receipt, answer)
    PROVE  Derived(h, x)
<1>1. StatusOf(receipt) \in {"succeeded", "failed"}
  BY DEF StatusOf
<1> QED  BY <1>1, RespondDerived, SaveDerived DEF Reconciled

\* A quarantine saves a terminal status.
LEMMA InvalidDerived ==
    ASSUME NEW h \in Handler
    PROVE  Derived(h, Invalid(h))
  BY RespondDerived, SaveDerived DEF Invalid, Answers

\* recoverFamilyCompletionDecision goes on, or quarantines.
LEMMA RecoverDerived ==
    ASSUME Family, NEW h \in Handler, NEW dec \in Decision, NEW answer \in Answers \ {"job"}
    PROVE  Derived(h, Recover(h, dec, answer))
<1> DEFINE x == [h EXCEPT !.pc = IF dec.receipt.outcome = "succeeded" THEN "consume" ELSE "publish",
                          !.dec = dec, !.answer = answer]
<1>1. /\ x \in Handler /\ x.op = h.op /\ x.from = h.from /\ x.answer = answer
      /\ x.pc \in {"consume", "publish"}
  BY DEF Handler, Steps
<1>2. Derived(h, x)
  BY <1>1 DEF Derived
<1> QED  BY <1>2, InvalidDerived DEF Recover

\* recoverTerminalFence goes on, or quarantines.
LEMMA AdoptDerived ==
    ASSUME TypeOK, Family, NEW h \in Handler, NEW answer \in Answers \ {"job"}
    PROVE  Derived(h, AdoptFence(h, answer))
<1> DEFINE x == [h EXCEPT !.pc = "decide", !.dec = issued.decision, !.answer = answer]
<1>1. issued.decision \in Decision
  BY DEF TypeOK, Issued
<1>2. /\ x \in Handler /\ x.op = h.op /\ x.from = h.from /\ x.answer = answer
      /\ x.pc = "decide"
  BY <1>1 DEF Handler, Steps
<1>3. Derived(h, x)
  BY <1>2 DEF Derived
<1> QED  BY <1>3, InvalidDerived DEF AdoptFence

\* A handler that finds terminal truth repeats it.
LEMMA RecallDerived ==
    ASSUME TypeOK, NEW h \in Handler, NEW answer \in Answers \ {"job"}, NEW x \in Recalled(h, answer)
    PROVE  Derived(h, x)
<1>1. CASE Decided
  BY <1>1, RecoverDerived DEF Recalled, TypeOK, Decided
<1>2. CASE ~Decided
  BY <1>2, ReconcileDerived DEF Recalled
<1> QED  BY <1>1, <1>2

\* writeTerminal heads for the fence or the result with its receipt.
LEMMA WriteTerminalLease ==
    ASSUME NEW h \in Handler, NEW receipt \in Receipt, NEW answer \in Answers
    PROVE  LET x == WriteTerminal(h, receipt, answer)
           IN  /\ x \in Handler /\ x.op = h.op /\ x.from = h.from
               /\ x.answer = answer /\ x.dec.receipt = receipt
               /\ x.pc = IF Family THEN "fence" ELSE "publish"
<1>1. WriteTerminal(h, receipt, answer).from = h.from
  BY DEF WriteTerminal, Handler
<1> QED  BY <1>1, WriteTerminalFacts

-----------------------------------------------------------------------------
(* A request that was just read *)

Undispatched == {"failed_known", "failed_retryable"}

\* What serving a request may start: it leases only a pending job and only to
\* the executor the job names; after expiry no preflight is granted; and a
\* failure that claims nothing was dispatched is, for a general or laboratory
\* job under an admitting policy, about a job that expired while pending.
LeaseOpened(b, r, h) ==
    /\ h \in Handler /\ h.op = r.op /\ h.from = r.from
    /\ LeaseHandler(h)
    /\ h.answer = "job" => job.status = "pending" /\ Target \in {NoExec, r.exec}
    /\ Expired /\ r.op = "preflight" => h.answer # "ok"
    /\ /\ h.pc = "publish" /\ h.dec.receipt.outcome \in Undispatched
       /\ kind \in {"general", "lab"} /\ policy[b] = "ok" /\ r.op \notin {"preflight", "final"}
       => job.status = "pending" /\ Expired

\* A handler that repeats terminal truth or answers is one of them.
LEMMA DerivedOpened ==
    ASSUME NEW b, NEW r \in Request, NEW o \in Handler, NEW x, o.op = r.op, o.from = r.from,
           Derived(o, x), job.status # "absent" \/ x.pc = "reply",
           Expired /\ r.op = "preflight" => x.answer # "ok"
    PROVE  LeaseOpened(b, r, x)
  BY DEF Derived, LeaseOpened, LeaseHandler, Family

\* So is a handler that writes a terminal receipt.
LEMMA TerminalLeaseOpened ==
    ASSUME TypeOK, NEW b, NEW r \in Request, NEW receipt \in Receipt,
           NEW answer \in Answers \ {"job"}, job.status # "absent",
           Expired /\ r.op = "preflight" => answer # "ok",
           \/ receipt.outcome \notin Undispatched
           \/ r.op \in {"preflight", "final"}
           \/ policy[b] # "ok"
           \/ job.status = "pending" /\ Expired
           \/ kind \notin {"general", "lab"}
    PROVE  LeaseOpened(b, r, WriteTerminal(Open(r), receipt, answer))
<1> DEFINE x == WriteTerminal(Open(r), receipt, answer)
<1>1. Open(r) \in Handler /\ Open(r).op = r.op /\ Open(r).from = r.from
  BY OpenFacts DEF Open
<1>2. /\ x \in Handler /\ x.op = r.op /\ x.from = r.from
      /\ x.answer = answer /\ x.dec.receipt = receipt
      /\ x.pc = IF Family THEN "fence" ELSE "publish"
  BY <1>1, WriteTerminalLease
<1> SUFFICES LeaseOpened(b, r, x)
  OBVIOUS
<1> HIDE DEF x
<1>3. LeaseHandler(x)
  BY <1>2 DEF LeaseHandler
<1> QED  BY <1>2, <1>3 DEF LeaseOpened

\* Whatever the request, the handler it starts respects the lease.
LEMMA ServedLease ==
    ASSUME TypeOK, LeaseInv, NEW b \in Backends, NEW r \in requests,
           ClaimNext(b, r) \/ Authorize(b, r) \/ Report(b, r)
    PROVE  \E h : Serve(b, r, h) /\ LeaseOpened(b, r, h)
<1>r. r \in Request /\ r.exec \in Executors
  BY DEF TypeOK, Request
<1>o. Open(r) \in Handler /\ Open(r).op = r.op /\ Open(r).from = r.from
  BY <1>r, OpenFacts DEF Open
<1>p. r.op # "claim" => job.status # "absent" /\ job.status # "pending"
  BY DEF LeaseInv, Early, Unclaimed
<1>d. \A e : Candidate(e) => job.status # "absent"
  BY DEF Candidate
<1> DEFINE Goal == \E h : Serve(b, r, h) /\ LeaseOpened(b, r, h)
           Silent == Answers \ {"job"}
<1> USE DEF Answers, Codes, Outcomes, Undispatched
<1>0. \A h : Serve(b, r, h) /\ LeaseOpened(b, r, h) => Goal
  OBVIOUS
<1>t. ASSUME NEW outcome \in Outcomes, NEW code \in Codes, NEW answer \in Silent,
             Serve(b, r, WriteTerminal(Open(r), Receipted(outcome, code), answer)),
             job.status # "absent", Expired /\ r.op = "preflight" => answer # "ok",
             \/ outcome \notin Undispatched
             \/ r.op \in {"preflight", "final"}
             \/ policy[b] # "ok"
             \/ job.status = "pending" /\ Expired
             \/ kind \notin {"general", "lab"}
      PROVE  Goal
  <2>1. Receipted(outcome, code) \in Receipt /\ Receipted(outcome, code).outcome = outcome
    BY ReceiptedType
  <2>2. LeaseOpened(b, r, WriteTerminal(Open(r), Receipted(outcome, code), answer))
    BY <1>r, <1>t, <2>1, TerminalLeaseOpened
  <2> QED  BY <1>0, <1>t, <2>2
<1>a. ASSUME NEW answer \in Silent, Serve(b, r, Respond(Open(r), answer)),
             Expired /\ r.op = "preflight" => answer # "ok"
      PROVE  Goal
  <2>1. Derived(Open(r), Respond(Open(r), answer))
    BY <1>o, RespondDerived
  <2>2. Respond(Open(r), answer).pc = "reply" /\ Respond(Open(r), answer).answer = answer
    BY <1>o, RespondFacts
  <2>3. LeaseOpened(b, r, Respond(Open(r), answer))
    BY <1>o, <1>r, <1>a, <2>1, <2>2, DerivedOpened
  <2> QED  BY <1>0, <1>a, <2>3
<1>c. ASSUME NEW answer \in Silent, NEW h \in Recalled(Open(r), answer), Serve(b, r, h),
             job.status # "absent", r.op = "preflight" => answer # "ok"
      PROVE  Goal
  <2>1. Derived(Open(r), h)
    BY <1>o, RecallDerived
  <2>2. h.answer \in {answer, "none", "error"}
    BY <1>o, RecallFacts
  <2>3. LeaseOpened(b, r, h)
    BY <1>o, <1>r, <1>c, <2>1, <2>2, DerivedOpened
  <2> QED  BY <1>0, <1>c, <2>3
<1> SUFFICES Goal
  OBVIOUS
<1> HIDE DEF Goal
<1>1. CASE ClaimRecovers(b, r)
  <2>1. CASE Fenced
    <3>1. Derived(Open(r), AdoptFence(Open(r), "none"))
      BY <1>o, <2>1, AdoptDerived DEF Fenced
    <3>2. LeaseOpened(b, r, AdoptFence(Open(r), "none"))
      BY <1>1, <1>d, <1>o, <1>r, <3>1, DerivedOpened DEF ClaimRecovers
    <3> QED  BY <1>0, <1>1, <2>1, <3>2 DEF ClaimRecovers
  <2>2. CASE ~Fenced
    BY <1>1, <1>c, <1>d, <2>2 DEF ClaimRecovers
  <2> QED  BY <2>1, <2>2
<1>2. CASE ClaimRefuses(b, r)
  <2> DEFINE code == IF Withdrawn(b) THEN "route_unsupported" ELSE "admission_invalid"
  <2>1. Serve(b, r, WriteTerminal(Open(r), Receipted("failed_known", code), Ending))
    BY <1>2 DEF ClaimRefuses
  <2>2. code \in Codes /\ Ending \in {"settled", "none"}
    BY DEF Ending
  <2>3. job.status # "absent" /\ policy[b] # "ok" /\ r.op = "claim"
    BY <1>2, <1>d DEF ClaimRefuses, Withdrawn, Revoked
  <2> HIDE DEF code
  <2> QED  BY <1>t, <2>1, <2>2, <2>3
<1>3. CASE ClaimEndsLease(b, r)
  BY <1>d, <1>t, <1>3 DEF ClaimEndsLease, Ending
<1>4. CASE ClaimExpires(b, r)
  BY <1>d, <1>t, <1>4 DEF ClaimExpires, Ending
<1>5. CASE ClaimLeases(b, r)
  <2> DEFINE h == [Open(r) EXCEPT !.pc = "save", !.answer = "job",
                                  !.copy = [status |-> "running", claim |-> r.exec]]
  <2>1. /\ h \in Handler /\ h.pc = "save" /\ h.op = r.op /\ h.from = r.from
        /\ h.answer = "job" /\ h.copy.status = "running"
    BY <1>o, <1>r DEF Handler, Steps, Job, Executor
  <2>2. Serve(b, r, h) /\ r.op = "claim" /\ job.status = "pending" /\ Target \in {NoExec, r.exec}
    BY <1>5 DEF ClaimLeases, Candidate
  <2> HIDE DEF h
  <2>3. LeaseOpened(b, r, h)
    BY <2>1, <2>2 DEF LeaseOpened, LeaseHandler
  <2> QED  BY <1>0, <2>2, <2>3
<1>6. CASE ClaimFindsNothing(b, r)
  <2>1. Open(r).pc = "reply" /\ Open(r).answer = "none"
    BY <1>r, OpenFacts
  <2>2. LeaseOpened(b, r, Open(r))
    BY <1>o, <2>1 DEF LeaseOpened, LeaseHandler
  <2> QED  BY <1>0, <1>6, <2>2 DEF ClaimFindsNothing
<1>7. CASE AuthorizeFindsTruth(b, r)
  BY <1>c, <1>p, <1>7 DEF AuthorizeFindsTruth
<1>8. CASE AuthorizeThrows(b, r)
  BY <1>a, <1>8 DEF AuthorizeThrows
<1>9. CASE AuthorizeTooLate(b, r)
  BY <1>t, <1>p, <1>9 DEF AuthorizeTooLate
<1>10. CASE AuthorizeByPolicy(b, r)
  <2>1. ~Expired /\ r.op \in {"preflight", "final"}
    BY <1>10 DEF AuthorizeByPolicy, LeaseLapsed
  <2>2. CASE Serve(b, r, Respond(Open(r), "ok"))
    BY <1>a, <2>1, <2>2
  <2>3. CASE Serve(b, r, WriteTerminal(Open(r), Receipted("failed_known", "final_denied"), "error"))
    BY <1>t, <1>p, <2>1, <2>3
  <2> QED  BY <1>10, <2>2, <2>3 DEF AuthorizeByPolicy
<1>11. CASE AuthorizeFamilyFinal(b, r)
  <2> DEFINE h == [Open(r) EXCEPT !.pc = "issue"]
  <2>1. h \in Handler /\ h.pc = "issue" /\ h.op = r.op /\ h.from = r.from /\ h.answer = "none"
    BY <1>o, <1>r, OpenFacts DEF Handler, Steps
  <2>2. Serve(b, r, h) /\ r.op = "final" /\ Family
    BY <1>11 DEF AuthorizeFamilyFinal
  <2> HIDE DEF h
  <2>3. LeaseOpened(b, r, h)
    BY <1>p, <2>1, <2>2 DEF LeaseOpened, LeaseHandler
  <2> QED  BY <1>0, <2>2, <2>3
<1>12. CASE FinishThrows(b, r)
  BY <1>a, <1>12 DEF FinishThrows
<1>13. CASE FinishFindsTruth(b, r)
  <2> DEFINE answer == Verdict(r, IF Decided THEN decision.receipt ELSE result)
  <2>1. /\ answer \in Silent /\ r.op \in {"complete", "fail"}
        /\ \E h \in Recalled(Open(r), answer) : Serve(b, r, h)
    BY <1>13 DEF FinishFindsTruth, Verdict
  <2> HIDE DEF answer
  <2> QED  BY <1>c, <1>p, <2>1
<1>14. CASE CompleteConflicts(b, r)
  BY <1>a, <1>14 DEF CompleteConflicts
<1>15. CASE CompleteNative(b, r)
  <2>1. CASE kind = "lab" /\ r.report = "bad"
    BY <1>t, <1>p, <1>15, <2>1 DEF CompleteNative
  <2>2. CASE ~(kind = "lab" /\ r.report = "bad")
    BY <1>t, <1>p, <1>15, <2>2 DEF CompleteNative
  <2> QED  BY <2>1, <2>2
<1>16. CASE CompleteFamily(b, r)
  <2>1. CASE issued = Challenge(r.exec) /\ r.report = "good"
    <3> DEFINE dec == Decide(r.exec, "challenge", Receipted("succeeded", "native_success"))
               h == [Open(r) EXCEPT !.pc = "decide", !.answer = "ok", !.dec = dec]
    <3>1. Serve(b, r, h) /\ r.op = "complete" /\ Family
      BY <1>16, <2>1 DEF CompleteFamily
    <3>2. dec \in Decision
      BY <1>r, ReceiptedType DEF Decide, Decision, Executor
    <3> HIDE DEF dec
    <3>3. h \in Handler /\ h.pc = "decide" /\ h.op = r.op /\ h.from = r.from /\ h.answer = "ok"
      BY <1>o, <3>2 DEF Handler, Steps
    <3> HIDE DEF h
    <3>4. LeaseOpened(b, r, h)
      BY <1>p, <3>1, <3>3 DEF LeaseOpened, LeaseHandler
    <3> QED  BY <1>0, <3>1, <3>4
  <2>2. CASE ~(issued = Challenge(r.exec) /\ r.report = "good")
    BY <1>t, <1>p, <1>16, <2>2 DEF CompleteFamily
  <2> QED  BY <2>1, <2>2
<1>17. CASE FailReported(b, r)
  <2>1. /\ FailureOutcome(r.report) \in Outcomes
        /\ FailureOutcome(r.report) \notin Undispatched \/ kind \notin {"general", "lab"}
    BY DEF FailureOutcome
  <2>2. Serve(b, r, WriteTerminal(Open(r), Receipted(FailureOutcome(r.report), "worker_failure"), "ok"))
        /\ r.op = "fail"
    BY <1>17 DEF FailReported
  <2> QED  BY <1>t, <1>p, <2>1, <2>2
<1> QED
  BY <1>1, <1>2, <1>3, <1>4, <1>5, <1>6, <1>7, <1>8, <1>9, <1>10, <1>11, <1>12, <1>13, <1>14,
     <1>15, <1>16, <1>17
  DEF ClaimNext, Authorize, Report

\* A write inside a handler keeps its client and its operation, leases nothing
\* and, but for a final authorization, turns no answer into a grant.
LEMMA ContinueLease ==
    ASSUME TypeOK, LeaseInv, NEW b \in Backends,
           \/ IssueChallenge(b) \/ AuthorizeFinal(b) \/ WriteFence(b) \/ PublishDecision(b)
           \/ ConsumeChallenge(b) \/ PublishResult(b)
    PROVE  \E x \in Handler :
              /\ Continue(b, x)
              /\ x.op = backend[b].op /\ x.from = backend[b].from
              /\ LeaseHandler(x)
              /\ x.answer # "job"
              /\ x.answer = "ok" => backend[b].answer = "ok" \/ x.op = "final"
              /\ x.pc = "publish" => Family
              /\ UNCHANGED job
<1> DEFINE h == backend[b]
           Good(x) == /\ x.op = h.op /\ x.from = h.from
                      /\ LeaseHandler(x)
                      /\ x.answer # "job"
                      /\ x.answer = "ok" => h.answer = "ok" \/ x.op = "final"
                      /\ x.pc = "publish" => Family
           Goal == \E x \in Handler : Continue(b, x) /\ Good(x) /\ UNCHANGED job
<1>v. "error" \in Answers /\ "error" \in Answers \ {"job"} /\ "ok" \in Answers /\ "ok" \in Answers \ {"job"}
  BY DEF Answers
<1>j. UNCHANGED job
  BY DEF IssueChallenge, AuthorizeFinal, WriteFence, PublishDecision, ConsumeChallenge, PublishResult, files
<1>h. h \in Handler /\ h.dec \in Decision /\ h.copy \in Job /\ h.answer \in Answers
  BY DEF TypeOK, Handler
<1>p. h.pc \in {"issue", "authorize", "fence", "decide", "consume", "publish"}
  BY DEF IssueChallenge, AuthorizeFinal, WriteFence, PublishDecision, ConsumeChallenge, PublishResult
<1>l. /\ LeaseHandler(h) /\ h.answer # "job" /\ job.status # "absent"
      /\ h.pc # "publish" => Family
      /\ h.answer \in Answers \ {"job"}
  BY <1>h, <1>p DEF LeaseInv, LeaseHandler
<1>0. ASSUME NEW x \in Handler, Continue(b, x), Good(x) PROVE Goal
  BY <1>0, <1>j
<1>d. ASSUME NEW x, Continue(b, x), Derived(h, x), x.answer = "ok" => h.answer = "ok" \/ x.op = "final"
      PROVE  Goal
  <2>1. x \in Handler /\ Good(x)
    BY <1>d, <1>l DEF Derived, LeaseHandler
  <2> HIDE DEF Goal, Good
  <2> QED  BY <1>0, <1>d, <2>1
<1>t. ASSUME NEW receipt \in Receipt, Family, Continue(b, WriteTerminal(h, receipt, "error")) PROVE Goal
  <2> DEFINE x == WriteTerminal(h, receipt, "error")
  <2>1. x \in Handler /\ x.op = h.op /\ x.from = h.from /\ x.answer = "error" /\ x.pc = "fence"
    BY <1>h, <1>t, <1>v, WriteTerminalLease
  <2>2. Continue(b, x)
    BY <1>t
  <2> HIDE DEF x
  <2>3. Good(x)
    BY <1>l, <1>t, <2>1 DEF LeaseHandler
  <2> HIDE DEF Goal, Good
  <2> QED  BY <1>0, <2>1, <2>2, <2>3
<1>e. ASSUME NEW pc \in {"authorize", "decide", "publish"}, pc = "authorize" => h.pc = "issue", Family,
             NEW dec \in Decision, Continue(b, [h EXCEPT !.pc = pc, !.dec = dec])
      PROVE  Goal
  <2> DEFINE x == [h EXCEPT !.pc = pc, !.dec = dec]
  <2>1. x \in Handler /\ x.op = h.op /\ x.from = h.from /\ x.answer = h.answer /\ x.pc = pc
    BY <1>h DEF Handler, Steps
  <2>2. Continue(b, x)
    BY <1>e
  <2> HIDE DEF x
  <2>3. Good(x)
    BY <1>l, <1>e, <2>1 DEF LeaseHandler
  <2> HIDE DEF Goal, Good
  <2> QED  BY <1>0, <2>1, <2>2, <2>3
<1>n. \A pc : [h EXCEPT !.pc = pc] = [h EXCEPT !.pc = pc, !.dec = h.dec]
  BY <1>h DEF Handler
<1> SUFFICES Goal
  OBVIOUS
<1> HIDE DEF Goal, Good
<1>1. CASE IssueChallenge(b)
  <2>0. Family /\ h.pc = "issue"
    BY <1>1, <1>l DEF IssueChallenge
  <2>1. CASE issued.type = "none"
    <3>1. Continue(b, [h EXCEPT !.pc = "authorize"])
      BY <1>1, <2>1 DEF IssueChallenge
    <3>2. Continue(b, [h EXCEPT !.pc = "authorize", !.dec = h.dec])
      BY <1>n, <3>1
    <3> QED  BY <1>e, <1>h, <2>0, <3>2
  <2>2. CASE issued.type = "fence"
    <3>1. Derived(h, AdoptFence(h, "error"))
      BY <1>h, <1>v, <2>0, AdoptDerived
    <3>2. AdoptFence(h, "error").answer \in {"none", "error"}
      BY <1>h, <1>v, AdoptFenceFacts
    <3> QED  BY <1>1, <1>d, <2>2, <3>1, <3>2 DEF IssueChallenge
  <2>3. CASE issued.type = "challenge"
    <3>1. Receipted("failed_unknown", "replay_denied") \in Receipt
      BY ReceiptedType DEF Outcomes, Codes
    <3> QED  BY <1>1, <1>t, <2>0, <2>3, <3>1 DEF IssueChallenge
  <2> QED  BY <2>1, <2>2, <2>3 DEF TypeOK, Issued
<1>2. CASE AuthorizeFinal(b)
  <2>0. Family /\ h.op = "final"
    BY <1>2, <1>l DEF AuthorizeFinal, LeaseHandler
  <2>1. CASE Continue(b, Respond(h, "ok"))
    <3>1. Derived(h, Respond(h, "ok")) /\ Respond(h, "ok").op = "final"
      BY <1>h, <1>v, <2>0, RespondDerived, RespondFacts
    <3> QED  BY <1>d, <2>1, <3>1
  <2>2. CASE Continue(b, WriteTerminal(h, Receipted("failed_known", "final_denied"), "error"))
    <3>1. Receipted("failed_known", "final_denied") \in Receipt
      BY ReceiptedType DEF Outcomes, Codes
    <3> QED  BY <1>t, <2>0, <2>2, <3>1
  <2> QED  BY <1>2, <2>1, <2>2 DEF AuthorizeFinal
<1>3. CASE WriteFence(b)
  <2>0. Family
    BY <1>3, <1>l DEF WriteFence
  <2>1. CASE issued.type = "none"
    <3>1. Continue(b, [h EXCEPT !.pc = "decide", !.dec = h.dec])
      BY <1>3, <1>n, <2>1 DEF WriteFence
    <3> QED  BY <1>e, <1>h, <2>0, <3>1
  <2>2. CASE issued.type = "fence"
    <3>1. Derived(h, AdoptFence(h, h.answer))
      BY <1>l, <1>h, <2>0, AdoptDerived
    <3>2. AdoptFence(h, h.answer).answer \in {h.answer, "none", "error"}
      BY <1>h, <1>v, AdoptFenceFacts
    <3> QED  BY <1>3, <1>d, <2>2, <3>1, <3>2 DEF WriteFence
  <2>3. CASE issued.type = "challenge"
    <3> DEFINE d == Decide(issued.exec, "challenge", Receipted("failed_unknown", h.dec.receipt.code))
    <3>1. h.dec.receipt.code \in Codes
      BY <1>h DEF Decision, Receipt
    <3>2. d \in Decision
      BY <3>1, ReceiptedType DEF TypeOK, Issued, Decide, Decision, Outcomes
    <3>3. \/ Continue(b, Respond(h, "error"))
          \/ Continue(b, [h EXCEPT !.pc = "decide", !.dec = d])
      BY <1>3, <2>3 DEF WriteFence, UnderChallenge
    <3> HIDE DEF d
    <3>4. Derived(h, Respond(h, "error")) /\ Respond(h, "error").answer = "error"
      BY <1>h, <1>v, RespondDerived, RespondFacts
    <3> QED  BY <1>d, <1>e, <2>0, <3>2, <3>3, <3>4
  <2> QED  BY <2>1, <2>2, <2>3 DEF TypeOK, Issued
<1>4. CASE PublishDecision(b)
  <2> DEFINE winner == IF decision = NoDecision THEN h.dec ELSE decision
             answer == IF h.answer = "settled" THEN "none" ELSE h.answer
  <2>0. Family /\ winner \in Decision /\ Continue(b, Recover(h, winner, answer))
    BY <1>4, <1>l, <1>h DEF PublishDecision, TypeOK
  <2>a. answer \in Answers /\ answer \in {h.answer, "none"} /\ (h.answer # "job" => answer # "job")
    BY <1>h DEF Handler, Answers
  <2> HIDE DEF winner, answer
  <2>1. Derived(h, Recover(h, winner, answer))
    BY <1>h, <1>l, <2>0, <2>a, RecoverDerived
  <2>2. Recover(h, winner, answer).answer \in {h.answer, "none", "error"}
    BY <1>h, <2>0, <2>a, RecoverFacts
  <2> QED  BY <1>d, <2>0, <2>1, <2>2
<1>5. CASE ConsumeChallenge(b)
  <2>1. Family /\ Continue(b, [h EXCEPT !.pc = "publish", !.dec = h.dec])
    BY <1>5, <1>l, <1>n DEF ConsumeChallenge
  <2> QED  BY <1>e, <1>h, <2>1
<1>6. CASE PublishResult(b)
  <2>1. CASE Published
    <3> PICK x \in Reconciled(h, result, h.answer) : Continue(b, x)
      BY <1>6, <2>1 DEF PublishResult
    <3>1. Derived(h, x)
      BY <1>h, <1>l, ReconcileDerived
    <3>2. x.answer = h.answer
      BY <1>h, ReconcileFacts DEF TypeOK
    <3> QED  BY <1>d, <3>1, <3>2
  <2>2. CASE ~Published
    <3>1. StatusOf(h.dec.receipt) \in {"succeeded", "failed"} /\ StatusOf(h.dec.receipt) \in Status
      BY DEF StatusOf, Status
    <3>2. Derived(h, Save(h, StatusOf(h.dec.receipt), h.answer))
      BY <1>h, <1>l, <3>1, SaveDerived
    <3>3. Save(h, StatusOf(h.dec.receipt), h.answer).answer = h.answer
      BY <1>h, <3>1, SaveFacts
    <3> QED  BY <1>6, <1>d, <2>2, <3>2, <3>3 DEF PublishResult
  <2> QED  BY <2>1, <2>2
<1> QED  BY <1>1, <1>2, <1>3, <1>4, <1>5, <1>6

-----------------------------------------------------------------------------
(* LeaseInv is inductive *)

\* A handler that another process's step leaves alone respects the lease.
LEMMA LeaseHandlerPersists ==
    ASSUME UNCHANGED kind, job'.status = "absent" => job.status = "absent", NEW c \in Backends,
           backend[c] \in Handler, LeaseHandler(backend[c]),
           \/ backend'[c] = backend[c]
           \/ backend'[c] = [backend[c] EXCEPT !.from = NoExec]
           \/ backend'[c] = Idle
    PROVE  LeaseHandler(backend[c])'
<1>1. CASE backend'[c] = Idle
  <2>1. backend'[c].pc = "idle" /\ backend'[c].answer = "none"
    BY <1>1 DEF Idle
  <2> QED  BY <2>1 DEF LeaseHandler
<1>2. CASE backend'[c] # Idle
  <2>1. /\ backend'[c].pc = backend[c].pc /\ backend'[c].op = backend[c].op
        /\ backend'[c].copy = backend[c].copy /\ backend'[c].answer = backend[c].answer
    BY <1>2 DEF Handler
  <2> QED  BY <2>1 DEF LeaseHandler, Family
<1> QED  BY <1>1, <1>2

\* What the steps of the workstation leave alone.
LEMMA WorkerFrame ==
    ASSUME NEW e \in Executors, WorkerStep(e) \/ GiveUp(e) \/ FinalOverruns(e) \/ Die(e)
    PROVE  /\ UNCHANGED <<kind, job, result, phase, policy, producer>>
           /\ backend' = backend \/ backend' = Detached(e)
  BY DEF WorkerStep, PollClaim, FlushOutbox, RefuseLocally, SendPreflight, QueueLegacy,
         SendFinal, StartNative, NativeReturns, ReportRefusal, ReportBusy, NativeThrows,
         NativeOverruns, OrphanReturns, SaveAndPost, OutboxSaveFails, GiveUp, FinalOverruns, Die,
         files, time

\* A handler whose client gave up is otherwise the same.
LEMMA DetachedSame ==
    ASSUME TypeOK, NEW e \in Executors, backend' = backend \/ backend' = Detached(e),
           NEW c \in Backends
    PROVE  /\ \/ backend'[c] = backend[c]
              \/ backend'[c] = [backend[c] EXCEPT !.from = NoExec]
           /\ backend'[c].op = backend[c].op /\ backend'[c].answer = backend[c].answer
           /\ backend'[c].pc = backend[c].pc /\ backend'[c].dec = backend[c].dec
           /\ backend'[c].from \in {backend[c].from, NoExec}
  BY DEF Detached, TypeOK, Handler

\* A request nobody waits for asks for the same thing.
LEMMA UnheardSame ==
    ASSUME TypeOK, NEW e \in Executors, NEW r \in Unheard(e)
    PROVE  \E q \in requests : /\ r.op = q.op /\ r.exec = q.exec /\ r.report = q.report
                               /\ \/ r = q /\ q.from # e
                                  \/ r.from = NoExec /\ q.from = e
  BY DEF Unheard, TypeOK, Request

\* While nobody has been given the job, the workstation can only ask for it.
LEMMA WorkerUnclaimed ==
    ASSUME TypeOK, Unclaimed, NEW e \in Executors,
           WorkerStep(e) \/ GiveUp(e) \/ FinalOverruns(e) \/ Die(e)
    PROVE  Unclaimed'
<1>w. worker[e] \in {"idle", "claiming", "dead"} /\ outbox.state # "pending"
  BY DEF Unclaimed
<1>m. \A step : Move(e, step) => \A d \in Executors : worker'[d] = IF d = e THEN step ELSE worker[d]
  BY DEF Move, TypeOK
<1>b. \A c \in Backends : backend'[c].op = backend[c].op
  BY WorkerFrame, DetachedSame
<1>1. CASE PollClaim(e)
  <2>1. /\ requests' = requests \cup {Ask("claim", e, e, "none")} /\ Move(e, "claiming")
        /\ UNCHANGED <<outbox, runs>>
    BY <1>1 DEF PollClaim, Send
  <2> QED  BY <1>b, <1>m, <2>1 DEF Unclaimed, Ask
<1>2. CASE GiveUp(e) \/ Die(e)
  <2>1. /\ requests' = Unheard(e) /\ (Move(e, "idle") \/ Move(e, "dead"))
        /\ UNCHANGED <<outbox, runs>>
    BY <1>2, <1>w DEF GiveUp, Die
  <2>2. \A r \in Unheard(e) : r.op = "claim"
    BY UnheardSame DEF Unclaimed
  <2> QED  BY <1>b, <1>m, <2>1, <2>2 DEF Unclaimed
<1>3. CASE ~PollClaim(e) /\ ~GiveUp(e) /\ ~Die(e)
  BY <1>3, <1>w
  DEF WorkerStep, FlushOutbox, RefuseLocally, SendPreflight, QueueLegacy, SendFinal, StartNative,
      NativeReturns, ReportRefusal, ReportBusy, NativeThrows, NativeOverruns, OrphanReturns,
      SaveAndPost, OutboxSaveFails, FinalOverruns
<1> QED  BY <1>1, <1>2, <1>3

\* Every step keeps LeaseInv: job.json is pending until the first lease is
\* saved and never again.
LEMMA LeaseStep == Inv /\ LeaseInv /\ Next => LeaseInv'
<1> SUFFICES ASSUME Inv, LeaseInv, Next PROVE LeaseInv'
  OBVIOUS
<1>t. TypeOK /\ FamilyInv /\ backend \in [Backends -> Handler]
  BY DEF Inv, TypeOK
<1>k. UNCHANGED kind
  BY <1>t, KindStable
<1>0. ASSUME UNCHANGED <<job, producer>>, Unclaimed => Unclaimed',
             \A c \in Backends : \/ backend'[c] = backend[c]
                                 \/ backend'[c] = [backend[c] EXCEPT !.from = NoExec]
                                 \/ backend'[c] = Idle
      PROVE  LeaseInv'
  <2>1. ASSUME NEW c \in Backends PROVE LeaseHandler(backend[c])'
    <3>1. backend[c] \in Handler /\ LeaseHandler(backend[c])
      BY <1>t DEF LeaseInv
    <3> QED  BY <1>0, <1>k, <3>1, LeaseHandlerPersists
  <2> QED  BY <1>0, <2>1 DEF LeaseInv, Early
<1>x. ASSUME NEW b \in Backends, NEW x, backend' = [backend EXCEPT ![b] = x], LeaseHandler(x),
             UNCHANGED <<job, producer, runs, outbox, worker>>, requests' \subseteq requests,
             Unclaimed => x.op \in {"none", "claim"}
      PROVE  LeaseInv'
  <2>1. \A c \in Backends : backend'[c] = IF c = b THEN x ELSE backend[c]
    BY <1>t, <1>x
  <2>2. ASSUME NEW c \in Backends PROVE LeaseHandler(backend[c])'
    <3>1. LeaseHandler(backend'[c])
      BY <1>x, <2>1 DEF LeaseInv
    <3> QED  BY <1>k, <1>x, <3>1 DEF LeaseHandler, Family
  <2>3. Unclaimed => Unclaimed'
    BY <1>x, <2>1 DEF Unclaimed
  <2> QED  BY <1>x, <2>2, <2>3 DEF LeaseInv, Early
<1>1. ASSUME NEW b \in Backends, HandleRequest(b) PROVE LeaseInv'
  <2> PICK r \in requests : ClaimNext(b, r) \/ Authorize(b, r) \/ Report(b, r)
    BY <1>1 DEF HandleRequest
  <2> PICK h : Serve(b, r, h) /\ LeaseOpened(b, r, h)
    BY <1>t, ServedLease
  <2>1. LeaseHandler(h) /\ (Unclaimed => h.op = "claim")
    BY DEF LeaseOpened, Unclaimed
  <2> QED  BY <1>x, <2>1 DEF Serve, files, station
<1>2. ASSUME NEW b \in Backends, WriteStep(b) PROVE LeaseInv'
  <2>1. CASE \/ IssueChallenge(b) \/ AuthorizeFinal(b) \/ WriteFence(b) \/ PublishDecision(b)
             \/ ConsumeChallenge(b) \/ PublishResult(b)
    <3> PICK x \in Handler : Continue(b, x) /\ x.op = backend[b].op /\ LeaseHandler(x) /\ UNCHANGED job
      BY <1>t, <2>1, ContinueLease
    <3>1. Unclaimed => x.op \in {"none", "claim"}
      BY DEF Unclaimed
    <3> QED  BY <1>x, <3>1 DEF Continue, station
  <2>2. CASE SaveJob(b)
    <3>1. /\ job' = backend[b].copy /\ UNCHANGED producer
          /\ backend' = [backend EXCEPT ![b] = Idle]
      BY <2>2 DEF SaveJob, Finish
    <3>2. job'.status \notin {"absent", "pending"} /\ job.status # "absent"
      BY <2>2, <3>1 DEF SaveJob, LeaseInv, LeaseHandler
    <3>3. ASSUME NEW c \in Backends PROVE LeaseHandler(backend[c])'
      <4>1. /\ backend[c] \in Handler /\ LeaseHandler(backend[c])
            /\ backend'[c] = backend[c] \/ backend'[c] = Idle
        BY <1>t, <3>1 DEF LeaseInv
      <4> QED  BY <1>k, <3>2, <4>1, LeaseHandlerPersists
    <3> QED  BY <3>1, <3>2, <3>3 DEF LeaseInv, Early
  <2>3. CASE Reply(b)
    <3> DEFINE h == backend[b]
    <3>1. Finish(b) /\ UNCHANGED <<job, producer, requests, runs>> /\ h.pc = "reply"
      BY <2>3 DEF Reply, files
    <3>2. \A c \in Backends : backend'[c] = IF c = b THEN Idle ELSE backend[c]
      BY <1>t, <3>1 DEF Finish
    <3>3. h.answer # "job"
      BY <3>1 DEF LeaseInv, LeaseHandler
    <3>4. Unclaimed => Received(h.op, h.answer) = "idle" /\ h.op # "complete"
      BY <3>3 DEF Unclaimed, Received
    <3>5. \A e \in Executors : worker'[e] = worker[e] \/ worker'[e] = Received(h.op, h.answer)
      BY <1>t, <3>1 DEF Finish, TypeOK
    <3>6. Unclaimed => UNCHANGED outbox
      BY <3>1, <3>4 DEF Finish
    <3>7. Idle.op = "none"
      BY DEF Idle
    <3>8. Unclaimed => Unclaimed'
      BY <3>1, <3>2, <3>4, <3>5, <3>6, <3>7 DEF Unclaimed
    <3> QED  BY <1>0, <3>1, <3>2, <3>8
  <2> QED  BY <1>2, <2>1, <2>2, <2>3 DEF WriteStep
<1>3. ASSUME NEW b \in Backends, Restart(b) PROVE LeaseInv'
  <2>1. \A c \in Backends : backend'[c] = backend[c] \/ backend'[c] = Idle
    BY <1>3, <1>t DEF Restart
  <2>2. Unclaimed => Unclaimed'
    BY <1>3, <2>1 DEF Restart, station, Unclaimed, Idle
  <2> QED  BY <1>0, <1>3, <2>1, <2>2 DEF Restart, files
<1>4. ASSUME NEW e \in Executors, WorkerStep(e) \/ GiveUp(e) \/ FinalOverruns(e) \/ Die(e)
      PROVE  LeaseInv'
  BY <1>0, <1>4, <1>t, WorkerFrame, DetachedSame, WorkerUnclaimed
<1>5. ASSUME ProducerStep \/ ProducerCrash \/ Tick \/ LeaseEnds PROVE LeaseInv'
  <2>1. UNCHANGED <<backend, worker, outbox, requests, runs>>
    BY <1>5 DEF ProducerStep, ProducerCrash, Tick, LeaseEnds, Publish, PollResult, TimeoutReadJob,
                TimeoutReadResult, TimeoutWriteJob, TimeoutWriteResult, station
  <2>2. Unclaimed => Unclaimed'
    BY <2>1 DEF Unclaimed
  <2>3. producer \in [pc: ProducerSteps, copy: Job]
    BY <1>t DEF TypeOK
  <2>4. /\ producer'.pc = "unpublished" <=> job'.status = "absent"
        /\ job'.status = "absent" => job.status = "absent"
        /\ job'.status \in {"absent", "pending"} => Early
    BY <1>5, <2>3 DEF ProducerStep, ProducerCrash, Tick, LeaseEnds, Publish, PollResult,
         TimeoutReadJob, TimeoutReadResult, TimeoutWriteJob, TimeoutWriteResult, LeaseInv, Early, files,
         TypeOK, Job
  <2>5. ASSUME NEW c \in Backends PROVE LeaseHandler(backend[c])'
    <3>1. backend[c] \in Handler /\ LeaseHandler(backend[c]) /\ backend'[c] = backend[c]
      BY <1>t, <2>1 DEF LeaseInv
    <3> QED  BY <1>k, <2>4, <3>1, LeaseHandlerPersists
  <2> QED  BY <2>2, <2>4, <2>5 DEF LeaseInv, Early
<1> QED  BY <1>1, <1>2, <1>3, <1>4, <1>5 DEF Next

\* The initial state satisfies LeaseInv.
LEMMA LeaseInit == Init => LeaseInv
  BY DEF Init, LeaseInv, LeaseHandler, Early, Unclaimed, Idle, NoOutbox, NoJob

-----------------------------------------------------------------------------
(* A job that expired before anybody was given it *)

\* The job has expired and nobody is past the claim: the workers' own clocks,
\* or the backends' authorizations, stop whoever is still given it.
TooLate ==
    /\ Expired
    /\ runs = 0
    /\ outbox.state # "pending"
    /\ \A e \in Executors :
          worker[e] \in {"idle", "claiming", "claimed", "preflight", "refused", "reporting", "dead"}
    /\ \A r \in requests : r.op \in {"claim", "preflight", "fail"}
    /\ \A b \in Backends :
          /\ backend[b].op \in {"none", "claim", "preflight", "fail"}
          /\ backend[b].op = "preflight" => backend[b].answer # "ok"

\* The workstation's clock does not lag, or the backend decides on every
\* dispatch anyway.
Guarded == Certified \/ ~SkewedClocks

\* The workstation cannot start the job once it is too late.
LEMMA WorkerTooLate ==
    ASSUME TypeOK, TooLate, Guarded, NEW e \in Executors,
           WorkerStep(e) \/ GiveUp(e) \/ FinalOverruns(e) \/ Die(e)
    PROVE  TooLate'
<1>w. /\ worker[e] \in {"idle", "claiming", "claimed", "preflight", "refused", "reporting", "dead"}
      /\ outbox.state # "pending" /\ Expired
  BY DEF TooLate
<1>m. \A step : Move(e, step) => \A d \in Executors : worker'[d] = IF d = e THEN step ELSE worker[d]
  BY DEF Move, TypeOK
<1>b. \A c \in Backends : backend'[c].op = backend[c].op /\ backend'[c].answer = backend[c].answer
  BY WorkerFrame, DetachedSame
<1>p. UNCHANGED phase
  BY WorkerFrame
<1>0. ASSUME NEW step \in {"idle", "claiming", "claimed", "preflight", "refused", "reporting", "dead"},
             Move(e, step), UNCHANGED <<outbox, runs>>,
             \A r \in requests' : r.op \in {"claim", "preflight", "fail"}
      PROVE  TooLate'
  BY <1>0, <1>b, <1>m, <1>p DEF TooLate, Expired
<1>s. ASSUME NEW step \in {"claiming", "preflight", "reporting"}, NEW op \in {"claim", "preflight", "fail"},
             NEW report, Send(e, step, op, e, report), UNCHANGED <<outbox, runs>>
      PROVE  TooLate'
  <2>1. \A r \in requests' : r.op \in {"claim", "preflight", "fail"}
    BY <1>s DEF Send, Ask, TooLate
  <2> QED  BY <1>0, <1>s, <2>1 DEF Send
<1>1. CASE PollClaim(e)
  BY <1>1, <1>s DEF PollClaim
<1>2. CASE RefuseLocally(e)
  BY <1>2, <1>0 DEF RefuseLocally, TooLate
<1>3. CASE SendPreflight(e)
  BY <1>3, <1>s DEF SendPreflight
<1>4. CASE QueueLegacy(e)
  <2>1. V1 /\ Fresh /\ phase = "expired"
    BY <1>4, <1>w DEF QueueLegacy, Expired
  <2> QED  BY <2>1 DEF Fresh, Guarded, V1, Certified, V1Kinds
<1>5. CASE ReportRefusal(e)
  BY <1>5, <1>s DEF ReportRefusal
<1>u. \A r \in Unheard(e) : r.op \in {"claim", "preflight", "fail"}
  BY UnheardSame DEF TooLate
<1>6. CASE GiveUp(e)
  BY <1>6, <1>0, <1>u DEF GiveUp
<1>7. CASE Die(e)
  BY <1>7, <1>0, <1>u DEF Die
<1>8. CASE \/ FlushOutbox(e) \/ SendFinal(e) \/ StartNative(e) \/ NativeReturns(e) \/ ReportBusy(e)
           \/ NativeThrows(e) \/ NativeOverruns(e) \/ OrphanReturns(e) \/ SaveAndPost(e)
           \/ OutboxSaveFails(e) \/ FinalOverruns(e)
  BY <1>8, <1>w DEF FlushOutbox, SendFinal, StartNative, NativeReturns, ReportBusy, NativeThrows,
     NativeOverruns, OrphanReturns, SaveAndPost, OutboxSaveFails, FinalOverruns
<1> QED  BY <1>1, <1>2, <1>3, <1>4, <1>5, <1>6, <1>7, <1>8 DEF WorkerStep

\* Once it is too late it stays too late.
LEMMA TooLateStays ==
    ASSUME Inv, LeaseInv, TooLate, Guarded, Next
    PROVE  TooLate'
<1>t. TypeOK /\ FamilyInv /\ backend \in [Backends -> Handler]
  BY DEF Inv, TypeOK
<1>x. ASSUME NEW b \in Backends, NEW x, backend' = [backend EXCEPT ![b] = x],
             UNCHANGED <<phase, runs, outbox, worker>>, requests' \subseteq requests,
             x.op \in {"none", "claim", "preflight", "fail"}, x.op = "preflight" => x.answer # "ok"
      PROVE  TooLate'
  <2>1. \A c \in Backends : backend'[c] = IF c = b THEN x ELSE backend[c]
    BY <1>t, <1>x
  <2> QED  BY <1>x, <2>1 DEF TooLate, Expired
<1>i. Idle.op = "none"
  BY DEF Idle
<1>1. ASSUME NEW b \in Backends, HandleRequest(b) PROVE TooLate'
  <2> PICK r \in requests : ClaimNext(b, r) \/ Authorize(b, r) \/ Report(b, r)
    BY <1>1 DEF HandleRequest
  <2> PICK h : Serve(b, r, h) /\ LeaseOpened(b, r, h)
    BY <1>t, ServedLease
  <2>1. h.op \in {"claim", "preflight", "fail"} /\ (h.op = "preflight" => h.answer # "ok")
    BY DEF LeaseOpened, TooLate
  <2> QED  BY <1>x, <2>1 DEF Serve, time, station
<1>2. ASSUME NEW b \in Backends, WriteStep(b) PROVE TooLate'
  <2> DEFINE h == backend[b]
  <2>h. h.op \in {"none", "claim", "preflight", "fail"} /\ (h.op = "preflight" => h.answer # "ok")
    BY DEF TooLate
  <2>1. CASE \/ IssueChallenge(b) \/ AuthorizeFinal(b) \/ WriteFence(b) \/ PublishDecision(b)
             \/ ConsumeChallenge(b) \/ PublishResult(b)
    <3> PICK x \in Handler : Continue(b, x) /\ x.op = h.op
                             /\ (x.answer = "ok" => h.answer = "ok" \/ x.op = "final")
      BY <1>t, <2>1, ContinueLease
    <3> QED  BY <1>x, <2>h DEF Continue, time, station
  <2>2. CASE SaveJob(b) \/ Reply(b)
    <3>1. Finish(b) /\ UNCHANGED <<phase, requests, runs>>
      BY <2>2 DEF SaveJob, Reply, time
    <3>2. \A c \in Backends : backend'[c] = IF c = b THEN Idle ELSE backend[c]
      BY <1>t, <3>1 DEF Finish
    <3>3. Received(h.op, h.answer) \in {"idle", "claimed", "refused"} /\ h.op # "complete"
      BY <2>h DEF Received
    <3>4. \A e \in Executors : worker'[e] = worker[e] \/ worker'[e] = Received(h.op, h.answer)
      BY <1>t, <3>1 DEF Finish, TypeOK
    <3>5. UNCHANGED outbox
      BY <3>1, <3>3 DEF Finish
    <3> QED  BY <1>i, <3>1, <3>2, <3>3, <3>4, <3>5 DEF TooLate, Expired
  <2> QED  BY <1>2, <2>1, <2>2 DEF WriteStep
<1>3. ASSUME NEW b \in Backends, Restart(b) PROVE TooLate'
  BY <1>3, <1>x, <1>i DEF Restart, time, station
<1>4. ASSUME NEW e \in Executors, WorkerStep(e) \/ GiveUp(e) \/ FinalOverruns(e) \/ Die(e)
      PROVE  TooLate'
  BY <1>4, <1>t, WorkerTooLate
<1>5. ASSUME ProducerStep \/ ProducerCrash \/ Tick \/ LeaseEnds PROVE TooLate'
  <2>1. UNCHANGED <<phase, backend, worker, outbox, requests, runs>>
    BY <1>5 DEF ProducerStep, ProducerCrash, Tick, LeaseEnds, Publish, PollResult, TimeoutReadJob,
                TimeoutReadResult, TimeoutWriteJob, TimeoutWriteResult, station, time, TooLate, Expired
  <2> QED  BY <2>1 DEF TooLate, Expired
<1> QED  BY <1>1, <1>2, <1>3, <1>4, <1>5 DEF Next

\* A job that is still pending when it expires is too late.
LEMMA PendingTooLate ==
    ASSUME LeaseInv, job.status = "pending", Expired
    PROVE  TooLate
  BY DEF LeaseInv, Early, Unclaimed, TooLate

\* The invariant behind RetryAdviceSafe: the producer's copy is pending only
\* when it was too late already.
AdviceInv == Inv /\ LeaseInv /\ Guarded /\ (producer.copy.status = "pending" => TooLate)

\* Every step keeps AdviceInv.
LEMMA AdviceStep == AdviceInv /\ [Next]_vars => AdviceInv'
<1> SUFFICES ASSUME AdviceInv, [Next]_vars PROVE AdviceInv'
  OBVIOUS
<1>f. Inv /\ LeaseInv /\ Guarded /\ TypeOK /\ FamilyInv
  BY DEF AdviceInv, Inv
<1>1. CASE UNCHANGED vars
  <2>1. Inv'
    BY <1>f, <1>1, InvStep
  <2>2. LeaseInv' /\ Guarded' /\ (TooLate => TooLate')
    BY <1>f, <1>1 DEF vars, LeaseInv, LeaseHandler, Early, Unclaimed, TooLate, Expired, Guarded,
                      Certified, Family
  <2> QED  BY <1>1, <2>1, <2>2 DEF AdviceInv, vars
<1>2. CASE Next
  <2>1. Inv' /\ LeaseInv' /\ UNCHANGED kind
    BY <1>f, <1>2, InvStep, LeaseStep, KindStable
  <2>2. Guarded'
    BY <1>f, <2>1 DEF Guarded, Certified
  <2>3. CASE TooLate
    BY <1>2, <1>f, <2>1, <2>2, <2>3, TooLateStays DEF AdviceInv
  <2>4. CASE ~TooLate
    <3>1. producer.copy.status # "pending"
      BY <2>4 DEF AdviceInv
    <3>2. ASSUME producer'.copy.status = "pending" PROVE FALSE
      <4>1. producer' # producer
        BY <3>1, <3>2
      <4>2. ASSUME NEW b \in Backends, HandleRequest(b) PROVE FALSE
        <5> PICK r \in requests : ClaimNext(b, r) \/ Authorize(b, r) \/ Report(b, r)
          BY <4>2 DEF HandleRequest
        <5> PICK h \in Handler : Serve(b, r, h)
          BY <1>f, Served
        <5> QED  BY <4>1 DEF Serve
      <4>3. ASSUME NEW b \in Backends, WriteStep(b) \/ Restart(b) PROVE FALSE
        BY <4>1, <4>3 DEF WriteStep, Restart, IssueChallenge, AuthorizeFinal, WriteFence,
           PublishDecision, ConsumeChallenge, PublishResult, SaveJob, Reply, Continue
      <4>4. ASSUME NEW e \in Executors, WorkerStep(e) \/ GiveUp(e) \/ FinalOverruns(e) \/ Die(e)
            PROVE  FALSE
        BY <4>1, <4>4, WorkerFrame
      <4>5. ASSUME ProducerStep \/ ProducerCrash \/ Tick \/ LeaseEnds, ~TimeoutReadJob PROVE FALSE
        <5>1. producer \in [pc: ProducerSteps, copy: Job]
          BY <1>f DEF TypeOK
        <5>2. producer'.copy = producer.copy
          BY <4>1, <4>5, <5>1 DEF ProducerStep, ProducerCrash, Tick, LeaseEnds, Publish, PollResult,
             TimeoutReadResult, TimeoutWriteJob, TimeoutWriteResult
        <5> QED  BY <3>1, <3>2, <5>2
      <4>6. CASE TimeoutReadJob
        <5>1. job.status = "pending" /\ Expired
          BY <3>2, <4>6 DEF TimeoutReadJob
        <5> QED  BY <1>f, <2>4, <5>1, PendingTooLate
      <4> QED  BY <1>2, <4>2, <4>3, <4>4, <4>5, <4>6 DEF Next
    <3> QED  BY <2>1, <2>2, <3>2 DEF AdviceInv
  <2> QED  BY <2>3, <2>4
<1> QED  BY <1>1, <1>2

\* A caller that was told to retry because its job timed out while pending is
\* never answered by a run of that job (finalizeTimeout, the courier worker's clock check,
\* authorizeRevitToolJobExecution), with any number of backends and executors
\* and however late a claim is saved: for a v2 job always, for a v1 job when
\* the workstation's clock does not lag.
THEOREM RetryAdviceSafeHolds == Spec /\ (Certified \/ ~SkewedClocks) => []RetryAdviceSafe
<1>1. Init /\ (Certified \/ ~SkewedClocks) => AdviceInv
  <2> SUFFICES ASSUME Init, Certified \/ ~SkewedClocks PROVE AdviceInv
    OBVIOUS
  <2>1. Inv /\ LeaseInv
    BY TypeInit, FamilyInit, LeaseInit DEF Inv
  <2>2. producer.copy.status # "pending"
    BY DEF Init, NoJob
  <2> QED  BY <2>1, <2>2 DEF AdviceInv, Guarded
<1>2. AdviceInv => RetryAdviceSafe
  BY DEF AdviceInv, TooLate, RetryAdviceSafe
<1> QED  BY <1>1, <1>2, AdviceStep, PTL DEF Spec

-----------------------------------------------------------------------------
(* Receipts that claim nothing was dispatched *)

\* Whoever writes or has written such a receipt for a general or laboratory
\* job found it too late already.
KnownInv ==
    /\ AdviceInv
    /\ kind \in {"general", "lab"}
    /\ Policies \subseteq {"ok"}
    /\ \A b \in Backends : policy[b] = "ok"
    /\ \A r \in requests : r.op \notin {"preflight", "final"}
    /\ \A b \in Backends :
          backend[b].pc = "publish" /\ backend[b].dec.receipt.outcome \in Undispatched => TooLate
    /\ producer.pc \in {"overdue", "wrote_job"} => producer.copy.status \in {"pending", "running"}
    /\ result.outcome \in Undispatched => TooLate

\* A step after which neither a backend nor result.json says so keeps the rest.
LEMMA KnownWrites ==
    ASSUME KnownInv, ~TooLate, Next
    PROVE  /\ \A b \in Backends :
                 ~(backend'[b].pc = "publish" /\ backend'[b].dec.receipt.outcome \in Undispatched)
           /\ result'.outcome \notin Undispatched
<1> DEFINE Clean(h) == ~(h.pc = "publish" /\ h.dec.receipt.outcome \in Undispatched)
<1>f. /\ TypeOK /\ FamilyInv /\ LeaseInv /\ backend \in [Backends -> Handler]
      /\ \A b \in Backends : Clean(backend[b])
      /\ result.outcome \notin Undispatched /\ ~Family
  BY DEF KnownInv, AdviceInv, Inv, TypeOK, Family
<1> SUFFICES (\A b \in Backends : Clean(backend'[b])) /\ result'.outcome \notin Undispatched
  OBVIOUS
<1>i. Clean(Idle)
  BY DEF Idle
<1> HIDE DEF Clean
<1>1. ASSUME NEW b \in Backends, HandleRequest(b)
      PROVE  (\A c \in Backends : Clean(backend'[c])) /\ UNCHANGED result
  <2> PICK r \in requests : ClaimNext(b, r) \/ Authorize(b, r) \/ Report(b, r)
    BY <1>1 DEF HandleRequest
  <2> PICK h : Serve(b, r, h) /\ LeaseOpened(b, r, h)
    BY <1>f, ServedLease
  <2>1. Clean(h)
    BY <1>f, PendingTooLate DEF LeaseOpened, KnownInv, Clean
  <2>2. \A c \in Backends : backend'[c] = IF c = b THEN h ELSE backend[c]
    BY <1>f DEF Serve
  <2> QED  BY <1>f, <2>1, <2>2 DEF Serve, files
<1>2. ASSUME NEW b \in Backends, WriteStep(b)
      PROVE  (\A c \in Backends : Clean(backend'[c])) /\ result'.outcome \notin Undispatched
  <2>1. CASE \/ IssueChallenge(b) \/ AuthorizeFinal(b) \/ WriteFence(b) \/ PublishDecision(b)
             \/ ConsumeChallenge(b) \/ PublishResult(b)
    <3> PICK x \in Handler : Continue(b, x) /\ (x.pc = "publish" => Family)
      BY <1>f, <2>1, ContinueLease
    <3>1. \A c \in Backends : backend'[c] = IF c = b THEN x ELSE backend[c]
      BY <1>f DEF Continue
    <3>2. Clean(x)
      BY <1>f DEF Clean
    <3>3. result' = result \/ (PublishResult(b) /\ result' = backend[b].dec.receipt)
      BY <2>1 DEF IssueChallenge, AuthorizeFinal, WriteFence, PublishDecision, ConsumeChallenge,
                  PublishResult, files
    <3>4. PublishResult(b) => backend[b].dec.receipt.outcome \notin Undispatched
      BY <1>f DEF PublishResult, Clean
    <3> QED  BY <1>f, <3>1, <3>2, <3>3, <3>4
  <2>2. CASE SaveJob(b) \/ Reply(b)
    <3>1. backend' = [backend EXCEPT ![b] = Idle] /\ UNCHANGED result
      BY <2>2 DEF SaveJob, Reply, Finish, files
    <3> QED  BY <1>f, <1>i, <3>1
  <2> QED  BY <1>2, <2>1, <2>2 DEF WriteStep
<1>3. ASSUME NEW b \in Backends, Restart(b)
      PROVE  (\A c \in Backends : Clean(backend'[c])) /\ UNCHANGED result
  BY <1>3, <1>f, <1>i DEF Restart, files
<1>4. ASSUME NEW e \in Executors, WorkerStep(e) \/ GiveUp(e) \/ FinalOverruns(e) \/ Die(e)
      PROVE  (\A c \in Backends : Clean(backend'[c])) /\ UNCHANGED result
  <2>1. \A c \in Backends : backend'[c].pc = backend[c].pc /\ backend'[c].dec = backend[c].dec
    BY <1>4, <1>f, WorkerFrame, DetachedSame
  <2> QED  BY <1>4, <1>f, <2>1, WorkerFrame DEF Clean
<1>5. ASSUME ProducerStep \/ ProducerCrash \/ Tick \/ LeaseEnds
      PROVE  UNCHANGED backend /\ result'.outcome \notin Undispatched
  <2>1. UNCHANGED backend
    BY <1>5 DEF ProducerStep, ProducerCrash, Tick, LeaseEnds, Publish, PollResult, TimeoutReadJob,
                TimeoutReadResult, TimeoutWriteJob, TimeoutWriteResult
  <2>2. CASE TimeoutWriteResult
    <3>1. producer.copy.status = "running"
      BY <2>2 DEF TimeoutWriteResult, KnownInv, AdviceInv
    <3>2. result' = Receipted("failed_unknown", "producer_timeout")
      BY <2>2, <3>1 DEF TimeoutWriteResult
    <3> QED  BY <2>1, <3>2 DEF Receipted, Undispatched
  <2>3. CASE ~TimeoutWriteResult
    <3>1. UNCHANGED result
      BY <1>5, <2>3 DEF ProducerStep, ProducerCrash, Tick, LeaseEnds, Publish, PollResult,
         TimeoutReadJob, TimeoutReadResult, TimeoutWriteJob, files
    <3> QED  BY <1>f, <2>1, <3>1
  <2> QED  BY <2>2, <2>3
<1> QED  BY <1>f, <1>1, <1>2, <1>3, <1>4, <1>5 DEF Next

\* Every step keeps KnownInv.
LEMMA KnownStep == KnownInv /\ [Next]_vars => KnownInv'
<1> SUFFICES ASSUME KnownInv, [Next]_vars PROVE KnownInv'
  OBVIOUS
<1>f. /\ AdviceInv /\ Inv /\ LeaseInv /\ Guarded /\ TypeOK /\ FamilyInv /\ ~Certified
      /\ Policies \subseteq {"ok"} /\ policy \in [Backends -> AllPolicies]
      /\ producer \in [pc: ProducerSteps, copy: Job]
  BY DEF KnownInv, AdviceInv, Inv, Certified, TypeOK
<1>a. AdviceInv'
  BY <1>f, AdviceStep
<1>1. CASE UNCHANGED vars
  <2>1. TooLate => TooLate'
    BY <1>1 DEF vars, TooLate, Expired
  <2> QED  BY <1>a, <1>1, <2>1 DEF KnownInv, vars
<1>2. CASE Next
  <2>k. UNCHANGED kind
    BY <1>f, <1>2, KindStable
  <2>s. ASSUME NEW b \in Backends, HandleRequest(b)
        PROVE  requests' \subseteq requests /\ UNCHANGED <<policy, producer>>
    <3> PICK r \in requests : ClaimNext(b, r) \/ Authorize(b, r) \/ Report(b, r)
      BY <2>s DEF HandleRequest
    <3> PICK h \in Handler : Serve(b, r, h)
      BY <1>f, Served
    <3> QED  BY DEF Serve
  <2>w. ASSUME NEW b \in Backends, WriteStep(b) PROVE UNCHANGED <<requests, policy, producer>>
    BY <2>w DEF WriteStep, IssueChallenge, AuthorizeFinal, WriteFence, PublishDecision,
       ConsumeChallenge, PublishResult, SaveJob, Reply, Continue
  <2>1. \A b \in Backends : policy'[b] = "ok"
    <3>1. ASSUME NEW b \in Backends, Restart(b) PROVE \A c \in Backends : policy'[c] = "ok"
      <4> PICK p \in Policies : policy' = [policy EXCEPT ![b] = p]
        BY <3>1 DEF Restart
      <4> QED  BY <1>f DEF KnownInv
    <3>2. ASSUME ProducerStep \/ ProducerCrash \/ Tick \/ LeaseEnds PROVE UNCHANGED policy
      BY <3>2 DEF ProducerStep, ProducerCrash, Tick, LeaseEnds, Publish, PollResult, TimeoutReadJob,
         TimeoutReadResult, TimeoutWriteJob, TimeoutWriteResult
    <3> QED  BY <1>2, <2>s, <2>w, <3>1, <3>2, WorkerFrame DEF Next, KnownInv
  <2>2. \A r \in requests' : r.op \notin {"preflight", "final"}
    <3>1. ASSUME NEW e \in Executors, WorkerStep(e) \/ GiveUp(e) \/ FinalOverruns(e) \/ Die(e)
          PROVE  \A r \in requests' : r.op \notin {"preflight", "final"}
      <4>1. \A r \in Unheard(e) : r.op \notin {"preflight", "final"}
        BY <1>f, UnheardSame DEF KnownInv
      <4>2. CASE GiveUp(e) \/ FinalOverruns(e) \/ Die(e)
        BY <4>1, <4>2 DEF GiveUp, FinalOverruns, Die, Ask
      <4>3. CASE WorkerStep(e)
        <5>1. \A step, op, exec, report :
                 Send(e, step, op, exec, report) /\ op \notin {"preflight", "final"}
                 => \A r \in requests' : r.op \notin {"preflight", "final"}
          BY DEF Send, Ask, KnownInv
        <5>2. CASE PollClaim(e)
          BY <5>1, <5>2 DEF PollClaim
        <5>3. CASE FlushOutbox(e)
          BY <5>1, <5>3 DEF FlushOutbox
        <5>4. CASE \/ RefuseLocally(e) \/ QueueLegacy(e) \/ StartNative(e) \/ NativeReturns(e)
                   \/ OrphanReturns(e) \/ OutboxSaveFails(e)
          BY <5>4 DEF RefuseLocally, QueueLegacy, StartNative, NativeReturns, OrphanReturns,
             OutboxSaveFails, KnownInv
        <5>5. CASE SendPreflight(e) \/ SendFinal(e)
          BY <1>f, <5>5 DEF SendPreflight, SendFinal
        <5>6. CASE ReportRefusal(e)
          BY <5>1, <5>6 DEF ReportRefusal
        <5>7. CASE ReportBusy(e)
          BY <5>1, <5>7 DEF ReportBusy
        <5>8. CASE NativeThrows(e)
          BY <5>1, <5>8 DEF NativeThrows
        <5>9. CASE NativeOverruns(e)
          BY <5>1, <5>9 DEF NativeOverruns
        <5>10. CASE SaveAndPost(e)
          BY <5>1, <5>10 DEF SaveAndPost
        <5> QED  BY <4>3, <5>2, <5>3, <5>4, <5>5, <5>6, <5>7, <5>8, <5>9, <5>10 DEF WorkerStep
      <4> QED  BY <3>1, <4>2, <4>3
    <3>2. ASSUME NEW b \in Backends, Restart(b) PROVE UNCHANGED requests
      BY <3>2 DEF Restart
    <3>3. ASSUME ProducerStep \/ ProducerCrash \/ Tick \/ LeaseEnds PROVE UNCHANGED requests
      BY <3>3 DEF ProducerStep, ProducerCrash, Tick, LeaseEnds, Publish, PollResult, TimeoutReadJob,
         TimeoutReadResult, TimeoutWriteJob, TimeoutWriteResult
    <3> QED  BY <1>2, <2>s, <2>w, <3>1, <3>2, <3>3 DEF Next, KnownInv
  <2>3. producer'.pc \in {"overdue", "wrote_job"} => producer'.copy.status \in {"pending", "running"}
    <3>1. ASSUME NEW b \in Backends, Restart(b) PROVE UNCHANGED producer
      BY <3>1 DEF Restart
    <3>2. ASSUME ProducerStep \/ ProducerCrash \/ Tick \/ LeaseEnds
          PROVE  producer'.pc \in {"overdue", "wrote_job"} => producer'.copy.status \in {"pending", "running"}
      BY <1>f, <3>2 DEF ProducerStep, ProducerCrash, Tick, LeaseEnds, Publish, PollResult,
         TimeoutReadJob, TimeoutReadResult, TimeoutWriteJob, TimeoutWriteResult, KnownInv
    <3> QED  BY <1>2, <2>s, <2>w, <3>1, <3>2, WorkerFrame DEF Next, KnownInv
  <2>4. CASE TooLate
    <3>1. TooLate'
      BY <1>2, <1>f, <2>4, TooLateStays
    <3> QED  BY <1>a, <1>f, <2>k, <2>1, <2>2, <2>3, <3>1 DEF KnownInv
  <2>5. CASE ~TooLate
    <3>1. /\ \A b \in Backends :
                 ~(backend'[b].pc = "publish" /\ backend'[b].dec.receipt.outcome \in Undispatched)
          /\ result'.outcome \notin Undispatched
      BY <1>2, <2>5, KnownWrites
    <3> QED  BY <1>a, <1>f, <2>k, <2>1, <2>2, <2>3, <3>1 DEF KnownInv
  <2> QED  BY <2>4, <2>5
<1> QED  BY <1>1, <1>2

\* A receipt that says nothing was dispatched is true for every kind of job that
\* promises it, whichever backend or producer writes it: for a family always,
\* because of the fence; for a general or laboratory job because it was too
\* late to start it (claimNextRevitToolJob, finalizeTimeout), when the profile
\* and the inventory keep admitting the job and the workstation's clock does
\* not lag.
THEOREM KnownFailureNeverRanHolds ==
    Spec /\ (Family \/ (Policies \subseteq {"ok"} /\ ~SkewedClocks)) => []KnownFailureNeverRan
<1>1. Init /\ kind \in {"general", "lab"} /\ Policies \subseteq {"ok"} /\ ~SkewedClocks => KnownInv
  <2> SUFFICES ASSUME Init, kind \in {"general", "lab"}, Policies \subseteq {"ok"}, ~SkewedClocks
               PROVE  KnownInv
    OBVIOUS
  <2>1. Inv /\ LeaseInv
    BY TypeInit, FamilyInit, LeaseInit DEF Inv
  <2>2. producer.copy.status # "pending" /\ producer.pc = "unpublished"
    BY DEF Init, NoJob
  <2>3. \A b \in Backends : backend[b].pc # "publish"
    BY DEF Init, Idle
  <2>4. result.outcome \notin Undispatched
    BY DEF Init, NoReceipt, Receipted, Undispatched
  <2> QED  BY <2>1, <2>2, <2>3, <2>4 DEF KnownInv, AdviceInv, Guarded, Init
<1>2. KnownInv => KnownFailureNeverRan
  BY DEF KnownInv, TooLate, KnownFailureNeverRan, Undispatched
<1>3. Inv /\ [Next]_vars => UNCHANGED kind
  BY KindStable DEF Inv, vars
<1>4. kind \notin {"general", "lab", "family"} => KnownFailureNeverRan
  BY DEF KnownFailureNeverRan
<1>5. Inv /\ kind \notin {"general", "lab", "family"} /\ [Next]_vars
      => (kind \notin {"general", "lab", "family"})'
  BY <1>3
<1>6. Family \/ kind \in {"general", "lab"} \/ kind \notin {"general", "lab", "family"}
  BY DEF Family
<1> QED  BY <1>1, <1>2, <1>4, <1>5, <1>6, KnownStep, InvHolds, FamilyKnownFailureNeverRan, PTL DEF Spec

-----------------------------------------------------------------------------
(* One run, whatever the kind of job *)

\* The states of a worker that has been given the job and has not run it, and
\* of one that has.
Holding == {"claimed", "preflight", "queued", "final", "granted"}
Ran == {"running", "orphaned", "executed", "posting", "flushing"}

\* Executor e has the job, or the answer that gives it the job is on its way.
Owner(e) ==
    \/ worker[e] \in Holding
    \/ \E b \in Backends : backend[b].from = e /\ backend[b].answer = "job"

\* Where a worker waits for the answer to a call.
Waits(op) == CASE op = "claim" -> "claiming" [] op = "fail" -> "reporting" [] OTHER -> op

\* Until the job runs, a worker has at most one call out, the one it waits for:
\* no answer can come twice or late.
OneCall ==
    /\ \A r \in requests : r.from \in Executors => worker[r.from] = Waits(r.op)
    /\ \A b \in Backends : backend[b].from \in Executors => worker[backend[b].from] = Waits(backend[b].op)
    /\ \A r, q \in requests : r.from = q.from /\ r.from \in Executors => r = q
    /\ \A b, c \in Backends : backend[b].from = backend[c].from /\ backend[b].from \in Executors => b = c
    /\ \A b \in Backends, r \in requests : r.from \in Executors => backend[b].from # r.from
    /\ \A e \in Executors : worker[e] \notin Ran
    /\ outbox.state # "pending"

OneOwner ==
    /\ \A d, e \in Executors : Owner(d) /\ Owner(e) => d = e
    /\ Target # NoExec => \A e \in Executors : Owner(e) => e = Target

OwnClaims == \A r \in requests : r.op = "claim" => r.from \in {NoExec, r.exec}

\* The job has not run and at most one executor can run it.
Ready == runs = 0 /\ OneCall /\ OneOwner /\ OwnClaims

\* It has run, and no executor has the job or waits for leave to run it.
Spent ==
    /\ runs = 1
    /\ \A e \in Executors : ~Owner(e)
    /\ \A r \in requests : r.op \in {"preflight", "final"} => r.from \notin Executors
    /\ \A b \in Backends : backend[b].op \in {"preflight", "final"} => backend[b].from \notin Executors

Exclusive == (\A b, c \in Backends : b = c) \/ Target # NoExec

OnceInv == Inv /\ LeaseInv /\ Exclusive /\ (Ready \/ Spent)

\* A step that makes nobody an owner keeps the owner unique.
LEMMA OwnerFrame ==
    ASSUME OneOwner, \A e \in Executors : Owner(e)' => Owner(e)
    PROVE  OneOwner'
  BY DEF OneOwner

\* A step after which executor e waits for its call q, or for none, keeps OneCall.
LEMMA CallFrame ==
    ASSUME TypeOK, OneCall, NEW e \in Executors, NEW step, step \notin Ran, Move(e, step),
           outbox'.state # "pending", NEW q,
           \A r \in requests' : /\ r.from = e => r = q /\ step = Waits(q.op)
                                /\ r.from \in Executors \ {e} => r \in requests,
           \A c \in Backends : /\ backend'[c].op = backend[c].op
                               /\ backend'[c].from \in {backend[c].from, NoExec}
                               /\ backend'[c].from # e
    PROVE  OneCall'
<1>n. NoExec \notin Executors
  BY ConstantsAssumption
<1>m. \A d \in Executors : worker'[d] = IF d = e THEN step ELSE worker[d]
  BY DEF Move, TypeOK
<1>b. \A c \in Backends : backend'[c].from \in Executors => backend'[c].from = backend[c].from /\ backend'[c].from # e
  BY <1>n
<1>1. \A r \in requests' : r.from \in Executors => worker'[r.from] = Waits(r.op)
  BY <1>m DEF OneCall
<1>2. \A c \in Backends : backend'[c].from \in Executors => worker'[backend'[c].from] = Waits(backend'[c].op)
  BY <1>m, <1>b DEF OneCall
<1>3. \A r, p \in requests' : r.from = p.from /\ r.from \in Executors => r = p
  BY DEF OneCall
<1>4. \A b, c \in Backends : backend'[b].from = backend'[c].from /\ backend'[b].from \in Executors => b = c
  BY <1>b DEF OneCall
<1>5. \A b \in Backends, r \in requests' : r.from \in Executors => backend'[b].from # r.from
  BY <1>b DEF OneCall
<1>6. \A d \in Executors : worker'[d] \notin Ran
  BY <1>m DEF OneCall
<1> QED  BY <1>1, <1>2, <1>3, <1>4, <1>5, <1>6 DEF OneCall

\* An executor that waits for nothing has no call out.
LEMMA NoCall ==
    ASSUME OneCall, NEW e \in Executors, worker[e] \notin {"claiming", "preflight", "final", "reporting"},
           worker[e] \in WorkerSteps, TypeOK
    PROVE  /\ \A r \in requests : r.from # e
           /\ \A b \in Backends : backend[b].from # e
<1>1. \A r \in requests : r.op \in Ops /\ worker[e] # Waits(r.op)
  BY DEF TypeOK, Request, Ops, Waits, WorkerSteps
<1>2. \A b \in Backends : backend[b].from = e => backend[b].op \in Ops \cup {"none"} /\ worker[e] = Waits(backend[b].op)
  BY DEF OneCall, TypeOK, Handler
<1> QED  BY <1>1, <1>2 DEF OneCall, Ops, Waits, WorkerSteps

\* Backend b hands its answer over: the worker that waited for it goes on.
LEMMA FinishFacts ==
    ASSUME TypeOK, NEW b \in Backends, Finish(b)
    PROVE  /\ \A c \in Backends : backend'[c] = IF c = b THEN Idle ELSE backend[c]
           /\ Idle.from = NoExec /\ Idle.op = "none" /\ Idle.answer = "none"
           /\ \A d \in Executors :
                 \/ worker'[d] = worker[d]
                 \/ d = backend[b].from /\ worker'[d] = Received(backend[b].op, backend[b].answer)
<1>1. \A c \in Backends : backend'[c] = IF c = b THEN Idle ELSE backend[c]
  BY DEF Finish, TypeOK
<1>2. \A d \in Executors :
         \/ worker'[d] = worker[d]
         \/ d = backend[b].from /\ worker'[d] = Received(backend[b].op, backend[b].answer)
  BY DEF Finish, TypeOK
<1> QED  BY <1>1, <1>2 DEF Idle

\* Only the lease, or leave to an executor that asked for it, lets a worker hold the job.
LEMMA ReceivedHolding ==
    ASSUME NEW op, NEW answer, Received(op, answer) \in Holding
    PROVE  (answer = "job" /\ op = "claim") \/ op \in {"preflight", "final"}
  BY DEF Received, Holding

\* While the job has not run, a backend's step keeps it with one owner.
LEMMA BackendReady ==
    ASSUME Inv, LeaseInv, Exclusive, Ready, NEW b \in Backends,
           HandleRequest(b) \/ WriteStep(b) \/ Restart(b)
    PROVE  Ready'
<1>t. TypeOK /\ NoExec \notin Executors
  BY ConstantsAssumption DEF Inv
<1>1. CASE HandleRequest(b)
  <2>1. PICK r \in requests : ClaimNext(b, r) \/ Authorize(b, r) \/ Report(b, r)
    BY <1>1 DEF HandleRequest
  <2>2. PICK h : Serve(b, r, h) /\ LeaseOpened(b, r, h)
    BY <1>t, <2>1, ServedLease
  <2>3. /\ requests' = requests \ {r} /\ h.op = r.op /\ h.from = r.from
        /\ UNCHANGED <<worker, outbox, runs>>
        /\ \A c \in Backends : backend'[c] = IF c = b THEN h ELSE backend[c]
    BY <1>t, <2>2 DEF Serve, LeaseOpened, station, TypeOK
  <2>4. OneCall'
    <3>1. \A c \in Backends : backend'[c].from \in Executors => worker'[backend'[c].from] = Waits(backend'[c].op)
      BY <2>3 DEF Ready, OneCall
    <3>2. \A c \in Backends, q \in requests' : q.from \in Executors => backend'[c].from # q.from
      BY <2>3 DEF Ready, OneCall
    <3>3. \A c, d \in Backends : backend'[c].from = backend'[d].from /\ backend'[c].from \in Executors => c = d
      BY <2>3 DEF Ready, OneCall
    <3> QED  BY <2>3, <3>1, <3>2, <3>3 DEF Ready, OneCall
  <2>5. OneOwner'
    <3>1. CASE h.answer # "job"
      <4>1. \A e \in Executors : Owner(e)' => Owner(e)
        BY <2>3, <3>1 DEF Owner
      <4> QED  BY <4>1, OwnerFrame DEF Ready
    <3>2. CASE h.answer = "job"
      <4>1. job.status = "pending" /\ Target \in {NoExec, r.exec} /\ r.op = "claim"
        BY <2>2, <3>2 DEF LeaseOpened, LeaseHandler
      <4>2. \A e \in Executors : worker[e] \notin Holding
        BY <4>1 DEF LeaseInv, Early, Unclaimed, Holding
      <4>3. r.from \in {NoExec, r.exec}
        BY <4>1 DEF Ready, OwnClaims
      <4>4. \A e \in Executors : Owner(e)' => Owner(e) \/ e = h.from
        BY <2>3, <4>2 DEF Owner
      <4>5. CASE Target # NoExec
        <5>1. \A e \in Executors : Owner(e)' => e = Target
          BY <1>t, <2>3, <4>1, <4>3, <4>4, <4>5 DEF Ready, OneOwner
        <5> QED  BY <5>1, <4>5 DEF OneOwner
      <4>6. CASE Target = NoExec
        <5>1. \A e \in Executors : Owner(e)' => e = h.from
          BY <2>3, <4>2, <4>6 DEF Owner, Exclusive
        <5> QED  BY <5>1, <4>6 DEF OneOwner
      <4> QED  BY <4>5, <4>6
    <3> QED  BY <3>1, <3>2
  <2> QED  BY <2>3, <2>4, <2>5 DEF Ready, OwnClaims
<1>2. CASE \/ IssueChallenge(b) \/ AuthorizeFinal(b) \/ WriteFence(b) \/ PublishDecision(b)
           \/ ConsumeChallenge(b) \/ PublishResult(b)
  <2>1. PICK x \in Handler :
           Continue(b, x) /\ x.op = backend[b].op /\ x.from = backend[b].from /\ x.answer # "job"
    BY <1>t, <1>2, ContinueLease
  <2>2. /\ UNCHANGED <<requests, worker, outbox, runs>>
        /\ \A c \in Backends : backend'[c] = IF c = b THEN x ELSE backend[c]
    BY <1>t, <2>1 DEF Continue, station, TypeOK
  <2>3. \A c \in Backends : backend'[c].op = backend[c].op /\ backend'[c].from = backend[c].from
    BY <2>1, <2>2
  <2>4. \A e \in Executors : Owner(e)' => Owner(e)
    BY <2>1, <2>2 DEF Owner
  <2>5. OneOwner'
    BY <2>4, OwnerFrame DEF Ready
  <2> QED  BY <2>2, <2>3, <2>5 DEF Ready, OneCall, OwnClaims
<1>3. CASE SaveJob(b) \/ Reply(b)
  <2> DEFINE h == backend[b]
  <2>1. Finish(b) /\ UNCHANGED <<requests, runs>>
    BY <1>3 DEF SaveJob, Reply
  <2>2. /\ \A c \in Backends : backend'[c] = IF c = b THEN Idle ELSE backend[c]
        /\ Idle.from = NoExec /\ Idle.op = "none" /\ Idle.answer = "none"
        /\ \A d \in Executors : \/ worker'[d] = worker[d]
                                \/ d = h.from /\ worker'[d] = Received(h.op, h.answer)
    BY <1>t, <2>1, FinishFacts
  <2>3. h.from \in Executors => worker[h.from] = Waits(h.op)
    BY DEF Ready, OneCall
  <2>4. outbox' = outbox
    <3>1. h.from \in Executors => h.op # "complete"
      BY <1>t, <2>3 DEF Waits, TypeOK, WorkerSteps
    <3> QED  BY <2>1, <3>1 DEF Finish
  <2>5. /\ \A d \in Executors : d # h.from => worker'[d] = worker[d]
        /\ \A r \in requests : r.from \in Executors => r.from # h.from
        /\ \A c \in Backends : c # b /\ backend[c].from \in Executors => backend[c].from # h.from
    BY <2>2 DEF Ready, OneCall
  <2>6. \A d \in Executors : worker'[d] \notin Ran
    BY <2>2 DEF Ready, OneCall, Received, Ran
  <2>7. OneCall'
    <3>1. \A r \in requests' : r.from \in Executors => worker'[r.from] = Waits(r.op)
      BY <2>1, <2>5 DEF Ready, OneCall
    <3>2. \A c \in Backends : backend'[c].from \in Executors => c # b /\ backend'[c] = backend[c]
      BY <1>t, <2>2
    <3>3. \A c \in Backends : backend'[c].from \in Executors => worker'[backend'[c].from] = Waits(backend'[c].op)
      BY <2>5, <3>2 DEF Ready, OneCall
    <3>4. \A c \in Backends, r \in requests' : r.from \in Executors => backend'[c].from # r.from
      BY <2>1, <3>2 DEF Ready, OneCall
    <3>5. \A c, d \in Backends : backend'[c].from = backend'[d].from /\ backend'[c].from \in Executors => c = d
      BY <3>2 DEF Ready, OneCall
    <3> QED  BY <2>1, <2>4, <2>6, <3>1, <3>3, <3>4, <3>5 DEF Ready, OneCall
  <2>8. \A e \in Executors : Owner(e)' => Owner(e)
    <3> SUFFICES ASSUME NEW e \in Executors, Owner(e)' PROVE Owner(e)
      OBVIOUS
    <3>1. CASE worker'[e] \in Holding /\ worker'[e] # worker[e]
      <4>1. e = h.from /\ (h.answer = "job" \/ h.op \in {"preflight", "final"})
        BY <2>2, <3>1, ReceivedHolding
      <4> QED  BY <2>3, <4>1 DEF Owner, Waits, Holding
    <3>2. CASE ~(worker'[e] \in Holding /\ worker'[e] # worker[e])
      BY <2>2, <3>2 DEF Owner
    <3> QED  BY <3>1, <3>2
  <2>9. OneOwner'
    BY <2>8, OwnerFrame DEF Ready
  <2> QED  BY <2>1, <2>7, <2>9 DEF Ready, OwnClaims
<1>4. CASE Restart(b)
  <2>1. /\ UNCHANGED <<requests, worker, outbox, runs>>
        /\ \A c \in Backends : backend'[c] = IF c = b THEN Idle ELSE backend[c]
    BY <1>t, <1>4 DEF Restart, station, TypeOK
  <2>2. \A c \in Backends : backend'[c].from \in Executors => c # b /\ backend'[c] = backend[c]
    BY <1>t, <2>1 DEF Idle
  <2>3. \A e \in Executors : Owner(e)' => Owner(e)
    BY <2>1, <2>2 DEF Owner
  <2>4. OneOwner'
    BY <2>3, OwnerFrame DEF Ready
  <2>5. OneCall'
    BY <2>1, <2>2 DEF Ready, OneCall
  <2> QED  BY <2>1, <2>4, <2>5 DEF Ready, OwnClaims
<1> QED  BY <1>1, <1>2, <1>3, <1>4 DEF WriteStep

\* Once it has run, a backend's step gives nobody the job and nobody leave.
LEMMA BackendSpent ==
    ASSUME Inv, LeaseInv, Spent, NEW b \in Backends,
           HandleRequest(b) \/ WriteStep(b) \/ Restart(b)
    PROVE  Spent'
<1>t. TypeOK /\ NoExec \notin Executors
  BY ConstantsAssumption DEF Inv
<1>1. CASE HandleRequest(b)
  <2>1. PICK r \in requests : ClaimNext(b, r) \/ Authorize(b, r) \/ Report(b, r)
    BY <1>1 DEF HandleRequest
  <2>2. PICK h : Serve(b, r, h) /\ LeaseOpened(b, r, h)
    BY <1>t, <2>1, ServedLease
  <2>3. /\ requests' = requests \ {r} /\ h.op = r.op /\ h.from = r.from
        /\ UNCHANGED <<worker, runs>>
        /\ \A c \in Backends : backend'[c] = IF c = b THEN h ELSE backend[c]
    BY <1>t, <2>2 DEF Serve, LeaseOpened, station, TypeOK
  <2>4. h.answer # "job"
    BY <2>2 DEF LeaseOpened, LeaseInv, Early, Unclaimed, Spent
  <2>5. \A e \in Executors : ~Owner(e)'
    BY <2>3, <2>4 DEF Owner, Spent
  <2> QED  BY <2>3, <2>5 DEF Spent
<1>2. CASE \/ IssueChallenge(b) \/ AuthorizeFinal(b) \/ WriteFence(b) \/ PublishDecision(b)
           \/ ConsumeChallenge(b) \/ PublishResult(b)
  <2>1. PICK x \in Handler :
           Continue(b, x) /\ x.op = backend[b].op /\ x.from = backend[b].from /\ x.answer # "job"
    BY <1>t, <1>2, ContinueLease
  <2>2. /\ UNCHANGED <<requests, worker, runs>>
        /\ \A c \in Backends : backend'[c] = IF c = b THEN x ELSE backend[c]
    BY <1>t, <2>1 DEF Continue, station, TypeOK
  <2>3. \A e \in Executors : ~Owner(e)'
    BY <2>1, <2>2 DEF Owner, Spent
  <2> QED  BY <2>1, <2>2, <2>3 DEF Spent
<1>3. CASE SaveJob(b) \/ Reply(b)
  <2> DEFINE h == backend[b]
  <2>1. Finish(b) /\ UNCHANGED <<requests, runs>>
    BY <1>3 DEF SaveJob, Reply
  <2>2. /\ \A c \in Backends : backend'[c] = IF c = b THEN Idle ELSE backend[c]
        /\ Idle.from = NoExec /\ Idle.op = "none" /\ Idle.answer = "none"
        /\ \A d \in Executors : \/ worker'[d] = worker[d]
                                \/ d = h.from /\ worker'[d] = Received(h.op, h.answer)
    BY <1>t, <2>1, FinishFacts
  <2>3. \A d \in Executors : worker'[d] \notin Holding
    BY <2>2, ReceivedHolding DEF Spent, Owner
  <2>4. \A e \in Executors : ~Owner(e)'
    BY <2>2, <2>3 DEF Owner, Spent
  <2> QED  BY <2>1, <2>2, <2>4 DEF Spent
<1>4. CASE Restart(b)
  <2>1. /\ UNCHANGED <<requests, worker, runs>>
        /\ \A c \in Backends : backend'[c] = IF c = b THEN Idle ELSE backend[c]
        /\ Idle.op = "none" /\ Idle.answer = "none"
    BY <1>t, <1>4 DEF Restart, station, TypeOK, Idle
  <2>2. \A e \in Executors : ~Owner(e)'
    BY <2>1 DEF Owner, Spent
  <2> QED  BY <2>1, <2>2 DEF Spent
<1> QED  BY <1>1, <1>2, <1>3, <1>4 DEF WriteStep

\* A step of the workstation makes nobody an owner: only a worker that holds
\* the job goes on holding it, and no answer is redirected.
LEMMA WorkerOwners ==
    ASSUME TypeOK, NEW e \in Executors, WorkerStep(e) \/ GiveUp(e) \/ FinalOverruns(e) \/ Die(e)
    PROVE  \A d \in Executors : Owner(d)' => Owner(d)
<1>n. NoExec \notin Executors
  BY ConstantsAssumption
<1>1. \A c \in Backends : backend'[c].answer = backend[c].answer /\ backend'[c].from \in {backend[c].from, NoExec}
  BY WorkerFrame, DetachedSame
<1>2. PICK step : Move(e, step) /\ (step \in Holding => worker[e] \in Holding)
  BY DEF WorkerStep, PollClaim, FlushOutbox, RefuseLocally, SendPreflight, QueueLegacy,
         SendFinal, StartNative, NativeReturns, ReportRefusal, ReportBusy, NativeThrows,
         NativeOverruns, OrphanReturns, SaveAndPost, OutboxSaveFails, GiveUp, FinalOverruns, Die,
         Send, Holding
<1>3. \A d \in Executors : worker'[d] = IF d = e THEN step ELSE worker[d]
  BY <1>2 DEF Move, TypeOK
<1> QED  BY <1>n, <1>1, <1>2, <1>3 DEF Owner

\* Before the job runs, a worker's step keeps one owner or starts the run.
LEMMA WorkerReady ==
    ASSUME Inv, LeaseInv, Ready, NEW e \in Executors,
           WorkerStep(e) \/ GiveUp(e) \/ FinalOverruns(e) \/ Die(e)
    PROVE  Ready' \/ Spent'
<1>t. TypeOK /\ NoExec \notin Executors /\ OneCall /\ OneOwner /\ OwnClaims
  BY ConstantsAssumption DEF Inv, Ready
<1>w. worker[e] \in WorkerSteps /\ worker[e] \notin Ran /\ outbox.state # "pending"
  BY <1>t DEF TypeOK, OneCall
<1>o. OneOwner'
  BY <1>t, WorkerOwners, OwnerFrame
<1>b. \A c \in Backends : /\ backend'[c].op = backend[c].op
                          /\ backend'[c].from \in {backend[c].from, NoExec}
  BY <1>t, WorkerFrame, DetachedSame
<1>a. ASSUME NEW op \in {"claim", "preflight", "final", "fail"}, NEW report, Send(e, Waits(op), op, e, report),
             worker[e] \notin {"claiming", "preflight", "final", "reporting"},
             UNCHANGED <<backend, outbox, runs>>
      PROVE  Ready'
  <2>1. /\ \A r \in requests : r.from # e
        /\ \A b \in Backends : backend[b].from # e
    BY <1>a, <1>t, <1>w, NoCall
  <2> DEFINE q == Ask(op, e, e, report)
  <2>2. q.from = e /\ q.op = op /\ q.exec = e
    BY DEF Ask
  <2>3. requests' = requests \cup {q} /\ Move(e, Waits(op))
    BY <1>a DEF Send
  <2>4. Waits(op) \notin Ran
    BY DEF Waits, Ran
  <2> HIDE DEF q
  <2>5. OneCall'
    BY <1>a, <1>b, <1>t, <1>w, <2>1, <2>2, <2>3, <2>4, CallFrame
  <2>6. OwnClaims'
    BY <1>t, <2>2, <2>3 DEF OwnClaims
  <2> QED  BY <1>a, <1>o, <2>5, <2>6 DEF Ready
<1>m. ASSUME NEW step, step \notin Ran, Move(e, step),
             worker[e] \notin {"claiming", "preflight", "final", "reporting"},
             UNCHANGED <<requests, backend, outbox, runs>>
      PROVE  Ready'
  <2>1. /\ \A r \in requests : r.from # e
        /\ \A b \in Backends : backend[b].from # e
    BY <1>m, <1>t, <1>w, NoCall
  <2>2. OneCall'
    BY <1>b, <1>m, <1>t, <1>w, <2>1, CallFrame
  <2> QED  BY <1>m, <1>o, <1>t, <2>2 DEF Ready, OwnClaims
<1>d. \A c \in Backends : backend' = Detached(e) => backend'[c].from # e
  BY <1>t DEF Detached, TypeOK, Handler
<1>u. \A r \in Unheard(e) : /\ r.from # e
                            /\ r.from \in Executors => r \in requests
                            /\ r.op = "claim" => r.from \in {NoExec, r.exec}
  BY <1>t, UnheardSame DEF OwnClaims
<1>1. CASE PollClaim(e)
  <2>1. Waits("claim") = "claiming"
    BY DEF Waits
  <2> QED  BY <1>1, <1>a, <2>1 DEF PollClaim
<1>2. CASE SendPreflight(e)
  <2>1. Waits("preflight") = "preflight"
    BY DEF Waits
  <2> QED  BY <1>2, <1>a, <2>1 DEF SendPreflight
<1>3. CASE SendFinal(e)
  <2>1. Waits("final") = "final"
    BY DEF Waits
  <2> QED  BY <1>3, <1>a, <2>1 DEF SendFinal
<1>4. CASE ReportRefusal(e) \/ ReportBusy(e)
  <2>1. Waits("fail") = "reporting"
    BY DEF Waits
  <2> QED  BY <1>4, <1>a, <2>1 DEF ReportRefusal, ReportBusy
<1>5. CASE RefuseLocally(e) \/ QueueLegacy(e)
  <2>1. "refused" \notin Ran /\ "queued" \notin Ran
    BY DEF Ran
  <2> QED  BY <1>5, <1>m, <2>1 DEF RefuseLocally, QueueLegacy
<1>6. CASE GiveUp(e) \/ Die(e)
  <2>1. PICK step \in {"refused", "idle", "dead"} : Move(e, step)
    BY <1>6 DEF GiveUp, Die
  <2>2. requests' = Unheard(e) /\ backend' = Detached(e) /\ UNCHANGED <<outbox, runs>>
    BY <1>6 DEF GiveUp, Die
  <2>3. step \notin Ran
    BY <2>1 DEF Ran
  <2>4. OneCall'
    BY <1>b, <1>d, <1>t, <1>u, <1>w, <2>1, <2>2, <2>3, CallFrame
  <2>5. OwnClaims'
    BY <1>u, <2>2 DEF OwnClaims
  <2> QED  BY <1>o, <2>2, <2>4, <2>5 DEF Ready
<1>7. CASE FinalOverruns(e)
  <2> DEFINE q == Ask("fail", e, e, "unknown")
  <2>1. /\ requests' = Unheard(e) \cup {q} /\ backend' = Detached(e) /\ Move(e, "reporting")
        /\ UNCHANGED <<outbox, runs>>
    BY <1>7 DEF FinalOverruns
  <2>2. q.from = e /\ q.op = "fail" /\ Waits(q.op) = "reporting" /\ "reporting" \notin Ran
    BY DEF Ask, Waits, Ran
  <2> HIDE DEF q
  <2>3. OneCall'
    BY <1>b, <1>d, <1>t, <1>u, <1>w, <2>1, <2>2, CallFrame
  <2>4. OwnClaims'
    BY <1>u, <2>1, <2>2 DEF OwnClaims
  <2> QED  BY <1>o, <2>1, <2>3, <2>4 DEF Ready
<1>8. CASE StartNative(e)
  <2>1. /\ Move(e, "running") /\ runs' = 1 /\ UNCHANGED <<requests, backend>>
        /\ worker[e] \in {"queued", "granted"}
    BY <1>8 DEF StartNative, Ready
  <2>2. /\ \A r \in requests : r.from # e
        /\ \A b \in Backends : backend[b].from # e
    BY <1>t, <1>w, <2>1, NoCall
  <2>3. \A d \in Executors : Owner(d) => d = e
    BY <1>t, <2>1 DEF Owner, Holding, OneOwner
  <2>4. \A d \in Executors : d # e => worker[d] \notin Holding
    BY <2>3 DEF Owner
  <2>5. \A d \in Executors : worker'[d] = IF d = e THEN "running" ELSE worker[d]
    BY <1>t, <2>1 DEF Move, TypeOK
  <2>6. \A d \in Executors : ~Owner(d)'
    BY <2>1, <2>2, <2>3, <2>5 DEF Owner, Holding
  <2>7. \A r \in requests : r.op \in {"preflight", "final"} => r.from \notin Executors
    BY <1>t, <2>2, <2>4 DEF OneCall, Waits, Holding
  <2>8. \A b \in Backends : backend[b].op \in {"preflight", "final"} => backend[b].from \notin Executors
    BY <1>t, <2>2, <2>4 DEF OneCall, Waits, Holding
  <2> QED  BY <2>1, <2>6, <2>7, <2>8 DEF Spent
<1>9. ~FlushOutbox(e) /\ ~NativeReturns(e) /\ ~NativeThrows(e) /\ ~NativeOverruns(e)
      /\ ~OrphanReturns(e) /\ ~SaveAndPost(e) /\ ~OutboxSaveFails(e)
  BY <1>w DEF FlushOutbox, NativeReturns, NativeThrows, NativeOverruns, OrphanReturns,
              SaveAndPost, OutboxSaveFails, Ran
<1> QED  BY <1>1, <1>2, <1>3, <1>4, <1>5, <1>6, <1>7, <1>8, <1>9 DEF WorkerStep

\* After the run, no worker starts another one or asks for leave to.
LEMMA WorkerSpent ==
    ASSUME Inv, Spent, NEW e \in Executors,
           WorkerStep(e) \/ GiveUp(e) \/ FinalOverruns(e) \/ Die(e)
    PROVE  Spent'
<1>t. TypeOK /\ NoExec \notin Executors
  BY ConstantsAssumption DEF Inv
<1>w. worker[e] \notin Holding
  BY DEF Spent, Owner
<1>o. \A d \in Executors : ~Owner(d)'
  BY <1>t, WorkerOwners DEF Spent
<1>b. \A c \in Backends : backend'[c].op \in {"preflight", "final"} => backend'[c].from \notin Executors
  BY <1>t, WorkerFrame, DetachedSame DEF Spent
<1>u. \A r \in Unheard(e) : r.op \in {"preflight", "final"} => r.from \notin Executors
  BY <1>t, UnheardSame DEF Spent
<1>1. CASE GiveUp(e) \/ FinalOverruns(e) \/ Die(e)
  <2>1. UNCHANGED runs /\ (requests' = Unheard(e) \/ requests' = Unheard(e) \cup {Ask("fail", e, e, "unknown")})
    BY <1>1 DEF GiveUp, FinalOverruns, Die
  <2> QED  BY <1>b, <1>o, <1>u, <2>1 DEF Spent, Ask
<1>2. CASE WorkerStep(e)
  <2>1. UNCHANGED runs
    BY <1>2, <1>w
    DEF WorkerStep, PollClaim, FlushOutbox, RefuseLocally, SendPreflight, QueueLegacy,
        SendFinal, StartNative, NativeReturns, ReportRefusal, ReportBusy, NativeThrows,
        NativeOverruns, OrphanReturns, SaveAndPost, OutboxSaveFails, Holding
  <2>2. \/ UNCHANGED requests
        \/ \E op \in {"claim", "complete", "fail"} : \E exec, report :
              requests' = requests \cup {Ask(op, exec, e, report)}
    BY <1>2, <1>w
    DEF WorkerStep, PollClaim, FlushOutbox, RefuseLocally, SendPreflight, QueueLegacy,
        SendFinal, StartNative, NativeReturns, ReportRefusal, ReportBusy, NativeThrows,
        NativeOverruns, OrphanReturns, SaveAndPost, OutboxSaveFails, Holding, Send
  <2> QED  BY <1>b, <1>o, <2>1, <2>2 DEF Spent, Ask
<1> QED  BY <1>1, <1>2

\* Every step keeps the job unrun with one owner, or run and spent.
LEMMA OnceStep == OnceInv /\ [Next]_vars => OnceInv'
<1> SUFFICES ASSUME OnceInv, [Next]_vars PROVE OnceInv'
  OBVIOUS
<1>i. Inv /\ LeaseInv /\ Exclusive /\ (Ready \/ Spent)
  BY DEF OnceInv
<1>e. Exclusive'
  BY <1>i DEF Exclusive
<1>0. ASSUME UNCHANGED <<backend, requests, worker, outbox, runs>> PROVE Ready' \/ Spent'
  BY <1>0, <1>i DEF Ready, Spent, OneCall, OneOwner, OwnClaims, Owner
<1>1. CASE Next
  <2>1. ASSUME NEW b \in Backends, HandleRequest(b) \/ WriteStep(b) \/ Restart(b) PROVE Ready' \/ Spent'
    BY <1>i, <2>1, BackendReady, BackendSpent
  <2>2. ASSUME NEW e \in Executors, WorkerStep(e) \/ GiveUp(e) \/ FinalOverruns(e) \/ Die(e)
        PROVE  Ready' \/ Spent'
    BY <1>i, <2>2, WorkerReady, WorkerSpent
  <2>3. ASSUME ProducerStep \/ ProducerCrash \/ Tick \/ LeaseEnds PROVE Ready' \/ Spent'
    BY <1>0, <2>3 DEF ProducerStep, Publish, PollResult, TimeoutReadJob, TimeoutReadResult,
       TimeoutWriteJob, TimeoutWriteResult, ProducerCrash, Tick, LeaseEnds, station
  <2>4. Ready' \/ Spent'
    BY <1>1, <2>1, <2>2, <2>3 DEF Next
  <2> QED  BY <1>1, <1>e, <1>i, <2>4, InvStep, LeaseStep DEF OnceInv
<1>2. CASE UNCHANGED vars
  <2>1. Ready' \/ Spent'
    BY <1>0, <1>2 DEF vars
  <2>2. Inv' /\ LeaseInv'
    BY <1>2, <1>i, InvStep DEF vars, LeaseInv, LeaseHandler, Early, Unclaimed, Family
  <2> QED  BY <1>e, <2>1, <2>2 DEF OnceInv
<1> QED  BY <1>1, <1>2


\* A v2 job that names no executor: no worker may ask to start it (the preflight
\* is for the target), so it is refused and reported.
Unaimed ==
    /\ kind = "v2" /\ Target = NoExec /\ runs = 0
    /\ outbox.state # "pending"
    /\ \A e \in Executors : worker[e] \in {"idle", "claiming", "claimed", "refused", "reporting", "dead"}
    /\ \A r \in requests : r.op \in {"claim", "fail"}
    /\ \A b \in Backends : backend[b].op \in {"none", "claim", "fail"}

\* It stays so.
LEMMA UnaimedStep == Inv /\ LeaseInv /\ Unaimed /\ Next => Unaimed'
<1> SUFFICES ASSUME Inv, LeaseInv, Unaimed, Next PROVE Unaimed'
  OBVIOUS
<1>t. TypeOK /\ FamilyInv /\ NoExec \notin Executors
  BY ConstantsAssumption DEF Inv
<1>k. UNCHANGED kind
  BY <1>t, KindStable
<1>1. ASSUME NEW b \in Backends, HandleRequest(b) PROVE Unaimed'
  <2>1. PICK r \in requests : ClaimNext(b, r) \/ Authorize(b, r) \/ Report(b, r)
    BY <1>1 DEF HandleRequest
  <2>2. PICK h : Serve(b, r, h) /\ LeaseOpened(b, r, h)
    BY <1>t, <2>1, ServedLease
  <2>3. /\ requests' \subseteq requests /\ h.op = r.op /\ UNCHANGED <<worker, outbox, runs>>
        /\ \A c \in Backends : backend'[c] = IF c = b THEN h ELSE backend[c]
    BY <1>t, <2>2 DEF Serve, LeaseOpened, station, TypeOK
  <2> QED  BY <1>k, <2>3 DEF Unaimed
<1>2. ASSUME NEW b \in Backends, WriteStep(b) PROVE Unaimed'
  <2>1. CASE SaveJob(b) \/ Reply(b)
    <3>1. Finish(b) /\ UNCHANGED <<requests, runs>>
      BY <2>1 DEF SaveJob, Reply
    <3>2. \A d \in Executors : worker'[d] \in {worker[d], "idle", "claimed"}
      BY <1>t, <3>1, FinishFacts DEF Unaimed, Received
    <3>3. \A c \in Backends : backend'[c].op \in {"none", "claim", "fail"}
      BY <1>t, <3>1, FinishFacts DEF Unaimed
    <3>4. outbox' = outbox
      BY <3>1 DEF Finish, Unaimed
    <3> QED  BY <1>k, <3>1, <3>2, <3>3, <3>4 DEF Unaimed
  <2>2. CASE ~(SaveJob(b) \/ Reply(b))
    <3>1. PICK x \in Handler : Continue(b, x) /\ x.op = backend[b].op
      BY <1>t, <1>2, <2>2, ContinueLease DEF WriteStep
    <3>2. /\ UNCHANGED <<requests, worker, outbox, runs>>
          /\ \A c \in Backends : backend'[c] = IF c = b THEN x ELSE backend[c]
      BY <1>t, <3>1 DEF Continue, station, TypeOK
    <3> QED  BY <1>k, <3>1, <3>2 DEF Unaimed
  <2> QED  BY <2>1, <2>2
<1>3. ASSUME NEW b \in Backends, Restart(b) PROVE Unaimed'
  <2>1. /\ UNCHANGED <<requests, worker, outbox, runs>>
        /\ \A c \in Backends : backend'[c] = IF c = b THEN Idle ELSE backend[c]
        /\ Idle.op = "none"
    BY <1>t, <1>3 DEF Restart, station, TypeOK, Idle
  <2> QED  BY <1>k, <2>1 DEF Unaimed
<1>4. ASSUME NEW e \in Executors, WorkerStep(e) \/ GiveUp(e) \/ FinalOverruns(e) \/ Die(e)
      PROVE  Unaimed'
  <2>w. /\ worker[e] \in {"idle", "claiming", "claimed", "refused", "reporting", "dead"}
        /\ outbox.state # "pending" /\ ~V1 /\ Target # e
    BY <1>t DEF Unaimed, V1, V1Kinds
  <2>m. \A step : Move(e, step) => \A d \in Executors : worker'[d] = IF d = e THEN step ELSE worker[d]
    BY <1>t DEF Move, TypeOK
  <2>b. \A c \in Backends : backend'[c].op = backend[c].op
    BY <1>4, <1>t, WorkerFrame, DetachedSame
  <2>1. CASE PollClaim(e) \/ ReportRefusal(e)
    <3>1. PICK op \in {"claim", "fail"}, step \in {"claiming", "reporting"}, report \in {"none", "known"} :
             Send(e, step, op, e, report) /\ UNCHANGED <<outbox, runs>>
      BY <2>1 DEF PollClaim, ReportRefusal
    <3> QED  BY <1>k, <2>b, <2>m, <3>1 DEF Unaimed, Send, Ask
  <2>2. CASE RefuseLocally(e)
    BY <1>k, <2>b, <2>m, <2>2 DEF Unaimed, RefuseLocally
  <2>3. CASE GiveUp(e) \/ Die(e)
    <3>1. /\ requests' = Unheard(e) /\ (Move(e, "idle") \/ Move(e, "dead"))
          /\ UNCHANGED <<outbox, runs>>
      BY <2>3, <2>w DEF GiveUp, Die
    <3>2. \A r \in Unheard(e) : r.op \in {"claim", "fail"}
      BY <1>t, UnheardSame DEF Unaimed
    <3> QED  BY <1>k, <2>b, <2>m, <3>1, <3>2 DEF Unaimed
  <2>4. CASE ~PollClaim(e) /\ ~ReportRefusal(e) /\ ~RefuseLocally(e) /\ ~GiveUp(e) /\ ~Die(e)
    BY <1>4, <2>w, <2>4
    DEF WorkerStep, FlushOutbox, SendPreflight, QueueLegacy, SendFinal, StartNative,
        NativeReturns, ReportBusy, NativeThrows, NativeOverruns, OrphanReturns,
        SaveAndPost, OutboxSaveFails, FinalOverruns
  <2> QED  BY <2>1, <2>2, <2>3, <2>4
<1>5. ASSUME ProducerStep \/ ProducerCrash \/ Tick \/ LeaseEnds PROVE Unaimed'
  <2>1. UNCHANGED <<backend, requests, worker, outbox, runs>>
    BY <1>5 DEF ProducerStep, Publish, PollResult, TimeoutReadJob, TimeoutReadResult,
       TimeoutWriteJob, TimeoutWriteResult, ProducerCrash, Tick, LeaseEnds, station
  <2> QED  BY <1>k, <2>1 DEF Unaimed
<1> QED  BY <1>1, <1>2, <1>3, <1>4, <1>5 DEF Next

\* One job starts the native handler at most once, with any number of
\* executors, restarts, lost answers and late requests: every certified job
\* (the challenge of a family, the target of a v2 job), and every v1 job that
\* one backend serves or that names its executor (claimNextRevitToolJob leases
\* a pending job only, and a worker has one call out).
THEOREM AtMostOnceHolds ==
    Spec /\ (Certified \/ (\A b, c \in Backends : b = c) \/ Target # NoExec) => []AtMostOnce
<1> DEFINE UnaimedInv == Inv /\ LeaseInv /\ Unaimed
<1>n. NoExec \notin Executors
  BY ConstantsAssumption
<1>i. Init => Inv /\ LeaseInv
  BY TypeInit, FamilyInit, LeaseInit DEF Inv
<1>w. Init => /\ \A e \in Executors : worker[e] = "idle"
              /\ \A b \in Backends : backend[b].from = NoExec /\ backend[b].op = "none" /\ backend[b].answer = "none"
              /\ requests = {} /\ runs = 0 /\ outbox.state # "pending"
  BY DEF Init, Idle, NoOutbox
<1>1. Init /\ Exclusive => OnceInv
  <2> SUFFICES ASSUME Init, Exclusive PROVE OnceInv
    OBVIOUS
  <2>1. \A e \in Executors : ~Owner(e)
    BY <1>w DEF Owner, Holding
  <2>2. OneCall
    BY <1>n, <1>w DEF OneCall, Ran
  <2> QED  BY <1>i, <1>w, <2>1, <2>2 DEF OnceInv, Ready, OneOwner, OwnClaims
<1>2. Init /\ kind = "v2" /\ Target = NoExec => UnaimedInv
  BY <1>i, <1>w DEF Unaimed
<1>3. UnaimedInv /\ [Next]_vars => UnaimedInv'
  <2>1. CASE UNCHANGED vars
    <3> SUFFICES ASSUME UnaimedInv PROVE UnaimedInv'
      BY <2>1
    <3>1. Inv'
      BY <2>1, InvStep
    <3> QED  BY <2>1, <3>1 DEF vars, LeaseInv, LeaseHandler, Early, Unclaimed, Family, Unaimed
  <2>2. CASE Next
    BY <2>2, InvStep, LeaseStep, UnaimedStep
  <2> QED  BY <2>1, <2>2
<1>4. OnceInv => AtMostOnce
  BY DEF OnceInv, Ready, Spent, AtMostOnce
<1>5. UnaimedInv => AtMostOnce
  BY DEF Unaimed, AtMostOnce
<1>6. Certified \/ (\A b, c \in Backends : b = c) \/ Target # NoExec
      => Exclusive \/ Family \/ (kind = "v2" /\ Target = NoExec)
  BY DEF Exclusive, Certified, Family
<1> HIDE DEF UnaimedInv
<1> QED  BY <1>1, <1>2, <1>3, <1>4, <1>5, <1>6, OnceStep, FamilyAtMostOnce, PTL DEF Spec
=============================================================================
