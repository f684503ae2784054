----------------------- MODULE RevitEventQueueProofs -----------------------
(***************************************************************************)
(* Proofs about RevitEventService, for any number of concurrent calls: a   *)
(* call that was told that its action never reached Revit is right.        *)
(*                                                                         *)
(* The argument is about where the item of a call is.  It has one place at *)
(* a time: not yet queued, on the queue, in the hands of a Run or a        *)
(* CancelQueuedItem that will put it back, with Execute, or gone.  Execute *)
(* runs it only from its own hands, so whoever took the item for good, or  *)
(* won the compare-and-swap on its ExecutionState, knows that it will not  *)
(* run.  The single-flight slot plays no part: it may be cleared under its *)
(* holder, and several items may be queued.                                *)
(***************************************************************************)
EXTENDS RevitEventQueue, TLAPS

Elems(q) == {q[i] : i \in DOMAIN q}
Distinct(q) == \A i, j \in DOMAIN q : q[i] = q[j] => i = j

Hands == Calls \X {"run", "cancel"}

(* The item of c is neither queued, nor in a hand, nor with Execute. *)
Gone(c) ==
  /\ c \notin Elems(queue)
  /\ revit.item # c
  /\ \A p \in Hands : hand[p] # c

(* An item has one place at a time. *)
PlaceInv ==
  /\ Distinct(queue)
  /\ revit.item # Nobody => revit.item \notin Elems(queue)
  /\ \A p \in Hands : hand[p] # Nobody => hand[p] \notin Elems(queue) /\ hand[p] # revit.item
  /\ \A p, r \in Hands : hand[p] # Nobody /\ hand[p] = hand[r] => p = r

(* Whoever is about to put an item back has one, and Execute works on one. *)
HandInv ==
  /\ revit.pc \in {"took", "running", "release", "settle"} <=> revit.item # Nobody
  /\ \A c \in Calls :
       /\ caller[c] = "requeueing" => hand[<<c, "run">>] # Nobody
       /\ canceller[c] = "requeueing" => hand[<<c, "cancel">>] # Nobody

(* What is known of the item of c. *)
ItemInv(c) ==
  /\ caller[c] \in {"new", "rejected", "admitted"} => Gone(c) /\ c \notin ran
  /\ c \in ran => /\ state[c] = "started"
                  /\ c \notin Elems(queue)
                  /\ \A p \in Hands : hand[p] # c
                  /\ revit.item = c => revit.pc # "took"
  /\ canceller[c] = "completing" => state[c] = "cancelled"
  /\ done[c] = "busy" => caller[c] = "rejected"
  /\ done[c] = "refused" => /\ caller[c] \in {"releasing", "ended"}
                            /\ Gone(c) /\ c \notin ran
  /\ done[c] = "cancelled_before" => state[c] = "cancelled"

QueueInv == TypeOK /\ PlaceInv /\ HandInv /\ \A c \in Calls : ItemInv(c)

-----------------------------------------------------------------------------
(* The queue *)

LEMMA TailFacts ==
  ASSUME NEW q \in Seq(Calls), q # << >>, Distinct(q)
  PROVE  /\ Tail(q) \in Seq(Calls) /\ Head(q) \in Calls
         /\ Distinct(Tail(q))
         /\ Head(q) \in Elems(q)
         /\ Elems(Tail(q)) = Elems(q) \ {Head(q)}
<1>1. /\ Len(q) \in Nat \ {0} /\ DOMAIN q = 1..Len(q)
      /\ Head(q) = q[1] /\ Tail(q) \in Seq(Calls) /\ Len(Tail(q)) = Len(q) - 1
      /\ DOMAIN Tail(q) = 1..(Len(q) - 1)
      /\ \A i \in 1..(Len(q) - 1) : Tail(q)[i] = q[i + 1]
  OBVIOUS
<1>2. Distinct(Tail(q))
  BY <1>1 DEF Distinct
<1>3. ASSUME NEW x PROVE x \in Elems(Tail(q)) <=> x \in Elems(q) /\ x # Head(q)
  <2>1. ASSUME x \in Elems(Tail(q)) PROVE x \in Elems(q) /\ x # Head(q)
    <3>1. PICK i \in 1..(Len(q) - 1) : x = q[i + 1]
      BY <1>1, <2>1 DEF Elems
    <3>2. i + 1 \in DOMAIN q /\ 1 \in DOMAIN q /\ i + 1 # 1
      BY <1>1, <3>1
    <3> QED
      BY <1>1, <3>1, <3>2 DEF Elems, Distinct
  <2>2. ASSUME x \in Elems(q), x # Head(q) PROVE x \in Elems(Tail(q))
    <3>1. PICK i \in DOMAIN q : x = q[i]
      BY <2>2 DEF Elems
    <3>2. i - 1 \in 1..(Len(q) - 1) /\ x = Tail(q)[i - 1]
      BY <1>1, <2>2, <3>1
    <3> QED
      BY <1>1, <3>2 DEF Elems
  <2> QED
    BY <2>1, <2>2
<1>4. Head(q) \in Elems(q) /\ Head(q) \in Calls
  BY <1>1 DEF Elems
<1> QED
  BY <1>1, <1>2, <1>3, <1>4

LEMMA AppendFacts ==
  ASSUME NEW q \in Seq(Calls), NEW c \in Calls, Distinct(q), c \notin Elems(q)
  PROVE  /\ Append(q, c) \in Seq(Calls)
         /\ Distinct(Append(q, c))
         /\ Elems(Append(q, c)) = Elems(q) \cup {c}
<1>1. /\ Len(q) \in Nat /\ DOMAIN q = 1..Len(q)
      /\ Append(q, c) \in Seq(Calls) /\ DOMAIN Append(q, c) = 1..(Len(q) + 1)
      /\ \A i \in 1..Len(q) : Append(q, c)[i] = q[i]
      /\ Append(q, c)[Len(q) + 1] = c
  OBVIOUS
<1>2. \A i \in 1..Len(q) : q[i] \in Elems(q)
  BY <1>1 DEF Elems
<1>3. Distinct(Append(q, c))
  BY <1>1, <1>2 DEF Distinct
<1>4. Elems(Append(q, c)) = Elems(q) \cup {c}
  BY <1>1 DEF Elems
<1> QED
  BY <1>1, <1>3, <1>4

-----------------------------------------------------------------------------
(* The invariant is inductive: one lemma for each step. *)

LEMMA InvInit == Init => QueueInv
<1> SUFFICES ASSUME Init PROVE QueueInv
  OBVIOUS
<1> USE CallsAssumption
<1>1. Elems(queue) = {} /\ Distinct(queue) /\ queue \in Seq(Calls)
  BY DEF Init, Elems, Distinct
<1>2. TypeOK
  BY <1>1 DEF Init, TypeOK, Outcomes
<1>3. PlaceInv /\ HandInv
  BY <1>1 DEF Init, PlaceInv, HandInv, Hands
<1>4. \A c \in Calls : ItemInv(c)
  BY <1>1 DEF Init, ItemInv, Gone, Hands
<1> QED
  BY <1>2, <1>3, <1>4 DEF QueueInv

LEMMA RunRejectedInv == ASSUME QueueInv, NEW c \in Calls, RunRejected(c) PROVE QueueInv'
<1> USE CallsAssumption DEF QueueInv
<1>t. TypeOK'
  BY DEF RunRejected, TypeOK, Outcomes, Complete
<1>p. PlaceInv'
  BY DEF RunRejected, TypeOK, PlaceInv, HandInv, ItemInv, Gone, Hands
<1>h. HandInv'
  BY DEF RunRejected, TypeOK, HandInv, Hands
<1>i. ASSUME NEW d \in Calls PROVE ItemInv(d)'
  BY DEF RunRejected, TypeOK, Outcomes, PlaceInv, HandInv, ItemInv, Gone, Hands, Complete
<1> QED
  BY <1>t, <1>p, <1>h, <1>i

LEMMA RunAdmittedInv == ASSUME QueueInv, NEW c \in Calls, RunAdmitted(c) PROVE QueueInv'
<1> USE CallsAssumption DEF QueueInv
<1>t. TypeOK'
  BY DEF RunAdmitted, TypeOK, Outcomes
<1>p. PlaceInv'
  BY DEF RunAdmitted, TypeOK, PlaceInv, HandInv, ItemInv, Gone, Hands
<1>h. HandInv'
  BY DEF RunAdmitted, TypeOK, HandInv, Hands
<1>i. ASSUME NEW d \in Calls PROVE ItemInv(d)'
  BY DEF RunAdmitted, TypeOK, Outcomes, PlaceInv, HandInv, ItemInv, Gone, Hands
<1> QED
  BY <1>t, <1>p, <1>h, <1>i

LEMMA EnqueueInv == ASSUME QueueInv, NEW c \in Calls, Enqueue(c) PROVE QueueInv'
<1> USE CallsAssumption DEF QueueInv
<1>1. /\ c \in Calls /\ c \notin Elems(queue)
  BY DEF Enqueue, TypeOK, PlaceInv, HandInv, ItemInv, Gone, Hands
<1>2. /\ queue' \in Seq(Calls) /\ Distinct(queue')
      /\ Elems(queue') = Elems(queue) \cup {c}
  BY <1>1, AppendFacts DEF Enqueue, TypeOK, PlaceInv
<1>t. TypeOK'
  BY <1>1, <1>2 DEF Enqueue, TypeOK, Outcomes
<1>p. PlaceInv'
  BY <1>1, <1>2 DEF Enqueue, TypeOK, PlaceInv, HandInv, ItemInv, Gone, Hands
<1>h. HandInv'
  BY <1>1, <1>2 DEF Enqueue, TypeOK, HandInv, Hands
<1>i. ASSUME NEW d \in Calls PROVE ItemInv(d)'
  BY <1>1, <1>2 DEF Enqueue, TypeOK, Outcomes, PlaceInv, HandInv, ItemInv, Gone, Hands
<1> QED
  BY <1>t, <1>p, <1>h, <1>i

LEMMA RaiseInv == ASSUME QueueInv, NEW c \in Calls, Raise(c) PROVE QueueInv'
<1> USE CallsAssumption DEF QueueInv
<1>c0. CASE signalled' = TRUE /\ caller' = [caller EXCEPT ![c] = "watching"]
  <2>t. TypeOK'
    BY <1>c0 DEF Raise, TypeOK, Outcomes, HandInv
  <2>p. PlaceInv'
    BY <1>c0 DEF Raise, TypeOK, PlaceInv, HandInv, ItemInv, Gone
  <2>h. HandInv'
    BY <1>c0 DEF Raise, TypeOK, HandInv
  <2>i. ASSUME NEW d \in Calls PROVE ItemInv(d)'
    BY <1>c0 DEF Raise, TypeOK, Outcomes, PlaceInv, HandInv, ItemInv, Gone
  <2> QED
    BY <2>t, <2>p, <2>h, <2>i
<1>c1. CASE UNCHANGED signalled /\ caller' = [caller EXCEPT ![c] = "failing"]
  <2>t. TypeOK'
    BY <1>c1 DEF Raise, TypeOK, Outcomes, HandInv
  <2>p. PlaceInv'
    BY <1>c1 DEF Raise, TypeOK, PlaceInv, HandInv, ItemInv, Gone
  <2>h. HandInv'
    BY <1>c1 DEF Raise, TypeOK, HandInv
  <2>i. ASSUME NEW d \in Calls PROVE ItemInv(d)'
    BY <1>c1 DEF Raise, TypeOK, Outcomes, PlaceInv, HandInv, ItemInv, Gone
  <2> QED
    BY <2>t, <2>p, <2>h, <2>i
<1> QED
  BY <1>c0, <1>c1 DEF Raise

LEMMA StopWatchingInv == ASSUME QueueInv, NEW c \in Calls, StopWatching(c) PROVE QueueInv'
<1> USE CallsAssumption DEF QueueInv
<1>t. TypeOK'
  BY DEF StopWatching, TypeOK, Outcomes
<1>p. PlaceInv'
  BY DEF StopWatching, TypeOK, PlaceInv, HandInv, ItemInv, Gone, Hands
<1>h. HandInv'
  BY DEF StopWatching, TypeOK, HandInv, Hands
<1>i. ASSUME NEW d \in Calls PROVE ItemInv(d)'
  BY DEF StopWatching, TypeOK, Outcomes, PlaceInv, HandInv, ItemInv, Gone, Hands
<1> QED
  BY <1>t, <1>p, <1>h, <1>i

LEMMA FailQueuedItemInv == ASSUME QueueInv, NEW c \in Calls, FailQueuedItem(c) PROVE QueueInv'
<1> USE CallsAssumption DEF QueueInv
<1> DEFINE p == <<c, "run">>
<1>1. p \in Hands /\ hand \in [Hands -> Calls \cup {Nobody}]
  BY DEF Hands, TypeOK
<1>2. CASE queue = << >>
  <2>1. TypeOK' /\ PlaceInv' /\ HandInv'
    BY <1>2 DEF FailQueuedItem, TypeOK, PlaceInv, HandInv
  <2>2. ASSUME NEW d \in Calls PROVE ItemInv(d)'
    BY <1>2 DEF FailQueuedItem, TypeOK, ItemInv, Gone
  <2> QED
    BY <2>1, <2>2
<1>3. CASE queue # << >>
  <2>1. PICK x \in Calls :
          /\ x = Head(queue) /\ x \in Elems(queue)
          /\ queue' \in Seq(Calls) /\ Distinct(queue') /\ Elems(queue') = Elems(queue) \ {x}
    BY <1>3, TailFacts DEF FailQueuedItem, TypeOK, PlaceInv
  <2>2. UNCHANGED <<inFlight, state, token, canceller, signalled, revit, ran>>
    BY DEF FailQueuedItem
  <2>3. CASE x = c
    <3>1. /\ caller[c] = "failing" /\ caller' = [caller EXCEPT ![c] = "releasing"]
          /\ hand' = hand
          /\ Complete(c, "refused")
      BY <1>3, <2>1, <2>3 DEF FailQueuedItem, Complete
    <3>2. TypeOK' /\ PlaceInv' /\ HandInv'
      BY <2>1, <2>2, <3>1 DEF TypeOK, Outcomes, PlaceInv, HandInv, Complete
    <3>3. ASSUME NEW d \in Calls PROVE ItemInv(d)'
      BY <2>1, <2>2, <2>3, <3>1 DEF TypeOK, PlaceInv, ItemInv, Gone, Complete
    <3> QED
      BY <3>2, <3>3
  <2>4. CASE x # c
    <3>1. /\ caller[c] = "failing" /\ caller' = [caller EXCEPT ![c] = "requeueing"]
          /\ hand' = [hand EXCEPT ![p] = x] /\ done' = done
      BY <1>3, <2>1, <2>4 DEF FailQueuedItem
    <3>2. /\ hand' \in [Hands -> Calls \cup {Nobody}] /\ hand'[p] = x
          /\ \A r \in Hands : r # p => hand'[r] = hand[r]
      BY <1>1, <2>1, <3>1
    <3>3. TypeOK'
      BY <2>1, <2>2, <3>1, <3>2 DEF TypeOK, Hands
    <3>4. PlaceInv'
      BY <1>1, <2>1, <2>2, <3>2 DEF PlaceInv
    <3>5. HandInv'
      <4>1. \A d \in Calls : /\ <<d, "run">> \in Hands /\ <<d, "cancel">> \in Hands
                             /\ d # c => <<d, "run">> # p
                             /\ <<d, "cancel">> # p
        BY DEF Hands
      <4> QED
        BY <2>1, <2>2, <3>1, <3>2, <4>1 DEF HandInv, TypeOK
    <3>6. ASSUME NEW d \in Calls PROVE ItemInv(d)'
      BY <1>1, <2>1, <2>2, <2>4, <3>1, <3>2 DEF TypeOK, PlaceInv, ItemInv, Gone
    <3> QED
      BY <3>3, <3>4, <3>5, <3>6
  <2> QED
    BY <2>3, <2>4
<1> QED
  BY <1>2, <1>3

LEMMA FailRequeueInv == ASSUME QueueInv, NEW c \in Calls, FailRequeue(c) PROVE QueueInv'
<1> USE CallsAssumption DEF QueueInv
<1> DEFINE p == <<c, "run">>
           x == hand[p]
<1>1. p \in Hands /\ hand \in [Hands -> Calls \cup {Nobody}]
  BY DEF Hands, TypeOK
<1>2. x \in Calls /\ x \notin Elems(queue) /\ x # revit.item
  BY <1>1 DEF FailRequeue, PlaceInv, HandInv
<1>3. queue' \in Seq(Calls) /\ Distinct(queue') /\ Elems(queue') = Elems(queue) \cup {x}
  BY <1>2, AppendFacts DEF FailRequeue, TypeOK, PlaceInv
<1>4. /\ hand' \in [Hands -> Calls \cup {Nobody}] /\ hand'[p] = Nobody
      /\ \A r \in Hands : r # p => hand'[r] = hand[r]
  BY <1>1 DEF FailRequeue
<1>5. /\ caller[c] = "requeueing" /\ caller' = [caller EXCEPT ![c] = "ended"]
      /\ UNCHANGED <<inFlight, state, done, token, canceller, signalled, revit, ran>>
  BY DEF FailRequeue
<1>6. TypeOK'
  BY <1>3, <1>4, <1>5 DEF TypeOK, Hands
<1>7. PlaceInv'
  BY <1>1, <1>2, <1>3, <1>4, <1>5 DEF PlaceInv
<1>8. HandInv'
  <2>1. \A d \in Calls : /\ <<d, "run">> \in Hands /\ <<d, "cancel">> \in Hands
                         /\ d # c => <<d, "run">> # p
                         /\ <<d, "cancel">> # p
    BY DEF Hands
  <2> QED
    BY <1>4, <1>5, <2>1 DEF HandInv, TypeOK
<1>9. ASSUME NEW d \in Calls PROVE ItemInv(d)'
  <2>1. x \notin ran /\ done[x] # "refused" /\ caller[x] \notin {"new", "rejected", "admitted"}
    BY <1>1, <1>2 DEF ItemInv, Gone
  <2>2. /\ d # c => caller'[d] = caller[d]
        /\ caller[c] = "requeueing" /\ caller'[c] = "ended"
    BY <1>5 DEF TypeOK
  <2>3. d # x => /\ d \in Elems(queue)' <=> d \in Elems(queue)
                 /\ \A r \in Hands : hand'[r] # d <=> hand[r] # d
    BY <1>1, <1>3, <1>4, CallsAssumption DEF Elems
  <2>4. d # x => (Gone(d)' <=> Gone(d))
    BY <1>5, <2>3 DEF Gone
  <2>5. CASE d = x
    BY <1>5, <2>1, <2>2, <2>5 DEF ItemInv
  <2>6. CASE d # x
    BY <1>5, <2>2, <2>3, <2>4, <2>6 DEF ItemInv
  <2> QED
    BY <2>5, <2>6
<1> QED
  BY <1>6, <1>7, <1>8, <1>9

LEMMA FailReleaseInv == ASSUME QueueInv, NEW c \in Calls, FailRelease(c) PROVE QueueInv'
<1> USE CallsAssumption DEF QueueInv
<1>t. TypeOK'
  BY DEF FailRelease, TypeOK, Outcomes
<1>p. PlaceInv'
  BY DEF FailRelease, TypeOK, PlaceInv, HandInv, ItemInv, Gone, Hands
<1>h. HandInv'
  BY DEF FailRelease, TypeOK, HandInv, Hands
<1>i. ASSUME NEW d \in Calls PROVE ItemInv(d)'
  BY DEF FailRelease, TypeOK, Outcomes, PlaceInv, HandInv, ItemInv, Gone, Hands
<1> QED
  BY <1>t, <1>p, <1>h, <1>i

LEMMA RequestCancelInv == ASSUME QueueInv, NEW c \in Calls, RequestCancel(c) PROVE QueueInv'
<1> USE CallsAssumption DEF QueueInv
<1>t. TypeOK'
  BY DEF RequestCancel, TypeOK, Outcomes
<1>p. PlaceInv'
  BY DEF RequestCancel, TypeOK, PlaceInv, HandInv, ItemInv, Gone, Hands
<1>h. HandInv'
  BY DEF RequestCancel, TypeOK, HandInv, Hands
<1>i. ASSUME NEW d \in Calls PROVE ItemInv(d)'
  BY DEF RequestCancel, TypeOK, Outcomes, PlaceInv, HandInv, ItemInv, Gone, Hands
<1> QED
  BY <1>t, <1>p, <1>h, <1>i

LEMMA CancelBeginsInv == ASSUME QueueInv, NEW c \in Calls, CancelBegins(c) PROVE QueueInv'
<1> USE CallsAssumption DEF QueueInv
<1>c0. CASE state[c] = "pending"
  <2>t. TypeOK'
    <3>1. /\ state' = [state EXCEPT ![c] = "cancelled"] /\ done' = done
          /\ canceller' = [canceller EXCEPT ![c] = "completing"]
          /\ UNCHANGED <<inFlight, queue, token, caller, hand, signalled, revit, ran>>
      BY <1>c0 DEF CancelBegins
    <3> QED
      BY <3>1 DEF TypeOK
  <2>p. PlaceInv'
    BY <1>c0 DEF CancelBegins, TypeOK, PlaceInv, HandInv, ItemInv, Gone
  <2>h. HandInv'
    BY <1>c0 DEF CancelBegins, TypeOK, HandInv
  <2>i. ASSUME NEW d \in Calls PROVE ItemInv(d)'
    BY <1>c0 DEF CancelBegins, TypeOK, Outcomes, PlaceInv, HandInv, ItemInv, Gone, Complete
  <2> QED
    BY <2>t, <2>p, <2>h, <2>i
<1>c1. CASE state[c] # "pending"
  <2>t. TypeOK'
    BY <1>c1 DEF CancelBegins, TypeOK, Outcomes, HandInv, Complete
  <2>p. PlaceInv'
    BY <1>c1 DEF CancelBegins, TypeOK, PlaceInv, HandInv, ItemInv, Gone
  <2>h. HandInv'
    BY <1>c1 DEF CancelBegins, TypeOK, HandInv
  <2>i. ASSUME NEW d \in Calls PROVE ItemInv(d)'
    BY <1>c1 DEF CancelBegins, TypeOK, Outcomes, PlaceInv, HandInv, ItemInv, Gone, Complete
  <2> QED
    BY <2>t, <2>p, <2>h, <2>i
<1> QED
  BY <1>c0, <1>c1 DEF CancelBegins

LEMMA CancelCompletesInv == ASSUME QueueInv, NEW c \in Calls, CancelCompletes(c) PROVE QueueInv'
<1> USE CallsAssumption DEF QueueInv
<1>t. TypeOK'
  BY DEF CancelCompletes, TypeOK, Outcomes, Complete
<1>p. PlaceInv'
  BY DEF CancelCompletes, TypeOK, PlaceInv, HandInv, ItemInv, Gone, Hands
<1>h. HandInv'
  BY DEF CancelCompletes, TypeOK, HandInv, Hands
<1>i. ASSUME NEW d \in Calls PROVE ItemInv(d)'
  BY DEF CancelCompletes, TypeOK, Outcomes, PlaceInv, HandInv, ItemInv, Gone, Hands, Complete
<1> QED
  BY <1>t, <1>p, <1>h, <1>i

LEMMA CancelDequeuesInv == ASSUME QueueInv, NEW c \in Calls, CancelDequeues(c) PROVE QueueInv'
<1> USE CallsAssumption DEF QueueInv
<1> DEFINE p == <<c, "cancel">>
<1>1. p \in Hands /\ hand \in [Hands -> Calls \cup {Nobody}]
  BY DEF Hands, TypeOK
<1>2. CASE queue = << >>
  <2>1. TypeOK' /\ PlaceInv' /\ HandInv'
    BY <1>2 DEF CancelDequeues, TypeOK, PlaceInv, HandInv
  <2>2. ASSUME NEW d \in Calls PROVE ItemInv(d)'
    BY <1>2 DEF CancelDequeues, TypeOK, ItemInv, Gone
  <2> QED
    BY <2>1, <2>2
<1>3. CASE queue # << >>
  <2>1. PICK x \in Calls :
          /\ x = Head(queue) /\ x \in Elems(queue)
          /\ queue' \in Seq(Calls) /\ Distinct(queue') /\ Elems(queue') = Elems(queue) \ {x}
    BY <1>3, TailFacts DEF CancelDequeues, TypeOK, PlaceInv
  <2>2. UNCHANGED <<inFlight, state, done, token, caller, signalled, revit, ran>>
    BY DEF CancelDequeues
  <2>3. CASE x = c
    <3>1. canceller[c] = "dequeueing" /\ canceller' = [canceller EXCEPT ![c] = "releasing"] /\ hand' = hand
      BY <1>3, <2>1, <2>3 DEF CancelDequeues
    <3>2. TypeOK' /\ PlaceInv' /\ HandInv'
      BY <2>1, <2>2, <3>1 DEF TypeOK, Outcomes, PlaceInv, HandInv
    <3>3. ASSUME NEW d \in Calls PROVE ItemInv(d)'
      BY <2>1, <2>2, <2>3, <3>1 DEF TypeOK, PlaceInv, ItemInv, Gone
    <3> QED
      BY <3>2, <3>3
  <2>4. CASE x # c
    <3>1. /\ canceller[c] = "dequeueing" /\ canceller' = [canceller EXCEPT ![c] = "requeueing"]
          /\ hand' = [hand EXCEPT ![p] = x] /\ done' = done
      BY <1>3, <2>1, <2>4 DEF CancelDequeues
    <3>2. /\ hand' \in [Hands -> Calls \cup {Nobody}] /\ hand'[p] = x
          /\ \A r \in Hands : r # p => hand'[r] = hand[r]
      BY <1>1, <2>1, <3>1
    <3>3. TypeOK'
      BY <2>1, <2>2, <3>1, <3>2 DEF TypeOK, Hands
    <3>4. PlaceInv'
      BY <1>1, <2>1, <2>2, <3>2 DEF PlaceInv
    <3>5. HandInv'
      <4>1. \A d \in Calls : /\ <<d, "run">> \in Hands /\ <<d, "cancel">> \in Hands
                             /\ d # c => <<d, "cancel">> # p
                             /\ <<d, "run">> # p
        BY DEF Hands
      <4> QED
        BY <2>1, <2>2, <3>1, <3>2, <4>1 DEF HandInv, TypeOK
    <3>6. ASSUME NEW d \in Calls PROVE ItemInv(d)'
      BY <1>1, <2>1, <2>2, <2>4, <3>1, <3>2 DEF TypeOK, PlaceInv, ItemInv, Gone
    <3> QED
      BY <3>3, <3>4, <3>5, <3>6
  <2> QED
    BY <2>3, <2>4
<1> QED
  BY <1>2, <1>3

LEMMA CancelRequeuesInv == ASSUME QueueInv, NEW c \in Calls, CancelRequeues(c) PROVE QueueInv'
<1> USE CallsAssumption DEF QueueInv
<1> DEFINE p == <<c, "cancel">>
           x == hand[p]
<1>1. p \in Hands /\ hand \in [Hands -> Calls \cup {Nobody}]
  BY DEF Hands, TypeOK
<1>2. x \in Calls /\ x \notin Elems(queue) /\ x # revit.item
  BY <1>1 DEF CancelRequeues, PlaceInv, HandInv
<1>3. queue' \in Seq(Calls) /\ Distinct(queue') /\ Elems(queue') = Elems(queue) \cup {x}
  BY <1>2, AppendFacts DEF CancelRequeues, TypeOK, PlaceInv
<1>4. /\ hand' \in [Hands -> Calls \cup {Nobody}] /\ hand'[p] = Nobody
      /\ \A r \in Hands : r # p => hand'[r] = hand[r]
  BY <1>1 DEF CancelRequeues
<1>5. /\ canceller[c] = "requeueing" /\ canceller' = [canceller EXCEPT ![c] = "ended"]
      /\ UNCHANGED <<inFlight, state, done, token, caller, signalled, revit, ran>>
  BY DEF CancelRequeues
<1>6. TypeOK'
  BY <1>3, <1>4, <1>5 DEF TypeOK, Hands
<1>7. PlaceInv'
  BY <1>1, <1>2, <1>3, <1>4, <1>5 DEF PlaceInv
<1>8. HandInv'
  <2>1. \A d \in Calls : /\ <<d, "run">> \in Hands /\ <<d, "cancel">> \in Hands
                         /\ d # c => <<d, "cancel">> # p
                         /\ <<d, "run">> # p
    BY DEF Hands
  <2> QED
    BY <1>4, <1>5, <2>1 DEF HandInv, TypeOK
<1>9. ASSUME NEW d \in Calls PROVE ItemInv(d)'
  <2>1. x \notin ran /\ done[x] # "refused" /\ caller[x] \notin {"new", "rejected", "admitted"}
    BY <1>1, <1>2 DEF ItemInv, Gone
  <2>2. /\ d # c => canceller'[d] = canceller[d]
        /\ canceller[c] = "requeueing" /\ canceller'[c] = "ended"
    BY <1>5 DEF TypeOK
  <2>3. d # x => /\ d \in Elems(queue)' <=> d \in Elems(queue)
                 /\ \A r \in Hands : hand'[r] # d <=> hand[r] # d
    BY <1>1, <1>3, <1>4, CallsAssumption DEF Elems
  <2>4. d # x => (Gone(d)' <=> Gone(d))
    BY <1>5, <2>3 DEF Gone
  <2>5. CASE d = x
    BY <1>5, <2>1, <2>2, <2>5 DEF ItemInv
  <2>6. CASE d # x
    BY <1>5, <2>2, <2>3, <2>4, <2>6 DEF ItemInv
  <2> QED
    BY <2>5, <2>6
<1> QED
  BY <1>6, <1>7, <1>8, <1>9

LEMMA CancelReleasesInv == ASSUME QueueInv, NEW c \in Calls, CancelReleases(c) PROVE QueueInv'
<1> USE CallsAssumption DEF QueueInv
<1>t. TypeOK'
  BY DEF CancelReleases, TypeOK, Outcomes
<1>p. PlaceInv'
  BY DEF CancelReleases, TypeOK, PlaceInv, HandInv, ItemInv, Gone, Hands
<1>h. HandInv'
  BY DEF CancelReleases, TypeOK, HandInv, Hands
<1>i. ASSUME NEW d \in Calls PROVE ItemInv(d)'
  BY DEF CancelReleases, TypeOK, Outcomes, PlaceInv, HandInv, ItemInv, Gone, Hands
<1> QED
  BY <1>t, <1>p, <1>h, <1>i

LEMMA CallbackInv == ASSUME QueueInv, Callback PROVE QueueInv'
<1> USE CallsAssumption DEF QueueInv
<1>t. TypeOK'
  BY DEF Callback, TypeOK, Outcomes
<1>p. PlaceInv'
  BY DEF Callback, TypeOK, PlaceInv, HandInv, ItemInv, Gone, Hands
<1>h. HandInv'
  BY DEF Callback, TypeOK, HandInv, Hands
<1>i. ASSUME NEW d \in Calls PROVE ItemInv(d)'
  BY DEF Callback, TypeOK, Outcomes, PlaceInv, HandInv, ItemInv, Gone, Hands
<1> QED
  BY <1>t, <1>p, <1>h, <1>i

LEMMA UiWakeInv == ASSUME QueueInv, UiWake PROVE QueueInv'
<1> USE CallsAssumption DEF QueueInv
<1>t. TypeOK'
  BY DEF UiWake, TypeOK, Outcomes
<1>p. PlaceInv'
  BY DEF UiWake, TypeOK, PlaceInv, HandInv, ItemInv, Gone, Hands
<1>h. HandInv'
  BY DEF UiWake, TypeOK, HandInv, Hands
<1>i. ASSUME NEW d \in Calls PROVE ItemInv(d)'
  BY DEF UiWake, TypeOK, Outcomes, PlaceInv, HandInv, ItemInv, Gone, Hands
<1> QED
  BY <1>t, <1>p, <1>h, <1>i

LEMMA IdlingInv == ASSUME QueueInv, Idling PROVE QueueInv'
<1> USE CallsAssumption DEF QueueInv
<1>t. TypeOK'
  BY DEF Idling, TypeOK, Outcomes
<1>p. PlaceInv'
  BY DEF Idling, TypeOK, PlaceInv, HandInv, ItemInv, Gone, Hands
<1>h. HandInv'
  BY DEF Idling, TypeOK, HandInv, Hands
<1>i. ASSUME NEW d \in Calls PROVE ItemInv(d)'
  BY DEF Idling, TypeOK, Outcomes, PlaceInv, HandInv, ItemInv, Gone, Hands
<1> QED
  BY <1>t, <1>p, <1>h, <1>i

LEMMA ExecuteDequeuesInv == ASSUME QueueInv, ExecuteDequeues PROVE QueueInv'
<1> USE CallsAssumption DEF QueueInv
<1>1. UNCHANGED <<inFlight, state, done, token, caller, canceller, hand, signalled, ran>>
  BY DEF ExecuteDequeues
<1>2. CASE queue = << >>
  <2>1. queue' = queue /\ revit' = [revit EXCEPT !.pc = "empty"] /\ revit.pc = "execute"
    BY <1>2 DEF ExecuteDequeues
  <2>2. TypeOK' /\ PlaceInv' /\ HandInv'
    BY <1>1, <2>1 DEF TypeOK, PlaceInv, HandInv
  <2>3. ASSUME NEW d \in Calls PROVE ItemInv(d)'
    BY <1>1, <2>1 DEF TypeOK, ItemInv, Gone
  <2> QED
    BY <2>2, <2>3
<1>3. CASE queue # << >>
  <2>1. PICK x \in Calls :
          /\ x = Head(queue) /\ x \in Elems(queue)
          /\ queue' \in Seq(Calls) /\ Distinct(queue') /\ Elems(queue') = Elems(queue) \ {x}
    BY <1>3, TailFacts DEF ExecuteDequeues, TypeOK, PlaceInv
  <2>2. revit' = [pc |-> "took", item |-> x]
    BY <1>3, <2>1 DEF ExecuteDequeues
  <2>3. TypeOK' /\ PlaceInv' /\ HandInv'
    BY <1>1, <2>1, <2>2 DEF TypeOK, PlaceInv, HandInv, Hands
  <2>4. ASSUME NEW d \in Calls PROVE ItemInv(d)'
    BY <1>1, <2>1, <2>2 DEF TypeOK, PlaceInv, ItemInv, Gone
  <2> QED
    BY <2>3, <2>4
<1> QED
  BY <1>2, <1>3

LEMMA ExecuteFindsNothingInv == ASSUME QueueInv, ExecuteFindsNothing PROVE QueueInv'
<1> USE CallsAssumption DEF QueueInv
<1>t. TypeOK'
  BY DEF ExecuteFindsNothing, TypeOK, Outcomes
<1>p. PlaceInv'
  BY DEF ExecuteFindsNothing, TypeOK, PlaceInv, HandInv, ItemInv, Gone, Hands
<1>h. HandInv'
  BY DEF ExecuteFindsNothing, TypeOK, HandInv, Hands
<1>i. ASSUME NEW d \in Calls PROVE ItemInv(d)'
  BY DEF ExecuteFindsNothing, TypeOK, Outcomes, PlaceInv, HandInv, ItemInv, Gone, Hands
<1> QED
  BY <1>t, <1>p, <1>h, <1>i

LEMMA ExecuteClaimsInv == ASSUME QueueInv, ExecuteClaims PROVE QueueInv'
<1> USE CallsAssumption DEF QueueInv
<1>c0. CASE Unstarted(revit.item) /\ revit.item \notin token
  <2>t. TypeOK'
    BY <1>c0 DEF ExecuteClaims, TypeOK, Outcomes, HandInv, Unstarted
  <2>p. PlaceInv'
    BY <1>c0 DEF ExecuteClaims, TypeOK, PlaceInv, HandInv, ItemInv, Gone, Unstarted
  <2>h. HandInv'
    BY <1>c0 DEF ExecuteClaims, TypeOK, HandInv, Unstarted
  <2>i. ASSUME NEW d \in Calls PROVE ItemInv(d)'
    BY <1>c0 DEF ExecuteClaims, TypeOK, Outcomes, PlaceInv, HandInv, ItemInv, Gone, Unstarted
  <2> QED
    BY <2>t, <2>p, <2>h, <2>i
<1>c1. CASE ~Unstarted(revit.item) \/ revit.item \in token
  <2>t. TypeOK'
    BY <1>c1 DEF ExecuteClaims, TypeOK, Outcomes, HandInv, Unstarted
  <2>p. PlaceInv'
    BY <1>c1 DEF ExecuteClaims, TypeOK, PlaceInv, HandInv, ItemInv, Gone, Unstarted
  <2>h. HandInv'
    BY <1>c1 DEF ExecuteClaims, TypeOK, HandInv, Unstarted
  <2>i. ASSUME NEW d \in Calls PROVE ItemInv(d)'
    BY <1>c1 DEF ExecuteClaims, TypeOK, Outcomes, PlaceInv, HandInv, ItemInv, Gone, Unstarted
  <2> QED
    BY <2>t, <2>p, <2>h, <2>i
<1> QED
  BY <1>c0, <1>c1 DEF ExecuteClaims

LEMMA ExecuteReturnsInv == ASSUME QueueInv, ExecuteReturns PROVE QueueInv'
<1> USE CallsAssumption DEF QueueInv
<1>t. TypeOK'
  BY DEF ExecuteReturns, TypeOK, Outcomes
<1>p. PlaceInv'
  BY DEF ExecuteReturns, TypeOK, PlaceInv, HandInv, ItemInv, Gone, Hands
<1>h. HandInv'
  BY DEF ExecuteReturns, TypeOK, HandInv, Hands
<1>i. ASSUME NEW d \in Calls PROVE ItemInv(d)'
  BY DEF ExecuteReturns, TypeOK, Outcomes, PlaceInv, HandInv, ItemInv, Gone, Hands
<1> QED
  BY <1>t, <1>p, <1>h, <1>i

LEMMA ExecuteReleasesInv == ASSUME QueueInv, ExecuteReleases PROVE QueueInv'
<1> USE CallsAssumption DEF QueueInv
<1>t. TypeOK'
  BY DEF ExecuteReleases, TypeOK, Outcomes
<1>p. PlaceInv'
  BY DEF ExecuteReleases, TypeOK, PlaceInv, HandInv, ItemInv, Gone, Hands
<1>h. HandInv'
  BY DEF ExecuteReleases, TypeOK, HandInv, Hands
<1>i. ASSUME NEW d \in Calls PROVE ItemInv(d)'
  BY DEF ExecuteReleases, TypeOK, Outcomes, PlaceInv, HandInv, ItemInv, Gone, Hands
<1> QED
  BY <1>t, <1>p, <1>h, <1>i

LEMMA ExecuteSettlesInv == ASSUME QueueInv, ExecuteSettles PROVE QueueInv'
<1> USE CallsAssumption DEF QueueInv
<1>t. TypeOK'
  BY DEF ExecuteSettles, TypeOK, Outcomes, Complete
<1>p. PlaceInv'
  BY DEF ExecuteSettles, TypeOK, PlaceInv, HandInv, ItemInv, Gone, Hands
<1>h. HandInv'
  BY DEF ExecuteSettles, TypeOK, HandInv, Hands
<1>i. ASSUME NEW d \in Calls PROVE ItemInv(d)'
  BY DEF ExecuteSettles, TypeOK, Outcomes, PlaceInv, HandInv, ItemInv, Gone, Hands, Complete
<1> QED
  BY <1>t, <1>p, <1>h, <1>i

LEMMA InvStep == QueueInv /\ [Next]_vars => QueueInv'
<1> SUFFICES ASSUME QueueInv, [Next]_vars PROVE QueueInv'
  OBVIOUS
<1>1. ASSUME NEW c \in Calls, RunStep(c) PROVE QueueInv'
  BY <1>1, RunRejectedInv, RunAdmittedInv, EnqueueInv, RaiseInv, StopWatchingInv,
     FailQueuedItemInv, FailRequeueInv, FailReleaseInv DEF RunStep
<1>2. ASSUME NEW c \in Calls, RequestCancel(c) PROVE QueueInv'
  BY <1>2, RequestCancelInv
<1>3. ASSUME NEW c \in Calls, CancelStep(c) PROVE QueueInv'
  BY <1>3, CancelBeginsInv, CancelCompletesInv, CancelDequeuesInv, CancelRequeuesInv,
     CancelReleasesInv DEF CancelStep
<1>4. ASSUME ExecuteStep PROVE QueueInv'
  BY <1>4, ExecuteDequeuesInv, ExecuteFindsNothingInv, ExecuteClaimsInv, ExecuteReturnsInv,
     ExecuteReleasesInv, ExecuteSettlesInv DEF ExecuteStep
<1>5. CASE UNCHANGED vars
  <2>1. TypeOK' /\ PlaceInv' /\ HandInv'
    BY <1>5 DEF vars, QueueInv, TypeOK, PlaceInv, HandInv
  <2>2. \A c \in Calls : ItemInv(c)'
    BY <1>5 DEF vars, QueueInv, ItemInv, Gone
  <2> QED
    BY <2>1, <2>2 DEF QueueInv
<1> QED
  BY <1>1, <1>2, <1>3, <1>4, <1>5, CallbackInv, UiWakeInv, IdlingInv DEF Next

LEMMA InvHolds == Spec => []QueueInv
BY InvInit, InvStep, PTL DEF Spec

-----------------------------------------------------------------------------
(* Every field and local of RevitEventService keeps its type. *)
THEOREM QueueTypeCorrect == Spec => []TypeOK
<1>1. QueueInv => TypeOK
  BY DEF QueueInv
<1> QED
  BY <1>1, InvHolds, PTL

(* A call answered with "busy", "refused by the event" or "cancelled before *)
(* dispatch" has not run in Revit and never will, for any number of calls   *)
(* and cancellations and although the slot may be cleared under its holder. *)
THEOREM NotDispatchedNeverRanHolds == Spec => []NotDispatchedNeverRan
<1>1. QueueInv => NotDispatchedNeverRan
  BY DEF QueueInv, ItemInv, NotDispatchedNeverRan
<1> QED
  BY <1>1, InvHolds, PTL
=============================================================================
