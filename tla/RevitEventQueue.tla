---------------------------- MODULE RevitEventQueue ----------------------------
(***************************************************************************)
(* RevitEventService: how calls from any thread reach Revit's one API      *)
(* thread.                                                                 *)
(*                                                                         *)
(* Run admits a call by a compare-and-swap on _inFlight, enqueues its item *)
(* and raises the ExternalEvent, again and again until the item starts.    *)
(* Revit answers with Execute, from the event's callback or from its       *)
(* Idling event.  A cancellation races with both.  Each step below is one  *)
(* interlocked operation or one operation on the concurrent queue.         *)
(***************************************************************************)
EXTENDS Integers, Sequences

CONSTANTS
    Calls,       \* calls of Run, each made once
    Cancellable, \* the calls whose token can be cancelled
    Nobody       \* no item

ASSUME CallsAssumption == Nobody \notin Calls /\ Cancellable \subseteq Calls

VARIABLES
    inFlight,  \* _inFlight
    queue,     \* _queue, by the call each item belongs to
    state,     \* ExecutionState of each item
    done,      \* what each call's task completed with
    token,     \* the calls whose cancellation was requested
    caller,    \* Run and MaintainRaiseUntilStartedAsync of each call
    canceller, \* CancelQueuedItem of each call
    hand,      \* the foreign item Run or CancelQueuedItem took off the queue
    signalled, \* the ExternalEvent was raised and not yet called back
    revit,     \* Execute on the API thread
    ran        \* calls whose action was invoked

vars == <<inFlight, queue, state, done, token, caller, canceller, hand, signalled, revit, ran>>

Outcomes == {"open", "busy", "refused", "cancelled_before", "cancelled", "returned"}

\* Every variable has the type of the field or local it stands for.
TypeOK ==
    /\ inFlight \in {0, 1}
    /\ queue \in Seq(Calls)
    /\ state \in [Calls -> {"pending", "started", "cancelled"}]
    /\ done \in [Calls -> Outcomes]
    /\ token \subseteq Calls
    /\ caller \in [Calls -> {"new", "admitted", "enqueued", "watching", "failing",
                             "requeueing", "releasing", "ended", "rejected"}]
    /\ canceller \in [Calls -> {"none", "completing", "dequeueing", "requeueing",
                                "releasing", "ended"}]
    /\ hand \in [Calls \X {"run", "cancel"} -> Calls \cup {Nobody}]
    /\ signalled \in BOOLEAN
    /\ revit \in [pc: {"idle", "execute", "empty", "took", "running", "release", "settle"},
                  item: Calls \cup {Nobody}]
    /\ ran \subseteq Calls

Init ==
    /\ inFlight = 0
    /\ queue = <<>>
    /\ state = [c \in Calls |-> "pending"]
    /\ done = [c \in Calls |-> "open"]
    /\ token = {}
    /\ caller = [c \in Calls |-> "new"]
    /\ canceller = [c \in Calls |-> "none"]
    /\ hand = [p \in Calls \X {"run", "cancel"} |-> Nobody]
    /\ signalled = FALSE
    /\ revit = [pc |-> "idle", item |-> Nobody]
    /\ ran = {}

\* TrySet...: a task completes once.
Complete(c, outcome) ==
    done' = IF done[c] = "open" THEN [done EXCEPT ![c] = outcome] ELSE done

-----------------------------------------------------------------------------
(* Run *)

RunRejected(c) ==
    /\ caller[c] = "new"
    /\ c \in token \/ inFlight # 0
    /\ Complete(c, IF c \in token THEN "cancelled" ELSE "busy")
    /\ caller' = [caller EXCEPT ![c] = "rejected"]
    /\ UNCHANGED <<inFlight, queue, state, token, canceller, hand, signalled, revit, ran>>

RunAdmitted(c) ==
    /\ caller[c] = "new"
    /\ c \notin token /\ inFlight = 0
    /\ inFlight' = 1
    /\ caller' = [caller EXCEPT ![c] = "admitted"]
    /\ UNCHANGED <<queue, state, done, token, canceller, hand, signalled, revit, ran>>

Enqueue(c) ==
    /\ caller[c] = "admitted"
    /\ queue' = Append(queue, c)
    /\ caller' = [caller EXCEPT ![c] = "enqueued"]
    /\ UNCHANGED <<inFlight, state, done, token, canceller, hand, signalled, revit, ran>>

Unstarted(c) == done[c] = "open" /\ state[c] = "pending"

\* The first Raise is unconditional, the later ones stop once the item started
\* or its task completed.  Revit may deny or fail any of them.
Raise(c) ==
    /\ \/ caller[c] = "enqueued"
       \/ caller[c] = "watching" /\ Unstarted(c)
    /\ \/ /\ signalled' = TRUE
          /\ caller' = [caller EXCEPT ![c] = "watching"]
       \/ /\ caller' = [caller EXCEPT ![c] = "failing"]
          /\ UNCHANGED signalled
    /\ UNCHANGED <<inFlight, queue, state, done, token, canceller, hand, revit, ran>>

StopWatching(c) ==
    /\ caller[c] = "watching" /\ ~Unstarted(c)
    /\ caller' = [caller EXCEPT ![c] = "ended"]
    /\ UNCHANGED <<inFlight, queue, state, done, token, canceller, hand, signalled, revit, ran>>

\* Mutant: a refused item leaves the queue and its task is forgotten.
FailQueuedItemMutant(c) ==
    /\ caller[c] = "failing"
    /\ \/ /\ queue # <<>> /\ Head(queue) = c
          /\ queue' = Tail(queue)
          /\ caller' = [caller EXCEPT ![c] = "releasing"]
          /\ UNCHANGED <<hand, done>>
       \/ /\ queue # <<>> /\ Head(queue) # c
          /\ queue' = Tail(queue)
          /\ hand' = [hand EXCEPT ![<<c, "run">>] = Head(queue)]
          /\ caller' = [caller EXCEPT ![c] = "requeueing"]
          /\ UNCHANGED done
       \/ /\ queue = <<>>
          /\ caller' = [caller EXCEPT ![c] = "ended"]
          /\ UNCHANGED <<queue, hand, done>>
    /\ UNCHANGED <<inFlight, state, token, canceller, signalled, revit, ran>>

\* FailQueuedItem: take the head; complete and release if it is one's own,
\* put it back otherwise.
FailQueuedItem(c) ==
    /\ caller[c] = "failing"
    /\ \/ /\ queue # <<>> /\ Head(queue) = c
          /\ queue' = Tail(queue)
          /\ Complete(c, "refused")
          /\ caller' = [caller EXCEPT ![c] = "releasing"]
          /\ UNCHANGED hand
       \/ /\ queue # <<>> /\ Head(queue) # c
          /\ queue' = Tail(queue)
          /\ hand' = [hand EXCEPT ![<<c, "run">>] = Head(queue)]
          /\ caller' = [caller EXCEPT ![c] = "requeueing"]
          /\ UNCHANGED done
       \/ /\ queue = <<>>
          /\ caller' = [caller EXCEPT ![c] = "ended"]
          /\ UNCHANGED <<queue, hand, done>>
    /\ UNCHANGED <<inFlight, state, token, canceller, signalled, revit, ran>>

FailRequeue(c) ==
    /\ caller[c] = "requeueing"
    /\ queue' = Append(queue, hand[<<c, "run">>])
    /\ hand' = [hand EXCEPT ![<<c, "run">>] = Nobody]
    /\ caller' = [caller EXCEPT ![c] = "ended"]
    /\ UNCHANGED <<inFlight, state, done, token, canceller, signalled, revit, ran>>

FailRelease(c) ==
    /\ caller[c] = "releasing"
    /\ inFlight' = 0
    /\ caller' = [caller EXCEPT ![c] = "ended"]
    /\ UNCHANGED <<queue, state, done, token, canceller, hand, signalled, revit, ran>>

-----------------------------------------------------------------------------
(* CancelQueuedItem, registered once the item is on the queue *)

RequestCancel(c) ==
    /\ c \in Cancellable \ token
    /\ token' = token \cup {c}
    /\ UNCHANGED <<inFlight, queue, state, done, caller, canceller, hand, signalled, revit, ran>>

\* The compare-and-swap on ExecutionState decides who owns the item.
CancelBegins(c) ==
    /\ c \in token /\ canceller[c] = "none"
    /\ caller[c] \notin {"new", "rejected", "admitted"}
    /\ \/ /\ state[c] = "pending"
          /\ state' = [state EXCEPT ![c] = "cancelled"]
          /\ canceller' = [canceller EXCEPT ![c] = "completing"]
          /\ UNCHANGED done
       \/ /\ state[c] # "pending"
          /\ Complete(c, "cancelled")
          /\ canceller' = [canceller EXCEPT ![c] = "ended"]
          /\ UNCHANGED state
    /\ UNCHANGED <<inFlight, queue, token, caller, hand, signalled, revit, ran>>

CancelCompletes(c) ==
    /\ canceller[c] = "completing"
    /\ Complete(c, "cancelled_before")
    /\ canceller' = [canceller EXCEPT ![c] = "dequeueing"]
    /\ UNCHANGED <<inFlight, queue, state, token, caller, hand, signalled, revit, ran>>

CancelDequeues(c) ==
    /\ canceller[c] = "dequeueing"
    /\ \/ /\ queue # <<>> /\ Head(queue) = c
          /\ queue' = Tail(queue)
          /\ canceller' = [canceller EXCEPT ![c] = "releasing"]
          /\ UNCHANGED hand
       \/ /\ queue # <<>> /\ Head(queue) # c
          /\ queue' = Tail(queue)
          /\ hand' = [hand EXCEPT ![<<c, "cancel">>] = Head(queue)]
          /\ canceller' = [canceller EXCEPT ![c] = "requeueing"]
       \/ /\ queue = <<>>
          /\ canceller' = [canceller EXCEPT ![c] = "ended"]
          /\ UNCHANGED <<queue, hand>>
    /\ UNCHANGED <<inFlight, state, done, token, caller, signalled, revit, ran>>

CancelRequeues(c) ==
    /\ canceller[c] = "requeueing"
    /\ queue' = Append(queue, hand[<<c, "cancel">>])
    /\ hand' = [hand EXCEPT ![<<c, "cancel">>] = Nobody]
    /\ canceller' = [canceller EXCEPT ![c] = "ended"]
    /\ UNCHANGED <<inFlight, state, done, token, caller, signalled, revit, ran>>

\* Mutant: the cancelled item is removed but keeps the slot.
CancelReleasesMutant(c) ==
    /\ canceller[c] = "releasing"
    /\ canceller' = [canceller EXCEPT ![c] = "ended"]
    /\ UNCHANGED <<inFlight, queue, state, done, token, caller, hand, signalled, revit, ran>>

CancelReleases(c) ==
    /\ canceller[c] = "releasing"
    /\ inFlight' = 0
    /\ canceller' = [canceller EXCEPT ![c] = "ended"]
    /\ UNCHANGED <<queue, state, done, token, caller, hand, signalled, revit, ran>>

-----------------------------------------------------------------------------
(* Revit's API thread *)

\* The ExternalEvent's callback: raises before it coalesce into one.
Callback ==
    /\ revit.pc = "idle" /\ signalled
    /\ signalled' = FALSE
    /\ revit' = [revit EXCEPT !.pc = "execute"]
    /\ UNCHANGED <<inFlight, queue, state, done, token, caller, canceller, hand, ran>>

\* The UI wake re-raises the event from Revit's dispatcher while HasPendingWork.
UiWake ==
    /\ revit.pc = "idle" /\ inFlight # 0 /\ queue # <<>>
    /\ signalled' = TRUE
    /\ UNCHANGED <<inFlight, queue, state, done, token, caller, canceller, hand, revit, ran>>

\* ExecutePendingOnIdling
Idling ==
    /\ revit.pc = "idle" /\ queue # <<>>
    /\ revit' = [revit EXCEPT !.pc = "execute"]
    /\ UNCHANGED <<inFlight, queue, state, done, token, caller, canceller, hand, signalled, ran>>

ExecuteDequeues ==
    /\ revit.pc = "execute"
    /\ \/ /\ queue = <<>>
          /\ revit' = [revit EXCEPT !.pc = "empty"]
          /\ UNCHANGED queue
       \/ /\ queue # <<>>
          /\ revit' = [pc |-> "took", item |-> Head(queue)]
          /\ queue' = Tail(queue)
    /\ UNCHANGED <<inFlight, state, done, token, caller, canceller, hand, signalled, ran>>

\* An empty queue clears the slot, whoever holds it.
ExecuteFindsNothing ==
    /\ revit.pc = "empty"
    /\ inFlight' = 0
    /\ revit' = [revit EXCEPT !.pc = "idle"]
    /\ UNCHANGED <<queue, state, done, token, caller, canceller, hand, signalled, ran>>

\* Mutant: whatever comes off the queue is run.
ExecuteClaimsMutant ==
    /\ revit.pc = "took"
    /\ state' = [state EXCEPT ![revit.item] = "started"]
    /\ revit' = [revit EXCEPT !.pc = "running"]
    /\ ran' = ran \cup {revit.item}
    /\ UNCHANGED <<inFlight, queue, done, token, caller, canceller, hand, signalled>>

ExecuteClaims ==
    LET c == revit.item IN
    /\ revit.pc = "took"
    /\ state' = IF state[c] = "pending" THEN [state EXCEPT ![c] = "started"] ELSE state
    /\ \/ /\ Unstarted(c) /\ c \notin token
          /\ revit' = [revit EXCEPT !.pc = "running"]
          /\ ran' = ran \cup {c}
       \/ /\ ~Unstarted(c) \/ c \in token
          /\ revit' = [revit EXCEPT !.pc = "release"]
          /\ UNCHANGED ran
    /\ UNCHANGED <<inFlight, queue, done, token, caller, canceller, hand, signalled>>

ExecuteReturns ==
    /\ revit.pc = "running"
    /\ revit' = [revit EXCEPT !.pc = "release"]
    /\ UNCHANGED <<inFlight, queue, state, done, token, caller, canceller, hand, signalled, ran>>

\* The slot is released before the task is completed.
ExecuteReleases ==
    /\ revit.pc = "release"
    /\ inFlight' = 0
    /\ revit' = [revit EXCEPT !.pc = "settle"]
    /\ UNCHANGED <<queue, state, done, token, caller, canceller, hand, signalled, ran>>

ExecuteSettles ==
    /\ revit.pc = "settle"
    /\ Complete(revit.item, IF revit.item \in ran THEN "returned" ELSE "cancelled")
    /\ revit' = [pc |-> "idle", item |-> Nobody]
    /\ UNCHANGED <<inFlight, queue, state, token, caller, canceller, hand, signalled, ran>>

-----------------------------------------------------------------------------
RunStep(c) ==
    \/ RunRejected(c) \/ RunAdmitted(c) \/ Enqueue(c) \/ Raise(c) \/ StopWatching(c)
    \/ FailQueuedItem(c) \/ FailRequeue(c) \/ FailRelease(c)

CancelStep(c) ==
    \/ CancelBegins(c) \/ CancelCompletes(c) \/ CancelDequeues(c)
    \/ CancelRequeues(c) \/ CancelReleases(c)

ExecuteStep ==
    \/ ExecuteDequeues \/ ExecuteFindsNothing \/ ExecuteClaims
    \/ ExecuteReturns \/ ExecuteReleases \/ ExecuteSettles

Next ==
    \/ \E c \in Calls : RunStep(c) \/ RequestCancel(c) \/ CancelStep(c)
    \/ Callback \/ UiWake \/ Idling \/ ExecuteStep

Spec == Init /\ [][Next]_vars

\* Threads are scheduled and Revit keeps going idle; nothing forces a
\* cancellation, or Revit to deliver a raised event.
Fairness ==
    /\ \A c \in Calls : WF_vars(RunStep(c)) /\ WF_vars(CancelStep(c))
    /\ WF_vars(ExecuteStep)
    /\ WF_vars(Idling)

FairSpec == Spec /\ Fairness

-----------------------------------------------------------------------------
\* A call that was told its action never reached Revit (busy, refused by the
\* event, cancelled before dispatch) is right: OperatorCourierFailureClassifier
\* turns these answers into retryable, known failures.
NotDispatchedNeverRan ==
    \A c \in Calls : done[c] \in {"busy", "refused", "cancelled_before"} => c \notin ran

\* Every admitted call's task completes, with or without a cancellation, and
\* whichever of Run, CancelQueuedItem and Execute finds the item.  Each call is
\* made once and completes once, so a moment without an open call always comes.
Open(c) == caller[c] # "new" /\ done[c] = "open"
TaskCompletes == (\E c \in Calls : Open(c)) ~> (\A c \in Calls : ~Open(c))

\* The slot is given back: no lost item makes every later call busy for ever.
SlotReleased == (inFlight = 1) ~> (inFlight = 0)
=============================================================================
