--------------------------- MODULE AsyncOperation ---------------------------
(***************************************************************************)
(* One NetworkOperation (Network/NetworkOperation.swift) on top of its base *)
(* class AsyncOperation (Network/AsyncOperation.swift), as an operation    *)
(* queue runs it.  Three threads touch the unsynchronised property `state`: *)
(* the queue's worker inside start(), the completion handler of the        *)
(* request on a global queue, and whoever calls cancel().  Every access to *)
(* `state` is a step of its own, so that a thread can be overtaken between  *)
(* the store in the setter and the KVO notifications of willSet and didSet. *)
(*                                                                         *)
(* OperationQueue, KVO and Alamofire are external: the queue counts the    *)
(* operation as finished the first time an isFinished notification finds   *)
(* isFinished true, and never takes that back; Alamofire calls a           *)
(* completion handler exactly once, also for a cancelled request.          *)
(***************************************************************************)
EXTENDS Sequences, Naturals

CONSTANTS Replies,      \* values response.data can have (nil is one of them)
          NoData,       \* `data` before the completion handler assigned it
          Cancellable   \* whether somebody calls cancel()

ASSUME NoDataAssumption == NoData \notin Replies
ASSUME CancellableAssumption == Cancellable \in BOOLEAN

Threads == {"starter", "reply", "canceller"}

State == {"ready", "executing", "finished"}

(* Mutant: the key is the bare name of the state. *)
keyPath_BareName(s) == s

(* keyPath: the KVO key that goes with a state. *)
keyPath(s) == CASE s = "ready"     -> "isReady"
                [] s = "executing" -> "isExecuting"
                [] s = "finished"  -> "isFinished"

Keys == {"isReady", "isExecuting", "isFinished"}

(* Steps of a thread: "old" .. "did2" are inside the setter of `state`. *)
Steps == {"idle", "start", "old", "will", "store", "read", "did1", "did2", "done"}

VARIABLES
  state,        \* the stored property `state`
  isCancelled,  \* NSOperation's flag
  data,         \* NetworkOperation.data
  requested,    \* request.responseData was called, a reply will come
  pc,           \* where each thread is
  todo,         \* the values each thread still assigns to `state`
  oldValue,     \* the setter's oldValue
  willKeys,     \* the keys this thread announced with willChangeValue
  key,          \* the key didSet computed from the current state
  queueDone     \* the queue has counted the operation as finished

vars == <<state, isCancelled, data, requested, pc, todo, oldValue, willKeys,
          key, queueDone>>

setter == <<todo, oldValue, willKeys, key>>

(* Values of the operation's properties and of each thread's position. *)
TypeOK ==
  /\ state \in State
  /\ isCancelled \in BOOLEAN
  /\ data \in Replies \cup {NoData}
  /\ requested \in BOOLEAN
  /\ pc \in [Threads -> Steps]
  /\ todo \in [Threads -> Seq(State)]
  /\ oldValue \in [Threads -> State]
  /\ willKeys \in [Threads -> SUBSET Keys]
  /\ key \in [Threads -> Keys]
  /\ queueDone \in BOOLEAN

Init ==
  /\ state = "ready"
  /\ isCancelled = FALSE
  /\ data = NoData
  /\ requested = FALSE
  /\ pc = [t \in Threads |-> "idle"]
  /\ todo = [t \in Threads |-> <<>>]
  /\ oldValue = [t \in Threads |-> "ready"]
  /\ willKeys = [t \in Threads |-> {}]
  /\ key = [t \in Threads |-> "isReady"]
  /\ queueDone = FALSE

-----------------------------------------------------------------------------
(* The computed properties of AsyncOperation; super.isReady is true, since  *)
(* a NetworkOperation depends on nothing.                                   *)
isReady    == state = "ready"
isExecuting == state = "executing"
isFinished == state = "finished"

Goto(t, step) == pc' = [pc EXCEPT ![t] = step]

dispatched == pc["starter"] # "idle"

-----------------------------------------------------------------------------
(* The setter of `state`, run by thread t for the value at the head of its  *)
(* list: Swift loads oldValue, calls willSet, stores, calls didSet.         *)

LoadOldValue(t) ==
  /\ pc[t] = "old"
  /\ oldValue' = [oldValue EXCEPT ![t] = state]
  /\ Goto(t, "will")
  /\ UNCHANGED <<state, isCancelled, data, requested, todo, willKeys, key, queueDone>>

(* Mutant: willSet announces the old key only. *)
willSet_OldOnly(t) ==
  /\ pc[t] = "will"
  /\ willKeys' = [willKeys EXCEPT ![t] = {keyPath(state)}]
  /\ Goto(t, "store")
  /\ UNCHANGED <<state, isCancelled, data, requested, todo, oldValue, key, queueDone>>

willSet(t) ==
  /\ pc[t] = "will"
  /\ willKeys' = [willKeys EXCEPT ![t] = {keyPath(state), keyPath(Head(todo[t]))}]
  /\ Goto(t, "store")
  /\ UNCHANGED <<state, isCancelled, data, requested, todo, oldValue, key, queueDone>>

Store(t) ==
  /\ pc[t] = "store"
  /\ state' = Head(todo[t])
  /\ Goto(t, "read")
  /\ UNCHANGED <<isCancelled, data, requested, todo, oldValue, willKeys, key, queueDone>>

(* External: the queue's KVO observer.  A didChangeValue that this thread   *)
(* did not announce is dropped by KVO; an operation that the queue has not  *)
(* started may or may not be taken off the queue.                           *)
Notify(t, k) ==
  IF k = "isFinished" /\ k \in willKeys[t] /\ isFinished
  THEN queueDone' \in (IF dispatched THEN {TRUE} ELSE {queueDone, TRUE})
  ELSE UNCHANGED queueDone

(* Mutant: both notifications of didSet are for the old key. *)
didSetKey_Old(t) ==
  /\ pc[t] = "read"
  /\ key' = [key EXCEPT ![t] = keyPath(oldValue[t])]
  /\ Goto(t, "did1")
  /\ UNCHANGED <<state, isCancelled, data, requested, todo, oldValue, willKeys, queueDone>>

(* didSet: the first key path is computed from the state as it is now ...   *)
didSetKey(t) ==
  /\ pc[t] = "read"
  /\ key' = [key EXCEPT ![t] = keyPath(state)]
  /\ Goto(t, "did1")
  /\ UNCHANGED <<state, isCancelled, data, requested, todo, oldValue, willKeys, queueDone>>

(* ... and is notified first, ... *)
didSetNew(t) ==
  /\ pc[t] = "did1"
  /\ Notify(t, key[t])
  /\ Goto(t, "did2")
  /\ UNCHANGED <<state, isCancelled, data, requested, setter>>

(* ... then the key path of oldValue; the thread goes on to its next        *)
(* assignment, or is done.                                                  *)
didSetOld(t) ==
  /\ pc[t] = "did2"
  /\ Notify(t, keyPath(oldValue[t]))
  /\ todo' = [todo EXCEPT ![t] = Tail(@)]
  /\ Goto(t, IF Len(todo[t]) = 1 THEN "done" ELSE "old")
  /\ UNCHANGED <<state, isCancelled, data, requested, oldValue, willKeys, key>>

Setter(t) ==
  \/ LoadOldValue(t) \/ willSet(t) \/ Store(t)
  \/ didSetKey(t) \/ didSetNew(t) \/ didSetOld(t)

(* A thread that has assigned `state` but not yet notified it all. *)
inDidSet(t) == pc[t] \in {"read", "did1", "did2"}

-----------------------------------------------------------------------------
(* External: a queue worker finds the operation ready and calls start(). *)
Dispatch ==
  /\ pc["starter"] = "idle"
  /\ isReady
  /\ Goto("starter", "start")
  /\ UNCHANGED <<state, isCancelled, data, requested, setter, queueDone>>

(* NetworkOperation.main: issues the request; its handler runs later, on a  *)
(* global queue.                                                            *)
main == requested' = TRUE

(* start(): a cancelled operation finishes at once, any other one runs      *)
(* main() first and is marked executing after it.                           *)
start ==
  /\ pc["starter"] = "start"
  /\ \/ /\ isCancelled
        /\ todo' = [todo EXCEPT !["starter"] = <<"finished">>]
        /\ UNCHANGED requested
     \/ /\ ~isCancelled
        /\ main
        /\ todo' = [todo EXCEPT !["starter"] = <<"executing">>]
  /\ Goto("starter", "old")
  /\ UNCHANGED <<state, isCancelled, data, oldValue, willKeys, key, queueDone>>

(* The completion handler: `data` first, `state = .finished` second. *)
completion ==
  /\ requested
  /\ pc["reply"] = "idle"
  /\ data' \in Replies
  /\ todo' = [todo EXCEPT !["reply"] = <<"finished">>]
  /\ Goto("reply", "old")
  /\ UNCHANGED <<state, isCancelled, requested, oldValue, willKeys, key, queueDone>>

(* [weak self]: the queue has released the operation, the handler finds nil. *)
completionWithoutSelf ==
  /\ requested
  /\ pc["reply"] = "idle"
  /\ queueDone
  /\ pc["starter"] = "done"
  /\ pc["canceller"] = "done"
  /\ Goto("reply", "done")
  /\ UNCHANGED <<state, isCancelled, data, requested, setter, queueDone>>

(* Mutant: cancel() relies on the assignment of its superclass. *)
cancelSets_Once == <<"finished">>

(* NetworkOperation.cancel: the request is cancelled (its handler is still  *)
(* called), AsyncOperation.cancel sets the flag and the state, and          *)
(* NetworkOperation.cancel sets the state once more.                        *)
cancelSets == <<"finished", "finished">>

cancel ==
  /\ Cancellable
  /\ pc["canceller"] = "idle"
  /\ isCancelled' = TRUE
  /\ todo' = [todo EXCEPT !["canceller"] = cancelSets]
  /\ Goto("canceller", "old")
  /\ UNCHANGED <<state, data, requested, oldValue, willKeys, key, queueDone>>

(* All that can still run has run. *)
Terminated ==
  /\ pc["starter"] \in {"idle", "done"} /\ ~(pc["starter"] = "idle" /\ isReady)
  /\ pc["reply"] = "done" \/ ~requested
  /\ pc["canceller"] = "done" \/ ~Cancellable
  /\ UNCHANGED vars

Next ==
  \/ Dispatch \/ start \/ completion \/ completionWithoutSelf \/ cancel
  \/ \E t \in Threads : Setter(t)
  \/ Terminated

(* The queue starts a ready operation, Alamofire answers every request      *)
(* (with an error after its timeout), and a thread that is inside a setter  *)
(* goes on.  Nobody is obliged to call cancel().                            *)
Fairness ==
  /\ WF_vars(Dispatch)
  /\ WF_vars(start)
  /\ WF_vars(completion \/ completionWithoutSelf)
  /\ \A t \in Threads : WF_vars(Setter(t))

Spec == Init /\ [][Next]_vars /\ Fairness

-----------------------------------------------------------------------------
(* Once no setter is between its store and its last notification, a state   *)
(* of .finished is known to the queue: the willSet/didSet pair of `state`    *)
(* never leaves a finished operation that its queue still waits for, in     *)
(* whatever order start(), the completion handler and cancel() overlap.     *)
FinishIsAnnounced ==
  (dispatched /\ isFinished /\ \A t \in Threads : ~inDidSet(t)) => queueDone

(* When cancel() has returned, an operation that the queue has started is   *)
(* finished for the queue, although start() may overwrite one assignment of *)
(* .finished: only because NetworkOperation.cancel assigns it a second time *)
(* after super.cancel().  One that the queue has not started is .finished   *)
(* without a request, so it is not ready and start() will not be            *)
(* called; whether the queue has been told is left open, see Notify.  (A    *)
(* promise of the class: the app itself never calls cancel().)              *)
CancelFinishes ==
  pc["canceller"] = "done" =>
    IF dispatched THEN queueDone ELSE isFinished /\ ~requested

(* How the threads' positions look to the queue. *)
stored(t) == pc[t] \in {"read", "did1", "did2", "done"}

phase ==
  CASE isCancelled -> "cancelled"
    [] ~isCancelled /\ queueDone -> "finished"
    [] ~isCancelled /\ ~queueDone /\ ~dispatched -> "ready"
    [] ~isCancelled /\ ~queueDone /\ dispatched /\ ~stored("starter") -> "starting"
    [] ~isCancelled /\ ~queueDone /\ stored("starter")
         /\ stored("reply") /\ isExecuting -> "lost"
    [] ~isCancelled /\ ~queueDone /\ stored("starter")
         /\ ~(stored("reply") /\ isExecuting) -> "executing"

Contract == INSTANCE OperationContract
              WITH Results <- Replies, NoResult <- NoData,
                   result <- IF isCancelled THEN NoData ELSE data

(* start(), the setter and the completion handler, with the fairness above, *)
(* implement the contract of an asynchronous operation until somebody calls *)
(* cancel(): one reply, then one finish, so that a ParsingOperation finds   *)
(* `data` assigned; and a finish is lost only when the reply overlaps       *)
(* start().                                                                 *)
ImplementsContract == Contract!Spec
=============================================================================
