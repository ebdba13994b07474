------------------------ MODULE AsyncOperationProofs ------------------------
(***************************************************************************)
(* Theorems about AsyncOperation for all replies, cancelled or not.         *)
(***************************************************************************)
EXTENDS AsyncOperation, TLAPS

(* Thread t is inside the setter of `state`. *)
inSetter(t) == pc[t] \in {"old", "will", "store", "read", "did1", "did2"}

(* What each thread still assigns: start() marks an operation finished only *)
(* if it is cancelled, the reply finishes it once, cancel() at most twice.  *)
Assignments ==
  /\ inSetter("starter") =>
       \/ todo["starter"] = <<"executing">>
       \/ todo["starter"] = <<"finished">> /\ isCancelled
  /\ inSetter("reply") => todo["reply"] = <<"finished">>
  /\ inSetter("canceller") => \/ todo["canceller"] = <<"finished">>
                              \/ todo["canceller"] = <<"finished", "finished">>

(* A thread that has passed willSet announced the key of its new value. *)
NewKeyAnnounced ==
  \A t \in Threads :
    pc[t] \in {"store", "read", "did1", "did2"} => keyPath(Head(todo[t])) \in willKeys[t]

(* The order in which the threads begin. *)
ThreadOrder ==
  /\ requested => pc["starter"] \notin {"idle", "start"}
  /\ pc["reply"] # "idle" => requested
  /\ isCancelled <=> pc["canceller"] # "idle"

(* Thread t has announced isFinished and its didSet will notify it. *)
announces(t) ==
  /\ "isFinished" \in willKeys[t]
  /\ pc[t] = "read" \/ (pc[t] = "did1" /\ key[t] = "isFinished")

(* A finish the queue does not know of yet is about to be notified. *)
FinishIsPending ==
  (dispatched /\ isFinished /\ ~queueDone) => \E t \in Threads : announces(t)

(* cancel() has stored .finished at least once, or is in its second setter. *)
lastAssignment == inSetter("canceller") /\ todo["canceller"] = <<"finished">>
cancelStored == stored("canceller") \/ lastAssignment

(* Before the queue calls start() nobody overwrites what cancel() stored. *)
CancelPreventsStart == (cancelStored /\ ~dispatched) => isFinished

(* cancel() will notify isFinished in the setter it is in. *)
cancelAnnounces ==
  isFinished /\ (pc["canceller"] = "did1" => key["canceller"] = "isFinished")

(* The first assignment of cancel() reaches the queue, unless start() has   *)
(* stored its value, the only one that can hide it; then the second         *)
(* assignment does.                                                         *)
CancelProgress ==
  (dispatched /\ ~queueDone) =>
    /\ cancelStored =>
         \/ stored("starter")
         \/ ~lastAssignment /\ pc["canceller"] \in {"read", "did1"} /\ cancelAnnounces
    /\ (lastAssignment /\ stored("canceller")) =>
         pc["canceller"] \in {"read", "did1"} /\ cancelAnnounces
    /\ pc["canceller"] # "done"

(* Until cancel() is called, only the reply finishes the operation, after   *)
(* it has assigned `data`.                                                  *)
Delivery ==
  /\ pc["reply"] = "idle" => data = NoData
  /\ ~isCancelled => /\ pc["reply"] # "idle" => data \in Replies
                     /\ isFinished \/ queueDone => stored("reply")

IInv ==
  /\ TypeOK
  /\ Assignments
  /\ NewKeyAnnounced
  /\ ThreadOrder
  /\ FinishIsPending
  /\ CancelPreventsStart
  /\ CancelProgress
  /\ Delivery

-----------------------------------------------------------------------------
(* The three threads. *)
LEMMA ThreadNames ==
  /\ "starter" \in Threads /\ "reply" \in Threads /\ "canceller" \in Threads
  /\ \A t \in Threads : t = "starter" \/ t = "reply" \/ t = "canceller"
  BY DEF Threads

(* Every state has a key, and only .finished has isFinished. *)
LEMMA KeyPaths ==
  /\ \A s \in State : keyPath(s) \in Keys
  /\ \A s \in State : keyPath(s) = "isFinished" <=> s = "finished"
  BY DEF State, Keys, keyPath

(* A thread moves, the others stay where they are. *)
LEMMA Moves ==
  ASSUME TypeOK, NEW t \in Threads, NEW step \in Steps, Goto(t, step)
  PROVE  /\ pc' \in [Threads -> Steps]
         /\ pc'[t] = step
         /\ \A u \in Threads : u # t => pc'[u] = pc[u]
  BY DEF TypeOK, Goto

(* What a notification can do to the queue. *)
LEMMA Notified ==
  ASSUME TypeOK, NEW t \in Threads, NEW k, Notify(t, k)
  PROVE  /\ queueDone' \in BOOLEAN
         /\ queueDone => queueDone'
         /\ queueDone' => queueDone \/ isFinished
         /\ (k = "isFinished" /\ k \in willKeys[t] /\ isFinished /\ dispatched) => queueDone'
  BY DEF TypeOK, Notify

(* Lists of one or two assignments. *)
LEMMA ShortLists ==
  ASSUME NEW s \in State
  PROVE  /\ Head(<<s>>) = s /\ Tail(<<s>>) = <<>> /\ Len(<<s>>) = 1
         /\ Head(<<s, s>>) = s /\ Tail(<<s, s>>) = <<s>> /\ Len(<<s, s>>) = 2
         /\ <<>> \in Seq(State) /\ <<s>> \in Seq(State) /\ <<s, s>> \in Seq(State)
  OBVIOUS

(* The value a thread inside the setter assigns, and what is left after it. *)
LEMMA Assigned ==
  ASSUME IInv, NEW t \in Threads, inSetter(t)
  PROVE  /\ Head(todo[t]) \in {"executing", "finished"}
         /\ Tail(todo[t]) \in Seq(State)
         /\ t # "starter" => Head(todo[t]) = "finished"
         /\ (t = "starter" /\ ~isCancelled) => Head(todo[t]) = "executing"
  <1>1. "executing" \in State /\ "finished" \in State
    BY DEF State
  <1>2. CASE todo[t] = <<"executing">> /\ t = "starter"
    BY <1>1, <1>2, ShortLists
  <1>3. CASE todo[t] = <<"finished">> /\ (t = "starter" => isCancelled)
    BY <1>1, <1>3, ShortLists
  <1>4. CASE todo[t] = <<"finished", "finished">> /\ t # "starter"
    BY <1>1, <1>4, ShortLists
  <1> QED
    BY <1>2, <1>3, <1>4, ThreadNames DEF IInv, Assignments

(* The initial state satisfies the invariant. *)
LEMMA InitIInv == Init => IInv
  <1> SUFFICES ASSUME Init PROVE IInv
    OBVIOUS
  <1>1. TypeOK
    <2>1. todo \in [Threads -> Seq(State)]
      BY DEF Init
    <2>2. state \in State /\ oldValue \in [Threads -> State] /\ pc \in [Threads -> Steps]
      BY DEF Init, State, Steps
    <2>3. willKeys \in [Threads -> SUBSET Keys] /\ key \in [Threads -> Keys]
      BY DEF Init, Keys
    <2> QED
      BY <2>1, <2>2, <2>3 DEF Init, TypeOK
  <1>2. \A t \in Threads : pc[t] = "idle"
    BY DEF Init
  <1>3. Assignments /\ NewKeyAnnounced /\ ThreadOrder
    BY <1>2, ThreadNames DEF Init, Assignments, NewKeyAnnounced, ThreadOrder, inSetter
  <1>4. FinishIsPending /\ CancelPreventsStart /\ CancelProgress
    BY <1>2, ThreadNames DEF Init, FinishIsPending, CancelPreventsStart, CancelProgress,
       dispatched, cancelStored, lastAssignment, stored, inSetter
  <1>5. Delivery
    BY <1>2, ThreadNames DEF Init, Delivery, isFinished
  <1> QED
    BY <1>1, <1>3, <1>4, <1>5 DEF IInv

-----------------------------------------------------------------------------
(* A thread that has not stored its value yet goes on: nothing the other    *)
(* threads or the queue rely on changes.                                    *)
LEMMA BeforeStore ==
  ASSUME IInv, NEW t \in Threads,
         pc[t] \in {"old", "will"}, pc'[t] \in {"will", "store"},
         \A u \in Threads : u # t => pc'[u] = pc[u] /\ willKeys'[u] = willKeys[u],
         UNCHANGED <<state, isCancelled, data, requested, todo, key, queueDone>>
  PROVE  /\ Assignments' /\ ThreadOrder' /\ FinishIsPending'
         /\ CancelPreventsStart' /\ CancelProgress' /\ Delivery'
  <1>1. \A u \in Threads : (inSetter(u)' <=> inSetter(u)) /\ (stored(u)' <=> stored(u))
    BY DEF inSetter, stored
  <1>2. \A u \in Threads : (pc'[u] = "idle" <=> pc[u] = "idle")
    OBVIOUS
  <1>3. \A u \in Threads : announces(u) => announces(u)'
    BY DEF announces
  <1>4. (dispatched' <=> dispatched) /\ (isFinished' <=> isFinished)
    BY <1>2, ThreadNames DEF dispatched, isFinished
  <1>5. (lastAssignment' <=> lastAssignment) /\ (cancelStored' <=> cancelStored)
    BY <1>1, ThreadNames DEF lastAssignment, cancelStored
  <1>6. Assignments'
    BY <1>1, ThreadNames DEF IInv, Assignments
  <1>7. ThreadOrder'
    BY <1>2, ThreadNames DEF IInv, ThreadOrder
  <1>8. FinishIsPending'
    BY <1>3, <1>4 DEF IInv, FinishIsPending
  <1>9. CancelPreventsStart'
    BY <1>4, <1>5 DEF IInv, CancelPreventsStart
  <1>10. CancelProgress'
    BY <1>1, <1>4, <1>5, ThreadNames DEF IInv, CancelProgress, cancelAnnounces
  <1>11. Delivery'
    BY <1>1, <1>2, <1>4, ThreadNames DEF IInv, Delivery
  <1> QED
    BY <1>6, <1>7, <1>8, <1>9, <1>10, <1>11

(* The setter loads oldValue. *)
LEMMA LoadStep ==
  ASSUME IInv, NEW t \in Threads, LoadOldValue(t)
  PROVE  IInv'
  <1>1. /\ pc' \in [Threads -> Steps] /\ pc'[t] = "will"
        /\ \A u \in Threads : u # t => pc'[u] = pc[u]
    BY Moves DEF IInv, LoadOldValue, Steps
  <1>2. TypeOK'
    BY <1>1 DEF IInv, TypeOK, LoadOldValue
  <1>3. NewKeyAnnounced'
    BY <1>1 DEF IInv, NewKeyAnnounced, LoadOldValue
  <1>4. /\ Assignments' /\ ThreadOrder' /\ FinishIsPending'
        /\ CancelPreventsStart' /\ CancelProgress' /\ Delivery'
    BY <1>1, BeforeStore DEF LoadOldValue
  <1> QED
    BY <1>2, <1>3, <1>4 DEF IInv

(* willSet announces the keys of the old and of the new value. *)
LEMMA WillStep ==
  ASSUME IInv, NEW t \in Threads, willSet(t)
  PROVE  IInv'
  <1>1. /\ pc' \in [Threads -> Steps] /\ pc'[t] = "store"
        /\ \A u \in Threads : u # t => pc'[u] = pc[u]
    BY Moves DEF IInv, willSet, Steps
  <1>2. Head(todo[t]) \in State
    BY Assigned DEF willSet, inSetter, State
  <1>3. {keyPath(state), keyPath(Head(todo[t]))} \in SUBSET Keys
    BY <1>2, KeyPaths DEF IInv, TypeOK
  <1>4. /\ willKeys' \in [Threads -> SUBSET Keys]
        /\ willKeys'[t] = {keyPath(state), keyPath(Head(todo[t]))}
        /\ \A u \in Threads : u # t => willKeys'[u] = willKeys[u]
    BY <1>3 DEF IInv, TypeOK, willSet
  <1>5. TypeOK'
    BY <1>1, <1>4 DEF IInv, TypeOK, willSet
  <1>6. NewKeyAnnounced'
    BY <1>1, <1>4 DEF IInv, NewKeyAnnounced, willSet
  <1>7. /\ Assignments' /\ ThreadOrder' /\ FinishIsPending'
        /\ CancelPreventsStart' /\ CancelProgress' /\ Delivery'
    BY <1>1, <1>4, BeforeStore DEF willSet
  <1> QED
    BY <1>5, <1>6, <1>7 DEF IInv

(* The store: a thread that stores .finished has announced isFinished;      *)
(* start() stores .executing once, so that what cancel() stores after it    *)
(* stays.                                                                   *)
LEMMA StoreStep ==
  ASSUME IInv, NEW t \in Threads, Store(t)
  PROVE  IInv'
  <1>1. /\ pc' \in [Threads -> Steps] /\ pc'[t] = "read"
        /\ \A u \in Threads : u # t => pc'[u] = pc[u]
    BY Moves DEF IInv, Store, Steps
  <1>2. /\ state' = Head(todo[t]) /\ state' \in {"executing", "finished"}
        /\ t # "starter" => state' = "finished"
        /\ (t = "starter" /\ ~isCancelled) => state' = "executing"
    BY Assigned DEF Store, inSetter
  <1>3. pc[t] = "store" /\ UNCHANGED <<isCancelled, data, requested, todo, willKeys, key, queueDone>>
    BY DEF Store
  <1>4. keyPath(state') \in willKeys[t]
    BY <1>2, <1>3 DEF IInv, NewKeyAnnounced
  <1>5. \A u \in Threads : /\ inSetter(u)' <=> inSetter(u)
                           /\ pc'[u] = "idle" <=> pc[u] = "idle"
                           /\ u # t => (stored(u)' <=> stored(u))
    BY <1>1, <1>3 DEF inSetter, stored
  <1>6. stored(t)' /\ ~stored(t)
    BY <1>1, <1>3 DEF stored
  <1>7. dispatched' <=> dispatched
    BY <1>5, ThreadNames DEF dispatched
  <1>8. lastAssignment' <=> lastAssignment
    BY <1>3, <1>5, ThreadNames DEF lastAssignment
  <1>9. TypeOK'
    BY <1>1, <1>2 DEF IInv, TypeOK, Store, State
  <1>10. Assignments' /\ NewKeyAnnounced' /\ ThreadOrder'
    <2>1. Assignments'
      BY <1>3, <1>5, ThreadNames DEF IInv, Assignments
    <2>2. NewKeyAnnounced'
      BY <1>1, <1>3 DEF IInv, NewKeyAnnounced
    <2>3. ThreadOrder'
      BY <1>1, <1>3, <1>5, ThreadNames DEF IInv, ThreadOrder
    <2> QED
      BY <2>1, <2>2, <2>3
  <1>11. FinishIsPending'
    <2>1. state' = "finished" => announces(t)'
      BY <1>1, <1>3, <1>4, KeyPaths DEF announces, State
    <2> QED
      BY <2>1 DEF FinishIsPending, isFinished
  <1>12. CancelPreventsStart'
    <2>1. ~dispatched => t = "canceller"
      BY <1>3, <1>5, ThreadNames DEF IInv, ThreadOrder, dispatched
    <2> QED
      BY <1>2, <1>7, <2>1 DEF CancelPreventsStart, isFinished
  <1>13. CancelProgress'
    <2> SUFFICES ASSUME dispatched', ~queueDone'
                 PROVE  /\ cancelStored' =>
                             \/ stored("starter")'
                             \/ ~lastAssignment' /\ pc'["canceller"] \in {"read", "did1"} /\ cancelAnnounces'
                        /\ (lastAssignment /\ stored("canceller"))' =>
                             pc'["canceller"] \in {"read", "did1"} /\ cancelAnnounces'
                        /\ pc'["canceller"] # "done"
      BY DEF CancelProgress
    <2>1. dispatched /\ ~queueDone
      BY <1>3, <1>7
    <2>2. CASE t = "canceller"
      <3>1. cancelAnnounces' /\ pc'["canceller"] = "read"
        BY <1>1, <1>2, <2>2 DEF cancelAnnounces, isFinished
      <3>2. lastAssignment => stored("starter")
        BY <1>3, <2>1, <2>2 DEF IInv, CancelProgress, cancelStored
      <3>3. lastAssignment' => stored("starter")'
        BY <1>5, <1>8, <2>2, <3>2, ThreadNames
      <3> QED
        BY <3>1, <3>3
    <2>3. CASE t # "canceller"
      <3>1. pc'["canceller"] = pc["canceller"] /\ (stored("canceller")' <=> stored("canceller"))
        BY <1>1, <1>5, <2>3, ThreadNames
      <3>2. cancelStored' <=> cancelStored
        BY <1>8, <3>1 DEF cancelStored
      <3>3. CASE t = "starter"
        <4>1. stored("starter")' /\ ~stored("starter")
          BY <1>6, <3>3
        <4>2. ~(lastAssignment /\ stored("canceller")) /\ pc["canceller"] # "done"
          BY <2>1, <4>1 DEF IInv, CancelProgress, cancelStored
        <4> QED
          BY <1>8, <3>1, <4>1, <4>2
      <3>4. CASE t # "starter"
        <4>1. state' = "finished" /\ (stored("starter")' <=> stored("starter"))
          BY <1>2, <1>5, <3>4, ThreadNames
        <4>2. cancelAnnounces => cancelAnnounces'
          BY <1>3, <3>1, <4>1 DEF cancelAnnounces, isFinished
        <4> QED
          BY <1>8, <2>1, <3>1, <3>2, <4>1, <4>2 DEF IInv, CancelProgress
      <3> QED
        BY <3>3, <3>4
    <2> QED
      BY <2>2, <2>3
  <1>14. Delivery'
    <2>1. t = "canceller" => isCancelled
      BY <1>3 DEF IInv, ThreadOrder
    <2>2. ~isCancelled /\ (isFinished' \/ queueDone) => stored("reply")'
      BY <1>2, <1>3, <1>5, <1>6, <2>1, ThreadNames DEF IInv, Delivery, isFinished
    <2> QED
      BY <1>1, <1>3, <1>5, <2>2, ThreadNames DEF IInv, Delivery
  <1> QED
    BY <1>9, <1>10, <1>11, <1>12, <1>13, <1>14 DEF IInv

(* didSet computes the key of the state it finds. *)
LEMMA KeyStep ==
  ASSUME IInv, NEW t \in Threads, didSetKey(t)
  PROVE  IInv'
  <1>1. /\ pc' \in [Threads -> Steps] /\ pc'[t] = "did1"
        /\ \A u \in Threads : u # t => pc'[u] = pc[u]
    BY Moves DEF IInv, didSetKey, Steps
  <1>2. /\ key' \in [Threads -> Keys] /\ key'[t] = keyPath(state)
        /\ \A u \in Threads : u # t => key'[u] = key[u]
    BY KeyPaths DEF IInv, TypeOK, didSetKey
  <1>3. /\ pc[t] = "read"
        /\ UNCHANGED <<state, isCancelled, data, requested, todo, willKeys, queueDone>>
    BY DEF didSetKey
  <1>4. \A u \in Threads : /\ inSetter(u)' <=> inSetter(u)
                           /\ stored(u)' <=> stored(u)
                           /\ pc'[u] = "idle" <=> pc[u] = "idle"
    BY <1>1, <1>3 DEF inSetter, stored
  <1>5. (dispatched' <=> dispatched) /\ (isFinished' <=> isFinished)
    BY <1>3, <1>4, ThreadNames DEF dispatched, isFinished
  <1>6. (lastAssignment' <=> lastAssignment) /\ (cancelStored' <=> cancelStored)
    BY <1>3, <1>4, ThreadNames DEF lastAssignment, cancelStored
  <1>7. isFinished => key'[t] = "isFinished"
    BY <1>2, KeyPaths DEF isFinished, State
  <1>8. TypeOK'
    BY <1>1, <1>2 DEF IInv, TypeOK, didSetKey
  <1>9. Assignments' /\ CancelPreventsStart' /\ Delivery'
    BY <1>3, <1>4, <1>5, <1>6, ThreadNames DEF IInv, Assignments, CancelPreventsStart, Delivery
  <1>10. NewKeyAnnounced' /\ ThreadOrder'
    <2>1. NewKeyAnnounced'
      BY <1>1, <1>3 DEF IInv, NewKeyAnnounced
    <2>2. ThreadOrder'
      BY <1>1, <1>3, <1>4, ThreadNames DEF IInv, ThreadOrder
    <2> QED
      BY <2>1, <2>2
  <1>11. FinishIsPending'
    <2>1. isFinished => \A u \in Threads : announces(u) => announces(u)'
      BY <1>1, <1>2, <1>3, <1>7 DEF announces
    <2> QED
      BY <1>3, <1>5, <2>1 DEF IInv, FinishIsPending
  <1>12. CancelProgress'
    <2>1. cancelAnnounces => cancelAnnounces'
      BY <1>1, <1>2, <1>5, <1>7, ThreadNames DEF cancelAnnounces
    <2>2. pc["canceller"] \in {"read", "did1"} => pc'["canceller"] \in {"read", "did1"}
      BY <1>1, ThreadNames
    <2>3. pc["canceller"] # "done" => pc'["canceller"] # "done"
      BY <1>1, ThreadNames
    <2> QED
      BY <1>3, <1>4, <1>5, <1>6, <2>1, <2>2, <2>3, ThreadNames DEF IInv, CancelProgress
  <1> QED
    BY <1>8, <1>9, <1>10, <1>11, <1>12 DEF IInv

(* The first notification of didSet: the queue learns of a finish that this *)
(* thread announced.                                                        *)
LEMMA NotifyNewStep ==
  ASSUME IInv, NEW t \in Threads, didSetNew(t)
  PROVE  IInv'
  <1>1. /\ pc' \in [Threads -> Steps] /\ pc'[t] = "did2"
        /\ \A u \in Threads : u # t => pc'[u] = pc[u]
    BY Moves DEF IInv, didSetNew, Steps
  <1>2. /\ pc[t] = "did1"
        /\ UNCHANGED <<state, isCancelled, data, requested, todo, oldValue, willKeys, key>>
    BY DEF didSetNew, setter
  <1>3. /\ queueDone' \in BOOLEAN
        /\ queueDone => queueDone'
        /\ queueDone' => queueDone \/ isFinished
        /\ (key[t] = "isFinished" /\ "isFinished" \in willKeys[t] /\ isFinished /\ dispatched) => queueDone'
    BY Notified DEF IInv, didSetNew
  <1>4. \A u \in Threads : /\ inSetter(u)' <=> inSetter(u)
                           /\ stored(u)' <=> stored(u)
                           /\ pc'[u] = "idle" <=> pc[u] = "idle"
    BY <1>1, <1>2 DEF inSetter, stored
  <1>5. (dispatched' <=> dispatched) /\ (isFinished' <=> isFinished)
    BY <1>2, <1>4, ThreadNames DEF dispatched, isFinished
  <1>6. (lastAssignment' <=> lastAssignment) /\ (cancelStored' <=> cancelStored)
    BY <1>2, <1>4, ThreadNames DEF lastAssignment, cancelStored
  <1>7. TypeOK'
    BY <1>1, <1>2, <1>3 DEF IInv, TypeOK
  <1>8. Assignments' /\ CancelPreventsStart'
    BY <1>2, <1>4, <1>5, <1>6, ThreadNames DEF IInv, Assignments, CancelPreventsStart
  <1>9. NewKeyAnnounced' /\ ThreadOrder'
    <2>1. NewKeyAnnounced'
      BY <1>1, <1>2 DEF IInv, NewKeyAnnounced
    <2>2. ThreadOrder'
      BY <1>1, <1>2, <1>4, ThreadNames DEF IInv, ThreadOrder
    <2> QED
      BY <2>1, <2>2
  <1>10. FinishIsPending'
    <2> SUFFICES ASSUME dispatched, isFinished, ~queueDone' PROVE \E u \in Threads : announces(u)'
      BY <1>5 DEF FinishIsPending
    <2>1. PICK u \in Threads : announces(u)
      BY <1>3 DEF IInv, FinishIsPending
    <2>2. u # t
      BY <1>2, <1>3, <2>1 DEF announces
    <2> QED
      BY <1>1, <1>2, <2>1, <2>2 DEF announces
  <1>11. CancelProgress'
    <2>1. CASE t = "canceller"
      <3>1. "isFinished" \in willKeys[t]
        <4>1. Head(todo[t]) = "finished"
          BY <1>2, <2>1, Assigned DEF inSetter
        <4> QED
          BY <1>2, <4>1, KeyPaths DEF IInv, NewKeyAnnounced, State
      <3>2. (dispatched /\ ~queueDone') => ~cancelAnnounces
        BY <1>2, <1>3, <2>1, <3>1 DEF cancelAnnounces
      <3> QED
        BY <1>1, <1>3, <1>4, <1>5, <1>6, <2>1, <3>2, ThreadNames DEF IInv, CancelProgress
    <2>2. CASE t # "canceller"
      <3>1. pc'["canceller"] = pc["canceller"] /\ (cancelAnnounces' <=> cancelAnnounces)
        BY <1>1, <1>2, <1>5, <2>2, ThreadNames DEF cancelAnnounces
      <3> QED
        BY <1>3, <1>4, <1>5, <1>6, <3>1, ThreadNames DEF IInv, CancelProgress
    <2> QED
      BY <2>1, <2>2
  <1>12. Delivery'
    BY <1>2, <1>3, <1>4, <1>5, ThreadNames DEF IInv, Delivery
  <1> QED
    BY <1>7, <1>8, <1>9, <1>10, <1>11, <1>12 DEF IInv

(* The second notification of didSet: start() and the reply are done, and   *)
(* cancel() goes on to its second assignment or has reached the queue.      *)
LEMMA NotifyOldStep ==
  ASSUME IInv, NEW t \in Threads, didSetOld(t)
  PROVE  IInv'
  <1>1. /\ pc[t] = "did2"
        /\ UNCHANGED <<state, isCancelled, data, requested, oldValue, willKeys, key>>
    BY DEF didSetOld
  <1>2. /\ queueDone' \in BOOLEAN
        /\ queueDone => queueDone'
        /\ queueDone' => queueDone \/ isFinished
    BY Notified DEF IInv, didSetOld
  <1>3. Tail(todo[t]) \in Seq(State)
    BY <1>1, Assigned DEF inSetter
  <1>4. /\ todo' \in [Threads -> Seq(State)] /\ todo'[t] = Tail(todo[t])
        /\ \A u \in Threads : u # t => todo'[u] = todo[u]
    BY <1>3 DEF IInv, TypeOK, didSetOld
  <1>5. \/ pc'[t] = "done" /\ ~(t = "canceller" /\ todo[t] = <<"finished", "finished">>)
        \/ t = "canceller" /\ pc'[t] = "old" /\ todo[t] = <<"finished", "finished">> /\ todo'[t] = <<"finished">>
    <2>1. "finished" \in State /\ "executing" \in State
      BY DEF State
    <2>2. pc'[t] = IF Len(todo[t]) = 1 THEN "done" ELSE "old"
      BY DEF didSetOld, Goto, IInv, TypeOK
    <2>3. CASE todo[t] = <<"executing">> \/ todo[t] = <<"finished">>
      BY <2>1, <2>2, <2>3, ShortLists
    <2>4. CASE t = "canceller" /\ todo[t] = <<"finished", "finished">>
      BY <1>4, <2>1, <2>2, <2>4, ShortLists
    <2>5. inSetter(t)
      BY <1>1 DEF inSetter
    <2> QED
      BY <2>3, <2>4, <2>5, ThreadNames DEF IInv, Assignments
  <1>6. pc' \in [Threads -> Steps] /\ \A u \in Threads : u # t => pc'[u] = pc[u]
    BY DEF didSetOld, Goto, IInv, TypeOK, Steps
  <1>7. \A u \in Threads : /\ u # t => (inSetter(u)' <=> inSetter(u))
                           /\ u # "canceller" => (stored(u)' <=> stored(u))
                           /\ pc'[u] = "idle" <=> pc[u] = "idle"
    BY <1>1, <1>5, <1>6 DEF inSetter, stored
  <1>8. (dispatched' <=> dispatched) /\ (isFinished' <=> isFinished)
    BY <1>1, <1>7, ThreadNames DEF dispatched, isFinished
  <1>9. TypeOK'
    BY <1>1, <1>2, <1>4, <1>6 DEF IInv, TypeOK
  <1>10. Assignments'
    <2>1. CASE t = "canceller"
      BY <1>1, <1>4, <1>5, <1>7, <2>1, ThreadNames DEF IInv, Assignments, inSetter
    <2>2. CASE t # "canceller"
      <3>1. ~inSetter(t)'
        BY <1>5, <2>2 DEF inSetter
      <3> QED
        BY <1>1, <1>4, <1>7, <3>1, ThreadNames DEF IInv, Assignments
    <2> QED
      BY <2>1, <2>2
  <1>11. NewKeyAnnounced' /\ ThreadOrder'
    <2>1. NewKeyAnnounced'
      BY <1>1, <1>4, <1>5, <1>6 DEF IInv, NewKeyAnnounced
    <2>2. ThreadOrder'
      BY <1>1, <1>5, <1>6, <1>7, ThreadNames DEF IInv, ThreadOrder
    <2> QED
      BY <2>1, <2>2
  <1>12. FinishIsPending'
    <2>1. \A u \in Threads : announces(u) => announces(u)'
      BY <1>1, <1>6 DEF announces
    <2> QED
      BY <1>2, <1>8, <2>1 DEF IInv, FinishIsPending
  <1>13. cancelStored' => cancelStored
    <2>1. CASE t = "canceller"
      BY <1>1, <2>1 DEF cancelStored, stored
    <2>2. CASE t # "canceller"
      BY <1>4, <1>6, <2>2, ThreadNames DEF cancelStored, stored, lastAssignment, inSetter
    <2> QED
      BY <2>1, <2>2
  <1>14. CancelPreventsStart'
    BY <1>8, <1>13 DEF IInv, CancelPreventsStart
  <1>15. CancelProgress'
    <2> SUFFICES ASSUME dispatched', ~queueDone'
                 PROVE  CancelProgress'
      BY DEF CancelProgress
    <2>1. dispatched /\ ~queueDone
      BY <1>2, <1>8
    <2>2. CASE t = "canceller"
      <3>1. stored("canceller") /\ cancelStored
        BY <1>1, <2>2 DEF stored, cancelStored
      <3>2. stored("starter") /\ ~lastAssignment
        BY <1>1, <2>1, <2>2, <3>1 DEF IInv, CancelProgress
      <3>3. todo["canceller"] = <<"finished", "finished">>
        BY <1>1, <2>2, <3>2 DEF IInv, Assignments, lastAssignment, inSetter
      <3>4. pc'["canceller"] = "old"
        BY <1>5, <2>2, <3>3
      <3>5. stored("starter")' /\ ~stored("canceller")'
        BY <1>7, <3>2, <3>4, ThreadNames DEF stored
      <3> QED
        BY <3>4, <3>5 DEF CancelProgress
    <2>3. CASE t # "canceller"
      <3>1. /\ pc'["canceller"] = pc["canceller"] /\ (cancelAnnounces' <=> cancelAnnounces)
            /\ (lastAssignment' <=> lastAssignment)
            /\ (stored("canceller")' <=> stored("canceller"))
        BY <1>1, <1>4, <1>6, <1>8, <2>3, ThreadNames
           DEF cancelAnnounces, lastAssignment, stored, inSetter
      <3> QED
        BY <1>7, <1>13, <2>1, <3>1, ThreadNames DEF IInv, CancelProgress
    <2> QED
      BY <2>2, <2>3
  <1>16. Delivery'
    BY <1>1, <1>2, <1>7, <1>8, ThreadNames DEF IInv, Delivery
  <1> QED
    BY <1>9, <1>10, <1>11, <1>12, <1>14, <1>15, <1>16 DEF IInv

-----------------------------------------------------------------------------
(* A thread begins, or ends without entering the setter.  Nobody waits for  *)
(* its notification: it announces nothing before and after the step.        *)
LEMMA NoAnnouncer ==
  ASSUME IInv, NEW t \in Threads, pc[t] \in {"idle", "start"},
         \A u \in Threads : u # t => pc'[u] = pc[u],
         UNCHANGED <<state, willKeys, key, queueDone>>, dispatched
  PROVE  FinishIsPending'
  <1>1. \A u \in Threads : announces(u) => announces(u)'
    BY DEF announces
  <1> QED
    BY <1>1 DEF IInv, FinishIsPending, isFinished

(* The queue calls start(): the state is .ready, so cancel() has stored     *)
(* nothing.                                                                 *)
LEMMA DispatchStep ==
  ASSUME IInv, Dispatch
  PROVE  IInv'
  <1>1. /\ pc' \in [Threads -> Steps] /\ pc'["starter"] = "start"
        /\ \A u \in Threads : u # "starter" => pc'[u] = pc[u]
    BY Moves, ThreadNames DEF IInv, Dispatch, Steps
  <1>2. /\ pc["starter"] = "idle" /\ state = "ready"
        /\ UNCHANGED <<state, isCancelled, data, requested, todo, oldValue, willKeys, key, queueDone>>
    BY DEF Dispatch, isReady, setter
  <1>3. \A u \in Threads : (inSetter(u)' <=> inSetter(u)) /\ (stored(u)' <=> stored(u))
    BY <1>1, <1>2 DEF inSetter, stored
  <1>4. ~cancelStored
    BY <1>2 DEF IInv, CancelPreventsStart, dispatched, isFinished
  <1>5. ~cancelStored' /\ pc'["canceller"] # "done"
    BY <1>1, <1>2, <1>3, <1>4, ThreadNames DEF cancelStored, lastAssignment, stored
  <1>6. TypeOK'
    BY <1>1, <1>2 DEF IInv, TypeOK
  <1>7. Assignments' /\ Delivery'
    BY <1>1, <1>2, <1>3, ThreadNames DEF IInv, Assignments, Delivery, isFinished
  <1>8. NewKeyAnnounced' /\ ThreadOrder'
    BY <1>1, <1>2, ThreadNames DEF IInv, NewKeyAnnounced, ThreadOrder
  <1>9. FinishIsPending' /\ CancelPreventsStart'
    BY <1>2, <1>5 DEF FinishIsPending, CancelPreventsStart, isFinished
  <1>10. CancelProgress'
    BY <1>5 DEF CancelProgress, cancelStored
  <1> QED
    BY <1>6, <1>7, <1>8, <1>9, <1>10 DEF IInv

(* A thread other than cancel() begins or ends without a store: what        *)
(* cancel() has done so far and what holds of start() stay.                 *)
LEMMA CancelUndisturbed ==
  ASSUME IInv, NEW t \in Threads, t # "canceller", pc[t] \in {"idle", "start"},
         t = "starter" => pc'[t] = "old",
         \A u \in Threads : u # t => pc'[u] = pc[u],
         todo'["canceller"] = todo["canceller"],
         UNCHANGED <<state, key, queueDone>>, dispatched
  PROVE  CancelPreventsStart' /\ CancelProgress'
  <1>1. /\ pc'["canceller"] = pc["canceller"]
        /\ lastAssignment' <=> lastAssignment
        /\ stored("canceller")' <=> stored("canceller")
    BY ThreadNames DEF lastAssignment, inSetter, stored
  <1>2. (cancelStored' <=> cancelStored) /\ (cancelAnnounces' <=> cancelAnnounces)
    BY <1>1 DEF cancelStored, cancelAnnounces, isFinished
  <1>3. dispatched' /\ (stored("starter")' <=> stored("starter"))
    BY ThreadNames DEF dispatched, stored
  <1> QED
    BY <1>1, <1>2, <1>3 DEF IInv, CancelPreventsStart, CancelProgress

(* start() finds the operation cancelled, or runs main(). *)
LEMMA StartStep ==
  ASSUME IInv, start
  PROVE  IInv'
  <1>1. /\ pc' \in [Threads -> Steps] /\ pc'["starter"] = "old"
        /\ \A u \in Threads : u # "starter" => pc'[u] = pc[u]
    BY Moves, ThreadNames DEF IInv, start, Steps
  <1>2. /\ pc["starter"] = "start" /\ dispatched
        /\ UNCHANGED <<state, isCancelled, data, oldValue, willKeys, key, queueDone>>
    BY DEF start, dispatched
  <1>3. /\ todo' \in [Threads -> Seq(State)]
        /\ \/ todo'["starter"] = <<"executing">>
           \/ todo'["starter"] = <<"finished">> /\ isCancelled
        /\ \A u \in Threads : u # "starter" => todo'[u] = todo[u]
    <2>1. <<"executing">> \in Seq(State) /\ <<"finished">> \in Seq(State)
      BY ShortLists DEF State
    <2> QED
      BY <2>1, ThreadNames DEF start, IInv, TypeOK
  <1>4. requested' \in BOOLEAN /\ (requested => requested')
    <2>1. CASE requested' = TRUE
      BY <2>1
    <2>2. CASE UNCHANGED requested
      BY <2>2 DEF IInv, TypeOK
    <2> QED
      BY <2>1, <2>2 DEF start, main
  <1>5. TypeOK'
    BY <1>1, <1>2, <1>3, <1>4 DEF IInv, TypeOK
  <1>6. Assignments'
    BY <1>1, <1>2, <1>3, ThreadNames DEF IInv, Assignments, inSetter
  <1>7. NewKeyAnnounced'
    BY <1>1, <1>2, <1>3 DEF IInv, NewKeyAnnounced
  <1>8. ThreadOrder'
    BY <1>1, <1>2, <1>4, ThreadNames DEF IInv, ThreadOrder
  <1>9. FinishIsPending'
    BY <1>1, <1>2, NoAnnouncer, ThreadNames
  <1>10. CancelPreventsStart' /\ CancelProgress'
    BY <1>1, <1>2, <1>3, CancelUndisturbed, ThreadNames
  <1>11. Delivery'
    BY <1>1, <1>2, ThreadNames DEF IInv, Delivery, isFinished, stored
  <1> QED
    BY <1>5, <1>6, <1>7, <1>8, <1>9, <1>10, <1>11 DEF IInv

(* The completion handler assigns `data` and enters the setter. *)
LEMMA CompletionStep ==
  ASSUME IInv, completion
  PROVE  IInv'
  <1>1. /\ pc' \in [Threads -> Steps] /\ pc'["reply"] = "old"
        /\ \A u \in Threads : u # "reply" => pc'[u] = pc[u]
    BY Moves, ThreadNames DEF IInv, completion, Steps
  <1>2. /\ pc["reply"] = "idle" /\ requested /\ data' \in Replies
        /\ UNCHANGED <<state, isCancelled, requested, oldValue, willKeys, key, queueDone>>
    BY DEF completion
  <1>3. /\ todo' \in [Threads -> Seq(State)] /\ todo'["reply"] = <<"finished">>
        /\ \A u \in Threads : u # "reply" => todo'[u] = todo[u]
    <2>1. <<"finished">> \in Seq(State)
      BY ShortLists DEF State
    <2> QED
      BY <2>1, ThreadNames DEF completion, IInv, TypeOK
  <1>4. dispatched
    BY <1>2 DEF IInv, ThreadOrder, dispatched
  <1>5. TypeOK'
    BY <1>1, <1>2, <1>3 DEF IInv, TypeOK
  <1>6. Assignments'
    BY <1>1, <1>2, <1>3, ThreadNames DEF IInv, Assignments, inSetter
  <1>7. NewKeyAnnounced'
    BY <1>1, <1>2, <1>3 DEF IInv, NewKeyAnnounced
  <1>8. ThreadOrder'
    BY <1>1, <1>2, ThreadNames DEF IInv, ThreadOrder
  <1>9. FinishIsPending'
    BY <1>1, <1>2, <1>4, NoAnnouncer, ThreadNames
  <1>10. CancelPreventsStart' /\ CancelProgress'
    BY <1>1, <1>2, <1>3, <1>4, CancelUndisturbed, ThreadNames
  <1>11. Delivery'
    BY <1>1, <1>2, ThreadNames DEF IInv, Delivery, isFinished, stored
  <1> QED
    BY <1>5, <1>6, <1>7, <1>8, <1>9, <1>10, <1>11 DEF IInv

(* The completion handler finds the operation released. *)
LEMMA ReleasedStep ==
  ASSUME IInv, completionWithoutSelf
  PROVE  IInv'
  <1>1. /\ pc' \in [Threads -> Steps] /\ pc'["reply"] = "done"
        /\ \A u \in Threads : u # "reply" => pc'[u] = pc[u]
    BY Moves, ThreadNames DEF IInv, completionWithoutSelf, Steps
  <1>2. /\ pc["reply"] = "idle" /\ requested /\ pc["canceller"] = "done"
        /\ UNCHANGED <<state, isCancelled, data, requested, todo, oldValue, willKeys, key, queueDone>>
    BY DEF completionWithoutSelf, setter
  <1>3. dispatched /\ isCancelled
    BY <1>2 DEF IInv, ThreadOrder, dispatched
  <1>4. TypeOK'
    BY <1>1, <1>2 DEF IInv, TypeOK
  <1>5. Assignments'
    BY <1>1, <1>2, ThreadNames DEF IInv, Assignments, inSetter
  <1>6. NewKeyAnnounced'
    BY <1>1, <1>2 DEF IInv, NewKeyAnnounced
  <1>7. ThreadOrder'
    BY <1>1, <1>2, ThreadNames DEF IInv, ThreadOrder
  <1>8. FinishIsPending'
    BY <1>1, <1>2, <1>3, NoAnnouncer, ThreadNames
  <1>9. CancelPreventsStart' /\ CancelProgress'
    BY <1>1, <1>2, <1>3, CancelUndisturbed, ThreadNames
  <1>10. Delivery'
    BY <1>1, <1>2, <1>3 DEF Delivery
  <1> QED
    BY <1>4, <1>5, <1>6, <1>7, <1>8, <1>9, <1>10 DEF IInv

(* Somebody calls cancel(). *)
LEMMA CancelStep ==
  ASSUME IInv, cancel
  PROVE  IInv'
  <1>1. /\ pc' \in [Threads -> Steps] /\ pc'["canceller"] = "old"
        /\ \A u \in Threads : u # "canceller" => pc'[u] = pc[u]
    BY Moves, ThreadNames DEF IInv, cancel, Steps
  <1>2. /\ pc["canceller"] = "idle" /\ isCancelled' = TRUE
        /\ UNCHANGED <<state, data, requested, oldValue, willKeys, key, queueDone>>
    BY DEF cancel
  <1>3. /\ todo' \in [Threads -> Seq(State)] /\ todo'["canceller"] = <<"finished", "finished">>
        /\ \A u \in Threads : u # "canceller" => todo'[u] = todo[u]
    <2>1. <<"finished", "finished">> \in Seq(State)
      BY ShortLists DEF State
    <2> QED
      BY <2>1, ThreadNames DEF cancel, cancelSets, IInv, TypeOK
  <1>4. TypeOK'
    BY <1>1, <1>2, <1>3 DEF IInv, TypeOK
  <1>5. Assignments'
    BY <1>1, <1>2, <1>3, ThreadNames DEF IInv, Assignments, inSetter
  <1>6. NewKeyAnnounced'
    BY <1>1, <1>2, <1>3 DEF IInv, NewKeyAnnounced
  <1>7. ThreadOrder'
    BY <1>1, <1>2, ThreadNames DEF IInv, ThreadOrder
  <1>8. FinishIsPending'
    <2>1. dispatched' <=> dispatched
      BY <1>1, ThreadNames DEF dispatched
    <2>2. dispatched => FinishIsPending'
      BY <1>1, <1>2, NoAnnouncer, ThreadNames
    <2> QED
      BY <2>1, <2>2 DEF FinishIsPending
  <1>9. ~cancelStored'
    <2>1. <<"finished", "finished">> # <<"finished">>
      BY ShortLists DEF State
    <2> QED
      BY <1>1, <1>3, <2>1 DEF cancelStored, lastAssignment, stored
  <1>10. CancelPreventsStart' /\ CancelProgress'
    BY <1>1, <1>9 DEF CancelPreventsStart, CancelProgress, cancelStored
  <1>11. Delivery'
    BY <1>1, <1>2, ThreadNames DEF IInv, Delivery
  <1> QED
    BY <1>4, <1>5, <1>6, <1>7, <1>8, <1>10, <1>11 DEF IInv

(* The invariant is inductive. *)
LEMMA Inductive == IInv /\ [Next]_vars => IInv'
  <1> SUFFICES ASSUME IInv, [Next]_vars PROVE IInv'
    OBVIOUS
  <1>1. ASSUME NEW t \in Threads, Setter(t) PROVE IInv'
    BY <1>1, LoadStep, WillStep, StoreStep, KeyStep, NotifyNewStep, NotifyOldStep DEF Setter
  <1>2. CASE UNCHANGED vars
    BY <1>2 DEF vars, IInv, TypeOK, Assignments, NewKeyAnnounced, ThreadOrder, FinishIsPending,
       CancelPreventsStart, CancelProgress, Delivery, announces, inSetter, stored, dispatched,
       isFinished, lastAssignment, cancelStored, cancelAnnounces
  <1> QED
    BY <1>1, <1>2, DispatchStep, StartStep, CompletionStep, ReleasedStep, CancelStep
       DEF Next, Terminated

(* Every reachable state satisfies the inductive invariant. *)
THEOREM Invariance == Spec => []IInv
  BY InitIInv, Inductive, PTL DEF Spec

(* Every reachable state is of the declared types: each key that willSet    *)
(* and didSet notify is the key path of a state.                            *)
THEOREM TypeCorrect == Spec => []TypeOK
  <1>1. IInv => TypeOK
    BY DEF IInv
  <1> QED
    BY <1>1, Invariance, PTL

(* The setter of `state` never leaves a started operation finished without  *)
(* its queue knowing, however start(), the reply and cancel() overlap.      *)
THEOREM FinishAnnounced == Spec => []FinishIsAnnounced
  <1>1. \A t \in Threads : announces(t) => inDidSet(t)
    BY DEF announces, inDidSet
  <1>2. IInv => FinishIsAnnounced
    BY <1>1 DEF IInv, FinishIsPending, FinishIsAnnounced
  <1> QED
    BY <1>2, Invariance, PTL

(* When cancel() has returned, a started operation is finished for its      *)
(* queue: NetworkOperation.cancel assigns .finished a second time after     *)
(* super.cancel(), and start() can overwrite only one of the two.  An       *)
(* operation that was not started is .finished and has sent no request.     *)
THEOREM CancelReachesQueue == Spec => []CancelFinishes
  <1>1. ASSUME IInv, pc["canceller"] = "done", ~dispatched
        PROVE  isFinished /\ ~requested
    BY <1>1 DEF IInv, CancelPreventsStart, cancelStored, stored, ThreadOrder, dispatched
  <1>2. IInv => CancelFinishes
    BY <1>1 DEF IInv, CancelProgress, CancelFinishes
  <1> QED
    BY <1>2, Invariance, PTL

-----------------------------------------------------------------------------
(* The refinement of OperationContract.  `result` in the contract is: *)
delivered == IF isCancelled THEN NoData ELSE data

(* The initial states map to the initial state of the contract. *)
LEMMA InitRefines == Init => Contract!Init
  <1> SUFFICES ASSUME Init PROVE Contract!Init
    OBVIOUS
  <1>1. isCancelled = FALSE /\ queueDone = FALSE /\ data = NoData /\ ~dispatched
    BY ThreadNames DEF Init, dispatched
  <1>2. phase = "ready"
    BY <1>1 DEF phase, dispatched, stored
  <1> QED
    BY <1>1, <1>2 DEF Contract!Init

(* A cancelled operation promises nothing. *)
LEMMA CancelledPhase ==
  /\ isCancelled => phase = "cancelled" /\ delivered = NoData
  /\ isCancelled' => phase' = "cancelled" /\ delivered' = NoData
  /\ ~isCancelled => phase # "cancelled" /\ delivered = data
  /\ ~isCancelled' => phase' # "cancelled" /\ delivered' = data'
  BY DEF phase, delivered

(* How the queue sees an operation that is not cancelled. *)
LEMMA PhaseBefore ==
  ASSUME ~isCancelled
  PROVE  /\ queueDone => phase = "finished"
         /\ (~queueDone /\ ~dispatched) => phase = "ready"
         /\ (~queueDone /\ dispatched /\ ~stored("starter")) => phase = "starting"
         /\ (~queueDone /\ dispatched /\ stored("starter") /\ stored("reply") /\ isExecuting) => phase = "lost"
         /\ (~queueDone /\ dispatched /\ stored("starter") /\ ~(stored("reply") /\ isExecuting)) => phase = "executing"
  BY DEF phase, dispatched, stored

(* The same after a step. *)
LEMMA PhaseAfter ==
  ASSUME ~isCancelled'
  PROVE  /\ queueDone' => phase' = "finished"
         /\ (~queueDone' /\ ~dispatched') => phase' = "ready"
         /\ (~queueDone' /\ dispatched' /\ ~stored("starter")') => phase' = "starting"
         /\ (~queueDone' /\ dispatched' /\ stored("starter")' /\ stored("reply")' /\ isExecuting') => phase' = "lost"
         /\ (~queueDone' /\ dispatched' /\ stored("starter")' /\ ~(stored("reply") /\ isExecuting)') => phase' = "executing"
  BY DEF phase, dispatched, stored

(* A step of the contract, or one that the contract does not see. *)
ContractStep == Contract!Next \/ UNCHANGED <<phase, delivered>>

(* A step that changes nothing the queue sees. *)
LEMMA HiddenStep ==
  ASSUME ~isCancelled, UNCHANGED <<isCancelled, data, queueDone>>,
         dispatched' <=> dispatched, isExecuting' <=> isExecuting,
         stored("starter")' <=> stored("starter"), stored("reply")' <=> stored("reply")
  PROVE  UNCHANGED <<phase, delivered>>
  BY CancelledPhase, PhaseBefore, PhaseAfter

(* A step that sees .finished and tells the queue so, or not, is the Finish *)
(* of the contract: only the reply has stored .finished.                    *)
LEMMA FinishStep ==
  ASSUME IInv, ~isCancelled, UNCHANGED <<isCancelled, data, state>>,
         queueDone => queueDone', queueDone' => queueDone \/ isFinished,
         dispatched' <=> dispatched,
         stored("starter")' <=> stored("starter"), stored("reply")' <=> stored("reply")
  PROVE  ContractStep
  <1>1. UNCHANGED delivered
    BY CancelledPhase
  <1>2. isExecuting' <=> isExecuting
    BY DEF isExecuting
  <1>3. CASE queueDone \/ ~queueDone'
    BY <1>1, <1>2, <1>3, PhaseBefore, PhaseAfter DEF ContractStep
  <1>4. CASE ~queueDone /\ queueDone'
    <2>1. isFinished /\ stored("reply")
      BY <1>4 DEF IInv, Delivery
    <2>2. dispatched /\ pc["reply"] # "idle"
      BY <2>1 DEF IInv, ThreadOrder, dispatched, stored
    <2>3. delivered # NoData
      BY <2>2, CancelledPhase, NoDataAssumption DEF IInv, Delivery
    <2>4. phase \in {"starting", "executing"} /\ phase' = "finished"
      BY <1>4, <2>1, <2>2, PhaseBefore, PhaseAfter DEF isFinished, isExecuting
    <2>5. Contract!Finish
      BY <1>1, <2>3, <2>4 DEF Contract!Finish, delivered
    <2> QED
      BY <2>5 DEF ContractStep, Contract!Next
  <1> QED
    BY <1>3, <1>4

(* A setter step of start() or of the reply, while nobody has cancelled. *)
LEMMA SetterRefines ==
  ASSUME IInv, ~isCancelled, NEW t \in Threads, Setter(t)
  PROVE  ContractStep
  <1>1. t = "starter" \/ t = "reply"
    <2>1. pc["canceller"] = "idle"
      BY DEF IInv, ThreadOrder
    <2>2. pc[t] # "idle"
      BY DEF Setter, LoadOldValue, willSet, Store, didSetKey, didSetNew, didSetOld
    <2> QED
      BY <2>1, <2>2, ThreadNames
  <1>2. CASE LoadOldValue(t) \/ willSet(t) \/ didSetKey(t)
    <2>1. UNCHANGED <<state, isCancelled, data, queueDone>>
      BY <1>2 DEF LoadOldValue, willSet, didSetKey
    <2>2. \A u \in Threads : (pc'[u] = "idle" <=> pc[u] = "idle") /\ (stored(u)' <=> stored(u))
      BY <1>2 DEF LoadOldValue, willSet, didSetKey, Goto, stored, IInv, TypeOK
    <2> QED
      BY <2>1, <2>2, HiddenStep, ThreadNames DEF ContractStep, dispatched, isExecuting
  <1>3. CASE didSetNew(t)
    <2>1. queueDone => queueDone'
      BY <1>3, Notified DEF didSetNew, IInv
    <2>2. queueDone' => queueDone \/ isFinished
      BY <1>3, Notified DEF didSetNew, IInv
    <2>3. \A u \in Threads : (pc'[u] = "idle" <=> pc[u] = "idle") /\ (stored(u)' <=> stored(u))
      BY <1>3 DEF didSetNew, Goto, stored, IInv, TypeOK
    <2>4. UNCHANGED <<isCancelled, data, state>>
      BY <1>3 DEF didSetNew
    <2> QED
      BY <2>1, <2>2, <2>3, <2>4, FinishStep, ThreadNames DEF dispatched
  <1>4. CASE didSetOld(t)
    <2>1. queueDone => queueDone'
      BY <1>4, Notified DEF didSetOld, IInv
    <2>2. queueDone' => queueDone \/ isFinished
      BY <1>4, Notified DEF didSetOld, IInv
    <2>3. Len(todo[t]) = 1
      <3>1. todo[t] = <<"executing">> \/ todo[t] = <<"finished">>
        BY <1>1, <1>4 DEF IInv, Assignments, inSetter, didSetOld
      <3> QED
        BY <3>1, ShortLists DEF State
    <2>4. \A u \in Threads : (pc'[u] = "idle" <=> pc[u] = "idle") /\ (stored(u)' <=> stored(u))
      BY <1>4, <2>3 DEF didSetOld, Goto, stored, IInv, TypeOK
    <2>5. UNCHANGED <<isCancelled, data, state>>
      BY <1>4 DEF didSetOld
    <2> QED
      BY <2>1, <2>2, <2>4, <2>5, FinishStep, ThreadNames DEF dispatched
  <1>5. CASE Store(t)
    <2>1. /\ pc[t] = "store" /\ pc'[t] = "read"
          /\ \A u \in Threads : u # t => pc'[u] = pc[u]
      BY <1>5 DEF Store, Goto, IInv, TypeOK
    <2>2. UNCHANGED <<isCancelled, data, queueDone, delivered>>
      BY <1>5 DEF Store, delivered
    <2>3. /\ t = "starter" => state' = "executing"
          /\ t = "reply" => state' = "finished"
      BY <1>5, <2>1, Assigned DEF Store, inSetter
    <2>4. /\ dispatched /\ dispatched'
          /\ stored(t)' /\ ~stored(t)
      BY <1>1, <2>1, ThreadNames DEF dispatched, stored, IInv, ThreadOrder
    <2>5. CASE queueDone
      BY <2>2, <2>5, PhaseBefore, PhaseAfter DEF ContractStep
    <2>6. CASE ~queueDone /\ t = "reply"
      <3>1. stored("starter")' <=> stored("starter")
        BY <2>1, <2>6, ThreadNames DEF stored
      <3> QED
        BY <2>2, <2>3, <2>4, <2>6, <3>1, PhaseBefore, PhaseAfter DEF ContractStep, isExecuting
    <2>7. CASE ~queueDone /\ t = "starter"
      <3>1. phase = "starting"
        BY <2>4, <2>7, PhaseBefore
      <3>2. stored("reply")' <=> stored("reply")
        BY <2>1, <2>7, ThreadNames DEF stored
      <3>3. CASE stored("reply")
        <4>1. delivered # NoData
          BY <3>3, CancelledPhase, NoDataAssumption DEF IInv, Delivery, stored
        <4>2. phase' = "lost"
          BY <2>2, <2>3, <2>4, <2>7, <3>2, <3>3, PhaseAfter DEF isExecuting
        <4>3. Contract!Lose
          BY <2>2, <3>1, <4>1, <4>2 DEF Contract!Lose, delivered
        <4> QED
          BY <4>3 DEF ContractStep, Contract!Next
      <3>4. CASE ~stored("reply")
        <4>1. phase' = "executing"
          BY <2>2, <2>4, <2>7, <3>2, <3>4, PhaseAfter
        <4>2. Contract!Return
          BY <2>2, <3>1, <4>1 DEF Contract!Return, delivered
        <4> QED
          BY <4>2 DEF ContractStep, Contract!Next
      <3> QED
        BY <3>3, <3>4
    <2> QED
      BY <1>1, <2>5, <2>6, <2>7
  <1> QED
    BY <1>2, <1>3, <1>4, <1>5 DEF Setter

(* Every step is one of the contract or hidden from it. *)
LEMMA NextRefines ==
  ASSUME IInv, [Next]_vars
  PROVE  ContractStep
  <1>1. CASE cancel
    <2>1. ~isCancelled /\ isCancelled'
      BY <1>1 DEF cancel, IInv, ThreadOrder
    <2>2. phase # "cancelled" /\ phase' = "cancelled" /\ delivered' = NoData
      BY <2>1, CancelledPhase
    <2>3. Contract!Cancel
      BY <2>2 DEF Contract!Cancel, delivered
    <2> QED
      BY <2>3 DEF ContractStep, Contract!Next
  <1>2. CASE ~cancel
    <2>1. UNCHANGED isCancelled
      BY <1>2 DEF Next, vars, Dispatch, start, completion, completionWithoutSelf, Terminated,
         Setter, LoadOldValue, willSet, Store, didSetKey, didSetNew, didSetOld
    <2>2. CASE isCancelled
      BY <2>1, <2>2, CancelledPhase DEF ContractStep
    <2>3. CASE ~isCancelled
      <3>1. ASSUME NEW t \in Threads, Setter(t) PROVE ContractStep
        BY <2>3, <3>1, SetterRefines
      <3>2. CASE Dispatch
        <4>1. /\ pc["starter"] = "idle" /\ pc'["starter"] = "start"
              /\ UNCHANGED <<data, queueDone, delivered>>
          BY <3>2, ThreadNames DEF Dispatch, Goto, delivered, IInv, TypeOK
        <4>2. ~queueDone
          BY <2>3, <4>1 DEF IInv, Delivery, ThreadOrder, stored
        <4>3. phase = "ready" /\ phase' = "starting"
          BY <2>1, <2>3, <4>1, <4>2, PhaseBefore, PhaseAfter DEF dispatched, stored
        <4>4. Contract!Start
          BY <4>1, <4>3 DEF Contract!Start, delivered
        <4> QED
          BY <4>4 DEF ContractStep, Contract!Next
      <3>3. CASE start
        <4>1. /\ pc["starter"] = "start" /\ pc'["starter"] = "old" /\ pc'["reply"] = pc["reply"]
              /\ UNCHANGED <<state, data, queueDone>>
          BY <3>3, ThreadNames DEF start, Goto, IInv, TypeOK
        <4> QED
          BY <2>1, <2>3, <4>1, HiddenStep DEF ContractStep, dispatched, stored, isExecuting
      <3>4. CASE completion
        <4>1. /\ pc["reply"] = "idle" /\ pc'["reply"] = "old" /\ pc'["starter"] = pc["starter"]
              /\ UNCHANGED <<state, queueDone>> /\ data' \in Replies /\ requested
          BY <3>4, ThreadNames DEF completion, Goto, IInv, TypeOK
        <4>2. ~queueDone /\ dispatched /\ data = NoData /\ ~stored("reply") /\ ~stored("reply")'
          BY <2>3, <4>1 DEF IInv, Delivery, ThreadOrder, dispatched, stored
        <4>3. dispatched' /\ (stored("starter")' <=> stored("starter")) /\ ~queueDone'
          BY <4>1, <4>2 DEF dispatched, stored
        <4>4. phase \in {"starting", "executing"} /\ UNCHANGED phase
          BY <2>1, <2>3, <4>2, <4>3, PhaseBefore, PhaseAfter
        <4>5. delivered = NoData /\ delivered' \in Replies
          BY <2>1, <2>3, <4>1, <4>2, CancelledPhase
        <4>6. Contract!Deliver
          BY <4>4, <4>5 DEF Contract!Deliver, delivered
        <4> QED
          BY <4>6 DEF ContractStep, Contract!Next
      <3>5. ~completionWithoutSelf
        BY <2>3 DEF completionWithoutSelf, IInv, ThreadOrder
      <3>6. CASE UNCHANGED vars
        BY <3>6 DEF vars, ContractStep, phase, delivered, dispatched, stored, isExecuting
      <3> QED
        BY <1>2, <3>1, <3>2, <3>3, <3>4, <3>5, <3>6 DEF Next, Terminated
    <2> QED
      BY <2>2, <2>3
  <1> QED
    BY <1>1, <1>2

(* start(), the setter of `state` and the completion handler keep the       *)
(* safety part of the contract that FriendsPipeline relies on: one reply    *)
(* after start(), one finish after it, and a finish is lost only when the   *)
(* reply comes before start() marks the operation executing.                *)
THEOREM RefinesContract == Spec => Contract!SafetySpec
  <1>1. IInv /\ [Next]_vars => [Contract!Next]_(Contract!vars)
    BY NextRefines DEF ContractStep, Contract!vars, delivered
  <1> QED
    BY <1>1, InitRefines, Invariance, PTL DEF Spec, Contract!SafetySpec
=============================================================================
