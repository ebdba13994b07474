----------------------- MODULE FriendsPipelineProofs -----------------------
(***************************************************************************)
(* Theorems about FriendsPipeline for every set of friends, every number   *)
(* of loads and both orders of the main queue.                             *)
(***************************************************************************)
EXTENDS FriendsPipeline, TLAPS

(* Constants and expressions that every step needs. *)
LEMMA LoadsAreNat == Loads \subseteq Nat /\ MaxLoads \in Nat
  BY MaxLoadsAssumption DEF Loads

(* The loads of the running process are loads. *)
LEMMA InProcessLoads == TypeOK => InProcess \subseteq Loads
  BY MaxLoadsAssumption DEF TypeOK, InProcess, Loads

LEMMA InitTypeOK == Init => TypeOK
  <1> SUFFICES ASSUME Init PROVE TypeOK
    OBVIOUS
  <1>1. NoData \in Replies \cup {NoData}
    OBVIOUS
  <1>2. loads \in 0 .. MaxLoads /\ first \in 1 .. MaxLoads + 1 /\ first <= loads + 1
    BY MaxLoadsAssumption DEF Init
  <1> QED
    BY <1>1, <1>2 DEF Init, TypeOK, NetPhases

(* The steps of the network operation of one load. *)
LEMMA NetworkTypeOK ==
  ASSUME TypeOK, NEW p \in InProcess, NetworkSteps(p)
  PROVE  TypeOK'
  <1> USE DEF TypeOK, NetPhases
  <1>0. p \in Loads
    BY InProcessLoads
  <1>1. CASE networkStart(p)
    BY <1>0, <1>1 DEF networkStart, process, inFlight, realm
  <1>2. CASE networkExecuting(p)
    BY <1>0, <1>2 DEF networkExecuting, process, inFlight, realm
  <1>3. CASE networkReply(p)
    <2>1. PICK r \in {[kind |-> "nil", items |-> {}],
                      [kind |-> "undecodable", items |-> {}],
                      [kind |-> "items", items |-> server]} :
            data' = [data EXCEPT ![p] = r]
      BY <1>3 DEF networkReply
    <2>2. r \in Replies
      BY <2>1 DEF Replies
    <2>3. data' \in [Loads -> Replies \cup {NoData}]
      BY <1>0, <2>1, <2>2
    <2> QED
      BY <1>3, <2>3 DEF networkReply, process, inFlight, realm
  <1>4. CASE networkFinish(p)
    BY <1>0, <1>4 DEF networkFinish, process, inFlight, realm
  <1>5. CASE networkLose(p)
    BY <1>0, <1>5 DEF networkLose, process, inFlight, realm
  <1> QED
    BY <1>1, <1>2, <1>3, <1>4, <1>5 DEF NetworkSteps

(* ParsingOperation, SavingOperation and DownloadingAvatarsOperation. *)
LEMMA AppTypeOK ==
  ASSUME TypeOK, NEW p \in InProcess, AppSteps(p)
  PROVE  TypeOK'
  <1> USE DEF TypeOK, NetPhases
  <1>0. p \in Loads
    BY InProcessLoads
  <1>1. CASE parsingMain(p)
    <2>1. data[p].items \in SUBSET Friend
      BY <1>0 DEF Replies, NoData
    <2>2. parsed' \in [Loads -> SUBSET Friend]
      BY <1>0, <1>1, <2>1 DEF parsingMain
    <2> QED
      BY <1>0, <1>1, <2>2 DEF parsingMain, process, inFlight, realm
  <1>2. CASE savingDelete(p)
    <2>1. object' \in [Loads -> {"unmanaged", "managed", "invalidated"}]
      BY <1>2 DEF savingDelete, deleteAllFriendsObject
    <2> QED
      BY <1>0, <1>2, <2>1 DEF savingDelete, deleteAllFriendsObject, process, inFlight
  <1>3. CASE savingAdd(p)
    BY <1>0, <1>3 DEF savingAdd, saveGotFriendsInRealm, process, inFlight
  <1>4. CASE avatarsMain(p)
    <2>1. avatars' \in [Loads -> {"waiting", "executing"}]
      BY <1>0, <1>4 DEF avatarsMain
    <2>2. CASE crash
      BY <1>4, <2>1, <2>2, MaxLoadsAssumption DEF avatarsMain, crash, realm
    <2>3. CASE ~crash
      <3>1. PICK withURL \in SUBSET parsed[p] :
              downloads' = downloads \cup ({p} \X withURL)
        BY <1>4, <2>3 DEF avatarsMain
      <3>2. downloads' \in SUBSET (Loads \X Friend)
        BY <1>0, <3>1
      <3> QED
        BY <1>4, <2>1, <2>3, <3>2 DEF avatarsMain, realm
    <2> QED
      BY <2>2, <2>3
  <1> QED
    BY <1>1, <1>2, <1>3, <1>4 DEF AppSteps

LEMMA NextTypeOK == TypeOK /\ [Next]_vars => TypeOK'
  <1> SUFFICES ASSUME TypeOK, [Next]_vars PROVE TypeOK'
    OBVIOUS
  <1>1. CASE downloadUserFriendsWithOperations
    BY <1>1, MaxLoadsAssumption
    DEF downloadUserFriendsWithOperations, TypeOK, operations, inFlight, realm
  <1>2. CASE \E p \in InProcess : NetworkSteps(p) \/ AppSteps(p)
    BY <1>2, NetworkTypeOK, AppTypeOK
  <1>3. CASE \E d \in downloads : avatarDownloaded(d)
    BY <1>3 DEF avatarDownloaded, TypeOK, process, operations, realm
  <1>4. CASE \E d \in blocks : saveAvatarForUserID(d)
    <2>1. PICK d \in blocks : saveAvatarForUserID(d)
      BY <1>4
    <2>2. dbAvatars' \in SUBSET Friend
      BY <2>1 DEF saveAvatarForUserID, TypeOK
    <2>3. blocks' \in SUBSET (Loads \X Friend) /\ downloads' \in SUBSET (Loads \X Friend)
      BY <2>1 DEF saveAvatarForUserID, crash, TypeOK
    <2>4. loads' = loads /\ (first' = first \/ first' = loads + 1)
      BY <2>1 DEF saveAvatarForUserID, crash
    <2>5. first' \in 1 .. MaxLoads + 1 /\ first' <= loads' + 1
      BY <2>4, MaxLoadsAssumption DEF TypeOK
    <2>6. crashed' \in BOOLEAN
      BY <2>1 DEF saveAvatarForUserID, crash, TypeOK
    <2> QED
      BY <2>1, <2>2, <2>3, <2>5, <2>6 DEF saveAvatarForUserID, TypeOK, operations
  <1>5. CASE Kill
    BY <1>5, MaxLoadsAssumption DEF Kill, TypeOK, operations, realm
  <1>6. CASE ServerEdit
    BY <1>6 DEF ServerEdit, TypeOK, process, operations, inFlight, realm
  <1>7. CASE UNCHANGED vars
    BY <1>7 DEF vars, TypeOK, process, operations, inFlight, realm
  <1> QED
    BY <1>1, <1>2, <1>3, <1>4, <1>5, <1>6, <1>7 DEF Next

(* Every variable keeps its type, whatever the order of loads, replies,     *)
(* kills and edits at vk.com.                                               *)
THEOREM TypeCorrect == Spec => []TypeOK
  BY InitTypeOK, NextTypeOK, PTL DEF Spec

-----------------------------------------------------------------------------
(* The inductive invariant. *)

(* The operations of a load run in the order of their dependencies, and     *)
(* only a finished SavingOperation has handed its objects to Realm.         *)
OperationOrder ==
  \A p \in Loads :
    /\ saving[p] # "waiting" => parsing[p] = "finished"
    /\ avatars[p] = "executing" => saving[p] = "finished"
    /\ object[p] # "unmanaged" => saving[p] = "finished"

(* Nothing has happened to a load that is still to come. *)
FreshLoads ==
  \A p \in Loads : p > loads => saving[p] = "waiting"

(* One SavingOperation at a time is between its writes; Realm is empty and  *)
(* no avatars operation holds the main queue then.                          *)
OneSaver ==
  /\ \A p, q \in InProcess : saving[p] = "deleted" /\ saving[q] = "deleted" => p = q
  /\ \A p \in InProcess : saving[p] = "deleted" => db = {} /\ mainQueueFree

(* Work on avatars belongs to an operation that holds the main queue and    *)
(* whose objects were not deleted.                                          *)
AvatarsHoldQueue ==
  \A d \in downloads \cup blocks :
    d[1] \in InProcess /\ avatars[d[1]] = "executing" /\ object[d[1]] # "invalidated"

(* In submission order, objects of a load are deleted only by an earlier    *)
(* load, whose DownloadingAvatarsOperation then goes first.                 *)
DeletedByEarlier ==
  InOrder => \A p \in InProcess : object[p] = "invalidated" =>
               \E q \in InProcess : q < p /\ saving[q] # "waiting"

IInv ==
  /\ TypeOK
  /\ OperationOrder
  /\ FreshLoads
  /\ OneSaver
  /\ AvatarsHoldQueue
  /\ DeletedByEarlier
  /\ DbIsOneReply
  /\ NoInvalidatedAccess

LEMMA InitIInv == Init => IInv
  <1> SUFFICES ASSUME Init PROVE IInv
    OBVIOUS
  <1>1. TypeOK
    BY InitTypeOK
  <1>2. InProcess = {}
    BY DEF Init, InProcess
  <1>3. OperationOrder /\ FreshLoads /\ OneSaver /\ AvatarsHoldQueue /\ DeletedByEarlier
    BY <1>2 DEF Init, OperationOrder, FreshLoads, OneSaver, AvatarsHoldQueue, DeletedByEarlier
  <1>4. DbIsOneReply /\ NoInvalidatedAccess
    BY DEF Init, DbIsOneReply, NoInvalidatedAccess
  <1> QED
    BY <1>1, <1>3, <1>4 DEF IInv

(* Steps that leave alone everything the invariant speaks about. *)
LEMMA FrameIInv ==
  ASSUME IInv, TypeOK',
         UNCHANGED <<loads, first, parsing, parsed, saving, avatars, object,
                     downloads, blocks, db, installed, crashed>>
  PROVE  IInv'
  BY DEF IInv, OperationOrder, FreshLoads, OneSaver, AvatarsHoldQueue,
         DeletedByEarlier, DbIsOneReply, NoInvalidatedAccess, InProcess, mainQueueFree

(* The process ends: nothing is in process any more. *)
LEMMA EndIInv ==
  ASSUME IInv, TypeOK', first' = loads + 1, downloads' = {}, blocks' = {},
         UNCHANGED <<loads, parsing, parsed, saving, object, db, installed>>,
         \A p \in Loads : avatars'[p] = "executing" => saving[p] = "finished",
         NoInvalidatedAccess'
  PROVE  IInv'
  <1>1. InProcess' = {}
    BY MaxLoadsAssumption DEF InProcess, IInv, TypeOK
  <1>2. OperationOrder' /\ FreshLoads' /\ DbIsOneReply'
    BY DEF IInv, OperationOrder, FreshLoads, DbIsOneReply
  <1>3. OneSaver' /\ AvatarsHoldQueue' /\ DeletedByEarlier'
    BY <1>1 DEF OneSaver, AvatarsHoldQueue, DeletedByEarlier
  <1> QED
    BY <1>2, <1>3 DEF IInv

(* A new load starts with operations that have done nothing. *)
LEMMA LoadIInv ==
  ASSUME IInv, TypeOK', downloadUserFriendsWithOperations
  PROVE  IInv'
  <1> USE DEF downloadUserFriendsWithOperations, operations, inFlight, realm
  <1>0. loads \in Nat /\ first \in Nat /\ loads' = loads + 1 /\ first' = first
        /\ loads + 1 \in Loads
    BY MaxLoadsAssumption DEF IInv, TypeOK, Loads
  <1>1. InProcess' = InProcess \cup {loads + 1}
    BY <1>0 DEF InProcess, IInv, TypeOK
  <1>2. saving[loads + 1] = "waiting" /\ object[loads + 1] = "unmanaged"
    BY <1>0 DEF IInv, FreshLoads, OperationOrder, TypeOK
  <1>3. OperationOrder' /\ DbIsOneReply' /\ NoInvalidatedAccess'
    BY DEF IInv, OperationOrder, DbIsOneReply, NoInvalidatedAccess
  <1>4. FreshLoads'
    BY <1>0, LoadsAreNat DEF IInv, FreshLoads
  <1>5. OneSaver'
    BY <1>1, <1>2 DEF mainIdle, OneSaver
  <1>6. AvatarsHoldQueue'
    BY <1>1 DEF IInv, AvatarsHoldQueue
  <1>7. DeletedByEarlier'
    BY <1>1, <1>2 DEF IInv, DeletedByEarlier
  <1> QED
    BY <1>3, <1>4, <1>5, <1>6, <1>7 DEF IInv

(* ParsingOperation: the list it leaves was not in Realm before. *)
LEMMA ParsingIInv ==
  ASSUME IInv, TypeOK', NEW p \in Loads, parsingMain(p)
  PROVE  IInv'
  <1> USE DEF parsingMain, process, inFlight, realm
  <1>1. \A q \in Loads : parsing[q] = "finished" => parsing'[q] = "finished" /\ parsed'[q] = parsed[q]
    BY DEF IInv, TypeOK
  <1>2. OperationOrder'
    BY <1>1 DEF IInv, OperationOrder
  <1>3. DbIsOneReply'
    BY <1>1 DEF IInv, DbIsOneReply
  <1>4. FreshLoads' /\ OneSaver' /\ AvatarsHoldQueue' /\ DeletedByEarlier' /\ NoInvalidatedAccess'
    BY DEF IInv, FreshLoads, OneSaver, AvatarsHoldQueue, DeletedByEarlier,
           NoInvalidatedAccess, InProcess, mainQueueFree
  <1> QED
    BY <1>2, <1>3, <1>4 DEF IInv

(* The first write of SavingOperation, while nobody holds the main queue:   *)
(* no avatar work is left, and in submission order the objects that it      *)
(* deletes belong to later loads.                                           *)
LEMMA DeleteIInv ==
  ASSUME IInv, TypeOK', NEW p \in InProcess, savingDelete(p)
  PROVE  IInv'
  <1> USE DEF savingDelete, deleteAllFriendsObject, process, inFlight
  <1>0. p \in Loads /\ InProcess \subseteq Loads /\ InProcess' = InProcess
    BY InProcessLoads DEF IInv, InProcess
  <1>1. saving' = [saving EXCEPT ![p] = "deleted"] /\ saving \in [Loads -> {"waiting", "deleted", "finished"}]
    BY DEF IInv, TypeOK
  <1>2. OperationOrder'
    BY <1>0, <1>1 DEF IInv, OperationOrder
  <1>3. FreshLoads'
    <2>1. ~(p > loads)
      BY DEF InProcess, IInv, TypeOK
    <2> QED
      BY <1>1, <2>1 DEF IInv, FreshLoads
  <1>4. OneSaver'
    BY <1>0, <1>1 DEF mainQueueStarts, mainIdle, mainQueueFree, OneSaver
  <1>5. downloads = {} /\ blocks = {}
    BY DEF IInv, AvatarsHoldQueue, mainQueueStarts, mainQueueFree
  <1>6. AvatarsHoldQueue'
    BY <1>5 DEF AvatarsHoldQueue
  <1>7. DeletedByEarlier'
    <2> SUFFICES ASSUME InOrder, NEW r \in InProcess, object'[r] = "invalidated"
                 PROVE  \E q \in InProcess : q < r /\ saving'[q] # "waiting"
      BY <1>0 DEF DeletedByEarlier
    <2>1. CASE object[r] = "invalidated"
      <3>1. PICK q \in InProcess : q < r /\ saving[q] # "waiting"
        BY <2>1 DEF IInv, DeletedByEarlier
      <3> QED
        BY <3>1, <1>0, <1>1
    <2>2. CASE object[r] # "invalidated"
      <3>1. object[r] = "managed"
        BY <2>2, <1>0 DEF IInv, TypeOK
      <3>2. saving[r] = "finished"
        BY <3>1, <1>0 DEF IInv, OperationOrder
      <3>3. avatars[r] = "waiting"
        BY <1>0 DEF mainQueueStarts, mainQueueFree, IInv, TypeOK
      <3>4. ~(r < p)
        BY <3>2, <3>3 DEF mainQueueStarts, readyOnMain
      <3>5. p # r
        BY <3>2
      <3>6. p < r
        BY <3>4, <3>5, <1>0, LoadsAreNat
      <3> QED
        BY <3>6, <1>0, <1>1
    <2> QED
      BY <2>1, <2>2
  <1>8. DbIsOneReply' /\ NoInvalidatedAccess'
    BY DEF IInv, DbIsOneReply, NoInvalidatedAccess
  <1> QED
    BY <1>2, <1>3, <1>4, <1>6, <1>7, <1>8 DEF IInv

(* The second write, into an empty table. *)
LEMMA AddIInv ==
  ASSUME IInv, TypeOK', NEW p \in InProcess, savingAdd(p)
  PROVE  IInv'
  <1> USE DEF savingAdd, process, inFlight
  <1>0. p \in Loads /\ InProcess \subseteq Loads /\ InProcess' = InProcess
    BY InProcessLoads DEF IInv, InProcess
  <1>1. saving' = [saving EXCEPT ![p] = "finished"] /\ saving \in [Loads -> {"waiting", "deleted", "finished"}]
    BY DEF IInv, TypeOK
  <1>2. db = {}
    BY DEF IInv, OneSaver
  <1>3. object' = object \/ object' = [object EXCEPT ![p] = "managed"]
    BY DEF saveGotFriendsInRealm
  <1>4. OperationOrder'
    BY <1>0, <1>1, <1>3 DEF IInv, OperationOrder, TypeOK
  <1>5. FreshLoads'
    <2>1. ~(p > loads)
      BY DEF InProcess, IInv, TypeOK
    <2> QED
      BY <1>1, <2>1 DEF IInv, FreshLoads
  <1>6. OneSaver'
    BY <1>0, <1>1 DEF IInv, OneSaver, mainQueueFree
  <1>7. AvatarsHoldQueue'
    BY <1>0, <1>3 DEF IInv, AvatarsHoldQueue, TypeOK
  <1>8. DeletedByEarlier'
    BY <1>0, <1>1, <1>3 DEF IInv, DeletedByEarlier, TypeOK
  <1>9. db' = {} \/ db' = parsed[p]
    BY <1>2 DEF saveGotFriendsInRealm
  <1>10. parsing[p] = "finished"
    BY <1>0 DEF IInv, OperationOrder
  <1>11. DbIsOneReply' /\ NoInvalidatedAccess'
    BY <1>0, <1>9, <1>10 DEF IInv, DbIsOneReply, NoInvalidatedAccess
  <1> QED
    BY <1>4, <1>5, <1>6, <1>7, <1>8, <1>11 DEF IInv

(* DownloadingAvatarsOperation starts: in submission order its objects were *)
(* not deleted, because the load that deleted them would go first and keep  *)
(* the queue.                                                               *)
LEMMA AvatarsIInv ==
  ASSUME IInv, TypeOK', NEW p \in InProcess, avatarsMain(p)
  PROVE  IInv'
  <1> USE DEF avatarsMain, realm
  <1>0. p \in Loads /\ InProcess \subseteq Loads
    BY InProcessLoads DEF IInv
  <1>1. avatars' = [avatars EXCEPT ![p] = "executing"] /\ avatars \in [Loads -> {"waiting", "executing"}]
    BY DEF IInv, TypeOK
  <1>2. \A q \in Loads : avatars'[q] = "executing" => saving[q] = "finished"
    BY <1>0, <1>1 DEF IInv, OperationOrder
  <1>3. CASE object[p] = "invalidated" /\ parsed[p] # {}
    <2>1. ~InOrder
      <3> SUFFICES ASSUME InOrder PROVE FALSE
        OBVIOUS
      <3>1. PICK q \in InProcess : q < p /\ saving[q] # "waiting"
        BY <1>3 DEF IInv, DeletedByEarlier
      <3>2. saving[q] = "finished"
        BY <1>0, <3>1 DEF mainQueueStarts, mainIdle, IInv, TypeOK
      <3>3. avatars[q] = "waiting"
        BY <1>0 DEF mainQueueStarts, mainQueueFree, IInv, TypeOK
      <3> QED
        BY <3>1, <3>2, <3>3 DEF mainQueueStarts, readyOnMain
    <2>2. NoInvalidatedAccess'
      BY <2>1 DEF NoInvalidatedAccess
    <2> QED
      BY <1>2, <1>3, <2>2, EndIInv DEF crash
  <1>4. CASE ~(object[p] = "invalidated" /\ parsed[p] # {})
    <2>1. UNCHANGED <<first, loads, blocks, crashed, parsing, parsed, saving, object, db, installed>>
      BY <1>4
    <2>2. InProcess' = InProcess
      BY <2>1 DEF InProcess
    <2>3. PICK withURL \in SUBSET parsed[p] : downloads' = downloads \cup ({p} \X withURL)
      BY <1>4
    <2>4. AvatarsHoldQueue'
      <3> SUFFICES ASSUME NEW d \in downloads' \cup blocks'
                   PROVE  d[1] \in InProcess /\ avatars'[d[1]] = "executing" /\ object[d[1]] # "invalidated"
        BY <2>1, <2>2 DEF AvatarsHoldQueue
      <3>1. CASE d \in downloads \cup blocks
        BY <1>0, <1>1, <3>1 DEF IInv, AvatarsHoldQueue
      <3>2. CASE d \in {p} \X withURL
        <4>1. d[1] = p /\ parsed[p] # {}
          BY <3>2, <2>3
        <4>2. object[p] # "invalidated"
          BY <1>4, <4>1
        <4> QED
          BY <1>0, <1>1, <4>1, <4>2
      <3> QED
        BY <2>1, <2>3, <3>1, <3>2
    <2>5. OperationOrder'
      BY <1>2, <2>1 DEF IInv, OperationOrder
    <2>6. OneSaver'
      BY <2>1, <2>2 DEF mainQueueStarts, mainIdle, OneSaver
    <2>7. FreshLoads' /\ DeletedByEarlier' /\ DbIsOneReply' /\ NoInvalidatedAccess'
      BY <2>1, <2>2 DEF IInv, FreshLoads, DeletedByEarlier, DbIsOneReply, NoInvalidatedAccess
    <2> QED
      BY <2>4, <2>5, <2>6, <2>7 DEF IInv
  <1> QED
    BY <1>3, <1>4

(* A download ends; a block is run.  Neither finds a deleted object. *)
LEMMA AvatarWorkIInv ==
  ASSUME IInv, TypeOK',
         \/ \E d \in downloads : avatarDownloaded(d)
         \/ \E d \in blocks : saveAvatarForUserID(d)
  PROVE  IInv'
  <1>1. \A d \in blocks : object[d[1]] # "invalidated"
    BY DEF IInv, AvatarsHoldQueue
  <1>2. UNCHANGED <<loads, first, parsing, parsed, saving, avatars, object, db, installed, crashed>>
    BY <1>1 DEF avatarDownloaded, saveAvatarForUserID, process, operations, realm
  <1>3. downloads' \cup blocks' \subseteq downloads \cup blocks
    BY <1>1 DEF avatarDownloaded, saveAvatarForUserID
  <1>4. AvatarsHoldQueue'
    BY <1>2, <1>3 DEF IInv, AvatarsHoldQueue, InProcess
  <1>5. OperationOrder' /\ FreshLoads' /\ OneSaver' /\ DeletedByEarlier' /\ DbIsOneReply' /\ NoInvalidatedAccess'
    BY <1>2 DEF IInv, OperationOrder, FreshLoads, OneSaver, DeletedByEarlier,
                DbIsOneReply, NoInvalidatedAccess, InProcess, mainQueueFree
  <1> QED
    BY <1>4, <1>5 DEF IInv

LEMMA NextIInv == IInv /\ [Next]_vars => IInv'
  <1> SUFFICES ASSUME IInv, [Next]_vars PROVE IInv'
    OBVIOUS
  <1>0. TypeOK'
    BY NextTypeOK DEF IInv
  <1>1. CASE downloadUserFriendsWithOperations
    BY <1>0, <1>1, LoadIInv
  <1>2. CASE \E p \in InProcess : NetworkSteps(p)
    BY <1>0, <1>2, FrameIInv
    DEF NetworkSteps, networkStart, networkExecuting, networkReply, networkFinish,
        networkLose, process, inFlight, realm
  <1>3. CASE \E p \in InProcess : AppSteps(p)
    <2>1. PICK p \in InProcess : AppSteps(p)
      BY <1>3
    <2>2. p \in Loads
      BY InProcessLoads DEF IInv
    <2> QED
      BY <1>0, <2>1, <2>2, ParsingIInv, DeleteIInv, AddIInv, AvatarsIInv DEF AppSteps
  <1>4. CASE (\E d \in downloads : avatarDownloaded(d)) \/ (\E d \in blocks : saveAvatarForUserID(d))
    BY <1>0, <1>4, AvatarWorkIInv
  <1>5. CASE Kill
    BY <1>0, <1>5, EndIInv DEF Kill, operations, realm, IInv, OperationOrder, NoInvalidatedAccess
  <1>6. CASE ServerEdit
    BY <1>0, <1>6, FrameIInv DEF ServerEdit, process, operations, inFlight, realm
  <1>7. CASE UNCHANGED vars
    BY <1>0, <1>7, FrameIInv DEF vars, process, operations, inFlight, realm
  <1> QED
    BY <1>1, <1>2, <1>3, <1>4, <1>5, <1>6, <1>7 DEF Next

LEMMA Inductive == Spec => []IInv
  BY InitIInv, NextIInv, PTL DEF Spec

(* Realm never holds a mixture of two lists of friends: SavingOperation     *)
(* adds a parsed list to an empty table only, whoever else saves and        *)
(* wherever the process is killed.                                          *)
THEOREM OneReply == Spec => []DbIsOneReply
  <1>1. IInv => DbIsOneReply
    BY DEF IInv
  <1> QED
    BY Inductive, <1>1, PTL

(* No avatar download or block refers to a deleted Friend object, in        *)
(* whatever order the main queue runs its operations.                       *)
THEOREM BlocksValid == Spec => []AvatarBlocksAreValid
  <1>1. IInv => AvatarBlocksAreValid
    BY DEF IInv, AvatarsHoldQueue, AvatarBlocksAreValid
  <1> QED
    BY Inductive, <1>1, PTL

(* With a main queue that keeps the order of submission no number of loads  *)
(* makes DownloadingAvatarsOperation read a deleted Friend object.          *)
THEOREM NoDeletedObjectIsRead == Spec => []NoInvalidatedAccess
  <1>1. IInv => NoInvalidatedAccess
    BY DEF IInv
  <1> QED
    BY Inductive, <1>1, PTL

(* Once a DownloadingAvatarsOperation runs, no step changes the friends in  *)
(* Realm, and only the end of the process lets go of the main queue.        *)
THEOREM Frozen == Spec => FrozenOnceAvatarsRun
  <1>1. IInv /\ [Next]_vars => [~mainQueueFree => db' = db]_vars
    <2> SUFFICES ASSUME IInv, Next, ~mainQueueFree PROVE db' = db
      BY DEF vars, realm
    <2>1. \A p \in InProcess : ~savingDelete(p) /\ ~savingAdd(p)
      BY DEF savingDelete, savingAdd, mainQueueStarts, IInv, OneSaver
    <2>2. \A p \in InProcess : NetworkSteps(p) \/ AppSteps(p) => db' = db
      BY <2>1 DEF NetworkSteps, networkStart, networkExecuting, networkReply,
                  networkFinish, networkLose, AppSteps, parsingMain, avatarsMain, realm
    <2> QED
      BY <2>2 DEF Next, downloadUserFriendsWithOperations, avatarDownloaded,
                  saveAvatarForUserID, Kill, ServerEdit, realm
  <1> QED
    BY Inductive, <1>1, PTL DEF Spec, FrozenOnceAvatarsRun

-----------------------------------------------------------------------------
(* A NetworkOperation that its queue counts as finished has its data. *)
FinishedHasData == \A p \in Loads : net[p] = "finished" => data[p] # NoData

(* A failed reply has no items. *)
LEMMA ItemsOfReply ==
  ASSUME NEW r \in Replies
  PROVE  r.kind # "items" => r.items = {}
  BY DEF Replies

(* FinishedHasData makes ParsesTheReply inductive: `data` is assigned once, *)
(* before the finish, so that a reply cannot come after the parsing.        *)
LEMMA ReplyStep ==
  ASSUME TypeOK, FinishedHasData, ParsesTheReply, [Next]_vars
  PROVE  FinishedHasData' /\ ParsesTheReply'
  <1>0. InProcess \subseteq Loads
    BY InProcessLoads
  <1>1. CASE UNCHANGED <<net, data, parsing, parsed>>
    BY <1>1 DEF FinishedHasData, ParsesTheReply
  <1>2. CASE \E p \in InProcess : networkReply(p)
    <2>1. PICK p \in InProcess : networkReply(p)
      BY <1>2
    <2>2. /\ net[p] # "finished" /\ parsing[p] # "finished"
          /\ \A q \in Loads : q # p => data'[q] = data[q]
          /\ UNCHANGED <<net, parsing, parsed>>
      BY <2>1, <1>0 DEF networkReply, ParsesTheReply, TypeOK
    <2> QED
      BY <2>2 DEF FinishedHasData, ParsesTheReply
  <1>3. CASE \E p \in InProcess : \/ networkStart(p) \/ networkExecuting(p)
                                   \/ networkFinish(p) \/ networkLose(p)
    BY <1>0, <1>3 DEF networkStart, networkExecuting, networkFinish, networkLose,
                      FinishedHasData, ParsesTheReply, TypeOK
  <1>4. CASE \E p \in InProcess : parsingMain(p)
    <2>1. PICK p \in InProcess : parsingMain(p)
      BY <1>4
    <2>2. p \in Loads /\ data[p] \in Replies /\ data[p] # NoData
      BY <2>1, <1>0 DEF parsingMain, FinishedHasData, TypeOK
    <2>3. parsed'[p] = data[p].items /\ UNCHANGED <<net, data>>
      BY <2>1, <2>2, ItemsOfReply DEF parsingMain, TypeOK
    <2>4. \A q \in Loads : q # p => parsing'[q] = parsing[q] /\ parsed'[q] = parsed[q]
      BY <2>1, <2>2 DEF parsingMain, TypeOK
    <2> QED
      BY <2>2, <2>3, <2>4 DEF FinishedHasData, ParsesTheReply
  <1>5. CASE \E p \in InProcess : savingDelete(p) \/ savingAdd(p) \/ avatarsMain(p)
    BY <1>1, <1>5 DEF savingDelete, savingAdd, avatarsMain
  <1> QED
    BY <1>1, <1>2, <1>3, <1>4, <1>5
    DEF Next, NetworkSteps, AppSteps, downloadUserFriendsWithOperations, avatarDownloaded,
        saveAvatarForUserID, Kill, ServerEdit, operations, vars

(* What is parsed, and then saved, is the list of the load's own reply, for *)
(* any friends and number of loads: ParsingOperation never reads `data`     *)
(* before the completion handler assigned it.                               *)
THEOREM ReplyParsed == Spec => []ParsesTheReply
  <1>1. Init => FinishedHasData /\ ParsesTheReply
    BY DEF Init, FinishedHasData, ParsesTheReply
  <1> QED
    BY <1>1, ReplyStep, TypeCorrect, PTL DEF Spec
=============================================================================
