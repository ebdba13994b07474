------------------------- MODULE GroupsScreenProofs -------------------------
(***************************************************************************)
(* Theorems about GroupsScreen for all sets of groups and numbers of loads. *)
(***************************************************************************)
EXTENDS GroupsScreen, TLAPS

(* The load that deleted last was answered with groups, and no later load   *)
(* or answer can change what it was answered.                               *)
SaverWasAnswered ==
  saver # 0 => /\ saver <= loads
               /\ reply[saver].kind = "items"
               /\ request[saver] = "handled"

(* The main thread is inside a completion handler only after the deletion,  *)
(* and between the two writes of the handler the table is empty.            *)
HandlerDeleted ==
  /\ handler # "none" => saver # 0
  /\ handler = "deleted" => db = {}

IInv ==
  /\ TypeOK
  /\ SaverWasAnswered
  /\ HandlerDeleted
  /\ LastDeleterOwnsGroups

-----------------------------------------------------------------------------
(* Loads of the running process are loads. *)
LEMMA ProcessLoads ==
  ASSUME TypeOK, NEW p \in InProcess
  PROVE  p \in Loads /\ p # 0 /\ p <= loads
  BY MaxLoadsAssumption DEF TypeOK, InProcess, Loads

(* A block that is run leaves a queue of blocks. *)
LEMMA TailOfQueue ==
  ASSUME TypeOK, mainQueue # <<>>
  PROVE  Tail(mainQueue) \in Seq(Blocks)
  BY DEF TypeOK

(* The queue grows by one block. *)
LEMMA QueueGrows ==
  ASSUME TypeOK, NEW b \in Blocks
  PROVE  Append(mainQueue, b) \in Seq(Blocks)
  BY DEF TypeOK

(* An answer lists groups. *)
LEMMA ItemsAreGroups ==
  ASSUME TypeOK, NEW p \in Loads
  PROVE  reply[p].items \in SUBSET Group
  BY DEF TypeOK, Replies, NoReply, Failed

(* The initial state satisfies the invariant. *)
LEMMA InitIInv == Init => IInv
  <1> SUFFICES ASSUME Init PROVE IInv
    OBVIOUS
  <1>1. TypeOK
    <2>1. spinner \in [Loads -> BOOLEAN]
      BY DEF Init
    <2>2. loads \in 0 .. MaxLoads /\ first \in 1 .. loads + 1 /\ saver \in 0 .. MaxLoads
      BY MaxLoadsAssumption DEF Init
    <2>3. reply \in [Loads -> Replies] /\ mainQueue \in Seq(Blocks)
      BY DEF Init, Replies
    <2> QED
      BY <2>1, <2>2, <2>3 DEF Init, TypeOK
  <1>2. SaverWasAnswered /\ HandlerDeleted /\ LastDeleterOwnsGroups
    BY DEF Init, SaverWasAnswered, HandlerDeleted, LastDeleterOwnsGroups
  <1> QED
    BY <1>1, <1>2 DEF IInv

(* A screen is loaded: its request is not that of an earlier load. *)
LEMMA LoadStep ==
  ASSUME IInv, viewDidLoad
  PROVE  IInv'
  <1>1. loads + 1 \in Loads
    BY MaxLoadsAssumption DEF IInv, TypeOK, viewDidLoad, Loads
  <1>2. TypeOK'
    <2>1. spinner' \in [Loads -> BOOLEAN]
      BY <1>1 DEF IInv, TypeOK, viewDidLoad, startActivityIndicator
    <2>2. loads' \in 0 .. MaxLoads /\ first' \in 1 .. loads' + 1
      BY MaxLoadsAssumption DEF IInv, TypeOK, viewDidLoad
    <2> QED
      BY <1>1, <2>1, <2>2 DEF IInv, TypeOK, viewDidLoad
  <1>3. SaverWasAnswered'
    <2> SUFFICES ASSUME saver # 0
                 PROVE  saver <= loads + 1 /\ reply[saver].kind = "items" /\ request'[saver] = "handled"
      BY DEF SaverWasAnswered, viewDidLoad
    <2>1. saver <= loads /\ reply[saver].kind = "items" /\ request[saver] = "handled"
      BY DEF IInv, SaverWasAnswered
    <2>2. saver \in Loads /\ saver # loads + 1 /\ saver <= loads + 1
      BY <2>1, MaxLoadsAssumption DEF IInv, TypeOK, Loads
    <2> QED
      BY <2>1, <2>2 DEF IInv, TypeOK, viewDidLoad
  <1>4. HandlerDeleted' /\ LastDeleterOwnsGroups'
    BY DEF IInv, HandlerDeleted, LastDeleterOwnsGroups, viewDidLoad
  <1> QED
    BY <1>2, <1>3, <1>4 DEF IInv

(* A request is answered: it is not that of the load that deleted last,     *)
(* which has been handled.                                                  *)
LEMMA AnswerStep ==
  ASSUME IInv, NEW p \in InProcess, groupsGet(p)
  PROVE  IInv'
  <1>1. p \in Loads
    BY ProcessLoads DEF IInv
  <1>2. PICK r \in {Failed, [kind |-> "items", items |-> server]} :
          reply' = [reply EXCEPT ![p] = r]
    BY DEF groupsGet
  <1>3. r \in Replies
    BY DEF Replies, IInv, TypeOK
  <1>4. ReplyBlock(p) \in Blocks
    BY <1>1 DEF ReplyBlock, Blocks
  <1>5. mainQueue' \in Seq(Blocks)
    BY <1>4, QueueGrows DEF IInv, groupsGet
  <1>6. TypeOK'
    BY <1>1, <1>2, <1>3, <1>5 DEF IInv, TypeOK, groupsGet
  <1>7. saver # 0 => saver \in Loads /\ saver # p
    BY MaxLoadsAssumption DEF IInv, TypeOK, SaverWasAnswered, groupsGet, Loads
  <1>8. saver # 0 => reply'[saver] = reply[saver] /\ request'[saver] = request[saver]
    BY <1>1, <1>2, <1>7 DEF IInv, TypeOK, groupsGet
  <1>9. SaverWasAnswered' /\ HandlerDeleted' /\ LastDeleterOwnsGroups'
    BY <1>8 DEF IInv, SaverWasAnswered, HandlerDeleted, LastDeleterOwnsGroups, groupsGet
  <1> QED
    BY <1>6, <1>9 DEF IInv

(* A reply block is run: nothing happens to the table, or its load becomes  *)
(* the one that deleted last.                                               *)
LEMMA CompletionStep ==
  ASSUME IInv, NEW p \in InProcess, completion(p)
  PROVE  IInv'
  <1>1. p \in Loads /\ p # 0 /\ p <= loads
    BY ProcessLoads DEF IInv
  <1>2. mainQueue' \in Seq(Blocks)
    BY TailOfQueue DEF IInv, completion, runs
  <1>3. request' \in [Loads -> {"none", "sent", "answered", "handled"}]
    BY DEF IInv, TypeOK, completion
  <1>4. \A q \in Loads : request'[q] = IF q = p THEN "handled" ELSE request[q]
    BY DEF IInv, TypeOK, completion
  <1>5. saver # 0 => saver \in Loads
    BY MaxLoadsAssumption DEF IInv, TypeOK, Loads
  <1>6. CASE reply[p].kind = "nil" /\ UNCHANGED <<handler, saver, db, dbAvatars>>
    <2>1. TypeOK'
      BY <1>2, <1>3, <1>6 DEF IInv, TypeOK, completion
    <2>2. SaverWasAnswered'
      BY <1>4, <1>5, <1>6 DEF IInv, SaverWasAnswered, completion
    <2>3. HandlerDeleted' /\ LastDeleterOwnsGroups'
      BY <1>6 DEF IInv, HandlerDeleted, LastDeleterOwnsGroups, completion
    <2> QED
      BY <2>1, <2>2, <2>3 DEF IInv
  <1>7. CASE reply[p].kind = "items" /\ deleteObjects(p) /\ handler' = "deleted"
    <2>1. TypeOK'
      BY <1>1, <1>2, <1>3, <1>7, MaxLoadsAssumption DEF IInv, TypeOK, completion, deleteObjects, Loads
    <2>2. SaverWasAnswered'
      BY <1>1, <1>4, <1>7 DEF SaverWasAnswered, completion, deleteObjects
    <2>3. HandlerDeleted' /\ LastDeleterOwnsGroups'
      BY <1>1, <1>7 DEF HandlerDeleted, LastDeleterOwnsGroups, completion, deleteObjects
    <2> QED
      BY <2>1, <2>2, <2>3 DEF IInv
  <1> QED
    BY <1>6, <1>7 DEF completion

(* The second write fills the empty table with what its load was answered. *)
LEMMA SaveStep ==
  ASSUME IInv, saveGotGroupsInRealm
  PROVE  IInv'
  <1>1. saver # 0 /\ saver \in Loads /\ db = {}
    BY MaxLoadsAssumption DEF IInv, TypeOK, HandlerDeleted, saveGotGroupsInRealm, Loads
  <1>2. db' \in {{}, reply[saver].items}
    BY <1>1 DEF saveGotGroupsInRealm
  <1>3. db' \in SUBSET Group
    BY <1>1, <1>2, ItemsAreGroups DEF IInv
  <1>4. dbAvatars' = {}
    BY <1>1 DEF IInv, TypeOK, saveGotGroupsInRealm
  <1>5. spinner' \in [Loads -> BOOLEAN]
    BY DEF IInv, TypeOK, saveGotGroupsInRealm, stopActivityIndicator
  <1>6. TypeOK'
    BY <1>3, <1>4, <1>5 DEF IInv, TypeOK, saveGotGroupsInRealm
  <1>7. SaverWasAnswered'
    BY DEF IInv, SaverWasAnswered, saveGotGroupsInRealm
  <1>8. HandlerDeleted' /\ LastDeleterOwnsGroups'
    BY <1>1, <1>2 DEF HandlerDeleted, LastDeleterOwnsGroups, saveGotGroupsInRealm
  <1> QED
    BY <1>6, <1>7, <1>8 DEF IInv

(* The end of a process leaves the tables and the requests as they are. *)
LEMMA ProcessEnds ==
  ASSUME IInv, endProcess, crash' \in {"no", "invalidated", "nilPhoto50"},
         UNCHANGED <<server, loads, request, reply, saver, db, dbAvatars, spinner, installed>>
  PROVE  IInv'
  <1>1. first' \in 1 .. loads' + 1 /\ mainQueue' \in Seq(Blocks)
    BY MaxLoadsAssumption DEF IInv, TypeOK, endProcess
  <1>2. TypeOK'
    BY <1>1 DEF IInv, TypeOK, endProcess
  <1>3. SaverWasAnswered' /\ HandlerDeleted' /\ LastDeleterOwnsGroups'
    BY DEF IInv, SaverWasAnswered, HandlerDeleted, LastDeleterOwnsGroups, endProcess
  <1> QED
    BY <1>2, <1>3 DEF IInv

(* One avatar is downloaded, or the process crashes on a missing photo50. *)
LEMMA AvatarStep ==
  ASSUME IInv, NEW g \in Group, downloadAvatar(g)
  PROVE  IInv'
  <1>1. CASE g \in NoPhoto /\ endProcess /\ crash' = "nilPhoto50"
    BY <1>1, ProcessEnds DEF downloadAvatar
  <1>2. CASE /\ todo' = todo \ {g}
             /\ mainQueue' \in {mainQueue, Append(mainQueue, AvatarBlock(saver, g))}
             /\ UNCHANGED <<first, handler, crash>>
    <2>1. saver \in Loads
      BY MaxLoadsAssumption DEF IInv, TypeOK, HandlerDeleted, downloadAvatar, Loads
    <2>2. AvatarBlock(saver, g) \in Blocks
      BY <2>1 DEF AvatarBlock, Blocks
    <2>3. mainQueue' \in Seq(Blocks)
      BY <1>2, <2>2, QueueGrows DEF IInv, TypeOK
    <2>4. TypeOK'
      BY <1>2, <2>3 DEF IInv, TypeOK, downloadAvatar
    <2>5. SaverWasAnswered' /\ HandlerDeleted' /\ LastDeleterOwnsGroups'
      BY <1>2 DEF IInv, SaverWasAnswered, HandlerDeleted, LastDeleterOwnsGroups, downloadAvatar
    <2> QED
      BY <2>4, <2>5 DEF IInv
  <1> QED
    BY <1>1, <1>2 DEF downloadAvatar

(* An avatar block is run: it adds the avatar of a group that is still in   *)
(* the table, or the process crashes on a deleted one.                      *)
LEMMA SaveAvatarStep ==
  ASSUME IInv, NEW p \in InProcess, NEW g \in Group, saveAvatarForGroupID(p, g)
  PROVE  IInv'
  <1>1. CASE endProcess /\ crash' = "invalidated" /\ UNCHANGED dbAvatars
    BY <1>1, ProcessEnds DEF saveAvatarForGroupID
  <1>2. CASE /\ runs(AvatarBlock(p, g))
             /\ dbAvatars' \in {dbAvatars, dbAvatars \cup ({g} \cap db)}
             /\ UNCHANGED <<first, handler, todo, crash>>
    <2>1. mainQueue' \in Seq(Blocks)
      BY <1>2, TailOfQueue DEF IInv, runs
    <2>2. dbAvatars' \in SUBSET db'
      BY <1>2 DEF IInv, TypeOK, saveAvatarForGroupID
    <2>3. TypeOK'
      BY <1>2, <2>1, <2>2 DEF IInv, TypeOK, saveAvatarForGroupID
    <2>4. SaverWasAnswered' /\ HandlerDeleted' /\ LastDeleterOwnsGroups'
      BY <1>2 DEF IInv, SaverWasAnswered, HandlerDeleted, LastDeleterOwnsGroups, saveAvatarForGroupID
    <2> QED
      BY <2>3, <2>4 DEF IInv
  <1> QED
    BY <1>1, <1>2 DEF saveAvatarForGroupID

(* The invariant is inductive. *)
LEMMA Inductive == IInv /\ [Next]_vars => IInv'
  <1> SUFFICES ASSUME IInv, [Next]_vars PROVE IInv'
    OBVIOUS
  <1>1. CASE Kill
    <2>1. crash' \in {"no", "invalidated", "nilPhoto50"}
      BY <1>1 DEF Kill, IInv, TypeOK
    <2> QED
      BY <1>1, <2>1, ProcessEnds DEF Kill
  <1>2. CASE ServerEdit
    BY <1>2 DEF ServerEdit, IInv, TypeOK, SaverWasAnswered, HandlerDeleted, LastDeleterOwnsGroups
  <1>3. CASE UNCHANGED vars
    BY <1>3 DEF vars, IInv, TypeOK, SaverWasAnswered, HandlerDeleted, LastDeleterOwnsGroups
  <1> QED
    BY <1>1, <1>2, <1>3, LoadStep, AnswerStep, CompletionStep, SaveStep, AvatarStep,
       SaveAvatarStep DEF Next, MainThread

(* Every reachable state satisfies the inductive invariant. *)
THEOREM Invariance == Spec => []IInv
  BY InitIInv, Inductive, PTL DEF Spec

(* Every reachable state is of the declared types, and only a group that is *)
(* in Realm has an avatar there.                                            *)
THEOREM TypeCorrect == Spec => []TypeOK
  <1>1. IInv => TypeOK
    BY DEF IInv
  <1> QED
    BY <1>1, Invariance, PTL

(* The groups in Realm are the answer of the handler that deleted last, all *)
(* or none of it, or those of the last run of the app: saveGotGroupsInRealm *)
(* never mixes the replies of two loads, wherever the process is killed.    *)
THEOREM LastDeleterOwns == Spec => []LastDeleterOwnsGroups
  <1>1. IInv => LastDeleterOwnsGroups
    BY DEF IInv
  <1> QED
    BY <1>1, Invariance, PTL

(* As long as the service answered no load with groups, the groups in Realm *)
(* are those of the last run of the app: completion(nil) deletes nothing.   *)
THEOREM FailureKeeps == Spec => []FailureKeepsGroups
  <1>1. ASSUME IInv, \A p \in Loads : reply[p].kind # "items"
        PROVE  db = installed
    <2>1. saver \notin Loads
      BY <1>1 DEF IInv, SaverWasAnswered, Loads
    <2>2. saver = 0
      BY <1>1, <2>1, MaxLoadsAssumption DEF IInv, TypeOK, Loads
    <2> QED
      BY <1>1, <2>2 DEF IInv, LastDeleterOwnsGroups
  <1>2. IInv => FailureKeepsGroups
    BY <1>1 DEF FailureKeepsGroups
  <1> QED
    BY <1>2, Invariance, PTL
=============================================================================
