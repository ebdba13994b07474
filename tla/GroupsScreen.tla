---------------------------- MODULE GroupsScreen ----------------------------
(***************************************************************************)
(* The loading of the user's groups.  GroupsTableViewController.viewDidLoad *)
(* sends a request; its completion handler replaces the Group objects in   *)
(* Realm and downloads their avatars, all on the main thread, and leaves   *)
(* one block per avatar on DispatchQueue.main.  A controller observes the  *)
(* table with a closure that holds it, so it outlives signing out: the     *)
(* [weak self] of its completion handler never finds nil, and the replies  *)
(* of several loads meet on the main queue.                                *)
(*                                                                         *)
(* External: the service, Realm, and DispatchQueue.main, which runs its    *)
(* blocks one at a time in the order they were added.  Other threads add   *)
(* to it while the main thread is inside a completion handler.             *)
(***************************************************************************)
EXTENDS Naturals, Sequences

CONSTANTS Group,      \* ids of the groups a user can be in
          NoPhoto,    \* the groups that the service lists without photo_50
          MaxLoads    \* bound: how often the groups screen is loaded

ASSUME NoPhotoAssumption == NoPhoto \subseteq Group
ASSUME MaxLoadsAssumption == MaxLoads \in Nat

Loads == 1 .. MaxLoads

(* What completion gets: nothing yet, nil (no data, or data that GroupData  *)
(* does not decode), or the decoded groups.                                 *)
NoReply == [kind |-> "none", items |-> {}]
Failed == [kind |-> "nil", items |-> {}]
Replies == {NoReply, Failed} \cup [kind : {"items"}, items : SUBSET Group]

(* Blocks on the main queue. *)
ReplyBlock(p) == [load |-> p, groups |-> {}]
AvatarBlock(p, g) == [load |-> p, groups |-> {g}]
Blocks == [load : Loads, groups : {{}} \cup {{g} : g \in Group}]

VARIABLES
  server,     \* the user's groups at vk.com now
  loads,      \* how often the screen has been loaded
  first,      \* the first load of the running process
  request,    \* each load's request: sent, answered, handled
  reply,      \* what it was answered
  mainQueue,  \* the blocks on DispatchQueue.main
  handler,    \* where the main thread is in the completion handler
  todo,       \* downloadAvatars: the groups it still has to go through
  saver,      \* the load whose handler last deleted the Group objects
  db,         \* ids of the Group objects in Realm
  dbAvatars,  \* those that have an avatar
  spinner,    \* each load's activity indicator is animating
  installed,  \* the groups in Realm when the first process started
  crash       \* why a process crashed: a deleted object, a nil photo50

vars == <<server, loads, first, request, reply, mainQueue, handler, todo,
          saver, db, dbAvatars, spinner, installed, crash>>

(* Values of the requests, blocks and tables of every load. *)
TypeOK ==
  /\ server \in SUBSET Group
  /\ loads \in 0 .. MaxLoads /\ first \in 1 .. loads + 1
  /\ request \in [Loads -> {"none", "sent", "answered", "handled"}]
  /\ reply \in [Loads -> Replies]
  /\ mainQueue \in Seq(Blocks)
  /\ handler \in {"none", "deleted", "avatars"}
  /\ todo \in SUBSET Group
  /\ saver \in 0 .. MaxLoads
  /\ db \in SUBSET Group /\ dbAvatars \in SUBSET db
  /\ spinner \in [Loads -> BOOLEAN]
  /\ installed \in SUBSET Group
  /\ crash \in {"no", "invalidated", "nilPhoto50"}

Init ==
  /\ server \in SUBSET Group
  /\ loads = 0 /\ first = 1
  /\ request = [p \in Loads |-> "none"]
  /\ reply = [p \in Loads |-> NoReply]
  /\ mainQueue = <<>>
  /\ handler = "none" /\ todo = {}
  /\ saver = 0
  /\ db \in SUBSET Group /\ dbAvatars \in SUBSET db
  /\ spinner = [p \in Loads |-> FALSE]
  /\ installed = db
  /\ crash = "no"

-----------------------------------------------------------------------------
InProcess == first .. loads

(* The main thread is free for the next block or for the user. *)
mainFree == handler = "none" \/ (handler = "avatars" /\ todo = {})

(* The next block on the main queue is b. *)
runs(b) == /\ mainFree
           /\ mainQueue # <<>> /\ Head(mainQueue) = b
           /\ mainQueue' = Tail(mainQueue)

(* The process ends; Realm and the service do not notice. *)
endProcess ==
  /\ first' = loads + 1
  /\ mainQueue' = <<>>
  /\ handler' = "none" /\ todo' = {}

-----------------------------------------------------------------------------
startActivityIndicator(p) == spinner' = [spinner EXCEPT ![p] = TRUE]
stopActivityIndicator(p)  == spinner' = [spinner EXCEPT ![p] = FALSE]

(* RealmManager.deleteObjects, for load p: invalidates every object. *)
deleteObjects(p) == db' = {} /\ dbAvatars' = {} /\ saver' = p

(* viewDidLoad: activity indicator, observer, request. *)
viewDidLoad ==
  /\ loads < MaxLoads
  /\ mainFree
  /\ loads' = loads + 1
  /\ startActivityIndicator(loads + 1)
  /\ request' = [request EXCEPT ![loads + 1] = "sent"]
  /\ UNCHANGED <<server, first, reply, mainQueue, handler, todo, saver, db,
                 dbAvatars, installed, crash>>

(* NetworkManager.groupsGet: the response handler is queued on the main     *)
(* queue; it calls completion with nil or with the decoded groups.          *)
groupsGet(p) ==
  /\ request[p] = "sent"
  /\ request' = [request EXCEPT ![p] = "answered"]
  /\ \E r \in {Failed, [kind |-> "items", items |-> server]} :
       reply' = [reply EXCEPT ![p] = r]
  /\ mainQueue' = Append(mainQueue, ReplyBlock(p))
  /\ UNCHANGED <<server, loads, first, handler, todo, saver, db, dbAvatars,
                 spinner, installed, crash>>

(* Mutants: the old groups stay; a failed reply is saved like an empty one; *)
(* the avatars of deleted groups stay.                                      *)
completion_Keeps(p) ==
  /\ runs(ReplyBlock(p))
  /\ request' = [request EXCEPT ![p] = "handled"]
  /\ reply[p].kind = "items"
  /\ saver' = p
  /\ handler' = "deleted"
  /\ UNCHANGED <<server, loads, first, reply, todo, db, dbAvatars, spinner,
                 installed, crash>>

completion_SavesFailure(p) ==
  /\ runs(ReplyBlock(p))
  /\ request' = [request EXCEPT ![p] = "handled"]
  /\ deleteObjects(p)
  /\ handler' = "deleted"
  /\ UNCHANGED <<server, loads, first, reply, todo, spinner, installed, crash>>

completion_KeepsAvatars(p) ==
  /\ runs(ReplyBlock(p))
  /\ request' = [request EXCEPT ![p] = "handled"]
  /\ db' = {}
  /\ saver' = p
  /\ handler' = "deleted"
  /\ UNCHANGED <<server, loads, first, reply, todo, dbAvatars, spinner,
                 installed, crash>>

(* downloadUserGroups, completion: a nil reply changes nothing and leaves   *)
(* the indicator running; otherwise the first write deletes all groups.     *)
completion(p) ==
  /\ runs(ReplyBlock(p))
  /\ request' = [request EXCEPT ![p] = "handled"]
  /\ \/ /\ reply[p].kind = "nil"
        /\ UNCHANGED <<handler, saver, db, dbAvatars>>
     \/ /\ reply[p].kind = "items"
        /\ deleteObjects(p)
        /\ handler' = "deleted"
  /\ UNCHANGED <<server, loads, first, reply, todo, spinner, installed, crash>>

(* Mutant: the indicator is stopped only when there are groups to show. *)
saveGotGroupsInRealm_SpinsOnEmpty ==
  /\ handler = "deleted"
  /\ db' \in {db, db \cup reply[saver].items}
  /\ spinner' = [spinner EXCEPT ![saver] = db' = {}]
  /\ handler' = "avatars"
  /\ todo' = db'
  /\ UNCHANGED <<server, loads, first, request, reply, mainQueue, saver,
                 dbAvatars, installed, crash>>

(* The second write (a failing one is ignored), the indicator, and the list *)
(* for downloadAvatars: the groups that are in Realm now.                   *)
saveGotGroupsInRealm ==
  /\ handler = "deleted"
  /\ db' \in {db, db \cup reply[saver].items}
  /\ stopActivityIndicator(saver)
  /\ handler' = "avatars"
  /\ todo' = db'
  /\ UNCHANGED <<server, loads, first, request, reply, mainQueue, saver,
                 dbAvatars, installed, crash>>

(* downloadAvatars, one group: unwraps photo50, downloads on the main       *)
(* thread, and queues a block if it got the image.                          *)
downloadAvatar(g) ==
  /\ handler = "avatars"
  /\ g \in todo
  /\ \/ /\ g \notin NoPhoto
        /\ todo' = todo \ {g}
        /\ mainQueue' \in {mainQueue, Append(mainQueue, AvatarBlock(saver, g))}
        /\ UNCHANGED <<first, handler, crash>>
     \/ /\ g \in NoPhoto
        /\ endProcess
        /\ crash' = "nilPhoto50"
  /\ UNCHANGED <<server, loads, request, reply, saver, db, dbAvatars, spinner,
                 installed>>

(* The block reads group.id, which fails on an object that was deleted      *)
(* after downloadAvatars listed it, and saves the avatar; a write that      *)
(* fails is ignored (try?).                                                 *)
saveAvatarForGroupID(p, g) ==
  /\ \/ /\ saver = p
        /\ runs(AvatarBlock(p, g))
        /\ dbAvatars' \in {dbAvatars, dbAvatars \cup ({g} \cap db)}
        /\ UNCHANGED <<first, handler, todo, crash>>
     \/ /\ saver # p
        /\ mainFree /\ mainQueue # <<>> /\ Head(mainQueue) = AvatarBlock(p, g)
        /\ endProcess
        /\ crash' = "invalidated"
        /\ UNCHANGED dbAvatars
  /\ UNCHANGED <<server, loads, request, reply, saver, db, spinner, installed>>

(* The process ends, and the app is started again on the same Realm file. *)
Kill ==
  /\ endProcess
  /\ UNCHANGED <<server, loads, request, reply, saver, db, dbAvatars, spinner,
                 installed, crash>>

(* External: the groups at vk.com change, or another user signs in. *)
ServerEdit ==
  /\ server' \in SUBSET Group
  /\ UNCHANGED <<loads, first, request, reply, mainQueue, handler, todo,
                 saver, db, dbAvatars, spinner, installed, crash>>

-----------------------------------------------------------------------------
MainThread ==
  \/ \E p \in InProcess : completion(p)
  \/ saveGotGroupsInRealm
  \/ \E g \in Group : downloadAvatar(g)
  \/ \E p \in InProcess, g \in Group : saveAvatarForGroupID(p, g)

Next ==
  \/ viewDidLoad
  \/ \E p \in InProcess : groupsGet(p)
  \/ MainThread
  \/ Kill
  \/ ServerEdit

(* The main thread goes on while it has work, and Alamofire answers every   *)
(* request.                                                                 *)
Fairness ==
  /\ WF_vars(MainThread)
  /\ \A p \in Loads : WF_vars(p \in InProcess /\ groupsGet(p))

Spec == Init /\ [][Next]_vars /\ Fairness

-----------------------------------------------------------------------------
(* Realm holds what the handler that deleted last was answered, or nothing  *)
(* (its second write failed or never came), or what the last run of the app *)
(* left if no handler has deleted anything: replies of several loads never  *)
(* mix, wherever the process is killed.                                     *)
LastDeleterOwnsGroups ==
  \/ saver = 0 /\ db = installed
  \/ saver # 0 /\ db \in {{}, reply[saver].items}

(* The groups survive failures: as long as no request was answered with     *)
(* groups, Realm holds what it held when the app was first started.         *)
FailureKeepsGroups ==
  (\A p \in Loads : reply[p].kind # "items") => db = installed

(* A request that is answered with groups stops the activity indicator of   *)
(* its screen, unless the process ends.                                     *)
SpinnerStops ==
  \A p \in Loads :
    (p \in InProcess /\ reply[p].kind = "items") ~> (~spinner[p] \/ p < first)

-----------------------------------------------------------------------------
(* What RealmSwift says of a deleted object: it can no longer be accessed.  *)
(* (A block reads group.id of one, when the reply to another load is queued *)
(* between the avatar blocks.)                                              *)
NoInvalidatedAccess == crash # "invalidated"
=============================================================================
