-------------------------- MODULE FriendsPipeline --------------------------
(***************************************************************************)
(* The loading of the friends list.  Each time the friends screen is loaded *)
(* FriendsTableViewController.downloadUserFriendsWithOperations creates    *)
(* four operations, each depending on the one before:                      *)
(*                                                                         *)
(*   NetworkOperation -> ParsingOperation      on a queue of their own     *)
(*     -> SavingOperation -> DownloadingAvatarsOperation   on              *)
(*                                             OperationQueue.main         *)
(*                                                                         *)
(* Signing out and in again loads a new screen in the same process, so the *)
(* operations of several loads share the main queue and the Realm table of *)
(* Friend objects.  The process may be killed at any time; Realm survives. *)
(*                                                                         *)
(* External: the service, Realm and OperationQueue.  The main queue has    *)
(* one slot; it may start any operation that is ready, or keep the order   *)
(* of submission among those (the constant InOrder).  An asynchronous      *)
(* operation holds the slot until it says that it is finished, which       *)
(* DownloadingAvatarsOperation never does.  A NetworkOperation keeps the   *)
(* contract of module OperationContract.                                   *)
(***************************************************************************)
EXTENDS Naturals, FiniteSets

CONSTANTS Friend,     \* ids of the friends a user can have
          MaxLoads,   \* bound: how often the friends screen is loaded
          InOrder     \* the main queue starts, among the operations that are
                      \* ready, the one submitted first

ASSUME MaxLoadsAssumption == MaxLoads \in Nat
ASSUME InOrderAssumption == InOrder \in BOOLEAN

Loads == 1 .. MaxLoads

(* response.data: nothing assigned yet, nil, bytes that FriendData does not *)
(* decode (an error object of the service), or a list of friends.           *)
NoData == [kind |-> "none", items |-> {}]
Replies == [kind : {"nil", "undecodable"}, items : {{}}]
             \cup [kind : {"items"}, items : SUBSET Friend]

VARIABLES
  server,     \* the user's friends at vk.com now
  loads,      \* how often the screen has been loaded
  first,      \* the first load of the running process
  net,        \* NetworkOperation of each load, as its queue sees it
  data,       \* NetworkOperation.data
  parsing,    \* ParsingOperation: waiting or finished
  parsed,     \* parsedData, of ParsingOperation and of SavingOperation
  saving,     \* SavingOperation: waiting, between its two writes, finished
  avatars,    \* DownloadingAvatarsOperation: waiting or executing
  object,     \* the Friend objects in parsedData, as Realm sees them
  downloads,  \* avatar downloads running on global queues
  blocks,     \* blocks on DispatchQueue.main that save an avatar
  db,         \* ids of the Friend objects in Realm
  dbAvatars,  \* those that have an avatar
  installed,  \* the friends in Realm when the first process started
  crashed     \* a deleted Realm object was accessed

operations == <<net, data, parsing, parsed, saving, avatars, object>>
realm      == <<db, dbAvatars>>
inFlight   == <<downloads, blocks>>
process    == <<loads, first>>

vars == <<server, process, operations, inFlight, realm, installed, crashed>>

NetPhases == {"ready", "starting", "executing", "finished", "lost"}

(* Values of the operations, queues and tables of every load. *)
TypeOK ==
  /\ server \in SUBSET Friend
  /\ loads \in 0 .. MaxLoads
  /\ first \in 1 .. MaxLoads + 1 /\ first <= loads + 1
  /\ net \in [Loads -> NetPhases]
  /\ data \in [Loads -> Replies \cup {NoData}]
  /\ parsing \in [Loads -> {"waiting", "finished"}]
  /\ parsed \in [Loads -> SUBSET Friend]
  /\ saving \in [Loads -> {"waiting", "deleted", "finished"}]
  /\ avatars \in [Loads -> {"waiting", "executing"}]
  /\ object \in [Loads -> {"unmanaged", "managed", "invalidated"}]
  /\ downloads \in SUBSET (Loads \X Friend)
  /\ blocks \in SUBSET (Loads \X Friend)
  /\ db \in SUBSET Friend
  /\ dbAvatars \in SUBSET Friend
  /\ installed \in SUBSET Friend
  /\ crashed \in BOOLEAN

(* The first process starts on what an earlier run of the app left. *)
Init ==
  /\ server \in SUBSET Friend
  /\ loads = 0 /\ first = 1
  /\ net = [p \in Loads |-> "ready"]
  /\ data = [p \in Loads |-> NoData]
  /\ parsing = [p \in Loads |-> "waiting"]
  /\ parsed = [p \in Loads |-> {}]
  /\ saving = [p \in Loads |-> "waiting"]
  /\ avatars = [p \in Loads |-> "waiting"]
  /\ object = [p \in Loads |-> "unmanaged"]
  /\ downloads = {} /\ blocks = {}
  /\ db \in SUBSET Friend
  /\ dbAvatars \in SUBSET db
  /\ installed = db
  /\ crashed = FALSE

-----------------------------------------------------------------------------
(* The loads whose operations the running process holds. *)
InProcess == first .. loads

(* Nothing holds the main thread: SavingOperation is not between its writes. *)
mainIdle == \A q \in InProcess : saving[q] # "deleted"

(* Mutant: DownloadingAvatarsOperation finishes as soon as main() returns. *)
mainQueueFree_Always == TRUE

(* External: the slot of OperationQueue.main is free. *)
mainQueueFree == \A q \in InProcess : avatars[q] # "executing"

(* An operation of load q is ready on the main queue: what it depends on    *)
(* has finished.                                                            *)
readyOnMain(q) ==
  \/ parsing[q] = "finished" /\ saving[q] = "waiting"
  \/ saving[q] = "finished" /\ avatars[q] = "waiting"

(* Mutant: SavingOperation runs on a queue of its own, not on the main queue. *)
mainQueueStarts_OwnQueue(p) == mainIdle

(* External: the main queue may start the operation of load p that is ready. *)
mainQueueStarts(p) ==
  /\ mainIdle
  /\ mainQueueFree
  /\ InOrder => \A q \in InProcess : q < p => ~readyOnMain(q)

-----------------------------------------------------------------------------
(* FriendsTableViewController.viewDidLoad, after a login. *)
downloadUserFriendsWithOperations ==
  /\ loads < MaxLoads
  /\ mainIdle
  /\ loads' = loads + 1
  /\ UNCHANGED <<server, first, operations, inFlight, realm, installed, crashed>>

(* NetworkOperation takes the steps of its contract: Start, Return, Deliver,  *)
(* Finish and Lose of OperationContract.                                    *)
networkStart(p) ==
  /\ net[p] = "ready"
  /\ net' = [net EXCEPT ![p] = "starting"]
  /\ UNCHANGED <<server, process, data, parsing, parsed, saving, avatars,
                 object, inFlight, realm, installed, crashed>>

networkExecuting(p) ==
  /\ net[p] = "starting"
  /\ net' = [net EXCEPT ![p] = "executing"]
  /\ UNCHANGED <<server, process, data, parsing, parsed, saving, avatars,
                 object, inFlight, realm, installed, crashed>>

(* The completion handler assigns `data`: the list as the service had it, or *)
(* a failure.                                                               *)
networkReply(p) ==
  /\ net[p] \in {"starting", "executing"}
  /\ data[p] = NoData
  /\ \E r \in {[kind |-> "nil", items |-> {}],
               [kind |-> "undecodable", items |-> {}],
               [kind |-> "items", items |-> server]} :
       data' = [data EXCEPT ![p] = r]
  /\ UNCHANGED <<server, process, net, parsing, parsed, saving, avatars,
                 object, inFlight, realm, installed, crashed>>

(* Mutant: the handler sets the state before it keeps the data. *)
networkFinish_BeforeData(p) ==
  /\ net[p] \in {"starting", "executing"}
  /\ net' = [net EXCEPT ![p] = "finished"]
  /\ UNCHANGED <<server, process, data, parsing, parsed, saving, avatars,
                 object, inFlight, realm, installed, crashed>>

networkFinish(p) ==
  /\ net[p] \in {"starting", "executing"}
  /\ data[p] # NoData
  /\ net' = [net EXCEPT ![p] = "finished"]
  /\ UNCHANGED <<server, process, data, parsing, parsed, saving, avatars,
                 object, inFlight, realm, installed, crashed>>

(* start() overwrote .finished with .executing before the queue saw it. *)
networkLose(p) ==
  /\ net[p] = "starting"
  /\ data[p] # NoData
  /\ net' = [net EXCEPT ![p] = "lost"]
  /\ UNCHANGED <<server, process, data, parsing, parsed, saving, avatars,
                 object, inFlight, realm, installed, crashed>>

(* ParsingOperation.main: without data, or with data that does not decode,  *)
(* it returns and parsedData stays empty; it finishes in every case.        *)
parsingMain(p) ==
  /\ net[p] = "finished"
  /\ parsing[p] = "waiting"
  /\ parsing' = [parsing EXCEPT ![p] = "finished"]
  /\ parsed' = [parsed EXCEPT ![p] = IF data[p].kind = "items"
                                     THEN data[p].items ELSE {}]
  /\ UNCHANGED <<server, process, net, data, saving, avatars, object,
                 inFlight, realm, installed, crashed>>

(* Mutant: the old friends are not deleted before the new ones are saved. *)
deleteAllFriendsObject_Keeps == UNCHANGED <<db, dbAvatars, object>>

(* RealmManager.deleteAllFriendsObject: every object is deleted, and every  *)
(* reference to one is invalidated.  A failed write ends the process (try!). *)
(* A Realm that cannot be opened is caught here, but the `try! Realm()` of  *)
(* saveGotFriendsInRealm, called next, ends the process: both are Kill.     *)
deleteAllFriendsObject ==
  /\ db' = {}
  /\ dbAvatars' = {}
  /\ object' = [q \in Loads |-> IF object[q] = "managed" THEN "invalidated"
                                ELSE object[q]]

(* Mutant: SavingOperation waits for a list that is not empty. *)
savingDelete_SkipsEmpty(p) ==
  /\ parsing[p] = "finished" /\ parsed[p] # {}
  /\ saving[p] = "waiting"
  /\ mainQueueStarts(p)
  /\ deleteAllFriendsObject
  /\ saving' = [saving EXCEPT ![p] = "deleted"]
  /\ UNCHANGED <<server, process, net, data, parsing, parsed, avatars,
                 inFlight, installed, crashed>>

(* SavingOperation.main, first write; the main thread stays in main(). *)
savingDelete(p) ==
  /\ parsing[p] = "finished"
  /\ saving[p] = "waiting"
  /\ mainQueueStarts(p)
  /\ deleteAllFriendsObject
  /\ saving' = [saving EXCEPT ![p] = "deleted"]
  /\ UNCHANGED <<server, process, net, data, parsing, parsed, avatars,
                 inFlight, installed, crashed>>

(* RealmManager.saveGotFriendsInRealm: the objects are added, replacing the *)
(* ones with the same id, and are managed by Realm from then on; a write    *)
(* that fails is ignored (try?).                                            *)
saveGotFriendsInRealm(p) ==
  \/ /\ db' = db \cup parsed[p]
     /\ dbAvatars' = dbAvatars \ parsed[p]
     /\ object' = [object EXCEPT ![p] = "managed"]
  \/ UNCHANGED <<db, dbAvatars, object>>

(* SavingOperation.main, second write, and its end. *)
savingAdd(p) ==
  /\ saving[p] = "deleted"
  /\ saveGotFriendsInRealm(p)
  /\ saving' = [saving EXCEPT ![p] = "finished"]
  /\ UNCHANGED <<server, process, net, data, parsing, parsed, avatars,
                 inFlight, installed, crashed>>

(* Reading a property of a deleted object raises an exception in Realm: the *)
(* process ends.                                                            *)
crash ==
  /\ crashed' = TRUE
  /\ first' = loads + 1
  /\ downloads' = {} /\ blocks' = {}

(* Mutant: start() marks the operation finished, not executing. *)
avatarsMain_Finishes(p) ==
  /\ saving[p] = "finished"
  /\ avatars[p] = "waiting"
  /\ mainQueueStarts(p)
  /\ avatars' = [avatars EXCEPT ![p] = "finished"]
  /\ \E withURL \in SUBSET parsed[p] :
       downloads' = downloads \cup ({p} \X withURL)
  /\ UNCHANGED <<server, process, net, data, parsing, parsed, saving, object,
                 blocks, realm, installed, crashed>>

(* DownloadingAvatarsOperation.start and main: reads photo50 of every       *)
(* object and starts a download for each one that is a URL.  The operation  *)
(* is executing from then on.                                               *)
avatarsMain(p) ==
  /\ saving[p] = "finished"
  /\ avatars[p] = "waiting"
  /\ mainQueueStarts(p)
  /\ avatars' = [avatars EXCEPT ![p] = "executing"]
  /\ \/ /\ object[p] # "invalidated" \/ parsed[p] = {}
        /\ \E withURL \in SUBSET parsed[p] :
             downloads' = downloads \cup ({p} \X withURL)
        /\ UNCHANGED <<first, blocks, crashed>>
     \/ /\ object[p] = "invalidated" /\ parsed[p] # {}
        /\ crash
  /\ UNCHANGED <<server, loads, net, data, parsing, parsed, saving, object,
                 realm, installed>>

(* Data(contentsOf:) on a global queue: queues a block on the main queue    *)
(* when it got the image, nothing otherwise.                                *)
avatarDownloaded(d) ==
  /\ downloads' = downloads \ {d}
  /\ blocks' \in {blocks, blocks \cup {d}}
  /\ UNCHANGED <<server, process, operations, realm, installed, crashed>>

(* The block on the main queue reads object.id and calls                    *)
(* RealmManager.saveAvatarForUserID, which does nothing for an id that is   *)
(* not in Realm, and ignores a write that fails (try?).                     *)
saveAvatarForUserID(d) ==
  /\ mainIdle
  /\ \/ /\ object[d[1]] # "invalidated"
        /\ dbAvatars' \in {dbAvatars, dbAvatars \cup ({d[2]} \cap db)}
        /\ blocks' = blocks \ {d}
        /\ UNCHANGED <<first, downloads, crashed>>
     \/ /\ object[d[1]] = "invalidated"
        /\ crash
        /\ UNCHANGED dbAvatars
  /\ UNCHANGED <<server, loads, operations, db, installed>>

(* The process ends, by the user, the system, a failed try! or a friend     *)
(* whose photo50 is nil; the app is started again on the same Realm file.   *)
Kill ==
  /\ first' = loads + 1
  /\ downloads' = {} /\ blocks' = {}
  /\ UNCHANGED <<server, loads, operations, realm, installed, crashed>>

(* External: the list at vk.com changes, or another user signs in. *)
ServerEdit ==
  /\ server' \in SUBSET Friend
  /\ UNCHANGED <<process, operations, inFlight, realm, installed, crashed>>

-----------------------------------------------------------------------------
NetworkSteps(p) == \/ networkStart(p) \/ networkExecuting(p) \/ networkReply(p)
                   \/ networkFinish(p) \/ networkLose(p)

AppSteps(p) == \/ parsingMain(p) \/ savingDelete(p) \/ savingAdd(p)
               \/ avatarsMain(p)

Next ==
  \/ downloadUserFriendsWithOperations
  \/ \E p \in InProcess : NetworkSteps(p) \/ AppSteps(p)
  \/ \E d \in downloads : avatarDownloaded(d)
  \/ \E d \in blocks : saveAvatarForUserID(d)
  \/ Kill
  \/ ServerEdit

(* The queues run what is ready and every request is answered (by its       *)
(* timeout at the latest).  Loading the screen, killing the process and     *)
(* editing the list are up to others.                                       *)
Fairness ==
  \A p \in Loads :
    /\ WF_vars(p \in InProcess /\ networkStart(p))
    /\ WF_vars(p \in InProcess /\ networkReply(p))
    /\ WF_vars(p \in InProcess
                 /\ (networkExecuting(p) \/ networkFinish(p) \/ networkLose(p)))
    /\ WF_vars(p \in InProcess /\ parsingMain(p))
    /\ WF_vars(p \in InProcess /\ savingAdd(p))
    /\ WF_vars(p \in InProcess /\ savingDelete(p))
    /\ WF_vars(p \in InProcess /\ avatarsMain(p))

Spec == Init /\ [][Next]_vars /\ Fairness

-----------------------------------------------------------------------------
(* Realm holds one reply of the service, or what the last run of the app    *)
(* left, or nothing: never a mixture of two lists, whatever the order of    *)
(* the SavingOperations of several loads and wherever the process is        *)
(* killed between their two writes.                                         *)
DbIsOneReply ==
  db = {} \/ db = installed \/ \E p \in Loads : parsing[p] = "finished" /\ db = parsed[p]

(* Every avatar download and every block waiting on the main queue refers   *)
(* to Friend objects that Realm still has.  The block reads object.id of a  *)
(* managed object, and nothing but the main queue being held by             *)
(* DownloadingAvatarsOperation keeps a later SavingOperation from deleting  *)
(* it.                                                                      *)
AvatarBlocksAreValid ==
  \A d \in downloads \cup blocks : object[d[1]] # "invalidated"

(* No property of a Friend object is read after a SavingOperation deleted   *)
(* the object from Realm, if the main queue keeps the order of submission:  *)
(* photo50 in DownloadingAvatarsOperation.main and id in its blocks are     *)
(* read of objects that the SavingOperation of another load may delete.     *)
NoInvalidatedAccess == InOrder => ~crashed

(* Once a DownloadingAvatarsOperation runs, the friends in Realm stay as    *)
(* they are until the process ends: it never finishes, and holds the main   *)
(* queue.                                                                   *)
FrozenOnceAvatarsRun == [][~mainQueueFree => db' = db]_vars

(* A parsed list is saved, unless an avatars operation holds the main queue *)
(* or the process ends first.                                               *)
ParsedIsSaved ==
  \A p \in Loads :
    (p \in InProcess /\ parsing[p] = "finished")
      ~> (saving[p] = "finished" \/ ~mainQueueFree \/ p < first)

(* What a ParsingOperation leaves is the list of its load's reply, empty    *)
(* if the request failed: it reads `data` of the NetworkOperation without a *)
(* lock and in another operation, and relies on the finish being announced  *)
(* after the only assignment of `data`, across kills and other loads.       *)
ParsesTheReply ==
  \A p \in Loads :
    parsing[p] = "finished" => data[p] # NoData /\ parsed[p] = data[p].items

-----------------------------------------------------------------------------
(* The comment beside the deletion in SavingOperation.main says what it is  *)
(* for: friends that were deleted in vk.com.  So stored friends are deleted *)
(* only with a list of the service at hand.  (The code deletes them after a *)
(* failed request as well.)                                                 *)
DeletesOnlyWithReply ==
  [][\A p \in Loads :
       (saving[p] = "waiting" /\ saving'[p] = "deleted" /\ db # {})
         => data[p].kind = "items"]_vars

(* The same comment: a friend who was deleted in vk.com, and is missing in  *)
(* a list that was fetched and parsed, leaves Realm.  (Not if an earlier    *)
(* DownloadingAvatarsOperation holds the main queue.)                       *)
DeletedFriendLeavesRealm ==
  \A p \in Loads, f \in Friend :
    (p \in InProcess /\ parsing[p] = "finished" /\ data[p].kind = "items"
       /\ f \notin data[p].items /\ f \in db)
      ~> (f \notin db \/ p < first)

=============================================================================
