---------------------------- MODULE TableScreens ----------------------------
(***************************************************************************)
(* The friends screen with the profile it opens, and the groups screen:    *)
(* two tables that show live Realm results.  When the rows are replaced    *)
(* (by SavingOperation, or by the completion handler of the groups         *)
(* request) the results change at once, and the table learns of it when    *)
(* the observer gets a notification with row indices and applies them as   *)
(* one batch.  In between the user can scroll, search and tap rows.  While *)
(* a search is active the table shows an array of objects, but the         *)
(* observer still applies the indices of the whole list.                   *)
(*                                                                         *)
(* An object is its id and the saving that created it; all older objects   *)
(* are deleted by a saving.  External: FriendsPipeline and GroupsScreen    *)
(* (when savings and avatars come), and UITableView, which counts its rows *)
(* at reloadData and at the end of a batch, and raises an exception if a   *)
(* batch does not fit its counts.                                          *)
(***************************************************************************)
EXTENDS CollectionNotifier, BatchUpdates, SequencesExt

CONSTANTS Id,        \* ids of friends, or of groups
          Matching,  \* those whose name contains the text searched for
          MaxSaves,  \* bound: how often the rows are replaced
          None

ASSUME IdAssumption == IsFiniteSet(Id)
ASSUME MatchingAssumption == Matching \subseteq Id
ASSUME MaxSavesAssumption == MaxSaves \in Nat

Object == [id : Id, save : 0 .. MaxSaves]

ASSUME NoneAssumption == None \notin Object

(* A row as it was drawn: the object, and whether it had an avatar. *)
Row == [object : Object, avatar : BOOLEAN]

(* Lists of objects of one saving. *)
Lists(n) == {[i \in DOMAIN l |-> [id |-> l[i], save |-> n]] :
               l \in UNION {SetToSeqs(S) : S \in SUBSET Id}}

VARIABLES
  screen,     \* which of the two screens this is
  saves,      \* how often the rows have been replaced
  saving,     \* the main thread is between the two writes of a saving
  frozen,     \* DownloadingAvatarsOperation runs: no more savings of friends
  avatars,    \* the objects in Realm that have an avatar
  filtering,  \* isFiltering
  searched,   \* searchedFriend, searchedGroup
  drawn,      \* the table's rows
  spinner,    \* the activity indicator of the screen is animating
  profile,    \* friendProfile of the profile screen on top, or None
  photo,      \* the profile's photo: none, waiting, shown or failed
  profileSpinner,  \* the activity indicator of the profile is animating
  stray,      \* so is that of a profile that was left
  hasSearched, hasFailed,  \* history: the search bar was used, a photo failed
  crashed     \* why the process ended

realm == <<results, saves, saving, frozen, avatars>>
table == <<filtering, searched, drawn, spinner, hasSearched>>
profileScreen == <<profile, photo, profileSpinner, stray, hasFailed>>
vars == <<screen, realm, notifier, table, profileScreen, crashed>>

Reasons == {"no", "batch", "range", "deleted"}

(* Lists are lists of objects and rows; only live objects wait to be        *)
(* reported and have avatars.                                               *)
TypeOK ==
  /\ screen \in {"friends", "groups"}
  /\ saves \in 0 .. MaxSaves
  /\ live \in Lists(saves)
  /\ saving \in BOOLEAN /\ frozen \in BOOLEAN /\ filtering \in BOOLEAN
  /\ modified \subseteq Range(live) /\ avatars \subseteq Range(live)
  /\ Range(drawn) \subseteq Row
  /\ Range(searched) \subseteq {o \in Object : o.id \in Matching}
  /\ profile \in Object \cup {None}
  /\ photo \in {"none", "waiting", "shown", "failed"}
  /\ spinner \in BOOLEAN /\ profileSpinner \in BOOLEAN /\ stray \in BOOLEAN
  /\ hasSearched \in BOOLEAN /\ hasFailed \in BOOLEAN
  /\ crashed \in Reasons

(* The row that cellForRowAt draws for an object. *)
row(object) == [object |-> object, avatar |-> object \in avatars]
Drawn(list) == [i \in DOMAIN list |-> row(list[i])]

(* viewDidLoad, and the first layout of the table. *)
Init ==
  /\ screen \in {"friends", "groups"}
  /\ saves = 0 /\ saving = FALSE /\ frozen = FALSE
  /\ live \in Lists(0)
  /\ avatars \in SUBSET Range(live)
  /\ NotifierInit
  /\ filtering = FALSE /\ searched = <<>>
  /\ drawn = Drawn(live)
  /\ spinner = TRUE
  /\ profile = None /\ photo = "none" /\ profileSpinner = FALSE /\ stray = FALSE
  /\ hasSearched = FALSE /\ hasFailed = FALSE
  /\ crashed = "no"

alive == crashed = "no"

(* Mutant: the two writes of a saving are not one block of the main queue. *)
mainFree_BetweenWrites == alive

(* The main thread takes the next event or block. *)
mainFree == alive /\ ~saving

deleted(object) == object.save # saves

crash(reason) ==
  /\ crashed' = reason
  /\ UNCHANGED <<screen, realm, notifier, table, profileScreen>>

-----------------------------------------------------------------------------
(* Mutant: friends are saved again while avatars come in. *)
deleteAll_WhileAvatars ==
  /\ mainFree
  /\ saves < MaxSaves
  /\ commit_write(<<>>, {})
  /\ saves' = saves + 1 /\ saving' = TRUE
  /\ avatars' = {}
  /\ UNCHANGED <<screen, frozen, table, profileScreen, crashed>>

(* The first write of a saving deletes all objects. *)
deleteAll ==
  /\ mainFree
  /\ ~frozen /\ saves < MaxSaves
  /\ commit_write(<<>>, {})
  /\ saves' = saves + 1 /\ saving' = TRUE
  /\ avatars' = {}
  /\ UNCHANGED <<screen, frozen, table, profileScreen, crashed>>

(* Where the groups screen stops its indicator, after the second write. *)
stopAfterSaving == spinner' = (spinner /\ screen = "friends")

(* The second write adds the new objects; a failing one is ignored (try?).  *)
(* Both wait for the notification about the first.                          *)
saveGot(list) ==
  /\ alive /\ saving
  /\ list \in Lists(saves)
  /\ \/ commit_write(list, {})
     \/ promote_to_write /\ UNCHANGED <<results, notifier>>
  /\ saving' = FALSE
  /\ stopAfterSaving
  /\ UNCHANGED <<screen, saves, frozen, avatars, filtering, searched, drawn,
                 hasSearched, profileScreen, crashed>>

(* External: the avatars operation of the friends starts. *)
AvatarsRun ==
  /\ mainFree /\ screen = "friends"
  /\ ~frozen /\ frozen' = TRUE
  /\ UNCHANGED <<screen, results, saves, saving, avatars, notifier, table,
                 profileScreen, crashed>>

(* saveAvatarForUserID, saveAvatarForGroupID: a block on the main queue.    *)
saveAvatar(i) ==
  /\ mainFree
  /\ frozen \/ screen = "groups"
  /\ commit_write(live, {live[i]})
  /\ avatars' = avatars \cup {live[i]}
  /\ UNCHANGED <<screen, saves, saving, frozen, table, profileScreen, crashed>>

-----------------------------------------------------------------------------
(* observe(on: DispatchQueue.main), and Realm's worker thread. *)
observe ==
  /\ mainFree
  /\ add_callback
  /\ UNCHANGED <<screen, saves, saving, frozen, avatars, table, profileScreen, crashed>>

notifierWorks ==
  /\ alive
  /\ run \/ prepare_handover
  /\ UNCHANGED <<screen, saves, saving, frozen, avatars, table, profileScreen, crashed>>

(* What the table's data source gives. *)
source == IF filtering THEN searched ELSE live
numberOfRowsInSection == Len(source)

(* cellForRowAt for these rows reads properties of their objects. *)
readsDeleted(indices) == \E i \in indices : deleted(source[i])

(* Mutant: the indicator is not stopped. *)
stopWhenNotified_Never == spinner' = spinner

(* The friends screen stops its indicator with every notification. *)
stopWhenNotified == spinner' = (spinner /\ screen = "groups")

(* The .initial notification: reloadData. *)
initial ==
  /\ alive
  /\ callback = "added"
  /\ \/ /\ ~readsDeleted(DOMAIN source)
        /\ after_advance
        /\ drawn' = Drawn(source)
        /\ stopWhenNotified
        /\ UNCHANGED <<screen, saves, saving, frozen, avatars, filtering, searched,
                       hasSearched, profileScreen, crashed>>
     \/ package_for_delivery /\ readsDeleted(DOMAIN source) /\ crash("deleted")

(* Mutant: the rows of deleted objects are not deleted. *)
batch_NoDeletions(c) == [c EXCEPT !.deletions = {}]

(* The rows that .update deletes, inserts and reloads. *)
batch(c) == c

(* The .update notification. *)
update ==
  /\ alive
  /\ callback = "called" /\ package_for_delivery /\ changes # NoChange
  /\ LET b == batch(changes)
         fit == Fits(b, Len(drawn), numberOfRowsInSection)
     IN
       \/ /\ ~fit
          /\ crash("batch")
       \/ /\ fit
          /\ readsDeleted(Redrawn(b, numberOfRowsInSection))
          /\ crash("deleted")
       \/ /\ fit
          /\ ~readsDeleted(Redrawn(b, numberOfRowsInSection))
          /\ after_advance
          /\ drawn' = Applied(b, drawn, Drawn(source))
          /\ stopWhenNotified
          /\ UNCHANGED <<screen, saves, saving, frozen, avatars, filtering, searched,
                         hasSearched, profileScreen, crashed>>

-----------------------------------------------------------------------------
(* The user. *)
onTop == mainFree /\ profile = None

(* Mutant: nothing is filtered. *)
filtered_All == {live}

(* The objects whose name contains the text: the one list of them that has  *)
(* the order of the results.                                                *)
filtered ==
  {l \in SetToSeqs({o \in Range(live) : o.id \in Matching}) :
     \A a, b \in DOMAIN l, i, j \in DOMAIN live :
       (a < b /\ l[a] = live[i] /\ l[b] = live[j]) => i < j}

(* updateSearchResults with a text, and reloadData. *)
filterContentForSearchText ==
  /\ onTop
  /\ filtering' = TRUE
  /\ searched' \in filtered
  /\ drawn' = Drawn(searched')
  /\ hasSearched' = TRUE
  /\ UNCHANGED <<screen, realm, notifier, spinner, profileScreen, crashed>>

(* updateSearchResults with no text, when the search bar is only activated, *)
(* emptied or cancelled: isFiltering is false, and the table is reloaded as *)
(* well.  What it puts in the array is not read before the next search      *)
(* replaces it.                                                             *)
emptySearchText ==
  /\ onTop
  /\ filtering' = FALSE
  /\ searched' = <<>>
  /\ drawn' = Drawn(live)
  /\ hasSearched' = TRUE
  /\ UNCHANGED <<screen, realm, notifier, spinner, profileScreen, crashed>>

(* The object behind row i. *)
rowObject(i) == source[i]

(* Row i scrolls into view: cellForRowAt indexes the list as it is now. *)
scroll(i) ==
  /\ onTop
  /\ \/ /\ i > Len(source) /\ crash("range")
     \/ /\ i <= Len(source) /\ deleted(rowObject(i)) /\ crash("deleted")
     \/ /\ i <= Len(source) /\ ~deleted(rowObject(i))
        /\ drawn' = [drawn EXCEPT ![i] = row(rowObject(i))]
        /\ UNCHANGED <<screen, realm, notifier, filtering, searched, spinner, hasSearched,
                       profileScreen, crashed>>

(* viewDidLoad of the profile of an object: without photoMax the indicator  *)
(* stops, otherwise a block on the main queue will download the photo.      *)
profileViewDidLoad(object) ==
  /\ profile' = object
  /\ \E wait \in BOOLEAN : /\ photo' = IF wait THEN "waiting" ELSE "none"
                           /\ profileSpinner' = wait
  /\ UNCHANGED <<stray, hasFailed>>

(* prepare(for:sender:) for row i; the profile reads the friend's name.     *)
prepare(i) ==
  /\ onTop /\ screen = "friends"
  /\ \/ /\ i > Len(source) /\ crash("range")
     \/ /\ i <= Len(source) /\ deleted(rowObject(i)) /\ crash("deleted")
     \/ /\ i <= Len(source) /\ ~deleted(rowObject(i))
        /\ profileViewDidLoad(rowObject(i))
        /\ UNCHANGED <<screen, realm, notifier, table, crashed>>

(* Mutant: a photo that was downloaded leaves the indicator running. *)
downloadProfilePhoto_KeepsSpinning ==
  /\ mainFree /\ photo = "waiting"
  /\ ~deleted(profile)
  /\ photo' = "shown"
  /\ UNCHANGED <<screen, realm, notifier, table, profile, profileSpinner, stray,
                 hasFailed, crashed>>

(* The block of downloadProfilePhoto.  A failed download returns at once,   *)
(* and leaves the indicator running; otherwise it stops, and the screen is  *)
(* drawn again, which reads the friend.                                     *)
downloadProfilePhoto ==
  /\ mainFree /\ photo = "waiting"
  /\ \/ deleted(profile) /\ crash("deleted")
     \/ /\ \/ /\ photo' = "failed" /\ hasFailed' = TRUE
              /\ UNCHANGED profileSpinner
           \/ /\ ~deleted(profile)
              /\ photo' = "shown" /\ profileSpinner' = FALSE
              /\ UNCHANGED hasFailed
        /\ UNCHANGED <<screen, realm, notifier, table, profile, stray, crashed>>

(* Rows of the profile scroll into view, or are tapped: they read the       *)
(* object that the profile was opened with.                                 *)
profileReads ==
  /\ mainFree /\ profile # None
  /\ deleted(profile)
  /\ crash("deleted")

(* The user goes back; the block has run before the screen can be touched.  *)
(* The indicator of the profile is a subview of the navigation controller's *)
(* view, and stays there.                                                   *)
back ==
  /\ mainFree /\ profile # None /\ photo # "waiting"
  /\ profile' = None /\ photo' = "none"
  /\ profileSpinner' = FALSE /\ stray' = (stray \/ profileSpinner)
  /\ UNCHANGED <<screen, realm, notifier, table, hasFailed, crashed>>

-----------------------------------------------------------------------------
Next ==
  \/ deleteAll
  \/ \E list \in Lists(saves) : saveGot(list)
  \/ AvatarsRun
  \/ \E i \in DOMAIN live : saveAvatar(i)
  \/ observe \/ notifierWorks
  \/ initial \/ update
  \/ filterContentForSearchText \/ emptySearchText
  \/ \E i \in DOMAIN drawn : scroll(i) \/ prepare(i)
  \/ downloadProfilePhoto \/ profileReads \/ back

(* The main queue runs its blocks, a saving that has begun goes on, Realm's *)
(* worker runs when it is woken, and what it hands over is delivered.       *)
(* Nobody else is obliged to anything.                                      *)
Fairness ==
  /\ WF_vars(observe) /\ WF_vars(notifierWorks)
  /\ WF_vars(initial) /\ WF_vars(update)
  /\ WF_vars(\E list \in Lists(saves) : saveGot(list))
  /\ WF_vars(downloadProfilePhoto)

Spec == Init /\ [][Next]_vars /\ Fairness

-----------------------------------------------------------------------------
(* As long as nobody has used the search bar, every batch that an observer  *)
(* applies fits the rows the table has counted, whatever savings, avatars   *)
(* and taps come between a write and its notification.                      *)
BatchesFitWithoutSearch == crashed = "batch" => hasSearched

(* A row of the table is out of range, when it is scrolled to or tapped,    *)
(* only if the rows were replaced before the observer was first called:     *)
(* from then on the deletion of all rows is always delivered before the     *)
(* user can touch the table again, also if the second write fails.          *)
RangeNeedsEarlySaving == crashed = "range" => callback # "called" /\ saves > 0

(* Every row whose object was given an avatar shows it, once the            *)
(* notification about that avatar is delivered; as long as there was no     *)
(* search this holds whatever savings were made, in whatever order avatars  *)
(* came, and wherever the user scrolled meanwhile.                          *)
AvatarsAreDrawn ==
  (callback = "called" /\ promote_to_write /\ alive /\ ~hasSearched)
    => drawn = Drawn(live)

(* No more savings come. *)
lastSaving == ~saving /\ (frozen \/ saves = MaxSaves)

(* Nothing is pending, nothing on the screen is older than the last saving, *)
(* no search is active, and no more savings come.                           *)
Quiet ==
  /\ alive /\ lastSaving /\ callback = "called" /\ ~filtering
  /\ seen = live /\ Len(drawn) = Len(live)
  /\ \A i \in DOMAIN live : drawn[i].object = live[i]
  /\ profile # None => ~deleted(profile)

(* From then on the screens are safe: avatars that come in, scrolling,      *)
(* tapping and going back never end the process, and keep the table equal   *)
(* to Realm, until a search is started.                                     *)
QuietIsSafe == [][(Quiet /\ ~filtering') => Quiet']_vars

(* The indicator of a profile stays in the navigation controller, over      *)
(* every screen that is opened later, only if a photo could not be          *)
(* downloaded.                                                              *)
OnlyFailuresStray == stray => hasFailed

(* Once the last saving is done the indicator of the screen stops, and the  *)
(* table gets to show what is in Realm, unless the process ends or the user *)
(* has searched.                                                            *)
TableCatchesUp ==
  lastSaving ~> (~alive \/ hasSearched
                 \/ (~spinner /\ Len(drawn) = Len(live)
                       /\ \A i \in DOMAIN live : drawn[i].object = live[i]))
=============================================================================
