# SocialApp: a TLA+ model

SocialApp is an iOS client of vk.com in Swift (`src/SocialApp/SocialApp`): the
user signs in through a web view, and a tab bar shows news, groups, messages,
friends and the account. Lists are fetched over HTTP, stored in a Realm
database and shown from there. The code is small; what makes it hard is that
operations, completion handlers, global queues and the main queue share
objects without locks, that Realm objects die under the references to them,
and that Realm outlives the process.

## 1. Inventory

| Component | State | Operations | Talks to |
|---|---|---|---|
| `AsyncOperation`, `NetworkOperation` | `state`, `isCancelled`, `data` | `start`, `cancel`, the setter of `state` with its KVO notifications, the completion handler | the operation queue through KVO; Alamofire |
| Friends pipeline: `ParsingOperation`, `SavingOperation`, `DownloadingAvatarsOperation`, `FriendsTableViewController.downloadUserFriendsWithOperations` | `parsedData`; the positions of four operations per load | parse, delete all, save, download avatars, save an avatar | a private queue, `OperationQueue.main`, global queues, Realm |
| `RealmManager` | the tables Friend, Group, Photo, Photoflow | delete all, save, save an avatar, read live results | all screens; the observers |
| Groups screen | `groups`, the activity indicator | request, completion handler, `downloadAvatars` | `NetworkManager`, Realm, `DispatchQueue.main` |
| Session: `WebLoginViewController`, `TabBarController`, `UserSession`, `AccountTableViewController` | token, user id, UserDefaults, Firebase and the writes on their way to it, root controller, loaded tabs | redirect with both keys, one or none, tab selection, sign out, relaunch | every screen that sends a request; Firebase |
| `NetworkManager` | none but the session it reads | one function per request | Alamofire |
| Friends table, search and profile; groups table | live results, rows, `searchedFriend`, the tapped friend | observer batches, search, segue | Realm |
| Realm's collection notifier (vendored ObjectStore) | rows seen, accumulated changes, version | add a callback, wait before a write, commit, compare, hand over, deliver | the observers, on the main thread; a worker thread |
| News feed | `newsFeed`, the builder's own list, like counters | build, two media threads, like | `NetworkManager` |
| Photoflow | metadata and photos per owner, items of the collection view | fetch, download, save, observe, scroll, full screen | Realm |
| Groups search | none (its list stays empty) | a request per change of the text | `NetworkManager` |
| Messenger | a fixed list of rows | delete rows | nobody |

Hard behaviours: three threads inside one KVO-observed property; operations of
several loads on one main queue, where one operation never finishes; managed
objects captured by blocks that run later; two write transactions where one is
meant; a process killed between them; a table that learns of a write only when
a worker thread has compared the rows, while the results behind it have changed
already; requests answered late, with nothing or
with an error object; optional values unwrapped on the strength of what another
controller did earlier.

What makes each part correct:

- an operation is finished for its queue once, after its result is there, and
  whenever its `state` stays `.finished`;
- the stored friends (groups) are one reply of the service, never a mix, and
  failures do not lose them;
- a block that runs later finds its objects alive;
- an answered request ends in a saved list and a stopped indicator;
- a batch of row changes fits the rows the table has, and leads to the results;
- rows and items show the object that is stored, once all is delivered;
- a request carries a token and an id, of one user as long as redirects carry both.

The hazards behind these, with their lines, are in `PROJECT.json`.

## 2. Modules

| Module | Models | Relation |
|---|---|---|
| `OperationContract` | what an asynchronous operation promises its queue | abstract specification |
| `AsyncOperation` | `AsyncOperation.swift`, `NetworkOperation.swift` | implements `OperationContract` |
| `AsyncOperationProofs` | inductive invariant, refinement and theorems | extends `AsyncOperation` |
| `FriendsPipeline` | the four friends operations and the Realm table Friend | its network steps are those `OperationContract` promises |
| `FriendsPipelineProofs` | inductive invariant and theorems | extends `FriendsPipeline` |
| `GroupsScreen` | the groups request, its handler, avatars, indicator | |
| `GroupsScreenProofs` | inductive invariant and theorems | extends `GroupsScreen` |
| `Session` | login, tab bar, requests, sign out, relaunch | |
| `SessionProofs` | inductive invariant and theorems | extends `Session` |
| `CollectionNotifier` | Realm's notifier of a collection, from a write to the callback | |
| `CollectionNotifierProofs` | inductive invariant and theorem | extends `CollectionNotifier` |
| `BatchUpdates` | what UITableView and UICollectionView do with a batch (external) | |
| `TableScreens` | the friends table with its profile, and the groups table | composes `CollectionNotifier` and `BatchUpdates`; environment: savings and avatars of `FriendsPipeline` and `GroupsScreen` |
| `TableScreensProofs` | inductive invariant and theorems | extends `TableScreens`, `CollectionNotifierProofs` |
| `NewsFeed` | the news request, `NewsFeedBiulder`, media threads, cells, likes | |
| `NewsFeedProofs` | inductive invariant and theorems | extends `NewsFeed` |
| `Photoflow` | photo metadata, downloads and images of several owners | |
| `PhotoGallery` | the collection view of the photos, its observer, scrolling and tapping | composes `Photoflow`, `CollectionNotifier` and `BatchUpdates` |
| `PhotoGalleryProofs` | inductive invariants and theorems, of `Photoflow` too | extends `PhotoGallery`, `CollectionNotifierProofs` |
| `MC...` | the instances TLC checks | extend the modules above |

### OperationContract

Phases `ready`, `starting`, `executing`, `finished`; a result is delivered once
and `finished` comes after it. `lost` is part of the contract because the code
really can lose a finish: `start()` calls `main()` and assigns `.executing`
afterwards, so a reply that comes in between has its `.finished` overwritten.
`cancelled` ends all promises.

### AsyncOperation

`state` is an unsynchronised stored property with `willSet` and `didSet`. The
setter is six steps per thread: load `oldValue`, `willSet`, store, compute the
new key path in `didSet`, notify it, notify the old key path. The threads are
the queue's worker in `start()`, the completion handler, and a caller of
`cancel()`, whose two assignments (`super.cancel()` and its own) are two entries
in the thread's list `todo`. `queueDone` is what the queue knows: it is set when
an `isFinished` notification finds `isFinished` true, and is never reset. A
notification whose key this thread did not announce in `willSet` is dropped.
`[weak self]` is `completionWithoutSelf`: once the queue has let the operation
go and no thread is inside it, the handler finds nil.

External: the queue, KVO, Alamofire (a handler is called once, also for a
cancelled request).

### FriendsPipeline

Each load of the friends screen is a number in `Loads`; signing out and in again
loads a new screen in the same process. `InProcess` are the loads whose
operations the running process holds; `Kill`, and a crash, move `first` past
all of them, drop what is in flight, and keep Realm. `net` and `data` are the
network operation as the contract sees it. `parsingMain` leaves `parsed` empty
for a nil or undecodable reply and finishes all the same. `savingDelete` and
`savingAdd` are the two transactions of `SavingOperation.main`; the main thread
stays between them, but the process can be killed there, and the second write
may fail (`try?`). `object[p]` says whether the Friend objects in `parsedData`
are managed by Realm or have been deleted. `avatarsMain` reads them, starts a
download for those with a URL, and makes the operation executing, for ever.
`avatarDownloaded` runs on a global queue; `saveAvatarForUserID` is the block on
the main queue, which reads `object.id`.

A nil `photo50` (`object.photo50!`) and a failed `try!` end the process and are
covered by `Kill`. So is a Realm that cannot be opened: `deleteAllFriendsObject` catches
that and prints it, but `saveGotFriendsInRealm` opens it next, with `try!`.

External: the main queue. It has one slot, which an asynchronous operation
holds until it reports that it finished. Which of several ready operations it
takes is not documented, so `InOrder` chooses: any of them, or the one submitted
first.

### GroupsScreen

The completion handler runs on the main thread in steps: delete all (`deleteObjects`),
save and stop the indicator, then one `downloadAvatar` per group found in Realm,
each of which may append a block to the FIFO `mainQueue`. Other threads append
replies meanwhile, so the handler of a second load can be queued between the
avatar blocks of the first. `saver` is the load that deleted last: a block of
another load refers to deleted objects. The groups in `NoPhoto` are listed
without `photo_50`; `Group.init(from:)` leaves nil (`try?`), and `group.photo50!`
ends the process. A nil reply returns before `stopActivityIndicator`.

### Session

`token` and `userId` are the user they were issued to, or nil. A redirect carries any
`Fragment`: both keys, one, or none (an error), and a user id that `Int()` does not
take. The two `if let` of `decidePolicyFor` are independent, so each key that is there
replaces its value, in `UserSession` and in UserDefaults, and the other stays; an id
that is no number ends the process at `userId!`, and a component without "=" ends it
at `param[1]` before anything is kept (`decidePolicyForBroken`). Then the tab bar is
launched, whatever the fragment had, unless the view is in no window
(`launchTabBarController`); `TabBarViewDidLoad` unwraps the token. `setValue` only
queues a write (`writes`), which Firebase takes or refuses later and which the end of
the process loses; nobody is told, and nothing reads the records. A tab's screen is
loaded, and sends its request, the first time it is selected in this tab bar; it
unwraps the user id. `groupsSearch` is a change of the text in the search of groups,
which sends a request without a user id; if that fails, `respone.value!` ends the
process (`groupsSearchFails`). `died` says where the process ended; the app is then
started again without a session. `signOutButton` leaves session and UserDefaults
alone; `Relaunch` loses the session and keeps UserDefaults. `redirects` is a history,
used in properties only: which keys the redirects of this process carried.

### CollectionNotifier

Every write of the app is made on the main thread, and the main thread and the
main queue share one Realm (`RLMRealm.mm:377`), so the results change with the
commit. The notifier is of the vendored ObjectStore, whose source is in the
repository: `commit_write` makes a new version; the worker takes the newest
version and compares rows (`run`, `calculate`), then adds what it found to the
changes of the callback (`prepare_handover`); the main thread delivers in a turn
of its run loop, if the notifier is at the version the Realm is at
(`package_for_delivery`, `after_advance`). Beginning a write waits for the worker
and delivers first: `promote_to_write` is the condition under which the wait and
the delivery are over, so a saving of two writes runs the observer between them.
`modified` are the objects that a write touched; `behind` counts versions the
worker has not handed over. `merge` is the general operation of the source cut to
what happens when nothing waits, which `NoMerge` shows to be always so; moves
never occur, as the results are in table order; `deliver_error` needs an error
that no code sets.

`observe(on:)` registers the callback in a block of the main queue
(`RLMCollection.mm:419`), which is the action `observe` of the screens.

### TableScreens

The friends screen and the groups screen have one shape and two differences, in
`screen`: where the indicator stops, and the profile that the friends screen
opens. `live` is the Realm result; `drawn` what the table's rows show and how
many it has counted. An object is its id and the number of the saving that
created it: older ones are deleted. `deleteAll` and `saveGot` are the two writes of
a saving, `saving` the time between them, in which the main thread only delivers
notifications. Savings of friends stop once an avatars operation runs
(`FrozenOnceAvatarsRun`, proved for `FriendsPipeline`), and avatars of friends only
come after that; those of groups come at any time. `update` applies a change the
way `UITableView` does: counts must agree, kept rows move, inserted and reloaded
rows are drawn again, from `searchedFriend` while a search is active. A batch that
does not fit, a row out of range and a read of a deleted object are the ways the
process can end. `filtered` is the set of lists that `filter` can leave: those of the
objects found, in the order of the results. `emptySearchText` is the
search bar without a text: activated, emptied or cancelled, it reloads the table as well.
The profile keeps its `Friend`; its indicator is a subview of the
navigation controller, so one that was not stopped is `stray` afterwards.

### NewsFeed

A post's optional values are sets with at most one element. `biuldNewsFeed` is
the completion handler: author lookup by the sign of `source_id`, one URL per
attachment, first drawing, start of the two threads. `todo` is what each thread
still has to download, as a set of jobs with a post, a place and a URL; `current`
is the job the thread's loops have got to, and `storing` the moment in which it writes to a `News`
object: drawing that object meanwhile is a data race, which gives the old value
or ends the process. Header and footer cells are reused and keep what the next
post does not have. Pressing the like button of a post without a counter ends
the process (`likeCount!`). The author is the first of the reply's list with that
number, as `filter` and `first` find him.

### Photoflow

`photo` and `flow` are the tables Photo and Photoflow, both keyed by the photo's
id alone. Each opening of the screen is a number in `Screens`; `InProcess` are
those of the running process. `downloadPhotoMetaData` is the whole completion
handler: the friend is unwrapped (and may be gone), the metadata stored, a
download started per stored photo of the owner, until one has no usable URL.
`savePhotoflow` is the block on the main queue, which reads the owner from the
Photo object as it is then. `Album` says which photos exist, so which ids two
owners share is part of the instance. The friends in Realm can be replaced at any
time (`FriendsPipeline`), so whether the unwrapped friend is there is open.

### PhotoGallery

Each step of `Photoflow` that writes to Realm is, in the same step, a write for the
notifier of the results that the newest screen shows. A write to another table is
a new version as well. `reloadData` of a collection view takes effect at the next
layout (`laidOut`); a batch that comes first may count the items at its beginning,
when the results have changed already, so `counted` has both outcomes.
The observer's closure and the token hold each other's owner, so a controller that
was left stays and goes on applying batches (`showing` is then false); the newest
controller is followed until the next one opens. `didSelectItemAt` only matters
when the index tapped is not in the results any more: the full screen view scrolls
to it. `getPhotoflow` is the list of the owner's images in the order of their keys
(`InKeyOrder`). `overtaken` and `early` are histories, used in properties only.

## 3. Runs

| Run | Instance | Shows |
|---|---|---|
| `async_operation` | two replies, cancel allowed; 108,526 states | every finish that lasts is known to the queue; a `cancel()` that returned has finished the operation, for its queue if that had started it; until a cancel the contract is kept, data before the finish and progress included |
| `friends_pipeline` | 2 friends, 2 loads, main queue in any order; 360,216 states | replies never mix; avatar blocks stay valid; nothing is stored after avatars started; what is parsed is the load's own reply; a parsed list is saved or the main queue is held |
| `friends_in_order` | 1 friend, 3 loads, main queue in order of submission; 1.5 million states | no deleted Friend object is read |
| `friends_wiped_on_failure` | 1 friend, 1 load | violation: see findings |
| `friends_stale` | 1 friend, 2 loads | violation: see findings |
| `groups_screen` | 2 groups, one without a photo, 2 loads | replies never mix; failures change nothing; the indicator stops after an answer |
| `groups_invalidated` | 2 groups, 2 loads | violation: see findings |
| `session` | 2 users, 3 tabs; 76,592 states | requests carry one session unless redirects differed in their keys; `token!` and `userId!` fail only if no redirect brought the value |
| `session_denied` | 1 user | violation: see findings |
| `table_screens` | 2 friends or groups, one found by the search, 2 savings; 443,485 states | each write is reported on its own and its change leads to the results; as long as the search bar is not used every batch fits; rows are out of range only before the first notification; avatars get drawn; an indicator is left behind only by a failed photo; a settled screen stays safe; the table catches up |
| `news_feed` | up to 2 posts of four shapes; 71,586 states | likes balance; reused cells show the counter and the avatar their post has, and else an avatar of the same feed; photos stay attached, in order; the media get shown |
| `photoflow` | 2 owners who share an id, one photo without a URL, 2 screens, with the collection view; 126,922 states | images with an unshared id are their owner's; no metadata is lost; a batch fails only on top of a reload; an item is missing only if another owner took its id; items are current; the indicator stops; the gallery catches up |

Every property of a passing run has a mutant in `PROJECT.json`: a definition
replaced by a plausible slip of the same code (`..._OldOnly`, `..._Keeps`, ...)
which makes TLC refute the property.

**Bounds.** `MaxLoads`, `MaxSaves`, `MaxPosts` and `MaxScreens` are the bounds. Two loads are the least
at which operations of different screens meet on the main queue, and at which a
kill can separate an old process from a new one; three allow one operation to
overtake two others. Two friends (groups) tell a mixed list from either reply
and an empty list from a partial one. Two users tell an old session from a new
one; of the five tabs, News and Friends do nothing in `Session` that Account does not. Two savings let one come between a write and its notification and bring the
old length back. Two posts are the least at which a cell is reused, and their
shapes include a group and a user of the same number. Two screens are the least
at which two owners meet; two photos of one owner are the least at which an item
can show its neighbour. `AsyncOperation` and
`Session` have no bound. The theorems below remove the bounds, and the choice of
friends, groups, posts, albums and users, for all safety properties of the runs but
the findings.

**Fairness.** `AsyncOperation`: the queue starts a ready operation, `start()`
and setters run on, and Alamofire calls its handler (after its timeout at the
latest); nobody has to call `cancel()`. `FriendsPipeline`: the same per load,
and queues run operations that stay ready. No fairness for loading a screen,
killing the process, editing at vk.com, or for avatar downloads. The weak
fairness of `savingDelete` is enough: while an operation waits, what blocks it is
the main thread between two writes (which ends) or a running avatars operation
(which does not, and is an alternative in `ParsedIsSaved`). `GroupsScreen`: the
main thread goes on, and requests are answered. `TableScreens`: the main queue
runs the block that registers the observer, Realm's worker runs when it is woken,
what it hands over is delivered, and a saving that has begun goes on.
`PhotoGallery`: the same, and the run loop lays out views. `NewsFeed`: the two threads go on (a download ends, by its
timeout at the latest), and the main queue runs their reloads. `Photoflow`:
requests are answered, downloads end, and blocks run. No user has to do
anything. `Session` promises no progress. Deadlock is checked in every run but
`table_screens`, where a crash ends the process; in `AsyncOperation` the step
`Terminated`, and in `NewsFeed` the step `Idle`, say when nothing is left to do.

**Main queue order.** `NoInvalidatedAccess` of `FriendsPipeline` is stated for
`InOrder`. With any order the two savings of two loads can run first, and the
avatars operation of the earlier load then reads objects the second saving
deleted. Avatar *blocks* are safe in either order: the avatars operation that
started the downloads holds the main queue, so no saving follows it.

## 4. Findings

1. `friends_wiped_on_failure`: `SavingOperation` deletes all stored friends and
   saves nothing after a failed request, although the comment beside the
   deletion gives friends deleted in vk.com as its purpose, and the version
   without operations returns first.
2. `friends_stale`: `DownloadingAvatarsOperation` never becomes finished and
   holds the main queue, so the next load in the same process never saves, and a
   friend deleted in vk.com stays stored.
3. `groups_invalidated`: an avatar block of one load reads `group.id` after the
   handler of another deleted the object.
4. `session_denied`: a denied login launches the tab bar, which unwraps a nil
   token.

Other weaknesses are visible in the models and have no run of their own. A batch of
the photo collection can meet items that were counted twice or not yet, if an image
is stored between `reloadData` and the layout; an item scrolled to between a write
and its notification shows its neighbour, and a photo may stay on the screen twice.
A profile photo that cannot be downloaded leaves its indicator over all later
screens. A failed search request ends the process. While a
search is active the observer applies indices of the whole list to the rows of
the search, which ends the process (`crashed = "batch"`) or reads a deleted
object; even after the search the table can stay behind Realm, because the
search reloaded it between two savings. Photos of two owners with the same id
replace each other, and an image can be stored under the other owner. A photo
without a size "x" leaves out the photos after it and the end of the indicator.
A redirect with a token and no user id, or the reverse, joins it to
what an earlier login left, and requests then carry two users. A reused header cell
keeps another post's avatar if its post has none. Only activating the search bar, between
a write and its notification, reloads the rows that the batch then finds changed. Sign
out leaves
`UserSessionToken` and `UserSessionUserID` in UserDefaults, while
`Features.rtf:14` speaks of a reset; and `group.photo50!` ends the process for a
group without a photo, which `Group.swift:49` decodes as nil.

## 5. Theorems

Proved by TLAPS for every set of friends, every `MaxLoads` in Nat and both
values of `InOrder`:

- `TypeCorrect`, `OneReply` (`DbIsOneReply`), `BlocksValid`
  (`AvatarBlocksAreValid`), `NoDeletedObjectIsRead` (`NoInvalidatedAccess`),
  `Frozen` (`FrozenOnceAvatarsRun`), and `ReplyParsed` (`ParsesTheReply`), which rests on
  `FinishedHasData`: no network operation is finished before its `data` is assigned.

The inductive invariant `IInv` of `FriendsPipelineProofs` has these parts, each
needed by the next:

- `OperationOrder`: an operation has run only after the one it depends on;
- `FreshLoads`: loads that have not happened have untouched operations;
- `OneSaver`: at most one SavingOperation of the process is between its writes;
  the table is empty then and no avatars operation runs;
- `AvatarsHoldQueue`: what is being downloaded or queued belongs to an avatars
  operation that is running in this process, and its objects are alive. This is
  the reason no block reads a deleted object: the operation that never finishes
  keeps every later saving away;
- `DeletedByEarlier`: with `InOrder`, objects of a load are deleted only by the
  saving of an earlier load, whose avatars operation then goes first and keeps
  the queue, so the later avatars operation never reads them;
- `DbIsOneReply` and `NoInvalidatedAccess` themselves.

`SessionProofs` proves, for every set of users and tabs, `SessionTypeCorrect`,
`OneSession` (`RequestsCarryOneSession`) and `UnwrapsFail` (`UnwrapsFailWithoutKey`).
The invariant adds that the tab bar is shown only with a token (`RootInv`), that there
is a token, or an id, if and only if a redirect of this process carried one (`TokenInv`,
`IdInv`: only the end of the process takes them away), and that they are of one user as
long as all redirects carried both (`WholeInv`). A redirect with an error after signing
out is harmless only because the old session stayed.

`PhotoGalleryProofs` proves of `Photoflow`, for all owners, albums and numbers of screens,
`PhotoflowTypeCorrect`, `GalleryOwn` (`GalleryIsOwn`) and `MetadataThere`
(`MetadataIsThere`). `GalleryIsOwn` alone is not inductive, since the block
takes the owner from a table that other screens write. The invariant adds that
metadata in Realm always belongs to a photo that exists (`MetadataIsReal`), that
an image keeps the id under which it will be stored (`ImagesKeepIds`), and that
screens have owners: an id only one owner uses can then only be his.

`CollectionNotifierProofs` proves `NotifierNeverMerges`: whatever rows the writes
leave, every change that is delivered is about one write. `NoMerge` alone is not
inductive; the invariant `WorkerInv` adds that a running worker covers all versions
it is behind, that it runs only before its first handover or when it is behind, and
that it falls behind, at most by one, only after its first handover, with nothing
left to deliver. It rests on `promote_to_write`: a write begins only when all earlier ones
are delivered. `TableScreensProofs` (`SavingsAreReportedApart`) and
`PhotoGalleryProofs` (`ImagesAreReportedApart`) show that every action of the screens
is a step of the notifier or leaves it alone, so the result holds for the
compositions, with any ids, owners, savings and screens.

`AsyncOperationProofs` proves, for all replies and with cancelling allowed or not,
`TypeCorrect`, `FinishAnnounced` (`FinishIsAnnounced`), `CancelReachesQueue`
(`CancelFinishes`) and `RefinesContract`: every behaviour satisfies the safety part
of `OperationContract` (`SafetySpec`). Three threads are inside the setter at once, so
the invariant says where each of them stands: what it has left to assign
(`Assignments`), that it announced the key of its new value (`NewKeyAnnounced`), in
which order the threads begin (`ThreadOrder`), and that a finish the queue does not
know of is about to be notified by somebody (`FinishIsPending`). For cancelling,
`CancelFinishes` has two cases: an operation the queue had started is finished for the
queue, one it had not started is `.finished` without a request, and whether the queue was
told is left open. `CancelProgress` says that only the value of `start()` can hide the first assignment
of `cancel()`, and that the second then gets through; `Delivery` puts `data` before
the finish, which the refinement needs.

`GroupsScreenProofs` proves, for all groups and loads, `TypeCorrect`, `LastDeleterOwns`
(`LastDeleterOwnsGroups`) and `FailureKeeps` (`FailureKeepsGroups`). The invariant adds
that the load that deleted last was answered with groups, so its answer stays what it
was (`SaverWasAnswered`), and that the table is empty between the two writes of a
handler (`HandlerDeleted`).

`TableScreensProofs` proves, for any ids and number of savings, `TypeCorrect`,
`BatchesFit` (`BatchesFitWithoutSearch`), `RangeNeeds` (`RangeNeedsEarlySaving`),
`AvatarsDrawn` (`AvatarsAreDrawn`), `ChangesLead` (`ChangeLeadsToLive`), the action
property `QuietStays` (`QuietIsSafe`) and `StrayIndicators` (`OnlyFailuresStray`). Its
invariant `ScreenInv` relates four lists that change at different times: the results,
what the observer has seen, what the table has counted and what the rows show. Between
two notifications the rows are emptied, filled or given avatars, and nothing else
(`RowsInv`, from `NoMerge` and the two writes of a saving); the table has as many rows
as it was told of, or as there were when the search bar reloaded it (`TableInv`); a row that is not
up to date is in a change on its way (`AvatarInv`). `ReportInv`, of the notifier, says
that the change being computed or waiting leads from the rows seen to the results. For
`StrayIndicators` the invariant `StrayInv` adds that the indicator of the open profile
runs only while its photo is awaited or after a failure.

`PhotoGalleryProofs` proves of the gallery `ShownGalleryOwn` (`GalleryIsOwn`), by showing
that its steps are steps of `Photoflow` or leave it alone, and, with the invariant
`GalleryInv`, `ShownMetadataThere` (`MetadataIsThere`), `GalleryTypeCorrect`
(`GalleryTypeOK`), `BatchNeeds` (`BatchNeedsReload`), `RangeNeedsShared` (`RangeNeedsSharedId`) and `ItemsShown`
(`ItemsAreCurrent`). The heart is a lemma on increasing lists of ids that differ in one
id: the place of an id is the number of smaller ones (`Rank`), so an insertion or a
deletion moves the others by one exactly where the batch says, and a batch fits exactly
the views that have counted the old results (`FitsOldResults`, `AppliedToResults`). The
invariant adds that results and rows seen are such lists (`ResultsInv`), what has been
counted unless a reload was overtaken (`CountInv`), that the ids under which the owner's
photos are stored never become fewer (`RangeInv`), and that an item is current or a
change on its way has it drawn again (`ItemsInv`).

`NewsFeedProofs` proves, for feeds, attachments and author lists of any length,
`TypeCorrect`, `LikesBalance` (`LikesKeepBalance`), `CellsShown` (`CellsShowWhatPostHas`)
and `PhotosAttached` (`PhotosAreAttached`). None of the last three is inductive: a cell
is drawn from what a thread stored earlier, and what a thread stores depends on where
its loops are. The invariant adds

- `ThreadsInv`: downloads are for posts of the feed, a thread whose reload is queued or
  done has none left, and what is being stored came from a URL;
- `AvatarsInv`: avatars, stored and to be downloaded, are those of an author of the
  post, with the sign of his number;
- `PhotosInv`: there is an increasing map from the photos stored to the attachments
  that stays below all places still to be downloaded, so that the next photo can
  extend it;
- `LikesInv`: a post has at most one counter, and it has one only if the service sent
  one;
- `CellsInv`: the header shows the avatar of its post, if it has one, once the reload
  after the avatars has run. No avatar is stored after that, so nothing has to be drawn
  again; before it, and for good if the post has no avatar, the header of a reused cell
  can be another author's. That it is then one of this feed (`HeaderIsFromFeed`) is a
  conjunct of its own, kept by every step that draws (`HeaderChange`).

The assumptions are those the modules state: the bounds (`MaxLoads`, `MaxSaves`,
`MaxScreens`, `MaxPosts`) are natural numbers, `InOrder` and `Cancellable` are Boolean;
`nil` and `absent` are no users, and the tabs include those with a part in `Session`; `None` no owner and no object, `NoData` no reply; albums consist of
pairs of an owner and an id, photo ids are natural numbers and there are finitely many
(`PhotoIdAssumption`), as there are of ids in a table (`IdAssumption`); the ids found by
a search are ids, and the groups without a photo are groups. `ShapesAssumption` and
`AuthorsAssumption` are the decoded types of a post and of an author: optional values
have at most one element, ids are integers and counters natural numbers. They also say
that the service counts the user's own like, as `likeButtonPressed` takes for granted
when it counts one down; without it the counter could become negative, and the balance
would hold all the same.

**Only model-checked.** Everything with fairness or ENABLED: the progress part of
`ImplementsContract`, `ParsedIsSaved`, `SpinnerStops`, `TableCatchesUp`, `MediaIsShown`,
`IndicatorStops`, `GalleryCatchesUp`. Filtered, sorted and
flattened lists are described by what they are and not by `SelectSeq`, `SetToSortSeq` or
`FlattenSeq`, because what these compute can only be proved by induction over data.

## 6. Not modelled

- `promisingUserGroups`, `downloadUserFriends`, `friendsGet`, `groupsGetRequest`,
  `AvatarDownloader`, `GroupParser`: never called.
- `LoginFormViewController`: not reachable from `Main.storyboard`'s initial
  controller.
- The rows of `GroupsSearchTableViewController`: its list stays empty.
- Views, animations, `RawFeatures`, and cells but for the reused news cells:
  layout only.
- The Messenger: a fixed list of literals on one thread, whose rows the user deletes
  one at a time; nothing is stored, sent or shared.
- Collection views of photo screens that a newer screen has replaced: what they
  request and download is in `Photoflow`, the batches they apply are not followed.
- The images that reused cells of the tables keep (`FriendsTableViewCell`,
  `GroupsTableViewCell`) until an avatar replaces them.
- JSON decoding field by field: a reply is decodable or not, and which groups
  have a photo is a constant.
- Vendored pods, but for the part of Realm's ObjectStore that `CollectionNotifier`
  models: the app uses one notifier per screen, one callback each, and no sync, lists,
  moves or second process; the core of Realm is a binary. Almost all lines under
  `Pods` are libraries that this program calls and that it does not define.

## 7. Plan

Done: all modules of section 2, and the safety properties of every passing run as
theorems. What is left: composing `AsyncOperation` with `FriendsPipeline` in one
behaviour (the pipeline relies on the contract instead), and the batches of photo
screens that a newer one has replaced.
