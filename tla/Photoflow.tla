----------------------------- MODULE Photoflow -----------------------------
(***************************************************************************)
(* The profile photos of a friend.  PhotoflowViewController fetches the    *)
(* metadata of the photos, stores it in the Realm table Photo, starts one  *)
(* download for every stored photo of that owner, and stores each image in *)
(* the table Photoflow in a block on the main queue.  Both tables have the *)
(* photo's id alone as their primary key, although the service numbers the *)
(* photos of every owner separately: metadata of two owners can replace    *)
(* each other.  A block reads id and owner_id of its Photo object when it  *)
(* runs.  Screens stay alive while their downloads run, also after the     *)
(* user went back; the friends in Realm may be replaced at any time by     *)
(* SavingOperation, so that a friend may or may not be there when a reply  *)
(* comes.                                                                  *)
(*                                                                         *)
(* External: the service, Realm, the main queue.  A request or a download  *)
(* may finish after any other, so what waits on the main queue is a set.   *)
(***************************************************************************)
EXTENDS Naturals

CONSTANTS Owner,       \* users whose profile can be opened
          PhotoId,     \* ids of photos
          Album,       \* the photos there are: pairs of an owner and an id
          NoX,         \* those without a usable URL of size "x"
          MaxScreens,  \* bound: how often the screen is opened
          None

ASSUME AlbumAssumption == Album \subseteq Owner \X PhotoId /\ NoX \subseteq Album
ASSUME MaxScreensAssumption == MaxScreens \in Nat
ASSUME NoneAssumption == None \notin Owner

Screens == 1 .. MaxScreens
AlbumOf(o) == {a \in Album : a[1] = o}
NoFlow == [owner |-> None, image |-> <<None, None>>]

VARIABLES
  screens,    \* how often the screen was opened
  first,      \* the first screen of the running process
  userId,     \* whose photos each screen shows
  request,    \* each screen's request: none, sent, failed, handled
  spinner,    \* each screen's activity indicator is animating
  photo,      \* table Photo: id -> owner_id
  downloads,  \* image downloads on global queues: screen, id and image
  blocks,     \* blocks on the main queue that store an image
  flow,       \* table Photoflow: id -> ownerID and image
  crashed     \* a friend who had left Realm was unwrapped

tables == <<photo, flow>>
inFlight == <<downloads, blocks>>
vars == <<screens, first, userId, request, spinner, tables, inFlight,
          crashed>>

Downloads == [screen : Screens, id : PhotoId, image : Album]

(* Values of screens, tables and downloads. *)
TypeOK ==
  /\ screens \in 0 .. MaxScreens
  /\ first \in 1 .. MaxScreens + 1 /\ first <= screens + 1
  /\ userId \in [Screens -> Owner \cup {None}]
  /\ request \in [Screens -> {"none", "sent", "failed", "handled"}]
  /\ spinner \in [Screens -> BOOLEAN]
  /\ photo \in [PhotoId -> Owner \cup {None}]
  /\ downloads \in SUBSET Downloads
  /\ blocks \in SUBSET Downloads
  /\ flow \in [PhotoId -> [owner : Owner, image : Album] \cup {NoFlow}]
  /\ crashed \in BOOLEAN

Init ==
  /\ screens = 0 /\ first = 1
  /\ userId = [s \in Screens |-> None]
  /\ request = [s \in Screens |-> "none"]
  /\ spinner = [s \in Screens |-> FALSE]
  /\ photo = [i \in PhotoId |-> None]
  /\ downloads = {} /\ blocks = {}
  /\ flow = [i \in PhotoId |-> NoFlow]
  /\ crashed = FALSE

InProcess == first .. screens

endProcess ==
  /\ first' = screens + 1
  /\ downloads' = {} /\ blocks' = {}

-----------------------------------------------------------------------------
(* The screen is opened on the profile of a friend: indicator, request. *)
viewDidLoad(o) ==
  /\ screens < MaxScreens
  /\ screens' = screens + 1
  /\ userId' = [userId EXCEPT ![screens + 1] = o]
  /\ request' = [request EXCEPT ![screens + 1] = "sent"]
  /\ spinner' = [spinner EXCEPT ![screens + 1] = TRUE]
  /\ UNCHANGED <<first, tables, inFlight, crashed>>

(* photosGetForProfile without data, or with data that does not decode: the *)
(* completion handler returns, and the indicator stays.                     *)
photosGetFails(s) ==
  /\ request[s] = "sent"
  /\ request' = [request EXCEPT ![s] = "failed"]
  /\ UNCHANGED <<screens, first, userId, spinner, tables, inFlight, crashed>>

(* Mutant: the metadata of other owners is thrown away. *)
savePhotosMetaData_OnlyThese(s, items) ==
  photo' = [i \in PhotoId |-> IF <<userId[s], i>> \in items THEN userId[s] ELSE None]

(* RealmManager.savePhotosMetaData: every photo replaces the one with the   *)
(* same id.  Nothing is stored if Realm cannot be opened or written.        *)
savePhotosMetaData(s, items) ==
  \/ photo' = [i \in PhotoId |-> IF <<userId[s], i>> \in items THEN userId[s] ELSE photo[i]]
  \/ UNCHANGED photo

(* The download of the photo that the Photo object with id i stands for. *)
Download(s, i) == [screen |-> s, id |-> i, image |-> <<userId[s], i>>]

(* Mutant: the stored photos are not filtered by owner. *)
downloadPhotos_AnyOwner(s, table) ==
  LET stored == {i \in PhotoId : table[i] # None}
      usable == {i \in stored : <<table[i], i>> \notin NoX}
  IN  /\ downloads' = downloads \cup
           {[screen |-> s, id |-> i, image |-> <<table[i], i>>] : i \in usable}
      /\ spinner' = [spinner EXCEPT ![s] = usable # stored]

(* downloadPhotos, on the stored photos of the owner: all of them are       *)
(* started and the indicator stops, or the loop meets one without a usable  *)
(* URL, returns, and leaves out the rest, the reload and the indicator.     *)
downloadPhotos(s, table) ==
  LET stored == {i \in PhotoId : table[i] = userId[s]}
      usable == {i \in stored : <<userId[s], i>> \notin NoX}
  IN  \/ /\ usable = stored
         /\ downloads' = downloads \cup {Download(s, i) : i \in stored}
         /\ spinner' = [spinner EXCEPT ![s] = FALSE]
      \/ /\ usable # stored
         /\ \E before \in SUBSET usable :
              downloads' = downloads \cup {Download(s, i) : i \in before}
         /\ UNCHANGED spinner

(* The completion handler with the photos of the owner, as many as there    *)
(* are now: the friend is unwrapped, metadata is stored, downloads start.   *)
(* If the friend has left Realm, the process ends.                          *)
downloadPhotoMetaData(s, items) ==
  /\ request[s] = "sent"
  /\ items \subseteq AlbumOf(userId[s])
  /\ request' = [request EXCEPT ![s] = "handled"]
  /\ \/ /\ savePhotosMetaData(s, items)
        /\ downloadPhotos(s, photo')
        /\ UNCHANGED <<first, blocks, crashed>>
     \/ /\ endProcess
        /\ crashed' = TRUE
        /\ UNCHANGED <<photo, spinner>>
  /\ UNCHANGED <<screens, userId, flow>>

(* Data(contentsOf:) on a global queue, with or without success. *)
downloaded(d) ==
  /\ downloads' = downloads \ {d}
  /\ blocks' \in {blocks, blocks \cup {d}}
  /\ UNCHANGED <<screens, first, userId, request, spinner, tables, crashed>>

(* Mutant: the image is stored under the owner whose screen is open now. *)
savePhotoflow_OpenScreen(d) ==
  /\ blocks' = blocks \ {d}
  /\ flow' = [flow EXCEPT ![d.id] = [owner |-> userId[screens], image |-> d.image]]
  /\ UNCHANGED <<screens, first, userId, request, spinner, photo,
                 downloads, crashed>>

(* The block: owner_id is read of the Photo object as it is now.  A write   *)
(* that fails is ignored (try?).                                            *)
savePhotoflow(d) ==
  /\ blocks' = blocks \ {d}
  /\ \/ flow' = [flow EXCEPT ![d.id] = [owner |-> photo[d.id], image |-> d.image]]
     \/ UNCHANGED flow
  /\ UNCHANGED <<screens, first, userId, request, spinner, photo,
                 downloads, crashed>>

(* The process ends, and the app is started again on the same Realm file. *)
Kill ==
  /\ endProcess
  /\ UNCHANGED <<screens, userId, request, spinner, tables, crashed>>

Next ==
  \/ \E o \in Owner : viewDidLoad(o)
  \/ \E s \in InProcess : \/ photosGetFails(s)
                          \/ \E items \in SUBSET Album : downloadPhotoMetaData(s, items)
  \/ \E d \in downloads : downloaded(d)
  \/ \E d \in blocks : savePhotoflow(d)
  \/ Kill

(* Requests are answered, downloads end, and the main queue runs its blocks. *)
Fairness ==
  /\ \A s \in Screens :
       WF_vars(s \in InProcess
                 /\ (photosGetFails(s) \/ \E items \in SUBSET Album : downloadPhotoMetaData(s, items)))
  /\ WF_vars(\E d \in downloads : downloaded(d))
  /\ WF_vars(\E d \in blocks : savePhotoflow(d))

Spec == Init /\ [][Next]_vars /\ Fairness

-----------------------------------------------------------------------------
(* An id that only one owner uses. *)
Unshared(i) == \A a, b \in Album : a[2] = i /\ b[2] = i => a = b

(* A stored image whose id no other owner uses is the image of that photo   *)
(* under its owner, whichever screens, of whichever owners, fetched, were   *)
(* left and finished late, and wherever the process ended: blocks read the  *)
(* owner late, but only ids that two owners use are ever replaced.          *)
GalleryIsOwn ==
  \A i \in PhotoId :
    (flow[i] # NoFlow /\ Unshared(i)) =>
      \E a \in Album : a[2] = i /\ flow[i] = [owner |-> a[1], image |-> a]

(* Every stored image, every block and every download has its metadata in   *)
(* Realm: the Photo object that a block reads when it runs exists and has   *)
(* an owner, also after metadata of another owner replaced it.              *)
MetadataIsThere ==
  /\ \A d \in downloads \cup blocks : photo[d.id] # None
  /\ \A i \in PhotoId : flow[i] # NoFlow => photo[i] # None

(* Every request ends, and the indicator of a screen whose owner has only   *)
(* usable photos keeps running only if the request failed.                  *)
IndicatorStops ==
  \A s \in Screens :
    (s \in InProcess /\ AlbumOf(userId[s]) \cap NoX = {})
      ~> (~spinner[s] \/ request[s] = "failed" \/ s < first)
=============================================================================
