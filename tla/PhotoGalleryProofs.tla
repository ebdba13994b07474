------------------------- MODULE PhotoGalleryProofs -------------------------
(***************************************************************************)
(* Theorems about Photoflow and about the gallery, for all owners, albums  *)
(* and numbers of screens.  The gallery takes only steps of Photoflow and  *)
(* of the notifier, so what is proved about them holds in the composition. *)
(***************************************************************************)
EXTENDS PhotoGallery, CollectionNotifierProofs, FiniteSetTheorems, TLAPS

(* A screen of the running process has an owner. *)
ScreensHaveOwners == \A s \in InProcess : userId[s] \in Owner

(* Metadata in Realm is that of a photo its owner has: a photo is replaced  *)
(* only as a whole, by one with the same id.                                *)
MetadataIsReal == \A i \in PhotoId : photo[i] # None => <<photo[i], i>> \in Album

(* What is downloaded or waits to be stored is the image of a photo with    *)
(* the id under which it will be stored.                                    *)
ImagesKeepIds == \A d \in downloads \cup blocks : d.image[2] = d.id

IInv ==
  /\ TypeOK
  /\ ScreensHaveOwners
  /\ MetadataIsReal
  /\ ImagesKeepIds
  /\ GalleryIsOwn
  /\ MetadataIsThere

-----------------------------------------------------------------------------
(* The parts of a photo of the album. *)
LEMMA AlbumParts ==
  ASSUME NEW a \in Album
  PROVE  a[1] \in Owner /\ a[2] \in PhotoId /\ a = <<a[1], a[2]>>
  BY AlbumAssumption

(* Screens that may act are screens. *)
LEMMA ProcessScreens ==
  ASSUME TypeOK, NEW s \in InProcess
  PROVE  s \in Screens
  BY MaxScreensAssumption DEF TypeOK, InProcess, Screens

(* The initial state satisfies the invariant. *)
LEMMA InitIInv == Init => IInv
  <1> SUFFICES ASSUME Init PROVE IInv
    OBVIOUS
  <1>1. TypeOK
    <2>1. spinner \in [Screens -> BOOLEAN] /\ crashed \in BOOLEAN
      BY DEF Init
    <2>2. screens \in 0 .. MaxScreens /\ first \in 1 .. MaxScreens + 1 /\ first <= screens + 1
      BY MaxScreensAssumption DEF Init
    <2>3. flow \in [PhotoId -> [owner : Owner, image : Album] \cup {NoFlow}]
      BY DEF Init
    <2> QED
      BY <2>1, <2>2, <2>3 DEF Init, TypeOK
  <1>2. ScreensHaveOwners
    BY DEF Init, ScreensHaveOwners, InProcess
  <1>3. MetadataIsReal /\ ImagesKeepIds /\ GalleryIsOwn /\ MetadataIsThere
    BY DEF Init, MetadataIsReal, ImagesKeepIds, GalleryIsOwn, MetadataIsThere
  <1> QED
    BY <1>1, <1>2, <1>3 DEF IInv

(* A screen is opened. *)
LEMMA OpenStep ==
  ASSUME IInv, NEW o \in Owner, viewDidLoad(o)
  PROVE  IInv'
  <1>1. screens + 1 \in Screens
    BY MaxScreensAssumption DEF IInv, TypeOK, viewDidLoad, Screens
  <1>2. TypeOK'
    BY <1>1, MaxScreensAssumption DEF IInv, TypeOK, viewDidLoad, tables, inFlight
  <1>3. ScreensHaveOwners'
    <2> SUFFICES ASSUME NEW s \in first .. screens + 1 PROVE userId'[s] \in Owner
      BY DEF ScreensHaveOwners, InProcess, viewDidLoad
    <2>1. s \in InProcess \/ s = screens + 1
      BY DEF IInv, TypeOK, InProcess
    <2> QED
      BY <1>1, <2>1 DEF IInv, TypeOK, ScreensHaveOwners, viewDidLoad
  <1>4. (MetadataIsReal /\ ImagesKeepIds /\ GalleryIsOwn /\ MetadataIsThere)'
    BY DEF IInv, MetadataIsReal, ImagesKeepIds, GalleryIsOwn, MetadataIsThere,
           viewDidLoad, tables, inFlight
  <1> QED
    BY <1>2, <1>3, <1>4 DEF IInv

(* A request fails. *)
LEMMA FailStep ==
  ASSUME IInv, NEW s \in InProcess, photosGetFails(s)
  PROVE  IInv'
  <1>1. TypeOK'
    BY DEF IInv, TypeOK, photosGetFails, tables, inFlight
  <1>2. ScreensHaveOwners'
    BY DEF IInv, ScreensHaveOwners, InProcess, photosGetFails
  <1>3. (MetadataIsReal /\ ImagesKeepIds /\ GalleryIsOwn /\ MetadataIsThere)'
    BY DEF IInv, MetadataIsReal, ImagesKeepIds, GalleryIsOwn, MetadataIsThere,
           photosGetFails, tables, inFlight
  <1> QED
    BY <1>1, <1>2, <1>3 DEF IInv

(* Storing metadata replaces photos by photos of the same id, and removes   *)
(* none.                                                                    *)
LEMMA Saving ==
  ASSUME IInv, NEW s \in InProcess, NEW items \in SUBSET Album,
         savePhotosMetaData(s, items)
  PROVE  /\ photo' \in [PhotoId -> Owner \cup {None}]
         /\ MetadataIsReal'
         /\ \A i \in PhotoId : photo[i] # None => photo'[i] # None
  <1>1. userId[s] \in Owner /\ userId[s] # None
    BY NoneAssumption DEF IInv, ScreensHaveOwners
  <1>2. CASE photo' = [i \in PhotoId |-> IF <<userId[s], i>> \in items THEN userId[s] ELSE photo[i]]
    BY <1>1, <1>2 DEF IInv, TypeOK, MetadataIsReal
  <1>3. CASE UNCHANGED photo
    BY <1>3 DEF IInv, TypeOK, MetadataIsReal
  <1> QED
    BY <1>2, <1>3 DEF savePhotosMetaData

(* The downloads that are started are of stored photos of the owner. *)
LEMMA Starting ==
  ASSUME IInv, NEW s \in InProcess, MetadataIsReal', downloadPhotos(s, photo'),
         NEW d \in downloads', d \notin downloads
  PROVE  d \in Downloads /\ d.image[2] = d.id /\ photo'[d.id] # None
  <1>1. userId[s] \in Owner /\ userId[s] # None /\ s \in Screens
    BY NoneAssumption, ProcessScreens DEF IInv, ScreensHaveOwners
  <1>2. PICK i \in PhotoId : photo'[i] = userId[s] /\ d = Download(s, i)
    BY DEF downloadPhotos
  <1>3. <<userId[s], i>> \in Album
    BY <1>1, <1>2 DEF MetadataIsReal
  <1> QED
    BY <1>1, <1>2, <1>3 DEF Download, Downloads

(* The reply with the owner's photos. *)
LEMMA ReplyStep ==
  ASSUME IInv, NEW s \in InProcess, NEW items \in SUBSET Album,
         downloadPhotoMetaData(s, items)
  PROVE  IInv'
  <1>1. CASE /\ savePhotosMetaData(s, items)
             /\ downloadPhotos(s, photo')
             /\ UNCHANGED <<first, blocks, crashed>>
    <2>1. /\ photo' \in [PhotoId -> Owner \cup {None}]
          /\ MetadataIsReal'
          /\ \A i \in PhotoId : photo[i] # None => photo'[i] # None
      BY <1>1, Saving
    <2>2. \A d \in downloads' : d \notin downloads =>
            d \in Downloads /\ d.image[2] = d.id /\ photo'[d.id] # None
      BY <1>1, <2>1, Starting
    <2>3. spinner' \in [Screens -> BOOLEAN]
      BY <1>1 DEF IInv, TypeOK, downloadPhotos
    <2>4. request' \in [Screens -> {"none", "sent", "failed", "handled"}]
      BY DEF IInv, TypeOK, downloadPhotoMetaData
    <2>5. TypeOK'
      BY <1>1, <2>1, <2>2, <2>3, <2>4 DEF IInv, TypeOK, downloadPhotoMetaData
    <2>6. ScreensHaveOwners'
      BY <1>1 DEF IInv, ScreensHaveOwners, InProcess, downloadPhotoMetaData
    <2>7. ImagesKeepIds'
      BY <1>1, <2>2 DEF IInv, ImagesKeepIds
    <2>8. GalleryIsOwn'
      BY DEF IInv, GalleryIsOwn, downloadPhotoMetaData
    <2>9. MetadataIsThere'
      <3>1. \A d \in downloads \cup blocks : d.id \in PhotoId
        BY DEF IInv, TypeOK, Downloads
      <3> QED
        BY <1>1, <2>1, <2>2, <3>1 DEF IInv, MetadataIsThere, downloadPhotoMetaData
    <2> QED
      BY <2>1, <2>5, <2>6, <2>7, <2>8, <2>9 DEF IInv
  <1>2. CASE /\ endProcess
             /\ crashed' = TRUE
             /\ UNCHANGED <<photo, spinner>>
    <2>1. TypeOK'
      <3>1. first' \in 1 .. MaxScreens + 1 /\ first' <= screens' + 1
        BY <1>2, MaxScreensAssumption DEF IInv, TypeOK, downloadPhotoMetaData, endProcess
      <3>2. crashed' \in BOOLEAN
        BY <1>2
      <3>3. request' \in [Screens -> {"none", "sent", "failed", "handled"}]
        BY DEF IInv, TypeOK, downloadPhotoMetaData
      <3> QED
        BY <1>2, <3>1, <3>2, <3>3 DEF IInv, TypeOK, downloadPhotoMetaData, endProcess
    <2>2. ScreensHaveOwners'
      BY <1>2 DEF IInv, TypeOK, ScreensHaveOwners, InProcess, endProcess, downloadPhotoMetaData
    <2>3. (MetadataIsReal /\ ImagesKeepIds /\ GalleryIsOwn /\ MetadataIsThere)'
      BY <1>2 DEF IInv, MetadataIsReal, ImagesKeepIds, GalleryIsOwn, MetadataIsThere,
                  downloadPhotoMetaData, endProcess
    <2> QED
      BY <2>1, <2>2, <2>3 DEF IInv
  <1> QED
    BY <1>1, <1>2 DEF downloadPhotoMetaData

(* A download ends, and may queue its block. *)
LEMMA DownloadStep ==
  ASSUME IInv, NEW d \in downloads, downloaded(d)
  PROVE  IInv'
  <1>1. downloads' \subseteq downloads /\ blocks' \subseteq blocks \cup downloads
    BY DEF downloaded
  <1>2. TypeOK'
    BY <1>1 DEF IInv, TypeOK, downloaded, tables
  <1>3. ScreensHaveOwners'
    BY DEF IInv, ScreensHaveOwners, InProcess, downloaded
  <1>4. (MetadataIsReal /\ ImagesKeepIds /\ GalleryIsOwn /\ MetadataIsThere)'
    BY <1>1 DEF IInv, MetadataIsReal, ImagesKeepIds, GalleryIsOwn, MetadataIsThere,
                downloaded, tables
  <1> QED
    BY <1>2, <1>3, <1>4 DEF IInv

(* A block stores its image: the owner it reads is the one the image came   *)
(* from, unless another owner uses the id.                                  *)
LEMMA StoreStep ==
  ASSUME IInv, NEW d \in blocks, savePhotoflow(d)
  PROVE  IInv'
  <1> DEFINE new == [owner |-> photo[d.id], image |-> d.image]
  <1>1. d \in Downloads /\ d.id \in PhotoId /\ d.image \in Album /\ d.image[2] = d.id
    BY DEF IInv, TypeOK, Downloads, ImagesKeepIds
  <1>2. photo[d.id] # None /\ photo[d.id] \in Owner
    BY <1>1 DEF IInv, TypeOK, MetadataIsThere
  <1>3. new \in [owner : Owner, image : Album]
    BY <1>1, <1>2
  <1>4. \/ flow' = [flow EXCEPT ![d.id] = new]
        \/ flow' = flow
    BY DEF savePhotoflow
  <1>5. TypeOK'
    BY <1>1, <1>3, <1>4 DEF IInv, TypeOK, savePhotoflow
  <1>6. ScreensHaveOwners'
    BY DEF IInv, ScreensHaveOwners, InProcess, savePhotoflow
  <1>7. MetadataIsReal' /\ ImagesKeepIds'
    BY DEF IInv, MetadataIsReal, ImagesKeepIds, savePhotoflow
  <1>8. GalleryIsOwn'
    <2>1. Unshared(d.id) => new = [owner |-> d.image[1], image |-> d.image]
      <3> SUFFICES ASSUME Unshared(d.id) PROVE photo[d.id] = d.image[1]
        OBVIOUS
      <3>1. <<photo[d.id], d.id>> \in Album
        BY <1>1, <1>2 DEF IInv, MetadataIsReal
      <3>2. <<photo[d.id], d.id>> = d.image
        BY <1>1, <3>1 DEF Unshared
      <3> QED
        BY <3>2, <1>1, AlbumParts
    <2> SUFFICES ASSUME NEW i \in PhotoId, flow'[i] # NoFlow, Unshared(i)
                 PROVE  \E a \in Album : a[2] = i /\ flow'[i] = [owner |-> a[1], image |-> a]
      BY DEF GalleryIsOwn, Unshared
    <2>2. CASE flow'[i] = flow[i]
      BY <2>2 DEF IInv, GalleryIsOwn
    <2>3. CASE flow'[i] # flow[i]
      <3>1. i = d.id /\ flow'[i] = new
        BY <1>1, <1>4, <2>3 DEF IInv, TypeOK
      <3> QED
        BY <1>1, <2>1, <3>1
    <2> QED
      BY <2>2, <2>3
  <1>9. MetadataIsThere'
    BY <1>1, <1>2, <1>4 DEF IInv, TypeOK, MetadataIsThere, savePhotoflow
  <1> QED
    BY <1>5, <1>6, <1>7, <1>8, <1>9 DEF IInv

(* The process ends. *)
LEMMA KillStep ==
  ASSUME IInv, Kill
  PROVE  IInv'
  <1>1. TypeOK'
    BY MaxScreensAssumption DEF Kill, endProcess, IInv, TypeOK, tables
  <1>2. ScreensHaveOwners'
    BY DEF Kill, endProcess, IInv, TypeOK, ScreensHaveOwners, InProcess
  <1>3. (MetadataIsReal /\ ImagesKeepIds /\ GalleryIsOwn /\ MetadataIsThere)'
    BY DEF Kill, endProcess, IInv, MetadataIsReal, ImagesKeepIds, GalleryIsOwn,
           MetadataIsThere, tables
  <1> QED
    BY <1>1, <1>2, <1>3 DEF IInv

(* Every step keeps the invariant. *)
LEMMA NextIInv == IInv /\ [Next]_vars => IInv'
  <1> SUFFICES ASSUME IInv, [Next]_vars PROVE IInv'
    OBVIOUS
  <1>1. CASE UNCHANGED vars
    BY <1>1 DEF vars, tables, inFlight, IInv, TypeOK, ScreensHaveOwners, InProcess,
                MetadataIsReal, ImagesKeepIds, GalleryIsOwn, MetadataIsThere
  <1>2. ASSUME NEW o \in Owner, viewDidLoad(o) PROVE IInv'
    BY <1>2, OpenStep
  <1>3. ASSUME NEW s \in InProcess, photosGetFails(s) PROVE IInv'
    BY <1>3, FailStep
  <1>4. ASSUME NEW s \in InProcess, NEW items \in SUBSET Album,
               downloadPhotoMetaData(s, items)
        PROVE  IInv'
    BY <1>4, ReplyStep
  <1>5. ASSUME NEW d \in downloads, downloaded(d) PROVE IInv'
    BY <1>5, DownloadStep
  <1>6. ASSUME NEW d \in blocks, savePhotoflow(d) PROVE IInv'
    BY <1>6, StoreStep
  <1>7. CASE Kill
    BY <1>7, KillStep
  <1> QED
    BY <1>1, <1>2, <1>3, <1>4, <1>5, <1>6, <1>7 DEF Next

-----------------------------------------------------------------------------
(* The invariant holds always. *)
THEOREM Invariance == Spec => []IInv
  BY InitIInv, NextIInv, PTL DEF Spec

(* Type correctness of screens, tables and downloads. *)
THEOREM PhotoflowTypeCorrect == Spec => []TypeOK
  <1>1. IInv => TypeOK
    BY DEF IInv
  <1> QED
    BY <1>1, Invariance, PTL

(* RealmManager.savePhotoflow never stores an image under a wrong owner as  *)
(* long as no other owner has a photo with this id, although the block of   *)
(* downloadPhotos reads the owner after the download.                       *)
THEOREM GalleryOwn == Spec => []GalleryIsOwn
  <1>1. IInv => GalleryIsOwn
    BY DEF IInv
  <1> QED
    BY <1>1, Invariance, PTL

(* The Photo object that a block of downloadPhotos reads is there, and the  *)
(* metadata of a stored image is never lost.                                *)
THEOREM MetadataThere == Spec => []MetadataIsThere
  <1>1. IInv => MetadataIsThere
    BY DEF IInv
  <1> QED
    BY <1>1, Invariance, PTL

-----------------------------------------------------------------------------
(* The steps of the gallery. *)

(* An exception in the collection view ends the process. *)
LEMMA CrashStep ==
  ASSUME NEW reason, crash(reason)
  PROVE  Next /\ closed
  BY DEF crash, Next

(* Steps of the views alone. *)
LEMMA ViewSteps ==
  ASSUME \/ back \/ relaunched \/ observe \/ notifierWorks \/ layout \/ initial \/ update
         \/ \E n \in DOMAIN cells : scroll(n) \/ didSelectItemAt(n)
  PROVE  [Next]_vars
  <1>1. CASE \E reason : crash(reason)
    BY <1>1, CrashStep
  <1>2. CASE ~\E reason : crash(reason)
    BY <1>2 DEF back, relaunched, observe, notifierWorks, layout, initial, update, scroll,
                didSelectItemAt
  <1> QED
    BY <1>1, <1>2

(* A reply to a request of one of the screens. *)
LEMMA ReplySteps ==
  ASSUME NEW s \in InProcess,
         fails(s) \/ \E photos \in SUBSET AlbumOf(userId[s]) : metaData(s, photos)
  PROVE  Next
  <1>1. CASE fails(s)
    BY <1>1 DEF fails, Next
  <1>2. ASSUME NEW photos \in SUBSET AlbumOf(userId[s]), metaData(s, photos)
        PROVE  Next
    <2>1. photos \in SUBSET Album
      BY DEF AlbumOf
    <2> QED
      BY <1>2, <2>1 DEF metaData, Next
  <1> QED
    BY <1>1, <1>2

(* Every step of the gallery is a step of Photoflow, or leaves it alone. *)
LEMMA PhotoflowSteps == [GalleryNext]_allVars => [Next]_vars
  <1> SUFFICES ASSUME [GalleryNext]_allVars PROVE [Next]_vars
    OBVIOUS
  <1>1. CASE UNCHANGED allVars
    BY <1>1 DEF allVars
  <1>2. CASE \E o \in Owner : open(o)
    BY <1>2 DEF open, Next
  <1>3. CASE \E s \in InProcess :
               fails(s) \/ \E photos \in SUBSET AlbumOf(userId[s]) : metaData(s, photos)
    BY <1>3, ReplySteps
  <1>4. CASE \/ \E d \in downloads : imageArrives(d)
             \/ \E d \in blocks : store(d)
             \/ friendsSaved \/ killed
    BY <1>4 DEF imageArrives, store, friendsSaved, killed, Next
  <1>5. CASE \/ back \/ relaunched \/ observe \/ notifierWorks \/ layout \/ initial \/ update
             \/ \E n \in DOMAIN cells : scroll(n) \/ didSelectItemAt(n)
    BY <1>5, ViewSteps
  <1> QED
    BY <1>1, <1>2, <1>3, <1>4, <1>5 DEF GalleryNext

(* The end of the process is the end of the notifier. *)
LEMMA NotifierClosed ==
  ASSUME WorkerInv, closed
  PROVE  WorkerInv'
  BY MainSteps DEF closed

(* Every step of the gallery keeps the invariant of the notifier. *)
LEMMA NotifierKept == WorkerInv /\ [GalleryNext]_allVars => WorkerInv'
  <1> SUFFICES ASSUME WorkerInv, [GalleryNext]_allVars PROVE WorkerInv'
    OBVIOUS
  <1>1. CASE UNCHANGED notifier
    BY <1>1 DEF WorkerInv, notifier
  <1>2. CASE closed
    BY <1>2, NotifierClosed
  <1>3. CASE \E rows, touched : commit_write(rows, touched)
    BY <1>3, WriteStep
  <1>4. CASE run \/ prepare_handover
    BY <1>4, RunStep, HandoverStep
  <1>5. CASE add_callback \/ ResultsNotifier \/ after_advance
    BY <1>5, MainSteps
  <1>6. ASSUME NEW reason, crash(reason) PROVE WorkerInv'
    BY <1>2, <1>6 DEF crash
  <1>7. ASSUME NEW s \in InProcess,
               fails(s) \/ \E photos \in SUBSET AlbumOf(userId[s]) : metaData(s, photos)
        PROVE  UNCHANGED notifier \/ closed \/ \E rows, touched : commit_write(rows, touched)
    BY <1>7 DEF fails, metaData
  <1>8. ASSUME \/ \E o \in Owner : open(o)
               \/ \E d \in downloads : imageArrives(d)
               \/ \E d \in blocks : store(d)
               \/ friendsSaved \/ killed \/ back \/ relaunched
        PROVE  \/ UNCHANGED notifier \/ closed \/ ResultsNotifier
               \/ \E rows, touched : commit_write(rows, touched)
    BY <1>8 DEF open, imageArrives, store, friendsSaved, killed, back, relaunched
  <1>9. ASSUME observe \/ notifierWorks \/ layout \/ initial
        PROVE  UNCHANGED notifier \/ run \/ prepare_handover \/ add_callback \/ after_advance
    BY <1>9 DEF observe, notifierWorks, layout, initial
  <1>10. ASSUME update \/ \E n \in DOMAIN cells : scroll(n) \/ didSelectItemAt(n)
         PROVE  UNCHANGED notifier \/ after_advance \/ \E reason : crash(reason)
    BY <1>10 DEF update, scroll, didSelectItemAt
  <1>11. CASE UNCHANGED allVars
    BY <1>1, <1>11 DEF allVars
  <1>12. CASE GalleryNext
    BY <1>1, <1>2, <1>3, <1>4, <1>5, <1>6, <1>7, <1>8, <1>9, <1>10, <1>12 DEF GalleryNext
  <1> QED
    BY <1>11, <1>12

-----------------------------------------------------------------------------
(* Composed with its views, Photoflow keeps each image under its owner,     *)
(* unless two owners use its id: RealmManager.savePhotoflow and the blocks  *)
(* of downloadPhotos, with writes that wait for notifications and with      *)
(* exceptions of the collection view.                                       *)
THEOREM ShownGalleryOwn == GallerySpec => []GalleryIsOwn
  <1>1. GalleryInit => IInv
    BY InitIInv DEF GalleryInit
  <1>2. IInv /\ [GalleryNext]_allVars => IInv'
    BY PhotoflowSteps, NextIInv
  <1>3. IInv => GalleryIsOwn
    BY DEF IInv
  <1> QED
    BY <1>1, <1>2, <1>3, PTL DEF GallerySpec

(* Stored images are reported one write at a time, so the batches of        *)
(* observeRealmPhotoflowCollection never cover two of them.                 *)
THEOREM ImagesAreReportedApart == GallerySpec => []NoMerge
  <1>1. GalleryInit => WorkerInv
    BY NotifierStarts DEF GalleryInit
  <1>2. WorkerInv => NoMerge
    BY WorkerInvNoMerge
  <1> QED
    BY <1>1, <1>2, NotifierKept, PTL DEF GallerySpec

-----------------------------------------------------------------------------
(* How the results, the items and the notifications go together.            *)

(* A stored image belongs to an owner who has a photo with its id. *)
FlowIsReal == \A i \in PhotoId : flow[i] # NoFlow => <<flow[i].owner, i>> \in Album

(* Without a controller there are no results, no items and no downloads; an *)
(* exception leaves none.                                                   *)
ClosedInv ==
  /\ InProcess = {} => /\ ~showing /\ laidOut /\ live = <<>> /\ cells = <<>>
                       /\ callback = "none" /\ downloads = {} /\ blocks = {}
  /\ ~running => InProcess = {}

(* The stored images of the owner. *)
own == {i \in PhotoId : flow[i].owner = owner}

(* The results are these images.  The rows that the observer knows were so  *)
(* once, and differ from the results in one id at most.                     *)
ResultsInv ==
  /\ InProcess # {} => live \in InKeyOrder(own)
  /\ \E ids \in SUBSET PhotoId : seen \in InKeyOrder(ids)
  /\ callback = "called" =>
       \A i, j \in PhotoId : /\ ~(i \in Range(live) <=> i \in Range(seen))
                             /\ ~(j \in Range(live) <=> j \in Range(seen))
                             => i = j

(* Nothing is to be reported. *)
settled ==
  seen = live /\ modified = {} /\ (worker.busy => change = NoChange) /\ changes = NoChange

(* Unless overtaken, the view has counted the rows that the observer knows, *)
(* or will count them with nothing to be reported.                          *)
CountInv ==
  /\ (callback = "called" /\ ~laidOut /\ ~overtaken) => settled
  /\ (callback = "called" /\ laidOut /\ ~overtaken) => Len(cells) = Len(seen)
  /\ BatchNeedsReload

(* The ids of the owner's photos under which any image is stored: there are *)
(* never less of them, and they are at least as many as the items.          *)
known == {i \in PhotoId : flow[i] # NoFlow /\ <<owner, i>> \in Album}

RangeInv ==
  /\ Len(cells) <= Cardinality(known)
  /\ RangeNeedsSharedId

(* A notification will have item n drawn again, or deleted. *)
awaited(n) ==
  \/ seen[n] \notin Range(live)
  \/ behind = 1 /\ ~worker.busy /\ seen[n] \in modified
  \/ worker.busy /\ n \in change.modifications
  \/ n \in changes.modifications

(* The items are the rows that the observer knows, with images that are     *)
(* current or will be drawn again; or they were drawn since.                *)
ItemsInv ==
  (callback = "called" /\ laidOut /\ ~early) =>
    \/ cells = Drawn(live)
    \/ /\ Len(cells) = Len(seen)
       /\ \A n \in DOMAIN seen : /\ cells[n].id = seen[n]
                                 /\ cells[n].image = flow[seen[n]].image \/ awaited(n)

GalleryInv ==
  /\ IInv
  /\ FlowIsReal
  /\ WorkerInv
  /\ ReportInv
  /\ GalleryTypeOK
  /\ ClosedInv
  /\ ResultsInv
  /\ CountInv
  /\ RangeInv
  /\ ItemsInv

-----------------------------------------------------------------------------
(* Increasing lists of ids, and the batches that lead from one to another.  *)

(* What an increasing list of some ids is. *)
LEMMA KeyOrder ==
  ASSUME NEW S \in SUBSET PhotoId, NEW l \in InKeyOrder(S)
  PROVE  /\ IsFiniteSet(S) /\ Len(l) = Cardinality(S) /\ Len(l) \in Nat
         /\ l \in Seq(PhotoId) /\ DOMAIN l = 1 .. Len(l)
         /\ \A n \in DOMAIN l : l[n] \in S /\ l[n] \in Nat
         /\ \A m, n \in DOMAIN l : m < n => l[m] < l[n]
         /\ \A m, n \in DOMAIN l : l[m] = l[n] => m = n
         /\ Range(l) = S
  <1>1. IsFiniteSet(S) /\ S \subseteq Nat
    BY PhotoIdAssumption, FS_Subset
  <1>2. Cardinality(S) \in Nat
    BY <1>1, FS_CardinalityType
  <1>3. l \in [1 .. Cardinality(S) -> S] /\ \A m, n \in DOMAIN l : l[m] = l[n] => m = n
    BY DEF InKeyOrder, SetToSeqs
  <1>4. \A m, n \in DOMAIN l : m < n => l[m] < l[n]
    BY DEF InKeyOrder
  <1>5. l \in [1 .. Cardinality(S) -> PhotoId]
    BY <1>3
  <1>6. l \in Seq(PhotoId) /\ Len(l) = Cardinality(S) /\ DOMAIN l = 1 .. Cardinality(S)
    BY <1>2, <1>5, ListOf
  <1>7. Range(l) = S
    <2>1. l \in Injection(1 .. Cardinality(S), S)
      BY <1>3 DEF Injection, IsInjective
    <2>2. Cardinality(1 .. Cardinality(S)) = Cardinality(S)
      BY <1>2, FS_Interval
    <2>3. l \in Surjection(1 .. Cardinality(S), S)
      BY <1>1, <2>1, <2>2, FS_Injection
    <2> QED
      BY <1>3, <2>3 DEF Surjection, Range
  <1> QED
    BY <1>1, <1>2, <1>3, <1>4, <1>6, <1>7

(* The positions with elements not in T; those before n, and the others     *)
(* before n; the ids of S below y.                                          *)
outside(l, T) == {m \in DOMAIN l : l[m] \notin T}
others(l, n, T) == {k \in outside(l, T) : k < n}
positions(l, n, T) == {m \in 1 .. n - 1 : l[m] \in T}
below(S, y) == {z \in S : z < y}

(* As many elements before position n are in T as smaller ids are. *)
LEMMA Rank ==
  ASSUME NEW S \in SUBSET PhotoId, NEW l \in InKeyOrder(S), NEW n \in DOMAIN l, NEW T
  PROVE  Cardinality(positions(l, n, T)) = Cardinality(below(S \cap T, l[n]))
  <1> DEFINE K == {m \in 1 .. n - 1 : l[m] \in T}
             Z == {z \in S \cap T : z < l[n]}
             f == [m \in K |-> l[m]]
  <1>1. /\ DOMAIN l = 1 .. Len(l) /\ Len(l) \in Nat /\ Range(l) = S
        /\ \A m \in DOMAIN l : l[m] \in S /\ l[m] \in Nat
        /\ \A m, k \in DOMAIN l : m < k => l[m] < l[k]
        /\ \A m, k \in DOMAIN l : l[m] = l[k] => m = k
    BY KeyOrder
  <1>2. n \in 1 .. Len(l)
    BY <1>1
  <1>3. \A m \in K : m \in DOMAIN l /\ m < n
    BY <1>1, <1>2
  <1>4. f \in [K -> Z]
    BY <1>1, <1>3
  <1>5. ASSUME NEW z \in Z PROVE \E m \in K : l[m] = z
    <2>1. PICK m \in DOMAIN l : l[m] = z
      BY <1>1, <1>5 DEF Range
    <2>2. ~(n < m) /\ n # m
      BY <1>1, <2>1
    <2>3. m < n
      BY <1>1, <1>2, <2>2
    <2> QED
      BY <1>1, <1>2, <2>1, <2>3
  <1>6. \A m, k \in K : f[m] = f[k] => m = k
    BY <1>1, <1>3
  <1>7. f \in Bijection(K, Z)
    <2>1. f \in Injection(K, Z)
      BY <1>4, <1>6 DEF Injection, IsInjective
    <2>2. f \in Surjection(K, Z)
      <3>1. \A z \in Z : \E m \in K : f[m] = z
        BY <1>5
      <3> HIDE DEF K, Z, f
      <3> QED
        BY <1>4, <3>1 DEF Surjection
    <2> QED
      BY <2>1, <2>2 DEF Bijection
  <1>8. IsFiniteSet(K)
    BY <1>2, FS_Interval, FS_Subset
  <1> HIDE DEF K, Z, f
  <1>9. ExistsBijection(K, Z)
    BY <1>7 DEF ExistsBijection
  <1>10. Cardinality(Z) = Cardinality(K)
    BY <1>8, <1>9, FS_Bijection
  <1> QED
    BY <1>10 DEF K, Z, positions, below

(* Where an element is, if those that are not in T are not counted. *)
LEMMA Shift ==
  ASSUME NEW S \in SUBSET PhotoId, NEW l \in InKeyOrder(S), NEW n \in DOMAIN l, NEW T
  PROVE  n - Cardinality(others(l, n, T)) = Cardinality(below(S \cap T, l[n])) + 1
  <1> DEFINE K == positions(l, n, T)
             D == others(l, n, T)
             U == 1 .. n - 1
  <1>1. n \in 1 .. Len(l) /\ DOMAIN l = 1 .. Len(l) /\ Len(l) \in Nat
    BY KeyOrder
  <1>2. D = U \ K /\ U \cap K = K
    BY <1>1 DEF positions, others, outside
  <1>3. IsFiniteSet(U) /\ Cardinality(U) = n - 1
    <2>1. n - 1 \in Int /\ 1 \in Int /\ n \in Nat /\ n >= 1
      BY <1>1
    <2>2. IsFiniteSet(U) /\ Cardinality(U) = IF 1 > n - 1 THEN 0 ELSE (n - 1) - 1 + 1
      BY <2>1, FS_Interval
    <2> QED
      BY <2>1, <2>2
  <1>4. Cardinality(U \ K) = Cardinality(U) - Cardinality(U \cap K)
    BY <1>3, FS_Difference
  <1>5. Cardinality(K) \in Nat
    BY <1>2, <1>3, FS_Intersection, FS_CardinalityType
  <1>6. Cardinality(K) = Cardinality(below(S \cap T, l[n]))
    BY Rank
  <1> HIDE DEF K, D, U
  <1>7. n - Cardinality(D) = Cardinality(K) + 1
    <2>1. Cardinality(D) = (n - 1) - Cardinality(K)
      BY <1>2, <1>3, <1>4
    <2>2. n \in Int /\ Cardinality(K) \in Int
      BY <1>1, <1>5
    <2> QED
      BY <2>1, <2>2
  <1> QED
    BY <1>6, <1>7 DEF D

(* Ids with equally many smaller ones are equal. *)
LEMMA RankIsUnique ==
  ASSUME NEW P \in SUBSET PhotoId, NEW y \in P, NEW w \in P,
         Cardinality(below(P, y)) = Cardinality(below(P, w))
  PROVE  y = w
  <1>1. P \subseteq Nat /\ IsFiniteSet(P)
    BY PhotoIdAssumption, FS_Subset
  <1>2. ASSUME NEW u \in P, NEW v \in P, u < v,
               Cardinality(below(P, u)) = Cardinality(below(P, v))
        PROVE  FALSE
    <2> DEFINE U == {z \in P : z < u}
               V == {z \in P : z < v}
    <2>1. IsFiniteSet(V)
      BY <1>1, FS_Subset
    <2>2. U \in SUBSET V
      <3> SUFFICES ASSUME NEW z \in P, z < u PROVE z < v
        OBVIOUS
      <3>1. z \in Nat /\ u \in Nat /\ v \in Nat
        BY <1>1
      <3> QED
        BY <1>2, <3>1
    <2>3. u \in V /\ u \notin U
      BY <1>1, <1>2
    <2>4. Cardinality(V) = Cardinality(U)
      BY <1>2 DEF below
    <2> HIDE DEF U, V
    <2> QED
      BY <2>1, <2>2, <2>3, <2>4, FS_Subset
  <1> QED
    BY <1>1, <1>2

(* A change between two results, in terms of ids. *)
LEMMA ChangeOfIds ==
  ASSUME NEW A \in SUBSET PhotoId, NEW a \in InKeyOrder(A),
         NEW B \in SUBSET PhotoId, NEW b \in InKeyOrder(B),
         NEW c, Describes(c, a, b)
  PROVE  /\ c.deletions = outside(a, B)
         /\ c.insertions = outside(b, A)
         /\ \A m \in c.modifications : m \in DOMAIN a /\ a[m] \in B
  <1>1. Range(a) = A /\ Range(b) = B
    BY KeyOrder
  <1> QED
    BY <1>1 DEF Describes, outside

(* A row that stays moves to where its id is. *)
LEMMA MovesToItsId ==
  ASSUME NEW A \in SUBSET PhotoId, NEW a \in InKeyOrder(A),
         NEW B \in SUBSET PhotoId, NEW b \in InKeyOrder(B),
         NEW c, Describes(c, a, b),
         NEW i \in DOMAIN a, NEW j \in DOMAIN b, a[i] = b[j]
  PROVE  Moved(c, Len(b), i) = j
  <1> DEFINE P == A \cap B
  <1>1. /\ DOMAIN b = 1 .. Len(b)
        /\ \A m, n \in DOMAIN b : b[m] = b[n] => m = n
        /\ a[i] \in A /\ b[j] \in B
    BY KeyOrder
  <1>2. B \cap A = P /\ a[i] \in P /\ P \in SUBSET PhotoId
    BY <1>1
  <1>3. \A k : {m \in c.insertions : m < k} = others(b, k, A)
    BY ChangeOfIds DEF others
  <1>4. \A k : {m \in c.deletions : m < k} = others(a, k, B)
    BY ChangeOfIds DEF others
  <1>5. i - Cardinality(others(a, i, B)) = Cardinality(below(P, a[i])) + 1
    BY Shift
  <1>6. \A k \in DOMAIN b : k - Cardinality(others(b, k, A)) = Cardinality(below(P, b[k])) + 1
    BY <1>2, Shift
  <1> HIDE DEF P
  <1>7. j \in 1 .. Len(b) \ c.insertions
    BY <1>1, <1>2, ChangeOfIds DEF P, outside
  <1>8. ASSUME NEW k \in 1 .. Len(b) \ c.insertions,
               k - Cardinality(others(b, k, A)) = i - Cardinality(others(a, i, B))
        PROVE  k = j
    <2>1. k \in DOMAIN b /\ b[k] \in A
      BY <1>1, <1>8, ChangeOfIds DEF outside
    <2>2. b[k] \in B
      BY <2>1, KeyOrder
    <2>3. b[k] \in P
      BY <2>1, <2>2 DEF P
    <2>4. Cardinality(below(P, b[k])) \in Nat /\ Cardinality(below(P, a[i])) \in Nat
      <3>1. IsFiniteSet(P)
        BY PhotoIdAssumption, <1>2, FS_Subset
      <3>2. IsFiniteSet(below(P, b[k])) /\ IsFiniteSet(below(P, a[i]))
        BY <3>1, FS_Subset DEF below
      <3> QED
        BY <3>2, FS_CardinalityType
    <2>5. Cardinality(below(P, b[k])) + 1 = Cardinality(below(P, a[i])) + 1
      BY <1>5, <1>6, <1>8, <2>1
    <2>6. Cardinality(below(P, b[k])) = Cardinality(below(P, a[i]))
      BY <2>4, <2>5
    <2>7. b[k] = a[i]
      BY <1>2, <2>3, <2>6, RankIsUnique
    <2> QED
      BY <1>1, <2>1, <2>7
  <1>9. j - Cardinality(others(b, j, A)) = i - Cardinality(others(a, i, B))
    BY <1>5, <1>6
  <1>10. Moved(c, Len(b), i) =
           CHOOSE k \in 1 .. Len(b) \ c.insertions :
             k - Cardinality(others(b, k, A)) = i - Cardinality(others(a, i, B))
    BY <1>3, <1>4 DEF Moved
  <1> QED
    BY <1>7, <1>8, <1>9, <1>10

(* As many rows of a list stay as it shares ids with the other. *)
LEMMA StayingRows ==
  ASSUME NEW S \in SUBSET PhotoId, NEW l \in InKeyOrder(S), NEW T \in SUBSET PhotoId
  PROVE  /\ Cardinality(outside(l, T)) = Len(l) - Cardinality(S \cap T)
         /\ Cardinality(S \cap T) \in Nat
  <1> DEFINE K == {m \in DOMAIN l : l[m] \in T}
             D == {m \in DOMAIN l : l[m] \notin T}
             Z == S \cap T
             f == [m \in K |-> l[m]]
  <1>1. /\ DOMAIN l = 1 .. Len(l) /\ Len(l) \in Nat /\ Range(l) = S
        /\ \A m \in DOMAIN l : l[m] \in S
        /\ \A m, n \in DOMAIN l : l[m] = l[n] => m = n
    BY KeyOrder
  <1>2. f \in Bijection(K, Z)
    <2>1. f \in [K -> Z]
      BY <1>1
    <2>2. f \in Injection(K, Z)
      BY <1>1, <2>1 DEF Injection, IsInjective
    <2>3. \A z \in Z : \E m \in K : f[m] = z
      BY <1>1 DEF Range
    <2>4. f \in Surjection(K, Z)
      BY <2>1, <2>3 DEF Surjection
    <2> QED
      BY <2>2, <2>4 DEF Bijection
  <1>3. IsFiniteSet(DOMAIN l) /\ Cardinality(DOMAIN l) = Len(l)
    <2>1. IsFiniteSet(1 .. Len(l)) /\ Cardinality(1 .. Len(l)) = IF 1 > Len(l) THEN 0 ELSE Len(l) - 1 + 1
      BY <1>1, FS_Interval
    <2>2. Cardinality(1 .. Len(l)) = Len(l)
      BY <1>1, <2>1
    <2> QED
      BY <1>1, <2>1, <2>2
  <1>4. IsFiniteSet(K) /\ D = DOMAIN l \ K /\ DOMAIN l \cap K = K
    BY <1>3, FS_Subset
  <1> HIDE DEF K, D, Z, f
  <1>5. ExistsBijection(K, Z)
    BY <1>2 DEF ExistsBijection
  <1>6. Cardinality(Z) = Cardinality(K) /\ Cardinality(K) \in Nat
    BY <1>4, <1>5, FS_Bijection, FS_CardinalityType
  <1>7. Cardinality(D) = Len(l) - Cardinality(K)
    <2>1. Cardinality(DOMAIN l \ K) = Cardinality(DOMAIN l) - Cardinality(DOMAIN l \cap K)
      BY <1>3, FS_Difference
    <2> QED
      BY <1>3, <1>4, <2>1
  <1> QED
    BY <1>6, <1>7 DEF D, Z, outside

(* A batch fits exactly the views that have counted the old results. *)
LEMMA FitsOldResults ==
  ASSUME NEW A \in SUBSET PhotoId, NEW a \in InKeyOrder(A),
         NEW B \in SUBSET PhotoId, NEW b \in InKeyOrder(B),
         NEW c, Describes(c, a, b), NEW n \in Nat
  PROVE  Fits(c, n, Len(b)) <=> n = Len(a)
  <1>1. /\ DOMAIN a = 1 .. Len(a) /\ Len(a) \in Nat
        /\ DOMAIN b = 1 .. Len(b) /\ Len(b) \in Nat
    BY KeyOrder
  <1>2. B \cap A = A \cap B
    OBVIOUS
  <1>3. /\ Cardinality(c.deletions) = Len(a) - Cardinality(A \cap B)
        /\ Cardinality(c.insertions) = Len(b) - Cardinality(A \cap B)
        /\ Cardinality(A \cap B) \in Nat
    BY <1>2, ChangeOfIds, StayingRows
  <1>4. n + (Len(b) - Cardinality(A \cap B)) = Len(b) + (Len(a) - Cardinality(A \cap B))
          <=> n = Len(a)
    <2>1. Len(a) \in Nat /\ Len(b) \in Nat /\ Cardinality(A \cap B) \in Nat
      BY <1>1, <1>3
    <2>2. PICK x \in Nat, y \in Nat, z \in Nat : x = Len(b) /\ y = Len(a) /\ z = Cardinality(A \cap B)
      BY <2>1, Zenon
    <2>3. (n + (x - z) = x + (y - z)) <=> (n = y)
      OBVIOUS
    <2> QED
      BY <2>2, <2>3, Zenon
  <1>5. /\ \A i \in c.deletions \cup c.modifications : i <= Len(a)
        /\ \A i \in c.insertions : i <= Len(b)
    BY <1>1, ChangeOfIds DEF outside
  <1> QED
    BY <1>3, <1>4, <1>5 DEF Fits

(* After a batch an item is drawn as it is now, or it has moved to its id   *)
(* without having to be drawn.                                              *)
LEMMA AppliedToResults ==
  ASSUME NEW A \in SUBSET PhotoId, NEW a \in InKeyOrder(A),
         NEW B \in SUBSET PhotoId, NEW b \in InKeyOrder(B),
         NEW c, Describes(c, a, b), NEW Item,
         NEW before \in Seq(Item), Len(before) = Len(a),
         NEW fresh \in Seq(Item), Len(fresh) = Len(b)
  PROVE  /\ Applied(c, before, fresh) \in Seq(Item) /\ Len(Applied(c, before, fresh)) = Len(b)
         /\ \A j \in DOMAIN b :
              \/ Applied(c, before, fresh)[j] = fresh[j]
              \/ \E i \in DOMAIN a : /\ a[i] = b[j] /\ i \notin c.modifications
                                     /\ Applied(c, before, fresh)[j] = before[i]
  <1> DEFINE n == Len(b)
             r == Applied(c, before, fresh)
             at(j) == CHOOSE i \in DOMAIN before \ c.deletions : Moved(c, n, i) = j
  <1>1. /\ n \in Nat /\ DOMAIN b = 1 .. n /\ DOMAIN fresh = 1 .. n
        /\ DOMAIN before = DOMAIN a /\ DOMAIN a = 1 .. Len(a) /\ Range(a) = A
        /\ \A i, k \in DOMAIN a : a[i] = a[k] => i = k
    BY KeyOrder, LenProperties
  <1>2. r = [j \in 1 .. n |-> IF j \in Redrawn(c, n) THEN fresh[j] ELSE before[at(j)]]
    BY <1>1 DEF Applied
  <1>3. ASSUME NEW j \in 1 .. n, j \notin Redrawn(c, n)
        PROVE  at(j) \in DOMAIN a /\ a[at(j)] = b[j] /\ at(j) \notin c.modifications
    <2>1. b[j] \in A
      BY <1>1, <1>3, ChangeOfIds DEF Redrawn, outside
    <2>2. PICK i \in DOMAIN a : a[i] = b[j]
      BY <1>1, <2>1 DEF Range
    <2>3. i \in DOMAIN before \ c.deletions
      <3>1. b[j] \in B
        BY <1>1, KeyOrder
      <3> QED
        BY <1>1, <2>2, <3>1, ChangeOfIds DEF outside
    <2>4. Moved(c, n, i) = j
      BY <1>1, <2>2, MovesToItsId
    <2>5. ASSUME NEW k \in DOMAIN before \ c.deletions, Moved(c, n, k) = j PROVE k = i
      <3>1. k \in DOMAIN a /\ a[k] \in B
        BY <1>1, <2>5, ChangeOfIds DEF outside
      <3>2. PICK m \in DOMAIN b : a[k] = b[m]
        <4>1. Range(b) = B
          BY KeyOrder
        <4> QED
          BY <3>1, <4>1 DEF Range
      <3>3. Moved(c, n, k) = m
        BY <3>1, <3>2, MovesToItsId
      <3> QED
        BY <1>1, <2>2, <2>5, <3>1, <3>2, <3>3
    <2>6. at(j) = i
      BY <2>3, <2>4, <2>5
    <2>7. i \notin c.modifications
      BY <1>3, <2>4 DEF Redrawn
    <2> QED
      BY <2>2, <2>6, <2>7
  <1> HIDE DEF r, at, n
  <1>4. \A j \in 1 .. n : r[j] = IF j \in Redrawn(c, n) THEN fresh[j] ELSE before[at(j)]
    BY <1>2
  <1>5. \A i \in DOMAIN a : before[i] \in Item
    BY <1>1, ElementOfSeq
  <1>6. \A j \in 1 .. n : fresh[j] \in Item
    BY <1>1, ElementOfSeq DEF n
  <1>7. r \in [1 .. n -> Item]
    BY <1>2, <1>3, <1>5, <1>6
  <1>8. r \in Seq(Item) /\ Len(r) = n
    BY <1>1, <1>7, ListOf
  <1>9. \A j \in DOMAIN b :
          \/ r[j] = fresh[j]
          \/ \E i \in DOMAIN a : a[i] = b[j] /\ i \notin c.modifications /\ r[j] = before[i]
    BY <1>1, <1>3, <1>4
  <1> QED
    BY <1>8, <1>9 DEF r, n

(* There is one increasing list of some ids. *)
LEMMA OneKeyOrder ==
  ASSUME NEW S \in SUBSET PhotoId, NEW a \in InKeyOrder(S), NEW b \in InKeyOrder(S)
  PROVE  a = b
  <1>1. /\ a \in Seq(PhotoId) /\ b \in Seq(PhotoId) /\ Len(a) = Len(b)
        /\ DOMAIN a = 1 .. Len(a) /\ DOMAIN b = 1 .. Len(b) /\ Len(a) \in Nat
    BY KeyOrder
  <1>2. ASSUME NEW n \in 1 .. Len(a) PROVE a[n] = b[n]
    <2>1. a[n] \in S /\ b[n] \in S /\ n \in DOMAIN a /\ n \in DOMAIN b
      BY <1>1, KeyOrder
    <2>2. n - Cardinality(others(a, n, S)) = Cardinality(below(S \cap S, a[n])) + 1
      BY <2>1, Shift
    <2>3. n - Cardinality(others(b, n, S)) = Cardinality(below(S \cap S, b[n])) + 1
      BY <2>1, Shift
    <2>4. others(a, n, S) = {} /\ others(b, n, S) = {}
      BY KeyOrder DEF others, outside
    <2>5. S \cap S = S
      OBVIOUS
    <2>6. Cardinality(below(S, a[n])) \in Nat /\ Cardinality(below(S, b[n])) \in Nat
      <3>1. IsFiniteSet(below(S, a[n])) /\ IsFiniteSet(below(S, b[n]))
        BY KeyOrder, FS_Subset DEF below
      <3> QED
        BY <3>1, FS_CardinalityType
    <2>7. Cardinality(below(S, a[n])) + 1 = Cardinality(below(S, b[n])) + 1
      BY <2>2, <2>3, <2>4, <2>5
    <2>8. Cardinality(below(S, a[n])) = Cardinality(below(S, b[n]))
      BY <2>6, <2>7
    <2> QED
      BY <2>1, <2>8, RankIsUnique
  <1> QED
    BY <1>1, <1>2, SeqEqual

-----------------------------------------------------------------------------
(* An item of the collection view. *)
Item == [id : PhotoId, image : Album]

(* No ids are in increasing order. *)
LEMMA NoKeys == <<>> \in InKeyOrder({})
  <1>1. Cardinality({}) = 0 /\ 1 .. 0 = {} /\ DOMAIN <<>> = {}
    BY FS_EmptySet
  <1>2. <<>> \in [1 .. 0 -> {}]
    OBVIOUS
  <1> QED
    BY <1>1, <1>2 DEF InKeyOrder, SetToSeqs

(* The owner whose gallery is followed. *)
LEMMA OwnerThere ==
  ASSUME IInv, InProcess # {}
  PROVE  owner \in Owner /\ owner # None /\ screens \in InProcess /\ screens \in Screens
  <1>1. screens \in InProcess
    BY DEF IInv, TypeOK, InProcess
  <1>2. owner \in Owner
    BY <1>1 DEF IInv, ScreensHaveOwners, owner
  <1> QED
    BY <1>1, <1>2, NoneAssumption, ProcessScreens DEF IInv

(* An image of the owner is stored, and one of his photos has its id. *)
LEMMA OwnImages ==
  ASSUME IInv, FlowIsReal, InProcess # {}
  PROVE  /\ own \in SUBSET PhotoId
         /\ \A i \in own : flow[i] # NoFlow /\ flow[i].image \in Album
         /\ own \subseteq known
  <1>1. \A i \in own : flow[i] # NoFlow
    BY OwnerThere DEF own, NoFlow
  <1>2. \A i \in own : flow[i] \in [owner : Owner, image : Album]
    BY <1>1 DEF own, IInv, TypeOK
  <1> QED
    BY <1>1, <1>2 DEF own, known, FlowIsReal

(* The ids of the owner's photos under which images are stored are finite. *)
LEMMA KnownIds == IsFiniteSet(known) /\ Cardinality(known) \in Nat
  <1>1. known \in SUBSET PhotoId
    BY DEF known
  <1> QED
    BY <1>1, PhotoIdAssumption, FS_Subset, FS_CardinalityType

(* Drawing the results draws each of them. *)
LEMMA DrawnItems ==
  ASSUME IInv, FlowIsReal, InProcess # {}, live \in InKeyOrder(own)
  PROVE  /\ Drawn(live) \in Seq(Item) /\ Len(Drawn(live)) = Len(live)
         /\ DOMAIN Drawn(live) = DOMAIN live /\ DOMAIN live = 1 .. Len(live) /\ Len(live) \in Nat
         /\ \A n \in DOMAIN live : Drawn(live)[n] = [id |-> live[n], image |-> flow[live[n]].image]
         /\ Len(live) <= Cardinality(known)
  <1>1. /\ Len(live) \in Nat /\ DOMAIN live = 1 .. Len(live) /\ Len(live) = Cardinality(own)
        /\ \A n \in DOMAIN live : live[n] \in own
    BY OwnImages, KeyOrder
  <1>2. \A n \in DOMAIN live : [id |-> live[n], image |-> flow[live[n]].image] \in Item
    BY <1>1, OwnImages DEF Item
  <1>3. Drawn(live) \in [1 .. Len(live) -> Item]
    BY <1>1, <1>2 DEF Drawn
  <1>4. Drawn(live) \in Seq(Item) /\ Len(Drawn(live)) = Len(live) /\ DOMAIN Drawn(live) = 1 .. Len(live)
    BY <1>1, <1>3, ListOf
  <1>5. Cardinality(own) <= Cardinality(known)
    BY OwnImages, KnownIds, FS_Subset
  <1> QED
    BY <1>1, <1>4, <1>5 DEF Drawn

(* With an observer there are results; those it knows were results.         *)
LEMMA ObservedResults ==
  ASSUME GalleryInv, callback # "none"
  PROVE  InProcess # {} /\ own \in SUBSET PhotoId /\ live \in InKeyOrder(own) /\ Range(live) = own
  <1>1. InProcess # {} /\ live \in InKeyOrder(own)
    BY DEF GalleryInv, ClosedInv, ResultsInv
  <1>2. own \in SUBSET PhotoId
    BY DEF own
  <1> QED
    BY <1>1, <1>2, KeyOrder

(* When a write can begin, the observer knows the results. *)
LEMMA Delivered ==
  ASSUME GalleryInv, promote_to_write, callback = "called"
  PROVE  settled /\ ~worker.busy /\ behind = 0 /\ hasRun
  <1>1. hasRun /\ behind = 0 /\ changes = NoChange
    BY DEF promote_to_write
  <1>2. ~worker.busy /\ modified = {}
    BY <1>1 DEF GalleryInv, WorkerInv, ReportInv
  <1>3. own \in SUBSET PhotoId /\ live \in InKeyOrder(own)
    BY ObservedResults
  <1>4. PICK ids \in SUBSET PhotoId : seen \in InKeyOrder(ids)
    BY DEF GalleryInv, ResultsInv
  <1>5. Describes(changes, seen, live)
    BY <1>1 DEF GalleryInv, ReportInv
  <1>6. outside(seen, own) = {} /\ outside(live, ids) = {}
    BY <1>1, <1>3, <1>4, <1>5, ChangeOfIds DEF NoChange
  <1>7. own = ids
    <2>1. \A n \in DOMAIN seen : seen[n] \in own
      BY <1>6 DEF outside
    <2>2. \A n \in DOMAIN live : live[n] \in ids
      BY <1>6 DEF outside
    <2>3. Range(seen) = ids /\ Range(live) = own
      BY <1>3, <1>4, KeyOrder
    <2> QED
      BY <2>1, <2>2, <2>3 DEF Range
  <1>8. seen = live
    BY <1>3, <1>4, <1>7, OneKeyOrder
  <1> QED
    BY <1>1, <1>2, <1>8 DEF settled

(* Then the items are current, unless one was scrolled to too early. *)
LEMMA ItemsCurrent ==
  ASSUME GalleryInv, promote_to_write, callback = "called", laidOut, ~early
  PROVE  cells = Drawn(live)
  <1>1. settled /\ ~worker.busy /\ behind = 0
    BY Delivered
  <1>2. InProcess # {} /\ live \in InKeyOrder(own)
    BY ObservedResults
  <1>3. /\ Drawn(live) \in Seq(Item) /\ Len(Drawn(live)) = Len(live) /\ DOMAIN live = 1 .. Len(live)
        /\ \A n \in DOMAIN live : Drawn(live)[n] = [id |-> live[n], image |-> flow[live[n]].image]
    BY <1>2, DrawnItems DEF GalleryInv
  <1>4. CASE cells # Drawn(live)
    <2>1. /\ Len(cells) = Len(live)
          /\ \A n \in DOMAIN live : /\ cells[n].id = live[n]
                                    /\ cells[n].image = flow[live[n]].image \/ awaited(n)
      BY <1>1, <1>4 DEF GalleryInv, ItemsInv, settled
    <2>2. \A n \in DOMAIN live : ~awaited(n)
      BY <1>1 DEF awaited, settled, NoChange, Range
    <2>3. cells \in Seq(Item) /\ Len(cells) \in Nat
      BY LenProperties DEF GalleryInv, GalleryTypeOK, Item
    <2>4. \A n \in 1 .. Len(cells) : cells[n] = Drawn(live)[n]
      <3> SUFFICES ASSUME NEW n \in 1 .. Len(cells) PROVE cells[n] = Drawn(live)[n]
        OBVIOUS
      <3>1. n \in DOMAIN live /\ cells[n] \in Item
        BY <1>3, <2>1, <2>3, ElementOfSeq
      <3>2. cells[n].id = live[n] /\ cells[n].image = flow[live[n]].image
        BY <2>1, <2>2, <3>1
      <3>3. cells[n] = [id |-> cells[n].id, image |-> cells[n].image]
        BY <3>1 DEF Item
      <3> QED
        BY <1>3, <3>1, <3>2, <3>3
    <2> QED
      BY <1>3, <2>1, <2>3, <2>4, SeqEqual
  <1> QED
    BY <1>4

(* The initial state satisfies the invariant. *)
LEMMA InitGallery == GalleryInit => GalleryInv
  <1> SUFFICES ASSUME GalleryInit PROVE GalleryInv
    OBVIOUS
  <1>1. IInv /\ WorkerInv /\ ReportInv
    BY InitIInv, NotifierStarts, ReportStarts DEF GalleryInit
  <1>2. FlowIsReal
    BY DEF FlowIsReal, GalleryInit, Init
  <1>3. /\ live = <<>> /\ cells = <<>> /\ showing = FALSE /\ laidOut = TRUE /\ overtaken = FALSE
        /\ early = FALSE /\ ended = "no" /\ seen = <<>> /\ callback = "none"
        /\ downloads = {} /\ blocks = {} /\ InProcess = {}
    BY DEF GalleryInit, NotifierInit, Init, InProcess
  <1>4. GalleryTypeOK
    <2>1. live \in Seq(PhotoId) /\ cells \in Seq(Item)
      BY <1>3
    <2>2. ~showing /\ showing \in BOOLEAN /\ laidOut \in BOOLEAN /\ overtaken \in BOOLEAN
          /\ early \in BOOLEAN /\ ended \in {"no", "batch", "range"}
      BY <1>3
    <2> QED
      BY <1>1, <1>3, <2>1, <2>2 DEF GalleryTypeOK, IInv, Item
  <1>5. ClosedInv /\ CountInv /\ ItemsInv
    BY <1>3 DEF ClosedInv, running, CountInv, ItemsInv, BatchNeedsReload
  <1>6. ResultsInv
    BY <1>3, NoKeys DEF ResultsInv
  <1>7. RangeInv
    BY <1>3, KnownIds DEF RangeInv, RangeNeedsSharedId
  <1> QED
    BY <1>1, <1>2, <1>4, <1>5, <1>6, <1>7 DEF GalleryInv

-----------------------------------------------------------------------------
(* What depends on the table and on the newest screen alone stays with them. *)
LEMMA SameStored ==
  ASSUME UNCHANGED <<first, screens, userId, flow>>
  PROVE  /\ InProcess' = InProcess /\ owner' = owner /\ own' = own /\ known' = known
         /\ FlowIsReal => FlowIsReal'
         /\ live' = live => Drawn(live)' = Drawn(live)
  <1>1. owner' = owner
    BY DEF owner
  <1> QED
    BY <1>1 DEF InProcess, own, known, FlowIsReal, Drawn

(* A step that stores no image and draws no item: the views are told to     *)
(* reload, if at all, when nothing is to be reported, or are overtaken.     *)
LEMMA QuietStep ==
  ASSUME GalleryInv, IInv', WorkerInv', running,
         UNCHANGED <<first, screens, userId, flow, cells, early, ended>>,
         commit_write(live, {}) \/ UNCHANGED <<results, notifier>>,
         showing' \in {showing, FALSE}, laidOut' \in BOOLEAN, overtaken' \in BOOLEAN,
         laidOut' => laidOut,
         overtaken => overtaken',
         laidOut /\ ~laidOut' /\ ~overtaken' => promote_to_write,
         InProcess = {} => laidOut' /\ downloads' = {} /\ blocks' = {}
  PROVE  GalleryInv'
  <1>1. /\ InProcess' = InProcess /\ own' = own /\ known' = known /\ FlowIsReal'
        /\ owner' = owner /\ Drawn(live)' = Drawn(live)
    <2>1. live' = live
      BY DEF commit_write, results
    <2> QED
      BY <2>1, SameStored DEF GalleryInv
  <1>2. UNCHANGED <<live, callback, worker, change, changes, seen>>
    BY DEF commit_write, results, notifier
  <1>3. /\ callback = "called" /\ promote_to_write => settled
        /\ callback = "called" /\ promote_to_write /\ laidOut /\ ~early => cells = Drawn(live)
    BY Delivered, ItemsCurrent
  <1>4. ReportInv'
    <2>1. CASE commit_write(live, {})
      BY <1>3, <2>1, WriteReports DEF GalleryInv, settled, commit_write
    <2>2. CASE UNCHANGED <<results, notifier>>
      BY <2>2 DEF GalleryInv, ReportInv, results, notifier
    <2> QED
      BY <2>1, <2>2
  <1>5. GalleryTypeOK'
    <2>0. showing \in BOOLEAN
      BY DEF GalleryInv, GalleryTypeOK
    <2>1. showing' \in BOOLEAN /\ (~showing => ~showing')
      <3>1. showing' = showing \/ showing' = FALSE
        OBVIOUS
      <3>2. CASE showing' = showing
        BY <2>0, <3>2, Zenon
      <3>3. CASE showing' = FALSE
        BY <3>3, Zenon
      <3> QED
        BY <3>1, <3>2, <3>3
    <2>2. TypeOK'
      BY DEF IInv
    <2> QED
      BY <1>1, <1>2, <2>1, <2>2 DEF GalleryInv, GalleryTypeOK
  <1>6. ClosedInv'
    <2>1. ~showing => ~showing'
      OBVIOUS
    <2> QED
      BY <1>1, <1>2, <2>1 DEF GalleryInv, ClosedInv, running
  <1>7. ResultsInv'
    BY <1>1, <1>2 DEF GalleryInv, ResultsInv
  <1>8. settled /\ callback = "called" => settled'
    BY <1>2 DEF settled, commit_write, results, notifier
  <1>9. CountInv'
    <2>1. BatchNeedsReload'
      BY DEF BatchNeedsReload, running
    <2>2. (callback = "called" /\ ~laidOut /\ ~overtaken) => settled
      BY DEF GalleryInv, CountInv
    <2>3. (callback = "called" /\ ~laidOut' /\ ~overtaken') => settled'
      BY <1>3, <1>8, <2>2
    <2>4. (callback = "called" /\ laidOut' /\ ~overtaken') => Len(cells) = Len(seen)
      BY DEF GalleryInv, CountInv
    <2> QED
      BY <1>2, <2>1, <2>3, <2>4 DEF CountInv
  <1>10. RangeInv'
    BY <1>1 DEF GalleryInv, RangeInv, RangeNeedsSharedId, running
  <1>11. ItemsInv'
    <2>1. CASE commit_write(live, {})
      <3>1. promote_to_write
        BY <2>1 DEF commit_write
      <3> QED
        BY <1>1, <1>2, <1>3, <3>1 DEF ItemsInv
    <2>2. CASE UNCHANGED <<results, notifier>>
      <3>1. \A n : awaited(n)' = awaited(n)
        BY <2>2 DEF awaited, results, notifier
      <3>2. (callback = "called" /\ laidOut' /\ ~early) =>
              \/ cells = Drawn(live)
              \/ /\ Len(cells) = Len(seen)
                 /\ \A n \in DOMAIN seen : /\ cells[n].id = seen[n]
                                           /\ cells[n].image = flow[seen[n]].image \/ awaited(n)
        BY DEF GalleryInv, ItemsInv
      <3> QED
        BY <1>1, <1>2, <3>1, <3>2 DEF ItemsInv
    <2> QED
      BY <2>1, <2>2
  <1> QED
    BY <1>1, <1>4, <1>5, <1>6, <1>7, <1>9, <1>10, <1>11 DEF GalleryInv

(* The process ends. *)
LEMMA CloseStep ==
  ASSUME GalleryInv, IInv', WorkerInv', closed, endProcess, UNCHANGED <<screens, userId, flow>>,
         overtaken' \in BOOLEAN, ended' \in {"no", "batch", "range"},
         BatchNeedsReload', RangeNeedsSharedId'
  PROVE  GalleryInv'
  <1>1. InProcess' = {}
    <2>1. first' = screens + 1 /\ screens' = screens /\ screens \in Nat
      BY DEF endProcess, GalleryInv, IInv, TypeOK
    <2> QED
      BY <2>1 DEF InProcess
  <1>2. /\ live' = <<>> /\ cells' = <<>> /\ showing' = FALSE /\ laidOut' = TRUE /\ early' = FALSE
        /\ callback' = "none" /\ seen' = <<>> /\ downloads' = {} /\ blocks' = {}
    BY DEF closed, ResultsNotifier, endProcess
  <1>3. FlowIsReal'
    BY DEF GalleryInv, FlowIsReal
  <1>4. ReportInv'
    BY CallbackReports DEF GalleryInv, closed
  <1>5. GalleryTypeOK'
    <2>1. live' \in Seq(PhotoId) /\ cells' \in Seq(Item)
      BY <1>2
    <2>2. ~showing' /\ showing' \in BOOLEAN /\ laidOut' \in BOOLEAN /\ early' \in BOOLEAN
      BY <1>2
    <2>3. TypeOK'
      BY DEF IInv
    <2> QED
      BY <1>2, <2>1, <2>2, <2>3 DEF GalleryTypeOK, Item
  <1>6. ClosedInv' /\ ResultsInv'
    BY <1>1, <1>2, NoKeys DEF ClosedInv, ResultsInv
  <1>7. CountInv' /\ ItemsInv'
    BY <1>2 DEF CountInv, ItemsInv
  <1>8. RangeInv'
    <2>1. known' \in SUBSET PhotoId
      BY DEF known
    <2>2. Cardinality(known') \in Nat
      BY <2>1, PhotoIdAssumption, FS_Subset, FS_CardinalityType
    <2> QED
      BY <1>2, <2>2 DEF RangeInv
  <1> QED
    BY <1>3, <1>4, <1>5, <1>6, <1>7, <1>8 DEF GalleryInv

(* A screen is opened, with new results. *)
LEMMA OpenGallery ==
  ASSUME GalleryInv, IInv', WorkerInv', running, NEW o \in Owner, open(o)
  PROVE  GalleryInv'
  <1>1. /\ live' \in InKeyOrder({i \in PhotoId : flow[i].owner = o})
        /\ cells' = <<>> /\ showing' = TRUE /\ laidOut' = FALSE /\ overtaken' = FALSE
        /\ early' = FALSE /\ ended' = "no" /\ callback' = "none" /\ seen' = <<>>
    BY DEF open, getPhotoflow, ResultsNotifier, running
  <1>2. screens' = screens + 1 /\ first' = first /\ flow' = flow
        /\ userId' = [userId EXCEPT ![screens + 1] = o]
    BY DEF open, viewDidLoad, tables
  <1>3. owner' = o
    <2>1. screens + 1 \in Screens /\ userId \in [Screens -> Owner \cup {None}]
      BY MaxScreensAssumption DEF GalleryInv, IInv, TypeOK, open, viewDidLoad, Screens
    <2> QED
      BY <1>2, <2>1 DEF owner
  <1>4. live' \in InKeyOrder(own') /\ own' \in SUBSET PhotoId
    BY <1>1, <1>2, <1>3 DEF own
  <1>5. InProcess' # {}
    <2>1. first \in Nat /\ screens \in Nat /\ first <= screens + 1
      BY MaxScreensAssumption DEF GalleryInv, IInv, TypeOK
    <2>2. screens + 1 \in first .. screens + 1
      BY <2>1
    <2> QED
      BY <1>2, <2>2 DEF InProcess
  <1>6. FlowIsReal'
    BY <1>2 DEF GalleryInv, FlowIsReal
  <1>7. ReportInv'
    BY CallbackReports DEF GalleryInv, open
  <1>8. GalleryTypeOK'
    <2>1. live' \in Seq(PhotoId)
      BY <1>4, KeyOrder
    <2>2. cells' \in Seq(Item)
      BY <1>1
    <2>3. showing' \in BOOLEAN /\ laidOut' \in BOOLEAN /\ overtaken' \in BOOLEAN /\ early' \in BOOLEAN
      BY <1>1
    <2>4. TypeOK' /\ ended' \in {"no", "batch", "range"}
      BY <1>1 DEF IInv
    <2> QED
      BY <1>5, <2>1, <2>2, <2>3, <2>4 DEF GalleryTypeOK, Item
  <1>9. ClosedInv' /\ ResultsInv'
    BY <1>1, <1>4, <1>5, NoKeys DEF ClosedInv, ResultsInv, running
  <1>10. CountInv' /\ ItemsInv'
    BY <1>1 DEF CountInv, ItemsInv, BatchNeedsReload
  <1>11. RangeInv'
    <2>1. known' \in SUBSET PhotoId
      BY DEF known
    <2>2. Cardinality(known') \in Nat
      BY <2>1, PhotoIdAssumption, FS_Subset, FS_CardinalityType
    <2> QED
      BY <1>1, <2>2 DEF RangeInv, RangeNeedsSharedId
  <1> QED
    BY <1>6, <1>7, <1>8, <1>9, <1>10, <1>11 DEF GalleryInv

(* Steps of the views and of the notifier alone, while there is a screen. *)
LEMMA ScreenStep ==
  ASSUME GalleryInv, IInv', running, InProcess # {}, UNCHANGED <<vars, live, ended>>,
         cells' \in Seq(Item), Len(cells') <= Cardinality(known),
         showing' \in BOOLEAN, laidOut' \in BOOLEAN, overtaken' \in BOOLEAN, early' \in BOOLEAN
  PROVE  /\ FlowIsReal' /\ GalleryTypeOK' /\ ClosedInv' /\ RangeInv' /\ BatchNeedsReload'
         /\ own' = own /\ Drawn(live)' = Drawn(live) /\ InProcess' = InProcess
         /\ live' \in InKeyOrder(own')
  <1>1. UNCHANGED <<first, screens, userId, flow>>
    BY DEF vars, tables
  <1>2. /\ InProcess' = InProcess /\ owner' = owner /\ own' = own /\ known' = known /\ FlowIsReal'
        /\ Drawn(live)' = Drawn(live)
    BY <1>1, SameStored DEF GalleryInv
  <1>3. GalleryTypeOK'
    <2>1. TypeOK' /\ live' \in Seq(PhotoId) /\ ended' \in {"no", "batch", "range"}
      BY DEF GalleryInv, GalleryTypeOK, IInv
    <2> QED
      BY <1>2, <2>1 DEF GalleryTypeOK, Item
  <1>4. ClosedInv' /\ RangeInv' /\ BatchNeedsReload'
    BY <1>2 DEF ClosedInv, RangeInv, RangeNeedsSharedId, BatchNeedsReload, running
  <1>5. live' \in InKeyOrder(own')
    BY <1>2 DEF GalleryInv, ResultsInv
  <1> QED
    BY <1>2, <1>3, <1>4, <1>5

(* The types and the count of the items as they are. *)
LEMMA ItemTypes ==
  ASSUME GalleryInv
  PROVE  /\ cells \in Seq(Item) /\ Len(cells) <= Cardinality(known)
         /\ Len(cells) \in Nat /\ DOMAIN cells = 1 .. Len(cells)
         /\ showing \in BOOLEAN /\ laidOut \in BOOLEAN /\ overtaken \in BOOLEAN /\ early \in BOOLEAN
  <1>1. /\ cells \in Seq(Item) /\ Len(cells) <= Cardinality(known)
        /\ showing \in BOOLEAN /\ laidOut \in BOOLEAN /\ overtaken \in BOOLEAN /\ early \in BOOLEAN
    BY DEF GalleryInv, GalleryTypeOK, RangeInv, Item
  <1> QED
    BY <1>1, LenProperties

(* The callback is added. *)
LEMMA ObserveStep ==
  ASSUME GalleryInv, IInv', WorkerInv', running, observe
  PROVE  GalleryInv'
  <1>1. /\ InProcess # {} /\ callback' = "added" /\ UNCHANGED seen
        /\ UNCHANGED <<vars, live, ended, cells, showing, laidOut, overtaken, early>>
    BY DEF observe, add_callback, gallery, results
  <1>2. /\ FlowIsReal' /\ GalleryTypeOK' /\ ClosedInv' /\ RangeInv' /\ BatchNeedsReload'
        /\ live' \in InKeyOrder(own')
    BY <1>1, ScreenStep, ItemTypes
  <1>3. ReportInv'
    BY CallbackReports DEF GalleryInv, observe
  <1>4. ResultsInv' /\ CountInv' /\ ItemsInv'
    BY <1>1, <1>2 DEF GalleryInv, ResultsInv, CountInv, ItemsInv
  <1> QED
    BY <1>2, <1>3, <1>4 DEF GalleryInv

(* What the parts about the callback say while the views stay as they are.  *)
LEMMA WorkStep ==
  ASSUME GalleryInv, IInv', WorkerInv', ReportInv', running, callback # "none",
         UNCHANGED <<vars, gallery, ended, live, callback, seen>>,
         settled /\ callback = "called" => settled',
         callback = "called" => \A n \in DOMAIN seen : awaited(n) => awaited(n)'
  PROVE  GalleryInv'
  <1>1. UNCHANGED <<cells, showing, laidOut, overtaken, early>> /\ UNCHANGED flow
    BY DEF gallery, vars, tables
  <1>2. InProcess # {}
    BY ObservedResults
  <1>3. /\ FlowIsReal' /\ GalleryTypeOK' /\ ClosedInv' /\ RangeInv' /\ BatchNeedsReload'
        /\ live' \in InKeyOrder(own') /\ Drawn(live)' = Drawn(live)
    BY <1>1, <1>2, ScreenStep, ItemTypes
  <1>4. ResultsInv'
    BY <1>3 DEF GalleryInv, ResultsInv
  <1>5. CountInv'
    BY <1>1, <1>3 DEF GalleryInv, CountInv
  <1>6. ItemsInv'
    <2>1. (callback = "called" /\ laidOut /\ ~early) =>
            \/ cells = Drawn(live)
            \/ /\ Len(cells) = Len(seen)
               /\ \A n \in DOMAIN seen : /\ cells[n].id = seen[n]
                                         /\ cells[n].image = flow[seen[n]].image \/ awaited(n)'
      BY DEF GalleryInv, ItemsInv
    <2> QED
      BY <1>1, <1>3, <2>1 DEF ItemsInv
  <1> QED
    BY <1>3, <1>4, <1>5, <1>6 DEF GalleryInv

(* The worker finds nothing between equal rows that were not modified. *)
LEMMA NothingFound ==
  ASSUME NEW rows
  PROVE  calculate(rows, rows, {}) = NoChange
  BY DEF calculate, NoChange, Range

(* Realm's worker begins, or hands over. *)
LEMMA WorkerSteps ==
  ASSUME GalleryInv, IInv', WorkerInv', running, notifierWorks
  PROVE  GalleryInv'
  <1>1. CASE run
    <2>1. /\ ~worker.busy /\ callback # "none" /\ (~hasRun \/ behind > 0)
          /\ worker' = [busy |-> TRUE, covers |-> behind]
          /\ modified' = {} /\ UNCHANGED <<live, callback, hasRun, behind, changes, seen>>
      BY <1>1 DEF run
    <2>2. worker'.busy
      BY <2>1
    <2>3. callback = "called" => change' = calculate(seen, live, modified)
      BY <1>1, <2>1 DEF run, GalleryInv, ReportInv, WorkerInv
    <2>4. ReportInv'
      BY <1>1, RunReports DEF GalleryInv
    <2>5. settled /\ callback = "called" => settled'
      BY <2>1, <2>3, NothingFound DEF settled
    <2>6. ASSUME callback = "called", NEW n \in DOMAIN seen, awaited(n) PROVE awaited(n)'
      <3>1. CASE seen[n] \notin Range(live) \/ n \in changes.modifications
        BY <2>1, <3>1 DEF awaited
      <3>2. CASE seen[n] \in Range(live) /\ seen[n] \in modified
        <4>1. n \in change'.modifications
          BY <2>3, <2>6, <3>2 DEF calculate
        <4> QED
          BY <2>2, <4>1 DEF awaited
      <3> QED
        BY <2>1, <2>6, <3>1, <3>2 DEF awaited
    <2>7. UNCHANGED <<vars, gallery, ended>>
      BY DEF notifierWorks
    <2> QED
      BY <2>1, <2>4, <2>5, <2>6, <2>7, WorkStep
  <1>2. CASE prepare_handover
    <2>1. /\ worker.busy /\ worker' = [busy |-> FALSE, covers |-> 0]
          /\ change' = NoChange /\ UNCHANGED <<live, modified, callback, seen>>
      BY <1>2 DEF prepare_handover, results
    <2>2. ~worker'.busy
      BY <2>1
    <2>3. ReportInv' /\ changes' = change
      BY <1>2, HandoverReports DEF GalleryInv
    <2>4. callback # "none"
      BY <2>1 DEF GalleryInv, ReportInv
    <2>5. settled /\ callback = "called" => settled'
      BY <2>1, <2>2, <2>3 DEF settled
    <2>6. changes = NoChange
      BY <2>1 DEF GalleryInv, WorkerInv
    <2>7. ASSUME NEW n \in DOMAIN seen, awaited(n) PROVE awaited(n)'
      BY <2>1, <2>3, <2>6, <2>7 DEF awaited, NoChange
    <2>8. UNCHANGED <<vars, gallery, ended>>
      BY DEF notifierWorks
    <2> QED
      BY <2>1, <2>3, <2>4, <2>5, <2>7, <2>8, WorkStep
  <1> QED
    BY <1>1, <1>2 DEF notifierWorks

(* The first notification asks for a layout. *)
LEMMA InitialStep ==
  ASSUME GalleryInv, IInv', WorkerInv', running, initial
  PROVE  GalleryInv'
  <1>1. /\ hasRun /\ behind = 0 /\ callback' = "called" /\ changes' = NoChange /\ seen' = live
        /\ UNCHANGED <<live, modified, worker, change>>
    BY DEF initial, after_advance, package_for_delivery, results
  <1>2. /\ callback = "added" /\ laidOut' = FALSE
        /\ UNCHANGED <<vars, showing, cells, overtaken, early, ended>>
    BY DEF initial
  <1>3. laidOut' \in BOOLEAN
    BY <1>2
  <1>4. /\ FlowIsReal' /\ GalleryTypeOK' /\ ClosedInv' /\ RangeInv' /\ BatchNeedsReload'
        /\ live' \in InKeyOrder(own')
    BY <1>1, <1>2, <1>3, ObservedResults, ScreenStep, ItemTypes
  <1>5. ReportInv'
    BY CallbackReports DEF GalleryInv, initial
  <1>6. ResultsInv'
    <2>1. seen' \in InKeyOrder(own') /\ own' \in SUBSET PhotoId
      BY <1>1, <1>4 DEF own
    <2> QED
      BY <1>1, <1>4, <2>1 DEF ResultsInv
  <1>7. settled'
    <2>1. modified = {} /\ ~worker.busy
      BY <1>1 DEF GalleryInv, ReportInv, WorkerInv
    <2> QED
      BY <1>1, <2>1 DEF settled
  <1>8. CountInv' /\ ItemsInv'
    BY <1>2, <1>4, <1>7 DEF CountInv, ItemsInv
  <1> QED
    BY <1>4, <1>5, <1>6, <1>8 DEF GalleryInv

(* The view is laid out. *)
LEMMA LayoutStep ==
  ASSUME GalleryInv, IInv', WorkerInv', running, layout
  PROVE  GalleryInv'
  <1>1. /\ ~laidOut /\ laidOut' = TRUE /\ cells' = Drawn(live)
        /\ UNCHANGED <<vars, results, notifier, showing, ended>>
    BY DEF layout
  <1>2. UNCHANGED <<live, modified, callback, worker, change, changes, seen>>
    BY <1>1 DEF results, notifier
  <1>3. overtaken' \in BOOLEAN /\ early' \in BOOLEAN /\ laidOut' \in BOOLEAN
        /\ (~overtaken' => ~overtaken \/ promote_to_write)
    BY DEF layout
  <1>4. InProcess # {}
    BY DEF GalleryInv, ClosedInv, layout
  <1>5. live \in InKeyOrder(own)
    BY <1>4 DEF GalleryInv, ResultsInv
  <1>6. Drawn(live) \in Seq(Item) /\ Len(Drawn(live)) = Len(live) /\ Len(live) <= Cardinality(known)
    BY <1>4, <1>5, DrawnItems DEF GalleryInv
  <1>7. /\ FlowIsReal' /\ GalleryTypeOK' /\ ClosedInv' /\ RangeInv' /\ BatchNeedsReload'
        /\ live' \in InKeyOrder(own') /\ Drawn(live)' = Drawn(live)
    BY <1>1, <1>2, <1>3, <1>4, <1>6, ItemTypes, ScreenStep
  <1>8. ReportInv'
    BY <1>1 DEF GalleryInv, ReportInv, results, notifier
  <1>9. ResultsInv'
    BY <1>2, <1>7 DEF GalleryInv, ResultsInv
  <1>10. CountInv'
    <2>1. callback = "called" /\ ~overtaken' => settled
      BY <1>1, <1>3, Delivered DEF GalleryInv, CountInv
    <2>2. callback = "called" /\ ~overtaken' => Len(cells') = Len(seen')
      BY <1>1, <1>2, <1>6, <2>1 DEF settled
    <2> QED
      BY <1>1, <1>2, <1>7, <2>2 DEF CountInv
  <1>11. ItemsInv'
    BY <1>1, <1>7 DEF ItemsInv
  <1> QED
    BY <1>7, <1>8, <1>9, <1>10, <1>11 DEF GalleryInv

(* An item is drawn where its id is, as it is now. *)
LEMMA AppliedIsCurrent ==
  ASSUME GalleryInv, callback = "called", package_for_delivery, laidOut, ~early,
         Len(cells) = Len(seen)
  PROVE  Applied(changes, cells, Drawn(live)) = Drawn(live)
  <1> DEFINE r == Applied(changes, cells, Drawn(live))
  <1>1. hasRun /\ behind = 0 /\ ~worker.busy /\ Describes(changes, seen, live)
    BY DEF package_for_delivery, GalleryInv, WorkerInv, ReportInv
  <1>2. InProcess # {} /\ own \in SUBSET PhotoId /\ live \in InKeyOrder(own) /\ Range(live) = own
    BY ObservedResults
  <1>3. PICK ids \in SUBSET PhotoId : seen \in InKeyOrder(ids)
    BY DEF GalleryInv, ResultsInv
  <1>4. /\ Drawn(live) \in Seq(Item) /\ Len(Drawn(live)) = Len(live) /\ DOMAIN live = 1 .. Len(live)
        /\ Len(live) \in Nat
        /\ \A n \in DOMAIN live : Drawn(live)[n] = [id |-> live[n], image |-> flow[live[n]].image]
    BY <1>2, DrawnItems DEF GalleryInv
  <1>5. cells \in Seq(Item)
    BY ItemTypes
  <1>6. /\ r \in Seq(Item) /\ Len(r) = Len(live)
        /\ \A j \in DOMAIN live :
             \/ r[j] = Drawn(live)[j]
             \/ \E i \in DOMAIN seen : /\ seen[i] = live[j] /\ i \notin changes.modifications
                                       /\ r[j] = cells[i]
    BY <1>1, <1>2, <1>3, <1>4, <1>5, AppliedToResults
  <1>7. /\ DOMAIN seen = 1 .. Len(seen) /\ Len(seen) \in Nat /\ Range(seen) = ids
        /\ Len(seen) = Cardinality(ids) /\ IsFiniteSet(ids)
        /\ \A m, n \in DOMAIN seen : seen[m] = seen[n] => m = n
    BY <1>3, KeyOrder
  <1> HIDE DEF r
  <1>8. ASSUME NEW j \in DOMAIN live, NEW i \in DOMAIN seen,
               seen[i] = live[j], i \notin changes.modifications
        PROVE  cells[i] = Drawn(live)[j]
    <2>1. CASE cells = Drawn(live)
      <3>1. Cardinality(ids) = Cardinality(own) /\ IsFiniteSet(own)
        <4>1. Len(live) = Cardinality(own) /\ IsFiniteSet(own)
          BY <1>2, KeyOrder
        <4> QED
          BY <1>4, <1>7, <2>1, <4>1
      <3>2. ids \subseteq own \/ own \subseteq ids
        <4> SUFFICES ASSUME NEW x \in ids, x \notin own, NEW y \in own, y \notin ids PROVE FALSE
          OBVIOUS
        <4>1. x \in PhotoId /\ y \in PhotoId
          BY <1>2, <1>3
        <4> QED
          BY <1>2, <1>7, <4>1 DEF GalleryInv, ResultsInv
      <3>3. ids = own
        BY <1>7, <3>1, <3>2, FS_Subset
      <3>4. seen = live
        BY <1>2, <1>3, <3>3, OneKeyOrder
      <3> QED
        BY <1>7, <1>8, <2>1, <3>4
    <2>2. CASE cells # Drawn(live)
      <3>1. cells[i].id = seen[i] /\ (cells[i].image = flow[seen[i]].image \/ awaited(i))
        BY <2>2 DEF GalleryInv, ItemsInv
      <3>2. ~awaited(i)
        BY <1>1, <1>8 DEF awaited, Range
      <3>3. cells[i] \in Item
        BY <1>5, <1>7, ElementOfSeq
      <3>4. cells[i] = [id |-> cells[i].id, image |-> cells[i].image]
        BY <3>3 DEF Item
      <3> QED
        BY <1>4, <1>8, <3>1, <3>2, <3>4
    <2> QED
      BY <2>1, <2>2
  <1>9. \A j \in DOMAIN live : r[j] = Drawn(live)[j]
    BY <1>6, <1>8
  <1>10. r = Drawn(live)
    BY <1>4, <1>6, <1>9, SeqEqual
  <1> QED
    BY <1>10 DEF r

(* A notification with a batch. *)
LEMMA UpdateStep ==
  ASSUME GalleryInv, IInv', WorkerInv', running, update
  PROVE  GalleryInv'
  <1>1. callback = "called" /\ package_for_delivery /\ changes # NoChange
    BY DEF update
  <1>2. hasRun /\ behind = 0 /\ ~worker.busy /\ modified = {} /\ Describes(changes, seen, live)
    BY <1>1 DEF package_for_delivery, GalleryInv, WorkerInv, ReportInv
  <1>3. InProcess # {} /\ own \in SUBSET PhotoId /\ live \in InKeyOrder(own)
    BY <1>1, ObservedResults
  <1>4. PICK ids \in SUBSET PhotoId : seen \in InKeyOrder(ids)
    BY DEF GalleryInv, ResultsInv
  <1>5. /\ Drawn(live) \in Seq(Item) /\ Len(Drawn(live)) = Len(live) /\ Len(live) \in Nat
        /\ Len(live) <= Cardinality(known)
    BY <1>3, DrawnItems DEF GalleryInv
  <1>6. cells \in Seq(Item) /\ Len(cells) \in Nat
    BY ItemTypes
  <1>7. PICK before \in counted :
          \/ /\ ~Fits(batch(changes), Len(before), Len(live))
             /\ crash("batch")
          \/ /\ Fits(batch(changes), Len(before), Len(live))
             /\ after_advance
             /\ cells' = Applied(batch(changes), before, Drawn(live))
             /\ overtaken' = FALSE
             /\ UNCHANGED <<vars, showing, laidOut, early, ended>>
    BY DEF update
  <1>8. (before = cells \/ before = Drawn(live)) /\ (laidOut => before = cells)
    BY DEF counted
  <1>9. before \in Seq(Item) /\ Len(before) \in Nat
    BY <1>5, <1>6, <1>8
  <1>10. Fits(batch(changes), Len(before), Len(live)) <=> Len(before) = Len(seen)
    BY <1>2, <1>3, <1>4, <1>9, FitsOldResults DEF batch
  <1>11. CASE ~Fits(batch(changes), Len(before), Len(live)) /\ crash("batch")
    <2>1. overtaken
      <3>1. CASE ~laidOut
        BY <1>1, <3>1 DEF GalleryInv, CountInv, settled
      <3>2. CASE laidOut
        BY <1>1, <1>8, <1>10, <1>11, <3>2 DEF GalleryInv, CountInv
      <3> QED
        BY <3>1, <3>2
    <2>2. /\ closed /\ endProcess /\ UNCHANGED <<screens, userId, flow>>
          /\ overtaken' = overtaken /\ ended' = "batch"
      BY <1>11 DEF crash, Kill, tables
    <2>3. BatchNeedsReload' /\ RangeNeedsSharedId'
      BY <2>1, <2>2 DEF BatchNeedsReload, RangeNeedsSharedId
    <2> QED
      BY <2>2, <2>3, ItemTypes, CloseStep
  <1>12. CASE /\ Fits(batch(changes), Len(before), Len(live))
              /\ after_advance
              /\ cells' = Applied(batch(changes), before, Drawn(live))
              /\ overtaken' = FALSE
              /\ UNCHANGED <<vars, showing, laidOut, early, ended>>
    <2>1. Len(before) = Len(seen) /\ cells' = Applied(changes, before, Drawn(live))
      BY <1>10, <1>12 DEF batch
    <2>2. cells' \in Seq(Item) /\ Len(cells') = Len(live)
      BY <1>2, <1>3, <1>4, <1>5, <1>9, <2>1, AppliedToResults
    <2>3. /\ callback' = "called" /\ changes' = NoChange /\ seen' = live
          /\ UNCHANGED <<live, modified, worker, change>>
      BY <1>12 DEF after_advance, results
    <2>4. overtaken' \in BOOLEAN /\ UNCHANGED <<vars, showing, laidOut, early, ended>>
      BY <1>12
    <2>5. /\ FlowIsReal' /\ GalleryTypeOK' /\ ClosedInv' /\ RangeInv' /\ BatchNeedsReload'
          /\ live' \in InKeyOrder(own') /\ Drawn(live)' = Drawn(live)
      BY <1>3, <1>5, <2>2, <2>3, <2>4, ItemTypes, ScreenStep
    <2>6. ReportInv'
      BY <1>12, CallbackReports DEF GalleryInv
    <2>7. ResultsInv'
      <3>1. seen' \in InKeyOrder(own') /\ own' \in SUBSET PhotoId
        BY <2>3, <2>5 DEF own
      <3> QED
        BY <2>3, <2>5, <3>1 DEF ResultsInv
    <2>8. settled'
      BY <1>2, <2>3 DEF settled
    <2>9. CountInv'
      BY <2>2, <2>3, <2>5, <2>8 DEF CountInv
    <2>10. ItemsInv'
      <3>1. laidOut' /\ ~early' => cells' = Drawn(live)
        BY <1>1, <1>8, <2>1, <2>4, AppliedIsCurrent
      <3> QED
        BY <2>5, <3>1 DEF ItemsInv
    <2> QED
      BY <2>5, <2>6, <2>7, <2>9, <2>10 DEF GalleryInv
  <1> QED
    BY <1>7, <1>11, <1>12

(* An item beyond the results: an image has been taken over. *)
LEMMA RangeStep ==
  ASSUME GalleryInv, IInv', WorkerInv', touchable, NEW n \in DOMAIN cells,
         n > Len(live), crash("range")
  PROVE  GalleryInv'
  <1>1. InProcess # {}
    BY DEF GalleryInv, ClosedInv, touchable
  <1>2. live \in InKeyOrder(own) /\ own \in SUBSET PhotoId
    BY <1>1 DEF GalleryInv, ResultsInv, own
  <1>3. /\ Len(live) = Cardinality(own) /\ Cardinality(own) \in Nat
        /\ own \subseteq known /\ Cardinality(known) \in Nat
    BY <1>1, <1>2, KeyOrder, OwnImages, KnownIds DEF GalleryInv
  <1>4. Len(cells) \in Nat /\ n \in 1 .. Len(cells) /\ Len(cells) <= Cardinality(known)
    BY ItemTypes
  <1>5. own # known
    BY <1>3, <1>4
  <1>6. PICK i \in known : i \notin own
    BY <1>3, <1>5
  <1>7. /\ i \in PhotoId /\ flow[i] # NoFlow /\ <<owner, i>> \in Album /\ flow[i].owner # owner
    BY <1>6 DEF known, own
  <1>8. <<flow[i].owner, i>> \in Album
    BY <1>7 DEF GalleryInv, FlowIsReal
  <1>9. ~Unshared(i)
    BY <1>7, <1>8 DEF Unshared
  <1>10. /\ closed /\ endProcess /\ UNCHANGED <<screens, userId, flow>>
         /\ overtaken' = overtaken /\ ended' = "range"
    BY DEF crash, Kill, tables
  <1>11. owner' = owner
    BY <1>10 DEF owner
  <1>12. BatchNeedsReload' /\ RangeNeedsSharedId'
    BY <1>7, <1>9, <1>10, <1>11 DEF BatchNeedsReload, RangeNeedsSharedId
  <1> QED
    BY <1>10, <1>12, ItemTypes, CloseStep

(* An item scrolls into view. *)
LEMMA ScrollStep ==
  ASSUME GalleryInv, IInv', WorkerInv', running, NEW n \in DOMAIN cells, scroll(n)
  PROVE  GalleryInv'
  <1>1. CASE n > Len(live) /\ crash("range")
    BY <1>1, RangeStep DEF scroll
  <1>2. CASE /\ n <= Len(live)
             /\ cells' = [cells EXCEPT ![n] = Drawn(live)[n]]
             /\ early' = (early \/ ~promote_to_write)
             /\ UNCHANGED <<vars, results, notifier, showing, laidOut, overtaken, ended>>
    <2>1. InProcess # {} /\ showing /\ laidOut
      BY DEF GalleryInv, ClosedInv, scroll, touchable
    <2>2. live \in InKeyOrder(own)
      BY <2>1 DEF GalleryInv, ResultsInv
    <2>3. /\ Drawn(live) \in Seq(Item) /\ Len(Drawn(live)) = Len(live) /\ DOMAIN live = 1 .. Len(live)
          /\ Len(live) \in Nat
      BY <2>1, <2>2, DrawnItems DEF GalleryInv
    <2>4. /\ cells \in Seq(Item) /\ Len(cells) \in Nat /\ DOMAIN cells = 1 .. Len(cells)
          /\ Len(cells) <= Cardinality(known)
      BY ItemTypes
    <2>5. Drawn(live)[n] \in Item
      <3>1. n \in 1 .. Len(Drawn(live))
        BY <1>2, <2>3, <2>4
      <3> QED
        BY <2>3, <3>1, ElementOfSeq
    <2>6. cells' \in Seq(Item) /\ Len(cells') = Len(cells)
      BY <1>2, <2>4, <2>5, ExceptSeq
    <2>7. UNCHANGED <<live, modified, callback, hasRun, behind, worker, previous, change, changes, seen>>
          /\ UNCHANGED <<vars, showing, laidOut, overtaken, ended>>
      BY <1>2 DEF results, notifier
    <2>8. early' \in BOOLEAN /\ (~early' => ~early /\ promote_to_write)
      BY <1>2
    <2>9. /\ FlowIsReal' /\ GalleryTypeOK' /\ ClosedInv' /\ RangeInv' /\ BatchNeedsReload'
          /\ live' \in InKeyOrder(own') /\ Drawn(live)' = Drawn(live)
      BY <2>1, <2>4, <2>6, <2>7, <2>8, ItemTypes, ScreenStep
    <2>10. ReportInv'
      BY <2>7 DEF GalleryInv, ReportInv
    <2>11. ResultsInv' /\ CountInv'
      <3>1. settled' = settled
        BY <2>7 DEF settled
      <3> QED
        BY <2>6, <2>7, <2>9, <3>1 DEF GalleryInv, ResultsInv, CountInv
    <2>12. ItemsInv'
      <3>1. ASSUME callback = "called", ~early' PROVE cells' = Drawn(live)
        <4>1. cells = Drawn(live)
          BY <2>1, <2>8, <3>1, ItemsCurrent
        <4>2. \A m \in 1 .. Len(cells) : cells'[m] = cells[m]
          <5>1. cells' = [cells EXCEPT ![n] = cells[n]]
            BY <1>2, <4>1
          <5> QED
            BY <2>4, <5>1
        <4>3. cells' = cells
          BY <2>4, <2>6, <4>2, SeqEqual
        <4> QED
          BY <4>1, <4>3
      <3> QED
        BY <2>7, <2>9, <3>1 DEF ItemsInv
    <2> QED
      BY <2>9, <2>10, <2>11, <2>12 DEF GalleryInv
  <1> QED
    BY <1>1, <1>2 DEF scroll

(* An image is stored under an id that its owner has. *)
LEMMA StoredImage ==
  ASSUME GalleryInv, IInv', NEW d \in blocks, savePhotoflow(d)
  PROVE  /\ d.id \in PhotoId
         /\ \A i \in PhotoId : i # d.id => flow'[i] = flow[i]
         /\ \A i \in PhotoId : flow[i] # NoFlow => flow'[i] # NoFlow
         /\ FlowIsReal'
  <1>1. d.id \in PhotoId /\ photo[d.id] # None
    BY DEF GalleryInv, IInv, TypeOK, Downloads, MetadataIsThere
  <1>2. <<photo[d.id], d.id>> \in Album
    BY <1>1 DEF GalleryInv, IInv, MetadataIsReal
  <1>3. CASE flow' = [flow EXCEPT ![d.id] = [owner |-> photo[d.id], image |-> d.image]]
    <2>1. /\ \A i \in PhotoId : i # d.id => flow'[i] = flow[i]
          /\ flow'[d.id] = [owner |-> photo[d.id], image |-> d.image]
      BY <1>1, <1>3 DEF GalleryInv, IInv, TypeOK
    <2>2. flow'[d.id].owner = photo[d.id] /\ flow'[d.id] # NoFlow
      BY <1>1, <2>1 DEF NoFlow
    <2> QED
      BY <1>1, <1>2, <2>1, <2>2 DEF GalleryInv, FlowIsReal
  <1>4. CASE UNCHANGED flow
    BY <1>1, <1>4 DEF GalleryInv, FlowIsReal
  <1> QED
    BY <1>3, <1>4 DEF savePhotoflow

(* An image is stored: an item more or less, or one to be drawn again. *)
LEMMA StoreImage ==
  ASSUME GalleryInv, IInv', WorkerInv', running, NEW d \in blocks, store(d)
  PROVE  GalleryInv'
  <1> DEFINE touched == {i \in PhotoId : flow'[i] # flow[i]}
  <1>1. PICK rows \in getPhotoflow(owner, flow') : commit_write(rows, touched)
    BY DEF store
  <1>2. /\ UNCHANGED <<screens, first, userId, downloads>>
        /\ UNCHANGED <<showing, cells, laidOut, early, ended>>
        /\ overtaken' = (overtaken \/ (callback = "called" /\ ~laidOut))
    BY DEF store, savePhotoflow
  <1>3. /\ promote_to_write /\ live' = rows
        /\ UNCHANGED <<callback, hasRun, worker, previous, change, changes, seen>>
    BY <1>1 DEF commit_write
  <1>4. overtaken' \in BOOLEAN /\ (~overtaken' => ~overtaken)
        /\ (callback = "called" /\ ~laidOut => overtaken')
    BY <1>2
  <1>5. InProcess # {} /\ InProcess' = InProcess /\ owner' = owner
    BY <1>2 DEF GalleryInv, ClosedInv, InProcess, owner
  <1>6. /\ d.id \in PhotoId /\ FlowIsReal'
        /\ \A i \in PhotoId : i # d.id => flow'[i] = flow[i]
        /\ \A i \in PhotoId : flow[i] # NoFlow => flow'[i] # NoFlow
    BY StoredImage DEF store
  <1>7. live' \in InKeyOrder(own') /\ own' \in SUBSET PhotoId
    BY <1>1, <1>3, <1>5 DEF getPhotoflow, own
  <1>8. live' \in Seq(PhotoId) /\ Range(live') = own'
    BY <1>7, KeyOrder
  <1>9. ASSUME callback = "called"
        PROVE  /\ seen = live /\ modified = {} /\ ~worker.busy /\ behind = 0 /\ hasRun
               /\ behind' = 1 /\ modified' = touched
               /\ live \in InKeyOrder(own) /\ Range(live) = own
               /\ laidOut /\ ~early => cells = Drawn(live)
    <2>1. settled /\ ~worker.busy /\ behind = 0 /\ hasRun
      BY <1>3, <1>9, Delivered
    <2>2. laidOut /\ ~early => cells = Drawn(live)
      BY <1>3, <1>9, ItemsCurrent
    <2>3. behind' = behind + 1 /\ modified' = modified \cup touched
      BY <1>1, <1>9 DEF commit_write
    <2>4. live \in InKeyOrder(own) /\ Range(live) = own
      BY <1>9, ObservedResults
    <2> QED
      BY <2>1, <2>2, <2>3, <2>4 DEF settled
  <1> HIDE DEF touched
  <1>10. ReportInv'
    BY <1>1, <1>9, WriteReports DEF GalleryInv
  <1>11. GalleryTypeOK'
    <2>1. TypeOK'
      BY DEF IInv
    <2> QED
      BY <1>2, <1>4, <1>5, <1>8, <2>1 DEF GalleryInv, GalleryTypeOK
  <1>12. ClosedInv'
    BY <1>2, <1>5 DEF ClosedInv, running
  <1>13. ResultsInv'
    <2>1. \E ids \in SUBSET PhotoId : seen' \in InKeyOrder(ids)
      BY <1>3 DEF GalleryInv, ResultsInv
    <2>2. ASSUME callback = "called", NEW i \in PhotoId, ~(i \in Range(live') <=> i \in Range(seen'))
          PROVE  i = d.id
      <3>1. ~(i \in own' <=> i \in own)
        BY <1>3, <1>8, <1>9, <2>2
      <3>2. flow'[i] # flow[i]
        BY <1>5, <3>1 DEF own
      <3> QED
        BY <1>6, <3>2
    <2> QED
      BY <1>3, <1>7, <2>1, <2>2 DEF ResultsInv
  <1>14. CountInv'
    BY <1>2, <1>3, <1>4 DEF GalleryInv, CountInv, BatchNeedsReload, running
  <1>15. RangeInv'
    <2>1. known \subseteq known' /\ known' \in SUBSET PhotoId
      BY <1>5, <1>6 DEF known
    <2>2. /\ IsFiniteSet(known') /\ Cardinality(known') \in Nat
          /\ Cardinality(known) <= Cardinality(known')
      BY <2>1, PhotoIdAssumption, FS_Subset, FS_CardinalityType
    <2>3. Len(cells) <= Cardinality(known) /\ Len(cells) \in Nat /\ Cardinality(known) \in Nat
      BY ItemTypes, KnownIds
    <2>4. Len(cells) <= Cardinality(known')
      BY <2>2, <2>3
    <2> QED
      BY <1>2, <2>4 DEF RangeInv, RangeNeedsSharedId, running
  <1>16. ItemsInv'
    <2> SUFFICES ASSUME callback = "called", laidOut, ~early
                 PROVE  /\ Len(cells) = Len(seen)
                        /\ \A n \in DOMAIN seen :
                             /\ cells[n].id = seen[n]
                             /\ cells[n].image = flow'[seen[n]].image \/ awaited(n)'
      BY <1>2, <1>3 DEF ItemsInv
    <2>1. seen = live /\ cells = Drawn(live)
      BY <1>9
    <2>2. /\ Len(Drawn(live)) = Len(live)
          /\ \A n \in DOMAIN live : Drawn(live)[n] = [id |-> live[n], image |-> flow[live[n]].image]
      BY <1>5, <1>9, DrawnItems DEF GalleryInv
    <2>3. ASSUME NEW n \in DOMAIN seen
          PROVE  cells[n].id = seen[n] /\ cells[n].image = flow[seen[n]].image
      <3>1. cells[n] = [id |-> seen[n], image |-> flow[seen[n]].image]
        BY <2>1, <2>2, Zenon
      <3> QED
        BY <3>1
    <2>4. ASSUME NEW n \in DOMAIN seen
          PROVE  cells[n].image = flow'[seen[n]].image \/ awaited(n)'
      <3>1. CASE flow'[seen[n]] = flow[seen[n]]
        BY <2>3, <3>1
      <3>2. CASE flow'[seen[n]] # flow[seen[n]]
        <4>1. seen[n] \in PhotoId
          BY <1>9, <2>1, KeyOrder DEF own
        <4>2. seen'[n] \in modified' /\ behind' = 1 /\ ~worker'.busy
          BY <1>3, <1>9, <3>2, <4>1 DEF touched
        <4> QED
          BY <4>2 DEF awaited
      <3> QED
        BY <3>1, <3>2
    <2> QED
      BY <2>1, <2>2, <2>3, <2>4
  <1> QED
    BY <1>6, <1>10, <1>11, <1>12, <1>13, <1>14, <1>15, <1>16 DEF GalleryInv

(* The app is started again after an exception. *)
LEMMA RelaunchStep ==
  ASSUME GalleryInv, IInv', WorkerInv', ~running, relaunched
  PROVE  GalleryInv'
  <1>1. InProcess = {} /\ callback = "none"
    BY DEF GalleryInv, ClosedInv
  <1>2. /\ UNCHANGED <<vars, results, notifier, showing, cells, laidOut, early>>
        /\ ended' = "no" /\ overtaken' = FALSE
    BY DEF relaunched
  <1>3. UNCHANGED <<first, screens, userId, flow, downloads, blocks>>
    BY <1>2 DEF vars, tables, inFlight
  <1>4. InProcess' = InProcess /\ known' = known /\ FlowIsReal'
    BY <1>3, SameStored DEF GalleryInv
  <1>5. UNCHANGED <<live, callback, seen>>
    BY <1>2 DEF results, notifier
  <1>6. ReportInv'
    BY <1>2 DEF GalleryInv, ReportInv, results, notifier
  <1>7. GalleryTypeOK'
    <2>1. TypeOK' /\ overtaken' \in BOOLEAN /\ ended' \in {"no", "batch", "range"}
      BY <1>2 DEF IInv
    <2> QED
      BY <1>2, <1>4, <1>5, <2>1 DEF GalleryInv, GalleryTypeOK
  <1>8. ClosedInv' /\ ResultsInv'
    BY <1>1, <1>2, <1>3, <1>4, <1>5 DEF GalleryInv, ClosedInv, ResultsInv
  <1>9. CountInv' /\ ItemsInv'
    BY <1>1, <1>2, <1>5 DEF CountInv, ItemsInv, BatchNeedsReload
  <1>10. RangeInv'
    BY <1>2, <1>4 DEF GalleryInv, RangeInv, RangeNeedsSharedId
  <1> QED
    BY <1>4, <1>6, <1>7, <1>8, <1>9, <1>10 DEF GalleryInv

(* Steps that store no image, except replies with metadata. *)
LEMMA QuietSteps ==
  ASSUME GalleryInv, IInv', WorkerInv', running,
         \/ back \/ friendsSaved
         \/ \E s \in InProcess : fails(s)
         \/ \E d \in downloads : imageArrives(d)
  PROVE  GalleryInv'
  <1>1. /\ UNCHANGED <<first, screens, userId, flow, cells, early, ended, laidOut, overtaken>>
        /\ commit_write(live, {}) \/ UNCHANGED <<results, notifier>>
        /\ showing' \in {showing, FALSE}
    BY DEF back, friendsSaved, fails, photosGetFails, imageArrives, downloaded, vars, tables, gallery
  <1>2. InProcess = {} => laidOut /\ UNCHANGED <<downloads, blocks>> /\ downloads = {} /\ blocks = {}
    BY DEF GalleryInv, ClosedInv, back, friendsSaved, fails, imageArrives, vars, inFlight
  <1>3. laidOut' \in BOOLEAN /\ overtaken' \in BOOLEAN
    BY <1>1, ItemTypes
  <1> QED
    BY <1>1, <1>2, <1>3, QuietStep

(* A reply with metadata: the friend is there, or the process ends. *)
LEMMA MetaDataStep ==
  ASSUME GalleryInv, IInv', WorkerInv', running,
         NEW s \in InProcess, NEW photos, metaData(s, photos)
  PROVE  GalleryInv'
  <1>1. first \in Nat /\ screens \in Nat /\ first <= screens /\ s \in first .. screens
    BY MaxScreensAssumption DEF GalleryInv, IInv, TypeOK, InProcess
  <1>2. UNCHANGED <<screens, userId, flow, ended>> /\ (UNCHANGED first \/ endProcess)
    BY DEF metaData, downloadPhotoMetaData
  <1>3. CASE first' > screens /\ closed /\ overtaken' = FALSE
    <2>1. endProcess /\ overtaken' \in BOOLEAN
      <3>1. first' # first
        BY <1>1, <1>3
      <3>2. overtaken' \in BOOLEAN
        BY <1>3, Zenon
      <3> QED
        BY <1>2, <3>1, <3>2, Zenon
    <2>2. ended' = "no"
      BY <1>2 DEF running
    <2>3. BatchNeedsReload' /\ RangeNeedsSharedId'
      BY <2>2 DEF BatchNeedsReload, RangeNeedsSharedId
    <2> QED
      BY <1>2, <1>3, <2>1, <2>2, <2>3, CloseStep
  <1>4. ASSUME NEW reload, first' = first,
               commit_write(live, {}) \/ UNCHANGED <<results, notifier>>,
               laidOut' = (laidOut /\ ~reload),
               overtaken' = (overtaken \/ (reload /\ ~promote_to_write)),
               UNCHANGED <<showing, cells, early>>
        PROVE  GalleryInv'
    <2>1. /\ laidOut' \in BOOLEAN /\ overtaken' \in BOOLEAN
          /\ laidOut' => laidOut
          /\ overtaken => overtaken'
          /\ laidOut /\ ~laidOut' /\ ~overtaken' => promote_to_write
      BY <1>4
    <2>2. InProcess # {} /\ showing' \in {showing, FALSE}
      BY <1>4
    <2> QED
      BY <1>2, <1>4, <2>1, <2>2, QuietStep
  <1> QED
    BY <1>3, <1>4 DEF metaData

(* The process ends by itself. *)
LEMMA KilledStep ==
  ASSUME GalleryInv, IInv', WorkerInv', running, killed
  PROVE  GalleryInv'
  <1>1. /\ closed /\ endProcess /\ UNCHANGED <<screens, userId, flow>>
        /\ overtaken' = FALSE /\ ended' = "no"
    BY DEF killed, Kill, tables, running
  <1>2. overtaken' \in BOOLEAN
    BY <1>1
  <1>3. BatchNeedsReload' /\ RangeNeedsSharedId'
    BY <1>1 DEF BatchNeedsReload, RangeNeedsSharedId
  <1> QED
    BY <1>1, <1>2, <1>3, CloseStep

(* Nothing happens. *)
LEMMA GalleryStutters ==
  ASSUME GalleryInv, UNCHANGED allVars
  PROVE  GalleryInv'
  <1>1. /\ UNCHANGED vars /\ UNCHANGED notifier /\ UNCHANGED results
        /\ UNCHANGED <<showing, cells, laidOut, overtaken, early, ended>>
    BY DEF allVars, gallery
  <1>2. /\ UNCHANGED <<first, screens, userId, flow, downloads, blocks>>
        /\ UNCHANGED <<live, modified, callback, behind, worker, change, changes, seen>>
    BY <1>1 DEF vars, tables, inFlight, results, notifier
  <1>3. IInv' /\ WorkerInv' /\ ReportInv'
    <2>1. IInv'
      BY <1>1, NextIInv DEF GalleryInv
    <2>2. WorkerInv' /\ ReportInv'
      BY <1>1 DEF GalleryInv, WorkerInv, ReportInv, results, notifier
    <2> QED
      BY <2>1, <2>2
  <1>4. /\ InProcess' = InProcess /\ owner' = owner /\ own' = own /\ known' = known /\ FlowIsReal'
        /\ Drawn(live)' = Drawn(live)
    BY <1>2, SameStored DEF GalleryInv
  <1>5. GalleryTypeOK' /\ ClosedInv'
    <2>1. TypeOK'
      BY <1>3 DEF IInv
    <2> QED
      BY <1>1, <1>2, <1>4, <2>1 DEF GalleryInv, GalleryTypeOK, ClosedInv, running
  <1>6. ResultsInv' /\ RangeInv'
    BY <1>1, <1>2, <1>4 DEF GalleryInv, ResultsInv, RangeInv, RangeNeedsSharedId
  <1>7. CountInv'
    <2>1. settled' = settled
      BY <1>2 DEF settled
    <2> QED
      BY <1>1, <1>2, <2>1 DEF GalleryInv, CountInv, BatchNeedsReload
  <1>8. ItemsInv'
    <2>1. \A n : awaited(n)' = awaited(n)
      BY <1>2 DEF awaited
    <2> QED
      BY <1>1, <1>2, <1>4, <2>1 DEF GalleryInv, ItemsInv
  <1> QED
    BY <1>3, <1>4, <1>5, <1>6, <1>7, <1>8 DEF GalleryInv

(* Every step of the gallery keeps the invariant. *)
LEMMA GalleryKeeps == GalleryInv /\ [GalleryNext]_allVars => GalleryInv'
  <1> SUFFICES ASSUME GalleryInv, [GalleryNext]_allVars PROVE GalleryInv'
    OBVIOUS
  <1>1. IInv' /\ WorkerInv'
    BY PhotoflowSteps, NextIInv, NotifierKept DEF GalleryInv
  <1>2. CASE UNCHANGED allVars
    BY <1>2, GalleryStutters
  <1>3. CASE running /\ \E o \in Owner : open(o)
    BY <1>1, <1>3, OpenGallery
  <1>4. CASE running /\ (\/ back \/ friendsSaved
                         \/ \E s \in InProcess : fails(s)
                         \/ \E d \in downloads : imageArrives(d))
    BY <1>1, <1>4, QuietSteps
  <1>5. CASE running /\ \E s \in InProcess : \E photos \in SUBSET AlbumOf(userId[s]) : metaData(s, photos)
    BY <1>1, <1>5, MetaDataStep
  <1>6. CASE running /\ \E d \in blocks : store(d)
    BY <1>1, <1>6, StoreImage
  <1>7. CASE running /\ killed
    BY <1>1, <1>7, KilledStep
  <1>8. CASE running /\ observe
    BY <1>1, <1>8, ObserveStep
  <1>9. CASE running /\ notifierWorks
    BY <1>1, <1>9, WorkerSteps
  <1>10. CASE running /\ layout
    BY <1>1, <1>10, LayoutStep
  <1>11. CASE running /\ initial
    BY <1>1, <1>11, InitialStep
  <1>12. CASE running /\ update
    BY <1>1, <1>12, UpdateStep
  <1>13. CASE running /\ \E n \in DOMAIN cells : scroll(n) \/ didSelectItemAt(n)
    BY <1>1, <1>13, ScrollStep, RangeStep DEF didSelectItemAt
  <1>14. CASE ~running /\ relaunched
    BY <1>1, <1>14, RelaunchStep
  <1> QED
    BY <1>2, <1>3, <1>4, <1>5, <1>6, <1>7, <1>8, <1>9, <1>10, <1>11, <1>12, <1>13, <1>14
       DEF GalleryNext

-----------------------------------------------------------------------------
(* The inductive invariant holds in every state of the gallery. *)
THEOREM GalleryInvariance == GallerySpec => []GalleryInv
  BY InitGallery, GalleryKeeps, PTL DEF GallerySpec

(* Items and results are stored images, whatever is stored, taken over,     *)
(* scrolled to and delivered: RealmManager.getPhotoflow and cellForItemAt.  *)
THEOREM GalleryTypeCorrect == GallerySpec => []GalleryTypeOK
  <1>1. GalleryInv => GalleryTypeOK
    BY DEF GalleryInv
  <1> QED
    BY <1>1, GalleryInvariance, PTL

(* In the gallery, too, the Photo object that a block of downloadPhotos     *)
(* reads is there, and stored images keep their metadata.                   *)
THEOREM ShownMetadataThere == GallerySpec => []MetadataIsThere
  <1>1. GalleryInv => MetadataIsThere
    BY DEF GalleryInv, IInv
  <1> QED
    BY <1>1, GalleryInvariance, PTL

(* observeRealmPhotoflowCollection: performBatchUpdates raises its          *)
(* exception only if an image was stored while a reloadData waited for its  *)
(* layout, or a reloadData was made before a notification came, for any     *)
(* number of photos, owners and screens.                                    *)
THEOREM BatchNeeds == GallerySpec => []BatchNeedsReload
  <1>1. GalleryInv => BatchNeedsReload
    BY DEF GalleryInv, CountInv
  <1> QED
    BY <1>1, GalleryInvariance, PTL

(* cellForItemAt and didSelectItemAt are out of range only if an image of   *)
(* the owner was taken over by another owner who uses the same photo id.    *)
THEOREM RangeNeedsShared == GallerySpec => []RangeNeedsSharedId
  <1>1. GalleryInv => RangeNeedsSharedId
    BY DEF GalleryInv, RangeInv
  <1> QED
    BY <1>1, GalleryInvariance, PTL

(* Once all is delivered and laid out, the collection view shows every      *)
(* stored image of the owner once, unless cellForItemAt drew an item        *)
(* between a write and its notification.                                    *)
THEOREM ItemsShown == GallerySpec => []ItemsAreCurrent
  <1>1. GalleryInv => ItemsAreCurrent
    <2> SUFFICES ASSUME GalleryInv, callback = "called", promote_to_write, laidOut, ~early
                 PROVE  ShowsStored
      BY DEF ItemsAreCurrent
    <2>1. cells = Drawn(live)
      BY ItemsCurrent
    <2>2. InProcess # {} /\ own \in SUBSET PhotoId /\ live \in InKeyOrder(own) /\ Range(live) = own
      BY ObservedResults
    <2>3. /\ Len(Drawn(live)) = Len(live) /\ DOMAIN Drawn(live) = DOMAIN live
          /\ \A n \in DOMAIN live : Drawn(live)[n] = [id |-> live[n], image |-> flow[live[n]].image]
      BY <2>2, DrawnItems DEF GalleryInv
    <2>4. Len(cells) = Cardinality(own)
      BY <2>1, <2>2, <2>3, KeyOrder
    <2>5. ASSUME NEW i \in own
          PROVE  \E n \in DOMAIN cells : cells[n] = [id |-> i, image |-> flow[i].image]
      <3>1. PICK n \in DOMAIN live : live[n] = i
        BY <2>2 DEF Range
      <3> QED
        BY <2>1, <2>3, <3>1, Zenon
    <2> QED
      BY <2>4, <2>5 DEF ShowsStored, own
  <1> QED
    BY <1>1, GalleryInvariance, PTL
=============================================================================
