---------------------------- MODULE PhotoGallery ----------------------------
(***************************************************************************)
(* What the user sees of the photos: the collection view of the newest     *)
(* PhotoflowViewController, with the full screen view it opens, composed   *)
(* with Photoflow (requests, downloads, tables) and with the notifier of   *)
(* the stored images of one owner.  Every step of Photoflow that writes to *)
(* Realm is a write for the notifier as well.                              *)
(*                                                                         *)
(* External: UICollectionView.  It counts its items when it is laid out,   *)
(* not when reloadData is called; if a batch comes before the layout, it   *)
(* may count at the beginning of the batch, when the results have changed  *)
(* already.  Results are in the order of their keys, which is that of the  *)
(* ids here.                                                               *)
(*                                                                         *)
(* The closure of the observer refers to the controller, which holds the   *)
(* token: a controller that was left lives on, observes, and applies       *)
(* batches to a view that nobody sees.  The newest controller is followed, *)
(* also after it was left; of earlier ones only what Photoflow has.        *)
(***************************************************************************)
EXTENDS Photoflow, CollectionNotifier, BatchUpdates, SequencesExt

ASSUME PhotoIdAssumption == PhotoId \subseteq Nat /\ IsFiniteSet(PhotoId)

VARIABLES
  showing,  \* the newest screen has not been left
  cells,    \* the items of the collection view: id and image drawn
  laidOut,  \* no reloadData waits for the layout
  overtaken,  \* history: a reloadData met a change not yet delivered
  early,    \* history: so did an item that was scrolled to
  ended     \* why the collection view ended the process

gallery == <<showing, cells, laidOut, overtaken, early>>
allVars == <<vars, results, notifier, gallery, ended>>

(* Items are stored images; without a controller there are none. *)
GalleryTypeOK ==
  /\ TypeOK
  /\ live \in Seq(PhotoId)
  /\ cells \in Seq([id : PhotoId, image : Album])
  /\ showing \in BOOLEAN /\ laidOut \in BOOLEAN
  /\ overtaken \in BOOLEAN /\ early \in BOOLEAN
  /\ ended \in {"no", "batch", "range"}
  /\ InProcess = {} => ~showing /\ live = <<>> /\ cells = <<>>

GalleryInit ==
  /\ Init /\ NotifierInit
  /\ live = <<>> /\ cells = <<>>
  /\ showing = FALSE /\ laidOut = TRUE /\ overtaken = FALSE /\ early = FALSE
  /\ ended = "no"

owner == userId[screens]

(* Results in the order of their keys: the one increasing list of the ids. *)
InKeyOrder(ids) ==
  {l \in SetToSeqs(ids) : \A m, n \in DOMAIN l : m < n => l[m] < l[n]}

(* Mutant: the ids of the owner's photos, whether an image is stored or not. *)
getPhotoflow_Metadata(o, table) == InKeyOrder({i \in PhotoId : photo[i] = o})

(* Mutant: the gallery is not filtered by owner. *)
getPhotoflow_All(o, table) == InKeyOrder({i \in PhotoId : table[i] # NoFlow})

(* RealmManager.getPhotoflow: the stored images of an owner. *)
getPhotoflow(o, table) == InKeyOrder({i \in PhotoId : table[i].owner = o})

(* What cellForItemAt draws for these results. *)
Drawn(ids) == [n \in DOMAIN ids |-> [id |-> ids[n], image |-> flow[ids[n]].image]]

(* The process has ended. *)
closed ==
  /\ ResultsNotifier
  /\ live' = <<>> /\ cells' = <<>>
  /\ showing' = FALSE /\ laidOut' = TRUE /\ early' = FALSE

crash(reason) ==
  /\ ended' = reason
  /\ Kill /\ closed
  /\ UNCHANGED overtaken

-----------------------------------------------------------------------------
(* Opening, with new results, and going back. *)
open(o) ==
  /\ ~showing
  /\ viewDidLoad(o)
  /\ ResultsNotifier
  /\ showing' = TRUE
  /\ live' \in getPhotoflow(o, flow)
  /\ cells' = <<>> /\ laidOut' = FALSE /\ overtaken' = FALSE /\ early' = FALSE
  /\ UNCHANGED ended

back ==
  /\ showing
  /\ showing' = FALSE
  /\ UNCHANGED <<vars, results, notifier, cells, laidOut, overtaken, early, ended>>

(* The steps of Photoflow, on every screen.  Metadata is written to another *)
(* table, which is a new version for the notifier too; the end of           *)
(* downloadPhotos reloads the collection view.                              *)
fails(s) == photosGetFails(s) /\ UNCHANGED <<results, notifier, gallery, ended>>

metaData(s, photos) ==
  /\ downloadPhotoMetaData(s, photos)
  /\ \/ crashed' /\ first' > screens /\ closed /\ overtaken' = FALSE
     \/ /\ first' = first
        /\ \/ commit_write(live, {})
           \/ photo' = photo /\ UNCHANGED <<results, notifier>>
        /\ LET reload == s = screens /\ ~spinner'[s]
           IN  /\ laidOut' = (laidOut /\ ~reload)
               /\ overtaken' = (overtaken \/ (reload /\ ~promote_to_write))
        /\ UNCHANGED <<showing, cells, early>>
  /\ UNCHANGED ended

imageArrives(d) == downloaded(d) /\ UNCHANGED <<results, notifier, gallery, ended>>

(* savePhotoflow adds an item, replaces its image, takes it out of the      *)
(* gallery of another owner, or changes nothing.                            *)
store(d) ==
  /\ savePhotoflow(d)
  /\ \E rows \in getPhotoflow(owner, flow') :
       commit_write(rows, {i \in PhotoId : flow'[i] # flow[i]})
  /\ overtaken' = (overtaken \/ (callback = "called" /\ ~laidOut))
  /\ UNCHANGED <<showing, cells, laidOut, early, ended>>

(* External: a write to the friends (SavingOperation, or an avatar). *)
friendsSaved ==
  /\ commit_write(live, {})
  /\ UNCHANGED <<vars, gallery, ended>>

killed == Kill /\ closed /\ overtaken' = FALSE /\ UNCHANGED ended

(* The app is started again after an exception. *)
relaunched ==
  /\ ended' = "no" /\ overtaken' = FALSE
  /\ UNCHANGED <<vars, results, notifier, showing, cells, laidOut, early>>

-----------------------------------------------------------------------------
(* Mutant: the token is not kept, and the observer is gone at once. *)
observe_NoToken == InProcess # {} /\ UNCHANGED allVars

(* observe(on: DispatchQueue.main), and Realm's worker thread. *)
observe ==
  /\ InProcess # {}
  /\ add_callback
  /\ UNCHANGED <<vars, gallery, ended>>

notifierWorks ==
  /\ run \/ prepare_handover
  /\ UNCHANGED <<vars, gallery, ended>>

(* External: the collection view is laid out, and draws its items. *)
layout ==
  /\ showing /\ ~laidOut
  /\ laidOut' = TRUE
  /\ cells' = Drawn(live)
  /\ early' = (early /\ ~promote_to_write)
  /\ overtaken' = (overtaken /\ ~promote_to_write)
  /\ UNCHANGED <<vars, results, notifier, showing, ended>>

(* The .initial notification: reloadData. *)
initial ==
  /\ callback = "added"
  /\ after_advance
  /\ laidOut' = FALSE
  /\ UNCHANGED <<vars, showing, cells, overtaken, early, ended>>

(* Mutant: items that left the results are not deleted. *)
batch_NoDeletions(c) == [c EXCEPT !.deletions = {}]

(* The items that .update reloads, inserts and deletes. *)
batch(c) == c

(* External: the items that the collection view counts on when a batch      *)
(* begins.                                                                  *)
counted == IF laidOut THEN {cells} ELSE {cells, Drawn(live)}

(* The .update notification. *)
update ==
  /\ callback = "called" /\ package_for_delivery /\ changes # NoChange
  /\ \E before \in counted :
       \/ /\ ~Fits(batch(changes), Len(before), Len(live))
          /\ crash("batch")
       \/ /\ Fits(batch(changes), Len(before), Len(live))
          /\ after_advance
          /\ cells' = Applied(batch(changes), before, Drawn(live))
          /\ overtaken' = FALSE
          /\ UNCHANGED <<vars, showing, laidOut, early, ended>>

-----------------------------------------------------------------------------
(* The user can touch the gallery. *)
touchable == showing /\ laidOut

(* Mutant: off by one. *)
scroll_Next(n) ==
  /\ touchable
  /\ \/ n + 1 > Len(live) /\ crash("range")
     \/ /\ n < Len(live)
        /\ cells' = [cells EXCEPT ![n] = Drawn(live)[n + 1]]
        /\ early' = (early \/ ~promote_to_write)
        /\ UNCHANGED <<vars, results, notifier, showing, laidOut, overtaken, ended>>

(* Item n scrolls into view: cellForItemAt. *)
scroll(n) ==
  /\ touchable
  /\ \/ n > Len(live) /\ crash("range")
     \/ /\ n <= Len(live)
        /\ cells' = [cells EXCEPT ![n] = Drawn(live)[n]]
        /\ early' = (early \/ ~promote_to_write)
        /\ UNCHANGED <<vars, results, notifier, showing, laidOut, overtaken, ended>>

(* Item n is tapped: the full screen view gets the results as they are now, *)
(* and scrolls to the index that was tapped.  It changes nothing itself.    *)
didSelectItemAt(n) ==
  /\ touchable
  /\ n > Len(live)
  /\ crash("range")

running == ended = "no"

(* Steps of the main queue and of the threads. *)
GalleryNext ==
  \/ /\ running
     /\ \/ \E o \in Owner : open(o)
        \/ back
        \/ \E s \in InProcess : \/ fails(s)
                                \/ \E photos \in SUBSET AlbumOf(userId[s]) : metaData(s, photos)
        \/ \E d \in downloads : imageArrives(d)
        \/ \E d \in blocks : store(d)
        \/ friendsSaved \/ killed
        \/ observe \/ notifierWorks \/ layout \/ initial \/ update
        \/ \E n \in DOMAIN cells : scroll(n) \/ didSelectItemAt(n)
  \/ ~running /\ relaunched

(* Requests are answered, Realm's worker runs when it is woken, what it     *)
(* hands over is delivered, and the run loop lays out views.                *)
GalleryFairness ==
  /\ WF_allVars(running /\ \E s \in InProcess :
                  fails(s) \/ \E photos \in SUBSET AlbumOf(userId[s]) : metaData(s, photos))
  /\ WF_allVars(running /\ (observe \/ notifierWorks))
  /\ WF_allVars(running /\ (layout \/ initial \/ update))

GallerySpec == GalleryInit /\ [][GalleryNext]_allVars /\ GalleryFairness

-----------------------------------------------------------------------------
(* A batch does not fit the items that the view counts on only if an image  *)
(* was stored while a reloadData waited for its layout, or a reloadData was *)
(* made before the notification about a stored image came (only if Realm    *)
(* could not be opened for the metadata).  Otherwise images can be stored,  *)
(* replaced and taken over by another owner in any order.                   *)
BatchNeedsReload == ended = "batch" => overtaken

(* An item is out of range, when it is scrolled to or tapped, only if an    *)
(* image of the owner has been taken over by another owner who uses the     *)
(* same photo id: nothing else removes an item.                             *)
RangeNeedsSharedId ==
  ended = "range" =>
    \E i \in PhotoId : /\ <<owner, i>> \in Album /\ ~Unshared(i)
                       /\ flow[i] # NoFlow /\ flow[i].owner # owner

(* Every stored image of the owner is on the screen once. *)
ShowsStored ==
  LET own == {i \in PhotoId : flow[i].owner = owner}
  IN  /\ Len(cells) = Cardinality(own)
      /\ \A i \in own : \E n \in DOMAIN cells :
           cells[n] = [id |-> i, image |-> flow[i].image]

(* Every item shows the image that is stored under its id, and the items    *)
(* are those of the owner, once all is delivered and laid out, in a gallery *)
(* that was left as well; unless an item was scrolled to between a write    *)
(* and its notification, which may show a photo twice.                      *)
ItemsAreCurrent ==
  (callback = "called" /\ promote_to_write /\ laidOut /\ running)
    => early \/ ShowsStored

(* Once no more images come, the gallery gets to show what is stored,       *)
(* unless it is left or the process ends.                                   *)
GalleryCatchesUp ==
  (showing /\ downloads = {} /\ blocks = {})
    ~> (~showing \/ ~running \/ early
          \/ (laidOut /\ ShowsStored))
=============================================================================
