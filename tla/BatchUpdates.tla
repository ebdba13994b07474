---------------------------- MODULE BatchUpdates ----------------------------
(***************************************************************************)
(* External: how UITableView and UICollectionView apply a batch of         *)
(* deletions, insertions and reloads.  Deletions and reloads are indices   *)
(* into the rows before the batch, insertions into those after it.  The    *)
(* view then asks its data source for the number of rows, and raises an    *)
(* exception if the batch does not lead there.                             *)
(***************************************************************************)
EXTENDS Naturals, FiniteSets, Sequences

(* The view accepts batch c on `before` rows, if there are `now` afterwards. *)
Fits(c, before, now) ==
  /\ \A i \in c.deletions \cup c.modifications : i <= before
  /\ \A i \in c.insertions : i <= now
  /\ before + Cardinality(c.insertions) = now + Cardinality(c.deletions)

(* Where row i is after the batch. *)
Moved(c, now, i) ==
  CHOOSE j \in 1 .. now \ c.insertions :
    j - Cardinality({k \in c.insertions : k < j}) = i - Cardinality({k \in c.deletions : k < i})

(* The rows that the view draws again. *)
Redrawn(c, now) == c.insertions \cup {Moved(c, now, i) : i \in c.modifications}

(* The rows that the view shows after the batch: those drawn again as in    *)
(* `fresh`, the others as they were drawn before.                           *)
Applied(c, drawn, fresh) ==
  [j \in DOMAIN fresh |->
     IF j \in Redrawn(c, Len(fresh)) THEN fresh[j]
     ELSE drawn[CHOOSE i \in DOMAIN drawn \ c.deletions : Moved(c, Len(fresh), i) = j]]
=============================================================================
