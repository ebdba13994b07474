------------------------- MODULE TableScreensProofs -------------------------
(***************************************************************************)
(* Theorems about the friends and the groups screen, for any objects and   *)
(* any number of savings.                                                  *)
(***************************************************************************)
EXTENDS TableScreens, CollectionNotifierProofs, FiniteSetTheorems, SequenceTheorems

(* The process ends: Realm and the notifier stay as they are. *)
LEMMA CrashStep ==
  ASSUME NEW reason, crash(reason)
  PROVE  UNCHANGED <<results, notifier>>
  BY DEF crash, realm

(* A saving, or an avatar: a write for the notifier, or none. *)
LEMMA WritingSteps ==
  ASSUME deleteAll \/ (\E list \in Lists(saves) : saveGot(list))
                   \/ (\E i \in DOMAIN live : saveAvatar(i))
  PROVE  [NotifierNext]_<<results, notifier>>
  <1>1. CASE deleteAll
    BY <1>1 DEF deleteAll, NotifierNext
  <1>2. ASSUME NEW list \in Lists(saves), saveGot(list)
        PROVE  [NotifierNext]_<<results, notifier>>
    <2>1. commit_write(list, {}) \/ UNCHANGED <<results, notifier>>
      BY <1>2 DEF saveGot
    <2> QED
      BY <2>1 DEF NotifierNext
  <1>3. ASSUME NEW i \in DOMAIN live, saveAvatar(i)
        PROVE  [NotifierNext]_<<results, notifier>>
    BY <1>3 DEF saveAvatar, NotifierNext
  <1> QED
    BY <1>1, <1>2, <1>3

(* The observer is added, the worker runs, a notification is delivered. *)
LEMMA NotifyingSteps ==
  ASSUME observe \/ notifierWorks \/ initial \/ update
  PROVE  [NotifierNext]_<<results, notifier>>
  <1>1. CASE observe
    BY <1>1 DEF observe, NotifierNext
  <1>2. CASE notifierWorks
    BY <1>2 DEF notifierWorks, NotifierNext
  <1>3. CASE initial
    <2>1. after_advance \/ crash("deleted")
      BY <1>3 DEF initial
    <2> QED
      BY <2>1, CrashStep DEF NotifierNext
  <1>4. CASE update
    <2>1. after_advance \/ crash("deleted") \/ crash("batch")
      BY <1>4 DEF update
    <2> QED
      BY <2>1, CrashStep DEF NotifierNext
  <1> QED
    BY <1>1, <1>2, <1>3, <1>4

(* What the user does, and the profile's photo, write nothing. *)
LEMMA ReadingSteps ==
  ASSUME \/ AvatarsRun \/ filterContentForSearchText \/ emptySearchText
         \/ \E i \in DOMAIN drawn : scroll(i) \/ prepare(i)
         \/ downloadProfilePhoto \/ profileReads \/ back
  PROVE  UNCHANGED <<results, notifier>>
  <1>1. CASE AvatarsRun
    BY <1>1 DEF AvatarsRun
  <1>2. CASE filterContentForSearchText \/ emptySearchText \/ back
    BY <1>2 DEF filterContentForSearchText, emptySearchText, back, realm
  <1>3. ASSUME NEW i \in DOMAIN drawn, scroll(i) \/ prepare(i)
        PROVE  UNCHANGED <<results, notifier>>
    <2>1. CASE crash("range") \/ crash("deleted")
      BY <2>1, CrashStep
    <2>2. CASE ~(crash("range") \/ crash("deleted"))
      BY <1>3, <2>2 DEF scroll, prepare, realm
    <2> QED
      BY <2>1, <2>2
  <1>4. CASE downloadProfilePhoto \/ profileReads
    <2>1. CASE crash("deleted")
      BY <2>1, CrashStep
    <2>2. CASE ~crash("deleted")
      BY <1>4, <2>2 DEF downloadProfilePhoto, profileReads, realm
    <2> QED
      BY <2>1, <2>2
  <1> QED
    BY <1>1, <1>2, <1>3, <1>4

(* A screen takes only steps that the notifier allows. *)
LEMMA ScreenSteps == [Next]_vars => [NotifierNext]_<<results, notifier>>
  <1> SUFFICES ASSUME [Next]_vars PROVE [NotifierNext]_<<results, notifier>>
    OBVIOUS
  <1>1. CASE UNCHANGED vars
    BY <1>1 DEF vars, realm
  <1>2. CASE Next
    BY <1>2, WritingSteps, NotifyingSteps, ReadingSteps DEF Next
  <1> QED
    BY <1>1, <1>2

-----------------------------------------------------------------------------
(* The two writes of SavingOperation, and of the groups request, are never  *)
(* reported together, on either screen, for any number of savings: the      *)
(* table sees the deletion of the old rows before the new rows.             *)
THEOREM SavingsAreReportedApart == Spec => []NoMerge
  <1>1. Init => WorkerInv
    BY NotifierStarts DEF Init
  <1>2. WorkerInv /\ [Next]_vars => WorkerInv'
    BY ScreenSteps, NotifierSteps
  <1>3. WorkerInv => NoMerge
    BY WorkerInvNoMerge
  <1> QED
    BY <1>1, <1>2, <1>3, PTL DEF Spec

-----------------------------------------------------------------------------
(* The indicator of a profile runs only while its photo is awaited or after *)
(* it has failed, and one that was left running had a failed photo.         *)
StrayInv ==
  /\ profileSpinner => photo \in {"waiting", "failed"}
  /\ photo = "failed" => hasFailed
  /\ stray => hasFailed

(* Most steps leave the profile screen alone. *)
LEMMA ElsewhereSteps ==
  ASSUME \/ deleteAll \/ (\E list \in Lists(saves) : saveGot(list)) \/ AvatarsRun
         \/ (\E i \in DOMAIN live : saveAvatar(i))
         \/ observe \/ notifierWorks \/ initial \/ update
         \/ filterContentForSearchText \/ emptySearchText
         \/ (\E i \in DOMAIN drawn : scroll(i)) \/ profileReads
  PROVE  UNCHANGED profileScreen
  BY DEF deleteAll, saveGot, AvatarsRun, saveAvatar, observe, notifierWorks, initial,
         update, filterContentForSearchText, emptySearchText, scroll, profileReads, crash

(* A profile is opened. *)
LEMMA PrepareStep ==
  ASSUME StrayInv, NEW i \in DOMAIN drawn, prepare(i)
  PROVE  StrayInv'
  <1>1. CASE UNCHANGED profileScreen
    BY <1>1 DEF StrayInv, profileScreen
  <1>2. CASE profileViewDidLoad(rowObject(i))
    <2>1. PICK wait \in BOOLEAN : /\ photo' = IF wait THEN "waiting" ELSE "none"
                                 /\ profileSpinner' = wait
      BY <1>2 DEF profileViewDidLoad
    <2>2. UNCHANGED <<stray, hasFailed>>
      BY <1>2 DEF profileViewDidLoad
    <2> QED
      BY <2>1, <2>2 DEF StrayInv
  <1>3. UNCHANGED profileScreen \/ profileViewDidLoad(rowObject(i))
    BY DEF prepare, crash
  <1> QED
    BY <1>1, <1>2, <1>3

(* Its photo comes, or fails. *)
LEMMA PhotoStep ==
  ASSUME StrayInv, downloadProfilePhoto
  PROVE  StrayInv'
  <1>1. CASE crash("deleted")
    BY <1>1 DEF StrayInv, crash, profileScreen
  <1>2. CASE photo' = "failed" /\ hasFailed' = TRUE /\ UNCHANGED <<profileSpinner, stray>>
    BY <1>2 DEF StrayInv
  <1>3. CASE photo' = "shown" /\ profileSpinner' = FALSE /\ UNCHANGED <<stray, hasFailed>>
    BY <1>3 DEF StrayInv
  <1> QED
    BY <1>1, <1>2, <1>3 DEF downloadProfilePhoto

(* The profile is left, not before the block of its photo has run. *)
LEMMA BackStep ==
  ASSUME StrayInv, back
  PROVE  StrayInv'
  <1>1. profileSpinner => hasFailed
    BY DEF StrayInv, back
  <1>2. photo' = "none" /\ profileSpinner' = FALSE /\ hasFailed' = hasFailed
    BY DEF back
  <1>3. stray' => stray \/ profileSpinner
    BY DEF back
  <1> QED
    BY <1>1, <1>2, <1>3 DEF StrayInv

(* Every step keeps the invariant. *)
LEMMA StraySteps == StrayInv /\ [Next]_vars => StrayInv'
  <1> SUFFICES ASSUME StrayInv, [Next]_vars PROVE StrayInv'
    OBVIOUS
  <1>1. CASE UNCHANGED profileScreen
    BY <1>1 DEF StrayInv, profileScreen
  <1>2. CASE \E i \in DOMAIN drawn : prepare(i)
    BY <1>2, PrepareStep
  <1>3. CASE downloadProfilePhoto \/ back
    BY <1>3, PhotoStep, BackStep
  <1> QED
    BY <1>1, <1>2, <1>3, ElsewhereSteps DEF Next, vars

(* FriendProfileViewController.downloadProfilePhoto: an indicator stays in  *)
(* the navigation controller only if a photo could not be downloaded.       *)
THEOREM StrayIndicators == Spec => []OnlyFailuresStray
  <1>1. Init => StrayInv
    BY DEF Init, StrayInv
  <1>2. StrayInv => OnlyFailuresStray
    BY DEF StrayInv, OnlyFailuresStray
  <1> QED
    BY <1>1, <1>2, StraySteps, PTL DEF Spec

-----------------------------------------------------------------------------
(* How the rows, the table and the notifications go together.               *)

(* Between two notifications the rows are emptied, filled or only given     *)
(* avatars; they are emptied only while a saving goes on.                   *)
RowsInv ==
  /\ seen \in Seq(Object)
  /\ saving => live = <<>> /\ saves > 0
  /\ callback = "called" => \/ seen = <<>> \/ live = seen
                            \/ saving /\ live = <<>>

(* A search shows its own array; otherwise the table has as many rows as it *)
(* was told of, or as there were when the search bar reloaded it.                       *)
TableInv ==
  /\ drawn \in Seq(Row) /\ searched \in Seq(Object)
  /\ filtering => hasSearched /\ Len(drawn) = Len(searched)
  /\ (~filtering /\ saves = 0) => Len(drawn) = Len(live)
  /\ (~filtering /\ callback = "called") => Len(drawn) \in {Len(seen), Len(live)}
  /\ (~hasSearched /\ callback = "called") => Len(drawn) = Len(seen)

(* A notification will have row i reloaded. *)
pending(i) ==
  \/ behind = 1 /\ ~worker.busy /\ live[i] \in modified
  \/ worker.busy /\ i \in change.modifications
  \/ i \in changes.modifications

(* A row that is not up to date will be reloaded. *)
AvatarInv ==
  (~hasSearched /\ callback = "called" /\ live = seen) =>
    \A i \in DOMAIN live : drawn[i] = row(live[i]) \/ pending(i)

(* Why the process can have ended, and what a profile is waiting for. *)
EndInv ==
  /\ BatchesFitWithoutSearch
  /\ RangeNeedsEarlySaving
  /\ photo = "waiting" => profile # None

ScreenInv ==
  /\ TypeOK
  /\ WorkerInv
  /\ ReportInv
  /\ RowsInv
  /\ TableInv
  /\ AvatarInv
  /\ EndInv

-----------------------------------------------------------------------------
(* Enumerations of a finite set are lists. *)
LEMMA Enumerations ==
  ASSUME NEW S, IsFiniteSet(S), NEW l \in SetToSeqs(S)
  PROVE  l \in Seq(S) /\ DOMAIN l = 1 .. Len(l)
  <1>1. Cardinality(S) \in Nat
    BY FS_CardinalityType
  <1>2. l \in [1 .. Cardinality(S) -> S]
    BY DEF SetToSeqs
  <1> QED
    BY <1>1, <1>2, ListOf

(* The rows of a saving are a list of its objects. *)
LEMMA SavedLists ==
  ASSUME NEW n \in 0 .. MaxSaves, NEW l \in Lists(n)
  PROVE  /\ l \in Seq(Object)
         /\ \A i \in DOMAIN l : l[i].save = n
  <1>1. PICK S \in SUBSET Id : \E f \in SetToSeqs(S) : l = [i \in DOMAIN f |-> [id |-> f[i], save |-> n]]
    BY DEF Lists
  <1>2. PICK f \in SetToSeqs(S) : l = [i \in DOMAIN f |-> [id |-> f[i], save |-> n]]
    BY <1>1
  <1>3. IsFiniteSet(S)
    BY IdAssumption, FS_Subset
  <1>4. f \in Seq(S) /\ DOMAIN f = 1 .. Len(f)
    BY <1>3, Enumerations
  <1>5. l \in [1 .. Len(f) -> Object]
    <2> SUFFICES ASSUME NEW i \in 1 .. Len(f) PROVE [id |-> f[i], save |-> n] \in Object
      BY <1>2, <1>4
    <2>1. f[i] \in Id
      BY <1>4
    <2> QED
      BY <2>1 DEF Object
  <1> QED
    BY <1>2, <1>4, <1>5, ListOf

(* No rows are rows of any saving. *)
LEMMA EmptySaving ==
  ASSUME NEW n
  PROVE  <<>> \in Lists(n)
  <1>1. Cardinality({}) = 0
    BY FS_EmptySet
  <1>2. <<>> \in [1 .. 0 -> {}]
    OBVIOUS
  <1>3. <<>> \in SetToSeqs({})
    BY <1>1, <1>2 DEF SetToSeqs
  <1>4. <<>> = [i \in DOMAIN <<>> |-> [id |-> <<>>[i], save |-> n]]
    OBVIOUS
  <1>5. {} \in SUBSET Id
    OBVIOUS
  <1>6. <<>> \in UNION {SetToSeqs(S) : S \in SUBSET Id}
    BY <1>3, <1>5
  <1> QED
    BY <1>4, <1>6 DEF Lists

(* Drawing a list draws each of its objects. *)
LEMMA DrawnRows ==
  ASSUME NEW l \in Seq(Object)
  PROVE  /\ Drawn(l) \in Seq(Row) /\ Len(Drawn(l)) = Len(l)
         /\ DOMAIN Drawn(l) = DOMAIN l
         /\ \A i \in DOMAIN l : Drawn(l)[i] = row(l[i])
  <1>1. Len(l) \in Nat /\ DOMAIN l = 1 .. Len(l)
    BY LenProperties
  <1>2. Drawn(l) \in [1 .. Len(l) -> Row]
    <2> SUFFICES ASSUME NEW i \in 1 .. Len(l) PROVE row(l[i]) \in Row
      BY <1>1 DEF Drawn
    <2>1. l[i] \in Object
      BY <1>1
    <2> QED
      BY <2>1 DEF row, Row
  <1> QED
    BY <1>1, <1>2, ListOf DEF Drawn

(* The three kinds of changes: all rows deleted, all inserted, or none of   *)
(* both.                                                                    *)
LEMMA ChangeCases ==
  ASSUME NEW old \in Seq(Object), NEW new \in Seq(Object), NEW c, Describes(c, old, new)
  PROVE  /\ new = <<>> => c = [deletions |-> DOMAIN old, insertions |-> {}, modifications |-> {}]
         /\ old = <<>> => c = [deletions |-> {}, insertions |-> DOMAIN new, modifications |-> {}]
         /\ old = new => /\ c = [deletions |-> {}, insertions |-> {}, modifications |-> c.modifications]
                         /\ \A i \in c.modifications : i \in DOMAIN old
  <1>1. \A i \in c.modifications : i \in DOMAIN old /\ old[i] \in Range(new)
    BY DEF Describes
  <1>2. c = [deletions     |-> {i \in DOMAIN old : old[i] \notin Range(new)},
             insertions    |-> {i \in DOMAIN new : new[i] \notin Range(old)},
             modifications |-> c.modifications]
    BY DEF Describes
  <1>3. DOMAIN <<>> = {} /\ Range(<<>>) = {}
    BY DEF Range
  <1>4. CASE new = <<>>
    <2>1. c.modifications = {}
      BY <1>1, <1>3, <1>4
    <2>2. {i \in DOMAIN old : old[i] \notin Range(new)} = DOMAIN old
      BY <1>3, <1>4
    <2>3. {i \in DOMAIN new : new[i] \notin Range(old)} = {}
      BY <1>3, <1>4
    <2>4. c = [deletions |-> DOMAIN old, insertions |-> {}, modifications |-> {}]
      BY <1>2, <2>1, <2>2, <2>3
    <2>5. old = new => DOMAIN old = {}
      BY <1>3, <1>4
    <2> QED
      BY <1>3, <1>4, <2>1, <2>4, <2>5
  <1>5. CASE new # <<>> /\ old = <<>>
    <2>1. c.modifications = {}
      BY <1>1, <1>3, <1>5
    <2>2. {i \in DOMAIN old : old[i] \notin Range(new)} = {}
      BY <1>3, <1>5
    <2>3. {i \in DOMAIN new : new[i] \notin Range(old)} = DOMAIN new
      BY <1>3, <1>5
    <2> QED
      BY <1>2, <1>5, <2>1, <2>2, <2>3
  <1>6. CASE new # <<>> /\ old # <<>> /\ old = new
    <2>1. {i \in DOMAIN old : old[i] \notin Range(new)} = {}
      BY <1>6 DEF Range
    <2>2. {i \in DOMAIN new : new[i] \notin Range(old)} = {}
      BY <1>6 DEF Range
    <2> QED
      BY <1>1, <1>2, <1>6, <2>1, <2>2
  <1> QED
    BY <1>4, <1>5, <1>6

(* The rows in Realm are a list of objects that are not deleted. *)
LEMMA LiveRows ==
  ASSUME TypeOK
  PROVE  /\ live \in Seq(Object)
         /\ \A i \in DOMAIN live : ~deleted(live[i])
  BY SavedLists DEF TypeOK, deleted

(* When nothing waits for delivery, the callback has seen the rows. *)
LEMMA AllDelivered ==
  ASSUME TypeOK, ReportInv, RowsInv, callback = "called", behind = 0, changes = NoChange
  PROVE  seen = live
  <1>1. live \in Seq(Object) /\ seen \in Seq(Object) /\ Describes(changes, seen, live)
    BY LiveRows DEF ReportInv, RowsInv
  <1>2. CASE seen = <<>>
    <2>1. changes = [deletions |-> {}, insertions |-> DOMAIN live, modifications |-> {}]
      BY <1>1, <1>2, ChangeCases
    <2>2. changes.insertions = {}
      BY DEF NoChange
    <2>3. changes.insertions = DOMAIN live
      BY <2>1
    <2> QED
      BY <1>1, <1>2, <2>2, <2>3, EmptyLists
  <1>3. CASE live = <<>>
    <2>1. changes = [deletions |-> DOMAIN seen, insertions |-> {}, modifications |-> {}]
      BY <1>1, <1>3, ChangeCases
    <2>2. changes.deletions = {}
      BY DEF NoChange
    <2>3. changes.deletions = DOMAIN seen
      BY <2>1
    <2> QED
      BY <1>1, <1>3, <2>2, <2>3, EmptyLists
  <1> QED
    BY <1>2, <1>3 DEF RowsInv

(* A list has as many positions as elements. *)
LEMMA RowCount ==
  ASSUME NEW S, NEW l \in Seq(S)
  PROVE  Len(l) \in Nat /\ Cardinality(DOMAIN l) = Len(l)
  <1>1. PICK n \in Nat : n = Len(l) /\ DOMAIN l = 1 .. n
    BY LenProperties
  <1>2. Cardinality(1 .. n) = n
    <2>1. Cardinality(1 .. n) = (IF 1 > n THEN 0 ELSE n - 1 + 1)
      BY FS_Interval
    <2> QED
      BY <2>1
  <1> QED
    BY <1>1, <1>2, Zenon

(* A batch that deletes all rows fits only if as many rows go as it has,    *)
(* one that inserts all rows if as many come.                               *)
LEMMA DeletionFits ==
  ASSUME NEW old \in Seq(Object), NEW m \in Nat, NEW n \in Nat
  PROVE  Fits([deletions |-> DOMAIN old, insertions |-> {}, modifications |-> {}], m, n)
           <=> m = n + Len(old)
  <1>1. Cardinality(DOMAIN old) = Len(old) /\ Cardinality({}) = 0 /\ Len(old) \in Nat
    BY RowCount, FS_EmptySet
  <1>2. \A i \in DOMAIN old : i <= Len(old)
    BY LenProperties
  <1> DEFINE c == [deletions |-> DOMAIN old, insertions |-> {}, modifications |-> {}]
  <1>3. Fits(c, m, n) <=> /\ \A i \in DOMAIN old : i <= m
                          /\ m + Cardinality({}) = n + Cardinality(DOMAIN old)
    BY DEF Fits
  <1>4. DOMAIN old = 1 .. Len(old)
    BY LenProperties
  <1> QED
    BY <1>1, <1>3, <1>4

LEMMA InsertionFits ==
  ASSUME NEW new \in Seq(Object), NEW m \in Nat, NEW n \in Nat
  PROVE  Fits([deletions |-> {}, insertions |-> DOMAIN new, modifications |-> {}], m, n)
           <=> m + Len(new) = n
  <1>1. Cardinality(DOMAIN new) = Len(new) /\ Cardinality({}) = 0 /\ Len(new) \in Nat
    BY RowCount, FS_EmptySet
  <1> DEFINE c == [deletions |-> {}, insertions |-> DOMAIN new, modifications |-> {}]
  <1>2. Fits(c, m, n) <=> /\ \A i \in DOMAIN new : i <= n
                          /\ m + Cardinality(DOMAIN new) = n + Cardinality({})
    BY DEF Fits
  <1>3. DOMAIN new = 1 .. Len(new)
    BY LenProperties
  <1> QED
    BY <1>1, <1>2, <1>3

(* A batch that only reloads rows fits a table that keeps its length. *)
LEMMA ReloadFits ==
  ASSUME NEW M, NEW m \in Nat, NEW n \in Nat
  PROVE  Fits([deletions |-> {}, insertions |-> {}, modifications |-> M], m, n)
           <=> m = n /\ \A i \in M : i <= m
  <1>1. Cardinality({}) = 0
    BY FS_EmptySet
  <1> QED
    BY <1>1 DEF Fits

(* Such a batch moves no row ... *)
LEMMA ReloadStays ==
  ASSUME NEW c, c.insertions = {}, c.deletions = {}, NEW n \in Nat, NEW i \in 1 .. n
  PROVE  Moved(c, n, i) = i
  <1>1. Cardinality({}) = 0
    BY FS_EmptySet
  <1>2. \A j : {k \in c.insertions : k < j} = {} /\ {k \in c.deletions : k < j} = {}
    OBVIOUS
  <1>3. 1 .. n \ c.insertions = 1 .. n
    OBVIOUS
  <1>4. Moved(c, n, i) = CHOOSE j \in 1 .. n : j - 0 = i - 0
    BY <1>1, <1>2, <1>3 DEF Moved
  <1>5. (CHOOSE j \in 1 .. n : j - 0 = i - 0) = i
    OBVIOUS
  <1> QED
    BY <1>4, <1>5

(* ... and draws those again that it names. *)
LEMMA ReloadApplied ==
  ASSUME NEW c, c.insertions = {}, c.deletions = {},
         NEW before \in Seq(Row), NEW fresh \in Seq(Row), Len(before) = Len(fresh),
         c.modifications \subseteq 1 .. Len(fresh)
  PROVE  /\ Applied(c, before, fresh) \in Seq(Row)
         /\ Len(Applied(c, before, fresh)) = Len(fresh)
         /\ \A j \in DOMAIN fresh :
              Applied(c, before, fresh)[j] = IF j \in c.modifications THEN fresh[j] ELSE before[j]
  <1> DEFINE n == Len(fresh)
             M == c.modifications
  <1>1. n \in Nat /\ DOMAIN fresh = 1 .. n /\ DOMAIN before = 1 .. n
    BY LenProperties
  <1>2. \A i \in 1 .. n : Moved(c, n, i) = i
    BY <1>1, ReloadStays
  <1>3. c.insertions = {} /\ c.deletions = {} /\ c.modifications = M
    BY DEF M
  <1> HIDE DEF n, M
  <1>4. Redrawn(c, n) = M
    BY <1>2, <1>3 DEF Redrawn, n, M
  <1>5. ASSUME NEW j \in 1 .. n
        PROVE  (CHOOSE i \in DOMAIN before \ c.deletions : Moved(c, n, i) = j) = j
    <2>1. j \in DOMAIN before \ c.deletions /\ Moved(c, n, j) = j
      BY <1>1, <1>2, <1>3, <1>5
    <2>2. \A i \in DOMAIN before \ c.deletions : Moved(c, n, i) = j => i = j
      BY <1>1, <1>2
    <2> QED
      BY <2>1, <2>2
  <1>6. Applied(c, before, fresh) = [j \in DOMAIN fresh |-> IF j \in M THEN fresh[j] ELSE before[j]]
    <2> DEFINE at(j) == CHOOSE i \in DOMAIN before \ c.deletions : Moved(c, n, i) = j
    <2>1. Applied(c, before, fresh) =
            [j \in DOMAIN fresh |-> IF j \in Redrawn(c, n) THEN fresh[j] ELSE before[at(j)]]
      BY DEF Applied, n
    <2>2. \A j \in DOMAIN fresh : at(j) = j
      BY <1>1, <1>5
    <2> HIDE DEF at
    <2> QED
      BY <1>4, <2>1, <2>2
  <1>7. \A j \in 1 .. n : fresh[j] \in Row /\ before[j] \in Row
    BY <1>1, ElementOfSeq DEF n
  <1>8. Applied(c, before, fresh) \in [1 .. n -> Row]
    BY <1>1, <1>6, <1>7
  <1>9. Applied(c, before, fresh) \in Seq(Row) /\ Len(Applied(c, before, fresh)) = n
    BY <1>1, <1>8, ListOf
  <1> QED
    BY <1>6, <1>9 DEF n, M

(* A batch that inserts all rows draws them all. *)
LEMMA InsertionApplied ==
  ASSUME NEW before, NEW fresh \in Seq(Row)
  PROVE  LET c == [deletions |-> {}, insertions |-> DOMAIN fresh, modifications |-> {}]
         IN  Redrawn(c, Len(fresh)) = DOMAIN fresh /\ Applied(c, before, fresh) = fresh
  <1> DEFINE c == [deletions |-> {}, insertions |-> DOMAIN fresh, modifications |-> {}]
  <1>1. Redrawn(c, Len(fresh)) = DOMAIN fresh
    BY DEF Redrawn
  <1>2. Applied(c, before, fresh) = [j \in DOMAIN fresh |-> fresh[j]]
    BY <1>1 DEF Applied
  <1>3. fresh = [j \in DOMAIN fresh |-> fresh[j]]
    BY LenProperties
  <1> QED
    BY <1>1, <1>2, <1>3

(* After a batch that deletes all rows there is nothing to draw. *)
LEMMA DeletionApplied ==
  ASSUME NEW c, NEW before
  PROVE  Applied(c, before, <<>>) = <<>>
  <1>1. DOMAIN <<>> = {}
    OBVIOUS
  <1> QED
    BY <1>1 DEF Applied

-----------------------------------------------------------------------------
(* The initial state satisfies the invariant. *)
LEMMA InitScreen == Init => ScreenInv
  <1> SUFFICES ASSUME Init PROVE ScreenInv
    OBVIOUS
  <1>1. 0 \in 0 .. MaxSaves /\ saves = 0
    BY MaxSavesAssumption DEF Init
  <1>2. live \in Seq(Object) /\ <<>> \in Seq(Object)
    BY <1>1, SavedLists DEF Init
  <1>3. drawn \in Seq(Row) /\ Len(drawn) = Len(live)
    BY <1>2, DrawnRows DEF Init
  <1>4. WorkerInv /\ ReportInv
    BY NotifierStarts, ReportStarts DEF Init
  <1>5. seen = <<>> /\ modified = {} /\ callback = "none"
    BY DEF Init, NotifierInit
  <1>6. Range(drawn) \subseteq Row /\ Range(<<>>) = {}
    BY <1>3, LenProperties DEF Range
  <1>7. TypeOK
    <2>1. /\ saving = FALSE /\ frozen = FALSE /\ filtering = FALSE /\ spinner = TRUE
          /\ profileSpinner = FALSE /\ stray = FALSE /\ hasSearched = FALSE /\ hasFailed = FALSE
      BY DEF Init
    <2>2. /\ screen \in {"friends", "groups"} /\ live \in Lists(saves) /\ avatars \subseteq Range(live)
          /\ profile \in Object \cup {None} /\ photo \in {"none", "waiting", "shown", "failed"}
          /\ crashed \in Reasons /\ searched = <<>>
      BY <1>1 DEF Init, Reasons
    <2>3. Range(searched) \subseteq {o \in Object : o.id \in Matching}
      BY <1>6, <2>2
    <2> QED
      BY <1>1, <1>5, <1>6, <2>1, <2>2, <2>3 DEF TypeOK
  <1>8. RowsInv /\ TableInv /\ AvatarInv
    BY <1>2, <1>3, <1>5 DEF RowsInv, TableInv, AvatarInv, Init
  <1>9. EndInv
    BY DEF EndInv, BatchesFitWithoutSearch, RangeNeedsEarlySaving, Init
  <1> QED
    BY <1>4, <1>7, <1>8, <1>9 DEF ScreenInv

(* Nothing happens to the notifier. *)
LEMMA NotifierKept ==
  ASSUME WorkerInv, ReportInv, UNCHANGED <<results, notifier>>
  PROVE  WorkerInv' /\ ReportInv'
  BY DEF WorkerInv, ReportInv, results, notifier

(* Neither Realm, the notifier nor the table changes. *)
LEMMA TableKept ==
  ASSUME ScreenInv, UNCHANGED <<realm, notifier, table>>
  PROVE  WorkerInv' /\ ReportInv' /\ RowsInv' /\ TableInv' /\ AvatarInv'
  <1>1. UNCHANGED <<results, notifier>>
    BY DEF realm
  <1>2. WorkerInv' /\ ReportInv'
    BY <1>1, NotifierKept DEF ScreenInv
  <1>3. RowsInv' /\ TableInv'
    BY DEF ScreenInv, RowsInv, TableInv, realm, results, notifier, table
  <1>4. AvatarInv'
    BY DEF ScreenInv, AvatarInv, pending, row, realm, results, notifier, table
  <1> QED
    BY <1>2, <1>3, <1>4

(* The process ends, for a reason that is allowed. *)
LEMMA CrashKeeps ==
  ASSUME ScreenInv, NEW reason \in Reasons, crash(reason),
         reason = "batch" => hasSearched,
         reason = "range" => callback # "called" /\ saves > 0
  PROVE  ScreenInv'
  <1>1. crashed' = reason /\ UNCHANGED <<screen, realm, notifier, table, profileScreen>>
    BY DEF crash
  <1>2. WorkerInv' /\ ReportInv' /\ RowsInv' /\ TableInv' /\ AvatarInv'
    BY <1>1, TableKept
  <1>3. TypeOK'
    BY <1>1 DEF ScreenInv, TypeOK, realm, results, notifier, table, profileScreen
  <1>4. EndInv'
    BY <1>1 DEF ScreenInv, EndInv, BatchesFitWithoutSearch, RangeNeedsEarlySaving, realm,
       notifier, table, profileScreen
  <1> QED
    BY <1>2, <1>3, <1>4 DEF ScreenInv

(* While the process runs it has not ended. *)
LEMMA StillRunning ==
  ASSUME ScreenInv, alive, UNCHANGED crashed, photo' = "waiting" => profile' # None
  PROVE  EndInv'
  BY DEF EndInv, BatchesFitWithoutSearch, RangeNeedsEarlySaving, alive

(* A write begins when the callback has seen all rows. *)
LEMMA WriteBegins ==
  ASSUME ScreenInv, promote_to_write
  PROVE  /\ behind = 0 /\ modified = {} /\ ~worker.busy
         /\ callback = "called" => seen = live /\ changes = NoChange /\ hasRun
  <1>1. behind = 0
    BY DEF promote_to_write, ScreenInv, ReportInv
  <1>2. callback = "called" => hasRun /\ changes = NoChange
    BY DEF promote_to_write
  <1>3. callback = "called" => seen = live
    BY <1>1, <1>2, AllDelivered DEF ScreenInv
  <1>4. modified = {} /\ ~worker.busy
    BY <1>1 DEF promote_to_write, ScreenInv, ReportInv, WorkerInv
  <1> QED
    BY <1>1, <1>2, <1>3, <1>4

(* The first write of a saving. *)
LEMMA DeleteStep ==
  ASSUME ScreenInv, deleteAll
  PROVE  ScreenInv'
  <1>1. /\ alive /\ ~saving /\ saves < MaxSaves /\ commit_write(<<>>, {}) /\ promote_to_write
        /\ live' = <<>> /\ saves' = saves + 1 /\ saving' = TRUE /\ avatars' = {}
        /\ UNCHANGED <<screen, frozen, table, profileScreen, crashed, callback, seen>>
    BY DEF deleteAll, mainFree, commit_write
  <1>2. modified = {} /\ (callback = "called" => seen = live)
    BY <1>1, WriteBegins
  <1>3. modified' = {}
    BY <1>1, <1>2 DEF commit_write
  <1>4. WorkerInv' /\ ReportInv'
    BY <1>1, <1>2, WriteStep, WriteReports DEF ScreenInv
  <1>5. saves' \in 0 .. MaxSaves /\ saves' > 0
    BY <1>1, MaxSavesAssumption DEF ScreenInv, TypeOK
  <1>6. TypeOK'
    BY <1>1, <1>3, <1>5, EmptySaving DEF ScreenInv, TypeOK, table, profileScreen
  <1>7. RowsInv'
    BY <1>1, <1>5 DEF ScreenInv, RowsInv
  <1>8. TableInv'
    BY <1>1, <1>2, <1>5 DEF ScreenInv, TableInv, table
  <1>9. AvatarInv'
    <2>1. DOMAIN <<>> = {}
      OBVIOUS
    <2> QED
      BY <1>1, <2>1 DEF AvatarInv
  <1>10. EndInv'
    BY <1>1, StillRunning DEF ScreenInv, EndInv, profileScreen
  <1> QED
    BY <1>4, <1>6, <1>7, <1>8, <1>9, <1>10 DEF ScreenInv

(* The second write of a saving. *)
LEMMA SaveStep ==
  ASSUME ScreenInv, NEW list \in Lists(saves), saveGot(list)
  PROVE  ScreenInv'
  <1>1. /\ alive /\ saving /\ saving' = FALSE /\ promote_to_write
        /\ commit_write(list, {}) \/ UNCHANGED <<results, notifier>>
        /\ UNCHANGED <<screen, saves, frozen, avatars, filtering, searched, drawn, hasSearched,
                       profileScreen, crashed, callback, seen>>
    BY DEF saveGot, commit_write, notifier
  <1>2. modified = {} /\ (callback = "called" => seen = live)
    BY <1>1, WriteBegins
  <1>3. live = <<>> /\ saves > 0 /\ saves \in 0 .. MaxSaves
    BY <1>1 DEF ScreenInv, RowsInv, TypeOK
  <1>4. live' \in Lists(saves') /\ modified' = {}
    BY <1>1, <1>2, <1>3, EmptySaving DEF commit_write, results
  <1>5. WorkerInv' /\ ReportInv'
    BY <1>1, <1>2, WriteStep, WriteReports, NotifierKept DEF ScreenInv
  <1>6. spinner' \in BOOLEAN
    BY DEF saveGot, stopAfterSaving
  <1>7. avatars = {}
    BY <1>3 DEF ScreenInv, TypeOK, Range
  <1>8. TypeOK'
    BY <1>1, <1>4, <1>6, <1>7 DEF ScreenInv, TypeOK, profileScreen
  <1>9. RowsInv'
    BY <1>1, <1>2, <1>3 DEF ScreenInv, RowsInv
  <1>10. TableInv'
    BY <1>1, <1>2, <1>3 DEF ScreenInv, TableInv
  <1>11. AvatarInv'
    <2>1. DOMAIN <<>> = {}
      OBVIOUS
    <2> QED
      BY <1>1, <1>2, <1>3, <2>1 DEF AvatarInv
  <1>12. EndInv'
    BY <1>1, StillRunning DEF ScreenInv, EndInv, profileScreen
  <1> QED
    BY <1>5, <1>8, <1>9, <1>10, <1>11, <1>12 DEF ScreenInv

(* The avatars operation starts. *)
LEMMA FreezeStep ==
  ASSUME ScreenInv, AvatarsRun
  PROVE  ScreenInv'
  <1>1. /\ alive /\ frozen' = TRUE
        /\ UNCHANGED <<screen, results, saves, saving, avatars, notifier, table, profileScreen, crashed>>
    BY DEF AvatarsRun, mainFree
  <1>2. WorkerInv' /\ ReportInv'
    BY <1>1, NotifierKept DEF ScreenInv
  <1>3. TypeOK'
    BY <1>1 DEF ScreenInv, TypeOK, results, table, profileScreen
  <1>4. RowsInv' /\ TableInv' /\ AvatarInv'
    BY <1>1 DEF ScreenInv, RowsInv, TableInv, AvatarInv, pending, row, results, notifier, table
  <1>5. EndInv'
    BY <1>1, StillRunning DEF ScreenInv, EndInv, profileScreen
  <1> QED
    BY <1>2, <1>3, <1>4, <1>5 DEF ScreenInv

(* When nothing is pending, every row is up to date. *)
LEMMA RowsUpToDate ==
  ASSUME ScreenInv, promote_to_write, callback = "called", ~hasSearched
  PROVE  \A i \in DOMAIN live : drawn[i] = row(live[i])
  <1>1. behind = 0 /\ ~worker.busy /\ seen = live /\ changes = NoChange
    BY WriteBegins
  <1>2. \A i : ~pending(i)
    BY <1>1 DEF pending, NoChange
  <1> QED
    BY <1>1, <1>2 DEF ScreenInv, AvatarInv

(* An avatar is stored: its row will be reloaded. *)
LEMMA AvatarStep ==
  ASSUME ScreenInv, NEW i \in DOMAIN live, saveAvatar(i)
  PROVE  ScreenInv'
  <1>1. /\ alive /\ ~saving /\ commit_write(live, {live[i]}) /\ promote_to_write
        /\ live' = live /\ avatars' = avatars \cup {live[i]}
        /\ UNCHANGED <<screen, saves, saving, frozen, table, profileScreen, crashed,
                       callback, worker, change, changes, seen>>
    BY DEF saveAvatar, mainFree, commit_write
  <1>2. behind = 0 /\ modified = {} /\ ~worker.busy /\ (callback = "called" => seen = live)
    BY <1>1, WriteBegins
  <1>3. modified' \subseteq {live[i]}
    BY <1>1, <1>2 DEF commit_write
  <1>4. callback = "called" => modified' = {live[i]} /\ behind' = 1
    BY <1>1, <1>2 DEF commit_write
  <1>5. WorkerInv' /\ ReportInv'
    BY <1>1, <1>2, WriteStep, WriteReports DEF ScreenInv
  <1>6. live[i] \in Range(live)
    BY DEF Range
  <1>7. TypeOK'
    BY <1>1, <1>3, <1>6 DEF ScreenInv, TypeOK, table, profileScreen
  <1>8. RowsInv' /\ TableInv'
    BY <1>1 DEF ScreenInv, RowsInv, TableInv, table
  <1>9. AvatarInv'
    <2> SUFFICES ASSUME ~hasSearched, callback = "called", NEW j \in DOMAIN live
                 PROVE  drawn[j] = row(live[j])' \/ pending(j)'
      BY <1>1 DEF AvatarInv, table
    <2>1. CASE live[j] = live[i]
      BY <1>1, <1>2, <1>4, <2>1 DEF pending
    <2>2. CASE live[j] # live[i]
      <3>1. drawn[j] = row(live[j])
        BY <1>1, RowsUpToDate
      <3> QED
        BY <1>1, <2>2, <3>1 DEF row
    <2> QED
      BY <2>1, <2>2
  <1>10. EndInv'
    BY <1>1, StillRunning DEF ScreenInv, EndInv, profileScreen
  <1> QED
    BY <1>5, <1>7, <1>8, <1>9, <1>10 DEF ScreenInv

(* The observer is added. *)
LEMMA ObserveStep ==
  ASSUME ScreenInv, observe
  PROVE  ScreenInv'
  <1>1. /\ alive /\ add_callback /\ callback' = "added"
        /\ UNCHANGED <<screen, saves, saving, frozen, avatars, table, profileScreen, crashed,
                       live, modified, seen>>
    BY DEF observe, mainFree, add_callback, results
  <1>2. WorkerInv' /\ ReportInv'
    BY <1>1, MainSteps, CallbackReports DEF ScreenInv
  <1>3. TypeOK'
    BY <1>1 DEF ScreenInv, TypeOK, table, profileScreen
  <1>4. RowsInv' /\ TableInv' /\ AvatarInv'
    BY <1>1 DEF ScreenInv, RowsInv, TableInv, AvatarInv, table
  <1>5. EndInv'
    BY <1>1, StillRunning DEF ScreenInv, EndInv, profileScreen
  <1> QED
    BY <1>2, <1>3, <1>4, <1>5 DEF ScreenInv

(* Realm's worker runs: a row that was to be reloaded still is. *)
LEMMA WorkerStep ==
  ASSUME ScreenInv, notifierWorks
  PROVE  ScreenInv'
  <1>1. /\ alive /\ (run \/ prepare_handover)
        /\ UNCHANGED <<screen, saves, saving, frozen, avatars, table, profileScreen, crashed,
                       live, callback, seen>>
    BY DEF notifierWorks, run, prepare_handover, results
  <1>2. WorkerInv' /\ ReportInv'
    BY <1>1, RunStep, HandoverStep, RunReports, HandoverReports DEF ScreenInv
  <1>3. modified' \in {{}, modified}
    BY <1>1 DEF run, prepare_handover, results
  <1>4. TypeOK'
    BY <1>1, <1>3 DEF ScreenInv, TypeOK, table, profileScreen
  <1>5. RowsInv' /\ TableInv'
    BY <1>1 DEF ScreenInv, RowsInv, TableInv, table
  <1>6. AvatarInv'
    <2> SUFFICES ASSUME ~hasSearched, callback = "called", live = seen, NEW i \in DOMAIN live
                 PROVE  drawn[i] = row(live[i])' \/ pending(i)'
      BY <1>1 DEF AvatarInv, table
    <2>1. row(live[i])' = row(live[i])
      BY <1>1 DEF row
    <2>2. drawn[i] = row(live[i]) \/ pending(i)
      BY DEF ScreenInv, AvatarInv
    <2>3. hasRun
      BY DEF ScreenInv, ReportInv
    <2>4. CASE run /\ pending(i)
      <3>1. ~worker.busy /\ behind = 1 /\ previous = seen
        BY <2>3, <2>4 DEF run, ScreenInv, ReportInv, WorkerInv
      <3>2. changes = NoChange
        BY <3>1 DEF ScreenInv, WorkerInv
      <3>3. live[i] \in modified
        BY <2>4, <3>1, <3>2 DEF pending, NoChange
      <3>4. worker'.busy /\ change' = calculate(live, live, modified)
        BY <2>3, <2>4, <3>1 DEF run
      <3>5. i \in change'.modifications
        BY <3>3, <3>4 DEF calculate, Range
      <3> QED
        BY <3>4, <3>5 DEF pending
    <2>5. CASE prepare_handover /\ pending(i)
      <3>1. worker.busy /\ changes' = change
        BY <2>5, HandoverReports DEF prepare_handover, ScreenInv
      <3>2. changes = NoChange
        BY <2>3, <3>1 DEF ScreenInv, WorkerInv
      <3>3. i \in change.modifications
        BY <2>5, <3>1, <3>2 DEF pending, NoChange
      <3> QED
        BY <3>1, <3>3 DEF pending
    <2> QED
      BY <1>1, <2>1, <2>2, <2>4, <2>5
  <1>7. EndInv'
    BY <1>1, StillRunning DEF ScreenInv, EndInv, profileScreen
  <1> QED
    BY <1>2, <1>4, <1>5, <1>6, <1>7 DEF ScreenInv

(* What the table shows is a list of objects. *)
LEMMA SourceRows ==
  ASSUME ScreenInv
  PROVE  /\ source \in Seq(Object) /\ numberOfRowsInSection = Len(source) /\ Len(source) \in Nat
         /\ DOMAIN source = 1 .. Len(source)
         /\ ~filtering => source = live
         /\ filtering => source = searched
  <1>1. live \in Seq(Object) /\ searched \in Seq(Object)
    BY LiveRows DEF ScreenInv, TableInv
  <1>2. source \in Seq(Object)
    BY <1>1 DEF source
  <1> QED
    BY <1>2, EmptyLists DEF numberOfRowsInSection, source

(* Rows that were drawn are rows. *)
LEMMA RowRange ==
  ASSUME NEW rows \in Seq(Row)
  PROVE  Range(rows) \subseteq Row
  BY LenProperties DEF Range

(* A notification is delivered, and the table has the rows of its source:   *)
(* as they are now, or as they were drawn before where nothing waited.      *)
LEMMA DeliveryKeeps ==
  ASSUME ScreenInv, alive, after_advance,
         drawn' \in Seq(Row), Len(drawn') = Len(source),
         ~hasSearched => \A i \in DOMAIN live : drawn'[i] = row(live[i]),
         spinner' \in BOOLEAN,
         UNCHANGED <<screen, saves, saving, frozen, avatars, filtering, searched, hasSearched,
                     profileScreen, crashed>>
  PROVE  ScreenInv'
  <1>1. callback' = "called" /\ seen' = live /\ UNCHANGED <<live, modified>>
    BY DEF after_advance, results
  <1>2. WorkerInv' /\ ReportInv'
    BY MainSteps, CallbackReports DEF ScreenInv
  <1>3. TypeOK'
    BY <1>1, RowRange DEF ScreenInv, TypeOK, profileScreen
  <1>4. RowsInv'
    BY <1>1, LiveRows DEF ScreenInv, RowsInv
  <1>5. TableInv'
    BY <1>1, SourceRows DEF ScreenInv, TableInv
  <1>6. AvatarInv'
    BY <1>1 DEF AvatarInv, row
  <1>7. EndInv'
    BY StillRunning DEF ScreenInv, EndInv, profileScreen
  <1> QED
    BY <1>2, <1>3, <1>4, <1>5, <1>6, <1>7 DEF ScreenInv

(* The .initial notification. *)
LEMMA InitialStep ==
  ASSUME ScreenInv, initial
  PROVE  ScreenInv'
  <1>1. CASE crash("deleted")
    BY <1>1, CrashKeeps DEF Reasons
  <1>2. CASE ~crash("deleted")
    <2>1. /\ alive /\ after_advance /\ drawn' = Drawn(source) /\ stopWhenNotified
          /\ UNCHANGED <<screen, saves, saving, frozen, avatars, filtering, searched, hasSearched,
                         profileScreen, crashed>>
      BY <1>2 DEF initial
    <2>2. source \in Seq(Object)
      BY SourceRows
    <2>3. drawn' \in Seq(Row) /\ Len(drawn') = Len(source)
      BY <2>1, <2>2, DrawnRows
    <2>4. ~hasSearched => \A i \in DOMAIN live : drawn'[i] = row(live[i])
      BY <2>1, <2>2, DrawnRows, SourceRows DEF ScreenInv, TableInv
    <2>5. spinner' \in BOOLEAN
      BY <2>1 DEF stopWhenNotified
    <2> QED
      BY <2>1, <2>3, <2>4, <2>5, DeliveryKeeps
  <1> QED
    BY <1>1, <1>2

(* What an .update notification is about. *)
LEMMA UpdateKinds ==
  ASSUME ScreenInv, callback = "called", behind = 0
  PROVE  /\ seen \in Seq(Object) /\ live \in Seq(Object)
         /\ \/ seen = <<>> /\ changes = [deletions |-> {}, insertions |-> DOMAIN live, modifications |-> {}]
            \/ live = <<>> /\ changes = [deletions |-> DOMAIN seen, insertions |-> {}, modifications |-> {}]
            \/ /\ live = seen
               /\ changes = [deletions |-> {}, insertions |-> {}, modifications |-> changes.modifications]
               /\ \A i \in changes.modifications : i \in DOMAIN live
  <1>1. seen \in Seq(Object) /\ live \in Seq(Object) /\ Describes(changes, seen, live)
    BY LiveRows DEF ScreenInv, RowsInv, ReportInv
  <1>2. seen = <<>> \/ live = <<>> \/ live = seen
    BY DEF ScreenInv, RowsInv
  <1> QED
    BY <1>1, <1>2, ChangeCases

(* Without a search the table has the rows that the batch starts from, and  *)
(* its source those that it leads to.                                       *)
LEMMA BatchFits ==
  ASSUME ScreenInv, callback = "called", behind = 0, ~hasSearched
  PROVE  Fits(changes, Len(drawn), numberOfRowsInSection)
  <1>1. Len(drawn) = Len(seen) /\ numberOfRowsInSection = Len(live)
    BY SourceRows DEF ScreenInv, TableInv
  <1>2. seen \in Seq(Object) /\ live \in Seq(Object) /\ Len(seen) \in Nat /\ Len(live) \in Nat
    BY UpdateKinds, LenProperties
  <1>3. CASE seen = <<>> /\ changes = [deletions |-> {}, insertions |-> DOMAIN live, modifications |-> {}]
    <2>1. Len(seen) + Len(live) = Len(live)
      BY <1>2, <1>3, EmptyLists
    <2> QED
      BY <1>1, <1>2, <1>3, <2>1, InsertionFits
  <1>4. CASE live = <<>> /\ changes = [deletions |-> DOMAIN seen, insertions |-> {}, modifications |-> {}]
    <2>1. Len(seen) = Len(live) + Len(seen)
      BY <1>2, <1>4, EmptyLists
    <2> QED
      BY <1>1, <1>2, <1>4, <2>1, DeletionFits
  <1>5. CASE /\ live = seen
             /\ changes = [deletions |-> {}, insertions |-> {}, modifications |-> changes.modifications]
             /\ \A i \in changes.modifications : i \in DOMAIN live
    <2>1. \A i \in changes.modifications : i <= Len(live)
      BY <1>2, <1>5, EmptyLists
    <2> QED
      BY <1>1, <1>2, <1>5, <2>1, ReloadFits
  <1> QED
    BY <1>3, <1>4, <1>5, UpdateKinds

(* A batch that fits, during a search as well, leaves the table with the    *)
(* rows of its source, and without a search all of them up to date.         *)
LEMMA BatchApplied ==
  ASSUME ScreenInv, callback = "called", behind = 0, hasRun, changes # NoChange,
         Fits(changes, Len(drawn), numberOfRowsInSection),
         NEW after, after = Applied(changes, drawn, Drawn(source))
  PROVE  /\ after \in Seq(Row) /\ Len(after) = Len(source)
         /\ ~hasSearched => \A i \in DOMAIN live : after[i] = row(live[i])
  <1>1. /\ drawn \in Seq(Row) /\ Len(drawn) \in Nat
        /\ source \in Seq(Object) /\ Len(source) \in Nat /\ numberOfRowsInSection = Len(source)
        /\ ~filtering => source = live
        /\ filtering => Len(drawn) = Len(source)
        /\ ~hasSearched => ~filtering
    BY SourceRows, LenProperties DEF ScreenInv, TableInv
  <1>2. /\ Drawn(source) \in Seq(Row) /\ Len(Drawn(source)) = Len(source)
        /\ DOMAIN Drawn(source) = DOMAIN source
        /\ \A i \in DOMAIN source : Drawn(source)[i] = row(source[i])
    BY <1>1, DrawnRows
  <1>3. seen \in Seq(Object) /\ live \in Seq(Object) /\ Len(seen) \in Nat /\ Len(live) \in Nat
    BY UpdateKinds, LenProperties
  <1>4. CASE seen = <<>> /\ changes = [deletions |-> {}, insertions |-> DOMAIN live, modifications |-> {}]
    <2>1. Len(drawn) + Len(live) = Len(source)
      BY <1>1, <1>3, <1>4, InsertionFits
    <2>2. ~filtering
      <3> SUFFICES ASSUME filtering PROVE FALSE
        OBVIOUS
      <3>1. DOMAIN live = {}
        BY <1>1, <1>3, <2>1, EmptyLists
      <3> QED
        BY <1>4, <3>1 DEF NoChange
    <2>3. changes = [deletions |-> {}, insertions |-> DOMAIN Drawn(source), modifications |-> {}]
      BY <1>1, <1>2, <1>4, <2>2
    <2>4. after = Drawn(source)
      BY <1>2, <2>3, InsertionApplied
    <2> QED
      BY <1>1, <1>2, <2>2, <2>4
  <1>5. CASE live = <<>> /\ changes = [deletions |-> DOMAIN seen, insertions |-> {}, modifications |-> {}]
    <2>1. Len(drawn) = Len(source) + Len(seen)
      BY <1>1, <1>3, <1>5, DeletionFits
    <2>2. ~filtering
      <3> SUFFICES ASSUME filtering PROVE FALSE
        OBVIOUS
      <3>1. DOMAIN seen = {}
        BY <1>1, <1>3, <2>1, EmptyLists
      <3> QED
        BY <1>5, <3>1 DEF NoChange
    <2>3. Drawn(source) = <<>>
      BY <1>1, <1>2, <1>5, <2>2, EmptyLists
    <2>4. after = <<>>
      BY <2>3, DeletionApplied
    <2>5. DOMAIN live = {}
      BY <1>3, <1>5, EmptyLists
    <2> QED
      BY <1>1, <1>2, <2>3, <2>4, <2>5
  <1>6. CASE /\ live = seen
             /\ changes = [deletions |-> {}, insertions |-> {}, modifications |-> changes.modifications]
             /\ \A i \in changes.modifications : i \in DOMAIN live
    <2> DEFINE M == changes.modifications
    <2>1. Len(drawn) = Len(source) /\ \A i \in M : i <= Len(source)
      BY <1>1, <1>6, ReloadFits
    <2>2. M \subseteq 1 .. Len(source)
      BY <1>1, <1>3, <1>6, <2>1, EmptyLists
    <2>3. /\ after \in Seq(Row) /\ Len(after) = Len(source)
          /\ \A j \in DOMAIN Drawn(source) :
               after[j] = IF j \in M THEN Drawn(source)[j] ELSE drawn[j]
      <3> DEFINE fresh == Drawn(source)
      <3>1. /\ drawn \in Seq(Row) /\ fresh \in Seq(Row) /\ Len(drawn) = Len(fresh)
            /\ M \subseteq 1 .. Len(fresh) /\ Len(fresh) = Len(source)
        BY <1>1, <1>2, <2>1, <2>2
      <3>2. after = Applied(changes, drawn, fresh) /\ changes.insertions = {} /\ changes.deletions = {}
        BY <1>6
      <3> HIDE DEF fresh
      <3>3. /\ after \in Seq(Row) /\ Len(after) = Len(fresh)
            /\ \A j \in DOMAIN fresh : after[j] = IF j \in M THEN fresh[j] ELSE drawn[j]
        BY <3>1, <3>2, ReloadApplied
      <3> QED
        BY <3>1, <3>3 DEF fresh
    <2>6. ASSUME ~hasSearched, NEW j \in DOMAIN live PROVE after[j] = row(live[j])
      <3>1. source = live /\ Drawn(source)[j] = row(live[j]) /\ j \in DOMAIN Drawn(source)
        BY <1>1, <1>2, <2>6
      <3>2. CASE j \in M
        BY <2>3, <3>1, <3>2
      <3>3. CASE j \notin M
        <4>1. ~worker.busy
          BY DEF ScreenInv, WorkerInv
        <4>2. ~pending(j)
          BY <3>3, <4>1 DEF pending
        <4>3. drawn[j] = row(live[j])
          BY <1>6, <2>6, <4>2 DEF ScreenInv, AvatarInv
        <4> QED
          BY <2>3, <3>1, <3>3, <4>3
      <3> QED
        BY <3>2, <3>3
    <2> QED
      BY <2>3, <2>6
  <1> QED
    BY <1>4, <1>5, <1>6, UpdateKinds

(* The .update notification. *)
LEMMA UpdateStep ==
  ASSUME ScreenInv, update
  PROVE  ScreenInv'
  <1>1. alive /\ callback = "called" /\ hasRun /\ behind = 0 /\ changes # NoChange
    BY DEF update, package_for_delivery
  <1>2. CASE crash("batch") /\ ~Fits(changes, Len(drawn), numberOfRowsInSection)
    <2>1. hasSearched
      BY <1>1, <1>2, BatchFits
    <2> QED
      BY <1>2, <2>1, CrashKeeps DEF Reasons
  <1>3. CASE crash("deleted")
    BY <1>3, CrashKeeps DEF Reasons
  <1>4. CASE /\ Fits(changes, Len(drawn), numberOfRowsInSection)
             /\ after_advance
             /\ drawn' = Applied(changes, drawn, Drawn(source))
             /\ stopWhenNotified
             /\ UNCHANGED <<screen, saves, saving, frozen, avatars, filtering, searched,
                            hasSearched, profileScreen, crashed>>
    <2>1. /\ drawn' \in Seq(Row) /\ Len(drawn') = Len(source)
          /\ ~hasSearched => \A i \in DOMAIN live : drawn'[i] = row(live[i])
      BY <1>1, <1>4, BatchApplied
    <2>2. spinner' \in BOOLEAN
      BY <1>4 DEF stopWhenNotified
    <2> QED
      BY <1>1, <1>4, <2>1, <2>2, DeliveryKeeps
  <1> QED
    BY <1>2, <1>3, <1>4 DEF update, batch

-----------------------------------------------------------------------------
(* The steps of the user leave Realm and the notifier alone. *)
LEMMA RealmKept ==
  ASSUME ScreenInv, UNCHANGED <<realm, notifier>>
  PROVE  WorkerInv' /\ ReportInv' /\ RowsInv'
  <1>1. UNCHANGED <<results, notifier>>
    BY DEF realm
  <1>2. WorkerInv' /\ ReportInv'
    BY <1>1, NotifierKept DEF ScreenInv
  <1>3. RowsInv'
    BY DEF ScreenInv, RowsInv, realm, results, notifier
  <1> QED
    BY <1>2, <1>3

(* The objects that a search finds are a list. *)
LEMMA FilteredRows ==
  ASSUME ScreenInv, NEW l \in filtered
  PROVE  l \in Seq(Object) /\ Range(l) \subseteq {o \in Object : o.id \in Matching}
  <1> DEFINE S == {o \in Range(live) : o.id \in Matching}
  <1>1. live \in Seq(Object) /\ Len(live) \in Nat /\ DOMAIN live = 1 .. Len(live)
    BY LiveRows, EmptyLists DEF ScreenInv
  <1>2. \A i \in DOMAIN live : live[i] \in Object
    BY <1>1, ElementOfSeq
  <1>3. IsFiniteSet(S)
    <2>1. IsFiniteSet(DOMAIN live)
      BY <1>1, FS_Interval
    <2>2. live \in Surjection(DOMAIN live, Range(live))
      BY <1>1, <1>2 DEF Surjection, Range
    <2>3. IsFiniteSet(Range(live))
      BY <2>1, <2>2, FS_Surjection
    <2> QED
      BY <2>3, FS_Subset
  <1>4. S \subseteq {o \in Object : o.id \in Matching}
    BY <1>2 DEF Range
  <1>5. l \in SetToSeqs(S)
    BY DEF filtered
  <1> HIDE DEF S
  <1>6. l \in Seq(S) /\ DOMAIN l = 1 .. Len(l)
    BY <1>3, <1>5, Enumerations
  <1>7. \A i \in DOMAIN l : l[i] \in S
    BY <1>6, ElementOfSeq
  <1>8. l \in [1 .. Len(l) -> Object] /\ Len(l) \in Nat
    BY <1>4, <1>6, <1>7, LenProperties
  <1>9. l \in Seq(Object)
    BY <1>8, ListOf
  <1> QED
    BY <1>4, <1>7, <1>9 DEF Range

(* A search begins, or its text changes. *)
LEMMA SearchKeeps ==
  ASSUME ScreenInv, filterContentForSearchText
  PROVE  ScreenInv'
  <1>1. /\ alive /\ filtering' = TRUE /\ searched' \in filtered /\ drawn' = Drawn(searched')
        /\ hasSearched' = TRUE
        /\ UNCHANGED <<screen, realm, notifier, spinner, profileScreen, crashed>>
    BY DEF filterContentForSearchText, onTop, mainFree
  <1>2. /\ searched' \in Seq(Object)
        /\ Range(searched') \subseteq {o \in Object : o.id \in Matching}
    BY <1>1, FilteredRows
  <1>3. drawn' \in Seq(Row) /\ Len(drawn') = Len(searched')
    BY <1>1, <1>2, DrawnRows
  <1>4. WorkerInv' /\ ReportInv' /\ RowsInv'
    BY <1>1, RealmKept
  <1>5. TypeOK'
    BY <1>1, <1>2, <1>3, RowRange DEF ScreenInv, TypeOK, realm, results, profileScreen
  <1>6. TableInv' /\ AvatarInv'
    BY <1>1, <1>2, <1>3 DEF TableInv, AvatarInv
  <1>7. EndInv'
    BY <1>1, StillRunning DEF ScreenInv, EndInv, profileScreen
  <1> QED
    BY <1>4, <1>5, <1>6, <1>7 DEF ScreenInv

(* No text: the table has the rows of the results. *)
LEMMA EmptyTextKeeps ==
  ASSUME ScreenInv, emptySearchText
  PROVE  ScreenInv'
  <1>1. /\ alive /\ filtering' = FALSE /\ searched' = <<>> /\ drawn' = Drawn(live)
        /\ UNCHANGED <<screen, realm, notifier, spinner, profileScreen, crashed>>
    BY DEF emptySearchText, onTop, mainFree
  <1>2. hasSearched' = TRUE
    BY DEF emptySearchText
  <1>3. drawn' \in Seq(Row) /\ Len(drawn') = Len(live) /\ live' = live
    BY <1>1, LiveRows, DrawnRows DEF ScreenInv, realm, results
  <1>4. WorkerInv' /\ ReportInv' /\ RowsInv'
    BY <1>1, RealmKept
  <1>5. Range(<<>>) = {} /\ <<>> \in Seq(Object)
    BY DEF Range
  <1>6. TypeOK'
    <2>1. filtering' \in BOOLEAN /\ Range(drawn') \subseteq Row
      BY <1>1, <1>3, RowRange
    <2>2. Range(searched') \subseteq {o \in Object : o.id \in Matching}
      BY <1>1, <1>5
    <2> QED
      BY <1>1, <1>2, <2>1, <2>2 DEF ScreenInv, TypeOK, realm, results, profileScreen
  <1>7. TableInv' /\ AvatarInv'
    BY <1>1, <1>2, <1>3, <1>5 DEF TableInv, AvatarInv
  <1>8. EndInv'
    BY <1>1, StillRunning DEF ScreenInv, EndInv, profileScreen
  <1> QED
    BY <1>4, <1>6, <1>7, <1>8 DEF ScreenInv

(* A row that the list does not have is touched: the rows were replaced     *)
(* before the observer was first called.                                    *)
LEMMA OutOfRange ==
  ASSUME ScreenInv, mainFree, NEW i \in DOMAIN drawn, i > Len(source)
  PROVE  callback # "called" /\ saves > 0
  <1>1. /\ Len(source) \in Nat /\ Len(drawn) \in Nat /\ i \in 1 .. Len(drawn)
        /\ filtering => source = searched
        /\ ~filtering => source = live
    BY SourceRows, EmptyLists DEF ScreenInv, TableInv
  <1>2. Len(drawn) # Len(source)
    BY <1>1
  <1>3. ~filtering /\ source = live
    BY <1>1, <1>2 DEF ScreenInv, TableInv
  <1>4. saves > 0
    BY <1>2, <1>3 DEF ScreenInv, TableInv, TypeOK
  <1>5. ASSUME callback = "called" PROVE FALSE
    <2>1. Len(drawn) = Len(seen)
      BY <1>2, <1>3, <1>5 DEF ScreenInv, TableInv
    <2>2. seen = <<>>
      BY <1>2, <1>3, <1>5, <2>1 DEF ScreenInv, RowsInv, mainFree
    <2>3. Len(drawn) = 0
      BY <2>1, <2>2
    <2> QED
      BY <1>1, <2>3
  <1> QED
    BY <1>4, <1>5

(* A row scrolls into view. *)
LEMMA ScrollKeeps ==
  ASSUME ScreenInv, NEW i \in DOMAIN drawn, scroll(i)
  PROVE  ScreenInv'
  <1>1. mainFree /\ alive
    BY DEF scroll, onTop, mainFree
  <1>2. CASE i > Len(source) /\ crash("range")
    BY <1>1, <1>2, OutOfRange, CrashKeeps DEF Reasons
  <1>3. CASE crash("deleted")
    BY <1>3, CrashKeeps DEF Reasons
  <1>4. CASE /\ i <= Len(source)
             /\ drawn' = [drawn EXCEPT ![i] = row(rowObject(i))]
             /\ UNCHANGED <<screen, realm, notifier, filtering, searched, spinner, hasSearched,
                            profileScreen, crashed>>
    <2>1. drawn \in Seq(Row) /\ DOMAIN drawn = 1 .. Len(drawn) /\ Len(drawn) \in Nat
      BY EmptyLists DEF ScreenInv, TableInv
    <2>2. i \in DOMAIN source
      BY <1>4, <2>1, SourceRows
    <2>3. row(rowObject(i)) \in Row
      <3>1. source[i] \in Object
        BY <2>2, SourceRows, ElementOfSeq
      <3> QED
        BY <3>1 DEF row, rowObject, Row
    <2>4. drawn' \in Seq(Row) /\ Len(drawn') = Len(drawn)
      BY <1>4, <2>1, <2>3, ExceptSeq
    <2>5. WorkerInv' /\ ReportInv' /\ RowsInv'
      BY <1>4, RealmKept
    <2>6. TypeOK'
      <3>1. Range(drawn') \subseteq Row
        BY <2>4, RowRange
      <3>2. UNCHANGED <<screen, realm, filtering, searched, spinner, hasSearched, profileScreen, crashed>>
        BY <1>4
      <3> QED
        BY <3>1, <3>2 DEF ScreenInv, TypeOK, realm, results, profileScreen
    <2>7. TableInv'
      BY <1>4, <2>4 DEF ScreenInv, TableInv, realm, results, notifier
    <2>8. AvatarInv'
      <3> SUFFICES ASSUME ~hasSearched, callback = "called", live = seen, NEW j \in DOMAIN live
                   PROVE  drawn'[j] = row(live[j])' \/ pending(j)'
        BY <1>4 DEF AvatarInv, realm, results, notifier
      <3>1. row(live[j])' = row(live[j]) /\ (pending(j)' <=> pending(j))
        BY <1>4 DEF row, pending, realm, results, notifier
      <3>2. drawn[j] = row(live[j]) \/ pending(j)
        BY DEF ScreenInv, AvatarInv
      <3>3. source = live
        BY SourceRows DEF ScreenInv, TableInv
      <3>4. CASE j = i
        BY <1>4, <3>1, <3>3, <3>4 DEF rowObject
      <3>5. CASE j # i
        <4>1. drawn'[j] = drawn[j] \/ j \notin DOMAIN drawn
          BY <1>4, <3>5
        <4>2. DOMAIN live = DOMAIN drawn
          <5>1. Len(drawn) = Len(live)
            BY DEF ScreenInv, TableInv
          <5>2. live \in Seq(Object)
            BY LiveRows DEF ScreenInv
          <5> QED
            BY <2>1, <5>1, <5>2, EmptyLists
        <4> QED
          BY <3>1, <3>2, <4>1, <4>2
      <3> QED
        BY <3>4, <3>5
    <2>9. EndInv'
      BY <1>1, <1>4, StillRunning DEF ScreenInv, EndInv, profileScreen
    <2> QED
      BY <2>5, <2>6, <2>7, <2>8, <2>9 DEF ScreenInv
  <1> QED
    BY <1>2, <1>3, <1>4 DEF scroll

(* A row is tapped. *)
LEMMA PrepareKeeps ==
  ASSUME ScreenInv, NEW i \in DOMAIN drawn, prepare(i)
  PROVE  ScreenInv'
  <1>1. mainFree /\ alive
    BY DEF prepare, onTop, mainFree
  <1>2. CASE i > Len(source) /\ crash("range")
    BY <1>1, <1>2, OutOfRange, CrashKeeps DEF Reasons
  <1>3. CASE crash("deleted")
    BY <1>3, CrashKeeps DEF Reasons
  <1>4. CASE /\ i <= Len(source)
             /\ profileViewDidLoad(rowObject(i))
             /\ UNCHANGED <<screen, realm, notifier, table, crashed>>
    <2>1. DOMAIN drawn = 1 .. Len(drawn) /\ Len(drawn) \in Nat
      BY EmptyLists DEF ScreenInv, TableInv
    <2>2. i \in DOMAIN source
      BY <1>4, <2>1, SourceRows
    <2>3. rowObject(i) \in Object
      BY <2>2, SourceRows, ElementOfSeq DEF rowObject
    <2>4. profile' \in Object /\ profile' # None /\ UNCHANGED <<stray, hasFailed>>
      BY <1>4, <2>3, NoneAssumption DEF profileViewDidLoad
    <2>5. PICK wait \in BOOLEAN : /\ photo' = IF wait THEN "waiting" ELSE "none"
                                 /\ profileSpinner' = wait
      BY <1>4 DEF profileViewDidLoad
    <2>6. photo' \in {"none", "waiting", "shown", "failed"} /\ profileSpinner' \in BOOLEAN
      BY <2>5
    <2>7. WorkerInv' /\ ReportInv' /\ RowsInv' /\ TableInv' /\ AvatarInv'
      BY <1>4, TableKept
    <2>8. TypeOK'
      BY <1>4, <2>4, <2>6 DEF ScreenInv, TypeOK, realm, results, table
    <2>9. EndInv'
      BY <1>1, <1>4, <2>4, StillRunning
    <2> QED
      BY <2>7, <2>8, <2>9 DEF ScreenInv
  <1> QED
    BY <1>2, <1>3, <1>4 DEF prepare

(* The photo of the profile comes, or fails; or the profile is left. *)
LEMMA ProfileKeeps ==
  ASSUME ScreenInv, downloadProfilePhoto \/ profileReads \/ back
  PROVE  ScreenInv'
  <1>1. CASE crash("deleted")
    BY <1>1, CrashKeeps DEF Reasons
  <1>2. CASE ~crash("deleted")
    <2>1. alive /\ UNCHANGED <<screen, realm, notifier, table, crashed>>
      BY <1>2 DEF downloadProfilePhoto, profileReads, back, mainFree
    <2>2. profile' \in {profile, None} /\ photo' \in {"none", "shown", "failed"}
      BY <1>2 DEF downloadProfilePhoto, profileReads, back
    <2>3. profileSpinner' \in BOOLEAN /\ stray' \in BOOLEAN /\ hasFailed' \in BOOLEAN
      <3>1. profileSpinner \in BOOLEAN /\ stray \in BOOLEAN /\ hasFailed \in BOOLEAN
        BY DEF ScreenInv, TypeOK
      <3>2. CASE back
        BY <3>1, <3>2 DEF back
      <3>3. CASE downloadProfilePhoto
        BY <1>2, <3>1, <3>3 DEF downloadProfilePhoto
      <3> QED
        BY <1>2, <3>2, <3>3 DEF profileReads
    <2>4. WorkerInv' /\ ReportInv' /\ RowsInv' /\ TableInv' /\ AvatarInv'
      BY <2>1, TableKept
    <2>5. TypeOK'
      <3>1. profile' \in Object \cup {None} /\ photo' \in {"none", "waiting", "shown", "failed"}
        BY <2>2 DEF ScreenInv, TypeOK
      <3> QED
        BY <2>1, <2>3, <3>1 DEF ScreenInv, TypeOK, realm, results, table
    <2>6. EndInv'
      BY <2>1, <2>2, StillRunning
    <2> QED
      BY <2>4, <2>5, <2>6 DEF ScreenInv
  <1> QED
    BY <1>1, <1>2

(* Every step of the screens keeps the invariant. *)
LEMMA ScreenKeeps == ScreenInv /\ [Next]_vars => ScreenInv'
  <1> SUFFICES ASSUME ScreenInv, [Next]_vars PROVE ScreenInv'
    OBVIOUS
  <1>1. CASE UNCHANGED vars
    <2>1. WorkerInv' /\ ReportInv' /\ RowsInv' /\ TableInv' /\ AvatarInv'
      BY <1>1, TableKept DEF vars
    <2>2. TypeOK'
      BY <1>1 DEF ScreenInv, TypeOK, vars, realm, results, table, profileScreen
    <2>3. EndInv'
      BY <1>1 DEF ScreenInv, EndInv, BatchesFitWithoutSearch, RangeNeedsEarlySaving, vars, realm,
         notifier, table, profileScreen
    <2> QED
      BY <2>1, <2>2, <2>3 DEF ScreenInv
  <1>2. CASE deleteAll \/ AvatarsRun \/ observe \/ notifierWorks \/ initial \/ update
    BY <1>2, DeleteStep, FreezeStep, ObserveStep, WorkerStep, InitialStep, UpdateStep
  <1>3. CASE \E list \in Lists(saves) : saveGot(list)
    BY <1>3, SaveStep
  <1>4. CASE \E i \in DOMAIN live : saveAvatar(i)
    BY <1>4, AvatarStep
  <1>5. CASE filterContentForSearchText \/ emptySearchText
    BY <1>5, SearchKeeps, EmptyTextKeeps
  <1>6. CASE \E i \in DOMAIN drawn : scroll(i) \/ prepare(i)
    BY <1>6, ScrollKeeps, PrepareKeeps
  <1>7. CASE downloadProfilePhoto \/ profileReads \/ back
    BY <1>7, ProfileKeeps
  <1> QED
    BY <1>1, <1>2, <1>3, <1>4, <1>5, <1>6, <1>7 DEF Next

(* The rows, the table and the notifications go together, for any objects   *)
(* and any number of savings: the inductive invariant behind the theorems   *)
(* below.                                                                   *)
THEOREM ScreenInvariance == Spec => []ScreenInv
  BY InitScreen, ScreenKeeps, PTL DEF Spec

-----------------------------------------------------------------------------
(* Both screens keep to their types: what is in Realm is always a list of   *)
(* objects of the last saving, and only these have avatars.                 *)
THEOREM TypeCorrect == Spec => []TypeOK
  <1>1. ScreenInv => TypeOK
    BY DEF ScreenInv
  <1> QED
    BY <1>1, ScreenInvariance, PTL

(* The observers of FriendsTableViewController and GroupsTableViewController *)
(* apply only batches that fit, as long as nobody has searched.             *)
THEOREM BatchesFit == Spec => []BatchesFitWithoutSearch
  <1>1. ScreenInv => BatchesFitWithoutSearch
    BY DEF ScreenInv, EndInv
  <1> QED
    BY <1>1, ScreenInvariance, PTL

(* cellForRowAt and prepare(for:) index the results out of range only if a  *)
(* saving was made before the observer was first called.                    *)
THEOREM RangeNeeds == Spec => []RangeNeedsEarlySaving
  <1>1. ScreenInv => RangeNeedsEarlySaving
    BY DEF ScreenInv, EndInv
  <1> QED
    BY <1>1, ScreenInvariance, PTL

(* Every avatar that was stored is drawn once its notification is           *)
(* delivered, as long as nobody has searched.                               *)
THEOREM AvatarsDrawn == Spec => []AvatarsAreDrawn
  <1>1. ScreenInv => AvatarsAreDrawn
    <2> SUFFICES ASSUME ScreenInv, callback = "called", promote_to_write, ~hasSearched
                 PROVE  drawn = Drawn(live)
      BY DEF AvatarsAreDrawn
    <2>1. \A i \in DOMAIN live : drawn[i] = row(live[i])
      BY RowsUpToDate
    <2>2. seen = live
      BY WriteBegins
    <2>3. drawn \in Seq(Row) /\ Len(drawn) = Len(live)
      BY <2>2 DEF ScreenInv, TableInv
    <2>4. live \in Seq(Object) /\ DOMAIN live = 1 .. Len(live)
      BY LiveRows, EmptyLists DEF ScreenInv
    <2>5. /\ Drawn(live) \in Seq(Row) /\ Len(Drawn(live)) = Len(live)
          /\ \A i \in DOMAIN live : Drawn(live)[i] = row(live[i])
      BY <2>4, DrawnRows
    <2> QED
      BY <2>1, <2>3, <2>4, <2>5, SeqEqual
  <1> QED
    BY <1>1, ScreenInvariance, PTL

(* A list without all of its rows is empty. *)
LEMMA WithoutAll ==
  ASSUME NEW l \in Seq(Object)
  PROVE  Without(l, DOMAIN l) = <<>>
  <1>1. DOMAIN l \ DOMAIN l = {}
    OBVIOUS
  <1>2. Cardinality({}) = 0 /\ 1 .. 0 = {}
    BY FS_EmptySet
  <1>3. DOMAIN Without(l, DOMAIN l) = {}
    BY <1>1, <1>2 DEF Without
  <1>4. Without(l, DOMAIN l) \in [1 .. 0 -> Object]
    BY <1>1, <1>2 DEF Without
  <1>5. Without(l, DOMAIN l) \in Seq(Object)
    BY <1>4, ListOf
  <1> QED
    BY <1>3, <1>5, EmptyLists

(* The index sets of every .update notification lead from the rows that the *)
(* observer knew to the rows that are in Realm when it is called.           *)
THEOREM ChangesLead == Spec => []ChangeLeadsToLive
  <1>1. ScreenInv => ChangeLeadsToLive
    <2> SUFFICES ASSUME ScreenInv, callback = "called", hasRun, behind = 0
                 PROVE  /\ Without(seen, changes.deletions) = Without(live, changes.insertions)
                        /\ \A i \in changes.insertions : i \in DOMAIN live
                        /\ \A i \in changes.deletions \cup changes.modifications : i \in DOMAIN seen
      BY DEF ChangeLeadsToLive, package_for_delivery
    <2>1. seen \in Seq(Object) /\ live \in Seq(Object)
      BY UpdateKinds
    <2>2. DOMAIN <<>> = {}
      OBVIOUS
    <2>3. CASE seen = <<>> /\ changes = [deletions |-> {}, insertions |-> DOMAIN live, modifications |-> {}]
      <3>1. /\ changes.deletions = DOMAIN seen /\ changes.insertions = DOMAIN live
            /\ changes.modifications = {}
        BY <2>2, <2>3
      <3>2. Without(seen, DOMAIN seen) = <<>> /\ Without(live, DOMAIN live) = <<>>
        BY <2>1, WithoutAll
      <3> QED
        BY <3>1, <3>2
    <2>4. CASE live = <<>> /\ changes = [deletions |-> DOMAIN seen, insertions |-> {}, modifications |-> {}]
      <3>1. /\ changes.deletions = DOMAIN seen /\ changes.insertions = DOMAIN live
            /\ changes.modifications = {}
        BY <2>2, <2>4
      <3>2. Without(seen, DOMAIN seen) = <<>> /\ Without(live, DOMAIN live) = <<>>
        BY <2>1, WithoutAll
      <3> QED
        BY <3>1, <3>2
    <2>5. CASE /\ live = seen
               /\ changes = [deletions |-> {}, insertions |-> {}, modifications |-> changes.modifications]
               /\ \A i \in changes.modifications : i \in DOMAIN live
      <3>1. changes.deletions = {} /\ changes.insertions = {}
        BY <2>5
      <3> QED
        BY <2>5, <3>1
    <2> QED
      BY <2>3, <2>4, <2>5, UpdateKinds
  <1> QED
    BY <1>1, ScreenInvariance, PTL

-----------------------------------------------------------------------------
(* Steps that end the process or replace the rows are not possible from a   *)
(* quiet state; the others keep it quiet.                                   *)

(* The table shows these rows of the results. *)
LEMMA QuietRows ==
  ASSUME ScreenInv, Quiet
  PROVE  /\ source = live /\ numberOfRowsInSection = Len(live) /\ Len(live) \in Nat
         /\ live \in Seq(Object) /\ DOMAIN live = 1 .. Len(live)
         /\ drawn \in Seq(Row) /\ DOMAIN drawn = DOMAIN live
         /\ \A i \in DOMAIN live : ~deleted(live[i])
  <1>1. source = live /\ numberOfRowsInSection = Len(live) /\ Len(live) \in Nat
    BY SourceRows DEF Quiet
  <1>2. live \in Seq(Object) /\ \A i \in DOMAIN live : ~deleted(live[i])
    BY LiveRows DEF ScreenInv
  <1>3. drawn \in Seq(Row) /\ Len(drawn) = Len(live)
    BY DEF ScreenInv, TableInv, Quiet
  <1>4. DOMAIN live = 1 .. Len(live) /\ DOMAIN drawn = 1 .. Len(drawn)
    BY <1>2, <1>3, EmptyLists
  <1> QED
    BY <1>1, <1>2, <1>3, <1>4

(* Nothing that Quiet speaks of changes, but for the rows as they are drawn. *)
LEMMA QuietKept ==
  ASSUME Quiet, Len(drawn') = Len(live),
         \A i \in DOMAIN live : drawn'[i].object = live[i],
         profile' # None => ~deleted(profile'),
         frozen' \in {TRUE, frozen}, callback' = "called", seen' = live, live' = live,
         UNCHANGED <<crashed, saving, saves, filtering>>
  PROVE  Quiet'
  BY DEF Quiet, alive, lastSaving, deleted

(* An .update notification reloads rows, and fits. *)
LEMMA QuietUpdate ==
  ASSUME ScreenInv, Quiet, update
  PROVE  Quiet'
  <1> DEFINE M == changes.modifications
             fresh == Drawn(source)
  <1>1. callback = "called" /\ behind = 0 /\ changes # NoChange /\ seen = live
    BY DEF update, package_for_delivery, Quiet
  <1>2. /\ changes = [deletions |-> {}, insertions |-> {}, modifications |-> M]
        /\ \A i \in M : i \in DOMAIN live
    <2>1. DOMAIN <<>> = {}
      OBVIOUS
    <2>2. CASE live = <<>>
      <3>1. changes = NoChange
        <4>1. CASE changes = [deletions |-> {}, insertions |-> DOMAIN live, modifications |-> {}]
          BY <2>1, <2>2, <4>1 DEF NoChange
        <4>2. CASE changes = [deletions |-> DOMAIN seen, insertions |-> {}, modifications |-> {}]
          BY <1>1, <2>1, <2>2, <4>2 DEF NoChange
        <4>3. CASE /\ changes = [deletions |-> {}, insertions |-> {}, modifications |-> M]
                   /\ \A i \in M : i \in DOMAIN live
          <5>1. M = {}
            BY <2>1, <2>2, <4>3
          <5> QED
            BY <4>3, <5>1 DEF NoChange
        <4> QED
          BY <1>1, <4>1, <4>2, <4>3, UpdateKinds
      <3> QED
        BY <1>1, <3>1
    <2> QED
      BY <1>1, <2>2, UpdateKinds
  <1>3. /\ source = live /\ numberOfRowsInSection = Len(live) /\ Len(live) \in Nat
        /\ live \in Seq(Object) /\ DOMAIN live = 1 .. Len(live) /\ drawn \in Seq(Row)
        /\ \A i \in DOMAIN live : ~deleted(live[i])
    BY QuietRows
  <1>4. Len(drawn) = Len(live) /\ \A i \in DOMAIN live : drawn[i].object = live[i]
    BY DEF Quiet
  <1>5. Fits(changes, Len(drawn), numberOfRowsInSection)
    <2>1. \A i \in M : i <= Len(live)
      BY <1>2, <1>3
    <2> QED
      BY <1>2, <1>3, <1>4, <2>1, ReloadFits
  <1>6. /\ fresh \in Seq(Row) /\ Len(fresh) = Len(live) /\ DOMAIN fresh = DOMAIN live
        /\ \A i \in DOMAIN live : fresh[i] = row(live[i])
    BY <1>3, DrawnRows
  <1>7. Redrawn(changes, Len(live)) \subseteq DOMAIN live
    <2>1. changes.insertions = {} /\ changes.deletions = {}
      BY <1>2
    <2>2. \A i \in DOMAIN live : Moved(changes, Len(live), i) = i
      BY <1>3, <2>1, ReloadStays
    <2> QED
      BY <1>2, <2>1, <2>2 DEF Redrawn
  <1>8. ~readsDeleted(Redrawn(changes, numberOfRowsInSection))
    BY <1>3, <1>7 DEF readsDeleted
  <1>9. /\ after_advance /\ drawn' = Applied(changes, drawn, fresh)
        /\ UNCHANGED <<screen, saves, saving, frozen, avatars, filtering, searched, hasSearched,
                       profileScreen, crashed>>
    BY <1>5, <1>8 DEF update, batch
  <1>10. /\ Len(drawn') = Len(live)
         /\ \A j \in DOMAIN live : drawn'[j] = IF j \in M THEN fresh[j] ELSE drawn[j]
    <2>1. changes.insertions = {} /\ changes.deletions = {} /\ M \subseteq 1 .. Len(fresh)
      BY <1>2, <1>3, <1>6
    <2>2. drawn' = Applied(changes, drawn, fresh) /\ Len(drawn) = Len(fresh)
      BY <1>4, <1>6, <1>9
    <2> HIDE DEF fresh
    <2> QED
      BY <1>3, <1>6, <2>1, <2>2, ReloadApplied
  <1>11. \A j \in DOMAIN live : drawn'[j].object = live[j]
    <2>1. \A j \in DOMAIN live : fresh[j].object = live[j]
      BY <1>6 DEF row
    <2> HIDE DEF fresh
    <2> QED
      BY <1>4, <1>10, <2>1
  <1>12. callback' = "called" /\ seen' = live /\ live' = live
    BY <1>9 DEF after_advance, results
  <1>13. profile' # None => ~deleted(profile')
    BY <1>9 DEF Quiet, profileScreen
  <1> QED
    BY <1>9, <1>10, <1>11, <1>12, <1>13, QuietKept

(* A row that scrolls into view is in range. *)
LEMMA QuietScroll ==
  ASSUME ScreenInv, Quiet, NEW i \in DOMAIN drawn, scroll(i)
  PROVE  Quiet'
  <1>1. source = live /\ i \in DOMAIN live /\ i <= Len(source) /\ ~deleted(rowObject(i))
    BY QuietRows DEF rowObject
  <1>2. /\ drawn' = [drawn EXCEPT ![i] = row(live[i])]
        /\ UNCHANGED <<screen, realm, notifier, filtering, searched, spinner, hasSearched,
                       profileScreen, crashed>>
    <2>1. ~(i > Len(source))
      BY <1>1, QuietRows
    <2> QED
      BY <1>1, <2>1 DEF scroll, rowObject
  <1>3. row(live[i]) \in Row /\ row(live[i]).object = live[i]
    <2>1. live[i] \in Object
      BY <1>1, QuietRows, ElementOfSeq
    <2> QED
      BY <2>1 DEF row, Row
  <1>4. /\ Len(drawn') = Len(live)
        /\ \A j \in DOMAIN live : drawn'[j] = IF j = i THEN row(live[i]) ELSE drawn[j]
    <2>1. drawn \in Seq(Row) /\ Len(drawn) = Len(live) /\ DOMAIN live = 1 .. Len(drawn) /\ i \in 1 .. Len(drawn)
      BY <1>1, QuietRows DEF Quiet
    <2> QED
      BY <1>2, <1>3, <2>1, ExceptSeq
  <1>5. \A j \in DOMAIN live : drawn'[j].object = live[j]
    BY <1>3, <1>4 DEF Quiet
  <1>6. callback' = "called" /\ seen' = live /\ live' = live /\ UNCHANGED <<frozen, saving, saves>>
    BY <1>2 DEF Quiet, realm, results, notifier
  <1>7. profile' # None => ~deleted(profile')
    BY <1>2 DEF Quiet, profileScreen
  <1> QED
    BY <1>2, <1>4, <1>5, <1>6, <1>7, QuietKept

(* A row that is tapped is in range, and its object is there. *)
LEMMA QuietPrepare ==
  ASSUME ScreenInv, Quiet, NEW i \in DOMAIN drawn, prepare(i)
  PROVE  Quiet'
  <1>1. source = live /\ i \in DOMAIN live /\ i <= Len(source) /\ ~deleted(rowObject(i))
    BY QuietRows DEF rowObject
  <1>2. ~(i > Len(source))
    BY <1>1, QuietRows
  <1>3. profile' = rowObject(i) /\ UNCHANGED <<screen, realm, notifier, table, crashed>>
    BY <1>1, <1>2 DEF prepare, profileViewDidLoad
  <1>4. profile' # None => ~deleted(profile')
    BY <1>1, <1>3
  <1> QED
    BY <1>3, <1>4, QuietKept DEF Quiet, realm, results, notifier, table

(* The profile on top is that of an object that is there. *)
LEMMA QuietProfile ==
  ASSUME ScreenInv, Quiet, downloadProfilePhoto \/ profileReads \/ back
  PROVE  Quiet'
  <1>1. photo = "waiting" => profile # None
    BY DEF ScreenInv, EndInv
  <1>2. ~profileReads
    BY DEF Quiet, profileReads
  <1>3. profile' \in {profile, None} /\ UNCHANGED <<screen, realm, notifier, table, crashed>>
    BY <1>1, <1>2 DEF Quiet, downloadProfilePhoto, back
  <1>4. profile' # None => ~deleted(profile')
    BY <1>3 DEF Quiet
  <1> QED
    BY <1>3, <1>4, QuietKept DEF Quiet, realm, results, notifier, table

(* Avatars come in, and the worker looks at them. *)
LEMMA QuietAvatars ==
  ASSUME ScreenInv, Quiet,
         AvatarsRun \/ notifierWorks \/ \E i \in DOMAIN live : saveAvatar(i)
  PROVE  Quiet'
  <1>1. /\ frozen' \in {TRUE, frozen} /\ live' = live
        /\ UNCHANGED <<crashed, saving, saves, filtering, drawn, profile, callback, seen>>
    <2>1. CASE AvatarsRun
      BY <2>1 DEF AvatarsRun, results, notifier, table, profileScreen
    <2>2. CASE notifierWorks
      BY <2>2 DEF notifierWorks, run, prepare_handover, results, table, profileScreen
    <2>3. CASE \E i \in DOMAIN live : saveAvatar(i)
      BY <2>3 DEF saveAvatar, commit_write, table, profileScreen
    <2> QED
      BY <2>1, <2>2, <2>3
  <1>2. profile' # None => ~deleted(profile')
    BY <1>1 DEF Quiet
  <1> QED
    BY <1>1, <1>2, QuietKept DEF Quiet

(* The search bar is activated: all rows are drawn again. *)
LEMMA QuietEmptyText ==
  ASSUME ScreenInv, Quiet, emptySearchText
  PROVE  Quiet'
  <1>1. /\ filtering' = FALSE /\ drawn' = Drawn(live)
        /\ UNCHANGED <<screen, realm, notifier, profileScreen, crashed>>
    BY DEF emptySearchText
  <1>2. live \in Seq(Object) /\ Len(drawn') = Len(live) /\ DOMAIN drawn' = DOMAIN live
    BY <1>1, LiveRows, DrawnRows DEF ScreenInv, Drawn
  <1>3. \A i \in DOMAIN live : drawn'[i].object = live[i]
    BY <1>1 DEF Drawn, row
  <1>4. live' = live /\ seen' = seen /\ callback' = callback /\ saves' = saves
        /\ saving' = saving /\ frozen' = frozen /\ profile' = profile /\ crashed' = crashed
    BY <1>1 DEF realm, results, notifier, profileScreen
  <1>5. (profile # None => ~deleted(profile))'
    BY <1>4 DEF Quiet, deleted
  <1>6. alive' /\ lastSaving' /\ callback' = "called" /\ ~filtering' /\ seen' = live'
    <2>1. alive' /\ callback' = "called" /\ seen' = live'
      BY <1>4 DEF Quiet, alive
    <2>2. lastSaving'
      BY <1>4, Zenon DEF Quiet, lastSaving
    <2> QED
      BY <1>1, <2>1, <2>2
  <1>7. Len(drawn') = Len(live') /\ \A i \in DOMAIN live' : drawn'[i].object = live'[i]
    BY <1>2, <1>3, <1>4
  <1> QED
    BY <1>5, <1>6, <1>7, Zenon DEF Quiet

(* Once all is quiet, avatars, scrolling, tapping and going back never end  *)
(* the process, and the table keeps showing what is in Realm, until a       *)
(* search is started.                                                       *)
THEOREM QuietStays == Spec => QuietIsSafe
  <1>1. ScreenInv /\ [Next]_vars => [(Quiet /\ ~filtering') => Quiet']_vars
    <2> SUFFICES ASSUME ScreenInv, Next, Quiet, ~filtering' PROVE Quiet'
      OBVIOUS
    <2>1. ~deleteAll
      BY DEF deleteAll, Quiet, lastSaving, ScreenInv, TypeOK
    <2>2. ~\E list \in Lists(saves) : saveGot(list)
      BY DEF saveGot, Quiet, lastSaving
    <2>3. ~observe /\ ~initial
      BY DEF observe, add_callback, initial, Quiet
    <2>4. ~filterContentForSearchText
      BY DEF filterContentForSearchText
    <2>5. CASE AvatarsRun \/ notifierWorks \/ \E i \in DOMAIN live : saveAvatar(i)
      BY <2>5, QuietAvatars
    <2>6. CASE update
      BY <2>6, QuietUpdate
    <2>7. CASE \E i \in DOMAIN drawn : scroll(i) \/ prepare(i)
      BY <2>7, QuietScroll, QuietPrepare
    <2>8. CASE downloadProfilePhoto \/ profileReads \/ back
      BY <2>8, QuietProfile
    <2>9. CASE emptySearchText
      BY <2>9, QuietEmptyText
    <2> QED
      BY <2>1, <2>2, <2>3, <2>4, <2>5, <2>6, <2>7, <2>8, <2>9 DEF Next
  <1> QED
    BY <1>1, ScreenInvariance, PTL DEF Spec, QuietIsSafe
=============================================================================
