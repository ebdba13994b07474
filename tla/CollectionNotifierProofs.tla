---------------------- MODULE CollectionNotifierProofs ----------------------
(***************************************************************************)
(* Why a notification is about one write, for all results and writes.      *)
(***************************************************************************)
EXTENDS CollectionNotifier, SequenceTheorems, TLAPS

(* Where the worker can be: it is behind by one write at most, and only     *)
(* after its first run; when it is busy, with that write or with its first  *)
(* run, it covers all there is, and nothing waits for delivery.             *)
WorkerInv ==
  /\ behind \in {0, 1}
  /\ worker \in [busy : BOOLEAN, covers : {0, 1}]
  /\ hasRun \in BOOLEAN
  /\ worker.busy => worker.covers = behind
  /\ worker.busy => ~hasRun \/ behind = 1
  /\ behind = 1 => hasRun
  /\ ~hasRun => changes = NoChange
  /\ behind = 1 => changes = NoChange

(* A notifier starts there. *)
LEMMA NotifierStarts ==
  ASSUME NotifierInit
  PROVE  WorkerInv
  <1>1. hasRun \in BOOLEAN /\ behind = 0 /\ changes = NoChange
    BY DEF NotifierInit
  <1>2. worker \in [busy : BOOLEAN, covers : {0, 1}] /\ ~worker.busy
    BY DEF NotifierInit
  <1> QED
    BY <1>1, <1>2 DEF WorkerInv

(* A write begins only when the worker is done and all is delivered, so the *)
(* worker falls behind by one version.                                      *)
LEMMA WriteStep ==
  ASSUME WorkerInv, NEW rows, NEW touched, commit_write(rows, touched)
  PROVE  WorkerInv'
  <1>1. CASE callback = "none"
    BY <1>1 DEF WorkerInv, commit_write
  <1>2. CASE callback # "none"
    <2>1. hasRun /\ behind = 0 /\ changes = NoChange
      BY <1>2 DEF commit_write, promote_to_write
    <2>2. ~worker.busy
      BY <2>1 DEF WorkerInv
    <2>3. behind' = 1 /\ UNCHANGED <<hasRun, worker, changes>>
      BY <1>2, <2>1 DEF commit_write
    <2> QED
      BY <2>1, <2>2, <2>3 DEF WorkerInv
  <1> QED
    BY <1>1, <1>2

(* The worker begins. *)
LEMMA RunStep ==
  ASSUME WorkerInv, run
  PROVE  WorkerInv'
  BY DEF WorkerInv, run

(* The worker hands over, and has caught up. *)
LEMMA HandoverStep ==
  ASSUME WorkerInv, prepare_handover
  PROVE  WorkerInv'
  <1>1. behind' = 0
    BY DEF WorkerInv, prepare_handover
  <1>2. hasRun' = TRUE /\ worker' = [busy |-> FALSE, covers |-> 0]
    BY DEF prepare_handover
  <1> QED
    BY <1>1, <1>2 DEF WorkerInv

(* The steps of the main thread. *)
LEMMA MainSteps ==
  ASSUME WorkerInv, add_callback \/ ResultsNotifier \/ after_advance
  PROVE  WorkerInv'
  <1>1. CASE add_callback
    BY <1>1 DEF WorkerInv, add_callback
  <1>2. CASE ResultsNotifier
    <2>1. hasRun' \in BOOLEAN /\ behind' = 0 /\ changes' = NoChange
      BY <1>2 DEF ResultsNotifier
    <2>2. worker' \in [busy : BOOLEAN, covers : {0, 1}] /\ ~worker'.busy
      BY <1>2 DEF ResultsNotifier
    <2> QED
      BY <2>1, <2>2 DEF WorkerInv
  <1>3. CASE after_advance
    <2>1. hasRun /\ behind = 0 /\ changes' = NoChange
      BY <1>3 DEF after_advance, package_for_delivery
    <2>2. UNCHANGED <<hasRun, behind, worker>>
      BY <1>3 DEF after_advance
    <2> QED
      BY <2>1, <2>2 DEF WorkerInv
  <1> QED
    BY <1>1, <1>2, <1>3

(* Every step of the notifier keeps the invariant. *)
LEMMA NotifierSteps ==
  ASSUME WorkerInv, [NotifierNext]_<<results, notifier>>
  PROVE  WorkerInv'
  <1>1. CASE UNCHANGED <<results, notifier>>
    BY <1>1 DEF WorkerInv, results, notifier
  <1>2. CASE NotifierNext
    BY <1>2, WriteStep, RunStep, HandoverStep, MainSteps DEF NotifierNext
  <1> QED
    BY <1>1, <1>2

(* No change is ever merged into one that waits. *)
LEMMA WorkerInvNoMerge ==
  ASSUME WorkerInv
  PROVE  NoMerge
  BY DEF WorkerInv, NoMerge

-----------------------------------------------------------------------------
(* Facts about lists. *)

(* A function on 1 .. n is a list of n elements. *)
LEMMA ListOf ==
  ASSUME NEW S, NEW n \in Nat, NEW f \in [1 .. n -> S]
  PROVE  f \in Seq(S) /\ Len(f) = n /\ DOMAIN f = 1 .. n
  <1>1. f \in Seq(S)
    BY SeqDef
  <1>2. DOMAIN f = 1 .. n
    OBVIOUS
  <1> QED
    BY <1>1, <1>2, LenProperties

(* A list without rows. *)
LEMMA EmptyLists ==
  ASSUME NEW S, NEW l \in Seq(S)
  PROVE  /\ Len(l) \in Nat /\ DOMAIN l = 1 .. Len(l)
         /\ l = <<>> <=> Len(l) = 0
         /\ l = <<>> <=> DOMAIN l = {}
  BY LenProperties, EmptySeq

-----------------------------------------------------------------------------
(* What the callback is told.  c has the deletions and insertions that lead *)
(* from the old rows to the new ones.                                       *)
Describes(c, old, new) ==
  /\ c = [deletions     |-> {i \in DOMAIN old : old[i] \notin Range(new)},
          insertions    |-> {i \in DOMAIN new : new[i] \notin Range(old)},
          modifications |-> c.modifications]
  /\ \A i \in c.modifications : i \in DOMAIN old /\ old[i] \in Range(new)

(* The worker compares with the rows that the callback saw last: between    *)
(* its first run and the next write these are the rows it saw itself.       *)
ReportInv ==
  /\ callback \in {"none", "added", "called"}
  /\ callback = "none" => ~hasRun /\ ~worker.busy
  /\ callback # "called" => behind = 0 /\ change = NoChange /\ changes = NoChange
  /\ callback = "called" => hasRun
  /\ behind = 0 \/ worker.busy => modified = {}
  /\ worker.busy \/ (hasRun /\ behind = 0) => previous = live
  /\ callback = "called" =>
       /\ (behind = 1 /\ ~worker.busy) => previous = seen
       /\ worker.busy => Describes(change, seen, live)
       /\ behind = 0 => Describes(changes, seen, live)

(* What calculate finds describes the difference of the rows. *)
LEMMA CalculateDescribes ==
  ASSUME NEW old, NEW new, NEW touched
  PROVE  Describes(calculate(old, new, touched), old, new)
  BY DEF Describes, calculate

(* Nothing has changed between equal rows. *)
LEMMA NothingChanged ==
  ASSUME NEW rows
  PROVE  Describes(NoChange, rows, rows)
  BY DEF Describes, NoChange, Range

(* A notifier starts there. *)
LEMMA ReportStarts ==
  ASSUME NotifierInit
  PROVE  ReportInv
  BY DEF NotifierInit, ReportInv

(* A write: the rows the worker has seen are those the callback saw, if all *)
(* changes since have been delivered.                                       *)
LEMMA WriteReports ==
  ASSUME WorkerInv, ReportInv, NEW rows, NEW touched, commit_write(rows, touched),
         callback = "called" => seen = live
  PROVE  ReportInv'
  <1>1. CASE callback = "none"
    BY <1>1 DEF WorkerInv, ReportInv, commit_write
  <1>2. CASE callback # "none"
    <2>1. hasRun /\ behind = 0 /\ callback = "called" /\ changes = NoChange /\ ~worker.busy
      BY <1>2 DEF commit_write, promote_to_write, WorkerInv
    <2>2. behind' = 1 /\ UNCHANGED <<callback, hasRun, worker, previous, change, changes, seen>>
      BY <1>2, <2>1 DEF commit_write
    <2>3. previous' = seen'
      BY <2>1, <2>2 DEF ReportInv
    <2> QED
      BY <2>1, <2>2, <2>3 DEF ReportInv
  <1> QED
    BY <1>1, <1>2

(* The worker begins. *)
LEMMA RunReports ==
  ASSUME WorkerInv, ReportInv, run
  PROVE  ReportInv'
  <1>1. /\ ~worker.busy /\ callback # "none" /\ (~hasRun \/ behind > 0)
        /\ worker' = [busy |-> TRUE, covers |-> behind]
        /\ previous' = live /\ modified' = {}
        /\ UNCHANGED <<live, callback, hasRun, behind, changes, seen>>
    BY DEF run
  <1>2. CASE callback = "added"
    <2>1. ~hasRun
      BY <1>1, <1>2 DEF ReportInv
    <2>2. change' = NoChange
      BY <2>1 DEF run
    <2> QED
      BY <1>1, <1>2, <2>1, <2>2 DEF ReportInv
  <1>3. CASE callback = "called"
    <2>1. hasRun /\ behind = 1 /\ previous = seen
      BY <1>1, <1>3 DEF ReportInv, WorkerInv
    <2>2. change' = calculate(seen, live, modified)
      BY <2>1 DEF run
    <2>3. Describes(change', seen', live')
      BY <1>1, <2>2, CalculateDescribes
    <2> QED
      BY <1>1, <1>3, <2>1, <2>3 DEF ReportInv
  <1> QED
    BY <1>1, <1>2, <1>3 DEF ReportInv

(* The worker hands over: nothing waits, so that the change stays as it is. *)
LEMMA HandoverReports ==
  ASSUME WorkerInv, ReportInv, prepare_handover
  PROVE  ReportInv' /\ changes' = change
  <1>1. /\ worker.busy /\ worker' = [busy |-> FALSE, covers |-> 0] /\ hasRun' = TRUE
        /\ change' = NoChange /\ changes' = merge(change)
        /\ UNCHANGED <<live, modified, callback, previous, seen>>
    BY DEF prepare_handover, results
  <1>2. behind' = 0 /\ changes = NoChange
    BY <1>1 DEF WorkerInv, prepare_handover
  <1>3. changes' = change
    BY <1>1, <1>2 DEF merge
  <1>4. modified = {}
    BY <1>1 DEF ReportInv
  <1> QED
    BY <1>1, <1>2, <1>3, <1>4 DEF ReportInv, WorkerInv

(* The callback is added, or called with the rows as they are. *)
LEMMA CallbackReports ==
  ASSUME WorkerInv, ReportInv, add_callback \/ ResultsNotifier \/ after_advance
  PROVE  ReportInv'
  <1>1. CASE add_callback
    BY <1>1 DEF WorkerInv, ReportInv, add_callback, results
  <1>2. CASE ResultsNotifier
    <2>1. ~worker'.busy
      BY <1>2 DEF ResultsNotifier
    <2> QED
      BY <1>2, <2>1 DEF ReportInv, ResultsNotifier
  <1>3. CASE after_advance
    <2>1. /\ hasRun /\ behind = 0 /\ callback' = "called" /\ changes' = NoChange /\ seen' = live
          /\ UNCHANGED <<live, modified, hasRun, behind, worker, previous, change>>
      BY <1>3 DEF after_advance, package_for_delivery, results
    <2>2. ~worker.busy
      BY <2>1 DEF WorkerInv
    <2>3. Describes(changes', seen', live')
      BY <2>1, NothingChanged
    <2> QED
      BY <2>1, <2>2, <2>3 DEF ReportInv
  <1> QED
    BY <1>1, <1>2, <1>3

-----------------------------------------------------------------------------
(* RealmCoordinator and CollectionNotifier: as long as every write of the   *)
(* app begins by waiting for the worker, each notification is about one     *)
(* write, whatever the writes change and whenever the worker, the run loop  *)
(* and the writes take their turns.                                         *)
THEOREM NotifierNeverMerges ==
  NotifierInit /\ [][NotifierNext]_<<results, notifier>> => []NoMerge
  <1>1. NotifierInit => WorkerInv
    BY NotifierStarts
  <1>2. WorkerInv /\ [NotifierNext]_<<results, notifier>> => WorkerInv'
    BY NotifierSteps
  <1>3. WorkerInv => NoMerge
    BY WorkerInvNoMerge
  <1> QED
    BY <1>1, <1>2, <1>3, PTL
=============================================================================
