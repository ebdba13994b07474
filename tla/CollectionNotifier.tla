------------------------- MODULE CollectionNotifier -------------------------
(***************************************************************************)
(* How a screen learns that its Realm results have changed.  Every write   *)
(* of the app is made on the main thread, on the Realm that the results    *)
(* belong to, so the results change as soon as the write is committed.  A  *)
(* worker thread of Realm compares the rows of the new version with those  *)
(* it saw before, without a lock, and hands the change over.  The main     *)
(* thread delivers it to the callback, in a turn of its run loop or when   *)
(* it begins the next write: beginning a write waits for the worker.       *)
(*                                                                         *)
(* One notifier with the one callback that the app adds to it.  The        *)
(* results are in table order, so a change never has moves.  External:     *)
(* the core of Realm (versions, transactions), which is a binary.          *)
(***************************************************************************)
EXTENDS Naturals, Sequences, FiniteSets, Functions

VARIABLES
  live,       \* the rows of the results in the newest version
  modified,   \* rows modified since the version the worker saw
  callback,   \* "none", "added", "called": initial_delivered
  hasRun,     \* m_has_run
  behind,     \* versions committed since m_sg_version
  worker,     \* whether run() is under way, and how many versions it covers
  previous,   \* m_previous_rows
  change,     \* m_change
  changes,    \* accumulated_changes of the callback
  seen        \* history: the rows when the callback was called last

notifier == <<callback, hasRun, behind, worker, previous, change, changes, seen>>
results == <<live, modified>>

NoChange == [deletions |-> {}, insertions |-> {}, modifications |-> {}]

NotifierInit ==
  /\ modified = {}
  /\ callback = "none" /\ hasRun = FALSE /\ behind = 0
  /\ worker = [busy |-> FALSE, covers |-> 0]
  /\ previous = <<>> /\ seen = <<>>
  /\ change = NoChange /\ changes = NoChange

-----------------------------------------------------------------------------
(* add_callback, in a block that observe(on:) leaves on the main queue. *)
add_callback ==
  /\ callback = "none"
  /\ callback' = "added"
  /\ UNCHANGED <<results, hasRun, behind, worker, previous, change, changes, seen>>

(* New results, with a notifier of their own; or none, as the process ended. *)
ResultsNotifier ==
  /\ callback' = "none" /\ hasRun' = FALSE /\ behind' = 0 /\ modified' = {}
  /\ worker' = [busy |-> FALSE, covers |-> 0]
  /\ previous' = <<>> /\ seen' = <<>>
  /\ change' = NoChange /\ changes' = NoChange

(* Mutant: a write begins whatever the worker has still to do. *)
promote_to_write_NoWait == TRUE

(* A write can begin: package_and_wait has waited for the worker, and       *)
(* after_advance has delivered what there was to deliver.                   *)
promote_to_write ==
  callback # "none" =>
    hasRun /\ behind = 0 /\ callback = "called" /\ changes = NoChange

(* commit_write: the results are `rows` now, and `touched` are the rows     *)
(* that the write modified.  A notifier without a callback does not exist   *)
(* yet, and will start from the version it finds.                           *)
commit_write(rows, touched) ==
  /\ promote_to_write
  /\ live' = rows
  /\ IF callback = "none" THEN UNCHANGED <<modified, behind>>
     ELSE modified' = modified \cup touched /\ behind' = behind + 1
  /\ UNCHANGED <<callback, hasRun, worker, previous, change, changes, seen>>

(* Mutant: rows that were only modified are left out. *)
calculate_NoModifications(old, new, touched) ==
  [deletions     |-> {i \in DOMAIN old : old[i] \notin Range(new)},
   insertions    |-> {i \in DOMAIN new : new[i] \notin Range(old)},
   modifications |-> {}]

(* Mutant: the comparison stops at the end of the shorter list. *)
calculate_Shorter(old, new, touched) ==
  [deletions     |-> {i \in DOMAIN old : i <= Len(new) /\ old[i] \notin Range(new)},
   insertions    |-> {i \in DOMAIN new : i <= Len(old) /\ new[i] \notin Range(old)},
   modifications |-> {i \in DOMAIN old : old[i] \in Range(new) \cap touched}]

(* CollectionChangeBuilder::calculate, and finalize: insertions are indices *)
(* into the new rows, deletions and modifications into the old ones.        *)
calculate(old, new, touched) ==
  [deletions     |-> {i \in DOMAIN old : old[i] \notin Range(new)},
   insertions    |-> {i \in DOMAIN new : new[i] \notin Range(old)},
   modifications |-> {i \in DOMAIN old : old[i] \in Range(new) \cap touched}]

(* The worker, woken by a commit or by add_callback: run_async_notifiers    *)
(* picks the newest version, and run() compares.  The first run compares    *)
(* with nothing.                                                            *)
run ==
  /\ ~worker.busy
  /\ callback # "none"
  /\ ~hasRun \/ behind > 0
  /\ worker' = [busy |-> TRUE, covers |-> behind]
  /\ change' = IF hasRun THEN calculate(previous, live, modified) ELSE NoChange
  /\ previous' = live
  /\ modified' = {}
  /\ UNCHANGED <<live, callback, hasRun, behind, changes, seen>>

(* CollectionChangeBuilder::merge into what waits for delivery.  It does    *)
(* more only if something waits already, which NoMerge excludes.            *)
merge(c) == IF c = NoChange THEN changes ELSE c

(* prepare_handover, under the lock. *)
prepare_handover ==
  /\ worker.busy
  /\ worker' = [busy |-> FALSE, covers |-> 0]
  /\ hasRun' = TRUE
  /\ behind' = behind - worker.covers
  /\ changes' = merge(change)
  /\ change' = NoChange
  /\ UNCHANGED <<results, callback, previous, seen>>

(* process_available_async delivers only what is of the version that the    *)
(* Realm is at.                                                             *)
package_for_delivery == hasRun /\ behind = 0

(* after_advance: the callback is called for the first time, or with a      *)
(* change that is not empty.                                                *)
after_advance ==
  /\ package_for_delivery
  /\ callback = "added" \/ (callback = "called" /\ changes # NoChange)
  /\ callback' = "called"
  /\ changes' = NoChange
  /\ seen' = live
  /\ UNCHANGED <<results, hasRun, behind, worker, previous, change>>

(* The steps of the notifier, whatever the writes change. *)
NotifierNext ==
  \/ add_callback \/ ResultsNotifier
  \/ \E rows, touched : commit_write(rows, touched)
  \/ run \/ prepare_handover
  \/ after_advance

-----------------------------------------------------------------------------
(* Every notification is about one write: the worker is at most one version *)
(* behind, and what it finds is never merged into a change that still waits *)
(* for delivery.  The batches of the screens rely on it, since deleting and *)
(* saving all rows are two writes.                                          *)
NoMerge ==
  /\ behind <= 1
  /\ worker.busy \/ behind > 0 => changes = NoChange

(* The list without the rows at some indices. *)
Without(list, indices) ==
  LET kept == DOMAIN list \ indices
  IN  [n \in 1 .. Cardinality(kept) |->
         list[CHOOSE i \in kept : Cardinality({k \in kept : k < i}) = n - 1]]

(* A change that can be delivered leads from the rows that the callback saw *)
(* last to the rows it will see: deleting and inserting at its indices, as  *)
(* a table does, gives the results of the version it is delivered with.     *)
ChangeLeadsToLive ==
  callback = "called" /\ package_for_delivery =>
    /\ Without(seen, changes.deletions) = Without(live, changes.insertions)
    /\ \A i \in changes.insertions : i \in DOMAIN live
    /\ \A i \in changes.deletions \cup changes.modifications : i \in DOMAIN seen
=============================================================================
