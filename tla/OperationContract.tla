------------------------- MODULE OperationContract -------------------------
(***************************************************************************)
(* What an asynchronous operation promises to the operation queue that     *)
(* runs it and to the operations that depend on it.  The queue starts the  *)
(* operation, a result is delivered once, and the queue is told once that  *)
(* the operation finished.  The finish can be lost, but only when the      *)
(* result is delivered while start() is still running; a lost operation    *)
(* never finishes and everything that depends on it waits for ever.  Once  *)
(* somebody cancels the operation nothing is promised any more.            *)
(*                                                                         *)
(* AsyncOperation implements this contract; FriendsPipeline relies on it.  *)
(***************************************************************************)
CONSTANTS Results,   \* what the operation can deliver
          NoResult   \* nothing delivered yet

VARIABLES phase,     \* how far the operation is, as its queue sees it
          result     \* what it delivered

vars == <<phase, result>>

Phases == {"ready", "starting", "executing", "finished", "lost", "cancelled"}

Init == phase = "ready" /\ result = NoResult

(* The queue calls start(). *)
Start == /\ phase = "ready"
         /\ phase' = "starting"
         /\ UNCHANGED result

(* The reply arrives: at most once, never before start(). *)
Deliver == /\ phase \in {"starting", "executing"}
           /\ result = NoResult
           /\ result' \in Results
           /\ UNCHANGED phase

(* start() marks the operation executing. *)
Return == /\ phase = "starting"
          /\ phase' = "executing"
          /\ UNCHANGED result

(* The queue learns that the operation finished. *)
Finish == /\ phase \in {"starting", "executing"}
          /\ result # NoResult
          /\ phase' = "finished"
          /\ UNCHANGED result

(* start() overwrites the finish before the queue has looked at it. *)
Lose == /\ phase = "starting"
        /\ result # NoResult
        /\ phase' = "lost"
        /\ UNCHANGED result

(* Somebody calls cancel(). *)
Cancel == /\ phase # "cancelled"
          /\ phase' = "cancelled"
          /\ result' = NoResult

Next == Start \/ Deliver \/ Return \/ Finish \/ Lose \/ Cancel

(* Safety part of the contract, and the contract with its progress. *)
SafetySpec == Init /\ [][Next]_vars

Spec == /\ SafetySpec
        /\ WF_vars(Start)
        /\ WF_vars(Deliver)
        /\ WF_vars(Return \/ Finish \/ Lose)
=============================================================================
