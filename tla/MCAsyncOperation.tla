-------------------------- MODULE MCAsyncOperation --------------------------
(* A NetworkOperation that is answered with nil or with a body, and that    *)
(* somebody may cancel.                                                     *)
EXTENDS AsyncOperation
=============================================================================
