------------------------- MODULE MCFriendsPipeline -------------------------
(* The friends pipeline on small instances: one or two friends, up to three *)
(* loads, both orders of the main queue.                                    *)
EXTENDS FriendsPipeline
=============================================================================
