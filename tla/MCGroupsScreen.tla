--------------------------- MODULE MCGroupsScreen ---------------------------
(* The groups screen on small instances. *)
EXTENDS GroupsScreen
=============================================================================
