--------------------------- MODULE MCTableScreens ---------------------------
(* Two friends, or two groups, one of which is found by the search. *)
EXTENDS TableScreens
=============================================================================
