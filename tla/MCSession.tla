----------------------------- MODULE MCSession -----------------------------
(* Sessions of a few users. *)
EXTENDS Session, TLC

UserSymmetry == Permutations(User)
=============================================================================
