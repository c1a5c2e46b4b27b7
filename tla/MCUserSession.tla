---------------------------- MODULE MCUserSession ----------------------------
(* UserSession on a small instance. *)
EXTENDS UserSession, TLC

Symmetry == Permutations(Groups)

==============================================================================
