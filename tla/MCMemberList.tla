---------------------------- MODULE MCMemberList -----------------------------
(* MemberList on a small instance. *)
EXTENDS MemberList, TLC

Symmetry == Permutations(Members) \union Permutations(Requests)

==============================================================================
