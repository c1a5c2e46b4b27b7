--------------------------- MODULE MCGroupRegistry ---------------------------
(* GroupRegistry on small instances. *)
EXTENDS GroupRegistry, TLC

Symmetry == Permutations(Users) \union Permutations(GroupIds) \union Permutations(Workers)

AllSteps == Steps
RoundSteps == Housekeeping

==============================================================================
