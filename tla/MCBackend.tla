------------------------------- MODULE MCBackend -------------------------------
(* Backend on small instances. *)
EXTENDS Backend, TLC

Symmetry == Permutations(Browsers) \union Permutations(Users \ Browsers)
              \union Permutations(GroupIds) \union Permutations(Workers)

AllSteps == Steps \union WebSteps

==============================================================================
