----------------------------- MODULE MCPhotoSync -----------------------------
(* PhotoSync on small instances. *)
EXTENDS PhotoSync, TLC

Symmetry == Permutations(Tasks) \union Permutations(Runs) \union Permutations(Uploads)

Landscape == <<2560, 1920>>
Portrait == <<1440, 2560>>

==============================================================================
