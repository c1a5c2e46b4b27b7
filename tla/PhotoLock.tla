------------------------------ MODULE PhotoLock ------------------------------
(***************************************************************************)
(* What the PhotoSyncLock table promises for a photo: one synchronisation  *)
(* at a time has the photo, and gives it back itself.                      *)
(***************************************************************************)
EXTENDS Naturals

CONSTANT Runs

VARIABLES locked,   \* the photo has a row in the table
          holders   \* the synchronisations that rely on having the photo

Init == locked = FALSE /\ holders = {}

Acquire(r) ==
    /\ ~locked /\ holders = {}
    /\ locked' = TRUE
    /\ holders' = {r}

Release(r) ==
    /\ locked /\ holders = {r}
    /\ locked' = FALSE
    /\ holders' = {}

Next == \E r \in Runs : Acquire(r) \/ Release(r)

Spec == Init /\ [][Next]_<<locked, holders>>

==============================================================================
