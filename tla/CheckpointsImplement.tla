------------------------ MODULE CheckpointsImplement ------------------------
(***************************************************************************)
(* The files of Checkpoints implement the map of CheckpointStore: a name   *)
(* holds what its inode holds, a restore has chosen what the checkpoint    *)
(* held when it was opened, and a crash leaves what stable names.          *)
(***************************************************************************)
EXTENDS Checkpoints

None == Partial

\* What the checkpoints hold when the paths are those of names.
HeldBy(names) == [n \in Names |-> IF names[n] = NoInode THEN None ELSE data[names[n]]]

Guest == IF vm # "up" THEN "off" ELSE IF disk = file[Image] THEN "on" ELSE "aside"

Store == INSTANCE CheckpointStore WITH
    guest <- Guest,
    last <- writes,
    image <- data[file[Image]],
    store <- HeldBy(file),
    chosen <- [r \in Restorers |-> IF pc[r] = "idle" THEN None ELSE wanted[r]],
    settled <- [image |-> data[stable.file[Image]], store |-> HeldBy(stable.file)]

\* Seen through names, the directory is a write-once map of whole disk states,
\* a restore one atomic step of it, and a crash a return to an earlier state
\* of the map: no interleaving of writers, prunes, --rm, restores, starts of
\* the unit, kills and crashes shows a step that CheckpointStore does not have.
ImplementsStore == Store!Spec
=============================================================================
