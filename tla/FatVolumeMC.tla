----------------------------- MODULE FatVolumeMC -----------------------------
(***************************************************************************)
(* FatVolume for TLC: two names in the root and one file in a subdirectory *)
(* of either name, and a history variable with what the callers see, which *)
(* changes when a call ends.                                               *)
(***************************************************************************)
EXTENDS FatVolume

CONSTANTS n1, n2   \* the names in the root

VARIABLE view

SmallTree == {<<n1>>, <<n2>>, <<n1, "x">>, <<n2, "x">>}

(* The two names of the root are alike. *)
NameSymmetry == Permutations({n1, n2})

MCInit == Init /\ view = Visible(disk, files, stale, FALSE)
MCNext ==
  /\ Next
  /\ LET lost == damage' # "none" IN
     view' = IF op'.step = "idle" \/ lost THEN Visible(disk', files', stale', lost) ELSE view
MCSpec == MCInit /\ [][MCNext]_<<vars, view>>

(* Bounds: the first file slot is written; a second open file is read      *)
(* beside it or, when it was created over the first one or after the first *)
(* one was moved away, written too, while the free count is unknown and    *)
(* nothing is rolled back; on a volume torn by an interruption there is    *)
(* one open file, the device works and the free count is unknown; contents *)
(* vary only where a property depends on them, on a sound volume whose     *)
(* free count is unknown and whose open files have their file.  When       *)
(* nothing is promised any more the volume is followed to the end of the   *)
(* call in progress.                                                       *)
FatBound ==
  /\ damage # "stale" /\ (Idle => damage \in {"none", "torn"})
  /\ \A h \in FileSlots \ {1} :
       /\ op.h = h \/ files[h].writable =>
            1 \in stale \/ (files[1].live /\ files[1].pos = op.detaches)
       /\ files[h].live => /\ files[1].live /\ op.step # "undo"
                           /\ damage # "torn" /\ ~volume.known
  /\ stale # {} => op.step # "undo" /\ ~volume.known
  /\ damage = "torn" => op.step # "undo" /\ ~volume.known
  /\ damage = "torn" \/ volume.known \/ stale # {} =>
       \A c \in Clusters : disk[Data(c)].data = 0

Promise == INSTANCE FileStore WITH
  store <- view.store, open <- view.open, lost <- view.lost

(* KeepsFiles: every call takes effect completely or not at all, and on    *)
(* the file its handle was opened on, and open files lose their file only  *)
(* where FileStore says so; until the disk was torn, a sector could not be *)
(* put back, a failed write had landed or a lost file was written to.  And *)
(* a failed rollback ends the use of the volume (Quarantines).             *)
KeepsFiles == Promise!Spec /\ Quarantines
=============================================================================
