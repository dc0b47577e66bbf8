--------------------------- MODULE MCDiskStorage ----------------------------
(* The instance of DiskStorage whose bounds the configurations set. *)
EXTENDS DiskStorage, SequencesExt

(* RingOf is what the loop of Restore comes to: a save into the ring for   *)
(* each document, the oldest first.                                        *)
ASSUME RestoreSavesInTurn ==
  \A names \in SUBSET Docs :
    RingOf(names) = FoldLeft(LAMBDA s, i : Saved(s, Decoded(i), RingSize), << >>,
                             SetToSortSeq(names, <))
=============================================================================
