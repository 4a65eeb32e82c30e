------------------------ MODULE MCCollectionSchedule ------------------------
(* CollectionSchedule on one topic or two, for TLC.                        *)
EXTENDS CollectionSchedule, TLC
CONSTANTS t1, t2
One == {t1}
Two == {t1, t2}
Alike == Permutations(Topics)
OnlyTwo == {2}
TwoOrThree == {2, 3}
=============================================================================
