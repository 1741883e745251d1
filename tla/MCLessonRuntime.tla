-------------------------- MODULE MCLessonRuntime --------------------------
(* Small instances of LessonRuntime for TLC.                               *)
EXTENDS LessonRuntimeInv

CONSTANTS l1, l2, left

TwoLearners == {l1, l2}
OneTab      == {left}
InOneTab    == [p \in Page |-> left]
FirstStep   == {0}

=============================================================================
