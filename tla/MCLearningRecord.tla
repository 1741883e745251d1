-------------------------- MODULE MCLearningRecord --------------------------
(* Small instances of LearningRecord for TLC.                              *)
EXTENDS LearningRecordInv, TLC

CONSTANTS l1, l2, s1, s2, c1, c2, w1, w2

OneLearner  == {l1}
TwoLearners == {l1, l2}
OneSession  == {s1}
TwoSessions == {s1, s2}
OneConcept  == {c1}
TwoConcepts == {c1, c2}
OneWorker   == {w1}
TwoWorkers  == {w1, w2}

Writes   == AllOperations \ {"progress"}
Replay   == {"register", "resume", "record", "progress"}
Sittings == {"register", "resume", "end"}
Evidence == {"register", "resume", "record", "erase"}

(* The ids are uninterpreted: learners, sessions and workers may be        *)
(* permuted.                                                               *)
Ids == Permutations(Learner) \cup Permutations(Session) \cup Permutations(Worker)

=============================================================================
