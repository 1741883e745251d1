------------------------- MODULE MCPrototypeServer -------------------------
(* A small instance of PrototypeServer for TLC.                            *)
EXTENDS PrototypeServer

CONSTANTS n1, n2, n3, k1, k2

ThreePosts == {n1, n2, n3}
TwoKeys    == {k1, k2}

(* Finished, without the words for it; finished; an answer along the way;  *)
(* without a learner.                                                      *)
FewPayloads ==
  {[key |-> k1, completed |-> TRUE, mastered |-> FALSE],
   [key |-> k1, completed |-> TRUE, mastered |-> TRUE],
   [key |-> k2, completed |-> None, mastered |-> TRUE],
   [key |-> None, completed |-> None, mastered |-> FALSE]}

=============================================================================
