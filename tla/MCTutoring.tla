----------------------------- MODULE MCTutoring -----------------------------
(* Small instances of Tutoring for TLC.                                    *)
EXTENDS Tutoring

CONSTANTS e1, e2, c1, c2, c3, here, lost, local, other, p1

OneProbe     == {p1}
TwoEditions  == {e1, e2}
ThreeChecks  == {c1, c2, c3}
TwoProviders == {local, other}

(* here answers the second check of either edition; a word of lost is one  *)
(* of the old edition.                                                     *)
TwoTexts == {here, lost}
Matches  == [t \in TwoTexts |-> IF t = here THEN {c2} ELSE {}]
Tokens   == [t \in TwoTexts |-> IF t = here THEN {} ELSE {"prism"}]

(* The new edition starts with another check.                              *)
TwoLessons ==
  [e \in TwoEditions |-> IF e = e1 THEN [checks |-> <<c1, c2>>, words |-> {"prism"}]
                         ELSE [checks |-> <<c2, c3>>, words |-> {}]]

Asking(task, questions, learner, provider) ==
  {[task |-> task, question |-> q, learner |-> learner, provider |-> provider]
     : q \in questions}

(* Explanation, hint and misconception-check are answered alike: one of    *)
(* them asks.                                                              *)
FewRequests == UNION {
  Asking("hint", {lost}, TRUE, None),
  Asking("socratic-question", {None, here}, TRUE, None),
  Asking("feedback", {here}, FALSE, None),
  Asking("feedback", {None}, FALSE, local),
  Asking("hint", {None}, FALSE, other)}

=============================================================================
