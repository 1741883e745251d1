-------------------------- MODULE DeterministicLos --------------------------
(***************************************************************************)
(* The tutoring provider: a function of a request, a lesson and what the   *)
(* learner's recorded explanation leaves open.                             *)
(*                                                                         *)
(* Text is named by what it shares with a lesson: the rubric checks whose  *)
(* patterns it matches and its words of four letters or more that are no   *)
(* stopwords.  The passages of an answer and their citations are left out: *)
(* an answer is what it asks, whether it claims evidence, whether the      *)
(* lesson covers the question.                                             *)
(***************************************************************************)
EXTENDS Naturals, Sequences

CONSTANTS
  Text,       \* what a learner may type, trimmed and not empty
  Check,      \* ids of rubric checks
  MatchedBy,  \* the checks whose pattern a text matches
  WordsOf,    \* _tokens of a text
  None        \* "no value"

TutorTask == {"explanation", "hint", "socratic-question", "feedback",
              "misconception-check"}

(* A lesson, as far as these answers depend on it: the rubric in order and *)
(* the vocabulary.                                                         *)
IsLesson(lesson) ==
  /\ DOMAIN lesson = {"checks", "words"}
  /\ lesson.checks \in Seq(Check) /\ lesson.checks # <<>>

(* _Answer, and what _finish adds: the rubric check that is asked about.   *)
Answer(check, usedEvidence, supported) ==
  [check |-> check, usedEvidence |-> usedEvidence, supported |-> supported]

(* What explanation, hint, feedback and misconception-check answer: they   *)
(* ask nothing and look at no evidence.                                    *)
Guidance == Answer(None, FALSE, TRUE)

ChecksOf(lesson) == {lesson.checks[i] : i \in DOMAIN lesson.checks}

(* evaluate_rubric: the checks of the rubric that text does not match.     *)
Unmet(lesson, text) == ChecksOf(lesson) \ MatchedBy[text]

InScope(question, lesson) ==
  \/ Unmet(lesson, question) # ChecksOf(lesson)
  \/ WordsOf[question] \cap lesson.words # {}

(* _next_unmet_check.  Mutants: any open check will do, of whichever       *)
(* lesson; its position instead of the check.                              *)
NextUnmetOfAny(lesson, unmet) ==
  IF unmet = {} THEN lesson.checks[1] ELSE CHOOSE c \in unmet : TRUE
NextUnmetIndex(lesson, unmet) ==
  CHOOSE i \in DOMAIN lesson.checks : unmet = {} \/ lesson.checks[i] \in unmet
NextUnmet(lesson, unmet) ==
  LET open == {i \in DOMAIN lesson.checks : lesson.checks[i] \in unmet}
  IN  lesson.checks[IF open = {} THEN 1 ELSE CHOOSE i \in open : \A j \in open : i <= j]

SocraticQuestion(lesson, unmet) ==
  Answer(IF unmet = None THEN lesson.checks[1] ELSE NextUnmet(lesson, unmet),
         unmet # None, TRUE)

OutOfScope == Answer(None, FALSE, FALSE)

(* DeterministicLosProvider.respond.  unmet: the checks open after the     *)
(* learner's recorded explanation, None without progress or explanation.   *)
Respond(request, lesson, unmet) ==
  IF /\ request.question # None
     /\ request.task # "feedback"
     /\ ~InScope(request.question, lesson)
  THEN OutOfScope
  ELSE IF request.task = "socratic-question" THEN SocraticQuestion(lesson, unmet)
  ELSE Guidance

=============================================================================
