------------------------------ MODULE Tutoring ------------------------------
(***************************************************************************)
(* Asking for help with a lesson: the tutor panel of the lesson page, the  *)
(* route behind it, TutoringService, and what it reads on the way: the     *)
(* lesson, the learner and the learner's evidence, each at its own time    *)
(* and under dependencies that come and go.                                *)
(*                                                                         *)
(* The record is reduced to the learner's last explanation: the only part  *)
(* of progress that the provider looks at (ProgressReplay has the rest).   *)
(***************************************************************************)
EXTENDS Dependencies, DeterministicLos, FiniteSets

CONSTANTS
  MaxAsks,   \* bound: how often the panel asks for help
  Edition,   \* the editions in which the lesson is published
  Lesson,    \* what each of them holds
  Provider,  \* provider ids that a request may name
  Default,   \* settings.tutor_provider; the only one registered
  Request    \* bound: the requests that are made

Client == 0          \* the ask of a client that is not the panel
Ask == 0..MaxAsks

(* What TutorRequest admits; question: what is left of it after strip();   *)
(* the step decides only which passages an answer quotes.                  *)
TutorRequest ==
  [task : TutorTask, question : Text \cup {None}, learner : BOOLEAN,
   provider : Provider \cup {None}]

(* _Answer as the provider fills it, and the statuses of the route.        *)
AnswerState ==
  [check : Check \cup {None}, usedEvidence : BOOLEAN, supported : BOOLEAN]
Code == {200, 404, 422, 500}

ASSUME TutoringAssumption ==
  /\ MaxAsks \in Nat
  /\ Lesson \in [Edition -> {Lesson[e] : e \in Edition}]
  /\ \A e \in Edition : IsLesson(Lesson[e])
  /\ MatchedBy \in [Text -> SUBSET Check]
  /\ Default \in Provider /\ Request \subseteq TutorRequest
  /\ None \notin Text \cup Edition \cup Check \cup Provider \cup Code
  /\ None \notin AnswerState

VARIABLES
  content,      \* the learning object on disk
  explanation,  \* the learner's last recorded explanation; "unknown": no learner
  panel,        \* what the tutor panel shows, and for which ask
  ask           \* the asks under way at the server

tutoring == <<content, explanation, panel, ask>>
vars == <<dependencies, tutoring>>

PanelState ==
  [state : {"idle", "loading", "answered", "failed"},
   asked : 0..MaxAsks, shown : 0..MaxAsks]

Nothing      == [at |-> "idle"]
AskStage     == {"sent", "learner", "events", "severed", "done"}
Explanations == Text \cup {None, "unknown"}

(* said: the explanations that were the learner's last while the ask was   *)
(* under way; read: the editions it has read, the one that is quoted first. *)
AskState ==
  [at : AskStage, request : Request, said : SUBSET Explanations,
   read : Seq(Edition), status : Code \cup {None},
   answer : AnswerState \cup {None}]

TypeOK ==
  /\ DependenciesTypeOK
  /\ content \in Edition \cup {"missing", "broken"}
  /\ explanation \in Explanations
  /\ panel \in PanelState
  /\ ask \in [Ask -> AskState \cup {Nothing}]
  /\ \A n \in Ask : ask[n] # Nothing =>
       /\ Len(ask[n].read) <= 2
       /\ (ask[n].status = 200) = (ask[n].answer \in AnswerState)

Init ==
  /\ DependenciesInit
  /\ content \in Edition
  /\ explanation \in Text \cup {None}
  /\ panel = [state |-> "idle", asked |-> 0, shown |-> 0]
  /\ ask = [n \in Ask |-> Nothing]

-----------------------------------------------------------------------------
(* The panel.                                                              *)

(* Mutant: the buttons are not disabled while an answer is awaited.        *)
ReadyUnchecked == TRUE
Ready == panel.state # "loading"

Send(n, request) ==
  /\ process = "running"
  /\ ask' = [ask EXCEPT ![n] =
       [at |-> "sent", request |-> request, said |-> {explanation},
        read |-> <<>>, status |-> None, answer |-> None]]

(* A click: the panel names no provider, and a draft for feedback.         *)
SendAsk(request) ==
  /\ Ready /\ panel.asked < MaxAsks
  /\ request.provider = None
  /\ request.task = "feedback" => request.question # None
  /\ panel' = [panel EXCEPT !.state = "loading", !.asked = @ + 1]
  /\ Send(panel.asked + 1, request)
  /\ UNCHANGED <<dependencies, content, explanation>>

(* Another client of the route does what the panel does not.               *)
AskDirectly(request) ==
  /\ ask[Client] = Nothing
  /\ request.provider # None \/ (request.task = "feedback" /\ request.question = None)
  /\ Change
  /\ Send(Client, request)
  /\ UNCHANGED <<database, redis, process, engine, cache, probe,
                 content, explanation, panel>>

(* setOutcome after the answer, or in the catch.  Mutant: no catch.        *)
OutcomeUncaught(ok) == IF ok THEN "answered" ELSE panel.state
Outcome(ok) == IF ok THEN "answered" ELSE "failed"

Deliver(n) ==
  /\ ask[n].at = "done"
  /\ panel' = IF n = Client THEN panel
              ELSE [panel EXCEPT !.state = Outcome(ask[n].status = 200), !.shown = n]
  /\ ask' = [ask EXCEPT ![n] = Nothing]
  /\ UNCHANGED <<dependencies, content, explanation>>

(* The request or its answer is lost: status 0.                            *)
Lose(n) ==
  /\ n # Client /\ ask[n] # Nothing
  /\ Change
  /\ panel' = [panel EXCEPT !.state = Outcome(FALSE), !.shown = n]
  /\ ask' = [ask EXCEPT ![n] = Nothing]
  /\ UNCHANGED <<database, redis, process, engine, cache, probe,
                 content, explanation>>

-----------------------------------------------------------------------------
(* TutoringService.respond.                                                *)

Put(n, state) ==
  /\ ask' = [ask EXCEPT ![n] = state]
  /\ UNCHANGED <<dependencies, content, explanation, panel>>

Refuse(n, status) == Put(n, [ask[n] EXCEPT !.at = "done", !.status = status])

(* The provider's answer from the edition read first.                      *)
Help(n, read, unmet) ==
  Put(n, [ask[n] EXCEPT !.at = "done", !.status = 200, !.read = read,
            !.answer = Respond(ask[n].request, Lesson[read[1]], unmet)])

(* get_learning_object raises ContentNotFoundError or                      *)
(* ContentIntegrityError: 404 and 500.                                     *)
ReadError == IF content = "missing" THEN 404 ELSE 500

Route(n) ==
  LET request == ask[n].request
  IN  /\ ask[n].at = "sent"
      /\ IF request.provider \notin {None, Default} THEN Refuse(n, 422)
         ELSE IF content \notin Edition THEN Refuse(n, ReadError)
         ELSE IF request.learner    \* _learner_progress: evidence is for a learner
           THEN Put(n, [ask[n] EXCEPT !.at = "learner", !.read = <<content>>])
           ELSE Help(n, <<content>>, None)

(* for_concept, to its second await.  _learner_progress catches what an    *)
(* unknown learner and a missing lesson raise; what a database that is     *)
(* down raises is neither of the two it names, and a broken lesson is not. *)
GetLearner(n) ==
  /\ ask[n].at = "learner"
  /\ IF database = "down" THEN Refuse(n, 500)
     ELSE IF explanation = "unknown" \/ content = "missing"
       THEN Help(n, ask[n].read, None)
     ELSE IF content = "broken" THEN Refuse(n, 500)
     ELSE Put(n, [ask[n] EXCEPT !.at = "events", !.read = Append(@, content)])

(* The replay, on the connection that the learner was read on.  An erased   *)
(* learner's stream is empty.                                              *)
GetEvents(n) ==
  \/ ask[n].at = "severed" /\ Refuse(n, 500)
  \/ /\ ask[n].at = "events"
     /\ Help(n, ask[n].read,
             IF explanation \in Text THEN Unmet(Lesson[ask[n].read[2]], explanation)
             ELSE None)

-----------------------------------------------------------------------------
(* Outside: the lesson is deployed, the learner explains, takes that back  *)
(* (None) or is erased.                                                    *)

Deploy(state) ==
  /\ Change /\ content # state
  /\ content' = state
  /\ UNCHANGED <<database, redis, process, engine, cache, probe,
                 explanation, panel, ask>>

Explain(said) ==
  /\ Change /\ explanation \notin {"unknown", said} /\ database = "up"
  /\ explanation' = said
  /\ ask' = [n \in Ask |-> IF ask[n] = Nothing THEN Nothing
                           ELSE [ask[n] EXCEPT !.said = @ \cup {said}]]
  /\ UNCHANGED <<database, redis, process, engine, cache, probe,
                 content, panel>>

(* A request that is between two statements loses its connection.          *)
Outage ==
  /\ DatabaseChanges
  /\ ask' = [n \in Ask |-> IF ask[n] = Nothing THEN Nothing
                           ELSE [ask[n] EXCEPT
                                   !.at = IF @ = "events" THEN "severed" ELSE @]]
  /\ UNCHANGED <<content, explanation, panel>>

Quiet == \A n \in Ask : ask[n].at \in {"idle", "done"}

Serve(n) == Route(n) \/ GetLearner(n) \/ GetEvents(n)

Next ==
  \/ Start /\ UNCHANGED tutoring
  \/ CloseCache /\ Quiet /\ UNCHANGED tutoring
  \/ Dispose /\ UNCHANGED tutoring
  \/ RedisChanges /\ UNCHANGED tutoring
  \/ Outage
  \/ \E p \in Probe :
       (SendProbe(p) \/ CheckDatabase(p) \/ PingCache(p)) /\ UNCHANGED tutoring
  \/ \E request \in Request : SendAsk(request) \/ AskDirectly(request)
  \/ \E n \in Ask : Serve(n) \/ Deliver(n) \/ Lose(n)
  \/ \E state \in Edition \cup {"missing", "broken"} : Deploy(state)
  \/ \E said \in Explanations : Explain(said)

(* A handler whose await has ended goes on; an answer arrives or is lost.  *)
Fairness == \A n \in Ask \ {Client} : WF_vars(Serve(n)) /\ WF_vars(Deliver(n))

Spec == Init /\ [][Next]_vars /\ Fairness

-----------------------------------------------------------------------------
(* PROPERTIES                                                              *)

(* services/tutoring.py:113: "An unknown learner or an unreachable database *)
(* costs personalisation, not help": an ask that is refused with a server  *)
(* error has met a broken lesson.                                          *)
OutageCostsPersonalisationOnly ==
  [][\A n \in Ask : ask[n] # Nothing /\ ask'[n] # Nothing =>
       (ask[n].status # 500 /\ ask'[n].status = 500 => content = "broken")]_vars

(* tutor-panel.tsx:43, 103: what the panel shows belongs to the last thing *)
(* that was asked, however the answers overtake each other.                *)
AnswerIsToTheLastAsk ==
  panel.state \in {"answered", "failed"} => panel.shown = panel.asked

Answered(n) == ask[n] # Nothing /\ ask[n].status = 200

(* deterministic.py:267-273: the question asked is one of the lesson that  *)
(* is cited; if evidence is claimed, then an explanation that the learner  *)
(* gave leaves it open, or none that the lesson and the replayed one share *)
(* - although lesson, learner and evidence were read at different times.   *)
QuestionIsOpen ==
  \A n \in Ask : Answered(n) /\ ask[n].answer.check # None =>
    LET check == ask[n].answer.check
        rubric == ChecksOf(Lesson[ask[n].read[1]])
    IN  /\ check \in rubric
        /\ ask[n].answer.usedEvidence =>
             \E said \in ask[n].said \cap Text :
               \/ check \notin MatchedBy[said]
               \/ rubric \cap ChecksOf(Lesson[ask[n].read[2]]) \subseteq MatchedBy[said]

(* tutor-panel.tsx:42-64: the panel does not read the lesson for ever.     *)
AsksEnd == panel.state = "loading" ~> panel.state # "loading"

=============================================================================
