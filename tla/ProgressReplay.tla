---------------------------- MODULE ProgressReplay ----------------------------
(***************************************************************************)
(* The progress projection: GET /learners/{id}/progress/{concept} replays  *)
(* the learner's evidence of one concept into a view that is stored        *)
(* nowhere.  project_progress is a loop, and is modelled as one, beside    *)
(* the writes that go on in other transactions.                            *)
(*                                                                         *)
(* What an event says is reduced to what the replay tells apart.           *)
(***************************************************************************)
EXTENDS Naturals, FiniteSets, Sequences

CONSTANTS
  MaxEvents,    \* bound: the sequence values this stream can use
  MaxStep,      \* bound: the largest step index
  Experiment,   \* experiment ids
  Response,     \* what a learner may answer
  Matched,      \* the checks of the lesson's rubric an answer matches
  Threshold,    \* how many of them make an explanation a mastering one
  None          \* "no value"

ASSUME ReplayAssumption ==
  /\ MaxEvents \in Nat /\ MaxStep \in Nat /\ Threshold \in Nat
  /\ None \notin Response
  /\ \A r \in Response : IsFiniteSet(Matched[r])

Place == 1..MaxEvents    \* evidence_event.sequence
Step  == 0..MaxStep

(* A retraction may name an event of another concept's stream.             *)
Elsewhere == 0

(* What validate_for_write lets through.                                   *)
Contract ==
  [kind : {"lesson.started", "lesson.completed"}, says : {None}]
    \cup [kind : {"step.viewed"}, says : Step]
    \cup [kind : {"experiment.performed"}, says : Experiment]
    \cup [kind : {"pre", "post"}, says : Response]
    \cup [kind : {"evidence.retracted"}, says : Place \cup {Elsewhere}]

(* A row of an older vocabulary, and a sequence value with no visible row  *)
(* of this stream: not drawn, not committed, or another stream's.          *)
Unreadable == [kind |-> "unreadable", says |-> None]
NoRow      == [kind |-> "no row", says |-> None]

Row == Contract \cup {Unreadable, NoRow}

VARIABLES
  record,   \* the committed rows of the learner and concept, by sequence
  phase,    \* whether a request is replaying
  stream,   \* the rows it read
  todo,     \* those it has not folded yet
  acc,      \* the local variables of the loop
  seen,     \* history: the rows behind the last view returned
  view      \* the last view returned

vars == <<record, phase, stream, todo, acc, seen, view>>

Fold == [steps : SUBSET Step, experiments : Seq(Experiment),
         pre : Response \cup {None}, post : Response \cup {None},
         completed : BOOLEAN, unreadable : Nat, considered : Nat]

View == [fold : Fold, retracted : Nat, last : Place \cup {None},
         furthest : Step \cup {None},
         mastery : [score : Nat, mastered : BOOLEAN] \cup {None}]

TypeOK ==
  /\ record \in [Place -> Row]
  /\ phase \in {"idle", "replay"}
  /\ stream \in [Place -> Row]
  /\ todo \subseteq Place
  /\ acc \in Fold
  /\ seen \in [Place -> Row]
  /\ view \in View

-----------------------------------------------------------------------------
Rows(s)     == {n \in Place : s[n] # NoRow}
IsRetraction(s, n) == s[n].kind = "evidence.retracted"

(* _retracted_ids: collected before anything is folded, retracted          *)
(* retractions included.                                                   *)
(* Mutant: a retraction that is itself retracted does not count.           *)
UnretractedTargets(s) ==
  {s[r].says : r \in {n \in Rows(s) :
     /\ IsRetraction(s, n)
     /\ \A m \in Rows(s) : IsRetraction(s, m) => s[m].says # n}}
Targets(s) == {s[n].says : n \in {m \in Rows(s) : IsRetraction(s, m)}}

Least(S)    == CHOOSE n \in S : \A m \in S : n <= m
Greatest(S) == CHOOSE n \in S : \A m \in S : m <= n

EmptyStream == [n \in Place |-> NoRow]
EmptyFold == [steps |-> {}, experiments |-> <<>>, pre |-> None, post |-> None,
              completed |-> FALSE, unreadable |-> 0, considered |-> 0]

(* The order of insertion of a dict: an id that is there keeps its place.  *)
Performed(ids, id) ==
  IF \E i \in DOMAIN ids : ids[i] = id THEN ids ELSE Append(ids, id)

(* One event the loop considers.                                           *)
Consider(a, row) ==
  LET Is(kind) == row.kind = kind
  IN  [steps |-> IF Is("step.viewed") THEN a.steps \cup {row.says}
                                      ELSE a.steps,
       experiments |-> IF Is("experiment.performed")
                         THEN Performed(a.experiments, row.says)
                         ELSE a.experiments,
       pre |-> IF Is("pre") THEN row.says ELSE a.pre,
       post |-> IF Is("post") THEN row.says ELSE a.post,
       completed |-> IF Is("lesson.completed") THEN TRUE ELSE a.completed,
       unreadable |-> a.unreadable,
       considered |-> a.considered + 1]

(* Mutants: what cannot be read is counted before retractions are looked   *)
(* at; a retraction takes effect where the loop meets it.                  *)
FoldedUnreadableFirst(a, s, n) ==
  IF s[n].kind = "unreadable" THEN [a EXCEPT !.unreadable = @ + 1]
  ELSE IF n \in Targets(s) \/ IsRetraction(s, n) THEN a
  ELSE Consider(a, s[n])

FoldedAsMet(a, s, n) ==
  IF \E r \in Rows(s) : r < n /\ IsRetraction(s, r) /\ s[r].says = n THEN a
  ELSE IF s[n].kind = "unreadable" THEN [a EXCEPT !.unreadable = @ + 1]
  ELSE IF IsRetraction(s, n) THEN a
  ELSE Consider(a, s[n])

(* The body of the loop.                                                   *)
Folded(a, s, n) ==
  IF n \in Targets(s) THEN a
  ELSE IF s[n].kind = "unreadable" THEN [a EXCEPT !.unreadable = @ + 1]
  ELSE IF IsRetraction(s, n) THEN a
  ELSE Consider(a, s[n])

(* evaluate_rubric, on the last explanation only.                          *)
Assessed(response) ==
  IF response = None THEN None
  ELSE [score |-> Cardinality(Matched[response]),
        mastered |-> Cardinality(Matched[response]) >= Threshold]

(* Mutant: the furthest step is how many steps were seen.                  *)
ProjectedByCount(a, s) ==
  [fold |-> a, retracted |-> Cardinality(Targets(s)),
   last |-> IF Rows(s) = {} THEN None ELSE Greatest(Rows(s)),
   furthest |-> IF a.steps = {} THEN None ELSE Cardinality(a.steps),
   mastery |-> Assessed(a.post)]

Projected(a, s) ==
  [fold |-> a, retracted |-> Cardinality(Targets(s)),
   last |-> IF Rows(s) = {} THEN None ELSE Greatest(Rows(s)),
   furthest |-> IF a.steps = {} THEN None ELSE Greatest(a.steps),
   mastery |-> Assessed(a.post)]

-----------------------------------------------------------------------------
(* Rows of an older vocabulary come before everything written since.       *)
Init ==
  /\ \E n \in Place \cup {0} :
       record = [m \in Place |-> IF m <= n THEN Unreadable ELSE NoRow]
  /\ phase = "idle"
  /\ stream = EmptyStream
  /\ todo = {}
  /\ acc = EmptyFold
  /\ seen = EmptyStream
  /\ view = Projected(EmptyFold, EmptyStream)

(* A write commits.  Sequence values are drawn at the INSERT and become    *)
(* visible at the commit, so in any order; but what a retraction names was *)
(* committed before the retraction drew its own.                           *)
Write ==
  /\ \E n \in Place, row \in Contract :
       /\ record[n] = NoRow
       /\ \A m \in Rows(record) : record[m] = Unreadable => m < n
       /\ row.kind = "evidence.retracted" /\ row.says # Elsewhere =>
            row.says \in Rows(record) /\ row.says < n
       /\ record' = [record EXCEPT ![n] = row]
  /\ UNCHANGED <<phase, stream, todo, acc, seen, view>>

(* list_for_learner_concept: one statement, a snapshot.                    *)
(* Mutant: only what was recorded since the last view.                     *)
ReadSince(s) ==
  [n \in Place |-> IF \A m \in Rows(seen) : m < n THEN s[n] ELSE NoRow]
ReadAll(s) == s

Read ==
  /\ phase = "idle"
  /\ phase' = "replay"
  /\ stream' = ReadAll(record)
  /\ todo' = Rows(stream')
  /\ acc' = EmptyFold
  /\ UNCHANGED <<record, seen, view>>

Loop ==
  /\ phase = "replay" /\ todo # {}
  /\ LET n == Least(todo)
     IN  /\ acc' = Folded(acc, stream, n)
         /\ todo' = todo \ {n}
  /\ UNCHANGED <<record, phase, stream, seen, view>>

Return ==
  /\ phase = "replay" /\ todo = {}
  /\ phase' = "idle"
  /\ seen' = stream
  /\ view' = Projected(acc, stream)
  /\ stream' = EmptyStream
  /\ acc' = EmptyFold
  /\ UNCHANGED <<record, todo>>

Next == Write \/ Read \/ Loop \/ Return

Spec == Init /\ [][Next]_vars

-----------------------------------------------------------------------------
(* PROPERTIES                                                              *)

(* The events that count, said without a loop: readable, no retraction,    *)
(* and named by no retraction, wherever that stands in the stream.         *)
Counts(s, n) ==
  /\ n \in Rows(s)
  /\ s[n] # Unreadable
  /\ ~IsRetraction(s, n)
  /\ \A r \in Rows(s) : IsRetraction(s, r) => s[r].says # n

CountsAs(s, n, kind) == Counts(s, n) /\ s[n].kind = kind

(* The value of the field is what the newest of these events says.         *)
Newest(field, s, S, kind) ==
  IF field = None
    THEN \A n \in S : ~CountsAs(s, n, kind)
    ELSE \E n \in S : /\ CountsAs(s, n, kind)
                      /\ s[n].says = field
                      /\ \A m \in S : CountsAs(s, m, kind) => m <= n

(* In the order in which each was first performed, each once.              *)
InOrderPerformed(ids, s, S) ==
  LET Of(id) == {n \in S : /\ CountsAs(s, n, "experiment.performed")
                           /\ s[n].says = id}
  IN  /\ \A id \in Experiment :
           Of(id) # {} <=> \E i \in DOMAIN ids : ids[i] = id
      /\ \A i, j \in DOMAIN ids : i < j =>
           \E n \in Of(ids[i]) : \A m \in Of(ids[j]) : n < m

(* What the fold of the rows S of a stream must hold.                      *)
Faithful(a, s, S) ==
  /\ a.steps = {s[n].says : n \in {m \in S : CountsAs(s, m, "step.viewed")}}
  /\ InOrderPerformed(a.experiments, s, S)
  /\ Newest(a.pre, s, S, "pre")
  /\ Newest(a.post, s, S, "post")
  /\ a.completed <=> \E n \in S : CountsAs(s, n, "lesson.completed")

(* domain/progress.py:92, ADR-0007 D5: the view is a function of what is   *)
(* recorded.  Every view returned holds what the counted rows of one       *)
(* snapshot say, and nothing a retracted row said survives in it.          *)
ViewIsFaithful ==
  /\ Faithful(view.fold, seen, Rows(seen))
  /\ view.mastery = Assessed(view.fold.post)

(* Nothing of the stream disappears from the books: every row is either    *)
(* considered, or unreadable, or retracted, or a retraction.               *)
EveryRowAccountedFor ==
  Cardinality(Rows(seen)) =
      view.fold.considered + view.fold.unreadable
    + Cardinality(Rows(seen) \cap Targets(seen))
    + Cardinality({n \in Rows(seen) \ Targets(seen) : IsRetraction(seen, n)})

(* Only a retraction takes anything back: from one view to the next a      *)
(* learner keeps every step, experiment, answer and completion unless a    *)
(* retraction was recorded between them, in whatever order rows commit.    *)
OnlyRetractionsTakeBack ==
  [][Targets(seen') \subseteq Targets(seen) =>
       /\ view.fold.steps \subseteq view'.fold.steps
       /\ \A i \in DOMAIN view.fold.experiments :
            \E j \in DOMAIN view'.fold.experiments :
              view'.fold.experiments[j] = view.fold.experiments[i]
       /\ view.fold.pre # None => view'.fold.pre # None
       /\ view.fold.post # None => view'.fold.post # None
       /\ view.fold.completed => view'.fold.completed]_vars

=============================================================================
