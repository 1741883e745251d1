---------------------------- MODULE LessonRuntime ----------------------------
(***************************************************************************)
(* The lesson page in the browser: one mounted LessonRuntime after the     *)
(* other, in one or more tabs, sharing the learner id in localStorage and  *)
(* the evidence record behind the API.                                     *)
(*                                                                         *)
(* A page awaits its requests: bootstrap is a chain of them, and every     *)
(* deed of the learner starts another chain.  The record is what           *)
(* EvidenceLedger says of it, each request atomic at the server.           *)
(***************************************************************************)
EXTENDS Naturals, FiniteSets, Sequences

CONSTANTS
  Learner,      \* learner ids the server can mint
  Tab,          \* browser tabs
  MaxPages,     \* bound: how often the component is mounted
  MaxDeeds,     \* bound: what the learner does that is recorded
  MaxMishaps,   \* bound: failed and late requests, erased learners
  Steps,        \* the number of authored steps
  Experiments,  \* the indexes of those that have an experiment
  TabOf,        \* the tab a page is mounted in
  None          \* "no value"

Page      == 1..MaxPages
StepIndex == 0..(Steps - 1)
Last      == Steps + 1    \* lastPosition
Position  == 0..Last
Thread    == 0..MaxDeeds  \* 0 is bootstrap, k the record call of deed k

ASSUME LessonAssumption ==
  /\ {MaxPages, MaxDeeds, MaxMishaps, Steps} \subseteq Nat
  /\ Experiments \subseteq StepIndex
  /\ TabOf \in [Page -> Tab]
  /\ None \notin Learner

VARIABLES
  stored,   \* localStorage: academy.learnerId
  learner,  \* at the server: which learners exist
  stream,   \* at the server: the evidence of each, in order.  An erased
            \* stream stays here as history; no request can read it
  page,     \* the mounted components
  calls,    \* the request each thread of a page is waiting for
  acked,    \* history: the events a page was told, while it was mounted,
            \* are recorded
  haunted,  \* history: a page that was gone has replaced the learner id
  mishaps   \* how many there have been

vars == <<stored, learner, stream, page, calls, acked, haunted, mishaps>>

(* What a learner does that is recorded: steps are told apart by index,    *)
(* reflections not by phase; an experiment and the end are "other".        *)
Deed == [kind : {"step"}, step : StepIndex]
          \cup [kind : {"reflection", "other"}, step : {None}]

(* Event <<p, k>> is deed k of page p; <<p, 0>> is its lesson.started.     *)
Event == Page \X Thread

Mounted    == {"loading", "ready", "unavailable"}
PageStatus == Mounted \cup {"unopened", "left"}

PageState ==
  [status : PageStatus,
   session : Learner \cup {None},   \* sessionId and learnerId, set together
   position : Position,
   marked : SUBSET StepIndex,       \* recordedSteps
   deeds : Seq(Deed),               \* history: what was done on this page
   alert : BOOLEAN,                 \* failure is shown
   saving : Thread,                 \* the deed the flag waits for; 0: unset
   shown : Nat]                     \* how much of the stream progress shows

(* A request in flight, and what the server answered.  "late": the page    *)
(* has given up, the server may not have.                                  *)
Request == {"none", "confirm", "create", "resume", "progress", "append"}
Stage   == {"idle", "sent", "answered", "late"}

CallState ==
  [ask : Request, at : Stage,
   id : Learner \cup {None}, found : BOOLEAN, seen : Nat]

TypeOK ==
  /\ stored \in Learner \cup {None}
  /\ learner \in [Learner -> {"unborn", "known", "erased"}]
  /\ stream \in [Learner -> Seq(Event)]
  /\ page \in [Page -> PageState]
  /\ calls \in [Page -> [Thread -> CallState]]
  /\ acked \subseteq Event
  /\ haunted \in BOOLEAN
  /\ mishaps \in 0..MaxMishaps

-----------------------------------------------------------------------------
Idle == [ask |-> "none", at |-> "idle", id |-> None, found |-> FALSE, seen |-> 0]

Sent(ask, l) == [Idle EXCEPT !.ask = ask, !.at = "sent", !.id = l]

Fresh(status) ==
  [status |-> status, session |-> None, position |-> 0, marked |-> {},
   deeds |-> <<>>, alert |-> FALSE, saving |-> 0, shown |-> 0]

Init ==
  /\ stored = None
  /\ learner = [l \in Learner |-> "unborn"]
  /\ stream = [l \in Learner |-> <<>>]
  /\ page = [p \in Page |-> Fresh("unopened")]
  /\ calls = [p \in Page |-> [k \in Thread |-> Idle]]
  /\ acked = {}
  /\ haunted = FALSE
  /\ mishaps = 0

IsMounted(p) == page[p].status \in Mounted
Answered(p, k, ask) == calls[p][k].at = "answered" /\ calls[p][k].ask = ask

Continue(p, k, call) == calls' = [calls EXCEPT ![p][k] = call]

(* A setState of a component that is gone does nothing.                    *)
Show(p, state) ==
  page' = IF IsMounted(p) THEN [page EXCEPT ![p] = state] ELSE page

Acknowledge(p, k) == acked' = IF IsMounted(p) THEN acked \cup {<<p, k>>} ELSE acked

DeedOf(e) == page[e[1]].deeds[e[2]]
IsA(e, kind) == e[2] # 0 /\ DeedOf(e).kind = kind

(* stepsViewed and furthestStepIndex of the projection of n events.        *)
StepsViewed(l, n) ==
  {DeedOf(e).step : e \in {x \in {stream[l][i] : i \in 1..n} : IsA(x, "step")}}

Furthest(S) == CHOOSE i \in S : \A j \in S : j <= i

-----------------------------------------------------------------------------
(* The server, one request at a time.                                      *)

Reply(p, k, l, found, seen) ==
  Continue(p, k, IF calls[p][k].at = "late" THEN Idle
                 ELSE [calls[p][k] EXCEPT !.at = "answered", !.id = l,
                                          !.found = found, !.seen = seen])

Asked(p, k) == calls[p][k].at \in {"sent", "late"}

(* A new id; ids are interchangeable, so it does not matter which.         *)
CreateLearner(p, k) ==
  /\ Asked(p, k) /\ calls[p][k].ask = "create"
  /\ \E l \in Learner : learner[l] = "unborn"
  /\ LET l == CHOOSE x \in Learner : learner[x] = "unborn"
     IN  /\ learner' = [learner EXCEPT ![l] = "known"]
         /\ Reply(p, k, l, TRUE, 0)
  /\ UNCHANGED <<stored, stream, page, acked, haunted, mishaps>>

AppendEvent(p, k) ==
  LET l == calls[p][k].id
  IN  /\ Asked(p, k) /\ calls[p][k].ask = "append" /\ learner[l] = "known"
      /\ stream' = [stream EXCEPT ![l] = Append(@, <<p, k>>)]
      /\ Reply(p, k, l, TRUE, 0)
      /\ UNCHANGED <<stored, learner, page, acked, haunted, mishaps>>

ReadRecord(p, k) ==
  LET l == calls[p][k].id
  IN  /\ Asked(p, k) /\ calls[p][k].ask \in {"confirm", "resume", "progress"}
      /\ learner[l] = "known"
      /\ Reply(p, k, l, TRUE,
               IF calls[p][k].ask = "progress" THEN Len(stream[l]) ELSE 0)
      /\ UNCHANGED <<stored, learner, stream, page, acked, haunted, mishaps>>

(* 404: the learner, or the session of the learner, does not exist.        *)
NotFound(p, k) ==
  LET l == calls[p][k].id
  IN  /\ Asked(p, k) /\ calls[p][k].ask # "create" /\ learner[l] # "known"
      /\ Reply(p, k, l, FALSE, 0)
      /\ UNCHANGED <<stored, learner, stream, page, acked, haunted, mishaps>>

Serve(p, k) == CreateLearner(p, k) \/ AppendEvent(p, k) \/ ReadRecord(p, k)
                 \/ NotFound(p, k)

Mishap == mishaps < MaxMishaps /\ mishaps' = mishaps + 1    \* bound

(* An operator erases a learner, or the database is replaced.              *)
Erase(l) ==
  /\ learner[l] = "known"
  /\ learner' = [learner EXCEPT ![l] = "erased"]
  /\ Mishap
  /\ UNCHANGED <<stored, stream, page, calls, acked, haunted>>

-----------------------------------------------------------------------------
(* bootstrap.                                                              *)

(* A page is mounted: the id in localStorage is confirmed, not trusted.    *)
Mount(p) ==
  /\ page[p].status = "unopened"
  /\ \A q \in Page : TabOf[q] = TabOf[p] =>
       ~IsMounted(q) /\ (q < p => page[q].status # "unopened")
  /\ page' = [page EXCEPT ![p].status = "loading"]
  /\ Continue(p, 0, IF stored = None THEN Sent("create", None)
                                     ELSE Sent("confirm", stored))
  /\ UNCHANGED <<stored, learner, stream, acked, haunted, mishaps>>

(* storeLearnerId, whether or not the page is still there.                 *)
(* Mutant: an id that is in localStorage already is kept.                  *)
StoredUnlessSet(l) == IF stored = None THEN l ELSE stored
Stored(l) == l

Store(p, l) ==
  /\ stored' = Stored(l)
  /\ haunted' = (haunted \/ (~IsMounted(p) /\ stored \notin {None, l}))
  /\ Continue(p, 0, IF IsMounted(p) THEN Sent("resume", l) ELSE Idle)

(* The stored id can outlive the database it came from.                    *)
Confirmed(p) ==
  LET c == calls[p][0]
  IN  /\ Answered(p, 0, "confirm")
      /\ IF c.found THEN Store(p, c.id)
         ELSE Continue(p, 0, Sent("create", None)) /\ UNCHANGED <<stored, haunted>>
      /\ UNCHANGED <<learner, stream, page, acked, mishaps>>

Created(p) ==
  /\ Answered(p, 0, "create")
  /\ Store(p, calls[p][0].id)
  /\ UNCHANGED <<learner, stream, page, acked, mishaps>>

Resumed(p) ==
  /\ Answered(p, 0, "resume") /\ calls[p][0].found
  /\ Continue(p, 0, Sent("progress", calls[p][0].id))
  /\ UNCHANGED <<stored, learner, stream, page, acked, haunted, mishaps>>

(* Mutant: the furthest step's index is taken for its position.            *)
ResumeAtIndex(viewed) == IF viewed = {} THEN 0 ELSE Furthest(viewed)
ResumeAt(viewed) ==
  IF viewed = {} THEN 0
  ELSE LET next == Furthest(viewed) + 1 IN IF next <= Last THEN next ELSE Last

(* Progress has arrived: the page is ready, unless it is gone.  An empty   *)
(* stream gets its lesson.started.                                         *)
Loaded(p) ==
  LET c == calls[p][0]
      viewed == StepsViewed(c.id, c.seen)
  IN  /\ Answered(p, 0, "progress") /\ c.found
      /\ page[p].status = "loading"
      /\ page' = [page EXCEPT ![p].status = "ready", ![p].session = c.id,
                              ![p].shown = c.seen, ![p].marked = viewed,
                              ![p].position = ResumeAt(viewed)]
      /\ Continue(p, 0, IF c.seen = 0 THEN Sent("append", c.id) ELSE Idle)
      /\ UNCHANGED <<stored, learner, stream, acked, haunted, mishaps>>

Started(p) ==
  /\ Answered(p, 0, "append") /\ calls[p][0].found
  /\ Acknowledge(p, 0)
  /\ Continue(p, 0, Sent("progress", calls[p][0].id))
  /\ UNCHANGED <<stored, learner, stream, page, haunted, mishaps>>

(* refreshProgress after lesson.started.                                   *)
Refreshed(p) ==
  /\ Answered(p, 0, "progress") /\ calls[p][0].found
  /\ page[p].status # "loading"
  /\ Show(p, [page[p] EXCEPT !.shown = calls[p][0].seen])
  /\ Continue(p, 0, Idle)
  /\ UNCHANGED <<stored, learner, stream, acked, haunted, mishaps>>

(* The outer catch.  Mutant: the page stays as it is.                      *)
BootFailedUntold(state) == [state EXCEPT !.alert = TRUE]
BootFailed(state) == [state EXCEPT !.alert = TRUE, !.status = "unavailable"]

-----------------------------------------------------------------------------
(* record and what calls it.                                               *)

Usable(p) == page[p].status \in {"ready", "unavailable"}
Deeds == {e \in Page \X Thread : e[2] \in DOMAIN page[e[1]].deeds}
HasRoom == Cardinality(Deeds) < MaxDeeds    \* bound: afterwards nobody moves

(* Without a session record returns at once.                               *)
Record(p, state, kind, step) ==
  /\ HasRoom
  /\ page' = [page EXCEPT ![p] =
       [state EXCEPT !.deeds = Append(@, [kind |-> kind, step |-> step])]]
  /\ IF state.session = None THEN UNCHANGED calls
     ELSE Continue(p, Len(state.deeds) + 1, Sent("append", state.session))

(* goTo: a step is marked as recorded before its write is sent.            *)
(* Mutants: the buttons at the ends are live; nothing is marked.           *)
NeighboursUnclamped(n) == {n - 1, n + 1}
Neighbours(n) == {n - 1, n + 1} \cap Position
MarkedNever(S, i) == S
Marked(S, i) == S \cup {i}

GoTo(p) ==
  /\ Usable(p) /\ HasRoom
  /\ \E next \in Neighbours(page[p].position) :
       LET i == next - 1
           moved == [page[p] EXCEPT !.position = next]
       IN  IF i \in StepIndex \ page[p].marked
             THEN Record(p, [moved EXCEPT !.marked = Marked(@, i)], "step", i)
             ELSE page' = [page EXCEPT ![p] = moved] /\ UNCHANGED calls
  /\ UNCHANGED <<stored, learner, stream, acked, haunted, mishaps>>

(* Mutant: the buttons are not disabled while an answer is being saved.    *)
NotSavingUnchecked(p) == TRUE
NotSaving(p) == page[p].saving = 0

Submit(p) ==
  /\ Usable(p) /\ NotSaving(p) /\ page[p].position \in {0, Last}
  /\ Record(p, [page[p] EXCEPT !.saving = IF page[p].session = None THEN 0
                                          ELSE Len(page[p].deeds) + 1],
            "reflection", None)
  /\ UNCHANGED <<stored, learner, stream, acked, haunted, mishaps>>

Experiment(p) ==
  /\ Usable(p) /\ page[p].position - 1 \in Experiments
  /\ Record(p, page[p], "other", None)
  /\ UNCHANGED <<stored, learner, stream, acked, haunted, mishaps>>

Finish(p) ==
  /\ Usable(p) /\ NotSaving(p) /\ page[p].position = Last
  /\ Record(p, page[p], "other", None)
  /\ UNCHANGED <<stored, learner, stream, acked, haunted, mishaps>>

Saved(p, k) ==
  /\ k # 0 /\ Answered(p, k, "append") /\ calls[p][k].found
  /\ Acknowledge(p, k)
  /\ Continue(p, k, Sent("progress", calls[p][k].id))
  /\ UNCHANGED <<stored, learner, stream, page, haunted, mishaps>>

NoLongerSaving(state, k) ==
  [state EXCEPT !.saving = IF @ = k THEN 0 ELSE @]

Updated(p, k) ==
  /\ k # 0 /\ Answered(p, k, "progress") /\ calls[p][k].found
  /\ Show(p, NoLongerSaving([page[p] EXCEPT !.shown = calls[p][k].seen,
                                            !.alert = FALSE], k))
  /\ Continue(p, k, Idle)
  /\ UNCHANGED <<stored, learner, stream, acked, haunted, mishaps>>

(* record's catch.  Mutant: nothing is shown.                              *)
RecordFailedUntold(state, k) == NoLongerSaving(state, k)
RecordFailed(state, k) == NoLongerSaving([state EXCEPT !.alert = TRUE], k)

Throw(p, k) ==
  Show(p, IF k = 0 THEN BootFailed(page[p]) ELSE RecordFailed(page[p], k))

(* A 404 throws, except where bootstrap asks for the stored id.            *)
Refused(p, k) ==
  /\ calls[p][k].at = "answered" /\ ~calls[p][k].found
  /\ calls[p][k].ask # "confirm"
  /\ Throw(p, k)
  /\ Continue(p, k, Idle)
  /\ UNCHANGED <<stored, learner, stream, acked, haunted, mishaps>>

(* The network fails, or a 500.  The server may get to a write later.      *)
Fail(p, k) ==
  /\ calls[p][k].at = "sent"
  /\ Mishap
  /\ Throw(p, k)
  /\ \/ Continue(p, k, Idle)
     \/ /\ calls[p][k].ask = "append"
        /\ Continue(p, k, [calls[p][k] EXCEPT !.at = "late"])
  /\ UNCHANGED <<stored, learner, stream, acked, haunted>>

-----------------------------------------------------------------------------
(* What a component that is gone reads changes nothing, so of its requests *)
(* only its writes are followed, and those whose answer it stores.         *)
Written(c) ==
  IF c.at = "late" THEN c
  ELSE IF c.ask = "append" /\ c.at = "sent" THEN [c EXCEPT !.at = "late"] ELSE Idle

Afterwards(c) == IF c.ask \in {"confirm", "create"} THEN c ELSE Written(c)

Gone(p) == [Fresh("left") EXCEPT !.deeds = page[p].deeds]

(* A link of the site: the component is unmounted, its requests run on.    *)
Leave(p) ==
  /\ IsMounted(p)
  /\ page' = [page EXCEPT ![p] = Gone(p)]
  /\ calls' = [calls EXCEPT ![p] = [k \in Thread |-> Afterwards(calls[p][k])]]
  /\ UNCHANGED <<stored, learner, stream, acked, haunted, mishaps>>

(* A reload ends the tab's components and what they run; a write that is   *)
(* on the wire may arrive.                                                 *)
Reload(t) ==
  LET OfTab(p) == TabOf[p] = t /\ page[p].status # "unopened"
  IN  /\ \E p \in Page : OfTab(p) /\ (IsMounted(p) \/ calls[p][0].ask \in {"confirm", "create"})
      /\ page' = [p \in Page |-> IF OfTab(p) THEN Gone(p) ELSE page[p]]
      /\ calls' = [p \in Page |-> [k \in Thread |->
           IF OfTab(p) THEN Written(calls[p][k]) ELSE calls[p][k]]]
      /\ UNCHANGED <<stored, learner, stream, acked, haunted, mishaps>>

Boot(p)    == Confirmed(p) \/ Created(p) \/ Resumed(p) \/ Loaded(p) \/ Started(p)
                \/ Refreshed(p)
Handle(p, k) == Saved(p, k) \/ Updated(p, k) \/ Refused(p, k)
Act(p)     == GoTo(p) \/ Submit(p) \/ Experiment(p) \/ Finish(p)

Next ==
  \/ \E p \in Page : Mount(p) \/ Boot(p) \/ Act(p) \/ Leave(p)
  \/ \E p \in Page, k \in Thread : Serve(p, k) \/ Handle(p, k) \/ Fail(p, k)
  \/ \E l \in Learner : Erase(l)
  \/ \E t \in Tab : Reload(t)

Spec == Init /\ [][Next]_vars

-----------------------------------------------------------------------------
(* PROPERTIES                                                              *)

Holds(l, e) == learner[l] = "known" /\ \E i \in DOMAIN stream[l] : stream[l][i] = e

(* What a page was told is recorded belongs to the learner this browser    *)
(* will ask for next time, unless that learner has been erased: if no page *)
(* replaces the id after it was left (lesson-runtime.tsx:80-84).           *)
EvidenceStaysReachable ==
  haunted \/ \A e \in acked, l \in Learner : Holds(l, e) => l = stored

(* lesson-runtime.tsx:94-97: a page that becomes ready does not resume     *)
(* before a step that an earlier page was told is recorded.                *)
ReturningLearnersResume ==
  [][\A p \in Page : page[p].status = "loading" /\ page'[p].status = "ready" =>
       \A e \in acked, l \in Learner :
         Holds(l, e) /\ IsA(e, "step") =>
           haunted \/ page'[p].position >= DeedOf(e).step + 1]_vars

(* lesson-runtime.tsx:41, 91: however the learner walks back and forth,    *)
(* and whatever fails, no page records a step twice, nor a step that an    *)
(* earlier page of its tab was told is recorded.                           *)
NothingRecordedTwice ==
  \A l \in Learner : \A i, j \in DOMAIN stream[l] :
    LET e == stream[l][i]
        f == stream[l][j]
    IN  /\ i # j /\ IsA(e, "step") /\ IsA(f, "step")
        /\ \/ e[1] = f[1]
           \/ e[1] < f[1] /\ TabOf[e[1]] = TabOf[f[1]] /\ e \in acked
        => DeedOf(e).step # DeedOf(f).step

IsAckedAnswer(e) == e \in acked /\ IsA(e, "reflection")

(* lesson-runtime.tsx:144-149: the projection keeps the last answer of a   *)
(* stream.  Of the answers a page was told are recorded, that is the last  *)
(* one submitted on it.                                                    *)
AcknowledgedAnswersInOrder ==
  \A l \in Learner : \A i, j \in DOMAIN stream[l] :
    LET e == stream[l][i]
        f == stream[l][j]
    IN  i < j /\ e[1] = f[1] /\ IsAckedAnswer(e) /\ IsAckedAnswer(f) => e[2] < f[2]

Waits(c) == c.at \in {"sent", "answered"}

(* lesson-runtime.tsx:120-132: when record returns, the page shows a       *)
(* progress that includes the deed, or an alert.                           *)
EveryWriteIsAnswered ==
  [][\A p \in Page, k \in Thread \ {0} :
       Waits(calls[p][k]) /\ ~Waits(calls'[p][k]) /\ page'[p].status \in Mounted =>
         \/ page'[p].alert
         \/ \E i \in 1..page'[p].shown : stream[page[p].session][i] = <<p, k>>]_vars

(* lesson-runtime.tsx:107-111, 146-148: a page that prepares the lesson,   *)
(* or keeps its buttons disabled, is waiting for an answer: it cannot do   *)
(* either for ever while requests end.                                     *)
NeverStuck ==
  \A p \in Page :
    /\ page[p].status = "loading" => Waits(calls[p][0])
    /\ page[p].saving # 0 => Waits(calls[p][page[p].saving])

Quiet(p) == \A k \in Thread : calls[p][k].at \in {"idle", "late"}

(* e2e/degradation.spec.ts:5: "when writes cannot land the page must say   *)
(* so rather than silently dropping what the learner did."                 *)
DroppedWritesAreTold ==
  \A p \in Page : Usable(p) /\ Quiet(p) /\ ~page[p].alert =>
    \A k \in DOMAIN page[p].deeds :
      \E l \in Learner : \E i \in DOMAIN stream[l] : stream[l][i] = <<p, k>>

=============================================================================
