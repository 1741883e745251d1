--------------------------- MODULE TutoringProofs ---------------------------
(***************************************************************************)
(* Proofs about Tutoring for any lessons, editions, requests, probes and   *)
(* number of changes: TInv is inductive, and the safety properties follow  *)
(* from it.                                                                *)
(***************************************************************************)
EXTENDS Tutoring, WellFoundedInduction, TLAPS

-----------------------------------------------------------------------------
(* The provider, as a function.                                            *)

(* A set of positions that is not empty has a first one.                   *)
LEMMA FirstExists ==
  ASSUME NEW S, S \subseteq Nat, S # {}
  PROVE  \E i \in S : \A j \in S : i <= j
<1>1. IsWellFoundedOn(OpToRel(<, Nat), Nat)
  BY NatLessThanWellFounded
<1>2. PICK i \in S : \A j \in S : ~(<<j, i>> \in OpToRel(<, Nat))
  BY <1>1, WFMin
<1>3. \A j \in S : ~(j < i)
  BY <1>2 DEF OpToRel
<1> QED BY <1>3

(* The check asked about is one of the lesson; it is open if any of the    *)
(* lesson's checks is.                                                     *)
LEMMA NextUnmetOpen ==
  ASSUME NEW lesson, IsLesson(lesson), NEW unmet
  PROVE  /\ NextUnmet(lesson, unmet) \in ChecksOf(lesson)
         /\ NextUnmet(lesson, unmet) \in Check
         /\ \/ NextUnmet(lesson, unmet) \in unmet
            \/ ChecksOf(lesson) \cap unmet = {}
<1> DEFINE open == {i \in DOMAIN lesson.checks : lesson.checks[i] \in unmet}
<1>1. /\ lesson.checks \in Seq(Check) /\ lesson.checks # <<>>
      /\ DOMAIN lesson.checks = 1..Len(lesson.checks)
      /\ 1 \in DOMAIN lesson.checks
  BY DEF IsLesson
<1>2. CASE open = {}
  <2>1. NextUnmet(lesson, unmet) = lesson.checks[1]
    BY <1>2 DEF NextUnmet
  <2>2. ChecksOf(lesson) \cap unmet = {}
    BY <1>2 DEF ChecksOf
  <2> QED BY <1>1, <2>1, <2>2 DEF ChecksOf
<1>3. CASE open # {}
  <2> DEFINE first == CHOOSE i \in open : \A j \in open : i <= j
  <2>1. open \subseteq Nat
    BY <1>1
  <2>2. first \in open
    BY <1>3, <2>1, FirstExists
  <2>3. NextUnmet(lesson, unmet) = lesson.checks[first]
    BY <1>3 DEF NextUnmet
  <2> HIDE DEF first
  <2> QED BY <1>1, <2>2, <2>3 DEF ChecksOf
<1> QED BY <1>2, <1>3

(* Good(a, lesson, unmet): a is an answer; what it asks about is of the    *)
(* lesson, and open if it claims evidence.                                 *)
Good(a, lesson, unmet) ==
  /\ a \in AnswerState
  /\ a.check # None => a.check \in ChecksOf(lesson)
  /\ a.check # None /\ a.usedEvidence =>
       /\ unmet # None
       /\ a.check \in unmet \/ ChecksOf(lesson) \cap unmet = {}

(* Whatever is asked, of whichever lesson and with whatever evidence.      *)
LEMMA RespondIsGood ==
  ASSUME NEW request \in TutorRequest, NEW lesson, IsLesson(lesson), NEW unmet
  PROVE  Good(Respond(request, lesson, unmet), lesson, unmet)
<1>1. Good(Guidance, lesson, unmet)
  BY DEF Guidance, Answer, Good, AnswerState
<1>2. Good(OutOfScope, lesson, unmet)
  BY DEF OutOfScope, Answer, Good, AnswerState
<1>3. Good(SocraticQuestion(lesson, unmet), lesson, unmet)
  <2> DEFINE c == IF unmet = None THEN lesson.checks[1] ELSE NextUnmet(lesson, unmet)
             a == SocraticQuestion(lesson, unmet)
  <2>1. /\ c \in ChecksOf(lesson) /\ c \in Check
        /\ unmet # None => c \in unmet \/ ChecksOf(lesson) \cap unmet = {}
    <3>1. lesson.checks \in Seq(Check) /\ 1 \in DOMAIN lesson.checks
      BY DEF IsLesson
    <3> QED BY <3>1, NextUnmetOpen DEF ChecksOf
  <2>2. a = [check |-> c, usedEvidence |-> (unmet # None), supported |-> TRUE]
    BY DEF SocraticQuestion, Answer
  <2> HIDE DEF a, c
  <2>3. /\ a \in AnswerState
        /\ a.check = c /\ a.usedEvidence = (unmet # None)
    BY <2>1, <2>2 DEF AnswerState
  <2>4. Good(a, lesson, unmet)
    BY <2>1, <2>3 DEF Good
  <2> QED BY <2>4 DEF a
<1> QED BY <1>1, <1>2, <1>3 DEF Respond

-----------------------------------------------------------------------------
(* The probes and the lifespan.                                            *)

(* A probe under way has seen the database as it is, and what it noted of  *)
(* the database is among what it has seen.                                 *)
ProbesOK ==
  \A p \in Probe :
    /\ ~Resting(p) => database \in probe[p].seen
    /\ probe[p].at = "pinging" => probe[p].database \in probe[p].seen

DInv == DependenciesTypeOK /\ ProbesOK /\ ReadinessTellsTheDatabase

LEMMA DInvInit == DependenciesInit => DInv
<1> SUFFICES ASSUME DependenciesInit PROVE DInv
  OBVIOUS
<1>1. NoProbe \in ProbeState
  BY DEF NoProbe, ProbeState, Stage, CacheAnswer, ProbeCode
<1>2. 0 \in 0..MaxChanges
  BY DependenciesAssumption
<1>3. DependenciesTypeOK
  BY <1>1, <1>2 DEF DependenciesInit, DependenciesTypeOK, Reachable
<1>4. \A p \in Probe : probe[p].at = "idle"
  BY DEF DependenciesInit, NoProbe
<1> QED
  BY <1>3, <1>4 DEF DInv, ProbesOK, Resting, ReadinessTellsTheDatabase,
     DependenciesInit

(* What a probe does, in one record: it moves, notes, is answered.         *)
LEMMA ProbeMoves ==
  ASSUME DInv, NEW p \in Probe, NEW q \in ProbeState,
         probe' = [probe EXCEPT ![p] = q],
         UNCHANGED <<database, redis, process, engine, cache, changes>>,
         q.at \in {"checking", "pinging"} => database \in q.seen,
         q.at = "pinging" => q.database \in q.seen,
         q.at = "answered" => \/ q.status = 200 /\ "up" \in q.seen
                              \/ q.status = 503 /\ "down" \in q.seen
  PROVE  DInv'
<1>1. \A o \in Probe : probe'[o] = IF o = p THEN q ELSE probe[o]
  BY DEF DInv, DependenciesTypeOK
<1>2. DependenciesTypeOK'
  BY DEF DInv, DependenciesTypeOK
<1>3. q.at \in {"idle", "checking", "pinging", "answered"}
  BY DEF ProbeState, Stage
<1> QED
  BY <1>1, <1>2, <1>3 DEF DInv, ProbesOK, Resting, ReadinessTellsTheDatabase

LEMMA SendProbeStep ==
  ASSUME DInv, NEW p \in Probe, SendProbe(p)
  PROVE  DInv'
<1> DEFINE q == [probe[p] EXCEPT !.at = "checking", !.seen = {database}]
<1>1. probe[p] \in ProbeState /\ database \in Reachable
  BY DEF DInv, DependenciesTypeOK
<1>a. "checking" \in Stage
  BY DEF Stage
<1>2. q \in ProbeState /\ q.at = "checking" /\ q.seen = {database}
  BY <1>1, <1>a DEF ProbeState
<1>3. probe' = [probe EXCEPT ![p] = q]
  BY DEF SendProbe
<1> HIDE DEF q
<1> QED BY <1>2, <1>3, ProbeMoves DEF SendProbe

(* Every way in which the database can fail to answer is told as one.      *)
LEMMA CheckDatabaseStep ==
  ASSUME DInv, NEW p \in Probe, CheckDatabase(p)
  PROVE  DInv'
<1> DEFINE q == [probe[p] EXCEPT !.at = "pinging", !.database = database]
<1>1. probe[p] \in ProbeState /\ database \in Reachable /\ database \in probe[p].seen
  BY DEF DInv, DependenciesTypeOK, ProbesOK, Resting, CheckDatabase
<1>a. "pinging" \in Stage
  BY DEF Stage
<1>2. /\ q \in ProbeState /\ q.at = "pinging" /\ q.seen = probe[p].seen
      /\ q.database = database
  BY <1>1, <1>a DEF ProbeState
<1>3. probe' = [probe EXCEPT ![p] = q]
  BY DEF CheckDatabase, Raised, Caught
<1> HIDE DEF q
<1> QED BY <1>1, <1>2, <1>3, ProbeMoves DEF CheckDatabase

LEMMA PingCacheStep ==
  ASSUME DInv, NEW p \in Probe, PingCache(p)
  PROVE  DInv'
<1>1. /\ probe[p] \in ProbeState /\ probe[p].database \in probe[p].seen
      /\ probe[p].seen \subseteq Reachable
  BY DEF DInv, DependenciesTypeOK, ProbesOK, PingCache, ProbeState
<1>2. PICK c, st :
        /\ c = IF cache = "disabled" THEN "disabled"
               ELSE IF Ping THEN "ok" ELSE "degraded"
        /\ st = IF probe[p].database = "up" THEN 200 ELSE 503
  OBVIOUS
<1>3. c \in CacheAnswer /\ st \in ProbeCode /\ "answered" \in Stage
  BY <1>2 DEF CacheAnswer, ProbeCode, Stage
<1>4. \/ st = 200 /\ "up" \in probe[p].seen
      \/ st = 503 /\ "down" \in probe[p].seen
  BY <1>1, <1>2 DEF Reachable
<1>5. probe' = [probe EXCEPT ![p].at = "answered", ![p].cache = c, ![p].status = st]
  BY <1>2 DEF PingCache
<1> DEFINE q == [probe[p] EXCEPT !.at = "answered", !.cache = c, !.status = st]
<1>6. probe' = [probe EXCEPT ![p] = q]
  BY <1>5
<1>7. /\ q \in ProbeState /\ q.at = "answered" /\ q.seen = probe[p].seen
      /\ q.status = st
  BY <1>1, <1>3 DEF ProbeState
<1> HIDE DEF q
<1>8. UNCHANGED <<database, redis, process, engine, cache, changes>>
  BY DEF PingCache
<1> QED BY <1>4, <1>6, <1>7, <1>8, ProbeMoves

LEMMA DatabaseChangesStep ==
  ASSUME DInv, DatabaseChanges
  PROVE  DInv'
<1>1. database' \in Reachable
  BY DEF DatabaseChanges, Other, Reachable
<1>2. ASSUME NEW p \in Probe
      PROVE  /\ probe'[p] \in ProbeState
             /\ probe'[p].at = probe[p].at
             /\ probe'[p].status = probe[p].status
             /\ probe'[p].database = probe[p].database
             /\ probe[p].seen \subseteq probe'[p].seen
             /\ ~Resting(p) => database' \in probe'[p].seen
  <2>1. probe[p] \in ProbeState
    BY DEF DInv, DependenciesTypeOK
  <2>2. probe'[p] = IF Resting(p) THEN probe[p]
                    ELSE [probe[p] EXCEPT !.seen = @ \cup {database'}]
    BY DEF DatabaseChanges
  <2> QED BY <1>1, <2>1, <2>2 DEF ProbeState
<1>3. changes' \in 0..MaxChanges
  BY DependenciesAssumption DEF DatabaseChanges, Change, DInv, DependenciesTypeOK
<1>4. probe' \in [Probe -> ProbeState]
  BY <1>2 DEF DatabaseChanges
<1>5. DependenciesTypeOK'
  BY <1>1, <1>3, <1>4 DEF DInv, DependenciesTypeOK, DatabaseChanges
<1> QED
  BY <1>2, <1>5 DEF DInv, ProbesOK, Resting, ReadinessTellsTheDatabase,
     DatabaseChanges

(* The lifespan, Redis, and what only counts as a change.                  *)
LEMMA LifespanStep ==
  ASSUME DInv,
         \/ Start \/ CloseCache \/ Dispose \/ RedisChanges
         \/ Change /\ UNCHANGED <<database, redis, process, engine, cache, probe>>
         \/ UNCHANGED dependencies
  PROVE  DInv'
<1>1. DependenciesTypeOK'
  <2>1. CASE Start
    BY <2>1 DEF Start, BuildCache, DInv, DependenciesTypeOK
  <2>2. CASE CloseCache \/ Dispose
    BY <2>2 DEF CloseCache, Dispose, DInv, DependenciesTypeOK
  <2>3. CASE RedisChanges
    BY <2>3, DependenciesAssumption
       DEF RedisChanges, Change, Other, DInv, DependenciesTypeOK, Reachable
  <2>4. CASE Change /\ UNCHANGED <<database, redis, process, engine, cache, probe>>
    BY <2>4, DependenciesAssumption DEF Change, DInv, DependenciesTypeOK
  <2>5. CASE UNCHANGED dependencies
    BY <2>5 DEF dependencies, DInv, DependenciesTypeOK
  <2> QED BY <2>1, <2>2, <2>3, <2>4, <2>5
<1>2. UNCHANGED <<database, probe>>
  BY DEF Start, CloseCache, Dispose, RedisChanges, dependencies
<1> QED
  BY <1>1, <1>2 DEF DInv, ProbesOK, Resting, ReadinessTellsTheDatabase

-----------------------------------------------------------------------------
(* The asks.                                                               *)

(* What an answer asks about is of the lesson that was read first, and     *)
(* open after something the learner said while the ask was under way, if   *)
(* it claims evidence.                                                     *)
AnswerOK(a) ==
  LET check  == a.answer.check
      rubric == ChecksOf(Lesson[a.read[1]])
  IN  check # None =>
        /\ check \in rubric
        /\ a.answer.usedEvidence =>
             \E said \in a.said \cap Text :
               \/ check \notin MatchedBy[said]
               \/ rubric \cap ChecksOf(Lesson[a.read[2]]) \subseteq MatchedBy[said]

(* An ask under way while e is the learner's last explanation.             *)
Sound(a, e) ==
  /\ a \in AskState
  /\ Len(a.read) <= 2
  /\ a.status = 200 <=> a.answer \in AnswerState
  /\ e \in a.said
  /\ a.at \in {"learner", "events", "severed"} => a.request.learner
  /\ a.at = "learner" => Len(a.read) = 1
  /\ a.at \in {"events", "severed"} => Len(a.read) = 2
  /\ a.at # "done" => a.status = None /\ a.answer = None
  /\ a.status = 200 => AnswerOK(a)

(* The panel waits for one ask at most, the one that was asked last.       *)
PanelOK ==
  /\ AnswerIsToTheLastAsk
  /\ \A n \in Ask \ {Client} : ask[n] # Nothing =>
       n = panel.asked /\ panel.state = "loading"

TInv ==
  /\ DInv
  /\ content \in Edition \cup {"missing", "broken"}
  /\ explanation \in Explanations
  /\ panel \in PanelState
  /\ ask \in [Ask -> AskState \cup {Nothing}]
  /\ \A n \in Ask : ask[n] # Nothing => Sound(ask[n], explanation)
  /\ PanelOK

LEMMA NotNothing ==
  ASSUME NEW a \in AskState
  PROVE  a # Nothing
BY DEF AskState, AskStage, Nothing

LEMMA NoneIsNothing ==
  /\ None \notin Code /\ None \notin AnswerState /\ None \notin Text
  /\ None \notin Check /\ None \notin Edition
BY TutoringAssumption

Refusal == {404, 422, 500}

(* A request that is refused.                                              *)
LEMMA Refused ==
  ASSUME NEW e, NEW a, Sound(a, e), a.at # "done",
         NEW st \in Refusal
  PROVE  Sound([a EXCEPT !.at = "done", !.status = st], e)
<1> DEFINE b == [a EXCEPT !.at = "done", !.status = st]
<1>1. "done" \in AskStage /\ st \in Code /\ st # 200 /\ a \in AskState
  BY DEF AskStage, Code, Refusal, Sound
<1>2. /\ b \in AskState /\ b.at = "done" /\ b.status = st /\ b.read = a.read
      /\ b.answer = a.answer /\ b.said = a.said
  BY <1>1 DEF AskState
<1> HIDE DEF b
<1>3. b.answer \notin AnswerState
  BY <1>2, NoneIsNothing DEF Sound
<1>4. Sound(b, e)
  BY <1>1, <1>2, <1>3 DEF Sound
<1> QED BY <1>4 DEF b

(* What an edition's lesson is, and its checks.                            *)
LEMMA EditionLesson ==
  ASSUME NEW ed \in Edition
  PROVE  IsLesson(Lesson[ed])
BY TutoringAssumption

(* An ask that is answered from the edition it read first, without         *)
(* evidence or with what the learner's last explanation leaves open of the *)
(* edition it read second.                                                 *)
LEMMA Helped ==
  ASSUME NEW e, NEW a, Sound(a, e), a.at # "done",
         NEW read \in Seq(Edition), 1 <= Len(read), Len(read) <= 2, NEW unmet,
         \/ unmet = None
         \/ /\ e \in Text
            /\ unmet = Unmet(Lesson[read[2]], e)
  PROVE  Sound([a EXCEPT !.at = "done", !.status = 200, !.read = read,
                  !.answer = Respond(a.request, Lesson[read[1]], unmet)], e)
<1>1. read[1] \in Edition
  OBVIOUS
<1>2. PICK r : r = Respond(a.request, Lesson[read[1]], unmet)
  OBVIOUS
<1>3. a.request \in TutorRequest /\ a \in AskState
  BY TutoringAssumption DEF Sound, AskState
<1>4. Good(r, Lesson[read[1]], unmet)
  BY <1>1, <1>2, <1>3, EditionLesson, RespondIsGood
<1> DEFINE b == [a EXCEPT !.at = "done", !.status = 200, !.read = read, !.answer = r]
<1>5. "done" \in AskStage /\ 200 \in Code /\ r \in AnswerState
  BY <1>4 DEF AskStage, Code, Good
<1>6. /\ b \in AskState /\ b.at = "done" /\ b.status = 200 /\ b.read = read
      /\ b.answer = r /\ b.said = a.said
  BY <1>3, <1>5 DEF AskState
<1> HIDE DEF b
<1>7. r.check # None /\ r.usedEvidence =>
        \E said \in a.said \cap Text :
          \/ r.check \notin MatchedBy[said]
          \/ ChecksOf(Lesson[read[1]]) \cap ChecksOf(Lesson[read[2]]) \subseteq MatchedBy[said]
  <2> SUFFICES ASSUME r.check # None, r.usedEvidence
               PROVE  \/ r.check \notin MatchedBy[e]
                      \/ ChecksOf(Lesson[read[1]]) \cap ChecksOf(Lesson[read[2]])
                           \subseteq MatchedBy[e]
    BY <1>4 DEF Good, Sound
  <2>1. /\ unmet = ChecksOf(Lesson[read[2]]) \ MatchedBy[e]
        /\ r.check \in unmet \/ ChecksOf(Lesson[read[1]]) \cap unmet = {}
    BY <1>4 DEF Good, Unmet
  <2> QED BY <2>1
<1>8. AnswerOK(b)
  BY <1>4, <1>6, <1>7 DEF AnswerOK, Good
<1>9. Len(b.read) <= 2
  BY <1>6
<1>10. b.at \notin {"learner", "events", "severed"} /\ b.at # "learner"
  BY <1>6
<1>11. e \in b.said
  BY <1>6 DEF Sound
<1>12. Sound(b, e)
  BY <1>5, <1>6, <1>8, <1>9, <1>10, <1>11 DEF Sound
<1> QED BY <1>2, <1>12 DEF b

-----------------------------------------------------------------------------
(* The steps of the server.                                                *)

LEMMA UnderWay ==
  ASSUME TInv, NEW n \in Ask, ask[n].at # "idle"
  PROVE  /\ ask[n] # Nothing /\ ask[n] \in AskState
         /\ Sound(ask[n], explanation)
BY DEF TInv, Nothing

(* A handler that goes on touches nothing but its ask.                     *)
LEMMA PutStep ==
  ASSUME TInv, NEW n \in Ask, ask[n].at # "idle",
         NEW a, Sound(a, explanation), Put(n, a)
  PROVE  TInv'
<1>1. a \in AskState /\ a # Nothing /\ ask[n] # Nothing
  BY NotNothing, UnderWay DEF Sound
<1>2. UNCHANGED <<dependencies, content, explanation, panel, database>>
  BY DEF Put, dependencies
<1>3. DInv'
  BY <1>2, LifespanStep DEF TInv
<1>4. \A m \in Ask : ask'[m] = IF m = n THEN a ELSE ask[m]
  BY DEF Put, TInv
<1>5. ask' \in [Ask -> AskState \cup {Nothing}]
  BY <1>1 DEF Put, TInv
<1>6. PanelOK'
  BY <1>1, <1>2, <1>4 DEF TInv, PanelOK, AnswerIsToTheLastAsk
<1> QED BY <1>2, <1>3, <1>4, <1>5, <1>6 DEF TInv

LEMMA RefuseStep ==
  ASSUME TInv, NEW n \in Ask, ask[n].at \in {"sent", "learner", "events", "severed"},
         NEW st \in Refusal, Refuse(n, st)
  PROVE  TInv'
<1>1. ask[n].at # "idle" /\ ask[n].at # "done"
  OBVIOUS
<1>2. Sound(ask[n], explanation)
  BY <1>1, UnderWay
<1>3. Sound([ask[n] EXCEPT !.at = "done", !.status = st], explanation)
  BY <1>1, <1>2, Refused
<1> QED BY <1>1, <1>3, PutStep DEF Refuse

LEMMA HelpStep ==
  ASSUME TInv, NEW n \in Ask, ask[n].at \in {"sent", "learner", "events", "severed"},
         NEW read \in Seq(Edition), 1 <= Len(read), Len(read) <= 2, NEW unmet,
         \/ unmet = None
         \/ /\ explanation \in Text
            /\ unmet = Unmet(Lesson[read[2]], explanation),
         Help(n, read, unmet)
  PROVE  TInv'
<1>1. ask[n].at # "idle" /\ ask[n].at # "done"
  OBVIOUS
<1> DEFINE a == [ask[n] EXCEPT !.at = "done", !.status = 200, !.read = read,
                   !.answer = Respond(ask[n].request, Lesson[read[1]], unmet)]
<1>2. Sound(ask[n], explanation)
  BY <1>1, UnderWay
<1>3. Sound(a, explanation)
  BY <1>1, <1>2, Helped
<1>4. Put(n, a)
  BY DEF Help
<1> HIDE DEF a
<1> QED BY <1>1, <1>3, <1>4, PutStep

(* The handler goes on to its next read.                                   *)
LEMMA ReadsOn ==
  ASSUME NEW e, NEW a, Sound(a, e), a.at # "done", a.request.learner,
         NEW at, NEW read \in Seq(Edition),
         \/ at = "learner" /\ Len(read) = 1
         \/ at = "events" /\ Len(read) = 2
  PROVE  Sound([a EXCEPT !.at = at, !.read = read], e)
<1> DEFINE b == [a EXCEPT !.at = at, !.read = read]
<1>1. at \in AskStage /\ a \in AskState /\ a.status = None /\ a.answer = None
  BY DEF AskStage, Sound
<1>2. /\ b \in AskState /\ b.at = at /\ b.status = a.status /\ b.read = read
      /\ b.answer = a.answer /\ b.said = a.said
      /\ b.request = a.request
  BY <1>1 DEF AskState
<1> HIDE DEF b
<1>3. Len(b.read) <= 2 /\ (b.at = "learner" => Len(b.read) = 1)
      /\ (b.at \in {"events", "severed"} => Len(b.read) = 2)
  <2>1. b.at = at /\ Len(b.read) = Len(read)
    BY <1>2
  <2>2. at = "learner" => Len(read) = 1
    OBVIOUS
  <2>3. at \in {"events", "severed"} => Len(read) = 2
    OBVIOUS
  <2>4. Len(read) <= 2
    <3>1. PICK k : k = Len(read)
      OBVIOUS
    <3>2. k = 1 \/ k = 2
      BY <3>1
    <3>3. k <= 2
      BY ONLY <3>2
    <3> QED BY <3>1, <3>3
  <2> QED BY <2>1, <2>2, <2>3, <2>4
<1>4. b.at # "done" /\ b.at # "severed"
  BY <1>2
<1>5. b.status # 200 /\ b.answer \notin AnswerState
  BY <1>1, <1>2, NoneIsNothing DEF Code
<1>6. Sound(b, e)
  BY <1>1, <1>2, <1>3, <1>4, <1>5 DEF Sound
<1> QED BY <1>6 DEF b

LEMMA RouteStep ==
  ASSUME TInv, NEW n \in Ask, Route(n)
  PROVE  TInv'
<1>1. ask[n].at = "sent" /\ Sound(ask[n], explanation)
  BY UnderWay DEF Route
<1>2. CASE Refuse(n, 422) \/ Refuse(n, ReadError)
  <2>1. ReadError \in Refusal /\ 422 \in Refusal
    BY DEF ReadError, Refusal
  <2> QED BY <1>1, <1>2, <2>1, RefuseStep
<1>3. CASE /\ content \in Edition /\ ask[n].request.learner
           /\ Put(n, [ask[n] EXCEPT !.at = "learner", !.read = <<content>>])
  <2>1. <<content>> \in Seq(Edition) /\ Len(<<content>>) = 1
    BY <1>3
  <2>2. Sound([ask[n] EXCEPT !.at = "learner", !.read = <<content>>], explanation)
    BY <1>1, <1>3, <2>1, ReadsOn
  <2> QED BY <1>1, <1>3, <2>2, PutStep
<1>4. CASE content \in Edition /\ Help(n, <<content>>, None)
  <2>1. PICK read : read = <<content>>
    OBVIOUS
  <2>2. read \in Seq(Edition) /\ 1 <= Len(read) /\ Len(read) <= 2
    BY <1>4, <2>1
  <2>3. Help(n, read, None)
    BY <1>4, <2>1
  <2> QED BY <1>1, <2>2, <2>3, HelpStep
<1> QED BY <1>2, <1>3, <1>4 DEF Route

LEMMA GetLearnerStep ==
  ASSUME TInv, NEW n \in Ask, GetLearner(n)
  PROVE  TInv'
<1>1. ask[n].at = "learner" /\ Sound(ask[n], explanation)
  BY UnderWay DEF GetLearner
<1>2. /\ ask[n].read \in Seq(Edition) /\ Len(ask[n].read) = 1
      /\ ask[n].request.learner
  BY <1>1 DEF Sound, AskState
<1>3. CASE Refuse(n, 500)
  BY <1>1, <1>3, RefuseStep DEF Refusal
<1>4. CASE Help(n, ask[n].read, None)
  <2>1. 1 <= Len(ask[n].read) /\ Len(ask[n].read) <= 2
    BY <1>2
  <2> QED BY <1>1, <1>2, <1>4, <2>1, HelpStep
<1>5. CASE /\ content \in Edition
           /\ Put(n, [ask[n] EXCEPT !.at = "events", !.read = Append(@, content)])
  <2>1. PICK read : read = Append(ask[n].read, content)
    OBVIOUS
  <2>2. read \in Seq(Edition) /\ Len(read) = 2
    BY <1>2, <1>5, <2>1
  <2>3. Sound([ask[n] EXCEPT !.at = "events", !.read = read], explanation)
    BY <1>1, <1>2, <2>2, ReadsOn
  <2>4. Put(n, [ask[n] EXCEPT !.at = "events", !.read = read])
    BY <1>5, <2>1
  <2> QED BY <1>1, <2>3, <2>4, PutStep
<1>6. content \in Edition \cup {"missing", "broken"}
  BY DEF TInv
<1> QED BY <1>3, <1>4, <1>5, <1>6 DEF GetLearner

LEMMA GetEventsStep ==
  ASSUME TInv, NEW n \in Ask, GetEvents(n)
  PROVE  TInv'
<1>1. CASE ask[n].at = "severed" /\ Refuse(n, 500)
  BY <1>1, RefuseStep DEF Refusal
<1>2. CASE ask[n].at = "events"
  <2>1. ask[n].read \in Seq(Edition) /\ Len(ask[n].read) = 2
    BY <1>2, UnderWay DEF Sound, AskState
  <2>2. PICK unmet : unmet = IF explanation \in Text
                             THEN Unmet(Lesson[ask[n].read[2]], explanation) ELSE None
    OBVIOUS
  <2>3. Help(n, ask[n].read, unmet)
    BY <1>2, <2>2 DEF GetEvents
  <2>4. 1 <= Len(ask[n].read) /\ Len(ask[n].read) <= 2
    BY <2>1
  <2>5. \/ unmet = None
        \/ /\ explanation \in Text
           /\ unmet = Unmet(Lesson[ask[n].read[2]], explanation)
    BY <2>2
  <2> QED BY <1>2, <2>1, <2>3, <2>4, <2>5, HelpStep
<1> QED BY <1>1, <1>2 DEF GetEvents

-----------------------------------------------------------------------------
(* The steps of the clients.                                               *)

(* What is sent is an ask under way that has read nothing.                 *)
LEMMA SentIsSound ==
  ASSUME NEW request \in Request, explanation \in Explanations, NEW a,
         a = [at |-> "sent", request |-> request, said |-> {explanation},
              read |-> <<>>, status |-> None, answer |-> None]
  PROVE  Sound(a, explanation)
<1>1. "sent" \in AskStage /\ <<>> \in Seq(Edition) /\ Len(<<>>) = 0
  BY DEF AskStage
<1>2. a \in AskState
  BY <1>1 DEF AskState
<1>3. a.status # 200 /\ a.answer \notin AnswerState
  BY NoneIsNothing DEF Code
<1>4. Len(a.read) <= 2
  BY <1>1
<1> QED BY <1>2, <1>3, <1>4 DEF Sound

LEMMA SendAskStep ==
  ASSUME TInv, NEW request \in Request, SendAsk(request)
  PROVE  TInv'
<1> DEFINE n == panel.asked + 1
<1>1. /\ panel \in PanelState /\ panel.asked \in Nat /\ panel.asked < MaxAsks
      /\ MaxAsks \in Nat /\ n \in Ask \ {Client}
  BY TutoringAssumption DEF TInv, SendAsk, PanelState, Ask, Client
<1>2. PICK a : /\ ask' = [ask EXCEPT ![n] = a]
               /\ a = [at |-> "sent", request |-> request, said |-> {explanation},
                       read |-> <<>>, status |-> None, answer |-> None]
  BY DEF SendAsk, Send
<1>3. Sound(a, explanation)
  BY <1>2, SentIsSound DEF TInv
<1>4. /\ panel' \in PanelState /\ panel'.state = "loading" /\ panel'.asked = n
  <2>1. n \in 0..MaxAsks
    BY <1>1 DEF Ask
  <2>2. panel' = [panel EXCEPT !.state = "loading", !.asked = n]
    BY DEF SendAsk
  <2> QED BY <1>1, <2>1, <2>2 DEF PanelState
<1>5. UNCHANGED <<dependencies, content, explanation, database>>
  BY DEF SendAsk, dependencies
<1>6. DInv'
  BY <1>5, LifespanStep DEF TInv
<1>7. \A m \in Ask \ {Client} : ask[m] = Nothing
  BY DEF SendAsk, Ready, TInv, PanelOK
<1>8. \A m \in Ask : ask'[m] = IF m = n THEN a ELSE ask[m]
  BY <1>2 DEF TInv
<1>9. ask' \in [Ask -> AskState \cup {Nothing}]
  BY <1>2, <1>3 DEF TInv, Sound
<1>10. PanelOK'
  BY <1>4, <1>7, <1>8 DEF PanelOK, AnswerIsToTheLastAsk
<1> QED BY <1>3, <1>4, <1>5, <1>6, <1>8, <1>9, <1>10 DEF TInv

LEMMA AskDirectlyStep ==
  ASSUME TInv, NEW request \in Request, AskDirectly(request)
  PROVE  TInv'
<1>1. Client \in Ask
  BY TutoringAssumption DEF Ask, Client
<1>2. PICK a : /\ ask' = [ask EXCEPT ![Client] = a]
               /\ a = [at |-> "sent", request |-> request, said |-> {explanation},
                       read |-> <<>>, status |-> None, answer |-> None]
  BY DEF AskDirectly, Send
<1>3. Sound(a, explanation)
  BY <1>2, SentIsSound DEF TInv
<1>4. UNCHANGED <<content, explanation, panel, database>>
  BY DEF AskDirectly
<1>5. DInv'
  BY LifespanStep DEF TInv, AskDirectly
<1>6. \A m \in Ask : ask'[m] = IF m = Client THEN a ELSE ask[m]
  BY <1>2 DEF TInv
<1>7. ask' \in [Ask -> AskState \cup {Nothing}]
  BY <1>2, <1>3 DEF TInv, Sound
<1>8. PanelOK'
  BY <1>4, <1>6 DEF TInv, PanelOK, AnswerIsToTheLastAsk
<1> QED BY <1>3, <1>4, <1>5, <1>6, <1>7, <1>8 DEF TInv

(* An ask is over, delivered or lost: the panel shows how.                 *)
LEMMA AskIsOver ==
  ASSUME TInv, NEW n \in Ask, ask[n] # Nothing, NEW ok \in BOOLEAN,
         panel' = IF n = Client THEN panel
                  ELSE [panel EXCEPT !.state = Outcome(ok), !.shown = n],
         ask' = [ask EXCEPT ![n] = Nothing],
         \/ UNCHANGED dependencies
         \/ Change /\ UNCHANGED <<database, redis, process, engine, cache, probe>>,
         UNCHANGED <<content, explanation>>
  PROVE  TInv'
<1>1. DInv' /\ UNCHANGED database
  BY LifespanStep DEF TInv, dependencies
<1>2. \A m \in Ask : ask'[m] = IF m = n THEN Nothing ELSE ask[m]
  BY DEF TInv
<1>3. ask' \in [Ask -> AskState \cup {Nothing}]
  BY DEF TInv
<1>4. panel' \in PanelState /\ PanelOK'
  <2>1. CASE n = Client
    BY <1>2, <2>1 DEF TInv, PanelOK, AnswerIsToTheLastAsk
  <2>2. CASE n # Client
    <3>1. n = panel.asked /\ panel \in PanelState
      BY <2>2 DEF TInv, PanelOK
    <3>2. PICK st : st = Outcome(ok) /\ st \in {"answered", "failed"}
      BY DEF Outcome
    <3>3. panel' = [panel EXCEPT !.state = st, !.shown = n]
      BY <2>2, <3>2
    <3>4. panel' \in PanelState /\ panel'.shown = panel'.asked
      BY <3>1, <3>2, <3>3 DEF PanelState, Ask
    <3>5. \A m \in Ask \ {Client} : ask'[m] = Nothing
      BY <1>2, <3>1 DEF TInv, PanelOK
    <3> QED BY <3>4, <3>5 DEF PanelOK, AnswerIsToTheLastAsk
  <2> QED BY <2>1, <2>2
<1> QED BY <1>1, <1>2, <1>3, <1>4 DEF TInv

LEMMA DeliverStep ==
  ASSUME TInv, NEW n \in Ask, Deliver(n)
  PROVE  TInv'
<1>1. ask[n] # Nothing
  BY UnderWay DEF Deliver
<1>2. (ask[n].status = 200) \in BOOLEAN
  OBVIOUS
<1> QED BY <1>1, <1>2, AskIsOver DEF Deliver

LEMMA LoseStep ==
  ASSUME TInv, NEW n \in Ask, Lose(n)
  PROVE  TInv'
BY AskIsOver DEF Lose

-----------------------------------------------------------------------------
(* The steps outside.                                                      *)

(* Asks under way go on being so through whatever happens around them.     *)
LEMMA Around ==
  ASSUME TInv, DInv', content' \in Edition \cup {"missing", "broken"},
         explanation' \in Explanations, UNCHANGED panel,
         ask' \in [Ask -> AskState \cup {Nothing}],
         \A n \in Ask : IF ask[n] = Nothing THEN ask'[n] = Nothing
                        ELSE ask'[n] # Nothing /\ Sound(ask'[n], explanation')
  PROVE  TInv'
BY DEF TInv, PanelOK, AnswerIsToTheLastAsk

LEMMA DeployStep ==
  ASSUME TInv, NEW state \in Edition \cup {"missing", "broken"}, Deploy(state)
  PROVE  TInv'
<1>1. DInv' /\ UNCHANGED database
  BY LifespanStep DEF TInv, Deploy
<1> QED BY <1>1, Around DEF TInv, Deploy

LEMMA ExplainStep ==
  ASSUME TInv, NEW said \in Explanations, Explain(said)
  PROVE  TInv'
<1>1. DInv' /\ UNCHANGED <<database, content, panel>> /\ explanation' = said
  BY LifespanStep DEF TInv, Explain
<1>2. ASSUME NEW n \in Ask, ask[n] # Nothing
      PROVE  /\ ask'[n] \in AskState
             /\ Sound(ask'[n], said)
  <2>1. ask[n] \in AskState /\ Sound(ask[n], explanation)
    BY <1>2 DEF TInv
  <2> DEFINE b == [ask[n] EXCEPT !.said = @ \cup {said}]
  <2>2. /\ b \in AskState /\ b.said = ask[n].said \cup {said} /\ b.at = ask[n].at
        /\ b.request = ask[n].request
        /\ b.read = ask[n].read /\ b.status = ask[n].status /\ b.answer = ask[n].answer
    BY <2>1 DEF AskState
  <2>3. ask'[n] = b
    BY <1>2 DEF Explain
  <2> HIDE DEF b
  <2>4. b.status = 200 => AnswerOK(b)
    BY <2>1, <2>2 DEF Sound, AnswerOK
  <2>5. Sound(b, said)
    BY <2>1, <2>2, <2>4 DEF Sound
  <2> QED BY <2>2, <2>3, <2>5
<1>3. /\ ask' \in [Ask -> AskState \cup {Nothing}]
      /\ \A n \in Ask : ask[n] = Nothing => ask'[n] = Nothing
  BY <1>2 DEF Explain
<1> QED BY <1>1, <1>2, <1>3, NotNothing, Around DEF TInv

LEMMA OutageStep ==
  ASSUME TInv, Outage
  PROVE  TInv'
<1>1. DInv' /\ UNCHANGED <<content, explanation, panel>>
  BY DatabaseChangesStep DEF TInv, Outage
<1>2. ASSUME NEW n \in Ask, ask[n] # Nothing
      PROVE  /\ ask'[n] \in AskState
             /\ Sound(ask'[n], explanation)
  <2>1. ask[n] \in AskState /\ Sound(ask[n], explanation)
    BY <1>2 DEF TInv
  <2>2. PICK at : at = IF ask[n].at = "events" THEN "severed" ELSE ask[n].at
    OBVIOUS
  <2>3. at \in AskStage
    BY <2>1, <2>2 DEF AskState, AskStage
  <2> DEFINE b == [ask[n] EXCEPT !.at = at]
  <2>4. /\ b \in AskState /\ b.said = ask[n].said /\ b.at = at
        /\ b.request = ask[n].request
        /\ b.read = ask[n].read /\ b.status = ask[n].status /\ b.answer = ask[n].answer
    BY <2>1, <2>3 DEF AskState
  <2>5. ask'[n] = b
    BY <1>2, <2>2 DEF Outage
  <2> HIDE DEF b
  <2>6. b.status = 200 => AnswerOK(b)
    BY <2>1, <2>4 DEF Sound, AnswerOK
  <2>7. Sound(b, explanation)
    BY <2>1, <2>2, <2>4, <2>6 DEF Sound
  <2> QED BY <2>4, <2>5, <2>7
<1>3. /\ ask' \in [Ask -> AskState \cup {Nothing}]
      /\ \A n \in Ask : ask[n] = Nothing => ask'[n] = Nothing
  BY <1>2 DEF Outage
<1> QED BY <1>1, <1>2, <1>3, NotNothing, Around DEF TInv

-----------------------------------------------------------------------------
(* The invariant.                                                          *)

LEMMA InitTInv == Init => TInv
<1> SUFFICES ASSUME Init PROVE TInv
  OBVIOUS
<1>1. DInv
  BY DInvInit DEF Init
<1>2. panel \in PanelState
  <2>1. 0 \in 0..MaxAsks
    BY TutoringAssumption
  <2> QED BY <2>1 DEF Init, PanelState
<1> QED
  BY <1>1, <1>2 DEF Init, TInv, Explanations, PanelOK, AnswerIsToTheLastAsk

(* Whatever the panel, the server or anything outside does next, the       *)
(* invariant is kept.                                                      *)
LEMMA NextTInv ==
  ASSUME TInv, [Next]_vars
  PROVE  TInv'
<1>1. ASSUME DInv', UNCHANGED <<tutoring, database>> PROVE TInv'
  BY <1>1 DEF tutoring, TInv, PanelOK, AnswerIsToTheLastAsk
<1>2. CASE (Start \/ CloseCache \/ Dispose \/ RedisChanges) /\ UNCHANGED tutoring
  <2>1. UNCHANGED database
    BY <1>2 DEF Start, CloseCache, Dispose, RedisChanges
  <2> QED BY <1>1, <1>2, <2>1, LifespanStep DEF TInv
<1>3. ASSUME NEW p \in Probe, SendProbe(p) \/ CheckDatabase(p) \/ PingCache(p),
             UNCHANGED tutoring
      PROVE  TInv'
  <2>1. UNCHANGED database
    BY <1>3 DEF SendProbe, CheckDatabase, PingCache
  <2> QED
    BY <1>1, <1>3, <2>1, SendProbeStep, CheckDatabaseStep, PingCacheStep DEF TInv
<1>4. CASE Outage
  BY <1>4, OutageStep
<1>5. ASSUME NEW request \in Request, SendAsk(request) \/ AskDirectly(request)
      PROVE  TInv'
  BY <1>5, SendAskStep, AskDirectlyStep
<1>6. ASSUME NEW n \in Ask, Serve(n) \/ Deliver(n) \/ Lose(n)
      PROVE  TInv'
  BY <1>6, RouteStep, GetLearnerStep, GetEventsStep, DeliverStep, LoseStep DEF Serve
<1>7. ASSUME NEW state \in Edition \cup {"missing", "broken"}, Deploy(state)
      PROVE  TInv'
  BY <1>7, DeployStep
<1>8. ASSUME NEW said \in Explanations, Explain(said)
      PROVE  TInv'
  BY <1>8, ExplainStep
<1>9. CASE UNCHANGED vars
  <2>1. UNCHANGED <<dependencies, tutoring, database>>
    BY <1>9 DEF vars, dependencies
  <2> QED BY <1>1, <2>1, LifespanStep DEF TInv
<1> QED
  BY <1>2, <1>3, <1>4, <1>5, <1>6, <1>7, <1>8, <1>9 DEF Next

(* TInv holds of every reachable state, whatever the lessons and requests. *)
THEOREM TInvIsInvariant == Spec => []TInv
<1>1. TInv /\ [Next]_vars => TInv'
  BY NextTInv
<1> QED
  BY <1>1, InitTInv, PTL DEF Spec

-----------------------------------------------------------------------------
(* The properties.                                                         *)

(* Panel, asks, probes and lifespan are always of the declared types.      *)
THEOREM TutoringTypeCorrect == Spec => []TypeOK
<1>1. TInv => TypeOK
  BY DEF TInv, DInv, TypeOK, Sound
<1> QED BY <1>1, TInvIsInvariant, PTL

(* However often the database and Redis come and go during a probe, it is  *)
(* answered with what the database was like at some time of it.            *)
THEOREM ReadinessHolds == Spec => []ReadinessTellsTheDatabase
<1>1. TInv => ReadinessTellsTheDatabase
  BY DEF TInv, DInv
<1> QED BY <1>1, TInvIsInvariant, PTL

(* For any number of asks, delivered, lost or overtaken, the panel shows   *)
(* the outcome of the last one.                                            *)
THEOREM LastAskHolds == Spec => []AnswerIsToTheLastAsk
<1>1. TInv => AnswerIsToTheLastAsk
  BY DEF TInv, PanelOK
<1> QED BY <1>1, TInvIsInvariant, PTL

(* Whatever the editions and however they are deployed, and whatever the   *)
(* learner says, between the reads of an ask: the question asked is of the *)
(* lesson that is cited, and open if it is said to follow from evidence.   *)
THEOREM QuestionsHold == Spec => []QuestionIsOpen
<1>1. TInv => QuestionIsOpen
  BY DEF TInv, QuestionIsOpen, Answered, Sound, AnswerOK
<1> QED BY <1>1, TInvIsInvariant, PTL

=============================================================================
