------------------------ MODULE LearningRecordSittings ------------------------
(***************************************************************************)
(* A proof about LearningRecord: into how many open sessions one sitting   *)
(* can fall.  The run record_fragments shows that it can be two, where the *)
(* service promises one; here the number is bounded, for any number of     *)
(* learners, sessions and events and however many requests die, by the     *)
(* number of requests that can be in flight together.                      *)
(***************************************************************************)
EXTENDS LearningRecordReads, WellFoundedInduction

Step(w) == Arrive(w) \/ Serve(w) \/ Abort(w)

-----------------------------------------------------------------------------
(* Which statement leads to which.                                         *)

(* A request is about to start a session because it found none open, and  *)
(* opens the transaction that inserts one only then.                       *)
LEMMA Landing ==
  ASSUME TypeOK, NEW w \in Worker, Step(w)
  PROVE  /\ pc'[w] = "insertSession" => FindOpen(w)
         /\ pc'[w] = "cascade" => DeleteLearner(w) \/ CascadeSession(w)
         /\ pc'[w] = "commit" => \/ Register(w) \/ InsertSession(w) \/ InsertEvent(w)
                                 \/ UpdateEnded(w) \/ Cascaded(w)
<1> USE DEF TypeOK, Goto, Reply, Refuse, Confirmed
<1>1. CASE Register(w) \/ Resume(w) \/ Record(w) \/ End(w) \/ Progress(w) \/ Erase(w)
  BY <1>1 DEF Register, Resume, Record, End, Progress, Erase
<1>2. CASE Abort(w) \/ Respond(w)
  BY <1>2 DEF Abort, Respond
<1>3. CASE CommitRegister(w) \/ FindOpen(w) \/ InsertSession(w) \/ InsertSessionFails(w)
             \/ CommitSession(w)
  BY <1>3 DEF CommitRegister, FindOpen, InsertSession, InsertSessionFails, CommitSession
<1>4. CASE CheckTarget(w) \/ InsertEvent(w) \/ InsertEventFails(w) \/ CommitEvent(w)
  BY <1>4 DEF CheckTarget, InsertEvent, InsertEventFails, CommitEvent
<1>5. CASE UpdateEnded(w) \/ UpdateEndedFails(w) \/ CommitEnd(w) \/ ReadEvents(w)
  BY <1>5 DEF UpdateEnded, UpdateEndedFails, CommitEnd, ReadEvents
<1>6. CASE CountSessions(w) \/ CountEvents(w) \/ DeleteLearner(w) \/ DeleteNothing(w)
  BY <1>6 DEF CountSessions, CountEvents, DeleteLearner, DeleteNothing
<1>7. CASE CascadeSession(w) \/ Cascaded(w) \/ CommitErase(w)
  BY <1>7 DEF CascadeSession, Cascaded, CommitErase
<1> QED BY <1>1, <1>2, <1>3, <1>4, <1>5, <1>6, <1>7 DEF Step, Arrive, Serve

LEMMA Opens ==
  ASSUME Inv, Inv', NEW w \in Worker, Step(w), InTransaction(w, "resume")'
  PROVE  InsertSession(w)
<1>1. TypeOK /\ req[w] \in Request /\ ReadsOK(w) /\ WritesOK(w) /\ WritesOK(w)'
  BY DEF Inv, TypeOK
<1>2. pc'[w] = "commit"
  BY <1>1 DEF WritesOK, InTransaction
<1>3. ~Register(w)
  BY <1>1 DEF Register, Asks, TypeOK, InTransaction
<1>4. ~InsertEvent(w)
  BY <1>1 DEF InsertEvent, ReadsOK, TypeOK, Request, InTransaction
<1>5. ~UpdateEnded(w)
  BY <1>1 DEF UpdateEnded, ReadsOK, InTransaction
<1>6. ~Cascaded(w)
  BY <1>1 DEF Cascaded, WritesOK, InTransaction
<1> QED BY <1>1, <1>2, <1>3, <1>4, <1>5, <1>6, Landing

-----------------------------------------------------------------------------
(* What a step does to the rows.                                           *)

Quiet(w) ==
  \/ Resume(w) \/ Record(w) \/ End(w) \/ Progress(w) \/ Erase(w)
  \/ FindOpen(w) \/ InsertSessionFails(w) \/ CheckTarget(w)
  \/ UpdateEnded(w) \/ UpdateEndedFails(w) \/ ReadEvents(w)
  \/ CountSessions(w) \/ CountEvents(w) \/ DeleteLearner(w)
  \/ DeleteNothing(w) \/ CascadeSession(w) \/ Cascaded(w) \/ Respond(w)

LEMMA QuietKeeps == ASSUME NEW w, Quiet(w) PROVE UNCHANGED tables
<1>1. CASE Resume(w) \/ Record(w) \/ End(w) \/ Progress(w) \/ Erase(w)
  BY <1>1 DEF Resume, Record, End, Progress, Erase
<1>2. CASE \/ FindOpen(w) \/ InsertSessionFails(w) \/ CheckTarget(w)
           \/ UpdateEnded(w) \/ UpdateEndedFails(w) \/ ReadEvents(w)
  BY <1>2 DEF FindOpen, InsertSessionFails, CheckTarget, UpdateEnded, UpdateEndedFails,
     ReadEvents
<1>3. CASE \/ CountSessions(w) \/ CountEvents(w) \/ DeleteLearner(w)
           \/ DeleteNothing(w) \/ CascadeSession(w) \/ Cascaded(w) \/ Respond(w)
  BY <1>3 DEF CountSessions, CountEvents, DeleteLearner, DeleteNothing, CascadeSession,
     Cascaded, Respond
<1> QED BY <1>1, <1>2, <1>3 DEF Quiet

(* A session becomes open when the transaction that inserted it commits,   *)
(* and only then.                                                          *)
IsOpen(s) == sessions[s] = "live" /\ sessionRow[s].endedAt = Open

LEMMA OpenShrinks ==
  ASSUME Inv, NEW w \in Worker, Step(w), ~CommitSession(w), NEW s \in Session, IsOpen(s)'
  PROVE  IsOpen(s) /\ sessionRow'[s].learner = sessionRow[s].learner
         /\ sessionRow'[s].concept = sessionRow[s].concept
<1>1. TypeOK /\ WritesOK(w) /\ req[w] \in Request
  BY DEF Inv, TypeOK
<1>2. CASE Quiet(w)
  BY <1>2, QuietKeeps DEF tables, IsOpen
<1>3. CASE Register(w) \/ CommitRegister(w) \/ InsertEvent(w) \/ InsertEventFails(w)
             \/ CommitEvent(w)
  BY <1>3 DEF Register, CommitRegister, InsertEvent, InsertEventFails, CommitEvent, IsOpen
<1>4. CASE InsertSession(w)
  <2>1. PICK new \in Session : /\ sessions' = [sessions EXCEPT ![new] = "pending"]
                               /\ \A t \in Session \ {new} : sessionRow'[t] = sessionRow[t]
    BY <1>1, <1>4 DEF InsertSession, TypeOK
  <2>2. s # new
    BY <1>1, <2>1 DEF IsOpen, TypeOK
  <2> QED BY <1>1, <2>1, <2>2 DEF IsOpen, TypeOK
<1>5. CASE CommitEnd(w)
  <2>1. req[w].at \in Time /\ req[w].at # Open
    BY <1>1, ConstantsAssumption DEF Request, Time, Open
  <2>2. sessionRow' = [sessionRow EXCEPT ![req[w].session].endedAt = req[w].at]
        /\ UNCHANGED sessions
    BY <1>5 DEF CommitEnd
  <2>3. sessionRow \in [Session -> SessionRow]
    BY <1>1 DEF TypeOK
  <2>4. s # req[w].session
    BY <2>1, <2>2, <2>3 DEF IsOpen, SessionRow
  <2> QED BY <2>2, <2>3, <2>4 DEF IsOpen
<1>6. CASE CommitErase(w)
  BY <1>1, <1>6 DEF CommitErase, IsOpen, TypeOK
<1>7. CASE Abort(w)
  BY <1>1, <1>7 DEF Abort, RolledBack, IsOpen, TypeOK
<1> QED BY <1>2, <1>3, <1>4, <1>5, <1>6, <1>7 DEF Step, Arrive, Serve, Quiet

(* If nothing is found, nothing is open: of the sessions that are, one     *)
(* started last.                                                           *)
LEMMA NewestExists ==
  ASSUME TypeOK, NEW S \in SUBSET Session, S # {}
  PROVE  Newest(S) # {}
<1>1. \A s \in S : /\ sessionRow[s].startedAt \in Nat
                   /\ sessionRow[s].startedAt <= MaxTime
  BY ConstantsAssumption DEF TypeOK, SessionRow, Time
<1>2. MaxTime \in Nat
  BY ConstantsAssumption
<1> DEFINE T == {MaxTime - sessionRow[s].startedAt : s \in S}
<1>3. T \subseteq Nat /\ T # {}
  <2>1. \A s \in S : MaxTime - sessionRow[s].startedAt \in Nat
    BY <1>1, <1>2
  <2> QED BY <2>1
<1>4. IsWellFoundedOn(OpToRel(<, Nat), Nat)
  BY NatLessThanWellFounded
<1> HIDE DEF T
<1>5. PICK i \in T : \A j \in T : ~(<<j, i>> \in OpToRel(<, Nat))
  BY <1>3, <1>4, WFMin
<1>6. \A j \in T : ~(j < i)
  BY <1>3, <1>5 DEF OpToRel
<1>7. PICK m \in S : i = MaxTime - sessionRow[m].startedAt
  BY <1>5 DEF T
<1>8. \A s \in S : sessionRow[s].startedAt <= sessionRow[m].startedAt
  <2> SUFFICES ASSUME NEW s \in S PROVE sessionRow[s].startedAt <= sessionRow[m].startedAt
    OBVIOUS
  <2>1. ~(MaxTime - sessionRow[s].startedAt < i)
    BY <1>6 DEF T
  <2> QED BY <1>1, <1>2, <1>7, <2>1
<1> QED BY <1>8 DEF Newest

-----------------------------------------------------------------------------
(* The open sessions and the requests about to start one.                  *)

(* Both are finitely many.                                                 *)
LEMMA Finite ==
  ASSUME NEW l, NEW c
  PROVE  /\ IsFiniteSet(OpenSessions(l, c)) /\ IsFiniteSet(Starting(l, c))
         /\ Cardinality(OpenSessions(l, c)) \in Nat
         /\ Cardinality(Starting(l, c)) \in Nat
         /\ Cardinality(Starting(l, c)) <= Cardinality(Worker)
         /\ Cardinality(Worker) \in Nat
<1>1. OpenSessions(l, c) \subseteq Session /\ Starting(l, c) \subseteq Worker
  BY DEF OpenSessions, LiveSessionsOf, SessionsOf, Starting
<1> QED
  BY <1>1, FiniteIdsAssumption, FS_Subset, FS_CardinalityType

(* As many as two sets that shrink leave room for.                         *)
LEMMA Fewer ==
  ASSUME NEW A, NEW B, NEW C, NEW D, NEW n \in Nat,
         IsFiniteSet(A), IsFiniteSet(B), C \subseteq A, D \subseteq B,
         Cardinality(A) + Cardinality(B) <= n
  PROVE  Cardinality(C) + Cardinality(D) <= n
<1>1. /\ IsFiniteSet(C) /\ Cardinality(C) <= Cardinality(A)
      /\ IsFiniteSet(D) /\ Cardinality(D) <= Cardinality(B)
  BY FS_Subset
<1>2. /\ Cardinality(A) \in Nat /\ Cardinality(B) \in Nat
      /\ Cardinality(C) \in Nat /\ Cardinality(D) \in Nat
  BY <1>1, FS_CardinalityType
<1> QED
  BY <1>1, <1>2

(* A session is open for a learner and a concept.                          *)
LEMMA OpenIs ==
  ASSUME NEW l, NEW c
  PROVE  OpenSessions(l, c) =
           {s \in Session : /\ IsOpen(s)
                            /\ sessionRow[s].learner = l
                            /\ sessionRow[s].concept = c}
BY DEF OpenSessions, LiveSessionsOf, SessionsOf, IsOpen

(* A request has a session to start only from the time it found none.      *)
LEMMA StartingShrinks ==
  ASSUME Inv, Inv', NEW w \in Worker, Step(w), NEW l, NEW c,
         ~(FindOpen(w) /\ pc'[w] = "insertSession")
  PROVE  Starting(l, c)' \subseteq Starting(l, c)
<1> SUFFICES ASSUME NEW v \in Starting(l, c)' PROVE v \in Starting(l, c)
  OBVIOUS
<1>1. TypeOK /\ v \in Worker
  BY DEF Inv, Starting
<1>2. CASE v # w
  <2>1. pc'[v] = pc[v] /\ req'[v] = req[v]
    BY <1>1, <1>2, OthersStay DEF Step
  <2> QED
    BY <1>1, <2>1 DEF Starting, InTransaction
<1>3. CASE v = w
  <2>1. InsertSession(w)
    BY <1>1, <1>3, Landing, Opens DEF Starting
  <2>2. PICK s : req' = [req EXCEPT ![w].session = s]
    BY <2>1 DEF InsertSession
  <2>3. req'[w].learner = req[w].learner /\ req'[w].concept = req[w].concept
    BY <1>1, <2>2 DEF TypeOK, Request
  <2> QED
    BY <1>1, <1>3, <2>1, <2>3 DEF Starting, InsertSession
<1> QED
  BY <1>2, <1>3

LEMMA OpenShrinksTo ==
  ASSUME Inv, NEW w \in Worker, Step(w), ~CommitSession(w), NEW l, NEW c
  PROVE  OpenSessions(l, c)' \subseteq OpenSessions(l, c)
<1> SUFFICES ASSUME NEW s \in OpenSessions(l, c)' PROVE s \in OpenSessions(l, c)
  OBVIOUS
<1>1. /\ s \in Session /\ IsOpen(s)'
      /\ sessionRow'[s].learner = l /\ sessionRow'[s].concept = c
  BY DEF OpenSessions, LiveSessionsOf, SessionsOf, IsOpen
<1> QED
  BY <1>1, OpenShrinks, OpenIs

-----------------------------------------------------------------------------
(* The bound is kept: the first to start a session finds none open, and    *)
(* each that has started one is no longer about to.                        *)

LEMMA BoundStep ==
  ASSUME Inv, Inv', NEW w \in Worker, Step(w), NEW l \in Learner, NEW c \in Concept,
         Cardinality(OpenSessions(l, c)) + Cardinality(Starting(l, c))
           <= Cardinality(Worker)
  PROVE  Cardinality(OpenSessions(l, c)') + Cardinality(Starting(l, c)')
           <= Cardinality(Worker)
<1> DEFINE O == OpenSessions(l, c)
           S == Starting(l, c)
<1>0. /\ IsFiniteSet(O) /\ IsFiniteSet(S) /\ Cardinality(Worker) \in Nat
      /\ Cardinality(O) \in Nat /\ Cardinality(S) \in Nat
  BY Finite
<1>1. CASE FindOpen(w) /\ pc'[w] = "insertSession"
  <2>1. TypeOK /\ w \in Worker
    BY DEF Inv
  <2>2. /\ Newest(OpenSessions(req[w].learner, req[w].concept)) = {}
        /\ UNCHANGED <<tables, req>>
    BY <1>1, <2>1 DEF FindOpen, Reply, Goto, TypeOK
  <2>3. OpenSessions(req[w].learner, req[w].concept) = {}
    <3>1. OpenSessions(req[w].learner, req[w].concept) \in SUBSET Session
      BY DEF OpenSessions, LiveSessionsOf, SessionsOf
    <3> QED
      BY <2>1, <2>2, <3>1, NewestExists
  <2>4. O' = O
    BY <2>2 DEF tables, OpenSessions, LiveSessionsOf, SessionsOf
  <2>5. CASE req[w].learner = l /\ req[w].concept = c
    <3>1. O' = {} /\ S' \subseteq Worker
      BY <2>3, <2>4, <2>5 DEF Starting
    <3>2. Cardinality(S') <= Cardinality(Worker) /\ Cardinality(S') \in Nat
      BY <3>1, FiniteIdsAssumption, FS_Subset, FS_CardinalityType
    <3>3. Cardinality(O') = 0
      BY <3>1, FS_EmptySet
    <3> QED
      BY <1>0, <3>2, <3>3
  <2>6. CASE ~(req[w].learner = l /\ req[w].concept = c)
    <3>1. S' \subseteq S
      <4> SUFFICES ASSUME NEW v \in S' PROVE v \in S
        OBVIOUS
      <4>1. v \in Worker /\ v # w
        BY <2>2, <2>6 DEF Starting
      <4>2. pc'[v] = pc[v] /\ req'[v] = req[v]
        BY <2>1, <4>1, OthersStay DEF Step
      <4> QED
        BY <4>1, <4>2 DEF Starting, InTransaction
    <3> QED
      BY <1>0, <2>4, <3>1, Fewer
  <2> QED
    BY <2>5, <2>6
<1>2. CASE CommitSession(w)
  <2> DEFINE s == req[w].session
  <2>1. /\ InTransaction(w, "resume") /\ s \in Session /\ sessions[s] = "pending"
        /\ sessionRow[s].learner = req[w].learner
        /\ sessionRow[s].concept = req[w].concept
        /\ sessions' = [sessions EXCEPT ![s] = "live"] /\ UNCHANGED sessionRow
        /\ pc'[w] = "respond"
    BY <1>2, CommitEffect
       DEF CommitSession, InTransaction, Inv, WritesOK, OwnerOfSession
  <2>2. sessions \in [Session -> Standing] /\ s \notin O
    BY <2>1 DEF Inv, TypeOK, OpenSessions, LiveSessionsOf
  <2>3. S' \subseteq S \ {w}
    <3>1. w \notin S'
      BY <2>1 DEF Starting, InTransaction
    <3> QED
      BY <1>2, <3>1, StartingShrinks DEF CommitSession, FindOpen
  <2>4. CASE req[w].learner = l /\ req[w].concept = c
    <3>1. w \in S
      BY <2>1, <2>4 DEF Starting
    <3>2. O' \subseteq O \cup {s}
      BY <2>1, <2>2 DEF OpenSessions, LiveSessionsOf, SessionsOf
    <3>3. /\ Cardinality(O \cup {s}) = Cardinality(O) + 1
          /\ IsFiniteSet(O \cup {s})
      BY <1>0, <2>2, FS_AddElement
    <3>4. /\ Cardinality(S \ {w}) = Cardinality(S) - 1
          /\ IsFiniteSet(S \ {w})
      BY <1>0, <3>1, FS_RemoveElement
    <3>5. Cardinality(O \cup {s}) + Cardinality(S \ {w}) <= Cardinality(Worker)
      BY <1>0, <3>3, <3>4
    <3> QED
      BY <1>0, <2>3, <3>2, <3>3, <3>4, <3>5, Fewer
  <2>5. CASE ~(req[w].learner = l /\ req[w].concept = c)
    <3>1. O' \subseteq O
      BY <2>1, <2>2, <2>5 DEF OpenSessions, LiveSessionsOf, SessionsOf
    <3> QED
      BY <1>0, <2>3, <3>1, Fewer
  <2> QED
    BY <2>4, <2>5
<1>3. CASE ~CommitSession(w) /\ ~(FindOpen(w) /\ pc'[w] = "insertSession")
  <2>1. O' \subseteq O /\ S' \subseteq S
    BY <1>3, OpenShrinksTo, StartingShrinks
  <2> QED
    BY <1>0, <2>1, Fewer
<1> QED
  BY <1>1, <1>2, <1>3

(* Reloading, however often and from however many tabs, fragments one      *)
(* sitting into no more open sessions than there can be requests in flight *)
(* (learning_record.py:71 promises one): none that is open when a request  *)
(* looks is ever missed, so all of them were started together.             *)
THEOREM FragmentsBounded == Spec => []FragmentsAreBounded
<1>1. Init => FragmentsAreBounded
  <2> SUFFICES ASSUME Init, NEW l \in Learner, NEW c \in Concept
               PROVE  Cardinality(OpenSessions(l, c)) + Cardinality(Starting(l, c))
                        <= Cardinality(Worker)
    BY DEF FragmentsAreBounded
  <2>1. OpenSessions(l, c) = {}
    BY DEF Init, OpenSessions, LiveSessionsOf, SessionsOf
  <2> QED
    BY <2>1, Finite, FS_EmptySet
<1>2. Inv /\ Inv' /\ FragmentsAreBounded /\ [Next]_vars => FragmentsAreBounded'
  <2> SUFFICES ASSUME Inv, Inv', FragmentsAreBounded, [Next]_vars,
                      NEW l \in Learner, NEW c \in Concept
               PROVE  Cardinality(OpenSessions(l, c)') + Cardinality(Starting(l, c)')
                        <= Cardinality(Worker)
    BY DEF FragmentsAreBounded
  <2>1. Cardinality(OpenSessions(l, c)) + Cardinality(Starting(l, c))
          <= Cardinality(Worker)
    BY DEF FragmentsAreBounded
  <2>2. CASE \E w \in Worker : Step(w)
    BY <2>1, <2>2, BoundStep
  <2>3. CASE UNCHANGED vars
    <3>1. OpenSessions(l, c)' = OpenSessions(l, c) /\ Starting(l, c)' = Starting(l, c)
      BY <2>3 DEF vars, tables, OpenSessions, LiveSessionsOf, SessionsOf, Starting,
         InTransaction
    <3> QED
      BY <2>1, <3>1
  <2> QED
    BY <2>2, <2>3 DEF Next, Step
<1> QED
  BY <1>1, <1>2, InvIsInvariant, PTL DEF Spec

=============================================================================
