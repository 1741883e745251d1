-------------------------- MODULE LearningRecordReads --------------------------
(***************************************************************************)
(* Proofs about what clients are told by LearningRecord: what a progress   *)
(* read contains, and what an erasure receipt claims.                      *)
(***************************************************************************)
EXTENDS LearningRecordProofs

-----------------------------------------------------------------------------
(* Steps.                                                                  *)

(* A step of one request moves no other.                                   *)
LEMMA OthersStay ==
  ASSUME TypeOK, NEW v \in Worker, Arrive(v) \/ Serve(v) \/ Abort(v),
         NEW w \in Worker, w # v
  PROVE  pc'[w] = pc[w] /\ req'[w] = req[w]
<1> USE DEF TypeOK, Goto, Reply, Refuse, Confirmed
<1>1. CASE Arrive(v)
  BY <1>1 DEF Arrive, Register, Resume, Record, End, Progress, Erase
<1>2. CASE Abort(v)
  BY <1>2 DEF Abort
<1>3. CASE CommitRegister(v) \/ FindOpen(v) \/ InsertSession(v) \/ InsertSessionFails(v)
             \/ CommitSession(v)
  BY <1>3 DEF CommitRegister, FindOpen, InsertSession, InsertSessionFails, CommitSession
<1>4. CASE CheckTarget(v) \/ InsertEvent(v) \/ InsertEventFails(v) \/ CommitEvent(v)
  BY <1>4 DEF CheckTarget, InsertEvent, InsertEventFails, CommitEvent
<1>5. CASE UpdateEnded(v) \/ UpdateEndedFails(v) \/ CommitEnd(v) \/ ReadEvents(v)
  BY <1>5 DEF UpdateEnded, UpdateEndedFails, CommitEnd, ReadEvents
<1>6. CASE CountSessions(v) \/ CountEvents(v) \/ DeleteLearner(v) \/ DeleteNothing(v)
  BY <1>6 DEF CountSessions, CountEvents, DeleteLearner, DeleteNothing
<1>7. CASE CascadeSession(v) \/ Cascaded(v) \/ CommitErase(v) \/ Respond(v)
  BY <1>7 DEF CascadeSession, Cascaded, CommitErase, Respond
<1> QED BY <1>1, <1>2, <1>3, <1>4, <1>5, <1>6, <1>7 DEF Serve

(* The answer to a progress read is made by the read and nothing else.     *)
LEMMA ReadMakesView ==
  ASSUME TypeOK, [Next]_vars, NEW w \in Worker, ReadIsAnswered(w)
  PROVE  req'[w].view = EventsForConcept(req[w].learner, req[w].concept)
<1>0. pc[w] = "readEvents" /\ pc'[w] = "respond" /\ req'[w].status = "ok"
  BY DEF ReadIsAnswered
<1>1. PICK v \in Worker : Arrive(v) \/ Serve(v) \/ Abort(v)
  BY <1>0 DEF Next, vars
<1>2. v = w
  BY <1>0, <1>1, OthersStay
<1>3. ~Arrive(w)
  BY <1>0 DEF Arrive, Accept, Register, Resume, Record, End, Progress, Erase
<1>4. ~Abort(w)
  <2>1. "500 connection" \in Status
    BY DEF Status, ServerError
  <2> QED
    BY <1>0, <2>1, RefuseEffect DEF Abort, Goto, TypeOK
<1>5. Serve(w) => ReadEvents(w)
  BY <1>0 DEF Serve, CommitRegister, FindOpen, InsertSession, InsertSessionFails,
     CommitSession, CheckTarget, InsertEvent, InsertEventFails, CommitEvent,
     UpdateEnded, UpdateEndedFails, CommitEnd, CountSessions, CountEvents,
     DeleteLearner, DeleteNothing, CascadeSession, Cascaded, CommitErase, Respond
<1>6. ReadEvents(w)
  BY <1>1, <1>2, <1>3, <1>4, <1>5
<1> DEFINE seen == EventsForConcept(req[w].learner, req[w].concept)
           r == [req[w] EXCEPT !.view = seen]
           q == [r EXCEPT !.status = "ok"]
<1>7. q.view = seen
  BY DEF TypeOK, Request
<1>8. req' = [req EXCEPT ![w] = q]
  BY <1>6 DEF ReadEvents, Reply
<1> HIDE DEF q
<1> QED BY <1>7, <1>8 DEF TypeOK

(* An acknowledged event of the concept is among those a read finds: its    *)
(* session is as live as it is.                                            *)
LEMMA AckedIsRead ==
  ASSUME Inv, NEW l, NEW c
  PROVE  AckedEventsOf(l, c) \subseteq EventsForConcept(l, c)
<1> SUFFICES ASSUME NEW e \in AckedEventsOf(l, c)
             PROVE  e \in EventsForConcept(l, c)
  OBVIOUS
<1>1. /\ e \in Event /\ events[e] = "live"
      /\ sessionRow[eventRow[e].session].learner = l
      /\ sessionRow[eventRow[e].session].concept = c
  BY DEF AckedEventsOf
<1>2. eventRow[e].session \in Session /\ sessions[eventRow[e].session] = "live"
  BY <1>1 DEF Inv, EventsOK, Used
<1> QED
  BY <1>1, <1>2 DEF EventsForConcept, LiveEventsOf, EventsOf, SessionsOf

(* However many requests are in flight, a progress read contains every     *)
(* event of the learner and concept that any client was told is recorded.  *)
THEOREM ReadYourWritesHolds == Spec => ReadYourWrites
<1>1. Inv /\ [Next]_vars =>
        \A w \in Worker : ReadIsAnswered(w) =>
          AckedEventsOf(req[w].learner, req[w].concept) \subseteq req'[w].view
  BY ReadMakesView, AckedIsRead DEF Inv
<1> QED
  BY <1>1, InvIsInvariant, PTL DEF Spec, ReadYourWrites

(* What an acknowledged retraction of the concept names is not counted by  *)
(* any progress read that follows, from whichever session either came.     *)
THEOREM RetractionTakesEffectHolds == Spec => RetractionTakesEffect
<1>1. ASSUME Inv, [Next]_vars, NEW w \in Worker, ReadIsAnswered(w),
             NEW r \in AckedEventsOf(req[w].learner, req[w].concept)
      PROVE  eventRow[r].retracts \notin Counted(req'[w].view)
  <2>1. r \in req'[w].view
    BY <1>1, ReadMakesView, AckedIsRead DEF Inv
  <2> QED
    BY <2>1 DEF Counted
<1>2. Inv /\ [Next]_vars =>
        \A w \in Worker : ReadIsAnswered(w) =>
          \A r \in AckedEventsOf(req[w].learner, req[w].concept) :
            eventRow[r].retracts \notin Counted(req'[w].view)
  BY <1>1
<1> QED
  BY <1>2, InvIsInvariant, PTL DEF Spec, RetractionTakesEffect

-----------------------------------------------------------------------------
(* Receipts.                                                               *)

(* The rows of a learner that were ever committed.                         *)
KeptSessionsOf(l) == {s \in SessionsOf(l) : sessions[s] \in Known}
KeptEventsOf(l)   == {e \in EventsOf(l) : events[e] \in Known}

(* A request that erases, and the receipt it returns, claim no more rows   *)
(* than were ever committed.                                               *)
Covered(sessionCount, eventCount, l) ==
  /\ sessionCount <= Cardinality(KeptSessionsOf(l))
  /\ eventCount <= Cardinality(KeptEventsOf(l))

CountsOK ==
  /\ \A w \in Worker : req[w].op = "erase" =>
       Covered(req[w].sessionCount, req[w].eventCount, req[w].learner)
  /\ \A r \in receipts : Covered(r.sessions, r.events, r.learner)

(* No step of any request forgets a committed row.                         *)
LEMMA StepKeepsRows ==
  ASSUME Inv, [Next]_vars
  PROVE  RowsKept
<1>1. CASE UNCHANGED <<learners, sessions, sessionRow, events, eventRow>>
  BY <1>1 DEF RowsKept
<1>2. ASSUME NEW w \in Worker, Register(w) PROVE RowsKept
  BY <1>2 DEF Register, Inv, TypeOK, RowsKept, Known
<1>3. ASSUME NEW w \in Worker, InsertSession(w) PROVE RowsKept
  <2>1. PICK s \in Session :
          /\ sessions[s] = "free"
          /\ sessions' = [sessions EXCEPT ![s] = "pending"]
          /\ \A t \in Session \ {s} : sessionRow'[t] = sessionRow[t]
    BY <1>3 DEF InsertSession, Inv, TypeOK
  <2> QED
    BY <1>3, <2>1 DEF InsertSession, Inv, TypeOK, RowsKept, Known
<1>4. ASSUME NEW w \in Worker, InsertEvent(w) \/ InsertEventFails(w) PROVE RowsKept
  <2>1. nextSequence \in Event /\ events[nextSequence] = "free"
    BY <1>4, FreshSequence DEF InsertEvent, InsertEventFails
  <2>2. /\ \A e \in Event \ {nextSequence} : /\ events'[e] = events[e]
                                             /\ eventRow'[e] = eventRow[e]
        /\ UNCHANGED <<learners, sessions, sessionRow>>
    BY <1>4, <2>1 DEF InsertEvent, InsertEventFails, Inv, TypeOK
  <2> QED
    BY <2>1, <2>2 DEF RowsKept, Known
<1>5. ASSUME NEW w \in Worker, Abort(w) PROVE RowsKept
  <2>1. /\ \A l \in Learner :
             learners'[l] = learners[l] \/ learners[l] = "pending"
        /\ \A s \in Session :
             sessions'[s] = sessions[s] \/ sessions[s] = "pending"
        /\ \A e \in Event :
             events'[e] = events[e] \/ events[e] = "pending"
        /\ UNCHANGED <<sessionRow, eventRow>>
    BY <1>5 DEF Abort, RolledBack, Inv, WritesOK
  <2> QED
    BY <2>1 DEF RowsKept, Known
<1>6. ASSUME NEW w \in Worker, CommitRegister(w) \/ CommitSession(w) \/ CommitEvent(w)
      PROVE  RowsKept
  <2>1. \/ InTransaction(w, "register") /\ CommitRegister(w)
        \/ InTransaction(w, "resume") /\ CommitSession(w)
        \/ InTransaction(w, "record") /\ CommitEvent(w)
    BY <1>6 DEF CommitRegister, CommitSession, CommitEvent, InTransaction
  <2>2. WritesOK(w)
    BY DEF Inv
  <2> QED
    BY <2>1, <2>2 DEF CommitRegister, CommitSession, CommitEvent, EventCommitted,
       WritesOK, Inv, TypeOK, RowsKept, Known
<1>7. ASSUME NEW w \in Worker, CommitEnd(w) PROVE RowsKept
  <2>1. \A s \in Session : sessionRow'[s].learner = sessionRow[s].learner
    BY <1>7 DEF CommitEnd, Inv, TypeOK, SessionRow
  <2> QED
    BY <1>7, <2>1 DEF CommitEnd, RowsKept
<1>8. ASSUME NEW w \in Worker, CommitErase(w) PROVE RowsKept
  <2>1. /\ req[w].learner \in Learner /\ learners[req[w].learner] = "live"
        /\ req[w].cascaded \subseteq LiveSessionsOf(req[w].learner)
    BY <1>8 DEF CommitErase, Inv, WritesOK, InTransaction
  <2>2. /\ \A s \in req[w].cascaded : sessions[s] = "live"
        /\ \A e \in EventsUnder(req[w].cascaded) : events[e] = "live"
    BY <2>1 DEF LiveSessionsOf, EventsUnder
  <2> QED
    BY <1>8, <2>1, <2>2 DEF CommitErase, Inv, TypeOK, RowsKept, Known
<1>9. ASSUME NEW w \in Worker,
             Resume(w) \/ Record(w) \/ End(w) \/ Progress(w) \/ Erase(w)
      PROVE  UNCHANGED <<learners, sessions, sessionRow, events, eventRow>>
  BY <1>9 DEF Resume, Record, End, Progress, Erase, tables
<1>10. ASSUME NEW w \in Worker,
             \/ FindOpen(w) \/ InsertSessionFails(w) \/ CheckTarget(w)
             \/ UpdateEnded(w) \/ UpdateEndedFails(w) \/ ReadEvents(w)
             \/ CountSessions(w) \/ CountEvents(w) \/ DeleteLearner(w)
             \/ DeleteNothing(w) \/ CascadeSession(w) \/ Cascaded(w)
             \/ Respond(w)
      PROVE  UNCHANGED <<learners, sessions, sessionRow, events, eventRow>>
  BY <1>10 DEF FindOpen, InsertSessionFails, CheckTarget, UpdateEnded,
     UpdateEndedFails, ReadEvents, CountSessions, CountEvents, DeleteLearner,
     DeleteNothing, CascadeSession, Cascaded, Respond, tables
<1>11. CASE UNCHANGED vars
  BY <1>1, <1>11 DEF vars, tables
<1> QED
  BY <1>1, <1>2, <1>3, <1>4, <1>5, <1>6, <1>7, <1>8, <1>9, <1>10, <1>11
     DEF Next, Arrive, Serve

(* So what a count may claim only grows.                                   *)
LEMMA KeptGrow ==
  ASSUME Inv, RowsKept, NEW l
  PROVE  /\ KeptSessionsOf(l) \subseteq KeptSessionsOf(l)'
         /\ KeptEventsOf(l) \subseteq KeptEventsOf(l)'
<1>1. KeptSessionsOf(l) \subseteq KeptSessionsOf(l)'
  BY DEF RowsKept, KeptSessionsOf, SessionsOf
<1>2. ASSUME NEW e \in KeptEventsOf(l) PROVE e \in KeptEventsOf(l)'
  <2>1. /\ e \in Event /\ events[e] \in Known
        /\ eventRow[e].session \in SessionsOf(l)
    BY DEF KeptEventsOf, EventsOf
  <2>2. eventRow[e].session \in Session /\ sessions[eventRow[e].session] \in Known
    BY <2>1, KnownSessionOfEvent DEF Inv
  <2> QED
    BY <2>1, <2>2 DEF RowsKept, KeptEventsOf, EventsOf, SessionsOf
<1> QED BY <1>1, <1>2

LEMMA KeptFinite ==
  ASSUME NEW l
  PROVE  /\ IsFiniteSet(KeptSessionsOf(l)) /\ IsFiniteSet(KeptEventsOf(l))
         /\ Cardinality(KeptSessionsOf(l)) \in Nat
         /\ Cardinality(KeptEventsOf(l)) \in Nat
<1>1. KeptSessionsOf(l) \subseteq Session /\ KeptEventsOf(l) \subseteq Event
  BY DEF KeptSessionsOf, SessionsOf, KeptEventsOf, EventsOf
<1>2. IsFiniteSet(Event)
  BY FS_Interval, ConstantsAssumption DEF Event
<1> QED
  BY <1>1, <1>2, FiniteIdsAssumption, FS_Subset, FS_CardinalityType

LEMMA CoveredStays ==
  ASSUME Inv, RowsKept, NEW l, NEW m \in Nat, NEW n \in Nat, Covered(m, n, l)
  PROVE  Covered(m, n, l)'
<1> DEFINE before == KeptSessionsOf(l)
           after == KeptSessionsOf(l)'
           eventsBefore == KeptEventsOf(l)
           eventsAfter == KeptEventsOf(l)'
<1>1. /\ IsFiniteSet(after) /\ IsFiniteSet(eventsAfter)
      /\ Cardinality(after) \in Nat /\ Cardinality(eventsAfter) \in Nat
      /\ Cardinality(before) \in Nat /\ Cardinality(eventsBefore) \in Nat
  <2>1. after \subseteq Session /\ eventsAfter \subseteq Event
    BY DEF KeptSessionsOf, SessionsOf, KeptEventsOf, EventsOf
  <2>2. IsFiniteSet(Event)
    BY FS_Interval, ConstantsAssumption DEF Event
  <2> QED
    BY <2>1, <2>2, KeptFinite, FiniteIdsAssumption, FS_Subset, FS_CardinalityType
<1>2. before \subseteq after /\ eventsBefore \subseteq eventsAfter
  BY KeptGrow
<1>3. Cardinality(before) <= Cardinality(after)
      /\ Cardinality(eventsBefore) <= Cardinality(eventsAfter)
  BY <1>1, <1>2, FS_Subset
<1>4. m <= Cardinality(before) /\ n <= Cardinality(eventsBefore)
  BY DEF Covered
<1>5. m <= Cardinality(after) /\ n <= Cardinality(eventsAfter)
  BY <1>1, <1>3, <1>4
<1> QED BY <1>5 DEF Covered

(* What a count finds is covered.                                          *)
LEMMA LiveIsKept ==
  ASSUME NEW l
  PROVE  /\ Cardinality(LiveSessionsOf(l)) <= Cardinality(KeptSessionsOf(l))
         /\ Cardinality(LiveEventsOf(l)) <= Cardinality(KeptEventsOf(l))
<1>1. /\ LiveSessionsOf(l) \subseteq KeptSessionsOf(l)
      /\ LiveEventsOf(l) \subseteq KeptEventsOf(l)
  BY DEF LiveSessionsOf, KeptSessionsOf, LiveEventsOf, KeptEventsOf, Known
<1> QED BY <1>1, KeptFinite, FS_Subset

(* A request's counts are what they were, nothing, or what it just found.  *)
CountsMove(w) ==
  /\ req'[w].op = "erase" =>
       \/ req'[w].sessionCount = 0 /\ req'[w].eventCount = 0
       \/ /\ req[w].op = "erase" /\ req'[w].learner = req[w].learner
          /\ req'[w].sessionCount
               \in {req[w].sessionCount, Cardinality(LiveSessionsOf(req[w].learner))}
          /\ req'[w].eventCount
               \in {req[w].eventCount, Cardinality(LiveEventsOf(req[w].learner))}

Same(r, q) ==
  /\ q.op = r.op /\ q.learner = r.learner
  /\ q.sessionCount = r.sessionCount /\ q.eventCount = r.eventCount

LEMMA SameCounts ==
  ASSUME NEW r \in Request
  PROVE  /\ \A x : Same(r, [r EXCEPT !.status = x])
         /\ \A x : Same(r, [r EXCEPT !.session = x])
         /\ \A x : Same(r, [r EXCEPT !.event = x])
         /\ \A x : Same(r, [r EXCEPT !.at = x])
         /\ \A x : Same(r, [r EXCEPT !.retracts = x])
         /\ \A x : Same(r, [r EXCEPT !.view = x])
         /\ \A x : Same(r, [r EXCEPT !.cascaded = x])
         /\ r \in Request
BY DEF Same, Request

LEMMA SameIsCountsMove ==
  ASSUME NEW w \in Worker, Same(req[w], req'[w])
  PROVE  CountsMove(w)
BY DEF Same, CountsMove

(* A request that arrives, or is over, has counted nothing.                *)
LEMMA AsksCountsNothing ==
  ASSUME NEW w \in Worker, NEW op \in AllOperations \cup {"none"},
         NEW l \in Learner \cup {None}, NEW c \in Concept \cup {None},
         NEW s \in Session \cup {None}, Same(Asks(op, l, c, s), req'[w])
  PROVE  CountsMove(w)
BY DEF Same, CountsMove, Asks

LEMMA RefusalCountsNothing ==
  ASSUME TypeOK, NEW w \in Worker, NEW st, Refuse(w, st)
  PROVE  CountsMove(w)
<1>1. Same(NoRequest, [NoRequest EXCEPT !.status = st])
  BY NoRequestType, SameCounts
<1>2. req'[w] = [NoRequest EXCEPT !.status = st]
  BY DEF Refuse, Reply, TypeOK
<1> QED BY <1>1, <1>2, AsksCountsNothing DEF NoRequest

LEMMA ReplyCountsNothing ==
  ASSUME TypeOK, NEW w \in Worker, NEW st, Reply(w, req[w], st)
  PROVE  CountsMove(w)
<1>1. req[w] \in Request
  BY DEF TypeOK
<1>2. Same(req[w], [req[w] EXCEPT !.status = st])
  BY <1>1, SameCounts
<1>3. req'[w] = [req[w] EXCEPT !.status = st]
  BY DEF Reply, TypeOK
<1> QED BY <1>2, <1>3, SameIsCountsMove

LEMMA ArrivalCounts ==
  ASSUME TypeOK, NEW w \in Worker, Arrive(w)
  PROVE  CountsMove(w)
<1>1. CASE Register(w)
  <2>1. PICK l \in Learner : req' = [req EXCEPT ![w] = Asks("register", l, None, None)]
    BY <1>1 DEF Register
  <2>2. req'[w].op = "register"
    BY <2>1 DEF TypeOK, Asks
  <2> QED BY <2>2 DEF CountsMove
<1>2. CASE Resume(w)
  <2>1. PICK l \in Learner, c \in Concept :
          \/ \E st : Refuse(w, st)
          \/ req' = [req EXCEPT ![w] = [Asks("resume", l, c, None) EXCEPT !.at = clock']]
    BY <1>2 DEF Resume
  <2>2. ASSUME req' = [req EXCEPT ![w] = [Asks("resume", l, c, None) EXCEPT !.at = clock']]
        PROVE  req'[w].op = "resume"
    BY <2>2 DEF TypeOK, Asks
  <2> QED BY <2>1, <2>2, RefusalCountsNothing DEF CountsMove
<1>3. CASE Record(w)
  <2>1. PICK s \in Session, target \in Event \cup {NoEvent} :
          \/ \E st : Refuse(w, st)
          \/ req' = [req EXCEPT ![w] =
               [Asks("record", None, None, s) EXCEPT !.retracts = target]]
    BY <1>3 DEF Record
  <2>2. ASSUME req' = [req EXCEPT ![w] =
                 [Asks("record", None, None, s) EXCEPT !.retracts = target]]
        PROVE  req'[w].op = "record"
    BY <2>2 DEF TypeOK, Asks
  <2> QED BY <2>1, <2>2, RefusalCountsNothing DEF CountsMove
<1>4. CASE End(w)
  <2>1. PICK s \in Session :
          LET r == [Asks("end", None, None, s) EXCEPT !.at = clock']
          IN  \/ \E st : Refuse(w, st)
              \/ req' = [req EXCEPT ![w] = r]
              \/ req' = [req EXCEPT ![w] = [r EXCEPT !.status = "ok"]]
    BY <1>4 DEF End, Reply
  <2> DEFINE r == [Asks("end", None, None, s) EXCEPT !.at = clock']
  <2>2. ASSUME \/ req' = [req EXCEPT ![w] = r]
               \/ req' = [req EXCEPT ![w] = [r EXCEPT !.status = "ok"]]
        PROVE  req'[w].op = "end"
    BY <2>2 DEF TypeOK, Asks
  <2> QED BY <2>1, <2>2, RefusalCountsNothing DEF CountsMove
<1>5. CASE Progress(w)
  <2>1. PICK l \in Learner, c \in Concept :
          \/ \E st : Refuse(w, st)
          \/ req' = [req EXCEPT ![w] = Asks("progress", l, c, None)]
    BY <1>5 DEF Progress
  <2>2. ASSUME req' = [req EXCEPT ![w] = Asks("progress", l, c, None)]
        PROVE  req'[w].op = "progress"
    BY <2>2 DEF TypeOK, Asks
  <2> QED BY <2>1, <2>2, RefusalCountsNothing DEF CountsMove
<1>6. CASE Erase(w)
  <2>1. PICK l \in Learner :
          \/ \E st : Refuse(w, st)
          \/ req' = [req EXCEPT ![w] = Asks("erase", l, None, None)]
    BY <1>6 DEF Erase
  <2>2. ASSUME req' = [req EXCEPT ![w] = Asks("erase", l, None, None)]
        PROVE  req'[w].sessionCount = 0 /\ req'[w].eventCount = 0
    BY <2>2 DEF TypeOK, Asks
  <2> QED BY <2>1, <2>2, RefusalCountsNothing DEF CountsMove
<1> QED BY <1>1, <1>2, <1>3, <1>4, <1>5, <1>6 DEF Arrive

LEMMA ServiceCounts ==
  ASSUME TypeOK, NEW w \in Worker, Serve(w) \/ Abort(w)
  PROVE  CountsMove(w)
<1>0. req[w] \in Request /\ req \in [Worker -> Request]
  BY DEF TypeOK
<1>1. ASSUME \/ \E st : Reply(w, req[w], st) \/ Refuse(w, st)
             \/ Confirmed(w)
      PROVE  CountsMove(w)
  BY <1>1, ReplyCountsNothing, RefusalCountsNothing DEF Confirmed
<1>2. CASE \/ CommitRegister(w) \/ InsertSessionFails(w) \/ CommitSession(w)
           \/ InsertEventFails(w) \/ CommitEvent(w) \/ UpdateEndedFails(w)
           \/ CommitEnd(w) \/ DeleteNothing(w) \/ CommitErase(w)
  BY <1>1, <1>2 DEF CommitRegister, InsertSessionFails, CommitSession, InsertEventFails,
     CommitEvent, UpdateEndedFails, CommitEnd, DeleteNothing, CommitErase
<1>3. CASE FindOpen(w)
  <2>1. CASE UNCHANGED req
    BY <2>1, SameIsCountsMove DEF Same
  <2>2. CASE \E s : Reply(w, [req[w] EXCEPT !.session = s], "ok")
    <3>1. PICK s : Reply(w, [req[w] EXCEPT !.session = s], "ok")
      BY <2>2
    <3>2. req'[w] = [[req[w] EXCEPT !.session = s] EXCEPT !.status = "ok"]
      BY <1>0, <3>1 DEF Reply
    <3>3. Same(req[w], req'[w])
      BY <1>0, <3>2 DEF Request, Same
    <3> QED BY <3>3, SameIsCountsMove
  <2> QED BY <1>3, <2>1, <2>2 DEF FindOpen
<1>4. CASE InsertSession(w)
  <2>1. PICK s : req' = [req EXCEPT ![w].session = s]
    BY <1>4 DEF InsertSession
  <2>2. Same(req[w], req'[w])
    BY <1>0, <2>1, SameCounts
  <2> QED BY <2>2, SameIsCountsMove
<1>5. CASE CheckTarget(w)
  <2>1. CASE UNCHANGED req
    BY <2>1, SameIsCountsMove DEF Same
  <2> QED BY <1>5, <2>1, RefusalCountsNothing DEF CheckTarget
<1>6. CASE InsertEvent(w)
  <2>1. req'[w] = [req[w] EXCEPT !.event = nextSequence]
    BY <1>0, <1>6 DEF InsertEvent
  <2> QED BY <1>0, <2>1, SameCounts, SameIsCountsMove
<1>7. CASE ReadEvents(w)
  <2>1. PICK v : req'[w] = [[req[w] EXCEPT !.view = v] EXCEPT !.status = "ok"]
    BY <1>0, <1>7 DEF ReadEvents, Reply
  <2>2. Same(req[w], req'[w])
    BY <1>0, <2>1 DEF Request, Same
  <2> QED BY <2>2, SameIsCountsMove
<1>8. CASE CountSessions(w)
  <2>1. PICK n : n = Cardinality(LiveSessionsOf(req[w].learner))
    OBVIOUS
  <2>2. req'[w] = [req[w] EXCEPT !.sessionCount = n]
    BY <1>0, <1>8, <2>1 DEF CountSessions
  <2>3. /\ req'[w].op = req[w].op /\ req'[w].learner = req[w].learner
        /\ req'[w].sessionCount = n /\ req'[w].eventCount = req[w].eventCount
    BY <1>0, <2>2 DEF Request
  <2> QED BY <2>1, <2>3 DEF CountsMove
<1>9. CASE CountEvents(w)
  <2>1. PICK n : n = Cardinality(LiveEventsOf(req[w].learner))
    OBVIOUS
  <2>2. req'[w] = [req[w] EXCEPT !.eventCount = n]
    BY <1>0, <1>9, <2>1 DEF CountEvents
  <2>3. /\ req'[w].op = req[w].op /\ req'[w].learner = req[w].learner
        /\ req'[w].eventCount = n /\ req'[w].sessionCount = req[w].sessionCount
    BY <1>0, <2>2 DEF Request
  <2> QED BY <2>1, <2>3 DEF CountsMove
<1>10. CASE CascadeSession(w)
  <2>1. PICK s : req' = [req EXCEPT ![w].cascaded = @ \cup {s}]
    BY <1>10 DEF CascadeSession
  <2>2. req'[w] = [req[w] EXCEPT !.cascaded = @ \cup {s}]
    BY <1>0, <2>1
  <2>3. Same(req[w], req'[w])
    BY <1>0, <2>2 DEF Request, Same
  <2> QED BY <2>3, SameIsCountsMove
<1>11. CASE UpdateEnded(w) \/ DeleteLearner(w) \/ Cascaded(w)
  BY <1>11, SameIsCountsMove DEF UpdateEnded, DeleteLearner, Cascaded, Same
<1>12. CASE Respond(w) \/ Abort(w)
  <2>1. CASE \E st : Refuse(w, st)
    BY <2>1, RefusalCountsNothing
  <2>2. CASE req' = [req EXCEPT ![w] = NoRequest]
    <3>1. NoRequest.op = "none"
      BY DEF NoRequest, Asks
    <3> QED BY <1>0, <2>2, <3>1 DEF CountsMove
  <2> QED BY <1>12, <2>1, <2>2 DEF Respond, Abort
<1> QED
  BY <1>2, <1>3, <1>4, <1>5, <1>6, <1>7, <1>8, <1>9, <1>10, <1>11, <1>12 DEF Serve

(* Receipts are made by replies, from what the request has counted.        *)
LEMMA ReceiptsMove ==
  ASSUME NEW w \in Worker, Arrive(w) \/ Serve(w) \/ Abort(w)
  PROVE  receipts' = receipts \/ receipts' = receipts \cup ReceiptOf(req[w])
<1>1. CASE Arrive(w)
  BY <1>1 DEF Arrive, Register, Resume, Record, End, Progress, Erase
<1>2. CASE Serve(w) /\ ~Respond(w)
  BY <1>2 DEF Serve, CommitRegister, FindOpen, InsertSession, InsertSessionFails,
     CommitSession, CheckTarget, InsertEvent, InsertEventFails, CommitEvent,
     UpdateEnded, UpdateEndedFails, CommitEnd, ReadEvents, CountSessions, CountEvents,
     DeleteLearner, DeleteNothing, CascadeSession, Cascaded, CommitErase
<1>3. CASE Respond(w) \/ Abort(w)
  BY <1>3 DEF Respond, Abort
<1> QED BY <1>1, <1>2, <1>3

LEMMA StepKeepsCounts ==
  ASSUME Inv, CountsOK, [Next]_vars
  PROVE  CountsOK'
<1>1. RowsKept
  BY StepKeepsRows
<1>2. TypeOK
  BY DEF Inv
<1>3. ASSUME NEW r \in receipts PROVE Covered(r.sessions, r.events, r.learner)'
  <2>1. r.sessions \in Nat /\ r.events \in Nat
    BY <1>2, <1>3 DEF TypeOK
  <2>2. Covered(r.sessions, r.events, r.learner)
    BY <1>3 DEF CountsOK
  <2> QED BY <1>1, <2>1, <2>2, CoveredStays
<1>4. ASSUME NEW v \in Worker, req[v].op = "erase"
      PROVE  /\ req[v].sessionCount \in Nat /\ req[v].eventCount \in Nat
             /\ Covered(req[v].sessionCount, req[v].eventCount, req[v].learner)
  <2>1. req[v] \in Request
    BY <1>2 DEF TypeOK
  <2> QED BY <1>4, <2>1 DEF CountsOK, Request
<1>5. CASE UNCHANGED vars
  <2>1. ASSUME NEW v \in Worker, req'[v].op = "erase"
        PROVE  Covered(req[v].sessionCount, req[v].eventCount, req[v].learner)'
    <3>1. req'[v] = req[v]
      BY <1>5 DEF vars
    <3>2. PICK i, j, k : /\ i = req[v].sessionCount /\ j = req[v].eventCount
                         /\ k = req[v].learner
      OBVIOUS
    <3>3. Covered(i, j, k)'
      BY <1>1, <1>4, <2>1, <3>1, <3>2, CoveredStays
    <3> QED BY <3>1, <3>2, <3>3 DEF Covered
  <2> QED BY <1>3, <1>5, <2>1 DEF CountsOK, vars
<1>6. ASSUME NEW w \in Worker, Arrive(w) \/ Serve(w) \/ Abort(w)
      PROVE  CountsOK'
  <2>1. CountsMove(w)
    BY <1>2, <1>6, ArrivalCounts, ServiceCounts
  <2>2. ASSUME NEW v \in Worker, req'[v].op = "erase"
        PROVE  Covered(req[v].sessionCount, req[v].eventCount, req[v].learner)'
    <3>1. CASE v # w
      <4>1. req'[v] = req[v]
        BY <1>2, <1>6, <3>1, OthersStay
      <4>2. PICK i, j, k : /\ i = req[v].sessionCount /\ j = req[v].eventCount
                           /\ k = req[v].learner
        OBVIOUS
      <4>3. Covered(i, j, k)'
        BY <1>1, <1>4, <2>2, <4>1, <4>2, CoveredStays
      <4> QED BY <4>1, <4>2, <4>3 DEF Covered
    <3>2. CASE v = w
      <4> DEFINE l == req'[w].learner
                 m == req'[w].sessionCount
                 n == req'[w].eventCount
      <4>1. m \in Nat /\ n \in Nat /\ Covered(m, n, l)
        <5>1. CASE m = 0 /\ n = 0
          BY <5>1, KeptFinite DEF Covered
        <5>2. CASE ~(m = 0 /\ n = 0)
          <6>1. /\ req[w].op = "erase" /\ l = req[w].learner
                /\ m \in {req[w].sessionCount, Cardinality(LiveSessionsOf(l))}
                /\ n \in {req[w].eventCount, Cardinality(LiveEventsOf(l))}
            BY <2>1, <2>2, <3>2, <5>2 DEF CountsMove
          <6>2. /\ Cardinality(LiveSessionsOf(l)) \in Nat
                /\ Cardinality(LiveEventsOf(l)) \in Nat
            BY CountTypes
          <6> QED BY <1>4, <6>1, <6>2, LiveIsKept DEF Covered
        <5> QED BY <5>1, <5>2
      <4>2. PICK i, j, k : i = m /\ j = n /\ k = l
        OBVIOUS
      <4>3. Covered(i, j, k)'
        BY <1>1, <4>1, <4>2, CoveredStays
      <4> QED BY <3>2, <4>2, <4>3 DEF Covered
    <3> QED BY <3>1, <3>2
  <2>3. ASSUME NEW r \in receipts' PROVE Covered(r.sessions, r.events, r.learner)'
    <3>1. CASE r \in receipts
      BY <1>3, <3>1
    <3>2. CASE r \in ReceiptOf(req[w])
      <4>1. /\ req[w].op = "erase"
            /\ r.sessions = req[w].sessionCount /\ r.events = req[w].eventCount
            /\ r.learner = req[w].learner
        BY <3>2 DEF ReceiptOf
      <4>2. /\ r.sessions \in Nat /\ r.events \in Nat
            /\ Covered(r.sessions, r.events, r.learner)
        BY <1>4, <4>1
      <4> QED BY <1>1, <4>2, CoveredStays
    <3> QED BY <1>6, <3>1, <3>2, ReceiptsMove
  <2> QED BY <2>2, <2>3 DEF CountsOK
<1> QED BY <1>5, <1>6 DEF Next

(* Sessions and events are counted one statement each before they are      *)
(* deleted.  Whatever is recorded in between, by any number of requests,   *)
(* and whoever else erases, no receipt claims a row that was not there.    *)
THEOREM ReceiptNeverOverstatesHolds == Spec => []ReceiptNeverOverstates
<1>1. Init => CountsOK
  BY DEF Init, CountsOK, NoRequest, Asks
<1>2. Inv /\ CountsOK /\ [Next]_vars => CountsOK'
  BY StepKeepsCounts
<1>3. Inv /\ CountsOK => ReceiptNeverOverstates
  <2> SUFFICES ASSUME Inv, CountsOK, NEW r \in receipts
               PROVE  /\ r.sessions <= Cardinality(ErasedSessions(r.learner))
                      /\ r.events <= Cardinality(ErasedEvents(r.learner))
    BY DEF ReceiptNeverOverstates
  <2>1. learners[r.learner] = "erased"
    BY DEF Inv, HistoryOK
  <2>2. KeptSessionsOf(r.learner) = ErasedSessions(r.learner)
    <3>1. ASSUME NEW s \in SessionsOf(r.learner) PROVE sessions[s] # "live"
      BY <2>1, <3>1 DEF SessionsOf, Inv, SessionsOK, OwnerOfSession
    <3> QED BY <3>1 DEF KeptSessionsOf, ErasedSessions, Known
  <2>3. KeptEventsOf(r.learner) = ErasedEvents(r.learner)
    <3>1. ASSUME NEW e \in EventsOf(r.learner) PROVE events[e] # "live"
      BY <2>1, <3>1 DEF EventsOf, SessionsOf, Inv, EventsOK, SessionsOK, OwnerOfSession
    <3> QED BY <3>1 DEF KeptEventsOf, ErasedEvents, Known
  <2> QED BY <2>2, <2>3 DEF CountsOK, Covered
<1> QED
  BY <1>1, <1>2, <1>3, InvIsInvariant, PTL DEF Spec

=============================================================================
