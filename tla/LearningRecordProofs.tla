------------------------ MODULE LearningRecordProofs ------------------------
(***************************************************************************)
(* Proofs about LearningRecord for any number of learners, sessions,       *)
(* events and requests in flight: Inv is inductive, and the safety         *)
(* properties follow from it.                                              *)
(***************************************************************************)
EXTENDS LearningRecordInv, FiniteSetTheorems, TLAPS

-----------------------------------------------------------------------------
(* Requests.                                                               *)

(* A request that arrives is a request record.                             *)
LEMMA AsksType ==
  ASSUME NEW op \in AllOperations \cup {"none"}, NEW l \in Learner \cup {None},
         NEW c \in Concept \cup {None}, NEW s \in Session \cup {None}
  PROVE  Asks(op, l, c, s) \in Request
BY ConstantsAssumption, SMT
   DEF Asks, Request, Event, NoEvent, Time, Status

LEMMA NoRequestType == NoRequest \in Request
BY AsksType DEF NoRequest

(* So is a request with one of its local variables written.                *)
LEMMA LocalsType ==
  ASSUME NEW r \in Request
  PROVE  /\ \A s \in Session : [r EXCEPT !.session = s] \in Request
         /\ \A e \in Event : [r EXCEPT !.event = e] \in Request
         /\ \A e \in Event \cup {NoEvent} : [r EXCEPT !.retracts = e] \in Request
         /\ \A t \in Time : [r EXCEPT !.at = t] \in Request
         /\ \A ss \in SUBSET Session : [r EXCEPT !.cascaded = ss] \in Request
         /\ \A n \in Nat : [r EXCEPT !.sessionCount = n] \in Request
         /\ \A n \in Nat : [r EXCEPT !.eventCount = n] \in Request
         /\ \A es \in SUBSET Event : [r EXCEPT !.view = es] \in Request
         /\ \A st \in Status : [r EXCEPT !.status = st] \in Request
BY SMT DEF Request

(* A reply touches nothing but its own request, and there only the status. *)
LEMMA ReplyEffect ==
  ASSUME TypeOK, NEW w \in Worker, NEW r \in Request, NEW s \in Status,
         Reply(w, r, s)
  PROVE  /\ pc' \in [Worker -> Label]
         /\ req' \in [Worker -> Request]
         /\ pc'[w] = "respond"
         /\ req'[w].status = s
         /\ req'[w].op = r.op
         /\ req'[w].learner = r.learner
         /\ req'[w].session = r.session
         /\ req'[w].event = r.event
         /\ \A v \in Worker \ {w} : pc'[v] = pc[v] /\ req'[v] = req[v]
<1> DEFINE q == [r EXCEPT !.status = s]
<1>1. /\ q.status = s /\ q.op = r.op /\ q.learner = r.learner
      /\ q.session = r.session /\ q.event = r.event
  BY DEF Request
<1>2. q \in Request
  BY LocalsType
<1>3. pc' = [pc EXCEPT ![w] = "respond"] /\ req' = [req EXCEPT ![w] = q]
  BY DEF Reply, Goto
<1> HIDE DEF q
<1> QED
  BY <1>1, <1>2, <1>3 DEF TypeOK, Label

(* The rows a request counts are finitely many.                            *)
LEMMA CountTypes ==
  ASSUME NEW l
  PROVE  /\ Cardinality(LiveSessionsOf(l)) \in Nat
         /\ Cardinality(LiveEventsOf(l)) \in Nat
<1>1. LiveSessionsOf(l) \subseteq Session /\ LiveEventsOf(l) \subseteq Event
  BY DEF LiveSessionsOf, SessionsOf, LiveEventsOf, EventsOf
<1>2. IsFiniteSet(Event)
  BY FS_Interval, ConstantsAssumption DEF Event
<1> QED
  BY <1>1, <1>2, FiniteIdsAssumption, FS_Subset, FS_CardinalityType

(* A refusal says nothing of any row.                                      *)
LEMMA RefuseEffect ==
  ASSUME TypeOK, NEW w \in Worker, NEW s \in Status, Refuse(w, s)
  PROVE  /\ pc' \in [Worker -> Label]
         /\ req' \in [Worker -> Request]
         /\ pc'[w] = "respond"
         /\ req'[w].status = s
         /\ \A v \in Worker \ {w} : pc'[v] = pc[v] /\ req'[v] = req[v]
BY NoRequestType, ReplyEffect DEF Refuse

-----------------------------------------------------------------------------
(* What a step of one request leaves to the others.                        *)

Others(w) == \A v \in Worker \ {w} : pc'[v] = pc[v] /\ req'[v] = req[v]

(* Committed rows keep their columns and are never forgotten.              *)
RowsKept ==
  /\ \A l \in Learner : /\ learners[l] \in Known => learners'[l] \in Known
                        /\ learners[l] = "erased" => learners'[l] = "erased"
  /\ \A s \in Session : sessions[s] \in Known =>
       /\ sessions'[s] \in Known
       /\ sessions[s] = "erased" => sessions'[s] = "erased"
       /\ sessionRow'[s].learner = sessionRow[s].learner
  /\ \A e \in Event : events[e] \in Known =>
       /\ events'[e] \in Known
       /\ eventRow'[e] = eventRow[e]

(* Every committed event was recorded in a session that was committed.     *)
LEMMA KnownSessionOfEvent ==
  ASSUME EventsOK, NEW e \in Event, events[e] \in Known
  PROVE  eventRow[e].session \in Session /\ sessions[eventRow[e].session] \in Known
BY DEF EventsOK, Known, Used

LEMMA MayRetractKept ==
  ASSUME Inv, RowsKept, NEW s \in Session, sessions[s] \in Known,
         NEW target, MayRetract(target, s)
  PROVE  MayRetract(target, s)'
<1>1. target \in Event /\ events[target] \in Known
  BY DEF MayRetract
<1>2. eventRow[target].session \in Session /\ sessions[eventRow[target].session] \in Known
  BY <1>1, KnownSessionOfEvent DEF Inv
<1> QED
  BY <1>1, <1>2 DEF MayRetract, RowsKept, OwnerOfEvent, OwnerOfSession

(* What a request has read stays true through the steps of the others.     *)
LEMMA ReadsKept ==
  ASSUME Inv, RowsKept, NEW v \in Worker, pc'[v] = pc[v], req'[v] = req[v]
  PROVE  ReadsOK(v)' /\ RepliesOK(v)'
<1>1. ReadsOK(v) /\ RepliesOK(v)
  BY DEF Inv
<1>2. pc[v] = "insertEvent" /\ req[v].retracts # NoEvent =>
        MayRetract(req[v].retracts, req[v].session)'
  BY <1>1, MayRetractKept DEF ReadsOK
<1>3. ReadsOK(v)'
  BY <1>1, <1>2 DEF ReadsOK, RowsKept, MayRetract
<1>4. RepliesOK(v)'
  BY <1>1 DEF RepliesOK, RowsKept, Known
<1> QED
  BY <1>3, <1>4

LEMMA HistoryKept ==
  ASSUME Inv, RowsKept, UNCHANGED <<acked, receipts>>
  PROVE  HistoryOK'
BY DEF Inv, TypeOK, HistoryOK, RowsKept

(* Uncommitted rows of the others still have their transaction.            *)
LEMMA PendingKept ==
  ASSUME Inv, NEW w \in Worker, Others(w),
         \A s \in Session : sessions'[s] = "pending" =>
           /\ sessions[s] = "pending"
           /\ ~(InTransaction(w, "resume") /\ req[w].session = s),
         \A e \in Event : events'[e] = "pending" =>
           /\ events[e] = "pending"
           /\ ~(InTransaction(w, "record") /\ req[w].event = e)
  PROVE  PendingOK'
BY DEF Inv, PendingOK, InTransaction, Others

(* Outside a transaction a request holds nothing.                          *)
LEMMA NothingHeld ==
  ASSUME NEW w \in Worker, pc'[w] \notin {"cascade", "commit"}
  PROVE  /\ WritesOK(w)'
         /\ \A v \in Worker : Compatible(v, w)' /\ Compatible(w, v)'
BY DEF WritesOK, Compatible, InTransaction

(* What remains to be shown of a step of w that forgets no row.            *)
LEMMA OneStep ==
  ASSUME Inv, NEW w \in Worker, Others(w), RowsKept,
         TypeOK', SessionsOK', EventsOK', RetractionsOK', PendingOK', HistoryOK',
         \A v \in Worker \ {w} : WritesOK(v)',
         ReadsOK(w)', RepliesOK(w)', WritesOK(w)',
         \A v \in Worker \ {w} : Compatible(v, w)' /\ Compatible(w, v)'
  PROVE  Inv'
<1>1. ASSUME NEW v \in Worker
      PROVE  ReadsOK(v)' /\ RepliesOK(v)' /\ WritesOK(v)'
  <2>1. CASE v = w
    BY <2>1
  <2>2. CASE v # w
    BY <2>2, ReadsKept DEF Others
  <2> QED BY <2>1, <2>2
<1>2. LocksOK'
  <2> SUFFICES ASSUME NEW u \in Worker, NEW v \in Worker, u # v
               PROVE  Compatible(u, v)'
    BY DEF LocksOK
  <2>1. CASE u = w \/ v = w
    BY <2>1
  <2>2. CASE u # w /\ v # w
    <3>1. Compatible(u, v)
      BY DEF Inv, LocksOK
    <3> QED
      BY <2>2, <3>1 DEF Compatible, InTransaction, Others
  <2> QED BY <2>1, <2>2
<1> QED
  BY <1>1, <1>2 DEF Inv

(* A step that writes no row can disturb only what the invariant says of   *)
(* its own request.                                                        *)
LEMMA QuietStep ==
  ASSUME Inv, NEW w \in Worker, pc[w] # "commit",
         UNCHANGED <<tables, acked, receipts>>, clock' \in Time,
         pc' \in [Worker -> Label], req' \in [Worker -> Request], Others(w),
         ReadsOK(w)', RepliesOK(w)', WritesOK(w)',
         \A v \in Worker \ {w} : Compatible(v, w)' /\ Compatible(w, v)'
  PROVE  Inv'
<1>1. TypeOK'
  BY DEF Inv, TypeOK, tables
<1>2. SessionsOK' /\ EventsOK' /\ RetractionsOK'
  BY DEF Inv, SessionsOK, EventsOK, RetractionsOK, tables,
         MayRetract, OwnerOfEvent, OwnerOfSession
<1>3. RowsKept
  BY DEF RowsKept, tables
<1>4. ASSUME NEW v \in Worker \ {w} PROVE WritesOK(v)'
  <2>1. WritesOK(v)
    BY DEF Inv
  <2> QED
    BY <2>1 DEF WritesOK, InTransaction, Others, tables,
                LiveSessionsOf, SessionsOf, OwnerOfSession
<1>5. PendingOK'
  <2>1. ~InTransaction(w, "resume") /\ ~InTransaction(w, "record")
    BY DEF Inv, WritesOK, InTransaction
  <2> QED
    BY <2>1 DEF Inv, PendingOK, InTransaction, Others, tables
<1> QED
  BY <1>1, <1>2, <1>3, <1>4, <1>5, HistoryKept, OneStep

(* A step that also leaves its request outside a transaction.              *)
LEMMA ReadStep ==
  ASSUME Inv, NEW w \in Worker, pc[w] # "commit",
         UNCHANGED <<tables, acked, receipts>>, clock' \in Time,
         pc' \in [Worker -> Label], req' \in [Worker -> Request], Others(w),
         pc'[w] \notin {"cascade", "commit"}, ReadsOK(w)', RepliesOK(w)'
  PROVE  Inv'
BY NothingHeld, QuietStep

LEMMA RefuseStep ==
  ASSUME Inv, NEW w \in Worker, NEW s \in {"403", "404", "422", "500 lesson"},
         Refuse(w, s),
         pc[w] # "commit",
         UNCHANGED <<tables, acked, receipts>>, clock' \in Time
  PROVE  Inv'
<1>1. s \in Status /\ s \notin {"ok", "500"}
  BY DEF Status, ServerError
<1>2. /\ pc' \in [Worker -> Label]
      /\ req' \in [Worker -> Request]
      /\ pc'[w] = "respond"
      /\ req'[w].status = s
      /\ Others(w)
  BY <1>1, RefuseEffect DEF Inv, Others
<1>3. ReadsOK(w)'
  BY <1>2 DEF ReadsOK
<1>4. RepliesOK(w)'
  BY <1>1, <1>2 DEF RepliesOK
<1> QED
  BY <1>2, <1>3, <1>4, ReadStep

-----------------------------------------------------------------------------
(* The steps that only read.                                               *)

LEMMA ResumeStep ==
  ASSUME Inv, NEW w \in Worker, Resume(w)
  PROVE  Inv'
<1>1. /\ UNCHANGED <<tables, acked, receipts>>
      /\ clock' \in Time /\ pc[w] # "commit"
  BY DEF Resume, Tick, Accept
<1>2. CASE Refuse(w, "404")
  BY <1>1, <1>2, RefuseStep
<1>3. CASE ~Refuse(w, "404")
  <2>1. PICK l \in Learner, c \in Concept :
          /\ learners[l] = "live"
          /\ Goto(w, "findOpen")
          /\ req' = [req EXCEPT ![w] = [Asks("resume", l, c, None) EXCEPT !.at = clock']]
    BY <1>3 DEF Resume
  <2> DEFINE r == [Asks("resume", l, c, None) EXCEPT !.at = clock']
  <2>2. r \in Request
    BY <1>1, AsksType, LocalsType DEF AllOperations
  <2>3. r.op = "resume" /\ r.learner = l /\ r.concept = c /\ r.session = None
    BY DEF Asks
  <2> HIDE DEF r
  <2>4. /\ pc' \in [Worker -> Label] /\ pc'[w] = "findOpen"
        /\ req' \in [Worker -> Request] /\ req'[w] = r
        /\ Others(w)
    BY <2>1, <2>2 DEF Inv, TypeOK, Goto, Label, Others, r
  <2>5. ReadsOK(w)'
    BY <1>1, <2>1, <2>3, <2>4 DEF ReadsOK, Known, tables
  <2>6. RepliesOK(w)'
    BY <2>4 DEF RepliesOK
  <2> QED
    BY <1>1, <2>4, <2>5, <2>6, ReadStep
<1> QED
  BY <1>2, <1>3

LEMMA FindOpenStep ==
  ASSUME Inv, NEW w \in Worker, FindOpen(w)
  PROVE  Inv'
<1>1. /\ UNCHANGED <<tables, acked, receipts>>
      /\ clock' \in Time /\ pc[w] # "commit"
  BY DEF FindOpen, Inv, TypeOK
<1>2. /\ req[w] \in Request /\ ReadsOK(w) /\ pc[w] = "findOpen"
      /\ req[w].op = "resume"
  BY DEF FindOpen, Inv, TypeOK, ReadsOK
<1>3. CASE Goto(w, "insertSession") /\ UNCHANGED req
  <2>1. /\ pc' \in [Worker -> Label] /\ pc'[w] = "insertSession"
        /\ req' \in [Worker -> Request] /\ req'[w] = req[w]
        /\ Others(w)
    BY <1>3 DEF Inv, TypeOK, Goto, Label, Others
  <2>2. ReadsOK(w)'
    BY <1>1, <1>2, <2>1 DEF ReadsOK, Known, tables
  <2>3. RepliesOK(w)'
    BY <2>1 DEF RepliesOK
  <2> QED
    BY <1>1, <2>1, <2>2, <2>3, ReadStep
<1>4. CASE \E s \in Newest(OpenSessions(req[w].learner, req[w].concept)) :
             Reply(w, [req[w] EXCEPT !.session = s], "ok")
  <2>1. PICK s \in Session : /\ sessions[s] = "live"
                             /\ Reply(w, [req[w] EXCEPT !.session = s], "ok")
    BY <1>4 DEF Newest, OpenSessions, LiveSessionsOf, SessionsOf
  <2> DEFINE r == [req[w] EXCEPT !.session = s]
  <2>2. r \in Request
    BY <1>2, LocalsType
  <2>3. r.op = "resume" /\ r.session = s
    BY <1>2 DEF Request
  <2>a. Reply(w, r, "ok") /\ "ok" \in Status
    BY <2>1 DEF Status
  <2> HIDE DEF r
  <2>4. /\ pc' \in [Worker -> Label] /\ pc'[w] = "respond"
        /\ req' \in [Worker -> Request]
        /\ req'[w].op = "resume" /\ req'[w].status = "ok" /\ req'[w].session = s
        /\ Others(w)
    BY <2>2, <2>3, <2>a, ReplyEffect DEF Inv, Others
  <2>5. ReadsOK(w)'
    BY <2>4 DEF ReadsOK
  <2>6. RepliesOK(w)'
    BY <1>1, <2>1, <2>4 DEF RepliesOK, Known, tables
  <2> QED
    BY <1>1, <2>4, <2>5, <2>6, ReadStep
<1> QED
  BY <1>3, <1>4 DEF FindOpen

(* A reply that blames an erasure.                                         *)
LEMMA LostRaceStep ==
  ASSUME Inv, NEW w \in Worker, Reply(w, req[w], "500"), pc[w] # "commit",
         UNCHANGED <<tables, clock, acked, receipts>>,
         \/ /\ req[w].session = None /\ req[w].learner \in Learner
            /\ learners[req[w].learner] = "erased"
         \/ req[w].session \in Session /\ sessions[req[w].session] = "erased"
  PROVE  Inv'
<1>1. /\ pc' \in [Worker -> Label] /\ pc'[w] = "respond"
      /\ req' \in [Worker -> Request]
      /\ req'[w].status = "500"
      /\ req'[w].learner = req[w].learner /\ req'[w].session = req[w].session
      /\ Others(w)
  <2>1. req[w] \in Request /\ "500" \in Status
    BY DEF Inv, TypeOK, Status, ServerError
  <2> QED
    BY <2>1, ReplyEffect DEF Inv, Others
<1>2. ReadsOK(w)'
  BY <1>1 DEF ReadsOK
<1>3. RepliesOK(w)'
  BY <1>1 DEF RepliesOK, tables
<1>4. clock' \in Time
  BY DEF Inv, TypeOK
<1> QED
  BY <1>1, <1>2, <1>3, <1>4, ReadStep

LEMMA InsertSessionFailsStep ==
  ASSUME Inv, NEW w \in Worker, InsertSessionFails(w)
  PROVE  Inv'
<1>1. ReadsOK(w)
  BY DEF Inv
<1>2. /\ req[w].session = None /\ req[w].learner \in Learner
      /\ learners[req[w].learner] = "erased"
  BY <1>1 DEF InsertSessionFails, ReadsOK, Known
<1> QED
  BY <1>2, LostRaceStep DEF InsertSessionFails

LEMMA UpdateEndedFailsStep ==
  ASSUME Inv, NEW w \in Worker, UpdateEndedFails(w)
  PROVE  Inv'
<1>1. ReadsOK(w)
  BY DEF Inv
<1>2. req[w].session \in Session /\ sessions[req[w].session] = "erased"
  BY <1>1 DEF UpdateEndedFails, ReadsOK, Known
<1> QED
  BY <1>2, LostRaceStep DEF UpdateEndedFails

LEMMA RecordStep ==
  ASSUME Inv, NEW w \in Worker, Record(w)
  PROVE  Inv'
<1>1. UNCHANGED <<tables, acked, receipts>> /\ clock' \in Time /\ pc[w] # "commit"
  BY DEF Record, Inv, TypeOK, Accept
<1>2. CASE Refuse(w, "404") \/ Refuse(w, "422")
  BY <1>1, <1>2, RefuseStep
<1>3. CASE ~(Refuse(w, "404") \/ Refuse(w, "422"))
  <2>1. PICK s \in Session, target \in Event \cup {NoEvent} :
          /\ sessions[s] = "live"
          /\ Goto(w, IF target = NoEvent THEN "insertEvent" ELSE "checkTarget")
          /\ req' = [req EXCEPT ![w] =
                       [Asks("record", None, None, s) EXCEPT !.retracts = target]]
    BY <1>3 DEF Record
  <2> DEFINE r == [Asks("record", None, None, s) EXCEPT !.retracts = target]
  <2>2. r \in Request
    BY AsksType, LocalsType DEF AllOperations
  <2>3. r.op = "record" /\ r.session = s /\ r.retracts = target
    BY DEF Asks
  <2>a. req' = [req EXCEPT ![w] = r]
    BY <2>1
  <2> HIDE DEF r
  <2>4. /\ pc' \in [Worker -> Label]
        /\ pc'[w] = IF target = NoEvent THEN "insertEvent" ELSE "checkTarget"
        /\ req' \in [Worker -> Request] /\ req'[w] = r
        /\ Others(w)
    BY <2>1, <2>2, <2>a DEF Inv, TypeOK, Goto, Label, Others
  <2>5. ReadsOK(w)'
    BY <1>1, <2>1, <2>3, <2>4 DEF ReadsOK, Known, tables
  <2>6. RepliesOK(w)'
    BY <2>4 DEF RepliesOK
  <2> QED
    BY <1>1, <2>4, <2>5, <2>6, ReadStep
<1> QED
  BY <1>2, <1>3

LEMMA CheckTargetStep ==
  ASSUME Inv, NEW w \in Worker, CheckTarget(w)
  PROVE  Inv'
<1>1. UNCHANGED <<tables, acked, receipts>> /\ clock' \in Time /\ pc[w] # "commit"
  BY DEF CheckTarget, Inv, TypeOK
<1>2. CASE ~Retractable(req[w].retracts, req[w].session)
  BY <1>1, <1>2, RefuseStep DEF CheckTarget
<1>3. CASE Retractable(req[w].retracts, req[w].session)
  <2>1. /\ pc' \in [Worker -> Label] /\ pc'[w] = "insertEvent"
        /\ req' \in [Worker -> Request] /\ req'[w] = req[w]
        /\ Others(w)
    BY <1>3 DEF CheckTarget, Inv, TypeOK, Goto, Label, Others
  <2>2. /\ req[w].op = "record" /\ req[w].retracts \in Event
        /\ req[w].session \in Session /\ sessions[req[w].session] \in Known
    BY DEF CheckTarget, Inv, ReadsOK
  <2>3. MayRetract(req[w].retracts, req[w].session)
    BY <1>3, <2>2 DEF Retractable, MayRetract, Known, OwnerOfEvent, OwnerOfSession
  <2>4. ReadsOK(w)'
    BY <1>1, <2>1, <2>2, <2>3
       DEF ReadsOK, tables, MayRetract, OwnerOfEvent, OwnerOfSession
  <2>5. RepliesOK(w)'
    BY <2>1 DEF RepliesOK
  <2> QED
    BY <1>1, <2>1, <2>4, <2>5, ReadStep
<1> QED
  BY <1>2, <1>3

LEMMA EndStep ==
  ASSUME Inv, NEW w \in Worker, End(w)
  PROVE  Inv'
<1>1. UNCHANGED <<tables, acked, receipts>> /\ clock' \in Time /\ pc[w] # "commit"
  BY DEF End, Tick, Accept
<1>2. CASE Refuse(w, "404")
  BY <1>1, <1>2, RefuseStep
<1>3. CASE ~Refuse(w, "404")
  <2>1. PICK s \in Session :
          LET r == [Asks("end", None, None, s) EXCEPT !.at = clock']
          IN  /\ sessions[s] = "live"
              /\ \/ Reply(w, r, "ok")
                 \/ Goto(w, "updateEnded") /\ req' = [req EXCEPT ![w] = r]
    BY <1>3 DEF End
  <2> DEFINE r == [Asks("end", None, None, s) EXCEPT !.at = clock']
  <2>2. r \in Request
    BY <1>1, AsksType, LocalsType DEF AllOperations
  <2>3. r.op = "end" /\ r.session = s
    BY DEF Asks
  <2>4. \/ Reply(w, r, "ok")
        \/ Goto(w, "updateEnded") /\ req' = [req EXCEPT ![w] = r]
    BY <2>1
  <2> HIDE DEF r
  <2>5. CASE Reply(w, r, "ok")
    <3>1. "ok" \in Status
      BY DEF Status
    <3>2. /\ pc' \in [Worker -> Label] /\ pc'[w] = "respond"
          /\ req' \in [Worker -> Request]
          /\ req'[w].op = "end" /\ req'[w].session = s /\ req'[w].status = "ok"
          /\ Others(w)
      BY <2>2, <2>3, <2>5, <3>1, ReplyEffect DEF Inv, Others
    <3>3. ReadsOK(w)' /\ RepliesOK(w)'
      BY <1>1, <2>1, <3>2 DEF ReadsOK, RepliesOK, Known, tables
    <3> QED
      BY <1>1, <3>2, <3>3, ReadStep
  <2>6. CASE Goto(w, "updateEnded") /\ req' = [req EXCEPT ![w] = r]
    <3>1. /\ pc' \in [Worker -> Label] /\ pc'[w] = "updateEnded"
          /\ req' \in [Worker -> Request] /\ req'[w] = r
          /\ Others(w)
      BY <2>2, <2>6 DEF Inv, TypeOK, Goto, Label, Others
    <3>2. ReadsOK(w)' /\ RepliesOK(w)'
      BY <1>1, <2>1, <2>3, <3>1 DEF ReadsOK, RepliesOK, Known, tables
    <3> QED
      BY <1>1, <3>1, <3>2, ReadStep
  <2> QED
    BY <2>4, <2>5, <2>6
<1> QED
  BY <1>2, <1>3

LEMMA ProgressStep ==
  ASSUME Inv, NEW w \in Worker, Progress(w)
  PROVE  Inv'
<1>1. UNCHANGED <<tables, acked, receipts>> /\ clock' \in Time /\ pc[w] # "commit"
  BY DEF Progress, Inv, TypeOK, Accept
<1>2. CASE Refuse(w, "404") \/ Refuse(w, "500 lesson")
  BY <1>1, <1>2, RefuseStep
<1>3. CASE ~(Refuse(w, "404") \/ Refuse(w, "500 lesson"))
  <2>1. PICK l \in Learner, c \in Concept :
          /\ Goto(w, "readEvents")
          /\ req' = [req EXCEPT ![w] = Asks("progress", l, c, None)]
    BY <1>3 DEF Progress
  <2> DEFINE r == Asks("progress", l, c, None)
  <2>2. r \in Request
    BY AsksType DEF AllOperations
  <2>3. r.op = "progress" /\ r.learner = l /\ req' = [req EXCEPT ![w] = r]
    BY <2>1 DEF Asks
  <2> HIDE DEF r
  <2>4. /\ pc' \in [Worker -> Label] /\ pc'[w] = "readEvents"
        /\ req' \in [Worker -> Request] /\ req'[w] = r
        /\ Others(w)
    BY <2>1, <2>2, <2>3 DEF Inv, TypeOK, Goto, Label, Others
  <2>5. ReadsOK(w)' /\ RepliesOK(w)'
    BY <1>1, <2>3, <2>4 DEF ReadsOK, RepliesOK, tables
  <2> QED
    BY <1>1, <2>4, <2>5, ReadStep
<1> QED
  BY <1>2, <1>3

LEMMA ReadEventsStep ==
  ASSUME Inv, NEW w \in Worker, ReadEvents(w)
  PROVE  Inv'
<1>1. UNCHANGED <<tables, acked, receipts>> /\ clock' \in Time /\ pc[w] # "commit"
  BY DEF ReadEvents, Inv, TypeOK
<1>2. req[w] \in Request /\ req[w].op = "progress" /\ "ok" \in Status
  BY DEF ReadEvents, Inv, TypeOK, ReadsOK, Status
<1>3. EventsForConcept(req[w].learner, req[w].concept) \in SUBSET Event
  BY DEF EventsForConcept, LiveEventsOf, EventsOf
<1> DEFINE r == [req[w] EXCEPT
                   !.view = EventsForConcept(req[w].learner, req[w].concept)]
<1>4. r \in Request
  BY <1>2, <1>3, LocalsType
<1>5. r.op = "progress"
  BY <1>2 DEF Request
<1>6. Reply(w, r, "ok")
  BY DEF ReadEvents
<1> HIDE DEF r
<1>7. /\ pc' \in [Worker -> Label] /\ pc'[w] = "respond"
      /\ req' \in [Worker -> Request] /\ req'[w].op = "progress"
      /\ req'[w].status = "ok"
      /\ Others(w)
  BY <1>2, <1>4, <1>5, <1>6, ReplyEffect DEF Inv, Others
<1>8. ReadsOK(w)' /\ RepliesOK(w)'
  BY <1>7 DEF ReadsOK, RepliesOK
<1> QED
  BY <1>1, <1>7, <1>8, ReadStep

LEMMA EraseStep ==
  ASSUME Inv, NEW w \in Worker, Erase(w)
  PROVE  Inv'
<1>1. UNCHANGED <<tables, acked, receipts>> /\ clock' \in Time /\ pc[w] # "commit"
  BY DEF Erase, Inv, TypeOK, Accept
<1>2. CASE Refuse(w, "403") \/ Refuse(w, "404")
  BY <1>1, <1>2, RefuseStep
<1>3. CASE ~(Refuse(w, "403") \/ Refuse(w, "404"))
  <2>1. PICK l \in Learner :
          /\ learners[l] = "live"
          /\ Goto(w, "countSessions")
          /\ req' = [req EXCEPT ![w] = Asks("erase", l, None, None)]
    BY <1>3 DEF Erase
  <2> DEFINE r == Asks("erase", l, None, None)
  <2>2. r \in Request
    BY AsksType DEF AllOperations
  <2>3. /\ r.op = "erase" /\ r.learner = l /\ r.cascaded = {}
        /\ req' = [req EXCEPT ![w] = r]
    BY <2>1 DEF Asks
  <2> HIDE DEF r
  <2>4. /\ pc' \in [Worker -> Label] /\ pc'[w] = "countSessions"
        /\ req' \in [Worker -> Request] /\ req'[w] = r
        /\ Others(w)
    BY <2>1, <2>2, <2>3 DEF Inv, TypeOK, Goto, Label, Others
  <2>5. ReadsOK(w)' /\ RepliesOK(w)'
    BY <1>1, <2>1, <2>3, <2>4 DEF ReadsOK, RepliesOK, Known, tables
  <2> QED
    BY <1>1, <2>4, <2>5, ReadStep
<1> QED
  BY <1>2, <1>3

LEMMA CountStep ==
  ASSUME Inv, NEW w \in Worker, CountSessions(w) \/ CountEvents(w)
  PROVE  Inv'
<1>1. UNCHANGED <<tables, acked, receipts>> /\ clock' \in Time /\ pc[w] # "commit"
  BY DEF CountSessions, CountEvents, Inv, TypeOK
<1>2. /\ req[w] \in Request
      /\ req[w].op = "erase" /\ req[w].cascaded = {}
      /\ req[w].learner \in Learner /\ learners[req[w].learner] \in Known
  BY DEF CountSessions, CountEvents, Inv, TypeOK, ReadsOK
<1>3. PICK r \in Request :
        /\ r.op = req[w].op /\ r.learner = req[w].learner
        /\ r.cascaded = req[w].cascaded
        /\ req' = [req EXCEPT ![w] = r]
        /\ \/ Goto(w, "countEvents")
           \/ Goto(w, "delete")
  <2>1. CASE CountSessions(w)
    <3> DEFINE r == [req[w] EXCEPT !.sessionCount =
                       Cardinality(LiveSessionsOf(req[w].learner))]
    <3>1. r \in Request
      BY <1>2, CountTypes, LocalsType
    <3>2. /\ r.op = req[w].op /\ r.learner = req[w].learner
          /\ r.cascaded = req[w].cascaded
      BY <1>2 DEF Request
    <3> QED
      BY <2>1, <3>1, <3>2 DEF CountSessions
  <2>2. CASE CountEvents(w)
    <3> DEFINE r == [req[w] EXCEPT !.eventCount =
                       Cardinality(LiveEventsOf(req[w].learner))]
    <3>1. r \in Request
      BY <1>2, CountTypes, LocalsType
    <3>2. /\ r.op = req[w].op /\ r.learner = req[w].learner
          /\ r.cascaded = req[w].cascaded
      BY <1>2 DEF Request
    <3> QED
      BY <2>2, <3>1, <3>2 DEF CountEvents
  <2> QED
    BY <2>1, <2>2
<1>4. /\ pc' \in [Worker -> Label] /\ pc'[w] \in {"countEvents", "delete"}
      /\ req' \in [Worker -> Request] /\ req'[w] = r
      /\ Others(w)
  BY <1>3 DEF Inv, TypeOK, Goto, Label, Others
<1>5. ReadsOK(w)' /\ RepliesOK(w)'
  BY <1>1, <1>2, <1>3, <1>4 DEF ReadsOK, RepliesOK, tables
<1> QED
  BY <1>1, <1>4, <1>5, ReadStep

LEMMA DeleteNothingStep ==
  ASSUME Inv, NEW w \in Worker, DeleteNothing(w)
  PROVE  Inv'
<1>1. UNCHANGED <<tables, acked, receipts>> /\ clock' \in Time /\ pc[w] # "commit"
  BY DEF DeleteNothing, Inv, TypeOK
<1>2. /\ req[w] \in Request /\ "ok" \in Status
      /\ req[w].op = "erase"
      /\ req[w].learner \in Learner /\ learners[req[w].learner] = "erased"
  BY DEF DeleteNothing, Inv, TypeOK, ReadsOK, Status, Known
<1>3. /\ pc' \in [Worker -> Label] /\ pc'[w] = "respond"
      /\ req' \in [Worker -> Request]
      /\ req'[w].op = "erase" /\ req'[w].status = "ok"
      /\ req'[w].learner = req[w].learner
      /\ Others(w)
  BY <1>2, ReplyEffect DEF DeleteNothing, Inv, Others
<1>4. ReadsOK(w)' /\ RepliesOK(w)'
  BY <1>1, <1>2, <1>3 DEF ReadsOK, RepliesOK, tables
<1> QED
  BY <1>1, <1>3, <1>4, ReadStep

-----------------------------------------------------------------------------
(* The steps that take locks.                                              *)

LEMMA UpdateEndedStep ==
  ASSUME Inv, NEW w \in Worker, UpdateEnded(w)
  PROVE  Inv'
<1>1. /\ UNCHANGED <<tables, acked, receipts>>
      /\ clock' \in Time
      /\ pc[w] = "updateEnded"
  BY DEF UpdateEnded, Inv, TypeOK
<1>2. /\ req[w].op = "end"
      /\ req[w].session \in Session /\ sessions[req[w].session] = "live"
  BY DEF UpdateEnded, Inv, ReadsOK
<1>3. /\ pc' \in [Worker -> Label] /\ pc'[w] = "commit"
      /\ req' \in [Worker -> Request] /\ req' = req
      /\ Others(w)
  BY DEF UpdateEnded, Inv, TypeOK, Goto, Label, Others
<1>4. ReadsOK(w)' /\ RepliesOK(w)' /\ WritesOK(w)'
  BY <1>1, <1>2, <1>3
     DEF ReadsOK, RepliesOK, WritesOK, InTransaction, tables
<1>5. ASSUME NEW v \in Worker \ {w}
      PROVE  Compatible(v, w)' /\ Compatible(w, v)'
  <2>1. /\ InTransaction(v, "end") => req[v].session # req[w].session
        /\ InTransaction(v, "erase") => req[w].session \notin req[v].cascaded
    BY DEF UpdateEnded, UpdatesSession, SessionLockable, DeletesSession
  <2> QED
    BY <1>2, <1>3, <2>1 DEF Compatible, InTransaction, Others
<1> QED
  BY <1>1, <1>3, <1>4, <1>5, QuietStep

LEMMA DeleteLearnerStep ==
  ASSUME Inv, NEW w \in Worker, DeleteLearner(w)
  PROVE  Inv'
<1>1. /\ UNCHANGED <<tables, acked, receipts>>
      /\ clock' \in Time
      /\ pc[w] = "delete"
  BY DEF DeleteLearner, Inv, TypeOK
<1>2. /\ req[w].op = "erase" /\ req[w].cascaded = {}
      /\ req[w].learner \in Learner /\ learners[req[w].learner] = "live"
  BY DEF DeleteLearner, Inv, ReadsOK
<1>3. /\ pc' \in [Worker -> Label] /\ pc'[w] = "cascade"
      /\ req' \in [Worker -> Request] /\ req' = req
      /\ Others(w)
  BY DEF DeleteLearner, Inv, TypeOK, Goto, Label, Others
<1>4. ReadsOK(w)' /\ RepliesOK(w)' /\ WritesOK(w)'
  BY <1>1, <1>2, <1>3
     DEF ReadsOK, RepliesOK, WritesOK, InTransaction, tables
<1>5. ASSUME NEW v \in Worker \ {w}
      PROVE  Compatible(v, w)' /\ Compatible(w, v)'
  <2>1. /\ InTransaction(v, "resume") => req[v].learner # req[w].learner
        /\ InTransaction(v, "erase") => req[v].learner # req[w].learner
    BY DEF DeleteLearner, KeySharesLearner, DeletesLearner
  <2> QED
    BY <1>2, <1>3, <2>1 DEF Compatible, InTransaction, Others
<1> QED
  BY <1>1, <1>3, <1>4, <1>5, QuietStep

LEMMA CascadeSessionStep ==
  ASSUME Inv, NEW w \in Worker, CascadeSession(w)
  PROVE  Inv'
<1>1. /\ UNCHANGED <<tables, acked, receipts>>
      /\ clock' \in Time
      /\ pc[w] = "cascade"
  BY DEF CascadeSession, Inv, TypeOK
<1>2. /\ req[w] \in Request /\ InTransaction(w, "erase") /\ req[w].op = "erase"
      /\ req[w].learner \in Learner /\ learners[req[w].learner] = "live"
      /\ req[w].cascaded \subseteq LiveSessionsOf(req[w].learner)
  BY <1>1 DEF Inv, TypeOK, WritesOK, InTransaction
<1>3. PICK s \in LiveSessionsOf(req[w].learner) :
        /\ \A v \in Worker : ~KeySharesSession(v, s) /\ ~UpdatesSession(v, s)
        /\ req' = [req EXCEPT ![w].cascaded = @ \cup {s}]
  BY DEF CascadeSession
<1> DEFINE r == [req[w] EXCEPT !.cascaded = req[w].cascaded \cup {s}]
<1>4. req[w].cascaded \cup {s} \in SUBSET Session
  BY <1>2 DEF LiveSessionsOf, SessionsOf
<1>5. r \in Request
  BY <1>2, <1>4, LocalsType
<1>6. /\ r.op = "erase" /\ r.learner = req[w].learner
      /\ r.cascaded = req[w].cascaded \cup {s}
  BY <1>2 DEF Request
<1>7. req' = [req EXCEPT ![w] = r]
  BY <1>3
<1> HIDE DEF r
<1>8. /\ pc' \in [Worker -> Label] /\ pc'[w] = "cascade"
      /\ req' \in [Worker -> Request] /\ req'[w] = r
      /\ Others(w)
  BY <1>1, <1>5, <1>7 DEF CascadeSession, Inv, TypeOK, Others
<1>9. ReadsOK(w)' /\ RepliesOK(w)' /\ WritesOK(w)'
  BY <1>1, <1>2, <1>6, <1>8
     DEF ReadsOK, RepliesOK, WritesOK, InTransaction, tables,
         LiveSessionsOf, SessionsOf
<1>10. ASSUME NEW v \in Worker \ {w}
       PROVE  Compatible(v, w)' /\ Compatible(w, v)'
  <2>1. Compatible(v, w) /\ Compatible(w, v)
    BY DEF Inv, LocksOK
  <2>2. /\ InTransaction(v, "record") => req[v].session # s
        /\ InTransaction(v, "end") => req[v].session # s
    BY <1>3 DEF KeySharesSession, UpdatesSession
  <2> QED
    BY <1>2, <1>6, <1>8, <2>1, <2>2 DEF Compatible, InTransaction, Others
<1> QED
  BY <1>1, <1>8, <1>9, <1>10, QuietStep

LEMMA CascadedStep ==
  ASSUME Inv, NEW w \in Worker, Cascaded(w)
  PROVE  Inv'
<1>1. /\ UNCHANGED <<tables, acked, receipts>>
      /\ clock' \in Time
      /\ pc[w] = "cascade"
  BY DEF Cascaded, Inv, TypeOK
<1>2. /\ InTransaction(w, "erase") /\ req[w].op = "erase"
      /\ req[w].learner \in Learner /\ learners[req[w].learner] = "live"
      /\ req[w].cascaded \subseteq LiveSessionsOf(req[w].learner)
      /\ LiveSessionsOf(req[w].learner) \subseteq req[w].cascaded
  BY <1>1 DEF Cascaded, Inv, WritesOK, InTransaction
<1>3. /\ pc' \in [Worker -> Label] /\ pc'[w] = "commit"
      /\ req' \in [Worker -> Request] /\ req' = req
      /\ Others(w)
  BY DEF Cascaded, Inv, TypeOK, Goto, Label, Others
<1>4. ReadsOK(w)' /\ RepliesOK(w)' /\ WritesOK(w)'
  BY <1>1, <1>2, <1>3
     DEF ReadsOK, RepliesOK, WritesOK, InTransaction, tables,
         LiveSessionsOf, SessionsOf
<1>5. ASSUME NEW v \in Worker \ {w}
      PROVE  Compatible(v, w)' /\ Compatible(w, v)'
  <2>1. Compatible(v, w) /\ Compatible(w, v)
    BY DEF Inv, LocksOK
  <2> QED
    BY <1>2, <1>3, <2>1 DEF Compatible, InTransaction, Others
<1> QED
  BY <1>1, <1>3, <1>4, <1>5, QuietStep

-----------------------------------------------------------------------------
(* The steps that write rows.                                              *)

LEMMA RegisterStep ==
  ASSUME Inv, NEW w \in Worker, Register(w)
  PROVE  Inv'
<1>1. PICK l \in Learner :
        /\ learners[l] = "free"
        /\ learners' = [learners EXCEPT ![l] = "pending"]
        /\ req' = [req EXCEPT ![w] = Asks("register", l, None, None)]
  BY DEF Register
<1> DEFINE r == Asks("register", l, None, None)
<1>2. r \in Request
  BY AsksType DEF AllOperations
<1>3. r.op = "register" /\ r.learner = l /\ req' = [req EXCEPT ![w] = r]
  BY <1>1 DEF Asks
<1> HIDE DEF r
<1>4. /\ pc[w] = "idle"
      /\ pc' \in [Worker -> Label] /\ pc'[w] = "commit"
      /\ req' \in [Worker -> Request] /\ req'[w] = r
      /\ Others(w)
  BY <1>2, <1>3 DEF Register, Accept, Inv, TypeOK, Goto, Label, Others
<1>5. /\ \A k \in Learner \ {l} : learners'[k] = learners[k]
      /\ learners'[l] = "pending"
      /\ UNCHANGED <<sessions, sessionRow, events, eventRow, acked, receipts>>
  BY <1>1 DEF Register, Inv, TypeOK
<1>6. TypeOK'
  BY <1>1, <1>4 DEF Register, Inv, TypeOK, Standing
<1>7. RowsKept
  BY <1>1, <1>5 DEF RowsKept, Known
<1>8. SessionsOK'
  BY <1>1, <1>5 DEF Inv, SessionsOK, OwnerOfSession, Used
<1>9. EventsOK' /\ RetractionsOK'
  BY DEF Register, Inv, EventsOK, RetractionsOK, MayRetract,
         OwnerOfEvent, OwnerOfSession
<1>10. PendingOK'
  BY <1>4, <1>5 DEF Inv, PendingOK, InTransaction, Others
<1>11. HistoryOK'
  BY <1>5, <1>7, HistoryKept
<1>12. ASSUME NEW v \in Worker \ {w} PROVE WritesOK(v)'
  <2>1. WritesOK(v) /\ pc'[v] = pc[v] /\ req'[v] = req[v]
    BY <1>4 DEF Inv, Others
  <2> QED
    BY <1>1, <1>5, <2>1 DEF WritesOK, InTransaction, LiveSessionsOf, SessionsOf,
                           OwnerOfSession
<1>13. ReadsOK(w)' /\ RepliesOK(w)' /\ WritesOK(w)'
  BY <1>3, <1>4, <1>5 DEF ReadsOK, RepliesOK, WritesOK, InTransaction
<1>14. ASSUME NEW v \in Worker \ {w}
       PROVE  Compatible(v, w)' /\ Compatible(w, v)'
  <2>1. InTransaction(v, "register") => req[v].learner # l
    BY <1>1 DEF Inv, WritesOK
  <2> QED
    BY <1>3, <1>4, <2>1 DEF Compatible, InTransaction, Others
<1> QED
  BY <1>4, <1>6, <1>7, <1>8, <1>9, <1>10, <1>11, <1>12, <1>13, <1>14, OneStep

LEMMA InsertSessionStep ==
  ASSUME Inv, NEW w \in Worker, InsertSession(w)
  PROVE  Inv'
<1>1. /\ pc[w] = "insertSession" /\ req[w] \in Request
      /\ req[w].op = "resume"
      /\ req[w].learner \in Learner /\ learners[req[w].learner] = "live"
      /\ req[w].concept \in Concept
  BY DEF InsertSession, Inv, TypeOK, ReadsOK
<1>2. PICK s \in Session :
        /\ sessions[s] = "free"
        /\ sessions' = [sessions EXCEPT ![s] = "pending"]
        /\ sessionRow' = [sessionRow EXCEPT ![s] =
             [learner |-> req[w].learner, concept |-> req[w].concept,
              startedAt |-> req[w].at, endedAt |-> Open]]
        /\ req' = [req EXCEPT ![w].session = s]
  BY DEF InsertSession
<1> DEFINE row == [learner |-> req[w].learner, concept |-> req[w].concept,
                   startedAt |-> req[w].at, endedAt |-> Open]
           r == [req[w] EXCEPT !.session = s]
<1>3. r \in Request
  BY <1>1, LocalsType
<1>4. /\ r.op = "resume" /\ r.learner = req[w].learner /\ r.session = s
      /\ r.concept = req[w].concept
  BY <1>1 DEF Request
<1>5. row \in SessionRow
  BY <1>1 DEF Request, SessionRow
<1>6. /\ req' = [req EXCEPT ![w] = r]
      /\ sessionRow' = [sessionRow EXCEPT ![s] = row]
      /\ row.learner = req[w].learner /\ row.concept = req[w].concept
      /\ row.endedAt = Open
  BY <1>2
<1> HIDE DEF r, row
<1>7. /\ pc' \in [Worker -> Label] /\ pc'[w] = "commit"
      /\ req' \in [Worker -> Request] /\ req'[w] = r
      /\ Others(w)
  BY <1>3, <1>6 DEF InsertSession, Inv, TypeOK, Goto, Label, Others
<1>8. /\ \A t \in Session \ {s} : /\ sessions'[t] = sessions[t]
                                  /\ sessionRow'[t] = sessionRow[t]
      /\ sessions'[s] = "pending" /\ sessionRow'[s] = row
      /\ UNCHANGED <<learners, events, eventRow, acked, receipts>>
  BY <1>2, <1>6 DEF InsertSession, Inv, TypeOK
<1>9. TypeOK'
  BY <1>2, <1>5, <1>6, <1>7 DEF InsertSession, Inv, TypeOK, Standing
<1>10. RowsKept
  BY <1>2, <1>8 DEF RowsKept, Known
<1>11. SessionsOK'
  BY <1>1, <1>2, <1>6, <1>8 DEF Inv, SessionsOK, OwnerOfSession, Used
<1>12. EventsOK'
  <2>1. \A e \in Event : events[e] \in Used => eventRow[e].session \in Session \ {s}
    BY <1>2 DEF Inv, EventsOK, Used
  <2> QED
    BY <1>8, <2>1 DEF InsertSession, Inv, EventsOK, Used
<1>13. RetractionsOK'
  <2> SUFFICES ASSUME NEW e \in Event, events[e] \in Used,
                      eventRow[e].retracts # NoEvent
               PROVE  /\ eventRow[e].retracts < e
                      /\ MayRetract(eventRow[e].retracts, eventRow[e].session)'
    BY <1>8 DEF RetractionsOK
  <2>1. /\ eventRow[e].retracts < e
        /\ MayRetract(eventRow[e].retracts, eventRow[e].session)
    BY DEF Inv, RetractionsOK
  <2>2. eventRow[e].session \in Session /\ sessions[eventRow[e].session] \in Known
    BY DEF Inv, EventsOK, Known, Used
  <2>3. MayRetract(eventRow[e].retracts, eventRow[e].session)'
    BY <1>8, <1>10, <2>1, <2>2, MayRetractKept DEF MayRetract
  <2> QED
    BY <2>1, <2>3
<1>14. PendingOK'
  BY <1>1, <1>4, <1>7, <1>8 DEF Inv, PendingOK, InTransaction, Others
<1>15. HistoryOK'
  BY <1>8, <1>10, HistoryKept
<1>16. ASSUME NEW v \in Worker \ {w} PROVE WritesOK(v)'
  <2>1. WritesOK(v) /\ pc'[v] = pc[v] /\ req'[v] = req[v]
    BY <1>7 DEF Inv, Others
  <2>2. \A l \in Learner : LiveSessionsOf(l)' = LiveSessionsOf(l)
    BY <1>2, <1>8 DEF LiveSessionsOf, SessionsOf
  <2> QED
    BY <1>2, <1>8, <2>1, <2>2 DEF WritesOK, InTransaction, OwnerOfSession
<1>17. ReadsOK(w)' /\ RepliesOK(w)' /\ WritesOK(w)'
  BY <1>1, <1>4, <1>6, <1>7, <1>8
     DEF ReadsOK, RepliesOK, WritesOK, InTransaction, OwnerOfSession
<1>18. ASSUME NEW v \in Worker \ {w}
       PROVE  Compatible(v, w)' /\ Compatible(w, v)'
  <2>1. InTransaction(v, "resume") => req[v].session # s
    BY <1>2 DEF Inv, WritesOK
  <2>2. InTransaction(v, "erase") => req[v].learner # req[w].learner
    BY DEF InsertSession, LearnerLockable, DeletesLearner
  <2> QED
    BY <1>4, <1>7, <2>1, <2>2 DEF Compatible, InTransaction, Others
<1> QED
  BY <1>7, <1>9, <1>10, <1>11, <1>12, <1>13, <1>14, <1>15, <1>16, <1>17,
     <1>18, OneStep

(* The sequence value an INSERT draws stood for no event before.           *)
LEMMA FreshSequence ==
  ASSUME Inv, nextSequence <= MaxEvents
  PROVE  /\ nextSequence \in Event /\ events[nextSequence] = "free"
         /\ nextSequence + 1 \in 1..(MaxEvents + 1)
         /\ \A e \in Event : events[e] \in Used => e < nextSequence
         /\ \A e \in Event : e >= nextSequence + 1 => e >= nextSequence /\ e # nextSequence
<1>1. /\ nextSequence \in 1..(MaxEvents + 1) /\ MaxEvents \in Nat
      /\ \A e \in Event : e >= nextSequence => events[e] = "free"
  BY ConstantsAssumption DEF Inv, TypeOK, EventsOK
<1> QED
  BY <1>1 DEF Event, Used

LEMMA InsertEventStep ==
  ASSUME Inv, NEW w \in Worker, InsertEvent(w)
  PROVE  Inv'
<1> DEFINE n == nextSequence
<1>1. /\ pc[w] = "insertEvent" /\ req[w] \in Request
      /\ req[w].op = "record"
      /\ req[w].session \in Session /\ sessions[req[w].session] = "live"
      /\ req[w].retracts # NoEvent => MayRetract(req[w].retracts, req[w].session)
  BY DEF InsertEvent, SessionExists, Inv, TypeOK, ReadsOK
<1>2. /\ n \in Event /\ events[n] = "free"
      /\ n + 1 \in 1..(MaxEvents + 1)
      /\ \A e \in Event : events[e] \in Used => e < n
      /\ \A e \in Event : e >= n + 1 => e >= n /\ e # n
  BY FreshSequence DEF InsertEvent
<1> DEFINE row == [session |-> req[w].session, retracts |-> req[w].retracts]
           r == [req[w] EXCEPT !.event = n]
<1>3. r \in Request
  BY <1>1, <1>2, LocalsType
<1>4. r.op = "record" /\ r.session = req[w].session /\ r.event = n
  BY <1>1 DEF Request
<1>5. /\ row \in EventRow
      /\ row.session = req[w].session /\ row.retracts = req[w].retracts
  BY <1>1 DEF Request, EventRow
<1>6. /\ req' = [req EXCEPT ![w] = r]
      /\ events' = [events EXCEPT ![n] = "pending"]
      /\ eventRow' = [eventRow EXCEPT ![n] = row]
      /\ nextSequence' = n + 1
  BY DEF InsertEvent
<1> HIDE DEF r, row
<1>7. /\ pc' \in [Worker -> Label] /\ pc'[w] = "commit"
      /\ req' \in [Worker -> Request] /\ req'[w] = r
      /\ Others(w)
  BY <1>3, <1>6 DEF InsertEvent, Inv, TypeOK, Goto, Label, Others
<1>8. /\ \A e \in Event \ {n} : /\ events'[e] = events[e]
                                /\ eventRow'[e] = eventRow[e]
      /\ events'[n] = "pending" /\ eventRow'[n] = row
      /\ UNCHANGED <<learners, sessions, sessionRow, acked, receipts>>
  BY <1>2, <1>6 DEF InsertEvent, Inv, TypeOK
<1>9. TypeOK'
  BY <1>2, <1>5, <1>6, <1>7 DEF InsertEvent, Inv, TypeOK, Standing
<1>10. RowsKept
  BY <1>2, <1>8 DEF RowsKept, Known
<1>11. SessionsOK'
  BY <1>8 DEF Inv, SessionsOK, OwnerOfSession
<1>12. EventsOK'
  <2>1. \A e \in Event \ {n} : e >= nextSequence' => events[e] = "free"
    BY <1>2, <1>6 DEF Inv, EventsOK
  <2>2. ~(n >= nextSequence')
    BY <1>2, <1>6 DEF Event
  <2> QED
    BY <1>1, <1>5, <1>8, <2>1, <2>2 DEF Inv, EventsOK
<1>13. RetractionsOK'
  <2> SUFFICES ASSUME NEW e \in Event, events'[e] \in Used,
                      NEW q, NEW target, q = eventRow'[e].session,
                      target = eventRow'[e].retracts, target # NoEvent
               PROVE  target < e /\ MayRetract(target, q)'
    BY DEF RetractionsOK
  <2>1. /\ target < e /\ MayRetract(target, q)
        /\ q \in Session /\ sessions[q] \in Known
    <3>1. CASE e = n
      BY <1>1, <1>2, <1>5, <1>8, <3>1 DEF MayRetract, Known, Used
    <3>2. CASE e # n
      BY <1>8, <3>2 DEF Inv, RetractionsOK, EventsOK, Known, Used
    <3> QED
      BY <3>1, <3>2
  <2> QED
    BY <1>10, <2>1, MayRetractKept
<1>14. PendingOK'
  BY <1>1, <1>4, <1>7, <1>8 DEF Inv, PendingOK, InTransaction, Others
<1>15. HistoryOK'
  BY <1>8, <1>10, HistoryKept
<1>16. ASSUME NEW v \in Worker \ {w} PROVE WritesOK(v)'
  <2>1. WritesOK(v) /\ pc'[v] = pc[v] /\ req'[v] = req[v]
    BY <1>7 DEF Inv, Others
  <2>2. \A l \in Learner : LiveSessionsOf(l)' = LiveSessionsOf(l)
    BY <1>8 DEF LiveSessionsOf, SessionsOf
  <2> QED
    BY <1>2, <1>8, <2>1, <2>2 DEF WritesOK, InTransaction, OwnerOfSession
<1>17. ReadsOK(w)' /\ RepliesOK(w)' /\ WritesOK(w)'
  BY <1>1, <1>2, <1>4, <1>5, <1>7, <1>8
     DEF ReadsOK, RepliesOK, WritesOK, InTransaction
<1>18. ASSUME NEW v \in Worker \ {w}
       PROVE  Compatible(v, w)' /\ Compatible(w, v)'
  <2>1. InTransaction(v, "record") => req[v].event # n
    BY <1>2 DEF Inv, WritesOK
  <2>2. InTransaction(v, "erase") => req[w].session \notin req[v].cascaded
    BY DEF InsertEvent, SessionLockable, DeletesSession
  <2> QED
    BY <1>4, <1>7, <2>1, <2>2 DEF Compatible, InTransaction, Others
<1> QED
  BY <1>7, <1>9, <1>10, <1>11, <1>12, <1>13, <1>14, <1>15, <1>16, <1>17,
     <1>18, OneStep

LEMMA InsertEventFailsStep ==
  ASSUME Inv, NEW w \in Worker, InsertEventFails(w)
  PROVE  Inv'
<1> DEFINE n == nextSequence
<1>1. /\ pc[w] = "insertEvent" /\ req[w] \in Request /\ "500" \in Status
      /\ req[w].session \in Session /\ sessions[req[w].session] = "erased"
  BY DEF InsertEventFails, Inv, TypeOK, ReadsOK, Known, Status, ServerError
<1>2. /\ n \in Event /\ events[n] = "free"
      /\ n + 1 \in 1..(MaxEvents + 1)
      /\ \A e \in Event : e >= n + 1 => e >= n /\ e # n
  BY FreshSequence DEF InsertEventFails
<1>3. /\ pc' \in [Worker -> Label] /\ pc'[w] = "respond"
      /\ req' \in [Worker -> Request]
      /\ req'[w].status = "500" /\ req'[w].session = req[w].session
      /\ Others(w)
  BY <1>1, ReplyEffect DEF InsertEventFails, Inv, Others
<1>4. /\ \A e \in Event \ {n} : events'[e] = events[e]
      /\ events'[n] = "gap" /\ nextSequence' = n + 1
      /\ UNCHANGED <<learners, sessions, sessionRow, eventRow, acked, receipts>>
  BY <1>2 DEF InsertEventFails, Inv, TypeOK
<1>5. TypeOK'
  BY <1>2, <1>3 DEF InsertEventFails, Inv, TypeOK, Standing
<1>6. RowsKept
  BY <1>2, <1>4 DEF RowsKept, Known
<1>7. SessionsOK'
  BY <1>4 DEF Inv, SessionsOK, OwnerOfSession
<1>8. EventsOK'
  <2>1. \A e \in Event \ {n} : e >= nextSequence' => events[e] = "free"
    BY <1>2, <1>4 DEF Inv, EventsOK
  <2>2. ~(n >= nextSequence')
    BY <1>2, <1>4 DEF Event
  <2> QED
    BY <1>4, <2>1, <2>2 DEF Inv, EventsOK, Used
<1>9. RetractionsOK'
  <2> SUFFICES ASSUME NEW e \in Event, events'[e] \in Used,
                      eventRow[e].retracts # NoEvent
               PROVE  /\ eventRow[e].retracts < e
                      /\ MayRetract(eventRow[e].retracts, eventRow[e].session)'
    BY <1>4 DEF RetractionsOK
  <2>1. events[e] \in Used
    BY <1>4 DEF Used
  <2>2. /\ eventRow[e].retracts < e
        /\ MayRetract(eventRow[e].retracts, eventRow[e].session)
    BY <2>1 DEF Inv, RetractionsOK
  <2>3. eventRow[e].session \in Session /\ sessions[eventRow[e].session] \in Known
    BY <2>1 DEF Inv, EventsOK, Known, Used
  <2>4. MayRetract(eventRow[e].retracts, eventRow[e].session)'
    BY <1>4, <1>6, <2>2, <2>3, MayRetractKept DEF MayRetract
  <2> QED
    BY <2>2, <2>4
<1>10. PendingOK'
  BY <1>1, <1>3, <1>4 DEF Inv, PendingOK, InTransaction, Others
<1>11. HistoryOK'
  BY <1>4, <1>6, HistoryKept
<1>12. ASSUME NEW v \in Worker \ {w} PROVE WritesOK(v)'
  <2>1. WritesOK(v) /\ pc'[v] = pc[v] /\ req'[v] = req[v]
    BY <1>3 DEF Inv, Others
  <2>2. \A l \in Learner : LiveSessionsOf(l)' = LiveSessionsOf(l)
    BY <1>4 DEF LiveSessionsOf, SessionsOf
  <2> QED
    BY <1>2, <1>4, <2>1, <2>2 DEF WritesOK, InTransaction, OwnerOfSession
<1>13. ReadsOK(w)' /\ RepliesOK(w)'
  BY <1>1, <1>3, <1>4 DEF ReadsOK, RepliesOK
<1> QED
  BY <1>3, <1>5, <1>6, <1>7, <1>8, <1>9, <1>10, <1>11, <1>12, <1>13,
     NothingHeld, OneStep

-----------------------------------------------------------------------------
(* The commits.                                                            *)

(* A commit that is confirmed replies with what the transaction wrote.     *)
LEMMA CommitEffect ==
  ASSUME Inv, NEW w \in Worker, Confirmed(w)
  PROVE  /\ pc' \in [Worker -> Label] /\ pc'[w] = "respond"
         /\ req' \in [Worker -> Request]
         /\ req'[w].status \in {"ok", "500 connection"}
         /\ req'[w].status = "ok" =>
              /\ req'[w].op = req[w].op
              /\ req'[w].learner = req[w].learner
              /\ req'[w].session = req[w].session
              /\ req'[w].event = req[w].event
         /\ Others(w)
<1>1. req[w] \in Request /\ {"ok", "500 connection"} \subseteq Status
  BY DEF Inv, TypeOK, Status, ServerError
<1>2. CASE Reply(w, req[w], "ok")
  BY <1>1, <1>2, ReplyEffect DEF Inv, Others
<1>3. CASE Refuse(w, "500 connection")
  BY <1>1, <1>3, RefuseEffect DEF Inv, Others
<1> QED
  BY <1>2, <1>3 DEF Confirmed

LEMMA CommitRegisterStep ==
  ASSUME Inv, NEW w \in Worker, CommitRegister(w)
  PROVE  Inv'
<1> DEFINE l == req[w].learner
<1>1. /\ pc[w] = "commit" /\ req[w].op = "register" /\ InTransaction(w, "register")
      /\ l \in Learner /\ learners[l] = "pending"
  BY DEF CommitRegister, Inv, WritesOK, InTransaction
<1>2. /\ pc' \in [Worker -> Label] /\ pc'[w] = "respond"
      /\ req' \in [Worker -> Request]
      /\ req'[w].status \in {"ok", "500 connection"}
      /\ req'[w].status = "ok" => req'[w].op = "register" /\ req'[w].learner = l
      /\ Others(w)
  BY <1>1, CommitEffect DEF CommitRegister
<1>3. /\ \A k \in Learner \ {l} : learners'[k] = learners[k]
      /\ learners'[l] = "live"
      /\ UNCHANGED <<sessions, sessionRow, events, eventRow, acked, receipts>>
  BY <1>1 DEF CommitRegister, Inv, TypeOK
<1>4. TypeOK'
  BY <1>1, <1>2 DEF CommitRegister, Inv, TypeOK, Standing
<1>5. RowsKept
  BY <1>1, <1>3 DEF RowsKept, Known
<1>6. SessionsOK'
  BY <1>1, <1>3 DEF Inv, SessionsOK, OwnerOfSession, Used
<1>7. EventsOK' /\ RetractionsOK'
  BY DEF CommitRegister, Inv, EventsOK, RetractionsOK, MayRetract,
         OwnerOfEvent, OwnerOfSession
<1>8. PendingOK'
  BY <1>1, <1>2, <1>3, PendingKept DEF InTransaction
<1>9. HistoryOK'
  BY <1>3, <1>5, HistoryKept
<1>10. ASSUME NEW v \in Worker \ {w} PROVE WritesOK(v)'
  <2>1. WritesOK(v) /\ pc'[v] = pc[v] /\ req'[v] = req[v]
    BY <1>2 DEF Inv, Others
  <2>2. Compatible(v, w)
    BY DEF Inv, LocksOK
  <2>3. \A k \in Learner : LiveSessionsOf(k)' = LiveSessionsOf(k)
    BY <1>3 DEF LiveSessionsOf, SessionsOf
  <2> QED
    BY <1>1, <1>3, <2>1, <2>2, <2>3
       DEF WritesOK, InTransaction, Compatible, OwnerOfSession
<1>11. ReadsOK(w)' /\ RepliesOK(w)'
  BY <1>1, <1>2, <1>3 DEF ReadsOK, RepliesOK, Known
<1> QED
  BY <1>2, <1>4, <1>5, <1>6, <1>7, <1>8, <1>9, <1>10, <1>11,
     NothingHeld, OneStep

LEMMA CommitSessionStep ==
  ASSUME Inv, NEW w \in Worker, CommitSession(w)
  PROVE  Inv'
<1> DEFINE s == req[w].session
<1>1. /\ pc[w] = "commit" /\ req[w].op = "resume" /\ InTransaction(w, "resume")
      /\ req[w].learner \in Learner /\ learners[req[w].learner] = "live"
      /\ s \in Session /\ sessions[s] = "pending"
      /\ OwnerOfSession(s) = req[w].learner
  BY DEF CommitSession, Inv, WritesOK, InTransaction
<1>2. /\ pc' \in [Worker -> Label] /\ pc'[w] = "respond"
      /\ req' \in [Worker -> Request]
      /\ req'[w].status \in {"ok", "500 connection"}
      /\ req'[w].status = "ok" => req'[w].op = "resume" /\ req'[w].session = s
      /\ Others(w)
  BY <1>1, CommitEffect DEF CommitSession
<1>3. /\ \A t \in Session \ {s} : sessions'[t] = sessions[t]
      /\ sessions'[s] = "live"
      /\ UNCHANGED <<learners, sessionRow, events, eventRow, acked, receipts>>
  BY <1>1 DEF CommitSession, Inv, TypeOK
<1>4. TypeOK'
  BY <1>1, <1>2 DEF CommitSession, Inv, TypeOK, Standing
<1>5. RowsKept
  BY <1>1, <1>3 DEF RowsKept, Known
<1>6. SessionsOK'
  BY <1>1, <1>3 DEF Inv, SessionsOK, OwnerOfSession, Used
<1>7. EventsOK'
  BY <1>1, <1>3 DEF CommitSession, Inv, EventsOK, Used
<1>8. RetractionsOK'
  BY DEF CommitSession, Inv, RetractionsOK, MayRetract, OwnerOfEvent,
         OwnerOfSession
<1>9. PendingOK'
  BY <1>1, <1>2, <1>3, PendingKept DEF InTransaction
<1>10. HistoryOK'
  BY <1>3, <1>5, HistoryKept
<1>11. ASSUME NEW v \in Worker \ {w} PROVE WritesOK(v)'
  <2>1. WritesOK(v) /\ pc'[v] = pc[v] /\ req'[v] = req[v]
    BY <1>2 DEF Inv, Others
  <2>2. Compatible(v, w)
    BY DEF Inv, LocksOK
  <2>3. \A k \in Learner : k # req[w].learner =>
          LiveSessionsOf(k)' = LiveSessionsOf(k)
    BY <1>1, <1>3 DEF LiveSessionsOf, SessionsOf, OwnerOfSession
  <2> QED
    BY <1>1, <1>3, <2>1, <2>2, <2>3
       DEF WritesOK, InTransaction, Compatible, OwnerOfSession
<1>12. ReadsOK(w)' /\ RepliesOK(w)'
  BY <1>1, <1>2, <1>3 DEF ReadsOK, RepliesOK, Known
<1> QED
  BY <1>2, <1>4, <1>5, <1>6, <1>7, <1>8, <1>9, <1>10, <1>11, <1>12,
     NothingHeld, OneStep

LEMMA CommitEventStep ==
  ASSUME Inv, NEW w \in Worker, CommitEvent(w)
  PROVE  Inv'
<1> DEFINE n == req[w].event
<1>1. /\ pc[w] = "commit" /\ req[w].op = "record" /\ InTransaction(w, "record")
      /\ req[w].session \in Session /\ sessions[req[w].session] = "live"
      /\ n \in Event /\ events[n] = "pending"
      /\ eventRow[n].session = req[w].session
  BY DEF CommitEvent, Inv, WritesOK, InTransaction
<1>2. /\ pc' \in [Worker -> Label] /\ pc'[w] = "respond"
      /\ req' \in [Worker -> Request]
      /\ req'[w].status \in {"ok", "500 connection"}
      /\ req'[w].status = "ok" => req'[w].op = "record" /\ req'[w].event = n
      /\ Others(w)
  BY <1>1, CommitEffect DEF CommitEvent
<1>3. /\ \A e \in Event \ {n} : events'[e] = events[e]
      /\ events'[n] = "live"
      /\ UNCHANGED <<learners, sessions, sessionRow, eventRow, nextSequence,
                     acked, receipts>>
  BY <1>1 DEF CommitEvent, EventCommitted, Inv, TypeOK
<1>4. TypeOK'
  BY <1>1, <1>2 DEF CommitEvent, EventCommitted, Inv, TypeOK, Standing
<1>5. RowsKept
  BY <1>1, <1>3 DEF RowsKept, Known
<1>6. SessionsOK'
  BY <1>3 DEF Inv, SessionsOK, OwnerOfSession
<1>7. EventsOK'
  BY <1>1, <1>3 DEF Inv, EventsOK, Used
<1>8. RetractionsOK'
  <2> SUFFICES ASSUME NEW e \in Event, events'[e] \in Used,
                      eventRow[e].retracts # NoEvent
               PROVE  /\ eventRow[e].retracts < e
                      /\ MayRetract(eventRow[e].retracts, eventRow[e].session)'
    BY <1>3 DEF RetractionsOK
  <2>1. events[e] \in Used
    BY <1>1, <1>3 DEF Used
  <2>2. /\ eventRow[e].retracts < e
        /\ MayRetract(eventRow[e].retracts, eventRow[e].session)
    BY <2>1 DEF Inv, RetractionsOK
  <2>3. eventRow[e].session \in Session /\ sessions[eventRow[e].session] \in Known
    BY <2>1 DEF Inv, EventsOK, Known, Used
  <2>4. MayRetract(eventRow[e].retracts, eventRow[e].session)'
    BY <1>3, <1>5, <2>2, <2>3, MayRetractKept DEF MayRetract
  <2> QED
    BY <2>2, <2>4
<1>9. PendingOK'
  BY <1>1, <1>2, <1>3, PendingKept DEF InTransaction
<1>10. HistoryOK'
  BY <1>3, <1>5, HistoryKept
<1>11. ASSUME NEW v \in Worker \ {w} PROVE WritesOK(v)'
  <2>1. WritesOK(v) /\ pc'[v] = pc[v] /\ req'[v] = req[v]
    BY <1>2 DEF Inv, Others
  <2>2. Compatible(v, w)
    BY DEF Inv, LocksOK
  <2>3. \A k \in Learner : LiveSessionsOf(k)' = LiveSessionsOf(k)
    BY <1>3 DEF LiveSessionsOf, SessionsOf
  <2> QED
    BY <1>1, <1>3, <2>1, <2>2, <2>3
       DEF WritesOK, InTransaction, Compatible, OwnerOfSession
<1>12. ReadsOK(w)' /\ RepliesOK(w)'
  BY <1>1, <1>2, <1>3 DEF ReadsOK, RepliesOK, Known
<1> QED
  BY <1>2, <1>4, <1>5, <1>6, <1>7, <1>8, <1>9, <1>10, <1>11, <1>12,
     NothingHeld, OneStep

LEMMA CommitEndStep ==
  ASSUME Inv, NEW w \in Worker, CommitEnd(w)
  PROVE  Inv'
<1> DEFINE s == req[w].session
<1>1. /\ pc[w] = "commit" /\ req[w].op = "end" /\ InTransaction(w, "end")
      /\ s \in Session /\ sessions[s] = "live" /\ req[w].at \in Time
  BY DEF CommitEnd, Inv, TypeOK, Request, WritesOK, InTransaction
<1>2. /\ pc' \in [Worker -> Label] /\ pc'[w] = "respond"
      /\ req' \in [Worker -> Request]
      /\ req'[w].status \in {"ok", "500 connection"}
      /\ req'[w].status = "ok" => req'[w].op = "end" /\ req'[w].session = s
      /\ Others(w)
  BY <1>1, CommitEffect DEF CommitEnd
<1> DEFINE row == [sessionRow[s] EXCEPT !.endedAt = req[w].at]
<1>3. /\ row \in SessionRow
      /\ row.learner = sessionRow[s].learner
      /\ row.concept = sessionRow[s].concept
  <2>1. sessionRow[s] \in SessionRow
    BY <1>1 DEF Inv, TypeOK
  <2> QED
    BY <1>1, <2>1 DEF SessionRow
<1>4. sessionRow' = [sessionRow EXCEPT ![s] = row]
  BY DEF CommitEnd
<1> HIDE DEF row
<1>5. sessionRow' \in [Session -> SessionRow]
  BY <1>3, <1>4 DEF Inv, TypeOK
<1>6. /\ \A t \in Session : /\ sessionRow'[t].learner = sessionRow[t].learner
                            /\ sessionRow'[t].concept = sessionRow[t].concept
                            /\ sessions[t] = "pending" =>
                                 sessionRow'[t] = sessionRow[t]
      /\ UNCHANGED <<learners, sessions, events, eventRow, acked, receipts>>
  BY <1>1, <1>3, <1>4 DEF CommitEnd, Inv, TypeOK
<1>7. TypeOK'
  BY <1>2, <1>5 DEF CommitEnd, Inv, TypeOK
<1>8. RowsKept
  BY <1>6 DEF RowsKept
<1>9. SessionsOK'
  BY <1>6 DEF Inv, SessionsOK, OwnerOfSession
<1>10. EventsOK'
  BY <1>6 DEF CommitEnd, Inv, EventsOK
<1>11. RetractionsOK'
  <2> SUFFICES ASSUME NEW e \in Event, events[e] \in Used,
                      NEW q, NEW target, q = eventRow[e].session,
                      target = eventRow[e].retracts, target # NoEvent
               PROVE  target < e /\ MayRetract(target, q)'
    BY <1>6 DEF RetractionsOK
  <2>1. /\ target < e /\ MayRetract(target, q)
        /\ q \in Session /\ sessions[q] \in Known
    BY DEF Inv, RetractionsOK, EventsOK, Known, Used
  <2> QED
    BY <1>8, <2>1, MayRetractKept
<1>12. PendingOK'
  BY <1>1, <1>2, <1>6, PendingKept DEF InTransaction
<1>13. HistoryOK'
  BY <1>6, <1>8, HistoryKept
<1>14. ASSUME NEW v \in Worker \ {w} PROVE WritesOK(v)'
  <2>1. WritesOK(v) /\ pc'[v] = pc[v] /\ req'[v] = req[v]
    BY <1>2 DEF Inv, Others
  <2>2. \A k \in Learner : LiveSessionsOf(k)' = LiveSessionsOf(k)
    BY <1>6 DEF LiveSessionsOf, SessionsOf
  <2> QED
    BY <1>6, <2>1, <2>2 DEF WritesOK, InTransaction, OwnerOfSession
<1>15. ReadsOK(w)' /\ RepliesOK(w)'
  BY <1>1, <1>2, <1>6 DEF ReadsOK, RepliesOK, Known
<1> QED
  BY <1>2, <1>7, <1>8, <1>9, <1>10, <1>11, <1>12, <1>13, <1>14, <1>15,
     NothingHeld, OneStep

(* An erasure takes the learner, every session of the learner and every    *)
(* event of those sessions, and nothing that anybody is still writing.     *)
LEMMA CommitEraseStep ==
  ASSUME Inv, NEW w \in Worker, CommitErase(w)
  PROVE  Inv'
<1> DEFINE l == req[w].learner
           gone == req[w].cascaded
<1>1. /\ pc[w] = "commit" /\ req[w].op = "erase" /\ InTransaction(w, "erase")
      /\ l \in Learner /\ learners[l] = "live"
      /\ gone = LiveSessionsOf(l) /\ gone \subseteq Session
  BY DEF CommitErase, Inv, WritesOK, InTransaction, LiveSessionsOf, SessionsOf
<1>2. /\ pc' \in [Worker -> Label] /\ pc'[w] = "respond"
      /\ req' \in [Worker -> Request]
      /\ req'[w].status \in {"ok", "500 connection"}
      /\ req'[w].status = "ok" => req'[w].op = "erase" /\ req'[w].learner = l
      /\ Others(w)
  BY <1>1, CommitEffect DEF CommitErase
<1>3. /\ \A k \in Learner \ {l} : learners'[k] = learners[k]
      /\ learners'[l] = "erased"
      /\ \A s \in Session :
           /\ s \in gone => sessions[s] = "live" /\ sessions'[s] = "erased"
                            /\ OwnerOfSession(s) = l
           /\ s \notin gone => sessions'[s] = sessions[s]
      /\ UNCHANGED <<sessionRow, eventRow, acked, receipts, nextSequence>>
  BY <1>1 DEF CommitErase, Inv, TypeOK, LiveSessionsOf, SessionsOf, OwnerOfSession
<1>4. \A e \in Event :
        /\ events[e] = "live" /\ eventRow[e].session \in gone =>
             events'[e] = "erased"
        /\ ~(events[e] = "live" /\ eventRow[e].session \in gone) =>
             events'[e] = events[e]
  BY DEF CommitErase, EventsUnder
(* Nobody is inserting into a session that goes, or into the learner.      *)
<1>5. /\ \A s \in Session : sessions[s] = "pending" => OwnerOfSession(s) # l
      /\ \A e \in Event : events[e] = "pending" => eventRow[e].session \notin gone
  <2>1. ASSUME NEW s \in Session, sessions[s] = "pending"
        PROVE  OwnerOfSession(s) # l
    <3>1. PICK v \in Worker : InTransaction(v, "resume") /\ req[v].session = s
      BY <2>1 DEF Inv, PendingOK
    <3>2. v # w /\ OwnerOfSession(s) = req[v].learner
      BY <1>1, <3>1 DEF Inv, WritesOK, InTransaction
    <3>3. Compatible(w, v)
      BY <3>2 DEF Inv, LocksOK
    <3> QED
      BY <1>1, <3>1, <3>2, <3>3 DEF Compatible
  <2>2. ASSUME NEW e \in Event, events[e] = "pending"
        PROVE  eventRow[e].session \notin gone
    <3>1. PICK v \in Worker : InTransaction(v, "record") /\ req[v].event = e
      BY <2>2 DEF Inv, PendingOK
    <3>2. v # w /\ eventRow[e].session = req[v].session
      BY <1>1, <3>1 DEF Inv, WritesOK, InTransaction
    <3>3. Compatible(w, v)
      BY <3>2 DEF Inv, LocksOK
    <3> QED
      BY <1>1, <3>1, <3>2, <3>3 DEF Compatible
  <2> QED
    BY <2>1, <2>2
<1>6. TypeOK'
  BY <1>1, <1>2 DEF CommitErase, Inv, TypeOK, Standing
<1>7. RowsKept
  BY <1>1, <1>3, <1>4 DEF RowsKept, Known
<1>8. SessionsOK'
  <2> SUFFICES ASSUME NEW s \in Session
               PROVE  /\ sessions'[s] \in Used =>
                           /\ OwnerOfSession(s) \in Learner
                           /\ sessionRow[s].concept \in Concept
                      /\ sessions'[s] \in {"pending", "live"} =>
                           learners'[OwnerOfSession(s)] = "live"
                      /\ sessions'[s] = "erased" =>
                           learners'[OwnerOfSession(s)] = "erased"
    BY <1>3 DEF SessionsOK, OwnerOfSession
  <2>1. CASE s \in gone
    BY <1>1, <1>3, <2>1 DEF Inv, SessionsOK, Used
  <2>2. CASE s \notin gone
    <3>1. sessions'[s] = sessions[s]
      BY <1>3, <2>2
    <3>2. sessions[s] \in {"pending", "live"} => OwnerOfSession(s) # l
      BY <1>1, <1>5, <2>2 DEF LiveSessionsOf, SessionsOf, OwnerOfSession
    <3> QED
      BY <1>3, <3>1, <3>2 DEF Inv, SessionsOK, Used
  <2> QED
    BY <2>1, <2>2
<1>9. EventsOK'
  <2> SUFFICES ASSUME NEW e \in Event
               PROVE  /\ events'[e] \in Used => eventRow[e].session \in Session
                      /\ events'[e] \in {"pending", "live"} =>
                           sessions'[eventRow[e].session] = "live"
                      /\ events'[e] = "erased" =>
                           sessions'[eventRow[e].session] = "erased"
                      /\ e >= nextSequence => events'[e] = "free"
    BY <1>3 DEF EventsOK
  <2>1. /\ events[e] \in Used => eventRow[e].session \in Session
        /\ events[e] \in {"pending", "live"} =>
             sessions[eventRow[e].session] = "live"
        /\ events[e] = "erased" => sessions[eventRow[e].session] = "erased"
        /\ e >= nextSequence => events[e] = "free"
    BY DEF Inv, EventsOK
  <2>2. CASE events[e] = "live" /\ eventRow[e].session \in gone
    BY <1>3, <1>4, <2>1, <2>2 DEF Used
  <2>3. CASE ~(events[e] = "live" /\ eventRow[e].session \in gone)
    <3>1. events'[e] = events[e]
      BY <1>4, <2>3
    <3> QED
      BY <1>3, <1>5, <2>1, <2>3, <3>1 DEF Used
  <2> QED
    BY <2>2, <2>3
<1>10. RetractionsOK'
  <2> SUFFICES ASSUME NEW e \in Event, events'[e] \in Used,
                      NEW q, NEW target, q = eventRow[e].session,
                      target = eventRow[e].retracts, target # NoEvent
               PROVE  target < e /\ MayRetract(target, q)'
    BY <1>3 DEF RetractionsOK
  <2>1. /\ target < e /\ MayRetract(target, q)
        /\ q \in Session /\ sessions[q] \in Known
    BY <1>4 DEF Inv, RetractionsOK, EventsOK, Known, Used
  <2> QED
    BY <1>7, <2>1, MayRetractKept
<1>11. PendingOK'
  BY <1>1, <1>2, <1>3, <1>4, PendingKept DEF InTransaction
<1>12. HistoryOK'
  BY <1>3, <1>7, HistoryKept
<1>13. ASSUME NEW v \in Worker \ {w} PROVE WritesOK(v)'
  <2>1. WritesOK(v) /\ pc'[v] = pc[v] /\ req'[v] = req[v]
    BY <1>2 DEF Inv, Others
  <2>2. Compatible(w, v) /\ Compatible(v, w)
    BY DEF Inv, LocksOK
  <2>3. \A k \in Learner : k # l => LiveSessionsOf(k)' = LiveSessionsOf(k)
    BY <1>3 DEF LiveSessionsOf, SessionsOf, OwnerOfSession
  <2>4. InTransaction(v, "record") => events'[req[v].event] = "pending"
    BY <1>4, <2>1 DEF WritesOK
  <2> QED
    BY <1>1, <1>3, <2>1, <2>2, <2>3, <2>4
       DEF WritesOK, InTransaction, Compatible, OwnerOfSession
<1>14. ReadsOK(w)' /\ RepliesOK(w)'
  BY <1>1, <1>2, <1>3 DEF ReadsOK, RepliesOK
<1> QED
  BY <1>2, <1>6, <1>7, <1>8, <1>9, <1>10, <1>11, <1>12, <1>13, <1>14,
     NothingHeld, OneStep

-----------------------------------------------------------------------------
(* The end of a request.                                                   *)

LEMMA AbortStep ==
  ASSUME Inv, NEW w \in Worker, Abort(w)
  PROVE  Inv'
<1>1. /\ pc' \in [Worker -> Label] /\ pc'[w] \in {"idle", "respond"}
      /\ req' \in [Worker -> Request]
      /\ pc'[w] = "respond" => req'[w].status = "500 connection"
      /\ Others(w)
  <2>1. CASE Goto(w, "idle") /\ req' = [req EXCEPT ![w] = NoRequest]
    BY <2>1, NoRequestType DEF Inv, TypeOK, Goto, Label, Others
  <2>2. CASE Refuse(w, "500 connection")
    <3>1. "500 connection" \in Status
      BY DEF Status, ServerError
    <3> QED
      BY <2>2, <3>1, RefuseEffect DEF Inv, Others
  <2> QED
    BY <2>1, <2>2 DEF Abort
<1>2. /\ \A l \in Learner :
           IF InTransaction(w, "register") /\ l = req[w].learner
             THEN learners[l] = "pending" /\ learners'[l] = "free"
             ELSE learners'[l] = learners[l]
      /\ \A s \in Session :
           IF InTransaction(w, "resume") /\ s = req[w].session
             THEN sessions[s] = "pending" /\ sessions'[s] = "free"
             ELSE sessions'[s] = sessions[s]
      /\ \A e \in Event :
           IF InTransaction(w, "record") /\ e = req[w].event
             THEN events[e] = "pending" /\ events'[e] = "gap"
             ELSE events'[e] = events[e]
      /\ UNCHANGED <<sessionRow, eventRow, nextSequence, acked, receipts>>
  BY DEF Abort, RolledBack, Inv, WritesOK
<1>3. TypeOK'
  BY <1>1 DEF Abort, RolledBack, Inv, TypeOK, Standing
<1>4. RowsKept
  BY <1>2 DEF RowsKept, Known
<1>5. SessionsOK'
  BY <1>2 DEF Inv, SessionsOK, OwnerOfSession, Used
<1>6. EventsOK'
  <2> SUFFICES ASSUME NEW e \in Event
               PROVE  /\ events'[e] \in Used => eventRow[e].session \in Session
                      /\ events'[e] \in {"pending", "live"} =>
                           sessions'[eventRow[e].session] = "live"
                      /\ events'[e] = "erased" =>
                           sessions'[eventRow[e].session] = "erased"
                      /\ e >= nextSequence => events'[e] = "free"
    BY <1>2 DEF EventsOK
  <2>1. /\ events[e] \in Used => eventRow[e].session \in Session
        /\ events[e] \in {"pending", "live"} =>
             sessions[eventRow[e].session] = "live"
        /\ events[e] = "erased" => sessions[eventRow[e].session] = "erased"
        /\ e >= nextSequence => events[e] = "free"
    BY DEF Inv, EventsOK
  <2>2. CASE events'[e] = events[e]
    BY <1>2, <2>1, <2>2 DEF Used
  <2>3. CASE events'[e] # events[e]
    BY <1>2, <2>1, <2>3 DEF Used
  <2> QED
    BY <2>2, <2>3
<1>7. RetractionsOK'
  <2> SUFFICES ASSUME NEW e \in Event, events'[e] \in Used,
                      NEW q, NEW target, q = eventRow[e].session,
                      target = eventRow[e].retracts, target # NoEvent
               PROVE  target < e /\ MayRetract(target, q)'
    BY <1>2 DEF RetractionsOK
  <2>0. events[e] \in Used
    BY <1>2 DEF Used
  <2>1. /\ target < e /\ MayRetract(target, q)
        /\ q \in Session /\ sessions[q] \in Known
    BY <2>0 DEF Inv, RetractionsOK, EventsOK, Known, Used
  <2> QED
    BY <1>4, <2>1, MayRetractKept
<1>8. PendingOK'
  BY <1>1, <1>2, PendingKept DEF InTransaction
<1>9. HistoryOK'
  BY <1>2, <1>4, HistoryKept
<1>10. ASSUME NEW v \in Worker \ {w} PROVE WritesOK(v)'
  <2>1. WritesOK(v) /\ pc'[v] = pc[v] /\ req'[v] = req[v]
    BY <1>1 DEF Inv, Others
  <2>2. Compatible(v, w)
    BY DEF Inv, LocksOK
  <2>3. \A k \in Learner : LiveSessionsOf(k)' = LiveSessionsOf(k)
    BY <1>2 DEF LiveSessionsOf, SessionsOf
  <2>4. /\ InTransaction(v, "register") => learners'[req[v].learner] = "pending"
        /\ InTransaction(v, "resume") => /\ sessions'[req[v].session] = "pending"
                                         /\ learners'[req[v].learner] = "live"
        /\ InTransaction(v, "record") => /\ events'[req[v].event] = "pending"
                                         /\ sessions'[req[v].session] = "live"
        /\ InTransaction(v, "end") => sessions'[req[v].session] = "live"
        /\ InTransaction(v, "erase") => learners'[req[v].learner] = "live"
    BY <1>2, <2>1, <2>2 DEF WritesOK, Compatible
  <2> QED
    BY <1>2, <2>1, <2>3, <2>4 DEF WritesOK, InTransaction, OwnerOfSession
<1>11. ReadsOK(w)' /\ RepliesOK(w)'
  BY <1>1 DEF ReadsOK, RepliesOK
<1> QED
  BY <1>1, <1>3, <1>4, <1>5, <1>6, <1>7, <1>8, <1>9, <1>10, <1>11,
     NothingHeld, OneStep

(* What a reply discloses is committed, and a receipt follows an erasure.  *)
LEMMA RespondStep ==
  ASSUME Inv, NEW w \in Worker, Respond(w)
  PROVE  Inv'
<1>1. pc[w] = "respond" /\ req[w] \in Request /\ RepliesOK(w)
  BY DEF Respond, Inv, TypeOK
<1>2. /\ pc' \in [Worker -> Label] /\ pc'[w] = "idle"
      /\ req' \in [Worker -> Request]
      /\ Others(w)
  BY NoRequestType DEF Respond, Inv, TypeOK, Goto, Label, Others
<1>3. /\ acked' = acked \cup Disclosed(req[w])
      /\ receipts' = receipts \cup ReceiptOf(req[w])
      /\ UNCHANGED <<learners, sessions, sessionRow, events, eventRow,
                     nextSequence, clock>>
  BY DEF Respond, tables
<1>4. \A x \in Disclosed(req[w]) :
        \/ x \in Learner /\ learners[x] \in Known
        \/ x \in Session /\ sessions[x] \in Known
        \/ x \in Event /\ events[x] \in Known
  BY <1>1 DEF Disclosed, RepliesOK
<1>5. \A r \in ReceiptOf(req[w]) :
        /\ r \in [learner : Learner, sessions : Nat, events : Nat]
        /\ learners[r.learner] = "erased"
  BY <1>1 DEF ReceiptOf, RepliesOK, Request
<1>6. TypeOK'
  BY <1>2, <1>3, <1>4, <1>5 DEF Inv, TypeOK
<1>7. RowsKept
  BY <1>3 DEF RowsKept
<1>8. SessionsOK' /\ EventsOK' /\ RetractionsOK'
  BY <1>3 DEF Inv, SessionsOK, EventsOK, RetractionsOK, MayRetract,
              OwnerOfEvent, OwnerOfSession
<1>9. PendingOK'
  BY <1>1, <1>2, <1>3, PendingKept DEF InTransaction
<1>10. HistoryOK'
  BY <1>3, <1>4, <1>5, DistinctIdsAssumption DEF Inv, HistoryOK
<1>11. ASSUME NEW v \in Worker \ {w} PROVE WritesOK(v)'
  <2>1. WritesOK(v) /\ pc'[v] = pc[v] /\ req'[v] = req[v]
    BY <1>2 DEF Inv, Others
  <2> QED
    BY <1>3, <2>1 DEF WritesOK, InTransaction, LiveSessionsOf, SessionsOf,
                      OwnerOfSession
<1>12. ReadsOK(w)' /\ RepliesOK(w)'
  BY <1>2 DEF ReadsOK, RepliesOK
<1> QED
  BY <1>2, <1>6, <1>7, <1>8, <1>9, <1>10, <1>11, <1>12, NothingHeld, OneStep

-----------------------------------------------------------------------------
(* The invariant.                                                          *)

LEMMA InitInv == Init => Inv
<1> SUFFICES ASSUME Init PROVE Inv
  OBVIOUS
<1>1. TypeOK
  <2>1. [session |-> None, retracts |-> NoEvent] \in EventRow
    BY DEF EventRow
  <2>2. [learner |-> None, concept |-> None, startedAt |-> 0, endedAt |-> Open]
          \in SessionRow
    BY ConstantsAssumption DEF SessionRow, Time
  <2>3. 0 \in Time /\ 1 \in 1..(MaxEvents + 1)
    BY ConstantsAssumption DEF Time
  <2> QED
    BY <2>1, <2>2, <2>3, NoRequestType DEF Init, TypeOK, Standing, Label
<1>2. /\ SessionsOK /\ EventsOK /\ RetractionsOK /\ PendingOK /\ HistoryOK
  BY DEF Init, SessionsOK, EventsOK, RetractionsOK, PendingOK, HistoryOK, Used
<1>3. ASSUME NEW w \in Worker
      PROVE  ReadsOK(w) /\ RepliesOK(w) /\ WritesOK(w)
  BY DEF Init, ReadsOK, RepliesOK, WritesOK, InTransaction
<1>4. LocksOK
  BY DEF Init, LocksOK, Compatible, InTransaction
<1> QED
  BY <1>1, <1>2, <1>3, <1>4 DEF Inv

LEMMA StutterInv == Inv /\ UNCHANGED vars => Inv'
<1> SUFFICES ASSUME Inv, UNCHANGED vars PROVE Inv'
  OBVIOUS
<1>1. TypeOK' /\ SessionsOK' /\ EventsOK' /\ RetractionsOK' /\ HistoryOK'
  BY DEF Inv, vars, tables, TypeOK, SessionsOK, EventsOK, RetractionsOK,
         HistoryOK, MayRetract, OwnerOfEvent, OwnerOfSession
<1>2. PendingOK' /\ LocksOK'
  BY DEF Inv, vars, tables, PendingOK, LocksOK, Compatible, InTransaction
<1>3. ASSUME NEW w \in Worker
      PROVE  ReadsOK(w)' /\ RepliesOK(w)' /\ WritesOK(w)'
  <2>1. ReadsOK(w) /\ RepliesOK(w) /\ WritesOK(w)
    BY DEF Inv
  <2>2. RowsKept
    BY DEF vars, tables, RowsKept
  <2>3. ReadsOK(w)' /\ RepliesOK(w)'
    BY <2>2, ReadsKept DEF vars
  <2>4. WritesOK(w)'
    BY <2>1 DEF vars, tables, WritesOK, InTransaction, LiveSessionsOf,
                SessionsOf, OwnerOfSession
  <2> QED
    BY <2>3, <2>4
<1> QED
  BY <1>1, <1>2, <1>3 DEF Inv

(* Whatever one request does next, the invariant is kept.                  *)
LEMMA NextInv == Inv /\ [Next]_vars => Inv'
<1> SUFFICES ASSUME Inv, Next PROVE Inv'
  BY StutterInv
<1>1. PICK w \in Worker : Arrive(w) \/ Serve(w) \/ Abort(w)
  BY DEF Next
<1>2. CASE Arrive(w)
  BY <1>2, RegisterStep, ResumeStep, RecordStep, EndStep, ProgressStep,
     EraseStep DEF Arrive
<1>3. CASE Serve(w)
  BY <1>3, CommitRegisterStep, FindOpenStep, InsertSessionStep,
     InsertSessionFailsStep, CommitSessionStep, CheckTargetStep,
     InsertEventStep, InsertEventFailsStep, CommitEventStep, UpdateEndedStep,
     UpdateEndedFailsStep, CommitEndStep, ReadEventsStep, CountStep,
     DeleteLearnerStep, DeleteNothingStep, CascadeSessionStep, CascadedStep,
     CommitEraseStep, RespondStep DEF Serve
<1>4. CASE Abort(w)
  BY <1>4, AbortStep
<1> QED
  BY <1>1, <1>2, <1>3, <1>4

(* Inv holds of every reachable state, for any number of requests in       *)
(* flight, learners, sessions and events.                                  *)
THEOREM InvIsInvariant == Spec => []Inv
<1>1. Init => Inv
  BY InitInv
<1>2. Inv /\ [Next]_vars => Inv'
  BY NextInv
<1> QED
  BY <1>1, <1>2, PTL DEF Spec

-----------------------------------------------------------------------------
(* The properties.                                                         *)

(* The rows and the requests in flight are always of the declared types.   *)
THEOREM TypeCorrect == Spec => []TypeOK
<1>1. Inv => TypeOK
  BY DEF Inv
<1> QED
  BY <1>1, InvIsInvariant, PTL

(* No insert, delete or death of a request, in any order, leaves a live    *)
(* row without its live parent.                                            *)
THEOREM NoOrphansHolds == Spec => []NoOrphans
<1>1. Inv => NoOrphans
  BY DEF Inv, SessionsOK, EventsOK, NoOrphans, SessionsOf, OwnerOfSession, Used
<1> QED
  BY <1>1, InvIsInvariant, PTL

(* Between the check of a retraction's target and the INSERT anything may  *)
(* happen: a committed retraction still names a committed earlier event of *)
(* the same learner.                                                       *)
THEOREM RetractionsHold == Spec => []RetractionsNameOwnEvidence
<1>1. Inv => RetractionsNameOwnEvidence
  <2> SUFFICES ASSUME Inv, NEW r \in Event, events[r] = "live",
                      NEW target, target = eventRow[r].retracts,
                      target # NoEvent
               PROVE  /\ events[target] = "live"
                      /\ target < r
                      /\ sessionRow[eventRow[target].session].learner
                           = sessionRow[eventRow[r].session].learner
    BY DEF RetractionsNameOwnEvidence
  <2>1. /\ target < r /\ target \in Event /\ events[target] \in Known
        /\ OwnerOfEvent(target) = OwnerOfSession(eventRow[r].session)
    BY DEF Inv, RetractionsOK, MayRetract, Used
  <2>2. learners[OwnerOfSession(eventRow[r].session)] = "live"
    BY DEF Inv, EventsOK, SessionsOK, Used
  <2>3. events[target] # "erased"
    <3>1. SUFFICES ASSUME events[target] = "erased" PROVE FALSE
      OBVIOUS
    <3>2. /\ eventRow[target].session \in Session
          /\ sessions[eventRow[target].session] = "erased"
      BY <2>1, <3>1 DEF Inv, EventsOK, Used
    <3>3. learners[OwnerOfEvent(target)] = "erased"
      BY <3>2 DEF Inv, SessionsOK, OwnerOfEvent
    <3> QED
      BY <2>1, <2>2, <3>3
  <2> QED
    BY <2>1, <2>3 DEF Known, OwnerOfEvent, OwnerOfSession
<1> QED
  BY <1>1, InvIsInvariant, PTL

(* What a client was told of survives crashes, until its learner is erased. *)
THEOREM DurabilityHolds == Spec => []AcknowledgedMeansDurable
<1>1. Inv => AcknowledgedMeansDurable
  <2> SUFFICES ASSUME Inv PROVE AcknowledgedMeansDurable
    OBVIOUS
  <2>1. \A s \in Session : sessions[s] = "erased" =>
          learners[sessionRow[s].learner] = "erased"
    BY DEF Inv, SessionsOK, OwnerOfSession
  <2>2. \A e \in Event : events[e] = "erased" =>
          /\ eventRow[e].session \in Session
          /\ sessions[eventRow[e].session] = "erased"
    BY DEF Inv, EventsOK, Used
  <2> QED
    BY <2>1, <2>2 DEF Inv, HistoryOK, AcknowledgedMeansDurable, Known
<1> QED
  BY <1>1, InvIsInvariant, PTL

(* Behind a receipt nothing is left, and nothing is still being written.   *)
THEOREM ErasureHolds == Spec => []ErasureIsComplete
<1>1. Inv => ErasureIsComplete
  <2> SUFFICES ASSUME Inv, NEW r \in receipts
               PROVE  /\ learners[r.learner] = "erased"
                      /\ \A s \in SessionsOf(r.learner) :
                           sessions[s] \notin {"live", "pending"}
                      /\ \A e \in EventsOf(r.learner) :
                           events[e] \notin {"live", "pending"}
    BY DEF ErasureIsComplete
  <2>1. learners[r.learner] = "erased"
    BY DEF Inv, HistoryOK
  <2>2. \A s \in SessionsOf(r.learner) : s \in Session /\ OwnerOfSession(s) = r.learner
    BY DEF SessionsOf, OwnerOfSession
  <2>3. \A s \in SessionsOf(r.learner) : sessions[s] \notin {"live", "pending"}
    BY <2>1, <2>2 DEF Inv, SessionsOK
  <2>4. \A e \in EventsOf(r.learner) : events[e] \notin {"live", "pending"}
    BY <2>3 DEF EventsOf, Inv, EventsOK
  <2> QED
    BY <2>1, <2>3, <2>4
<1> QED
  BY <1>1, InvIsInvariant, PTL

(* A statement that the database rejects, or that finds its row gone, lost *)
(* the race against the erasure of its learner: the foreign keys and the   *)
(* reads before the statement leave no other way, however the requests     *)
(* interleave and whichever of them lose their connection or die.          *)
THEOREM RejectionsHold == Spec => []RejectedOnlyAfterErasure
<1>1. Inv => RejectedOnlyAfterErasure
  <2> SUFFICES ASSUME Inv, NEW w \in Worker, pc[w] = "respond",
                      req[w].status = "500"
               PROVE  \/ /\ req[w].session = None
                         /\ learners[req[w].learner] = "erased"
                      \/ /\ req[w].session # None
                         /\ sessions[req[w].session] = "erased"
    BY DEF RejectedOnlyAfterErasure
  <2>1. RepliesOK(w)
    BY DEF Inv
  <2> QED
    BY <2>1, ConstantsAssumption DEF RepliesOK
<1> QED
  BY <1>1, InvIsInvariant, PTL

(* Nothing committed is rewritten, and only an erasure removes it.         *)
THEOREM AppendOnlyHolds == Spec => AppendOnly
<1> DEFINE Kept == \A e \in Event : events[e] = "live" =>
       /\ eventRow'[e] = eventRow[e]
       /\ \/ events'[e] = "live"
          \/ \E l \in Learner : /\ e \in EventsOf(l)
                                /\ learners[l] = "live"
                                /\ learners'[l] = "erased"
<1>1. Inv /\ [Next]_vars => Kept
  <2> SUFFICES ASSUME Inv, [Next]_vars, NEW e \in Event, events[e] = "live"
               PROVE  /\ eventRow'[e] = eventRow[e]
                      /\ \/ events'[e] = "live"
                         \/ \E l \in Learner : /\ e \in EventsOf(l)
                                               /\ learners[l] = "live"
                                               /\ learners'[l] = "erased"
    OBVIOUS
  <2>1. CASE UNCHANGED <<events, eventRow>>
    BY <2>1
  <2>2. ASSUME NEW w \in Worker, InsertEvent(w) \/ InsertEventFails(w)
        PROVE  eventRow'[e] = eventRow[e] /\ events'[e] = "live"
    <3>1. nextSequence \in Event /\ events[nextSequence] = "free"
      BY <2>2, FreshSequence DEF InsertEvent, InsertEventFails
    <3> QED
      BY <2>2, <3>1 DEF InsertEvent, InsertEventFails, Inv, TypeOK
  <2>3. ASSUME NEW w \in Worker, CommitEvent(w)
        PROVE  eventRow'[e] = eventRow[e] /\ events'[e] = "live"
    BY <2>3 DEF CommitEvent, EventCommitted, Inv, TypeOK
  <2>4. ASSUME NEW w \in Worker, Abort(w)
        PROVE  eventRow'[e] = eventRow[e] /\ events'[e] = "live"
    BY <2>4 DEF Abort, RolledBack, Inv, WritesOK
  <2>5. ASSUME NEW w \in Worker, CommitErase(w), events'[e] # "live"
        PROVE  /\ eventRow'[e] = eventRow[e]
               /\ e \in EventsOf(req[w].learner)
               /\ req[w].learner \in Learner
               /\ learners[req[w].learner] = "live"
               /\ learners'[req[w].learner] = "erased"
    <3>1. /\ req[w].learner \in Learner /\ learners[req[w].learner] = "live"
          /\ req[w].cascaded \subseteq LiveSessionsOf(req[w].learner)
      BY <2>5 DEF CommitErase, Inv, WritesOK, InTransaction
    <3>2. eventRow[e].session \in req[w].cascaded
      BY <2>5 DEF CommitErase, EventsUnder
    <3>3. e \in EventsOf(req[w].learner)
      BY <3>1, <3>2 DEF LiveSessionsOf, EventsOf
    <3> QED
      BY <2>5, <3>1, <3>3 DEF CommitErase, Inv, TypeOK
  <2>6. ASSUME NEW w \in Worker, CommitErase(w)
        PROVE  eventRow'[e] = eventRow[e]
    BY <2>6 DEF CommitErase
  <2>7. ASSUME NEW w \in Worker, Arrive(w)
        PROVE  UNCHANGED <<events, eventRow>>
    BY <2>7 DEF Arrive, Register, Resume, Record, End, Progress, Erase, tables
  <2>8. ASSUME NEW w \in Worker, Serve(w),
               ~(InsertEvent(w) \/ InsertEventFails(w)), ~CommitEvent(w),
               ~CommitErase(w)
        PROVE  UNCHANGED <<events, eventRow>>
    BY <2>8 DEF Serve, CommitRegister, FindOpen, InsertSession,
       InsertSessionFails, CommitSession, CheckTarget, UpdateEnded,
       UpdateEndedFails, CommitEnd, ReadEvents, CountSessions, CountEvents,
       DeleteLearner, DeleteNothing, CascadeSession, Cascaded, Respond, tables
  <2>9. CASE UNCHANGED vars
    BY <2>9 DEF vars, tables
  <2> QED
    BY <2>1, <2>2, <2>3, <2>4, <2>5, <2>6, <2>7, <2>8, <2>9 DEF Next
<1>2. []Inv /\ [][Next]_vars => [][Kept]_vars
  BY <1>1, PTL
<1>3. AppendOnly <=> [][Kept]_vars
  BY DEF AppendOnly
<1> QED
  BY <1>2, <1>3, InvIsInvariant, PTL DEF Spec

=============================================================================
