--------------------------- MODULE LearningRecord ---------------------------
(***************************************************************************)
(* The learner evidence record: anonymous learners, their visits           *)
(* ("learning sessions") to concepts, and the append-only evidence events  *)
(* of those visits, as services/api/src/academy_api keeps them.            *)
(*                                                                         *)
(* A Worker is one request in flight: one database connection and one      *)
(* transaction (api/dependencies.py get_db_session).  A request is a       *)
(* sequence of awaited statements, and between any two of them every       *)
(* other request may run, so each statement is an action of its own.       *)
(*                                                                         *)
(* The database is PostgreSQL at READ COMMITTED: a statement sees the rows *)
(* committed when it starts.  Rows are locked until the transaction ends:  *)
(* an INSERT locks its parent row FOR KEY SHARE, an UPDATE of a non-key    *)
(* column locks its row FOR NO KEY UPDATE, a DELETE and every row its      *)
(* cascade reaches FOR UPDATE.  The locks a worker holds follow from its   *)
(* program counter and its request, so they are operators, not state.      *)
(***************************************************************************)
EXTENDS Naturals, FiniteSets

CONSTANTS
  Learner,      \* learner ids
  Session,      \* learning-session ids
  MaxEvents,    \* bound: how many evidence rows are ever inserted
  Concept,      \* concept ids a client may name
  Published,    \* the concepts that have a learning object on disk
  Worker,       \* requests that can be in flight together
  MaxTime,      \* bound: how often the wall clock advances
  Operations,   \* the operations the clients of this instance call
  None          \* "no value"

Event == 1..MaxEvents       \* an event is named by its identity sequence
Time  == 0..MaxTime
NoEvent == 0                \* the event retracts nothing
Open    == MaxTime + 1      \* ended_at IS NULL

AllOperations ==
  {"register", "resume", "record", "end", "progress", "erase"}

ASSUME ConstantsAssumption ==
  /\ MaxEvents \in Nat
  /\ MaxTime \in Nat
  /\ Published \subseteq Concept
  /\ Operations \subseteq AllOperations
  /\ None \notin Learner \cup Session \cup Concept

(* Rows of two tables never share an id.                                   *)
ASSUME DistinctIdsAssumption ==
  /\ Learner \cap Session = {}
  /\ (Learner \cup Session) \cap Event = {}

(* The pool hands out pool_size + max_overflow connections.                *)
ASSUME FiniteIdsAssumption == IsFiniteSet(Session) /\ IsFiniteSet(Worker)

VARIABLES
  learners,     \* learner table: where each id stands
  sessions,     \* learning_session table: where each id stands
  sessionRow,   \* the columns of a learning_session row
  events,       \* evidence_event table: where each sequence value stands
  eventRow,     \* the columns of an evidence_event row
  nextSequence, \* the identity generator of evidence_event.sequence
  clock,        \* now()
  pc,           \* the statement each worker is about to execute
  req,          \* the request each worker serves, with its local variables
  acked,        \* history: the ids clients were told of by a 2xx reply
  receipts      \* history: the erasure receipts that were returned

tables == <<learners, sessions, sessionRow, events, eventRow, nextSequence>>
vars   == <<tables, clock, pc, req, acked, receipts>>

(* A row is pending while the transaction that inserted it is open, live   *)
(* once committed and erased once a committed DELETE reached it.  A        *)
(* sequence value whose INSERT rolled back is a gap for ever; a UUID that  *)
(* rolled back was seen by nobody, so its id may stand for another one.    *)
Standing == {"free", "pending", "live", "erased", "gap"}

Label == {"idle", "findOpen", "insertSession", "checkTarget", "insertEvent",
          "updateEnded", "readEvents", "countSessions", "countEvents",
          "delete", "cascade", "commit", "respond"}

(* Three things make the application answer 500: a statement that          *)
(* PostgreSQL rejects or that finds no row, a lesson that breaks its       *)
(* contract, and a connection that is lost or not to be had.               *)
ServerError == {"500", "500 lesson", "500 connection"}
Status == {"none", "ok", "403", "404", "422"} \cup ServerError

SessionRow == [learner : Learner \cup {None}, concept : Concept \cup {None},
               startedAt : Time, endedAt : Time \cup {Open}]

EventRow == [session : Session \cup {None}, retracts : Event \cup {NoEvent}]

Request == [op : AllOperations \cup {"none"},
            learner : Learner \cup {None},
            concept : Concept \cup {None},
            session : Session \cup {None},
            event : Event \cup {NoEvent},     \* the row this request inserted
            retracts : Event \cup {NoEvent},
            at : Time,                        \* started_at or ended_at to write
            cascaded : SUBSET Session,        \* rows the cascade has deleted
            sessionCount : Nat,
            eventCount : Nat,
            view : SUBSET Event,              \* the events a progress read saw
            status : Status]

(* A request as it arrives.                                                *)
Asks(op, l, c, s) ==
  [op |-> op, learner |-> l, concept |-> c, session |-> s,
   event |-> NoEvent, retracts |-> NoEvent, at |-> 0, cascaded |-> {},
   sessionCount |-> 0, eventCount |-> 0, view |-> {}, status |-> "none"]

NoRequest == Asks("none", None, None, None)

TypeOK ==
  /\ learners \in [Learner -> Standing]
  /\ sessions \in [Session -> Standing]
  /\ sessionRow \in [Session -> SessionRow]
  /\ events \in [Event -> Standing]
  /\ eventRow \in [Event -> EventRow]
  /\ nextSequence \in 1..(MaxEvents + 1)
  /\ clock \in Time
  /\ pc \in [Worker -> Label]
  /\ req \in [Worker -> Request]
  /\ acked \subseteq Learner \cup Session \cup Event
  /\ receipts \subseteq [learner : Learner, sessions : Nat, events : Nat]

Init ==
  /\ learners = [l \in Learner |-> "free"]
  /\ sessions = [s \in Session |-> "free"]
  /\ sessionRow = [s \in Session |-> [learner |-> None, concept |-> None,
                                      startedAt |-> 0, endedAt |-> Open]]
  /\ events = [e \in Event |-> "free"]
  /\ eventRow = [e \in Event |-> [session |-> None, retracts |-> NoEvent]]
  /\ nextSequence = 1
  /\ clock = 0
  /\ pc = [w \in Worker |-> "idle"]
  /\ req = [w \in Worker |-> NoRequest]
  /\ acked = {}
  /\ receipts = {}

-----------------------------------------------------------------------------
(* What a statement sees, and which rows are locked against it.            *)

SessionsOf(l) == {s \in Session : sessionRow[s].learner = l}

EventsOf(l) ==
  {e \in Event : eventRow[e].session \in SessionsOf(l)}

LiveSessionsOf(l) == {s \in SessionsOf(l) : sessions[s] = "live"}

(* Mutant: uncommitted and rolled-back rows are read too.                  *)
DirtyEventsOf(l) == EventsOf(l)
LiveEventsOf(l) == {e \in EventsOf(l) : events[e] = "live"}

OpenSessions(l, c) ==
  {s \in LiveSessionsOf(l) : /\ sessionRow[s].concept = c
                             /\ sessionRow[s].endedAt = Open}

(* Mutant: replays a single session of the concept.                        *)
EventsOfOneVisit(l, c) ==
  LET visits == {s \in LiveSessionsOf(l) : sessionRow[s].concept = c}
  IN  {e \in LiveEventsOf(l) : /\ visits # {}
                               /\ eventRow[e].session = CHOOSE s \in visits : TRUE}

EventsForConcept(l, c) ==
  {e \in LiveEventsOf(l) :
     /\ sessions[eventRow[e].session] = "live"
     /\ sessionRow[eventRow[e].session].concept = c}

InTransaction(w, op) == pc[w] \in {"cascade", "commit"} /\ req[w].op = op

KeySharesLearner(w, l) == InTransaction(w, "resume") /\ req[w].learner = l
KeySharesSession(w, s) == InTransaction(w, "record") /\ req[w].session = s
UpdatesSession(w, s)   == InTransaction(w, "end") /\ req[w].session = s
DeletesLearner(w, l)   == InTransaction(w, "erase") /\ req[w].learner = l
DeletesSession(w, s)   == InTransaction(w, "erase") /\ s \in req[w].cascaded

(* No other transaction is deleting the row an INSERT or UPDATE must lock. *)
(* Mutants: the statement does not wait for the lock.                      *)
LearnerUnlocked(l) == TRUE
LearnerLockable(l) == \A v \in Worker : ~DeletesLearner(v, l)
SessionUnlocked(s) == TRUE
SessionLockable(s) == \A v \in Worker : ~DeletesSession(v, s)

(* Mutant: an event may refer to a session that does not exist.            *)
NoForeignKey(s) == TRUE
SessionExists(s) == sessions[s] = "live"

-----------------------------------------------------------------------------
(* Requests: arrival, reply, and the death of a request.                   *)

Accept(w, op) == pc[w] = "idle" /\ op \in Operations

Goto(w, label) == pc' = [pc EXCEPT ![w] = label]

Reply(w, request, status) ==
  /\ Goto(w, "respond")
  /\ req' = [req EXCEPT ![w] = [request EXCEPT !.status = status]]

(* A request that is refused by its own reads, before it writes anything.  *)
Refuse(w, status) == Reply(w, NoRequest, status)

Tick == clock' \in {clock, clock + 1} \cap Time

(* The 2xx body carries the id of the row; an erasure returns its receipt. *)
(* Mutant: the reply is built from whatever rows there are.                *)
DisclosedAlways(r) == {r.learner, r.session}
Disclosed(r) ==
  {x \in {r.learner, r.session, r.event} :
     /\ r.status = "ok"
     /\ \/ r.op = "register" /\ x = r.learner
        \/ r.op \in {"resume", "end"} /\ x = r.session
        \/ r.op = "record" /\ x = r.event}

ReceiptOf(r) ==
  IF r.op = "erase" /\ r.status = "ok"
    THEN {[learner |-> r.learner, sessions |-> r.sessionCount,
           events |-> r.eventCount]}
    ELSE {}

Respond(w) ==
  /\ pc[w] = "respond"
  /\ Goto(w, "idle")
  /\ req' = [req EXCEPT ![w] = NoRequest]
  /\ acked' = acked \cup Disclosed(req[w])
  /\ receipts' = receipts \cup ReceiptOf(req[w])
  /\ UNCHANGED <<tables, clock>>

(* The uncommitted row of a transaction that rolls back is gone.           *)
RolledBack(w) ==
  /\ learners' = [l \in Learner |->
       IF InTransaction(w, "register") /\ l = req[w].learner
         THEN "free" ELSE learners[l]]
  /\ sessions' = [s \in Session |->
       IF InTransaction(w, "resume") /\ s = req[w].session
         THEN "free" ELSE sessions[s]]
  /\ events' = [e \in Event |->
       IF InTransaction(w, "record") /\ e = req[w].event
         THEN "gap" ELSE events[e]]

(* The process or the client dies: the transaction rolls back, nobody gets *)
(* a reply.  Or the connection to PostgreSQL is lost: no handler knows     *)
(* what the driver raises, and the client is answered 500.  (So is a       *)
(* request that finds no connection at all: it reads and writes nothing.)  *)
Abort(w) ==
  /\ RolledBack(w)
  /\ \/ /\ pc[w] # "idle"
        /\ Goto(w, "idle")
        /\ req' = [req EXCEPT ![w] = NoRequest]
     \/ pc[w] \notin {"idle", "respond"} /\ Refuse(w, "500 connection")
  /\ UNCHANGED <<sessionRow, eventRow, nextSequence, clock, acked, receipts>>

(* The reply to a COMMIT that took effect, unless the connection is lost   *)
(* before PostgreSQL has confirmed it.                                     *)
Confirmed(w) == Reply(w, req[w], "ok") \/ Refuse(w, "500 connection")

-----------------------------------------------------------------------------
(* POST /learners                                                          *)

Register(w) ==
  /\ Accept(w, "register")
  /\ \E l \in Learner :
       /\ learners[l] = "free"
       /\ learners' = [learners EXCEPT ![l] = "pending"]
       /\ req' = [req EXCEPT ![w] = Asks("register", l, None, None)]
  /\ Goto(w, "commit")
  /\ UNCHANGED <<sessions, sessionRow, events, eventRow, nextSequence, clock,
                 acked, receipts>>

CommitRegister(w) ==
  /\ pc[w] = "commit" /\ req[w].op = "register"
  /\ learners' = [learners EXCEPT ![req[w].learner] = "live"]
  /\ Confirmed(w)
  /\ UNCHANGED <<sessions, sessionRow, events, eventRow, nextSequence, clock,
                 acked, receipts>>

-----------------------------------------------------------------------------
(* POST /learners/{id}/sessions: look the learner up, look for an open     *)
(* session, insert one if there is none.                                   *)

Resume(w) ==
  /\ Accept(w, "resume")
  /\ Tick
  /\ \E l \in Learner, c \in Concept :
       LET r == [Asks("resume", l, c, None) EXCEPT !.at = clock']
       IN  IF learners[l] = "live"
             THEN Goto(w, "findOpen") /\ req' = [req EXCEPT ![w] = r]
             ELSE Refuse(w, "404")
  /\ UNCHANGED <<tables, acked, receipts>>

(* The open session that started last; equal times are ordered by chance.  *)
(* Mutant: nothing is ever found.                                          *)
NoneFound(candidates) == {}
Newest(candidates) ==
  {s \in candidates :
     \A t \in candidates : sessionRow[t].startedAt <= sessionRow[s].startedAt}

FindOpen(w) ==
  /\ pc[w] = "findOpen"
  /\ LET found == Newest(OpenSessions(req[w].learner, req[w].concept))
     IN  \/ /\ found = {}
            /\ Goto(w, "insertSession")
            /\ UNCHANGED req
         \/ \E s \in found :
              Reply(w, [req[w] EXCEPT !.session = s], "ok")
  /\ UNCHANGED <<tables, clock, acked, receipts>>

InsertSession(w) ==
  /\ pc[w] = "insertSession"
  /\ learners[req[w].learner] = "live"
  /\ LearnerLockable(req[w].learner)
  /\ \E s \in Session :
       /\ sessions[s] = "free"
       /\ sessions' = [sessions EXCEPT ![s] = "pending"]
       /\ sessionRow' = [sessionRow EXCEPT ![s] =
            [learner |-> req[w].learner, concept |-> req[w].concept,
             startedAt |-> req[w].at, endedAt |-> Open]]
       /\ req' = [req EXCEPT ![w].session = s]
  /\ Goto(w, "commit")
  /\ UNCHANGED <<learners, events, eventRow, nextSequence, clock, acked,
                 receipts>>

(* Mutant: the INSERT is retried for ever.                                 *)
InsertSessionRetries(w) ==
  /\ pc[w] = "insertSession"
  /\ learners[req[w].learner] # "live"
  /\ UNCHANGED vars

(* The learner was erased after it was looked up: foreign-key violation.   *)
InsertSessionFails(w) ==
  /\ pc[w] = "insertSession"
  /\ learners[req[w].learner] # "live"
  /\ Reply(w, req[w], "500")
  /\ UNCHANGED <<tables, clock, acked, receipts>>

CommitSession(w) ==
  /\ pc[w] = "commit" /\ req[w].op = "resume"
  /\ sessions' = [sessions EXCEPT ![req[w].session] = "live"]
  /\ Confirmed(w)
  /\ UNCHANGED <<learners, sessionRow, events, eventRow, nextSequence, clock,
                 acked, receipts>>

-----------------------------------------------------------------------------
(* POST /sessions/{id}/events: the contract validates the body, the        *)
(* session is looked up, what a retraction names is checked, insert.       *)

Record(w) ==
  /\ Accept(w, "record")
  /\ \E s \in Session, target \in Event \cup {NoEvent}, valid \in BOOLEAN :
       LET r == [Asks("record", None, None, s) EXCEPT !.retracts = target]
       IN  \/ ~valid /\ Refuse(w, "422")
           \/ valid /\ sessions[s] # "live" /\ Refuse(w, "404")
           \/ /\ valid /\ sessions[s] = "live"
              /\ Goto(w, IF target = NoEvent THEN "insertEvent"
                                             ELSE "checkTarget")
              /\ req' = [req EXCEPT ![w] = r]
  /\ UNCHANGED <<tables, clock, acked, receipts>>

(* Mutants: any event, and any id at all, may be retracted.                *)
RetractableByAnyone(target, s) == events[target] = "live"
RetractableUnchecked(target, s) == TRUE

(* The event exists, in a session of the same learner.  The events of this *)
(* request's own session were loaded with it (relationship "events" is     *)
(* lazy="selectin"), so one erased since is still found in the identity    *)
(* map.                                                                    *)
Retractable(target, s) ==
  /\ \/ events[target] = "live"
     \/ events[target] = "erased" /\ eventRow[target].session = s
  /\ sessionRow[eventRow[target].session].learner = sessionRow[s].learner

(* Mutant: EvidenceContractError has no handler in main.py.                *)
CheckTargetUnhandled(w) ==
  /\ pc[w] = "checkTarget"
  /\ IF Retractable(req[w].retracts, req[w].session)
       THEN Goto(w, "insertEvent") /\ UNCHANGED req
       ELSE Reply(w, req[w], "500")
  /\ UNCHANGED <<tables, clock, acked, receipts>>

CheckTarget(w) ==
  /\ pc[w] = "checkTarget"
  /\ IF Retractable(req[w].retracts, req[w].session)
       THEN Goto(w, "insertEvent") /\ UNCHANGED req
       ELSE Refuse(w, "422")
  /\ UNCHANGED <<tables, clock, acked, receipts>>

InsertEvent(w) ==
  /\ pc[w] = "insertEvent"
  /\ SessionExists(req[w].session)
  /\ SessionLockable(req[w].session)
  /\ nextSequence <= MaxEvents
  /\ nextSequence' = nextSequence + 1
  /\ events' = [events EXCEPT ![nextSequence] = "pending"]
  /\ eventRow' = [eventRow EXCEPT ![nextSequence] =
       [session |-> req[w].session, retracts |-> req[w].retracts]]
  /\ req' = [req EXCEPT ![w].event = nextSequence]
  /\ Goto(w, "commit")
  /\ UNCHANGED <<learners, sessions, sessionRow, clock, acked, receipts>>

(* The session was erased after it was looked up: foreign-key violation,   *)
(* and the sequence value the INSERT drew is lost.                         *)
InsertEventFails(w) ==
  /\ pc[w] = "insertEvent"
  /\ sessions[req[w].session] # "live"
  /\ nextSequence <= MaxEvents
  /\ nextSequence' = nextSequence + 1
  /\ events' = [events EXCEPT ![nextSequence] = "gap"]
  /\ Reply(w, req[w], "500")
  /\ UNCHANGED <<learners, sessions, sessionRow, eventRow, clock, acked,
                 receipts>>

(* Mutants: the commit is left to dependency teardown, after the reply; a  *)
(* retraction deletes what it retracts.                                    *)
EventCommittedInTeardown(r) == events
EventReplacesTarget(r) ==
  [e \in Event |-> CASE e = r.event -> "live"
                    [] e = r.retracts -> "erased"
                    [] OTHER -> events[e]]
EventCommitted(r) == [events EXCEPT ![r.event] = "live"]

CommitEvent(w) ==
  /\ pc[w] = "commit" /\ req[w].op = "record"
  /\ events' = EventCommitted(req[w])
  /\ Confirmed(w)
  /\ UNCHANGED <<learners, sessions, sessionRow, eventRow, nextSequence,
                 clock, acked, receipts>>

-----------------------------------------------------------------------------
(* LearningRecordService.end_session: no route calls it yet.               *)

(* Ending is idempotent as far as one request can see.                     *)
NotYetEnded(s) == sessionRow[s].endedAt = Open

End(w) ==
  /\ Accept(w, "end")
  /\ Tick
  /\ \E s \in Session :
       LET r == [Asks("end", None, None, s) EXCEPT !.at = clock']
       IN  \/ sessions[s] # "live" /\ Refuse(w, "404")
           \/ /\ sessions[s] = "live" /\ ~NotYetEnded(s)
              /\ Reply(w, r, "ok")
           \/ /\ sessions[s] = "live" /\ NotYetEnded(s)
              /\ Goto(w, "updateEnded")
              /\ req' = [req EXCEPT ![w] = r]
  /\ UNCHANGED <<tables, acked, receipts>>

(* UPDATE ... WHERE id = s waits for the row's lock and then writes the    *)
(* time that was taken before, whatever the row holds by then.             *)
UpdateEnded(w) ==
  /\ pc[w] = "updateEnded"
  /\ sessions[req[w].session] = "live"
  /\ SessionLockable(req[w].session)
  /\ \A v \in Worker : ~UpdatesSession(v, req[w].session)
  /\ Goto(w, "commit")
  /\ UNCHANGED <<tables, clock, req, acked, receipts>>

(* The row is gone: the UPDATE matches nothing and the ORM raises.         *)
UpdateEndedFails(w) ==
  /\ pc[w] = "updateEnded"
  /\ sessions[req[w].session] # "live"
  /\ Reply(w, req[w], "500")
  /\ UNCHANGED <<tables, clock, acked, receipts>>

CommitEnd(w) ==
  /\ pc[w] = "commit" /\ req[w].op = "end"
  /\ sessionRow' = [sessionRow EXCEPT ![req[w].session].endedAt = req[w].at]
  /\ Confirmed(w)
  /\ UNCHANGED <<learners, sessions, events, eventRow, nextSequence, clock,
                 acked, receipts>>

-----------------------------------------------------------------------------
(* GET /learners/{id}/progress/{concept}: the learner, then the learning   *)
(* object, which may be broken on disk, then every event of the concept,   *)
(* replayed.                                                               *)

Progress(w) ==
  /\ Accept(w, "progress")
  /\ \E l \in Learner, c \in Concept :
       \/ (learners[l] # "live" \/ c \notin Published) /\ Refuse(w, "404")
       \/ /\ learners[l] = "live" /\ c \in Published
          /\ \/ Refuse(w, "500 lesson")
             \/ /\ Goto(w, "readEvents")
                /\ req' = [req EXCEPT ![w] = Asks("progress", l, c, None)]
  /\ UNCHANGED <<tables, clock, acked, receipts>>

ReadEvents(w) ==
  /\ pc[w] = "readEvents"
  /\ Reply(w, [req[w] EXCEPT
                 !.view = EventsForConcept(req[w].learner, req[w].concept)],
           "ok")
  /\ UNCHANGED <<tables, clock, acked, receipts>>

(* Mutant: a retraction reaches only the session it was recorded in.       *)
CountedPerSession(view) ==
  {e \in view :
     /\ eventRow[e].retracts = NoEvent
     /\ \A r \in view : ~(/\ eventRow[r].retracts = e
                          /\ eventRow[r].session = eventRow[e].session)}

(* What project_progress counts of a stream: neither the retractions nor   *)
(* what they name, whether or not a retraction is itself retracted.        *)
Counted(view) ==
  {e \in view : /\ eventRow[e].retracts = NoEvent
                /\ \A r \in view : eventRow[r].retracts # e}

-----------------------------------------------------------------------------
(* DELETE /internal/learners/{id}: check the token, look the learner up,   *)
(* count, count, delete, commit.                                           *)

Erase(w) ==
  /\ Accept(w, "erase")
  /\ \E l \in Learner, authorised \in BOOLEAN :
       LET r == Asks("erase", l, None, None)
       IN  \/ ~authorised /\ Refuse(w, "403")
           \/ authorised /\ learners[l] # "live" /\ Refuse(w, "404")
           \/ /\ authorised /\ learners[l] = "live"
              /\ Goto(w, "countSessions")
              /\ req' = [req EXCEPT ![w] = r]
  /\ UNCHANGED <<tables, clock, acked, receipts>>

CountSessions(w) ==
  /\ pc[w] = "countSessions"
  /\ req' = [req EXCEPT ![w].sessionCount =
                          Cardinality(LiveSessionsOf(req[w].learner))]
  /\ Goto(w, "countEvents")
  /\ UNCHANGED <<tables, clock, acked, receipts>>

CountEvents(w) ==
  /\ pc[w] = "countEvents"
  /\ req' = [req EXCEPT ![w].eventCount =
                          Cardinality(LiveEventsOf(req[w].learner))]
  /\ Goto(w, "delete")
  /\ UNCHANGED <<tables, clock, acked, receipts>>

(* DELETE FROM learner waits for every lock on the row, then holds it.     *)
DeleteLearner(w) ==
  /\ pc[w] = "delete"
  /\ learners[req[w].learner] = "live"
  /\ \A v \in Worker : /\ ~KeySharesLearner(v, req[w].learner)
                       /\ ~DeletesLearner(v, req[w].learner)
  /\ Goto(w, "cascade")
  /\ UNCHANGED <<tables, clock, req, acked, receipts>>

(* Another erasure was first: the DELETE matches no row, which nobody      *)
(* checks, and the receipt is returned all the same.                       *)
DeleteNothing(w) ==
  /\ pc[w] = "delete"
  /\ learners[req[w].learner] # "live"
  /\ Reply(w, req[w], "ok")
  /\ UNCHANGED <<tables, clock, acked, receipts>>

(* ON DELETE CASCADE deletes the sessions one row after another, waiting   *)
(* for whoever inserts into one or updates it.                             *)
CascadeSession(w) ==
  /\ pc[w] = "cascade"
  /\ \E s \in LiveSessionsOf(req[w].learner) \ req[w].cascaded :
       /\ \A v \in Worker : ~KeySharesSession(v, s) /\ ~UpdatesSession(v, s)
       /\ req' = [req EXCEPT ![w].cascaded = @ \cup {s}]
  /\ UNCHANGED <<tables, clock, pc, acked, receipts>>

Cascaded(w) ==
  /\ pc[w] = "cascade"
  /\ LiveSessionsOf(req[w].learner) \subseteq req[w].cascaded
  /\ Goto(w, "commit")
  /\ UNCHANGED <<tables, clock, req, acked, receipts>>

(* The second cascade, from the sessions to their events, finds every      *)
(* event committed by now: its sessions are locked.                        *)
(* Mutant: the foreign key from events to sessions does not cascade.       *)
NoEvents(deleted) == {}
EventsUnder(deleted) ==
  {e \in Event : events[e] = "live" /\ eventRow[e].session \in deleted}

CommitErase(w) ==
  /\ pc[w] = "commit" /\ req[w].op = "erase"
  /\ learners' = [learners EXCEPT ![req[w].learner] = "erased"]
  /\ sessions' = [s \in Session |->
       IF s \in req[w].cascaded THEN "erased" ELSE sessions[s]]
  /\ events' = [e \in Event |->
       IF e \in EventsUnder(req[w].cascaded) THEN "erased" ELSE events[e]]
  /\ Confirmed(w)
  /\ UNCHANGED <<sessionRow, eventRow, nextSequence, clock, acked, receipts>>

-----------------------------------------------------------------------------
Serve(w) ==
  \/ CommitRegister(w)
  \/ FindOpen(w) \/ InsertSession(w) \/ InsertSessionFails(w)
  \/ CommitSession(w)
  \/ CheckTarget(w) \/ InsertEvent(w) \/ InsertEventFails(w) \/ CommitEvent(w)
  \/ UpdateEnded(w) \/ UpdateEndedFails(w) \/ CommitEnd(w)
  \/ ReadEvents(w)
  \/ CountSessions(w) \/ CountEvents(w) \/ DeleteLearner(w) \/ DeleteNothing(w)
  \/ CascadeSession(w) \/ Cascaded(w) \/ CommitErase(w)
  \/ Respond(w)

Arrive(w) ==
  Register(w) \/ Resume(w) \/ Record(w) \/ End(w) \/ Progress(w) \/ Erase(w)

Next == \E w \in Worker : Arrive(w) \/ Serve(w) \/ Abort(w)

Spec == Init /\ [][Next]_vars

(* The bound: an INSERT for which this instance has no id left.            *)
OutOfIds(w) ==
  \/ pc[w] = "insertSession" /\ \A s \in Session : sessions[s] # "free"
  \/ pc[w] = "insertEvent" /\ nextSequence > MaxEvents

(* Each request is a coroutine the event loop resumes when its statement   *)
(* returns.  PostgreSQL queues the waiters of a locked row, so a statement *)
(* that is unblocked again and again is not overtaken for ever: the        *)
(* fairness is strong.  Nothing obliges a request to arrive or to die,     *)
(* save at the bound.                                                      *)
Fairness ==
  \A w \in Worker : /\ SF_vars(Serve(w))
                    /\ WF_vars(OutOfIds(w) /\ Abort(w))

FairSpec == Spec /\ Fairness

-----------------------------------------------------------------------------
(* PROPERTIES                                                              *)

(* Nobody but the request that inserted a row sees it before its commit,   *)
(* so a row whose parent is gone would be read, replayed and counted by no *)
(* one for ever: a live event has a live session, a live session a live    *)
(* learner, however inserts and erasures interleave.                       *)
NoOrphans ==
  /\ \A s \in Session :
       sessions[s] = "live" => \E l \in Learner : /\ s \in SessionsOf(l)
                                                 /\ learners[l] = "live"
  /\ \A e \in Event :
       events[e] = "live" => \E s \in Session : /\ eventRow[e].session = s
                                                /\ sessions[s] = "live"

(* record_evidence checks what a retraction names one statement before it  *)
(* inserts the retraction.  Even so a committed retraction never dangles:  *)
(* it names a committed event of the same learner, recorded before it.     *)
RetractionsNameOwnEvidence ==
  \A r \in Event : events[r] = "live" /\ eventRow[r].retracts # NoEvent =>
    LET target == eventRow[r].retracts
    IN  /\ events[target] = "live"
        /\ target < r
        /\ sessionRow[eventRow[target].session].learner
             = sessionRow[eventRow[r].session].learner

(* ADR-0007 D4: committed evidence is never rewritten, and never disappears *)
(* except together with the learner it belongs to.                         *)
AppendOnly ==
  [][\A e \in Event : events[e] = "live" =>
       /\ eventRow'[e] = eventRow[e]
       /\ \/ events'[e] = "live"
          \/ \E l \in Learner : /\ e \in EventsOf(l)
                                /\ learners[l] = "live"
                                /\ learners'[l] = "erased"]_vars

(* Writes commit inside the handler: an id a client was told of names a    *)
(* committed row, until the learner it belongs to is erased.               *)
AcknowledgedMeansDurable ==
  /\ \A l \in acked \cap Learner : learners[l] \in {"live", "erased"}
  /\ \A s \in acked \cap Session :
       \/ sessions[s] = "live"
       \/ sessions[s] = "erased" /\ learners[sessionRow[s].learner] = "erased"
  /\ \A e \in acked \cap Event :
       \/ events[e] = "live"
       \/ /\ events[e] = "erased"
          /\ learners[sessionRow[eventRow[e].session].learner] = "erased"

(* ADR-0007 D6: once a receipt is out nothing of that learner is left, and *)
(* no request still in flight can bring any of it back.                    *)
ErasureIsComplete ==
  \A r \in receipts :
    /\ learners[r.learner] = "erased"
    /\ \A s \in SessionsOf(r.learner) : sessions[s] \notin {"live", "pending"}
    /\ \A e \in EventsOf(r.learner) : events[e] \notin {"live", "pending"}

ErasedSessions(l) == {s \in SessionsOf(l) : sessions[s] = "erased"}
ErasedEvents(l)   == {e \in EventsOf(l) : events[e] = "erased"}

(* The rows are counted before they are deleted, in statements of their    *)
(* own: a receipt may miss rows, it never claims one that was not there.   *)
ReceiptNeverOverstates ==
  \A r \in receipts :
    /\ r.sessions <= Cardinality(ErasedSessions(r.learner))
    /\ r.events <= Cardinality(ErasedEvents(r.learner))

(* main.py:66-105 handles nothing that the database raises.  Of the three  *)
(* ways to a 500, this is the one that is the record's own doing: while    *)
(* its connection lasts, no statement of a request is rejected and none    *)
(* finds its row gone, unless the learner was erased since it was read.    *)
RejectedOnlyAfterErasure ==
  \A w \in Worker : pc[w] = "respond" /\ req[w].status = "500" =>
    \/ req[w].session = None /\ learners[req[w].learner] = "erased"
    \/ req[w].session # None /\ sessions[req[w].session] = "erased"

AckedEventsOf(l, c) ==
  {e \in acked \cap Event :
     /\ events[e] = "live"
     /\ sessionRow[eventRow[e].session].learner = l
     /\ sessionRow[eventRow[e].session].concept = c}

ReadIsAnswered(w) ==
  /\ pc[w] = "readEvents" /\ pc'[w] = "respond"
  /\ req'[w].status = "ok"

(* The client re-reads progress after every write: the read contains every *)
(* event of the learner and concept that was acknowledged to anyone.       *)
ReadYourWrites ==
  [][\A w \in Worker : ReadIsAnswered(w) =>
       AckedEventsOf(req[w].learner, req[w].concept) \subseteq req'[w].view]_vars

(* A retraction that was acknowledged counts at once: a progress read that *)
(* starts later does not count its target, in whichever of the concept's   *)
(* sessions either was recorded.                                           *)
RetractionTakesEffect ==
  [][\A w \in Worker : ReadIsAnswered(w) =>
       \A r \in AckedEventsOf(req[w].learner, req[w].concept) :
         eventRow[r].retracts \notin Counted(req'[w].view)]_vars

(* services/progress.py:3-5: "there is no second source of truth to drift, *)
(* and a retraction takes effect immediately": the same for a retraction   *)
(* recorded in a session of any concept of the learner.                    *)
EveryRetractionTakesEffect ==
  [][\A w \in Worker : ReadIsAnswered(w) =>
       \A c \in Concept : \A r \in AckedEventsOf(req[w].learner, c) :
         eventRow[r].retracts \notin Counted(req'[w].view)]_vars

(* services/learning_record.py:71: "Reloading the page must not fragment   *)
(* one sitting into many sessions": a learner has at most one open session *)
(* per concept.                                                            *)
OneOpenSession ==
  \A l \in Learner, c \in Concept :
    \A s, t \in OpenSessions(l, c) : s = t

(* The requests that found no open session and have one to start.          *)
Starting(l, c) ==
  {w \in Worker : /\ pc[w] = "insertSession" \/ InTransaction(w, "resume")
                  /\ req[w].learner = l /\ req[w].concept = c}

(* What is left of that: a sitting falls into no more open sessions than   *)
(* requests can be in flight together, those about to be started counted,  *)
(* however often the page is reloaded.                                     *)
FragmentsAreBounded ==
  \A l \in Learner, c \in Concept :
    Cardinality(OpenSessions(l, c)) + Cardinality(Starting(l, c))
      <= Cardinality(Worker)

(* services/erasure.py:30: the receipt is "Proof of what was destroyed".   *)
ReceiptIsExact ==
  \A r \in receipts :
    /\ r.sessions = Cardinality(ErasedSessions(r.learner))
    /\ r.events = Cardinality(ErasedEvents(r.learner))

(* Row locks are only ever waited for in the order learner, session, and a *)
(* writer holds one: no request that has its connection waits for ever,    *)
(* whatever the others do.                                                 *)
RequestsEnd == \A w \in Worker : pc[w] # "idle" ~> pc[w] = "idle"

-----------------------------------------------------------------------------
(* The rows a committed snapshot shows, as entries of the abstract ledger. *)

CommittedLearners == {l \in Learner : learners[l] = "live"}
ErasedLearners    == {l \in Learner : learners[l] = "erased"}

VisitOf(s) == [session |-> s, learner |-> sessionRow[s].learner,
               concept |-> sessionRow[s].concept]
EntryOf(e) == [sequence |-> e, session |-> eventRow[e].session,
               retracts |-> eventRow[e].retracts]

CommittedVisits  == {VisitOf(s) : s \in {t \in Session : sessions[t] = "live"}}
EndedVisits      == {s \in Session : /\ sessions[s] = "live"
                                     /\ sessionRow[s].endedAt # Open}
CommittedEntries == {EntryOf(e) : e \in {f \in Event : events[f] = "live"}}

Ledger == INSTANCE EvidenceLedger WITH
  learners <- CommittedLearners, erased <- ErasedLearners,
  visits <- CommittedVisits, ended <- EndedVisits, ledger <- CommittedEntries

(* Interleaved statements add up to atomic operations: what a committed    *)
(* snapshot shows changes only as the ledger does, one operation at a time *)
(* and each with its precondition true when it takes effect.               *)
ImplementsLedger == Ledger!Spec

=============================================================================
