-------------------------- MODULE LearningRecordInv -------------------------
(***************************************************************************)
(* Why the safety properties of LearningRecord hold: what is true of the   *)
(* rows, of every request in flight and of the locks between requests.     *)
(* Inv is inductive; TLC checks it and LearningRecordProofs proves it.     *)
(***************************************************************************)
EXTENDS LearningRecord

Known == {"live", "erased"}   \* committed at some time: never forgotten
Used  == {"pending", "live", "erased"}

OwnerOfSession(s) == sessionRow[s].learner
OwnerOfEvent(e)   == OwnerOfSession(eventRow[e].session)

(* A session row in use has a learner that stands as it does; the learner  *)
(* of a row that is not committed yet is committed already.                *)
SessionsOK ==
  \A s \in Session :
    /\ sessions[s] \in Used => /\ OwnerOfSession(s) \in Learner
                               /\ sessionRow[s].concept \in Concept
    /\ sessions[s] \in {"pending", "live"} => learners[OwnerOfSession(s)] = "live"
    /\ sessions[s] = "erased" => learners[OwnerOfSession(s)] = "erased"

EventsOK ==
  \A e \in Event :
    /\ events[e] \in Used => eventRow[e].session \in Session
    /\ events[e] \in {"pending", "live"} => sessions[eventRow[e].session] = "live"
    /\ events[e] = "erased" => sessions[eventRow[e].session] = "erased"
    /\ e >= nextSequence => events[e] = "free"

(* What a request of session s may retract.                                *)
MayRetract(target, s) ==
  /\ target \in Event
  /\ events[target] \in Known
  /\ OwnerOfEvent(target) = OwnerOfSession(s)

RetractionsOK ==
  \A e \in Event : events[e] \in Used /\ eventRow[e].retracts # NoEvent =>
    /\ eventRow[e].retracts < e
    /\ MayRetract(eventRow[e].retracts, eventRow[e].session)

(* What a request has read stays true, except that a live row may have     *)
(* been erased since.                                                      *)
ReadsOK(w) ==
  /\ pc[w] \in {"findOpen", "insertSession"} =>
       /\ req[w].op = "resume"
       /\ req[w].learner \in Learner /\ learners[req[w].learner] \in Known
       /\ req[w].concept \in Concept
       /\ req[w].session = None
  /\ pc[w] \in {"checkTarget", "insertEvent"} =>
       /\ req[w].op = "record"
       /\ req[w].session \in Session /\ sessions[req[w].session] \in Known
       /\ pc[w] = "checkTarget" => req[w].retracts \in Event
  /\ pc[w] = "insertEvent" /\ req[w].retracts # NoEvent =>
       MayRetract(req[w].retracts, req[w].session)
  /\ pc[w] = "updateEnded" =>
       /\ req[w].op = "end"
       /\ req[w].session \in Session /\ sessions[req[w].session] \in Known
  /\ pc[w] = "readEvents" =>
       req[w].op = "progress" /\ req[w].learner \in Learner
  /\ pc[w] \in {"countSessions", "countEvents", "delete"} =>
       /\ req[w].op = "erase"
       /\ req[w].learner \in Learner /\ learners[req[w].learner] \in Known
       /\ req[w].cascaded = {}

(* A reply names rows that are committed, and blames only an erasure.      *)
RepliesOK(w) ==
  pc[w] = "respond" =>
    /\ req[w].status = "ok" /\ req[w].op = "register" =>
         req[w].learner \in Learner /\ learners[req[w].learner] \in Known
    /\ req[w].status = "ok" /\ req[w].op \in {"resume", "end"} =>
         req[w].session \in Session /\ sessions[req[w].session] \in Known
    /\ req[w].status = "ok" /\ req[w].op = "record" =>
         req[w].event \in Event /\ events[req[w].event] \in Known
    /\ req[w].status = "ok" /\ req[w].op = "erase" =>
         req[w].learner \in Learner /\ learners[req[w].learner] = "erased"
    /\ req[w].status = "500" =>
         \/ /\ req[w].session = None /\ req[w].learner \in Learner
            /\ learners[req[w].learner] = "erased"
         \/ req[w].session \in Session /\ sessions[req[w].session] = "erased"

(* What an open transaction has written, and the parents it holds.         *)
WritesOK(w) ==
  /\ pc[w] \in {"cascade", "commit"} =>
       req[w].op \in {"register", "resume", "record", "end", "erase"}
  /\ pc[w] = "cascade" => req[w].op = "erase"
  /\ InTransaction(w, "register") =>
       req[w].learner \in Learner /\ learners[req[w].learner] = "pending"
  /\ InTransaction(w, "resume") =>
       /\ req[w].learner \in Learner /\ learners[req[w].learner] = "live"
       /\ req[w].session \in Session /\ sessions[req[w].session] = "pending"
       /\ OwnerOfSession(req[w].session) = req[w].learner
       /\ sessionRow[req[w].session].concept = req[w].concept
       /\ sessionRow[req[w].session].endedAt = Open
  /\ InTransaction(w, "record") =>
       /\ req[w].session \in Session /\ sessions[req[w].session] = "live"
       /\ req[w].event \in Event /\ events[req[w].event] = "pending"
       /\ eventRow[req[w].event].session = req[w].session
  /\ InTransaction(w, "end") =>
       req[w].session \in Session /\ sessions[req[w].session] = "live"
  /\ InTransaction(w, "erase") =>
       /\ req[w].learner \in Learner /\ learners[req[w].learner] = "live"
       /\ req[w].cascaded \subseteq LiveSessionsOf(req[w].learner)
       /\ pc[w] = "commit" => LiveSessionsOf(req[w].learner) \subseteq req[w].cascaded

(* Every uncommitted row was inserted by a transaction still open.         *)
PendingOK ==
  /\ \A s \in Session : sessions[s] = "pending" =>
       \E w \in Worker : InTransaction(w, "resume") /\ req[w].session = s
  /\ \A e \in Event : events[e] = "pending" =>
       \E w \in Worker : InTransaction(w, "record") /\ req[w].event = e

(* Locks of two requests never conflict, nor do they write the same row.   *)
Compatible(v, w) ==
  /\ InTransaction(v, "register") /\ InTransaction(w, "register") =>
       req[v].learner # req[w].learner
  /\ InTransaction(v, "resume") /\ InTransaction(w, "resume") =>
       req[v].session # req[w].session
  /\ InTransaction(v, "record") /\ InTransaction(w, "record") =>
       req[v].event # req[w].event
  /\ InTransaction(v, "end") /\ InTransaction(w, "end") =>
       req[v].session # req[w].session
  /\ InTransaction(v, "erase") =>
       /\ InTransaction(w, "erase") => req[v].learner # req[w].learner
       /\ InTransaction(w, "resume") => req[v].learner # req[w].learner
       /\ InTransaction(w, "record") => req[w].session \notin req[v].cascaded
       /\ InTransaction(w, "end") => req[w].session \notin req[v].cascaded

LocksOK == \A v, w \in Worker : v # w => Compatible(v, w)

HistoryOK ==
  /\ \A l \in acked \cap Learner : learners[l] \in Known
  /\ \A s \in acked \cap Session : sessions[s] \in Known
  /\ \A e \in acked \cap Event : events[e] \in Known
  /\ \A r \in receipts : learners[r.learner] = "erased"

Inv ==
  /\ TypeOK
  /\ SessionsOK
  /\ EventsOK
  /\ RetractionsOK
  /\ \A w \in Worker : ReadsOK(w) /\ RepliesOK(w) /\ WritesOK(w)
  /\ PendingOK
  /\ LocksOK
  /\ HistoryOK

=============================================================================
