---------------------- MODULE LearningRecordRefinement ----------------------
(***************************************************************************)
(* LearningRecord implements EvidenceLedger: what a committed snapshot     *)
(* shows changes as the ledger of atomic operations does.                  *)
(***************************************************************************)
EXTENDS LearningRecordProofs

(* A step that leaves what is committed alone is a stutter of the ledger.  *)
LEMMA SnapshotKept ==
  ASSUME \A l \in Learner : /\ learners'[l] = "live" <=> learners[l] = "live"
                            /\ learners'[l] = "erased" <=> learners[l] = "erased",
         \A s \in Session : /\ sessions'[s] = "live" <=> sessions[s] = "live"
                            /\ sessions[s] = "live" => sessionRow'[s] = sessionRow[s],
         \A e \in Event : /\ events'[e] = "live" <=> events[e] = "live"
                          /\ events[e] = "live" => eventRow'[e] = eventRow[e]
  PROVE  UNCHANGED Ledger!vars
<1>1. /\ CommittedLearners' = CommittedLearners
      /\ ErasedLearners' = ErasedLearners
  BY DEF CommittedLearners, ErasedLearners
<1>2. CommittedVisits' = CommittedVisits
  BY DEF CommittedVisits, VisitOf
<1>3. EndedVisits' = EndedVisits
  BY DEF EndedVisits
<1>4. CommittedEntries' = CommittedEntries
  BY DEF CommittedEntries, EntryOf
<1> QED
  BY <1>1, <1>2, <1>3, <1>4 DEF Ledger!vars

LEMMA RegisterRefines ==
  ASSUME Inv, NEW w \in Worker, CommitRegister(w)
  PROVE  Ledger!Next
<1> DEFINE l == req[w].learner
<1>1. l \in Learner /\ learners[l] = "pending"
  BY DEF CommitRegister, Inv, WritesOK, InTransaction
<1>2. /\ \A k \in Learner \ {l} : learners'[k] = learners[k]
      /\ learners'[l] = "live"
      /\ UNCHANGED <<sessions, sessionRow, events, eventRow>>
  BY <1>1 DEF CommitRegister, Inv, TypeOK
<1>3. l \notin CommittedLearners \cup ErasedLearners
  BY <1>1 DEF CommittedLearners, ErasedLearners
<1>4. CommittedLearners' = CommittedLearners \cup {l}
  BY <1>1, <1>2 DEF CommittedLearners
<1>5. ErasedLearners' = ErasedLearners
  BY <1>1, <1>2 DEF ErasedLearners
<1>6. UNCHANGED <<CommittedVisits, EndedVisits, CommittedEntries>>
  BY <1>2 DEF CommittedVisits, EndedVisits, CommittedEntries, VisitOf, EntryOf
<1>7. Ledger!Register(l)
  BY <1>3, <1>4, <1>5, <1>6 DEF Ledger!Register
<1> QED
  BY <1>1, <1>7 DEF Ledger!Next

LEMMA StartRefines ==
  ASSUME Inv, NEW w \in Worker, CommitSession(w)
  PROVE  Ledger!Next
<1> DEFINE s == req[w].session
           l == req[w].learner
<1>1. /\ s \in Session /\ sessions[s] = "pending"
      /\ l \in Learner /\ learners[l] = "live"
      /\ sessionRow[s].learner = l /\ sessionRow[s].concept \in Concept
      /\ sessionRow[s].endedAt = Open
  BY DEF CommitSession, Inv, WritesOK, InTransaction, SessionsOK, OwnerOfSession,
         Used
<1>2. /\ \A t \in Session \ {s} : sessions'[t] = sessions[t]
      /\ sessions'[s] = "live"
      /\ UNCHANGED <<learners, sessionRow, events, eventRow>>
  BY <1>1 DEF CommitSession, Inv, TypeOK
<1>3. l \in CommittedLearners
  BY <1>1 DEF CommittedLearners
<1>4. \A v \in CommittedVisits : v.session # s
  BY <1>1 DEF CommittedVisits, VisitOf
<1>5. CommittedVisits' = CommittedVisits \cup {VisitOf(s)}
  BY <1>1, <1>2 DEF CommittedVisits, VisitOf
<1>6. VisitOf(s) = [session |-> s, learner |-> l, concept |-> sessionRow[s].concept]
  BY <1>1 DEF VisitOf
<1>7. EndedVisits' = EndedVisits
  BY <1>1, <1>2 DEF EndedVisits
<1>8. UNCHANGED <<CommittedLearners, ErasedLearners, CommittedEntries>>
  BY <1>2 DEF CommittedLearners, ErasedLearners, CommittedEntries, EntryOf
<1>9. Ledger!Start(l, sessionRow[s].concept, s)
  BY <1>3, <1>4, <1>5, <1>6, <1>7, <1>8 DEF Ledger!Start
<1> QED
  BY <1>1, <1>9 DEF Ledger!Next

LEMMA EndRefines ==
  ASSUME Inv, NEW w \in Worker, CommitEnd(w)
  PROVE  Ledger!Next
<1> DEFINE s == req[w].session
<1>1. /\ s \in Session /\ sessions[s] = "live" /\ req[w].at \in Time
      /\ req[w].at # Open /\ sessionRow[s] \in SessionRow
  BY ConstantsAssumption
     DEF CommitEnd, Inv, TypeOK, Request, WritesOK, InTransaction, Time, Open
<1> DEFINE row == [sessionRow[s] EXCEPT !.endedAt = req[w].at]
<1>2. /\ row.learner = sessionRow[s].learner
      /\ row.concept = sessionRow[s].concept
      /\ row.endedAt = req[w].at
  BY <1>1 DEF SessionRow
<1>3. sessionRow' = [sessionRow EXCEPT ![s] = row]
  BY DEF CommitEnd
<1> HIDE DEF row
<1>4. /\ \A t \in Session \ {s} : sessionRow'[t] = sessionRow[t]
      /\ sessionRow'[s] = row
      /\ UNCHANGED <<learners, sessions, events, eventRow>>
  BY <1>1, <1>3 DEF CommitEnd, Inv, TypeOK
<1>5. VisitOf(s) \in CommittedVisits /\ VisitOf(s).session = s
  BY <1>1 DEF CommittedVisits, VisitOf
<1>6. EndedVisits' = EndedVisits \cup {s}
  BY <1>1, <1>2, <1>4 DEF EndedVisits
<1>7. CommittedVisits' = CommittedVisits
  <2>1. \A t \in Session : VisitOf(t)' = VisitOf(t)
    BY <1>2, <1>4 DEF VisitOf
  <2> QED
    BY <1>4, <2>1 DEF CommittedVisits
<1>8. UNCHANGED <<CommittedLearners, ErasedLearners, CommittedEntries>>
  BY <1>4 DEF CommittedLearners, ErasedLearners, CommittedEntries, EntryOf
<1>9. Ledger!End(VisitOf(s))
  BY <1>5, <1>6, <1>7, <1>8 DEF Ledger!End
<1> QED
  BY <1>5, <1>9 DEF Ledger!Next

(* The target was checked before the INSERT; at the commit it is still     *)
(* there, because its learner is.                                          *)
LEMMA AppendRefines ==
  ASSUME Inv, NEW w \in Worker, CommitEvent(w)
  PROVE  Ledger!Next
<1> DEFINE n == req[w].event
           s == req[w].session
           target == eventRow[n].retracts
<1>1. /\ n \in Event /\ events[n] = "pending" /\ eventRow[n].session = s
      /\ s \in Session /\ sessions[s] = "live"
      /\ learners[sessionRow[s].learner] = "live"
      /\ target \in Event \cup {NoEvent}
  BY DEF CommitEvent, Inv, TypeOK, EventRow, WritesOK, InTransaction, SessionsOK,
         OwnerOfSession
<1>2. /\ \A e \in Event \ {n} : events'[e] = events[e]
      /\ events'[n] = "live"
      /\ UNCHANGED <<learners, sessions, sessionRow, eventRow>>
  BY <1>1 DEF CommitEvent, EventCommitted, Inv, TypeOK
<1>3. VisitOf(s) \in CommittedVisits
  BY <1>1 DEF CommittedVisits
<1>4. VisitOf(s).session = s /\ VisitOf(s).learner = sessionRow[s].learner
  BY DEF VisitOf
<1>5. \A x \in CommittedEntries : x.sequence # n
  BY <1>1 DEF CommittedEntries, EntryOf
<1>6. CommittedEntries' = CommittedEntries \cup {EntryOf(n)}
  BY <1>1, <1>2 DEF CommittedEntries, EntryOf
<1>7. EntryOf(n) = [sequence |-> n, session |-> VisitOf(s).session,
                    retracts |-> target]
  BY <1>1, <1>4 DEF EntryOf
<1>8. \/ target = NoEvent
      \/ /\ target < n
         /\ \E x \in Ledger!EntriesOf(Ledger!VisitsOf(VisitOf(s).learner)) :
              x.sequence = target
  <2> SUFFICES ASSUME target # NoEvent
               PROVE  /\ target < n
                      /\ \E x \in Ledger!EntriesOf(Ledger!VisitsOf(VisitOf(s).learner)) :
                           x.sequence = target
    OBVIOUS
  <2> DEFINE q == eventRow[target].session
  <2>1. /\ target < n /\ target \in Event /\ events[target] \in Known
        /\ sessionRow[q].learner = sessionRow[s].learner
    BY <1>1 DEF Inv, RetractionsOK, MayRetract, Used, OwnerOfEvent, OwnerOfSession
  <2>2. q \in Session /\ sessions[q] \in Known
    BY <2>1, KnownSessionOfEvent DEF Inv
  <2>3. sessions[q] = "live"
    BY <1>1, <2>1, <2>2 DEF Inv, SessionsOK, OwnerOfSession, Known
  <2>4. events[target] = "live"
    BY <2>1, <2>3 DEF Inv, EventsOK, Known
  <2>5. VisitOf(q) \in Ledger!VisitsOf(VisitOf(s).learner)
    BY <1>4, <2>1, <2>2, <2>3 DEF Ledger!VisitsOf, CommittedVisits, VisitOf
  <2>6. EntryOf(target) \in Ledger!EntriesOf(Ledger!VisitsOf(VisitOf(s).learner))
    BY <2>1, <2>4, <2>5 DEF Ledger!EntriesOf, CommittedEntries, EntryOf, VisitOf
  <2> QED
    BY <2>1, <2>6 DEF EntryOf
<1>9. UNCHANGED <<CommittedLearners, ErasedLearners, CommittedVisits, EndedVisits>>
  BY <1>2 DEF CommittedLearners, ErasedLearners, CommittedVisits, EndedVisits,
              VisitOf
<1>10. Ledger!Append(VisitOf(s), n, target)
  BY <1>3, <1>5, <1>6, <1>7, <1>8, <1>9 DEF Ledger!Append
<1> QED
  BY <1>1, <1>3, <1>10 DEF Ledger!Next

LEMMA EraseRefines ==
  ASSUME Inv, NEW w \in Worker, CommitErase(w)
  PROVE  Ledger!Next
<1> DEFINE l == req[w].learner
           gone == req[w].cascaded
<1>1. /\ l \in Learner /\ learners[l] = "live"
      /\ gone = LiveSessionsOf(l) /\ gone \subseteq Session
  BY DEF CommitErase, Inv, WritesOK, InTransaction, LiveSessionsOf, SessionsOf
<1>2. /\ \A k \in Learner \ {l} : learners'[k] = learners[k]
      /\ learners'[l] = "erased"
      /\ \A s \in Session :
           sessions'[s] = "live" <=>
             sessions[s] = "live" /\ sessionRow[s].learner # l
      /\ \A e \in Event :
           events'[e] = "live" <=>
             events[e] = "live" /\ eventRow[e].session \notin gone
      /\ UNCHANGED <<sessionRow, eventRow>>
  <2>1. \A s \in Session :
          s \in gone <=> sessions[s] = "live" /\ sessionRow[s].learner = l
    BY <1>1 DEF LiveSessionsOf, SessionsOf
  <2>2. \A s \in Session :
          sessions'[s] = IF s \in gone THEN "erased" ELSE sessions[s]
    BY DEF CommitErase
  <2>3. \A e \in Event :
          events'[e] = IF events[e] = "live" /\ eventRow[e].session \in gone
                         THEN "erased" ELSE events[e]
    BY DEF CommitErase, EventsUnder
  <2>4. /\ learners' = [learners EXCEPT ![l] = "erased"]
        /\ UNCHANGED <<sessionRow, eventRow>>
    BY DEF CommitErase
  <2>5. \A s \in Session :
          sessions'[s] = "live" <=>
            sessions[s] = "live" /\ sessionRow[s].learner # l
    BY <2>1, <2>2
  <2>6. \A e \in Event :
          events'[e] = "live" <=>
            events[e] = "live" /\ eventRow[e].session \notin gone
    BY <2>3
  <2> QED
    BY <1>1, <2>4, <2>5, <2>6 DEF Inv, TypeOK
<1>4. Ledger!VisitsOf(l) = {VisitOf(s) : s \in gone}
  <2>1. \A s \in Session :
          s \in gone <=> sessions[s] = "live" /\ sessionRow[s].learner = l
    BY <1>1 DEF LiveSessionsOf, SessionsOf
  <2>2. \A s \in Session : VisitOf(s).learner = sessionRow[s].learner
    BY DEF VisitOf
  <2> QED
    BY <1>1, <2>1, <2>2 DEF Ledger!VisitsOf, CommittedVisits
<1>5. Ledger!EntriesOf(Ledger!VisitsOf(l)) =
        {EntryOf(e) : e \in {f \in Event : /\ events[f] = "live"
                                          /\ eventRow[f].session \in gone}}
  <2>1. ASSUME NEW q
        PROVE  (\E v \in Ledger!VisitsOf(l) : q = v.session) <=> q \in gone
    <3>1. \A s \in Session : VisitOf(s).session = s
      BY DEF VisitOf
    <3> QED
      BY <1>1, <1>4, <3>1
  <2>2. \A e \in Event : EntryOf(e).session = eventRow[e].session
    BY DEF EntryOf
  <2> QED
    BY <2>1, <2>2 DEF Ledger!EntriesOf, CommittedEntries
<1>6. l \in CommittedLearners
  BY <1>1 DEF CommittedLearners
<1>7. /\ CommittedLearners' = CommittedLearners \ {l}
      /\ ErasedLearners' = ErasedLearners \cup {l}
  BY <1>1, <1>2 DEF CommittedLearners, ErasedLearners
<1>8. CommittedVisits' = CommittedVisits \ Ledger!VisitsOf(l)
  BY <1>2 DEF Ledger!VisitsOf, CommittedVisits, VisitOf
<1>9. EndedVisits' = {s \in EndedVisits :
                        \A v \in Ledger!VisitsOf(l) : v.session # s}
  <2>1. \A s \in Session :
          (\A v \in Ledger!VisitsOf(l) : v.session # s) <=> s \notin gone
    <3>1. \A s \in Session : VisitOf(s).session = s
      BY DEF VisitOf
    <3> QED
      BY <1>1, <1>4, <3>1
  <2> QED
    BY <1>1, <1>2, <2>1 DEF EndedVisits, LiveSessionsOf, SessionsOf
<1>10. CommittedEntries' = CommittedEntries \ Ledger!EntriesOf(Ledger!VisitsOf(l))
  BY <1>2, <1>5 DEF CommittedEntries, EntryOf
<1>11. Ledger!Erase(l)
  BY <1>6, <1>7, <1>8, <1>9, <1>10 DEF Ledger!Erase
<1> QED
  BY <1>1, <1>11 DEF Ledger!Next

(* Every step of every request is one operation of the ledger or none.     *)
LEMMA StepRefines ==
  ASSUME Inv, [Next]_vars
  PROVE  Ledger!Next \/ UNCHANGED Ledger!vars
<1>1. CASE UNCHANGED <<learners, sessions, sessionRow, events, eventRow>>
  BY <1>1, SnapshotKept
<1>2. ASSUME NEW w \in Worker, Register(w)
      PROVE  UNCHANGED Ledger!vars
  <2>1. PICK l \in Learner : /\ learners[l] = "free"
                             /\ learners' = [learners EXCEPT ![l] = "pending"]
    BY <1>2 DEF Register
  <2> QED
    BY <1>2, <2>1, SnapshotKept DEF Register, Inv, TypeOK
<1>3. ASSUME NEW w \in Worker, InsertSession(w)
      PROVE  UNCHANGED Ledger!vars
  <2>1. PICK s \in Session :
          /\ sessions[s] = "free"
          /\ sessions' = [sessions EXCEPT ![s] = "pending"]
          /\ \A t \in Session \ {s} : sessionRow'[t] = sessionRow[t]
    BY <1>3 DEF InsertSession, Inv, TypeOK
  <2> QED
    BY <1>3, <2>1, SnapshotKept DEF InsertSession, Inv, TypeOK
<1>4. ASSUME NEW w \in Worker, InsertEvent(w) \/ InsertEventFails(w)
      PROVE  UNCHANGED Ledger!vars
  <2>1. nextSequence \in Event /\ events[nextSequence] = "free"
    BY <1>4, FreshSequence DEF InsertEvent, InsertEventFails
  <2>2. /\ \A e \in Event \ {nextSequence} : /\ events'[e] = events[e]
                                             /\ eventRow'[e] = eventRow[e]
        /\ events'[nextSequence] \in {"pending", "gap"}
        /\ UNCHANGED <<learners, sessions, sessionRow>>
    BY <1>4, <2>1 DEF InsertEvent, InsertEventFails, Inv, TypeOK
  <2> QED
    BY <2>1, <2>2, SnapshotKept
<1>5. ASSUME NEW w \in Worker, Abort(w)
      PROVE  UNCHANGED Ledger!vars
  <2>1. /\ \A l \in Learner :
             \/ learners'[l] = learners[l]
             \/ learners[l] = "pending" /\ learners'[l] = "free"
        /\ \A s \in Session :
             \/ sessions'[s] = sessions[s]
             \/ sessions[s] = "pending" /\ sessions'[s] = "free"
        /\ \A e \in Event :
             \/ events'[e] = events[e]
             \/ events[e] = "pending" /\ events'[e] = "gap"
        /\ UNCHANGED <<sessionRow, eventRow>>
    BY <1>5 DEF Abort, RolledBack, Inv, WritesOK
  <2> QED
    BY <2>1, SnapshotKept
<1>6. ASSUME NEW w \in Worker,
             \/ CommitRegister(w) \/ CommitSession(w) \/ CommitEnd(w)
             \/ CommitEvent(w) \/ CommitErase(w)
      PROVE  Ledger!Next
  BY <1>6, RegisterRefines, StartRefines, EndRefines, AppendRefines, EraseRefines
<1>7. ASSUME NEW w \in Worker,
             Resume(w) \/ Record(w) \/ End(w) \/ Progress(w) \/ Erase(w)
      PROVE  UNCHANGED <<learners, sessions, sessionRow, events, eventRow>>
  BY <1>7 DEF Resume, Record, End, Progress, Erase, tables
<1>8. ASSUME NEW w \in Worker,
             \/ FindOpen(w) \/ InsertSessionFails(w) \/ CheckTarget(w)
             \/ UpdateEnded(w) \/ UpdateEndedFails(w) \/ ReadEvents(w)
             \/ CountSessions(w) \/ CountEvents(w) \/ DeleteLearner(w)
             \/ DeleteNothing(w) \/ CascadeSession(w) \/ Cascaded(w)
             \/ Respond(w)
      PROVE  UNCHANGED <<learners, sessions, sessionRow, events, eventRow>>
  BY <1>8 DEF FindOpen, InsertSessionFails, CheckTarget, UpdateEnded,
     UpdateEndedFails, ReadEvents, CountSessions, CountEvents, DeleteLearner,
     DeleteNothing, CascadeSession, Cascaded, Respond, tables
<1>9. CASE UNCHANGED vars
  BY <1>1, <1>9 DEF vars, tables
<1> QED
  BY <1>1, <1>2, <1>3, <1>4, <1>5, <1>6, <1>7, <1>8, <1>9
     DEF Next, Arrive, Serve

(* The interleaved statements of any number of requests, deaths included,  *)
(* are seen by every reader as the atomic operations of the ledger.        *)
THEOREM RecordImplementsLedger == Spec => ImplementsLedger
<1>1. Init => Ledger!Init
  BY DEF Init, Ledger!Init, CommittedLearners, ErasedLearners, CommittedVisits,
         EndedVisits, CommittedEntries
<1>2. Inv /\ [Next]_vars => [Ledger!Next]_(Ledger!vars)
  BY StepRefines
<1> QED
  BY <1>1, <1>2, InvIsInvariant, PTL DEF Spec, ImplementsLedger, Ledger!Spec

=============================================================================
