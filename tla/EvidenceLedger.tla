--------------------------- MODULE EvidenceLedger ---------------------------
(***************************************************************************)
(* What the evidence record promises its callers (ADR-0007 D4 to D6),      *)
(* free of statements, transactions and locks: every write happens in one  *)
(* step, entries are only ever added, and the one deletion takes a learner *)
(* with everything recorded about them.                                    *)
(***************************************************************************)
EXTENDS Naturals

CONSTANTS Learner, Session, Concept, Event, NoEvent

VARIABLES
  learners,   \* the learners that exist
  erased,     \* the learners that existed and were erased
  visits,     \* one record per learning session of an existing learner
  ended,      \* the sessions that have an end time
  ledger      \* one record per evidence event of an existing learner

vars == <<learners, erased, visits, ended, ledger>>

Visit == [session : Session, learner : Learner, concept : Concept]
Entry == [sequence : Event, session : Session, retracts : Event \cup {NoEvent}]

TypeOK ==
  /\ learners \subseteq Learner
  /\ erased \subseteq Learner
  /\ visits \subseteq Visit
  /\ ended \subseteq Session
  /\ ledger \subseteq Entry

Init ==
  /\ learners = {}
  /\ erased = {}
  /\ visits = {}
  /\ ended = {}
  /\ ledger = {}

VisitsOf(l) == {v \in visits : v.learner = l}

(* The entries made during one of these visits.                            *)
EntriesOf(vs) == {x \in ledger : \E v \in vs : x.session = v.session}

Register(l) ==
  /\ l \notin learners \cup erased
  /\ learners' = learners \cup {l}
  /\ UNCHANGED <<erased, visits, ended, ledger>>

Start(l, c, s) ==
  /\ l \in learners
  /\ \A v \in visits : v.session # s
  /\ visits' = visits \cup {[session |-> s, learner |-> l, concept |-> c]}
  /\ UNCHANGED <<learners, erased, ended, ledger>>

End(v) ==
  /\ v \in visits
  /\ ended' = ended \cup {v.session}
  /\ UNCHANGED <<learners, erased, visits, ledger>>

(* A retraction names an earlier entry of the same learner.                *)
Append(v, e, target) ==
  /\ v \in visits
  /\ \A x \in ledger : x.sequence # e
  /\ \/ target = NoEvent
     \/ /\ target < e
        /\ \E x \in EntriesOf(VisitsOf(v.learner)) : x.sequence = target
  /\ ledger' = ledger \cup {[sequence |-> e, session |-> v.session,
                             retracts |-> target]}
  /\ UNCHANGED <<learners, erased, visits, ended>>

Erase(l) ==
  /\ l \in learners
  /\ learners' = learners \ {l}
  /\ erased' = erased \cup {l}
  /\ visits' = visits \ VisitsOf(l)
  /\ ended' = {s \in ended : \A v \in VisitsOf(l) : v.session # s}
  /\ ledger' = ledger \ EntriesOf(VisitsOf(l))

Next ==
  \/ \E l \in Learner : Register(l) \/ Erase(l)
  \/ \E l \in Learner, c \in Concept, s \in Session : Start(l, c, s)
  \/ \E v \in visits : End(v)
  \/ \E v \in visits, e \in Event, target \in Event \cup {NoEvent} :
       Append(v, e, target)

Spec == Init /\ [][Next]_vars

=============================================================================
