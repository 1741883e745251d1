------------------------ MODULE ProgressReplayProofs ------------------------
(***************************************************************************)
(* Proofs about ProgressReplay: whatever is recorded, in whatever order it *)
(* becomes visible, the loop of project_progress computes the view that    *)
(* the declarative reading of the stream gives.                            *)
(***************************************************************************)
EXTENDS ProgressReplay, FiniteSetTheorems, TLAPS

-----------------------------------------------------------------------------
(* Rows.                                                                   *)

(* What the kind of a row tells of it.                                     *)
LEMMA RowKinds ==
  ASSUME NEW row \in Row
  PROVE  /\ row = NoRow <=> row.kind = "no row"
         /\ row = Unreadable <=> row.kind = "unreadable"
         /\ row.kind = "step.viewed" => row.says \in Step
         /\ row.kind = "experiment.performed" => row.says \in Experiment
         /\ row.kind \in {"pre", "post"} => row.says \in Response
         /\ row.kind = "evidence.retracted" => row.says \in Place \cup {Elsewhere}
         /\ row \in Contract \/ row = Unreadable \/ row = NoRow
<1>1. /\ NoRow.kind = "no row" /\ Unreadable.kind = "unreadable"
      /\ NoRow # Unreadable
  BY DEF NoRow, Unreadable
<1>2. ASSUME row \in Contract
      PROVE  row.kind # "no row" /\ row.kind # "unreadable"
  BY <1>2 DEF Contract
<1>3. row \in Contract /\ row.kind = "step.viewed" => row.says \in Step
  BY DEF Contract
<1>4. row \in Contract /\ row.kind = "experiment.performed" =>
        row.says \in Experiment
  BY DEF Contract
<1>5. row \in Contract /\ row.kind \in {"pre", "post"} => row.says \in Response
  BY DEF Contract
<1>6. row \in Contract /\ row.kind = "evidence.retracted" =>
        row.says \in Place \cup {Elsewhere}
  BY DEF Contract
<1> QED BY <1>1, <1>2, <1>3, <1>4, <1>5, <1>6 DEF Row

(* The loop skips exactly the rows that do not count.                      *)
LEMMA CountsWhenConsidered ==
  ASSUME NEW s \in [Place -> Row], NEW n \in Rows(s)
  PROVE  Counts(s, n) <=> /\ n \notin Targets(s)
                          /\ s[n].kind # "unreadable"
                          /\ ~IsRetraction(s, n)
BY RowKinds DEF Counts, Targets, Rows, IsRetraction

(* A finite set of numbers has a least and a greatest element: a smallest  *)
(* one of the sets that lie below, or above, a member is empty.            *)
LEMMA Extremes ==
  ASSUME NEW S \in SUBSET Nat, IsFiniteSet(S), S # {}
  PROVE  /\ Least(S) \in S /\ \A m \in S : Least(S) <= m
         /\ Greatest(S) \in S /\ \A m \in S : m <= Greatest(S)
<1> DEFINE Below(n) == {k \in S : k < n}
           Above(n) == {k \in S : n < k}
           R == StrictSubsetOrdering(S)
<1>1. IsWellFoundedOn(R, FiniteSubsetsOf(S))
  BY FS_StrictSubsetOrderingWellFounded
<1>2. \A T \in SUBSET S : T \in FiniteSubsetsOf(S)
  BY FS_Subset DEF FiniteSubsetsOf
<1>3. \E n \in S : \A m \in S : n <= m
  <2> DEFINE F == {Below(n) : n \in S}
  <2>1. F \subseteq FiniteSubsetsOf(S) /\ F # {}
    BY <1>2
  <2>2. \E x \in F : \A y \in F : ~ (<<y, x>> \in R)
    <3> HIDE DEF F, R
    <3> QED BY <1>1, <2>1, WFMin
  <2>3. PICK n \in S : \A m \in S : ~ (<<Below(m), Below(n)>> \in R)
    BY <2>2
  <2>4. ASSUME NEW m \in S, m < n PROVE FALSE
    <3>0. \A k \in S : k < m => k < n
      BY <2>4
    <3>1. Below(m) \subseteq Below(n) /\ m \in Below(n)
      BY <2>4, <3>0
    <3>2. m \notin Below(m)
      OBVIOUS
    <3>3. <<Below(m), Below(n)>> \in R
      BY <3>1, <3>2, Zenon DEF StrictSubsetOrdering
    <3> QED BY <2>3, <3>3
  <2> QED BY <2>4
<1>4. \E n \in S : \A m \in S : m <= n
  <2> DEFINE F == {Above(n) : n \in S}
  <2>1. F \subseteq FiniteSubsetsOf(S) /\ F # {}
    BY <1>2
  <2>2. \E x \in F : \A y \in F : ~ (<<y, x>> \in R)
    <3> HIDE DEF F, R
    <3> QED BY <1>1, <2>1, WFMin
  <2>3. PICK n \in S : \A m \in S : ~ (<<Above(m), Above(n)>> \in R)
    BY <2>2
  <2>4. ASSUME NEW m \in S, n < m PROVE FALSE
    <3>0. \A k \in S : m < k => n < k
      BY <2>4
    <3>1. Above(m) \subseteq Above(n) /\ m \in Above(n)
      BY <2>4, <3>0
    <3>2. m \notin Above(m)
      OBVIOUS
    <3>3. <<Above(m), Above(n)>> \in R
      BY <3>1, <3>2, Zenon DEF StrictSubsetOrdering
    <3> QED BY <2>3, <3>3
  <2> QED BY <2>4
<1> QED BY <1>3, <1>4 DEF Least, Greatest

-----------------------------------------------------------------------------
(* One pass of the loop.                                                   *)

(* Appending keeps the type of a sequence.                                 *)
LEMMA AppendType ==
  ASSUME NEW T, NEW q \in Seq(T), NEW e \in T
  PROVE  Append(q, e) \in Seq(T)
OBVIOUS

(* Considering a row of the contract keeps the types of the locals.        *)
LEMMA ConsiderType ==
  ASSUME NEW a \in Fold, NEW row \in Contract, row.kind # "evidence.retracted"
  PROVE  Consider(a, row) \in Fold
<1>1. row \in Row
  BY DEF Row
<1>2. /\ a.steps \in SUBSET Step /\ a.experiments \in Seq(Experiment)
      /\ a.pre \in Response \cup {None} /\ a.post \in Response \cup {None}
      /\ a.completed \in BOOLEAN /\ a.unreadable \in Nat
      /\ a.considered \in Nat
  BY DEF Fold
<1>3. row.kind = "experiment.performed" =>
        Performed(a.experiments, row.says) \in Seq(Experiment)
  <2> SUFFICES ASSUME row.kind = "experiment.performed"
               PROVE  Append(a.experiments, row.says) \in Seq(Experiment)
    BY <1>2 DEF Performed
  <2>1. row.says \in Experiment
    BY <1>1, RowKinds
  <2> QED BY <1>2, <2>1, AppendType
<1>4. a.considered + 1 \in Nat
  BY <1>2
<1>5. row.kind = "step.viewed" => a.steps \cup {row.says} \in SUBSET Step
  BY <1>1, <1>2, RowKinds
<1>6. row.kind \in {"pre", "post"} => row.says \in Response
  BY <1>1, RowKinds
<1> QED
  BY <1>2, <1>3, <1>4, <1>5, <1>6 DEF Consider, Fold

(* So does the whole body of the loop.                                     *)
LEMMA FoldedType ==
  ASSUME NEW a \in Fold, NEW s \in [Place -> Row], NEW n \in Rows(s)
  PROVE  Folded(a, s, n) \in Fold
<1>1. CASE s[n].kind = "unreadable"
  BY <1>1 DEF Folded, Fold
<1>2. CASE s[n].kind # "unreadable" /\ ~IsRetraction(s, n)
  <2>1. s[n] \in Contract /\ s[n].kind # "evidence.retracted"
    BY <1>2, RowKinds DEF Row, Rows, IsRetraction
  <2> QED BY <2>1, <1>2, ConsiderType DEF Folded
<1>3. CASE IsRetraction(s, n)
  BY <1>3 DEF Folded, IsRetraction
<1> QED BY <1>1, <1>2, <1>3

(* A field that holds the newest answer still does when the next row has   *)
(* been considered.                                                        *)
LEMMA NewestStep ==
  ASSUME NEW s \in [Place -> Row], NEW S \in SUBSET Rows(s), NEW n \in Rows(s),
         \A m \in S : m < n, NEW kind \in {"pre", "post"},
         NEW old, Newest(old, s, S, kind),
         NEW new, new = IF CountsAs(s, n, kind) THEN s[n].says ELSE old
  PROVE  Newest(new, s, S \cup {n}, kind)
<1>1. CASE CountsAs(s, n, kind)
  <2>1. s[n].says # None
    BY <1>1, RowKinds, ReplayAssumption DEF CountsAs, Rows
  <2>2. \A m \in S \cup {n} : m <= n
    BY DEF Rows, Place
  <2> QED BY <1>1, <2>1, <2>2 DEF Newest
<1>2. CASE ~CountsAs(s, n, kind)
  BY <1>2 DEF Newest
<1> QED BY <1>1, <1>2

(* So does the list of experiments, in the order of their first run.       *)
LEMMA OrderStep ==
  ASSUME NEW s \in [Place -> Row], NEW S \in SUBSET Rows(s), NEW n \in Rows(s),
         \A m \in S : m < n,
         NEW ids \in Seq(Experiment), InOrderPerformed(ids, s, S),
         NEW new, new = IF CountsAs(s, n, "experiment.performed")
                          THEN Performed(ids, s[n].says) ELSE ids
  PROVE  InOrderPerformed(new, s, S \cup {n})
<1> DEFINE Of(T, id) == {m \in T : /\ CountsAs(s, m, "experiment.performed")
                                   /\ s[m].says = id}
           T == S \cup {n}
<1>1. /\ \A id \in Experiment :
           Of(S, id) # {} <=> \E i \in DOMAIN ids : ids[i] = id
      /\ \A i, j \in DOMAIN ids : i < j =>
           \E k \in Of(S, ids[i]) : \A m \in Of(S, ids[j]) : k < m
  BY DEF InOrderPerformed
<1>2. SUFFICES
      /\ \A id \in Experiment :
           Of(T, id) # {} <=> \E i \in DOMAIN new : new[i] = id
      /\ \A i, j \in DOMAIN new : i < j =>
           \E k \in Of(T, new[i]) : \A m \in Of(T, new[j]) : k < m
  BY DEF InOrderPerformed
<1>3. CASE ~CountsAs(s, n, "experiment.performed")
  <2>1. \A id : Of(T, id) = Of(S, id)
    BY <1>3
  <2> QED BY <1>1, <1>3, <2>1
<1>4. CASE CountsAs(s, n, "experiment.performed")
  <2> DEFINE x == s[n].says
  <2>1. x \in Experiment
    BY <1>4, RowKinds DEF CountsAs, Rows
  <2>2. \A id : Of(T, id) = IF id = x THEN Of(S, id) \cup {n} ELSE Of(S, id)
    BY <1>4
  <2>3. \A id : \A k \in Of(S, id) : k < n
    OBVIOUS
  <2> HIDE DEF Of, T, x
  <2>4. CASE \E i \in DOMAIN ids : ids[i] = x
    <3>1. new = ids
      BY <1>4, <2>4 DEF Performed, x
    <3>2. \A i, j \in DOMAIN ids : i < j =>
            \E k \in Of(T, ids[i]) : \A m \in Of(T, ids[j]) : k < m
      <4> SUFFICES ASSUME NEW i \in DOMAIN ids, NEW j \in DOMAIN ids, i < j
                   PROVE  \E k \in Of(T, ids[i]) : \A m \in Of(T, ids[j]) : k < m
        OBVIOUS
      <4>1. PICK k \in Of(S, ids[i]) : \A m \in Of(S, ids[j]) : k < m
        BY <1>1
      <4>2. k \in Of(T, ids[i]) /\ k < n
        BY <2>2, <2>3
      <4> QED BY <4>1, <4>2, <2>2
    <3>3. \A id \in Experiment :
            Of(T, id) # {} <=> \E i \in DOMAIN ids : ids[i] = id
      BY <1>1, <2>1, <2>2, <2>4
    <3> QED BY <3>1, <3>2, <3>3
  <2>5. CASE ~\E i \in DOMAIN ids : ids[i] = x
    <3>1. new = Append(ids, x)
      BY <1>4, <2>5 DEF Performed, x
    <3>2. /\ DOMAIN ids = 1..Len(ids) /\ Len(ids) \in Nat
          /\ DOMAIN new = 1..(Len(ids) + 1)
          /\ \A i \in DOMAIN ids : new[i] = ids[i]
          /\ new[Len(ids) + 1] = x
      BY <2>1, <3>1
    <3>3. Of(S, x) = {}
      BY <1>1, <2>1, <2>5
    <3>4. Of(T, x) = {n}
      BY <2>2, <3>3
    <3>5. \A id : id # x => Of(T, id) = Of(S, id)
      BY <2>2
    <3>6. \A i \in DOMAIN ids : ids[i] # x /\ ids[i] \in Experiment
      BY <2>5, <3>2
    <3>7. \A id \in Experiment :
            Of(T, id) # {} <=> \E i \in DOMAIN new : new[i] = id
      <4> SUFFICES ASSUME NEW id \in Experiment
                   PROVE  Of(T, id) # {} <=> \E i \in DOMAIN new : new[i] = id
        OBVIOUS
      <4>1. CASE id = x
        <5>1. Len(ids) + 1 \in DOMAIN new
          BY <3>2
        <5> QED BY <4>1, <3>2, <3>4, <5>1
      <4>2. CASE id # x
        <5>1. (\E i \in DOMAIN new : new[i] = id)
                <=> \E i \in DOMAIN ids : ids[i] = id
          BY <3>2, <4>2
        <5> QED BY <1>1, <4>2, <3>5, <5>1
      <4> QED BY <4>1, <4>2
    <3>8. \A i, j \in DOMAIN new : i < j =>
            \E k \in Of(T, new[i]) : \A m \in Of(T, new[j]) : k < m
      <4> SUFFICES ASSUME NEW i \in DOMAIN new, NEW j \in DOMAIN new, i < j
                   PROVE  \E k \in Of(T, new[i]) : \A m \in Of(T, new[j]) : k < m
        OBVIOUS
      <4>1. i \in DOMAIN ids
        BY <3>2
      <4>2. new[i] = ids[i] /\ Of(T, new[i]) = Of(S, ids[i])
        BY <4>1, <3>2, <3>5, <3>6
      <4>3. CASE j \in DOMAIN ids
        <5>1. new[j] = ids[j] /\ Of(T, new[j]) = Of(S, ids[j])
          BY <4>3, <3>2, <3>5, <3>6
        <5> QED BY <1>1, <4>1, <4>2, <4>3, <5>1
      <4>4. CASE j = Len(ids) + 1
        <5>1. new[j] = x /\ Of(T, new[j]) = {n}
          BY <4>4, <3>2, <3>4
        <5>2. PICK k \in Of(S, ids[i]) : TRUE
          BY <1>1, <4>1, <3>6
        <5> QED BY <4>2, <5>1, <5>2, <2>3
      <4> QED BY <3>2, <4>3, <4>4
    <3> QED BY <3>7, <3>8
  <2> QED BY <2>4, <2>5
<1> QED BY <1>3, <1>4

(* The loop's books: how many rows it considered, how many it could not    *)
(* read.                                                                   *)
Unread(s, n) == s[n].kind = "unreadable" /\ n \notin Targets(s)

Booked(a, s, S) ==
  /\ a.considered = Cardinality({n \in S : Counts(s, n)})
  /\ a.unreadable = Cardinality({n \in S : Unread(s, n)})

(* What the body of the loop does to each local variable.                  *)
Passes(a, b, s, n) ==
  /\ b.steps = IF CountsAs(s, n, "step.viewed")
                 THEN a.steps \cup {s[n].says} ELSE a.steps
  /\ b.experiments = IF CountsAs(s, n, "experiment.performed")
                       THEN Performed(a.experiments, s[n].says)
                       ELSE a.experiments
  /\ b.pre = IF CountsAs(s, n, "pre") THEN s[n].says ELSE a.pre
  /\ b.post = IF CountsAs(s, n, "post") THEN s[n].says ELSE a.post
  /\ b.completed <=> a.completed \/ CountsAs(s, n, "lesson.completed")
  /\ b.unreadable = IF Unread(s, n) THEN a.unreadable + 1 ELSE a.unreadable
  /\ b.considered = IF Counts(s, n) THEN a.considered + 1 ELSE a.considered

(* It is what Folded does.                                                 *)
LEMMA FoldedPasses ==
  ASSUME NEW a \in Fold, NEW s \in [Place -> Row], NEW n \in Rows(s),
         NEW b, b = Folded(a, s, n)
  PROVE  Passes(a, b, s, n)
<1>1. CASE Counts(s, n)
  <2>1. b = Consider(a, s[n])
    BY <1>1, CountsWhenConsidered DEF Folded
  <2>2. ~Unread(s, n)
    BY <1>1, CountsWhenConsidered DEF Unread
  <2>3. b.completed = IF s[n].kind = "lesson.completed" THEN TRUE ELSE a.completed
    BY <2>1 DEF Consider
  <2>4. /\ b.steps = IF s[n].kind = "step.viewed"
                       THEN a.steps \cup {s[n].says} ELSE a.steps
        /\ b.experiments = IF s[n].kind = "experiment.performed"
                             THEN Performed(a.experiments, s[n].says)
                             ELSE a.experiments
        /\ b.pre = IF s[n].kind = "pre" THEN s[n].says ELSE a.pre
        /\ b.post = IF s[n].kind = "post" THEN s[n].says ELSE a.post
        /\ b.unreadable = a.unreadable
        /\ b.considered = a.considered + 1
    BY <2>1 DEF Consider
  <2> QED BY <1>1, <2>2, <2>3, <2>4 DEF Passes, CountsAs
<1>2. CASE Unread(s, n)
  <2>1. b = [a EXCEPT !.unreadable = a.unreadable + 1]
    BY <1>2 DEF Folded, Unread
  <2>2. ~Counts(s, n)
    BY <1>2, CountsWhenConsidered DEF Unread
  <2>3. /\ b.steps = a.steps /\ b.experiments = a.experiments
        /\ b.pre = a.pre /\ b.post = a.post /\ b.completed = a.completed
        /\ b.unreadable = a.unreadable + 1 /\ b.considered = a.considered
    BY <2>1 DEF Fold
  <2> QED BY <1>2, <2>2, <2>3 DEF Passes, CountsAs
<1>3. CASE ~Counts(s, n) /\ ~Unread(s, n)
  <2>1. b = a
    BY <1>3, CountsWhenConsidered DEF Folded, Unread
  <2> QED BY <1>3, <2>1 DEF Passes, CountsAs
<1> QED BY <1>1, <1>2, <1>3

(* One pass keeps the loop faithful.                                       *)
LEMMA FoldedFaithful ==
  ASSUME NEW a \in Fold, NEW s \in [Place -> Row],
         NEW S \in SUBSET Rows(s), NEW n \in Rows(s), \A m \in S : m < n,
         Faithful(a, s, S), NEW b, Passes(a, b, s, n)
  PROVE  Faithful(b, s, S \cup {n})
<1> DEFINE Says(T) == {s[m].says : m \in {k \in T : CountsAs(s, k, "step.viewed")}}
<1>1. b.steps = Says(S \cup {n})
  <2>1. a.steps = Says(S)
    BY DEF Faithful
  <2>2. Says(S \cup {n}) = IF CountsAs(s, n, "step.viewed")
                              THEN Says(S) \cup {s[n].says} ELSE Says(S)
    OBVIOUS
  <2> QED BY <2>1, <2>2 DEF Passes
<1>2. InOrderPerformed(b.experiments, s, S \cup {n})
  <2>1. a.experiments \in Seq(Experiment) /\ InOrderPerformed(a.experiments, s, S)
    BY DEF Faithful, Fold
  <2> QED BY <2>1, OrderStep DEF Passes
<1>3. Newest(b.pre, s, S \cup {n}, "pre")
  <2>1. Newest(a.pre, s, S, "pre")
    BY DEF Faithful
  <2> QED BY <2>1, NewestStep DEF Passes
<1>4. Newest(b.post, s, S \cup {n}, "post")
  <2>1. Newest(a.post, s, S, "post")
    BY DEF Faithful
  <2> QED BY <2>1, NewestStep DEF Passes
<1>5. b.completed <=> \E m \in S \cup {n} : CountsAs(s, m, "lesson.completed")
  <2>1. a.completed <=> \E m \in S : CountsAs(s, m, "lesson.completed")
    BY DEF Faithful
  <2> QED BY <2>1 DEF Passes
<1> QED BY <1>1, <1>2, <1>3, <1>4, <1>5 DEF Faithful

(* And it keeps the books right.                                           *)
LEMMA FoldedBooked ==
  ASSUME NEW a \in Fold, NEW s \in [Place -> Row],
         NEW S \in SUBSET Rows(s), NEW n \in Rows(s) \ S, IsFiniteSet(S),
         Booked(a, s, S), NEW b, Passes(a, b, s, n)
  PROVE  Booked(b, s, S \cup {n})
<1> DEFINE C(T) == {m \in T : Counts(s, m)}
           U(T) == {m \in T : Unread(s, m)}
<1>1. /\ a.considered = Cardinality(C(S)) /\ a.unreadable = Cardinality(U(S))
      /\ IsFiniteSet(C(S)) /\ IsFiniteSet(U(S)) /\ n \notin C(S) /\ n \notin U(S)
  <2>1. C(S) \subseteq S /\ U(S) \subseteq S
    OBVIOUS
  <2>2. IsFiniteSet(C(S)) /\ IsFiniteSet(U(S))
    BY <2>1, FS_Subset
  <2> QED BY <2>2 DEF Booked
<1>2. /\ C(S \cup {n}) = IF Counts(s, n) THEN C(S) \cup {n} ELSE C(S)
      /\ U(S \cup {n}) = IF Unread(s, n) THEN U(S) \cup {n} ELSE U(S)
  OBVIOUS
<1>3. /\ Cardinality(C(S) \cup {n}) = Cardinality(C(S)) + 1
      /\ Cardinality(U(S) \cup {n}) = Cardinality(U(S)) + 1
  <2> HIDE DEF C, U
  <2> QED BY <1>1, FS_AddElement
<1>4. /\ b.considered = Cardinality(C(S \cup {n}))
      /\ b.unreadable = Cardinality(U(S \cup {n}))
  <2> HIDE DEF C, U
  <2> QED BY <1>1, <1>2, <1>3 DEF Passes
<1> QED BY <1>4 DEF Booked

-----------------------------------------------------------------------------
(* The inductive invariant.                                                *)

(* What the loop has computed is right for the rows it has passed, and it  *)
(* passes them in order.                                                   *)
LoopInv ==
  phase = "replay" =>
    /\ todo \subseteq Rows(stream)
    /\ \A n \in Rows(stream) \ todo, m \in todo : n < m
    /\ Faithful(acc, stream, Rows(stream) \ todo)
    /\ Booked(acc, stream, Rows(stream) \ todo)

ViewIsBooked == Booked(view.fold, seen, Rows(seen))

(* What a replay has read is still recorded: nothing rewrites a row.       *)
SnapshotInv ==
  /\ \A n \in Rows(seen) : record[n] = seen[n]
  /\ phase = "replay" => /\ \A n \in Rows(stream) : record[n] = stream[n]
                         /\ \A n \in Rows(seen) : stream[n] = seen[n]

ReplayInv == TypeOK /\ LoopInv /\ ViewIsFaithful /\ ViewIsBooked /\ SnapshotInv

(* Sets of sequence values, of step indexes and of retraction targets are  *)
(* finite.                                                                 *)
LEMMA PlacesAreFinite ==
  ASSUME NEW S \in SUBSET Place
  PROVE  S \in SUBSET Nat /\ IsFiniteSet(S)
<1>1. Place \in SUBSET Nat /\ IsFiniteSet(Place)
  BY ReplayAssumption, FS_Interval DEF Place
<1> QED BY <1>1, FS_Subset

(* Step indexes.                                                           *)
LEMMA StepsAreFinite ==
  ASSUME NEW S \in SUBSET Step
  PROVE  S \in SUBSET Nat /\ IsFiniteSet(S)
<1>1. Step \in SUBSET Nat /\ IsFiniteSet(Step)
  BY ReplayAssumption, FS_Interval DEF Step
<1> QED BY <1>1, FS_Subset

(* Targets.                                                                *)
LEMMA TargetsAreFinite ==
  ASSUME NEW s \in [Place -> Row]
  PROVE  IsFiniteSet(Targets(s))
<1>1. Targets(s) \subseteq Place \cup {Elsewhere}
  <2> SUFFICES ASSUME NEW n \in Rows(s), IsRetraction(s, n)
               PROVE  s[n].says \in Place \cup {Elsewhere}
    BY DEF Targets
  <2>1. s[n] \in Row
    BY DEF Rows
  <2> QED BY <2>1, RowKinds DEF IsRetraction
<1>2. IsFiniteSet(Place \cup {Elsewhere})
  BY PlacesAreFinite, FS_AddElement
<1> QED BY <1>1, <1>2, FS_Subset

(* What the loop computed makes a view.                                    *)
LEMMA ProjectedType ==
  ASSUME NEW a \in Fold, NEW s \in [Place -> Row]
  PROVE  Projected(a, s) \in View
<1>1. Cardinality(Targets(s)) \in Nat
  BY TargetsAreFinite, FS_CardinalityType
<1>2. Rows(s) # {} => Greatest(Rows(s)) \in Place
  <2>1. Rows(s) \in SUBSET Place
    BY DEF Rows
  <2> QED BY <2>1, PlacesAreFinite, Extremes
<1>3. a.steps # {} => Greatest(a.steps) \in Step
  <2>1. a.steps \in SUBSET Step
    BY DEF Fold
  <2> QED BY <2>1, StepsAreFinite, Extremes
<1>4. Assessed(a.post) \in [score : Nat, mastered : BOOLEAN] \cup {None}
  <2>1. CASE a.post = None
    BY <2>1 DEF Assessed
  <2>2. CASE a.post # None
    <3>1. a.post \in Response
      BY <2>2 DEF Fold
    <3>2. Cardinality(Matched[a.post]) \in Nat
      BY <3>1, ReplayAssumption, FS_CardinalityType
    <3>3. (Cardinality(Matched[a.post]) >= Threshold) \in BOOLEAN
      OBVIOUS
    <3> HIDE DEF Fold
    <3> QED BY <2>2, <3>2, <3>3, Zenon DEF Assessed
  <2> QED BY <2>1, <2>2
<1> QED BY <1>1, <1>2, <1>3, <1>4 DEF Projected, View

(* Before the first pass nothing has been folded.                          *)
LEMMA StartOfLoop ==
  ASSUME NEW s
  PROVE  EmptyFold \in Fold /\ Faithful(EmptyFold, s, {}) /\ Booked(EmptyFold, s, {})
<1>1. EmptyFold \in Fold
  BY DEF EmptyFold, Fold
<1>2. Faithful(EmptyFold, s, {})
  BY DEF EmptyFold, Faithful, InOrderPerformed, Newest
<1>3. Booked(EmptyFold, s, {})
  BY FS_EmptySet DEF EmptyFold, Booked
<1> QED BY <1>1, <1>2, <1>3

(* No row is read before the first replay.                                 *)
LEMMA EmptyStreamRows ==
  EmptyStream \in [Place -> Row] /\ Rows(EmptyStream) = {}
BY DEF EmptyStream, Row, Rows

(* The invariant holds at the start ...                                    *)
LEMMA InvInit == Init => ReplayInv
<1> SUFFICES ASSUME Init PROVE ReplayInv
  OBVIOUS
<1>1. record \in [Place -> Row]
  BY DEF Init, Row
<1>2. TypeOK
  BY <1>1, EmptyStreamRows, StartOfLoop, ProjectedType DEF Init, TypeOK
<1>3. view.fold = EmptyFold /\ view.mastery = Assessed(view.fold.post)
  BY DEF Init, Projected
<1>4. ViewIsFaithful /\ ViewIsBooked
  BY <1>3, EmptyStreamRows, StartOfLoop DEF Init, ViewIsFaithful, ViewIsBooked
<1> QED BY <1>2, <1>4, EmptyStreamRows DEF Init, ReplayInv, LoopInv, SnapshotInv

(* ... and every step keeps it.                                            *)
LEMMA InvNext == ReplayInv /\ [Next]_vars => ReplayInv'
<1> SUFFICES ASSUME ReplayInv, [Next]_vars PROVE ReplayInv'
  OBVIOUS
<1> USE DEF ReplayInv
<1>1. CASE Write
  <2>1. PICK n \in Place, row \in Contract :
          /\ record[n] = NoRow
          /\ record' = [record EXCEPT ![n] = row]
    BY <1>1 DEF Write
  <2>2. UNCHANGED <<phase, stream, todo, acc, seen, view>>
    BY <1>1 DEF Write
  <2>3. TypeOK'
    BY <2>1, <2>2 DEF TypeOK, Row
  <2>4. SnapshotInv'
    BY <2>1, <2>2 DEF SnapshotInv, Rows, TypeOK
  <2>5. LoopInv' /\ ViewIsFaithful' /\ ViewIsBooked'
    BY <2>2 DEF LoopInv, ViewIsFaithful, ViewIsBooked
  <2> QED BY <2>3, <2>4, <2>5
<1>2. CASE Read
  <2>1. /\ stream' = record /\ todo' = Rows(record) /\ acc' = EmptyFold
        /\ phase' = "replay" /\ UNCHANGED <<record, seen, view>>
    BY <1>2 DEF Read, ReadAll
  <2>2. TypeOK'
    BY <2>1, StartOfLoop DEF TypeOK, Rows
  <2>3. Rows(stream') \ todo' = {}
    BY <2>1
  <2>4. LoopInv'
    BY <2>1, <2>3, StartOfLoop DEF LoopInv
  <2>5. SnapshotInv'
    BY <2>1 DEF SnapshotInv, TypeOK
  <2>6. ViewIsFaithful' /\ ViewIsBooked'
    BY <2>1 DEF ViewIsFaithful, ViewIsBooked
  <2> QED BY <2>2, <2>4, <2>5, <2>6
<1>3. CASE Loop
  <2> DEFINE n == Least(todo)
             done == Rows(stream) \ todo
  <2>1. /\ phase = "replay" /\ todo # {} /\ acc' = Folded(acc, stream, n)
        /\ todo' = todo \ {n} /\ UNCHANGED <<record, phase, stream, seen, view>>
    BY <1>3 DEF Loop
  <2>2. /\ todo \subseteq Rows(stream) /\ stream \in [Place -> Row] /\ acc \in Fold
        /\ \A k \in done, m \in todo : k < m
        /\ Faithful(acc, stream, done) /\ Booked(acc, stream, done)
    BY <2>1 DEF LoopInv, TypeOK
  <2>3. n \in todo /\ \A m \in todo : n <= m
    BY <2>1, PlacesAreFinite, Extremes DEF TypeOK
  <2>4. todo \in SUBSET Nat /\ IsFiniteSet(done)
    BY <2>2, PlacesAreFinite DEF TypeOK, Rows
  <2> HIDE DEF n
  <2>5. n \in Rows(stream) \ done /\ \A k \in done : k < n
    BY <2>2, <2>3
  <2>6. Passes(acc, acc', stream, n)
    BY <2>1, <2>2, <2>5, FoldedPasses
  <2>7. Rows(stream) \ todo' = done \cup {n}
    BY <2>1, <2>2, <2>3
  <2>8. Faithful(acc', stream, done \cup {n})
    BY <2>2, <2>5, <2>6, FoldedFaithful
  <2>9. Booked(acc', stream, done \cup {n})
    BY <2>2, <2>4, <2>5, <2>6, FoldedBooked
  <2>10. \A k \in done \cup {n}, m \in todo' : k < m
    BY <2>1, <2>2, <2>3, <2>4
  <2>11. LoopInv'
    BY <2>1, <2>2, <2>7, <2>8, <2>9, <2>10 DEF LoopInv
  <2>12. acc' \in Fold
    BY <2>1, <2>2, <2>5, FoldedType
  <2>13. TypeOK'
    BY <2>1, <2>12 DEF TypeOK
  <2>14. ViewIsFaithful' /\ ViewIsBooked' /\ SnapshotInv'
    BY <2>1 DEF ViewIsFaithful, ViewIsBooked, SnapshotInv
  <2> QED BY <2>11, <2>13, <2>14
<1>4. CASE Return
  <2>1. /\ phase = "replay" /\ todo = {} /\ phase' = "idle" /\ seen' = stream
        /\ view' = Projected(acc, stream) /\ stream' = EmptyStream
        /\ acc' = EmptyFold /\ UNCHANGED <<record, todo>>
    BY <1>4 DEF Return
  <2>2. TypeOK'
    BY <2>1, EmptyStreamRows, StartOfLoop, ProjectedType DEF TypeOK
  <2>3. view'.fold = acc /\ view'.mastery = Assessed(acc.post)
    BY <2>1 DEF Projected
  <2>4. Rows(stream) \ todo = Rows(stream)
    BY <2>1
  <2>5. Faithful(acc, stream, Rows(stream)) /\ Booked(acc, stream, Rows(stream))
    BY <2>1, <2>4 DEF LoopInv
  <2>6. ViewIsFaithful'
    BY <2>1, <2>3, <2>5 DEF ViewIsFaithful
  <2>7. ViewIsBooked'
    BY <2>1, <2>3, <2>5 DEF ViewIsBooked
  <2>8. LoopInv' /\ SnapshotInv'
    BY <2>1 DEF LoopInv, SnapshotInv
  <2> QED BY <2>2, <2>6, <2>7, <2>8
<1>5. CASE UNCHANGED vars
  BY <1>5 DEF vars, TypeOK, LoopInv, ViewIsFaithful, ViewIsBooked, SnapshotInv
<1> QED BY <1>1, <1>2, <1>3, <1>4, <1>5 DEF Next

(* The loop never leaves its invariant.                                    *)
THEOREM ReplayInvIsInvariant == Spec => []ReplayInv
BY InvInit, InvNext, PTL DEF Spec

(* Rows, local variables and views keep their types.                       *)
THEOREM ReplayTypeCorrect == Spec => []TypeOK
<1>1. ReplayInv => TypeOK
  BY DEF ReplayInv
<1> QED BY <1>1, ReplayInvIsInvariant, PTL

(* domain/progress.py:92-153: whatever was written, retracted, or left     *)
(* unreadable, in whatever order, the loop returns the view the counted    *)
(* rows define.                                                            *)
THEOREM ViewIsFaithfulHolds == Spec => []ViewIsFaithful
<1>1. ReplayInv => ViewIsFaithful
  BY DEF ReplayInv
<1> QED BY <1>1, ReplayInvIsInvariant, PTL

(* The size of a union of two sets with nothing in common.                 *)
LEMMA DisjointUnion ==
  ASSUME NEW S, IsFiniteSet(S), NEW T, IsFiniteSet(T), S \cap T = {}
  PROVE  /\ IsFiniteSet(S \cup T)
         /\ Cardinality(S \cup T) = Cardinality(S) + Cardinality(T)
<1>1. /\ IsFiniteSet(S \cup T)
      /\ Cardinality(S \cup T)
           = Cardinality(S) + Cardinality(T) - Cardinality(S \cap T)
  BY FS_Union
<1>2. Cardinality(S \cap T) = 0
  BY FS_EmptySet
<1>3. Cardinality(S) \in Nat /\ Cardinality(T) \in Nat
  BY FS_CardinalityType
<1> QED BY <1>1, <1>2, <1>3

(* domain/progress.py:109-119: no row is counted twice or not at all.       *)
THEOREM EveryRowAccountedForHolds == Spec => []EveryRowAccountedFor
<1>1. ReplayInv => EveryRowAccountedFor
  <2> SUFFICES ASSUME ReplayInv PROVE EveryRowAccountedFor
    OBVIOUS
  <2> DEFINE R == Rows(seen)
             C == {n \in R : Counts(seen, n)}
             U == {n \in R : Unread(seen, n)}
             T == R \cap Targets(seen)
             X == {n \in R \ Targets(seen) : IsRetraction(seen, n)}
  <2>1. seen \in [Place -> Row] /\ R \in SUBSET Place
    BY DEF ReplayInv, TypeOK, Rows
  <2>2. \A n \in R : Counts(seen, n) <=> /\ n \notin Targets(seen)
                                         /\ seen[n].kind # "unreadable"
                                         /\ ~IsRetraction(seen, n)
    BY <2>1, CountsWhenConsidered
  <2>3. /\ R = (C \cup U) \cup (T \cup X) /\ (C \cup U) \cap (T \cup X) = {}
        /\ C \cap U = {} /\ T \cap X = {}
    BY <2>2 DEF Unread, IsRetraction
  <2>4. IsFiniteSet(C) /\ IsFiniteSet(U) /\ IsFiniteSet(T) /\ IsFiniteSet(X)
    <3>1. IsFiniteSet(R)
      BY <2>1, PlacesAreFinite
    <3>2. C \subseteq R /\ U \subseteq R /\ T \subseteq R /\ X \subseteq R
      OBVIOUS
    <3> QED BY <3>1, <3>2, FS_Subset
  <2>5. /\ view.fold.considered = Cardinality(C)
        /\ view.fold.unreadable = Cardinality(U)
    BY DEF ReplayInv, ViewIsBooked, Booked
  <2>6. Cardinality(R) = Cardinality(C) + Cardinality(U)
                           + Cardinality(T) + Cardinality(X)
    <3> HIDE DEF R, C, U, T, X
    <3>1. /\ Cardinality(C \cup U) = Cardinality(C) + Cardinality(U)
          /\ Cardinality(T \cup X) = Cardinality(T) + Cardinality(X)
          /\ IsFiniteSet(C \cup U) /\ IsFiniteSet(T \cup X)
      BY <2>3, <2>4, DisjointUnion
    <3>2. Cardinality(R) = Cardinality(C \cup U) + Cardinality(T \cup X)
      BY <2>3, <3>1, DisjointUnion
    <3> QED BY <2>4, <3>1, <3>2, FS_CardinalityType
  <2> QED BY <2>5, <2>6 DEF EveryRowAccountedFor
<1> QED BY <1>1, ReplayInvIsInvariant, PTL

(* What counted in one snapshot counts in a later one unless a new         *)
(* retraction names it.                                                    *)
LEMMA CountsPersists ==
  ASSUME NEW s, NEW t, \A n \in Rows(s) : t[n] = s[n],
         Targets(t) \subseteq Targets(s),
         NEW n, Counts(s, n)
  PROVE  Counts(t, n) /\ t[n] = s[n]
<1>1. n \in Rows(s) /\ t[n] = s[n] /\ n \in Rows(t)
  BY DEF Counts, Rows
<1>2. n \notin Targets(s)
  BY DEF Counts, Targets
<1> QED BY <1>1, <1>2 DEF Counts, Targets, IsRetraction

(* domain/progress.py:92 and ADR-0007: a later view gives up nothing that  *)
(* an earlier one held unless a retraction was recorded in between.        *)
THEOREM OnlyRetractionsTakeBackHolds == Spec => OnlyRetractionsTakeBack
<1> DEFINE Keeps ==
      Targets(seen') \subseteq Targets(seen) =>
       /\ view.fold.steps \subseteq view'.fold.steps
       /\ \A i \in DOMAIN view.fold.experiments :
            \E j \in DOMAIN view'.fold.experiments :
              view'.fold.experiments[j] = view.fold.experiments[i]
       /\ view.fold.pre # None => view'.fold.pre # None
       /\ view.fold.post # None => view'.fold.post # None
       /\ view.fold.completed => view'.fold.completed
<1>1. ReplayInv /\ ReplayInv' /\ [Next]_vars => [Keeps]_vars
  <2> SUFFICES ASSUME ReplayInv, ReplayInv', [Next]_vars,
                      Targets(seen') \subseteq Targets(seen)
               PROVE  Keeps \/ UNCHANGED vars
    OBVIOUS
  <2>1. CASE view' = view
    BY <2>1
  <2>2. CASE Return
    <3> DEFINE a == view.fold
               b == view'.fold
    <3>1. \A n \in Rows(seen) : seen'[n] = seen[n]
      BY <2>2 DEF Return, ReplayInv, SnapshotInv
    <3>2. \A n : Counts(seen, n) => Counts(seen', n) /\ seen'[n] = seen[n]
      BY <3>1, CountsPersists
    <3>3. \A n, kind : CountsAs(seen, n, kind) =>
                         CountsAs(seen', n, kind) /\ seen'[n] = seen[n]
      BY <3>2 DEF CountsAs
    <3>4. \A n : Counts(seen, n) => n \in Rows(seen) /\ n \in Rows(seen')
      BY <3>2 DEF Counts
    <3>5. /\ Faithful(a, seen, Rows(seen)) /\ Faithful(b, seen', Rows(seen'))
          /\ a \in Fold /\ b \in Fold
      BY DEF ReplayInv, ViewIsFaithful, TypeOK, View
    <3> HIDE DEF a, b
    <3>6. a.steps \subseteq b.steps
      BY <3>3, <3>4, <3>5 DEF Faithful, CountsAs
    <3>7. \A i \in DOMAIN a.experiments :
            \E j \in DOMAIN b.experiments : b.experiments[j] = a.experiments[i]
      <4> SUFFICES ASSUME NEW i \in DOMAIN a.experiments
                   PROVE  \E j \in DOMAIN b.experiments :
                            b.experiments[j] = a.experiments[i]
        OBVIOUS
      <4> DEFINE id == a.experiments[i]
      <4>1. id \in Experiment
        BY <3>5 DEF Fold
      <4>2. PICK n \in Rows(seen) : /\ CountsAs(seen, n, "experiment.performed")
                                    /\ seen[n].says = id
        BY <3>5, <4>1 DEF Faithful, InOrderPerformed
      <4>3. /\ n \in Rows(seen') /\ CountsAs(seen', n, "experiment.performed")
            /\ seen'[n].says = id
        BY <3>3, <3>4, <4>2 DEF CountsAs
      <4> HIDE DEF id
      <4>4. \E j \in DOMAIN b.experiments : b.experiments[j] = id
        <5>1. InOrderPerformed(b.experiments, seen', Rows(seen'))
          BY <3>5 DEF Faithful
        <5> QED BY <5>1, <4>1, <4>3 DEF InOrderPerformed
      <4> QED BY <4>4 DEF id
    <3>8. a.pre # None => b.pre # None
      BY <3>3, <3>4, <3>5 DEF Faithful, Newest, CountsAs
    <3>9. a.post # None => b.post # None
      BY <3>3, <3>4, <3>5 DEF Faithful, Newest, CountsAs
    <3>10. a.completed => b.completed
      BY <3>3, <3>4, <3>5 DEF Faithful, CountsAs
    <3> QED BY <3>6, <3>7, <3>8, <3>9, <3>10 DEF a, b
  <2> QED BY <2>1, <2>2 DEF Next, Write, Read, Loop, vars
<1> QED BY <1>1, ReplayInvIsInvariant, PTL DEF Spec, OnlyRetractionsTakeBack

=============================================================================
