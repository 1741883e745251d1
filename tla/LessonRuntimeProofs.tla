------------------------ MODULE LessonRuntimeProofs ------------------------
(***************************************************************************)
(* Proofs about LessonRuntime for any number of pages, tabs, learners,     *)
(* deeds, steps and mishaps.  Every step of a browser is summarised by     *)
(* ClientStep: what it may do to each page and each request.  That the     *)
(* step keeps the shape of a page is shown action by action; what relates  *)
(* pages to the server and to each other follows from the summary.         *)
(***************************************************************************)
EXTENDS LessonRuntimeInv, FiniteSetTheorems, WellFoundedInduction, TLAPS

-----------------------------------------------------------------------------
(* A browser's step.                                                       *)

(* A request goes on, ends, or is left to the server.                      *)
Kept(c, d) ==
  \/ d \in {c, Idle}
  \/ c.ask = "append" /\ c.at = "sent" /\ d = [c EXCEPT !.at = "late"]

(* Thread k of a page in state s makes a request.                          *)
Writes(k, d, s) ==
  /\ d.ask = "append" /\ d.id = s.session /\ s.session # None
  /\ k # 0 /\ k \notin DOMAIN s.deeds

GoesOn(k, c, d, s) ==
  /\ c.at = "answered" /\ c.found /\ d.id = c.id
  /\ \/ d.ask = "progress" /\ (c.ask = "append" \/ (k = 0 /\ c.ask = "resume"))
     \/ d.ask = "append" /\ k = 0 /\ c.ask = "progress" /\ s.status = "loading"
     \/ d.ask = "resume" /\ k = 0

Boots(k, d, st) ==
  /\ k = 0
  /\ \/ d.ask = "create" /\ d.id = None
     \/ d.ask = "confirm" /\ d.id = st

Asks(k, c, d, s, st) ==
  /\ d.at = "sent"
  /\ Writes(k, d, s) \/ GoesOn(k, c, d, s) \/ Boots(k, d, st)

Grown(s, t) ==
  /\ \A i \in DOMAIN s.deeds : i \in DOMAIN t.deeds /\ t.deeds[i] = s.deeds[i]
  /\ \A i \in DOMAIN t.deeds \ DOMAIN s.deeds :
       t.deeds[i].kind = "step" => t.deeds[i].step \notin s.marked
  /\ t.status = "unopened" => s.status = "unopened"
  /\ t.status = "loading" => s.status \in {"unopened", "loading"}
  /\ s.status = "left" => t.status = "left"

Loads(p) ==
  /\ page[p].status = "loading"
  /\ Answered(p, 0, "progress") /\ calls[p][0].found
  /\ page'[p].session = calls[p][0].id
  /\ page'[p].marked = StepsViewed(calls[p][0].id, calls[p][0].seen)

PageStep(p) ==
  /\ Shape(page'[p], calls'[p])
  /\ Grown(page[p], page'[p])
  /\ \A k \in Thread :
       \/ Kept(calls[p][k], calls'[p][k])
       \/ Asks(k, calls[p][k], calls'[p][k], page[p], stored)
  /\ \/ page'[p].session = None
     \/ page'[p].session = page[p].session /\ page[p].marked \subseteq page'[p].marked
     \/ Loads(p)
  /\ page[p].status = "unopened" /\ page'[p].status # "unopened" => Mount(p)

Acknowledges(p, k) ==
  /\ IsMounted(p) /\ Answered(p, k, "append") /\ calls[p][k].found
  /\ acked' = acked \cup {<<p, k>>}

ClientStep ==
  /\ UNCHANGED <<learner, stream>>
  /\ page' \in [Page -> PageState] /\ calls' \in [Page -> [Thread -> CallState]]
  /\ \A p \in Page : PageStep(p)
  /\ \/ acked' = acked
     \/ page' = page /\ \E p \in Page, k \in Thread : Acknowledges(p, k)

-----------------------------------------------------------------------------
(* Threads, deeds and requests.                                            *)

LEMMA ThreadFacts ==
  /\ 0 \in Thread /\ Thread \subseteq Nat /\ MaxDeeds \in Nat
  /\ \A k \in Thread : k <= MaxDeeds
BY LessonAssumption DEF Thread

(* The positions of a page's deeds are threads.                            *)
LEMMA DeedThreads ==
  ASSUME NEW s \in PageState, Len(s.deeds) <= MaxDeeds
  PROVE  /\ s.deeds \in Seq(Deed) /\ Len(s.deeds) \in Nat
         /\ DOMAIN s.deeds = 1..Len(s.deeds)
         /\ \A i \in DOMAIN s.deeds : i \in Thread /\ i # 0 /\ s.deeds[i] \in Deed
<1>1. s.deeds \in Seq(Deed)
  BY DEF PageState
<1> QED BY <1>1, ThreadFacts DEF Thread

(* What a request that is sent looks like.                                 *)
LEMMA SentFacts ==
  ASSUME NEW ask \in Request, NEW l \in Learner \cup {None}
  PROVE  /\ Sent(ask, l) \in CallState
         /\ Sent(ask, l).ask = ask /\ Sent(ask, l).at = "sent" /\ Sent(ask, l).id = l
<1>1. "none" \in Request /\ "idle" \in Stage /\ "sent" \in Stage
  BY DEF Request, Stage
<1>2. Idle \in CallState
  BY <1>1 DEF Idle, CallState
<1> QED BY <1>1, <1>2 DEF Sent, CallState

LEMMA IdleFacts == Idle \in CallState /\ Idle.ask = "none" /\ Idle.at = "idle" /\ ~Waits(Idle)
<1>1. "none" \in Request /\ "idle" \in Stage
  BY DEF Request, Stage
<1> QED BY <1>1 DEF Idle, CallState, Waits

(* Where a request ends, its thread may rest.                              *)
LEMMA IdleShape ==
  ASSUME NEW k, NEW s PROVE CallShape(k, Idle, s)
BY IdleFacts DEF CallShape, Booting

(* A thread goes on, or ends, and what the page shows changes with it.     *)
LEMMA ShapeKept ==
  ASSUME NEW s, NEW cs, Shape(s, cs), NEW k \in Thread, NEW c \in CallState,
         NEW t \in PageState, t.deeds = s.deeds, t.session = s.session,
         t.marked = s.marked,
         \/ t.status = s.status
         \/ s.status \in Mounted /\ t.status = "unavailable" /\ k = 0 /\ ~Waits(c),
         t.saving = s.saving \/ (t.saving = 0 /\ s.saving = k /\ ~Waits(c)),
         t.saving = k /\ k # 0 => Waits(c),
         t.status = "loading" /\ k = 0 => Waits(c),
         Waits(c) => Waits(cs[k]),
         CallShape(k, c, t)
  PROVE  Shape(t, [cs EXCEPT ![k] = c])
<1> DEFINE ds == [cs EXCEPT ![k] = c]
<1>1. /\ ds \in [Thread -> CallState] /\ ds[k] = c
      /\ \A j \in Thread \ {k} : ds[j] = cs[j]
  BY DEF Shape
<1> HIDE DEF ds
<1>2. \A j \in Thread \ {k} : CallShape(j, ds[j], t)
  <2> SUFFICES ASSUME NEW j \in Thread \ {k} PROVE CallShape(j, ds[j], t)
    OBVIOUS
  <2>1. CallShape(j, cs[j], s) /\ ds[j] = cs[j]
    BY <1>1 DEF Shape
  <2>2. CASE t.status = s.status
    BY <2>1, <2>2 DEF CallShape
  <2>3. CASE s.status \in Mounted /\ t.status = "unavailable" /\ k = 0
    BY <2>1, <2>3 DEF CallShape, Waits, Booting, Mounted
  <2> QED BY <2>2, <2>3
<1>3. /\ PageShape(s, cs) /\ s \in PageState /\ Len(s.deeds) <= MaxDeeds
  BY DEF Shape, PageShape
<1>4. \A i \in DOMAIN s.deeds : i \in Thread /\ i # 0
  BY <1>3, DeedThreads
<1>5. \A i \in Thread : Waits(ds[i]) => Waits(cs[i])
  BY <1>1
<1>6. PageShape(t, ds)
  <2>1. s.saving \in Thread /\ t.saving \in Thread
    BY <1>3 DEF PageState
  <2>2. /\ Len(t.deeds) <= MaxDeeds
        /\ t.status \notin {"ready", "unavailable"} => t.saving = 0 /\ t.session = None
        /\ t.status \in {"unopened", "loading"} => t.deeds = <<>>
    BY <1>3 DEF PageShape
  <2>3. t.status = "loading" => Waits(ds[0])
    BY <1>1, <1>3, ThreadFacts DEF PageShape
  <2>4. t.saving # 0 => Waits(ds[t.saving])
    BY <1>1, <1>3, <2>1 DEF PageShape
  <2>5. /\ \A kind : Did(t, kind) = Did(s, kind)
        /\ \A i, j \in Did(t, "step") : i # j => t.deeds[i].step # t.deeds[j].step
        /\ t.status \in Mounted => \A i \in Did(t, "step") : t.deeds[i].step \in t.marked
    BY <1>3 DEF PageShape, Did, Mounted
  <2>6. ASSUME NEW i \in Did(t, "reflection")
        PROVE  /\ Waits(ds[i]) => t.saving = i
               /\ \A j \in Did(t, "reflection") : i < j => ~Waits(ds[i])
    <3>1. i \in Thread /\ i # 0 /\ i \in Did(s, "reflection")
      BY <1>4, <2>5, <2>6 DEF Did
    <3>2. /\ Waits(cs[i]) => s.saving = i
          /\ \A j \in Did(s, "reflection") : i < j => ~Waits(cs[i])
      BY <1>3, <3>1 DEF PageShape
    <3>3. Waits(ds[i]) => t.saving = i
      BY <1>1, <1>5, <3>1, <3>2
    <3> QED BY <1>5, <2>5, <3>1, <3>2, <3>3
  <2> QED BY <2>2, <2>3, <2>4, <2>5, <2>6 DEF PageShape
<1>7. Shape(t, ds)
  BY <1>1, <1>2, <1>6 DEF Shape
<1> QED BY <1>7 DEF ds

(* A step of one page is a step of the browser.                            *)
LEMMA Unmoved ==
  ASSUME ShapesOK, NEW q \in Page, page'[q] = page[q], calls'[q] = calls[q]
  PROVE  PageStep(q)
<1>1. Shape(page[q], calls[q])
  BY DEF ShapesOK
<1>2. Shape(page'[q], calls'[q])
  BY <1>1
<1>3. Grown(page[q], page'[q])
  BY DEF Grown
<1>4. \A k \in Thread : Kept(calls[q][k], calls'[q][k])
  BY DEF Kept
<1> QED BY <1>2, <1>3, <1>4 DEF PageStep

LEMMA OnePage ==
  ASSUME TypeOK, ShapesOK, NEW p \in Page, NEW t, NEW ds,
         page' = [page EXCEPT ![p] = t], calls' = [calls EXCEPT ![p] = ds],
         UNCHANGED <<learner, stream>>, Shape(t, ds), PageStep(p),
         \/ acked' = acked
         \/ t = page[p] /\ \E k \in Thread : Acknowledges(p, k)
  PROVE  ClientStep
<1>1. page \in [Page -> PageState] /\ calls \in [Page -> [Thread -> CallState]]
  BY DEF TypeOK
<1>2. t \in PageState /\ ds \in [Thread -> CallState]
  BY DEF Shape
<1>3. page' \in [Page -> PageState] /\ calls' \in [Page -> [Thread -> CallState]]
  BY <1>1, <1>2
<1>4. \A q \in Page \ {p} : page'[q] = page[q] /\ calls'[q] = calls[q]
  BY <1>1
<1>5. \A q \in Page : PageStep(q)
  BY <1>4, Unmoved
<1>6. t = page[p] => page' = page
  BY <1>1
<1> QED BY <1>3, <1>5, <1>6 DEF ClientStep

(* A thread waits for c instead; the page shows t.                         *)
LEMMA ThreadStep ==
  ASSUME TypeOK, ShapesOK, NEW p \in Page, NEW k \in Thread, NEW c \in CallState,
         NEW t \in PageState, t.deeds = page[p].deeds, t.session = page[p].session,
         t.marked = page[p].marked,
         \/ t.status = page[p].status
         \/ page[p].status \in Mounted /\ t.status = "unavailable" /\ k = 0 /\ ~Waits(c),
         \/ t.saving = page[p].saving
         \/ t.saving = 0 /\ page[p].saving = k /\ ~Waits(c),
         t.saving = k /\ k # 0 => Waits(c),
         t.status = "loading" /\ k = 0 => Waits(c),
         Waits(c) => Waits(calls[p][k]),
         CallShape(k, c, t),
         page' = [page EXCEPT ![p] = t], Continue(p, k, c),
         UNCHANGED <<learner, stream>>,
         Kept(calls[p][k], c) \/ Asks(k, calls[p][k], c, page[p], stored),
         \/ acked' = acked
         \/ t = page[p] /\ Acknowledges(p, k)
  PROVE  ClientStep
<1>1. /\ page \in [Page -> PageState] /\ calls \in [Page -> [Thread -> CallState]]
      /\ Shape(page[p], calls[p])
  BY DEF TypeOK, ShapesOK
<1> DEFINE ds == [calls[p] EXCEPT ![k] = c]
<1>2. Shape(t, ds)
  BY <1>1, ShapeKept
<1>3. /\ \A j \in Thread \ {k} : ds[j] = calls[p][j]
      /\ ds[k] = c
  BY <1>1
<1>4. calls' = [calls EXCEPT ![p] = ds]
  BY <1>1 DEF Continue
<1> HIDE DEF ds
<1>5. page'[p] = t /\ calls'[p] = ds
  BY <1>1, <1>4
<1>6. Grown(page[p], t)
  BY DEF Grown, Mounted
<1>7. \A j \in Thread : \/ Kept(calls[p][j], ds[j])
                        \/ Asks(j, calls[p][j], ds[j], page[p], stored)
  BY <1>3 DEF Kept
<1>8. PageStep(p)
  <2>1. page[p].status = "unopened" => t.status = "unopened"
    BY DEF Mounted
  <2> QED BY <1>2, <1>5, <1>6, <1>7, <2>1 DEF PageStep
<1> QED BY <1>2, <1>4, <1>8, OnePage

-----------------------------------------------------------------------------
(* The steps of the browser, one by one.                                   *)

(* What is known of the request an action finds.                           *)
LEMMA CallFacts ==
  ASSUME TypeOK, ShapesOK, NEW p \in Page, NEW k \in Thread
  PROVE  /\ page[p] \in PageState /\ calls[p] \in [Thread -> CallState]
         /\ calls[p][k] \in CallState
         /\ CallShape(k, calls[p][k], page[p]) /\ PageShape(page[p], calls[p])
         /\ Shape(page[p], calls[p])
BY DEF TypeOK, ShapesOK, Shape

LEMMA SamePage ==
  ASSUME TypeOK, NEW p \in Page
  PROVE  page = [page EXCEPT ![p] = page[p]]
BY DEF TypeOK

LEMMA Requests ==
  \A ask \in {"none", "confirm", "create", "resume", "progress", "append"} : ask \in Request
BY DEF Request

(* The page asks for progress, or to resume, next.                         *)
LEMMA AsksProgress ==
  ASSUME TypeOK, ShapesOK, NEW p \in Page, NEW k \in Thread,
         calls[p][k].at = "answered", calls[p][k].found,
         calls[p][k].ask = "append" \/ (k = 0 /\ calls[p][k].ask = "resume"),
         Continue(p, k, Sent("progress", calls[p][k].id)),
         UNCHANGED <<learner, stream, page>>,
         acked' = acked \/ Acknowledges(p, k)
  PROVE  ClientStep
<1>1. PICK c : c = Sent("progress", calls[p][k].id)
  OBVIOUS
<1>2. CallShape(k, calls[p][k], page[p]) /\ PageShape(page[p], calls[p])
      /\ page[p] \in PageState
  BY CallFacts
<1>3. "progress" \in Request /\ calls[p][k].id \in Learner
  BY <1>2, Requests DEF CallShape
<1>4. c \in CallState /\ c.ask = "progress" /\ c.at = "sent" /\ c.id = calls[p][k].id
  BY <1>1, <1>3, SentFacts
<1>5. Waits(c) /\ Waits(calls[p][k])
  BY <1>4 DEF Waits
<1>6. CallShape(k, c, page[p])
  BY <1>2, <1>3, <1>4, <1>5 DEF CallShape, Booting
<1>7. Asks(k, calls[p][k], c, page[p], stored)
  BY <1>4 DEF Asks, GoesOn
<1>8. page' = [page EXCEPT ![p] = page[p]] /\ Continue(p, k, c)
  BY <1>1, SamePage
<1> QED BY <1>2, <1>4, <1>5, <1>6, <1>7, <1>8, ThreadStep

LEMMA ResumedStep == ASSUME TypeOK, ShapesOK, NEW p \in Page, Resumed(p) PROVE ClientStep
BY AsksProgress, ThreadFacts DEF Resumed, Answered

LEMMA StartedStep == ASSUME TypeOK, ShapesOK, NEW p \in Page, Started(p) PROVE ClientStep
BY AsksProgress, ThreadFacts DEF Started, Answered, Acknowledge, Acknowledges

LEMMA SavedStep ==
  ASSUME TypeOK, ShapesOK, NEW p \in Page, NEW k \in Thread, Saved(p, k) PROVE ClientStep
BY AsksProgress DEF Saved, Answered, Acknowledge, Acknowledges

(* Bootstrap stores the id it has been given or that was confirmed.        *)
LEMMA StoreStep ==
  ASSUME TypeOK, ShapesOK, NEW p \in Page, calls[p][0].at = "answered", calls[p][0].found,
         calls[p][0].ask \in {"confirm", "create"}, Store(p, calls[p][0].id),
         UNCHANGED <<learner, stream, page, acked>>
  PROVE  ClientStep
<1>1. PICK c : c = IF IsMounted(p) THEN Sent("resume", calls[p][0].id) ELSE Idle
  OBVIOUS
<1>2. 0 \in Thread /\ CallShape(0, calls[p][0], page[p]) /\ PageShape(page[p], calls[p])
      /\ page[p] \in PageState
  BY CallFacts, ThreadFacts
<1>3. "resume" \in Request /\ calls[p][0].id \in Learner
  BY <1>2, Requests DEF CallShape
<1>4. page' = [page EXCEPT ![p] = page[p]] /\ Continue(p, 0, c)
  BY <1>1, SamePage DEF Store
<1>5. CASE IsMounted(p)
  <2>1. c \in CallState /\ c.ask = "resume" /\ c.at = "sent" /\ c.id = calls[p][0].id
    BY <1>1, <1>3, <1>5, SentFacts
  <2>2. Waits(c) /\ Waits(calls[p][0])
    BY <2>1 DEF Waits
  <2>3. CallShape(0, c, page[p])
    BY <1>2, <1>3, <1>5, <2>1, <2>2 DEF CallShape, Booting, IsMounted
  <2>4. Asks(0, calls[p][0], c, page[p], stored)
    BY <2>1 DEF Asks, GoesOn
  <2> QED BY <1>2, <1>4, <2>1, <2>2, <2>3, <2>4, ThreadStep
<1>6. CASE ~IsMounted(p)
  <2>1. c = Idle /\ Kept(calls[p][0], c)
    BY <1>1, <1>6 DEF Kept
  <2>2. page[p].status # "loading"
    BY <1>6 DEF IsMounted, Mounted
  <2> QED BY <1>2, <1>4, <2>1, <2>2, IdleFacts, IdleShape, ThreadStep
<1> QED BY <1>5, <1>6

LEMMA CreatedStep == ASSUME TypeOK, ShapesOK, NEW p \in Page, Created(p) PROVE ClientStep
<1>1. calls[p][0].found
  BY CallFacts, ThreadFacts DEF Created, Answered, CallShape
<1> QED BY <1>1, StoreStep DEF Created, Answered

LEMMA ConfirmedStep == ASSUME TypeOK, ShapesOK, NEW p \in Page, Confirmed(p) PROVE ClientStep
<1>1. CASE calls[p][0].found
  BY <1>1, StoreStep DEF Confirmed, Answered
<1>2. CASE ~calls[p][0].found
  <2>1. PICK c : c = Sent("create", None)
    OBVIOUS
  <2>2. 0 \in Thread /\ CallShape(0, calls[p][0], page[p]) /\ PageShape(page[p], calls[p])
        /\ page[p] \in PageState
    BY CallFacts, ThreadFacts
  <2>3. "create" \in Request
    BY Requests
  <2>4. c \in CallState /\ c.ask = "create" /\ c.at = "sent" /\ c.id = None
    BY <2>1, <2>3, SentFacts
  <2>5. Waits(c) /\ Waits(calls[p][0])
    BY <2>4 DEF Waits, Confirmed, Answered
  <2>6. CallShape(0, c, page[p])
    BY <2>2, <2>4 DEF CallShape, Booting, Confirmed, Answered, Waits
  <2>7. Asks(0, calls[p][0], c, page[p], stored)
    BY <2>4 DEF Asks, Boots
  <2>8. /\ page' = [page EXCEPT ![p] = page[p]] /\ Continue(p, 0, c)
        /\ UNCHANGED <<learner, stream, acked>>
    BY <1>2, <2>1, SamePage DEF Confirmed
  <2> QED BY <2>2, <2>4, <2>5, <2>6, <2>7, <2>8, ThreadStep
<1> QED BY <1>1, <1>2

(* Same page, but for what the learner reads on it.                        *)
SameButShown(s, t) ==
  /\ t \in PageState /\ t.deeds = s.deeds /\ t.session = s.session
  /\ t.marked = s.marked /\ t.position = s.position

LEMMA SavedFlag ==
  ASSUME NEW s \in PageState, NEW k \in Thread
  PROVE  /\ SameButShown(s, NoLongerSaving(s, k))
         /\ NoLongerSaving(s, k).status = s.status
         /\ NoLongerSaving(s, k).saving = IF s.saving = k THEN 0 ELSE s.saving
<1>1. PICK n : n = IF s.saving = k THEN 0 ELSE s.saving
  OBVIOUS
<1>2. n \in Thread
  BY <1>1, ThreadFacts DEF PageState
<1>3. NoLongerSaving(s, k) = [s EXCEPT !.saving = n]
  BY <1>1 DEF NoLongerSaving
<1> QED BY <1>1, <1>2, <1>3 DEF SameButShown, PageState

LEMMA ShownIs ==
  ASSUME NEW s \in PageState, NEW n \in Nat, NEW b \in BOOLEAN
  PROVE  /\ SameButShown(s, [s EXCEPT !.shown = n]) /\ SameButShown(s, [s EXCEPT !.alert = b])
         /\ SameButShown(s, [s EXCEPT !.shown = n, !.alert = b])
         /\ [s EXCEPT !.shown = n].status = s.status /\ [s EXCEPT !.shown = n].saving = s.saving
         /\ [s EXCEPT !.shown = n, !.alert = b].status = s.status
         /\ [s EXCEPT !.shown = n, !.alert = b].saving = s.saving
         /\ [s EXCEPT !.alert = b].status = s.status /\ [s EXCEPT !.alert = b].saving = s.saving
BY DEF SameButShown, PageState

LEMMA Thrown ==
  ASSUME NEW s \in PageState, NEW k \in Thread
  PROVE  /\ SameButShown(s, RecordFailed(s, k)) /\ RecordFailed(s, k).status = s.status
         /\ RecordFailed(s, k).saving = IF s.saving = k THEN 0 ELSE s.saving
         /\ RecordFailed(s, k).alert
         /\ SameButShown(s, BootFailed(s)) /\ BootFailed(s).status = "unavailable"
         /\ BootFailed(s).saving = s.saving /\ BootFailed(s).alert
<1>1. PICK u : u = [s EXCEPT !.alert = TRUE]
  OBVIOUS
<1>2. SameButShown(s, u) /\ u.status = s.status /\ u.saving = s.saving /\ u.alert
  BY <1>1, ShownIs DEF PageState
<1>3. /\ SameButShown(u, NoLongerSaving(u, k)) /\ NoLongerSaving(u, k).status = u.status
      /\ NoLongerSaving(u, k).saving = IF u.saving = k THEN 0 ELSE u.saving
  BY <1>2, SavedFlag DEF SameButShown
<1>4. NoLongerSaving(u, k).alert
  <2>1. u \in PageState
    BY <1>2 DEF SameButShown
  <2>2. PICK n : NoLongerSaving(u, k) = [u EXCEPT !.saving = n]
    BY DEF NoLongerSaving
  <2> QED BY <1>2, <2>1, <2>2 DEF PageState
<1>5. RecordFailed(s, k) = NoLongerSaving(u, k)
  BY <1>1 DEF RecordFailed
<1>6. "unavailable" \in PageStatus
  BY DEF PageStatus, Mounted
<1>7. BootFailed(s) = [s EXCEPT !.alert = TRUE, !.status = "unavailable"]
  BY DEF BootFailed
<1>8. SameButShown(s, BootFailed(s)) /\ BootFailed(s).status = "unavailable"
      /\ BootFailed(s).saving = s.saving /\ BootFailed(s).alert
  BY <1>6, <1>7 DEF SameButShown, PageState
<1> QED BY <1>2, <1>3, <1>4, <1>5, <1>8 DEF SameButShown

(* A thread ends, and with it what the page shows changes.                 *)
LEMMA EndsShown ==
  ASSUME TypeOK, ShapesOK, NEW p \in Page, NEW k \in Thread, NEW t, NEW c,
         SameButShown(page[p], t),
         \/ c = Idle
         \/ /\ calls[p][k].ask = "append" /\ calls[p][k].at = "sent"
            /\ c = [calls[p][k] EXCEPT !.at = "late"],
         \/ t.status = page[p].status
         \/ page[p].status \in Mounted /\ t.status = "unavailable" /\ k = 0,
         t.status = "loading" => k # 0,
         t.saving = IF page[p].saving = k THEN 0 ELSE page[p].saving,
         page' = [page EXCEPT ![p] = t], Continue(p, k, c),
         UNCHANGED <<learner, stream, acked>>
  PROVE  ClientStep
<1>1. CallShape(k, calls[p][k], page[p]) /\ calls[p][k] \in CallState
  BY CallFacts
<1>2. t \in PageState /\ t.deeds = page[p].deeds /\ t.session = page[p].session
      /\ t.marked = page[p].marked
  BY DEF SameButShown
<1>3. /\ c \in CallState /\ ~Waits(c) /\ CallShape(k, c, t)
      /\ Kept(calls[p][k], c)
  <2>1. CASE c = Idle
    BY <2>1, IdleShape, IdleFacts DEF Kept
  <2>2. CASE /\ calls[p][k].ask = "append" /\ calls[p][k].at = "sent"
             /\ c = [calls[p][k] EXCEPT !.at = "late"]
    <3>1. "late" \in Stage
      BY DEF Stage
    <3>2. /\ c \in CallState /\ c.ask = "append" /\ c.at = "late"
          /\ c.id = calls[p][k].id
      BY <1>1, <2>2, <3>1 DEF CallState
    <3>3. CallShape(k, c, t)
      BY <1>1, <1>2, <2>2, <3>2 DEF CallShape, Waits, Mounted, Booting
    <3> QED BY <2>2, <3>2, <3>3 DEF Kept, Waits
  <2> QED BY <2>1, <2>2
<1> QED BY <1>2, <1>3, ThreadStep

LEMMA RefreshedStep == ASSUME TypeOK, ShapesOK, NEW p \in Page, Refreshed(p) PROVE ClientStep
<1>1. PICK t : t = IF IsMounted(p) THEN [page[p] EXCEPT !.shown = calls[p][0].seen]
                   ELSE page[p]
  OBVIOUS
<1>2. 0 \in Thread /\ page[p] \in PageState /\ calls[p][0].seen \in Nat
      /\ PageShape(page[p], calls[p])
  BY CallFacts, ThreadFacts DEF CallState
<1>3. SameButShown(page[p], t) /\ t.status = page[p].status /\ t.saving = page[p].saving
  BY <1>1, <1>2, ShownIs DEF SameButShown
<1>4. page' = [page EXCEPT ![p] = t]
  BY <1>1, SamePage DEF Refreshed, Show
<1>5. t.status # "loading" /\ Continue(p, 0, Idle) /\ UNCHANGED <<learner, stream, acked>>
  BY <1>3 DEF Refreshed
<1> QED BY <1>2, <1>3, <1>4, <1>5, EndsShown

LEMMA UpdatedStep ==
  ASSUME TypeOK, ShapesOK, NEW p \in Page, NEW k \in Thread, Updated(p, k) PROVE ClientStep
<1>1. PICK u : u = [page[p] EXCEPT !.shown = calls[p][k].seen, !.alert = FALSE]
  OBVIOUS
<1>2. PICK t : t = IF IsMounted(p) THEN NoLongerSaving(u, k) ELSE page[p]
  OBVIOUS
<1>3. page[p] \in PageState /\ calls[p][k].seen \in Nat /\ PageShape(page[p], calls[p])
  BY CallFacts DEF CallState
<1>4. SameButShown(page[p], u) /\ u.status = page[p].status /\ u.saving = page[p].saving
  BY <1>1, <1>3, ShownIs
<1>5. SameButShown(u, NoLongerSaving(u, k)) /\ NoLongerSaving(u, k).status = u.status
      /\ NoLongerSaving(u, k).saving = IF u.saving = k THEN 0 ELSE u.saving
  BY <1>4, SavedFlag DEF SameButShown
<1>6. SameButShown(page[p], t) /\ t.status = page[p].status
  BY <1>2, <1>3, <1>4, <1>5 DEF SameButShown
<1>7. t.saving = IF page[p].saving = k THEN 0 ELSE page[p].saving
  <2>1. CASE IsMounted(p)
    BY <1>2, <1>4, <1>5, <2>1
  <2>2. CASE ~IsMounted(p)
    BY <1>2, <1>3, <2>2 DEF PageShape, IsMounted, Mounted
  <2> QED BY <2>1, <2>2
<1>8. page' = [page EXCEPT ![p] = t]
  BY <1>1, <1>2, SamePage DEF Updated, Show
<1>9. k # 0 /\ Continue(p, k, Idle) /\ UNCHANGED <<learner, stream, acked>>
  BY DEF Updated
<1> QED BY <1>6, <1>7, <1>8, <1>9, EndsShown

(* A thread that throws ends, or leaves its write to the server.           *)
LEMMA ThrowStep ==
  ASSUME TypeOK, ShapesOK, NEW p \in Page, NEW k \in Thread, NEW c,
         \/ c = Idle
         \/ /\ calls[p][k].ask = "append" /\ calls[p][k].at = "sent"
            /\ c = [calls[p][k] EXCEPT !.at = "late"],
         Throw(p, k), Continue(p, k, c), UNCHANGED <<learner, stream, acked>>
  PROVE  ClientStep
<1>1. PICK u : u = IF k = 0 THEN BootFailed(page[p]) ELSE RecordFailed(page[p], k)
  OBVIOUS
<1>2. PICK t : t = IF IsMounted(p) THEN u ELSE page[p]
  OBVIOUS
<1>3. /\ page[p] \in PageState /\ PageShape(page[p], calls[p])
      /\ Len(page[p].deeds) <= MaxDeeds
  BY CallFacts DEF PageShape
<1>4. /\ SameButShown(page[p], u)
      /\ u.status = IF k = 0 THEN "unavailable" ELSE page[p].status
      /\ k = 0 => u.saving = page[p].saving
      /\ k # 0 => u.saving = IF page[p].saving = k THEN 0 ELSE page[p].saving
  BY <1>1, <1>3, Thrown
<1>5. SameButShown(page[p], t)
  BY <1>2, <1>3, <1>4 DEF SameButShown
<1>6. /\ \/ t.status = page[p].status
         \/ page[p].status \in Mounted /\ t.status = "unavailable" /\ k = 0
      /\ t.status = "loading" => k # 0
      /\ t.saving = IF page[p].saving = k THEN 0 ELSE page[p].saving
  <2>1. CASE IsMounted(p)
    BY <1>2, <1>4, <2>1 DEF IsMounted
  <2>2. CASE ~IsMounted(p)
    BY <1>2, <1>3, <2>2 DEF PageShape, IsMounted, Mounted
  <2> QED BY <2>1, <2>2
<1>7. page' = [page EXCEPT ![p] = t]
  BY <1>1, <1>2, SamePage DEF Throw, Show
<1> QED BY <1>5, <1>6, <1>7, EndsShown

LEMMA RefusedStep ==
  ASSUME TypeOK, ShapesOK, NEW p \in Page, NEW k \in Thread, Refused(p, k) PROVE ClientStep
<1>1. Throw(p, k) /\ Continue(p, k, Idle) /\ UNCHANGED <<learner, stream, acked>>
  BY DEF Refused
<1> QED BY <1>1, ThrowStep

LEMMA FailStep ==
  ASSUME TypeOK, ShapesOK, NEW p \in Page, NEW k \in Thread, Fail(p, k) PROVE ClientStep
<1>1. Throw(p, k) /\ UNCHANGED <<learner, stream, acked>> /\ calls[p][k].at = "sent"
  BY DEF Fail
<1>2. CASE Continue(p, k, Idle)
  BY <1>1, <1>2, ThrowStep
<1>3. CASE calls[p][k].ask = "append" /\ Continue(p, k, [calls[p][k] EXCEPT !.at = "late"])
  BY <1>1, <1>3, ThrowStep
<1> QED BY <1>2, <1>3 DEF Fail

(* Where another deed is allowed, there is a thread for it on every page.  *)
LEMMA RoomOnPage ==
  ASSUME TypeOK, ShapesOK, NEW p \in Page, HasRoom
  PROVE  Len(page[p].deeds) < MaxDeeds /\ Len(page[p].deeds) + 1 \in Thread
<1>1. /\ page[p] \in PageState /\ Len(page[p].deeds) <= MaxDeeds
      /\ \A q \in Page : page[q] \in PageState /\ Len(page[q].deeds) <= MaxDeeds
  BY CallFacts, ThreadFacts DEF PageShape
<1>2. PICK n \in Nat : n = Len(page[p].deeds) /\ DOMAIN page[p].deeds = 1..n
  BY <1>1, DeedThreads
<1>3. IsFiniteSet(Page) /\ IsFiniteSet(Thread)
  BY LessonAssumption, FS_Interval DEF Page, Thread
<1>4. IsFiniteSet(Deeds)
  <2>1. Deeds \in SUBSET (Page \X Thread)
    BY DEF Deeds
  <2> QED BY <1>3, <2>1, FS_Product, FS_Subset
<1>5. Cardinality(Deeds) \in Nat
  BY <1>4, FS_CardinalityType
<1> DEFINE f == [i \in 1..n |-> <<p, i>>]
<1>6. f \in Injection(1..n, Deeds)
  <2>1. \A i \in 1..n : i \in Thread
    BY <1>1, <1>2, DeedThreads
  <2>2. \A i \in 1..n : <<p, i>> \in Deeds
    BY <1>2, <2>1 DEF Deeds
  <2> QED BY <2>2 DEF Injection, IsInjective
<1>7. Cardinality(1..n) <= Cardinality(Deeds) /\ Cardinality(1..n) = n
  BY <1>4, <1>6, FS_Injection, FS_Interval
<1>8. n < MaxDeeds
  BY <1>5, <1>7, ThreadFacts DEF HasRoom
<1> QED BY <1>2, <1>8, ThreadFacts DEF Thread

(* Deed a is done on page s, which then is t, by thread k.                 *)
Does(s, t, k, a) ==
  /\ s.status \in {"ready", "unavailable"}
  /\ t \in PageState /\ a \in Deed /\ k = Len(s.deeds) + 1
  /\ t.deeds = Append(s.deeds, a)
  /\ t.status = s.status /\ t.session = s.session /\ s.marked \subseteq t.marked
  /\ a.kind = "step" => a.step \notin s.marked /\ a.step \in t.marked
  /\ IF a.kind = "reflection"
       THEN s.saving = 0 /\ t.saving = (IF s.session = None THEN 0 ELSE k)
       ELSE t.saving = s.saving

LEMMA DeedGrows ==
  ASSUME NEW s \in PageState, Len(s.deeds) < MaxDeeds, NEW t, NEW k, NEW a, Does(s, t, k, a)
  PROVE  /\ k \notin DOMAIN s.deeds /\ k \in Thread /\ k # 0
         /\ DOMAIN t.deeds = DOMAIN s.deeds \cup {k} /\ Len(t.deeds) = k /\ k <= MaxDeeds
         /\ \A i \in DOMAIN s.deeds : t.deeds[i] = s.deeds[i] /\ i < k
         /\ t.deeds[k] = a
         /\ Grown(s, t)
<1>1. s.deeds \in Seq(Deed) /\ Len(s.deeds) \in Nat /\ DOMAIN s.deeds = 1..Len(s.deeds)
  BY DeedThreads, ThreadFacts
<1>2. t.deeds = Append(s.deeds, a) /\ k = Len(s.deeds) + 1 /\ a \in Deed
  BY DEF Does
<1>3. /\ Len(t.deeds) = k /\ DOMAIN t.deeds = 1..k /\ t.deeds[k] = a
      /\ \A i \in DOMAIN s.deeds : t.deeds[i] = s.deeds[i]
  BY <1>1, <1>2
<1>4. /\ k \notin DOMAIN s.deeds /\ k \in Thread /\ k # 0 /\ k <= MaxDeeds
      /\ DOMAIN t.deeds = DOMAIN s.deeds \cup {k}
      /\ \A i \in DOMAIN s.deeds : i < k
  BY <1>1, <1>2, <1>3, ThreadFacts DEF Thread
<1>5. Grown(s, t)
  BY <1>3, <1>4 DEF Grown, Does
<1> QED BY <1>3, <1>4, <1>5

(* The page keeps its shape, whether the deed is sent or not.              *)
LEMMA DeedShape ==
  ASSUME NEW s, NEW cs, Shape(s, cs), Len(s.deeds) < MaxDeeds,
         NEW t, NEW k, NEW a, Does(s, t, k, a), NEW ds \in [Thread -> CallState],
         \A j \in Thread \ {k} : ds[j] = cs[j],
         s.session = None => ds[k] = cs[k],
         s.session # None => ds[k] = Sent("append", s.session)
  PROVE  Shape(t, ds)
<1>1. s \in PageState /\ PageShape(s, cs) /\ \A j \in Thread : CallShape(j, cs[j], s)
  BY DEF Shape
<1>2. /\ k \notin DOMAIN s.deeds /\ k \in Thread /\ k # 0 /\ 0 \in Thread
      /\ DOMAIN t.deeds = DOMAIN s.deeds \cup {k} /\ Len(t.deeds) = k /\ k <= MaxDeeds
      /\ \A i \in DOMAIN s.deeds : t.deeds[i] = s.deeds[i] /\ i < k
      /\ t.deeds[k] = a
  BY <1>1, DeedGrows, ThreadFacts
<1>3. \A i \in DOMAIN s.deeds : i \in Thread /\ i # 0 /\ i # k
  BY <1>1, <1>2, DeedThreads DEF PageShape
<1>4. cs[k].at = "idle" /\ ~Waits(cs[k]) /\ cs[k].ask = "none"
  BY <1>1, <1>2 DEF CallShape, Waits
<1>5. \A j \in Thread \ {k} : CallShape(j, ds[j], t)
  BY <1>1, <1>2 DEF CallShape, Does
<1>6. CallShape(k, ds[k], t)
  <2>1. CASE s.session = None
    BY <1>4, <2>1 DEF CallShape, Waits, Booting
  <2>2. CASE s.session # None
    <3>1. s.session \in Learner /\ "append" \in Request
      BY <1>1, <2>2, Requests DEF PageState
    <3>2. ds[k].ask = "append" /\ ds[k].at = "sent" /\ ds[k].id = s.session
      BY <2>2, <3>1, SentFacts
    <3>3. t.status \in Mounted /\ t.status # "loading" /\ t.status # "unopened"
          /\ t.session = s.session
      BY DEF Does, Mounted
    <3>4. k \in DOMAIN t.deeds
      BY <1>2
    <3> QED BY <1>2, <3>1, <3>2, <3>3, <3>4 DEF CallShape, Booting
  <2> QED BY <2>1, <2>2
<1>7. t.session = None => ~Waits(ds[k])
  BY <1>4 DEF Does
<1>8. t.session # None => Waits(ds[k])
  <2>1. ASSUME t.session # None PROVE ds[k].at = "sent"
    <3>1. s.session \in Learner /\ "append" \in Request
      BY <1>1, <2>1, Requests DEF PageState, Does
    <3> QED BY <3>1, SentFacts, <2>1 DEF Does
  <2> QED BY <2>1 DEF Waits
<1>9. /\ t.status = s.status /\ t.session = s.session /\ s.marked \subseteq t.marked
      /\ s.status \in {"ready", "unavailable"}
  BY DEF Does
<1>10. t.saving # 0 => Waits(ds[t.saving])
  <2>1. s.saving # 0 => s.saving \in Thread /\ s.saving # k
    BY <1>1, <1>4 DEF PageShape, PageState
  <2> QED BY <1>1, <1>2, <1>8, <2>1 DEF PageShape, Does
<1>11. /\ \A i, j \in Did(t, "step") : i # j => t.deeds[i].step # t.deeds[j].step
       /\ t.status \in Mounted => \A i \in Did(t, "step") : t.deeds[i].step \in t.marked
  <2>1. s.status \in Mounted
    BY <1>9 DEF Mounted
  <2>2. \A i \in Did(s, "step") : s.deeds[i].step \in s.marked
    BY <1>1, <2>1 DEF PageShape
  <2>3. \A i \in Did(t, "step") \ {k} : i \in Did(s, "step") /\ t.deeds[i] = s.deeds[i]
    BY <1>2 DEF Did
  <2>4. k \in Did(t, "step") => a.step \notin s.marked /\ a.step \in t.marked
    BY <1>2 DEF Did, Does
  <2>5. \A i \in Did(t, "step") : t.deeds[i].step \in t.marked
    BY <1>2, <1>9, <2>2, <2>3, <2>4
  <2>6. \A i, j \in Did(s, "step") : i # j => s.deeds[i].step # s.deeds[j].step
    BY <1>1 DEF PageShape
  <2> QED BY <1>2, <2>2, <2>3, <2>4, <2>5, <2>6
<1>12. ASSUME NEW i \in Did(t, "reflection")
       PROVE  /\ Waits(ds[i]) => t.saving = i
              /\ \A j \in Did(t, "reflection") : i < j => ~Waits(ds[i])
  <2>1. CASE i = k
    <3>1. t.deeds[k] = a /\ a.kind = "reflection"
      BY <1>2, <1>12, <2>1 DEF Did
    <3>2. Waits(ds[i]) => t.saving = i
      BY <1>7, <2>1, <3>1 DEF Does
    <3>3. \A j \in Did(t, "reflection") : j <= k
      BY <1>1, <1>2, <1>3, ThreadFacts DEF Did
    <3>4. \A j \in Did(t, "reflection") : j \in Nat /\ k \in Nat
      BY <1>2, <1>3, ThreadFacts DEF Did
    <3> QED BY <2>1, <3>2, <3>3, <3>4
  <2>2. CASE i # k
    <3>1. i \in Did(s, "reflection") /\ i \in Thread /\ ds[i] = cs[i]
      BY <1>2, <1>3, <1>12, <2>2 DEF Did
    <3>2. /\ Waits(cs[i]) => s.saving = i
          /\ \A j \in Did(s, "reflection") : i < j => ~Waits(cs[i])
      BY <1>1, <3>1 DEF PageShape
    <3>3. CASE a.kind = "reflection"
      <4>1. ~Waits(cs[i])
        BY <1>3, <3>1, <3>2, <3>3 DEF Does, Did
      <4> QED BY <3>1, <4>1
    <3>4. CASE a.kind # "reflection"
      <4>1. t.saving = s.saving /\ Did(t, "reflection") = Did(s, "reflection")
        BY <1>2, <3>4 DEF Does, Did
      <4> QED BY <3>1, <3>2, <4>1
    <3> QED BY <3>3, <3>4
  <2> QED BY <2>1, <2>2
<1>13. PageShape(t, ds)
  <2>1. /\ Len(t.deeds) <= MaxDeeds
        /\ t.status \in {"ready", "unavailable"}
    BY <1>2, <1>9
  <2> QED BY <1>10, <1>11, <1>12, <2>1 DEF PageShape
<1> QED BY <1>5, <1>6, <1>13 DEF Shape, Does

LEMMA RecordStep ==
  ASSUME TypeOK, ShapesOK, NEW p \in Page, NEW state \in PageState, NEW kind, NEW step,
         Does(page[p], [state EXCEPT !.deeds = Append(@, [kind |-> kind, step |-> step])],
              Len(page[p].deeds) + 1, [kind |-> kind, step |-> step]),
         state.deeds = page[p].deeds, state.session = page[p].session,
         Record(p, state, kind, step), UNCHANGED <<learner, stream, acked>>
  PROVE  ClientStep
<1>1. PICK a : a = [kind |-> kind, step |-> step]
  OBVIOUS
<1>2. PICK t : t = [state EXCEPT !.deeds = Append(@, a)]
  OBVIOUS
<1>3. PICK k : k = Len(page[p].deeds) + 1
  OBVIOUS
<1>4. Does(page[p], t, k, a)
  BY <1>1, <1>2, <1>3
<1>5. /\ page[p] \in PageState /\ Shape(page[p], calls[p])
      /\ calls[p] \in [Thread -> CallState] /\ CallShape(0, calls[p][0], page[p])
  BY CallFacts, ThreadFacts
<1>6. Len(page[p].deeds) < MaxDeeds
  BY RoomOnPage DEF Record
<1>7. k \notin DOMAIN page[p].deeds /\ k \in Thread /\ k # 0 /\ Grown(page[p], t)
  BY <1>4, <1>5, <1>6, DeedGrows
<1>8. PICK ds : ds = IF page[p].session = None THEN calls[p]
                     ELSE [calls[p] EXCEPT ![k] = Sent("append", page[p].session)]
  OBVIOUS
<1>9. /\ page' = [page EXCEPT ![p] = t]
      /\ calls' = [calls EXCEPT ![p] = ds]
  <2>1. page' = [page EXCEPT ![p] = t]
    BY <1>1, <1>2 DEF Record
  <2>2. IF page[p].session = None THEN calls' = calls
        ELSE calls' = [calls EXCEPT ![p][k] = Sent("append", page[p].session)]
    BY <1>3 DEF Record, Continue
  <2> QED BY <1>8, <2>1, <2>2 DEF TypeOK
<1>10. page[p].session # None => /\ Sent("append", page[p].session) \in CallState
                                 /\ Sent("append", page[p].session).ask = "append"
                                 /\ Sent("append", page[p].session).at = "sent"
                                 /\ Sent("append", page[p].session).id = page[p].session
  <2>1. "append" \in Request /\ page[p].session \in Learner \cup {None}
    BY <1>5, Requests DEF PageState
  <2> QED BY <2>1, SentFacts
<1>11. /\ ds \in [Thread -> CallState] /\ \A j \in Thread \ {k} : ds[j] = calls[p][j]
       /\ page[p].session = None => ds[k] = calls[p][k]
       /\ page[p].session # None => ds[k] = Sent("append", page[p].session)
  BY <1>5, <1>7, <1>8, <1>10
<1>12. Shape(t, ds)
  BY <1>4, <1>5, <1>6, <1>11, DeedShape
<1>13. \A j \in Thread : \/ Kept(calls[p][j], ds[j])
                         \/ Asks(j, calls[p][j], ds[j], page[p], stored)
  <2>1. page[p].session # None => Asks(k, calls[p][k], ds[k], page[p], stored)
    BY <1>7, <1>10, <1>11 DEF Asks, Writes
  <2> QED BY <1>11, <2>1 DEF Kept
<1>14. page'[p] = t /\ calls'[p] = ds
  BY <1>9 DEF TypeOK
<1>15. PageStep(p)
  BY <1>4, <1>7, <1>12, <1>13, <1>14 DEF PageStep, Does
<1> QED BY <1>9, <1>12, <1>15, OnePage

(* Next to the last position is only a position.                           *)
LEMMA PositionFacts ==
  /\ Position \subseteq Nat /\ StepIndex \subseteq Nat /\ Steps \in Nat
  /\ \A n \in Position : Neighbours(n) \subseteq Position
BY LessonAssumption DEF Position, StepIndex, Last, Neighbours

(* a is done on the page as it is but for position, marked steps and flag. *)
LEMMA DoesIt ==
  ASSUME NEW s \in PageState, NEW state \in PageState, NEW a \in Deed,
         s.status \in {"ready", "unavailable"},
         state.deeds = s.deeds, state.status = s.status, state.session = s.session,
         s.marked \subseteq state.marked,
         a.kind = "step" => a.step \notin s.marked /\ a.step \in state.marked,
         IF a.kind = "reflection"
           THEN /\ s.saving = 0
                /\ state.saving = (IF s.session = None THEN 0 ELSE Len(s.deeds) + 1)
           ELSE state.saving = s.saving
  PROVE  Does(s, [state EXCEPT !.deeds = Append(@, a)], Len(s.deeds) + 1, a)
<1>1. PICK ds : ds = Append(s.deeds, a)
  OBVIOUS
<1>2. ds \in Seq(Deed)
  BY <1>1 DEF PageState
<1>3. PICK t : t = [state EXCEPT !.deeds = ds]
  OBVIOUS
<1>4. /\ t \in PageState /\ t.deeds = ds /\ t.status = state.status
      /\ t.session = state.session /\ t.marked = state.marked /\ t.saving = state.saving
  BY <1>2, <1>3 DEF PageState
<1>5. Does(s, t, Len(s.deeds) + 1, a)
  BY <1>1, <1>4 DEF Does
<1> QED BY <1>1, <1>3, <1>5

LEMMA OtherDeed == [kind |-> "other", step |-> None] \in Deed
BY DEF Deed

LEMMA ExperimentStep == ASSUME TypeOK, ShapesOK, NEW p \in Page, Experiment(p) PROVE ClientStep
<1>1. page[p] \in PageState /\ page[p].status \in {"ready", "unavailable"}
  BY CallFacts, ThreadFacts DEF Experiment, Usable
<1>2. Record(p, page[p], "other", None) /\ UNCHANGED <<learner, stream, acked>>
  BY DEF Experiment
<1>3. PICK a : a = [kind |-> "other", step |-> None]
  OBVIOUS
<1>4. a \in Deed /\ a.kind = "other"
  BY <1>3, OtherDeed
<1>5. Does(page[p], [page[p] EXCEPT !.deeds = Append(@, a)], Len(page[p].deeds) + 1, a)
  BY <1>1, <1>4, DoesIt
<1> QED BY <1>1, <1>2, <1>3, <1>5, RecordStep

LEMMA FinishStep == ASSUME TypeOK, ShapesOK, NEW p \in Page, Finish(p) PROVE ClientStep
<1>1. page[p] \in PageState /\ page[p].status \in {"ready", "unavailable"}
  BY CallFacts, ThreadFacts DEF Finish, Usable
<1>2. Record(p, page[p], "other", None) /\ UNCHANGED <<learner, stream, acked>>
  BY DEF Finish
<1>3. PICK a : a = [kind |-> "other", step |-> None]
  OBVIOUS
<1>4. a \in Deed /\ a.kind = "other"
  BY <1>3, OtherDeed
<1>5. Does(page[p], [page[p] EXCEPT !.deeds = Append(@, a)], Len(page[p].deeds) + 1, a)
  BY <1>1, <1>4, DoesIt
<1> QED BY <1>1, <1>2, <1>3, <1>5, RecordStep

LEMMA SubmitStep == ASSUME TypeOK, ShapesOK, NEW p \in Page, Submit(p) PROVE ClientStep
<1>1. page[p] \in PageState /\ page[p].status \in {"ready", "unavailable"}
      /\ page[p].saving = 0
  BY CallFacts, ThreadFacts DEF Submit, Usable, NotSaving
<1>2. PICK n : n = IF page[p].session = None THEN 0 ELSE Len(page[p].deeds) + 1
  OBVIOUS
<1>3. PICK state : state = [page[p] EXCEPT !.saving = n]
  OBVIOUS
<1>4. Record(p, state, "reflection", None) /\ UNCHANGED <<learner, stream, acked>>
  BY <1>2, <1>3 DEF Submit
<1>5. n \in Thread
  BY <1>2, <1>4, RoomOnPage, ThreadFacts DEF Record
<1>6. /\ state \in PageState /\ state.deeds = page[p].deeds /\ state.status = page[p].status
      /\ state.session = page[p].session /\ state.marked = page[p].marked
      /\ state.saving = n
  BY <1>1, <1>3, <1>5 DEF PageState
<1>7. PICK a : a = [kind |-> "reflection", step |-> None]
  OBVIOUS
<1>8. a \in Deed /\ a.kind = "reflection"
  BY <1>7 DEF Deed
<1>9. Does(page[p], [state EXCEPT !.deeds = Append(@, a)], Len(page[p].deeds) + 1, a)
  BY <1>1, <1>2, <1>6, <1>8, DoesIt
<1> QED BY <1>4, <1>6, <1>7, <1>9, RecordStep

LEMMA GoToStep == ASSUME TypeOK, ShapesOK, NEW p \in Page, GoTo(p) PROVE ClientStep
<1>1. /\ page[p] \in PageState /\ page[p].status \in {"ready", "unavailable"}
      /\ page[p].position \in Position /\ page[p].marked \subseteq StepIndex
      /\ PageShape(page[p], calls[p]) /\ 0 \in Thread
      /\ calls \in [Page -> [Thread -> CallState]]
      /\ calls[p][0] \in CallState /\ CallShape(0, calls[p][0], page[p])
  <2>1. page[p] \in PageState
    BY CallFacts, ThreadFacts
  <2> QED BY <2>1, CallFacts, ThreadFacts DEF GoTo, Usable, PageState, TypeOK
<1>2. UNCHANGED <<learner, stream, acked>>
  BY DEF GoTo
<1>3. PICK next \in Neighbours(page[p].position) :
        LET i == next - 1
            moved == [page[p] EXCEPT !.position = next]
        IN  IF i \in StepIndex \ page[p].marked
              THEN Record(p, [moved EXCEPT !.marked = Marked(@, i)], "step", i)
              ELSE page' = [page EXCEPT ![p] = moved] /\ UNCHANGED calls
  BY DEF GoTo
<1>4. next \in Position
  BY <1>1, <1>3, PositionFacts
<1>5. PICK i, moved : i = next - 1 /\ moved = [page[p] EXCEPT !.position = next]
  OBVIOUS
<1>6. /\ moved \in PageState /\ moved.deeds = page[p].deeds /\ moved.status = page[p].status
      /\ moved.session = page[p].session /\ moved.marked = page[p].marked
      /\ moved.saving = page[p].saving
  BY <1>1, <1>4, <1>5 DEF PageState
<1>7. CASE i \in StepIndex \ page[p].marked
  <2>1. Record(p, [moved EXCEPT !.marked = Marked(@, i)], "step", i)
    BY <1>3, <1>5, <1>7
  <2>2. PICK marked : marked = page[p].marked \cup {i}
    OBVIOUS
  <2>3. PICK state : state = [moved EXCEPT !.marked = marked]
    OBVIOUS
  <2>4. marked \in SUBSET StepIndex /\ page[p].marked \subseteq marked /\ i \in marked
    BY <1>1, <1>7, <2>2
  <2>5. /\ state \in PageState /\ state.deeds = page[p].deeds
        /\ state.status = page[p].status /\ state.session = page[p].session
        /\ state.marked = marked /\ state.saving = page[p].saving
    BY <1>6, <2>3, <2>4 DEF PageState
  <2>6. [moved EXCEPT !.marked = Marked(@, i)] = state
    BY <1>6, <2>2, <2>3 DEF Marked
  <2>7. PICK a : a = [kind |-> "step", step |-> i]
    OBVIOUS
  <2>8. a \in Deed /\ a.kind = "step" /\ a.step = i
    BY <1>7, <2>7 DEF Deed
  <2>9. Does(page[p], [state EXCEPT !.deeds = Append(@, a)], Len(page[p].deeds) + 1, a)
    BY <1>1, <1>7, <2>4, <2>5, <2>8, DoesIt
  <2>10. Record(p, state, "step", i)
    BY <2>1, <2>6
  <2> QED BY <1>2, <2>5, <2>7, <2>9, <2>10, RecordStep
<1>8. CASE i \notin StepIndex \ page[p].marked
  <2>1. page' = [page EXCEPT ![p] = moved] /\ UNCHANGED calls
    BY <1>3, <1>5, <1>8
  <2>2. Continue(p, 0, calls[p][0])
    BY <1>1, <2>1 DEF Continue
  <2>3. Kept(calls[p][0], calls[p][0]) /\ CallShape(0, calls[p][0], moved)
    BY <1>1, <1>6 DEF Kept, CallShape
  <2> QED BY <1>1, <1>2, <1>6, <2>1, <2>2, <2>3, ThreadStep
<1> QED BY <1>7, <1>8

(* A page that is mounted asks for the stored id to be confirmed, or for a *)
(* new one.                                                                *)
LEMMA MountStep == ASSUME TypeOK, ShapesOK, NEW p \in Page, Mount(p) PROVE ClientStep
<1>1. /\ page[p] \in PageState /\ PageShape(page[p], calls[p]) /\ 0 \in Thread
      /\ calls[p] \in [Thread -> CallState]
      /\ calls \in [Page -> [Thread -> CallState]]
      /\ \A k \in Thread : CallShape(k, calls[p][k], page[p])
      /\ stored \in Learner \cup {None}
  BY CallFacts, ThreadFacts DEF TypeOK
<1>2. page[p].status = "unopened" /\ page[p].deeds = <<>> /\ page[p].session = None
      /\ page[p].saving = 0
  BY <1>1 DEF Mount, PageShape
<1>3. PICK c : c = IF stored = None THEN Sent("create", None) ELSE Sent("confirm", stored)
  OBVIOUS
<1>4. /\ c \in CallState /\ c.at = "sent"
      /\ IF stored = None THEN c.ask = "create" /\ c.id = None
                          ELSE c.ask = "confirm" /\ c.id = stored
  BY <1>1, <1>3, Requests, SentFacts
<1>5. PICK t : t = [page[p] EXCEPT !.status = "loading"]
  OBVIOUS
<1>6. "loading" \in PageStatus
  BY DEF PageStatus, Mounted
<1>7. /\ t \in PageState /\ t.status = "loading" /\ t.deeds = <<>> /\ t.session = None
      /\ t.saving = 0 /\ t.marked = page[p].marked
  BY <1>1, <1>2, <1>5, <1>6 DEF PageState
<1>8. PICK ds : ds = [calls[p] EXCEPT ![0] = c]
  OBVIOUS
<1>9. /\ page' = [page EXCEPT ![p] = t] /\ calls' = [calls EXCEPT ![p] = ds]
      /\ UNCHANGED <<learner, stream, acked>>
  <2>1. page' = [page EXCEPT ![p].status = "loading"] /\ Continue(p, 0, c)
        /\ UNCHANGED <<learner, stream, acked>>
    BY <1>3 DEF Mount
  <2> QED BY <1>1, <1>5, <1>8, <2>1 DEF Continue, TypeOK
<1>10. /\ ds \in [Thread -> CallState] /\ ds[0] = c
       /\ \A k \in Thread \ {0} : ds[k] = calls[p][k]
  BY <1>1, <1>4, <1>8
<1>11. Shape(t, ds)
  <2>1. CallShape(0, ds[0], t)
    BY <1>1, <1>4, <1>7, <1>10 DEF CallShape, Booting, Waits
  <2>2. ASSUME NEW k \in Thread \ {0} PROVE CallShape(k, ds[k], t)
    <3>1. CallShape(k, calls[p][k], page[p])
      BY <1>1
    <3>2. calls[p][k].at = "idle" /\ calls[p][k].ask = "none"
      BY <1>2, <3>1 DEF CallShape
    <3> QED BY <1>10, <3>2 DEF CallShape, Waits, Booting
  <2>3. \A kind : Did(t, kind) = {}
    BY <1>7 DEF Did
  <2>4. Len(t.deeds) <= MaxDeeds
    BY <1>1, <1>2, <1>7 DEF PageShape
  <2>5. Waits(ds[0])
    BY <1>4, <1>10 DEF Waits
  <2>6. PageShape(t, ds)
    BY <1>7, <2>3, <2>4, <2>5 DEF PageShape
  <2> QED BY <1>7, <1>10, <2>1, <2>2, <2>6 DEF Shape
<1>12. page'[p] = t /\ calls'[p] = ds
  BY <1>1, <1>9 DEF TypeOK
<1>13. Grown(page[p], t)
  BY <1>2, <1>7 DEF Grown
<1>14. \A k \in Thread : \/ Kept(calls[p][k], ds[k])
                         \/ Asks(k, calls[p][k], ds[k], page[p], stored)
  <2>1. Asks(0, calls[p][0], ds[0], page[p], stored)
    BY <1>4, <1>10 DEF Asks, Boots
  <2> QED BY <1>10, <2>1 DEF Kept
<1>15. PageStep(p)
  BY <1>7, <1>11, <1>12, <1>13, <1>14 DEF PageStep
<1> QED BY <1>9, <1>11, <1>15, OnePage

(* A page that is gone: only what must be followed still is.               *)
Left(s) == [Fresh("left") EXCEPT !.deeds = s.deeds]

Followed(cs, ds) ==
  /\ ds = [k \in Thread |-> ds[k]]
  /\ \A k \in Thread : ds[k] = Afterwards(cs[k]) \/ ds[k] = Written(cs[k])

LEMMA GoneShape ==
  ASSUME NEW s, NEW cs, Shape(s, cs), s.status # "unopened",
         NEW ds, Followed(cs, ds), NEW t, t = Left(s)
  PROVE  /\ Shape(t, ds) /\ Grown(s, t) /\ t.session = None
         /\ \A k \in Thread : Kept(cs[k], ds[k])
<1>1. s \in PageState /\ PageShape(s, cs) /\ \A k \in Thread : CallShape(k, cs[k], s)
      /\ cs \in [Thread -> CallState]
  BY DEF Shape
<1>2. "left" \in PageStatus /\ s.deeds \in Seq(Deed) /\ 0 \in Thread /\ 0 \in Position
  BY <1>1, ThreadFacts, LessonAssumption DEF PageStatus, PageState, Position, Last
<1>3. /\ t \in PageState /\ t.status = "left" /\ t.deeds = s.deeds /\ t.session = None
      /\ t.saving = 0 /\ t.marked = {}
  BY <1>2 DEF Fresh, PageState, Left
<1>4. ASSUME NEW c \in CallState, NEW d, d = Written(c)
      PROVE  \/ d = Idle
             \/ d = c /\ c.at = "late"
             \/ c.ask = "append" /\ c.at = "sent" /\ d = [c EXCEPT !.at = "late"]
  BY <1>4 DEF Written
<1>5. ASSUME NEW k \in Thread
      PROVE  /\ ds[k] \in CallState /\ Kept(cs[k], ds[k]) /\ CallShape(k, ds[k], t)
             /\ k # 0 => ~Waits(ds[k])
  <2>1. PICK c \in CallState : c = cs[k] /\ CallShape(k, c, s)
    BY <1>1
  <2>2. PICK d : d = ds[k]
    OBVIOUS
  <2>3. \/ d = Idle
        \/ d = c /\ c.at = "late"
        \/ c.ask = "append" /\ c.at = "sent" /\ d = [c EXCEPT !.at = "late"]
        \/ d = c /\ c.ask \in {"confirm", "create"}
    BY <1>4, <2>1, <2>2 DEF Afterwards, Followed
  <2>4. CASE d = Idle
    BY <2>1, <2>2, <2>4, IdleFacts, IdleShape DEF Kept
  <2>5. CASE d = c /\ c.at = "late"
    <3>1. CallShape(k, c, t)
      BY <1>3, <2>1, <2>5 DEF CallShape, Waits, Booting, Mounted
    <3> QED BY <2>1, <2>2, <2>5, <3>1 DEF Kept, Waits
  <2>6. CASE c.ask = "append" /\ c.at = "sent" /\ d = [c EXCEPT !.at = "late"]
    <3>1. "late" \in Stage
      BY DEF Stage
    <3>2. d \in CallState /\ d.ask = "append" /\ d.at = "late" /\ d.id = c.id
      BY <2>6, <3>1 DEF CallState
    <3>3. CallShape(k, d, t)
      BY <1>3, <2>1, <2>6, <3>2 DEF CallShape, Waits, Booting, Mounted
    <3> QED BY <2>1, <2>2, <2>6, <3>2, <3>3 DEF Kept, Waits
  <2>7. CASE d = c /\ c.ask \in {"confirm", "create"}
    <3>1. k = 0
      BY <2>1, <2>7 DEF CallShape
    <3>2. CallShape(k, d, t)
      BY <1>3, <2>1, <2>7, <3>1 DEF CallShape, Waits, Booting, Mounted
    <3> QED BY <2>1, <2>2, <2>7, <3>1, <3>2 DEF Kept
  <2> QED BY <2>3, <2>4, <2>5, <2>6, <2>7
<1>6. ds \in [Thread -> CallState]
  BY <1>5 DEF Followed
<1>7. Len(s.deeds) <= MaxDeeds /\ \A i \in DOMAIN s.deeds : i \in Thread /\ i # 0
  BY <1>1, DeedThreads DEF PageShape
<1>8. \A kind : Did(t, kind) = Did(s, kind)
  BY <1>3 DEF Did
<1>9. \A i \in Did(s, "reflection") : ~Waits(ds[i])
  BY <1>5, <1>7 DEF Did
<1>10. \A i, j \in Did(t, "step") : i # j => t.deeds[i].step # t.deeds[j].step
  BY <1>1, <1>3, <1>8 DEF PageShape
<1>11. PageShape(t, ds)
  BY <1>3, <1>7, <1>8, <1>9, <1>10 DEF PageShape, Mounted
<1>12. Grown(s, t)
  BY <1>3 DEF Grown
<1> QED BY <1>3, <1>5, <1>6, <1>11, <1>12 DEF Shape

LEMMA LeaveStep == ASSUME TypeOK, ShapesOK, NEW p \in Page, Leave(p) PROVE ClientStep
<1>1. Shape(page[p], calls[p]) /\ page[p].status # "unopened"
  BY CallFacts, ThreadFacts DEF Leave, IsMounted, Mounted
<1>2. PICK t : t = Gone(p)
  OBVIOUS
<1>3. PICK ds : ds = [k \in Thread |-> Afterwards(calls[p][k])]
  OBVIOUS
<1>4. /\ page' = [page EXCEPT ![p] = t] /\ calls' = [calls EXCEPT ![p] = ds]
      /\ UNCHANGED <<learner, stream, acked>>
  BY <1>2, <1>3 DEF Leave
<1>5. t = Left(page[p])
  BY <1>2 DEF Gone, Left
<1>6. Followed(calls[p], ds)
  BY <1>3 DEF Followed
<1>7. /\ Shape(t, ds) /\ Grown(page[p], t) /\ t.session = None
      /\ \A k \in Thread : Kept(calls[p][k], ds[k])
  BY <1>1, <1>5, <1>6, GoneShape
<1>8. page'[p] = t /\ calls'[p] = ds
  BY <1>4 DEF TypeOK
<1>9. PageStep(p)
  BY <1>1, <1>7, <1>8 DEF PageStep
<1> QED BY <1>4, <1>7, <1>9, OnePage

LEMMA ReloadStep == ASSUME TypeOK, ShapesOK, NEW tab \in Tab, Reload(tab) PROVE ClientStep
<1> DEFINE OfTab(p) == TabOf[p] = tab /\ page[p].status # "unopened"
<1>1. /\ page' = [p \in Page |-> IF OfTab(p) THEN Gone(p) ELSE page[p]]
      /\ calls' = [p \in Page |-> [k \in Thread |->
           IF OfTab(p) THEN Written(calls[p][k]) ELSE calls[p][k]]]
      /\ UNCHANGED <<learner, stream, acked>>
  BY DEF Reload
<1>2. ASSUME NEW p \in Page PROVE PageStep(p)
  <2>1. Shape(page[p], calls[p]) /\ calls[p] \in [Thread -> CallState]
    BY CallFacts, ThreadFacts
  <2>2. CASE OfTab(p)
    <3>1. PICK t : t = Gone(p)
      OBVIOUS
    <3>2. PICK ds : ds = [k \in Thread |-> Written(calls[p][k])]
      OBVIOUS
    <3>3. page'[p] = t /\ calls'[p] = ds
      BY <1>1, <2>2, <3>1, <3>2
    <3>4. t = Left(page[p])
      BY <3>1 DEF Gone, Left
    <3>5. Followed(calls[p], ds)
      BY <3>2 DEF Followed
    <3>6. /\ Shape(t, ds) /\ Grown(page[p], t) /\ t.session = None
          /\ \A k \in Thread : Kept(calls[p][k], ds[k])
      BY <2>1, <2>2, <3>4, <3>5, GoneShape
    <3> QED BY <2>2, <3>3, <3>6 DEF PageStep
  <2>3. CASE ~OfTab(p)
    <3>1. page'[p] = page[p] /\ calls'[p] = [k \in Thread |-> calls[p][k]]
      BY <1>1, <2>3
    <3>2. calls'[p] = calls[p]
      BY <2>1, <3>1
    <3> QED BY <3>1, <3>2, Unmoved
  <2> QED BY <2>2, <2>3
<1>3. \A p \in Page : Shape(page'[p], calls'[p])
  BY <1>2 DEF PageStep
<1>4. \A p \in Page : page'[p] \in PageState /\ calls'[p] \in [Thread -> CallState]
  BY <1>3 DEF Shape
<1>5. page' \in [Page -> PageState] /\ calls' \in [Page -> [Thread -> CallState]]
  BY <1>1, <1>4
<1> QED BY <1>1, <1>2, <1>5 DEF ClientStep

(* Of finitely many steps one is the furthest.                             *)
LEMMA FurthestIs ==
  ASSUME NEW S \in SUBSET StepIndex, S # {}
  PROVE  Furthest(S) \in S /\ \A j \in S : j <= Furthest(S)
<1> DEFINE T == {Steps - j : j \in S}
<1>1. S \subseteq Nat /\ Steps \in Nat /\ \A j \in S : j <= Steps
  BY PositionFacts, LessonAssumption DEF StepIndex
<1>2. T \subseteq Nat /\ T # {}
  <2>1. \A j \in S : Steps - j \in Nat
    BY <1>1
  <2> QED BY <2>1
<1>3. IsWellFoundedOn(OpToRel(<, Nat), Nat)
  BY NatLessThanWellFounded
<1> HIDE DEF T
<1>4. PICK i \in T : \A j \in T : ~(<<j, i>> \in OpToRel(<, Nat))
  BY <1>2, <1>3, WFMin
<1>5. \A j \in T : ~(j < i)
  BY <1>2, <1>4 DEF OpToRel
<1>6. PICK m \in S : i = Steps - m
  BY <1>4 DEF T
<1>7. \A j \in S : j <= m
  BY <1>1, <1>5, <1>6 DEF T
<1> QED BY <1>7 DEF Furthest

(* What the projection of the first n events of a stream has viewed.       *)
LEMMA Viewed ==
  ASSUME TypeOK, ShapesOK, RecordOK, NEW l \in Learner, NEW n \in Nat, n <= Len(stream[l])
  PROVE  /\ StepsViewed(l, n) \subseteq StepIndex
         /\ \A i \in 1..n : IsA(stream[l][i], "step") =>
              DeedOf(stream[l][i]).step \in StepsViewed(l, n)
<1>1. stream[l] \in Seq(Event) /\ DOMAIN stream[l] = 1..Len(stream[l])
      /\ Len(stream[l]) \in Nat
  BY DEF TypeOK
<1>2. \A i \in 1..n : i \in DOMAIN stream[l] /\ stream[l][i] \in Event
  BY <1>1
<1>3. ASSUME NEW i \in 1..n, IsA(stream[l][i], "step")
      PROVE  DeedOf(stream[l][i]).step \in StepIndex
  <2>1. PICK q \in Page, k \in Thread : stream[l][i] = <<q, k>>
    BY <1>2 DEF Event
  <2>2. k # 0 /\ page[q].deeds[k].kind = "step"
    BY <1>3, <2>1 DEF IsA, DeedOf
  <2>3. k \in DOMAIN page[q].deeds
    BY <1>2, <2>1, <2>2 DEF RecordOK, StreamsOK
  <2>4. page[q].deeds[k] \in Deed
    BY <2>1, <2>3, CallFacts, DeedThreads DEF PageShape
  <2>5. page[q].deeds[k].step \in StepIndex
    BY <2>2, <2>4 DEF Deed
  <2> QED BY <2>1, <2>5 DEF DeedOf
<1> QED BY <1>3 DEF StepsViewed

LEMMA ResumeIn ==
  ASSUME NEW S \in SUBSET StepIndex
  PROVE  /\ ResumeAt(S) \in Position
         /\ \A i \in S : ResumeAt(S) >= i + 1
<1>1. CASE S = {}
  BY <1>1, LessonAssumption DEF ResumeAt, Position, Last
<1>2. CASE S # {}
  <2>1. PICK m : m = Furthest(S) /\ m \in S /\ \A j \in S : j <= m
    BY <1>2, FurthestIs
  <2>2. m + 1 <= Last
    BY <2>1, LessonAssumption DEF Last, StepIndex
  <2>3. ResumeAt(S) = m + 1
    BY <1>2, <2>1, <2>2 DEF ResumeAt
  <2> QED BY <2>1, <2>3, LessonAssumption DEF Position, Last, StepIndex
<1> QED BY <1>1, <1>2

(* The page is ready: it shows, and has marked, what progress has viewed.  *)
LEMMA LoadedStep ==
  ASSUME TypeOK, ShapesOK, RecordOK, NEW p \in Page, Loaded(p)
  PROVE  /\ ClientStep
         /\ page'[p].position = ResumeAt(StepsViewed(calls[p][0].id, calls[p][0].seen))
<1>1. /\ page[p] \in PageState /\ PageShape(page[p], calls[p]) /\ 0 \in Thread
      /\ calls[p] \in [Thread -> CallState]
      /\ \A k \in Thread : CallShape(k, calls[p][k], page[p])
  BY CallFacts, ThreadFacts
<1>2. PICK c \in CallState : c = calls[p][0] /\ CallShape(0, c, page[p])
  BY <1>1
<1>3. /\ c.at = "answered" /\ c.ask = "progress" /\ c.found /\ c.id \in Learner
      /\ c.seen \in Nat /\ c.seen <= Len(stream[c.id])
  <2>1. c.at = "answered" /\ c.ask = "progress" /\ c.found
    BY <1>2 DEF Loaded, Answered
  <2>2. Honest(<<p, 0>>, c, stream, learner)
    BY <1>1, <1>2 DEF RecordOK
  <2> QED BY <1>2, <2>1, <2>2 DEF CallShape, CallState, Honest
<1>4. PICK viewed : viewed = StepsViewed(c.id, c.seen)
  OBVIOUS
<1>5. viewed \in SUBSET StepIndex /\ ResumeAt(viewed) \in Position
  BY <1>3, <1>4, Viewed, ResumeIn
<1>6. PICK n \in Position : n = ResumeAt(viewed)
  BY <1>5
<1>7. PICK t : t = [page[p] EXCEPT !.status = "ready", !.session = c.id,
                       !.shown = c.seen, !.marked = viewed, !.position = n]
  OBVIOUS
<1>8. "ready" \in PageStatus
  BY DEF PageStatus, Mounted
<1>9. page[p].deeds = <<>> /\ page[p].saving = 0 /\ page[p].status = "loading"
  BY <1>1 DEF Loaded, PageShape
<1>10. /\ t \in PageState /\ t.status = "ready" /\ t.session = c.id /\ t.marked = viewed
       /\ t.position = n /\ t.deeds = <<>> /\ t.saving = 0
  BY <1>1, <1>3, <1>5, <1>7, <1>8, <1>9 DEF PageState
<1>11. PICK d : d = IF c.seen = 0 THEN Sent("append", c.id) ELSE Idle
  OBVIOUS
<1>12. d \in CallState /\ \/ d = Idle
                          \/ d.ask = "append" /\ d.at = "sent" /\ d.id = c.id
  <2>1. "append" \in Request
    BY Requests
  <2> QED BY <1>3, <1>11, <2>1, SentFacts, IdleFacts
<1>13. PICK ds : ds = [calls[p] EXCEPT ![0] = d]
  OBVIOUS
<1>14. /\ page' = [page EXCEPT ![p] = t] /\ calls' = [calls EXCEPT ![p] = ds]
       /\ UNCHANGED <<learner, stream, acked>>
  <2>1. page' = [page EXCEPT ![p].status = "ready", ![p].session = c.id,
                             ![p].shown = c.seen, ![p].marked = viewed, ![p].position = n]
    BY <1>2, <1>4, <1>6 DEF Loaded
  <2>2. page' = [page EXCEPT ![p] = t]
    BY <1>7, <2>1 DEF TypeOK
  <2>3. Continue(p, 0, d) /\ UNCHANGED <<learner, stream, acked>>
    BY <1>2, <1>11 DEF Loaded
  <2> QED BY <1>13, <2>2, <2>3 DEF Continue, TypeOK
<1>15. /\ ds \in [Thread -> CallState] /\ ds[0] = d
       /\ \A k \in Thread \ {0} : ds[k] = calls[p][k]
  BY <1>1, <1>12, <1>13
<1>16. ASSUME NEW k \in Thread \ {0}
       PROVE  ds[k].at = "idle" /\ CallShape(k, ds[k], t)
  <2>1. CallShape(k, calls[p][k], page[p])
    BY <1>1
  <2>2. ds[k].at = "idle" /\ ds[k].ask = "none"
    BY <1>9, <1>15, <2>1 DEF CallShape
  <2> QED BY <2>2 DEF CallShape, Waits, Booting
<1>17. Shape(t, ds)
  <2>1. CallShape(0, ds[0], t)
    BY <1>3, <1>10, <1>12, <1>15, IdleShape DEF CallShape, Booting, Waits, Mounted
  <2>2. \A kind : Did(t, kind) = {}
    BY <1>10 DEF Did
  <2>3. Len(t.deeds) <= MaxDeeds
    BY <1>1, <1>9, <1>10 DEF PageShape
  <2>4. PageShape(t, ds)
    BY <1>10, <2>2, <2>3 DEF PageShape
  <2> QED BY <1>10, <1>15, <1>16, <2>1, <2>4 DEF Shape
<1>18. page'[p] = t /\ calls'[p] = ds
  BY <1>1, <1>14 DEF TypeOK
<1>19. Grown(page[p], t)
  BY <1>9, <1>10 DEF Grown
<1>20. \A k \in Thread : \/ Kept(calls[p][k], ds[k])
                         \/ Asks(k, calls[p][k], ds[k], page[p], stored)
  <2>1. d = Idle \/ Asks(0, c, d, page[p], stored)
    BY <1>3, <1>9, <1>12 DEF Asks, GoesOn
  <2> QED BY <1>2, <1>15, <2>1 DEF Kept
<1>21. Loads(p)
  BY <1>2, <1>3, <1>4, <1>9, <1>10, <1>18 DEF Loads, Answered
<1>22. PageStep(p)
  BY <1>9, <1>17, <1>18, <1>19, <1>20, <1>21 DEF PageStep
<1>23. ClientStep
  BY <1>14, <1>17, <1>22, OnePage
<1> QED BY <1>2, <1>4, <1>6, <1>10, <1>18, <1>23

-----------------------------------------------------------------------------
(* The server's steps.                                                     *)

(* Thread k of page p has its request answered, or has given it up.        *)
Replied(p, k, l, found, seen) ==
  /\ UNCHANGED <<stored, page, acked, haunted, mishaps>>
  /\ Asked(p, k) /\ Reply(p, k, l, found, seen)

LEMMA ReplyFacts ==
  ASSUME TypeOK, ShapesOK, NEW p \in Page, NEW k \in Thread,
         NEW l \in Learner, NEW found \in BOOLEAN, NEW seen \in Nat,
         Replied(p, k, l, found, seen),
         IF calls[p][k].ask = "create" THEN found ELSE l = calls[p][k].id
  PROVE  /\ ShapesOK' /\ page' \in [Page -> PageState]
         /\ calls' \in [Page -> [Thread -> CallState]]
         /\ \A q \in Page, j \in Thread : <<q, j>> # <<p, k>> => calls'[q][j] = calls[q][j]
         /\ \/ calls'[p][k] = Idle
            \/ /\ calls'[p][k].at = "answered" /\ calls'[p][k].ask = calls[p][k].ask
               /\ calls'[p][k].id = l /\ calls'[p][k].found = found
               /\ calls'[p][k].seen = seen /\ calls[p][k].at = "sent"
<1>1. /\ page \in [Page -> PageState] /\ calls \in [Page -> [Thread -> CallState]]
      /\ \A q \in Page : Shape(page[q], calls[q])
  BY DEF TypeOK, ShapesOK
<1>2. /\ CallShape(k, calls[p][k], page[p]) /\ calls[p][k] \in CallState
      /\ PageShape(page[p], calls[p])
  BY CallFacts
<1>3. PICK a : a = [calls[p][k] EXCEPT !.at = "answered", !.id = l,
                                       !.found = found, !.seen = seen]
  OBVIOUS
<1>4. "answered" \in Stage
  BY DEF Stage
<1>5. /\ a \in CallState /\ a.at = "answered" /\ a.ask = calls[p][k].ask /\ a.id = l
      /\ a.found = found /\ a.seen = seen
  BY <1>2, <1>3, <1>4 DEF CallState
<1>6. PICK c : c = IF calls[p][k].at = "late" THEN Idle ELSE a
  OBVIOUS
<1>7. calls[p][k].at \in {"sent", "late"} /\ Continue(p, k, c) /\ page' = page
  BY <1>3, <1>6 DEF Replied, Asked, Reply
<1>8. c \in CallState /\ CallShape(k, c, page[p])
  <2>1. CASE calls[p][k].at = "late"
    BY <1>6, <2>1, IdleFacts, IdleShape
  <2>2. CASE calls[p][k].at = "sent"
    <3>1. c = a
      BY <1>6, <2>2
    <3> QED BY <1>2, <1>5, <2>2, <3>1 DEF CallShape, Waits, Booting
  <2> QED BY <1>7, <2>1, <2>2
<1>9. Waits(c) <=> Waits(calls[p][k])
  BY <1>5, <1>6, <1>7, IdleFacts DEF Waits
<1>10. PICK ds : ds = [calls[p] EXCEPT ![k] = c]
  OBVIOUS
<1>11. Shape(page[p], ds)
  <2>1. page[p].saving = k /\ k # 0 => Waits(c)
    BY <1>2, <1>9 DEF PageShape
  <2>2. page[p].status = "loading" /\ k = 0 => Waits(c)
    BY <1>2, <1>9 DEF PageShape
  <2>3. page[p] \in PageState /\ Shape(page[p], calls[p])
    BY <1>1
  <2> QED BY <1>8, <1>9, <1>10, <2>1, <2>2, <2>3, ShapeKept
<1>12. calls' = [calls EXCEPT ![p] = ds]
  BY <1>1, <1>7, <1>10 DEF Continue
<1>13. ds \in [Thread -> CallState]
  BY <1>11 DEF Shape
<1>14. calls' \in [Page -> [Thread -> CallState]]
  BY <1>1, <1>12, <1>13
<1>15. \A q \in Page : Shape(page'[q], calls'[q])
  BY <1>1, <1>7, <1>11, <1>12
<1>16. /\ calls'[p] = ds /\ \A q \in Page \ {p} : calls'[q] = calls[q]
       /\ ds[k] = c /\ \A j \in Thread \ {k} : ds[j] = calls[p][j]
  BY <1>1, <1>10, <1>12
<1>17. \A q \in Page, j \in Thread : <<q, j>> # <<p, k>> => calls'[q][j] = calls[q][j]
  BY <1>16
<1> QED BY <1>1, <1>5, <1>6, <1>7, <1>14, <1>15, <1>16, <1>17 DEF ShapesOK

-----------------------------------------------------------------------------
(* The record: RecordOK is kept by the browser.                            *)

LEMMA EventsTyped ==
  ASSUME TypeOK, NEW l \in Learner
  PROVE  /\ stream[l] \in Seq(Event) /\ Len(stream[l]) \in Nat
         /\ DOMAIN stream[l] = 1..Len(stream[l])
         /\ \A i \in DOMAIN stream[l] :
              /\ stream[l][i] \in Event /\ stream[l][i][1] \in Page
              /\ stream[l][i][2] \in Thread
              /\ stream[l][i] = <<stream[l][i][1], stream[l][i][2]>>
<1>1. stream[l] \in Seq(Event)
  BY DEF TypeOK
<1> QED BY <1>1 DEF Event

LEMMA HonestAfter ==
  ASSUME TypeOK, ShapesOK, RecordOK, NEW p \in Page, NEW k \in Thread, NEW d \in CallState,
         \/ Kept(calls[p][k], d)
         \/ Asks(k, calls[p][k], d, page[p], stored)
  PROVE  Honest(<<p, k>>, d, stream, learner)
<1>1. /\ calls[p][k] \in CallState /\ CallShape(k, calls[p][k], page[p])
      /\ Honest(<<p, k>>, calls[p][k], stream, learner)
      /\ page[p] \in PageState
  BY CallFacts DEF RecordOK
<1>2. PICK e : e = <<p, k>>
  OBVIOUS
<1>3. None \notin Learner /\ e[1] = p /\ e[2] = k
  BY <1>2, LessonAssumption
<1>4. CASE d = calls[p][k]
  BY <1>1, <1>4
<1>5. CASE d = Idle
  BY <1>5, IdleFacts DEF Honest
<1>6. CASE calls[p][k].ask = "append" /\ calls[p][k].at = "sent"
           /\ d = [calls[p][k] EXCEPT !.at = "late"]
  <2>1. d.ask = "append" /\ d.at = "late" /\ d.id = calls[p][k].id
    BY <1>1, <1>6 DEF CallState
  <2> QED BY <1>1, <1>6, <2>1 DEF Honest
<1>7. CASE d.at = "sent" /\ Writes(k, d, page[p])
  <2>1. learner[d.id] # "unborn" /\ d.ask = "append"
    BY <1>7 DEF Writes, RecordOK
  <2>2. ~Recorded(e, stream)
    BY <1>2, <1>3, <1>7, EventsTyped DEF Recorded, In, Writes, RecordOK, StreamsOK
  <2> QED BY <1>2, <1>3, <1>7, <2>1, <2>2 DEF Honest
<1>8. CASE d.at = "sent" /\ GoesOn(k, calls[p][k], d, page[p])
  <2>1. d.id = calls[p][k].id /\ calls[p][k].at = "answered" /\ calls[p][k].found
    BY <1>8 DEF GoesOn
  <2>2. d.id \in Learner => learner[d.id] # "unborn"
    BY <1>1, <2>1 DEF Honest
  <2>3. CASE /\ d.ask = "progress"
             /\ calls[p][k].ask = "append" \/ (k = 0 /\ calls[p][k].ask = "resume")
    BY <1>1, <1>2, <1>3, <1>8, <2>1, <2>2, <2>3 DEF Honest
  <2>4. CASE d.ask = "append" /\ k = 0 /\ page[p].status = "loading"
    <3>1. ~Recorded(e, stream)
      BY <1>2, <1>3, <2>4, EventsTyped DEF Recorded, In, RecordOK, StreamsOK
    <3> QED BY <1>2, <1>3, <1>8, <2>2, <2>4, <3>1 DEF Honest
  <2>5. CASE d.ask = "resume"
    BY <1>8, <2>2, <2>5 DEF Honest
  <2> QED BY <1>8, <2>3, <2>4, <2>5 DEF GoesOn
<1>9. CASE d.at = "sent" /\ Boots(k, d, stored)
  <2>1. d.id \in Learner => learner[d.id] # "unborn"
    BY <1>3, <1>9 DEF Boots, RecordOK
  <2> QED BY <1>9, <2>1 DEF Honest, Boots
<1> QED BY <1>4, <1>5, <1>6, <1>7, <1>8, <1>9 DEF Kept, Asks

LEMMA ClientRecord ==
  ASSUME TypeOK, ShapesOK, RecordOK, ClientStep,
         stored' # None => learner[stored'] # "unborn"
  PROVE  RecordOK'
<1>1. UNCHANGED <<learner, stream>> /\ \A p \in Page : PageStep(p)
  BY DEF ClientStep
<1>2. StreamsOK(stream', learner', page')
  <2> SUFFICES ASSUME NEW l \in Learner, NEW i \in DOMAIN stream[l]
               PROVE  /\ learner[l] # "unborn"
                      /\ IF stream[l][i][2] = 0
                           THEN page'[stream[l][i][1]].status \notin {"unopened", "loading"}
                           ELSE stream[l][i][2] \in DOMAIN page'[stream[l][i][1]].deeds
    BY <1>1 DEF StreamsOK
  <2>1. /\ learner[l] # "unborn"
        /\ IF stream[l][i][2] = 0
             THEN page[stream[l][i][1]].status \notin {"unopened", "loading"}
             ELSE stream[l][i][2] \in DOMAIN page[stream[l][i][1]].deeds
    BY DEF RecordOK, StreamsOK
  <2>2. stream[l][i][1] \in Page
    BY EventsTyped
  <2>3. Grown(page[stream[l][i][1]], page'[stream[l][i][1]])
    BY <1>1, <2>2 DEF PageStep
  <2> QED BY <2>1, <2>3 DEF Grown
<1>3. \A e \in acked' : Recorded(e, stream')
  <2>1. ASSUME NEW p \in Page, NEW k \in Thread, Acknowledges(p, k)
        PROVE  Recorded(<<p, k>>, stream)
    <3>1. Honest(<<p, k>>, calls[p][k], stream, learner) /\ CallShape(k, calls[p][k], page[p])
      BY CallFacts DEF RecordOK
    <3>2. calls[p][k].ask = "append" /\ calls[p][k].at = "answered" /\ calls[p][k].found
      BY <2>1 DEF Acknowledges, Answered
    <3> QED BY <3>1, <3>2 DEF Honest, Recorded, CallShape
  <2>2. \A e \in acked : Recorded(e, stream)
    BY DEF RecordOK
  <2>3. CASE acked' = acked
    BY <1>1, <2>2, <2>3
  <2>4. CASE \E p \in Page, k \in Thread : Acknowledges(p, k)
    BY <1>1, <2>1, <2>2, <2>4 DEF Acknowledges
  <2> QED BY <2>3, <2>4 DEF ClientStep
<1>4. ASSUME NEW p \in Page
      PROVE  page'[p].session # None => learner[page'[p].session] # "unborn"
  <2>1. CASE page'[p].session = page[p].session
    BY <2>1 DEF RecordOK
  <2>2. CASE Loads(p)
    <3>1. Honest(<<p, 0>>, calls[p][0], stream, learner) /\ CallShape(0, calls[p][0], page[p])
      BY CallFacts, ThreadFacts DEF RecordOK
    <3> QED BY <2>2, <3>1 DEF Honest, CallShape, Loads, Answered
  <2> QED BY <1>1, <2>1, <2>2 DEF PageStep
<1>5. ASSUME NEW p \in Page, NEW k \in Thread
      PROVE  Honest(<<p, k>>, calls'[p][k], stream, learner)
  <2>1. calls'[p][k] \in CallState
    BY DEF ClientStep
  <2>2. \/ Kept(calls[p][k], calls'[p][k])
        \/ Asks(k, calls[p][k], calls'[p][k], page[p], stored)
    BY <1>1 DEF PageStep
  <2> QED BY <2>1, <2>2, HonestAfter
<1>6. OnceOK(stream')
  BY <1>1 DEF RecordOK
<1> QED BY <1>1, <1>2, <1>3, <1>4, <1>5, <1>6 DEF RecordOK

(* And by the server: learners are born, and erased once.                  *)
LearnersAge ==
  /\ learner' \in [Learner -> {"unborn", "known", "erased"}]
  /\ \A l \in Learner : /\ learner[l] # "unborn" => learner'[l] # "unborn"
                        /\ learner[l] = "erased" => learner'[l] = "erased"

LEMMA RecordUnder ==
  ASSUME TypeOK, ShapesOK, RecordOK, LearnersAge, UNCHANGED <<stored, page, acked, stream>>,
         \A p \in Page, k \in Thread :
           \/ calls'[p][k] = calls[p][k]
           \/ Honest(<<p, k>>, calls'[p][k], stream, learner')
  PROVE  RecordOK'
<1>1. StreamsOK(stream', learner', page')
  BY DEF RecordOK, StreamsOK, LearnersAge
<1>2. ASSUME NEW p \in Page, NEW k \in Thread
      PROVE  Honest(<<p, k>>, calls'[p][k], stream, learner')
  <2>1. /\ Honest(<<p, k>>, calls[p][k], stream, learner)
        /\ CallShape(k, calls[p][k], page[p])
    BY CallFacts DEF RecordOK
  <2>2. CASE calls'[p][k] = calls[p][k]
    <3>1. PICK c : c = calls[p][k]
      OBVIOUS
    <3>2. PICK e : e = <<p, k>>
      OBVIOUS
    <3>3. c.at = "answered" /\ ~c.found => c.id \in Learner
      BY <2>1, <3>1 DEF CallShape
    <3>4. Honest(e, c, stream, learner')
      BY <2>1, <3>1, <3>2, <3>3 DEF Honest, LearnersAge
    <3> QED BY <2>2, <3>1, <3>2, <3>4
  <2> QED BY <2>2
<1>3. /\ stored' # None => learner'[stored'] # "unborn"
      /\ \A p \in Page : page'[p].session # None => learner'[page'[p].session] # "unborn"
  <2>1. stored \in Learner \cup {None} /\ \A p \in Page : page[p].session \in Learner \cup {None}
    BY DEF TypeOK, PageState
  <2> QED BY <2>1 DEF RecordOK, LearnersAge
<1>4. OnceOK(stream') /\ \A e \in acked' : Recorded(e, stream')
  BY DEF RecordOK
<1> QED BY <1>1, <1>2, <1>3, <1>4 DEF RecordOK

(* What an answer of the server is.                                        *)
LEMMA HonestReply ==
  ASSUME TypeOK, ShapesOK, RecordOK, NEW p \in Page, NEW k \in Thread,
         NEW l \in Learner, NEW found \in BOOLEAN, NEW seen \in Nat,
         Replied(p, k, l, found, seen),
         IF calls[p][k].ask = "create" THEN found ELSE l = calls[p][k].id,
         LearnersAge, UNCHANGED stream,
         learner'[l] # "unborn", ~found => learner'[l] = "erased",
         calls[p][k].ask # "append" \/ ~found,
         calls[p][k].ask = "progress" /\ found => seen = Len(stream[l])
  PROVE  RecordOK' /\ ShapesOK' /\ page' \in [Page -> PageState]
         /\ calls' \in [Page -> [Thread -> CallState]]
<1>1. /\ ShapesOK' /\ page' \in [Page -> PageState]
      /\ calls' \in [Page -> [Thread -> CallState]]
      /\ \A q \in Page, j \in Thread : <<q, j>> # <<p, k>> => calls'[q][j] = calls[q][j]
      /\ \/ calls'[p][k] = Idle
         \/ /\ calls'[p][k].at = "answered" /\ calls'[p][k].ask = calls[p][k].ask
            /\ calls'[p][k].id = l /\ calls'[p][k].found = found
            /\ calls'[p][k].seen = seen /\ calls[p][k].at = "sent"
  BY ReplyFacts
<1>2. Honest(<<p, k>>, calls'[p][k], stream, learner')
  <2>1. PICK e, d : e = <<p, k>> /\ d = calls'[p][k]
    OBVIOUS
  <2>2. e[2] = k /\ Honest(e, calls[p][k], stream, learner)
    BY <2>1 DEF RecordOK
  <2>3. CASE d = Idle
    BY <2>1, <2>3, IdleFacts DEF Honest
  <2>4. CASE d.at = "answered" /\ d.ask = calls[p][k].ask /\ d.id = l /\ d.found = found
             /\ d.seen = seen
    <3>1. d.ask = "progress" /\ e[2] # 0 => In(e, stream, l)
      BY <2>2, <2>4 DEF Honest
    <3>2. d.ask = "progress" /\ d.found =>
            /\ d.seen <= Len(stream[l])
            /\ e[2] # 0 => \E i \in 1..d.seen : stream[l][i] = e
      BY <2>4, <3>1, EventsTyped DEF In
    <3>3. ~(d.ask = "append" /\ d.found)
      BY <2>4
    <3>4. learner'[d.id] # "unborn" /\ (~d.found => learner'[d.id] = "erased")
      BY <2>4
    <3>5. d.id = l /\ d.at = "answered"
      BY <2>4
    <3>6. Honest(e, d, stream, learner')
      BY <3>1, <3>2, <3>3, <3>4, <3>5 DEF Honest
    <3> QED BY <2>1, <3>6
  <2> QED BY <1>1, <2>1, <2>3, <2>4
<1>3. \A q \in Page, j \in Thread :
        \/ calls'[q][j] = calls[q][j]
        \/ Honest(<<q, j>>, calls'[q][j], stream, learner')
  BY <1>1, <1>2
<1>4. UNCHANGED <<stored, page, acked, stream>>
  BY DEF Replied
<1> QED BY <1>1, <1>3, <1>4, RecordUnder

LEMMA CreateKeeps ==
  ASSUME TypeOK, ShapesOK, RecordOK, NEW p \in Page, NEW k \in Thread, CreateLearner(p, k)
  PROVE  /\ RecordOK' /\ ShapesOK' /\ page' \in [Page -> PageState]
         /\ calls' \in [Page -> [Thread -> CallState]]
         /\ LearnersAge /\ UNCHANGED stream
         /\ \E l \in Learner, found \in BOOLEAN, seen \in Nat :
              /\ Replied(p, k, l, found, seen) /\ calls[p][k].ask = "create" /\ found
              /\ learner[l] = "unborn" /\ \A m \in Learner \ {l} : learner'[m] = learner[m]
<1>1. PICK l \in Learner : /\ learner[l] = "unborn"
                           /\ learner' = [learner EXCEPT ![l] = "known"]
                           /\ Reply(p, k, l, TRUE, 0)
  BY DEF CreateLearner
<1>2. LearnersAge /\ learner'[l] = "known" /\ \A m \in Learner \ {l} : learner'[m] = learner[m]
  BY <1>1 DEF LearnersAge, TypeOK
<1>3. Replied(p, k, l, TRUE, 0) /\ UNCHANGED stream /\ calls[p][k].ask = "create"
  BY <1>1 DEF Replied, CreateLearner
<1>4. RecordOK' /\ ShapesOK' /\ page' \in [Page -> PageState]
      /\ calls' \in [Page -> [Thread -> CallState]]
  BY <1>2, <1>3, HonestReply
<1> QED BY <1>1, <1>2, <1>3, <1>4

(* A request that is not a creation names a learner.                       *)
LEMMA AskedOf ==
  ASSUME TypeOK, ShapesOK, RecordOK, NEW p \in Page, NEW k \in Thread, Asked(p, k),
         calls[p][k].ask # "create"
  PROVE  calls[p][k].id \in Learner /\ learner[calls[p][k].id] # "unborn"
<1>1. CallShape(k, calls[p][k], page[p]) /\ Honest(<<p, k>>, calls[p][k], stream, learner)
  BY CallFacts DEF RecordOK
<1> QED BY <1>1 DEF CallShape, Honest, Asked

LEMMA ReadKeeps ==
  ASSUME TypeOK, ShapesOK, RecordOK, NEW p \in Page, NEW k \in Thread, ReadRecord(p, k)
  PROVE  /\ RecordOK' /\ ShapesOK' /\ page' \in [Page -> PageState]
         /\ calls' \in [Page -> [Thread -> CallState]]
         /\ \E seen \in Nat :
              /\ Replied(p, k, calls[p][k].id, TRUE, seen)
              /\ calls[p][k].ask = "progress" => seen = Len(stream[calls[p][k].id])
         /\ UNCHANGED <<learner, stream>>
         /\ calls[p][k].ask \in {"confirm", "resume", "progress"}
<1>1. PICK l : l = calls[p][k].id
  OBVIOUS
<1>2. /\ Asked(p, k) /\ calls[p][k].ask \in {"confirm", "resume", "progress"}
      /\ learner[l] = "known" /\ UNCHANGED <<stored, learner, stream, page, acked, haunted, mishaps>>
  BY <1>1 DEF ReadRecord
<1>3. PICK seen : seen = IF calls[p][k].ask = "progress" THEN Len(stream[l]) ELSE 0
  OBVIOUS
<1>4. Reply(p, k, l, TRUE, seen)
  BY <1>1, <1>3 DEF ReadRecord
<1>5. l \in Learner
  BY <1>1, <1>2, AskedOf
<1>6. seen \in Nat /\ LearnersAge
  BY <1>2, <1>3, <1>5, EventsTyped DEF LearnersAge, TypeOK
<1>7. Replied(p, k, l, TRUE, seen)
  BY <1>2, <1>4 DEF Replied
<1>8. RecordOK' /\ ShapesOK' /\ page' \in [Page -> PageState]
      /\ calls' \in [Page -> [Thread -> CallState]]
  <2>1. learner'[l] # "unborn"
    BY <1>2
  <2>2. calls[p][k].ask # "append" /\ calls[p][k].ask # "create"
    BY <1>2
  <2> QED BY <1>1, <1>2, <1>3, <1>5, <1>6, <1>7, <2>1, <2>2, HonestReply
<1> QED BY <1>1, <1>2, <1>3, <1>6, <1>7, <1>8

LEMMA NotFoundKeeps ==
  ASSUME TypeOK, ShapesOK, RecordOK, NEW p \in Page, NEW k \in Thread, NotFound(p, k)
  PROVE  /\ RecordOK' /\ ShapesOK' /\ page' \in [Page -> PageState]
         /\ calls' \in [Page -> [Thread -> CallState]]
         /\ Replied(p, k, calls[p][k].id, FALSE, 0)
         /\ UNCHANGED <<learner, stream>> /\ calls[p][k].ask # "create"
<1>1. PICK l : l = calls[p][k].id
  OBVIOUS
<1>2. /\ Asked(p, k) /\ calls[p][k].ask # "create" /\ Reply(p, k, l, FALSE, 0)
      /\ learner[l] # "known" /\ UNCHANGED <<stored, learner, stream, page, acked, haunted, mishaps>>
  BY <1>1 DEF NotFound
<1>3. l \in Learner /\ learner[l] = "erased"
  BY <1>1, <1>2, AskedOf DEF TypeOK
<1>4. LearnersAge
  BY <1>2 DEF LearnersAge, TypeOK
<1>5. Replied(p, k, l, FALSE, 0)
  BY <1>2 DEF Replied
<1>6. learner'[l] # "unborn" /\ learner'[l] = "erased"
  BY <1>2, <1>3
<1>7. RecordOK' /\ ShapesOK' /\ page' \in [Page -> PageState]
      /\ calls' \in [Page -> [Thread -> CallState]]
  BY <1>1, <1>2, <1>3, <1>4, <1>5, <1>6, HonestReply
<1> QED BY <1>1, <1>2, <1>5, <1>7

LEMMA EraseKeeps ==
  ASSUME TypeOK, ShapesOK, RecordOK, NEW l \in Learner, Erase(l)
  PROVE  RecordOK' /\ ShapesOK' /\ LearnersAge
<1>1. learner' = [learner EXCEPT ![l] = "erased"] /\ learner[l] = "known"
      /\ UNCHANGED <<stored, stream, page, calls, acked, haunted>>
  BY DEF Erase
<1>2. LearnersAge
  BY <1>1 DEF LearnersAge, TypeOK
<1>3. RecordOK'
  BY <1>1, <1>2, RecordUnder
<1>4. ShapesOK'
  BY <1>1 DEF ShapesOK
<1> QED BY <1>2, <1>3, <1>4

(* Appended(l, e): e is the new end of the stream of l.                    *)
Appended(l, e) ==
  /\ stream' \in [Learner -> Seq(Event)]
  /\ \A m \in Learner \ {l} : stream'[m] = stream[m]
  /\ Len(stream'[l]) = Len(stream[l]) + 1
  /\ DOMAIN stream'[l] = DOMAIN stream[l] \cup {Len(stream[l]) + 1}
  /\ stream'[l][Len(stream[l]) + 1] = e
  /\ \A i \in DOMAIN stream[l] : stream'[l][i] = stream[l][i]
  /\ \A f, m : m \in Learner =>
       (In(f, stream', m) <=> In(f, stream, m) \/ (m = l /\ f = e))

LEMMA AppendedFacts ==
  ASSUME TypeOK, NEW l \in Learner, NEW e \in Event,
         stream' = [stream EXCEPT ![l] = Append(@, e)]
  PROVE  Appended(l, e)
<1>1. PICK q \in Seq(Event) : q = stream[l]
  BY DEF TypeOK
<1>2. PICK r \in Seq(Event) : r = Append(q, e)
  <2>1. Append(q, e) \in Seq(Event)
    OBVIOUS
  <2> QED BY <2>1
<1>3. /\ Len(r) = Len(q) + 1 /\ DOMAIN r = DOMAIN q \cup {Len(q) + 1}
      /\ r[Len(q) + 1] = e /\ \A i \in DOMAIN q : r[i] = q[i]
  <2>1. Len(q) \in Nat /\ DOMAIN q = 1..Len(q) /\ DOMAIN r = 1..Len(r) /\ Len(r) = Len(q) + 1
    BY <1>1, <1>2
  <2> QED BY <1>1, <1>2, <2>1
<1>4. /\ stream' \in [Learner -> Seq(Event)] /\ stream'[l] = r
      /\ \A m \in Learner \ {l} : stream'[m] = stream[m]
  BY <1>1, <1>2 DEF TypeOK
<1>5. ASSUME NEW f, NEW m \in Learner
      PROVE  In(f, stream', m) <=> In(f, stream, m) \/ (m = l /\ f = e)
  <2>1. CASE m = l
    BY <1>1, <1>3, <1>4, <2>1 DEF In
  <2>2. CASE m # l
    BY <1>4, <2>2 DEF In
  <2> QED BY <2>1, <2>2
<1>6. \A f, m : m \in Learner =>
        (In(f, stream', m) <=> In(f, stream, m) \/ (m = l /\ f = e))
  BY <1>5
<1> QED BY <1>1, <1>3, <1>4, <1>6 DEF Appended

LEMMA AppendKeeps ==
  ASSUME TypeOK, ShapesOK, RecordOK, NEW p \in Page, NEW k \in Thread, AppendEvent(p, k)
  PROVE  /\ RecordOK' /\ ShapesOK' /\ page' \in [Page -> PageState]
         /\ calls' \in [Page -> [Thread -> CallState]]
         /\ Appended(calls[p][k].id, <<p, k>>)
         /\ Replied(p, k, calls[p][k].id, TRUE, 0)
         /\ UNCHANGED learner /\ calls[p][k].ask = "append"
         /\ calls[p][k].id \in Learner /\ ~Recorded(<<p, k>>, stream)
<1>1. PICK l : l = calls[p][k].id
  OBVIOUS
<1>2. PICK e : e = <<p, k>>
  OBVIOUS
<1>3. e \in Event /\ e[1] = p /\ e[2] = k
  BY <1>2 DEF Event
<1>4. /\ Asked(p, k) /\ calls[p][k].ask = "append" /\ learner[l] = "known"
      /\ stream' = [stream EXCEPT ![l] = Append(@, e)]
      /\ Reply(p, k, l, TRUE, 0)
      /\ UNCHANGED <<stored, learner, page, acked, haunted, mishaps>>
  BY <1>1, <1>2 DEF AppendEvent
<1>5. /\ CallShape(k, calls[p][k], page[p])
      /\ Honest(e, calls[p][k], stream, learner)
      /\ calls[p][k].at \in {"sent", "late"}
  BY <1>2, <1>4, CallFacts DEF RecordOK, Asked
<1>6. l \in Learner /\ ~Recorded(e, stream)
  BY <1>1, <1>4, <1>5 DEF CallShape, Honest
<1>7. Appended(l, e)
  BY <1>3, <1>4, <1>6, AppendedFacts
<1>8. Replied(p, k, l, TRUE, 0)
  BY <1>4 DEF Replied
<1>9. /\ ShapesOK' /\ page' \in [Page -> PageState]
      /\ calls' \in [Page -> [Thread -> CallState]]
      /\ \A q \in Page, j \in Thread : <<q, j>> # <<p, k>> => calls'[q][j] = calls[q][j]
      /\ \/ calls'[p][k] = Idle
         \/ /\ calls'[p][k].at = "answered" /\ calls'[p][k].ask = "append"
            /\ calls'[p][k].id = l /\ calls'[p][k].found = TRUE
  <2>1. TRUE \in BOOLEAN /\ 0 \in Nat /\ calls[p][k].ask # "create"
    BY <1>4
  <2> QED BY <1>1, <1>4, <1>6, <1>8, <2>1, ReplyFacts
<1>10. StreamsOK(stream', learner', page')
  <2>1. IF k = 0 THEN page[p].status \notin {"unopened", "loading"}
                 ELSE k \in DOMAIN page[p].deeds
    BY <1>4, <1>5 DEF CallShape
  <2> SUFFICES ASSUME NEW m \in Learner, NEW i \in DOMAIN stream'[m]
               PROVE  /\ learner[m] # "unborn"
                      /\ IF stream'[m][i][2] = 0
                           THEN page[stream'[m][i][1]].status \notin {"unopened", "loading"}
                           ELSE stream'[m][i][2] \in DOMAIN page[stream'[m][i][1]].deeds
    BY <1>4 DEF StreamsOK
  <2>2. CASE i \in DOMAIN stream[m] /\ stream'[m][i] = stream[m][i]
    BY <2>2 DEF RecordOK, StreamsOK
  <2>3. CASE m = l /\ stream'[m][i] = e
    BY <1>3, <1>4, <2>1, <2>3
  <2> QED BY <1>7, <2>2, <2>3 DEF Appended
<1>11. OnceOK(stream')
  <2> SUFFICES ASSUME NEW m \in Learner, NEW n \in Learner,
                      NEW i \in DOMAIN stream'[m], NEW j \in DOMAIN stream'[n],
                      stream'[m][i] = stream'[n][j]
               PROVE  m = n /\ i = j
    BY DEF OnceOK
  <2>1. \/ i \in DOMAIN stream[m] /\ stream'[m][i] = stream[m][i]
        \/ m = l /\ i = Len(stream[l]) + 1 /\ stream'[m][i] = e
    BY <1>7 DEF Appended
  <2>2. \/ j \in DOMAIN stream[n] /\ stream'[n][j] = stream[n][j]
        \/ n = l /\ j = Len(stream[l]) + 1 /\ stream'[n][j] = e
    BY <1>7 DEF Appended
  <2>3. \A x \in Learner : \A y \in DOMAIN stream[x] : stream[x][y] # e
    BY <1>6 DEF Recorded, In
  <2>4. OnceOK(stream)
    BY DEF RecordOK
  <2> QED BY <2>1, <2>2, <2>3, <2>4 DEF OnceOK
<1>12. ASSUME NEW q \in Page, NEW j \in Thread
       PROVE  Honest(<<q, j>>, calls'[q][j], stream', learner)
  <2>1. PICK f, d : f = <<q, j>> /\ d = calls'[q][j]
    OBVIOUS
  <2>2. CASE f = e /\ d = Idle
    BY <2>1, <2>2, IdleFacts DEF Honest
  <2>3. CASE f = e /\ d.at = "answered" /\ d.ask = "append" /\ d.id = l /\ d.found = TRUE
    <3>1. In(f, stream', d.id) /\ learner[d.id] # "unborn"
      BY <1>4, <1>6, <1>7, <2>3 DEF Appended
    <3>2. Honest(f, d, stream', learner)
      BY <2>3, <3>1 DEF Honest
    <3> QED BY <2>1, <3>2
  <2>4. CASE f # e
    <3>1. d = calls[q][j]
      BY <1>2, <1>9, <2>1, <2>4
    <3>2. Honest(f, d, stream, learner) /\ CallShape(j, d, page[q]) /\ d \in CallState
      BY <2>1, <3>1, CallFacts DEF RecordOK
    <3>3. ~Recorded(f, stream) => ~Recorded(f, stream')
      BY <1>7, <2>4 DEF Recorded, Appended
    <3>4. d.at # "idle" /\ d.ask # "create" => d.id \in Learner
      BY <3>2 DEF CallShape
    <3>5. d.id \in Learner => /\ In(f, stream, d.id) => In(f, stream', d.id)
                              /\ Len(stream[d.id]) <= Len(stream'[d.id])
                              /\ \A i \in DOMAIN stream[d.id] : stream'[d.id][i] = stream[d.id][i]
      <4>1. Len(stream[l]) <= Len(stream'[l]) /\ \A m \in Learner : Len(stream[m]) \in Nat
        BY <1>6, <1>7, EventsTyped DEF Appended
      <4> QED BY <1>7, <4>1 DEF Appended
    <3>6. d.ask = "progress" => d.at # "idle"
      BY <3>2 DEF CallShape
    <3>7. d.ask = "progress" /\ d.at = "answered" /\ d.found =>
            /\ d.seen <= Len(stream'[d.id])
            /\ f[2] # 0 => \E i \in 1..d.seen : stream'[d.id][i] = f
      <4> SUFFICES ASSUME d.ask = "progress", d.at = "answered", d.found
                   PROVE  /\ d.seen <= Len(stream'[d.id])
                          /\ f[2] # 0 => \E i \in 1..d.seen : stream'[d.id][i] = f
        OBVIOUS
      <4>1. d.id \in Learner
        BY <3>4
      <4>2. /\ d.seen <= Len(stream[d.id])
            /\ f[2] # 0 => \E i \in 1..d.seen : stream[d.id][i] = f
        BY <3>2 DEF Honest
      <4>3. /\ DOMAIN stream[d.id] = 1..Len(stream[d.id]) /\ Len(stream[d.id]) \in Nat
            /\ d.seen \in Nat /\ stream'[d.id] \in Seq(Event)
        BY <1>7, <3>2, <4>1, EventsTyped DEF CallState, Appended
      <4>4. d.seen <= Len(stream'[d.id])
        BY <3>5, <4>1, <4>2, <4>3
      <4>5. \A i \in 1..d.seen : i \in DOMAIN stream[d.id]
        BY <4>2, <4>3
      <4> QED BY <3>5, <4>1, <4>2, <4>4, <4>5
    <3>8. Honest(f, d, stream', learner)
      BY <3>2, <3>3, <3>4, <3>5, <3>6, <3>7 DEF Honest
    <3> QED BY <2>1, <3>8
  <2> QED BY <1>2, <1>9, <2>1, <2>2, <2>3, <2>4
<1>13. \A f \in acked' : Recorded(f, stream')
  BY <1>4, <1>7 DEF RecordOK, Recorded, Appended
<1>14. RecordOK'
  BY <1>4, <1>10, <1>11, <1>12, <1>13 DEF RecordOK
<1> QED BY <1>1, <1>2, <1>4, <1>6, <1>7, <1>8, <1>9, <1>14

-----------------------------------------------------------------------------
(* Pages and those before them.                                            *)

LEMMA ClientTabs == ASSUME TypeOK, TabsOK, ClientStep PROVE TabsOK'
<1> SUFFICES ASSUME NEW p \in Page, NEW q \in Page, Before(p, q),
                    page'[q].status # "unopened"
             PROVE  page'[p].status = "left"
  BY DEF TabsOK, Before
<1>1. page[p].status \in PageStatus /\ PageStep(p) /\ PageStep(q)
  BY DEF TypeOK, PageState, ClientStep
<1>2. CASE page[q].status # "unopened"
  BY <1>1, <1>2 DEF TabsOK, PageStep, Grown
<1>3. CASE page[q].status = "unopened"
  <2>1. Mount(q) /\ TabOf[p] = TabOf[q] /\ p < q
    BY <1>1, <1>3 DEF PageStep, Before
  <2>2. ~IsMounted(p) /\ page[p].status # "unopened"
    BY <2>1 DEF Mount
  <2> QED BY <1>1, <2>2 DEF IsMounted, PageStatus, PageStep, Grown
<1> QED BY <1>2, <1>3

(* What was done stays as it was.                                          *)
LEMMA DeedsStay ==
  ASSUME TypeOK, RecordOK, ClientStep, NEW l \in Learner, NEW i \in DOMAIN stream[l],
         NEW e, e = stream[l][i]
  PROVE  /\ stream'[l] = stream[l] /\ e \in Event /\ e[1] \in Page /\ e[2] \in Thread
         /\ e = <<e[1], e[2]>>
         /\ e[2] # 0 => /\ e[2] \in DOMAIN page[e[1]].deeds
                        /\ page'[e[1]].deeds[e[2]] = page[e[1]].deeds[e[2]]
<1>1. e \in Event /\ e[1] \in Page /\ e[2] \in Thread /\ e = <<e[1], e[2]>>
  BY EventsTyped
<1>2. e[2] # 0 => e[2] \in DOMAIN page[e[1]].deeds
  BY DEF RecordOK, StreamsOK
<1>3. Grown(page[e[1]], page'[e[1]]) /\ stream' = stream
  BY <1>1 DEF ClientStep, PageStep
<1> QED BY <1>1, <1>2, <1>3 DEF Grown

LEMMA ClientOrder ==
  ASSUME TypeOK, ShapesOK, RecordOK, OrderOK, ClientStep PROVE OrderOK'
<1> SUFFICES ASSUME NEW l \in Learner, NEW i \in DOMAIN stream'[l],
                    NEW j \in DOMAIN stream'[l], i < j,
                    stream'[l][i][1] = stream'[l][j][1],
                    IsA(stream[l][j], "reflection")', IsA(stream[l][i], "reflection")',
                    stream'[l][j][2] < stream'[l][i][2]
             PROVE  stream'[l][j] \notin acked'
  BY DEF OrderOK
<1>1. stream' = stream
  BY DEF ClientStep
<1>2. PICK e, f : e = stream[l][j] /\ f = stream[l][i]
  OBVIOUS
<1>3. /\ i \in DOMAIN stream[l] /\ j \in DOMAIN stream[l] /\ e[1] = f[1] /\ e[2] < f[2]
      /\ e[2] # 0 /\ f[2] # 0
      /\ page'[e[1]].deeds[e[2]].kind = "reflection"
      /\ page'[f[1]].deeds[f[2]].kind = "reflection"
  BY <1>1, <1>2 DEF IsA, DeedOf
<1>4. /\ e[1] \in Page /\ e[2] \in Thread /\ e = <<e[1], e[2]>> /\ f[2] \in Thread
      /\ e[2] \in DOMAIN page[e[1]].deeds /\ f[2] \in DOMAIN page[e[1]].deeds
      /\ page[e[1]].deeds[e[2]].kind = "reflection"
      /\ page[e[1]].deeds[f[2]].kind = "reflection"
  <2>1. /\ e[1] \in Page /\ e[2] \in Thread /\ e = <<e[1], e[2]>>
        /\ e[2] \in DOMAIN page[e[1]].deeds
        /\ page'[e[1]].deeds[e[2]] = page[e[1]].deeds[e[2]]
    BY <1>2, <1>3, DeedsStay
  <2>2. /\ f[2] \in Thread /\ f[2] \in DOMAIN page[f[1]].deeds
        /\ page'[f[1]].deeds[f[2]] = page[f[1]].deeds[f[2]]
    BY <1>2, <1>3, DeedsStay
  <2> QED BY <1>3, <2>1, <2>2
<1>5. e \notin acked
  BY <1>2, <1>3, <1>4 DEF OrderOK, IsA, DeedOf
<1>6. ~Waits(calls[e[1]][e[2]])
  <2>1. PageShape(page[e[1]], calls[e[1]])
    BY <1>4, CallFacts
  <2>2. e[2] \in Did(page[e[1]], "reflection") /\ f[2] \in Did(page[e[1]], "reflection")
    BY <1>4 DEF Did
  <2> QED BY <1>3, <2>1, <2>2 DEF PageShape
<1>7. ASSUME NEW p \in Page, NEW k \in Thread, Acknowledges(p, k) PROVE e \notin acked'
  <2>1. Waits(calls[p][k]) /\ acked' = acked \cup {<<p, k>>}
    BY <1>7 DEF Acknowledges, Answered, Waits
  <2>2. e # <<p, k>>
    BY <1>4, <1>6, <2>1
  <2> QED BY <1>5, <2>1, <2>2
<1>8. e \notin acked'
  BY <1>5, <1>7 DEF ClientStep
<1> QED BY <1>1, <1>2, <1>8

(* Nobody is told anything more about a tab's earlier pages.               *)
LEMMA OldAgain ==
  ASSUME TypeOK, TabsOK, ClientStep, NEW e \in Event, NEW q \in Page,
         e \in acked', Before(e[1], q)
  PROVE  \/ Old(e, q)
         \/ page'[q] = page[q] /\ page[q].status = "unopened"
<1>1. CASE e \in acked
  BY <1>1 DEF Old
<1>2. ASSUME NEW p \in Page, NEW k \in Thread, Acknowledges(p, k), page' = page, e \notin acked
      PROVE  page'[q] = page[q] /\ page[q].status = "unopened"
  <2>1. e = <<p, k>> /\ IsMounted(p)
    BY <1>2 DEF Acknowledges
  <2>2. Before(p, q) /\ page[p].status # "left"
    BY <2>1 DEF IsMounted, Mounted
  <2> QED BY <1>2, <2>2 DEF TabsOK
<1> QED BY <1>1, <1>2 DEF ClientStep

LEMMA ClientApart ==
  ASSUME TypeOK, ShapesOK, RecordOK, TabsOK, ApartOK, ClientStep PROVE ApartOK'
<1>1. UNCHANGED <<learner, stream>>
  BY DEF ClientStep
<1> SUFFICES ASSUME NEW q \in Page, NEW l \in Learner, NEW i \in DOMAIN stream[l],
                    NEW e, e = stream[l][i], Old(e, q)'
             PROVE  Apart(q, l, i, e)'
  BY <1>1 DEF ApartOK
<1> SUFFICES /\ /\ calls'[q][0].at = "answered" /\ calls'[q][0].ask = "progress"
                /\ calls'[q][0].found /\ calls'[q][0].id = l
                => i <= calls'[q][0].seen
             /\ e[2] # 0 /\ page'[e[1]].deeds[e[2]].kind = "step" =>
                /\ page'[q].session = l =>
                     page'[e[1]].deeds[e[2]].step \in page'[q].marked
                /\ \A k \in DOMAIN page'[q].deeds :
                     /\ k # 0 /\ page'[q].deeds[k].kind = "step"
                     /\ \/ In(<<q, k>>, stream, l)
                        \/ /\ calls'[q][k].ask = "append" /\ calls'[q][k].id = l
                           /\ calls'[q][k].at \in {"sent", "late"}
                     => page'[q].deeds[k].step # page'[e[1]].deeds[e[2]].step
  BY <1>1 DEF Apart, Answered, IsA, DeedOf, Writing
<1>2. /\ e \in Event /\ e[1] \in Page /\ e[2] \in Thread
      /\ e[2] # 0 => page'[e[1]].deeds[e[2]] = page[e[1]].deeds[e[2]]
  BY DeedsStay
<1>3. /\ Shape(page'[q], calls'[q]) /\ 0 \in Thread /\ PageStep(q) /\ None \notin Learner
      /\ Shape(page[q], calls[q]) /\ page[q] \in PageState
  BY CallFacts, ThreadFacts, LessonAssumption DEF ClientStep, PageStep
<1>4. CASE page'[q] = page[q] /\ page[q].status = "unopened"
  <2>1. CallShape(0, calls'[q][0], page'[q]) /\ PageShape(page'[q], calls'[q])
    BY <1>3 DEF Shape
  <2>2. calls'[q][0].at = "idle" /\ page'[q].session = None /\ page'[q].deeds = <<>>
    BY <1>4, <2>1 DEF CallShape, PageShape
  <2> QED BY <1>3, <2>2
<1>5. CASE Old(e, q)
  <2>1. /\ Answered(q, 0, "progress") /\ calls[q][0].found /\ calls[q][0].id = l
             => i <= calls[q][0].seen
        /\ IsA(e, "step") =>
             /\ page[q].session = l => DeedOf(e).step \in page[q].marked
             /\ \A k \in DOMAIN page[q].deeds :
                  /\ IsA(<<q, k>>, "step")
                  /\ In(<<q, k>>, stream, l) \/ Writing(q, k, l)
                  => DeedOf(<<q, k>>).step # DeedOf(e).step
    BY <1>5 DEF ApartOK, Apart
  <2>2. \A k \in Thread : \/ Kept(calls[q][k], calls'[q][k])
                          \/ Asks(k, calls[q][k], calls'[q][k], page[q], stored)
    BY <1>3 DEF PageStep
  <2>3. ASSUME calls'[q][0].at = "answered", calls'[q][0].ask = "progress",
               calls'[q][0].found, calls'[q][0].id = l
        PROVE  i <= calls'[q][0].seen
    <3>1. calls'[q][0] = calls[q][0]
      <4>1. CASE Kept(calls[q][0], calls'[q][0])
        <5>1. calls[q][0] \in CallState
          BY <1>3, CallFacts
        <5>2. calls'[q][0] # Idle
          BY <2>3, IdleFacts
        <5>3. calls'[q][0] # [calls[q][0] EXCEPT !.at = "late"]
          BY <2>3, <5>1 DEF CallState
        <5> QED BY <4>1, <5>2, <5>3 DEF Kept
      <4>2. CASE Asks(0, calls[q][0], calls'[q][0], page[q], stored)
        BY <2>3, <4>2 DEF Asks
      <4> QED BY <1>3, <2>2, <4>1, <4>2
    <3> QED BY <2>1, <2>3, <3>1 DEF Answered
  <2>4. ASSUME e[2] # 0, page'[e[1]].deeds[e[2]].kind = "step"
        PROVE  /\ page'[q].session = l =>
                    page'[e[1]].deeds[e[2]].step \in page'[q].marked
               /\ \A k \in DOMAIN page'[q].deeds :
                    /\ k # 0 /\ page'[q].deeds[k].kind = "step"
                    /\ \/ In(<<q, k>>, stream, l)
                       \/ /\ calls'[q][k].ask = "append" /\ calls'[q][k].id = l
                          /\ calls'[q][k].at \in {"sent", "late"}
                    => page'[q].deeds[k].step # page'[e[1]].deeds[e[2]].step
    <3>1. IsA(e, "step") /\ DeedOf(e) = page'[e[1]].deeds[e[2]]
      BY <1>2, <2>4 DEF IsA, DeedOf
    <3>2. PICK x : x = page'[e[1]].deeds[e[2]].step
      OBVIOUS
    <3>3. page'[q].session = l => x \in page'[q].marked
      <4>1. CASE page'[q].session = None
        BY <1>3, <4>1
      <4>2. CASE page'[q].session = page[q].session
                 /\ page[q].marked \subseteq page'[q].marked
        BY <2>1, <3>1, <3>2, <4>2
      <4>3. CASE Loads(q) /\ page'[q].session = l
        <5>1. /\ calls[q][0].id = l /\ Answered(q, 0, "progress") /\ calls[q][0].found
              /\ page'[q].marked = StepsViewed(l, calls[q][0].seen)
          BY <4>3 DEF Loads
        <5>2. i <= calls[q][0].seen
          BY <2>1, <5>1
        <5>3. Honest(<<q, 0>>, calls[q][0], stream, learner) /\ calls[q][0] \in CallState
          BY <1>3, CallFacts DEF RecordOK
        <5>4. PICK n \in Nat : n = calls[q][0].seen /\ n <= Len(stream[l])
          BY <5>1, <5>3 DEF Honest, CallState, Answered
        <5>5. i \in 1..n
          BY <5>2, <5>4, EventsTyped
        <5>6. DeedOf(stream[l][i]).step \in StepsViewed(l, n)
          BY <3>1, <5>4, <5>5, Viewed
        <5> QED BY <3>1, <3>2, <5>1, <5>4, <5>6
      <4> QED BY <1>3, <4>1, <4>2, <4>3 DEF PageStep
    <3>4. ASSUME NEW k \in DOMAIN page'[q].deeds, k # 0, page'[q].deeds[k].kind = "step",
                 \/ In(<<q, k>>, stream, l)
                 \/ /\ calls'[q][k].ask = "append" /\ calls'[q][k].id = l
                    /\ calls'[q][k].at \in {"sent", "late"}
          PROVE  page'[q].deeds[k].step # x
      <4>1. k \in Thread
        BY <1>3, DeedThreads DEF Shape, PageShape
      <4>2. /\ calls[q][k] \in CallState /\ CallShape(k, calls[q][k], page[q])
            /\ Grown(page[q], page'[q])
        BY <1>3, <4>1, CallFacts DEF PageStep
      <4>3. \/ In(<<q, k>>, stream, l) \/ Writing(q, k, l)
            \/ /\ Writes(k, calls'[q][k], page[q]) /\ calls'[q][k].id = l
        <5>1. ASSUME calls'[q][k].ask = "append", calls'[q][k].id = l,
                     calls'[q][k].at \in {"sent", "late"},
                     Kept(calls[q][k], calls'[q][k])
              PROVE  Writing(q, k, l)
          <6>1. calls'[q][k] # Idle
            BY <5>1, IdleFacts
          <6>2. CASE calls'[q][k] = calls[q][k]
            BY <5>1, <6>2 DEF Writing
          <6>3. CASE calls[q][k].ask = "append" /\ calls[q][k].at = "sent"
                     /\ calls'[q][k] = [calls[q][k] EXCEPT !.at = "late"]
            <7>1. calls[q][k].id = calls'[q][k].id
              BY <4>2, <6>3 DEF CallState
            <7> QED BY <5>1, <6>3, <7>1 DEF Writing
          <6> QED BY <5>1, <6>1, <6>2, <6>3 DEF Kept
        <5>2. ASSUME calls'[q][k].ask = "append",
                     Asks(k, calls[q][k], calls'[q][k], page[q], stored)
              PROVE  Writes(k, calls'[q][k], page[q])
          BY <3>4, <5>2 DEF Asks, GoesOn, Boots
        <5> QED BY <2>2, <3>4, <4>1, <5>1, <5>2
      <4>4. CASE k \in DOMAIN page[q].deeds
        <5>1. page'[q].deeds[k] = page[q].deeds[k]
          BY <4>2, <4>4 DEF Grown
        <5>2. IsA(<<q, k>>, "step") /\ DeedOf(<<q, k>>) = page'[q].deeds[k]
          BY <3>4, <5>1 DEF IsA, DeedOf
        <5>3. ~Writes(k, calls'[q][k], page[q])
          BY <4>4 DEF Writes
        <5> QED BY <2>1, <3>1, <3>2, <4>3, <4>4, <5>2, <5>3
      <4>5. CASE k \notin DOMAIN page[q].deeds
        <5>1. ~In(<<q, k>>, stream, l)
          BY <3>4, <4>5 DEF In, RecordOK, StreamsOK
        <5>2. ~Writing(q, k, l)
          BY <3>4, <4>2, <4>5 DEF Writing, CallShape
        <5>3. page[q].session = l
          BY <4>3, <5>1, <5>2 DEF Writes
        <5>4. x \in page[q].marked
          BY <2>1, <3>1, <3>2, <5>3
        <5>5. page'[q].deeds[k].step \notin page[q].marked
          BY <3>4, <4>2, <4>5 DEF Grown
        <5> QED BY <5>4, <5>5
      <4> QED BY <4>4, <4>5
    <3> QED BY <3>2, <3>3, <3>4
  <2> QED BY <2>3, <2>4
<1>6. e \in acked' /\ Before(e[1], q)
  BY DEF Old, Before
<1> QED BY <1>2, <1>4, <1>5, <1>6, OldAgain

(* The server leaves the pages alone, and what it appends nobody was told. *)
LEMMA ReplyApart ==
  ASSUME TypeOK, ShapesOK, RecordOK, TabsOK, OrderOK, ApartOK,
         NEW p \in Page, NEW k \in Thread,
         NEW l \in Learner, NEW found \in BOOLEAN, NEW seen \in Nat,
         Replied(p, k, l, found, seen),
         IF calls[p][k].ask = "create" THEN found ELSE l = calls[p][k].id,
         \/ UNCHANGED stream
         \/ /\ Appended(l, <<p, k>>) /\ calls[p][k].ask = "append"
            /\ ~Recorded(<<p, k>>, stream),
         calls[p][k].ask = "progress" /\ found => seen = Len(stream[l])
  PROVE  TabsOK' /\ OrderOK' /\ ApartOK'
<1>1. /\ \A q \in Page, j \in Thread : <<q, j>> # <<p, k>> => calls'[q][j] = calls[q][j]
      /\ \/ calls'[p][k] = Idle
         \/ /\ calls'[p][k].at = "answered" /\ calls'[p][k].ask = calls[p][k].ask
            /\ calls'[p][k].id = l /\ calls'[p][k].found = found
            /\ calls'[p][k].seen = seen /\ calls[p][k].at = "sent"
  BY ReplyFacts
<1>2. UNCHANGED <<stored, page, acked>> /\ calls[p][k].at \in {"sent", "late"}
  BY DEF Replied, Asked
<1>3. TabsOK'
  BY <1>2 DEF TabsOK
<1>4. \A m \in Learner : \A i \in DOMAIN stream'[m] :
        \/ i \in DOMAIN stream[m] /\ stream'[m][i] = stream[m][i]
        \/ /\ stream'[m][i] = <<p, k>> /\ <<p, k>> \notin acked
           /\ m = l /\ i = Len(stream[l]) + 1
  BY DEF Appended, RecordOK
<1>5. ASSUME NEW m \in Learner, NEW i \in DOMAIN stream'[m], NEW j \in DOMAIN stream'[m],
             i < j, NEW e, NEW f, e = stream'[m][j], f = stream'[m][i], e[1] = f[1],
             IsA(e, "reflection"), IsA(f, "reflection"), e[2] < f[2]
      PROVE  e \notin acked
  <2>1. CASE e = <<p, k>> /\ <<p, k>> \notin acked
    BY <2>1
  <2>2. CASE j \in DOMAIN stream[m] /\ stream'[m][j] = stream[m][j]
    <3>1. i \in DOMAIN stream[m] /\ stream'[m][i] = stream[m][i]
      BY <1>4, <1>5, <2>2, EventsTyped
    <3> QED BY <1>5, <2>2, <3>1 DEF OrderOK
  <2> QED BY <1>4, <1>5, <2>1, <2>2
<1>6. OrderOK'
  BY <1>2, <1>5 DEF OrderOK, IsA, DeedOf
<1>7. ASSUME NEW q \in Page, NEW m \in Learner, NEW i \in DOMAIN stream'[m],
             NEW e, e = stream'[m][i], Old(e, q)
      PROVE  Apart(q, m, i, e)'
  <2>1. i \in DOMAIN stream[m] /\ e = stream[m][i]
    BY <1>4, <1>7 DEF Old
  <2>2. Apart(q, m, i, e)
    BY <1>7, <2>1 DEF ApartOK
  <2>3. ASSUME calls'[q][0].at = "answered", calls'[q][0].ask = "progress",
               calls'[q][0].found, calls'[q][0].id = m
        PROVE  i <= calls'[q][0].seen
    <3>1. CASE <<q, 0>> # <<p, k>>
      <4>1. calls'[q][0] = calls[q][0]
        BY <1>1, <3>1, ThreadFacts
      <4> QED BY <2>2, <2>3, <4>1 DEF Apart, Answered
    <3>2. CASE q = p /\ k = 0
      <4>1. calls'[p][k] # Idle
        BY <2>3, <3>2, IdleFacts
      <4>2. calls[p][k].ask = "progress" /\ found /\ l = m /\ calls'[q][0].seen = seen
        BY <1>1, <2>3, <3>2, <4>1
      <4>3. seen = Len(stream[m])
        BY <4>2
      <4> QED BY <2>1, <4>2, <4>3, EventsTyped
    <3> QED BY <3>1, <3>2
  <2>4. ASSUME NEW j \in DOMAIN page[q].deeds,
               In(<<q, j>>, stream', m) \/ Writing(q, j, m)'
        PROVE  In(<<q, j>>, stream, m) \/ Writing(q, j, m)
    <3>1. j \in Thread
      BY CallFacts, ThreadFacts, DeedThreads DEF PageShape
    <3>2. CASE <<q, j>> # <<p, k>>
      <4>1. calls'[q][j] = calls[q][j]
        BY <1>1, <3>1, <3>2
      <4>2. In(<<q, j>>, stream', m) => In(<<q, j>>, stream, m)
        BY <3>2 DEF Appended
      <4> QED BY <2>4, <4>1, <4>2 DEF Writing
    <3>3. CASE q = p /\ j = k
      <4>1. ~Writing(q, j, m)'
        <5>1. calls'[p][k].at \notin {"sent", "late"}
          BY <1>1, IdleFacts
        <5> QED BY <3>3, <5>1 DEF Writing
      <4>2. In(<<p, k>>, stream', m)
        BY <2>4, <3>3, <4>1
      <4>3. CASE UNCHANGED stream
        BY <3>3, <4>2, <4>3
      <4>4. CASE Appended(l, <<p, k>>) /\ calls[p][k].ask = "append"
        <5>1. In(<<p, k>>, stream, m) \/ m = l
          BY <4>2, <4>4 DEF Appended
        <5> QED BY <1>2, <3>3, <4>4, <5>1 DEF Writing
      <4> QED BY <4>3, <4>4
    <3> QED BY <3>2, <3>3
  <2>5. IsA(e, "step") => /\ page[q].session = m => DeedOf(e).step \in page[q].marked
                          /\ \A j \in DOMAIN page[q].deeds :
                               /\ IsA(<<q, j>>, "step")
                               /\ In(<<q, j>>, stream', m) \/ Writing(q, j, m)'
                               => DeedOf(<<q, j>>).step # DeedOf(e).step
    BY <2>2, <2>4 DEF Apart
  <2> QED BY <1>2, <2>3, <2>5 DEF Apart, Answered, IsA, DeedOf
<1>8. ApartOK'
  BY <1>2, <1>7 DEF ApartOK, Old
<1> QED BY <1>3, <1>6, <1>8

LEMMA EraseApart ==
  ASSUME TabsOK, OrderOK, ApartOK, NEW l \in Learner, Erase(l)
  PROVE  TabsOK' /\ OrderOK' /\ ApartOK'
<1>1. UNCHANGED <<stored, stream, page, calls, acked, haunted>>
  BY DEF Erase
<1>2. TabsOK' /\ OrderOK'
  BY <1>1 DEF TabsOK, OrderOK, IsA, DeedOf
<1>3. ASSUME NEW q \in Page, NEW m \in Learner, NEW i \in DOMAIN stream[m],
             NEW e, e = stream[m][i], Old(e, q)
      PROVE  Apart(q, m, i, e)'
  <2>1. Apart(q, m, i, e)
    BY <1>3 DEF ApartOK
  <2> QED BY <1>1, <2>1 DEF Apart, Answered, IsA, DeedOf, Writing
<1>4. ApartOK'
  BY <1>1, <1>3 DEF ApartOK, Old
<1> QED BY <1>2, <1>4

-----------------------------------------------------------------------------
(* One tab: what the browser holds on to is the id it has stored.          *)

LEMMA OneMounted ==
  ASSUME TypeOK, TabsOK, Single, NEW p \in Page, NEW q \in Page, IsMounted(p), IsMounted(q)
  PROVE  p = q
<1>1. p \in Nat /\ q \in Nat
  BY LessonAssumption DEF Page
<1>2. page[p].status \notin {"unopened", "left"} /\ page[q].status \notin {"unopened", "left"}
  BY DEF IsMounted, Mounted
<1>3. ~(p < q) /\ ~(q < p)
  BY <1>2 DEF TabsOK, Before, Single
<1> QED BY <1>1, <1>3

(* An event is of one learner, who is not born later.                      *)
LEMMA HeldBefore ==
  ASSUME RecordOK, NEW l \in Learner, NEW e, Holds(l, e)',
         In(e, stream', l) => In(e, stream, l),
         learner'[l] = "known" => learner[l] \in {"known", "unborn"}
  PROVE  Holds(l, e)
<1>1. learner'[l] = "known" /\ In(e, stream, l)
  BY DEF Holds, In
<1>2. learner[l] # "unborn"
  BY <1>1 DEF In, RecordOK, StreamsOK
<1> QED BY <1>1, <1>2 DEF Holds, In

LEMMA HeldOnce ==
  ASSUME RecordOK, NEW l \in Learner, NEW m \in Learner, NEW e, Holds(l, e), In(e, stream, m)
  PROVE  l = m
BY DEF RecordOK, OnceOK, Holds, In

(* Nothing of bootstrap's first requests is asked.                         *)
NoBooting == \A q \in Page : calls'[q][0].ask \in Booting => calls'[q][0] = calls[q][0]

LEMMA MineAgain ==
  ASSUME TypeOK, ShapesOK, RecordOK, TabsOK, Single, MineOK,
         ClientStep, UNCHANGED stored, NoBooting
  PROVE  MineOK'
<1>1. UNCHANGED <<learner, stream>> /\ 0 \in Thread /\ None \notin Learner
  BY ThreadFacts, LessonAssumption DEF ClientStep
<1>2. ASSUME NEW p \in Page, NEW k \in Thread, Acknowledges(p, k)
      PROVE  /\ page[p].status # "loading"
             /\ \A l \in Learner : Holds(l, <<p, k>>) => l = stored
  <2>1. /\ CallShape(k, calls[p][k], page[p]) /\ Mine(p)
        /\ Honest(<<p, k>>, calls[p][k], stream, learner)
        /\ calls[p][k].ask = "append" /\ calls[p][k].at = "answered" /\ calls[p][k].found
    BY <1>2, CallFacts DEF Acknowledges, Answered, MineOK, RecordOK
  <2>2. calls[p][k].id \in Learner /\ Waits(calls[p][k]) /\ In(<<p, k>>, stream, calls[p][k].id)
    BY <2>1 DEF CallShape, Honest, Waits
  <2>3. calls[p][k].id = stored
    <3>1. CASE k = 0
      BY <2>1, <2>2, <3>1 DEF Mine
    <3>2. CASE k # 0
      BY <1>1, <2>1, <2>2, <3>2 DEF Mine, CallShape
    <3> QED BY <3>1, <3>2
  <2>4. page[p].status # "loading"
    BY <2>1 DEF CallShape
  <2> QED BY <2>2, <2>3, <2>4, HeldOnce
<1>3. \A e, l : Holds(l, e)' <=> Holds(l, e)
  BY <1>1 DEF Holds
<1>4. \A e \in acked', l \in Learner : Holds(l, e)' => l = stored'
  <2>1. \A e \in acked, l \in Learner : Holds(l, e) => l = stored
    BY DEF MineOK
  <2> QED BY <1>2, <1>3, <2>1 DEF ClientStep, Acknowledges
<1>5. ASSUME NEW q \in Page, IsMounted(q)' PROVE Mine(q)'
  <2>1. PageStep(q) /\ Shape(page'[q], calls'[q]) /\ page'[q].status \in Mounted
    BY <1>5 DEF ClientStep, PageStep, IsMounted
  <2>2. PICK c, d : c = calls[q][0] /\ d = calls'[q][0]
    OBVIOUS
  <2>3. /\ CallShape(0, c, page[q]) /\ c \in CallState /\ page[q] \in PageState
        /\ page[q].status \in PageStatus
    BY <1>1, <2>2, CallFacts DEF PageState
  <2>4. /\ Kept(c, d) \/ Asks(0, c, d, page[q], stored)
        /\ d.ask \in Booting => d = c
    BY <1>1, <2>1, <2>2 DEF PageStep, NoBooting
  <2>5. \/ Kept(c, d)
        \/ /\ c.at = "answered" /\ c.ask \notin {"confirm", "create"} /\ d.id = c.id
           /\ d.ask \in {"progress", "append"}
    BY <2>4 DEF Asks, Writes, GoesOn, Boots, Booting, Kept
  <2>6. IsMounted(q)
    <3>1. page[q].status # "left"
      BY <2>1 DEF PageStep, Grown, Mounted
    <3>2. page[q].status # "unopened"
      <4>1. SUFFICES ASSUME page[q].status = "unopened" PROVE FALSE
        OBVIOUS
      <4>2. Mount(q) /\ c.at = "idle"
        BY <2>1, <2>3, <4>1 DEF PageStep, CallShape, Mounted
      <4>3. page'[q].status = "loading"
        BY <4>2 DEF Mount, TypeOK
      <4>4. d.at \in {"sent", "answered"}
        BY <2>1, <2>2, <4>3 DEF Shape, PageShape, Waits
      <4> QED BY <2>3, <2>5, <4>2, <4>4, IdleFacts DEF Kept
    <3> QED BY <2>3, <3>1, <3>2 DEF IsMounted, PageStatus
  <2>7. Mine(q)
    BY <2>6 DEF MineOK
  <2>8. page'[q].session \in {None, stored}
    <3>1. CASE Loads(q)
      BY <2>7, <3>1 DEF Loads, Mine, Answered, Waits
    <3> QED BY <2>1, <2>7, <3>1 DEF PageStep, Mine
  <2>9. ASSUME Waits(d)
        PROVE  IF d.ask = "create" THEN \A e \in acked', l \in Learner : ~Holds(l, e)
                                   ELSE d.id = stored
    <3>1. CASE d = c
      <4>1. CASE c.ask = "create"
        <5>1. page[q].status = "loading" /\ \A e \in acked, l \in Learner : ~Holds(l, e)
          BY <2>2, <2>3, <2>6, <2>7, <2>9, <3>1, <4>1
             DEF CallShape, Booting, IsMounted, Mounted, Mine
        <5>2. acked' = acked
          <6>1. ASSUME NEW p \in Page, NEW k \in Thread, Acknowledges(p, k) PROVE FALSE
            <7>1. p = q
              BY <2>6, <6>1, OneMounted DEF Acknowledges
            <7> QED BY <1>2, <5>1, <6>1, <7>1
          <6> QED BY <6>1 DEF ClientStep
        <5> QED BY <3>1, <4>1, <5>1, <5>2
      <4>2. CASE c.ask # "create"
        BY <2>2, <2>7, <2>9, <3>1, <4>2 DEF Mine
      <4> QED BY <4>1, <4>2
    <3>2. CASE d = [c EXCEPT !.at = "late"]
      BY <2>3, <2>9, <3>2 DEF Waits, CallState
    <3>3. CASE d = Idle
      BY <2>9, <3>3, IdleFacts
    <3>4. CASE /\ c.at = "answered" /\ c.ask \notin {"confirm", "create"} /\ d.id = c.id
               /\ d.ask \in {"progress", "append"}
      BY <2>2, <2>7, <3>4 DEF Mine, Waits
    <3> QED BY <2>5, <3>1, <3>2, <3>3, <3>4 DEF Kept
  <2> QED BY <1>3, <2>2, <2>8, <2>9 DEF Mine
<1> QED BY <1>4, <1>5 DEF MineOK

LEMMA MountMine ==
  ASSUME TypeOK, ShapesOK, RecordOK, Single, MineOK, NEW p \in Page, Mount(p)
  PROVE  MineOK'
<1>1. /\ UNCHANGED <<stored, learner, stream, acked>>
      /\ page' = [page EXCEPT ![p].status = "loading"]
      /\ page[p].status = "unopened"
      /\ \A q \in Page : ~IsMounted(q)
  BY DEF Mount, Single
<1>2. PICK c : c = IF stored = None THEN Sent("create", None) ELSE Sent("confirm", stored)
  OBVIOUS
<1>3. /\ stored \in Learner \cup {None} /\ 0 \in Thread /\ None \notin Learner
      /\ page[p] \in PageState /\ PageShape(page[p], calls[p])
  BY CallFacts, ThreadFacts, LessonAssumption DEF TypeOK
<1>4. IF stored = None THEN c.ask = "create" ELSE c.ask = "confirm" /\ c.id = stored
  BY <1>2, <1>3, Requests, SentFacts
<1>5. calls'[p][0] = c /\ page'[p].session = None
  <2>1. calls' = [calls EXCEPT ![p][0] = c] /\ page[p].session = None
    BY <1>1, <1>2, <1>3 DEF Mount, Continue, PageShape
  <2> QED BY <1>1, <1>3, <2>1 DEF TypeOK, PageState
<1>6. \A e, l : Holds(l, e)' <=> Holds(l, e)
  BY <1>1 DEF Holds
<1>7. \A e \in acked, l \in Learner : Holds(l, e) => l = stored
  BY DEF MineOK
<1>8. Mine(p)'
  BY <1>1, <1>3, <1>4, <1>5, <1>6, <1>7 DEF Mine
<1>9. \A q \in Page \ {p} : ~IsMounted(q)'
  BY <1>1 DEF IsMounted, TypeOK
<1> QED BY <1>1, <1>6, <1>7, <1>8, <1>9 DEF MineOK

(* The id that bootstrap stores is the one that is stored already, unless  *)
(* there is nothing to lose.                                               *)
LEMMA StoreMine ==
  ASSUME TypeOK, ShapesOK, RecordOK, TabsOK, Single, MineOK, NEW p \in Page,
         calls[p][0].at = "answered", calls[p][0].found,
         calls[p][0].ask \in {"confirm", "create"},
         Store(p, calls[p][0].id), ~haunted',
         UNCHANGED <<learner, stream, page, acked>>
  PROVE  MineOK'
<1>1. PICK c : c = calls[p][0]
  OBVIOUS
<1>2. /\ 0 \in Thread /\ None \notin Learner /\ c \in CallState
      /\ CallShape(0, c, page[p]) /\ PageShape(page[p], calls[p])
  BY <1>1, CallFacts, ThreadFacts, LessonAssumption
<1>3. c.id \in Learner /\ Waits(c)
  BY <1>1, <1>2 DEF CallShape, Waits
<1>4. stored' = c.id
  BY <1>1 DEF Store, Stored
<1>5. \A e, l : Holds(l, e)' <=> Holds(l, e)
  BY DEF Holds
<1>6. PICK d : d = IF IsMounted(p) THEN Sent("resume", c.id) ELSE Idle
  OBVIOUS
<1>7. /\ calls'[p][0] = d
      /\ \A q \in Page \ {p} : calls'[q] = calls[q]
  <2>1. calls' = [calls EXCEPT ![p][0] = d]
    BY <1>1, <1>6 DEF Store, Continue
  <2> QED BY <1>2, <2>1 DEF TypeOK
<1>8. CASE IsMounted(p)
  <2>1. Mine(p) /\ page[p].session = None
    BY <1>1, <1>2, <1>8 DEF MineOK, CallShape, PageShape, Booting, IsMounted, Mounted
  <2>2. \A e \in acked, l \in Learner : Holds(l, e) => l = c.id
    <3>1. CASE c.ask = "create"
      BY <1>1, <1>3, <2>1, <3>1 DEF Mine
    <3>2. CASE c.ask = "confirm"
      <4>1. c.id = stored
        BY <1>1, <1>3, <2>1, <3>2 DEF Mine
      <4> QED BY <4>1 DEF MineOK
    <3> QED BY <1>1, <3>1, <3>2
  <2>3. d.ask = "resume" /\ d.id = c.id
    BY <1>3, <1>6, <1>8, Requests, SentFacts
  <2>4. Mine(p)'
    BY <1>4, <1>7, <2>1, <2>3 DEF Mine
  <2>5. \A q \in Page : IsMounted(q)' => q = p
    BY <1>8, OneMounted DEF IsMounted
  <2> QED BY <1>4, <1>5, <2>2, <2>4, <2>5 DEF MineOK
<1>9. CASE ~IsMounted(p)
  <2>1. stored \in {None, c.id}
    BY <1>1, <1>9 DEF Store
  <2>2. ASSUME NEW q \in Page, IsMounted(q)' PROVE Mine(q)'
    <3>1. IsMounted(q) /\ q # p
      BY <1>9, <2>2 DEF IsMounted
    <3>2. Mine(q) /\ calls'[q] = calls[q] /\ CallShape(0, calls[q][0], page[q])
      BY <1>2, <1>7, <3>1, CallFacts DEF MineOK
    <3>3. CASE stored = c.id
      BY <1>4, <1>5, <3>2, <3>3 DEF Mine
    <3>4. CASE stored = None
      <4>1. page[q].session = None
        BY <3>2, <3>4 DEF Mine
      <4>2. Waits(calls[q][0]) => calls[q][0].ask = "create"
        BY <1>2, <3>2, <3>4 DEF Mine, CallShape, Waits
      <4>3. Waits(calls[q][0]) => \A e \in acked, l \in Learner : ~Holds(l, e)
        BY <3>2, <4>2 DEF Mine
      <4> QED BY <1>5, <3>2, <4>1, <4>2, <4>3 DEF Mine
    <3> QED BY <2>1, <3>3, <3>4
  <2>3. \A e \in acked, l \in Learner : Holds(l, e) => l = c.id
    BY <1>2, <2>1 DEF MineOK
  <2> QED BY <1>4, <1>5, <2>2, <2>3 DEF MineOK
<1> QED BY <1>8, <1>9

LEMMA ConfirmedMine ==
  ASSUME TypeOK, ShapesOK, RecordOK, TabsOK, Single, MineOK, NEW p \in Page,
         Confirmed(p), ~haunted'
  PROVE  MineOK'
<1>1. CASE calls[p][0].found
  BY <1>1, StoreMine DEF Confirmed, Answered
<1>2. CASE ~calls[p][0].found
  <2>1. /\ Continue(p, 0, Sent("create", None))
        /\ UNCHANGED <<stored, haunted, learner, stream, page, acked>>
        /\ calls[p][0].at = "answered" /\ calls[p][0].ask = "confirm"
    BY <1>2 DEF Confirmed, Answered
  <2>2. PICK c : c = calls[p][0]
    OBVIOUS
  <2>3. /\ 0 \in Thread /\ CallShape(0, c, page[p]) /\ calls[p] \in [Thread -> CallState]
        /\ Honest(<<p, 0>>, c, stream, learner)
    BY <2>2, CallFacts, ThreadFacts DEF RecordOK
  <2>4. Sent("create", None).ask = "create"
    BY Requests, SentFacts
  <2>5. /\ calls'[p][0].ask = "create"
        /\ \A q \in Page \ {p} : calls'[q] = calls[q]
    BY <2>1, <2>3, <2>4 DEF Continue, TypeOK
  <2>6. \A e, l : Holds(l, e)' <=> Holds(l, e)
    BY <2>1 DEF Holds
  <2>7. ASSUME IsMounted(p) PROVE Mine(p)'
    <3>1. Mine(p) /\ Waits(c) /\ c.ask = "confirm" /\ c.at = "answered"
      BY <2>1, <2>2, <2>7 DEF MineOK, Waits
    <3>2. c.id = stored /\ learner[c.id] = "erased"
      BY <1>2, <2>2, <2>3, <3>1 DEF Mine, Honest
    <3>3. \A e \in acked, l \in Learner : ~Holds(l, e)
      BY <3>2 DEF MineOK, Holds
    <3> QED BY <2>1, <2>5, <2>6, <3>1, <3>3 DEF Mine
  <2>8. ASSUME NEW q \in Page \ {p}, IsMounted(q) PROVE Mine(q)'
    <3>1. Mine(q)
      BY <2>8 DEF MineOK
    <3> QED BY <2>1, <2>5, <2>6, <2>8, <3>1 DEF Mine
  <2>9. \A q \in Page : IsMounted(q)' => IsMounted(q)
    BY <2>1 DEF IsMounted
  <2>10. \A e \in acked', l \in Learner : Holds(l, e)' => l = stored'
    BY <2>1, <2>6 DEF MineOK
  <2> QED BY <2>7, <2>8, <2>9, <2>10 DEF MineOK
<1> QED BY <1>1, <1>2

(* The server answers, and learners come and go.                           *)
LEMMA ReplyMine ==
  ASSUME TypeOK, ShapesOK, RecordOK, MineOK, NEW p \in Page, NEW k \in Thread,
         NEW l \in Learner, NEW found \in BOOLEAN, NEW seen \in Nat,
         Replied(p, k, l, found, seen),
         IF calls[p][k].ask = "create" THEN found ELSE l = calls[p][k].id,
         UNCHANGED stream \/ (Appended(l, <<p, k>>) /\ ~Recorded(<<p, k>>, stream)),
         \A m \in Learner : learner'[m] = "known" => learner[m] \in {"known", "unborn"}
  PROVE  MineOK'
<1>1. /\ \A q \in Page, j \in Thread : <<q, j>> # <<p, k>> => calls'[q][j] = calls[q][j]
      /\ \/ calls'[p][k] = Idle
         \/ /\ calls'[p][k].at = "answered" /\ calls'[p][k].ask = calls[p][k].ask
            /\ calls'[p][k].id = l /\ calls'[p][k].found = found
            /\ calls'[p][k].seen = seen /\ calls[p][k].at = "sent"
  BY ReplyFacts
<1>2. UNCHANGED <<stored, page, acked>> /\ 0 \in Thread
  BY ThreadFacts DEF Replied
<1>3. ASSUME NEW e \in acked, NEW m \in Learner, Holds(m, e)' PROVE Holds(m, e)
  <2>1. e # <<p, k>> \/ UNCHANGED stream
    BY DEF RecordOK
  <2>2. In(e, stream', m) => In(e, stream, m)
    BY <2>1 DEF Appended
  <2> QED BY <1>3, <2>2, HeldBefore
<1>4. ASSUME NEW q \in Page, IsMounted(q) PROVE Mine(q)'
  <2>1. Mine(q)
    BY <1>4 DEF MineOK
  <2>2. ASSUME Waits(calls'[q][0])
        PROVE  IF calls'[q][0].ask = "create"
                 THEN \A e \in acked, m \in Learner : ~Holds(m, e)
                 ELSE calls'[q][0].id = stored
    <3>1. CASE calls'[q][0] = calls[q][0]
      BY <2>1, <2>2, <3>1 DEF Mine
    <3>2. CASE q = p /\ k = 0
      <4>1. /\ calls'[p][0].ask = calls[p][0].ask /\ calls'[p][0].id = l
            /\ Waits(calls[p][0])
        BY <1>1, <2>2, <3>2, IdleFacts DEF Waits
      <4> QED BY <2>1, <3>2, <4>1 DEF Mine
    <3> QED BY <1>1, <1>2, <3>1, <3>2
  <2> QED BY <1>2, <1>3, <2>1, <2>2 DEF Mine
<1>5. \A q \in Page : IsMounted(q)' => IsMounted(q)
  BY <1>2 DEF IsMounted
<1> QED BY <1>2, <1>3, <1>4, <1>5 DEF MineOK

LEMMA EraseMine ==
  ASSUME RecordOK, MineOK, NEW l \in Learner, Erase(l), TypeOK
  PROVE  MineOK'
<1>1. UNCHANGED <<stored, stream, page, calls, acked>>
      /\ \A m \in Learner : learner'[m] = "known" => learner[m] \in {"known", "unborn"}
  BY DEF Erase, TypeOK
<1>2. \A e, m : m \in Learner /\ Holds(m, e)' => Holds(m, e)
  BY <1>1, HeldBefore
<1>3. ASSUME NEW q \in Page, IsMounted(q) PROVE Mine(q)'
  <2>1. Mine(q)
    BY <1>3 DEF MineOK
  <2> QED BY <1>1, <1>2, <2>1 DEF Mine
<1>4. \A q \in Page : IsMounted(q)' => IsMounted(q)
  BY <1>1 DEF IsMounted
<1> QED BY <1>1, <1>2, <1>3, <1>4 DEF MineOK

-----------------------------------------------------------------------------
(* The inductive invariant.                                                *)

LEMMA Continued ==
  ASSUME TypeOK, NEW p \in Page, NEW k \in Thread, NEW c, Continue(p, k, c),
         c.ask \notin Booting \/ k # 0
  PROVE  NoBooting
<1>1. /\ calls' = [calls EXCEPT ![p][k] = c] /\ calls \in [Page -> [Thread -> CallState]]
      /\ 0 \in Thread
  BY ThreadFacts DEF Continue, TypeOK
<1>2. ASSUME NEW q \in Page
      PROVE  calls'[q][0] = calls[q][0] \/ (calls'[q][0] = c /\ k = 0)
  BY <1>1
<1> QED BY <1>2 DEF NoBooting

(* A deed starts a thread, or none.                                        *)
Starts(p) ==
  \/ UNCHANGED calls
  \/ \E k \in Thread \ {0}, l \in Learner \cup {None} : Continue(p, k, Sent("append", l))

LEMMA ActStarts ==
  ASSUME TypeOK, ShapesOK, NEW p \in Page, Act(p)
  PROVE  Starts(p) /\ UNCHANGED <<stored, haunted, mishaps>>
<1>1. page[p] \in PageState
  BY CallFacts, ThreadFacts
<1>2. ASSUME NEW state, NEW kind, NEW step, Record(p, state, kind, step),
             state.deeds = page[p].deeds, state.session = page[p].session
      PROVE  Starts(p)
  <2>1. CASE UNCHANGED calls
    BY <2>1 DEF Starts
  <2>2. CASE Continue(p, Len(page[p].deeds) + 1, Sent("append", state.session))
    <3>1. Len(page[p].deeds) + 1 \in Thread
      BY <1>2, RoomOnPage DEF Record
    <3>2. Len(page[p].deeds) \in Nat
      BY CallFacts, ThreadFacts, DeedThreads DEF PageShape
    <3>3. state.session \in Learner \cup {None} /\ Len(page[p].deeds) + 1 # 0
      BY <1>1, <1>2, <3>2 DEF PageState
    <3> QED BY <2>2, <3>1, <3>3 DEF Starts
  <2> QED BY <1>2, <2>1, <2>2 DEF Record
<1>3. CASE GoTo(p)
  <2>1. PICK next \in Neighbours(page[p].position) :
          LET i == next - 1
              moved == [page[p] EXCEPT !.position = next]
          IN  IF i \in StepIndex \ page[p].marked
                THEN Record(p, [moved EXCEPT !.marked = Marked(@, i)], "step", i)
                ELSE page' = [page EXCEPT ![p] = moved] /\ UNCHANGED calls
    BY <1>3 DEF GoTo
  <2>2. PICK moved : moved = [page[p] EXCEPT !.position = next]
    OBVIOUS
  <2>3. PICK state : state = [moved EXCEPT !.marked = Marked(@, next - 1)]
    OBVIOUS
  <2>4. state.deeds = page[p].deeds /\ state.session = page[p].session
    BY <1>1, <2>2, <2>3 DEF PageState
  <2>5. UNCHANGED calls => Starts(p)
    BY ONLY DEF Starts
  <2>6. Record(p, state, "step", next - 1) => Starts(p)
    BY ONLY <1>2, <2>4
  <2>7. Starts(p)
    BY <2>1, <2>2, <2>3, <2>5, <2>6
  <2> QED BY <1>3, <2>7 DEF GoTo
<1>4. CASE Submit(p)
  <2>1. PICK state : state = [page[p] EXCEPT !.saving = IF page[p].session = None THEN 0
                                                        ELSE Len(page[p].deeds) + 1]
    OBVIOUS
  <2>2. state.deeds = page[p].deeds /\ state.session = page[p].session
    BY <1>1, <2>1 DEF PageState
  <2>3. Record(p, state, "reflection", None)
    BY <1>4, <2>1 DEF Submit
  <2> QED BY <1>2, <1>4, <2>2, <2>3 DEF Submit
<1>5. CASE Experiment(p)
  BY <1>2, <1>5 DEF Experiment
<1>6. CASE Finish(p)
  BY <1>2, <1>6 DEF Finish
<1> QED BY <1>3, <1>4, <1>5, <1>6 DEF Act

LEMMA StartsLater ==
  ASSUME TypeOK, NEW p \in Page, Starts(p) PROVE NoBooting
<1>1. CASE UNCHANGED calls
  BY <1>1 DEF NoBooting
<1>2. CASE \E k \in Thread \ {0}, l \in Learner \cup {None} : Continue(p, k, Sent("append", l))
  BY <1>2, Continued
<1> QED BY <1>1, <1>2 DEF Starts

(* A page that is gone asks nothing new.                                   *)
LEMMA GoneContinues ==
  ASSUME TypeOK, ShapesOK, ClientStep, NEW q \in Page,
         \/ calls'[q][0] = Afterwards(calls[q][0])
         \/ calls'[q][0] = Written(calls[q][0])
  PROVE  calls'[q][0].ask \in Booting => calls'[q][0] = calls[q][0]
<1>1. 0 \in Thread /\ calls[q][0] \in CallState
  BY CallFacts, ThreadFacts
<1>2. PICK c \in CallState : c = calls[q][0]
  BY <1>1
<1>3. PICK d : d = calls'[q][0]
  OBVIOUS
<1>4. \/ d = Idle \/ d = c
      \/ c.ask = "append" /\ d = [c EXCEPT !.at = "late"]
  BY <1>2, <1>3 DEF Afterwards, Written
<1>5. d = Idle => d.ask \notin Booting
  BY IdleFacts DEF Booting
<1>6. c.ask = "append" /\ d = [c EXCEPT !.at = "late"] => d.ask \notin Booting
  BY DEF CallState, Booting
<1> QED BY <1>2, <1>3, <1>4, <1>5, <1>6

LEMMA ClientInv ==
  ASSUME LInv, ClientStep, stored' \in Learner \cup {None},
         stored' # None => learner[stored'] # "unborn",
         haunted' \in BOOLEAN, mishaps' \in 0..MaxMishaps,
         Single /\ ~haunted' => MineOK'
  PROVE  LInv'
<1>1. TypeOK /\ ShapesOK /\ RecordOK /\ TabsOK /\ OrderOK /\ ApartOK
  BY DEF LInv
<1>2. acked' \subseteq Event
  <2>1. \A p \in Page, k \in Thread : <<p, k>> \in Event
    BY DEF Event
  <2> QED BY <1>1, <2>1 DEF ClientStep, Acknowledges, TypeOK
<1>3. TypeOK'
  BY <1>1, <1>2 DEF TypeOK, ClientStep
<1>4. ShapesOK'
  BY DEF ClientStep, PageStep, ShapesOK
<1>5. RecordOK'
  BY <1>1, ClientRecord
<1>6. TabsOK' /\ OrderOK' /\ ApartOK'
  BY <1>1, ClientTabs, ClientOrder, ClientApart
<1>7. Single' <=> Single
  BY DEF Single
<1> QED BY <1>3, <1>4, <1>5, <1>6, <1>7 DEF LInv

(* Most steps leave the stored id alone.                                   *)
LEMMA QuietInv ==
  ASSUME LInv, ClientStep, NoBooting, UNCHANGED <<stored, haunted>>, mishaps' \in 0..MaxMishaps
  PROVE  LInv'
<1>1. TypeOK /\ ShapesOK /\ RecordOK /\ TabsOK
  BY DEF LInv
<1>2. /\ stored' \in Learner \cup {None} /\ haunted' \in BOOLEAN
      /\ stored' # None => learner[stored'] # "unborn"
  BY <1>1 DEF TypeOK, RecordOK
<1>3. Single /\ ~haunted' => MineOK'
  BY <1>1, MineAgain DEF LInv
<1> QED BY <1>2, <1>3, ClientInv

LEMMA StoreTypes ==
  ASSUME TypeOK, ShapesOK, RecordOK, NEW p \in Page, calls[p][0].at = "answered",
         calls[p][0].found, Store(p, calls[p][0].id)
  PROVE  /\ stored' \in Learner \cup {None} /\ haunted' \in BOOLEAN
         /\ stored' # None => learner[stored'] # "unborn"
         /\ ~haunted' => ~haunted
<1>1. /\ 0 \in Thread /\ Honest(<<p, 0>>, calls[p][0], stream, learner)
      /\ calls[p][0] \in CallState
  BY CallFacts, ThreadFacts DEF RecordOK
<1>2. stored' = calls[p][0].id /\ calls[p][0].id \in Learner \cup {None}
  BY <1>1 DEF Store, Stored, CallState
<1>3. calls[p][0].id \in Learner => learner[calls[p][0].id] # "unborn"
  BY <1>1 DEF Honest
<1> QED BY <1>2, <1>3 DEF Store, TypeOK

(* Each action keeps the invariant.                                        *)
LEMMA PageInv ==
  ASSUME LInv, NEW p \in Page, Mount(p) \/ Boot(p) \/ Act(p) \/ Leave(p)
  PROVE  LInv' /\ ClientStep
<1>1. /\ TypeOK /\ ShapesOK /\ RecordOK /\ TabsOK
      /\ Single /\ ~haunted => MineOK
  BY DEF LInv
<1>2. /\ mishaps \in 0..MaxMishaps /\ stored \in Learner \cup {None} /\ haunted \in BOOLEAN
      /\ stored # None => learner[stored] # "unborn"
      /\ calls[p][0].id \in Learner \cup {None} /\ 0 \in Thread
  BY <1>1, ThreadFacts, CallFacts DEF TypeOK, RecordOK, CallState
<1>3. CASE Mount(p)
  <2>1. ClientStep
    BY <1>1, <1>3, MountStep
  <2>2. UNCHANGED <<stored, haunted, mishaps>>
    BY <1>3 DEF Mount
  <2>3. Single /\ ~haunted' => MineOK'
    BY <1>1, <1>3, <2>2, MountMine
  <2> QED BY <1>2, <2>1, <2>2, <2>3, ClientInv
<1>4. CASE Confirmed(p)
  <2>1. ClientStep
    BY <1>1, <1>4, ConfirmedStep
  <2>2. mishaps' = mishaps
    BY <1>4 DEF Confirmed
  <2>3. /\ stored' \in Learner \cup {None} /\ haunted' \in BOOLEAN
        /\ stored' # None => learner[stored'] # "unborn"
        /\ ~haunted' => ~haunted
    <3>1. CASE calls[p][0].found
      BY <1>1, <1>4, <3>1, StoreTypes DEF Confirmed, Answered
    <3>2. CASE ~calls[p][0].found
      <4>1. UNCHANGED <<stored, haunted>>
        BY <1>4, <3>2 DEF Confirmed
      <4> QED BY <1>2, <4>1
    <3> QED BY <3>1, <3>2
  <2>4. Single /\ ~haunted' => MineOK'
    BY <1>1, <1>4, <2>3, ConfirmedMine
  <2> QED BY <1>2, <2>1, <2>2, <2>3, <2>4, ClientInv
<1>5. CASE Created(p)
  <2>1. ClientStep
    BY <1>1, <1>5, CreatedStep
  <2>2. /\ Store(p, calls[p][0].id) /\ calls[p][0].at = "answered"
        /\ calls[p][0].ask = "create"
        /\ UNCHANGED <<learner, stream, page, acked, mishaps>>
    BY <1>5 DEF Created, Answered
  <2>3. calls[p][0].found
    BY <1>1, <1>2, <2>2, CallFacts DEF CallShape
  <2>4. /\ stored' \in Learner \cup {None} /\ haunted' \in BOOLEAN
        /\ stored' # None => learner[stored'] # "unborn"
        /\ ~haunted' => ~haunted
    BY <1>1, <2>2, <2>3, StoreTypes
  <2>5. Single /\ ~haunted' => MineOK'
    BY <1>1, <2>2, <2>3, <2>4, StoreMine
  <2> QED BY <1>2, <2>1, <2>2, <2>4, <2>5, ClientInv
<1>6. Sent("progress", calls[p][0].id).ask = "progress"
      /\ Sent("append", calls[p][0].id).ask = "append" /\ Idle.ask = "none"
  BY <1>2, Requests, SentFacts, IdleFacts
<1>7. CASE Resumed(p)
  <2>1. ClientStep
    BY <1>1, <1>7, ResumedStep
  <2>2. NoBooting /\ UNCHANGED <<stored, haunted, mishaps>>
    BY <1>1, <1>2, <1>6, <1>7, Continued DEF Resumed, Booting
  <2> QED BY <1>2, <2>1, <2>2, QuietInv
<1>8. CASE Loaded(p)
  <2>1. ClientStep
    BY <1>1, <1>8, LoadedStep
  <2>2. UNCHANGED <<stored, haunted, mishaps>>
    BY <1>8 DEF Loaded
  <2>3. \/ Continue(p, 0, Sent("append", calls[p][0].id))
        \/ Continue(p, 0, Idle)
    BY <1>8 DEF Loaded
  <2>4. NoBooting
    BY <1>1, <1>2, <1>6, <2>3, Continued DEF Booting
  <2> QED BY <1>2, <2>1, <2>2, <2>4, QuietInv
<1>9. CASE Started(p)
  <2>1. ClientStep
    BY <1>1, <1>9, StartedStep
  <2>2. NoBooting /\ UNCHANGED <<stored, haunted, mishaps>>
    BY <1>1, <1>2, <1>6, <1>9, Continued DEF Started, Booting
  <2> QED BY <1>2, <2>1, <2>2, QuietInv
<1>10. CASE Refreshed(p)
  <2>1. ClientStep
    BY <1>1, <1>10, RefreshedStep
  <2>2. NoBooting /\ UNCHANGED <<stored, haunted, mishaps>>
    BY <1>1, <1>2, <1>6, <1>10, Continued DEF Refreshed, Booting
  <2> QED BY <1>2, <2>1, <2>2, QuietInv
<1>11. CASE Act(p)
  <2>1. ClientStep
    BY <1>1, <1>11, GoToStep, SubmitStep, ExperimentStep, FinishStep DEF Act
  <2>2. NoBooting /\ UNCHANGED <<stored, haunted, mishaps>>
    BY <1>1, <1>11, ActStarts, StartsLater
  <2> QED BY <1>2, <2>1, <2>2, QuietInv
<1>12. CASE Leave(p)
  <2>1. ClientStep
    BY <1>1, <1>12, LeaveStep
  <2>2. UNCHANGED <<stored, haunted, mishaps>>
    BY <1>12 DEF Leave
  <2>3. \A q \in Page : calls'[q][0] = calls[q][0] \/ calls'[q][0] = Afterwards(calls[q][0])
    BY <1>1, <1>2, <1>12 DEF Leave, TypeOK
  <2>4. NoBooting
    BY <1>1, <2>1, <2>3, GoneContinues DEF NoBooting
  <2> QED BY <1>2, <2>1, <2>2, <2>4, QuietInv
<1> QED BY <1>3, <1>4, <1>5, <1>7, <1>8, <1>9, <1>10, <1>11, <1>12 DEF Boot

LEMMA ReloadInv ==
  ASSUME LInv, NEW t \in Tab, Reload(t) PROVE LInv' /\ ClientStep
<1>1. TypeOK /\ ShapesOK /\ RecordOK /\ TabsOK /\ mishaps \in 0..MaxMishaps
  BY DEF LInv, TypeOK
<1>2. ClientStep
  BY <1>1, ReloadStep
<1>3. UNCHANGED <<stored, haunted, mishaps>>
  BY DEF Reload
<1>4. \A q \in Page : calls'[q][0] = calls[q][0] \/ calls'[q][0] = Written(calls[q][0])
  BY <1>1, ThreadFacts DEF Reload, TypeOK
<1>5. NoBooting
  BY <1>1, <1>2, <1>4, GoneContinues DEF NoBooting
<1> QED BY <1>1, <1>2, <1>3, <1>5, QuietInv

LEMMA ThreadInv ==
  ASSUME LInv, NEW p \in Page, NEW k \in Thread, Handle(p, k) \/ Fail(p, k)
  PROVE  LInv' /\ ClientStep
<1>1. TypeOK /\ ShapesOK /\ RecordOK /\ TabsOK
  BY DEF LInv
<1>2. /\ mishaps \in 0..MaxMishaps /\ MaxMishaps \in Nat
      /\ calls[p][k].id \in Learner \cup {None} /\ calls[p][k] \in CallState
  BY <1>1, CallFacts, LessonAssumption DEF TypeOK, CallState
<1>3. Sent("progress", calls[p][k].id).ask = "progress" /\ Idle.ask = "none"
  BY <1>2, Requests, SentFacts, IdleFacts
<1>4. CASE Saved(p, k)
  <2>1. ClientStep
    BY <1>1, <1>4, SavedStep
  <2>2. NoBooting /\ UNCHANGED <<stored, haunted, mishaps>>
    BY <1>1, <1>3, <1>4, Continued DEF Saved, Booting
  <2> QED BY <1>2, <2>1, <2>2, QuietInv
<1>5. CASE Updated(p, k)
  <2>1. ClientStep
    BY <1>1, <1>5, UpdatedStep
  <2>2. NoBooting /\ UNCHANGED <<stored, haunted, mishaps>>
    BY <1>1, <1>3, <1>5, Continued DEF Updated, Booting
  <2> QED BY <1>2, <2>1, <2>2, QuietInv
<1>6. CASE Refused(p, k)
  <2>1. ClientStep
    BY <1>1, <1>6, RefusedStep
  <2>2. NoBooting /\ UNCHANGED <<stored, haunted, mishaps>>
    BY <1>1, <1>3, <1>6, Continued DEF Refused, Booting
  <2> QED BY <1>2, <2>1, <2>2, QuietInv
<1>7. CASE Fail(p, k)
  <2>1. ClientStep
    BY <1>1, <1>7, FailStep
  <2>2. UNCHANGED <<stored, haunted>> /\ mishaps' \in 0..MaxMishaps
    <3>1. mishaps' = mishaps + 1 /\ mishaps < MaxMishaps
      BY <1>7 DEF Fail, Mishap
    <3>2. UNCHANGED <<stored, haunted>>
      BY <1>7 DEF Fail
    <3> QED BY <1>2, <3>1, <3>2
  <2>3. CASE Continue(p, k, Idle)
    BY <1>1, <1>3, <2>1, <2>2, <2>3, Continued, QuietInv DEF Booting
  <2>4. CASE calls[p][k].ask = "append" /\ Continue(p, k, [calls[p][k] EXCEPT !.at = "late"])
    <3>1. PICK c : c = [calls[p][k] EXCEPT !.at = "late"]
      OBVIOUS
    <3>2. c.ask = "append" /\ Continue(p, k, c)
      BY <1>2, <2>4, <3>1 DEF CallState
    <3>3. NoBooting
      BY <1>1, <3>2, Continued DEF Booting
    <3> QED BY <2>1, <2>2, <3>3, QuietInv
  <2> QED BY <1>7, <2>3, <2>4 DEF Fail
<1> QED BY <1>4, <1>5, <1>6, <1>7 DEF Handle

LEMMA ServerInv ==
  ASSUME LInv, ShapesOK', RecordOK', page' \in [Page -> PageState],
         calls' \in [Page -> [Thread -> CallState]],
         learner' \in [Learner -> {"unborn", "known", "erased"}],
         stream' \in [Learner -> Seq(Event)],
         UNCHANGED <<stored, acked, haunted>>, mishaps' \in 0..MaxMishaps,
         TabsOK', OrderOK', ApartOK', Single /\ ~haunted => MineOK'
  PROVE  LInv'
<1>1. TypeOK'
  BY DEF LInv, TypeOK
<1>2. Single' <=> Single
  BY DEF Single
<1> QED BY <1>1, <1>2 DEF LInv

LEMMA ServeInv ==
  ASSUME LInv, NEW p \in Page, NEW k \in Thread, Serve(p, k)
  PROVE  LInv'
<1>1. /\ TypeOK /\ ShapesOK /\ RecordOK /\ TabsOK /\ OrderOK /\ ApartOK
      /\ Single /\ ~haunted => MineOK
  BY DEF LInv
<1>2. /\ mishaps \in 0..MaxMishaps /\ stream \in [Learner -> Seq(Event)] /\ 0 \in Nat
      /\ learner \in [Learner -> {"unborn", "known", "erased"}]
      /\ TRUE \in BOOLEAN /\ FALSE \in BOOLEAN
  BY <1>1 DEF TypeOK
<1>3. CASE CreateLearner(p, k)
  <2>1. /\ RecordOK' /\ ShapesOK' /\ page' \in [Page -> PageState]
        /\ calls' \in [Page -> [Thread -> CallState]]
        /\ LearnersAge /\ UNCHANGED stream
    BY <1>1, <1>3, CreateKeeps
  <2>2. PICK l \in Learner, found \in BOOLEAN, seen \in Nat :
          /\ Replied(p, k, l, found, seen) /\ calls[p][k].ask = "create" /\ found
          /\ learner[l] = "unborn" /\ \A m \in Learner \ {l} : learner'[m] = learner[m]
    BY <1>1, <1>3, CreateKeeps
  <2>3. TabsOK' /\ OrderOK' /\ ApartOK'
    BY <1>1, <2>1, <2>2, ReplyApart
  <2>4. Single /\ ~haunted => MineOK'
    BY <1>1, <2>1, <2>2, ReplyMine
  <2>5. UNCHANGED <<stored, acked, haunted, mishaps>>
    BY <2>2 DEF Replied
  <2> QED BY <1>2, <2>1, <2>3, <2>4, <2>5, ServerInv DEF LearnersAge
<1>4. CASE AppendEvent(p, k)
  <2>1. /\ RecordOK' /\ ShapesOK' /\ page' \in [Page -> PageState]
        /\ calls' \in [Page -> [Thread -> CallState]]
        /\ Appended(calls[p][k].id, <<p, k>>)
        /\ Replied(p, k, calls[p][k].id, TRUE, 0)
        /\ UNCHANGED learner /\ calls[p][k].ask = "append"
        /\ calls[p][k].id \in Learner /\ ~Recorded(<<p, k>>, stream)
    BY <1>1, <1>4, AppendKeeps
  <2>2. TabsOK' /\ OrderOK' /\ ApartOK'
    BY <1>1, <1>2, <2>1, ReplyApart
  <2>3. Single /\ ~haunted => MineOK'
    BY <1>1, <1>2, <2>1, ReplyMine
  <2>4. UNCHANGED <<stored, acked, haunted, mishaps>> /\ stream' \in [Learner -> Seq(Event)]
    BY <2>1 DEF Replied, Appended
  <2> QED BY <1>2, <2>1, <2>2, <2>3, <2>4, ServerInv
<1>5. CASE ReadRecord(p, k)
  <2>1. /\ RecordOK' /\ ShapesOK' /\ page' \in [Page -> PageState]
        /\ calls' \in [Page -> [Thread -> CallState]]
        /\ UNCHANGED <<learner, stream>>
        /\ calls[p][k].ask \in {"confirm", "resume", "progress"}
    BY <1>1, <1>5, ReadKeeps
  <2>2. PICK seen \in Nat :
          /\ Replied(p, k, calls[p][k].id, TRUE, seen)
          /\ calls[p][k].ask = "progress" => seen = Len(stream[calls[p][k].id])
    BY <1>1, <1>5, ReadKeeps
  <2>3. calls[p][k].id \in Learner /\ calls[p][k].ask # "create"
    BY <1>1, <2>1, <2>2, AskedOf DEF Replied
  <2>4. TabsOK' /\ OrderOK' /\ ApartOK'
    BY <1>1, <1>2, <2>1, <2>2, <2>3, ReplyApart
  <2>5. Single /\ ~haunted => MineOK'
    BY <1>1, <1>2, <2>1, <2>2, <2>3, ReplyMine
  <2>6. UNCHANGED <<stored, acked, haunted, mishaps>>
    BY <2>2 DEF Replied
  <2> QED BY <1>2, <2>1, <2>4, <2>5, <2>6, ServerInv
<1>6. CASE NotFound(p, k)
  <2>1. /\ RecordOK' /\ ShapesOK' /\ page' \in [Page -> PageState]
        /\ calls' \in [Page -> [Thread -> CallState]]
        /\ Replied(p, k, calls[p][k].id, FALSE, 0)
        /\ UNCHANGED <<learner, stream>> /\ calls[p][k].ask # "create"
    BY <1>1, <1>6, NotFoundKeeps
  <2>2. calls[p][k].id \in Learner
    BY <1>1, <2>1, AskedOf DEF Replied
  <2>3. TabsOK' /\ OrderOK' /\ ApartOK'
    BY <1>1, <1>2, <2>1, <2>2, ReplyApart
  <2>4. Single /\ ~haunted => MineOK'
    BY <1>1, <1>2, <2>1, <2>2, ReplyMine
  <2>5. UNCHANGED <<stored, acked, haunted, mishaps>>
    BY <2>1 DEF Replied
  <2> QED BY <1>2, <2>1, <2>3, <2>4, <2>5, ServerInv
<1> QED BY <1>3, <1>4, <1>5, <1>6 DEF Serve

LEMMA EraseInv ==
  ASSUME LInv, NEW l \in Learner, Erase(l) PROVE LInv'
<1>1. /\ TypeOK /\ ShapesOK /\ RecordOK /\ TabsOK /\ OrderOK /\ ApartOK
      /\ Single /\ ~haunted => MineOK
  BY DEF LInv
<1>2. RecordOK' /\ ShapesOK' /\ LearnersAge
  BY <1>1, EraseKeeps
<1>3. TabsOK' /\ OrderOK' /\ ApartOK'
  BY <1>1, EraseApart
<1>4. Single /\ ~haunted => MineOK'
  BY <1>1, EraseMine
<1>5. UNCHANGED <<stored, stream, page, calls, acked, haunted>>
      /\ mishaps < MaxMishaps /\ mishaps' = mishaps + 1
  BY DEF Erase, Mishap
<1>6. mishaps' \in 0..MaxMishaps
  BY <1>1, <1>5, LessonAssumption DEF TypeOK
<1>7. /\ page' \in [Page -> PageState] /\ calls' \in [Page -> [Thread -> CallState]]
      /\ stream' \in [Learner -> Seq(Event)]
  BY <1>1, <1>5 DEF TypeOK
<1> QED BY <1>2, <1>3, <1>4, <1>5, <1>6, <1>7, ServerInv DEF LearnersAge

-----------------------------------------------------------------------------
(* The invariant.                                                          *)

LEMMA FreshState ==
  /\ Fresh("unopened") \in PageState /\ Fresh("unopened").status = "unopened"
  /\ Fresh("unopened").deeds = <<>> /\ Fresh("unopened").session = None
  /\ Fresh("unopened").saving = 0
<1>1. "unopened" \in PageStatus
  BY DEF PageStatus
<1>2. /\ 0 \in Position /\ 0 \in Thread /\ 0 \in Nat /\ <<>> \in Seq(Deed) /\ FALSE \in BOOLEAN
      /\ None \in Learner \cup {None}
  BY ThreadFacts, LessonAssumption DEF Position, Last
<1>3. {} \in SUBSET StepIndex
  OBVIOUS
<1> QED BY <1>1, <1>2, <1>3 DEF Fresh, PageState

LEMMA InitInv == ASSUME Init PROVE LInv
<1>1. /\ stored = None /\ acked = {} /\ haunted = FALSE /\ mishaps = 0
      /\ \A l \in Learner : learner[l] = "unborn" /\ stream[l] = <<>>
      /\ \A p \in Page : page[p] = Fresh("unopened") /\ \A k \in Thread : calls[p][k] = Idle
  BY DEF Init
<1>2. TypeOK
  <2>1. page \in [Page -> PageState]
    BY FreshState DEF Init
  <2>2. calls \in [Page -> [Thread -> CallState]]
    BY IdleFacts DEF Init
  <2>3. /\ learner \in [Learner -> {"unborn", "known", "erased"}]
        /\ stream \in [Learner -> Seq(Event)]
    <3>1. <<>> \in Seq(Event)
      OBVIOUS
    <3> QED BY <3>1 DEF Init
  <2>4. mishaps \in 0..MaxMishaps
    BY <1>1, LessonAssumption
  <2> QED BY <1>1, <2>1, <2>2, <2>3, <2>4 DEF TypeOK
<1>3. \A p \in Page : page[p].status = "unopened" /\ page[p].deeds = <<>>
                        /\ page[p].session = None /\ page[p].saving = 0
  BY <1>1, FreshState
<1>4. ShapesOK
  <2> SUFFICES ASSUME NEW p \in Page PROVE Shape(page[p], calls[p])
    BY DEF ShapesOK
  <2>1. page[p] \in PageState /\ calls[p] \in [Thread -> CallState]
    BY <1>2 DEF TypeOK
  <2>2. \A kind : Did(page[p], kind) = {}
    BY <1>3 DEF Did
  <2>3. Len(page[p].deeds) <= MaxDeeds
    BY <1>3, ThreadFacts
  <2>4. PageShape(page[p], calls[p])
    BY <1>3, <2>2, <2>3 DEF PageShape, Mounted
  <2> QED BY <1>1, <2>1, <2>4, IdleShape DEF Shape
<1>5. \A l \in Learner : DOMAIN stream[l] = {}
  BY <1>1
<1>6. RecordOK
  <2>1. \A p \in Page, k \in Thread : Honest(<<p, k>>, calls[p][k], stream, learner)
    BY <1>1, IdleFacts DEF Honest
  <2> QED BY <1>1, <1>3, <1>5, <2>1 DEF RecordOK, StreamsOK, OnceOK
<1>7. TabsOK /\ OrderOK /\ ApartOK
  BY <1>3, <1>5 DEF TabsOK, OrderOK, ApartOK
<1>8. MineOK
  BY <1>1, <1>3 DEF MineOK, IsMounted, Mounted
<1> QED BY <1>2, <1>4, <1>6, <1>7, <1>8 DEF LInv

LEMMA NextInv == ASSUME LInv, [Next]_vars PROVE LInv'
<1>1. CASE UNCHANGED vars
  <2>1. UNCHANGED <<stored, learner, stream, page, calls, acked, haunted, mishaps>>
    BY <1>1 DEF vars
  <2>2. TypeOK' /\ ShapesOK' /\ TabsOK' /\ OrderOK'
    BY <2>1 DEF LInv, TypeOK, ShapesOK, TabsOK, OrderOK, IsA, DeedOf
  <2>3. RecordOK'
    BY <2>1 DEF LInv, RecordOK
  <2>4. ApartOK'
    <3>1. /\ \A e, q : Old(e, q)' <=> Old(e, q)
          /\ \A q, l, i, e : Apart(q, l, i, e)' <=> Apart(q, l, i, e)
      BY <2>1 DEF Apart, Old, Before, In, Writing, IsA, DeedOf, Answered
    <3> QED BY <2>1, <3>1 DEF LInv, ApartOK
  <2>5. Single /\ ~haunted' => MineOK'
    BY <2>1 DEF LInv, MineOK, Mine, IsMounted, Holds
  <2>6. Single' <=> Single
    BY DEF Single
  <2> QED BY <2>2, <2>3, <2>4, <2>5, <2>6 DEF LInv
<1>2. CASE Next
  <2>1. ASSUME NEW p \in Page, Mount(p) \/ Boot(p) \/ Act(p) \/ Leave(p) PROVE LInv'
    BY <2>1, PageInv
  <2>2. ASSUME NEW p \in Page, NEW k \in Thread, Serve(p, k) PROVE LInv'
    BY <2>2, ServeInv
  <2>3. ASSUME NEW p \in Page, NEW k \in Thread, Handle(p, k) \/ Fail(p, k) PROVE LInv'
    BY <2>3, ThreadInv
  <2>4. ASSUME NEW l \in Learner, Erase(l) PROVE LInv'
    BY <2>4, EraseInv
  <2>5. ASSUME NEW t \in Tab, Reload(t) PROVE LInv'
    BY <2>5, ReloadInv
  <2> QED BY <1>2, <2>1, <2>2, <2>3, <2>4, <2>5 DEF Next
<1> QED BY <1>1, <1>2

(* Pages, requests, streams and the stored id stay as LInv describes them, *)
(* whatever is clicked, reloaded, answered late, lost or erased.           *)
THEOREM LInvIsInvariant == Spec => []LInv
BY InitInv, NextInv, PTL DEF Spec

-----------------------------------------------------------------------------
(* What follows from it.                                                   *)

(* The page's state, its requests and the server's record have their types.*)
THEOREM LessonTypeCorrect == Spec => []TypeOK
<1>1. LInv => TypeOK
  BY DEF LInv
<1> QED BY <1>1, LInvIsInvariant, PTL

(* A page that prepares the lesson, or keeps its buttons disabled, is      *)
(* waiting for an answer (lesson-runtime.tsx:107-111, 146-148).            *)
THEOREM NeverStuckHolds == Spec => []NeverStuck
<1>1. LInv => NeverStuck
  BY DEF LInv, ShapesOK, Shape, PageShape, NeverStuck
<1> QED BY <1>1, LInvIsInvariant, PTL

(* No page records a step twice, nor a step that an earlier page of its    *)
(* tab was told is recorded (lesson-runtime.tsx:41, 91).                   *)
THEOREM NothingRecordedTwiceHolds == Spec => []NothingRecordedTwice
<1>1. ASSUME LInv PROVE NothingRecordedTwice
  <2>1. /\ TypeOK /\ ShapesOK /\ OnceOK(stream) /\ StreamsOK(stream, learner, page)
        /\ ApartOK
    BY <1>1 DEF LInv, RecordOK
  <2>2. ASSUME NEW l \in Learner, NEW i \in DOMAIN stream[l], NEW j \in DOMAIN stream[l],
               i # j, IsA(stream[l][i], "step"), IsA(stream[l][j], "step"),
               \/ stream[l][i][1] = stream[l][j][1]
               \/ /\ stream[l][i][1] < stream[l][j][1]
                  /\ TabOf[stream[l][i][1]] = TabOf[stream[l][j][1]]
                  /\ stream[l][i] \in acked
        PROVE  DeedOf(stream[l][i]).step # DeedOf(stream[l][j]).step
    <3>1. PICK p \in Page, k \in Thread, q \in Page, h \in Thread :
            stream[l][i] = <<p, k>> /\ stream[l][j] = <<q, h>>
      BY <2>1, <2>2, EventsTyped
    <3>2. PICK e, f : e = stream[l][i] /\ f = stream[l][j]
      OBVIOUS
    <3>3. e[1] = p /\ e[2] = k /\ f[1] = q /\ f[2] = h /\ e = <<p, k>> /\ f = <<q, h>>
      BY <3>1, <3>2
    <3>4. /\ IsA(e, "step") /\ IsA(f, "step")
          /\ k \in DOMAIN page[p].deeds /\ page[p].deeds[k].kind = "step"
          /\ h \in DOMAIN page[q].deeds /\ page[q].deeds[h].kind = "step"
      BY <2>1, <2>2, <3>2, <3>3 DEF StreamsOK, IsA, DeedOf
    <3>5. CASE p = q
      <4>1. k # h
        <5>1. e # f
          BY <2>1, <2>2, <3>2 DEF OnceOK
        <5> QED BY <3>3, <3>5, <5>1
      <4>2. PageShape(page[p], calls[p])
        BY <2>1, <3>1, CallFacts, ThreadFacts
      <4>3. page[p].deeds[k].step # page[p].deeds[h].step
        BY <3>4, <3>5, <4>1, <4>2 DEF PageShape, Did
      <4> QED BY <3>2, <3>3, <3>5, <4>3 DEF DeedOf
    <3>6. CASE p < q /\ TabOf[p] = TabOf[q] /\ e \in acked
      <4>1. Apart(q, l, i, e)
        BY <2>1, <3>2, <3>3, <3>6 DEF ApartOK, Old, Before
      <4>2. In(f, stream, l)
        BY <3>2 DEF In
      <4>3. DeedOf(f).step # DeedOf(e).step
        BY <3>3, <3>4, <4>1, <4>2 DEF Apart
      <4> QED BY <3>2, <4>3
    <3> QED BY <2>2, <3>2, <3>3, <3>5, <3>6
  <2> QED BY <2>2 DEF NothingRecordedTwice
<1> QED BY <1>1, LInvIsInvariant, PTL

(* Of the answers a page was told are recorded, the stream has the last    *)
(* one submitted last (lesson-runtime.tsx:144-149).                        *)
THEOREM AnswersInOrderHolds == Spec => []AcknowledgedAnswersInOrder
<1>1. ASSUME LInv PROVE AcknowledgedAnswersInOrder
  <2>1. TypeOK /\ OnceOK(stream) /\ OrderOK
    BY <1>1 DEF LInv, RecordOK
  <2>2. ASSUME NEW l \in Learner, NEW i \in DOMAIN stream[l], NEW j \in DOMAIN stream[l],
               i < j, stream[l][i][1] = stream[l][j][1],
               IsAckedAnswer(stream[l][i]), IsAckedAnswer(stream[l][j])
        PROVE  stream[l][i][2] < stream[l][j][2]
    <3>1. PICK e, f : e = stream[l][i] /\ f = stream[l][j]
      OBVIOUS
    <3>2. /\ e = <<e[1], e[2]>> /\ f = <<f[1], f[2]>> /\ e[2] \in Nat /\ f[2] \in Nat
          /\ i \in Nat /\ j \in Nat
      <4>1. i \in Nat /\ j \in Nat
        BY <2>1, EventsTyped
      <4>2. /\ e = <<e[1], e[2]>> /\ e[2] \in Thread
            /\ f = <<f[1], f[2]>> /\ f[2] \in Thread
        BY <2>1, <3>1, EventsTyped
      <4> QED BY <4>1, <4>2, ThreadFacts
    <3>3. IsA(e, "reflection") /\ IsA(f, "reflection") /\ e \in acked /\ f \in acked
          /\ e[1] = f[1]
      BY <2>2, <3>1 DEF IsAckedAnswer
    <3>4. ~(f[2] < e[2])
      BY <2>1, <2>2, <3>1, <3>3 DEF OrderOK
    <3>5. e[2] # f[2]
      <4>1. e # f
        BY <2>1, <2>2, <3>1, <3>2 DEF OnceOK
      <4> QED BY <3>2, <3>3, <4>1
    <3> QED BY <3>1, <3>2, <3>4, <3>5
  <2> QED BY <2>2 DEF AcknowledgedAnswersInOrder
<1> QED BY <1>1, LInvIsInvariant, PTL

(* The thread of a deed ends.                                              *)
Ends(p, k) == Waits(calls[p][k]) /\ ~Waits(calls'[p][k])

Told(p, k) ==
  \/ page'[p].alert
  \/ \E i \in 1..page'[p].shown : stream[page[p].session][i] = <<p, k>>

LEMMA OtherThread ==
  ASSUME TypeOK, NEW q \in Page, NEW j \in Thread, NEW c, Continue(q, j, c),
         NEW p \in Page, NEW k \in Thread
  PROVE  calls'[p][k] = IF p = q /\ k = j THEN c ELSE calls[p][k]
BY DEF Continue, TypeOK

LEMMA GoneStatus ==
  ASSUME NEW p PROVE Gone(p).status = "left" /\ Gone(p).status \notin Mounted
BY DEF Gone, Fresh, Mounted

(* Until the page shows progress, or has failed, its record call goes on.  *)
LEMMA PageKeeps ==
  ASSUME TypeOK, ShapesOK, NEW q \in Page, Mount(q) \/ Boot(q) \/ Act(q) \/ Leave(q),
         NEW p \in Page, NEW k \in Thread \ {0}, Ends(p, k)
  PROVE  page'[p].status \notin Mounted
<1>1. 0 \in Thread
  BY ThreadFacts
<1>2. ASSUME NEW c, Continue(q, 0, c) PROVE FALSE
  BY <1>1, <1>2, OtherThread DEF Ends
<1>3. CASE Mount(q)
  BY <1>2, <1>3 DEF Mount
<1>4. CASE Confirmed(q) \/ Created(q)
  BY <1>2, <1>4 DEF Confirmed, Created, Store
<1>5. CASE Resumed(q) \/ Loaded(q) \/ Started(q) \/ Refreshed(q)
  BY <1>2, <1>5 DEF Resumed, Loaded, Started, Refreshed
<1>6. CASE Act(q)
  <2>1. ASSUME NEW j \in Thread, NEW l \in Learner \cup {None},
               Continue(q, j, Sent("append", l))
        PROVE  FALSE
    <3>1. PICK c : c = Sent("append", l)
      OBVIOUS
    <3>2. Waits(c)
      BY <3>1, SentFacts, Requests DEF Waits
    <3> QED BY <2>1, <3>1, <3>2, OtherThread DEF Ends
  <2>2. calls' # calls
    BY DEF Ends
  <2> QED BY <1>6, <2>1, <2>2, ActStarts DEF Starts
<1>7. CASE Leave(q)
  <2>1. p = q
    BY <1>7 DEF Leave, Ends, TypeOK
  <2>2. page'[p] = Gone(p)
    BY <1>7, <2>1 DEF Leave, TypeOK
  <2> QED BY <2>2, GoneStatus
<1> QED BY <1>3, <1>4, <1>5, <1>6, <1>7 DEF Boot

LEMMA ThrowTells ==
  ASSUME TypeOK, ShapesOK, NEW p \in Page, NEW k \in Thread \ {0}, Waits(calls[p][k]),
         Throw(p, k)
  PROVE  page'[p].alert
<1>1. CallShape(k, calls[p][k], page[p]) /\ page[p] \in PageState /\ IsMounted(p)
  BY CallFacts DEF CallShape, Waits, IsMounted
<1>2. PICK t : t = RecordFailed(page[p], k)
  OBVIOUS
<1>3. t.alert
  BY <1>1, <1>2, Thrown
<1>4. page'[p] = t
  BY <1>1, <1>2 DEF Throw, Show, TypeOK
<1> QED BY <1>3, <1>4

LEMMA UpdatedTells ==
  ASSUME TypeOK, ShapesOK, RecordOK, NEW p \in Page, NEW k \in Thread \ {0}, Updated(p, k)
  PROVE  \E i \in 1..page'[p].shown : stream[page[p].session][i] = <<p, k>>
<1>1. PICK c : c = calls[p][k]
  OBVIOUS
<1>2. c.at = "answered" /\ c.ask = "progress" /\ c.found
  BY <1>1 DEF Updated, Answered
<1>3. CallShape(k, c, page[p]) /\ page[p] \in PageState /\ c.seen \in Nat
  BY <1>1, CallFacts DEF CallState
<1>4. IsMounted(p) /\ c.id = page[p].session
  BY <1>2, <1>3 DEF CallShape, Waits, IsMounted
<1>5. PICK e : e = <<p, k>>
  OBVIOUS
<1>6. e[2] # 0 /\ Honest(e, c, stream, learner)
  BY <1>1, <1>5 DEF RecordOK
<1>7. \E i \in 1..c.seen : stream[c.id][i] = e
  BY <1>2, <1>6 DEF Honest
<1>8. PICK u : u = [page[p] EXCEPT !.shown = c.seen, !.alert = FALSE]
  OBVIOUS
<1>9. u \in PageState /\ u.shown = c.seen
  BY <1>3, <1>8 DEF PageState
<1>10. NoLongerSaving(u, k).shown = c.seen
  <2>1. PICK n : NoLongerSaving(u, k) = [u EXCEPT !.saving = n]
    BY DEF NoLongerSaving
  <2> QED BY <1>9, <2>1 DEF PageState
<1>11. page'[p] = NoLongerSaving(u, k)
  BY <1>1, <1>4, <1>8 DEF Updated, Show, TypeOK
<1> QED BY <1>4, <1>5, <1>7, <1>10, <1>11

LEMMA WriteIsAnswered ==
  ASSUME LInv, Next, NEW p \in Page, NEW k \in Thread \ {0}, Ends(p, k),
         page'[p].status \in Mounted
  PROVE  Told(p, k)
<1>1. TypeOK /\ ShapesOK /\ RecordOK /\ Waits(calls[p][k])
  BY DEF LInv, Ends
<1>2. ASSUME NEW q \in Page, Mount(q) \/ Boot(q) \/ Act(q) \/ Leave(q) PROVE FALSE
  BY <1>1, <1>2, PageKeeps
<1>3. ASSUME NEW q \in Page, NEW j \in Thread, NEW c, Continue(q, j, c), ~(q = p /\ j = k)
      PROVE  FALSE
  BY <1>1, <1>3, OtherThread DEF Ends
<1>4. ASSUME NEW q \in Page, NEW j \in Thread, Serve(q, j) PROVE FALSE
  <2>1. PICK l, found, seen : Reply(q, j, l, found, seen)
    BY <1>4 DEF Serve, CreateLearner, AppendEvent, ReadRecord, NotFound
  <2>2. q = p /\ j = k
    BY <1>3, <2>1 DEF Reply
  <2>3. calls[p][k].at \in {"sent", "answered"} /\ calls[p][k] \in CallState
    BY <1>1, CallFacts DEF Waits
  <2>4. PICK c : c = [calls[p][k] EXCEPT !.at = "answered", !.id = l, !.found = found,
                                         !.seen = seen]
    OBVIOUS
  <2>5. Waits(c)
    BY <2>3, <2>4 DEF Waits, CallState
  <2>6. Continue(p, k, c)
    BY <2>1, <2>2, <2>3, <2>4 DEF Reply
  <2> QED BY <1>1, <2>5, <2>6, OtherThread DEF Ends
<1>5. ASSUME NEW q \in Page, NEW j \in Thread, Handle(q, j) \/ Fail(q, j)
      PROVE  Told(p, k)
  <2>1. \E c : Continue(q, j, c)
    BY <1>5 DEF Handle, Saved, Updated, Refused, Fail
  <2>2. q = p /\ j = k
    BY <1>3, <2>1
  <2>3. CASE Saved(p, k)
    <3>1. PICK c : c = Sent("progress", calls[p][k].id)
      OBVIOUS
    <3>2. calls[p][k].id \in Learner \cup {None}
      BY <1>1, CallFacts DEF CallState
    <3>3. Waits(c)
      BY <3>1, <3>2, SentFacts, Requests DEF Waits
    <3>4. Continue(p, k, c)
      BY <2>3, <3>1 DEF Saved
    <3> QED BY <1>1, <3>3, <3>4, OtherThread DEF Ends
  <2>4. CASE Updated(p, k)
    BY <1>1, <2>4, UpdatedTells DEF Told
  <2>5. CASE Refused(p, k) \/ Fail(p, k)
    BY <1>1, <2>5, ThrowTells DEF Refused, Fail, Told
  <2> QED BY <1>5, <2>2, <2>3, <2>4, <2>5 DEF Handle
<1>6. ASSUME NEW l \in Learner, Erase(l) PROVE FALSE
  BY <1>6 DEF Erase, Ends
<1>7. ASSUME NEW t \in Tab, Reload(t) PROVE FALSE
  <2>1. TabOf[p] = t /\ page[p].status # "unopened"
    BY <1>7 DEF Reload, Ends
  <2>2. page'[p] = Gone(p)
    BY <1>7, <2>1 DEF Reload
  <2> QED BY <2>2, GoneStatus
<1> QED BY <1>2, <1>4, <1>5, <1>6, <1>7 DEF Next

(* When record returns to a page that is there, the page shows a progress  *)
(* that includes the deed, or an alert (lesson-runtime.tsx:120-132).       *)
THEOREM EveryWriteIsAnsweredHolds == Spec => EveryWriteIsAnswered
<1> DEFINE Answers == \A p \in Page, k \in Thread \ {0} :
             Ends(p, k) /\ page'[p].status \in Mounted => Told(p, k)
<1>1. LInv /\ [Next]_vars => [Answers]_vars
  BY WriteIsAnswered
<1>2. Answers => \A p \in Page, k \in Thread \ {0} :
         Waits(calls[p][k]) /\ ~Waits(calls'[p][k]) /\ page'[p].status \in Mounted =>
           \/ page'[p].alert
           \/ \E i \in 1..page'[p].shown : stream[page[p].session][i] = <<p, k>>
  BY DEF Ends, Told
<1> QED BY <1>1, <1>2, LInvIsInvariant, PTL DEF Spec, EveryWriteIsAnswered

-----------------------------------------------------------------------------
(* One tab.  In a second tab another page may create a learner and replace *)
(* the id, so the hypothesis is needed.                                    *)

(* What a page was told is recorded is of the learner the browser asks for *)
(* next, unless that one is erased (lesson-runtime.tsx:80-84).             *)
THEOREM EvidenceReachableHolds ==
  ASSUME Single PROVE Spec => []EvidenceStaysReachable
<1>1. LInv => EvidenceStaysReachable
  BY DEF LInv, MineOK, EvidenceStaysReachable
<1> QED BY <1>1, LInvIsInvariant, PTL

(* Only a page whose progress has arrived becomes ready.                   *)
LEMMA StatusKept ==
  ASSUME TypeOK, ShapesOK, NEW q \in Page, NEW t, page' = [page EXCEPT ![q] = t],
         NEW p \in Page, page[p].status = "loading", page'[p].status = "ready",
         t.status \in {page[q].status, "loading", "unavailable", "left"}
  PROVE  FALSE
BY DEF TypeOK

LEMMA BecomesReady ==
  ASSUME LInv, Next, NEW p \in Page, page[p].status = "loading", page'[p].status = "ready"
  PROVE  Loaded(p)
<1>1. TypeOK /\ ShapesOK /\ page' # page
  BY DEF LInv
<1>2. ASSUME NEW q \in Page, NEW t, page' = [page EXCEPT ![q] = t],
             t.status \in {page[q].status, "loading", "unavailable", "left"}
      PROVE  FALSE
  BY <1>1, <1>2, StatusKept
<1>3. ASSUME NEW q \in Page, Mount(q) \/ Boot(q) PROVE Loaded(p)
  <2>1. CASE Mount(q)
    <3>1. page' = [page EXCEPT ![q].status = "loading"] /\ page[q].status = "unopened"
      BY <2>1 DEF Mount
    <3>2. page'[p] = page[p]
      BY <1>1, <3>1 DEF TypeOK
    <3> QED BY <3>2
  <2>2. CASE Refreshed(q)
    <3>1. page[q] \in PageState
      BY <1>1, CallFacts, ThreadFacts
    <3>2. PICK t : t = [page[q] EXCEPT !.shown = calls[q][0].seen]
      OBVIOUS
    <3>3. t.status = page[q].status /\ page' = [page EXCEPT ![q] = t]
      BY <1>1, <2>2, <3>1, <3>2 DEF Refreshed, Show, PageState
    <3> QED BY <1>2, <3>3
  <2>3. CASE Loaded(q)
    <3>1. p # q => page'[p] = page[p]
      BY <1>1, <2>3 DEF Loaded, TypeOK
    <3> QED BY <2>3, <3>1
  <2>4. ~(Confirmed(q) \/ Created(q) \/ Resumed(q) \/ Started(q))
    BY <1>1 DEF Confirmed, Created, Resumed, Started
  <2> QED BY <1>3, <2>1, <2>2, <2>3, <2>4 DEF Boot
<1>4. ASSUME NEW q \in Page, Act(q) PROVE FALSE
  <2>1. page[q].status # "loading"
    BY <1>4 DEF Act, GoTo, Submit, Experiment, Finish, Usable
  <2>2. page'[p] = page[p]
    BY <1>1, <1>4, <2>1 DEF Act, GoTo, Submit, Experiment, Finish, Record, TypeOK
  <2> QED BY <2>2
<1>5. ASSUME NEW q \in Page, Leave(q) PROVE FALSE
  BY <1>2, <1>5, GoneStatus DEF Leave
<1>6. ASSUME NEW t \in Tab, Reload(t) PROVE FALSE
  <2>1. page'[p] \in {Gone(p), page[p]}
    BY <1>6 DEF Reload
  <2> QED BY <2>1, GoneStatus
<1>7. ASSUME NEW q \in Page, NEW j \in Thread, Handle(q, j) \/ Fail(q, j) PROVE FALSE
  <2>1. page[q] \in PageState /\ calls[q][j].seen \in Nat
    BY <1>1, CallFacts DEF CallState
  <2>2. CASE Updated(q, j)
    <3>1. PICK u : u = [page[q] EXCEPT !.shown = calls[q][j].seen, !.alert = FALSE]
      OBVIOUS
    <3>2. u \in PageState /\ u.status = page[q].status
      BY <2>1, <3>1, ShownIs DEF SameButShown
    <3>3. PICK t : t = NoLongerSaving(u, j)
      OBVIOUS
    <3>4. t.status = page[q].status
      BY <3>2, <3>3, SavedFlag
    <3>5. page' = [page EXCEPT ![q] = t]
      BY <1>1, <2>2, <3>1, <3>3 DEF Updated, Show
    <3> QED BY <1>2, <3>4, <3>5
  <2>3. CASE Throw(q, j)
    <3>1. PICK t : t = IF j = 0 THEN BootFailed(page[q]) ELSE RecordFailed(page[q], j)
      OBVIOUS
    <3>2. t.status \in {page[q].status, "unavailable"}
      BY <2>1, <3>1, Thrown
    <3>3. page' = [page EXCEPT ![q] = t]
      BY <1>1, <2>3, <3>1 DEF Throw, Show
    <3> QED BY <1>2, <3>2, <3>3
  <2> QED BY <1>1, <1>7, <2>2, <2>3 DEF Handle, Saved, Refused, Fail
<1>8. ASSUME NEW q \in Page, NEW j \in Thread, Serve(q, j) PROVE FALSE
  BY <1>1, <1>8 DEF Serve, CreateLearner, AppendEvent, ReadRecord, NotFound
<1>9. ASSUME NEW l \in Learner, Erase(l) PROVE FALSE
  BY <1>1, <1>9 DEF Erase
<1> QED BY <1>3, <1>4, <1>5, <1>6, <1>7, <1>8, <1>9 DEF Next

LEMMA ResumesThere ==
  ASSUME LInv, Single, ~haunted, NEW p \in Page, Loaded(p),
         NEW e \in acked, NEW l \in Learner, Holds(l, e), IsA(e, "step")
  PROVE  page'[p].position >= DeedOf(e).step + 1
<1>1. TypeOK /\ ShapesOK /\ RecordOK /\ TabsOK /\ ApartOK /\ MineOK
  BY DEF LInv
<1>2. PICK c : c = calls[p][0]
  OBVIOUS
<1>3. /\ c.at = "answered" /\ c.ask = "progress" /\ c.found /\ page[p].status = "loading"
      /\ c.seen \in Nat
  BY <1>1, <1>2, CallFacts, ThreadFacts DEF Loaded, Answered, CallState
<1>4. c.id = l
  <2>1. Mine(p) /\ l = stored
    BY <1>1, <1>3 DEF MineOK, IsMounted, Mounted
  <2> QED BY <1>2, <1>3, <2>1 DEF Mine, Waits
<1>5. c.seen <= Len(stream[l])
  <2>1. Honest(<<p, 0>>, c, stream, learner)
    BY <1>1, <1>2, ThreadFacts DEF RecordOK
  <2> QED BY <1>3, <1>4, <2>1 DEF Honest
<1>6. PICK i \in DOMAIN stream[l] : stream[l][i] = e
  BY DEF Holds
<1>7. PICK q \in Page, k \in Thread : e = <<q, k>>
  BY <1>1, <1>6, EventsTyped
<1>8. e[1] = q /\ e[2] = k
  BY <1>7
<1>9. Before(q, p)
  <2>1. k \in DOMAIN page[q].deeds
    BY <1>1, <1>6, <1>8 DEF RecordOK, StreamsOK, IsA
  <2>2. page[p].deeds = <<>> /\ (page[q].status = "unopened" => page[q].deeds = <<>>)
    BY <1>1, <1>3, CallFacts, ThreadFacts DEF PageShape
  <2>3. q # p /\ page[q].status # "unopened"
    BY <2>1, <2>2
  <2>4. ~(p < q)
    BY <1>1, <1>3, <2>3 DEF TabsOK, Before, Single
  <2>5. p \in Nat /\ q \in Nat
    BY LessonAssumption DEF Page
  <2> QED BY <2>3, <2>4, <2>5 DEF Before, Single
<1>10. i <= c.seen
  <2>1. Apart(p, l, i, e)
    BY <1>1, <1>6, <1>8, <1>9 DEF ApartOK, Old
  <2> QED BY <1>2, <1>3, <1>4, <2>1 DEF Apart, Answered
<1>11. i \in 1..c.seen
  <2>1. DOMAIN stream[l] = 1..Len(stream[l]) /\ Len(stream[l]) \in Nat
    BY <1>1, EventsTyped
  <2> QED BY <1>3, <1>6, <1>10, <2>1
<1>12. PICK S : S = StepsViewed(l, c.seen)
  OBVIOUS
<1>13. S \subseteq StepIndex /\ DeedOf(e).step \in S
  BY <1>1, <1>3, <1>5, <1>6, <1>11, <1>12, Viewed
<1>14. ResumeAt(S) >= DeedOf(e).step + 1
  BY <1>13, ResumeIn
<1>15. page'[p].position = ResumeAt(S)
  BY <1>1, <1>2, <1>4, <1>12, LoadedStep
<1> QED BY <1>14, <1>15

(* A page that becomes ready does not resume before a step that an earlier *)
(* page was told is recorded (lesson-runtime.tsx:94-97).                   *)
THEOREM ReturningLearnersResumeHolds ==
  ASSUME Single PROVE Spec => ReturningLearnersResume
<1> DEFINE Resumes == \A p \in Page : page[p].status = "loading" /\ page'[p].status = "ready" =>
             \A e \in acked, l \in Learner :
               Holds(l, e) /\ IsA(e, "step") =>
                 haunted \/ page'[p].position >= DeedOf(e).step + 1
<1>1. LInv /\ [Next]_vars => [Resumes]_vars
  BY BecomesReady, ResumesThere
<1> QED BY <1>1, LInvIsInvariant, PTL DEF Spec, ReturningLearnersResume
=============================================================================
