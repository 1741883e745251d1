-------------------------- MODULE LessonRuntimeInv --------------------------
(***************************************************************************)
(* Why the safety properties of LessonRuntime hold.  Shape is what is true *)
(* of a page and its own requests, whatever the others do; RecordOK        *)
(* relates them to the streams of the server; TabsOK, OrderOK and ApartOK  *)
(* relate pages to each other; and MineOK says, where all pages are of one *)
(* tab, that what this browser holds on to is the id it has stored.        *)
(* LessonRuntimeProofs proves that LInv is inductive.                      *)
(***************************************************************************)
EXTENDS LessonRuntime

-----------------------------------------------------------------------------
(* A page in state s and what its threads wait for, cs.                    *)

Booting == {"confirm", "create", "resume"}

(* Thread k may be waiting for c: who may ask what, when.                  *)
CallShape(k, c, s) ==
  /\ c.at = "idle" <=> c.ask = "none"
  /\ c.at = "late" => c.ask = "append"
  /\ c.at # "idle" /\ ~(c.ask = "create" /\ c.at = "sent") => c.id \in Learner
  /\ c.ask = "create" /\ c.at = "answered" => c.found
  /\ k # 0 => c.ask \in {"none", "append", "progress"}
  /\ c.at # "idle" => s.status # "unopened" /\ (k # 0 => k \in DOMAIN s.deeds)
  /\ Waits(c) /\ c.ask \notin {"confirm", "create"} => s.status \in Mounted
  /\ Waits(c) /\ k # 0 => c.id = s.session
  /\ c.ask \in Booting => s.status \in {"loading", "left"}
  /\ c.ask = "append" => s.status # "loading"

Did(s, kind) == {i \in DOMAIN s.deeds : s.deeds[i].kind = kind}

(* The page waits for an answer while it is loading or saving, has marked  *)
(* the steps it recorded, and submits one answer at a time.                *)
PageShape(s, cs) ==
  /\ Len(s.deeds) <= MaxDeeds
  /\ s.status \notin {"ready", "unavailable"} => s.saving = 0 /\ s.session = None
  /\ s.status \in {"unopened", "loading"} => s.deeds = <<>>
  /\ s.status = "loading" => Waits(cs[0])
  /\ s.saving # 0 => Waits(cs[s.saving])
  /\ \A i, j \in Did(s, "step") : i # j => s.deeds[i].step # s.deeds[j].step
  /\ s.status \in Mounted => \A i \in Did(s, "step") : s.deeds[i].step \in s.marked
  /\ \A i \in Did(s, "reflection") :
       /\ Waits(cs[i]) => s.saving = i
       /\ \A j \in Did(s, "reflection") : i < j => ~Waits(cs[i])

Shape(s, cs) ==
  /\ s \in PageState
  /\ cs \in [Thread -> CallState]
  /\ PageShape(s, cs)
  /\ \A k \in Thread : CallShape(k, cs[k], s)

ShapesOK == \A p \in Page : Shape(page[p], calls[p])

-----------------------------------------------------------------------------
(* The streams str and learners lrn of the server, the pages pg.           *)

In(e, str, l) == \E i \in DOMAIN str[l] : str[l][i] = e
Recorded(e, str) == \E l \in Learner : In(e, str, l)

(* Of a known learner only deeds and bootstraps that happened are recorded.*)
StreamsOK(str, lrn, pg) ==
  \A l \in Learner : \A i \in DOMAIN str[l] :
    LET e == str[l][i]
    IN  /\ lrn[l] # "unborn"
        /\ IF e[2] = 0 THEN pg[e[1]].status \notin {"unopened", "loading"}
                       ELSE e[2] \in DOMAIN pg[e[1]].deeds

OnceOK(str) ==
  \A l, m \in Learner : \A i \in DOMAIN str[l], j \in DOMAIN str[m] :
    str[l][i] = str[m][j] => l = m /\ i = j

(* A write is on its way or in the stream, and what comes after the write  *)
(* finds it there.                                                         *)
Honest(e, c, str, lrn) ==
  /\ c.at # "idle" /\ c.id \in Learner => lrn[c.id] # "unborn"
  /\ c.ask = "append" /\ c.at \in {"sent", "late"} => ~Recorded(e, str)
  /\ c.ask = "append" /\ c.at = "answered" /\ c.found => In(e, str, c.id)
  /\ c.ask = "progress" /\ e[2] # 0 => In(e, str, c.id)
  /\ c.ask = "progress" /\ c.at = "answered" /\ c.found =>
       /\ c.seen <= Len(str[c.id])
       /\ e[2] # 0 => \E i \in 1..c.seen : str[c.id][i] = e
  /\ c.at = "answered" /\ ~c.found => lrn[c.id] = "erased"

RecordOK ==
  /\ StreamsOK(stream, learner, page)
  /\ OnceOK(stream)
  /\ \A e \in acked : Recorded(e, stream)
  /\ stored # None => learner[stored] # "unborn"
  /\ \A p \in Page :
       /\ page[p].session # None => learner[page[p].session] # "unborn"
       /\ \A k \in Thread : Honest(<<p, k>>, calls[p][k], stream, learner)

-----------------------------------------------------------------------------
(* Pages and those before them.                                            *)

Before(p, q) == p < q /\ TabOf[p] = TabOf[q]

TabsOK ==
  \A p, q \in Page : Before(p, q) /\ page[q].status # "unopened" =>
    page[p].status = "left"

(* An answer that overtook an earlier one of its page: that one is never   *)
(* acknowledged.                                                           *)
OrderOK ==
  \A l \in Learner : \A i, j \in DOMAIN stream[l] :
    LET f == stream[l][i]
        e == stream[l][j]
    IN  i < j /\ e[1] = f[1] /\ IsA(e, "reflection") /\ IsA(f, "reflection")
          /\ e[2] < f[2] => e \notin acked

Old(e, q) == e \in acked /\ Before(e[1], q)

Writing(p, k, l) ==
  calls[p][k].ask = "append" /\ calls[p][k].at \in {"sent", "late"} /\ calls[p][k].id = l

(* What page q reads includes event e, the i-th of learner l, q has marked *)
(* it, and q does not do it again.                                         *)
Apart(q, l, i, e) ==
  /\ Answered(q, 0, "progress") /\ calls[q][0].found /\ calls[q][0].id = l
       => i <= calls[q][0].seen
  /\ IsA(e, "step") =>
       /\ page[q].session = l => DeedOf(e).step \in page[q].marked
       /\ \A k \in DOMAIN page[q].deeds :
            /\ IsA(<<q, k>>, "step")
            /\ In(<<q, k>>, stream, l) \/ Writing(q, k, l)
            => DeedOf(<<q, k>>).step # DeedOf(e).step

(* So it is with what a page of the tab has been told before.              *)
ApartOK ==
  \A q \in Page, l \in Learner : \A i \in DOMAIN stream[l] :
    Old(stream[l][i], q) => Apart(q, l, i, stream[l][i])

-----------------------------------------------------------------------------
(* One tab, and no page that was gone has replaced the id.                 *)

Single == \A p, q \in Page : TabOf[p] = TabOf[q]

(* A mounted page keeps to the stored id, and creates a learner only when  *)
(* there is nothing to lose.                                               *)
Mine(p) ==
  /\ page[p].session \in {None, stored}
  /\ Waits(calls[p][0]) => IF calls[p][0].ask = "create"
                             THEN \A e \in acked, l \in Learner : ~Holds(l, e)
                             ELSE calls[p][0].id = stored

MineOK ==
  /\ \A e \in acked, l \in Learner : Holds(l, e) => l = stored
  /\ \A p \in Page : IsMounted(p) => Mine(p)

LInv ==
  /\ TypeOK
  /\ ShapesOK
  /\ RecordOK
  /\ TabsOK
  /\ OrderOK
  /\ ApartOK
  /\ Single /\ ~haunted => MineOK

=============================================================================
