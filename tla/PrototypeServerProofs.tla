----------------------- MODULE PrototypeServerProofs -----------------------
(***************************************************************************)
(* Proofs about PrototypeServer: for any number of submissions, keys and   *)
(* faults, what was acknowledged is stored, and a save replaces one record. *)
(***************************************************************************)
EXTENDS PrototypeServer, TLAPS

-----------------------------------------------------------------------------
(* The inductive invariant.                                                *)

(* A record, or none, that is completed only if it is mastered.            *)
Stored == {r \in Record : r.completed => r.mastered} \cup {None}

Stages == Resting \cup Saving \cup {"lesson", "saved"}
Payloads == Payload \cup {None}
Files == [Key -> Stored]
Statuses == {0, 201, 400}

PostState == [at : Stages, payload : Payloads, all : Files, status : Statuses]

TypesOK ==
  /\ process \in {"up", "closing", "down"}
  /\ file \in Files /\ temporary \in Files
  /\ queue \in Seq(Post) /\ kept \in Seq(Post) /\ misread \subseteq Post
  /\ post \in [Post -> PostState]
  /\ faults \in 0..MaxFaults

Keyed(n) == post[n].payload \in Payload /\ post[n].payload.key \in Key

(* What a submission has, by how far it has come.                          *)
PayloadsOK ==
  \A n \in Post :
    /\ post[n].at = "lesson" => post[n].payload \in Payload
    /\ (post[n].at \in Saving \cup {"saved"} \/ post[n].status = 201) => Keyed(n)
    /\ post[n].at # "answered" => post[n].status = 0

(* Only the save whose turn it is has read the file.                       *)
TurnsOK ==
  \A n \in Post : post[n].at \in {"write", "rename"} => queue # <<>> /\ Head(queue) = n

(* What it will replace the file by differs from the file in its record,   *)
(* or it could not read the file; at the rename that is what was written.  *)
Replaced(n) == [file EXCEPT ![post[n].payload.key] = RecordOf(n)]

ReadsOK ==
  \A n \in Post :
    /\ post[n].at \in {"write", "rename"} =>
         /\ post[n].all[post[n].payload.key] = RecordOf(n)
         /\ n \in misread \/ post[n].all = Replaced(n)
    /\ post[n].at = "rename" => temporary = post[n].all

(* A save that happened is still in the file, or what replaced it is, or a *)
(* later save could not read the file.                                     *)
Later(i) == {kept[j] : j \in i..Len(kept)}

Survives(i) ==
  LET record == file[post[kept[i]].payload.key]
  IN  \/ record # None /\ record.post \in Later(i)
      \/ Later(i) \cap misread # {}

KeptOK ==
  /\ \A i \in DOMAIN kept :
       post[kept[i]].at \notin {"idle", "lesson"} /\ Keyed(kept[i]) /\ Survives(i)
  /\ \A n \in Post : (post[n].at = "saved" \/ post[n].status = 201) =>
       \E i \in DOMAIN kept : kept[i] = n

PInv == TypesOK /\ PayloadsOK /\ TurnsOK /\ ReadsOK /\ KeptOK

-----------------------------------------------------------------------------
(* The file a read error stands for is one that may be stored.             *)
LEMMA EmptyIsFile == Empty \in Files
BY DEF Empty, Files, Stored

(* The server starts with it.                                              *)
LEMMA InitPInv == Init => PInv
<1> SUFFICES ASSUME Init PROVE PInv
  OBVIOUS
<1>1. Empty \in Files
  BY EmptyIsFile
<1>2. NoPost \in PostState
  BY <1>1 DEF NoPost, PostState, Resting, Stages, Payloads, Statuses
<1>3. TypesOK
  BY <1>1, <1>2, PrototypeAssumption DEF Init, TypesOK
<1>4. \A n \in Post : post[n].at = "idle" /\ post[n].status = 0
  BY DEF Init, NoPost
<1>5. PayloadsOK /\ TurnsOK /\ ReadsOK
  BY <1>4 DEF PayloadsOK, TurnsOK, ReadsOK, Saving, Resting
<1>6. KeptOK
  BY <1>4 DEF KeptOK, Init
<1> QED BY <1>3, <1>5, <1>6 DEF PInv

-----------------------------------------------------------------------------
(* What the steps have in common.                                          *)

(* RecordOf makes a record that may be stored.                             *)
LEMMA RecordIsStored ==
  ASSUME TypesOK, NEW n \in Post, Keyed(n)
  PROVE  RecordOf(n) \in Stored /\ RecordOf(n) # None /\ RecordOf(n).post = n
<1>1. post[n].payload.mastered \in BOOLEAN
  BY PrototypeAssumption DEF Keyed
<1>2. Completed(post[n].payload) \in BOOLEAN
  BY <1>1 DEF Completed
<1>3. Completed(post[n].payload) => post[n].payload.mastered
  BY <1>1 DEF Completed
<1>4. RecordOf(n) \in Record
  BY <1>1, <1>2 DEF RecordOf, Record
<1> QED BY <1>3, <1>4, PrototypeAssumption DEF RecordOf, Stored

(* It depends on the payload only, and a payload stays.                    *)
LEMMA PayloadStays ==
  ASSUME NEW n \in Post, post'[n].payload = post[n].payload
  PROVE  RecordOf(n)' = RecordOf(n) /\ Keyed(n)' = Keyed(n)
BY DEF RecordOf, Keyed, Completed

LEMMA ReplacedStays ==
  ASSUME NEW n \in Post, post'[n].payload = post[n].payload, file' = file
  PROVE  Replaced(n)' = Replaced(n)
BY PayloadStays DEF Replaced

(* A step that replaces no file keeps what is known of those that did.     *)
LEMMA KeptStays ==
  ASSUME PInv, UNCHANGED <<file, kept>>, misread \subseteq misread', misread' \subseteq Post,
         \A n \in Post : post[n].at \notin {"idle", "lesson"} =>
           post'[n].payload = post[n].payload /\ post'[n].at \notin {"idle", "lesson"},
         \A n \in Post : (post'[n].at = "saved" \/ post'[n].status = 201) =>
           (post[n].at = "saved" \/ post[n].status = 201)
  PROVE  KeptOK'
<1>1. ASSUME NEW i \in DOMAIN kept'
      PROVE  post'[kept'[i]].at \notin {"idle", "lesson"} /\ Keyed(kept[i])' /\ Survives(i)'
  <2>1. kept[i] \in Post /\ i \in DOMAIN kept
    BY <1>1 DEF PInv, TypesOK
  <2>2. post[kept[i]].at \notin {"idle", "lesson"} /\ Keyed(kept[i]) /\ Survives(i)
    BY <2>1 DEF PInv, KeptOK
  <2>3. post'[kept[i]].payload = post[kept[i]].payload
    BY <2>1, <2>2
  <2>4. Keyed(kept[i])'
    BY <2>2, <2>3 DEF Keyed
  <2>5. Later(i)' = Later(i)
    BY DEF Later
  <2> QED BY <2>1, <2>2, <2>3, <2>4, <2>5 DEF Survives
<1>2. \A n \in Post : (post'[n].at = "saved" \/ post'[n].status = 201) =>
        \E i \in DOMAIN kept' : kept'[i] = n
  BY DEF PInv, KeptOK
<1> QED BY <1>1, <1>2 DEF KeptOK

-----------------------------------------------------------------------------
(* The steps.                                                              *)

(* A submission is sent.                                                   *)
LEMMA SendStep ==
  ASSUME PInv, NEW n \in Post, NEW payload \in Payload, Send(n, payload)
  PROVE  PInv'
<1>1. /\ post[n].at = "idle" /\ post' = [post EXCEPT ![n].at = "lesson", ![n].payload = payload]
      /\ UNCHANGED <<process, file, temporary, queue, faults, kept, misread>>
  BY DEF Send
<1>2. "lesson" \in Stages /\ payload \in Payloads
  BY DEF Stages, Payloads
<1>3. post \in [Post -> PostState]
  BY DEF PInv, TypesOK
<1>4. /\ post' \in [Post -> PostState]
      /\ post'[n].at = "lesson" /\ post'[n].payload = payload /\ post'[n].status = post[n].status
  BY <1>1, <1>2, <1>3 DEF PostState
<1>5. \A m \in Post : m # n => post'[m] = post[m]
  BY <1>1, <1>3
<1>6. TypesOK'
  BY <1>1, <1>4 DEF PInv, TypesOK
<1>7. PayloadsOK'
  BY <1>1, <1>4, <1>5 DEF PInv, PayloadsOK, Saving, Keyed
<1>8. TurnsOK'
  BY <1>1, <1>4, <1>5 DEF PInv, TurnsOK
<1>9. ReadsOK'
  BY <1>1, <1>4, <1>5, PayloadStays, ReplacedStays DEF PInv, ReadsOK
<1>10. KeptOK'
  <2>1. post[n].status = 0
    BY <1>1 DEF PInv, PayloadsOK
  <2> QED BY <2>1, <1>1, <1>4, <1>5, KeptStays DEF PInv, TypesOK
<1> QED BY <1>6, <1>7, <1>8, <1>9, <1>10 DEF PInv

(* The lesson is read, or is not one.                                      *)
LEMMA ReadLessonStep ==
  ASSUME PInv, NEW n \in Post, ReadLesson(n)
  PROVE  PInv'
<1>1. post[n].at = "lesson" /\ UNCHANGED <<process, file, temporary, kept, misread>>
  BY DEF ReadLesson
<1>2. post \in [Post -> PostState] /\ post[n].payload \in Payload /\ post[n].status = 0
  BY <1>1 DEF PInv, TypesOK, PayloadsOK
<1>3. "queued" \in Stages /\ "answered" \in Stages /\ 400 \in Statuses
  BY DEF Stages, Saving, Resting, Statuses
<1>4. \/ /\ post[n].payload.key # None
         /\ post' = [post EXCEPT ![n].at = "queued"]
         /\ queue' = Append(queue, n) /\ faults' = faults
      \/ /\ post' = [post EXCEPT ![n].at = "answered", ![n].status = 400]
         /\ queue' = queue /\ faults' \in 0..MaxFaults
  BY PrototypeAssumption DEF ReadLesson, Fault, PInv, TypesOK
<1>5. /\ post' \in [Post -> PostState] /\ post'[n].payload = post[n].payload
      /\ \A m \in Post : m # n => post'[m] = post[m]
  <2>1. CASE post' = [post EXCEPT ![n].at = "queued"]
    BY <2>1, <1>2, <1>3 DEF PostState
  <2>2. CASE post' = [post EXCEPT ![n].at = "answered", ![n].status = 400]
    BY <2>2, <1>2, <1>3 DEF PostState
  <2> QED BY <1>4, <2>1, <2>2
<1>6. \/ post'[n].at = "queued" /\ post'[n].status = 0 /\ post[n].payload.key # None
      \/ post'[n].at = "answered" /\ post'[n].status = 400
  <2>1. CASE post[n].payload.key # None /\ post' = [post EXCEPT ![n].at = "queued"]
    BY <2>1, <1>2, <1>3 DEF PostState
  <2>2. CASE post' = [post EXCEPT ![n].at = "answered", ![n].status = 400]
    BY <2>2, <1>2, <1>3 DEF PostState
  <2> QED BY <1>4, <2>1, <2>2
<1>7. \A m \in Post : m # n => post'[m] = post[m]
  BY <1>5
<1>8. queue' \in Seq(Post) /\ (queue # <<>> => queue' # <<>> /\ Head(queue') = Head(queue))
  <2>1. queue \in Seq(Post) /\ (queue' = queue \/ queue' = Append(queue, n))
    BY <1>4 DEF PInv, TypesOK
  <2> QED BY <2>1
<1>9. TypesOK'
  BY <1>1, <1>4, <1>5, <1>8 DEF PInv, TypesOK
<1>10. PayloadsOK'
  <2>1. post[n].payload.key # None => post[n].payload.key \in Key
    BY <1>2, PrototypeAssumption
  <2> QED BY <2>1, <1>2, <1>5, <1>6, <1>7 DEF PInv, PayloadsOK, Saving, Keyed
<1>11. TurnsOK'
  BY <1>6, <1>7, <1>8 DEF PInv, TurnsOK
<1>12. ReadsOK'
  BY <1>1, <1>6, <1>7, PayloadStays, ReplacedStays DEF PInv, ReadsOK
<1>13. KeptOK'
  BY <1>1, <1>5, <1>6, <1>7, KeptStays DEF PInv, TypesOK
<1> QED BY <1>9, <1>10, <1>11, <1>12, <1>13 DEF PInv

(* The file is read, or taken for an empty one.                            *)
LEMMA ReadStep ==
  ASSUME PInv, NEW n \in Post, Read(n)
  PROVE  PInv'
<1> DEFINE k == post[n].payload.key
<1>1. PICK all \in {file, Empty} :
        /\ IF all = file THEN UNCHANGED <<faults, misread>>
           ELSE Fault /\ misread' = misread \cup {n}
        /\ post' = [post EXCEPT ![n].at = "write", ![n].all = [all EXCEPT ![k] = RecordOf(n)]]
  BY DEF Read
<1>2. post[n].at = "queued" /\ queue # <<>> /\ Head(queue) = n
      /\ UNCHANGED <<process, file, temporary, queue, kept>>
  BY DEF Read, Chained
<1>3. Keyed(n) /\ RecordOf(n) \in Stored
  BY <1>2, RecordIsStored DEF PInv, PayloadsOK, Saving
<1>4. all \in [Key -> Stored]
  BY <1>1, EmptyIsFile DEF PInv, TypesOK, Files
<1>5. PICK b : b = [all EXCEPT ![k] = RecordOf(n)]
  OBVIOUS
<1>6. b \in Files /\ b[k] = RecordOf(n) /\ "write" \in Stages
  BY <1>3, <1>4, <1>5 DEF Keyed, Files, Stages, Saving
<1>7. post \in [Post -> PostState] /\ post' = [post EXCEPT ![n].at = "write", ![n].all = b]
  BY <1>1, <1>5 DEF PInv, TypesOK
<1>8. /\ post' \in [Post -> PostState]
      /\ post'[n].at = "write" /\ post'[n].payload = post[n].payload
      /\ post'[n].status = post[n].status /\ post'[n].all = b
  BY <1>6, <1>7 DEF PostState
<1>9. \A m \in Post : m # n => post'[m] = post[m]
  BY <1>7
<1>10. misread \subseteq misread' /\ misread' \subseteq Post /\ (all # file => n \in misread')
  BY <1>1 DEF PInv, TypesOK
<1>11. TypesOK'
  <2>1. faults' \in 0..MaxFaults
    BY <1>1, PrototypeAssumption DEF PInv, TypesOK, Fault
  <2> QED BY <1>2, <1>8, <1>10, <2>1 DEF PInv, TypesOK
<1>12. PayloadsOK'
  BY <1>2, <1>3, <1>8, <1>9 DEF PInv, PayloadsOK, Saving, Keyed
<1>13. TurnsOK'
  BY <1>2, <1>9 DEF PInv, TurnsOK
<1>14. ReadsOK'
  <2>1. \A m \in Post : m # n => post'[m].at \notin {"write", "rename"}
    BY <1>2, <1>9 DEF PInv, TurnsOK
  <2>2. RecordOf(n)' = RecordOf(n)
    BY <1>8, PayloadStays
  <2>3. post'[n].all[post'[n].payload.key] = RecordOf(n)'
    BY <1>6, <1>8, <2>2
  <2>4. n \in misread' \/ post'[n].all = Replaced(n)'
    <3>1. CASE all # file
      BY <3>1, <1>10
    <3>2. CASE all = file
      BY <3>2, <1>2, <1>5, <1>8, ReplacedStays DEF Replaced
    <3> QED BY <3>1, <3>2
  <2> QED BY <1>8, <2>1, <2>3, <2>4 DEF ReadsOK
<1>15. KeptOK'
  BY <1>2, <1>8, <1>9, <1>10, KeptStays
<1> QED BY <1>11, <1>12, <1>13, <1>14, <1>15 DEF PInv

(* The temporary file is written.                                          *)
LEMMA WriteStep ==
  ASSUME PInv, NEW n \in Post, Write(n)
  PROVE  PInv'
<1>1. /\ post[n].at = "write" /\ queue # <<>> /\ Head(queue) = n
      /\ temporary' = post[n].all /\ post' = [post EXCEPT ![n].at = "rename"]
      /\ UNCHANGED <<process, file, queue, faults, kept, misread>>
  BY DEF Write, Written, Chained
<1>2. post \in [Post -> PostState] /\ "rename" \in Stages
  BY DEF PInv, TypesOK, Stages, Saving
<1>3. /\ post' \in [Post -> PostState] /\ post[n].all \in Files
      /\ post'[n].at = "rename" /\ post'[n].payload = post[n].payload
      /\ post'[n].status = post[n].status /\ post'[n].all = post[n].all
  BY <1>1, <1>2 DEF PostState
<1>4. \A m \in Post : m # n => post'[m] = post[m]
  BY <1>1, <1>2
<1>5. TypesOK'
  BY <1>1, <1>3 DEF PInv, TypesOK
<1>6. PayloadsOK'
  BY <1>1, <1>3, <1>4 DEF PInv, PayloadsOK, Saving, Keyed
<1>7. TurnsOK'
  BY <1>1, <1>4 DEF PInv, TurnsOK
<1>8. ReadsOK'
  <2>1. \A m \in Post : m # n => post'[m].at \notin {"write", "rename"}
    BY <1>1, <1>4 DEF PInv, TurnsOK
  <2>2. RecordOf(n)' = RecordOf(n) /\ Replaced(n)' = Replaced(n)
    BY <1>1, <1>3, PayloadStays, ReplacedStays
  <2>3. /\ post[n].all[post[n].payload.key] = RecordOf(n)
        /\ n \in misread \/ post[n].all = Replaced(n)
    BY <1>1 DEF PInv, ReadsOK
  <2> QED BY <1>1, <1>3, <2>1, <2>2, <2>3 DEF ReadsOK
<1>9. KeptOK'
  BY <1>1, <1>3, <1>4, KeptStays DEF PInv, TypesOK
<1> QED BY <1>5, <1>6, <1>7, <1>8, <1>9 DEF PInv

(* The file is replaced.                                                   *)
LEMMA RenameStep ==
  ASSUME PInv, NEW n \in Post, Rename(n)
  PROVE  PInv'
<1> DEFINE k == post[n].payload.key
<1>1. /\ post[n].at = "rename" /\ queue # <<>> /\ Head(queue) = n
      /\ file' = temporary /\ queue' = Tail(queue) /\ kept' = Append(kept, n)
      /\ post' = [post EXCEPT ![n].at = "saved", ![n].all = Empty]
      /\ UNCHANGED <<process, temporary, faults, misread>>
  BY DEF Rename, Chained
<1>2. /\ post \in [Post -> PostState] /\ "saved" \in Stages /\ Empty \in Files
      /\ kept \in Seq(Post) /\ queue \in Seq(Post)
  BY EmptyIsFile DEF PInv, TypesOK, Stages
<1>3. /\ post' \in [Post -> PostState]
      /\ post'[n].at = "saved" /\ post'[n].payload = post[n].payload
      /\ post'[n].status = post[n].status
  BY <1>1, <1>2 DEF PostState
<1>4. \A m \in Post : m # n => post'[m] = post[m]
  BY <1>1, <1>2
<1>5. Keyed(n) /\ RecordOf(n) # None /\ RecordOf(n).post = n
  BY <1>1, RecordIsStored DEF PInv, PayloadsOK, Saving
<1>6. file'[k] = RecordOf(n) /\ (n \in misread \/ file' = Replaced(n))
  BY <1>1 DEF PInv, ReadsOK
<1>7. TypesOK'
  BY <1>1, <1>2, <1>3 DEF PInv, TypesOK
<1>8. \A m \in Post : post'[m].at \notin {"write", "rename"}
  BY <1>1, <1>3, <1>4 DEF PInv, TurnsOK
<1>9. TurnsOK' /\ ReadsOK'
  BY <1>8 DEF TurnsOK, ReadsOK
<1>10. PayloadsOK'
  BY <1>1, <1>3, <1>4, <1>5 DEF PInv, PayloadsOK, Saving, Keyed
<1>11. KeptOK'
  <2>1. /\ Len(kept) \in Nat /\ Len(kept') = Len(kept) + 1 /\ DOMAIN kept = 1..Len(kept)
        /\ DOMAIN kept' = 1..Len(kept)+1 /\ kept'[Len(kept) + 1] = n
        /\ \A i \in DOMAIN kept : kept'[i] = kept[i] /\ kept[i] \in Post
    BY <1>1, <1>2
  <2>2. \A i \in DOMAIN kept' : n \in Later(i)'
    BY <2>1 DEF Later
  <2>3. \A i \in DOMAIN kept : Later(i) \subseteq Later(i)'
    BY <2>1 DEF Later
  <2>4. \A m \in Post : post'[m].payload = post[m].payload
    BY <1>3, <1>4
  <2>5. ASSUME NEW i \in DOMAIN kept, post[kept[i]].payload.key # k
        PROVE  Survives(i)'
    <3> DEFINE l == post[kept[i]].payload.key
    <3>1. Survives(i) /\ Keyed(kept[i]) /\ kept'[i] = kept[i] /\ kept[i] \in Post
      BY <2>1 DEF PInv, KeptOK
    <3>2. CASE n \in misread
      BY <3>2, <1>1, <2>1, <2>2 DEF Survives
    <3>3. CASE file' = Replaced(n)
      <4>1. l \in Key /\ file'[l] = file[l]
        BY <3>1, <3>3, <2>5 DEF Replaced, Keyed, PInv, TypesOK, Files
      <4>2. post'[kept'[i]].payload.key = l
        BY <3>1, <2>4
      <4> QED BY <4>1, <4>2, <3>1, <2>3, <1>1 DEF Survives
    <3> QED BY <3>2, <3>3, <1>6
  <2>6. ASSUME NEW i \in DOMAIN kept', post'[kept'[i]].payload.key = k
        PROVE  Survives(i)'
    BY <2>6, <2>2, <1>5, <1>6 DEF Survives
  <2>7. ASSUME NEW i \in DOMAIN kept'
        PROVE  post'[kept'[i]].at \notin {"idle", "lesson"} /\ Keyed(kept[i])' /\ Survives(i)'
    <3>1. CASE i = Len(kept) + 1
      BY <3>1, <2>1, <2>6, <1>3, <1>5 DEF Keyed
    <3>2. CASE i \in DOMAIN kept
      <4>1. post[kept[i]].at \notin {"idle", "lesson"} /\ Keyed(kept[i]) /\ kept'[i] = kept[i]
            /\ kept[i] \in Post
        BY <3>2, <2>1 DEF PInv, KeptOK
      <4>2. post'[kept[i]].at \notin {"idle", "lesson"}
        BY <4>1, <1>3, <1>4
      <4>3. Keyed(kept[i])'
        BY <4>1, <2>4 DEF Keyed
      <4>4. Survives(i)'
        BY <3>2, <4>1, <2>4, <2>5, <2>6, <2>7
      <4> QED BY <4>1, <4>2, <4>3, <4>4
    <3> QED BY <3>1, <3>2, <2>1
  <2>8. ASSUME NEW m \in Post, post'[m].at = "saved" \/ post'[m].status = 201
        PROVE  \E i \in DOMAIN kept' : kept'[i] = m
    <3>1. CASE m = n
      BY <3>1, <2>1
    <3>2. CASE m # n
      <4>1. PICK i \in DOMAIN kept : kept[i] = m
        BY <3>2, <2>8, <1>4 DEF PInv, KeptOK
      <4> QED BY <4>1, <2>1
    <3> QED BY <3>1, <3>2
  <2> QED BY <2>7, <2>8 DEF KeptOK
<1> QED BY <1>7, <1>9, <1>10, <1>11 DEF PInv

(* The client gets its 201.                                                *)
LEMMA AnswerStep ==
  ASSUME PInv, NEW n \in Post, Answer(n)
  PROVE  PInv'
<1>1. /\ post[n].at = "saved" /\ post' = [post EXCEPT ![n].at = "answered", ![n].status = 201]
      /\ UNCHANGED <<process, file, temporary, queue, faults, kept, misread>>
  BY DEF Answer
<1>2. post \in [Post -> PostState] /\ "answered" \in Stages /\ 201 \in Statuses
  BY DEF PInv, TypesOK, Stages, Resting, Statuses
<1>3. /\ post' \in [Post -> PostState] /\ post'[n].at = "answered"
      /\ post'[n].payload = post[n].payload /\ post'[n].status = 201
  <2>1. post' = [post EXCEPT ![n].at = "answered", ![n].status = 201]
    BY <1>1
  <2>2. post' \in [Post -> PostState]
    <3>1. post[n] \in PostState /\ "answered" \in Stages /\ 201 \in Statuses
      BY <1>2
    <3>2. [post[n] EXCEPT !.at = "answered", !.status = 201] \in PostState
      BY <3>1 DEF PostState
    <3>3. post' = [post EXCEPT ![n] = [post[n] EXCEPT !.at = "answered", !.status = 201]]
      BY <2>1, <1>2
    <3> QED BY <3>2, <3>3, <1>2
  <2>3. post'[n].at = "answered" /\ post'[n].payload = post[n].payload
    BY <2>1, <1>2 DEF PostState
  <2>4. post'[n].status = 201
    BY <2>1, <1>2 DEF PostState
  <2> QED BY <2>2, <2>3, <2>4
<1>4. \A m \in Post : m # n => post'[m] = post[m]
  BY <1>1, <1>2
<1>5. TypesOK'
  BY <1>1, <1>3 DEF PInv, TypesOK
<1>6. PayloadsOK'
  BY <1>1, <1>3, <1>4 DEF PInv, PayloadsOK, Saving, Keyed
<1>7. TurnsOK'
  BY <1>1, <1>3, <1>4 DEF PInv, TurnsOK
<1>8. ReadsOK'
  BY <1>1, <1>3, <1>4, PayloadStays, ReplacedStays DEF PInv, ReadsOK
<1>9. KeptOK'
  BY <1>1, <1>3, <1>4, KeptStays DEF PInv, TypesOK
<1> QED BY <1>5, <1>6, <1>7, <1>8, <1>9 DEF PInv

(* The process ends: a crash, a rejection nobody handles, a shutdown.      *)
LEMMA DieStep ==
  ASSUME PInv, Die, faults' \in 0..MaxFaults
  PROVE  PInv'
<1>1. /\ process' = "down" /\ queue' = <<>>
      /\ UNCHANGED <<file, temporary, kept, misread>>
      /\ post' = [n \in Post |-> IF post[n].at \in Resting THEN post[n]
                                ELSE [post[n] EXCEPT !.at = "lost", !.all = Empty]]
  BY DEF Die
<1>2. post \in [Post -> PostState] /\ "lost" \in Stages /\ "lost" \in Resting /\ Empty \in Files
  BY EmptyIsFile DEF PInv, TypesOK, Stages, Resting
<1>3. ASSUME NEW n \in Post
      PROVE  /\ post'[n] \in PostState /\ post'[n].at \in Resting
             /\ post'[n].payload = post[n].payload /\ post'[n].status = post[n].status
             /\ post'[n].at \in {post[n].at, "lost"}
             /\ post[n].at \in Resting => post'[n].at = post[n].at
  <2>1. CASE post[n].at \in Resting
    <3>1. post'[n] = post[n]
      BY <2>1, <1>1
    <3>2. post[n] \in PostState
      BY <1>2
    <3> QED BY <3>1, <3>2, <2>1
  <2>2. CASE post[n].at \notin Resting
    <3>1. post'[n] = [post[n] EXCEPT !.at = "lost", !.all = Empty] /\ post[n] \in PostState
      BY <2>2, <1>1, <1>2
    <3> QED BY <3>1, <2>2, <1>2 DEF PostState
  <2> QED BY <2>1, <2>2
<1>4. TypesOK'
  <2>1. post' \in [Post -> PostState]
    <3> DEFINE Left(n) == IF post[n].at \in Resting THEN post[n]
                          ELSE [post[n] EXCEPT !.at = "lost", !.all = Empty]
    <3>1. post' = [n \in Post |-> Left(n)]
      BY <1>1
    <3>2. \A n \in Post : Left(n) \in PostState
      BY <1>1, <1>3
    <3> HIDE DEF Left
    <3> QED BY <3>1, <3>2
  <2>2. queue' \in Seq(Post) /\ process' \in {"up", "closing", "down"}
    <3>1. queue' = <<>> /\ process' = "down"
      BY <1>1
    <3> QED BY <3>1
  <2> QED BY <1>1, <2>1, <2>2 DEF PInv, TypesOK
<1>5. \A n \in Post : post'[n].at \in {"idle", "answered", "lost"}
  BY <1>3 DEF Resting
<1>6. PayloadsOK'
  <2>1. ASSUME NEW n \in Post
        PROVE  /\ post'[n].status = 201 => Keyed(n)'
               /\ post'[n].at # "answered" => post'[n].status = 0
    BY <1>3, <1>5 DEF PInv, PayloadsOK, Keyed, Resting
  <2> QED BY <1>5, <2>1 DEF PayloadsOK, Saving
<1>7. TurnsOK' /\ ReadsOK'
  BY <1>5 DEF TurnsOK, ReadsOK
<1>8. KeptOK'
  BY <1>1, <1>3, <1>5, KeptStays DEF PInv, TypesOK
<1> QED BY <1>4, <1>6, <1>7, <1>8 DEF PInv

(* A step that leaves the handlers and the files leaves it.                *)
LEMMA ProcessStep ==
  ASSUME PInv, UNCHANGED <<file, temporary, queue, post, kept, misread>>,
         process' \in {"up", "closing", "down"}, faults' \in 0..MaxFaults
  PROVE  PInv'
<1>1. TypesOK'
  BY DEF PInv, TypesOK
<1>2. PayloadsOK' /\ TurnsOK'
  BY DEF PInv, PayloadsOK, TurnsOK, Keyed
<1>3. ReadsOK'
  BY PayloadStays, ReplacedStays DEF PInv, ReadsOK
<1>4. KeptOK'
  BY KeptStays DEF PInv, TypesOK
<1> QED BY <1>1, <1>2, <1>3, <1>4 DEF PInv

(* Every step keeps it.                                                    *)
LEMMA StepKeepsPInv ==
  ASSUME PInv, [Next]_vars
  PROVE  PInv'
<1>1. process \in {"up", "closing", "down"} /\ faults \in 0..MaxFaults
  BY DEF PInv, TypesOK
<1>2. ASSUME Fault PROVE faults' \in 0..MaxFaults
  BY <1>1, <1>2, PrototypeAssumption DEF Fault
<1>3. ASSUME NEW n \in Post, NEW payload \in Payload, Send(n, payload) PROVE PInv'
  BY <1>3, SendStep
<1>4. ASSUME NEW n \in Post, Handle(n) PROVE PInv'
  BY <1>4, ReadLessonStep, ReadStep, WriteStep, RenameStep, AnswerStep DEF Handle
<1>5. ASSUME NEW n \in Post, Reject(n) PROVE PInv'
  BY <1>5, <1>2, DieStep DEF Reject, Unhandled
<1>6. CASE Crash
  BY <1>6, <1>2, DieStep DEF Crash
<1>7. CASE Exit
  BY <1>7, <1>1, DieStep DEF Exit
<1>8. CASE Shutdown
  BY <1>8, <1>2, ProcessStep DEF Shutdown
<1>9. CASE Restart
  BY <1>9, <1>1, ProcessStep DEF Restart
<1>10. CASE UNCHANGED vars
  BY <1>10, <1>1, ProcessStep DEF vars
<1> QED BY <1>3, <1>4, <1>5, <1>6, <1>7, <1>8, <1>9, <1>10 DEF Next

-----------------------------------------------------------------------------
(* The theorems.                                                           *)

(* The inductive invariant is one.                                         *)
THEOREM PInvIsInvariant == Spec => []PInv
<1>1. PInv /\ [Next]_vars => PInv'
  BY StepKeepsPInv
<1> QED BY InitPInv, <1>1, PTL DEF Spec

(* Whatever is submitted and whatever fails, the file holds records, and   *)
(* none that is completed and not mastered.                                *)
THEOREM PrototypeTypeCorrect == Spec => []TypeOK
<1>1. PInv => TypeOK
  <2> SUFFICES ASSUME PInv PROVE TypeOK
    OBVIOUS
  <2>1. TypesOK
    BY DEF PInv
  <2>2. Stored \subseteq Record \cup {None}
    BY DEF Stored
  <2>3. file \in Progress /\ temporary \in Progress
    BY <2>1, <2>2 DEF TypesOK, Files, Progress
  <2>4. ASSUME NEW k \in Key, file[k] # None, file[k].completed PROVE file[k].mastered
    <3>1. file[k] \in Stored
      BY <2>1 DEF TypesOK, Files
    <3> QED BY <3>1, <2>4 DEF Stored
  <2>5. \A n \in Post : post[n].at \in Stages
    BY <2>1 DEF TypesOK, PostState
  <2> QED BY <2>1, <2>3, <2>4, <2>5 DEF TypeOK, TypesOK, Stages
<1> QED BY PInvIsInvariant, <1>1, PTL

(* Whatever crashes, a submission answered 201 is in the file, or a later  *)
(* one of its key is, unless a later save could not read the file.         *)
THEOREM AcknowledgedHolds == Spec => []AcknowledgedIsStored
<1>1. PInv => AcknowledgedIsStored
  <2> SUFFICES ASSUME PInv, NEW n \in Post, post[n].status = 201
               PROVE  \E i \in DOMAIN kept : kept[i] = n /\ Survives(i)
    BY DEF AcknowledgedIsStored, Survives, Later
  <2> QED BY DEF PInv, KeptOK
<1> QED BY PInvIsInvariant, <1>1, PTL

(* A save replaces the record of its key and no other, for any number of   *)
(* submissions under way, unless it could not read the file.               *)
THEOREM ReplacesHolds == Spec => ReplacesOneRecord
<1> DEFINE OneRecord ==
      file' # file =>
        \E n \in Post : post[n].at = "rename" /\
          \/ n \in misread
          \/ file' = [file EXCEPT ![post[n].payload.key] = RecordOf(n)]
<1>1. PInv /\ [Next]_vars => [OneRecord]_vars
  <2> SUFFICES ASSUME PInv, Next PROVE OneRecord
    OBVIOUS
  <2>1. ASSUME NEW n \in Post, Rename(n) PROVE OneRecord
    BY <2>1 DEF Rename, PInv, ReadsOK, Replaced
  <2>2. ASSUME NEW n \in Post, Handle(n), ~Rename(n) PROVE file' = file
    BY <2>2 DEF Handle, ReadLesson, Read, Write, Written, Answer
  <2>3. CASE \E n \in Post, payload \in Payload : Send(n, payload)
    BY <2>3 DEF Send
  <2>4. CASE \E n \in Post : Reject(n)
    BY <2>4 DEF Reject, Unhandled, Die
  <2>5. CASE Crash \/ Shutdown \/ Exit \/ Restart
    BY <2>5 DEF Crash, Shutdown, Exit, Restart, Die
  <2> QED BY <2>1, <2>2, <2>3, <2>4, <2>5 DEF Next
<1> QED BY PInvIsInvariant, <1>1, PTL DEF Spec, ReplacesOneRecord

=============================================================================
