-------------------------- MODULE PrototypeServer --------------------------
(***************************************************************************)
(* Saving progress in the archived prototype: POST /api/progress of        *)
(* prototype/server.mjs and its progress file.                             *)
(*                                                                         *)
(* Every handler runs until an await; the saves are chained on one promise *)
(* and replace the file by renaming a temporary one.  The process may die  *)
(* at any moment, and its container is started again.  One process: in     *)
(* production PORT_ATTEMPTS is 1.                                          *)
(***************************************************************************)
EXTENDS Naturals, Sequences

CONSTANTS
  Post,       \* submissions
  Key,        \* learnerId:conceptId
  Payload,    \* bound: what is submitted
  MaxFaults,  \* bound: how often something fails
  None        \* "no value"

Record == [post : Post, completed : BOOLEAN, mastered : BOOLEAN]

ASSUME PrototypeAssumption ==
  /\ Payload \subseteq
       [key : Key \cup {None}, completed : {TRUE, None}, mastered : BOOLEAN]
  /\ MaxFaults \in Nat
  /\ None \notin Key \cup Record \cup BOOLEAN

VARIABLES
  process,    \* the server
  file,       \* progress.json
  temporary,  \* progress.json.tmp
  queue,      \* the saves chained on progressWrite, in their order
  post,       \* the handlers, and what their clients got
  faults      \* how often something has failed

(* What has happened: the saves that replaced the file, in their order,    *)
(* and those that took the file for an empty one.                          *)
VARIABLES kept, misread

vars == <<process, file, temporary, queue, post, faults, kept, misread>>

Progress == [Key -> Record \cup {None}]
Empty == [k \in Key |-> None]

Resting == {"idle", "answered", "lost"}
Saving == {"queued", "write", "rename"}

(* Nothing is stored as completed that is not mastered.                    *)
TypeOK ==
  /\ process \in {"up", "closing", "down"}
  /\ {file, temporary} \subseteq Progress
  /\ \A k \in Key : file[k] # None => (file[k].completed => file[k].mastered)
  /\ queue \in Seq(Post) /\ kept \in Seq(Post) /\ misread \subseteq Post
  /\ \A n \in Post : post[n].at \in Resting \cup Saving \cup {"lesson", "saved"}
  /\ faults \in 0..MaxFaults

NoPost == [at |-> "idle", payload |-> None, all |-> Empty, status |-> 0]

Init ==
  /\ process = "up" /\ file = Empty /\ temporary = Empty
  /\ queue = <<>> /\ kept = <<>> /\ misread = {}
  /\ post = [n \in Post |-> NoPost]
  /\ faults = 0

Fault == faults < MaxFaults /\ faults' = faults + 1    \* bound

-----------------------------------------------------------------------------
(* The handler.                                                            *)

Send(n, payload) ==
  /\ process = "up" /\ post[n].at = "idle"
  /\ post' = [post EXCEPT ![n].at = "lesson", ![n].payload = payload]
  /\ UNCHANGED <<process, file, temporary, queue, faults, kept, misread>>

(* A lesson that cannot be read is no lesson; nor is there one without a   *)
(* learner and a concept.                                                  *)
ReadLesson(n) ==
  /\ post[n].at = "lesson"
  /\ \/ /\ post[n].payload.key # None
        /\ post' = [post EXCEPT ![n].at = "queued"]
        /\ queue' = Append(queue, n)
        /\ UNCHANGED faults
     \/ /\ (post[n].payload.key = None /\ UNCHANGED faults) \/ Fault
        /\ post' = [post EXCEPT ![n].at = "answered", ![n].status = 400]
        /\ UNCHANGED queue
  /\ UNCHANGED <<process, file, temporary, kept, misread>>

(* Mutant: record.completed && mastery.mastered, without Boolean().        *)
CompletedUncast(payload) == IF payload.mastered THEN payload.completed ELSE FALSE
Completed(payload) == payload.completed = TRUE /\ payload.mastered

RecordOf(n) ==
  [post |-> n, completed |-> Completed(post[n].payload), mastered |-> post[n].payload.mastered]

Answer(n) ==
  /\ post[n].at = "saved"
  /\ post' = [post EXCEPT ![n].at = "answered", ![n].status = 201]
  /\ UNCHANGED <<process, file, temporary, queue, faults, kept, misread>>

-----------------------------------------------------------------------------
(* saveProgress.                                                           *)

(* progressWrite.then.  Mutant: the saves are not chained.                 *)
Unchained(n) == TRUE
Chained(n) == queue # <<>> /\ Head(queue) = n

(* readJson answers {} for whatever goes wrong.                            *)
Read(n) ==
  /\ post[n].at = "queued" /\ Chained(n)
  /\ \E all \in {file, Empty} :
       /\ IF all = file THEN UNCHANGED <<faults, misread>>
          ELSE Fault /\ misread' = misread \cup {n}
       /\ post' = [post EXCEPT ![n].at = "write",
                     ![n].all = [all EXCEPT ![post[n].payload.key] = RecordOf(n)]]
  /\ UNCHANGED <<process, file, temporary, queue, kept>>

(* The file while it is written.  Mutant: without a temporary file it is   *)
(* cut off first.                                                          *)
WrittenInPlace == Empty
Written == file

Write(n) ==
  /\ post[n].at = "write" /\ Chained(n)
  /\ temporary' = post[n].all
  /\ file' = Written
  /\ post' = [post EXCEPT ![n].at = "rename"]
  /\ UNCHANGED <<process, queue, faults, kept, misread>>

Rename(n) ==
  /\ post[n].at = "rename" /\ Chained(n)
  /\ file' = temporary
  /\ queue' = Tail(queue)
  /\ post' = [post EXCEPT ![n].at = "saved", ![n].all = Empty]
  /\ kept' = Append(kept, n)
  /\ UNCHANGED <<process, temporary, faults, misread>>

-----------------------------------------------------------------------------
(* The process.                                                            *)

(* The end of it: no connection survives, nor does the queue.              *)
Die ==
  /\ process' = "down"
  /\ queue' = <<>>
  /\ post' = [n \in Post |->
       IF post[n].at \in Resting THEN post[n]
       ELSE [post[n] EXCEPT !.at = "lost", !.all = Empty]]
  /\ UNCHANGED <<file, temporary, kept, misread>>

(* Nothing handles the rejection of a handler: node ends.  Mutant: the     *)
(* rejection is ignored, and the chain stays rejected.                     *)
UnhandledIgnored(n) ==
  /\ post' = [post EXCEPT ![n].at = "rejected"]
  /\ UNCHANGED <<process, file, temporary, queue, kept, misread>>
Unhandled(n) == Die

(* mkdir, writeFile or rename fails.                                       *)
Reject(n) ==
  /\ post[n].at \in Saving /\ Chained(n)
  /\ Fault
  /\ Unhandled(n)

Crash == process # "down" /\ Fault /\ Die

(* SIGTERM: no new connection, and what is open has five seconds.          *)
Shutdown ==
  /\ process = "up" /\ Fault
  /\ process' = "closing"
  /\ UNCHANGED <<file, temporary, queue, post, kept, misread>>

Exit == process = "closing" /\ Die /\ UNCHANGED faults

Restart ==
  /\ process = "down" /\ process' = "up"
  /\ UNCHANGED <<file, temporary, queue, post, faults, kept, misread>>

Handle(n) == ReadLesson(n) \/ Read(n) \/ Write(n) \/ Rename(n) \/ Answer(n)

Next ==
  \/ \E n \in Post, payload \in Payload : Send(n, payload)
  \/ \E n \in Post : Handle(n) \/ Reject(n)
  \/ Crash \/ Shutdown \/ Exit \/ Restart

(* The files and the event loop answer.                                    *)
Spec == Init /\ [][Next]_vars /\ \A n \in Post : WF_vars(Handle(n))

-----------------------------------------------------------------------------
(* PROPERTIES                                                              *)

(* docs/development/docker-deployment.md:58-59 ("atomic progress-file      *)
(* replacement"), server.mjs:192: what was answered 201 survives every     *)
(* crash: the file holds that record or a later one of the key, unless a   *)
(* later save could not read the file.                                     *)
AcknowledgedIsStored ==
  \A n \in Post : post[n].status = 201 =>
    \E i \in DOMAIN kept :
      /\ kept[i] = n
      /\ LET later == {kept[j] : j \in i..Len(kept)}
             record == file[post[n].payload.key]
         IN  \/ record # None /\ record.post \in later
             \/ later \cap misread # {}

(* server.mjs:16-27: a save replaces the record of its key and leaves every *)
(* other as it is, however many submissions are under way at once.         *)
ReplacesOneRecord ==
  [][file' # file =>
       \E n \in Post : post[n].at = "rename" /\
         \/ n \in misread
         \/ file' = [file EXCEPT ![post[n].payload.key] = RecordOf(n)]]_vars

(* server.mjs:16-27, 192: every submission is answered or its connection   *)
(* ends, also after a save has failed and with it all that wait for it.    *)
PostsEnd == \A n \in Post : post[n].at \notin Resting ~> post[n].at \in Resting

=============================================================================
