------------------------ MODULE EventPipelineProofs ------------------------
(***************************************************************************)
(* NoEventLost, RowHasBlob, TornNeverStored and DuplicatesNeedFault for     *)
(* every number of events, processes, batch sizes and faults, and the      *)
(* safety half of the refinement of Delivery.                              *)
(***************************************************************************)
EXTENDS EventPipeline, TLAPS

(* What is being sent, or was sent and may still be handled, was accepted. *)
SentWasAccepted ==
  /\ \A r \in net : r.kind = "ingest" => r.items \subseteq Accepted
  /\ pc = "ingest" => batch \subseteq Accepted

(* Only the request the drain waits for is live, and it has no answer yet; *)
(* an answer is there only while the drain waits.                          *)
LiveIsCurrent ==
  /\ \A r \in net : r.live =>
       /\ reply = "none"
       /\ r.items = batch
       /\ pc \in {"upload", "ingest"} /\ pc = r.kind
       /\ \A q \in net : q.live => q = r
  /\ reply # "none" => pc \in {"upload", "ingest"}

(* An "ok" means that the server has what the request carried.             *)
OkMeansStored ==
  reply = "ok" =>
    /\ pc = "ingest" => \A e \in batch : rows[e] > 0
    /\ pc = "upload" => \A s \in batch \intersect Shot : blobs[s] # "none"

(* Files and stages of the collectors go together.                         *)
FileOfStage ==
  \A e \in Event :
    /\ evFile[e] = "whole" => stage[e] = "done"
    /\ e \in Shot /\ stage[e] \in {"blob", "emit", "event", "done"} =>
         blobFile[e] # "none" \/ blobs[e] # "none"

(* The uploads carry files that existed when they were listed.             *)
UploadsExist ==
  /\ \A s \in todo : blobFile[s] # "none"
  /\ \A r \in net : r.kind = "upload" => r.data # "none"
  /\ pc = "upload" => batch \subseteq todo

IInv ==
  /\ TypeOK
  /\ SentWasAccepted
  /\ LiveIsCurrent
  /\ OkMeansStored
  /\ FileOfStage
  /\ UploadsExist
  /\ NoEventLost
  /\ TornNeverStored

-----------------------------------------------------------------------------

LEMMA InitInv == Init => IInv
  BY BoundAssumption, EventAssumption
  DEF Init, IInv, TypeOK, Stage, File, SentWasAccepted, LiveIsCurrent, OkMeansStored,
      FileOfStage, UploadsExist, NoEventLost, TornNeverStored, Accepted

(* Giving up forgets the request but not what may still arrive.            *)
LEMMA GiveUpInv ==
  ASSUME IInv, GiveUp
  PROVE  /\ net' \subseteq Request
         /\ \A r \in net' : ~r.live
         /\ \A r \in net' : r.kind = "ingest" => r.items \subseteq Accepted
         /\ \A r \in net' : r.kind = "upload" => r.data # "none"
  <1>1. ASSUME NEW q \in net'
        PROVE  \E r \in net : /\ q \in Request /\ q.live = FALSE /\ q.kind = r.kind
                               /\ q.items = r.items /\ q.data = r.data
    <2>1. PICK r \in net : q = [r EXCEPT !.live = FALSE]
      BY DEF GiveUp, Abandon
    <2>2. r \in Request
      BY DEF IInv, TypeOK
    <2>3. q \in Request /\ q.live = FALSE /\ q.kind = r.kind /\ q.items = r.items
            /\ q.data = r.data
      BY <2>1, <2>2 DEF Request
    <2>4. QED
      BY <2>3
  <1>2. QED
    BY <1>1 DEF IInv, TypeOK, SentWasAccepted, UploadsExist

LEMMA StepInv == IInv /\ [Next]_vars => IInv'
  <1> SUFFICES ASSUME IInv, [Next]_vars PROVE IInv'
    OBVIOUS
  <1> USE EventAssumption, BoundAssumption
      DEF IInv, TypeOK, Stage, File, SentWasAccepted, LiveIsCurrent, OkMeansStored,
          FileOfStage, UploadsExist, NoEventLost, TornNeverStored, Accepted,
          agentVars, drainVars, serverVars
  <1>1. ASSUME NEW s \in Shot, BeginBlob(s) PROVE IInv'
    BY <1>1 DEF BeginBlob
  <1>2. ASSUME NEW s \in Shot, EndBlob(s) PROVE IInv'
    BY <1>2 DEF EndBlob
  <1>3. ASSUME NEW e \in Event, BeginEvent(e) PROVE IInv'
    BY <1>3 DEF BeginEvent, ReadyToEmit
  <1>4. ASSUME NEW e \in Event, EndEvent(e) PROVE IInv'
    BY <1>4 DEF EndEvent
  <1>5. ASSUME NEW e \in Event, WriteFails(e) PROVE IInv'
    BY <1>5 DEF WriteFails, Fault
  <1>6. CASE StartDrain
    BY <1>6 DEF StartDrain, PendingBlobs, PendingBlobFiles
  <1>7. CASE SendBatch
    <2>1. PendingEvents \subseteq Accepted /\ PendingEvents \subseteq Event
      BY DEF PendingEvents, Readable
    <2>2. CASE PendingEvents = {}
      BY <1>7, <2>2 DEF SendBatch
    <2>3. CASE PendingEvents # {}
      <3> DEFINE q == [kind |-> "ingest", items |-> PendingEvents,
                       data |-> "whole", live |-> TRUE]
      <3>1. q \in Request
        BY <2>1 DEF Request
      <3>2. net' = net \union {q} /\ pc' = "ingest" /\ batch' = PendingEvents
        BY <1>7, <2>3 DEF SendBatch
      <3>3. \A r \in net : ~r.live
        BY <1>7 DEF SendBatch
      <3> HIDE DEF q
      <3>4. q.kind = "ingest" /\ q.items = PendingEvents /\ q.live
        BY DEF q
      <3>5. reply = "none"
        BY <1>7 DEF SendBatch
      <3>6. QED
        BY <1>7, <2>1, <3>1, <3>2, <3>3, <3>4, <3>5 DEF SendBatch
    <2>4. QED
      BY <2>2, <2>3
  <1>8. CASE IngestDone
    BY <1>8 DEF IngestDone, Delete, Fault
  <1>9. CASE RequestRefused
    BY <1>9, GiveUpInv DEF RequestRefused, GiveUp
  <1>10. CASE RequestTimesOut
    BY <1>10, GiveUpInv DEF RequestTimesOut, GiveUp, Fault
  <1>11. ASSUME NEW s \in Shot, SkipBlob(s) PROVE IInv'
    BY <1>11 DEF SkipBlob, Fault
  <1>12. ASSUME NEW s \in Shot, Upload(s) PROVE IInv'
    <2> DEFINE q == [kind |-> "upload", items |-> {s}, data |-> blobFile[s], live |-> TRUE]
    <2>1. q \in Request
      BY DEF Request
    <2>2. net' = net \union {q} /\ pc' = "upload" /\ batch' = {s} /\ s \in todo
      BY <1>12 DEF Upload
    <2>3. q.kind = "upload" /\ q.items = {s} /\ q.live /\ q.data # "none"
      BY <2>2
    <2>4. reply = "none" /\ \A r \in net : ~r.live
      BY <1>12 DEF Upload
    <2> HIDE DEF q
    <2>5. QED
      BY <1>12, <2>1, <2>2, <2>3, <2>4 DEF Upload
  <1>13. ASSUME NEW s \in Shot, UploadDone(s) PROVE IInv'
    BY <1>13 DEF UploadDone, Removable, Fault
  <1>14. ASSUME NEW r \in net, HandleUpload(r) PROVE IInv'
    <2>1. r.data \in File \ {"none"} /\ r.items \subseteq Event
      BY <1>14 DEF HandleUpload, Request
    <2>2. /\ blobs' \in [Shot -> File]
          /\ \A s \in Shot : blobs'[s] = IF s \in r.items THEN r.data ELSE blobs[s]
      BY <1>14, <2>1 DEF HandleUpload, StoreBlob
    <2>3. \A q \in net' : r.live => ~q.live
      BY <1>14 DEF HandleUpload, Answer
    <2>4. QED
      BY <1>14, <2>1, <2>2, <2>3 DEF HandleUpload, Answer
  <1>15. ASSUME NEW r \in net, HandleIngest(r) PROVE IInv'
    <2>1. r.items \subseteq Accepted
      BY <1>15 DEF HandleIngest
    <2>2. /\ rows' \in [Event -> 0..2]
          /\ \A e \in Event : rows'[e] >= rows[e] /\ (e \in r.items => rows'[e] > 0)
          /\ \A e \in Event : e \notin r.items => rows'[e] = rows[e]
      BY <1>15 DEF HandleIngest, InsertEvents
    <2>3. \A q \in net' : r.live => ~q.live
      BY <1>15 DEF HandleIngest, Answer
    <2>4. QED
      BY <1>15, <2>1, <2>2, <2>3 DEF HandleIngest, Answer
  <1>16. ASSUME NEW r \in net, RejectOversize(r) \/ Refuse(r) \/ LoseRequest(r) PROVE IInv'
    <2>1. net' = net \ {r} /\ faults' \in Nat
      BY <1>16 DEF RejectOversize, Refuse, LoseRequest, Answer, Fault
    <2>2. reply' \in {reply, "err"} /\ (reply' # reply => r.live)
      BY <1>16 DEF RejectOversize, Refuse, LoseRequest, Answer, drainVars
    <2>3. \A q \in net' : reply' # reply => ~q.live
      BY <2>1, <2>2
    <2>4. UNCHANGED <<agentVars, pc, todo, batch, serverVars>>
      BY <1>16 DEF RejectOversize, Refuse, LoseRequest
    <2>5. QED
      BY <2>1, <2>2, <2>3, <2>4
  <1>17. ASSUME NEW w \in Writer, Crash(w) PROVE IInv'
    <2>1. CASE w = Service
      BY <1>17, <2>1, GiveUpInv DEF Crash, Dies, GiveUp, Fault
    <2>2. CASE w # Service
      BY <1>17, <2>2 DEF Crash, Dies, Fault
    <2>3. QED
      BY <2>1, <2>2
  <1>18. CASE UNCHANGED vars
    BY <1>18 DEF vars
  <1>19. QED
    BY <1>1, <1>2, <1>3, <1>4, <1>5, <1>6, <1>7, <1>8, <1>9, <1>10, <1>11, <1>12, <1>13,
       <1>14, <1>15, <1>16, <1>17, <1>18
    DEF Next, CollectorStep, DrainStep, ServerStep

(* The inductive invariant holds in every reachable state.                 *)
THEOREM Invariance == Spec => []IInv
  BY InitInv, StepInv, PTL DEF Spec

(* Every variable keeps its type, with any number of faults.               *)
THEOREM TypeCorrect == Spec => []TypeOK
  <1>1. IInv => TypeOK
    BY DEF IInv
  <1>2. QED
    BY <1>1, Invariance, PTL

(* An event whose AddEvent returned is never lost between spool and        *)
(* database, whatever the network does and whichever process dies.         *)
THEOREM NoLoss == Spec => []NoEventLost
  <1>1. IInv => NoEventLost
    BY DEF IInv
  <1>2. QED
    BY <1>1, Invariance, PTL

(* A stored screenshot row refers to a blob the server or the spool has.   *)
THEOREM RowsReferToBlobs == Spec => []RowHasBlob
  <1>1. IInv => RowHasBlob
    BY EventAssumption DEF IInv, RowHasBlob, FileOfStage, TornNeverStored, Accepted
  <1>2. QED
    BY <1>1, Invariance, PTL

(* What a crash left half-written never reaches the database.              *)
THEOREM NothingTornIsStored == Spec => []TornNeverStored
  <1>1. IInv => TornNeverStored
    BY DEF IInv
  <1>2. QED
    BY <1>1, Invariance, PTL

-----------------------------------------------------------------------------
(* Nothing is sent twice without a fault: what is in flight is what the    *)
(* drain waits for, its files are still there, and a row has lost its file *)
(* as soon as the drain has read the answer.                               *)
FilesOfBatch == pc = "ingest" => \A e \in batch : evFile[e] = "whole"

SentOnce ==
  faults = 0 =>
    /\ \A r \in net : r.live
    /\ \A e \in Event :
         /\ rows[e] <= 1
         /\ rows[e] > 0 =>
              evFile[e] = "none" \/ (pc = "ingest" /\ reply = "ok" /\ e \in batch)

OnceInv == FilesOfBatch /\ SentOnce

LEMMA OnceStep == IInv /\ OnceInv /\ [Next]_vars => OnceInv'
  <1> SUFFICES ASSUME IInv, OnceInv, [Next]_vars PROVE FilesOfBatch' /\ SentOnce'
    BY DEF OnceInv
  <1>0. /\ evFile \in [Event -> File] /\ rows \in [Event -> 0..2] /\ net \subseteq Request
        /\ batch \subseteq Event /\ faults \in Nat
        /\ LiveIsCurrent /\ FilesOfBatch /\ SentOnce
        /\ \A e \in Event : evFile[e] = "whole" \/ rows[e] > 0 => stage[e] = "done"
    BY DEF IInv, TypeOK, OnceInv, FileOfStage, TornNeverStored, Accepted
  <1> USE DEF agentVars, drainVars, serverVars
  <1>a. ASSUME Fault PROVE SentOnce'
    BY <1>0, <1>a DEF Fault, SentOnce
  <1>1. CASE \E s \in Shot : BeginBlob(s) \/ EndBlob(s)
    BY <1>0, <1>1 DEF BeginBlob, EndBlob, FilesOfBatch, SentOnce
  <1>2. ASSUME NEW e \in Event, BeginEvent(e) \/ EndEvent(e)
        PROVE  FilesOfBatch' /\ SentOnce'
    <2>1. /\ stage[e] # "done"
          /\ evFile'[e] \in {"partial", "whole"}
          /\ \A f \in Event : f # e => evFile'[f] = evFile[f]
          /\ UNCHANGED <<drainVars, net, rows, faults>>
      BY <1>0, <1>2 DEF BeginEvent, EndEvent, ReadyToEmit
    <2>2. evFile[e] # "whole" /\ ~(rows[e] > 0)
      BY <1>0, <2>1
    <2>3. QED
      BY <1>0, <2>1, <2>2 DEF FilesOfBatch, SentOnce
  <1>3. ASSUME NEW e \in Event, WriteFails(e) PROVE FilesOfBatch' /\ SentOnce'
    BY <1>0, <1>a, <1>3 DEF WriteFails, FilesOfBatch
  <1>4. CASE StartDrain
    BY <1>0, <1>4 DEF StartDrain, FilesOfBatch, SentOnce
  <1>5. CASE SendBatch
    <2>1. /\ pc = "blobs" /\ UNCHANGED <<agentVars, reply, rows, faults>>
          /\ \A r \in net : ~r.live
      BY <1>0, <1>5 DEF SendBatch, LiveIsCurrent
    <2>2. CASE PendingEvents = {}
      BY <1>0, <1>5, <2>1, <2>2 DEF SendBatch, FilesOfBatch, SentOnce
    <2>3. CASE PendingEvents # {}
      <3>1. /\ batch' = PendingEvents
            /\ \A r \in net' : r \in net \/ r.live
        BY <1>5, <2>3 DEF SendBatch
      <3>2. FilesOfBatch'
        BY <2>1, <3>1 DEF FilesOfBatch, PendingEvents, Readable
      <3>3. SentOnce'
        BY <1>0, <2>1, <3>1 DEF SentOnce
      <3>4. QED
        BY <3>2, <3>3
    <2>4. QED
      BY <2>2, <2>3
  <1>6. CASE IngestDone
    <2>1. pc' = "idle" /\ pc = "ingest" /\ reply = "ok" /\ UNCHANGED <<net, rows>>
      BY <1>6 DEF IngestDone
    <2>2. FilesOfBatch'
      BY <2>1 DEF FilesOfBatch
    <2>3. CASE Delete(batch) /\ UNCHANGED faults
      BY <1>0, <2>1, <2>2, <2>3 DEF Delete, SentOnce
    <2>4. CASE Fault
      BY <1>a, <2>2, <2>4
    <2>5. QED
      BY <1>6, <2>3, <2>4 DEF IngestDone
  <1>7. CASE RequestRefused \/ RequestTimesOut
    <2>1. /\ pc' = "idle" /\ net' = Abandon(net) /\ UNCHANGED <<agentVars, rows>>
          /\ reply # "ok" \/ Fault
      BY <1>7 DEF RequestRefused, RequestTimesOut, GiveUp, Unanswerable
    <2>2. FilesOfBatch'
      BY <1>7 DEF RequestRefused, RequestTimesOut, GiveUp, FilesOfBatch
    <2>3. CASE Fault
      BY <1>a, <2>2, <2>3
    <2>4. CASE UNCHANGED faults
      <3>1. /\ \A r \in net : ~r.live
            /\ reply # "ok" /\ net' = Abandon(net) /\ UNCHANGED <<agentVars, rows>>
        BY <1>0, <1>7, <2>4
        DEF RequestRefused, RequestTimesOut, GiveUp, Unanswerable, LiveIsCurrent, Fault
      <3>2. faults = 0 => net' = {}
        BY <1>0, <3>1 DEF SentOnce, Abandon
      <3>3. SentOnce'
        BY <1>0, <2>4, <3>1, <3>2 DEF SentOnce
      <3>4. QED
        BY <2>2, <3>3
    <2>5. QED
      BY <1>7, <2>3, <2>4 DEF RequestRefused, RequestTimesOut
  <1>8. ASSUME NEW s \in Shot, SkipBlob(s) PROVE FilesOfBatch' /\ SentOnce'
    BY <1>0, <1>a, <1>8 DEF SkipBlob, FilesOfBatch
  <1>9. ASSUME NEW s \in Shot, Upload(s) PROVE FilesOfBatch' /\ SentOnce'
    <2>1. /\ pc = "blobs" /\ pc' = "upload" /\ \A r \in net' : r \in net \/ r.live
          /\ UNCHANGED <<agentVars, rows, faults>>
      BY <1>9 DEF Upload
    <2>2. QED
      BY <1>0, <2>1 DEF FilesOfBatch, SentOnce
  <1>10. ASSUME NEW s \in Shot, UploadDone(s) PROVE FilesOfBatch' /\ SentOnce'
    <2>1. /\ pc = "upload" /\ pc' = "blobs" /\ UNCHANGED <<evFile, net, rows>>
          /\ faults' = faults \/ Fault
      BY <1>10 DEF UploadDone
    <2>2. QED
      BY <1>0, <1>a, <2>1 DEF FilesOfBatch, SentOnce
  <1>11. ASSUME NEW r \in net,
                \/ HandleUpload(r) \/ HandleIngest(r) \/ RejectOversize(r) \/ Refuse(r)
                \/ LoseRequest(r)
         PROVE  FilesOfBatch' /\ SentOnce'
    <2>1. /\ UNCHANGED <<evFile, pc, batch>> /\ net' \subseteq net
          /\ Fault \/ faults' = faults
      BY <1>11 DEF HandleUpload, HandleIngest, RejectOversize, Refuse, LoseRequest, Answer
    <2>2. FilesOfBatch'
      BY <1>0, <2>1 DEF FilesOfBatch
    <2>3. CASE Fault
      BY <1>a, <2>2, <2>3
    <2>4. CASE HandleUpload(r) \/ RejectOversize(r)
      <3>1. UNCHANGED <<rows, faults>> /\ reply' \in {reply, "ok", "err"}
        BY <2>4 DEF HandleUpload, RejectOversize, Answer
      <3>2. faults = 0 => reply = "none"
        BY <1>0 DEF SentOnce, LiveIsCurrent
      <3>3. SentOnce'
        BY <1>0, <2>1, <3>1, <3>2 DEF SentOnce
      <3>4. QED
        BY <2>2, <3>3
    <2>5. CASE HandleIngest(r)
      <3>1. /\ UNCHANGED faults /\ r.kind = "ingest"
            /\ \A e \in Event :
                 rows'[e] = IF e \in r.items /\ rows[e] < 2 THEN rows[e] + 1 ELSE rows[e]
            /\ reply' = IF r.live THEN "ok" ELSE reply
        BY <2>5 DEF HandleIngest, InsertEvents, Answer
      <3>2. SUFFICES ASSUME faults = 0 PROVE SentOnce'
        BY <2>2, <3>1 DEF SentOnce
      <3>3. /\ r.live /\ r.items = batch /\ pc = "ingest" /\ reply = "none"
            /\ \A e \in Event : rows[e] <= 1 /\ (rows[e] > 0 => evFile[e] = "none")
        BY <1>0, <3>1, <3>2 DEF SentOnce, LiveIsCurrent
      <3>4. \A e \in batch : rows[e] = 0
        BY <1>0, <3>3 DEF FilesOfBatch
      <3>5. \A e \in Event : rows'[e] = IF e \in batch THEN 1 ELSE rows[e]
        BY <1>0, <3>1, <3>3, <3>4
      <3>6. \A q \in net' : q.live
        BY <1>0, <2>1, <3>2 DEF SentOnce
      <3>7. reply' = "ok" /\ pc' = "ingest" /\ batch' = batch /\ evFile' = evFile
        BY <2>1, <3>1, <3>3
      <3>8. QED
        BY <1>0, <3>3, <3>5, <3>6, <3>7 DEF SentOnce
    <2>6. QED
      BY <1>11, <2>3, <2>4, <2>5 DEF Refuse, LoseRequest
  <1>12. ASSUME NEW w \in Writer, Crash(w) PROVE FilesOfBatch' /\ SentOnce'
    <2>1. Fault /\ UNCHANGED evFile /\ (pc' = "idle" \/ UNCHANGED <<pc, batch>>)
      BY <1>12 DEF Crash, GiveUp
    <2>2. QED
      BY <1>0, <1>a, <2>1 DEF FilesOfBatch
  <1>13. CASE UNCHANGED vars
    BY <1>0, <1>13 DEF vars, FilesOfBatch, SentOnce
  <1>14. QED
    BY <1>1, <1>2, <1>3, <1>4, <1>5, <1>6, <1>7, <1>8, <1>9, <1>10, <1>11, <1>12, <1>13
    DEF Next, CollectorStep, DrainStep, ServerStep

(* Without a fault no event gets a second row, however collectors, drain   *)
(* and server interleave.                                                  *)
THEOREM StoredOnce == Spec => []DuplicatesNeedFault
  <1>1. Init => OnceInv
    BY DEF Init, OnceInv, FilesOfBatch, SentOnce
  <1>2. IInv /\ OnceInv => DuplicatesNeedFault
    BY DEF OnceInv, SentOnce, DuplicatesNeedFault
  <1>3. QED
    BY <1>1, <1>2, Invariance, OnceStep, PTL DEF Spec

-----------------------------------------------------------------------------
(* Steps that leave the three abstract variables alone.                    *)
LEMMA Stutter ==
  ASSUME UNCHANGED <<Accepted, Held, rows>>
  PROVE  UNCHANGED AtLeastOnce!vars
  BY DEF AtLeastOnce!vars

LEMMA Simulation == IInv /\ [Next]_vars => [AtLeastOnce!Next]_(AtLeastOnce!vars)
  <1> SUFFICES ASSUME IInv, [Next]_vars
               PROVE  AtLeastOnce!Next \/ UNCHANGED <<Accepted, Held, rows>>
    BY Stutter
  <1> USE EventAssumption
      DEF IInv, TypeOK, Stage, File, FileOfStage, Accepted, Held,
          agentVars, drainVars, serverVars
  <1>1. ASSUME NEW s \in Shot, BeginBlob(s) \/ EndBlob(s) \/ SkipBlob(s) \/ Upload(s)
                 \/ UploadDone(s)
        PROVE  UNCHANGED <<Accepted, Held, rows>>
    BY <1>1 DEF BeginBlob, EndBlob, SkipBlob, Upload, UploadDone
  <1>2. ASSUME NEW e \in Event, BeginEvent(e) \/ WriteFails(e)
        PROVE  UNCHANGED <<Accepted, Held, rows>>
    BY <1>2 DEF BeginEvent, ReadyToEmit, WriteFails
  <1>3. ASSUME NEW e \in Event, EndEvent(e)
        PROVE  AtLeastOnce!Accept(e)
    BY <1>3 DEF EndEvent, AtLeastOnce!Accept
  <1>4. CASE StartDrain \/ SendBatch \/ RequestRefused \/ RequestTimesOut
    BY <1>4 DEF StartDrain, SendBatch, RequestRefused, RequestTimesOut
  <1>5. CASE IngestDone
    <2>1. PICK S \in SUBSET batch : Delete(S)
      BY <1>5 DEF IngestDone
    <2>2. S \subseteq Accepted /\ \A e \in S : rows[e] > 0
      BY <1>5 DEF IngestDone, SentWasAccepted, OkMeansStored
    <2>3. UNCHANGED <<stage, rows>>
      BY <1>5 DEF IngestDone
    <2>4. PICK T \in SUBSET Event : T = S \intersect Held
      OBVIOUS
    <2>5. Held' = Held \ T
      BY <2>1, <2>3, <2>4 DEF Delete
    <2>6. AtLeastOnce!Release(T)
      BY <2>2, <2>3, <2>4, <2>5 DEF AtLeastOnce!Release
    <2>7. QED
      BY <2>6 DEF AtLeastOnce!Next
  <1>6. ASSUME NEW r \in net, HandleUpload(r) \/ RejectOversize(r) \/ Refuse(r)
                 \/ LoseRequest(r)
        PROVE  UNCHANGED <<Accepted, Held, rows>>
    BY <1>6 DEF HandleUpload, RejectOversize, Refuse, LoseRequest
  <1>7. ASSUME NEW r \in net, HandleIngest(r)
        PROVE  AtLeastOnce!Next \/ UNCHANGED <<Accepted, Held, rows>>
    <2>1. r.items \subseteq Accepted
      BY <1>7 DEF HandleIngest, SentWasAccepted
    <2>2. UNCHANGED <<Accepted, Held>>
      BY <1>7 DEF HandleIngest
    <2>3. CASE r.items = {}
      BY <1>7, <2>2, <2>3 DEF HandleIngest, InsertEvents
    <2>4. CASE r.items # {}
      <3>1. AtLeastOnce!Deliver(r.items)
        BY <1>7, <2>1, <2>2, <2>4 DEF HandleIngest, InsertEvents, AtLeastOnce!Deliver
      <3>2. QED
        BY <2>1, <3>1 DEF AtLeastOnce!Next
    <2>5. QED
      BY <2>3, <2>4
  <1>8. ASSUME NEW w \in Writer, Crash(w)
        PROVE  UNCHANGED <<Accepted, Held, rows>>
    BY <1>8 DEF Crash, Dies
  <1>9. CASE UNCHANGED vars
    BY <1>9 DEF vars
  <1>10. QED
    BY <1>1, <1>2, <1>3, <1>4, <1>5, <1>6, <1>7, <1>8, <1>9
    DEF Next, CollectorStep, DrainStep, ServerStep, AtLeastOnce!Next

(* The pipeline implements the safety half of at-least-once delivery: an   *)
(* item is released only when the server has a copy.                       *)
THEOREM ImplementsDelivery == Spec => AtLeastOnce!Safe
  <1>1. Init => AtLeastOnce!Init
    BY DEF Init, AtLeastOnce!Init, Accepted, Held
  <1>2. QED
    BY <1>1, Invariance, Simulation, PTL DEF Spec, AtLeastOnce!Safe
=============================================================================
