---------------------------- MODULE EventPipeline ----------------------------
(***************************************************************************)
(* The path of an event from a collector to the server's tables: the two   *)
(* agent processes (the service and the session helper) write event and    *)
(* screenshot files into one spool directory (agent/internal/spool); the   *)
(* service's drain (agent/internal/runner) uploads screenshots, posts a    *)
(* batch of events over HTTP (agent/internal/transport) and deletes what   *)
(* was acknowledged; the server (server/internal/api, store, blob) commits *)
(* the batch in one transaction and writes the screenshot to its store.    *)
(*                                                                         *)
(* Faults (crashes, failed file writes and removals, refused, lost or late *)
(* requests, lost replies) may happen MaxFaults times.                     *)
(***************************************************************************)
EXTENDS Naturals, FiniteSets

CONSTANTS
  Event,      \* events the collectors produce; a name is one occurrence
  Shot,       \* the screenshot events: each refers to a blob
  Large,      \* events whose JSON is large
  Writer,     \* the agent processes that write to the spool
  Service,    \* the writer that also drains it
  Owner,      \* the process each event's collector runs in
  MaxBatch,   \* events posted per drain (500 in the code)
  MaxBlobs,   \* blobs uploaded per drain (50 in the code)
  MaxLarge,   \* large events that fit in the 8 MB the server reads
  MaxFaults   \* bound of the model on the number of faults

ASSUME EventAssumption ==
  /\ Shot \subseteq Event
  /\ Large \subseteq Event
  /\ Service \in Writer
  /\ Owner \in [Event -> Writer]

ASSUME BoundAssumption ==
  /\ MaxBatch \in Nat \ {0}
  /\ MaxBlobs \in Nat \ {0}
  /\ MaxLarge \in Nat
  /\ MaxFaults \in Nat

VARIABLES
  stage,      \* how far each event's collector has got
  stamp,      \* the name order of the event files (nextName)
  clock,      \* the next name
  evFile,     \* the event files of the spool directory
  blobFile,   \* the blob files of the spool directory
  pc,         \* where the service's drain stands
  todo,       \* blobs this drain listed and has not handled
  batch,      \* what the request being waited for carries
  reply,      \* its answer, once it has arrived
  net,        \* requests sent and not yet handled by the server
  rows,       \* rows of each event in the database: 0, 1, 2 = more than one
  blobs,      \* the server's blob store
  faults      \* faults so far

agentVars  == <<stage, stamp, clock, evFile, blobFile>>
drainVars  == <<pc, todo, batch, reply>>
serverVars == <<rows, blobs>>
vars == <<agentVars, drainVars, net, serverVars, faults>>

(* "new": nothing done; "blob": AddBlob is writing; "emit": AddBlob        *)
(* returned, the event is still to be emitted; "event": AddEvent is        *)
(* writing; "done": AddEvent returned; "lost": an error or a crash.        *)
Stage   == {"new", "blob", "emit", "event", "done", "lost"}
File    == {"none", "partial", "whole"}
Request == [kind : {"upload", "ingest"}, items : SUBSET Event,
            data : File, live : BOOLEAN]

TypeOK ==
  /\ stage \in [Event -> Stage]
  /\ stamp \in [Event -> Nat]
  /\ clock \in Nat
  /\ evFile \in [Event -> File]
  /\ blobFile \in [Shot -> File]
  /\ pc \in {"idle", "blobs", "upload", "ingest"}
  /\ todo \subseteq Shot
  /\ batch \subseteq Event
  /\ reply \in {"none", "ok", "err"}
  /\ net \subseteq Request
  /\ rows \in [Event -> 0..2]
  /\ blobs \in [Shot -> File]
  /\ faults \in Nat

Init ==
  /\ stage = [e \in Event |-> "new"]
  /\ stamp = [e \in Event |-> 0]
  /\ clock = 1
  /\ evFile = [e \in Event |-> "none"]
  /\ blobFile = [s \in Shot |-> "none"]
  /\ pc = "idle" /\ todo = {} /\ batch = {} /\ reply = "none"
  /\ net = {}
  /\ rows = [e \in Event |-> 0]
  /\ blobs = [s \in Shot |-> "none"]
  /\ faults = 0

Fault ==
  /\ faults < MaxFaults
  /\ faults' = faults + 1

(***************************************************************************)
(* The collectors.  A file is created by one step and complete only after  *)
(* another: os.WriteFile is not atomic and the drain runs in another       *)
(* goroutine, or in another process.                                       *)
(***************************************************************************)

\* A screenshot's blob is written before its event is emitted.
BeginBlob(s) ==
  /\ stage[s] = "new"
  /\ stage' = [stage EXCEPT ![s] = "blob"]
  /\ blobFile' = [blobFile EXCEPT ![s] = "partial"]
  /\ UNCHANGED <<stamp, clock, evFile, drainVars, net, serverVars, faults>>

\* The last bytes reach the file, unless the drain has removed it meanwhile.
EndBlob(s) ==
  /\ stage[s] = "blob"
  /\ stage' = [stage EXCEPT ![s] = "emit"]
  /\ blobFile' = [blobFile EXCEPT ![s] = IF @ = "none" THEN "none" ELSE "whole"]
  /\ UNCHANGED <<stamp, clock, evFile, drainVars, net, serverVars, faults>>

\* Mutant: the screenshot event is emitted without waiting for its blob.
ReadyToEmitEarly(e) == stage[e] = "new"

ReadyToEmit(e) == stage[e] = IF e \in Shot THEN "emit" ELSE "new"

BeginEvent(e) ==
  /\ ReadyToEmit(e)
  /\ stage' = [stage EXCEPT ![e] = "event"]
  /\ stamp' = [stamp EXCEPT ![e] = clock]
  /\ clock' = clock + 1
  /\ evFile' = [evFile EXCEPT ![e] = "partial"]
  /\ UNCHANGED <<blobFile, drainVars, net, serverVars, faults>>

EndEvent(e) ==
  /\ stage[e] = "event"
  /\ stage' = [stage EXCEPT ![e] = "done"]
  /\ evFile' = [evFile EXCEPT ![e] = "whole"]
  /\ UNCHANGED <<stamp, clock, blobFile, drainVars, net, serverVars, faults>>

\* AddBlob or AddEvent returns an error: the event is dropped, a partial file stays.
WriteFails(e) ==
  /\ Fault
  /\ stage[e] \in {"blob", "event"}
  /\ stage' = [stage EXCEPT ![e] = "lost"]
  /\ UNCHANGED <<stamp, clock, evFile, blobFile, drainVars, net, serverVars>>

(***************************************************************************)
(* The service's drain (one goroutine: the runner's select loop).          *)
(***************************************************************************)

PendingBlobFiles == {s \in Shot : blobFile[s] # "none"}

\* ReadDir lists blobs by their random key, whether or not they are complete.
PendingBlobs ==
  {T \in SUBSET PendingBlobFiles :
     \/ T = PendingBlobFiles /\ Cardinality(T) <= MaxBlobs
     \/ Cardinality(T) = MaxBlobs}

\* Files that parse; a partial file does not and is skipped.
Readable == {e \in Event : evFile[e] = "whole"}

\* Mutant: PendingEvents stops at the first file that does not parse.
PendingEventsBreak ==
  {e \in Readable :
     /\ Cardinality({f \in Readable : stamp[f] < stamp[e]}) < MaxBatch
     /\ \A f \in Event : stamp[f] < stamp[e] => evFile[f] # "partial"}

\* The oldest readable files in name order, at most MaxBatch of them.
PendingEvents ==
  {e \in Readable :
     Cardinality({f \in Readable : stamp[f] < stamp[e]}) < MaxBatch}

\* The service stops waiting for its request; the server may still handle it.
Abandon(N) == {[r EXCEPT !.live = FALSE] : r \in N}

StartDrain ==
  /\ pc = "idle"
  /\ \E T \in PendingBlobs : todo' = T
  /\ pc' = "blobs"
  /\ UNCHANGED <<agentVars, batch, reply, net, serverVars, faults>>

SkipBlob(s) ==
  /\ Fault
  /\ pc = "blobs" /\ s \in todo
  /\ todo' = todo \ {s}
  /\ UNCHANGED <<agentVars, pc, batch, reply, net, serverVars>>

Upload(s) ==
  /\ pc = "blobs" /\ s \in todo
  /\ pc' = "upload"
  /\ batch' = {s}
  /\ net' = net \union
       {[kind |-> "upload", items |-> {s}, data |-> blobFile[s], live |-> TRUE]}
  /\ UNCHANGED <<agentVars, todo, reply, serverVars, faults>>

\* A file its writer still has open may survive its removal; any may if Remove fails.
Removable(s) == stage[s] # "blob"

UploadDone(s) ==
  /\ pc = "upload" /\ batch = {s} /\ reply = "ok"
  /\ \/ /\ blobFile' = [blobFile EXCEPT ![s] = "none"]
        /\ UNCHANGED faults
     \/ /\ ~Removable(s)
        /\ UNCHANGED <<blobFile, faults>>
     \/ /\ Fault
        /\ UNCHANGED blobFile
  /\ pc' = "blobs" /\ batch' = {} /\ reply' = "none"
  /\ todo' = todo \ {s}
  /\ UNCHANGED <<stage, stamp, clock, evFile, net, serverVars>>

SendBatch ==
  /\ pc = "blobs" /\ todo = {}
  /\ IF PendingEvents = {}
       THEN pc' = "idle" /\ UNCHANGED <<batch, net>>
       ELSE /\ pc' = "ingest"
            /\ batch' = PendingEvents
            /\ net' = net \union {[kind |-> "ingest", items |-> PendingEvents,
                                   data |-> "whole", live |-> TRUE]}
  /\ UNCHANGED <<agentVars, todo, reply, serverVars, faults>>

\* Mutant: acknowledged files are not removed.
DeleteNothing(S) == UNCHANGED evFile

\* Mutant: everything in the directory is removed, not just what was sent.
DeleteAll(S) ==
  evFile' = [e \in Event |-> IF evFile[e] = "whole" THEN "none" ELSE evFile[e]]

Delete(S) == evFile' = [e \in Event |-> IF e \in S THEN "none" ELSE evFile[e]]

IngestDone ==
  /\ pc = "ingest" /\ reply = "ok"
  /\ \/ Delete(batch) /\ UNCHANGED faults
     \/ Fault /\ \E e \in batch : Delete(batch \ {e})
  /\ pc' = "idle" /\ batch' = {} /\ reply' = "none"
  /\ UNCHANGED <<stage, stamp, clock, blobFile, todo, net, serverVars>>

\* An error status ends this drain; the files stay for the next tick.
GiveUp ==
  /\ pc' = "idle" /\ todo' = {} /\ batch' = {} /\ reply' = "none"
  /\ net' = Abandon(net)

RequestRefused ==
  /\ pc \in {"upload", "ingest"} /\ reply = "err"
  /\ GiveUp
  /\ UNCHANGED <<agentVars, serverVars, faults>>

\* No answer is on its way: the request or its handler is gone.
Unanswerable == reply = "none" /\ \A r \in net : ~r.live

\* The client's timeout, or a broken connection, whatever the server did.
RequestTimesOut ==
  /\ pc \in {"upload", "ingest"}
  /\ IF Unanswerable THEN UNCHANGED faults ELSE Fault
  /\ GiveUp
  /\ UNCHANGED <<agentVars, serverVars>>

(***************************************************************************)
(* The server's handlers.                                                  *)
(***************************************************************************)

\* Mutant: a stale answer is taken for the answer to the current request.
AnswerStale(r, a) ==
  /\ net' = net \ {r}
  /\ reply' = IF pc \in {"upload", "ingest"} THEN a ELSE reply

\* Only a request the client still waits for is answered to anyone.
Answer(r, a) ==
  /\ net' = net \ {r}
  /\ reply' = IF r.live THEN a ELSE reply

StoreBlob(r) ==
  blobs' = [s \in Shot |-> IF s \in r.items THEN r.data ELSE blobs[s]]

HandleUpload(r) ==
  /\ r.kind = "upload"
  /\ StoreBlob(r)
  /\ Answer(r, "ok")
  /\ UNCHANGED <<agentVars, pc, todo, batch, rows, faults>>

Fits(r) == Cardinality(r.items \intersect Large) <= MaxLarge

\* One transaction: a row for every event of the batch (and its app_usage time).
InsertEvents(r) ==
  rows' = [e \in Event |->
    IF e \in r.items /\ rows[e] < 2 THEN rows[e] + 1 ELSE rows[e]]

HandleIngest(r) ==
  /\ r.kind = "ingest" /\ Fits(r)
  /\ InsertEvents(r)
  /\ Answer(r, "ok")
  /\ UNCHANGED <<agentVars, pc, todo, batch, blobs, faults>>

\* The body is cut at 8 MB and does not decode: 400, every time it is sent.
RejectOversize(r) ==
  /\ r.kind = "ingest" /\ ~Fits(r)
  /\ Answer(r, "err")
  /\ UNCHANGED <<agentVars, pc, todo, batch, serverVars, faults>>

\* A failed transaction or blob write, a 5xx of a proxy: nothing is stored.
Refuse(r) ==
  /\ Fault
  /\ Answer(r, "err")
  /\ UNCHANGED <<agentVars, pc, todo, batch, serverVars>>

\* The request never reaches the server (its sender can only time out).
LoseRequest(r) ==
  /\ Fault
  /\ net' = net \ {r}
  /\ UNCHANGED <<agentVars, drainVars, serverVars>>

(***************************************************************************)
(* A process dies: what it was writing stays partial, what it had not      *)
(* emitted is gone; the drain's state is only in the service's memory.     *)
(***************************************************************************)

Dies(e) == stage[e] \in {"blob", "emit", "event"}

Crash(w) ==
  /\ Fault
  /\ stage' = [e \in Event |-> IF Owner[e] = w /\ Dies(e) THEN "lost" ELSE stage[e]]
  /\ IF w = Service THEN GiveUp ELSE UNCHANGED <<drainVars, net>>
  /\ UNCHANGED <<stamp, clock, evFile, blobFile, serverVars>>

CollectorStep ==
  \/ \E s \in Shot : BeginBlob(s) \/ EndBlob(s)
  \/ \E e \in Event : BeginEvent(e) \/ EndEvent(e) \/ WriteFails(e)

DrainStep ==
  \/ StartDrain \/ SendBatch \/ IngestDone \/ RequestRefused \/ RequestTimesOut
  \/ \E s \in Shot : SkipBlob(s) \/ Upload(s) \/ UploadDone(s)

ServerStep ==
  \E r \in net :
    HandleUpload(r) \/ HandleIngest(r) \/ RejectOversize(r) \/ Refuse(r) \/ LoseRequest(r)

Next ==
  \/ CollectorStep
  \/ DrainStep
  \/ ServerStep
  \/ \E w \in Writer : Crash(w)

Spec == Init /\ [][Next]_vars

(* The drain ticker keeps firing, a started WriteFile returns, and the     *)
(* server handles what reaches it.  No fault is ever required to happen,   *)
(* nor is a collector required to produce anything.                        *)
Fairness ==
  /\ WF_vars(DrainStep)
  /\ \A s \in Shot : WF_vars(EndBlob(s))
  /\ \A e \in Event : WF_vars(EndEvent(e))
  /\ WF_vars(\E r \in net :
               HandleUpload(r) \/ HandleIngest(r) \/ RejectOversize(r))

FairSpec == Spec /\ Fairness

-----------------------------------------------------------------------------
(***************************************************************************)
(* Properties.                                                             *)
(***************************************************************************)

Accepted == {e \in Event : stage[e] = "done"}
Held     == {e \in Accepted : evFile[e] = "whole"}

(* An event whose AddEvent returned is in the spool or in the database:    *)
(* drain (runner.go) deletes only what its own request has stored, however *)
(* late, lost or stale the answers are and whoever crashes.                *)
NoEventLost == \A e \in Accepted : evFile[e] = "none" => rows[e] > 0

(* A screenshot the dashboard lists has a blob in the store, or one that   *)
(* the spool still holds: capture spools the blob before its event, drain  *)
(* removes it only after the server's store has it.                        *)
RowHasBlob ==
  \A s \in Shot : rows[s] > 0 => blobs[s] # "none" \/ blobFile[s] # "none"

(* A file left half-written by a crash or a full disk is never sent as an  *)
(* event (PendingEvents skips what does not parse).                        *)
TornNeverStored == \A e \in Event : rows[e] > 0 => e \in Accepted

(* Without a fault every event is stored at most once: the drain itself,   *)
(* running beside the collectors, never sends a file twice.                *)
DuplicatesNeedFault == faults = 0 => \A e \in Event : rows[e] <= 1

(* The spool "buffers events + screenshot blobs when the server is         *)
(* unreachable" and "drains" (ARCHITECTURE.md), whatever it holds.         *)
SpoolDrains == \A e \in Event : stage[e] = "done" ~> rows[e] > 0

\* The oldest files hold more than the server reads.
Oversize == Cardinality(PendingEvents \intersect Large) > MaxLarge

(* Every accepted event reaches the database once faults stop: nothing in  *)
(* the spool (torn files, failed blobs, events of a crashed writer) blocks *)
(* the drain for ever, except an oversize batch.                           *)
EventuallyStored == <>[]Oversize \/ SpoolDrains

(* The pipeline implements at-least-once delivery, its fairness as long as *)
(* no oversize batch stands in the way.                                    *)
AtLeastOnce == INSTANCE Delivery
  WITH Item <- Event, accepted <- Accepted, held <- Held, copies <- rows

Refinement == AtLeastOnce!Safe /\ (<>[]Oversize \/ AtLeastOnce!Fairness)

(* The durable queue keeps a screenshot whole (spool.go): once its file    *)
(* is gone, the server has all of it.                                      *)
BlobWhole ==
  \A s \in Shot : stage[s] = "done" /\ blobFile[s] = "none" => blobs[s] = "whole"
=============================================================================
