----------------------------- MODULE Screenshots -----------------------------
(***************************************************************************)
(* The screenshots of one machine on the server: metadata rows and         *)
(* encrypted blobs, which arrive separately and perhaps repeatedly         *)
(* (EventPipeline), are looked at by dashboard users under dual approval    *)
(* and audit, deleted one by one, and purged by age                        *)
(* (server/internal/api/handlers_admin.go, handlers_approvals.go,          *)
(* store/approvals.go, events.go, purge.go, audit.go, blob, cmd/server).   *)
(*                                                                         *)
(* A row's id is the pair of its screenshot and the number of the request  *)
(* that inserted it: a retried batch inserts a second row for one blob.    *)
(***************************************************************************)
EXTENDS Naturals, FiniteSets

CONSTANTS
  Shot,           \* screenshots, named by their object key
  MaxCopies,      \* bound: uploads of a blob, and insertions of a row, handled
  Account,        \* dashboard accounts, named by their e-mail
  Role,           \* the role of each account
  Viewer,         \* bound: the accounts that look at screenshots
  Nobody,
  Listing,        \* stands for the list of screenshots, among what is looked at
  DualApproval,   \* Cfg.RequireDualApproval
  MaxRequests,    \* bound: view requests
  Instance,       \* the server instances, each with a purge loop
  MaxFaults       \* bound: errors of the database or the file system, crashes

ViewRequest == [by : Account, ok : Account \union {Nobody}, valid : BOOLEAN]

ASSUME ShotAssumption ==
  /\ MaxCopies \in Nat \ {0} /\ MaxRequests \in Nat /\ MaxFaults \in Nat
  /\ Viewer \subseteq Account /\ Nobody \notin Account \union ViewRequest
  /\ Role \in [Account -> {"admin", "auditor", "viewer"}]
  /\ Listing \notin Shot \X Nat
  /\ DualApproval \in BOOLEAN

VARIABLES
  rows,        \* the table screenshots
  blobs,       \* the blob store
  uploads,     \* uploads of each blob that were handled
  inserts,     \* insertions of a row for each screenshot that were handled
  old,         \* screenshots whose time stamp is past the retention window
  purge,       \* each instance's purge
  removing,    \* rows a delete request has removed whose blob is next
  requests,    \* the table view_approvals, by order of creation
  view,        \* the request to view of each account, whether an approval ever
               \* covered it, and whether its entry is in audit_log
  unaudited,   \* what was shown by a request without an entry in the log (history)
  deleted,     \* screenshots with a row deleted on request, blob and all (history)
  reput,       \* screenshots uploaded again after that (history)
  revived,     \* screenshots shown to a request made after that (history)
  excused,     \* screenshots whose blob may stay for a known reason (history)
  faults

storeVars   == <<rows, blobs, uploads, inserts, old>>
viewVars    == <<requests, view, unaudited, revived>>
historyVars == <<deleted, reput, excused>>
vars == <<storeVars, purge, removing, viewVars, historyVars, faults>>

Copy == 1..MaxCopies
Row  == Shot \X Copy
Item == Row \union {Listing}

View  == [at : {"idle", "found", "approved", "read", "audited"}, item : Item,
          late : BOOLEAN, covered : BOOLEAN, logged : BOOLEAN]
Purge == [at : {"idle", "blobs"}, before : SUBSET Shot, keys : SUBSET Shot]

RowsOf(s)   == {r \in rows : r[1] = s}
Purging(s)  == \E i \in Instance : purge[i].at = "blobs" /\ s \in purge[i].before

TypeOK ==
  /\ rows \subseteq Row /\ blobs \subseteq Shot
  /\ \A r \in rows : r[2] <= inserts[r[1]]
  /\ uploads \in [Shot -> 0..MaxCopies] /\ inserts \in [Shot -> 0..MaxCopies]
  /\ old \subseteq Shot
  /\ purge \in [Instance -> Purge]
  /\ removing \subseteq Row
  /\ requests \in [1..MaxRequests -> ViewRequest \union {Nobody}]
  /\ view \in [Viewer -> View] /\ \A a \in Viewer : view[a].late => view[a].item \in Row
  /\ unaudited \subseteq Viewer \X Item
  /\ deleted \subseteq Shot /\ reput \subseteq Shot /\ revived \subseteq Shot
  /\ excused \subseteq Shot
  /\ faults \in Nat

NoPurge == [at |-> "idle", before |-> {}, keys |-> {}]
NoView  == [at |-> "idle", item |-> Listing, late |-> FALSE, covered |-> FALSE,
            logged |-> FALSE]

Init ==
  /\ rows = {} /\ blobs = {} /\ old = {}
  /\ uploads = [s \in Shot |-> 0] /\ inserts = [s \in Shot |-> 0]
  /\ purge = [i \in Instance |-> NoPurge]
  /\ removing = {}
  /\ requests = [q \in 1..MaxRequests |-> Nobody]
  /\ view = [a \in Viewer |-> NoView]
  /\ unaudited = {} /\ revived = {}
  /\ deleted = {} /\ reput = {} /\ excused = {}
  /\ faults = 0

Fault ==
  /\ faults < MaxFaults
  /\ faults' = faults + 1

(***************************************************************************)
(* What arrives from the agent, in any order and perhaps twice.            *)
(***************************************************************************)

\* Nothing will lead a purge to a blob whose rows are gone, or about to go.
Unreachable(s) == (inserts[s] > 0 /\ RowsOf(s) = {}) \/ Purging(s)

PutBlob(s) ==
  /\ uploads[s] < MaxCopies
  /\ uploads' = [uploads EXCEPT ![s] = @ + 1]
  /\ blobs' = blobs \union {s}
  /\ reput' = IF s \in deleted THEN reput \union {s} ELSE reput
  /\ excused' = IF Unreachable(s) THEN excused \union {s} ELSE excused
  /\ UNCHANGED <<rows, inserts, old, purge, removing, viewVars, deleted, faults>>

InsertRow(s) ==
  /\ inserts[s] < MaxCopies
  /\ inserts' = [inserts EXCEPT ![s] = @ + 1]
  /\ rows' = rows \union {<<s, inserts[s] + 1>>}
  /\ excused' = IF Purging(s) THEN excused \union {s} ELSE excused
  /\ UNCHANGED <<blobs, uploads, old, purge, removing, viewVars, deleted, reput, faults>>

Age(s) ==
  /\ s \notin old
  /\ old' = old \union {s}
  /\ UNCHANGED <<rows, blobs, uploads, inserts, purge, removing, viewVars, historyVars,
                 faults>>

(***************************************************************************)
(* Retention: Purge, at the start of an instance and then daily.           *)
(***************************************************************************)

\* The cutoff is fixed here, for the keys and for the deletion of the rows.
StartPurge(i) ==
  /\ purge[i].at = "idle"
  /\ purge' = [purge EXCEPT ![i] =
       [at |-> "blobs", before |-> old, keys |-> {r[1] : r \in rows} \intersect old]]
  /\ UNCHANGED <<storeVars, removing, viewVars, historyVars, faults>>

\* Best effort: a blob that cannot be deleted loses its rows all the same.
PurgeBlob(i, s) ==
  /\ purge[i].at = "blobs" /\ s \in purge[i].keys
  /\ purge' = [purge EXCEPT ![i].keys = @ \ {s}]
  /\ \/ blobs' = blobs \ {s} /\ UNCHANGED <<excused, faults>>
     \/ Fault /\ excused' = excused \union {s} /\ UNCHANGED blobs
  /\ UNCHANGED <<rows, uploads, inserts, old, removing, viewVars, deleted, reput>>

\* Mutant: the rows are deleted by the age they have by now.
PurgeRowsByNow(i) ==
  /\ purge[i].at = "blobs" /\ purge[i].keys = {}
  /\ purge' = [purge EXCEPT ![i] = NoPurge]
  /\ rows' = {r \in rows : r[1] \notin old}
  /\ UNCHANGED <<blobs, uploads, inserts, old, removing, viewVars, historyVars, faults>>

PurgeRows(i) ==
  /\ purge[i].at = "blobs" /\ purge[i].keys = {}
  /\ purge' = [purge EXCEPT ![i] = NoPurge]
  /\ \/ rows' = {r \in rows : r[1] \notin purge[i].before} /\ UNCHANGED faults
     \/ Fault /\ UNCHANGED rows
  /\ UNCHANGED <<blobs, uploads, inserts, old, removing, viewVars, historyVars>>

(***************************************************************************)
(* Deletion on request: the row first, then the blob.                      *)
(***************************************************************************)

requireRole(a, roles) == Role[a] \in roles

DeleteScreenshot(r) ==
  /\ \E a \in Account : requireRole(a, {"admin"})
  /\ r \in rows
  /\ rows' = rows \ {r}
  /\ removing' = removing \union {r}
  /\ UNCHANGED <<blobs, uploads, inserts, old, purge, viewVars, historyVars, faults>>

\* The statement committed, its answer did not come: 404, and the blob stays.
DeleteFails(r) ==
  /\ Fault
  /\ \E a \in Account : requireRole(a, {"admin"})
  /\ r \in rows
  /\ rows' = rows \ {r}
  /\ excused' = excused \union {r[1]}
  /\ UNCHANGED <<blobs, uploads, inserts, old, purge, removing, viewVars, deleted, reput>>

\* Mutant: only the row is deleted.
KeepBlob(r) ==
  /\ r \in removing
  /\ removing' = removing \ {r}
  /\ deleted' = deleted \union {r[1]}
  /\ UNCHANGED <<storeVars, purge, viewVars, reput, excused, faults>>

\* A blob that cannot be removed is logged, and the deletion confirmed.
DeleteBlob(r) ==
  /\ r \in removing
  /\ removing' = removing \ {r}
  /\ \/ /\ blobs' = blobs \ {r[1]}
        /\ deleted' = deleted \union {r[1]}
        /\ UNCHANGED <<excused, faults>>
     \/ /\ Fault
        /\ excused' = excused \union {r[1]}
        /\ UNCHANGED <<blobs, deleted>>
  /\ UNCHANGED <<rows, uploads, inserts, old, purge, viewVars, reput>>

(***************************************************************************)
(* Viewing: approval by somebody else, and audit.  Requests and approvals  *)
(* ask for no role.                                                        *)
(***************************************************************************)

\* Somebody else's approval of a's request is in force.
Covered(a) ==
  \E q \in 1..MaxRequests :
    /\ requests[q] # Nobody /\ requests[q].by = a
    /\ requests[q].ok \notin {a, Nobody} /\ requests[q].valid

CreateViewRequest(a, q) ==
  /\ requests[q] = Nobody
  /\ \A p \in 1..MaxRequests : p < q => requests[p] # Nobody
  /\ requests' = [requests EXCEPT ![q] = [by |-> a, ok |-> Nobody, valid |-> TRUE]]
  /\ UNCHANGED <<storeVars, purge, removing, view, unaudited, revived, historyVars,
                 faults>>

\* The requester is read first; no statement changes it.  Expired ones are approved too.
ApproveViewRequest(a, q) ==
  /\ requests[q] # Nobody /\ requests[q].by # a
  /\ requests' = [requests EXCEPT ![q].ok = a]
  /\ view' = [v \in Viewer |->
       [view[v] EXCEPT !.covered = view[v].at # "idle" /\ (@ \/ Covered(v)')]]
  /\ UNCHANGED <<storeVars, purge, removing, unaudited, revived, historyVars, faults>>

Expire(q) ==
  /\ requests[q] # Nobody /\ requests[q].valid
  /\ requests' = [requests EXCEPT ![q].valid = FALSE]
  /\ UNCHANGED <<storeVars, purge, removing, view, unaudited, revived, historyVars,
                 faults>>

\* Mutant: an approval is good for ever.
HasApproval(a) ==
  \E q \in 1..MaxRequests :
    /\ requests[q] # Nobody
    /\ requests[q].by = a /\ requests[q].ok # Nobody

HasActiveApproval(a) ==
  \E q \in 1..MaxRequests :
    /\ requests[q] # Nobody
    /\ requests[q].by = a /\ requests[q].ok # Nobody /\ requests[q].valid

approvedToView(a) == ~DualApproval \/ HasActiveApproval(a)

Look(a, v) ==
  /\ view' = [view EXCEPT ![a] = v]
  /\ UNCHANGED <<storeVars, purge, removing, requests, historyVars>>

\* ScreenshotByID; a request for the list of screenshots needs no row.
FindShot(a, x) ==
  /\ view[a].at = "idle"
  /\ x = Listing \/ x \in rows
  /\ Look(a, [at |-> "found", item |-> x, late |-> x # Listing /\ x[1] \in deleted,
              covered |-> Covered(a), logged |-> FALSE])
  /\ UNCHANGED <<unaudited, revived, faults>>

\* An error of the query is a refusal.
CheckApproval(a) ==
  /\ view[a].at = "found"
  /\ \/ approvedToView(a) /\ Look(a, [view[a] EXCEPT !.at = "approved"])
     \/ Look(a, NoView)
  /\ UNCHANGED <<unaudited, revived, faults>>

Readable == {Listing} \union {r \in Row : r[1] \in blobs}

\* Blob.Get, which may meet a half-written file and fail, or ListScreenshots.
ReadShot(a) ==
  /\ view[a].at = "approved"
  /\ \/ view[a].item \in Readable /\ Look(a, [view[a] EXCEPT !.at = "read"])
     \/ Look(a, NoView)
  /\ UNCHANGED <<unaudited, revived, faults>>

\* Mutant: an image is audited when it is listed, not when it is shown.
AuditLists(a) ==
  /\ view[a].at = "read"
  /\ Look(a, [view[a] EXCEPT !.at = "audited", !.logged = view[a].item = Listing])
  /\ UNCHANGED <<unaudited, revived, faults>>

\* The error of the insertion is dropped.
Audit(a) ==
  /\ view[a].at = "read"
  /\ \/ Look(a, [view[a] EXCEPT !.at = "audited", !.logged = TRUE]) /\ UNCHANGED faults
     \/ Look(a, [view[a] EXCEPT !.at = "audited"]) /\ Fault
  /\ UNCHANGED <<unaudited, revived>>

Serve(a) ==
  /\ view[a].at = "audited"
  /\ Look(a, NoView)
  /\ unaudited' = IF view[a].logged THEN unaudited ELSE unaudited \union {<<a, view[a].item>>}
  /\ revived' = IF view[a].late THEN revived \union {view[a].item[1]} ELSE revived
  /\ UNCHANGED faults

\* A crash of the instances: what was under way is forgotten, and a purge begins anew.
Crash ==
  /\ Fault
  /\ purge' = [i \in Instance |-> NoPurge]
  /\ removing' = {}
  /\ view' = [a \in Viewer |-> NoView]
  /\ excused' = excused \union {r[1] : r \in removing}
  /\ UNCHANGED <<storeVars, requests, unaudited, revived, deleted, reput>>

AgentStep == \E s \in Shot : PutBlob(s) \/ InsertRow(s) \/ Age(s)

PurgeStep(i) ==
  StartPurge(i) \/ PurgeRows(i) \/ \E s \in Shot : PurgeBlob(i, s)

DeleteStep ==
  \E r \in Row : DeleteScreenshot(r) \/ DeleteFails(r) \/ DeleteBlob(r)

ApprovalStep(q) ==
  \/ \E a \in Viewer : CreateViewRequest(a, q)
  \/ \E a \in Account : ApproveViewRequest(a, q)
  \/ Expire(q)

ViewStep(a) ==
  \/ \E x \in Item : FindShot(a, x)
  \/ CheckApproval(a) \/ ReadShot(a) \/ Audit(a) \/ Serve(a)

Next ==
  \/ AgentStep \/ DeleteStep \/ Crash
  \/ \E i \in Instance : PurgeStep(i)
  \/ \E a \in Viewer : ViewStep(a)
  \/ \E q \in 1..MaxRequests : ApprovalStep(q)

Spec == Init /\ [][Next]_vars

(* The purge loop runs daily, and a delete request that has begun ends.    *)
Fairness ==
  /\ \A i \in Instance : WF_vars(PurgeStep(i))
  /\ \A r \in Row : WF_vars(DeleteBlob(r))

FairSpec == Spec /\ Fairness

-----------------------------------------------------------------------------
(***************************************************************************)
(* Properties.                                                             *)
(***************************************************************************)

(* With dual approval nobody is shown a list or an image unless, at some   *)
(* moment of that very request, a request to view of theirs stood approved *)
(* by somebody else and not expired: not on their own word, nor on an      *)
(* approval of the day before.  The somebody may have any role.            *)
ServedWasApproved ==
  DualApproval => \A a \in Viewer :
    view[a].at \in {"approved", "read", "audited"} => view[a].covered

(* Nobody is shown anything by a request whose own entry is not in the     *)
(* audit log, as long as the database takes the entry: the entry comes     *)
(* first.                                                                  *)
UnauditedNeedsFault == faults = 0 => unaudited = {}

(* An image that was deleted is never shown to a later request, unless a   *)
(* retry of the agent's both duplicated its row and uploaded it again.     *)
GoneIsGone == \A s \in revived : s \in reput /\ inserts[s] > 1

(* A screenshot that had a row is gone for good some time after its        *)
(* retention window, row and image, whatever crashes and concurrent        *)
(* purges or deletions there are; the image may stay only if it could not  *)
(* be deleted, or arrived when nothing led to it any more.                 *)
RetentionHolds ==
  \A s \in Shot :
    <>(s \in old /\ inserts[s] > 0) =>
      <>[](RowsOf(s) = {} /\ (s \notin blobs \/ s \in excused))
=============================================================================
