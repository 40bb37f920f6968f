---------------------------- MODULE ServerProofs -----------------------------
(***************************************************************************)
(* What the server's handlers and sweeps do side by side: screenshots,     *)
(* their approvals, views and deletion (Screenshots), and the alerts that  *)
(* ingested events give rise to (Alerting).  The two specifications share  *)
(* no variable; the safety of each holds for any screenshots, accounts,    *)
(* roles, instances, events, rules, lost requests and faults.              *)
(***************************************************************************)
EXTENDS Screenshots, Alerting, TLAPS

(* Screenshots *)

(* No request is approved by its author; a view remembers every approval   *)
(* in force since it began, and one past the check had one.                *)
PastCheck == {"approved", "read", "audited"}

ApprovalInv ==
  /\ \A q \in 1..MaxRequests : requests[q] # Nobody => requests[q].ok # requests[q].by
  /\ \A a \in Viewer :
       /\ view[a].at # "idle" /\ Covered(a) => view[a].covered
       /\ view[a].at \in PastCheck => ~DualApproval \/ view[a].covered

(* The entry is there before the image is written.                         *)
AuditInv ==
  faults = 0 =>
    /\ \A a \in Viewer : view[a].at = "audited" => view[a].logged
    /\ unaudited = {}

(* A screenshot deleted on request has lost a row and, but for another     *)
(* upload, its blob; only another row leads to it.                         *)
Returned(s) == s \in reput /\ inserts[s] > 1

GoneInv ==
  /\ \A r \in removing : r \notin rows /\ r[2] <= inserts[r[1]]
  /\ \A s \in deleted : inserts[s] > 0 /\ (RowsOf(s) # {} => inserts[s] > 1)
  /\ \A s \in deleted : s \in blobs => s \in reput
  /\ \A a \in Viewer : view[a].late =>
       /\ view[a].item \in Row /\ view[a].item[1] \in deleted
       /\ inserts[view[a].item[1]] > 1
       /\ view[a].at \in {"read", "audited"} => view[a].item[1] \in reput
  /\ \A s \in revived : Returned(s)

-----------------------------------------------------------------------------
LEMMA TypeInit == Init => TypeOK
  BY ShotAssumption
  DEF Init, TypeOK, Copy, Row, Item, ViewRequest, View, Purge, NoPurge, NoView

(* A view that is replaced by a well-typed one.                            *)
LookTyped == \A a \in Viewer : view[a].late => view[a].item \in Row

LEMMA LookType ==
  ASSUME TypeOK, NEW a \in Viewer, NEW v \in View, v.late => v.item \in Row, Look(a, v)
  PROVE  view' \in [Viewer -> View] /\ LookTyped'
  BY DEF TypeOK, Look, LookTyped

(* An approval changes nothing of the views under way but what covers them. *)
LEMMA ApproveFacts ==
  ASSUME TypeOK, NEW a \in Account, NEW q \in 1..MaxRequests, ApproveViewRequest(a, q)
  PROVE  /\ view' \in [Viewer -> View]
         /\ \A v \in Viewer :
              /\ view'[v].at = view[v].at /\ view'[v].item = view[v].item
              /\ view'[v].late = view[v].late /\ view'[v].logged = view[v].logged
              /\ view'[v].covered <=>
                   view[v].at # "idle" /\ (view[v].covered \/ Covered(v)')
         /\ \A v \in Viewer : view'[v].late => view'[v].item \in Row
  <1>1. view \in [Viewer -> View] /\ \A v \in Viewer : view[v].late => view[v].item \in Row
    BY DEF TypeOK
  <1>2. ASSUME NEW v \in Viewer, NEW c \in BOOLEAN
        PROVE  /\ [view[v] EXCEPT !.covered = c] \in View
               /\ [view[v] EXCEPT !.covered = c].at = view[v].at
               /\ [view[v] EXCEPT !.covered = c].item = view[v].item
               /\ [view[v] EXCEPT !.covered = c].late = view[v].late
               /\ [view[v] EXCEPT !.covered = c].logged = view[v].logged
               /\ [view[v] EXCEPT !.covered = c].covered = c
    BY <1>1 DEF View
  <1> DEFINE C(v) == view[v].at # "idle" /\ (view[v].covered \/ Covered(v)')
  <1>3. \A v \in Viewer : C(v) \in BOOLEAN
    OBVIOUS
  <1>4. view' = [v \in Viewer |-> [view[v] EXCEPT !.covered = C(v)]]
    BY DEF ApproveViewRequest
  <1> HIDE DEF C
  <1>5. \A v \in Viewer : view'[v] = [view[v] EXCEPT !.covered = C(v)]
    BY <1>4
  <1>6. /\ view' \in [Viewer -> View]
        /\ \A v \in Viewer :
              /\ view'[v].at = view[v].at /\ view'[v].item = view[v].item
              /\ view'[v].late = view[v].late /\ view'[v].logged = view[v].logged
              /\ view'[v].covered = C(v)
    BY <1>2, <1>3, <1>4, <1>5
  <1>7. QED
    BY <1>1, <1>3, <1>6 DEF C

LEMMA TypeStep == TypeOK /\ [Next]_vars => TypeOK'
  <1> SUFFICES ASSUME TypeOK, [Next]_vars PROVE TypeOK'
    OBVIOUS
  <1> USE ShotAssumption
      DEF TypeOK, storeVars, viewVars, historyVars, Copy, Row, Fault
  <1>1. ASSUME NEW s \in Shot, PutBlob(s) \/ Age(s) PROVE TypeOK'
    <2>1. CASE PutBlob(s)
      <3>1. uploads' \in [Shot -> 0..MaxCopies]
        BY <2>1 DEF PutBlob
      <3>2. blobs' \subseteq Shot /\ reput' \subseteq Shot /\ excused' \subseteq Shot
        BY <2>1 DEF PutBlob
      <3>3. UNCHANGED <<rows, inserts, old, purge, removing, viewVars, deleted, faults>>
        BY <2>1 DEF PutBlob
      <3>4. QED
        BY <3>1, <3>2, <3>3
    <2>2. CASE Age(s)
      BY <2>2 DEF Age
    <2>3. QED
      BY <1>1, <2>1, <2>2
  <1>2. ASSUME NEW s \in Shot, InsertRow(s) PROVE TypeOK'
    BY <1>2 DEF InsertRow
  <1>3. ASSUME NEW i \in Instance, StartPurge(i) PROVE TypeOK'
    BY <1>3 DEF StartPurge, Purge
  <1>4. ASSUME NEW i \in Instance, NEW s \in Shot, PurgeBlob(i, s) PROVE TypeOK'
    <2>1. purge' \in [Instance -> Purge]
      <3>a. purge[i] \in Purge
        OBVIOUS
      <3>b. \A p \in Purge : [p EXCEPT !.keys = @ \ {s}] \in Purge
        BY ONLY TRUE DEF Purge
      <3>1. purge[i] \in Purge /\ [purge[i] EXCEPT !.keys = @ \ {s}] \in Purge
        BY <3>a, <3>b
      <3>2. purge' = [purge EXCEPT ![i] = [purge[i] EXCEPT !.keys = @ \ {s}]]
        BY <1>4, <3>1 DEF PurgeBlob
      <3>3. QED
        BY <3>1, <3>2
    <2>2. blobs' \subseteq Shot /\ excused' \subseteq Shot /\ faults' \in Nat
      BY <1>4 DEF PurgeBlob
    <2>3. UNCHANGED <<rows, uploads, inserts, old, removing, viewVars, deleted, reput>>
      BY <1>4 DEF PurgeBlob
    <2>4. QED
      BY <2>1, <2>2, <2>3
  <1>5. ASSUME NEW i \in Instance, PurgeRows(i) PROVE TypeOK'
    <2>1. NoPurge \in Purge
      BY ONLY TRUE DEF Purge, NoPurge
    <2>2. purge' \in [Instance -> Purge]
      BY <1>5, <2>1 DEF PurgeRows
    <2>3. rows' \subseteq rows /\ faults' \in Nat
      BY <1>5 DEF PurgeRows
    <2>4. UNCHANGED <<blobs, uploads, inserts, old, removing, viewVars, historyVars>>
      BY <1>5 DEF PurgeRows
    <2>5. QED
      BY <2>2, <2>3, <2>4
  <1>6. ASSUME NEW r \in Row, DeleteScreenshot(r) \/ DeleteFails(r) PROVE TypeOK'
    BY <1>6 DEF DeleteScreenshot, DeleteFails
  <1>7. ASSUME NEW r \in Row, DeleteBlob(r) PROVE TypeOK'
    BY <1>7 DEF DeleteBlob
  <1>8. ASSUME NEW a \in Viewer, NEW q \in 1..MaxRequests, CreateViewRequest(a, q)
        PROVE  TypeOK'
    BY <1>8 DEF CreateViewRequest, ViewRequest
  <1>9. ASSUME NEW a \in Account, NEW q \in 1..MaxRequests, ApproveViewRequest(a, q)
        PROVE  TypeOK'
    <2>1. requests' \in [1..MaxRequests -> ViewRequest \union {Nobody}]
      BY <1>9 DEF ApproveViewRequest, ViewRequest
    <2>2. view' \in [Viewer -> View] /\ \A v \in Viewer : view'[v].late => view'[v].item \in Row
      BY <1>9, ApproveFacts
    <2>3. UNCHANGED <<storeVars, purge, removing, unaudited, revived, historyVars, faults>>
      BY <1>9 DEF ApproveViewRequest
    <2>4. QED
      BY <2>1, <2>2, <2>3
  <1>10. ASSUME NEW q \in 1..MaxRequests, Expire(q) PROVE TypeOK'
    BY <1>10 DEF Expire, ViewRequest
  <1>11. ASSUME NEW a \in Viewer, NEW x \in Item, FindShot(a, x) PROVE TypeOK'
    <2> DEFINE v == [at |-> "found", item |-> x, late |-> x # Listing /\ x[1] \in deleted,
                     covered |-> Covered(a), logged |-> FALSE]
    <2>1. Covered(a) \in BOOLEAN
      BY DEF Covered
    <2>2. v \in View /\ (v.late => v.item \in Row)
      BY <2>1 DEF View, Item
    <2>3. Look(a, v) /\ UNCHANGED <<unaudited, revived, faults>>
      BY <1>11 DEF FindShot
    <2> HIDE DEF v
    <2>4. view' \in [Viewer -> View] /\ LookTyped'
      BY <2>2, <2>3, LookType
    <2>5. QED
      BY <2>3, <2>4 DEF Look, LookTyped
  <1>12. ASSUME NEW a \in Viewer, CheckApproval(a) \/ ReadShot(a) PROVE TypeOK'
    <2>1. NoView \in View /\ ~NoView.late
      BY DEF View, NoView, Item
    <2>2. view' \in [Viewer -> View] /\ LookTyped'
      <3> DEFINE e == [view[a] EXCEPT !.at = "approved"]
                 f == [view[a] EXCEPT !.at = "read"]
      <3>a. view[a] \in View
        OBVIOUS
      <3>1. /\ e \in View /\ e.late = view[a].late /\ e.item = view[a].item
            /\ f \in View /\ f.late = view[a].late /\ f.item = view[a].item
        BY ONLY <3>a DEF View
      <3>2. Look(a, e) \/ Look(a, f) \/ Look(a, NoView)
        BY <1>12 DEF CheckApproval, ReadShot
      <3> HIDE DEF e, f
      <3>3. QED
        BY <2>1, <3>1, <3>2, LookType
    <2>3. QED
      BY <1>12, <2>2 DEF CheckApproval, ReadShot, Look, LookTyped
  <1>13. ASSUME NEW a \in Viewer, Audit(a) PROVE TypeOK'
    <2>1. view' \in [Viewer -> View] /\ LookTyped'
      <3> DEFINE e == [view[a] EXCEPT !.at = "audited", !.logged = TRUE]
                 f == [view[a] EXCEPT !.at = "audited"]
      <3>a. view[a] \in View
        OBVIOUS
      <3>1. /\ e \in View /\ e.late = view[a].late /\ e.item = view[a].item
            /\ f \in View /\ f.late = view[a].late /\ f.item = view[a].item
        BY ONLY <3>a DEF View
      <3>2. Look(a, e) \/ Look(a, f)
        BY <1>13 DEF Audit
      <3> HIDE DEF e, f
      <3>3. QED
        BY <3>1, <3>2, LookType
    <2>3. faults' \in Nat
      BY <1>13 DEF Audit
    <2>4. QED
      BY <1>13, <2>1, <2>3 DEF Audit, Look, LookTyped
  <1>14. ASSUME NEW a \in Viewer, Serve(a) PROVE TypeOK'
    <2>1. view' \in [Viewer -> View] /\ LookTyped'
      <3>1. NoView \in View /\ ~NoView.late
        BY DEF View, NoView, Item
      <3>2. QED
        BY <1>14, <3>1, LookType DEF Serve
    <2>2. view[a].item \in Item
      BY DEF View
    <2>3. unaudited' \subseteq Viewer \X Item
      BY <1>14, <2>2 DEF Serve
    <2>4. revived' \subseteq Shot
      BY <1>14 DEF Serve
    <2>5. QED
      BY <1>14, <2>1, <2>3, <2>4 DEF Serve, Look, LookTyped
  <1>15. CASE Crash
    BY <1>15 DEF Crash, Purge, NoPurge, View, NoView, Item
  <1>16. CASE UNCHANGED vars
    BY <1>16 DEF vars
  <1>17. QED
    BY <1>1, <1>2, <1>3, <1>4, <1>5, <1>6, <1>7, <1>8, <1>9, <1>10, <1>11, <1>12, <1>13,
       <1>14, <1>15, <1>16
    DEF Next, AgentStep, PurgeStep, DeleteStep, ViewStep, ApprovalStep


-----------------------------------------------------------------------------
LEMMA ApprovalInit == Init => ApprovalInv
  BY ShotAssumption DEF Init, ApprovalInv, NoView, PastCheck

(* Steps that leave the views alone, and approve nothing.                  *)
LEMMA ApprovalFrame ==
  ASSUME ApprovalInv, UNCHANGED view,
         \A a \in Viewer : Covered(a)' => Covered(a),
         \A q \in 1..MaxRequests : requests'[q] # Nobody => requests'[q].ok # requests'[q].by
  PROVE  ApprovalInv'
  BY DEF ApprovalInv

LEMMA ApprovalUnchanged ==
  ASSUME ApprovalInv, UNCHANGED <<requests, view>>
  PROVE  ApprovalInv'
  BY DEF ApprovalInv, Covered

LEMMA ApprovalStepInv ==
  ASSUME TypeOK, ApprovalInv, [Next]_vars
  PROVE  ApprovalInv'
  <1> USE ShotAssumption DEF storeVars, viewVars, historyVars
  <1>1. ASSUME NEW s \in Shot, PutBlob(s) \/ InsertRow(s) \/ Age(s) PROVE ApprovalInv'
    BY <1>1, ApprovalUnchanged DEF PutBlob, InsertRow, Age
  <1>2. ASSUME NEW i \in Instance, PurgeStep(i) PROVE ApprovalInv'
    BY <1>2, ApprovalUnchanged DEF PurgeStep, StartPurge, PurgeBlob, PurgeRows
  <1>3. CASE DeleteStep
    BY <1>3, ApprovalUnchanged DEF DeleteStep, DeleteScreenshot, DeleteFails, DeleteBlob
  <1>4. ASSUME NEW q \in 1..MaxRequests, ApprovalStep(q) PROVE ApprovalInv'
    <2>1. ASSUME NEW a \in Viewer, CreateViewRequest(a, q) PROVE ApprovalInv'
      <3>1. /\ requests' = [requests EXCEPT ![q] = [by |-> a, ok |-> Nobody, valid |-> TRUE]]
            /\ requests[q] = Nobody /\ a # Nobody /\ UNCHANGED view
        BY <2>1 DEF CreateViewRequest
      <3>2. /\ \A p \in 1..MaxRequests : p # q => requests'[p] = requests[p]
            /\ requests'[q].ok = Nobody /\ requests'[q].by = a
        BY <3>1 DEF TypeOK
      <3>3. \A b \in Viewer : Covered(b)' => Covered(b)
        BY <3>2 DEF Covered
      <3>4. QED
        BY <3>1, <3>2, <3>3, ApprovalFrame DEF ApprovalInv
    <2>2. ASSUME NEW a \in Account, ApproveViewRequest(a, q) PROVE ApprovalInv'
      <3>1. /\ requests[q] \in ViewRequest /\ requests[q].by # a
            /\ requests' = [requests EXCEPT ![q] = [requests[q] EXCEPT !.ok = a]]
        BY <2>2 DEF ApproveViewRequest, TypeOK
      <3>2. /\ \A p \in 1..MaxRequests : p # q => requests'[p] = requests[p]
            /\ requests'[q].ok = a /\ requests'[q].by = requests[q].by
        BY <3>1 DEF TypeOK, ViewRequest
      <3>3. \A p \in 1..MaxRequests : requests'[p] # Nobody => requests'[p].ok # requests'[p].by
        BY <3>1, <3>2 DEF ApprovalInv
      <3>4. \A v \in Viewer : view'[v].at = view[v].at /\ (view'[v].covered <=>
                                view[v].at # "idle" /\ (view[v].covered \/ Covered(v)'))
        BY <2>2, ApproveFacts
      <3>5. \A v \in Viewer : view[v].at \in PastCheck => view[v].at # "idle"
        BY DEF PastCheck
      <3>6. QED
        BY <3>3, <3>4, <3>5 DEF ApprovalInv
    <2>3. CASE Expire(q)
      <3>1. /\ requests[q] \in ViewRequest /\ requests[q] # Nobody
            /\ requests' = [requests EXCEPT ![q] = [requests[q] EXCEPT !.valid = FALSE]]
            /\ UNCHANGED view
        BY <2>3 DEF Expire, TypeOK
      <3>2. /\ \A p \in 1..MaxRequests : p # q => requests'[p] = requests[p]
            /\ requests'[q].ok = requests[q].ok /\ requests'[q].by = requests[q].by
            /\ ~requests'[q].valid
        BY <3>1 DEF TypeOK, ViewRequest
      <3>3. \A b \in Viewer : Covered(b)' => Covered(b)
        BY <3>2 DEF Covered
      <3>4. QED
        BY <3>1, <3>2, <3>3, ApprovalFrame DEF ApprovalInv
    <2>4. QED
      BY <1>4, <2>1, <2>2, <2>3 DEF ApprovalStep
  <1>5. ASSUME NEW a \in Viewer, ViewStep(a) PROVE ApprovalInv'
    <2> USE DEF ApprovalInv
    <2>1. /\ UNCHANGED requests /\ view \in [Viewer -> View]
          /\ \A b \in Viewer : Covered(b)' <=> Covered(b)
      BY <1>5 DEF ViewStep, FindShot, CheckApproval, ReadShot, Audit, Serve, Look,
                  Covered, TypeOK
    <2>2. ASSUME NEW v, Look(a, v),
                 v.at # "idle" /\ Covered(a) => v.covered,
                 v.at \in PastCheck => ~DualApproval \/ v.covered
          PROVE  ApprovalInv'
      BY <2>1, <2>2 DEF Look
    <2>3. NoView.at = "idle" /\ NoView.at \notin PastCheck
      BY DEF NoView, PastCheck
    <2>4. ASSUME NEW x \in Item, FindShot(a, x) PROVE ApprovalInv'
      <3> DEFINE v == [at |-> "found", item |-> x, late |-> x # Listing /\ x[1] \in deleted,
                       covered |-> Covered(a), logged |-> FALSE]
      <3>1. Look(a, v)
        BY <2>4 DEF FindShot
      <3>2. v.at = "found" /\ (v.covered <=> Covered(a)) /\ "found" \notin PastCheck
        BY DEF PastCheck
      <3> HIDE DEF v
      <3>3. QED
        BY <2>2, <3>1, <3>2
    <2>5. ASSUME NEW at \in PastCheck
          PROVE  /\ [view[a] EXCEPT !.at = at].at = at /\ at # "idle"
                 /\ [view[a] EXCEPT !.at = at].covered = view[a].covered
      BY <2>1 DEF View, PastCheck
    <2>6. CASE CheckApproval(a)
      <3>1. approvedToView(a) => ~DualApproval \/ Covered(a)
        BY DEF approvedToView, HasActiveApproval, Covered
      <3>2. view[a].at # "idle" /\ "approved" \in PastCheck
        BY <2>6 DEF CheckApproval, PastCheck
      <3>3. CASE Look(a, NoView)
        BY <2>2, <2>3, <3>3
      <3>4. CASE approvedToView(a) /\ Look(a, [view[a] EXCEPT !.at = "approved"])
        BY <2>2, <2>5, <3>1, <3>2, <3>4
      <3>5. QED
        BY <2>6, <3>3, <3>4 DEF CheckApproval
    <2>7. CASE ReadShot(a)
      <3>1. view[a].at # "idle" /\ view[a].at \in PastCheck /\ "read" \in PastCheck
        BY <2>7 DEF ReadShot, PastCheck
      <3>2. CASE Look(a, NoView)
        BY <2>2, <2>3, <3>2
      <3>3. CASE Look(a, [view[a] EXCEPT !.at = "read"])
        BY <2>2, <2>5, <3>1, <3>3
      <3>4. QED
        BY <2>7, <3>2, <3>3 DEF ReadShot
    <2>8. CASE Audit(a)
      <3> DEFINE e == [view[a] EXCEPT !.at = "audited", !.logged = TRUE]
                 f == [view[a] EXCEPT !.at = "audited"]
      <3>1. view[a].at # "idle" /\ view[a].at \in PastCheck
        BY <2>8 DEF Audit, PastCheck
      <3>2. e.covered = view[a].covered /\ f.covered = view[a].covered
        BY <2>1 DEF View
      <3>3. Look(a, e) \/ Look(a, f)
        BY <2>8 DEF Audit
      <3> HIDE DEF e, f
      <3>4. QED
        BY <2>2, <3>1, <3>2, <3>3
    <2>9. CASE Serve(a)
      BY <2>2, <2>3, <2>9 DEF Serve
    <2>10. QED
      BY <1>5, <2>4, <2>6, <2>7, <2>8, <2>9 DEF ViewStep
  <1>6. CASE Crash
    BY <1>6 DEF Crash, ApprovalInv, NoView, PastCheck
  <1>7. CASE UNCHANGED vars
    BY <1>7, ApprovalUnchanged DEF vars
  <1>8. QED
    BY <1>1, <1>2, <1>3, <1>4, <1>5, <1>6, <1>7 DEF Next, AgentStep

(* With dual approval nobody is ever shown anything by a request during    *)
(* which no approval by somebody else was in force, whatever requests,     *)
(* approvals, expirations and views interleave.                            *)
THEOREM ShownOnlyIfApproved == Spec => []ServedWasApproved
  <1>1. TypeOK /\ ApprovalInv /\ [Next]_vars => (TypeOK /\ ApprovalInv)'
    BY TypeStep, ApprovalStepInv
  <1>2. ApprovalInv => ServedWasApproved
    BY DEF ApprovalInv, ServedWasApproved, PastCheck
  <1>3. QED
    BY TypeInit, ApprovalInit, <1>1, <1>2, PTL DEF Spec

-----------------------------------------------------------------------------
LEMMA AuditStepInv ==
  ASSUME TypeOK, AuditInv, [Next]_vars
  PROVE  AuditInv'
  <1> USE DEF AuditInv, storeVars, viewVars, historyVars, Fault
  <1>f. faults \in Nat
    BY DEF TypeOK
  <1>1. ASSUME NEW s \in Shot, PutBlob(s) \/ InsertRow(s) \/ Age(s) PROVE AuditInv'
    BY <1>1 DEF PutBlob, InsertRow, Age
  <1>2. ASSUME NEW i \in Instance, PurgeStep(i) PROVE AuditInv'
    BY <1>2, <1>f DEF PurgeStep, StartPurge, PurgeBlob, PurgeRows
  <1>3. CASE DeleteStep
    BY <1>3, <1>f DEF DeleteStep, DeleteScreenshot, DeleteFails, DeleteBlob
  <1>4. ASSUME NEW q \in 1..MaxRequests, ApprovalStep(q) PROVE AuditInv'
    <2>1. ASSUME NEW a \in Account, ApproveViewRequest(a, q) PROVE AuditInv'
      <3>1. \A v \in Viewer : view'[v].at = view[v].at /\ view'[v].logged = view[v].logged
        BY <2>1, ApproveFacts
      <3>2. QED
        BY <2>1, <3>1 DEF ApproveViewRequest
    <2>2. QED
      BY <1>4, <2>1 DEF ApprovalStep, CreateViewRequest, Expire
  <1>5. ASSUME NEW a \in Viewer, ViewStep(a) PROVE AuditInv'
    <2>1. view \in [Viewer -> View]
      BY DEF TypeOK
    <2>2. ASSUME NEW x \in Item, FindShot(a, x) PROVE AuditInv'
      BY <2>1, <2>2 DEF FindShot, Look
    <2>3. CASE CheckApproval(a) \/ ReadShot(a)
      BY <2>1, <2>3 DEF CheckApproval, ReadShot, Look, NoView, View
    <2>4. CASE Audit(a)
      <3> DEFINE e == [view[a] EXCEPT !.at = "audited", !.logged = TRUE]
                 f == [view[a] EXCEPT !.at = "audited"]
      <3>1. view[a] \in View
        BY <2>1
      <3>2. e.at = "audited" /\ e.logged
        BY ONLY <3>1 DEF View
      <3>3. CASE Look(a, e) /\ UNCHANGED <<unaudited, faults>>
        <4> HIDE DEF e
        <4>1. QED
          BY <2>1, <3>2, <3>3 DEF Look
      <3>4. CASE Look(a, f) /\ Fault
        BY <1>f, <3>4
      <3>5. QED
        BY <2>4, <3>3, <3>4 DEF Audit
    <2>5. CASE Serve(a)
      BY <2>1, <2>5 DEF Serve, Look, NoView
    <2>6. QED
      BY <1>5, <2>2, <2>3, <2>4, <2>5 DEF ViewStep
  <1>6. CASE Crash
    BY <1>6, <1>f DEF Crash
  <1>7. CASE UNCHANGED vars
    BY <1>7 DEF vars
  <1>8. QED
    BY <1>1, <1>2, <1>3, <1>4, <1>5, <1>6, <1>7 DEF Next, AgentStep

(* As long as the database takes every entry, each request that showed     *)
(* anything has its own in the audit log, made before the image is written.*)
THEOREM ShownIsAudited == Spec => []UnauditedNeedsFault
  <1>1. Init => AuditInv
    BY DEF Init, AuditInv, NoView
  <1>2. TypeOK /\ AuditInv /\ [Next]_vars => (TypeOK /\ AuditInv)'
    BY TypeStep, AuditStepInv
  <1>3. AuditInv => UnauditedNeedsFault
    BY DEF AuditInv, UnauditedNeedsFault
  <1>4. QED
    BY TypeInit, <1>1, <1>2, <1>3, PTL DEF Spec

-----------------------------------------------------------------------------
(* Steps of everybody but the agent, the deletions and the views.          *)
LEMMA GoneFrame ==
  ASSUME GoneInv, rows' \subseteq rows, blobs' \subseteq blobs,
         UNCHANGED <<inserts, removing, deleted, reput, view, revived>>
  PROVE  GoneInv'
  BY DEF GoneInv, RowsOf, Returned

LEMMA GoneStepInv ==
  ASSUME TypeOK, GoneInv, [Next]_vars
  PROVE  GoneInv'
  <1> USE DEF storeVars, viewVars, historyVars
  <1>t. /\ rows \subseteq Row /\ removing \subseteq Row /\ deleted \subseteq Shot
        /\ \A r \in rows : r[2] <= inserts[r[1]]
        /\ inserts \in [Shot -> 0..MaxCopies] /\ MaxCopies \in Nat
        /\ view \in [Viewer -> View]
    BY ShotAssumption DEF TypeOK
  <1>r. \A r \in Row : r[1] \in Shot /\ r[2] \in Nat /\ r[2] > 0 /\ r = <<r[1], r[2]>>
    BY ShotAssumption DEF Row, Copy
  <1>1. ASSUME NEW s \in Shot, PutBlob(s) PROVE GoneInv'
    <2>1. /\ UNCHANGED <<rows, inserts, removing, view, deleted, revived>>
          /\ blobs' = blobs \union {s} /\ reput \subseteq reput'
          /\ s \in deleted => s \in reput'
      BY <1>1 DEF PutBlob
    <2>2. QED
      BY <2>1 DEF GoneInv, RowsOf, Returned
  <1>2. ASSUME NEW s \in Shot, InsertRow(s) PROVE GoneInv'
    <2>1. /\ UNCHANGED <<blobs, removing, view, deleted, reput, revived>>
          /\ inserts' = [inserts EXCEPT ![s] = inserts[s] + 1]
          /\ rows' = rows \union {<<s, inserts[s] + 1>>}
      BY <1>2 DEF InsertRow
    <2>2. /\ inserts'[s] = inserts[s] + 1
          /\ \A x \in Shot : inserts[x] \in Nat /\ inserts'[x] \in Nat /\ inserts[x] <= inserts'[x]
      BY <2>1, <1>t
    <2>3. \A r \in removing : r \notin rows' /\ r[2] <= inserts'[r[1]]
      BY <2>1, <2>2, <1>t, <1>r DEF GoneInv
    <2>4. \A x \in deleted : inserts'[x] > 0 /\ (RowsOf(x)' # {} => inserts'[x] > 1)
      BY <2>1, <2>2, <1>t, <1>r DEF GoneInv, RowsOf
    <2>5. \A x \in Shot : inserts[x] > 1 => inserts'[x] > 1
      BY <2>2
    <2>6. \A x \in revived : x \in Shot
      BY DEF TypeOK
    <2>7. \A a \in Viewer : view[a].item \in Row => view[a].item[1] \in Shot
      BY <1>r
    <2>8. QED
      BY <2>1, <2>3, <2>4, <2>5, <2>6, <2>7 DEF GoneInv, Returned
  <1>3. ASSUME NEW s \in Shot, Age(s) PROVE GoneInv'
    BY <1>3, GoneFrame DEF Age
  <1>4. ASSUME NEW i \in Instance, PurgeStep(i) PROVE GoneInv'
    BY <1>4, GoneFrame DEF PurgeStep, StartPurge, PurgeBlob, PurgeRows
  <1>5. ASSUME NEW r \in Row, DeleteScreenshot(r) PROVE GoneInv'
    <2>1. /\ r \in rows /\ rows' = rows \ {r} /\ removing' = removing \union {r}
          /\ UNCHANGED <<blobs, inserts, view, deleted, reput, revived>>
      BY <1>5 DEF DeleteScreenshot
    <2>2. QED
      BY <2>1, <1>t DEF GoneInv, RowsOf, Returned
  <1>6. ASSUME NEW r \in Row, DeleteFails(r) PROVE GoneInv'
    BY <1>6, GoneFrame DEF DeleteFails
  <1>7. ASSUME NEW r \in Row, DeleteBlob(r) PROVE GoneInv'
    <2>1. /\ r \in removing /\ removing' = removing \ {r}
          /\ UNCHANGED <<rows, inserts, view, reput, revived>>
      BY <1>7 DEF DeleteBlob
    <2>2. CASE UNCHANGED <<blobs, deleted>>
      BY <2>1, <2>2 DEF GoneInv, RowsOf, Returned
    <2>3. CASE blobs' = blobs \ {r[1]} /\ deleted' = deleted \union {r[1]}
      <3>1. r \notin rows /\ r[2] <= inserts[r[1]] /\ inserts[r[1]] \in Nat
        BY <2>1, <1>t, <1>r DEF GoneInv
      <3>2. inserts[r[1]] > 0
        BY <3>1, <1>r
      <3>3. ASSUME NEW x \in rows, x[1] = r[1] PROVE inserts[r[1]] > 1
        BY <3>1, <3>3, <1>t, <1>r
      <3>4. QED
        BY <2>1, <2>3, <3>2, <3>3 DEF GoneInv, RowsOf, Returned
    <2>4. QED
      BY <1>7, <2>2, <2>3 DEF DeleteBlob
  <1>8. ASSUME NEW q \in 1..MaxRequests, ApprovalStep(q) PROVE GoneInv'
    <2>1. ASSUME NEW a \in Account, ApproveViewRequest(a, q) PROVE GoneInv'
      <3>1. \A v \in Viewer : /\ view'[v].at = view[v].at /\ view'[v].item = view[v].item
                              /\ view'[v].late = view[v].late
        BY <2>1, ApproveFacts
      <3>2. UNCHANGED <<rows, blobs, inserts, removing, deleted, reput, revived>>
        BY <2>1 DEF ApproveViewRequest
      <3>3. QED
        BY <3>1, <3>2 DEF GoneInv, RowsOf, Returned
    <2>2. QED
      BY <1>8, <2>1, GoneFrame DEF ApprovalStep, CreateViewRequest, Expire
  <1>9. ASSUME NEW a \in Viewer, ViewStep(a) PROVE GoneInv'
    <2>1. ASSUME NEW v \in View, Look(a, v), UNCHANGED revived,
                 v.late =>
                   /\ v.item \in Row /\ v.item[1] \in deleted
                   /\ inserts[v.item[1]] > 1
                   /\ v.at \in {"read", "audited"} => v.item[1] \in reput
          PROVE  GoneInv'
      BY <2>1, <1>t DEF Look, GoneInv, RowsOf, Returned
    <2>2. NoView \in View /\ ~NoView.late
      BY DEF NoView, View, Item
    <2>3. ASSUME NEW at \in PastCheck
          PROVE  /\ [view[a] EXCEPT !.at = at] \in View
                 /\ [view[a] EXCEPT !.at = at].late = view[a].late
                 /\ [view[a] EXCEPT !.at = at].item = view[a].item
                 /\ [view[a] EXCEPT !.at = at].at = at
      BY <1>t DEF View, PastCheck
    <2>4. ASSUME NEW x \in Item, FindShot(a, x) PROVE GoneInv'
      <3> DEFINE v == [at |-> "found", item |-> x, late |-> x # Listing /\ x[1] \in deleted,
                       covered |-> Covered(a), logged |-> FALSE]
      <3>1. v \in View /\ Look(a, v) /\ UNCHANGED revived
        BY <2>4 DEF FindShot, View, Covered
      <3>2. v.late => x \in rows /\ x \in Row /\ x[1] \in deleted
        BY <2>4, <1>t DEF FindShot
      <3>3. v.late => inserts[x[1]] > 1
        BY <3>2 DEF GoneInv, RowsOf
      <3>4. v.item = x /\ v.at = "found"
        OBVIOUS
      <3> HIDE DEF v
      <3>5. QED
        BY <2>1, <3>1, <3>2, <3>3, <3>4
    <2>5. CASE CheckApproval(a)
      BY <2>1, <2>2, <2>3, <2>5 DEF CheckApproval, PastCheck, GoneInv
    <2>6. CASE ReadShot(a)
      <3>1. CASE Look(a, NoView)
        BY <2>1, <2>2, <2>6, <3>1 DEF ReadShot
      <3>2. CASE view[a].item \in Readable /\ Look(a, [view[a] EXCEPT !.at = "read"])
        <4>1. view[a].late => view[a].item[1] \in blobs
          BY <3>2, <1>r, ShotAssumption DEF Readable, GoneInv, Row, Copy
        <4>2. QED
          BY <2>1, <2>3, <2>6, <3>2, <4>1 DEF ReadShot, PastCheck, GoneInv
      <3>3. QED
        BY <2>6, <3>1, <3>2 DEF ReadShot
    <2>7. CASE Audit(a)
      <3> DEFINE e == [view[a] EXCEPT !.at = "audited", !.logged = TRUE]
                 f == [view[a] EXCEPT !.at = "audited"]
      <3>1. /\ e \in View /\ e.late = view[a].late /\ e.item = view[a].item
            /\ f \in View /\ f.late = view[a].late /\ f.item = view[a].item
        BY <1>t DEF View
      <3>2. (Look(a, e) \/ Look(a, f)) /\ view[a].at = "read" /\ UNCHANGED revived
        BY <2>7 DEF Audit
      <3> HIDE DEF e, f
      <3>3. QED
        BY <2>1, <3>1, <3>2 DEF GoneInv
    <2>8. CASE Serve(a)
      <3>1. \A s \in revived' : Returned(s)
        BY <2>8 DEF Serve, GoneInv, Returned
      <3>2. UNCHANGED <<rows, blobs, inserts, removing, deleted, reput>>
        BY <2>8 DEF Serve, Look
      <3>3. \A b \in Viewer : view'[b].late => view'[b] = view[b]
        BY <2>8, <2>2, <1>t DEF Serve, Look
      <3>4. QED
        BY <3>1, <3>2, <3>3 DEF GoneInv, RowsOf, Returned
    <2>9. QED
      BY <1>9, <2>4, <2>5, <2>6, <2>7, <2>8 DEF ViewStep
  <1>10. CASE Crash
    BY <1>10 DEF Crash, GoneInv, RowsOf, Returned, NoView
  <1>11. CASE UNCHANGED vars
    BY <1>11, GoneFrame DEF vars
  <1>12. QED
    BY <1>1, <1>2, <1>3, <1>4, <1>5, <1>6, <1>7, <1>8, <1>9, <1>10, <1>11
    DEF Next, AgentStep, DeleteStep

(* A deleted image is never shown to a later request, unless retries of    *)
(* the agent's both duplicated its row and uploaded the image again.       *)
THEOREM DeletedStaysGone == Spec => []GoneIsGone
  <1>1. Init => GoneInv
    BY DEF Init, GoneInv, NoView
  <1>2. TypeOK /\ GoneInv /\ [Next]_vars => (TypeOK /\ GoneInv)'
    BY TypeStep, GoneStepInv
  <1>3. GoneInv => GoneIsGone
    BY DEF GoneInv, GoneIsGone, Returned
  <1>4. QED
    BY TypeInit, <1>1, <1>2, <1>3, PTL DEF Spec

(* Type correctness.                                                       *)
THEOREM TypeCorrect == Spec => []TypeOK
  <1>1. QED
    BY TypeInit, TypeStep, PTL DEF Spec

-----------------------------------------------------------------------------
(* Alerts *)

LEMMA CountFacts ==
  ASSUME NEW f \in [Match -> 0..2], NEW m \in Match
  PROVE  /\ Count(f, m) \in [Match -> 0..2]
         /\ Count(f, m)[m] > 0
         /\ \A n \in Match : f[n] > 0 => Count(f, m)[n] > 0
  BY DEF Count

(* A match known when its batch was posted is of a rule that exists.       *)
DueKnown == due \subseteq Evaluate(Event, rules)

(* While the agent waits for a request that has matched its batch, every   *)
(* due match of that batch is recorded or still to be recorded.            *)
DueAttended(h) ==
  \A m \in due : m[1] \in batch[h] => m \in todo[h] \/ alerts[m] > 0

InHand ==
  \A h \in live :
    /\ pc[h] \in {"record", "notify", "ok"} => DueAttended(h)
    /\ pc[h] = "ok" => todo[h] = {}

AlertInv ==
  /\ AlertTypeOK
  /\ DueKnown
  /\ dbErrors = 0 => InHand
  /\ AcknowledgedMeansAlerted

-----------------------------------------------------------------------------
LEMMA EvaluateFacts ==
  ASSUME NEW E \in SUBSET Event, NEW R \in SUBSET Rule
  PROVE  /\ Evaluate(E, R) \subseteq E \X R
         /\ Evaluate(E, R) \subseteq Match
         /\ \A m \in Evaluate(Event, R) : m[1] \in E => m \in Evaluate(E, R)
         /\ \A S \in SUBSET Rule : R \subseteq S => Evaluate(E, R) \subseteq Evaluate(Event, S)
  BY DEF Evaluate, Match

LEMMA AlertInitInv == AlertInit => AlertInv
  <1> SUFFICES ASSUME AlertInit PROVE AlertInv
    OBVIOUS
  <1>1. MaxPosts \in Nat
    BY AlertAssumption DEF MaxPosts
  <1>2. FlagsOK
    BY DEF AlertInit, FlagsOK
  <1>3. AlertTypeOK
    BY AlertAssumption, <1>1, <1>2 DEF AlertInit, AlertTypeOK, StoredFirst, Step
  <1>4. DueKnown /\ InHand /\ AcknowledgedMeansAlerted
    BY DEF AlertInit, DueKnown, InHand, AcknowledgedMeansAlerted
  <1>5. QED
    BY <1>3, <1>4 DEF AlertInv

LEMMA AlertStepInv ==
  ASSUME AlertInv, [AlertNext]_alertingVars
  PROVE  AlertInv'
  <1> USE AlertAssumption
      DEF AlertInv, AlertTypeOK, DueKnown, InHand, DueAttended, AcknowledgedMeansAlerted, Event,
          Post, Step, MaxPosts, StoredFirst
  <1>a. UNCHANGED <<stale, offlineAlerted, selected>> => FlagsOK'
    BY DEF FlagsOK
  <1>0. Post \in SUBSET Nat /\ \A h \in Post : batch[h] \in SUBSET Event
    OBVIOUS
  <1>1. CASE Emit
    BY <1>a, <1>1 DEF Emit, requestVars, alertVars, machineVars
  <1>2. CASE Ingest
    <2>1. /\ posts' = posts + 1 /\ posts' \in Post /\ live' = {posts'}
          /\ pc' = [pc EXCEPT ![posts'] = "insert"]
          /\ batch' = [batch EXCEPT ![posts'] = spool]
          /\ due' = due \union Evaluate(spool, rules)
          /\ UNCHANGED <<emitted, spool, todo, current, rules, stored, alerts, notified,
                         raised, stale, offlineAlerted, selected, giveUps, dbErrors>>
      BY <1>2 DEF Ingest, agentVars, alertVars, machineVars
    <2>2. spool \in SUBSET Event
      OBVIOUS
    <2>3. /\ Evaluate(spool, rules) \subseteq spool \X rules
          /\ Evaluate(spool, rules) \subseteq Match
          /\ Evaluate(spool, rules) \subseteq Evaluate(Event, rules)
      BY <2>2, EvaluateFacts
    <2>4. AlertTypeOK'
      BY <1>a, <2>1, <2>2, <2>3
    <2>5. DueKnown'
      BY <2>1, <2>3
    <2>6. (dbErrors = 0 => InHand)'
      BY <1>a, <2>1
    <2>7. AcknowledgedMeansAlerted'
      BY <2>1, <2>3
    <2>8. QED
      BY <2>4, <2>5, <2>6, <2>7
  <1>3. ASSUME NEW h \in Post, GiveUp(h)  PROVE AlertInv'
    BY <1>a, <1>3 DEF GiveUp, agentVars, alertVars, machineVars
  <1>4. ASSUME NEW h \in Post, InsertEvents(h)  PROVE AlertInv'
    <2>1. /\ pc[h] = "insert"
          /\ dbErrors' \in {dbErrors, dbErrors + 1}
          /\ UNCHANGED <<emitted, spool, posts, live, batch, todo, current, rules, alerts,
                         notified, due, raised, stale, offlineAlerted, selected, giveUps>>
      BY <1>4 DEF InsertEvents, Goes, MayFail, DbError, agentVars, alertVars, machineVars
    <2>2. /\ stored' \in SUBSET Event
          /\ \A e \in stored : e \in stored'
      BY <1>4 DEF InsertEvents
    <2>3. \E step \in {"load", "err"} :
            /\ pc' = [pc EXCEPT ![h] = step]
            /\ step = "load" => \A e \in batch[h] : e \in stored'
      BY <1>4 DEF InsertEvents, Goes
    <2>4. StoredFirst'
      BY <2>1, <2>2, <2>3
    <2>5. pc' \in [Post -> Step]
      BY <2>3
    <2>6. AlertTypeOK'
      BY <1>a, <2>1, <2>2, <2>4, <2>5
    <2>7. \A g \in live : pc'[g] \in {"record", "notify", "ok"} => pc[g] = pc'[g]
      BY <2>3
    <2>8. dbErrors' = 0 => dbErrors = 0
      BY <2>1
    <2>9. (dbErrors = 0 => InHand)'
      BY <2>1, <2>7, <2>8
    <2>10. QED
      BY <2>1, <2>6, <2>9
  <1>5. ASSUME NEW h \in Post, LoadRules(h)  PROVE AlertInv'
    <2>1. /\ pc[h] = "load"
          /\ UNCHANGED <<emitted, spool, posts, live, batch, current, rules, stored, alerts,
                         notified, due, raised, stale, offlineAlerted, selected, giveUps>>
      BY <1>5 DEF LoadRules, agentVars, alertVars, machineVars
    <2> DEFINE found == Evaluate(batch[h], rules)
    <2>2. /\ found \subseteq batch[h] \X rules
          /\ found \subseteq Match
          /\ \A m \in Evaluate(Event, rules) : m[1] \in batch[h] => m \in found
      <3>1. batch[h] \in SUBSET Event /\ rules \in SUBSET Rule
        OBVIOUS
      <3>2. QED
        BY ONLY <3>1, EvaluateFacts DEF found
    <2> HIDE DEF found
    <2>3. CASE todo' = [todo EXCEPT ![h] = found] /\ Goes(h, "record") /\ UNCHANGED dbErrors
      <3>1. \A m \in found : m[1] \in batch[h] /\ m[2] \in rules
        BY <2>2
      <3>2. AlertTypeOK'
        <4>1. todo' \in [Post -> SUBSET Match] /\ pc' \in [Post -> Step]
          BY <2>2, <2>3 DEF Goes
        <4>2. batch[h] \subseteq stored
          BY <2>1
        <4>3. StoredFirst'
          <5>1. /\ \A g \in Post : todo'[g] = IF g = h THEN found ELSE todo[g]
                /\ \A g \in Post : pc'[g] = "load" => pc[g] = "load"
            BY <2>3 DEF Goes
          <5>2. \A m \in found : m[1] \in stored /\ m[2] \in rules
            BY <3>1, <4>2
          <5>3. ASSUME NEW g \in Post
                PROVE  /\ pc'[g] = "load" => \A e \in batch'[g] : e \in stored'
                       /\ \A m \in todo'[g] \union current'[g] :
                            m[1] \in stored' /\ m[2] \in rules'
            <6>1. /\ pc[g] = "load" => \A e \in batch[g] : e \in stored
                  /\ \A m \in todo[g] \union current[g] : m[1] \in stored /\ m[2] \in rules
              OBVIOUS
            <6>2. batch' = batch /\ stored' = stored /\ rules' = rules /\ current' = current
              BY <2>1
            <6>3. QED
              BY ONLY <5>1, <5>2, <6>1, <6>2
          <5>4. QED
            BY ONLY <5>3 DEF StoredFirst
        <4>4. QED
          BY <1>a, <2>1, <2>3, <4>1, <4>3
      <3>3. QED
        BY <2>1, <2>2, <2>3, <3>2 DEF Goes
    <2>4. CASE MayFail(h) /\ Goes(h, "ok") /\ UNCHANGED todo
      BY <1>a, <2>1, <2>4 DEF Goes, MayFail, DbError
    <2>5. QED
      BY <1>5, <2>3, <2>4 DEF LoadRules, found
  <1>6. ASSUME NEW h \in Post, NEW m \in Match, CreateAlert(h, m)  PROVE AlertInv'
    <2>1. /\ pc[h] = "record" /\ m \in todo[h]
          /\ alerts' = Count(alerts, m)
          /\ todo' = [todo EXCEPT ![h] = todo[h] \ {m}]
          /\ current' = [current EXCEPT ![h] = {m}]
          /\ pc' = [pc EXCEPT ![h] = "notify"]
          /\ UNCHANGED <<emitted, spool, posts, live, batch, rules, stored, notified, due,
                         raised, stale, offlineAlerted, selected, giveUps, dbErrors>>
      BY <1>6 DEF CreateAlert, NextMatches, Goes, agentVars, machineVars
    <2>2. /\ alerts' \in [Match -> 0..2] /\ alerts'[m] > 0
          /\ \A n \in Match : alerts[n] > 0 => alerts'[n] > 0
      BY <2>1, CountFacts
    <2>3. QED
      BY <1>a, <2>1, <2>2
  <1>7. ASSUME NEW h \in Post, CreateAlertFails(h)  PROVE AlertInv'
    <2>1. /\ pc[h] = "record" /\ MayFail(h)
          /\ todo' = [todo EXCEPT ![h] = {}]
          /\ pc' = [pc EXCEPT ![h] = "ok"]
          /\ UNCHANGED <<emitted, spool, posts, live, batch, current, rules, stored,
                         notified, due, raised, stale, offlineAlerted, selected, giveUps>>
      BY <1>7 DEF CreateAlertFails, Goes, agentVars, machineVars
    <2>2. /\ alerts' \in [Match -> 0..2]
          /\ \A n \in Match : alerts[n] > 0 => alerts'[n] > 0
      <3>1. todo[h] \in SUBSET Match
        OBVIOUS
      <3>2. alerts' = alerts \/ \E m \in Match : alerts' = Count(alerts, m)
        BY <1>7, <3>1 DEF CreateAlertFails, NextMatches
      <3>3. QED
        BY <3>2, CountFacts
    <2>3. AlertTypeOK' /\ DueKnown'
      <3>1. dbErrors' \in {dbErrors, dbErrors + 1}
        BY <2>1 DEF MayFail, DbError
      <3>2. QED
        BY <1>a, <2>1, <2>2, <3>1
    <2>4. (dbErrors = 0 => InHand)'
      <3>1. CASE h \in live
        BY <2>1, <3>1 DEF MayFail, DbError
      <3>2. CASE h \notin live
        BY <2>1, <2>2, <3>2 DEF MayFail
      <3>3. QED
        BY <3>1, <3>2
    <2>5. AcknowledgedMeansAlerted'
      BY <2>1, <2>2 DEF MayFail, DbError
    <2>6. QED
      BY <2>3, <2>4, <2>5
  <1>8. ASSUME NEW h \in Post, ProcessEnds(h)  PROVE AlertInv'
    BY <1>a, <1>8 DEF ProcessEnds, Goes, agentVars, alertVars, machineVars
  <1>9. ASSUME NEW h \in Post, Notify(h)  PROVE AlertInv'
    <2>1. /\ pc[h] = "notify"
          /\ current' = [current EXCEPT ![h] = {}]
          /\ pc' = [pc EXCEPT ![h] = "record"]
          /\ UNCHANGED <<emitted, spool, posts, live, batch, todo, rules, stored, alerts,
                         due, raised, stale, offlineAlerted, selected, giveUps, dbErrors>>
      BY <1>9 DEF Notify, Goes, agentVars, machineVars
    <2>2. notified' \in [Match -> 0..2]
      <3>1. current[h] \in SUBSET Match
        OBVIOUS
      <3>2. notified' = notified \/ \E m \in Match : notified' = Count(notified, m)
        BY <1>9, <3>1 DEF Notify
      <3>3. QED
        BY <3>2, CountFacts
    <2>3. QED
      BY <1>a, <2>1, <2>2
  <1>10. ASSUME NEW h \in Post, Answer(h)  PROVE AlertInv'
    <2>1. /\ live' = live \ {h}
          /\ pc' = [pc EXCEPT ![h] = "done"]
          /\ UNCHANGED <<emitted, posts, batch, todo, current, rules, stored, alerts,
                         notified, due, raised, stale, offlineAlerted, selected, giveUps,
                         dbErrors>>
      BY <1>10 DEF Answer, Goes, alertVars, machineVars
    <2>2. StoredFirst' /\ pc' \in [Post -> Step] /\ live' \subseteq live
      BY <2>1
    <2>3. spool' = IF Acknowledges(h) THEN spool \ batch[h] ELSE spool
      BY <1>10 DEF Answer
    <2>4. AlertTypeOK' /\ DueKnown'
      <3>1. spool' \subseteq 1..emitted
        BY <2>3
      <3>2. QED
        BY <1>a, <2>1, <2>2, <3>1
    <2>5. (dbErrors = 0 => InHand)'
      BY <2>1
    <2>6. AcknowledgedMeansAlerted'
      <3>1. CASE Acknowledges(h)
        <4>1. h \in live /\ pc[h] = "ok" /\ spool' = spool \ batch[h]
          BY <2>3, <3>1 DEF Acknowledges
        <4>2. dbErrors = 0 => \A m \in due : m[1] \in batch[h] => alerts[m] > 0
          BY <4>1
        <4>3. QED
          BY <2>1, <4>1, <4>2
      <3>2. CASE ~Acknowledges(h)
        BY <2>1, <2>3, <3>2
      <3>3. QED
        BY <3>1, <3>2
    <2>7. QED
      BY <2>4, <2>5, <2>6
  <1>11. ASSUME NEW r \in Rule, CreateAlertRule(r)  PROVE AlertInv'
    <2>1. /\ rules' = rules \union {r} /\ rules' \in SUBSET Rule
          /\ UNCHANGED <<emitted, spool, posts, pc, live, batch, todo, current, stored,
                         alerts, notified, due, raised, stale, offlineAlerted, selected,
                         giveUps, dbErrors>>
      BY <1>11 DEF CreateAlertRule, agentVars, requestVars, alertVars, machineVars
    <2>2. Evaluate(Event, rules) \subseteq Evaluate(Event, rules')
      BY ONLY <2>1 DEF Evaluate
    <2>3. QED
      BY <1>a, <2>1, <2>2
  <1>12. CASE MachineStep
    <2>1. /\ raised' \subseteq {"agent_health", "agent_offline"}
          /\ UNCHANGED <<agentVars, requestVars, rules, stored, alertVars, due, giveUps,
                         dbErrors>>
      BY <1>12 DEF MachineStep, Heartbeat, GoStale, SweepSelects, SweepRaises
    <2>2. FlagsOK'
      BY <1>12 DEF FlagsOK, MachineStep, Heartbeat, GoStale, SweepSelects, SweepRaises
    <2>3. QED
      BY <2>1, <2>2 DEF agentVars, requestVars, alertVars
  <1>13. CASE UNCHANGED alertingVars
    BY <1>a, <1>13 DEF alertingVars, agentVars, requestVars, alertVars, machineVars
  <1>14. QED
    BY <1>1, <1>2, <1>3, <1>4, <1>5, <1>6, <1>7, <1>8, <1>9, <1>10, <1>11, <1>12, <1>13
    DEF AlertNext, HandlerStep

-----------------------------------------------------------------------------
(* The inductive invariant holds in every behaviour.                       *)
THEOREM AlertInvariance == AlertSpec => []AlertInv
  <1>1. AlertInv /\ [AlertNext]_alertingVars => AlertInv'
    BY AlertStepInv
  <1>2. QED
    BY AlertInitInv, <1>1, PTL DEF AlertSpec

(* Type correctness; only matches of stored events with existing rules are *)
(* recorded and forwarded.                                                 *)
THEOREM AlertTypes == AlertSpec => []AlertTypeOK
  <1>1. AlertInv => AlertTypeOK
    BY DEF AlertInv
  <1>2. QED
    BY AlertInvariance, <1>1, PTL

(* Without database errors, what was dropped from the spool was alerted.   *)
THEOREM AlertedAtLeastOnce == AlertSpec => []AcknowledgedMeansAlerted
  <1>1. AlertInv => AcknowledgedMeansAlerted
    BY DEF AlertInv
  <1>2. QED
    BY AlertInvariance, <1>1, PTL
==============================================================================
