------------------------------- MODULE Alerting -------------------------------
(***************************************************************************)
(* How alerts come about on the server.  An ingested batch is stored, then *)
(* matched against the enabled rules inside the same request               *)
(* (server/internal/api/handlers_agent.go, alert/alert.go); every match is *)
(* recorded and forwarded to a webhook (store/alerts.go, notify).  Once    *)
(* the agent has given up on a request, its context is cancelled and each  *)
(* of these steps may fail.  Two more sources raise alerts of their own:   *)
(* collector reports in heartbeats, and the sweep for machines that have   *)
(* stopped reporting (store/machines.go, cmd/server).                      *)
(*                                                                         *)
(* One machine.  Events are numbered in the order in which they were       *)
(* spooled.  A batch is the whole spool: its limits belong to              *)
(* EventPipeline.                                                          *)
(***************************************************************************)
EXTENDS Naturals, FiniteSets

CONSTANTS
  MaxEvents,    \* bound: events the machine spools
  Rule,         \* ids of alert_rules rows
  EventKind,    \* the kind of each event
  RuleKind,     \* the kind of each rule
  Hits,         \* the <<event, rule>> pairs whose data satisfy the rule's condition
  MaxGiveUps,   \* bound: ingest requests the agent gives up on
  MaxDbErrors   \* bound: errors of the database

Event == 1..MaxEvents

\* Each request acknowledges an event, is given up on, or meets an error.
MaxPosts == MaxEvents + MaxGiveUps + MaxDbErrors
Post     == 1..MaxPosts

ASSUME AlertAssumption ==
  /\ MaxEvents \in Nat /\ MaxGiveUps \in Nat /\ MaxDbErrors \in Nat
  /\ Hits \subseteq Event \X Rule
  /\ {"agent_health", "agent_offline"} \intersect Rule = {}

VARIABLES
  emitted,      \* events spooled so far
  spool,        \* events the agent has not seen acknowledged
  posts,        \* ingest requests so far
  pc,           \* how far the server is with each of them
  live,         \* the requests the agent waits for
  batch,        \* the events of each request
  todo,         \* the matches a request has still to record
  current,      \* the match a request is forwarding
  rules,        \* alert_rules
  stored,       \* events in the database
  alerts,       \* rows of alerts for each match: 0, 1, 2 = more than one
  notified,     \* webhook calls that went out for each match, counted likewise
  due,          \* matches of a batch at the moment it was posted (history)
  raised,       \* the agent alerts among the rows of alerts
  stale,        \* last_seen is older than 15 minutes
  offlineAlerted, \* machines.offline_alerted
  selected,     \* the running sweep has read the machine as one to alert on
  giveUps, dbErrors

agentVars   == <<emitted, spool>>
requestVars == <<posts, pc, live, batch, todo, current>>
alertVars   == <<alerts, notified>>
machineVars == <<raised, stale, offlineAlerted, selected>>
alertingVars == <<agentVars, requestVars, rules, stored, alertVars, due, machineVars,
                  giveUps, dbErrors>>

Match == Event \X Rule
Step  == {"none", "insert", "load", "record", "notify", "ok", "err", "done"}

\* Only matches of stored events with existing rules are recorded and forwarded.
StoredFirst ==
  \A h \in Post :
    /\ pc[h] = "load" => \A e \in batch[h] : e \in stored
    /\ \A m \in todo[h] \union current[h] : m[1] \in stored /\ m[2] \in rules

FlagsOK == stale \in BOOLEAN /\ offlineAlerted \in BOOLEAN /\ selected \in BOOLEAN

AlertTypeOK ==
  /\ emitted \in 0..MaxEvents
  /\ spool \subseteq 1..emitted
  /\ posts \in 0..MaxPosts
  /\ pc \in [Post -> Step]
  /\ live \subseteq 1..posts
  /\ batch \in [Post -> SUBSET Event]
  /\ todo \in [Post -> SUBSET Match]
  /\ current \in [Post -> SUBSET Match]
  /\ rules \subseteq Rule
  /\ stored \subseteq Event
  /\ alerts \in [Match -> 0..2]
  /\ notified \in [Match -> 0..2]
  /\ due \subseteq Match
  /\ raised \subseteq {"agent_health", "agent_offline"}
  /\ FlagsOK
  /\ giveUps \in Nat /\ dbErrors \in Nat
  /\ StoredFirst

AlertInit ==
  /\ emitted = 0 /\ spool = {}
  /\ posts = 0 /\ live = {}
  /\ pc = [h \in Post |-> "none"]
  /\ batch = [h \in Post |-> {}]
  /\ todo = [h \in Post |-> {}]
  /\ current = [h \in Post |-> {}]
  /\ rules = {} /\ stored = {}
  /\ alerts = [m \in Match |-> 0] /\ notified = [m \in Match |-> 0]
  /\ due = {} /\ raised = {}
  /\ stale = FALSE /\ offlineAlerted = FALSE /\ selected = FALSE
  /\ giveUps = 0 /\ dbErrors = 0

DbError ==
  /\ dbErrors < MaxDbErrors
  /\ dbErrors' = dbErrors + 1

\* One more row or call, counted up to "more than one".
Count(f, m) == [f EXCEPT ![m] = IF @ < 2 THEN @ + 1 ELSE @]

(***************************************************************************)
(* Evaluate: the event kind each kind of rule watches, and its condition.  *)
(***************************************************************************)

Watches ==
  [domain_blocklist |-> "dns",        large_upload |-> "netflow",
   app_blocklist    |-> "foreground", dlp_keyword  |-> "download",
   usb_insert       |-> "usb",        failed_logon |-> "seclog",
   new_install      |-> "install"]

\* A new install needs no further condition; an unknown kind of rule never matches.
Matches(e, r) ==
  /\ RuleKind[r] \in DOMAIN Watches
  /\ EventKind[e] = Watches[RuleKind[r]]
  /\ RuleKind[r] = "new_install" \/ <<e, r>> \in Hits

Evaluate(E, R) == {m \in E \X R : Matches(m[1], m[2])}

(***************************************************************************)
(* The agent.                                                              *)
(***************************************************************************)

Emit ==
  /\ emitted < MaxEvents
  /\ emitted' = emitted + 1
  /\ spool' = spool \union {emitted + 1}
  /\ UNCHANGED <<requestVars, rules, stored, alertVars, due, machineVars,
                 giveUps, dbErrors>>

Ingest ==
  /\ spool # {} /\ live = {} /\ posts < MaxPosts
  /\ posts' = posts + 1
  /\ live' = {posts + 1}
  /\ pc' = [pc EXCEPT ![posts + 1] = "insert"]
  /\ batch' = [batch EXCEPT ![posts + 1] = spool]
  /\ due' = due \union Evaluate(spool, rules)
  /\ UNCHANGED <<agentVars, todo, current, rules, stored, alertVars, machineVars,
                 giveUps, dbErrors>>

\* The request timed out or its connection broke: its files stay.
GiveUp(h) ==
  /\ giveUps < MaxGiveUps /\ giveUps' = giveUps + 1
  /\ h \in live
  /\ live' = live \ {h}
  /\ UNCHANGED <<agentVars, posts, pc, batch, todo, current, rules, stored, alertVars,
                 due, machineVars, dbErrors>>

(***************************************************************************)
(* The handler of an ingest request.  A database call fails at a fault, or *)
(* when the request is no longer live and its context is cancelled; a call *)
(* that fails may have taken effect.                                       *)
(***************************************************************************)

MayFail(h) == IF h \in live THEN DbError ELSE UNCHANGED dbErrors

Goes(h, step) == pc' = [pc EXCEPT ![h] = step]

InsertEvents(h) ==
  /\ pc[h] = "insert"
  /\ \/ /\ stored' = stored \union batch[h]
        /\ Goes(h, "load")
        /\ UNCHANGED dbErrors
     \/ /\ MayFail(h)
        /\ Goes(h, "err")
        /\ \/ UNCHANGED stored
           \/ stored' = stored \union batch[h]
  /\ UNCHANGED <<agentVars, posts, live, batch, todo, current, rules, alertVars, due,
                 machineVars, giveUps>>

\* ListAlertRules, once per batch; without rules, or on an error, nothing is matched.
LoadRules(h) ==
  /\ pc[h] = "load"
  /\ \/ /\ todo' = [todo EXCEPT ![h] = Evaluate(batch[h], rules)]
        /\ Goes(h, "record")
        /\ UNCHANGED dbErrors
     \/ /\ MayFail(h)
        /\ Goes(h, "ok")
        /\ UNCHANGED todo
  /\ UNCHANGED <<agentVars, posts, live, batch, current, rules, stored, alertVars, due,
                 machineVars, giveUps>>

\* Events in the order of the batch, the rules of one event in any order.
NextMatches(h) == {m \in todo[h] : \A n \in todo[h] : m[1] <= n[1]}

CreateAlert(h, m) ==
  /\ pc[h] = "record" /\ m \in NextMatches(h)
  /\ alerts' = Count(alerts, m)
  /\ todo' = [todo EXCEPT ![h] = @ \ {m}]
  /\ current' = [current EXCEPT ![h] = {m}]
  /\ Goes(h, "notify")
  /\ UNCHANGED <<agentVars, posts, live, batch, rules, stored, notified, due,
                 machineVars, giveUps, dbErrors>>

\* Process returns at the first alert it cannot record; the batch is accepted all the same.
CreateAlertFails(h) ==
  /\ pc[h] = "record" /\ todo[h] # {}
  /\ MayFail(h)
  /\ \/ UNCHANGED alerts
     \/ \E m \in NextMatches(h) : alerts' = Count(alerts, m)
  /\ Goes(h, "ok")
  /\ todo' = [todo EXCEPT ![h] = {}]
  /\ UNCHANGED <<agentVars, posts, live, batch, current, rules, stored, notified, due,
                 machineVars, giveUps>>

ProcessEnds(h) ==
  /\ pc[h] = "record" /\ todo[h] = {}
  /\ Goes(h, "ok")
  /\ UNCHANGED <<agentVars, posts, live, batch, todo, current, rules, stored, alertVars,
                 due, machineVars, giveUps, dbErrors>>

\* Mutant: Process returns when the webhook does not take an alert.
NotifyOrReturn(h) ==
  /\ pc[h] = "notify"
  /\ \/ \E m \in current[h] : notified' = Count(notified, m) /\ UNCHANGED todo
        /\ Goes(h, "record")
     \/ /\ UNCHANGED notified
        /\ todo' = [todo EXCEPT ![h] = {}]
        /\ Goes(h, "ok")
  /\ current' = [current EXCEPT ![h] = {}]
  /\ UNCHANGED <<agentVars, posts, live, batch, rules, stored, alerts, due,
                 machineVars, giveUps, dbErrors>>

\* The webhook takes the alert or not; nobody looks.
Notify(h) ==
  /\ pc[h] = "notify"
  /\ \/ \E m \in current[h] : notified' = Count(notified, m)
     \/ UNCHANGED notified
  /\ current' = [current EXCEPT ![h] = {}]
  /\ Goes(h, "record")
  /\ UNCHANGED <<agentVars, posts, live, batch, todo, rules, stored, alerts, due,
                 machineVars, giveUps, dbErrors>>

Acknowledges(h) == h \in live /\ pc[h] = "ok"

Answer(h) ==
  /\ pc[h] \in {"ok", "err"}
  /\ spool' = IF Acknowledges(h) THEN spool \ batch[h] ELSE spool
  /\ live' = live \ {h}
  /\ Goes(h, "done")
  /\ UNCHANGED <<emitted, posts, batch, todo, current, rules, stored, alertVars, due,
                 machineVars, giveUps, dbErrors>>

(***************************************************************************)
(* Rules, collector reports and the sweep.                                 *)
(***************************************************************************)

CreateAlertRule(r) ==
  /\ r \notin rules
  /\ rules' = rules \union {r}
  /\ UNCHANGED <<agentVars, requestVars, stored, alertVars, due, machineVars,
                 giveUps, dbErrors>>

\* alerts.rule_id is a UUID that refers to alert_rules: the database refuses other ids.
Recorded(id) == id \in rules

\* newlyDown: a collector is down that was not in the last report (CollectorHealth).
Heartbeat(newlyDown) ==
  /\ stale' = FALSE /\ offlineAlerted' = FALSE
  /\ raised' = IF newlyDown /\ Recorded("agent_health")
                 THEN raised \union {"agent_health"} ELSE raised
  /\ UNCHANGED <<agentVars, requestVars, rules, stored, alertVars, due, selected,
                 giveUps, dbErrors>>

GoStale ==
  /\ stale' = TRUE
  /\ UNCHANGED <<agentVars, requestVars, rules, stored, alertVars, due, raised,
                 offlineAlerted, selected, giveUps, dbErrors>>

SweepSelects ==
  /\ ~selected /\ stale /\ ~offlineAlerted
  /\ selected' = TRUE
  /\ UNCHANGED <<agentVars, requestVars, rules, stored, alertVars, due, raised, stale,
                 offlineAlerted, giveUps, dbErrors>>

\* offline_alerted is set only after the alert was recorded.
SweepRaises ==
  /\ selected /\ selected' = FALSE
  /\ IF Recorded("agent_offline")
       THEN /\ raised' = raised \union {"agent_offline"}
            /\ offlineAlerted' = TRUE
       ELSE UNCHANGED <<raised, offlineAlerted>>
  /\ UNCHANGED <<agentVars, requestVars, rules, stored, alertVars, due, stale,
                 giveUps, dbErrors>>

HandlerStep(h) ==
  \/ InsertEvents(h) \/ LoadRules(h) \/ CreateAlertFails(h) \/ ProcessEnds(h)
  \/ Notify(h) \/ Answer(h)
  \/ \E m \in Match : CreateAlert(h, m)

MachineStep ==
  \/ \E newlyDown \in BOOLEAN : Heartbeat(newlyDown)
  \/ GoStale \/ SweepSelects \/ SweepRaises

AlertNext ==
  \/ Emit \/ Ingest
  \/ \E h \in Post : GiveUp(h) \/ HandlerStep(h)
  \/ \E r \in Rule : CreateAlertRule(r)
  \/ MachineStep

AlertSpec == AlertInit /\ [][AlertNext]_alertingVars

(* The agent's drain and the sweep are tickers; the handler of a request    *)
(* the agent waits for runs to its end.                                    *)
AlertFairness ==
  /\ WF_alertingVars(Ingest)
  /\ WF_alertingVars(\E h \in live : HandlerStep(h))
  /\ WF_alertingVars(SweepSelects) /\ WF_alertingVars(SweepRaises)

AlertFairSpec == AlertSpec /\ AlertFairness

-----------------------------------------------------------------------------
(***************************************************************************)
(* Properties.                                                             *)
(***************************************************************************)

(* At-least-once alerting: without database errors, an event the agent has *)
(* dropped has an alert for each rule that it matched when it was posted,  *)
(* whatever requests were given up and cancelled half-way (handleIngest    *)
(* answers only after Process).                                            *)
AcknowledgedMeansAlerted ==
  dbErrors = 0 => \A m \in due : m[1] \notin spool => alerts[m] > 0

(* Every match of a posted batch is recorded in the end, and every event   *)
(* dropped from the spool, as long as the database has no errors.          *)
EventuallyAlerted ==
  /\ \A m \in Match : m \in due ~> alerts[m] > 0 \/ dbErrors > 0
  /\ \A e \in Event : e \in spool ~> e \notin spool

(* "periodically raises an alert for machines that have stopped            *)
(* heartbeating" (cmd/server, runOfflineSweep).                            *)
OfflineIsAlerted == <>[]stale => <>("agent_offline" \in raised)
=============================================================================
