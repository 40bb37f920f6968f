--------------------------- MODULE CollectorHealth ---------------------------
(***************************************************************************)
(* Supervision of the collectors of one machine, and what the server is    *)
(* told of it.  The service and the session helper each run generations of *)
(* collectors, one goroutine per collector, and keep a health registry     *)
(* (agent/internal/runner: runner.go, session.go, health.go); the helper   *)
(* publishes its registry in session.json, the service merges both into    *)
(* its heartbeat, the server reconciles the report with the data it has    *)
(* received (server/internal/api/handlers_agent.go).                       *)
(*                                                                         *)
(* The user of the session has consented and every collector is enabled:   *)
(* ConsentGate is about the rest.                                          *)
(***************************************************************************)
EXTENDS Naturals

CONSTANTS
  Collector,         \* names of the collectors
  SessionCollector,  \* those the session helper runs; the service runs the others
  MaxGen,            \* bound: generations of collectors of each process
  MaxChanges,        \* bound: policy changes and restart commands
  MaxFaults          \* bound: failures, helper kills, lost heartbeats

ASSUME HealthAssumption ==
  /\ SessionCollector \subseteq Collector
  /\ MaxGen \in Nat \ {0}
  /\ MaxChanges \in Nat
  /\ MaxFaults \in Nat

VARIABLES
  active,      \* the policy the service has is active (also in runtime.json)
  tag,         \* version and restart nonce in runtime.json, as one number
  gen,         \* the latest generation of each process
  inst,        \* the goroutine of each collector in each generation
  registry,    \* the entry of each collector in its process' registry
  helper,      \* the session helper: "off", "idle", "running" a generation
  helperTag,   \* the tag its generation was started with
  published,   \* the collectors in session.json
  fresh,       \* session.json is younger than sessionStaleAfter
  reports,     \* the heartbeat on its way, if any: the collectors in it
  health,      \* machines.collectors on the server
  recent,      \* session collectors with data of the last 20 minutes
  faults

collectorVars == <<gen, inst, registry>>
helperVars    == <<helper, helperTag, published, fresh>>
serverVars    == <<reports, health, recent>>
vars == <<active, tag, collectorVars, helperVars, serverVars, faults>>

Process == {"service", "session"}
Host(c) == IF c \in SessionCollector THEN "session" ELSE "service"

Generation == 1..MaxGen

\* The process has a generation whose context is not cancelled.
Live(p) == IF p = "service" THEN active ELSE helper = "running"

CtxLive(c, g) == g = gen[Host(c)] /\ Live(Host(c))

(* "created": the goroutine has not reached Start yet; "failed": Start     *)
(* returned an error; "flagging": and ctx.Err() was nil; "crashed": and    *)
(* the registry was told; "ended": gone without a word.                    *)
Goroutine == {"none", "created", "running", "failed", "flagging", "crashed", "ended"}
Status    == {"absent", "up", "down"}

\* Every collector of a live generation is listed in the registry.
TypeOK ==
  /\ active \in BOOLEAN /\ tag \in Nat
  /\ gen \in [Process -> 0..MaxGen]
  /\ inst \in [Collector -> [Generation -> Goroutine]]
  /\ registry \in [Collector -> Status]
  /\ \A c \in Collector : Live(Host(c)) => registry[c] # "absent"
  /\ helper \in {"off", "idle", "running"} /\ helperTag \in Nat
  /\ published \in [SessionCollector -> Status]
  /\ fresh \in BOOLEAN
  /\ reports \subseteq [Collector -> Status]
  /\ health \in [Collector -> Status]
  /\ recent \subseteq SessionCollector
  /\ faults \in Nat

Init ==
  /\ active = FALSE /\ tag = 0
  /\ gen = [p \in Process |-> 0]
  /\ inst = [c \in Collector |-> [g \in Generation |-> "none"]]
  /\ registry = [c \in Collector |-> "absent"]
  /\ helper = "off" /\ helperTag = 0
  /\ published = [c \in SessionCollector |-> "absent"] /\ fresh = FALSE
  /\ reports = {}
  /\ health = [c \in Collector |-> "absent"]
  /\ recent = {}
  /\ faults = 0

Fault ==
  /\ faults < MaxFaults
  /\ faults' = faults + 1

(***************************************************************************)
(* Generations.                                                            *)
(***************************************************************************)

ResetRegistry(p) ==
  registry' = [c \in Collector |-> IF Host(c) = p THEN "absent" ELSE registry[c]]

(* reset, then set(true) and a goroutine per collector.  One step: a late  *)
(* set(false) of an older goroutine that lands in the middle is undone by  *)
(* the set(true) of the same name, as if it had come before.               *)
StartCollectors(p) ==
  /\ gen[p] < MaxGen
  /\ gen' = [gen EXCEPT ![p] = @ + 1]
  /\ inst' = [c \in Collector |->
       IF Host(c) = p THEN [inst[c] EXCEPT ![gen[p] + 1] = "created"] ELSE inst[c]]
  /\ registry' = [c \in Collector |-> IF Host(c) = p THEN "up" ELSE registry[c]]

Change ==
  /\ tag < MaxChanges
  /\ tag' = tag + 1

\* "restart" in a heartbeat's answer: cancel, start again if active, bump the nonce.
RestartCommand ==
  /\ Change
  /\ IF active THEN StartCollectors("service") ELSE UNCHANGED collectorVars
  /\ UNCHANGED <<active, helperVars, serverVars, faults>>

\* The first policy, or another version or active state at a policy poll.
PolicyChange ==
  /\ Change
  /\ active' \in BOOLEAN
  /\ IF active'
       THEN StartCollectors("service")
       ELSE ResetRegistry("service") /\ UNCHANGED <<gen, inst>>
  /\ UNCHANGED <<helperVars, serverVars, faults>>

(***************************************************************************)
(* The goroutine of collector c in generation g.                           *)
(***************************************************************************)

Becomes(c, g, s) == inst' = [inst EXCEPT ![c][g] = s]

\* Mutant: the goroutine itself marks the collector as running.
BeginMarksUp(c, g) ==
  /\ inst[c][g] = "created"
  /\ Becomes(c, g, "running")
  /\ registry' = [registry EXCEPT ![c] = "up"]
  /\ UNCHANGED <<active, tag, gen, helperVars, serverVars, faults>>

Begin(c, g) ==
  /\ inst[c][g] = "created"
  /\ Becomes(c, g, "running")
  /\ UNCHANGED <<active, tag, gen, registry, helperVars, serverVars, faults>>

\* Start returns while nobody asked it to: an error, or nil when the events' channel closed.
Fails(c, g) ==
  /\ Fault
  /\ inst[c][g] = "running" /\ CtxLive(c, g)
  /\ \E s \in {"failed", "ended"} : Becomes(c, g, s)
  /\ UNCHANGED <<active, tag, gen, registry, helperVars, serverVars>>

\* Start returns because its context was cancelled, perhaps in the middle of a set-up.
WindsDown(c, g) ==
  /\ inst[c][g] = "running" /\ ~CtxLive(c, g)
  /\ \E s \in {"failed", "ended"} : Becomes(c, g, s)
  /\ UNCHANGED <<active, tag, gen, registry, helperVars, serverVars, faults>>

CheckContext(c, g) ==
  /\ inst[c][g] = "failed"
  /\ Becomes(c, g, IF CtxLive(c, g) THEN "flagging" ELSE "ended")
  /\ UNCHANGED <<active, tag, gen, registry, helperVars, serverVars, faults>>

\* hr.set(name, false): by now the registry may be another generation's.
MarkDown(c, g) ==
  /\ inst[c][g] = "flagging"
  /\ Becomes(c, g, "crashed")
  /\ registry' = [registry EXCEPT ![c] = "down"]
  /\ UNCHANGED <<active, tag, gen, helperVars, serverVars, faults>>

(***************************************************************************)
(* The session helper.                                                     *)
(***************************************************************************)

StartHelper ==
  /\ helper = "off"
  /\ helper' = "idle"
  /\ published' = [c \in SessionCollector |-> "absent"] /\ fresh' = TRUE
  /\ UNCHANGED <<active, tag, collectorVars, helperTag, serverVars, faults>>

SamePolicy == helper = "running" /\ active /\ helperTag = tag

\* Every 20 s: session.json is written, runtime.json read.
HelperKeeps ==
  /\ SamePolicy
  /\ published' = [c \in SessionCollector |-> registry[c]] /\ fresh' = TRUE
  /\ UNCHANGED <<active, tag, collectorVars, helper, helperTag, serverVars, faults>>

\* A generation starts, after the one that has just been cancelled if there was one.
HelperStarts ==
  /\ helper # "off" /\ active /\ ~SamePolicy
  /\ StartCollectors("session")
  /\ helper' = "running" /\ helperTag' = tag
  /\ published' = [c \in SessionCollector |-> "up"] /\ fresh' = TRUE
  /\ UNCHANGED <<active, tag, serverVars, faults>>

\* session.json is written before the registry is reset.
HelperIdles ==
  /\ helper # "off" /\ ~active
  /\ published' = [c \in SessionCollector |-> registry[c]] /\ fresh' = TRUE
  /\ ResetRegistry("session")
  /\ helper' = "idle"
  /\ UNCHANGED <<active, tag, gen, inst, helperTag, serverVars, faults>>

\* The process goes, with its goroutines and its registry; session.json stays.
HelperDies ==
  /\ Fault
  /\ helper # "off"
  /\ helper' = "off"
  /\ inst' = [c \in Collector |-> IF Host(c) = "session"
       THEN [g \in Generation |-> IF inst[c][g] = "none" THEN "none" ELSE "ended"]
       ELSE inst[c]]
  /\ ResetRegistry("session")
  /\ UNCHANGED <<active, tag, gen, helperTag, published, fresh, serverVars>>

SessionGoesStale ==
  /\ helper = "off" /\ fresh
  /\ fresh' = FALSE
  /\ UNCHANGED <<active, tag, collectorVars, helper, helperTag, published, serverVars, faults>>

(***************************************************************************)
(* Heartbeats.                                                             *)
(***************************************************************************)

\* Mutant: session.json is believed however old it is.
SessionStatusAnyAge(c) == published[c]

SessionStatus(c) == IF fresh THEN published[c] ELSE "down"

mergedCollectorHealth ==
  [c \in Collector |->
     IF c \notin SessionCollector THEN registry[c]
     ELSE IF active THEN SessionStatus(c) ELSE "absent"]

SendHeartbeat ==
  /\ reports = {}
  /\ reports' = {mergedCollectorHealth}
  /\ UNCHANGED <<active, tag, collectorVars, helperVars, health, recent, faults>>

\* Mutant: any report of a collector whose data once arrived is taken as up.
ReconciledWithOld(r, c) ==
  IF r[c] = "down" /\ c \in SessionCollector /\ health[c] = "up" THEN "up" ELSE r[c]

\* HasRecentCollectorData knows the session collectors only.
Reconciled(r, c) == IF r[c] = "down" /\ c \in recent THEN "up" ELSE r[c]

\* A report without collectors leaves the record as it was.
HandleReport(r) ==
  /\ health' = IF \A c \in Collector : r[c] = "absent" THEN health
               ELSE [c \in Collector |-> Reconciled(r, c)]
  /\ reports' = reports \ {r}
  /\ UNCHANGED <<active, tag, collectorVars, helperVars, recent, faults>>

LoseReport(r) ==
  /\ Fault
  /\ reports' = reports \ {r}
  /\ UNCHANGED <<active, tag, collectorVars, helperVars, health, recent>>

DataArrives(c) ==
  /\ \E g \in Generation : inst[c][g] = "running"
  /\ recent' = recent \union {c}
  /\ UNCHANGED <<active, tag, collectorVars, helperVars, reports, health, faults>>

DataAges(c) ==
  /\ c \in recent
  /\ recent' = recent \ {c}
  /\ UNCHANGED <<active, tag, collectorVars, helperVars, reports, health, faults>>

GoroutineStep ==
  \E c \in Collector, g \in Generation :
    \/ Begin(c, g) \/ Fails(c, g) \/ WindsDown(c, g)
    \/ CheckContext(c, g) \/ MarkDown(c, g)

HelperStep ==
  \/ StartHelper \/ HelperKeeps \/ HelperStarts \/ HelperIdles
  \/ HelperDies \/ SessionGoesStale

ServerStep ==
  \/ SendHeartbeat
  \/ \E r \in reports : HandleReport(r) \/ LoseReport(r)
  \/ \E c \in SessionCollector : DataArrives(c) \/ DataAges(c)

Next == RestartCommand \/ PolicyChange \/ GoroutineStep \/ HelperStep \/ ServerStep

Spec == Init /\ [][Next]_vars

(* Tickers fire, goroutines run, time passes.  Nobody need start a helper, *)
(* change the policy or produce data.                                      *)
Fairness ==
  /\ WF_vars(SendHeartbeat)
  /\ WF_vars(\E r \in reports : HandleReport(r))
  /\ WF_vars(HelperKeeps \/ HelperStarts \/ HelperIdles)
  /\ WF_vars(SessionGoesStale)
  /\ \A c \in SessionCollector : WF_vars(DataAges(c))
  /\ \A c \in Collector, g \in Generation :
       WF_vars(Begin(c, g) \/ WindsDown(c, g) \/ CheckContext(c, g) \/ MarkDown(c, g))

FairSpec == Spec /\ Fairness

-----------------------------------------------------------------------------
(***************************************************************************)
(* Properties.                                                             *)
(***************************************************************************)

(* A crash of the current generation stays in the registry until the next  *)
(* generation: no goroutine, late or of an older generation, marks the     *)
(* collector as running again (startCollectors).                           *)
CrashRecorded ==
  \A c \in Collector, g \in Generation :
    inst[c][g] = "crashed" /\ CtxLive(c, g) => registry[c] = "down"

(* Restarts and policy changes alone never make a collector look crashed,  *)
(* whatever the cancelled goroutines return; the server may then show a    *)
(* session collector as down, but only for want of a helper.               *)
RestartsAreQuiet ==
  faults = 0 => \A c \in Collector :
    /\ registry[c] # "down"
    /\ health[c] = "down" => c \in SessionCollector

(* A crash reaches the server's record, through session.json, its age, the *)
(* heartbeat and the reconciliation, unless the generation is over.        *)
CrashSurfaces ==
  \A c \in Collector, g \in Generation :
    inst[c][g] = "crashed" ~> health[c] = "down" \/ ~CtxLive(c, g)

(* A closed or killed session helper is noticed: its last session.json and *)
(* the data it sent do not hide it for ever (mergedCollectorHealth).       *)
DeadHelperSurfaces ==
  \A c \in SessionCollector :
    <>[](helper = "off" /\ active) => <>[](health[c] = "down")
=============================================================================
