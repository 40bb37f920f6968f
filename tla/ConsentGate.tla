----------------------------- MODULE ConsentGate -----------------------------
(***************************************************************************)
(* The consent gate of one machine.  The session helper of the logged-on   *)
(* user asks for consent, remembers it in a marker file and publishes it   *)
(* in session.json; the service reports it in heartbeats; the server       *)
(* records it and decides in EffectivePolicy whether the policy is active; *)
(* the service runs its collectors and hands the policy back to the helper *)
(* in runtime.json (agent/internal/runner, server/internal/api and store). *)
(***************************************************************************)
EXTENDS Naturals

CONSTANTS
  User,        \* users who may log on to the machine
  NoUser,      \* the empty user name
  Marker,      \* file name of a user's consent marker (sanitizeUser), perhaps shared
  MaxLogins,   \* bound: sessions that may start
  MaxFaults    \* bound: service crashes and lost heartbeats

ASSUME ConsentAssumption ==
  /\ NoUser \notin User
  /\ DOMAIN Marker = User
  /\ MaxLogins \in Nat
  /\ MaxFaults \in Nat

VARIABLES
  console,     \* the logged-on user, whose session helper runs
  helper,      \* where the helper stands: "off", "prompt", "declined", "ready", "collecting"
  markers,     \* consent markers on disk
  accepted,    \* users who clicked "I accept" (history)
  session,     \* session.json, written by the helper
  runtime,     \* runtime.json, written by the service
  svc,         \* the service: "down", "starting", "idle", "collecting"
  answer,      \* the policy the server has answered and the service not applied
  heartbeats,  \* heartbeats on their way to the server
  assigned,    \* machines.assigned_user
  clicked,     \* users with a consent record made from a heartbeat
  recorded,    \* users with a consent record made by an administrator
  logins, faults

agentVars  == <<console, helper, markers, accepted, session, runtime>>
serverVars == <<assigned, clicked, recorded>>
vars == <<agentVars, svc, answer, heartbeats, serverVars, logins, faults>>

Report == [user : User \union {NoUser}, consented : BOOLEAN]

TypeOK ==
  /\ console \in User \union {NoUser}
  /\ helper \in {"off", "prompt", "declined", "ready", "collecting"}
  /\ helper = "off" <=> console = NoUser
  /\ markers \subseteq {Marker[u] : u \in User}
  /\ accepted \subseteq User
  /\ session \in Report
  /\ runtime \in {"absent", "inactive", "active"}
  /\ svc \in {"down", "starting", "idle", "collecting"}
  /\ answer \in {"none", "inactive", "active"}
  /\ heartbeats \subseteq Report
  /\ assigned \in User \union {NoUser}
  /\ clicked \subseteq User /\ recorded \subseteq User
  /\ logins \in Nat /\ faults \in Nat

\* The machine may be assigned to a user by the token it enrolled with.
Init ==
  /\ console = NoUser /\ helper = "off"
  /\ markers = {} /\ accepted = {}
  /\ session = [user |-> NoUser, consented |-> FALSE]
  /\ runtime = "absent"
  /\ svc = "starting" /\ answer = "none"
  /\ heartbeats = {}
  /\ assigned \in User \union {NoUser}
  /\ clicked = {} /\ recorded = {}
  /\ logins = 0 /\ faults = 0

Fault ==
  /\ faults < MaxFaults
  /\ faults' = faults + 1

(***************************************************************************)
(* The session helper (RunSessionAgent).                                   *)
(***************************************************************************)

\* Mutant: any marker will do.
hasAnyConsent(u) == markers # {}

hasLocalConsent(u) == Marker[u] \in markers

Login(u) ==
  /\ console = NoUser /\ logins < MaxLogins
  /\ console' = u
  /\ helper' = IF hasLocalConsent(u) THEN "ready" ELSE "prompt"
  /\ logins' = logins + 1
  /\ UNCHANGED <<markers, accepted, session, runtime, svc, answer, heartbeats,
                 serverVars, faults>>

Accept ==
  /\ helper = "prompt"
  /\ helper' = "ready"
  /\ markers' = markers \union {Marker[console]}
  /\ accepted' = accepted \union {console}
  /\ UNCHANGED <<console, session, runtime, svc, answer, heartbeats, serverVars,
                 logins, faults>>

\* Not asked again before the helper restarts.
Decline ==
  /\ helper = "prompt"
  /\ helper' = "declined"
  /\ UNCHANGED <<console, markers, accepted, session, runtime, svc, answer,
                 heartbeats, serverVars, logins, faults>>

Consented == helper \in {"ready", "collecting"}

\* What the helper does next when it has read runtime.json.
NextHelper ==
  IF ~Consented THEN helper
  ELSE IF runtime = "active" THEN "collecting" ELSE "ready"

\* One turn of the helper's loop, or of runSessionGeneration's, every 20 s.
HelperTurn ==
  /\ helper \in {"declined", "ready", "collecting"}
  /\ session' = [user |-> console, consented |-> Consented]
  /\ helper' = NextHelper
  /\ UNCHANGED <<console, markers, accepted, runtime, svc, answer, heartbeats,
                 serverVars, logins, faults>>

\* The session ends; its helper dies with it and session.json stays.
Logout ==
  /\ console # NoUser
  /\ console' = NoUser /\ helper' = "off"
  /\ UNCHANGED <<markers, accepted, session, runtime, svc, answer, heartbeats,
                 serverVars, logins, faults>>

(***************************************************************************)
(* The service (Run).                                                      *)
(***************************************************************************)

SendHeartbeat ==
  /\ svc \in {"idle", "collecting"} /\ answer = "none"
  /\ heartbeats' = heartbeats \union {session}
  /\ UNCHANGED <<agentVars, svc, answer, serverVars, logins, faults>>

HasConsent(u) == u \in clicked \union recorded

\* The consent gate: active only for the consent of the assigned user.
EffectivePolicy ==
  IF assigned # NoUser /\ HasConsent(assigned) THEN "active" ELSE "inactive"

\* waitForPolicy, and the policy ticker: the server's answer, not yet applied.
GetPolicy ==
  /\ svc # "down" /\ answer = "none"
  /\ answer' = EffectivePolicy
  /\ UNCHANGED <<agentVars, svc, heartbeats, serverVars, logins, faults>>

\* Mutant: runtime.json is written only when the service starts.
HandOffOnce == runtime' = IF svc = "starting" THEN answer ELSE runtime

HandOff == runtime' = answer

\* The helper's handoff is always rewritten; the collectors follow the policy.
ApplyPolicy ==
  /\ svc # "down" /\ answer # "none"
  /\ HandOff
  /\ svc' = IF answer = "active" THEN "collecting" ELSE "idle"
  /\ answer' = "none"
  /\ UNCHANGED <<console, helper, markers, accepted, session, heartbeats, serverVars,
                 logins, faults>>

\* The handoff files survive the service.
CrashService ==
  /\ Fault
  /\ svc # "down"
  /\ svc' = "down" /\ answer' = "none"
  /\ UNCHANGED <<agentVars, heartbeats, serverVars, logins>>

StartService ==
  /\ svc = "down"
  /\ svc' = "starting"
  /\ UNCHANGED <<agentVars, answer, heartbeats, serverVars, logins, faults>>

(***************************************************************************)
(* The server.                                                             *)
(***************************************************************************)

\* Mutant: a reported user is taken to consent.
RecordAnyone(h) ==
  clicked' = IF h.user # NoUser THEN clicked \union {h.user} ELSE clicked

RecordClick(h) ==
  clicked' = IF h.consented /\ h.user # NoUser /\ ~HasConsent(h.user)
               THEN clicked \union {h.user} ELSE clicked

\* Mutant: the first user a machine reports stays its assigned user.
AttributeOnce(h) == assigned' = IF assigned = NoUser THEN h.user ELSE assigned

Attribute(h) == assigned' = IF h.user # NoUser THEN h.user ELSE assigned

\* A heartbeat may be handled late, after newer ones.
HandleHeartbeat(h) ==
  /\ heartbeats' = heartbeats \ {h}
  /\ Attribute(h)
  /\ RecordClick(h)
  /\ UNCHANGED <<agentVars, svc, answer, recorded, logins, faults>>

LoseHeartbeat(h) ==
  /\ Fault
  /\ heartbeats' = heartbeats \ {h}
  /\ UNCHANGED <<agentVars, svc, answer, serverVars, logins>>

\* POST /api/consent by an administrator, who may name any user and any method,
\* "agent-clickthrough" included; nothing reads the method again.
RecordConsent(u) ==
  /\ recorded' = recorded \union {u}
  /\ UNCHANGED <<agentVars, svc, answer, heartbeats, assigned, clicked, logins, faults>>

HelperStep  == Accept \/ Decline \/ HelperTurn \/ Logout \/ \E u \in User : Login(u)
ServiceStep == SendHeartbeat \/ GetPolicy \/ ApplyPolicy \/ StartService \/ CrashService
ServerStep  ==
  \/ \E h \in heartbeats : HandleHeartbeat(h) \/ LoseHeartbeat(h)
  \/ \E u \in User : RecordConsent(u)

Next == HelperStep \/ ServiceStep \/ ServerStep

Spec == Init /\ [][Next]_vars

(* The tickers of the service and of the helper keep firing, a crashed     *)
(* service is restarted by the service manager, and a heartbeat that is    *)
(* not lost is handled.  Users and administrators may do nothing.          *)
Fairness ==
  /\ WF_vars(HelperTurn)
  /\ SF_vars(SendHeartbeat)
  /\ WF_vars(GetPolicy) /\ WF_vars(ApplyPolicy)
  /\ WF_vars(StartService)
  /\ \A h \in Report : WF_vars(h \in heartbeats /\ HandleHeartbeat(h))

FairSpec == Spec /\ Fairness

-----------------------------------------------------------------------------
(***************************************************************************)
(* Properties.                                                             *)
(***************************************************************************)

\* The user, or one whose marker file has the same name, accepted the notice.
AcceptedAs(u) == \E v \in accepted : Marker[v] = Marker[u]

(* Session collectors run only in the session of a user for whom the       *)
(* notice was accepted on this machine, in this session or an earlier one; *)
(* by that very user, unless two users' names make the same marker file.   *)
OnlyAfterAcceptance == helper = "collecting" => AcceptedAs(console)

(* Nothing is collected, by either process, before the server holds some   *)
(* consent record: the gate is closed along the whole chain of files and   *)
(* messages, crashes and late heartbeats included.                         *)
NothingBeforeARecord ==
  svc = "collecting" \/ helper = "collecting" \/ runtime = "active"
    => clicked \union recorded # {}

(* A record made from a heartbeat stands for a click, of that user or of   *)
(* one with the same marker file: never for a mere logon, whatever         *)
(* session.json, late heartbeats and changes of user do.                   *)
ClickthroughIsReal == \A u \in clicked : AcceptedAs(u)

(* When a user without a consent record has answered the notice, or had no *)
(* need to, and stays logged on, the service's collectors, perhaps started *)
(* for the previous user, stop for good.  While the notice is still open   *)
(* session.json is the previous user's and they may go on.                 *)
EventuallyOff ==
  \A u \in User :
    <>[](console = u /\ helper # "prompt" /\ ~HasConsent(u)) => <>[](svc # "collecting")

(* When a user who accepted stays logged on, both processes end up         *)
(* collecting, whoever was logged on before.                               *)
EventuallyOn ==
  \A u \in User :
    <>[](console = u /\ Consented) =>
      <>[](svc = "collecting" /\ helper = "collecting")

(* The machine keeps the promise of Gate: on top of the invariants above,  *)
(* acceptances and records are never withdrawn, no capture outlives its    *)
(* session, and none starts, nor the service's collectors, without a record.*)
Promise == INSTANCE Gate WITH
  present  <- console,
  clicks   <- clicked,
  attested <- recorded,
  captured <- helper = "collecting",
  watched  <- svc = "collecting"

PromiseKept == Promise!Spec
=============================================================================
