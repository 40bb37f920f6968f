-------------------------- MODULE ConsentGateProofs --------------------------
(***************************************************************************)
(* The safety of the consent gate, for any users, logins and faults.       *)
(***************************************************************************)
EXTENDS ConsentGate, TLAPS

(* Every trace of a consent, on disk or on its way, comes from a click     *)
(* under the same marker name.                                             *)
TracesAreClicks ==
  /\ \A u \in User : Marker[u] \in markers => AcceptedAs(u)
  /\ Consented => AcceptedAs(console)
  /\ session.consented => session.user \in User /\ AcceptedAs(session.user)
  /\ \A h \in heartbeats : h.consented => h.user \in User /\ AcceptedAs(h.user)

(* The gate is open nowhere without a record on the server.                *)
GateFollowsRecord ==
  answer = "active" => clicked \union recorded # {}

AcceptInv == TypeOK /\ TracesAreClicks /\ ClickthroughIsReal

RecordInv == GateFollowsRecord /\ NothingBeforeARecord

-----------------------------------------------------------------------------
LEMMA AcceptInit == Init => AcceptInv
  BY ConsentAssumption
  DEF Init, AcceptInv, TypeOK, Report, TracesAreClicks, ClickthroughIsReal, Consented

LEMMA AcceptStep == AcceptInv /\ [Next]_vars => AcceptInv'
  <1> SUFFICES ASSUME AcceptInv, [Next]_vars PROVE AcceptInv'
    OBVIOUS
  <1> USE ConsentAssumption
      DEF AcceptInv, TypeOK, Report, TracesAreClicks, ClickthroughIsReal, Consented,
          AcceptedAs, agentVars, serverVars
  <1>1. ASSUME NEW u \in User, Login(u) PROVE AcceptInv'
    BY <1>1 DEF Login, hasLocalConsent
  <1>2. CASE Accept
    BY <1>2 DEF Accept
  <1>3. CASE Decline \/ Logout
    BY <1>3 DEF Decline, Logout
  <1>4. CASE HelperTurn
    <2>1. /\ session' = [user |-> console, consented |-> Consented]
          /\ console \in User
          /\ UNCHANGED <<console, markers, accepted, runtime, svc, answer, heartbeats,
                         serverVars, logins, faults>>
      BY <1>4 DEF HelperTurn
    <2>2. /\ session'.user = console /\ session'.consented = Consented
          /\ session' \in Report
      BY <2>1
    <2>3. /\ helper' \in {"declined", "ready", "collecting"}
          /\ helper' \in {"ready", "collecting"} => Consented
      BY <1>4 DEF HelperTurn, NextHelper
    <2> HIDE DEF Report
    <2>4. QED
      BY <2>1, <2>2, <2>3
  <1>5. CASE SendHeartbeat
    BY <1>5 DEF SendHeartbeat
  <1>6. CASE GetPolicy \/ ApplyPolicy
    BY <1>6 DEF GetPolicy, EffectivePolicy, ApplyPolicy, HandOff
  <1>7. CASE StartService \/ CrashService
    BY <1>7 DEF StartService, CrashService, Fault
  <1>8. ASSUME NEW h \in heartbeats, HandleHeartbeat(h) PROVE AcceptInv'
    BY <1>8 DEF HandleHeartbeat, Attribute, RecordClick
  <1>9. ASSUME NEW h \in heartbeats, LoseHeartbeat(h) PROVE AcceptInv'
    BY <1>9 DEF LoseHeartbeat, Fault
  <1>10. ASSUME NEW u \in User, RecordConsent(u) PROVE AcceptInv'
    BY <1>10 DEF RecordConsent
  <1>11. CASE UNCHANGED vars
    BY <1>11 DEF vars
  <1>12. QED
    BY <1>1, <1>2, <1>3, <1>4, <1>5, <1>6, <1>7, <1>8, <1>9, <1>10, <1>11
    DEF Next, HelperStep, ServiceStep, ServerStep

(* Whatever marker names users have, every record made from a heartbeat    *)
(* stands for a click of a user with that marker name.                     *)
THEOREM RecordsAreClicks == Spec => []ClickthroughIsReal
  <1>1. AcceptInv => ClickthroughIsReal
    BY DEF AcceptInv
  <1>2. QED
    BY <1>1, AcceptInit, AcceptStep, PTL DEF Spec

(* Whatever marker names users have, no session is captured whose user's   *)
(* marker name nobody has accepted the notice under.                       *)
THEOREM CaptureNeedsAcceptance == Spec => []OnlyAfterAcceptance
  <1>1. AcceptInv => OnlyAfterAcceptance
    BY DEF AcceptInv, TracesAreClicks, Consented, OnlyAfterAcceptance
  <1>2. QED
    BY <1>1, AcceptInit, AcceptStep, PTL DEF Spec

(* The types, which do not depend on how the marker files are named.       *)
THEOREM TypeCorrect == Spec => []TypeOK
  <1>1. Init => TypeOK
    BY ConsentAssumption DEF Init, TypeOK, Report
  <1>2. TypeOK /\ [Next]_vars => TypeOK'
    <2> SUFFICES ASSUME TypeOK, [Next]_vars PROVE TypeOK'
      OBVIOUS
    <2> USE ConsentAssumption DEF TypeOK, Report, agentVars, serverVars
    <2>1. ASSUME NEW u \in User, Login(u) PROVE TypeOK'
      BY <2>1 DEF Login, hasLocalConsent
    <2>2. CASE Accept \/ Decline \/ Logout
      BY <2>2 DEF Accept, Decline, Logout
    <2>3. CASE HelperTurn
      BY <2>3 DEF HelperTurn, NextHelper, Consented
    <2>4. CASE ServiceStep
      BY <2>4 DEF ServiceStep, SendHeartbeat, GetPolicy, EffectivePolicy, ApplyPolicy,
                  HandOff, StartService, CrashService, Fault
    <2>5. CASE ServerStep
      BY <2>5 DEF ServerStep, HandleHeartbeat, Attribute, RecordClick, LoseHeartbeat,
                  Fault, RecordConsent
    <2>6. CASE UNCHANGED vars
      BY <2>6 DEF vars
    <2>7. QED
      BY <2>1, <2>2, <2>3, <2>4, <2>5, <2>6 DEF Next, HelperStep
  <1>3. QED
    BY <1>1, <1>2, PTL DEF Spec

LEMMA RecordInit == Init => RecordInv
  BY DEF Init, RecordInv, GateFollowsRecord, NothingBeforeARecord

LEMMA RecordStep == TypeOK /\ RecordInv /\ [Next]_vars => RecordInv'
  <1> SUFFICES ASSUME TypeOK, RecordInv, [Next]_vars PROVE RecordInv'
    OBVIOUS
  <1> USE DEF RecordInv, GateFollowsRecord, NothingBeforeARecord, agentVars, serverVars
  <1>1. CASE HelperStep
    BY <1>1 DEF HelperStep, Login, Accept, Decline, Logout, HelperTurn, NextHelper,
                hasLocalConsent
  <1>2. CASE ServiceStep
    BY <1>2 DEF ServiceStep, SendHeartbeat, GetPolicy, EffectivePolicy, HasConsent,
                ApplyPolicy, HandOff, StartService, CrashService
  <1>3. CASE ServerStep
    <2>1. clicked \union recorded \subseteq clicked' \union recorded'
      BY <1>3 DEF ServerStep, HandleHeartbeat, RecordClick, LoseHeartbeat, RecordConsent
    <2>2. UNCHANGED <<agentVars, svc, answer>>
      BY <1>3 DEF ServerStep, HandleHeartbeat, LoseHeartbeat, RecordConsent
    <2>3. QED
      BY <2>1, <2>2
  <1>4. CASE UNCHANGED vars
    BY <1>4 DEF vars
  <1>5. QED
    BY <1>1, <1>2, <1>3, <1>4 DEF Next

(* Neither process collects before some consent record exists.             *)
THEOREM GateIsClosed == Spec => []NothingBeforeARecord
  <1>1. RecordInv => NothingBeforeARecord
    BY DEF RecordInv
  <1>2. QED
    BY <1>1, RecordInit, RecordStep, TypeCorrect, PTL DEF Spec

-----------------------------------------------------------------------------
(* The consent gate implements what Gate promises.                         *)

(* Steps that change nothing a user was promised anything about.           *)
LEMMA Unnoticed ==
  ASSUME UNCHANGED <<console, accepted, clicked, recorded, helper = "collecting",
                     svc = "collecting">>
  PROVE  UNCHANGED Promise!vars
  BY DEF Promise!vars

LEMMA Simulation ==
  AcceptInv /\ RecordInv /\ [Next]_vars => [Promise!Next]_(Promise!vars)
  <1> DEFINE Quiet == UNCHANGED <<console, accepted, clicked, recorded,
                                  helper = "collecting", svc = "collecting">>
  <1> SUFFICES ASSUME AcceptInv, RecordInv, [Next]_vars PROVE Promise!Next \/ Quiet
    BY Unnoticed
  <1> USE DEF agentVars, serverVars
  <1>1. ASSUME NEW u \in User, Login(u) PROVE Promise!Next
    <2>1. Promise!Arrive(u)
      BY <1>1 DEF Login, AcceptInv, TypeOK, Promise!Arrive
    <2>2. QED
      BY <2>1 DEF Promise!Next
  <1>2. CASE Accept
    <2>1. Promise!Accept
      BY <1>2 DEF Accept, AcceptInv, TypeOK, Promise!Accept
    <2>2. QED
      BY <2>1 DEF Promise!Next
  <1>3. CASE Decline
    BY <1>3 DEF Decline
  <1>4. CASE Logout
    <2>1. Promise!Leave
      BY <1>4 DEF Logout, Promise!Leave
    <2>2. QED
      BY <2>1 DEF Promise!Next
  <1>5. CASE HelperTurn
    <2>1. UNCHANGED <<console, accepted, clicked, recorded, svc>>
      BY <1>5 DEF HelperTurn
    <2>2. CASE (helper' = "collecting") = (helper = "collecting")
      BY <2>1, <2>2
    <2>3. CASE helper' = "collecting" /\ helper # "collecting"
      <3>1. Consented /\ runtime = "active"
        BY <1>5, <2>3 DEF HelperTurn, NextHelper
      <3>2. console # NoUser /\ AcceptedAs(console) /\ clicked \union recorded # {}
        BY <3>1 DEF AcceptInv, TypeOK, Consented, TracesAreClicks, RecordInv, NothingBeforeARecord
      <3>3. Promise!Capture
        BY <2>1, <2>3, <3>2 DEF Promise!Capture, Promise!OnRecord, Promise!AcceptedAs, AcceptedAs
      <3>4. QED
        BY <3>3 DEF Promise!Next
    <2>4. CASE helper' # "collecting" /\ helper = "collecting"
      <3>1. Promise!Release
        BY <2>1, <2>4 DEF Promise!Release
      <3>2. QED
        BY <3>1 DEF Promise!Next
    <2>5. QED
      BY <2>2, <2>3, <2>4
  <1>6. CASE SendHeartbeat \/ GetPolicy
    BY <1>6 DEF SendHeartbeat, GetPolicy
  <1>7. CASE ApplyPolicy \/ CrashService \/ StartService
    <2>1. UNCHANGED <<console, accepted, clicked, recorded, helper>>
      BY <1>7 DEF ApplyPolicy, CrashService, StartService
    <2>2. CASE (svc' = "collecting") = (svc = "collecting")
      BY <2>1, <2>2
    <2>3. CASE svc' = "collecting" /\ svc # "collecting"
      <3>1. answer = "active"
        BY <1>7, <2>3 DEF ApplyPolicy, CrashService, StartService
      <3>2. Promise!Watch
        BY <2>1, <2>3, <3>1 DEF RecordInv, GateFollowsRecord, Promise!Watch, Promise!OnRecord
      <3>3. QED
        BY <3>2 DEF Promise!Next
    <2>4. CASE svc' # "collecting" /\ svc = "collecting"
      <3>1. Promise!Rest
        BY <2>1, <2>4 DEF Promise!Rest
      <3>2. QED
        BY <3>1 DEF Promise!Next
    <2>5. QED
      BY <2>2, <2>3, <2>4
  <1>8. ASSUME NEW h \in heartbeats, HandleHeartbeat(h) PROVE Promise!Next \/ Quiet
    <2>1. UNCHANGED <<console, accepted, recorded, helper, svc>>
      BY <1>8 DEF HandleHeartbeat
    <2>2. CASE clicked' = clicked
      BY <2>1, <2>2
    <2>3. CASE clicked' # clicked
      <3>1. /\ clicked' = clicked \union {h.user}
            /\ h.consented /\ h.user # NoUser
        BY <1>8, <2>3 DEF HandleHeartbeat, RecordClick
      <3>2. h.user \in User /\ AcceptedAs(h.user)
        BY <3>1 DEF AcceptInv, TypeOK, Report, TracesAreClicks
      <3>3. Promise!Record(h.user)
        BY <2>1, <3>1, <3>2 DEF Promise!Record, Promise!AcceptedAs, AcceptedAs
      <3>4. QED
        BY <3>2, <3>3 DEF Promise!Next
    <2>4. QED
      BY <2>2, <2>3
  <1>9. ASSUME NEW h \in heartbeats, LoseHeartbeat(h) PROVE Quiet
    BY <1>9 DEF LoseHeartbeat
  <1>10. ASSUME NEW u \in User, RecordConsent(u) PROVE Promise!Next
    <2>1. Promise!Attest(u)
      BY <1>10 DEF RecordConsent, Promise!Attest
    <2>2. QED
      BY <2>1 DEF Promise!Next
  <1>11. CASE UNCHANGED vars
    BY <1>11 DEF vars
  <1>12. QED
    BY <1>1, <1>2, <1>3, <1>4, <1>5, <1>6, <1>7, <1>8, <1>9, <1>10, <1>11
    DEF Next, HelperStep, ServiceStep, ServerStep

(* Every behaviour of the helper, the service and the server, crashes,     *)
(* late heartbeats and shared marker files included, keeps the promise of  *)
(* Gate, step by step.                                                     *)
THEOREM ImplementsGate == Spec => PromiseKept
  <1>1. Init => Promise!Init
    BY DEF Init, Promise!Init
  <1>2. QED
    BY <1>1, AcceptInit, AcceptStep, RecordInit, RecordStep, Simulation, PTL
    DEF Spec, PromiseKept, Promise!Spec, AcceptInv
=============================================================================
