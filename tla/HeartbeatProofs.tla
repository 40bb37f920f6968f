--------------------------- MODULE HeartbeatProofs ---------------------------
(***************************************************************************)
(* What travels with heartbeats: the collectors' health on its way to the  *)
(* server (CollectorHealth) and commands on their way to the agent         *)
(* (RemoteCommand).  The two specifications share no variable; the safety  *)
(* of each holds for any number of collectors, generations, requests,      *)
(* faults and crashes.                                                     *)
(***************************************************************************)
EXTENDS CollectorHealth, RemoteCommand, TLAPS

(* The registry *)

(* Without a fault, only a cancelled goroutine has an error to show, and   *)
(* no report on its way says "down" of a collector of the service.         *)
QuietInv ==
  faults = 0 =>
    /\ \A c \in Collector, g \in Generation :
         /\ inst[c][g] \notin {"flagging", "crashed"}
         /\ inst[c][g] = "failed" => ~CtxLive(c, g)
    /\ \A c \in Collector : registry[c] # "down"
    /\ \A c \in SessionCollector : published[c] # "down"
    /\ \A c \in Collector \ SessionCollector :
         health[c] # "down" /\ \A r \in reports : r[c] # "down"

IInv == TypeOK /\ CrashRecorded /\ QuietInv

-----------------------------------------------------------------------------
LEMMA InitInv == Init => IInv
  <1> SUFFICES ASSUME Init PROVE IInv
    OBVIOUS
  <1> USE HealthAssumption DEF Init
  <1>1. /\ inst \in [Collector -> [Generation -> Goroutine]]
        /\ \A c \in Collector, g \in Generation : inst[c][g] = "none"
    BY DEF Goroutine
  <1>2. \A p \in Process : ~Live(p)
    BY DEF Live, Process
  <1>3. \A c \in Collector : Host(c) \in Process
    BY DEF Host, Process
  <1>4. TypeOK
    <2>1. gen \in [Process -> 0..MaxGen]
      BY DEF Process
    <2>2. /\ registry \in [Collector -> Status] /\ health \in [Collector -> Status]
          /\ published \in [SessionCollector -> Status]
      BY DEF Status
    <2>3. QED
      BY <1>1, <1>2, <1>3, <2>1, <2>2 DEF TypeOK
  <1>5. CrashRecorded
    BY <1>1 DEF CrashRecorded
  <1>6. QuietInv
    BY <1>1 DEF QuietInv
  <1>7. QED
    BY <1>4, <1>5, <1>6 DEF IInv

(* One goroutine changes its state.                                        *)
LEMMA BecomesFacts ==
  ASSUME IInv, NEW c \in Collector, NEW g \in Generation, NEW s \in Goroutine,
         Becomes(c, g, s)
  PROVE  /\ inst' \in [Collector -> [Generation -> Goroutine]]
         /\ inst'[c][g] = s
         /\ \A d \in Collector, h \in Generation :
              d # c \/ h # g => inst'[d][h] = inst[d][h]
  <1>1. inst \in [Collector -> [Generation -> Goroutine]]
    BY DEF IInv, TypeOK
  <1>2. inst' = [inst EXCEPT ![c] = [inst[c] EXCEPT ![g] = s]]
    BY <1>1 DEF Becomes
  <1>3. [inst[c] EXCEPT ![g] = s] \in [Generation -> Goroutine]
    BY <1>1
  <1>4. QED
    BY <1>1, <1>2, <1>3

(* The goroutines of a dead helper.                                        *)
LEMMA GoneFacts ==
  ASSUME IInv, HelperDies
  PROVE  /\ inst' \in [Collector -> [Generation -> Goroutine]]
         /\ \A c \in Collector, g \in Generation :
              inst'[c][g] = inst[c][g]
                \/ (Host(c) = "session" /\ inst'[c][g] \in {"none", "ended"})
  <1> DEFINE Gone(c) == [g \in Generation |-> IF inst[c][g] = "none" THEN "none" ELSE "ended"]
  <1>1. \A c \in Collector : Gone(c) \in [Generation -> Goroutine]
    BY DEF Goroutine
  <1>2. inst \in [Collector -> [Generation -> Goroutine]]
    BY DEF IInv, TypeOK
  <1>3. inst' = [c \in Collector |-> IF Host(c) = "session" THEN Gone(c) ELSE inst[c]]
    BY DEF HelperDies
  <1>4. \A c \in Collector, g \in Generation : Gone(c)[g] \in {"none", "ended"}
    OBVIOUS
  <1> HIDE DEF Gone
  <1>5. \A c \in Collector : inst'[c] = IF Host(c) = "session" THEN Gone(c) ELSE inst[c]
    BY <1>3
  <1>6. QED
    BY <1>1, <1>2, <1>3, <1>4, <1>5

(* What a new generation finds: goroutines just created, entries "up".     *)
LEMMA StartFacts ==
  ASSUME IInv, NEW p \in Process, StartCollectors(p)
  PROVE  /\ gen' \in [Process -> 0..MaxGen]
         /\ gen'[p] = gen[p] + 1 /\ gen'[p] \in Generation
         /\ \A q \in Process : q # p => gen'[q] = gen[q]
         /\ inst' \in [Collector -> [Generation -> Goroutine]]
         /\ registry' \in [Collector -> Status]
         /\ \A c \in Collector : Host(c) = p =>
              /\ registry'[c] = "up" /\ inst'[c][gen'[p]] = "created"
              /\ \A g \in Generation : g # gen'[p] => inst'[c][g] = inst[c][g]
         /\ \A c \in Collector : Host(c) # p =>
              registry'[c] = registry[c] /\ inst'[c] = inst[c]
  <1> USE HealthAssumption DEF IInv, TypeOK, Generation
  <1>1. gen[p] \in 0..MaxGen /\ gen[p] + 1 \in 1..MaxGen
    BY DEF StartCollectors
  <1>2. gen' = [gen EXCEPT ![p] = gen[p] + 1]
    BY DEF StartCollectors
  <1>3. \A c \in Collector : Host(c) = p =>
          inst'[c] = [inst[c] EXCEPT ![gen[p] + 1] = "created"]
    BY DEF StartCollectors
  <1>4. \A c \in Collector : Host(c) # p => inst'[c] = inst[c]
    BY DEF StartCollectors
  <1>5. ASSUME NEW c \in Collector
        PROVE  inst'[c] \in [Generation -> Goroutine]
    <2>1. inst[c] \in [Generation -> Goroutine]
      OBVIOUS
    <2>2. "created" \in Goroutine
      BY DEF Goroutine
    <2>3. CASE Host(c) = p
      BY <2>1, <2>2, <2>3, <1>3
    <2>4. CASE Host(c) # p
      BY <2>1, <2>4, <1>4
    <2>5. QED
      BY <2>3, <2>4
  <1>6. inst' \in [Collector -> [Generation -> Goroutine]]
    <2>1. inst' = [c \in Collector |->
            IF Host(c) = p THEN [inst[c] EXCEPT ![gen[p] + 1] = "created"] ELSE inst[c]]
      BY DEF StartCollectors
    <2>2. QED
      BY <2>1, <1>5
  <1>7. registry' = [c \in Collector |-> IF Host(c) = p THEN "up" ELSE registry[c]]
    BY DEF StartCollectors
  <1>8. registry' \in [Collector -> Status]
    BY <1>7 DEF Status
  <1>9. QED
    BY <1>1, <1>2, <1>3, <1>4, <1>6, <1>7, <1>8

(* Steps that leave the generations, their goroutines and the registry     *)
(* alone, or set the registry of a process without a generation back.      *)
LEMMA StepInv ==
  ASSUME IInv, Next
  PROVE  IInv'
  <1> USE HealthAssumption DEF IInv
  <1>0. \A c \in Collector : Host(c) \in Process
    BY DEF Host, Process
  <1>1. CASE RestartCommand
    <2>1. CASE active
      <3>1. StartCollectors("service") /\ "service" \in Process /\ "session" \in Process
        BY <1>1, <2>1 DEF RestartCommand, Process
      <3>2. UNCHANGED <<active, helperVars, serverVars, faults>> /\ tag' = tag + 1
        BY <1>1 DEF RestartCommand, Change
      <3>3. TypeOK'
        BY <3>1, <3>2, <1>0, StartFacts
        DEF TypeOK, Live, Process, helperVars, serverVars
      <3>4. CrashRecorded'
        BY <3>1, <3>2, <1>0, StartFacts
        DEF CrashRecorded, CtxLive, Live, Process, helperVars
      <3>5. QuietInv'
        BY <3>1, <3>2, <1>0, StartFacts
        DEF QuietInv, CtxLive, Live, Process, helperVars, serverVars
      <3>6. QED
        BY <3>3, <3>4, <3>5
    <2>2. CASE ~active
      BY <1>1, <2>2 DEF RestartCommand, Change, collectorVars, helperVars, serverVars,
           TypeOK, CrashRecorded, QuietInv, CtxLive, Live
    <2>3. QED
      BY <2>1, <2>2
  <1>2. CASE PolicyChange
    <2>1. CASE active'
      <3>1. StartCollectors("service") /\ "service" \in Process /\ "session" \in Process
        BY <1>2, <2>1 DEF PolicyChange, Process
      <3>2. UNCHANGED <<helperVars, serverVars, faults>> /\ tag' = tag + 1
              /\ active' \in BOOLEAN
        BY <1>2 DEF PolicyChange, Change
      <3>3. TypeOK'
        BY <3>1, <3>2, <1>0, StartFacts
        DEF TypeOK, Live, Process, helperVars, serverVars
      <3>4. CrashRecorded'
        BY <3>1, <3>2, <1>0, StartFacts
        DEF CrashRecorded, CtxLive, Live, Process, helperVars
      <3>5. QuietInv'
        BY <3>1, <3>2, <1>0, StartFacts
        DEF QuietInv, CtxLive, Live, Process, helperVars, serverVars
      <3>6. QED
        BY <3>3, <3>4, <3>5
    <2>2. CASE ~active'
      <3>1. /\ UNCHANGED <<gen, inst, helperVars, serverVars, faults>> /\ tag' = tag + 1
            /\ active' \in BOOLEAN /\ ResetRegistry("service")
        BY <1>2, <2>2 DEF PolicyChange, Change
      <3>2. /\ registry' \in [Collector -> Status]
            /\ \A c \in Collector :
                 registry'[c] = IF Host(c) = "service" THEN "absent" ELSE registry[c]
        BY <3>1 DEF ResetRegistry, TypeOK, Status
      <3>3. TypeOK'
        BY <3>1, <3>2, <2>2, <1>0 DEF TypeOK, Live, Process, helperVars, serverVars
      <3>4. CrashRecorded'
        BY <3>1, <3>2, <2>2, <1>0 DEF CrashRecorded, CtxLive, Live, Process, helperVars
      <3>5. QuietInv'
        BY <3>1, <3>2, <2>2, <1>0
        DEF QuietInv, CtxLive, Live, Process, helperVars, serverVars
      <3>6. QED
        BY <3>3, <3>4, <3>5
    <2>3. QED
      BY <2>1, <2>2
  <1>3. CASE GoroutineStep
    <2>1. PICK c \in Collector, g \in Generation :
            \/ Begin(c, g) \/ Fails(c, g) \/ WindsDown(c, g)
            \/ CheckContext(c, g) \/ MarkDown(c, g)
      BY <1>3 DEF GoroutineStep
    <2>2. UNCHANGED <<active, tag, gen, helperVars, serverVars>>
      BY <2>1 DEF Begin, Fails, WindsDown, CheckContext, MarkDown
    <2>3. ASSUME NEW s \in Goroutine \ {"crashed"}, Becomes(c, g, s),
                 UNCHANGED registry, faults' \in Nat,
                 faults' = 0 => faults = 0 /\ s # "flagging" /\ (s = "failed" => ~CtxLive(c, g))
          PROVE  IInv'
      <3>1. TypeOK'
        BY <2>2, <2>3, BecomesFacts DEF TypeOK, Live, helperVars, serverVars
      <3>2. CrashRecorded'
        BY <2>2, <2>3, BecomesFacts DEF CrashRecorded, CtxLive, Live, helperVars
      <3>3. QuietInv'
        BY <2>2, <2>3, BecomesFacts
        DEF QuietInv, CtxLive, Live, helperVars, serverVars
      <3>4. QED
        BY <3>1, <3>2, <3>3
    <2>4. CASE Begin(c, g)
      BY <2>3, <2>4 DEF Begin, Goroutine, TypeOK
    <2>5. CASE Fails(c, g)
      BY <2>3, <2>5 DEF Fails, Fault, Goroutine, TypeOK
    <2>6. CASE WindsDown(c, g)
      BY <2>3, <2>6 DEF WindsDown, Goroutine, TypeOK
    <2>7. CASE CheckContext(c, g)
      <3>1. faults = 0 => ~CtxLive(c, g)
        BY <2>7 DEF CheckContext, QuietInv
      <3>2. QED
        BY <2>3, <2>7, <3>1 DEF CheckContext, Goroutine, TypeOK
    <2>8. CASE MarkDown(c, g)
      <3>1. faults # 0
        BY <2>8 DEF MarkDown, QuietInv
      <3>2. /\ Becomes(c, g, "crashed") /\ "crashed" \in Goroutine
            /\ registry' = [registry EXCEPT ![c] = "down"] /\ UNCHANGED faults
        BY <2>8 DEF MarkDown, Goroutine
      <3>3. /\ registry' \in [Collector -> Status] /\ registry'[c] = "down"
            /\ \A d \in Collector : d # c => registry'[d] = registry[d]
        BY <3>2 DEF TypeOK, Status
      <3>4. TypeOK'
        BY <2>2, <3>2, <3>3, BecomesFacts DEF TypeOK, Live, helperVars, serverVars
      <3>5. CrashRecorded'
        BY <2>2, <3>2, <3>3, BecomesFacts DEF CrashRecorded, CtxLive, Live, helperVars
      <3>6. QuietInv'
        BY <3>1, <3>2 DEF QuietInv
      <3>7. QED
        BY <3>4, <3>5, <3>6
    <2>9. QED
      BY <2>1, <2>4, <2>5, <2>6, <2>7, <2>8
  <1>4. CASE HelperStep
    <2>1. CASE StartHelper
      BY <2>1 DEF StartHelper, collectorVars, serverVars, TypeOK, CrashRecorded, QuietInv,
           CtxLive, Live, Status
    <2>2. CASE HelperKeeps
      BY <2>2 DEF HelperKeeps, collectorVars, serverVars, TypeOK, CrashRecorded, QuietInv,
           CtxLive, Live, Status, HealthAssumption
    <2>3. CASE HelperStarts
      <3>1. StartCollectors("session") /\ "service" \in Process /\ "session" \in Process
        BY <2>3 DEF HelperStarts, Process
      <3>2. /\ UNCHANGED <<active, tag, serverVars, faults>> /\ helper' = "running"
            /\ helperTag' = tag /\ fresh' = TRUE
            /\ published' = [d \in SessionCollector |-> "up"]
        BY <2>3 DEF HelperStarts
      <3>3. /\ published' \in [SessionCollector -> Status]
            /\ \A d \in SessionCollector : published'[d] # "down"
        BY <3>2 DEF Status
      <3>4. TypeOK'
        BY <3>1, <3>2, <3>3, <1>0, StartFacts DEF TypeOK, Live, Process, serverVars
      <3>5. CrashRecorded'
        BY <3>1, <3>2, <1>0, StartFacts DEF CrashRecorded, CtxLive, Live, Process
      <3>6. QuietInv'
        BY <3>1, <3>2, <3>3, <1>0, StartFacts
        DEF QuietInv, CtxLive, Live, Process, serverVars
      <3>7. QED
        BY <3>4, <3>5, <3>6
    <2>4. ASSUME HelperIdles \/ HelperDies
          PROVE  IInv'
      <3>1. /\ registry' \in [Collector -> Status]
            /\ \A c \in Collector :
                 registry'[c] = IF Host(c) = "session" THEN "absent" ELSE registry[c]
        BY <2>4 DEF HelperIdles, HelperDies, ResetRegistry, TypeOK, Status
      <3>2. /\ inst' \in [Collector -> [Generation -> Goroutine]]
            /\ \A c \in Collector, g \in Generation :
                 inst'[c][g] = inst[c][g]
                   \/ (Host(c) = "session" /\ inst'[c][g] \in {"none", "ended"})
        <4>1. CASE HelperIdles
          BY <4>1 DEF HelperIdles, TypeOK
        <4>2. CASE HelperDies
          BY <4>2, GoneFacts
        <4>3. QED
          BY <2>4, <4>1, <4>2
      <3>3. /\ helper' \in {"off", "idle"}
            /\ UNCHANGED <<active, tag, gen, serverVars, helperTag>>
            /\ faults' \in Nat /\ (faults' = 0 => faults = 0) /\ fresh' \in BOOLEAN
        <4>1. CASE HelperIdles
          BY <4>1 DEF HelperIdles, TypeOK
        <4>2. CASE HelperDies
          BY <4>2 DEF HelperDies, Fault, TypeOK
        <4>3. QED
          BY <2>4, <4>1, <4>2
      <3>4. /\ published' \in [SessionCollector -> Status]
            /\ faults = 0 => \A d \in SessionCollector : published'[d] # "down"
        <4>1. \A d \in SessionCollector : registry[d] \in Status
          BY DEF TypeOK
        <4>2. CASE HelperIdles
          <5>1. published' = [d \in SessionCollector |-> registry[d]]
            BY <4>2 DEF HelperIdles
          <5>2. QED
            BY <4>1, <5>1 DEF QuietInv
        <4>3. CASE HelperDies
          BY <4>3 DEF HelperDies, TypeOK, QuietInv
        <4>4. QED
          BY <2>4, <4>2, <4>3
      <3>5. TypeOK'
        BY <3>1, <3>2, <3>3, <3>4, <1>0 DEF TypeOK, Live, Process, serverVars
      <3>6. CrashRecorded'
        BY <3>1, <3>2, <3>3, <1>0 DEF CrashRecorded, CtxLive, Live, Process
      <3>7. QuietInv'
        BY <3>1, <3>2, <3>3, <3>4, <1>0
        DEF QuietInv, CtxLive, Live, Process, serverVars
      <3>8. QED
        BY <3>5, <3>6, <3>7
    <2>5. CASE SessionGoesStale
      BY <2>5 DEF SessionGoesStale, collectorVars, serverVars, TypeOK, CrashRecorded,
           QuietInv, CtxLive, Live
    <2>6. QED
      BY <1>4, <2>1, <2>2, <2>3, <2>4, <2>5 DEF HelperStep
  <1>5. CASE ServerStep
    <2>1. UNCHANGED <<active, tag, collectorVars, helperVars>>
      BY <1>5 DEF ServerStep, SendHeartbeat, HandleReport, LoseReport, DataArrives, DataAges
    <2>2. CrashRecorded'
      BY <2>1 DEF CrashRecorded, CtxLive, Live, collectorVars, helperVars
    <2>3. CASE SendHeartbeat
      <3>1. /\ mergedCollectorHealth \in [Collector -> Status]
            /\ faults = 0 => \A c \in Collector \ SessionCollector :
                 mergedCollectorHealth[c] # "down"
        BY DEF mergedCollectorHealth, SessionStatus, TypeOK, QuietInv, Status
      <3>2. /\ reports' = {mergedCollectorHealth}
            /\ UNCHANGED <<health, recent, faults>>
        BY <2>3 DEF SendHeartbeat
      <3> HIDE DEF mergedCollectorHealth
      <3>3. QED
        BY <2>1, <2>2, <3>1, <3>2
        DEF TypeOK, QuietInv, CtxLive, Live, collectorVars, helperVars
    <2>4. ASSUME NEW r \in reports, HandleReport(r)
          PROVE  IInv'
      <3>1. /\ health' \in [Collector -> Status]
            /\ faults = 0 => \A c \in Collector \ SessionCollector : health'[c] # "down"
        BY <2>4 DEF HandleReport, Reconciled, TypeOK, QuietInv, Status
      <3>2. reports' \subseteq reports /\ UNCHANGED <<recent, faults>>
        BY <2>4 DEF HandleReport
      <3>3. QED
        BY <2>1, <2>2, <3>1, <3>2
        DEF TypeOK, QuietInv, CtxLive, Live, collectorVars, helperVars
    <2>5. ASSUME NEW r \in reports, LoseReport(r)
          PROVE  IInv'
      BY <2>1, <2>2, <2>5
      DEF LoseReport, Fault, TypeOK, QuietInv, CtxLive, Live, collectorVars, helperVars
    <2>6. ASSUME NEW c \in SessionCollector, DataArrives(c) \/ DataAges(c)
          PROVE  IInv'
      BY <2>1, <2>2, <2>6
      DEF DataArrives, DataAges, TypeOK, QuietInv, CtxLive, Live, collectorVars, helperVars
    <2>7. QED
      BY <1>5, <2>3, <2>4, <2>5, <2>6 DEF ServerStep
  <1>6. QED
    BY <1>1, <1>2, <1>3, <1>4, <1>5 DEF Next

(* The invariant on which the theorems of this module rest.                *)
THEOREM Invariance == Spec => []IInv
  <1>1. IInv /\ UNCHANGED vars => IInv'
    BY DEF IInv, vars, collectorVars, helperVars, serverVars, TypeOK, CrashRecorded,
           QuietInv, CtxLive, Live
  <1>2. IInv /\ [Next]_vars => IInv'
    BY <1>1, StepInv
  <1>3. QED
    BY <1>2, InitInv, PTL DEF Spec

(* Type correctness; a live generation's collectors are all listed.        *)
THEOREM TypeCorrect == Spec => []TypeOK
  BY Invariance, PTL DEF IInv

(* startCollectors: a crash stays in the registry for its generation.      *)
THEOREM CrashesStay == Spec => []CrashRecorded
  BY Invariance, PTL DEF IInv

(* The invariant and the types give the quiet of restarts.                 *)
LEMMA QuietFollows == IInv => RestartsAreQuiet
  BY DEF IInv, QuietInv, RestartsAreQuiet

(* startCollectors: without a fault no restart makes a collector look down *)
(* in the registry, nor a collector of the service on the server.          *)
THEOREM QuietRestarts == Spec => []RestartsAreQuiet
  BY Invariance, QuietFollows, PTL

-----------------------------------------------------------------------------
(* Commands *)

LEMMA AppendFacts ==
  ASSUME NEW S, NEW s \in Seq(S), NEW e \in S
  PROVE  /\ Append(s, e) \in Seq(S) /\ Len(Append(s, e)) = Len(s) + 1
         /\ \A i \in DOMAIN Append(s, e) :
              \/ i \in DOMAIN s /\ Append(s, e)[i] = s[i]
              \/ i = Len(s) + 1 /\ Append(s, e)[i] = e
         /\ \A i \in DOMAIN s : i \in Nat /\ i <= Len(s)
  OBVIOUS

(* n is later than everything executed.                                    *)
Later(n) == \A i \in DOMAIN executed : executed[i] < n

(* What is in the column, or read for the heartbeat the service waits for, *)
(* is still to be executed; once an answer was built, what is in the       *)
(* column was requested after the command in it.                           *)
StillToCome ==
  /\ \A m \in taken : m <= issued
  /\ \A x \in abandoned : x.cmd <= issued
  /\ pending # 0 => Later(pending)
  /\ exchange.cmd # 0 => Later(exchange.cmd) /\ exchange.cmd <= issued
  /\ exchange.at = "answered" /\ pending # 0 => exchange.cmd < pending
  /\ exchange.at = "answered" /\ exchange.cmd # 0 => exchange.cmd \in taken
  /\ \A i \in DOMAIN executed : executed[i] \in taken

CommandInv == CommandTypeOK /\ StillToCome /\ OnceInOrder

-----------------------------------------------------------------------------
LEMMA CommandInitInv == CommandInit => CommandInv
  BY CommandAssumption
  DEF CommandInit, CommandInv, CommandTypeOK, Command, Request, Exchange, None, StillToCome,
      OnceInOrder, Later

LEMMA CommandStepInv ==
  ASSUME CommandInv, [CommandNext]_commandVars
  PROVE  CommandInv'
  <1> USE CommandAssumption
      DEF CommandInv, CommandTypeOK, Command, Request, Exchange, None, StillToCome,
      OnceInOrder, Later, lostVars
  <1>1. CASE SetPendingCommand
    <2>1. /\ issued' = issued + 1 /\ pending' = issued + 1 /\ issued' \in 0..MaxRequests
          /\ replaced' \subseteq Request /\ crossed' \subseteq Request
          /\ UNCHANGED <<exchange, abandoned, taken, executed, svc, nonce, runtime,
                         helperNonce, owed, unanswered, crashes>>
      BY <1>1 DEF SetPendingCommand, nonceVars, BeingConsumed
    <2>2. \A i \in DOMAIN executed : executed[i] \in Request /\ executed[i] \in taken
      OBVIOUS
    <2>3. \A i \in DOMAIN executed : executed[i] < issued + 1
      BY <2>2
    <2>4. QED
      BY <2>1, <2>3
  <1>2. CASE ReadPending
    <2>1. UNCHANGED <<issued, columnVars, executed, svc, nonce, runtime, nonceVars,
                      unanswered, crashes>>
      BY <1>2 DEF ReadPending
    <2>2. CASE Reads(exchange) /\ exchange' = Read(exchange) /\ UNCHANGED abandoned
      BY <2>1, <2>2 DEF Reads, Read, columnVars, nonceVars
    <2>3. ASSUME NEW x \in abandoned, Reads(x), UNCHANGED exchange,
                 abandoned' = (abandoned \ {x}) \union {Read(x)}
          PROVE  CommandInv'
      <3>1. abandoned' \subseteq Exchange
        BY <2>3 DEF Read
      <3>2. \A y \in abandoned' : y.cmd <= issued
        BY <2>3 DEF Read
      <3>3. /\ UNCHANGED <<issued, pending, taken, lostVars, exchange, executed, svc, nonce, runtime,
                           helperNonce, owed, unanswered, crashes>>
        BY <2>1, <2>3 DEF columnVars, nonceVars
      <3>4. QED
        BY <3>1, <3>2, <3>3
    <2>4. QED
      BY <1>2, <2>2, <2>3 DEF ReadPending
  <1>3. CASE ConsumePendingCommand
    BY <1>3 DEF ConsumePendingCommand, Clear, nonceVars
  <1>4. ASSUME NEW x \in abandoned, ConsumeInVain(x)
        PROVE  CommandInv'
    <2>1. /\ x \in Exchange /\ pending' = 0 /\ abandoned' \subseteq abandoned
          /\ UNCHANGED <<issued, exchange, executed, svc, nonce, runtime, helperNonce, owed, lostVars,
                         unanswered, crashes>>
      BY <1>4 DEF ConsumeInVain, Clear, nonceVars
    <2>2. x.cmd \in 0..MaxRequests /\ x.cmd <= issued
      BY <2>1
    <2>3. /\ taken \subseteq taken' /\ taken' \subseteq 1..MaxRequests
          /\ \A m \in taken' : m <= issued
      <3>1. taken' = taken \union ({x.cmd} \ {0})
        BY <1>4 DEF ConsumeInVain
      <3>2. \A m \in taken' : m \in taken \/ (m = x.cmd /\ m # 0)
        BY <3>1
      <3>3. taken \subseteq 1..MaxRequests /\ \A m \in taken : m <= issued
        OBVIOUS
      <3>4. ASSUME NEW m \in taken' PROVE m \in 1..MaxRequests /\ m <= issued
        <4>1. CASE m \in taken
          BY <3>3, <4>1
        <4>2. CASE m = x.cmd /\ m # 0
          BY <2>2, <4>2
        <4>3. QED
          BY <3>2, <4>1, <4>2
      <3>5. QED
        BY <3>1, <3>4
    <2>4. QED
      BY <2>1, <2>3
  <1>5. CASE BeginHeartbeat
    BY <1>5 DEF BeginHeartbeat, columnVars, nonceVars
  <1>6. CASE ReceiveAnswer
    <2> DEFINE n == exchange.cmd
    <2>1. /\ UNCHANGED <<issued, pending, taken, lostVars, abandoned, svc, helperNonce,
                         unanswered, crashes>>
          /\ exchange' = None /\ exchange.at = "answered" /\ n \in 0..issued
          /\ exchange \in Exchange
      BY <1>6 DEF ReceiveAnswer, columnVars
    <2>2. nonce' \in Nat /\ runtime' \in Nat /\ owed' \subseteq Restart
      <3>1. CASE n \in Restart
        <4>1. Bump(n)
          BY <1>6, <3>1 DEF ReceiveAnswer, Execute, IsRestart
        <4>2. nonce' = nonce + 1 /\ runtime' = nonce + 1 /\ owed' = owed \union {n}
          BY <4>1 DEF Bump
        <4> HIDE DEF n
        <4>3. QED
          BY <3>1, <4>2
      <3>2. CASE n \notin Restart
        BY <1>6, <3>2 DEF ReceiveAnswer, Execute, IsRestart
      <3>3. QED
        BY <3>1, <3>2
    <2>3. CASE n = 0
      <3>1. executed' = executed
        BY <1>6, <2>3 DEF ReceiveAnswer, Execute
      <3>2. QED
        BY <2>1, <2>2, <3>1
    <2>4. CASE n # 0
      <3>1. executed' = Append(executed, n) /\ n \in Request
        BY <1>6, <2>1, <2>4 DEF ReceiveAnswer, Execute
      <3>2. /\ executed' \in Seq(Request) /\ Len(executed') = Len(executed) + 1
            /\ \A i \in DOMAIN executed' :
                 \/ i \in DOMAIN executed /\ executed'[i] = executed[i]
                 \/ i = Len(executed) + 1 /\ executed'[i] = n
            /\ \A i \in DOMAIN executed : i \in Nat /\ i <= Len(executed)
        BY <3>1, AppendFacts
      <3>3. OnceInOrder'
        <4>1. \A i, j \in DOMAIN executed : i < j => executed[i] < executed[j]
          OBVIOUS
        <4>2. \A i \in DOMAIN executed : executed[i] < n
          BY <2>4
        <4>3. SUFFICES ASSUME NEW i \in DOMAIN executed', NEW j \in DOMAIN executed', i < j
                       PROVE  executed'[i] < executed'[j]
          BY DEF OnceInOrder
        <4>4. i \in DOMAIN executed /\ executed'[i] = executed[i]
          BY <3>2, <4>3
        <4>5. QED
          BY <3>2, <4>1, <4>2, <4>3, <4>4
      <3>4. StillToCome'
        BY <2>1, <2>4, <3>2
      <3>5. QED
        BY <2>1, <2>2, <3>2, <3>3, <3>4
    <2>5. QED
      BY <2>3, <2>4
  <1>7. CASE HeartbeatFails
    BY <1>7 DEF HeartbeatFails, GiveUp, columnVars, nonceVars
  <1>8. CASE CrashService
    BY <1>8 DEF CrashService, GiveUp, columnVars, nonceVars
  <1>9. CASE StartService
    BY <1>9 DEF StartService, columnVars, nonceVars
  <1>10. CASE HelperPoll \/ HelperRelaunch
    BY <1>10 DEF HelperPoll, HelperRelaunch, StartGeneration, columnVars
  <1>11. CASE UNCHANGED commandVars
    BY <1>11 DEF commandVars, columnVars, nonceVars
  <1>12. QED
    BY <1>1, <1>2, <1>3, <1>4, <1>5, <1>6, <1>7, <1>8, <1>9, <1>10, <1>11
    DEF CommandNext, ServerSide, ServiceSide

(* The invariant on which the theorems of this module rest.                *)
THEOREM CommandInvariance == CommandSpec => []CommandInv
  BY CommandInitInv, CommandStepInv, PTL DEF CommandSpec

(* Type correctness, and only restarts are owed to the helper.             *)
THEOREM CommandTypes == CommandSpec => []CommandTypeOK
  BY CommandInvariance, PTL DEF CommandInv

(* A command is executed at most once and never after a later one.         *)
THEOREM CommandsInOrder == CommandSpec => []OnceInOrder
  BY CommandInvariance, PTL DEF CommandInv

LEMMA TakenFollows == CommandInv => ExecutedWasTaken
  BY DEF CommandInv, CommandTypeOK, StillToCome, Later, ExecutedWasTaken, Request

(* A command is executed only after its column was cleared of it.          *)
THEOREM TakenFirst == CommandSpec => []ExecutedWasTaken
  BY CommandInvariance, TakenFollows, PTL

(* n is somewhere, or was lost in one of the two ways that need no fault.  *)
Accounted(n) ==
  n \in Executed \union {pending, exchange.cmd} \union replaced \union crossed

(* The service gives up on an answer only for a fault or a crash; what a   *)
(* heartbeat will clear without having read it came in between.            *)
AwaitedInv ==
  /\ unanswered = 0 /\ crashes = 0 => abandoned = {}
  /\ exchange.at = "sent" => exchange.cmd = 0
  /\ exchange.at = "read" => pending \in {0, exchange.cmd} \union crossed
  /\ LossIsExplained

LEMMA AwaitedStep == CommandInv /\ AwaitedInv /\ [CommandNext]_commandVars => AwaitedInv'
  <1> SUFFICES ASSUME CommandInv, AwaitedInv, [CommandNext]_commandVars
               PROVE  AwaitedInv'
    OBVIOUS
  <1> USE DEF CommandInv, CommandTypeOK, columnVars, lostVars, nonceVars
  <1>1. unanswered' = 0 /\ crashes' = 0 => unanswered = 0 /\ crashes = 0
    BY DEF CommandNext, ServerSide, ServiceSide, SetPendingCommand, ReadPending,
           ConsumePendingCommand, ConsumeInVain, BeginHeartbeat, ReceiveAnswer,
           HeartbeatFails, CrashService, StartService, HelperPoll, HelperRelaunch,
           commandVars
  <1>2. /\ exchange.at = "sent" => exchange.cmd = 0
        /\ exchange.at = "read" => pending \in {0, exchange.cmd} \union crossed
        /\ unanswered' = 0 /\ crashes' = 0 =>
             abandoned = {} /\ \A n \in 1..issued : Accounted(n)
    BY <1>1 DEF AwaitedInv, LossIsExplained, Accounted
  <1>3. SUFFICES
          /\ unanswered' = 0 /\ crashes' = 0 /\ abandoned = {} => abandoned' = {}
          /\ exchange'.at = "sent" => exchange'.cmd = 0
          /\ exchange'.at = "read" => pending' \in {0, exchange'.cmd} \union crossed'
          /\ (/\ unanswered' = 0 /\ crashes' = 0 /\ abandoned = {}
              /\ \A n \in 1..issued : Accounted(n))
               => \A n \in 1..issued' : Accounted(n)'
    BY <1>2 DEF AwaitedInv, LossIsExplained, Accounted
  <1>4. CASE SetPendingCommand
    <2>1. /\ issued' = issued + 1 /\ pending' = issued + 1 /\ issued \in Nat
          /\ replaced' = replaced \union ({pending} \ {0})
          /\ crossed \subseteq crossed'
          /\ exchange.at = "read" => pending' \in crossed'
          /\ UNCHANGED <<exchange, abandoned, executed>>
      BY <1>4, CommandAssumption DEF SetPendingCommand, BeingConsumed, Command
    <2>2. ASSUME NEW n \in 1..issued' PROVE n = pending' \/ n \in 1..issued
      BY <2>1, <2>2
    <2>3. QED
      BY <1>2, <2>1, <2>2 DEF Accounted, Executed
  <1>5. CASE ReadPending
    BY <1>2, <1>5 DEF ReadPending, Reads, Read, Accounted, Executed
  <1>6. CASE ConsumePendingCommand
    <2>1. /\ exchange.at = "read" /\ pending' = 0
          /\ UNCHANGED <<issued, abandoned, executed, replaced, crossed>>
          /\ exchange'.at = "answered" /\ exchange'.cmd = exchange.cmd
      BY <1>6 DEF ConsumePendingCommand, Clear, Exchange, None
    <2>2. QED
      BY <1>2, <2>1 DEF Accounted, Executed
  <1>7. ASSUME NEW x \in abandoned, ConsumeInVain(x)
        PROVE  /\ abandoned # {} /\ pending' = 0
               /\ UNCHANGED <<exchange, crossed>>
               /\ abandoned = {} => abandoned' = {}
    BY <1>7 DEF ConsumeInVain, Clear
  <1>8. CASE BeginHeartbeat
    BY <1>2, <1>8 DEF BeginHeartbeat, None, Accounted, Executed
  <1>9. CASE ReceiveAnswer
    <2>1. /\ exchange' = None /\ UNCHANGED <<issued, pending, abandoned, replaced, crossed>>
          /\ executed' = IF exchange.cmd = 0 THEN executed
                         ELSE Append(executed, exchange.cmd)
      BY <1>9 DEF ReceiveAnswer, Execute
    <2>2. exchange.cmd # 0 => exchange.cmd \in Request
      BY <1>9 DEF ReceiveAnswer, Exchange, None, Command, Request
    <2>3. Executed \subseteq Executed' /\ (exchange.cmd # 0 => exchange.cmd \in Executed')
      <3>1. CASE exchange.cmd = 0
        BY <2>1, <3>1 DEF Executed
      <3>2. CASE exchange.cmd # 0
        <4>1. /\ Len(executed') = Len(executed) + 1
              /\ executed \in Seq(Request) /\ executed' \in Seq(Request)
              /\ executed'[Len(executed) + 1] = exchange.cmd
              /\ \A i \in DOMAIN executed : executed'[i] = executed[i]
          BY <2>1, <2>2, <3>2
        <4>2. DOMAIN executed \subseteq DOMAIN executed'
              /\ Len(executed) + 1 \in DOMAIN executed'
          BY <4>1
        <4>3. QED
          BY <4>1, <4>2 DEF Executed
      <3>3. QED
        BY <3>1, <3>2
    <2>4. ASSUME NEW n \in 1..issued PROVE n # 0
      BY CommandAssumption DEF Command
    <2>5. exchange'.at = "none"
      BY <2>1 DEF None
    <2>6. QED
      BY <1>2, <2>1, <2>3, <2>4, <2>5 DEF Accounted
  <1>10. CASE HeartbeatFails \/ CrashService
    <2>1. exchange' = None
      BY <1>10 DEF HeartbeatFails, CrashService, GiveUp
    <2>2. unanswered' # 0 \/ crashes' # 0
      BY <1>10 DEF HeartbeatFails, CrashService
    <2>3. exchange'.at = "none"
      BY <2>1 DEF None
    <2>4. QED
      BY <2>2, <2>3
  <1>11. CASE StartService
    BY <1>2, <1>11 DEF StartService, Accounted, Executed
  <1>12. CASE HelperPoll \/ HelperRelaunch
    BY <1>2, <1>12 DEF HelperPoll, HelperRelaunch, Accounted, Executed
  <1>13. CASE UNCHANGED commandVars
    BY <1>2, <1>13 DEF commandVars, Accounted, Executed
  <1>14. QED
    BY <1>2, <1>4, <1>5, <1>6, <1>7, <1>8, <1>9, <1>10, <1>11, <1>12, <1>13
    DEF CommandNext, ServerSide, ServiceSide

(* Every request ever made is executed, in its column or on its way, unless *)
(* an answer was lost, the service crashed, a later request took its place  *)
(* or it was cleared unseen by a heartbeat that had already read.           *)
THEOREM NothingElseLoses == CommandSpec => []LossIsExplained
  <1>1. CommandInit => AwaitedInv
    BY DEF CommandInit, AwaitedInv, LossIsExplained, None
  <1>2. AwaitedInv => LossIsExplained
    BY DEF AwaitedInv
  <1>3. QED
    BY <1>1, <1>2, CommandInvariance, AwaitedStep, PTL DEF CommandSpec
==============================================================================
