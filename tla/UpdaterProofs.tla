---------------------------- MODULE UpdaterProofs ----------------------------
(***************************************************************************)
(* Self-update: types, no rollback, the swap script and the budget of      *)
(* attempts, for any releases, any number of checks at the same time and   *)
(* any faults.                                                             *)
(***************************************************************************)
EXTENDS Updater, TLAPS

Checks == [Checker -> Check \union {NoCheck}]

(* A check that got past the record has attempts left.                     *)
Budgeted ==
  \A k \in Checker : checks[k].step \in {"download", "save", "saving"} =>
    checks[k].rec.count < maxInstallAttempts

Typed == TypeOK /\ Budgeted

-----------------------------------------------------------------------------
(* Checks *)

LEMMA StepNames ==
  ASSUME NEW c \in Check \union {NoCheck}
  PROVE  /\ c.step \in CheckStep \union {"none"}
         /\ c.step # "none" => c \in Check /\ c # NoCheck
         /\ c = NoCheck <=> c.step = "none"
         /\ c \in Check => c.info \in Release /\ c.rec \in Attempt
  BY DEF Check, NoCheck, CheckStep

LEMMA GoesFacts ==
  ASSUME NEW k \in Checker, NEW s \in CheckStep, checks \in Checks,
         checks[k].step # "none", Goes(k, s)
  PROVE  /\ checks' \in Checks
         /\ checks'[k].step = s
         /\ checks'[k].info = checks[k].info /\ checks'[k].rec = checks[k].rec
         /\ \A j \in Checker : j # k => checks'[j] = checks[j]
  <1> DEFINE c == [checks[k] EXCEPT !.step = s]
  <1>1. checks[k] \in Check
    BY StepNames DEF Checks
  <1>2. c \in Check /\ c.step = s /\ c.info = checks[k].info /\ c.rec = checks[k].rec
    BY <1>1 DEF Check
  <1>3. checks' = [checks EXCEPT ![k] = c]
    BY DEF Goes
  <1> HIDE DEF c
  <1>4. QED
    BY <1>2, <1>3 DEF Checks

LEMMA EndsFacts ==
  ASSUME NEW k \in Checker, checks \in Checks, Ends(k)
  PROVE  /\ checks' \in Checks
         /\ checks'[k] = NoCheck
         /\ \A j \in Checker : j # k => checks'[j] = checks[j]
  BY DEF Ends, Checks

LEMMA NoneFacts ==
  ASSUME checks' = [k \in Checker |-> NoCheck]
  PROVE  /\ checks' \in Checks
         /\ \A k \in Checker : checks'[k] = NoCheck /\ checks'[k].step = "none"
  BY DEF Checks, NoCheck

LEMMA LoadedRecord == attempt \in Attempt \union {Torn} => loadAttempt \in Attempt
  BY DEF loadAttempt, Attempt, ZeroRecord, maxInstallAttempts

-----------------------------------------------------------------------------
(* Types *)

LEMMA TypedInit == Init => Typed
  <1> SUFFICES ASSUME Init PROVE Typed
    OBVIOUS
  <1>1. \A k \in Checker : checks[k] = NoCheck /\ checks[k].step = "none"
    BY DEF Init, NoCheck
  <1>2. exe \in Release /\ Torn \notin Release
    BY UpdaterAssumption DEF Init
  <1>3. ZeroRecord \in Attempt
    BY DEF ZeroRecord, Attempt, maxInstallAttempts
  <1>4. Budgeted
    BY <1>1 DEF Budgeted
  <1>5. /\ checks \in [Checker -> Check \union {NoCheck}]
        /\ scripts \in [Checker -> ScriptStep]
    BY DEF Init, ScriptStep
  <1>6. cooled \in BOOLEAN /\ overlapped \in BOOLEAN
    BY DEF Init
  <1>7. /\ latest \in Release /\ served \in Release /\ published \in Nat
        /\ staged \in Release \union {Torn, Absent} /\ attempt \in Attempt
        /\ svc = "up" /\ faults \in Nat /\ installs \in 0..(maxInstallAttempts + 1)
    BY <1>3 DEF Init, maxInstallAttempts
  <1>8. TypeOK
    BY ONLY <1>1, <1>2, <1>5, <1>6, <1>7 DEF TypeOK
  <1>9. QED
    BY <1>4, <1>8 DEF Typed

(* What an action of one check changes in the types.                       *)
LEMMA TypedCheck ==
  ASSUME Typed, NEW k \in Checker, checks[k].step # "none",
         NEW s \in CheckStep,
         \/ Goes(k, s) /\ (s \in {"download", "save", "saving"} =>
                             checks[k].step \in {"download", "save", "saving"})
         \/ Ends(k)
  PROVE  checks' \in Checks /\ Budgeted' /\ svc # "down"
  <1>1. checks \in Checks /\ svc # "down"
    BY StepNames DEF Typed, TypeOK, Checks
  <1>2. CASE Ends(k)
    <2>1. /\ checks' \in Checks /\ checks'[k].step = "none"
          /\ \A j \in Checker : j # k => checks'[j] = checks[j]
      BY <1>1, <1>2, EndsFacts DEF NoCheck
    <2>2. QED
      BY <1>1, <2>1 DEF Typed, Budgeted
  <1>3. CASE /\ Goes(k, s)
             /\ s \in {"download", "save", "saving"} =>
                  checks[k].step \in {"download", "save", "saving"}
    BY <1>1, <1>3, GoesFacts DEF Typed, Budgeted
  <1>4. QED
    BY <1>2, <1>3

LEMMA TypedStep == Typed /\ [Next]_vars => Typed'
  <1> SUFFICES ASSUME Typed, [Next]_vars PROVE Typed'
    OBVIOUS
  <1>0. checks \in Checks
    BY DEF Typed, TypeOK, Checks
  <1> USE UpdaterAssumption
      DEF Typed, TypeOK, serverVars, recordVars, historyVars, maxInstallAttempts
  <1>1. ASSUME NEW n \in Release, Publish(n) PROVE Typed'
    BY <1>1 DEF Publish, Budgeted
  <1>2. ASSUME NEW k \in Checker, BeginCheck(k) PROVE Typed'
    <2> DEFINE c == [step |-> "offered", info |-> latest, rec |-> ZeroRecord]
    <2>1. c \in Check /\ c.step = "offered"
      BY DEF Check, CheckStep, Attempt, ZeroRecord
    <2>2. /\ checks' = [checks EXCEPT ![k] = c] /\ svc = "up"
          /\ UNCHANGED <<serverVars, exe, staged, recordVars, svc, scripts, faults,
                         historyVars>>
      BY <1>2 DEF BeginCheck
    <2> HIDE DEF c
    <2>3. checks' \in Checks /\ Budgeted'
      BY <1>0, <2>1, <2>2 DEF Checks, Budgeted
    <2>4. QED
      BY <2>2, <2>3 DEF Checks
  <1>3. ASSUME NEW k \in Checker, ShouldAttempt(k) PROVE Typed'
    <2> DEFINE n == checks[k].info
               r == IF FreshBudget(n) THEN [version |-> n, count |-> 0] ELSE loadAttempt
               c == [step |-> "download", info |-> n, rec |-> r]
    <2>1. /\ checks[k].step = "offered" /\ n \in Release /\ svc # "down"
      BY <1>0, <1>3, StepNames DEF ShouldAttempt, At, Checks
    <2>2. UNCHANGED <<serverVars, exe, staged, recordVars, svc, scripts, faults>>
      BY <1>3 DEF ShouldAttempt
    <2>3. CASE ~MayAttempt(n) /\ Ends(k) /\ UNCHANGED historyVars
      <3>1. checks' \in Checks /\ Budgeted'
        BY <2>1, <2>3, TypedCheck DEF CheckStep
      <3>2. QED
        BY <2>1, <2>2, <2>3, <3>1 DEF Checks
    <2>4. CASE /\ MayAttempt(n)
               /\ checks' = [checks EXCEPT ![k] = c]
               /\ installs' = IF attempt # Torn /\ FreshBudget(n) THEN 0 ELSE installs
               /\ overlapped' = (overlapped \/ UnderWay(k))
      <3>1. r \in Attempt /\ r.count < maxInstallAttempts
        BY <2>1, <2>4, LoadedRecord DEF MayAttempt, Attempt
      <3>2. c \in Check /\ c.step = "download" /\ c.rec = r
        BY <2>1, <3>1 DEF Check, CheckStep
      <3>3. overlapped' \in BOOLEAN
        <4>1. UnderWay(k) \in BOOLEAN
          BY DEF UnderWay
        <4>2. QED
          BY ONLY <2>4, <4>1, overlapped \in BOOLEAN
      <3>4. installs' \in 0..(maxInstallAttempts + 1)
        BY <2>4
      <3> HIDE DEF c, r
      <3>5. checks' \in Checks /\ Budgeted'
        BY <1>0, <2>4, <3>1, <3>2 DEF Checks, Budgeted
      <3>6. QED
        BY <2>1, <2>2, <3>3, <3>4, <3>5 DEF Checks
    <2>5. QED
      BY <1>3, <2>3, <2>4 DEF ShouldAttempt
  <1>4. ASSUME NEW k \in Checker, Download(k) \/ DownloadFails(k) PROVE Typed'
    <2>1. checks[k].step = "download"
      BY <1>4 DEF Download, DownloadFails, At
    <2>2. checks' \in Checks /\ Budgeted' /\ svc # "down"
      BY <1>4, <2>1, TypedCheck DEF Download, DownloadFails, CheckStep
    <2>3. QED
      BY <1>4, <2>2 DEF Download, DownloadFails, Checks
  <1>5. ASSUME NEW k \in Checker, BeginSave(k) PROVE Typed'
    <2>1. checks' \in Checks /\ Budgeted' /\ svc # "down"
      BY <1>5, TypedCheck DEF BeginSave, At, CheckStep
    <2>2. QED
      BY <1>5, <2>1 DEF BeginSave, Checks
  <1>6. ASSUME NEW k \in Checker, SaveAttempt(k) PROVE Typed'
    <2>1. checks' \in Checks /\ Budgeted' /\ svc # "down"
      BY <1>6, TypedCheck DEF SaveAttempt, At, CheckStep
    <2>2. /\ checks[k].step = "saving" /\ checks[k].rec \in Attempt
          /\ checks[k].rec.count < maxInstallAttempts
      BY <1>0, <1>6, StepNames DEF SaveAttempt, At, Budgeted, Checks
    <2>3. Counted(checks[k].rec) \in Attempt
      BY <2>2 DEF Counted, Attempt
    <2>4. QED
      BY <1>6, <2>1, <2>3 DEF SaveAttempt, Checks
  <1>7. ASSUME NEW k \in Checker, BeginStage(k) \/ Stage(k) PROVE Typed'
    <2>1. checks' \in Checks /\ Budgeted' /\ svc # "down"
      BY <1>7, TypedCheck DEF BeginStage, Stage, At, CheckStep
    <2>2. checks[k].info \in Release
      BY <1>0, <1>7, StepNames DEF BeginStage, Stage, At, Checks
    <2>3. QED
      BY <1>7, <2>1, <2>2 DEF BeginStage, Stage, Checks
  <1>8. ASSUME NEW k \in Checker, Launch(k) \/ InstallFails(k) PROVE Typed'
    <2>1. checks' \in Checks /\ Budgeted' /\ svc # "down"
      BY <1>8, TypedCheck DEF Launch, InstallFails, At, CheckStep
    <2>2. scripts' \in [Checker -> ScriptStep]
      BY <1>8 DEF Launch, InstallFails, ScriptStep
    <2>3. QED
      BY <1>8, <2>1, <2>2 DEF Launch, InstallFails, Checks
  <1>9. ASSUME NEW k \in Checker,
               RequestStop(k) \/ WaitForStop(k) \/ WaitEnds(k) \/ MoveFails(k)
        PROVE  Typed'
    <2>1. scripts' \in [Checker -> ScriptStep]
      BY <1>9 DEF RequestStop, WaitForStop, WaitEnds, MoveFails, InScript, ScriptStep
    <2>2. QED
      BY <1>9, <2>1 DEF RequestStop, WaitForStop, WaitEnds, MoveFails, Budgeted
  <1>10. ASSUME NEW k \in Checker, Move(k) \/ StartAgain(k) PROVE Typed'
    <2>1. scripts' \in [Checker -> ScriptStep]
      BY <1>10 DEF Move, StartAgain, InScript, ScriptStep
    <2>2. QED
      BY <1>10, <2>1 DEF Move, CanMove, StartAgain, Budgeted
  <1>11. CASE ServiceStops
    BY <1>11, NoneFacts DEF ServiceStops, Checks, Budgeted
  <1>12. CASE CoolsDown
    BY <1>12 DEF CoolsDown, Budgeted
  <1>13. CASE Restart
    <2>1. scripts' \in [Checker -> ScriptStep]
      BY <1>13 DEF Restart, ScriptStep
    <2>2. QED
      BY <1>13, <2>1, NoneFacts DEF Restart, Checks, Budgeted
  <1>14. CASE UNCHANGED vars
    BY <1>14 DEF vars, Budgeted
  <1>15. QED
    BY <1>1, <1>2, <1>3, <1>4, <1>5, <1>6, <1>7, <1>8, <1>9, <1>10, <1>11, <1>12,
       <1>13, <1>14
    DEF Next, CheckStepOf, ScriptStepOf

(* The types, with the attempts that a check on its way has left.          *)
LEMMA AlwaysTyped == Spec => []Typed
  BY TypedInit, TypedStep, PTL DEF Spec

(* Type correctness; a service that is not running has no check, and one   *)
(* that runs has a whole executable.                                       *)
THEOREM TypeCorrect == Spec => []TypeOK
  BY AlwaysTyped, PTL DEF Typed

-----------------------------------------------------------------------------
(* What replaces an executable is newer than the version in it *)

OnlyNewer ==
  exe # Torn =>
    /\ \A k \in Checker : checks[k].step # "none" => IsNewer(checks[k].info)
    /\ staged \in Release => IsNewer(staged)

(* Checks end or go on with the release they were told of.                 *)
SameReleases ==
  \A k \in Checker : checks'[k].step # "none" =>
    checks[k].step # "none" /\ checks'[k].info = checks[k].info

LEMMA NewerFrame ==
  ASSUME OnlyNewer, SameReleases, exe' = exe, staged' \in {staged, Torn, Absent}
  PROVE  OnlyNewer'
  BY UpdaterAssumption DEF OnlyNewer, SameReleases, IsNewer

LEMMA GoesOn ==
  ASSUME Typed, NEW k \in Checker, checks[k].step # "none",
         Ends(k) \/ \E s \in CheckStep : Goes(k, s)
  PROVE  SameReleases
  BY GoesFacts, EndsFacts DEF SameReleases, Typed, TypeOK, Checks, NoCheck

LEMMA NewerStep == Typed /\ OnlyNewer /\ [Next]_vars => OnlyNewer'
  <1> SUFFICES ASSUME Typed, OnlyNewer, [Next]_vars PROVE OnlyNewer'
    OBVIOUS
  <1>0. checks \in Checks /\ (svc # "down" => exe # Torn)
    BY DEF Typed, TypeOK, Checks
  <1>a. UNCHANGED checks => SameReleases
    BY DEF SameReleases
  <1> USE DEF serverVars, recordVars, historyVars
  <1>1. ASSUME NEW n \in Release, Publish(n) PROVE OnlyNewer'
    BY <1>a, <1>1, NewerFrame DEF Publish
  <1>2. ASSUME NEW k \in Checker, BeginCheck(k) PROVE OnlyNewer'
    <2> DEFINE c == [step |-> "offered", info |-> latest, rec |-> ZeroRecord]
    <2>1. /\ checks' = [checks EXCEPT ![k] = c] /\ IsNewer(latest)
          /\ UNCHANGED <<exe, staged>>
      BY <1>2 DEF BeginCheck
    <2>2. /\ checks'[k].info = latest
          /\ \A j \in Checker : j # k => checks'[j] = checks[j]
      BY <1>0, <2>1 DEF Checks
    <2>3. QED
      BY <2>1, <2>2 DEF OnlyNewer, IsNewer
  <1>3. ASSUME NEW k \in Checker, ShouldAttempt(k) PROVE OnlyNewer'
    <2> DEFINE n == checks[k].info
               r == IF FreshBudget(n) THEN [version |-> n, count |-> 0] ELSE loadAttempt
    <2>1. UNCHANGED <<exe, staged>> /\ checks[k].step # "none"
      BY <1>3 DEF ShouldAttempt, At
    <2>2. CASE Ends(k)
      BY <2>1, <2>2, GoesOn, NewerFrame
    <2>3. CASE checks' = [checks EXCEPT ![k] =
                            [step |-> "download", info |-> n, rec |-> r]]
      <3>1. SameReleases
        <4> HIDE DEF n, r
        <4>1. /\ checks'[k].info = n
              /\ \A j \in Checker : j # k => checks'[j] = checks[j]
          BY <1>0, <2>3 DEF Checks
        <4>2. QED
          BY <2>1, <4>1 DEF SameReleases, n
      <3>2. QED
        BY <2>1, <3>1, NewerFrame
    <2>4. QED
      BY <1>3, <2>2, <2>3 DEF ShouldAttempt
  <1>4. ASSUME NEW k \in Checker,
               \/ Download(k) \/ DownloadFails(k) \/ BeginSave(k) \/ SaveAttempt(k)
               \/ BeginStage(k) \/ Launch(k) \/ InstallFails(k)
        PROVE  OnlyNewer'
    <2>1. checks[k].step # "none" /\ (Ends(k) \/ \E s \in CheckStep : Goes(k, s))
      BY <1>4 DEF Download, DownloadFails, BeginSave, SaveAttempt, BeginStage, Launch,
                  InstallFails, At, CheckStep
    <2>2. exe' = exe /\ staged' \in {staged, Torn}
      BY <1>4 DEF Download, DownloadFails, BeginSave, SaveAttempt, BeginStage, Launch,
                  InstallFails
    <2>3. QED
      BY <2>1, <2>2, GoesOn, NewerFrame
  <1>5. ASSUME NEW k \in Checker, Stage(k) PROVE OnlyNewer'
    <2>1. /\ checks[k].step # "none" /\ Goes(k, "launch")
          /\ exe' = exe /\ staged' = checks[k].info
      BY <1>5 DEF Stage, At
    <2>2. SameReleases
      BY <2>1, GoesOn DEF CheckStep
    <2>3. QED
      BY <2>1, <2>2 DEF OnlyNewer, SameReleases, IsNewer
  <1>6. ASSUME NEW k \in Checker,
               RequestStop(k) \/ WaitForStop(k) \/ WaitEnds(k) \/ MoveFails(k)
               \/ StartAgain(k)
        PROVE  OnlyNewer'
    BY <1>a, <1>6, NewerFrame DEF RequestStop, WaitForStop, WaitEnds, MoveFails, StartAgain
  <1>7. ASSUME NEW k \in Checker, Move(k) PROVE OnlyNewer'
    <2>1. staged' = Absent /\ UNCHANGED checks /\ svc = "down"
      BY <1>7 DEF Move, CanMove
    <2>2. \A j \in Checker : checks[j].step = "none"
      BY <2>1 DEF Typed, TypeOK, NoCheck
    <2>3. QED
      BY <2>1, <2>2, UpdaterAssumption DEF OnlyNewer
  <1>8. CASE ServiceStops \/ Restart
    BY <1>8, NoneFacts, NewerFrame DEF ServiceStops, Restart, SameReleases
  <1>9. CASE CoolsDown
    BY <1>a, <1>9, NewerFrame DEF CoolsDown
  <1>10. CASE UNCHANGED vars
    BY <1>a, <1>10, NewerFrame DEF vars
  <1>11. QED
    BY <1>1, <1>2, <1>3, <1>4, <1>5, <1>6, <1>7, <1>8, <1>9, <1>10
    DEF Next, CheckStepOf, ScriptStepOf

LEMMA NewerInit == Init => OnlyNewer
  BY UpdaterAssumption DEF Init, OnlyNewer, NoCheck

(* Only the script's move replaces the executable.                         *)
LEMMA ReplacedByNewer ==
  ASSUME Typed, OnlyNewer, [Next]_vars, exe # Torn, exe' # Torn, exe' # exe
  PROVE  /\ exe \in Release /\ exe' \in Release
         /\ IF {exe', Built[exe]} \subseteq Parsable THEN exe' > Built[exe]
            ELSE exe' # Built[exe]
  <1>1. PICK k \in Checker : Move(k)
    BY DEF Next, Publish, BeginCheck, CheckStepOf, ShouldAttempt, Download, BeginSave,
           SaveAttempt, BeginStage, Stage, Launch, DownloadFails, InstallFails,
           ScriptStepOf, RequestStop, WaitForStop, StartAgain, WaitEnds, MoveFails,
           ServiceStops, CoolsDown, Restart, vars, serverVars
  <1>2. exe' = staged /\ staged # Absent
    BY <1>1 DEF Move, CanMove
  <1>3. exe \in Release /\ staged \in Release
    BY <1>2 DEF Typed, TypeOK
  <1>4. IsNewer(staged)
    BY <1>3 DEF OnlyNewer
  <1>5. QED
    BY <1>2, <1>3, <1>4 DEF IsNewer

(* Whatever overlaps or fails, the executable that is replaced does not    *)
(* have the version the new one was advertised under, and the new one has  *)
(* a higher version, but for a wrong label or a version that does not      *)
(* parse.  Without these exceptions it may be lower: with versions 1, 2    *)
(* and 1 compiled into releases 1, 2 and 3, an agent on 2 that is offered  *)
(* 3 ends on 1.                                                            *)
THEOREM NeverRollsBack == Spec => NoRollback
  <1>1. Typed /\ OnlyNewer /\ [Next]_vars =>
          [exe # Torn /\ exe' # Torn /\ exe' # exe =>
             /\ exe' # Built[exe]
             /\ Built[exe'] = exe' /\ {exe', Built[exe]} \subseteq Parsable
                  => Built[exe'] > Built[exe]]_vars
    <2> SUFFICES ASSUME Typed, OnlyNewer, [Next]_vars, exe # Torn, exe' # Torn,
                        exe' # exe
                 PROVE  /\ exe' # Built[exe]
                        /\ Built[exe'] = exe' /\ {exe', Built[exe]} \subseteq Parsable
                             => Built[exe'] > Built[exe]
      OBVIOUS
    <2>1. /\ exe \in Release /\ exe' \in Release
          /\ IF {exe', Built[exe]} \subseteq Parsable THEN exe' > Built[exe]
             ELSE exe' # Built[exe]
      BY ReplacedByNewer
    <2>2. exe' \in Nat /\ Built[exe] \in Nat
      BY <2>1, UpdaterAssumption
    <2>3. QED
      BY <2>1, <2>2
  <1>2. QED
    BY <1>1, AlwaysTyped, NewerInit, NewerStep, PTL DEF Spec, NoRollback

-----------------------------------------------------------------------------
(* While checks do not overlap and nothing fails, at most one of them is   *)
(* past the record or has its script under way.                            *)

Deciding == {"none", "offered"}
Before   == {"download", "save", "saving"}
After    == {"stage", "staging", "launch"}

Busy(k) == checks[k].step \notin Deciding \/ scripts[k] # "none"

OneAtATime ==
  /\ \A j, k \in Checker : Busy(j) /\ Busy(k) => j = k
  /\ \A k \in Checker : scripts[k] # "none" => checks[k].step = "none"

(* A script stops a service, and starts it, with a whole executable; a     *)
(* service that is not up has its script.                                  *)
ScriptInTime ==
  /\ exe # Torn
  /\ \A k \in Checker :
       /\ At(k, "launch") \/ scripts[k] \in {"stop", "wait", "swap"} => staged \in Release
       /\ scripts[k] = "stop" => svc = "up"
       /\ scripts[k] = "wait" => svc # "up"
       /\ scripts[k] \in {"swap", "start"} => svc = "down"
  /\ svc # "up" => \E k \in Checker : scripts[k] \in {"wait", "swap", "start"}

(* The record counts the installations, and the one about to be made.      *)
Recorded ==
  /\ attempt # Torn => installs <= attempt.count
  /\ attempt = Torn => \E k \in Checker : At(k, "saving")
  /\ \A k \in Checker :
       /\ checks[k].step \in Before => installs <= checks[k].rec.count
       /\ checks[k].step \in After => attempt # Torn /\ installs < attempt.count

QuietInv ==
  ~overlapped /\ faults = 0 => OneAtATime /\ ScriptInTime /\ Recorded

LEMMA QuietInit == Init => QuietInv
  <1> SUFFICES ASSUME Init PROVE OneAtATime /\ ScriptInTime /\ Recorded
    BY DEF QuietInv
  <1>1. \A k \in Checker : checks[k].step = "none" /\ scripts[k] = "none"
    BY DEF Init, NoCheck
  <1>2. attempt.count = 0 /\ installs = 0 /\ attempt # Torn /\ svc = "up" /\ exe # Torn
    BY UpdaterAssumption DEF Init, ZeroRecord, Attempt, maxInstallAttempts
  <1>3. QED
    BY <1>1, <1>2
    DEF OneAtATime, Busy, Deciding, ScriptInTime, At, Recorded, Before, After

(* A check past the record is the only one, and the service is up.         *)
LEMMA ActiveCheck ==
  ASSUME Typed, OneAtATime, ScriptInTime, NEW k \in Checker,
         checks[k].step \notin Deciding
  PROVE  /\ svc = "up"
         /\ \A j \in Checker : scripts[j] = "none"
         /\ \A j \in Checker : j # k => checks[j].step \in Deciding
  BY DEF OneAtATime, ScriptInTime, Busy, Deciding

(* A script under way is the only one, and no check is past the record.    *)
LEMMA ActiveScript ==
  ASSUME OneAtATime, NEW k \in Checker, scripts[k] # "none"
  PROVE  /\ \A j \in Checker : j # k => scripts[j] = "none"
         /\ \A j \in Checker : checks[j].step \in Deciding
  BY DEF OneAtATime, Busy, Deciding

(* The history variables tell of overlaps and faults for good.             *)
LEMMA QuietBefore ==
  ASSUME Typed, [Next]_vars, ~overlapped', faults' = 0
  PROVE  ~overlapped /\ faults = 0
  <1>1. faults \in Nat /\ overlapped \in BOOLEAN
    BY DEF Typed, TypeOK
  <1>2. faults = 0
    BY <1>1 DEF Next, Publish, BeginCheck, CheckStepOf, ShouldAttempt, Download, BeginSave,
           SaveAttempt, BeginStage, Stage, Launch, DownloadFails, InstallFails,
           ScriptStepOf, RequestStop, WaitForStop, StartAgain, WaitEnds, Move, MoveFails,
           ServiceStops, CoolsDown, Restart, vars
  <1>3. overlapped' = overlapped \/ \E k \in Checker : ShouldAttempt(k)
    BY DEF Next, Publish, BeginCheck, CheckStepOf, Download, BeginSave,
           SaveAttempt, BeginStage, Stage, Launch, DownloadFails, InstallFails,
           ScriptStepOf, RequestStop, WaitForStop, StartAgain, WaitEnds, Move, MoveFails,
           ServiceStops, CoolsDown, Restart, vars, historyVars
  <1>4. ASSUME NEW k \in Checker, ShouldAttempt(k) PROVE ~overlapped
    <2>1. \/ overlapped' = (overlapped \/ UnderWay(k))
          \/ overlapped' = overlapped
      BY <1>4 DEF ShouldAttempt, historyVars
    <2>2. ASSUME overlapped PROVE FALSE
      <3>1. overlapped' = TRUE
        BY <1>1, <2>1, <2>2, Zenon
      <3>2. QED
        BY <3>1
    <2>3. QED
      BY <2>2
  <1>5. QED
    BY <1>2, <1>3, <1>4

LEMMA QuietFrame ==
  ASSUME OneAtATime, ScriptInTime, Recorded,
         UNCHANGED <<checks, scripts, svc, exe, staged, attempt, installs>>
  PROVE  OneAtATime' /\ ScriptInTime' /\ Recorded'
  BY DEF OneAtATime, Busy, ScriptInTime, Recorded, At

(* The check past the record goes on, or ends.                             *)
LEMMA ActiveGoesOn ==
  ASSUME Typed, OneAtATime, ScriptInTime, NEW k \in Checker,
         checks[k].step \notin Deciding, NEW s \in CheckStep,
         Goes(k, s) \/ Ends(k), UNCHANGED scripts
  PROVE  /\ OneAtATime'
         /\ \A j \in Checker : j # k => checks'[j] = checks[j] /\ checks[j].step \in Deciding
         /\ Goes(k, s) => checks'[k].step = s /\ checks'[k].rec = checks[k].rec
         /\ Ends(k) => checks'[k].step = "none"
  <1>1. checks \in Checks /\ checks[k].step # "none"
    BY DEF Typed, TypeOK, Checks, Deciding
  <1>2. \A j \in Checker : j # k => checks'[j] = checks[j]
    BY <1>1, GoesFacts, EndsFacts
  <1>3. /\ Goes(k, s) => checks'[k].step = s /\ checks'[k].rec = checks[k].rec
        /\ Ends(k) => checks'[k].step = "none"
    BY <1>1, GoesFacts, EndsFacts DEF NoCheck
  <1>4. \A j \in Checker : scripts'[j] = "none" /\ (j # k => checks[j].step \in Deciding)
    BY ActiveCheck
  <1>5. OneAtATime'
    BY <1>2, <1>4 DEF OneAtATime, Busy, Deciding
  <1>6. QED
    BY <1>2, <1>3, <1>4, <1>5

LEMMA QuietChecks ==
  ASSUME Typed, OneAtATime, ScriptInTime, Recorded, NEW k \in Checker,
         faults' = 0, faults = 0, ~overlapped', ~overlapped,
         BeginCheck(k) \/ CheckStepOf(k) \/ DownloadFails(k) \/ InstallFails(k)
  PROVE  OneAtATime' /\ ScriptInTime' /\ Recorded'
  <1>0. /\ checks \in Checks /\ scripts \in [Checker -> ScriptStep]
        /\ attempt \in Attempt \union {Torn} /\ installs \in Nat
        /\ \A j \in Checker : checks[j].step \in CheckStep \union {"none"}
        /\ checks[k].step # "none" => /\ checks[k].info \in Release
                                      /\ checks[k].rec \in Attempt
    BY StepNames DEF Typed, TypeOK, Checks
  <1> USE DEF serverVars, recordVars, historyVars
  <1>1. CASE BeginCheck(k)
    <2> DEFINE c == [step |-> "offered", info |-> latest, rec |-> ZeroRecord]
    <2>1. /\ checks' = [checks EXCEPT ![k] = c] /\ scripts[k] = "none"
          /\ checks[k] = NoCheck
          /\ UNCHANGED <<scripts, svc, exe, staged, attempt, installs>>
      BY <1>1 DEF BeginCheck
    <2>2. /\ checks'[k].step = "offered" /\ checks[k].step = "none"
          /\ \A j \in Checker : j # k => checks'[j] = checks[j]
      BY <1>0, <2>1 DEF Checks, NoCheck
    <2>3. OneAtATime'
      BY <2>1, <2>2 DEF OneAtATime, Busy, Deciding
    <2>4. ScriptInTime'
      BY <2>1, <2>2 DEF ScriptInTime, At
    <2>5. Recorded'
      BY <2>1, <2>2 DEF Recorded, At, Before, After
    <2>6. QED
      BY <2>3, <2>4, <2>5
  <1>2. CASE ShouldAttempt(k)
    <2> DEFINE n == checks[k].info
               r == IF FreshBudget(n) THEN [version |-> n, count |-> 0] ELSE loadAttempt
               c == [step |-> "download", info |-> n, rec |-> r]
    <2>1. /\ checks[k].step = "offered"
          /\ UNCHANGED <<scripts, svc, exe, staged, attempt>>
      BY <1>2 DEF ShouldAttempt, At
    <2>2. CASE Ends(k) /\ UNCHANGED historyVars
      <3>1. /\ checks'[k].step = "none"
            /\ \A j \in Checker : j # k => checks'[j] = checks[j]
        BY <1>0, <2>2, EndsFacts DEF NoCheck
      <3>2. OneAtATime'
        BY <2>1, <3>1 DEF OneAtATime, Busy, Deciding
      <3>3. ScriptInTime'
        BY <2>1, <3>1 DEF ScriptInTime, At
      <3>4. Recorded'
        BY <2>1, <2>2, <3>1 DEF Recorded, At, Before, After
      <3>5. QED
        BY <3>2, <3>3, <3>4
    <2>3. CASE /\ checks' = [checks EXCEPT ![k] = c]
               /\ installs' = IF attempt # Torn /\ FreshBudget(n) THEN 0 ELSE installs
               /\ overlapped' = (overlapped \/ UnderWay(k))
      <3>1. ~UnderWay(k)
        <4>1. ASSUME UnderWay(k) PROVE overlapped'
          BY ONLY <2>3, <4>1, Zenon
        <4>2. QED
          BY <4>1
      <3>2. /\ \A j \in Checker : scripts[j] = "none"
            /\ \A j \in Checker : j # k => checks[j].step \in Deciding
        BY <3>1 DEF UnderWay, Deciding
      <3>3. attempt # Torn /\ attempt \in Attempt
        BY <1>0, <2>1, <3>2 DEF Recorded, At, Deciding
      <3>4. installs' <= r.count /\ installs' <= attempt.count
        <4>1. CASE FreshBudget(n)
          BY <2>3, <3>3, <4>1 DEF Attempt
        <4>2. CASE ~FreshBudget(n)
          BY <2>3, <3>3, <4>2 DEF Recorded, loadAttempt
        <4>3. QED
          BY <4>1, <4>2
      <3> HIDE DEF n, r
      <3>5. /\ checks'[k].step = "download" /\ checks'[k].rec = r
            /\ \A j \in Checker : j # k => checks'[j] = checks[j]
        BY <1>0, <2>3 DEF Checks
      <3>6. OneAtATime'
        BY <2>1, <3>2, <3>5 DEF OneAtATime, Busy, Deciding
      <3>7. ScriptInTime'
        BY <2>1, <3>2, <3>5 DEF ScriptInTime, At, Deciding
      <3>8. Recorded'
        BY <2>1, <3>2, <3>3, <3>4, <3>5 DEF Recorded, At, Before, After, Deciding
      <3>9. QED
        BY <3>6, <3>7, <3>8
    <2>4. QED
      BY <1>2, <2>2, <2>3 DEF ShouldAttempt
  <1>3. CASE Download(k) \/ DownloadFails(k)
    <2>1. /\ checks[k].step = "download" /\ (Goes(k, "save") \/ Ends(k))
          /\ UNCHANGED <<scripts, svc, exe, staged, attempt, installs>>
      BY <1>3 DEF Download, DownloadFails, At
    <2>2. /\ OneAtATime'
          /\ \A j \in Checker : j # k => checks'[j] = checks[j] /\ checks[j].step \in Deciding
          /\ \/ checks'[k].step = "save" /\ checks'[k].rec = checks[k].rec
             \/ checks'[k].step = "none"
      BY <2>1, ActiveGoesOn DEF CheckStep, Deciding
    <2>3. ScriptInTime'
      BY <2>1, <2>2 DEF ScriptInTime, At, Deciding
    <2>4. Recorded'
      BY <2>1, <2>2 DEF Recorded, At, Before, After, Deciding
    <2>5. QED
      BY <2>2, <2>3, <2>4
  <1>4. CASE BeginSave(k)
    <2>1. /\ checks[k].step = "save" /\ Goes(k, "saving") /\ attempt' = Torn
          /\ UNCHANGED <<scripts, svc, exe, staged, installs>>
      BY <1>4 DEF BeginSave, At
    <2>2. /\ OneAtATime'
          /\ \A j \in Checker : j # k => checks'[j] = checks[j] /\ checks[j].step \in Deciding
          /\ checks'[k].step = "saving" /\ checks'[k].rec = checks[k].rec
      BY <2>1, ActiveGoesOn DEF CheckStep, Deciding
    <2>3. ScriptInTime'
      BY <2>1, <2>2 DEF ScriptInTime, At, Deciding
    <2>4. Recorded'
      BY <2>1, <2>2 DEF Recorded, At, Before, After, Deciding
    <2>5. QED
      BY <2>2, <2>3, <2>4
  <1>5. CASE SaveAttempt(k)
    <2>1. /\ checks[k].step = "saving" /\ Goes(k, "stage")
          /\ attempt' = Counted(checks[k].rec)
          /\ UNCHANGED <<scripts, svc, exe, staged, installs>>
      BY <1>5 DEF SaveAttempt, At
    <2>2. /\ OneAtATime'
          /\ \A j \in Checker : j # k => checks'[j] = checks[j] /\ checks[j].step \in Deciding
          /\ checks'[k].step = "stage"
      BY <2>1, ActiveGoesOn DEF CheckStep, Deciding
    <2>3. /\ checks[k].rec \in Attempt /\ checks[k].rec.count < maxInstallAttempts
          /\ installs <= checks[k].rec.count
      BY <1>0, <2>1 DEF Typed, Budgeted, Recorded, Before
    <2>4. attempt' \in Attempt /\ attempt'.count = checks[k].rec.count + 1
      BY <2>1, <2>3 DEF Counted, Attempt, maxInstallAttempts
    <2>5. attempt' # Torn
      BY <2>4, UpdaterAssumption
    <2>6. installs < attempt'.count
      BY <1>0, <2>3, <2>4 DEF Attempt
    <2>7. ScriptInTime'
      BY <2>1, <2>2 DEF ScriptInTime, At, Deciding
    <2>8. Recorded'
      BY <1>0, <2>1, <2>2, <2>4, <2>5, <2>6
      DEF Recorded, At, Before, After, Deciding, Attempt
    <2>9. QED
      BY <2>2, <2>7, <2>8
  <1>6. CASE BeginStage(k)
    <2>1. /\ checks[k].step = "stage" /\ Goes(k, "staging")
          /\ UNCHANGED <<scripts, svc, exe, attempt, installs>>
      BY <1>6 DEF BeginStage, At
    <2>2. /\ OneAtATime'
          /\ \A j \in Checker : j # k => checks'[j] = checks[j] /\ checks[j].step \in Deciding
          /\ checks'[k].step = "staging"
      BY <2>1, ActiveGoesOn DEF CheckStep, Deciding
    <2>3. svc = "up" /\ \A j \in Checker : scripts[j] = "none"
      BY <2>1, ActiveCheck DEF Deciding
    <2>4. ScriptInTime'
      BY <2>1, <2>2, <2>3 DEF ScriptInTime, At, Deciding
    <2>5. Recorded'
      BY <2>1, <2>2 DEF Recorded, At, Before, After, Deciding
    <2>6. QED
      BY <2>2, <2>4, <2>5
  <1>7. CASE Stage(k)
    <2>1. /\ checks[k].step = "staging" /\ Goes(k, "launch")
          /\ staged' \in Release
          /\ UNCHANGED <<scripts, svc, exe, attempt, installs>>
      BY <1>0, <1>7 DEF Stage, At
    <2>2. /\ OneAtATime'
          /\ \A j \in Checker : j # k => checks'[j] = checks[j] /\ checks[j].step \in Deciding
          /\ checks'[k].step = "launch"
      BY <2>1, ActiveGoesOn DEF CheckStep, Deciding
    <2>3. svc = "up" /\ \A j \in Checker : scripts[j] = "none"
      BY <2>1, ActiveCheck DEF Deciding
    <2>4. ScriptInTime'
      BY <2>1, <2>2, <2>3 DEF ScriptInTime, At, Deciding
    <2>5. Recorded'
      BY <2>1, <2>2 DEF Recorded, At, Before, After, Deciding
    <2>6. QED
      BY <2>2, <2>4, <2>5
  <1>8. CASE Launch(k)
    <2>1. /\ checks[k].step = "launch" /\ Ends(k)
          /\ scripts' = [scripts EXCEPT ![k] = "stop"]
          /\ installs' = IF installs > maxInstallAttempts THEN installs ELSE installs + 1
          /\ UNCHANGED <<svc, exe, staged, attempt>>
      BY <1>8 DEF Launch, At
    <2>2. /\ svc = "up" /\ staged \in Release
          /\ \A j \in Checker : scripts[j] = "none"
          /\ \A j \in Checker : j # k => checks[j].step \in Deciding
          /\ attempt # Torn /\ installs < attempt.count
      BY <2>1, ActiveCheck DEF Deciding, ScriptInTime, At, Recorded, After
    <2>3. /\ checks'[k].step = "none"
          /\ \A j \in Checker : j # k => checks'[j] = checks[j]
      BY <1>0, <2>1, EndsFacts DEF NoCheck
    <2>4. scripts'[k] = "stop" /\ \A j \in Checker : j # k => scripts'[j] = "none"
      BY <1>0, <2>1, <2>2
    <2>5. OneAtATime'
      BY <2>2, <2>3, <2>4 DEF OneAtATime, Busy, Deciding
    <2>6. ScriptInTime'
      BY <2>1, <2>2, <2>3, <2>4 DEF ScriptInTime, At, Deciding
    <2>7. installs' <= attempt'.count
      BY <1>0, <2>1, <2>2 DEF Attempt
    <2>8. Recorded'
      BY <2>1, <2>2, <2>3, <2>7 DEF Recorded, At, Before, After, Deciding
    <2>9. QED
      BY <2>5, <2>6, <2>8
  <1>9. CASE InstallFails(k)
    BY <1>9 DEF InstallFails
  <1>10. QED
    BY <1>1, <1>2, <1>3, <1>4, <1>5, <1>6, <1>7, <1>8, <1>9 DEF CheckStepOf

LEMMA QuietScripts ==
  ASSUME Typed, OneAtATime, ScriptInTime, Recorded, NEW k \in Checker,
         faults' = 0, faults = 0,
         ScriptStepOf(k) \/ WaitEnds(k) \/ MoveFails(k)
  PROVE  OneAtATime' /\ ScriptInTime' /\ Recorded'
  <1> USE DEF serverVars, recordVars, historyVars
  <1>0. scripts \in [Checker -> ScriptStep] /\ faults \in Nat
    BY DEF Typed, TypeOK
  <1>1. scripts[k] # "none" /\ UNCHANGED <<checks, attempt, installs>>
    BY DEF ScriptStepOf, RequestStop, WaitForStop, WaitEnds, Move, MoveFails, StartAgain,
           InScript
  <1>2. /\ \A j \in Checker : j # k => scripts[j] = "none"
        /\ \A j \in Checker : checks[j].step \in Deciding
    BY <1>1, ActiveScript
  <1>3. \A j \in Checker : j # k => scripts'[j] = scripts[j]
    BY <1>0 DEF ScriptStepOf, RequestStop, WaitForStop, WaitEnds, Move, MoveFails,
           StartAgain, InScript
  <1>4. OneAtATime'
    BY <1>1, <1>2, <1>3 DEF OneAtATime, Busy, Deciding
  <1>5. Recorded'
    BY <1>1 DEF Recorded, At
  <1>6. CASE RequestStop(k)
    <2>1. /\ scripts[k] = "stop" /\ scripts'[k] = "wait" /\ UNCHANGED <<exe, staged>>
          /\ svc' = IF svc = "up" THEN "stopping" ELSE svc
      BY <1>0, <1>6 DEF RequestStop, InScript
    <2>2. ScriptInTime'
      BY <1>1, <1>2, <1>3, <2>1 DEF ScriptInTime, At, Deciding
    <2>3. QED
      BY <1>4, <1>5, <2>2
  <1>7. CASE WaitForStop(k) \/ WaitEnds(k)
    <2>1. /\ scripts[k] = "wait" /\ scripts'[k] = "swap" /\ UNCHANGED <<exe, staged, svc>>
          /\ svc = "down" \/ svc = "up"
      BY <1>0, <1>7 DEF WaitForStop, WaitEnds, SeesStopped, InScript
    <2>2. ScriptInTime'
      BY <1>1, <1>2, <1>3, <2>1 DEF ScriptInTime, At, Deciding
    <2>3. QED
      BY <1>4, <1>5, <2>2
  <1>8. CASE Move(k) \/ MoveFails(k)
    <2>1. /\ scripts[k] = "swap" /\ scripts'[k] = "start" /\ UNCHANGED svc
          /\ svc = "down" /\ staged \in Release
      BY <1>0, <1>8 DEF Move, MoveFails, InScript, ScriptInTime
    <2>2. CanMove
      BY <2>1, UpdaterAssumption DEF CanMove
    <2>3. exe' = staged /\ Move(k)
      BY <1>0, <1>8, <2>2 DEF Move, MoveFails
    <2>4. ScriptInTime'
      BY <1>1, <1>2, <1>3, <2>1, <2>3, UpdaterAssumption DEF ScriptInTime, At, Deciding
    <2>5. QED
      BY <1>4, <1>5, <2>4
  <1>9. CASE StartAgain(k)
    <2>1. /\ scripts[k] = "start" /\ scripts'[k] = "none" /\ UNCHANGED <<exe, staged>>
          /\ svc' = "up"
      BY <1>0, <1>9 DEF StartAgain, InScript, ScriptInTime
    <2>2. ScriptInTime'
      BY <1>1, <1>2, <1>3, <2>1 DEF ScriptInTime, At, Deciding
    <2>3. QED
      BY <1>4, <1>5, <2>2
  <1>10. QED
    BY <1>6, <1>7, <1>8, <1>9 DEF ScriptStepOf

LEMMA QuietStep == Typed /\ QuietInv /\ [Next]_vars => QuietInv'
  <1> SUFFICES ASSUME Typed, QuietInv, [Next]_vars, ~overlapped', faults' = 0
               PROVE  OneAtATime' /\ ScriptInTime' /\ Recorded'
    BY DEF QuietInv
  <1>1. ~overlapped /\ faults = 0
    BY QuietBefore
  <1>2. OneAtATime /\ ScriptInTime /\ Recorded
    BY <1>1 DEF QuietInv
  <1>3. ASSUME NEW n \in Release, Publish(n) PROVE OneAtATime' /\ ScriptInTime' /\ Recorded'
    BY <1>2, <1>3, QuietFrame DEF Publish, recordVars, historyVars
  <1>4. ASSUME NEW k \in Checker,
               BeginCheck(k) \/ CheckStepOf(k) \/ DownloadFails(k) \/ InstallFails(k)
        PROVE  OneAtATime' /\ ScriptInTime' /\ Recorded'
    BY <1>1, <1>2, <1>4, QuietChecks
  <1>5. ASSUME NEW k \in Checker, ScriptStepOf(k) \/ WaitEnds(k) \/ MoveFails(k)
        PROVE  OneAtATime' /\ ScriptInTime' /\ Recorded'
    BY <1>1, <1>2, <1>5, QuietScripts
  <1>6. CASE ServiceStops
    <2>1. /\ svc = "stopping" /\ svc' = "down"
          /\ UNCHANGED <<scripts, exe, staged, attempt, installs>>
      BY <1>6 DEF ServiceStops, recordVars, historyVars
    <2>2. \A k \in Checker : checks'[k].step = "none"
      BY <1>6, NoneFacts DEF ServiceStops
    <2>3. PICK k \in Checker : scripts[k] = "wait"
      BY <1>2, <2>1 DEF ScriptInTime
    <2>4. /\ \A j \in Checker : j # k => scripts[j] = "none"
          /\ \A j \in Checker : checks[j].step \in Deciding
      BY <1>2, <2>3, ActiveScript
    <2>5. OneAtATime'
      BY <1>2, <2>1, <2>2, <2>4 DEF OneAtATime, Busy, Deciding
    <2>6. ScriptInTime'
      BY <1>2, <2>1, <2>2, <2>3, <2>4 DEF ScriptInTime, At
    <2>7. Recorded'
      BY <1>2, <2>1, <2>2, <2>4 DEF Recorded, At, Before, After, Deciding
    <2>8. QED
      BY <2>5, <2>6, <2>7
  <1>7. CASE CoolsDown
    BY <1>2, <1>7, QuietFrame DEF CoolsDown, historyVars
  <1>8. CASE Restart
    BY <1>1, <1>8 DEF Restart
  <1>9. CASE UNCHANGED vars
    BY <1>2, <1>9, QuietFrame DEF vars, recordVars, historyVars
  <1>10. QED
    BY <1>3, <1>4, <1>5, <1>6, <1>7, <1>8, <1>9 DEF Next

LEMMA AlwaysQuiet == Spec => [](Typed /\ QuietInv)
  BY AlwaysTyped, QuietInit, QuietStep, PTL DEF Spec

(* A service stopped for an update is started again, with a whole          *)
(* executable, unless checks overlapped or something failed                *)
(* (install_windows.go:20-57).                                             *)
THEOREM ServiceComesBack == Spec => []ComesBack
  <1>1. Typed /\ QuietInv => ComesBack
    BY DEF Typed, TypeOK, QuietInv, ScriptInTime, ComesBack, Stranded
  <1>2. QED
    BY <1>1, AlwaysQuiet, PTL

(* No release is installed more than maxInstallAttempts times on one       *)
(* budget, unless checks overlapped or something failed (updater.go:25).   *)
THEOREM AttemptsAreBounded == Spec => []BudgetHolds
  <1>1. Typed /\ QuietInv => BudgetHolds
    <2> SUFFICES ASSUME Typed, ~overlapped, faults = 0, Recorded
                 PROVE  installs <= maxInstallAttempts
      BY DEF Typed, TypeOK, QuietInv, BudgetHolds, maxInstallAttempts
    <2>1. CASE attempt # Torn
      BY <2>1 DEF Typed, TypeOK, Attempt, Recorded, maxInstallAttempts
    <2>2. CASE attempt = Torn
      <3>1. PICK k \in Checker : checks[k].step = "saving"
        BY <2>2 DEF Recorded, At
      <3>2. checks[k].rec \in Attempt /\ checks[k].rec.count < maxInstallAttempts
        BY <3>1, StepNames DEF Typed, TypeOK, Budgeted
      <3>3. installs <= checks[k].rec.count
        BY <3>1 DEF Recorded, Before
      <3>4. QED
        BY <3>2, <3>3 DEF Typed, TypeOK, Attempt, maxInstallAttempts
    <2>3. QED
      BY <2>1, <2>2
  <1>2. QED
    BY <1>1, AlwaysQuiet, PTL
==============================================================================
