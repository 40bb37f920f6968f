------------------------------- MODULE Updater --------------------------------
(***************************************************************************)
(* Self-update of the agent's service: the checks that run beside each     *)
(* other in one process (agent/internal/runner/runner.go), the release the *)
(* server advertises and the file it serves                                *)
(* (server/internal/api/handlers_approvals.go), download, verification and *)
(* the record of attempts (agent/internal/updater/updater.go), and the     *)
(* detached script that stops the service, replaces its executable and     *)
(* starts it again (install_windows.go).                                   *)
(*                                                                         *)
(* Releases are named by the version they are advertised under; Built is   *)
(* the version compiled in, which nothing compares with the other one.     *)
(* Versions that parse are compared as numbers. A file is the release      *)
(* whose bytes it holds, Torn when it was cut short, or Absent.            *)
(***************************************************************************)
EXTENDS Naturals

CONSTANTS
  Release,       \* advertised versions
  Built,         \* the version compiled into each release
  Parsable,      \* the versions that are dotted numbers
  Checker,       \* places for checks running at the same time, each with its script
  Torn, Absent,  \* a file cut short; no file
  MaxPublished,  \* bound: changes of the advertised release, and of the served file
  MaxFaults      \* bound: failed requests, moves and launches, crashes, reboots

maxInstallAttempts == 3

\* attemptRecord; At is cooled. An unreadable file is the zero record.
Attempt    == [version : Release \union {0}, count : 0..maxInstallAttempts]
ZeroRecord == [version |-> 0, count |-> 0]

ASSUME UpdaterAssumption ==
  /\ Release \subseteq Nat \ {0}
  /\ Built \in [Release -> Nat] /\ Parsable \subseteq Nat
  /\ Torn \notin Release /\ Absent \notin Release /\ Torn # Absent
  /\ Torn \notin Attempt
  /\ MaxPublished \in Nat /\ MaxFaults \in Nat

VARIABLES
  latest,      \* the advertised release and signature (server configuration)
  served,      \* the release at AgentBinaryPath
  exe,         \* the agent's executable
  staged,      \* agent.exe.new
  attempt,     \* update-attempt.json
  cooled,      \* more than attemptCooldown ago, as to the record
  svc,         \* the service: "up", "stopping", "down"
  checks,      \* the state of each check
  scripts,     \* the state of each swap script
  published, faults,
  installs,    \* installations since a budget was granted, up to one too many
               \* (history)
  overlapped   \* a check was allowed while another check or a script was
               \* under way (history)

serverVars  == <<latest, served, published>>
recordVars  == <<attempt, cooled>>
historyVars == <<installs, overlapped>>
vars == <<serverVars, exe, staged, recordVars, svc, checks, scripts, faults, historyVars>>

\* A check: the release it was told of, the record it carries, and how far it is:
\* about to look at the record, downloading, saving the record, replacing
\* agent.exe.new, launching the script.
CheckStep == {"offered", "download", "save", "saving", "stage", "staging", "launch"}
Check     == [step : CheckStep, info : Release, rec : Attempt]
NoCheck   == [step |-> "none"]

ScriptStep == {"none", "stop", "wait", "swap", "start"}

TypeOK ==
  /\ latest \in Release /\ served \in Release /\ published \in Nat
  /\ exe \in Release \union {Torn}
  /\ staged \in Release \union {Torn, Absent}
  /\ attempt \in Attempt \union {Torn} /\ cooled \in BOOLEAN
  /\ svc \in {"up", "stopping", "down"}
  /\ checks \in [Checker -> Check \union {NoCheck}]
  /\ scripts \in [Checker -> ScriptStep]
  /\ faults \in Nat /\ installs \in 0..(maxInstallAttempts + 1) /\ overlapped \in BOOLEAN
  \* A check lives in the service's process, which an executable in use backs.
  /\ svc # "down" => exe # Torn
  /\ svc = "down" => \A k \in Checker : checks[k] = NoCheck

\* Any agent may have been installed, a newer one than the server's included.
Init ==
  /\ latest \in Release /\ served = latest /\ published = 0
  /\ exe \in {n \in Release : Built[n] = n} /\ staged = Absent
  /\ attempt = ZeroRecord /\ cooled = FALSE
  /\ svc = "up"
  /\ checks = [k \in Checker |-> NoCheck]
  /\ scripts = [k \in Checker |-> "none"]
  /\ faults = 0 /\ installs = 0 /\ overlapped = FALSE

-----------------------------------------------------------------------------
(* The server *)

\* The configuration names another release, the file is replaced, or both.
Publish(n) ==
  /\ published < MaxPublished
  /\ <<latest, served>> # <<n, n>>
  /\ latest' \in {latest, n} /\ served' \in {served, n}
  /\ published' = published + 1
  /\ UNCHANGED <<exe, staged, recordVars, svc, checks, scripts, faults, historyVars>>

-----------------------------------------------------------------------------
(* A check: checkForUpdate and CheckAndUpdate *)

Goes(k, step) == checks' = [checks EXCEPT ![k].step = step]
Ends(k)       == checks' = [checks EXCEPT ![k] = NoCheck]
At(k, step)   == checks[k].step = step

\* Mutant: any other version will do.
IsDifferent(n) == n # Built[exe]

\* Of versions that do not parse, any other will do.
IsNewer(n) == IF {n, Built[exe]} \subseteq Parsable THEN n > Built[exe] ELSE n # Built[exe]

\* At startup, every six hours, and in a goroutine of its own whenever a heartbeat's
\* answer names another version. A check that finds nothing newer has no effect.
BeginCheck(k) ==
  /\ svc = "up" /\ checks[k] = NoCheck /\ scripts[k] = "none"
  /\ IsNewer(latest)
  /\ checks' = [checks EXCEPT ![k] =
                  [step |-> "offered", info |-> latest, rec |-> ZeroRecord]]
  /\ UNCHANGED <<serverVars, exe, staged, recordVars, svc, scripts, faults, historyVars>>

loadAttempt == IF attempt = Torn THEN ZeroRecord ELSE attempt

\* Another version, or attempts long past.
FreshBudget(n) == loadAttempt.version # n
                    \/ (loadAttempt.count >= maxInstallAttempts /\ cooled)

\* Mutant: a version that used its attempts up is given up for good.
NeverCools(n) == loadAttempt.version # n \/ loadAttempt.count < maxInstallAttempts

\* Mutant: off by one.
OneAttemptMore(n) == FreshBudget(n) \/ loadAttempt.count <= maxInstallAttempts

\* shouldAttempt.
MayAttempt(n) == FreshBudget(n) \/ loadAttempt.count < maxInstallAttempts

UnderWay(k) ==
  \E j \in Checker : \/ j # k /\ checks[j].step \notin {"none", "offered"}
                     \/ scripts[j] # "none"

\* Time passes only for a record that was read whole: a lost record grants a
\* budget nobody meant to.
ShouldAttempt(k) ==
  /\ At(k, "offered")
  /\ LET n == checks[k].info IN
     \/ /\ MayAttempt(n)
        /\ checks' = [checks EXCEPT ![k] =
             [step |-> "download", info |-> n,
              rec |-> IF FreshBudget(n) THEN [version |-> n, count |-> 0]
                      ELSE loadAttempt]]
        /\ installs' = IF attempt # Torn /\ FreshBudget(n) THEN 0 ELSE installs
        /\ overlapped' = (overlapped \/ UnderWay(k))
     \/ ~MayAttempt(n) /\ Ends(k) /\ UNCHANGED historyVars
  /\ UNCHANGED <<serverVars, exe, staged, recordVars, svc, scripts, faults>>

\* The signature was advertised with the version; the file may be another's by
\* now. A cancelled context (svc = "stopping") ends the request.
Download(k) ==
  /\ At(k, "download") /\ svc = "up"
  /\ IF served = checks[k].info THEN Goes(k, "save") ELSE Ends(k)
  /\ UNCHANGED <<serverVars, exe, staged, recordVars, svc, scripts, faults, historyVars>>

DownloadFails(k) ==
  /\ At(k, "download")
  /\ \/ svc = "up" /\ faults < MaxFaults /\ faults' = faults + 1
     \/ svc = "stopping" /\ UNCHANGED faults
  /\ Ends(k)
  /\ UNCHANGED <<serverVars, exe, staged, recordVars, svc, scripts, historyVars>>

\* saveAttempt: os.WriteFile truncates, then writes.
BeginSave(k) ==
  /\ At(k, "save")
  /\ attempt' = Torn
  /\ Goes(k, "saving")
  /\ UNCHANGED <<serverVars, exe, staged, cooled, svc, scripts, faults, historyVars>>

\* Mutant: the attempt is not counted.
SameCount(rec) == rec

Counted(rec) == [rec EXCEPT !.count = @ + 1]

SaveAttempt(k) ==
  /\ At(k, "saving")
  /\ attempt' = Counted(checks[k].rec) /\ cooled' = FALSE
  /\ Goes(k, "stage")
  /\ UNCHANGED <<serverVars, exe, staged, svc, scripts, faults, historyVars>>

\* Install: write agent.exe.new, write the script, start it.
BeginStage(k) ==
  /\ At(k, "stage")
  /\ staged' = Torn
  /\ Goes(k, "staging")
  /\ UNCHANGED <<serverVars, exe, recordVars, svc, scripts, faults, historyVars>>

Stage(k) ==
  /\ At(k, "staging")
  /\ staged' = checks[k].info
  /\ Goes(k, "launch")
  /\ UNCHANGED <<serverVars, exe, recordVars, svc, scripts, faults, historyVars>>

Launch(k) ==
  /\ At(k, "launch")
  /\ scripts' = [scripts EXCEPT ![k] = "stop"]
  /\ installs' = IF installs > maxInstallAttempts THEN installs ELSE installs + 1
  /\ Ends(k)
  /\ UNCHANGED <<serverVars, exe, staged, recordVars, svc, faults, overlapped>>

\* Writing a file or starting the script fails; an attempt has been counted.
InstallFails(k) ==
  /\ checks[k].step \in {"stage", "staging", "launch"} /\ faults < MaxFaults
  /\ Ends(k)
  /\ faults' = faults + 1
  /\ UNCHANGED <<serverVars, exe, staged, recordVars, svc, scripts, historyVars>>

-----------------------------------------------------------------------------
(* The swap script *)

InScript(k, from, to) ==
  scripts[k] = from /\ scripts' = [scripts EXCEPT ![k] = to]

\* "sc stop" only asks.
RequestStop(k) ==
  /\ InScript(k, "stop", "wait")
  /\ svc' = IF svc = "up" THEN "stopping" ELSE svc
  /\ UNCHANGED <<serverVars, exe, staged, recordVars, checks, faults, historyVars>>

\* Mutant: the script is a child of the service and ends with it.
StopsWithScripts ==
  /\ svc = "stopping"
  /\ svc' = "down"
  /\ checks' = [k \in Checker |-> NoCheck]
  /\ scripts' = [k \in Checker |-> "none"]
  /\ UNCHANGED <<serverVars, exe, staged, recordVars, faults, historyVars>>

\* The process ends, and with it every check, wherever it is.
ServiceStops ==
  /\ svc = "stopping"
  /\ svc' = "down"
  /\ checks' = [k \in Checker |-> NoCheck]
  /\ UNCHANGED <<serverVars, exe, staged, recordVars, scripts, faults, historyVars>>

SeesStopped == svc = "down"

WaitForStop(k) ==
  /\ SeesStopped
  /\ InScript(k, "wait", "swap")
  /\ UNCHANGED <<serverVars, exe, staged, recordVars, svc, checks, faults, historyVars>>

\* Sixty queries, and still not STOPPED: the service is slow, or was started again.
WaitEnds(k) ==
  /\ \/ svc = "stopping" /\ faults < MaxFaults /\ faults' = faults + 1
     \/ svc = "up" /\ UNCHANGED faults
  /\ InScript(k, "wait", "swap")
  /\ UNCHANGED <<serverVars, exe, staged, recordVars, svc, checks, historyVars>>

\* An executable in use is locked, and so is a file that is being written.
CanMove == svc = "down" /\ staged # Absent

Move(k) ==
  /\ CanMove
  /\ InScript(k, "swap", "start")
  /\ exe' = staged /\ staged' = Absent
  /\ UNCHANGED <<serverVars, recordVars, svc, checks, faults, historyVars>>

\* Thirty attempts in vain: the service goes back to the old executable.
MoveFails(k) ==
  /\ InScript(k, "swap", "start")
  /\ \/ ~CanMove /\ UNCHANGED faults
     \/ CanMove /\ faults < MaxFaults /\ faults' = faults + 1
  /\ UNCHANGED <<serverVars, exe, staged, recordVars, svc, checks, historyVars>>

\* "sc start": refused while the service runs or is stopping, in vain with an
\* executable that is not one.
StartAgain(k) ==
  /\ InScript(k, "start", "none")
  /\ svc' = IF svc = "down" /\ exe # Torn THEN "up" ELSE svc
  /\ UNCHANGED <<serverVars, exe, staged, recordVars, checks, faults, historyVars>>

-----------------------------------------------------------------------------
(* The machine *)

\* More than attemptCooldown since the record was saved: asked for only once the
\* attempts are used up.
CoolsDown ==
  /\ ~cooled /\ loadAttempt.count >= maxInstallAttempts
  /\ cooled' = TRUE
  /\ UNCHANGED <<serverVars, exe, staged, attempt, svc, checks, scripts, faults, historyVars>>

\* The process dies; the service manager starts it again. A reboot also ends the
\* scripts.
Restart ==
  /\ faults < MaxFaults
  /\ checks' = [k \in Checker |-> NoCheck]
  /\ \/ svc # "down" /\ svc' = "up" /\ UNCHANGED scripts
     \/ /\ scripts' = [k \in Checker |-> "none"]
        /\ svc' = IF exe = Torn THEN "down" ELSE "up"
  /\ faults' = faults + 1
  /\ UNCHANGED <<serverVars, exe, staged, recordVars, historyVars>>

-----------------------------------------------------------------------------
CheckStepOf(k) ==
  \/ ShouldAttempt(k) \/ Download(k) \/ BeginSave(k) \/ SaveAttempt(k)
  \/ BeginStage(k) \/ Stage(k) \/ Launch(k)

ScriptStepOf(k) ==
  RequestStop(k) \/ WaitForStop(k) \/ Move(k) \/ StartAgain(k)

Next ==
  \/ \E n \in Release : Publish(n)
  \/ \E k \in Checker :
       \/ BeginCheck(k) \/ CheckStepOf(k) \/ DownloadFails(k) \/ InstallFails(k)
       \/ ScriptStepOf(k) \/ WaitEnds(k) \/ MoveFails(k)
  \/ ServiceStops \/ CoolsDown \/ Restart

Spec == Init /\ [][Next]_vars

\* The tickers keep starting checks, checks and scripts go on, time passes. Only
\* what has no chance is bound to fail. Another
\* script's "sc start" may come between STOPPED and the query that looks for it, or
\* the move that follows at once, but not every time.
Fairness ==
  /\ \A k \in Checker :
       /\ WF_vars(BeginCheck(k)) /\ WF_vars(CheckStepOf(k)) /\ WF_vars(ScriptStepOf(k))
       /\ SF_vars(WaitForStop(k)) /\ SF_vars(Move(k)) /\ WF_vars(~CanMove /\ MoveFails(k))
       /\ WF_vars(svc = "up" /\ WaitEnds(k))
       /\ WF_vars(svc = "stopping" /\ DownloadFails(k))
  /\ WF_vars(ServiceStops) /\ WF_vars(CoolsDown)

FairSpec == Spec /\ Fairness

-----------------------------------------------------------------------------
(* Properties *)

Stranded == svc = "down" /\ \A k \in Checker : scripts[k] = "none"

\* A service stopped for an update is started again, with a whole executable,
\* unless checks overlapped or something failed (install_windows.go:20-57: the
\* script must outlive the service it stops and must not swap in a partial file).
ComesBack == Stranded \/ exe = Torn => overlapped \/ faults > 0

\* A release is installed at most maxInstallAttempts times before the agent backs
\* off, even when it never becomes that release, unless checks overlapped or
\* something failed (updater.go:25-29, 141-143).
BudgetHolds == installs > maxInstallAttempts => overlapped \/ faults > 0

\* Whatever overlaps or fails between the check and the swap, the executable that is
\* replaced does not have the version the new one was advertised under, and the new
\* one has a higher version, unless its label is not the version compiled into it, or
\* one of the two does not parse: nothing looks at the version inside a download
\* (updater.go:117, 134), and an unparsable version is newer than any other one and
\* older too (updater.go:168-170).
NoRollback ==
  [][exe # Torn /\ exe' # Torn /\ exe' # exe =>
       /\ exe' # Built[exe]
       /\ Built[exe'] = exe' /\ {exe', Built[exe]} \subseteq Parsable
            => Built[exe'] > Built[exe]]_vars

Outdated ==
  /\ latest = served /\ Built[latest] = latest
  /\ exe # Torn /\ IsNewer(latest) /\ ~Stranded

\* An agent does not stay behind a release that is advertised, served and the
\* version it says, unless an update left the service stopped: failed swaps and
\* used-up budgets delay an update and never prevent it (updater.go:75-77,
\* runner.go:121).
EventuallyUpdated == []<>~Outdated
=============================================================================
