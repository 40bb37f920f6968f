---------------------------- MODULE RemoteCommand ----------------------------
(***************************************************************************)
(* One-shot commands to one machine: an administrator's request sets a     *)
(* column of the machine's row (server/internal/api/handlers_manage.go);   *)
(* the answer to the next heartbeat carries it (handlers_agent.go,         *)
(* store/machines.go); the service executes it, and a "restart" reaches    *)
(* the session helper as a nonce in runtime.json (agent/internal/runner).  *)
(*                                                                         *)
(* Requests are numbered in the order in which they are made; the column   *)
(* itself holds only "restart" or "sendlog".                               *)
(***************************************************************************)
EXTENDS Naturals, Sequences

CONSTANTS
  MaxRequests,    \* bound: requests made
  Restart,        \* the requests that ask for a restart; the others ask for the log
  MaxUnanswered,  \* bound: heartbeats without an answer
  MaxCrashes      \* bound: crashes of the service

ASSUME CommandAssumption ==
  /\ MaxRequests \in Nat
  /\ Restart \subseteq 1..MaxRequests
  /\ MaxUnanswered \in Nat
  /\ MaxCrashes \in Nat

VARIABLES
  issued,       \* requests made so far
  pending,      \* machines.pending_command; 0 is NULL
  exchange,     \* the heartbeat the service waits for
  abandoned,    \* heartbeats it gave up on, which the server may still handle
  taken,        \* commands returned to the handler of a heartbeat (history)
  replaced,     \* requests whose place in the column a later one took (history)
  crossed,      \* requests made between a heartbeat's read and its clear (history)
  executed,     \* commands executed by the service, in order (history)
  svc,          \* the service: "up", "down"
  nonce,        \* restartNonce, in the service's memory
  runtime,      \* the nonce in runtime.json
  helperNonce,  \* the nonce the helper's generation was started with
  owed,         \* restarts the helper has not followed (history)
  unanswered, crashes

lostVars    == <<replaced, crossed>>
columnVars  == <<pending, taken, lostVars>>
nonceVars   == <<helperNonce, owed>>
commandVars == <<issued, columnVars, exchange, abandoned, executed, svc, nonce, runtime,
                 nonceVars, unanswered, crashes>>

Request == 1..MaxRequests
Command == 0..MaxRequests

\* How far the server is with a heartbeat, and the command it has read for it.
Exchange == [at : {"sent", "read", "answered"}, cmd : Command]
None     == [at |-> "none", cmd |-> 0]

CommandTypeOK ==
  /\ issued \in Command
  /\ pending \in 0..issued
  /\ exchange \in Exchange \union {None}
  /\ abandoned \subseteq Exchange
  /\ taken \subseteq Request /\ replaced \subseteq Request /\ crossed \subseteq Request
  /\ executed \in Seq(Request)
  /\ svc \in {"up", "down"}
  /\ svc = "down" => exchange = None
  /\ nonce \in Nat /\ runtime \in Nat /\ helperNonce \in Nat
  /\ owed \subseteq Restart
  /\ unanswered \in Nat /\ crashes \in Nat

CommandInit ==
  /\ issued = 0 /\ pending = 0
  /\ exchange = None /\ abandoned = {}
  /\ taken = {} /\ replaced = {} /\ crossed = {} /\ executed = <<>>
  /\ svc = "up" /\ nonce = 0 /\ runtime = 0
  /\ helperNonce = 0 /\ owed = {}
  /\ unanswered = 0 /\ crashes = 0

(***************************************************************************)
(* The server.                                                             *)
(***************************************************************************)

\* Some heartbeat has read the column and not yet cleared it.
BeingConsumed == \E x \in abandoned \union {exchange} : x.at = "read"

\* A command not yet taken is overwritten.
SetPendingCommand ==
  /\ issued < MaxRequests
  /\ issued' = issued + 1
  /\ pending' = issued + 1
  /\ replaced' = replaced \union ({pending} \ {0})
  /\ crossed' = IF BeingConsumed THEN crossed \union {issued + 1} ELSE crossed
  /\ UNCHANGED <<exchange, abandoned, taken, executed, svc, nonce, runtime, nonceVars,
                 unanswered, crashes>>

(* ConsumePendingCommand is one statement, but its SELECT reads from the   *)
(* snapshot taken when it starts, and its UPDATE waits for the row's lock  *)
(* and applies to the latest version: another statement may commit between.*)
Reads(x) == x.at = "sent"

Read(x) == [at |-> "read", cmd |-> pending]

Clear == pending' = 0

ReadPending ==
  /\ \/ /\ Reads(exchange)
        /\ exchange' = Read(exchange)
        /\ UNCHANGED abandoned
     \/ \E x \in abandoned :
          /\ Reads(x)
          /\ abandoned' = (abandoned \ {x}) \union {Read(x)}
          /\ UNCHANGED exchange
  /\ UNCHANGED <<issued, columnVars, executed, svc, nonce, runtime, nonceVars,
                 unanswered, crashes>>

ConsumePendingCommand ==
  /\ exchange.at = "read"
  /\ Clear
  /\ exchange' = [exchange EXCEPT !.at = "answered"]
  /\ taken' = taken \union ({exchange.cmd} \ {0})
  /\ UNCHANGED <<issued, lostVars, abandoned, executed, svc, nonce, runtime, nonceVars,
                 unanswered, crashes>>

\* Nobody waits for this answer any more.
ConsumeInVain(x) ==
  /\ x.at = "read"
  /\ Clear
  /\ abandoned' = abandoned \ {x}
  /\ taken' = taken \union ({x.cmd} \ {0})
  /\ UNCHANGED <<issued, lostVars, exchange, executed, svc, nonce, runtime, nonceVars,
                 unanswered, crashes>>

(***************************************************************************)
(* The service.                                                            *)
(***************************************************************************)

BeginHeartbeat ==
  /\ svc = "up" /\ exchange = None
  /\ exchange' = [at |-> "sent", cmd |-> 0]
  /\ UNCHANGED <<issued, columnVars, abandoned, executed, svc, nonce, runtime, nonceVars,
                 unanswered, crashes>>

\* Mutant: the nonce goes up, but runtime.json waits for the next policy poll.
BumpInMemory(n) ==
  /\ nonce' = nonce + 1
  /\ owed' = owed \union {n}
  /\ UNCHANGED runtime

\* The service's collectors restart at once, the helper's when it reads runtime.json.
Bump(n) ==
  /\ nonce' = nonce + 1
  /\ runtime' = nonce + 1
  /\ owed' = owed \union {n}

IsRestart(n) == n \in Restart

\* Mutant: a request for the log is forgotten.
ExecuteRestartOnly(n) ==
  /\ executed' = IF IsRestart(n) THEN Append(executed, n) ELSE executed
  /\ IF IsRestart(n) THEN Bump(n) ELSE UNCHANGED <<nonce, runtime, owed>>

Execute(n) ==
  /\ executed' = IF n = 0 THEN executed ELSE Append(executed, n)
  /\ IF IsRestart(n) THEN Bump(n) ELSE UNCHANGED <<nonce, runtime, owed>>

\* Mutant: an answer is looked at again at the next tick.
ReceiveAndKeep ==
  /\ exchange.at = "answered"
  /\ Execute(exchange.cmd)
  /\ UNCHANGED <<issued, columnVars, exchange, abandoned, svc, helperNonce,
                 unanswered, crashes>>

ReceiveAnswer ==
  /\ exchange.at = "answered"
  /\ exchange' = None
  /\ Execute(exchange.cmd)
  /\ UNCHANGED <<issued, columnVars, abandoned, svc, helperNonce,
                 unanswered, crashes>>

\* The server may still handle what it has not answered; an answer is lost.
GiveUp ==
  /\ exchange' = None
  /\ abandoned' = IF exchange.at \in {"sent", "read"}
                     THEN abandoned \union {exchange} ELSE abandoned

HeartbeatFails ==
  /\ unanswered < MaxUnanswered
  /\ unanswered' = unanswered + 1
  /\ exchange # None
  /\ GiveUp
  /\ UNCHANGED <<issued, columnVars, executed, svc, nonce, runtime, nonceVars, crashes>>

CrashService ==
  /\ crashes < MaxCrashes
  /\ crashes' = crashes + 1
  /\ svc = "up" /\ svc' = "down"
  /\ GiveUp
  /\ UNCHANGED <<issued, columnVars, executed, nonce, runtime, nonceVars, unanswered>>

\* Run starts with restartNonce := 0 and hands it to the helper.
StartService ==
  /\ svc = "down" /\ svc' = "up"
  /\ nonce' = 0 /\ runtime' = 0
  /\ UNCHANGED <<issued, columnVars, exchange, abandoned, executed, nonceVars,
                 unanswered, crashes>>

(***************************************************************************)
(* The session helper.                                                     *)
(***************************************************************************)

\* A new generation, because the nonce is another one, or in a new session.
StartGeneration ==
  /\ helperNonce' = runtime
  /\ owed' = {}

HelperPoll ==
  /\ runtime # helperNonce
  /\ StartGeneration
  /\ UNCHANGED <<issued, columnVars, exchange, abandoned, executed, svc, nonce, runtime,
                 unanswered, crashes>>

HelperRelaunch ==
  /\ StartGeneration
  /\ UNCHANGED <<issued, columnVars, exchange, abandoned, executed, svc, nonce, runtime,
                 unanswered, crashes>>

ServerSide ==
  \/ SetPendingCommand \/ ReadPending \/ ConsumePendingCommand
  \/ \E x \in abandoned : ConsumeInVain(x)

ServiceSide ==
  BeginHeartbeat \/ ReceiveAnswer \/ HeartbeatFails \/ CrashService \/ StartService

CommandNext == ServerSide \/ ServiceSide \/ HelperPoll \/ HelperRelaunch

CommandSpec == CommandInit /\ [][CommandNext]_commandVars

(* The helper polls, the service sends heartbeats and is restarted after a *)
(* crash, the server answers what the service waits for.                   *)
CommandFairness ==
  /\ WF_commandVars(HelperPoll)
  /\ WF_commandVars(BeginHeartbeat) /\ WF_commandVars(ReceiveAnswer)
  /\ WF_commandVars(StartService)
  /\ WF_commandVars(ReadPending) /\ WF_commandVars(ConsumePendingCommand)

CommandFairSpec == CommandSpec /\ CommandFairness

-----------------------------------------------------------------------------
(***************************************************************************)
(* Properties.                                                             *)
(***************************************************************************)

(* The service executes a command at most once, and never after a later    *)
(* one, whatever heartbeats are lost, repeated or handled late.            *)
OnceInOrder ==
  \A i, j \in DOMAIN executed : i < j => executed[i] < executed[j]

(* Only what an administrator's request left in the column is executed,    *)
(* and only after the column was cleared of it.                            *)
ExecutedWasTaken ==
  \A i \in DOMAIN executed : executed[i] \in taken /\ executed[i] # pending

(* A restart that the service has executed reaches the session helper:     *)
(* "bump the nonce so the session helper restarts its collectors too".     *)
HelperFollows == \A n \in Restart : n \in owed ~> n \notin owed

(* As long as the service does not crash, a restart it has executed reaches *)
(* the session helper, in whatever order the helper polls and is relaunched.*)
HelperFollowsAService == [](crashes = 0) => HelperFollows

Executed == {executed[i] : i \in DOMAIN executed}

(* A command is cleared before the answer that carries it is sent, so a     *)
(* lost answer or a crash loses it.  Without either, every request ever     *)
(* made is executed, in the column, or on its way to the service, unless a  *)
(* later request took its place or it came between a heartbeat's read and   *)
(* its clear and was cleared unseen.                                        *)
LossIsExplained ==
  unanswered = 0 /\ crashes = 0 =>
    \A n \in 1..issued :
      n \in Executed \union {pending, exchange.cmd} \union replaced \union crossed
=============================================================================
