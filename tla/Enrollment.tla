------------------------------ MODULE Enrollment ------------------------------
(***************************************************************************)
(* Enrollment: the server's own certificates (server/internal/pki/dev.go), *)
(* the tokens an administrator mints, the exchange of a token and a key    *)
(* for a certificate and a row of machines                                 *)
(* (server/internal/api/handlers_agent.go), and the four files the agent   *)
(* writes one after the other and looks at whenever it starts              *)
(* (agent/internal/enroll/enroll.go, agent/internal/config/config.go).     *)
(*                                                                         *)
(* A call is an enrollment request: its number stands for the key made for *)
(* it, the certificate signed for that key and the row of the machine. A   *)
(* CA and a server certificate are numbered in the order they are made.    *)
(***************************************************************************)
EXTENDS Naturals, FiniteSets

CONSTANTS
  Agent,
  Token,
  MaxUses,       \* the largest max_uses asked for
  Call,          \* numbers of enrollment requests
  Torn, Absent,  \* a file cut short; no file
  Public,        \* an authority the agents' operating system trusts
  Unlimited,     \* max_uses of a token without a cap
  MaxRotations,  \* bound: renewals of the server's certificate
  MaxFaults      \* bound: crashes, failed writes and statements, timeouts

ASSUME EnrollmentAssumption ==
  /\ MaxUses \in Nat \ {0}
  /\ Call \subseteq Nat \ {0}
  /\ MaxRotations \in Nat /\ MaxFaults \in Nat
  /\ Torn \notin Nat /\ Absent \notin Nat /\ Public \notin Nat
  /\ Torn # Absent /\ Torn # Public /\ Absent # Public
  /\ Unlimited \notin Nat

VARIABLES
  cert,       \* the server's files: ca.crt, ca.key, server.crt, server.key
  serving,    \* "down", the file about to be written, "load", "up", "refused"
  issuer,     \* who signed the certificate the running server presents
  minted,     \* CAs and server certificates made
  retired,    \* CAs whose files the operator removed (history)
  cap,        \* machines each token may enroll: 1 for a single-use one, Unlimited for
              \* one without max_uses, 0 before it exists
  expired,    \* the tokens past expires_at
  closed,     \* use_count of each token when it expired (history)
  used,       \* use_count of each token
  calls,      \* the enrollment requests
  machines,   \* the rows of machines
  disk,       \* each agent's agent.key, agent.crt, ca.crt and state.json
  pc,         \* what each agent is doing
  token,      \* enroll_token in each agent's agent.json
  ask,        \* the call each agent made last
  id,         \* MachineID in each agent's memory
  rotations, faults,
  interrupted \* agents whose writes were interrupted (history)

serverVars == <<cert, serving, issuer, minted, retired>>
storeVars  == <<cap, expired, closed, used, machines>>
agentVars  == <<disk, pc, token, ask, id, interrupted>>
vars == <<serverVars, storeVars, calls, agentVars, rotations, faults>>

CertFile  == {"caCrt", "caKey", "srvCrt", "srvKey"}
AgentFile == {"key", "crt", "ca", "state"}
Broken    == {Torn, Absent}
Leaf      == [by : Nat \union {Public}, n : Nat]

CallStep == {"sent", "consumed", "created", "refused", "lost", "done"}
Request  == [step : CallStep, agent : Agent, token : Token, ca : Nat]
NoCall   == [step |-> "idle"]
Going    == {"sent", "consumed", "created"}

TypeOK ==
  /\ cert.caCrt \in Nat \union Broken /\ cert.caKey \in Nat \union Broken
  /\ cert.srvCrt \in Leaf \union Broken /\ cert.srvKey \in Leaf \union Broken
  /\ serving \in CertFile \union {"down", "load", "up", "refused"}
  /\ issuer \in Nat \union {Public} /\ minted \in Nat /\ retired \subseteq Nat
  /\ cap \in [Token -> (0..MaxUses) \union {Unlimited}] /\ expired \subseteq Token
  /\ used \in [Token -> Nat] /\ closed \in [Token -> Nat]
  /\ calls \in [Call -> Request \union {NoCall}]
  /\ machines \subseteq {n \in Call : calls[n] # NoCall}
  /\ disk \in [Agent -> [AgentFile -> Nat \union Broken]]
  /\ pc \in [Agent -> AgentFile \union {"none", "down", "asking", "running"}]
  /\ token \in [Agent -> Token \union {Absent}]
  /\ ask \in [Agent -> Call \union {0}] /\ id \in [Agent -> Call \union {0}]
  /\ rotations \in Nat /\ faults \in Nat /\ interrupted \subseteq Agent
  \* The CA a running server has in memory is the one of its files.
  /\ serving = "up" => cert.caCrt \in Nat /\ cert.caKey = cert.caCrt
  \* A running agent has loaded a certificate and a CA.
  /\ \A a \in Agent : pc[a] = "running" => disk[a].crt \in Call /\ disk[a].ca \in Nat

\* The operator may have provided a certificate of a public authority, with a CA
\* for the agents or without; a CA that was provided is the first.
Init ==
  /\ \E ca \in {1, Absent}, leaf \in {[by |-> Public, n |-> 0], Absent} :
       /\ cert = [f \in CertFile |-> IF f \in {"caCrt", "caKey"} THEN ca ELSE leaf]
       /\ minted = IF ca = 1 THEN 1 ELSE 0
  /\ serving = "down" /\ issuer = 0 /\ retired = {}
  /\ cap = [t \in Token |-> 0] /\ expired = {}
  /\ used = [t \in Token |-> 0] /\ closed = [t \in Token |-> 0]
  /\ calls = [n \in Call |-> NoCall] /\ machines = {}
  /\ disk = [a \in Agent |-> [f \in AgentFile |-> Absent]]
  /\ pc = [a \in Agent |-> "none"] /\ token = [a \in Agent |-> Absent]
  /\ ask = [a \in Agent |-> 0] /\ id = [a \in Agent |-> 0]
  /\ rotations = 0 /\ faults = 0 /\ interrupted = {}

Fault == faults < MaxFaults /\ faults' = faults + 1

-----------------------------------------------------------------------------
(* The server's certificates: EnsureDevCerts, LoadCA, TLSConfig *)

Exist(files) == \A f \in files : cert[f] # Absent
Whole(files) == \A f \in files : cert[f] \notin Broken
CaPair  == {"caCrt", "caKey"}
SrvPair == {"srvCrt", "srvKey"}

\* Mutant: whatever is missing, everything is made anew.
RenewsAll == IF Exist(CertFile) THEN "load" ELSE "caCrt"

\* The first file EnsureDevCerts writes, if any: the CA is kept when both its files
\* are there, the server's certificate only when all four are.
FirstFile ==
  CASE Exist(CertFile)                                     -> "load"
    [] ~Exist(CertFile) /\ ~Exist(CaPair)                  -> "caCrt"
    [] ~Exist(CertFile) /\ Exist(CaPair) /\ Whole(CaPair)  -> "srvCrt"
    [] ~Exist(CertFile) /\ Exist(CaPair) /\ ~Whole(CaPair) -> "refused"

StartServer ==
  /\ serving = "down"
  /\ serving' = FirstFile
  /\ UNCHANGED <<cert, issuer, minted, retired, storeVars, calls, agentVars, rotations, faults>>

\* A key is the one of the certificate just written.
Content ==
  CASE serving = "caCrt"  -> minted + 1
    [] serving = "caKey"  -> cert.caCrt
    [] serving = "srvCrt" -> [by |-> cert.caCrt, n |-> minted + 1]
    [] serving = "srvKey" -> cert.srvCrt

AfterFile == [caCrt |-> "caKey", caKey |-> "srvCrt", srvCrt |-> "srvKey", srvKey |-> "load"]

WriteCert ==
  /\ serving \in CertFile
  /\ cert' = [cert EXCEPT ![serving] = Content]
  /\ serving' = AfterFile[serving]
  /\ minted' = IF serving \in {"caCrt", "srvCrt"} THEN minted + 1 ELSE minted
  /\ UNCHANGED <<issuer, retired, storeVars, calls, agentVars, rotations, faults>>

Serve ==
  /\ serving = "load"
  /\ IF Whole(CertFile) /\ cert.srvCrt = cert.srvKey
       THEN serving' = "up" /\ issuer' = cert.srvCrt.by
       ELSE serving' = "refused" /\ UNCHANGED issuer
  /\ UNCHANGED <<cert, minted, retired, storeVars, calls, agentVars, rotations, faults>>

\* A crash may cut the file being written short; every request loses its answer.
CrashServer ==
  /\ Fault /\ serving \notin {"down", "refused"}
  /\ cert' \in {cert} \union {[cert EXCEPT ![f] = Torn] : f \in CertFile \intersect {serving}}
  /\ serving' = "down"
  /\ calls' = [n \in Call |-> IF calls[n].step \in Going
                                THEN [calls[n] EXCEPT !.step = "lost"] ELSE calls[n]]
  /\ UNCHANGED <<issuer, minted, retired, storeVars, agentVars, rotations>>

Gone(files) == [f \in CertFile |-> IF f \in files THEN Absent ELSE cert[f]]

\* The operator has the server's certificate made anew and restarts the server while
\* nothing is under way: one or both of its files are removed, or, as README.md and
\* HANDOVER.md say, all of certs/*.crt and certs/*.key, the CA's among them.
Rotate ==
  /\ serving = "up" /\ rotations < MaxRotations
  /\ \A n \in Call : calls[n].step \notin Going
  /\ \E files \in ((SUBSET SrvPair) \ {{}}) \union {CertFile} :
       /\ cert' = Gone(files)
       /\ retired' = IF "caCrt" \in files THEN retired \union {cert.caCrt} ELSE retired
  /\ serving' = "down" /\ rotations' = rotations + 1
  /\ UNCHANGED <<issuer, minted, storeVars, calls, agentVars, faults>>

\* The operator removes what made the server refuse to start.
Repair ==
  /\ serving = "refused"
  /\ cert' = Gone(IF Whole(CaPair) THEN SrvPair ELSE CertFile)
  /\ serving' = "down"
  /\ UNCHANGED <<issuer, minted, retired, storeVars, calls, agentVars, rotations, faults>>

-----------------------------------------------------------------------------
(* Tokens and requests *)

handleCreateEnrollToken(t) ==
  /\ serving = "up" /\ cap[t] = 0
  /\ \E uses \in (1..MaxUses) \union {Unlimited} : cap' = [cap EXCEPT ![t] = uses]
  /\ UNCHANGED <<serverVars, expired, closed, used, machines, calls, agentVars, rotations, faults>>

Expire(t) ==
  /\ cap[t] # 0 /\ t \notin expired
  /\ expired' = expired \union {t} /\ closed' = [closed EXCEPT ![t] = used[t]]
  /\ UNCHANGED <<serverVars, cap, used, machines, calls, agentVars, rotations, faults>>

Valid(t) == t \notin expired /\ (cap[t] = Unlimited \/ used[t] < cap[t])

\* Mutant: off by one.
ConsumesOneMore(t) ==
  /\ t \notin expired
  /\ cap[t] = Unlimited \/ (cap[t] \in Nat /\ used[t] <= cap[t])

\* Mutant: every token is taken for a single-use one.
ConsumesOnce(t) == t \notin expired /\ used[t] = 0

\* ConsumeEnrollmentToken's condition; its statement is atomic.
MayConsume(t) ==
  /\ t \notin expired
  /\ \/ cap[t] = 1 /\ used[t] = 0
     \/ cap[t] = Unlimited
     \/ cap[t] \in 2..MaxUses /\ used[t] < cap[t]

Consume(n) ==
  /\ serving = "up" /\ calls[n].step = "sent"
  /\ LET t == calls[n].token IN
     \/ /\ MayConsume(t)
        /\ used' = [used EXCEPT ![t] = @ + 1]
        /\ calls' = [calls EXCEPT ![n].step = "consumed"]
     \/ /\ ~MayConsume(t)
        /\ calls' = [calls EXCEPT ![n].step = "refused"]
        /\ UNCHANGED used
  /\ UNCHANGED <<serverVars, cap, expired, closed, machines, agentVars, rotations, faults>>

\* The agent that made the request has given it up, and the request's context ended.
Abandoned(n) == LET a == calls[n].agent IN ask[a] # n \/ pc[a] # "asking"

\* A statement of the request fails: cancelled with it, or by a fault of the store.
Fails(n) == (Abandoned(n) /\ UNCHANGED faults) \/ Fault

\* Whatever the error, the answer is that the token is invalid; the token may have been
\* consumed all the same.
ConsumeFails(n) ==
  /\ serving = "up" /\ calls[n].step = "sent" /\ Fails(n)
  /\ LET t == calls[n].token IN
       \/ UNCHANGED used
       \/ MayConsume(t) /\ used' = [used EXCEPT ![t] = @ + 1]
  /\ calls' = [calls EXCEPT ![n].step = "refused"]
  /\ UNCHANGED <<serverVars, cap, expired, closed, machines, agentVars, rotations>>

\* SignCSR and CreateMachine. An INSERT that fails leaves the token used up; the row may
\* be there all the same.
CreateMachine(n) ==
  /\ serving = "up" /\ calls[n].step = "consumed"
  /\ \/ /\ machines' = machines \union {n}
        /\ calls' = [calls EXCEPT ![n].step = "created", ![n].ca = cert.caCrt]
        /\ UNCHANGED faults
     \/ /\ Fails(n)
        /\ machines' \in {machines, machines \union {n}}
        /\ calls' = [calls EXCEPT ![n].step = "refused", ![n].ca = cert.caCrt]
  /\ UNCHANGED <<serverVars, cap, expired, closed, used, agentVars, rotations>>

-----------------------------------------------------------------------------
(* The agent *)

\* Installation, or another one over it: a token, and the CA of the server unless the
\* deployment relies on the system's authorities. What an earlier enrollment wrote stays.
Install(a) ==
  /\ serving = "up" /\ pc[a] \in {"none", "down", "running"}
  /\ \E t \in {u \in Token : cap[u] # 0}, ca \in {cert.caCrt, disk[a].ca} :
       /\ <<t, ca>> # <<token[a], disk[a].ca>>
       /\ token' = [token EXCEPT ![a] = t]
       /\ disk' = [disk EXCEPT ![a].ca = ca]
  /\ pc' = [pc EXCEPT ![a] = "down"] /\ id' = [id EXCEPT ![a] = 0]
  /\ UNCHANGED <<serverVars, storeVars, calls, ask, interrupted, rotations, faults>>

\* Mutant: an agent with a token in agent.json enrolls.
HasNoToken(a) == token[a] = Absent

\* os.Stat of agent.crt.
Enrolled(a) == disk[a].crt # Absent

\* NewEnrollClient: the CA in the data directory, or else the system's authorities.
Trusts(a) == issuer = IF disk[a].ca = Absent THEN Public ELSE disk[a].ca

\* A request with a fresh key. One that cannot connect changes nothing: the agent
\* ends, until its service is started again.
Begin(a) ==
  /\ pc[a] = "down" /\ ~Enrolled(a) /\ token[a] # Absent
  /\ serving = "up" /\ Trusts(a)
  /\ \E n \in Call :
       /\ calls[n] = NoCall
       /\ \A m \in Call : calls[m] = NoCall => n <= m
       /\ calls' = [calls EXCEPT ![n] =
                      [step |-> "sent", agent |-> a, token |-> token[a], ca |-> 0]]
       /\ ask' = [ask EXCEPT ![a] = n]
  /\ pc' = [pc EXCEPT ![a] = "asking"]
  /\ UNCHANGED <<serverVars, storeVars, disk, token, id, interrupted, rotations, faults>>

\* Mutant: the certificate is there before its key.
CertificateFirst(f) == [crt |-> "key", key |-> "ca", ca |-> "state", state |-> "running"][f]

NextFile(f) == [key |-> "crt", crt |-> "ca", ca |-> "state", state |-> "running"][f]

FirstWritten == CHOOSE f \in AgentFile : \A g \in AgentFile : NextFile(g) # f

Receive(a) ==
  /\ pc[a] = "asking" /\ calls[ask[a]].step = "created"
  /\ calls' = [calls EXCEPT ![ask[a]].step = "done"]
  /\ pc' = [pc EXCEPT ![a] = FirstWritten]
  /\ UNCHANGED <<serverVars, storeVars, disk, token, ask, id, interrupted, rotations, faults>>

\* The request failed, or takes more than 30 s and is left to itself: the agent ends.
\* A number that left no trace is free again.
GiveUp(a) ==
  /\ pc[a] = "asking"
  /\ \/ /\ calls[ask[a]].step \in {"refused", "lost"}
        /\ calls' = IF ask[a] \in machines THEN calls ELSE [calls EXCEPT ![ask[a]] = NoCall]
        /\ UNCHANGED faults
     \/ /\ calls[ask[a]].step \in Going
        /\ Fault
        /\ UNCHANGED calls
  /\ pc' = [pc EXCEPT ![a] = "down"]
  /\ UNCHANGED <<serverVars, storeVars, disk, token, ask, id, interrupted, rotations>>

\* The key, the certificate, the CA and the machine id of the answer.
WriteFile(a) ==
  /\ pc[a] \in AgentFile
  /\ disk' = [disk EXCEPT ![a][pc[a]] = IF pc[a] = "ca" THEN calls[ask[a]].ca ELSE ask[a]]
  /\ pc' = [pc EXCEPT ![a] = NextFile(pc[a])]
  /\ id' = IF pc[a] = "state" THEN [id EXCEPT ![a] = ask[a]] ELSE id
  /\ UNCHANGED <<serverVars, storeVars, calls, token, ask, interrupted, rotations, faults>>

\* A write fails, or the agent dies: the file may be cut short.
Interrupt(a) ==
  /\ pc[a] \in AgentFile /\ Fault
  /\ disk' \in {disk, [disk EXCEPT ![a][pc[a]] = Torn]}
  /\ pc' = [pc EXCEPT ![a] = "down"]
  /\ interrupted' = interrupted \union {a}
  /\ UNCHANGED <<serverVars, storeVars, calls, token, ask, id, rotations>>

\* Mutant: whatever is on the disk will do.
TakesAnything(a) == disk[a].crt # Absent

\* NewMTLSClient's files: a certificate with its key, and a CA.
Loads(a) == disk[a].crt \notin Broken /\ disk[a].key = disk[a].crt /\ disk[a].ca \notin Broken

\* The agent starts again with what is on the disk; an unreadable state.json is no id.
Resume(a) ==
  /\ pc[a] = "down" /\ Enrolled(a) /\ Loads(a)
  /\ pc' = [pc EXCEPT ![a] = "running"]
  /\ id' = [id EXCEPT ![a] = IF disk[a].state \in Broken THEN 0 ELSE disk[a].state]
  /\ UNCHANGED <<serverVars, storeVars, calls, disk, token, ask, interrupted, rotations, faults>>

Stop(a) ==
  /\ pc[a] = "running"
  /\ pc' = [pc EXCEPT ![a] = "down"] /\ id' = [id EXCEPT ![a] = 0]
  /\ UNCHANGED <<serverVars, storeVars, calls, disk, token, ask, interrupted,
                 rotations, faults>>

-----------------------------------------------------------------------------
Next ==
  \/ StartServer \/ WriteCert \/ Serve \/ CrashServer \/ Rotate \/ Repair
  \/ \E t \in Token : handleCreateEnrollToken(t) \/ Expire(t)
  \/ \E n \in Call : Consume(n) \/ ConsumeFails(n) \/ CreateMachine(n)
  \/ \E a \in Agent : \/ Install(a) \/ Begin(a) \/ Receive(a) \/ GiveUp(a)
                      \/ WriteFile(a) \/ Interrupt(a) \/ Resume(a) \/ Stop(a)

Spec == Init /\ [][Next]_vars

\* The server is restarted and repaired, it handles the requests it has, and every
\* machine is started again some day.
Fairness ==
  /\ WF_vars(StartServer \/ WriteCert \/ Serve \/ Repair)
  /\ \A n \in Call : WF_vars(Consume(n) \/ CreateMachine(n))
  /\ \A a \in Agent :
       WF_vars(Begin(a) \/ Receive(a) \/ GiveUp(a) \/ WriteFile(a) \/ Resume(a))

FairSpec == Spec /\ Fairness

-----------------------------------------------------------------------------
\* Agents that hold a certificate, whole.
Holders == {a \in Agent : disk[a].crt \notin Broken}

\* A token enrolls no more machines than it is good for, and none once it has expired;
\* each enrollment uses it up once, and only a fault uses it up for nothing (single-use
\* and capped tokens, use_count, expires_at).
TokensHold ==
  \A t \in Token :
    LET rows  == {n \in machines : calls[n].token = t}
        owing == {n \in Call : calls[n].step = "consumed" /\ calls[n].token = t}
    IN  /\ Cardinality(rows) + Cardinality(owing) <= used[t]
        /\ cap[t] = Unlimited \/ used[t] <= cap[t]
        /\ t \in expired => used[t] = closed[t]
        /\ faults = 0 => used[t] = Cardinality(rows) + Cardinality(owing)

\* Whatever crashes and renewals the server's certificates go through, the CA that
\* signed an agent's certificate, and the one the agent trusts, stay the server's, with
\* the key to sign with: dev.go promises that agents "need no re-enrollment". Only the
\* operator takes a CA away from them, by removing its files with the certificate's.
AgentsKeepTrust ==
  LET Kept(ca) == ca \in retired \/ (ca = cert.caCrt /\ ca = cert.caKey) IN
  \A a \in Agent : /\ a \in Holders => Kept(calls[disk[a].crt].ca)
                   /\ disk[a].ca \notin Broken => Kept(disk[a].ca)

\* A certificate on an agent's disk belongs to the key beside it, to a machine the
\* server knows, and to no other agent; an agent that runs knows itself by that
\* machine's id, or by none after an interruption.
OneIdentity ==
  /\ \A a \in Holders :
       /\ disk[a].key = disk[a].crt /\ disk[a].crt \in machines
       /\ calls[disk[a].crt].agent = a
       /\ \A b \in Holders : disk[b].crt = disk[a].crt => b = a
       /\ pc[a] = "running" =>
            id[a] = disk[a].crt \/ (id[a] = 0 /\ a \in interrupted)

\* Started again, an agent would believe itself enrolled and end at once.
Stranded(a) == Enrolled(a) /\ ~Loads(a)

\* Without a fault, every row is the machine of an agent that holds its certificate or
\* is about to; and only an agent interrupted while it wrote can be stranded.
NothingIsWasted ==
  /\ faults = 0 => \A n \in machines : \E a \in Agent : ask[a] = n /\ pc[a] # "none"
                     /\ (disk[a].crt = n \/ pc[a] \in {"asking", "key", "crt"})
  /\ \A a \in Agent : pc[a] = "down" /\ Stranded(a) => a \in interrupted

Connected(a) ==
  /\ pc[a] = "running" /\ serving = "up"
  /\ disk[a].ca = issuer /\ calls[disk[a].crt].ca = cert.caCrt

\* It was not given the CA, and the server's certificate is signed by that.
NoRoots(a) == disk[a].ca = Absent /\ ~Enrolled(a)

\* It was installed, its token is used up or expired, and it holds no certificate.
Unwelcome(a) == pc[a] = "down" /\ ~Enrolled(a) /\ ~Valid(token[a])

\* The CA it trusts, or the one that signed its certificate, is gone from the server.
CutOff(a) == disk[a].ca \in retired \/ (a \in Holders /\ calls[disk[a].crt].ca \in retired)

\* The server shows the certificate of a public authority: an agent that has the CA
\* trusts nothing else, and one without it gets the CA with its own certificate.
ShownPublic == issuer = Public

Hopeless(a) ==
  \/ pc[a] = "none" \/ (pc[a] = "down" /\ Stranded(a))
  \/ NoRoots(a) \/ Unwelcome(a) \/ CutOff(a) \/ ShownPublic

\* Every agent that was installed, with what it takes to be let in, gets to talk to the
\* server, again and again, whatever crashes it and the server go through.
EventuallyConnected == \A a \in Agent : []<>(Connected(a) \/ Hopeless(a))
=============================================================================
