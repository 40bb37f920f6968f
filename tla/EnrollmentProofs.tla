--------------------------- MODULE EnrollmentProofs ---------------------------
(***************************************************************************)
(* The properties of Enrollment for every number of agents, tokens,        *)
(* requests, rotations and faults.                                         *)
(***************************************************************************)
EXTENDS Enrollment, FiniteSetTheorems, TLAPS

-----------------------------------------------------------------------------
(* The inductive invariant. *)

\* The CA is made, whole, and can sign.
Founded == cert.caCrt \in Nat /\ cert.caKey = cert.caCrt

\* An authority the server still has, or one the operator took away.
Known(ca) == ca \in retired \/ (ca = cert.caCrt /\ Founded)

\* The key of the CA is written after its certificate and belongs to it; a server that
\* writes its own certificate has a CA to sign it with, one that runs loaded all four.
CertInv ==
  /\ cert = [f \in CertFile |-> cert[f]]
  /\ cert.caKey # Absent => cert.caCrt \in Nat
  /\ cert.caKey \in Nat => cert.caKey = cert.caCrt
  /\ serving \in {"caCrt", "caKey"} => cert.caKey = Absent
  /\ serving = "caKey" => cert.caCrt \in Nat
  /\ serving \in {"srvCrt", "srvKey", "up"} => Founded

\* A row is the machine of a request that was signed by a known CA.
RowsInv ==
  \A n \in Call :
    /\ calls[n].step \in {"created", "done"} => n \in machines
    /\ n \in machines =>
         /\ calls[n].step \in {"created", "lost", "done", "refused"} /\ Known(calls[n].ca)

\* An agent that waits has made its request itself; one that writes has the answer.
AskInv ==
  \A a \in Agent :
    /\ pc[a] = "asking" => /\ ask[a] \in Call /\ calls[ask[a]] # NoCall
                           /\ calls[ask[a]].step # "done" /\ calls[ask[a]].agent = a
    /\ pc[a] \in AgentFile => /\ ask[a] \in Call
                              /\ calls[ask[a]].step = "done" /\ calls[ask[a]].agent = a

\* The files are written in order, and what an agent holds it got from the server.
DiskInv ==
  \A a \in Agent :
    /\ pc[a] \in {"none", "asking", "key", "crt"} => disk[a].crt = Absent
    /\ pc[a] \in {"crt", "ca", "state"} => disk[a].key = ask[a]
    /\ pc[a] \in {"ca", "state"} => disk[a].crt = ask[a]
    /\ pc[a] = "state" => disk[a].ca \in Nat
    /\ disk[a].crt \in Nat =>
         /\ disk[a].crt \in Call /\ disk[a].key = disk[a].crt
         /\ calls[disk[a].crt].step = "done" /\ calls[disk[a].crt].agent = a
    /\ disk[a].ca \in Nat => Known(disk[a].ca)
    /\ disk[a].state # Absent => disk[a].crt \in Nat
    /\ disk[a].state \in Nat => disk[a].state = disk[a].crt

\* Whoever was not interrupted has written everything.
WholeInv ==
  \A a \in Agent :
    /\ pc[a] \in {"down", "running"} /\ a \notin interrupted /\ Enrolled(a) =>
         Loads(a) /\ disk[a].state = disk[a].crt
    /\ pc[a] = "running" =>
         /\ Loads(a)
         /\ id[a] = disk[a].crt \/ (id[a] = 0 /\ a \in interrupted)

\* While nothing fails, every request is awaited, every row belongs to an agent, and a
\* refused request has none.
AwaitedInv ==
  faults = 0 =>
    \A n \in Call :
      /\ calls[n].step # "lost"
      /\ calls[n].step \in Going =>
           ask[calls[n].agent] = n /\ pc[calls[n].agent] = "asking"
      /\ calls[n].step = "done" =>
           LET a == calls[n].agent IN
             ask[a] = n /\ (disk[a].crt = n \/ pc[a] \in {"key", "crt"})
      /\ calls[n].step = "refused" => n \notin machines

\* Only finitely many requests were made, and a token counts the ones it served.
RowsOf(t)  == {n \in machines : calls[n].token = t}
OwingTo(t) == {n \in Call : calls[n].step = "consumed" /\ calls[n].token = t}

TokenInv ==
  /\ IsFiniteSet({n \in Call : calls[n] # NoCall})
  /\ \A t \in Token :
       /\ Cardinality(RowsOf(t)) + Cardinality(OwingTo(t)) <= used[t]
       /\ cap[t] = Unlimited \/ used[t] <= cap[t]
       /\ faults = 0 => used[t] = Cardinality(RowsOf(t)) + Cardinality(OwingTo(t))

\* An expired token stays as it was.
ExpiredInv == \A t \in expired : used[t] = closed[t]

IInv == TypeOK /\ CertInv /\ RowsInv /\ AskInv /\ DiskInv /\ WholeInv

-----------------------------------------------------------------------------
(* The server's files. *)

\* What TypeOK says of the server.
ServerTyped ==
  /\ cert.caCrt \in Nat \union Broken /\ cert.caKey \in Nat \union Broken
  /\ cert.srvCrt \in Leaf \union Broken /\ cert.srvKey \in Leaf \union Broken
  /\ serving \in CertFile \union {"down", "load", "up", "refused"}
  /\ issuer \in Nat \union {Public} /\ minted \in Nat /\ retired \subseteq Nat
  /\ serving = "up" => cert.caCrt \in Nat /\ cert.caKey = cert.caCrt

ServerAction == StartServer \/ WriteCert \/ Serve \/ CrashServer \/ Rotate \/ Repair

\* Whatever becomes of the server's files, a CA that can sign is kept or is known to be
\* retired.
LEMMA CertStep ==
  ASSUME ServerTyped, CertInv, ServerAction
  PROVE  /\ ServerTyped' /\ CertInv' /\ retired \subseteq retired'
         /\ Founded => (Founded' /\ cert'.caCrt = cert.caCrt) \/ cert.caCrt \in retired'
<1>. USE EnrollmentAssumption DEF ServerTyped, CertInv, Founded, CertFile, Broken
<1>1. CASE StartServer
  BY <1>1 DEF StartServer, FirstFile, Exist, Whole, CaPair
<1>2. CASE WriteCert
  <2>1. CASE serving = "caCrt"
    <3>1. /\ cert' = [cert EXCEPT !.caCrt = minted + 1] /\ serving' = "caKey"
          /\ minted' = minted + 1 /\ issuer' = issuer /\ retired' = retired
      BY <1>2, <2>1 DEF WriteCert, Content, AfterFile
    <3>. QED  BY <2>1, <3>1
  <2>2. CASE serving = "caKey"
    <3>1. /\ cert' = [cert EXCEPT !.caKey = cert.caCrt] /\ serving' = "srvCrt"
          /\ minted' = minted /\ issuer' = issuer /\ retired' = retired
      BY <1>2, <2>2 DEF WriteCert, Content, AfterFile
    <3>. QED  BY <2>2, <3>1
  <2>3. CASE serving = "srvCrt"
    <3>1. /\ cert' = [cert EXCEPT !.srvCrt = [by |-> cert.caCrt, n |-> minted + 1]]
          /\ serving' = "srvKey" /\ minted' = minted + 1 /\ issuer' = issuer
          /\ retired' = retired
      BY <1>2, <2>3 DEF WriteCert, Content, AfterFile
    <3>2. [by |-> cert.caCrt, n |-> minted + 1] \in Leaf
      BY <2>3 DEF Leaf
    <3>. QED  BY <2>3, <3>1, <3>2
  <2>4. CASE serving = "srvKey"
    <3>1. /\ cert' = [cert EXCEPT !.srvKey = cert.srvCrt] /\ serving' = "load"
          /\ minted' = minted /\ issuer' = issuer /\ retired' = retired
      BY <1>2, <2>4 DEF WriteCert, Content, AfterFile
    <3>. QED  BY <2>4, <3>1
  <2>. QED  BY <1>2, <2>1, <2>2, <2>3, <2>4 DEF WriteCert
<1>3. CASE Serve
  <2>1. serving' = "up" => Founded /\ issuer' \in Nat \union {Public}
    BY <1>3 DEF Serve, Whole, Leaf
  <2>. QED  BY <1>3, <2>1 DEF Serve
<1>4. CASE CrashServer
  <2>1. PICK f \in CertFile : cert' = cert \/ (f = serving /\ cert' = [cert EXCEPT ![f] = Torn])
    BY <1>4 DEF CrashServer
  <2>2. serving' = "down" /\ issuer' = issuer /\ minted' = minted /\ retired' = retired
    BY <1>4 DEF CrashServer
  <2>. QED  BY <2>1, <2>2
<1>5. CASE Rotate
  <2>1. PICK files \in ((SUBSET SrvPair) \ {{}}) \union {CertFile} :
          /\ cert' = Gone(files)
          /\ retired' = IF "caCrt" \in files THEN retired \union {cert.caCrt} ELSE retired
    BY <1>5 DEF Rotate
  <2>2. serving = "up" /\ serving' = "down" /\ issuer' = issuer /\ minted' = minted
    BY <1>5 DEF Rotate
  <2>3. CASE files = CertFile
    BY <2>1, <2>2, <2>3 DEF Gone
  <2>4. CASE files \in SUBSET SrvPair
    BY <2>1, <2>2, <2>4 DEF Gone, SrvPair
  <2>. QED  BY <2>1, <2>3, <2>4
<1>6. CASE Repair
  BY <1>6 DEF Repair, Gone, SrvPair, CaPair, Whole
<1>. QED  BY <1>1, <1>2, <1>3, <1>4, <1>5, <1>6 DEF ServerAction

-----------------------------------------------------------------------------
(* Requests. *)

LEMMA CallTyped ==
  ASSUME TypeOK, NEW n \in Call
  PROVE  /\ calls[n].step \in CallStep \union {"idle"}
         /\ calls[n].step = "idle" <=> calls[n] = NoCall
         /\ calls[n] # NoCall => /\ calls[n] \in Request
                                 /\ calls[n].agent \in Agent /\ calls[n].token \in Token
                                 /\ calls[n].ca \in Nat
BY DEF TypeOK, Request, NoCall, CallStep

\* A request that gets on keeps who made it, with which token, and who signed.
Advanced(n, s) == [calls EXCEPT ![n].step = s]

LEMMA Advances ==
  ASSUME TypeOK, NEW n \in Call, calls[n] # NoCall, NEW s \in CallStep
  PROVE  LET c == Advanced(n, s) IN
         /\ c \in [Call -> Request \union {NoCall}]
         /\ c[n].step = s /\ c[n] # NoCall
         /\ \A m \in Call : /\ c[m].agent = calls[m].agent /\ c[m].token = calls[m].token
                            /\ c[m].ca = calls[m].ca
                            /\ c[m] = NoCall <=> calls[m] = NoCall
         /\ \A m \in Call \ {n} : c[m] = calls[m]
<1>. DEFINE r == [calls[n] EXCEPT !.step = s]
<1>1. calls[n] \in Request
  BY CallTyped
<1>2. r \in Request
  BY <1>1 DEF Request
<1>3. Advanced(n, s) = [calls EXCEPT ![n] = r]
  BY DEF Advanced
<1>4. calls \in [Call -> Request \union {NoCall}]
  BY DEF TypeOK
<1>5. r.step = s /\ r.agent = calls[n].agent /\ r.token = calls[n].token /\ r.ca = calls[n].ca
  BY <1>1 DEF Request
<1>6. r # NoCall
  BY <1>5 DEF NoCall, CallStep
<1>. HIDE DEF r
<1>. QED  BY <1>2, <1>3, <1>4, <1>5, <1>6

\* A crash of the server loses every request that was under way.
LEMMA Loses ==
  ASSUME TypeOK, CrashServer
  PROVE  /\ calls' \in [Call -> Request \union {NoCall}]
         /\ \A m \in Call :
              /\ calls'[m].step = (IF calls[m].step \in Going THEN "lost" ELSE calls[m].step)
              /\ calls'[m] # NoCall => calls'[m].agent = calls[m].agent
              /\ calls'[m] # NoCall => calls'[m].token = calls[m].token
              /\ calls'[m] # NoCall => calls'[m].ca = calls[m].ca
              /\ calls'[m] = NoCall <=> calls[m] = NoCall
<1>. SUFFICES ASSUME NEW m \in Call
     PROVE  /\ calls'[m] \in Request \union {NoCall}
            /\ calls'[m].step = (IF calls[m].step \in Going THEN "lost" ELSE calls[m].step)
            /\ calls'[m] # NoCall => calls'[m].agent = calls[m].agent
            /\ calls'[m] # NoCall => calls'[m].token = calls[m].token
            /\ calls'[m] # NoCall => calls'[m].ca = calls[m].ca
            /\ calls'[m] = NoCall <=> calls[m] = NoCall
  BY DEF CrashServer
<1>1. calls'[m] = IF calls[m].step \in Going THEN [calls[m] EXCEPT !.step = "lost"] ELSE calls[m]
  BY DEF CrashServer
<1>2. CASE calls[m].step \in Going
  <2>1. calls[m] \in Request
    BY <1>2, CallTyped DEF Going
  <2>2. [calls[m] EXCEPT !.step = "lost"] \in Request
    BY <2>1 DEF Request, CallStep
  <2>. QED  BY <1>1, <1>2, <2>1, <2>2, CallTyped DEF Request, NoCall, Going, CallStep
<1>3. CASE calls[m].step \notin Going
  BY <1>1, <1>3, CallTyped
<1>. QED  BY <1>2, <1>3

-----------------------------------------------------------------------------
(* Every action preserves the invariant. *)

LEMMA ServerKeeps ==
  ASSUME IInv, ServerAction
  PROVE  IInv'
<1>1. ServerTyped' /\ CertInv' /\ \A ca : Known(ca) => Known(ca)'
  <2>1. /\ ServerTyped' /\ CertInv' /\ retired \subseteq retired'
        /\ Founded => (Founded' /\ cert'.caCrt = cert.caCrt) \/ cert.caCrt \in retired'
    BY CertStep DEF IInv, TypeOK, ServerTyped
  <2>. QED  BY <2>1 DEF Known
<1>2. /\ UNCHANGED <<storeVars, agentVars>>
      /\ rotations' \in Nat /\ faults' \in Nat
  BY DEF IInv, TypeOK, ServerAction, StartServer, WriteCert, Serve, CrashServer, Rotate,
         Repair, Fault, storeVars, agentVars
<1>3. /\ calls' \in [Call -> Request \union {NoCall}]
      /\ \A m \in Call :
           /\ calls'[m].step = calls[m].step \/ (calls[m].step \in Going /\ calls'[m].step = "lost")
           /\ calls'[m] # NoCall => calls'[m].agent = calls[m].agent
           /\ calls'[m] # NoCall => calls'[m].ca = calls[m].ca
           /\ calls'[m] = NoCall <=> calls[m] = NoCall
  <2>1. CASE CrashServer
    BY <2>1, Loses DEF IInv
  <2>2. CASE ~CrashServer
    <3>1. calls' = calls
      BY <2>2 DEF ServerAction, StartServer, WriteCert, Serve, Rotate, Repair
    <3>. QED  BY <3>1 DEF IInv, TypeOK
  <2>. QED  BY <2>1, <2>2
<1>4. TypeOK'
  BY <1>1, <1>2, <1>3 DEF IInv, TypeOK, ServerTyped, storeVars, agentVars
<1>5. RowsInv'
  <2>. SUFFICES ASSUME NEW n \in Call
       PROVE  /\ calls'[n].step \in {"created", "done"} => n \in machines
              /\ n \in machines =>
                   /\ calls'[n].step \in {"created", "lost", "done", "refused"}
                   /\ Known(calls[n].ca)'
    BY <1>2 DEF RowsInv, storeVars
  <2>1. n \in machines => calls'[n] # NoCall
    BY <1>3 DEF IInv, TypeOK
  <2>. QED  BY <1>1, <1>3, <2>1 DEF IInv, RowsInv, Going
<1>6. AskInv'
  <2>. SUFFICES ASSUME NEW a \in Agent
       PROVE  /\ pc[a] = "asking" =>
                   /\ ask[a] \in Call /\ calls'[ask[a]] # NoCall
                   /\ calls'[ask[a]].step # "done" /\ calls'[ask[a]].agent = a
              /\ pc[a] \in AgentFile =>
                   /\ ask[a] \in Call
                   /\ calls'[ask[a]].step = "done" /\ calls'[ask[a]].agent = a
    BY <1>2 DEF AskInv, agentVars
  <2>1. pc[a] = "asking" => calls'[ask[a]] # NoCall
    BY <1>3 DEF IInv, AskInv
  <2>2. pc[a] \in AgentFile => calls[ask[a]] # NoCall
    BY DEF IInv, AskInv, NoCall
  <2>. QED  BY <1>3, <2>1, <2>2 DEF IInv, AskInv, Going
<1>7. DiskInv'
  <2>. SUFFICES ASSUME NEW a \in Agent, disk[a].crt \in Nat
       PROVE  calls'[disk[a].crt].step = "done" /\ calls'[disk[a].crt].agent = a
    BY <1>1, <1>2 DEF IInv, DiskInv, agentVars
  <2>1. /\ disk[a].crt \in Call /\ calls[disk[a].crt].step = "done"
        /\ calls[disk[a].crt].agent = a
    BY DEF IInv, DiskInv
  <2>2. calls[disk[a].crt] # NoCall
    BY <2>1 DEF NoCall
  <2>. QED  BY <1>3, <2>1, <2>2 DEF Going
<1>8. WholeInv'
  BY <1>2 DEF IInv, WholeInv, agentVars, Enrolled, Loads
<1>. QED  BY <1>1, <1>4, <1>5, <1>6, <1>7, <1>8 DEF IInv

\* What an administrator does to tokens concerns nobody else.
LEMMA TokenKeeps ==
  ASSUME IInv, NEW t \in Token, handleCreateEnrollToken(t) \/ Expire(t)
  PROVE  IInv'
<1>1. /\ UNCHANGED <<serverVars, used, machines, calls, agentVars, rotations, faults>>
      /\ cap' \in [Token -> (0..MaxUses) \union {Unlimited}] /\ expired' \subseteq Token
      /\ closed' \in [Token -> Nat]
  <2>1. UNCHANGED <<serverVars, used, machines, calls, agentVars, rotations, faults>>
    BY DEF handleCreateEnrollToken, Expire
  <2>2. CASE handleCreateEnrollToken(t)
    BY <2>1, <2>2, EnrollmentAssumption DEF IInv, TypeOK, handleCreateEnrollToken
  <2>3. CASE Expire(t)
    BY <2>1, <2>3 DEF IInv, TypeOK, Expire
  <2>. QED  BY <2>1, <2>2, <2>3
<1>. QED  BY <1>1 DEF IInv, TypeOK, CertInv, RowsInv, AskInv, DiskInv, WholeInv, Founded, Known,
                     serverVars, agentVars, Enrolled, Loads

LEMMA ConsumeKeeps ==
  ASSUME IInv, NEW n \in Call, Consume(n) \/ ConsumeFails(n)
  PROVE  IInv'
<1>1. /\ UNCHANGED <<serverVars, machines, agentVars, rotations, cap, expired, closed>>
      /\ calls[n].step = "sent" /\ calls[n] # NoCall /\ faults' \in Nat
  BY DEF Consume, ConsumeFails, Fails, Fault, NoCall, IInv, TypeOK
<1>2. PICK s \in {"consumed", "refused"} : calls' = [calls EXCEPT ![n].step = s]
  BY DEF Consume, ConsumeFails
<1>3. used' \in [Token -> Nat]
  BY <1>1, CallTyped DEF IInv, TypeOK, Consume, ConsumeFails
<1>4. /\ calls' \in [Call -> Request \union {NoCall}]
      /\ calls'[n].step = s /\ calls'[n] # NoCall
      /\ \A m \in Call : /\ calls'[m].agent = calls[m].agent
                         /\ calls'[m].ca = calls[m].ca
                         /\ calls'[m] = NoCall <=> calls[m] = NoCall
      /\ \A m \in Call \ {n} : calls'[m] = calls[m]
  <2>1. s \in CallStep /\ calls' = Advanced(n, s)
    BY <1>2 DEF CallStep, Advanced
  <2>. QED  BY <1>1, <2>1, Advances DEF IInv
<1>5. TypeOK'
  BY <1>1, <1>3, <1>4 DEF IInv, TypeOK, serverVars, agentVars
<1>6. CertInv'
  BY <1>1 DEF IInv, CertInv, Founded, serverVars
<1>7. RowsInv'
  BY <1>1, <1>4 DEF IInv, RowsInv, Founded, Known, serverVars
<1>8. AskInv'
  BY <1>1, <1>4 DEF IInv, AskInv, agentVars
<1>9. DiskInv'
  BY <1>1, <1>4 DEF IInv, DiskInv, agentVars, serverVars, Founded, Known
<1>10. WholeInv'
  BY <1>1 DEF IInv, WholeInv, agentVars, Enrolled, Loads
<1>. QED  BY <1>5, <1>6, <1>7, <1>8, <1>9, <1>10 DEF IInv

\* A row is added, or could not be, for a request that is signed.
Answered(n, s) == [calls EXCEPT ![n].step = s, ![n].ca = cert.caCrt]

LEMMA Answers ==
  ASSUME TypeOK, NEW n \in Call, calls[n] # NoCall, serving = "up",
         NEW s \in {"created", "refused"}
  PROVE  LET c == Answered(n, s) IN
         /\ c \in [Call -> Request \union {NoCall}]
         /\ c[n].step = s /\ c[n].ca = cert.caCrt /\ c[n] # NoCall
         /\ c[n].agent = calls[n].agent /\ c[n].token = calls[n].token
         /\ \A m \in Call \ {n} : c[m] = calls[m]
<1>. DEFINE r == [calls[n] EXCEPT !.step = s, !.ca = cert.caCrt]
<1>1. calls[n] \in Request
  BY CallTyped
<1>2. r \in Request
  BY <1>1 DEF Request, CallStep, TypeOK
<1>4. calls \in [Call -> Request \union {NoCall}]
  BY DEF TypeOK
<1>3. Answered(n, s) = [calls EXCEPT ![n] = r]
  BY <1>4 DEF Answered
<1>5. r.step = s /\ r.agent = calls[n].agent /\ r.token = calls[n].token
      /\ r.ca = cert.caCrt
  BY <1>1 DEF Request
<1>6. r # NoCall
  BY <1>5 DEF NoCall
<1>. HIDE DEF r
<1>. QED  BY <1>2, <1>3, <1>4, <1>5, <1>6

LEMMA CreateMachineKeeps ==
  ASSUME IInv, NEW n \in Call, CreateMachine(n)
  PROVE  IInv'
<1>1. /\ UNCHANGED <<serverVars, agentVars, rotations, cap, expired, closed, used>>
      /\ calls[n].step = "consumed" /\ calls[n] # NoCall /\ serving = "up"
      /\ faults' \in Nat
  BY DEF CreateMachine, NoCall, Fails, Fault, IInv, TypeOK
<1>2. Founded
  BY <1>1 DEF IInv, CertInv
<1>3. /\ calls' \in [Call -> Request \union {NoCall}]
      /\ calls'[n] # NoCall /\ calls'[n].agent = calls[n].agent
      /\ \A m \in Call \ {n} : calls'[m] = calls[m]
      /\ calls'[n].ca = cert.caCrt
      /\ \/ machines' = machines /\ calls'[n].step = "refused"
         \/ machines' = machines \union {n} /\ calls'[n].step \in {"created", "refused"}
  <2>1. PICK s \in {"created", "refused"} :
          /\ calls' = Answered(n, s)
          /\ machines' = machines \union {n} \/ (s = "refused" /\ machines' = machines)
    BY DEF CreateMachine, Answered
  <2>. QED  BY <1>1, <2>1, Answers DEF IInv
<1>4. n \notin machines
  BY <1>1 DEF IInv, RowsInv
<1>5. TypeOK'
  BY <1>1, <1>3 DEF IInv, TypeOK, serverVars, agentVars
<1>6. CertInv'
  BY <1>1 DEF IInv, CertInv, Founded, serverVars
<1>7. RowsInv'
  BY <1>1, <1>2, <1>3, <1>4 DEF IInv, RowsInv, Founded, Known, serverVars
<1>8. AskInv'
  BY <1>1, <1>3 DEF IInv, AskInv, agentVars
<1>9. DiskInv'
  BY <1>1, <1>3 DEF IInv, DiskInv, agentVars, serverVars, Founded, Known
<1>10. WholeInv'
  BY <1>1 DEF IInv, WholeInv, agentVars, Enrolled, Loads
<1>. QED  BY <1>5, <1>6, <1>7, <1>8, <1>9, <1>10 DEF IInv

\* A write changes one file of one agent.
Written(a, f, v) == [disk EXCEPT ![a][f] = v]

LEMMA Writes ==
  ASSUME TypeOK, NEW a \in Agent, NEW f \in AgentFile, NEW v \in Nat \union Broken
  PROVE  LET d == Written(a, f, v) IN
         /\ d \in [Agent -> [AgentFile -> Nat \union Broken]]
         /\ \A b \in Agent \ {a} : d[b] = disk[b]
         /\ d[a][f] = v
         /\ \A g \in AgentFile \ {f} : d[a][g] = disk[a][g]
<1>1. disk \in [Agent -> [AgentFile -> Nat \union Broken]]
  BY DEF TypeOK
<1>2. Written(a, f, v) = [disk EXCEPT ![a] = [disk[a] EXCEPT ![f] = v]]
  BY <1>1 DEF Written
<1>. QED  BY <1>1, <1>2

LEMMA InstallKeeps ==
  ASSUME IInv, NEW a \in Agent, Install(a)
  PROVE  IInv'
<1>. USE EnrollmentAssumption
<1>1. /\ UNCHANGED <<serverVars, storeVars, calls, ask, interrupted, rotations, faults>>
      /\ pc[a] \in {"none", "down", "running"} /\ serving = "up"
      /\ pc' = [pc EXCEPT ![a] = "down"] /\ id' = [id EXCEPT ![a] = 0]
  BY DEF Install
<1>2. Founded
  BY <1>1 DEF IInv, CertInv
<1>3. PICK t \in Token, ca \in Nat \union Broken :
        /\ ca \in Nat \/ ca = disk[a].ca
        /\ ca = cert.caCrt \/ ca = disk[a].ca
        /\ token' = [token EXCEPT ![a] = t] /\ disk' = Written(a, "ca", ca)
  <2>1. PICK t \in Token, ca \in {cert.caCrt, disk[a].ca} :
          token' = [token EXCEPT ![a] = t] /\ disk' = [disk EXCEPT ![a].ca = ca]
    BY DEF Install
  <2>2. ca \in Nat \union Broken /\ (ca \in Nat \/ ca = disk[a].ca)
    BY <1>2, <2>1 DEF IInv, TypeOK, AgentFile, Founded
  <2>. QED  BY <2>1, <2>2 DEF Written
<1>4. /\ disk' \in [Agent -> [AgentFile -> Nat \union Broken]]
      /\ \A b \in Agent \ {a} : disk'[b] = disk[b]
      /\ disk'[a].key = disk[a].key /\ disk'[a].crt = disk[a].crt
      /\ disk'[a].state = disk[a].state /\ disk'[a].ca = ca
  <2>1. "ca" \in AgentFile
    BY DEF AgentFile
  <2>2. /\ disk' \in [Agent -> [AgentFile -> Nat \union Broken]]
        /\ \A b \in Agent \ {a} : disk'[b] = disk[b]
        /\ disk'[a]["ca"] = ca
        /\ \A g \in AgentFile \ {"ca"} : disk'[a][g] = disk[a][g]
    BY <1>3, <2>1, Writes DEF IInv
  <2>. QED  BY <2>2 DEF AgentFile
<1>5. TypeOK'
  BY <1>1, <1>3, <1>4 DEF IInv, TypeOK, serverVars, storeVars
<1>6. CertInv' /\ RowsInv'
  BY <1>1 DEF IInv, CertInv, RowsInv, Founded, Known, serverVars, storeVars
<1>7. AskInv'
  BY <1>1 DEF IInv, AskInv, TypeOK, AgentFile
<1>8. DiskInv'
  <2>. SUFFICES ASSUME NEW b \in Agent PROVE DiskInv!(b)'
    BY DEF DiskInv
  <2>1. CASE b # a
    BY <1>1, <1>4, <2>1 DEF IInv, DiskInv, TypeOK, serverVars, Founded, Known
  <2>2. CASE b = a
    BY <1>1, <1>2, <1>3, <1>4, <2>2 DEF IInv, DiskInv, TypeOK, serverVars, Founded, Known
  <2>. QED  BY <2>1, <2>2
<1>9. WholeInv'
  <2>. SUFFICES ASSUME NEW b \in Agent PROVE WholeInv!(b)'
    BY DEF WholeInv
  <2>2. CASE b # a
    BY <1>1, <1>4, <2>2 DEF IInv, WholeInv, TypeOK, Enrolled, Loads
  <2>3. CASE b = a
    <3>1. pc'[a] = "down" /\ interrupted' = interrupted
      BY <1>1 DEF IInv, TypeOK
    <3>2. Enrolled(a) => pc[a] # "none"
      BY DEF IInv, DiskInv, Enrolled
    <3>3. ASSUME a \notin interrupted, Enrolled(a)
          PROVE  Loads(a) /\ disk[a].state = disk[a].crt
      BY <1>1, <3>2, <3>3 DEF IInv, WholeInv
    <3>. QED  BY <1>3, <1>4, <2>3, <3>1, <3>3 DEF Enrolled, Loads, Broken
  <2>. QED  BY <2>2, <2>3
<1>. QED  BY <1>5, <1>6, <1>7, <1>8, <1>9 DEF IInv

LEMMA BeginKeeps ==
  ASSUME IInv, NEW a \in Agent, Begin(a)
  PROVE  IInv'
<1>. USE EnrollmentAssumption
<1>1. /\ UNCHANGED <<serverVars, storeVars, disk, token, id, interrupted, rotations, faults>>
      /\ pc[a] = "down" /\ disk[a].crt = Absent /\ token[a] \in Token
      /\ pc' = [pc EXCEPT ![a] = "asking"]
  BY DEF Begin, Enrolled, IInv, TypeOK
<1>2. PICK n \in Call :
        /\ calls[n] = NoCall
        /\ calls' = [calls EXCEPT ![n] = [step |-> "sent", agent |-> a, token |-> token[a], ca |-> 0]]
        /\ ask' = [ask EXCEPT ![a] = n]
  BY DEF Begin
<1>3. /\ calls' \in [Call -> Request \union {NoCall}]
      /\ calls'[n].step = "sent" /\ calls'[n].agent = a /\ calls'[n] # NoCall
      /\ \A m \in Call \ {n} : calls'[m] = calls[m]
  <2>. DEFINE r == [step |-> "sent", agent |-> a, token |-> token[a], ca |-> 0]
  <2>1. r \in Request /\ r # NoCall /\ r.step = "sent" /\ r.agent = a
    BY <1>1 DEF Request, CallStep, NoCall
  <2>2. calls \in [Call -> Request \union {NoCall}] /\ calls' = [calls EXCEPT ![n] = r]
    BY <1>2 DEF IInv, TypeOK
  <2>. HIDE DEF r
  <2>. QED  BY <2>1, <2>2
<1>4. n \notin machines /\ calls[n].step = "idle"
  BY <1>2 DEF IInv, TypeOK, NoCall
<1>5. /\ pc' \in [Agent -> AgentFile \union {"none", "down", "asking", "running"}]
      /\ ask' \in [Agent -> Call \union {0}]
      /\ pc'[a] = "asking" /\ ask'[a] = n
      /\ \A b \in Agent \ {a} : pc'[b] = pc[b] /\ ask'[b] = ask[b]
  BY <1>1, <1>2 DEF IInv, TypeOK
<1>6. TypeOK'
  BY <1>1, <1>3, <1>5 DEF IInv, TypeOK, serverVars, storeVars
<1>7. CertInv'
  BY <1>1 DEF IInv, CertInv, Founded, serverVars
<1>8. RowsInv'
  <2>. SUFFICES ASSUME NEW m \in Call PROVE RowsInv!(m)'
    BY DEF RowsInv
  <2>1. CASE m = n
    BY <1>1, <1>3, <1>4, <2>1 DEF storeVars
  <2>2. CASE m # n
    <3>1. calls'[m] = calls[m] /\ machines' = machines /\ cert' = cert
      BY <1>1, <1>3, <2>2 DEF serverVars, storeVars
    <3>2. RowsInv!(m)
      BY DEF IInv, RowsInv
    <3>. QED  BY <1>1, <3>1, <3>2 DEF Founded, Known, serverVars
  <2>. QED  BY <2>1, <2>2
<1>9. AskInv'
  <2>. SUFFICES ASSUME NEW b \in Agent PROVE AskInv!(b)'
    BY DEF AskInv
  <2>1. CASE b = a
    BY <1>3, <1>5, <2>1 DEF AgentFile
  <2>2. CASE b # a
    BY <1>2, <1>3, <1>4, <1>5, <2>2 DEF IInv, AskInv
  <2>. QED  BY <2>1, <2>2
<1>10. DiskInv'
  <2>. SUFFICES ASSUME NEW b \in Agent PROVE DiskInv!(b)'
    BY DEF DiskInv
  <2>1. disk[b].crt \in Nat => disk[b].crt # n
    BY <1>4 DEF IInv, DiskInv
  <2>2. CASE b = a
    BY <1>1, <1>3, <1>5, <2>1, <2>2 DEF IInv, DiskInv, Founded, Known, serverVars
  <2>3. CASE b # a
    BY <1>1, <1>3, <1>5, <2>1, <2>3 DEF IInv, DiskInv, Founded, Known, serverVars
  <2>. QED  BY <2>2, <2>3
<1>11. WholeInv'
  BY <1>1, <1>5 DEF IInv, WholeInv, Enrolled, Loads
<1>. QED  BY <1>6, <1>7, <1>8, <1>9, <1>10, <1>11 DEF IInv

LEMMA FirstIsKey == FirstWritten = "key"
<1>1. \A g \in AgentFile : NextFile(g) # "key"
  BY DEF AgentFile, NextFile
<1>2. \A f \in AgentFile : f # "key" => \E g \in AgentFile : NextFile(g) = f
  <2>1. NextFile("key") = "crt" /\ NextFile("crt") = "ca" /\ NextFile("ca") = "state"
    BY DEF NextFile
  <2>. QED  BY <2>1 DEF AgentFile
<1>3. "key" \in AgentFile
  BY DEF AgentFile
<1>. QED  BY <1>1, <1>2, <1>3 DEF FirstWritten

LEMMA ReceiveKeeps ==
  ASSUME IInv, NEW a \in Agent, Receive(a)
  PROVE  IInv'
<1>1. /\ UNCHANGED <<serverVars, storeVars, disk, token, ask, id, interrupted, rotations, faults>>
      /\ pc[a] = "asking" /\ calls[ask[a]].step = "created"
      /\ pc' = [pc EXCEPT ![a] = "key"]
  BY FirstIsKey DEF Receive
<1>2. ask[a] \in Call /\ calls[ask[a]] # NoCall /\ calls[ask[a]].agent = a
  BY <1>1 DEF IInv, AskInv
<1>3. /\ calls' \in [Call -> Request \union {NoCall}]
      /\ calls'[ask[a]].step = "done" /\ calls'[ask[a]] # NoCall
      /\ \A m \in Call : /\ calls'[m].agent = calls[m].agent
                         /\ calls'[m].ca = calls[m].ca
                         /\ calls'[m] = NoCall <=> calls[m] = NoCall
      /\ \A m \in Call \ {ask[a]} : calls'[m] = calls[m]
  <2>1. "done" \in CallStep /\ calls' = Advanced(ask[a], "done")
    BY DEF CallStep, Advanced, Receive
  <2>. QED  BY <1>2, <2>1, Advances DEF IInv
<1>4. /\ pc' \in [Agent -> AgentFile \union {"none", "down", "asking", "running"}]
      /\ pc'[a] = "key" /\ \A b \in Agent \ {a} : pc'[b] = pc[b]
  BY <1>1 DEF IInv, TypeOK, AgentFile
<1>5. TypeOK'
  BY <1>1, <1>3, <1>4 DEF IInv, TypeOK, serverVars, storeVars
<1>6. CertInv'
  BY <1>1 DEF IInv, CertInv, Founded, serverVars
<1>7. RowsInv'
  BY <1>1, <1>2, <1>3 DEF IInv, RowsInv, Founded, Known, serverVars, storeVars
<1>8. AskInv'
  <2>. SUFFICES ASSUME NEW b \in Agent PROVE AskInv!(b)'
    BY DEF AskInv
  <2>1. CASE b = a
    BY <1>1, <1>2, <1>3, <1>4, <2>1
  <2>2. CASE b # a
    <3>1. pc[b] = "asking" => ask[b] # ask[a]
      BY <1>2, <2>2 DEF IInv, AskInv
    <3>. QED  BY <1>1, <1>2, <1>3, <1>4, <2>2, <3>1 DEF IInv, AskInv
  <2>. QED  BY <2>1, <2>2
<1>9. DiskInv'
  <2>. SUFFICES ASSUME NEW b \in Agent PROVE DiskInv!(b)'
    BY DEF DiskInv
  <2>1. CASE b = a
    BY <1>1, <1>3, <1>4, <2>1 DEF IInv, DiskInv, Founded, Known, serverVars
  <2>2. CASE b # a
    BY <1>1, <1>3, <1>4, <2>2 DEF IInv, DiskInv, Founded, Known, serverVars
  <2>. QED  BY <2>1, <2>2
<1>10. WholeInv'
  BY <1>1, <1>4 DEF IInv, WholeInv, Enrolled, Loads
<1>. QED  BY <1>5, <1>6, <1>7, <1>8, <1>9, <1>10 DEF IInv

LEMMA GiveUpKeeps ==
  ASSUME IInv, NEW a \in Agent, GiveUp(a)
  PROVE  IInv'
<1>1. /\ UNCHANGED <<serverVars, storeVars, disk, token, ask, id, interrupted, rotations>>
      /\ pc[a] = "asking" /\ pc' = [pc EXCEPT ![a] = "down"] /\ faults' \in Nat
  BY DEF GiveUp, Fault, IInv, TypeOK
<1>2. ask[a] \in Call /\ calls[ask[a]].agent = a /\ calls[ask[a]].step # "done"
  BY <1>1 DEF IInv, AskInv
<1>3. /\ calls' \in [Call -> Request \union {NoCall}]
      /\ \A m \in Call \ {ask[a]} : calls'[m] = calls[m]
      /\ calls'[ask[a]] = calls[ask[a]] \/ (calls'[ask[a]] = NoCall /\ ask[a] \notin machines)
  BY <1>2 DEF GiveUp, IInv, TypeOK
<1>4. /\ pc' \in [Agent -> AgentFile \union {"none", "down", "asking", "running"}]
      /\ pc'[a] = "down" /\ \A b \in Agent \ {a} : pc'[b] = pc[b]
  BY <1>1 DEF IInv, TypeOK
<1>5. TypeOK'
  BY <1>1, <1>3, <1>4 DEF IInv, TypeOK, serverVars, storeVars
<1>6. CertInv'
  BY <1>1 DEF IInv, CertInv, Founded, serverVars
<1>7. RowsInv'
  <2>. SUFFICES ASSUME NEW n \in Call PROVE RowsInv!(n)'
    BY DEF RowsInv
  <2>1. calls'[n] = calls[n] \/ (calls'[n].step = "idle" /\ n \notin machines)
    BY <1>3 DEF NoCall
  <2>. QED  BY <1>1, <2>1 DEF IInv, RowsInv, Founded, Known, serverVars, storeVars
<1>8. AskInv'
  <2>. SUFFICES ASSUME NEW b \in Agent PROVE AskInv!(b)'
    BY DEF AskInv
  <2>1. CASE b = a
    BY <1>4, <2>1 DEF AgentFile
  <2>2. CASE b # a
    <3>1. pc[b] = "asking" \/ pc[b] \in AgentFile => ask[b] # ask[a]
      BY <1>2, <2>2 DEF IInv, AskInv
    <3>. QED  BY <1>1, <1>3, <1>4, <2>2, <3>1 DEF IInv, AskInv
  <2>. QED  BY <2>1, <2>2
<1>9. DiskInv'
  <2>. SUFFICES ASSUME NEW b \in Agent PROVE DiskInv!(b)'
    BY DEF DiskInv
  <2>1. disk[b].crt \in Nat => disk[b].crt # ask[a]
    BY <1>2 DEF IInv, DiskInv
  <2>2. CASE b = a
    BY <1>1, <1>3, <1>4, <2>1, <2>2 DEF IInv, DiskInv, Founded, Known, serverVars
  <2>3. CASE b # a
    BY <1>1, <1>3, <1>4, <2>1, <2>3 DEF IInv, DiskInv, Founded, Known, serverVars
  <2>. QED  BY <2>2, <2>3
<1>10. WholeInv'
  <2>1. ~Enrolled(a)
    BY <1>1 DEF IInv, DiskInv, Enrolled
  <2>. QED  BY <1>1, <1>4, <2>1 DEF IInv, WholeInv, Enrolled, Loads
<1>. QED  BY <1>5, <1>6, <1>7, <1>8, <1>9, <1>10 DEF IInv

LEMMA WriteFileKeeps ==
  ASSUME IInv, NEW a \in Agent, WriteFile(a)
  PROVE  IInv'
<1>. USE EnrollmentAssumption
<1>. DEFINE n == ask[a]
            v == IF pc[a] = "ca" THEN calls[n].ca ELSE n
<1>1. /\ UNCHANGED <<serverVars, storeVars, calls, token, ask, interrupted, rotations, faults>>
      /\ pc[a] \in AgentFile /\ disk' = Written(a, pc[a], v)
      /\ pc' = [pc EXCEPT ![a] = NextFile(pc[a])]
      /\ id' = IF pc[a] = "state" THEN [id EXCEPT ![a] = n] ELSE id
  BY DEF WriteFile, Written
<1>2. n \in Call /\ calls[n].step = "done" /\ calls[n].agent = a /\ calls[n] # NoCall
  BY <1>1 DEF IInv, AskInv, NoCall
<1>3. n \in Nat /\ calls[n].ca \in Nat /\ Known(calls[n].ca)
  BY <1>2, CallTyped DEF IInv, RowsInv
<1>4. v \in Nat
  BY <1>3
<1>. HIDE DEF v
<1>5. /\ disk' \in [Agent -> [AgentFile -> Nat \union Broken]]
      /\ \A b \in Agent \ {a} : disk'[b] = disk[b]
      /\ disk'[a][pc[a]] = v
      /\ \A g \in AgentFile \ {pc[a]} : disk'[a][g] = disk[a][g]
  BY <1>1, <1>4, Writes DEF IInv
<1>6. /\ pc' \in [Agent -> AgentFile \union {"none", "down", "asking", "running"}]
      /\ pc'[a] = NextFile(pc[a]) /\ \A b \in Agent \ {a} : pc'[b] = pc[b]
  <2>1. NextFile(pc[a]) \in AgentFile \union {"none", "down", "asking", "running"}
    BY <1>1 DEF AgentFile, NextFile
  <2>. QED  BY <1>1, <2>1 DEF IInv, TypeOK
<1>7. /\ id' \in [Agent -> Call \union {0}] /\ \A b \in Agent \ {a} : id'[b] = id[b]
      /\ pc[a] = "state" => id'[a] = n
  BY <1>1, <1>2 DEF IInv, TypeOK
<1>8. CertInv' /\ RowsInv'
  BY <1>1 DEF IInv, CertInv, RowsInv, Founded, Known, serverVars, storeVars
<1>9. AskInv'
  <2>1. pc'[a] # "asking" /\ (pc'[a] \in AgentFile => pc[a] \in AgentFile)
    BY <1>1, <1>6 DEF AgentFile, NextFile
  <2>. QED  BY <1>1, <1>6, <2>1 DEF IInv, AskInv
<1>10. ASSUME NEW b \in Agent, b # a
       PROVE  DiskInv!(b)' /\ WholeInv!(b)'
  BY <1>1, <1>5, <1>6, <1>7, <1>10 DEF IInv, DiskInv, WholeInv, Enrolled, Loads, serverVars, Founded, Known
<1>11. /\ disk[a].ca \in Nat => Known(disk[a].ca)
       /\ disk[a].state # Absent => disk[a].crt \in Nat
       /\ disk[a].state \in Nat => disk[a].state = disk[a].crt
       /\ pc[a] \in {"key", "crt"} => disk[a].crt = Absent
       /\ pc[a] \in {"crt", "ca", "state"} => disk[a].key = n
       /\ pc[a] \in {"ca", "state"} => disk[a].crt = n
       /\ pc[a] = "state" => disk[a].ca \in Nat
  BY DEF IInv, DiskInv
<1>12. /\ pc[a] = "key" => v = n
       /\ pc[a] = "crt" => v = n
       /\ pc[a] = "ca" => v = calls[n].ca
       /\ pc[a] = "state" => v = n
  BY <1>3 DEF v
<1>13. DiskInv!(a)' /\ WholeInv!(a)' /\ (pc'[a] = "running" => disk'[a].crt \in Call /\ disk'[a].ca \in Nat)
  <2>1. CASE pc[a] = "key"
    <3>1. /\ disk'[a].key = n /\ disk'[a].crt = disk[a].crt
          /\ disk'[a].ca = disk[a].ca /\ disk'[a].state = disk[a].state
          /\ pc'[a] = "crt"
      BY <1>5, <1>6, <1>12, <2>1 DEF AgentFile, NextFile
    <3>. QED  BY <1>1, <1>2, <1>3, <1>11, <2>1, <3>1 DEF serverVars, Founded, Known
  <2>2. CASE pc[a] = "crt"
    <3>1. /\ disk'[a].key = disk[a].key /\ disk'[a].crt = n
          /\ disk'[a].ca = disk[a].ca /\ disk'[a].state = disk[a].state
          /\ pc'[a] = "ca"
      BY <1>5, <1>6, <1>12, <2>2 DEF AgentFile, NextFile
    <3>. QED  BY <1>1, <1>2, <1>3, <1>11, <2>2, <3>1 DEF serverVars, Founded, Known
  <2>3. CASE pc[a] = "ca"
    <3>1. /\ disk'[a].key = disk[a].key /\ disk'[a].crt = disk[a].crt
          /\ disk'[a].ca = calls[n].ca /\ disk'[a].state = disk[a].state
          /\ pc'[a] = "state"
      BY <1>5, <1>6, <1>12, <2>3 DEF AgentFile, NextFile
    <3>. QED  BY <1>1, <1>2, <1>3, <1>11, <2>3, <3>1 DEF serverVars, Founded, Known
  <2>4. CASE pc[a] = "state"
    <3>1. /\ disk'[a].key = disk[a].key /\ disk'[a].crt = disk[a].crt
          /\ disk'[a].ca = disk[a].ca /\ disk'[a].state = n
          /\ pc'[a] = "running"
      BY <1>5, <1>6, <1>12, <2>4 DEF AgentFile, NextFile
    <3>2. id'[a] = n
      BY <1>7, <2>4
    <3>3. DiskInv!(a)'
      BY <1>1, <1>2, <1>3, <1>11, <2>4, <3>1 DEF serverVars, Founded, Known
    <3>4. disk'[a].crt \in Call /\ disk'[a].ca \in Nat /\ disk'[a].key = disk'[a].crt
      BY <1>2, <1>11, <2>4, <3>1
    <3>5. WholeInv!(a)'
      BY <1>3, <1>11, <2>4, <3>1, <3>2, <3>4 DEF Loads, Broken
    <3>. QED  BY <3>3, <3>4, <3>5
  <2>. QED  BY <1>1, <2>1, <2>2, <2>3, <2>4 DEF AgentFile
<1>14. DiskInv' /\ WholeInv'
  BY <1>10, <1>13 DEF DiskInv, WholeInv
<1>15. TypeOK'
  <2>1. \A b \in Agent : pc'[b] = "running" => disk'[b].crt \in Call /\ disk'[b].ca \in Nat
    BY <1>5, <1>6, <1>13 DEF IInv, TypeOK
  <2>. QED  BY <1>1, <1>5, <1>6, <1>7, <2>1 DEF IInv, TypeOK, serverVars, storeVars
<1>. QED  BY <1>8, <1>9, <1>14, <1>15 DEF IInv

LEMMA InterruptKeeps ==
  ASSUME IInv, NEW a \in Agent, Interrupt(a)
  PROVE  IInv'
<1>. USE EnrollmentAssumption
<1>1. /\ UNCHANGED <<serverVars, storeVars, calls, token, ask, id, rotations>>
      /\ pc[a] \in AgentFile /\ disk' \in {disk, Written(a, pc[a], Torn)}
      /\ pc' = [pc EXCEPT ![a] = "down"] /\ interrupted' = interrupted \union {a}
      /\ faults' \in Nat
  BY DEF Interrupt, Written, Fault, IInv, TypeOK
<1>2. /\ disk' \in [Agent -> [AgentFile -> Nat \union Broken]]
      /\ \A b \in Agent \ {a} : disk'[b] = disk[b]
      /\ disk'[a][pc[a]] \in {disk[a][pc[a]], Torn}
      /\ \A g \in AgentFile \ {pc[a]} : disk'[a][g] = disk[a][g]
  <2>1. CASE disk' = disk
    BY <2>1 DEF IInv, TypeOK
  <2>2. CASE disk' = Written(a, pc[a], Torn)
    <3>1. Torn \in Nat \union Broken
      BY DEF Broken
    <3>. QED  BY <1>1, <2>2, <3>1, Writes DEF IInv
  <2>. QED  BY <1>1, <2>1, <2>2
<1>3. /\ pc' \in [Agent -> AgentFile \union {"none", "down", "asking", "running"}]
      /\ pc'[a] = "down" /\ \A b \in Agent \ {a} : pc'[b] = pc[b]
  BY <1>1 DEF IInv, TypeOK
<1>4. TypeOK'
  <2>1. \A b \in Agent : pc'[b] = "running" => disk'[b].crt \in Call /\ disk'[b].ca \in Nat
    BY <1>2, <1>3 DEF IInv, TypeOK
  <2>. QED  BY <1>1, <1>2, <1>3, <2>1 DEF IInv, TypeOK, serverVars, storeVars
<1>5. CertInv' /\ RowsInv'
  BY <1>1 DEF IInv, CertInv, RowsInv, Founded, Known, serverVars, storeVars
<1>6. AskInv'
  BY <1>1, <1>3 DEF IInv, AskInv, AgentFile
<1>7. ASSUME NEW b \in Agent, b # a
      PROVE  DiskInv!(b)' /\ WholeInv!(b)'
  BY <1>1, <1>2, <1>3, <1>7 DEF IInv, DiskInv, WholeInv, Enrolled, Loads, serverVars, Founded, Known
<1>8. /\ disk[a].ca \in Nat => Known(disk[a].ca)
      /\ disk[a].state # Absent => disk[a].crt \in Nat
      /\ disk[a].state \in Nat => disk[a].state = disk[a].crt
      /\ pc[a] \in {"key", "crt"} => disk[a].crt = Absent
      /\ disk[a].crt \in Nat =>
           /\ disk[a].crt \in Call /\ disk[a].key = disk[a].crt
           /\ calls[disk[a].crt].step = "done" /\ calls[disk[a].crt].agent = a
      /\ pc[a] \in {"ca", "state"} => disk[a].crt \in Nat
  BY DEF IInv, DiskInv, AskInv, AgentFile
<1>9. DiskInv!(a)'
  <2>1. CASE pc[a] = "key"
    <3>1. /\ disk'[a].crt = disk[a].crt
          /\ disk'[a].ca = disk[a].ca /\ disk'[a].state = disk[a].state
      BY <1>2, <2>1 DEF AgentFile
    <3>. QED  BY <1>1, <1>3, <1>8, <2>1, <3>1 DEF serverVars, Founded, Known
  <2>2. CASE pc[a] = "crt"
    <3>1. /\ disk'[a].key = disk[a].key /\ disk'[a].crt \in {Absent, Torn}
          /\ disk'[a].ca = disk[a].ca /\ disk'[a].state = disk[a].state
      BY <1>2, <1>8, <2>2 DEF AgentFile
    <3>. QED  BY <1>1, <1>3, <1>8, <2>2, <3>1 DEF serverVars, Founded, Known
  <2>3. CASE pc[a] = "ca"
    <3>1. /\ disk'[a].key = disk[a].key /\ disk'[a].crt = disk[a].crt
          /\ disk'[a].ca \in {disk[a].ca, Torn} /\ disk'[a].state = disk[a].state
      BY <1>2, <2>3 DEF AgentFile
    <3>. QED  BY <1>1, <1>3, <1>8, <2>3, <3>1 DEF serverVars, Founded, Known
  <2>4. CASE pc[a] = "state"
    <3>1. /\ disk'[a].key = disk[a].key /\ disk'[a].crt = disk[a].crt
          /\ disk'[a].ca = disk[a].ca /\ disk'[a].state \in {disk[a].state, Torn}
      BY <1>2, <2>4 DEF AgentFile
    <3>. QED  BY <1>1, <1>3, <1>8, <2>4, <3>1 DEF serverVars, Founded, Known
  <2>. QED  BY <1>1, <2>1, <2>2, <2>3, <2>4 DEF AgentFile
<1>10. WholeInv!(a)'
  BY <1>1, <1>3
<1>11. DiskInv' /\ WholeInv'
  BY <1>7, <1>9, <1>10 DEF DiskInv, WholeInv
<1>. QED  BY <1>4, <1>5, <1>6, <1>11 DEF IInv

LEMMA ResumeKeeps ==
  ASSUME IInv, NEW a \in Agent, Resume(a)
  PROVE  IInv'
<1>. USE EnrollmentAssumption
<1>1. /\ UNCHANGED <<serverVars, storeVars, calls, disk, token, ask, interrupted, rotations, faults>>
      /\ pc[a] = "down" /\ Enrolled(a) /\ Loads(a)
      /\ pc' = [pc EXCEPT ![a] = "running"]
      /\ id' = [id EXCEPT ![a] = IF disk[a].state \in Broken THEN 0 ELSE disk[a].state]
  BY DEF Resume
<1>2. disk[a].crt \in Nat /\ disk[a].ca \in Nat
  BY <1>1 DEF Loads, IInv, TypeOK, AgentFile
<1>3. disk[a].crt \in Call /\ disk[a].state \in Nat \union Broken
      /\ (disk[a].state \in Nat => disk[a].state = disk[a].crt)
  BY <1>2 DEF IInv, DiskInv, TypeOK, AgentFile
<1>4. /\ pc' \in [Agent -> AgentFile \union {"none", "down", "asking", "running"}]
      /\ pc'[a] = "running" /\ \A b \in Agent \ {a} : pc'[b] = pc[b]
  BY <1>1 DEF IInv, TypeOK
<1>5. /\ id' \in [Agent -> Call \union {0}]
      /\ id'[a] = (IF disk[a].state \in Broken THEN 0 ELSE disk[a].state)
      /\ \A b \in Agent \ {a} : id'[b] = id[b]
  <2>1. disk[a].state \notin Broken => disk[a].state \in Call
    BY <1>3
  <2>. QED  BY <1>1, <2>1 DEF IInv, TypeOK
<1>6. TypeOK'
  BY <1>1, <1>2, <1>3, <1>4, <1>5 DEF IInv, TypeOK, serverVars, storeVars
<1>7. CertInv' /\ RowsInv'
  BY <1>1 DEF IInv, CertInv, RowsInv, Founded, Known, serverVars, storeVars
<1>8. AskInv'
  BY <1>1, <1>4 DEF IInv, AskInv, AgentFile
<1>9. DiskInv'
  BY <1>1, <1>4 DEF IInv, DiskInv, Founded, Known, serverVars
<1>10. WholeInv'
  <2>. SUFFICES ASSUME NEW b \in Agent PROVE WholeInv!(b)'
    BY DEF WholeInv
  <2>1. CASE b # a
    BY <1>1, <1>4, <1>5, <2>1 DEF IInv, WholeInv, Enrolled, Loads
  <2>2. CASE b = a
    <3>1. a \notin interrupted => disk[a].state = disk[a].crt
      BY <1>1 DEF IInv, WholeInv
    <3>2. disk[a].state \in Broken => a \in interrupted
      BY <1>2, <3>1 DEF Broken
    <3>. QED  BY <1>1, <1>3, <1>4, <1>5, <2>2, <3>1, <3>2 DEF Loads, Enrolled
  <2>. QED  BY <2>1, <2>2
<1>. QED  BY <1>6, <1>7, <1>8, <1>9, <1>10 DEF IInv

LEMMA StopKeeps ==
  ASSUME IInv, NEW a \in Agent, Stop(a)
  PROVE  IInv'
<1>1. /\ UNCHANGED <<serverVars, storeVars, calls, disk, token, ask, interrupted, rotations, faults>>
      /\ pc[a] = "running"
      /\ pc' = [pc EXCEPT ![a] = "down"] /\ id' = [id EXCEPT ![a] = 0]
  BY DEF Stop
<1>2. /\ pc' \in [Agent -> AgentFile \union {"none", "down", "asking", "running"}]
      /\ pc'[a] = "down" /\ \A b \in Agent \ {a} : pc'[b] = pc[b]
      /\ id' \in [Agent -> Call \union {0}] /\ \A b \in Agent \ {a} : id'[b] = id[b]
  BY <1>1 DEF IInv, TypeOK
<1>3. TypeOK'
  BY <1>1, <1>2 DEF IInv, TypeOK, serverVars, storeVars
<1>4. CertInv' /\ RowsInv'
  BY <1>1 DEF IInv, CertInv, RowsInv, Founded, Known, serverVars, storeVars
<1>5. AskInv' /\ DiskInv'
  BY <1>1, <1>2 DEF IInv, AskInv, DiskInv, AgentFile, Founded, Known, serverVars
<1>6. WholeInv'
  BY <1>1, <1>2 DEF IInv, WholeInv, Enrolled, Loads
<1>. QED  BY <1>3, <1>4, <1>5, <1>6 DEF IInv

LEMMA InitHolds == Init => IInv
<1>. SUFFICES ASSUME Init PROVE IInv
  OBVIOUS
<1>. USE EnrollmentAssumption
<1>1. PICK ca \in {1, Absent}, leaf \in {[by |-> Public, n |-> 0], Absent} :
        /\ cert = [f \in CertFile |-> IF f \in {"caCrt", "caKey"} THEN ca ELSE leaf]
        /\ minted = IF ca = 1 THEN 1 ELSE 0
  BY DEF Init
<1>2. cert.caCrt = ca /\ cert.caKey = ca /\ cert.srvCrt = leaf /\ cert.srvKey = leaf
  BY <1>1 DEF CertFile
<1>3. leaf \in Leaf \union Broken /\ ca \in Nat \union Broken
  BY DEF Leaf, Broken
<1>4. TypeOK
  BY <1>1, <1>2, <1>3 DEF Init, TypeOK, AgentFile, Broken, CertFile, NoCall
<1>5. CertInv
  BY <1>1, <1>2 DEF Init, CertInv, CertFile, Founded
<1>6. RowsInv
  BY DEF Init, RowsInv, NoCall
<1>7. AskInv /\ DiskInv /\ WholeInv
  BY DEF Init, AskInv, DiskInv, WholeInv, AgentFile, Enrolled, Loads
<1>. QED  BY <1>4, <1>5, <1>6, <1>7 DEF IInv

LEMMA StepKeeps == IInv /\ [Next]_vars => IInv'
<1>. SUFFICES ASSUME IInv, [Next]_vars PROVE IInv'
  OBVIOUS
<1>1. CASE ServerAction
  BY <1>1, ServerKeeps
<1>2. CASE \E t \in Token : handleCreateEnrollToken(t) \/ Expire(t)
  BY <1>2, TokenKeeps
<1>3. CASE \E n \in Call : Consume(n) \/ ConsumeFails(n) \/ CreateMachine(n)
  BY <1>3, ConsumeKeeps, CreateMachineKeeps
<1>4. CASE \E a \in Agent : \/ Install(a) \/ Begin(a) \/ Receive(a) \/ GiveUp(a)
                            \/ WriteFile(a) \/ Interrupt(a) \/ Resume(a) \/ Stop(a)
  BY <1>4, InstallKeeps, BeginKeeps, ReceiveKeeps, GiveUpKeeps, WriteFileKeeps,
     InterruptKeeps, ResumeKeeps, StopKeeps
<1>5. CASE UNCHANGED vars
  BY <1>5 DEF IInv, TypeOK, CertInv, RowsInv, AskInv, DiskInv, WholeInv, Founded, Known, Enrolled,
              Loads, vars, serverVars, storeVars, agentVars
<1>. QED  BY <1>1, <1>2, <1>3, <1>4, <1>5 DEF Next, ServerAction

\* The inductive invariant: the certificate authority, the requests, the rows and the
\* files of every agent fit together, whatever crashed in between.
THEOREM Invariance == Spec => []IInv
<1>. QED  BY InitHolds, StepKeeps, PTL DEF Spec

-----------------------------------------------------------------------------
(* What follows. *)

\* Type correctness, for any number of agents, tokens and requests.
THEOREM TypeCorrect == Spec => []TypeOK
<1>1. IInv => TypeOK
  BY DEF IInv
<1>. QED  BY <1>1, Invariance, PTL

\* dev.go's promise that agents need no re-enrollment: neither crashes of the server nor
\* renewals nor repairs replace the authority behind what the agents hold and trust, unless
\* the operator removes the authority's own files.
THEOREM TrustIsKept == Spec => []AgentsKeepTrust
<1>1. IInv => AgentsKeepTrust
  <2>. SUFFICES ASSUME IInv, NEW a \in Agent
       PROVE  /\ a \in Holders => Known(calls[disk[a].crt].ca)
              /\ disk[a].ca \notin Broken => Known(disk[a].ca)
    BY DEF AgentsKeepTrust, Known, Founded
  <2>1. disk[a].crt \in Nat \union Broken /\ disk[a].ca \in Nat \union Broken
    BY DEF IInv, TypeOK, AgentFile
  <2>2. a \in Holders => disk[a].crt \in Call /\ calls[disk[a].crt].step = "done"
    BY <2>1 DEF Holders, IInv, DiskInv
  <2>3. a \in Holders => Known(calls[disk[a].crt].ca)
    BY <2>2 DEF IInv, RowsInv
  <2>. QED  BY <2>1, <2>3 DEF IInv, DiskInv
<1>. QED  BY <1>1, Invariance, PTL

\* The certificate on an agent's disk is its own, with its key and its row, and so is the
\* id it runs under, in whatever order files were written and cut short.
THEOREM IdentityIsItsOwn == Spec => []OneIdentity
<1>1. IInv => OneIdentity
  <2>. SUFFICES ASSUME IInv, NEW a \in Holders
       PROVE  OneIdentity!1!(a)
    BY DEF OneIdentity
  <2>1. \A b \in Holders :
          /\ b \in Agent /\ disk[b].key = disk[b].crt /\ disk[b].crt \in machines
          /\ calls[disk[b].crt].agent = b
    <3>. SUFFICES ASSUME NEW b \in Holders
         PROVE  /\ b \in Agent /\ disk[b].key = disk[b].crt /\ disk[b].crt \in machines
                /\ calls[disk[b].crt].agent = b
      OBVIOUS
    <3>1. b \in Agent /\ disk[b].crt \in Nat
      BY DEF Holders, IInv, TypeOK, AgentFile
    <3>. QED  BY <3>1 DEF IInv, DiskInv, RowsInv
  <2>2. pc[a] = "running" => id[a] = disk[a].crt \/ (id[a] = 0 /\ a \in interrupted)
    BY <2>1 DEF IInv, WholeInv
  <2>. QED  BY <2>1, <2>2
<1>. QED  BY <1>1, Invariance, PTL

-----------------------------------------------------------------------------
(* While nothing fails. *)

\* The case of AwaitedInv that a step of agent a, or of the server, has to meet.
Awaited(n) ==
  /\ calls[n].step # "lost"
  /\ calls[n].step \in Going => ask[calls[n].agent] = n /\ pc[calls[n].agent] = "asking"
  /\ calls[n].step = "done" =>
       /\ ask[calls[n].agent] = n
       /\ disk[calls[n].agent].crt = n \/ pc[calls[n].agent] \in {"key", "crt"}
  /\ calls[n].step = "refused" => n \notin machines

LEMMA AwaitedIsIt == AwaitedInv <=> (faults = 0 => \A n \in Call : Awaited(n))
BY DEF AwaitedInv, Awaited

\* A statement that fails is a fault: nobody gave up before the first one.
LEMMA NobodyGaveUp ==
  ASSUME IInv, AwaitedInv, NEW n \in Call, calls[n].step \in Going, Fails(n)
  PROVE  faults' # 0
<1>1. faults \in Nat
  BY DEF IInv, TypeOK
<1>2. faults = 0 => ~Abandoned(n)
  BY AwaitedIsIt DEF Awaited, Abandoned
<1>. QED  BY <1>1, <1>2 DEF Fails, Fault

\* A step that counts a fault has nothing to show.
LEMMA AwaitedStep == IInv /\ AwaitedInv /\ [Next]_vars => AwaitedInv'
<1>. SUFFICES ASSUME IInv, AwaitedInv, [Next]_vars, faults' = 0, NEW m \in Call
     PROVE  Awaited(m)'
  BY DEF AwaitedInv, Awaited
<1>. USE DEF Going
<1>1. /\ calls[m].step \in CallStep \union {"idle"}
      /\ calls[m].step = "idle" <=> calls[m] = NoCall
      /\ calls[m] # NoCall => calls[m].agent \in Agent
      /\ m \in Nat /\ m # Absent
  BY CallTyped, EnrollmentAssumption DEF IInv
<1>2. faults \in Nat /\ ~(faults' = faults + 1)
  BY DEF IInv, TypeOK
<1>3. ASSUME faults' = faults
      PROVE  Awaited(m)
  BY <1>3, AwaitedIsIt
<1>4. CASE UNCHANGED <<calls, ask, pc, disk, machines, faults>>
  BY <1>3, <1>4 DEF Awaited
<1>5. CASE StartServer \/ WriteCert \/ Serve \/ Rotate \/ Repair \/ UNCHANGED vars
  <2>1. UNCHANGED <<calls, ask, pc, disk, machines, faults>>
    BY <1>5 DEF StartServer, WriteCert, Serve, Rotate, Repair, vars, serverVars, storeVars,
                agentVars
  <2>. QED  BY <1>4, <2>1
<1>6. CASE \E t \in Token : handleCreateEnrollToken(t) \/ Expire(t)
  <2>1. UNCHANGED <<calls, ask, pc, disk, machines, faults>>
    BY <1>6 DEF handleCreateEnrollToken, Expire, agentVars
  <2>. QED  BY <1>4, <2>1
<1>7. CASE CrashServer
  BY <1>2, <1>7 DEF CrashServer, Fault
<1>8. ASSUME NEW n \in Call, Consume(n) \/ ConsumeFails(n)
      PROVE  Awaited(m)'
  <2>0. Consume(n)
    BY <1>8, NobodyGaveUp DEF ConsumeFails
  <2>1. /\ UNCHANGED <<ask, pc, disk, machines, faults>>
        /\ calls[n].step = "sent" /\ calls[n] # NoCall /\ n \notin machines
        /\ \E s \in {"consumed", "refused"} : calls' = Advanced(n, s)
    BY <2>0 DEF Consume, agentVars, NoCall, Advanced, IInv, RowsInv
  <2>2. PICK s \in {"consumed", "refused"} : calls' = Advanced(n, s)
    BY <2>1
  <2>3. /\ calls'[n].step = s /\ calls'[m].agent = calls[m].agent
        /\ m # n => calls'[m] = calls[m]
    <3>1. s \in CallStep
      BY DEF CallStep
    <3>. QED  BY <2>1, <2>2, <3>1, Advances DEF IInv
  <2>. QED  BY <1>3, <2>1, <2>3 DEF Awaited
<1>9. ASSUME NEW n \in Call, CreateMachine(n)
      PROVE  Awaited(m)'
  <2>1. /\ UNCHANGED <<ask, pc, disk, faults>> /\ serving = "up"
        /\ calls[n].step = "consumed" /\ calls[n] # NoCall
        /\ machines' = machines \union {n} /\ calls' = Answered(n, "created")
    BY <1>9, NobodyGaveUp DEF CreateMachine, agentVars, NoCall, Answered
  <2>2. /\ calls'[n].step = "created" /\ calls'[n].agent = calls[n].agent
        /\ m # n => calls'[m] = calls[m]
    BY <2>1, Answers DEF IInv
  <2>. QED  BY <1>3, <2>1, <2>2 DEF Awaited
<1>10. ASSUME NEW a \in Agent, Install(a)
       PROVE  Awaited(m)'
  <2>1. /\ UNCHANGED <<calls, ask, machines, faults>>
        /\ pc[a] \in {"none", "down", "running"} /\ pc' = [pc EXCEPT ![a] = "down"]
    BY <1>10 DEF Install, storeVars
  <2>2. \A b \in Agent : disk'[b].crt = disk[b].crt /\ (b # a => pc'[b] = pc[b])
    <3>1. PICK v : disk' = [disk EXCEPT ![a].ca = v]
      BY <1>10 DEF Install
    <3>. QED  BY <2>1, <3>1 DEF IInv, TypeOK, AgentFile
  <2>3. calls[m].step \in Going \union {"done"} => calls[m].agent \in Agent
    BY <1>1
  <2>. QED  BY <1>3, <2>1, <2>2, <2>3 DEF Awaited
<1>11. ASSUME NEW a \in Agent, Begin(a)
       PROVE  Awaited(m)'
  <2>1. /\ UNCHANGED <<disk, machines, faults>> /\ pc[a] = "down" /\ disk[a].crt = Absent
        /\ pc' = [pc EXCEPT ![a] = "asking"]
    BY <1>11 DEF Begin, Enrolled, storeVars
  <2>2. PICK n \in Call :
          /\ calls' = [calls EXCEPT ![n] = [step |-> "sent", agent |-> a, token |-> token[a], ca |-> 0]]
          /\ ask' = [ask EXCEPT ![a] = n]
    BY <1>11 DEF Begin
  <2>3. /\ pc'[a] = "asking" /\ ask'[a] = n
        /\ \A b \in Agent \ {a} : pc'[b] = pc[b] /\ ask'[b] = ask[b]
        /\ m # n => calls'[m] = calls[m]
        /\ calls'[n].step = "sent" /\ calls'[n].agent = a
    BY <2>1, <2>2 DEF IInv, TypeOK
  <2>4. CASE m = n
    BY <2>3, <2>4 DEF Awaited
  <2>5. CASE m # n
    <3>1. calls[m].step \in Going \union {"done"} => calls[m].agent \in Agent \ {a}
      BY <1>1, <1>3, <2>1 DEF Awaited
    <3>. QED  BY <1>3, <2>1, <2>3, <2>5, <3>1 DEF Awaited
  <2>. QED  BY <2>4, <2>5
<1>12. ASSUME NEW a \in Agent, Receive(a)
       PROVE  Awaited(m)'
  <2>1. /\ UNCHANGED <<disk, ask, machines, faults>>
        /\ pc[a] = "asking" /\ calls[ask[a]].step = "created"
        /\ pc' = [pc EXCEPT ![a] = "key"] /\ calls' = Advanced(ask[a], "done")
    BY <1>12, FirstIsKey DEF Receive, Advanced, storeVars
  <2>2. ask[a] \in Call /\ calls[ask[a]] # NoCall /\ calls[ask[a]].agent = a
    BY <2>1 DEF IInv, AskInv
  <2>3. /\ calls'[ask[a]].step = "done" /\ calls'[m].agent = calls[m].agent
        /\ m # ask[a] => calls'[m] = calls[m]
    <3>1. "done" \in CallStep
      BY DEF CallStep
    <3>. QED  BY <2>1, <2>2, <3>1, Advances DEF IInv
  <2>4. pc'[a] = "key" /\ \A b \in Agent \ {a} : pc'[b] = pc[b]
    BY <2>1 DEF IInv, TypeOK
  <2>5. CASE m = ask[a]
    BY <2>1, <2>2, <2>3, <2>4, <2>5 DEF Awaited
  <2>6. CASE m # ask[a]
    <3>1. calls[m].step \in Going \union {"done"} => calls[m].agent \in Agent \ {a}
      BY <1>1, <1>3, <2>1, <2>6 DEF Awaited
    <3>. QED  BY <1>3, <2>1, <2>3, <2>4, <2>6, <3>1 DEF Awaited
  <2>. QED  BY <2>5, <2>6
<1>13. ASSUME NEW a \in Agent, GiveUp(a)
       PROVE  Awaited(m)'
  <2>1. /\ UNCHANGED <<disk, ask, machines, faults>> /\ pc[a] = "asking"
        /\ calls[ask[a]].step \in {"refused", "lost"}
        /\ calls' = calls \/ calls' = [calls EXCEPT ![ask[a]] = NoCall]
        /\ pc' = [pc EXCEPT ![a] = "down"]
    BY <1>2, <1>13 DEF GiveUp, Fault, storeVars
  <2>2. ask[a] \in Call
    BY <2>1 DEF IInv, AskInv
  <2>3. calls'[m] = calls[m] \/ (m = ask[a] /\ calls'[m].step = "idle")
    BY <2>1, <2>2 DEF IInv, TypeOK, NoCall
  <2>4. \A b \in Agent \ {a} : pc'[b] = pc[b]
    BY <2>1 DEF IInv, TypeOK
  <2>5. calls[m].step \in Going \union {"done"} => calls[m].agent \in Agent \ {a}
    BY <1>1, <1>3, <2>1 DEF Awaited
  <2>. QED  BY <1>3, <2>1, <2>3, <2>4, <2>5 DEF Awaited
<1>14. ASSUME NEW a \in Agent, WriteFile(a)
       PROVE  Awaited(m)'
  <2>1. /\ UNCHANGED <<calls, ask, machines, faults>> /\ pc[a] \in AgentFile
        /\ pc' = [pc EXCEPT ![a] = NextFile(pc[a])]
    BY <1>14 DEF WriteFile, storeVars
  <2>2. PICK v : disk' = [disk EXCEPT ![a][pc[a]] = v] /\ (pc[a] = "crt" => v = ask[a])
    BY <1>14 DEF WriteFile
  <2>3. /\ \A b \in Agent \ {a} : disk'[b] = disk[b] /\ pc'[b] = pc[b]
        /\ pc'[a] = NextFile(pc[a])
        /\ disk'[a].crt = IF pc[a] = "crt" THEN ask[a] ELSE disk[a].crt
    BY <2>1, <2>2 DEF IInv, TypeOK, AgentFile
  <2>4. pc[a] = "key" => pc'[a] = "crt"
    BY <2>3 DEF NextFile
  <2>5. pc[a] # "asking" /\ (pc[a] \in {"key", "crt"} => pc[a] = "key" \/ pc[a] = "crt")
    BY <2>1 DEF AgentFile
  <2>6. calls[m].step \in Going \union {"done"} => calls[m].agent \in Agent
    BY <1>1
  <2>. QED  BY <1>3, <2>1, <2>3, <2>4, <2>5, <2>6 DEF Awaited
<1>15. ASSUME NEW a \in Agent, Interrupt(a)
       PROVE  Awaited(m)'
  BY <1>2, <1>15 DEF Interrupt, Fault
<1>16. ASSUME NEW a \in Agent, Resume(a) \/ Stop(a)
       PROVE  Awaited(m)'
  <2>1. /\ UNCHANGED <<calls, ask, disk, machines, faults>> /\ pc[a] \in {"down", "running"}
        /\ \A b \in Agent \ {a} : pc'[b] = pc[b]
    BY <1>16 DEF Resume, Stop, IInv, TypeOK, storeVars
  <2>2. calls[m].step \in Going \union {"done"} => calls[m].agent \in Agent
    BY <1>1
  <2>. QED  BY <1>3, <2>1, <2>2 DEF Awaited
<1>. QED
  BY <1>5, <1>6, <1>7, <1>8, <1>9, <1>10, <1>11, <1>12, <1>13, <1>14, <1>15, <1>16 DEF Next

\* Without a fault, every row of machines belongs to an agent that holds its certificate
\* or is about to; and only an agent interrupted while it wrote is stranded.
THEOREM NoWaste == Spec => []NothingIsWasted
<1>1. Init => AwaitedInv
  BY DEF Init, AwaitedInv, NoCall, Going
<1>2. IInv /\ AwaitedInv => NothingIsWasted
  <2>. SUFFICES ASSUME IInv, AwaitedInv PROVE NothingIsWasted
    OBVIOUS
  <2>1. ASSUME faults = 0, NEW n \in machines
        PROVE  \E a \in Agent : /\ ask[a] = n /\ pc[a] # "none"
                                /\ disk[a].crt = n \/ pc[a] \in {"asking", "key", "crt"}
    <3>1. n \in Call /\ n # Absent /\ calls[n] # NoCall
          /\ calls[n].step \in {"created", "lost", "done", "refused"}
      BY EnrollmentAssumption DEF IInv, TypeOK, RowsInv
    <3>2. calls[n].agent \in Agent
      BY <3>1, CallTyped DEF IInv
    <3>3. Awaited(n)
      BY <2>1, <3>1, AwaitedIsIt
    <3>4. pc[calls[n].agent] = "none" => disk[calls[n].agent].crt = Absent
      BY <3>2 DEF IInv, DiskInv
    <3>. QED  BY <3>1, <3>2, <3>3, <3>4 DEF Awaited, Going
  <2>2. ASSUME NEW a \in Agent, pc[a] = "down", Stranded(a)
        PROVE  a \in interrupted
    BY <2>2 DEF Stranded, IInv, WholeInv
  <2>. QED  BY <2>1, <2>2 DEF NothingIsWasted
<1>. QED  BY <1>1, <1>2, AwaitedStep, Invariance, PTL DEF Spec

-----------------------------------------------------------------------------
(* What tokens are used for. *)

Made == {n \in Call : calls[n] # NoCall}

\* Nothing but a step about a request, or the making of a token, disturbs the count.
LEMMA CountSame ==
  ASSUME TokenInv, IsFiniteSet(Made'), UNCHANGED <<cap, used>>, faults' = 0 => faults = 0,
         \A t \in Token : RowsOf(t)' = RowsOf(t) /\ OwingTo(t)' = OwingTo(t)
  PROVE  TokenInv'
BY DEF TokenInv, Made

\* The rows and the tokens still owed a row are among the requests made.
LEMMA CountFinite ==
  ASSUME IInv, TokenInv, NEW t \in Token
  PROVE  /\ IsFiniteSet(RowsOf(t)) /\ IsFiniteSet(OwingTo(t))
         /\ Cardinality(RowsOf(t)) \in Nat /\ Cardinality(OwingTo(t)) \in Nat
         /\ used[t] \in Nat /\ cap[t] \in Nat \union {Unlimited}
<1>1. RowsOf(t) \subseteq Made /\ OwingTo(t) \subseteq Made
  BY DEF RowsOf, OwingTo, Made, IInv, TypeOK, NoCall
<1>2. IsFiniteSet(Made)
  BY DEF TokenInv, Made
<1>3. used[t] \in Nat /\ cap[t] \in Nat \union {Unlimited}
  BY EnrollmentAssumption DEF IInv, TypeOK
<1>. QED  BY <1>1, <1>2, <1>3, FS_Subset, FS_CardinalityType

LEMMA TokenStep == IInv /\ AwaitedInv /\ TokenInv /\ [Next]_vars => TokenInv'
<1>. SUFFICES ASSUME IInv, AwaitedInv, TokenInv, [Next]_vars
     PROVE  TokenInv'
  OBVIOUS
<1>1. faults \in Nat /\ IsFiniteSet(Made)
  BY DEF IInv, TypeOK, TokenInv, Made
<1>2. CASE UNCHANGED <<calls, machines, cap, used>> /\ (faults' = 0 => faults = 0)
  <2>1. Made' = Made /\ \A t \in Token : RowsOf(t)' = RowsOf(t) /\ OwingTo(t)' = OwingTo(t)
    BY <1>2 DEF Made, RowsOf, OwingTo
  <2>. QED  BY <1>1, <1>2, <2>1, CountSame
<1>3. CASE StartServer \/ WriteCert \/ Serve \/ Rotate \/ Repair \/ UNCHANGED vars
  <2>1. UNCHANGED <<calls, machines, cap, used, faults>>
    BY <1>3 DEF StartServer, WriteCert, Serve, Rotate, Repair, vars, serverVars, storeVars,
                agentVars
  <2>. QED  BY <1>2, <2>1
<1>4. CASE CrashServer
  <2>1. /\ UNCHANGED <<machines, cap, used>> /\ faults' = faults + 1
        /\ \A m \in Call :
             /\ calls'[m].step = IF calls[m].step \in Going THEN "lost" ELSE calls[m].step
             /\ calls'[m] # NoCall => calls'[m].token = calls[m].token
             /\ calls'[m] = NoCall <=> calls[m] = NoCall
    BY <1>4, Loses DEF CrashServer, Fault, storeVars, IInv
  <2>2. Made' = Made
    BY <2>1 DEF Made
  <2>3. ASSUME NEW t \in Token
        PROVE  RowsOf(t)' = RowsOf(t) /\ OwingTo(t)' = {}
    <3>1. machines \subseteq {n \in Call : calls[n] # NoCall}
      BY DEF IInv, TypeOK
    <3>. QED  BY <2>1, <3>1 DEF RowsOf, OwingTo, Going
  <2>4. ASSUME NEW t \in Token
        PROVE  /\ Cardinality(RowsOf(t)') + Cardinality(OwingTo(t)') <= used[t]
               /\ cap[t] = Unlimited \/ used[t] <= cap[t]
    <3>1. Cardinality(OwingTo(t)') = 0 /\ RowsOf(t)' = RowsOf(t)
      BY <2>3, FS_EmptySet
    <3>. QED  BY <3>1, CountFinite DEF TokenInv
  <2>5. faults' # 0
    BY <1>1, <2>1
  <2>6. IsFiniteSet(Made')
    BY <1>1, <2>2
  <2>. QED  BY <2>1, <2>4, <2>5, <2>6 DEF TokenInv, Made
<1>5. ASSUME NEW t \in Token, handleCreateEnrollToken(t) \/ Expire(t)
      PROVE  TokenInv'
  <2>1. /\ UNCHANGED <<calls, machines, used, faults>>
        /\ \A u \in Token : cap'[u] = cap[u] \/ (cap[u] = 0 /\ cap'[u] \in Nat \union {Unlimited})
    BY <1>5, EnrollmentAssumption DEF handleCreateEnrollToken, Expire, IInv, TypeOK
  <2>2. Made' = Made /\ \A u \in Token : RowsOf(u)' = RowsOf(u) /\ OwingTo(u)' = OwingTo(u)
    BY <2>1 DEF Made, RowsOf, OwingTo
  <2>3. \A u \in Token : cap'[u] = Unlimited \/ used[u] <= cap'[u]
    BY <2>1, CountFinite, EnrollmentAssumption DEF TokenInv
  <2>. QED  BY <1>1, <2>1, <2>2, <2>3 DEF TokenInv, Made
<1>6. ASSUME NEW n \in Call, Consume(n) \/ ConsumeFails(n)
      PROVE  TokenInv'
  <2>0. PICK t \in Token : t = calls[n].token
    BY <1>6, CallTyped DEF Consume, ConsumeFails, NoCall, IInv
  <2>1. /\ UNCHANGED <<machines, cap>>
        /\ calls[n].step = "sent" /\ calls[n] # NoCall
        /\ faults' = faults \/ faults' # 0
    BY <1>6, NobodyGaveUp DEF Consume, ConsumeFails, NoCall, Going
  <2>2. PICK s \in {"consumed", "refused"} :
          /\ calls' = Advanced(n, s)
          /\ \/ s = "refused" /\ used' = used
             \/ /\ MayConsume(t) /\ used' = [used EXCEPT ![t] = used[t] + 1]
                /\ s = "consumed" \/ faults' # 0
    <3>1. CASE Consume(n)
      BY <2>0, <3>1 DEF Consume, Advanced
    <3>2. CASE ConsumeFails(n)
      <4>1. faults' # 0
        BY <2>1, <3>2, NobodyGaveUp DEF ConsumeFails, Going
      <4>. QED  BY <2>0, <3>2, <4>1 DEF ConsumeFails, Advanced
    <3>. QED  BY <1>6, <3>1, <3>2
  <2>3. /\ calls'[n].step = s
        /\ \A m \in Call : /\ calls'[m].token = calls[m].token
                           /\ calls'[m] = NoCall <=> calls[m] = NoCall
        /\ \A m \in Call \ {n} : calls'[m] = calls[m]
    <3>1. s \in CallStep
      BY DEF CallStep
    <3>. QED  BY <2>1, <2>2, <3>1, Advances DEF IInv
  <2>4. Made' = Made /\ n \notin machines /\ machines \subseteq Call
    BY <2>1, <2>3 DEF Made, IInv, RowsInv, TypeOK
  <2>5. \A u \in Token : RowsOf(u)' = RowsOf(u)
    BY <2>1, <2>3, <2>4 DEF RowsOf
  <2>6. \A u \in Token \ {t} : OwingTo(u)' = OwingTo(u)
    BY <2>0, <2>3 DEF OwingTo
  <2>7. OwingTo(t)' = IF s = "consumed" THEN OwingTo(t) \union {n} ELSE OwingTo(t)
    BY <2>0, <2>1, <2>3 DEF OwingTo
  <2>8. Cardinality(OwingTo(t)') = Cardinality(OwingTo(t)) + (IF s = "consumed" THEN 1 ELSE 0)
    <3>1. n \notin OwingTo(t)
      BY <2>1 DEF OwingTo
    <3>2. CASE s = "consumed"
      BY <2>7, <3>1, <3>2, CountFinite, FS_AddElement
    <3>3. CASE s = "refused"
      BY <2>7, <3>3, CountFinite
    <3>. QED  BY <3>2, <3>3
  <2>9. CASE s = "refused" /\ used' = used
    <3>1. OwingTo(t)' = OwingTo(t)
      BY <2>7, <2>9
    <3>. QED  BY <1>1, <2>1, <2>4, <2>5, <2>6, <2>9, <3>1, CountSame
  <2>10. CASE /\ MayConsume(t) /\ used' = [used EXCEPT ![t] = used[t] + 1]
              /\ s = "consumed" \/ faults' # 0
    <3>1. /\ used'[t] = used[t] + 1 /\ (cap[t] = Unlimited \/ used[t] < cap[t])
          /\ \A u \in Token \ {t} : used'[u] = used[u]
      BY <2>1, <2>10, CountFinite DEF IInv, TypeOK, MayConsume
    <3>2. ASSUME NEW u \in Token
          PROVE  /\ Cardinality(RowsOf(u)') + Cardinality(OwingTo(u)') <= used'[u]
                 /\ cap[u] = Unlimited \/ used'[u] <= cap[u]
                 /\ faults' = 0 => used'[u] = Cardinality(RowsOf(u)') + Cardinality(OwingTo(u)')
      <4>1. CASE u = t
        BY <2>1, <2>5, <2>8, <2>10, <3>1, <4>1, CountFinite, EnrollmentAssumption DEF TokenInv
      <4>2. CASE u # t
        BY <2>1, <2>5, <2>6, <3>1, <4>2 DEF TokenInv
      <4>. QED  BY <4>1, <4>2
    <3>. QED  BY <1>1, <2>1, <2>4, <3>2 DEF TokenInv, Made
  <2>. QED  BY <2>2, <2>9, <2>10

<1>7. ASSUME NEW n \in Call, CreateMachine(n)
      PROVE  TokenInv'
  <2>0. PICK t \in Token : t = calls[n].token
    BY <1>7, CallTyped DEF CreateMachine, NoCall, IInv
  <2>1. /\ UNCHANGED <<cap, used>> /\ serving = "up"
        /\ calls[n].step = "consumed" /\ calls[n] # NoCall
        /\ calls' = Answered(n, "created") \/ calls' = Answered(n, "refused")
        /\ \/ machines' = machines \union {n} /\ faults' = faults
           \/ machines' \in {machines, machines \union {n}} /\ faults' # 0
    BY <1>7, NobodyGaveUp DEF CreateMachine, NoCall, Answered, Going
  <2>2. n \notin machines /\ machines \subseteq Call /\ n \in OwingTo(t)
    BY <2>0, <2>1 DEF IInv, RowsInv, TypeOK, OwingTo
  <2>3. /\ calls'[n].step \in {"created", "refused"} /\ calls'[n].token = t /\ calls'[n] # NoCall
        /\ \A m \in Call \ {n} : calls'[m] = calls[m]
    BY <2>0, <2>1, Answers DEF IInv
  <2>4. Made' = Made
    BY <2>1, <2>3 DEF Made
  <2>5. \A u \in Token \ {t} : RowsOf(u)' = RowsOf(u) /\ OwingTo(u)' = OwingTo(u)
    BY <2>0, <2>1, <2>2, <2>3 DEF RowsOf, OwingTo
  <2>6. OwingTo(t)' = OwingTo(t) \ {n}
    BY <2>1, <2>3 DEF OwingTo
  <2>7. Cardinality(OwingTo(t)') = Cardinality(OwingTo(t)) - 1
    BY <2>1, <2>2, <2>6, CountFinite, FS_RemoveElement
  <2>8. \/ Cardinality(RowsOf(t)') = Cardinality(RowsOf(t)) + 1 /\ (faults' = faults \/ faults' # 0)
        \/ Cardinality(RowsOf(t)') = Cardinality(RowsOf(t)) /\ faults' # 0
    <3>1. CASE machines' = machines /\ faults' # 0
      <4>1. RowsOf(t)' = RowsOf(t)
        BY <2>2, <2>3, <3>1 DEF RowsOf
      <4>. QED  BY <3>1, <4>1
    <3>2. CASE machines' = machines \union {n} /\ (faults' = faults \/ faults' # 0)
      <4>1. RowsOf(t)' = RowsOf(t) \union {n} /\ n \notin RowsOf(t)
        BY <2>0, <2>2, <2>3, <3>2 DEF RowsOf
      <4>. QED  BY <2>1, <3>2, <4>1, CountFinite, FS_AddElement
    <3>. QED  BY <2>1, <3>1, <3>2
  <2>9. ASSUME NEW u \in Token
        PROVE  /\ Cardinality(RowsOf(u)') + Cardinality(OwingTo(u)') <= used[u]
               /\ cap[u] = Unlimited \/ used[u] <= cap[u]
               /\ faults' = 0 => used[u] = Cardinality(RowsOf(u)') + Cardinality(OwingTo(u)')
    <3>1. CASE u = t
      BY <1>1, <2>7, <2>8, <3>1, CountFinite DEF TokenInv
    <3>2. CASE u # t
      BY <1>1, <2>5, <2>8, <3>2 DEF TokenInv
    <3>. QED  BY <3>1, <3>2
  <2>. QED  BY <1>1, <2>1, <2>4, <2>9 DEF TokenInv, Made
<1>8. ASSUME NEW a \in Agent, Install(a) \/ WriteFile(a) \/ Interrupt(a) \/ Resume(a) \/ Stop(a)
      PROVE  TokenInv'
  <2>1. UNCHANGED <<calls, machines, cap, used>> /\ faults' \in {faults, faults + 1}
    BY <1>8 DEF Install, WriteFile, Interrupt, Resume, Stop, storeVars, Fault
  <2>. QED  BY <1>1, <1>2, <2>1
<1>9. ASSUME NEW a \in Agent, Begin(a)
      PROVE  TokenInv'
  <2>1. UNCHANGED <<machines, cap, used, faults>> /\ token[a] \in Token
    BY <1>9 DEF Begin, storeVars, IInv, TypeOK
  <2>2. PICK n \in Call :
          /\ calls[n] = NoCall
          /\ calls' = [calls EXCEPT ![n] = [step |-> "sent", agent |-> a, token |-> token[a], ca |-> 0]]
    BY <1>9 DEF Begin
  <2>3. /\ \A m \in Call \ {n} : calls'[m] = calls[m]
        /\ calls'[n].step = "sent" /\ calls[n].step = "idle"
    BY <2>2 DEF IInv, TypeOK, NoCall
  <2>4. n \notin machines /\ machines \subseteq Call
    BY <2>2 DEF IInv, TypeOK
  <2>5. Made' \subseteq Made \union {n} /\ IsFiniteSet(Made \union {n})
    BY <1>1, <2>3, FS_AddElement DEF Made
  <2>6. IsFiniteSet(Made')
    BY <2>5, FS_Subset
  <2>7. \A t \in Token : RowsOf(t)' = RowsOf(t) /\ OwingTo(t)' = OwingTo(t)
    BY <2>1, <2>3, <2>4 DEF RowsOf, OwingTo
  <2>. QED  BY <2>1, <2>6, <2>7, CountSame
<1>10. ASSUME NEW a \in Agent, Receive(a)
       PROVE  TokenInv'
  <2>1. /\ UNCHANGED <<machines, cap, used, faults>> /\ pc[a] = "asking"
        /\ calls[ask[a]].step = "created" /\ calls' = Advanced(ask[a], "done")
    BY <1>10 DEF Receive, storeVars, Advanced
  <2>2. ask[a] \in Call /\ calls[ask[a]] # NoCall
    BY <2>1 DEF IInv, AskInv
  <2>3. /\ calls'[ask[a]].step = "done"
        /\ \A m \in Call : /\ calls'[m].token = calls[m].token
                           /\ calls'[m] = NoCall <=> calls[m] = NoCall
        /\ \A m \in Call \ {ask[a]} : calls'[m] = calls[m]
    <3>1. "done" \in CallStep
      BY DEF CallStep
    <3>. QED  BY <2>1, <2>2, <3>1, Advances DEF IInv
  <2>4. Made' = Made /\ machines \subseteq Call
    BY <2>3 DEF Made, IInv, TypeOK
  <2>5. \A t \in Token : RowsOf(t)' = RowsOf(t) /\ OwingTo(t)' = OwingTo(t)
    BY <2>1, <2>2, <2>3, <2>4 DEF RowsOf, OwingTo
  <2>. QED  BY <1>1, <2>1, <2>4, <2>5, CountSame
<1>11. ASSUME NEW a \in Agent, GiveUp(a)
       PROVE  TokenInv'
  <2>1. /\ UNCHANGED <<machines, cap, used>> /\ faults' \in {faults, faults + 1}
        /\ pc[a] = "asking"
        /\ \/ calls' = calls
           \/ /\ calls[ask[a]].step \in {"refused", "lost"} /\ ask[a] \notin machines
              /\ calls' = [calls EXCEPT ![ask[a]] = NoCall]
    BY <1>11 DEF GiveUp, storeVars, Fault
  <2>2. CASE calls' = calls
    BY <1>1, <1>2, <2>1, <2>2
  <2>3. CASE /\ calls[ask[a]].step \in {"refused", "lost"} /\ ask[a] \notin machines
             /\ calls' = [calls EXCEPT ![ask[a]] = NoCall]
    <3>1. ask[a] \in Call
      BY <2>1 DEF IInv, AskInv
    <3>2. /\ \A m \in Call \ {ask[a]} : calls'[m] = calls[m]
          /\ calls'[ask[a]] = NoCall /\ calls'[ask[a]].step = "idle"
      BY <2>3, <3>1 DEF IInv, TypeOK, NoCall
    <3>3. Made' \subseteq Made /\ machines \subseteq Call
      BY <3>2 DEF Made, IInv, TypeOK
    <3>4. IsFiniteSet(Made')
      BY <1>1, <3>3, FS_Subset
    <3>5. \A t \in Token : RowsOf(t)' = RowsOf(t) /\ OwingTo(t)' = OwingTo(t)
      BY <2>1, <2>3, <3>2, <3>3 DEF RowsOf, OwingTo
    <3>. QED  BY <1>1, <2>1, <3>4, <3>5, CountSame
  <2>. QED  BY <2>1, <2>2, <2>3
<1>. QED
  BY <1>3, <1>4, <1>5, <1>6, <1>7, <1>8, <1>9, <1>10, <1>11 DEF Next

LEMMA ExpiredStep == IInv /\ ExpiredInv /\ [Next]_vars => ExpiredInv'
<1>. SUFFICES ASSUME IInv, ExpiredInv, [Next]_vars, NEW u \in expired'
     PROVE  used'[u] = closed'[u]
  BY DEF ExpiredInv
<1>. USE DEF ExpiredInv
<1>1. used \in [Token -> Nat] /\ closed \in [Token -> Nat] /\ expired \subseteq Token
  BY DEF IInv, TypeOK
<1>2. CASE UNCHANGED <<used, closed, expired>>
  BY <1>2
<1>3. ASSUME NEW t \in Token, handleCreateEnrollToken(t) \/ Expire(t)
      PROVE  used'[u] = closed'[u]
  BY <1>1, <1>3 DEF handleCreateEnrollToken, Expire, IInv, TypeOK
<1>4. ASSUME NEW n \in Call, Consume(n) \/ ConsumeFails(n) \/ CreateMachine(n)
      PROVE  used'[u] = closed'[u]
  <2>1. UNCHANGED <<expired, closed>>
    BY <1>4 DEF Consume, ConsumeFails, CreateMachine
  <2>2. used' = used \/ \E t : MayConsume(t) /\ used' = [used EXCEPT ![t] = used[t] + 1]
    BY <1>4 DEF Consume, ConsumeFails, CreateMachine
  <2>3. used'[u] = used[u]
    BY <1>1, <2>1, <2>2 DEF MayConsume
  <2>. QED  BY <2>1, <2>3
<1>5. CASE ServerAction \/ UNCHANGED vars
  <2>1. UNCHANGED <<used, closed, expired>>
    BY <1>5 DEF ServerAction, StartServer, WriteCert, Serve, CrashServer, Rotate, Repair, vars,
                storeVars
  <2>. QED  BY <1>2, <2>1
<1>6. ASSUME NEW a \in Agent,
             \/ Install(a) \/ Begin(a) \/ Receive(a) \/ GiveUp(a)
             \/ WriteFile(a) \/ Interrupt(a) \/ Resume(a) \/ Stop(a)
      PROVE  used'[u] = closed'[u]
  <2>1. UNCHANGED <<used, closed, expired>>
    BY <1>6 DEF Install, Begin, Receive, GiveUp, WriteFile, Interrupt, Resume, Stop, storeVars
  <2>. QED  BY <1>2, <2>1
<1>. QED  BY <1>3, <1>4, <1>5, <1>6 DEF Next, ServerAction

\* A token enrolls no more machines than it is good for, and none once it has expired;
\* each enrollment uses it up once, and only a fault uses it up for nothing.
THEOREM TokensAreCounted == Spec => []TokensHold
<1>1. Init => TokenInv
  <2>. SUFFICES ASSUME Init PROVE TokenInv
    OBVIOUS
  <2>1. {n \in Call : calls[n] # NoCall} = {}
    BY DEF Init
  <2>2. \A t \in Token : RowsOf(t) = {} /\ OwingTo(t) = {} /\ used[t] = 0 /\ cap[t] = 0
    BY DEF Init, RowsOf, OwingTo, NoCall
  <2>3. IsFiniteSet({}) /\ Cardinality({}) = 0
    BY FS_EmptySet
  <2>4. IsFiniteSet({n \in Call : calls[n] # NoCall})
    BY <2>1, <2>3
  <2>5. ASSUME NEW t \in Token
        PROVE  /\ Cardinality(RowsOf(t)) + Cardinality(OwingTo(t)) <= used[t]
               /\ cap[t] = Unlimited \/ used[t] <= cap[t]
               /\ used[t] = Cardinality(RowsOf(t)) + Cardinality(OwingTo(t))
    <3>1. RowsOf(t) = {} /\ OwingTo(t) = {} /\ used[t] = 0 /\ cap[t] = 0
      BY <2>2
    <3>2. Cardinality(RowsOf(t)) = 0 /\ Cardinality(OwingTo(t)) = 0
      BY <2>3, <3>1
    <3>. QED  BY <3>1, <3>2
  <2>. QED  BY <2>4, <2>5 DEF TokenInv
<1>2. Init => AwaitedInv /\ ExpiredInv
  BY DEF Init, AwaitedInv, ExpiredInv, NoCall, Going
<1>3. TokenInv /\ ExpiredInv => TokensHold
  BY DEF TokenInv, ExpiredInv, TokensHold, RowsOf, OwingTo
<1>. QED  BY <1>1, <1>2, <1>3, TokenStep, AwaitedStep, ExpiredStep, Invariance, PTL DEF Spec

=============================================================================
