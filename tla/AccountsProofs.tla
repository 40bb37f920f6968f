---------------------------- MODULE AccountsProofs ----------------------------
(***************************************************************************)
(* AdminRemains, ActedWasEntitled, EnabledIsProven and LockOutIsFinal for  *)
(* any number of users, sessions, server processes and requests at a time. *)
(*                                                                         *)
(* The argument rests on what a request in hand has learned and what later *)
(* writes leave of it: a guard that is not stale still has an enabled      *)
(* administrator beside the one it removes; a session's user that is an    *)
(* enabled administrator has been noted as entitled; a second factor that  *)
(* was enabled is off only after an enrollment; a verification that is not *)
(* stale still holds the secret that is stored.                            *)
(***************************************************************************)
EXTENDS Accounts, FiniteSetTheorems, TLAPS

Taken(h) == h # Idle /\ h.kind # "login"

\* A request in hand: types, and what was asked for fits the kind of request.
Fits(h, hld, rows) ==
  /\ h \in Handler \union Login \union {Idle}
  /\ Taken(h) =>
       /\ h \in Handler
       /\ hld[h.session] \in User
       /\ h.kind \in {"create", "role"} => h.value \in Role
       /\ h.kind = "disable" => h.value \in {"disabled", "enabled"}
       /\ h.kind \in {"enroll", "verify", "logout"} =>
            h.value = "self" /\ h.target = hld[h.session]
       /\ h.kind = "verify" /\ h.step # "session" => h.secret \in Secret
  /\ h # Idle /\ h.kind = "login" => h.target \in rows

Rows == {u \in User : Exists(u)}

RequestsOK ==
  /\ active = [r \in Request |-> active[r]]
  /\ \A r \in Request : Fits(active[r], holder, Rows)

\* The tables. Only accounts are disabled; the first one is the bootstrap one.
TablesOK ==
  /\ role \in [User -> Role \union {"none"}]
  /\ disabled \in [User -> BOOLEAN]
  /\ secret \in [User -> Secret \union {0}]
  /\ mfa \in [User -> BOOLEAN]
  /\ holder \in [Session -> User \union {Nobody}]
  /\ open \subseteq Issued /\ passed \subseteq Issued
  /\ \A s \in Issued : Exists(holder[s])
  /\ \A u \in User : disabled[u] => Exists(u)
  /\ NoAccounts \/ Exists(FirstAdmin)

CountersOK ==
  /\ boot \in [Instance -> {"down", "counted", "up"}]
  /\ begun \in Nat /\ minted \in Secret \union {0} /\ faults \in Nat
  /\ proven \subseteq Secret /\ raced \in BOOLEAN /\ mixed \subseteq User
  /\ factor \in [User -> Factor] /\ basis \in [Session -> Factor \union {"none", "code"}]

Typed == RequestsOK /\ TablesOK /\ CountersOK

LEMMA TypedImplies == Typed => TypeOK
  <1> SUFFICES ASSUME Typed PROVE TypeOK
    OBVIOUS
  <1>1. active \in [Request -> Handler \union Login \union {Idle}]
    BY DEF Typed, RequestsOK, Fits
  <1>2. ASSUME NEW r \in Request, Taken(active[r]) PROVE active[r].session \in Issued
    BY <1>2, AccountsAssumption DEF Typed, RequestsOK, Fits, Issued, Handler
  <1> QED
    BY <1>1, <1>2 DEF Typed, TablesOK, CountersOK, TypeOK, Taken

LEMMA TypedInit == Init => Typed
  <1> SUFFICES ASSUME Init PROVE Typed
    OBVIOUS
  <1>1. RequestsOK
    BY DEF Init, RequestsOK, Fits, Taken
  <1>2. TablesOK
    BY DEF Init, TablesOK, Issued, Exists, NoAccounts
  <1>3. CountersOK
    BY DEF Init, CountersOK, Factor
  <1> QED BY <1>1, <1>2, <1>3 DEF Typed

-----------------------------------------------------------------------------
(* What each step does to the request in hand and to the tables *)

\* A request that moves on, or ends, still fits.
LEMMA DropFits ==
  ASSUME NEW r \in Request, RequestsOK, Drop(r), UNCHANGED <<holder, role>>
  PROVE  RequestsOK'
  BY DEF RequestsOK, Drop, Fits, Taken, Rows, Exists

LEMMA MoveFits ==
  ASSUME NEW r \in Request, NEW step \in {"count", "write", "enable"}, RequestsOK,
         Taken(active[r]), active[r].step # "session",
         MoveTo(r, step), UNCHANGED <<holder, role>>
  PROVE  RequestsOK'
  <1> DEFINE h == active[r]
             g == [h EXCEPT !.step = step]
  <1>1. h \in Handler /\ Fits(h, holder, Rows)
    BY DEF RequestsOK, Fits
  <1>2. g \in Handler
    BY <1>1 DEF Handler, Step
  <1>3. Fits(g, holder, Rows)
    BY <1>1, <1>2, AccountsAssumption DEF Fits, Handler, Taken
  <1> QED
    BY <1>3 DEF RequestsOK, MoveTo, Rows, Exists

\* A write leaves the other requests as they were, but for their history.
LEMMA NotedKeeps ==
  ASSUME NEW q \in Request, RequestsOK
  PROVE  LET h == active[q]
             g == Noted(h) IN
         /\ Taken(g) <=> Taken(h)
         /\ ~Taken(h) => g = h
         /\ Taken(h) =>
              /\ g \in Handler
              /\ \A f \in {"kind", "target", "value", "session", "step", "on", "secret",
                           "live"} : g[f] = h[f]
              /\ g.entitled = (h.entitled \/ StillAdmin(holder[h.session]))
              /\ g.stale = (h.stale \/
                   (/\ h.kind \in {"role", "disable"} /\ h.step \in {"count", "write"}
                    /\ \E u \in User : EnabledAdmin(u) /\ ~StillAdmin(u)))
  <1> DEFINE h == active[q]
             g == Noted(h)
  <1>1. CASE ~Taken(h)
    BY <1>1 DEF Taken, Noted
  <1>2. CASE Taken(h)
    <2> DEFINE e == h.entitled \/ StillAdmin(holder[h.session])
               x == h.stale \/
                   (/\ h.kind \in {"role", "disable"} /\ h.step \in {"count", "write"}
                    /\ \E u \in User : EnabledAdmin(u) /\ ~StillAdmin(u))
    <2>1. h \in Handler
      BY <1>2 DEF RequestsOK, Fits
    <2>2. g = [[h EXCEPT !.entitled = e] EXCEPT !.stale = x]
      BY <1>2 DEF Noted, Taken
    <2>3. e \in BOOLEAN /\ x \in BOOLEAN
      BY <2>1 DEF StillAdmin, Handler
    <2> HIDE DEF e, x, g
    <2>4. g \in Handler
      BY <2>1, <2>2, <2>3 DEF Handler
    <2>5. /\ \A f \in {"kind", "target", "value", "session", "step", "on", "secret",
                       "live"} : g[f] = h[f]
          /\ g.entitled = e /\ g.stale = x
      BY <2>1, <2>2, <2>3 DEF Handler
    <2>6. Taken(g)
      BY <1>2, <2>4, <2>5, AccountsAssumption DEF Taken
    <2> QED
      BY <1>2, <2>4, <2>5, <2>6 DEF e, x, g
  <1> QED BY <1>1, <1>2

LEMMA EndWriteFits ==
  ASSUME NEW r \in Request, RequestsOK, EndWrite(r), UNCHANGED holder,
         \A u \in User : Exists(u) => Exists(u)'
  PROVE  RequestsOK'
  <1>1. ASSUME NEW q \in Request, q # r PROVE Fits(Noted(active[q]), holder, Rows)
    BY <1>1, NotedKeeps DEF RequestsOK, Fits, Taken
  <1> QED
    BY <1>1 DEF RequestsOK, EndWrite, Fits, Taken, Rows

-----------------------------------------------------------------------------
(* Types: one step per action *)

LEMMA TablesFrame ==
  ASSUME TablesOK, UNCHANGED <<accountVars, secret, mfa, sessionVars>>
  PROVE  TablesOK'
  BY DEF TablesOK, accountVars, sessionVars, Issued, Exists, NoAccounts

LEMMA TypedServer ==
  ASSUME Typed, NEW i \in Instance, Server(i)
  PROVE  Typed'
  <1> USE DEF accountVars, factorVars, sessionVars, historyVars
  <1>1. ASSUME UNCHANGED <<active, holder>>, \A u \in User : Exists(u) => Exists(u)'
         PROVE  RequestsOK'
    BY <1>1 DEF Typed, RequestsOK, Fits, Rows
  <1>2. CASE CreateBootstrapAdmin(i)
    <2>1. TablesOK'
      BY <1>2, AccountsAssumption
         DEF CreateBootstrapAdmin, Typed, TablesOK, Issued, Exists, NoAccounts, Role
    <2>2. CountersOK'
      BY <1>2 DEF CreateBootstrapAdmin, Typed, CountersOK
    <2>3. \A u \in User : Exists(u) => Exists(u)'
      BY <1>2, AccountsAssumption DEF CreateBootstrapAdmin, Exists, Typed, TablesOK
    <2> QED BY <1>1, <1>2, <2>1, <2>2, <2>3 DEF CreateBootstrapAdmin, Typed
  <1>3. CASE CountAtStart(i) \/ NoCredentials(i) \/ StopServer(i)
    <2>1. CountersOK'
      BY <1>3 DEF CountAtStart, NoCredentials, StopServer, Typed, CountersOK
    <2>2. TablesOK'
      BY <1>3, TablesFrame DEF CountAtStart, NoCredentials, StopServer, Typed
    <2>3. \A u \in User : Exists(u) => Exists(u)'
      BY <1>3 DEF CountAtStart, NoCredentials, StopServer, Exists
    <2> QED BY <1>1, <1>3, <2>1, <2>2, <2>3 DEF CountAtStart, NoCredentials, StopServer, Typed
  <1> QED BY <1>2, <1>3 DEF Server

LEMMA TypedArrival ==
  ASSUME Typed, NEW r \in Request, Arrival(r)
  PROVE  Typed'
  <1> USE DEF accountVars, factorVars, sessionVars, historyVars
  <1>1. CASE \E s \in Session, op \in Op : ReadSession(r, s, op)
    <2>1. PICK s \in Session, op \in Op : ReadSession(r, s, op)
      BY <1>1
    <2> DEFINE h == active'[r]
    <2>2. s \in Issued /\ holder[s] \in User
      BY <2>1 DEF ReadSession, Typed, TablesOK, Issued
    <2>3. /\ op.target \in User
          /\ op.kind \in {"create", "role", "disable", "enroll", "verify", "logout"}
          /\ op.value \in Role \union {"disabled", "enabled", "self"}
          /\ op.kind \in {"create", "role"} => op.value \in Role
          /\ op.kind = "disable" => op.value \in {"disabled", "enabled"}
          /\ op.kind \in {"enroll", "verify", "logout"} => op.value = "self"
      BY <2>1 DEF Op
    <2>4. Fits([kind |-> op.kind, target |-> op.target, value |-> op.value, session |-> s,
                step |-> "session", on |-> FALSE, secret |-> 0, live |-> s \in open,
                entitled |-> EnabledAdmin(holder[s]), stale |-> FALSE], holder, Rows)
      BY <2>1, <2>2, <2>3, AccountsAssumption
         DEF ReadSession, Fits, Handler, Step, EnabledAdmin, Taken
    <2>5. RequestsOK'
      BY <2>1, <2>4 DEF ReadSession, Typed, RequestsOK, Rows, Exists
    <2> QED
      BY <2>1, <2>5, TablesFrame DEF ReadSession, Typed, CountersOK
  <1>2. CASE \E u \in User : LoginReads(r, u)
    <2>1. PICK u \in User : LoginReads(r, u)
      BY <1>2
    <2>2. Fits([kind |-> "login", target |-> u, step |-> "write", on |-> mfa[u],
                factor |-> factor[u]], holder, Rows)
      BY <2>1, AccountsAssumption
         DEF LoginReads, CanLogIn, Typed, TablesOK, CountersOK, Fits, Login, Taken, Rows
    <2>3. RequestsOK'
      BY <2>1, <2>2 DEF LoginReads, Typed, RequestsOK, Rows, Exists
    <2> QED
      BY <2>1, <2>3, TablesFrame DEF LoginReads, Typed, CountersOK
  <1> QED BY <1>1, <1>2 DEF Arrival

LEMMA TypedReads ==
  ASSUME Typed, NEW r \in Request,
         \/ ReadUser(r) \/ ReadTarget(r) \/ ReadTargetFails(r) \/ CountEnabledAdmins(r)
         \/ HandlerFails(r)
  PROVE  Typed'
  <1> USE DEF accountVars, factorVars, sessionVars, historyVars
  <1> DEFINE h == active[r]
  <1>1. TablesOK' /\ CountersOK'
    BY TablesFrame DEF ReadUser, ReadTarget, ReadTargetFails, CountEnabledAdmins,
       HandlerFails, Typed, CountersOK
  <1>2. CASE ReadUser(r)
    <2> DEFINE u == holder[h.session]
               g == [h EXCEPT !.step = IF Removes(h) THEN "target" ELSE "write",
                              !.on = mfa[u], !.secret = secret[u]]
    <2>1. CASE Drop(r)
      BY <1>1, <1>2, <2>1, DropFits DEF ReadUser, Typed
    <2>2. CASE /\ Admitted(u, h.kind) /\ Acceptable(h, u)
               /\ active' = [active EXCEPT ![r] = g]
      <3>1. Taken(h)
        BY <1>2 DEF ReadUser, Typed, RequestsOK, Fits, Taken, Login, Handler
      <3>2. h \in Handler /\ Fits(h, holder, Rows) /\ u \in User
        BY <3>1 DEF Typed, RequestsOK, Fits
      <3>3. g \in Handler
        BY <3>2 DEF Handler, Step, Typed, TablesOK
      <3>4. h.kind = "verify" => secret[u] \in Secret
        BY <2>2, <3>2 DEF Acceptable, Typed, TablesOK
      <3>5. Fits(g, holder, Rows)
        BY <3>1, <3>2, <3>3, <3>4, AccountsAssumption DEF Fits, Taken, Handler
      <3>6. RequestsOK'
        BY <1>2, <2>2, <3>5 DEF ReadUser, RequestsOK, Typed, Rows, Exists
      <3> QED BY <1>1, <3>6 DEF Typed
    <2> QED BY <1>2, <2>1, <2>2 DEF ReadUser
  <1>3. CASE HandlerFails(r)
    BY <1>1, <1>3, DropFits DEF HandlerFails, Typed
  <1>4. CASE ReadTarget(r) \/ ReadTargetFails(r) \/ CountEnabledAdmins(r)
    <2>1. Taken(h) /\ h.step # "session"
      BY <1>4 DEF ReadTarget, ReadTargetFails, CountEnabledAdmins, Working, Taken
    <2>2. Drop(r) \/ MoveTo(r, "count") \/ MoveTo(r, "write")
      BY <1>4 DEF ReadTarget, ReadTargetFails, CountEnabledAdmins
    <2>3. UNCHANGED <<holder, role>>
      BY <1>4 DEF ReadTarget, ReadTargetFails, CountEnabledAdmins
    <2>4. RequestsOK'
      BY <2>1, <2>2, <2>3, DropFits, MoveFits DEF Typed
    <2> QED BY <1>1, <2>4 DEF Typed
  <1> QED BY <1>2, <1>3, <1>4

LEMMA TypedSessions ==
  ASSUME Typed, NEW r \in Request,
         DeleteSession(r) \/ \E s \in Session : CreateSession(r, s)
  PROVE  Typed'
  <1> USE DEF accountVars, factorVars, sessionVars, historyVars
  <1>1. ASSUME NEW s \in Session, CreateSession(r, s) PROVE Typed'
    <2> DEFINE h == active[r]
    <2>1. h.target \in User
      BY <1>1 DEF CreateSession, Working, Typed, RequestsOK, Fits, Login, Handler
    <2>2. Exists(h.target)
      BY <1>1 DEF CreateSession, Working, Typed, RequestsOK, Fits, Rows
    <2>3. TablesOK'
      BY <1>1, <2>1, <2>2, AccountsAssumption
         DEF CreateSession, Typed, TablesOK, Issued, Exists, NoAccounts
    <2>4. RequestsOK'
      BY <1>1, AccountsAssumption
         DEF CreateSession, Typed, RequestsOK, Fits, Taken, Drop, Issued, Handler, Rows, Exists
    <2>5. h \in Login
      BY <1>1 DEF CreateSession, Working, Typed, RequestsOK, Fits, Handler
    <2>6. CountersOK'
      BY <1>1, <2>5 DEF CreateSession, Typed, CountersOK, Login
    <2> QED BY <2>3, <2>4, <2>6 DEF Typed
  <1>2. CASE DeleteSession(r)
    <2>1. TablesOK'
      BY <1>2 DEF DeleteSession, Typed, TablesOK, Issued, Exists, NoAccounts
    <2>2. RequestsOK'
      BY <1>2, DropFits DEF DeleteSession, Typed, RequestsOK, Rows, Exists
    <2> QED BY <1>2, <2>1, <2>2 DEF DeleteSession, Typed, CountersOK
  <1> QED BY <1>1, <1>2

LEMMA TypedFactors ==
  ASSUME Typed, NEW r \in Request,
         SetTOTPSecret(r) \/ MarkSessionMFAPassed(r) \/ EnableMFA(r)
  PROVE  Typed'
  <1> USE DEF accountVars, factorVars, sessionVars, historyVars
  <1> DEFINE h == active[r]
  <1>0. Taken(h) /\ h \in Handler /\ Fits(h, holder, Rows) /\ h.step # "session"
    BY DEF SetTOTPSecret, MarkSessionMFAPassed, EnableMFA, Working, Taken, Typed,
       RequestsOK, Fits
  <1>1. CASE SetTOTPSecret(r)
    <2>1. minted + 1 \in Secret
      BY <1>1, AccountsAssumption DEF SetTOTPSecret, Typed, CountersOK, Secret
    <2>2. h.target \in User
      BY <1>0 DEF Handler
    <2>3. TablesOK'
      BY <1>1, <2>1, <2>2
         DEF SetTOTPSecret, WithoutFactor, Typed, TablesOK, Issued, Exists, NoAccounts
    <2>4. ASSUME NEW q \in Request, Taken(active[q])
          PROVE  Fits([active[q] EXCEPT !.stale = TRUE], holder, Rows)
      <3> DEFINE a == active[q]
                 g == [a EXCEPT !.stale = TRUE]
      <3>1. a \in Handler /\ Fits(a, holder, Rows)
        BY <2>4 DEF Typed, RequestsOK, Fits
      <3>2. g \in Handler
        BY <3>1 DEF Handler
      <3> QED BY <2>4, <3>1, <3>2, AccountsAssumption DEF Fits, Taken, Handler
    <2>5. RequestsOK'
      BY <1>1, <2>4 DEF SetTOTPSecret, Typed, RequestsOK, Rows, Exists, Verifying, Fits, Taken
    <2> QED BY <1>1, <2>1, <2>3, <2>5 DEF SetTOTPSecret, Typed, CountersOK, Factor
  <1>2. CASE MarkSessionMFAPassed(r)
    <2>1. h.session \in Issued /\ h.secret \in Secret
      BY <1>0, <1>2, AccountsAssumption
         DEF MarkSessionMFAPassed, Working, Fits, Handler, Issued
    <2>2. TablesOK'
      BY <1>2, <2>1 DEF MarkSessionMFAPassed, Typed, TablesOK, Issued, Exists, NoAccounts
    <2>3. RequestsOK'
      BY <1>0, <1>2, DropFits, MoveFits DEF MarkSessionMFAPassed, Typed
    <2> QED BY <1>2, <2>1, <2>2, <2>3 DEF MarkSessionMFAPassed, Typed, CountersOK
  <1>3. CASE EnableMFA(r)
    <2>1. h.target \in User
      BY <1>0 DEF Handler
    <2>2. TablesOK'
      BY <1>3, <2>1 DEF EnableMFA, Typed, TablesOK, Issued, Exists, NoAccounts
    <2>3. RequestsOK'
      BY <1>3, DropFits DEF EnableMFA, Typed
    <2> QED BY <1>3, <2>1, <2>2, <2>3 DEF EnableMFA, Typed, CountersOK, Factor
  <1> QED BY <1>1, <1>2, <1>3

LEMMA TypedWrites ==
  ASSUME Typed, NEW r \in Request, SetRole(r) \/ SetDisabled(r) \/ CreateAdmin(r)
  PROVE  Typed'
  <1> USE DEF accountVars, factorVars, sessionVars, historyVars
  <1> DEFINE h == active[r]
  <1>0. Taken(h) /\ h \in Handler /\ Fits(h, holder, Rows)
    BY DEF SetRole, SetDisabled, CreateAdmin, Working, Taken, Typed, RequestsOK, Fits
  <1>1. h.target \in User /\ (h.kind \in {"role", "create"} => h.value \in Role)
    BY <1>0 DEF Handler, Fits
  <1>2. ~NoAccounts
    BY <1>0, AccountsAssumption DEF Fits, Handler, Typed, TablesOK, Issued, NoAccounts
  <1>3. /\ role' \in [User -> Role \union {"none"}]
        /\ \A u \in User : Exists(u) => Exists(u)'
    BY <1>1 DEF SetRole, SetDisabled, CreateAdmin, Working, Exists, Typed, TablesOK, Role
  <1>4. /\ disabled' \in [User -> BOOLEAN]
        /\ \A u \in User : disabled'[u] => Exists(u)
    BY <1>1 DEF SetRole, SetDisabled, CreateAdmin, Exists, Typed, TablesOK
  <1>5. UNCHANGED <<factorVars, sessionVars>>
    BY DEF SetRole, SetDisabled, CreateAdmin
  <1>6. Issued' = Issued
    BY <1>5 DEF Issued
  <1>7. TablesOK'
    BY <1>2, <1>3, <1>4, <1>5, <1>6, AccountsAssumption
       DEF Typed, TablesOK, Issued, NoAccounts
  <1>8. RequestsOK'
    BY <1>3, EndWriteFits DEF SetRole, SetDisabled, CreateAdmin, Typed
  <1>9. CountersOK'
    <2>1. raced' \in BOOLEAN
      <3>1. h.stale \in BOOLEAN
        BY <1>0 DEF Handler
      <3> QED BY <3>1, ZenonT(30) DEF SetRole, SetDisabled, CreateAdmin, Typed, CountersOK
    <2> QED BY <2>1 DEF SetRole, SetDisabled, CreateAdmin, Typed, CountersOK
  <1> QED BY <1>7, <1>8, <1>9 DEF Typed

LEMMA TypedNext == Typed /\ [Next]_vars => Typed'
  <1> SUFFICES ASSUME Typed, [Next]_vars PROVE Typed'
    OBVIOUS
  <1>1. CASE UNCHANGED vars
    BY <1>1 DEF vars, accountVars, factorVars, sessionVars, historyVars, Typed, RequestsOK,
       TablesOK, CountersOK, Rows, Exists, Issued, NoAccounts
  <1>2. ASSUME NEW r \in Request, Statement(r) \/ Arrival(r) PROVE Typed'
    BY <1>2, TypedArrival, TypedReads, TypedSessions, TypedFactors, TypedWrites DEF Statement
  <1>3. ASSUME NEW i \in Instance, Server(i) PROVE Typed'
    BY <1>3, TypedServer
  <1>4. ASSUME NEW s \in Session, SessionExpires(s) PROVE Typed'
    BY <1>4 DEF SessionExpires, accountVars, factorVars, sessionVars, historyVars, Typed,
       RequestsOK, TablesOK, CountersOK, Rows, Exists, Issued, NoAccounts
  <1> QED BY <1>1, <1>2, <1>3, <1>4 DEF Next

LEMMA AlwaysTyped == Spec => []Typed
  BY TypedInit, TypedNext, PTL DEF Spec

(* The tables and the requests in hand have their types; every session     *)
(* belongs to an account, so that the foreign keys hold.                   *)
THEOREM TypeCorrect == Spec => []TypeOK
  BY AlwaysTyped, TypedImplies, PTL

-----------------------------------------------------------------------------
(* Entitlement *)

\* What a request in hand has noted of its session and its user.
Rights(h, admins, hld, pass) ==
  Taken(h) =>
    /\ h.live
    /\ hld[h.session] \in admins => h.entitled
    /\ NeedsMFA(h.kind) => h.session \in pass
    /\ NeedsAdmin(h.kind) /\ h.step # "session" => h.entitled

RightsInv == \A r \in Request : Rights(active[r], EnabledAdmins, holder, passed)

LEMMA RightsStep == Typed /\ RightsInv /\ [Next]_vars => RightsInv'
  <1> SUFFICES ASSUME Typed, RightsInv, [Next]_vars, NEW q \in Request
               PROVE  Rights(active[q], EnabledAdmins, holder, passed)'
    BY DEF RightsInv
  <1> USE DEF accountVars, factorVars, sessionVars, historyVars
  <1>0. /\ Rights(active[q], EnabledAdmins, holder, passed) /\ Fits(active[q], holder, Rows)
        /\ active = [r \in Request |-> active[r]]
    BY DEF RightsInv, Typed, RequestsOK
  \* Most steps leave the accounts alone.
  <1>1. ASSUME UNCHANGED <<accountVars, holder>>, passed \subseteq passed',
               Rights(active'[q], EnabledAdmins, holder, passed)
        PROVE  Rights(active[q], EnabledAdmins, holder, passed)'
    BY <1>1 DEF Rights, EnabledAdmins, EnabledAdmin
  <1>2. ASSUME NEW r \in Request, Drop(r)
        PROVE  Rights(active'[q], EnabledAdmins, holder, passed)
    BY <1>0, <1>2 DEF Drop, Rights, Taken
  <1>3. ASSUME NEW r \in Request, NEW step \in Step, MoveTo(r, step), Taken(active[r]),
               active[r].step # "session"
        PROVE  Rights(active'[q], EnabledAdmins, holder, passed)
    BY <1>0, <1>3 DEF MoveTo, Rights, Taken, Fits, Handler
  <1>4. CASE UNCHANGED vars
    BY <1>0, <1>1, <1>4 DEF vars
  <1>5. ASSUME NEW r \in Request, NEW s \in Session, NEW op \in Op, ReadSession(r, s, op)
        PROVE  Rights(active[q], EnabledAdmins, holder, passed)'
    <2>1. holder[s] \in User
      BY <1>5 DEF ReadSession, Typed, TablesOK, Issued
    <2>2. Rights(active'[q], EnabledAdmins, holder, passed)
      BY <1>0, <1>5, <2>1
         DEF ReadSession, Rights, EnabledAdmins, NeedsMFA, NeedsAdmin
    <2> QED BY <1>1, <1>5, <2>2 DEF ReadSession
  <1>6. ASSUME NEW r \in Request, NEW u \in User, LoginReads(r, u)
        PROVE  Rights(active[q], EnabledAdmins, holder, passed)'
    <2>1. Rights(active'[q], EnabledAdmins, holder, passed)
      BY <1>0, <1>6 DEF LoginReads, Rights, Taken
    <2> QED BY <1>1, <1>6, <2>1 DEF LoginReads
  <1>7. ASSUME NEW r \in Request, ReadUser(r)
        PROVE  Rights(active[q], EnabledAdmins, holder, passed)'
    <2> DEFINE h == active[r]
               u == holder[h.session]
               g == [h EXCEPT !.step = IF Removes(h) THEN "target" ELSE "write",
                              !.on = mfa[u], !.secret = secret[u]]
    <2>1. CASE Drop(r)
      BY <1>1, <1>2, <1>7, <2>1 DEF ReadUser
    <2>2. CASE /\ Admitted(u, h.kind)
               /\ active' = [active EXCEPT ![r] = g]
      <3>1. h \in Handler /\ u \in User /\ Taken(h) /\ Rights(h, EnabledAdmins, holder, passed)
        BY <1>7 DEF ReadUser, Typed, RequestsOK, Fits, Taken, Login, Handler, RightsInv
      <3>2. NeedsAdmin(h.kind) => u \in EnabledAdmins
        BY <2>2, <3>1 DEF Admitted, NeedsAdmin, EnabledAdmins, EnabledAdmin
      <3>3. Rights(g, EnabledAdmins, holder, passed)
        BY <3>1, <3>2 DEF Rights, Taken, Handler
      <3>4. Rights(active'[q], EnabledAdmins, holder, passed)
        BY <1>0, <2>2, <3>3
      <3> QED BY <1>1, <1>7, <3>4 DEF ReadUser
    <2> QED BY <1>7, <2>1, <2>2 DEF ReadUser
  <1>8. ASSUME NEW r \in Request,
               \/ ReadTarget(r) \/ ReadTargetFails(r) \/ CountEnabledAdmins(r)
               \/ HandlerFails(r) \/ DeleteSession(r) \/ MarkSessionMFAPassed(r)
               \/ EnableMFA(r)
        PROVE  Rights(active[q], EnabledAdmins, holder, passed)'
    <2>1. Drop(r) \/ \E step \in Step : MoveTo(r, step) /\ Taken(active[r])
                                       /\ active[r].step # "session"
      BY <1>8 DEF ReadTarget, ReadTargetFails, CountEnabledAdmins, HandlerFails,
         DeleteSession, MarkSessionMFAPassed, EnableMFA, Working, Taken, Step
    <2>2. Rights(active'[q], EnabledAdmins, holder, passed)
      BY <2>1, <1>2, <1>3
    <2> QED
      BY <1>1, <1>8, <2>2 DEF ReadTarget, ReadTargetFails, CountEnabledAdmins, HandlerFails,
         DeleteSession, MarkSessionMFAPassed, EnableMFA
  <1>9. ASSUME NEW r \in Request, NEW s \in Session, CreateSession(r, s)
        PROVE  Rights(active[q], EnabledAdmins, holder, passed)'
    <2>1. Taken(active'[q]) => active'[q] = active[q] /\ active[q].session # s
      BY <1>0, <1>9, AccountsAssumption
         DEF CreateSession, Drop, Taken, Fits, Handler, Issued
    <2> QED
      BY <1>0, <1>9, <2>1
         DEF CreateSession, Rights, Taken, Fits, Handler, EnabledAdmins, EnabledAdmin
  <1>10. ASSUME NEW r \in Request, SetTOTPSecret(r)
         PROVE  Rights(active[q], EnabledAdmins, holder, passed)'
    <2>1. Rights([active[q] EXCEPT !.stale = TRUE], EnabledAdmins, holder, passed)
            \/ ~Taken(active[q])
      BY <1>0 DEF Rights, Taken, Fits, Handler
    <2>2. Rights(active'[q], EnabledAdmins, holder, passed)
      BY <1>0, <1>10, <2>1 DEF SetTOTPSecret, Verifying, Rights, Taken
    <2> QED BY <1>1, <1>10, <2>2 DEF SetTOTPSecret
  <1>11. ASSUME NEW r \in Request, SetRole(r) \/ SetDisabled(r) \/ CreateAdmin(r)
         PROVE  Rights(active[q], EnabledAdmins, holder, passed)'
    <2>1. EndWrite(r) /\ UNCHANGED <<holder, passed>>
      BY <1>11 DEF SetRole, SetDisabled, CreateAdmin
    <2>2. CASE Taken(active'[q])
      <3>1. active'[q] = Noted(active[q]) /\ Taken(active[q])
        BY <2>1, <2>2, NotedKeeps DEF EndWrite, Taken, Typed
      <3>2. /\ \A f \in {"kind", "session", "step", "live"} : active'[q][f] = active[q][f]
            /\ active'[q].entitled = (active[q].entitled \/ StillAdmin(holder[active[q].session]))
        BY <3>1, NotedKeeps DEF Typed
      <3>3. holder[active[q].session] \in EnabledAdmins' => active'[q].entitled
        BY <3>2 DEF EnabledAdmins, EnabledAdmin, StillAdmin
      <3>4. active[q].entitled => active'[q].entitled
        BY <3>2
      <3> QED BY <1>0, <2>1, <3>1, <3>2, <3>3, <3>4 DEF Rights
    <2> QED BY <2>2 DEF Rights
  <1>12. ASSUME NEW i \in Instance, Server(i)
         PROVE  Rights(active[q], EnabledAdmins, holder, passed)'
    <2>1. CASE CreateBootstrapAdmin(i)
      <3>1. Taken(active[q]) => /\ holder[active[q].session] \in User
                                /\ Exists(holder[active[q].session])
        BY <1>0, AccountsAssumption DEF Fits, Handler, Typed, TablesOK, Issued
      <3>2. role \in [User -> Role \union {"none"}]
        BY DEF Typed, TablesOK
      <3> QED
        BY <1>0, <2>1, <3>1, <3>2
           DEF CreateBootstrapAdmin, Rights, EnabledAdmins, EnabledAdmin, Exists
    <2>2. CASE CountAtStart(i) \/ NoCredentials(i) \/ StopServer(i)
      BY <1>0, <1>1, <2>2 DEF CountAtStart, NoCredentials, StopServer
    <2> QED BY <1>12, <2>1, <2>2 DEF Server
  <1>13. ASSUME NEW s \in Session, SessionExpires(s)
         PROVE  Rights(active[q], EnabledAdmins, holder, passed)'
    BY <1>0, <1>1, <1>13 DEF SessionExpires
  <1> QED
    BY <1>4, <1>5, <1>6, <1>7, <1>8, <1>9, <1>10, <1>11, <1>12, <1>13
       DEF Next, Statement, Arrival

\* A factor that is enabled stays so until an enrollment; a login under way that
\* will ask for no code met none; and a session passes for one of three reasons.
Unasked(h) == h # Idle /\ h.kind = "login" /\ ~h.on => h.factor # "armed"

BasisInv ==
  /\ \A u \in User : factor[u] = "armed" => mfa[u]
  /\ \A r \in Request : Unasked(active[r])
  /\ \A s \in passed : basis[s] \in {"code", "new", "reset"}

LEMMA BasisStep == Typed /\ BasisInv /\ [Next]_vars => BasisInv'
  <1> USE DEF accountVars, factorVars, sessionVars, historyVars
  <1> SUFFICES ASSUME Typed, BasisInv, [Next]_vars PROVE BasisInv'
    OBVIOUS
  \* Most steps leave the factors and what has passed alone.
  <1>1. ASSUME UNCHANGED <<mfa, factor, passed, basis>>,
               \A q \in Request : Unasked(active'[q])
        PROVE  BasisInv'
    BY <1>1 DEF BasisInv
  <1>2. ASSUME NEW r \in Request, Drop(r), NEW q \in Request PROVE Unasked(active'[q])
    BY <1>2 DEF Drop, Unasked, BasisInv, Typed, RequestsOK
  <1>3. ASSUME NEW r \in Request, NEW step \in Step, MoveTo(r, step), Taken(active[r]),
               NEW q \in Request
        PROVE  Unasked(active'[q])
    <2>1. active[r] \in Handler
      BY <1>3 DEF Typed, RequestsOK, Fits
    <2>2. [active[r] EXCEPT !.step = step].kind = active[r].kind
      BY <2>1 DEF Handler
    <2> QED BY <1>3, <2>2 DEF MoveTo, Unasked, Taken, BasisInv, Typed, RequestsOK
  <1>4. CASE UNCHANGED vars
    BY <1>1, <1>4 DEF vars, BasisInv
  <1>5. ASSUME NEW r \in Request, NEW s \in Session, NEW op \in Op, ReadSession(r, s, op)
        PROVE  BasisInv'
    <2>1. ASSUME NEW q \in Request PROVE Unasked(active'[q])
      BY <1>5 DEF ReadSession, Unasked, Op, BasisInv, Typed, RequestsOK
    <2> QED BY <1>1, <1>5, <2>1 DEF ReadSession
  <1>6. ASSUME NEW r \in Request, NEW u \in User, LoginReads(r, u) PROVE BasisInv'
    <2>1. ASSUME NEW q \in Request PROVE Unasked(active'[q])
      BY <1>6 DEF LoginReads, Unasked, BasisInv, Typed, RequestsOK
    <2> QED BY <1>1, <1>6, <2>1 DEF LoginReads
  <1>7. ASSUME NEW r \in Request, ReadUser(r) PROVE BasisInv'
    <2> DEFINE h == active[r]
               u == holder[h.session]
               g == [h EXCEPT !.step = IF Removes(h) THEN "target" ELSE "write",
                              !.on = mfa[u], !.secret = secret[u]]
    <2>1. CASE Drop(r)
      BY <1>1, <1>2, <1>7, <2>1 DEF ReadUser
    <2>2. CASE active' = [active EXCEPT ![r] = g]
      <3>1. h \in Handler
        BY <1>7 DEF ReadUser, Typed, RequestsOK, Fits, Taken, Login, Handler
      <3>2. Unasked(g)
        BY <3>1 DEF Unasked, Handler
      <3>3. ASSUME NEW q \in Request PROVE Unasked(active'[q])
        BY <2>2, <3>2 DEF BasisInv, Typed, RequestsOK
      <3> QED BY <1>1, <1>7, <3>3 DEF ReadUser
    <2> QED BY <1>7, <2>1, <2>2 DEF ReadUser
  <1>8. ASSUME NEW r \in Request,
               \/ ReadTarget(r) \/ ReadTargetFails(r) \/ CountEnabledAdmins(r)
               \/ HandlerFails(r) \/ DeleteSession(r)
        PROVE  BasisInv'
    <2>1. Drop(r) \/ \E step \in Step : MoveTo(r, step) /\ Taken(active[r])
      BY <1>8 DEF ReadTarget, ReadTargetFails, CountEnabledAdmins, HandlerFails,
         DeleteSession, Working, Taken, Step
    <2>2. UNCHANGED <<mfa, factor, passed, basis>>
      BY <1>8 DEF ReadTarget, ReadTargetFails, CountEnabledAdmins, HandlerFails,
         DeleteSession
    <2> QED BY <1>1, <1>2, <1>3, <2>1, <2>2
  \* A session that asks for no code.
  <1>9. ASSUME NEW r \in Request, NEW s \in Session, CreateSession(r, s) PROVE BasisInv'
    <2> DEFINE h == active[r]
    <2>1. h \in Login /\ Unasked(h)
      BY <1>9 DEF CreateSession, Working, Typed, RequestsOK, Fits, Handler, BasisInv
    <2>2. Passes(h) => h.factor \in {"new", "reset"}
      BY <2>1, AccountsAssumption DEF Passes, Unasked, Login, Factor
    <2>3. \A t \in passed' : basis'[t] \in {"code", "new", "reset"}
      BY <1>9, <2>2 DEF CreateSession, BasisInv, Typed, TablesOK, CountersOK, Issued
    <2>4. ASSUME NEW q \in Request PROVE Unasked(active'[q])
      BY <1>2, <1>9 DEF CreateSession
    <2> QED BY <1>9, <2>3, <2>4 DEF CreateSession, BasisInv
  \* An enrollment turns the factor off.
  <1>10. ASSUME NEW r \in Request, SetTOTPSecret(r) PROVE BasisInv'
    <2> DEFINE t == active[r].target
    <2>1. t \in User
      BY <1>10 DEF SetTOTPSecret, Working, Typed, RequestsOK, Fits, Taken, Handler
    <2>2. \A u \in User : factor'[u] = "armed" => mfa'[u]
      BY <1>10, <2>1
         DEF SetTOTPSecret, WithoutFactor, BasisInv, Typed, TablesOK, CountersOK
    <2>3. ASSUME NEW q \in Request PROVE Unasked(active'[q])
      <3>1. Verifying(active[q], t) => active[q] \in Handler
        BY DEF Verifying, Typed, RequestsOK, Fits, Taken
      <3>2. active[q] \in Handler => Unasked([active[q] EXCEPT !.stale = TRUE])
        BY DEF Handler, Unasked
      <3>3. Unasked(active[q])
        BY DEF BasisInv
      <3>4. CASE q = r
        BY <1>10, <3>4 DEF SetTOTPSecret, Unasked
      <3>5. CASE q # r
        BY <1>10, <3>1, <3>2, <3>3, <3>5 DEF SetTOTPSecret
      <3> QED BY <3>4, <3>5
    <2> QED BY <1>10, <2>2, <2>3 DEF SetTOTPSecret, BasisInv
  <1>11. ASSUME NEW r \in Request, MarkSessionMFAPassed(r) PROVE BasisInv'
    <2> DEFINE h == active[r]
    <2>1. Taken(h) /\ h.session \in Session
      BY <1>11 DEF MarkSessionMFAPassed, Working, Typed, RequestsOK, Fits, Taken, Handler
    <2>2. Drop(r) \/ \E step \in Step : MoveTo(r, step)
      BY <1>11 DEF MarkSessionMFAPassed, Step
    <2>3. \A s \in passed' : basis'[s] \in {"code", "new", "reset"}
      BY <1>11, <2>1 DEF MarkSessionMFAPassed, BasisInv, Typed, TablesOK, CountersOK, Issued
    <2>4. ASSUME NEW q \in Request PROVE Unasked(active'[q])
      BY <1>2, <1>3, <2>1, <2>2
    <2> QED BY <1>11, <2>3, <2>4 DEF MarkSessionMFAPassed, BasisInv
  <1>12. ASSUME NEW r \in Request, EnableMFA(r) PROVE BasisInv'
    <2>1. \A u \in User : factor'[u] = "armed" => mfa'[u]
      BY <1>12 DEF EnableMFA, BasisInv, Typed, TablesOK, CountersOK
    <2>2. ASSUME NEW q \in Request PROVE Unasked(active'[q])
      BY <1>2, <1>12 DEF EnableMFA
    <2> QED BY <1>12, <2>1, <2>2 DEF EnableMFA, BasisInv
  <1>13. ASSUME NEW r \in Request, SetRole(r) \/ SetDisabled(r) \/ CreateAdmin(r)
         PROVE  BasisInv'
    <2>1. ASSUME NEW q \in Request PROVE Unasked(active'[q])
      <3>1. Unasked(active[q])
        BY DEF BasisInv
      <3>2. active'[q] = Idle \/ active'[q] = Noted(active[q])
        BY <1>13 DEF SetRole, SetDisabled, CreateAdmin, EndWrite
      <3>3. Taken(Noted(active[q])) \/ Noted(active[q]) = active[q]
        BY NotedKeeps DEF Typed
      <3> QED BY <3>1, <3>2, <3>3 DEF Unasked, Taken
    <2> QED BY <1>1, <1>13, <2>1 DEF SetRole, SetDisabled, CreateAdmin
  <1>14. ASSUME NEW i \in Instance, Server(i) PROVE BasisInv'
    BY <1>1, <1>14 DEF Server, CreateBootstrapAdmin, CountAtStart, NoCredentials, StopServer,
       BasisInv
  <1>15. ASSUME NEW s \in Session, SessionExpires(s) PROVE BasisInv'
    BY <1>1, <1>15 DEF SessionExpires, BasisInv
  <1> QED
    BY <1>4, <1>5, <1>6, <1>7, <1>8, <1>9, <1>10, <1>11, <1>12, <1>13, <1>14, <1>15
       DEF Next, Statement, Arrival

(* Whoever manages accounts was an enabled administrator, with an open     *)
(* session, while the request was handled; and the session has shown a     *)
(* code, unless its login met a factor that was never enabled or that an   *)
(* enrollment had turned off.                                              *)
THEOREM Entitled == Spec => []ActedWasEntitled
  <1>1. Init => RightsInv /\ BasisInv
    BY DEF Init, RightsInv, Rights, Taken, BasisInv, Unasked
  <1>2. RightsInv /\ BasisInv => ActedWasEntitled
    BY DEF RightsInv, Rights, BasisInv, ActedWasEntitled, Taken, NeedsAdmin, NeedsMFA
  <1> QED BY <1>1, <1>2, AlwaysTyped, RightsStep, BasisStep, PTL DEF Spec

-----------------------------------------------------------------------------
(* The last administrator *)

\* A guard that has let a removal pass, on readings that still hold.
Guards(h, admins) ==
  Taken(h) /\ h.step = "write" /\ Removes(h) /\ ~h.stale =>
    \E u \in admins : u # h.target

Untouched == ~raced /\ faults = 0

GuardInv ==
  Untouched => /\ NoAccounts \/ EnabledAdmins # {}
               /\ \A r \in Request : Guards(active[r], EnabledAdmins)

\* A count above one leaves an administrator beside any given one.
LEMMA AnotherAdmin ==
  ASSUME NEW u, ~RefusesLast
  PROVE  \E v \in EnabledAdmins : v # u
  <1> SUFFICES ASSUME EnabledAdmins \subseteq {u} PROVE FALSE
    OBVIOUS
  <1>1. IsFiniteSet({u}) /\ Cardinality({u}) = 1
    BY FS_Singleton
  <1>2. IsFiniteSet(EnabledAdmins) /\ Cardinality(EnabledAdmins) <= 1
    BY <1>1, FS_Subset
  <1> QED BY <1>2 DEF RefusesLast

LEMMA GuardStep == Typed /\ GuardInv /\ [Next]_vars => GuardInv'
  <1> USE DEF accountVars, factorVars, sessionVars, historyVars
  <1> SUFFICES ASSUME Typed, GuardInv, [Next]_vars, Untouched'
               PROVE  /\ (NoAccounts \/ EnabledAdmins # {})'
                      /\ \A q \in Request : Guards(active[q], EnabledAdmins)'
    BY DEF GuardInv
  <1> DEFINE Goal == /\ (NoAccounts \/ EnabledAdmins # {})'
                     /\ \A q \in Request : Guards(active[q], EnabledAdmins)'
  \* Steps that leave the accounts alone, and the guards.
  <1>1. ASSUME UNCHANGED <<accountVars, raced, faults>>,
               \A q \in Request : Untouched => Guards(active'[q], EnabledAdmins)
        PROVE  Goal
    BY <1>1 DEF GuardInv, Untouched, NoAccounts, Exists, EnabledAdmins, EnabledAdmin, Guards
  <1>2. ASSUME NEW r \in Request, Drop(r), Untouched, NEW q \in Request
        PROVE  Guards(active'[q], EnabledAdmins)
    BY <1>2 DEF Drop, Guards, Taken, GuardInv, Typed, RequestsOK
  <1>3. ASSUME NEW r \in Request, NEW step \in {"count", "enable"}, MoveTo(r, step),
               Taken(active[r]), active[r].step # "session", Untouched, NEW q \in Request
        PROVE  Guards(active'[q], EnabledAdmins)
    BY <1>3 DEF MoveTo, Guards, Taken, GuardInv, Typed, RequestsOK, Fits, Handler
  <1>4. CASE UNCHANGED vars
    BY <1>1, <1>4 DEF vars, GuardInv
  <1>5. ASSUME NEW r \in Request, NEW s \in Session, NEW op \in Op, ReadSession(r, s, op)
        PROVE  Goal
    <2>1. ASSUME NEW q \in Request, Untouched PROVE Guards(active'[q], EnabledAdmins)
      BY <1>5, <2>1 DEF ReadSession, Guards, GuardInv, Typed, RequestsOK
    <2> QED BY <1>1, <1>5, <2>1 DEF ReadSession
  <1>6. ASSUME NEW r \in Request, NEW u \in User, LoginReads(r, u)
        PROVE  Goal
    <2>1. ASSUME NEW q \in Request, Untouched PROVE Guards(active'[q], EnabledAdmins)
      BY <1>6, <2>1 DEF LoginReads, Guards, Taken, GuardInv, Typed, RequestsOK
    <2> QED BY <1>1, <1>6, <2>1 DEF LoginReads
  <1>7. ASSUME NEW r \in Request, ReadUser(r) PROVE Goal
    <2> DEFINE h == active[r]
               u == holder[h.session]
               g == [h EXCEPT !.step = IF Removes(h) THEN "target" ELSE "write",
                              !.on = mfa[u], !.secret = secret[u]]
    <2>1. CASE Drop(r)
      BY <1>1, <1>2, <1>7, <2>1 DEF ReadUser
    <2>2. CASE active' = [active EXCEPT ![r] = g]
      <3>1. h \in Handler
        BY <1>7 DEF ReadUser, Typed, RequestsOK, Fits, Taken, Login, Handler
      <3>2. /\ g.kind = h.kind /\ g.value = h.value
            /\ g.step = IF Removes(h) THEN "target" ELSE "write"
        BY <3>1 DEF Handler
      <3>3. Guards(g, EnabledAdmins)
        BY <3>2 DEF Guards, Removes
      <3>4. ASSUME NEW q \in Request, Untouched PROVE Guards(active'[q], EnabledAdmins)
        BY <2>2, <3>3, <3>4 DEF GuardInv, Typed, RequestsOK
      <3> QED BY <1>1, <1>7, <3>4 DEF ReadUser
    <2> QED BY <1>7, <2>1, <2>2 DEF ReadUser
  \* A guard passes: the target is not an enabled administrator, or not the only one.
  <1>8. ASSUME NEW r \in Request, ReadTarget(r) \/ CountEnabledAdmins(r) PROVE Goal
    <2> DEFINE h == active[r]
               g == [h EXCEPT !.step = "write"]
    <2>1. /\ Taken(h) /\ h \in Handler /\ h.step # "session"
          /\ h.kind \in {"role", "disable"} /\ Exists(holder[h.session])
          /\ holder[h.session] \in User
      BY <1>8, AccountsAssumption
         DEF ReadTarget, CountEnabledAdmins, Working, Taken, Typed, RequestsOK, Fits,
             TablesOK, Issued, Handler
    <2>2. CASE Drop(r) \/ MoveTo(r, "count")
      BY <1>1, <1>2, <1>3, <1>8, <2>1, <2>2 DEF ReadTarget, CountEnabledAdmins
    <2>3. CASE MoveTo(r, "write")
      <3>1. ASSUME Untouched PROVE \E v \in EnabledAdmins : v # h.target
        <4>1. CASE CountEnabledAdmins(r) /\ ~RefusesLast
          BY <4>1, AnotherAdmin
        <4>2. CASE ReadTarget(r) /\ ~CountNeeded(h)
          <5>1. h.target \notin EnabledAdmins
            BY <2>1, <4>2 DEF CountNeeded, EnabledAdmins, EnabledAdmin
          <5>2. EnabledAdmins # {}
            BY <2>1, <3>1 DEF GuardInv, NoAccounts
          <5> QED BY <5>1, <5>2
        <4>3. CASE ReadTarget(r) /\ CountNeeded(h)
          <5>1. active'[r].step = "count" /\ active'[r].step = "write"
            BY <2>1, <2>3, <4>3 DEF ReadTarget, MoveTo, Handler, Typed, RequestsOK
          <5> QED BY <5>1
        <4>4. CASE CountEnabledAdmins(r) /\ RefusesLast
          <5>1. active'[r] = Idle /\ active'[r] = g
            BY <2>3, <4>4 DEF CountEnabledAdmins, MoveTo, Drop, Typed, RequestsOK
          <5>2. g \in Handler
            BY <2>1 DEF Handler, Step
          <5> QED BY <5>1, <5>2, AccountsAssumption
        <4> QED BY <1>8, <4>1, <4>2, <4>3, <4>4
      <3>2. g.target = h.target
        BY <2>1 DEF Handler
      <3>3. ASSUME NEW q \in Request, Untouched PROVE Guards(active'[q], EnabledAdmins)
        BY <2>3, <3>1, <3>2, <3>3 DEF MoveTo, Guards, GuardInv, Typed, RequestsOK
      <3> QED BY <1>1, <1>8, <3>3 DEF ReadTarget, CountEnabledAdmins
    <2> QED BY <1>8, <2>2, <2>3 DEF ReadTarget, CountEnabledAdmins
  <1>9. ASSUME NEW r \in Request, ReadTargetFails(r) \/ HandlerFails(r) PROVE Goal
    BY <1>9 DEF ReadTargetFails, HandlerFails, Untouched, Typed, CountersOK
  <1>10. ASSUME NEW r \in Request,
                \/ DeleteSession(r) \/ EnableMFA(r) \/ MarkSessionMFAPassed(r)
                \/ \E s \in Session : CreateSession(r, s)
         PROVE Goal
    <2>1. Drop(r) \/ (/\ MoveTo(r, "enable") /\ Taken(active[r])
                      /\ active[r].step # "session")
      BY <1>10 DEF CreateSession, DeleteSession, EnableMFA, MarkSessionMFAPassed, Working, Taken
    <2>2. UNCHANGED <<accountVars, raced, faults>>
      BY <1>10 DEF CreateSession, DeleteSession, EnableMFA, MarkSessionMFAPassed
    <2> QED BY <1>1, <1>2, <1>3, <2>1, <2>2
  <1>11. ASSUME NEW r \in Request, SetTOTPSecret(r) PROVE Goal
    <2>1. ASSUME NEW q \in Request, Untouched PROVE Guards(active'[q], EnabledAdmins)
      <3>1. Guards(active[q], EnabledAdmins) /\ Fits(active[q], holder, Rows)
        BY <2>1 DEF GuardInv, Typed, RequestsOK
      <3>2. Taken(active[q]) => Guards([active[q] EXCEPT !.stale = TRUE], EnabledAdmins)
        BY <3>1 DEF Guards, Taken, Fits, Handler
      <3> QED BY <1>11, <3>1, <3>2 DEF SetTOTPSecret, Verifying, Guards, Taken
    <2> QED BY <1>1, <1>11, <2>1 DEF SetTOTPSecret
  <1>12. ASSUME NEW r \in Request, SetRole(r) \/ SetDisabled(r) \/ CreateAdmin(r)
         PROVE  Goal
    <2> DEFINE h == active[r]
    <2>1. Taken(h) /\ h \in Handler /\ Fits(h, holder, Rows) /\ h.step = "write"
      BY <1>12 DEF SetRole, SetDisabled, CreateAdmin, Working, Taken, Typed, RequestsOK, Fits
    <2>2. Untouched /\ (Removes(h) => ~h.stale)
      <3>1. faults = 0 /\ raced = FALSE /\ (Removes(h) /\ h.kind # "create" => ~h.stale)
        BY <1>12 DEF SetRole, SetDisabled, CreateAdmin, Working, Untouched, Typed, CountersOK
      <3>2. h.kind = "create" => ~Removes(h)
        BY <2>1 DEF Removes, Fits, Role
      <3> QED BY <3>1, <3>2 DEF Untouched
    <2>3. EnabledAdmins # {}
      <3>1. ~NoAccounts
        BY <2>1, AccountsAssumption DEF Fits, Handler, Typed, TablesOK, Issued, NoAccounts
      <3> QED BY <2>2, <3>1 DEF GuardInv
    <2>4. ASSUME NEW u \in EnabledAdmins, u # h.target \/ ~Removes(h)
          PROVE  u \in EnabledAdmins'
      BY <1>12, <2>1, <2>4
         DEF SetRole, SetDisabled, CreateAdmin, Working, Removes, EnabledAdmins,
             EnabledAdmin, Exists, Typed, TablesOK, Fits
    <2>5. EnabledAdmins' # {}
      <3>1. CASE Removes(h)
        BY <2>1, <2>2, <2>4, <3>1 DEF GuardInv, Guards
      <3>2. CASE ~Removes(h)
        BY <2>3, <2>4, <3>2
      <3> QED BY <3>1, <3>2
    <2>6. ASSUME NEW q \in Request PROVE Guards(active'[q], EnabledAdmins')
      <3> DEFINE a == active[q]
                 g == active'[q]
      <3> SUFFICES ASSUME Taken(g), g.step = "write", Removes(g), ~g.stale
                   PROVE  \E u \in EnabledAdmins' : u # g.target
        BY DEF Guards
      <3>1. g = Noted(a) /\ Taken(a)
        BY <1>12, NotedKeeps DEF SetRole, SetDisabled, CreateAdmin, EndWrite, Taken, Typed
      <3>2. /\ \A f \in {"kind", "target", "value", "step"} : g[f] = a[f]
            /\ g.stale = (a.stale \/
                   (/\ a.kind \in {"role", "disable"} /\ a.step \in {"count", "write"}
                    /\ \E u \in User : EnabledAdmin(u) /\ ~StillAdmin(u)))
        BY <3>1, NotedKeeps DEF Typed
      <3>3. Removes(a) /\ a.step = "write" /\ a.kind \in {"role", "disable"}
        <4>1. Fits(a, holder, Rows)
          BY DEF Typed, RequestsOK
        <4> QED BY <3>1, <3>2, <4>1 DEF Removes, Fits, Handler, Role, Taken
      <3>4. ~a.stale /\ \A u \in User : EnabledAdmin(u) => StillAdmin(u)
        BY <3>2, <3>3
      <3>5. PICK u \in EnabledAdmins : u # a.target
        BY <2>2, <3>1, <3>3, <3>4 DEF GuardInv, Guards
      <3>6. u \in EnabledAdmins'
        BY <3>4, <3>5 DEF EnabledAdmins, EnabledAdmin, StillAdmin
      <3> QED BY <3>2, <3>5, <3>6
    <2> QED BY <2>5, <2>6
  <1>13. ASSUME NEW i \in Instance, Server(i) PROVE Goal
    <2>1. CASE CreateBootstrapAdmin(i)
      <3>1. Untouched
        BY <2>1 DEF CreateBootstrapAdmin, Untouched
      <3>2. \A u \in EnabledAdmins : u \in EnabledAdmins'
        BY <2>1 DEF CreateBootstrapAdmin, EnabledAdmins, EnabledAdmin, Typed, TablesOK
      <3>3. Exists(FirstAdmin) \/ FirstAdmin \in EnabledAdmins'
        BY <2>1, AccountsAssumption
           DEF CreateBootstrapAdmin, EnabledAdmins, EnabledAdmin, Typed, TablesOK, Exists
      <3>4. Exists(FirstAdmin) => ~NoAccounts
        BY AccountsAssumption DEF NoAccounts
      <3> QED
        BY <2>1, <3>1, <3>2, <3>3, <3>4 DEF CreateBootstrapAdmin, GuardInv, Guards
    <2>2. CASE CountAtStart(i) \/ NoCredentials(i) \/ StopServer(i)
      BY <1>1, <2>2 DEF CountAtStart, NoCredentials, StopServer, GuardInv
    <2> QED BY <1>13, <2>1, <2>2 DEF Server
  <1>14. ASSUME NEW s \in Session, SessionExpires(s) PROVE Goal
    BY <1>1, <1>14 DEF SessionExpires, GuardInv
  <1> QED
    BY <1>4, <1>5, <1>6, <1>7, <1>8, <1>9, <1>10, <1>11, <1>12, <1>13, <1>14
       DEF Next, Statement, Arrival

(* Once there is an account there is an enabled administrator, unless two  *)
(* guarded requests overlapped or a reading failed.                        *)
THEOREM AnAdminRemains == Spec => []AdminRemains
  <1>1. Init => GuardInv
    BY DEF Init, GuardInv, Guards, Taken, NoAccounts, Exists
  <1>2. GuardInv => AdminRemains
    BY DEF GuardInv, Untouched, AdminRemains
  <1> QED BY <1>1, <1>2, AlwaysTyped, GuardStep, PTL DEF Spec

-----------------------------------------------------------------------------
(* The second factor *)

\* A verification that is not stale holds the secret that is stored.
Current(h, sec, prov) ==
  Taken(h) /\ h.kind = "verify" /\ h.step \in {"write", "enable"} /\ ~h.stale =>
    sec[h.target] = h.secret /\ (h.step = "enable" => h.secret \in prov)

FactorInv ==
  EnabledIsProven /\ \A r \in Request : Current(active[r], secret, proven)

LEMMA FactorStep == Typed /\ FactorInv /\ [Next]_vars => FactorInv'
  <1> USE DEF accountVars, factorVars, sessionVars, historyVars
  <1> SUFFICES ASSUME Typed, FactorInv, [Next]_vars PROVE FactorInv'
    OBVIOUS
  \* Most steps leave the second factors alone.
  <1>1. ASSUME UNCHANGED <<mfa, secret, proven, mixed>>,
               \A q \in Request : Current(active'[q], secret, proven)
        PROVE  FactorInv'
    BY <1>1 DEF FactorInv, EnabledIsProven
  <1>2. ASSUME NEW r \in Request, Drop(r), NEW q \in Request
        PROVE  Current(active'[q], secret, proven)
    BY <1>2 DEF Drop, Current, Taken, FactorInv, Typed, RequestsOK
  <1>3. ASSUME NEW r \in Request, NEW step \in {"count", "write"}, MoveTo(r, step),
               Taken(active[r]), active[r].kind # "verify", NEW q \in Request
        PROVE  Current(active'[q], secret, proven)
    BY <1>3 DEF MoveTo, Current, Taken, FactorInv, Typed, RequestsOK, Fits, Handler
  <1>4. CASE UNCHANGED vars
    BY <1>1, <1>4 DEF vars, FactorInv
  <1>5. ASSUME NEW r \in Request, NEW s \in Session, NEW op \in Op, ReadSession(r, s, op)
        PROVE  FactorInv'
    <2>1. ASSUME NEW q \in Request PROVE Current(active'[q], secret, proven)
      BY <1>5, <2>1 DEF ReadSession, Current, FactorInv, Typed, RequestsOK
    <2> QED BY <1>1, <1>5, <2>1 DEF ReadSession
  <1>6. ASSUME NEW r \in Request, NEW u \in User, LoginReads(r, u)
        PROVE  FactorInv'
    <2>1. ASSUME NEW q \in Request PROVE Current(active'[q], secret, proven)
      BY <1>6, <2>1 DEF LoginReads, Current, Taken, FactorInv, Typed, RequestsOK
    <2> QED BY <1>1, <1>6, <2>1 DEF LoginReads
  <1>7. ASSUME NEW r \in Request, ReadUser(r) PROVE FactorInv'
    <2> DEFINE h == active[r]
               u == holder[h.session]
               g == [h EXCEPT !.step = IF Removes(h) THEN "target" ELSE "write",
                              !.on = mfa[u], !.secret = secret[u]]
    <2>1. CASE Drop(r)
      BY <1>1, <1>2, <1>7, <2>1 DEF ReadUser
    <2>2. CASE active' = [active EXCEPT ![r] = g]
      <3>1. h \in Handler /\ Fits(h, holder, Rows) /\ Taken(h)
        BY <1>7 DEF ReadUser, Typed, RequestsOK, Fits, Taken, Login, Handler
      <3>2. /\ g.kind = h.kind /\ g.target = h.target /\ g.secret = secret[u]
            /\ g.step = IF Removes(h) THEN "target" ELSE "write"
        BY <3>1 DEF Handler
      <3>3. Current(g, secret, proven)
        BY <3>1, <3>2 DEF Current, Fits
      <3>4. ASSUME NEW q \in Request PROVE Current(active'[q], secret, proven)
        BY <2>2, <3>3, <3>4 DEF FactorInv, Typed, RequestsOK
      <3> QED BY <1>1, <1>7, <3>4 DEF ReadUser
    <2> QED BY <1>7, <2>1, <2>2 DEF ReadUser
  <1>8. ASSUME NEW r \in Request,
               \/ ReadTarget(r) \/ ReadTargetFails(r) \/ CountEnabledAdmins(r)
               \/ HandlerFails(r) \/ DeleteSession(r)
               \/ \E s \in Session : CreateSession(r, s)
        PROVE  FactorInv'
    <2>1. Drop(r) \/ (/\ MoveTo(r, "count") \/ MoveTo(r, "write")
                      /\ Taken(active[r]) /\ active[r].kind # "verify")
      BY <1>8 DEF ReadTarget, ReadTargetFails, CountEnabledAdmins, HandlerFails,
         DeleteSession, CreateSession, Working, Taken
    <2>2. UNCHANGED <<mfa, secret, proven, mixed>>
      BY <1>8 DEF ReadTarget, ReadTargetFails, CountEnabledAdmins, HandlerFails,
         DeleteSession, CreateSession
    <2> QED BY <1>1, <1>2, <1>3, <2>1, <2>2
  <1>9. ASSUME NEW r \in Request, SetTOTPSecret(r) PROVE FactorInv'
    <2> DEFINE t == active[r].target
    <2>1. t \in User
      BY <1>9 DEF SetTOTPSecret, Working, Typed, RequestsOK, Fits, Taken, Handler
    <2>2. EnabledIsProven'
      BY <1>9, <2>1 DEF SetTOTPSecret, WithoutFactor, FactorInv, EnabledIsProven, Typed, TablesOK
    <2>3. ASSUME NEW q \in Request PROVE Current(active'[q], secret', proven)
      <3> DEFINE a == active[q]
      <3>1. Current(a, secret, proven) /\ Fits(a, holder, Rows)
        BY DEF FactorInv, Typed, RequestsOK
      <3>2. CASE q = r
        BY <1>9, <3>2 DEF SetTOTPSecret, Current, Taken
      <3>3. CASE q # r /\ Verifying(a, t)
        <4>1. a \in Handler
          BY <3>1, <3>3 DEF Verifying, Fits, Taken
        <4>2. active'[q] = [a EXCEPT !.stale = TRUE]
          BY <1>9, <3>3 DEF SetTOTPSecret
        <4>3. active'[q].stale
          BY <4>1, <4>2 DEF Handler
        <4> QED BY <4>3 DEF Current
      <3>4. CASE q # r /\ ~Verifying(a, t)
        <4>1. active'[q] = a
          BY <1>9, <3>4 DEF SetTOTPSecret
        <4>2. Taken(a) /\ a.kind = "verify" /\ a.step \in {"write", "enable"}
              => a.target \in User /\ a.target # t
          BY <3>1, <3>4 DEF Verifying, Fits, Taken, Handler
        <4>3. secret' = [secret EXCEPT ![t] = minted + 1]
          BY <1>9 DEF SetTOTPSecret
        <4> QED BY <3>1, <4>1, <4>2, <4>3 DEF Current, Typed, TablesOK
      <3> QED BY <3>2, <3>3, <3>4
    <2> QED BY <1>9, <2>2, <2>3 DEF SetTOTPSecret, FactorInv
  <1>10. ASSUME NEW r \in Request, MarkSessionMFAPassed(r) PROVE FactorInv'
    <2> DEFINE h == active[r]
    <2>1. /\ h \in Handler /\ Taken(h) /\ h.kind = "verify" /\ h.step = "write"
          /\ proven' = proven \union {h.secret}
      BY <1>10 DEF MarkSessionMFAPassed, Working, Typed, RequestsOK, Fits, Taken
    <2>2. EnabledIsProven'
      BY <1>10, <2>1 DEF MarkSessionMFAPassed, FactorInv, EnabledIsProven
    <2>3. ASSUME NEW q \in Request PROVE Current(active'[q], secret, proven')
      <3>1. Current(active[q], secret, proven) /\ Current(h, secret, proven)
        BY DEF FactorInv
      <3>2. CASE Drop(r)
        BY <2>1, <3>1, <3>2 DEF Drop, Current, Taken, Typed, RequestsOK
      <3>3. CASE MoveTo(r, "enable")
        <4> DEFINE g == [h EXCEPT !.step = "enable"]
        <4>1. /\ g.target = h.target /\ g.secret = h.secret /\ g.stale = h.stale
              /\ g.kind = h.kind
          BY <2>1 DEF Handler
        <4>2. Current(g, secret, proven')
          BY <2>1, <3>1, <4>1 DEF Current
        <4> QED BY <2>1, <3>1, <3>3, <4>2 DEF MoveTo, Current, Typed, RequestsOK
      <3> QED BY <1>10, <3>2, <3>3 DEF MarkSessionMFAPassed
    <2> QED BY <1>10, <2>2, <2>3 DEF MarkSessionMFAPassed, FactorInv
  <1>11. ASSUME NEW r \in Request, EnableMFA(r) PROVE FactorInv'
    <2> DEFINE h == active[r]
               u == h.target
    <2>1. /\ h \in Handler /\ Taken(h) /\ h.kind = "verify" /\ h.step = "enable"
          /\ u \in User
      BY <1>11 DEF EnableMFA, Working, Typed, RequestsOK, Fits, Taken, Handler
    <2>2. h.stale \/ secret[u] \in proven
      BY <2>1 DEF FactorInv, Current
    <2>3. EnabledIsProven'
      BY <1>11, <2>1, <2>2 DEF EnableMFA, FactorInv, EnabledIsProven, Typed, TablesOK
    <2>4. ASSUME NEW q \in Request PROVE Current(active'[q], secret, proven)
      BY <1>2, <1>11 DEF EnableMFA
    <2> QED BY <1>11, <2>3, <2>4 DEF EnableMFA, FactorInv
  <1>12. ASSUME NEW r \in Request, SetRole(r) \/ SetDisabled(r) \/ CreateAdmin(r)
         PROVE  FactorInv'
    <2>1. ASSUME NEW q \in Request PROVE Current(active'[q], secret, proven)
      <3> DEFINE a == active[q]
                 g == active'[q]
      <3>1. CASE Taken(g)
        <4>1. g = Noted(a) /\ Taken(a)
          BY <1>12, <3>1, NotedKeeps
             DEF SetRole, SetDisabled, CreateAdmin, EndWrite, Taken, Typed
        <4>2. \A f \in {"kind", "target", "step", "secret"} : g[f] = a[f]
          BY <4>1, NotedKeeps DEF Typed
        <4>3. g.stale = (a.stale \/
                (/\ a.kind \in {"role", "disable"} /\ a.step \in {"count", "write"}
                 /\ \E u \in User : EnabledAdmin(u) /\ ~StillAdmin(u)))
          BY <4>1, NotedKeeps DEF Typed
        <4> QED BY <4>1, <4>2, <4>3 DEF FactorInv, Current
      <3> QED BY <3>1 DEF Current
    <2> QED BY <1>1, <1>12, <2>1 DEF SetRole, SetDisabled, CreateAdmin
  <1>13. ASSUME NEW i \in Instance, Server(i) PROVE FactorInv'
    BY <1>1, <1>13 DEF Server, CreateBootstrapAdmin, CountAtStart, NoCredentials, StopServer,
       FactorInv
  <1>14. ASSUME NEW s \in Session, SessionExpires(s) PROVE FactorInv'
    BY <1>1, <1>14 DEF SessionExpires, FactorInv
  <1> QED
    BY <1>4, <1>5, <1>6, <1>7, <1>8, <1>9, <1>10, <1>11, <1>12, <1>13, <1>14
       DEF Next, Statement, Arrival

(* A second factor that is enabled has been proven with a code of the very *)
(* secret that is stored, unless the user enrolled again while a code of   *)
(* the previous one was being verified.                                    *)
THEOREM FactorsAreProven == Spec => []EnabledIsProven
  <1>1. Init => FactorInv
    BY DEF Init, FactorInv, EnabledIsProven, Current, Taken
  <1>2. FactorInv => EnabledIsProven
    BY DEF FactorInv
  <1> QED BY <1>1, <1>2, AlwaysTyped, FactorStep, PTL DEF Spec

-----------------------------------------------------------------------------
(* Locked out *)

LEMMA LockedStep == Typed /\ LockedOut /\ [Next]_vars => LockedOut'
  <1> USE DEF accountVars, factorVars, sessionVars, historyVars
  <1> SUFFICES ASSUME Typed, LockedOut, [Next]_vars PROVE LockedOut'
    OBVIOUS
  <1> DEFINE Waits(h) == h # Idle /\ NeedsAdmin(h.kind) => h.step = "session"
  <1>1. ASSUME UNCHANGED accountVars, \A q \in Request : Waits(active'[q])
        PROVE  LockedOut'
    BY <1>1 DEF LockedOut, NoAccounts, Exists, EnabledAdmins, EnabledAdmin
  <1>2. \A q \in Request : Waits(active[q])
    BY DEF LockedOut
  <1>3. ASSUME NEW r \in Request, Drop(r), NEW q \in Request PROVE Waits(active'[q])
    BY <1>2, <1>3 DEF Drop, Typed, RequestsOK
  <1>4. CASE UNCHANGED vars
    BY <1>1, <1>2, <1>4 DEF vars
  <1>5. ASSUME NEW r \in Request, NEW s \in Session, NEW op \in Op, ReadSession(r, s, op)
        PROVE  LockedOut'
    <2>1. ASSUME NEW q \in Request PROVE Waits(active'[q])
      BY <1>2, <1>5 DEF ReadSession, Typed, RequestsOK
    <2> QED BY <1>1, <1>5, <2>1 DEF ReadSession
  <1>6. ASSUME NEW r \in Request, NEW u \in User, LoginReads(r, u) PROVE LockedOut'
    <2>1. ASSUME NEW q \in Request PROVE Waits(active'[q])
      BY <1>2, <1>6 DEF LoginReads, Typed, RequestsOK, NeedsAdmin
    <2> QED BY <1>1, <1>6, <2>1 DEF LoginReads
  \* Nobody is admitted to manage accounts.
  <1>7. ASSUME NEW r \in Request, ReadUser(r) PROVE LockedOut'
    <2> DEFINE h == active[r]
               u == holder[h.session]
               g == [h EXCEPT !.step = IF Removes(h) THEN "target" ELSE "write",
                              !.on = mfa[u], !.secret = secret[u]]
    <2>1. CASE Drop(r)
      BY <1>1, <1>3, <1>7, <2>1 DEF ReadUser
    <2>2. CASE Admitted(u, h.kind) /\ active' = [active EXCEPT ![r] = g]
      <3>1. h \in Handler /\ u \in User
        BY <1>7 DEF ReadUser, Typed, RequestsOK, Fits, Taken, Login, Handler
      <3>2. ~NeedsAdmin(h.kind)
        BY <2>2, <3>1 DEF Admitted, NeedsAdmin, LockedOut, EnabledAdmins, EnabledAdmin
      <3>3. Waits(g)
        BY <3>1, <3>2 DEF Handler
      <3>4. ASSUME NEW q \in Request PROVE Waits(active'[q])
        BY <1>2, <2>2, <3>3 DEF Typed, RequestsOK
      <3> QED BY <1>1, <1>7, <3>4 DEF ReadUser
    <2> QED BY <1>7, <2>1, <2>2 DEF ReadUser
  <1>8. ASSUME NEW r \in Request,
               \/ HandlerFails(r) \/ DeleteSession(r) \/ EnableMFA(r)
               \/ \E s \in Session : CreateSession(r, s)
        PROVE  LockedOut'
    BY <1>1, <1>3, <1>8 DEF HandlerFails, DeleteSession, EnableMFA, CreateSession
  <1>9. ASSUME NEW r \in Request, MarkSessionMFAPassed(r) PROVE LockedOut'
    <2>1. CASE Drop(r)
      BY <1>1, <1>3, <1>9, <2>1 DEF MarkSessionMFAPassed
    <2>2. CASE MoveTo(r, "enable")
      <3>1. active[r] \in Handler /\ active[r].kind = "verify"
        BY <1>9 DEF MarkSessionMFAPassed, Working, Typed, RequestsOK, Fits, Taken
      <3>2. Waits([active[r] EXCEPT !.step = "enable"])
        BY <3>1 DEF Handler, NeedsAdmin
      <3>3. ASSUME NEW q \in Request PROVE Waits(active'[q])
        BY <1>2, <2>2, <3>2 DEF MoveTo, Typed, RequestsOK
      <3> QED BY <1>1, <1>9, <3>3 DEF MarkSessionMFAPassed
    <2> QED BY <1>9, <2>1, <2>2 DEF MarkSessionMFAPassed
  <1>10. ASSUME NEW r \in Request, SetTOTPSecret(r) PROVE LockedOut'
    <2>1. ASSUME NEW q \in Request PROVE Waits(active'[q])
      <3>1. Verifying(active[q], active[r].target)
              => active[q] \in Handler /\ active[q].kind = "verify"
        BY DEF Verifying, Typed, RequestsOK, Fits, Taken
      <3>2. active[q] \in Handler /\ active[q].kind = "verify"
              => Waits([active[q] EXCEPT !.stale = TRUE])
        BY DEF Handler, NeedsAdmin
      <3> QED BY <1>2, <1>10, <3>1, <3>2 DEF SetTOTPSecret
    <2> QED BY <1>1, <1>10, <2>1 DEF SetTOTPSecret
  \* A request that manages accounts is not past its authorisation.
  <1>11. ASSUME NEW r \in Request,
                \/ ReadTarget(r) \/ ReadTargetFails(r) \/ CountEnabledAdmins(r)
                \/ SetRole(r) \/ SetDisabled(r) \/ CreateAdmin(r)
         PROVE  FALSE
    BY <1>2, <1>11 DEF ReadTarget, ReadTargetFails, CountEnabledAdmins, SetRole,
       SetDisabled, CreateAdmin, Working, NeedsAdmin
  \* The bootstrap account exists already.
  <1>12. ASSUME NEW i \in Instance, Server(i) PROVE LockedOut'
    <2>1. Exists(FirstAdmin)
      BY DEF LockedOut, Typed, TablesOK
    <2> QED
      BY <1>1, <1>2, <1>12, <2>1
         DEF Server, CreateBootstrapAdmin, CountAtStart, NoCredentials, StopServer
  <1>13. ASSUME NEW s \in Session, SessionExpires(s) PROVE LockedOut'
    BY <1>1, <1>2, <1>13 DEF SessionExpires
  <1> QED
    BY <1>4, <1>5, <1>6, <1>7, <1>8, <1>9, <1>10, <1>11, <1>12, <1>13
       DEF Next, Statement, Arrival

(* Without an enabled administrator and without a request past its         *)
(* authorisation nothing brings an administrator back: no login, no open   *)
(* session, no server that starts (bootstrapAdmin counts any account).     *)
THEOREM LockedOutForGood == Spec => LockOutIsFinal
  <1>1. Typed /\ [Next]_vars => [LockedOut => LockedOut']_vars
    BY LockedStep
  <1> QED BY <1>1, AlwaysTyped, PTL DEF Spec, LockOutIsFinal
=============================================================================
