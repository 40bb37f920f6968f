------------------------------- MODULE Accounts -------------------------------
(***************************************************************************)
(* Administrator accounts, sessions and the second factor: the server's    *)
(* middleware (server/internal/api/middleware.go), the handlers behind it  *)
(* (handlers_users.go, handlers_auth.go), their statements                 *)
(* (server/internal/store/users.go) and the account a server creates when  *)
(* it starts (server/cmd/server/main.go).                                  *)
(*                                                                         *)
(* A request is one SQL statement per step. Requests run at the same time, *)
(* in any number of server instances over one database, without any        *)
(* transaction around the statements of one handler.                       *)
(***************************************************************************)
EXTENDS Naturals, FiniteSets

CONSTANTS
  User,         \* e-mail addresses
  FirstAdmin,   \* SC_BOOTSTRAP_ADMIN_EMAIL
  Session,      \* session tokens: random, so never handed out twice
  Request,      \* places for requests being handled at the same time
  Instance,     \* server processes
  Idle, Nobody, \* no request in this place; no user
  MaxRequests,  \* bound: requests made
  MaxSecrets,   \* bound: TOTP secrets generated
  MaxFaults     \* bound: statements that fail, handlers cut short

Role   == {"admin", "auditor", "viewer"}
Secret == 1..MaxSecrets

\* What requests ask for. A "self" request is about the user of its session.
Op ==
  [kind : {"create", "role"}, target : User, value : Role]
    \union [kind : {"disable"}, target : User, value : {"disabled", "enabled"}]
    \union [kind : {"enroll", "verify", "logout"}, target : User, value : {"self"}]

Step == {"session", "target", "count", "write", "enable"}

\* A second factor over time (history): never enabled, enabled, or turned off
\* again by an enrollment after that.
Factor == {"new", "armed", "reset"}

\* A request in hand: on and secret are what it read of the user's second
\* factor. History: live and entitled say whether its session was open and its
\* user an enabled admin at some moment since it began, stale that what it read
\* last was changed since, to the worse.
Handler ==
  [kind : {"create", "role", "disable", "enroll", "verify", "logout"},
   target : User, value : Role \union {"disabled", "enabled", "self"},
   session : Session, step : Step, on : BOOLEAN, secret : Secret \union {0},
   live : BOOLEAN, entitled : BOOLEAN, stale : BOOLEAN]

\* A login that has found the user and has not created the session yet.
Login == [kind : {"login"}, target : User, step : {"write"}, on : BOOLEAN,
          factor : Factor]

ASSUME AccountsAssumption ==
  /\ IsFiniteSet(User) /\ FirstAdmin \in User /\ Nobody \notin User
  /\ Idle \notin Handler \union Login
  /\ MaxRequests \in Nat /\ MaxSecrets \in Nat /\ MaxFaults \in Nat

VARIABLES
  role,      \* admin_users.role, "none" without a row
  disabled,  \* admin_users.disabled
  secret,    \* admin_users.totp_secret, 0 is NULL
  mfa,       \* admin_users.mfa_enabled
  holder,    \* sessions.user_id of every token handed out
  open,      \* tokens with a row in sessions that has not expired
  passed,    \* tokens whose row says mfa_passed
  active,    \* the request in each place
  boot,      \* each process: "down", "counted" (no account found), "up"
  begun, minted, faults,
  proven,    \* secrets a correct code was shown for (history)
  factor,    \* what became of each user's second factor (history)
  basis,     \* why each session needs no further code: it has shown one, or the
             \* factor its login met (history)
  raced,     \* a write removed an admin on a reading overtaken by another (history)
  mixed      \* users whose second factor was enabled after such a reading (history)

accountVars == <<role, disabled>>
factorVars  == <<secret, mfa, minted>>
sessionVars == <<holder, open, passed>>
historyVars == <<proven, factor, basis, raced, mixed>>
vars == <<accountVars, factorVars, sessionVars, active, boot, begun, faults,
          historyVars>>

Exists(u)      == role[u] # "none"
EnabledAdmin(u) == role[u] = "admin" /\ ~disabled[u]
EnabledAdmins  == {u \in User : EnabledAdmin(u)}
Issued         == {s \in Session : holder[s] # Nobody}

\* Types, and: rows of sessions belong to rows of users (the foreign key), and
\* only passed sessions are behind management requests (server.go, adminAuth).
TypeOK ==
  /\ role \in [User -> Role \union {"none"}]
  /\ disabled \in [User -> BOOLEAN]
  /\ secret \in [User -> Secret \union {0}]
  /\ mfa \in [User -> BOOLEAN]
  /\ holder \in [Session -> User \union {Nobody}]
  /\ open \subseteq Issued /\ passed \subseteq Issued
  /\ active \in [Request -> Handler \union Login \union {Idle}]
  /\ boot \in [Instance -> {"down", "counted", "up"}]
  /\ begun \in Nat /\ minted \in Secret \union {0} /\ faults \in Nat
  /\ proven \subseteq Secret /\ raced \in BOOLEAN /\ mixed \subseteq User
  /\ factor \in [User -> Factor] /\ basis \in [Session -> Factor \union {"none", "code"}]
  /\ \A s \in Issued : Exists(holder[s])
  /\ \A r \in Request : active[r] # Idle /\ active[r].kind # "login" =>
       active[r].session \in Issued

Init ==
  /\ role = [u \in User |-> "none"]
  /\ disabled = [u \in User |-> FALSE]
  /\ secret = [u \in User |-> 0]
  /\ mfa = [u \in User |-> FALSE]
  /\ holder = [s \in Session |-> Nobody] /\ open = {} /\ passed = {}
  /\ active = [r \in Request |-> Idle]
  /\ boot = [i \in Instance |-> "down"]
  /\ begun = 0 /\ minted = 0 /\ faults = 0
  /\ factor = [u \in User |-> "new"] /\ basis = [s \in Session |-> "none"]
  /\ proven = {} /\ raced = FALSE /\ mixed = {}

-----------------------------------------------------------------------------
(* Starting a server *)

\* CountAdmins: whatever their role, enabled or not.
NoAccounts == \A u \in User : ~Exists(u)

CountAtStart(i) ==
  /\ boot[i] = "down"
  /\ boot' = [boot EXCEPT ![i] = IF NoAccounts THEN "counted" ELSE "up"]
  /\ UNCHANGED <<accountVars, factorVars, sessionVars, active, begun, faults,
                 historyVars>>

\* The e-mail is unique: the process that comes second dies (log.Fatalf).
CreateBootstrapAdmin(i) ==
  /\ boot[i] = "counted"
  /\ \/ /\ ~Exists(FirstAdmin)
        /\ role' = [role EXCEPT ![FirstAdmin] = "admin"]
        /\ boot' = [boot EXCEPT ![i] = "up"]
     \/ /\ Exists(FirstAdmin)
        /\ boot' = [boot EXCEPT ![i] = "down"]
        /\ UNCHANGED role
  /\ UNCHANGED <<disabled, factorVars, sessionVars, active, begun, faults,
                 historyVars>>

NoCredentials(i) ==
  /\ boot[i] = "counted"
  /\ boot' = [boot EXCEPT ![i] = "up"]
  /\ UNCHANGED <<accountVars, factorVars, sessionVars, active, begun, faults,
                 historyVars>>

\* Shutdown lets handlers finish, and those it cuts short are HandlerFails: when the
\* last process is gone there are none.
StopServer(i) ==
  /\ boot[i] = "up"
  /\ (\A r \in Request : active[r] = Idle) \/ \E j \in Instance \ {i} : boot[j] = "up"
  /\ boot' = [boot EXCEPT ![i] = "down"]
  /\ UNCHANGED <<accountVars, factorVars, sessionVars, active, begun, faults,
                 historyVars>>

-----------------------------------------------------------------------------
(* Authentication *)

Free(r) == /\ active[r] = Idle /\ begun < MaxRequests
           /\ \E i \in Instance : boot[i] = "up"
Drop(r) == active' = [active EXCEPT ![r] = Idle]
MoveTo(r, step) == active' = [active EXCEPT ![r].step = step]
Working(r, kinds, step) ==
  active[r] # Idle /\ active[r].kind \in kinds /\ active[r].step = step

\* The route table: who may do what. handleMFAVerify stands outside adminAuth.
NeedsMFA(kind)   == kind \in {"create", "role", "disable"}
NeedsAdmin(kind) == kind \in {"create", "role", "disable"}

\* GetSessionByToken. A request with no valid session has no effect.
ReadSession(r, s, op) ==
  /\ Free(r) /\ s \in open
  /\ NeedsMFA(op.kind) => s \in passed
  /\ op.value = "self" => op.target = holder[s]
  /\ active' = [active EXCEPT ![r] =
       [kind |-> op.kind, target |-> op.target, value |-> op.value, session |-> s,
        step |-> "session", on |-> FALSE, secret |-> 0,
        live |-> s \in open, entitled |-> EnabledAdmin(holder[s]), stale |-> FALSE]]
  /\ begun' = begun + 1
  /\ UNCHANGED <<accountVars, factorVars, sessionVars, boot, faults, historyVars>>

\* Mutant: the middleware does not look at the disabled column.
AdmittedThoughDisabled(u, kind) ==
  Exists(u) /\ (NeedsAdmin(kind) => role[u] = "admin")

\* Mutant: the role is not asked for.
AdmittedInAnyRole(u, kind) == Exists(u) /\ (kind # "verify" => ~disabled[u])

\* What adminAuth and requireRole ask of the user, read afresh for each request.
Admitted(u, kind) ==
  /\ Exists(u)
  /\ kind # "verify" => ~disabled[u]
  /\ NeedsAdmin(kind) => role[u] = "admin"

\* Demotions and disablements are guarded by two more readings.
Removes(h) == (h.kind = "role" /\ h.value # "admin") \/ h.value = "disabled"

\* The code was made with the secret that is stored now, or is refused.
Acceptable(h, u) ==
  /\ h.kind = "verify" => secret[u] # 0
  /\ h.value = "disabled" => h.target # u

ReadUser(r) ==
  /\ active[r] # Idle /\ active[r].step = "session"
  /\ LET h == active[r]
         u == holder[h.session] IN
     \/ /\ Admitted(u, h.kind) /\ Acceptable(h, u)
        /\ active' = [active EXCEPT ![r] =
             [h EXCEPT !.step = IF Removes(h) THEN "target" ELSE "write",
                       !.on = mfa[u], !.secret = secret[u]]]
     \/ /\ ~(Admitted(u, h.kind) /\ Acceptable(h, u))
        /\ Drop(r)
  /\ UNCHANGED <<accountVars, factorVars, sessionVars, boot, begun, faults,
                 historyVars>>

\* Mutant: an unknown address passes as an account without a second factor.
MayLogIn(u) == ~disabled[u]

\* GetAdminByEmail and the password check.
CanLogIn(u) == Exists(u) /\ ~disabled[u]

LoginReads(r, u) ==
  /\ Free(r) /\ CanLogIn(u)
  /\ active' = [active EXCEPT ![r] =
       [kind |-> "login", target |-> u, step |-> "write", on |-> mfa[u],
        factor |-> factor[u]]]
  /\ begun' = begun + 1
  /\ UNCHANGED <<accountVars, factorVars, sessionVars, boot, faults, historyVars>>

\* Mutant: a user is not asked for a code twice.
PassesAgain(h) == ~h.on \/ \E s \in passed : holder[s] = h.target

\* mfaPassed: no code is asked for by a login that found the factor not enabled.
Passes(h) == ~h.on

CreateSession(r, s) ==
  /\ Working(r, {"login"}, "write") /\ s \notin Issued
  /\ LET h == active[r] IN
     /\ holder' = [holder EXCEPT ![s] = h.target]
     /\ open' = open \union {s}
     /\ passed' = IF Passes(h) THEN passed \union {s} ELSE passed
     /\ basis' = IF Passes(h) THEN [basis EXCEPT ![s] = h.factor] ELSE basis
  /\ Drop(r)
  /\ UNCHANGED <<accountVars, factorVars, boot, begun, faults, proven, factor, raced,
                 mixed>>

DeleteSession(r) ==
  /\ Working(r, {"logout"}, "write")
  /\ open' = open \ {active[r].session}
  /\ Drop(r)
  /\ UNCHANGED <<accountVars, factorVars, holder, passed, boot, begun, faults,
                 historyVars>>

SessionExpires(s) ==
  /\ s \in open
  /\ open' = open \ {s}
  /\ UNCHANGED <<accountVars, factorVars, holder, passed, active, boot, begun,
                 faults, historyVars>>

-----------------------------------------------------------------------------
(* The second factor *)

Verifying(h, u) ==
  h # Idle /\ h.kind = "verify" /\ h.step \in {"write", "enable"} /\ holder[h.session] = u

\* Mutant: a new secret leaves the second factor enabled.
KeepsFactor(u) == mfa

\* SetTOTPSecret: a new secret is not enabled yet.
WithoutFactor(u) == [mfa EXCEPT ![u] = FALSE]

SetTOTPSecret(r) ==
  /\ Working(r, {"enroll"}, "write") /\ minted < MaxSecrets
  /\ LET u == active[r].target IN
     /\ minted' = minted + 1
     /\ secret' = [secret EXCEPT ![u] = minted + 1]
     /\ mfa' = WithoutFactor(u)
     /\ factor' = IF mfa[u] THEN [factor EXCEPT ![u] = "reset"] ELSE factor
     /\ active' = [q \in Request |->
          IF q = r THEN Idle
          ELSE IF Verifying(active[q], u) THEN [active[q] EXCEPT !.stale = TRUE]
          ELSE active[q]]
  /\ UNCHANGED <<accountVars, sessionVars, boot, begun, faults, proven, basis, raced,
                 mixed>>

MarkSessionMFAPassed(r) ==
  /\ Working(r, {"verify"}, "write")
  /\ LET h == active[r] IN
     /\ passed' = passed \union {h.session}
     /\ proven' = proven \union {h.secret}
     /\ basis' = [basis EXCEPT ![h.session] = "code"]
     /\ IF h.on THEN Drop(r) ELSE MoveTo(r, "enable")
  /\ UNCHANGED <<accountVars, factorVars, holder, open, boot, begun, faults, factor,
                 raced, mixed>>

EnableMFA(r) ==
  /\ Working(r, {"verify"}, "enable")
  /\ LET u == active[r].target IN
     /\ mfa' = [mfa EXCEPT ![u] = TRUE]
     /\ factor' = [factor EXCEPT ![u] = "armed"]
     /\ mixed' = IF active[r].stale THEN mixed \union {u} ELSE mixed
  /\ Drop(r)
  /\ UNCHANGED <<accountVars, secret, minted, sessionVars, boot, begun, faults,
                 proven, basis, raced>>

-----------------------------------------------------------------------------
(* Managing accounts *)

\* Whether the target read makes the count necessary: it is an admin, and for a
\* disablement an enabled one.
CountNeeded(h) ==
  /\ role[h.target] = "admin"
  /\ h.kind = "disable" => ~disabled[h.target]

ReadTarget(r) ==
  /\ Working(r, {"role", "disable"}, "target")
  /\ MoveTo(r, IF CountNeeded(active[r]) THEN "count" ELSE "write")
  /\ UNCHANGED <<accountVars, factorVars, sessionVars, boot, begun, faults,
                 historyVars>>

\* An error other than "no such user" skips the guard as well.
ReadTargetFails(r) ==
  /\ Working(r, {"role", "disable"}, "target") /\ faults < MaxFaults
  /\ MoveTo(r, "write")
  /\ faults' = faults + 1
  /\ UNCHANGED <<accountVars, factorVars, sessionVars, boot, begun, historyVars>>

\* Mutant: refuses only when there is no admin left already.
RefusesAtZero == EnabledAdmins = {}

\* n <= 1; a count that fails is 0.
RefusesLast == Cardinality(EnabledAdmins) <= 1

CountEnabledAdmins(r) ==
  /\ Working(r, {"role", "disable"}, "count")
  /\ IF RefusesLast THEN Drop(r) ELSE MoveTo(r, "write")
  /\ UNCHANGED <<accountVars, factorVars, sessionVars, boot, begun, faults,
                 historyVars>>

StillAdmin(u) == role'[u] = "admin" /\ ~disabled'[u]

\* The other requests after a write: what they are entitled to, and whether an
\* admin they counted on is gone.
Noted(h) ==
  IF h = Idle \/ h.kind = "login" THEN h
  ELSE [h EXCEPT
    !.entitled = @ \/ StillAdmin(holder[h.session]),
    !.stale    = @ \/ (/\ h.kind \in {"role", "disable"} /\ h.step \in {"count", "write"}
                       /\ \E u \in User : EnabledAdmin(u) /\ ~StillAdmin(u))]

EndWrite(r) == active' = [q \in Request |-> IF q = r THEN Idle ELSE Noted(active[q])]

\* An UPDATE of a user that does not exist changes no row.
SetRole(r) ==
  /\ Working(r, {"role"}, "write")
  /\ LET h == active[r] IN
     /\ role' = IF Exists(h.target) THEN [role EXCEPT ![h.target] = h.value] ELSE role
     /\ raced' = (raced \/ (Removes(h) /\ h.stale))
  /\ UNCHANGED disabled
  /\ EndWrite(r)
  /\ UNCHANGED <<factorVars, sessionVars, boot, begun, faults, proven, factor, basis,
                 mixed>>

SetDisabled(r) ==
  /\ Working(r, {"disable"}, "write")
  /\ LET h == active[r] IN
     /\ disabled' = [disabled EXCEPT ![h.target] =
                       Exists(h.target) /\ h.value = "disabled"]
     /\ raced' = (raced \/ (Removes(h) /\ h.stale))
  /\ UNCHANGED role
  /\ EndWrite(r)
  /\ UNCHANGED <<factorVars, sessionVars, boot, begun, faults, proven, factor, basis,
                 mixed>>

\* The e-mail is unique; a second INSERT is refused.
CreateAdmin(r) ==
  /\ Working(r, {"create"}, "write")
  /\ LET h == active[r] IN
     role' = IF Exists(h.target) THEN role ELSE [role EXCEPT ![h.target] = h.value]
  /\ UNCHANGED disabled
  /\ EndWrite(r)
  /\ UNCHANGED <<factorVars, sessionVars, boot, begun, faults, historyVars>>

\* A statement fails, or the client goes away: the handler ends where it is.
HandlerFails(r) ==
  /\ active[r] # Idle /\ faults < MaxFaults
  /\ Drop(r)
  /\ faults' = faults + 1
  /\ UNCHANGED <<accountVars, factorVars, sessionVars, boot, begun, historyVars>>

-----------------------------------------------------------------------------
Statement(r) ==
  \/ ReadUser(r) \/ ReadTarget(r) \/ ReadTargetFails(r) \/ CountEnabledAdmins(r)
  \/ SetRole(r) \/ SetDisabled(r) \/ CreateAdmin(r)
  \/ SetTOTPSecret(r) \/ MarkSessionMFAPassed(r) \/ EnableMFA(r)
  \/ DeleteSession(r) \/ HandlerFails(r)
  \/ \E s \in Session : CreateSession(r, s)

Arrival(r) ==
  \/ \E s \in Session, op \in Op : ReadSession(r, s, op)
  \/ \E u \in User : LoginReads(r, u)

Server(i) ==
  CountAtStart(i) \/ CreateBootstrapAdmin(i) \/ NoCredentials(i) \/ StopServer(i)

Next ==
  \/ \E r \in Request : Statement(r) \/ Arrival(r)
  \/ \E i \in Instance : Server(i)
  \/ \E s \in Session : SessionExpires(s)

Spec == Init /\ [][Next]_vars

-----------------------------------------------------------------------------
(* Properties *)

\* Once there is an account there is an enabled administrator, unless two guarded
\* requests overlapped (another administrator was removed between a guard's
\* readings and its UPDATE) or a reading failed (handlers_users.go:68-81, 103-116).
AdminRemains ==
  ~raced /\ faults = 0 => NoAccounts \/ EnabledAdmins # {}

\* No enabled administrator, and no request past its authorisation.
LockedOut ==
  /\ ~NoAccounts /\ EnabledAdmins = {}
  /\ \A r \in Request : active[r] # Idle /\ NeedsAdmin(active[r].kind) =>
       active[r].step = "session"

\* That state is final: no login, no session left over and no restart of a server
\* gets out of it, since bootstrapAdmin (main.go:146) counts accounts of any kind.
LockOutIsFinal == [][LockedOut => LockedOut']_vars

\* Whoever manages accounts was an enabled administrator, with an open session, at
\* some moment while the request was handled: a logout, a demotion or a disablement
\* counts from the next request on. And once an account's second factor has been
\* enabled, only a session that has shown a code speaks for it, however logins,
\* enrollments and verifications overlap (handlers_auth.go:48-51, 94-97), with two
\* exceptions, which last as long as the session: its login met a factor never
\* enabled so far, or one that an enrollment had turned off, for which no code is
\* asked (server.go:58).
ActedWasEntitled ==
  \A r \in Request :
    LET h == active[r] IN
    h # Idle /\ NeedsAdmin(h.kind) /\ h.step # "session" =>
      h.live /\ h.entitled /\ basis[h.session] \in {"code", "new", "reset"}

\* A second factor that is enabled has been proven with a code of the very secret
\* that is stored, unless the user enrolled again while a code of the previous
\* secret was being verified (handlers_auth.go:89-100).
EnabledIsProven ==
  \A u \in User : mfa[u] => secret[u] \in proven \/ u \in mixed
=============================================================================
