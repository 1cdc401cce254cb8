---------------------------- MODULE UserAccounts ----------------------------
(***************************************************************************)
(* The user commands of application/commands (activate, deactivate, grant *)
(* admin), the change-password handler, and log-in, running as concurrent  *)
(* requests over the users table and the session table.                    *)
(*                                                                         *)
(* Each request has its own main database transaction.  A command reads    *)
(* its target with read_by_id(for_update=True), a row lock held until its  *)
(* transaction commits or the request's session closes.  The domain        *)
(* toggles of UserService decide whether anything is committed.  A         *)
(* deactivation then revokes the user's sessions through the access        *)
(* revoker, in the separate auth transaction of terminate_all_sessions_    *)
(* for_user.  Log-in reads the user without a lock, awaits the password    *)
(* hasher, checks the account is active and issues a session.  The session *)
(* table is the abstract AuthSessionStore (refined by AuthSession).        *)
(*                                                                         *)
(* The main and the auth AsyncSession of a request (PersistenceSqlaProvider *)
(* in setup/ioc/infrastructure.py) come from one async_sessionmaker over   *)
(* one engine, so they draw on one pool of Capacity connections (pool_size *)
(* + max_overflow).  A session checks a connection out at the first        *)
(* statement of a transaction and returns it when the transaction commits  *)
(* or the session closes; a checkout with no free connection waits up to   *)
(* pool_timeout and then raises, which fails the request.                  *)
(***************************************************************************)
EXTENDS Naturals, FiniteSets, RolePolicy

CONSTANTS
  Users,       \* the accounts
  Requests,    \* concurrent HTTP requests, each running one command
  Commands,    \* the commands a request may run (see Cmd; a target
               \* outside Users is an id no row has)
  InitRole,    \* the role of each account at start
  InitActive,  \* whether each account is active at start
  SessionIds, TTL, MaxPwVersion,
  Capacity,    \* pool_size + max_overflow of the engine
  NoReq, NoSession

ASSUME InitRole \in [Users -> Roles] /\ InitActive \in [Users -> BOOLEAN] /\ MaxPwVersion \in Nat /\ Capacity \in Nat \ {0}

VARIABLES
  role, active, pwVersion,  \* the users table
  lock,        \* lock[u]: the request whose transaction holds u's row lock
  pc,          \* pc[r]: where request r is
  cmd,         \* cmd[r]: the command r runs
  actorRole,   \* actorRole[r]: the role get_current_user returned to r
  snap,        \* snap[r]: the target row as r read it
  sessions, issued, now,    \* the session table (AuthSessionStore)
  free,        \* connections in the pool
  held,        \* held[r]: the sessions of r ("main", "auth") holding a connection
  outcome,     \* outcome[r]: "ok" or the exception request r raised
  \* history, read only by the properties
  revoked      \* users a deactivation has returned for, not activated since

userVars == <<role, active, pwVersion, lock>>
reqVars == <<pc, cmd, actorRole, snap>>
storeVars == <<sessions, issued, now>>
poolVars == <<free, held>>
vars == <<userVars, reqVars, storeVars, poolVars, outcome, revoked>>

Store == INSTANCE AuthSessionStore WITH MaxTime <- 0

Cmd == [kind : {"activate", "deactivate", "grantAdmin", "changePassword", "logIn"},
        actor : Users, target : Users]
Row == [role : Roles, active : BOOLEAN, pw : 0 .. MaxPwVersion]
RowOf(u) == [role |-> role[u], active |-> active[u], pw |-> pwVersion[u]]

\* The locals of a request before it starts and after it ends
NoCmd == CHOOSE c \in Commands : TRUE
NoRow == [role |-> "user", active |-> FALSE, pw |-> 0]

\* the role a command's first authorize() call is about
ManagedRole(k) == IF k = "grantAdmin" THEN "admin" ELSE "user"

-----------------------------------------------------------------------------
Init ==
  /\ role = InitRole
  /\ active = InitActive
  /\ pwVersion = [u \in Users |-> 0]
  /\ lock = [u \in Users |-> NoReq]
  /\ pc = [r \in Requests |-> "idle"]
  /\ cmd = [r \in Requests |-> NoCmd]
  /\ actorRole = [r \in Requests |-> "user"]
  /\ snap = [r \in Requests |-> NoRow]
  /\ Store!Init
  /\ free = Capacity
  /\ held = [r \in Requests |-> {}]
  /\ outcome = [r \in Requests |-> "ok"]
  /\ revoked = {}

\* The commands whose HTTP routes (presentation/http/controllers) are part
\* of the repository; only their outcomes are recorded.
Routed == {"activate", "deactivate", "logIn"}

\* r moves to p; if that ends a routed request, err is what it raised.
Reach(r, p, err) ==
  /\ pc' = [pc EXCEPT ![r] = p]
  /\ outcome' = IF p = "done" /\ cmd[r].kind \in Routed
                  THEN [outcome EXCEPT ![r] = err] ELSE outcome

Goto(r, p) == Reach(r, p, "ok")

\* Session s of r runs a statement: a session without a connection checks
\* one out of the pool first.
Use(r, s) ==
  IF s \in held[r]
    THEN UNCHANGED poolVars
    ELSE /\ free > 0
         /\ free' = free - 1
         /\ held' = [held EXCEPT ![r] = @ \cup {s}]

\* Session s of r runs a statement and commits: its connection, checked out
\* for the statement if it had none, goes back to the pool.
UseAndCommit(r, s) ==
  /\ s \in held[r] \/ free > 0
  /\ free' = IF s \in held[r] THEN free + 1 ELSE free
  /\ held' = [held EXCEPT ![r] = @ \ {s}]

\* The session whose statement r runs next at each step
SessionAt(p) ==
  CASE p \in {"authenticate", "revoke", "issue"} -> "auth"
    [] p \in {"currentUser", "read"} -> "main"
    [] OTHER -> "none"

\* r waits for the pool: its next statement needs a connection and none is free
WaitsForPool(r) ==
  /\ SessionAt(pc[r]) \notin held[r] \cup {"none"}
  /\ free = 0

\* A request starts.  Log-in goes straight to its read; every other
\* handler first authenticates the request.
Start(r, c) ==
  /\ pc[r] = "idle"
  /\ cmd' = [cmd EXCEPT ![r] = c]
  /\ Goto(r, IF c.kind = "logIn" THEN "read" ELSE "authenticate")
  /\ UNCHANGED <<userVars, actorRole, snap, storeVars, poolVars, revoked>>

\* get_authenticated_user_id: read_by_id in the auth session.  The session
\* is valid and not near expiry (the auth transaction stays open), or it is
\* extended (update and commit), or the request is not authenticated.
\* Change-password's get_current_user(for_update=True) is its locked read.
Authenticate(r) ==
  LET next == IF cmd[r].kind = "changePassword" THEN "read" ELSE "currentUser" IN
  /\ pc[r] = "authenticate"
  /\ free > 0
  /\ \/ /\ free' = free - 1
        /\ held' = [held EXCEPT ![r] = @ \cup {"auth"}]
        /\ Goto(r, next)
     \/ /\ Goto(r, next)
        /\ UNCHANGED poolVars
     \/ /\ free' = free - 1
        /\ held' = [held EXCEPT ![r] = @ \cup {"auth"}]
        /\ Reach(r, "done", "AuthenticationError")
  /\ UNCHANGED <<userVars, cmd, actorRole, snap, storeVars, revoked>>

\* get_current_user reads the current user in the main session; then
\* authorize(CanManageRole) for the role the command manages.
CurrentUser(r) ==
  LET c == cmd[r] IN
  /\ pc[r] = "currentUser"
  /\ Use(r, "main")
  /\ actorRole' = [actorRole EXCEPT ![r] = role[c.actor]]
  /\ Reach(r, IF CanManageRole(role[c.actor], ManagedRole(c.kind)) THEN "read" ELSE "done",
           "AuthorizationError")
  /\ UNCHANGED <<userVars, cmd, snap, storeVars, revoked>>

\* The row lock on the target, taken by read_by_id(for_update=True).
Lockable(r, t) == lock[t] \in {NoReq, r}

\* r waits for the row lock of its target
WaitsForLock(r) ==
  /\ pc[r] = "read" /\ cmd[r].kind # "logIn"
  /\ cmd[r].target \in Users /\ ~Lockable(r, cmd[r].target)

\* What a command does once its target row is read: the second authorize()
\* and the UserService toggle; a toggle with nothing to change commits
\* nothing, but a deactivation still revokes.
AfterRead(r, c, row) ==
  CASE c.kind \in {"activate", "deactivate"} ->
         IF ~CanManageSubordinate(actorRole[r], row.role) \/ ~IsChangeable(row.role)
           THEN "done"
         ELSE IF row.active = (c.kind = "activate")
           THEN IF c.kind = "deactivate" THEN "revoke" ELSE "done"
         ELSE "commit"
    [] c.kind = "grantAdmin" ->
         IF ~IsChangeable(row.role) THEN "done"
         ELSE IF row.role = "admin" THEN "done" ELSE "commit"
    [] c.kind = "changePassword" -> "verify"

\* What the activation commands raise when AfterRead ends them
ReadError(r, row) ==
  IF ~CanManageSubordinate(actorRole[r], row.role) THEN "AuthorizationError"
  ELSE IF ~IsChangeable(row.role) THEN "ActivationChangeNotPermittedError"
  ELSE "ok"

\* Mutant: the target is read without FOR UPDATE.
ReadForUpdateNoLock(r) ==
  LET c == cmd[r] IN
  /\ pc[r] = "read"
  /\ c.kind # "logIn"
  /\ c.target \in Users
  /\ Use(r, "main")
  /\ snap' = [snap EXCEPT ![r] = RowOf(c.target)]
  /\ Reach(r, AfterRead(r, c, RowOf(c.target)), ReadError(r, RowOf(c.target)))
  /\ UNCHANGED <<userVars, cmd, actorRole, storeVars, revoked>>

\* Mutant: change-password's get_current_user without for_update=True.
ReadForUpdateCurrentUserUnlocked(r) ==
  LET c == cmd[r] IN
  /\ pc[r] = "read"
  /\ c.kind # "logIn"
  /\ c.target \in Users
  /\ Lockable(r, c.target)
  /\ Use(r, "main")
  /\ lock' = IF c.kind = "changePassword" THEN lock ELSE [lock EXCEPT ![c.target] = r]
  /\ snap' = [snap EXCEPT ![r] = RowOf(c.target)]
  /\ Reach(r, AfterRead(r, c, RowOf(c.target)), ReadError(r, RowOf(c.target)))
  /\ UNCHANGED <<role, active, pwVersion, cmd, actorRole, storeVars, revoked>>

ReadForUpdate(r) ==
  LET c == cmd[r] IN
  /\ pc[r] = "read"
  /\ c.kind # "logIn"
  /\ c.target \in Users
  /\ Lockable(r, c.target)
  /\ Use(r, "main")
  /\ lock' = [lock EXCEPT ![c.target] = r]
  /\ snap' = [snap EXCEPT ![r] = RowOf(c.target)]
  /\ Reach(r, AfterRead(r, c, RowOf(c.target)), ReadError(r, RowOf(c.target)))
  /\ UNCHANGED <<role, active, pwVersion, cmd, actorRole, storeVars, revoked>>

\* read_by_id(for_update=True) finds no row with the target id: the SELECT
\* locks nothing, scalar_one_or_none() returns None and the command raises
\* UserNotFoundByIdError.
ReadMissing(r) ==
  /\ pc[r] = "read"
  /\ cmd[r].kind \in {"activate", "deactivate", "grantAdmin"}
  /\ cmd[r].target \notin Users
  /\ Use(r, "main")
  /\ Reach(r, "done", "UserNotFoundByIdError")
  /\ UNCHANGED <<userVars, cmd, actorRole, snap, storeVars, revoked>>

\* Log-in reads its user by username, without a lock.
LogInRead(r) ==
  /\ pc[r] = "read"
  /\ cmd[r].kind = "logIn"
  /\ Use(r, "main")
  /\ snap' = [snap EXCEPT ![r] = RowOf(cmd[r].target)]
  /\ Goto(r, "verify")
  /\ UNCHANGED <<userVars, cmd, actorRole, storeVars, revoked>>

\* The awaited password hasher: verify (and, for change-password, hash the
\* new password).  The password may be wrong (ReAuthenticationError, and
\* for log-in AuthenticationError), or _permit() times out
\* (PasswordHasherBusyError).  Change-password's check that the new
\* password differs (AuthenticationChangeError, before the hasher) ends the
\* request like a wrong password: its route is not in the repository, so
\* the first disjunct stands for both.  Log-in then rejects an inactive account of
\* the row it read (AUTH_ACCOUNT_INACTIVE; the log-in handler is not in the
\* repository, and AuthenticationError is assumed).
Verify(r) ==
  /\ pc[r] = "verify"
  /\ \/ Reach(r, "done", IF cmd[r].kind = "logIn" THEN "AuthenticationError" ELSE "ReAuthenticationError")
     \/ Reach(r, "done", "PasswordHasherBusyError")
     \/ /\ cmd[r].kind = "changePassword"
        /\ Goto(r, "commit")
     \/ /\ cmd[r].kind = "logIn"
        /\ Reach(r, IF snap[r].active THEN "issue" ELSE "done", "AuthenticationError")
  /\ UNCHANGED <<userVars, cmd, actorRole, snap, storeVars, poolVars, revoked>>

\* The toggled row is flushed and committed; the commit ends the main
\* transaction, releasing the row lock and the main connection.
Commit(r) ==
  LET c == cmd[r]
      t == c.target
  IN
  /\ pc[r] = "commit"
  /\ CASE c.kind = "activate" ->
            /\ active' = [active EXCEPT ![t] = TRUE]
            /\ revoked' = revoked \ {t}
            /\ UNCHANGED <<role, pwVersion>>
       [] c.kind = "deactivate" ->
            /\ active' = [active EXCEPT ![t] = FALSE]
            /\ UNCHANGED <<role, pwVersion, revoked>>
       [] c.kind = "grantAdmin" ->
            /\ role' = [role EXCEPT ![t] = "admin"]
            /\ UNCHANGED <<active, pwVersion, revoked>>
       [] c.kind = "changePassword" ->
            /\ pwVersion[t] < MaxPwVersion
            /\ pwVersion' = [pwVersion EXCEPT ![t] = @ + 1]
            /\ UNCHANGED <<role, active, revoked>>
  /\ lock' = [u \in Users |-> IF lock[u] = r THEN NoReq ELSE lock[u]]
  /\ free' = free + 1
  /\ held' = [held EXCEPT ![r] = @ \ {"main"}]
  /\ Goto(r, IF c.kind = "deactivate" THEN "revoke" ELSE "done")
  /\ UNCHANGED <<cmd, actorRole, snap, storeVars>>

\* remove_all_user_access: terminate_all_sessions_for_user, a delete and a
\* commit in the auth transaction; the deactivation then returns.
Revoke(r) ==
  /\ pc[r] = "revoke"
  /\ UseAndCommit(r, "auth")
  /\ Store!RevokeAll(cmd[r].target)
  /\ revoked' = revoked \cup {cmd[r].target}
  /\ Goto(r, "done")
  /\ UNCHANGED <<userVars, cmd, actorRole, snap>>

\* issue_session for the logged-in user: add and commit in the auth session.
\* token_urlsafe draws a fresh id; the ids are interchangeable, so the
\* first unused one stands for it.
IssueSession(r) ==
  /\ pc[r] = "issue"
  /\ UseAndCommit(r, "auth")
  /\ issued # SessionIds
  /\ Store!Issue(CHOOSE id \in SessionIds \ issued : TRUE, cmd[r].target)
  /\ Goto(r, "done")
  /\ UNCHANGED <<userVars, cmd, actorRole, snap, revoked>>

\* pool_timeout elapses while r waits for a connection: the checkout raises
\* TimeoutError, a SQLAlchemyError that the gateways turn into
\* DataMapperError, and the request fails.  The session service turns it
\* into AuthenticationError when it reads the session row and when
\* issue_session adds one.
PoolTimeout(r) ==
  /\ WaitsForPool(r)
  /\ Reach(r, "done", IF pc[r] \in {"authenticate", "issue"} THEN "AuthenticationError"
                      ELSE "DataMapperError")
  /\ UNCHANGED <<userVars, cmd, actorRole, snap, storeVars, poolVars, revoked>>

\* Mutant: the request's sessions are not closed, so its locks and its
\* connections stay held.
FinishKeepsLocks(r) ==
  /\ pc[r] = "done"
  /\ Goto(r, "closed")
  /\ UNCHANGED <<userVars, cmd, actorRole, snap, storeVars, poolVars, revoked>>

\* The request ends: `async with async_session_factory()` closes both
\* sessions, rolling back an uncommitted transaction (releasing its row
\* locks) and returning their connections.  The response is sent and the
\* request-scoped objects are discarded.
Finish(r) ==
  /\ pc[r] = "done"
  /\ lock' = [u \in Users |-> IF lock[u] = r THEN NoReq ELSE lock[u]]
  /\ free' = free + Cardinality(held[r])
  /\ held' = [held EXCEPT ![r] = {}]
  /\ pc' = [pc EXCEPT ![r] = "closed"]
  /\ cmd' = [cmd EXCEPT ![r] = NoCmd]
  /\ actorRole' = [actorRole EXCEPT ![r] = "user"]
  /\ snap' = [snap EXCEPT ![r] = NoRow]
  /\ outcome' = [outcome EXCEPT ![r] = "ok"]
  /\ UNCHANGED <<role, active, pwVersion, storeVars, revoked>>

Step(r) ==
  \/ Authenticate(r) \/ CurrentUser(r) \/ ReadForUpdate(r) \/ ReadMissing(r)
  \/ LogInRead(r)
  \/ Verify(r) \/ Commit(r) \/ Revoke(r) \/ IssueSession(r)
  \/ PoolTimeout(r) \/ Finish(r)

AllClosed == /\ \A r \in Requests : pc[r] = "closed"
             /\ UNCHANGED vars

Next ==
  \/ \E r \in Requests, c \in Commands : Start(r, c)
  \/ \E r \in Requests : Step(r)
  \/ AllClosed

\* The server keeps running every started request: the event loop resumes
\* it, the database answers it and pool_timeout ends every wait for a
\* connection.  Nothing forces a request to start.
Spec == Init /\ [][Next]_vars /\ \A r \in Requests : WF_vars(Step(r))

\* The error_map of the activation route (PUT /users/{id}/activation)
ActivateErrorMap ==
  [AuthenticationError |-> 401, DataMapperError |-> 503, AuthorizationError |-> 403,
   UserNotFoundByIdError |-> 404, ActivationChangeNotPermittedError |-> 403]

\* Mutant: a deactivation route that does not declare DataMapperError.
DeactivateErrorMapNoDataMapper ==
  [AuthenticationError |-> 401, AuthorizationError |-> 403,
   UserNotFoundByIdError |-> 404, ActivationChangeNotPermittedError |-> 403]

\* The error_map of the deactivation route (DELETE /users/{id}/activation)
DeactivateErrorMap ==
  [AuthenticationError |-> 401, DataMapperError |-> 503, AuthorizationError |-> 403,
   UserNotFoundByIdError |-> 404, ActivationChangeNotPermittedError |-> 403]

\* The error_map of the log-in route (POST /account/login)
LogInErrorMap ==
  [AlreadyAuthenticatedError |-> 403, AuthorizationError |-> 403, DataMapperError |-> 503,
   DomainTypeError |-> 400, UserNotFoundByUsernameError |-> 404,
   PasswordHasherBusyError |-> 503, AuthenticationError |-> 401]

ErrorMap(k) ==
  CASE k = "activate" -> ActivateErrorMap
    [] k = "deactivate" -> DeactivateErrorMap
    [] k = "logIn" -> LogInErrorMap

\* The status ErrorAwareRouter answers with: 204 on success, the mapped
\* status of a declared exception, and 500 for any other exception.
Status(k, err) ==
  IF err = "ok" THEN 204
  ELSE IF err \in DOMAIN ErrorMap(k) THEN ErrorMap(k)[err]
  ELSE 500

Running == {r \in Requests : pc[r] \notin {"idle", "closed"}}

-----------------------------------------------------------------------------
\* The request r committing an activation change now, if any
Committer(t) == {r \in Requests : pc[r] = "commit" /\ pc'[r] # "commit" /\ cmd[r].target = t}

(***************************************************************************)
(* DeactivateUserInteractor: "Only super admins can deactivate other       *)
(* admins" (and ActivateUserInteractor likewise).  Whenever a user's       *)
(* active flag changes, the committing request's current user outranks the *)
(* target's role as it is at that commit -- also when a concurrent grant   *)
(* of admin rights to the target commits while the command is in flight.   *)
(***************************************************************************)
OnlySuperiorsToggleActivation ==
  [][\A t \in Users :
       active'[t] # active[t] =>
         \A r \in Committer(t) : CanManageSubordinate(actorRole[r], role[t])]_vars

(***************************************************************************)
(* Every started request finishes and releases its row lock: the row locks *)
(* of the commands and the closing of each request's session never leave  *)
(* a request waiting for ever.  A request leaves "idle" once and "closed"  *)
(* never, so "always eventually idle or closed" says that every request    *)
(* that starts is closed.                                                  *)
(***************************************************************************)
RequestsComplete ==
  \A r \in Requests : []<>(pc[r] \in {"idle", "closed"})

(***************************************************************************)
(* DeactivateUserInteractor: "Also deletes the user's sessions".  Once a   *)
(* deactivation has returned, and while the user stays inactive, the user  *)
(* has no session.                                                         *)
(***************************************************************************)
DeactivatedUserHasNoSession ==
  \A u \in revoked : ~active[u] => Store!SessionsOf(u) = {}

(***************************************************************************)
(* The connection pool and the row locks never leave every running request *)
(* blocked: some request can always go on without waiting for              *)
(* pool_timeout to fail one of them.  A deactivation of an inactive user   *)
(* keeps its row lock and main connection open while it checks out an     *)
(* auth connection; the requests waiting for that lock hold connections of *)
(* their own.                                                              *)
(***************************************************************************)
SomeRequestProgresses ==
  Running # {} => \E r \in Running : ~WaitsForPool(r) /\ ~WaitsForLock(r)

(***************************************************************************)
(* Every activation, deactivation or log-in answers with a status its      *)
(* route declares, never a 500: whatever exception a path of the handler   *)
(* raises -- an authentication failure, a refused authorize(), a busy      *)
(* hasher, a pool timeout in the main or the auth session, also after the  *)
(* toggle committed -- is in the route's error_map.                        *)
(***************************************************************************)
ResponsesDeclared ==
  \A r \in Requests :
    pc[r] = "done" /\ cmd[r].kind \in Routed => Status(cmd[r].kind, outcome[r]) # 500

(***************************************************************************)
(* ChangePasswordHandler verifies the current password against the hash    *)
(* get_current_user(for_update=True) read, and then commits the new hash.  *)
(* Every committed password change was verified against the hash in force  *)
(* when it commits: a concurrent change of the same password (or of the    *)
(* same account by another request) can never be overwritten by one that  *)
(* verified the old password.                                              *)
(***************************************************************************)
PasswordChangeVerifiedCurrent ==
  [][\A r \in Requests :
       pc[r] = "commit" /\ pc'[r] # "commit" /\ cmd[r].kind = "changePassword"
         => snap[r].pw = pwVersion[cmd[r].target]]_vars
=============================================================================
