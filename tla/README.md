# TLA+ models of the FastAPI clean-architecture example

This directory holds TLA+ models of the authentication and user-management
back end under `src/src/app`. Each module models the code of one part of the
system, and TLC checks the models.

## 1. The system and its parts

| Part | Source | State | Operations |
|---|---|---|---|
| Auth session service | `infrastructure/auth/session/service.py` | The shared session table. Per request: the cached `AuthSession` (the service is request-scoped) and the response cookie | `issue_session`, `get_authenticated_user_id`, `terminate_current_session`, `terminate_all_sessions_for_user`, `_get_current_auth_session`, `_validate_and_extend_session` |
| Session timer | `infrastructure/auth/session/timer_utc.py` | The wall clock | `current_time`, `auth_session_expiration` (now + TTL), `refresh_trigger_interval` (TTL × threshold) |
| Session id generator | `infrastructure/auth/session/id_generator_str.py` | None (random) | `generate` |
| Gateway and transaction manager, JWT cookie transport, ASGI middleware, log-in/log-out handlers | Not under `src/`; described in `spec.md` §4-6 | Table rows; the cookie jar of each client | add/read/update/delete/delete_all + commit; extract/deliver/remove cookie |
| Password hashing gate | `infrastructure/adapters/password_hasher_bcrypt.py`, `setup/ioc/infrastructure.py` | Semaphore value and waiters; executor queue and threads | `hash`, `verify`, `_permit` (acquire with timeout, release in `finally`) |
| User domain service and entity | `domain/services/user.py`, `domain/entities/user.py` | User rows: active flag, role, password hash | `create_user`, `toggle_user_activation`, `toggle_user_admin_role`, `change_password` |
| User commands | `application/commands/*.py` | The same, under row locks | activate/deactivate user, grant/revoke admin, create user. Deactivation revokes sessions after the commit |
| Change-password handler | `infrastructure/auth/handlers/change_password.py` | The user's hash | Verify the current password, hash the new one, commit |
| Username value object | `domain/value_objects/username.py` | None (a validated value) | Length check and four regular expressions, first failure raises |
| User list query | `application/queries/list_users.py`, `infrastructure/adapters/user_reader_sqla.py`, `application/common/query_params/sorting.py` | The users table, read only | Authorize, sort by a named column, LIMIT/OFFSET, total by `count() OVER ()` |
| Engine, connection pool and request sessions | `setup/ioc/infrastructure.py` (`PersistenceSqlaProvider`) | Pooled connections; the connection each session holds | Checkout at a transaction's first statement, return at commit or session close, `pool_timeout` |
| HTTP error maps | `presentation/http/controllers/users/*.py`, `presentation/http/controllers/account/log_in.py`, `fastapi_error_map` | None | Exception to status for each route; undeclared exceptions become 500 |
| Value object base | `domain/value_objects/base.py` | None | `__new__` guard, `__repr__` with hidden fields |
| Other value objects, data mapper and flusher details, setup | The remaining files | None of concern | Wrappers, wiring |

### How the parts interact

Every HTTP request gets its own `AuthSessionService` and its own database
transaction (`Scope.REQUEST`). Several requests, including several from the
same browser, run on one asyncio loop. They interleave only at `await`
points, which are the store calls. The session table is the only shared
state.

A client holds a cookie jar. Each request carries the cookie that was in the
jar when the request was sent. The response either sets a new session cookie,
removes it, or leaves it alone, and the client applies that when the response
arrives. Responses to concurrent requests arrive in any order.

The user commands call the session service's `terminate_all_sessions_for_user`
through the access revoker. The log-in handler calls
`get_authenticated_user_id` (which must fail) and then `issue_session`.

### Hard behaviours

These are the behaviours a unit test hardly reaches. Each is listed in
`PROJECT.json` under `hazards`, at the line where it bites.

- The renewal reads the row, computes the new expiration from the clock, and
  then awaits the update. Another request can delete or renew the same row
  in between (service.py:181-226).
- The cookie is delivered after the commit. Responses from the same client
  can then overwrite each other in either order (service.py:68, 234).
- Store failures are swallowed on logout (service.py:128) and reverted on
  renewal (service.py:229-232).
- The per-request cache is trusted without re-reading the store
  (service.py:161); spec.md requires this, so a session another request
  revokes stays accepted for the rest of the request. A request's own
  revoke-all clears its cache and cookie only when the cached session
  belongs to the revoked user (service.py:148).
- Expiry and refresh compare against the boundaries with `<=` and `>`.
- The hasher semaphore acquire has a timeout and may be cancelled. The
  permit is released in `finally`, while the bcrypt thread may still be
  running.
- The two sessions of a request draw on one connection pool; a deactivation
  keeps its row lock and main connection while it revokes sessions on the
  auth session (deactivate_user.py:101).

## 2. Modules

### `AuthSession.tla`: the session service with concurrent requests

This module models `service.py` with its timer, id generator and request
scope. The gateway, transport and handlers are modelled from `spec.md`, since
they are not under `src/`.

**Constants**

| Constant | Meaning |
|---|---|
| `Users`, `SessionIds`, `Clients`, `Requests` | Model values |
| `TTL`, `RefreshInterval` | The settings, which satisfy `0 < RefreshInterval < TTL` because `0 < threshold < 1` |
| `MaxTime` | The bound on the clock |
| `FailingOps` | The store calls that may raise `DataMapperError` in this run |

**Variables**

| Variable | Code |
|---|---|
| `store` | The session table. Maps each id to a row or `NoSession` |
| `used` | The ids the generator has produced |
| `now` | The timer |
| `jar[c]` | The cookie client `c` holds |
| `phase[r]` | Request `r`'s program counter, which is the await it is suspended at: "read", "update", "delete", "deleteAll", "add" |
| `todo[r]` | The remaining session-service calls of its handler |
| `cookieIn[r]` | The cookie the request carried |
| `resp[r]` | The response cookie: `Keep`, `Removed` or an id |
| `cache[r]` | `_cached_auth_session` |
| `work[r]` | The locals held across an await |

The history variables are `deleted`, `persisted`, `loggedOut`,
`deletedBy` (the ids a request's own logout or revoke-all deleted), `didLogout`, `didLogin` and `authAt`. They only serve the
properties.

**Actions**

Each action is the code between two awaits.

- `StartRequest`: a client sends a request. Its script is chosen from
  `Scripts`: authenticate twice, log out, authenticate then log out, log in,
  or authenticate then revoke all of a user's sessions.
- `GetAuthenticatedUserId`: service.py:157-176. Cache hit, or no cookie, or
  go to the read.
- `ReadById`: service.py:178-194. The read may fail; the row may be missing.
- `ValidateAndExtend`: service.py:196-223. Expired, not due for renewal, or
  renew.
- `UpdateSession`: service.py:225-242. On success, deliver. On failure or a
  missing row, revert to the original expiration.
- `TerminateCurrentSession` and `DeleteSession`: service.py:91-136.
- `TerminateAllSessionsForUser`: service.py:138-155.
- `IssueSession` and `AddSession`: service.py:49-74.
- `Respond`: the response is applied to the client's jar, and the
  request-scoped service is discarded.
- `Tick`: the clock advances.

A store call and its commit are one atomic step, because each request has its
own transaction. An update of a row deleted meanwhile either raises or affects
no row; both are allowed.

**Properties**

| Property | Statement |
|---|---|
| `TypeOK` | Type invariant |
| `OwnRevocationLeavesNoCredential` | A request never goes on caching, nor sends back as its cookie, a session its own logout or revoke-all deleted (service.py:148 and spec.md 4.3 "self-consistency"), also after a renewal earlier in the request delivered that cookie |
| `DeliveredOnlyPersisted` | Neither a response nor a client ever carries the id of a session that was never committed |
| `ExpiredNeverAuthenticates` | A session the request authenticated with had not expired at that moment |
| `ExpirationNeverShrinks` | Action property: a stored session's expiration never decreases |
| `LogoutRevokesCredential` | After a client's logout response arrived, and with no log-in since, its cookie is not honoured by the server |

`MCAuthSession.tla` gives the constants their values and defines the symmetry
set.

### `AuthSessionStore.tla`: the abstract session lifecycle

This is the abstract specification of the session table, from `spec.md` §3.

**Variables**

- `sessions`: the table.
- `issued`: the ids ever stored.
- `now`: the clock.

**Actions**

- `Issue(id, u)`: under an id never issued before, with an expiration
  within TTL of now.
- `Extend(id)`: sets a new expiration within TTL of now.
- `Revoke(id)`: deletes one session.
- `RevokeAll(u)`: deletes all of a user's sessions.
- `Tick`: the clock advances.

A deleted id can never come back, because `Issue` needs a fresh id and
`Extend` needs a stored row.

`AuthSession` instantiates it as `AbstractStore`, mapping `sessions <- store`
and `issued <- persisted`. It checks `StoreRefinement == AbstractStore!Spec`
as a property. Its definitions model the spec, not code, so they are not in
the map.

### `PasswordHasherGate.tla`: the hashing gate

This module models `BcryptPasswordHasher.hash`/`verify` and `_permit()`
(password_hasher_bcrypt.py:35-73). It also models the process-wide semaphore
and thread pool of `MainAdaptersProvider` (ioc/infrastructure.py:52-73), and
the CPython 3.12 `asyncio.Semaphore` they run on. The semaphore is not code of
this repository, so those definitions are marked spec-modelled. Its
`locked()`, `_wake_up_next()`, the `finally` wake loop of `acquire()`, and
the permit a cancelled but already-granted waiter gives back are all
modelled.

**Constants and variables**

- `Calls` are the concurrent hash/verify calls.
- `MaxThreads` is `hasher_max_threads`.
- `OuterCancel` says whether a request task may be cancelled while its job
  runs.
- `value` and `waiters` are the semaphore.
- `fut` is each waiter's future.
- `pc` is where each call is suspended.
- `queue`, `busy` and `finished` are the executor's work queue, running jobs
  and completed jobs.

**Actions**

| Action | Code |
|---|---|
| `Call` | Fast path, or join the FIFO |
| `WaiterResume` | A granted waiter resumes |
| `TimeoutFires` | The `wait_for` timer, racing a grant |
| `CancelResume` | Busy error; gives back a granted permit |
| `JobStart` and `JobDone` | The worker threads |
| `JobResume` | The release in `finally` |
| `CancelAwaitingJob` | A cancelled request at the executor await. A queued job is dropped; a running one keeps its thread |

**Properties**

- `PermitsConserved`: free permits plus held permits plus granted-untaken
  permits equal `MaxThreads`.
- `AdmittedWorkFitsPool`: jobs running plus jobs queued never exceed the
  threads.
- `PermitsEventuallyReturned`: liveness.

**Fairness**

Weak fairness holds for each call's loop steps, for `JobStart` and for
`JobDone`. The event loop runs every ready callback, the timer fires, and a
started bcrypt call returns. `Call` is not fair, because nothing obliges a
request to hash.

### `UserAccounts.tla`: user commands, password change and log-in over the session store and the connection pool

This module models the activate, deactivate and grant-admin interactors,
`ChangePasswordHandler`, and log-in, running as concurrent requests. It
composes them with the session table by instantiating `AuthSessionStore` as
`Store`, and with the connection pool that the request's two sessions share
(`PersistenceSqlaProvider`: one engine, one `async_sessionmaker`).

**Constants**

- `Users`, `Requests`, `SessionIds`, `Commands`: model values and the
  commands a request may carry.
- `InitRole`, `InitActive`: the users table at start.
- `Capacity`: the pool's connections (`pool_size + max_overflow`).
- `MaxPwVersion`, `TTL`: bounds on password changes and the session store.

**State**

- The users table: `role`, `active` and `pwVersion`. `pwVersion` stands for
  the password hash.
- `lock`: the row locks. `read_by_id(for_update=True)` takes a lock, and it
  is held until the commit or until the request's session closes.
- `free` and `held[r]`: the idle connections, and which of request `r`'s
  sessions ("main", "auth") hold one. A session checks a connection out at
  its transaction's first statement (`Use`) and returns it at commit
  (`UseAndCommit`, `Commit`) or when the request's sessions close (`Finish`).
- Per request: `pc`, the command, the current user's role as
  `get_current_user` returned it, the target row as read, and `outcome`, the
  exception the interactor raised or "ok".

**Actions**

| Action | Code |
|---|---|
| `Start` | A request arrives; log-in goes to the read, the others authenticate |
| `Authenticate` | `get_authenticated_user_id` on the auth session: the session row read, committed only when extended. No session raises `AuthenticationError` |
| `CurrentUser` | `get_current_user` (main session) and the first `authorize`, which may raise `AuthorizationError` |
| `ReadForUpdate` | The locked read, then the second `authorize` and the `UserService` toggle, in `AfterRead`; `ReadError` is the exception it raises |
| `ReadMissing` | The locked read finds no row for the target id: nothing is locked and the command raises `UserNotFoundByIdError` (activate_user.py:79-80, likewise in deactivate and grant admin) |
| `LogInRead` | An unlocked read by username |
| `Verify` | The hasher. The password may be wrong (`ReAuthenticationError`; `AuthenticationError` for log-in) or the permit wait may time out (`PasswordHasherBusyError`); log-in rejects an inactive account |
| `Commit` | The write, which releases the lock and the main connection |
| `Revoke` | `remove_all_user_access`, through `Store!RevokeAll`, on the auth session |
| `IssueSession` | `issue_session` (service.py:49-68): add and commit through `Store!Issue`, on the auth session. The ids are interchangeable, so the first unused one stands for the random id |
| `PoolTimeout` | A checkout that found no free connection fails after `pool_timeout`: `DataMapperError`, or `AuthenticationError` during authentication (service.py:183-185) and in `issue_session` (service.py:64-65) |
| `Finish` | The request's sessions close: rollback, the locks and connections are released. The response is sent and the request-scoped locals are reset |

`ActivateErrorMap`, `DeactivateErrorMap` and `LogInErrorMap` are the
`error_map`s of the three controllers; `Status` is what `ErrorAwareRouter` answers: 204, the mapped
status, or 500 for an exception the route does not declare.

**Role policy**

`UserRole` and the permission classes are not under `src/`. `RolePolicy.tla`
models them as a rank order: super admin, then admin, then user; the super
admin's role is fixed. UserAccounts and ListUsers extend it.

**Properties**

- `OnlySuperiorsToggleActivation` (action property): from the interactor
  docstring "Only super admins can deactivate other admins".
- `RequestsComplete` (liveness): every request ends. It is stated as
  `[]<>(pc[r] \in {"idle", "closed"})`, which is equivalent to "a started
  request is eventually closed" because a request leaves `idle` once and
  never leaves `closed`. TLC checks this form without a tableau.
- `PasswordChangeVerifiedCurrent` (action property): a password change
  commits only over the hash it verified the current password against, so
  two concurrent changes of one account never lose one of them. The row
  lock of `get_current_user(for_update=True)` is what ensures it.
- `ResponsesDeclared`: every exception an activation, deactivation or log-in ends
  with, pool timeouts and authentication failures included, is one its
  route declares, so no such request is answered 500.
- `DeactivatedUserHasNoSession`: from "Also deletes the user's sessions".
  `ChangePasswordHandler` revokes no session: after a password change the
  sessions issued with the old password stay valid. `spec.md` §4.3 names
  password change among the callers of `terminate_all_sessions_for_user`,
  but only "as configured by callers", so no property is stated on it.
- `SomeRequestProgresses`: while requests run, one of them waits neither for
  a connection nor for a row lock, so progress never depends on
  `pool_timeout` failing a request.

**Fairness**

Weak fairness holds for each request's steps. The loop resumes the request,
the database answers it, and a checkout that waits ends at `pool_timeout`.

### `ValueObject.tla`: the repr of value objects

`ValueObject.__new__` refuses the base class and a class without fields
(`Instantiable`); `__repr__` prints the class name and `__repr_value`: the
`<hidden>` marker when no field is declared with `repr=True`, the value
alone for one shown field, and name=value pairs otherwise. `printed` is the
token sequence of the output; `declared` ranges over every class of up to
`MaxFields` fields and every choice of repr flags (`Layouts`). `RawPassword`
declares its value with `repr=False`.

- `ReprRevealsExactlyShown`: repr() reveals the value of every field declared
  with `repr=True` and of no other, in any declaration order.

`MCUsernameRules.tla` composes it with UsernameRules (the two parts share no
state) so that one run checks both value-object models.

### `UsernameRules.tla`: the username checks

`Username.__post_init__` runs the length check and then the four patterns of
`_validate_username_pattern`; the first that fails raises `DomainTypeError`
with its own message. Each pattern is modelled by what Python's `re` does
with it: `re.match` anchors at the start only, `re.fullmatch` at both ends,
`.` matches anything but a line feed and `$` matches at the end or just
before a final line feed. `PATTERN_NO_CONSECUTIVE_SPECIALS` is the automaton
`NextState` recognising it, folded over the name. `Construct` is the
construction; the state is the candidate name and the check's outcome.

The reference is the rule the comments above the patterns state (`Breaks`,
`Documented`). `AcceptsExactlyDocumented`: the code accepts exactly the
documented names. `ErrorNamesBrokenRule`: a rejected name is told a rule it
really breaks. The patterns are each weaker than their rule (the END pattern
alone accepts `abc\n`; the consecutive pattern also rejects a leading
special), so both depend on all four checks and their order.

### `ListUsers.tla`: the paginated user list

`ReadAll` is one request of `ListUsersQueryService.execute`:
`authorize(CanManageRole, USER)`, then `read_all`, which raises
`SortingError` for a field that is not a column, may raise `ReaderError`, or
returns a page and a total. SQL orders rows that tie on the ORDER BY column
in no fixed way, independently in each statement: `SortedBy` is every order
consistent with the column's values, and each read picks one. `Page` is
LIMIT/OFFSET, `Total` the `count() OVER ()` of the first row, or 0 for an
empty page. Clients page through with one sorting, offset 0, Limit, ...,
until a page comes back short; the table does not change meanwhile.

- `PagingVisitsEachUserOnce`: a client that pages to the end has received
  every user exactly once.

The page past the last row reports a total of 0 (user_reader_sqla.py:64),
which `list_users_unique` reaches. No property is stated about it:
`spec.md` does not say whether such a page should report 0 or the table
size.

### Settings

`ValidAuthSettings` (AuthSession) and `ValidPasswordSettings`
(PasswordHasherGate) are the validators of `setup/config/security.py`,
stated as `ASSUME`s: every constant a run uses is a configuration the
settings would accept.

## 3. Runs

| Run | cfg | Expect | What it shows |
|---|---|---|---|
| session_safety | `MCAuthSession_safety.cfg` | pass | One user, every store call may fail: `TypeOK`, `OwnRevocationLeavesNoCredential`, `DeliveredOnlyPersisted`, and `StoreRefinement` (AuthSession implements AuthSessionStore; a renewal whose update races a delete never writes the row back) |
| renewal_race | `MCAuthSession_renewal_race.cfg` | violation | `ExpirationNeverShrinks`: two concurrent renewals of one session commit in the opposite order to their clock reads, so the stored expiration goes backwards (service.py:223) |
| renewal_failure | `MCAuthSession_renewal_failure.cfg` | violation | `ExpiredNeverAuthenticates`: a failed renewal reverts to the original expiration, which has passed meanwhile, and still authenticates (service.py:229-232). This is contrary to `spec.md` §8 |
| logout_race | `MCAuthSession_logout_race.cfg` | violation | `LogoutRevokesCredential`: a late renewal response re-installs a live cookie after the logout response, contrary to `spec.md` §5, with no store failure |
| hasher_safety | `MCPasswordHasherGate_safety.cfg` | pass | With four calls on two threads, timeouts and cancellation at both awaits, `TypeOK`, `PermitsConserved` and `PermitsEventuallyReturned` hold |
| hasher_cancel_overload | `MCPasswordHasherGate_cancel_overload.cfg` | violation | `AdmittedWorkFitsPool`: a cancelled request frees its permit while its bcrypt thread still runs. The next holder's job queues with no timeout, contrary to `spec.md` §4.4/§5 (password_hasher_bcrypt.py:73) |
| accounts_safety | `MCUserAccounts_safety.cfg` | pass | Three requests among deactivate, activate, grant admin, change password and log-in, over a pool of 3 connections: activation changes are committed only by a user who outranks the target, a password change commits only over the hash it verified, every request completes (pool timeouts included), and every activation, deactivation and log-in ends with a declared status, an unknown target id included (about 263k states, 1 minute) |
| accounts_revocation_race | `MCUserAccounts_revocation_race.cfg` | violation | `DeactivatedUserHasNoSession`: a log-in that read the user before the deactivation committed issues a session after the revocation (deactivate_user.py:101) |
| accounts_pool_lock_cycle | `MCUserAccounts_pool_lock_cycle.cfg` | violation | `SomeRequestProgresses`: with 5 connections and three requests, a deactivation of an already inactive user keeps the row lock and its main connection while it needs an auth connection; the others hold the rest and wait for the lock. Only `pool_timeout` ends it (deactivate_user.py:101) |
| username_rules | `MCUsernameRules.cfg` | pass | Over all 19,531 names of up to 6 characters from `a . _ !` and a line feed, with the length bounds scaled to 3..5, the checks accept exactly the documented names and name a broken rule; repr() of every class of up to 3 fields reveals exactly the shown fields |
| list_users_unique | `MCListUsers_unique.cfg` | pass | Two admins paging by username (ascending or descending, pages of 2, the third one past the last row) each get every user once, and each page's total matches what paging returns; a plain user gets `AuthorizationError`, the field `email` gets `SortingError` |
| list_users_ties | `MCListUsers_ties.cfg` | violation | Sorted by role, the two users that tie straddle the page boundary: the second page repeats one and the other is never returned (user_reader_sqla.py:53) |

### Bounds

Two users, two session ids, one client and two concurrent requests. TTL 3,
refresh interval 2, and a clock that runs to 4. The safety run uses one user,
which is all the refinement needs and keeps it within minutes.

- With TTL 3 and a clock to 4, sessions really expire.
- The refresh window (remaining life ≤ 2) spans a tick, so a renewal can
  straddle the clock advancing.
- Two requests are the fewest that can race.
- One client suffices for the cookie races, since both requests are that
  client's.
- Two ids allow an issued session beside a revoked one.

For the hasher, four calls on two threads are enough for each of these to
happen:

- a call queues behind two holders;
- a granted waiter times out;
- a cancelled holder's job keeps a thread while its freed permit admits
  another call.

UserAccounts uses three accounts (super admin, admin, user), an id no
account has (the target of one activation), three requests
and three session ids. That gives one id per possible log-in, so that id
exhaustion never blocks a request. Every pair of commands can then race on
the user's row or sessions. A request holds at most two connections; the
pool capacities are chosen around that: 3 (fewer than the requests need
together, so `PoolTimeout` happens), 5 (one short of two per request: the
lock cycle) and 6 (two per request, so the pool never decides the
revocation race).

UsernameRules enumerates every name up to length 6 over one letter, two
specials, one forbidden character and the line feed: each pattern's cases
(leading, trailing and doubled specials, the final line feed that `$`
admits) and names on both sides of both length bounds occur. The bounds 5
and 20 are scaled to 3 and 5; the checks compare only with them.
ValueObject takes classes of up to 3 fields: enough for the hidden, single
and multiple-field renderings with a hidden field in any position.

ListUsers uses four users whose roles tie on two of them and whose active
flags tie on three. Page size 3 makes a tie straddle the boundary at 3
(`list_users_ties`); page size 2 makes the third page fall past the last
row, where `read_all` reports a total of 0 (`list_users_unique`).

The hasher runs and UserAccounts use no symmetry, because they check
liveness. Symmetry over session ids and clients in AuthSession is sound
because no definition names a particular one.

`Tick` is guarded so that an awaited update finishes before the renewed
expiration passes (`StoreCallsFinishWithinTTL`). Without this guard, a store
call lasting longer than the TTL would make the expiry property fail
trivially.

### Fairness

No liveness property of AuthSession is checked. A request may stall forever
at an await, since the loop does not guarantee progress for a request whose
store call hangs. In UserAccounts, `RequestsComplete` relies on weak fairness
of each request's steps, and on `pool_timeout`: a checkout that waits for a
connection ends, by a connection or by the timeout.

## 4. Not modelled, and why

- `RawPassword`, `UserId`, `UserPasswordHash` and `Entity`: one length
  check and wrappers, no state a property tells apart. The `ValueObject`
  base is modelled for its repr.
- The flusher's translation of the username unique constraint: the
  commands that add users (create user, sign up) are not in the repository.
- The HTTP routers, app factory, logging and the rest of the controllers:
  wiring and formatting. The error maps of the activate, deactivate and
  log-in controllers are modelled.
- The error maps of the create-user, revoke-admin, set-password and sign-up
  controllers: their interactors and handlers are not in the repository, so
  what they raise is unknown and the status they answer is not checked. The
  log-in handler is not in the repository either; its route is checked
  with the exceptions the session service and the hasher raise, and with
  `AuthenticationError` assumed for a wrong password and an inactive
  account (the messages `AUTH_PASSWORD_INVALID` and `AUTH_ACCOUNT_INACTIVE`
  of `handlers/constants.py`).

## 5. Plan

1. Done: `AuthSession` with the safety run and the three divergences above.
2. Done: `PasswordHasherGate`, with a safe run and the cancellation
   divergence.
3. Done: `AuthSessionStore` and the refinement, checked in the safety run.
4. Done: `UserAccounts`, composed with `AuthSessionStore` and the
   connection pool, with the revocation race and the lock-cycle finding.
5. Done: `UsernameRules` and `ValueObject`.
6. Done: `ListUsers`, pagination, with the tie finding.
7. Next: compose the pool with the hasher gate (change password holds a
   main connection and row lock across the hasher wait); liveness of
   AuthSession requests; error maps of the other controllers.
