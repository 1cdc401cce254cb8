---------------------------- MODULE AuthSession ----------------------------
(***************************************************************************)
(* AuthSessionService (src/app/infrastructure/auth/session/service.py)     *)
(* serving concurrent HTTP requests.                                       *)
(*                                                                         *)
(* Every request gets its own service instance (Scope.REQUEST in           *)
(* setup/ioc/infrastructure.py), so the cached session, the inbound cookie *)
(* and the outbound cookie are per request; the session table is shared   *)
(* by all requests and each request commits in its own transaction.       *)
(* A step of a request ends at an `await` on the store: the code between   *)
(* two awaits runs without interleaving on the asyncio event loop, so it   *)
(* is one action here.  A store call and the commit that follows it are    *)
(* one action (the write becomes visible to other requests at commit).     *)
(*                                                                         *)
(* Clients keep a cookie jar; the cookie a request carries is the jar at   *)
(* the time the request is sent, and the request's response cookie         *)
(* (delivered / removed / untouched) is applied to the jar when the        *)
(* response arrives, in whatever order responses arrive.                   *)
(***************************************************************************)
EXTENDS Naturals, Sequences, FiniteSets

CONSTANTS
    Users,          \* user ids
    SessionIds,     \* ids StrAuthSessionIdGenerator can produce (a pool)
    Clients,        \* browsers, each with one cookie jar
    Requests,       \* request slots that may be in flight at once
    TTL,            \* session_ttl_min, in clock ticks
    RefreshInterval,\* ttl_min * refresh_threshold, in clock ticks
    MaxTime,        \* bound on the clock
    FailingOps,     \* store calls that may raise DataMapperError
    NoId,           \* transport.extract_id() returned None / empty jar
    NoSession,      \* an absent row / an empty cache
    Keep, Removed   \* response cookie untouched / removed by remove_current

\* AuthSettings (setup/config/security.py) accepts a SESSION_TTL_MIN of at
\* least one minute and a SESSION_REFRESH_THRESHOLD strictly between 0 and 1;
\* the timer's refresh interval is their product, so it is positive and
\* shorter than the TTL.
ValidAuthSettings(ttl, interval) == ttl >= 1 /\ 0 < interval /\ interval < ttl

ASSUME /\ ValidAuthSettings(TTL, RefreshInterval)
       /\ FailingOps \subseteq {"read", "update", "delete", "deleteAll", "add"}

VARIABLES
    store,      \* the auth session table: id -> [user, exp] or NoSession
    used,       \* ids the generator has handed out
    now,        \* the UTC clock, in ticks
    jar,        \* jar[c]: the session id in client c's cookie, or NoId
    phase,      \* phase[r]: where request r is suspended
    todo,       \* todo[r]: service calls request r still has to make
    reqClient,  \* reqClient[r]: the client that sent r
    cookieIn,   \* cookieIn[r]: the id the transport extracts for r
    resp,       \* resp[r]: what r's response does to the cookie
    cache,      \* cache[r]: _cached_auth_session of r's service
    work,       \* work[r]: the session r is renewing, adding or deleting
    \* history, read only by the properties
    deleted,    \* ids whose row some request deleted
    persisted,  \* ids whose row was committed at least once
    loggedOut,  \* loggedOut[c]: c's last logout response arrived after its last login response
    deletedBy,  \* deletedBy[r]: ids whose row r's own logout or revoke-all deleted
    didLogout,  \* didLogout[r]: r's terminate_current_session found an id
    didLogin,   \* didLogin[r]: r's issue_session committed
    authAt      \* authAt[r]: the clock when r's get_authenticated_user_id last returned

storeVars == <<store, used, deleted, persisted>>
reqVars == <<phase, todo, reqClient, cookieIn, resp, cache, work, deletedBy, didLogout, didLogin, authAt>>
vars == <<storeVars, now, jar, loggedOut, reqVars>>

Time == 0 .. MaxTime + TTL
Session == [id : SessionIds, user : Users, exp : Time]
Row == [user : Users, exp : Time]

(***************************************************************************)
(* The service calls a request handler makes.  The handlers themselves     *)
(* (log_in, log_out, the interactors behind current_user and access        *)
(* revocation) are not under src/; their call sequences follow spec.md.    *)
(***************************************************************************)
Auth == [kind |-> "auth"]
\* log_in: get_authenticated_user_id must fail, else AlreadyAuthenticatedError
NotAuth == [kind |-> "notAuth"]
Logout == [kind |-> "logout"]
Issue(u) == [kind |-> "issue", user |-> u]
RevokeAll(u) == [kind |-> "revokeAll", user |-> u]

Op == {Auth, NotAuth, Logout} \cup {Issue(u) : u \in Users} \cup {RevokeAll(u) : u \in Users}

Scripts ==
    {<<Auth, Auth>>, <<Logout>>, <<Auth, Logout>>}
    \cup {<<NotAuth, Issue(u)>> : u \in Users}
    \cup {<<Auth, RevokeAll(u)>> : u \in Users}

\* Mutant: the expiration one tick past the TTL.
AuthSessionExpirationOffByOne == now + TTL + 1

\* UtcAuthSessionTimer: a fresh now + ttl, and ttl * refresh_threshold.
AuthSessionExpiration == now + TTL
RefreshTriggerInterval == RefreshInterval

\* The cookie jar after a response that did `r` to the cookie arrives.
ApplyCookie(j, r) == IF r = Keep THEN j ELSE IF r = Removed THEN NoId ELSE r

\* An id whose row the server would accept right now.
Honored(id) == id # NoId /\ store[id] # NoSession /\ store[id].exp > now

\* Ids not yet generated and not reserved by an issue already in flight.
PendingIssues == {r \in Requests : \E i \in 1 .. Len(todo[r]) : todo[r][i].kind = "issue"}
IdsAvailable == Cardinality(SessionIds \ used) > Cardinality(PendingIssues)

-----------------------------------------------------------------------------
Init ==
    /\ store = [id \in SessionIds |-> NoSession]
    /\ used = {}
    /\ now = 0
    /\ jar = [c \in Clients |-> NoId]
    /\ phase = [r \in Requests |-> "idle"]
    /\ todo = [r \in Requests |-> <<>>]
    /\ reqClient = [r \in Requests |-> CHOOSE c \in Clients : TRUE]
    /\ cookieIn = [r \in Requests |-> NoId]
    /\ resp = [r \in Requests |-> Keep]
    /\ cache = [r \in Requests |-> NoSession]
    /\ work = [r \in Requests |-> NoSession]
    /\ deleted = {}
    /\ persisted = {}
    /\ loggedOut = [c \in Clients |-> FALSE]
    /\ deletedBy = [r \in Requests |-> {}]
    /\ didLogout = [r \in Requests |-> FALSE]
    /\ didLogin = [r \in Requests |-> FALSE]
    /\ authAt = [r \in Requests |-> 0]

\* The current service call returned: go on with the next one, or respond.
OpDone(r) ==
    /\ todo' = [todo EXCEPT ![r] = Tail(@)]
    /\ phase' = [phase EXCEPT ![r] = IF Tail(todo[r]) = <<>> THEN "respond" ELSE "ready"]

\* The current service call raised: the handler fails and the request responds.
Raise(r) ==
    /\ todo' = [todo EXCEPT ![r] = <<>>]
    /\ phase' = [phase EXCEPT ![r] = "respond"]

\* get_authenticated_user_id returned / raised AuthenticationError; log_in
\* goes on only in the second case.
AuthOk(r) == IF Head(todo[r]).kind = "auth" THEN OpDone(r) ELSE Raise(r)
AuthFailed(r) == IF Head(todo[r]).kind = "auth" THEN Raise(r) ELSE OpDone(r)

\* A client sends a request; the cookie it carries is the jar now.
StartRequest(r, c, s) ==
    /\ phase[r] = "idle"
    /\ \A i \in 1 .. Len(s) : s[i].kind = "issue" => IdsAvailable
    /\ phase' = [phase EXCEPT ![r] = "ready"]
    /\ todo' = [todo EXCEPT ![r] = s]
    /\ reqClient' = [reqClient EXCEPT ![r] = c]
    /\ cookieIn' = [cookieIn EXCEPT ![r] = jar[c]]
    /\ UNCHANGED <<storeVars, now, jar, loggedOut, resp, cache, work, deletedBy, didLogout, didLogin, authAt>>

(***************************************************************************)
(* _validate_and_extend_session, up to its first await.  `s` is the        *)
(* session _get_current_auth_session returned; `now` is sampled here.      *)
(***************************************************************************)
ValidateAndExtend(r, s) ==
    \/ /\ s.exp <= now
       /\ AuthFailed(r)
       /\ UNCHANGED <<cache, work, authAt>>
    \/ /\ s.exp - now > RefreshTriggerInterval
       /\ cache' = [cache EXCEPT ![r] = s]
       /\ authAt' = [authAt EXCEPT ![r] = now]
       /\ AuthOk(r)
       /\ UNCHANGED work
    \/ /\ s.exp > now
       /\ s.exp - now <= RefreshTriggerInterval
       /\ work' = [work EXCEPT ![r] = [id |-> s.id, user |-> s.user,
                                       exp |-> AuthSessionExpiration, orig |-> s.exp]]
       /\ phase' = [phase EXCEPT ![r] = "update"]
       /\ UNCHANGED <<todo, cache, authAt>>

\* get_authenticated_user_id: the cached session, or the transport's id.
GetAuthenticatedUserId(r) ==
    /\ phase[r] = "ready"
    /\ Head(todo[r]).kind \in {"auth", "notAuth"}
    /\ \/ /\ cache[r] # NoSession
          /\ ValidateAndExtend(r, cache[r])
       \/ /\ cache[r] = NoSession
          /\ cookieIn[r] = NoId
          /\ AuthFailed(r)
          /\ UNCHANGED <<cache, work, authAt>>
       \/ /\ cache[r] = NoSession
          /\ cookieIn[r] # NoId
          /\ phase' = [phase EXCEPT ![r] = "read"]
          /\ UNCHANGED <<todo, cache, work, authAt>>
    /\ UNCHANGED <<storeVars, now, jar, loggedOut, reqClient, cookieIn, resp,
                   deletedBy, didLogout, didLogin>>

\* read_by_id returns (or raises); validation runs right after it.
ReadById(r) ==
    LET id == cookieIn[r] IN
    /\ phase[r] = "read"
    /\ \/ /\ "read" \in FailingOps
          /\ AuthFailed(r)
          /\ UNCHANGED <<cache, work, authAt>>
       \/ /\ store[id] = NoSession
          /\ AuthFailed(r)
          /\ UNCHANGED <<cache, work, authAt>>
       \/ /\ store[id] # NoSession
          /\ ValidateAndExtend(r, [id |-> id, user |-> store[id].user, exp |-> store[id].exp])
    /\ UNCHANGED <<storeVars, now, jar, loggedOut, reqClient, cookieIn, resp,
                   deletedBy, didLogout, didLogin>>

(***************************************************************************)
(* gateway.update + commit of the renewed session, and the rest of         *)
(* _validate_and_extend_session.  On DataMapperError the expiration is     *)
(* reverted and the session is still returned (and cached).  Updating a    *)
(* row another request deleted meanwhile affects no row: the gateway       *)
(* either raises or returns normally.                                      *)
(***************************************************************************)
\* Mutant: an upserting gateway writes the row back even if it was deleted.
UpdateRowUpsert(s) == [store EXCEPT ![s.id] = [user |-> s.user, exp |-> s.exp]]

UpdateRow(s) == [store EXCEPT ![s.id] = IF @ = NoSession THEN @ ELSE [user |-> s.user, exp |-> s.exp]]

UpdateSession(r) ==
    LET s == work[r]
        renewed == [id |-> s.id, user |-> s.user, exp |-> s.exp]
        reverted == [renewed EXCEPT !.exp = s.orig]
    IN
    /\ phase[r] = "update"
    /\ \/ /\ \/ "update" \in FailingOps
             \/ store[s.id] = NoSession
          /\ cache' = [cache EXCEPT ![r] = reverted]
          /\ UNCHANGED <<store, resp>>
       \/ /\ store' = UpdateRow(s)
          /\ resp' = [resp EXCEPT ![r] = s.id]
          /\ cache' = [cache EXCEPT ![r] = renewed]
    /\ work' = [work EXCEPT ![r] = NoSession]
    /\ authAt' = [authAt EXCEPT ![r] = now]
    /\ AuthOk(r)
    /\ UNCHANGED <<used, deleted, persisted, now, jar, loggedOut, reqClient,
                   cookieIn, deletedBy, didLogout, didLogin>>

(***************************************************************************)
(* terminate_current_session: the id comes from the cache, else from the   *)
(* transport; with no id it returns.  Otherwise the cookie is removed      *)
(* before the delete is awaited.                                           *)
(***************************************************************************)
TerminateCurrentSession(r) ==
    LET id == IF cache[r] # NoSession THEN cache[r].id ELSE cookieIn[r] IN
    /\ phase[r] = "ready"
    /\ Head(todo[r]).kind = "logout"
    /\ \/ /\ id = NoId
          /\ OpDone(r)
          /\ UNCHANGED <<resp, work, didLogout>>
       \/ /\ id # NoId
          /\ resp' = [resp EXCEPT ![r] = Removed]
          /\ work' = [work EXCEPT ![r] = [id |-> id]]
          /\ didLogout' = [didLogout EXCEPT ![r] = TRUE]
          /\ phase' = [phase EXCEPT ![r] = "delete"]
          /\ UNCHANGED todo
    /\ UNCHANGED <<storeVars, now, jar, loggedOut, reqClient, cookieIn, cache,
                   deletedBy, didLogin, authAt>>

\* gateway.delete + commit; a DataMapperError is logged and swallowed.
DeleteSession(r) ==
    LET id == work[r].id IN
    /\ phase[r] = "delete"
    /\ \/ /\ store' = [store EXCEPT ![id] = NoSession]
          /\ deleted' = deleted \cup {id}
          /\ deletedBy' = [deletedBy EXCEPT ![r] = @ \cup {id}]
       \/ /\ "delete" \in FailingOps
          /\ UNCHANGED <<store, deleted, deletedBy>>
    /\ cache' = [cache EXCEPT ![r] = NoSession]
    /\ work' = [work EXCEPT ![r] = NoSession]
    /\ OpDone(r)
    /\ UNCHANGED <<used, persisted, now, jar, loggedOut, reqClient, cookieIn,
                   resp, didLogout, didLogin, authAt>>

(***************************************************************************)
(* terminate_all_sessions_for_user: delete_all_for_user + commit (errors   *)
(* propagate), then the request's own cookie and cache are dropped when    *)
(* the cached session belongs to that user.                                *)
(***************************************************************************)
\* Mutant: the caller's own cookie and cache are never cleared.
TerminateAllSessionsForUserKeepsOwn(r) ==
    LET u == Head(todo[r]).user
        victims == {id \in SessionIds : store[id] # NoSession /\ store[id].user = u}
        own == FALSE
    IN
    /\ phase[r] = "ready"
    /\ Head(todo[r]).kind = "revokeAll"
    /\ \/ /\ "deleteAll" \in FailingOps
          /\ Raise(r)
          /\ UNCHANGED <<store, deleted, deletedBy, resp, cache>>
       \/ /\ store' = [id \in SessionIds |-> IF id \in victims THEN NoSession ELSE store[id]]
          /\ deleted' = deleted \cup victims
          /\ deletedBy' = [deletedBy EXCEPT ![r] = @ \cup victims]
          /\ resp' = [resp EXCEPT ![r] = IF own THEN Removed ELSE @]
          /\ cache' = [cache EXCEPT ![r] = IF own THEN NoSession ELSE @]
          /\ OpDone(r)
    /\ UNCHANGED <<used, persisted, now, jar, loggedOut, reqClient, cookieIn,
                   work, didLogout, didLogin, authAt>>

TerminateAllSessionsForUser(r) ==
    LET u == Head(todo[r]).user
        victims == {id \in SessionIds : store[id] # NoSession /\ store[id].user = u}
        own == cache[r] # NoSession /\ cache[r].user = u
    IN
    /\ phase[r] = "ready"
    /\ Head(todo[r]).kind = "revokeAll"
    /\ \/ /\ "deleteAll" \in FailingOps
          /\ Raise(r)
          /\ UNCHANGED <<store, deleted, deletedBy, resp, cache>>
       \/ /\ store' = [id \in SessionIds |-> IF id \in victims THEN NoSession ELSE store[id]]
          /\ deleted' = deleted \cup victims
          /\ deletedBy' = [deletedBy EXCEPT ![r] = @ \cup victims]
          /\ resp' = [resp EXCEPT ![r] = IF own THEN Removed ELSE @]
          /\ cache' = [cache EXCEPT ![r] = IF own THEN NoSession ELSE @]
          /\ OpDone(r)
    /\ UNCHANGED <<used, persisted, now, jar, loggedOut, reqClient, cookieIn,
                   work, didLogout, didLogin, authAt>>

(***************************************************************************)
(* issue_session: a fresh id and now + TTL, then gateway.add + commit;     *)
(* the cookie is delivered only after the commit.  A DataMapperError       *)
(* becomes AuthenticationError(AUTH_UNAVAILABLE).                          *)
(***************************************************************************)
\* Mutant: the cookie is delivered when the session is built, before add + commit.
IssueSessionDeliverEarly(r) ==
    LET u == Head(todo[r]).user IN
    /\ phase[r] = "ready"
    /\ Head(todo[r]).kind = "issue"
    /\ \E id \in SessionIds \ used :
          /\ used' = used \cup {id}
          /\ work' = [work EXCEPT ![r] = [id |-> id, user |-> u, exp |-> AuthSessionExpiration]]
          /\ resp' = [resp EXCEPT ![r] = id]
    /\ phase' = [phase EXCEPT ![r] = "add"]
    /\ UNCHANGED <<store, deleted, persisted, now, jar, loggedOut, todo, reqClient,
                   cookieIn, cache, deletedBy, didLogout, didLogin, authAt>>

IssueSession(r) ==
    LET u == Head(todo[r]).user IN
    /\ phase[r] = "ready"
    /\ Head(todo[r]).kind = "issue"
    /\ \E id \in SessionIds \ used :
          /\ used' = used \cup {id}
          /\ work' = [work EXCEPT ![r] = [id |-> id, user |-> u, exp |-> AuthSessionExpiration]]
    /\ phase' = [phase EXCEPT ![r] = "add"]
    /\ UNCHANGED <<store, deleted, persisted, now, jar, loggedOut, todo, reqClient,
                   cookieIn, resp, cache, deletedBy, didLogout, didLogin, authAt>>

AddSession(r) ==
    LET s == work[r] IN
    /\ phase[r] = "add"
    /\ \/ /\ "add" \in FailingOps
          /\ Raise(r)
          /\ UNCHANGED <<store, persisted, resp, didLogin>>
       \/ /\ store' = [store EXCEPT ![s.id] = [user |-> s.user, exp |-> s.exp]]
          /\ persisted' = persisted \cup {s.id}
          /\ resp' = [resp EXCEPT ![r] = s.id]
          /\ didLogin' = [didLogin EXCEPT ![r] = TRUE]
          /\ OpDone(r)
    /\ work' = [work EXCEPT ![r] = NoSession]
    /\ UNCHANGED <<used, deleted, now, jar, loggedOut, reqClient, cookieIn, cache,
                   deletedBy, didLogout, authAt>>

\* The response reaches the client, which applies its cookie to the jar.
Respond(r) ==
    LET c == reqClient[r] IN
    /\ phase[r] = "respond"
    /\ jar' = [jar EXCEPT ![c] = ApplyCookie(@, resp[r])]
    /\ loggedOut' = [loggedOut EXCEPT ![c] = (@ \/ didLogout[r]) /\ ~didLogin[r]]
    /\ phase' = [phase EXCEPT ![r] = "idle"]
    \* the request's scope ends: nothing of it survives
    /\ cache' = [cache EXCEPT ![r] = NoSession]
    /\ reqClient' = [reqClient EXCEPT ![r] = CHOOSE x \in Clients : TRUE]
    /\ cookieIn' = [cookieIn EXCEPT ![r] = NoId]
    /\ resp' = [resp EXCEPT ![r] = Keep]
    /\ deletedBy' = [deletedBy EXCEPT ![r] = {}]
    /\ didLogout' = [didLogout EXCEPT ![r] = FALSE]
    /\ didLogin' = [didLogin EXCEPT ![r] = FALSE]
    /\ authAt' = [authAt EXCEPT ![r] = 0]
    /\ UNCHANGED <<storeVars, now, todo, work>>

(***************************************************************************)
(* Environment bound: a store call returns well within a TTL, so the clock *)
(* never passes the fresh expiration of a renewal or an issue still        *)
(* awaiting commit.                                                        *)
(***************************************************************************)
StoreCallsFinishWithinTTL ==
    \A r \in Requests : phase[r] \in {"update", "add"} => work[r].exp > now + 1

\* The clock advances.
Tick ==
    /\ now < MaxTime
    /\ StoreCallsFinishWithinTTL
    /\ now' = now + 1
    /\ UNCHANGED <<storeVars, jar, loggedOut, reqVars>>

Next ==
    \/ Tick
    \/ \E r \in Requests, c \in Clients, s \in Scripts : StartRequest(r, c, s)
    \/ \E r \in Requests :
          \/ GetAuthenticatedUserId(r)
          \/ ReadById(r)
          \/ UpdateSession(r)
          \/ TerminateCurrentSession(r)
          \/ DeleteSession(r)
          \/ TerminateAllSessionsForUser(r)
          \/ IssueSession(r)
          \/ AddSession(r)
          \/ Respond(r)

Spec == Init /\ [][Next]_vars

-----------------------------------------------------------------------------
TypeOK ==
    /\ store \in [SessionIds -> Row \cup {NoSession}]
    /\ used \subseteq SessionIds
    /\ now \in 0 .. MaxTime
    /\ jar \in [Clients -> SessionIds \cup {NoId}]
    /\ phase \in [Requests -> {"idle", "ready", "read", "update", "delete", "add", "respond"}]
    /\ todo \in [Requests -> Seq(Op)]
    /\ cookieIn \in [Requests -> SessionIds \cup {NoId}]
    /\ resp \in [Requests -> SessionIds \cup {Keep, Removed}]
    /\ cache \in [Requests -> Session \cup {NoSession}]
    /\ deleted \subseteq used /\ persisted \subseteq used
    /\ loggedOut \in [Clients -> BOOLEAN]
    /\ authAt \in [Requests -> 0 .. MaxTime]

(***************************************************************************)
(* spec.md 5: "transport-side removal ... guarantees no client ever holds  *)
(* a credential the server intends to honor beyond the user's explicit     *)
(* intent to log out, even under storage outages".  Once a client's logout *)
(* response (terminate_current_session) has arrived, and no login response *)
(* after it, the cookie it holds is not one the server accepts.            *)
(***************************************************************************)
LogoutRevokesCredential ==
    \A c \in Clients : loggedOut[c] => ~Honored(jar[c])

(***************************************************************************)
(* spec.md 4.3 and service.py:148: terminate_all_sessions_for_user clears  *)
(* the caller's cookie and cache when the cached session belongs to the    *)
(* revoked user, "for the case where a user revokes their own ... sessions *)
(* ... mid-request"; terminate_current_session removes the cookie and     *)
(* clears the cache.  A request never goes on holding, nor sends back, a   *)
(* session whose row its own logout or revoke-all deleted -- also when an  *)
(* earlier renewal in the same request delivered a cookie for it, or the   *)
(* renewal's update failed and cached the reverted session.               *)
(***************************************************************************)
OwnRevocationLeavesNoCredential ==
    \A r \in Requests :
        /\ cache[r] = NoSession \/ cache[r].id \notin deletedBy[r]
        /\ resp[r] \notin deletedBy[r]

(***************************************************************************)
(* issue_session and the renewal in _validate_and_extend_session deliver   *)
(* the cookie only after the commit: no response and no client ever        *)
(* carries the id of a session whose row was never committed.              *)
(***************************************************************************)
DeliveredOnlyPersisted ==
    /\ \A c \in Clients : jar[c] # NoId => jar[c] \in persisted
    /\ \A r \in Requests : resp[r] \in SessionIds => resp[r] \in persisted

(***************************************************************************)
(* spec.md 8: "A session with expiration <= now always yields not          *)
(* authenticated".  When get_authenticated_user_id returns, the session it *)
(* returns (and caches) has not expired -- also when the renewal's update  *)
(* failed and the original expiration was restored.                        *)
(***************************************************************************)
ExpiredNeverAuthenticates ==
    \A r \in Requests : cache[r] # NoSession => cache[r].exp > authAt[r]

(***************************************************************************)
(* spec.md 4.3: renewal extends the expiration to a new now + TTL.  A      *)
(* commit never moves a stored session's expiration backwards.             *)
(***************************************************************************)
ExpirationNeverShrinks ==
    [][\A id \in SessionIds :
          store[id] # NoSession /\ store'[id] # NoSession => store'[id].exp >= store[id].exp]_vars

\* The abstract lifecycle of the session table, under the mapping of the
\* table and the ids ever committed.
AbstractStore == INSTANCE AuthSessionStore WITH sessions <- store, issued <- persisted

(***************************************************************************)
(* The session table, driven by any interleaving of requests with any      *)
(* store failures, behaves as AuthSessionStore specifies: ids issued once, *)
(* expirations set within TTL of the clock, and a deleted id -- by logout  *)
(* or revoke-all -- never stored again, also when a renewal's update races *)
(* the delete (service.py:226 against 121 or 145).                         *)
(***************************************************************************)
StoreRefinement == AbstractStore!Spec

=============================================================================
