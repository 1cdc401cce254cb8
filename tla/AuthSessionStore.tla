-------------------------- MODULE AuthSessionStore --------------------------
(***************************************************************************)
(* What the session table promises, whatever the requests that drive it:  *)
(* the abstract lifecycle of spec.md section 3.  A session is created      *)
(* under an id never issued before, with an expiration at most TTL ahead;  *)
(* it may have its expiration moved to a time still within TTL of now; it  *)
(* is deleted singly or with all of its user's sessions; and an id once    *)
(* deleted is never valid again.  AuthSession is checked to implement this *)
(* specification, and UserAccounts drives it directly.                     *)
(***************************************************************************)
EXTENDS Naturals

CONSTANTS Users, SessionIds, TTL, MaxTime, NoSession

VARIABLES
  sessions,  \* the session table: id -> [user, exp] or NoSession
  issued,    \* the ids a session was ever stored under
  now        \* the clock

vars == <<sessions, issued, now>>

Row == [user : Users, exp : 0 .. MaxTime + TTL]

\* Valid(id): a stored, unexpired session
Valid(id) == sessions[id] # NoSession /\ sessions[id].exp > now

SessionsOf(u) == {id \in SessionIds : sessions[id] # NoSession /\ sessions[id].user = u}

Init ==
  /\ sessions = [id \in SessionIds |-> NoSession]
  /\ issued = {}
  /\ now = 0

\* A session is stored for u under a never-used id, expiring within TTL.
Issue(id, u) ==
  /\ id \notin issued
  /\ \E e \in now + 1 .. now + TTL :
       sessions' = [sessions EXCEPT ![id] = [user |-> u, exp |-> e]]
  /\ issued' = issued \cup {id}
  /\ UNCHANGED now

\* A stored session's expiration is set to a time within TTL of now.
Extend(id) ==
  /\ sessions[id] # NoSession
  /\ \E e \in now + 1 .. now + TTL :
       sessions' = [sessions EXCEPT ![id].exp = e]
  /\ UNCHANGED <<issued, now>>

Revoke(id) ==
  /\ sessions[id] # NoSession
  /\ sessions' = [sessions EXCEPT ![id] = NoSession]
  /\ UNCHANGED <<issued, now>>

RevokeAll(u) ==
  /\ sessions' = [id \in SessionIds |-> IF id \in SessionsOf(u) THEN NoSession ELSE sessions[id]]
  /\ UNCHANGED <<issued, now>>

Tick ==
  /\ now < MaxTime
  /\ now' = now + 1
  /\ UNCHANGED <<sessions, issued>>

Next ==
  \/ \E id \in SessionIds, u \in Users : Issue(id, u)
  \/ \E id \in SessionIds : Extend(id) \/ Revoke(id)
  \/ \E u \in Users : RevokeAll(u)
  \/ Tick

Spec == Init /\ [][Next]_vars
=============================================================================
