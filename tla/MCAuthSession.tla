--------------------------- MODULE MCAuthSession ---------------------------
(* Model-checking instance of AuthSession.  The .cfg files give two users, *)
(* two session ids, one client and two requests in flight; the clock runs *)
(* to 4 with a TTL of 3 and a refresh window of 2 (refresh_threshold 2/3), *)
(* so sessions expire, enter the window and are renewed within the bound.  *)
EXTENDS AuthSession, TLC

MCTTL == 3
MCRefreshInterval == 2
MCMaxTime == 4

\* Store calls that raise DataMapperError, per run.
NoFailures == {}
AllFail == {"read", "update", "delete", "deleteAll", "add"}
UpdateFails == {"update"}

MCSymmetry == Permutations(Users) \cup Permutations(SessionIds) \cup Permutations(Clients)
=============================================================================
