\* Paging sorted by a unique column; "email" is not a column of users_table.
\* With four users and pages of 2 the third page is past the last row.
CONSTANTS
  u1 = u1  u2 = u2  u3 = u3  u4 = u4  c1 = c1  c2 = c2  c3 = c3
  Users <- MCUsers
  Clients = {c1, c2, c3}
  ClientRole <- MCClientRole
  Columns <- MCColumns
  Key <- MCKey
  Fields = {"username", "email"}
  Limit = 2
SPECIFICATION Spec
INVARIANT PagingVisitsEachUserOnce
