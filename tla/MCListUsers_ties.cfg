\* Paging sorted by role, on which u3 and u4 tie across a page boundary.
CONSTANTS
  u1 = u1  u2 = u2  u3 = u3  u4 = u4  c1 = c1  c2 = c2  c3 = c3
  Users <- MCUsers
  Clients = {c1, c2, c3}
  ClientRole <- MCClientRole
  Columns <- MCColumns
  Key <- MCKey
  Fields = {"role"}
  Limit = 3
SPECIFICATION Spec
INVARIANT PagingVisitsEachUserOnce
