------------------------------ MODULE ListUsers ------------------------------
(***************************************************************************)
(* ListUsersQueryService.execute (application/queries/list_users.py) and   *)
(* SqlaUserReader.read_all (infrastructure/adapters/user_reader_sqla.py):  *)
(* an admin reads one page of the users table, sorted by a column the      *)
(* request names, with LIMIT/OFFSET and the table size from                *)
(* count() OVER ().                                                        *)
(*                                                                         *)
(* The clients page through the table: each sends the same sorting with   *)
(* offsets 0, Limit, 2*Limit, ... until a page comes back short.  Every    *)
(* page is a separate request and a separate SELECT.  SQL orders rows that *)
(* tie on the ORDER BY column in no particular way, and not in the same    *)
(* way from one statement to the next: each read picks any order           *)
(* consistent with the sort key.  The table does not change while the      *)
(* clients page.                                                           *)
(***************************************************************************)
EXTENDS Naturals, Sequences, FiniteSets, SequencesExt, RolePolicy

CONSTANTS
  Users,       \* the rows of users_table
  Clients,     \* clients paging through the list
  ClientRole,  \* the role of each client's current user
  Columns,     \* the columns of users_table
  Fields,      \* the sorting fields the clients may send
  Key,         \* Key[f][u]: user u's value in column f, as a number
  Limit        \* the page size the clients send

ASSUME /\ ClientRole \in [Clients -> Roles]
       /\ Limit \in Nat \ {0}
       /\ \A f \in Columns \cap Fields : Key[f] \in [Users -> Nat]

VARIABLES
  pc,         \* where each client is
  sorting,    \* sorting[c]: the field and order client c sends
  offset,     \* offset[c]: the offset of client c's next page
  got,        \* got[c]: the users client c has received, in order
  totals      \* totals[c]: the totals the responses to c reported

vars == <<pc, sorting, offset, got, totals>>

Orders == {"ASC", "DESC"}
Ended == {"done", "forbidden", "sortingError", "readerError"}

Init ==
  /\ pc = [c \in Clients |-> "idle"]
  /\ sorting = [c \in Clients |-> [field |-> CHOOSE f \in Fields : TRUE, order |-> "ASC"]]
  /\ offset = [c \in Clients |-> 0]
  /\ got = [c \in Clients |-> <<>>]
  /\ totals = [c \in Clients |-> {}]

-----------------------------------------------------------------------------
\* The orders of all rows that ORDER BY f ASC (or DESC) may produce.
SortedBy(f, o) ==
  {s \in SetToSeqs(Users) :
     \A i \in 1 .. Len(s) - 1 :
       IF o = "ASC" THEN Key[f][s[i]] <= Key[f][s[i + 1]]
                    ELSE Key[f][s[i]] >= Key[f][s[i + 1]]}

\* A LIMIT that drops the last row of every page.
PageShort(rows, off) ==
  IF off >= Len(rows) THEN <<>>
  ELSE SubSeq(rows, off + 1, Min({off + Limit, Len(rows)}) - 1)

\* .limit(pagination.limit).offset(pagination.offset)
Page(rows, off) ==
  IF off >= Len(rows) THEN <<>>
  ELSE SubSeq(rows, off + 1, Min({off + Limit, Len(rows)}))

\* The total of the response: count() OVER () on the first row, and 0 when
\* the statement returned no row (`if not rows: ... total=0`).
Total(page) == IF page = <<>> THEN 0 ELSE Cardinality(Users)

\* A client starts paging with a sorting of its choice.
Begin(c, f, o) ==
  /\ pc[c] = "idle"
  /\ pc' = [pc EXCEPT ![c] = "paging"]
  /\ sorting' = [sorting EXCEPT ![c] = [field |-> f, order |-> o]]
  /\ UNCHANGED <<offset, got, totals>>

Stop(c, p) == pc' = [pc EXCEPT ![c] = p] /\ UNCHANGED <<sorting, offset, got, totals>>

\* One request for the page at offset[c]: authorize(CanManageRole, USER),
\* then read_all, which rejects a field that is not a column, or fails in
\* the database, or returns the page and its total.
ReadAll(c) ==
  LET f == sorting[c].field IN
  /\ pc[c] = "paging"
  /\ \/ /\ ~CanManageRole(ClientRole[c], "user")
        /\ Stop(c, "forbidden")
     \/ /\ CanManageRole(ClientRole[c], "user")
        /\ f \notin Columns
        /\ Stop(c, "sortingError")
     \/ /\ CanManageRole(ClientRole[c], "user")
        /\ f \in Columns
        /\ Stop(c, "readerError")
     \/ /\ CanManageRole(ClientRole[c], "user")
        /\ f \in Columns
        /\ \E rows \in SortedBy(f, sorting[c].order) :
             LET page == Page(rows, offset[c]) IN
             /\ got' = [got EXCEPT ![c] = @ \o page]
             /\ totals' = [totals EXCEPT ![c] = @ \cup {Total(page)}]
             /\ IF Len(page) < Limit
                  THEN pc' = [pc EXCEPT ![c] = "done"] /\ UNCHANGED offset
                  ELSE offset' = [offset EXCEPT ![c] = @ + Limit] /\ UNCHANGED pc
        /\ UNCHANGED sorting

AllEnded == /\ \A c \in Clients : pc[c] \in Ended
            /\ UNCHANGED vars

Next ==
  \/ \E c \in Clients, f \in Fields, o \in Orders : Begin(c, f, o)
  \/ \E c \in Clients : ReadAll(c)
  \/ AllEnded

Spec == Init /\ [][Next]_vars

-----------------------------------------------------------------------------
\* A client that pages through the whole list receives every user exactly
\* once: consecutive pages of the same sorting neither repeat nor skip a
\* row, whatever order each statement gives to rows that tie.
PagingVisitsEachUserOnce ==
  \A c \in Clients :
    pc[c] = "done" => (Len(got[c]) = Cardinality(Users) /\ ToSet(got[c]) = Users)

====
