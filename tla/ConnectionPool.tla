--------------------------- MODULE ConnectionPool ---------------------------
(***************************************************************************)
(* The connections of one provider: the Selector's registry                *)
(* (internal/provider/selector.go), the rows of the connections table, and *)
(* the management handlers that create and delete them                     *)
(* (internal/server/routes_api.go). Requests, the health checker and the   *)
(* refresh loop share these connections.                                   *)
(***************************************************************************)
EXTENDS Connection

CONSTANTS
  Conns,   \* connection IDs; an ID is never reused
  Serves,  \* Serves[c]: the models the static subscription allowlist permits
  Managed,    \* the connections the operator creates, edits and deletes
  StoreFails  \* whether the database may fail on a row that is there

ASSUME PoolAssumption ==
  /\ Serves \in [Conns -> SUBSET Models]
  /\ Managed \subseteq Conns
  /\ StoreFails \in BOOLEAN

VARIABLES
  conn,    \* conn[c]: the in-memory connection
  status   \* status[c]: where c is between creation and deletion

poolVars == <<conn, status>>

\* "inserted": the row exists, the Selector does not know c yet;
\* "suspended": registered, and the state column of the row says "disabled";
\* "row_deleted": the row is gone, the Selector still hands c out.
Statuses == {"absent", "inserted", "registered", "suspended", "row_deleted", "removed"}

Stored(c) == status[c] \in {"inserted", "registered", "suspended"}
Registered == {c \in Conns : status[c] \in {"registered", "suspended", "row_deleted"}}

PoolTypeOK ==
  /\ conn \in [Conns -> ConnectionType]
  /\ status \in [Conns -> Statuses]

\* hydrateConnection: what the process makes of a row when it starts. Only a
\* disabled state is carried over.
Hydrated(st) == IF st = "suspended" THEN Disable(NewConnection) ELSE NewConnection

PoolInit ==
  /\ status \in [Conns -> {"absent", "registered", "suspended"}]
  /\ \A c \in Conns \ Managed : status[c] = "registered"
  /\ conn = [c \in Conns |-> Hydrated(status[c])]

SetConn(c, k) == conn' = [conn EXCEPT ![c] = k]
MoveStatus(c, from, to) == status[c] = from /\ status' = [status EXCEPT ![c] = to]

Selectable(c, m) == SelectableLocked(conn[c], m) /\ m \in Serves[c]

-----------------------------------------------------------------------------
\* handleCreateConnection: insert the row, then register a fresh connection.
InsertRow(c) == MoveStatus(c, "absent", "inserted") /\ UNCHANGED conn

Register(c) == MoveStatus(c, "inserted", "registered") /\ SetConn(c, NewConnection)

\* handleUpdateConnection: an operator sets the state of the row. The
\* connection in memory is not told.
Suspend(c) == MoveStatus(c, "registered", "suspended") /\ UNCHANGED conn

Unsuspend(c) == MoveStatus(c, "suspended", "registered") /\ UNCHANGED conn

\* handleDeleteConnection: delete the row, then remove c from the Selector.
\* Goroutines that hold a pointer to c keep it.
DeleteRow(c) ==
  \E st \in {"registered", "suspended"} : MoveStatus(c, st, "row_deleted") /\ UNCHANGED conn

Remove(c) == MoveStatus(c, "row_deleted", "removed") /\ UNCHANGED conn

Manage ==
  \E c \in Managed :
    InsertRow(c) \/ Register(c) \/ Suspend(c) \/ Unsuspend(c) \/ DeleteRow(c) \/ Remove(c)

-----------------------------------------------------------------------------
\* Time passes: deadlines come closer; a denylist entry's hour runs out.
Tick ==
  /\ \E c \in Conns : Elapse(conn[c]) # conn[c]
  /\ conn' = [c \in Conns |-> Elapse(conn[c])]
  /\ UNCHANGED status

DenialExpires(c, m) ==
  /\ m \in conn[c].denied
  /\ SetConn(c, [conn[c] EXCEPT !.denied = @ \ {m}])
  /\ UNCHANGED status

Time == Tick \/ \E c \in Conns, m \in Models : DenialExpires(c, m)

=============================================================================
