--------------------------- MODULE HealthChecker ----------------------------
(***************************************************************************)
(* The background health checker (internal/provider/health.go). Its one    *)
(* goroutine visits the registered connections in turn. A visit reads the  *)
(* breaker and the cooldown under the lock, gives the lock up, and only    *)
(* then calls ToHalfOpen, which takes it again.                            *)
(***************************************************************************)
EXTENDS ConnectionPool

VARIABLE
  due   \* {c}: the visit to c found an elapsed cooldown; {}: between visits

HealthTypeOK == due = {} \/ \E c \in Conns : due = {c}

HealthInit == due = {}

\* Mutant: the cooldown is not looked at.
Observe_AnyOpen(c) ==
  /\ due = {}
  /\ c \in Registered
  /\ conn[c].breaker = "open"
  /\ due' = {c}
  /\ UNCHANGED poolVars

\* Mutant: the deadline is compared the wrong way round.
Observe_BeforeDeadline(c) ==
  /\ due = {}
  /\ c \in Registered
  /\ conn[c].breaker = "open" /\ conn[c].cooldown > 0
  /\ due' = {c}
  /\ UNCHANGED poolVars

Observe(c) ==
  /\ due = {}
  /\ c \in Registered
  /\ conn[c].breaker = "open" /\ conn[c].cooldown = 0
  /\ due' = {c}
  /\ UNCHANGED poolVars

Promote(c) ==
  /\ c \in due
  /\ SetConn(c, ToHalfOpen(conn[c]))
  /\ due' = {}
  /\ UNCHANGED status

HealthCheck == \E c \in Conns : Observe(c) \/ Promote(c)

=============================================================================
