------------------------------- MODULE Router -------------------------------
(***************************************************************************)
(* The running gateway around one provider's connections: the goroutines   *)
(* that serve requests, the health checker, the refresh loop and the       *)
(* management handlers, which share the in-memory connections, and the     *)
(* restart of the process (cmd/sage-router/main.go), which loses all of    *)
(* them and keeps the rows.                                                *)
(***************************************************************************)
EXTENDS RequestPath, HealthChecker, RefreshLoop

CONSTANT MayRestart   \* whether restarts are considered

ASSUME RouterAssumption == MayRestart \in BOOLEAN

vars == <<conn, status, req, due, token, failures, visit>>

TypeOK ==
  /\ PoolTypeOK
  /\ RequestTypeOK
  /\ HealthTypeOK
  /\ RefreshTypeOK

Init == PoolInit /\ RequestInit /\ HealthInit /\ RefreshInit

\* Every row is registered again as a fresh connection; the breaker, the
\* timers and what the refresh loop disabled are not persisted.
Restart ==
  /\ MayRestart
  /\ status' = [c \in Conns |-> CASE status[c] = "inserted" -> "registered"
                                  [] status[c] = "row_deleted" -> "removed"
                                  [] OTHER -> status[c]]
  /\ conn' = [c \in Conns |-> Hydrated(status[c])]
  /\ req' = [r \in Requests |-> IdleRequest]
  /\ due' = {}
  /\ visit' = Resting
  /\ UNCHANGED <<token, failures>>

Next ==
  \/ Serve /\ UNCHANGED <<due, refreshVars>>
  \/ HealthCheck /\ UNCHANGED <<req, refreshVars>>
  \/ RefreshNext /\ UNCHANGED <<req, due>>
  \/ (Manage \/ Time) /\ UNCHANGED <<req, due, refreshVars>>
  \/ Restart

Spec == Init /\ [][Next]_vars

\* The scheduler runs every goroutine, upstream calls time out, the clock and
\* the tickers advance, and a sweep of the health checker or of the refresh
\* loop comes round to every connection.
Fairness ==
  /\ \A r \in Requests : WF_vars(Step(r) /\ UNCHANGED <<due, refreshVars>>)
  /\ WF_vars(Tick /\ UNCHANGED <<req, due, refreshVars>>)
  /\ \A c \in Conns :
       /\ SF_vars(Observe(c) /\ UNCHANGED <<req, refreshVars>>)
       /\ WF_vars(Promote(c) /\ UNCHANGED <<req, refreshVars>>)
       /\ SF_vars(Visit(c) /\ UNCHANGED <<req, due>>)
       /\ WF_vars(Refresh(c) /\ UNCHANGED <<req, due>>)

FairSpec == Spec /\ Fairness

-----------------------------------------------------------------------------
(* What holds.                                                             *)

\* At most one request is in flight on a connection (connection.go, the rule
\* Selectable's comment states), however selection, fallback, deletion and
\* refresh interleave.
ExclusiveUse ==
  \A c \in Conns : \A r1, r2 \in Requests : Uses(r1, c) /\ Uses(r2, c) => r1 = r2

\* A connection a request is using is Active, or was disabled under it: no
\* other goroutine's step ever makes it selectable again.
UsedIsNotIdle ==
  \A c \in Conns, r \in Requests : Uses(r, c) => conn[c].lifecycle # "idle"

\* The requests borrow connections as module Lease specifies.
BorrowersOf(c) == {r \in Requests : Uses(r, c)}
LeaseView == INSTANCE Lease WITH
  Resources <- Conns, Clients <- Requests, borrowers <- [c \in Conns |-> BorrowersOf(c)]
ImplementsLease == LeaseView!Spec

\* Only an open breaker has a deadline ahead, and no model lock outlives it:
\* by the time the health checker lets a trial through, every rate-limit lock
\* OpenBreaker ever set is over.
LocksDieWithTheBreaker ==
  \A c \in Conns :
    /\ conn[c].breaker # "open" => conn[c].cooldown = 0
    /\ \A m \in Models : conn[c].locks[m] <= conn[c].cooldown

\* A breaker recovers by way of a trial: no step but a restart takes it from
\* open straight to closed, and none lets the trial go first before the
\* cooldown is over.
RecoveryByTrial ==
  [][\A c \in Conns :
       conn[c].breaker = "open" /\ conn'[c].breaker # "open" =>
         \/ conn'[c].breaker = "half_open" /\ conn[c].cooldown = 0
         \/ Restart]_vars

\* A connection that stays Active with nobody using it was left by one of the
\* returns that do not mark it, or by a mark its facets rejected because
\* another request failed on it between this one's claim and its use.
StrandsOnlyByUnmarkedReturns ==
  [][\A c \in Conns, r \in Requests :
       /\ Uses(r, c) /\ ~ Uses(r, c)'
       /\ conn'[c].lifecycle = "active"
       => \/ c \notin Registered
          \/ req[r].phase = "translating"
          \/ req[r].phase = "attempting" /\ req'[r].phase = "unwinding"
          \/ conn[c].breaker = "open" \/ conn[c].auth # "valid"]_vars

\* A trial slot has somebody who will still release it: the request that is
\* at the connection, or one that has deferred the release.
TrialHasAHolder(c) ==
  conn[c].trial => \E r \in Requests : req[r].cur = c \/ c \in req[r].deferred

\* The one return that orphans the slot of a registered connection is
\* executeRequest's early return on a translation error.
OrphansOnlyByTranslation ==
  [][\A c \in Registered : TrialHasAHolder(c) /\ ~ TrialHasAHolder(c)' =>
       \E r \in Requests : In(r, "translating") /\ req[r].cur = c]_vars

\* No connection is left refreshing, and the outcome of a refresh is never
\* lost: until the loop marks it, nobody else makes the credential valid (a
\* late 401 of a request may put it back to expired, which the success that
\* follows overrides).
RefreshOwnsTheCredential ==
  /\ visit.phase = "entering" => conn[visit.conn].auth = "expired"
  /\ visit.expired /\ visit.phase \in {"calling", "failing", "succeeding"} =>
       conn[visit.conn].auth # "valid"
  /\ \A c \in Conns : conn[c].auth = "refreshing" =>
       visit.conn = c /\ visit.phase \in {"calling", "failing", "succeeding"}

\* A refresh that comes in late never brings back a connection the loop has
\* disabled; the one thing that does, restarts apart, is the outcome of the
\* request that was in flight on it.
DisabledUndoneOnlyByItsUser ==
  [][\A c \in Registered :
       conn[c].lifecycle = "disabled" /\ conn'[c].lifecycle # "disabled" =>
         Restart \/ \E r \in Requests : Uses(r, c) /\ ~ Uses(r, c)']_vars

\* Every request ends, whatever its upstreams answer.
EveryRequestEnds == \A r \in Requests : ~ In(r, "idle") ~> In(r, "idle")

\* An open breaker lets a trial through after its cooldown, unless the
\* connection is deleted first.
OpenRecovers ==
  \A c \in Conns : conn[c].breaker = "open" ~> conn[c].breaker # "open" \/ c \notin Registered

\* An expired subscription credential is refreshed or the connection disabled.
ExpiredSettles ==
  \A c \in Subscriptions :
    conn[c].auth = "expired" ~>
      conn[c].auth = "valid" \/ conn[c].lifecycle = "disabled" \/ ~ Stored(c)

-----------------------------------------------------------------------------
(* What the sources say and the code does not do: run foreign_release.     *)

\* executeRequest: deferring the release unconditionally is safe; it never
\* frees the slot another request has claimed.
ReleasesOwnTrialOnly ==
  [][\A r1, r2 \in Requests, c \in Conns :
       /\ r1 # r2 /\ req[r2].cur = c
       /\ conn[c].trial /\ ~ conn'[c].trial
       => req'[r1].deferred = req[r1].deferred]_vars

=============================================================================
