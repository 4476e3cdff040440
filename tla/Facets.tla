------------------------------- MODULE Facets -------------------------------
(***************************************************************************)
(* The three orthogonal health facets of an upstream connection            *)
(* (internal/provider/facets.go): a circuit breaker, the validity of its   *)
(* credential, and the request lifecycle, each with its transition table.  *)
(***************************************************************************)

BreakerStates == {"closed", "open", "half_open"}
AuthStates == {"valid", "expired", "refreshing"}
LifecycleStates == {"idle", "active", "disabled"}

\* Why a breaker opened; "" is Go's zero value, the kind of a healthy breaker.
FailureKinds == {"", "rate_limit", "quota_exhausted", "transient", "errored"}

\* The legal moves, as pairs <<from, to>>. No table has a self-loop: a facet
\* that is asked to move to where it already is rejects the transition.
BreakerMoves ==
  {<<"closed", "open">>, <<"open", "half_open">>,
   <<"half_open", "closed">>, <<"half_open", "open">>}
AuthMoves ==
  {<<"valid", "expired">>, <<"valid", "refreshing">>,
   <<"expired", "refreshing">>, <<"expired", "valid">>,
   <<"refreshing", "valid">>, <<"refreshing", "expired">>}
LifecycleMoves ==
  {<<"idle", "active">>, <<"idle", "disabled">>,
   <<"active", "idle">>, <<"active", "disabled">>,
   <<"disabled", "idle">>}

CanTransitionBreaker(from, to) == <<from, to>> \in BreakerMoves
CanTransitionAuth(from, to) == <<from, to>> \in AuthMoves
CanTransitionLifecycle(from, to) == <<from, to>> \in LifecycleMoves

=============================================================================
