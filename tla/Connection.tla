----------------------------- MODULE Connection -----------------------------
(***************************************************************************)
(* One upstream connection (internal/provider/connection.go). A connection *)
(* is a record; each exported method, which runs under the connection's    *)
(* mutex, is an operator from the record before the call to the record     *)
(* after it. A method whose transition the tables reject returns the       *)
(* record unchanged.                                                       *)
(*                                                                         *)
(* Deadlines are kept as the time left, in ticks: cooldown is what remains *)
(* of cooldownUntil, locks[m] of the rate-limit lock of model m; 0 is a    *)
(* deadline in the past. denied holds the models under a live denylist     *)
(* entry. Usage counters and quota windows only order candidates (module   *)
(* Ranking); lastError only feeds the dashboard. Enable and ResetCooldown, *)
(* the operator's overrides, have no caller in the program.                *)
(***************************************************************************)
EXTENDS Facets, Naturals

CONSTANTS
  Models,           \* the models clients ask for
  MaxBackoffLevel,  \* cap on the backoff level (15 in the code)
  MaxCooldown       \* the longest cooldown, in ticks

ASSUME ConnectionAssumption ==
  /\ Models # {}
  /\ MaxBackoffLevel \in Nat \ {0}
  /\ MaxCooldown \in Nat \ {0}

ConnectionType ==
  [breaker     : BreakerStates,
   auth        : AuthStates,
   lifecycle   : LifecycleStates,
   failureKind : FailureKinds,
   trial       : BOOLEAN,              \* halfOpenInFlight
   backoff     : 0 .. MaxBackoffLevel,
   cooldown    : 0 .. MaxCooldown,
   locks       : [Models -> 0 .. MaxCooldown],
   denied      : SUBSET Models]

NewConnection ==
  [breaker |-> "closed", auth |-> "valid", lifecycle |-> "idle",
   failureKind |-> "", trial |-> FALSE, backoff |-> 0, cooldown |-> 0,
   locks |-> [m \in Models |-> 0], denied |-> {}]

-----------------------------------------------------------------------------
(* The request lifecycle.                                                  *)

\* Mutant: MarkUsed forgets that an Active connection is taken.
CanBeUsed_EvenActive(k) == k.lifecycle # "disabled"

CanBeUsed(k) == CanTransitionLifecycle(k.lifecycle, "active")

MarkUsed(k) == IF CanBeUsed(k) THEN [k EXCEPT !.lifecycle = "active"] ELSE k

\* What returning a request does to the lifecycle: Active becomes Idle, and
\* Disabled stays Disabled.
Returned(k) == IF k.lifecycle = "active" THEN "idle" ELSE k.lifecycle

\* The guard asks whether the lifecycle may move to Idle, which a Disabled
\* connection may too. Expired model locks are collected: at 0 they already are.
MarkSuccess(k) ==
  IF CanTransitionLifecycle(k.lifecycle, "idle")
    THEN [k EXCEPT !.lifecycle = "idle",
                   !.breaker = IF @ = "half_open" THEN "closed" ELSE @,
                   !.failureKind = IF k.breaker = "half_open" THEN "" ELSE @,
                   !.trial = FALSE,
                   !.backoff = 0]
    ELSE k

Disable(k) ==
  IF CanTransitionLifecycle(k.lifecycle, "disabled")
    THEN [k EXCEPT !.lifecycle = "disabled"] ELSE k

-----------------------------------------------------------------------------
(* The credential.                                                         *)

\* Mutant: the connection is not returned.
MarkAuthExpired_StaysActive(k) ==
  IF CanTransitionAuth(k.auth, "expired") THEN [k EXCEPT !.auth = "expired"] ELSE k

MarkAuthExpired(k) ==
  IF CanTransitionAuth(k.auth, "expired")
    THEN [k EXCEPT !.auth = "expired", !.lifecycle = Returned(k)] ELSE k

MarkRefreshing(k) == IF k.auth = "expired" THEN [k EXCEPT !.auth = "refreshing"] ELSE k

\* Mutant: a refreshed connection is made idle, as with a single state machine.
MarkRefreshSuccess_Idles(k) ==
  IF CanTransitionAuth(k.auth, "valid")
    THEN [k EXCEPT !.auth = "valid", !.lifecycle = "idle", !.backoff = 0] ELSE k

MarkRefreshSuccess(k) ==
  IF CanTransitionAuth(k.auth, "valid")
    THEN [k EXCEPT !.auth = "valid", !.backoff = 0] ELSE k

\* Mutant: only the error is recorded.
MarkRefreshFailure_ErrorOnly(k) == k

MarkRefreshFailure(k) ==
  IF CanTransitionAuth(k.auth, "expired") THEN [k EXCEPT !.auth = "expired"] ELSE k

\* A model-level 403: the model is refused for the denylist's TTL.
RecordModelRejection(k, m) == [k EXCEPT !.denied = @ \cup {m}]

-----------------------------------------------------------------------------
(* The circuit breaker.                                                    *)

\* Mutant: the backoff level is not capped.
OpenBreaker_NoCap(k, kind, d, m) ==
  IF CanTransitionBreaker(k.breaker, "open")
    THEN [k EXCEPT !.breaker = "open", !.failureKind = kind, !.backoff = @ + 1,
                   !.cooldown = d, !.locks = [@ EXCEPT ![m] = d],
                   !.lifecycle = Returned(k), !.trial = FALSE]
    ELSE k

\* d is the cooldown CooldownFor computes for the failure, in ticks.
OpenBreaker(k, kind, d, m) ==
  IF CanTransitionBreaker(k.breaker, "open")
    THEN [k EXCEPT !.breaker = "open",
                   !.failureKind = kind,
                   !.backoff = IF @ < MaxBackoffLevel THEN @ + 1 ELSE @,
                   !.cooldown = d,
                   !.locks = [@ EXCEPT ![m] = d],
                   !.lifecycle = Returned(k),
                   !.trial = FALSE]
    ELSE k

ToHalfOpen(k) ==
  IF CanTransitionBreaker(k.breaker, "half_open")
    THEN [k EXCEPT !.breaker = "half_open", !.trial = FALSE] ELSE k

\* The selectability rule without the static subscription allowlist, which
\* module ConnectionPool adds.
SelectableLocked(k, m) ==
  /\ k.breaker \in {"closed", "half_open"}
  /\ k.auth = "valid"
  /\ k.lifecycle = "idle"
  /\ k.locks[m] = 0
  /\ m \notin k.denied

\* TryClaimHalfOpenTrial on a selectable connection: a CLOSED breaker claims
\* nothing, a HALF_OPEN one needs the trial slot to be free and takes it.
TrialFree(k) == k.breaker = "half_open" => ~k.trial
ClaimTrial(k) == [k EXCEPT !.trial = @ \/ k.breaker = "half_open"]

ReleaseHalfOpenTrial(k) == [k EXCEPT !.trial = FALSE]

-----------------------------------------------------------------------------
\* One tick of the clock brings every deadline closer.
Sooner(n) == IF n = 0 THEN 0 ELSE n - 1
Elapse(k) == [k EXCEPT !.cooldown = Sooner(@),
                       !.locks = [m \in Models |-> Sooner(@[m])]]

=============================================================================
