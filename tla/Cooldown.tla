------------------------------ MODULE Cooldown ------------------------------
(***************************************************************************)
(* How long an opened breaker keeps its connection out of rotation         *)
(* (internal/provider/cooldown.go), in seconds. Connection leaves the      *)
(* duration open: module RequestPath lets OpenBreaker take any positive    *)
(* one, and the assumptions below, which TLC evaluates over every level a  *)
(* breaker can have and beyond, say that this covers what the code         *)
(* computes.                                                               *)
(***************************************************************************)
EXTENDS Integers

BaseCooldown == 1
RateLimitBase == 60
ErroredBase == 5
QuotaFallback == 3600
Ceiling == 120           \* MaxCooldown
RateLimitCeiling == 900
TopLevel == 15           \* MaxBackoffLevel

Clamped(level) == IF level < 0 THEN 0 ELSE IF level > TopLevel THEN TopLevel ELSE level

\* CalculateCooldown and scaledCooldown. The shift cannot overflow: the level
\* is clamped, so the guard against a non-positive product is never taken.
Scaled(base, level, max) ==
  LET d == base * 2 ^ Clamped(level) IN IF d > max \/ d <= 0 THEN max ELSE d

\* hint is what the upstream asked for, 0 if nothing.
CooldownFor(kind, level, hint) ==
  CASE kind = "rate_limit" /\ hint > 0 -> hint
    [] kind = "rate_limit" /\ hint <= 0 -> Scaled(RateLimitBase, level, RateLimitCeiling)
    [] kind = "quota_exhausted" -> IF hint > 0 THEN hint ELSE QuotaFallback
    [] kind = "errored" -> Scaled(ErroredBase, level, Ceiling)
    [] OTHER -> Scaled(BaseCooldown, level, Ceiling)

-----------------------------------------------------------------------------
Kinds == {"rate_limit", "quota_exhausted", "errored", "transient", ""}
Levels == -1 .. TopLevel + 1
Hints == {-1, 0, 1, 7200}

\* Every cooldown is positive, so an opened breaker stays open for a while;
\* without a hint none is longer than an hour; and a longer run of failures
\* never shortens it.
ASSUME CooldownIsPositive ==
  \A kind \in Kinds, level \in Levels, hint \in Hints : CooldownFor(kind, level, hint) > 0

ASSUME CooldownIsBounded ==
  \A kind \in Kinds, level \in Levels : CooldownFor(kind, level, 0) <= QuotaFallback

ASSUME CooldownNeverShrinks ==
  \A kind \in Kinds, level \in Levels \ {TopLevel + 1}, hint \in Hints :
    CooldownFor(kind, level, hint) <= CooldownFor(kind, level + 1, hint)

=============================================================================
