----------------------------- MODULE RefreshLoop ----------------------------
(***************************************************************************)
(* The subscription refresh loop (internal/auth/refresh/loop.go): one      *)
(* goroutine that sweeps the registered subscription connections, calls    *)
(* the provider's token endpoint for those whose credential is expired or  *)
(* about to expire, writes the new credential to the row, and disables a   *)
(* connection whose refresh keeps failing. The failure counter lives in    *)
(* the row (internal/auth/store.go) and survives restarts.                 *)
(***************************************************************************)
EXTENDS ConnectionPool

CONSTANTS
  Subscriptions,   \* the connections of auth type "subscription"
  DisableAfter,    \* consecutive failures that disable (3 in the code)
  NoVisit          \* the loop is between two connections

ASSUME RefreshAssumption ==
  /\ Subscriptions \subseteq Conns
  /\ DisableAfter \in Nat \ {0}
  /\ NoVisit \notin Conns

VARIABLES
  token,      \* token[c]: the credential in c's row
  failures,   \* failures[c]: refresh_failures in c's row; only its comparison
              \* with DisableAfter matters, so it stops counting there
  visit       \* the refreshOne call in progress

refreshVars == <<token, failures, visit>>

\* "aged": the access token is about to expire, or has; "spent": so it is, and
\* the refresh token is no longer the provider's current one.
Tokens == {"fresh", "aged", "spent"}

VisitPhases == {"resting", "entering", "calling", "failing", "disabling", "succeeding"}

VisitType ==
  [phase   : VisitPhases,
   conn    : Conns \cup {NoVisit},
   expired : BOOLEAN,    \* inAuthExpired
   disable : BOOLEAN]    \* shouldDisable

Resting == [phase |-> "resting", conn |-> NoVisit, expired |-> FALSE, disable |-> FALSE]

RefreshTypeOK ==
  /\ token \in [Conns -> Tokens]
  /\ failures \in [Conns -> 0 .. DisableAfter]
  /\ visit \in VisitType

RefreshInit ==
  /\ token = [c \in Conns |-> "fresh"]
  /\ failures = [c \in Conns |-> 0]
  /\ visit = Resting

-----------------------------------------------------------------------------
(* The provider and the clock.                                             *)

Age(c) ==
  /\ c \in Subscriptions /\ token[c] = "fresh"
  /\ token' = [token EXCEPT ![c] = "aged"]
  /\ UNCHANGED <<poolVars, failures, visit>>

Revoke(c) ==
  /\ c \in Subscriptions /\ token[c] = "aged"
  /\ token' = [token EXCEPT ![c] = "spent"]
  /\ UNCHANGED <<poolVars, failures, visit>>

-----------------------------------------------------------------------------
(* refreshOne.                                                             *)

Due(c) ==
  \/ conn[c].auth = "expired"
  \/ /\ conn[c].auth = "valid"
     /\ conn[c].breaker = "closed"
     /\ conn[c].lifecycle # "disabled"
     /\ token[c] # "fresh"

Visit(c) ==
  /\ visit.phase = "resting"
  /\ c \in Subscriptions \cap Registered /\ Stored(c)
  /\ Due(c)
  /\ LET expired == conn[c].auth = "expired" IN
     visit' = [phase |-> IF expired THEN "entering" ELSE "calling",
               conn |-> c, expired |-> expired, disable |-> FALSE]
  /\ UNCHANGED <<poolVars, token, failures>>

\* MarkRefreshing; were it rejected, the connection would be skipped.
Enter(c) ==
  /\ visit.phase = "entering" /\ visit.conn = c
  /\ SetConn(c, MarkRefreshing(conn[c]))
  /\ visit' = IF conn[c].auth = "expired" THEN [visit EXCEPT !.phase = "calling"] ELSE Resting
  /\ UNCHANGED <<status, token, failures>>

Bumped(c) == IF failures[c] < DisableAfter THEN failures[c] + 1 ELSE failures[c]

\* The refresher fails; the counter is bumped in the row, if the row can be
\* written. A revoked refresh token disables at once.
CallFails(c, revoked) ==
  /\ visit.phase = "calling" /\ visit.conn = c
  /\ token[c] = "spent" => revoked
  /\ \/ /\ Stored(c)
        /\ failures' = [failures EXCEPT ![c] = Bumped(c)]
        /\ visit' = [visit EXCEPT !.phase = "failing",
                                  !.disable = revoked \/ Bumped(c) >= DisableAfter]
     \/ /\ ~ Stored(c) \/ StoreFails
        /\ visit' = [visit EXCEPT !.phase = "failing", !.disable = revoked]
        /\ UNCHANGED failures
  /\ UNCHANGED <<poolVars, token>>

MarkFailed(c) ==
  /\ visit.phase = "failing" /\ visit.conn = c
  /\ SetConn(c, IF visit.expired THEN MarkRefreshFailure(conn[c]) ELSE conn[c])
  /\ visit' = IF visit.disable THEN [visit EXCEPT !.phase = "disabling"] ELSE Resting
  /\ UNCHANGED <<status, token, failures>>

DisableConn(c) ==
  /\ visit.phase = "disabling" /\ visit.conn = c
  /\ SetConn(c, Disable(conn[c]))
  /\ visit' = Resting
  /\ UNCHANGED <<status, token, failures>>

\* The provider answers with a new credential and retires the old refresh
\* token. A failed PutCredential leaves the old one in the row; nothing else
\* keeps the new one, and the in-memory cache is dropped.
CallSucceeds(c) ==
  /\ visit.phase = "calling" /\ visit.conn = c
  /\ token[c] # "spent"
  /\ \/ Stored(c) /\ token' = [token EXCEPT ![c] = "fresh"]
     \/ (~ Stored(c) \/ StoreFails) /\ token' = [token EXCEPT ![c] = "spent"]
  /\ \/ Stored(c) /\ failures' = [failures EXCEPT ![c] = 0]
     \/ (~ Stored(c) \/ StoreFails) /\ UNCHANGED failures
  /\ visit' = [visit EXCEPT !.phase = "succeeding"]
  /\ UNCHANGED poolVars

MarkValid(c) ==
  /\ visit.phase = "succeeding" /\ visit.conn = c
  /\ SetConn(c, IF visit.expired THEN MarkRefreshSuccess(conn[c]) ELSE conn[c])
  /\ visit' = Resting
  /\ UNCHANGED <<status, token, failures>>

-----------------------------------------------------------------------------
Refresh(c) ==
  \/ Enter(c) \/ CallSucceeds(c) \/ \E revoked \in BOOLEAN : CallFails(c, revoked)
  \/ MarkFailed(c) \/ DisableConn(c) \/ MarkValid(c)

RefreshNext == \E c \in Conns : Age(c) \/ Revoke(c) \/ Visit(c) \/ Refresh(c)

=============================================================================
