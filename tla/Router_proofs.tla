---------------------------- MODULE Router_proofs ----------------------------
(***************************************************************************)
(* What module Router promises, for any connections, models, goroutines    *)
(* and thresholds, in four parts, each resting on the ones before it:      *)
(*                                                                         *)
(*   1. types: lemmas about the methods of a connection, each of which     *)
(*      keeps the connection's type, and what each does to the facets that *)
(*      the invariants speak of. The record of a connection is expanded in *)
(*      these lemmas and nowhere else.                                     *)
(*   2. lending: a connection serves one request at a time, and the whole  *)
(*      gateway implements module Lease.                                   *)
(*   3. the breaker and the credential: no lock outlives the cooldown of   *)
(*      its breaker, a breaker recovers only by way of a trial, and only   *)
(*      the refresh loop makes a credential valid again.                   *)
(*   4. what a step may never do: strand a connection, orphan a trial slot *)
(*      or undo a disabling, but in the ways named.                        *)
(***************************************************************************)
EXTENDS Router, TLAPS, SequenceTheorems

-----------------------------------------------------------------------------
(***************************************************************************)
(* Part 1: types.                                                          *)
(***************************************************************************)

(* The methods of a connection.                                            *)

LEMMA NewConnectionType == NewConnection \in ConnectionType
  BY ConnectionAssumption
  DEF NewConnection, ConnectionType, BreakerStates, AuthStates, LifecycleStates, FailureKinds

LEMMA ReturnedType ==
  ASSUME NEW k \in ConnectionType
  PROVE  Returned(k) \in LifecycleStates
  BY DEF Returned, ConnectionType, LifecycleStates

\* The methods without a parameter keep the type.
LEMMA MethodTypes ==
  ASSUME NEW k \in ConnectionType
  PROVE  /\ MarkUsed(k) \in ConnectionType
         /\ MarkSuccess(k) \in ConnectionType
         /\ Disable(k) \in ConnectionType
         /\ MarkAuthExpired(k) \in ConnectionType
         /\ MarkRefreshing(k) \in ConnectionType
         /\ MarkRefreshSuccess(k) \in ConnectionType
         /\ MarkRefreshFailure(k) \in ConnectionType
         /\ ToHalfOpen(k) \in ConnectionType
         /\ ClaimTrial(k) \in ConnectionType
         /\ ReleaseHalfOpenTrial(k) \in ConnectionType
<1>1. 0 \in 0 .. MaxBackoffLevel
  BY ConnectionAssumption
<1>2. MarkUsed(k) \in ConnectionType /\ Disable(k) \in ConnectionType
  BY DEF MarkUsed, Disable, ConnectionType, LifecycleStates
<1>3. MarkSuccess(k) \in ConnectionType
  BY <1>1
  DEF MarkSuccess, ConnectionType, BreakerStates, LifecycleStates, FailureKinds
<1>4. MarkAuthExpired(k) \in ConnectionType
  BY ReturnedType DEF MarkAuthExpired, ConnectionType, AuthStates
<1>5. /\ MarkRefreshing(k) \in ConnectionType
      /\ MarkRefreshFailure(k) \in ConnectionType
  BY DEF MarkRefreshing, MarkRefreshFailure, ConnectionType, AuthStates
<1>6. MarkRefreshSuccess(k) \in ConnectionType
  BY <1>1 DEF MarkRefreshSuccess, ConnectionType, AuthStates
<1>7. ToHalfOpen(k) \in ConnectionType
  BY DEF ToHalfOpen, ConnectionType, BreakerStates
<1>8. ClaimTrial(k) \in ConnectionType /\ ReleaseHalfOpenTrial(k) \in ConnectionType
  BY DEF ClaimTrial, ReleaseHalfOpenTrial, ConnectionType
<1> QED
  BY <1>2, <1>3, <1>4, <1>5, <1>6, <1>7, <1>8

LEMMA CappedBackoff ==
  \A n \in 0 .. MaxBackoffLevel :
    (IF n < MaxBackoffLevel THEN n + 1 ELSE n) \in 0 .. MaxBackoffLevel
  BY ConnectionAssumption

LEMMA OpenBreakerType ==
  ASSUME NEW k \in ConnectionType, NEW kind \in FailureKinds,
         NEW d \in 0 .. MaxCooldown, NEW m \in Models
  PROVE  OpenBreaker(k, kind, d, m) \in ConnectionType
<1>1. k.backoff \in 0 .. MaxBackoffLevel /\ "open" \in BreakerStates
  BY DEF ConnectionType, BreakerStates
<1>2. (IF k.backoff < MaxBackoffLevel THEN k.backoff + 1 ELSE k.backoff)
        \in 0 .. MaxBackoffLevel
  BY <1>1, CappedBackoff
<1>3. [k.locks EXCEPT ![m] = d] \in [Models -> 0 .. MaxCooldown]
  BY DEF ConnectionType
<1> QED
  BY <1>1, <1>2, <1>3, ReturnedType DEF OpenBreaker, ConnectionType

LEMMA RecordModelRejectionType ==
  ASSUME NEW k \in ConnectionType, NEW m \in Models
  PROVE  RecordModelRejection(k, m) \in ConnectionType
  BY DEF RecordModelRejection, ConnectionType

LEMMA ElapseType ==
  ASSUME NEW k \in ConnectionType
  PROVE  Elapse(k) \in ConnectionType
<1>1. \A n \in 0 .. MaxCooldown : Sooner(n) \in 0 .. MaxCooldown
  BY ConnectionAssumption DEF Sooner
<1> QED
  BY <1>1 DEF Elapse, ConnectionType


-----------------------------------------------------------------------------
(* What the methods do to the facets.                                      *)

\* Only MarkUsed makes an idle connection active, and only an idle one; what
\* the methods of the background loops do keeps the lifecycle or disables.
LEMMA LifecycleEffects ==
  ASSUME NEW k \in ConnectionType
  PROVE  /\ CanBeUsed(k) => k.lifecycle = "idle" /\ MarkUsed(k).lifecycle = "active"
         /\ Disable(k).lifecycle = "disabled"
         /\ \A k2 \in {MarkRefreshing(k), MarkRefreshSuccess(k), MarkRefreshFailure(k),
                       ToHalfOpen(k), ClaimTrial(k), ReleaseHalfOpenTrial(k), Elapse(k)} :
              k2.lifecycle = k.lifecycle
<1>1. CanBeUsed(k) => k.lifecycle = "idle" /\ MarkUsed(k).lifecycle = "active"
  BY DEF CanBeUsed, MarkUsed, CanTransitionLifecycle, LifecycleMoves, ConnectionType
<1>2. Disable(k).lifecycle = "disabled"
  BY DEF Disable, CanTransitionLifecycle, LifecycleMoves, ConnectionType, LifecycleStates
<1>3. /\ MarkRefreshing(k).lifecycle = k.lifecycle
      /\ MarkRefreshSuccess(k).lifecycle = k.lifecycle
      /\ MarkRefreshFailure(k).lifecycle = k.lifecycle
  BY DEF MarkRefreshing, MarkRefreshSuccess, MarkRefreshFailure, ConnectionType
<1>4. /\ ToHalfOpen(k).lifecycle = k.lifecycle
      /\ ClaimTrial(k).lifecycle = k.lifecycle
      /\ ReleaseHalfOpenTrial(k).lifecycle = k.lifecycle
      /\ Elapse(k).lifecycle = k.lifecycle
  BY DEF ToHalfOpen, ClaimTrial, ReleaseHalfOpenTrial, Elapse, ConnectionType
<1> QED
  BY <1>1, <1>2, <1>3, <1>4


\* k2 has the deadlines of k, and is open when k is.
SameDeadlines(k, k2) ==
  /\ k2.cooldown = k.cooldown /\ k2.locks = k.locks
  /\ k2.breaker = "open" <=> k.breaker = "open"

\* k2 is k after its breaker opened for d.
Opened(k, k2) ==
  /\ k.breaker # "open" /\ k2.breaker = "open"
  /\ \E d \in 0 .. MaxCooldown, m \in Models :
       k2.cooldown = d /\ k2.locks = [k.locks EXCEPT ![m] = d]

LEMMA BreakerEffects ==
  ASSUME NEW k \in ConnectionType, NEW m \in Models, NEW d \in 0 .. MaxCooldown, NEW kind
  PROVE  /\ \A k2 \in {MarkUsed(k), MarkSuccess(k), Disable(k), MarkAuthExpired(k),
                       MarkRefreshing(k), MarkRefreshSuccess(k), MarkRefreshFailure(k),
                       ClaimTrial(k), ReleaseHalfOpenTrial(k),
                       MarkSuccess(RecordModelRejection(k, m))} : SameDeadlines(k, k2)
         /\ SameDeadlines(k, OpenBreaker(k, kind, d, m)) \/ Opened(k, OpenBreaker(k, kind, d, m))
<1>1. /\ SameDeadlines(k, MarkUsed(k))
      /\ SameDeadlines(k, Disable(k))
      /\ SameDeadlines(k, MarkAuthExpired(k))
  BY DEF SameDeadlines, MarkUsed, Disable, MarkAuthExpired, ConnectionType
<1>2. /\ SameDeadlines(k, MarkRefreshing(k))
      /\ SameDeadlines(k, MarkRefreshSuccess(k))
      /\ SameDeadlines(k, MarkRefreshFailure(k))
  BY DEF SameDeadlines, MarkRefreshing, MarkRefreshSuccess, MarkRefreshFailure, ConnectionType
<1>3. SameDeadlines(k, ClaimTrial(k)) /\ SameDeadlines(k, ReleaseHalfOpenTrial(k))
  BY DEF SameDeadlines, ClaimTrial, ReleaseHalfOpenTrial, ConnectionType
<1>4. \A k1 \in ConnectionType : SameDeadlines(k1, MarkSuccess(k1))
  BY DEF SameDeadlines, MarkSuccess, ConnectionType
<1>5. SameDeadlines(k, MarkSuccess(RecordModelRejection(k, m)))
  <2>1. RecordModelRejection(k, m) \in ConnectionType
    BY RecordModelRejectionType
  <2>2. SameDeadlines(k, RecordModelRejection(k, m))
    BY DEF SameDeadlines, RecordModelRejection, ConnectionType
  <2> QED
    BY <1>4, <2>1, <2>2 DEF SameDeadlines
<1>6. SameDeadlines(k, OpenBreaker(k, kind, d, m)) \/ Opened(k, OpenBreaker(k, kind, d, m))
  <2>1. CASE CanTransitionBreaker(k.breaker, "open")
    <3>1. k.breaker # "open"
      BY <2>1 DEF CanTransitionBreaker, BreakerMoves
    <3> QED
      BY <2>1, <3>1 DEF Opened, OpenBreaker, ConnectionType
  <2>2. CASE ~ CanTransitionBreaker(k.breaker, "open")
    BY <2>2 DEF SameDeadlines, OpenBreaker
  <2> QED
    BY <2>1, <2>2
<1> QED
  BY <1>1, <1>2, <1>3, <1>4, <1>5, <1>6

\* The health checker's move, and the clock's.
LEMMA TimedEffects ==
  ASSUME NEW k \in ConnectionType
  PROVE  /\ ToHalfOpen(k).cooldown = k.cooldown /\ ToHalfOpen(k).locks = k.locks
         /\ k.breaker = "open" => ToHalfOpen(k).breaker = "half_open"
         /\ k.breaker # "open" => ToHalfOpen(k) = k
         /\ Elapse(k).breaker = k.breaker
         /\ Elapse(k).cooldown = Sooner(k.cooldown)
         /\ \A m \in Models : Elapse(k).locks[m] = Sooner(k.locks[m])
<1>1. k.breaker \in BreakerStates
  BY DEF ConnectionType
<1>2. /\ k.breaker = "open" => ToHalfOpen(k).breaker = "half_open"
      /\ k.breaker # "open" => ToHalfOpen(k) = k
      /\ ToHalfOpen(k).cooldown = k.cooldown /\ ToHalfOpen(k).locks = k.locks
  BY DEF ToHalfOpen, CanTransitionBreaker, BreakerMoves, ConnectionType
<1>3. /\ Elapse(k).breaker = k.breaker
      /\ Elapse(k).cooldown = Sooner(k.cooldown)
      /\ \A m \in Models : Elapse(k).locks[m] = Sooner(k.locks[m])
  BY DEF Elapse, ConnectionType
<1> QED
  BY <1>2, <1>3

-----------------------------------------------------------------------------
(* Types.                                                                  *)

LEMMA HydratedType == \A st : Hydrated(st) \in ConnectionType
  BY NewConnectionType, MethodTypes DEF Hydrated

LEMMA NewRequestType ==
  ASSUME NEW walk \in Seq(Models), walk # <<>>
  PROVE  NewRequest(walk) \in RequestType
<1>1. Head(walk) \in Models /\ Tail(walk) \in Seq(Models)
  BY HeadTailProperties
<1> QED
  BY <1>1 DEF NewRequest, RequestType, Phases, Results

LEMMA IdleRequestType == IdleRequest \in RequestType
<1> DEFINE walk == <<CHOOSE m \in Models : TRUE>>
<1>1. (CHOOSE m \in Models : TRUE) \in Models
  BY ConnectionAssumption
<1>2. walk \in Seq(Models) /\ walk # <<>>
  BY <1>1
<1>3. NewRequest(walk) \in RequestType
  BY <1>2, NewRequestType
<1> QED
  BY <1>3 DEF IdleRequest, RequestType, Phases

LEMMA MemberFailsType ==
  ASSUME NEW q \in RequestType
  PROVE  MemberFails(q) \in RequestType
<1>1. CASE q.inExec
  BY <1>1 DEF MemberFails, RequestType, Phases
<1>2. CASE ~ q.inExec /\ q.rest # <<>> /\ ~ q.gone
  <2>1. q.rest \in Seq(Models)
    BY DEF RequestType
  <2> QED
    BY <1>2, <2>1, NewRequestType DEF MemberFails
<1>3. CASE ~ q.inExec /\ ~ (q.rest # <<>> /\ ~ q.gone)
  BY <1>3, IdleRequestType DEF MemberFails
<1> QED
  BY <1>1, <1>2, <1>3

LEMMA FallbackType ==
  ASSUME NEW q \in RequestType, NEW result \in Results, q.cur \in Conns
  PROVE  Fallback(q, result) \in RequestType
  BY DEF Fallback, RequestType, Phases

LEMMA DeferringType ==
  ASSUME NEW q \in RequestType
  PROVE  Deferring(q) \in RequestType
<1>1. {q.cur} \cap Registered \in SUBSET Conns
  BY DEF Registered
<1> QED
  BY <1>1 DEF Deferring, RequestType

LEMMA MarkResultType ==
  ASSUME NEW k \in ConnectionType, NEW outcome \in AllOutcomes,
         NEW m \in Models, NEW d \in 1 .. MaxCooldown
  PROVE  MarkResult(k, outcome, m, d) \in ConnectionType
<1>1. d \in 0 .. MaxCooldown
  BY ConnectionAssumption
<1>2. \A kind \in FailureKinds : OpenBreaker(k, kind, d, m) \in ConnectionType
  BY <1>1, OpenBreakerType
<1>3. "transient" \in FailureKinds /\ "rate_limit" \in FailureKinds
  BY DEF FailureKinds
<1>4. MarkSuccess(RecordModelRejection(k, m)) \in ConnectionType
  BY RecordModelRejectionType, MethodTypes
<1> QED
  BY <1>2, <1>3, <1>4, MethodTypes DEF MarkResult


-----------------------------------------------------------------------------
(* Type correctness. TypeOK is not inductive by itself: a step that excludes *)
(* or marks the connection in hand needs to know that there is one.        *)

\* The phases in which a goroutine always has a connection in hand.
HoldingPhases ==
  {"claimed", "dropping", "lookup", "translating", "attempting", "upstream", "forwarding"}

HoldsAConnection ==
  \A r \in Requests :
    /\ req[r].phase \in HoldingPhases => req[r].cur # None
    /\ req[r].result = "served" =>
         req[r].phase \in {"unwinding", "forwarding"} /\ req[r].cur # None

TypeInv == TypeOK /\ HoldsAConnection

\* What HoldsAConnection asks of one goroutine.
Holding(q) ==
  /\ q.phase \in HoldingPhases => q.cur # None
  /\ q.result = "served" => q.phase \in {"unwinding", "forwarding"} /\ q.cur # None

LEMMA SetConnType ==
  ASSUME PoolTypeOK, NEW c, NEW k \in ConnectionType, SetConn(c, k)
  PROVE  conn' \in [Conns -> ConnectionType]
  BY DEF PoolTypeOK, SetConn

LEMMA SetReqType ==
  ASSUME TypeInv, NEW r \in Requests, NEW q \in RequestType, Holding(q), SetReq(r, q)
  PROVE  RequestTypeOK' /\ HoldsAConnection'
<1>1. RequestTypeOK /\ HoldsAConnection
  BY DEF TypeInv, TypeOK
<1>2. RequestTypeOK'
  BY <1>1 DEF RequestTypeOK, SetReq
<1>3. \A s \in Requests : req'[s] = IF s = r THEN q ELSE req[s]
  BY <1>1 DEF RequestTypeOK, SetReq
<1>4. HoldsAConnection'
  BY <1>1, <1>3 DEF HoldsAConnection, Holding
<1> QED
  BY <1>2, <1>4

LEMMA MemberFailsHolding ==
  ASSUME NEW q \in RequestType, q.result # "served"
  PROVE  Holding(MemberFails(q))
<1>1. CASE q.inExec
  BY <1>1 DEF MemberFails, Holding, HoldingPhases, RequestType
<1>2. CASE ~ q.inExec
  BY <1>2 DEF MemberFails, Holding, HoldingPhases, NewRequest, IdleRequest
<1> QED
  BY <1>1, <1>2

LEMMA StepTypes ==
  ASSUME TypeInv, NEW r \in Requests, Step(r) \/ Client(r)
  PROVE  PoolTypeOK' /\ RequestTypeOK' /\ HoldsAConnection'
<1> DEFINE Q == req[r]
<1>1. PoolTypeOK /\ Q \in RequestType /\ Holding(Q)
  BY DEF TypeInv, TypeOK, RequestTypeOK, HoldsAConnection, Holding
<1>2. ASSUME NEW q \in RequestType, Holding(q), SetReq(r, q),
             conn' \in [Conns -> ConnectionType], UNCHANGED status
      PROVE  PoolTypeOK' /\ RequestTypeOK' /\ HoldsAConnection'
  BY <1>1, <1>2, SetReqType DEF PoolTypeOK
<1>3. ASSUME UNCHANGED poolVars
      PROVE  conn' \in [Conns -> ConnectionType] /\ UNCHANGED status
  BY <1>1, <1>3 DEF PoolTypeOK, poolVars
<1>4. ASSUME NEW c, NEW k \in ConnectionType, SetConn(c, k)
      PROVE  conn' \in [Conns -> ConnectionType]
  BY <1>1, <1>4, SetConnType
<1>5. \A c \in Conns : conn[c] \in ConnectionType
  BY <1>1 DEF PoolTypeOK
<1>6. Q.phase \in HoldingPhases => Q.cur \in Conns
  BY <1>1 DEF Holding, RequestType
<1>7. Q.phase \notin {"unwinding", "forwarding"} => Q.result # "served"
  BY <1>1 DEF Holding
<1>8. ASSUME NEW outcome \in AllOutcomes, Q.cur \in Conns, Mark(r, outcome)
      PROVE  conn' \in [Conns -> ConnectionType] /\ UNCHANGED status
  <2>1. CASE Q.cur \in Registered
    <3>1. PICK d \in 1 .. MaxCooldown :
                 SetConn(Q.cur, MarkResult(conn[Q.cur], outcome, Q.model, d))
      BY <1>8, <2>1 DEF Mark
    <3>2. MarkResult(conn[Q.cur], outcome, Q.model, d) \in ConnectionType
      BY <1>1, <1>5, <1>8, MarkResultType DEF RequestType
    <3> QED
      BY <1>4, <1>8, <3>1, <3>2 DEF Mark
  <2>2. CASE Q.cur \notin Registered
    BY <1>1, <1>8, <2>2 DEF Mark, PoolTypeOK
  <2> QED
    BY <2>1, <2>2
<1> HIDE DEF Q
<1>10. ASSUME NEW walk \in Walks, Arrive(r, walk)
       PROVE  PoolTypeOK' /\ RequestTypeOK' /\ HoldsAConnection'
  <2>1. NewRequest(walk) \in RequestType
    BY RequestAssumption, NewRequestType
  <2>2. Holding(NewRequest(walk))
    BY DEF Holding, HoldingPhases, NewRequest
  <2> QED
    BY <1>2, <1>3, <1>10, <2>1, <2>2 DEF Arrive
<1>11. CASE Cancel(r)
  <2> DEFINE q == [Q EXCEPT !.gone = TRUE]
  <2>1. q \in RequestType /\ Holding(q)
    BY <1>1 DEF RequestType, Holding
  <2> QED
    BY <1>2, <1>3, <1>11, <2>1 DEF Cancel, Q
<1>12. CASE Snapshot(r)
  <2> DEFINE q == [Q EXCEPT !.phase = "scanning", !.todo = Registered \ Q.excl]
  <2>1. q \in RequestType /\ Holding(q)
    BY <1>1, <1>7, <1>12
    DEF RequestType, Holding, HoldingPhases, Phases, Registered, Snapshot, In, Q
  <2> QED
    BY <1>2, <1>3, <1>12, <2>1 DEF Snapshot, Q
<1>13. ASSUME NEW c \in Conns, Filter(r, c)
       PROVE  PoolTypeOK' /\ RequestTypeOK' /\ HoldsAConnection'
  <2> DEFINE q == [Q EXCEPT !.todo = @ \ {c},
                            !.cand = IF Selectable(c, Q.model) THEN @ \cup {c} ELSE @]
  <2>1. q \in RequestType /\ Holding(q)
    BY <1>1 DEF RequestType, Holding
  <2> QED
    BY <1>2, <1>3, <1>13, <2>1 DEF Filter, Q
<1>14. ASSUME NEW c \in Conns, Claim(r, c)
       PROVE  PoolTypeOK' /\ RequestTypeOK' /\ HoldsAConnection'
  <2> DEFINE q == [Q EXCEPT !.phase = "claimed", !.cur = c, !.cand = {}]
  <2>1. q \in RequestType /\ Holding(q)
    BY <1>1, <1>7, <1>14, RequestAssumption
    DEF RequestType, Holding, HoldingPhases, Phases, Claim, In, Q
  <2>2. conn' \in [Conns -> ConnectionType]
    BY <1>4, <1>5, <1>14, MethodTypes DEF Claim
  <2> QED
    BY <1>2, <1>14, <2>1, <2>2 DEF Claim, Q
<1>15. ASSUME NEW c \in Conns, ClaimLost(r, c)
       PROVE  PoolTypeOK' /\ RequestTypeOK' /\ HoldsAConnection'
  <2> DEFINE q == [Q EXCEPT !.cand = @ \ {c}]
  <2>1. q \in RequestType /\ Holding(q)
    BY <1>1 DEF RequestType, Holding
  <2> QED
    BY <1>2, <1>3, <1>15, <2>1 DEF ClaimLost, Q
<1>16. CASE NoneSelected(r)
  <2>1. MemberFails(Q) \in RequestType /\ Holding(MemberFails(Q))
    BY <1>1, <1>7, <1>16, MemberFailsType, MemberFailsHolding DEF NoneSelected, In, Q
  <2> QED
    BY <1>2, <1>3, <1>16, <2>1 DEF NoneSelected, Q
<1>17. CASE Use(r)
  <2> DEFINE q == [Q EXCEPT !.phase = "lookup"]
  <2>1. Q.phase = "claimed" /\ Q.cur \in Conns
    BY <1>6, <1>17 DEF Use, In, HoldingPhases, Q
  <2>2. q \in RequestType /\ Holding(q)
    BY <1>1, <1>7, <2>1 DEF RequestType, Holding, HoldingPhases, Phases
  <2>3. conn' \in [Conns -> ConnectionType]
    BY <1>4, <1>5, <1>17, <2>1, MethodTypes DEF Use, Q
  <2> QED
    BY <1>2, <1>17, <2>2, <2>3 DEF Use, Q
<1>18. CASE UseRejected(r)
  <2> DEFINE q == [Q EXCEPT !.phase = "dropping"]
  <2>1. q \in RequestType /\ Holding(q)
    BY <1>1, <1>7, <1>18
    DEF RequestType, Holding, HoldingPhases, Phases, UseRejected, In, Q
  <2> QED
    BY <1>2, <1>3, <1>18, <2>1 DEF UseRejected, Q
<1>19. CASE Drop(r)
  <2> DEFINE q == [Q EXCEPT !.phase = "selecting", !.cur = None, !.excl = @ \cup {Q.cur}]
  <2>1. Q.phase = "dropping" /\ Q.cur \in Conns
    BY <1>6, <1>19 DEF Drop, In, HoldingPhases, Q
  <2>2. q \in RequestType /\ Holding(q)
    BY <1>1, <1>7, <2>1 DEF RequestType, Holding, HoldingPhases, Phases
  <2>3. conn' \in [Conns -> ConnectionType]
    BY <1>4, <1>5, <1>19, <2>1, MethodTypes DEF Drop, Q
  <2> QED
    BY <1>2, <1>19, <2>2, <2>3 DEF Drop, Q
<1>20. CASE LookupFound(r)
  <2> DEFINE q == [Q EXCEPT !.phase = IF Q.inExec THEN "attempting" ELSE "translating"]
  <2>1. q \in RequestType /\ Holding(q)
    BY <1>1, <1>6, <1>7, <1>20, RequestAssumption
    DEF RequestType, Holding, HoldingPhases, Phases, LookupFound, In, Q
  <2> QED
    BY <1>2, <1>3, <1>20, <2>1 DEF LookupFound, Q
<1>21. CASE LookupFails(r)
  <2> DEFINE q == [Q EXCEPT !.cur = None]
  <2>1. Q.phase = "lookup" /\ Q.cur \in Conns
    BY <1>6, <1>21 DEF LookupFails, In, HoldingPhases, Q
  <2>2. q \in RequestType /\ q.result # "served"
    BY <1>1, <1>7, <2>1 DEF RequestType
  <2>3. MemberFails(q) \in RequestType /\ Holding(MemberFails(q))
    BY <2>2, MemberFailsType, MemberFailsHolding
  <2>4. conn' \in [Conns -> ConnectionType]
    BY <1>4, <1>5, <1>21, <2>1, MethodTypes DEF LookupFails, Q
  <2> QED
    BY <1>2, <1>21, <2>3, <2>4 DEF LookupFails, Q
<1>22. CASE Translated(r)
  <2> DEFINE q == [Q EXCEPT !.phase = "attempting", !.inExec = TRUE]
  <2>1. q \in RequestType /\ Holding(q)
    BY <1>1, <1>6, <1>7, <1>22, RequestAssumption
    DEF RequestType, Holding, HoldingPhases, Phases, Translated, In, Q
  <2> QED
    BY <1>2, <1>3, <1>22, <2>1 DEF Translated, Q
<1>23. CASE TranslationFails(r)
  <2> DEFINE q == [Q EXCEPT !.cur = None]
  <2>1. q \in RequestType /\ q.result # "served"
    BY <1>1, <1>7, <1>23 DEF RequestType, TranslationFails, In, Q
  <2>2. MemberFails(q) \in RequestType /\ Holding(MemberFails(q))
    BY <2>1, MemberFailsType, MemberFailsHolding
  <2> QED
    BY <1>2, <1>3, <1>23, <2>2 DEF TranslationFails, Q
<1>24. CASE Abandon(r)
  <2> DEFINE q == [Deferring(Q) EXCEPT !.phase = "unwinding", !.cur = None,
                                       !.result = "walk"]
  <2>1. q \in RequestType /\ Holding(q)
    BY <1>1, DeferringType DEF RequestType, Holding, HoldingPhases, Phases, Results
  <2> QED
    BY <1>2, <1>3, <1>24, <2>1 DEF Abandon, Q
<1>25. CASE Send(r)
  <2> DEFINE q == [Deferring(Q) EXCEPT !.phase = "upstream"]
  <2>1. Q.phase = "attempting"
    BY <1>25 DEF Send, In, Q
  <2>2. /\ Deferring(Q) \in RequestType
        /\ Deferring(Q).cur = Q.cur /\ Deferring(Q).result = Q.result
    BY <1>1, DeferringType DEF Deferring, RequestType
  <2>3. Q.cur # None
    BY <1>6, <2>1, RequestAssumption DEF HoldingPhases
  <2>4. q \in RequestType /\ Holding(q)
    BY <1>7, <2>1, <2>2, <2>3 DEF RequestType, Holding, HoldingPhases, Phases
  <2> QED
    BY <1>2, <1>3, <1>25, <2>4 DEF Send, Q
<1>26. CASE PreflightFails(r)
  <2> DEFINE q == Fallback(Deferring(Q), "walk")
  <2>1. Q.phase = "attempting" /\ Q.cur \in Conns
    BY <1>6, <1>26 DEF PreflightFails, In, HoldingPhases, Q
  <2>2. Deferring(Q) \in RequestType /\ Deferring(Q).cur = Q.cur
    BY <1>1, DeferringType DEF Deferring, RequestType
  <2>3. q \in RequestType
    BY <2>1, <2>2, FallbackType DEF Results
  <2>4. Holding(q)
    BY <2>2 DEF Holding, HoldingPhases, Fallback, RequestType
  <2>5. conn' \in [Conns -> ConnectionType] /\ UNCHANGED status
    BY <1>8, <1>26, <2>1 DEF PreflightFails, AllOutcomes
  <2> QED
    BY <1>2, <1>26, <2>3, <2>4, <2>5 DEF PreflightFails, Q
<1>27. ASSUME NEW outcome \in AllOutcomes, Fail(r, outcome)
       PROVE  PoolTypeOK' /\ RequestTypeOK' /\ HoldsAConnection'
  <2> DEFINE q1 == Fallback(Q, ResultOf(outcome))
             q2 == [Q EXCEPT !.phase = "unwinding", !.cur = None,
                             !.result = ResultOf(outcome)]
  <2>1. Q.cur \in Conns
    BY <1>6, <1>27 DEF Fail, In, HoldingPhases, Q
  <2>2. ResultOf(outcome) \in Results /\ ResultOf(outcome) # "served"
    BY DEF ResultOf, Results
  <2>3. q1 \in RequestType /\ Holding(q1)
    BY <1>1, <2>1, <2>2, FallbackType DEF Holding, HoldingPhases, Fallback, RequestType
  <2>4. q2 \in RequestType /\ Holding(q2)
    BY <1>1, <2>2 DEF RequestType, Holding, HoldingPhases, Phases
  <2>5. conn' \in [Conns -> ConnectionType] /\ UNCHANGED status
    BY <1>8, <1>27, <2>1 DEF Fail
  <2> QED
    BY <1>2, <1>27, <2>3, <2>4, <2>5 DEF Fail, Q
<1>28. CASE Succeed(r)
  <2> DEFINE q == [Q EXCEPT !.phase = "unwinding", !.result = "served"]
  <2>1. q \in RequestType /\ Holding(q)
    BY <1>1, <1>6, <1>28, RequestAssumption
    DEF RequestType, Holding, HoldingPhases, Phases, Results, Succeed, In, Q
  <2> QED
    BY <1>2, <1>3, <1>28, <2>1 DEF Succeed, Q
<1>29. ASSUME NEW c \in Conns, Unwind(r, c)
       PROVE  PoolTypeOK' /\ RequestTypeOK' /\ HoldsAConnection'
  <2> DEFINE q == [Q EXCEPT !.deferred = @ \ {c}]
  <2>1. q \in RequestType /\ Holding(q)
    BY <1>1 DEF RequestType, Holding
  <2>2. conn' \in [Conns -> ConnectionType]
    BY <1>4, <1>5, <1>29, MethodTypes DEF Unwind
  <2> QED
    BY <1>2, <1>29, <2>1, <2>2 DEF Unwind, Q
<1>30. CASE Return(r)
  <2> DEFINE q1 == [Q EXCEPT !.phase = "forwarding"]
             q2 == [Q EXCEPT !.inExec = FALSE]
  <2>1. CASE Q.result = "served"
    <3>1. q1 \in RequestType /\ Holding(q1)
      BY <1>1, <2>1 DEF RequestType, Holding, HoldingPhases, Phases
    <3> QED
      BY <1>2, <1>3, <1>30, <2>1, <3>1 DEF Return, Q
  <2>2. CASE Q.result = "forward"
    <3>1. IdleRequest \in RequestType /\ Holding(IdleRequest)
      BY IdleRequestType DEF Holding, HoldingPhases, IdleRequest, NewRequest
    <3> QED
      BY <1>2, <1>3, <1>30, <2>2, <3>1 DEF Return, Q
  <2>3. CASE Q.result \notin {"served", "forward"}
    <3>1. q2 \in RequestType /\ q2.result # "served"
      BY <1>1, <2>3 DEF RequestType
    <3>2. MemberFails(q2) \in RequestType /\ Holding(MemberFails(q2))
      BY <3>1, MemberFailsType, MemberFailsHolding
    <3> QED
      BY <1>2, <1>3, <1>30, <2>3, <3>2 DEF Return, Q
  <2> QED
    BY <2>1, <2>2, <2>3
<1>31. CASE Forward(r)
  <2>1. IdleRequest \in RequestType /\ Holding(IdleRequest)
    BY IdleRequestType DEF Holding, HoldingPhases, IdleRequest, NewRequest
  <2>2. Q.cur \in Conns
    BY <1>6, <1>31 DEF Forward, In, HoldingPhases, Q
  <2>3. conn' \in [Conns -> ConnectionType] /\ UNCHANGED status
    BY <1>8, <1>31, <2>2 DEF Forward, AllOutcomes
  <2> QED
    BY <1>2, <1>31, <2>1, <2>3 DEF Forward
<1> QED
  BY <1>10, <1>11, <1>12, <1>13, <1>14, <1>15, <1>16, <1>17, <1>18, <1>19, <1>20,
     <1>21, <1>22, <1>23, <1>24, <1>25, <1>26, <1>27, <1>28, <1>29, <1>30, <1>31
  DEF Step, Client


LEMMA ManageTimeTypes ==
  ASSUME TypeInv, Manage \/ Time
  PROVE  PoolTypeOK'
<1>1. conn \in [Conns -> ConnectionType] /\ status \in [Conns -> Statuses]
  BY DEF TypeInv, TypeOK, PoolTypeOK
<1>2. ASSUME NEW c, NEW from, NEW to \in Statuses, MoveStatus(c, from, to)
      PROVE  status' \in [Conns -> Statuses]
  BY <1>1, <1>2 DEF MoveStatus
<1>3. ASSUME NEW c \in Managed, InsertRow(c) \/ Register(c) \/ Suspend(c) \/ Unsuspend(c) \/ DeleteRow(c)
          \/ Remove(c)
      PROVE  PoolTypeOK'
  <2>1. status' \in [Conns -> Statuses]
    BY <1>2, <1>3 DEF Statuses, InsertRow, Register, Suspend, Unsuspend, DeleteRow, Remove
  <2>2. conn' \in [Conns -> ConnectionType]
    BY <1>1, <1>3, NewConnectionType DEF InsertRow, Register, Suspend, Unsuspend, DeleteRow, Remove, SetConn
  <2> QED
    BY <2>1, <2>2 DEF PoolTypeOK
<1>4. CASE Tick
  BY <1>1, <1>4, ElapseType DEF Tick, PoolTypeOK
<1>5. ASSUME NEW c \in Conns, NEW m \in Models, DenialExpires(c, m)
      PROVE  PoolTypeOK'
  <2>1. [conn[c] EXCEPT !.denied = @ \ {m}] \in ConnectionType
    BY <1>1 DEF ConnectionType
  <2> QED
    BY <1>1, <1>5, <2>1 DEF DenialExpires, SetConn, PoolTypeOK
<1> QED
  BY <1>3, <1>4, <1>5 DEF Manage, Time

LEMMA HealthTypes ==
  ASSUME TypeInv, HealthCheck
  PROVE  PoolTypeOK' /\ HealthTypeOK'
<1>1. PoolTypeOK /\ \A c \in Conns : conn[c] \in ConnectionType
  BY DEF TypeInv, TypeOK, PoolTypeOK
<1>2. ASSUME NEW c \in Conns, Observe(c)
      PROVE  PoolTypeOK' /\ HealthTypeOK'
  BY <1>1, <1>2 DEF Observe, poolVars, PoolTypeOK, HealthTypeOK
<1>3. ASSUME NEW c \in Conns, Promote(c)
      PROVE  PoolTypeOK' /\ HealthTypeOK'
  <2>1. conn' \in [Conns -> ConnectionType]
    BY <1>1, <1>3, MethodTypes, SetConnType DEF Promote
  <2> QED
    BY <1>1, <1>3, <2>1 DEF Promote, PoolTypeOK, HealthTypeOK
<1> QED
  BY <1>2, <1>3 DEF HealthCheck

LEMMA RefreshTypes ==
  ASSUME TypeInv, RefreshNext
  PROVE  PoolTypeOK' /\ RefreshTypeOK'
<1>1. /\ PoolTypeOK /\ RefreshTypeOK
      /\ \A c \in Conns : conn[c] \in ConnectionType
  BY DEF TypeInv, TypeOK, PoolTypeOK
<1> DEFINE Goal == PoolTypeOK' /\ RefreshTypeOK'
<1>2. ASSUME UNCHANGED poolVars
      PROVE  PoolTypeOK'
  BY <1>1, <1>2 DEF PoolTypeOK, poolVars
<1>3. ASSUME NEW c, NEW k \in ConnectionType, SetConn(c, k), UNCHANGED status
      PROVE  PoolTypeOK'
  BY <1>1, <1>3, SetConnType DEF PoolTypeOK
<1>4. Resting \in VisitType
  BY DEF Resting, VisitType, VisitPhases
<1>5. ASSUME NEW c \in Conns, Age(c) \/ Revoke(c)
      PROVE  Goal
  BY <1>1, <1>2, <1>5 DEF Age, Revoke, RefreshTypeOK, Tokens
<1>6. ASSUME NEW c \in Conns, Visit(c)
      PROVE  Goal
  BY <1>1, <1>2, <1>6 DEF Visit, RefreshTypeOK, VisitType, VisitPhases
<1>7. ASSUME NEW c \in Conns, Enter(c)
      PROVE  Goal
  <2>1. visit' \in VisitType
    BY <1>1, <1>4, <1>7 DEF Enter, RefreshTypeOK, VisitType, VisitPhases
  <2>2. PoolTypeOK'
    BY <1>1, <1>3, <1>7, MethodTypes DEF Enter
  <2> QED
    BY <1>1, <1>7, <2>1, <2>2 DEF Enter, RefreshTypeOK
<1>8. ASSUME NEW c \in Conns, NEW revoked \in BOOLEAN, CallFails(c, revoked)
      PROVE  Goal
  <2>1. failures[c] \in 0 .. DisableAfter
    BY <1>1 DEF RefreshTypeOK
  <2>2. Bumped(c) \in 0 .. DisableAfter
    BY <2>1, RefreshAssumption DEF Bumped
  <2>3. failures' \in [Conns -> 0 .. DisableAfter]
    BY <1>1, <1>8, <2>2 DEF CallFails, RefreshTypeOK
  <2>4. (revoked \/ Bumped(c) >= DisableAfter) \in BOOLEAN
    OBVIOUS
  <2>5. visit' \in VisitType
    BY <1>1, <1>8, <2>4 DEF CallFails, RefreshTypeOK, VisitType, VisitPhases
  <2> QED
    BY <1>1, <1>2, <1>8, <2>3, <2>5 DEF CallFails, RefreshTypeOK
<1>9. ASSUME NEW c \in Conns, MarkFailed(c)
      PROVE  Goal
  <2>1. visit' \in VisitType
    BY <1>1, <1>4, <1>9 DEF MarkFailed, RefreshTypeOK, VisitType, VisitPhases
  <2>2. PoolTypeOK'
    BY <1>1, <1>3, <1>9, MethodTypes DEF MarkFailed
  <2> QED
    BY <1>1, <1>9, <2>1, <2>2 DEF MarkFailed, RefreshTypeOK
<1>10. ASSUME NEW c \in Conns, DisableConn(c)
       PROVE  Goal
  <2>1. PoolTypeOK'
    BY <1>1, <1>3, <1>10, MethodTypes DEF DisableConn
  <2> QED
    BY <1>1, <1>4, <1>10, <2>1 DEF DisableConn, RefreshTypeOK
<1>11. ASSUME NEW c \in Conns, CallSucceeds(c)
       PROVE  Goal
  <2>1. token' \in [Conns -> Tokens]
    BY <1>1, <1>11 DEF CallSucceeds, RefreshTypeOK, Tokens
  <2>2. failures' \in [Conns -> 0 .. DisableAfter]
    BY <1>1, <1>11, RefreshAssumption DEF CallSucceeds, RefreshTypeOK
  <2>3. visit' \in VisitType
    BY <1>1, <1>11 DEF CallSucceeds, RefreshTypeOK, VisitType, VisitPhases
  <2> QED
    BY <1>2, <1>11, <2>1, <2>2, <2>3 DEF CallSucceeds, RefreshTypeOK
<1>12. ASSUME NEW c \in Conns, MarkValid(c)
       PROVE  Goal
  <2>1. PoolTypeOK'
    BY <1>1, <1>3, <1>12, MethodTypes DEF MarkValid
  <2> QED
    BY <1>1, <1>4, <1>12, <2>1 DEF MarkValid, RefreshTypeOK
<1> QED
  BY <1>5, <1>6, <1>7, <1>8, <1>9, <1>10, <1>11, <1>12 DEF RefreshNext, Refresh

LEMMA InitTypes == Init => TypeInv
<1> SUFFICES ASSUME Init PROVE TypeInv
  OBVIOUS
<1>1. PoolTypeOK
  BY HydratedType DEF Init, PoolInit, PoolTypeOK, Statuses
<1>2. RequestTypeOK
  BY IdleRequestType DEF Init, RequestInit, RequestTypeOK
<1>3. HoldsAConnection
  BY DEF Init, RequestInit, HoldsAConnection, HoldingPhases, IdleRequest, NewRequest
<1>4. HealthTypeOK
  BY DEF Init, HealthInit, HealthTypeOK
<1>5. RefreshTypeOK
  BY RefreshAssumption
  DEF Init, RefreshInit, RefreshTypeOK, Tokens, Resting, VisitType, VisitPhases
<1> QED
  BY <1>1, <1>2, <1>3, <1>4, <1>5 DEF TypeInv, TypeOK

LEMMA NextTypes == TypeInv /\ [Next]_vars => TypeInv'
<1> SUFFICES ASSUME TypeInv, [Next]_vars PROVE TypeInv'
  OBVIOUS
<1>1. PoolTypeOK /\ RequestTypeOK /\ HealthTypeOK /\ RefreshTypeOK /\ HoldsAConnection
  BY DEF TypeInv, TypeOK
<1>2. UNCHANGED <<conn, status>> => PoolTypeOK'
  BY <1>1 DEF PoolTypeOK
<1>3. UNCHANGED req => RequestTypeOK' /\ HoldsAConnection'
  BY <1>1 DEF RequestTypeOK, HoldsAConnection
<1>4. UNCHANGED due => HealthTypeOK'
  BY <1>1 DEF HealthTypeOK
<1>5. UNCHANGED refreshVars => RefreshTypeOK'
  BY <1>1 DEF RefreshTypeOK, refreshVars
<1>6. CASE Serve /\ UNCHANGED <<due, refreshVars>>
  BY <1>4, <1>5, <1>6, StepTypes DEF Serve, TypeInv, TypeOK
<1>7. CASE HealthCheck /\ UNCHANGED <<req, refreshVars>>
  BY <1>3, <1>5, <1>7, HealthTypes DEF TypeInv, TypeOK
<1>8. CASE RefreshNext /\ UNCHANGED <<req, due>>
  BY <1>3, <1>4, <1>8, RefreshTypes DEF TypeInv, TypeOK
<1>9. CASE (Manage \/ Time) /\ UNCHANGED <<req, due, refreshVars>>
  BY <1>3, <1>4, <1>5, <1>9, ManageTimeTypes DEF TypeInv, TypeOK
<1>10. CASE Restart
  <2>1. PoolTypeOK'
    BY <1>1, <1>10, HydratedType DEF Restart, PoolTypeOK, Statuses
  <2>2. RequestTypeOK'
    BY <1>10, IdleRequestType DEF Restart, RequestTypeOK
  <2>3. HoldsAConnection'
    BY <1>10 DEF Restart, HoldsAConnection, HoldingPhases, IdleRequest, NewRequest
  <2>4. HealthTypeOK'
    BY <1>10 DEF Restart, HealthTypeOK
  <2>5. RefreshTypeOK'
    BY <1>1, <1>10 DEF Restart, RefreshTypeOK, Resting, VisitType, VisitPhases
  <2> QED
    BY <2>1, <2>2, <2>3, <2>4, <2>5 DEF TypeInv, TypeOK
<1>11. CASE UNCHANGED vars
  BY <1>2, <1>3, <1>4, <1>5, <1>11 DEF vars, refreshVars, TypeInv, TypeOK
<1> QED
  BY <1>6, <1>7, <1>8, <1>9, <1>10, <1>11 DEF Next

\* Every variable keeps its type, and a goroutine in a phase that handles a
\* connection has one, in every behaviour of the router.
THEOREM TypeInvariance == Spec => []TypeInv
  BY InitTypes, NextTypes, PTL DEF Spec

\* The type invariant of the runs.
THEOREM TypeCorrectness == Spec => []TypeOK
<1>1. TypeInv => TypeOK
  BY DEF TypeInv
<1> QED
  BY <1>1, TypeInvariance, PTL

-----------------------------------------------------------------------------
(***************************************************************************)
(* Part 2: lending.                                                        *)
(***************************************************************************)

(* What the steps of a goroutine may touch.                                *)

\* Connections that were registered once: their IDs are never registered again.
Known == {c \in Conns : status[c] \in {"registered", "suspended", "row_deleted", "removed"}}

\* The connections goroutine state q has anything to do with.
Handled(q) == (q.todo \cup q.cand \cup q.deferred \cup {q.cur}) \ {None}

\* A goroutine only handles connections it found registered. Without this a
\* fresh registration could make a connection idle while it is in use.
HandledIsKnown == \A r \in Requests : Handled(req[r]) \subseteq Known

UseInv == HandledIsKnown /\ UsedIsNotIdle /\ ExclusiveUse

LEMMA MemberFailsHandled ==
  ASSUME NEW q \in RequestType
  PROVE  Handled(MemberFails(q)) \subseteq Handled(q)
  BY DEF MemberFails, NewRequest, IdleRequest, Handled, RequestType

\* A step of a goroutine handles what it handled before, and what it finds
\* registered.
LEMMA StepHandled ==
  ASSUME TypeInv, NEW r \in Requests, Step(r) \/ Client(r)
  PROVE  /\ Handled(req'[r]) \subseteq Handled(req[r]) \cup Registered
         /\ \A s \in Requests : s # r => req'[s] = req[s]
         /\ UNCHANGED status
<1> DEFINE Q == req[r]
           Goal(q) == Handled(q) \subseteq Handled(Q) \cup Registered
<1>1. req \in [Requests -> RequestType] /\ Q \in RequestType
  BY DEF TypeInv, TypeOK, RequestTypeOK
<1>2. UNCHANGED poolVars => UNCHANGED status
  BY DEF poolVars
<1>3. ASSUME NEW q, SetReq(r, q), UNCHANGED status, Goal(q)
      PROVE  /\ Handled(req'[r]) \subseteq Handled(req[r]) \cup Registered
             /\ \A s \in Requests : s # r => req'[s] = req[s]
             /\ UNCHANGED status
  BY <1>1, <1>3 DEF SetReq
<1>4. \A q \in RequestType : Handled(MemberFails(q)) \subseteq Handled(q)
  BY MemberFailsHandled
<1>5. Goal(IdleRequest) /\ \A walk : Goal(NewRequest(walk))
  BY DEF IdleRequest, NewRequest, Handled
<1>6. /\ Goal(Deferring(Q))
      /\ Deferring(Q) \in RequestType /\ Deferring(Q).cur = Q.cur
  BY <1>1, DeferringType DEF Deferring, Handled, RequestType
<1>7. \A result : Goal(Fallback(Q, result)) /\ Goal(Fallback(Deferring(Q), result))
  BY <1>1, <1>6 DEF Fallback, Handled, RequestType
<1>8. ASSUME NEW q \in RequestType,
             q.todo = Q.todo /\ q.cand = Q.cand /\ q.deferred = Q.deferred /\ q.cur = None
      PROVE  Goal(q) /\ Goal(MemberFails(q))
  BY <1>4, <1>8 DEF Handled
<1> HIDE DEF Q
<1>10. ASSUME NEW walk \in Walks, Arrive(r, walk)
       PROVE  \E q : SetReq(r, q) /\ Goal(q) /\ UNCHANGED status
  BY <1>2, <1>5, <1>10 DEF Arrive
<1>11. ASSUME Cancel(r) \/ Snapshot(r) \/ Use(r) \/ UseRejected(r)
       PROVE  \E q : SetReq(r, q) /\ Goal(q) /\ UNCHANGED status
  BY <1>1, <1>2, <1>11 DEF Cancel, Snapshot, Use, UseRejected, Handled, RequestType, Q
<1>12. ASSUME NEW c \in Conns, Filter(r, c) \/ Claim(r, c) \/ ClaimLost(r, c) \/ Unwind(r, c)
       PROVE  \E q : SetReq(r, q) /\ Goal(q) /\ UNCHANGED status
  BY <1>1, <1>2, <1>12 DEF Filter, Claim, ClaimLost, Unwind, Handled, RequestType, Q
<1>13. ASSUME NoneSelected(r)
       PROVE  \E q : SetReq(r, q) /\ Goal(q) /\ UNCHANGED status
  BY <1>1, <1>2, <1>4, <1>13 DEF NoneSelected, Q
<1>14. ASSUME Drop(r) \/ LookupFound(r) \/ Translated(r) \/ Succeed(r)
       PROVE  \E q : SetReq(r, q) /\ Goal(q) /\ UNCHANGED status
  BY <1>1, <1>2, <1>14
  DEF Drop, LookupFound, Translated, Succeed, Handled, RequestType, Q
<1>15. ASSUME LookupFails(r) \/ TranslationFails(r)
       PROVE  \E q : SetReq(r, q) /\ Goal(q) /\ UNCHANGED status
  <2> DEFINE q == [Q EXCEPT !.cur = None]
  <2>1. q \in RequestType
    BY <1>1 DEF RequestType
  <2>2. Goal(MemberFails(q))
    BY <1>1, <1>8, <2>1 DEF RequestType
  <2> QED
    BY <1>2, <1>15, <2>2 DEF LookupFails, TranslationFails, Q
<1>16. ASSUME Abandon(r) \/ Send(r)
       PROVE  \E q : SetReq(r, q) /\ Goal(q) /\ UNCHANGED status
  BY <1>1, <1>2, <1>6, <1>16 DEF Abandon, Send, Handled, RequestType, Q
<1>17. ASSUME PreflightFails(r)
       PROVE  \E q : SetReq(r, q) /\ Goal(q) /\ UNCHANGED status
  BY <1>7, <1>17 DEF PreflightFails, Mark, Q
<1>18. ASSUME NEW outcome \in AllOutcomes, Fail(r, outcome)
       PROVE  \E q : SetReq(r, q) /\ Goal(q) /\ UNCHANGED status
  <2>1. Goal([Q EXCEPT !.phase = "unwinding", !.cur = None, !.result = ResultOf(outcome)])
    BY <1>1 DEF Handled, RequestType
  <2> QED
    BY <1>7, <1>18, <2>1 DEF Fail, Mark, Q
<1>19. ASSUME Return(r)
       PROVE  \E q : SetReq(r, q) /\ Goal(q) /\ UNCHANGED status
  <2>1. Goal([Q EXCEPT !.phase = "forwarding"])
    BY <1>1 DEF Handled, RequestType
  <2>2. [Q EXCEPT !.inExec = FALSE] \in RequestType
    BY <1>1 DEF RequestType
  <2>3. Handled([Q EXCEPT !.inExec = FALSE]) = Handled(Q)
    BY <1>1 DEF Handled, RequestType
  <2>4. Goal(MemberFails([Q EXCEPT !.inExec = FALSE]))
    BY <1>4, <2>2, <2>3
  <2> QED
    BY <1>2, <1>5, <1>19, <2>1, <2>4 DEF Return, Q
<1>20. ASSUME Forward(r)
       PROVE  \E q : SetReq(r, q) /\ Goal(q) /\ UNCHANGED status
  BY <1>5, <1>20 DEF Forward, Mark
<1>21. \E q : SetReq(r, q) /\ Goal(q) /\ UNCHANGED status
  BY <1>10, <1>11, <1>12, <1>13, <1>14, <1>15, <1>16, <1>17, <1>18, <1>19, <1>20
  DEF Step, Client
<1> QED
  BY <1>3, <1>21


-----------------------------------------------------------------------------
(* Every step of a goroutine lends it an idle connection, ends its use of  *)
(* one, or leaves who uses what and every lifecycle as they are.           *)

LifecycleKept(d) == conn'[d].lifecycle = conn[d].lifecycle

Borrows(r, c) ==
  /\ conn[c].lifecycle = "idle" /\ conn'[c].lifecycle # "idle"
  /\ \A d \in Conns : ~ Uses(r, d) /\ (d # c => LifecycleKept(d))
  /\ \A d \in Conns : Uses(r, d)' <=> d = c

GivesBack(r, c) ==
  /\ Uses(r, c)
  /\ \A d \in Conns : ~ Uses(r, d)' /\ (d # c => LifecycleKept(d))

KeepsUses(r) ==
  \A d \in Conns : (Uses(r, d)' <=> Uses(r, d)) /\ LifecycleKept(d)

LEMMA StepUses ==
  ASSUME TypeInv, NEW r \in Requests, Step(r) \/ Client(r)
  PROVE  \/ \E c \in Conns : Borrows(r, c) \/ GivesBack(r, c)
         \/ KeepsUses(r)
<1> DEFINE Q == req[r]
           Uses1(q, c) == q.cur = c /\ q.phase \in UsingPhases
           Goal == (\E c \in Conns : Borrows(r, c) \/ GivesBack(r, c)) \/ KeepsUses(r)
<1>1. /\ req \in [Requests -> RequestType] /\ Q \in RequestType
      /\ conn \in [Conns -> ConnectionType]
      /\ \A c \in Conns : conn[c] \in ConnectionType
  BY DEF TypeInv, TypeOK, RequestTypeOK, PoolTypeOK
<1>2. Q.phase \in HoldingPhases => Q.cur \in Conns
  BY <1>1 DEF TypeInv, HoldsAConnection, RequestType
<1>3. UNCHANGED poolVars => UNCHANGED conn
  BY DEF poolVars
<1>4. \A q : SetReq(r, q) => \A c \in Conns : Uses(r, c)' <=> Uses1(q, c)
  BY <1>1 DEF SetReq, Uses
<1>5. \A c \in Conns : Uses(r, c) <=> Uses1(Q, c)
  BY DEF Uses
<1>6. ASSUME NEW q, SetReq(r, q), UNCHANGED conn,
             \A c \in Conns : Uses1(q, c) <=> Uses1(Q, c)
      PROVE  Goal
  BY <1>4, <1>5, <1>6 DEF KeepsUses, LifecycleKept
<1>7. ASSUME NEW q, SetReq(r, q), \A c \in Conns : ~ Uses1(q, c),
             Q.phase \in UsingPhases, Q.cur \in Conns,
             \A d \in Conns : d # Q.cur => conn'[d] = conn[d]
      PROVE  Goal
  BY <1>4, <1>5, <1>7 DEF GivesBack, LifecycleKept
<1>8. ASSUME NEW c \in Conns, NEW k, SetConn(c, k)
      PROVE  conn'[c] = k /\ \A d \in Conns : d # c => conn'[d] = conn[d]
  BY <1>1, <1>8 DEF SetConn
<1>9. /\ \A c \in Conns : ~ Uses1(IdleRequest, c)
      /\ \A c \in Conns : \A walk : ~ Uses1(NewRequest(walk), c)
      /\ \A c \in Conns, q \in RequestType : ~ Uses1(MemberFails(q), c)
      /\ \A c \in Conns, q \in RequestType : \A result : ~ Uses1(Fallback(q, result), c)
  BY RequestAssumption
  DEF IdleRequest, NewRequest, MemberFails, Fallback, UsingPhases, RequestType
<1>10. ASSUME Q.cur \in Conns, NEW outcome, Mark(r, outcome)
       PROVE  \A d \in Conns : d # Q.cur => conn'[d] = conn[d]
  BY <1>8, <1>10 DEF Mark
<1> HIDE DEF Q
<1>11. ASSUME NEW walk \in Walks, Arrive(r, walk)
       PROVE  Goal
  BY <1>3, <1>6, <1>9, <1>11 DEF Arrive, In, UsingPhases, Q
<1>12. CASE Cancel(r)
  <2>1. \A c \in Conns : Uses1([Q EXCEPT !.gone = TRUE], c) <=> Uses1(Q, c)
    BY <1>1 DEF RequestType
  <2> QED
    BY <1>3, <1>6, <1>12, <2>1 DEF Cancel, Q
<1>13. CASE Snapshot(r)
  <2>1. \A c \in Conns : ~ Uses1(Q, c) /\
          ~ Uses1([Q EXCEPT !.phase = "scanning", !.todo = Registered \ Q.excl], c)
    BY <1>1, <1>13 DEF Snapshot, In, UsingPhases, RequestType, Q
  <2> QED
    BY <1>3, <1>6, <1>13, <2>1 DEF Snapshot, Q
<1>14. ASSUME NEW c \in Conns, Filter(r, c) \/ ClaimLost(r, c)
       PROVE  Goal
  <2>1. \A d \in Conns : ~ Uses1(Q, d)
    BY <1>14 DEF Filter, ClaimLost, In, UsingPhases, Q
  <2>2. Q.phase \notin UsingPhases
    BY <1>14 DEF Filter, ClaimLost, In, UsingPhases, Q
  <2>3. CASE Filter(r, c)
    <3>1. \A d \in Conns :
            ~ Uses1([Q EXCEPT !.todo = @ \ {c},
                              !.cand = IF Selectable(c, Q.model) THEN @ \cup {c} ELSE @], d)
      BY <1>1, <2>2 DEF RequestType
    <3> QED
      BY <1>3, <1>6, <2>1, <2>3, <3>1 DEF Filter, Q
  <2>4. CASE ClaimLost(r, c)
    <3>1. \A d \in Conns : ~ Uses1([Q EXCEPT !.cand = @ \ {c}], d)
      BY <1>1, <2>2 DEF RequestType
    <3> QED
      BY <1>3, <1>6, <2>1, <2>4, <3>1 DEF ClaimLost, Q
  <2> QED
    BY <1>14, <2>3, <2>4
<1>15. ASSUME NEW c \in Conns, Claim(r, c)
       PROVE  Goal
  <2> DEFINE q == [Q EXCEPT !.phase = "claimed", !.cur = c, !.cand = {}]
  <2>1. \A d \in Conns : ~ Uses1(Q, d) /\ ~ Uses1(q, d)
    BY <1>1, <1>15 DEF Claim, In, UsingPhases, RequestType, Q
  <2>2. \A d \in Conns : LifecycleKept(d)
    BY <1>1, <1>8, <1>15, LifecycleEffects DEF Claim, LifecycleKept
  <2>3. SetReq(r, q)
    BY <1>15 DEF Claim, Q
  <2> HIDE DEF q
  <2> QED
    BY <1>4, <1>5, <2>1, <2>2, <2>3 DEF KeepsUses
<1>16. CASE NoneSelected(r)
  <2>1. \A c \in Conns : ~ Uses1(Q, c)
    BY <1>16 DEF NoneSelected, In, UsingPhases, Q
  <2> QED
    BY <1>1, <1>3, <1>6, <1>9, <1>16, <2>1 DEF NoneSelected, Q
<1>17. CASE Use(r)
  <2> DEFINE q == [Q EXCEPT !.phase = "lookup"]
  <2>1. Q.phase = "claimed" /\ Q.cur \in Conns
    BY <1>2, <1>17 DEF Use, In, HoldingPhases, Q
  <2>2. \A c \in Conns : ~ Uses1(Q, c) /\ (Uses1(q, c) <=> c = Q.cur)
    BY <1>1, <2>1 DEF UsingPhases, RequestType
  <2>3. conn[Q.cur].lifecycle = "idle" /\ MarkUsed(conn[Q.cur]).lifecycle = "active"
    BY <1>1, <1>17, <2>1, LifecycleEffects DEF Use, Q
  <2>4. SetReq(r, q) /\ SetConn(Q.cur, MarkUsed(conn[Q.cur]))
    BY <1>17 DEF Use, Q
  <2>5. /\ conn'[Q.cur].lifecycle # "idle"
        /\ \A d \in Conns : d # Q.cur => LifecycleKept(d)
    BY <1>8, <2>1, <2>3, <2>4 DEF LifecycleKept
  <2> HIDE DEF q
  <2>6. Borrows(r, Q.cur)
    BY <1>4, <1>5, <2>2, <2>3, <2>4, <2>5 DEF Borrows
  <2> QED
    BY <2>1, <2>6
<1>18. CASE UseRejected(r)
  <2>1. \A c \in Conns : ~ Uses1(Q, c) /\ ~ Uses1([Q EXCEPT !.phase = "dropping"], c)
    BY <1>1, <1>18 DEF UseRejected, In, UsingPhases, RequestType, Q
  <2> QED
    BY <1>3, <1>6, <1>18, <2>1 DEF UseRejected, Q
<1>19. CASE Drop(r)
  <2> DEFINE q == [Q EXCEPT !.phase = "selecting", !.cur = None, !.excl = @ \cup {Q.cur}]
  <2>1. Q.phase = "dropping" /\ Q.cur \in Conns
    BY <1>2, <1>19 DEF Drop, In, HoldingPhases, Q
  <2>2. \A d \in Conns : ~ Uses1(Q, d) /\ ~ Uses1(q, d)
    BY <1>1, <2>1 DEF UsingPhases, RequestType
  <2>3. \A d \in Conns : LifecycleKept(d)
    BY <1>1, <1>8, <1>19, <2>1, LifecycleEffects DEF Drop, LifecycleKept, Q
  <2>4. SetReq(r, q)
    BY <1>19 DEF Drop, Q
  <2> HIDE DEF q
  <2> QED
    BY <1>4, <1>5, <2>2, <2>3, <2>4 DEF KeepsUses
<1>20. CASE LookupFound(r)
  <2> DEFINE q == [Q EXCEPT !.phase = IF Q.inExec THEN "attempting" ELSE "translating"]
  <2>1. \A d \in Conns : Uses1(q, d) <=> Uses1(Q, d)
    BY <1>1, <1>20 DEF LookupFound, In, UsingPhases, RequestType, Q
  <2> QED
    BY <1>3, <1>6, <1>20, <2>1 DEF LookupFound, Q
<1>21. CASE LookupFails(r)
  <2> DEFINE q == [Q EXCEPT !.cur = None]
  <2>1. Q.phase = "lookup" /\ Q.cur \in Conns
    BY <1>2, <1>21 DEF LookupFails, In, HoldingPhases, Q
  <2>2. q \in RequestType
    BY <1>1 DEF RequestType
  <2>3. \A d \in Conns : d # Q.cur => conn'[d] = conn[d]
    BY <1>8, <1>21, <2>1 DEF LookupFails, Q
  <2> QED
    BY <1>7, <1>9, <1>21, <2>1, <2>2, <2>3 DEF LookupFails, UsingPhases, Q
<1>22. CASE Translated(r)
  <2>1. \A d \in Conns :
          Uses1([Q EXCEPT !.phase = "attempting", !.inExec = TRUE], d) <=> Uses1(Q, d)
    BY <1>1, <1>22 DEF Translated, In, UsingPhases, RequestType, Q
  <2> QED
    BY <1>3, <1>6, <1>22, <2>1 DEF Translated, Q
<1>23. CASE TranslationFails(r)
  <2> DEFINE q == [Q EXCEPT !.cur = None]
  <2>1. Q.phase = "translating" /\ Q.cur \in Conns
    BY <1>2, <1>23 DEF TranslationFails, In, HoldingPhases, Q
  <2>2. q \in RequestType
    BY <1>1 DEF RequestType
  <2> QED
    BY <1>3, <1>7, <1>9, <1>23, <2>1, <2>2 DEF TranslationFails, UsingPhases, Q
<1>24. Q.phase = "attempting" => Q.cur \in Conns /\ Q.phase \in UsingPhases
  BY <1>2 DEF HoldingPhases, UsingPhases
<1>25. Deferring(Q) \in RequestType /\ Deferring(Q).cur = Q.cur
  BY <1>1, DeferringType DEF Deferring, RequestType
<1>26. CASE Abandon(r)
  <2> DEFINE q == [Deferring(Q) EXCEPT !.phase = "unwinding", !.cur = None,
                                       !.result = "walk"]
  <2>1. \A c \in Conns : ~ Uses1(q, c)
    BY <1>25, RequestAssumption DEF RequestType
  <2>2. SetReq(r, q) /\ Q.phase = "attempting"
    BY <1>26 DEF Abandon, In, Q
  <2> HIDE DEF q
  <2> QED
    BY <1>3, <1>7, <1>24, <1>26, <2>1, <2>2 DEF Abandon
<1>27. CASE Send(r)
  <2> DEFINE q == [Deferring(Q) EXCEPT !.phase = "upstream"]
  <2>1. SetReq(r, q) /\ Q.phase = "attempting"
    BY <1>27 DEF Send, In, Q
  <2>2. \A c \in Conns : Uses1(q, c) <=> Uses1(Q, c)
    BY <1>25, <2>1 DEF RequestType, UsingPhases
  <2> HIDE DEF q
  <2> QED
    BY <1>3, <1>6, <1>27, <2>1, <2>2 DEF Send
<1>28. CASE PreflightFails(r)
  <2>1. /\ SetReq(r, Fallback(Deferring(Q), "walk")) /\ Q.phase = "attempting"
        /\ Mark(r, "auth_rejected")
    BY <1>28 DEF PreflightFails, In, Q
  <2>2. \A c \in Conns : ~ Uses1(Fallback(Deferring(Q), "walk"), c)
    BY <1>9, <1>25
  <2> QED
    BY <1>7, <1>10, <1>24, <2>1, <2>2
<1>29. ASSUME NEW outcome \in AllOutcomes, Fail(r, outcome)
       PROVE  Goal
  <2> DEFINE q == [Q EXCEPT !.phase = "unwinding", !.cur = None,
                            !.result = ResultOf(outcome)]
  <2>1. Q.phase = "upstream" /\ Mark(r, outcome)
    BY <1>29 DEF Fail, In, Q
  <2>2. Q.cur \in Conns /\ Q.phase \in UsingPhases
    BY <1>2, <2>1 DEF HoldingPhases, UsingPhases
  <2>3. \A c \in Conns : ~ Uses1(q, c) /\ ~ Uses1(Fallback(Q, ResultOf(outcome)), c)
    BY <1>1, <1>9, RequestAssumption DEF RequestType
  <2>4. SetReq(r, q) \/ SetReq(r, Fallback(Q, ResultOf(outcome)))
    BY <1>29 DEF Fail, Q
  <2> HIDE DEF q
  <2> QED
    BY <1>7, <1>10, <2>1, <2>2, <2>3, <2>4
<1>30. CASE Succeed(r)
  <2>1. \A d \in Conns :
          Uses1([Q EXCEPT !.phase = "unwinding", !.result = "served"], d) <=> Uses1(Q, d)
    BY <1>1, <1>30 DEF Succeed, In, UsingPhases, RequestType, Q
  <2> QED
    BY <1>3, <1>6, <1>30, <2>1 DEF Succeed, Q
<1>31. ASSUME NEW c \in Conns, Unwind(r, c)
       PROVE  Goal
  <2> DEFINE q == [Q EXCEPT !.deferred = @ \ {c}]
  <2>1. \A d \in Conns : Uses1(q, d) <=> Uses1(Q, d)
    BY <1>1 DEF RequestType
  <2>2. \A d \in Conns : LifecycleKept(d)
    BY <1>1, <1>8, <1>31, LifecycleEffects DEF Unwind, LifecycleKept
  <2>3. SetReq(r, q)
    BY <1>31 DEF Unwind, Q
  <2> HIDE DEF q
  <2> QED
    BY <1>4, <1>5, <2>1, <2>2, <2>3 DEF KeepsUses
<1>32. CASE Return(r)
  <2>1. Q.phase = "unwinding"
    BY <1>32 DEF Return, In, Q
  <2>2. CASE Q.result = "served"
    <3>1. \A d \in Conns : Uses1([Q EXCEPT !.phase = "forwarding"], d) <=> Uses1(Q, d)
      BY <1>1, <2>1 DEF UsingPhases, RequestType
    <3> QED
      BY <1>3, <1>6, <1>32, <2>2, <3>1 DEF Return, Q
  <2>3. CASE Q.result # "served"
    <3> DEFINE q == IF Q.result = "forward" THEN IdleRequest
                    ELSE MemberFails([Q EXCEPT !.inExec = FALSE])
    <3>1. [Q EXCEPT !.inExec = FALSE] \in RequestType
      BY <1>1 DEF RequestType
    <3>2. \A d \in Conns : ~ Uses1(q, d)
      BY <1>9, <3>1
    <3>3. SetReq(r, q) /\ UNCHANGED conn
      BY <1>3, <1>32, <2>3 DEF Return, Q
    <3>4. CASE Q.cur \in Conns
      <4>1. Q.phase \in UsingPhases
        BY <2>1 DEF UsingPhases
      <4> QED
        BY <1>7, <3>2, <3>3, <3>4, <4>1
    <3>5. CASE Q.cur \notin Conns
      BY <1>6, <3>2, <3>3, <3>5
    <3> QED
      BY <3>4, <3>5
  <2> QED
    BY <2>2, <2>3
<1>33. CASE Forward(r)
  <2>1. Q.phase = "forwarding" /\ Mark(r, "success") /\ SetReq(r, IdleRequest)
    BY <1>33 DEF Forward, In, Q
  <2>2. Q.cur \in Conns /\ Q.phase \in UsingPhases
    BY <1>2, <2>1 DEF HoldingPhases, UsingPhases
  <2> QED
    BY <1>7, <1>9, <1>10, <2>1, <2>2
<1> QED
  BY <1>11, <1>12, <1>13, <1>14, <1>15, <1>16, <1>17, <1>18, <1>19, <1>20, <1>21,
     <1>22, <1>23, <1>26, <1>27, <1>28, <1>29, <1>30, <1>31, <1>32, <1>33
  DEF Step, Client


\* The other actors never make a connection that was registered idle.
LEMMA OthersKeepLifecycles ==
  ASSUME TypeInv, HealthCheck \/ RefreshNext \/ Manage \/ Time
  PROVE  /\ Known \subseteq Known'
         /\ \A c \in Known : LifecycleKept(c) \/ conn'[c].lifecycle = "disabled"
<1> DEFINE Goal == /\ Known \subseteq Known'
                   /\ \A c \in Known : LifecycleKept(c) \/ conn'[c].lifecycle = "disabled"
<1>1. /\ conn \in [Conns -> ConnectionType] /\ status \in [Conns -> Statuses]
      /\ \A c \in Conns : conn[c] \in ConnectionType
      /\ Managed \subseteq Conns
  BY PoolAssumption DEF TypeInv, TypeOK, PoolTypeOK
<1>2. UNCHANGED status => Known \subseteq Known'
  BY DEF Known
<1>3. UNCHANGED conn => \A c \in Conns : LifecycleKept(c)
  BY DEF LifecycleKept
<1>4. ASSUME NEW c \in Conns, NEW k, SetConn(c, k),
             k.lifecycle = conn[c].lifecycle \/ k.lifecycle = "disabled"
      PROVE  \A d \in Conns : LifecycleKept(d) \/ conn'[d].lifecycle = "disabled"
  BY <1>1, <1>4 DEF SetConn, LifecycleKept
<1>5. ASSUME NEW c \in Managed, InsertRow(c) \/ Register(c) \/ Suspend(c) \/ Unsuspend(c) \/ DeleteRow(c)
          \/ Remove(c)
      PROVE  Goal
  <2>1. Known \subseteq Known'
    BY <1>1, <1>5
    DEF InsertRow, Register, Suspend, Unsuspend, DeleteRow, Remove, MoveStatus, Known
  <2>2. c \notin Known \/ UNCHANGED conn
    BY <1>5 DEF InsertRow, Register, Suspend, Unsuspend, DeleteRow, Remove, MoveStatus, Known
  <2>3. \A d \in Conns : d # c => conn'[d] = conn[d]
    BY <1>1, <1>5 DEF InsertRow, Register, Suspend, Unsuspend, DeleteRow, Remove, SetConn
  <2> QED
    BY <1>3, <2>1, <2>2, <2>3 DEF Known, LifecycleKept
<1>6. CASE Tick
  BY <1>1, <1>2, <1>6, LifecycleEffects DEF Tick, Known, LifecycleKept
<1>7. ASSUME NEW c \in Conns, NEW m \in Models, DenialExpires(c, m)
      PROVE  Goal
  <2>1. [conn[c] EXCEPT !.denied = @ \ {m}].lifecycle = conn[c].lifecycle
    BY <1>1 DEF ConnectionType
  <2> QED
    BY <1>2, <1>4, <1>7, <2>1 DEF DenialExpires, Known
<1>8. ASSUME NEW c \in Conns, Observe(c) \/ Promote(c)
      PROVE  Goal
  BY <1>1, <1>2, <1>3, <1>4, <1>8, LifecycleEffects
  DEF Observe, Promote, poolVars, Known
<1>9. ASSUME NEW c \in Conns, Age(c) \/ Revoke(c) \/ Visit(c) \/ CallSucceeds(c)
      PROVE  Goal
  BY <1>2, <1>3, <1>9 DEF Age, Revoke, Visit, CallSucceeds, poolVars, Known
<1>10. ASSUME NEW c \in Conns, NEW revoked \in BOOLEAN, CallFails(c, revoked)
       PROVE  Goal
  BY <1>2, <1>3, <1>10 DEF CallFails, poolVars, Known
<1>11. ASSUME NEW c \in Conns, Enter(c)
       PROVE  Goal
  BY <1>1, <1>2, <1>4, <1>11, LifecycleEffects DEF Enter, Known
<1>12. ASSUME NEW c \in Conns, MarkFailed(c) \/ MarkValid(c) \/ DisableConn(c)
       PROVE  Goal
  BY <1>1, <1>2, <1>4, <1>12, LifecycleEffects DEF MarkFailed, MarkValid, DisableConn, Known
<1> QED
  BY <1>5, <1>6, <1>7, <1>8, <1>9, <1>10, <1>11, <1>12
  DEF Manage, Time, HealthCheck, RefreshNext, Refresh

-----------------------------------------------------------------------------
LEMMA InitUse == Init => UseInv
<1> SUFFICES ASSUME Init PROVE UseInv
  OBVIOUS
<1>1. \A r \in Requests : req[r] = IdleRequest
  BY DEF Init, RequestInit
<1>2. HandledIsKnown
  BY <1>1 DEF HandledIsKnown, Handled, IdleRequest, NewRequest
<1>3. \A r \in Requests, c \in Conns : ~ Uses(r, c)
  BY <1>1 DEF Uses, UsingPhases, IdleRequest, NewRequest
<1> QED
  BY <1>2, <1>3 DEF UseInv, UsedIsNotIdle, ExclusiveUse

\* A step of a goroutine preserves the invariant: it borrows an idle
\* connection, which nobody uses, or gives back one that nobody else uses.
LEMMA StepUseInv ==
  ASSUME TypeInv, UseInv, NEW r \in Requests, Step(r) \/ Client(r)
  PROVE  UseInv'
<1>1. \A s \in Requests : s # r => req'[s] = req[s]
  BY StepHandled
<1>2. \A s \in Requests, c \in Conns : s # r => (Uses(s, c)' <=> Uses(s, c))
  BY <1>1 DEF Uses
<1>3. HandledIsKnown'
  <2>1. Known' = Known /\ Registered \subseteq Known
    BY StepHandled DEF Known, Registered
  <2> QED
    BY <1>1, <2>1, StepHandled DEF UseInv, HandledIsKnown, Handled
<1>4. UsedIsNotIdle /\ ExclusiveUse
  BY DEF UseInv
<1>5. ASSUME NEW c \in Conns, Borrows(r, c)
      PROVE  UsedIsNotIdle' /\ ExclusiveUse'
  BY <1>2, <1>4, <1>5 DEF Borrows, LifecycleKept, UsedIsNotIdle, ExclusiveUse
<1>6. ASSUME NEW c \in Conns, GivesBack(r, c)
      PROVE  UsedIsNotIdle' /\ ExclusiveUse'
  BY <1>2, <1>4, <1>6 DEF GivesBack, LifecycleKept, UsedIsNotIdle, ExclusiveUse
<1>7. ASSUME KeepsUses(r)
      PROVE  UsedIsNotIdle' /\ ExclusiveUse'
  BY <1>2, <1>4, <1>7 DEF KeepsUses, LifecycleKept, UsedIsNotIdle, ExclusiveUse
<1> QED
  BY <1>3, <1>5, <1>6, <1>7, StepUses DEF UseInv

LEMMA UsedIsKnown ==
  ASSUME HandledIsKnown, NEW r \in Requests, NEW c \in Conns, Uses(r, c)
  PROVE  c \in Known
  BY RequestAssumption DEF HandledIsKnown, Handled, Uses

LEMMA NextUse == TypeInv /\ UseInv /\ [Next]_vars => UseInv'
<1> SUFFICES ASSUME TypeInv, UseInv, [Next]_vars PROVE UseInv'
  OBVIOUS
<1>1. CASE Serve /\ UNCHANGED <<due, refreshVars>>
  BY <1>1, StepUseInv DEF Serve
<1>2. ASSUME UNCHANGED req, Known \subseteq Known',
             \A c \in Known : LifecycleKept(c) \/ conn'[c].lifecycle = "disabled"
      PROVE  UseInv'
  <2>1. HandledIsKnown'
    BY <1>2 DEF UseInv, HandledIsKnown, Handled
  <2>2. \A r \in Requests, c \in Conns : Uses(r, c)' <=> Uses(r, c)
    BY <1>2 DEF Uses
  <2>3. \A r \in Requests, c \in Conns : Uses(r, c) => c \in Known
    BY UsedIsKnown DEF UseInv
  <2> QED
    BY <1>2, <2>1, <2>2, <2>3 DEF UseInv, UsedIsNotIdle, ExclusiveUse, LifecycleKept
<1>3. CASE \/ HealthCheck /\ UNCHANGED <<req, refreshVars>>
           \/ RefreshNext /\ UNCHANGED <<req, due>>
           \/ (Manage \/ Time) /\ UNCHANGED <<req, due, refreshVars>>
  BY <1>2, <1>3, OthersKeepLifecycles
<1>4. CASE Restart
  <2>1. \A r \in Requests : req'[r] = IdleRequest
    BY <1>4 DEF Restart
  <2>2. HandledIsKnown'
    BY <2>1 DEF HandledIsKnown, Handled, IdleRequest, NewRequest
  <2>3. \A r \in Requests, c \in Conns : ~ Uses(r, c)'
    BY <2>1 DEF Uses, UsingPhases, IdleRequest, NewRequest
  <2> QED
    BY <2>2, <2>3 DEF UseInv, UsedIsNotIdle, ExclusiveUse
<1>5. CASE UNCHANGED vars
  BY <1>2, <1>5 DEF vars, Known, LifecycleKept
<1> QED
  BY <1>1, <1>3, <1>4, <1>5 DEF Next

THEOREM UseInvariance == Spec => []UseInv
  BY TypeInvariance, InitUse, NextUse, PTL DEF Spec

\* At most one request is in flight on a connection, for any number of
\* goroutines and connections, whatever is deleted, refreshed or restarted.
THEOREM ExclusiveUseHolds == Spec => []ExclusiveUse
<1>1. UseInv => ExclusiveUse
  BY DEF UseInv
<1> QED
  BY <1>1, UseInvariance, PTL

\* A connection in use is never made selectable by somebody else.
THEOREM UsedIsNotIdleHolds == Spec => []UsedIsNotIdle
<1>1. UseInv => UsedIsNotIdle
  BY DEF UseInv
<1> QED
  BY <1>1, UseInvariance, PTL

-----------------------------------------------------------------------------
(* Refinement.                                                             *)

LEMMA InitLease == Init => LeaseView!Init
<1> SUFFICES ASSUME Init PROVE LeaseView!Init
  OBVIOUS
<1>1. \A r \in Requests, c \in Conns : ~ Uses(r, c)
  BY DEF Init, RequestInit, Uses, UsingPhases, IdleRequest, NewRequest
<1> QED
  BY <1>1 DEF LeaseView!Init, BorrowersOf

\* When nobody's use changes, the lease view stutters.
LEMMA LeaseStutters ==
  ASSUME \A r \in Requests, c \in Conns : Uses(r, c)' <=> Uses(r, c)
  PROVE  [c \in Conns |-> BorrowersOf(c)]' = [c \in Conns |-> BorrowersOf(c)]
  BY DEF BorrowersOf

LEMMA StepLease ==
  ASSUME TypeInv, UseInv, NEW r \in Requests, Step(r) \/ Client(r)
  PROVE  [LeaseView!Next]_[c \in Conns |-> BorrowersOf(c)]
<1>1. \A s \in Requests, c \in Conns : s # r => (Uses(s, c)' <=> Uses(s, c))
  BY StepHandled DEF Uses
<1>2. ASSUME NEW c \in Conns, Borrows(r, c)
      PROVE  LeaseView!Borrow(r, c)
  <2>1. BorrowersOf(c) = {}
    BY <1>2 DEF Borrows, BorrowersOf, UseInv, UsedIsNotIdle
  <2>2. \A d \in Conns : r \notin BorrowersOf(d)
    BY <1>2 DEF Borrows, BorrowersOf
  <2>3. \A d \in Conns : BorrowersOf(d)' = IF d = c THEN {r} ELSE BorrowersOf(d)
    BY <1>1, <1>2, <2>1 DEF Borrows, BorrowersOf
  <2> QED
    BY <2>1, <2>2, <2>3 DEF LeaseView!Borrow
<1>3. ASSUME NEW c \in Conns, GivesBack(r, c)
      PROVE  LeaseView!Return(r, c)
  <2>1. r \in BorrowersOf(c)
    BY <1>3 DEF GivesBack, BorrowersOf
  <2>2. \A d \in Conns : d # c => ~ Uses(r, d)
    BY <1>3 DEF GivesBack, Uses
  <2>3. \A d \in Conns :
          BorrowersOf(d)' = IF d = c THEN BorrowersOf(c) \ {r} ELSE BorrowersOf(d)
    BY <1>1, <1>3, <2>2 DEF GivesBack, BorrowersOf
  <2> QED
    BY <2>1, <2>3 DEF LeaseView!Return
<1>4. ASSUME KeepsUses(r)
      PROVE  UNCHANGED [c \in Conns |-> BorrowersOf(c)]
  BY <1>1, <1>4, LeaseStutters DEF KeepsUses
<1> QED
  BY <1>2, <1>3, <1>4, StepUses DEF LeaseView!Next

LEMMA NextLease ==
  TypeInv /\ UseInv /\ [Next]_vars => [LeaseView!Next]_[c \in Conns |-> BorrowersOf(c)]
<1> SUFFICES ASSUME TypeInv, UseInv, [Next]_vars
             PROVE  [LeaseView!Next]_[c \in Conns |-> BorrowersOf(c)]
  OBVIOUS
<1>1. CASE Serve /\ UNCHANGED <<due, refreshVars>>
  BY <1>1, StepLease DEF Serve
<1>2. CASE UNCHANGED req
  BY <1>2, LeaseStutters DEF Uses
<1>3. CASE Restart
  <2>1. \A r \in Requests, c \in Conns : ~ Uses(r, c)'
    BY <1>3 DEF Restart, Uses, UsingPhases, IdleRequest, NewRequest
  <2>2. LeaseView!Crash
    BY <2>1 DEF LeaseView!Crash, BorrowersOf
  <2> QED
    BY <2>2 DEF LeaseView!Next
<1> QED
  BY <1>1, <1>2, <1>3 DEF Next, vars

\* The router implements the lease: every behaviour of the goroutines, the
\* background loops and the management handlers maps to lending and returning.
THEOREM RouterImplementsLease == Spec => ImplementsLease
  BY TypeInvariance, UseInvariance, InitLease, NextLease, PTL
  DEF Spec, ImplementsLease, LeaseView!Spec

-----------------------------------------------------------------------------
(***************************************************************************)
(* Part 3: the breaker and the credential.                                 *)
(***************************************************************************)

(* The breaker.                                                            *)

\* The health checker gives the lock up between reading the deadline and
\* ToHalfOpen; nobody else moves an open breaker in the meantime.
DueStaysOpen == \A c \in due : conn[c].breaker = "open" /\ conn[c].cooldown = 0

UnknownIsNotOpen == \A c \in Conns \ Known : conn[c].breaker # "open"

BreakerInv == LocksDieWithTheBreaker /\ DueStaysOpen /\ UnknownIsNotOpen

BreakerStep(k, k2) == SameDeadlines(k, k2) \/ Opened(k, k2)

LEMMA MarkResultBreaker ==
  ASSUME NEW k \in ConnectionType, NEW outcome, NEW m \in Models, NEW d \in 1 .. MaxCooldown
  PROVE  BreakerStep(k, MarkResult(k, outcome, m, d))
<1>1. d \in 0 .. MaxCooldown
  BY ConnectionAssumption
<1>2. \A kind : BreakerStep(k, OpenBreaker(k, kind, d, m))
  BY <1>1, BreakerEffects DEF BreakerStep
<1>3. /\ SameDeadlines(k, MarkSuccess(RecordModelRejection(k, m)))
      /\ SameDeadlines(k, MarkAuthExpired(k)) /\ SameDeadlines(k, MarkSuccess(k))
  BY <1>1, BreakerEffects
<1> QED
  BY <1>2, <1>3 DEF MarkResult, BreakerStep

\* A goroutine's step opens the breaker of a connection it handles, or leaves
\* every deadline alone.
LEMMA StepBreaker ==
  ASSUME TypeInv, NEW r \in Requests, Step(r) \/ Client(r)
  PROVE  \A d \in Conns : \/ conn'[d] = conn[d]
                          \/ d \in Handled(req[r]) /\ BreakerStep(conn[d], conn'[d])
<1> DEFINE Q == req[r]
           Goal == \A d \in Conns : \/ conn'[d] = conn[d]
                                    \/ d \in Handled(Q) /\ BreakerStep(conn[d], conn'[d])
<1>1. /\ Q \in RequestType /\ conn \in [Conns -> ConnectionType]
      /\ \A c \in Conns : conn[c] \in ConnectionType
      /\ 1 \in 0 .. MaxCooldown /\ Models # {}
  BY ConnectionAssumption DEF TypeInv, TypeOK, RequestTypeOK, PoolTypeOK
<1>2. UNCHANGED poolVars => Goal
  BY DEF poolVars
<1>3. ASSUME NEW c \in Conns, c \in Handled(Q), NEW k, SetConn(c, k), BreakerStep(conn[c], k)
      PROVE  Goal
  BY <1>1, <1>3 DEF SetConn
<1>4. \A c \in Conns :
        /\ BreakerStep(conn[c], MarkUsed(conn[c]))
        /\ BreakerStep(conn[c], MarkSuccess(conn[c]))
        /\ BreakerStep(conn[c], ClaimTrial(conn[c]))
        /\ BreakerStep(conn[c], ReleaseHalfOpenTrial(conn[c]))
  BY <1>1, BreakerEffects DEF BreakerStep
<1>5. Q.phase \in HoldingPhases => Q.cur \in Conns /\ Q.cur \in Handled(Q)
  BY <1>1 DEF TypeInv, HoldsAConnection, Handled, RequestType
<1>6. ASSUME NEW outcome, Mark(r, outcome), Q.phase \in HoldingPhases
      PROVE  Goal
  <2>1. CASE Q.cur \in Registered
    <3>1. PICK d \in 1 .. MaxCooldown :
                 SetConn(Q.cur, MarkResult(conn[Q.cur], outcome, Q.model, d))
      BY <1>6, <2>1 DEF Mark
    <3>2. BreakerStep(conn[Q.cur], MarkResult(conn[Q.cur], outcome, Q.model, d))
      BY <1>1, <1>5, <1>6, MarkResultBreaker DEF RequestType
    <3> QED
      BY <1>3, <1>5, <1>6, <3>1, <3>2
  <2>2. CASE Q.cur \notin Registered
    BY <1>6, <2>2 DEF Mark
  <2> QED
    BY <2>1, <2>2
<1> SUFFICES Goal
  OBVIOUS
<1> HIDE DEF Q
<1>7. ASSUME NEW c \in Conns, Claim(r, c) \/ Unwind(r, c)
      PROVE  Goal
  <2>1. c \in Handled(Q)
    BY <1>7, RequestAssumption DEF Claim, Unwind, Handled, Q
  <2> QED
    BY <1>3, <1>4, <1>7, <2>1 DEF Claim, Unwind
<1>8. CASE Use(r) \/ Drop(r) \/ LookupFails(r)
  <2>1. Q.cur \in Conns /\ Q.cur \in Handled(Q)
    BY <1>5, <1>8 DEF Use, Drop, LookupFails, In, HoldingPhases, Q
  <2> QED
    BY <1>3, <1>4, <1>8, <2>1 DEF Use, Drop, LookupFails, Q
<1>9. CASE PreflightFails(r) \/ Forward(r)
  BY <1>6, <1>9 DEF PreflightFails, Forward, In, HoldingPhases, Q
<1>10. ASSUME NEW outcome \in AllOutcomes, Fail(r, outcome)
       PROVE  Goal
  BY <1>6, <1>10 DEF Fail, In, HoldingPhases, Q
<1>11. ASSUME NEW c \in Conns, Filter(r, c) \/ ClaimLost(r, c)
       PROVE  Goal
  BY <1>2, <1>11 DEF Filter, ClaimLost
<1>12. CASE \/ Snapshot(r) \/ NoneSelected(r) \/ UseRejected(r) \/ LookupFound(r)
            \/ Translated(r) \/ TranslationFails(r) \/ Abandon(r) \/ Send(r)
            \/ Succeed(r) \/ Return(r)
  BY <1>2, <1>12
  DEF Snapshot, NoneSelected, UseRejected, LookupFound, Translated, TranslationFails,
      Abandon, Send, Succeed, Return
<1>13. CASE Client(r)
  BY <1>2, <1>13 DEF Client, Arrive, Cancel
<1> QED
  BY <1>7, <1>8, <1>9, <1>10, <1>11, <1>12, <1>13 DEF Step

-----------------------------------------------------------------------------
LEMMA HydratedBreaker ==
  \A st : /\ Hydrated(st).breaker = "closed" /\ Hydrated(st).cooldown = 0
          /\ \A m \in Models : Hydrated(st).locks[m] = 0
  BY DEF Hydrated, Disable, NewConnection

LEMMA InitBreaker == Init => BreakerInv
<1> SUFFICES ASSUME Init PROVE BreakerInv
  OBVIOUS
<1>1. \A c \in Conns : conn[c] = Hydrated(status[c])
  BY DEF Init, PoolInit
<1>2. due = {}
  BY DEF Init, HealthInit
<1>3. LocksDieWithTheBreaker
  BY <1>1, HydratedBreaker DEF LocksDieWithTheBreaker
<1> QED
  BY <1>1, <1>2, <1>3, HydratedBreaker DEF BreakerInv, DueStaysOpen, UnknownIsNotOpen

LEMMA SoonerIsMonotone ==
  \A n \in Nat : \A p \in Nat : Sooner(n) \in Nat /\ (p <= n => Sooner(p) <= Sooner(n))
  BY DEF Sooner

LEMMA DeadlineTypes ==
  ASSUME NEW k \in ConnectionType
  PROVE  k.cooldown \in Nat /\ \A m \in Models : k.locks[m] \in Nat
<1>1. k.cooldown \in 0 .. MaxCooldown /\ k.locks \in [Models -> 0 .. MaxCooldown]
  BY DEF ConnectionType
<1>2. 0 .. MaxCooldown \subseteq Nat
  BY ConnectionAssumption
<1> QED
  BY <1>1, <1>2

\* LocksDieWithTheBreaker for one connection, and how a step preserves it.
LocksDie(k) ==
  /\ k.breaker # "open" => k.cooldown = 0
  /\ \A m \in Models : k.locks[m] <= k.cooldown

LEMMA BreakerStepLocksDie ==
  ASSUME NEW k \in ConnectionType, NEW k2, LocksDie(k), BreakerStep(k, k2)
  PROVE  LocksDie(k2)
<1>1. CASE SameDeadlines(k, k2)
  BY <1>1 DEF SameDeadlines, LocksDie
<1>2. CASE Opened(k, k2)
  <2>1. PICK d \in 0 .. MaxCooldown, m \in Models :
               k2.cooldown = d /\ k2.locks = [k.locks EXCEPT ![m] = d]
    BY <1>2 DEF Opened
  <2>2. d \in Nat
    BY ConnectionAssumption
  <2>3. \A n \in Models : k.locks[n] \in Nat /\ k.locks[n] <= 0
    BY <1>2, DeadlineTypes DEF Opened, LocksDie
  <2>4. k.locks \in [Models -> 0 .. MaxCooldown]
    BY DEF ConnectionType
  <2>5. \A n \in Models : k2.locks[n] = IF n = m THEN d ELSE k.locks[n]
    BY <2>1, <2>4
  <2>6. \A n \in Models : k2.locks[n] <= d
    BY <2>2, <2>3, <2>5
  <2> QED
    BY <1>2, <2>1, <2>6 DEF LocksDie, Opened
<1> QED
  BY <1>1, <1>2 DEF BreakerStep


LEMMA ElapseLocksDie ==
  ASSUME NEW k \in ConnectionType, LocksDie(k)
  PROVE  LocksDie(Elapse(k))
<1>1. k.cooldown \in Nat /\ \A m \in Models : k.locks[m] \in Nat
  BY DeadlineTypes
<1>2. k.cooldown = 0 => Sooner(k.cooldown) = 0
  BY DEF Sooner
<1>3. \A m \in Models : Sooner(k.locks[m]) <= Sooner(k.cooldown)
  BY <1>1, SoonerIsMonotone DEF LocksDie
<1> QED
  BY <1>2, <1>3, TimedEffects DEF LocksDie

LEMMA NewConnectionLocksDie == LocksDie(NewConnection) /\ NewConnection.breaker = "closed"
<1>1. /\ NewConnection.breaker = "closed" /\ NewConnection.cooldown = 0
      /\ \A m \in Models : NewConnection.locks[m] = 0
  BY DEF NewConnection
<1> QED
  BY <1>1 DEF LocksDie

\* How every step but the granting of a trial moves a breaker: by a method, by
\* the clock, or by a registration of a connection never seen before.
ConnMove(d) ==
  \/ conn'[d] = conn[d]
  \/ SameDeadlines(conn[d], conn'[d])
  \/ d \in Known /\ Opened(conn[d], conn'[d])
  \/ conn'[d] = Elapse(conn[d])
  \/ d \notin Known /\ conn'[d] = NewConnection

LEMMA StepMoves ==
  ASSUME TypeInv, UseInv, NEW r \in Requests, Step(r) \/ Client(r)
  PROVE  \A d \in Conns : ConnMove(d)
<1>1. \A d \in Handled(req[r]) : d \in Known
  BY DEF UseInv, HandledIsKnown
<1> QED
  BY <1>1, StepBreaker DEF ConnMove, BreakerStep

LEMMA OthersMove ==
  ASSUME TypeInv, RefreshNext \/ Manage \/ Time
  PROVE  \A d \in Conns : ConnMove(d)
<1> DEFINE Goal == \A d \in Conns : ConnMove(d)
<1>1. /\ conn \in [Conns -> ConnectionType]
      /\ \A c \in Conns : conn[c] \in ConnectionType
      /\ 1 \in 0 .. MaxCooldown /\ Models # {}
      /\ Managed \subseteq Conns
  BY ConnectionAssumption, PoolAssumption DEF TypeInv, TypeOK, PoolTypeOK
<1>2. UNCHANGED conn => Goal
  BY DEF ConnMove
<1>3. ASSUME NEW c \in Conns, NEW k, SetConn(c, k), SameDeadlines(conn[c], k)
      PROVE  Goal
  BY <1>1, <1>3 DEF SetConn, ConnMove
<1>4. \A c \in Conns :
        /\ SameDeadlines(conn[c], conn[c])
        /\ SameDeadlines(conn[c], Disable(conn[c]))
        /\ SameDeadlines(conn[c], MarkRefreshing(conn[c]))
        /\ SameDeadlines(conn[c], MarkRefreshSuccess(conn[c]))
        /\ SameDeadlines(conn[c], MarkRefreshFailure(conn[c]))
  BY <1>1, BreakerEffects DEF SameDeadlines
<1>5. ASSUME NEW c \in Managed, InsertRow(c) \/ Suspend(c) \/ Unsuspend(c) \/ DeleteRow(c) \/ Remove(c)
      PROVE  Goal
  BY <1>2, <1>5 DEF InsertRow, Suspend, Unsuspend, DeleteRow, Remove
<1>6. ASSUME NEW c \in Managed, Register(c)
      PROVE  Goal
  BY <1>1, <1>6 DEF Register, MoveStatus, SetConn, ConnMove, Known
<1>7. CASE Tick
  BY <1>7 DEF Tick, ConnMove
<1>8. ASSUME NEW c \in Conns, NEW m \in Models, DenialExpires(c, m)
      PROVE  Goal
  <2>1. SameDeadlines(conn[c], [conn[c] EXCEPT !.denied = @ \ {m}])
    BY <1>1 DEF SameDeadlines, ConnectionType
  <2> QED
    BY <1>3, <1>8, <2>1 DEF DenialExpires
<1>9. ASSUME NEW c \in Conns, Age(c) \/ Revoke(c) \/ Visit(c) \/ CallSucceeds(c)
      PROVE  Goal
  BY <1>2, <1>9 DEF Age, Revoke, Visit, CallSucceeds, poolVars
<1>10. ASSUME NEW c \in Conns, NEW revoked \in BOOLEAN, CallFails(c, revoked)
       PROVE  Goal
  BY <1>2, <1>10 DEF CallFails, poolVars
<1>11. ASSUME NEW c \in Conns, Enter(c) \/ MarkFailed(c) \/ MarkValid(c) \/ DisableConn(c)
       PROVE  Goal
  BY <1>3, <1>4, <1>11 DEF Enter, MarkFailed, MarkValid, DisableConn
<1> QED
  BY <1>5, <1>6, <1>7, <1>8, <1>9, <1>10, <1>11 DEF Manage, Time, RefreshNext, Refresh

\* A move keeps the deadlines in order, keeps an elapsed cooldown elapsed and
\* an open breaker open.
LEMMA MovesKeep ==
  ASSUME TypeInv, BreakerInv, NEW d \in Conns, ConnMove(d)
  PROVE  /\ LocksDie(conn'[d])
         /\ conn[d].breaker = "open" => conn'[d].breaker = "open"
         /\ conn[d].breaker = "open" /\ conn[d].cooldown = 0 => conn'[d].cooldown = 0
         /\ d \notin Known => conn'[d].breaker # "open"
<1>1. conn[d] \in ConnectionType /\ LocksDie(conn[d]) /\ Sooner(0) = 0
  BY DEF TypeInv, TypeOK, PoolTypeOK, BreakerInv, LocksDieWithTheBreaker, LocksDie, Sooner
<1>2. d \notin Known => conn[d].breaker # "open"
  BY DEF BreakerInv, UnknownIsNotOpen
<1>3. CASE conn'[d] = conn[d] \/ SameDeadlines(conn[d], conn'[d])
  BY <1>1, <1>2, <1>3, BreakerStepLocksDie DEF BreakerStep, SameDeadlines
<1>4. CASE d \in Known /\ Opened(conn[d], conn'[d])
  BY <1>1, <1>4, BreakerStepLocksDie DEF BreakerStep, Opened
<1>5. CASE conn'[d] = Elapse(conn[d])
  BY <1>1, <1>2, <1>5, ElapseLocksDie, TimedEffects
<1>6. CASE d \notin Known /\ conn'[d] = NewConnection
  BY <1>2, <1>6, NewConnectionLocksDie
<1> QED
  BY <1>3, <1>4, <1>5, <1>6 DEF ConnMove


LEMMA MovesPreserve ==
  ASSUME TypeInv, BreakerInv, \A d \in Conns : ConnMove(d), due' \subseteq Conns,
         Known \subseteq Known',
         \A c \in due' : c \in due \/ (conn[c].breaker = "open" /\ conn[c].cooldown = 0)
  PROVE  BreakerInv'
<1>1. LocksDieWithTheBreaker'
  BY MovesKeep DEF LocksDieWithTheBreaker, LocksDie
<1>2. DueStaysOpen'
  BY MovesKeep DEF BreakerInv, DueStaysOpen
<1>3. UnknownIsNotOpen'
  BY MovesKeep DEF UnknownIsNotOpen
<1> QED
  BY <1>1, <1>2, <1>3 DEF BreakerInv

\* The health checker lets a trial through: the cooldown it read is still over.
LEMMA PromoteGrantsTrial ==
  ASSUME TypeInv, BreakerInv, NEW c \in Conns, Promote(c)
  PROVE  /\ conn[c].breaker = "open" /\ conn[c].cooldown = 0
         /\ conn'[c].breaker = "half_open" /\ LocksDie(conn'[c])
         /\ \A d \in Conns : d # c => conn'[d] = conn[d]
<1>1. /\ conn \in [Conns -> ConnectionType] /\ conn[c] \in ConnectionType
      /\ LocksDie(conn[c])
  BY DEF TypeInv, TypeOK, PoolTypeOK, BreakerInv, LocksDieWithTheBreaker, LocksDie
<1>2. conn[c].breaker = "open" /\ conn[c].cooldown = 0
  BY DEF Promote, BreakerInv, DueStaysOpen
<1>3. /\ conn'[c] = ToHalfOpen(conn[c])
      /\ \A d \in Conns : d # c => conn'[d] = conn[d]
  BY <1>1 DEF Promote, SetConn
<1> QED
  BY <1>1, <1>2, <1>3, TimedEffects DEF LocksDie

LEMMA PromotePreserves ==
  ASSUME TypeInv, BreakerInv, NEW c \in Conns, Promote(c)
  PROVE  BreakerInv'
<1>1. LocksDieWithTheBreaker'
  BY PromoteGrantsTrial DEF BreakerInv, LocksDieWithTheBreaker, LocksDie
<1>2. DueStaysOpen'
  BY DEF Promote, DueStaysOpen
<1>3. UnknownIsNotOpen'
  <2>1. Known' = Known
    BY DEF Promote, Known
  <2> QED
    BY <2>1, PromoteGrantsTrial DEF BreakerInv, UnknownIsNotOpen
<1> QED
  BY <1>1, <1>2, <1>3 DEF BreakerInv

\* What a step of the router is to the breakers.
LEMMA NextMoves ==
  ASSUME TypeInv, UseInv, BreakerInv, [Next]_vars
  PROVE  \/ /\ \A d \in Conns : ConnMove(d)
            /\ Known \subseteq Known'
            /\ \A c \in due' : c \in due \/ (conn[c].breaker = "open" /\ conn[c].cooldown = 0)
         \/ \E c \in Conns : Promote(c)
         \/ Restart
<1> DEFINE Goal == /\ \A d \in Conns : ConnMove(d)
                   /\ Known \subseteq Known'
                   /\ \A c \in due' : c \in due \/ (conn[c].breaker = "open" /\ conn[c].cooldown = 0)
<1>1. CASE Serve /\ UNCHANGED <<due, refreshVars>>
  <2>1. PICK r \in Requests : Step(r) \/ Client(r)
    BY <1>1 DEF Serve
  <2>2. Known \subseteq Known'
    BY <2>1, StepHandled DEF Known
  <2> QED
    BY <1>1, <2>1, <2>2, StepMoves
<1>2. CASE \/ RefreshNext /\ UNCHANGED <<req, due>>
           \/ (Manage \/ Time) /\ UNCHANGED <<req, due, refreshVars>>
  BY <1>2, OthersMove, OthersKeepLifecycles
<1>3. ASSUME NEW c \in Conns, Observe(c)
      PROVE  Goal
  BY <1>3 DEF Observe, poolVars, ConnMove, Known
<1>4. CASE HealthCheck /\ UNCHANGED <<req, refreshVars>>
  BY <1>3, <1>4 DEF HealthCheck
<1>5. CASE UNCHANGED vars
  BY <1>5 DEF vars, ConnMove, Known
<1> QED
  BY <1>1, <1>2, <1>4, <1>5 DEF Next

LEMMA RestartBreaker == Restart => BreakerInv'
<1> SUFFICES ASSUME Restart PROVE BreakerInv'
  OBVIOUS
<1>1. \A c \in Conns : conn'[c] = Hydrated(status[c])
  BY DEF Restart
<1>2. due' = {}
  BY DEF Restart
<1> QED
  BY <1>1, <1>2, HydratedBreaker
  DEF BreakerInv, LocksDieWithTheBreaker, LocksDie, DueStaysOpen, UnknownIsNotOpen

LEMMA NextBreaker == TypeInv /\ TypeInv' /\ UseInv /\ BreakerInv /\ [Next]_vars => BreakerInv'
<1> SUFFICES ASSUME TypeInv, TypeInv', UseInv, BreakerInv, [Next]_vars
             PROVE  BreakerInv'
  OBVIOUS
<1>1. due' \subseteq Conns
  BY DEF TypeInv, TypeOK, HealthTypeOK
<1> QED
  BY <1>1, NextMoves, MovesPreserve, PromotePreserves, RestartBreaker

THEOREM BreakerInvariance == Spec => []BreakerInv
  BY TypeInvariance, UseInvariance, InitBreaker, NextBreaker, PTL DEF Spec

\* No rate-limit lock outlives its breaker's cooldown, so a trial is never
\* refused by a lock, whatever cooldowns the failures are given.
THEOREM LocksDieWithTheBreakerHolds == Spec => []LocksDieWithTheBreaker
<1>1. BreakerInv => LocksDieWithTheBreaker
  BY DEF BreakerInv
<1> QED
  BY <1>1, BreakerInvariance, PTL

\* A breaker leaves open only as half-open, after its cooldown, although the
\* health checker reads the deadline and moves the breaker in two steps.
THEOREM RecoveryByTrialHolds == Spec => RecoveryByTrial
<1> DEFINE Trial ==
      \A c \in Conns :
       conn[c].breaker = "open" /\ conn'[c].breaker # "open" =>
         \/ conn'[c].breaker = "half_open" /\ conn[c].cooldown = 0
         \/ Restart
<1>1. TypeInv /\ UseInv /\ BreakerInv /\ [Next]_vars => [Trial]_vars
  <2> SUFFICES ASSUME TypeInv, UseInv, BreakerInv, [Next]_vars, ~ Restart,
                      NEW c \in Conns, conn[c].breaker = "open", conn'[c].breaker # "open"
               PROVE  conn'[c].breaker = "half_open" /\ conn[c].cooldown = 0
    OBVIOUS
  <2>1. ~ ConnMove(c)
    BY MovesKeep
  <2>2. PICK d \in Conns : Promote(d)
    BY <2>1, NextMoves
  <2> QED
    BY <2>2, PromoteGrantsTrial
<1> QED
  BY <1>1, TypeInvariance, UseInvariance, BreakerInvariance, PTL DEF Spec, RecoveryByTrial

-----------------------------------------------------------------------------
(* The credential: only the refresh loop makes it valid again.             *)

\* What anybody but the refresh loop does to a credential.
AuthKept(k, k2) == k2.auth = k.auth \/ k2.auth = "expired"

LEMMA AuthEffects ==
  ASSUME NEW k \in ConnectionType, NEW m \in Models, NEW d \in 1 .. MaxCooldown, NEW outcome
  PROVE  /\ \A k2 \in {MarkUsed(k), MarkSuccess(k), Disable(k), ToHalfOpen(k), ClaimTrial(k),
                       ReleaseHalfOpenTrial(k), Elapse(k), [k EXCEPT !.denied = @ \ {m}],
                       MarkResult(k, outcome, m, d)} : AuthKept(k, k2)
         /\ NewConnection.auth = "valid"
<1>1. \A k1 \in ConnectionType : MarkSuccess(k1).auth = k1.auth
  BY DEF MarkSuccess, ConnectionType
<1>2. /\ AuthKept(k, MarkUsed(k)) /\ AuthKept(k, Disable(k)) /\ AuthKept(k, ToHalfOpen(k))
      /\ AuthKept(k, ClaimTrial(k)) /\ AuthKept(k, ReleaseHalfOpenTrial(k))
  BY DEF AuthKept, MarkUsed, Disable, ToHalfOpen, ClaimTrial, ReleaseHalfOpenTrial, ConnectionType
<1>3. AuthKept(k, Elapse(k)) /\ AuthKept(k, [k EXCEPT !.denied = @ \ {m}])
  BY DEF AuthKept, Elapse, ConnectionType
<1>4. \A kind : AuthKept(k, OpenBreaker(k, kind, d, m))
  BY DEF AuthKept, OpenBreaker, ConnectionType
<1>5. AuthKept(k, MarkAuthExpired(k))
  BY DEF AuthKept, MarkAuthExpired, ConnectionType
<1>6. AuthKept(k, MarkSuccess(RecordModelRejection(k, m)))
  <2>1. RecordModelRejection(k, m) \in ConnectionType /\ RecordModelRejection(k, m).auth = k.auth
    BY RecordModelRejectionType DEF RecordModelRejection, ConnectionType
  <2> QED
    BY <1>1, <2>1 DEF AuthKept
<1>7. AuthKept(k, MarkResult(k, outcome, m, d))
  BY <1>1, <1>4, <1>5, <1>6 DEF MarkResult, AuthKept
<1>8. NewConnection.auth = "valid"
  BY DEF NewConnection
<1> QED
  BY <1>1, <1>2, <1>3, <1>7, <1>8 DEF AuthKept

\* What the refresh loop does to it.
LEMMA RefreshEffects ==
  ASSUME NEW k \in ConnectionType
  PROVE  /\ k.auth = "expired" => MarkRefreshing(k).auth = "refreshing"
         /\ k.auth # "expired" => MarkRefreshing(k) = k
         /\ k.auth # "valid" => MarkRefreshSuccess(k).auth = "valid" /\ MarkRefreshFailure(k).auth = "expired"
<1>1. k.auth \in AuthStates
  BY DEF ConnectionType
<1> QED
  BY <1>1
  DEF MarkRefreshing, MarkRefreshSuccess, MarkRefreshFailure, CanTransitionAuth, AuthMoves,
      AuthStates, ConnectionType

\* RefreshOwnsTheCredential as an invariant: the connection of a visit was
\* registered once, so it is not registered again, and only a visit that found
\* its credential expired is entered and refreshes.
CredentialInv ==
  /\ RefreshOwnsTheCredential
  /\ visit.phase # "resting" => visit.conn \in Known
  /\ visit.phase = "entering" => visit.expired
  /\ \A c \in Conns : conn[c].auth = "refreshing" => visit.expired

LEMMA HydratedAuth == \A st : Hydrated(st).auth = "valid"
  BY DEF Hydrated, Disable, NewConnection

LEMMA RestingCredential ==
  ASSUME visit = Resting, \A c \in Conns : conn[c].auth = "valid"
  PROVE  CredentialInv
  BY DEF Resting, CredentialInv, RefreshOwnsTheCredential

\* How everybody but the refresh loop and a restart moves a credential.
CredentialMove(d) == AuthKept(conn[d], conn'[d]) \/ (d \notin Known /\ conn'[d].auth = "valid")

LEMMA MovesKeepCredentials ==
  ASSUME CredentialInv, UNCHANGED visit, Known \subseteq Known', \A d \in Conns : CredentialMove(d)
  PROVE  CredentialInv'
<1>1. visit.phase # "resting" => visit.conn \in Known /\ visit.conn \in Conns /\ visit.conn \in Known'
  BY DEF CredentialInv, Known
<1>2. \A d \in Conns : conn'[d].auth = "refreshing" => conn[d].auth = "refreshing"
  BY DEF CredentialMove, AuthKept
<1>3. \A d \in Known : conn'[d].auth \in {conn[d].auth, "expired"}
  BY DEF CredentialMove, AuthKept, Known
<1> QED
  BY <1>1, <1>2, <1>3 DEF CredentialInv, RefreshOwnsTheCredential

LEMMA StepCredentials ==
  ASSUME TypeInv, NEW r \in Requests, Step(r) \/ Client(r)
  PROVE  \A d \in Conns : CredentialMove(d)
<1> DEFINE Q == req[r]
           Goal == \A d \in Conns : CredentialMove(d)
<1>1. /\ Q \in RequestType /\ conn \in [Conns -> ConnectionType]
      /\ \A c \in Conns : conn[c] \in ConnectionType
      /\ 1 \in 1 .. MaxCooldown /\ \E m : m \in Models
  BY ConnectionAssumption DEF TypeInv, TypeOK, RequestTypeOK, PoolTypeOK
<1>2. UNCHANGED conn => Goal
  BY DEF CredentialMove, AuthKept
<1>3. ASSUME NEW c \in Conns, NEW k, SetConn(c, k), AuthKept(conn[c], k)
      PROVE  Goal
  BY <1>1, <1>3 DEF SetConn, CredentialMove, AuthKept
<1>4. \A c \in Conns :
        /\ AuthKept(conn[c], MarkUsed(conn[c]))
        /\ AuthKept(conn[c], MarkSuccess(conn[c]))
        /\ AuthKept(conn[c], ClaimTrial(conn[c]))
        /\ AuthKept(conn[c], ReleaseHalfOpenTrial(conn[c]))
  BY <1>1, AuthEffects
<1>5. Q.phase \in HoldingPhases => Q.cur \in Conns
  BY <1>1 DEF TypeInv, HoldsAConnection, RequestType
<1>6. ASSUME NEW outcome, Mark(r, outcome), Q.phase \in HoldingPhases
      PROVE  Goal
  <2>1. CASE Q.cur \in Registered
    <3>1. PICK d \in 1 .. MaxCooldown :
                 SetConn(Q.cur, MarkResult(conn[Q.cur], outcome, Q.model, d))
      BY <1>6, <2>1 DEF Mark
    <3>2. AuthKept(conn[Q.cur], MarkResult(conn[Q.cur], outcome, Q.model, d))
      BY <1>1, <1>5, <1>6, AuthEffects DEF RequestType
    <3> QED
      BY <1>3, <1>5, <1>6, <3>1, <3>2
  <2>2. CASE Q.cur \notin Registered
    BY <1>2, <1>6, <2>2 DEF Mark
  <2> QED
    BY <2>1, <2>2
<1> SUFFICES Goal
  OBVIOUS
<1> HIDE DEF Q, Goal
<1>7. ASSUME NEW c \in Conns, Claim(r, c) \/ Unwind(r, c)
      PROVE  Goal
  BY <1>3, <1>4, <1>7 DEF Claim, Unwind
<1>8. CASE Use(r) \/ Drop(r) \/ LookupFails(r)
  <2>1. Q.cur \in Conns
    BY <1>5, <1>8 DEF Use, Drop, LookupFails, In, HoldingPhases, Q
  <2> QED
    BY <1>3, <1>4, <1>8, <2>1 DEF Use, Drop, LookupFails, Q
<1>9. CASE PreflightFails(r) \/ Forward(r)
  BY <1>6, <1>9 DEF PreflightFails, Forward, In, HoldingPhases, Q
<1>10. ASSUME NEW outcome \in AllOutcomes, Fail(r, outcome)
       PROVE  Goal
  BY <1>6, <1>10 DEF Fail, In, HoldingPhases, Q
<1>11. ASSUME NEW c \in Conns, Filter(r, c) \/ ClaimLost(r, c)
       PROVE  Goal
  BY <1>2, <1>11 DEF Filter, ClaimLost, poolVars
<1>12. CASE \/ Snapshot(r) \/ NoneSelected(r) \/ UseRejected(r) \/ LookupFound(r)
            \/ Translated(r) \/ TranslationFails(r) \/ Abandon(r) \/ Send(r)
            \/ Succeed(r) \/ Return(r)
  BY <1>2, <1>12
  DEF Snapshot, NoneSelected, UseRejected, LookupFound, Translated, TranslationFails,
      Abandon, Send, Succeed, Return, poolVars
<1>13. CASE Client(r)
  BY <1>2, <1>13 DEF Client, Arrive, Cancel, poolVars
<1> QED
  BY <1>7, <1>8, <1>9, <1>10, <1>11, <1>12, <1>13 DEF Step

LEMMA OthersCredentials ==
  ASSUME TypeInv, HealthCheck \/ Manage \/ Time
  PROVE  \A d \in Conns : CredentialMove(d)
<1> DEFINE Goal == \A d \in Conns : CredentialMove(d)
<1>1. /\ conn \in [Conns -> ConnectionType]
      /\ \A c \in Conns : conn[c] \in ConnectionType
      /\ 1 \in 1 .. MaxCooldown /\ \E m : m \in Models
      /\ Managed \subseteq Conns
  BY ConnectionAssumption, PoolAssumption DEF TypeInv, TypeOK, PoolTypeOK
<1>2. UNCHANGED conn => Goal
  BY DEF CredentialMove, AuthKept
<1>3. ASSUME NEW c \in Conns, NEW k, SetConn(c, k), AuthKept(conn[c], k)
      PROVE  Goal
  BY <1>1, <1>3 DEF SetConn, CredentialMove, AuthKept
<1>4. ASSUME NEW c \in Managed, InsertRow(c) \/ Suspend(c) \/ Unsuspend(c) \/ DeleteRow(c) \/ Remove(c)
      PROVE  Goal
  BY <1>2, <1>4 DEF InsertRow, Suspend, Unsuspend, DeleteRow, Remove
<1>5. ASSUME NEW c \in Managed, Register(c)
      PROVE  Goal
  <2>1. NewConnection.auth = "valid"
    BY DEF NewConnection
  <2>2. c \notin Known /\ conn' = [conn EXCEPT ![c] = NewConnection]
    BY <1>5 DEF Register, MoveStatus, SetConn, Known
  <2> QED
    BY <1>1, <2>1, <2>2 DEF CredentialMove, AuthKept
<1>6. CASE Tick
  BY <1>1, <1>6, AuthEffects DEF Tick, CredentialMove
<1>7. ASSUME NEW c \in Conns, NEW m \in Models, DenialExpires(c, m)
      PROVE  Goal
  BY <1>1, <1>3, <1>7, AuthEffects DEF DenialExpires
<1>8. ASSUME NEW c \in Conns, Observe(c) \/ Promote(c)
      PROVE  Goal
  BY <1>1, <1>2, <1>3, <1>8, AuthEffects DEF Observe, Promote, poolVars
<1> QED
  BY <1>4, <1>5, <1>6, <1>7, <1>8 DEF Manage, Time, HealthCheck

\* The loop's own steps.
LEMMA RefreshCredentials ==
  ASSUME TypeInv, CredentialInv, RefreshNext
  PROVE  CredentialInv'
<1>1. /\ conn \in [Conns -> ConnectionType]
      /\ \A c \in Conns : conn[c] \in ConnectionType
      /\ visit \in VisitType
      /\ 1 \in 1 .. MaxCooldown /\ \E m : m \in Models
  BY ConnectionAssumption DEF TypeInv, TypeOK, PoolTypeOK, RefreshTypeOK
<1>2. Resting.phase = "resting" /\ Resting.expired = FALSE
  BY DEF Resting
<1>3. ASSUME NEW c \in Conns, Age(c) \/ Revoke(c)
      PROVE  CredentialInv'
  <2>1. UNCHANGED <<conn, status, visit>>
    BY <1>3 DEF Age, Revoke, poolVars
  <2> QED
    BY <2>1, MovesKeepCredentials DEF Known, CredentialMove, AuthKept
<1>4. ASSUME NEW c \in Conns, Visit(c)
      PROVE  CredentialInv'
  <2>1. /\ visit.phase = "resting" /\ UNCHANGED <<conn, status>> /\ c \in Registered
        /\ visit'.conn = c /\ visit'.expired = (conn[c].auth = "expired")
        /\ visit'.phase = IF conn[c].auth = "expired" THEN "entering" ELSE "calling"
    BY <1>4 DEF Visit, poolVars
  <2>2. \A d \in Conns : conn[d].auth # "refreshing"
    BY <2>1 DEF CredentialInv, RefreshOwnsTheCredential
  <2>3. c \in Known'
    BY <2>1 DEF Known, Registered
  <2> QED
    BY <2>1, <2>2, <2>3 DEF CredentialInv, RefreshOwnsTheCredential
<1>5. ASSUME NEW c \in Conns, Enter(c)
      PROVE  CredentialInv'
  <2>1. /\ visit.phase = "entering" /\ visit.conn = c /\ conn[c].auth = "expired" /\ visit.expired
        /\ c \in Known
    BY <1>5 DEF Enter, CredentialInv, RefreshOwnsTheCredential
  <2>2. /\ conn' = [conn EXCEPT ![c] = MarkRefreshing(conn[c])] /\ UNCHANGED status
        /\ visit' = [visit EXCEPT !.phase = "calling"]
    BY <1>5, <2>1 DEF Enter, SetConn
  <2>3. /\ visit'.phase = "calling" /\ visit'.conn = c /\ visit'.expired
    BY <1>1, <2>1, <2>2 DEF VisitType
  <2>4. conn'[c].auth = "refreshing" /\ \A d \in Conns : d # c => conn'[d] = conn[d]
    BY <1>1, <2>1, <2>2, RefreshEffects
  <2>5. \A d \in Conns : conn[d].auth # "refreshing"
    BY <2>1 DEF CredentialInv, RefreshOwnsTheCredential
  <2>6. c \in Known'
    BY <2>1, <2>2 DEF Known
  <2> QED
    BY <2>3, <2>4, <2>5, <2>6 DEF CredentialInv, RefreshOwnsTheCredential
<1>6. ASSUME NEW c \in Conns, CallSucceeds(c) \/ \E revoked \in BOOLEAN : CallFails(c, revoked)
      PROVE  CredentialInv'
  <2>1. /\ visit.phase = "calling" /\ visit.conn = c /\ UNCHANGED <<conn, status>>
    BY <1>6 DEF CallSucceeds, CallFails, poolVars
  <2>2. visit'.phase \in {"failing", "succeeding"} /\ visit'.conn = c /\ visit'.expired = visit.expired
    BY <1>1, <1>6, <2>1 DEF CallSucceeds, CallFails, VisitType
  <2>3. c \in Known'
    BY <2>1 DEF CredentialInv, Known
  <2> QED
    BY <2>1, <2>2, <2>3 DEF CredentialInv, RefreshOwnsTheCredential
<1>7. ASSUME NEW c \in Conns, MarkFailed(c)
      PROVE  CredentialInv'
  <2>1. visit.phase = "failing" /\ visit.conn = c /\ UNCHANGED status /\ c \in Known
    BY <1>7 DEF MarkFailed, CredentialInv
  <2>2. /\ conn' = [conn EXCEPT ![c] = IF visit.expired THEN MarkRefreshFailure(conn[c]) ELSE conn[c]]
        /\ visit' = IF visit.disable THEN [visit EXCEPT !.phase = "disabling"] ELSE Resting
    BY <1>7 DEF MarkFailed, SetConn
  <2>3. \A d \in Conns : d # c => conn'[d].auth # "refreshing"
    BY <1>1, <2>1, <2>2 DEF CredentialInv, RefreshOwnsTheCredential
  <2>4. conn'[c].auth # "refreshing"
    <3>1. CASE visit.expired
      <4>1. conn[c].auth # "valid"
        BY <2>1, <3>1 DEF CredentialInv, RefreshOwnsTheCredential
      <4> QED
        BY <1>1, <2>2, <3>1, <4>1, RefreshEffects
    <3>2. CASE ~ visit.expired
      BY <1>1, <2>2, <3>2 DEF CredentialInv
    <3> QED
      BY <3>1, <3>2
  <2>5. visit'.phase = "resting" \/ (visit'.phase = "disabling" /\ visit'.conn = c)
    BY <1>1, <1>2, <2>1, <2>2 DEF VisitType
  <2>6. c \in Known'
    BY <2>1 DEF Known
  <2> QED
    BY <2>3, <2>4, <2>5, <2>6 DEF CredentialInv, RefreshOwnsTheCredential
<1>8. ASSUME NEW c \in Conns, DisableConn(c)
      PROVE  CredentialInv'
  <2>1. visit.phase = "disabling" /\ conn' = [conn EXCEPT ![c] = Disable(conn[c])] /\ visit' = Resting
    BY <1>8 DEF DisableConn, SetConn
  <2>2. \A d \in Conns : conn[d].auth # "refreshing"
    BY <2>1 DEF CredentialInv, RefreshOwnsTheCredential
  <2>3. AuthKept(conn[c], Disable(conn[c]))
    BY <1>1, AuthEffects
  <2>4. \A d \in Conns : conn'[d].auth # "refreshing"
    BY <1>1, <2>1, <2>2, <2>3 DEF AuthKept
  <2> QED
    BY <1>2, <2>1, <2>4 DEF CredentialInv, RefreshOwnsTheCredential
<1>9. ASSUME NEW c \in Conns, MarkValid(c)
      PROVE  CredentialInv'
  <2>1. visit.phase = "succeeding" /\ visit.conn = c /\ visit' = Resting
    BY <1>9 DEF MarkValid
  <2>2. conn' = [conn EXCEPT ![c] = IF visit.expired THEN MarkRefreshSuccess(conn[c]) ELSE conn[c]]
    BY <1>9 DEF MarkValid, SetConn
  <2>3. \A d \in Conns : d # c => conn'[d].auth # "refreshing"
    BY <1>1, <2>1, <2>2 DEF CredentialInv, RefreshOwnsTheCredential
  <2>4. conn'[c].auth # "refreshing"
    <3>1. CASE visit.expired
      <4>1. conn[c].auth # "valid"
        BY <2>1, <3>1 DEF CredentialInv, RefreshOwnsTheCredential
      <4> QED
        BY <1>1, <2>2, <3>1, <4>1, RefreshEffects
    <3>2. CASE ~ visit.expired
      BY <1>1, <2>2, <3>2 DEF CredentialInv
    <3> QED
      BY <3>1, <3>2
  <2> QED
    BY <1>2, <2>1, <2>3, <2>4 DEF CredentialInv, RefreshOwnsTheCredential
<1> QED
  BY <1>3, <1>4, <1>5, <1>6, <1>7, <1>8, <1>9 DEF RefreshNext, Refresh

LEMMA NextCredential == TypeInv /\ CredentialInv /\ [Next]_vars => CredentialInv'
<1> SUFFICES ASSUME TypeInv, CredentialInv, [Next]_vars PROVE CredentialInv'
  OBVIOUS
<1>1. CASE Serve /\ UNCHANGED <<due, refreshVars>>
  <2>1. PICK r \in Requests : Step(r) \/ Client(r)
    BY <1>1 DEF Serve
  <2>2. Known \subseteq Known'
    BY <2>1, StepHandled DEF Known
  <2> QED
    BY <1>1, <2>1, <2>2, StepCredentials, MovesKeepCredentials DEF refreshVars
<1>2. CASE \/ HealthCheck /\ UNCHANGED <<req, refreshVars>>
           \/ (Manage \/ Time) /\ UNCHANGED <<req, due, refreshVars>>
  BY <1>2, OthersCredentials, OthersKeepLifecycles, MovesKeepCredentials DEF refreshVars
<1>3. CASE RefreshNext /\ UNCHANGED <<req, due>>
  BY <1>3, RefreshCredentials
<1>4. CASE Restart
  <2>1. visit' = Resting /\ \A c \in Conns : conn'[c] = Hydrated(status[c])
    BY <1>4 DEF Restart
  <2> QED
    BY <2>1, HydratedAuth DEF Resting, CredentialInv, RefreshOwnsTheCredential
<1>5. CASE UNCHANGED vars
  BY <1>5, MovesKeepCredentials DEF vars, Known, CredentialMove, AuthKept
<1> QED
  BY <1>1, <1>2, <1>3, <1>4, <1>5 DEF Next

\* No connection is left refreshing and no outcome of a refresh is lost, for
\* any connections and requests, with late 401s, deletions and restarts.
THEOREM RefreshOwnsTheCredentialHolds == Spec => []RefreshOwnsTheCredential
<1>1. Init => CredentialInv
  BY HydratedAuth, RestingCredential DEF Init, PoolInit, RefreshInit
<1>2. CredentialInv => RefreshOwnsTheCredential
  BY DEF CredentialInv
<1> QED
  BY <1>1, <1>2, TypeInvariance, NextCredential, PTL DEF Spec

-----------------------------------------------------------------------------
(***************************************************************************)
(* Part 4: what a step may never do.                                       *)
(***************************************************************************)

\* What is known of one goroutine between selection and return: a connection
\* is in hand only from the claim on, nothing is left to release outside
\* executeRequest, the connection kept while it returns is the one that
\* served, and the release of a registered connection is deferred before the
\* upstream is called.
Executing(q) ==
  /\ q.phase \in {"idle", "selecting", "scanning"} => q.cur = None
  /\ q.phase \in {"attempting", "upstream", "unwinding"} => q.inExec
  /\ q.phase = "unwinding" => q.cur = None \/ q.result = "served"
  /\ ~ q.inExec => q.deferred = {}
  /\ q.phase \in {"idle", "forwarding"} => q.deferred = {}
  /\ q.phase = "upstream" /\ q.cur \in Registered => q.cur \in q.deferred

ExecInv == \A r \in Requests : Executing(req[r])

LEMMA MemberFailsExecuting ==
  ASSUME NEW q \in RequestType, q.cur = None, ~ q.inExec => q.deferred = {}
  PROVE  /\ Executing(MemberFails(q))
         /\ MemberFails(q).deferred = q.deferred /\ MemberFails(q).cur = None
<1>1. CASE q.inExec
  BY <1>1 DEF MemberFails, Executing, RequestType
<1>2. CASE ~ q.inExec
  BY <1>2 DEF MemberFails, Executing, NewRequest, IdleRequest
<1> QED
  BY <1>1, <1>2

LEMMA StepExecuting ==
  ASSUME TypeInv, NEW r \in Requests, Executing(req[r]), Step(r) \/ Client(r)
  PROVE  Executing(req'[r])
<1> DEFINE Q == req[r]
           Goal == \E q : SetReq(r, q) /\ Executing(q)
<1>1. req \in [Requests -> RequestType] /\ Q \in RequestType /\ Executing(Q)
  BY DEF TypeInv, TypeOK, RequestTypeOK
<1>2. SUFFICES Goal
  BY <1>1 DEF SetReq
<1>3. Executing(IdleRequest) /\ \A walk : Executing(NewRequest(walk))
  BY DEF Executing, IdleRequest, NewRequest
<1>4. /\ Deferring(Q) \in RequestType /\ Deferring(Q).cur = Q.cur
      /\ Deferring(Q).inExec = Q.inExec
      /\ Q.cur \in Registered => Q.cur \in Deferring(Q).deferred
  BY <1>1, DeferringType DEF Deferring, RequestType
<1> HIDE DEF Q
<1>5. ASSUME NEW walk \in Walks, Arrive(r, walk)
      PROVE  Goal
  BY <1>3, <1>5 DEF Arrive
<1>6. CASE Cancel(r) \/ Snapshot(r) \/ Use(r) \/ UseRejected(r)
  <2>1. Executing([Q EXCEPT !.gone = TRUE])
    BY <1>1 DEF Executing, RequestType
  <2>2. Snapshot(r) => Executing([Q EXCEPT !.phase = "scanning", !.todo = Registered \ Q.excl])
    BY <1>1 DEF Snapshot, In, Executing, RequestType, Q
  <2>3. Executing([Q EXCEPT !.phase = "lookup"]) /\ Executing([Q EXCEPT !.phase = "dropping"])
    BY <1>1 DEF Executing, RequestType
  <2> QED
    BY <1>6, <2>1, <2>2, <2>3 DEF Cancel, Snapshot, Use, UseRejected, Q
<1>7. CASE LookupFound(r)
  <2>1. Executing([Q EXCEPT !.phase = IF Q.inExec THEN "attempting" ELSE "translating"])
    BY <1>1 DEF Executing, RequestType
  <2> QED
    BY <1>7, <2>1 DEF LookupFound, Q
<1>8. CASE Drop(r) \/ Translated(r) \/ Succeed(r)
  <2>1. Executing([Q EXCEPT !.phase = "selecting", !.cur = None, !.excl = @ \cup {Q.cur}])
    BY <1>1 DEF Executing, RequestType
  <2>2. Executing([Q EXCEPT !.phase = "attempting", !.inExec = TRUE])
    BY <1>1 DEF Executing, RequestType
  <2>3. Succeed(r) => Executing([Q EXCEPT !.phase = "unwinding", !.result = "served"])
    BY <1>1 DEF Succeed, In, Executing, RequestType, Q
  <2> QED
    BY <1>8, <2>1, <2>2, <2>3 DEF Drop, Translated, Succeed, Q
<1>9. ASSUME NEW c \in Conns, Filter(r, c) \/ Claim(r, c) \/ ClaimLost(r, c) \/ Unwind(r, c)
      PROVE  Goal
  <2>1. \A todo, cand : Executing([Q EXCEPT !.todo = todo, !.cand = cand])
    BY <1>1 DEF Executing, RequestType
  <2>2. /\ Executing([Q EXCEPT !.cand = @ \ {c}])
        /\ Executing([Q EXCEPT !.phase = "claimed", !.cur = c, !.cand = {}])
    BY <1>1 DEF Executing, RequestType
  <2>3. Unwind(r, c) => Executing([Q EXCEPT !.deferred = @ \ {c}])
    BY <1>1 DEF Unwind, In, Executing, RequestType, Q
  <2> QED
    BY <1>9, <2>1, <2>2, <2>3 DEF Filter, Claim, ClaimLost, Unwind, Q
<1>10. CASE NoneSelected(r)
  BY <1>1, <1>10, MemberFailsExecuting DEF NoneSelected, In, Executing, Q
<1>11. CASE LookupFails(r) \/ TranslationFails(r)
  <2> DEFINE q == [Q EXCEPT !.cur = None]
  <2>1. q \in RequestType /\ q.cur = None /\ (~ q.inExec => q.deferred = {})
    BY <1>1 DEF RequestType, Executing
  <2>2. Executing(MemberFails(q))
    BY <2>1, MemberFailsExecuting
  <2> QED
    BY <1>11, <2>2 DEF LookupFails, TranslationFails, Q
<1>12. Q.phase = "attempting" => Q.inExec
  BY <1>1 DEF Executing
<1>13. CASE Abandon(r) \/ Send(r)
  <2>1. Q.phase = "attempting"
    BY <1>13 DEF Abandon, Send, In, Q
  <2>2. /\ Executing([Deferring(Q) EXCEPT !.phase = "unwinding", !.cur = None, !.result = "walk"])
        /\ Executing([Deferring(Q) EXCEPT !.phase = "upstream"])
    BY <1>4, <1>12, <2>1 DEF Executing, RequestType
  <2> QED
    BY <1>13, <2>2 DEF Abandon, Send, Q
<1>14. CASE PreflightFails(r)
  <2>1. Q.phase = "attempting"
    BY <1>14 DEF PreflightFails, In, Q
  <2>2. Executing(Fallback(Deferring(Q), "walk"))
    BY <1>4, <1>12, <2>1 DEF Executing, Fallback, RequestType
  <2> QED
    BY <1>14, <2>2 DEF PreflightFails, Q
<1>15. ASSUME NEW outcome \in AllOutcomes, Fail(r, outcome)
       PROVE  Goal
  <2>1. Q.phase = "upstream" /\ Q.inExec
    BY <1>1, <1>15 DEF Fail, In, Executing, Q
  <2>2. Executing(Fallback(Q, ResultOf(outcome)))
    BY <1>1, <2>1 DEF Executing, Fallback, RequestType
  <2>3. Executing([Q EXCEPT !.phase = "unwinding", !.cur = None, !.result = ResultOf(outcome)])
    BY <1>1, <2>1 DEF Executing, RequestType
  <2> QED
    BY <1>15, <2>2, <2>3 DEF Fail, Q
<1>16. CASE Return(r)
  <2>1. Q.phase = "unwinding" /\ Q.deferred = {}
    BY <1>16 DEF Return, In, Q
  <2>2. CASE Q.result = "served"
    <3>1. Executing([Q EXCEPT !.phase = "forwarding"])
      BY <1>1, <2>1 DEF Executing, RequestType
    <3> QED
      BY <1>16, <2>2, <3>1 DEF Return, Q
  <2>3. CASE Q.result = "forward"
    BY <1>3, <1>16, <2>3 DEF Return, Q
  <2>4. CASE Q.result \notin {"served", "forward"}
    <3> DEFINE q == [Q EXCEPT !.inExec = FALSE]
    <3>1. q \in RequestType /\ q.cur = None /\ q.deferred = {}
      BY <1>1, <2>1, <2>4 DEF RequestType, Executing
    <3>2. Executing(MemberFails(q))
      BY <3>1, MemberFailsExecuting
    <3> QED
      BY <1>16, <2>4, <3>2 DEF Return, Q
  <2> QED
    BY <2>2, <2>3, <2>4
<1>17. CASE Forward(r)
  BY <1>3, <1>17 DEF Forward
<1> QED
  BY <1>5, <1>6, <1>7, <1>8, <1>9, <1>10, <1>11, <1>13, <1>14, <1>15, <1>16, <1>17
  DEF Step, Client

LEMMA InitExecuting == Init => ExecInv
<1> SUFFICES ASSUME Init PROVE ExecInv
  OBVIOUS
<1>1. \A r \in Requests : req[r] = IdleRequest
  BY DEF Init, RequestInit
<1>2. /\ IdleRequest.phase = "idle" /\ IdleRequest.cur = None
      /\ ~ IdleRequest.inExec /\ IdleRequest.deferred = {}
  BY DEF IdleRequest, NewRequest
<1>3. Executing(IdleRequest)
  BY <1>2 DEF Executing
<1> QED
  BY <1>1, <1>3 DEF ExecInv

\* What a goroutine has deferred the release of stays registered or goes for
\* good: the management handlers never register a connection it handles.
LEMMA NextExecuting == TypeInv /\ UseInv /\ ExecInv /\ [Next]_vars => ExecInv'
<1> SUFFICES ASSUME TypeInv, UseInv, ExecInv, [Next]_vars PROVE ExecInv'
  OBVIOUS
<1>1. ASSUME NEW r \in Requests, req'[r] = req[r], Registered' \cap Known \subseteq Registered
      PROVE  Executing(req[r])'
  <2>1. req[r].cur = None \/ req[r].cur \in Known
    BY DEF UseInv, HandledIsKnown, Handled
  <2>2. None \notin Registered'
    BY RequestAssumption DEF Registered
  <2> QED
    BY <1>1, <2>1, <2>2 DEF ExecInv, Executing
<1>2. CASE Serve /\ UNCHANGED <<due, refreshVars>>
  <2>1. PICK r \in Requests : Step(r) \/ Client(r)
    BY <1>2 DEF Serve
  <2>2. /\ \A s \in Requests : s # r => req'[s] = req[s]
        /\ Registered' = Registered
    BY <2>1, StepHandled DEF Registered
  <2>3. Executing(req'[r])
    BY <2>1, StepExecuting DEF ExecInv
  <2> QED
    BY <1>1, <2>2, <2>3 DEF ExecInv, Executing
<1>3. UNCHANGED status => Registered' = Registered
  BY DEF Registered
<1>4. CASE HealthCheck /\ UNCHANGED <<req, refreshVars>>
  BY <1>1, <1>3, <1>4 DEF HealthCheck, Observe, Promote, poolVars, ExecInv
<1>5. CASE RefreshNext /\ UNCHANGED <<req, due>>
  <2>1. UNCHANGED status
    BY <1>5
    DEF RefreshNext, Refresh, Age, Revoke, Visit, Enter, CallSucceeds, CallFails, MarkFailed,
        MarkValid, DisableConn, poolVars
  <2> QED
    BY <1>1, <1>3, <1>5, <2>1 DEF ExecInv
<1>6. CASE (Manage \/ Time) /\ UNCHANGED <<req, due, refreshVars>>
  <2>1. CASE Time
    BY <1>1, <1>3, <1>6, <2>1 DEF Time, Tick, DenialExpires, ExecInv
  <2>2. CASE Manage
    <3>1. Registered' \cap Known \subseteq Registered
      <4>1. /\ status \in [Conns -> Statuses] /\ Managed \subseteq Conns
        BY PoolAssumption DEF TypeInv, TypeOK, PoolTypeOK
      <4> QED
        BY <2>2, <4>1
        DEF Manage, InsertRow, Register, Suspend, Unsuspend, DeleteRow, Remove, MoveStatus,
            Registered, Known
    <3> QED
      BY <1>1, <1>6, <3>1 DEF ExecInv
  <2> QED
    BY <1>6, <2>1, <2>2
<1>7. CASE Restart
  BY <1>7 DEF Restart, ExecInv, Executing, IdleRequest, NewRequest
<1>8. CASE UNCHANGED vars
  BY <1>1, <1>3, <1>8 DEF vars, ExecInv
<1> QED
  BY <1>2, <1>4, <1>5, <1>6, <1>7, <1>8 DEF Next

THEOREM ExecInvariance == Spec => []ExecInv
  BY TypeInvariance, UseInvariance, InitExecuting, NextExecuting, PTL DEF Spec

-----------------------------------------------------------------------------
(* A trial slot and who will release it.                                   *)

\* TrialHasAHolder, for one goroutine.
Holds(q, d) == q.cur = d \/ d \in q.deferred

\* What the methods do to the trial slot and, on a connection in use, to the
\* lifecycle: only a claim takes the slot, and an outcome that leaves the
\* connection Active was rejected by the breaker or by the credential.
LEMMA TrialEffects ==
  ASSUME NEW k \in ConnectionType
  PROVE  /\ \A k2 \in {MarkUsed(k), MarkSuccess(k), Disable(k), MarkAuthExpired(k),
                       MarkRefreshing(k), MarkRefreshSuccess(k), MarkRefreshFailure(k),
                       ToHalfOpen(k), ReleaseHalfOpenTrial(k), Elapse(k)} :
              k2.trial => k.trial
         /\ ~ ReleaseHalfOpenTrial(k).trial
         /\ k.lifecycle # "idle" => ~ MarkSuccess(k).trial
         /\ MarkSuccess(k).lifecycle # "active"
         /\ MarkAuthExpired(k).lifecycle = "active" => k.auth # "valid"
<1>1. /\ MarkUsed(k).trial => k.trial
      /\ Disable(k).trial => k.trial
      /\ Elapse(k).trial => k.trial
  BY DEF MarkUsed, Disable, Elapse, ConnectionType
<1>2. /\ MarkAuthExpired(k).trial => k.trial
      /\ MarkRefreshing(k).trial => k.trial
  BY DEF MarkAuthExpired, MarkRefreshing, ConnectionType
<1>3. /\ MarkRefreshSuccess(k).trial => k.trial
      /\ MarkRefreshFailure(k).trial => k.trial
  BY DEF MarkRefreshSuccess, MarkRefreshFailure, ConnectionType
<1>4. /\ ToHalfOpen(k).trial => k.trial
      /\ ~ ReleaseHalfOpenTrial(k).trial
  BY DEF ToHalfOpen, ReleaseHalfOpenTrial, ConnectionType
<1>5. /\ MarkSuccess(k).trial => k.trial
      /\ k.lifecycle # "idle" => ~ MarkSuccess(k).trial
      /\ MarkSuccess(k).lifecycle # "active"
  BY DEF MarkSuccess, CanTransitionLifecycle, LifecycleMoves, LifecycleStates, ConnectionType
<1>6. MarkAuthExpired(k).lifecycle = "active" => k.auth # "valid"
  BY DEF MarkAuthExpired, Returned, CanTransitionAuth, AuthMoves, ConnectionType
<1> QED
  BY <1>1, <1>2, <1>3, <1>4, <1>5, <1>6

LEMMA OutcomeEffects ==
  ASSUME NEW k \in ConnectionType, NEW m \in Models, NEW d \in 1 .. MaxCooldown, NEW outcome
  PROVE  /\ MarkResult(k, outcome, m, d).trial => k.trial
         /\ MarkResult(k, outcome, m, d).lifecycle = "active" =>
              k.breaker = "open" \/ k.auth # "valid"
         /\ outcome = "success" /\ k.lifecycle # "idle" => ~ MarkResult(k, outcome, m, d).trial
<1>1. \A kind : /\ OpenBreaker(k, kind, d, m).trial => k.trial
                /\ OpenBreaker(k, kind, d, m).lifecycle = "active" => k.breaker = "open"
  <2> SUFFICES ASSUME NEW kind
               PROVE  /\ OpenBreaker(k, kind, d, m).trial => k.trial
                      /\ OpenBreaker(k, kind, d, m).lifecycle = "active" => k.breaker = "open"
    OBVIOUS
  <2>1. CASE CanTransitionBreaker(k.breaker, "open")
    BY <2>1 DEF OpenBreaker, Returned, ConnectionType
  <2>2. CASE ~ CanTransitionBreaker(k.breaker, "open")
    <3>1. k.breaker = "open"
      BY <2>2 DEF CanTransitionBreaker, BreakerMoves, BreakerStates, ConnectionType
    <3> QED
      BY <2>2, <3>1 DEF OpenBreaker
  <2> QED
    BY <2>1, <2>2
<1>2. /\ MarkSuccess(RecordModelRejection(k, m)).trial => k.trial
      /\ MarkSuccess(RecordModelRejection(k, m)).lifecycle # "active"
  <2>1. RecordModelRejection(k, m) \in ConnectionType /\ RecordModelRejection(k, m).trial = k.trial
    BY RecordModelRejectionType DEF RecordModelRejection, ConnectionType
  <2> QED
    BY <2>1, TrialEffects
<1>3. /\ MarkSuccess(k).trial => k.trial
      /\ MarkSuccess(k).lifecycle # "active"
      /\ k.lifecycle # "idle" => ~ MarkSuccess(k).trial
      /\ MarkAuthExpired(k).trial => k.trial
      /\ MarkAuthExpired(k).lifecycle = "active" => k.auth # "valid"
  BY TrialEffects
<1> QED
  BY <1>1, <1>2, <1>3 DEF MarkResult

\* A goroutine that takes a trial slot holds it, and it lets go of a
\* registered connection's slot only by releasing it or when the request does
\* not translate.
LEMMA StepHolds ==
  ASSUME TypeInv, UseInv, ExecInv, NEW r \in Requests, Step(r) \/ Client(r), NEW d \in Conns
  PROVE  /\ conn'[d].trial => conn[d].trial \/ Holds(req'[r], d)
         /\ d \in Registered /\ Holds(req[r], d) /\ conn'[d].trial =>
              Holds(req'[r], d) \/ (In(r, "translating") /\ req[r].cur = d)
<1> DEFINE Q == req[r]
           Goal == /\ conn'[d].trial => conn[d].trial \/ Holds(req'[r], d)
                   /\ d \in Registered /\ Holds(Q, d) /\ conn'[d].trial =>
                        Holds(req'[r], d) \/ (Q.phase = "translating" /\ Q.cur = d)
<1>1. /\ req \in [Requests -> RequestType] /\ Q \in RequestType
      /\ conn \in [Conns -> ConnectionType] /\ Executing(Q)
      /\ \A c \in Conns : conn[c] \in ConnectionType
  BY DEF TypeInv, TypeOK, RequestTypeOK, PoolTypeOK, ExecInv
<1>2. Q.phase \in HoldingPhases => Q.cur \in Conns
  BY <1>1 DEF TypeInv, HoldsAConnection, RequestType
<1>3. Q.cur \in Conns /\ Q.phase \in UsingPhases => conn[Q.cur].lifecycle # "idle"
  BY DEF UseInv, UsedIsNotIdle, Uses
<1>4. UNCHANGED poolVars => UNCHANGED conn
  BY DEF poolVars
<1>5. SUFFICES Goal
  BY DEF In
<1>6. ASSUME NEW q, SetReq(r, q), UNCHANGED conn, d \in Registered /\ Holds(Q, d) => Holds(q, d)
      PROVE  Goal
  BY <1>1, <1>6 DEF SetReq
<1>7. ASSUME NEW q, SetReq(r, q), NEW c \in Conns, NEW k, SetConn(c, k), k.trial => conn[c].trial,
             k.trial \/ d # c => (d \in Registered /\ Holds(Q, d) => Holds(q, d))
      PROVE  Goal
  BY <1>1, <1>7 DEF SetReq, SetConn
<1>8. \A q \in RequestType :
        q.cur = None /\ (~ q.inExec => q.deferred = {}) => MemberFails(q).deferred = q.deferred
  BY MemberFailsExecuting
<1>9. /\ Deferring(Q) \in RequestType /\ Deferring(Q).cur = Q.cur
      /\ d \in Registered /\ Holds(Q, d) => d \in Deferring(Q).deferred
  BY <1>1, DeferringType DEF Deferring, Holds, RequestType
<1>10. ASSUME NEW q, SetReq(r, q), NEW outcome, Mark(r, outcome), Q.cur \in Conns,
              d \in Registered /\ Holds(Q, d) => Holds(q, d)
       PROVE  Goal
  <2>1. CASE Q.cur \in Registered
    <3>1. PICK n \in 1 .. MaxCooldown :
                 SetConn(Q.cur, MarkResult(conn[Q.cur], outcome, Q.model, n))
      BY <1>10, <2>1 DEF Mark
    <3>2. MarkResult(conn[Q.cur], outcome, Q.model, n).trial => conn[Q.cur].trial
      BY <1>1, <1>10, OutcomeEffects DEF RequestType
    <3> QED
      BY <1>7, <1>10, <3>1, <3>2
  <2>2. CASE Q.cur \notin Registered
    BY <1>6, <1>10, <2>2 DEF Mark
  <2> QED
    BY <2>1, <2>2
<1> HIDE DEF Q, Goal
<1>11. ASSUME NEW walk \in Walks, Arrive(r, walk)
       PROVE  Goal
  <2>1. ~ Holds(Q, d)
    BY <1>1, <1>11, RequestAssumption DEF Arrive, In, Executing, Holds, Q
  <2> QED
    BY <1>4, <1>6, <1>11, <2>1 DEF Arrive
<1>12. CASE Cancel(r) \/ Snapshot(r) \/ UseRejected(r) \/ LookupFound(r) \/ Translated(r)
            \/ Succeed(r)
  <2>1. \A phase, todo, gone, inExec, result :
          /\ Holds([Q EXCEPT !.gone = gone], d) <=> Holds(Q, d)
          /\ Holds([Q EXCEPT !.phase = phase, !.todo = todo], d) <=> Holds(Q, d)
          /\ Holds([Q EXCEPT !.phase = phase], d) <=> Holds(Q, d)
          /\ Holds([Q EXCEPT !.phase = phase, !.inExec = inExec], d) <=> Holds(Q, d)
          /\ Holds([Q EXCEPT !.phase = phase, !.result = result], d) <=> Holds(Q, d)
    BY <1>1 DEF Holds, RequestType
  <2> QED
    BY <1>4, <1>6, <1>12, <2>1
    DEF Cancel, Snapshot, UseRejected, LookupFound, Translated, Succeed, Q
<1>13. ASSUME NEW c \in Conns, Filter(r, c) \/ ClaimLost(r, c)
       PROVE  Goal
  <2>1. \A todo, cand : /\ Holds([Q EXCEPT !.todo = todo, !.cand = cand], d) <=> Holds(Q, d)
                        /\ Holds([Q EXCEPT !.cand = cand], d) <=> Holds(Q, d)
    BY <1>1 DEF Holds, RequestType
  <2> QED
    BY <1>4, <1>6, <1>13, <2>1 DEF Filter, ClaimLost, Q
<1>14. ASSUME NEW c \in Conns, Claim(r, c)
       PROVE  Goal
  <2> DEFINE q == [Q EXCEPT !.phase = "claimed", !.cur = c, !.cand = {}]
  <2>1. Q.cur = None /\ SetReq(r, q) /\ SetConn(c, ClaimTrial(conn[c]))
    BY <1>1, <1>14 DEF Claim, In, Executing, Q
  <2>2. Holds(q, c) /\ (Holds(Q, d) => Holds(q, d))
    BY <1>1, <2>1, RequestAssumption DEF Holds, RequestType
  <2>3. req'[r] = q /\ \A b \in Conns : b # c => conn'[b] = conn[b]
    BY <1>1, <2>1 DEF SetReq, SetConn
  <2> HIDE DEF q
  <2> QED
    BY <2>2, <2>3 DEF Goal
<1>15. CASE NoneSelected(r)
  <2>1. Q.cur = None /\ (~ Q.inExec => Q.deferred = {})
    BY <1>1, <1>15 DEF NoneSelected, In, Executing, Q
  <2>2. Holds(Q, d) => Holds(MemberFails(Q), d)
    BY <1>1, <1>8, <2>1, RequestAssumption DEF Holds
  <2> QED
    BY <1>4, <1>6, <1>15, <2>2 DEF NoneSelected, Q
<1>16. CASE Use(r)
  <2>1. Q.cur \in Conns
    BY <1>2, <1>16 DEF Use, In, HoldingPhases, Q
  <2>2. Holds([Q EXCEPT !.phase = "lookup"], d) <=> Holds(Q, d)
    BY <1>1 DEF Holds, RequestType
  <2>3. MarkUsed(conn[Q.cur]).trial => conn[Q.cur].trial
    BY <1>1, <2>1, TrialEffects
  <2> QED
    BY <1>7, <1>16, <2>1, <2>2, <2>3 DEF Use, Q
<1>17. CASE Drop(r)
  <2> DEFINE q == [Q EXCEPT !.phase = "selecting", !.cur = None, !.excl = @ \cup {Q.cur}]
  <2>1. Q.cur \in Conns
    BY <1>2, <1>17 DEF Drop, In, HoldingPhases, Q
  <2>2. d # Q.cur /\ Holds(Q, d) => Holds(q, d)
    BY <1>1 DEF Holds, RequestType
  <2>3. ~ ReleaseHalfOpenTrial(conn[Q.cur]).trial
    BY <1>1, <2>1, TrialEffects
  <2>4. SetReq(r, q) /\ SetConn(Q.cur, ReleaseHalfOpenTrial(conn[Q.cur]))
    BY <1>17 DEF Drop, Q
  <2> HIDE DEF q
  <2> QED
    BY <1>7, <2>1, <2>2, <2>3, <2>4
<1>18. ASSUME LookupFails(r) \/ TranslationFails(r)
       PROVE  \E q : SetReq(r, q) /\ (d # Q.cur /\ Holds(Q, d) => Holds(q, d))
  <2> DEFINE q == [Q EXCEPT !.cur = None]
  <2>1. q \in RequestType /\ q.cur = None /\ q.deferred = Q.deferred /\ q.inExec = Q.inExec
    BY <1>1 DEF RequestType
  <2>2. MemberFails(q).deferred = Q.deferred
    BY <1>1, <1>8, <2>1 DEF Executing
  <2>3. SetReq(r, MemberFails(q))
    BY <1>18 DEF LookupFails, TranslationFails, Q
  <2> QED
    BY <2>2, <2>3 DEF Holds
<1>19. CASE LookupFails(r)
  <2>1. Q.cur \in Conns /\ Q.phase \in UsingPhases
    BY <1>2, <1>19 DEF LookupFails, In, HoldingPhases, UsingPhases, Q
  <2>2. ~ MarkSuccess(conn[Q.cur]).trial
    BY <1>1, <1>3, <2>1, TrialEffects
  <2>3. SetConn(Q.cur, MarkSuccess(conn[Q.cur]))
    BY <1>19 DEF LookupFails, Q
  <2> QED
    BY <1>7, <1>18, <1>19, <2>1, <2>2, <2>3
<1>20. CASE TranslationFails(r)
  <2>1. Q.phase = "translating" /\ UNCHANGED conn
    BY <1>4, <1>20 DEF TranslationFails, In, Q
  <2>2. PICK q : SetReq(r, q) /\ (d # Q.cur /\ Holds(Q, d) => Holds(q, d))
    BY <1>18, <1>20
  <2>3. req'[r] = q
    BY <1>1, <2>2 DEF SetReq
  <2> QED
    BY <2>1, <2>2, <2>3 DEF Goal
<1>21. CASE Abandon(r) \/ Send(r)
  <2>1. d \in Registered /\ Holds(Q, d) =>
          /\ Holds([Deferring(Q) EXCEPT !.phase = "unwinding", !.cur = None, !.result = "walk"], d)
          /\ Holds([Deferring(Q) EXCEPT !.phase = "upstream"], d)
    BY <1>9 DEF Holds, RequestType
  <2> QED
    BY <1>4, <1>6, <1>21, <2>1 DEF Abandon, Send, Q
<1>22. CASE PreflightFails(r)
  <2>1. Q.cur \in Conns
    BY <1>2, <1>22 DEF PreflightFails, In, HoldingPhases, Q
  <2>2. d \in Registered /\ Holds(Q, d) => Holds(Fallback(Deferring(Q), "walk"), d)
    BY <1>9 DEF Holds, Fallback, RequestType
  <2> QED
    BY <1>10, <1>22, <2>1, <2>2 DEF PreflightFails, Q
<1>23. ASSUME NEW outcome \in AllOutcomes, Fail(r, outcome)
       PROVE  Goal
  <2>1. Q.cur \in Conns /\ Q.phase = "upstream" /\ Mark(r, outcome)
    BY <1>2, <1>23 DEF Fail, In, HoldingPhases, Q
  <2>2. d \in Registered /\ Holds(Q, d) => d \in Q.deferred
    BY <1>1, <2>1 DEF Executing, Holds
  <2>3. d \in Registered /\ Holds(Q, d) =>
          /\ Holds(Fallback(Q, ResultOf(outcome)), d)
          /\ Holds([Q EXCEPT !.phase = "unwinding", !.cur = None, !.result = ResultOf(outcome)], d)
    BY <1>1, <2>2 DEF Holds, Fallback, RequestType
  <2> QED
    BY <1>10, <1>23, <2>1, <2>3 DEF Fail, Q
<1>24. ASSUME NEW c \in Conns, Unwind(r, c)
       PROVE  Goal
  <2> DEFINE q == [Q EXCEPT !.deferred = @ \ {c}]
  <2>1. d # c /\ Holds(Q, d) => Holds(q, d)
    BY <1>1 DEF Holds, RequestType
  <2>2. ~ ReleaseHalfOpenTrial(conn[c]).trial
    BY <1>1, TrialEffects
  <2>3. SetReq(r, q) /\ SetConn(c, ReleaseHalfOpenTrial(conn[c]))
    BY <1>24 DEF Unwind, Q
  <2> HIDE DEF q
  <2> QED
    BY <1>7, <2>1, <2>2, <2>3
<1>25. CASE Return(r)
  <2>1. Q.phase = "unwinding" /\ Q.deferred = {} /\ UNCHANGED conn
    BY <1>4, <1>25 DEF Return, In, Q
  <2>2. CASE Q.result = "served"
    <3>1. Holds([Q EXCEPT !.phase = "forwarding"], d) <=> Holds(Q, d)
      BY <1>1 DEF Holds, RequestType
    <3> QED
      BY <1>6, <1>25, <2>1, <2>2, <3>1 DEF Return, Q
  <2>3. CASE Q.result # "served"
    <3>1. ~ Holds(Q, d)
      BY <1>1, <2>1, <2>3, RequestAssumption DEF Executing, Holds
    <3>2. \E q : SetReq(r, q)
      BY <1>25 DEF Return
    <3> QED
      BY <1>6, <2>1, <3>1, <3>2
  <2> QED
    BY <2>2, <2>3
<1>26. CASE Forward(r)
  <2>1. /\ Q.cur \in Conns /\ Q.phase \in UsingPhases /\ Q.deferred = {}
        /\ SetReq(r, IdleRequest) /\ Mark(r, "success")
    BY <1>1, <1>2, <1>26 DEF Forward, In, HoldingPhases, UsingPhases, Executing, Q
  <2>2. d # Q.cur => ~ Holds(Q, d)
    BY <2>1 DEF Holds
  <2>3. CASE Q.cur \in Registered
    <3>1. PICK n \in 1 .. MaxCooldown :
                 SetConn(Q.cur, MarkResult(conn[Q.cur], "success", Q.model, n))
      BY <2>1, <2>3 DEF Mark, Q
    <3>2. ~ MarkResult(conn[Q.cur], "success", Q.model, n).trial
      BY <1>1, <1>3, <2>1, OutcomeEffects DEF RequestType
    <3> QED
      BY <1>7, <2>1, <2>2, <3>1, <3>2
  <2>4. CASE Q.cur \notin Registered
    BY <1>6, <2>1, <2>2, <2>4 DEF Mark, Q
  <2> QED
    BY <2>3, <2>4
<1> QED
  BY <1>11, <1>12, <1>13, <1>14, <1>15, <1>16, <1>17, <1>19, <1>20, <1>21, <1>22, <1>23,
     <1>24, <1>25, <1>26 DEF Step, Client

\* Nobody but the goroutines takes a trial slot.
LEMMA OthersTakeNoTrial ==
  ASSUME TypeInv, HealthCheck \/ RefreshNext \/ Manage \/ Time, NEW d \in Conns
  PROVE  conn'[d].trial => conn[d].trial
<1> DEFINE Goal == conn'[d].trial => conn[d].trial
<1>1. /\ conn \in [Conns -> ConnectionType]
      /\ \A c \in Conns : conn[c] \in ConnectionType
      /\ Managed \subseteq Conns
  BY PoolAssumption DEF TypeInv, TypeOK, PoolTypeOK
<1>2. ASSUME NEW c \in Conns, NEW k, SetConn(c, k), k.trial => conn[c].trial
      PROVE  Goal
  BY <1>1, <1>2 DEF SetConn
<1>3. \A c \in Conns :
        /\ MarkRefreshing(conn[c]).trial => conn[c].trial
        /\ MarkRefreshSuccess(conn[c]).trial => conn[c].trial
        /\ MarkRefreshFailure(conn[c]).trial => conn[c].trial
        /\ Disable(conn[c]).trial => conn[c].trial
        /\ ToHalfOpen(conn[c]).trial => conn[c].trial
        /\ Elapse(conn[c]).trial => conn[c].trial
  BY <1>1, TrialEffects
<1>4. ASSUME NEW c \in Managed, InsertRow(c) \/ Suspend(c) \/ Unsuspend(c) \/ DeleteRow(c) \/ Remove(c)
      PROVE  Goal
  BY <1>4 DEF InsertRow, Suspend, Unsuspend, DeleteRow, Remove
<1>5. ASSUME NEW c \in Managed, Register(c)
      PROVE  Goal
  <2>1. ~ NewConnection.trial
    BY DEF NewConnection
  <2> QED
    BY <1>1, <1>2, <1>5, <2>1 DEF Register
<1>6. CASE Tick
  BY <1>3, <1>6 DEF Tick
<1>7. ASSUME NEW c \in Conns, NEW m \in Models, DenialExpires(c, m)
      PROVE  Goal
  <2>1. [conn[c] EXCEPT !.denied = @ \ {m}].trial = conn[c].trial
    BY <1>1 DEF ConnectionType
  <2> QED
    BY <1>2, <1>7, <2>1 DEF DenialExpires
<1>8. ASSUME NEW c \in Conns, Observe(c) \/ Promote(c)
      PROVE  Goal
  BY <1>2, <1>3, <1>8 DEF Observe, Promote, poolVars
<1>9. ASSUME NEW c \in Conns, Age(c) \/ Revoke(c) \/ Visit(c) \/ CallSucceeds(c)
      PROVE  Goal
  BY <1>9 DEF Age, Revoke, Visit, CallSucceeds, poolVars
<1>10. ASSUME NEW c \in Conns, NEW revoked \in BOOLEAN, CallFails(c, revoked)
       PROVE  Goal
  BY <1>10 DEF CallFails, poolVars
<1>11. ASSUME NEW c \in Conns, Enter(c) \/ MarkFailed(c) \/ MarkValid(c) \/ DisableConn(c)
       PROVE  Goal
  BY <1>2, <1>3, <1>11 DEF Enter, MarkFailed, MarkValid, DisableConn
<1> QED
  BY <1>4, <1>5, <1>6, <1>7, <1>8, <1>9, <1>10, <1>11
  DEF Manage, Time, HealthCheck, RefreshNext, Refresh

\* The one return that orphans the trial slot of a registered connection is
\* the early return on a translation error, for any goroutines, combos, faults
\* and whatever the background loops do in between.
THEOREM OrphansOnlyByTranslationHolds == Spec => OrphansOnlyByTranslation
<1> DEFINE Orphaning ==
      \A c \in Registered : TrialHasAHolder(c) /\ ~ TrialHasAHolder(c)' =>
        \E r \in Requests : In(r, "translating") /\ req[r].cur = c
<1>1. TypeInv /\ UseInv /\ ExecInv /\ [Next]_vars => [Orphaning]_vars
  <2> SUFFICES ASSUME TypeInv, UseInv, ExecInv, [Next]_vars, NEW c \in Registered,
                      TrialHasAHolder(c), ~ TrialHasAHolder(c)'
               PROVE  \E r \in Requests : In(r, "translating") /\ req[r].cur = c
    OBVIOUS
  <2>1. c \in Conns /\ conn'[c].trial /\ \A r \in Requests : ~ Holds(req'[r], c)
    BY DEF TrialHasAHolder, Holds, Registered
  <2>2. conn[c].trial => \E r \in Requests : Holds(req[r], c)
    BY DEF TrialHasAHolder, Holds
  <2>3. ASSUME UNCHANGED req, conn'[c].trial => conn[c].trial
        PROVE  FALSE
    BY <2>1, <2>2, <2>3
  <2>4. CASE Serve /\ UNCHANGED <<due, refreshVars>>
    <3>1. PICK r \in Requests : Step(r) \/ Client(r)
      BY <2>4 DEF Serve
    <3>2. \A s \in Requests : s # r => req'[s] = req[s]
      BY <3>1, StepHandled
    <3>3. conn[c].trial /\ Holds(req[r], c)
      BY <2>1, <2>2, <3>1, <3>2, StepHolds
    <3> QED
      BY <2>1, <3>1, <3>3, StepHolds
  <2>5. CASE \/ HealthCheck /\ UNCHANGED <<req, refreshVars>>
             \/ RefreshNext /\ UNCHANGED <<req, due>>
             \/ (Manage \/ Time) /\ UNCHANGED <<req, due, refreshVars>>
    BY <2>1, <2>3, <2>5, OthersTakeNoTrial
  <2>6. CASE Restart
    <3>1. \A st : ~ Hydrated(st).trial
      BY DEF Hydrated, Disable, NewConnection
    <3> QED
      BY <2>1, <2>6, <3>1 DEF Restart
  <2>7. CASE UNCHANGED vars
    BY <2>3, <2>7 DEF vars
  <2> QED
    BY <2>4, <2>5, <2>6, <2>7 DEF Next
<1> QED
  BY <1>1, TypeInvariance, UseInvariance, ExecInvariance, PTL DEF Spec, OrphansOnlyByTranslation

-----------------------------------------------------------------------------
(* Returns that leave a connection Active, and what brings one back that   *)
(* the refresh loop disabled.                                              *)

LEMMA StepStrands ==
  ASSUME TypeInv, UseInv, ExecInv, NEW r \in Requests, Step(r) \/ Client(r), NEW c \in Conns,
         Uses(r, c), ~ Uses(r, c)', conn'[c].lifecycle = "active", c \in Registered
  PROVE  \/ req[r].phase = "translating"
         \/ req[r].phase = "attempting" /\ req'[r].phase = "unwinding"
         \/ conn[c].breaker = "open" \/ conn[c].auth # "valid"
<1> DEFINE Q == req[r]
           Goal == \/ Q.phase = "translating"
                   \/ Q.phase = "attempting" /\ req'[r].phase = "unwinding"
                   \/ conn[c].breaker = "open" \/ conn[c].auth # "valid"
<1>1. /\ req \in [Requests -> RequestType] /\ Q \in RequestType
      /\ conn \in [Conns -> ConnectionType] /\ Executing(Q)
      /\ conn[c] \in ConnectionType
      /\ Q.cur = c /\ Q.phase \in UsingPhases /\ c # None
  BY RequestAssumption DEF TypeInv, TypeOK, RequestTypeOK, PoolTypeOK, ExecInv, Uses
<1>2. SUFFICES Goal
  OBVIOUS
<1>3. ASSUME NEW q, SetReq(r, q), q.cur = c, q.phase \in UsingPhases
      PROVE  FALSE
  BY <1>1, <1>3 DEF SetReq, Uses
<1>4. ASSUME NEW k, SetConn(c, k), k.lifecycle # "active"
      PROVE  FALSE
  BY <1>1, <1>4 DEF SetConn
<1>5. ASSUME NEW outcome, Mark(r, outcome)
      PROVE  Goal
  <2>1. PICK n \in 1 .. MaxCooldown : SetConn(c, MarkResult(conn[c], outcome, Q.model, n))
    BY <1>1, <1>5 DEF Mark
  <2>2. conn'[c] = MarkResult(conn[c], outcome, Q.model, n)
    BY <1>1, <2>1 DEF SetConn
  <2> QED
    BY <1>1, <2>2, OutcomeEffects DEF RequestType
<1> HIDE DEF Q, Goal
<1>6. CASE PreflightFails(r) \/ Forward(r) \/ \E outcome \in AllOutcomes : Fail(r, outcome)
  BY <1>5, <1>6 DEF PreflightFails, Forward, Fail
<1>7. CASE LookupFails(r)
  BY <1>1, <1>4, <1>7, TrialEffects DEF LookupFails, Q
<1>8. CASE TranslationFails(r)
  BY <1>8 DEF TranslationFails, In, Q, Goal
<1>9. CASE Abandon(r)
  <2>1. [Deferring(Q) EXCEPT !.phase = "unwinding", !.cur = None, !.result = "walk"].phase = "unwinding"
    BY <1>1, DeferringType DEF RequestType
  <2> QED
    BY <1>1, <1>9, <2>1 DEF Abandon, In, SetReq, Q, Goal
<1>10. CASE Return(r)
  <2>1. Q.result = "served"
    BY <1>1, <1>10 DEF Return, In, Executing, Q
  <2>2. SetReq(r, [Q EXCEPT !.phase = "forwarding"])
    BY <1>10, <2>1 DEF Return, Q
  <2>3. [Q EXCEPT !.phase = "forwarding"].cur = c /\ [Q EXCEPT !.phase = "forwarding"].phase \in UsingPhases
    BY <1>1 DEF UsingPhases, RequestType
  <2> QED
    BY <1>3, <2>2, <2>3
<1>11. CASE Send(r)
  <2>1. /\ [Deferring(Q) EXCEPT !.phase = "upstream"].cur = c
        /\ [Deferring(Q) EXCEPT !.phase = "upstream"].phase \in UsingPhases
    BY <1>1 DEF Deferring, UsingPhases, RequestType
  <2> QED
    BY <1>3, <1>11, <2>1 DEF Send, Q
<1>12. CASE LookupFound(r) \/ Translated(r) \/ Succeed(r) \/ Cancel(r)
  <2>1. ASSUME NEW q \in {[Q EXCEPT !.phase = IF Q.inExec THEN "attempting" ELSE "translating"],
                          [Q EXCEPT !.phase = "attempting", !.inExec = TRUE],
                          [Q EXCEPT !.phase = "unwinding", !.result = "served"],
                          [Q EXCEPT !.gone = TRUE]}
        PROVE  q.cur = c /\ q.phase \in UsingPhases
    BY <1>1, <2>1 DEF UsingPhases, RequestType
  <2> QED
    BY <1>3, <1>12, <2>1 DEF LookupFound, Translated, Succeed, Cancel, Q
<1>13. ASSUME NEW d \in Conns, Unwind(r, d)
       PROVE  Goal
  <2>1. [Q EXCEPT !.deferred = @ \ {d}].cur = c /\ [Q EXCEPT !.deferred = @ \ {d}].phase \in UsingPhases
    BY <1>1 DEF RequestType
  <2> QED
    BY <1>3, <1>13, <2>1 DEF Unwind, Q
<1>14. ASSUME NEW d \in Conns, Filter(r, d) \/ Claim(r, d) \/ ClaimLost(r, d)
       PROVE  Goal
  BY <1>1, <1>14 DEF Filter, Claim, ClaimLost, In, UsingPhases, Q
<1>15. CASE Snapshot(r) \/ NoneSelected(r) \/ Use(r) \/ UseRejected(r) \/ Drop(r)
            \/ \E walk \in Walks : Arrive(r, walk)
  BY <1>1, <1>15
  DEF Snapshot, NoneSelected, Use, UseRejected, Drop, Arrive, In, UsingPhases, Q
<1> QED
  BY <1>6, <1>7, <1>8, <1>9, <1>10, <1>11, <1>12, <1>13, <1>14, <1>15 DEF Step, Client

\* A connection stays Active with nobody using it only by a return that does
\* not mark it or by a mark its facets reject, for any goroutines, outcomes
\* and interleavings with the refresh loop and the management handlers.
THEOREM StrandsOnlyByUnmarkedReturnsHolds == Spec => StrandsOnlyByUnmarkedReturns
<1> DEFINE Stranding ==
      \A c \in Conns, r \in Requests :
       /\ Uses(r, c) /\ ~ Uses(r, c)'
       /\ conn'[c].lifecycle = "active"
       => \/ c \notin Registered
          \/ req[r].phase = "translating"
          \/ req[r].phase = "attempting" /\ req'[r].phase = "unwinding"
          \/ conn[c].breaker = "open" \/ conn[c].auth # "valid"
<1>1. TypeInv /\ UseInv /\ ExecInv /\ [Next]_vars => [Stranding]_vars
  <2> SUFFICES ASSUME TypeInv, UseInv, ExecInv, [Next]_vars, NEW c \in Conns, NEW r \in Requests,
                      Uses(r, c), ~ Uses(r, c)', conn'[c].lifecycle = "active", c \in Registered
               PROVE  \/ req[r].phase = "translating"
                      \/ req[r].phase = "attempting" /\ req'[r].phase = "unwinding"
                      \/ conn[c].breaker = "open" \/ conn[c].auth # "valid"
    OBVIOUS
  <2>1. req' # req
    BY DEF Uses
  <2>2. CASE Serve /\ UNCHANGED <<due, refreshVars>>
    <3>1. PICK s \in Requests : Step(s) \/ Client(s)
      BY <2>2 DEF Serve
    <3>2. s = r
      BY <3>1, StepHandled DEF Uses
    <3> QED
      BY <3>1, <3>2, StepStrands
  <2>3. CASE Restart
    <3>1. \A st : Hydrated(st).lifecycle # "active"
      BY DEF Hydrated, Disable, NewConnection
    <3> QED
      BY <2>3, <3>1 DEF Restart
  <2> QED
    BY <2>1, <2>2, <2>3 DEF Next, vars
<1> QED
  BY <1>1, TypeInvariance, UseInvariance, ExecInvariance, PTL
  DEF Spec, StrandsOnlyByUnmarkedReturns

\* A connection the refresh loop has disabled comes back only with the request
\* that was using it, or with a restart: not by a late refresh, a trial, a
\* management handler or another goroutine.
THEOREM DisabledUndoneOnlyByItsUserHolds == Spec => DisabledUndoneOnlyByItsUser
<1> DEFINE Undoing ==
      \A c \in Registered :
       conn[c].lifecycle = "disabled" /\ conn'[c].lifecycle # "disabled" =>
         Restart \/ \E r \in Requests : Uses(r, c) /\ ~ Uses(r, c)'
<1>1. TypeInv /\ UseInv /\ [Next]_vars => [Undoing]_vars
  <2> SUFFICES ASSUME TypeInv, UseInv, [Next]_vars, ~ Restart, NEW c \in Registered,
                      conn[c].lifecycle = "disabled", conn'[c].lifecycle # "disabled"
               PROVE  \E r \in Requests : Uses(r, c) /\ ~ Uses(r, c)'
    OBVIOUS
  <2>1. c \in Conns /\ c \in Known
    BY DEF Registered, Known
  <2>2. CASE Serve /\ UNCHANGED <<due, refreshVars>>
    <3>1. PICK r \in Requests : Step(r) \/ Client(r)
      BY <2>2 DEF Serve
    <3>2. PICK d \in Conns : GivesBack(r, d) /\ d = c
      BY <2>1, <3>1, StepUses DEF Borrows, GivesBack, KeepsUses, LifecycleKept
    <3> QED
      BY <2>1, <3>2 DEF GivesBack
  <2>3. CASE \/ HealthCheck /\ UNCHANGED <<req, refreshVars>>
             \/ RefreshNext /\ UNCHANGED <<req, due>>
             \/ (Manage \/ Time) /\ UNCHANGED <<req, due, refreshVars>>
    BY <2>1, <2>3, OthersKeepLifecycles DEF LifecycleKept
  <2>4. CASE UNCHANGED vars
    BY <2>4 DEF vars
  <2> QED
    BY <2>2, <2>3, <2>4 DEF Next
<1> QED
  BY <1>1, TypeInvariance, UseInvariance, PTL DEF Spec, DisabledUndoneOnlyByItsUser

=============================================================================
