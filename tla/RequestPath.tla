---------------------------- MODULE RequestPath -----------------------------
(***************************************************************************)
(* The path of a chat request through internal/server/routes_v1.go and     *)
(* Selector.Select: select a connection, mark it used, call the upstream,  *)
(* classify the outcome on the connection, fall back to another connection *)
(* of the provider, and for a combo walk on to the next model.             *)
(*                                                                         *)
(* A member of Requests is a serving goroutine: it takes requests one      *)
(* after another. Every lock acquisition is a step of its own, since other *)
(* goroutines run between two of them.                                     *)
(***************************************************************************)
EXTENDS ConnectionPool, Sequences

CONSTANTS
  Requests,   \* the goroutines serving requests
  Walks,      \* the requests' models: a combo's in order, one for a direct request
  Outcomes,   \* the upstream outcomes considered, a subset of AllOutcomes
  Faults,     \* the faults considered, a subset of AllFaults
  None        \* no connection

\* What an upstream call can come to, by the branch of markConnectionResult
\* and of the fallback decision it takes.
AllOutcomes ==
  {"success",         \* 2xx
   "client_error",    \* 4xx outside the other classes: forwarded as it is
   "unsupported",     \* 422 unsupported_feature: a combo walks on
   "model_rejected",  \* 403 whose body rejects the model
   "auth_rejected",   \* 401, or any other 403
   "rate_limited",    \* 429
   "server_error",    \* 500, 502, 503, 504
   "other_5xx",       \* a 5xx that is not eligible for fallback
   "transport"}       \* the executor returned an error

AllFaults ==
  {"cancel",       \* the client goes away
   "translate",    \* the request body does not translate
   "no_executor",  \* no executor for the connection's auth type
   "preflight"}    \* the executor refuses the credentials unsent

ASSUME RequestAssumption ==
  /\ Walks \subseteq Seq(Models) \ {<<>>}
  /\ Outcomes \subseteq AllOutcomes
  /\ Faults \subseteq AllFaults
  /\ None \notin Conns

VARIABLE req   \* req[r]: the local state of goroutine r

\* selecting, scanning, claimed, dropping, lookup: inside selectConnection;
\* translating .. unwinding: inside executeRequest; forwarding: forwardResult.
Phases ==
  {"idle", "selecting", "scanning", "claimed", "dropping", "lookup",
   "translating", "attempting", "upstream", "unwinding", "forwarding"}

\* What executeRequest will have come to if it returned now.
Results == {"none", "served", "forward", "walk"}

RequestType ==
  [phase    : Phases,
   model    : Models,
   cur      : Conns \cup {None},  \* the connection claimed or in use
   excl     : SUBSET Conns,       \* excludeIDs
   todo     : SUBSET Conns,       \* snapshot entries Select has yet to filter
   cand     : SUBSET Conns,       \* candidates left to claim
   deferred : SUBSET Conns,       \* deferred ReleaseHalfOpenTrial calls
   inExec   : BOOLEAN,            \* selectConnection was called by executeRequest
   result   : Results,
   rest     : Seq(Models),        \* combo members after this one
   gone     : BOOLEAN]            \* the request context is cancelled

RequestTypeOK == req \in [Requests -> RequestType]

NewRequest(walk) ==
  [phase |-> "selecting", model |-> Head(walk), cur |-> None, excl |-> {}, todo |-> {},
   cand |-> {}, deferred |-> {}, inExec |-> FALSE, result |-> "none",
   rest |-> Tail(walk), gone |-> FALSE]

IdleRequest == [NewRequest(<<CHOOSE m \in Models : TRUE>>) EXCEPT !.phase = "idle"]

RequestInit == req = [r \in Requests |-> IdleRequest]

SetReq(r, q) == req' = [req EXCEPT ![r] = q]
In(r, phase) == req[r].phase = phase

\* Requests that have marked a connection used and not yet its outcome.
UsingPhases == {"lookup", "translating", "attempting", "upstream", "unwinding", "forwarding"}
Uses(r, c) == req[r].cur = c /\ req[r].phase \in UsingPhases

-----------------------------------------------------------------------------
(* The client.                                                             *)

Arrive(r, walk) ==
  /\ In(r, "idle")
  /\ SetReq(r, NewRequest(walk))
  /\ UNCHANGED poolVars

Cancel(r) ==
  /\ "cancel" \in Faults
  /\ ~ In(r, "idle") /\ ~ req[r].gone
  /\ SetReq(r, [req[r] EXCEPT !.gone = TRUE])
  /\ UNCHANGED poolVars

-----------------------------------------------------------------------------
(* Selector.Select: snapshot the registry, filter, claim.                  *)

Snapshot(r) ==
  /\ In(r, "selecting")
  /\ SetReq(r, [req[r] EXCEPT !.phase = "scanning", !.todo = Registered \ req[r].excl])
  /\ UNCHANGED poolVars

Filter(r, c) ==
  /\ In(r, "scanning") /\ c \in req[r].todo
  /\ SetReq(r, [req[r] EXCEPT !.todo = @ \ {c},
                              !.cand = IF Selectable(c, req[r].model) THEN @ \cup {c} ELSE @])
  /\ UNCHANGED poolVars

\* The claim walk takes the candidates in the strategy's order (module
\* Selector); here any order, which covers every strategy.
Claim(r, c) ==
  /\ In(r, "scanning") /\ req[r].todo = {} /\ c \in req[r].cand
  /\ Selectable(c, req[r].model) /\ TrialFree(conn[c])
  /\ SetConn(c, ClaimTrial(conn[c]))
  /\ SetReq(r, [req[r] EXCEPT !.phase = "claimed", !.cur = c, !.cand = {}])
  /\ UNCHANGED status

ClaimLost(r, c) ==
  /\ In(r, "scanning") /\ req[r].todo = {} /\ c \in req[r].cand
  /\ ~ (Selectable(c, req[r].model) /\ TrialFree(conn[c]))
  /\ SetReq(r, [req[r] EXCEPT !.cand = @ \ {c}])
  /\ UNCHANGED poolVars

-----------------------------------------------------------------------------
(* selectConnection, once Select has returned.                             *)

\* A request that cannot go on with this model: inside executeRequest it
\* returns with the result its last attempt left; before it, a combo walks on.
\* The walk looks at the context before each member.
MemberFails(q) ==
  IF q.inExec THEN [q EXCEPT !.phase = "unwinding", !.cur = None]
  ELSE IF q.rest # <<>> /\ ~ q.gone THEN NewRequest(q.rest)
  ELSE IdleRequest

NoneSelected(r) ==
  /\ In(r, "scanning") /\ req[r].todo = {} /\ req[r].cand = {}
  /\ SetReq(r, MemberFails(req[r]))
  /\ UNCHANGED poolVars

Use(r) ==
  LET c == req[r].cur IN
  /\ In(r, "claimed")
  /\ CanBeUsed(conn[c])
  /\ SetConn(c, MarkUsed(conn[c]))
  /\ SetReq(r, [req[r] EXCEPT !.phase = "lookup"])
  /\ UNCHANGED status

\* MarkUsed is rejected: another goroutine was faster, or c was disabled.
UseRejected(r) ==
  /\ In(r, "claimed")
  /\ ~ CanBeUsed(conn[req[r].cur])
  /\ SetReq(r, [req[r] EXCEPT !.phase = "dropping"])
  /\ UNCHANGED poolVars

\* Mutant: the connection is released the way the failed lookup does it.
Drop_MarksSuccess(r) ==
  LET c == req[r].cur IN
  /\ In(r, "dropping")
  /\ SetConn(c, MarkSuccess(conn[c]))
  /\ SetReq(r, [req[r] EXCEPT !.phase = "selecting", !.cur = None, !.excl = @ \cup {c}])
  /\ UNCHANGED status

\* Release the trial slot Select may have claimed, and select again without c.
Drop(r) ==
  LET c == req[r].cur IN
  /\ In(r, "dropping")
  /\ SetConn(c, ReleaseHalfOpenTrial(conn[c]))
  /\ SetReq(r, [req[r] EXCEPT !.phase = "selecting", !.cur = None, !.excl = @ \cup {c}])
  /\ UNCHANGED status

LookupFound(r) ==
  /\ In(r, "lookup")
  /\ Stored(req[r].cur)
  /\ SetReq(r, [req[r] EXCEPT !.phase = IF req[r].inExec THEN "attempting" ELSE "translating"])
  /\ UNCHANGED poolVars

LookupFails(r) ==
  LET c == req[r].cur IN
  /\ In(r, "lookup")
  /\ ~ Stored(c) \/ StoreFails
  /\ SetConn(c, MarkSuccess(conn[c]))
  /\ SetReq(r, MemberFails([req[r] EXCEPT !.cur = None]))
  /\ UNCHANGED status

-----------------------------------------------------------------------------
(* executeRequest.                                                         *)

Translated(r) ==
  /\ In(r, "translating")
  /\ SetReq(r, [req[r] EXCEPT !.phase = "attempting", !.inExec = TRUE])
  /\ UNCHANGED poolVars

\* The early return on a translation error: nothing is deferred yet, and the
\* connection is not marked.
TranslationFails(r) ==
  /\ In(r, "translating") /\ "translate" \in Faults
  /\ SetReq(r, MemberFails([req[r] EXCEPT !.cur = None]))
  /\ UNCHANGED poolVars

\* Mutant: nothing is deferred.
Deferring_Nothing(q) == q

\* The top of the fallback loop defers the release of the trial slot of a
\* connection that is still registered.
Deferring(q) == [q EXCEPT !.deferred = @ \cup ({q.cur} \cap Registered)]

\* Returns from the loop that leave the connection unmarked.
Abandon(r) ==
  /\ In(r, "attempting")
  /\ req[r].gone \/ "no_executor" \in Faults
  /\ SetReq(r, [Deferring(req[r]) EXCEPT !.phase = "unwinding", !.cur = None, !.result = "walk"])
  /\ UNCHANGED poolVars

Send(r) ==
  /\ In(r, "attempting") /\ ~ req[r].gone
  /\ SetReq(r, [Deferring(req[r]) EXCEPT !.phase = "upstream"])
  /\ UNCHANGED poolVars

\* markConnectionResult: the classifier of upstream outcomes.
MarkResult(k, outcome, m, d) ==
  CASE outcome \in {"transport", "server_error", "other_5xx"} -> OpenBreaker(k, "transient", d, m)
    [] outcome = "rate_limited" -> OpenBreaker(k, "rate_limit", d, m)
    [] outcome = "model_rejected" -> MarkSuccess(RecordModelRejection(k, m))
    [] outcome = "auth_rejected" -> MarkAuthExpired(k)
    [] OTHER -> MarkSuccess(k)

\* It looks the connection up by ID: one that is no longer registered is
\* left as it is.
Mark(r, outcome) ==
  LET c == req[r].cur IN
  /\ IF c \in Registered
       THEN \E d \in 1 .. MaxCooldown :
              SetConn(c, MarkResult(conn[c], outcome, req[r].model, d))
       ELSE UNCHANGED conn
  /\ UNCHANGED status

\* Mutant: the connection tried is not excluded.
Fallback_NoExclusion(q, result) ==
  [q EXCEPT !.phase = "selecting", !.cur = None, !.result = result]

\* On to another connection, without the ones tried.
Fallback(q, result) ==
  [q EXCEPT !.phase = "selecting", !.excl = @ \cup {q.cur}, !.cur = None, !.result = result]

PreflightFails(r) ==
  /\ In(r, "attempting") /\ ~ req[r].gone /\ "preflight" \in Faults
  /\ Mark(r, "auth_rejected")
  /\ SetReq(r, Fallback(Deferring(req[r]), "walk"))

FallbackEligible ==
  {"transport", "model_rejected", "auth_rejected", "rate_limited", "server_error"}

\* What the caller does with the last failure: a combo walks on after an
\* executor error, a 5xx and an unsupported feature, and forwards the rest.
ResultOf(outcome) ==
  IF outcome \in {"transport", "server_error", "other_5xx", "unsupported"}
    THEN "walk" ELSE "forward"

Fail(r, outcome) ==
  /\ In(r, "upstream") /\ outcome \in Outcomes \ {"success"}
  /\ Mark(r, outcome)
  /\ SetReq(r, IF outcome \in FallbackEligible
                 THEN Fallback(req[r], ResultOf(outcome))
                 ELSE [req[r] EXCEPT !.phase = "unwinding", !.cur = None,
                                     !.result = ResultOf(outcome)])

\* The connection stays in use until the response has been forwarded.
Succeed(r) ==
  /\ In(r, "upstream") /\ "success" \in Outcomes
  /\ SetReq(r, [req[r] EXCEPT !.phase = "unwinding", !.result = "served"])
  /\ UNCHANGED poolVars

\* Mutant: what is deferred is the return of the connection.
Unwind_MarksSuccess(r, c) ==
  /\ In(r, "unwinding") /\ c \in req[r].deferred
  /\ SetConn(c, MarkSuccess(conn[c]))
  /\ SetReq(r, [req[r] EXCEPT !.deferred = @ \ {c}])
  /\ UNCHANGED status

\* The deferred releases run when executeRequest returns, whatever has
\* happened to the connections since.
Unwind(r, c) ==
  /\ In(r, "unwinding") /\ c \in req[r].deferred
  /\ SetConn(c, ReleaseHalfOpenTrial(conn[c]))
  /\ SetReq(r, [req[r] EXCEPT !.deferred = @ \ {c}])
  /\ UNCHANGED status

Return(r) ==
  /\ In(r, "unwinding") /\ req[r].deferred = {}
  /\ SetReq(r, CASE req[r].result = "served" -> [req[r] EXCEPT !.phase = "forwarding"]
                 [] req[r].result = "forward" -> IdleRequest
                 [] OTHER -> MemberFails([req[r] EXCEPT !.inExec = FALSE]))
  /\ UNCHANGED poolVars

\* forwardResult marks success once the response is written, truncated or not.
Forward(r) ==
  /\ In(r, "forwarding")
  /\ Mark(r, "success")
  /\ SetReq(r, IdleRequest)

-----------------------------------------------------------------------------
\* The steps a goroutine takes by itself; a client decides Arrive and Cancel.
Step(r) ==
  \/ Snapshot(r) \/ NoneSelected(r)
  \/ \E c \in Conns : Filter(r, c) \/ Claim(r, c) \/ ClaimLost(r, c) \/ Unwind(r, c)
  \/ Use(r) \/ UseRejected(r) \/ Drop(r)
  \/ LookupFound(r) \/ LookupFails(r)
  \/ Translated(r) \/ TranslationFails(r)
  \/ Abandon(r) \/ Send(r) \/ PreflightFails(r)
  \/ Succeed(r) \/ \E outcome \in AllOutcomes : Fail(r, outcome)
  \/ Return(r) \/ Forward(r)

Client(r) ==
  \/ \E walk \in Walks : Arrive(r, walk)
  \/ Cancel(r)

Serve == \E r \in Requests : Step(r) \/ Client(r)

=============================================================================
