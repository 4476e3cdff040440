----------------------------- MODULE OAuthBridge ----------------------------
(***************************************************************************)
(* The OAuth callback bridge (internal/auth/oauth/bridge.go) with the      *)
(* handlers that drive it (server/routes_auth_oauth.go): one listener per  *)
(* provider, bound at start-up and again on request, the flows in          *)
(* progress, the callback that turns a flow into a connection, the answers *)
(* the dashboard polls for, and the sweeper.                               *)
(*                                                                         *)
(* A flow is its state token, a fresh random value, so that no two flows   *)
(* have the same. What the provider answers to an exchange is any success  *)
(* or failure, the client going away included. Stop runs when the process  *)
(* ends and is part of Restart. Deletion of a connection is ConnectionPool *)
(* and is not repeated here: rows counts the rows that have been made.     *)
(***************************************************************************)
EXTENDS Naturals

CONSTANTS
  Providers,
  States,      \* state tokens
  Callbacks,   \* goroutines of callback requests
  Rebinders,   \* goroutines of rebind requests
  Nothing      \* no entry in a map

\* An entry expires after the time to live, ten minutes.
Flows == [provider : Providers, expired : BOOLEAN]
Answers == [status : {"complete", "error"}, expired : BOOLEAN]

ASSUME BridgeAssumption ==
  Providers # {} /\ States # {} /\ Nothing \notin Flows \cup Answers

VARIABLES
  port,        \* port[p]: who listens on p's port
  health,      \* health[p]: what the bridge reports of it
  binder,      \* binder[r]: the TryRebind that r is in
  begun,       \* flows that have been started
  pending,     \* pendingFlows
  completed,   \* completedFlows
  callback,    \* callback[g]: the callback that g is serving
  rows,        \* rows[s]: connection rows made of flow s
  registered   \* flows whose connection the selector knows

listening == <<port, health, binder>>
flows == <<begun, pending, completed>>
connections == <<rows, registered>>
vars == <<listening, flows, callback, connections>>

TypeOK ==
  /\ port \in [Providers -> {"free", "foreign", "ours"}]
  /\ health \in [Providers -> {"available", "port_busy"}]
  /\ binder \in [Rebinders -> [phase : {"idle", "listening", "bound", "refused"}, provider : Providers]]
  /\ begun \in SUBSET States
  /\ pending \in [States -> Flows \cup {Nothing}]
  /\ completed \in [States -> Answers \cup {Nothing}]
  /\ callback \in [Callbacks -> [phase : {"idle", "exchanging", "creating", "registering",
                                          "succeeding", "failing"}, state : States]]
  /\ rows \in [States -> 0 .. 2]
  /\ registered \in SUBSET States

AnyState == CHOOSE s \in States : TRUE
AnyProvider == CHOOSE p \in Providers : TRUE

\* Start binds what is free; a port that is not is no error.
Bound(p) == IF port[p] = "ours" THEN "available" ELSE "port_busy"

NoBinder == [phase |-> "idle", provider |-> AnyProvider]
NoCallback == [phase |-> "idle", state |-> AnyState]

Init ==
  /\ port \in [Providers -> {"foreign", "ours"}]
  /\ health = [p \in Providers |-> Bound(p)]
  /\ binder = [r \in Rebinders |-> NoBinder]
  /\ begun = {}
  /\ pending = [s \in States |-> Nothing]
  /\ completed = [s \in States |-> Nothing]
  /\ callback = [g \in Callbacks |-> NoCallback]
  /\ rows = [s \in States |-> 0]
  /\ registered = {}

-----------------------------------------------------------------------------
(* The listeners.                                                          *)

\* Another program, a CLI with the same callback port, comes and goes.
ForeignTakes(p) ==
  /\ port[p] = "free"
  /\ port' = [port EXCEPT ![p] = "foreign"]
  /\ UNCHANGED <<health, binder, flows, callback, connections>>

ForeignLeaves(p) ==
  /\ port[p] = "foreign"
  /\ port' = [port EXCEPT ![p] = "free"]
  /\ UNCHANGED <<health, binder, flows, callback, connections>>

\* TryRebind looks at the health and goes on to bind, without the lock.
Rebind(r, p) ==
  /\ binder[r].phase = "idle" /\ health[p] # "available"
  /\ binder' = [binder EXCEPT ![r] = [phase |-> "listening", provider |-> p]]
  /\ UNCHANGED <<port, health, flows, callback, connections>>

Listen(r) ==
  LET p == binder[r].provider IN
  /\ binder[r].phase = "listening"
  /\ IF port[p] = "free"
     THEN /\ port' = [port EXCEPT ![p] = "ours"]
          /\ binder' = [binder EXCEPT ![r].phase = "bound"]
     ELSE /\ binder' = [binder EXCEPT ![r].phase = "refused"]
          /\ UNCHANGED port
  /\ UNCHANGED <<health, flows, callback, connections>>

\* Mutant: the port is reported available whatever Listen came to.
Outcome_Available(r) == "available"

Outcome(r) == IF binder[r].phase = "bound" THEN "available" ELSE "port_busy"

ReportBind(r) ==
  /\ binder[r].phase \in {"bound", "refused"}
  /\ health' = [health EXCEPT ![binder[r].provider] = Outcome(r)]
  /\ binder' = [binder EXCEPT ![r].phase = "idle"]
  /\ UNCHANGED <<port, flows, callback, connections>>

Listening ==
  \/ \E p \in Providers : ForeignTakes(p) \/ ForeignLeaves(p)
  \/ \E r \in Rebinders : (\E p \in Providers : Rebind(r, p)) \/ Listen(r) \/ ReportBind(r)

-----------------------------------------------------------------------------
(* The flows.                                                              *)

\* startFlowImpl: a flow is refused while the provider's port is busy.
StartFlow(s, p) ==
  /\ s \notin begun /\ health[p] = "available"
  /\ begun' = begun \cup {s}
  /\ pending' = [pending EXCEPT ![s] = [provider |-> p, expired |-> FALSE]]
  /\ UNCHANGED <<listening, completed, callback, connections>>

\* Mutant: the flow is looked up and stays.
Taken_Kept(s) == pending

\* LoadAndDelete: whoever asks first takes the flow away, whatever becomes
\* of it.
Taken(s) == [pending EXCEPT ![s] = Nothing]

\* A callback arrives at p's port. A flow that is unknown changes nothing; one
\* that has expired, or was begun for another provider, is lost.
Callback(g, p, s) ==
  /\ callback[g].phase = "idle" /\ port[p] = "ours" /\ pending[s] # Nothing
  /\ pending' = Taken(s)
  /\ callback' = IF pending[s] = [provider |-> p, expired |-> FALSE]
                 THEN [callback EXCEPT ![g] = [phase |-> "exchanging", state |-> s]]
                 ELSE callback
  /\ UNCHANGED <<listening, begun, completed, connections>>

At(g, phase) == callback[g].phase = phase
To(g, phase) == callback' = [callback EXCEPT ![g].phase = phase]

Exchange(g) ==
  /\ At(g, "exchanging")
  /\ To(g, "creating") \/ To(g, "failing")
  /\ UNCHANGED <<listening, flows, connections>>

\* Mutant: a failing insert is logged and reported as a success.
CreateFails_Quietly(g) == At(g, "creating") /\ To(g, "succeeding") /\ UNCHANGED rows

CreateFails(g) == At(g, "creating") /\ To(g, "failing") /\ UNCHANGED rows

CreateRow(g) ==
  /\ At(g, "creating")
  /\ rows' = [rows EXCEPT ![callback[g].state] = @ + 1]
  /\ To(g, "registering")

Create(g) ==
  /\ CreateRow(g) \/ CreateFails(g)
  /\ UNCHANGED <<listening, flows, registered>>

RegisterConnection(g) ==
  /\ At(g, "registering")
  /\ registered' = registered \cup {callback[g].state}
  /\ To(g, "succeeding")
  /\ UNCHANGED <<listening, flows, rows>>

RecordCompletion(g) ==
  /\ callback[g].phase \in {"succeeding", "failing"}
  /\ completed' = [completed EXCEPT ![callback[g].state] =
                     [status |-> IF At(g, "succeeding") THEN "complete" ELSE "error",
                      expired |-> FALSE]]
  /\ To(g, "idle")
  /\ UNCHANGED <<listening, begun, pending, connections>>

Serve(g) == Exchange(g) \/ Create(g) \/ RegisterConnection(g) \/ RecordCompletion(g)

FlowExpires(s) ==
  /\ pending[s] # Nothing /\ ~ pending[s].expired
  /\ pending' = [pending EXCEPT ![s].expired = TRUE]
  /\ UNCHANGED <<listening, begun, completed, callback, connections>>

AnswerExpires(s) ==
  /\ completed[s] # Nothing /\ ~ completed[s].expired
  /\ completed' = [completed EXCEPT ![s].expired = TRUE]
  /\ UNCHANGED <<listening, begun, pending, callback, connections>>

SweepFlow(s) ==
  /\ pending[s] # Nothing /\ pending[s].expired
  /\ pending' = [pending EXCEPT ![s] = Nothing]
  /\ UNCHANGED <<listening, begun, completed, callback, connections>>

\* Mutant: the sweeper keeps the answers.
SweepAnswer_Never(s) == FALSE /\ UNCHANGED vars

SweepAnswer(s) ==
  /\ completed[s] # Nothing /\ completed[s].expired
  /\ completed' = [completed EXCEPT ![s] = Nothing]
  /\ UNCHANGED <<listening, begun, pending, callback, connections>>

Expire(s) == FlowExpires(s) \/ AnswerExpires(s)
Sweep(s) == SweepFlow(s) \/ SweepAnswer(s)

\* The process starts again: flows and answers are gone, rows are hydrated.
Restart ==
  /\ port' \in [Providers -> {"foreign", "ours"}]
  /\ health' = [p \in Providers |-> Bound(p)']
  /\ binder' = [r \in Rebinders |-> NoBinder]
  /\ pending' = [s \in States |-> Nothing]
  /\ completed' = [s \in States |-> Nothing]
  /\ callback' = [g \in Callbacks |-> NoCallback]
  /\ registered' = {s \in States : rows[s] > 0}
  /\ UNCHANGED <<begun, rows>>

Next ==
  \/ Listening
  \/ \E s \in States, p \in Providers : StartFlow(s, p) \/ \E g \in Callbacks : Callback(g, p, s)
  \/ \E g \in Callbacks : Serve(g)
  \/ \E s \in States : Expire(s) \/ Sweep(s)
  \/ Restart

Spec == Init /\ [][Next]_vars

\* The exchange has a timeout, the clock goes on and the sweeper ticks. No
\* browser has to come back, and nothing is assumed of the listeners.
Fairness ==
  /\ \A g \in Callbacks : WF_vars(Serve(g))
  /\ \A s \in States : WF_vars(Expire(s)) /\ WF_vars(Sweep(s))

FairSpec == Spec /\ Fairness

-----------------------------------------------------------------------------
(* Properties.                                                             *)

\* A flow becomes a connection at most once, however often and at whatever
\* port its callback arrives.
OneConnectionPerFlow == \A s \in States : rows[s] <= 1

\* What a poller is told.
Status(s) ==
  IF completed[s] # Nothing /\ ~ completed[s].expired THEN completed[s].status
  ELSE IF pending[s] # Nothing THEN "pending" ELSE "unknown"

\* Who is told that a flow is complete can use its connection: there is a row
\* of it and the selector knows it. Who is told of an error may log in again
\* and will not have two connections.
AnswersAreTrue ==
  \A s \in States :
    /\ Status(s) = "complete" => rows[s] = 1 /\ s \in registered
    /\ Status(s) = "error" => rows[s] = 0

\* A flow in progress can be answered: the bridge has the port that the
\* provider will redirect to, whatever rebinds were tried and refused since.
FlowsCanBeAnswered == \A s \in States : pending[s] # Nothing => port[pending[s].provider] = "ours"

\* An answer is final: it is never replaced by another one, nor withdrawn for
\* a flow that would be pending again.
AnswersAreFinal ==
  [][\A s \in States : Status(s) \in {"complete", "error"} => Status(s)' \in {Status(s), "unknown"}]_vars

\* The maps do not grow: the bridge forgets every flow, whether or not its
\* browser comes back.
EveryFlowIsForgotten ==
  \A s \in States : s \in begun ~> pending[s] = Nothing /\ completed[s] = Nothing

=============================================================================
