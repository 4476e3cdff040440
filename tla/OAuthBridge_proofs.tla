------------------------- MODULE OAuthBridge_proofs -------------------------
(***************************************************************************)
(* Proofs about the OAuth callback bridge, for any providers, state        *)
(* tokens, callbacks and rebinds.                                          *)
(***************************************************************************)
EXTENDS OAuthBridge, TLAPS

-----------------------------------------------------------------------------
(* The inductive invariant. A flow is in one place only: in pendingFlows,  *)
(* in the hands of one callback, or answered; and how far it has come says *)
(* whether there is a row of it.                                           *)

Serving(g, s) == callback[g].phase # "idle" /\ callback[g].state = s

Untouched(s) == completed[s] = Nothing /\ rows[s] = 0 /\ \A g \in Callbacks : ~ Serving(g, s)

NotBegun(s) == s \notin begun => pending[s] = Nothing /\ Untouched(s)
Waiting(s) == pending[s] # Nothing => s \in begun /\ Untouched(s)

ServedByOne(s) ==
  \A g \in Callbacks : Serving(g, s) =>
    /\ \A h \in Callbacks : Serving(h, s) => h = g
    /\ completed[s] = Nothing
    /\ rows[s] = IF callback[g].phase \in {"registering", "succeeding"} THEN 1 ELSE 0
    /\ callback[g].phase = "succeeding" => s \in registered

Answered(s) ==
  completed[s] # Nothing =>
    IF completed[s].status = "complete" THEN rows[s] = 1 /\ s \in registered ELSE rows[s] = 0

FlowInv ==
  \A s \in States : NotBegun(s) /\ Waiting(s) /\ ServedByOne(s) /\ Answered(s) /\ rows[s] <= 1

ListenInv ==
  /\ \A r \in Rebinders : binder[r].phase = "bound" => port[binder[r].provider] = "ours"
  /\ \A p \in Providers : health[p] = "available" => port[p] = "ours"
  /\ FlowsCanBeAnswered

IInv == TypeOK /\ FlowInv /\ ListenInv

-----------------------------------------------------------------------------
(* The listeners.                                                          *)

LEMMA AnyTypes == AnyState \in States /\ AnyProvider \in Providers
BY BridgeAssumption DEF AnyState, AnyProvider

\* The flows do not depend on the listeners.
LEMMA FlowInvOfFlows ==
  ASSUME FlowInv, UNCHANGED <<flows, callback, connections>> PROVE FlowInv'
BY DEF FlowInv, NotBegun, Waiting, ServedByOne, Answered, Untouched, Serving, flows, connections

LEMMA ListeningKeeps == ASSUME IInv, Listening PROVE IInv'
<1>1. UNCHANGED <<flows, callback, connections>>
  BY DEF Listening, ForeignTakes, ForeignLeaves, Rebind, Listen, ReportBind
<1>2. FlowInv'
  BY <1>1, FlowInvOfFlows DEF IInv
<1>3. pending' = pending /\ \A s \in States : pending[s] # Nothing => pending[s].provider \in Providers
  BY <1>1 DEF flows, IInv, TypeOK, Flows
<1>4. ASSUME NEW p \in Providers, ForeignTakes(p) \/ ForeignLeaves(p) PROVE TypeOK' /\ ListenInv'
  BY <1>3, <1>4 DEF IInv, TypeOK, ListenInv, FlowsCanBeAnswered, ForeignTakes, ForeignLeaves,
                    flows, connections
<1>5. ASSUME NEW r \in Rebinders, NEW p \in Providers, Rebind(r, p) PROVE TypeOK' /\ ListenInv'
  BY <1>3, <1>5 DEF IInv, TypeOK, ListenInv, FlowsCanBeAnswered, Rebind, flows, connections
<1>6. ASSUME NEW r \in Rebinders, Listen(r) PROVE TypeOK' /\ ListenInv'
  <2>1. binder[r].provider \in Providers
    BY DEF IInv, TypeOK
  <2>2. TypeOK'
    BY <1>6, <2>1 DEF IInv, TypeOK, Listen, flows, connections
  <2>3. /\ health' = health
        /\ \A p \in Providers : port[p] = "ours" => port'[p] = "ours"
        /\ \A q \in Rebinders :
             /\ binder'[q].provider = binder[q].provider
             /\ binder'[q].phase = "bound" => binder[q].phase = "bound" \/ port'[binder[q].provider] = "ours"
        /\ \A q \in Rebinders : binder[q].provider \in Providers
    BY <1>6, <2>1 DEF IInv, TypeOK, Listen
  <2> QED
    BY <1>3, <2>2, <2>3 DEF IInv, ListenInv, FlowsCanBeAnswered
<1>7. ASSUME NEW r \in Rebinders, ReportBind(r) PROVE TypeOK' /\ ListenInv'
  <2>1. binder[r].provider \in Providers /\ Outcome(r) \in {"available", "port_busy"}
    BY DEF IInv, TypeOK, Outcome
  <2>2. TypeOK'
    BY <1>7, <2>1 DEF IInv, TypeOK, ReportBind, flows, connections
  <2> QED
    BY <1>3, <1>7, <2>1, <2>2 DEF IInv, TypeOK, ListenInv, FlowsCanBeAnswered, ReportBind, Outcome
<1> QED
  BY <1>2, <1>4, <1>5, <1>6, <1>7 DEF Listening, IInv

-----------------------------------------------------------------------------
(* The flows.                                                              *)

\* The listeners do not depend on the flows, as long as none is added.
LEMMA ListenInvOfListeners ==
  ASSUME ListenInv, UNCHANGED listening,
         \A s \in States : pending'[s] # Nothing =>
           pending[s] # Nothing /\ pending'[s].provider = pending[s].provider
  PROVE  ListenInv'
BY DEF ListenInv, FlowsCanBeAnswered, listening

LEMMA StartFlowKeeps ==
  ASSUME IInv, NEW s \in States, NEW p \in Providers, StartFlow(s, p) PROVE IInv'
<1>1. [provider |-> p, expired |-> FALSE] \in Flows
  BY DEF Flows
<1>2. TypeOK'
  BY <1>1 DEF IInv, TypeOK, StartFlow, listening, connections
<1>3. FlowInv'
  BY DEF IInv, TypeOK, StartFlow, FlowInv, NotBegun, Waiting, ServedByOne, Answered,
         Untouched, Serving, connections
<1>4. ListenInv'
  BY DEF IInv, TypeOK, StartFlow, ListenInv, FlowsCanBeAnswered, listening
<1> QED
  BY <1>2, <1>3, <1>4 DEF IInv

LEMMA CallbackKeeps ==
  ASSUME IInv, NEW g \in Callbacks, NEW p \in Providers, NEW s \in States, Callback(g, p, s)
  PROVE  IInv'
<1>1. pending' = [pending EXCEPT ![s] = Nothing] /\ pending'[s] = Nothing
  BY DEF IInv, TypeOK, Callback, Taken
<1>2. TypeOK'
  BY <1>1 DEF IInv, TypeOK, Callback, listening, connections
<1>3. FlowInv'
  BY <1>1 DEF IInv, TypeOK, Callback, FlowInv, NotBegun, Waiting, ServedByOne, Answered,
              Untouched, Serving, connections
<1>4. ListenInv'
  BY <1>1, ListenInvOfListeners DEF IInv, TypeOK, Callback
<1> QED
  BY <1>2, <1>3, <1>4 DEF IInv

\* What a step of a callback leaves alone.
LEMMA ServeLeaves ==
  ASSUME NEW g \in Callbacks, Serve(g) PROVE UNCHANGED <<listening, begun, pending>>
BY DEF Serve, Exchange, Create, CreateRow, CreateFails, RegisterConnection, RecordCompletion, flows

\* A step of a callback on its flow keeps the invariant of all flows if it
\* keeps that of its own.
LEMMA FlowInvOfStep ==
  ASSUME TypeOK, FlowInv, NEW g \in Callbacks, NEW s \in States, Serving(g, s),
         UNCHANGED <<begun, pending>>,
         \A h \in Callbacks : h # g => callback'[h] = callback[h],
         callback'[g].state = s,
         \A t \in States : t # s =>
           /\ completed'[t] = completed[t] /\ rows'[t] = rows[t]
           /\ t \in registered => t \in registered',
         callback'[g].phase # "idle" =>
           /\ completed'[s] = Nothing
           /\ rows'[s] = IF callback'[g].phase \in {"registering", "succeeding"} THEN 1 ELSE 0
           /\ callback'[g].phase = "succeeding" => s \in registered',
         Answered(s)', rows'[s] <= 1
  PROVE  FlowInv'
<1>1. s \in begun /\ pending[s] = Nothing
  BY DEF FlowInv, NotBegun, Waiting, Untouched
<1>2. \A h \in Callbacks : h # g => ~ Serving(h, s) /\ ~ Serving(h, s)'
  BY DEF FlowInv, ServedByOne, Serving
<1>3. NotBegun(s)' /\ Waiting(s)'
  BY <1>1 DEF NotBegun, Waiting
<1>4. ServedByOne(s)'
  BY <1>2 DEF ServedByOne, Serving
<1>5. \A h \in Callbacks, t \in States : t # s =>
        /\ Serving(h, t) <=> Serving(h, t)'
        /\ Serving(h, t) => callback'[h] = callback[h]
  BY DEF Serving
<1>6. \A t \in States : t # s => NotBegun(t)' /\ Waiting(t)'
  BY <1>5 DEF FlowInv, NotBegun, Waiting, Untouched
<1>7. \A t \in States : t # s => ServedByOne(t)'
  <2> SUFFICES ASSUME NEW t \in States, t # s PROVE ServedByOne(t)'
    OBVIOUS
  <2>1. ServedByOne(t)
    BY DEF FlowInv
  <2> QED
    BY <1>5, <2>1 DEF ServedByOne
<1>8. \A t \in States : t # s => Answered(t)' /\ rows'[t] <= 1
  BY DEF FlowInv, Answered
<1> QED
  BY <1>3, <1>4, <1>6, <1>7, <1>8 DEF FlowInv

LEMMA ServeKeeps == ASSUME IInv, NEW g \in Callbacks, Serve(g) PROVE IInv'
<1> DEFINE s == callback[g].state
<1>1. s \in States /\ Serving(g, s)
  BY DEF IInv, TypeOK, Serving,
         Serve, Exchange, Create, CreateRow, CreateFails, RegisterConnection, RecordCompletion, At
<1>2. /\ completed[s] = Nothing
      /\ rows[s] = IF callback[g].phase \in {"registering", "succeeding"} THEN 1 ELSE 0
      /\ callback[g].phase = "succeeding" => s \in registered
  BY <1>1 DEF IInv, FlowInv, ServedByOne
<1>3. /\ callback' \in [Callbacks -> [phase : {"idle", "exchanging", "creating", "registering",
                                               "succeeding", "failing"}, state : States]]
      /\ \A h \in Callbacks : h # g => callback'[h] = callback[h]
      /\ callback'[g].state = s
  BY DEF IInv, TypeOK, To, Serve, Exchange, Create, CreateRow, CreateFails, RegisterConnection, RecordCompletion
<1>4. ListenInv'
  BY ServeLeaves, ListenInvOfListeners DEF IInv
<1>5. CASE Exchange(g)
  <2>1. UNCHANGED <<completed, rows, registered>>
    BY <1>5 DEF Exchange, flows, connections
  <2>2. callback[g].phase = "exchanging" /\ callback'[g].phase \in {"creating", "failing"}
    BY <1>5 DEF Exchange, At, To, IInv, TypeOK
  <2>3. FlowInv'
    BY <1>1, <1>2, <1>3, <2>1, <2>2, ServeLeaves, FlowInvOfStep DEF IInv, Answered
  <2> QED
    BY <1>3, <1>4, <2>1, <2>3, ServeLeaves DEF IInv, TypeOK, listening
<1>6. CASE Create(g)
  <2>1. UNCHANGED <<completed, registered>>
    BY <1>6 DEF Create, flows
  <2>2. /\ callback[g].phase = "creating" /\ rows' \in [States -> 0 .. 2]
        /\ \A t \in States : t # s => rows'[t] = rows[t]
        /\ \/ callback'[g].phase = "registering" /\ rows'[s] = 1
           \/ callback'[g].phase = "failing" /\ rows'[s] = 0
    <3>1. callback[g].phase = "creating" /\ rows[s] = 0
      BY <1>2, <1>6 DEF Create, CreateRow, CreateFails, At
    <3>2. CASE CreateRow(g)
      BY <1>1, <3>1, <3>2 DEF CreateRow, To, IInv, TypeOK
    <3>3. CASE CreateFails(g)
      BY <1>1, <3>1, <3>3 DEF CreateFails, To, IInv, TypeOK
    <3> QED
      BY <1>6, <3>2, <3>3 DEF Create
  <2>3. FlowInv'
    BY <1>1, <1>2, <1>3, <2>1, <2>2, ServeLeaves, FlowInvOfStep DEF IInv, Answered
  <2> QED
    BY <1>3, <1>4, <2>1, <2>2, <2>3, ServeLeaves DEF IInv, TypeOK, listening
<1>7. CASE RegisterConnection(g)
  <2>1. UNCHANGED <<completed, rows>>
    BY <1>7 DEF RegisterConnection, flows
  <2>2. /\ callback[g].phase = "registering" /\ callback'[g].phase = "succeeding"
        /\ registered' = registered \cup {s}
    BY <1>7 DEF RegisterConnection, At, To, IInv, TypeOK
  <2>3. FlowInv'
    BY <1>1, <1>2, <1>3, <2>1, <2>2, ServeLeaves, FlowInvOfStep DEF IInv, Answered
  <2> QED
    BY <1>1, <1>3, <1>4, <2>1, <2>2, <2>3, ServeLeaves DEF IInv, TypeOK, listening
<1>8. CASE RecordCompletion(g)
  <2>1. UNCHANGED <<rows, registered>>
    BY <1>8 DEF RecordCompletion, connections
  <2>2. callback[g].phase \in {"succeeding", "failing"} /\ callback'[g].phase = "idle"
    BY <1>8 DEF RecordCompletion, To, IInv, TypeOK
  <2>3. /\ completed' \in [States -> Answers \cup {Nothing}]
        /\ \A t \in States : t # s => completed'[t] = completed[t]
        /\ completed'[s].status = IF callback[g].phase = "succeeding" THEN "complete" ELSE "error"
    BY <1>1, <1>8 DEF RecordCompletion, At, Answers, IInv, TypeOK
  <2>4. Answered(s)' /\ rows'[s] <= 1
    BY <1>2, <1>3, <2>1, <2>2, <2>3 DEF Answered
  <2>5. FlowInv'
    BY <1>1, <1>3, <2>1, <2>2, <2>3, <2>4, ServeLeaves, FlowInvOfStep DEF IInv
  <2> QED
    BY <1>3, <1>4, <2>1, <2>3, <2>5, ServeLeaves DEF IInv, TypeOK, listening
<1> QED
  BY <1>5, <1>6, <1>7, <1>8 DEF Serve

LEMMA AgeingKeeps ==
  ASSUME IInv, NEW s \in States, Expire(s) \/ Sweep(s) PROVE IInv'
<1>1. UNCHANGED <<listening, begun, callback, connections>>
  BY DEF Expire, Sweep, FlowExpires, AnswerExpires, SweepFlow, SweepAnswer
<1>2. /\ pending' \in [States -> Flows \cup {Nothing}]
      /\ \A t \in States : pending'[t] # Nothing =>
           pending[t] # Nothing /\ pending'[t].provider = pending[t].provider
  <2>1. pending \in [States -> Flows \cup {Nothing}]
    BY DEF IInv, TypeOK
  <2>2. CASE FlowExpires(s)
    <3>1. pending[s] \in Flows /\ pending' = [pending EXCEPT ![s] = [pending[s] EXCEPT !.expired = TRUE]]
      BY <2>1, <2>2 DEF FlowExpires
    <3>2. [pending[s] EXCEPT !.expired = TRUE] \in Flows
      BY <3>1 DEF Flows
    <3>3. [pending[s] EXCEPT !.expired = TRUE].provider = pending[s].provider
      BY <3>1 DEF Flows
    <3> QED
      BY <2>1, <2>2, <3>1, <3>2, <3>3 DEF FlowExpires
  <2>3. CASE SweepFlow(s)
    BY <2>1, <2>3 DEF SweepFlow
  <2>4. CASE UNCHANGED pending
    BY <2>1, <2>4
  <2> QED
    BY <2>2, <2>3, <2>4 DEF Expire, Sweep, AnswerExpires, SweepAnswer
<1>3. /\ completed' \in [States -> Answers \cup {Nothing}]
      /\ \A t \in States : completed'[t] # Nothing =>
           completed[t] # Nothing /\ completed'[t].status = completed[t].status
  <2>1. completed \in [States -> Answers \cup {Nothing}]
    BY DEF IInv, TypeOK
  <2>2. CASE AnswerExpires(s)
    <3>1. /\ completed[s] \in Answers
          /\ completed' = [completed EXCEPT ![s] = [completed[s] EXCEPT !.expired = TRUE]]
      BY <2>1, <2>2 DEF AnswerExpires
    <3>2. [completed[s] EXCEPT !.expired = TRUE] \in Answers
      BY <3>1 DEF Answers
    <3>3. [completed[s] EXCEPT !.expired = TRUE].status = completed[s].status
      BY <3>1 DEF Answers
    <3> QED
      BY <2>1, <2>2, <3>1, <3>2, <3>3 DEF AnswerExpires
  <2>3. CASE SweepAnswer(s)
    BY <2>1, <2>3 DEF SweepAnswer
  <2>4. CASE UNCHANGED completed
    BY <2>1, <2>4
  <2> QED
    BY <2>2, <2>3, <2>4 DEF Expire, Sweep, FlowExpires, SweepFlow
<1>4. TypeOK'
  BY <1>1, <1>2, <1>3 DEF IInv, TypeOK, listening, connections
<1>5. FlowInv'
  BY <1>1, <1>2, <1>3
  DEF IInv, FlowInv, NotBegun, Waiting, ServedByOne, Answered, Untouched, Serving, connections
<1>6. ListenInv'
  BY <1>1, <1>2, ListenInvOfListeners DEF IInv
<1> QED
  BY <1>4, <1>5, <1>6 DEF IInv

LEMMA RestartKeeps == ASSUME IInv, Restart PROVE IInv'
<1>1. TypeOK'
  BY AnyTypes DEF IInv, TypeOK, Restart, Bound, NoBinder, NoCallback
<1>2. FlowInv'
  BY AnyTypes DEF IInv, TypeOK, FlowInv, NotBegun, Waiting, ServedByOne, Answered, Untouched, Serving,
                  Restart, NoCallback
<1>3. ListenInv'
  BY AnyTypes DEF ListenInv, FlowsCanBeAnswered, Restart, Bound, NoBinder
<1> QED
  BY <1>1, <1>2, <1>3 DEF IInv

-----------------------------------------------------------------------------
(* The theorems.                                                           *)

LEMMA InitHolds == Init => IInv
<1> SUFFICES ASSUME Init PROVE IInv
  OBVIOUS
<1>1. TypeOK
  BY AnyTypes DEF Init, TypeOK, Bound, NoBinder, NoCallback
<1>2. FlowInv
  BY AnyTypes DEF Init, FlowInv, NotBegun, Waiting, ServedByOne, Answered, Untouched, Serving, NoCallback
<1>3. ListenInv
  BY AnyTypes DEF Init, ListenInv, FlowsCanBeAnswered, Bound, NoBinder
<1> QED
  BY <1>1, <1>2, <1>3 DEF IInv

LEMMA NextKeeps == IInv /\ [Next]_vars => IInv'
<1> SUFFICES ASSUME IInv, [Next]_vars PROVE IInv'
  OBVIOUS
<1>1. CASE UNCHANGED vars
  <2>1. UNCHANGED <<listening, flows, callback, connections>>
    BY <1>1 DEF vars
  <2>2. FlowInv' /\ ListenInv'
    BY <2>1, FlowInvOfFlows, ListenInvOfListeners DEF IInv, flows
  <2> QED
    BY <2>1, <2>2 DEF IInv, TypeOK, listening, flows, connections
<1> QED
  BY <1>1, ListeningKeeps, StartFlowKeeps, CallbackKeeps, ServeKeeps, AgeingKeeps, RestartKeeps DEF Next

\* The invariant holds in every reachable state.
THEOREM BridgeInvariant == Spec => []IInv
<1> QED
  BY InitHolds, NextKeeps, PTL DEF Spec

\* Everything the bridge keeps is well typed.
THEOREM BridgeTypes == Spec => []TypeOK
<1>1. IInv => TypeOK
  BY DEF IInv
<1> QED
  BY <1>1, BridgeInvariant, PTL

\* handleCallback: a flow becomes at most one connection, whichever callbacks
\* race and whenever the process is restarted.
THEOREM OneConnectionPerFlowHolds == Spec => []OneConnectionPerFlow
<1>1. IInv => OneConnectionPerFlow
  BY DEF IInv, FlowInv, OneConnectionPerFlow
<1> QED
  BY <1>1, BridgeInvariant, PTL

\* Status: "complete" means that the connection is there, "error" that there
\* is none.
THEOREM AnswersAreTrueHolds == Spec => []AnswersAreTrue
<1>1. IInv => AnswersAreTrue
  BY DEF IInv, TypeOK, FlowInv, Answered, AnswersAreTrue, Status, Answers
<1> QED
  BY <1>1, BridgeInvariant, PTL

\* startFlowImpl and TryRebind: the port of a flow in progress is the bridge's.
THEOREM FlowsCanBeAnsweredHolds == Spec => []FlowsCanBeAnswered
<1>1. IInv => FlowsCanBeAnswered
  BY DEF IInv, ListenInv
<1> QED
  BY <1>1, BridgeInvariant, PTL

\* A flow with an answer is nowhere else, so that nothing but time and a
\* restart changes it.
LEMMA AnsweredIsDone ==
  ASSUME IInv, NEW s \in States, completed[s] # Nothing
  PROVE  s \in begun /\ pending[s] = Nothing /\ \A g \in Callbacks : ~ Serving(g, s)
BY DEF IInv, FlowInv, NotBegun, Waiting, ServedByOne, Untouched

LEMMA AnswerStays ==
  ASSUME IInv, [Next]_vars, NEW s \in States, completed[s] # Nothing
  PROVE  /\ pending'[s] = Nothing
         /\ \/ completed'[s] = completed[s]
            \/ completed'[s] = Nothing
            \/ completed'[s] # Nothing /\ completed'[s].expired
<1>1. s \in begun /\ pending[s] = Nothing /\ \A g \in Callbacks : ~ Serving(g, s)
  BY AnsweredIsDone
<1>2. /\ completed \in [States -> Answers \cup {Nothing}]
      /\ pending \in [States -> Flows \cup {Nothing}]
  BY DEF IInv, TypeOK
<1>3. CASE Listening \/ UNCHANGED vars
  BY <1>1, <1>3 DEF Listening, ForeignTakes, ForeignLeaves, Rebind, Listen, ReportBind, flows, vars
<1>4. ASSUME NEW t \in States, NEW p \in Providers, StartFlow(t, p)
      PROVE  pending'[s] = Nothing /\ completed'[s] = completed[s]
  BY <1>1, <1>2, <1>4 DEF StartFlow
<1>5. ASSUME NEW t \in States, NEW p \in Providers, NEW g \in Callbacks, Callback(g, p, t)
      PROVE  pending'[s] = Nothing /\ completed'[s] = completed[s]
  BY <1>1, <1>2, <1>5 DEF Callback, Taken
<1>6. ASSUME NEW g \in Callbacks, Serve(g)
      PROVE  pending'[s] = Nothing /\ completed'[s] = completed[s]
  <2>1. UNCHANGED pending
    BY <1>6, ServeLeaves
  <2>2. callback[g].state # s
    BY <1>1, <1>6
    DEF Serving, Serve, Exchange, Create, CreateRow, CreateFails, RegisterConnection, RecordCompletion, At
  <2>3. completed'[s] = completed[s]
    BY <1>2, <1>6, <2>2
    DEF Serve, Exchange, Create, RegisterConnection, RecordCompletion, flows
  <2> QED
    BY <1>1, <2>1, <2>3
<1>7. ASSUME NEW t \in States, Expire(t) \/ Sweep(t)
      PROVE  /\ pending'[s] = Nothing
             /\ \/ completed'[s] = completed[s]
                \/ completed'[s] = Nothing
                \/ completed'[s] # Nothing /\ completed'[s].expired
  <2>1. CASE FlowExpires(t) \/ SweepFlow(t)
    BY <1>1, <1>2, <2>1 DEF FlowExpires, SweepFlow
  <2>2. CASE AnswerExpires(t)
    <3>1. /\ completed[t] \in Answers /\ UNCHANGED pending
          /\ completed' = [completed EXCEPT ![t] = [completed[t] EXCEPT !.expired = TRUE]]
      BY <1>2, <2>2 DEF AnswerExpires
    <3>2. /\ [completed[t] EXCEPT !.expired = TRUE] \in Answers
          /\ [completed[t] EXCEPT !.expired = TRUE].expired
      BY <3>1 DEF Answers
    <3> QED
      BY <1>1, <1>2, <3>1, <3>2, BridgeAssumption
  <2>3. CASE SweepAnswer(t)
    BY <1>1, <1>2, <2>3 DEF SweepAnswer
  <2> QED
    BY <1>7, <2>1, <2>2, <2>3 DEF Expire, Sweep
<1>8. CASE Restart
  BY <1>8 DEF Restart
<1> QED
  BY <1>3, <1>4, <1>5, <1>6, <1>7, <1>8 DEF Next

\* Status: an answer that has been given is not replaced by another one.
THEOREM AnswersAreFinalHolds == Spec => AnswersAreFinal
<1>1. IInv /\ [Next]_vars =>
        [\A s \in States : Status(s) \in {"complete", "error"} => Status(s)' \in {Status(s), "unknown"}]_vars
  <2> SUFFICES ASSUME IInv, [Next]_vars, NEW s \in States, Status(s) \in {"complete", "error"}
               PROVE  Status(s)' \in {Status(s), "unknown"}
    OBVIOUS
  <2>1. completed[s] # Nothing /\ ~ completed[s].expired /\ Status(s) = completed[s].status
    BY DEF Status
  <2> QED
    BY <2>1, AnswerStays DEF Status
<1> QED
  BY <1>1, BridgeInvariant, PTL DEF Spec, AnswersAreFinal

=============================================================================
