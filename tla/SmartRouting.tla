---------------------------- MODULE SmartRouting ----------------------------
(***************************************************************************)
(* Which model serves a request: resolveModel with the smart router        *)
(* (internal/routing), the walk of handleComboRequest, and the two stores  *)
(* the router learns in: the SessionCache, which keeps a conversation at   *)
(* its model, and the ConversationStore, whose turns become the bridge of  *)
(* a model that takes over.                                                *)
(*                                                                         *)
(* Both stores are read under a lock that is released before what was read *)
(* is judged and, when it is too old, removed: the removal is a step of    *)
(* its own.  The bridge's countdown (BridgeActive, BridgeTurnsLeft) is     *)
(* read by nothing but itself and left out.                                *)
(***************************************************************************)
EXTENDS Integers, SequencesExt, FiniteSets

CONSTANTS
  Conversations, \* session keys: hashes of first user messages
  Nobody,        \* the key of a request whose user says nothing
  Requests,      \* goroutines serving requests
  CatalogOrder,  \* the models as ListProvider lists them
  About,         \* what the catalog and the connections say of each model
  Asks,          \* the requests of clients; allowed is the key's allowed_models
  MaxSessions, MaxSize, TTL,
  MaxTime, MaxServed \* bounds

Models == ToSet(CatalogOrder)

ASSUME RoutingAssumption ==
  /\ MaxSessions \in Nat \ {0} /\ MaxSize \in Nat /\ TTL \in Nat
  /\ Nobody \notin Conversations /\ "none" \notin Models

\* A model has one row in the catalog, and its tier and prices are numbers.
ASSUME CatalogAssumption ==
  /\ CatalogOrder \in Seq(Models)
  /\ \A i, j \in DOMAIN CatalogOrder : CatalogOrder[i] = CatalogOrder[j] => i = j
  /\ \A m \in Models :
       /\ About[m].tier \in Int /\ About[m].price \in Int /\ About[m].cachedPrice \in Int
       /\ About[m].subscription \in BOOLEAN /\ About[m].active \in BOOLEAN
  /\ \A a \in Asks : a.allowed \in Seq(ToSet(a.allowed))

VARIABLES
  now, served,
  sessions,      \* SessionCache.items
  sessionOrder,  \* SessionCache.order
  histories,     \* ConversationStore.convos
  historyOrder,  \* ConversationStore.order
  size,          \* ConversationStore.curSize
  route          \* what each request knows

sessionStore == <<sessions, sessionOrder>>
historyStore == <<histories, historyOrder, size>>
vars == <<now, served, sessionStore, historyStore, route>>

\* home is the model its session was at when the chain was made ("none":
\* there was no session, or it changed meanwhile), passed what it walked past.
NoRoute == [step |-> "idle", then |-> "idle", key |-> Nobody, ask |-> CHOOSE a \in Asks : TRUE,
            chain |-> <<>>, home |-> "none", passed |-> {}, lookedAt |-> 0, bridged |-> FALSE]

Init ==
  /\ now = 0 /\ served = 0
  /\ sessions = <<>> /\ sessionOrder = <<>>
  /\ histories = <<>> /\ historyOrder = <<>> /\ size = 0
  /\ route = [r \in Requests |-> NoRoute]

-----------------------------------------------------------------------------
(* Ranking.                                                                *)

\* An order is a set of pairs, the first before the second.  Places in an order
\* that tells any two of them apart:
InOrder(places, before) ==
  [n \in 1 .. Cardinality(places) |->
     CHOOSE p \in places : Cardinality({q \in places : <<q, p>> \in before}) = n - 1]

\* Models in an order, those it does not tell apart in the order they came in
\* (sort.SliceStable).
Sorted(models, less) ==
  LET Less(i, j) == <<models[i], models[j]>> \in less
      before == {p \in (DOMAIN models) \X (DOMAIN models) :
                   Less(p[1], p[2]) \/ (~Less(p[2], p[1]) /\ p[1] < p[2])}
      places == InOrder(DOMAIN models, before)
  IN [n \in DOMAIN places |-> models[places[n]]]

\* The models of a set, in the order they came in.
Kept(models, set) ==
  LET before == {p \in (DOMAIN models) \X (DOMAIN models) : p[1] < p[2]}
      places == InOrder({i \in DOMAIN models : models[i] \in set}, before)
  IN [n \in DOMAIN places |-> models[places[n]]]

\* For every request but those of a cheap route the cache is not asked for.
Pairs == Models \X Models
ByTier == {p \in Pairs : About[p[1]].tier < About[p[2]].tier}
Within(order) ==
  order \cup {p \in Pairs : About[p[1]].tier = About[p[2]].tier /\ About[p[1]].price < About[p[2]].price}
Cheaper ==
  {p \in Pairs :
     IF About[p[1]].subscription # About[p[2]].subscription THEN About[p[1]].subscription
     ELSE About[p[1]].cachedPrice < About[p[2]].cachedPrice}

SortByStrategy(strategy, models) ==
  LET ByReverseTier == {p \in Pairs : <<p[2], p[1]>> \in ByTier}
  IN CASE strategy = "fast" -> Sorted(models, Within(ByReverseTier))
       [] strategy = "cheap" -> Sorted(models, Cheaper)
       [] strategy = "balanced" -> Sorted(models, Within(ByTier))   \* and "best"
       [] strategy = "user-order" -> models
       [] OTHER -> Sorted(models, ByTier)

\* A pattern names a model, or every model of a provider, or is "*".
Everything == [provider |-> "*", model |-> "*"]
Exact(pattern, m) == pattern.model = m
Wildcard(pattern, m) == pattern.model = "*" /\ pattern.provider = About[m].provider
Matches(m, patterns) ==
  patterns = <<>> \/ \E i \in DOMAIN patterns : patterns[i] = Everything \/ Exact(patterns[i], m) \/ Wildcard(patterns[i], m)

\* The last of the exact patterns, or else of the wildcards; 0 for none.
Position(m, patterns) ==
  LET exact == {i \in DOMAIN patterns : Exact(patterns[i], m)}
      wild == {i \in DOMAIN patterns : Wildcard(patterns[i], m)}
      Latest(places) == CHOOSE i \in places : \A j \in places : j <= i
  IN IF exact # {} THEN Latest(exact) ELSE IF wild # {} THEN Latest(wild) ELSE 0
SortByAllowedModelsOrder(models, patterns) ==
  LET place == [m \in Models |-> Position(m, patterns)]
      earlier == {p \in Pairs : place[p[1]] # 0 /\ (place[p[2]] = 0 \/ place[p[1]] < place[p[2]])}
  IN Sorted(models, earlier)

\* With none able all are tried.
FilterByConstraints(models, needs) ==
  LET able == Kept(models, {m \in Models : needs \subseteq About[m].able})
  IN IF able = <<>> THEN models ELSE able

\* buildSmartCandidates: the catalog's models of providers with a connection
\* that is not disabled.
Active == {m \in Models : About[m].active}
Candidates(strategy, allowed) ==
  LET active == Kept(CatalogOrder, Active)
  IN IF strategy = "user-order" /\ allowed # <<>> THEN SortByAllowedModelsOrder(active, allowed) ELSE active

\* Mutant: the family before the model itself.
Kinds_FamilyFirst == <<"family", "exact", "vendor", "other">>

\* What a candidate is to a session's entry.
Kinds == <<"exact", "family", "vendor", "other">>
SameFamily(m, n) == About[m].family # "" /\ About[m].family = About[n].family
KindOf(m, entry) ==
  IF About[m].provider # entry.provider THEN "other"
  ELSE IF m = entry.model THEN "exact"
  ELSE IF SameFamily(m, entry.model) THEN "family"
  ELSE "vendor"

\* The session's model, then its family, its vendor and the others: four lists,
\* put one behind the other.
BuildAffinityList(models, kind) ==
  LET list == [m \in ToSet(models) |-> CHOOSE i \in DOMAIN Kinds : Kinds[i] = kind[m]]
  IN Sorted(models, {p \in ToSet(models) \X ToSet(models) : list[p[1]] < list[p[2]]})

-----------------------------------------------------------------------------
(* The stores.                                                             *)

Expired(at) == now - at > TTL
With(f, k, v) == [j \in DOMAIN f \cup {k} |-> IF j = k THEN v ELSE f[j]]

\* The first place of the key goes (removeLRU); the key comes last (touchLRU).
Touch(order, k) == Append(RemoveFirst(order, k), k)

\* Mutant: a session that is used again keeps its place.
Touched_Not(k) == sessionOrder
Touched(k) == Touch(sessionOrder, k)

\* Mutant: the latest goes.
KeptOrder_Oldest(n) == SubSeq(sessionOrder, 1, Len(sessionOrder) - n)
\* evictOldest, n times
KeptOrder(n) == SubSeq(sessionOrder, n + 1, Len(sessionOrder))

\* SessionCache.Set
Set(k, m) ==
  LET held == Cardinality(DOMAIN sessions)
      kept == KeptOrder(IF held >= MaxSessions THEN held - MaxSessions + 1 ELSE 0)
      Used(turns) == [provider |-> About[m].provider, model |-> m, usedAt |-> now, turns |-> turns]
  IN IF k \in DOMAIN sessions
     THEN /\ sessions' = [sessions EXCEPT ![k] = Used(@.turns + 1)]
          /\ sessionOrder' = Touched(k)
     ELSE /\ sessions' = With(Restrict(sessions, ToSet(kept)), k, Used(1))
          /\ sessionOrder' = Append(kept, k)

\* A turn takes one unit of the store.
SizeOf(keys) == SumFunctionOnSet([k \in keys |-> histories[k].turns], keys)
\* The conversations that go with the n first places of the order.
Evicted(n) == ToSet(SubSeq(historyOrder, 1, n)) \cap DOMAIN histories

\* ConversationStore.AddTurn: a new conversation takes the place of the oldest
\* ones; one that is there grows, whatever the size.
AddTurn(k) ==
  IF k \in DOMAIN histories
  THEN /\ histories' = [histories EXCEPT ![k] = [turns |-> @.turns + 1, updatedAt |-> now]]
       /\ historyOrder' = Touch(historyOrder, k)
       /\ size' = size + 1
  ELSE LET Fits(n) == size - SizeOf(Evicted(n)) + 1 <= MaxSize \/ n = Len(historyOrder)
           n == CHOOSE n \in 0 .. Len(historyOrder) : Fits(n) /\ \A i \in 0 .. n - 1 : ~Fits(i)
       IN /\ histories' = With(Restrict(histories, DOMAIN histories \ Evicted(n)), k, [turns |-> 1, updatedAt |-> now])
          /\ historyOrder' = Touch(Append(SubSeq(historyOrder, n + 1, Len(historyOrder)), k), k)
          /\ size' = size - SizeOf(Evicted(n)) + 1

-----------------------------------------------------------------------------
(* A request.                                                              *)

At(r, step) == route[r].step = step
Changed(rec, change) ==
  [f \in DOMAIN change \cup DOMAIN rec |-> IF f \in DOMAIN change THEN change[f] ELSE rec[f]]
Move(r, change) == route' = [route EXCEPT ![r] = Changed(@, change)]
To(r, step) == Move(r, [step |-> step])
Done(r) == route' = [route EXCEPT ![r] = NoRoute]
Has(r) == route[r].key \in DOMAIN sessions
Session(r) == sessions[route[r].key]

\* SessionCache.Get, then the step at hand or the removal of what is too old.
StaleSession(r, then) ==
  /\ Has(r) /\ Expired(Session(r).usedAt)
  /\ Move(r, [step |-> "forgetSession", then |-> then, lookedAt |-> now])
FreshSession(r) == Has(r) /\ ~Expired(Session(r).usedAt)

ForgetSession(r) ==
  /\ At(r, "forgetSession")
  /\ sessions' = Restrict(sessions, DOMAIN sessions \ {route[r].key})
  /\ sessionOrder' = RemoveFirst(sessionOrder, route[r].key)
  /\ To(r, route[r].then)
  /\ UNCHANGED <<now, served, historyStore>>

\* auto, with or without the name of a strategy, is routed; a combo or one model is tried as it stands.  A member that
\* is itself auto:* is skipped, as one without a connection.
IsAuto(ask) == ask.strategy # ""
Arrive(r) ==
  /\ At(r, "idle") /\ served < MaxServed
  /\ \E k \in Conversations \cup {Nobody}, a \in Asks :
       route' = [route EXCEPT ![r] =
         [NoRoute EXCEPT !.step = IF IsAuto(a) THEN "look" ELSE "permit", !.key = k, !.ask = a, !.chain = a.chain]]
  /\ served' = served + 1
  /\ UNCHANGED <<now, sessionStore, historyStore>>

\* What a reader may find in an entry that others write while it reads it,
\* field by field, without the lock.
Found(k) ==
  LET writers == {r \in Requests : At(r, "set") /\ route[r].key = k}
      models == {sessions[k].model} \cup {Head(route[r].chain) : r \in writers}
  IN [provider : {About[m].provider : m \in models}, model : models]

\* RouteWithConstraints
Able(ask) == FilterByConstraints(Candidates(ask.strategy, ask.allowed), ask.needs)
Ranked(r) == Move(r, [step |-> "note", chain |-> SortByStrategy(route[r].ask.strategy, Able(route[r].ask))])
Look(r) ==
  LET able == Able(route[r].ask)
  IN /\ At(r, "look")
     /\ \/ able = <<>> /\ Done(r)   \* no combo, no alias and no provider is named auto
        \/ able # <<>> /\ StaleSession(r, "rank")
        \/ able # <<>> /\ ~Has(r) /\ Ranked(r)
        \/ /\ able # <<>> /\ FreshSession(r)
           /\ \E kind \in [ToSet(able) -> ToSet(Kinds)] :
                /\ \A m \in ToSet(able) : \E entry \in Found(route[r].key) : kind[m] = KindOf(m, entry)
                /\ Move(r, [step |-> "note", chain |-> BuildAffinityList(able, kind),
                            home |-> IF \E entry \in Found(route[r].key) : Found(route[r].key) = {entry} THEN Session(r).model ELSE "none"])
  /\ UNCHANGED <<now, served, sessionStore, historyStore>>

Rank(r) ==
  /\ At(r, "rank")
  /\ Ranked(r)
  /\ UNCHANGED <<now, served, sessionStore, historyStore>>

\* The session of a routed request is read again for the telemetry; then the
\* key's allowed_models apply to what routing chose.
Permit(r) ==
  LET permitted == {m \in ToSet(route[r].chain) : Matches(m, route[r].ask.allowed)}
      chain == Kept(route[r].chain, permitted)
  IN /\ \/ At(r, "note") /\ StaleSession(r, "permit")
        \/ /\ At(r, "permit") \/ (At(r, "note") /\ (Has(r) => FreshSession(r)))
           /\ IF chain = <<>> THEN Done(r) ELSE Move(r, [step |-> "try", chain |-> chain])
     /\ UNCHANGED <<now, served, sessionStore, historyStore>>

\* No connection for the model, or an answer that another may better.
Walked(r) ==
  LET rest == Tail(route[r].chain)
  IN IF rest = <<>> THEN Done(r)
     ELSE Move(r, [step |-> "try", chain |-> rest, passed |-> route[r].passed \cup {Head(route[r].chain)}])

\* The bridge: the session is read once more, for each model that is tried.
Switched(r) == FreshSession(r) /\ Session(r).model # Head(route[r].chain) /\ Session(r).turns > 1
Try(r) ==
  /\ At(r, "try")
  /\ \/ Walked(r)
     \/ Has(r) /\ ~FreshSession(r) /\ StaleSession(r, "answer")
     \/ (Has(r) => FreshSession(r)) /\ To(r, IF Switched(r) THEN "bridge" ELSE "answer")
  /\ UNCHANGED <<now, served, sessionStore, historyStore>>

\* GetHistory; what is too old goes in a step of its own.
Bridge(r) ==
  LET k == route[r].key
      there == k \in DOMAIN histories
  IN /\ At(r, "bridge")
     /\ IF there /\ Expired(histories[k].updatedAt)
        THEN Move(r, [step |-> "forgetHistory", lookedAt |-> now])
        ELSE Move(r, [step |-> "answer", bridged |-> there /\ histories[k].turns >= 2])
     /\ UNCHANGED <<now, served, sessionStore, historyStore>>

\* removeKey: the key keeps its place in the order.
ForgetHistory(r) ==
  LET k == route[r].key
  IN /\ At(r, "forgetHistory")
     /\ histories' = Restrict(histories, DOMAIN histories \ {k})
     /\ size' = size - SizeOf({k} \cap DOMAIN histories)
     /\ To(r, "answer")
     /\ UNCHANGED <<now, served, sessionStore, historyOrder>>

\* The upstream's answer: another model is tried after a 5xx, a failure of the
\* network or an unsupported feature; a 4xx goes to the client; a success is
\* learnt from, if the user said something.
Answer(r) ==
  /\ At(r, "answer")
  /\ \/ Walked(r)
     \/ Done(r)
     \/ route[r].key # Nobody /\ To(r, "set")
  /\ UNCHANGED <<now, served, sessionStore, historyStore>>

\* postRequestHook: three stores in a row, under a lock each.
LearnModel(r) ==
  /\ At(r, "set")
  /\ Set(route[r].key, Head(route[r].chain))
  /\ To(r, "user")
  /\ UNCHANGED <<now, served, historyStore>>

\* The last user message may hold no text.
LearnUser(r) ==
  /\ At(r, "user")
  /\ \/ AddTurn(route[r].key)
     \/ UNCHANGED historyStore
  /\ To(r, "assistant")
  /\ UNCHANGED <<now, served, sessionStore>>

LearnAssistant(r) ==
  /\ At(r, "assistant")
  /\ AddTurn(route[r].key)
  /\ Done(r)
  /\ UNCHANGED <<now, served, sessionStore>>

Tick ==
  /\ now < MaxTime
  /\ now' = now + 1
  /\ UNCHANGED <<served, sessionStore, historyStore, route>>

Next ==
  \/ Tick
  \/ \E r \in Requests :
       \/ Arrive(r) \/ Look(r) \/ Rank(r) \/ Permit(r) \/ Try(r) \/ Bridge(r) \/ Answer(r)
       \/ ForgetSession(r) \/ ForgetHistory(r)
       \/ LearnModel(r) \/ LearnUser(r) \/ LearnAssistant(r)

Spec == Init /\ [][Next]_vars

-----------------------------------------------------------------------------
(* Properties.                                                             *)

\* The maps, the orders and the size of the two stores go together, whoever
\* expires, evicts and renews in between (session.go, conversation.go): every
\* session has one place in its order, which is the order of use, and there are
\* never more than the cache may hold; every conversation can be evicted, and
\* the size is what the conversations take.
StoresAgree ==
  /\ ToSet(sessionOrder) = DOMAIN sessions /\ Len(sessionOrder) = Cardinality(DOMAIN sessions)
  /\ \A i \in 2 .. Len(sessionOrder) : sessions[sessionOrder[i - 1]].usedAt <= sessions[sessionOrder[i]].usedAt
  /\ Cardinality(DOMAIN sessions) <= MaxSessions
  /\ DOMAIN histories \subseteq ToSet(historyOrder)
  /\ size = SizeOf(DOMAIN histories)

\* A session or a conversation is lost for one of two reasons: a request that
\* read it found it older than the TTL (and removes it even when it was renewed
\* since), or the store is full and it was used the longest ago, all that are
\* kept having been used since (SessionCache.Get and Set, GetHistory, AddTurn).
Reader(step, k, usedAt) ==
  \E r \in Requests :
    /\ At(r, step) /\ route[r].key = k /\ route'[r].step # step
    /\ route[r].lookedAt - usedAt > TTL \/ usedAt >= route[r].lookedAt
ForgottenForAReason ==
  [][/\ \A k \in DOMAIN sessions \ DOMAIN sessions' :
          \/ Reader("forgetSession", k, sessions[k].usedAt)
          \/ /\ Cardinality(DOMAIN sessions) = MaxSessions
             /\ \A j \in DOMAIN sessions \cap DOMAIN sessions' : sessions[k].usedAt <= sessions[j].usedAt
     /\ \A k \in DOMAIN histories \ DOMAIN histories' :
          Reader("forgetHistory", k, histories[k].updatedAt) \/ size + 1 > MaxSize]_vars

\* What an auto request is served by: one of the active models that its key
\* permits, able to do what it needs if any active model is, never one it was
\* already refused by, and the model the conversation was at unless that one
\* is not able, not permitted or was tried first (RouteWithConstraints, the ACL
\* and the walk of handleComboRequest).
ServedAsRouted ==
  \A r \in Requests :
    LET ask == route[r].ask
        able == {m \in Active : ask.needs \subseteq About[m].able}
        offered == {m \in IF able = {} THEN Active ELSE able : Matches(m, ask.allowed)}
        model == Head(route[r].chain)
    IN At(r, "set") /\ IsAuto(ask) =>
         /\ model \in offered \ route[r].passed
         /\ route[r].home \in offered => route[r].home \in route[r].passed \cup {model}
=============================================================================
