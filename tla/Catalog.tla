------------------------------- MODULE Catalog ------------------------------
(***************************************************************************)
(* The catalog of models and prices (internal/catalog): the two tables     *)
(* with the precedence of their sources (sqlite.go), the read cache in     *)
(* front of them (registry.go), the OpenRouter price refresher             *)
(* (openrouter.go), the operator's price overrides (server/routes_api.go), *)
(* the seed at start-up (seed.go), and the upserts of model discovery,     *)
(* whose control is module Discovery.                                      *)
(*                                                                         *)
(* A model row is its source and the kind of content it carries; a price   *)
(* row is its source. A statement on a row is atomic, a handler is not.    *)
(***************************************************************************)
EXTENDS Naturals

CONSTANTS
  Direct,     \* models of the providers the gateway talks to directly
  Routed,     \* models in OpenRouter's own namespace
  MirrorOf,   \* MirrorOf[o]: the direct models whose normalized ID is o's
  Seeded,     \* models of the static catalog
  Listed,     \* models the providers' listings contain
  Asked,      \* models requests ask for
  Readers,    \* goroutines that look models up
  Editors,    \* goroutines that serve the operator's overrides
  Absent      \* no row, or nothing cached

Keys == Direct \cup Routed

Sources == {"seed", "discovery", "openrouter", "user"}

\* "constants": of the static catalog; "listed": of a provider's listing;
\* "blank": the key alone, every other column at its zero value.
Contents == {"constants", "listed", "blank"}

ModelRows == [source : Sources, content : Contents]

\* GetModel joins the two tables.
Joined == [model : ModelRows, price : Sources \cup {Absent}]

ASSUME CatalogAssumption ==
  /\ Keys # {} /\ Direct \cap Routed = {}
  /\ MirrorOf \in [Routed -> SUBSET Direct]
  /\ Seeded \subseteq Keys
  /\ Listed \subseteq Keys
  /\ Asked \subseteq Keys
  /\ Absent \notin Sources \cup ModelRows \cup Joined

VARIABLES
  models,   \* catalog_models
  prices,   \* catalog_pricing
  cache,    \* the registry's cache
  edit,     \* edit[e]: the PUT or DELETE that e is serving
  fetch,    \* the refresher's FetchAndPersist
  lookup,   \* lookup[g]: the Lookup that g is in
  missed    \* history: models whose cached row changed unnoticed

tables == <<models, prices>>
vars == <<models, prices, cache, edit, fetch, lookup, missed>>

Row(k) == [model |-> models[k], price |-> prices[k]]

EditType == [phase : {"idle", "pricing", "invalidating"}, key : Keys]
FetchType == [phase : {"resting", "modelling", "pricing", "invalidating"},
              offered : SUBSET Routed, todo : SUBSET Routed, resolved : SUBSET Direct]
LookupType == [phase : {"idle", "missing", "filling"}, key : Keys, row : Joined \cup {Absent}]

TypeOK ==
  /\ models \in [Keys -> ModelRows \cup {Absent}]
  /\ prices \in [Keys -> Sources \cup {Absent}]
  /\ cache \in [Keys -> Joined \cup {Absent}]
  /\ edit \in [Editors -> EditType]
  /\ fetch \in FetchType
  /\ lookup \in [Readers -> LookupType]
  /\ missed \in SUBSET Keys

-----------------------------------------------------------------------------
(* The precedence of sources, in the WHERE clauses of the upserts.         *)

\* Mutant: the user's prices are not protected.
PriceYields_EvenUsers(old, new) ==
  /\ ~ (old # "seed" /\ new = "seed")
  /\ ~ (old = "openrouter" /\ new = "discovery")

PriceYields(old, new) ==
  /\ ~ (old = "user" /\ new # "user")
  /\ ~ (old # "seed" /\ new = "seed")
  /\ ~ (old = "openrouter" /\ new = "discovery")

\* Mutant: a seed row replaces any other.
ModelYields_ToSeed(old, new) == ~ (old = "user" /\ new # "user")

ModelYields(old, new) ==
  /\ ~ (old = "user" /\ new # "user")
  /\ ~ (old # "seed" /\ new = "seed")

AfterUpsert(k, row) ==
  IF models[k] = Absent THEN row
  ELSE IF ModelYields(models[k].source, row.source) THEN row ELSE models[k]

UpsertModel(k, row) == models' = [models EXCEPT ![k] = AfterUpsert(k, row)]

PriceAfter(k, source) ==
  IF prices[k] = Absent THEN source
  ELSE IF PriceYields(prices[k], source) THEN source ELSE prices[k]

UpsertPrices(S, source) ==
  prices' = [k \in Keys |-> IF k \in S THEN PriceAfter(k, source) ELSE prices[k]]

-----------------------------------------------------------------------------
(* Start-up.                                                               *)

SeedRow == [source |-> "seed", content |-> "constants"]
Idle(k) == [phase |-> "idle", key |-> k]
Resting == [phase |-> "resting", offered |-> {}, todo |-> {}, resolved |-> {}]
NoLookup(k) == [phase |-> "idle", key |-> k, row |-> Absent]
AnyKey == CHOOSE k \in Keys : TRUE

NothingCached == [k \in Keys |-> Absent]

Init ==
  /\ models = [k \in Keys |-> IF k \in Seeded THEN SeedRow ELSE Absent]
  /\ prices = [k \in Keys |-> IF k \in Seeded THEN "seed" ELSE Absent]
  /\ cache = NothingCached
  /\ edit = [e \in Editors |-> Idle(AnyKey)]
  /\ fetch = Resting
  /\ lookup = [g \in Readers |-> NoLookup(AnyKey)]
  /\ missed = {}

\* The process starts again: what was in progress is gone, and the seed is
\* written once more before anything else runs.
Restart ==
  /\ models' = [k \in Keys |-> IF k \in Seeded THEN AfterUpsert(k, SeedRow) ELSE models[k]]
  /\ UpsertPrices(Seeded, "seed")
  /\ cache' = NothingCached
  /\ edit' = [e \in Editors |-> Idle(AnyKey)]
  /\ fetch' = Resting
  /\ lookup' = [g \in Readers |-> NoLookup(AnyKey)]
  /\ missed' = {}

Invalidate == cache' = NothingCached /\ missed' = {}

-----------------------------------------------------------------------------
(* The operator: PUT and DELETE of a model's price.                        *)

\* Mutant: a source outside the enumeration.
BlankRow_Placeholder(source) == [source |-> "placeholder", content |-> "blank"]

BlankRow(source) == [source |-> source, content |-> "blank"]

\* PUT first makes sure of a model row the price can refer to.
PutModel(e, k) ==
  /\ edit[e].phase = "idle"
  /\ UpsertModel(k, BlankRow("seed"))
  /\ edit' = [edit EXCEPT ![e] = [phase |-> "pricing", key |-> k]]
  /\ UNCHANGED <<prices, cache, fetch, lookup, missed>>

PutPrice(e) ==
  /\ edit[e].phase = "pricing"
  /\ UpsertPrices({edit[e].key}, "user")
  /\ edit' = [edit EXCEPT ![e].phase = "invalidating"]
  /\ UNCHANGED <<models, cache, fetch, lookup, missed>>

\* The second statement fails: the handler returns without an invalidation.
PutFails(e) ==
  /\ edit[e].phase = "pricing"
  /\ edit' = [edit EXCEPT ![e].phase = "idle"]
  /\ missed' = missed \cup {edit[e].key}
  /\ UNCHANGED <<tables, cache, fetch, lookup>>

DeletePrice(e, k) ==
  /\ edit[e].phase = "idle"
  /\ prices' = [prices EXCEPT ![k] = Absent]
  /\ edit' = [edit EXCEPT ![e] = [phase |-> "invalidating", key |-> k]]
  /\ UNCHANGED <<models, cache, fetch, lookup, missed>>

FinishEdit(e) ==
  /\ edit[e].phase = "invalidating"
  /\ Invalidate
  /\ edit' = [edit EXCEPT ![e].phase = "idle"]
  /\ UNCHANGED <<tables, fetch, lookup>>

Edit(e) ==
  \/ \E k \in Keys : PutModel(e, k) \/ DeletePrice(e, k)
  \/ PutPrice(e) \/ PutFails(e) \/ FinishEdit(e)

-----------------------------------------------------------------------------
(* The OpenRouter refresher: one goroutine.                                *)

\* Of the offered models, those whose rows are written: mirror candidates
\* have a row of their own provider.
ModelsToWrite(S) == S

\* An answer that cannot be fetched or parsed, or is empty, changes nothing.
FetchPrices(S) ==
  /\ fetch.phase = "resting" /\ S # {}
  /\ fetch' = [phase |-> "modelling", offered |-> S, todo |-> ModelsToWrite(S), resolved |-> {}]
  /\ UNCHANGED <<tables, cache, edit, lookup, missed>>

WriteModel(k) ==
  /\ fetch.phase = "modelling" /\ k \in fetch.todo
  /\ UpsertModel(k, BlankRow("openrouter"))
  /\ fetch' = [fetch EXCEPT !.todo = @ \ {k}]
  /\ UNCHANGED <<prices, cache, edit, lookup, missed>>

\* The deferred invalidation runs if a row has been written.
WriteFails ==
  /\ \/ fetch.phase = "modelling" /\ fetch.todo # {}
     \/ fetch.phase = "pricing"
  /\ fetch' = IF fetch.todo = fetch.offered THEN Resting
              ELSE [fetch EXCEPT !.phase = "invalidating"]
  /\ UNCHANGED <<tables, cache, edit, lookup, missed>>

\* Mutant: every mirror candidate is priced, known or not.
Resolved_Unknown(S) == UNION {MirrorOf[o] : o \in S}

\* The direct models that exist and are offered under another name.
Resolved(S) == {k \in UNION {MirrorOf[o] : o \in S} : models[k] # Absent}

\* If the prefetch fails, no mirror is written.
ResolveMirrors ==
  /\ fetch.phase = "modelling" /\ fetch.todo = {}
  /\ \E S \in {{}, Resolved(fetch.offered)} :
       fetch' = [fetch EXCEPT !.phase = "pricing", !.resolved = S]
  /\ UNCHANGED <<tables, cache, edit, lookup, missed>>

\* One transaction.
WritePrices ==
  /\ fetch.phase = "pricing"
  /\ UpsertPrices(fetch.offered \cup fetch.resolved, "openrouter")
  /\ fetch' = [fetch EXCEPT !.phase = "invalidating"]
  /\ UNCHANGED <<models, cache, edit, lookup, missed>>

\* Mutant: only new OpenRouter models are a reason to invalidate.
FinishFetch_KeepsMirrors ==
  /\ fetch.phase = "invalidating"
  /\ cache' = [k \in Keys |-> IF k \in Routed THEN Absent ELSE cache[k]]
  /\ fetch' = Resting
  /\ UNCHANGED <<tables, edit, lookup, missed>>

FinishFetch ==
  /\ fetch.phase = "invalidating"
  /\ Invalidate
  /\ fetch' = Resting
  /\ UNCHANGED <<tables, edit, lookup>>

Refresh ==
  \/ \E S \in SUBSET Routed : FetchPrices(S)
  \/ \E k \in Keys : WriteModel(k)
  \/ WriteFails \/ ResolveMirrors \/ WritePrices \/ FinishFetch

-----------------------------------------------------------------------------
(* Registry.Lookup: no lock is held across the store call.                 *)

\* A hit returns a copy of the cached row and changes nothing.
Miss(g, k) ==
  /\ lookup[g].phase = "idle" /\ cache[k] = Absent
  /\ lookup' = [lookup EXCEPT ![g] = [phase |-> "missing", key |-> k, row |-> Absent]]
  /\ UNCHANGED <<tables, cache, edit, fetch, missed>>

ReadStore(g) ==
  LET k == lookup[g].key IN
  /\ lookup[g].phase = "missing"
  /\ lookup' = [lookup EXCEPT ![g] =
                  IF models[k] = Absent THEN NoLookup(k)
                  ELSE [phase |-> "filling", key |-> k, row |-> Row(k)]]
  /\ UNCHANGED <<tables, cache, edit, fetch, missed>>

Fill(g) ==
  LET k == lookup[g].key IN
  /\ lookup[g].phase = "filling"
  /\ cache' = [cache EXCEPT ![k] = lookup[g].row]
  /\ missed' = IF lookup[g].row # Row(k) THEN missed \cup {k} ELSE missed
  /\ lookup' = [lookup EXCEPT ![g] = NoLookup(k)]
  /\ UNCHANGED <<tables, edit, fetch>>

Look(g) == (\E k \in Asked : Miss(g, k)) \/ ReadStore(g) \/ Fill(g)

-----------------------------------------------------------------------------
\* Discovery upserts a model of a listing; it knows nothing of the registry.
Discover(k) ==
  /\ k \in Listed
  /\ UpsertModel(k, [source |-> "discovery", content |-> "listed"])
  /\ missed' = missed \cup {k}
  /\ UNCHANGED <<prices, cache, edit, fetch, lookup>>

Next ==
  \/ \E e \in Editors : Edit(e)
  \/ Refresh
  \/ \E g \in Readers : Look(g)
  \/ \E k \in Keys : Discover(k)
  \/ Restart

Spec == Init /\ [][Next]_vars

-----------------------------------------------------------------------------
(* Properties.                                                             *)

\* The price statements never name a model without a row: catalog_pricing
\* refers to catalog_models, and a violation would roll the whole refresh
\* back (openrouter.go: "no FK violations here").
NoForeignKeyViolation ==
  /\ \A k \in Keys : prices[k] # Absent => models[k] # Absent
  /\ \A e \in Editors : edit[e].phase = "pricing" => models[edit[e].key] # Absent
  /\ fetch.phase = "pricing" =>
       \A k \in fetch.offered \cup fetch.resolved : models[k] # Absent

\* A price the operator has set changes by the operator's hand only, whatever
\* refreshes, discoveries and restarts run beside it.
UserPriceSticks ==
  [][\A k \in Keys :
       prices[k] = "user" /\ prices'[k] # "user" => \E e \in Editors : DeletePrice(e, k)]_vars

\* What discovery has learnt of a direct provider's model is never lost to
\* the seed, to a price refresh or to a price override.
ListingSticks ==
  [][\A k \in Direct :
       models[k] # Absent /\ models[k].content = "listed" => models'[k] = models[k]]_vars

Fresh(k) == cache[k] \in {Absent, Row(k)}

\* A writer that has changed k's row and will still invalidate the cache.
Announced(k) ==
  \/ \E e \in Editors : edit[e].phase \in {"pricing", "invalidating"} /\ edit[e].key = k
  \/ fetch.phase # "resting" /\ k \in fetch.offered \ fetch.todo
  \/ fetch.phase = "invalidating" /\ k \in fetch.resolved

\* A cached row is out of date only while its writer has yet to invalidate
\* the cache, or after one of the ways the code has of missing it: a
\* discovery, a fill that straddled a write, a PUT that failed half way.
StaleIsAccountedFor == \A k \in Keys : Fresh(k) \/ Announced(k) \/ k \in missed

=============================================================================
