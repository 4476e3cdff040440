--------------------------- MODULE Catalog_proofs ---------------------------
(***************************************************************************)
(* Proofs about the catalog, for any models, mirrors, readers and editors, *)
(* and about the discovery that fills it, for any providers, goroutines    *)
(* and length of the schedule.                                             *)
(***************************************************************************)
EXTENDS Catalog, Discovery, TLAPS

-----------------------------------------------------------------------------
(* The upserts.                                                            *)

\* What UpsertModel leaves in a table: a row, well typed, for the model it
\* was called with, and every other row as it was.
LEMMA UpsertModelResult ==
  ASSUME models \in [Keys -> ModelRows \cup {Absent}],
         NEW k \in Keys, NEW row \in ModelRows, UpsertModel(k, row)
  PROVE  /\ models' \in [Keys -> ModelRows \cup {Absent}]
         /\ models'[k] # Absent
         /\ \A j \in Keys : j # k => models'[j] = models[j]
         /\ \A j \in Keys : models[j] # Absent => models'[j] # Absent
BY CatalogAssumption DEF UpsertModel, AfterUpsert

\* What UpsertPrices leaves: a price where there was one or one is written,
\* and the operator's price wherever there was one.
LEMMA UpsertPricesResult ==
  ASSUME prices \in [Keys -> Sources \cup {Absent}],
         NEW S, NEW source \in Sources, UpsertPrices(S, source)
  PROVE  /\ prices' \in [Keys -> Sources \cup {Absent}]
         /\ \A j \in Keys : j \notin S => prices'[j] = prices[j]
         /\ \A j \in Keys : prices[j] = "user" => prices'[j] = "user"
BY CatalogAssumption DEF UpsertPrices, PriceAfter, PriceYields, Sources

-----------------------------------------------------------------------------
(* Types.                                                                  *)

LEMMA TypeInit == Init => TypeOK
<1> SUFFICES ASSUME Init PROVE TypeOK
  OBVIOUS
<1>1. AnyKey \in Keys
  BY CatalogAssumption DEF AnyKey
<1>2. models \in [Keys -> ModelRows \cup {Absent}]
  BY DEF Init, SeedRow, ModelRows, Sources, Contents
<1>3. prices \in [Keys -> Sources \cup {Absent}]
  BY DEF Init, Sources
<1>4. cache \in [Keys -> Joined \cup {Absent}]
  BY DEF Init, NothingCached
<1>5. edit \in [Editors -> EditType] /\ lookup \in [Readers -> LookupType]
  BY <1>1 DEF Init, Idle, NoLookup, EditType, LookupType
<1>6. fetch \in FetchType /\ missed \in SUBSET Keys
  BY DEF Init, Resting, FetchType
<1> QED
  BY <1>2, <1>3, <1>4, <1>5, <1>6 DEF TypeOK

\* What is invalidated, or restarted, is well typed.
LEMMA NothingCachedType == NothingCached \in [Keys -> Joined \cup {Absent}]
BY DEF NothingCached

LEMMA BlankRowType == \A source \in Sources : BlankRow(source) \in ModelRows
BY DEF BlankRow, ModelRows, Contents

LEMMA EditTypes == ASSUME TypeOK, NEW e \in Editors, Edit(e) PROVE TypeOK'
<1>1. /\ models \in [Keys -> ModelRows \cup {Absent}]
      /\ prices \in [Keys -> Sources \cup {Absent}]
      /\ edit \in [Editors -> EditType]
      /\ "seed" \in Sources /\ "user" \in Sources
  BY DEF TypeOK, Sources
<1>2. ASSUME NEW k \in Keys, PutModel(e, k) PROVE TypeOK'
  <2>1. models' \in [Keys -> ModelRows \cup {Absent}]
    BY <1>1, <1>2, BlankRowType, UpsertModelResult DEF PutModel
  <2>2. edit' \in [Editors -> EditType]
    BY <1>1, <1>2 DEF PutModel, EditType
  <2> QED
    BY <2>1, <2>2, <1>2 DEF PutModel, TypeOK
<1>3. ASSUME NEW k \in Keys, DeletePrice(e, k) PROVE TypeOK'
  <2>1. edit' \in [Editors -> EditType] /\ prices' \in [Keys -> Sources \cup {Absent}]
    BY <1>1, <1>3 DEF DeletePrice, EditType
  <2> QED
    BY <2>1, <1>3 DEF DeletePrice, TypeOK
<1>4. CASE PutPrice(e)
  <2>1. prices' \in [Keys -> Sources \cup {Absent}]
    BY <1>1, <1>4, UpsertPricesResult DEF PutPrice
  <2>2. edit' \in [Editors -> EditType]
    BY <1>1, <1>4 DEF PutPrice, EditType
  <2> QED
    BY <2>1, <2>2, <1>4 DEF PutPrice, TypeOK
<1>5. CASE PutFails(e)
  <2>1. edit' \in [Editors -> EditType] /\ edit[e].key \in Keys
    BY <1>1, <1>5 DEF PutFails, EditType
  <2> QED
    BY <2>1, <1>5 DEF PutFails, TypeOK, tables
<1>6. CASE FinishEdit(e)
  <2>1. edit' \in [Editors -> EditType]
    BY <1>1, <1>6 DEF FinishEdit, EditType
  <2> QED
    BY <2>1, <1>6, NothingCachedType DEF FinishEdit, Invalidate, TypeOK, tables
<1> QED
  BY <1>2, <1>3, <1>4, <1>5, <1>6 DEF Edit

LEMMA MirrorsAreDirect == \A S \in SUBSET Routed : Resolved(S) \subseteq Direct
BY CatalogAssumption DEF Resolved

LEMMA RefreshTypes == ASSUME TypeOK, Refresh PROVE TypeOK'
<1>1. /\ models \in [Keys -> ModelRows \cup {Absent}]
      /\ prices \in [Keys -> Sources \cup {Absent}]
      /\ fetch \in FetchType /\ Resting \in FetchType
      /\ "openrouter" \in Sources
  BY DEF TypeOK, Sources, FetchType, Resting
<1>2. ASSUME NEW S \in SUBSET Routed, FetchPrices(S) PROVE TypeOK'
  <2>1. fetch' \in FetchType
    BY <1>2 DEF FetchPrices, FetchType, ModelsToWrite
  <2> QED
    BY <2>1, <1>2 DEF FetchPrices, TypeOK, tables
<1>3. ASSUME NEW k \in Keys, WriteModel(k) PROVE TypeOK'
  <2>1. models' \in [Keys -> ModelRows \cup {Absent}]
    BY <1>1, <1>3, BlankRowType, UpsertModelResult DEF WriteModel
  <2>2. fetch' \in FetchType
    BY <1>1, <1>3 DEF WriteModel, FetchType
  <2> QED
    BY <2>1, <2>2, <1>3 DEF WriteModel, TypeOK
<1>4. CASE WriteFails
  <2>1. fetch' \in FetchType
    BY <1>1, <1>4 DEF WriteFails, FetchType
  <2> QED
    BY <2>1, <1>4 DEF WriteFails, TypeOK, tables
<1>5. CASE ResolveMirrors
  <2>1. PICK S \in {{}, Resolved(fetch.offered)} :
               fetch' = [fetch EXCEPT !.phase = "pricing", !.resolved = S]
    BY <1>5 DEF ResolveMirrors
  <2>2. S \subseteq Direct
    BY <1>1, <2>1, MirrorsAreDirect DEF FetchType
  <2>3. fetch' \in FetchType
    BY <1>1, <2>1, <2>2 DEF FetchType
  <2> QED
    BY <2>3, <1>5 DEF ResolveMirrors, TypeOK, tables
<1>6. CASE WritePrices
  <2>1. prices' \in [Keys -> Sources \cup {Absent}]
    BY <1>1, <1>6, UpsertPricesResult DEF WritePrices
  <2>2. fetch' \in FetchType
    BY <1>1, <1>6 DEF WritePrices, FetchType
  <2> QED
    BY <2>1, <2>2, <1>6 DEF WritePrices, TypeOK
<1>7. CASE FinishFetch
  BY <1>1, <1>7, NothingCachedType DEF FinishFetch, Invalidate, TypeOK, tables
<1> QED
  BY <1>2, <1>3, <1>4, <1>5, <1>6, <1>7 DEF Refresh

LEMMA LookTypes == ASSUME TypeOK, NEW g \in Readers, Look(g) PROVE TypeOK'
<1>1. /\ lookup \in [Readers -> LookupType] /\ cache \in [Keys -> Joined \cup {Absent}]
      /\ lookup[g] \in LookupType /\ lookup[g].key \in Keys
      /\ \A k \in Keys : NoLookup(k) \in LookupType
  BY DEF TypeOK, LookupType, NoLookup
<1>2. ASSUME NEW k \in Keys, Miss(g, k) PROVE TypeOK'
  <2>1. lookup' \in [Readers -> LookupType]
    BY <1>1, <1>2 DEF Miss, LookupType
  <2> QED
    BY <2>1, <1>2 DEF Miss, TypeOK, tables
<1>3. CASE ReadStore(g)
  <2>1. models[lookup[g].key] # Absent => Row(lookup[g].key) \in Joined
    BY <1>1 DEF TypeOK, Row, Joined
  <2>2. lookup' \in [Readers -> LookupType]
    BY <1>1, <1>3, <2>1 DEF ReadStore, LookupType
  <2> QED
    BY <2>2, <1>3 DEF ReadStore, TypeOK, tables
<1>4. CASE Fill(g)
  <2>1. lookup' \in [Readers -> LookupType] /\ lookup[g].row \in Joined \cup {Absent}
    BY <1>1, <1>4 DEF Fill, LookupType
  <2>2. cache' \in [Keys -> Joined \cup {Absent}]
    BY <1>1, <1>4, <2>1 DEF Fill
  <2>3. missed' \in SUBSET Keys
    BY <1>1, <1>4 DEF Fill, TypeOK
  <2> QED
    BY <2>1, <2>2, <2>3, <1>4 DEF Fill, TypeOK, tables
<1> QED
  BY <1>2, <1>3, <1>4, CatalogAssumption DEF Look

LEMMA DiscoverTypes == ASSUME TypeOK, NEW k \in Keys, Discover(k) PROVE TypeOK'
<1>1. [source |-> "discovery", content |-> "listed"] \in ModelRows
  BY DEF ModelRows, Sources, Contents
<1>2. models' \in [Keys -> ModelRows \cup {Absent}]
  BY <1>1, UpsertModelResult DEF Discover, TypeOK
<1> QED
  BY <1>2 DEF Discover, TypeOK

LEMMA RestartTypes == ASSUME TypeOK, Restart PROVE TypeOK'
<1>1. AnyKey \in Keys
  BY CatalogAssumption DEF AnyKey
<1>2. models' \in [Keys -> ModelRows \cup {Absent}]
  BY DEF Restart, TypeOK, AfterUpsert, SeedRow, ModelRows, Sources, Contents
<1>3. prices' \in [Keys -> Sources \cup {Absent}]
  BY UpsertPricesResult DEF Restart, TypeOK, Sources
<1>4. edit' \in [Editors -> EditType] /\ lookup' \in [Readers -> LookupType]
  BY <1>1 DEF Restart, Idle, NoLookup, EditType, LookupType
<1>5. fetch' \in FetchType /\ missed' \in SUBSET Keys
  BY DEF Restart, Resting, FetchType
<1> QED
  BY <1>2, <1>3, <1>4, <1>5, NothingCachedType DEF Restart, TypeOK

\* Every reachable state of the catalog is well typed: the two tables hold
\* rows of known sources only, whatever writers overlap.
THEOREM CatalogTypes == Spec => []TypeOK
<1>1. TypeOK /\ [Next]_vars => TypeOK'
  <2>1. TypeOK /\ UNCHANGED vars => TypeOK'
    BY DEF TypeOK, vars
  <2> QED
    BY <2>1, EditTypes, RefreshTypes, LookTypes, DiscoverTypes, RestartTypes DEF Next
<1> QED
  BY <1>1, TypeInit, PTL DEF Spec

-----------------------------------------------------------------------------
(* Prices refer to models.                                                 *)

\* No step takes a row out of catalog_models.
LEMMA RowsStay ==
  ASSUME TypeOK, [Next]_vars
  PROVE  \A k \in Keys : models[k] # Absent => models'[k] # Absent
<1>1. /\ models \in [Keys -> ModelRows \cup {Absent}]
      /\ "seed" \in Sources /\ "openrouter" \in Sources
      /\ [source |-> "discovery", content |-> "listed"] \in ModelRows
  BY DEF TypeOK, Sources, ModelRows, Contents
<1>2. ASSUME NEW e \in Editors, Edit(e)
      PROVE  \A k \in Keys : models[k] # Absent => models'[k] # Absent
  <2>1. ASSUME NEW j \in Keys, PutModel(e, j)
        PROVE  \A k \in Keys : models[k] # Absent => models'[k] # Absent
    BY <1>1, <2>1, BlankRowType, UpsertModelResult DEF PutModel
  <2>2. (\E j \in Keys : DeletePrice(e, j)) \/ PutPrice(e) \/ PutFails(e) \/ FinishEdit(e)
          => models' = models
    BY DEF DeletePrice, PutPrice, PutFails, FinishEdit, tables
  <2> QED
    BY <1>2, <2>1, <2>2 DEF Edit
<1>3. ASSUME Refresh
      PROVE  \A k \in Keys : models[k] # Absent => models'[k] # Absent
  <2>1. ASSUME NEW j \in Keys, WriteModel(j)
        PROVE  \A k \in Keys : models[k] # Absent => models'[k] # Absent
    BY <1>1, <2>1, BlankRowType, UpsertModelResult DEF WriteModel
  <2>2. ASSUME (\E S \in SUBSET Routed : FetchPrices(S))
               \/ WriteFails \/ ResolveMirrors \/ WritePrices \/ FinishFetch
        PROVE  models' = models
    BY <2>2 DEF FetchPrices, WriteFails, ResolveMirrors, WritePrices, FinishFetch, tables
  <2> QED
    BY <1>3, <2>1, <2>2 DEF Refresh
<1>4. (\E g \in Readers : Look(g)) => models' = models
  BY DEF Look, Miss, ReadStore, Fill, tables
<1>5. ASSUME NEW j \in Keys, Discover(j)
      PROVE  \A k \in Keys : models[k] # Absent => models'[k] # Absent
  BY <1>1, <1>5, UpsertModelResult DEF Discover
<1>6. Restart => \A k \in Keys : models[k] # Absent => models'[k] # Absent
  BY <1>1, CatalogAssumption DEF Restart, AfterUpsert, SeedRow, ModelRows, Contents
<1> QED
  BY <1>2, <1>3, <1>4, <1>5, <1>6 DEF Next, vars

\* What a refresh has done at each of its phases.
FetchInv ==
  /\ fetch.phase = "modelling" =>
       \A k \in fetch.offered \ fetch.todo : models[k] # Absent
  /\ fetch.phase = "pricing" => fetch.todo = {}

ForeignKeyInv == FetchInv /\ NoForeignKeyViolation

LEMMA ForeignKeyInit == Init => ForeignKeyInv
<1>1. SeedRow # Absent
  BY CatalogAssumption DEF SeedRow, ModelRows, Sources, Contents
<1> QED
  BY <1>1 DEF Init, ForeignKeyInv, FetchInv, NoForeignKeyViolation, Resting, Idle

\* A step that writes no price and leaves edits and refresh alone.
LEMMA ForeignKeyFrame ==
  ASSUME TypeOK, ForeignKeyInv, [Next]_vars, UNCHANGED <<prices, edit, fetch>>
  PROVE  ForeignKeyInv'
<1>1. fetch.offered \subseteq Keys /\ fetch.resolved \subseteq Keys
  BY DEF TypeOK, FetchType, Keys
<1>2. \A e \in Editors : edit[e].key \in Keys
  BY DEF TypeOK, EditType
<1> QED
  BY <1>1, <1>2, RowsStay DEF ForeignKeyInv, FetchInv, NoForeignKeyViolation

LEMMA ForeignKeyEdit ==
  ASSUME TypeOK, ForeignKeyInv, NEW e \in Editors, Edit(e), [Next]_vars
  PROVE  ForeignKeyInv'
<1>1. /\ models \in [Keys -> ModelRows \cup {Absent}]
      /\ prices \in [Keys -> Sources \cup {Absent}]
      /\ edit \in [Editors -> EditType] /\ \A f \in Editors : edit[f].key \in Keys
      /\ fetch.offered \subseteq Keys /\ fetch.resolved \subseteq Keys
      /\ "seed" \in Sources /\ "user" \in Sources
  BY DEF TypeOK, Sources, EditType, FetchType, Keys
<1>2. fetch' = fetch
  BY DEF Edit, PutModel, DeletePrice, PutPrice, PutFails, FinishEdit
<1>3. FetchInv'
  BY <1>1, <1>2, RowsStay DEF ForeignKeyInv, FetchInv
<1>4. fetch'.phase = "pricing" =>
        \A k \in fetch'.offered \cup fetch'.resolved : models'[k] # Absent
  BY <1>1, <1>2, RowsStay DEF ForeignKeyInv, NoForeignKeyViolation
<1>5. \A k \in Keys : prices'[k] # Absent => models'[k] # Absent
  <2>1. CASE prices' = prices
    BY <2>1, RowsStay DEF ForeignKeyInv, NoForeignKeyViolation
  <2>2. ASSUME NEW j \in Keys, DeletePrice(e, j)
        PROVE  \A k \in Keys : prices'[k] # Absent => models'[k] # Absent
    BY <1>1, <2>2 DEF DeletePrice, ForeignKeyInv, NoForeignKeyViolation
  <2>3. CASE PutPrice(e)
    <3>1. models[edit[e].key] # Absent /\ models' = models
      BY <2>3 DEF PutPrice, ForeignKeyInv, NoForeignKeyViolation
    <3>2. \A k \in Keys : k # edit[e].key => prices'[k] = prices[k]
      BY <1>1, <2>3, UpsertPricesResult DEF PutPrice
    <3> QED
      BY <3>1, <3>2 DEF ForeignKeyInv, NoForeignKeyViolation
  <2> QED
    BY <2>1, <2>2, <2>3 DEF Edit, PutModel, PutFails, FinishEdit, tables
<1>6. \A f \in Editors : edit'[f].phase = "pricing" => models'[edit'[f].key] # Absent
  <2>1. ASSUME NEW j \in Keys, PutModel(e, j)
        PROVE  \A f \in Editors : edit'[f].phase = "pricing" => models'[edit'[f].key] # Absent
    <3>1. models'[j] # Absent
      BY <1>1, <2>1, BlankRowType, UpsertModelResult DEF PutModel
    <3>2. \A f \in Editors : f # e => edit'[f] = edit[f]
      BY <1>1, <2>1 DEF PutModel
    <3>3. edit'[e].key = j
      BY <1>1, <2>1 DEF PutModel
    <3> QED
      BY <1>1, <3>1, <3>2, <3>3, RowsStay DEF ForeignKeyInv, NoForeignKeyViolation
  <2>2. CASE (\E j \in Keys : DeletePrice(e, j)) \/ PutPrice(e) \/ PutFails(e) \/ FinishEdit(e)
    <3>1. \A f \in Editors : f # e => edit'[f] = edit[f]
      BY <1>1, <2>2 DEF DeletePrice, PutPrice, PutFails, FinishEdit
    <3>2. edit'[e].phase # "pricing"
      BY <1>1, <2>2 DEF DeletePrice, PutPrice, PutFails, FinishEdit, EditType
    <3> QED
      BY <1>1, <3>1, <3>2, RowsStay DEF ForeignKeyInv, NoForeignKeyViolation
  <2> QED
    BY <2>1, <2>2 DEF Edit
<1> QED
  BY <1>3, <1>4, <1>5, <1>6 DEF ForeignKeyInv, NoForeignKeyViolation

LEMMA ForeignKeyRefresh ==
  ASSUME TypeOK, ForeignKeyInv, Refresh, [Next]_vars
  PROVE  ForeignKeyInv'
<1>1. /\ models \in [Keys -> ModelRows \cup {Absent}]
      /\ prices \in [Keys -> Sources \cup {Absent}]
      /\ fetch \in FetchType /\ fetch.offered \subseteq Keys /\ fetch.resolved \subseteq Keys
      /\ \A e \in Editors : edit[e].key \in Keys
      /\ "openrouter" \in Sources
  BY DEF TypeOK, Sources, EditType, FetchType, Keys
<1>2. edit' = edit
  BY DEF Refresh, FetchPrices, WriteModel, WriteFails, ResolveMirrors, WritePrices, FinishFetch
<1>3. \A e \in Editors : edit'[e].phase = "pricing" => models'[edit'[e].key] # Absent
  BY <1>1, <1>2, RowsStay DEF ForeignKeyInv, NoForeignKeyViolation
<1>4. prices' = prices => \A k \in Keys : prices'[k] # Absent => models'[k] # Absent
  BY RowsStay DEF ForeignKeyInv, NoForeignKeyViolation
<1>5. ASSUME NEW S \in SUBSET Routed, FetchPrices(S) PROVE ForeignKeyInv'
  <2>1. /\ fetch'.phase = "modelling" /\ fetch'.offered = fetch'.todo /\ prices' = prices
    BY <1>5 DEF FetchPrices, ModelsToWrite, tables
  <2> QED
    BY <2>1, <1>3, <1>4 DEF ForeignKeyInv, FetchInv, NoForeignKeyViolation
<1>6. ASSUME NEW j \in Keys, WriteModel(j) PROVE ForeignKeyInv'
  <2>1. models'[j] # Absent
    BY <1>1, <1>6, BlankRowType, UpsertModelResult DEF WriteModel
  <2>2. /\ fetch.phase = "modelling" /\ fetch'.phase = "modelling"
        /\ fetch'.offered = fetch.offered /\ fetch'.todo = fetch.todo \ {j}
        /\ prices' = prices
    BY <1>1, <1>6 DEF WriteModel, FetchType
  <2>3. \A k \in fetch'.offered \ fetch'.todo : models'[k] # Absent
    BY <1>1, <2>1, <2>2, RowsStay DEF ForeignKeyInv, FetchInv
  <2> QED
    BY <2>2, <2>3, <1>3, <1>4 DEF ForeignKeyInv, FetchInv, NoForeignKeyViolation
<1>7. CASE WriteFails
  <2>1. fetch'.phase \in {"resting", "invalidating"} /\ prices' = prices
    BY <1>1, <1>7 DEF WriteFails, Resting, FetchType, tables
  <2> QED
    BY <2>1, <1>3, <1>4 DEF ForeignKeyInv, FetchInv, NoForeignKeyViolation
<1>8. CASE ResolveMirrors
  <2>1. /\ fetch.phase = "modelling" /\ fetch.todo = {} /\ fetch'.phase = "pricing"
        /\ fetch'.todo = {} /\ fetch'.offered = fetch.offered
        /\ fetch'.resolved \in {{}, Resolved(fetch.offered)}
        /\ models' = models /\ prices' = prices
    BY <1>1, <1>8 DEF ResolveMirrors, FetchType, tables
  <2>2. \A k \in fetch'.resolved : models[k] # Absent
    BY <2>1 DEF Resolved
  <2>3. \A k \in fetch.offered : models[k] # Absent
    BY <2>1 DEF ForeignKeyInv, FetchInv
  <2> QED
    BY <2>1, <2>2, <2>3, <1>3, <1>4 DEF ForeignKeyInv, FetchInv, NoForeignKeyViolation
<1>9. CASE WritePrices
  <2>1. /\ fetch.phase = "pricing" /\ fetch'.phase = "invalidating" /\ models' = models
        /\ \A k \in Keys : k \notin fetch.offered \cup fetch.resolved => prices'[k] = prices[k]
    BY <1>1, <1>9, UpsertPricesResult DEF WritePrices, FetchType
  <2>2. \A k \in Keys : prices'[k] # Absent => models'[k] # Absent
    BY <2>1 DEF ForeignKeyInv, NoForeignKeyViolation
  <2> QED
    BY <2>1, <2>2, <1>3 DEF ForeignKeyInv, FetchInv, NoForeignKeyViolation
<1>10. CASE FinishFetch
  <2>1. fetch'.phase = "resting" /\ prices' = prices
    BY <1>10 DEF FinishFetch, Resting, tables
  <2> QED
    BY <2>1, <1>3, <1>4 DEF ForeignKeyInv, FetchInv, NoForeignKeyViolation
<1> QED
  BY <1>5, <1>6, <1>7, <1>8, <1>9, <1>10 DEF Refresh

LEMMA ForeignKeyRestart ==
  ASSUME TypeOK, ForeignKeyInv, Restart, [Next]_vars
  PROVE  ForeignKeyInv'
<1>1. /\ fetch'.phase = "resting" /\ \A e \in Editors : edit'[e].phase = "idle"
  BY DEF Restart, Resting, Idle
<1>2. \A k \in Seeded : models'[k] # Absent
  <2>1. SeedRow # Absent
    BY CatalogAssumption DEF SeedRow, ModelRows, Sources, Contents
  <2> QED
    BY <2>1, CatalogAssumption DEF Restart, AfterUpsert
<1>3. \A k \in Keys : k \notin Seeded => prices'[k] = prices[k]
  BY UpsertPricesResult DEF Restart, TypeOK, Sources
<1>4. \A k \in Keys : prices'[k] # Absent => models'[k] # Absent
  BY <1>2, <1>3, RowsStay DEF ForeignKeyInv, NoForeignKeyViolation
<1> QED
  BY <1>1, <1>4 DEF ForeignKeyInv, FetchInv, NoForeignKeyViolation

LEMMA ForeignKeyInvariance == Spec => []ForeignKeyInv
<1>1. TypeOK /\ ForeignKeyInv /\ [Next]_vars => ForeignKeyInv'
  <2> SUFFICES ASSUME TypeOK, ForeignKeyInv, [Next]_vars PROVE ForeignKeyInv'
    OBVIOUS
  <2>1. (\E g \in Readers : Look(g)) => UNCHANGED <<prices, edit, fetch>>
    BY DEF Look, Miss, ReadStore, Fill, tables
  <2>2. (\E k \in Keys : Discover(k)) \/ UNCHANGED vars => UNCHANGED <<prices, edit, fetch>>
    BY DEF Discover, vars
  <2>3. UNCHANGED <<prices, edit, fetch>> => ForeignKeyInv'
    BY ForeignKeyFrame
  <2> QED
    BY <2>1, <2>2, <2>3, ForeignKeyEdit, ForeignKeyRefresh, ForeignKeyRestart DEF Next
<1> QED
  BY <1>1, ForeignKeyInit, CatalogTypes, PTL DEF Spec

\* A price statement never names a model without a row, however refreshes,
\* overrides, discoveries and restarts overlap: no foreign key ever fails.
THEOREM NoForeignKeyViolationHolds == Spec => []NoForeignKeyViolation
<1>1. ForeignKeyInv => NoForeignKeyViolation
  BY DEF ForeignKeyInv
<1> QED
  BY <1>1, ForeignKeyInvariance, PTL

-----------------------------------------------------------------------------
(* Precedence.                                                             *)

\* A price the operator has set is changed by the operator's DELETE only: no
\* refresh, restart or other override takes it away.
THEOREM UserPriceSticksHolds == Spec => UserPriceSticks
<1> DEFINE Kept == \A k \in Keys : prices[k] = "user" /\ prices'[k] # "user" =>
                                     \E e \in Editors : DeletePrice(e, k)
<1>1. TypeOK /\ [Next]_vars => Kept
  <2> SUFFICES ASSUME TypeOK, [Next]_vars PROVE Kept
    OBVIOUS
  <2>1. prices \in [Keys -> Sources \cup {Absent}] /\ {"seed", "user", "openrouter"} \subseteq Sources
    BY DEF TypeOK, Sources
  <2>2. ASSUME NEW S, NEW source \in {"seed", "user", "openrouter"}, UpsertPrices(S, source)
        PROVE  Kept
    BY <2>1, <2>2, UpsertPricesResult
  <2>3. CASE prices' = prices
    BY <2>3
  <2>4. ASSUME NEW e \in Editors, Edit(e) PROVE Kept
    <3>1. ASSUME NEW j \in Keys, DeletePrice(e, j) PROVE Kept
      <4>1. \A k \in Keys : k # j => prices'[k] = prices[k]
        BY <2>1, <3>1 DEF DeletePrice
      <4> QED
        BY <4>1, <3>1
    <3>2. PutPrice(e) => Kept
      BY <2>2 DEF PutPrice
    <3>3. (\E j \in Keys : PutModel(e, j)) \/ PutFails(e) \/ FinishEdit(e) => prices' = prices
      BY DEF PutModel, PutFails, FinishEdit, tables
    <3> QED
      BY <2>3, <2>4, <3>1, <3>2, <3>3 DEF Edit
  <2>5. CASE Refresh
    <3>1. WritePrices => Kept
      BY <2>2 DEF WritePrices
    <3>2. ASSUME (\E S \in SUBSET Routed : FetchPrices(S)) \/ (\E k \in Keys : WriteModel(k))
                 \/ WriteFails \/ ResolveMirrors \/ FinishFetch
          PROVE  prices' = prices
      BY <3>2 DEF FetchPrices, WriteModel, WriteFails, ResolveMirrors, FinishFetch, tables
    <3> QED
      BY <2>3, <2>5, <3>1, <3>2 DEF Refresh
  <2>6. Restart => Kept
    BY <2>2 DEF Restart
  <2>7. (\E g \in Readers : Look(g)) \/ (\E k \in Keys : Discover(k)) \/ UNCHANGED vars
          => prices' = prices
    BY DEF Look, Miss, ReadStore, Fill, Discover, tables, vars
  <2> HIDE DEF Kept
  <2> QED
    BY <2>3, <2>4, <2>5, <2>6, <2>7 DEF Next
<1>2. TypeOK /\ [Next]_vars => [Kept]_vars
  BY <1>1
<1> QED
  BY <1>2, CatalogTypes, PTL DEF Spec, UserPriceSticks

\* What a provider's listing says carries the source of listings.
ListedByDiscovery ==
  \A k \in Keys :
    models[k] # Absent /\ models[k].content = "listed" => models[k].source = "discovery"

\* A row that is not a listing's leaves the listings of the direct models
\* alone, if it comes from the seed.
LEMMA SeedYieldsToListings ==
  ASSUME TypeOK, ListedByDiscovery, NEW k \in Keys, NEW row \in ModelRows,
         row.source = "seed", row.content # "listed", UpsertModel(k, row)
  PROVE  /\ ListedByDiscovery'
         /\ \A j \in Keys : models[j] # Absent /\ models[j].content = "listed" => models'[j] = models[j]
<1>1. models \in [Keys -> ModelRows \cup {Absent}]
  BY DEF TypeOK
<1>2. \A j \in Keys : j # k => models'[j] = models[j]
  BY <1>1, UpsertModelResult
<1>3. models'[k] = AfterUpsert(k, row)
  BY <1>1 DEF UpsertModel
<1>4. models[k] # Absent /\ models[k].content = "listed" => AfterUpsert(k, row) = models[k]
  BY DEF ListedByDiscovery, AfterUpsert, ModelYields
<1> QED
  BY <1>2, <1>3, <1>4 DEF ListedByDiscovery, AfterUpsert

ListingKept ==
  \A k \in Direct : models[k] # Absent /\ models[k].content = "listed" => models'[k] = models[k]

LEMMA ListingStep ==
  ASSUME TypeOK, ListedByDiscovery, [Next]_vars
  PROVE  ListedByDiscovery' /\ ListingKept
<1>1. /\ models \in [Keys -> ModelRows \cup {Absent}] /\ Direct \subseteq Keys
      /\ BlankRow("seed") \in ModelRows /\ BlankRow("openrouter") \in ModelRows
      /\ SeedRow \in ModelRows
  BY BlankRowType DEF TypeOK, Sources, Contents, ModelRows, SeedRow, Keys
<1>2. models' = models => ListedByDiscovery' /\ ListingKept
  BY DEF ListedByDiscovery, ListingKept
<1>3. ASSUME NEW e \in Editors, Edit(e) PROVE ListedByDiscovery' /\ ListingKept
  <2>1. ASSUME NEW j \in Keys, PutModel(e, j) PROVE ListedByDiscovery' /\ ListingKept
    BY <1>1, <2>1, SeedYieldsToListings DEF PutModel, BlankRow, ListingKept
  <2>2. (\E j \in Keys : DeletePrice(e, j)) \/ PutPrice(e) \/ PutFails(e) \/ FinishEdit(e)
          => models' = models
    BY DEF DeletePrice, PutPrice, PutFails, FinishEdit, tables
  <2> QED
    BY <1>2, <1>3, <2>1, <2>2 DEF Edit
<1>4. CASE Refresh
  <2>1. ASSUME NEW j \in Keys, WriteModel(j) PROVE ListedByDiscovery' /\ ListingKept
    <3>1. j \in Routed /\ j \notin Direct
      BY <2>1, CatalogAssumption DEF WriteModel, TypeOK, FetchType
    <3>2. \A k \in Keys : k # j => models'[k] = models[k]
      BY <1>1, <2>1, UpsertModelResult DEF WriteModel
    <3>3. models'[j] = AfterUpsert(j, BlankRow("openrouter"))
      BY <1>1, <2>1 DEF WriteModel, UpsertModel
    <3> QED
      BY <1>1, <3>1, <3>2, <3>3 DEF ListedByDiscovery, ListingKept, AfterUpsert, BlankRow
  <2>2. ASSUME (\E S \in SUBSET Routed : FetchPrices(S))
               \/ WriteFails \/ ResolveMirrors \/ WritePrices \/ FinishFetch
        PROVE  models' = models
    BY <2>2 DEF FetchPrices, WriteFails, ResolveMirrors, WritePrices, FinishFetch, tables
  <2> QED
    BY <1>2, <1>4, <2>1, <2>2 DEF Refresh
<1>5. ASSUME NEW j \in Keys, Discover(j) PROVE ListedByDiscovery' /\ ListingKept
  <2>1. [source |-> "discovery", content |-> "listed"] \in ModelRows
    BY DEF ModelRows, Sources, Contents
  <2>2. \A k \in Keys : k # j => models'[k] = models[k]
    BY <1>1, <1>5, <2>1, UpsertModelResult DEF Discover
  <2>3. models'[j] = AfterUpsert(j, [source |-> "discovery", content |-> "listed"])
    BY <1>1, <1>5 DEF Discover, UpsertModel
  <2>4. models[j] # Absent => models[j] = [source |-> models[j].source, content |-> models[j].content]
    BY <1>1 DEF ModelRows
  <2> QED
    BY <1>1, <2>2, <2>3, <2>4 DEF ListedByDiscovery, ListingKept, AfterUpsert
<1>6. CASE Restart
  <2>1. \A k \in Keys : models'[k] = IF k \in Seeded THEN AfterUpsert(k, SeedRow) ELSE models[k]
    BY <1>6 DEF Restart
  <2>2. \A k \in Keys : models[k] # Absent /\ models[k].content = "listed"
                          => AfterUpsert(k, SeedRow) = models[k]
    BY DEF ListedByDiscovery, AfterUpsert, ModelYields, SeedRow
  <2> QED
    BY <1>1, <2>1, <2>2 DEF ListedByDiscovery, ListingKept, AfterUpsert, SeedRow
<1>7. (\E g \in Readers : Look(g)) \/ UNCHANGED vars => models' = models
  BY DEF Look, Miss, ReadStore, Fill, tables, vars
<1> QED
  BY <1>2, <1>3, <1>4, <1>5, <1>6, <1>7 DEF Next

\* Neither the seed, nor a price refresh, nor a price override loses what
\* discovery has learnt of a direct provider's model.
THEOREM ListingSticksHolds == Spec => ListingSticks
<1>1. Init => ListedByDiscovery
  BY DEF Init, ListedByDiscovery, SeedRow
<1>2. TypeOK /\ ListedByDiscovery /\ [Next]_vars => ListedByDiscovery' /\ [ListingKept]_vars
  BY ListingStep
<1> QED
  BY <1>1, <1>2, CatalogTypes, PTL DEF Spec, ListingSticks, ListingKept

-----------------------------------------------------------------------------
(* The read cache.                                                         *)

TodoIsOffered == fetch.todo \subseteq fetch.offered

LEMMA TodoStep == ASSUME TypeOK, TodoIsOffered, [Next]_vars PROVE TodoIsOffered'
<1>1. fetch \in FetchType
  BY DEF TypeOK
<1>2. fetch' = fetch => TodoIsOffered'
  BY DEF TodoIsOffered
<1>3. ASSUME Refresh PROVE TodoIsOffered'
  <2>1. ASSUME NEW S \in SUBSET Routed, FetchPrices(S) PROVE TodoIsOffered'
    BY <2>1 DEF FetchPrices, ModelsToWrite, TodoIsOffered
  <2>2. ASSUME NEW k \in Keys, WriteModel(k) PROVE TodoIsOffered'
    BY <1>1, <2>2 DEF WriteModel, TodoIsOffered, FetchType
  <2>3. CASE WriteFails \/ FinishFetch
    BY <1>1, <2>3 DEF WriteFails, FinishFetch, Resting, TodoIsOffered, FetchType
  <2>4. CASE ResolveMirrors
    BY <1>1, <2>4 DEF ResolveMirrors, TodoIsOffered, FetchType
  <2>5. CASE WritePrices
    BY <1>1, <2>5 DEF WritePrices, TodoIsOffered, FetchType
  <2> QED
    BY <1>3, <2>1, <2>2, <2>3, <2>4, <2>5 DEF Refresh
<1>4. Restart => TodoIsOffered'
  BY DEF Restart, Resting, TodoIsOffered
<1>5. ASSUME (\E e \in Editors : Edit(e)) \/ (\E g \in Readers : Look(g))
             \/ (\E k \in Keys : Discover(k)) \/ UNCHANGED vars
      PROVE  fetch' = fetch
  BY <1>5 DEF Edit, PutModel, DeletePrice, PutPrice, PutFails, FinishEdit, Look, Miss, ReadStore, Fill,
         Discover, vars
<1> QED
  BY <1>2, <1>3, <1>4, <1>5 DEF Next

Excused(k) == Fresh(k) \/ Announced(k) \/ k \in missed

\* A step that leaves k's row and its cached copy alone, and no writer of it
\* forgotten, keeps the account.
LEMMA ExcusedFrame ==
  ASSUME NEW k \in Keys, Excused(k), models'[k] = models[k], prices'[k] = prices[k],
         cache'[k] = cache[k], Announced(k) => Announced(k)', k \in missed => k \in missed'
  PROVE  Excused(k)'
BY DEF Excused, Fresh, Row

LEMMA ExcusedEdit ==
  ASSUME TypeOK, NEW e \in Editors, Edit(e), NEW k \in Keys, Excused(k)
  PROVE  Excused(k)'
<1>1. /\ models \in [Keys -> ModelRows \cup {Absent}]
      /\ prices \in [Keys -> Sources \cup {Absent}]
      /\ edit \in [Editors -> EditType]
      /\ BlankRow("seed") \in ModelRows /\ "user" \in Sources
  BY BlankRowType DEF TypeOK, Sources
<1>2. ASSUME NEW j \in Keys, PutModel(e, j) PROVE Excused(k)'
  <2>1. /\ edit[e].phase = "idle" /\ edit'[e] = [phase |-> "pricing", key |-> j]
        /\ \A f \in Editors : f # e => edit'[f] = edit[f]
        /\ prices' = prices /\ cache' = cache /\ fetch' = fetch /\ missed' = missed
    BY <1>1, <1>2 DEF PutModel
  <2>2. Announced(k) \/ k = j => Announced(k)'
    BY <2>1 DEF Announced
  <2>3. k # j => models'[k] = models[k]
    BY <1>1, <1>2, UpsertModelResult DEF PutModel
  <2> QED
    BY <2>1, <2>2, <2>3, ExcusedFrame DEF Excused
<1>3. ASSUME NEW j \in Keys, DeletePrice(e, j) PROVE Excused(k)'
  <2>1. /\ edit[e].phase = "idle" /\ edit'[e] = [phase |-> "invalidating", key |-> j]
        /\ \A f \in Editors : f # e => edit'[f] = edit[f]
        /\ models' = models /\ cache' = cache /\ fetch' = fetch /\ missed' = missed
        /\ k # j => prices'[k] = prices[k]
    BY <1>1, <1>3 DEF DeletePrice
  <2>2. Announced(k) \/ k = j => Announced(k)'
    BY <2>1 DEF Announced
  <2> QED
    BY <2>1, <2>2, ExcusedFrame DEF Excused
<1>4. CASE PutPrice(e)
  <2>1. /\ edit[e].phase = "pricing" /\ edit'[e].phase = "invalidating"
        /\ edit'[e].key = edit[e].key
        /\ \A f \in Editors : f # e => edit'[f] = edit[f]
        /\ models' = models /\ cache' = cache /\ fetch' = fetch /\ missed' = missed
    BY <1>1, <1>4 DEF PutPrice, EditType
  <2>2. Announced(k) \/ k = edit[e].key => Announced(k)'
    BY <2>1 DEF Announced
  <2>3. k # edit[e].key => prices'[k] = prices[k]
    BY <1>1, <1>4, UpsertPricesResult DEF PutPrice
  <2> QED
    BY <2>1, <2>2, <2>3, ExcusedFrame DEF Excused
<1>5. CASE PutFails(e)
  <2>1. /\ \A f \in Editors : f # e => edit'[f] = edit[f]
        /\ models' = models /\ prices' = prices /\ cache' = cache /\ fetch' = fetch
        /\ missed' = missed \cup {edit[e].key}
    BY <1>1, <1>5 DEF PutFails, tables
  <2>2. k # edit[e].key /\ Announced(k) => Announced(k)'
    BY <2>1 DEF Announced
  <2> QED
    BY <2>1, <2>2, ExcusedFrame DEF Excused
<1>6. CASE FinishEdit(e)
  BY <1>6 DEF FinishEdit, Invalidate, NothingCached, Excused, Fresh
<1> QED
  BY <1>2, <1>3, <1>4, <1>5, <1>6 DEF Edit

LEMMA ExcusedRefresh ==
  ASSUME TypeOK, FetchInv, TodoIsOffered, Refresh, NEW k \in Keys, Excused(k)
  PROVE  Excused(k)'
<1>1. /\ models \in [Keys -> ModelRows \cup {Absent}]
      /\ prices \in [Keys -> Sources \cup {Absent}]
      /\ fetch \in FetchType
      /\ BlankRow("openrouter") \in ModelRows /\ "openrouter" \in Sources
  BY BlankRowType DEF TypeOK, Sources
<1>2. CASE FinishFetch
  BY <1>2 DEF FinishFetch, Invalidate, NothingCached, Excused, Fresh
<1>3. ASSUME ~ FinishFetch
      PROVE  /\ cache' = cache /\ edit' = edit /\ missed' = missed
             /\ Fresh(k) /\ models'[k] = models[k] /\ prices'[k] = prices[k] => Fresh(k)'
  BY <1>3 DEF Refresh, FetchPrices, WriteModel, WriteFails, ResolveMirrors, WritePrices, Fresh, Row
<1>4. ASSUME NEW S \in SUBSET Routed, FetchPrices(S) PROVE Excused(k)'
  BY <1>3, <1>4, ExcusedFrame DEF FetchPrices, FinishFetch, Announced, Excused, tables
<1>5. ASSUME NEW j \in Keys, WriteModel(j) PROVE Excused(k)'
  <2>1. /\ fetch'.phase = "modelling" /\ fetch.phase = "modelling" /\ fetch'.offered = fetch.offered
        /\ fetch'.todo = fetch.todo \ {j} /\ j \in fetch.offered /\ prices' = prices
        /\ cache' = cache /\ edit' = edit /\ missed' = missed
    BY <1>1, <1>5 DEF WriteModel, FetchType, TodoIsOffered
  <2>2. Announced(k) \/ k = j => Announced(k)'
    BY <2>1 DEF Announced
  <2>3. k # j => models'[k] = models[k]
    BY <1>1, <1>5, UpsertModelResult DEF WriteModel
  <2> QED
    BY <2>1, <2>2, <2>3, ExcusedFrame DEF Excused
<1>6. CASE WriteFails
  <2>1. /\ fetch.phase \in {"modelling", "pricing"}
        /\ \/ fetch.todo = fetch.offered
           \/ /\ fetch'.phase = "invalidating" /\ fetch'.offered = fetch.offered
              /\ fetch'.todo = fetch.todo
        /\ UNCHANGED <<models, prices, cache, edit, missed>>
    BY <1>1, <1>6 DEF WriteFails, FetchType, tables
  <2>2. Announced(k) => Announced(k)'
    BY <2>1 DEF Announced
  <2> QED
    BY <2>1, <2>2, ExcusedFrame
<1>7. CASE ResolveMirrors
  <2>1. /\ fetch.phase = "modelling" /\ fetch'.phase = "pricing"
        /\ fetch'.offered = fetch.offered /\ fetch'.todo = fetch.todo
        /\ UNCHANGED <<models, prices, cache, edit, missed>>
    BY <1>1, <1>7 DEF ResolveMirrors, FetchType, tables
  <2>2. Announced(k) => Announced(k)'
    BY <2>1 DEF Announced
  <2> QED
    BY <2>1, <2>2, ExcusedFrame
<1>8. CASE WritePrices
  <2>1. /\ fetch.phase = "pricing" /\ fetch.todo = {} /\ fetch'.phase = "invalidating"
        /\ fetch'.offered = fetch.offered /\ fetch'.todo = {} /\ fetch'.resolved = fetch.resolved
        /\ UNCHANGED <<models, cache, edit, missed>>
    BY <1>1, <1>8 DEF WritePrices, FetchType, FetchInv
  <2>2. Announced(k) \/ k \in fetch.offered \cup fetch.resolved => Announced(k)'
    BY <2>1 DEF Announced
  <2>3. k \notin fetch.offered \cup fetch.resolved => prices'[k] = prices[k]
    BY <1>1, <1>8, UpsertPricesResult DEF WritePrices
  <2> QED
    BY <2>1, <2>2, <2>3, ExcusedFrame DEF Excused
<1> QED
  BY <1>2, <1>4, <1>5, <1>6, <1>7, <1>8 DEF Refresh

LEMMA ExcusedOther ==
  ASSUME TypeOK, NEW k \in Keys, Excused(k),
         (\E g \in Readers : Look(g)) \/ (\E j \in Keys : Discover(j)) \/ Restart \/ UNCHANGED vars
  PROVE  Excused(k)'
<1>1. ASSUME NEW g \in Readers, Look(g) PROVE Excused(k)'
  <2>1. UNCHANGED <<models, prices, edit, fetch>> /\ (Announced(k) => Announced(k)')
    BY <1>1 DEF Look, Miss, ReadStore, Fill, tables, Announced
  <2>2. CASE cache' = cache /\ missed' = missed
    BY <2>1, <2>2, ExcusedFrame
  <2>3. CASE Fill(g)
    <3>1. CASE k = lookup[g].key
      <4>1. cache'[k] = lookup[g].row
        BY <2>3, <3>1 DEF Fill, TypeOK
      <4>2. lookup[g].row # Row(k) => k \in missed'
        BY <2>3, <3>1 DEF Fill
      <4>3. Row(k)' = Row(k)
        BY <2>1 DEF Row
      <4> QED
        BY <4>1, <4>2, <4>3 DEF Excused, Fresh
    <3>2. CASE k # lookup[g].key
      <4>1. cache'[k] = cache[k] /\ (k \in missed => k \in missed')
        BY <2>3, <3>2 DEF Fill, TypeOK
      <4> QED
        BY <2>1, <4>1, ExcusedFrame
    <3> QED
      BY <3>1, <3>2
  <2> QED
    BY <1>1, <2>2, <2>3 DEF Look, Miss, ReadStore
<1>2. ASSUME NEW j \in Keys, Discover(j) PROVE Excused(k)'
  <2>1. [source |-> "discovery", content |-> "listed"] \in ModelRows
    BY DEF ModelRows, Sources, Contents
  <2>2. /\ UNCHANGED <<prices, cache, edit, fetch>> /\ missed' = missed \cup {j}
        /\ k # j => models'[k] = models[k]
    BY <1>2, <2>1, UpsertModelResult DEF Discover, TypeOK
  <2>3. Announced(k) => Announced(k)'
    BY <2>2 DEF Announced
  <2> QED
    BY <2>2, <2>3, ExcusedFrame DEF Excused
<1>3. Restart => Excused(k)'
  BY DEF Restart, NothingCached, Excused, Fresh
<1>4. UNCHANGED vars => Excused(k)'
  <2> SUFFICES ASSUME UNCHANGED vars PROVE Excused(k)'
    OBVIOUS
  <2>1. Announced(k) => Announced(k)'
    BY DEF vars, Announced
  <2> QED
    BY <2>1, ExcusedFrame DEF vars
<1> QED
  BY <1>1, <1>2, <1>3, <1>4

\* However lookups, writers and invalidations interleave, a cached row is out
\* of date only before its writer's invalidation or after one of the named
\* ways of missing it.
THEOREM StaleIsAccountedForHolds == Spec => []StaleIsAccountedFor
<1>1. Init => TodoIsOffered /\ StaleIsAccountedFor
  BY DEF Init, Resting, TodoIsOffered, StaleIsAccountedFor, Fresh, NothingCached
<1>2. TypeOK /\ ForeignKeyInv /\ TodoIsOffered /\ StaleIsAccountedFor /\ [Next]_vars
        => TodoIsOffered' /\ StaleIsAccountedFor'
  <2> SUFFICES ASSUME TypeOK, ForeignKeyInv, TodoIsOffered, StaleIsAccountedFor, [Next]_vars
               PROVE  TodoIsOffered' /\ StaleIsAccountedFor'
    OBVIOUS
  <2>1. FetchInv /\ \A k \in Keys : Excused(k)
    BY DEF ForeignKeyInv, StaleIsAccountedFor, Excused
  <2>2. ASSUME NEW k \in Keys PROVE Excused(k)'
    BY <2>1, ExcusedEdit, ExcusedRefresh, ExcusedOther DEF Next
  <2> QED
    BY <2>2, TodoStep DEF StaleIsAccountedFor, Excused
<1> QED
  BY <1>1, <1>2, CatalogTypes, ForeignKeyInvariance, PTL DEF Spec

-----------------------------------------------------------------------------
(* Discovery: the row of a provider stays of one piece, although runs that *)
(* overlap write back what they read before each other's writes.           *)

\* What a row that is of one piece says, and that rows are carried about only
\* as they were in the store.
Agrees(m) ==
  /\ m.step = 0 <=> m.next = "zero"
  /\ m.step > 0 <=> m.note = "failed"

BackoffInv ==
  /\ DiscoveryTypeOK
  /\ \A p \in Providers : Agrees(meta[p])
  /\ \A g \in Goroutines : call[g].phase = "writing" => Agrees(call[g].copy)

\* The rows the seed writes are of one piece.
LEMMA InitAgrees == DiscoveryInit => BackoffInv
<1> SUFFICES ASSUME DiscoveryInit PROVE BackoffInv
  OBVIOUS
<1>1. DiscoveryTypeOK
  BY DiscoveryAssumption DEF DiscoveryInit, DiscoveryTypeOK, Meta, Call, NoCall, Goroutines
<1>2. ASSUME NEW p \in Providers PROVE Agrees(meta[p])
  BY DEF DiscoveryInit, Agrees
<1>3. ASSUME NEW g \in Goroutines PROVE call[g].phase # "writing"
  BY DEF DiscoveryInit, NoCall
<1> QED
  BY <1>1, <1>2, <1>3 DEF BackoffInv

\* The shapes of a call.
LEMMA CallShapes ==
  /\ NoCall \in Call
  /\ \A p \in Providers, b \in BOOLEAN, f \in {"gating", "listing", "upserting", "stamping"} :
       Entering(f, p, b) \in Call
  /\ \A c \in Call :
       /\ c.phase # "writing" => c.phase \in {"idle", "gating", "listing", "upserting", "stamping", "reading"}
       /\ c.phase # "idle" => c.provider \in Providers /\ c.on404 \in BOOLEAN
       /\ c.phase \in {"reading", "writing"} => c.note \in {"none", "empty", "failed"}
       /\ c.phase = "writing" => c.copy \in Meta
  BY DEF Call, NoCall, Entering

\* A run that returns is over, or stamps.
LEMMA ReturnedShape ==
  ASSUME NEW c \in Call, c.phase # "idle"
  PROVE  Returned(c) \in Call /\ Returned(c).phase \in {"idle", "stamping"}
  BY CallShapes DEF Returned, Call, NoCall, Entering

\* A run that has ended records how.
LEMMA RecordingShape ==
  ASSUME NEW c \in Call, c.phase # "idle", NEW note \in {"none", "empty", "failed"}
  PROVE  Recording(c, note) \in Call /\ Recording(c, note).phase = "reading"
  BY CallShapes DEF Recording, Call

\* recordError and recordSuccess leave a row of one piece, whatever they read.
LEMMA RecordedAgrees ==
  ASSUME NEW m \in Meta, NEW note \in {"none", "empty", "failed"}
  PROVE  Recorded(m, note) \in Meta /\ Agrees(Recorded(m, note))
<1>1. m.step \in 0 .. MaxStep
  BY DEF Meta
<1>2. Longer(m.step) \in 1 .. MaxStep
  BY <1>1, DiscoveryAssumption DEF Longer
<1>3. CASE note = "failed"
  BY <1>2, <1>3, DiscoveryAssumption DEF Recorded, Meta, Agrees
<1>4. CASE note # "failed"
  BY <1>4, DiscoveryAssumption DEF Recorded, Meta, Agrees
<1> QED
  BY <1>3, <1>4

\* A step that gives one goroutine another call and leaves the rows alone.
LEMMA OtherCall ==
  ASSUME BackoffInv, NEW g \in Goroutines, NEW c \in Call,
         c.phase = "writing" => Agrees(c.copy),
         Go(g, c), UNCHANGED meta, recent' \in SUBSET Providers, todo' \in SUBSET Providers
  PROVE  BackoffInv'
<1>1. DiscoveryTypeOK'
  BY DEF BackoffInv, DiscoveryTypeOK, Go
<1>2. ASSUME NEW h \in Goroutines, call'[h].phase = "writing" PROVE Agrees(call'[h].copy)
  BY <1>2 DEF BackoffInv, DiscoveryTypeOK, Go
<1> QED
  BY <1>1, <1>2 DEF BackoffInv, Agrees

\* Every step keeps the rows of one piece, also those in the runs' hands.
LEMMA StepAgrees == BackoffInv /\ [DiscoveryNext]_discoveryVars => BackoffInv'
<1> SUFFICES ASSUME BackoffInv, [DiscoveryNext]_discoveryVars PROVE BackoffInv'
  OBVIOUS
<1>t. /\ meta \in [Providers -> Meta] /\ recent \in SUBSET Providers
      /\ todo \in SUBSET Providers /\ call \in [Goroutines -> Call]
  BY DEF BackoffInv, DiscoveryTypeOK
<1>s. Sweeper \in Goroutines /\ Triggers \subseteq Goroutines
  BY DEF Goroutines
<1>n. NoCall \in Call /\ NoCall.phase = "idle"
  BY CallShapes DEF NoCall
<1>e. ASSUME NEW p \in Providers, NEW b \in BOOLEAN,
             NEW f \in {"gating", "listing", "upserting", "stamping"}
      PROVE  Entering(f, p, b) \in Call /\ Entering(f, p, b).phase # "writing"
  BY CallShapes DEF Entering
<1>1. ASSUME NEW g \in Goroutines, Gate(g) PROVE BackoffInv'
  <2>1. call[g] \in Call /\ call[g].phase = "gating"
    BY <1>1, <1>t DEF Gate, In
  <2>2. [call[g] EXCEPT !.phase = "listing"] \in Call
    BY <2>1 DEF Call, NoCall
  <2>3. [call[g] EXCEPT !.phase = "listing"].phase = "listing"
    BY <2>1 DEF Call, NoCall
  <2> QED
    BY <1>1, <2>2, <2>3, <1>n, <1>t, OtherCall DEF Gate
<1>2. ASSUME NEW g \in Goroutines, List(g) PROVE BackoffInv'
  <2>1. call[g] \in Call /\ call[g].phase = "listing"
    BY <1>2, <1>t DEF List, In
  <2>2. /\ [call[g] EXCEPT !.phase = "upserting"] \in Call
        /\ [call[g] EXCEPT !.phase = "upserting"].phase = "upserting"
    BY <2>1 DEF Call, NoCall
  <2> QED
    BY <1>2, <2>1, <2>2, <1>t, OtherCall, RecordingShape, ReturnedShape DEF List
<1>3. ASSUME NEW g \in Goroutines, Upsert(g) PROVE BackoffInv'
  <2>1. call[g] \in Call /\ call[g].phase = "upserting"
    BY <1>3, <1>t DEF Upsert, In
  <2> QED
    BY <1>3, <2>1, <1>t, OtherCall, RecordingShape DEF Upsert
<1>4. ASSUME NEW g \in Goroutines, ReadMeta(g) PROVE BackoffInv'
  <2>1. call[g] \in Call /\ call[g].phase = "reading"
    BY <1>4, <1>t DEF ReadMeta, In
  <2> DEFINE c == [phase |-> "writing", provider |-> call[g].provider, on404 |-> call[g].on404,
                   note |-> call[g].note, copy |-> meta[call[g].provider]]
  <2>2. call[g].provider \in Providers /\ call[g].on404 \in BOOLEAN /\ call[g].note \in {"none", "empty", "failed"}
    BY <2>1, CallShapes
  <2>3. c \in Call
    BY <2>2, <1>t DEF Call
  <2>4. Agrees(c.copy)
    BY <2>2 DEF BackoffInv
  <2>5. Returned(call[g]) \in Call /\ Returned(call[g]).phase # "writing"
    BY <2>1, ReturnedShape
  <2>6. UNCHANGED <<meta, recent, todo>> /\ (Go(g, c) \/ Go(g, Returned(call[g])))
    BY <1>4 DEF ReadMeta
  <2> QED
    BY <2>3, <2>4, <2>5, <2>6, <1>t, OtherCall
<1>5. ASSUME NEW g \in Goroutines, WriteMeta(g) PROVE BackoffInv'
  <2>1. call[g] \in Call /\ call[g].phase = "writing"
    BY <1>5, <1>t DEF WriteMeta, In
  <2>2. /\ call[g].provider \in Providers /\ call[g].note \in {"none", "empty", "failed"} /\ call[g].copy \in Meta
    BY <2>1, CallShapes
  <2>3. Recorded(call[g].copy, call[g].note) \in Meta /\ Agrees(Recorded(call[g].copy, call[g].note))
    BY <2>2, RecordedAgrees
  <2>4. Returned(call[g]) \in Call /\ Returned(call[g]).phase # "writing"
    BY <2>1, ReturnedShape
  <2>5. meta' \in [Providers -> Meta] /\ \A p \in Providers : Agrees(meta'[p])
    <3>1. CASE meta' = [meta EXCEPT ![call[g].provider] = Recorded(call[g].copy, call[g].note)]
      BY <3>1, <2>2, <2>3, <1>t DEF BackoffInv
    <3>2. CASE UNCHANGED meta
      BY <3>2, <1>t DEF BackoffInv
    <3> QED
      BY <3>1, <3>2, <1>5 DEF WriteMeta
  <2>6. call' = [call EXCEPT ![g] = Returned(call[g])] /\ UNCHANGED <<recent, todo>>
    BY <1>5 DEF WriteMeta, Go
  <2>7. call' \in [Goroutines -> Call]
    BY <2>4, <2>6, <1>t
  <2>8. ASSUME NEW h \in Goroutines, call'[h].phase = "writing" PROVE Agrees(call'[h].copy)
    BY <2>4, <2>6, <2>8, <1>t DEF BackoffInv
  <2> QED
    BY <2>5, <2>6, <2>7, <2>8, <1>t DEF BackoffInv, DiscoveryTypeOK, Agrees
<1>6. ASSUME NEW g \in Goroutines, Stamp(g) PROVE BackoffInv'
  <2>1. call[g] \in Call /\ call[g].phase = "stamping"
    BY <1>6, <1>t DEF Stamp, In
  <2>2. call[g].provider \in Providers
    BY <2>1, CallShapes
  <2> QED
    BY <1>6, <2>2, <1>n, <1>t, OtherCall DEF Stamp
<1>7. ASSUME NEW g \in Triggers, NEW p \in Providers, NotFound(g, p) \/ Create(g, p) PROVE BackoffInv'
  BY <1>7, <1>e, <1>s, <1>t, OtherCall DEF NotFound, Create
<1>8. ASSUME BeginSweep PROVE BackoffInv'
  BY <1>8, <1>t DEF BeginSweep, BackoffInv, DiscoveryTypeOK, Agrees
<1>9. ASSUME NEW p \in Providers, SweepNext(p) PROVE BackoffInv'
  BY <1>9, <1>e, <1>s, <1>t, OtherCall DEF SweepNext
<1>10. ASSUME NEW p \in Providers, SweepPasses(p) PROVE BackoffInv'
  BY <1>10, <1>t DEF SweepPasses, BackoffInv, DiscoveryTypeOK, Agrees
<1>11. ASSUME NEW p \in Providers, BackoffEnds(p) PROVE BackoffInv'
  <2>1. meta' = [meta EXCEPT ![p].next = "past"] /\ UNCHANGED <<recent, todo, call>> /\ meta[p].next = "ahead"
    BY <1>11 DEF BackoffEnds
  <2>2. meta[p] \in Meta /\ Agrees(meta[p])
    BY <1>t DEF BackoffInv
  <2>3. [meta[p] EXCEPT !.next = "past"] \in Meta /\ Agrees([meta[p] EXCEPT !.next = "past"])
    BY <2>1, <2>2 DEF Meta, Agrees
  <2>4. meta' \in [Providers -> Meta] /\ \A q \in Providers : Agrees(meta'[q])
    BY <2>1, <2>3, <1>t DEF BackoffInv
  <2> QED
    BY <2>1, <2>4, <1>t DEF BackoffInv, DiscoveryTypeOK, Agrees
<1>12. ASSUME NEW p \in Providers, DebounceEnds(p) PROVE BackoffInv'
  BY <1>12, <1>t DEF DebounceEnds, BackoffInv, DiscoveryTypeOK, Agrees
<1>13. ASSUME DiscoveryRestart PROVE BackoffInv'
  BY <1>13, <1>t, <1>n DEF DiscoveryRestart, BackoffInv, DiscoveryTypeOK, Agrees
<1>14. ASSUME UNCHANGED discoveryVars PROVE BackoffInv'
  BY <1>14, <1>t DEF discoveryVars, BackoffInv, DiscoveryTypeOK, Agrees
<1> QED
  BY <1>1, <1>2, <1>3, <1>4, <1>5, <1>6, <1>7, <1>8, <1>9, <1>10, <1>11, <1>12, <1>13, <1>14
  DEF DiscoveryNext, Run

\* The invariant that carries the theorem: rows agree in the store and in the
\* hands of the runs that are about to write.
THEOREM BackoffInvariant == DiscoverySpec => []BackoffInv
  BY InitAgrees, StepAgrees, PTL DEF DiscoverySpec

\* The counter, the deadline and the diagnosis of every provider agree at all
\* times (recordError, recordSuccess), for any providers, runs and schedule.
THEOREM BackoffAgreesHolds == DiscoverySpec => []BackoffAgrees
<1>1. BackoffInv => BackoffAgrees
  BY DEF BackoffInv, BackoffAgrees, Agrees
<1> QED
  BY <1>1, BackoffInvariant, PTL
=============================================================================
