------------------------------ MODULE Discovery -----------------------------
(***************************************************************************)
(* The control of model discovery (internal/catalog/discovery.go and       *)
(* refresh.go, and its triggers in server/routes_api.go): a sweep every    *)
(* day, a run when a connection is created, and a run when an upstream     *)
(* does not know a model. Runs of the same provider may overlap. The       *)
(* backoff after a failure is in the provider's row and survives restarts, *)
(* the five-minute debounce of the last trigger is in memory. What a run   *)
(* writes to the catalog is Discover in module Catalog; the proofs take    *)
(* both modules together, so no name of one is a name of the other.        *)
(***************************************************************************)
EXTENDS Naturals

CONSTANTS
  Providers,
  Enabled,      \* the providers with discovery_enabled
  Triggers,     \* goroutines of connection creations and upstream 404s
  Sweeper,      \* the goroutine of the daily sweep
  MaxStep,      \* Len(backoffSchedule), 5 in the code
  MetaFails,    \* whether reading or writing a row may fail
  MayRestart

ASSUME DiscoveryAssumption ==
  /\ Enabled \subseteq Providers
  /\ Sweeper \notin Triggers
  /\ MaxStep \in Nat \ {0}
  /\ MetaFails \in BOOLEAN /\ MayRestart \in BOOLEAN

VARIABLES
  meta,     \* meta[p]: the row of catalog_provider_meta
  recent,   \* providers whose debounce stamp is younger than five minutes
  todo,     \* what the sweep in progress has yet to visit
  call      \* call[g]: the DiscoverProvider that g is in

discoveryVars == <<meta, recent, todo, call>>

Goroutines == Triggers \cup {Sweeper}

\* next: nextDiscoveryAfter is zero, ahead, or past; note: the last diagnosis.
Meta == [step : 0 .. MaxStep, next : {"zero", "ahead", "past"}, note : {"none", "empty", "failed"}]

NoCall == [phase |-> "idle"]

\* gating: past the debounce; copy: the row read before it is written back.
Call ==
  {NoCall}
  \cup [phase : {"gating", "listing", "upserting", "stamping"}, provider : Providers, on404 : BOOLEAN]
  \cup [phase : {"reading"}, provider : Providers, on404 : BOOLEAN, note : {"none", "empty", "failed"}]
  \cup [phase : {"writing"}, provider : Providers, on404 : BOOLEAN, note : {"none", "empty", "failed"},
        copy : Meta]

DiscoveryTypeOK ==
  /\ meta \in [Providers -> Meta]
  /\ recent \in SUBSET Providers
  /\ todo \in SUBSET Providers
  /\ call \in [Goroutines -> Call]

\* SeedProviderMeta.
DiscoveryInit ==
  /\ meta = [p \in Providers |-> [step |-> 0, next |-> "zero", note |-> "none"]]
  /\ recent = {}
  /\ todo = {}
  /\ call = [g \in Goroutines |-> NoCall]

In(g, phase) == call[g].phase = phase
Go(g, c) == call' = [call EXCEPT ![g] = c]
Entering(phase, p, on404) == [phase |-> phase, provider |-> p, on404 |-> on404]

-----------------------------------------------------------------------------
(* The triggers and their gates.                                           *)

\* Mutant: a deadline that has passed still blocks.
ShouldRun_OnlyIfZero(p) == p \in Enabled /\ meta[p].next = "zero"

ShouldRun(p) == p \in Enabled /\ meta[p].next # "ahead"

\* An upstream answers 404. The debounce map is looked at under the mutex,
\* which is given up again; with a fresh stamp the call returns at once.
NotFound(g, p) ==
  /\ g \in Triggers /\ In(g, "idle") /\ p \notin recent
  /\ Go(g, Entering("gating", p, TRUE))
  /\ UNCHANGED <<meta, recent, todo>>

Gate(g) ==
  /\ In(g, "gating")
  /\ \/ ShouldRun(call[g].provider) /\ Go(g, [call[g] EXCEPT !.phase = "listing"])
     \/ (~ ShouldRun(call[g].provider) \/ MetaFails) /\ Go(g, NoCall)
  /\ UNCHANGED <<meta, recent, todo>>

\* A connection is created: discovery runs whatever the backoff says.
Create(g, p) ==
  /\ g \in Triggers /\ In(g, "idle") /\ p \in Enabled
  /\ Go(g, Entering("listing", p, FALSE))
  /\ UNCHANGED <<meta, recent, todo>>

\* DiscoverAll decides on one snapshot of the rows.
BeginSweep ==
  /\ In(Sweeper, "idle") /\ todo = {}
  /\ todo' = {p \in Providers : ShouldRun(p)}
  /\ UNCHANGED <<meta, recent, call>>

\* A provider without a usable connection is passed over.
SweepNext(p) ==
  /\ In(Sweeper, "idle") /\ p \in todo
  /\ todo' = todo \ {p}
  /\ Go(Sweeper, Entering("listing", p, FALSE))
  /\ UNCHANGED <<meta, recent>>

SweepPasses(p) ==
  /\ In(Sweeper, "idle") /\ p \in todo
  /\ todo' = todo \ {p}
  /\ UNCHANGED <<meta, recent, call>>

-----------------------------------------------------------------------------
(* DiscoverProvider.                                                       *)

\* A 404 run is stamped when it returns, however it went.
Returned(c) == IF c.on404 THEN Entering("stamping", c.provider, TRUE) ELSE NoCall

Recording(c, note) ==
  [phase |-> "reading", provider |-> c.provider, on404 |-> c.on404, note |-> note]

\* The lister answers, with models, with none, with an error, or with
\* ErrDiscoveryUnsupported, which leaves the row alone.
List(g) ==
  /\ In(g, "listing")
  /\ \/ Go(g, [call[g] EXCEPT !.phase = "upserting"])
     \/ Go(g, Recording(call[g], "empty"))
     \/ Go(g, Recording(call[g], "failed"))
     \/ Go(g, Returned(call[g]))
  /\ UNCHANGED <<meta, recent, todo>>

\* The first upsert that fails ends the run as failed.
Upsert(g) ==
  /\ In(g, "upserting")
  /\ \/ Go(g, Recording(call[g], "none"))
     \/ MetaFails /\ Go(g, Recording(call[g], "failed"))
  /\ UNCHANGED <<meta, recent, todo>>

Longer(step) == IF step < MaxStep THEN step + 1 ELSE step

\* Mutant: a successful run clears the counter and not the deadline.
Recorded_KeepsDeadline(m, note) ==
  IF note = "failed" THEN [step |-> Longer(m.step), next |-> "ahead", note |-> note]
  ELSE [m EXCEPT !.step = 0, !.note = note]

\* recordError and recordSuccess.
Recorded(m, note) ==
  IF note = "failed" THEN [step |-> Longer(m.step), next |-> "ahead", note |-> note]
  ELSE [step |-> 0, next |-> "zero", note |-> note]

ReadMeta(g) ==
  /\ In(g, "reading")
  /\ \/ Go(g, [phase |-> "writing", provider |-> call[g].provider, on404 |-> call[g].on404,
               note |-> call[g].note, copy |-> meta[call[g].provider]])
     \/ MetaFails /\ Go(g, Returned(call[g]))
  /\ UNCHANGED <<meta, recent, todo>>

WriteMeta(g) ==
  /\ In(g, "writing")
  /\ \/ meta' = [meta EXCEPT ![call[g].provider] = Recorded(call[g].copy, call[g].note)]
     \/ MetaFails /\ UNCHANGED meta
  /\ Go(g, Returned(call[g]))
  /\ UNCHANGED <<recent, todo>>

Stamp(g) ==
  /\ In(g, "stamping")
  /\ recent' = recent \cup {call[g].provider}
  /\ Go(g, NoCall)
  /\ UNCHANGED <<meta, todo>>

-----------------------------------------------------------------------------
(* Time and restarts.                                                      *)

BackoffEnds(p) ==
  /\ meta[p].next = "ahead"
  /\ meta' = [meta EXCEPT ![p].next = "past"]
  /\ UNCHANGED <<recent, todo, call>>

DebounceEnds(p) ==
  /\ p \in recent
  /\ recent' = recent \ {p}
  /\ UNCHANGED <<meta, todo, call>>

DiscoveryRestart ==
  /\ MayRestart
  /\ recent' = {}
  /\ todo' = {}
  /\ call' = [g \in Goroutines |-> NoCall]
  /\ UNCHANGED meta

Run(g) == Gate(g) \/ List(g) \/ Upsert(g) \/ ReadMeta(g) \/ WriteMeta(g) \/ Stamp(g)

DiscoveryNext ==
  \/ \E g \in Goroutines : Run(g)
  \/ \E g \in Triggers, p \in Providers : NotFound(g, p) \/ Create(g, p)
  \/ BeginSweep \/ \E p \in Providers : SweepNext(p) \/ SweepPasses(p)
  \/ \E p \in Providers : BackoffEnds(p) \/ DebounceEnds(p)
  \/ DiscoveryRestart

DiscoverySpec == DiscoveryInit /\ [][DiscoveryNext]_discoveryVars

\* Every goroutine runs on and every call has a timeout; deadlines pass; the
\* daily ticker fires; and a provider that is due at one sweep after another
\* has a usable connection at one of them. Nobody has to create connections
\* or meet an unknown model.
Fairness ==
  /\ \A g \in Goroutines : WF_discoveryVars(Run(g))
  /\ WF_discoveryVars(BeginSweep)
  /\ WF_discoveryVars(\E p \in Providers : SweepNext(p) \/ SweepPasses(p))
  /\ \A p \in Providers : WF_discoveryVars(BackoffEnds(p)) /\ SF_discoveryVars(SweepNext(p))

FairDiscoverySpec == DiscoverySpec /\ Fairness

-----------------------------------------------------------------------------
(* Properties.                                                             *)

\* The counter, the deadline and the diagnosis of a provider agree, although
\* overlapping runs write back rows they read before each other's writes: a
\* provider has a deadline if and only if its last recorded run failed.
BackoffAgrees ==
  \A p \in Providers :
    /\ meta[p].step = 0 <=> meta[p].next = "zero"
    /\ meta[p].step > 0 <=> meta[p].note = "failed"

\* A provider that is backed off is listed again, by the sweep if by nothing
\* else: no chain of failures silences it for ever.
Listing(g, p) == In(g, "listing") /\ call[g].provider = p
DiscoveryResumes ==
  \A p \in Enabled : meta[p].next = "ahead" ~> \E g \in Goroutines : Listing(g, p)

=============================================================================
