------------------------------ MODULE Metering ------------------------------
(***************************************************************************)
(* Who may send a request and what the program keeps of it: the admission  *)
(* part of handleChatCompletions with the limiter and the monthly budget,  *)
(* trackUsage, the usage tracker's queue and worker (internal/usage), the  *)
(* usage rows of the store, the recomputation of their costs, and the      *)
(* shutdown of the server.  One minute is Minute ticks and one month       *)
(* MonthLength of them.                                                    *)
(*                                                                         *)
(* A request is served for one unit of tokens, so its cost is the price of *)
(* the model, 0 when the catalog has none.  What happens between admission *)
(* and the call of trackUsage is RequestPath's and Exchange's matter: here *)
(* a running request may be tracked or may end without.                    *)
(***************************************************************************)
EXTENDS RateLimiter, SequencesExt

CONSTANTS
  Requests,        \* numbered in the order they arrive in
  NoKey,           \* the request carries no key
  Subscription,    \* connections paid by a subscription
  Metered,         \* connections paid by API key
  Prices,
  Budget,          \* monthly budget of the keys, with the hard limit set; 0 is none
  MonthLength,
  BufferSize,      \* of the tracker's channel, 1000 in the code
  BatchSize,       \* entries that are written together, 50 in the code
  MaxEvents        \* bound of restarts, edits and refused writes in TLC's runs

ASSUME MeteringAssumption ==
  /\ Requests \subseteq Nat /\ NoKey \notin Keys /\ Subscription \cap Metered = {}
  /\ Prices \subseteq Nat /\ Budget \in Nat /\ MonthLength \in Nat \ {0}
  /\ BufferSize \in Nat \ {0} /\ BatchSize \in Nat \ {0}

Conns == Subscription \cup Metered

VARIABLES
  keys,        \* the rows of api_keys: their limits, for the keys there are
  registered,  \* connections the selector knows
  price,       \* what the catalog's price of the model is
  request,     \* request[q]: the handler that serves q
  buffer,      \* the tracker's channel
  batch,       \* the worker's batch, the part not yet written
  worker,      \* what the worker is at
  server,      \* serving, draining, closing (the tracker), stopped
  timedOut,    \* the drain was given up
  usageLog,    \* rows of usage_log
  lost,        \* history: entries that will not be rows, and why
  unseen,      \* unseen[k]: requests under way when k was last admitted
  recompute,   \* rows a recomputation still has to look at, with the cost it read
  events       \* restarts, edits and refused writes so far

tracker == <<buffer, batch, worker>>
settings == <<keys, registered, price>>
history == <<lost, unseen>>
process == <<server, timedOut>>
vars == <<now, limiter, settings, request, tracker, process, usageLog, history, recompute, events>>

Month(t) == t \div MonthLength
UnderWay == {"running", "writing"}
Entry == [cost : Nat, source : {"apikey", "subscription"}]
NoEntry == [cost |-> 0, source |-> "apikey"]
Row == [cost : Nat, source : {"apikey", "subscription"}, month : Nat, repriced : BOOLEAN]
IsPartial(f, S, T) == DOMAIN f \subseteq S /\ \A x \in DOMAIN f : f[x] \in T

TypeOK ==
  /\ LimiterTypeOK
  /\ IsPartial(keys, Keys, Limits)
  /\ registered \subseteq Conns /\ price \in Prices
  /\ request \in [Requests -> [phase : {"idle", "running", "writing", "refused", "done", "gone"},
                               key : Keys \cup {NoKey}, conn : Conns, entry : Entry]]
  /\ buffer \in Seq(Requests) /\ Len(buffer) <= BufferSize
  /\ batch \in Seq(Requests)
  /\ worker \in {"waiting", "flushing", "draining", "stopped"}
  /\ server \in {"serving", "draining", "closing", "stopped"}
  /\ timedOut \in BOOLEAN
  /\ IsPartial(usageLog, Requests, Row)
  /\ IsPartial(lost, Requests, {"crash", "store", "late"})
  /\ IsPartial(recompute, Requests, Nat)

\* What TLC's runs count; the program does not.
Event == events < MaxEvents /\ events' = events + 1

AnyConn == CHOOSE c \in Conns : TRUE
NewRequest == [phase |-> "idle", key |-> NoKey, conn |-> AnyConn, entry |-> NoEntry]

ProcessStart ==
  /\ buffer = <<>> /\ batch = <<>> /\ worker = "waiting"
  /\ server = "serving" /\ timedOut = FALSE
  /\ recompute = <<>>

Init ==
  /\ LimiterInit /\ ProcessStart
  /\ \E limits \in [Keys -> Limits] : keys = limits
  /\ registered = Conns /\ price \in Prices
  /\ request = [q \in Requests |-> NewRequest]
  /\ usageLog = <<>> /\ lost = <<>>
  /\ unseen = [k \in Keys |-> {}]
  /\ events = 0

-----------------------------------------------------------------------------
(* Admission.                                                              *)

\* Extend a partial function by one pair, or override it there.
With(f, x, v) == [y \in DOMAIN f \cup {x} |-> IF y = x THEN v ELSE f[y]]
Without(f, x) == [y \in DOMAIN f \ {x} |-> f[y]]

\* GetMonthlySpend: the rows of this month, whenever their requests were made.
RowsOf(k) == {q \in DOMAIN usageLog : request[q].key = k /\ usageLog[q].month = Month(now)}
SumOfCosts(Q) == SumFunctionOnSet([q \in Q |-> usageLog[q].cost], Q)
MonthlySpend(k) == SumOfCosts(RowsOf(k))

\* Mutant: the budget itself may still be spent, and more.
WithinBudget_Off(k) == Budget = 0 \/ MonthlySpend(k) <= Budget

WithinBudget(k) == Budget = 0 \/ MonthlySpend(k) < Budget

\* While there are keys a request needs one of them; without any it must
\* not carry one.
Authentic(k) == IF DOMAIN keys = {} THEN k = NoKey ELSE k \in DOMAIN keys

Unwritten(k) == {q \in Requests : /\ request[q].key = k
                                  /\ request[q].phase \in UnderWay \cup {"done"}
                                  /\ q \notin DOMAIN usageLog \cup DOMAIN lost}

\* The limiter is asked before the budget: a request that is refused for
\* the budget has used up its place in the window.
Admitted(q, k) ==
  IF k = NoKey THEN UNCHANGED <<limiter, unseen>>
  ELSE /\ Allow(k, keys[k])
       /\ Admits(k, keys[k]) /\ WithinBudget(k)
       /\ unseen' = [unseen EXCEPT ![k] = Unwritten(k) \cup {q}]

Refused(k) ==
  /\ UNCHANGED unseen
  /\ IF ~Authentic(k) \/ k = NoKey THEN ~Authentic(k) /\ UNCHANGED limiter
     ELSE /\ Allow(k, keys[k])
          /\ ~(Admits(k, keys[k]) /\ WithinBudget(k))

Arrive(q, k) ==
  /\ server = "serving" /\ request[q].phase = "idle"
  /\ \A p \in Requests : p < q => request[p].phase # "idle"
  /\ \/ /\ Authentic(k) /\ Admitted(q, k)
        /\ \E c \in registered :
             request' = [request EXCEPT ![q] = [@ EXCEPT !.phase = "running", !.key = k, !.conn = c]]
     \/ /\ Refused(k)
        /\ request' = [request EXCEPT ![q].phase = "refused"]
  /\ UNCHANGED <<now, settings, tracker, process, usageLog, lost, recompute, events>>

\* The request fails, or its answer cannot be read: no usage is tracked.
EndUntracked(q) ==
  /\ request[q].phase = "running"
  /\ request' = [request EXCEPT ![q] = [NewRequest EXCEPT !.phase = "refused"]]
  /\ UNCHANGED <<now, limiter, settings, tracker, process, usageLog, history, recompute, events>>

-----------------------------------------------------------------------------
(* The tracker.                                                            *)

\* A connection that is gone by now counts as one paid by API key.
EntryOf(q) ==
  IF request[q].conn \in registered \cap Subscription
  THEN [cost |-> 0, source |-> "subscription"]
  ELSE [cost |-> price, source |-> "apikey"]

\* Record: onto the channel, or past it when it is full.  A send on the
\* closed channel panics, in this handler alone.
Track(q) ==
  /\ request[q].phase = "running"
  /\ \/ /\ worker \in {"waiting", "flushing"} /\ Len(buffer) < BufferSize
        /\ buffer' = Append(buffer, q)
        /\ request' = [request EXCEPT ![q] = [@ EXCEPT !.phase = "done", !.entry = EntryOf(q)]]
        /\ UNCHANGED lost
     \/ /\ worker \in {"waiting", "flushing"} /\ Len(buffer) = BufferSize
        /\ request' = [request EXCEPT ![q] = [@ EXCEPT !.phase = "writing", !.entry = EntryOf(q)]]
        /\ UNCHANGED <<buffer, lost>>
     \/ /\ worker \in {"draining", "stopped"}
        /\ request' = [request EXCEPT ![q].phase = "done"]
        /\ lost' = With(lost, q, "late")
        /\ UNCHANGED buffer
  /\ UNCHANGED <<now, limiter, settings, batch, worker, process, usageLog, unseen, recompute, events>>

\* RecordUsage stamps the row with the time of the write.  A write that
\* fails is logged and not tried again.
Write(q) ==
  \/ /\ server # "stopped"
     /\ usageLog' = With(usageLog, q, [cost |-> request[q].entry.cost, source |-> request[q].entry.source,
                               month |-> Month(now), repriced |-> FALSE])
     /\ UNCHANGED <<lost, events>>
  \/ /\ IF server = "stopped" THEN UNCHANGED events ELSE Event
     /\ lost' = With(lost, q, "store")
     /\ UNCHANGED usageLog

WriteThrough(q) ==
  /\ request[q].phase = "writing"
  /\ Write(q)
  /\ request' = [request EXCEPT ![q].phase = "done"]
  /\ UNCHANGED <<now, limiter, settings, tracker, process, unseen, recompute>>

\* The worker takes an entry off the channel.
Take ==
  /\ worker = "waiting" /\ buffer # <<>>
  /\ buffer' = Tail(buffer)
  /\ batch' = Append(batch, Head(buffer))
  /\ worker' = IF Len(batch') >= BatchSize THEN "flushing" ELSE "waiting"
  /\ UNCHANGED <<now, limiter, settings, request, process, usageLog, history, recompute, events>>

\* Mutant: the ticker writes full batches only.
FlushDue_Full == Len(batch) >= BatchSize

FlushDue == batch # <<>>

\* The ticker, every five seconds.
FlushTick ==
  /\ worker = "waiting" /\ FlushDue
  /\ worker' = "flushing"
  /\ UNCHANGED <<now, limiter, settings, request, buffer, batch, process, usageLog, history, recompute, events>>

FlushEntry ==
  /\ worker \in {"flushing", "draining"} /\ batch # <<>>
  /\ Write(Head(batch))
  /\ batch' = Tail(batch)
  /\ UNCHANGED <<now, limiter, settings, request, buffer, worker, process, unseen, recompute>>

FlushEnds ==
  /\ worker \in {"flushing", "draining"} /\ batch = <<>>
  /\ worker' = IF worker = "flushing" THEN "waiting" ELSE "stopped"
  /\ UNCHANGED <<now, limiter, settings, request, buffer, batch, process, usageLog, history, recompute, events>>

\* Mutant: what is still on the channel is left there.
Remaining_None == <<>>

Remaining == buffer

\* done is closed: the worker closes the channel and takes what is on it.
SeeDone ==
  /\ worker = "waiting" /\ server = "closing"
  /\ batch' = batch \o Remaining
  /\ buffer' = <<>>
  /\ worker' = "draining"
  /\ UNCHANGED <<now, limiter, settings, request, process, usageLog, history, recompute, events>>

TrackerStep == Take \/ FlushTick \/ FlushEntry \/ FlushEnds \/ SeeDone

-----------------------------------------------------------------------------
(* Shutdown, crash and restart.                                            *)

Shutdown ==
  /\ server = "serving" /\ server' = "draining"
  /\ UNCHANGED <<now, limiter, settings, request, tracker, timedOut, usageLog, history, recompute, events>>

Busy == {q \in Requests : request[q].phase \in UnderWay}

\* Mutant: the tracker is closed before the handlers have been waited for.
Drained_Early == TRUE

Drained == Busy = {}

\* The listener is closed and the handlers waited for, thirty seconds long.
CloseTracker ==
  /\ server = "draining"
  /\ \/ Drained /\ UNCHANGED timedOut
     \/ Busy # {} /\ timedOut' = TRUE
  /\ server' = "closing"
  /\ UNCHANGED <<now, limiter, settings, request, tracker, usageLog, history, recompute, events>>

CloseStore ==
  /\ server = "closing" /\ worker = "stopped"
  /\ server' = "stopped"
  /\ UNCHANGED <<now, limiter, settings, request, tracker, timedOut, usageLog, history, recompute, events>>

InMemory == ToSet(batch \o buffer) \cup {q \in Requests : request[q].phase = "writing"}

\* The process ends, at the end of Shutdown or at any other moment, and is
\* started again.
Restart ==
  /\ Event
  /\ request' = [q \in Requests |-> [request[q] EXCEPT !.phase = IF @ \in UnderWay THEN "gone" ELSE @]]
  /\ lost' = [q \in DOMAIN lost \cup InMemory |-> IF q \in InMemory THEN "crash" ELSE lost[q]]
  /\ buffer' = <<>> /\ batch' = <<>> /\ worker' = "waiting"
  /\ server' = "serving" /\ timedOut' = FALSE /\ recompute' = <<>>
  /\ Forget
  /\ UNCHANGED <<now, settings, usageLog, unseen>>

ServerStep == CloseTracker \/ CloseStore

-----------------------------------------------------------------------------
(* Operators' edits and the recomputation of costs.                        *)

EditKey(k, rpm) ==
  /\ Event
  /\ k \in DOMAIN keys /\ keys[k] # rpm
  /\ keys' = [keys EXCEPT ![k] = rpm]
  /\ UNCHANGED <<now, limiter, registered, price, request, tracker, process, usageLog, history, recompute>>

DeleteKey(k) ==
  /\ Event
  /\ k \in DOMAIN keys
  /\ keys' = Without(keys, k)
  /\ UNCHANGED <<now, limiter, registered, price, request, tracker, process, usageLog, history, recompute>>

DeleteConnection(c) ==
  /\ Event
  /\ c \in registered /\ registered' = registered \ {c}
  /\ UNCHANGED <<now, limiter, keys, price, request, tracker, process, usageLog, history, recompute>>

PriceChange ==
  /\ Event
  /\ \E p \in Prices \ {price} : price' = p
  /\ UNCHANGED <<now, limiter, keys, registered, request, tracker, process, usageLog, history, recompute>>

\* Only rows that are paid by API key are listed.
ListRows ==
  /\ server # "stopped" /\ recompute = <<>>
  /\ recompute' = [q \in {x \in DOMAIN usageLog : usageLog[x].source = "apikey"} |-> usageLog[q].cost]
  /\ UNCHANGED <<now, limiter, settings, request, tracker, process, usageLog, history, events>>

\* Mutant: a price the catalog has lost is written over the cost.
Repriced_Always(old) == price # old

\* A model the catalog no longer knows keeps its cost.
Repriced(old) == price # old /\ ~(price = 0 /\ old > 0)

Reprice(q) ==
  /\ q \in DOMAIN recompute
  /\ recompute' = Without(recompute, q)
  /\ IF server # "stopped" /\ Repriced(recompute[q])
     THEN usageLog' = [usageLog EXCEPT ![q].cost = price, ![q].repriced = TRUE]
     ELSE UNCHANGED usageLog
  /\ UNCHANGED <<now, limiter, settings, request, tracker, process, history, events>>

Clock == Tick /\ UNCHANGED <<limiter, settings, request, tracker, process, usageLog, history, recompute, events>>

Maintain ==
  /\ Cleanup
  /\ UNCHANGED <<now, settings, request, tracker, process, usageLog, history, recompute, events>>

Next ==
  \/ \E q \in Requests :
       \/ \E k \in Keys \cup {NoKey} : Arrive(q, k)
       \/ EndUntracked(q) \/ Track(q) \/ WriteThrough(q) \/ Reprice(q)
  \/ TrackerStep
  \/ Shutdown \/ ServerStep \/ Restart
  \/ \E k \in Keys : DeleteKey(k) \/ \E rpm \in Limits : EditKey(k, rpm)
  \/ \E c \in Conns : DeleteConnection(c)
  \/ PriceChange \/ ListRows \/ Clock \/ Maintain

Spec == Init /\ [][Next]_vars

\* The worker's goroutine and its ticker run, and a handler that has begun
\* a write ends it.
Fairness == WF_vars(TrackerStep) /\ \A q \in Requests : WF_vars(WriteThrough(q))
FairSpec == Spec /\ Fairness

-----------------------------------------------------------------------------

Tracked == {q \in Requests : request[q].phase \in {"writing", "done"}}
WithHandler == {q \in Requests : request[q].phase = "writing"}
Queue == batch \o buffer

\* Every request that was tracked has its entry in exactly one place: in
\* the worker's batch or on the channel, once, with its handler, as a row,
\* or lost.  None is dropped or written twice on any way through the full
\* channel, the batches, the close of the tracker, a refused write or a
\* restart.
EntriesAreConserved ==
  /\ \A i, j \in DOMAIN Queue : Queue[i] = Queue[j] => i = j
  /\ ToSet(Queue) \cap (WithHandler \cup DOMAIN usageLog \cup DOMAIN lost) = {}
  /\ WithHandler \cap (DOMAIN usageLog \cup DOMAIN lost) = {}
  /\ DOMAIN usageLog \cap DOMAIN lost = {}
  /\ ToSet(Queue) \cup WithHandler \cup DOMAIN usageLog \cup DOMAIN lost = Tracked \cup DOMAIN lost

\* An entry is refused by a tracker already closed only when the drain was
\* given up while its handler was still at work.
LateOnlyAfterTimeout ==
  [][\A q \in DOMAIN lost' \ DOMAIN lost : lost'[q] = "late" => timedOut]_vars

\* A key under a hard budget runs over it only by requests that were under
\* way when its last request was admitted, that one included: what the
\* check could see stays below the budget for the month, repricing aside.
OverrunIsUnseen ==
  \A k \in Keys : Budget > 0 =>
    SumOfCosts({q \in RowsOf(k) \ unseen[k] : ~usageLog[q].repriced}) < Budget

\* A charge is never taken back: no write and no recomputation, at whatever
\* prices, makes the cost of a row zero again or removes the row.
ChargesAreKept ==
  [][\A q \in DOMAIN usageLog :
       /\ q \in DOMAIN usageLog'
       /\ usageLog[q].cost > 0 => usageLog'[q].cost > 0
       /\ usageLog'[q].source = usageLog[q].source]_vars

\* Every tracked entry becomes a row or is lost to a crash, a refused write
\* or a closed tracker: none stays in memory for ever.
TrackedIsWritten ==
  \A q \in Requests : q \in Tracked ~> q \in DOMAIN usageLog \cup DOMAIN lost

=============================================================================
