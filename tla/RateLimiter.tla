---------------------------- MODULE RateLimiter -----------------------------
(***************************************************************************)
(* The sliding window of requests per minute (internal/ratelimit).  A      *)
(* window holds the times of the requests that were admitted under a       *)
(* limit; the limit is an argument of every call, because the handler      *)
(* reads it from the key's row each time and an operator may have edited   *)
(* it in between.  The mutex makes each call one step.  Nothing is stored, *)
(* so a restart begins with empty windows.                                 *)
(***************************************************************************)
EXTENDS Integers, Sequences

CONSTANTS
  Keys,
  Minute,     \* the width of the window, in ticks of the clock
  Limits,     \* requests per minute; 0 is unlimited
  MaxTime     \* bound of the clock in TLC's runs

ASSUME LimiterAssumption ==
  /\ Minute \in Nat /\ MaxTime \in Nat
  /\ Limits \subseteq Nat

VARIABLES
  now,        \* the clock
  windows,    \* windows[k]: times of admitted requests; <<>> when k has no entry
  admitted    \* history: the admissions under a limit, in order, with that limit

limiter == <<windows, admitted>>

Admission == [at : Nat, rpm : Nat]

LimiterTypeOK ==
  /\ now \in Nat
  /\ windows \in [Keys -> Seq(Nat)]
  /\ admitted \in [Keys -> Seq(Admission)]

LimiterStart ==
  /\ windows = [k \in Keys |-> <<>>]
  /\ admitted = [k \in Keys |-> <<>>]

LimiterInit == now = 0 /\ LimiterStart

\* Before(cutoff): the entry has left the window.
Before(t) == t < now - Minute

\* Where the loop over the window stops.
FirstLive(w) ==
  CHOOSE i \in 1 .. Len(w) + 1 :
    /\ \A j \in 1 .. i - 1 : Before(w[j])
    /\ i <= Len(w) => ~Before(w[i])

Pruned(w) == SubSeq(w, FirstLive(w), Len(w))

\* Mutant: the limit itself is still let through.
Admits_OneMore(k, rpm) == rpm = 0 \/ Len(Pruned(windows[k])) <= rpm

\* What Allow answers.
Admits(k, rpm) == rpm = 0 \/ Len(Pruned(windows[k])) < rpm

\* What Allow leaves behind; a refusal prunes too.
Allow(k, rpm) ==
  CASE rpm = 0 -> UNCHANGED limiter
    [] rpm > 0 /\ Admits(k, rpm) ->
         /\ windows' = [windows EXCEPT ![k] = Append(Pruned(windows[k]), now)]
         /\ admitted' = [admitted EXCEPT ![k] = Append(@, [at |-> now, rpm |-> rpm])]
    [] rpm > 0 /\ ~Admits(k, rpm) ->
         /\ windows' = [windows EXCEPT ![k] = Pruned(windows[k])]
         /\ UNCHANGED admitted

\* The package's maintenance call; nothing in the program makes it yet.
Cleanup ==
  /\ windows' = [k \in Keys |-> Pruned(windows[k])]
  /\ UNCHANGED admitted

Forget ==
  /\ windows' = [k \in Keys |-> <<>>]
  /\ admitted' = [k \in Keys |-> <<>>]

Tick == now < MaxTime /\ now' = now + 1

-----------------------------------------------------------------------------

\* A request admitted under a limit of rpm and the rpm-th admission before
\* it are more than a minute apart: no minute, wherever it begins, has more
\* admissions than the limit its last one was checked against.
WithinTheRate ==
  \A k \in Keys : \A i \in DOMAIN admitted[k] :
    LET limit == admitted[k][i].rpm IN
    i > limit => admitted[k][i].at - admitted[k][i - limit].at > Minute

=============================================================================
