--------------------------- MODULE Metering_proofs ---------------------------
(***************************************************************************)
(* What metering promises, for any keys, limits, prices, requests, sizes   *)
(* of the queue and the batches, and any course of the clock: a key is     *)
(* admitted within its rate, an entry is never lost unseen or written      *)
(* twice, the close of the tracker loses no entry of a handler that was    *)
(* waited for, and no charge is taken back.                                *)
(***************************************************************************)
EXTENDS Metering, FoldLemmas

-----------------------------------------------------------------------------
(* The limiter: the window is what is left of the history of admissions    *)
(* when a prefix of it is dropped, and everything that was dropped had     *)
(* left the window.                                                        *)

\* How much of the history of k has been dropped from its window.
Dropped(k) == Len(admitted[k]) - Len(windows[k])

\* The window is the rest of the history.
WindowIsSuffix ==
  \A k \in Keys : /\ Dropped(k) \in Nat
                  /\ \A i \in 1 .. Len(windows[k]) : windows[k][i] = admitted[k][Dropped(k) + i].at

\* What was dropped is more than a minute old.
DroppedIsOld == \A k \in Keys : \A i \in 1 .. Dropped(k) : admitted[k][i].at < now - Minute

LimiterInv == LimiterTypeOK /\ WindowIsSuffix /\ DroppedIsOld /\ WithinTheRate

-----------------------------------------------------------------------------

\* The loop that prunes stops somewhere, and before that all is old.
LEMMA LoopStops ==
  ASSUME NEW w \in Seq(Nat), now \in Nat
  PROVE  /\ FirstLive(w) \in 1 .. Len(w) + 1
         /\ \A j \in 1 .. FirstLive(w) - 1 : Before(w[j])
         /\ FirstLive(w) <= Len(w) => ~Before(w[FirstLive(w)])
<1> DEFINE T == {i \in 1 .. Len(w) + 1 : i <= Len(w) => ~Before(w[i])}
<1>1. Len(w) \in Nat /\ Len(w) + 1 \in T /\ T \subseteq Nat
  OBVIOUS
<1>2. PICK i \in T : \A j \in T : ~(j < i)
  <2>1. \E x \in T : \A y \in T : ~(<<y, x>> \in OpToRel(<, Nat))
    <3> HIDE DEF T
    <3> QED BY <1>1, NatLessThanWellFounded, WFMin
  <2>2. ASSUME NEW x \in T, NEW y \in T, y < x PROVE <<y, x>> \in OpToRel(<, Nat)
    BY <1>1, <2>2 DEF OpToRel
  <2> QED BY <2>1, <2>2
<1>3. \A j \in 1 .. i - 1 : Before(w[j])
  BY <1>1, <1>2
<1> QED BY <1>2, <1>3 DEF FirstLive

\* What pruning leaves is the end of the window.
LEMMA PrunedIsSuffix ==
  ASSUME NEW w \in Seq(Nat), now \in Nat
  PROVE  /\ Pruned(w) \in Seq(Nat)
         /\ Len(Pruned(w)) = Len(w) - FirstLive(w) + 1
         /\ Len(w) - Len(Pruned(w)) \in 0 .. Len(w)
         /\ \A i \in 1 .. Len(Pruned(w)) : Pruned(w)[i] = w[Len(w) - Len(Pruned(w)) + i]
         /\ \A i \in 1 .. Len(w) - Len(Pruned(w)) : Before(w[i])
<1>1. FirstLive(w) \in 1 .. Len(w) + 1 /\ \A j \in 1 .. FirstLive(w) - 1 : Before(w[j])
  BY LoopStops
<1> DEFINE m == FirstLive(w)
<1>2. Len(w) \in Nat /\ m \in Nat
  BY <1>1
<1>3. /\ SubSeq(w, m, Len(w)) \in Seq(Nat)
      /\ Len(SubSeq(w, m, Len(w))) = Len(w) - m + 1
      /\ \A i \in 1 .. Len(w) - m + 1 : SubSeq(w, m, Len(w))[i] = w[m + i - 1]
  <2> HIDE DEF m
  <2>1. m \in 1 .. Len(w) + 1
    BY <1>1 DEF m
  <2> QED BY <2>1, <1>2
<1> QED BY <1>1, <1>2, <1>3 DEF Pruned

\* A window that is pruned remains the rest of the history.
LEMMA PruningKeeps ==
  ASSUME LimiterInv, NEW k \in Keys
  PROVE  LET d == Len(admitted[k]) - Len(Pruned(windows[k])) IN
         /\ Pruned(windows[k]) \in Seq(Nat)
         /\ d \in Nat /\ d <= Len(admitted[k])
         /\ \A i \in 1 .. Len(Pruned(windows[k])) : Pruned(windows[k])[i] = admitted[k][d + i].at
         /\ \A i \in 1 .. d : admitted[k][i].at < now - Minute
<1> DEFINE w == windows[k]
           p == Pruned(w)
           a == admitted[k]
           d == Len(a) - Len(p)
<1>1. w \in Seq(Nat) /\ a \in Seq(Admission) /\ now \in Nat
  BY DEF LimiterInv, LimiterTypeOK
<1>2. /\ p \in Seq(Nat)
      /\ Len(w) - Len(p) \in 0 .. Len(w)
      /\ \A i \in 1 .. Len(p) : p[i] = w[Len(w) - Len(p) + i]
      /\ \A i \in 1 .. Len(w) - Len(p) : Before(w[i])
  BY <1>1, PrunedIsSuffix
<1>3. /\ Len(a) - Len(w) \in Nat
      /\ \A i \in 1 .. Len(w) : w[i] = a[(Len(a) - Len(w)) + i].at
      /\ \A i \in 1 .. Len(a) - Len(w) : a[i].at < now - Minute
  BY DEF LimiterInv, WindowIsSuffix, DroppedIsOld, Dropped
<1>4. Len(w) \in Nat /\ Len(a) \in Nat /\ Len(p) \in Nat
  BY <1>1, <1>2
<1> HIDE DEF w, p, a
<1>5. d \in Nat /\ d <= Len(a)
  BY <1>2, <1>3, <1>4
<1>6. ASSUME NEW i \in 1 .. Len(p) PROVE p[i] = a[d + i].at
  <2>1. (Len(w) - Len(p)) + i \in 1 .. Len(w)
    BY <1>2, <1>4
  <2>2. (Len(a) - Len(w)) + ((Len(w) - Len(p)) + i) = d + i
    BY <1>4
  <2> QED BY <1>2, <1>3, <2>1, <2>2
<1>7. ASSUME NEW i \in 1 .. d PROVE a[i].at < now - Minute
  <2>1. CASE i <= Len(a) - Len(w)
    BY <1>3, <2>1, <1>4
  <2>2. CASE i > Len(a) - Len(w)
    <3> DEFINE j == i - (Len(a) - Len(w))
    <3>1. j \in 1 .. Len(w) - Len(p) /\ j \in 1 .. Len(w) /\ (Len(a) - Len(w)) + j = i
      BY <1>2, <1>4, <2>2
    <3>2. Before(w[j]) /\ w[j] = a[i].at
      BY <1>2, <1>3, <3>1
    <3> QED BY <3>2 DEF Before
  <2> QED BY <2>1, <2>2, <1>4
<1> QED BY <1>2, <1>5, <1>6, <1>7 DEF w, p, a

-----------------------------------------------------------------------------
(* Every call keeps the invariant.                                         *)

LEMMA AllowKeeps ==
  ASSUME LimiterInv, NEW k \in Keys, NEW rpm \in Nat, Allow(k, rpm), UNCHANGED now
  PROVE  LimiterInv'
<1> DEFINE p == Pruned(windows[k])
           a == admitted[k]
           d == Len(a) - Len(p)
<1>1. /\ p \in Seq(Nat) /\ d \in Nat /\ d <= Len(a)
      /\ \A i \in 1 .. Len(p) : p[i] = a[d + i].at
      /\ \A i \in 1 .. d : a[i].at < now - Minute
  BY PruningKeeps
<1>2. /\ now \in Nat /\ a \in Seq(Admission) /\ Minute \in Nat
      /\ windows \in [Keys -> Seq(Nat)] /\ admitted \in [Keys -> Seq(Admission)]
  BY LimiterAssumption DEF LimiterInv, LimiterTypeOK
<1>3. CASE rpm = 0
  <2>1. UNCHANGED <<now, limiter>>
    BY <1>3 DEF Allow
  <2> QED
    BY <2>1 DEF LimiterInv, LimiterTypeOK, WindowIsSuffix, DroppedIsOld, Dropped, WithinTheRate, limiter
<1>4. CASE rpm > 0 /\ ~Admits(k, rpm)
  <2>1. windows' = [windows EXCEPT ![k] = p] /\ admitted' = admitted /\ now' = now
    BY <1>4 DEF Allow
  <2> HIDE DEF p
  <2>2. LimiterTypeOK'
    BY <1>1, <1>2, <2>1 DEF LimiterTypeOK
  <2>3. WindowIsSuffix'
    BY <1>1, <1>2, <2>1 DEF LimiterInv, WindowIsSuffix, Dropped
  <2>4. DroppedIsOld'
    BY <1>1, <1>2, <2>1 DEF LimiterInv, DroppedIsOld, Dropped
  <2>5. WithinTheRate'
    BY <2>1 DEF LimiterInv, WithinTheRate
  <2> QED BY <2>2, <2>3, <2>4, <2>5 DEF LimiterInv
<1>5. CASE rpm > 0 /\ Admits(k, rpm)
  <2> DEFINE e == [at |-> now, rpm |-> rpm]
  <2>1. /\ windows' = [windows EXCEPT ![k] = Append(p, now)]
        /\ admitted' = [admitted EXCEPT ![k] = Append(a, e)]
        /\ now' = now
    BY <1>5 DEF Allow
  <2>2. Len(p) < rpm
    BY <1>5 DEF Admits
  <2>3. e \in Admission /\ e.at = now /\ e.rpm = rpm
    BY <1>2 DEF Admission
  <2> HIDE DEF p, e
  <2>4. /\ \A j \in Keys \ {k} : windows'[j] = windows[j] /\ admitted'[j] = admitted[j]
        /\ windows'[k] = Append(p, now) /\ admitted'[k] = Append(a, e)
    BY <1>2, <2>1
  <2>5. /\ Len(Append(p, now)) = Len(p) + 1 /\ Len(Append(a, e)) = Len(a) + 1
        /\ \A i \in 1 .. Len(p) : Append(p, now)[i] = p[i]
        /\ \A i \in 1 .. Len(a) : Append(a, e)[i] = a[i]
        /\ Append(p, now)[Len(p) + 1] = now /\ Append(a, e)[Len(a) + 1] = e
        /\ Len(p) \in Nat /\ Len(a) \in Nat
    BY <1>1, <1>2, <2>3
  <2> HIDE DEF a
  <2>lengths. Len(p) \in Nat /\ Len(a) \in Nat
    BY <2>5
  <2>6. LimiterTypeOK'
    BY <1>1, <1>2, <2>1, <2>3 DEF LimiterTypeOK, a
  <2>7. WindowIsSuffix'
    <3>1. ASSUME NEW j \in Keys, j # k
          PROVE  /\ Dropped(j)' \in Nat
                 /\ \A i \in 1 .. Len(windows'[j]) : windows'[j][i] = admitted'[j][Dropped(j)' + i].at
      BY <2>4, <3>1 DEF LimiterInv, WindowIsSuffix, Dropped
    <3>2. Dropped(k)' = d
      BY <2>4, <2>5 DEF Dropped
    <3>3. ASSUME NEW i \in 1 .. Len(p) + 1 PROVE Append(p, now)[i] = Append(a, e)[d + i].at
      <4>1. CASE i = Len(p) + 1
        <5>1. d + i = Len(a) + 1
          BY <2>lengths, <4>1
        <5> QED BY <2>3, <2>5, <4>1, <5>1
      <4>2. CASE i \in 1 .. Len(p)
        <5>1. d + i \in 1 .. Len(a)
          BY <1>1, <2>lengths, <4>2
        <5> QED BY <1>1, <2>5, <4>2, <5>1
      <4>3. i = Len(p) + 1 \/ i \in 1 .. Len(p)
        BY <2>lengths
      <4> QED BY <4>1, <4>2, <4>3
    <3>4. /\ d \in Nat
          /\ \A i \in 1 .. Len(windows'[k]) : windows'[k][i] = admitted'[k][d + i].at
      BY <1>1, <2>4, <2>5, <3>3
    <3>5. ASSUME NEW j \in Keys
          PROVE  /\ Dropped(j)' \in Nat
                 /\ \A i \in 1 .. Len(windows'[j]) : windows'[j][i] = admitted'[j][Dropped(j)' + i].at
      <4>1. CASE j = k
        BY <3>2, <3>4, <4>1
      <4>2. CASE j # k
        BY <3>1, <4>2
      <4> QED BY <4>1, <4>2
    <3> QED BY <3>5 DEF WindowIsSuffix
  <2>8. DroppedIsOld'
    <3>1. ASSUME NEW j \in Keys, j # k
          PROVE  \A i \in 1 .. Dropped(j)' : admitted'[j][i].at < now' - Minute
      BY <2>1, <2>4, <3>1 DEF LimiterInv, DroppedIsOld, Dropped
    <3>2. Dropped(k)' = d
      BY <2>4, <2>5 DEF Dropped
    <3>3. \A i \in 1 .. d : Append(a, e)[i].at < now - Minute
      BY <1>1, <2>5
    <3> QED BY <2>1, <2>4, <3>1, <3>2, <3>3 DEF DroppedIsOld
  <2>9. WithinTheRate'
    <3> SUFFICES ASSUME NEW j \in Keys, NEW i \in DOMAIN admitted'[j], i > admitted'[j][i].rpm
                 PROVE  admitted'[j][i].at - admitted'[j][i - admitted'[j][i].rpm].at > Minute
      BY DEF WithinTheRate
    <3>0. i \in 1 .. Len(admitted'[j])
      BY <2>6 DEF LimiterTypeOK
    <3>1. CASE j # k
      BY <1>2, <2>4, <3>1 DEF LimiterInv, WithinTheRate
    <3>2. CASE j = k /\ i <= Len(a)
      <4>1. a[i] \in Admission /\ i \in DOMAIN a
        BY <1>2, <2>4, <2>5, <3>0, <3>2
      <4>2. a[i].rpm \in Nat /\ i > a[i].rpm /\ admitted'[j][i] = a[i]
        <5>1. admitted'[j][i] = a[i]
          BY <2>4, <2>5, <3>0, <3>2
        <5>2. a[i].rpm \in Nat
          BY <4>1 DEF Admission
        <5> QED BY <5>1, <5>2
      <4>3. a[i].at - a[i - a[i].rpm].at > Minute
        BY <4>1, <4>2 DEF LimiterInv, WithinTheRate, a
      <4>4. CASE a[i].rpm = 0
        BY <1>2, <4>1, <4>3, <4>4 DEF Admission
      <4>5. CASE a[i].rpm > 0
        <5>1. i - a[i].rpm \in 1 .. Len(a)
          BY <4>2, <4>5, <3>0, <3>2, <2>4, <2>5
        <5> QED BY <4>2, <4>3, <5>1, <2>4, <2>5, <3>2
      <4> QED BY <4>2, <4>4, <4>5
    <3>3. CASE j = k /\ i = Len(a) + 1
      <4>1. i - rpm \in 1 .. d
        BY <1>1, <2>2, <2>3, <2>4, <2>5, <3>3
      <4>2. a[i - rpm].at < now - Minute
        BY <1>1, <4>1
      <4>3. i - rpm \in 1 .. Len(a)
        BY <1>1, <2>5, <4>1
      <4>4. a[i - rpm].at \in Nat
        <5>1. a[i - rpm] \in Admission
          BY <1>2, <4>3
        <5> QED BY <5>1 DEF Admission
      <4>5. admitted'[j][i].at = now /\ admitted'[j][i].rpm = rpm /\ admitted'[j][i - rpm] = a[i - rpm]
        BY <2>3, <2>4, <2>5, <3>3, <4>3
      <4> QED BY <1>2, <4>2, <4>4, <4>5
    <3> QED BY <2>4, <2>5, <3>0, <3>1, <3>2, <3>3
  <2> QED BY <2>6, <2>7, <2>8, <2>9 DEF LimiterInv
<1> QED BY <1>3, <1>4, <1>5

LEMMA CleanupKeeps ==
  ASSUME LimiterInv, Cleanup, UNCHANGED now
  PROVE  LimiterInv'
<1>1. /\ windows' = [k \in Keys |-> Pruned(windows[k])] /\ admitted' = admitted /\ now' = now
  BY DEF Cleanup
<1>2. \A k \in Keys :
        LET d == Len(admitted[k]) - Len(Pruned(windows[k])) IN
        /\ Pruned(windows[k]) \in Seq(Nat)
        /\ d \in Nat /\ d <= Len(admitted[k])
        /\ \A i \in 1 .. Len(Pruned(windows[k])) : Pruned(windows[k])[i] = admitted[k][d + i].at
        /\ \A i \in 1 .. d : admitted[k][i].at < now - Minute
  BY PruningKeeps
<1> HIDE DEF Pruned
<1>3. LimiterTypeOK'
  BY <1>1, <1>2 DEF LimiterInv, LimiterTypeOK
<1>4. WindowIsSuffix'
  BY <1>1, <1>2 DEF WindowIsSuffix, Dropped
<1>5. DroppedIsOld'
  BY <1>1, <1>2 DEF DroppedIsOld, Dropped
<1>6. WithinTheRate'
  BY <1>1 DEF LimiterInv, WithinTheRate
<1> QED BY <1>3, <1>4, <1>5, <1>6 DEF LimiterInv

LEMMA ForgetKeeps ==
  ASSUME LimiterInv, Forget, UNCHANGED now
  PROVE  LimiterInv'
BY DEF LimiterInv, LimiterTypeOK, WindowIsSuffix, DroppedIsOld, Dropped, WithinTheRate, Forget

LEMMA TickKeeps ==
  ASSUME LimiterInv, Tick, UNCHANGED limiter
  PROVE  LimiterInv'
<1>1. now' = now + 1 /\ now \in Nat /\ windows' = windows /\ admitted' = admitted /\ Minute \in Nat
  BY LimiterAssumption DEF Tick, limiter, LimiterInv, LimiterTypeOK
<1>2. LimiterTypeOK' /\ WindowIsSuffix' /\ WithinTheRate'
  BY <1>1 DEF LimiterInv, LimiterTypeOK, WindowIsSuffix, Dropped, WithinTheRate
<1>3. DroppedIsOld'
  <2> SUFFICES ASSUME NEW k \in Keys, NEW i \in 1 .. Dropped(k) PROVE admitted[k][i].at < now + 1 - Minute
    <3>1. \A k \in Keys : Dropped(k)' = Dropped(k)
      BY <1>1 DEF Dropped
    <3> QED BY <1>1, <3>1 DEF DroppedIsOld
  <2>1. admitted[k][i].at < now - Minute
    BY DEF LimiterInv, DroppedIsOld
  <2>2. admitted[k] \in Seq(Admission) /\ Len(windows[k]) \in Nat /\ Len(admitted[k]) \in Nat
    BY DEF LimiterInv, LimiterTypeOK
  <2>3. i \in 1 .. Len(admitted[k])
    BY <2>2 DEF Dropped
  <2>4. admitted[k][i].at \in Nat
    <3>1. admitted[k][i] \in Admission
      BY <2>2, <2>3
    <3> QED BY <3>1 DEF Admission
  <2> QED BY <1>1, <2>1, <2>4
<1> QED BY <1>2, <1>3 DEF LimiterInv

LEMMA LimiterInitHolds == LimiterInit => LimiterInv
BY DEF LimiterInit, LimiterStart, LimiterInv, LimiterTypeOK, WindowIsSuffix, DroppedIsOld, Dropped, WithinTheRate

-----------------------------------------------------------------------------
(* Types.                                                                  *)

Phases == {"idle", "running", "writing", "refused", "done", "gone"}
RequestRecord == [phase : Phases, key : Keys \cup {NoKey}, conn : Conns \cup {AnyConn}, entry : Entry]
RowRecord == [cost : Nat, source : {"apikey", "subscription"}, month : Int, repriced : BOOLEAN]

KeysTyped == \A k \in DOMAIN keys : keys[k] \in Nat
RequestsTyped == request \in [Requests -> RequestRecord]
QueueTyped == buffer \in Seq(Requests) /\ batch \in Seq(Requests)
RowsTyped ==
  /\ price \in Nat /\ registered \subseteq Conns
  /\ \A q \in DOMAIN usageLog : usageLog[q] \in RowRecord
  /\ \A q \in DOMAIN recompute : recompute[q] \in Nat /\ q \in DOMAIN usageLog

-----------------------------------------------------------------------------
(* The rate, in the whole of metering.                                     *)

AdmissionInv == LimiterInv /\ KeysTyped

LEMMA AdmissionInit == Init => AdmissionInv
BY LimiterInitHolds, LimiterAssumption DEF Init, LimiterInit, AdmissionInv, KeysTyped

\* Every step is a step of the limiter, or none of its business.
LEMMA AdmissionStep ==
  ASSUME AdmissionInv, [Next]_vars
  PROVE  AdmissionInv'
<1>1. KeysTyped'
  <2>1. CASE UNCHANGED keys
    BY <2>1 DEF AdmissionInv, KeysTyped
  <2>2. ASSUME NEW k \in Keys, NEW rpm \in Limits, EditKey(k, rpm) PROVE KeysTyped'
    BY <2>2, LimiterAssumption DEF EditKey, AdmissionInv, KeysTyped
  <2>3. ASSUME NEW k \in Keys, DeleteKey(k) PROVE KeysTyped'
    BY <2>3 DEF DeleteKey, Without, AdmissionInv, KeysTyped
  <2> QED BY <2>1, <2>2, <2>3
    DEF Next, vars, settings, Arrive, EndUntracked, Track, WriteThrough, Reprice, TrackerStep, Take, FlushTick,
        FlushEntry, FlushEnds, SeeDone, Shutdown, ServerStep, CloseTracker, CloseStore, Restart,
        DeleteConnection, PriceChange, ListRows, Clock, Maintain
<1>2. ASSUME UNCHANGED <<now, limiter>> PROVE LimiterInv'
  BY <1>2 DEF AdmissionInv, LimiterInv, LimiterTypeOK, WindowIsSuffix, DroppedIsOld, Dropped, WithinTheRate, limiter
<1>3. ASSUME NEW q \in Requests, NEW k \in Keys \cup {NoKey}, Arrive(q, k) PROVE LimiterInv'
  <2>1. CASE UNCHANGED limiter
    BY <1>2, <1>3, <2>1 DEF Arrive, AdmissionInv, LimiterInv, LimiterTypeOK, WindowIsSuffix, DroppedIsOld,
       Dropped, WithinTheRate, limiter
  <2>2. CASE Allow(k, keys[k]) /\ k \in DOMAIN keys /\ k # NoKey
    BY <1>3, <2>2, AllowKeeps DEF Arrive, AdmissionInv, KeysTyped
  <2> QED BY <1>3, <2>1, <2>2 DEF Arrive, Admitted, Refused, Authentic
<1>4. ASSUME Clock PROVE LimiterInv'
  BY <1>4, TickKeeps DEF Clock, AdmissionInv
<1>5. ASSUME Maintain PROVE LimiterInv'
  BY <1>5, CleanupKeeps DEF Maintain, AdmissionInv
<1>6. ASSUME Restart PROVE LimiterInv'
  BY <1>6, ForgetKeeps DEF Restart, AdmissionInv
<1>7. ASSUME UNCHANGED vars PROVE LimiterInv'
  BY <1>2, <1>7 DEF vars
<1> QED BY <1>1, <1>2, <1>3, <1>4, <1>5, <1>6, <1>7
  DEF AdmissionInv, LimiterInv, Next, settings, EndUntracked, Track, WriteThrough, Reprice, TrackerStep, Take, FlushTick,
      FlushEntry, FlushEnds, SeeDone, Shutdown, ServerStep, CloseTracker, CloseStore, EditKey, DeleteKey,
      DeleteConnection, PriceChange, ListRows

\* However keys are edited, requests arrive and the program restarts, no
\* minute has more admissions of a key than the limit that was checked.
THEOREM WithinTheRateHolds == Spec => []WithinTheRate
<1>1. AdmissionInv => WithinTheRate
  BY DEF AdmissionInv, LimiterInv
<1>2. AdmissionInv /\ [Next]_vars => AdmissionInv'
  BY AdmissionStep
<1> QED BY <1>1, <1>2, AdmissionInit, PTL DEF Spec

-----------------------------------------------------------------------------
(* Sequences without repetition.                                           *)

Distinct(s) == \A i, j \in DOMAIN s : s[i] = s[j] => i = j

\* An entry that is put at the end of the queue.
LEMMA AppendDistinct ==
  ASSUME NEW S, NEW s \in Seq(S), Distinct(s), NEW e \in S, e \notin ToSet(s)
  PROVE  Distinct(Append(s, e)) /\ ToSet(Append(s, e)) = ToSet(s) \cup {e}
<1>1. /\ Append(s, e) \in Seq(S) /\ Len(Append(s, e)) = Len(s) + 1 /\ Len(s) \in Nat
      /\ \A i \in 1 .. Len(s) : Append(s, e)[i] = s[i]
      /\ Append(s, e)[Len(s) + 1] = e
      /\ DOMAIN s = 1 .. Len(s) /\ DOMAIN Append(s, e) = 1 .. Len(s) + 1
  OBVIOUS
<1> DEFINE t == Append(s, e)
<1> HIDE DEF t
<1>2. \A i \in 1 .. Len(s) + 1 : i \in 1 .. Len(s) \/ i = Len(s) + 1
  BY <1>1
<1>3. \A i \in 1 .. Len(s) : s[i] # e
  BY <1>1 DEF ToSet
<1> QED BY <1>1, <1>2, <1>3 DEF Distinct, ToSet, t

\* The first entry that is taken off it.
LEMMA TailDistinct ==
  ASSUME NEW S, NEW s \in Seq(S), s # <<>>, Distinct(s)
  PROVE  /\ Distinct(Tail(s)) /\ Head(s) \in ToSet(s)
         /\ ToSet(Tail(s)) = ToSet(s) \ {Head(s)}
<1>1. /\ Tail(s) \in Seq(S) /\ Len(s) \in Nat \ {0} /\ Len(Tail(s)) = Len(s) - 1
      /\ \A i \in 1 .. Len(s) - 1 : Tail(s)[i] = s[i + 1]
      /\ Head(s) = s[1]
      /\ DOMAIN s = 1 .. Len(s) /\ DOMAIN Tail(s) = 1 .. Len(s) - 1
  OBVIOUS
<1> DEFINE t == Tail(s)
<1> HIDE DEF t
<1>2. \A i \in 1 .. Len(s) : i = 1 \/ (i - 1 \in 1 .. Len(s) - 1 /\ (i - 1) + 1 = i)
  BY <1>1
<1>3. \A i \in 1 .. Len(s) - 1 : i + 1 \in 1 .. Len(s) /\ i + 1 # 1
  BY <1>1
<1>4. 1 \in 1 .. Len(s)
  BY <1>1
<1>5. Distinct(Tail(s))
  BY <1>1, <1>3 DEF Distinct
<1>6. Head(s) \in ToSet(s)
  BY <1>1, <1>4 DEF ToSet
<1>7. ASSUME NEW x \in ToSet(Tail(s)) PROVE x \in ToSet(s) \ {Head(s)}
  <2>1. PICK i \in 1 .. Len(s) - 1 : x = s[i + 1]
    BY <1>1, <1>7 DEF ToSet
  <2> QED BY <1>1, <1>3, <1>4, <2>1 DEF ToSet, Distinct
<1>8. ASSUME NEW x \in ToSet(s) \ {Head(s)} PROVE x \in ToSet(Tail(s))
  <2>1. PICK i \in 1 .. Len(s) : x = s[i] /\ i # 1
    BY <1>1, <1>8 DEF ToSet
  <2>2. i - 1 \in 1 .. Len(s) - 1 /\ Tail(s)[i - 1] = s[i]
    BY <1>1, <1>2, <2>1
  <2> QED BY <1>1, <2>1, <2>2 DEF ToSet
<1> QED BY <1>5, <1>6, <1>7, <1>8

\* How a batch and the channel behind it move as one queue.
LEMMA QueueMoves ==
  ASSUME NEW S, NEW s \in Seq(S), NEW t \in Seq(S)
  PROVE  /\ s \o t \in Seq(S)
         /\ \A e \in S : s \o Append(t, e) = Append(s \o t, e)
         /\ t # <<>> => Append(s, Head(t)) \o Tail(t) = s \o t
         /\ s # <<>> => Tail(s) \o t = Tail(s \o t) /\ Head(s \o t) = Head(s) /\ s \o t # <<>>
         /\ s \o <<>> = s
         /\ ToSet(<<>>) = {} /\ Distinct(<<>>)
<1>1. s \o t \in Seq(S)
  OBVIOUS
<1>2. \A e \in S : s \o Append(t, e) = Append(s \o t, e)
  OBVIOUS
<1>3. t # <<>> => Append(s, Head(t)) \o Tail(t) = s \o t
  OBVIOUS
<1>4. s # <<>> => Tail(s) \o t = Tail(s \o t) /\ Head(s \o t) = Head(s) /\ s \o t # <<>>
  OBVIOUS
<1>5. s \o <<>> = s
  OBVIOUS
<1>6. ToSet(<<>>) = {} /\ Distinct(<<>>)
  BY DEF ToSet, Distinct
<1> QED BY <1>1, <1>2, <1>3, <1>4, <1>5, <1>6

-----------------------------------------------------------------------------
(* Types, action by action.                                                *)

MeterTyped == RequestsTyped /\ QueueTyped /\ RowsTyped

LEMMA MeterTypedInit == Init => MeterTyped
<1> SUFFICES ASSUME Init PROVE MeterTyped
  OBVIOUS
<1>1. NewRequest \in RequestRecord
  BY DEF NewRequest, RequestRecord, Phases, NoEntry, Entry
<1>2. RequestsTyped
  BY <1>1 DEF Init, RequestsTyped
<1>3. QueueTyped /\ RowsTyped
  BY MeteringAssumption DEF Init, ProcessStart, QueueTyped, RowsTyped
<1> QED BY <1>2, <1>3 DEF MeterTyped

\* A phase is changed and the rest of the record kept.
LEMMA PhaseTyped ==
  ASSUME RequestsTyped, NEW q \in Requests, NEW ph \in Phases, request' = [request EXCEPT ![q].phase = ph]
  PROVE  RequestsTyped'
BY DEF RequestsTyped, RequestRecord

LEMMA RequestsStayTyped ==
  ASSUME MeterTyped, [Next]_vars
  PROVE  RequestsTyped'
<1> USE DEF MeterTyped
<1>1. ASSUME NEW q \in Requests, NEW k \in Keys \cup {NoKey}, Arrive(q, k) PROVE RequestsTyped'
  <2>1. CASE request' = [request EXCEPT ![q].phase = "refused"]
    BY <2>1, PhaseTyped DEF Phases
  <2>2. ASSUME NEW c \in registered,
               request' = [request EXCEPT ![q] = [@ EXCEPT !.phase = "running", !.key = k, !.conn = c]]
        PROVE  RequestsTyped'
    <3>1. c \in Conns
      BY DEF RowsTyped
    <3>2. [request[q] EXCEPT !.phase = "running", !.key = k, !.conn = c] \in RequestRecord
      BY <3>1 DEF RequestsTyped, RequestRecord, Phases
    <3> QED BY <2>2, <3>2 DEF RequestsTyped
  <2> QED BY <1>1, <2>1, <2>2 DEF Arrive
<1>2. ASSUME NEW q \in Requests, EndUntracked(q) PROVE RequestsTyped'
  <2>1. [NewRequest EXCEPT !.phase = "refused"] \in RequestRecord
    BY DEF NewRequest, RequestRecord, Phases, NoEntry, Entry
  <2> QED BY <1>2, <2>1 DEF EndUntracked, RequestsTyped
<1>3. ASSUME NEW q \in Requests, Track(q) PROVE RequestsTyped'
  <2>1. EntryOf(q) \in Entry
    BY DEF EntryOf, Entry, RowsTyped
  <2>2. ASSUME NEW ph \in {"done", "writing"},
               request' = [request EXCEPT ![q] = [@ EXCEPT !.phase = ph, !.entry = EntryOf(q)]]
        PROVE  RequestsTyped'
    <3>1. [request[q] EXCEPT !.phase = ph, !.entry = EntryOf(q)] \in RequestRecord
      BY <2>1 DEF RequestsTyped, RequestRecord, Phases
    <3> QED BY <2>2, <3>1 DEF RequestsTyped
  <2>3. CASE request' = [request EXCEPT ![q].phase = "done"]
    BY <2>3, PhaseTyped DEF Phases
  <2> QED BY <1>3, <2>2, <2>3 DEF Track
<1>4. ASSUME NEW q \in Requests, WriteThrough(q) PROVE RequestsTyped'
  BY <1>4, PhaseTyped DEF WriteThrough, Phases
<1>5. ASSUME Restart PROVE RequestsTyped'
  <2>1. ASSUME NEW q \in Requests
        PROVE  [request[q] EXCEPT !.phase = IF @ \in UnderWay THEN "gone" ELSE @] \in RequestRecord
    BY DEF RequestsTyped, RequestRecord, Phases
  <2> QED BY <1>5, <2>1 DEF Restart, RequestsTyped
<1>6. ASSUME UNCHANGED request PROVE RequestsTyped'
  BY <1>6 DEF RequestsTyped
<1> QED BY <1>1, <1>2, <1>3, <1>4, <1>5, <1>6
  DEF Next, vars, Reprice, TrackerStep, Take, FlushTick, FlushEntry, FlushEnds, SeeDone, Shutdown, ServerStep,
      CloseTracker, CloseStore, EditKey, DeleteKey, DeleteConnection, PriceChange, ListRows, Clock, Maintain

LEMMA QueueStaysTyped ==
  ASSUME MeterTyped, [Next]_vars
  PROVE  QueueTyped'
<1> USE DEF MeterTyped, QueueTyped
<1>1. ASSUME NEW q \in Requests, Track(q) PROVE QueueTyped'
  BY <1>1 DEF Track
<1>2. ASSUME TrackerStep PROVE QueueTyped'
  <2>1. ASSUME Take PROVE QueueTyped'
    <3>1. buffer # <<>> /\ buffer' = Tail(buffer) /\ batch' = Append(batch, Head(buffer))
      BY <2>1 DEF Take
    <3>2. Head(buffer) \in Requests /\ Tail(buffer) \in Seq(Requests)
      BY <3>1
    <3> QED BY <3>1, <3>2
  <2>2. ASSUME FlushEntry PROVE QueueTyped'
    BY <2>2 DEF FlushEntry
  <2>3. ASSUME SeeDone PROVE QueueTyped'
    BY <2>3 DEF SeeDone, Remaining
  <2> QED BY <1>2, <2>1, <2>2, <2>3 DEF TrackerStep, FlushTick, FlushEnds
<1>3. ASSUME Restart PROVE QueueTyped'
  BY <1>3 DEF Restart
<1>4. ASSUME UNCHANGED <<buffer, batch>> PROVE QueueTyped'
  BY <1>4
<1> QED BY <1>1, <1>2, <1>3, <1>4
  DEF Next, vars, tracker, Arrive, EndUntracked, WriteThrough, Reprice, Shutdown, ServerStep, CloseTracker,
      CloseStore, EditKey, DeleteKey, DeleteConnection, PriceChange, ListRows, Clock, Maintain

\* What Write makes of the rows.
LEMMA WriteTyped ==
  ASSUME MeterTyped, NEW q \in Requests, Write(q), UNCHANGED <<price, registered, recompute>>, now \in Nat
  PROVE  RowsTyped'
<1>1. request[q].entry \in Entry
  BY DEF MeterTyped, RequestsTyped, RequestRecord
<1>2. Month(now) \in Int
  BY MeteringAssumption DEF Month
<1>3. [cost |-> request[q].entry.cost, source |-> request[q].entry.source,
       month |-> Month(now), repriced |-> FALSE] \in RowRecord
  BY <1>1, <1>2 DEF Entry, RowRecord
<1> QED BY <1>3 DEF MeterTyped, RowsTyped, Write, With

LEMMA RowsStayTyped ==
  ASSUME MeterTyped, [Next]_vars, now \in Nat
  PROVE  RowsTyped'
<1> USE DEF MeterTyped
<1>1. ASSUME NEW q \in Requests, WriteThrough(q) PROVE RowsTyped'
  BY <1>1, WriteTyped DEF WriteThrough, settings
<1>2. ASSUME FlushEntry PROVE RowsTyped'
  <2>1. Head(batch) \in Requests
    BY <1>2 DEF FlushEntry, QueueTyped
  <2> QED BY <1>2, <2>1, WriteTyped DEF FlushEntry, settings
<1>3. ASSUME NEW q \in Requests, Reprice(q) PROVE RowsTyped'
  <2>1. recompute' = Without(recompute, q) /\ UNCHANGED <<price, registered>> /\ q \in DOMAIN usageLog
    BY <1>3 DEF Reprice, settings, RowsTyped
  <2>2. usageLog[q] \in RowRecord /\ price \in Nat
    BY <2>1 DEF RowsTyped
  <2>3. [usageLog[q] EXCEPT !.cost = price, !.repriced = TRUE] \in RowRecord
    BY <2>2 DEF RowRecord
  <2>4. CASE UNCHANGED usageLog
    BY <2>1, <2>4 DEF RowsTyped, Without
  <2>5. CASE usageLog' = [usageLog EXCEPT ![q].cost = price, ![q].repriced = TRUE]
    <3>1. usageLog' = [usageLog EXCEPT ![q] = [usageLog[q] EXCEPT !.cost = price, !.repriced = TRUE]]
      BY <2>1, <2>2, <2>5 DEF RowRecord
    <3> QED BY <2>1, <2>3, <3>1 DEF RowsTyped, Without
  <2> QED BY <1>3, <2>4, <2>5 DEF Reprice
<1>4. ASSUME ListRows PROVE RowsTyped'
  BY <1>4 DEF ListRows, settings, RowsTyped, RowRecord
<1>5. ASSUME Restart PROVE RowsTyped'
  BY <1>5 DEF Restart, settings, RowsTyped
<1>6. ASSUME NEW c \in Conns, DeleteConnection(c) PROVE RowsTyped'
  BY <1>6 DEF DeleteConnection, RowsTyped
<1>7. ASSUME PriceChange PROVE RowsTyped'
  BY <1>7, MeteringAssumption DEF PriceChange, RowsTyped
<1>8. ASSUME UNCHANGED <<price, registered, usageLog, recompute>> PROVE RowsTyped'
  BY <1>8 DEF RowsTyped
<1> QED BY <1>1, <1>2, <1>3, <1>4, <1>5, <1>6, <1>7, <1>8
  DEF Next, vars, settings, Arrive, EndUntracked, Track, TrackerStep, Take, FlushTick, FlushEnds, SeeDone, Shutdown,
      ServerStep, CloseTracker, CloseStore, EditKey, DeleteKey, Clock, Maintain

\* Queue, requests, rows and the rows of a recomputation are well typed, and
\* the admissions stay within the rate.
THEOREM MeteringTypes == Spec => [](MeterTyped /\ AdmissionInv)
<1>1. AdmissionInv => now \in Nat
  BY DEF AdmissionInv, LimiterInv, LimiterTypeOK
<1>2. MeterTyped /\ AdmissionInv /\ [Next]_vars => MeterTyped' /\ AdmissionInv'
  BY <1>1, AdmissionStep, RequestsStayTyped, QueueStaysTyped, RowsStayTyped DEF MeterTyped
<1> QED BY <1>2, MeterTypedInit, AdmissionInit, PTL DEF Spec

-----------------------------------------------------------------------------
(* Where the entry of a tracked request is.                                *)

\* An entry that is lost belongs to a request that has ended.
LostAreOver == \A q \in DOMAIN lost : q \in Requests /\ request[q].phase \in {"done", "gone"}

EntriesInv == LostAreOver /\ EntriesAreConserved

\* EntriesAreConserved in terms of sets: the queue is without repetition,
\* and queue, handlers, rows and losses are disjoint and make up what was
\* tracked.
Conserved(queue, handlers, written, gone, tracked) ==
  /\ queue \cap (handlers \cup written \cup gone) = {}
  /\ handlers \cap (written \cup gone) = {}
  /\ written \cap gone = {}
  /\ queue \cup handlers \cup written \cup gone = tracked \cup gone

LEMMA InSets ==
  EntriesAreConserved <=>
    /\ Distinct(Queue)
    /\ Conserved(ToSet(Queue), WithHandler, DOMAIN usageLog, DOMAIN lost, Tracked)
BY DEF EntriesAreConserved, Conserved, Distinct

LEMMA InSetsNext ==
  EntriesAreConserved' <=>
    /\ Distinct(Queue')
    /\ Conserved(ToSet(Queue'), WithHandler', DOMAIN usageLog', DOMAIN lost', Tracked')
BY DEF EntriesAreConserved, Conserved, Distinct

LEMMA EntriesInit == Init => EntriesInv
<1> SUFFICES ASSUME Init PROVE EntriesInv
  OBVIOUS
<1>1. Queue = <<>> /\ DOMAIN usageLog = {} /\ DOMAIN lost = {}
  BY QueueMoves DEF Init, ProcessStart, Queue
<1>2. \A q \in Requests : request[q].phase = "idle"
  BY DEF Init, NewRequest
<1>3. WithHandler = {} /\ Tracked = {}
  BY <1>2 DEF WithHandler, Tracked
<1>4. ToSet(<<>>) = {} /\ Distinct(<<>>)
  BY DEF ToSet, Distinct
<1> QED BY <1>1, <1>3, <1>4, InSets DEF EntriesInv, LostAreOver, Conserved

\* A request that has not been tracked has no entry.
LEMMA UntrackedHasNone ==
  ASSUME MeterTyped, EntriesInv, NEW q \in Requests, request[q].phase \in {"idle", "running", "refused"}
  PROVE  q \notin ToSet(Queue) \cup WithHandler \cup DOMAIN usageLog \cup DOMAIN lost \cup Tracked
<1>1. q \notin Tracked /\ q \notin DOMAIN lost
  BY DEF EntriesInv, LostAreOver, Tracked
<1> QED BY <1>1, InSets DEF EntriesInv, Conserved

\* The write of an entry that is with its handler or at the head of the
\* batch: it becomes a row or is lost.
LEMMA WriteMoves ==
  ASSUME NEW q \in Requests, Write(q)
  PROVE  \/ DOMAIN usageLog' = DOMAIN usageLog \cup {q} /\ lost' = lost
         \/ /\ usageLog' = usageLog /\ DOMAIN lost' = DOMAIN lost \cup {q}
BY DEF Write, With

LEMMA TrackerConserves ==
  ASSUME MeterTyped, EntriesInv, TrackerStep
  PROVE  EntriesInv'
<1> USE DEF MeterTyped, QueueTyped
<1>1. batch \in Seq(Requests) /\ buffer \in Seq(Requests) /\ UNCHANGED request
  BY DEF TrackerStep, Take, FlushTick, FlushEntry, FlushEnds, SeeDone
<1>2. WithHandler' = WithHandler /\ Tracked' = Tracked
  BY <1>1 DEF WithHandler, Tracked
<1>3. ASSUME Queue' = Queue, UNCHANGED <<usageLog, lost>> PROVE EntriesInv'
  BY <1>1, <1>2, <1>3, InSets, InSetsNext DEF EntriesInv, LostAreOver
<1>4. ASSUME Take PROVE EntriesInv'
  <2>1. Queue' = Queue
    BY <1>1, <1>4, QueueMoves DEF Take, Queue
  <2> QED BY <1>3, <1>4, <2>1 DEF Take, history
<1>5. ASSUME SeeDone PROVE EntriesInv'
  <2>1. Queue' = Queue
    <3>1. batch' = batch \o buffer /\ buffer' = <<>>
      BY <1>5 DEF SeeDone, Remaining
    <3>2. batch \o buffer \in Seq(Requests)
      BY <1>1
    <3> QED BY <3>1, <3>2, QueueMoves DEF Queue
  <2> QED BY <1>3, <1>5, <2>1 DEF SeeDone, history
<1>6. ASSUME FlushEntry PROVE EntriesInv'
  <2> DEFINE q == Head(batch)
  <2>1. batch # <<>> /\ batch' = Tail(batch) /\ buffer' = buffer /\ Write(q) /\ q \in Requests
    BY <1>1, <1>6 DEF FlushEntry
  <2>2. Queue' = Tail(Queue) /\ Head(Queue) = q /\ Queue # <<>> /\ Queue \in Seq(Requests)
    BY <1>1, <2>1, QueueMoves DEF Queue
  <2>3. Distinct(Queue') /\ ToSet(Queue') = ToSet(Queue) \ {q} /\ q \in ToSet(Queue)
    BY <2>2, TailDistinct, InSets DEF EntriesInv
  <2> HIDE DEF q
  <2>4. q \in Tracked
    BY <2>3, InSets DEF EntriesInv, Conserved
  <2>5. LostAreOver'
    <3>1. q \notin DOMAIN lost /\ q \notin WithHandler
      BY <2>3, InSets DEF EntriesInv, Conserved
    <3>2. request[q].phase = "done"
      BY <2>4, <3>1 DEF Tracked, WithHandler
    <3>3. DOMAIN lost' \subseteq DOMAIN lost \cup {q}
      BY <2>1, WriteMoves
    <3>4. request' = request
      BY <1>1
    <3>5. \A p \in DOMAIN lost : p \in Requests /\ request[p].phase \in {"done", "gone"}
      BY DEF EntriesInv, LostAreOver
    <3> QED BY <2>1, <3>2, <3>3, <3>4, <3>5, Zenon DEF LostAreOver
  <2>6. Conserved(ToSet(Queue'), WithHandler', DOMAIN usageLog', DOMAIN lost', Tracked')
    <3>1. Conserved(ToSet(Queue), WithHandler, DOMAIN usageLog, DOMAIN lost, Tracked)
      BY InSets DEF EntriesInv
    <3>2. \/ DOMAIN usageLog' = DOMAIN usageLog \cup {q} /\ DOMAIN lost' = DOMAIN lost
          \/ DOMAIN usageLog' = DOMAIN usageLog /\ DOMAIN lost' = DOMAIN lost \cup {q}
      BY <2>1, WriteMoves
    <3> QED BY <1>2, <2>3, <3>1, <3>2 DEF Conserved
  <2> QED BY <2>3, <2>5, <2>6, InSetsNext DEF EntriesInv
<1>7. ASSUME FlushTick \/ FlushEnds PROVE EntriesInv'
  BY <1>3, <1>7 DEF FlushTick, FlushEnds, history, Queue
<1> QED BY <1>4, <1>5, <1>6, <1>7 DEF TrackerStep

\* The handlers: a tracked request has its entry put somewhere, once.
LEMMA HandlerConserves ==
  ASSUME MeterTyped, EntriesInv, NEW q \in Requests,
         \/ \E k \in Keys \cup {NoKey} : Arrive(q, k)
         \/ EndUntracked(q) \/ Track(q) \/ WriteThrough(q)
  PROVE  EntriesInv'
<1>1. /\ request \in [Requests -> RequestRecord] /\ Queue \in Seq(Requests)
      /\ batch \in Seq(Requests) /\ buffer \in Seq(Requests)
  BY QueueMoves DEF MeterTyped, RequestsTyped, QueueTyped, Queue
<1>2. \A p \in Requests \ {q} : request'[p] = request[p]
  BY <1>1 DEF Arrive, EndUntracked, Track, WriteThrough
<1>3. Conserved(ToSet(Queue), WithHandler, DOMAIN usageLog, DOMAIN lost, Tracked) /\ Distinct(Queue)
  BY InSets DEF EntriesInv
<1>4. ASSUME request[q].phase \in {"idle", "running"}, request'[q].phase \in {"running", "refused"},
             UNCHANGED <<tracker, usageLog, lost>>
      PROVE  EntriesInv'
  <2>1. WithHandler' = WithHandler /\ Tracked' = Tracked
    BY <1>2, <1>4 DEF WithHandler, Tracked
  <2>2. q \notin DOMAIN lost
    BY <1>4, UntrackedHasNone
  <2> QED BY <1>2, <1>3, <1>4, <2>1, <2>2, InSetsNext DEF EntriesInv, LostAreOver, tracker, Queue
<1>5. ASSUME NEW k \in Keys \cup {NoKey}, Arrive(q, k) PROVE EntriesInv'
  <2>1. request'[q].phase \in {"running", "refused"}
    <3>1. ASSUME NEW c, request' = [request EXCEPT ![q] = [@ EXCEPT !.phase = "running", !.key = k, !.conn = c]]
          PROVE  request'[q].phase = "running"
      BY <1>1, <3>1 DEF RequestRecord
    <3>2. ASSUME request' = [request EXCEPT ![q].phase = "refused"] PROVE request'[q].phase = "refused"
      BY <1>1, <3>2 DEF RequestRecord
    <3> QED BY <1>5, <3>1, <3>2 DEF Arrive
  <2> QED BY <1>4, <1>5, <2>1 DEF Arrive
<1>6. ASSUME EndUntracked(q) PROVE EntriesInv'
  <2>1. request'[q].phase = "refused"
    BY <1>1, <1>6 DEF EndUntracked, NewRequest
  <2> QED BY <1>4, <1>6, <2>1 DEF EndUntracked, history
<1>7. ASSUME Track(q) PROVE EntriesInv'
  <2>1. /\ q \notin ToSet(Queue) \cup WithHandler \cup DOMAIN usageLog \cup DOMAIN lost \cup Tracked
        /\ UNCHANGED <<batch, usageLog>>
    BY <1>7, UntrackedHasNone DEF Track
  <2>2. ASSUME buffer' = Append(buffer, q), UNCHANGED lost, request'[q].phase = "done" PROVE EntriesInv'
    <3>1. Queue' = Append(Queue, q)
      BY <1>1, <2>1, <2>2, QueueMoves DEF Queue
    <3>2. Distinct(Queue') /\ ToSet(Queue') = ToSet(Queue) \cup {q}
      BY <1>1, <1>3, <2>1, <3>1, AppendDistinct
    <3>3. WithHandler' = WithHandler /\ Tracked' = Tracked \cup {q}
      BY <1>2, <2>1, <2>2 DEF WithHandler, Tracked
    <3> QED BY <1>2, <1>3, <2>1, <2>2, <3>2, <3>3, InSetsNext DEF EntriesInv, LostAreOver, Conserved
  <2>3. ASSUME UNCHANGED <<buffer, lost>>, request'[q].phase = "writing" PROVE EntriesInv'
    <3>1. Queue' = Queue
      BY <2>1, <2>3 DEF Queue
    <3>2. WithHandler' = WithHandler \cup {q} /\ Tracked' = Tracked \cup {q}
      BY <1>2, <2>1, <2>3 DEF WithHandler, Tracked
    <3> QED BY <1>2, <1>3, <2>1, <2>3, <3>1, <3>2, InSetsNext DEF EntriesInv, LostAreOver, Conserved
  <2>4. ASSUME UNCHANGED buffer, DOMAIN lost' = DOMAIN lost \cup {q}, request'[q].phase = "done" PROVE EntriesInv'
    <3>1. Queue' = Queue
      BY <2>1, <2>4 DEF Queue
    <3>2. WithHandler' = WithHandler /\ Tracked' = Tracked \cup {q}
      BY <1>2, <2>1, <2>4 DEF WithHandler, Tracked
    <3> QED BY <1>2, <1>3, <2>1, <2>4, <3>1, <3>2, InSetsNext DEF EntriesInv, LostAreOver, Conserved
  <2>5. ASSUME NEW ph, NEW e, request' = [request EXCEPT ![q] = [@ EXCEPT !.phase = ph, !.entry = e]]
        PROVE  request'[q].phase = ph
    BY <1>1, <2>5 DEF RequestRecord
  <2>6. ASSUME NEW ph, request' = [request EXCEPT ![q].phase = ph] PROVE request'[q].phase = ph
    BY <1>1, <2>6 DEF RequestRecord
  <2>7. lost' = With(lost, q, "late") => DOMAIN lost' = DOMAIN lost \cup {q}
    BY DEF With
  <2> QED BY <1>7, <2>2, <2>3, <2>4, <2>5, <2>6, <2>7 DEF Track
<1>8. ASSUME WriteThrough(q) PROVE EntriesInv'
  <2>1. request[q].phase = "writing" /\ Write(q) /\ Queue' = Queue
    BY <1>8 DEF WriteThrough, tracker, Queue
  <2>2. request'[q].phase = "done"
    BY <1>1, <1>8 DEF WriteThrough, RequestRecord
  <2>3. WithHandler' = WithHandler \ {q} /\ Tracked' = Tracked /\ q \in WithHandler
    BY <1>2, <2>1, <2>2 DEF WithHandler, Tracked
  <2>4. \/ DOMAIN usageLog' = DOMAIN usageLog \cup {q} /\ DOMAIN lost' = DOMAIN lost
        \/ DOMAIN usageLog' = DOMAIN usageLog /\ DOMAIN lost' = DOMAIN lost \cup {q}
    BY <2>1, WriteMoves
  <2>5. Conserved(ToSet(Queue'), WithHandler', DOMAIN usageLog', DOMAIN lost', Tracked')
    BY <1>3, <2>1, <2>3, <2>4 DEF Conserved
  <2>6. LostAreOver'
    BY <1>2, <2>2, <2>4 DEF EntriesInv, LostAreOver
  <2> QED BY <1>3, <2>1, <2>5, <2>6, InSetsNext DEF EntriesInv
<1> QED BY <1>5, <1>6, <1>7, <1>8

\* A restart loses what was in memory, and says so.
LEMMA RestartConserves ==
  ASSUME MeterTyped, EntriesInv, Restart
  PROVE  EntriesInv'
<1>1. Conserved(ToSet(Queue), WithHandler, DOMAIN usageLog, DOMAIN lost, Tracked)
  BY InSets DEF EntriesInv
<1>2. Queue' = <<>> /\ ToSet(Queue') = {} /\ Distinct(Queue')
  BY QueueMoves DEF Restart, Queue, ToSet, Distinct
<1>3. DOMAIN lost' = DOMAIN lost \cup ToSet(Queue) \cup WithHandler /\ usageLog' = usageLog
  BY DEF Restart, InMemory, Queue, WithHandler
<1>4. ASSUME NEW q \in Requests
      PROVE  request'[q].phase = IF request[q].phase \in UnderWay THEN "gone" ELSE request[q].phase
  BY DEF Restart, MeterTyped, RequestsTyped, RequestRecord
<1>5. WithHandler' = {} /\ Tracked' = Tracked \ WithHandler
  BY <1>4 DEF WithHandler, Tracked, UnderWay
<1>6. Conserved(ToSet(Queue'), WithHandler', DOMAIN usageLog', DOMAIN lost', Tracked')
  BY <1>1, <1>2, <1>3, <1>5 DEF Conserved
<1>7. LostAreOver'
  <2>1. ASSUME NEW q \in DOMAIN lost PROVE q \in Requests /\ request'[q].phase \in {"done", "gone"}
    BY <1>4, <2>1 DEF EntriesInv, LostAreOver, UnderWay
  <2>2. ASSUME NEW q \in ToSet(Queue) \cup WithHandler
        PROVE  q \in Requests /\ request'[q].phase \in {"done", "gone"}
    <3>1. q \in Tracked \cup DOMAIN lost
      BY <1>1, <2>2 DEF Conserved
    <3> QED BY <1>4, <2>1, <3>1 DEF Tracked, UnderWay
  <2> QED BY <1>3, <2>1, <2>2 DEF LostAreOver
<1> QED BY <1>2, <1>6, <1>7, InSetsNext DEF EntriesInv

\* The entries of tracked requests stay where they were put.
THEOREM EntriesInvariant == Spec => []EntriesInv
<1>1. ASSUME MeterTyped, EntriesInv, [Next]_vars PROVE EntriesInv'
  <2>1. ASSUME UNCHANGED <<request, tracker, lost>>, DOMAIN usageLog' = DOMAIN usageLog PROVE EntriesInv'
    <3>1. Queue' = Queue /\ WithHandler' = WithHandler /\ Tracked' = Tracked
      BY <2>1 DEF tracker, Queue, WithHandler, Tracked
    <3> QED BY <1>1, <2>1, <3>1, InSets, InSetsNext DEF EntriesInv, LostAreOver
  <2>2. ASSUME NEW q \in Requests, Reprice(q) PROVE EntriesInv'
    <3>1. DOMAIN usageLog' = DOMAIN usageLog
      BY <2>2 DEF Reprice
    <3> QED BY <2>1, <2>2, <3>1 DEF Reprice, history
  <2>3. ASSUME NEW q \in Requests,
               \/ \E k \in Keys \cup {NoKey} : Arrive(q, k)
               \/ EndUntracked(q) \/ Track(q) \/ WriteThrough(q)
        PROVE  EntriesInv'
    BY <1>1, <2>3, HandlerConserves
  <2>4. CASE TrackerStep
    BY <1>1, <2>4, TrackerConserves
  <2>5. CASE Restart
    BY <1>1, <2>5, RestartConserves
  <2> QED BY <1>1, <2>1, <2>2, <2>3, <2>4, <2>5
    DEF Next, vars, history, Shutdown, ServerStep, CloseTracker, CloseStore, EditKey, DeleteKey, DeleteConnection,
        PriceChange, ListRows, Clock, Maintain
<1> QED BY <1>1, EntriesInit, MeteringTypes, PTL DEF Spec

\* No entry is dropped or written twice, on any way through the full
\* channel, the batches, the close, a refused write or a restart.
THEOREM EntriesAreConservedHolds == Spec => []EntriesAreConserved
<1>1. EntriesInv => EntriesAreConserved
  BY DEF EntriesInv
<1> QED BY <1>1, EntriesInvariant, PTL

-----------------------------------------------------------------------------
(* The close of the tracker.                                               *)

\* The worker ends after the handlers were waited for, and they are all
\* through unless the wait was given up.
DrainInv ==
  /\ worker \in {"draining", "stopped"} => server \in {"closing", "stopped"}
  /\ server \in {"closing", "stopped"} => timedOut \/ Busy = {}

LEMMA DrainStep ==
  ASSUME MeterTyped, DrainInv, [Next]_vars
  PROVE  DrainInv'
<1>1. request \in [Requests -> RequestRecord]
  BY DEF MeterTyped, RequestsTyped
<1>2. ASSUME UNCHANGED process, Busy' \subseteq Busy, worker' = worker PROVE DrainInv'
  BY <1>2 DEF DrainInv, process
<1>3. ASSUME NEW q \in Requests, NEW k \in Keys \cup {NoKey}, Arrive(q, k) PROVE DrainInv'
  BY <1>3 DEF Arrive, DrainInv, process, tracker
<1>4. ASSUME NEW q \in Requests, EndUntracked(q) \/ Track(q) \/ WriteThrough(q) PROVE DrainInv'
  <2>1. \A p \in Requests \ {q} : request'[p].phase = request[p].phase
    BY <1>1, <1>4 DEF EndUntracked, Track, WriteThrough
  <2>2. q \in Busy
    BY <1>4 DEF EndUntracked, Track, WriteThrough, Busy, UnderWay
  <2>3. Busy' \subseteq Busy
    BY <2>1, <2>2 DEF Busy
  <2> QED BY <1>2, <1>4, <2>3 DEF EndUntracked, Track, WriteThrough, tracker, process
<1>5. ASSUME UNCHANGED request PROVE Busy' = Busy
  BY <1>5 DEF Busy
<1>6. ASSUME TrackerStep PROVE DrainInv'
  <2>1. UNCHANGED <<request, process>>
    BY <1>6 DEF TrackerStep, Take, FlushTick, FlushEntry, FlushEnds, SeeDone
  <2>2. worker' \in {"draining", "stopped"} => worker \in {"draining", "stopped"} \/ server = "closing"
    BY <1>6 DEF TrackerStep, Take, FlushTick, FlushEntry, FlushEnds, SeeDone
  <2> QED BY <1>5, <2>1, <2>2 DEF DrainInv, process
<1>7. ASSUME Shutdown \/ ServerStep PROVE DrainInv'
  BY <1>5, <1>7 DEF Shutdown, ServerStep, CloseTracker, CloseStore, Drained, DrainInv, tracker
<1>8. ASSUME Restart PROVE DrainInv'
  BY <1>8 DEF Restart, DrainInv
<1>9. ASSUME UNCHANGED <<request, worker, process>> PROVE DrainInv'
  BY <1>2, <1>5, <1>9
<1> QED BY <1>3, <1>4, <1>6, <1>7, <1>8, <1>9
  DEF Next, vars, tracker, Reprice, EditKey, DeleteKey, DeleteConnection, PriceChange, ListRows, Clock, Maintain

\* The tracker refuses an entry as late only if the drain of the handlers
\* was given up: Close comes after Shutdown has waited for them.
THEOREM LateOnlyAfterTimeoutHolds == Spec => LateOnlyAfterTimeout
<1>1. Init => DrainInv
  BY DEF Init, ProcessStart, DrainInv
<1>2. ASSUME MeterTyped, DrainInv, [Next]_vars
      PROVE  [\A q \in DOMAIN lost' \ DOMAIN lost : lost'[q] = "late" => timedOut]_vars
  <2> SUFFICES ASSUME NEW p \in DOMAIN lost' \ DOMAIN lost, lost'[p] = "late" PROVE timedOut
    OBVIOUS
  <2>1. ASSUME NEW q \in Requests, Track(q) PROVE timedOut
    <3>1. CASE worker \in {"draining", "stopped"}
      BY <1>2, <2>1, <3>1 DEF Track, DrainInv, Busy, UnderWay
    <3>2. CASE lost' = lost
      BY <3>2
    <3> QED BY <2>1, <3>1, <3>2 DEF Track
  <2>2. ASSUME NEW q, Write(q) PROVE FALSE
    <3>1. lost' = With(lost, q, "store")
      BY <2>2 DEF Write
    <3> QED BY <3>1 DEF With
  <2>3. ASSUME Restart PROVE FALSE
    BY <2>3 DEF Restart
  <2> QED BY <1>2, <2>1, <2>2, <2>3
    DEF Next, vars, history, Arrive, EndUntracked, WriteThrough, Reprice, TrackerStep, Take, FlushTick, FlushEntry,
        FlushEnds, SeeDone, Shutdown, ServerStep, CloseTracker, CloseStore, EditKey, DeleteKey, DeleteConnection,
        PriceChange, ListRows, Clock, Maintain
<1>3. MeterTyped /\ DrainInv /\ [Next]_vars => DrainInv'
  BY DrainStep
<1> QED BY <1>1, <1>2, <1>3, MeteringTypes, PTL DEF Spec, LateOnlyAfterTimeout

-----------------------------------------------------------------------------
(* Charges.                                                                *)

Kept(q) ==
  /\ q \in DOMAIN usageLog'
  /\ usageLog[q].cost > 0 => usageLog'[q].cost > 0
  /\ usageLog'[q].source = usageLog[q].source

\* A write makes a row of an entry that has none.
LEMMA WriteKeeps ==
  ASSUME NEW p, Write(p), p \notin DOMAIN usageLog, NEW q \in DOMAIN usageLog
  PROVE  Kept(q)
BY DEF Write, With, Kept

\* A cost is changed to a price there is, never to none.
LEMMA RepriceKeeps ==
  ASSUME MeterTyped, NEW p \in Requests, Reprice(p), NEW q \in DOMAIN usageLog
  PROVE  Kept(q)
<1>1. price \in Nat /\ recompute[p] \in Nat /\ p \in DOMAIN usageLog /\ usageLog[p] \in RowRecord
  BY DEF MeterTyped, RowsTyped, Reprice
<1>2. CASE UNCHANGED usageLog
  BY <1>2 DEF Kept
<1>3. CASE Repriced(recompute[p]) /\ usageLog' = [usageLog EXCEPT ![p].cost = price, ![p].repriced = TRUE]
  <2>1. price > 0
    BY <1>1, <1>3 DEF Repriced
  <2>2. usageLog'[p].cost = price /\ usageLog'[p].source = usageLog[p].source
    BY <1>1, <1>3 DEF RowRecord
  <2>3. q # p => usageLog'[q] = usageLog[q]
    BY <1>3
  <2>4. q \in DOMAIN usageLog'
    BY <1>3
  <2> QED BY <2>1, <2>2, <2>3, <2>4 DEF Kept
<1> QED BY <1>2, <1>3 DEF Reprice

\* No write, recomputation or restart takes a charge back.
THEOREM ChargesAreKeptHolds == Spec => ChargesAreKept
<1>1. ASSUME MeterTyped, EntriesInv, [Next]_vars, NEW q \in DOMAIN usageLog PROVE Kept(q)
  <2>1. ASSUME UNCHANGED usageLog PROVE Kept(q)
    BY <2>1 DEF Kept
  <2>2. ASSUME NEW p \in Requests, WriteThrough(p) PROVE Kept(q)
    <3>1. p \in WithHandler
      BY <2>2 DEF WriteThrough, WithHandler
    <3>2. p \notin DOMAIN usageLog
      BY <1>1, <3>1, InSets DEF EntriesInv, Conserved
    <3> QED BY <2>2, <3>2, WriteKeeps DEF WriteThrough
  <2>3. ASSUME FlushEntry PROVE Kept(q)
    <3>1. batch # <<>> /\ Write(Head(batch)) /\ batch \in Seq(Requests) /\ buffer \in Seq(Requests)
      BY <1>1, <2>3 DEF FlushEntry, MeterTyped, QueueTyped
    <3>2. Queue \in Seq(Requests) /\ Queue # <<>> /\ Head(Queue) = Head(batch)
      BY <3>1, QueueMoves DEF Queue
    <3>3. Head(batch) \in ToSet(Queue)
      BY <1>1, <3>2, TailDistinct, InSets DEF EntriesInv
    <3>4. Head(batch) \notin DOMAIN usageLog
      BY <1>1, <3>3, InSets DEF EntriesInv, Conserved
    <3> QED BY <3>1, <3>4, WriteKeeps
  <2>4. ASSUME NEW p \in Requests, Reprice(p) PROVE Kept(q)
    BY <1>1, <2>4, RepriceKeeps
  <2> QED BY <1>1, <2>1, <2>2, <2>3, <2>4
    DEF Next, vars, Arrive, EndUntracked, Track, TrackerStep, Take, FlushTick, FlushEnds, SeeDone, Shutdown, ServerStep,
        CloseTracker, CloseStore, Restart, EditKey, DeleteKey, DeleteConnection, PriceChange, ListRows, Clock, Maintain
<1>2. MeterTyped /\ EntriesInv /\ [Next]_vars =>
        [\A q \in DOMAIN usageLog :
           /\ q \in DOMAIN usageLog'
           /\ usageLog[q].cost > 0 => usageLog'[q].cost > 0
           /\ usageLog'[q].source = usageLog[q].source]_vars
  BY <1>1 DEF Kept
<1> QED BY <1>2, EntriesInvariant, MeteringTypes, PTL DEF Spec, ChargesAreKept

-----------------------------------------------------------------------------
(* The budget.                                                             *)

\* The rows of k the check of its last admission could see, as it saw them.
SeenRows(k) == {q \in RowsOf(k) \ unseen[k] : ~usageLog[q].repriced}

\* Rows are of this month or an earlier one, and every request of k that
\* may still get a row was under way when k was last admitted.
BudgetInv ==
  /\ IsFiniteSet(DOMAIN usageLog)
  /\ \A q \in DOMAIN usageLog : usageLog[q].month <= Month(now)
  /\ unseen \in [Keys -> SUBSET Requests]
  /\ \A k \in Keys : Unwritten(k) \subseteq unseen[k]
  /\ OverrunIsUnseen

\* What the rest of the proof uses of the other invariants.
RowsAreDone ==
  \A q \in DOMAIN usageLog : /\ q \in Requests /\ request[q].phase = "done"
                             /\ usageLog[q].cost \in Nat /\ usageLog[q].month \in Int

LEMMA RowsAreDoneHolds ==
  ASSUME MeterTyped, EntriesInv
  PROVE  RowsAreDone
<1> SUFFICES ASSUME NEW q \in DOMAIN usageLog
             PROVE  /\ q \in Requests /\ request[q].phase = "done"
                    /\ usageLog[q].cost \in Nat /\ usageLog[q].month \in Int
  BY DEF RowsAreDone
<1>1. q \in Tracked /\ q \notin WithHandler
  BY InSets DEF EntriesInv, Conserved
<1>2. usageLog[q] \in RowRecord
  BY DEF MeterTyped, RowsTyped
<1> QED BY <1>1, <1>2 DEF Tracked, WithHandler, RowRecord

\* The months go by with the clock.
LEMMA MonthsGoBy ==
  ASSUME NEW t \in Nat
  PROVE  Month(t) \in Int /\ Month(t + 1) \in Int /\ Month(t) <= Month(t + 1)
<1>1. MonthLength \in Nat /\ MonthLength > 0
  BY MeteringAssumption
<1> QED BY <1>1 DEF Month

\* Fewer rows of the same costs cost no more.
LEMMA FewerRowsCostLess ==
  ASSUME IsFiniteSet(DOMAIN usageLog), RowsAreDone, NEW S \in SUBSET DOMAIN usageLog, NEW T \in SUBSET S
  PROVE  /\ SumOfCosts(S) \in Nat /\ SumOfCosts(T) \in Nat
         /\ SumOfCosts(T) <= SumOfCosts(S)
<1> DEFINE f == [q \in S |-> usageLog[q].cost]
           g == [q \in T |-> usageLog[q].cost]
<1>1. IsFiniteSet(S) /\ IsFiniteSet(T)
  BY FS_Subset
<1>2. (\A q \in S : f[q] \in Nat) /\ (\A q \in T : g[q] \in Nat /\ f[q] = g[q])
  BY DEF RowsAreDone
<1> HIDE DEF f, g
<1>3. SumFunctionOnSet(f, S) \in Nat /\ SumFunctionOnSet(g, T) \in Nat
  BY <1>1, <1>2, SumIsNat
<1>4. SumFunctionOnSet(f, T) = SumFunctionOnSet(g, T)
  BY <1>1, <1>2, SumAgrees
<1>5. SumFunctionOnSet(f, T) <= SumFunctionOnSet(f, S)
  BY <1>1, <1>2, SumGrows
<1> QED BY <1>3, <1>4, <1>5 DEF SumOfCosts, f, g

\* A step that adds nothing to the rows that were seen keeps the budget.
LEMMA NothingMoreIsSeen ==
  ASSUME BudgetInv, RowsAreDone, NEW k \in Keys, SeenRows(k)' \subseteq SeenRows(k),
         \A q \in SeenRows(k)' : usageLog'[q].cost = usageLog[q].cost, Budget > 0
  PROVE  SumOfCosts(SeenRows(k))' < Budget
<1>1. SumOfCosts(SeenRows(k)) < Budget
  BY DEF BudgetInv, OverrunIsUnseen, SeenRows
<1>2. SeenRows(k) \subseteq DOMAIN usageLog
  BY DEF SeenRows, RowsOf
<1>3. IsFiniteSet(SeenRows(k)')
  BY <1>2, FS_Subset DEF BudgetInv
<1> DEFINE T == SeenRows(k)'
<1>4. /\ SumOfCosts(SeenRows(k)) \in Nat /\ SumOfCosts(T) \in Nat
      /\ SumOfCosts(T) <= SumOfCosts(SeenRows(k))
  BY <1>2, FewerRowsCostLess DEF BudgetInv
<1>5. SumFunctionOnSet([q \in T |-> usageLog'[q].cost], T) = SumFunctionOnSet([q \in T |-> usageLog[q].cost], T)
  <2>1. [q \in T |-> usageLog'[q].cost] = [q \in T |-> usageLog[q].cost]
    OBVIOUS
  <2> QED BY <2>1
<1> HIDE DEF T
<1> QED BY <1>1, <1>4, <1>5, MeteringAssumption DEF SumOfCosts, T

\* No rows cost nothing.
LEMMA NothingIsSeen ==
  ASSUME NEW k \in Keys, SeenRows(k)' = {}, Budget > 0
  PROVE  SumOfCosts(SeenRows(k))' < Budget
BY SumOfNothing DEF SumOfCosts

\* Requests do not get under way, and those that are over stay as they are.
NoneIsAdmitted ==
  \A q \in Requests :
    /\ request'[q].phase \in UnderWay \cup {"done"} =>
         request[q].phase \in UnderWay \cup {"done"} /\ request'[q].key = request[q].key
    /\ request[q].phase = "done" => request'[q] = request[q]

\* New rows are those of entries that were waiting for it, and of this month;
\* an old row is as it was or marked as repriced.
OnlyWaitingAreWritten ==
  /\ IsFiniteSet(DOMAIN usageLog') /\ DOMAIN usageLog \subseteq DOMAIN usageLog'
  /\ \A q \in DOMAIN usageLog' \ DOMAIN usageLog :
       /\ q \in Requests /\ request[q].phase \in UnderWay \cup {"done"} /\ q \notin DOMAIN lost
       /\ request'[q].key = request[q].key /\ usageLog'[q].month = Month(now)
  /\ \A q \in DOMAIN usageLog :
       /\ usageLog'[q].month = usageLog[q].month
       /\ usageLog'[q] = usageLog[q] \/ usageLog'[q].repriced

\* A step at which no key is admitted and no time goes by.
LEMMA BudgetKept ==
  ASSUME BudgetInv, RowsAreDone, NoneIsAdmitted, OnlyWaitingAreWritten,
         UNCHANGED <<now, unseen>>, DOMAIN lost \subseteq DOMAIN lost', now \in Nat
  PROVE  BudgetInv'
<1>1. ASSUME NEW k \in Keys PROVE Unwritten(k)' \subseteq unseen[k]
  <2>1. Unwritten(k)' \subseteq Unwritten(k)
    BY DEF Unwritten, NoneIsAdmitted, OnlyWaitingAreWritten
  <2> QED BY <2>1 DEF BudgetInv
<1>2. Month(now)' = Month(now)
  BY DEF Month
<1>3. ASSUME NEW q \in DOMAIN usageLog' PROVE usageLog'[q].month <= Month(now)
  <2>1. Month(now) \in Int
    BY MonthsGoBy
  <2> QED BY <2>1 DEF BudgetInv, OnlyWaitingAreWritten
<1>4. ASSUME NEW k \in Keys, Budget > 0 PROVE SumOfCosts(SeenRows(k))' < Budget
  <2>1. ASSUME NEW q \in SeenRows(k)' PROVE q \in SeenRows(k) /\ usageLog'[q].cost = usageLog[q].cost
    <3>1. /\ q \in DOMAIN usageLog' /\ request'[q].key = k /\ usageLog'[q].month = Month(now)
          /\ q \notin unseen[k] /\ ~usageLog'[q].repriced
      BY <1>2 DEF SeenRows, RowsOf
    <3>2. q \in DOMAIN usageLog
      <4>1. SUFFICES ASSUME q \notin DOMAIN usageLog PROVE FALSE
        OBVIOUS
      <4>2. q \in Requests /\ request[q].phase \in UnderWay \cup {"done"} /\ q \notin DOMAIN lost
        BY <3>1, <4>1 DEF OnlyWaitingAreWritten
      <4>3. q \notin Unwritten(k)
        BY <3>1 DEF BudgetInv
      <4>4. request[q].key # k
        BY <4>1, <4>2, <4>3 DEF Unwritten
      <4>5. request'[q].key = request[q].key
        BY <3>1, <4>1 DEF OnlyWaitingAreWritten
      <4> QED BY <3>1, <4>2, <4>4, <4>5
    <3>3. usageLog'[q] = usageLog[q]
      BY <3>1, <3>2 DEF OnlyWaitingAreWritten
    <3>4. request'[q] = request[q]
      BY <3>2 DEF RowsAreDone, NoneIsAdmitted
    <3> QED BY <3>1, <3>2, <3>3, <3>4 DEF SeenRows, RowsOf
  <2> QED BY <1>4, <2>1, NothingMoreIsSeen
<1>5. OverrunIsUnseen'
  BY <1>4 DEF OverrunIsUnseen, SeenRows
<1> QED BY <1>1, <1>2, <1>3, <1>5 DEF BudgetInv, OnlyWaitingAreWritten

\* A write by the handler or by the worker.
LEMMA WriteIsWaitedFor ==
  ASSUME BudgetInv, NEW q \in Requests, Write(q), q \notin DOMAIN lost \cup DOMAIN usageLog,
         request[q].phase \in {"writing", "done"}, request'[q].key = request[q].key
  PROVE  OnlyWaitingAreWritten /\ DOMAIN lost \subseteq DOMAIN lost'
<1> USE DEF OnlyWaitingAreWritten, BudgetInv
<1>1. CASE usageLog' = usageLog /\ lost' = With(lost, q, "store")
  BY <1>1 DEF With
<1>2. CASE /\ lost' = lost
           /\ usageLog' = With(usageLog, q, [cost |-> request[q].entry.cost, source |-> request[q].entry.source,
                                            month |-> Month(now), repriced |-> FALSE])
  <2>1. DOMAIN usageLog' = DOMAIN usageLog \cup {q} /\ IsFiniteSet(DOMAIN usageLog \cup {q})
    BY <1>2, FS_AddElement DEF With
  <2>2. usageLog'[q].month = Month(now) /\ \A p \in DOMAIN usageLog : usageLog'[p] = usageLog[p]
    BY <1>2 DEF With
  <2> QED BY <1>2, <2>1, <2>2 DEF UnderWay
<1> QED BY <1>1, <1>2 DEF Write

\* A recomputation marks the row it changes.
LEMMA RepricedIsMarked ==
  ASSUME BudgetInv, MeterTyped, NEW q \in Requests, Reprice(q)
  PROVE  OnlyWaitingAreWritten
<1> USE DEF OnlyWaitingAreWritten, BudgetInv
<1>1. CASE UNCHANGED usageLog
  BY <1>1
<1>2. CASE usageLog' = [usageLog EXCEPT ![q].cost = price, ![q].repriced = TRUE]
  <2>1. q \in DOMAIN usageLog /\ usageLog[q] \in RowRecord
    BY DEF Reprice, MeterTyped, RowsTyped
  <2>2. usageLog'[q].repriced = TRUE /\ usageLog'[q].month = usageLog[q].month
    BY <1>2, <2>1 DEF RowRecord
  <2> QED BY <1>2, <2>2
<1> QED BY <1>1, <1>2 DEF Reprice

\* The handlers' steps after admission.
LEMMA HandlerKeepsBudget ==
  ASSUME BudgetInv, MeterTyped, EntriesInv, now \in Nat, NEW q \in Requests,
         EndUntracked(q) \/ Track(q) \/ WriteThrough(q)
  PROVE  BudgetInv'
<1>1. request \in [Requests -> RequestRecord]
  BY DEF MeterTyped, RequestsTyped
<1>2. \A p \in Requests \ {q} : request'[p] = request[p]
  BY <1>1 DEF EndUntracked, Track, WriteThrough
<1>3. UNCHANGED <<now, unseen>>
  BY DEF EndUntracked, Track, WriteThrough, history
<1>4. RowsAreDone
  BY RowsAreDoneHolds
<1>5. UNCHANGED usageLog => OnlyWaitingAreWritten
  BY DEF OnlyWaitingAreWritten, BudgetInv
<1>6. CASE EndUntracked(q)
  <2>1. request[q].phase = "running" /\ request'[q].phase = "refused"
    BY <1>1, <1>6 DEF EndUntracked, NewRequest
  <2>2. NoneIsAdmitted
    BY <1>2, <2>1 DEF NoneIsAdmitted, UnderWay
  <2> QED BY <1>3, <1>4, <1>5, <1>6, <2>2, BudgetKept DEF EndUntracked, history
<1>7. CASE Track(q)
  <2>1. request[q].phase = "running" /\ request'[q].key = request[q].key
    BY <1>1, <1>7 DEF Track, RequestRecord
  <2>2. NoneIsAdmitted
    BY <1>2, <2>1 DEF NoneIsAdmitted, UnderWay
  <2>3. DOMAIN lost \subseteq DOMAIN lost'
    BY <1>7 DEF Track, With
  <2> QED BY <1>3, <1>4, <1>5, <1>7, <2>2, <2>3, BudgetKept DEF Track
<1>8. CASE WriteThrough(q)
  <2>1. request[q].phase = "writing" /\ request'[q].key = request[q].key /\ Write(q)
    BY <1>1, <1>8 DEF WriteThrough, RequestRecord
  <2>2. q \in WithHandler
    BY <2>1 DEF WithHandler
  <2>3. q \notin DOMAIN lost \cup DOMAIN usageLog
    BY <2>2, InSets DEF EntriesInv, Conserved
  <2>4. NoneIsAdmitted
    BY <1>2, <2>1 DEF NoneIsAdmitted, UnderWay
  <2> QED BY <1>3, <1>4, <2>1, <2>3, <2>4, BudgetKept, WriteIsWaitedFor
<1> QED BY <1>6, <1>7, <1>8

\* Steps that leave the requests alone.
LEMMA OthersKeepBudget ==
  ASSUME BudgetInv, MeterTyped, EntriesInv, now \in Nat, UNCHANGED <<now, unseen, request>>,
         \/ FlushEntry
         \/ \E q \in Requests : Reprice(q)
         \/ UNCHANGED <<usageLog, lost>>
  PROVE  BudgetInv'
<1>1. RowsAreDone /\ NoneIsAdmitted
  BY RowsAreDoneHolds DEF NoneIsAdmitted
<1>2. CASE FlushEntry
  <2>1. batch # <<>> /\ Write(Head(batch)) /\ batch \in Seq(Requests) /\ buffer \in Seq(Requests)
    BY <1>2 DEF FlushEntry, MeterTyped, QueueTyped
  <2>2. Queue \in Seq(Requests) /\ Queue # <<>> /\ Head(Queue) = Head(batch) /\ Head(batch) \in Requests
    BY <2>1, QueueMoves DEF Queue
  <2>3. Head(batch) \in ToSet(Queue)
    BY <2>2, TailDistinct, InSets DEF EntriesInv
  <2>4. Head(batch) \notin DOMAIN lost \cup DOMAIN usageLog /\ Head(batch) \in Tracked
    BY <2>3, InSets DEF EntriesInv, Conserved
  <2>5. OnlyWaitingAreWritten /\ DOMAIN lost \subseteq DOMAIN lost'
    BY <2>1, <2>2, <2>4, WriteIsWaitedFor DEF Tracked
  <2> QED BY <1>1, <2>5, BudgetKept
<1>3. ASSUME NEW q \in Requests, Reprice(q) PROVE BudgetInv'
  BY <1>1, <1>3, RepricedIsMarked, BudgetKept DEF Reprice, history
<1>4. CASE UNCHANGED <<usageLog, lost>>
  BY <1>1, <1>4, BudgetKept DEF OnlyWaitingAreWritten, BudgetInv
<1> QED BY <1>2, <1>3, <1>4

\* A restart ends what was under way and writes nothing.
LEMMA RestartKeepsBudget ==
  ASSUME BudgetInv, MeterTyped, EntriesInv, now \in Nat, Restart
  PROVE  BudgetInv'
<1>1. UNCHANGED <<now, usageLog, unseen>>
  BY DEF Restart
<1>2. ASSUME NEW q \in Requests
      PROVE  /\ request'[q].key = request[q].key
             /\ request'[q].phase = IF request[q].phase \in UnderWay THEN "gone" ELSE request[q].phase
             /\ request[q].phase \notin UnderWay => request'[q] = request[q]
  BY DEF Restart, MeterTyped, RequestsTyped, RequestRecord
<1>3. NoneIsAdmitted
  BY <1>2 DEF NoneIsAdmitted, UnderWay
<1>4. DOMAIN lost \subseteq DOMAIN lost'
  BY DEF Restart
<1>5. OnlyWaitingAreWritten
  BY <1>1 DEF OnlyWaitingAreWritten, BudgetInv
<1> QED BY <1>1, <1>3, <1>4, <1>5, RowsAreDoneHolds, BudgetKept

\* As the month ends its rows no longer count, and until then nothing
\* changes.
LEMMA ClockKeepsBudget ==
  ASSUME BudgetInv, MeterTyped, EntriesInv, now \in Nat, Clock
  PROVE  BudgetInv'
<1>1. now' = now + 1 /\ UNCHANGED <<request, usageLog, lost, unseen>>
  BY DEF Clock, Tick, history
<1>2. Month(now) \in Int /\ Month(now)' \in Int /\ Month(now) <= Month(now)'
  BY <1>1, MonthsGoBy DEF Month
<1>3. RowsAreDone
  BY RowsAreDoneHolds
<1>4. ASSUME NEW q \in DOMAIN usageLog PROVE usageLog[q].month \in Int /\ usageLog[q].month <= Month(now)
  BY <1>3 DEF BudgetInv, RowsAreDone
<1> HIDE DEF Month
<1>5. ASSUME NEW k \in Keys, Budget > 0 PROVE SumOfCosts(SeenRows(k))' < Budget
  <2>1. CASE Month(now)' = Month(now)
    <3>1. SeenRows(k)' = SeenRows(k)
      BY <1>1, <2>1 DEF SeenRows, RowsOf
    <3> QED BY <1>1, <1>3, <1>5, <3>1, NothingMoreIsSeen
  <2>2. CASE Month(now)' > Month(now)
    <3>1. SeenRows(k)' = {}
      BY <1>1, <1>2, <1>4, <2>2 DEF SeenRows, RowsOf
    <3> QED BY <1>5, <3>1, NothingIsSeen
  <2> QED BY <1>2, <2>1, <2>2
<1>6. OverrunIsUnseen'
  BY <1>5 DEF OverrunIsUnseen, SeenRows
<1>7. \A k \in Keys : Unwritten(k)' = Unwritten(k)
  BY <1>1 DEF Unwritten
<1>8. \A q \in DOMAIN usageLog : usageLog[q].month <= Month(now)'
  BY <1>2, <1>4
<1> QED BY <1>1, <1>6, <1>7, <1>8 DEF BudgetInv

\* A key is admitted within its budget, and all of its requests that have no
\* row by then are noted as unseen.
LEMMA ArrivalKeepsBudget ==
  ASSUME BudgetInv, MeterTyped, EntriesInv, now \in Nat,
         NEW q \in Requests, NEW j \in Keys \cup {NoKey}, Arrive(q, j)
  PROVE  BudgetInv'
<1>1. request[q].phase = "idle" /\ UNCHANGED <<now, usageLog, lost>>
  BY DEF Arrive
<1>2. request \in [Requests -> RequestRecord] /\ RowsAreDone
  BY RowsAreDoneHolds DEF MeterTyped, RequestsTyped
<1>3. CASE Refused(j) /\ request' = [request EXCEPT ![q].phase = "refused"]
  <2>1. NoneIsAdmitted
    BY <1>1, <1>2, <1>3 DEF NoneIsAdmitted, UnderWay, RequestRecord
  <2> QED BY <1>1, <1>2, <1>3, <2>1, BudgetKept DEF Refused, OnlyWaitingAreWritten, BudgetInv
<1>4. ASSUME Admitted(q, j), NEW c \in registered,
             request' = [request EXCEPT ![q] = [@ EXCEPT !.phase = "running", !.key = j, !.conn = c]]
      PROVE  BudgetInv'
  <2>1. request'[q].phase = "running" /\ request'[q].key = j /\ \A p \in Requests \ {q} : request'[p] = request[p]
    BY <1>2, <1>4 DEF RequestRecord
  <2>2. \A p \in DOMAIN usageLog : p \in Requests /\ p # q /\ request'[p] = request[p]
    BY <1>1, <1>2, <2>1 DEF RowsAreDone
  <2>3. ASSUME NEW k \in Keys
        PROVE  Unwritten(k)' = IF k = j THEN Unwritten(k) \cup {q} ELSE Unwritten(k)
    <3>1. q \notin DOMAIN usageLog /\ q \notin DOMAIN lost
      BY <1>1, <2>2 DEF EntriesInv, LostAreOver
    <3>2. \A p \in Requests \ {q} : p \in Unwritten(k)' <=> p \in Unwritten(k)
      BY <1>1, <2>1 DEF Unwritten
    <3>3. q \notin Unwritten(k) /\ (q \in Unwritten(k)' <=> k = j)
      BY <1>1, <2>1, <3>1 DEF Unwritten, UnderWay
    <3> QED BY <3>2, <3>3 DEF Unwritten
  <2>4. ASSUME NEW k \in Keys
        PROVE  unseen'[k] = (IF k = j THEN Unwritten(k) \cup {q} ELSE unseen[k]) /\ unseen'[k] \subseteq Requests
    <3>1. CASE j = NoKey
      BY <1>4, <3>1, MeteringAssumption DEF Admitted, BudgetInv
    <3>2. CASE j # NoKey
      <4>1. unseen' = [unseen EXCEPT ![j] = Unwritten(j) \cup {q}] /\ unseen \in [Keys -> SUBSET Requests]
        BY <1>4, <3>2 DEF Admitted, BudgetInv
      <4>2. Unwritten(j) \subseteq Requests
        BY DEF Unwritten
      <4> HIDE DEF Unwritten
      <4> QED BY <4>1, <4>2
    <3> QED BY <3>1, <3>2
  <2>5. unseen' \in [Keys -> SUBSET Requests]
    <3>1. unseen \in [Keys -> SUBSET Requests] /\ DOMAIN unseen' = DOMAIN unseen
      BY <1>4 DEF Admitted, BudgetInv
    <3>2. unseen' = [k \in Keys |-> unseen'[k]]
      BY <1>4, <3>1 DEF Admitted
    <3> QED BY <2>4, <3>2
  <2>6. Month(now)' = Month(now)
    BY <1>1 DEF Month
  <2>7. ASSUME NEW k \in Keys, Budget > 0 PROVE SumOfCosts(SeenRows(k))' < Budget
    <3>1. RowsOf(k)' = RowsOf(k)
      BY <1>1, <2>2, <2>6 DEF RowsOf
    <3>2. CASE k # j
      <4>1. SeenRows(k)' = SeenRows(k)
        BY <1>1, <2>4, <3>1, <3>2 DEF SeenRows
      <4> QED BY <1>1, <1>2, <2>7, <4>1, NothingMoreIsSeen
    <3>3. CASE k = j
      <4>1. MonthlySpend(k) < Budget
        BY <1>4, <2>7, <3>3, MeteringAssumption DEF Admitted, WithinBudget
      <4>2. SeenRows(k)' \subseteq RowsOf(k) /\ RowsOf(k) \subseteq DOMAIN usageLog
        BY <3>1 DEF SeenRows, RowsOf
      <4> DEFINE S == SeenRows(k)'
      <4>3. /\ SumOfCosts(RowsOf(k)) \in Nat /\ SumOfCosts(S) \in Nat
            /\ SumOfCosts(S) <= SumOfCosts(RowsOf(k))
        BY <1>2, <4>2, FewerRowsCostLess DEF BudgetInv
      <4>4. SumOfCosts(SeenRows(k))' = SumOfCosts(S)
        BY <1>1 DEF SumOfCosts
      <4> HIDE DEF S
      <4> QED BY <4>1, <4>3, <4>4, MeteringAssumption DEF MonthlySpend
    <3> QED BY <3>2, <3>3
  <2>8. OverrunIsUnseen'
    BY <2>7 DEF OverrunIsUnseen, SeenRows
  <2>9. \A k \in Keys : Unwritten(k)' \subseteq unseen'[k]
    BY <2>3, <2>4 DEF BudgetInv
  <2> QED BY <1>1, <2>5, <2>6, <2>8, <2>9 DEF BudgetInv
<1> QED BY <1>3, <1>4 DEF Arrive

LEMMA BudgetInit == Init => BudgetInv
<1> SUFFICES ASSUME Init PROVE BudgetInv
  OBVIOUS
<1>1. DOMAIN usageLog = {} /\ unseen = [k \in Keys |-> {}] /\ request = [q \in Requests |-> NewRequest]
  BY DEF Init
<1>2. \A k \in Keys : Unwritten(k) = {}
  BY <1>1 DEF Unwritten, NewRequest, UnderWay
<1>3. ASSUME NEW k \in Keys, Budget > 0 PROVE SumOfCosts(SeenRows(k)) < Budget
  <2>1. SeenRows(k) = {}
    BY <1>1 DEF SeenRows, RowsOf
  <2> QED BY <1>3, <2>1, SumOfNothing DEF SumOfCosts
<1>4. OverrunIsUnseen
  BY <1>3 DEF OverrunIsUnseen, SeenRows
<1> QED BY <1>1, <1>2, <1>4, FS_EmptySet DEF BudgetInv

\* Whatever is written, recomputed, deleted or edited in between, what a key
\* has spent in a month beyond its budget was under way when it was last
\* admitted.
THEOREM OverrunIsUnseenHolds == Spec => []OverrunIsUnseen
<1>1. ASSUME BudgetInv, MeterTyped, AdmissionInv, EntriesInv, [Next]_vars PROVE BudgetInv'
  <2>1. now \in Nat
    BY <1>1 DEF AdmissionInv, LimiterInv, LimiterTypeOK
  <2>2. ASSUME UNCHANGED <<now, unseen, request>>,
               FlushEntry \/ (\E q \in Requests : Reprice(q)) \/ UNCHANGED <<usageLog, lost>>
        PROVE  BudgetInv'
    BY <1>1, <2>1, <2>2, OthersKeepBudget
  <2>3. ASSUME NEW q \in Requests, NEW k \in Keys \cup {NoKey}, Arrive(q, k) PROVE BudgetInv'
    BY <1>1, <2>1, <2>3, ArrivalKeepsBudget
  <2>4. ASSUME NEW q \in Requests, EndUntracked(q) \/ Track(q) \/ WriteThrough(q) PROVE BudgetInv'
    BY <1>1, <2>1, <2>4, HandlerKeepsBudget
  <2>5. ASSUME NEW q \in Requests, Reprice(q) PROVE BudgetInv'
    BY <2>2, <2>5 DEF Reprice, history
  <2>6. CASE TrackerStep
    BY <2>2, <2>6 DEF TrackerStep, Take, FlushTick, FlushEntry, FlushEnds, SeeDone, history
  <2>7. CASE Restart
    BY <1>1, <2>1, <2>7, RestartKeepsBudget
  <2>8. CASE Clock
    BY <1>1, <2>1, <2>8, ClockKeepsBudget
  <2> QED BY <1>1, <2>2, <2>3, <2>4, <2>5, <2>6, <2>7, <2>8
    DEF Next, vars, history, Shutdown, ServerStep, CloseTracker, CloseStore, EditKey, DeleteKey, DeleteConnection,
        PriceChange, ListRows, Maintain
<1>2. BudgetInv => OverrunIsUnseen
  BY DEF BudgetInv
<1> QED BY <1>1, <1>2, BudgetInit, EntriesInvariant, MeteringTypes, PTL DEF Spec

=============================================================================
