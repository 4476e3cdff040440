------------------------ MODULE SmartRouting_proofs -------------------------
(***************************************************************************)
(* What the smart router promises, for any conversations, requests, sizes, *)
(* TTL and catalog.                                                        *)
(*                                                                         *)
(* Of its stores: the maps, the orders they are evicted in and the size go *)
(* together whoever expires, evicts and renews in between, and nothing is  *)
(* forgotten without a reason.                                             *)
(*                                                                         *)
(* Of its choice: the model a request is sent to is active, permitted, and *)
(* able if any is, and the one the conversation was at where that still    *)
(* is, through every filter, sort and fallback on the way.                 *)
(***************************************************************************)
EXTENDS SmartRouting, FoldLemmas

-----------------------------------------------------------------------------
(* Sequences.                                                              *)

Distinct(s) == \A i, j \in DOMAIN s : s[i] = s[j] => i = j

\* The places of r in s, when r is s with some of its elements left out.
Embeds(g, r, s) ==
  /\ g \in [1 .. Len(r) -> 1 .. Len(s)]
  /\ \A i, j \in 1 .. Len(r) : i < j => g[i] < g[j]
  /\ \A i \in 1 .. Len(r) : r[i] = s[g[i]]
IsPart(r, s) == \E g : Embeds(g, r, s)

\* A part of a sequence has its elements, without repetition if it had none.
LEMMA PartIsLess ==
  ASSUME NEW S, NEW s \in Seq(S), NEW r \in Seq(S), IsPart(r, s)
  PROVE  /\ ToSet(r) \subseteq ToSet(s)
         /\ Distinct(s) => Distinct(r)
<1>1. PICK g : Embeds(g, r, s)
  BY DEF IsPart
<1>2. /\ Len(s) \in Nat /\ Len(r) \in Nat /\ DOMAIN s = 1 .. Len(s) /\ DOMAIN r = 1 .. Len(r)
  OBVIOUS
<1>3. ToSet(r) \subseteq ToSet(s)
  BY <1>1, <1>2 DEF Embeds, ToSet
<1>4. ASSUME Distinct(s), NEW i \in 1 .. Len(r), NEW j \in 1 .. Len(r), r[i] = r[j] PROVE i = j
  <2>1. g[i] = g[j]
    BY <1>1, <1>2, <1>4 DEF Embeds, Distinct
  <2>2. ~(i < j) /\ ~(j < i)
    BY <1>1, <1>2, <2>1 DEF Embeds
  <2> QED BY <1>2, <2>2
<1> QED BY <1>2, <1>3, <1>4 DEF Distinct

\* What is left when the first elements are dropped.
LEMMA RestIsPart ==
  ASSUME NEW S, NEW s \in Seq(S), NEW n \in 0 .. Len(s)
  PROVE  LET r == SubSeq(s, n + 1, Len(s)) IN
         /\ r \in Seq(S) /\ Len(r) = Len(s) - n /\ IsPart(r, s)
         /\ \A i \in 1 .. Len(s) - n : r[i] = s[i + n]
<1> DEFINE r == SubSeq(s, n + 1, Len(s))
           g == [i \in 1 .. Len(s) - n |-> i + n]
<1>1. r \in Seq(S) /\ Len(r) = Len(s) - n /\ \A i \in 1 .. Len(s) - n : r[i] = s[i + n]
  OBVIOUS
<1>2. \A i \in 1 .. Len(s) - n : i + n \in 1 .. Len(s)
  OBVIOUS
<1> HIDE DEF r
<1>3. Embeds(g, r, s)
  BY <1>1, <1>2 DEF Embeds
<1> QED BY <1>1, <1>3 DEF r, IsPart

\* RemoveFirst leaves out the first place of an element, if it has one.
LEMMA RemoveFirstIs ==
  ASSUME NEW S, NEW s \in Seq(S), NEW e
  PROVE  \/ RemoveFirst(s, e) = s /\ e \notin ToSet(s)
         \/ \E n \in 1 .. Len(s) :
              /\ s[n] = e /\ \A j \in 1 .. n - 1 : s[j] # e
              /\ RemoveFirst(s, e) = SubSeq(s, 1, n - 1) \o SubSeq(s, n + 1, Len(s))
<1>1. CASE ~ \E i \in 1 .. Len(s) : s[i] = e
  BY <1>1 DEF RemoveFirst, ToSet
<1>2. CASE \E i \in 1 .. Len(s) : s[i] = e
  <2> DEFINE I == {i \in 1 .. Len(s) : s[i] = e}
             n == SelectInSeq(s, LAMBDA v : v = e)
  <2>1. n = IF I # {} THEN Min(I) ELSE 0
    BY DEF SelectInSeq
  <2>2. I # {} /\ I \subseteq Nat
    BY <1>2
  <2> HIDE DEF I
  <2>3. PICK m \in I : \A b \in I : m <= b
    BY <2>2, SmallestNatIn
  <2>4. Min(I) \in I /\ \A b \in I : Min(I) <= b
    BY <2>3 DEF Min
  <2>5. n \in I /\ \A b \in I : n <= b
    BY <2>1, <2>2, <2>4
  <2>6. RemoveFirst(s, e) = RemoveAt(s, n)
    BY <1>2 DEF RemoveFirst
  <2> HIDE DEF n
  <2>7. n \in 1 .. Len(s) /\ s[n] = e /\ \A j \in 1 .. n - 1 : s[j] # e
    BY <2>5 DEF I
  <2> QED BY <2>6, <2>7 DEF RemoveAt
<1> QED BY <1>1, <1>2

\* What is left is a part, and lacks at most that element.
LEMMA RemovedIsPart ==
  ASSUME NEW S, NEW s \in Seq(S), NEW e
  PROVE  /\ RemoveFirst(s, e) \in Seq(S) /\ IsPart(RemoveFirst(s, e), s)
         /\ Len(RemoveFirst(s, e)) = IF e \in ToSet(s) THEN Len(s) - 1 ELSE Len(s)
         /\ ToSet(s) \subseteq ToSet(RemoveFirst(s, e)) \cup {e}
         /\ Distinct(s) => e \notin ToSet(RemoveFirst(s, e))
<1>0. Len(s) \in Nat /\ DOMAIN s = 1 .. Len(s)
  OBVIOUS
<1>1. CASE RemoveFirst(s, e) = s /\ e \notin ToSet(s)
  <2> DEFINE g == [i \in 1 .. Len(s) |-> i]
  <2>1. Embeds(g, s, s)
    BY DEF Embeds
  <2> QED BY <1>1, <2>1 DEF IsPart
<1>2. ASSUME NEW n \in 1 .. Len(s), s[n] = e, \A j \in 1 .. n - 1 : s[j] # e,
             RemoveFirst(s, e) = SubSeq(s, 1, n - 1) \o SubSeq(s, n + 1, Len(s))
      PROVE  /\ RemoveFirst(s, e) \in Seq(S) /\ IsPart(RemoveFirst(s, e), s)
             /\ Len(RemoveFirst(s, e)) = IF e \in ToSet(s) THEN Len(s) - 1 ELSE Len(s)
             /\ ToSet(s) \subseteq ToSet(RemoveFirst(s, e)) \cup {e}
             /\ Distinct(s) => e \notin ToSet(RemoveFirst(s, e))
  <2> DEFINE a == SubSeq(s, 1, n - 1)
             b == SubSeq(s, n + 1, Len(s))
             r == a \o b
             g == [i \in 1 .. Len(s) - 1 |-> IF i < n THEN i ELSE i + 1]
  <2>1. a \in Seq(S) /\ Len(a) = n - 1 /\ \A i \in 1 .. n - 1 : a[i] = s[i]
    OBVIOUS
  <2>2. b \in Seq(S) /\ Len(b) = Len(s) - n /\ \A i \in 1 .. Len(s) - n : b[i] = s[i + n]
    BY RestIsPart
  <2> HIDE DEF a, b
  <2>n. n \in Nat /\ n >= 1 /\ n <= Len(s)
    BY <1>0
  <2>3. r \in Seq(S) /\ Len(r) = Len(s) - 1 /\ DOMAIN r = 1 .. Len(s) - 1
    <3>0. a \in Seq(S) /\ b \in Seq(S)
      BY <2>1, <2>2
    <3>1. r \in Seq(S) /\ Len(r) = Len(a) + Len(b) /\ DOMAIN r = 1 .. Len(r)
      BY <3>0
    <3>2. (n - 1) + (Len(s) - n) = Len(s) - 1
      BY <1>0, <2>n
    <3> QED BY <2>1, <2>2, <3>1, <3>2
  <2>4. ASSUME NEW i \in 1 .. Len(s) - 1 PROVE r[i] = s[g[i]] /\ g[i] \in 1 .. Len(s)
    <3>1. CASE i < n
      BY <2>1, <2>2, <3>1
    <3>2. CASE i >= n
      <4>1. r[i] = b[i - (n - 1)] /\ i - (n - 1) \in 1 .. Len(s) - n /\ i - (n - 1) + n = i + 1
        BY <2>1, <2>2, <3>2
      <4> QED BY <2>2, <3>2, <4>1
    <3> HIDE DEF r, g
    <3> QED BY <1>0, <2>n, <3>1, <3>2
  <2> HIDE DEF r
  <2>5. Embeds(g, r, s)
    <3>1. g \in [1 .. Len(s) - 1 -> 1 .. Len(s)]
      BY <2>4
    <3>2. \A i, j \in 1 .. Len(s) - 1 : i < j => g[i] < g[j]
      OBVIOUS
    <3> HIDE DEF g
    <3> QED BY <2>3, <2>4, <3>1, <3>2 DEF Embeds
  <2>6. \A j \in 1 .. Len(s) : j = n \/ \E i \in 1 .. Len(s) - 1 : g[i] = j
    <3> SUFFICES ASSUME NEW j \in 1 .. Len(s), j # n PROVE \E i \in 1 .. Len(s) - 1 : g[i] = j
      OBVIOUS
    <3>1. CASE j < n
      <4>1. j \in 1 .. Len(s) - 1 /\ g[j] = j
        BY <3>1
      <4> QED BY <4>1
    <3>2. CASE j > n
      <4>1. j - 1 \in 1 .. Len(s) - 1 /\ g[j - 1] = j
        BY <3>2
      <4> QED BY <4>1
    <3> QED BY <3>1, <3>2
  <2>7. \A i \in 1 .. Len(s) - 1 : g[i] # n
    OBVIOUS
  <2> HIDE DEF g
  <2>8. ToSet(s) \subseteq ToSet(r) \cup {e}
    <3> SUFFICES ASSUME NEW j \in 1 .. Len(s), s[j] # e PROVE \E i \in 1 .. Len(s) - 1 : r[i] = s[j]
      BY <1>0, <2>3 DEF ToSet
    <3> QED BY <1>2, <2>4, <2>6
  <2>9. Distinct(s) => e \notin ToSet(r)
    BY <1>0, <1>2, <2>3, <2>4, <2>7 DEF ToSet, Distinct
  <2>10. e \in ToSet(s)
    BY <1>0, <1>2 DEF ToSet
  <2> QED BY <1>2, <2>3, <2>5, <2>8, <2>9, <2>10 DEF IsPart, a, b, r
<1> QED BY <1>1, <1>2, RemoveFirstIs

\* An element that is put at the end.
LEMMA AppendedIs ==
  ASSUME NEW S, NEW s \in Seq(S), NEW e \in S
  PROVE  /\ Append(s, e) \in Seq(S) /\ Len(Append(s, e)) = Len(s) + 1
         /\ DOMAIN Append(s, e) = 1 .. Len(s) + 1 /\ Len(s) \in Nat
         /\ \A i \in 1 .. Len(s) : Append(s, e)[i] = s[i]
         /\ Append(s, e)[Len(s) + 1] = e
         /\ ToSet(Append(s, e)) = ToSet(s) \cup {e}
         /\ Distinct(s) /\ e \notin ToSet(s) => Distinct(Append(s, e))
<1>1. /\ Append(s, e) \in Seq(S) /\ Len(Append(s, e)) = Len(s) + 1
      /\ DOMAIN Append(s, e) = 1 .. Len(s) + 1 /\ Len(s) \in Nat /\ DOMAIN s = 1 .. Len(s)
      /\ \A i \in 1 .. Len(s) : Append(s, e)[i] = s[i]
      /\ Append(s, e)[Len(s) + 1] = e
  OBVIOUS
<1> DEFINE t == Append(s, e)
<1> HIDE DEF t
<1>2. \A i \in 1 .. Len(s) + 1 : i \in 1 .. Len(s) \/ i = Len(s) + 1
  BY <1>1
<1>3. Len(s) + 1 \in 1 .. Len(s) + 1 /\ \A i \in 1 .. Len(s) : i \in 1 .. Len(s) + 1
  BY <1>1
<1>4. ToSet(t) = ToSet(s) \cup {e}
  BY <1>1, <1>2, <1>3 DEF ToSet, t
<1>5. ASSUME Distinct(s), e \notin ToSet(s) PROVE Distinct(t)
  <2>1. \A i \in 1 .. Len(s) : s[i] # e
    BY <1>1, <1>5 DEF ToSet
  <2> QED BY <1>1, <1>2, <1>5, <2>1 DEF Distinct, t
<1> QED BY <1>1, <1>4, <1>5 DEF t

\* As many elements as places.
LEMMA DistinctAreCounted ==
  ASSUME NEW S, NEW s \in Seq(S), Distinct(s)
  PROVE  IsFiniteSet(ToSet(s)) /\ Cardinality(ToSet(s)) = Len(s)
<1>1. Len(s) \in Nat /\ DOMAIN s = 1 .. Len(s) /\ s = [i \in 1 .. Len(s) |-> s[i]]
  OBVIOUS
<1>2. IsFiniteSet(1 .. Len(s)) /\ Cardinality(1 .. Len(s)) = Len(s)
  <2>1. IsFiniteSet(1 .. Len(s)) /\ Cardinality(1 .. Len(s)) = IF 1 > Len(s) THEN 0 ELSE Len(s) - 1 + 1
    <3> DEFINE n == Len(s)
    <3>1. 1 \in Int /\ n \in Int
      BY <1>1
    <3> HIDE DEF n
    <3>2. IsFiniteSet(1 .. n) /\ Cardinality(1 .. n) = IF 1 > n THEN 0 ELSE n - 1 + 1
      BY <3>1, FS_Interval
    <3> QED BY <3>2 DEF n
  <2> QED BY <1>1, <2>1
<1>3. s \in Surjection(1 .. Len(s), ToSet(s))
  BY <1>1 DEF Surjection, ToSet
<1>4. s \in Injection(1 .. Len(s), ToSet(s))
  BY <1>1, <1>3 DEF Injection, Surjection, Distinct, IsInjective
<1> QED BY <1>2, <1>3, <1>4, FS_Surjection

-----------------------------------------------------------------------------
(* The sessions.                                                           *)

Keys == Conversations \cup {Nobody}

\* The places of the order are in the order of last use.
InOrderOfUse(order, table) ==
  \A i, j \in DOMAIN order : i <= j => table[order[i]].usedAt <= table[order[j]].usedAt

\* Every session has one place in the order.
SessionsInv ==
  /\ sessionOrder \in Seq(Keys) /\ Distinct(sessionOrder)
  /\ ToSet(sessionOrder) = DOMAIN sessions
  /\ Len(sessionOrder) <= MaxSessions
  /\ \A k \in DOMAIN sessions : sessions[k].usedAt \in Nat /\ sessions[k].usedAt <= now
  /\ InOrderOfUse(sessionOrder, sessions)

\* A part of the order is in the order of use too, and stays so when the
\* sessions in it are not touched.
LEMMA PartIsInOrder ==
  ASSUME NEW S, NEW s \in Seq(S), NEW r \in Seq(S), IsPart(r, s), NEW table, NEW other,
         InOrderOfUse(s, table), \A k \in ToSet(r) : other[k] = table[k]
  PROVE  InOrderOfUse(r, other)
<1>1. PICK g : Embeds(g, r, s)
  BY DEF IsPart
<1>2. /\ Len(s) \in Nat /\ Len(r) \in Nat /\ DOMAIN s = 1 .. Len(s) /\ DOMAIN r = 1 .. Len(r)
  OBVIOUS
<1>3. ASSUME NEW i \in 1 .. Len(r), NEW j \in 1 .. Len(r), i <= j
      PROVE  other[r[i]].usedAt <= other[r[j]].usedAt
  <2>1. /\ g[i] \in 1 .. Len(s) /\ g[j] \in 1 .. Len(s) /\ r[i] = s[g[i]] /\ r[j] = s[g[j]]
        /\ i < j => g[i] < g[j]
    BY <1>1 DEF Embeds
  <2>2. g[i] <= g[j]
    BY <1>2, <1>3, <2>1
  <2>3. other[r[i]] = table[r[i]] /\ other[r[j]] = table[r[j]]
    BY <1>2 DEF ToSet
  <2> QED BY <1>2, <2>1, <2>2, <2>3 DEF InOrderOfUse
<1> QED BY <1>2, <1>3 DEF InOrderOfUse

\* The session that was used now comes last.
LEMMA UsedLast ==
  ASSUME SessionsInv, now \in Nat, NEW k \in Keys, NEW s \in Seq(Keys), IsPart(s, sessionOrder), k \notin ToSet(s),
         Len(s) < MaxSessions, UNCHANGED now,
         sessionOrder' = Append(s, k), DOMAIN sessions' = ToSet(s) \cup {k},
         \A j \in ToSet(s) : sessions'[j] = sessions[j], sessions'[k].usedAt = now
  PROVE  SessionsInv'
<1>1. Distinct(s) /\ ToSet(s) \subseteq DOMAIN sessions
  BY PartIsLess DEF SessionsInv
<1>2. /\ Append(s, k) \in Seq(Keys) /\ Len(Append(s, k)) = Len(s) + 1
      /\ DOMAIN Append(s, k) = 1 .. Len(s) + 1 /\ Len(s) \in Nat
      /\ \A i \in 1 .. Len(s) : Append(s, k)[i] = s[i]
      /\ Append(s, k)[Len(s) + 1] = k
      /\ ToSet(Append(s, k)) = ToSet(s) \cup {k}
      /\ Distinct(Append(s, k))
  BY <1>1, AppendedIs
<1>3. InOrderOfUse(s, sessions')
  BY PartIsInOrder DEF SessionsInv
<1>4. \A j \in DOMAIN sessions' : sessions'[j].usedAt \in Nat /\ sessions'[j].usedAt <= now
  BY <1>1 DEF SessionsInv
<1>5. DOMAIN s = 1 .. Len(s) /\ \A i \in 1 .. Len(s) : s[i] \in DOMAIN sessions'
  BY DEF ToSet
<1> DEFINE t == Append(s, k)
<1> HIDE DEF t
<1>6. ASSUME NEW i \in 1 .. Len(s) + 1, NEW j \in 1 .. Len(s) + 1, i <= j
      PROVE  sessions'[t[i]].usedAt <= sessions'[t[j]].usedAt
  <2>1. CASE j = Len(s) + 1
    <3>1. sessions'[t[j]].usedAt = now
      BY <1>2, <2>1 DEF t
    <3>2. t[i] \in DOMAIN sessions'
      BY <1>2 DEF t, ToSet
    <3> QED BY <1>4, <3>1, <3>2
  <2>2. CASE j # Len(s) + 1
    <3>1. i \in 1 .. Len(s) /\ j \in 1 .. Len(s)
      BY <1>2, <1>6, <2>2
    <3>2. t[i] = s[i] /\ t[j] = s[j]
      BY <1>2, <3>1 DEF t
    <3> QED BY <1>3, <1>5, <1>6, <3>1, <3>2 DEF InOrderOfUse
  <2> QED BY <2>1, <2>2
<1>7. InOrderOfUse(t, sessions')
  BY <1>2, <1>6 DEF InOrderOfUse, t
<1> QED BY <1>2, <1>4, <1>7, RoutingAssumption DEF SessionsInv, t

\* There are as many sessions as places.
LEMMA SessionsAreCounted ==
  ASSUME SessionsInv
  PROVE  IsFiniteSet(DOMAIN sessions) /\ Cardinality(DOMAIN sessions) = Len(sessionOrder) /\ Len(sessionOrder) \in Nat
BY DistinctAreCounted DEF SessionsInv

\* Set renews the session, or makes room for it.
LEMMA SetKeepsSessions ==
  ASSUME SessionsInv, now \in Nat, NEW k \in Keys, NEW m, Set(k, m), UNCHANGED now
  PROVE  SessionsInv'
<1>1. CASE k \in DOMAIN sessions
  <2> DEFINE s == RemoveFirst(sessionOrder, k)
  <2>1. /\ s \in Seq(Keys) /\ IsPart(s, sessionOrder) /\ Len(s) = Len(sessionOrder) - 1
        /\ ToSet(sessionOrder) \subseteq ToSet(s) \cup {k} /\ k \notin ToSet(s)
    BY <1>1, RemovedIsPart DEF SessionsInv
  <2>2. /\ sessionOrder' = Append(s, k) /\ DOMAIN sessions' = DOMAIN sessions
        /\ sessions'[k].usedAt = now /\ \A j \in DOMAIN sessions \ {k} : sessions'[j] = sessions[j]
    BY <1>1 DEF Set, Touched, Touch
  <2>3. ToSet(s) \subseteq ToSet(sessionOrder) /\ Len(s) \in Nat /\ Len(sessionOrder) \in Nat
    BY <2>1, PartIsLess DEF SessionsInv
  <2> HIDE DEF s
  <2>4. Len(s) < MaxSessions
    BY <2>1, <2>3, RoutingAssumption DEF SessionsInv
  <2>6. DOMAIN sessions' = ToSet(s) \cup {k}
    BY <1>1, <2>1, <2>2, <2>3 DEF SessionsInv
  <2>5. \A j \in ToSet(s) : sessions'[j] = sessions[j]
    BY <2>1, <2>2, <2>3 DEF SessionsInv
  <2> QED BY <2>1, <2>2, <2>4, <2>5, <2>6, UsedLast
<1>2. CASE k \notin DOMAIN sessions
  <2> DEFINE held == Cardinality(DOMAIN sessions)
             n == IF held >= MaxSessions THEN held - MaxSessions + 1 ELSE 0
             s == KeptOrder(n)
  <2>1. held = Len(sessionOrder) /\ held \in Nat /\ held <= MaxSessions /\ MaxSessions \in Nat \ {0}
    BY SessionsAreCounted, RoutingAssumption DEF SessionsInv
  <2>2. /\ sessionOrder' = Append(s, k) /\ DOMAIN sessions' = ToSet(s) \cup {k}
        /\ sessions'[k].usedAt = now /\ \A j \in ToSet(s) \ {k} : sessions'[j] = sessions[j]
    <3>1. /\ sessionOrder' = Append(s, k)
          /\ sessions' = With(Restrict(sessions, ToSet(s)), k,
                              [provider |-> About[m].provider, model |-> m, usedAt |-> now, turns |-> 1])
      BY <1>2 DEF Set
    <3> HIDE DEF s
    <3> QED BY <3>1 DEF With, Restrict
  <2>3. n \in 0 .. Len(sessionOrder) /\ held - n < MaxSessions
    BY <2>1
  <2> HIDE DEF n
  <2>4. s \in Seq(Keys) /\ IsPart(s, sessionOrder) /\ Len(s) = held - n
    BY <2>1, <2>3, RestIsPart DEF KeptOrder, SessionsInv
  <2>5. k \notin ToSet(s)
    BY <1>2, <2>4, PartIsLess DEF SessionsInv
  <2> HIDE DEF s, held
  <2> QED BY <2>2, <2>3, <2>4, <2>5, UsedLast
<1> QED BY <1>1, <1>2

\* Sessions that are left alone stay in order when others go.
LEMMA OthersStay ==
  ASSUME SessionsInv, NEW s \in Seq(Keys), IsPart(s, sessionOrder), Len(s) <= Len(sessionOrder), UNCHANGED now,
         sessionOrder' = s, DOMAIN sessions' = ToSet(s), \A j \in ToSet(s) : sessions'[j] = sessions[j]
  PROVE  SessionsInv'
<1>1. Distinct(s) /\ ToSet(s) \subseteq DOMAIN sessions
  BY PartIsLess DEF SessionsInv
<1>2. InOrderOfUse(s, sessions')
  BY PartIsInOrder DEF SessionsInv
<1>3. Len(s) <= MaxSessions
  BY RoutingAssumption DEF SessionsInv
<1> QED BY <1>1, <1>2, <1>3 DEF SessionsInv

\* The place in the order goes with the session that is removed.
LEMMA ForgetKeepsSessions ==
  ASSUME SessionsInv, NEW k, UNCHANGED now,
         sessions' = Restrict(sessions, DOMAIN sessions \ {k}), sessionOrder' = RemoveFirst(sessionOrder, k)
  PROVE  SessionsInv'
<1> DEFINE s == RemoveFirst(sessionOrder, k)
<1>1. /\ s \in Seq(Keys) /\ IsPart(s, sessionOrder) /\ Len(s) <= Len(sessionOrder)
      /\ ToSet(sessionOrder) \subseteq ToSet(s) \cup {k} /\ k \notin ToSet(s)
  BY RemovedIsPart DEF SessionsInv
<1>2. ToSet(s) \subseteq ToSet(sessionOrder)
  BY <1>1, PartIsLess DEF SessionsInv
<1>3. sessionOrder' = s
  OBVIOUS
<1> HIDE DEF s
<1>4. ToSet(s) = DOMAIN sessions \ {k}
  BY <1>1, <1>2 DEF SessionsInv
<1>5. DOMAIN sessions' = ToSet(s) /\ \A j \in ToSet(s) : sessions'[j] = sessions[j]
  BY <1>4 DEF Restrict
<1> QED BY <1>1, <1>3, <1>5, OthersStay

-----------------------------------------------------------------------------
(* The histories.                                                          *)

HistoryRows ==
  /\ IsFiniteSet(DOMAIN histories)
  /\ \A k \in DOMAIN histories : /\ histories[k].turns \in Nat
                                 /\ histories[k].updatedAt \in Nat /\ histories[k].updatedAt <= now

\* Every conversation can be evicted, and the size is what they take.  A
\* conversation may have several places in the order: a key that was removed
\* as too old keeps its place.
HistoriesInv ==
  /\ historyOrder \in Seq(Keys)
  /\ DOMAIN histories \subseteq ToSet(historyOrder)
  /\ HistoryRows
  /\ size = SizeOf(DOMAIN histories)

\* Some conversations and the others take what all of them do.
LEMMA SizesAdd ==
  ASSUME HistoryRows, NEW T \in SUBSET DOMAIN histories
  PROVE  /\ SizeOf(T) \in Nat /\ SizeOf(DOMAIN histories \ T) \in Nat
         /\ SizeOf(DOMAIN histories) = SizeOf(T) + SizeOf(DOMAIN histories \ T)
<1> DEFINE D == DOMAIN histories
           U == D \ T
           f == [k \in D |-> histories[k].turns]
           g == [k \in T |-> histories[k].turns]
           h == [k \in U |-> histories[k].turns]
<1>1. IsFiniteSet(D) /\ IsFiniteSet(T) /\ IsFiniteSet(U)
  BY FS_Subset DEF HistoryRows
<1>2. /\ \A k \in D : f[k] \in Nat
      /\ \A k \in T : g[k] \in Nat /\ f[k] = g[k]
      /\ \A k \in U : h[k] \in Nat /\ f[k] = h[k]
  BY DEF HistoryRows
<1>3. /\ SizeOf(D) = SumFunctionOnSet(f, D)
      /\ SizeOf(T) = SumFunctionOnSet(g, T)
      /\ SizeOf(U) = SumFunctionOnSet(h, U)
  BY DEF SizeOf
<1> HIDE DEF f, g, h
<1>4. SumFunctionOnSet(f, D) = SumFunctionOnSet(f, T) + SumFunctionOnSet(f, U)
  BY <1>1, <1>2, SumSplits
<1>5. SumFunctionOnSet(f, T) = SumFunctionOnSet(g, T) /\ SumFunctionOnSet(g, T) \in Nat
  BY <1>1, <1>2, SumAgrees, SumIsNat
<1>6. SumFunctionOnSet(f, U) = SumFunctionOnSet(h, U) /\ SumFunctionOnSet(h, U) \in Nat
  BY <1>1, <1>2, SumAgrees, SumIsNat
<1> QED BY <1>3, <1>4, <1>5, <1>6

\* One conversation takes its turns.
LEMMA SizeOfOne ==
  ASSUME NEW k, histories[k].turns \in Nat
  PROVE  SizeOf({k}) = histories[k].turns
<1> DEFINE f == [j \in {k} |-> histories[j].turns]
<1>1. IsFiniteSet({k}) /\ {k} \ {k} = {} /\ f[k] = histories[k].turns /\ \A j \in {k} : f[j] \in Nat
  BY FS_Singleton
<1>2. SizeOf({k}) = SumFunctionOnSet(f, {k})
  BY DEF SizeOf
<1> HIDE DEF f
<1>3. SumFunctionOnSet(f, {k}) = f[k] + SumFunctionOnSet(f, {k} \ {k})
  BY <1>1, SumWithout
<1> QED BY <1>1, <1>2, <1>3, SumOfNothing

\* What the conversations take after a step that keeps some of them.
LEMMA SizeOfKept ==
  ASSUME HistoryRows, NEW T \in SUBSET DOMAIN histories, DOMAIN histories' = T,
         \A j \in T : histories'[j].turns = histories[j].turns
  PROVE  SizeOf(DOMAIN histories)' = SizeOf(T)
<1>1. [j \in T |-> histories'[j].turns] = [j \in T |-> histories[j].turns]
  OBVIOUS
<1> QED BY <1>1 DEF SizeOf

\* And of one that keeps some and counts another anew.
LEMMA SizeOfKeptAndNew ==
  ASSUME HistoryRows, NEW T \in SUBSET DOMAIN histories, NEW k, k \notin T, DOMAIN histories' = T \cup {k},
         \A j \in T : histories'[j].turns = histories[j].turns, histories'[k].turns \in Nat
  PROVE  SizeOf(DOMAIN histories)' = SizeOf(T) + histories'[k].turns
<1> DEFINE S == T \cup {k}
           f == [j \in S |-> histories'[j].turns]
           g == [j \in T |-> histories[j].turns]
<1>1. IsFiniteSet(T) /\ IsFiniteSet(S) /\ S \ {k} = T
  BY FS_Subset, FS_AddElement DEF HistoryRows
<1>2. /\ \A j \in S : f[j] \in Nat
      /\ \A j \in T : g[j] \in Nat /\ f[j] = g[j]
      /\ f[k] = histories'[k].turns
  BY DEF HistoryRows
<1>3. SizeOf(DOMAIN histories)' = SumFunctionOnSet(f, S) /\ SizeOf(T) = SumFunctionOnSet(g, T)
  BY DEF SizeOf
<1>4. k \in S
  OBVIOUS
<1> HIDE DEF f, g, S
<1>5. SumFunctionOnSet(f, S) = f[k] + SumFunctionOnSet(f, T)
  BY <1>1, <1>2, <1>4, SumWithout
<1>6. SumFunctionOnSet(f, T) = SumFunctionOnSet(g, T) /\ SumFunctionOnSet(g, T) \in Nat
  BY <1>1, <1>2, SumAgrees, SumIsNat
<1> QED BY <1>2, <1>3, <1>5, <1>6

\* touchLRU loses no key.
LEMMA TouchedHasAll ==
  ASSUME NEW s \in Seq(Keys), NEW k \in Keys
  PROVE  Touch(s, k) \in Seq(Keys) /\ ToSet(s) \cup {k} \subseteq ToSet(Touch(s, k))
<1> DEFINE r == RemoveFirst(s, k)
<1>1. r \in Seq(Keys) /\ ToSet(s) \subseteq ToSet(r) \cup {k}
  BY RemovedIsPart
<1> HIDE DEF r
<1>2. Append(r, k) \in Seq(Keys) /\ ToSet(Append(r, k)) = ToSet(r) \cup {k}
  BY <1>1, AppendedIs
<1> QED BY <1>1, <1>2 DEF Touch, r

\* How many places of the order are given up for a new conversation.
Fits(n) == size - SizeOf(Evicted(n)) + 1 <= MaxSize \/ n = Len(historyOrder)
PlacesGivenUp == CHOOSE n \in 0 .. Len(historyOrder) : Fits(n) /\ \A i \in 0 .. n - 1 : ~Fits(i)

\* The loop of AddTurn ends, at the first place it can.
LEMMA EvictionEnds ==
  ASSUME HistoriesInv
  PROVE  /\ PlacesGivenUp \in 0 .. Len(historyOrder)
         /\ PlacesGivenUp > 0 => ~Fits(0)
<1> DEFINE B == {n \in 0 .. Len(historyOrder) : Fits(n)}
<1>1. Len(historyOrder) \in Nat
  BY DEF HistoriesInv
<1>2. Len(historyOrder) \in B /\ B \subseteq Nat
  BY <1>1 DEF Fits
<1>3. PICK m \in B : \A b \in B : m <= b
  <2> HIDE DEF B
  <2> QED BY <1>2, SmallestNatIn
<1>4. m \in 0 .. Len(historyOrder) /\ Fits(m) /\ \A i \in 0 .. m - 1 : ~Fits(i)
  <2>1. ASSUME NEW i \in 0 .. m - 1, Fits(i) PROVE FALSE
    <3>1. i \in B
      BY <1>1, <2>1
    <3> QED BY <1>1, <1>3, <3>1
  <2> QED BY <2>1
<1> HIDE DEF B
<1>5. /\ PlacesGivenUp \in 0 .. Len(historyOrder) /\ Fits(PlacesGivenUp)
      /\ \A i \in 0 .. PlacesGivenUp - 1 : ~Fits(i)
  BY <1>4 DEF PlacesGivenUp
<1> HIDE DEF PlacesGivenUp
<1> QED BY <1>1, <1>5

\* A turn is added, to a conversation that is there or to a new one.
LEMMA AddTurnKeepsHistories ==
  ASSUME HistoriesInv, now \in Nat, NEW k \in Keys, AddTurn(k), UNCHANGED now
  PROVE  HistoriesInv'
<1>1. CASE k \in DOMAIN histories
  <2> DEFINE T == DOMAIN histories \ {k}
  <2>1. /\ DOMAIN histories' = DOMAIN histories /\ historyOrder' = Touch(historyOrder, k) /\ size' = size + 1
        /\ histories'[k].turns = histories[k].turns + 1 /\ histories'[k].updatedAt = now
        /\ \A j \in T : histories'[j] = histories[j]
    BY <1>1 DEF AddTurn
  <2>2. SizeOf(DOMAIN histories) = SizeOf({k}) + SizeOf(T) /\ SizeOf(T) \in Nat
    BY <1>1, SizesAdd DEF HistoriesInv
  <2>3. SizeOf({k}) = histories[k].turns /\ histories[k].turns \in Nat
    BY <1>1, SizeOfOne DEF HistoriesInv, HistoryRows
  <2>4. T \in SUBSET DOMAIN histories /\ k \notin T /\ DOMAIN histories' = T \cup {k}
    BY <1>1, <2>1
  <2> HIDE DEF T
  <2>5. SizeOf(DOMAIN histories)' = SizeOf(T) + histories'[k].turns
    <3>1. HistoryRows /\ histories'[k].turns \in Nat /\ \A j \in T : histories'[j].turns = histories[j].turns
      BY <2>1, <2>3 DEF HistoriesInv
    <3> QED BY <2>4, <3>1, SizeOfKeptAndNew
  <2>6. size' = SizeOf(DOMAIN histories)'
    BY <2>1, <2>2, <2>3, <2>5 DEF HistoriesInv
  <2>7. HistoryRows'
    BY <2>1, <2>3, <2>4 DEF HistoriesInv, HistoryRows
  <2>8. historyOrder' \in Seq(Keys) /\ DOMAIN histories' \subseteq ToSet(historyOrder')
    BY <2>1, TouchedHasAll DEF HistoriesInv
  <2> QED BY <2>6, <2>7, <2>8 DEF HistoriesInv
<1>2. CASE k \notin DOMAIN histories
  <2> DEFINE n == PlacesGivenUp
             T == DOMAIN histories \ Evicted(n)
             s == SubSeq(historyOrder, n + 1, Len(historyOrder))
  <2>1. /\ histories' = With(Restrict(histories, T), k, [turns |-> 1, updatedAt |-> now])
        /\ historyOrder' = Touch(Append(s, k), k)
        /\ size' = size - SizeOf(Evicted(n)) + 1
    BY <1>2 DEF AddTurn, PlacesGivenUp, Fits
  <2>2. n \in 0 .. Len(historyOrder) /\ Len(historyOrder) \in Nat
    BY EvictionEnds DEF HistoriesInv
  <2>3. Evicted(n) \subseteq DOMAIN histories
    BY DEF Evicted
  <2> HIDE DEF n
  <2>4. T \in SUBSET DOMAIN histories /\ k \notin T
    BY <1>2
  <2>5. /\ SizeOf(DOMAIN histories) = SizeOf(Evicted(n)) + SizeOf(T)
        /\ SizeOf(Evicted(n)) \in Nat /\ SizeOf(T) \in Nat
    BY <2>3, SizesAdd DEF HistoriesInv
  <2>6. s \in Seq(Keys) /\ DOMAIN histories \subseteq ToSet(s) \cup Evicted(n)
    <3>1. s \in Seq(Keys) /\ Len(s) = Len(historyOrder) - n /\ \A i \in 1 .. Len(historyOrder) - n : s[i] = historyOrder[i + n]
      BY <2>2, RestIsPart DEF HistoriesInv
    <3>2. ASSUME NEW j \in DOMAIN histories PROVE j \in ToSet(s) \/ j \in Evicted(n)
      <4>1. PICK i \in 1 .. Len(historyOrder) : historyOrder[i] = j
        BY DEF HistoriesInv, ToSet
      <4>2. CASE i <= n
        <5> DEFINE p == SubSeq(historyOrder, 1, n)
        <5>1. p[i] = j /\ i \in DOMAIN p
          BY <2>2, <4>1, <4>2 DEF HistoriesInv
        <5> QED BY <5>1 DEF Evicted, ToSet
      <4>3. CASE i > n
        <5>1. i - n \in 1 .. Len(historyOrder) - n /\ (i - n) + n = i
          BY <2>2, <4>3
        <5> HIDE DEF s
        <5>2. i - n \in DOMAIN s /\ s[i - n] = j
          BY <3>1, <4>1, <5>1
        <5> QED BY <5>2 DEF ToSet
      <4> QED BY <2>2, <4>2, <4>3
    <3> QED BY <3>1, <3>2
  <2> HIDE DEF s
  <2>7. /\ DOMAIN histories' = T \cup {k} /\ histories'[k].turns = 1 /\ histories'[k].updatedAt = now
        /\ \A j \in T : histories'[j] = histories[j]
    <3> HIDE DEF T
    <3> QED BY <2>1, <2>4 DEF With, Restrict
  <2>8. DOMAIN histories \subseteq T \cup Evicted(n) /\ T \subseteq ToSet(s)
    BY <2>6
  <2> HIDE DEF T
  <2>9. SizeOf(DOMAIN histories)' = SizeOf(T) + 1
    <3>1. HistoryRows /\ histories'[k].turns \in Nat /\ \A j \in T : histories'[j].turns = histories[j].turns
      BY <2>7 DEF HistoriesInv
    <3>2. SizeOf(DOMAIN histories)' = SizeOf(T) + histories'[k].turns
      BY <2>4, <2>7, <3>1, SizeOfKeptAndNew
    <3> QED BY <2>7, <3>2
  <2>10. size' = SizeOf(DOMAIN histories)'
    BY <2>1, <2>5, <2>9 DEF HistoriesInv
  <2>11. HistoryRows'
    <3>1. IsFiniteSet(T \cup {k})
      BY <2>4, FS_Subset, FS_AddElement DEF HistoriesInv, HistoryRows
    <3> QED BY <2>4, <2>7, <3>1 DEF HistoriesInv, HistoryRows
  <2>12. historyOrder' \in Seq(Keys) /\ DOMAIN histories' \subseteq ToSet(historyOrder')
    <3>1. Append(s, k) \in Seq(Keys) /\ ToSet(Append(s, k)) = ToSet(s) \cup {k}
      BY <2>6, AppendedIs
    <3> QED BY <2>1, <2>7, <2>8, <3>1, TouchedHasAll
  <2> QED BY <2>10, <2>11, <2>12 DEF HistoriesInv
<1> QED BY <1>1, <1>2

\* A conversation that is too old goes, its turns are taken off the size, and
\* its place in the order stays.
LEMMA ForgetKeepsHistories ==
  ASSUME HistoriesInv, NEW k, UNCHANGED <<now, historyOrder>>,
         histories' = Restrict(histories, DOMAIN histories \ {k}),
         size' = size - SizeOf({k} \cap DOMAIN histories)
  PROVE  HistoriesInv'
<1> DEFINE T == DOMAIN histories \ {k}
           U == {k} \cap DOMAIN histories
<1>1. DOMAIN histories \ U = T /\ U \in SUBSET DOMAIN histories /\ T \in SUBSET DOMAIN histories
  OBVIOUS
<1>2. DOMAIN histories' = T /\ \A j \in T : histories'[j] = histories[j]
  BY DEF Restrict
<1> HIDE DEF T, U
<1>3. SizeOf(DOMAIN histories) = SizeOf(U) + SizeOf(T) /\ SizeOf(U) \in Nat /\ SizeOf(T) \in Nat
  BY <1>1, SizesAdd DEF HistoriesInv
<1>4. SizeOf(DOMAIN histories)' = SizeOf(T)
  BY <1>1, <1>2, SizeOfKept DEF HistoriesInv
<1>5. size' = SizeOf(DOMAIN histories)'
  BY <1>3, <1>4 DEF HistoriesInv, U
<1>6. HistoryRows'
  BY <1>1, <1>2, FS_Subset DEF HistoriesInv, HistoryRows
<1> QED BY <1>1, <1>2, <1>5, <1>6 DEF HistoriesInv

-----------------------------------------------------------------------------
(* The requests that are about to remove what they found too old.          *)

Fields == {"step", "then", "key", "lookedAt"}
RouteTyped(rec) ==
  /\ Fields \subseteq DOMAIN rec
  /\ rec.then \in {"idle", "rank", "permit", "answer"} /\ rec.key \in Keys
  /\ rec.lookedAt \in Nat /\ rec.lookedAt <= now
RoutesTyped == DOMAIN route = Requests /\ \A r \in Requests : RouteTyped(route[r])

\* What was too old when it was looked at, or was used since.
OldOrUsed(lookedAt, usedAt) == lookedAt - usedAt > TTL \/ usedAt >= lookedAt

\* Whoever renews an entry in between, a request that goes to remove it has
\* seen it too old or it has been used since.
RemovalsInv ==
  \A r \in Requests :
    /\ At(r, "forgetSession") /\ Has(r) => OldOrUsed(route[r].lookedAt, Session(r).usedAt)
    /\ At(r, "forgetHistory") /\ route[r].key \in DOMAIN histories =>
         OldOrUsed(route[r].lookedAt, histories[route[r].key].updatedAt)

\* A request moves on, and the others stay where they are.
LEMMA MoveIs ==
  ASSUME RoutesTyped, NEW r \in Requests, NEW change, Move(r, change)
  PROVE  /\ DOMAIN route' = Requests /\ route'[r] = Changed(route[r], change)
         /\ \A q \in Requests \ {r} : route'[q] = route[q]
BY DEF Move, RoutesTyped

\* What a step leaves alone in a record.
LEMMA ChangedIs ==
  ASSUME NEW rec, NEW change, Fields \subseteq DOMAIN rec
  PROVE  /\ Fields \subseteq DOMAIN Changed(rec, change)
         /\ \A f \in Fields : Changed(rec, change)[f] = IF f \in DOMAIN change THEN change[f] ELSE rec[f]
BY DEF Changed

\* How a request comes to remove a session or a conversation, if this step
\* took it there.
ToRemoval(r) ==
  /\ route'[r].step = "forgetSession" =>
       /\ UNCHANGED <<now, sessions>> /\ route'[r].key = route[r].key
       /\ route'[r].lookedAt = now /\ Expired(Session(r).usedAt)
  /\ route'[r].step = "forgetHistory" =>
       /\ UNCHANGED <<now, histories>> /\ route'[r].key = route[r].key
       /\ route'[r].lookedAt = now /\ Expired(histories[route[r].key].updatedAt)

\* A request that moves, typed as before.
RouteMoves(r) ==
  /\ DOMAIN route' = Requests /\ RouteTyped(route'[r])
  /\ \A q \in Requests \ {r} : route'[q] = route[q]

\* A request that goes on without having looked at anything.
LEMMA GoesOn ==
  ASSUME RoutesTyped, NEW r \in Requests, NEW change, Move(r, change),
         "step" \in DOMAIN change, DOMAIN change \cap {"then", "key", "lookedAt"} = {},
         change.step \notin {"forgetSession", "forgetHistory"}
  PROVE  RouteMoves(r) /\ ToRemoval(r)
<1>1. Fields \subseteq DOMAIN route[r] /\ RouteTyped(route[r])
  BY DEF RoutesTyped, RouteTyped
<1>2. /\ Fields \subseteq DOMAIN route'[r] /\ route'[r].step = change.step /\ route'[r].then = route[r].then
      /\ route'[r].key = route[r].key /\ route'[r].lookedAt = route[r].lookedAt
  BY <1>1, MoveIs, ChangedIs DEF Fields
<1> QED BY <1>1, <1>2, MoveIs DEF RouteMoves, RouteTyped, ToRemoval

\* One that found its session too old.
LEMMA FindsStale ==
  ASSUME RoutesTyped, NEW r \in Requests, NEW then \in {"rank", "permit", "answer"}, StaleSession(r, then),
         now \in Nat, UNCHANGED <<now, sessions>>
  PROVE  RouteMoves(r) /\ ToRemoval(r)
<1> DEFINE change == [step |-> "forgetSession", then |-> then, lookedAt |-> now]
<1>1. Fields \subseteq DOMAIN route[r] /\ RouteTyped(route[r])
  BY DEF RoutesTyped, RouteTyped
<1>2. DOMAIN change = {"step", "then", "lookedAt"}
  OBVIOUS
<1>3. Move(r, change)
  BY DEF StaleSession
<1>4. change.step = "forgetSession" /\ change.then = then /\ change.lookedAt = now
  OBVIOUS
<1> HIDE DEF change
<1>5. /\ Fields \subseteq DOMAIN route'[r] /\ route'[r].step = "forgetSession" /\ route'[r].then = then
      /\ route'[r].key = route[r].key /\ route'[r].lookedAt = now
  BY <1>1, <1>2, <1>3, <1>4, MoveIs, ChangedIs DEF Fields
<1>6. RouteTyped(route'[r])
  BY <1>1, <1>5 DEF RouteTyped
<1> QED BY <1>3, <1>5, <1>6, MoveIs DEF RouteMoves, ToRemoval, StaleSession

\* One that is over.
LEMMA IsOver ==
  ASSUME RoutesTyped, NEW r \in Requests, Done(r), now \in Nat
  PROVE  RouteMoves(r) /\ ToRemoval(r)
<1>1. RouteTyped(NoRoute) /\ NoRoute.step = "idle"
  BY DEF RouteTyped, NoRoute, Fields, Keys
<1>2. DOMAIN route' = Requests /\ route'[r] = NoRoute /\ \A q \in Requests \ {r} : route'[q] = route[q]
  BY DEF Done, RoutesTyped
<1> QED BY <1>1, <1>2 DEF RouteMoves, ToRemoval

\* One that passes a model, or has passed them all.
LEMMA Walks ==
  ASSUME RoutesTyped, NEW r \in Requests, Walked(r), now \in Nat
  PROVE  RouteMoves(r) /\ ToRemoval(r)
BY GoesOn, IsOver DEF Walked

\* Every action of a request.
ActionOf(r) ==
  \/ Arrive(r) \/ Look(r) \/ Rank(r) \/ Permit(r) \/ Try(r) \/ Bridge(r) \/ Answer(r)
  \/ ForgetSession(r) \/ ForgetHistory(r)
  \/ LearnModel(r) \/ LearnUser(r) \/ LearnAssistant(r)

\* Whatever a request does, it is a move of its own route.
LEMMA RequestMoves ==
  ASSUME RoutesTyped, NEW r \in Requests, ActionOf(r), now \in Nat
  PROVE  RouteMoves(r) /\ ToRemoval(r) /\ UNCHANGED now
<1>1. CASE Arrive(r)
  <2>1. PICK k \in Conversations \cup {Nobody}, a \in Asks :
          route' = [route EXCEPT ![r] = [NoRoute EXCEPT !.step = IF IsAuto(a) THEN "look" ELSE "permit",
                                                        !.key = k, !.ask = a, !.chain = a.chain]]
    BY <1>1 DEF Arrive
  <2>2. /\ DOMAIN route' = Requests /\ \A q \in Requests \ {r} : route'[q] = route[q]
        /\ route'[r] = [NoRoute EXCEPT !.step = IF IsAuto(a) THEN "look" ELSE "permit",
                                       !.key = k, !.ask = a, !.chain = a.chain]
    BY <2>1 DEF RoutesTyped
  <2>3. /\ route'[r].step \in {"look", "permit"} /\ route'[r].then = "idle" /\ route'[r].key = k
        /\ route'[r].lookedAt = 0 /\ Fields \subseteq DOMAIN route'[r]
    BY <2>2 DEF NoRoute, Fields
  <2> QED BY <1>1, <2>2, <2>3 DEF Arrive, RouteMoves, RouteTyped, Keys, ToRemoval
<1>2. ASSUME Ranked(r) PROVE RouteMoves(r) /\ ToRemoval(r)
  BY <1>2, GoesOn DEF Ranked
<1>3. CASE Look(r)
  <2>1. ASSUME NEW kind, NEW home,
               Move(r, [step |-> "note", chain |-> BuildAffinityList(Able(route[r].ask), kind), home |-> home])
        PROVE  RouteMoves(r) /\ ToRemoval(r)
    BY <2>1, GoesOn
  <2> QED BY <1>2, <1>3, <2>1, FindsStale, IsOver DEF Look, sessionStore
<1>4. CASE Rank(r)
  BY <1>2, <1>4 DEF Rank
<1>5. CASE Permit(r)
  <2>1. ASSUME NEW chain, Move(r, [step |-> "try", chain |-> chain]) PROVE RouteMoves(r) /\ ToRemoval(r)
    BY <2>1, GoesOn
  <2> QED BY <1>5, <2>1, FindsStale, IsOver DEF Permit, sessionStore
<1>6. ASSUME NEW step, step \notin {"forgetSession", "forgetHistory"}, To(r, step) PROVE RouteMoves(r) /\ ToRemoval(r)
  BY <1>6, GoesOn DEF To
<1>7. CASE Try(r)
  BY <1>6, <1>7, Walks, FindsStale DEF Try, sessionStore
<1>8. CASE Bridge(r)
  <2> DEFINE there == route[r].key \in DOMAIN histories
  <2>1. ASSUME NEW bridged, Move(r, [step |-> "answer", bridged |-> bridged]) PROVE RouteMoves(r) /\ ToRemoval(r)
    BY <2>1, GoesOn
  <2>2. ASSUME there, Expired(histories[route[r].key].updatedAt), Move(r, [step |-> "forgetHistory", lookedAt |-> now])
        PROVE  RouteMoves(r) /\ ToRemoval(r)
    <3> DEFINE change == [step |-> "forgetHistory", lookedAt |-> now]
    <3>1. Fields \subseteq DOMAIN route[r] /\ RouteTyped(route[r])
      BY DEF RoutesTyped, RouteTyped
    <3>2. DOMAIN change = {"step", "lookedAt"} /\ change.step = "forgetHistory" /\ change.lookedAt = now
      OBVIOUS
    <3> HIDE DEF change
    <3>3. /\ Fields \subseteq DOMAIN route'[r] /\ route'[r].step = "forgetHistory" /\ route'[r].then = route[r].then
          /\ route'[r].key = route[r].key /\ route'[r].lookedAt = now
      BY <2>2, <3>1, <3>2, MoveIs, ChangedIs DEF Fields, change
    <3>4. UNCHANGED <<now, histories>>
      BY <1>8 DEF Bridge, historyStore
    <3>5. RouteTyped(route'[r])
      BY <3>1, <3>3 DEF RouteTyped
    <3> QED BY <2>2, <3>3, <3>4, <3>5, MoveIs DEF RouteMoves, ToRemoval
  <2> QED BY <1>8, <2>1, <2>2 DEF Bridge
<1>9. CASE Answer(r)
  BY <1>6, <1>9, Walks, IsOver DEF Answer
<1>10. CASE ForgetSession(r)
  BY <1>6, <1>10 DEF ForgetSession, RoutesTyped, RouteTyped
<1>11. CASE ForgetHistory(r) \/ LearnModel(r) \/ LearnUser(r)
  BY <1>6, <1>11 DEF ForgetHistory, LearnModel, LearnUser
<1>12. CASE LearnAssistant(r)
  BY <1>12, IsOver DEF LearnAssistant
<1>13. UNCHANGED now
  BY DEF ActionOf, Arrive, Look, Rank, Permit, Try, Bridge, Answer, ForgetSession, ForgetHistory, LearnModel,
         LearnUser, LearnAssistant
<1> QED BY <1>1, <1>3, <1>4, <1>5, <1>7, <1>8, <1>9, <1>10, <1>11, <1>12, <1>13 DEF ActionOf

-----------------------------------------------------------------------------
(* Every step.                                                             *)

StoresInv == SessionsInv /\ HistoriesInv /\ RoutesTyped /\ now \in Nat

\* The stores begin empty.
LEMMA StoresInit == Init => StoresInv
<1> SUFFICES ASSUME Init PROVE StoresInv
  OBVIOUS
<1>1. /\ DOMAIN sessions = {} /\ sessionOrder = <<>> /\ DOMAIN histories = {} /\ historyOrder = <<>>
      /\ size = 0 /\ now = 0 /\ route = [r \in Requests |-> NoRoute]
  BY DEF Init
<1>2. ToSet(sessionOrder) = {} /\ Distinct(sessionOrder) /\ ToSet(historyOrder) = {}
  BY <1>1 DEF ToSet, Distinct
<1>3. SessionsInv
  BY <1>1, <1>2, RoutingAssumption DEF SessionsInv, InOrderOfUse
<1>4. SizeOf(DOMAIN histories) = 0
  BY <1>1, SumOfNothing DEF SizeOf
<1>5. HistoriesInv
  BY <1>1, <1>2, <1>4, FS_EmptySet DEF HistoriesInv, HistoryRows
<1>6. RouteTyped(NoRoute)
  BY <1>1 DEF RouteTyped, NoRoute, Fields, Keys
<1> QED BY <1>1, <1>3, <1>5, <1>6 DEF StoresInv, RoutesTyped

\* Nothing but the clock.
LEMMA TickKeeps ==
  ASSUME StoresInv, UNCHANGED <<sessionStore, historyStore, route>>, now' \in Nat, now <= now'
  PROVE  StoresInv'
<1>1. SessionsInv'
  BY DEF StoresInv, SessionsInv, InOrderOfUse, sessionStore
<1>2. SizeOf(DOMAIN histories)' = SizeOf(DOMAIN histories)
  BY DEF SizeOf, historyStore
<1>3. HistoriesInv'
  BY <1>2 DEF StoresInv, HistoriesInv, HistoryRows, historyStore
<1>4. RoutesTyped'
  BY DEF StoresInv, RoutesTyped, RouteTyped
<1> QED BY <1>1, <1>3, <1>4 DEF StoresInv

\* Others stay typed when one moves.
LEMMA OneMoves ==
  ASSUME RoutesTyped, NEW r \in Requests, RouteMoves(r), UNCHANGED now
  PROVE  RoutesTyped'
BY DEF RoutesTyped, RouteMoves, RouteTyped

\* What a request's step makes of the sessions, and of the conversations.
SessionsMove ==
  \/ UNCHANGED sessionStore
  \/ \E r \in Requests : ForgetSession(r)
  \/ \E r \in Requests : At(r, "set") /\ Set(route[r].key, Head(route[r].chain))
HistoriesMove ==
  \/ UNCHANGED historyStore
  \/ \E r \in Requests : ForgetHistory(r)
  \/ \E r \in Requests : AddTurn(route[r].key)

\* A step changes each store by one of its operations, or not at all.
LEMMA StoresMove ==
  ASSUME NEW r \in Requests, ActionOf(r)
  PROVE  SessionsMove /\ HistoriesMove
BY DEF ActionOf, SessionsMove, HistoriesMove, Arrive, Look, Rank, Permit, Try, Bridge, Answer, ForgetSession, ForgetHistory,
       LearnModel, LearnUser, LearnAssistant

\* Every step keeps the stores.
LEMMA StoresStep ==
  ASSUME StoresInv, [Next]_vars
  PROVE  StoresInv'
<1> USE DEF StoresInv
<1>1. CASE Tick
  BY <1>1, TickKeeps DEF Tick
<1>2. CASE UNCHANGED vars
  BY <1>2, TickKeeps DEF vars
<1>3. ASSUME NEW r \in Requests, ActionOf(r) PROVE StoresInv'
  <2>1. RoutesTyped' /\ now' = now
    BY <1>3, RequestMoves, OneMoves
  <2>2. \A q \in Requests : route[q].key \in Keys
    BY DEF RoutesTyped, RouteTyped
  <2>3. SessionsInv'
    <3>1. CASE UNCHANGED sessionStore
      BY <2>1, <3>1 DEF SessionsInv, InOrderOfUse, sessionStore
    <3>2. ASSUME NEW q \in Requests, ForgetSession(q) PROVE SessionsInv'
      BY <2>1, <3>2, ForgetKeepsSessions DEF ForgetSession
    <3>3. ASSUME NEW q \in Requests, Set(route[q].key, Head(route[q].chain)) PROVE SessionsInv'
      BY <2>1, <2>2, <3>3, SetKeepsSessions
    <3> QED BY <1>3, <3>1, <3>2, <3>3, StoresMove DEF SessionsMove
  <2>4. HistoriesInv'
    <3>1. CASE UNCHANGED historyStore
      <4>1. SizeOf(DOMAIN histories)' = SizeOf(DOMAIN histories)
        BY <3>1 DEF SizeOf, historyStore
      <4> QED BY <2>1, <3>1, <4>1 DEF HistoriesInv, HistoryRows, historyStore
    <3>2. ASSUME NEW q \in Requests, ForgetHistory(q) PROVE HistoriesInv'
      BY <2>1, <3>2, ForgetKeepsHistories DEF ForgetHistory
    <3>3. ASSUME NEW q \in Requests, AddTurn(route[q].key) PROVE HistoriesInv'
      BY <2>1, <2>2, <3>3, AddTurnKeepsHistories
    <3> QED BY <1>3, <3>1, <3>2, <3>3, StoresMove DEF HistoriesMove
  <2> QED BY <2>1, <2>3, <2>4
<1> QED BY <1>1, <1>2, <1>3 DEF Next, ActionOf

\* The stores' maps, orders and size are kept together at every step.
THEOREM StoresInvariant == Spec => []StoresInv
BY StoresInit, StoresStep, PTL DEF Spec

\* Maps, orders and the size agree, whoever expires, evicts and renews in
\* between.
THEOREM StoresAgreeHolds == Spec => []StoresAgree
<1>1. ASSUME StoresInv PROVE StoresAgree
  <2>1. /\ Cardinality(DOMAIN sessions) = Len(sessionOrder) /\ Len(sessionOrder) \in Nat
        /\ sessionOrder \in Seq(Keys) /\ DOMAIN sessionOrder = 1 .. Len(sessionOrder)
    BY <1>1, SessionsAreCounted DEF StoresInv, SessionsInv
  <2>2. \A i \in 2 .. Len(sessionOrder) : sessions[sessionOrder[i - 1]].usedAt <= sessions[sessionOrder[i]].usedAt
    <3> SUFFICES ASSUME NEW i \in 2 .. Len(sessionOrder)
                 PROVE  sessions[sessionOrder[i - 1]].usedAt <= sessions[sessionOrder[i]].usedAt
      OBVIOUS
    <3>1. i - 1 \in DOMAIN sessionOrder /\ i \in DOMAIN sessionOrder /\ i - 1 <= i
      BY <2>1
    <3> QED BY <1>1, <3>1 DEF StoresInv, SessionsInv, InOrderOfUse
  <2> QED BY <1>1, <2>1, <2>2 DEF StoresInv, SessionsInv, HistoriesInv, StoresAgree
<1> QED BY <1>1, StoresInvariant, PTL

-----------------------------------------------------------------------------
(* Nothing is forgotten without a reason.                                  *)

\* An entry is as it was, or used now.
SessionsRenewed ==
  \A k \in DOMAIN sessions' : (k \in DOMAIN sessions /\ sessions'[k] = sessions[k]) \/ sessions'[k].usedAt = now
HistoriesRenewed ==
  \A k \in DOMAIN histories' : (k \in DOMAIN histories /\ histories'[k] = histories[k]) \/ histories'[k].updatedAt = now

\* The session that gives its place away is the one that was used the longest
\* ago, and the cache is full.
UsedLongestAgo(k) ==
  /\ Cardinality(DOMAIN sessions) = MaxSessions
  /\ \A j \in DOMAIN sessions \cap DOMAIN sessions' : sessions[k].usedAt <= sessions[j].usedAt

LEMMA SetForgets ==
  ASSUME SessionsInv, now \in Nat, NEW k \in Keys, NEW m, Set(k, m)
  PROVE  SessionsRenewed /\ \A e \in DOMAIN sessions \ DOMAIN sessions' : UsedLongestAgo(e)
<1>1. CASE k \in DOMAIN sessions
  BY <1>1 DEF Set, SessionsRenewed
<1>2. CASE k \notin DOMAIN sessions
  <2> DEFINE held == Cardinality(DOMAIN sessions)
             n == IF held >= MaxSessions THEN held - MaxSessions + 1 ELSE 0
             s == KeptOrder(n)
  <2>1. held = Len(sessionOrder) /\ held \in Nat /\ held <= MaxSessions /\ MaxSessions \in Nat \ {0}
    BY SessionsAreCounted, RoutingAssumption DEF SessionsInv
  <2>2. /\ DOMAIN sessions' = ToSet(s) \cup {k}
        /\ sessions'[k].usedAt = now /\ \A j \in ToSet(s) \ {k} : sessions'[j] = sessions[j]
    <3>1. sessions' = With(Restrict(sessions, ToSet(s)), k,
                           [provider |-> About[m].provider, model |-> m, usedAt |-> now, turns |-> 1])
      BY <1>2 DEF Set
    <3> HIDE DEF s
    <3> QED BY <3>1 DEF With, Restrict
  <2>3. n \in 0 .. Len(sessionOrder) /\ (n = 0 \/ (n = 1 /\ held = MaxSessions))
    BY <2>1
  <2> HIDE DEF n, held
  <2>4. /\ s \in Seq(Keys) /\ IsPart(s, sessionOrder) /\ Len(s) = Len(sessionOrder) - n
        /\ \A i \in 1 .. Len(sessionOrder) - n : s[i] = sessionOrder[i + n]
    BY <2>3, RestIsPart DEF KeptOrder, SessionsInv
  <2>5. ToSet(s) \subseteq DOMAIN sessions
    BY <2>4, PartIsLess DEF SessionsInv
  <2> HIDE DEF s
  <2>6. SessionsRenewed
    BY <1>2, <2>2, <2>5 DEF SessionsRenewed
  <2>7. ASSUME NEW e \in DOMAIN sessions \ DOMAIN sessions' PROVE UsedLongestAgo(e)
    <3>1. Len(sessionOrder) \in Nat /\ DOMAIN sessionOrder = 1 .. Len(sessionOrder) /\ DOMAIN s = 1 .. Len(s)
      BY <2>4 DEF SessionsInv
    <3>2. PICK i \in 1 .. Len(sessionOrder) : sessionOrder[i] = e
      BY <3>1 DEF SessionsInv, ToSet
    <3>3. ~(i > n)
      <4>1. SUFFICES ASSUME i > n PROVE FALSE
        OBVIOUS
      <4>2. i - n \in 1 .. Len(sessionOrder) - n /\ (i - n) + n = i
        BY <2>3, <3>1, <4>1
      <4>3. i - n \in DOMAIN s /\ s[i - n] = e
        BY <2>4, <3>1, <3>2, <4>2
      <4>4. e \in ToSet(s)
        BY <4>3 DEF ToSet
      <4> QED BY <2>2, <4>4
    <3>4. i = 1 /\ held = MaxSessions
      BY <2>3, <3>1, <3>3
    <3>5. ASSUME NEW j \in DOMAIN sessions PROVE sessions[e].usedAt <= sessions[j].usedAt
      <4>1. PICK p \in DOMAIN sessionOrder : sessionOrder[p] = j
        BY DEF SessionsInv, ToSet
      <4>2. i \in DOMAIN sessionOrder /\ i <= p
        BY <3>1, <3>4, <4>1
      <4> QED BY <3>2, <4>1, <4>2 DEF SessionsInv, InOrderOfUse
    <3> QED BY <3>4, <3>5 DEF UsedLongestAgo, held
  <2> QED BY <2>6, <2>7
<1> QED BY <1>1, <1>2

\* A conversation gives its place away only when the store is full.
LEMMA AddTurnForgets ==
  ASSUME HistoriesInv, NEW k, AddTurn(k)
  PROVE  HistoriesRenewed /\ \A e \in DOMAIN histories \ DOMAIN histories' : size + 1 > MaxSize
<1>1. CASE k \in DOMAIN histories
  BY <1>1 DEF AddTurn, HistoriesRenewed
<1>2. CASE k \notin DOMAIN histories
  <2> DEFINE n == PlacesGivenUp
             T == DOMAIN histories \ Evicted(n)
  <2>1. histories' = With(Restrict(histories, T), k, [turns |-> 1, updatedAt |-> now])
    BY <1>2 DEF AddTurn, PlacesGivenUp, Fits
  <2>2. n \in 0 .. Len(historyOrder) /\ Len(historyOrder) \in Nat /\ (n > 0 => ~Fits(0))
    BY EvictionEnds DEF HistoriesInv
  <2>3. Evicted(0) = {}
    <3>1. SubSeq(historyOrder, 1, 0) = <<>>
      BY DEF HistoriesInv
    <3> QED BY <3>1 DEF Evicted, ToSet
  <2>4. SizeOf(Evicted(0)) = 0 /\ size \in Nat
    BY <2>3, SumOfNothing, SizesAdd DEF SizeOf, HistoriesInv
  <2>5. DOMAIN histories \ DOMAIN histories' \subseteq Evicted(n) /\ HistoriesRenewed
    <3> HIDE DEF n
    <3> QED BY <1>2, <2>1 DEF With, Restrict, HistoriesRenewed
  <2>6. ASSUME NEW e \in Evicted(n) PROVE size + 1 > MaxSize
    <3>1. n # 0
      BY <2>3, <2>6
    <3>2. ~(size - 0 + 1 <= MaxSize)
      BY <2>2, <2>4, <3>1 DEF Fits
    <3> QED BY <2>4, <3>2, RoutingAssumption
  <2> QED BY <2>5, <2>6
<1> QED BY <1>1, <1>2

\* The reader that removes a session or a conversation goes on.
LEMMA ReaderGoesOn ==
  ASSUME StoresInv, RemovalsInv, NEW r \in Requests
  PROVE  /\ ForgetSession(r) /\ Has(r) => Reader("forgetSession", route[r].key, Session(r).usedAt)
         /\ ForgetHistory(r) /\ route[r].key \in DOMAIN histories =>
              Reader("forgetHistory", route[r].key, histories[route[r].key].updatedAt)
<1>1. Fields \subseteq DOMAIN route[r] /\ RouteTyped(route[r])
  BY DEF StoresInv, RoutesTyped, RouteTyped
<1>2. ASSUME NEW step, To(r, step) PROVE route'[r].step = step
  <2>1. route'[r] = Changed(route[r], [step |-> step])
    BY <1>2, MoveIs DEF To, StoresInv
  <2> QED BY <2>1 DEF Changed
<1>3. ASSUME ForgetSession(r), Has(r) PROVE Reader("forgetSession", route[r].key, Session(r).usedAt)
  <2>1. route'[r].step # "forgetSession" /\ At(r, "forgetSession")
    BY <1>1, <1>2, <1>3 DEF ForgetSession, RouteTyped
  <2> QED BY <1>3, <2>1 DEF Reader, RemovalsInv, OldOrUsed, At
<1>4. ASSUME ForgetHistory(r), route[r].key \in DOMAIN histories
      PROVE  Reader("forgetHistory", route[r].key, histories[route[r].key].updatedAt)
  <2>1. route'[r].step # "forgetHistory" /\ At(r, "forgetHistory")
    BY <1>2, <1>4 DEF ForgetHistory
  <2> QED BY <1>4, <2>1 DEF Reader, RemovalsInv, OldOrUsed, At
<1> QED BY <1>3, <1>4

\* What a step forgets of the two stores, and why.
LEMMA StepForgets ==
  ASSUME StoresInv, RemovalsInv, NEW r \in Requests, ActionOf(r)
  PROVE  /\ SessionsRenewed /\ HistoriesRenewed
         /\ \A k \in DOMAIN sessions \ DOMAIN sessions' :
              Reader("forgetSession", k, sessions[k].usedAt) \/ UsedLongestAgo(k)
         /\ \A k \in DOMAIN histories \ DOMAIN histories' :
              Reader("forgetHistory", k, histories[k].updatedAt) \/ size + 1 > MaxSize
<1> DEFINE SessionsForgotten == \A k \in DOMAIN sessions \ DOMAIN sessions' :
                                  Reader("forgetSession", k, sessions[k].usedAt) \/ UsedLongestAgo(k)
           HistoriesForgotten == \A k \in DOMAIN histories \ DOMAIN histories' :
                                   Reader("forgetHistory", k, histories[k].updatedAt) \/ size + 1 > MaxSize
<1>1. \A q \in Requests : route[q].key \in Keys
  BY DEF StoresInv, RoutesTyped, RouteTyped
<1>2. ASSUME UNCHANGED sessionStore PROVE SessionsRenewed /\ SessionsForgotten
  BY <1>2 DEF SessionsRenewed, sessionStore
<1>3. ASSUME NEW q \in Requests, ForgetSession(q) PROVE SessionsRenewed /\ SessionsForgotten
  <2>1. sessions' = Restrict(sessions, DOMAIN sessions \ {route[q].key})
    BY <1>3 DEF ForgetSession
  <2>2. SessionsRenewed /\ \A k \in DOMAIN sessions \ DOMAIN sessions' : k = route[q].key
    BY <2>1 DEF SessionsRenewed, Restrict
  <2> QED BY <1>3, <2>2, ReaderGoesOn DEF Has, Session
<1>4. ASSUME NEW q \in Requests, Set(route[q].key, Head(route[q].chain)) PROVE SessionsRenewed /\ SessionsForgotten
  BY <1>1, <1>4, SetForgets DEF StoresInv
<1>5. ASSUME UNCHANGED historyStore PROVE HistoriesRenewed /\ HistoriesForgotten
  BY <1>5 DEF HistoriesRenewed, historyStore
<1>6. ASSUME NEW q \in Requests, ForgetHistory(q) PROVE HistoriesRenewed /\ HistoriesForgotten
  <2>1. histories' = Restrict(histories, DOMAIN histories \ {route[q].key})
    BY <1>6 DEF ForgetHistory
  <2>2. HistoriesRenewed /\ \A k \in DOMAIN histories \ DOMAIN histories' : k = route[q].key
    BY <2>1 DEF HistoriesRenewed, Restrict
  <2> QED BY <1>6, <2>2, ReaderGoesOn
<1>7. ASSUME NEW q \in Requests, AddTurn(route[q].key) PROVE HistoriesRenewed /\ HistoriesForgotten
  BY <1>7, AddTurnForgets DEF StoresInv
<1>8. SessionsRenewed /\ SessionsForgotten
  BY <1>2, <1>3, <1>4, StoresMove DEF SessionsMove, sessionStore
<1>9. HistoriesRenewed /\ HistoriesForgotten
  BY <1>5, <1>6, <1>7, StoresMove DEF HistoriesMove, historyStore
<1> QED BY <1>8, <1>9

\* A request on its way to a removal has a reason for it, still.
LEMMA RemovalsStep ==
  ASSUME StoresInv, RemovalsInv, [Next]_vars
  PROVE  RemovalsInv'
<1>1. CASE UNCHANGED <<sessions, histories, route>>
  BY <1>1 DEF RemovalsInv, At, Has, Session
<1>2. ASSUME NEW r \in Requests, ActionOf(r) PROVE RemovalsInv'
  <2>1. RouteMoves(r) /\ ToRemoval(r) /\ UNCHANGED now /\ now \in Nat
    BY <1>2, RequestMoves DEF StoresInv
  <2>2. SessionsRenewed /\ HistoriesRenewed
    BY <1>2, StepForgets
  <2>3. ASSUME NEW q \in Requests, route'[q].step = "forgetSession", route'[q].key \in DOMAIN sessions'
        PROVE  OldOrUsed(route'[q].lookedAt, sessions'[route'[q].key].usedAt)
    <3>1. CASE q = r
      BY <2>1, <2>3, <3>1 DEF ToRemoval, Expired, Session, OldOrUsed
    <3>2. CASE q # r
      <4>1. route'[q] = route[q] /\ route[q].lookedAt \in Nat /\ route[q].lookedAt <= now
        BY <2>1, <3>2 DEF RouteMoves, StoresInv, RoutesTyped, RouteTyped
      <4>2. CASE sessions'[route[q].key].usedAt = now
        BY <4>1, <4>2, <2>1 DEF OldOrUsed
      <4>3. CASE route[q].key \in DOMAIN sessions /\ sessions'[route[q].key] = sessions[route[q].key]
        BY <2>3, <4>1, <4>3 DEF RemovalsInv, At, Has, Session
      <4> QED BY <2>2, <2>3, <4>1, <4>2, <4>3 DEF SessionsRenewed
    <3> QED BY <3>1, <3>2
  <2>4. ASSUME NEW q \in Requests, route'[q].step = "forgetHistory", route'[q].key \in DOMAIN histories'
        PROVE  OldOrUsed(route'[q].lookedAt, histories'[route'[q].key].updatedAt)
    <3>1. CASE q = r
      BY <2>1, <2>4, <3>1 DEF ToRemoval, Expired, OldOrUsed
    <3>2. CASE q # r
      <4>1. route'[q] = route[q] /\ route[q].lookedAt \in Nat /\ route[q].lookedAt <= now
        BY <2>1, <3>2 DEF RouteMoves, StoresInv, RoutesTyped, RouteTyped
      <4>2. CASE histories'[route[q].key].updatedAt = now
        BY <4>1, <4>2, <2>1 DEF OldOrUsed
      <4>3. CASE route[q].key \in DOMAIN histories /\ histories'[route[q].key] = histories[route[q].key]
        BY <2>4, <4>1, <4>3 DEF RemovalsInv, At
      <4> QED BY <2>2, <2>4, <4>1, <4>2, <4>3 DEF HistoriesRenewed
    <3> QED BY <3>1, <3>2
  <2> QED BY <2>3, <2>4 DEF RemovalsInv, At, Has, Session
<1> QED BY <1>1, <1>2 DEF Next, ActionOf, vars, Tick, sessionStore, historyStore

\* A session or a conversation is removed because it was found too old, even
\* if it was renewed since, or because the store is full and, for a session,
\* it was used the longest ago.
THEOREM ForgottenForAReasonHolds == Spec => ForgottenForAReason
<1>1. Init => RemovalsInv
  BY DEF Init, RemovalsInv, At, NoRoute
<1>2. ASSUME StoresInv, RemovalsInv, [Next]_vars
      PROVE  [/\ \A k \in DOMAIN sessions \ DOMAIN sessions' :
                   \/ Reader("forgetSession", k, sessions[k].usedAt)
                   \/ /\ Cardinality(DOMAIN sessions) = MaxSessions
                      /\ \A j \in DOMAIN sessions \cap DOMAIN sessions' : sessions[k].usedAt <= sessions[j].usedAt
              /\ \A k \in DOMAIN histories \ DOMAIN histories' :
                   Reader("forgetHistory", k, histories[k].updatedAt) \/ size + 1 > MaxSize]_vars
  <2>1. CASE UNCHANGED <<sessions, histories>>
    BY <2>1
  <2>2. ASSUME NEW r \in Requests, ActionOf(r)
        PROVE  /\ \A k \in DOMAIN sessions \ DOMAIN sessions' :
                    \/ Reader("forgetSession", k, sessions[k].usedAt)
                    \/ /\ Cardinality(DOMAIN sessions) = MaxSessions
                       /\ \A j \in DOMAIN sessions \cap DOMAIN sessions' : sessions[k].usedAt <= sessions[j].usedAt
               /\ \A k \in DOMAIN histories \ DOMAIN histories' :
                    Reader("forgetHistory", k, histories[k].updatedAt) \/ size + 1 > MaxSize
    BY <1>2, <2>2, StepForgets DEF UsedLongestAgo
  <2> QED BY <1>2, <2>1, <2>2 DEF Next, ActionOf, vars, Tick, sessionStore, historyStore
<1>3. StoresInv /\ RemovalsInv /\ [Next]_vars => RemovalsInv'
  BY RemovalsStep
<1> QED BY <1>1, <1>2, <1>3, StoresInvariant, PTL DEF Spec, ForgottenForAReason

-----------------------------------------------------------------------------
(* Sorting.                                                                *)

\* A relation that puts any two different elements in an order.
IsOrder(before, P) ==
  /\ \A p, q \in P : p # q => <<p, q>> \in before \/ <<q, p>> \in before
  /\ \A p, q, t \in P : <<p, q>> \in before /\ <<q, t>> \in before => <<p, t>> \in before
  /\ \A p \in P : <<p, p>> \notin before

\* A sequence of all the elements of a set, each of them once.
Lists(e, P) ==
  /\ e \in Seq(P) /\ Distinct(e)
  /\ \A p \in P : \E n \in DOMAIN e : e[n] = p

\* InOrder lists the places, one that is before all others first: as many places
\* are before a place as its rank says, so ranks are one to one.
LEMMA InOrderLists ==
  ASSUME NEW P, IsFiniteSet(P), NEW before, IsOrder(before, P)
  PROVE  /\ Lists(InOrder(P, before), P)
         /\ Len(InOrder(P, before)) = Cardinality(P)
         /\ \A p \in P : (\A q \in P \ {p} : <<p, q>> \in before) => InOrder(P, before)[1] = p
<1> DEFINE N == Cardinality(P)
           Below(p) == {q \in P : <<q, p>> \in before}
           count == [p \in P |-> Cardinality(Below(p))]
           rank == [p \in P |-> count[p] + 1]
           e == InOrder(P, before)
<1>1. N \in Nat
  BY FS_CardinalityType
<1>2. ASSUME NEW p \in P
      PROVE  IsFiniteSet(Below(p)) /\ count[p] \in Nat /\ count[p] < N
  <2>1. Below(p) \in SUBSET (P \ {p})
    BY DEF IsOrder
  <2>2. IsFiniteSet(P \ {p}) /\ Cardinality(P \ {p}) = N - 1
    BY FS_RemoveElement
  <2>3. IsFiniteSet(Below(p)) /\ Cardinality(Below(p)) <= N - 1
    <3> DEFINE S == P \ {p}
               T == Below(p)
    <3>1. IsFiniteSet(S) /\ Cardinality(S) = N - 1 /\ T \in SUBSET S
      BY <2>1, <2>2
    <3> HIDE DEF S, T, N
    <3>2. IsFiniteSet(T) /\ Cardinality(T) <= Cardinality(S)
      BY <3>1, FS_Subset
    <3> QED BY <3>1, <3>2 DEF T
  <2>4. Cardinality(Below(p)) \in Nat
    BY <2>3, FS_CardinalityType
  <2>5. count[p] = Cardinality(Below(p))
    OBVIOUS
  <2> HIDE DEF Below, count
  <2> QED BY <1>1, <2>3, <2>4, <2>5
<1>c. \A p \in P : count[p] \in Nat /\ count[p] < N
  BY <1>2
<1>3. rank \in [P -> 1 .. N]
  <2> HIDE DEF count, N
  <2> QED BY <1>1, <1>c
<1>4. ASSUME NEW p \in P, NEW q \in P, <<p, q>> \in before PROVE rank[p] < rank[q]
  <2>1. Below(p) \cup {p} \in SUBSET Below(q) /\ p \notin Below(p)
    BY <1>4 DEF IsOrder
  <2>2. IsFiniteSet(Below(p)) /\ IsFiniteSet(Below(q))
    BY <1>2
  <2>3. Cardinality(Below(p) \cup {p}) = count[p] + 1
    BY <2>1, <2>2, FS_AddElement
  <2>4. Cardinality(Below(p) \cup {p}) <= Cardinality(Below(q))
    BY <2>1, <2>2, FS_Subset
  <2>5. count[p] + 1 <= count[q]
    BY <2>3, <2>4
  <2> HIDE DEF count
  <2> QED BY <1>c, <2>5
<1>5. \A p, q \in P : rank[p] = rank[q] => p = q
  <2> SUFFICES ASSUME NEW p \in P, NEW q \in P, rank[p] = rank[q], p # q PROVE FALSE
    OBVIOUS
  <2>1. <<p, q>> \in before \/ <<q, p>> \in before
    BY DEF IsOrder
  <2>2. rank[p] \in Int /\ rank[q] \in Int
    BY <1>3
  <2> HIDE DEF rank
  <2> QED BY <1>4, <2>1, <2>2
<1>6. ASSUME NEW n \in 1 .. N PROVE \E p \in P : rank[p] = n
  <2>1. rank \in Injection(P, 1 .. N)
    BY <1>3, <1>5 DEF Injection, IsInjective
  <2>2. IsFiniteSet(1 .. N) /\ Cardinality(1 .. N) = N
    BY <1>1, FS_Interval
  <2> HIDE DEF rank
  <2>3. rank \in Surjection(P, 1 .. N)
    BY <2>1, <2>2, FS_Injection
  <2> QED BY <2>3 DEF Surjection
<1>7. ASSUME NEW n \in 1 .. N PROVE e[n] \in P /\ rank[e[n]] = n
  <2>1. e[n] = CHOOSE p \in P : Cardinality(Below(p)) = n - 1
    BY DEF InOrder
  <2>2. \E p \in P : count[p] = n - 1
    <3>1. PICK p \in P : rank[p] = n
      BY <1>6
    <3>2. count[p] + 1 = n
      BY <3>1
    <3> HIDE DEF count, rank
    <3> QED BY <1>c, <3>2
  <2>3. \E p \in P : Cardinality(Below(p)) = n - 1
    BY <2>2
  <2>4. e[n] \in P /\ Cardinality(Below(e[n])) = n - 1
    BY <2>1, <2>3
  <2>5. e[n] \in P /\ count[e[n]] = n - 1
    BY <2>4
  <2> HIDE DEF count, e
  <2> QED BY <2>5
<1>8. DOMAIN e = 1 .. N /\ e \in [1 .. N -> P]
  <2> DEFINE at(n) == CHOOSE p \in P : Cardinality(Below(p)) = n - 1
  <2>1. e = [n \in 1 .. N |-> at(n)]
    BY DEF InOrder
  <2> HIDE DEF at
  <2>2. \A n \in 1 .. N : e[n] = at(n)
    BY <2>1
  <2> HIDE DEF e
  <2> QED BY <1>7, <2>1, <2>2
<1> HIDE DEF e, rank
<1>10. e \in Seq(P) /\ Len(e) = N
  BY <1>1, <1>8
<1>11. Distinct(e)
  BY <1>7, <1>8 DEF Distinct
<1>12. \A p \in P : rank[p] \in DOMAIN e /\ e[rank[p]] = p
  BY <1>3, <1>5, <1>7, <1>8
<1>13. ASSUME NEW p \in P, \A q \in P \ {p} : <<p, q>> \in before PROVE e[1] = p
  <2>1. N >= 1 /\ 1 \in 1 .. N
    BY <1>1, <1>3
  <2>2. e[1] \in P /\ rank[e[1]] = 1
    BY <1>7, <2>1
  <2>3. CASE e[1] # p
    <3>1. rank[p] < rank[e[1]]
      BY <1>4, <1>13, <2>2, <2>3
    <3> QED BY <1>3, <2>2, <3>1
  <2> QED BY <2>3
<1> QED BY <1>10, <1>11, <1>12, <1>13 DEF Lists, e

\* The elements of a sequence that stand at some of its places.
Taken(s, e) == [n \in DOMAIN e |-> s[e[n]]]
LEMMA TakenIs ==
  ASSUME NEW S, NEW s \in Seq(S), NEW P, P \subseteq DOMAIN s, NEW e, Lists(e, P)
  PROVE  /\ Taken(s, e) \in Seq(S) /\ Len(Taken(s, e)) = Len(e)
         /\ ToSet(Taken(s, e)) = {s[p] : p \in P}
         /\ Distinct(s) => Distinct(Taken(s, e))
         /\ P # {} => Taken(s, e) # <<>>
<1> DEFINE t == Taken(s, e)
<1>1. e \in Seq(P) /\ Distinct(e) /\ \A p \in P : \E n \in DOMAIN e : e[n] = p
  BY DEF Lists
<1>2. Len(e) \in Nat /\ DOMAIN e = 1 .. Len(e) /\ \A n \in DOMAIN e : e[n] \in P /\ s[e[n]] \in S
  BY <1>1
<1>3. t \in Seq(S) /\ Len(t) = Len(e) /\ DOMAIN t = DOMAIN e /\ \A n \in DOMAIN e : t[n] = s[e[n]]
  BY <1>2 DEF Taken
<1> HIDE DEF t
<1>4. ToSet(t) = {s[p] : p \in P}
  BY <1>1, <1>2, <1>3 DEF ToSet
<1>5. Distinct(s) => Distinct(t)
  BY <1>1, <1>2, <1>3 DEF Distinct
<1>6. P # {} => t # <<>>
  BY <1>1, <1>3
<1> QED BY <1>3, <1>4, <1>5, <1>6 DEF t

\* An order that may not tell some elements apart.
IsWeakOrder(less, S) ==
  /\ \A m, n \in S : <<m, n>> \in less => <<n, m>> \notin less
  /\ \A m, n, k \in S : <<m, k>> \in less => <<m, n>> \in less \/ <<n, k>> \in less

\* Sorting reorders, and what comes before all others comes first.
LEMMA SortedIs ==
  ASSUME NEW S, NEW s \in Seq(S), NEW less, IsWeakOrder(less, S)
  PROVE  /\ Sorted(s, less) \in Seq(S) /\ ToSet(Sorted(s, less)) = ToSet(s)
         /\ Distinct(s) => Distinct(Sorted(s, less))
         /\ \A m \in ToSet(s) :
              Distinct(s) /\ (\A n \in ToSet(s) \ {m} : <<m, n>> \in less) => Head(Sorted(s, less)) = m
         /\ s # <<>> => Sorted(s, less) # <<>>
<1> DEFINE D == DOMAIN s
           before == {p \in D \X D : <<s[p[1]], s[p[2]]>> \in less \/ (<<s[p[2]], s[p[1]]>> \notin less /\ p[1] < p[2])}
           e == InOrder(D, before)
<1>1. D = 1 .. Len(s) /\ Len(s) \in Nat /\ IsFiniteSet(D) /\ \A i \in D : i \in Nat /\ s[i] \in S
  BY FS_Interval
<1>2. Sorted(s, less) = Taken(s, e)
  BY DEF Sorted, Taken
<1>3. \A i, j \in D : <<i, j>> \in before <=> (<<s[i], s[j]>> \in less \/ (<<s[j], s[i]>> \notin less /\ i < j))
  OBVIOUS
<1> HIDE DEF before, D
<1>4. IsOrder(before, D)
  <2> DEFINE L(i, j) == <<s[i], s[j]>> \in less
             B(i, j) == <<i, j>> \in before
  <2>1. \A i, j \in D : B(i, j) <=> L(i, j) \/ (~L(j, i) /\ i < j)
    BY <1>3
  <2>2. \A i, j \in D : L(i, j) => ~L(j, i)
    BY <1>1 DEF IsWeakOrder
  <2>3. \A i, j, k \in D : L(i, k) => L(i, j) \/ L(j, k)
    BY <1>1 DEF IsWeakOrder
  <2>4. D \subseteq Nat
    BY <1>1
  <2> HIDE DEF L, B
  <2>5. \A i, j \in D : i # j => B(i, j) \/ B(j, i)
    BY <2>1, <2>4
  <2>6. \A i \in D : ~B(i, i)
    BY <2>1, <2>2, <2>4
  <2>7. \A i, j, k \in D : B(i, j) /\ B(j, k) => B(i, k)
    BY <2>1, <2>2, <2>3, <2>4
  <2> QED BY <2>5, <2>6, <2>7 DEF IsOrder, B
<1>5. /\ Lists(e, D) /\ Len(e) = Cardinality(D)
      /\ \A p \in D : (\A q \in D \ {p} : <<p, q>> \in before) => e[1] = p
  BY <1>1, <1>4, InOrderLists
<1> HIDE DEF e
<1>6. /\ Taken(s, e) \in Seq(S) /\ Len(Taken(s, e)) = Len(e) /\ ToSet(Taken(s, e)) = {s[p] : p \in D}
      /\ Distinct(s) => Distinct(Taken(s, e))
      /\ D # {} => Taken(s, e) # <<>>
  <2>1. D \subseteq DOMAIN s
    BY DEF D
  <2> QED BY <1>5, <2>1, TakenIs
<1>7. {s[p] : p \in D} = ToSet(s)
  BY DEF D, ToSet
<1>8. ASSUME NEW m \in ToSet(s), Distinct(s), (\A n \in ToSet(s) \ {m} : <<m, n>> \in less)
      PROVE  Head(Taken(s, e)) = m
  <2>1. PICK p \in D : s[p] = m
    BY DEF ToSet, D
  <2>2. \A q \in D \ {p} : <<p, q>> \in before
    BY <1>3, <1>8, <2>1 DEF Distinct, ToSet, D
  <2>3. e[1] = p
    BY <1>5, <2>2
  <2>4. Taken(s, e) # <<>> /\ Taken(s, e)[1] = s[e[1]]
    <3>1. Taken(s, e) # <<>> /\ Taken(s, e) \in Seq(S)
      BY <1>6, <2>1
    <3>2. 1 \in DOMAIN Taken(s, e)
      BY <3>1
    <3> QED BY <3>1, <3>2 DEF Taken
  <2> QED BY <1>6, <2>1, <2>3, <2>4
<1>9. s # <<>> => D # {}
  BY <1>1
<1> QED BY <1>2, <1>6, <1>7, <1>8, <1>9

\* Keeping a set's elements keeps their order: the first stays first.
LEMMA KeptIs ==
  ASSUME NEW S, NEW s \in Seq(S), NEW set
  PROVE  /\ Kept(s, set) \in Seq(S) /\ ToSet(Kept(s, set)) = ToSet(s) \cap set
         /\ Distinct(s) => Distinct(Kept(s, set))
         /\ s # <<>> /\ s[1] \in set => Head(Kept(s, set)) = s[1]
<1> DEFINE D == DOMAIN s
           P == {i \in D : s[i] \in set}
           before == {p \in D \X D : p[1] < p[2]}
           e == InOrder(P, before)
<1>1. D = 1 .. Len(s) /\ Len(s) \in Nat /\ IsFiniteSet(D) /\ \A i \in D : i \in Nat
  BY FS_Interval
<1>2. Kept(s, set) = Taken(s, e)
  BY DEF Kept, Taken
<1>3. P \subseteq D /\ IsFiniteSet(P)
  BY <1>1, FS_Subset
<1>4. \A i, j \in D : <<i, j>> \in before <=> i < j
  OBVIOUS
<1>s. \A i \in D : i \in P <=> s[i] \in set
  OBVIOUS
<1>7. {s[p] : p \in P} = ToSet(s) \cap set
  BY DEF ToSet
<1> HIDE DEF before, P
<1>5. IsOrder(before, P)
  BY <1>1, <1>3, <1>4 DEF IsOrder
<1>6. /\ Lists(e, P)
      /\ \A p \in P : (\A q \in P \ {p} : <<p, q>> \in before) => e[1] = p
  BY <1>3, <1>5, InOrderLists
<1> HIDE DEF e
<1>8. /\ Taken(s, e) \in Seq(S) /\ ToSet(Taken(s, e)) = {s[p] : p \in P}
      /\ Distinct(s) => Distinct(Taken(s, e))
      /\ P # {} => Taken(s, e) # <<>>
  BY <1>3, <1>6, TakenIs
<1>9. ASSUME s # <<>>, s[1] \in set PROVE Head(Taken(s, e)) = s[1]
  <2>1. 1 \in P
    BY <1>1, <1>9, <1>s
  <2>2. e[1] = 1
    BY <1>1, <1>3, <1>4, <1>6, <2>1
  <2>3. Taken(s, e) # <<>> /\ Taken(s, e) \in Seq(S)
    BY <1>8, <2>1
  <2>4. 1 \in DOMAIN Taken(s, e)
    BY <2>3
  <2>5. Taken(s, e)[1] = s[1]
    BY <2>2, <2>4 DEF Taken
  <2> QED BY <2>3, <2>5
<1> QED BY <1>2, <1>7, <1>8, <1>9

-----------------------------------------------------------------------------
(* What is offered.                                                        *)

\* Models from their whole catalog, each once.
Chain(s, set) == s \in Seq(Models) /\ Distinct(s) /\ ToSet(s) = set

\* Every strategy's order is one.
LEMMA StrategiesOrder ==
  /\ IsWeakOrder(ByTier, Models) /\ IsWeakOrder(Cheaper, Models)
  /\ IsWeakOrder(Within(ByTier), Models)
  /\ IsWeakOrder(Within({p \in Pairs : <<p[2], p[1]>> \in ByTier}), Models)
<1> DEFINE Back == {p \in Pairs : <<p[2], p[1]>> \in ByTier}
<1>1. \A m \in Models : /\ About[m].tier \in Int /\ About[m].price \in Int /\ About[m].cachedPrice \in Int
                        /\ About[m].subscription \in BOOLEAN
  BY CatalogAssumption
<1>2. \A m, n \in Models : <<m, n>> \in ByTier <=> About[m].tier < About[n].tier
  BY DEF ByTier, Pairs
<1>3. \A m, n \in Models : <<m, n>> \in Back <=> About[n].tier < About[m].tier
  BY <1>2 DEF Pairs
<1>4. \A m, n \in Models :
        <<m, n>> \in Cheaper <=> IF About[m].subscription # About[n].subscription THEN About[m].subscription
                             ELSE About[m].cachedPrice < About[n].cachedPrice
  BY DEF Cheaper, Pairs
<1>5. ASSUME NEW order
      PROVE  \A m, n \in Models :
               <<m, n>> \in Within(order) <=>
                 <<m, n>> \in order \/ (About[m].tier = About[n].tier /\ About[m].price < About[n].price)
  BY DEF Within, Pairs
<1> HIDE DEF Back
<1>6. IsWeakOrder(ByTier, Models)
  BY <1>1, <1>2 DEF IsWeakOrder
<1>7. IsWeakOrder(Cheaper, Models)
  BY <1>1, <1>4 DEF IsWeakOrder
<1>8. IsWeakOrder(Within(ByTier), Models)
  BY <1>1, <1>2, <1>5 DEF IsWeakOrder
<1>9. IsWeakOrder(Within(Back), Models)
  BY <1>1, <1>3, <1>5 DEF IsWeakOrder
<1> QED BY <1>6, <1>7, <1>8, <1>9 DEF Back

\* A strategy only reorders.
LEMMA StrategyReorders ==
  ASSUME NEW set, NEW s, Chain(s, set), NEW strategy
  PROVE  Chain(SortByStrategy(strategy, s), set) /\ (s # <<>> => SortByStrategy(strategy, s) # <<>>)
<1>1. ASSUME NEW less, IsWeakOrder(less, Models)
      PROVE  Chain(Sorted(s, less), set) /\ (s # <<>> => Sorted(s, less) # <<>>)
  BY <1>1, SortedIs DEF Chain
<1> DEFINE Result(t) == Chain(t, set) /\ (s # <<>> => t # <<>>)
           back == Within({p \in Pairs : <<p[2], p[1]>> \in ByTier})
<1>2. Result(Sorted(s, back)) /\ Result(Sorted(s, Within(ByTier))) /\ Result(Sorted(s, Cheaper)) /\ Result(Sorted(s, ByTier))
  BY <1>1, StrategiesOrder
<1>3. Result(s)
  OBVIOUS
<1>4. SortByStrategy(strategy, s) \in {Sorted(s, back), Sorted(s, Within(ByTier)), Sorted(s, Cheaper), Sorted(s, ByTier), s}
  BY DEF SortByStrategy
<1> HIDE DEF back, Result
<1>5. Result(SortByStrategy(strategy, s))
  BY <1>2, <1>3, <1>4
<1> QED BY <1>5 DEF Result

\* The place of a model in a key's list is one of the list, or 0.
LEMMA PositionIsNat ==
  ASSUME NEW S, NEW patterns \in Seq(S), NEW m
  PROVE  Position(m, patterns) \in Nat
<1> DEFINE n == Len(patterns)
<1>1. n \in Nat /\ DOMAIN patterns = 1 .. n
  OBVIOUS
<1> HIDE DEF n
<1>2. ASSUME NEW places \in SUBSET (DOMAIN patterns), places # {}
      PROVE  (CHOOSE i \in places : \A j \in places : j <= i) \in Nat
  <2> DEFINE back == {n - i : i \in places}
  <2>1. back \subseteq Nat /\ back # {}
    BY <1>1, <1>2
  <2>2. PICK b \in back : \A c \in back : b <= c
    BY <2>1, SmallestNatIn
  <2>3. PICK i \in places : b = n - i
    BY <2>2
  <2>4. ASSUME NEW j \in places PROVE j <= i
    <3>1. n - j \in back /\ j \in Int /\ i \in Int
      BY <1>1, <1>2
    <3>2. n - i <= n - j
      BY <2>2, <2>3, <3>1
    <3> QED BY <1>1, <3>1, <3>2
  <2>5. i \in places /\ \A j \in places : j <= i
    BY <2>4
  <2>6. (CHOOSE k \in places : \A j \in places : j <= k) \in places
    BY <2>5
  <2> QED BY <1>1, <1>2, <2>6
<1> DEFINE exact == {i \in DOMAIN patterns : Exact(patterns[i], m)}
           wild == {i \in DOMAIN patterns : Wildcard(patterns[i], m)}
           Latest(places) == CHOOSE i \in places : \A j \in places : j <= i
<1>3. exact # {} => Latest(exact) \in Nat
  BY <1>2
<1>4. wild # {} => Latest(wild) \in Nat
  BY <1>2
<1>5. Position(m, patterns) = IF exact # {} THEN Latest(exact) ELSE IF wild # {} THEN Latest(wild) ELSE 0
  BY DEF Position
<1> HIDE DEF exact, wild, Latest
<1> QED BY <1>3, <1>4, <1>5

\* The candidates are the active models, whatever the order.
LEMMA CandidatesAreActive ==
  ASSUME NEW strategy, NEW allowed, allowed \in Seq(ToSet(allowed))
  PROVE  Chain(Candidates(strategy, allowed), Active)
<1> DEFINE active == Kept(CatalogOrder, Active)
           place == [m \in Models |-> Position(m, allowed)]
           earlier == {p \in Pairs : place[p[1]] # 0 /\ (place[p[2]] = 0 \/ place[p[1]] < place[p[2]])}
<1>1. Chain(active, Active)
  <2>1. CatalogOrder \in Seq(Models) /\ Distinct(CatalogOrder)
    BY CatalogAssumption DEF Distinct
  <2>2. ToSet(CatalogOrder) \cap Active = Active
    BY DEF Active, Models
  <2> QED BY <2>1, <2>2, KeptIs DEF Chain
<1>2. \A m \in Models : place[m] \in Nat
  BY PositionIsNat
<1> HIDE DEF place
<1>3. \A m, n \in Models : <<m, n>> \in earlier <=> place[m] # 0 /\ (place[n] = 0 \/ place[m] < place[n])
  BY DEF Pairs
<1> HIDE DEF earlier, active
<1>4. IsWeakOrder(earlier, Models)
  BY <1>2, <1>3 DEF IsWeakOrder
<1>5. Chain(Sorted(active, earlier), Active)
  BY <1>1, <1>4, SortedIs DEF Chain
<1>6. SortByAllowedModelsOrder(active, allowed) = Sorted(active, earlier)
  BY DEF SortByAllowedModelsOrder, earlier, place
<1>7. Candidates(strategy, allowed) \in {active, SortByAllowedModelsOrder(active, allowed)}
  BY DEF Candidates, active
<1> QED BY <1>1, <1>5, <1>6, <1>7

\* What routing may choose from: the active models able to do what is needed,
\* or all of them if none is; and what its key leaves of them.
AbleTo(ask) == {m \in Active : ask.needs \subseteq About[m].able}
Eligible(ask) == IF AbleTo(ask) = {} THEN Active ELSE AbleTo(ask)
Offered(ask) == {m \in Eligible(ask) : Matches(m, ask.allowed)}

LEMMA AbleIsEligible ==
  ASSUME NEW ask \in Asks
  PROVE  Chain(Able(ask), Eligible(ask))
<1> DEFINE all == Candidates(ask.strategy, ask.allowed)
           able == Kept(all, {m \in Models : ask.needs \subseteq About[m].able})
<1>1. Chain(all, Active)
  BY CandidatesAreActive, CatalogAssumption
<1> HIDE DEF all
<1>2. Chain(able, AbleTo(ask))
  <2>1. Active \cap {m \in Models : ask.needs \subseteq About[m].able} = AbleTo(ask)
    BY DEF Active, AbleTo
  <2> QED BY <1>1, <2>1, KeptIs DEF Chain
<1>3. able = <<>> <=> AbleTo(ask) = {}
  <2> HIDE DEF able
  <2>1. able \in Seq(Models) /\ ToSet(able) = AbleTo(ask)
    BY <1>2 DEF Chain
  <2>2. ASSUME able # <<>> PROVE ToSet(able) # {}
    <3>1. 1 \in DOMAIN able
      BY <2>1, <2>2
    <3> QED BY <3>1 DEF ToSet
  <2>3. ASSUME able = <<>> PROVE ToSet(able) = {}
    BY <2>3 DEF ToSet
  <2> QED BY <2>1, <2>2, <2>3
<1>4. Able(ask) = IF able = <<>> THEN all ELSE able
  BY DEF Able, FilterByConstraints, all
<1> HIDE DEF able
<1> QED BY <1>1, <1>2, <1>3, <1>4 DEF Eligible

\* The session's model comes first, if it may be chosen at all and its entry
\* does not change while it is compared.
LEMMA AffinityPutsHomeFirst ==
  ASSUME NEW set, NEW s, Chain(s, set), NEW kind \in [ToSet(s) -> ToSet(Kinds)]
  PROVE  /\ Chain(BuildAffinityList(s, kind), set)
         /\ \A home \in set :
              (\A m \in set : kind[m] = "exact" <=> m = home) => Head(BuildAffinityList(s, kind)) = home
<1> DEFINE list == [m \in ToSet(s) |-> CHOOSE i \in DOMAIN Kinds : Kinds[i] = kind[m]]
           less == {p \in ToSet(s) \X ToSet(s) : list[p[1]] < list[p[2]]}
<1>1. s \in Seq(Models) /\ s \in Seq(set) /\ ToSet(s) = set /\ set \subseteq Models /\ Distinct(s)
  BY DEF Chain, ToSet
<1>2. DOMAIN Kinds = 1 .. 4 /\ Kinds[1] = "exact" /\ Kinds[2] # "exact" /\ Kinds[3] # "exact" /\ Kinds[4] # "exact"
  BY DEF Kinds
<1>3. ASSUME NEW m \in set
      PROVE  list[m] \in 1 .. 4 /\ (list[m] = 1 <=> kind[m] = "exact")
  <2>1. kind[m] \in ToSet(Kinds)
    BY <1>1
  <2>2. \E i \in DOMAIN Kinds : Kinds[i] = kind[m]
    BY <2>1 DEF ToSet
  <2>3. list[m] \in DOMAIN Kinds /\ Kinds[list[m]] = kind[m]
    BY <1>1, <2>2
  <2> HIDE DEF list
  <2>4. list[m] \in {1, 2, 3, 4}
    BY <1>2, <2>3
  <2> QED BY <1>2, <2>3, <2>4
<1> HIDE DEF list
<1>4. \A m, n \in set : <<m, n>> \in less <=> list[m] < list[n]
  BY <1>1
<1>5. BuildAffinityList(s, kind) = Sorted(s, less)
  BY DEF BuildAffinityList, list
<1> HIDE DEF less
<1>6. IsWeakOrder(less, set)
  BY <1>3, <1>4 DEF IsWeakOrder
<1>7. /\ Sorted(s, less) \in Seq(set) /\ ToSet(Sorted(s, less)) = set /\ Distinct(Sorted(s, less))
      /\ \A m \in set : (\A n \in set \ {m} : <<m, n>> \in less) => Head(Sorted(s, less)) = m
  BY <1>1, <1>6, SortedIs
<1>8. Sorted(s, less) \in Seq(Models)
  BY <1>1, <1>7
<1>9. ASSUME NEW home \in set, \A m \in set : kind[m] = "exact" <=> m = home
      PROVE  \A n \in set \ {home} : <<home, n>> \in less
  BY <1>3, <1>4, <1>9
<1> QED BY <1>5, <1>7, <1>8, <1>9 DEF Chain

-----------------------------------------------------------------------------
(* The choice of a request, from the first look to the model that serves.  *)

\* Where a request is, or will be when it has removed its session.
Stage(rec) == IF rec.step = "forgetSession" THEN rec.then ELSE rec.step

Unranked == {"look", "rank"}
RankedOnly == {"note", "permit"}
Trying == {"try", "bridge", "forgetHistory", "answer", "set"}

ChainFields == {"step", "then", "ask", "chain", "home", "passed"}

\* The chain holds what may be chosen, then what is offered and not passed
\* yet; the session's model is at its head until it is passed.
ChainInv(rec) ==
  /\ ChainFields \subseteq DOMAIN rec
  /\ IsAuto(rec.ask) =>
       /\ Stage(rec) \in Unranked => rec.ask \in Asks /\ rec.home = "none" /\ rec.passed = {}
       /\ Stage(rec) \in RankedOnly =>
            /\ Chain(rec.chain, Eligible(rec.ask)) /\ rec.passed = {}
            /\ rec.home \in Eligible(rec.ask) => Head(rec.chain) = rec.home
       /\ Stage(rec) \in Trying =>
            /\ rec.chain \in Seq(Models) /\ rec.chain # <<>> /\ Distinct(rec.chain)
            /\ ToSet(rec.chain) \subseteq Offered(rec.ask) \ rec.passed
            /\ rec.home \in Offered(rec.ask) => rec.home \in rec.passed \cup {Head(rec.chain)}
ChainsInv == DOMAIN route = Requests /\ \A r \in Requests : ChainInv(route[r])

\* What a step leaves alone in a route, and what it sets.
LEMMA RouteIs ==
  ASSUME ChainsInv, NEW r \in Requests, NEW change, Move(r, change)
  PROVE  /\ ChainFields \subseteq DOMAIN route'[r]
         /\ \A f \in ChainFields : route'[r][f] = IF f \in DOMAIN change THEN change[f] ELSE route[r][f]
<1>1. route'[r] = Changed(route[r], change) /\ ChainFields \subseteq DOMAIN route[r]
  BY DEF Move, ChainsInv, ChainInv
<1> QED BY <1>1 DEF Changed

\* A step that only goes on within a stage, or leaves them all.
LEMMA StaysInStage ==
  ASSUME ChainsInv, NEW r \in Requests, NEW change, Move(r, change),
         DOMAIN change \cap {"ask", "chain", "home", "passed"} = {},
         \/ Stage(route'[r]) \in Unranked /\ Stage(route[r]) \in Unranked
         \/ Stage(route'[r]) \in RankedOnly /\ Stage(route[r]) \in RankedOnly
         \/ Stage(route'[r]) \in Trying /\ Stage(route[r]) \in Trying
         \/ Stage(route'[r]) \in {"user", "assistant", "idle"}
  PROVE  ChainInv(route'[r])
<1>1. /\ ChainFields \subseteq DOMAIN route'[r] /\ route'[r].ask = route[r].ask /\ route'[r].chain = route[r].chain
      /\ route'[r].home = route[r].home /\ route'[r].passed = route[r].passed
  BY RouteIs DEF ChainFields
<1>2. ChainInv(route[r])
  BY DEF ChainsInv
<1>3. Unranked \cap RankedOnly = {} /\ Unranked \cap Trying = {} /\ RankedOnly \cap Trying = {}
      /\ (Unranked \cup RankedOnly \cup Trying) \cap {"user", "assistant", "idle"} = {}
  BY DEF Unranked, RankedOnly, Trying
<1> QED BY <1>1, <1>2, <1>3 DEF ChainInv

\* To a step of the same stage, and over a session to be forgotten.
LEMMA StaysOnTo ==
  ASSUME ChainsInv, NEW r \in Requests, NEW step, To(r, step), step # "forgetSession",
         \/ step \in Trying /\ Stage(route[r]) \in Trying
         \/ step \in {"user", "assistant", "idle"}
         \/ step = Stage(route[r])
  PROVE  ChainInv(route'[r])
<1>1. route'[r].step = step
  BY RouteIs DEF To, ChainFields
<1>2. Stage(route'[r]) = step
  BY <1>1 DEF Stage
<1>3. CASE step \in Unranked \cup RankedOnly \cup Trying \cup {"user", "assistant", "idle"}
  BY <1>2, <1>3, StaysInStage DEF To
<1>4. CASE step \notin Unranked \cup RankedOnly \cup Trying \cup {"user", "assistant", "idle"}
  <2>1. ChainFields \subseteq DOMAIN route'[r]
    BY RouteIs DEF To
  <2> QED BY <1>2, <1>4, <2>1 DEF ChainInv
<1> QED BY <1>3, <1>4

LEMMA StaysThoughStale ==
  ASSUME ChainsInv, NEW r \in Requests, NEW then, StaleSession(r, then),
         \/ then \in Unranked /\ Stage(route[r]) \in Unranked
         \/ then \in RankedOnly /\ Stage(route[r]) \in RankedOnly
         \/ then \in Trying /\ Stage(route[r]) \in Trying
  PROVE  ChainInv(route'[r])
<1> DEFINE change == [step |-> "forgetSession", then |-> then, lookedAt |-> now]
<1>1. Move(r, change)
  BY DEF StaleSession
<1>2. DOMAIN change = {"step", "then", "lookedAt"} /\ change.step = "forgetSession" /\ change.then = then
  OBVIOUS
<1> HIDE DEF change
<1>3. route'[r].step = "forgetSession" /\ route'[r].then = then
  BY <1>1, <1>2, RouteIs DEF ChainFields
<1>4. Stage(route'[r]) = then
  BY <1>3 DEF Stage
<1> QED BY <1>1, <1>2, <1>4, StaysInStage

\* One that is over.
LEMMA OverIsFine ==
  ASSUME ChainsInv, NEW r \in Requests, Done(r)
  PROVE  ChainInv(route'[r])
<1>1. route'[r] = NoRoute
  BY DEF Done, ChainsInv
<1>2. ChainFields \subseteq DOMAIN NoRoute /\ Stage(NoRoute) = "idle"
  BY DEF NoRoute, ChainFields, Stage
<1> QED BY <1>1, <1>2 DEF ChainInv, Unranked, RankedOnly, Trying

\* What passes the head of the chain keeps the rest.
LEMMA WalkKeepsChain ==
  ASSUME ChainsInv, NEW r \in Requests, Walked(r), Stage(route[r]) \in Trying
  PROVE  ChainInv(route'[r])
<1> DEFINE rest == Tail(route[r].chain)
           first == Head(route[r].chain)
           change == [step |-> "try", chain |-> rest, passed |-> route[r].passed \cup {first}]
<1>1. CASE rest = <<>>
  BY <1>1, OverIsFine DEF Walked
<1>2. CASE rest # <<>>
  <2>1. Move(r, change)
    BY <1>2 DEF Walked
  <2>c. /\ DOMAIN change = {"step", "chain", "passed"} /\ change.step = "try" /\ change.chain = rest
        /\ change.passed = route[r].passed \cup {first}
    OBVIOUS
  <2> HIDE DEF change
  <2>2. /\ ChainFields \subseteq DOMAIN route'[r] /\ route'[r].step = "try" /\ route'[r].chain = rest
        /\ route'[r].passed = route[r].passed \cup {first}
        /\ route'[r].ask = route[r].ask /\ route'[r].home = route[r].home
    <3>1. /\ ChainFields \subseteq DOMAIN route'[r]
          /\ \A f \in ChainFields : route'[r][f] = IF f \in DOMAIN change THEN change[f] ELSE route[r][f]
      BY <2>1, RouteIs
    <3>2. /\ {"step", "chain", "passed", "ask", "home"} \subseteq ChainFields
          /\ {"step", "chain", "passed"} \subseteq DOMAIN change
          /\ "ask" \notin DOMAIN change /\ "home" \notin DOMAIN change
      BY <2>c DEF ChainFields
    <3>3. route'[r].step = change.step /\ route'[r].chain = change.chain /\ route'[r].passed = change.passed
      BY <3>1, <3>2
    <3>4. route'[r].ask = route[r].ask /\ route'[r].home = route[r].home
      BY <3>1, <3>2
    <3> QED BY <2>c, <3>1, <3>3, <3>4
  <2>3. SUFFICES ASSUME IsAuto(route[r].ask)
                 PROVE  /\ rest \in Seq(Models) /\ Distinct(rest)
                        /\ ToSet(rest) \subseteq Offered(route[r].ask) \ (route[r].passed \cup {first})
                        /\ route[r].home \in Offered(route[r].ask) => route[r].home \in route[r].passed \cup {first}
    BY <1>2, <2>2 DEF ChainInv, Stage, Unranked, RankedOnly, Trying
  <2>4. /\ route[r].chain \in Seq(Models) /\ route[r].chain # <<>> /\ Distinct(route[r].chain)
        /\ ToSet(route[r].chain) \subseteq Offered(route[r].ask) \ route[r].passed
        /\ route[r].home \in Offered(route[r].ask) => route[r].home \in route[r].passed \cup {first}
    BY <2>3 DEF ChainsInv, ChainInv
  <2>5. /\ rest \in Seq(Models) /\ Len(rest) = Len(route[r].chain) - 1
        /\ \A i \in 1 .. Len(route[r].chain) - 1 : rest[i] = route[r].chain[i + 1]
        /\ DOMAIN rest = 1 .. Len(rest) /\ DOMAIN route[r].chain = 1 .. Len(route[r].chain)
        /\ first = route[r].chain[1] /\ Len(route[r].chain) \in Nat /\ Len(route[r].chain) > 0
    BY <2>4
  <2> HIDE DEF rest, first
  <2>6. Distinct(rest)
    <3> SUFFICES ASSUME NEW i \in DOMAIN rest, NEW j \in DOMAIN rest, rest[i] = rest[j] PROVE i = j
      BY DEF Distinct
    <3>1. i + 1 \in DOMAIN route[r].chain /\ rest[i] = route[r].chain[i + 1]
      BY <2>5
    <3>2. j + 1 \in DOMAIN route[r].chain /\ rest[j] = route[r].chain[j + 1]
      BY <2>5
    <3>3. i + 1 = j + 1
      BY <2>4, <3>1, <3>2 DEF Distinct
    <3> QED BY <2>5, <3>3
  <2>7. ASSUME NEW i \in DOMAIN rest PROVE rest[i] \in ToSet(route[r].chain) /\ rest[i] # first
    <3>1. i + 1 \in DOMAIN route[r].chain /\ 1 \in DOMAIN route[r].chain /\ i + 1 # 1 /\ rest[i] = route[r].chain[i + 1]
      BY <2>5
    <3> QED BY <2>4, <2>5, <3>1 DEF Distinct, ToSet
  <2>8. ToSet(rest) \subseteq Offered(route[r].ask) \ (route[r].passed \cup {first})
    BY <2>4, <2>7 DEF ToSet
  <2> QED BY <2>4, <2>5, <2>6, <2>8
<1> QED BY <1>1, <1>2

\* The strategy's order is one of what may be chosen.
LEMMA RankedIsChain ==
  ASSUME ChainsInv, NEW r \in Requests, Ranked(r), Stage(route[r]) \in Unranked
  PROVE  ChainInv(route'[r])
<1> DEFINE chain == SortByStrategy(route[r].ask.strategy, Able(route[r].ask))
           change == [step |-> "note", chain |-> chain]
<1>1. Move(r, change)
  BY DEF Ranked
<1>2. DOMAIN change = {"step", "chain"} /\ change.step = "note" /\ change.chain = chain
  OBVIOUS
<1> HIDE DEF change
<1>3. /\ ChainFields \subseteq DOMAIN route'[r] /\ route'[r].step = "note" /\ route'[r].chain = chain
      /\ route'[r].passed = route[r].passed /\ route'[r].ask = route[r].ask /\ route'[r].home = route[r].home
  BY <1>1, <1>2, RouteIs DEF ChainFields
<1>4. SUFFICES ASSUME IsAuto(route[r].ask)
               PROVE  /\ Chain(chain, Eligible(route[r].ask)) /\ route[r].passed = {}
                      /\ route[r].home \notin Eligible(route[r].ask)
  BY <1>3 DEF ChainInv, Stage, Unranked, RankedOnly, Trying
<1>5. route[r].ask \in Asks /\ route[r].home = "none" /\ route[r].passed = {}
  BY <1>4 DEF ChainsInv, ChainInv
<1>6. Chain(chain, Eligible(route[r].ask))
  BY <1>5, AbleIsEligible, StrategyReorders
<1>7. Eligible(route[r].ask) \subseteq Models
  BY DEF Eligible, AbleTo, Active
<1> QED BY <1>5, <1>6, <1>7, RoutingAssumption

\* So is the list of a session, its model first.
LEMMA AffinityIsChain ==
  ASSUME ChainsInv, NEW r \in Requests, Stage(route[r]) \in Unranked,
         NEW kind \in [ToSet(Able(route[r].ask)) -> ToSet(Kinds)],
         \A m \in ToSet(Able(route[r].ask)) : \E entry \in Found(route[r].key) : kind[m] = KindOf(m, entry),
         NEW home,
         home = IF \E entry \in Found(route[r].key) : Found(route[r].key) = {entry} THEN Session(r).model ELSE "none",
         Move(r, [step |-> "note", chain |-> BuildAffinityList(Able(route[r].ask), kind), home |-> home])
  PROVE  ChainInv(route'[r])
<1> DEFINE ask == route[r].ask
           chain == BuildAffinityList(Able(ask), kind)
           change == [step |-> "note", chain |-> chain, home |-> home]
<1>1. Move(r, change)
  OBVIOUS
<1>2. DOMAIN change = {"step", "chain", "home"} /\ change.step = "note" /\ change.chain = chain /\ change.home = home
  OBVIOUS
<1> HIDE DEF change
<1>3. /\ ChainFields \subseteq DOMAIN route'[r] /\ route'[r].step = "note" /\ route'[r].chain = chain
      /\ route'[r].passed = route[r].passed /\ route'[r].ask = ask /\ route'[r].home = home
  BY <1>1, <1>2, RouteIs DEF ChainFields
<1>4. SUFFICES ASSUME IsAuto(ask)
               PROVE  /\ Chain(chain, Eligible(ask)) /\ route[r].passed = {}
                      /\ home \in Eligible(ask) => Head(chain) = home
  BY <1>3 DEF ChainInv, Stage, Unranked, RankedOnly, Trying
<1>5. ask \in Asks /\ route[r].passed = {}
  BY <1>4 DEF ChainsInv, ChainInv
<1>6. Chain(Able(ask), Eligible(ask)) /\ ToSet(Able(ask)) = Eligible(ask)
  BY <1>5, AbleIsEligible DEF Chain
<1>7. /\ Chain(chain, Eligible(ask))
      /\ \A m \in Eligible(ask) :
           (\A n \in Eligible(ask) : kind[n] = "exact" <=> n = m) => Head(chain) = m
  BY <1>6, AffinityPutsHomeFirst
<1>8. ASSUME home \in Eligible(ask) PROVE \A n \in Eligible(ask) : kind[n] = "exact" <=> n = home
  <2>1. home # "none"
    BY <1>8, RoutingAssumption DEF Eligible, AbleTo, Active
  <2>2. PICK entry \in Found(route[r].key) : Found(route[r].key) = {entry}
    BY <2>1
  <2>3. home = sessions[route[r].key].model
    BY <2>1, <2>2 DEF Session
  <2>4. [provider |-> About[home].provider, model |-> home] \in Found(route[r].key)
    BY <2>3 DEF Found
  <2>5. entry.model = home /\ entry.provider = About[home].provider
    BY <2>2, <2>4
  <2>6. ASSUME NEW n \in Eligible(ask) PROVE kind[n] = "exact" <=> n = home
    <3>1. kind[n] = KindOf(n, entry)
      BY <1>6, <2>2
    <3> QED BY <2>5, <3>1 DEF KindOf
  <2> QED BY <2>6
<1> QED BY <1>5, <1>7, <1>8

\* The key's list of models takes what it does not permit out of the chain.
LEMMA PermittedIsOffered ==
  ASSUME ChainsInv, NEW r \in Requests, Stage(route[r]) \in RankedOnly, NEW chain,
         chain = Kept(route[r].chain, {m \in ToSet(route[r].chain) : Matches(m, route[r].ask.allowed)}),
         chain # <<>>, Move(r, [step |-> "try", chain |-> chain])
  PROVE  ChainInv(route'[r])
<1> DEFINE ask == route[r].ask
           permitted == {m \in ToSet(route[r].chain) : Matches(m, ask.allowed)}
           change == [step |-> "try", chain |-> chain]
<1>1. Move(r, change)
  OBVIOUS
<1>2. DOMAIN change = {"step", "chain"} /\ change.step = "try" /\ change.chain = chain
  OBVIOUS
<1> HIDE DEF change
<1>3. /\ ChainFields \subseteq DOMAIN route'[r] /\ route'[r].step = "try" /\ route'[r].chain = chain
      /\ route'[r].passed = route[r].passed /\ route'[r].ask = ask /\ route'[r].home = route[r].home
  BY <1>1, <1>2, RouteIs DEF ChainFields
<1>4. SUFFICES ASSUME IsAuto(ask)
               PROVE  /\ chain \in Seq(Models) /\ Distinct(chain) /\ ToSet(chain) \subseteq Offered(ask)
                      /\ route[r].passed = {}
                      /\ route[r].home \in Offered(ask) => route[r].home = Head(chain)
  BY <1>3 DEF ChainInv, Stage, Unranked, RankedOnly, Trying
<1>5. /\ Chain(route[r].chain, Eligible(ask)) /\ route[r].passed = {}
      /\ route[r].home \in Eligible(ask) => Head(route[r].chain) = route[r].home
  BY <1>4 DEF ChainsInv, ChainInv
<1>6. permitted = Offered(ask)
  BY <1>5 DEF Chain, Offered
<1> HIDE DEF permitted
<1>7. /\ chain \in Seq(Models) /\ Distinct(chain) /\ ToSet(chain) \subseteq Offered(ask)
      /\ route[r].chain # <<>> /\ route[r].chain[1] \in permitted => Head(chain) = route[r].chain[1]
  <2> DEFINE s == route[r].chain
  <2>1. s \in Seq(Models) /\ Distinct(s)
    BY <1>5 DEF Chain
  <2>2. chain = Kept(s, permitted)
    BY DEF permitted
  <2> HIDE DEF s
  <2>3. /\ Kept(s, permitted) \in Seq(Models) /\ ToSet(Kept(s, permitted)) = ToSet(s) \cap permitted
        /\ Distinct(Kept(s, permitted))
        /\ s # <<>> /\ s[1] \in permitted => Head(Kept(s, permitted)) = s[1]
    BY <2>1, KeptIs
  <2>4. /\ chain \in Seq(Models) /\ ToSet(chain) \subseteq permitted /\ Distinct(chain)
        /\ s # <<>> /\ s[1] \in permitted => Head(chain) = s[1]
    BY <2>2, <2>3
  <2> QED BY <1>6, <2>4 DEF s
<1>8. ASSUME route[r].home \in Offered(ask) PROVE route[r].home = Head(chain)
  <2>1. route[r].home \in ToSet(route[r].chain) /\ Head(route[r].chain) = route[r].home
    BY <1>5, <1>8 DEF Chain, Offered
  <2>2. route[r].chain \in Seq(Models) /\ route[r].chain # <<>>
    BY <1>5, <2>1 DEF Chain, ToSet
  <2>3. route[r].chain[1] = route[r].home
    BY <2>1, <2>2
  <2> QED BY <1>6, <1>7, <1>8, <2>2, <2>3
<1> QED BY <1>5, <1>7, <1>8

\* A request that arrives has not been offered anything.
LEMMA ArrivesUnranked ==
  ASSUME ChainsInv, NEW r \in Requests, Arrive(r)
  PROVE  ChainInv(route'[r])
<1>1. PICK k \in Conversations \cup {Nobody}, a \in Asks :
        route' = [route EXCEPT ![r] = [NoRoute EXCEPT !.step = IF IsAuto(a) THEN "look" ELSE "permit",
                                                      !.key = k, !.ask = a, !.chain = a.chain]]
  BY DEF Arrive
<1>2. route'[r] = [NoRoute EXCEPT !.step = IF IsAuto(a) THEN "look" ELSE "permit", !.key = k, !.ask = a, !.chain = a.chain]
  BY <1>1 DEF ChainsInv
<1>3. /\ ChainFields \subseteq DOMAIN route'[r] /\ route'[r].step = IF IsAuto(a) THEN "look" ELSE "permit"
      /\ route'[r].ask = a /\ route'[r].home = "none" /\ route'[r].passed = {}
  BY <1>2 DEF NoRoute, ChainFields
<1> QED BY <1>3 DEF ChainInv, Stage, Unranked, RankedOnly, Trying

\* Every action of a request keeps its chain.
LEMMA ChainStep ==
  ASSUME ChainsInv, NEW r \in Requests, route[r].then # "forgetSession", ActionOf(r)
  PROVE  ChainInv(route'[r])
<1> USE DEF Stage, Unranked, RankedOnly, Trying, At
<1>1. CASE Arrive(r)
  BY <1>1, ArrivesUnranked
<1>2. CASE Look(r)
  <2>1. Stage(route[r]) \in Unranked
    BY <1>2 DEF Look
  <2>2. CASE Done(r)
    BY <2>2, OverIsFine
  <2>3. CASE StaleSession(r, "rank")
    BY <2>1, <2>3, StaysThoughStale
  <2>4. CASE Ranked(r)
    BY <2>1, <2>4, RankedIsChain
  <2>5. CASE \E kind \in [ToSet(Able(route[r].ask)) -> ToSet(Kinds)] :
               /\ \A m \in ToSet(Able(route[r].ask)) : \E entry \in Found(route[r].key) : kind[m] = KindOf(m, entry)
               /\ Move(r, [step |-> "note", chain |-> BuildAffinityList(Able(route[r].ask), kind),
                           home |-> IF \E entry \in Found(route[r].key) : Found(route[r].key) = {entry}
                                    THEN Session(r).model ELSE "none"])
    BY <2>1, <2>5, AffinityIsChain
  <2> QED BY <1>2, <2>2, <2>3, <2>4, <2>5 DEF Look
<1>3. CASE Rank(r)
  BY <1>3, RankedIsChain DEF Rank
<1>4. CASE Permit(r)
  <2> DEFINE chain == Kept(route[r].chain, {m \in ToSet(route[r].chain) : Matches(m, route[r].ask.allowed)})
  <2>1. Stage(route[r]) \in RankedOnly
    BY <1>4 DEF Permit
  <2>2. CASE StaleSession(r, "permit")
    BY <2>1, <2>2, StaysThoughStale
  <2>3. CASE Done(r)
    BY <2>3, OverIsFine
  <2>4. CASE chain # <<>> /\ Move(r, [step |-> "try", chain |-> chain])
    BY <2>1, <2>4, PermittedIsOffered
  <2> QED BY <1>4, <2>2, <2>3, <2>4 DEF Permit
<1>5. CASE Try(r)
  BY <1>5, WalkKeepsChain, StaysThoughStale, StaysOnTo DEF Try
<1>6. CASE Bridge(r)
  <2> DEFINE k == route[r].key
  <2>1. ASSUME NEW change, Move(r, change), DOMAIN change \cap {"ask", "chain", "home", "passed"} = {},
               "step" \in DOMAIN change, change.step \in {"forgetHistory", "answer"}
        PROVE  ChainInv(route'[r])
    <3>1. route'[r].step = change.step
      BY <2>1, RouteIs DEF ChainFields
    <3> QED BY <1>6, <2>1, <3>1, StaysInStage DEF Bridge
  <2>2. CASE Move(r, [step |-> "forgetHistory", lookedAt |-> now])
    BY <2>1, <2>2
  <2>3. ASSUME NEW bridged, Move(r, [step |-> "answer", bridged |-> bridged]) PROVE ChainInv(route'[r])
    BY <2>1, <2>3
  <2> QED BY <1>6, <2>2, <2>3 DEF Bridge
<1>7. CASE Answer(r)
  BY <1>7, WalkKeepsChain, OverIsFine, StaysOnTo DEF Answer
<1>8. CASE ForgetSession(r)
  <2>1. To(r, route[r].then) /\ route[r].then = Stage(route[r])
    BY <1>8 DEF ForgetSession
  <2> QED BY <2>1, StaysOnTo
<1>9. CASE ForgetHistory(r)
  BY <1>9, StaysOnTo DEF ForgetHistory
<1>10. CASE LearnModel(r) \/ LearnUser(r)
  BY <1>10, StaysOnTo DEF LearnModel, LearnUser
<1>11. CASE LearnAssistant(r)
  BY <1>11, OverIsFine DEF LearnAssistant
<1> QED BY <1>1, <1>2, <1>3, <1>4, <1>5, <1>6, <1>7, <1>8, <1>9, <1>10, <1>11 DEF ActionOf

\* The chains are kept from the first step on.
LEMMA ChainsInit == Init => ChainsInv
<1>1. ChainFields \subseteq DOMAIN NoRoute /\ Stage(NoRoute) = "idle"
  BY DEF NoRoute, ChainFields, Stage
<1>2. ChainInv(NoRoute)
  BY <1>1 DEF ChainInv, Unranked, RankedOnly, Trying
<1> QED BY <1>2 DEF Init, ChainsInv

LEMMA ChainsStep ==
  ASSUME ChainsInv, RoutesTyped, now \in Nat, [Next]_vars
  PROVE  ChainsInv'
<1>1. CASE UNCHANGED route
  BY <1>1 DEF ChainsInv, ChainInv
<1>2. ASSUME NEW r \in Requests, ActionOf(r) PROVE ChainsInv'
  <2>1. DOMAIN route' = Requests /\ \A q \in Requests \ {r} : route'[q] = route[q]
    BY <1>2, RequestMoves DEF RouteMoves
  <2>2. route[r].then # "forgetSession"
    BY DEF RoutesTyped, RouteTyped
  <2>3. ChainInv(route'[r])
    BY <1>2, <2>2, ChainStep
  <2>4. \A q \in Requests : ChainInv(route'[q])
    BY <2>1, <2>3 DEF ChainsInv
  <2> QED BY <2>1, <2>4 DEF ChainsInv, ChainInv
<1> QED BY <1>1, <1>2 DEF Next, Tick, vars, ActionOf

\* An auto request is served by a model that is active, able if any is,
\* permitted and not yet refused, and by its session's unless that is none of
\* these or was tried first; for any catalog, strategies and interleavings.
THEOREM ServedAsRoutedHolds == Spec => []ServedAsRouted
<1>1. ASSUME ChainsInv PROVE ServedAsRouted
  <2> SUFFICES ASSUME NEW r \in Requests, At(r, "set"), IsAuto(route[r].ask)
               PROVE  /\ Head(route[r].chain) \in Offered(route[r].ask) \ route[r].passed
                      /\ route[r].home \in Offered(route[r].ask) =>
                           route[r].home \in route[r].passed \cup {Head(route[r].chain)}
    BY DEF ServedAsRouted, Offered, Eligible, AbleTo
  <2>1. Stage(route[r]) \in Trying
    BY DEF At, Stage, Trying
  <2>2. /\ route[r].chain \in Seq(Models) /\ route[r].chain # <<>>
        /\ ToSet(route[r].chain) \subseteq Offered(route[r].ask) \ route[r].passed
        /\ route[r].home \in Offered(route[r].ask) => route[r].home \in route[r].passed \cup {Head(route[r].chain)}
    BY <1>1, <2>1 DEF ChainsInv, ChainInv
  <2>3. Head(route[r].chain) \in ToSet(route[r].chain)
    <3>1. 1 \in DOMAIN route[r].chain /\ Head(route[r].chain) = route[r].chain[1]
      BY <2>2
    <3> QED BY <3>1 DEF ToSet
  <2> QED BY <2>2, <2>3
<1>2. StoresInv => RoutesTyped /\ now \in Nat
  BY DEF StoresInv
<1>3. Spec => []ChainsInv
  BY <1>2, ChainsInit, ChainsStep, StoresInvariant, PTL DEF Spec
<1> QED BY <1>1, <1>3, PTL
=============================================================================
